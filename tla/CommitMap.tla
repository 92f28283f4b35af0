------------------------------ MODULE CommitMap ------------------------------
(***************************************************************************)
(* What one table of the split2mono database promises to its callers: a    *)
(* map from keys (split commits, or mono commits of the svnbase table) to  *)
(* values that is written once per key.  Nothing is ever removed from the  *)
(* map, except that the whole database goes back to the version saved in   *)
(* the mt-db ref.  Every operation takes effect at one instant.            *)
(*                                                                         *)
(* SplitMonoTable implements this specification with an append-only data   *)
(* file and a trie index that is updated one write at a time.              *)
(***************************************************************************)
EXTENDS Integers

CONSTANTS Key, Value

VARIABLES
  map,     \* the mappings the program sees: a partial function Key -> Value
  saved,   \* the mappings of the version saved in the mt-db ref
  reply    \* the answer of the last operation

vars == <<map, saved, reply>>

Reply(kind, k, v, result) == [kind |-> kind, key |-> k, value |-> v, result |-> result]

Extend(f, k, v) == [x \in DOMAIN f \cup {k} |-> IF x = k THEN v ELSE f[x]]

Init ==
  /\ map = [k \in {} |-> 0]
  /\ saved = map
  /\ reply = Reply("none", "none", "none", "none")

\* The next operation is called.
Call ==
  /\ reply' = Reply("none", "none", "none", "none")
  /\ UNCHANGED <<map, saved>>

\* lookup_data: the value, or "absent".
Lookup(k) ==
  /\ reply' = Reply("lookup", k, "none", IF k \in DOMAIN map THEN map[k] ELSE "absent")
  /\ UNCHANGED <<map, saved>>

\* insert_data and insert_data_or_check_equal on a key that is not mapped.
Insert(kind, k, v) ==
  /\ k \notin DOMAIN map
  /\ map' = Extend(map, k, v)
  /\ reply' = Reply(kind, k, v, "ok")
  /\ UNCHANGED saved

\* insert_data on a mapped key is refused, whatever the value.
Refuse(k, v) ==
  /\ k \in DOMAIN map
  /\ reply' = Reply("insert", k, v, "already mapped")
  /\ UNCHANGED <<map, saved>>

\* insert_data_or_check_equal on a mapped key.
Check(k, v) ==
  /\ k \in DOMAIN map
  /\ reply' = Reply("check", k, v, IF map[k] = v THEN "ok" ELSE "mismatch")
  /\ UNCHANGED <<map, saved>>

Save ==
  /\ saved' = map
  /\ UNCHANGED <<map, reply>>

Revert ==
  /\ map' = saved
  /\ UNCHANGED <<saved, reply>>

Next ==
  \/ \E k \in Key : Lookup(k)
  \/ \E k \in Key, v \in Value :
       \/ Check(k, v) \/ Refuse(k, v)
       \/ \E kind \in {"insert", "check"} : Insert(kind, k, v)
  \/ Call
  \/ Save
  \/ Revert

Spec == Init /\ [][Next]_vars
=============================================================================
