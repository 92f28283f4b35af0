-------------------------- MODULE MCSplitMonoTable --------------------------
(***************************************************************************)
(* A trie of three levels with three slots per node; slots 0 and 1 share a *)
(* bitmap byte.  "a", "b" and "c" meet at the root.  Below it, "a" and "b" *)
(* share one more level and then part in two bitmap bytes (a subtrie is    *)
(* linked in between); "a" and "c" part at once, in one byte.  Inserting   *)
(* "c" after "a" and "b" adds a bit to a byte that has one already.  Key   *)
(* "d" goes through a root slot of its own.                                *)
(***************************************************************************)
EXTENDS SplitMonoTable

MCSlot == {0, 1, 2}
MCByte == [s \in MCSlot |-> IF s = 2 THEN 1 ELSE 0]

Digits(x, y, z) == [d \in 0 .. 2 |-> IF d = 0 THEN x ELSE IF d = 1 THEN y ELSE z]

MCDigit ==
  [k \in Key |->
     CASE k = "a" -> Digits(0, 0, 0)
       [] k = "b" -> Digits(0, 0, 2)
       [] k = "c" -> Digits(0, 1, 0)
       [] k = "d" -> Digits(1, 0, 0)]

\* A process that is killed leaves files which the next one opens as they
\* are: split2mono run by hand, outside the worktree that mt-db resets.
Reopen ==
  /\ mode = "dead"
  /\ mode' = "closed"
  /\ data' = diskData
  /\ index' = diskIndex
  /\ UNCHANGED <<files, saved, op, update, reply>>

NextByHand == Process \/ FoundUnreadable \/ Reopen
SpecByHand == Init /\ [][NextByHand]_vars
=============================================================================
