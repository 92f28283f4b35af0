--------------------------- MODULE SplitMonoTable ---------------------------
(***************************************************************************)
(* One table of the split2mono database on disk (data_query.h,             *)
(* index_query.h, file_stream.h): an append-only data file of (key, value) *)
(* records and an index file that holds a trie over the bits of the keys.  *)
(* The trie consumes the bits of a key in groups; Digit[k][d] is the group *)
(* read at depth d (14 bits at the root, 6 bits below it) and a slot is    *)
(* its value.  Each trie node has an entry and a bitmap bit per slot;      *)
(* Byte[s] tells which byte of the bitmap holds the bit of slot s.         *)
(*                                                                         *)
(* Both files are stdio streams.  A write goes to the stream's buffer and  *)
(* reaches the file at the stream's next seek, or when the stream is       *)
(* closed.  index and data are what the process reads through its streams; *)
(* diskIndex and diskData are what the files hold, that is, what another   *)
(* process reads now and what is left when this one is killed.             *)
(***************************************************************************)
EXTENDS Integers, Sequences

CONSTANTS
  Key,          \* the keys (sha1s) in play
  Value,        \* the values stored with them
  Slot,         \* the values of a group of bits
  Depth,        \* number of groups of bits in a key
  Digit,        \* Digit[k][d]: the group of k consumed at depth d
  Byte,         \* Byte[s]: the bitmap byte that holds the bit of slot s
  MaxRecords    \* bound: records the data file may hold (2^23 in the code)

ASSUME ConstantsAssumption ==
  /\ Key # {}
  /\ Depth \in Nat \ {0}
  /\ Digit \in [Key -> [0 .. Depth - 1 -> Slot]]
  /\ Byte \in [Slot -> Nat]
  /\ MaxRecords \in Nat
  /\ \A k, e \in Key : k # e => \E d \in 0 .. Depth - 1 : Digit[k][d] # Digit[e][d]

VARIABLES
  data,        \* the records, as the process sees them
  index,       \* the index, as the process sees it
  diskData,    \* the records in the data file
  diskIndex,   \* the index file
  saved,       \* the files of the version committed to the mt-db ref
  mode,        \* "closed", "open", "closing" (data closed, index not yet), "dead"
  op,          \* the operation in progress, with the trie node it has reached
  stack,       \* index updates of the insertion (struct trie_update_stack)
  top,         \* updates of the stack still to be made
  half,        \* the entry of stack[top] is written, its bitmap byte is not
  reply        \* the answer of the last operation

streams == <<data, index>>
files   == <<diskData, diskIndex>>
update  == <<stack, top, half>>
vars == <<data, index, diskData, diskIndex, saved, mode, op, stack, top, half, reply>>

Root == -1
NoOp == [kind |-> "none"]
NoReply == [kind |-> "none", key |-> "none", value |-> "none", result |-> "none"]

(***************************************************************************)
(* An index: the entries written so far, the set bits, the number of       *)
(* subtries the file spans (the code computes it from the file's length)   *)
(* and, only for the properties, the key and depth a node was made for.    *)
(***************************************************************************)
RootOwner == [key |-> CHOOSE k \in Key : TRUE, depth |-> 0]

EmptyIndex ==
  [entry |-> [p \in {} |-> 0], bits |-> {}, end |-> 0,
   owner |-> [n \in {Root} |-> RootOwner]]

Init ==
  /\ data = <<>>
  /\ index = EmptyIndex
  /\ diskData = <<>>
  /\ diskIndex = EmptyIndex
  /\ saved = [data |-> <<>>, index |-> EmptyIndex]
  /\ mode = "closed"
  /\ op = NoOp
  /\ stack = <<>>
  /\ top = 0
  /\ half = FALSE
  /\ reply = NoReply

(***************************************************************************)
(* The streams.                                                            *)
(***************************************************************************)
FlushIndex == diskIndex' = index
FlushData  == diskData' = data

\* opendb: a fresh process opens both files.
Open ==
  /\ mode = "closed"
  /\ mode' = "open"
  /\ data' = diskData
  /\ index' = diskIndex
  /\ UNCHANGED <<files, saved, op, update, reply>>

\* close_files: the data stream is closed first, then the index stream.
CloseData ==
  /\ mode = "open"
  /\ op = NoOp
  /\ mode' = "closing"
  /\ FlushData
  /\ UNCHANGED <<streams, diskIndex, saved, op, update, reply>>

CloseIndex ==
  /\ mode = "closing"
  /\ mode' = "closed"
  /\ FlushIndex
  /\ UNCHANGED <<streams, diskData, saved, op, update, reply>>

(***************************************************************************)
(* Lookup: one step per trie level.  The first seek of the index flushes   *)
(* it; the seek that reads a record flushes the data file.                 *)
(***************************************************************************)
Begin(kind, k, v) ==
  /\ mode = "open"
  /\ op = NoOp
  /\ op' = [kind |-> kind, key |-> k, value |-> v, node |-> Root, depth |-> 0]
  /\ reply' = NoReply
  /\ FlushIndex
  /\ UNCHANGED <<streams, diskData, saved, mode, update>>

Looking == mode = "open" /\ op # NoOp /\ top = 0

\* An entry that was never written reads as zero bytes: not data, number 0.
EntryAt(idx, p) ==
  IF p \in DOMAIN idx.entry THEN idx.entry[p] ELSE [leaf |-> FALSE, num |-> 0]

Place    == <<op.node, Digit[op.key][op.depth]>>
BitSet   == Place \in index.bits
Hit      == BitSet /\ EntryAt(index, Place).leaf
HitNum   == EntryAt(index, Place).num
Readable == HitNum < Len(data)
HitKey   == data[HitNum + 1].key
HitValue == data[HitNum + 1].value

\* lookup_impl with advance: the entry is a subtrie, go down one level.
Descend ==
  /\ Looking
  /\ BitSet /\ ~Hit
  /\ op.depth + 1 < Depth
  /\ op' = [op EXCEPT !.node = HitNum, !.depth = @ + 1]
  /\ UNCHANGED <<streams, files, saved, mode, update, reply>>

Answer(result) ==
  /\ op' = NoOp
  /\ reply' = [kind |-> op.kind, key |-> op.key, value |-> op.value, result |-> result]

\* After an error the program returns, which closes the streams.
Errors == {"already mapped", "mismatch", "index issue"}
AnswerAndGoOn(result) ==
  /\ Answer(result)
  /\ mode' = IF result \in Errors THEN "closing" ELSE mode

\* A mutant of FoundMapped: the key of the record is not compared.
FoundMappedAnyKey ==
  /\ Looking
  /\ Hit /\ Readable
  /\ FlushData
  /\ AnswerAndGoOn(CASE op.kind = "lookup" -> HitValue
                     [] op.kind = "insert" -> "already mapped"
                     [] op.kind = "check"  ->
                          IF HitValue = op.value THEN "ok" ELSE "mismatch")
  /\ UNCHANGED <<streams, diskIndex, saved, update>>

\* The entry found leads to the key's own record.
FoundMapped ==
  /\ Looking
  /\ Hit /\ Readable
  /\ HitKey = op.key
  /\ FlushData
  /\ AnswerAndGoOn(CASE op.kind = "lookup" -> HitValue
                     [] op.kind = "insert" -> "already mapped"
                     [] op.kind = "check"  ->
                          IF HitValue = op.value THEN "ok" ELSE "mismatch")
  /\ UNCHANGED <<streams, diskIndex, saved, update>>

\* The entry found leads to a record that is not in the data file.  With the
\* reset of mt-db that is impossible; see NextByHand in MCSplitMonoTable.
FoundUnreadable ==
  /\ Looking
  /\ Hit /\ ~Readable
  /\ FlushData
  /\ AnswerAndGoOn("index issue")
  /\ UNCHANGED <<streams, diskIndex, saved, update>>

\* lookup of an unmapped key; the data stream is read only after a hit.
LookupAbsent ==
  /\ Looking
  /\ op.kind = "lookup"
  /\ ~BitSet \/ (Hit /\ Readable /\ HitKey # op.key)
  /\ IF Hit THEN FlushData ELSE UNCHANGED diskData
  /\ AnswerAndGoOn("absent")
  /\ UNCHANGED <<streams, diskIndex, saved, update>>

(***************************************************************************)
(* Insertion: append the record, then run the stack of index updates.      *)
(***************************************************************************)
SameByte(s, t) == Byte[s] = Byte[t]

\* A mutant of NewEntry: the other bits of the byte are forgotten.
NewEntryForgetsBits ==
  << [node |-> op.node, slot |-> Digit[op.key][op.depth],
      leaf |-> TRUE, num |-> Len(data), skip |-> FALSE,
      slots |-> {Digit[op.key][op.depth]}] >>

\* A mutant of NewEntry: the number is computed after the record is written.
NewEntryNumberedLate ==
  << [node |-> op.node, slot |-> Digit[op.key][op.depth],
      leaf |-> TRUE, num |-> Len(data) + 1, skip |-> FALSE,
      slots |-> {s \in Slot : \/ s = Digit[op.key][op.depth]
                              \/ /\ SameByte(s, Digit[op.key][op.depth])
                                 /\ <<op.node, s>> \in index.bits}] >>

\* insert_new_entry: one entry, and the bitmap byte read by the lookup with
\* one more bit.
NewEntry ==
  << [node |-> op.node, slot |-> Digit[op.key][op.depth],
      leaf |-> TRUE, num |-> Len(data), skip |-> FALSE,
      slots |-> {s \in Slot : \/ s = Digit[op.key][op.depth]
                              \/ /\ SameByte(s, Digit[op.key][op.depth])
                                 /\ <<op.node, s>> \in index.bits}] >>

\* get_mismatched_bit, in groups of bits.
Mismatch(k, e) ==
  CHOOSE d \in 0 .. Depth - 1 :
    Digit[k][d] # Digit[e][d] /\ \A j \in 0 .. d - 1 : Digit[k][j] = Digit[e][j]

\* update_after_collision: new subtries from the colliding place down to the
\* first group that tells the two keys apart.  stack[1] redirects the place
\* that holds the existing key; the two records hang from the last subtrie.
Collision(existing) ==
  LET k     == op.key
      m     == Mismatch(k, existing)
      chain == m - op.depth - 1
      next  == index.end
      n     == Digit[k][m]
      f     == Digit[existing][m]
      Redirect ==
        [node |-> op.node, slot |-> Digit[k][op.depth], leaf |-> FALSE,
         num |-> next, skip |-> TRUE, slots |-> {}]
      Link(i) ==
        [node |-> next + i - 2, slot |-> Digit[k][op.depth + i - 1], leaf |-> FALSE,
         num |-> next + i - 1, skip |-> FALSE, slots |-> {Digit[k][op.depth + i - 1]}]
      Existing ==
        [node |-> next + chain, slot |-> f, leaf |-> TRUE, num |-> HitNum,
         skip |-> FALSE, slots |-> IF SameByte(n, f) THEN {n, f} ELSE {f}]
      New ==
        [node |-> next + chain, slot |-> n, leaf |-> TRUE, num |-> Len(data),
         skip |-> SameByte(n, f), slots |-> {n}]
  IN [i \in 1 .. chain + 3 |->
        IF i = 1 THEN Redirect
        ELSE IF i <= chain + 1 THEN Link(i)
        ELSE IF i = chain + 2 THEN Existing ELSE New]

\* The nodes a collision makes, with the key and depth they are made for.
CollisionOwners(existing) ==
  LET next == index.end
      last == next + Mismatch(op.key, existing) - op.depth - 1
  IN [n \in DOMAIN index.owner \cup next .. last |->
        IF n \in next .. last
        THEN [key |-> op.key, depth |-> op.depth + 1 + (n - next)]
        ELSE index.owner[n]]

\* insert_data_impl: append to the data stream (the seek to its end flushes
\* what was pending), then start updating the index.
AppendRecord ==
  /\ Len(data) < MaxRecords
  /\ FlushData
  /\ data' = Append(data, [key |-> op.key, value |-> op.value])
  /\ half' = FALSE

InsertNew ==
  /\ Looking
  /\ op.kind # "lookup"
  /\ ~BitSet
  /\ AppendRecord
  /\ stack' = NewEntry
  /\ top' = 1
  /\ UNCHANGED <<index, diskIndex, saved, mode, op, reply>>

\* The code asserts that the two keys agree on every group above op.depth.
KeysShareThePath(existing) == Mismatch(op.key, existing) > op.depth

\* A mutant of InsertCollision: the existing place is redirected first.
InsertCollisionTopDown ==
  /\ Looking
  /\ op.kind # "lookup"
  /\ Hit /\ Readable
  /\ HitKey # op.key
  /\ KeysShareThePath(HitKey)
  /\ AppendRecord
  /\ LET n == Len(Collision(HitKey))
     IN stack' = [i \in 1 .. n |-> Collision(HitKey)[n + 1 - i]] /\ top' = n
  /\ index' = [index EXCEPT !.owner = CollisionOwners(HitKey)]
  /\ UNCHANGED <<diskIndex, saved, mode, op, reply>>

InsertCollision ==
  /\ Looking
  /\ op.kind # "lookup"
  /\ Hit /\ Readable
  /\ HitKey # op.key
  /\ KeysShareThePath(HitKey)
  /\ AppendRecord
  /\ stack' = Collision(HitKey)
  /\ top' = Len(stack')
  /\ index' = [index EXCEPT !.owner = CollisionOwners(HitKey)]
  /\ UNCHANGED <<diskIndex, saved, mode, op, reply>>

\* One update is done: go down the stack, and answer after the last one.
Pop ==
  /\ half' = FALSE
  /\ top' = top - 1
  /\ IF top = 1 THEN Answer("ok") ELSE UNCHANGED <<op, reply>>
  /\ UNCHANGED stack

Larger(a, b) == IF a > b THEN a ELSE b

\* Seek, then write the index entry of stack[top].
WriteEntry ==
  /\ mode = "open" /\ top > 0 /\ ~half
  /\ FlushIndex
  /\ LET u == stack[top]
         p == <<u.node, u.slot>>
     IN /\ index' = [index EXCEPT
             !.entry = [q \in DOMAIN index.entry \cup {p} |->
                          IF q = p THEN [leaf |-> u.leaf, num |-> u.num]
                          ELSE index.entry[q]],
             !.end = Larger(@, u.node + 1)]
        /\ IF u.skip THEN Pop
           ELSE half' = TRUE /\ UNCHANGED <<op, stack, top, reply>>
  /\ UNCHANGED <<data, diskData, saved, mode>>

\* Seek, then write the whole bitmap byte of stack[top].
WriteBitmap ==
  /\ mode = "open" /\ top > 0 /\ half
  /\ FlushIndex
  /\ LET u == stack[top]
     IN index' = [index EXCEPT
          !.bits = {q \in @ : ~(q[1] = u.node /\ SameByte(q[2], u.slot))}
                     \cup {<<u.node, s>> : s \in u.slots}]
  /\ Pop
  /\ UNCHANGED <<data, diskData, saved, mode>>

(***************************************************************************)
(* Ends of a process and versions of the database.                         *)
(***************************************************************************)
\* A mutant of Fail: the stack is dropped, the place in it is not.
FailKeepsTop ==
  /\ mode = "open"
  /\ op # NoOp
  /\ mode' = "closing"
  /\ op' = NoOp
  /\ stack' = <<>> /\ top' = top /\ half' = FALSE
  /\ FlushData
  /\ UNCHANGED <<streams, diskIndex, saved, reply>>

\* An error return in the middle of an operation: the destructors close, and
\* so flush, both streams.
Fail ==
  /\ mode = "open"
  /\ op # NoOp
  /\ mode' = "closing"
  /\ op' = NoOp
  /\ stack' = <<>> /\ top' = 0 /\ half' = FALSE
  /\ FlushData
  /\ UNCHANGED <<streams, diskIndex, saved, reply>>

\* A signal or a failed assertion: what the streams hold is lost.
Kill ==
  /\ mode \in {"open", "closing"}
  /\ mode' = "dead"
  /\ op' = NoOp
  /\ stack' = <<>> /\ top' = 0 /\ half' = FALSE
  /\ UNCHANGED <<streams, files, saved, reply>>

\* mt_db_save: commit the worktree to the mt-db ref.
Save ==
  /\ mode = "closed"
  /\ saved' = [data |-> diskData, index |-> diskIndex]
  /\ UNCHANGED <<streams, files, mode, op, update, reply>>

\* A mutant of Reset: the worktree is used as it is.
ResetNothing ==
  /\ mode \in {"closed", "dead"}
  /\ mode' = "closed"
  /\ data' = diskData
  /\ index' = diskIndex
  /\ UNCHANGED <<files, saved, op, update, reply>>

\* mt_db_make_worktree: put the worktree back to the version of the ref.
Reset ==
  /\ mode \in {"closed", "dead"}
  /\ mode' = "closed"
  /\ diskData' = saved.data
  /\ diskIndex' = saved.index
  /\ data' = diskData'
  /\ index' = diskIndex'
  /\ UNCHANGED <<saved, op, update, reply>>

\* What a split2mono process does to the files, and what happens to it.
Process ==
  \/ Open \/ CloseData \/ CloseIndex
  \/ \E k \in Key : \/ Begin("lookup", k, "none")
                   \/ \E kind \in {"insert", "check"}, v \in Value : Begin(kind, k, v)
  \/ Descend
  \/ FoundMapped \/ LookupAbsent
  \/ InsertNew \/ InsertCollision
  \/ WriteEntry \/ WriteBitmap
  \/ Fail \/ Kill

Next == Process \/ Save \/ Reset

Spec == Init /\ [][Next]_vars

-----------------------------------------------------------------------------
(***************************************************************************)
(* What a pair of files means: the record a lookup of k arrives at, and    *)
(* the map that lookups compute.                                           *)
(***************************************************************************)
Nowhere == -2

\* Trail(idx, k)[d]: the trie node a lookup of k visits at depth d.
Trail(idx, k) ==
  LET at[d \in 0 .. Depth - 1] ==
        IF d = 0 THEN Root
        ELSE LET p == <<at[d - 1], Digit[k][d - 1]>>
             IN IF p \in idx.bits /\ ~EntryAt(idx, p).leaf
                THEN EntryAt(idx, p).num ELSE Nowhere
  IN at

Found(idx, dat, k) ==
  LET trail  == Trail(idx, k)
      places == {<<trail[d], Digit[k][d]>> : d \in 0 .. Depth - 1} \cap idx.bits
      nums   == {EntryAt(idx, p).num : p \in {q \in places : EntryAt(idx, q).leaf}}
  IN {i \in nums : i < Len(dat) /\ dat[i + 1].key = k}

MapOf(idx, dat) ==
  LET found  == [k \in Key |-> Found(idx, dat, k)]
      mapped == {k \in Key : found[k] # {}}
  IN [k \in mapped |-> dat[(CHOOSE i \in found[k] : TRUE) + 1].value]

\* Every mapping of m is one of n.
Within(m, n) == \A k \in DOMAIN m : k \in DOMAIN n /\ n[k] = m[k]

-----------------------------------------------------------------------------
Record == [key : Key, value : Value]
Entry  == [leaf : BOOLEAN, num : Nat]
NodeId == Nat \cup {Root}
Update == [node : NodeId, slot : Slot, leaf : BOOLEAN, num : Nat,
           skip : BOOLEAN, slots : SUBSET Slot]

IndexOK(idx) ==
  /\ DOMAIN idx = {"entry", "bits", "end", "owner"}
  /\ DOMAIN idx.entry \subseteq NodeId \X Slot
  /\ \A p \in DOMAIN idx.entry : idx.entry[p] \in Entry
  /\ idx.bits \subseteq NodeId \X Slot
  /\ idx.end \in Nat
  /\ DOMAIN idx.owner \subseteq NodeId
  /\ \A n \in DOMAIN idx.owner : idx.owner[n] \in [key : Key, depth : 0 .. Depth - 1]

\* The types of the variables.
TypeOK ==
  /\ data \in Seq(Record) /\ diskData \in Seq(Record)
  /\ IndexOK(index) /\ IndexOK(diskIndex)
  /\ DOMAIN saved = {"data", "index"}
  /\ saved.data \in Seq(Record) /\ IndexOK(saved.index)
  /\ mode \in {"closed", "open", "closing", "dead"}
  /\ \/ op = NoOp
     \/ op \in [kind : {"lookup"}, key : Key, value : {"none"}, node : NodeId,
                depth : 0 .. Depth - 1]
     \/ op \in [kind : {"insert", "check"}, key : Key, value : Value,
                node : NodeId, depth : 0 .. Depth - 1]
  /\ stack \in Seq(Update)
  /\ top \in 0 .. Len(stack)
  /\ half \in BOOLEAN
  /\ DOMAIN reply = {"kind", "key", "value", "result"}

\* Key k goes through slot s of a node made for key o.key at depth o.depth.
OnPath(o, s, k) ==
  /\ Digit[k][o.depth] = s
  /\ \A d \in 0 .. o.depth - 1 : Digit[k][d] = Digit[o.key][d]

\* What an entry of node n at slot s may hold: the number of a record whose
\* key goes through this slot, or the number of a subtrie one level down.
EntrySound(idx, dat, n, s, e) ==
  /\ n \in DOMAIN idx.owner
  /\ e.leaf => /\ e.num < Len(dat)
               /\ OnPath(idx.owner[n], s, dat[e.num + 1].key)
  /\ ~e.leaf => /\ e.num \in DOMAIN idx.owner
                /\ idx.owner[e.num].depth = idx.owner[n].depth + 1
                /\ OnPath(idx.owner[n], s, idx.owner[e.num].key)

\* Every bit of the trie that is set has an entry, and every entry is sound,
\* at each point of the bottom-up update of update_after_collision: whatever
\* was left by earlier insertions that failed half-way, the process never
\* arrives at a record of another slot.
IndexSound ==
  mode # "dead" =>
    \A p \in index.bits :
      /\ p \in DOMAIN index.entry
      /\ EntrySound(index, data, p[1], p[2], index.entry[p])

\* The assertion of update_after_collision, "first_mismatched_bit >=
\* num_bits_so_far - num_subtrie_bits": the record that an insertion arrives
\* at has a key that agrees with the inserted one on the whole path.
CollisionAssertHolds ==
  Looking /\ op.kind # "lookup" /\ Hit /\ Readable /\ HitKey # op.key => KeysShareThePath(HitKey)

\* What another process reads from the two files while this one writes them
\* lags behind, and never contradicts, what this one has inserted.
FilesLagBehind ==
  mode \in {"open", "closing"} =>
    Within(MapOf(diskIndex, diskData), MapOf(index, data))

\* "Update index in reverse, so that if this gets aborted early (or killed)
\* the output file has no semantic changes": whatever write has reached the
\* files last, the mappings they held before are all still found.
NoSemanticChange ==
  [][ Reset \/ Within(MapOf(diskIndex, diskData), MapOf(diskIndex', diskData')) ]_files

\* The table is the write-once map of CommitMap: every operation answers what
\* the map would, an insertion takes effect at its last write, a failed or
\* killed one not at all, and a reset goes back to the saved map.
Map ==
  INSTANCE CommitMap WITH
    map   <- IF mode = "dead" THEN MapOf(saved.index, saved.data)
                              ELSE MapOf(index, data),
    saved <- MapOf(saved.index, saved.data)

ImplementsMap == Map!Spec
=============================================================================
