------------------------ MODULE SplitMonoTable_proofs ------------------------
(***************************************************************************)
(* For every set of keys, width of the groups of bits, layout of the       *)
(* bitmap and number of records: the types are right, and the index is     *)
(* sound at every point of every update (IInv); no write takes a mapping   *)
(* from the files, and the table implements the map of CommitMap (MInv).   *)
(***************************************************************************)
EXTENDS SplitMonoTable, TLAPS, WellFoundedInduction

\* Key k shares the path that leads to a node of this owner.
Shares(o, k) == \A d \in 0 .. o.depth - 1 : Digit[k][d] = Digit[o.key][d]

\* An entry, and where it may point: into the data, or to a subtrie the file
\* already spans.
Settled(idx, dat, n, s, e) ==
  /\ EntrySound(idx, dat, n, s, e)
  /\ n < idx.end
  /\ ~e.leaf => e.num < idx.end

Sound(idx, dat) ==
  /\ Root \in DOMAIN idx.owner
  /\ idx.owner[Root].depth = 0
  /\ idx.bits \subseteq DOMAIN idx.entry
  /\ \A p \in DOMAIN idx.entry : Settled(idx, dat, p[1], p[2], idx.entry[p])

\* The operation has reached a node made for a prefix of its key.
OpSound ==
  op # NoOp =>
    /\ op.node \in DOMAIN index.owner
    /\ op.node < index.end
    /\ index.owner[op.node].depth = op.depth
    /\ Shares(index.owner[op.node], op.key)

\* Each update still on the stack may be made once those above it are: its
\* entry is sound, a subtrie it names has been written to, and each bit of
\* its bitmap byte has an entry.
UpdateSound(i) ==
  LET u == stack[i]
  IN /\ EntrySound(index, data, u.node, u.slot, u)
     /\ ~u.leaf => u.num < index.end \/ (i < top /\ stack[i + 1].node = u.num)
     /\ i = top /\ half => <<u.node, u.slot>> \in DOMAIN index.entry
     /\ \A s \in u.slots :
          \/ s = u.slot
          \/ <<u.node, s>> \in DOMAIN index.entry
          \/ i < top /\ stack[i + 1].node = u.node /\ stack[i + 1].slot = s

StackSound == \A i \in 1 .. top : UpdateSound(i)

\* What the modes say about the streams and the files.
ModesOK ==
  /\ mode # "open" => op = NoOp /\ top = 0
  /\ op = NoOp => top = 0
  /\ mode = "closing" => diskData = data
  /\ mode = "closed" => diskData = data /\ diskIndex = index

IInv ==
  /\ TypeOK
  /\ mode # "dead" => Sound(index, data)
  /\ Sound(saved.index, saved.data)
  /\ OpSound
  /\ StackSound
  /\ ModesOK

-----------------------------------------------------------------------------
(***************************************************************************)
(* The first group of bits on which two keys differ exists.                *)
(***************************************************************************)
NatLess == {ss \in Nat \X Nat : ss[1] < ss[2]}

\* The order of the natural numbers is well-founded.
LEMMA NatLessWellFounded == IsWellFoundedOn(NatLess, Nat)
BY NatLessThanWellFounded DEF OpToRel, NatLess

\* A set of natural numbers that is not empty has a smallest element.
LEMMA SmallestNat ==
  ASSUME NEW T, T \subseteq Nat, T # {}
  PROVE  \E m \in T : \A n \in T : m <= n
<1>1. PICK m \in T : \A n \in T : <<n, m>> \notin NatLess
  BY NatLessWellFounded, WFMin
<1>2. ASSUME NEW n \in T PROVE m <= n
  <2>1. <<n, m>> \in Nat \X Nat
    OBVIOUS
  <2>2. ~ (<<n, m>>[1] < <<n, m>>[2])
    BY <1>1, <2>1 DEF NatLess
  <2> QED BY <2>2
<1> QED BY <1>2

\* get_mismatched_bit returns the first group on which two keys differ.
LEMMA MismatchProperties ==
  ASSUME NEW k \in Key, NEW e \in Key, k # e
  PROVE  /\ Mismatch(k, e) \in 0 .. Depth - 1
         /\ Digit[k][Mismatch(k, e)] # Digit[e][Mismatch(k, e)]
         /\ \A j \in 0 .. Mismatch(k, e) - 1 : Digit[k][j] = Digit[e][j]
<1> DEFINE T == {d \in 0 .. Depth - 1 : Digit[k][d] # Digit[e][d]}
<1>1. T \subseteq Nat /\ T # {}
  <2>1. PICK d \in 0 .. Depth - 1 : Digit[k][d] # Digit[e][d]
    BY ConstantsAssumption
  <2>2. d \in T
    BY <2>1
  <2>3. T \subseteq Nat
    BY ConstantsAssumption
  <2> QED BY <2>2, <2>3
<1>2. PICK m \in T : \A n \in T : m <= n
  BY <1>1, SmallestNat
<1>3. \A j \in 0 .. m - 1 : Digit[k][j] = Digit[e][j]
  <2>1. SUFFICES ASSUME NEW j \in 0 .. m - 1, Digit[k][j] # Digit[e][j] PROVE FALSE
    OBVIOUS
  <2>2. j \in T
    BY <1>2, <2>1, ConstantsAssumption
  <2> QED BY <1>2, <2>2, ConstantsAssumption
<1> HIDE DEF T
<1>4. /\ m \in 0 .. Depth - 1
      /\ Digit[k][m] # Digit[e][m] /\ \A j \in 0 .. m - 1 : Digit[k][j] = Digit[e][j]
  BY <1>2, <1>3 DEF T
<1> QED BY <1>4 DEF Mismatch

-----------------------------------------------------------------------------
(***************************************************************************)
(* The steps that leave the trie alone.                                    *)
(***************************************************************************)
LEMMA EmptyIndexOK == IndexOK(EmptyIndex)
<1> DEFINE x == EmptyIndex
<1>1. DOMAIN x = {"entry", "bits", "end", "owner"}
  BY DEF EmptyIndex
<1>2. x.entry = [p \in {} |-> 0] /\ x.bits = {} /\ x.end = 0
      /\ x.owner = [n \in {Root} |-> RootOwner]
  BY DEF EmptyIndex
<1>3. RootOwner \in [key : Key, depth : 0 .. Depth - 1]
  BY ConstantsAssumption DEF RootOwner
<1> HIDE DEF x
<1>4. IndexOK(x)
  BY <1>1, <1>2, <1>3 DEF IndexOK, NodeId
<1> QED BY <1>4 DEF x

\* The index of a new database is sound: it has no entry.
LEMMA EmptyIndexSound == Sound(EmptyIndex, <<>>)
BY DEF Sound, EmptyIndex, RootOwner

\* The invariant holds of a new database.
LEMMA InitOK == Init => IInv
<1> SUFFICES ASSUME Init PROVE IInv
  OBVIOUS
<1>1. TypeOK
  <2>1. data \in Seq(Record) /\ diskData \in Seq(Record) /\ stack \in Seq(Update)
        /\ saved.data \in Seq(Record) /\ DOMAIN saved = {"data", "index"}
    BY DEF Init
  <2>2. IndexOK(index) /\ IndexOK(diskIndex) /\ IndexOK(saved.index)
    BY EmptyIndexOK DEF Init
  <2>3. top \in 0 .. Len(stack) /\ DOMAIN reply = {"kind", "key", "value", "result"}
    BY DEF Init, NoReply
  <2>4. half \in BOOLEAN /\ op = NoOp /\ mode \in {"closed", "open", "closing", "dead"}
    BY DEF Init
  <2> QED BY <2>1, <2>2, <2>3, <2>4 DEF TypeOK
<1>2. Sound(index, data) /\ Sound(saved.index, saved.data)
  BY EmptyIndexSound DEF Init
<1> QED
  BY <1>1, <1>2 DEF Init, IInv, OpSound, StackSound, ModesOK

\* The conjuncts that read the streams hold as long as the streams, the
\* operation and its stack stay.
LEMMA OpFrame ==
  ASSUME OpSound, StackSound, UNCHANGED <<data, index, op, stack, top, half>>
  PROVE  OpSound' /\ StackSound'
<1>1. OpSound'
  BY DEF OpSound
<1>2. StackSound'
  BY DEF StackSound, UpdateSound
<1> QED BY <1>1, <1>2

\* Without an operation there is nothing to say of its place or of the stack.
LEMMA NoOpSound ==
  ASSUME op' = NoOp, top' = 0
  PROVE  OpSound' /\ StackSound'
BY DEF OpSound, StackSound

\* Opening, closing, saving, resetting, failing and being killed write
\* nothing to the index: the invariant is kept.
LEMMA QuietStep ==
  ASSUME IInv, \/ Open \/ CloseData \/ CloseIndex \/ Save \/ Reset
               \/ Fail \/ Kill \/ UNCHANGED vars
  PROVE  IInv'
<1>1. TypeOK'
  <2>1. \A w : w = [data |-> diskData, index |-> diskIndex] =>
               DOMAIN w = {"data", "index"} /\ w.data = diskData /\ w.index = diskIndex
    OBVIOUS
  <2>2. CASE Open \/ CloseData \/ CloseIndex \/ Save \/ UNCHANGED vars
    <3>1. UNCHANGED <<data, index, op, stack, top, half, reply>>
      BY <2>2 DEF Open, CloseData, CloseIndex, Save, vars, streams, update, ModesOK, IInv
    <3>2. /\ diskData' \in {data, diskData}
          /\ diskIndex' \in {index, diskIndex}
          /\ saved' \in {saved, [data |-> diskData, index |-> diskIndex]}
          /\ mode' \in {mode, "open", "closing", "closed"}
      BY <2>2 DEF Open, CloseData, CloseIndex, Save, vars, files, FlushIndex, FlushData
    <3>3. diskData' \in Seq(Record) /\ IndexOK(diskIndex')
      BY <3>2 DEF IInv, TypeOK
    <3>4. DOMAIN saved' = {"data", "index"} /\ saved'.data \in Seq(Record)
      BY <2>1, <3>2 DEF IInv, TypeOK
    <3>5. IndexOK(saved'.index)
      BY <2>1, <3>2 DEF IInv, TypeOK
    <3>6. mode' \in {"closed", "open", "closing", "dead"}
      BY <3>2 DEF IInv, TypeOK
    <3>7. /\ data' \in Seq(Record) /\ IndexOK(index') /\ stack' \in Seq(Update)
          /\ top' \in 0 .. Len(stack') /\ DOMAIN reply' = {"kind", "key", "value", "result"}
      BY <3>1 DEF IInv, TypeOK
    <3>8. half' \in BOOLEAN
      BY <3>1 DEF IInv, TypeOK
    <3>9. \/ op' = NoOp
          \/ op' \in [kind : {"lookup"}, key : Key, value : {"none"}, node : NodeId,
                      depth : 0 .. Depth - 1]
          \/ op' \in [kind : {"insert", "check"}, key : Key, value : Value,
                      node : NodeId, depth : 0 .. Depth - 1]
      BY <3>1 DEF IInv, TypeOK
    <3> QED BY <3>3, <3>4, <3>5, <3>6, <3>7, <3>8, <3>9 DEF TypeOK
  <2>3. CASE Reset
    <3>1. /\ data' = saved.data /\ diskData' = saved.data
          /\ index' = saved.index /\ diskIndex' = saved.index
          /\ mode' = "closed"
          /\ UNCHANGED <<saved, op, stack, top, half, reply>>
      BY <2>3 DEF Reset, update
    <3>2. half' \in BOOLEAN
      BY <3>1 DEF IInv, TypeOK
    <3> QED BY <3>1, <3>2 DEF IInv, TypeOK
  <2>4. CASE Fail \/ Kill
    <3>1. /\ op' = NoOp /\ stack' = <<>> /\ top' = 0 /\ half' = FALSE
          /\ mode' \in {"closing", "dead"}
          /\ diskData' \in {data, diskData}
          /\ UNCHANGED <<data, index, diskIndex, saved, reply>>
      BY <2>4 DEF Fail, Kill, streams, files, FlushData
    <3>2. half' \in BOOLEAN
      BY <3>1
    <3>3. stack' \in Seq(Update) /\ top' \in 0 .. Len(stack')
      BY <3>1
    <3> QED BY <3>1, <3>2, <3>3 DEF IInv, TypeOK
  <2> QED BY <2>2, <2>3, <2>4
<1>2. ModesOK'
  BY DEF IInv, ModesOK, Open, CloseData, CloseIndex, Save, Reset, Fail,
         Kill, vars, streams, files, update, FlushIndex, FlushData, NoOp
<1>3. CASE Open \/ CloseData \/ CloseIndex \/ Save \/ UNCHANGED vars
  <2>1. UNCHANGED <<data, index, op, stack, top, half>>
    BY <1>3 DEF IInv, ModesOK, Open, CloseData, CloseIndex, Save, vars, streams, update
  <2>2. mode' # "dead" => mode # "dead"
    BY <1>3 DEF Open, CloseData, CloseIndex, Save, vars
  <2>3. (mode # "dead" => Sound(index, data))'
    BY <2>1, <2>2 DEF IInv
  <2>4. Sound(saved.index, saved.data)'
    BY <1>3 DEF IInv, Open, CloseData, CloseIndex, Save, vars, ModesOK
  <2> QED BY <1>1, <1>2, <2>1, <2>3, <2>4, OpFrame DEF IInv
<1>4. CASE Reset \/ Fail \/ Kill
  <2>1. op' = NoOp /\ top' = 0
    BY <1>4 DEF IInv, ModesOK, Reset, Fail, Kill, update
  <2>2. (mode # "dead" => Sound(index, data))'
    BY <1>4 DEF IInv, Reset, Fail, Kill, streams
  <2>3. Sound(saved.index, saved.data)'
    BY <1>4 DEF IInv, Reset, Fail, Kill
  <2> QED BY <1>1, <1>2, <2>1, <2>2, <2>3, NoOpSound DEF IInv
<1> QED BY <1>3, <1>4

\* The steps of a lookup up to its answer.
LEMMA BeginStep ==
  ASSUME IInv, NEW kind, NEW k \in Key, NEW v, Begin(kind, k, v),
         \/ kind = "lookup" /\ v = "none"
         \/ kind \in {"insert", "check"} /\ v \in Value
  PROVE  IInv'
<1>1. TypeOK'
  <2>1. /\ op' = [kind |-> kind, key |-> k, value |-> v, node |-> Root, depth |-> 0]
        /\ DOMAIN reply' = {"kind", "key", "value", "result"}
        /\ diskIndex' = index
        /\ UNCHANGED <<data, index, diskData, saved, mode, stack, top, half>>
    BY DEF Begin, FlushIndex, streams, update, NoReply
  <2>2. 0 \in 0 .. Depth - 1 /\ Root \in NodeId
    BY ConstantsAssumption DEF NodeId
  <2>3. \/ op' \in [kind : {"lookup"}, key : Key, value : {"none"}, node : NodeId,
                    depth : 0 .. Depth - 1]
        \/ op' \in [kind : {"insert", "check"}, key : Key, value : Value,
                    node : NodeId, depth : 0 .. Depth - 1]
    BY <2>1, <2>2
  <2> QED BY <2>1, <2>3 DEF IInv, TypeOK
<1>2. OpSound'
  BY DEF IInv, Begin, OpSound, Shares, Sound, streams, Root, TypeOK, IndexOK
<1>3. StackSound'
  BY DEF IInv, ModesOK, Begin, StackSound, update
<1>4. ModesOK'
  BY DEF IInv, ModesOK, Begin, update
<1>5. Sound(index, data)' /\ Sound(saved.index, saved.data)'
  BY DEF IInv, Begin, streams
<1> QED BY <1>1, <1>2, <1>3, <1>4, <1>5 DEF IInv

\* An operation that ends with an answer leaves the index as it is.
LEMMA AnswerStep ==
  ASSUME IInv, FoundMapped \/ LookupAbsent
  PROVE  IInv'
<1> USE DEF FoundMapped, LookupAbsent, AnswerAndGoOn, Answer, Looking,
            streams, update, FlushData
<1>1. op' = NoOp /\ top' = 0 /\ UNCHANGED <<data, index, saved, stack, half>>
  BY DEF IInv
<1>2. TypeOK'
  BY <1>1 DEF IInv, TypeOK, IndexOK
<1>3. ModesOK'
  BY <1>1 DEF IInv, ModesOK, Errors
<1>4. mode # "dead"
  OBVIOUS
<1>5. Sound(index, data)' /\ Sound(saved.index, saved.data)'
  BY <1>1, <1>4 DEF IInv
<1> QED BY <1>1, <1>2, <1>3, <1>5, NoOpSound DEF IInv

\* advance: a lookup that goes down one level arrives at a node that was made
\* for a key it shares the path with, one level deeper.
LEMMA DescendStep ==
  ASSUME IInv, Descend
  PROVE  IInv'
<1> DEFINE k == op.key
           d == op.depth
           m == HitNum
           n == op.node
<1>1. /\ mode = "open" /\ op # NoOp /\ top = 0
      /\ Place \in index.bits
      /\ ~EntryAt(index, Place).leaf
      /\ d + 1 < Depth
      /\ op' = [op EXCEPT !.node = m, !.depth = d + 1]
      /\ UNCHANGED <<data, index, diskData, diskIndex, saved, mode, stack, top, half, reply>>
  BY DEF Descend, Looking, BitSet, Hit, streams, files, update
<1>2. Place \in DOMAIN index.entry /\ EntryAt(index, Place) = index.entry[Place]
  BY <1>1 DEF IInv, Sound, EntryAt
<1>3. m = index.entry[Place].num
  BY <1>2 DEF HitNum
<1>4. Settled(index, data, n, Digit[k][d], index.entry[Place])
  BY <1>1, <1>2 DEF IInv, Sound, Place
<1>5. /\ m \in DOMAIN index.owner /\ m < index.end
      /\ index.owner[m].depth = index.owner[n].depth + 1
      /\ OnPath(index.owner[n], Digit[k][d], index.owner[m].key)
  BY <1>1, <1>2, <1>3, <1>4 DEF Settled, EntrySound
<1>6. /\ op \in [kind : {"lookup"}, key : Key, value : {"none"}, node : NodeId,
                 depth : 0 .. Depth - 1]
         \/ op \in [kind : {"insert", "check"}, key : Key, value : Value,
                    node : NodeId, depth : 0 .. Depth - 1]
      /\ m \in NodeId
      /\ index.owner[n].depth = d
      /\ n \in DOMAIN index.owner
      /\ Shares(index.owner[n], k)
  BY <1>1, <1>5 DEF IInv, TypeOK, IndexOK, OpSound
<1>7. TypeOK'
  <2>1. d + 1 \in 0 .. Depth - 1
    BY <1>1, <1>6, ConstantsAssumption
  <2>2. \/ op' \in [kind : {"lookup"}, key : Key, value : {"none"}, node : NodeId,
                    depth : 0 .. Depth - 1]
        \/ op' \in [kind : {"insert", "check"}, key : Key, value : Value,
                    node : NodeId, depth : 0 .. Depth - 1]
    BY <1>1, <1>6, <2>1
  <2> QED BY <1>1, <2>2 DEF IInv, TypeOK
<1>8. OpSound'
  <2>1. op'.node = m /\ op'.depth = d + 1 /\ op'.key = k
    BY <1>1, <1>6
  <2>2. index.owner[m].depth = d + 1
    BY <1>5, <1>6
  <2>3. ASSUME NEW j \in 0 .. d PROVE Digit[k][j] = Digit[index.owner[m].key][j]
    BY <1>5, <1>6 DEF OnPath, Shares
  <2>4. Shares(index.owner[m], k)
    BY <2>2, <2>3, <1>6 DEF Shares
  <2> QED BY <1>1, <1>5, <2>1, <2>2, <2>4 DEF OpSound
<1>9. ModesOK' /\ StackSound'
  BY <1>1, <1>6 DEF IInv, ModesOK, StackSound, NoOp
<1>10. Sound(index, data)' /\ Sound(saved.index, saved.data)'
  BY <1>1 DEF IInv
<1> QED BY <1>7, <1>8, <1>9, <1>10 DEF IInv

-----------------------------------------------------------------------------
(***************************************************************************)
(* Insertion.                                                              *)
(***************************************************************************)

\* Appending a record, and making owners for nodes beyond the end of the
\* index, keeps what is sound sound.
LEMMA EntrySoundGrows ==
  ASSUME NEW idx, NEW idx2, NEW dat \in Seq(Record), NEW r \in Record,
         NEW n, NEW s, NEW e,
         EntrySound(idx, dat, n, s, e),
         e.num \in Nat,
         DOMAIN idx.owner \subseteq DOMAIN idx2.owner,
         idx2.owner[n] = idx.owner[n],
         ~e.leaf => idx2.owner[e.num] = idx.owner[e.num]
  PROVE  EntrySound(idx2, Append(dat, r), n, s, e)
<1>1. CASE e.leaf
  <2>1. e.num + 1 \in 1 .. Len(dat)
    BY <1>1 DEF EntrySound
  <2>2. Append(dat, r)[e.num + 1] = dat[e.num + 1] /\ Len(Append(dat, r)) = Len(dat) + 1
    BY <2>1
  <2> QED BY <1>1, <2>1, <2>2 DEF EntrySound
<1>2. CASE ~e.leaf
  BY <1>2 DEF EntrySound
<1> QED BY <1>1, <1>2

\* An index that is sound stays so when a record is appended and nodes are
\* given out beyond its end.
LEMMA SoundGrows ==
  ASSUME NEW idx, NEW idx2, NEW dat \in Seq(Record), NEW r \in Record,
         IndexOK(idx), Sound(idx, dat),
         idx2.entry = idx.entry, idx2.bits = idx.bits, idx2.end = idx.end,
         DOMAIN idx.owner \subseteq DOMAIN idx2.owner,
         \A n \in DOMAIN idx.owner : n < idx.end => idx2.owner[n] = idx.owner[n]
  PROVE  Sound(idx2, Append(dat, r))
<1>1. Root \in DOMAIN idx2.owner /\ idx2.owner[Root].depth = 0
  BY DEF Sound, IndexOK, Root
<1>2. ASSUME NEW p \in DOMAIN idx.entry
      PROVE  Settled(idx2, Append(dat, r), p[1], p[2], idx.entry[p])
  <2>1. Settled(idx, dat, p[1], p[2], idx.entry[p])
    BY DEF Sound
  <2>2. idx.entry[p].num \in Nat
    BY DEF IndexOK, Entry
  <2>3. idx2.owner[p[1]] = idx.owner[p[1]]
    BY <2>1 DEF Settled, EntrySound
  <2>4. ~idx.entry[p].leaf => idx2.owner[idx.entry[p].num] = idx.owner[idx.entry[p].num]
    BY <2>1 DEF Settled, EntrySound
  <2>5. EntrySound(idx2, Append(dat, r), p[1], p[2], idx.entry[p])
    BY <2>1, <2>2, <2>3, <2>4, EntrySoundGrows DEF Settled
  <2> QED BY <2>1, <2>5 DEF Settled
<1> QED BY <1>1, <1>2 DEF Sound

\* What an insertion knows when its lookup has ended.
LEMMA InsertContext ==
  ASSUME IInv, Looking, op.kind # "lookup"
  PROVE  /\ op \in [kind : {"insert", "check"}, key : Key, value : Value,
                    node : NodeId, depth : 0 .. Depth - 1]
         /\ op # NoOp
         /\ [key |-> op.key, value |-> op.value] \in Record
         /\ Digit[op.key][op.depth] \in Slot
         /\ op.node \in DOMAIN index.owner /\ op.node < index.end
         /\ index.owner[op.node].depth = op.depth
         /\ Shares(index.owner[op.node], op.key)
         /\ IndexOK(index) /\ Sound(index, data)
         /\ data \in Seq(Record)
BY ConstantsAssumption DEF IInv, TypeOK, OpSound, Looking, NoOp, Record

\* Appending the record of insert_new_entry keeps the invariant, and its one
\* update is sound.
LEMMA InsertNewStep ==
  ASSUME IInv, InsertNew
  PROVE  IInv'
<1> DEFINE k == op.key
           u == NewEntry[1]
           r == [key |-> op.key, value |-> op.value]
<1>1. /\ Looking /\ op.kind # "lookup" /\ Place \notin index.bits
      /\ data' = Append(data, r) /\ diskData' = data
      /\ stack' = NewEntry /\ top' = 1 /\ half' = FALSE
      /\ UNCHANGED <<index, diskIndex, saved, mode, op, reply>>
      /\ mode = "open"
  BY DEF InsertNew, AppendRecord, FlushData, BitSet, Looking
<1>2. /\ op \in [kind : {"insert", "check"}, key : Key, value : Value,
                 node : NodeId, depth : 0 .. Depth - 1]
      /\ op # NoOp
      /\ r \in Record /\ Digit[k][op.depth] \in Slot
      /\ op.node \in DOMAIN index.owner /\ op.node < index.end
      /\ index.owner[op.node].depth = op.depth
      /\ Shares(index.owner[op.node], k)
      /\ IndexOK(index) /\ Sound(index, data)
      /\ data \in Seq(Record)
  BY <1>1, InsertContext
<1>3. /\ u.node = op.node /\ u.slot = Digit[k][op.depth] /\ u.leaf = TRUE
      /\ u.num = Len(data) /\ NewEntry = <<u>> /\ u \in Update
      /\ \A s \in u.slots : s = u.slot \/ <<u.node, s>> \in index.bits
  BY <1>2 DEF NewEntry, Update
<1>4. Sound(index', data') /\ Sound(saved'.index, saved'.data)
  BY <1>1, <1>2, SoundGrows DEF IInv
<1>5. OpSound'
  BY <1>1 DEF IInv, OpSound
<1>6. StackSound'
  <2>1. data'[Len(data) + 1] = r /\ Len(data') = Len(data) + 1
    BY <1>1, <1>2
  <2>2. EntrySound(index, data', u.node, u.slot, u)
    <3>1. OnPath(index.owner[op.node], Digit[k][op.depth], k)
      BY <1>2 DEF OnPath, Shares
    <3>2. u.num < Len(data') /\ data'[u.num + 1].key = k
      BY <1>2, <1>3, <2>1
    <3> HIDE DEF u, r
    <3> QED BY <1>2, <1>3, <3>1, <3>2 DEF EntrySound
  <2>3. \A s \in u.slots : s = u.slot \/ <<u.node, s>> \in DOMAIN index.entry
    BY <1>2, <1>3 DEF Sound
  <2>4. stack'[1] = u /\ \A i \in 1 .. top' : i = 1
    BY <1>1, <1>3
  <2> HIDE DEF u, r
  <2> QED BY <1>1, <1>3, <2>2, <2>3, <2>4 DEF StackSound, UpdateSound
<1>7. TypeOK'
  <2>1. data' \in Seq(Record)
    BY <1>1, <1>2
  <2>2. half' \in BOOLEAN
    BY <1>1
  <2> HIDE DEF u, r
  <2>3. stack' \in Seq(Update) /\ Len(stack') = 1
    BY <1>1, <1>3
  <2> QED BY <1>1, <1>2, <2>1, <2>2, <2>3 DEF IInv, TypeOK
<1>8. ModesOK'
  BY <1>1, <1>2 DEF ModesOK
<1> QED BY <1>1, <1>4, <1>5, <1>6, <1>7, <1>8 DEF IInv

\* A group of bits of a key is a slot.
LEMMA DigitType == \A k \in Key : \A j \in 0 .. Depth - 1 : Digit[k][j] \in Slot
<1>1. Digit \in [Key -> [0 .. Depth - 1 -> Slot]]
  BY ConstantsAssumption
<1>2. \A k \in Key : Digit[k] \in [0 .. Depth - 1 -> Slot]
  BY <1>1
<1> QED BY <1>2

\* An update built from a node, a slot and a number is well typed.
LEMMA UpdateType ==
  ASSUME NEW node \in NodeId, NEW slot \in Slot, NEW num \in Nat,
         NEW slots \in SUBSET Slot, NEW b \in BOOLEAN
  PROVE  /\ [node |-> node, slot |-> slot, leaf |-> FALSE, num |-> num, skip |-> b,
             slots |-> slots] \in Update
         /\ [node |-> node, slot |-> slot, leaf |-> TRUE, num |-> num, skip |-> b,
             slots |-> slots] \in Update
BY DEF Update

\* The owner of a node is well typed.
LEMMA OwnerType ==
  ASSUME NEW k \in Key, NEW d \in 0 .. Depth - 1
  PROVE  [key |-> k, depth |-> d] \in [key : Key, depth : 0 .. Depth - 1]
OBVIOUS

\* chain groups of bits lie between depths d and m.
Apart(d, m, chain) == m = d + chain + 1

\* The items of a collision's stack and the owners of the nodes it makes, for
\* any index and data: keys k (new) and e (number num) part at depth m, the
\* lookup stopped in node n at depth d, and chain subtries lie in between.
CollisionShape(idx, dat, k, e, d, n, m, chain, num, st, owner2) ==
  LET next == idx.end
  IN /\ st = [i \in 1 .. chain + 3 |-> st[i]]
     /\ st[1] = [node |-> n, slot |-> Digit[k][d], leaf |-> FALSE,
                 num |-> next, skip |-> TRUE, slots |-> {}]
     /\ \A i \in 2 .. chain + 1 :
          st[i] = [node |-> next + i - 2, slot |-> Digit[k][d + i - 1],
                   leaf |-> FALSE, num |-> next + i - 1, skip |-> FALSE,
                   slots |-> {Digit[k][d + i - 1]}]
     /\ \E x \in SUBSET {Digit[k][m], Digit[e][m]} :
          st[chain + 2] = [node |-> next + chain, slot |-> Digit[e][m], leaf |-> TRUE,
                           num |-> num, skip |-> FALSE, slots |-> x]
     /\ \E b \in BOOLEAN :
          st[chain + 3] = [node |-> next + chain, slot |-> Digit[k][m], leaf |-> TRUE,
                           num |-> Len(dat), skip |-> b, slots |-> {Digit[k][m]}]
     /\ owner2 = [x \in DOMAIN idx.owner \cup next .. next + chain |->
                    IF x \in next .. next + chain
                    THEN [key |-> k, depth |-> d + 1 + (x - next)] ELSE idx.owner[x]]

\* Whether two slots share a byte of the bitmap is a Boolean.
LEMMA SameByteBoolean == \A s, t : SameByte(s, t) \in BOOLEAN
BY DEF SameByte

\* An insertion that arrived at a record of another key makes a stack and
\* owners of this shape.
LEMMA CollisionShaped ==
  ASSUME IInv, Looking, op.kind # "lookup", Hit, Readable, HitKey # op.key,
         NEW m, m = Mismatch(op.key, HitKey), NEW chain, chain = m - op.depth - 1,
         KeysShareThePath(HitKey)
  PROVE  /\ HitKey \in Key /\ HitNum \in Nat /\ HitNum < Len(data)
         /\ data[HitNum + 1].key = HitKey
         /\ m \in 0 .. Depth - 1 /\ chain \in Nat /\ op.depth \in Nat
         /\ Apart(op.depth, m, chain)
         /\ \A j \in 0 .. m - 1 : Digit[op.key][j] = Digit[HitKey][j]
         /\ CollisionShape(index, data, op.key, HitKey, op.depth, op.node, m, chain,
                           HitNum, Collision(HitKey), CollisionOwners(HitKey))
<1> DEFINE st == Collision(HitKey)
<1>1. /\ op.key \in Key /\ op.depth \in 0 .. Depth - 1 /\ data \in Seq(Record)
      /\ IndexOK(index) /\ Sound(index, data) /\ Depth \in Nat
  BY InsertContext, ConstantsAssumption
<1>2. Place \in DOMAIN index.entry /\ EntryAt(index, Place) = index.entry[Place]
  BY <1>1 DEF Hit, BitSet, Sound, EntryAt
<1>3. HitNum \in Nat /\ HitNum < Len(data)
  BY <1>1, <1>2 DEF HitNum, IndexOK, Entry, Readable
<1>4. HitKey \in Key /\ data[HitNum + 1].key = HitKey
  <2>1. HitNum + 1 \in 1 .. Len(data)
    BY <1>1, <1>3
  <2>2. data[HitNum + 1] \in Record
    BY <1>1, <2>1
  <2> QED BY <2>2 DEF HitKey, Record
<1>5. m \in 0 .. Depth - 1 /\ \A j \in 0 .. m - 1 : Digit[op.key][j] = Digit[HitKey][j]
  BY <1>1, <1>4, MismatchProperties
<1>6. chain \in Nat /\ index.end \in Nat /\ Apart(op.depth, m, chain)
  <2>1. index.end \in Nat
    BY <1>1 DEF IndexOK
  <2>2. m > op.depth
    BY DEF KeysShareThePath
  <2>3. m \in Nat /\ op.depth \in Nat
    BY <1>1, <1>5
  <2>4. chain \in Nat /\ m = op.depth + chain + 1
    BY <2>2, <2>3
  <2> QED BY <2>1, <2>4 DEF Apart
<1>7. st = [i \in 1 .. chain + 3 |-> st[i]]
  BY DEF Collision
<1>8. st[1] = [node |-> op.node, slot |-> Digit[op.key][op.depth], leaf |-> FALSE,
               num |-> index.end, skip |-> TRUE, slots |-> {}]
  BY <1>6 DEF Collision
<1>9. ASSUME NEW i \in 2 .. chain + 1
      PROVE  st[i] = [node |-> index.end + i - 2, slot |-> Digit[op.key][op.depth + i - 1],
                      leaf |-> FALSE, num |-> index.end + i - 1, skip |-> FALSE,
                      slots |-> {Digit[op.key][op.depth + i - 1]}]
  BY <1>6 DEF Collision
<1>10. \E x \in SUBSET {Digit[op.key][m], Digit[HitKey][m]} :
         st[chain + 2] = [node |-> index.end + chain, slot |-> Digit[HitKey][m], leaf |-> TRUE,
                          num |-> HitNum, skip |-> FALSE, slots |-> x]
  <2> DEFINE Item(x) == [node |-> index.end + chain, slot |-> Digit[HitKey][m], leaf |-> TRUE,
                         num |-> HitNum, skip |-> FALSE, slots |-> x]
             x0 == IF SameByte(Digit[op.key][m], Digit[HitKey][m])
                   THEN {Digit[op.key][m], Digit[HitKey][m]} ELSE {Digit[HitKey][m]}
  <2>1. x0 \in SUBSET {Digit[op.key][m], Digit[HitKey][m]}
    OBVIOUS
  <2>2. st[chain + 2] = Item(x0)
    BY <1>6 DEF Collision
  <2>3. \E x \in SUBSET {Digit[op.key][m], Digit[HitKey][m]} : st[chain + 2] = Item(x)
    <3> HIDE DEF Item, x0, st
    <3> QED BY <2>1, <2>2
  <2> QED BY <2>3
<1>11. \E b \in BOOLEAN :
         st[chain + 3] = [node |-> index.end + chain, slot |-> Digit[op.key][m], leaf |-> TRUE,
                          num |-> Len(data), skip |-> b, slots |-> {Digit[op.key][m]}]
  <2> DEFINE Item(b) == [node |-> index.end + chain, slot |-> Digit[op.key][m], leaf |-> TRUE,
                         num |-> Len(data), skip |-> b, slots |-> {Digit[op.key][m]}]
             same == SameByte(Digit[op.key][m], Digit[HitKey][m])
  <2>1. same \in BOOLEAN
    BY SameByteBoolean
  <2>2. st[chain + 3] = Item(same)
    <3>1. /\ chain + 3 \in 1 .. chain + 3 /\ chain + 3 # 1
          /\ ~(chain + 3 <= chain + 1) /\ chain + 3 # chain + 2
      BY <1>6
    <3> QED BY <3>1 DEF Collision
  <2>3. \E b \in BOOLEAN : st[chain + 3] = Item(b)
    <3> HIDE DEF Item, same, st
    <3> QED BY <2>1, <2>2
  <2> QED BY <2>3
<1>12. CollisionOwners(HitKey) =
         [x \in DOMAIN index.owner \cup index.end .. index.end + chain |->
            IF x \in index.end .. index.end + chain
            THEN [key |-> op.key, depth |-> op.depth + 1 + (x - index.end)]
            ELSE index.owner[x]]
  <2>1. index.end + Mismatch(op.key, HitKey) - op.depth - 1 = index.end + chain
    BY <1>1, <1>5, <1>6
  <2> QED BY <2>1 DEF CollisionOwners
<1> HIDE DEF st
<1>13. CollisionShape(index, data, op.key, HitKey, op.depth, op.node, m, chain,
                      HitNum, st, CollisionOwners(HitKey))
  BY <1>7, <1>8, <1>9, <1>10, <1>11, <1>12 DEF CollisionShape
<1> QED BY <1>1, <1>3, <1>4, <1>5, <1>6, <1>13 DEF st

\* What an item promises before any item has been carried out.
ItemSound(idx, dat, st, i) ==
  LET u == st[i]
  IN /\ EntrySound(idx, dat, u.node, u.slot, u)
     /\ ~u.leaf => i < Len(st) /\ st[i + 1].node = u.num
     /\ \A s \in u.slots :
          s = u.slot \/ (i < Len(st) /\ st[i + 1].node = u.node /\ st[i + 1].slot = s)

\* The numbers of the nodes a collision makes, and their depths.
LEMMA ChainEnds ==
  ASSUME NEW next \in Nat, NEW d \in Nat, NEW m \in Nat, NEW chain \in Nat,
         Apart(d, m, chain)
  PROVE  /\ next + chain \in next .. next + chain
         /\ d + 1 + (next + chain - next) = m
         /\ next \in next .. next + chain
         /\ d + 1 + (next - next) = d + 1
BY DEF Apart

\* The arithmetic of the subtries that are linked in between.
LEMMA ChainMiddle ==
  ASSUME NEW next \in Nat, NEW d \in Nat, NEW chain \in Nat, NEW i \in 2 .. chain + 1,
         NEW y, y = next + i - 2, NEW y1, y1 = next + i - 1, NEW h, h = d + i - 1
  PROVE  /\ y \in next .. next + chain /\ d + 1 + (y - next) = h
         /\ y1 \in next .. next + chain /\ d + 1 + (y1 - next) = h + 1
         /\ h \in Nat
         /\ i = chain + 1 => next + chain = y1
         /\ i # chain + 1 => i + 1 \in 2 .. chain + 1 /\ y1 = next + (i + 1) - 2
OBVIOUS

\* The case of a collision, and what it establishes.
CollisionCase(idx, dat, r, k, e, d, n, m, chain, num, st, idx2) ==
  /\ dat \in Seq(Record) /\ r \in Record
  /\ k \in Key /\ e \in Key /\ r.key = k
  /\ d \in Nat /\ m \in 0 .. Depth - 1 /\ chain \in Nat /\ Apart(d, m, chain)
  /\ num \in Nat /\ num < Len(dat) /\ dat[num + 1].key = e
  /\ IndexOK(idx)
  /\ n \in DOMAIN idx.owner /\ n \in NodeId /\ n < idx.end
  /\ idx.owner[n].depth = d /\ Shares(idx.owner[n], k)
  /\ \A j \in 0 .. m - 1 : Digit[k][j] = Digit[e][j]
  /\ CollisionShape(idx, dat, k, e, d, n, m, chain, num, st, idx2.owner)
  /\ idx2.end = idx.end

CollisionDone(idx, dat, r, chain, st, idx2) ==
  /\ DOMAIN idx2.owner \subseteq NodeId
  /\ DOMAIN idx.owner \subseteq DOMAIN idx2.owner
  /\ \A x \in DOMAIN idx2.owner : idx2.owner[x] \in [key : Key, depth : 0 .. Depth - 1]
  /\ \A x \in DOMAIN idx.owner : x < idx.end => idx2.owner[x] = idx.owner[x]
  /\ st \in Seq(Update) /\ Len(st) = chain + 3
  /\ \A i \in 1 .. chain + 3 : ItemSound(idx2, Append(dat, r), st, i)

\* The updates update_after_collision prepares are sound, each on the
\* assumption that those above it in the stack have been made.
LEMMA CollisionSound ==
  ASSUME NEW idx, NEW dat, NEW r, NEW k, NEW e, NEW d, NEW n, NEW m, NEW chain,
         NEW num, NEW st, NEW idx2,
         CollisionCase(idx, dat, r, k, e, d, n, m, chain, num, st, idx2)
  PROVE  CollisionDone(idx, dat, r, chain, st, idx2)
<1> DEFINE owner2 == idx2.owner
<1>0. /\ dat \in Seq(Record) /\ r \in Record
      /\ k \in Key /\ e \in Key /\ r.key = k
      /\ d \in Nat /\ m \in 0 .. Depth - 1 /\ chain \in Nat /\ Apart(d, m, chain)
      /\ num \in Nat /\ num < Len(dat) /\ dat[num + 1].key = e
      /\ IndexOK(idx)
      /\ n \in DOMAIN idx.owner /\ n \in NodeId /\ n < idx.end
      /\ idx.owner[n].depth = d /\ Shares(idx.owner[n], k)
      /\ \A j \in 0 .. m - 1 : Digit[k][j] = Digit[e][j]
      /\ CollisionShape(idx, dat, k, e, d, n, m, chain, num, st, owner2)
      /\ idx2.owner = owner2 /\ idx2.end = idx.end
  BY DEF CollisionCase
<1> HIDE DEF owner2
<1> USE <1>0
<1> DEFINE next == idx.end
           dat2 == Append(dat, r)
<1>1. next \in Nat /\ Depth \in Nat \ {0} /\ m \in Nat
  BY ConstantsAssumption DEF IndexOK
<1>2. /\ DOMAIN st = 1 .. chain + 3
      /\ st[1] = [node |-> n, slot |-> Digit[k][d], leaf |-> FALSE,
                  num |-> next, skip |-> TRUE, slots |-> {}]
  BY DEF CollisionShape
<1>3. \A i \in 2 .. chain + 1 :
        st[i] = [node |-> next + i - 2, slot |-> Digit[k][d + i - 1],
                 leaf |-> FALSE, num |-> next + i - 1, skip |-> FALSE,
                 slots |-> {Digit[k][d + i - 1]}]
  BY DEF CollisionShape
<1>4. PICK z \in SUBSET {Digit[k][m], Digit[e][m]} :
        st[chain + 2] = [node |-> next + chain, slot |-> Digit[e][m], leaf |-> TRUE,
                         num |-> num, skip |-> FALSE, slots |-> z]
  BY DEF CollisionShape
<1>5. PICK b \in BOOLEAN :
        st[chain + 3] = [node |-> next + chain, slot |-> Digit[k][m], leaf |-> TRUE,
                         num |-> Len(dat), skip |-> b, slots |-> {Digit[k][m]}]
  BY DEF CollisionShape
<1>6. owner2 = [x \in DOMAIN idx.owner \cup next .. next + chain |->
                  IF x \in next .. next + chain
                  THEN [key |-> k, depth |-> d + 1 + (x - next)] ELSE idx.owner[x]]
  BY DEF CollisionShape
<1> HIDE DEF next, dat2
<1>7. /\ DOMAIN owner2 = DOMAIN idx.owner \cup next .. next + chain
      /\ \A x \in next .. next + chain :
           owner2[x] = [key |-> k, depth |-> d + 1 + (x - next)]
      /\ \A x \in DOMAIN idx.owner \ (next .. next + chain) : owner2[x] = idx.owner[x]
  BY <1>6
<1>8. DOMAIN owner2 \subseteq NodeId
  BY <1>1, <1>7 DEF IndexOK, NodeId
<1>9. \A x \in DOMAIN owner2 : owner2[x] \in [key : Key, depth : 0 .. Depth - 1]
  <2>1. ASSUME NEW x \in next .. next + chain
        PROVE  owner2[x] \in [key : Key, depth : 0 .. Depth - 1]
    <3>1. d + 1 + (x - next) \in 0 .. Depth - 1
      BY <1>1 DEF Apart
    <3>2. owner2[x] = [key |-> k, depth |-> d + 1 + (x - next)]
      BY <1>7
    <3> QED BY <3>1, <3>2, OwnerType
  <2> QED BY <1>7, <2>1 DEF IndexOK
<1>10. \A x \in DOMAIN idx.owner : x < idx.end => owner2[x] = idx.owner[x]
  BY <1>1, <1>7 DEF next, IndexOK, NodeId, Root
<1>11. \A j \in 0 .. Depth - 1 : Digit[k][j] \in Slot /\ Digit[e][j] \in Slot
  BY DigitType
<1>12. \A i \in 1 .. chain + 3 : st[i] \in Update
  <2> SUFFICES ASSUME NEW i \in 1 .. chain + 3 PROVE st[i] \in Update
    OBVIOUS
  <2>1. CASE i = 1
    <3>1. Digit[k][d] \in Slot
      BY <1>1, <1>11 DEF Apart
    <3>2. [node |-> n, slot |-> Digit[k][d], leaf |-> FALSE,
           num |-> next, skip |-> TRUE, slots |-> {}] \in Update
      BY <1>1, <3>1 DEF Update
    <3> QED BY <1>2, <2>1, <3>2
  <2>2. CASE i \in 2 .. chain + 1
    <3>1. d + i - 1 \in 0 .. Depth - 1
      BY <1>1, <2>2 DEF Apart
    <3>2. Digit[k][d + i - 1] \in Slot
      BY <1>11, <3>1
    <3>3. next + i - 2 \in NodeId /\ next + i - 1 \in Nat
      BY <1>1, <2>2 DEF NodeId
    <3>4. [node |-> next + i - 2, slot |-> Digit[k][d + i - 1],
           leaf |-> FALSE, num |-> next + i - 1, skip |-> FALSE,
           slots |-> {Digit[k][d + i - 1]}] \in Update
      BY <3>2, <3>3 DEF Update
    <3> QED BY <1>3, <2>2, <3>4
  <2>3. next + chain \in NodeId /\ Len(dat) \in Nat
    BY <1>1 DEF NodeId
  <2>4. Digit[k][m] \in Slot /\ Digit[e][m] \in Slot
    BY <1>11
  <2>5. CASE i = chain + 2
    <3>1. z \in SUBSET Slot
      BY <2>4
    <3>2. [node |-> next + chain, slot |-> Digit[e][m], leaf |-> TRUE,
           num |-> num, skip |-> FALSE, slots |-> z] \in Update
      BY <2>3, <2>4, <3>1 DEF Update
    <3> QED BY <1>4, <2>5, <3>2
  <2>6. CASE i = chain + 3
    <3>1. {Digit[k][m]} \in SUBSET Slot
      BY <2>4
    <3>2. [node |-> next + chain, slot |-> Digit[k][m], leaf |-> TRUE,
           num |-> Len(dat), skip |-> b, slots |-> {Digit[k][m]}] \in Update
      BY <2>3, <2>4, <3>1, UpdateType
    <3> QED BY <1>5, <2>6, <3>2
  <2> QED BY <1>1, <2>1, <2>2, <2>5, <2>6
<1>13. st \in Seq(Update) /\ Len(st) = chain + 3
  <2>1. chain + 3 \in Nat
    BY <1>1
  <2>2. st = [i \in 1 .. chain + 3 |-> st[i]]
    BY DEF CollisionShape
  <2> HIDE DEF Update
  <2>3. \A x, S : x \in Nat /\ (\A i \in 1 .. x : st[i] \in S) =>
                 [i \in 1 .. x |-> st[i]] \in Seq(S) /\ Len([i \in 1 .. x |-> st[i]]) = x
    OBVIOUS
  <2> QED BY <1>12, <2>1, <2>2, <2>3
<1>14. /\ Len(dat2) = Len(dat) + 1
       /\ dat2[Len(dat) + 1] = r
       /\ \A i \in 1 .. Len(dat) : dat2[i] = dat[i]
  BY DEF dat2
<1>15. /\ num < Len(dat2) /\ dat2[num + 1].key = e
       /\ Len(dat) < Len(dat2) /\ dat2[Len(dat) + 1].key = k
  <2>1. num + 1 \in 1 .. Len(dat)
    OBVIOUS
  <2>2. dat2[num + 1] = dat[num + 1]
    BY <1>14, <2>1
  <2> QED BY <1>14, <2>2
<1>16. /\ owner2[next + chain] = [key |-> k, depth |-> m]
       /\ next + chain \in DOMAIN owner2
  <2> DEFINE y == next + chain
  <2>1. y \in next .. next + chain /\ d + 1 + (y - next) = m
    BY <1>1, ChainEnds
  <2> HIDE DEF y
  <2>2. owner2[y] = [key |-> k, depth |-> m] /\ y \in DOMAIN owner2
    BY <1>7, <2>1
  <2> QED BY <2>2 DEF y
<1>17. \A i, y : i \in 2 .. chain + 1 /\ y = next + i - 2 => st[i].node = y
  <2> SUFFICES ASSUME NEW i \in 2 .. chain + 1, NEW y, y = next + i - 2
               PROVE  st[i].node = y
    OBVIOUS
  <2> DEFINE h == d + i - 1
             y1 == next + i - 1
  <2>1. st[i] = [node |-> next + i - 2, slot |-> Digit[k][h], leaf |-> FALSE, num |-> y1,
                 skip |-> FALSE, slots |-> {Digit[k][h]}]
    BY <1>3
  <2> HIDE DEF h, y1
  <2> QED BY <2>1
<1>18. ASSUME NEW i \in 1 .. chain + 3 PROVE ItemSound(idx2, dat2, st, i)
  <2>1. Len(st) = chain + 3
    BY <1>13
  <2>2. CASE i = 1
    <3>1. /\ owner2[n] = idx.owner[n] /\ owner2[n].depth = d /\ n \in DOMAIN owner2
      BY <1>7, <1>10
    <3>2. owner2[next] = [key |-> k, depth |-> d + 1] /\ next \in DOMAIN owner2
      <4>1. next \in next .. next + chain /\ d + 1 + (next - next) = d + 1
        BY <1>1
      <4> QED BY <1>7, <4>1
    <3>3. EntrySound(idx2, dat2, st[1].node, st[1].slot, st[1])
      <4>1. OnPath(owner2[n], Digit[k][d], k)
        BY <3>1 DEF OnPath, Shares
      <4>2. /\ st[1].node = n /\ st[1].slot = Digit[k][d] /\ ~st[1].leaf
            /\ st[1].num = next
        BY <1>2
      <4>3. owner2[next].depth = owner2[n].depth + 1 /\ owner2[next].key = k
        BY <3>1, <3>2
      <4> QED BY <3>1, <3>2, <4>1, <4>2, <4>3 DEF EntrySound
    <3>4. st[2].node = next
      <4>1. CASE chain = 0
        <5>1. st[2] = st[chain + 2] /\ next + chain = next
          BY <1>1, <4>1
        <5> QED BY <1>4, <5>1
      <4>2. CASE chain # 0
        <5>1. 2 \in 2 .. chain + 1 /\ next = next + 2 - 2
          BY <1>1, <4>2
        <5> QED BY <1>17, <5>1
      <4> QED BY <4>1, <4>2
    <3>5. ~(\E s \in st[1].slots : TRUE) /\ st[1].num = next /\ 1 < Len(st) /\ 1 + 1 = 2
      BY <1>2, <2>1
    <3> QED BY <2>2, <3>3, <3>4, <3>5 DEF ItemSound
  <2>3. CASE i \in 2 .. chain + 1
    <3> DEFINE y == next + i - 2
               y1 == next + i - 1
               h == d + i - 1
    <3>0. y = next + i - 2 /\ y1 = next + i - 1 /\ h = d + i - 1
      OBVIOUS
    <3>2. st[i] = [node |-> y, slot |-> Digit[k][h], leaf |-> FALSE, num |-> y1,
                   skip |-> FALSE, slots |-> {Digit[k][h]}]
      BY <1>3, <2>3
    <3> HIDE DEF y, y1, h
    <3>1. /\ y \in next .. next + chain /\ d + 1 + (y - next) = h
          /\ y1 \in next .. next + chain /\ d + 1 + (y1 - next) = h + 1
          /\ h \in Nat
          /\ i = chain + 1 => next + chain = y1
          /\ i # chain + 1 => i + 1 \in 2 .. chain + 1 /\ y1 = next + (i + 1) - 2
      BY <1>1, <2>3, <3>0, ChainMiddle
    <3>3. y \in DOMAIN owner2 /\ owner2[y] = [key |-> k, depth |-> h]
      BY <1>7, <3>1
    <3>4. y1 \in DOMAIN owner2 /\ owner2[y1] = [key |-> k, depth |-> h + 1]
      <4>1. owner2[y1] = [key |-> k, depth |-> d + 1 + (y1 - next)]
        BY <1>7, <3>1
      <4> QED BY <1>7, <3>1, <4>1
    <3>5. st[i + 1].node = y1
      <4>1. CASE i = chain + 1
        <5>1. st[i + 1] = st[chain + 2]
          BY <4>1
        <5> QED BY <1>4, <3>1, <4>1, <5>1
      <4>2. CASE i # chain + 1
        BY <1>17, <3>1, <4>2
      <4> QED BY <4>1, <4>2
    <3>6. EntrySound(idx2, dat2, st[i].node, st[i].slot, st[i])
      BY <3>1, <3>2, <3>3, <3>4 DEF EntrySound, OnPath
    <3>7. i < Len(st) /\ st[i].num = y1 /\ \A s \in st[i].slots : s = st[i].slot
      BY <2>1, <2>3, <3>2
    <3> QED BY <3>5, <3>6, <3>7 DEF ItemSound
  <2>4. CASE i = chain + 2
    <3>1. /\ st[i].node = next + chain /\ st[i].slot = Digit[e][m] /\ st[i].leaf
          /\ st[i].num = num /\ st[i].slots \subseteq {Digit[k][m], Digit[e][m]}
      BY <1>4, <2>4
    <3>2. EntrySound(idx2, dat2, st[i].node, st[i].slot, st[i])
      BY <1>15, <1>16, <3>1 DEF EntrySound, OnPath
    <3>3. st[i + 1].node = next + chain /\ st[i + 1].slot = Digit[k][m] /\ i < Len(st)
      <4>1. i + 1 = chain + 3
        BY <2>4
      <4> QED BY <1>5, <2>1, <2>4, <4>1
    <3> QED BY <3>1, <3>2, <3>3 DEF ItemSound
  <2>5. CASE i = chain + 3
    <3>1. /\ st[i].node = next + chain /\ st[i].slot = Digit[k][m] /\ st[i].leaf
          /\ st[i].num = Len(dat) /\ st[i].slots = {st[i].slot}
      BY <1>5, <2>5
    <3>2. EntrySound(idx2, dat2, st[i].node, st[i].slot, st[i])
      BY <1>15, <1>16, <3>1 DEF EntrySound, OnPath
    <3> QED BY <3>1, <3>2 DEF ItemSound
  <2> QED BY <2>2, <2>3, <2>4, <2>5
<1> QED BY <1>7, <1>8, <1>9, <1>10, <1>13, <1>18 DEF dat2, CollisionDone

\* Appending the record of a colliding key keeps the invariant.
LEMMA InsertCollisionStep ==
  ASSUME IInv, InsertCollision
  PROVE  IInv'
<1> DEFINE r == [key |-> op.key, value |-> op.value]
           m == Mismatch(op.key, HitKey)
           chain == m - op.depth - 1
           st == Collision(HitKey)
           owner2 == CollisionOwners(HitKey)
<1>1. /\ Looking /\ op.kind # "lookup" /\ Hit /\ Readable /\ HitKey # op.key
      /\ KeysShareThePath(HitKey) /\ mode = "open"
      /\ data' = Append(data, r) /\ diskData' = data /\ half' = FALSE
      /\ stack' = st /\ top' = Len(st)
      /\ index' = [index EXCEPT !.owner = owner2]
      /\ UNCHANGED <<diskIndex, saved, mode, op, reply>>
  BY DEF InsertCollision, AppendRecord, FlushData, Looking
<1>2. /\ op \in [kind : {"insert", "check"}, key : Key, value : Value,
                 node : NodeId, depth : 0 .. Depth - 1]
      /\ op # NoOp
      /\ r \in Record
      /\ op.node \in DOMAIN index.owner /\ op.node < index.end
      /\ index.owner[op.node].depth = op.depth
      /\ Shares(index.owner[op.node], op.key)
      /\ IndexOK(index) /\ Sound(index, data)
      /\ data \in Seq(Record)
  BY <1>1, InsertContext
<1>3. /\ HitKey \in Key /\ HitNum \in Nat /\ HitNum < Len(data)
      /\ data[HitNum + 1].key = HitKey
      /\ m \in 0 .. Depth - 1 /\ chain \in Nat /\ op.depth \in Nat
      /\ Apart(op.depth, m, chain)
      /\ \A j \in 0 .. m - 1 : Digit[op.key][j] = Digit[HitKey][j]
      /\ CollisionShape(index, data, op.key, HitKey, op.depth, op.node, m, chain,
                        HitNum, st, owner2)
  BY <1>1, CollisionShaped
<1>4. /\ DOMAIN index' = {"entry", "bits", "end", "owner"}
      /\ index'.entry = index.entry /\ index'.bits = index.bits
      /\ index'.end = index.end /\ index'.owner = owner2
  BY <1>1, <1>2 DEF IndexOK
<1>5. op.key \in Key /\ op.node \in NodeId /\ r.key = op.key
  BY <1>2
<1> HIDE DEF r, m, chain, st, owner2
<1>6. /\ DOMAIN owner2 \subseteq NodeId
      /\ DOMAIN index.owner \subseteq DOMAIN owner2
      /\ \A x \in DOMAIN owner2 : owner2[x] \in [key : Key, depth : 0 .. Depth - 1]
      /\ \A x \in DOMAIN index.owner : x < index.end => owner2[x] = index.owner[x]
      /\ st \in Seq(Update) /\ Len(st) = chain + 3
      /\ \A i \in 1 .. chain + 3 : ItemSound(index', Append(data, r), st, i)
  <2>1. CollisionCase(index, data, r, op.key, HitKey, op.depth, op.node, m, chain,
                      HitNum, st, index')
    BY <1>2, <1>3, <1>4, <1>5 DEF CollisionCase
  <2>2. CollisionDone(index, data, r, chain, st, index')
    BY <2>1, CollisionSound
  <2> QED BY <1>4, <2>2 DEF CollisionDone
<1>7. Sound(index', data')
  BY <1>1, <1>2, <1>4, <1>6, SoundGrows
<1>8. Sound(saved.index, saved.data)'
  BY <1>1 DEF IInv
<1>9. OpSound'
  <2>1. owner2[op.node] = index.owner[op.node]
    BY <1>2, <1>6
  <2> QED BY <1>1, <1>2, <1>4, <1>6, <2>1 DEF OpSound
<1>10. StackSound'
  <2> SUFFICES ASSUME NEW i \in 1 .. top' PROVE UpdateSound(i)'
    BY DEF StackSound
  <2>1. top' = Len(st) /\ stack' = st /\ half' = FALSE /\ data' = Append(data, r)
    BY <1>1
  <2>2. ItemSound(index', Append(data, r), st, i)
    BY <1>6, <2>1
  <2> QED BY <2>1, <2>2 DEF ItemSound, UpdateSound
<1>11. TypeOK'
  <2>1. data' \in Seq(Record) /\ diskData' \in Seq(Record)
    BY <1>1, <1>2
  <2>2. half' \in BOOLEAN
    BY <1>1
  <2>3. stack' \in Seq(Update) /\ top' \in 0 .. Len(stack')
    BY <1>1, <1>3, <1>6
  <2>4. IndexOK(index')
    BY <1>2, <1>4, <1>6 DEF IndexOK
  <2>5. IndexOK(diskIndex)' /\ DOMAIN reply' = {"kind", "key", "value", "result"}
        /\ DOMAIN saved' = {"data", "index"}
        /\ saved'.data \in Seq(Record) /\ IndexOK(saved.index)'
        /\ mode' \in {"closed", "open", "closing", "dead"}
    BY <1>1 DEF IInv, TypeOK
  <2> QED BY <1>1, <1>2, <2>1, <2>2, <2>3, <2>4, <2>5 DEF TypeOK
<1>12. ModesOK'
  BY <1>1, <1>2 DEF ModesOK
<1> QED BY <1>7, <1>8, <1>9, <1>10, <1>11, <1>12 DEF IInv

\* The entry of the update on top has been written, its node is within the
\* file: the updates below it are sound when it is popped.
LEMMA PopSound ==
  ASSUME StackSound, top \in Nat, top > 0, IndexOK(index),
         stack' = stack, top' = top - 1, half' = FALSE, data' = data,
         index'.owner = index.owner, index'.end \in Nat, index.end <= index'.end,
         DOMAIN index.entry \subseteq DOMAIN index'.entry,
         <<stack[top].node, stack[top].slot>> \in DOMAIN index'.entry,
         stack[top].node < index'.end,
         \A i \in 1 .. top : stack[i].num \in Nat
  PROVE  StackSound'
<1> SUFFICES ASSUME NEW i \in 1 .. top - 1 PROVE UpdateSound(i)'
  BY DEF StackSound
<1>1. UpdateSound(i) /\ i \in 1 .. top /\ i < top
  BY DEF StackSound
<1>2. EntrySound(index', data', stack'[i].node, stack'[i].slot, stack'[i])
  BY <1>1 DEF UpdateSound, EntrySound
<1>3. ~stack[i].leaf => (stack[i].num < index'.end \/ (i < top' /\ stack[i + 1].node = stack[i].num))
  <2>1. CASE i = top - 1
    <3>1. i + 1 = top
      BY <2>1
    <3>2. stack[i].num \in Nat /\ index.end \in Nat
      BY <1>1 DEF IndexOK
    <3> QED BY <1>1, <3>1, <3>2 DEF UpdateSound
  <2>2. CASE i # top - 1
    <3>1. i < top'
      BY <2>2
    <3>2. stack[i].num \in Nat /\ index.end \in Nat
      BY <1>1 DEF IndexOK
    <3> QED BY <1>1, <3>1, <3>2 DEF UpdateSound
  <2> QED BY <2>1, <2>2
<1>4. \A s \in stack[i].slots :
        \/ s = stack[i].slot
        \/ <<stack[i].node, s>> \in DOMAIN index'.entry
        \/ i < top' /\ stack[i + 1].node = stack[i].node /\ stack[i + 1].slot = s
  <2>1. CASE i = top - 1
    <3>1. i + 1 = top
      BY <2>1
    <3> QED BY <1>1, <3>1 DEF UpdateSound
  <2>2. CASE i # top - 1
    <3>1. i < top'
      BY <2>2
    <3> QED BY <1>1, <3>1 DEF UpdateSound
  <2> QED BY <2>1, <2>2
<1> QED BY <1>2, <1>3, <1>4 DEF UpdateSound

\* The update on top, and the streams it finds.
LEMMA UpdateContext ==
  ASSUME IInv, mode = "open", top > 0
  PROVE  /\ top \in Nat /\ op # NoOp
         /\ \A i \in 1 .. top : stack[i] \in Update /\ UpdateSound(i)
         /\ IndexOK(index) /\ Sound(index, data)
         /\ stack[top] \in Update
         /\ EntrySound(index, data, stack[top].node, stack[top].slot, stack[top])
         /\ ~stack[top].leaf => stack[top].num < index.end
         /\ half => <<stack[top].node, stack[top].slot>> \in DOMAIN index.entry
         /\ \A s \in stack[top].slots :
              s = stack[top].slot \/ <<stack[top].node, s>> \in DOMAIN index.entry
<1>1. top \in Nat /\ top \in 1 .. top /\ ~(top < top)
  BY DEF IInv, TypeOK
<1>2. UpdateSound(top)
  BY <1>1 DEF IInv, StackSound
<1>3. \A i \in 1 .. top : stack[i] \in Update
  <2> HIDE DEF Update
  <2> QED BY <1>1 DEF IInv, TypeOK
<1>4. op # NoOp
  BY DEF IInv, ModesOK
<1>5. IndexOK(index) /\ Sound(index, data)
  BY DEF IInv, TypeOK
<1> QED BY <1>1, <1>2, <1>3, <1>4, <1>5 DEF IInv, StackSound, UpdateSound

\* What a write to the index leaves typed.
LEMMA WriteTypes ==
  ASSUME TypeOK, IndexOK(index'), diskIndex' = index,
         UNCHANGED <<data, diskData, saved, mode, stack>>,
         top' \in 0 .. Len(stack), half' \in BOOLEAN,
         \/ UNCHANGED <<op, reply>>
         \/ op' = NoOp /\ DOMAIN reply' = {"kind", "key", "value", "result"}
  PROVE  TypeOK'
<1>1. \/ op' = NoOp
      \/ op' \in [kind : {"lookup"}, key : Key, value : {"none"}, node : NodeId,
                  depth : 0 .. Depth - 1]
      \/ op' \in [kind : {"insert", "check"}, key : Key, value : Value,
                  node : NodeId, depth : 0 .. Depth - 1]
  BY DEF TypeOK
<1>2. DOMAIN reply' = {"kind", "key", "value", "result"}
  BY DEF TypeOK
<1> QED BY <1>1, <1>2 DEF TypeOK

\* Writing an index entry of the stack keeps the invariant.
LEMMA WriteEntryStep ==
  ASSUME IInv, WriteEntry
  PROVE  IInv'
<1> DEFINE u == stack[top]
           p == <<u.node, u.slot>>
           new == [leaf |-> u.leaf, num |-> u.num]
<1>1. /\ mode = "open" /\ top > 0 /\ ~half
      /\ diskIndex' = index
      /\ index' = [index EXCEPT
             !.entry = [q \in DOMAIN index.entry \cup {p} |->
                          IF q = p THEN new ELSE index.entry[q]],
             !.end = Larger(@, u.node + 1)]
      /\ UNCHANGED <<data, diskData, saved, mode, stack>>
      /\ \/ /\ half' = FALSE /\ top' = top - 1
            /\ IF top = 1 THEN Answer("ok") ELSE UNCHANGED <<op, reply>>
         \/ half' = TRUE /\ UNCHANGED <<op, top, reply>>
  BY DEF WriteEntry, Pop, FlushIndex
<1>2. /\ top \in Nat /\ op # NoOp
      /\ \A i \in 1 .. top : stack[i] \in Update /\ UpdateSound(i)
      /\ IndexOK(index) /\ Sound(index, data)
      /\ u \in Update
      /\ EntrySound(index, data, u.node, u.slot, u)
      /\ ~u.leaf => u.num < index.end
  BY <1>1, UpdateContext
<1>3. /\ DOMAIN index' = {"entry", "bits", "end", "owner"}
      /\ index'.entry = [q \in DOMAIN index.entry \cup {p} |->
                           IF q = p THEN new ELSE index.entry[q]]
      /\ index'.end = Larger(index.end, u.node + 1)
      /\ index'.bits = index.bits /\ index'.owner = index.owner
  BY <1>1, <1>2 DEF IndexOK
<1>4. u.node \in NodeId /\ u.slot \in Slot /\ new \in Entry /\ u.num \in Nat
  BY <1>2 DEF Update, Entry
<1> HIDE DEF u
<1>5. index'.end \in Nat /\ index.end <= index'.end /\ u.node < index'.end
  BY <1>2, <1>3, <1>4 DEF Larger, IndexOK, NodeId, Root
<1>6. p \in NodeId \X Slot
  BY <1>4
<1>7. p[1] = u.node /\ p[2] = u.slot /\ new.leaf = u.leaf /\ new.num = u.num
  OBVIOUS
<1> HIDE DEF p, new
<1>8. /\ DOMAIN index'.entry = DOMAIN index.entry \cup {p}
      /\ index'.entry[p] = new
      /\ \A q \in DOMAIN index.entry : q # p => index'.entry[q] = index.entry[q]
  BY <1>3
<1>9. IndexOK(index')
  <2>1. \A q \in DOMAIN index'.entry : index'.entry[q] \in Entry
    BY <1>2, <1>4, <1>8 DEF IndexOK
  <2> QED BY <1>2, <1>3, <1>5, <1>6, <1>8, <2>1 DEF IndexOK
<1>10. Sound(index', data')
  <2>1. Settled(index', data', p[1], p[2], new)
    BY <1>1, <1>2, <1>3, <1>4, <1>5, <1>7 DEF Settled, EntrySound, IndexOK
  <2>2. ASSUME NEW q \in DOMAIN index.entry
        PROVE  Settled(index', data', q[1], q[2], index.entry[q])
    <3>1. Settled(index, data, q[1], q[2], index.entry[q])
      BY <1>2 DEF Sound
    <3>2. q[1] \in NodeId /\ index.entry[q].num \in Nat /\ index.end \in Nat
      BY <1>2 DEF IndexOK, Entry
    <3>3. EntrySound(index', data', q[1], q[2], index.entry[q])
      BY <1>1, <1>3, <3>1 DEF Settled, EntrySound
    <3>4. q[1] < index'.end /\ (~index.entry[q].leaf => index.entry[q].num < index'.end)
      BY <1>5, <3>1, <3>2 DEF Settled, NodeId, Root
    <3> QED BY <3>3, <3>4 DEF Settled
  <2>3. \A q \in DOMAIN index'.entry : Settled(index', data', q[1], q[2], index'.entry[q])
    BY <1>8, <2>1, <2>2
  <2> QED BY <1>2, <1>3, <1>8, <2>3 DEF Sound
<1>11. Sound(saved.index, saved.data)'
  BY <1>1 DEF IInv
<1>12. OpSound'
  <2>1. CASE op' = NoOp
    BY <2>1 DEF OpSound
  <2>2. CASE op' = op
    <3>1. op.node \in NodeId /\ index.end \in Nat
      BY <1>2 DEF IInv, OpSound, IndexOK
    <3>2. op.node < index'.end
      BY <1>2, <1>5, <3>1 DEF IInv, OpSound, NodeId, Root
    <3> QED BY <1>2, <1>3, <2>2, <3>2 DEF IInv, OpSound
  <2> QED BY <1>1, <2>1, <2>2 DEF Answer
<1>13. StackSound'
  <2>1. CASE half' = FALSE /\ top' = top - 1
    <3>1. \A i \in 1 .. top : stack[i].num \in Nat
      BY <1>2 DEF Update
    <3>2. <<u.node, u.slot>> \in DOMAIN index'.entry
      BY <1>8 DEF p
    <3>3. DOMAIN index.entry \subseteq DOMAIN index'.entry
      BY <1>8
    <3>4. StackSound
      BY DEF IInv
    <3> QED
      BY <1>1, <1>2, <1>3, <1>5, <2>1, <3>1, <3>2, <3>3, <3>4, PopSound DEF u
  <2>2. CASE half' = TRUE /\ top' = top
    <3> SUFFICES ASSUME NEW i \in 1 .. top PROVE UpdateSound(i)'
      BY <2>2 DEF StackSound
    <3>1. UpdateSound(i) /\ stack[i].num \in Nat /\ index.end \in Nat
      BY <1>2 DEF Update, IndexOK
    <3>2. EntrySound(index', data', stack'[i].node, stack'[i].slot, stack'[i])
      BY <1>1, <1>3, <3>1 DEF UpdateSound, EntrySound
    <3>3. ~stack[i].leaf => (stack[i].num < index'.end \/ (i < top /\ stack[i + 1].node = stack[i].num))
      BY <1>5, <3>1 DEF UpdateSound
    <3>4. i = top => <<stack[i].node, stack[i].slot>> \in DOMAIN index'.entry
      BY <1>8 DEF p, u
    <3>5. \A s \in stack[i].slots :
            \/ s = stack[i].slot
            \/ <<stack[i].node, s>> \in DOMAIN index'.entry
            \/ i < top /\ stack[i + 1].node = stack[i].node /\ stack[i + 1].slot = s
      BY <1>8, <3>1 DEF UpdateSound
    <3> QED BY <1>1, <2>2, <3>2, <3>3, <3>4, <3>5 DEF UpdateSound
  <2> QED BY <1>1, <2>1, <2>2
<1>14. TypeOK'
  <2>1. half' \in BOOLEAN
    BY <1>1
  <2>2. top' \in 0 .. Len(stack)
    BY <1>1, <1>2 DEF IInv, TypeOK
  <2>3. \/ UNCHANGED <<op, reply>>
        \/ op' = NoOp /\ DOMAIN reply' = {"kind", "key", "value", "result"}
    BY <1>1 DEF Answer
  <2> QED BY <1>1, <1>9, <2>1, <2>2, <2>3, WriteTypes DEF IInv
<1>15. ModesOK'
  BY <1>1, <1>2 DEF ModesOK, Answer
<1> QED BY <1>10, <1>11, <1>12, <1>13, <1>14, <1>15 DEF IInv

\* Writing a bitmap byte of the stack keeps the invariant: every bit that it
\* sets has an entry already.
LEMMA WriteBitmapStep ==
  ASSUME IInv, WriteBitmap
  PROVE  IInv'
<1> DEFINE u == stack[top]
           old == {q \in index.bits : ~(q[1] = u.node /\ SameByte(q[2], u.slot))}
           new == {<<u.node, s>> : s \in u.slots}
<1>1. /\ mode = "open" /\ top > 0 /\ half
      /\ diskIndex' = index
      /\ index' = [index EXCEPT !.bits = old \cup new]
      /\ UNCHANGED <<data, diskData, saved, mode, stack>>
      /\ half' = FALSE /\ top' = top - 1
      /\ IF top = 1 THEN Answer("ok") ELSE UNCHANGED <<op, reply>>
  BY DEF WriteBitmap, Pop, FlushIndex
<1>2. /\ top \in Nat /\ op # NoOp
      /\ \A i \in 1 .. top : stack[i] \in Update /\ UpdateSound(i)
      /\ IndexOK(index) /\ Sound(index, data)
      /\ u \in Update
      /\ <<u.node, u.slot>> \in DOMAIN index.entry
      /\ \A s \in u.slots : s = u.slot \/ <<u.node, s>> \in DOMAIN index.entry
  BY <1>1, UpdateContext
<1>3. /\ DOMAIN index' = {"entry", "bits", "end", "owner"}
      /\ index'.entry = index.entry /\ index'.end = index.end
      /\ index'.bits = old \cup new /\ index'.owner = index.owner
  BY <1>1, <1>2 DEF IndexOK
<1>4. u.node \in NodeId /\ u.slots \subseteq Slot
  BY <1>2 DEF Update
<1>5. u.node < index.end
  <2>1. PICK q \in DOMAIN index.entry : q = <<u.node, u.slot>>
    BY <1>2
  <2>2. Settled(index, data, q[1], q[2], index.entry[q])
    BY <1>2 DEF Sound
  <2> QED BY <2>1, <2>2 DEF Settled
<1>6. old \cup new \subseteq DOMAIN index.entry
  BY <1>2 DEF Sound
<1> HIDE DEF u, old, new
<1>7. IndexOK(index')
  BY <1>2, <1>3, <1>6 DEF IndexOK
<1>8. Sound(index', data')
  <2>1. \A q \in DOMAIN index.entry : Settled(index, data, q[1], q[2], index.entry[q])
    BY <1>2 DEF Sound
  <2>2. \A q \in DOMAIN index'.entry : Settled(index', data', q[1], q[2], index'.entry[q])
    BY <1>1, <1>3, <2>1 DEF Settled, EntrySound
  <2> QED BY <1>2, <1>3, <1>6, <2>2 DEF Sound
<1>9. Sound(saved.index, saved.data)'
  BY <1>1 DEF IInv
<1>10. OpSound'
  <2>1. CASE op' = NoOp
    BY <2>1 DEF OpSound
  <2>2. CASE op' = op
    BY <1>2, <1>3, <2>2 DEF IInv, OpSound
  <2> QED BY <1>1, <2>1, <2>2 DEF Answer
<1>11. StackSound'
  <2>1. \A i \in 1 .. top : stack[i].num \in Nat
    BY <1>2 DEF Update
  <2>2. index.end \in Nat /\ index.end <= index.end
    BY <1>2 DEF IndexOK
  <2>3. StackSound
    BY DEF IInv
  <2> QED BY <1>1, <1>2, <1>3, <1>5, <2>1, <2>2, <2>3, PopSound DEF u
<1>12. TypeOK'
  <2>1. half' \in BOOLEAN
    BY <1>1
  <2>2. top' \in 0 .. Len(stack)
    BY <1>1, <1>2 DEF IInv, TypeOK
  <2>3. \/ UNCHANGED <<op, reply>>
        \/ op' = NoOp /\ DOMAIN reply' = {"kind", "key", "value", "result"}
    BY <1>1 DEF Answer
  <2> QED BY <1>1, <1>7, <2>1, <2>2, <2>3, WriteTypes DEF IInv
<1>13. ModesOK'
  BY <1>1, <1>2 DEF ModesOK, Answer
<1> QED BY <1>8, <1>9, <1>10, <1>11, <1>12, <1>13 DEF IInv

-----------------------------------------------------------------------------
\* Every step keeps the invariant.
LEMMA StepOK == IInv /\ [Next]_vars => IInv'
<1> SUFFICES ASSUME IInv, [Next]_vars PROVE IInv'
  OBVIOUS
<1>1. CASE \/ Open \/ CloseData \/ CloseIndex \/ Save \/ Reset
           \/ Fail \/ Kill \/ UNCHANGED vars
  BY <1>1, QuietStep
<1>2. CASE \E k \in Key :
             \/ Begin("lookup", k, "none")
             \/ \E kind \in {"insert", "check"}, v \in Value : Begin(kind, k, v)
  <2>1. ASSUME NEW k \in Key, Begin("lookup", k, "none") PROVE IInv'
    BY <2>1, BeginStep
  <2>2. ASSUME NEW k \in Key, NEW kind \in {"insert", "check"}, NEW v \in Value,
               Begin(kind, k, v)
        PROVE  IInv'
    BY <2>2, BeginStep
  <2> QED BY <1>2, <2>1, <2>2
<1>3. CASE Descend
  BY <1>3, DescendStep
<1>4. CASE FoundMapped \/ LookupAbsent
  BY <1>4, AnswerStep
<1>5. CASE InsertNew
  BY <1>5, InsertNewStep
<1>6. CASE InsertCollision
  BY <1>6, InsertCollisionStep
<1>7. CASE WriteEntry
  BY <1>7, WriteEntryStep
<1>8. CASE WriteBitmap
  BY <1>8, WriteBitmapStep
<1> QED
  BY <1>1, <1>2, <1>3, <1>4, <1>5, <1>6, <1>7, <1>8 DEF Next, Process

\* The inductive invariant holds in every behaviour.
THEOREM Invariance == Spec => []IInv
<1>1. Init => IInv
  BY InitOK
<1>2. IInv /\ [Next]_vars => IInv'
  BY StepOK
<1> QED BY <1>1, <1>2, PTL DEF Spec

\* The variables keep their types, whatever is interrupted and reset.
THEOREM TypeCorrect == Spec => []TypeOK
<1>1. IInv => TypeOK
  BY DEF IInv
<1> QED BY <1>1, Invariance, PTL

\* At every point of every insertion, each bit that is set in the trie has an
\* entry, and the entry leads to a record or a subtrie of its own slot: the
\* order of the writes in update_after_collision is right for keys of any
\* length, any layout of the bitmaps and any earlier unfinished insertion.
THEOREM IndexSoundAlways == Spec => []IndexSound
<1>1. IInv => IndexSound
  BY DEF IInv, Sound, Settled, IndexSound
<1> QED BY <1>1, Invariance, PTL

\* The assertion of update_after_collision never fails in a database that is
\* reset after a process was killed.
THEOREM CollisionAssert == Spec => []CollisionAssertHolds
<1>1. IInv => CollisionAssertHolds
  <2> SUFFICES ASSUME IInv, Looking, op.kind # "lookup", Hit, Readable, HitKey # op.key
               PROVE  KeysShareThePath(HitKey)
    BY DEF CollisionAssertHolds
  <2> DEFINE k == op.key
             d == op.depth
             o == index.owner[op.node]
             e == HitKey
             m == Mismatch(k, e)
  <2>1. /\ k \in Key /\ d \in 0 .. Depth - 1 /\ data \in Seq(Record)
        /\ IndexOK(index) /\ Sound(index, data) /\ Depth \in Nat
        /\ o.depth = d /\ Shares(o, k)
    BY InsertContext, ConstantsAssumption
  <2>2. Place \in DOMAIN index.entry /\ EntryAt(index, Place) = index.entry[Place]
    BY <2>1 DEF Hit, BitSet, Sound, EntryAt
  <2>3. Settled(index, data, op.node, Digit[k][d], index.entry[Place])
    BY <2>1, <2>2 DEF Sound, Place
  <2>4. HitNum \in Nat /\ HitNum < Len(data) /\ HitNum = index.entry[Place].num
    BY <2>1, <2>2 DEF HitNum, IndexOK, Entry, Readable
  <2>5. HitKey \in Key
    <3>1. HitNum + 1 \in 1 .. Len(data)
      BY <2>1, <2>4
    <3>2. data[HitNum + 1] \in Record
      BY <2>1, <3>1
    <3> QED BY <3>2 DEF HitKey, Record
  <2>6. OnPath(o, Digit[k][d], e)
    BY <2>2, <2>3, <2>4 DEF Settled, EntrySound, Hit, HitKey
  <2>7. \A j \in 0 .. d : Digit[k][j] = Digit[e][j]
    BY <2>1, <2>6 DEF OnPath, Shares
  <2>8. m \in 0 .. Depth - 1 /\ Digit[k][m] # Digit[e][m]
    BY <2>1, <2>5, MismatchProperties
  <2> HIDE DEF m, k, e
  <2>9. m \notin 0 .. d
    BY <2>7, <2>8
  <2>10. m > d
    BY <2>1, <2>8, <2>9
  <2> QED BY <2>10 DEF m, k, e, KeysShareThePath
<1> QED BY <1>1, Invariance, PTL

-----------------------------------------------------------------------------
(***************************************************************************)
(* The map.  An insertion writes where no lookup arrives until its last    *)
(* write: a new bit for a new entry, the redirection of one place for a    *)
(* collision.  MInv says what the updates made so far have written         *)
(* (Underway), that a lookup under way is on the trail of its key          *)
(* (OnTrail) and what the files have of it (FilesInv).                     *)
(***************************************************************************)
PlaceOf(u) == <<u.node, u.slot>>

\* Update u has been made: its entry is in the index.
Made(idx, u) ==
  /\ PlaceOf(u) \in DOMAIN idx.entry
  /\ idx.entry[PlaceOf(u)].leaf = u.leaf /\ idx.entry[PlaceOf(u)].num = u.num

\* insert_new_entry under way: the bit is not set, and the byte that will be
\* written holds the bits that are.
NewEntryUnderway ==
  LET u == stack[1]
  IN /\ Len(stack) = 1
     /\ u.node = op.node /\ u.slot = Digit[op.key][op.depth]
     /\ u.leaf /\ ~u.skip
     /\ PlaceOf(u) \notin index.bits
     /\ u.slots = {s \in Slot : \/ s = u.slot
                                \/ SameByte(s, u.slot) /\ <<u.node, s>> \in index.bits}
     /\ half => Made(index, u)

\* The stack of update_after_collision for the record number h of key e: the
\* redirected place, links through the nodes from next on, and two records.
CollisionItems(o, st, e, next, h) ==
  LET L == Len(st)
      m == o.depth + L - 2
      n == Digit[o.key][m]
      f == Digit[e][m]
  IN /\ L \in Nat /\ L >= 3
     /\ e \in Key /\ e # o.key /\ m <= Depth - 1 /\ n # f
     /\ \A j \in 0 .. m - 1 : Digit[e][j] = Digit[o.key][j]
     /\ \A i \in 1 .. L - 2 :
          /\ st[i].node = (IF i = 1 THEN o.node ELSE next + i - 2)
          /\ st[i].slot = Digit[o.key][o.depth + i - 1]
          /\ ~st[i].leaf /\ st[i].num = next + i - 1
          /\ IF i = 1 THEN st[i].skip ELSE ~st[i].skip /\ st[i].slots = {st[i].slot}
     /\ st[L - 1].node = next + L - 3 /\ st[L - 1].slot = f
     /\ st[L - 1].leaf /\ st[L - 1].num = h /\ ~st[L - 1].skip
     /\ st[L - 1].slots = (IF SameByte(n, f) THEN {n, f} ELSE {f})
     /\ st[L].node = next + L - 3 /\ st[L].slot = n
     /\ st[L].leaf /\ (st[L].skip <=> SameByte(n, f))
     /\ st[L].slots = {n}

\* update_after_collision under way: what is above the top of the stack has been
\* written, and nothing else has in the new nodes.
CollisionUnderway ==
  LET L    == Len(stack)
      next == stack[1].num
      h    == stack[L - 1].num
  IN /\ CollisionItems(op, stack, data[h + 1].key, next, h)
     /\ h < Len(data)
     /\ op.node < next
     /\ PlaceOf(stack[1]) \in index.bits
     /\ index.entry[PlaceOf(stack[1])].leaf /\ index.entry[PlaceOf(stack[1])].num = h
     /\ \A p \in index.bits : p[1] < next /\ ~index.entry[p].leaf => index.entry[p].num < next
     /\ \A p \in index.bits :
          p[1] >= next => \E i \in 2 .. L : p = PlaceOf(stack[i]) /\ Made(index, stack[i])
     /\ \A i \in top + 1 .. L :
          /\ Made(index, stack[i])
          /\ PlaceOf(stack[i]) \in index.bits \/ (stack[i].skip /\ top = L - 1)
     /\ half => Made(index, stack[top]) /\ ~stack[top].skip

\* The new record is the last one of the data, and the last update names it.
Underway ==
  top > 0 =>
    /\ op.kind # "lookup"
    /\ Len(data) > 0 /\ data[Len(data)] = [key |-> op.key, value |-> op.value]
    /\ stack[Len(stack)].num = Len(data) - 1
    /\ NewEntryUnderway \/ CollisionUnderway

\* A lookup has come to the node where the trail of its key is at its depth.
OnTrail == op # NoOp => Trail(index, op.key)[op.depth] = op.node

\* Sequence s begins sequence t.
IsPrefixOf(s, t) == Len(s) <= Len(t) /\ \A i \in 1 .. Len(s) : s[i] = t[i]

\* The files hold a beginning of the records, and lead to none that the streams
\* do not; the index is flushed when a lookup starts.
FilesInv ==
  /\ mode \in {"open", "closing"} =>
       /\ IsPrefixOf(diskData, data)
       /\ \A k \in Key : Found(diskIndex, data, k) \subseteq Found(index, data, k)
  /\ Looking => diskIndex = index

\* The inductive invariant behind the map, with IInv.
MInv == Underway /\ OnTrail /\ FilesInv

-----------------------------------------------------------------------------
(***************************************************************************)
(* The trail of a lookup.                                                  *)
(***************************************************************************)
\* Where a lookup goes from slot s of node n.
Follow(idx, n, s) ==
  IF <<n, s>> \in idx.bits /\ ~EntryAt(idx, <<n, s>>).leaf
  THEN EntryAt(idx, <<n, s>>).num ELSE Nowhere

\* Function f is the trail of k.
IsTrail(idx, k, f) ==
  f = [d \in 0 .. Depth - 1 |->
         IF d = 0 THEN Root ELSE Follow(idx, f[d - 1], Digit[k][d - 1])]

\* A set that holds a and, with each number below b, the next one, holds all
\* numbers from a to b.
LEMMA Upwards ==
  ASSUME NEW a \in Int, NEW b \in Int, NEW T,
         a \in T, \A d \in a .. b - 1 : d \in T => d + 1 \in T
  PROVE  \A d \in a .. b : d \in T
<1> DEFINE M == {n \in Nat : a + n <= b /\ a + n \notin T}
<1>1. SUFFICES ASSUME NEW c \in a .. b, c \notin T PROVE FALSE
  OBVIOUS
<1>2. c - a \in Nat /\ a + (c - a) = c
  OBVIOUS
<1>3. c - a \in M
  BY <1>1, <1>2
<1>4. PICK n \in M : \A i \in M : n <= i
  <2>1. M \subseteq Nat /\ M # {}
    BY <1>3
  <2> HIDE DEF M
  <2> QED BY <2>1, SmallestNat
<1>5. n \in Nat /\ a + n <= b /\ a + n \notin T
  BY <1>4
<1>6. n # 0
  BY <1>5
<1>7. n - 1 \notin M
  BY <1>4, <1>5
<1>8. a + (n - 1) \in T
  BY <1>5, <1>6, <1>7
<1>9. a + (n - 1) \in a .. b - 1 /\ (a + (n - 1)) + 1 = a + n
  BY <1>5, <1>6
<1> QED BY <1>5, <1>8, <1>9

\* A function built by following an index exists.
LEMMA TrailExists ==
  ASSUME NEW idx, NEW k
  PROVE  \E f : IsTrail(idx, k, f)
<1> DEFINE Goes(f, d) == IF d = 0 THEN Root ELSE Follow(idx, f[d - 1], Digit[k][d - 1])
           T == {c \in 0 .. Depth - 1 : \E f : f = [d \in 0 .. c |-> Goes(f, d)]}
<1>1. Depth \in Nat \ {0}
  BY ConstantsAssumption
<1>2. 0 \in T
  <2> DEFINE f == [d \in 0 .. 0 |-> Root]
  <2>1. \A d \in 0 .. 0 : Goes(f, d) = Root
    OBVIOUS
  <2> HIDE DEF Goes
  <2>2. f = [d \in 0 .. 0 |-> Goes(f, d)]
    BY <2>1
  <2>3. 0 \in 0 .. Depth - 1
    BY <1>1
  <2> HIDE DEF f
  <2> QED BY <2>2, <2>3
<1>3. ASSUME NEW c \in 0 .. Depth - 1 - 1, c \in T
      PROVE  c + 1 \in T
  <2>1. PICK f : f = [d \in 0 .. c |-> Goes(f, d)]
    BY <1>3
  <2> DEFINE g == [d \in 0 .. c + 1 |-> IF d = c + 1 THEN Goes(f, c + 1) ELSE f[d]]
  <2>2. ASSUME NEW d \in 0 .. c + 1 PROVE g[d] = Goes(g, d)
    <3>1. CASE d = 0
      <4>1. g[0] = f[0] /\ f[0] = Goes(f, 0)
        BY <1>1, <2>1
      <4> QED BY <3>1, <4>1
    <3>2. CASE d # 0
      <4>1. d - 1 \in 0 .. c /\ g[d - 1] = f[d - 1]
        BY <1>1, <3>2
      <4>2. g[d] = Goes(f, d)
        BY <1>1, <2>1, <3>2
      <4> QED BY <3>2, <4>1, <4>2
    <3> QED BY <3>1, <3>2
  <2> HIDE DEF Goes
  <2>3. g = [d \in 0 .. c + 1 |-> Goes(g, d)]
    BY <2>2
  <2>4. c + 1 \in 0 .. Depth - 1
    BY <1>1
  <2> HIDE DEF g
  <2> QED BY <2>3, <2>4
<1>4. Depth - 1 \in T
  <2> HIDE DEF T
  <2>1. \A d \in 0 .. Depth - 1 : d \in T
    BY <1>1, <1>2, <1>3, Upwards
  <2> QED BY <1>1, <2>1
<1>5. PICK f : f = [d \in 0 .. Depth - 1 |-> Goes(f, d)]
  BY <1>4
<1> QED BY <1>5 DEF IsTrail

\* The trail starts at the root, and goes where each entry leads.
LEMMA TrailSteps ==
  ASSUME NEW idx, NEW k
  PROVE  /\ Trail(idx, k)[0] = Root
         /\ \A d \in 1 .. Depth - 1 :
              Trail(idx, k)[d] = Follow(idx, Trail(idx, k)[d - 1], Digit[k][d - 1])
<1> DEFINE at == CHOOSE f : IsTrail(idx, k, f)
<1>1. Trail(idx, k) = at
  BY DEF Trail, Follow, IsTrail
<1>2. IsTrail(idx, k, at)
  BY TrailExists
<1>3. Depth \in Nat \ {0}
  BY ConstantsAssumption
<1> HIDE DEF at
<1>4. at[0] = Root
  BY <1>2, <1>3 DEF IsTrail
<1>5. ASSUME NEW d \in 1 .. Depth - 1 PROVE at[d] = Follow(idx, at[d - 1], Digit[k][d - 1])
  BY <1>2, <1>3 DEF IsTrail
<1> QED BY <1>1, <1>4, <1>5

\* The place a lookup of k looks at on level d.
At(idx, k, d) == <<Trail(idx, k)[d], Digit[k][d]>>

\* A lookup of k ends at an entry for record i.
Leads(idx, k, i) ==
  \E d \in 0 .. Depth - 1 :
    /\ At(idx, k, d) \in idx.bits
    /\ EntryAt(idx, At(idx, k, d)).leaf /\ EntryAt(idx, At(idx, k, d)).num = i

\* What Found holds.
LEMMA FoundIff ==
  ASSUME NEW idx, NEW dat, NEW k, NEW i
  PROVE  i \in Found(idx, dat, k) <=> Leads(idx, k, i) /\ i < Len(dat) /\ dat[i + 1].key = k
BY DEF Found, Leads, At

\* Nothing is found from nowhere.
LEMMA NowhereStays ==
  ASSUME NEW idx, IndexOK(idx), NEW s
  PROVE  <<Nowhere, s>> \notin idx.bits /\ Follow(idx, Nowhere, s) = Nowhere
<1>1. Nowhere \notin NodeId
  BY DEF Nowhere, NodeId, Root
<1>2. idx.bits \subseteq NodeId \X Slot
  BY DEF IndexOK
<1>3. <<Nowhere, s>> \notin idx.bits
  BY <1>1, <1>2
<1> QED BY <1>3 DEF Follow

\* Below an entry that leads nowhere there is nothing.
LEMMA TrailStops ==
  ASSUME NEW idx, IndexOK(idx), NEW k \in Key, NEW d \in 0 .. Depth - 1,
         Follow(idx, Trail(idx, k)[d], Digit[k][d]) = Nowhere
  PROVE  \A j \in d + 1 .. Depth - 1 : Trail(idx, k)[j] = Nowhere
<1> DEFINE t == Trail(idx, k)
           T == {j \in d + 1 .. Depth - 1 : t[j] = Nowhere}
<1>1. Depth \in Nat \ {0}
  BY ConstantsAssumption
<1>2. \A j \in 1 .. Depth - 1 : t[j] = Follow(idx, t[j - 1], Digit[k][j - 1])
  BY TrailSteps
<1> HIDE DEF t
<1>3. CASE d + 1 > Depth - 1
  BY <1>1, <1>3 DEF t
<1>4. CASE d + 1 <= Depth - 1
  <2>1. d + 1 \in T
    <3>1. d + 1 \in 1 .. Depth - 1 /\ (d + 1) - 1 = d /\ d + 1 \in d + 1 .. Depth - 1
      BY <1>1, <1>4
    <3>2. t[d + 1] = Follow(idx, t[d], Digit[k][d])
      BY <1>2, <3>1
    <3> QED BY <3>1, <3>2 DEF t
  <2>2. ASSUME NEW j \in d + 1 .. Depth - 1 - 1, j \in T PROVE j + 1 \in T
    <3>1. j + 1 \in 1 .. Depth - 1 /\ (j + 1) - 1 = j /\ j + 1 \in d + 1 .. Depth - 1
      BY <1>1
    <3>2. t[j + 1] = Follow(idx, t[j], Digit[k][j])
      BY <1>2, <3>1
    <3>3. t[j] = Nowhere
      BY <2>2
    <3>4. Follow(idx, Nowhere, Digit[k][j]) = Nowhere
      BY NowhereStays
    <3> QED BY <3>1, <3>2, <3>3, <3>4
  <2>3. \A j \in d + 1 .. Depth - 1 : j \in T
    <3> HIDE DEF T
    <3> QED BY <1>1, <2>1, <2>2, Upwards
  <2> QED BY <2>3 DEF t
<1> QED BY <1>1, <1>3, <1>4

\* Above a node that a lookup visits all places hold subtries.
LEMMA TrailAbove ==
  ASSUME NEW idx, IndexOK(idx), NEW k \in Key, NEW d \in 0 .. Depth - 1,
         Trail(idx, k)[d] # Nowhere, NEW j \in 0 .. d - 1
  PROVE  /\ At(idx, k, j) \in idx.bits /\ ~EntryAt(idx, At(idx, k, j)).leaf
         /\ Trail(idx, k)[j + 1] = EntryAt(idx, At(idx, k, j)).num
         /\ Trail(idx, k)[j] # Nowhere
<1>1. Depth \in Nat \ {0}
  BY ConstantsAssumption
<1>2. j \in 0 .. Depth - 1 /\ d \in j + 1 .. Depth - 1
  BY <1>1
<1>3. Follow(idx, Trail(idx, k)[j], Digit[k][j]) # Nowhere
  BY <1>2, TrailStops
<1>4. At(idx, k, j) \in idx.bits /\ ~EntryAt(idx, At(idx, k, j)).leaf
  BY <1>3 DEF Follow, At
<1>5. j + 1 \in 1 .. Depth - 1 /\ (j + 1) - 1 = j
  BY <1>1
<1>6. Trail(idx, k)[j + 1] = Follow(idx, Trail(idx, k)[j], Digit[k][j])
  BY <1>5, TrailSteps
<1>7. Trail(idx, k)[j] # Nowhere
  BY <1>3, NowhereStays
<1> QED BY <1>4, <1>6, <1>7 DEF Follow, At

\* A place with a set bit is on no other level of a trail than below subtries.
LEMMA VisitedBelow ==
  ASSUME NEW idx, IndexOK(idx), NEW k \in Key, NEW d \in 0 .. Depth - 1,
         At(idx, k, d) \in idx.bits
  PROVE  Trail(idx, k)[d] # Nowhere
BY NowhereStays DEF At

\* A lookup ends at one entry at most.
LEMMA LeadsOnce ==
  ASSUME NEW idx, IndexOK(idx), NEW k \in Key, NEW i, NEW j, Leads(idx, k, i), Leads(idx, k, j)
  PROVE  i = j
<1>1. Depth \in Nat \ {0}
  BY ConstantsAssumption
<1>2. PICK c \in 0 .. Depth - 1 :
        /\ At(idx, k, c) \in idx.bits
        /\ EntryAt(idx, At(idx, k, c)).leaf /\ EntryAt(idx, At(idx, k, c)).num = i
  BY DEF Leads
<1>3. PICK d \in 0 .. Depth - 1 :
        /\ At(idx, k, d) \in idx.bits
        /\ EntryAt(idx, At(idx, k, d)).leaf /\ EntryAt(idx, At(idx, k, d)).num = j
  BY DEF Leads
<1>4. Trail(idx, k)[c] # Nowhere /\ Trail(idx, k)[d] # Nowhere
  BY <1>2, <1>3, VisitedBelow
<1>5. ~ c < d
  <2>1. SUFFICES ASSUME c < d PROVE FALSE
    OBVIOUS
  <2>2. c \in 0 .. d - 1
    BY <1>1, <2>1
  <2> QED BY <1>2, <1>4, <2>2, TrailAbove
<1>6. ~ d < c
  <2>1. SUFFICES ASSUME d < c PROVE FALSE
    OBVIOUS
  <2>2. d \in 0 .. c - 1
    BY <1>1, <2>1
  <2> QED BY <1>3, <1>4, <2>2, TrailAbove
<1>7. c = d
  BY <1>1, <1>5, <1>6
<1> QED BY <1>2, <1>3, <1>7

\* The nodes a lookup visits were made for keys it shares the path with.
LEMMA TrailSound ==
  ASSUME NEW idx, NEW dat, IndexOK(idx), Sound(idx, dat), NEW k \in Key
  PROVE  \A d \in 0 .. Depth - 1 :
           LET n == Trail(idx, k)[d]
           IN n = Nowhere \/ (/\ n \in DOMAIN idx.owner /\ idx.owner[n].depth = d
                              /\ Shares(idx.owner[n], k))
<1> DEFINE t == Trail(idx, k)
           Good(n, d) == /\ n \in DOMAIN idx.owner /\ idx.owner[n].depth = d
                         /\ Shares(idx.owner[n], k)
           T == {d \in 0 .. Depth - 1 : t[d] = Nowhere \/ Good(t[d], d)}
<1>1. Depth \in Nat \ {0}
  BY ConstantsAssumption
<1>2. t[0] = Root /\ \A j \in 1 .. Depth - 1 : t[j] = Follow(idx, t[j - 1], Digit[k][j - 1])
  BY TrailSteps
<1> HIDE DEF t
<1>3. 0 \in T
  BY <1>1, <1>2 DEF Sound, Shares
<1>4. ASSUME NEW d \in 0 .. Depth - 1 - 1, d \in T PROVE d + 1 \in T
  <2>1. d + 1 \in 1 .. Depth - 1 /\ (d + 1) - 1 = d /\ d + 1 \in 0 .. Depth - 1
    BY <1>1
  <2>2. t[d + 1] = Follow(idx, t[d], Digit[k][d])
    BY <1>2, <2>1
  <2> DEFINE p == <<t[d], Digit[k][d]>>
  <2>3. CASE t[d + 1] = Nowhere
    BY <2>1, <2>3
  <2>4. CASE t[d + 1] # Nowhere
    <3>1. p \in idx.bits /\ ~EntryAt(idx, p).leaf /\ t[d + 1] = EntryAt(idx, p).num
      BY <2>2, <2>4 DEF Follow
    <3>2. t[d] # Nowhere
      BY <3>1, NowhereStays
    <3>3. p \in DOMAIN idx.entry /\ EntryAt(idx, p) = idx.entry[p]
      BY <3>1 DEF Sound, EntryAt
    <3>4. Settled(idx, dat, t[d], Digit[k][d], idx.entry[p])
      BY <3>3 DEF Sound
    <3>5. /\ t[d + 1] \in DOMAIN idx.owner
          /\ idx.owner[t[d + 1]].depth = idx.owner[t[d]].depth + 1
          /\ OnPath(idx.owner[t[d]], Digit[k][d], idx.owner[t[d + 1]].key)
      BY <3>1, <3>3, <3>4 DEF Settled, EntrySound
    <3>6. Good(t[d], d)
      BY <1>4, <3>2
    <3>7. idx.owner[t[d + 1]].depth = d + 1
      BY <3>5, <3>6
    <3>8. ASSUME NEW j \in 0 .. d PROVE Digit[k][j] = Digit[idx.owner[t[d + 1]].key][j]
      BY <3>5, <3>6 DEF OnPath, Shares
    <3>9. Shares(idx.owner[t[d + 1]], k)
      BY <3>7, <3>8 DEF Shares
    <3> QED BY <2>1, <3>5, <3>7, <3>9
  <2> QED BY <2>3, <2>4
<1>5. \A d \in 0 .. Depth - 1 : d \in T
  <2> HIDE DEF T
  <2> QED BY <1>1, <1>3, <1>4, Upwards
<1> QED BY <1>5 DEF t

\* Two indexes agree on the nodes of N, which are the root and whatever the
\* entries of nodes of N lead to.
AgreeOn(N, idx, idx2) ==
  /\ Root \in N
  /\ \A p \in idx.bits \cup idx2.bits :
       p[1] \in N => /\ p \in idx.bits /\ p \in idx2.bits
                     /\ EntryAt(idx2, p) = EntryAt(idx, p)
                     /\ ~EntryAt(idx, p).leaf => EntryAt(idx, p).num \in N

\* Lookups do not tell such indexes apart.
LEMMA SameTrail ==
  ASSUME NEW N, NEW idx, NEW idx2, IndexOK(idx), IndexOK(idx2), AgreeOn(N, idx, idx2),
         NEW k \in Key
  PROVE  /\ \A d \in 0 .. Depth - 1 :
              /\ Trail(idx2, k)[d] = Trail(idx, k)[d]
              /\ Trail(idx, k)[d] = Nowhere \/ Trail(idx, k)[d] \in N
         /\ \A i : Leads(idx2, k, i) <=> Leads(idx, k, i)
<1> DEFINE t == Trail(idx, k)
           u == Trail(idx2, k)
           T == {d \in 0 .. Depth - 1 : u[d] = t[d] /\ (t[d] = Nowhere \/ t[d] \in N)}
<1>1. Depth \in Nat \ {0}
  BY ConstantsAssumption
<1>2. /\ t[0] = Root /\ \A j \in 1 .. Depth - 1 : t[j] = Follow(idx, t[j - 1], Digit[k][j - 1])
      /\ u[0] = Root /\ \A j \in 1 .. Depth - 1 : u[j] = Follow(idx2, u[j - 1], Digit[k][j - 1])
  BY TrailSteps
<1> HIDE DEF t, u
<1>3. 0 \in T
  BY <1>1, <1>2 DEF AgreeOn
<1>4. ASSUME NEW d \in 0 .. Depth - 1 - 1, d \in T PROVE d + 1 \in T
  <2>1. d + 1 \in 1 .. Depth - 1 /\ (d + 1) - 1 = d /\ d + 1 \in 0 .. Depth - 1
    BY <1>1
  <2>2. t[d + 1] = Follow(idx, t[d], Digit[k][d]) /\ u[d + 1] = Follow(idx2, u[d], Digit[k][d])
    BY <1>2, <2>1
  <2> DEFINE p == <<t[d], Digit[k][d]>>
  <2>3. CASE t[d] = Nowhere
    <3>1. u[d] = Nowhere
      BY <1>4, <2>3
    <3>2. t[d + 1] = Nowhere /\ u[d + 1] = Nowhere
      BY <2>2, <2>3, <3>1, NowhereStays
    <3> QED BY <2>1, <3>2
  <2>4. CASE t[d] # Nowhere
    <3>1. t[d] \in N /\ u[d] = t[d]
      BY <1>4, <2>4
    <3>2. p[1] \in N
      BY <3>1
    <3> HIDE DEF p
    <3>3. /\ p \in idx.bits <=> p \in idx2.bits
          /\ p \in idx.bits => EntryAt(idx2, p) = EntryAt(idx, p)
          /\ p \in idx.bits /\ ~EntryAt(idx, p).leaf => EntryAt(idx, p).num \in N
      BY <3>2 DEF AgreeOn
    <3>4. u[d + 1] = t[d + 1] /\ (t[d + 1] = Nowhere \/ t[d + 1] \in N)
      BY <2>2, <3>1, <3>3 DEF Follow, p
    <3> QED BY <2>1, <3>4
  <2> QED BY <2>3, <2>4
<1>5. \A d \in 0 .. Depth - 1 : d \in T
  <2> HIDE DEF T
  <2> QED BY <1>1, <1>3, <1>4, Upwards
<1>6. ASSUME NEW d \in 0 .. Depth - 1
      PROVE  /\ At(idx2, k, d) = At(idx, k, d)
             /\ At(idx2, k, d) \in idx2.bits <=> At(idx, k, d) \in idx.bits
             /\ At(idx, k, d) \in idx.bits => EntryAt(idx2, At(idx2, k, d)) = EntryAt(idx, At(idx, k, d))
  <2> DEFINE p == <<t[d], Digit[k][d]>>
  <2>1. At(idx, k, d) = p /\ At(idx2, k, d) = p
    BY <1>5 DEF At, t, u
  <2>2. CASE t[d] = Nowhere
    BY <2>1, <2>2, NowhereStays
  <2>3. CASE t[d] # Nowhere
    <3>1. p[1] \in N
      BY <1>5, <2>3
    <3> HIDE DEF p
    <3> QED BY <2>1, <3>1 DEF AgreeOn
  <2> QED BY <2>2, <2>3
<1>7. \A i : Leads(idx2, k, i) <=> Leads(idx, k, i)
  BY <1>6 DEF Leads
<1> QED BY <1>5, <1>7 DEF t, u

\* Two trails agree down to a level if the entries above it do.
LEMMA SameTrailDownTo ==
  ASSUME NEW idx, NEW idx2, IndexOK(idx), IndexOK(idx2),
         NEW k \in Key, NEW c \in 0 .. Depth - 1,
         \A d \in 0 .. c - 1 :
           /\ At(idx, k, d) \in idx.bits <=> At(idx, k, d) \in idx2.bits
           /\ At(idx, k, d) \in idx.bits =>
                EntryAt(idx2, At(idx, k, d)) = EntryAt(idx, At(idx, k, d))
  PROVE  \A d \in 0 .. c : Trail(idx2, k)[d] = Trail(idx, k)[d]
<1> DEFINE t == Trail(idx, k)
           u == Trail(idx2, k)
           T == {d \in 0 .. c : u[d] = t[d]}
<1>1. Depth \in Nat \ {0}
  BY ConstantsAssumption
<1>2. /\ t[0] = Root /\ \A j \in 1 .. Depth - 1 : t[j] = Follow(idx, t[j - 1], Digit[k][j - 1])
      /\ u[0] = Root /\ \A j \in 1 .. Depth - 1 : u[j] = Follow(idx2, u[j - 1], Digit[k][j - 1])
  BY TrailSteps
<1>3. 0 \in T
  BY <1>1, <1>2
<1>4. ASSUME NEW d \in 0 .. c - 1, d \in T PROVE d + 1 \in T
  <2>1. d + 1 \in 1 .. Depth - 1 /\ (d + 1) - 1 = d /\ d + 1 \in 0 .. c
    BY <1>1
  <2>2. t[d + 1] = Follow(idx, t[d], Digit[k][d]) /\ u[d + 1] = Follow(idx2, u[d], Digit[k][d])
    BY <1>2, <2>1
  <2>3. /\ <<t[d], Digit[k][d]>> \in idx.bits <=> <<t[d], Digit[k][d]>> \in idx2.bits
        /\ <<t[d], Digit[k][d]>> \in idx.bits =>
             EntryAt(idx2, <<t[d], Digit[k][d]>>) = EntryAt(idx, <<t[d], Digit[k][d]>>)
    BY DEF At
  <2>4. u[d] = t[d]
    BY <1>4
  <2> HIDE DEF t, u
  <2>5. u[d + 1] = t[d + 1]
    BY <2>2, <2>3, <2>4 DEF Follow
  <2> QED BY <2>1, <2>5
<1> HIDE DEF T
<1>5. \A d \in 0 .. c : d \in T
  BY <1>1, <1>3, <1>4, Upwards
<1> QED BY <1>5 DEF T

\* Index idx2 is idx with the bit of place q, whose entry is for record num.
BitAdded(idx, idx2, q, num) ==
  /\ IndexOK(idx) /\ IndexOK(idx2)
  /\ idx2.bits = idx.bits \cup {q} /\ q \notin idx.bits
  /\ \A p \in idx2.bits : EntryAt(idx2, p) = EntryAt(idx, p)
  /\ EntryAt(idx, q).leaf /\ EntryAt(idx, q).num = num

\* A new bit leads keys to its record and takes none from another record.
LEMMA BitAddedLeads ==
  ASSUME NEW idx, NEW idx2, NEW q, NEW num, BitAdded(idx, idx2, q, num), NEW k \in Key
  PROVE  /\ \A i : Leads(idx2, k, i) =>
                     Leads(idx, k, i) \/ (i = num /\ \E d \in 0 .. Depth - 1 : At(idx, k, d) = q)
         /\ \A i : Leads(idx, k, i) => Leads(idx2, k, i)
         /\ \A d \in 0 .. Depth - 1 : At(idx, k, d) = q => Leads(idx2, k, num)
<1>1. Depth \in Nat \ {0}
  BY ConstantsAssumption
<1> DEFINE t == Trail(idx, k)
           u == Trail(idx2, k)
           T == {d \in 0 .. Depth - 1 : u[d] = t[d]}
<1>2. /\ t[0] = Root /\ \A j \in 1 .. Depth - 1 : t[j] = Follow(idx, t[j - 1], Digit[k][j - 1])
      /\ u[0] = Root /\ \A j \in 1 .. Depth - 1 : u[j] = Follow(idx2, u[j - 1], Digit[k][j - 1])
  BY TrailSteps
<1>3. 0 \in T
  BY <1>1, <1>2
<1>4. ASSUME NEW d \in 0 .. Depth - 1 - 1, d \in T PROVE d + 1 \in T
  <2>1. d + 1 \in 1 .. Depth - 1 /\ (d + 1) - 1 = d /\ d + 1 \in 0 .. Depth - 1
    BY <1>1
  <2>2. t[d + 1] = Follow(idx, t[d], Digit[k][d]) /\ u[d + 1] = Follow(idx2, u[d], Digit[k][d])
    BY <1>2, <2>1
  <2> DEFINE p == <<t[d], Digit[k][d]>>
  <2>3. u[d] = t[d]
    BY <1>4
  <2> HIDE DEF t, u
  <2>4. u[d + 1] = Follow(idx2, t[d], Digit[k][d])
    BY <2>2, <2>3
  <2>5. CASE p = q
    <3>1. EntryAt(idx2, q).leaf
      BY DEF BitAdded
    <3> QED BY <2>1, <2>2, <2>4, <2>5, <3>1 DEF Follow, BitAdded
  <2>6. CASE p # q
    BY <2>1, <2>2, <2>4, <2>6 DEF Follow, BitAdded
  <2> QED BY <2>5, <2>6
<1>5. \A d \in 0 .. Depth - 1 : u[d] = t[d]
  <2> HIDE DEF T
  <2>1. \A d \in 0 .. Depth - 1 : d \in T
    BY <1>1, <1>3, <1>4, Upwards
  <2> QED BY <2>1 DEF T
<1>6. \A d \in 0 .. Depth - 1 : At(idx2, k, d) = At(idx, k, d)
  BY <1>5 DEF At
<1> HIDE DEF t, u
<1>7. ASSUME NEW i, Leads(idx2, k, i)
      PROVE  Leads(idx, k, i) \/ (i = num /\ \E d \in 0 .. Depth - 1 : At(idx, k, d) = q)
  BY <1>6, <1>7 DEF Leads, BitAdded
<1>8. ASSUME NEW i, Leads(idx, k, i) PROVE Leads(idx2, k, i)
  BY <1>6, <1>8 DEF Leads, BitAdded
<1>9. ASSUME NEW d \in 0 .. Depth - 1, At(idx, k, d) = q PROVE Leads(idx2, k, num)
  BY <1>6, <1>9 DEF Leads, BitAdded
<1> QED BY <1>7, <1>8, <1>9

\* Index idx2 is idx with the entry of place q, for record h, redirected to
\* the subtrie next.  From next on, entries are for records h and num or lead
\* further on.
Redirected(idx, idx2, q, next, h, num) ==
  /\ IndexOK(idx) /\ IndexOK(idx2)
  /\ idx2.bits = idx.bits /\ q \in idx.bits
  /\ \A p \in idx.bits \ {q} : EntryAt(idx2, p) = EntryAt(idx, p)
  /\ EntryAt(idx, q).leaf /\ EntryAt(idx, q).num = h
  /\ ~EntryAt(idx2, q).leaf /\ EntryAt(idx2, q).num = next
  /\ next \in Nat /\ q[1] < next
  /\ \A p \in idx.bits :
       p[1] >= next => /\ EntryAt(idx, p).leaf => EntryAt(idx, p).num \in {h, num}
                       /\ ~EntryAt(idx, p).leaf => EntryAt(idx, p).num >= next

\* A lookup that does not pass through the redirected place ends as before.
LEMMA RedirectedElsewhere ==
  ASSUME NEW idx, NEW idx2, NEW q, NEW next, NEW h, NEW num,
         Redirected(idx, idx2, q, next, h, num), NEW k \in Key,
         \A d \in 0 .. Depth - 1 : At(idx, k, d) # q
  PROVE  \A i : Leads(idx2, k, i) <=> Leads(idx, k, i)
<1>1. Depth - 1 \in 0 .. Depth - 1 /\ \A d \in 0 .. Depth - 1 - 1 : d \in 0 .. Depth - 1
  BY ConstantsAssumption
<1>2. \A d \in 0 .. Depth - 1 : Trail(idx2, k)[d] = Trail(idx, k)[d]
  BY <1>1, SameTrailDownTo DEF Redirected
<1>3. \A d \in 0 .. Depth - 1 : At(idx2, k, d) = At(idx, k, d)
  BY <1>2 DEF At
<1> QED BY <1>3 DEF Leads, Redirected

\* One that does ended there; now it goes on to the subtrie.
LEMMA RedirectedHere ==
  ASSUME NEW idx, NEW idx2, NEW q, NEW next, NEW h, NEW num,
         Redirected(idx, idx2, q, next, h, num), NEW k \in Key,
         NEW c \in 0 .. Depth - 1, At(idx, k, c) = q
  PROVE  /\ Leads(idx, k, h)
         /\ \A d \in 0 .. c : At(idx2, k, d) = At(idx, k, d)
         /\ c + 1 <= Depth - 1 => Trail(idx2, k)[c + 1] = next
         /\ \A i : Leads(idx2, k, i) => i \in {h, num}
<1>1. Depth \in Nat \ {0} /\ IndexOK(idx) /\ IndexOK(idx2)
  BY ConstantsAssumption DEF Redirected
<1>2. Leads(idx, k, h)
  BY DEF Leads, Redirected
<1>3. ASSUME NEW d \in 0 .. c - 1
      PROVE  /\ At(idx, k, d) \in idx.bits /\ At(idx, k, d) # q
             /\ ~EntryAt(idx, At(idx, k, d)).leaf
  <2>1. Trail(idx, k)[c] # Nowhere
    BY <1>1, VisitedBelow DEF Redirected
  <2> QED BY <1>1, <2>1, TrailAbove DEF Redirected
<1>4. \A d \in 0 .. c : Trail(idx2, k)[d] = Trail(idx, k)[d]
  BY <1>1, <1>3, SameTrailDownTo DEF Redirected
<1>5. \A d \in 0 .. c : At(idx2, k, d) = At(idx, k, d)
  BY <1>4 DEF At
<1> DEFINE u == Trail(idx2, k)
<1>6. \A j \in 1 .. Depth - 1 : u[j] = Follow(idx2, u[j - 1], Digit[k][j - 1])
  BY TrailSteps
<1>7. <<u[c], Digit[k][c]>> = q
  BY <1>4 DEF At
<1> HIDE DEF u
<1>8. ASSUME c + 1 <= Depth - 1 PROVE u[c + 1] = next
  <2>1. c + 1 \in 1 .. Depth - 1 /\ (c + 1) - 1 = c
    BY <1>1, <1>8
  <2>2. u[c + 1] = Follow(idx2, u[c], Digit[k][c])
    BY <1>6, <2>1
  <2> QED BY <1>7, <2>2 DEF Follow, Redirected
<1> DEFINE T == {d \in c + 1 .. Depth - 1 : u[d] = Nowhere \/ (u[d] \in NodeId /\ u[d] >= next)}
<1>9. ASSUME c + 1 <= Depth - 1 PROVE \A d \in c + 1 .. Depth - 1 : d \in T
  <2>1. c + 1 \in T
    BY <1>1, <1>8, <1>9 DEF Redirected, NodeId
  <2>2. ASSUME NEW d \in c + 1 .. Depth - 1 - 1, d \in T PROVE d + 1 \in T
    <3>1. d + 1 \in 1 .. Depth - 1 /\ (d + 1) - 1 = d /\ d + 1 \in c + 1 .. Depth - 1
      BY <1>1
    <3>2. u[d + 1] = Follow(idx2, u[d], Digit[k][d])
      BY <1>6, <3>1
    <3> DEFINE p == <<u[d], Digit[k][d]>>
    <3>3. CASE u[d + 1] = Nowhere
      BY <3>1, <3>3
    <3>4. CASE u[d + 1] # Nowhere
      <4>1. p \in idx2.bits /\ ~EntryAt(idx2, p).leaf /\ u[d + 1] = EntryAt(idx2, p).num
        BY <3>2, <3>4 DEF Follow
      <4>2. u[d] # Nowhere
        BY <1>1, <4>1, NowhereStays
      <4>3. p[1] >= next /\ p # q /\ p \in idx.bits
        BY <2>2, <4>1, <4>2 DEF Redirected, NodeId, Root
      <4>4. EntryAt(idx2, p) = EntryAt(idx, p)
        BY <4>3 DEF Redirected
      <4>5. EntryAt(idx, p).num >= next
        BY <4>1, <4>3, <4>4 DEF Redirected
      <4>6. EntryAt(idx2, p).num \in NodeId
        BY <1>1 DEF IndexOK, EntryAt, Entry, NodeId
      <4> QED BY <3>1, <4>1, <4>4, <4>5, <4>6
    <3> QED BY <3>3, <3>4
  <2>3. c + 1 \in Int /\ Depth - 1 \in Int
    BY <1>1
  <2> HIDE DEF T
  <2> QED BY <2>1, <2>2, <2>3, Upwards
<1>10. ASSUME NEW i, Leads(idx2, k, i) PROVE i \in {h, num}
  <2>1. PICK d \in 0 .. Depth - 1 :
          /\ At(idx2, k, d) \in idx2.bits
          /\ EntryAt(idx2, At(idx2, k, d)).leaf /\ EntryAt(idx2, At(idx2, k, d)).num = i
    BY <1>10 DEF Leads
  <2>2. ~ d < c
    <3>1. SUFFICES ASSUME d < c PROVE FALSE
      OBVIOUS
    <3>2. d \in 0 .. c - 1 /\ d \in 0 .. c
      BY <1>1, <3>1
    <3>3. At(idx2, k, d) = At(idx, k, d)
      BY <1>5, <3>2
    <3> QED BY <1>3, <2>1, <3>2, <3>3 DEF Redirected
  <2>3. d # c
    <3>1. SUFFICES ASSUME d = c PROVE FALSE
      OBVIOUS
    <3>2. At(idx2, k, d) = q
      BY <1>1, <1>5, <3>1
    <3> QED BY <2>1, <3>2 DEF Redirected
  <2>4. d \in c + 1 .. Depth - 1 /\ c + 1 <= Depth - 1
    BY <1>1, <2>2, <2>3
  <2>5. d \in T
    <3> HIDE DEF T
    <3> QED BY <1>9, <2>4
  <2>6. u[d] # Nowhere
    BY <1>1, <2>1, VisitedBelow DEF u
  <2> DEFINE p == <<u[d], Digit[k][d]>>
  <2>7. p = At(idx2, k, d)
    BY DEF At, u
  <2>8. p[1] >= next /\ p # q
    BY <2>5, <2>6 DEF Redirected, NodeId, Root
  <2> QED BY <2>1, <2>7, <2>8 DEF Redirected
<1> QED BY <1>2, <1>5, <1>8, <1>10 DEF u

\* The nodes from next on are a chain: the slot of key k at each of the levels
\* below c leads to the next node.
Chained(idx, k, c, next, chain) ==
  \A i \in 0 .. chain - 1 :
    LET p == <<next + i, Digit[k][c + 1 + i]>>
    IN p \in idx.bits /\ ~EntryAt(idx, p).leaf /\ EntryAt(idx, p).num = next + i + 1

\* A chain leads keys down to its last node.
LEMMA ChainFollowed ==
  ASSUME NEW idx, IndexOK(idx), NEW k \in Key, NEW c \in Nat, NEW next \in Nat,
         NEW chain \in Nat, c + 1 + chain <= Depth - 1,
         Trail(idx, k)[c + 1] = next, Chained(idx, k, c, next, chain)
  PROVE  Trail(idx, k)[c + 1 + chain] = next + chain
<1> DEFINE t == Trail(idx, k)
           T == {i \in 0 .. chain : t[c + 1 + i] = next + i}
<1>1. Depth \in Nat \ {0}
  BY ConstantsAssumption
<1>2. \A j \in 1 .. Depth - 1 : t[j] = Follow(idx, t[j - 1], Digit[k][j - 1])
  BY TrailSteps
<1>3. 0 \in T
  <2>1. 0 \in 0 .. chain /\ c + 1 + 0 = c + 1 /\ next + 0 = next
    OBVIOUS
  <2> QED BY <2>1
<1> HIDE DEF t
<1>4. ASSUME NEW i \in 0 .. chain - 1, i \in T PROVE i + 1 \in T
  <2>1. /\ c + 1 + (i + 1) \in 1 .. Depth - 1 /\ (c + 1 + (i + 1)) - 1 = c + 1 + i
        /\ i + 1 \in 0 .. chain /\ next + i + 1 = next + (i + 1)
    BY <1>1
  <2>2. t[c + 1 + (i + 1)] = Follow(idx, t[c + 1 + i], Digit[k][c + 1 + i])
    BY <1>2, <2>1
  <2>3. t[c + 1 + i] = next + i
    BY <1>4
  <2>4. t[c + 1 + (i + 1)] = next + i + 1
    BY <2>2, <2>3 DEF Follow, Chained
  <2> QED BY <2>1, <2>4
<1>5. \A i \in 0 .. chain : i \in T
  <2> HIDE DEF T
  <2> QED BY <1>3, <1>4, Upwards
<1> QED BY <1>5 DEF t

-----------------------------------------------------------------------------
(***************************************************************************)
(* The map that an index and a data file mean.                             *)
(***************************************************************************)
LEMMA MapOfIs ==
  ASSUME NEW idx, NEW dat, IndexOK(idx)
  PROVE  /\ MapOf(idx, dat) = [k \in DOMAIN MapOf(idx, dat) |-> MapOf(idx, dat)[k]]
         /\ \A k : k \in DOMAIN MapOf(idx, dat) <=> k \in Key /\ \E i : i \in Found(idx, dat, k)
         /\ \A k \in Key : \A i \in Found(idx, dat, k) : MapOf(idx, dat)[k] = dat[i + 1].value
<1> DEFINE found == [k \in Key |-> Found(idx, dat, k)]
           mapped == {k \in Key : found[k] # {}}
<1>1. MapOf(idx, dat) = [k \in mapped |-> dat[(CHOOSE i \in found[k] : TRUE) + 1].value]
  BY DEF MapOf
<1>2. \A k \in Key : found[k] = Found(idx, dat, k)
  OBVIOUS
<1> HIDE DEF found
<1>3. ASSUME NEW k \in Key, NEW i \in Found(idx, dat, k)
      PROVE  MapOf(idx, dat)[k] = dat[i + 1].value
  <2>1. (CHOOSE j \in found[k] : TRUE) \in found[k] /\ k \in mapped
    BY <1>2, <1>3
  <2>2. \A j \in Found(idx, dat, k) : j = i
    BY <1>3, FoundIff, LeadsOnce
  <2>3. (CHOOSE j \in found[k] : TRUE) = i
    BY <1>2, <2>1, <2>2
  <2> QED BY <1>1, <2>1, <2>3
<1>4. DOMAIN MapOf(idx, dat) = mapped
  BY <1>1
<1>5. \A k : k \in mapped <=> k \in Key /\ \E i : i \in Found(idx, dat, k)
  BY <1>2
<1>6. MapOf(idx, dat) = [k \in DOMAIN MapOf(idx, dat) |-> MapOf(idx, dat)[k]]
  BY <1>1
<1> QED BY <1>3, <1>4, <1>5, <1>6

\* Two pairs of files mean the same map if lookups find the same records.
LEMMA SameMap ==
  ASSUME NEW idx, NEW dat, NEW idx2, NEW dat2, IndexOK(idx), IndexOK(idx2),
         \A k \in Key : \A i : i \in Found(idx2, dat2, k) <=> i \in Found(idx, dat, k),
         \A k \in Key : \A i \in Found(idx, dat, k) : dat2[i + 1].value = dat[i + 1].value
  PROVE  MapOf(idx2, dat2) = MapOf(idx, dat)
<1> DEFINE m == MapOf(idx, dat)
           m2 == MapOf(idx2, dat2)
<1>1. /\ m = [k \in DOMAIN m |-> m[k]]
      /\ \A k : k \in DOMAIN m <=> k \in Key /\ \E i : i \in Found(idx, dat, k)
      /\ \A k \in Key : \A i \in Found(idx, dat, k) : m[k] = dat[i + 1].value
  BY MapOfIs
<1>2. /\ m2 = [k \in DOMAIN m2 |-> m2[k]]
      /\ \A k : k \in DOMAIN m2 <=> k \in Key /\ \E i : i \in Found(idx2, dat2, k)
      /\ \A k \in Key : \A i \in Found(idx2, dat2, k) : m2[k] = dat2[i + 1].value
  BY MapOfIs
<1> HIDE DEF m, m2
<1>3. DOMAIN m2 = DOMAIN m
  BY <1>1, <1>2
<1>4. ASSUME NEW k \in DOMAIN m PROVE m2[k] = m[k]
  <2>1. PICK i \in Found(idx, dat, k) : k \in Key
    BY <1>1
  <2>2. i \in Found(idx2, dat2, k) /\ dat2[i + 1].value = dat[i + 1].value
    BY <2>1
  <2> QED BY <1>1, <1>2, <2>1, <2>2
<1>5. m2 = m
  BY <1>1, <1>2, <1>3, <1>4
<1> QED BY <1>5 DEF m, m2

\* One more record found: one more mapping.
LEMMA ExtendedMap ==
  ASSUME NEW idx, NEW dat, NEW idx2, IndexOK(idx), IndexOK(idx2),
         NEW k \in Key, NEW num, NEW v,
         \A x \in Key \ {k} : \A i : i \in Found(idx2, dat, x) <=> i \in Found(idx, dat, x),
         \A i : i \notin Found(idx, dat, k),
         num \in Found(idx2, dat, k), dat[num + 1].value = v
  PROVE  /\ k \notin DOMAIN MapOf(idx, dat)
         /\ MapOf(idx2, dat) = [x \in DOMAIN MapOf(idx, dat) \cup {k} |->
                                  IF x = k THEN v ELSE MapOf(idx, dat)[x]]
<1> DEFINE m == MapOf(idx, dat)
           m2 == MapOf(idx2, dat)
<1>1. /\ m = [x \in DOMAIN m |-> m[x]]
      /\ \A x : x \in DOMAIN m <=> x \in Key /\ \E i : i \in Found(idx, dat, x)
      /\ \A x \in Key : \A i \in Found(idx, dat, x) : m[x] = dat[i + 1].value
  BY MapOfIs
<1>2. /\ m2 = [x \in DOMAIN m2 |-> m2[x]]
      /\ \A x : x \in DOMAIN m2 <=> x \in Key /\ \E i : i \in Found(idx2, dat, x)
      /\ \A x \in Key : \A i \in Found(idx2, dat, x) : m2[x] = dat[i + 1].value
  BY MapOfIs
<1> HIDE DEF m, m2
<1>3. k \notin DOMAIN m
  BY <1>1
<1>4. DOMAIN m2 = DOMAIN m \cup {k}
  BY <1>1, <1>2
<1>5. m2[k] = v /\ \A x \in DOMAIN m : m2[x] = m[x]
  BY <1>1, <1>2, <1>3
<1>6. m2 = [x \in DOMAIN m \cup {k} |-> IF x = k THEN v ELSE m[x]]
  BY <1>2, <1>3, <1>4, <1>5
<1> QED BY <1>3, <1>6 DEF m, m2

\* Every mapping of the one pair of files is one of the other.
LEMMA WithinMap ==
  ASSUME NEW idx, NEW dat, NEW idx2, NEW dat2, IndexOK(idx), IndexOK(idx2),
         \A k \in Key : \A i \in Found(idx, dat, k) : i \in Found(idx2, dat2, k),
         \A k \in Key : \A i \in Found(idx, dat, k) : dat2[i + 1].value = dat[i + 1].value
  PROVE  Within(MapOf(idx, dat), MapOf(idx2, dat2))
<1> DEFINE m == MapOf(idx, dat)
           m2 == MapOf(idx2, dat2)
<1>1. /\ \A k : k \in DOMAIN m <=> k \in Key /\ \E i : i \in Found(idx, dat, k)
      /\ \A k \in Key : \A i \in Found(idx, dat, k) : m[k] = dat[i + 1].value
  BY MapOfIs
<1>2. /\ \A k : k \in DOMAIN m2 <=> k \in Key /\ \E i : i \in Found(idx2, dat2, k)
      /\ \A k \in Key : \A i \in Found(idx2, dat2, k) : m2[k] = dat2[i + 1].value
  BY MapOfIs
<1> HIDE DEF m, m2
<1>3. ASSUME NEW k \in DOMAIN m PROVE k \in DOMAIN m2 /\ m2[k] = m[k]
  <2>1. PICK i \in Found(idx, dat, k) : k \in Key
    BY <1>1
  <2>2. i \in Found(idx2, dat2, k) /\ dat2[i + 1].value = dat[i + 1].value
    BY <2>1
  <2> QED BY <1>1, <1>2, <2>1, <2>2
<1> QED BY <1>3 DEF Within, m, m2

-----------------------------------------------------------------------------
(***************************************************************************)
(* What the steps that leave the trie alone do to the map.                 *)
(***************************************************************************)
LEMMA PrefixProperties ==
  /\ \A s \in Seq(Record) : IsPrefixOf(s, s)
  /\ \A s, t \in Seq(Record) : \A r \in Record : IsPrefixOf(s, t) => IsPrefixOf(s, Append(t, r))
BY DEF IsPrefixOf

\* Opening, closing, saving, resetting, failing and being killed write no update.
LEMMA QuietMap ==
  ASSUME IInv, MInv, \/ Open \/ CloseData \/ CloseIndex \/ Save \/ Reset
                     \/ Fail \/ Kill \/ UNCHANGED vars
  PROVE  MInv'
<1>1. CASE UNCHANGED vars
  <2>1. UNCHANGED <<data, index, diskData, diskIndex, mode, op, stack, top, half>>
    BY SMTT(30), <1>1 DEF vars
  <2>2. Underway'
    BY ZenonT(60), <2>1 DEF MInv, Underway, NewEntryUnderway, CollisionUnderway, CollisionItems
  <2>3. OnTrail' /\ FilesInv'
    BY <2>1 DEF MInv, OnTrail, FilesInv, Looking
  <2> QED BY <2>2, <2>3 DEF MInv
<1>2. CASE Open \/ CloseData \/ CloseIndex \/ Save \/ Reset \/ Fail \/ Kill
  <2>1. op' = NoOp /\ top' = 0
    BY <1>2 DEF IInv, ModesOK, Open, CloseData, CloseIndex, Save, Reset, Fail, Kill, update
  <2>2. Underway' /\ OnTrail' /\ ~Looking'
    BY <2>1 DEF Underway, OnTrail, Looking
  <2>3. /\ UNCHANGED <<data, index, diskIndex>> \/ mode' \notin {"open", "closing"}
        /\ mode' \in {"open", "closing"} =>
             /\ diskData' = diskData \/ diskData' = data
             /\ mode \in {"open", "closing"} \/ (diskData = data /\ diskIndex = index)
    BY <1>2 DEF IInv, ModesOK, Open, CloseData, CloseIndex, Save, Reset, Fail, Kill, streams,
                files, FlushData
  <2>4. data \in Seq(Record)
    BY DEF IInv, TypeOK
  <2>5. FilesInv'
    BY <2>2, <2>3, <2>4, PrefixProperties DEF MInv, FilesInv
  <2> QED BY <2>2, <2>5 DEF MInv
<1> QED BY <1>1, <1>2

\* A new operation starts at the root, where every trail does.
LEMMA BeginMap ==
  ASSUME IInv, MInv, NEW kind, NEW k, NEW v, Begin(kind, k, v)
  PROVE  MInv'
<1>1. /\ op' = [kind |-> kind, key |-> k, value |-> v, node |-> Root, depth |-> 0]
      /\ op = NoOp /\ mode = "open" /\ diskIndex' = index
      /\ UNCHANGED <<data, index, diskData, mode, stack, top, half>>
  BY DEF Begin, FlushIndex, streams, update
<1>2. top' = 0
  BY <1>1 DEF IInv, ModesOK
<1>3. OnTrail'
  BY <1>1, TrailSteps DEF OnTrail
<1>4. FilesInv'
  BY <1>1 DEF MInv, FilesInv
<1> QED BY <1>2, <1>3, <1>4 DEF MInv, Underway

\* An answer ends the operation.
LEMMA AnswerMap ==
  ASSUME IInv, MInv, FoundMapped \/ LookupAbsent
  PROVE  MInv'
<1>1. /\ op' = NoOp /\ top' = 0
      /\ mode = "open" /\ UNCHANGED <<data, index, diskIndex>>
      /\ diskData' = diskData \/ diskData' = data
  BY DEF FoundMapped, LookupAbsent, AnswerAndGoOn, Answer, Looking, streams, update, FlushData
<1>2. data \in Seq(Record)
  BY DEF IInv, TypeOK
<1>3. FilesInv'
  BY <1>1, <1>2, PrefixProperties DEF MInv, FilesInv, Looking
<1> QED BY <1>1, <1>3 DEF MInv, Underway, OnTrail

\* A lookup that goes down a level stays on the trail of its key.
LEMMA DescendMap ==
  ASSUME IInv, MInv, Descend
  PROVE  MInv'
<1>1. /\ op # NoOp /\ top = 0 /\ mode = "open"
      /\ Place \in index.bits /\ ~EntryAt(index, Place).leaf
      /\ op' = [op EXCEPT !.node = HitNum, !.depth = @ + 1] /\ op.depth + 1 < Depth
      /\ UNCHANGED <<data, index, diskData, diskIndex, mode, top>>
  BY DEF Descend, Looking, BitSet, Hit, streams, files, update
<1>2. /\ op'.node = HitNum /\ op'.depth = op.depth + 1 /\ op'.key = op.key
      /\ op.depth \in 0 .. Depth - 1
  BY <1>1 DEF IInv, TypeOK
<1>3. Trail(index, op.key)[op.depth] = op.node
  BY <1>1 DEF MInv, OnTrail
<1>4. op.depth + 1 \in 1 .. Depth - 1 /\ (op.depth + 1) - 1 = op.depth
  BY <1>1, <1>2, ConstantsAssumption
<1>5. Trail(index, op.key)[op.depth + 1] = Follow(index, op.node, Digit[op.key][op.depth])
  BY <1>3, <1>4, TrailSteps
<1>6. Trail(index, op.key)[op.depth + 1] = HitNum
  BY <1>1, <1>5 DEF Follow, Place, HitNum
<1>7. OnTrail'
  BY <1>1, <1>2, <1>6 DEF OnTrail
<1>8. FilesInv'
  BY <1>1 DEF MInv, FilesInv, Looking
<1> QED BY <1>1, <1>7, <1>8 DEF MInv, Underway

-----------------------------------------------------------------------------
(***************************************************************************)
(* What an insertion does to the map.                                      *)
(***************************************************************************)
\* What a lookup in a sound index ends at is a record of the data.
LEMMA LeadsSound ==
  ASSUME NEW idx, NEW dat, IndexOK(idx), Sound(idx, dat), NEW k \in Key, NEW i, Leads(idx, k, i)
  PROVE  i \in Nat /\ i < Len(dat)
<1>1. PICK d \in 0 .. Depth - 1 :
        /\ At(idx, k, d) \in idx.bits
        /\ EntryAt(idx, At(idx, k, d)).leaf /\ EntryAt(idx, At(idx, k, d)).num = i
  BY DEF Leads
<1> DEFINE p == At(idx, k, d)
<1> HIDE DEF p
<1>2. p \in idx.bits /\ EntryAt(idx, p).leaf /\ EntryAt(idx, p).num = i
  BY <1>1 DEF p
<1>3. p \in DOMAIN idx.entry /\ EntryAt(idx, p) = idx.entry[p]
  BY <1>2 DEF Sound, EntryAt
<1>4. idx.entry[p].num < Len(dat)
  BY <1>2, <1>3 DEF Sound, Settled, EntrySound
<1>5. idx.entry[p].num \in Nat
  BY <1>3 DEF IndexOK, Entry
<1> QED BY <1>2, <1>3, <1>4, <1>5

\* Owners are not looked at.
LEMMA SameIndexTrail ==
  ASSUME NEW idx, NEW idx2, IndexOK(idx), IndexOK(idx2),
         idx2.bits = idx.bits, \A p \in idx.bits : EntryAt(idx2, p) = EntryAt(idx, p),
         NEW k \in Key
  PROVE  /\ \A d \in 0 .. Depth - 1 : Trail(idx2, k)[d] = Trail(idx, k)[d]
         /\ \A i : Leads(idx2, k, i) <=> Leads(idx, k, i)
<1>1. \A p : EntryAt(idx, p).num \in NodeId
  BY DEF IndexOK, EntryAt, Entry, NodeId
<1>2. AgreeOn(NodeId, idx, idx2)
  BY <1>1 DEF AgreeOn, NodeId
<1> QED BY <1>2, SameTrail

\* A record that no entry names is not found.
LEMMA AppendedFound ==
  ASSUME NEW idx, NEW dat \in Seq(Record), NEW r \in Record, IndexOK(idx), Sound(idx, dat),
         NEW k \in Key, NEW i
  PROVE  i \in Found(idx, Append(dat, r), k) <=> i \in Found(idx, dat, k)
<1>1. ASSUME Leads(idx, k, i)
      PROVE  i < Len(dat) /\ i < Len(Append(dat, r)) /\ Append(dat, r)[i + 1] = dat[i + 1]
  <2>1. i \in Nat /\ i < Len(dat)
    BY <1>1, LeadsSound
  <2>2. Len(dat) \in Nat /\ Len(Append(dat, r)) = Len(dat) + 1
    OBVIOUS
  <2>3. i + 1 \in 1 .. Len(dat)
    BY <2>1, <2>2
  <2> QED BY <2>1, <2>2, <2>3
<1>2. i \in Found(idx, dat, k) <=> Leads(idx, k, i) /\ i < Len(dat) /\ dat[i + 1].key = k
  BY FoundIff
<1> DEFINE dat2 == Append(dat, r)
<1>3. Leads(idx, k, i) => i < Len(dat) /\ i < Len(dat2) /\ dat2[i + 1] = dat[i + 1]
  BY <1>1
<1> HIDE DEF dat2
<1>4. i \in Found(idx, dat2, k) <=> Leads(idx, k, i) /\ i < Len(dat2) /\ dat2[i + 1].key = k
  BY FoundIff
<1>5. i \in Found(idx, dat2, k) <=> i \in Found(idx, dat, k)
  BY <1>2, <1>3, <1>4
<1> QED BY <1>5 DEF dat2

\* Beginning an insertion changes what no lookup finds.
LEMMA AppendRecordMap ==
  ASSUME IInv, IInv', MInv, Looking, op.kind # "lookup",
         data' = Append(data, [key |-> op.key, value |-> op.value]), diskData' = data,
         index'.entry = index.entry, index'.bits = index.bits,
         UNCHANGED <<diskIndex, mode, op>>, top' > 0
  PROVE  /\ \A k \in Key : \A i : i \in Found(index', data', k) <=> i \in Found(index, data, k)
         /\ OnTrail' /\ FilesInv'
<1>1. /\ op.key \in Key /\ op.depth \in 0 .. Depth - 1 /\ op # NoOp
      /\ [key |-> op.key, value |-> op.value] \in Record
      /\ IndexOK(index) /\ Sound(index, data) /\ data \in Seq(Record)
  BY InsertContext
<1>2. IndexOK(index')
  BY DEF IInv, TypeOK
<1>3. \A p : EntryAt(index', p) = EntryAt(index, p)
  BY DEF EntryAt
<1>4. ASSUME NEW k \in Key
      PROVE  /\ \A d \in 0 .. Depth - 1 : Trail(index', k)[d] = Trail(index, k)[d]
             /\ \A i : Leads(index', k, i) <=> Leads(index, k, i)
  BY <1>1, <1>2, <1>3, SameIndexTrail
<1>5. ASSUME NEW k \in Key, NEW i
      PROVE  i \in Found(index', data', k) <=> i \in Found(index, data, k)
  <2>1. i \in Found(index', data', k) <=> i \in Found(index, data', k)
    BY <1>4, FoundIff
  <2>2. i \in Found(index, data', k) <=> i \in Found(index, data, k)
    BY <1>1, AppendedFound
  <2> QED BY <2>1, <2>2
<1>6. OnTrail'
  BY <1>1, <1>4 DEF MInv, OnTrail
<1>7. diskIndex = index /\ mode = "open"
  BY DEF MInv, FilesInv, Looking
<1>8. ASSUME NEW k \in Key PROVE Found(diskIndex', data', k) \subseteq Found(index', data', k)
  <2>1. ASSUME NEW i \in Found(diskIndex', data', k) PROVE i \in Found(index', data', k)
    <3>1. i \in Found(index, data', k)
      BY <1>7, <2>1
    <3> QED BY <1>4, <3>1, FoundIff
  <2> QED BY <2>1
<1>9. IsPrefixOf(diskData', data')
  BY <1>1, PrefixProperties
<1>10. ~Looking'
  BY DEF Looking
<1> QED BY <1>5, <1>6, <1>8, <1>9, <1>10 DEF FilesInv

\* insert_new_entry is prepared: the record is there, nothing leads to it.
LEMMA InsertNewMap ==
  ASSUME IInv, IInv', MInv, InsertNew
  PROVE  MInv' /\ \A k \in Key : \A i : i \in Found(index', data', k) <=> i \in Found(index, data, k)
<1> DEFINE r == [key |-> op.key, value |-> op.value]
           u == NewEntry[1]
<1>1. /\ Looking /\ op.kind # "lookup" /\ Place \notin index.bits
      /\ data' = Append(data, r) /\ diskData' = data
      /\ stack' = NewEntry /\ top' = 1 /\ half' = FALSE
      /\ UNCHANGED <<index, diskIndex, saved, mode, op, reply>>
  BY DEF InsertNew, AppendRecord, FlushData, BitSet, Looking
<1>2. r \in Record /\ data \in Seq(Record)
  BY <1>1, InsertContext
<1>3. /\ u.node = op.node /\ u.slot = Digit[op.key][op.depth] /\ u.leaf = TRUE
      /\ u.num = Len(data) /\ u.skip = FALSE /\ NewEntry = <<u>>
      /\ u.slots = {s \in Slot : \/ s = Digit[op.key][op.depth]
                                 \/ /\ SameByte(s, Digit[op.key][op.depth])
                                    /\ <<op.node, s>> \in index.bits}
  BY DEF NewEntry
<1>4. Len(data') > 0 /\ data'[Len(data')] = r /\ Len(data') - 1 = Len(data)
  BY <1>1, <1>2
<1> HIDE DEF u
<1>5. Len(stack') = 1 /\ stack'[1] = u
  BY <1>1, <1>3
<1>6. NewEntryUnderway'
  BY <1>1, <1>3, <1>5 DEF NewEntryUnderway, PlaceOf, Place
<1>7. Underway'
  BY <1>1, <1>3, <1>4, <1>5, <1>6 DEF Underway
<1>8. /\ \A k \in Key : \A i : i \in Found(index', data', k) <=> i \in Found(index, data, k)
      /\ OnTrail' /\ FilesInv'
  BY <1>1, AppendRecordMap
<1> QED BY <1>7, <1>8 DEF MInv

\* The items of update_after_collision, field by field.
LEMMA CollisionItemsMade ==
  ASSUME IInv, Looking, op.kind # "lookup", Hit, Readable, HitKey # op.key,
         KeysShareThePath(HitKey), InsertCollision
  PROVE  /\ CollisionItems(op, Collision(HitKey), HitKey, index.end, HitNum)
         /\ stack' = Collision(HitKey) /\ op' = op
         /\ Len(stack') \in Nat /\ stack'[1].num = index.end
         /\ stack'[Len(stack') - 1].num = HitNum
         /\ stack'[Len(stack')].num = Len(data)
         /\ PlaceOf(stack'[1]) = Place
         /\ HitKey \in Key /\ HitNum \in Nat /\ HitNum < Len(data)
         /\ data[HitNum + 1].key = HitKey
         /\ top' = Len(stack')
<1> DEFINE m == Mismatch(op.key, HitKey)
           chain == m - op.depth - 1
           st == Collision(HitKey)
           n == Digit[op.key][m]
           f == Digit[HitKey][m]
<1>1. /\ HitKey \in Key /\ HitNum \in Nat /\ HitNum < Len(data)
      /\ data[HitNum + 1].key = HitKey
      /\ m \in 0 .. Depth - 1 /\ chain \in Nat /\ op.depth \in Nat
      /\ Apart(op.depth, m, chain)
      /\ \A j \in 0 .. m - 1 : Digit[op.key][j] = Digit[HitKey][j]
  BY CollisionShaped
<1>2. n # f
  BY <1>1, InsertContext, MismatchProperties
<1>3. st = [i \in 1 .. chain + 3 |-> st[i]]
  BY DEF Collision
<1>4. st[1] = [node |-> op.node, slot |-> Digit[op.key][op.depth], leaf |-> FALSE,
               num |-> index.end, skip |-> TRUE, slots |-> {}]
  BY <1>1 DEF Collision
<1>5. ASSUME NEW i \in 2 .. chain + 1
      PROVE  /\ st[i].node = index.end + i - 2 /\ st[i].slot = Digit[op.key][op.depth + i - 1]
             /\ ~st[i].leaf /\ st[i].num = index.end + i - 1
             /\ ~st[i].skip /\ st[i].slots = {Digit[op.key][op.depth + i - 1]}
  <2>1. st[i] = [node |-> index.end + i - 2, slot |-> Digit[op.key][op.depth + i - 1],
                 leaf |-> FALSE, num |-> index.end + i - 1, skip |-> FALSE,
                 slots |-> {Digit[op.key][op.depth + i - 1]}]
    BY <1>1 DEF Collision
  <2> HIDE DEF st
  <2> QED BY <2>1
<1>6. st[chain + 2] = [node |-> index.end + chain, slot |-> f, leaf |-> TRUE, num |-> HitNum,
                       skip |-> FALSE, slots |-> IF SameByte(n, f) THEN {n, f} ELSE {f}]
  BY SMTT(30), <1>1 DEF Collision
<1>7. st[chain + 3] = [node |-> index.end + chain, slot |-> n, leaf |-> TRUE, num |-> Len(data),
                       skip |-> SameByte(n, f), slots |-> {n}]
  <2>1. /\ chain + 3 \in 1 .. chain + 3 /\ chain + 3 # 1
        /\ ~(chain + 3 <= chain + 1) /\ chain + 3 # chain + 2
    BY <1>1
  <2> QED BY <2>1 DEF Collision
<1>8. stack' = st /\ top' = Len(stack') /\ op' = op
  BY DEF InsertCollision
<1>9. index.end \in Nat
  BY DEF IInv, TypeOK, IndexOK
<1>10. /\ m \in Nat /\ m <= Depth - 1 /\ Depth \in Nat /\ op.key \in Key
       /\ op.depth \in Nat /\ chain \in Nat /\ m = op.depth + chain + 1
  BY <1>1, InsertContext, ConstantsAssumption DEF Apart
<1>10a. SameByte(n, f) \in BOOLEAN
  BY SameByteBoolean
<1> HIDE DEF chain, st, n, f
<1>11. Len(st) = chain + 3
  BY <1>1, <1>3
<1>12. /\ op.depth + Len(st) - 2 = m /\ Len(st) - 1 = chain + 2 /\ Len(st) - 2 = chain + 1
       /\ index.end + Len(st) - 3 = index.end + chain /\ Len(st) >= 3 /\ Len(st) \in Nat
  BY <1>9, <1>10, <1>11
<1> HIDE DEF m
<1>13. ASSUME NEW i \in 1 .. chain + 1
       PROVE  /\ st[i].node = (IF i = 1 THEN op.node ELSE index.end + i - 2)
              /\ st[i].slot = Digit[op.key][op.depth + i - 1]
              /\ ~st[i].leaf /\ st[i].num = index.end + i - 1
              /\ IF i = 1 THEN st[i].skip ELSE ~st[i].skip /\ st[i].slots = {st[i].slot}
  <2>1. CASE i = 1
    <3>1. index.end + i - 1 = index.end /\ op.depth + i - 1 = op.depth
      BY <1>9, <1>10, <2>1
    <3>2. /\ st[1].node = op.node /\ st[1].slot = Digit[op.key][op.depth] /\ ~st[1].leaf
          /\ st[1].num = index.end /\ st[1].skip
      BY <1>4
    <3> QED BY <2>1, <3>1, <3>2
  <2>2. CASE i # 1
    <3>1. i \in 2 .. chain + 1
      BY <1>10, <2>2
    <3> QED BY <1>5, <2>2, <3>1
  <2> QED BY <2>1, <2>2
<1>14. /\ st[chain + 2].node = index.end + chain /\ st[chain + 2].slot = f
       /\ st[chain + 2].leaf /\ st[chain + 2].num = HitNum /\ ~st[chain + 2].skip
       /\ st[chain + 2].slots = IF SameByte(n, f) THEN {n, f} ELSE {f}
  BY <1>6
<1>15. /\ st[chain + 3].node = index.end + chain /\ st[chain + 3].slot = n
       /\ st[chain + 3].leaf /\ (st[chain + 3].skip <=> SameByte(n, f))
       /\ st[chain + 3].slots = {n} /\ st[chain + 3].num = Len(data)
  BY <1>7, <1>10a
<1>16. \A j \in 0 .. m - 1 : Digit[HitKey][j] = Digit[op.key][j]
  BY <1>1
<1>17. n = Digit[op.key][m] /\ f = Digit[HitKey][m]
  BY DEF n, f
<1> DEFINE e == HitKey
           next == index.end
           h == HitNum
<1>18. e = HitKey /\ next = index.end /\ h = HitNum
  OBVIOUS
<1> HIDE DEF e, next, h
<1> DEFINE L == Len(st)
<1>19. CollisionItems(op, st, e, next, h)
  <2>1. /\ L - 2 = chain + 1 /\ L - 1 = chain + 2 /\ L = chain + 3 /\ op.depth + L - 2 = m
        /\ next + L - 3 = next + chain /\ L \in Nat /\ L >= 3
    BY <1>12, <1>11, <1>18
  <2>2. /\ e \in Key /\ e # op.key /\ m <= Depth - 1 /\ n # f
        /\ \A j \in 0 .. m - 1 : Digit[e][j] = Digit[op.key][j]
    BY <1>1, <1>2, <1>10, <1>16, <1>18
  <2>3. n = Digit[op.key][m] /\ f = Digit[e][m]
    BY <1>17, <1>18
  <2> HIDE DEF L
  <2>4. \A i \in 1 .. L - 2 :
          /\ st[i].node = (IF i = 1 THEN op.node ELSE next + i - 2)
          /\ st[i].slot = Digit[op.key][op.depth + i - 1]
          /\ ~st[i].leaf /\ st[i].num = next + i - 1
          /\ IF i = 1 THEN st[i].skip ELSE ~st[i].skip /\ st[i].slots = {st[i].slot}
    BY <1>13, <1>18, <2>1
  <2>5. /\ st[L - 1].node = next + L - 3 /\ st[L - 1].slot = f
        /\ st[L - 1].leaf /\ st[L - 1].num = h /\ ~st[L - 1].skip
        /\ st[L - 1].slots = IF SameByte(n, f) THEN {n, f} ELSE {f}
    BY <1>14, <1>18, <2>1
  <2>6. /\ st[L].node = next + L - 3 /\ st[L].slot = n
        /\ st[L].leaf /\ (st[L].skip <=> SameByte(n, f)) /\ st[L].slots = {n}
    BY <1>15, <1>18, <2>1
  <2>7. L = Len(st)
    BY DEF L
  <2>8. Digit[op.key][op.depth + L - 2] = n /\ Digit[e][op.depth + L - 2] = f
    BY <2>1, <2>3
  <2> QED BY <2>1, <2>2, <2>4, <2>5, <2>6, <2>7, <2>8 DEF CollisionItems
<1> QED BY <1>1, <1>4, <1>8, <1>11, <1>12, <1>14, <1>15, <1>18, <1>19 DEF PlaceOf, Place, st

\* update_after_collision is prepared.
LEMMA InsertCollisionMap ==
  ASSUME IInv, IInv', MInv, InsertCollision
  PROVE  MInv' /\ \A k \in Key : \A i : i \in Found(index', data', k) <=> i \in Found(index, data, k)
<1> DEFINE r == [key |-> op.key, value |-> op.value]
<1>1. /\ Looking /\ op.kind # "lookup" /\ Hit /\ Readable /\ HitKey # op.key
      /\ KeysShareThePath(HitKey)
      /\ data' = Append(data, r) /\ diskData' = data
      /\ stack' = Collision(HitKey) /\ top' = Len(stack') /\ half' = FALSE
      /\ index' = [index EXCEPT !.owner = CollisionOwners(HitKey)]
      /\ UNCHANGED <<diskIndex, saved, mode, op, reply>>
  BY DEF InsertCollision, AppendRecord, FlushData
<1>2. r \in Record /\ data \in Seq(Record) /\ IndexOK(index) /\ Sound(index, data)
      /\ op.node < index.end /\ index.end \in Nat
  BY <1>1, InsertContext DEF IndexOK
<1>3. /\ index'.entry = index.entry /\ index'.bits = index.bits
  BY <1>1, <1>2 DEF IndexOK
<1>4. /\ CollisionItems(op, Collision(HitKey), HitKey, index.end, HitNum)
      /\ Len(stack') \in Nat /\ stack'[1].num = index.end
      /\ stack'[Len(stack') - 1].num = HitNum
      /\ stack'[Len(stack')].num = Len(data)
      /\ PlaceOf(stack'[1]) = Place
      /\ HitKey \in Key /\ HitNum \in Nat /\ HitNum < Len(data)
      /\ data[HitNum + 1].key = HitKey
  BY <1>1, CollisionItemsMade
<1>5. /\ Len(data') > 0 /\ data'[Len(data')] = r /\ Len(data') - 1 = Len(data)
      /\ data'[HitNum + 1] = data[HitNum + 1] /\ HitNum < Len(data')
  <2>1. Len(data) \in Nat /\ HitNum + 1 \in 1 .. Len(data)
    BY <1>2, <1>4
  <2> HIDE DEF r
  <2> QED BY <1>1, <1>2, <1>4, <2>1
<1>6. /\ Place \in index.bits /\ index.entry[Place].leaf /\ index.entry[Place].num = HitNum
      /\ Place \in DOMAIN index.entry
  BY <1>1, <1>2 DEF Hit, BitSet, HitNum, EntryAt, Sound
<1>7. ASSUME NEW p \in index.bits
      PROVE  ~(p[1] >= index.end) /\ (~index.entry[p].leaf => index.entry[p].num < index.end)
  <2>1. p[1] < index.end /\ (~index.entry[p].leaf => index.entry[p].num < index.end)
    BY <1>2 DEF Sound, Settled
  <2>2. p[1] \in NodeId
    BY <1>2 DEF IndexOK
  <2> QED BY <1>2, <2>1, <2>2 DEF NodeId, Root
<1>8. Len(stack') >= 1 /\ top' > 0 /\ top' + 1 > Len(stack')
  <2>1. Len(stack') >= 3
    BY <1>1, <1>4 DEF CollisionItems
  <2> QED BY <1>1, <1>4, <2>1
<1>9. CollisionUnderway'
  <2> DEFINE next == index.end
             h == HitNum
             e == HitKey
  <2>1. next = index.end /\ h = HitNum /\ e = HitKey
    OBVIOUS
  <2> HIDE DEF next, h, e
  <2>2. CollisionItems(op', stack', data'[h + 1].key, next, h)
    BY <1>1, <1>4, <1>5, <2>1
  <2>3. stack'[1].num = next /\ stack'[Len(stack') - 1].num = h
    BY <1>4, <2>1
  <2>4. op'.node < next /\ h < Len(data')
    BY <1>1, <1>2, <1>5, <2>1
  <2>5. /\ PlaceOf(stack'[1]) \in index'.bits
        /\ index'.entry[PlaceOf(stack'[1])].leaf /\ index'.entry[PlaceOf(stack'[1])].num = h
    BY <1>3, <1>4, <1>6, <2>1
  <2>6. \A p \in index'.bits :
          /\ p[1] < next /\ ~index'.entry[p].leaf => index'.entry[p].num < next
          /\ ~(p[1] >= next)
    BY <1>3, <1>7, <2>1
  <2>7. \A i \in top' + 1 .. Len(stack') : FALSE
    BY <1>1, <1>4, <1>8
  <2>8. half' = FALSE
    BY <1>1
  <2> QED BY <2>2, <2>3, <2>4, <2>5, <2>6, <2>7, <2>8 DEF CollisionUnderway
<1>10. Underway'
  BY <1>1, <1>4, <1>5, <1>8, <1>9 DEF Underway
<1>11. /\ \A k \in Key : \A i : i \in Found(index', data', k) <=> i \in Found(index, data, k)
       /\ OnTrail' /\ FilesInv'
  BY <1>1, <1>3, <1>8, AppendRecordMap
<1> QED BY <1>10, <1>11 DEF MInv

\* A write to the index has come after a flush of the one before it.
LEMMA FilesAfterWrite ==
  ASSUME MInv, mode = "open", top > 0, diskIndex' = index,
         UNCHANGED <<data, diskData, mode>>, top' > 0 \/ op' = NoOp,
         \A k \in Key : \A i \in Found(index, data, k) : i \in Found(index', data, k)
  PROVE  FilesInv'
<1>1. ~Looking'
  BY DEF Looking
<1>2. \A k \in Key : Found(diskIndex', data', k) \subseteq Found(index', data', k)
  OBVIOUS
<1> QED BY <1>1, <1>2 DEF MInv, FilesInv

\* A place on the trail of a key that has no bit leads the key nowhere.
LEMMA UnsetLeadsNowhere ==
  ASSUME NEW idx, IndexOK(idx), NEW k \in Key, NEW c \in 0 .. Depth - 1,
         Trail(idx, k)[c] # Nowhere, At(idx, k, c) \notin idx.bits
  PROVE  \A i : ~Leads(idx, k, i)
<1>1. Depth \in Nat \ {0}
  BY ConstantsAssumption
<1>2. ASSUME NEW d \in 0 .. Depth - 1, At(idx, k, d) \in idx.bits PROVE d < c
  <2>1. Follow(idx, Trail(idx, k)[c], Digit[k][c]) = Nowhere
    BY DEF Follow, At
  <2>2. \A j \in c + 1 .. Depth - 1 : Trail(idx, k)[j] = Nowhere
    BY <2>1, TrailStops
  <2>3. Trail(idx, k)[d] # Nowhere
    BY <1>2, VisitedBelow
  <2>4. d # c
    BY <1>2
  <2> QED BY <1>1, <2>2, <2>3, <2>4
<1>3. ASSUME NEW i, Leads(idx, k, i) PROVE FALSE
  <2>1. PICK d \in 0 .. Depth - 1 :
          At(idx, k, d) \in idx.bits /\ EntryAt(idx, At(idx, k, d)).leaf
    BY <1>3 DEF Leads
  <2>2. d \in 0 .. c - 1
    BY <1>1, <1>2, <2>1
  <2> QED BY <1>1, <2>1, <2>2, TrailAbove
<1> QED BY <1>3

\* What is known while the stack is worked off.
LEMMA UnderwayContext ==
  ASSUME IInv, MInv, top > 0
  PROVE  /\ op \in [kind : {"insert", "check"}, key : Key, value : Value,
                    node : NodeId, depth : 0 .. Depth - 1]
         /\ op # NoOp /\ op.key \in Key /\ op.depth \in 0 .. Depth - 1 /\ op.node \in NodeId
         /\ IndexOK(index) /\ data \in Seq(Record) /\ stack \in Seq(Update)
         /\ top \in 1 .. Len(stack) /\ Len(stack) \in Nat
         /\ stack[top] \in Update
         /\ mode = "open" /\ Sound(index, data)
         /\ Len(data) > 0 /\ data[Len(data)] = [key |-> op.key, value |-> op.value]
         /\ stack[Len(stack)].num = Len(data) - 1
         /\ NewEntryUnderway \/ CollisionUnderway
         /\ Trail(index, op.key)[op.depth] = op.node /\ op.node # Nowhere
         /\ index.owner[op.node].depth = op.depth /\ op.node \in DOMAIN index.owner
<1>1. op # NoOp /\ mode = "open"
  BY DEF IInv, TypeOK, ModesOK
<1>2. top \in 1 .. Len(stack) /\ Len(stack) \in Nat /\ stack \in Seq(Update)
  BY DEF IInv, TypeOK
<1>3. stack[top] \in Update
  BY <1>2
<1>4. op.kind # "lookup" /\ Trail(index, op.key)[op.depth] = op.node
  BY <1>1 DEF MInv, OnTrail, Underway
<1>5. op \in [kind : {"insert", "check"}, key : Key, value : Value,
              node : NodeId, depth : 0 .. Depth - 1]
  BY <1>1, <1>4 DEF IInv, TypeOK
<1>6. op.node # Nowhere
  BY <1>5 DEF NodeId, Root, Nowhere
<1> QED
  BY <1>1, <1>2, <1>3, <1>4, <1>5, <1>6 DEF IInv, TypeOK, MInv, Underway, OpSound

\* The write of an entry, and of a byte of the bitmap.
LEMMA EntryWritten ==
  ASSUME IInv, IInv', MInv, WriteEntry
  PROVE  LET u == stack[top]
             p == PlaceOf(u)
         IN /\ top > 0 /\ ~half /\ mode = "open" /\ diskIndex' = index
            /\ UNCHANGED <<data, diskData, saved, mode, stack>>
            /\ index'.bits = index.bits
            /\ DOMAIN index'.entry = DOMAIN index.entry \cup {p}
            /\ index'.entry[p].leaf = u.leaf /\ index'.entry[p].num = u.num
            /\ \A q \in DOMAIN index.entry : q # p => index'.entry[q] = index.entry[q]
            /\ \A q : q # p => EntryAt(index', q) = EntryAt(index, q)
            /\ EntryAt(index', p).leaf = u.leaf /\ EntryAt(index', p).num = u.num
            /\ IndexOK(index')
            /\ u.skip => half' = FALSE /\ top' = top - 1
                         /\ IF top = 1 THEN Answer("ok") ELSE UNCHANGED <<op, reply>>
            /\ ~u.skip => half' = TRUE /\ UNCHANGED <<op, top, reply>>
<1> DEFINE u == stack[top]
           p == PlaceOf(u)
           e == [leaf |-> u.leaf, num |-> u.num]
<1>1. /\ top > 0 /\ ~half /\ mode = "open" /\ diskIndex' = index
      /\ UNCHANGED <<data, diskData, saved, mode, stack>>
  BY DEF WriteEntry, FlushIndex, Pop
<1>2. IndexOK(index) /\ IndexOK(index')
  BY DEF IInv, TypeOK
<1>3. /\ index'.bits = index.bits
      /\ index'.entry = [q \in DOMAIN index.entry \cup {p} |-> IF q = p THEN e ELSE index.entry[q]]
  BY <1>2 DEF WriteEntry, IndexOK, PlaceOf
<1>4. /\ u.skip => half' = FALSE /\ top' = top - 1
                   /\ IF top = 1 THEN Answer("ok") ELSE UNCHANGED <<op, reply>>
      /\ ~u.skip => half' = TRUE /\ UNCHANGED <<op, top, reply>>
  BY DEF WriteEntry, Pop
<1>5. e.leaf = u.leaf /\ e.num = u.num
  OBVIOUS
<1> HIDE DEF u, p, e
<1>6. /\ DOMAIN index'.entry = DOMAIN index.entry \cup {p}
      /\ index'.entry[p] = e
      /\ \A q \in DOMAIN index.entry : q # p => index'.entry[q] = index.entry[q]
  BY <1>3
<1>7. /\ \A q : q # p => EntryAt(index', q) = EntryAt(index, q)
      /\ EntryAt(index', p) = e
  BY <1>6 DEF EntryAt
<1> QED BY <1>1, <1>2, <1>3, <1>4, <1>5, <1>6, <1>7 DEF u, p

\* What the write of a byte of the bitmap does.
LEMMA BitmapWritten ==
  ASSUME IInv, IInv', MInv, WriteBitmap
  PROVE  LET u == stack[top]
         IN /\ top > 0 /\ half /\ mode = "open" /\ diskIndex' = index
            /\ UNCHANGED <<data, diskData, saved, mode, stack>>
            /\ index'.entry = index.entry
            /\ index'.bits = {q \in index.bits : ~(q[1] = u.node /\ SameByte(q[2], u.slot))}
                               \cup {<<u.node, s>> : s \in u.slots}
            /\ IndexOK(index')
            /\ half' = FALSE /\ top' = top - 1
            /\ IF top = 1 THEN Answer("ok") ELSE UNCHANGED <<op, reply>>
<1>1. /\ top > 0 /\ half /\ mode = "open" /\ diskIndex' = index
      /\ UNCHANGED <<data, diskData, saved, mode, stack>>
      /\ half' = FALSE /\ top' = top - 1
      /\ IF top = 1 THEN Answer("ok") ELSE UNCHANGED <<op, reply>>
  BY DEF WriteBitmap, FlushIndex, Pop
<1>2. IndexOK(index) /\ IndexOK(index')
  BY DEF IInv, TypeOK
<1>3. /\ index'.entry = index.entry
      /\ index'.bits = {q \in index.bits : ~(q[1] = stack[top].node /\ SameByte(q[2], stack[top].slot))}
                         \cup {<<stack[top].node, s>> : s \in stack[top].slots}
  BY <1>2 DEF WriteBitmap, IndexOK
<1> QED BY <1>1, <1>2, <1>3

\* What the last write of an insertion does: one more mapping.
OneMoreFound ==
  LET num == Len(data) - 1
  IN /\ \A k \in Key \ {op.key} : \A i : i \in Found(index', data, k) <=> i \in Found(index, data, k)
     /\ \A i : i \notin Found(index, data, op.key)
     /\ num \in Found(index', data, op.key) /\ data[num + 1].value = op.value
     /\ op' = NoOp /\ top' = 0
     /\ reply' = [kind |-> op.kind, key |-> op.key, value |-> op.value, result |-> "ok"]
     /\ UNCHANGED <<data, saved, mode>>

\* What the writes before it do: nothing is found that was not, or lost.
NothingFound ==
  /\ \A k \in Key : \A i : i \in Found(index', data, k) <=> i \in Found(index, data, k)
  /\ UNCHANGED <<data, saved, mode, op, reply>>

\* insert_new_entry: the entry is written; its bit is not set.
LEMMA NewEntryWritten ==
  ASSUME IInv, IInv', MInv, WriteEntry, NewEntryUnderway
  PROVE  MInv' /\ NothingFound
<1> DEFINE u == stack[1]
           p == PlaceOf(u)
<1>1. /\ top = 1 /\ Len(stack) = 1 /\ ~u.skip /\ p \notin index.bits
      /\ u.node = op.node /\ u.slot = Digit[op.key][op.depth] /\ u.leaf
      /\ u.slots = {s \in Slot : \/ s = u.slot
                                 \/ SameByte(s, u.slot) /\ <<u.node, s>> \in index.bits}
      /\ op # NoOp /\ op.key \in Key /\ op.depth \in 0 .. Depth - 1 /\ IndexOK(index)
  BY UnderwayContext, EntryWritten DEF NewEntryUnderway
<1> HIDE DEF u
<1>2. /\ mode = "open" /\ diskIndex' = index
      /\ UNCHANGED <<data, diskData, saved, mode, stack, op, top, reply>> /\ half' = TRUE
      /\ index'.bits = index.bits /\ DOMAIN index'.entry = DOMAIN index.entry \cup {p}
      /\ index'.entry[p].leaf = u.leaf /\ index'.entry[p].num = u.num
      /\ \A q : q # p => EntryAt(index', q) = EntryAt(index, q)
      /\ IndexOK(index')
  BY <1>1, EntryWritten DEF u
<1>3. ASSUME NEW k \in Key
      PROVE  /\ \A d \in 0 .. Depth - 1 : Trail(index', k)[d] = Trail(index, k)[d]
             /\ \A i : Leads(index', k, i) <=> Leads(index, k, i)
  <2>1. \A q \in index.bits : EntryAt(index', q) = EntryAt(index, q)
    BY <1>1, <1>2
  <2> QED BY <1>1, <1>2, <2>1, SameIndexTrail
<1>4. \A k \in Key : \A i : i \in Found(index', data, k) <=> i \in Found(index, data, k)
  BY <1>3, FoundIff
<1>5. FilesInv'
  BY <1>1, <1>2, <1>4, FilesAfterWrite
<1>6. OnTrail'
  BY <1>1, <1>2, <1>3 DEF MInv, OnTrail
<1>7. NewEntryUnderway'
  <2>1. Made(index', u)
    BY <1>2 DEF Made
  <2>2. stack'[1] = u
    BY <1>2 DEF u
  <2> QED BY <1>1, <1>2, <2>1, <2>2 DEF NewEntryUnderway
<1>8. Underway'
  BY <1>2, <1>7 DEF MInv, Underway
<1> QED BY <1>2, <1>4, <1>5, <1>6, <1>8 DEF MInv, NothingFound

\* insert_new_entry: the byte with one more bit is written.
LEMMA NewBitWritten ==
  ASSUME IInv, IInv', MInv, WriteBitmap, NewEntryUnderway
  PROVE  MInv' /\ OneMoreFound
<1> DEFINE u == stack[1]
           p == PlaceOf(u)
           num == Len(data) - 1
<1>1. /\ top = 1 /\ Len(stack) = 1 /\ half /\ p \notin index.bits
      /\ u.node = op.node /\ u.slot = Digit[op.key][op.depth] /\ u.leaf /\ u.num = num
      /\ u.slots = {s \in Slot : \/ s = u.slot
                                 \/ SameByte(s, u.slot) /\ <<u.node, s>> \in index.bits}
      /\ op # NoOp /\ op.key \in Key /\ op.depth \in 0 .. Depth - 1 /\ IndexOK(index)
      /\ data \in Seq(Record) /\ Len(data) > 0
      /\ data[Len(data)] = [key |-> op.key, value |-> op.value]
      /\ Made(index, u) /\ u \in Update
      /\ Trail(index, op.key)[op.depth] = op.node /\ op.node # Nowhere
  BY UnderwayContext, BitmapWritten DEF NewEntryUnderway
<1> HIDE DEF u, num
<1>2. /\ mode = "open" /\ diskIndex' = index
      /\ UNCHANGED <<data, diskData, saved, mode, stack>>
      /\ index'.entry = index.entry
      /\ index'.bits = {q \in index.bits : ~(q[1] = u.node /\ SameByte(q[2], u.slot))}
                         \cup {<<u.node, s>> : s \in u.slots}
      /\ IndexOK(index')
      /\ top' = 0 /\ op' = NoOp
      /\ reply' = [kind |-> op.kind, key |-> op.key, value |-> op.value, result |-> "ok"]
  <2>1. stack[top] = u
    BY <1>1 DEF u
  <2>2. /\ mode = "open" /\ diskIndex' = index
        /\ UNCHANGED <<data, diskData, saved, mode, stack>>
        /\ index'.entry = index.entry
        /\ index'.bits = {q \in index.bits : ~(q[1] = u.node /\ SameByte(q[2], u.slot))}
                           \cup {<<u.node, s>> : s \in u.slots}
        /\ IndexOK(index')
    BY <2>1, BitmapWritten
  <2>3. top' = 0 /\ Answer("ok")
    BY <1>1, BitmapWritten
  <2> QED BY <2>2, <2>3 DEF Answer
<1>3. index'.bits = index.bits \cup {p}
  <2>1. index.bits \subseteq NodeId \X Slot /\ u.node \in NodeId /\ u.slot \in Slot
    BY <1>1 DEF IndexOK, Update
  <2>2. ASSUME NEW q \in index.bits PROVE q \in index'.bits
    <3>1. CASE q[1] = u.node /\ SameByte(q[2], u.slot)
      <4>1. q = <<u.node, q[2]>> /\ q[2] \in Slot
        BY <2>1, <3>1
      <4>2. q[2] \in u.slots
        BY <1>1, <3>1, <4>1
      <4> QED BY <1>2, <4>1, <4>2
    <3>2. CASE ~(q[1] = u.node /\ SameByte(q[2], u.slot))
      BY <1>2, <3>2
    <3> QED BY <3>1, <3>2
  <2>3. p \in index'.bits
    <3>1. u.slot \in u.slots
      BY <1>1, <2>1
    <3> QED BY <1>2, <3>1 DEF PlaceOf
  <2>4. ASSUME NEW q \in index'.bits PROVE q \in index.bits \/ q = p
    <3>1. SUFFICES ASSUME NEW s \in u.slots, q = <<u.node, s>> PROVE q \in index.bits \/ q = p
      BY <1>2
    <3> QED BY <1>1, <3>1 DEF PlaceOf
  <2> QED BY <2>2, <2>3, <2>4
<1>4. BitAdded(index, index', p, num)
  <2>1. \A q : EntryAt(index', q) = EntryAt(index, q)
    BY <1>2 DEF EntryAt
  <2>2. EntryAt(index, p).leaf /\ EntryAt(index, p).num = num
    BY <1>1 DEF Made, EntryAt
  <2> QED BY <1>1, <1>2, <1>3, <2>1, <2>2 DEF BitAdded
<1>5. At(index, op.key, op.depth) = p
  BY <1>1 DEF At, PlaceOf
<1> HIDE DEF p
<1>6. num \in Nat /\ num < Len(data) /\ num + 1 = Len(data)
  BY <1>1 DEF num
<1>7. data[num + 1].key = op.key /\ data[num + 1].value = op.value
  BY <1>1, <1>6
<1>8. ASSUME NEW i PROVE i \notin Found(index, data, op.key)
  <2>1. ~Leads(index, op.key, i)
    BY <1>1, <1>5, UnsetLeadsNowhere
  <2> QED BY <2>1, FoundIff
<1>9. num \in Found(index', data, op.key)
  <2>1. Leads(index', op.key, num)
    BY <1>1, <1>4, <1>5, BitAddedLeads
  <2> QED BY <1>6, <1>7, <2>1, FoundIff
<1>10. ASSUME NEW k \in Key \ {op.key}, NEW i
       PROVE  i \in Found(index', data, k) <=> i \in Found(index, data, k)
  <2>1. /\ Leads(index', k, i) => Leads(index, k, i) \/ i = num
        /\ Leads(index, k, i) => Leads(index', k, i)
    BY <1>4, BitAddedLeads
  <2> QED BY <1>7, <2>1, FoundIff
<1>11. OneMoreFound
  BY <1>2, <1>7, <1>8, <1>9, <1>10 DEF OneMoreFound, num
<1>12. \A k \in Key : \A i \in Found(index, data, k) : i \in Found(index', data, k)
  BY <1>8, <1>10
<1>13. FilesInv'
  BY <1>1, <1>2, <1>12, FilesAfterWrite
<1> QED BY <1>2, <1>11, <1>13 DEF MInv, Underway, OnTrail

\* The items of a collision concern different places: the redirected one, and
\* places of nodes from next on, two of them in the last node.
LEMMA ItemPlaces ==
  ASSUME NEW o, NEW st, NEW e, NEW next \in Nat, NEW h, CollisionItems(o, st, e, next, h),
         o.node \in NodeId, o.node < next
  PROVE  /\ Len(st) \in Nat /\ Len(st) >= 3
         /\ st[1].node = o.node /\ st[1].slot = Digit[o.key][o.depth + 1 - 1]
         /\ \A i \in 2 .. Len(st) : st[i].node \in NodeId /\ st[i].node >= next
         /\ \A i, j \in 2 .. Len(st) :
              i < j /\ st[i].node = st[j].node => i = Len(st) - 1 /\ j = Len(st)
         /\ \A i, j \in 1 .. Len(st) : i # j => PlaceOf(st[i]) # PlaceOf(st[j])
<1> DEFINE L == Len(st)
<1>1. /\ L \in Nat /\ L >= 3
      /\ \A i \in 1 .. L - 2 : st[i].node = (IF i = 1 THEN o.node ELSE next + i - 2)
      /\ st[L - 1].node = next + L - 3 /\ st[L].node = next + L - 3
      /\ st[L - 1].slot # st[L].slot
      /\ st[1].slot = Digit[o.key][o.depth + 1 - 1]
  <2>1. 1 \in 1 .. L - 2
    BY DEF CollisionItems
  <2> QED BY <2>1 DEF CollisionItems
<1> HIDE DEF L
<1>2. ASSUME NEW i \in 2 .. L
      PROVE  st[i].node = next + (IF i = L THEN L - 3 ELSE i - 2)
  <2>1. i = L \/ i = L - 1 \/ (i \in 1 .. L - 2 /\ i # 1)
    BY <1>1
  <2> QED BY <1>1, <2>1
<1>3. \A i \in 2 .. L : st[i].node \in NodeId /\ st[i].node >= next
  BY <1>1, <1>2 DEF NodeId
<1>4. ASSUME NEW i \in 2 .. L, NEW j \in 2 .. L, i < j, st[i].node = st[j].node
      PROVE  i = L - 1 /\ j = L
  <2>1. st[i].node = next + (i - 2)
    BY <1>1, <1>2, <1>4
  <2>2. CASE j = L
    <3>1. next + (i - 2) = next + (L - 3)
      BY <1>2, <1>4, <2>1, <2>2
    <3>2. i \in Nat /\ i - 2 = L - 3
      BY <1>1, <3>1
    <3> QED BY <1>1, <2>2, <3>2
  <2>3. CASE j # L
    <3>1. next + (i - 2) = next + (j - 2)
      BY <1>2, <1>4, <2>1, <2>3
    <3>2. i \in Nat /\ j \in Nat /\ i - 2 = j - 2
      BY <1>1, <3>1
    <3> QED BY <1>4, <3>2
  <2> QED BY <2>2, <2>3
<1>5. ASSUME NEW i \in 1 .. L, NEW j \in 1 .. L, i < j, PlaceOf(st[i]) = PlaceOf(st[j])
      PROVE  FALSE
  <2>1. st[i].node = st[j].node /\ st[i].slot = st[j].slot
    BY <1>5 DEF PlaceOf
  <2>2. j \in 2 .. L
    BY <1>1, <1>5
  <2>3. CASE i = 1
    <3>1. st[1].node = o.node
      <4>1. 1 \in 1 .. L - 2
        BY <1>1
      <4> QED BY <1>1, <4>1
    <3> QED BY <1>3, <2>1, <2>2, <2>3, <3>1 DEF NodeId, Root
  <2>4. CASE i # 1
    <3>1. i \in 2 .. L
      BY <1>1, <2>4
    <3>2. i = L - 1 /\ j = L
      BY <1>4, <1>5, <2>1, <2>2, <3>1
    <3> QED BY <1>1, <2>1, <3>2
  <2> QED BY <2>3, <2>4
<1>6. \A i, j \in 1 .. L : i # j => PlaceOf(st[i]) # PlaceOf(st[j])
  BY <1>1, <1>5
<1>7. st[1].node = o.node
  <2>1. 1 \in 1 .. L - 2
    BY <1>1
  <2> QED BY <1>1, <2>1
<1> QED BY <1>1, <1>3, <1>4, <1>6, <1>7 DEF L

\* Before the redirection lookups do not reach the nodes from next on:
\* writing to those nodes changes what no lookup finds.
LEMMA HiddenNodes ==
  ASSUME NEW idx, NEW idx2, IndexOK(idx), IndexOK(idx2), NEW next \in Nat,
         idx.bits \subseteq DOMAIN idx.entry,
         \A q \in idx.bits : q[1] < next /\ ~idx.entry[q].leaf => idx.entry[q].num < next,
         \A q : q[1] \in NodeId /\ q[1] < next =>
                  /\ q \in idx2.bits <=> q \in idx.bits
                  /\ EntryAt(idx2, q) = EntryAt(idx, q),
         NEW k \in Key
  PROVE  /\ \A d \in 0 .. Depth - 1 : Trail(idx2, k)[d] = Trail(idx, k)[d]
         /\ \A i : Leads(idx2, k, i) <=> Leads(idx, k, i)
<1> DEFINE N == {n \in NodeId : n < next}
<1>1. Root \in N
  BY DEF NodeId, Root
<1>2. ASSUME NEW q \in idx.bits \cup idx2.bits, q[1] \in N
      PROVE  /\ q \in idx.bits /\ q \in idx2.bits
             /\ EntryAt(idx2, q) = EntryAt(idx, q)
             /\ ~EntryAt(idx, q).leaf => EntryAt(idx, q).num \in N
  <2>1. q[1] \in NodeId /\ q[1] < next
    BY <1>2
  <2>2. /\ q \in idx.bits /\ q \in idx2.bits /\ EntryAt(idx2, q) = EntryAt(idx, q)
    BY <1>2, <2>1
  <2>3. EntryAt(idx, q) = idx.entry[q]
    BY <2>2 DEF EntryAt
  <2>4. idx.entry[q].num \in Nat
    BY <2>2 DEF IndexOK, Entry
  <2>5. ~idx.entry[q].leaf => idx.entry[q].num < next
    BY <2>1, <2>2
  <2> QED BY <2>2, <2>3, <2>4, <2>5 DEF NodeId
<1> HIDE DEF N
<1>3. AgreeOn(N, idx, idx2)
  BY <1>1, <1>2 DEF AgreeOn
<1> QED BY <1>3, SameTrail

\* What is known while the stack of a collision is worked off.
LEMMA CollisionContext ==
  ASSUME IInv, MInv, top > 0, CollisionUnderway,
         NEW next, next = stack[1].num, NEW h, h = stack[Len(stack) - 1].num,
         NEW e, e = data[h + 1].key
  PROVE  /\ CollisionItems(op, stack, e, next, h)
         /\ next \in Nat /\ h \in Nat /\ h < Len(data) /\ op.node < next /\ op.node \in NodeId
         /\ index.bits \subseteq DOMAIN index.entry
         /\ PlaceOf(stack[1]) \in index.bits
         /\ index.entry[PlaceOf(stack[1])].leaf /\ index.entry[PlaceOf(stack[1])].num = h
         /\ \A p \in index.bits : p[1] < next /\ ~index.entry[p].leaf => index.entry[p].num < next
         /\ \A p \in index.bits :
              p[1] >= next =>
                \E i \in 2 .. Len(stack) : p = PlaceOf(stack[i]) /\ Made(index, stack[i])
         /\ \A i \in top + 1 .. Len(stack) :
              /\ Made(index, stack[i])
              /\ PlaceOf(stack[i]) \in index.bits \/ (stack[i].skip /\ top = Len(stack) - 1)
         /\ half => Made(index, stack[top]) /\ ~stack[top].skip
         /\ \A i \in 1 .. Len(stack) : stack[i] \in Update
<1>1. CollisionItems(op, stack, e, next, h)
  BY SMTT(30) DEF CollisionUnderway
<1>2. Len(stack) \in Nat /\ Len(stack) >= 3 /\ stack \in Seq(Update)
  BY ZenonT(60), <1>1, UnderwayContext DEF CollisionItems
<1>3. \A i \in 1 .. Len(stack) : stack[i] \in Update
  BY <1>2
<1>4. next \in Nat /\ h \in Nat
  <2>1. 1 \in 1 .. Len(stack) /\ Len(stack) - 1 \in 1 .. Len(stack)
    BY <1>2
  <2> QED BY <1>3, <2>1 DEF Update
<1>5. index.bits \subseteq DOMAIN index.entry /\ op.node \in NodeId
  BY UnderwayContext DEF Sound
<1> QED BY <1>1, <1>3, <1>4, <1>5 DEF CollisionUnderway

\* update_after_collision writes an entry of a node that no lookup reaches.
LEMMA HiddenEntryWritten ==
  ASSUME IInv, IInv', MInv, WriteEntry, CollisionUnderway, top # 1
  PROVE  MInv' /\ NothingFound
<1> DEFINE next == stack[1].num
           h == stack[Len(stack) - 1].num
           e == data[h + 1].key
           L == Len(stack)
           u == stack[top]
           p == PlaceOf(u)
<1>1. /\ top > 0 /\ mode = "open" /\ diskIndex' = index
      /\ UNCHANGED <<data, diskData, saved, mode, stack>>
      /\ index'.bits = index.bits
      /\ DOMAIN index'.entry = DOMAIN index.entry \cup {p}
      /\ index'.entry[p].leaf = u.leaf /\ index'.entry[p].num = u.num
      /\ \A q \in DOMAIN index.entry : q # p => index'.entry[q] = index.entry[q]
      /\ \A q : q # p => EntryAt(index', q) = EntryAt(index, q)
      /\ IndexOK(index')
  BY EntryWritten
<1>2. UNCHANGED <<op, reply>>
  BY EntryWritten
<1>3. /\ u.skip => half' = FALSE /\ top' = top - 1
      /\ ~u.skip => half' = TRUE /\ top' = top
  BY EntryWritten
<1>4. /\ op.key \in Key /\ op.depth \in 0 .. Depth - 1 /\ op # NoOp /\ IndexOK(index)
      /\ top \in 1 .. L /\ L \in Nat
  BY <1>1, UnderwayContext
<1>5. /\ CollisionItems(op, stack, e, next, h)
      /\ next \in Nat /\ h \in Nat /\ h < Len(data) /\ op.node < next /\ op.node \in NodeId
      /\ index.bits \subseteq DOMAIN index.entry
      /\ PlaceOf(stack[1]) \in index.bits
      /\ index.entry[PlaceOf(stack[1])].leaf /\ index.entry[PlaceOf(stack[1])].num = h
      /\ \A q \in index.bits : q[1] < next /\ ~index.entry[q].leaf => index.entry[q].num < next
      /\ \A q \in index.bits :
           q[1] >= next => \E i \in 2 .. L : q = PlaceOf(stack[i]) /\ Made(index, stack[i])
      /\ \A i \in top + 1 .. L :
           /\ Made(index, stack[i])
           /\ PlaceOf(stack[i]) \in index.bits \/ (stack[i].skip /\ top = L - 1)
  BY <1>1, CollisionContext
<1> HIDE DEF next, h, e, L
<1>6. /\ L >= 3 /\ top \in 2 .. L
      /\ \A i \in 2 .. L : stack[i].node \in NodeId /\ stack[i].node >= next
      /\ \A i, j \in 1 .. L : i # j => PlaceOf(stack[i]) # PlaceOf(stack[j])
  <2>1. /\ L >= 3
        /\ \A i \in 2 .. L : stack[i].node \in NodeId /\ stack[i].node >= next
        /\ \A i, j \in 1 .. L : i # j => PlaceOf(stack[i]) # PlaceOf(stack[j])
    <3>1. /\ CollisionItems(op, stack, e, next, h)
          /\ next \in Nat /\ op.node < next /\ op.node \in NodeId
      BY <1>5
    <3> QED BY <3>1, ItemPlaces DEF L
  <2> QED BY <1>4, <2>1
<1>7. ~(p[1] < next)
  BY <1>5, <1>6 DEF PlaceOf, NodeId, Root
<1>8. ASSUME NEW k \in Key
      PROVE  /\ \A d \in 0 .. Depth - 1 : Trail(index', k)[d] = Trail(index, k)[d]
             /\ \A i : Leads(index', k, i) <=> Leads(index, k, i)
  <2>1. \A q : q[1] \in NodeId /\ q[1] < next =>
                 /\ q \in index'.bits <=> q \in index.bits
                 /\ EntryAt(index', q) = EntryAt(index, q)
    BY <1>1, <1>7
  <2> QED BY <1>1, <1>4, <1>5, <2>1, HiddenNodes
<1>9. \A k \in Key : \A i : i \in Found(index', data, k) <=> i \in Found(index, data, k)
  BY <1>8, FoundIff
<1>10. top' > 0
  BY <1>3, <1>6
<1>11. FilesInv'
  BY <1>1, <1>9, <1>10, FilesAfterWrite
<1>12. OnTrail'
  BY <1>2, <1>4, <1>8 DEF MInv, OnTrail
<1>13. Made(index', u)
  BY <1>1 DEF Made
<1>14. ASSUME NEW i \in 1 .. L, Made(index, stack[i]) PROVE Made(index', stack[i])
  <2>1. CASE i = top
    BY <1>13, <2>1
  <2>2. CASE i # top
    <3>1. PlaceOf(stack[i]) # p
      BY <1>4, <1>6, <2>2
    <3> QED BY <1>1, <1>14, <3>1 DEF Made
  <2> QED BY <2>1, <2>2
<1>15. u.skip => top = L
  <2>1. \A i \in 1 .. L - 2 : i # 1 => ~stack[i].skip
    BY <1>5 DEF CollisionItems, L
  <2>2. ~stack[L - 1].skip
    BY <1>5 DEF CollisionItems, L
  <2>3. top = L \/ top = L - 1 \/ top \in 1 .. L - 2
    BY <1>4, <1>6
  <2> QED BY <1>6, <2>1, <2>2, <2>3
<1>16. CollisionUnderway'
  <2>1. /\ PlaceOf(stack[1]) \in index'.bits
        /\ index'.entry[PlaceOf(stack[1])] = index.entry[PlaceOf(stack[1])]
    <3>1. PlaceOf(stack[1]) # p
      BY <1>4, <1>6
    <3> QED BY <1>1, <1>5, <3>1
  <2>2. ASSUME NEW q \in index'.bits, q[1] < next, ~index'.entry[q].leaf
        PROVE  index'.entry[q].num < next
    BY <1>1, <1>5, <1>7, <2>2
  <2>3. ASSUME NEW q \in index'.bits, q[1] >= next
        PROVE  \E i \in 2 .. L : q = PlaceOf(stack[i]) /\ Made(index', stack[i])
    <3>1. PICK i \in 2 .. L : q = PlaceOf(stack[i]) /\ Made(index, stack[i])
      BY <1>1, <1>5, <2>3
    <3> QED BY <1>6, <1>14, <3>1
  <2>4. ASSUME NEW i \in top' + 1 .. L
        PROVE  /\ Made(index', stack[i])
               /\ PlaceOf(stack[i]) \in index'.bits \/ (stack[i].skip /\ top' = L - 1)
    <3>1. CASE i = top
      <4>1. u.skip /\ top' = L - 1
        BY <1>3, <1>4, <1>6, <1>15, <3>1
      <4> QED BY <1>13, <3>1, <4>1
    <3>2. CASE i # top
      <4>1. ~u.skip \/ i \notin top' + 1 .. L
        BY <1>3, <1>4, <1>15, <3>2
      <4>2. top' = top /\ i \in top + 1 .. L /\ i \in 1 .. L
        BY <1>3, <1>4, <4>1
      <4> QED BY <1>1, <1>5, <1>14, <4>2
    <3> QED BY <3>1, <3>2
  <2>5. half' => Made(index', stack[top']) /\ ~stack[top'].skip
    BY <1>3, <1>13
  <2>6. next = stack'[1].num /\ h = stack'[Len(stack') - 1].num /\ L = Len(stack')
        /\ e = data'[h + 1].key
    BY <1>1 DEF next, h, e, L
  <2>7. /\ CollisionItems(op', stack', e, next, h) /\ h < Len(data') /\ op'.node < next
        /\ stack' = stack
    BY <1>1, <1>2, <1>5
  <2> QED BY <1>5, <2>1, <2>2, <2>3, <2>4, <2>5, <2>6, <2>7 DEF CollisionUnderway
<1>17. Underway'
  BY <1>1, <1>2, <1>16 DEF MInv, Underway
<1> QED BY <1>1, <1>2, <1>9, <1>11, <1>12, <1>17 DEF MInv, NothingFound

\* update_after_collision writes a byte of the bitmap of such a node.
LEMMA HiddenBitmapWritten ==
  ASSUME IInv, IInv', MInv, WriteBitmap, CollisionUnderway
  PROVE  MInv' /\ NothingFound
<1> DEFINE next == stack[1].num
           h == stack[Len(stack) - 1].num
           e == data[h + 1].key
           L == Len(stack)
           u == stack[top]
           n == stack[L].slot
           f == stack[L - 1].slot
<1>1. /\ top > 0 /\ half /\ mode = "open" /\ diskIndex' = index
      /\ UNCHANGED <<data, diskData, saved, mode, stack>>
      /\ index'.entry = index.entry
      /\ index'.bits = {q \in index.bits : ~(q[1] = u.node /\ SameByte(q[2], u.slot))}
                         \cup {<<u.node, s>> : s \in u.slots}
      /\ IndexOK(index')
      /\ half' = FALSE /\ top' = top - 1
      /\ IF top = 1 THEN Answer("ok") ELSE UNCHANGED <<op, reply>>
  BY BitmapWritten
<1>2. /\ op.key \in Key /\ op.depth \in 0 .. Depth - 1 /\ op # NoOp /\ IndexOK(index)
      /\ top \in 1 .. L /\ L \in Nat
  BY <1>1, UnderwayContext
<1>3. /\ CollisionItems(op, stack, e, next, h)
      /\ next \in Nat /\ h \in Nat /\ h < Len(data) /\ op.node < next /\ op.node \in NodeId
      /\ index.bits \subseteq DOMAIN index.entry
      /\ PlaceOf(stack[1]) \in index.bits
      /\ index.entry[PlaceOf(stack[1])].leaf /\ index.entry[PlaceOf(stack[1])].num = h
      /\ \A q \in index.bits : q[1] < next /\ ~index.entry[q].leaf => index.entry[q].num < next
      /\ \A q \in index.bits :
           q[1] >= next => \E i \in 2 .. L : q = PlaceOf(stack[i]) /\ Made(index, stack[i])
      /\ \A i \in top + 1 .. L :
           /\ Made(index, stack[i])
           /\ PlaceOf(stack[i]) \in index.bits \/ (stack[i].skip /\ top = L - 1)
      /\ Made(index, u) /\ ~u.skip
  BY SMTT(30), <1>1, CollisionContext
<1>4. /\ L >= 3 /\ stack[1].skip
      /\ \A i \in 1 .. L - 2 : i # 1 => stack[i].slots = {stack[i].slot}
      /\ stack[L - 1].slots = (IF SameByte(n, f) THEN {n, f} ELSE {f})
      /\ stack[L].slots = {n} /\ (stack[L].skip <=> SameByte(n, f))
      /\ stack[L].node = stack[L - 1].node
  <2>1. L >= 3
    BY ZenonT(60), <1>3 DEF CollisionItems
  <2>2. 1 \in 1 .. L - 2
    BY SMTT(30), <1>2, <2>1
  <2>3. stack[1].skip
    BY ZenonT(60), <1>3, <2>2 DEF CollisionItems
  <2>4. \A i \in 1 .. L - 2 : i # 1 => stack[i].slots = {stack[i].slot}
    BY ZenonT(60), <1>3 DEF CollisionItems
  <2> QED BY ZenonT(60), <1>3, <2>1, <2>3, <2>4 DEF CollisionItems
<1> HIDE DEF next, h, e, L, n, f
<1>5. top \in 2 .. L /\ top' > 0
  BY <1>1, <1>2, <1>3, <1>4
<1>6. UNCHANGED <<op, reply>>
  BY <1>1, <1>5
<1>7. /\ \A i \in 2 .. L : stack[i].node \in NodeId /\ stack[i].node >= next
      /\ \A i, j \in 2 .. L : i < j /\ stack[i].node = stack[j].node => i = L - 1 /\ j = L
      /\ stack[1].node = op.node
  <2>1. /\ CollisionItems(op, stack, e, next, h)
        /\ next \in Nat /\ op.node < next /\ op.node \in NodeId
    BY <1>3
  <2> QED BY <2>1, ItemPlaces DEF L
<1>8. u.node \in NodeId /\ u.node >= next
  BY <1>5, <1>7
<1>9. ASSUME NEW q, q[1] \in NodeId, q[1] < next
      PROVE  q \in index'.bits <=> q \in index.bits
  <2>1. q[1] # u.node
    BY <1>3, <1>8, <1>9 DEF NodeId, Root
  <2> QED BY <1>1, <2>1
<1>10. ASSUME NEW k \in Key
       PROVE  /\ \A d \in 0 .. Depth - 1 : Trail(index', k)[d] = Trail(index, k)[d]
              /\ \A i : Leads(index', k, i) <=> Leads(index, k, i)
  <2>1. \A q : q[1] \in NodeId /\ q[1] < next =>
                 /\ q \in index'.bits <=> q \in index.bits
                 /\ EntryAt(index', q) = EntryAt(index, q)
    BY <1>1, <1>9 DEF EntryAt
  <2> QED BY <1>1, <1>2, <1>3, <2>1, HiddenNodes
<1>11. \A k \in Key : \A i : i \in Found(index', data, k) <=> i \in Found(index, data, k)
  BY <1>10, FoundIff
<1>12. FilesInv'
  BY <1>1, <1>5, <1>11, FilesAfterWrite
<1>13. OnTrail'
  BY <1>2, <1>6, <1>10 DEF MInv, OnTrail
<1>14. ASSUME NEW i \in 1 .. L PROVE Made(index', stack[i]) <=> Made(index, stack[i])
  BY <1>1 DEF Made
<1>15. ASSUME NEW s \in u.slots
       PROVE  \E i \in top .. L : <<u.node, s>> = PlaceOf(stack[i]) /\ Made(index, stack[i])
  <2>1. CASE s = u.slot
    <3>1. <<u.node, s>> = PlaceOf(stack[top]) /\ Made(index, stack[top])
      BY <1>3, <2>1 DEF PlaceOf
    <3> QED BY <1>2, <3>1
  <2>2. CASE s # u.slot
    <3>1. top = L - 1 /\ s = n
      <4>1. top = L \/ top = L - 1 \/ (top \in 1 .. L - 2 /\ top # 1)
        BY <1>2, <1>4, <1>5
      <4>2. top # L
        BY <1>4, <2>2 DEF n
      <4>3. ~(top \in 1 .. L - 2 /\ top # 1)
        BY <1>4, <2>2
      <4>4. top = L - 1 /\ s \in {n, f} /\ u.slot = f
        BY <1>4, <4>1, <4>2, <4>3 DEF f
      <4> QED BY <2>2, <4>4
    <3>2. <<u.node, s>> = PlaceOf(stack[L])
      BY <1>4, <3>1 DEF PlaceOf, n
    <3>3. L \in top + 1 .. L /\ L \in top .. L
      BY <1>2, <3>1
    <3> QED BY <1>3, <3>2, <3>3
  <2> QED BY <2>1, <2>2
<1>16. ASSUME NEW i \in top .. L
       PROVE  Made(index, stack[i]) /\ PlaceOf(stack[i]) \in index'.bits
  <2>1. CASE i = top
    <3>1. u.slot \in u.slots
      <4>1. top = L \/ top = L - 1 \/ (top \in 1 .. L - 2 /\ top # 1)
        BY <1>2, <1>4, <1>5
      <4> QED BY <1>4, <4>1 DEF n, f
    <3> QED BY <1>1, <1>3, <2>1, <3>1 DEF PlaceOf
  <2>2. CASE i # top
    <3>1. i \in top + 1 .. L /\ i \in 2 .. L /\ top < i
      BY <1>2, <1>5, <2>2
    <3>2. /\ Made(index, stack[i])
          /\ PlaceOf(stack[i]) \in index.bits \/ (stack[i].skip /\ top = L - 1)
      BY <1>3, <3>1
    <3>3. CASE stack[i].node = u.node /\ SameByte(stack[i].slot, u.slot)
      <4>1. top = L - 1 /\ i = L
        BY <1>5, <1>7, <3>1, <3>3
      <4>2. n \in u.slots
        BY <1>4, <3>3, <4>1 DEF n, f
      <4>3. PlaceOf(stack[i]) = <<u.node, n>>
        BY <3>3, <4>1 DEF PlaceOf, n
      <4> QED BY <1>1, <3>2, <4>2, <4>3
    <3>4. CASE ~(stack[i].node = u.node /\ SameByte(stack[i].slot, u.slot))
      <4>1. ~(stack[i].skip /\ top = L - 1)
        <5>1. SUFFICES ASSUME stack[i].skip, top = L - 1 PROVE FALSE
          OBVIOUS
        <5>2. i = L
          BY <1>2, <3>1, <5>1
        <5>3. SameByte(n, f)
          BY <1>4, <5>1, <5>2
        <5>4. stack[L].node = u.node /\ SameByte(stack[L].slot, u.slot)
          BY <1>4, <5>1, <5>3 DEF n, f
        <5> QED BY <3>4, <5>2, <5>4
      <4>2. PlaceOf(stack[i]) \in index.bits
        BY <3>2, <4>1
      <4>3. PlaceOf(stack[i])[1] = stack[i].node /\ PlaceOf(stack[i])[2] = stack[i].slot
        BY DEF PlaceOf
      <4> QED BY <1>1, <3>2, <3>4, <4>2, <4>3
    <3> QED BY <3>3, <3>4
  <2> QED BY <2>1, <2>2
<1>17. CollisionUnderway'
  <2>1. /\ PlaceOf(stack[1]) \in index'.bits
        /\ index'.entry[PlaceOf(stack[1])] = index.entry[PlaceOf(stack[1])]
    <3>1. PlaceOf(stack[1])[1] = op.node
      BY <1>7 DEF PlaceOf
    <3> QED BY <1>1, <1>3, <1>9, <3>1
  <2>2. ASSUME NEW q \in index'.bits, q[1] < next, ~index'.entry[q].leaf
        PROVE  index'.entry[q].num < next
    <3>1. q[1] \in NodeId
      BY <1>1 DEF IndexOK
    <3> QED BY <1>1, <1>3, <1>9, <2>2, <3>1
  <2>3. ASSUME NEW q \in index'.bits, q[1] >= next
        PROVE  \E i \in 2 .. L : q = PlaceOf(stack[i]) /\ Made(index', stack[i])
    <3>1. \E i \in 2 .. L : q = PlaceOf(stack[i]) /\ Made(index, stack[i])
      <4>1. CASE q \in index.bits
        BY <1>3, <2>3, <4>1
      <4>2. CASE q \notin index.bits
        <5>1. PICK s \in u.slots : q = <<u.node, s>>
          BY <1>1, <4>2
        <5>2. PICK i \in top .. L : q = PlaceOf(stack[i]) /\ Made(index, stack[i])
          BY <1>15, <5>1
        <5>3. i \in 2 .. L
          BY <1>2, <1>5
        <5> QED BY <5>2, <5>3
      <4> QED BY <4>1, <4>2
    <3>2. \A i \in 2 .. L : i \in 1 .. L
      BY <1>2
    <3> QED BY <1>14, <3>1, <3>2
  <2>4. ASSUME NEW i \in top' + 1 .. L
        PROVE  Made(index', stack[i]) /\ PlaceOf(stack[i]) \in index'.bits
    <3>1. i \in top .. L /\ i \in 1 .. L
      BY <1>1, <1>2, <2>4
    <3> QED BY <1>14, <1>16, <3>1
  <2>5. next = stack'[1].num /\ h = stack'[Len(stack') - 1].num /\ L = Len(stack')
        /\ e = data'[h + 1].key
    BY <1>1 DEF next, h, e, L
  <2>6. /\ CollisionItems(op', stack', e, next, h) /\ h < Len(data') /\ op'.node < next
        /\ stack' = stack /\ half' = FALSE
    BY <1>1, <1>3, <1>6
  <2> QED BY <1>3, <2>1, <2>2, <2>3, <2>4, <2>5, <2>6 DEF CollisionUnderway
<1>18. Underway'
  BY <1>1, <1>6, <1>17 DEF MInv, Underway
<1> QED BY <1>1, <1>6, <1>11, <1>12, <1>13, <1>18 DEF MInv, NothingFound

\* The write that redirects place q, which held record h of key e: the new
\* chain of subtries is in place and ends at the two records.
RedirectMade(q, e, next, h, chain) ==
  /\ Redirected(index, index', q, next, h, Len(data) - 1)
  /\ q = <<op.node, Digit[op.key][op.depth]>>
  /\ e \in Key /\ e # op.key /\ h \in Nat /\ h < Len(data) /\ data[h + 1].key = e
  /\ next \in Nat /\ chain \in Nat /\ op.depth + 1 + chain <= Depth - 1
  /\ \A i \in 0 .. chain : Digit[e][op.depth + i] = Digit[op.key][op.depth + i]
  /\ Chained(index', op.key, op.depth, next, chain)
  /\ LET p == <<next + chain, Digit[op.key][op.depth + 1 + chain]>>
     IN p \in index'.bits /\ EntryAt(index', p).leaf
        /\ EntryAt(index', p).num = Len(data) - 1
  /\ LET p == <<next + chain, Digit[e][op.depth + 1 + chain]>>
     IN p \in index'.bits /\ EntryAt(index', p).leaf /\ EntryAt(index', p).num = h

\* The last write of a collision is such a redirection.
LEMMA RedirectContext ==
  ASSUME IInv, IInv', MInv, WriteEntry, CollisionUnderway, top = 1
  PROVE  \E q, e, next, h, chain : RedirectMade(q, e, next, h, chain)
<1> DEFINE next == stack[1].num
           h == stack[Len(stack) - 1].num
           e == data[h + 1].key
           L == Len(stack)
           q == PlaceOf(stack[1])
           chain == L - 3
           num == Len(data) - 1
           c == op.depth
           k == op.key
<1>1. /\ UNCHANGED <<data, stack>>
      /\ index'.bits = index.bits
      /\ \A p : p # q => EntryAt(index', p) = EntryAt(index, p)
      /\ EntryAt(index', q).leaf = stack[1].leaf /\ EntryAt(index', q).num = next
      /\ IndexOK(index')
  BY EntryWritten
<1>2. /\ k \in Key /\ c \in 0 .. Depth - 1 /\ op # NoOp /\ IndexOK(index)
      /\ L \in Nat /\ stack[L].num = num /\ top \in 1 .. L
  BY UnderwayContext
<1>3. /\ CollisionItems(op, stack, e, next, h)
      /\ next \in Nat /\ h \in Nat /\ h < Len(data) /\ op.node < next /\ op.node \in NodeId
      /\ index.bits \subseteq DOMAIN index.entry
      /\ q \in index.bits
      /\ index.entry[q].leaf /\ index.entry[q].num = h
      /\ \A p \in index.bits :
           p[1] >= next => \E i \in 2 .. L : p = PlaceOf(stack[i]) /\ Made(index, stack[i])
      /\ \A i \in top + 1 .. L :
           /\ Made(index, stack[i])
           /\ PlaceOf(stack[i]) \in index.bits \/ (stack[i].skip /\ top = L - 1)
  BY CollisionContext
<1>4. /\ L >= 3 /\ e \in Key /\ e # k /\ c + L - 2 <= Depth - 1
      /\ \A j \in 0 .. (c + L - 2) - 1 : Digit[e][j] = Digit[k][j]
      /\ \A i \in 1 .. L - 2 :
           /\ stack[i].node = (IF i = 1 THEN op.node ELSE next + i - 2)
           /\ stack[i].slot = Digit[k][c + i - 1]
           /\ ~stack[i].leaf /\ stack[i].num = next + i - 1
      /\ stack[L - 1].node = next + L - 3 /\ stack[L - 1].slot = Digit[e][c + L - 2]
      /\ stack[L - 1].leaf /\ stack[L - 1].num = h
      /\ stack[L].node = next + L - 3 /\ stack[L].slot = Digit[k][c + L - 2]
      /\ stack[L].leaf
  <2>1. CollisionItems(op, stack, e, next, h)
    BY <1>3
  <2> HIDE DEF next, h, e
  <2>2. L >= 3 /\ e \in Key /\ e # k /\ c + L - 2 <= Depth - 1
    BY <2>1 DEF CollisionItems
  <2>2a. \A j \in 0 .. (c + L - 2) - 1 : Digit[e][j] = Digit[k][j]
    BY <2>1 DEF CollisionItems
  <2>3. ASSUME NEW i \in 1 .. L - 2
        PROVE  /\ stack[i].node = (IF i = 1 THEN op.node ELSE next + i - 2)
               /\ stack[i].slot = Digit[k][c + i - 1]
               /\ ~stack[i].leaf /\ stack[i].num = next + i - 1
    BY <2>1 DEF CollisionItems
  <2>4. /\ stack[L - 1].node = next + L - 3 /\ stack[L - 1].slot = Digit[e][c + L - 2]
        /\ stack[L - 1].leaf /\ stack[L - 1].num = h
        /\ stack[L].node = next + L - 3 /\ stack[L].slot = Digit[k][c + L - 2]
        /\ stack[L].leaf
    BY <2>1 DEF CollisionItems
  <2> QED BY <2>2, <2>2a, <2>3, <2>4
<1> HIDE DEF next, h, e, num, c, k
<1>5. \A i, j \in 1 .. L : i # j => PlaceOf(stack[i]) # PlaceOf(stack[j])
  <2>1. /\ CollisionItems(op, stack, e, next, h)
        /\ next \in Nat /\ op.node < next /\ op.node \in NodeId
    BY <1>3
  <2> QED BY <2>1, ItemPlaces
<1> HIDE DEF L, chain
<1>6. /\ chain \in Nat /\ L = chain + 3 /\ c \in Nat /\ Depth \in Nat
      /\ c + L - 2 = c + 1 + chain /\ next + L - 3 = next + chain
      /\ (c + L - 2) - 1 = c + chain
  BY <1>2, <1>3, <1>4, ConstantsAssumption DEF chain
<1>7. ASSUME NEW i \in 2 .. L
      PROVE  /\ PlaceOf(stack[i]) \in index'.bits
             /\ EntryAt(index', PlaceOf(stack[i])).leaf = stack[i].leaf
             /\ EntryAt(index', PlaceOf(stack[i])).num = stack[i].num
  <2>1. i \in top + 1 .. L /\ 1 # L - 1 /\ 1 \in 1 .. L /\ i \in 1 .. L /\ i # 1
    BY <1>4, <1>6
  <2>2. Made(index, stack[i]) /\ PlaceOf(stack[i]) \in index.bits
    BY <1>3, <2>1
  <2>3. PlaceOf(stack[i]) # q
    BY <1>5, <2>1
  <2>4. EntryAt(index', PlaceOf(stack[i])) = index.entry[PlaceOf(stack[i])]
    BY <1>1, <1>3, <2>2, <2>3 DEF EntryAt
  <2> QED BY <1>1, <2>2, <2>4 DEF Made
<1>8. /\ stack[1].node = op.node /\ stack[1].slot = Digit[k][c] /\ ~stack[1].leaf
  <2>1. 1 \in 1 .. L - 2 /\ c + 1 - 1 = c
    BY <1>6
  <2> QED BY <1>4, <2>1
<1>9. Redirected(index, index', q, next, h, num)
  <2>1. EntryAt(index, q) = index.entry[q]
    BY <1>3 DEF EntryAt
  <2>2. q[1] < next
    BY <1>3, <1>8 DEF PlaceOf
  <2>3. ASSUME NEW p \in index.bits, p[1] >= next
        PROVE  /\ EntryAt(index, p).leaf => EntryAt(index, p).num \in {h, num}
               /\ ~EntryAt(index, p).leaf => EntryAt(index, p).num >= next
    <3>1. PICK i \in 2 .. L : p = PlaceOf(stack[i]) /\ Made(index, stack[i])
      BY <1>3, <2>3
    <3>2. EntryAt(index, p).leaf = stack[i].leaf /\ EntryAt(index, p).num = stack[i].num
      BY <3>1 DEF Made, EntryAt
    <3>3. i = L \/ i = L - 1 \/ (i \in 1 .. L - 2 /\ i - 1 \in Nat /\ next + i - 1 = next + (i - 1))
      BY <1>3, <1>6
    <3>4. CASE i = L \/ i = L - 1
      BY <1>2, <1>4, <3>2, <3>4
    <3>5. CASE i \in 1 .. L - 2 /\ i - 1 \in Nat /\ next + i - 1 = next + (i - 1)
      <4>1. ~stack[i].leaf /\ stack[i].num = next + (i - 1)
        BY <1>4, <3>5
      <4>2. next + (i - 1) >= next
        BY <1>3, <3>5
      <4> QED BY <3>2, <4>1, <4>2
    <3> QED BY <3>3, <3>4, <3>5
  <2> QED BY <1>1, <1>2, <1>3, <1>8, <2>1, <2>2, <2>3 DEF Redirected
<1>10. ASSUME NEW i \in 0 .. chain
       PROVE  Digit[e][c + i] = Digit[k][c + i]
  <2>1. c + i \in 0 .. (c + L - 2) - 1
    BY <1>6
  <2> QED BY <1>4, <2>1
<1>11. ASSUME NEW i \in 0 .. chain - 1
       PROVE  LET p == <<next + i, Digit[k][c + 1 + i]>>
              IN p \in index'.bits /\ ~EntryAt(index', p).leaf
                 /\ EntryAt(index', p).num = next + i + 1
  <2>1. /\ i + 2 \in 1 .. L - 2 /\ i + 2 \in 2 .. L /\ i + 2 # 1
        /\ next + (i + 2) - 2 = next + i /\ next + (i + 2) - 1 = next + i + 1
        /\ c + (i + 2) - 1 = c + 1 + i
    BY <1>3, <1>6
  <2>2. /\ stack[i + 2].node = next + i /\ stack[i + 2].slot = Digit[k][c + 1 + i]
        /\ ~stack[i + 2].leaf /\ stack[i + 2].num = next + i + 1
    BY <1>4, <2>1
  <2> QED BY <1>7, <2>1, <2>2 DEF PlaceOf
<1>12. LET p == <<next + chain, Digit[k][c + 1 + chain]>>
       IN p \in index'.bits /\ EntryAt(index', p).leaf /\ EntryAt(index', p).num = num
  <2>1. L \in 2 .. L
    BY <1>6
  <2> QED BY <1>2, <1>4, <1>6, <1>7, <2>1 DEF PlaceOf
<1>13. LET p == <<next + chain, Digit[e][c + 1 + chain]>>
       IN p \in index'.bits /\ EntryAt(index', p).leaf /\ EntryAt(index', p).num = h
  <2>1. L - 1 \in 2 .. L
    BY <1>6
  <2> QED BY <1>4, <1>6, <1>7, <2>1 DEF PlaceOf
<1>14. q = <<op.node, Digit[k][c]>>
  BY <1>8 DEF PlaceOf
<1>15. /\ e \in Key /\ e # k /\ h \in Nat /\ h < Len(data) /\ data[h + 1].key = e
       /\ next \in Nat /\ chain \in Nat /\ c + 1 + chain <= Depth - 1
  BY <1>3, <1>4, <1>6 DEF e
<1> HIDE DEF q
<1>16. RedirectMade(q, e, next, h, chain)
  BY <1>9, <1>10, <1>11, <1>12, <1>13, <1>14, <1>15 DEF RedirectMade, Chained, num, c, k
<1> QED BY <1>16

\* The chain leads the keys that share it to their records.
LEMMA ChainLeads ==
  ASSUME NEW q, NEW e, NEW next, NEW h, NEW chain, RedirectMade(q, e, next, h, chain),
         op.key \in Key, op.depth \in 0 .. Depth - 1
  PROVE  /\ At(index, op.key, op.depth) = q => Leads(index', op.key, Len(data) - 1)
         /\ At(index, e, op.depth) = q => Leads(index', e, h)
<1> DEFINE c == op.depth
           m == c + 1 + chain
           num == Len(data) - 1
<1>1. /\ Redirected(index, index', q, next, h, num)
      /\ e \in Key /\ next \in Nat /\ chain \in Nat /\ m <= Depth - 1
      /\ \A i \in 0 .. chain : Digit[e][c + i] = Digit[op.key][c + i]
      /\ Chained(index', op.key, c, next, chain)
      /\ LET p == <<next + chain, Digit[op.key][m]>>
         IN p \in index'.bits /\ EntryAt(index', p).leaf /\ EntryAt(index', p).num = num
      /\ LET p == <<next + chain, Digit[e][m]>>
         IN p \in index'.bits /\ EntryAt(index', p).leaf /\ EntryAt(index', p).num = h
  BY DEF RedirectMade
<1>2. IndexOK(index') /\ Depth \in Nat /\ c \in Nat /\ m \in 0 .. Depth - 1 /\ c + 1 <= Depth - 1
  <2>1. Depth \in Nat /\ c \in Nat
    BY ConstantsAssumption
  <2>2. IndexOK(index')
    BY <1>1 DEF Redirected
  <2> HIDE DEF c
  <2> QED BY <1>1, <2>1, <2>2
<1> HIDE DEF num, c
<1>3. ASSUME NEW k \in Key, At(index, k, c) = q,
             \A i \in 0 .. chain - 1 : Digit[k][c + 1 + i] = Digit[op.key][c + 1 + i]
      PROVE  At(index', k, m) = <<next + chain, Digit[k][m]>>
  <2>1. c \in 0 .. Depth - 1
    BY <1>2
  <2>2. Trail(index', k)[c + 1] = next
    BY <1>1, <1>2, <1>3, <2>1, RedirectedHere
  <2>3. Chained(index', k, c, next, chain)
    BY <1>1, <1>3 DEF Chained
  <2>4. Trail(index', k)[m] = next + chain
    BY <1>1, <1>2, <2>2, <2>3, ChainFollowed
  <2> QED BY <2>4 DEF At
<1>4. ASSUME At(index, op.key, c) = q PROVE Leads(index', op.key, num)
  <2>1. At(index', op.key, m) = <<next + chain, Digit[op.key][m]>>
    BY <1>3, <1>4 DEF c
  <2> QED BY <1>1, <1>2, <2>1 DEF Leads
<1>5. ASSUME At(index, e, c) = q PROVE Leads(index', e, h)
  <2>1. \A i \in 0 .. chain - 1 : Digit[e][c + 1 + i] = Digit[op.key][c + 1 + i]
    <3>1. ASSUME NEW i \in 0 .. chain - 1
          PROVE  Digit[e][c + 1 + i] = Digit[op.key][c + 1 + i]
      <4>1. 1 + i \in 0 .. chain /\ c + (1 + i) = c + 1 + i
        BY <1>1, <1>2
      <4> QED BY <1>1, <4>1
    <3> QED BY <3>1
  <2>2. At(index', e, m) = <<next + chain, Digit[e][m]>>
    BY <1>1, <1>3, <1>5, <2>1
  <2> QED BY <1>1, <1>2, <2>2 DEF Leads
<1> QED BY <1>4, <1>5 DEF c, num

\* The last write of update_after_collision.
LEMMA RedirectWritten ==
  ASSUME IInv, IInv', MInv, WriteEntry, CollisionUnderway, top = 1
  PROVE  MInv' /\ OneMoreFound
<1> DEFINE num == Len(data) - 1
           k == op.key
           c == op.depth
<1>1. PICK q, e, next, h, chain : RedirectMade(q, e, next, h, chain)
  BY RedirectContext
<1>2. /\ Redirected(index, index', q, next, h, num) /\ q = <<op.node, Digit[k][c]>>
      /\ e \in Key /\ e # k /\ h \in Nat /\ h < Len(data) /\ data[h + 1].key = e
  BY <1>1 DEF RedirectMade
<1>3. /\ op # NoOp /\ k \in Key /\ c \in 0 .. Depth - 1 /\ op.node \in NodeId
      /\ IndexOK(index) /\ Sound(index, data) /\ data \in Seq(Record)
      /\ Len(data) > 0 /\ data[Len(data)] = [key |-> k, value |-> op.value]
      /\ Trail(index, k)[c] = op.node /\ op.node # Nowhere
      /\ index.owner[op.node].depth = c
  BY UnderwayContext
<1>4. /\ mode = "open" /\ diskIndex' = index
      /\ UNCHANGED <<data, diskData, saved, mode, stack>>
      /\ top' = 0 /\ op' = NoOp
      /\ reply' = [kind |-> op.kind, key |-> k, value |-> op.value, result |-> "ok"]
  <2>1. stack[1].skip
    <3>1. CollisionItems(op, stack, data[stack[Len(stack) - 1].num + 1].key, stack[1].num,
                         stack[Len(stack) - 1].num)
      BY SMTT(30) DEF CollisionUnderway
    <3>2. Len(stack) \in Nat /\ Len(stack) >= 3
      BY ZenonT(60), <3>1 DEF CollisionItems
    <3>3. 1 \in 1 .. Len(stack) - 2
      BY <3>2
    <3> QED BY ZenonT(60), <3>1, <3>3 DEF CollisionItems
  <2>2. top' = 0 /\ Answer("ok")
    BY <2>1, EntryWritten
  <2> QED BY SMTT(30), <2>2, EntryWritten DEF Answer
<1>5. /\ At(index, k, c) = q => Leads(index', k, num)
      /\ At(index, e, c) = q => Leads(index', e, h)
  BY <1>1, <1>3, ChainLeads
<1>6. At(index, k, c) = q
  BY <1>2, <1>3 DEF At
<1>7. num \in Nat /\ num < Len(data) /\ data[num + 1].key = k /\ data[num + 1].value = op.value
  BY <1>3
<1> HIDE DEF num, k, c
<1>8. ASSUME NEW x \in Key, NEW d \in 0 .. Depth - 1, At(index, x, d) = q
      PROVE  /\ d = c /\ Leads(index, x, h)
             /\ \A i : Leads(index', x, i) => i \in {h, num}
             /\ \A i : Leads(index, x, i) => i = h
  <2>1. Trail(index, x)[d] = op.node
    BY <1>2, <1>8 DEF At
  <2>2. d = c
    BY <1>3, <2>1, TrailSound
  <2>3. Leads(index, x, h) /\ \A i : Leads(index', x, i) => i \in {h, num}
    BY <1>2, <1>8, RedirectedHere
  <2> QED BY <1>3, <2>2, <2>3, LeadsOnce
<1>9. ASSUME NEW i PROVE i \notin Found(index, data, k)
  <2>1. Leads(index, k, i) => i = h
    BY <1>3, <1>6, <1>8
  <2> QED BY <1>2, <2>1, FoundIff
<1>10. num \in Found(index', data, k)
  BY <1>5, <1>6, <1>7, FoundIff
<1>11. ASSUME NEW x \in Key \ {k}, NEW i
       PROVE  i \in Found(index', data, x) <=> i \in Found(index, data, x)
  <2>1. CASE \E d \in 0 .. Depth - 1 : At(index, x, d) = q
    <3>1. PICK d \in 0 .. Depth - 1 : At(index, x, d) = q
      BY <2>1
    <3>2. /\ At(index, x, c) = q /\ Leads(index, x, h)
          /\ Leads(index', x, i) => i \in {h, num}
          /\ Leads(index, x, i) => i = h
      BY <1>8, <3>1
    <3>3. x = e => Leads(index', x, h)
      BY <1>5, <3>2
    <3>4. i \in Found(index', data, x) => i = h /\ x = e
      BY <1>2, <1>7, <3>2, FoundIff
    <3>5. i \in Found(index, data, x) => i = h /\ x = e
      BY <1>2, <3>2, FoundIff
    <3> QED BY <1>2, <3>2, <3>3, <3>4, <3>5, FoundIff
  <2>2. CASE \A d \in 0 .. Depth - 1 : At(index, x, d) # q
    <3>1. Leads(index', x, i) <=> Leads(index, x, i)
      BY <1>2, <2>2, RedirectedElsewhere
    <3> QED BY <3>1, FoundIff
  <2> QED BY <2>1, <2>2
<1>12. OneMoreFound
  BY <1>4, <1>7, <1>9, <1>10, <1>11 DEF OneMoreFound, num, k
<1>13. \A x \in Key : \A i \in Found(index, data, x) : i \in Found(index', data, x)
  BY <1>9, <1>11
<1>14. FilesInv'
  <2>1. top > 0
    OBVIOUS
  <2> QED BY <1>4, <1>13, <2>1, FilesAfterWrite
<1> QED BY <1>4, <1>12, <1>14 DEF MInv, Underway, OnTrail

\* A write of an insertion under way.
LEMMA WriteMap ==
  ASSUME IInv, IInv', MInv, WriteEntry \/ WriteBitmap
  PROVE  MInv' /\ (NothingFound \/ OneMoreFound)
<1>1. top > 0
  BY DEF WriteEntry, WriteBitmap
<1>2. NewEntryUnderway \/ CollisionUnderway
  BY <1>1 DEF MInv, Underway
<1> QED BY <1>2, NewEntryWritten, NewBitWritten, HiddenEntryWritten, HiddenBitmapWritten, RedirectWritten

\* What is known of the map and the files holds initially, and every step
\* preserves it.
LEMMA InitMap == Init => MInv
BY DEF Init, MInv, Underway, OnTrail, FilesInv, Looking

\* Each action in turn.
LEMMA StepMap == IInv /\ MInv /\ [Next]_vars => MInv'
<1> SUFFICES ASSUME IInv, MInv, [Next]_vars PROVE MInv'
  OBVIOUS
<1>1. IInv'
  BY StepOK
<1>2. CASE \/ Open \/ CloseData \/ CloseIndex \/ Save \/ Reset
           \/ Fail \/ Kill \/ UNCHANGED vars
  BY <1>2, QuietMap
<1>3. CASE \E k \in Key :
             \/ Begin("lookup", k, "none")
             \/ \E kind \in {"insert", "check"}, v \in Value : Begin(kind, k, v)
  <2>1. ASSUME NEW k \in Key, Begin("lookup", k, "none") PROVE MInv'
    BY <2>1, BeginMap
  <2>2. ASSUME NEW k \in Key, NEW kind \in {"insert", "check"}, NEW v \in Value,
               Begin(kind, k, v)
        PROVE  MInv'
    BY <2>2, BeginMap
  <2> QED BY <1>3, <2>1, <2>2
<1>4. CASE Descend
  BY <1>4, DescendMap
<1>5. CASE FoundMapped \/ LookupAbsent
  BY <1>5, AnswerMap
<1>6. CASE InsertNew
  BY <1>1, <1>6, InsertNewMap
<1>7. CASE InsertCollision
  BY <1>1, <1>7, InsertCollisionMap
<1>8. CASE WriteEntry \/ WriteBitmap
  BY <1>1, <1>8, WriteMap
<1> QED BY <1>2, <1>3, <1>4, <1>5, <1>6, <1>7, <1>8 DEF Next, Process

\* The inductive invariant behind the map: what a stack of updates under way
\* has made, how far a lookup has come, and how far the files lag behind.
THEOREM MapInvariance == Spec => [](IInv /\ MInv)
<1>1. Init => IInv /\ MInv
  BY InitOK, InitMap
<1>2. IInv /\ MInv /\ [Next]_vars => (IInv /\ MInv)'
  BY StepOK, StepMap
<1> QED BY <1>1, <1>2, PTL DEF Spec

\* The number that a lookup arrives at is a number.
LEMMA LeadsNat ==
  ASSUME NEW idx, IndexOK(idx), NEW k, NEW i, Leads(idx, k, i)
  PROVE  i \in Nat
BY DEF Leads, IndexOK, Entry, EntryAt

\* What the files hold, whichever of the two streams is flushed.
LEMMA FilesMap ==
  ASSUME IInv, MInv, mode \in {"open", "closing"},
         NEW idx \in {diskIndex, index}, NEW dat \in {diskData, data}
  PROVE  Within(MapOf(diskIndex, diskData), MapOf(idx, dat))
<1>1. /\ IndexOK(index) /\ IndexOK(diskIndex) /\ data \in Seq(Record) /\ diskData \in Seq(Record)
      /\ IsPrefixOf(diskData, data)
      /\ \A k \in Key : Found(diskIndex, data, k) \subseteq Found(index, data, k)
  BY DEF IInv, TypeOK, MInv, FilesInv
<1>2. ASSUME NEW k \in Key, NEW i \in Found(diskIndex, diskData, k)
      PROVE  i \in Found(idx, dat, k) /\ dat[i + 1].value = diskData[i + 1].value
  <2>1. Leads(diskIndex, k, i) /\ i < Len(diskData) /\ diskData[i + 1].key = k
    BY <1>2, FoundIff
  <2>2. i \in Nat /\ Len(diskData) \in Nat /\ Len(data) \in Nat
    BY <1>1, <2>1, LeadsNat
  <2>3. i < Len(data) /\ data[i + 1] = diskData[i + 1]
    BY <1>1, <2>1, <2>2 DEF IsPrefixOf
  <2>4. Leads(index, k, i)
    <3>1. i \in Found(diskIndex, data, k)
      BY <2>1, <2>3, FoundIff
    <3>2. i \in Found(index, data, k)
      BY <1>1, <3>1
    <3> QED BY <3>2, FoundIff
  <2>5. Leads(idx, k, i) /\ i < Len(dat) /\ dat[i + 1] = diskData[i + 1]
    BY <2>1, <2>3, <2>4
  <2> QED BY <2>1, <2>5, FoundIff
<1> QED BY <1>1, <1>2, WithinMap

\* What another process reads from the files while one writes them is among
\* the mappings that this one sees.
THEOREM FilesLagBehindAlways == Spec => []FilesLagBehind
<1>1. IInv /\ MInv => FilesLagBehind
  BY FilesMap DEF FilesLagBehind
<1> QED BY <1>1, MapInvariance, PTL

\* Whatever write reaches the files, the mappings they held are still found
\* in them, for keys of any length, any layout of the bitmaps and any earlier
\* insertion that was given up half-way; a reset of the worktree is the only
\* step that takes mappings away.
THEOREM NoSemanticChangeAlways == Spec => NoSemanticChange
<1>1. IInv /\ MInv /\ [Next]_vars =>
        [ Reset \/ Within(MapOf(diskIndex, diskData), MapOf(diskIndex', diskData')) ]_files
  <2> SUFFICES ASSUME IInv, MInv, [Next]_vars, ~Reset, ~UNCHANGED files
               PROVE  Within(MapOf(diskIndex, diskData), MapOf(diskIndex', diskData'))
    OBVIOUS
  <2>1. /\ mode \in {"open", "closing"}
        /\ diskIndex' \in {diskIndex, index} /\ diskData' \in {diskData, data}
    <3>1. CASE CloseData \/ CloseIndex \/ Fail
      BY <3>1 DEF CloseData, CloseIndex, Fail, FlushData, FlushIndex
    <3>2. CASE Open \/ Save \/ Kill \/ Descend \/ UNCHANGED vars
      BY <3>2 DEF Open, Save, Kill, Descend, vars, files
    <3>3. CASE FoundMapped \/ LookupAbsent
      BY <3>3 DEF FoundMapped, LookupAbsent, FlushData, Looking
    <3>4. CASE InsertNew \/ InsertCollision
      BY <3>4 DEF InsertNew, InsertCollision, AppendRecord, FlushData, Looking
    <3>5. CASE WriteEntry \/ WriteBitmap
      BY <3>5 DEF WriteEntry, WriteBitmap, FlushIndex
    <3>6. ASSUME NEW kind, NEW k, NEW v, Begin(kind, k, v)
          PROVE  /\ mode \in {"open", "closing"}
                 /\ diskIndex' \in {diskIndex, index} /\ diskData' \in {diskData, data}
      BY <3>6 DEF Begin, FlushIndex
    <3> QED BY <3>1, <3>2, <3>3, <3>4, <3>5, <3>6 DEF Next, Process
  <2> QED BY <2>1, FilesMap
<1> QED BY <1>1, MapInvariance, PTL DEF Spec, NoSemanticChange

-----------------------------------------------------------------------------
(***************************************************************************)
(* The table implements the write-once map of CommitMap.                   *)
(***************************************************************************)
\* The map that CommitMap is about, and the saved one.
MapSeen  == IF mode = "dead" THEN MapOf(saved.index, saved.data) ELSE MapOf(index, data)
MapSaved == MapOf(saved.index, saved.data)

\* A lookup that ends at the key's record ends at its mapping.
LEMMA HitIsMapping ==
  ASSUME IInv, MInv, Looking, Hit, Readable, HitKey = op.key
  PROVE  op.key \in DOMAIN MapSeen /\ MapSeen[op.key] = HitValue
<1>1. /\ op.key \in Key /\ op.depth \in 0 .. Depth - 1 /\ IndexOK(index)
      /\ Trail(index, op.key)[op.depth] = op.node /\ mode = "open"
  BY DEF IInv, TypeOK, MInv, OnTrail, Looking
<1>2. At(index, op.key, op.depth) = Place
  BY <1>1 DEF At, Place
<1>3. Leads(index, op.key, HitNum)
  BY <1>1, <1>2 DEF Leads, Hit, BitSet, HitNum
<1>4. HitNum \in Found(index, data, op.key)
  BY <1>3, FoundIff DEF Readable, HitKey
<1>5. MapSeen = MapOf(index, data)
  BY <1>1 DEF MapSeen
<1> QED BY <1>1, <1>4, <1>5, MapOfIs DEF HitValue

\* A lookup that ends without the key's record: the key is not mapped.
LEMMA MissIsNoMapping ==
  ASSUME IInv, MInv, Looking, ~BitSet \/ (Hit /\ Readable /\ HitKey # op.key)
  PROVE  op.key \notin DOMAIN MapSeen
<1>1. /\ op.key \in Key /\ op.depth \in 0 .. Depth - 1 /\ IndexOK(index)
      /\ Trail(index, op.key)[op.depth] = op.node /\ mode = "open" /\ op.node # Nowhere
  BY DEF IInv, TypeOK, MInv, OnTrail, Looking, NodeId, Root, Nowhere
<1>2. At(index, op.key, op.depth) = Place
  BY <1>1 DEF At, Place
<1>3. ASSUME NEW i \in Found(index, data, op.key) PROVE FALSE
  <2>1. Leads(index, op.key, i) /\ data[i + 1].key = op.key
    BY <1>3, FoundIff
  <2>2. CASE ~BitSet
    BY <1>1, <1>2, <2>1, <2>2, UnsetLeadsNowhere DEF BitSet
  <2>3. CASE Hit /\ HitKey # op.key
    <3>1. Leads(index, op.key, HitNum)
      BY <1>1, <1>2, <2>3 DEF Leads, Hit, BitSet, HitNum
    <3>2. i = HitNum
      BY <1>1, <2>1, <3>1, LeadsOnce
    <3> QED BY <2>1, <2>3, <3>2 DEF HitKey
  <2> QED BY <2>2, <2>3
<1>4. MapSeen = MapOf(index, data)
  BY <1>1 DEF MapSeen
<1> QED BY <1>1, <1>3, <1>4, MapOfIs

\* The answer to a lookup, a refused insertion and a check.
LEMMA AnswerImplements ==
  ASSUME IInv, MInv, FoundMapped \/ LookupAbsent
  PROVE  Map!Next
<1> DEFINE k == op.key
           v == op.value
<1>1. /\ Looking /\ mode = "open" /\ op # NoOp /\ k \in Key
      /\ UNCHANGED <<index, data, saved>> /\ mode' # "dead"
  BY DEF FoundMapped, LookupAbsent, AnswerAndGoOn, Looking, streams, IInv, TypeOK
<1>2. \/ op.kind = "lookup" /\ v = "none"
      \/ op.kind \in {"insert", "check"} /\ v \in Value
  BY <1>1 DEF IInv, TypeOK
<1>3. MapSeen' = MapSeen /\ MapSaved' = MapSaved
  BY <1>1 DEF MapSeen, MapSaved
<1>4. CASE LookupAbsent
  <2>1. k \notin DOMAIN MapSeen
    BY <1>4, MissIsNoMapping DEF LookupAbsent
  <2>2. op.kind = "lookup"
        /\ reply' = [kind |-> op.kind, key |-> k, value |-> v, result |-> "absent"]
    BY <1>4 DEF LookupAbsent, AnswerAndGoOn, Answer
  <2>3. Map!Lookup(k)
    BY <1>2, <1>3, <2>1, <2>2 DEF Map!Lookup, Map!Reply, MapSeen, MapSaved
  <2> QED BY <1>1, <2>3 DEF Map!Next
<1>5. CASE FoundMapped
  <2>1. k \in DOMAIN MapSeen /\ MapSeen[k] = HitValue
    BY <1>5, HitIsMapping DEF FoundMapped
  <2>2. CASE op.kind = "lookup"
    <3>1. reply' = [kind |-> op.kind, key |-> k, value |-> v, result |-> HitValue]
      BY <1>5, <2>2 DEF FoundMapped, AnswerAndGoOn, Answer
    <3>2. Map!Lookup(k)
      BY <1>2, <1>3, <2>1, <2>2, <3>1 DEF Map!Lookup, Map!Reply, MapSeen, MapSaved
    <3> QED BY <1>1, <3>2 DEF Map!Next
  <2>3. CASE op.kind = "insert"
    <3>1. reply' = [kind |-> op.kind, key |-> k, value |-> v, result |-> "already mapped"]
      BY <1>5, <2>3 DEF FoundMapped, AnswerAndGoOn, Answer
    <3>2. Map!Refuse(k, v)
      BY <1>3, <2>1, <2>3, <3>1 DEF Map!Refuse, Map!Reply, MapSeen, MapSaved
    <3> QED BY <1>1, <1>2, <2>3, <3>2 DEF Map!Next
  <2>4. CASE op.kind = "check"
    <3>1. reply' = [kind |-> op.kind, key |-> k, value |-> v,
                    result |-> IF HitValue = v THEN "ok" ELSE "mismatch"]
      BY <1>5, <2>4 DEF FoundMapped, AnswerAndGoOn, Answer
    <3>2. Map!Check(k, v)
      BY <1>3, <2>1, <2>4, <3>1 DEF Map!Check, Map!Reply, MapSeen, MapSaved
    <3> QED BY <1>1, <1>2, <2>4, <3>2 DEF Map!Next
  <2> QED BY <1>2, <2>2, <2>3, <2>4
<1> QED BY <1>4, <1>5

\* An insertion begins: the map is what it was.
LEMMA InsertImplements ==
  ASSUME IInv, IInv', MInv, InsertNew \/ InsertCollision
  PROVE  UNCHANGED Map!vars
<1>1. /\ mode = "open" /\ op # NoOp /\ op.kind # "lookup"
      /\ data' = Append(data, [key |-> op.key, value |-> op.value])
      /\ UNCHANGED <<saved, mode, reply>>
  BY DEF InsertNew, InsertCollision, AppendRecord, Looking
<1>2. \A k \in Key : \A i : i \in Found(index', data', k) <=> i \in Found(index, data, k)
  BY InsertNewMap, InsertCollisionMap
<1>3. IndexOK(index) /\ IndexOK(index') /\ data \in Seq(Record)
      /\ [key |-> op.key, value |-> op.value] \in Record
  BY <1>1 DEF IInv, TypeOK, Record
<1>4. ASSUME NEW k \in Key, NEW i \in Found(index, data, k)
      PROVE  data'[i + 1].value = data[i + 1].value
  <2>1. i \in Nat /\ i < Len(data)
    BY <1>3, <1>4, FoundIff, LeadsNat
  <2> QED BY <1>1, <1>3, <2>1
<1>5. MapOf(index', data') = MapOf(index, data)
  BY <1>2, <1>3, <1>4, SameMap
<1> QED BY <1>1, <1>5 DEF Map!vars

\* The last write of an insertion is when it takes effect.
LEMMA WriteImplements ==
  ASSUME IInv, IInv', MInv, WriteEntry \/ WriteBitmap
  PROVE  Map!Next \/ UNCHANGED Map!vars
<1>1. top > 0
  BY DEF WriteEntry, WriteBitmap
<1>2. /\ op.key \in Key /\ op.kind \in {"insert", "check"} /\ op.value \in Value
      /\ IndexOK(index) /\ IndexOK(index') /\ mode = "open"
  <2>1. op \in [kind : {"insert", "check"}, key : Key, value : Value,
                node : NodeId, depth : 0 .. Depth - 1]
    BY <1>1, UnderwayContext
  <2> QED BY <1>1, <2>1, UnderwayContext DEF IInv, TypeOK
<1>3. CASE NothingFound
  <2>1. MapOf(index', data) = MapOf(index, data)
    BY <1>2, <1>3, SameMap DEF NothingFound
  <2> QED BY <1>3, <2>1 DEF NothingFound, Map!vars
<1>4. CASE OneMoreFound
  <2>1. /\ op.key \notin DOMAIN MapOf(index, data)
        /\ MapOf(index', data) = [x \in DOMAIN MapOf(index, data) \cup {op.key} |->
                                    IF x = op.key THEN op.value ELSE MapOf(index, data)[x]]
    <3> DEFINE num == Len(data) - 1
    <3>1. /\ \A k \in Key \ {op.key} :
               \A i : i \in Found(index', data, k) <=> i \in Found(index, data, k)
          /\ \A i : i \notin Found(index, data, op.key)
          /\ num \in Found(index', data, op.key) /\ data[num + 1].value = op.value
      BY <1>4 DEF OneMoreFound
    <3> HIDE DEF num
    <3> QED BY SMTT(30), <1>2, <3>1, ExtendedMap
  <2>2. MapSeen = MapOf(index, data) /\ MapSeen' = MapOf(index', data) /\ MapSaved' = MapSaved
    BY <1>2, <1>4 DEF OneMoreFound, MapSeen, MapSaved
  <2>3. reply' = [kind |-> op.kind, key |-> op.key, value |-> op.value, result |-> "ok"]
    BY <1>4 DEF OneMoreFound
  <2>4. Map!Insert(op.kind, op.key, op.value)
    BY <2>1, <2>2, <2>3 DEF Map!Insert, Map!Extend, Map!Reply, MapSeen, MapSaved
  <2> QED BY <1>2, <2>4 DEF Map!Next
<1> QED BY <1>3, <1>4, WriteMap

\* The ends of processes and the versions of the database.
LEMMA VersionImplements ==
  ASSUME IInv, \/ Open \/ CloseData \/ CloseIndex \/ Save \/ Reset
               \/ Fail \/ Kill \/ UNCHANGED vars
  PROVE  Map!Next \/ UNCHANGED Map!vars
<1>1. CASE Open
  <2>1. mode = "closed" /\ mode' = "open" /\ data' = data /\ index' = index
        /\ UNCHANGED <<saved, reply>>
    BY <1>1 DEF Open, IInv, ModesOK
  <2> QED BY <2>1 DEF Map!vars
<1>2. CASE CloseData \/ CloseIndex \/ Fail \/ UNCHANGED vars
  <2>1. UNCHANGED <<data, index, saved, reply>> /\ (mode' = "dead" <=> mode = "dead")
    BY <1>2 DEF CloseData, CloseIndex, Fail, vars, streams
  <2> QED BY <2>1 DEF Map!vars
<1>3. CASE Kill
  <2>1. mode' = "dead" /\ UNCHANGED <<saved, reply>>
    BY <1>3 DEF Kill
  <2>2. Map!Revert
    BY <2>1 DEF Map!Revert
  <2> QED BY <2>2 DEF Map!Next
<1>4. CASE Save
  <2>1. mode = "closed" /\ UNCHANGED <<mode, data, index, reply>>
        /\ saved'.data = data /\ saved'.index = index
    BY <1>4 DEF Save, streams, IInv, ModesOK
  <2>2. Map!Save
    BY <2>1 DEF Map!Save
  <2> QED BY <2>2 DEF Map!Next
<1>5. CASE Reset
  <2>1. mode' = "closed" /\ data' = saved.data /\ index' = saved.index
        /\ UNCHANGED <<saved, reply>>
    BY <1>5 DEF Reset
  <2>2. Map!Revert
    BY <2>1 DEF Map!Revert
  <2> QED BY <2>2 DEF Map!Next
<1> QED BY <1>1, <1>2, <1>3, <1>4, <1>5

\* Initial states are mapped to the initial state of CommitMap.
LEMMA InitImplements == Init => Map!Init
<1> SUFFICES ASSUME Init PROVE Map!Init
  OBVIOUS
<1>1. /\ mode # "dead" /\ index = EmptyIndex /\ data = <<>>
      /\ saved.index = EmptyIndex /\ saved.data = <<>> /\ reply = NoReply
  BY DEF Init
<1>2. \A k \in Key : Found(EmptyIndex, <<>>, k) = {}
  BY DEF Found, EmptyIndex
<1>3. MapOf(EmptyIndex, <<>>) = [k \in {} |-> 0]
  <2> DEFINE found == [k \in Key |-> Found(EmptyIndex, <<>>, k)]
  <2>1. {k \in Key : found[k] # {}} = {}
    BY <1>2
  <2> QED BY <2>1 DEF MapOf
<1> QED BY <1>1, <1>3 DEF Map!Init, Map!Reply, NoReply

\* Every step is a step of CommitMap, or changes nothing there.
LEMMA StepImplements ==
  IInv /\ MInv /\ [Next]_vars => [Map!Next]_(Map!vars)
<1> SUFFICES ASSUME IInv, MInv, [Next]_vars PROVE Map!Next \/ UNCHANGED Map!vars
  OBVIOUS
<1>1. IInv'
  BY StepOK
<1>2. CASE \/ Open \/ CloseData \/ CloseIndex \/ Save \/ Reset
           \/ Fail \/ Kill \/ UNCHANGED vars
  BY <1>2, VersionImplements
<1>3. ASSUME NEW kind, NEW k, NEW v, Begin(kind, k, v) PROVE Map!Next
  <2>1. reply' = NoReply /\ UNCHANGED <<mode, index, data, saved>>
    BY <1>3 DEF Begin, streams
  <2>2. Map!Call
    BY <2>1 DEF Map!Call, Map!Reply, NoReply
  <2> QED BY <2>2 DEF Map!Next
<1>4. CASE Descend
  <2>1. UNCHANGED <<mode, index, data, saved, reply>>
    BY <1>4 DEF Descend, streams
  <2> QED BY <2>1 DEF Map!vars
<1>5. CASE FoundMapped \/ LookupAbsent
  BY <1>5, AnswerImplements
<1>6. CASE InsertNew \/ InsertCollision
  BY <1>1, <1>6, InsertImplements
<1>7. CASE WriteEntry \/ WriteBitmap
  BY <1>1, <1>7, WriteImplements
<1> QED BY <1>2, <1>3, <1>4, <1>5, <1>6, <1>7 DEF Next, Process

\* The table on disk, with its two buffered files, its trie that is updated
\* one write at a time and processes that fail or are killed at any write, is
\* the write-once map of CommitMap.
THEOREM TableImplementsMap == Spec => ImplementsMap
<1>1. Init => Map!Init
  BY InitImplements
<1>2. IInv /\ MInv /\ [Next]_vars => [Map!Next]_(Map!vars)
  BY StepImplements
<1> QED BY <1>1, <1>2, MapInvariance, PTL DEF Spec, ImplementsMap, Map!Spec
=============================================================================
