---------------------------- MODULE Sha1Trie_proofs ----------------------------
(***************************************************************************)
(* Theorems about Sha1Trie, for any names, width and bits per level that   *)
(* tell the names apart: a name has one entry, for ever.  The argument is  *)
(* the shape of the trie: every entry hangs from a slot that its name      *)
(* leads to, all slots above that one on the name's path hold subtries,    *)
(* and an insertion changes no slot on the path of another entry but the   *)
(* one that it finds taken.                                                *)
(***************************************************************************)
EXTENDS Sha1Trie, TLAPS, NaturalsInduction, WellFoundedInduction

-----------------------------------------------------------------------------
(***************************************************************************)
(* The inductive invariant.                                                *)
(***************************************************************************)
\* The slot that the first l bits of a name lead to.
Prefix(n, l) == SubSeq(n, 1, l)

\* Entry e hangs from its slot of length l, below subtries.
HangsAt(e, l) ==
  /\ Prefix(entries[e], l) \in DOMAIN slot /\ slot[Prefix(entries[e], l)] = e
  /\ \A k \in Lengths : k < l => IsSubtrie(Prefix(entries[e], k))

\* A slot holds an entry whose name leads to it, or a subtrie that is not the
\* last one on a path.
SlotSound(s) ==
  /\ Len(s) \in Lengths /\ slot[s] \in 0 .. Len(entries)
  /\ slot[s] # Sub => Prefix(entries[slot[s]], Len(s)) = s
  /\ slot[s] = Sub => \E k \in Lengths : k > Len(s)

ReplySound ==
  /\ reply.entry \in 0 .. Len(entries)
  /\ reply.entry # 0 => entries[reply.entry] = reply.name

IInv ==
  /\ entries \in Seq(Name)
  /\ \A s \in DOMAIN slot : SlotSound(s)
  /\ \A e \in 1 .. Len(entries) : \E l \in Lengths : HangsAt(e, l)
  /\ ReplySound

-----------------------------------------------------------------------------
(***************************************************************************)
(* Numbers and names.                                                      *)
(***************************************************************************)
NatLess == {ss \in Nat \X Nat : ss[1] < ss[2]}

LEMMA NatLessWellFounded == IsWellFoundedOn(NatLess, Nat)
BY NatLessThanWellFounded DEF OpToRel, NatLess

LEMMA SmallestNat ==
  ASSUME NEW T, T \subseteq Nat, T # {}
  PROVE  \E m \in T : \A n \in T : m <= n
<1>1. PICK m \in T : \A n \in T : <<n, m>> \notin NatLess
  BY NatLessWellFounded, WFMin
<1>2. ASSUME NEW n \in T PROVE m <= n
  <2>1. <<n, m>> \in Nat \X Nat
    OBVIOUS
  <2>2. ~ (<<n, m>>[1] < <<n, m>>[2])
    BY <1>1, <2>1 DEF NatLess
  <2> QED BY <2>2
<1> QED BY <1>2

LEMMA LengthsType ==
  ASSUME TrieAssumption
  PROVE  Lengths \subseteq 1 .. Width /\ Lengths \subseteq Nat /\ Width \in Nat
<1>1. Width \in Nat /\ Lengths \subseteq 1 .. Width
  BY DEF TrieAssumption, Lengths
<1>2. 1 .. Width \subseteq Nat
  BY <1>1
<1> QED
  BY <1>1, <1>2

LEMMA PrefixElements ==
  ASSUME TrieAssumption, NEW n \in Name, NEW l \in 0 .. Width
  PROVE  /\ Len(Prefix(n, l)) = l
         /\ \A i \in 1 .. l : Prefix(n, l)[i] = n[i]
<1>1. n \in Seq({0, 1}) /\ Len(n) = Width
  BY DEF TrieAssumption
<1> QED
  BY <1>1 DEF Prefix, TrieAssumption

LEMMA PrefixEqual ==
  ASSUME TrieAssumption, NEW m \in Name, NEW n \in Name, NEW l \in 0 .. Width
  PROVE  Prefix(m, l) = Prefix(n, l) <=> \A i \in 1 .. l : m[i] = n[i]
<1>1. m \in Seq({0, 1}) /\ Len(m) = Width /\ n \in Seq({0, 1}) /\ Len(n) = Width
  BY DEF TrieAssumption
<1>2. Prefix(m, l) \in Seq({0, 1}) /\ Prefix(n, l) \in Seq({0, 1})
  BY <1>1 DEF Prefix, TrieAssumption
<1> QED
  BY <1>2, PrefixElements

\* Shorter prefixes of names that agree agree.
LEMMA PrefixShorter ==
  ASSUME TrieAssumption, NEW m \in Name, NEW n \in Name, NEW l \in 0 .. Width, NEW k \in 0 .. l,
         Prefix(m, l) = Prefix(n, l)
  PROVE  Prefix(m, k) = Prefix(n, k)
<1>1. k \in 0 .. Width /\ \A i \in 1 .. k : i \in 1 .. l
  BY DEF TrieAssumption
<1> QED
  BY <1>1, PrefixEqual

\* get_mismatched_bit: prefixes of two names differ from that bit on.
LEMMA MismatchProperties ==
  ASSUME TrieAssumption, NEW m \in Name, NEW n \in Name, m # n
  PROVE  /\ Mismatch(m, n) \in 1 .. Width
         /\ \A l \in 0 .. Width : Prefix(m, l) = Prefix(n, l) <=> l < Mismatch(m, n)
<1> DEFINE T == {i \in 1 .. Width : m[i] # n[i]}
<1>0. Width \in Nat /\ m \in [1 .. Width -> {0, 1}] /\ n \in [1 .. Width -> {0, 1}]
  BY DEF TrieAssumption
<1>1. PICK i \in T : \A j \in T : i <= j
  <2>1. T \subseteq Nat /\ T # {}
    BY <1>0
  <2> QED
    BY <2>1, SmallestNat
<1>2. m[i] # n[i] /\ SubSeq(m, 1, i - 1) = SubSeq(n, 1, i - 1)
  <2>1. i - 1 \in 0 .. Width /\ \A j \in 1 .. i - 1 : m[j] = n[j]
    BY <1>0, <1>1
  <2>2. Prefix(m, i - 1) = Prefix(n, i - 1)
    BY <2>1, PrefixEqual
  <2> QED
    BY <1>1, <2>2 DEF Prefix
<1> DEFINE d == Mismatch(m, n)
<1>3. d \in 1 .. Width /\ m[d] # n[d] /\ SubSeq(m, 1, d - 1) = SubSeq(n, 1, d - 1)
  BY <1>1, <1>2 DEF Mismatch
<1> HIDE DEF d
<1>4. \A j \in 1 .. d - 1 : m[j] = n[j]
  <2>1. d - 1 \in 0 .. Width
    BY <1>0, <1>3
  <2> QED
    BY <1>3, <2>1, PrefixEqual DEF Prefix
<1>5. ASSUME NEW l \in 0 .. Width PROVE Prefix(m, l) = Prefix(n, l) <=> l < d
  <2>1. CASE l < d
    <3>1. \A j \in 1 .. l : m[j] = n[j]
      BY <1>0, <1>3, <1>4, <2>1
    <3> QED
      BY <2>1, <3>1, PrefixEqual
  <2>2. CASE ~(l < d)
    <3>1. d \in 1 .. l
      BY <1>0, <1>3, <2>2
    <3> QED
      BY <1>3, <2>2, <3>1, PrefixEqual
  <2> QED
    BY <2>1, <2>2
<1> QED
  BY <1>3, <1>5 DEF d

\* The first length that tells two names apart, beyond one that does not.
LEMMA LastLengthProperties ==
  ASSUME TrieAssumption, NEW m \in Name, NEW n \in Name, m # n,
         NEW from \in Lengths, Prefix(m, from) = Prefix(n, from)
  PROVE  /\ LastLength(m, n, from) \in Lengths /\ LastLength(m, n, from) > from
         /\ Prefix(m, LastLength(m, n, from)) # Prefix(n, LastLength(m, n, from))
         /\ \A k \in Lengths : k < LastLength(m, n, from) => Prefix(m, k) = Prefix(n, k)
<1> DEFINE ls == {l \in Lengths : l > from /\ l >= Mismatch(m, n)}
           last == LastLength(m, n, from)
<1>0. Lengths \subseteq 1 .. Width /\ Lengths \subseteq Nat /\ Width \in Nat
  BY LengthsType
<1>m. Mismatch(m, n) \in 1 .. Width /\ from < Mismatch(m, n)
  BY <1>0, MismatchProperties
<1>1. ls # {}
  <2>1. PICK l \in Lengths : Prefix(m, l) # Prefix(n, l)
    BY DEF TrieAssumption, Prefix
  <2>2. ~(l < Mismatch(m, n)) /\ l \in Nat
    BY <1>0, <2>1, MismatchProperties
  <2> QED
    BY <1>0, <1>m, <2>1, <2>2
<1>2. last \in ls /\ \A k \in ls : last <= k
  <2>1. \E l \in ls : \A k \in ls : l <= k
    <3> HIDE DEF ls
    <3>1. ls \subseteq Nat
      BY <1>0 DEF ls
    <3> QED
      BY <1>1, <3>1, SmallestNat
  <2> QED
    BY <2>1 DEF LastLength
<1> HIDE DEF last
<1>3. ASSUME NEW k \in Lengths, k < last PROVE Prefix(m, k) = Prefix(n, k)
  <2>1. k < Mismatch(m, n)
    <3>1. k \in Nat /\ last \in Nat /\ Mismatch(m, n) \in Nat /\ from \in Nat
      BY <1>0, <1>m, <1>2
    <3>2. k \notin ls
      BY <1>2, <1>3, <3>1
    <3>3. CASE k > from
      BY <3>1, <3>2, <3>3
    <3>4. CASE ~(k > from)
      BY <1>m, <3>1, <3>4
    <3> QED
      BY <3>3, <3>4
  <2> QED
    BY <1>0, <2>1, MismatchProperties
<1>4. Prefix(m, last) # Prefix(n, last)
  <2>1. last \in Lengths /\ last >= Mismatch(m, n)
    BY <1>2
  <2>2. last \in 0 .. Width /\ ~(last < Mismatch(m, n))
    BY <1>0, <1>m, <2>1
  <2> QED
    BY <2>2, MismatchProperties
<1> QED
  BY <1>2, <1>3, <1>4 DEF last

-----------------------------------------------------------------------------
(***************************************************************************)
(* Lookups.                                                                *)
(***************************************************************************)
\* Where lookup_impl stops for a name.
Stops(n, l) ==
  /\ l \in Lengths /\ ~IsSubtrie(Prefix(n, l))
  /\ \A k \in Lengths : k < l => IsSubtrie(Prefix(n, k))

LEMMA SlotOfStops ==
  ASSUME TrieAssumption, NEW n \in Name, NEW l, Stops(n, l)
  PROVE  SlotOf(n) = Prefix(n, l)
<1> DEFINE ls == {i \in Lengths : ~IsSubtrie(SubSeq(n, 1, i))}
           i == CHOOSE i \in ls : \A k \in ls : i <= k
<1>0. Lengths \subseteq Nat
  BY LengthsType
<1>1. l \in ls /\ \A k \in ls : l <= k
  BY <1>0 DEF Stops, Prefix
<1>2. i \in ls /\ \A k \in ls : i <= k
  BY <1>1
<1>3. i = l
  <2> HIDE DEF i, ls
  <2>1. ls \subseteq Nat
    BY <1>0 DEF ls
  <2> QED
    BY <1>1, <1>2, <2>1
<1> QED
  BY <1>3 DEF SlotOf, Prefix

LEMMA LookupStops ==
  ASSUME TrieAssumption, IInv, NEW n \in Name
  PROVE  \E l \in Lengths : Stops(n, l)
<1> DEFINE T == {Width - l : l \in Lengths}
           ls == {l \in Lengths : ~IsSubtrie(Prefix(n, l))}
<1>0. Lengths \subseteq 1 .. Width /\ Lengths \subseteq Nat /\ Width \in Nat
  BY LengthsType
<1>1. Lengths # {}
  <2>1. RootBits \in 1 .. Width /\ Bits \in Nat \ {0} /\ RootBits - RootBits = 0
    BY DEF TrieAssumption
  <2>2. 0 % Bits = 0
    BY <2>1
  <2> QED
    BY <2>1, <2>2 DEF Lengths
<1>2. PICK last \in Lengths : \A k \in Lengths : k <= last
  <2>0. \A l \in Lengths : Width - l \in Nat
    BY <1>0
  <2>1. T \subseteq Nat /\ T # {}
    BY <1>1, <2>0
  <2>2. PICK t \in T : \A u \in T : t <= u
    <3> HIDE DEF T
    <3> QED
      BY <2>1, SmallestNat
  <2>3. PICK l \in Lengths : t = Width - l
    BY <2>2
  <2>4. \A k \in Lengths : Width - l <= Width - k
    BY <2>2, <2>3
  <2> QED
    BY <1>0, <2>4
<1>3. ~IsSubtrie(Prefix(n, last))
  <2>1. Len(Prefix(n, last)) = last
    BY <1>0, PrefixElements
  <2>2. ~ \E k \in Lengths : k > last
    BY <1>0, <1>2
  <2> QED
    BY <2>1, <2>2 DEF IInv, SlotSound, IsSubtrie
<1>4. PICK l \in ls : \A k \in ls : l <= k
  <2>1. ls \subseteq Nat /\ ls # {}
    BY <1>0, <1>3
  <2> HIDE DEF ls
  <2> QED
    BY <2>1, SmallestNat
<1>5. \A k \in Lengths : k < l => IsSubtrie(Prefix(n, k))
  BY <1>0, <1>4
<1> QED
  BY <1>4, <1>5 DEF Stops

\* A lookup of the name of an entry finds it.
LEMMA EntriesFound ==
  ASSUME TrieAssumption, IInv, NEW e \in 1 .. Len(entries)
  PROVE  Found(entries[e]) /\ Entry(entries[e]) = e
<1>1. PICK l \in Lengths : HangsAt(e, l)
  BY DEF IInv
<1>2. entries[e] \in Name /\ e # Sub
  BY DEF IInv, Sub
<1>3. Stops(entries[e], l)
  BY <1>1, <1>2 DEF Stops, HangsAt, IsSubtrie
<1>4. SlotOf(entries[e]) = Prefix(entries[e], l)
  BY <1>2, <1>3, SlotOfStops
<1> QED
  BY <1>1, <1>4 DEF Found, Entry, HangsAt

LEMMA FoundEntry ==
  ASSUME TrieAssumption, IInv, NEW n \in Name
  PROVE  /\ Entry(n) \in 0 .. Len(entries)
         /\ Entry(n) # 0 => entries[Entry(n)] = n
<1>1. SlotOf(n) \in DOMAIN slot => slot[SlotOf(n)] \in 0 .. Len(entries)
  BY DEF IInv, SlotSound
<1>2. Len(entries) \in Nat
  BY DEF IInv
<1> QED
  BY <1>1, <1>2 DEF Entry, Found

-----------------------------------------------------------------------------
(***************************************************************************)
(* Insertions.                                                             *)
(***************************************************************************)
\* What both have in common: an entry more, and the others as they were.
LEMMA InsertContext ==
  ASSUME TrieAssumption, IInv, NEW n \in Name, Insert(n)
  PROVE  LET e == Len(entries) + 1
         IN  /\ entries' \in Seq(Name) /\ Len(entries') = e /\ entries'[e] = n
             /\ \A d \in 1 .. Len(entries) : entries'[d] = entries[d]
             /\ e \in Nat /\ e # Sub /\ ReplySound'
<1> DEFINE e == Len(entries) + 1
<1>1. entries \in Seq(Name) /\ entries' = Append(entries, n) /\ reply' = [name |-> n, entry |-> e]
  BY DEF IInv, Insert
<1>2. /\ entries' \in Seq(Name) /\ Len(entries') = e /\ entries'[e] = n
      /\ \A d \in 1 .. Len(entries) : entries'[d] = entries[d]
      /\ e \in Nat /\ e # Sub
  BY <1>1 DEF Sub
<1>3. reply'.entry = e /\ reply'.name = n
  BY <1>1
<1> QED
  BY <1>2, <1>3 DEF ReplySound

\* The slot is free.
LEMMA InsertFree ==
  ASSUME TrieAssumption, IInv, NEW n \in Name, Insert(n), SlotOf(n) \notin DOMAIN slot
  PROVE  IInv'
<1> DEFINE e == Len(entries) + 1
<1>0. Lengths \subseteq 1 .. Width /\ Lengths \subseteq Nat /\ Width \in Nat
  BY LengthsType
<1>c. /\ entries' \in Seq(Name) /\ Len(entries') = e /\ entries'[e] = n
      /\ \A d \in 1 .. Len(entries) : entries'[d] = entries[d]
      /\ e \in Nat /\ e # Sub /\ ReplySound' /\ Len(entries) \in Nat
  BY InsertContext DEF IInv
<1>1. PICK l \in Lengths : Stops(n, l)
  BY LookupStops
<1> DEFINE s == Prefix(n, l)
<1>2. SlotOf(n) = s /\ s \notin DOMAIN slot
  BY <1>1, SlotOfStops
<1>3. slot' = Over([x \in {s} |-> e], slot)
  BY <1>2 DEF Insert
<1> HIDE DEF s
<1>4. /\ DOMAIN slot' = DOMAIN slot \cup {s} /\ slot'[s] = e
      /\ \A x \in DOMAIN slot : slot'[x] = slot[x]
  BY <1>2, <1>3 DEF Over
<1>5. Len(s) = l
  BY <1>0, PrefixElements DEF s
<1>6. ASSUME NEW x \in DOMAIN slot' PROVE SlotSound(x)'
  <2>1. CASE x = s
    <3>1. slot'[x] \in 0 .. Len(entries') /\ slot'[x] # Sub /\ Len(x) \in Lengths
      BY <1>c, <1>4, <1>5, <2>1
    <3>2. Prefix(entries'[slot'[x]], Len(x)) = x
      BY <1>c, <1>4, <1>5, <2>1 DEF s
    <3> QED
      BY <3>1, <3>2 DEF SlotSound, Prefix
  <2>2. CASE x \in DOMAIN slot
    <3>1. SlotSound(x) /\ slot'[x] = slot[x]
      BY <1>4, <2>2 DEF IInv
    <3>2. slot[x] # Sub => entries'[slot[x]] = entries[slot[x]]
      BY <1>c, <3>1 DEF SlotSound, Sub
    <3>3. slot[x] \in 0 .. Len(entries')
      BY <1>c, <3>1 DEF SlotSound
    <3> QED
      BY <3>1, <3>2, <3>3 DEF SlotSound, Prefix
  <2> QED
    BY <1>4, <2>1, <2>2
<1>7. \A x : IsSubtrie(x) => IsSubtrie(x)'
  BY <1>4 DEF IsSubtrie
<1>8. ASSUME NEW d \in 1 .. Len(entries') PROVE \E k \in Lengths : HangsAt(d, k)'
  <2>1. CASE d = e
    <3>1. HangsAt(d, l)'
      BY <1>c, <1>1, <1>4, <1>7, <2>1 DEF HangsAt, Stops, s, Prefix
    <3> QED
      BY <3>1
  <2>2. CASE d \in 1 .. Len(entries)
    <3>1. PICK k \in Lengths : HangsAt(d, k)
      BY <2>2 DEF IInv
    <3>2. HangsAt(d, k)'
      BY <1>c, <1>4, <1>7, <2>2, <3>1 DEF HangsAt, Prefix
    <3> QED
      BY <3>2
  <2> QED
    BY <1>c, <2>1, <2>2
<1> QED
  BY <1>c, <1>6, <1>8 DEF IInv

\* The slot holds another entry: both move down to where they part.
LEMMA InsertTaken ==
  ASSUME TrieAssumption, IInv, NEW n \in Name, Insert(n), SlotOf(n) \in DOMAIN slot
  PROVE  IInv'
<1> DEFINE e == Len(entries) + 1
           o == slot[SlotOf(n)]
           old == entries[o]
<1>0. Lengths \subseteq 1 .. Width /\ Lengths \subseteq Nat /\ Width \in Nat
  BY LengthsType
<1>c. /\ entries' \in Seq(Name) /\ Len(entries') = e /\ entries'[e] = n
      /\ \A d \in 1 .. Len(entries) : entries'[d] = entries[d]
      /\ e \in Nat /\ e # Sub /\ ReplySound' /\ Len(entries) \in Nat
  BY InsertContext DEF IInv
<1>1. PICK l \in Lengths : Stops(n, l)
  BY LookupStops
<1> DEFINE s == Prefix(n, l)
<1>2. SlotOf(n) = s /\ s \in DOMAIN slot
  BY <1>1, SlotOfStops
<1>3. Len(s) = l
  BY <1>0, PrefixElements
\* The entry that is there.
<1>4. /\ o \in 1 .. Len(entries) /\ o # Sub /\ old \in Name /\ old # n
      /\ Prefix(old, l) = s /\ slot[s] = o
  <2>1. o # Sub
    BY <1>1, <1>2 DEF Stops, IsSubtrie
  <2>2. SlotSound(s)
    BY <1>2 DEF IInv
  <2>3. o \in 1 .. Len(entries)
    BY <1>2, <1>c, <2>1, <2>2 DEF SlotSound, Sub
  <2>4. old # n
    BY <1>2 DEF Insert, Found
  <2> QED
    BY <1>2, <1>3, <2>1, <2>2, <2>3, <2>4 DEF SlotSound, IInv
<1> DEFINE last == LastLength(n, old, l)
           chain == {Prefix(n, i) : i \in {k \in Lengths : l <= k /\ k < last}}
           sn == Prefix(n, last)
           so == Prefix(old, last)
           P == Parted(n, e, old)
<1>5. slot' = Over(P, slot)
  BY <1>2 DEF Insert
<1>6. P = [x \in chain \cup {sn, so} |-> IF x \in chain THEN Sub ELSE IF x = sn THEN e ELSE o]
  BY <1>2, <1>3 DEF Parted, Prefix
<1> HIDE DEF s, o, e, P, old
<1>7. /\ last \in Lengths /\ last > l /\ sn # so
      /\ \A k \in Lengths : k < last => Prefix(n, k) = Prefix(old, k)
  BY <1>4, LastLengthProperties DEF s
<1> HIDE DEF last, chain
<1>8. /\ Len(sn) = last /\ Len(so) = last
      /\ \A x \in chain : \E k \in Lengths : l <= k /\ k < last /\ x = Prefix(n, k) /\ Len(x) = k
      /\ \A k \in Lengths : l <= k /\ k < last => Prefix(n, k) \in chain
  BY <1>0, <1>4, <1>7, PrefixElements DEF chain
<1> HIDE DEF sn, so
<1>9. sn \notin chain /\ so \notin chain
  BY <1>0, <1>7, <1>8
<1>10. /\ DOMAIN slot' = DOMAIN slot \cup chain \cup {sn, so}
       /\ \A x \in chain : slot'[x] = Sub
       /\ slot'[sn] = e /\ slot'[so] = o
       /\ \A x \in DOMAIN slot \ (chain \cup {sn, so}) : slot'[x] = slot[x]
  BY <1>5, <1>6, <1>7, <1>9 DEF Over
\* No slot that is changed is on the path of another name, but s itself.
<1>11. ASSUME NEW x \in chain \cup {sn, so}
       PROVE  /\ Len(x) \in Lengths /\ Len(x) >= l
              /\ x = Prefix(n, Len(x)) \/ x = Prefix(old, Len(x))
  BY <1>0, <1>7, <1>8 DEF sn, so
<1>12. ASSUME NEW m \in Name, NEW k \in Lengths, Prefix(m, k) \in chain \cup {sn, so}
       PROVE  k >= l /\ Prefix(m, l) = s
  <2>1. Len(Prefix(m, k)) = k
    BY <1>0, PrefixElements
  <2>2. k >= l /\ (Prefix(m, k) = Prefix(n, k) \/ Prefix(m, k) = Prefix(old, k))
    BY <1>11, <1>12, <2>1
  <2>3. l \in 0 .. k /\ k \in 0 .. Width
    BY <1>0, <2>2
  <2>4. Prefix(m, l) = Prefix(n, l) \/ Prefix(m, l) = Prefix(old, l)
    BY <1>4, <2>2, <2>3, PrefixShorter
  <2> QED
    BY <1>4, <2>2, <2>4 DEF s
<1>13. ~IsSubtrie(s) /\ s \in chain
  BY <1>0, <1>1, <1>7, <1>8 DEF Stops, s
<1>14. ASSUME NEW x \in DOMAIN slot' PROVE SlotSound(x)'
  <2>1. CASE x \in chain
    <3>1. slot'[x] = Sub /\ Len(x) \in Lengths /\ last \in Lengths /\ last > Len(x)
      BY <1>0, <1>7, <1>8, <1>10, <2>1
    <3>2. slot'[x] \in 0 .. Len(entries')
      BY <1>c, <3>1 DEF Sub, e
    <3> QED
      BY <3>1, <3>2 DEF SlotSound
  <2>2. CASE x = sn
    <3>1. slot'[x] \in 0 .. Len(entries') /\ slot'[x] # Sub /\ Len(x) \in Lengths
      BY <1>c, <1>7, <1>8, <1>10, <2>2
    <3>2. Prefix(entries'[slot'[x]], Len(x)) = x
      BY <1>c, <1>8, <1>10, <2>2 DEF sn
    <3> QED
      BY <3>1, <3>2 DEF SlotSound, Prefix
  <2>3. CASE x = so
    <3>1. slot'[x] \in 0 .. Len(entries') /\ slot'[x] # Sub /\ Len(x) \in Lengths
      BY <1>c, <1>4, <1>7, <1>8, <1>10, <2>3 DEF e
    <3>2. Prefix(entries'[slot'[x]], Len(x)) = x
      BY <1>c, <1>4, <1>8, <1>10, <2>3 DEF so, old
    <3> QED
      BY <3>1, <3>2 DEF SlotSound, Prefix
  <2>4. CASE x \in DOMAIN slot \ (chain \cup {sn, so})
    <3>1. SlotSound(x) /\ slot'[x] = slot[x]
      BY <1>10, <2>4 DEF IInv
    <3>2. slot[x] # Sub => entries'[slot[x]] = entries[slot[x]]
      BY <1>c, <3>1 DEF SlotSound, Sub
    <3>3. slot[x] \in 0 .. Len(entries')
      BY <1>c, <3>1 DEF SlotSound, e
    <3> QED
      BY <3>1, <3>2, <3>3 DEF SlotSound, Prefix
  <2> QED
    BY <1>10, <2>1, <2>2, <2>3, <2>4
\* The two that part.
<1>15. ASSUME NEW m \in {n, old}, NEW k \in Lengths, k < last PROVE IsSubtrie(Prefix(m, k))'
  <2>1. Prefix(m, k) = Prefix(n, k)
    BY <1>7, <1>15
  <2>2. CASE l <= k
    BY <1>8, <1>10, <1>15, <2>1, <2>2 DEF IsSubtrie
  <2>3. CASE ~(l <= k)
    <3>1. IsSubtrie(Prefix(n, k))
      BY <1>0, <1>1, <2>3 DEF Stops
    <3>2. Prefix(n, k) \notin chain \cup {sn, so}
      BY <1>12, <2>3
    <3> QED
      BY <1>10, <2>1, <3>1, <3>2 DEF IsSubtrie
  <2> QED
    BY <2>2, <2>3
<1>q. PICK q \in Lengths : q = last
  BY <1>7
<1>16. ASSUME NEW d \in 1 .. Len(entries') PROVE \E k \in Lengths : HangsAt(d, k)'
  <2>1. CASE d = e
    <3>1. entries'[d] = n /\ Prefix(n, last) = sn
      BY <1>c, <2>1 DEF sn
    <3>2. HangsAt(d, q)'
      BY <1>10, <1>15, <1>q, <2>1, <3>1 DEF HangsAt, Prefix, IsSubtrie
    <3> QED
      BY <3>2
  <2>2. CASE d = o
    <3>1. entries'[d] = old /\ Prefix(old, last) = so
      BY <1>c, <1>4, <2>2 DEF so, old
    <3>2. HangsAt(d, q)'
      BY <1>10, <1>15, <1>q, <2>2, <3>1 DEF HangsAt, Prefix, IsSubtrie
    <3> QED
      BY <3>2
  <2>3. CASE d \in 1 .. Len(entries) /\ d # o
    <3>1. PICK k \in Lengths : HangsAt(d, k)
      BY <2>3 DEF IInv
    <3>2. PICK m \in Name : m = entries[d] /\ entries'[d] = m
      BY <1>c, <2>3 DEF IInv
    <3>3. ~(k > l /\ Prefix(m, l) = s)
      BY <1>13, <3>1, <3>2 DEF HangsAt
    <3>4. ~(k = l /\ Prefix(m, l) = s)
      BY <1>4, <2>3, <3>1, <3>2 DEF HangsAt
    <3>5. ASSUME NEW i \in Lengths, i <= k PROVE Prefix(m, i) \notin chain \cup {sn, so}
      <4>1. SUFFICES ASSUME Prefix(m, i) \in chain \cup {sn, so} PROVE FALSE
        OBVIOUS
      <4>2. i >= l /\ Prefix(m, l) = s
        BY <1>12, <3>2, <4>1
      <4>3. i \in Nat /\ k \in Nat /\ l \in Nat
        BY <1>0
      <4> QED
        BY <3>3, <3>4, <3>5, <4>2, <4>3
    <3>6. HangsAt(d, k)'
      <4>1. Prefix(m, k) \in DOMAIN slot' /\ slot'[Prefix(m, k)] = d
        <5>1. k <= k
          BY <1>0
        <5>2. Prefix(m, k) \notin chain \cup {sn, so}
          BY <3>5, <5>1
        <5> QED
          BY <1>10, <3>1, <3>2, <5>2 DEF HangsAt
      <4>2. ASSUME NEW i \in Lengths, i < k PROVE IsSubtrie(Prefix(m, i))'
        <5>1. i <= k
          BY <1>0, <4>2
        <5>2. Prefix(m, i) \notin chain \cup {sn, so}
          BY <3>5, <5>1
        <5>3. IsSubtrie(Prefix(m, i))
          BY <3>1, <3>2, <4>2 DEF HangsAt
        <5> QED
          BY <1>10, <5>2, <5>3 DEF IsSubtrie
      <4> QED
        BY <3>2, <4>1, <4>2 DEF HangsAt, Prefix, IsSubtrie
    <3> QED
      BY <3>6
  <2> QED
    BY <1>c, <2>1, <2>2, <2>3 DEF e
<1> QED
  BY <1>c, <1>14, <1>16 DEF IInv

-----------------------------------------------------------------------------
(***************************************************************************)
(* The theorems.                                                           *)
(***************************************************************************)
LEMMA InitOK == Init => IInv
  BY DEF Init, IInv, ReplySound

LEMMA NextOK == ASSUME TrieAssumption, IInv, [Next]_vars PROVE IInv'
<1>1. CASE UNCHANGED vars
  BY <1>1 DEF IInv, SlotSound, HangsAt, IsSubtrie, ReplySound, Prefix, vars
<1>2. ASSUME NEW n \in Name, Lookup(n) PROVE IInv'
  <2>1. /\ reply' = [name |-> n, entry |-> Entry(n)] /\ UNCHANGED <<slot, entries>>
    BY <1>2 DEF Lookup
  <2>2. ReplySound'
    BY <2>1, FoundEntry DEF ReplySound
  <2> QED
    BY <2>1, <2>2 DEF IInv, SlotSound, HangsAt, IsSubtrie, Prefix
<1>3. ASSUME NEW n \in Name, Insert(n) PROVE IInv'
  BY <1>3, InsertFree, InsertTaken
<1> QED
  BY <1>1, <1>2, <1>3 DEF Next

\* The trie keeps its shape.
THEOREM Invariance == ASSUME TrieAssumption PROVE Spec => []IInv
<1>1. IInv /\ [Next]_vars => IInv'
  BY NextOK
<1> QED
  BY InitOK, <1>1, PTL DEF Spec

\* The variables have their types in every state.
THEOREM TypeCorrect == ASSUME TrieAssumption PROVE Spec => []TypeOK
<1>1. IInv => TypeOK
  BY DEF IInv, SlotSound, ReplySound, TypeOK
<1> QED
  BY <1>1, Invariance, PTL

LEMMA OneEntry == ASSUME TrieAssumption, IInv PROVE OneEntryPerName
<1>1. \A e \in 1 .. Len(entries) : Entry(entries[e]) = e
  BY EntriesFound
<1>2. \A d, e \in 1 .. Len(entries) : entries[d] = entries[e] => d = e
  BY <1>1
<1> QED
  BY <1>1, <1>2 DEF OneEntryPerName, IInv, ReplySound

\* A name has one entry, for ever, and a lookup finds it and no other.
THEOREM OneEntryPerNameAlways == ASSUME TrieAssumption PROVE Spec => []OneEntryPerName
<1>1. IInv => OneEntryPerName
  BY OneEntry
<1> QED
  BY <1>1, Invariance, PTL
================================================================================
