------------------------------- MODULE Sha1Trie -------------------------------
(***************************************************************************)
(* The pool of names in memory (sha1_trie and sha1_pool of sha1_pool.h,    *)
(* the bits of a name in sha1convert.h).  Every name that split2mono reads *)
(* is looked up in the pool, and from then on commits are compared by the  *)
(* address of their entry: two entries for one name, or one for two, would *)
(* make different commits of one or one of two.  The other tables in       *)
(* memory (git_cache.h) are such tries with a value in each entry.         *)
(*                                                                         *)
(* A name is a sequence of bits.  The root is indexed by RootBits of them  *)
(* and each subtrie by Bits more; a slot is named by the bits that lead to *)
(* it.  It holds a subtrie or the number of an entry.                      *)
(***************************************************************************)
EXTENDS Naturals, Sequences

CONSTANTS
  Name,      \* the names in use
  Width,     \* the bits of a name
  RootBits,
  Bits

\* The lengths of the sequences of bits that name slots.  160 bits are more
\* than 12 and a multiple of 6: no two names agree on more than the first 156.
Lengths == {l \in RootBits .. Width : (l - RootBits) % Bits = 0}

\* What the constants must be.
TrieAssumption ==
  /\ Width \in Nat /\ RootBits \in 1 .. Width /\ Bits \in Nat \ {0}
  /\ \A n \in Name : n \in [1 .. Width -> {0, 1}]
  /\ \A m, n \in Name : m # n => \E l \in Lengths : SubSeq(m, 1, l) # SubSeq(n, 1, l)

VARIABLES
  slot,     \* the slots that are in use
  entries,  \* the entries allocated: their names
  reply     \* the last lookup: the name, and the entry or 0

vars == <<slot, entries, reply>>

Sub == 0   \* a slot that holds a subtrie

Init ==
  /\ slot = [s \in {} |-> Sub]
  /\ entries = <<>>
  /\ reply = [name |-> <<>>, entry |-> 0]

-----------------------------------------------------------------------------
\* get_mismatched_bit: the first bit that differs, counted from 1.
Mismatch(m, n) == CHOOSE i \in 1 .. Width : m[i] # n[i] /\ SubSeq(m, 1, i - 1) = SubSeq(n, 1, i - 1)

IsSubtrie(s) == s \in DOMAIN slot /\ slot[s] = Sub

\* lookup_impl down to a slot that is free or holds an entry.
SlotOf(n) ==
  LET ls == {l \in Lengths : ~IsSubtrie(SubSeq(n, 1, l))}
  IN  SubSeq(n, 1, CHOOSE l \in ls : \A k \in ls : l <= k)

Found(n) ==
  LET s == SlotOf(n) IN s \in DOMAIN slot /\ entries[slot[s]] = n

Entry(n) == IF Found(n) THEN slot[SlotOf(n)] ELSE 0

\* A mutant of LastLength: one subtrie too few when the names part at the
\* first bit of a group.
LastLengthShort(m, n, from) ==
  LET ls == {l \in Lengths : l > from /\ l >= Mismatch(m, n) - 1}
  IN  CHOOSE l \in ls : \A k \in ls : l <= k

\* The slots of two names are in the first subtrie that tells them apart.
LastLength(m, n, from) ==
  LET ls == {l \in Lengths : l > from /\ l >= Mismatch(m, n)}
  IN  CHOOSE l \in ls : \A k \in ls : l <= k

\* Where entry e of name n goes, and that of name old, in whose slot it ends:
\* subtries down to the bits in which they differ.
Parted(n, e, old) ==
  LET from == Len(SlotOf(n))
      last == LastLength(n, old, from)
      chain == {SubSeq(n, 1, l) : l \in {k \in Lengths : from <= k /\ k < last}}
  IN  [s \in chain \cup {SubSeq(n, 1, last), SubSeq(old, 1, last)} |->
         IF s \in chain THEN Sub
         ELSE IF s = SubSeq(n, 1, last) THEN e ELSE slot[SlotOf(n)]]

Over(f, g) ==
  [s \in DOMAIN f \cup DOMAIN g |-> IF s \in DOMAIN f THEN f[s] ELSE g[s]]

(***************************************************************************)
(* sha1_trie::lookup, and insert, which sha1_pool::lookup calls.           *)
(***************************************************************************)
\* Also what insert does with a name that is there.
Lookup(n) ==
  /\ reply' = [name |-> n, entry |-> Entry(n)]
  /\ UNCHANGED <<slot, entries>>

Insert(n) ==
  /\ ~Found(n)
  /\ LET e == Len(entries) + 1
         s == SlotOf(n)
     IN  /\ entries' = Append(entries, n)
         /\ reply' = [name |-> n, entry |-> e]
         /\ slot' = IF s \notin DOMAIN slot THEN Over([x \in {s} |-> e], slot)
                    ELSE Over(Parted(n, e, entries[slot[s]]), slot)

Next == \E n \in Name : Lookup(n) \/ Insert(n)

Spec == Init /\ [][Next]_vars

-----------------------------------------------------------------------------
\* The types of the variables.
TypeOK ==
  /\ \A s \in DOMAIN slot : Len(s) \in Lengths /\ slot[s] \in 0 .. Len(entries)
  /\ \A e \in 1 .. Len(entries) : entries[e] \in Name
  /\ reply.entry \in 0 .. Len(entries)

\* A name has one entry, for ever: a lookup finds the entry that was made for
\* the name, whatever was inserted around it since, and no other; so that
\* equal addresses are equal names.
OneEntryPerName ==
  /\ \A d, e \in 1 .. Len(entries) : entries[d] = entries[e] => d = e
  /\ \A e \in 1 .. Len(entries) : Entry(entries[e]) = e
  /\ reply.entry # 0 => entries[reply.entry] = reply.name
=============================================================================
