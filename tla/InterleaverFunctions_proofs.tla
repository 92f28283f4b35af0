------------------------ MODULE InterleaverFunctions_proofs ------------------------
(***************************************************************************)
(* What the functions of CommitInterleaver return, and those of            *)
(* SplitHistory, for every split history, set of directories and goals:    *)
(* lists of commits, merge bases, mono commits and their trees,            *)
(* translations, and the path of a directory from its goal to its head.    *)
(*                                                                         *)
(* The functions of the model are folds, and the functions these are made  *)
(* of are total functions that a CHOOSE picks: for each fold there is a    *)
(* lemma that such a function exists (...FoldExists), one that the fold is *)
(* the last of a sequence of steps (...Steps), and one that says, by       *)
(* induction on the steps, what it returns (...Is).                        *)
(***************************************************************************)
EXTENDS CommitInterleaver, TLAPS, NaturalsInduction, WellFoundedInduction, FiniteSetTheorems,
        SequenceTheorems

-----------------------------------------------------------------------------
(***************************************************************************)
(* Numbers and sequences.                                                  *)
(***************************************************************************)
NatLess == {ss \in Nat \X Nat : ss[1] < ss[2]}

LEMMA NatLessWellFounded == IsWellFoundedOn(NatLess, Nat)
BY NatLessThanWellFounded DEF OpToRel, NatLess

LEMMA SmallestNat ==
  ASSUME NEW S, S \subseteq Nat, S # {}
  PROVE  \E m \in S : \A k \in S : m <= k
<1>1. PICK m \in S : \A k \in S : <<k, m>> \notin NatLess
  BY NatLessWellFounded, WFMin
<1>2. ASSUME NEW k \in S PROVE m <= k
  <2>1. <<k, m>> \in Nat \X Nat
    OBVIOUS
  <2>2. ~ (<<k, m>>[1] < <<k, m>>[2])
    BY <1>1, <2>1 DEF NatLess
  <2> QED
    BY <2>2
<1> QED
  BY <1>2

\* Induction, for a set of numbers.
LEMMA FromZeroOn ==
  ASSUME NEW S, 0 \in S, \A n \in Nat : n \in S => n + 1 \in S
  PROVE  \A n \in Nat : n \in S
<1>1. SUFFICES ASSUME Nat \ S # {} PROVE FALSE
  OBVIOUS
<1>2. PICK m \in Nat \ S : \A k \in Nat \ S : m <= k
  BY <1>1, SmallestNat
<1>3. m # 0 /\ m - 1 \in Nat /\ ~ m <= m - 1 /\ m = (m - 1) + 1
  BY <1>2
<1>4. m - 1 \in S
  BY <1>2, <1>3
<1> QED
  BY <1>2, <1>3, <1>4

LEMMA LargestNat ==
  ASSUME NEW S, S \subseteq Nat, S # {}, NEW n \in Nat, \A k \in S : k <= n
  PROVE  \E m \in S : \A k \in S : k <= m
<1> DEFINE T == {n - k : k \in S}
<1>1. T \subseteq Nat /\ T # {}
  <2>1. ASSUME NEW k \in S PROVE n - k \in Nat
    <3>1. k \in Nat /\ k <= n
      OBVIOUS
    <3> QED
      BY <3>1
  <2> QED
    BY <2>1
<1>2. PICK t \in T : \A u \in T : t <= u
  <2> HIDE DEF T
  <2> QED
    BY <1>1, SmallestNat
<1>3. PICK m \in S : t = n - m
  OBVIOUS
<1>4. ASSUME NEW k \in S PROVE k <= m
  <2>1. n - k \in T
    OBVIOUS
  <2>2. n - m <= n - k
    BY <1>2, <1>3, <2>1
  <2> QED
    BY <2>2
<1> QED
  BY <1>4

LEMMA MinIs ==
  ASSUME NEW S, S \subseteq Nat, S # {}
  PROVE  Min(S) \in S /\ \A k \in S : Min(S) <= k
<1>1. \E m \in S : \A k \in S : m <= k
  BY SmallestNat
<1> QED
  BY <1>1 DEF Min

LEMMA MaxIs ==
  ASSUME NEW S, S \subseteq Nat, S # {}, NEW n \in Nat, \A k \in S : k <= n
  PROVE  Max(S) \in S /\ \A k \in S : k <= Max(S)
<1>1. \E m \in S : \A k \in S : k <= m
  BY LargestNat
<1>2. \E m \in S : \A k \in S : m >= k
  BY <1>1
<1> QED
  BY <1>2 DEF Max

LEMMA MaxOfSome ==
  ASSUME NEW n \in Nat, NEW t \in SUBSET (1 .. n), t # {}
  PROVE  Max(t) \in t /\ \A k \in t : k <= Max(t)
<1>1. t \subseteq Nat /\ \A k \in t : k <= n
  OBVIOUS
<1> QED
  BY <1>1, MaxIs

LEMMA MaxOfAll ==
  ASSUME NEW n \in Nat, n # 0
  PROVE  Max(1 .. n) = n /\ (1 .. n) \ {n} = 1 .. n - 1
<1>1. 1 .. n \in SUBSET (1 .. n) /\ 1 .. n # {} /\ n \in 1 .. n
  OBVIOUS
<1>2. Max(1 .. n) \in 1 .. n /\ n <= Max(1 .. n)
  BY <1>1, MaxOfSome
<1> QED
  BY <1>2

LEMMA TakeOut ==
  ASSUME NEW S, NEW s \in Seq(S), NEW i \in 1 .. Len(s)
  PROVE  /\ RemoveAt(s, i) \in Seq(S)
         /\ Len(RemoveAt(s, i)) = Len(s) - 1
         /\ \A j \in 1 .. Len(s) - 1 : RemoveAt(s, i)[j] = IF j < i THEN s[j] ELSE s[j + 1]
<1> DEFINE x == SubSeq(s, 1, i - 1)
           y == SubSeq(s, i + 1, Len(s))
<1>1. i \in Nat /\ Len(s) \in Nat /\ i - 1 \in Nat /\ Len(s) - i \in Nat
  OBVIOUS
<1>2. x \in Seq(S) /\ Len(x) = i - 1 /\ \A j \in 1 .. i - 1 : x[j] = s[j]
  BY <1>1
<1>3. y \in Seq(S) /\ Len(y) = Len(s) - i /\ \A j \in 1 .. Len(s) - i : y[j] = s[i + j]
  <2>1. \A j \in i + 1 .. Len(s) : s[j] \in S
    BY <1>1
  <2> QED
    BY <1>1, <2>1
<1>4. RemoveAt(s, i) = x \o y
  BY DEF RemoveAt
<1> HIDE DEF x, y
<1>5. /\ x \o y \in Seq(S) /\ Len(x \o y) = Len(s) - 1
      /\ \A j \in 1 .. Len(s) - 1 : (x \o y)[j] = IF j <= Len(x) THEN x[j] ELSE y[j - Len(x)]
  BY <1>1, <1>2, <1>3
<1>6. ASSUME NEW j \in 1 .. Len(s) - 1
      PROVE (x \o y)[j] = IF j < i THEN s[j] ELSE s[j + 1]
  <2>1. CASE j < i
    BY <1>1, <1>2, <1>5, <2>1
  <2>2. CASE ~ j < i
    <3>1. j - Len(x) \in 1 .. Len(s) - i /\ ~ j <= Len(x) /\ i + (j - Len(x)) = j + 1
      BY <1>1, <1>2, <2>2
    <3> QED
      BY <1>3, <1>5, <2>2, <3>1
  <2> QED
    BY <2>1, <2>2
<1> QED
  BY <1>4, <1>5, <1>6

-----------------------------------------------------------------------------
(***************************************************************************)
(* Within.  The function that the fold is made of exists, whatever it is   *)
(* applied to; what it makes of a prefix follows.                          *)
(***************************************************************************)
WithinFold(f, s, S, n) ==
  \A t \in SUBSET (1 .. n) :
    f[t] = IF t = {} THEN <<>>
           ELSE IF s[Max(t)] \in S THEN Append(f[t \ {Max(t)}], s[Max(t)])
           ELSE f[t \ {Max(t)}]

LEMMA WithinFoldExists ==
  ASSUME NEW s, NEW S, NEW n \in Nat
  PROVE  \E f : f = [t \in SUBSET (1 .. n) |-> f[t]] /\ WithinFold(f, s, S, n)
<1> DEFINE Good == {k \in Nat : \E f : f = [t \in SUBSET (1 .. k) |-> f[t]]
                                        /\ WithinFold(f, s, S, k)}
<1>1. 0 \in Good
  <2> DEFINE f == [t \in SUBSET (1 .. 0) |-> <<>>]
  <2>1. \A t \in SUBSET (1 .. 0) : t = {}
    OBVIOUS
  <2>2. f = [t \in SUBSET (1 .. 0) |-> f[t]]
    OBVIOUS
  <2>3. WithinFold(f, s, S, 0)
    BY <2>1 DEF WithinFold
  <2> QED
    BY <2>2, <2>3
<1>2. ASSUME NEW k \in Nat, k \in Good PROVE k + 1 \in Good
  <2>1. PICK f : f = [t \in SUBSET (1 .. k) |-> f[t]] /\ WithinFold(f, s, S, k)
    BY <1>2
  <2> DEFINE New(t) == IF s[k + 1] \in S THEN Append(f[t \ {k + 1}], s[k + 1])
                       ELSE f[t \ {k + 1}]
             g == [t \in SUBSET (1 .. k + 1) |-> IF k + 1 \in t THEN New(t) ELSE f[t]]
  <2>2. ASSUME NEW t \in SUBSET (1 .. k + 1)
        PROVE  g[t] = IF t = {} THEN <<>>
                      ELSE IF s[Max(t)] \in S THEN Append(g[t \ {Max(t)}], s[Max(t)])
                      ELSE g[t \ {Max(t)}]
    <3>1. CASE k + 1 \in t
      <4>1. Max(t) \in t /\ k + 1 <= Max(t)
        BY <3>1, MaxOfSome
      <4>2. Max(t) = k + 1
        <5>1. Max(t) \in 1 .. k + 1
          BY <4>1
        <5> QED
          BY <4>1, <5>1
      <4>3. t \ {k + 1} \in SUBSET (1 .. k + 1) /\ k + 1 \notin t \ {k + 1}
        OBVIOUS
      <4>4. g[t \ {k + 1}] = f[t \ {k + 1}]
        BY <4>3
      <4> QED
        BY <3>1, <4>2, <4>4
    <3>2. CASE k + 1 \notin t
      <4>1. t \in SUBSET (1 .. k)
        BY <3>2
      <4>2. t # {} => Max(t) \in t
        BY <4>1, MaxOfSome
      <4>3. t \ {Max(t)} \in SUBSET (1 .. k + 1) /\ k + 1 \notin t \ {Max(t)}
        BY <3>2
      <4>4. g[t] = f[t] /\ g[t \ {Max(t)}] = f[t \ {Max(t)}]
        BY <3>2, <4>3
      <4> HIDE DEF g
      <4> QED
        BY <2>1, <4>1, <4>4 DEF WithinFold
    <3> QED
      BY <3>1, <3>2
  <2>3. g = [t \in SUBSET (1 .. k + 1) |-> g[t]]
    OBVIOUS
  <2> HIDE DEF g
  <2>4. WithinFold(g, s, S, k + 1)
    BY <2>2 DEF WithinFold
  <2> QED
    BY <2>3, <2>4
<1> HIDE DEF Good
<1>3. n \in Good
  BY <1>1, <1>2, FromZeroOn
<1> QED
  BY <1>3 DEF Good

\* What Within makes of the prefixes of a sequence.
LEMMA WithinSteps ==
  ASSUME NEW U, NEW s \in Seq(U), NEW S
  PROVE  \E f : /\ f[0] = <<>> /\ Within(s, S) = f[Len(s)]
                /\ \A i \in 1 .. Len(s) :
                     f[i] = IF s[i] \in S THEN Append(f[i - 1], s[i]) ELSE f[i - 1]
<1> DEFINE n == Len(s)
           iter == CHOOSE f : f = [t \in SUBSET DOMAIN s |->
                     IF t = {} THEN <<>>
                     ELSE IF s[Max(t)] \in S THEN Append(f[t \ {Max(t)}], s[Max(t)])
                     ELSE f[t \ {Max(t)}]]
           v == [i \in 0 .. n |-> iter[1 .. i]]
<1>1. n \in Nat /\ DOMAIN s = 1 .. n
  OBVIOUS
<1>2. Within(s, S) = iter[DOMAIN s]
  BY DEF Within, FoldLeft, MapThenFoldSet
<1>3. WithinFold(iter, s, S, n)
  <2>1. PICK f : f = [t \in SUBSET (1 .. n) |-> f[t]] /\ WithinFold(f, s, S, n)
    BY <1>1, WithinFoldExists
  <2>2. f = [t \in SUBSET (1 .. n) |->
               IF t = {} THEN <<>>
               ELSE IF s[Max(t)] \in S THEN Append(f[t \ {Max(t)}], s[Max(t)])
               ELSE f[t \ {Max(t)}]]
    BY Zenon, <2>1 DEF WithinFold
  <2>3. iter = [t \in SUBSET (1 .. n) |->
               IF t = {} THEN <<>>
               ELSE IF s[Max(t)] \in S THEN Append(iter[t \ {Max(t)}], s[Max(t)])
               ELSE iter[t \ {Max(t)}]]
    BY Zenon, <1>1, <2>2
  <2> HIDE DEF iter
  <2> QED
    BY <2>3 DEF WithinFold
<1> HIDE DEF iter
<1>4. v[0] = <<>>
  <2>1. 1 .. 0 = {} /\ 0 \in 0 .. n
    BY <1>1
  <2> QED
    BY <1>1, <1>3, <2>1 DEF WithinFold
<1>5. ASSUME NEW i \in 1 .. n
      PROVE v[i] = IF s[i] \in S THEN Append(v[i - 1], s[i]) ELSE v[i - 1]
  <2>1. Max(1 .. i) = i /\ (1 .. i) \ {i} = 1 .. i - 1
    BY <1>1, MaxOfAll
  <2>2. 1 .. i \in SUBSET (1 .. n) /\ 1 .. i # {} /\ i - 1 \in 0 .. n /\ i \in 0 .. n
    BY <1>1
  <2> QED
    BY <1>3, <2>1, <2>2 DEF WithinFold
<1>6. Within(s, S) = v[n]
  BY <1>1, <1>2
<1> HIDE DEF v
<1> QED
  BY <1>4, <1>5, <1>6

\* e are the places in s of the members of w.
Places(w, s, S, n, e) ==
  /\ e \in [1 .. Len(w) -> 1 .. n]
  /\ \A i \in 1 .. Len(w) : w[i] = s[e[i]] /\ s[e[i]] \in S
  /\ \A i, j \in 1 .. Len(w) : i < j => e[i] < e[j]
  /\ \A k \in 1 .. n : s[k] \in S => \E i \in 1 .. Len(w) : e[i] = k

LEMMA WithinPlaces ==
  ASSUME NEW U, NEW s \in Seq(U), NEW S
  PROVE  /\ Within(s, S) \in Seq(U)
         /\ \E e : Places(Within(s, S), s, S, Len(s), e)
<1>1. PICK f : /\ f[0] = <<>> /\ Within(s, S) = f[Len(s)]
               /\ \A i \in 1 .. Len(s) :
                     f[i] = IF s[i] \in S THEN Append(f[i - 1], s[i]) ELSE f[i - 1]
  BY WithinSteps
<1>2. Len(s) \in Nat /\ \A i \in 1 .. Len(s) : s[i] \in U
  OBVIOUS
<1> DEFINE Good == {k \in Nat : k <= Len(s) => f[k] \in Seq(U) /\ \E e : Places(f[k], s, S, k, e)}
<1>3. 0 \in Good
  <2>1. f[0] \in Seq(U) /\ Len(f[0]) = 0
    BY <1>1
  <2> DEFINE e == [i \in 1 .. 0 |-> 0]
  <2>2. Places(f[0], s, S, 0, e)
    BY <2>1 DEF Places
  <2> QED
    BY <2>1, <2>2
<1>4. ASSUME NEW k \in Nat, k \in Good PROVE k + 1 \in Good
  <2> SUFFICES ASSUME k + 1 <= Len(s)
               PROVE  f[k + 1] \in Seq(U) /\ \E e : Places(f[k + 1], s, S, k + 1, e)
    OBVIOUS
  <2>1. k + 1 \in 1 .. Len(s) /\ (k + 1) - 1 = k /\ k <= Len(s)
    BY <1>2
  <2>2. f[k] \in Seq(U) /\ s[k + 1] \in U
    BY <1>2, <1>4, <2>1
  <2>3. PICK e : Places(f[k], s, S, k, e)
    BY <1>4, <2>1
  <2> HIDE DEF Good
  <2>4. Len(f[k]) \in Nat
    BY <2>2
  <2>5. CASE s[k + 1] \in S
    <3> DEFINE w == f[k]
               m == Len(f[k]) + 1
               g == [i \in 1 .. m |-> IF i = m THEN k + 1 ELSE e[i]]
    <3>1. f[k + 1] = Append(w, s[k + 1])
      BY <1>1, <2>1, <2>5
    <3>2. /\ Append(w, s[k + 1]) \in Seq(U) /\ Len(Append(w, s[k + 1])) = m
          /\ \A i \in 1 .. Len(w) : Append(w, s[k + 1])[i] = w[i]
          /\ Append(w, s[k + 1])[m] = s[k + 1]
      BY <2>2, <2>4
    <3>3. m \in Nat /\ 1 .. m = (1 .. Len(w)) \cup {m} /\ \A i \in 1 .. Len(w) : i # m
      BY <2>4
    <3>4. /\ \A i \in 1 .. Len(w) : g[i] = e[i] /\ e[i] \in 1 .. k
          /\ g[m] = k + 1 /\ g = [i \in 1 .. m |-> g[i]]
      BY <2>3, <3>3 DEF Places
    <3> HIDE DEF g, m
    <3>5. g \in [1 .. m -> 1 .. k + 1]
      <4>0. 1 .. k \subseteq 1 .. k + 1 /\ k + 1 \in 1 .. k + 1
        OBVIOUS
      <4>1. \A i \in 1 .. m : g[i] \in 1 .. k + 1
        <5>1. g[m] \in 1 .. k + 1
          BY <3>4, <4>0
        <5>2. \A i \in 1 .. Len(w) : g[i] \in 1 .. k + 1
          BY <3>4, <4>0
        <5> QED
          BY <3>3, <5>1, <5>2
      <4> QED
        BY <3>4, <4>1
    <3>6. \A i \in 1 .. m : Append(w, s[k + 1])[i] = s[g[i]] /\ s[g[i]] \in S
      BY <2>3, <2>5, <3>2, <3>3, <3>4 DEF Places
    <3>7. ASSUME NEW i \in 1 .. m, NEW j \in 1 .. m, i < j PROVE g[i] < g[j]
      <4>1. i \in 1 .. Len(w)
        BY <2>4, <3>7 DEF m
      <4>2. CASE j = m
        <5>1. g[i] \in 1 .. k /\ g[j] = k + 1
          BY <3>4, <4>1, <4>2
        <5> QED
          BY <5>1
      <4>3. CASE j \in 1 .. Len(w)
        BY <2>3, <3>4, <3>7, <4>1, <4>3 DEF Places
      <4> QED
        BY <3>3, <4>2, <4>3
    <3>8. ASSUME NEW j \in 1 .. k + 1, s[j] \in S PROVE \E i \in 1 .. m : g[i] = j
      <4>1. CASE j = k + 1
        BY <3>3, <3>4, <4>1
      <4>2. CASE j \in 1 .. k
        BY <2>3, <3>3, <3>4, <3>8, <4>2 DEF Places
      <4> QED
        BY <4>1, <4>2
    <3>9. Places(Append(w, s[k + 1]), s, S, k + 1, g)
      BY <3>2, <3>5, <3>6, <3>7, <3>8 DEF Places
    <3> QED
      BY <3>1, <3>2, <3>9
  <2>6. CASE s[k + 1] \notin S
    <3>1. f[k + 1] = f[k]
      BY <1>1, <2>1, <2>6
    <3>2. \A j \in 1 .. k + 1 : s[j] \in S => j \in 1 .. k
      BY <2>6
    <3>3. 1 .. k \subseteq 1 .. k + 1
      OBVIOUS
    <3>4. Places(f[k], s, S, k + 1, e)
      BY <2>3, <3>2, <3>3 DEF Places
    <3> QED
      BY <2>2, <3>1, <3>4
  <2> QED
    BY <2>5, <2>6
<1>5. \A k \in Nat : k \in Good
  <2> HIDE DEF Good
  <2> QED
    BY <1>3, <1>4, FromZeroOn
<1> QED
  BY <1>1, <1>2, <1>5

LEMMA WithinIs ==
  ASSUME NEW U, NEW s \in Seq(U), NEW S
  PROVE  /\ Within(s, S) \in Seq(U)
         /\ ToSet(Within(s, S)) = ToSet(s) \cap S
         /\ IsInjective(s) => IsInjective(Within(s, S))
<1> DEFINE w == Within(s, S)
<1>1. w \in Seq(U) /\ Len(w) \in Nat /\ DOMAIN w = 1 .. Len(w) /\ Len(s) \in Nat
        /\ DOMAIN s = 1 .. Len(s)
  BY WithinPlaces
<1>2. PICK e : Places(w, s, S, Len(s), e)
  BY WithinPlaces
<1> HIDE DEF w
<1>3. ToSet(w) = ToSet(s) \cap S
  <2>1. ASSUME NEW i \in 1 .. Len(w) PROVE w[i] \in ToSet(s) \cap S
    <3>1. e[i] \in 1 .. Len(s) /\ w[i] = s[e[i]] /\ s[e[i]] \in S
      BY <1>2 DEF Places
    <3> QED
      BY <1>1, <3>1 DEF ToSet
  <2>2. ASSUME NEW k \in 1 .. Len(s), s[k] \in S PROVE \E i \in 1 .. Len(w) : w[i] = s[k]
    BY <1>2, <2>2 DEF Places
  <2>3. ToSet(w) \subseteq ToSet(s) \cap S
    BY <1>1, <2>1 DEF ToSet
  <2>4. ToSet(s) \cap S \subseteq ToSet(w)
    BY <1>1, <2>2 DEF ToSet
  <2> QED
    BY <2>3, <2>4
<1>4. ASSUME IsInjective(s) PROVE IsInjective(w)
  <2> SUFFICES ASSUME NEW i \in 1 .. Len(w), NEW j \in 1 .. Len(w), w[i] = w[j] PROVE i = j
    BY <1>1 DEF IsInjective
  <2>1. e[i] \in 1 .. Len(s) /\ e[j] \in 1 .. Len(s) /\ s[e[i]] = s[e[j]]
    BY <1>2 DEF Places
  <2>2. e[i] = e[j]
    BY <1>1, <1>4, <2>1 DEF IsInjective
  <2>3. i \in Nat /\ j \in Nat /\ e[i] \in Nat /\ e[j] \in Nat
    BY <2>1
  <2> QED
    BY <1>2, <2>2, <2>3 DEF Places
<1> QED
  BY <1>1, <1>3, <1>4 DEF w

-----------------------------------------------------------------------------
LEMMA AfterAppend ==
  ASSUME NEW U, NEW s \in Seq(U), NEW x \in U
  PROVE  /\ Append(s, x) \in Seq(U) /\ Len(Append(s, x)) = Len(s) + 1
         /\ \A i \in 1 .. Len(s) : Append(s, x)[i] = s[i]
         /\ Append(s, x)[Len(s) + 1] = x
         /\ ToSet(Append(s, x)) = ToSet(s) \cup {x}
         /\ IsInjective(s) /\ x \notin ToSet(s) => IsInjective(Append(s, x))
<1> DEFINE t == Append(s, x)
<1>1. /\ Len(s) \in Nat /\ DOMAIN s = 1 .. Len(s) /\ t \in Seq(U) /\ Len(t) = Len(s) + 1
      /\ DOMAIN t = 1 .. Len(s) + 1 /\ \A i \in 1 .. Len(s) : t[i] = s[i]
      /\ t[Len(s) + 1] = x
  OBVIOUS
<1> HIDE DEF t
<1>2. 1 .. Len(s) + 1 = (1 .. Len(s)) \cup {Len(s) + 1} /\ Len(s) + 1 \notin 1 .. Len(s)
  BY <1>1
<1>3. ToSet(t) = ToSet(s) \cup {x}
  BY <1>1, <1>2 DEF ToSet
<1>4. IsInjective(s) /\ x \notin ToSet(s) => IsInjective(t)
  BY <1>1, <1>2 DEF ToSet, IsInjective
<1> QED
  BY <1>1, <1>3, <1>4 DEF t

LEMMA AfterConcat ==
  ASSUME NEW U, NEW s \in Seq(U), NEW t \in Seq(U)
  PROVE  /\ s \o t \in Seq(U) /\ Len(s \o t) = Len(s) + Len(t)
         /\ \A i \in 1 .. Len(s) : (s \o t)[i] = s[i]
         /\ \A i \in 1 .. Len(t) : (s \o t)[Len(s) + i] = t[i]
         /\ ToSet(s \o t) = ToSet(s) \cup ToSet(t)
         /\ IsInjective(s) /\ IsInjective(t) /\ ToSet(s) \cap ToSet(t) = {}
              => IsInjective(s \o t)
<1> DEFINE w == s \o t
<1>1. /\ Len(s) \in Nat /\ DOMAIN s = 1 .. Len(s) /\ Len(t) \in Nat /\ DOMAIN t = 1 .. Len(t)
      /\ w \in Seq(U) /\ Len(w) = Len(s) + Len(t) /\ DOMAIN w = 1 .. Len(s) + Len(t)
  OBVIOUS
<1>2. \A i \in 1 .. Len(w) : w[i] = IF i <= Len(s) THEN s[i] ELSE t[i - Len(s)]
  OBVIOUS
<1> HIDE DEF w
<1>3. \A i \in 1 .. Len(s) : i \in 1 .. Len(w) /\ w[i] = s[i]
  BY <1>1, <1>2
<1>4. ASSUME NEW i \in 1 .. Len(t) PROVE Len(s) + i \in 1 .. Len(w) /\ w[Len(s) + i] = t[i]
  <2>1. Len(s) + i \in 1 .. Len(w) /\ ~ Len(s) + i <= Len(s) /\ (Len(s) + i) - Len(s) = i
    BY <1>1
  <2> QED
    BY <1>2, <2>1
<1>5. ASSUME NEW i \in 1 .. Len(w), i \notin 1 .. Len(s)
      PROVE  i - Len(s) \in 1 .. Len(t) /\ w[i] = t[i - Len(s)]
  BY <1>1, <1>2, <1>5
<1>6. ToSet(w) = ToSet(s) \cup ToSet(t)
  <2>1. ToSet(w) \subseteq ToSet(s) \cup ToSet(t)
    <3> SUFFICES ASSUME NEW i \in 1 .. Len(w) PROVE w[i] \in ToSet(s) \cup ToSet(t)
      BY <1>1 DEF ToSet
    <3> QED
      BY <1>1, <1>3, <1>5 DEF ToSet
  <2>2. ToSet(s) \subseteq ToSet(w)
    BY <1>1, <1>3 DEF ToSet
  <2>3. ToSet(t) \subseteq ToSet(w)
    <3> SUFFICES ASSUME NEW i \in 1 .. Len(t) PROVE t[i] \in ToSet(w)
      BY <1>1 DEF ToSet
    <3>1. Len(s) + i \in DOMAIN w /\ w[Len(s) + i] = t[i]
      BY <1>1, <1>4
    <3> QED
      BY <3>1 DEF ToSet
  <2> QED
    BY <2>1, <2>2, <2>3
<1>7. ASSUME IsInjective(s), IsInjective(t), ToSet(s) \cap ToSet(t) = {} PROVE IsInjective(w)
  <2> SUFFICES ASSUME NEW i \in 1 .. Len(w), NEW j \in 1 .. Len(w), w[i] = w[j] PROVE i = j
    BY <1>1 DEF IsInjective
  <2>1. CASE i \in 1 .. Len(s) /\ j \in 1 .. Len(s)
    BY <1>1, <1>3, <1>7, <2>1 DEF IsInjective
  <2>2. CASE i \notin 1 .. Len(s) /\ j \notin 1 .. Len(s)
    <3>1. i - Len(s) = j - Len(s)
      BY <1>1, <1>5, <1>7, <2>2 DEF IsInjective
    <3> QED
      BY <1>1, <3>1
  <2>3. CASE i \in 1 .. Len(s) /\ j \notin 1 .. Len(s)
    BY <1>1, <1>3, <1>5, <1>7, <2>3 DEF ToSet
  <2>4. CASE i \notin 1 .. Len(s) /\ j \in 1 .. Len(s)
    BY <1>1, <1>3, <1>5, <1>7, <2>4 DEF ToSet
  <2> QED
    BY <2>1, <2>2, <2>3, <2>4
<1> QED
  BY <1>1, <1>3, <1>4, <1>6, <1>7 DEF w

LEMMA AfterTakeOut ==
  ASSUME NEW U, NEW s \in Seq(U), NEW i \in 1 .. Len(s), IsInjective(s)
  PROVE  /\ ToSet(RemoveAt(s, i)) = ToSet(s) \ {s[i]}
         /\ IsInjective(RemoveAt(s, i))
<1> DEFINE t == RemoveAt(s, i)
           n == Len(s) - 1
<1>1. /\ t \in Seq(U) /\ Len(t) = n
      /\ \A j \in 1 .. n : t[j] = IF j < i THEN s[j] ELSE s[j + 1]
  BY TakeOut
<1>2. Len(s) \in Nat /\ DOMAIN s = 1 .. Len(s) /\ n \in Nat /\ DOMAIN t = 1 .. n /\ i \in Nat
  BY <1>1
<1> HIDE DEF t
<1>3. ASSUME NEW j \in 1 .. n PROVE t[j] \in ToSet(s) \ {s[i]}
  <2>1. j \in 1 .. Len(s) /\ j + 1 \in 1 .. Len(s)
    BY <1>2
  <2>2. j < i \/ j + 1 > i
    BY <1>2
  <2> QED
    BY <1>1, <1>2, <2>1, <2>2 DEF ToSet, IsInjective
<1>4. ASSUME NEW k \in 1 .. Len(s), k # i PROVE s[k] \in ToSet(t)
  <2>1. CASE k < i
    <3>1. k \in 1 .. n
      BY <1>2, <2>1
    <3>2. t[k] = s[k]
      BY <1>1, <2>1, <3>1
    <3> QED
      BY <1>2, <3>1, <3>2 DEF ToSet
  <2>2. CASE k > i
    <3>1. k - 1 \in 1 .. n /\ ~ k - 1 < i /\ (k - 1) + 1 = k
      BY <1>2, <2>2
    <3>2. t[k - 1] = s[k]
      BY <1>1, <3>1
    <3> QED
      BY <1>2, <3>1, <3>2 DEF ToSet
  <2> QED
    BY <1>2, <1>4, <2>1, <2>2
<1>5. ToSet(t) = ToSet(s) \ {s[i]}
  <2>1. ToSet(t) \subseteq ToSet(s) \ {s[i]}
    BY <1>2, <1>3 DEF ToSet
  <2>2. ToSet(s) \ {s[i]} \subseteq ToSet(t)
    BY <1>2, <1>4 DEF ToSet
  <2> QED
    BY <2>1, <2>2
<1>6. IsInjective(t)
  <2> SUFFICES ASSUME NEW j \in 1 .. n, NEW k \in 1 .. n, t[j] = t[k] PROVE j = k
    BY <1>2 DEF IsInjective
  <2>1. /\ j \in 1 .. Len(s) /\ j + 1 \in 1 .. Len(s)
        /\ k \in 1 .. Len(s) /\ k + 1 \in 1 .. Len(s) /\ j \in Nat /\ k \in Nat
    BY <1>2
  <2>2. t[j] = (IF j < i THEN s[j] ELSE s[j + 1]) /\ t[k] = (IF k < i THEN s[k] ELSE s[k + 1])
    BY <1>1
  <2>3. \A a, b \in 1 .. Len(s) : s[a] = s[b] => a = b
    BY <1>2 DEF IsInjective
  <2>4. CASE j < i /\ k < i
    BY <2>1, <2>2, <2>3, <2>4
  <2>5. CASE ~ j < i /\ ~ k < i
    <3>1. j + 1 = k + 1
      BY <2>1, <2>2, <2>3, <2>5
    <3> QED
      BY <2>1, <3>1
  <2>6. CASE j < i /\ ~ k < i
    <3>1. j = k + 1
      BY <2>1, <2>2, <2>3, <2>6
    <3> QED
      BY <1>2, <2>1, <2>6, <3>1
  <2>7. CASE ~ j < i /\ k < i
    <3>1. j + 1 = k
      BY <2>1, <2>2, <2>3, <2>7
    <3> QED
      BY <1>2, <2>1, <2>7, <3>1
  <2> QED
    BY <2>4, <2>5, <2>6, <2>7
<1> QED
  BY <1>5, <1>6 DEF t

\* A sequence of numbers has a largest one.
LEMMA LargestInSeq ==
  ASSUME NEW s \in Seq(Nat), s # <<>>
  PROVE  \E i \in 1 .. Len(s) : \A j \in 1 .. Len(s) : s[j] <= s[i]
<1>1. Len(s) \in Nat /\ Len(s) # 0 /\ \A i \in 1 .. Len(s) : s[i] \in Nat
  OBVIOUS
<1> DEFINE Good == {k \in Nat : k <= Len(s) /\ k # 0
                                  => \E i \in 1 .. k : \A j \in 1 .. k : s[j] <= s[i]}
<1>2. 0 \in Good
  OBVIOUS
<1>3. ASSUME NEW k \in Nat, k \in Good PROVE k + 1 \in Good
  <2> SUFFICES ASSUME k + 1 <= Len(s) PROVE \E i \in 1 .. k + 1 : \A j \in 1 .. k + 1 : s[j] <= s[i]
    OBVIOUS
  <2>1. k + 1 \in 1 .. Len(s) /\ 1 .. k + 1 = (1 .. k) \cup {k + 1} /\ 1 .. k \subseteq 1 .. Len(s)
    BY <1>1
  <2>2. CASE k = 0
    BY <1>1, <2>1, <2>2
  <2>3. CASE k # 0
    <3>1. PICK i \in 1 .. k : \A j \in 1 .. k : s[j] <= s[i]
      BY <1>1, <1>3, <2>3
    <3>2. \A j \in 1 .. k + 1 : s[j] \in Nat
      BY <1>1, <2>1
    <3>3. i \in 1 .. k + 1 /\ k + 1 \in 1 .. k + 1
      BY <2>1
    <3>4. CASE s[k + 1] <= s[i]
      BY <2>1, <3>1, <3>3, <3>4
    <3>5. CASE ~ s[k + 1] <= s[i]
      <4>1. \A j \in 1 .. k + 1 : s[j] <= s[k + 1]
        <5>1. s[i] \in Nat /\ s[k + 1] \in Nat /\ s[i] <= s[k + 1]
          BY <3>2, <3>3, <3>5
        <5> QED
          BY <2>1, <3>1, <3>2, <5>1
      <4> QED
        BY <3>3, <4>1
    <3> QED
      BY <3>4, <3>5
  <2> QED
    BY <2>2, <2>3
<1> HIDE DEF Good
<1>4. Len(s) \in Good
  BY <1>1, <1>2, <1>3, FromZeroOn
<1> QED
  BY <1>1, <1>4 DEF Good

-----------------------------------------------------------------------------
(***************************************************************************)
(* Split histories.                                                        *)
(***************************************************************************)
LEMMA HistoryType ==
  ASSUME NEW D, NEW h, IsHistory(h, D)
  PROVE  /\ Len(h.par) \in Nat /\ Commits(h) = 1 .. Len(h.par)
         /\ \A c \in Commits(h) :
              /\ c \in Nat \ {0}
              /\ h.par[c] \in Seq(Commits(h)) /\ IsInjective(h.par[c])
              /\ Len(h.par[c]) \in Nat /\ DOMAIN h.par[c] = 1 .. Len(h.par[c])
              /\ \A i \in 1 .. Len(h.par[c]) : h.par[c][i] \in ToSet(h.par[c])
              /\ \A p \in ToSet(h.par[c]) : p \in Commits(h) /\ p < c /\ h.dir[p] = h.dir[c]
              /\ h.dir[c] \in D /\ h.ct[c] \in Nat
              /\ h.anc[c] = {c} \cup UNION {h.anc[p] : p \in ToSet(h.par[c])}
              /\ h.anc[c] \subseteq Commits(h)
         /\ Null \notin Commits(h)
<1>1. /\ h.par \in Seq(Seq(Nat)) /\ h.ct \in [Commits(h) -> Nat]
      /\ h.dir \in [Commits(h) -> D] /\ h.anc \in [Commits(h) -> SUBSET Commits(h)]
      /\ \A c \in Commits(h) :
           /\ IsInjective(h.par[c])
           /\ \A p \in ToSet(h.par[c]) : p \in 1..(c - 1) /\ h.dir[p] = h.dir[c]
           /\ h.anc[c] = {c} \cup UNION {h.anc[p] : p \in ToSet(h.par[c])}
  BY DEF IsHistory
<1>2. Len(h.par) \in Nat /\ Commits(h) = 1 .. Len(h.par)
  BY <1>1 DEF Commits
<1>3. Null \notin Commits(h)
  BY <1>2 DEF Null
<1>4. ASSUME NEW c \in Commits(h)
      PROVE  /\ c \in Nat \ {0} /\ h.par[c] \in Seq(Commits(h)) /\ Len(h.par[c]) \in Nat
             /\ DOMAIN h.par[c] = 1 .. Len(h.par[c])
             /\ \A i \in 1 .. Len(h.par[c]) : h.par[c][i] \in ToSet(h.par[c])
             /\ \A p \in ToSet(h.par[c]) : p \in Commits(h) /\ p < c
  <2>1. c \in Nat \ {0} /\ h.par[c] \in Seq(Nat) /\ c <= Len(h.par)
    BY <1>1, <1>2
  <2>2. Len(h.par[c]) \in Nat /\ DOMAIN h.par[c] = 1 .. Len(h.par[c])
    BY <2>1
  <2>3. \A i \in 1 .. Len(h.par[c]) : h.par[c][i] \in ToSet(h.par[c])
    BY <2>2 DEF ToSet
  <2>4. \A p \in 1 .. (c - 1) : p \in 1 .. Len(h.par) /\ p < c
    BY <2>1, <1>2
  <2>5. \A p \in ToSet(h.par[c]) : p \in Commits(h) /\ p < c
    BY <1>1, <1>2, <2>4
  <2>6. h.par[c] \in Seq(Commits(h))
    <3>1. \A i \in 1 .. Len(h.par[c]) : h.par[c][i] \in Commits(h)
      BY <2>3, <2>5
    <3> QED
      BY SMTT(30), <2>1, <3>1
  <2> QED
    BY <2>1, <2>2, <2>3, <2>5, <2>6
<1> QED
  BY <1>1, <1>2, <1>3, <1>4

LEMMA AncestorsBelow ==
  ASSUME NEW D, NEW h, IsHistory(h, D), NEW c \in Commits(h), NEW a \in h.anc[c]
  PROVE  a <= c
<1> DEFINE Bad == {k \in Commits(h) : \E b \in h.anc[k] : ~ b <= k}
<1>1. SUFFICES ASSUME Bad # {} PROVE FALSE
  BY HistoryType
<1>2. Commits(h) \subseteq Nat
  BY HistoryType
<1>3. PICK k \in Bad : \A j \in Bad : k <= j
  <2>1. Bad \subseteq Nat
    BY <1>2
  <2> HIDE DEF Bad
  <2> QED
    BY <1>1, <2>1, SmallestNat
<1>4. PICK b \in h.anc[k] : ~ b <= k
  OBVIOUS
<1>5. /\ h.anc[k] = {k} \cup UNION {h.anc[p] : p \in ToSet(h.par[k])}
      /\ \A p \in ToSet(h.par[k]) : p \in Commits(h) /\ p < k
      /\ k \in Nat /\ b \in Nat
  <2>1. b \in Commits(h) /\ k \in Commits(h)
    BY HistoryType
  <2> QED
    BY <2>1, <1>2, HistoryType
<1>6. PICK p \in ToSet(h.par[k]) : b \in h.anc[p]
  BY <1>4, <1>5
<1>7. p \in Commits(h) /\ p < k /\ p \in Nat
  BY <1>2, <1>5
<1>8. b <= p
  <2>1. p \notin Bad
    BY <1>3, <1>5, <1>7
  <2> QED
    BY <1>6, <1>7, <2>1
<1> QED
  BY <1>4, <1>5, <1>7, <1>8

LEMMA AncestorsClosed ==
  ASSUME NEW D, NEW h, IsHistory(h, D), NEW c \in Commits(h), NEW a \in h.anc[c]
  PROVE  h.anc[a] \subseteq h.anc[c] /\ h.dir[a] = h.dir[c]
<1> DEFINE Bad == {k \in Commits(h) : \E b \in h.anc[k] : ~ (h.anc[b] \subseteq h.anc[k]
                    /\ h.dir[b] = h.dir[k])}
<1>1. SUFFICES ASSUME Bad # {} PROVE FALSE
  BY HistoryType
<1>2. Commits(h) \subseteq Nat
  BY HistoryType
<1>3. PICK k \in Bad : \A j \in Bad : k <= j
  <2>1. Bad \subseteq Nat
    BY <1>2
  <2> HIDE DEF Bad
  <2> QED
    BY <1>1, <2>1, SmallestNat
<1>4. PICK b \in h.anc[k] : ~ (h.anc[b] \subseteq h.anc[k] /\ h.dir[b] = h.dir[k])
  OBVIOUS
<1>5. /\ h.anc[k] = {k} \cup UNION {h.anc[p] : p \in ToSet(h.par[k])}
      /\ \A p \in ToSet(h.par[k]) : p \in Commits(h) /\ p < k /\ h.dir[p] = h.dir[k]
      /\ k \in Nat
  BY <1>2, HistoryType
<1>6. PICK p \in ToSet(h.par[k]) : b \in h.anc[p]
  BY <1>4, <1>5
<1>7. p \in Commits(h) /\ ~ k <= p /\ h.dir[p] = h.dir[k]
  BY <1>2, <1>5
<1>8. p \notin Bad
  BY <1>3, <1>7
<1>9. h.anc[b] \subseteq h.anc[p] /\ h.dir[b] = h.dir[p]
  BY <1>6, <1>7, <1>8
<1> QED
  BY <1>4, <1>5, <1>7, <1>9

LEMMA AncestorFacts ==
  ASSUME NEW D, NEW h, IsHistory(h, D), NEW c \in Commits(h)
  PROVE  /\ c \in h.anc[c] /\ h.anc[c] \subseteq Commits(h)
         /\ \A p \in ToSet(h.par[c]) : p \in h.anc[c] /\ h.anc[p] \subseteq h.anc[c]
              /\ c \notin h.anc[p]
         /\ \A a \in h.anc[c] : /\ h.anc[a] \subseteq h.anc[c] /\ h.dir[a] = h.dir[c] /\ a <= c
                                /\ c \in h.anc[a] => a = c
                                /\ a # c => \E p \in ToSet(h.par[c]) : a \in h.anc[p]
<1>1. /\ h.anc[c] = {c} \cup UNION {h.anc[p] : p \in ToSet(h.par[c])} /\ c \in Nat
      /\ h.anc[c] \subseteq Commits(h)
      /\ \A p \in ToSet(h.par[c]) : p \in Commits(h) /\ p < c /\ p \in Nat
  BY HistoryType
<1>2. ASSUME NEW p \in ToSet(h.par[c])
      PROVE  p \in h.anc[c] /\ h.anc[p] \subseteq h.anc[c] /\ c \notin h.anc[p]
  <2>1. p \in h.anc[p]
    BY <1>1, HistoryType
  <2>2. c \in h.anc[p] => c <= p
    BY <1>1, AncestorsBelow
  <2> QED
    BY <1>1, <2>1, <2>2
<1>3. ASSUME NEW a \in h.anc[c]
      PROVE  /\ h.anc[a] \subseteq h.anc[c] /\ h.dir[a] = h.dir[c] /\ a <= c
             /\ c \in h.anc[a] => a = c
             /\ a # c => \E p \in ToSet(h.par[c]) : a \in h.anc[p]
  <2>1. a \in Commits(h) /\ a \in Nat
    BY <1>1, HistoryType
  <2>2. a <= c /\ (c \in h.anc[a] => c <= a)
    BY <2>1, AncestorsBelow
  <2>3. h.anc[a] \subseteq h.anc[c] /\ h.dir[a] = h.dir[c]
    BY AncestorsClosed
  <2> QED
    BY <1>1, <2>1, <2>2, <2>3
<1> QED
  BY <1>1, <1>2, <1>3

\* A proper ancestor is the parent of an ancestor.
LEMMA ChildBetween ==
  ASSUME NEW D, NEW h, IsHistory(h, D), NEW c \in Commits(h), NEW a \in h.anc[c], a # c
  PROVE  \E k \in h.anc[c] : a \in ToSet(h.par[k])
<1> DEFINE Bad == {k \in Commits(h) : \E b \in h.anc[k] :
                     b # k /\ ~ \E j \in h.anc[k] : b \in ToSet(h.par[j])}
<1>1. SUFFICES ASSUME Bad # {} PROVE FALSE
  OBVIOUS
<1>2. Commits(h) \subseteq Nat
  BY HistoryType
<1>3. PICK k \in Bad : \A j \in Bad : k <= j
  <2>1. Bad \subseteq Nat
    BY <1>2
  <2> HIDE DEF Bad
  <2> QED
    BY <1>1, <2>1, SmallestNat
<1>4. PICK b \in h.anc[k] : b # k /\ ~ \E j \in h.anc[k] : b \in ToSet(h.par[j])
  OBVIOUS
<1>5. k \in h.anc[k] /\ \E p \in ToSet(h.par[k]) : b \in h.anc[p]
  BY <1>4, AncestorFacts
<1>6. PICK p \in ToSet(h.par[k]) : b \in h.anc[p]
  BY <1>5
<1>7. p \in Commits(h) /\ ~ k <= p /\ h.anc[p] \subseteq h.anc[k]
  <2>1. p \in Commits(h) /\ p < k
    BY HistoryType
  <2> QED
    BY <1>2, <2>1, AncestorFacts
<1>8. p \notin Bad
  BY <1>3, <1>7
<1> QED
  BY <1>4, <1>5, <1>6, <1>7, <1>8

-----------------------------------------------------------------------------
(***************************************************************************)
(* git-log.  A region of commits that all come from the tip is listed from *)
(* the tip on, each commit once; by --date-order a commit comes before its *)
(* parents; and if parents are older than their children, a commit is not  *)
(* older than the next.                                                    *)
(***************************************************************************)
FromTip(h, tip, region) ==
  /\ tip \in region /\ region \subseteq h.anc[tip] /\ region \subseteq Commits(h)
  /\ \A p \in region \ {tip} : \E k \in region : p \in ToSet(h.par[k])

InOrder(h) == \A c \in Commits(h) : \A p \in ToSet(h.par[c]) : h.ct[p] < h.ct[c]

\* What is queued and listed so far.
Listing(h, tip, region, s) ==
  /\ s.queue \in Seq(region) /\ s.out \in Seq(region)
  /\ IsInjective(s.queue) /\ IsInjective(s.out)
  /\ ToSet(s.queue) \cap ToSet(s.out) = {}
  /\ tip \in ToSet(s.queue) \cup ToSet(s.out)
  /\ IF s.out = <<>> THEN s.queue = <<tip>> ELSE s.out[1] = tip

\* Every commit of which enough children are listed has been queued.
Queued(h, region, dateOrder, s) ==
  \A p \in region :
    /\ \E k \in ToSet(s.out) : p \in ToSet(h.par[k])
    /\ dateOrder => \A k \in region : p \in ToSet(h.par[k]) => k \in ToSet(s.out)
    => p \in ToSet(s.queue) \cup ToSet(s.out)

ChildrenFirst(h, region, s) ==
  /\ \A p \in ToSet(s.queue) \cup ToSet(s.out), k \in region :
       p \in ToSet(h.par[k]) => k \in ToSet(s.out)
  /\ \A j \in 1 .. Len(s.out), k \in region :
       s.out[j] \in ToSet(h.par[k]) => \E i \in 1 .. j - 1 : s.out[i] = k

NewestFirst(h, s) ==
  /\ \A i, j \in 1 .. Len(s.out) : i < j => h.ct[s.out[j]] <= h.ct[s.out[i]]
  /\ \A c \in ToSet(s.out), q \in ToSet(s.queue) : h.ct[q] <= h.ct[c]

LogState(h, tip, region, dateOrder, s) ==
  /\ Listing(h, tip, region, s)
  /\ Queued(h, region, dateOrder, s)
  /\ dateOrder => ChildrenFirst(h, region, s)
  /\ InOrder(h) => NewestFirst(h, s)

\* A step of the listing: x is listed and some of its parents are queued.
LEMMA ListNewestIs ==
  ASSUME NEW D, NEW h, IsHistory(h, D), NEW tip, NEW region, FromTip(h, tip, region),
         NEW dateOrder \in BOOLEAN, NEW s, Listing(h, tip, region, s), s.queue # <<>>,
         NEW t, t = ListNewest(h, region, dateOrder, s)
  PROVE  \E x \in ToSet(s.queue) :
           /\ \A q \in ToSet(s.queue) : h.ct[q] <= h.ct[x]
           /\ t.out = Append(s.out, x)
           /\ t.queue \in Seq(region) /\ IsInjective(t.queue)
           /\ s.out = <<>> => x = tip
           /\ \A p : p \in ToSet(t.queue) <=>
                \/ p \in ToSet(s.queue) \ {x}
                \/ /\ p \in ToSet(h.par[x]) \cap region
                   /\ p \notin ToSet(t.out) \cup (ToSet(s.queue) \ {x})
                   /\ dateOrder => \A k \in region : p \in ToSet(h.par[k]) => k \in ToSet(t.out)
<1> DEFINE Q == s.queue
           news == {k \in DOMAIN Q : \A j \in DOMAIN Q : h.ct[Q[j]] <= h.ct[Q[k]]}
           i == Min(news)
           x == Q[i]
           rest == RemoveAt(Q, i)
           out == Append(s.out, x)
           ready == {p \in region \ (ToSet(out) \cup ToSet(rest)) :
                       dateOrder => \A k \in region : p \in ToSet(h.par[k]) => k \in ToSet(out)}
           more == Within(h.par[x], ready)
<1>1. t = [queue |-> rest \o more, out |-> out]
  BY Zenon DEF ListNewest
<1>2. /\ Q \in Seq(region) /\ s.out \in Seq(region) /\ IsInjective(Q) /\ Q # <<>>
      /\ region \subseteq Commits(h)
  BY DEF Listing, FromTip
<1>3. /\ Len(Q) \in Nat /\ DOMAIN Q = 1 .. Len(Q) /\ \A j \in 1 .. Len(Q) : Q[j] \in region
      /\ \A j \in 1 .. Len(Q) : Q[j] \in ToSet(Q)
  <2>1. Len(Q) \in Nat /\ DOMAIN Q = 1 .. Len(Q) /\ \A j \in 1 .. Len(Q) : Q[j] \in region
    BY <1>2
  <2> QED
    BY <2>1 DEF ToSet
<1>4. i \in 1 .. Len(Q) /\ \A j \in 1 .. Len(Q) : h.ct[Q[j]] <= h.ct[x]
  <2> DEFINE dates == [j \in 1 .. Len(Q) |-> h.ct[Q[j]]]
  <2>1. \A j \in 1 .. Len(Q) : h.ct[Q[j]] \in Nat
    BY <1>2, <1>3, HistoryType
  <2>2. dates \in Seq(Nat) /\ Len(dates) = Len(Q) /\ \A j \in 1 .. Len(Q) : dates[j] = h.ct[Q[j]]
    BY <1>3, <2>1
  <2>3. Len(Q) # 0
    BY <1>2, <1>3
  <2>4. dates # <<>>
    BY <2>2, <2>3
  <2> HIDE DEF dates
  <2>5. PICK k \in 1 .. Len(Q) : \A j \in 1 .. Len(Q) : dates[j] <= dates[k]
    BY <2>2, <2>4, LargestInSeq
  <2>6. k \in news
    BY <1>3, <2>2, <2>5
  <2>7. news \subseteq Nat /\ news # {}
    BY SMTT(30), <1>3, <2>6
  <2>8. i \in news
    <3> HIDE DEF news
    <3> QED
      BY <2>7, MinIs
  <2> QED
    BY <1>3, <2>8
<1> HIDE DEF i, Q
<1>5. x \in ToSet(Q) /\ x \in region /\ x \in Commits(h)
  BY <1>2, <1>3, <1>4
<1>6. /\ rest \in Seq(region) /\ ToSet(rest) = ToSet(Q) \ {x} /\ IsInjective(rest)
  BY <1>2, <1>4, TakeOut, AfterTakeOut
<1>7. h.par[x] \in Seq(Commits(h)) /\ IsInjective(h.par[x])
  BY <1>5, HistoryType
<1> HIDE DEF rest, x, out
<1>8. /\ more \in Seq(Commits(h)) /\ ToSet(more) = ToSet(h.par[x]) \cap ready
      /\ IsInjective(more)
  <2> HIDE DEF ready
  <2> QED
    BY <1>7, WithinIs
<1>9. more \in Seq(region)
  <2>1. ToSet(more) \subseteq region
    BY <1>8
  <2> HIDE DEF more
  <2>2. \A j \in 1 .. Len(more) : more[j] \in region
    <3>1. DOMAIN more = 1 .. Len(more)
      BY <1>8
    <3> QED
      BY <2>1, <3>1 DEF ToSet
  <2> QED
    BY <1>8, <2>2
<1>10. ToSet(rest) \cap ToSet(more) = {}
  BY <1>8
<1> HIDE DEF more
<1>11. /\ rest \o more \in Seq(region) /\ IsInjective(rest \o more)
       /\ ToSet(rest \o more) = ToSet(rest) \cup ToSet(more)
  BY <1>6, <1>8, <1>9, <1>10, AfterConcat
<1>12. s.out = <<>> => x = tip
  <2> SUFFICES ASSUME s.out = <<>> PROVE x = tip
    OBVIOUS
  <2>1. Q = <<tip>>
    BY DEF Listing, Q
  <2> QED
    BY <1>5, <2>1 DEF ToSet
<1>13. t.queue = rest \o more /\ t.out = out
  BY <1>1
<1>14. \A p : p \in ToSet(t.queue) <=>
                \/ p \in ToSet(Q) \ {x}
                \/ /\ p \in ToSet(h.par[x]) \cap region
                   /\ p \notin ToSet(t.out) \cup (ToSet(Q) \ {x})
                   /\ dateOrder => \A k \in region : p \in ToSet(h.par[k]) => k \in ToSet(t.out)
  BY <1>6, <1>8, <1>11, <1>13
<1>15. \A q \in ToSet(Q) : h.ct[q] <= h.ct[x]
  BY <1>3, <1>4 DEF ToSet
<1> QED
  BY <1>5, <1>11, <1>12, <1>13, <1>14, <1>15 DEF Q, out

LEMMA LogNext ==
  ASSUME NEW D, NEW h, IsHistory(h, D), NEW tip, NEW region, FromTip(h, tip, region),
         NEW dateOrder \in BOOLEAN, NEW s, LogState(h, tip, region, dateOrder, s), s.queue # <<>>,
         NEW t, t = ListNewest(h, region, dateOrder, s)
  PROVE  LogState(h, tip, region, dateOrder, t) /\ Len(t.out) = Len(s.out) + 1
<1>0. Listing(h, tip, region, s) /\ region \subseteq Commits(h)
  BY DEF LogState, FromTip
<1>1. PICK x \in ToSet(s.queue) :
           /\ \A q \in ToSet(s.queue) : h.ct[q] <= h.ct[x]
           /\ t.out = Append(s.out, x)
           /\ t.queue \in Seq(region) /\ IsInjective(t.queue)
           /\ s.out = <<>> => x = tip
           /\ \A p : p \in ToSet(t.queue) <=>
                \/ p \in ToSet(s.queue) \ {x}
                \/ /\ p \in ToSet(h.par[x]) \cap region
                   /\ p \notin ToSet(t.out) \cup (ToSet(s.queue) \ {x})
                   /\ dateOrder => \A k \in region : p \in ToSet(h.par[k]) => k \in ToSet(t.out)
  BY SMTT(30), <1>0, ListNewestIs
<1>2. x \in region /\ x \notin ToSet(s.out) /\ x \in Commits(h)
  <2>1. s.queue \in Seq(region) /\ ToSet(s.queue) \cap ToSet(s.out) = {}
    BY <1>0 DEF Listing
  <2>2. x \in region
    BY <2>1 DEF ToSet
  <2> QED
    BY <1>0, <2>1, <2>2
<1>3. /\ s.out \in Seq(region) /\ Len(s.out) \in Nat /\ IsInjective(s.out)
      /\ t.out \in Seq(region) /\ Len(t.out) = Len(s.out) + 1
      /\ \A i \in 1 .. Len(s.out) : t.out[i] = s.out[i]
      /\ t.out[Len(s.out) + 1] = x
      /\ ToSet(t.out) = ToSet(s.out) \cup {x}
      /\ IsInjective(t.out)
  <2>1. s.out \in Seq(region) /\ IsInjective(s.out)
    BY <1>0 DEF Listing
  <2> QED
    BY <1>1, <1>2, <2>1, AfterAppend
<1>4. x \notin ToSet(h.par[x])
  <2>1. \A p \in ToSet(h.par[x]) : p < x
    BY <1>2, HistoryType
  <2>2. x \in Nat
    BY <1>2, HistoryType
  <2> QED
    BY <2>1, <2>2
<1>5. Listing(h, tip, region, t)
  <2>1. ToSet(t.queue) \cap ToSet(t.out) = {}
    <3>1. ToSet(s.queue) \cap ToSet(s.out) = {}
      BY <1>0 DEF Listing
    <3> QED
      BY <1>1, <1>3, <3>1
  <2>2. tip \in ToSet(t.queue) \cup ToSet(t.out)
    <3>1. tip \in ToSet(s.queue) \cup ToSet(s.out)
      BY <1>0 DEF Listing
    <3> QED
      BY <1>1, <1>3, <3>1
  <2>3. t.out # <<>> /\ t.out[1] = tip
    <3>1. Len(t.out) # 0
      BY <1>3
    <3>2. CASE s.out = <<>>
      <4>1. Len(s.out) = 0
        BY <3>2
      <4> QED
        BY <1>1, <1>3, <3>1, <3>2, <4>1
    <3>3. CASE s.out # <<>>
      <4>1. Len(s.out) # 0
        BY <1>3, <3>3
      <4>2. 1 \in 1 .. Len(s.out)
        BY <1>3, <4>1
      <4> QED
        BY <1>0, <1>3, <3>1, <3>3, <4>2 DEF Listing
    <3> QED
      BY <3>2, <3>3
  <2> QED
    BY <1>1, <1>3, <2>1, <2>2, <2>3 DEF Listing
<1>6. Queued(h, region, dateOrder, t)
  <2> SUFFICES ASSUME NEW p \in region,
                      \E k \in ToSet(t.out) : p \in ToSet(h.par[k]),
                      dateOrder => \A k \in region : p \in ToSet(h.par[k]) => k \in ToSet(t.out)
               PROVE  p \in ToSet(t.queue) \cup ToSet(t.out)
    BY DEF Queued
  <2>1. CASE p \in ToSet(h.par[x])
    BY <1>1, <2>1
  <2>2. CASE p \notin ToSet(h.par[x])
    <3>1. p \in ToSet(s.queue) \cup ToSet(s.out)
      BY <1>3, <2>2 DEF LogState, Queued
    <3> QED
      BY <1>1, <1>3, <3>1
  <2> QED
    BY <2>1, <2>2
<1>7. ASSUME dateOrder PROVE ChildrenFirst(h, region, t)
  <2>1. ChildrenFirst(h, region, s)
    BY <1>7 DEF LogState
  <2>2. ASSUME NEW p \in ToSet(t.queue) \cup ToSet(t.out), NEW k \in region, p \in ToSet(h.par[k])
        PROVE  k \in ToSet(t.out)
    <3>1. CASE p \in ToSet(s.queue) \cup ToSet(s.out)
      <4>1. k \in ToSet(s.out)
        BY <2>1, <2>2, <3>1 DEF ChildrenFirst
      <4> QED
        BY <1>3, <4>1
    <3>2. CASE p \notin ToSet(s.queue) \cup ToSet(s.out)
      <4>1. p \in ToSet(t.queue)
        BY <1>1, <1>3, <2>2, <3>2
      <4>2. \A j \in region : p \in ToSet(h.par[j]) => j \in ToSet(t.out)
        BY <1>1, <1>7, <3>2, <4>1
      <4> QED
        BY <2>2, <4>2
    <3> QED
      BY <3>1, <3>2
  <2>3. ASSUME NEW j \in 1 .. Len(t.out), NEW k \in region, t.out[j] \in ToSet(h.par[k])
        PROVE  \E i \in 1 .. j - 1 : t.out[i] = k
    <3>1. CASE j \in 1 .. Len(s.out)
      <4>1. PICK i \in 1 .. j - 1 : s.out[i] = k
        BY <1>3, <2>1, <2>3, <3>1 DEF ChildrenFirst
      <4>2. i \in 1 .. Len(s.out)
        BY <1>3, <3>1
      <4> QED
        BY <1>3, <4>1, <4>2
    <3>2. CASE j = Len(s.out) + 1
      <4>1. k \in ToSet(s.out)
        BY <1>3, <2>1, <2>3, <3>2 DEF ChildrenFirst
      <4>2. PICK i \in 1 .. Len(s.out) : s.out[i] = k
        BY <1>3, <4>1 DEF ToSet
      <4> QED
        BY <1>3, <3>2, <4>2
    <3> QED
      BY <1>3, <3>1, <3>2
  <2> QED
    BY <2>2, <2>3 DEF ChildrenFirst
<1>8. ASSUME InOrder(h) PROVE NewestFirst(h, t)
  <2>1. NewestFirst(h, s)
    BY <1>8 DEF LogState
  <2>2. \A c \in region : h.ct[c] \in Nat
    BY <1>0, HistoryType
  <2>3. ToSet(s.out) \subseteq region /\ ToSet(s.queue) \subseteq region
          /\ ToSet(t.queue) \subseteq region
    BY <1>0, <1>1, <1>3 DEF ToSet, Listing
  <2>4. ASSUME NEW q \in ToSet(t.queue) PROVE h.ct[q] <= h.ct[x]
    <3>1. CASE q \in ToSet(s.queue)
      BY <1>1, <3>1
    <3>2. CASE q \in ToSet(h.par[x])
      <4>1. h.ct[q] < h.ct[x]
        BY <1>2, <1>8, <3>2 DEF InOrder
      <4> QED
        BY <1>2, <2>2, <2>3, <4>1
    <3> QED
      BY <1>1, <3>1, <3>2
  <2>5. ASSUME NEW c \in ToSet(t.out), NEW q \in ToSet(t.queue) PROVE h.ct[q] <= h.ct[c]
    <3>1. CASE c = x
      BY <2>4, <3>1
    <3>2. CASE c \in ToSet(s.out)
      <4>1. h.ct[x] <= h.ct[c]
        BY <2>1, <3>2 DEF NewestFirst
      <4> QED
        BY <1>2, <2>2, <2>3, <2>4, <3>2, <4>1
    <3> QED
      BY <1>3, <3>1, <3>2
  <2>6. ASSUME NEW i \in 1 .. Len(t.out), NEW j \in 1 .. Len(t.out), i < j
        PROVE  h.ct[t.out[j]] <= h.ct[t.out[i]]
    <3>1. i \in 1 .. Len(s.out)
      BY <1>3, <2>6
    <3>2. CASE j \in 1 .. Len(s.out)
      BY <1>3, <2>1, <2>6, <3>1, <3>2 DEF NewestFirst
    <3>3. CASE j = Len(s.out) + 1
      <4>1. s.out[i] \in ToSet(s.out)
        BY <1>3, <3>1 DEF ToSet
      <4> QED
        BY <1>3, <2>1, <3>1, <3>3, <4>1 DEF NewestFirst
    <3> QED
      BY <1>3, <3>2, <3>3
  <2> QED
    BY <2>5, <2>6 DEF NewestFirst
<1> QED
  BY <1>3, <1>5, <1>6, <1>7, <1>8 DEF LogState

LogStep(h, region, dateOrder, s) ==
  IF s.queue = <<>> THEN s ELSE ListNewest(h, region, dateOrder, s)

LogSteps(h, tip, region, dateOrder, f, n) ==
  /\ f = [k \in 0 .. n |-> f[k]]
  /\ f[0] = [queue |-> <<tip>>, out |-> <<>>]
  /\ \A k \in 1 .. n : f[k] = LogStep(h, region, dateOrder, f[k - 1])

LEMMA LogStepsExist ==
  ASSUME NEW h, NEW tip, NEW region, NEW dateOrder, NEW n \in Nat
  PROVE  \E f : LogSteps(h, tip, region, dateOrder, f, n)
<1> DEFINE Good == {k \in Nat : \E f : LogSteps(h, tip, region, dateOrder, f, k)}
<1>1. 0 \in Good
  <2> DEFINE f == [k \in 0 .. 0 |-> [queue |-> <<tip>>, out |-> <<>>]]
  <2>1. LogSteps(h, tip, region, dateOrder, f, 0)
    BY DEF LogSteps
  <2> QED
    BY <2>1
<1>2. ASSUME NEW k \in Nat, k \in Good PROVE k + 1 \in Good
  <2>1. PICK f : LogSteps(h, tip, region, dateOrder, f, k)
    BY <1>2
  <2> DEFINE g == [j \in 0 .. k + 1 |->
                     IF j = k + 1 THEN LogStep(h, region, dateOrder, f[k]) ELSE f[j]]
  <2>2. \A j \in 0 .. k : j # k + 1 /\ j \in 0 .. k + 1
    OBVIOUS
  <2>3. g[k + 1] = LogStep(h, region, dateOrder, f[k]) /\ \A j \in 0 .. k : g[j] = f[j]
    BY <2>2
  <2>4. g = [j \in 0 .. k + 1 |-> g[j]]
    OBVIOUS
  <2> HIDE DEF g
  <2>5. 0 \in 0 .. k /\ k \in 0 .. k
    OBVIOUS
  <2>6. g[0] = [queue |-> <<tip>>, out |-> <<>>]
    BY <2>1, <2>3, <2>5 DEF LogSteps
  <2>7. ASSUME NEW j \in 1 .. k + 1 PROVE g[j] = LogStep(h, region, dateOrder, g[j - 1])
    <3>1. CASE j = k + 1
      <4>1. j - 1 = k
        BY <3>1
      <4> QED
        BY <2>3, <2>5, <3>1, <4>1
    <3>2. CASE j # k + 1
      <4>1. j \in 1 .. k /\ j \in 0 .. k /\ j - 1 \in 0 .. k
        BY <3>2
      <4> QED
        BY <2>1, <2>3, <4>1 DEF LogSteps
    <3> QED
      BY <3>1, <3>2
  <2>8. LogSteps(h, tip, region, dateOrder, g, k + 1)
    BY <2>4, <2>6, <2>7 DEF LogSteps
  <2> QED
    BY <2>8
<1> HIDE DEF Good
<1>3. n \in Good
  BY <1>1, <1>2, FromZeroOn
<1> QED
  BY <1>3 DEF Good

LEMMA LogStepsOf ==
  ASSUME NEW h, NEW tip, NEW region, NEW dateOrder, tip \in region, Cardinality(region) \in Nat
  PROVE  \E f : /\ LogSteps(h, tip, region, dateOrder, f, Cardinality(region))
                /\ LogOrder(h, tip, region, dateOrder) = f[Cardinality(region)].out
<1> DEFINE n == Cardinality(region)
           log == CHOOSE f : f = [k \in 0 .. n |->
                    IF k = 0 THEN [queue |-> <<tip>>, out |-> <<>>]
                    ELSE IF f[k - 1].queue = <<>> THEN f[k - 1]
                         ELSE ListNewest(h, region, dateOrder, f[k - 1])]
<1>1. LogOrder(h, tip, region, dateOrder) = log[n].out
  BY DEF LogOrder
<1>2. LogSteps(h, tip, region, dateOrder, log, n)
  <2>1. PICK f : LogSteps(h, tip, region, dateOrder, f, n)
    BY LogStepsExist
  <2>2. \A k \in 0 .. n : k # 0 => k \in 1 .. n
    OBVIOUS
  <2>3. \A k \in 0 .. n : f[k] = IF k = 0 THEN [queue |-> <<tip>>, out |-> <<>>]
                    ELSE IF f[k - 1].queue = <<>> THEN f[k - 1]
                         ELSE ListNewest(h, region, dateOrder, f[k - 1])
    BY <2>1, <2>2 DEF LogSteps, LogStep
  <2>4. f = [k \in 0 .. n |-> IF k = 0 THEN [queue |-> <<tip>>, out |-> <<>>]
                    ELSE IF f[k - 1].queue = <<>> THEN f[k - 1]
                         ELSE ListNewest(h, region, dateOrder, f[k - 1])]
    BY Zenon, <2>1, <2>3 DEF LogSteps
  <2>5. log = [k \in 0 .. n |-> IF k = 0 THEN [queue |-> <<tip>>, out |-> <<>>]
                    ELSE IF log[k - 1].queue = <<>> THEN log[k - 1]
                         ELSE ListNewest(h, region, dateOrder, log[k - 1])]
    BY Zenon, <2>4
  <2> HIDE DEF log
  <2>6. log = [k \in 0 .. n |-> log[k]]
    BY <2>5
  <2>7. log[0] = [queue |-> <<tip>>, out |-> <<>>]
    BY <2>5
  <2>8. ASSUME NEW k \in 1 .. n PROVE log[k] = LogStep(h, region, dateOrder, log[k - 1])
    <3>1. k \in 0 .. n /\ k # 0
      OBVIOUS
    <3> QED
      BY <2>5, <3>1 DEF LogStep
  <2> QED
    BY <2>6, <2>7, <2>8 DEF LogSteps
<1> HIDE DEF log
<1> QED
  BY <1>1, <1>2

\* A listing as long as its region has all of it.
LEMMA AllListed ==
  ASSUME NEW S, IsFiniteSet(S), NEW s \in Seq(S), IsInjective(s), Len(s) = Cardinality(S)
  PROVE  ToSet(s) = S
<1>1. Len(s) \in Nat /\ DOMAIN s = 1 .. Len(s) /\ s \in [1 .. Len(s) -> S]
  OBVIOUS
<1>2. s \in Injection(1 .. Len(s), S)
  BY <1>1 DEF IsInjective, Injection
<1>3. Cardinality(1 .. Len(s)) = Len(s)
  BY <1>1, FS_Interval
<1>4. s \in Surjection(1 .. Len(s), S)
  BY <1>2, <1>3, FS_Injection
<1>5. \A x \in S : \E i \in 1 .. Len(s) : s[i] = x
  BY <1>4 DEF Surjection
<1>6. ToSet(s) \subseteq S
  BY <1>1 DEF ToSet
<1> QED
  BY <1>1, <1>5, <1>6 DEF ToSet

LEMMA LogOrderIs ==
  ASSUME NEW D, NEW h, IsHistory(h, D), NEW tip, NEW region, FromTip(h, tip, region),
         NEW dateOrder \in BOOLEAN, NEW L, L = LogOrder(h, tip, region, dateOrder)
  PROVE  /\ L \in Seq(region) /\ IsInjective(L) /\ ToSet(L) = region
         /\ L # <<>> /\ L[1] = tip
         /\ dateOrder => \A j \in 1 .. Len(L), k \in region :
                           L[j] \in ToSet(h.par[k]) => \E i \in 1 .. j - 1 : L[i] = k
         /\ InOrder(h) => \A i, j \in 1 .. Len(L) : i < j => h.ct[L[j]] <= h.ct[L[i]]
<1> DEFINE n == Cardinality(region)
<1>1. /\ region \subseteq Commits(h) /\ tip \in region /\ region \subseteq Nat
      /\ IsFiniteSet(region) /\ n \in Nat
  <2>1. region \subseteq Commits(h) /\ tip \in region
    BY DEF FromTip
  <2>2. Commits(h) = 1 .. Len(h.par) /\ Len(h.par) \in Nat
    BY HistoryType
  <2>3. IsFiniteSet(Commits(h))
    BY <2>2, FS_Interval
  <2>4. IsFiniteSet(region)
    BY <2>1, <2>3, FS_Subset
  <2>5. region \subseteq Nat
    BY <2>1, <2>2
  <2> QED
    BY <2>1, <2>4, <2>5, FS_CardinalityType
<1>2. PICK f : LogSteps(h, tip, region, dateOrder, f, n) /\ L = f[n].out
  BY <1>1, LogStepsOf
<1> HIDE DEF n
<1> DEFINE Good == {k \in Nat : k <= n => /\ LogState(h, tip, region, dateOrder, f[k])
                                          /\ f[k].queue # <<>> => Len(f[k].out) = k}
<1>3. 0 \in Good
  <2>1. f[0].queue = <<tip>> /\ f[0].out = <<>>
    <3>1. f[0] = [queue |-> <<tip>>, out |-> <<>>]
      BY <1>2 DEF LogSteps
    <3> QED
      BY <3>1
  <2>2. <<tip>> \in Seq(region) /\ <<>> \in Seq(region) /\ Len(<<tip>>) = 1
    BY <1>1
  <2>3. ToSet(<<tip>>) = {tip} /\ ToSet(<<>>) = {} /\ IsInjective(<<tip>>) /\ IsInjective(<<>>)
    BY DEF ToSet, IsInjective
  <2>4. Listing(h, tip, region, f[0])
    BY <2>1, <2>2, <2>3 DEF Listing
  <2>5. Queued(h, region, dateOrder, f[0])
    BY <2>1, <2>3 DEF Queued
  <2>6. NewestFirst(h, f[0])
    BY <2>1, <2>3 DEF NewestFirst
  <2>7. ChildrenFirst(h, region, f[0])
    <3>1. ASSUME NEW k \in region, tip \in ToSet(h.par[k]) PROVE FALSE
      <4>1. k \in Commits(h) /\ tip \in Commits(h) /\ k \in h.anc[tip]
        BY <1>1 DEF FromTip
      <4>2. tip < k /\ k <= tip /\ k \in Nat /\ tip \in Nat
        BY <1>1, <3>1, <4>1, HistoryType, AncestorsBelow
      <4> QED
        BY <4>2
    <3> QED
      BY <2>1, <2>3, <3>1 DEF ChildrenFirst
  <2>8. LogState(h, tip, region, dateOrder, f[0])
    BY <2>4, <2>5, <2>6, <2>7 DEF LogState
  <2> QED
    BY <2>1, <2>8
<1>4. ASSUME NEW k \in Nat, k \in Good PROVE k + 1 \in Good
  <2> SUFFICES ASSUME k + 1 <= n
               PROVE  /\ LogState(h, tip, region, dateOrder, f[k + 1])
                      /\ f[k + 1].queue # <<>> => Len(f[k + 1].out) = k + 1
    OBVIOUS
  <2>1. k + 1 \in 1 .. n /\ (k + 1) - 1 = k /\ k <= n
    BY <1>1 DEF n
  <2>2. f[k + 1] = LogStep(h, region, dateOrder, f[k])
    BY <1>2, <2>1 DEF LogSteps
  <2>3. LogState(h, tip, region, dateOrder, f[k]) /\ (f[k].queue # <<>> => Len(f[k].out) = k)
    BY <1>4, <2>1
  <2>4. CASE f[k].queue = <<>>
    BY <2>2, <2>3, <2>4 DEF LogStep
  <2>5. CASE f[k].queue # <<>>
    <3>1. f[k + 1] = ListNewest(h, region, dateOrder, f[k])
      BY <2>2, <2>5 DEF LogStep
    <3> QED
      BY <2>3, <2>5, <3>1, LogNext
  <2> QED
    BY <2>4, <2>5
<1>5. n \in Good
  <2> HIDE DEF Good
  <2> QED
    BY <1>1, <1>3, <1>4, FromZeroOn DEF n
<1> DEFINE s == f[n]
<1>6. LogState(h, tip, region, dateOrder, s) /\ (s.queue # <<>> => Len(s.out) = n)
  BY <1>1, <1>5 DEF n
<1> HIDE DEF Good, s
<1>7. Listing(h, tip, region, s) /\ s.out \in Seq(region) /\ IsInjective(s.out)
  BY <1>6 DEF LogState, Listing
<1>8. s.queue = <<>>
  <2> SUFFICES ASSUME s.queue # <<>> PROVE FALSE
    OBVIOUS
  <2>1. ToSet(s.out) = region
    BY <1>1, <1>6, <1>7, AllListed DEF n
  <2>2. s.queue \in Seq(region) /\ ToSet(s.queue) \cap ToSet(s.out) = {}
    BY <1>7 DEF Listing
  <2>3. Len(s.queue) \in Nat /\ Len(s.queue) # 0 /\ DOMAIN s.queue = 1 .. Len(s.queue)
    BY <2>2
  <2>4. 1 \in DOMAIN s.queue /\ s.queue[1] \in region
    BY <2>2, <2>3
  <2> QED
    BY <2>1, <2>2, <2>4 DEF ToSet
<1>9. ToSet(s.queue) = {}
  BY <1>8 DEF ToSet
<1>10. tip \in ToSet(s.out)
  BY <1>7, <1>9 DEF Listing
<1>11. s.out # <<>> /\ s.out[1] = tip
  <2>1. s.out # <<>>
    BY <1>10 DEF ToSet
  <2> QED
    BY <1>7, <2>1 DEF Listing
<1>12. ToSet(s.out) = region
  <2>0. ToSet(s.out) \subseteq region
    BY <1>7 DEF ToSet
  <2> DEFINE Missing == region \ ToSet(s.out)
  <2>1. SUFFICES ASSUME Missing # {} PROVE FALSE
    BY <2>0
  <2>2. Missing \subseteq Nat /\ \A p \in Missing : p <= Len(h.par)
    <3>1. \A p \in region : p \in 1 .. Len(h.par)
      BY <1>1, HistoryType
    <3>2. Len(h.par) \in Nat
      BY HistoryType
    <3> QED
      BY <3>1, <3>2
  <2>3. PICK p \in Missing : \A q \in Missing : q <= p
    <3>1. Len(h.par) \in Nat
      BY HistoryType
    <3> HIDE DEF Missing
    <3> QED
      BY <2>1, <2>2, <3>1, LargestNat
  <2>4. p \in region /\ p # tip
    BY <1>10
  <2>5. \A k \in region : p \in ToSet(h.par[k]) => k \in ToSet(s.out)
    <3> SUFFICES ASSUME NEW k \in region, p \in ToSet(h.par[k]), k \in Missing PROVE FALSE
      OBVIOUS
    <3>1. p < k /\ p \in Nat /\ k \in Nat
      BY <1>1, <2>4, HistoryType
    <3>2. k <= p
      BY <2>3
    <3> QED
      BY <3>1, <3>2
  <2>6. PICK k \in region : p \in ToSet(h.par[k])
    BY <2>4 DEF FromTip
  <2>7. p \in ToSet(s.queue) \cup ToSet(s.out)
    BY <1>6, <2>4, <2>5, <2>6 DEF LogState, Queued
  <2> QED
    BY <1>9, <2>7
<1>13. L = s.out
  BY <1>2 DEF s
<1>14. dateOrder => \A j \in 1 .. Len(s.out), k \in region :
         s.out[j] \in ToSet(h.par[k]) => \E i \in 1 .. j - 1 : s.out[i] = k
  BY <1>6 DEF LogState, ChildrenFirst
<1>15. InOrder(h) => \A i, j \in 1 .. Len(s.out) : i < j => h.ct[s.out[j]] <= h.ct[s.out[i]]
  BY <1>6 DEF LogState, NewestFirst
<1> QED
  BY <1>7, <1>11, <1>12, <1>13, <1>14, <1>15

-----------------------------------------------------------------------------
(***************************************************************************)
(* git log --first-parent.                                                 *)
(***************************************************************************)
LineStep(h, f, c) == IF h.par[c] = <<>> THEN <<c>> ELSE <<c>> \o f[h.par[c][1]]
LinesUpTo(h, f, n) ==
  /\ f = [c \in Commits(h) |-> f[c]]
  /\ \A c \in Commits(h) : c <= n => f[c] = LineStep(h, f, c)
Lines(h) == CHOOSE f : f = [c \in Commits(h) |-> IF h.par[c] = <<>> THEN <<c>>
                                                ELSE <<c>> \o f[h.par[c][1]]]

LEMMA FirstParentIs ==
  ASSUME NEW D, NEW h, IsHistory(h, D), NEW c \in Commits(h), h.par[c] # <<>>
  PROVE  /\ h.par[c][1] \in ToSet(h.par[c]) /\ h.par[c][1] \in Commits(h)
         /\ h.par[c][1] < c /\ 1 \in 1 .. Len(h.par[c])
<1>1. /\ h.par[c] \in Seq(Commits(h)) /\ Len(h.par[c]) \in Nat
      /\ \A i \in 1 .. Len(h.par[c]) : h.par[c][i] \in ToSet(h.par[c])
      /\ \A p \in ToSet(h.par[c]) : p \in Commits(h) /\ p < c
  BY HistoryType
<1>2. Len(h.par[c]) # 0
  BY <1>1
<1>3. 1 \in 1 .. Len(h.par[c])
  BY <1>1, <1>2
<1> QED
  BY <1>1, <1>3

LEMMA LinesExist ==
  ASSUME NEW D, NEW h, IsHistory(h, D), NEW n \in Nat
  PROVE  \E f : LinesUpTo(h, f, n)
<1>0. Commits(h) \subseteq Nat \ {0}
  BY HistoryType
<1> DEFINE Good == {k \in Nat : \E f : LinesUpTo(h, f, k)}
<1>1. 0 \in Good
  <2> DEFINE f == [c \in Commits(h) |-> <<>>]
  <2>1. \A c \in Commits(h) : ~ c <= 0
    BY <1>0
  <2>2. LinesUpTo(h, f, 0)
    BY <2>1 DEF LinesUpTo
  <2> QED
    BY <2>2
<1>2. ASSUME NEW k \in Nat, k \in Good PROVE k + 1 \in Good
  <2>1. PICK f : LinesUpTo(h, f, k)
    BY <1>2
  <2> DEFINE g == [c \in Commits(h) |-> IF c = k + 1 THEN LineStep(h, f, c) ELSE f[c]]
  <2>2. ASSUME NEW c \in Commits(h), c <= k + 1 PROVE g[c] = LineStep(h, g, c)
    <3>1. h.par[c] # <<>> => g[h.par[c][1]] = f[h.par[c][1]]
      <4> SUFFICES ASSUME h.par[c] # <<>> PROVE g[h.par[c][1]] = f[h.par[c][1]]
        OBVIOUS
      <4>1. h.par[c][1] \in Commits(h) /\ h.par[c][1] < c
        BY FirstParentIs
      <4>2. h.par[c][1] # k + 1
        BY <1>0, <2>2, <4>1
      <4> QED
        BY <4>1, <4>2
    <3>2. LineStep(h, g, c) = LineStep(h, f, c)
      <4> HIDE DEF g
      <4> QED
        BY <3>1 DEF LineStep
    <3>3. c # k + 1 => f[c] = LineStep(h, f, c)
      <4>1. c # k + 1 => c <= k
        BY <1>0, <2>2
      <4> QED
        BY <2>1, <4>1 DEF LinesUpTo
    <3> QED
      BY <3>2, <3>3
  <2>3. g = [c \in Commits(h) |-> g[c]]
    OBVIOUS
  <2> HIDE DEF g
  <2>4. LinesUpTo(h, g, k + 1)
    BY <2>2, <2>3 DEF LinesUpTo
  <2> QED
    BY <2>4
<1> HIDE DEF Good
<1>3. n \in Good
  BY <1>1, <1>2, FromZeroOn
<1> QED
  BY <1>3 DEF Good

LEMMA LinesEquation ==
  ASSUME NEW D, NEW h, IsHistory(h, D), NEW c \in Commits(h)
  PROVE  Lines(h)[c] = IF h.par[c] = <<>> THEN <<c>> ELSE <<c>> \o Lines(h)[h.par[c][1]]
<1>1. Len(h.par) \in Nat /\ \A k \in Commits(h) : k <= Len(h.par)
  BY HistoryType
<1>2. PICK f : LinesUpTo(h, f, Len(h.par))
  BY <1>1, LinesExist
<1>3. f = [k \in Commits(h) |-> IF h.par[k] = <<>> THEN <<k>> ELSE <<k>> \o f[h.par[k][1]]]
  BY Zenon, <1>1, <1>2 DEF LinesUpTo, LineStep
<1>4. Lines(h) = [k \in Commits(h) |-> IF h.par[k] = <<>> THEN <<k>>
                                      ELSE <<k>> \o Lines(h)[h.par[k][1]]]
  BY Zenon, <1>3 DEF Lines
<1> QED
  BY <1>4

LEMMA Single ==
  ASSUME NEW S, NEW x \in S
  PROVE  <<x>> \in Seq(S) /\ Len(<<x>>) = 1 /\ <<x>>[1] = x /\ <<x>> # <<>>
OBVIOUS

\* A line of first parents from c to a root.
IsLine(h, c, s) ==
  /\ s \in Seq(h.anc[c]) /\ s # <<>> /\ s[1] = c
  /\ \A i \in 1 .. Len(s) - 1 : h.par[s[i]] # <<>> /\ s[i + 1] = h.par[s[i]][1]
  /\ h.par[s[Len(s)]] = <<>>

LEMMA LineIs ==
  ASSUME NEW D, NEW h, IsHistory(h, D), NEW c \in Commits(h)
  PROVE  IsLine(h, c, FirstParentLine(h, c))
<1>0. \A k : FirstParentLine(h, k) = Lines(h)[k]
  BY DEF FirstParentLine, Lines
<1> DEFINE Bad == {k \in Commits(h) : ~ IsLine(h, k, Lines(h)[k])}
<1>1. SUFFICES ASSUME Bad # {} PROVE FALSE
  BY <1>0
<1>2. Commits(h) \subseteq Nat
  BY HistoryType
<1>3. PICK k \in Bad : \A j \in Bad : k <= j
  <2>1. Bad \subseteq Nat
    BY <1>2
  <2> HIDE DEF Bad
  <2> QED
    BY <1>1, <2>1, SmallestNat
<1>4. k \in Commits(h) /\ k \in h.anc[k] /\ ~ IsLine(h, k, Lines(h)[k])
  BY AncestorFacts
<1>5. CASE h.par[k] = <<>>
  <2>1. Lines(h)[k] = <<k>>
    BY <1>4, <1>5, LinesEquation
  <2>2. <<k>> \in Seq(h.anc[k]) /\ <<k>> # <<>> /\ <<k>>[1] = k /\ Len(<<k>>) = 1
    BY <1>4, Single
  <2>3. IsLine(h, k, <<k>>)
    BY <1>5, <2>2 DEF IsLine
  <2> QED
    BY <1>4, <2>1, <2>3
<1>6. CASE h.par[k] # <<>>
  <2> DEFINE p == h.par[k][1]
             t == Lines(h)[p]
             s == <<k>> \o t
  <2>1. p \in Commits(h) /\ p < k /\ h.anc[p] \subseteq h.anc[k]
    BY <1>4, <1>6, FirstParentIs, AncestorFacts
  <2>2. Lines(h)[k] = s
    BY <1>4, <1>6, LinesEquation
  <2>3. IsLine(h, p, t)
    <3>1. ~ k <= p
      BY <1>2, <1>4, <2>1
    <3> QED
      BY <1>3, <2>1, <3>1
  <2> HIDE DEF t
  <2>4. t \in Seq(h.anc[k]) /\ Len(t) \in Nat /\ Len(t) # 0 /\ t # <<>> /\ t[1] = p
    <3>1. t \in Seq(h.anc[p]) /\ t # <<>> /\ t[1] = p
      BY <2>3 DEF IsLine
    <3>2. \A i \in 1 .. Len(t) : t[i] \in h.anc[k]
      BY <2>1, <3>1
    <3> QED
      BY <3>1, <3>2
  <2>5. /\ s \in Seq(h.anc[k]) /\ Len(s) = Len(t) + 1 /\ s[1] = k /\ s # <<>>
        /\ \A i \in 1 .. Len(t) : s[i + 1] = t[i]
    <3>1. <<k>> \in Seq(h.anc[k]) /\ Len(<<k>>) = 1 /\ <<k>>[1] = k
      BY <1>4, Single
    <3> QED
      BY <2>4, <3>1
  <2> HIDE DEF s
  <2>6. ASSUME NEW i \in 1 .. Len(s) - 1 PROVE h.par[s[i]] # <<>> /\ s[i + 1] = h.par[s[i]][1]
    <3>1. CASE i = 1
      <4>1. 1 \in 1 .. Len(t)
        BY <2>4
      <4> QED
        BY <1>6, <2>4, <2>5, <3>1, <4>1
    <3>2. CASE i # 1
      <4>1. /\ i - 1 \in 1 .. Len(t) - 1 /\ i - 1 \in 1 .. Len(t) /\ i \in 1 .. Len(t)
            /\ (i - 1) + 1 = i
        BY <2>4, <2>5, <3>2
      <4>2. s[i] = t[i - 1] /\ s[i + 1] = t[i]
        BY <2>5, <4>1
      <4>3. h.par[t[i - 1]] # <<>> /\ t[(i - 1) + 1] = h.par[t[i - 1]][1]
        BY <2>3, <4>1 DEF IsLine
      <4> QED
        BY <4>1, <4>2, <4>3
    <3> QED
      BY <3>1, <3>2
  <2>7. h.par[s[Len(s)]] = <<>>
    <3>1. Len(t) \in 1 .. Len(t)
      BY <2>4
    <3> QED
      BY <2>3, <2>5, <3>1 DEF IsLine
  <2>8. IsLine(h, k, s)
    BY <2>5, <2>6, <2>7 DEF IsLine
  <2> QED
    BY <1>4, <2>2, <2>8
<1> QED
  BY <1>5, <1>6

-----------------------------------------------------------------------------
(***************************************************************************)
(* Maximal commits and merge bases.                                        *)
(***************************************************************************)
LEMMA MaximalAbove ==
  ASSUME NEW S, S \subseteq Nat, NEW n \in Nat, \A k \in S : k <= n,
         NEW anc, \A k \in S : k \in anc[k] /\ \A a \in anc[k] \cap S : a <= k
           /\ anc[a] \subseteq anc[k],
         NEW x \in S
  PROVE  \E m \in Maximal(S, anc) : x \in anc[m]
<1> DEFINE T == {k \in S : x \in anc[k]}
<1>1. T \subseteq Nat /\ T # {} /\ \A k \in T : k <= n
  OBVIOUS
<1>2. PICK m \in T : \A k \in T : k <= m
  <2> HIDE DEF T
  <2> QED
    BY <1>1, LargestNat
<1>3. ASSUME NEW k \in S, m \in anc[k] PROVE k = m
  <2>1. m <= k /\ anc[m] \subseteq anc[k] /\ x \in anc[m] /\ m \in S
    BY <1>3
  <2>2. k \in T
    BY <2>1
  <2>3. k <= m /\ m \in Nat /\ k \in Nat
    BY <1>2, <2>1, <2>2
  <2> QED
    BY <2>1, <2>3
<1>4. m \in Maximal(S, anc)
  BY <1>3 DEF Maximal
<1> QED
  BY <1>4

LEMMA MergeBaseIs ==
  ASSUME NEW D, NEW h, IsHistory(h, D), NEW a \in Commits(h), NEW g \in Commits(h),
         NEW b, b = MergeBase(h, a, g)
  PROVE  IF h.anc[a] \cap h.anc[g] = {} THEN b = Null
         ELSE b \in h.anc[a] \cap h.anc[g] /\ b \in Commits(h) /\ b # Null
<1> DEFINE S == h.anc[a] \cap h.anc[g]
           best == Maximal(S, h.anc)
<1>1. /\ S \subseteq Commits(h) /\ Commits(h) = 1 .. Len(h.par) /\ S \subseteq Nat
           /\ Len(h.par) \in Nat
      /\ \A k \in S : k <= Len(h.par) /\ Null \notin S
  <2>1. S \subseteq Commits(h) /\ Commits(h) = 1 .. Len(h.par) /\ Len(h.par) \in Nat
    BY HistoryType
  <2> QED
    BY <2>1 DEF Null
<1>2. best \subseteq S
  BY DEF Maximal
<1>3. b = IF best = {} THEN Null ELSE CHOOSE c \in best : \A k \in best : h.ct[k] <= h.ct[c]
  BY DEF MergeBase
<1>4. S # {} => best # {}
  <2> SUFFICES ASSUME NEW x \in S PROVE best # {}
    OBVIOUS
  <2>1. \A k \in S : k \in h.anc[k] /\ \A c \in h.anc[k] \cap S : c <= k
          /\ h.anc[c] \subseteq h.anc[k]
    BY <1>1, AncestorFacts
  <2> HIDE DEF S
  <2> QED
    BY <1>1, <2>1, MaximalAbove
<1> HIDE DEF best
<1>5. CASE best = {}
  BY <1>3, <1>4, <1>5
<1>6. CASE best # {}
  <2>1. \A k \in best : h.ct[k] \in Nat
    BY <1>1, <1>2, HistoryType
  <2> DEFINE s == [i \in 1 .. Len(h.par) |-> IF i \in best THEN h.ct[i] ELSE 0]
             T == {h.ct[k] : k \in best}
  <2>2. s \in Seq(Nat) /\ Len(s) = Len(h.par)
    BY <1>1, <2>1
  <2>3. Len(h.par) # 0
    <3>1. \A k \in best : k \in 1 .. Len(h.par)
      BY <1>1, <1>2
    <3> QED
      BY <1>1, <1>6, <3>1
  <2>4. s # <<>>
    BY <2>2, <2>3
  <2>5. \A k \in best : k \in 1 .. Len(h.par) /\ s[k] = h.ct[k]
    BY <1>1, <1>2
  <2>6. s \in [1 .. Len(h.par) -> Nat]
    BY <1>1, <2>1
  <2> HIDE DEF s
  <2>7. PICK i \in 1 .. Len(s) : \A j \in 1 .. Len(s) : s[j] <= s[i]
    BY <2>2, <2>4, LargestInSeq
  <2>8. T \subseteq Nat /\ T # {} /\ s[i] \in Nat /\ \A k \in T : k <= s[i]
    BY <1>6, <2>1, <2>2, <2>5, <2>6, <2>7
  <2>9. \E m \in T : \A k \in T : k <= m
    <3> HIDE DEF T
    <3> QED
      BY <2>8, LargestNat
  <2>10. \E c \in best : \A k \in best : h.ct[k] <= h.ct[c]
    BY <2>9
  <2>11. b \in best
    BY <1>3, <1>6, <2>10
  <2> QED
    BY <1>1, <1>2, <2>11
<1> QED
  BY <1>5, <1>6

-----------------------------------------------------------------------------
(***************************************************************************)
(* Mono commits.                                                           *)
(***************************************************************************)
OnceStep(w, p) == IF Contains(w, p) THEN w ELSE Append(w, p)
Once(par) == FoldLeft(LAMBDA w, p : IF Contains(w, p) THEN w ELSE Append(w, p), <<>>, par)

OnceFold(f, s, n) ==
  \A t \in SUBSET (1 .. n) :
    f[t] = IF t = {} THEN <<>> ELSE OnceStep(f[t \ {Max(t)}], s[Max(t)])

LEMMA OnceFoldExists ==
  ASSUME NEW s, NEW n \in Nat
  PROVE  \E f : f = [t \in SUBSET (1 .. n) |-> f[t]] /\ OnceFold(f, s, n)
<1> DEFINE Good == {k \in Nat : \E f : f = [t \in SUBSET (1 .. k) |-> f[t]] /\ OnceFold(f, s, k)}
<1>1. 0 \in Good
  <2> DEFINE f == [t \in SUBSET (1 .. 0) |-> <<>>]
  <2>1. \A t \in SUBSET (1 .. 0) : t = {}
    OBVIOUS
  <2>2. f = [t \in SUBSET (1 .. 0) |-> f[t]]
    OBVIOUS
  <2>3. OnceFold(f, s, 0)
    BY <2>1 DEF OnceFold
  <2> QED
    BY <2>2, <2>3
<1>2. ASSUME NEW k \in Nat, k \in Good PROVE k + 1 \in Good
  <2>1. PICK f : f = [t \in SUBSET (1 .. k) |-> f[t]] /\ OnceFold(f, s, k)
    BY <1>2
  <2> DEFINE g == [t \in SUBSET (1 .. k + 1) |->
                     IF k + 1 \in t THEN OnceStep(f[t \ {k + 1}], s[k + 1]) ELSE f[t]]
  <2>2. ASSUME NEW t \in SUBSET (1 .. k + 1)
        PROVE  g[t] = IF t = {} THEN <<>> ELSE OnceStep(g[t \ {Max(t)}], s[Max(t)])
    <3>1. CASE k + 1 \in t
      <4>1. Max(t) \in t /\ k + 1 <= Max(t)
        BY <3>1, MaxOfSome
      <4>2. Max(t) = k + 1
        <5>1. Max(t) \in 1 .. k + 1
          BY <4>1
        <5> QED
          BY <4>1, <5>1
      <4>3. t \ {k + 1} \in SUBSET (1 .. k + 1) /\ k + 1 \notin t \ {k + 1}
        OBVIOUS
      <4>4. g[t \ {k + 1}] = f[t \ {k + 1}]
        BY <4>3
      <4> QED
        BY <3>1, <4>2, <4>4
    <3>2. CASE k + 1 \notin t
      <4>1. t \in SUBSET (1 .. k)
        BY <3>2
      <4>2. t # {} => Max(t) \in t
        BY <4>1, MaxOfSome
      <4>3. t \ {Max(t)} \in SUBSET (1 .. k + 1) /\ k + 1 \notin t \ {Max(t)}
        BY <3>2
      <4>4. g[t] = f[t] /\ g[t \ {Max(t)}] = f[t \ {Max(t)}]
        BY <3>2, <4>3
      <4> HIDE DEF g
      <4> QED
        BY <2>1, <4>1, <4>4 DEF OnceFold
    <3> QED
      BY <3>1, <3>2
  <2>3. g = [t \in SUBSET (1 .. k + 1) |-> g[t]]
    OBVIOUS
  <2> HIDE DEF g
  <2>4. OnceFold(g, s, k + 1)
    BY <2>2 DEF OnceFold
  <2> QED
    BY <2>3, <2>4
<1> HIDE DEF Good
<1>3. n \in Good
  BY <1>1, <1>2, FromZeroOn
<1> QED
  BY <1>3 DEF Good

LEMMA OnceSteps ==
  ASSUME NEW U, NEW s \in Seq(U)
  PROVE  \E v : /\ v[0] = <<>> /\ Once(s) = v[Len(s)]
                /\ \A i \in 1 .. Len(s) : v[i] = OnceStep(v[i - 1], s[i])
<1> DEFINE n == Len(s)
           iter == CHOOSE f : f = [t \in SUBSET DOMAIN s |->
                     IF t = {} THEN <<>>
                     ELSE IF Contains(f[t \ {Max(t)}], s[Max(t)]) THEN f[t \ {Max(t)}]
                     ELSE Append(f[t \ {Max(t)}], s[Max(t)])]
           v == [i \in 0 .. n |-> iter[1 .. i]]
<1>1. n \in Nat /\ DOMAIN s = 1 .. n
  OBVIOUS
<1>2. Once(s) = iter[DOMAIN s]
  BY DEF Once, FoldLeft, MapThenFoldSet
<1>3. OnceFold(iter, s, n)
  <2>1. PICK f : f = [t \in SUBSET (1 .. n) |-> f[t]] /\ OnceFold(f, s, n)
    BY <1>1, OnceFoldExists
  <2>2. f = [t \in SUBSET DOMAIN s |->
                     IF t = {} THEN <<>>
                     ELSE IF Contains(f[t \ {Max(t)}], s[Max(t)]) THEN f[t \ {Max(t)}]
                     ELSE Append(f[t \ {Max(t)}], s[Max(t)])]
    BY Zenon, <1>1, <2>1 DEF OnceFold, OnceStep
  <2>3. iter = [t \in SUBSET (1 .. n) |->
                     IF t = {} THEN <<>>
                     ELSE IF Contains(iter[t \ {Max(t)}], s[Max(t)]) THEN iter[t \ {Max(t)}]
                     ELSE Append(iter[t \ {Max(t)}], s[Max(t)])]
    BY Zenon, <1>1, <2>2
  <2> HIDE DEF iter
  <2> QED
    BY <2>3 DEF OnceFold, OnceStep
<1> HIDE DEF iter
<1>4. v[0] = <<>>
  <2>1. 1 .. 0 = {} /\ 0 \in 0 .. n
    BY <1>1
  <2> QED
    BY <1>1, <1>3, <2>1 DEF OnceFold
<1>5. ASSUME NEW i \in 1 .. n
      PROVE v[i] = OnceStep(v[i - 1], s[i])
  <2>1. Max(1 .. i) = i /\ (1 .. i) \ {i} = 1 .. i - 1
    BY <1>1, MaxOfAll
  <2>2. 1 .. i \in SUBSET (1 .. n) /\ 1 .. i # {} /\ i - 1 \in 0 .. n /\ i \in 0 .. n
    BY <1>1
  <2> QED
    BY <1>3, <2>1, <2>2 DEF OnceFold
<1>6. Once(s) = v[n]
  BY <1>1, <1>2
<1> HIDE DEF v
<1> QED
  BY <1>4, <1>5, <1>6

\* The parents, each of them once.
LEMMA OnceIs ==
  ASSUME NEW U, NEW s \in Seq(U)
  PROVE  Once(s) \in Seq(U) /\ ToSet(Once(s)) = ToSet(s)
<1>1. PICK v : /\ v[0] = <<>> /\ Once(s) = v[Len(s)]
               /\ \A i \in 1 .. Len(s) : v[i] = OnceStep(v[i - 1], s[i])
  BY OnceSteps
<1>2. Len(s) \in Nat /\ DOMAIN s = 1 .. Len(s) /\ \A i \in 1 .. Len(s) : s[i] \in U
  OBVIOUS
<1> DEFINE Good == {k \in Nat : k <= Len(s) => v[k] \in Seq(U)
                     /\ ToSet(v[k]) = {s[i] : i \in 1 .. k}}
<1>3. 0 \in Good
  <2>1. ToSet(<<>>) = {} /\ {s[i] : i \in 1 .. 0} = {}
    BY DEF ToSet
  <2>2. v[0] \in Seq(U) /\ ToSet(v[0]) = {s[i] : i \in 1 .. 0}
    BY <1>1, <2>1
  <2> QED
    BY <2>2
<1>4. ASSUME NEW k \in Nat, k \in Good PROVE k + 1 \in Good
  <2> SUFFICES ASSUME k + 1 <= Len(s)
               PROVE  v[k + 1] \in Seq(U) /\ ToSet(v[k + 1]) = {s[i] : i \in 1 .. k + 1}
    OBVIOUS
  <2>1. k + 1 \in 1 .. Len(s) /\ (k + 1) - 1 = k /\ k <= Len(s)
          /\ 1 .. k + 1 = (1 .. k) \cup {k + 1}
    BY <1>2
  <2>2. v[k] \in Seq(U) /\ ToSet(v[k]) = {s[i] : i \in 1 .. k} /\ s[k + 1] \in U
    BY <1>2, <1>4, <2>1
  <2>3. v[k + 1] = OnceStep(v[k], s[k + 1])
    BY <1>1, <2>1
  <2>4. {s[i] : i \in 1 .. k + 1} = ToSet(v[k]) \cup {s[k + 1]}
    BY <2>1, <2>2
  <2>5. CASE Contains(v[k], s[k + 1])
    <3>1. s[k + 1] \in ToSet(v[k])
      <4>1. DOMAIN v[k] = 1 .. Len(v[k])
        BY <2>2
      <4> QED
        BY <2>5, <4>1 DEF Contains, ToSet
    <3>2. v[k + 1] = v[k]
      BY <2>3, <2>5 DEF OnceStep
    <3> HIDE DEF Good
    <3> QED
      BY <2>2, <2>4, <3>1, <3>2
  <2>6. CASE ~ Contains(v[k], s[k + 1])
    <3>1. v[k + 1] = Append(v[k], s[k + 1])
      BY <2>3, <2>6 DEF OnceStep
    <3> HIDE DEF Good
    <3> QED
      BY <2>2, <2>4, <3>1, AfterAppend
  <2> QED
    BY <2>5, <2>6
<1> HIDE DEF Good
<1>5. Len(s) \in Good
  BY <1>2, <1>3, <1>4, FromZeroOn
<1>6. Once(s) \in Seq(U) /\ ToSet(Once(s)) = {s[i] : i \in 1 .. Len(s)}
  BY <1>1, <1>2, <1>5 DEF Good
<1> QED
  BY <1>2, <1>6 DEF ToSet

\* A tree holds in each directory content of that directory.
IsTree(h, t) ==
  /\ t \in [Dir -> Commits(h) \cup {Null}]
  /\ \A d \in Dir : t[d] # Null => h.dir[t[d]] = d

IsLog(h, log) ==
  /\ log \in Seq([par : Seq(Nat), tree : [Dir -> Commits(h) \cup {Null}],
                  base : Commits(h) \cup {Null}, anc : SUBSET Nat])
  /\ \A m \in 1 .. Len(log) :
       /\ ToSet(log[m].par) \subseteq 1 .. m - 1
       /\ IsTree(h, log[m].tree)
       /\ log[m].anc = {m} \cup UNION {log[p].anc : p \in ToSet(log[m].par)}

LogGrows(log, new) ==
  /\ Len(log) \in Nat /\ Len(new) \in Nat /\ Len(log) <= Len(new)
  /\ \A m \in 1 .. Len(log) : new[m] = log[m]

LEMMA MonoAncestors ==
  ASSUME NEW h, NEW log, IsLog(h, log), NEW m \in 1 .. Len(log)
  PROVE  /\ log[m].anc \subseteq 1 .. m /\ m \in log[m].anc
         /\ \A a \in log[m].anc : log[a].anc \subseteq log[m].anc
         /\ \A p \in ToSet(log[m].par) : log[p].anc \subseteq log[m].anc
<1>0. Len(log) \in Nat
  BY DEF IsLog
<1> DEFINE Bad == {k \in 1 .. Len(log) : ~ (/\ log[k].anc \subseteq 1 .. k
                                            /\ \A a \in log[k].anc : log[a].anc \subseteq log[k].anc)}
<1>1. /\ \A k \in 1 .. Len(log) : log[k].anc = {k} \cup UNION {log[p].anc : p \in ToSet(log[k].par)}
      /\ \A k \in 1 .. Len(log) : \A p \in ToSet(log[k].par) : p \in 1 .. k - 1
           /\ p \in 1 .. Len(log) /\ p < k
  <2>1. ASSUME NEW k \in 1 .. Len(log)
        PROVE  /\ log[k].anc = {k} \cup UNION {log[p].anc : p \in ToSet(log[k].par)}
               /\ \A p \in ToSet(log[k].par) : p \in 1 .. k - 1 /\ p \in 1 .. Len(log) /\ p < k
    <3>1. /\ log[k].anc = {k} \cup UNION {log[p].anc : p \in ToSet(log[k].par)}
          /\ ToSet(log[k].par) \subseteq 1 .. k - 1
      BY DEF IsLog
    <3>2. \A p \in 1 .. k - 1 : p \in 1 .. Len(log) /\ p < k
      BY <1>0
    <3> QED
      BY <3>1, <3>2
  <2> QED
    BY <2>1
<1>2. Bad = {}
  <2>1. SUFFICES ASSUME Bad # {} PROVE FALSE
    OBVIOUS
  <2>2. PICK k \in Bad : \A j \in Bad : k <= j
    <3>1. Bad \subseteq Nat
      OBVIOUS
    <3> HIDE DEF Bad
    <3> QED
      BY <2>1, <3>1, SmallestNat
  <2>3. k \in 1 .. Len(log) /\ k \in Nat
    OBVIOUS
  <2>4. ASSUME NEW p \in ToSet(log[k].par)
        PROVE  log[p].anc \subseteq 1 .. k /\ \A a \in log[p].anc : log[a].anc \subseteq log[p].anc
    <3>1. p \in 1 .. Len(log) /\ p < k /\ p \in Nat
      BY <1>1, <2>3
    <3>2. p \notin Bad
      BY <2>2, <2>3, <3>1
    <3>3. log[p].anc \subseteq 1 .. p /\ \A a \in log[p].anc : log[a].anc \subseteq log[p].anc
      BY <3>1, <3>2
    <3>4. 1 .. p \subseteq 1 .. k
      BY <2>3, <3>1
    <3> QED
      BY <3>3, <3>4
  <2>5. log[k].anc \subseteq 1 .. k
    BY <1>1, <2>3, <2>4
  <2>6. \A a \in log[k].anc : log[a].anc \subseteq log[k].anc
    BY <1>1, <2>3, <2>4
  <2> QED
    BY <2>2, <2>5, <2>6
<1>3. log[m].anc \subseteq 1 .. m /\ \A a \in log[m].anc : log[a].anc \subseteq log[m].anc
  BY <1>2
<1> QED
  BY <1>1, <1>3

\* A commit is written or found again.
OneMore(log, r) == \A k \in 1 .. Len(r.log) : k \in 1 .. Len(log) \/ k = r.at

LEMMA CommitTreeIs ==
  ASSUME NEW h, NEW log, IsLog(h, log), NEW par \in Seq(1 .. Len(log)),
         NEW tree, IsTree(h, tree), NEW base \in Commits(h) \cup {Null},
         NEW r, r = CommitTree(log, par, tree, base)
  PROVE  /\ IsLog(h, r.log) /\ LogGrows(log, r.log) /\ r.at \in 1 .. Len(r.log)
         /\ r.log[r.at].tree = tree /\ r.log[r.at].base = base
         /\ ToSet(r.log[r.at].par) = ToSet(par) /\ OneMore(log, r)
<1> DEFINE once == Once(par)
           same == {k \in DOMAIN log : /\ log[k].par = once
                                  /\ log[k].tree = tree
                                  /\ log[k].base = base}
           m == Len(log) + 1
           new == [par |-> once, tree |-> tree, base |-> base,
                   anc |-> {m} \cup UNION {log[p].anc : p \in ToSet(once)}]
<1>1. r = IF same # {} THEN [at |-> Min(same), log |-> log]
          ELSE [at |-> m, log |-> Append(log, new)]
  BY Zenon DEF CommitTree, Once
<1>2. Len(log) \in Nat /\ DOMAIN log = 1 .. Len(log)
  BY DEF IsLog
<1>3. once \in Seq(1 .. Len(log)) /\ ToSet(once) = ToSet(par)
  BY OnceIs
<1> HIDE DEF once
<1>4. CASE same # {}
  <2>1. Min(same) \in same
    <3>1. same \subseteq Nat
      BY <1>2
    <3> HIDE DEF same
    <3> QED
      BY <1>4, <3>1, MinIs
  <2>2. r.at \in 1 .. Len(log) /\ r.log = log /\ r.at \in same
    <3>1. r = [at |-> Min(same), log |-> log]
      BY <1>1, <1>4
    <3>2. Min(same) \in 1 .. Len(log)
      BY <1>2, <2>1
    <3> HIDE DEF same
    <3> QED
      BY <2>1, <3>1, <3>2
  <2>3. LogGrows(log, log)
    BY <1>2 DEF LogGrows
  <2>4. OneMore(log, r)
    BY <2>2 DEF OneMore
  <2> QED
    BY <1>3, <2>2, <2>3, <2>4
<1>5. CASE same = {}
  <2> HIDE DEF same
  <2>1. r.at = m /\ r.log = Append(log, new)
    BY <1>1, <1>5
  <2>2. ToSet(once) \subseteq 1 .. Len(log)
    BY <1>3 DEF ToSet
  <2>3. \A p \in ToSet(once) : log[p].anc \subseteq 1 .. Len(log)
    <3> SUFFICES ASSUME NEW p \in ToSet(once) PROVE log[p].anc \subseteq 1 .. Len(log)
      OBVIOUS
    <3>1. p \in 1 .. Len(log)
      BY <2>2
    <3>2. log[p].anc \subseteq 1 .. p
      BY <3>1, MonoAncestors
    <3>3. 1 .. p \subseteq 1 .. Len(log)
      BY <1>2, <3>1
    <3> QED
      BY <3>2, <3>3
  <2> DEFINE R == [par : Seq(Nat), tree : [Dir -> Commits(h) \cup {Null}],
                   base : Commits(h) \cup {Null}, anc : SUBSET Nat]
  <2>4. new \in R
    <3>1. once \in Seq(Nat)
      <4>1. \A i \in 1 .. Len(once) : once[i] \in Nat
        BY <1>3
      <4> QED
        BY <1>3, <4>1
    <3>2. {m} \cup UNION {log[p].anc : p \in ToSet(once)} \subseteq Nat
      BY <1>2, <2>3
    <3>3. tree \in [Dir -> Commits(h) \cup {Null}]
      BY DEF IsTree
    <3> QED
      BY <3>1, <3>2, <3>3
  <2>5. log \in Seq(R)
    BY DEF IsLog
  <2> HIDE DEF R
  <2> DEFINE t == Append(log, new)
  <2> HIDE DEF new
  <2>6. /\ t \in Seq(R) /\ Len(t) = Len(log) + 1 /\ t[m] = new
        /\ \A i \in 1 .. Len(log) : t[i] = log[i]
    BY <2>4, <2>5, AfterAppend
  <2> HIDE DEF t
  <2>7. /\ new.par = once /\ new.tree = tree /\ new.base = base
        /\ new.anc = {m} \cup UNION {log[p].anc : p \in ToSet(once)}
    BY DEF new
  <2>8. ASSUME NEW i \in 1 .. Len(t)
        PROVE  /\ ToSet(t[i].par) \subseteq 1 .. i - 1
               /\ IsTree(h, t[i].tree)
               /\ t[i].anc = {i} \cup UNION {t[p].anc : p \in ToSet(t[i].par)}
    <3>1. CASE i \in 1 .. Len(log)
      <4>1. /\ ToSet(log[i].par) \subseteq 1 .. i - 1 /\ IsTree(h, log[i].tree)
            /\ log[i].anc = {i} \cup UNION {log[p].anc : p \in ToSet(log[i].par)}
        BY <3>1 DEF IsLog
      <4>2. 1 .. i - 1 \subseteq 1 .. Len(log)
        BY <1>2, <3>1
      <4>3. \A p \in ToSet(log[i].par) : t[p] = log[p]
        BY <2>6, <4>1, <4>2
      <4>4. {t[p].anc : p \in ToSet(log[i].par)} = {log[p].anc : p \in ToSet(log[i].par)}
        BY <4>3
      <4>5. t[i] = log[i]
        BY <2>6, <3>1
      <4> QED
        BY <4>1, <4>4, <4>5
    <3>2. CASE i = m
      <4>1. m - 1 = Len(log)
        BY <1>2
      <4>2. \A p \in ToSet(once) : t[p] = log[p]
        BY <2>2, <2>6
      <4>3. {t[p].anc : p \in ToSet(once)} = {log[p].anc : p \in ToSet(once)}
        BY <4>2
      <4> HIDE DEF m
      <4>4. t[i] = new
        BY <2>6, <3>2
      <4> QED
        BY <2>2, <2>7, <3>2, <4>1, <4>3, <4>4
    <3> QED
      BY <1>2, <2>6, <3>1, <3>2
  <2>9. IsLog(h, t)
    BY <2>6, <2>8 DEF IsLog, R
  <2>10. LogGrows(log, t)
    BY <1>2, <2>6 DEF LogGrows
  <2>11. r.at = m /\ r.log = t /\ m \in 1 .. Len(t)
    BY <1>2, <2>1, <2>6 DEF t
  <2>12. OneMore(log, r)
    BY <1>2, <2>6, <2>11 DEF OneMore
  <2> QED
    BY <1>3, <2>6, <2>7, <2>9, <2>10, <2>11, <2>12
<1> QED
  BY <1>4, <1>5

\* What is not a commit's own content is a parent's.
Inherited(log, own, par, t) ==
  \A d \in Dir \ DOMAIN own : t[d] # Null => \E p \in ToSet(par) : log[p].tree[d] = t[d]

\* The tree of a commit is one, has its own content, and keeps what the
\* first parent has of the active directories.
LEMMA TreeIs ==
  ASSUME NEW log, IsLog(hist, log), NEW par \in Seq(1 .. Len(log)), NEW headp \in 0 .. Len(par),
         NEW own, DOMAIN own \subseteq Dir,
         \A d \in DOMAIN own : own[d] \in Commit /\ hist.dir[own[d]] = d,
         NEW t, t = Tree(log, own, par, headp)
  PROVE  /\ IsTree(hist, t)
         /\ \A d \in DOMAIN own : t[d] = own[d]
         /\ par # <<>> =>
              LET p == par[IF headp = 0 THEN 1 ELSE headp]
              IN  \A d \in (active \cap Dir) \ DOMAIN own :
                    log[p].tree[d] # Null => t[d] = log[p].tree[d]
         /\ Inherited(log, own, par, t)
<1> DEFINE order == HeadFirst(par, headp)
           idle == Dir \ (active \cup DOMAIN own)
           Wanted(d) == IF d \in active THEN {d} ELSE idle
           place == [d \in Dir |-> FirstWith(log, order, Wanted(d))]
<1>1. t = [d \in Dir |-> IF d \in DOMAIN own THEN own[d]
                         ELSE IF place[d] = 0 THEN Null
                         ELSE log[order[place[d]]].tree[d]]
  BY DEF Tree
<1>2. Len(par) \in Nat /\ Len(log) \in Nat /\ \A i \in 1 .. Len(par) : par[i] \in 1 .. Len(log)
  BY DEF IsLog
<1>3. /\ order \in Seq(1 .. Len(log)) /\ Len(order) \in Nat
      /\ par # <<>> => Len(order) # 0 /\ order[1] = par[IF headp = 0 THEN 1 ELSE headp]
  <2>1. CASE headp = 0
    BY <1>2, <2>1 DEF HeadFirst
  <2>2. CASE headp # 0
    <3>1. par[headp] \in 1 .. Len(log)
      BY <1>2, <2>2
    <3>2. <<par[headp]>> \in Seq(1 .. Len(log)) /\ Len(<<par[headp]>>) = 1
            /\ <<par[headp]>>[1] = par[headp]
      BY <3>1, Single
    <3>3. order = <<par[headp]>> \o par
      BY <2>2 DEF HeadFirst
    <3>4. /\ <<par[headp]>> \o par \in Seq(1 .. Len(log))
          /\ Len(<<par[headp]>> \o par) = 1 + Len(par)
          /\ (<<par[headp]>> \o par)[1] = par[headp]
      <4>1. 1 \in 1 .. Len(<<par[headp]>>)
        BY <3>2
      <4> QED
        BY <3>2, <4>1, AfterConcat
    <3> QED
      BY <1>2, <2>2, <3>3, <3>4
  <2> QED
    BY <2>1, <2>2
<1>4. ASSUME NEW d \in Dir
      PROVE  /\ place[d] \in 0 .. Len(order)
             /\ d \in active /\ Len(order) # 0 /\ log[order[1]].tree[d] # Null => place[d] = 1
  <2> DEFINE P == {p \in 1 .. Len(log) : \E e \in Wanted(d) : log[p].tree[e] # Null}
             S == {k \in 1 .. Len(order) : \E e \in Wanted(d) : log[order[k]].tree[e] # Null}
  <2> HIDE DEF order
  <2>1. place[d] = IF S # {} THEN Min(S) ELSE 0
    BY DEF FirstWith, SelectInSeq
  <2>2. S \subseteq Nat
    OBVIOUS
  <2>3. S # {} => Min(S) \in S /\ \A k \in S : Min(S) <= k
    <3> HIDE DEF S
    <3> QED
      BY <2>2, MinIs
  <2>4. place[d] \in 0 .. Len(order)
    <3>1. CASE S = {}
      BY <1>3, <2>1, <3>1
    <3>2. CASE S # {}
      <4>1. place[d] \in S
        BY <2>1, <2>3, <3>2
      <4>2. S \subseteq 1 .. Len(order)
        OBVIOUS
      <4>3. \A k \in 1 .. Len(order) : k \in 0 .. Len(order)
        OBVIOUS
      <4> HIDE DEF S, place
      <4> QED
        BY <4>1, <4>2, <4>3
    <3> QED
      BY <3>1, <3>2
  <2>5. ASSUME d \in active, Len(order) # 0, log[order[1]].tree[d] # Null PROVE place[d] = 1
    <3>1. 1 \in S
      BY SMTT(30), <1>3, <2>5
    <3>2. Min(S) \in S /\ Min(S) <= 1
      BY <2>3, <3>1
    <3>3. Min(S) \in 1 .. Len(order)
      BY <3>2
    <3>4. Min(S) = 1
      <4> HIDE DEF S
      <4> QED
        BY <1>3, <3>2, <3>3
    <3> QED
      BY <2>1, <3>1, <3>4
  <2> QED
    BY <2>4, <2>5
<1> HIDE DEF place
<1>5. ASSUME NEW d \in Dir, d \notin DOMAIN own
      PROVE  t[d] \in Commits(hist) \cup {Null} /\ (t[d] # Null => hist.dir[t[d]] = d)
  <2>1. t[d] = IF place[d] = 0 THEN Null ELSE log[order[place[d]]].tree[d]
    BY <1>1, <1>5
  <2>2. CASE place[d] = 0
    BY <2>1, <2>2
  <2>3. CASE place[d] # 0
    <3> HIDE DEF order
    <3>1. place[d] \in 1 .. Len(order)
      BY <1>3, <1>4, <2>3
    <3>2. order[place[d]] \in 1 .. Len(log)
      BY <1>3, <3>1
    <3>3. IsTree(hist, log[order[place[d]]].tree)
      BY <3>2 DEF IsLog
    <3> QED
      BY <2>1, <2>3, <3>3 DEF IsTree
  <2> QED
    BY <2>2, <2>3
<1>6. \A d \in DOMAIN own : t[d] = own[d]
  BY <1>1
<1>7. IsTree(hist, t)
  <2>1. \A d \in Dir : t[d] \in Commits(hist) \cup {Null} /\ (t[d] # Null => hist.dir[t[d]] = d)
    BY <1>5, <1>6 DEF Commit
  <2>2. t = [d \in Dir |-> t[d]]
    BY <1>1
  <2> QED
    BY <2>1, <2>2 DEF IsTree
<1>8. ASSUME par # <<>>, NEW p, p = par[IF headp = 0 THEN 1 ELSE headp],
             NEW d \in (active \cap Dir) \ DOMAIN own, log[p].tree[d] # Null
      PROVE  t[d] = log[p].tree[d]
  <2>1. place[d] = 1 /\ order[1] = p
    BY <1>3, <1>4, <1>8
  <2> HIDE DEF order
  <2> QED
    BY <1>1, <1>8, <2>1
<1>9. \A i \in 1 .. Len(order) : order[i] \in ToSet(par)
  <2>1. \A i \in 1 .. Len(par) : par[i] \in ToSet(par)
    BY DEF ToSet
  <2>2. par \in Seq(ToSet(par))
    BY SMTT(30), <1>2, <2>1
  <2>3. CASE headp = 0
    BY <2>1, <2>3 DEF HeadFirst
  <2>4. CASE headp # 0
    <3>1. par[headp] \in ToSet(par)
      BY <1>2, <2>1, <2>4
    <3>2. <<par[headp]>> \in Seq(ToSet(par))
      BY <3>1, Single
    <3>3. order = <<par[headp]>> \o par
      BY <2>4 DEF HeadFirst
    <3>4. <<par[headp]>> \o par \in Seq(ToSet(par))
      BY <2>2, <3>2, AfterConcat
    <3> QED
      BY <3>3, <3>4
  <2> QED
    BY <2>3, <2>4
<1>10. ASSUME NEW d \in Dir \ DOMAIN own, t[d] # Null
       PROVE  \E p \in ToSet(par) : log[p].tree[d] = t[d]
  <2> HIDE DEF order
  <2>1. place[d] # 0 /\ t[d] = log[order[place[d]]].tree[d]
    BY <1>1, <1>10
  <2>2. place[d] \in 1 .. Len(order)
    BY <1>3, <1>4, <2>1
  <2> QED
    BY <1>9, <2>1, <2>2
<1>11. Inherited(log, own, par, t)
  BY <1>10 DEF Inherited
<1> QED
  BY <1>6, <1>7, <1>8, <1>11

-----------------------------------------------------------------------------
LEMMA MonosIs ==
  ASSUME NEW U, NEW s \in Seq(U), NEW f, NEW V, \A x \in U : f[x] \in V, NEW w,
           w = [i \in DOMAIN s |-> f[s[i]]]
  PROVE  w \in Seq(V) /\ Len(w) = Len(s) /\ ToSet(w) = {f[x] : x \in ToSet(s)}
<1>1. Len(s) \in Nat /\ DOMAIN s = 1 .. Len(s) /\ \A i \in 1 .. Len(s) : s[i] \in U
  OBVIOUS
<1>2. w \in Seq(V) /\ Len(w) = Len(s) /\ DOMAIN w = 1 .. Len(s)
  BY <1>1
<1> QED
  BY <1>1, <1>2 DEF ToSet

Targeted(targets) ==
  /\ targets \in Seq(Commit) /\ targets # <<>>
  /\ \A c \in ToSet(targets) : map[c] \in 1 .. Len(mono) /\ mono[map[c]].tree[hist.dir[c]] = c

LEMMA OctopusIs ==
  ASSUME IsLog(hist, mono), head \in 0 .. Len(mono), NEW targets, Targeted(targets),
         NEW par, par = OctopusParents(targets)
  PROVE  /\ par \in Seq(1 .. Len(mono)) /\ par # <<>>
         /\ \A x \in ({head} \cup {map[c] : c \in ToSet(targets)}) \ {Null} :
              \E p \in ToSet(par) : x \in mono[p].anc
         /\ Len(par) = 1 => \A c \in ToSet(targets) : mono[par[1]].tree[hist.dir[c]] = c
<1> DEFINE S == ({head} \cup {map[c] : c \in ToSet(targets)}) \ {Null}
           anc == [m \in DOMAIN mono |-> mono[m].anc]
           ind == Maximal(S, anc)
           Monos(A) == [i \in DOMAIN Within(targets, A) |-> map[Within(targets, A)[i]]]
           independent == {c \in ToSet(targets) : map[c] # head /\ map[c] \in ind}
           own == IF head \in ind THEN <<head>> ELSE <<>>
           first == own \o Monos(independent)
           changed == {c \in ToSet(targets) \ independent : Differs(c, first[1])}
<1>1. par = first \o Monos(changed)
  BY Zenon DEF OctopusParents
<1>2. /\ Len(mono) \in Nat /\ DOMAIN mono = 1 .. Len(mono)
      /\ targets \in Seq(Commit) /\ targets # <<>> /\ Len(targets) \in Nat
           /\ DOMAIN targets = 1 .. Len(targets)
      /\ ToSet(targets) # {}
  <2>1. /\ Len(mono) \in Nat /\ DOMAIN mono = 1 .. Len(mono)
        /\ targets \in Seq(Commit) /\ targets # <<>> /\ Len(targets) \in Nat
             /\ DOMAIN targets = 1 .. Len(targets)
    BY DEF IsLog, Targeted
  <2>2. Len(targets) # 0
    BY <2>1
  <2>3. targets[1] \in ToSet(targets)
    BY <2>1, <2>2 DEF ToSet
  <2> QED
    BY <2>1, <2>3
<1>3. S \subseteq 1 .. Len(mono) /\ S \subseteq Nat
  BY <1>2 DEF Null, Targeted
<1>4. ASSUME NEW x \in S PROVE \E m \in ind : x \in mono[m].anc
  <2>1. \A k \in S : k \in anc[k] /\ \A a \in anc[k] \cap S : a <= k /\ anc[a] \subseteq anc[k]
    <3> SUFFICES ASSUME NEW k \in S PROVE k \in anc[k] /\ \A a \in anc[k] \cap S : a <= k
                          /\ anc[a] \subseteq anc[k]
      OBVIOUS
    <3>1. k \in 1 .. Len(mono) /\ anc[k] = mono[k].anc /\ \A a \in S : anc[a] = mono[a].anc
      BY <1>2, <1>3
    <3>2. k \in mono[k].anc /\ mono[k].anc \subseteq 1 .. k
            /\ \A a \in mono[k].anc : mono[a].anc \subseteq mono[k].anc
      BY <3>1, MonoAncestors
    <3>3. \A a \in 1 .. k : a <= k
      OBVIOUS
    <3> HIDE DEF S, anc
    <3> QED
      BY <3>1, <3>2, <3>3
  <2>2. \A k \in S : k <= Len(mono)
    BY <1>2, <1>3
  <2>3. ind \subseteq S
    BY DEF Maximal
  <2>4. \E m \in ind : x \in anc[m]
    <3> HIDE DEF S, anc
    <3> QED
      BY <1>2, <1>3, <2>1, <2>2, MaximalAbove
  <2> HIDE DEF ind, S
  <2> QED
    BY <1>2, <1>3, <2>3, <2>4
<1>5. ind \subseteq S
  BY DEF Maximal
<1>6. ASSUME NEW A
      PROVE  /\ Monos(A) \in Seq(1 .. Len(mono)) /\ Len(Monos(A)) \in Nat
             /\ ToSet(Monos(A)) = {map[c] : c \in ToSet(targets) \cap A}
  <2>1. targets \in Seq(ToSet(targets))
    <3>1. \A i \in 1 .. Len(targets) : targets[i] \in ToSet(targets)
      BY <1>2 DEF ToSet
    <3> QED
      BY <1>2, <3>1
  <2>2. Within(targets, A) \in Seq(ToSet(targets))
          /\ ToSet(Within(targets, A)) = ToSet(targets) \cap A
    BY <2>1, WithinIs
  <2>3. \A c \in ToSet(targets) : map[c] \in 1 .. Len(mono)
    BY DEF Targeted
  <2>4. Monos(A) \in Seq(1 .. Len(mono))
          /\ ToSet(Monos(A)) = {map[c] : c \in ToSet(Within(targets, A))}
    <3> DEFINE W == Within(targets, A)
               w == [i \in DOMAIN W |-> map[W[i]]]
    <3>1. w = Monos(A)
      OBVIOUS
    <3>2. W \in Seq(ToSet(targets))
      BY <2>2
    <3> HIDE DEF W
    <3>3. w = [i \in DOMAIN W |-> map[W[i]]]
      OBVIOUS
    <3> HIDE DEF w
    <3>4. w \in Seq(1 .. Len(mono)) /\ ToSet(w) = {map[c] : c \in ToSet(W)}
      BY <2>3, <3>2, <3>3, MonosIs
    <3> QED
      BY <3>1, <3>4 DEF W
  <2> HIDE DEF Monos
  <2> QED
    BY <2>2, <2>4
<1>7. own \in Seq(1 .. Len(mono)) /\ ToSet(own) = {head} \cap ind
  <2>1. CASE head \in ind
    <3>1. head \in 1 .. Len(mono)
      BY <1>3, <1>5, <2>1
    <3>2. own = <<head>> /\ <<head>> \in Seq(1 .. Len(mono))
      BY <2>1, <3>1, Single
    <3>3. ToSet(<<head>>) = {head}
      BY DEF ToSet
    <3> QED
      BY <2>1, <3>2, <3>3
  <2>2. CASE head \notin ind
    <3>1. own = <<>> /\ <<>> \in Seq(1 .. Len(mono))
      BY <2>2
    <3>2. ToSet(<<>>) = {}
      BY DEF ToSet
    <3>3. {head} \cap ind = {}
      <4> HIDE DEF ind
      <4> QED
        BY <2>2
    <3> HIDE DEF own, ind
    <3> QED
      BY <3>1, <3>2, <3>3
  <2> QED
    BY <2>1, <2>2
<1> HIDE DEF own, Monos, changed
<1>8. /\ first \in Seq(1 .. Len(mono)) /\ ToSet(first) = ToSet(own) \cup ToSet(Monos(independent))
      /\ Len(first) \in Nat
  <2> HIDE DEF independent
  <2> DEFINE U == 1 .. Len(mono)
             t == Monos(independent)
  <2>1. t \in Seq(U) /\ own \in Seq(U)
    BY <1>6, <1>7
  <2> HIDE DEF U, t
  <2>2. own \o t \in Seq(U) /\ ToSet(own \o t) = ToSet(own) \cup ToSet(t)
    BY <2>1, AfterConcat
  <2>3. Len(own \o t) \in Nat
    BY <2>2
  <2> QED
    BY <2>2, <2>3 DEF U, t
<1>9. ind \subseteq ToSet(first)
  <2> SUFFICES ASSUME NEW m \in ind, m # head PROVE m \in ToSet(first)
    BY <1>7, <1>8
  <2>1. PICK c \in ToSet(targets) : m = map[c]
    BY <1>5
  <2>2. c \in ToSet(targets) \cap independent
    BY <2>1
  <2>3. ToSet(Monos(independent)) = {map[k] : k \in ToSet(targets) \cap independent}
    BY <1>6
  <2>4. m \in ToSet(Monos(independent))
    BY <2>1, <2>2, <2>3
  <2> QED
    BY <1>8, <2>4
<1>10. S # {}
  <2>1. PICK c \in ToSet(targets) : TRUE
    BY <1>2
  <2>2. map[c] \in 1 .. Len(mono)
    BY DEF Targeted
  <2>3. map[c] # Null
    BY <1>2, <2>2 DEF Null
  <2>4. map[c] \in S
    BY <2>3
  <2> QED
    BY <2>4
<1> HIDE DEF S, ind
<1>11. ToSet(first) # {}
  BY <1>4, <1>9, <1>10
<1> HIDE DEF first
<1>12. Len(first) # 0
  <2>1. DOMAIN first = 1 .. Len(first)
    BY <1>8
  <2> QED
    BY <1>11, <2>1 DEF ToSet
<1>13. /\ par \in Seq(1 .. Len(mono)) /\ Len(par) = Len(first) + Len(Monos(changed))
       /\ ToSet(par) = ToSet(first) \cup ToSet(Monos(changed)) /\ par[1] = first[1]
  <2>1. Monos(changed) \in Seq(1 .. Len(mono)) /\ Len(Monos(changed)) \in Nat
    BY <1>6
  <2>2. 1 \in 1 .. Len(first)
    BY <1>8, <1>12
  <2> QED
    BY <1>1, <1>8, <2>1, <2>2, AfterConcat
<1>14. par # <<>>
  <2>1. Len(par) # 0
    BY <1>6, <1>8, <1>12, <1>13
  <2> QED
    BY <2>1
<1>15. \A x \in S : \E p \in ToSet(par) : x \in mono[p].anc
  BY <1>4, <1>9, <1>13
<1>16. ASSUME Len(par) = 1, NEW c \in ToSet(targets) PROVE mono[par[1]].tree[hist.dir[c]] = c
  <2>1. ToSet(par) = {par[1]}
    <3>1. DOMAIN par = 1 .. 1
      <4>1. DOMAIN par = 1 .. Len(par)
        BY <1>13
      <4> QED
        BY <1>16, <4>1
    <3> QED
      BY <3>1 DEF ToSet
  <2>2. Len(Monos(changed)) = 0
    BY SMTT(30), <1>6, <1>8, <1>12, <1>13, <1>16
  <2>3. CASE c \in independent
    <3>1. map[c] \in ToSet(first)
      BY <1>6, <1>8, <2>3
    <3>2. map[c] = par[1]
      BY <1>13, <2>1, <3>1
    <3> QED
      BY <3>2 DEF Targeted
  <2>4. CASE c \notin independent
    <3>1. ToSet(Monos(changed)) = {}
      <4>1. DOMAIN Monos(changed) = {}
        BY <1>6, <2>2
      <4> QED
        BY <4>1 DEF ToSet
    <3>2. c \notin changed
      <4>1. ToSet(Monos(changed)) = {map[k] : k \in ToSet(targets) \cap changed}
        BY <1>6
      <4> QED
        BY <3>1, <4>1
    <3>3. ~ Differs(c, first[1])
      BY <2>4, <3>2 DEF changed
    <3> QED
      BY <1>13, <3>3 DEF Differs
  <2> QED
    BY <2>3, <2>4
<1> QED
  BY Zenon, <1>13, <1>14, <1>15, <1>16 DEF S

LEMMA LogGrowsFurther ==
  ASSUME NEW a, NEW b, NEW c, LogGrows(a, b), LogGrows(b, c)
  PROVE  LogGrows(a, c)
BY DEF LogGrows

LEMMA SameLog ==
  ASSUME NEW h, NEW log, IsLog(h, log)
  PROVE  LogGrows(log, log)
BY DEF LogGrows, IsLog

\* Split commits of different directories, and a single parent that has them.
OnePerDir(targets) ==
  /\ \A c \in ToSet(targets) : hist.dir[c] \in Dir
  /\ \A c, k \in ToSet(targets) : hist.dir[c] = hist.dir[k] => c = k

Reached(par, targets) ==
  Len(par) = 1 => \A c \in ToSet(targets) : mono[par[1]].tree[hist.dir[c]] = c

\* What becomes of a merge: it has the targets, and of the rest of the active
\* directories what its first parent has.
Merges(targets, par, r) ==
  /\ IsLog(hist, r.log) /\ LogGrows(mono, r.log) /\ r.at \in 1 .. Len(r.log)
  /\ \A c \in ToSet(targets) : r.log[r.at].tree[hist.dir[c]] = c
  /\ \A p \in ToSet(par) : mono[p].anc \subseteq r.log[r.at].anc
  /\ Len(par) # 1 => \A d \in (active \cap Dir) \ {hist.dir[c] : c \in ToSet(targets)} :
       mono[par[1]].tree[d] # Null => r.log[r.at].tree[d] = mono[par[1]].tree[d]

LEMMA MergeTargetsIs ==
  ASSUME IsLog(hist, mono), NEW targets \in Seq(Commit), OnePerDir(targets),
         NEW par \in Seq(1 .. Len(mono)), par # <<>>, Reached(par, targets),
         NEW base \in Commit \cup {Null}, NEW r, r = MergeTargets(targets, par, base)
  PROVE  Merges(targets, par, r)
<1> SUFFICES
         /\ IsLog(hist, r.log) /\ LogGrows(mono, r.log) /\ r.at \in 1 .. Len(r.log)
         /\ \A c \in ToSet(targets) : r.log[r.at].tree[hist.dir[c]] = c
         /\ \A p \in ToSet(par) : mono[p].anc \subseteq r.log[r.at].anc
         /\ Len(par) # 1 => \A d \in (active \cap Dir) \ {hist.dir[c] : c \in ToSet(targets)} :
              mono[par[1]].tree[d] # Null => r.log[r.at].tree[d] = mono[par[1]].tree[d]
  BY DEF Merges
<1> DEFINE own == [d \in {hist.dir[c] : c \in ToSet(targets)} |->
                     CHOOSE c \in ToSet(targets) : hist.dir[c] = d]
           tree == Tree(mono, own, par, 1)
<1>1. Len(par) \in Nat /\ Len(par) # 0 /\ 1 \in 1 .. Len(par) /\ par[1] \in 1 .. Len(mono)
      /\ DOMAIN par = 1 .. Len(par)
  OBVIOUS
<1>2. CASE Len(par) = 1
  <2>1. r = [at |-> par[1], log |-> mono]
    BY <1>2 DEF MergeTargets
  <2>2. ToSet(par) = {par[1]}
    <3>1. DOMAIN par = 1 .. 1
      BY <1>1, <1>2
    <3> QED
      BY <3>1 DEF ToSet
  <2> QED
    BY <1>1, <1>2, <2>1, <2>2, SameLog DEF Reached
<1>3. CASE Len(par) # 1
  <2>1. r = CommitTree(mono, par, tree, base)
    BY <1>3 DEF MergeTargets
  <2>2. ASSUME NEW c \in ToSet(targets)
        PROVE  hist.dir[c] \in DOMAIN own /\ own[hist.dir[c]] = c
    BY DEF OnePerDir
  <2>3. \A d \in DOMAIN own : own[d] \in Commit /\ hist.dir[own[d]] = d /\ d \in Dir
    <3>1. ToSet(targets) \subseteq Commit
      BY DEF ToSet
    <3>2. \A d \in DOMAIN own : \E c \in ToSet(targets) : d = hist.dir[c]
      OBVIOUS
    <3> HIDE DEF own
    <3> QED
      BY <2>2, <3>1, <3>2 DEF OnePerDir
  <2>4. DOMAIN own = {hist.dir[c] : c \in ToSet(targets)}
    OBVIOUS
  <2>5. 1 \in 0 .. Len(par) /\ DOMAIN own \subseteq Dir
    BY <1>1, <2>4 DEF OnePerDir
  <2> HIDE DEF own
  <2>6. /\ IsTree(hist, tree)
        /\ \A d \in DOMAIN own : tree[d] = own[d]
        /\ \A d \in (active \cap Dir) \ DOMAIN own :
              mono[par[1]].tree[d] # Null => tree[d] = mono[par[1]].tree[d]
    BY <2>3, <2>5, TreeIs
  <2> HIDE DEF tree
  <2>7. /\ IsLog(hist, r.log) /\ LogGrows(mono, r.log) /\ r.at \in 1 .. Len(r.log)
        /\ r.log[r.at].tree = tree /\ ToSet(r.log[r.at].par) = ToSet(par)
    BY <2>1, <2>6, CommitTreeIs DEF Commit
  <2>8. \A p \in ToSet(par) : mono[p].anc \subseteq r.log[r.at].anc
    <3>1. \A p \in ToSet(par) : p \in 1 .. Len(mono)
      BY DEF ToSet
    <3>2. \A p \in ToSet(par) : r.log[p].anc \subseteq r.log[r.at].anc
      BY <2>7, MonoAncestors
    <3> QED
      BY <2>7, <3>1, <3>2 DEF LogGrows
  <2> QED
    BY <1>3, <2>2, <2>4, <2>6, <2>7, <2>8
<1> QED
  BY <1>2, <1>3

-----------------------------------------------------------------------------
\* The database m: what it maps has the content of its commit, and so has
\* every parent; when commits are dated in order, the parents are merged.
Database(log, m) ==
  /\ m \in [Commit -> 0 .. Len(log)]
  /\ \A c \in Commit : m[c] # Null =>
       /\ log[m[c]].tree[hist.dir[c]] = c
       /\ \A p \in ToSet(hist.par[c]) : m[p] # Null /\ (Dated => m[p] \in log[m[c]].anc)

LEMMA DatabaseGrows ==
  ASSUME NEW log, NEW new, LogGrows(log, new), NEW m, Database(log, m)
  PROVE  Database(new, m)
<1>1. /\ Len(log) \in Nat /\ Len(new) \in Nat /\ Len(log) <= Len(new)
      /\ \A k \in 1 .. Len(log) : new[k] = log[k]
  BY DEF LogGrows
<1>2. m \in [Commit -> 0 .. Len(log)]
  BY DEF Database
<1>3. \A c \in Commit : m[c] \in 0 .. Len(log) /\ m[c] \in 0 .. Len(new)
  BY <1>1, <1>2
<1>4. m \in [Commit -> 0 .. Len(new)]
  BY <1>2, <1>3
<1>5. \A c \in Commit : m[c] # Null => new[m[c]] = log[m[c]]
  BY <1>1, <1>3 DEF Null
<1> QED
  BY <1>4, <1>5 DEF Database

LEMMA AncestorsMapped ==
  ASSUME IsHistory(hist, Dir), NEW log, NEW m, Database(log, m), NEW c \in Commit, m[c] # Null
  PROVE  \A a \in hist.anc[c] : m[a] # Null
<1> DEFINE Bad == {k \in Commit : m[k] # Null /\ \E a \in hist.anc[k] : m[a] = Null}
<1>1. Bad = {}
  <2>1. SUFFICES ASSUME Bad # {} PROVE FALSE
    OBVIOUS
  <2>2. PICK k \in Bad : \A j \in Bad : k <= j
    <3>1. Bad \subseteq Nat
      BY HistoryType DEF Commit
    <3> HIDE DEF Bad
    <3> QED
      BY <2>1, <3>1, SmallestNat
  <2>3. PICK a \in hist.anc[k] : m[a] = Null
    OBVIOUS
  <2>4. k \in Commit /\ m[k] # Null /\ k \in Nat
    BY HistoryType DEF Commit
  <2>5. PICK p \in ToSet(hist.par[k]) : a \in hist.anc[p]
    BY <2>3, <2>4, AncestorFacts DEF Commit
  <2>6. p \in Commit /\ p < k /\ p \in Nat
    BY <2>4, HistoryType DEF Commit
  <2>7. m[p] # Null
    BY <2>4 DEF Database
  <2>8. p \in Bad
    BY <2>3, <2>5, <2>6, <2>7
  <2> QED
    BY <2>2, <2>4, <2>6, <2>8
<1> QED
  BY <1>1

\* The mono commits and the database of a translation.
Translation(acc) == IsLog(hist, acc.log) /\ Database(acc.log, acc.map)

NewCommit(acc, c, par, headp) ==
  CommitTree(acc.log, par, Tree(acc.log, [d \in {hist.dir[c]} |-> c], par, headp), c)

LEMMA TranslateFails ==
  ASSUME NEW acc, NEW c, NEW par, NEW headp, NEW r, r = TranslateCommit(acc, c, par, headp)
  PROVE  /\ acc.failed => r.failed
         /\ Null \in ToSet(par) => r.failed
         /\ acc.map[c] \notin {Null, NewCommit(acc, c, par, headp).at} => r.failed
         /\ ~ acc.failed /\ Null \notin ToSet(par) /\ acc.map[c] = Null => ~ r.failed
<1> DEFINE stop == acc.failed \/ Null \in ToSet(par)
                     \/ acc.map[c] \notin {Null, NewCommit(acc, c, par, headp).at}
<1>1. r = IF stop THEN [acc EXCEPT !.failed = TRUE]
          ELSE [log |-> NewCommit(acc, c, par, headp).log,
                map |-> [acc.map EXCEPT ![c] = NewCommit(acc, c, par, headp).at], failed |-> FALSE]
  BY DEF TranslateCommit, NewCommit
<1> QED
  BY <1>1

\* The parents are translated and, when commits are dated in order, merged.
Ready(acc, c, par) ==
  /\ \A p \in ToSet(hist.par[c]) : acc.map[p] # Null
  /\ Dated => \A p \in ToSet(hist.par[c]) : \E m \in ToSet(par) : acc.map[p] \in acc.log[m].anc

Translated(acc, c, par, headp, r) ==
  /\ Translation(r) /\ LogGrows(acc.log, r.log)
  /\ r.map = [acc.map EXCEPT ![c] = r.map[c]]
  /\ r.map[c] \in 1 .. Len(r.log)
  /\ r.log[r.map[c]].tree[hist.dir[c]] = c
  /\ \A m \in ToSet(par) : acc.log[m].anc \subseteq r.log[r.map[c]].anc
  /\ par # <<>> => \A d \in (active \cap Dir) \ {hist.dir[c]} :
       acc.log[par[IF headp = 0 THEN 1 ELSE headp]].tree[d] # Null =>
         r.log[r.map[c]].tree[d] = acc.log[par[IF headp = 0 THEN 1 ELSE headp]].tree[d]

LEMMA TranslateCommitIs ==
  ASSUME IsHistory(hist, Dir), NEW acc, Translation(acc), NEW c \in Commit,
         NEW par \in Seq(0 .. Len(acc.log)), Ready(acc, c, par), NEW headp \in 0 .. Len(par),
         NEW r, r = TranslateCommit(acc, c, par, headp), ~ r.failed
  PROVE  Translated(acc, c, par, headp, r)
<1>0. /\ \A p \in ToSet(hist.par[c]) : acc.map[p] # Null
      /\ Dated => \A p \in ToSet(hist.par[c]) : \E m \in ToSet(par) : acc.map[p] \in acc.log[m].anc
  BY DEF Ready
<1> DEFINE own == [d \in {hist.dir[c]} |-> c]
           tree == Tree(acc.log, own, par, headp)
           new == CommitTree(acc.log, par, tree, c)
<1>1. ~ acc.failed /\ Null \notin ToSet(par) /\ acc.map[c] \in {Null, new.at}
  BY TranslateFails DEF NewCommit
<1>2. r = [log |-> new.log, map |-> [acc.map EXCEPT ![c] = new.at], failed |-> FALSE]
  BY <1>1 DEF TranslateCommit
<1>3. /\ Len(acc.log) \in Nat /\ Len(par) \in Nat /\ DOMAIN par = 1 .. Len(par)
      /\ acc.map \in [Commit -> 0 .. Len(acc.log)] /\ c \in Commits(hist) /\ hist.dir[c] \in Dir
  <2>1. c \in Commits(hist) /\ hist.dir[c] \in Dir
    BY HistoryType DEF Commit
  <2> QED
    BY <2>1 DEF Translation, IsLog, Database
<1>4. par \in Seq(1 .. Len(acc.log))
  <2>1. \A i \in 1 .. Len(par) : par[i] \in 0 .. Len(acc.log) /\ par[i] # 0
    BY <1>1, <1>3 DEF ToSet, Null
  <2>2. \A i \in 1 .. Len(par) : par[i] \in 1 .. Len(acc.log)
    BY <1>3, <2>1
  <2> QED
    BY <1>3, <2>2
<1>5. /\ IsTree(hist, tree) /\ tree[hist.dir[c]] = c
      /\ par # <<>> =>
           LET p == par[IF headp = 0 THEN 1 ELSE headp]
           IN  \A d \in (active \cap Dir) \ {hist.dir[c]} :
                 acc.log[p].tree[d] # Null => tree[d] = acc.log[p].tree[d]
  <2>1. DOMAIN own = {hist.dir[c]} /\ own[hist.dir[c]] = c
    OBVIOUS
  <2>2. DOMAIN own \subseteq Dir /\ \A d \in DOMAIN own : own[d] \in Commit /\ hist.dir[own[d]] = d
    BY <1>3, <2>1
  <2>3. IsLog(hist, acc.log)
    BY DEF Translation
  <2> HIDE DEF own
  <2>4. /\ IsTree(hist, tree)
        /\ \A d \in DOMAIN own : tree[d] = own[d]
        /\ par # <<>> =>
             LET p == par[IF headp = 0 THEN 1 ELSE headp]
             IN  \A d \in (active \cap Dir) \ DOMAIN own :
                   acc.log[p].tree[d] # Null => tree[d] = acc.log[p].tree[d]
    BY <1>4, <2>2, <2>3, TreeIs
  <2> HIDE DEF tree
  <2> QED
    BY <2>1, <2>4
<1> HIDE DEF tree
<1>6. /\ IsLog(hist, new.log) /\ LogGrows(acc.log, new.log) /\ new.at \in 1 .. Len(new.log)
      /\ new.log[new.at].tree = tree /\ ToSet(new.log[new.at].par) = ToSet(par)
  <2>1. IsLog(hist, acc.log) /\ c \in Commits(hist) \cup {Null}
    BY <1>3 DEF Translation
  <2> QED
    BY <1>4, <1>5, <2>1, CommitTreeIs
<1> HIDE DEF new
<1>7. r.log = new.log /\ r.map = [acc.map EXCEPT ![c] = new.at] /\ r.map[c] = new.at
      /\ \A k \in Commit : k # c => r.map[k] = acc.map[k]
  BY <1>2, <1>3
<1>8. \A m \in ToSet(par) : m # Null /\ m \in 1 .. Len(acc.log)
        /\ acc.log[m].anc \subseteq r.log[r.map[c]].anc
  <2>1. \A m \in ToSet(par) : m \in 1 .. Len(acc.log)
    BY <1>4 DEF ToSet
  <2>2. \A m \in ToSet(par) : new.log[m].anc \subseteq new.log[new.at].anc
    BY <1>6, MonoAncestors
  <2>3. \A m \in ToSet(par) : new.log[m] = acc.log[m]
    BY <1>6, <2>1 DEF LogGrows
  <2> QED
    BY <1>1, <1>7, <2>1, <2>2, <2>3
<1>9. Database(r.log, r.map)
  <2>1. Database(new.log, acc.map)
    BY <1>6, DatabaseGrows DEF Translation
  <2>2. Len(new.log) \in Nat /\ new.at \in 0 .. Len(new.log) /\ new.at # Null
    BY <1>6 DEF LogGrows, Null
  <2>3. r.map \in [Commit -> 0 .. Len(r.log)]
    BY <1>7, <2>1, <2>2 DEF Database
  <2>4. ASSUME NEW k \in Commit, r.map[k] # Null
        PROVE  /\ r.log[r.map[k]].tree[hist.dir[k]] = k
               /\ \A p \in ToSet(hist.par[k]) : r.map[p] # Null
                    /\ (Dated => r.map[p] \in r.log[r.map[k]].anc)
    <3>0. \A p \in ToSet(hist.par[k]) : p \in Commit /\ p < k /\ p # k
      BY HistoryType DEF Commit
    <3>1. CASE k = c
      <4>1. r.log[r.map[k]].tree[hist.dir[k]] = k
        BY <1>5, <1>6, <1>7, <3>1
      <4>2. ASSUME NEW p \in ToSet(hist.par[k])
            PROVE  r.map[p] # Null /\ (Dated => r.map[p] \in r.log[r.map[k]].anc)
        <5>1. r.map[p] = acc.map[p] /\ acc.map[p] # Null
          BY <1>0, <1>7, <3>0, <3>1
        <5>2. ASSUME Dated PROVE r.map[p] \in r.log[r.map[k]].anc
          BY <1>0, <1>8, <3>1, <5>1, <5>2
        <5> QED
          BY <5>1, <5>2
      <4> QED
        BY <4>1, <4>2
    <3>2. CASE k # c
      <4>1. r.map[k] = acc.map[k] /\ r.log = new.log
        BY <1>7, <3>2
      <4>2. /\ new.log[acc.map[k]].tree[hist.dir[k]] = k
            /\ \A p \in ToSet(hist.par[k]) : acc.map[p] # Null
                 /\ (Dated => acc.map[p] \in new.log[acc.map[k]].anc)
        BY <2>1, <2>4, <4>1 DEF Database
      <4>3. ASSUME NEW p \in ToSet(hist.par[k])
            PROVE  r.map[p] # Null /\ (Dated => r.map[p] \in r.log[r.map[k]].anc)
        <5>1. CASE p # c
          BY <1>7, <3>0, <4>1, <4>2, <5>1
        <5>2. CASE p = c
          <6>1. acc.map[c] = new.at /\ r.map[c] = new.at
            BY <1>1, <1>7, <4>2, <5>2
          <6> QED
            BY <2>2, <4>1, <4>2, <5>2, <6>1
        <5> QED
          BY <5>1, <5>2
      <4> QED
        BY <4>1, <4>2, <4>3
    <3> QED
      BY <3>1, <3>2
  <2> QED
    BY <2>3, <2>4 DEF Database
<1>10. Translation(r)
  BY <1>6, <1>7, <1>9 DEF Translation
<1> QED
  BY SMTT(30), <1>5, <1>6, <1>7, <1>8, <1>10 DEF Translated

-----------------------------------------------------------------------------
(***************************************************************************)
(* What mono commits are made of: content in the tree is of commits that   *)
(* are mapped to ancestors, and only what is mapped was translated.        *)
(***************************************************************************)
Sourced(log, m) ==
  \A k \in 1 .. Len(log) :
    /\ log[k].base # Null => m[log[k].base] # Null
    /\ \A d \in Dir : log[k].tree[d] # Null =>
         m[log[k].tree[d]] # Null /\ m[log[k].tree[d]] \in log[k].anc

\* What is new in the database is new in the log.
Adds(log, m, new, n) ==
  /\ LogGrows(log, new)
  /\ \A c \in Commit : IF m[c] # Null THEN n[c] = m[c] ELSE n[c] \notin 1 .. Len(log)

Keeps(log, m, r) ==
  Sourced(log, m) => Sourced(r.log, r.map) /\ Adds(log, m, r.log, r.map)

LEMMA AddsFurther ==
  ASSUME NEW a, NEW m, NEW b, NEW n, NEW c, NEW o, Adds(a, m, b, n), Adds(b, n, c, o),
         \A x \in Commit : n[x] # Null => n[x] \in 1 .. Len(b)
  PROVE  Adds(a, m, c, o)
<1>1. LogGrows(a, c)
  BY LogGrowsFurther DEF Adds
<1>2. 1 .. Len(a) \subseteq 1 .. Len(b)
  BY DEF Adds, LogGrows
<1>3. ASSUME NEW x \in Commit
      PROVE  IF m[x] # Null THEN o[x] = m[x] ELSE o[x] \notin 1 .. Len(a)
  <2>1. /\ IF m[x] # Null THEN n[x] = m[x] ELSE n[x] \notin 1 .. Len(a)
        /\ IF n[x] # Null THEN o[x] = n[x] ELSE o[x] \notin 1 .. Len(b)
    BY DEF Adds
  <2> QED
    BY <1>2, <2>1
<1> QED
  BY <1>1, <1>3 DEF Adds

LEMMA KeepsFurther ==
  ASSUME NEW log, NEW m, NEW a, NEW b, Keeps(log, m, a), Keeps(a.log, a.map, b), Translation(a)
  PROVE  Keeps(log, m, b)
<1> SUFFICES ASSUME Sourced(log, m) PROVE Sourced(b.log, b.map) /\ Adds(log, m, b.log, b.map)
  BY DEF Keeps
<1>1. /\ Adds(log, m, a.log, a.map) /\ Sourced(b.log, b.map)
      /\ Adds(a.log, a.map, b.log, b.map)
  BY DEF Keeps
<1>2. \A x \in Commit : a.map[x] # Null => a.map[x] \in 1 .. Len(a.log)
  <2>1. a.map \in [Commit -> 0 .. Len(a.log)] /\ Len(a.log) \in Nat
    BY <1>1 DEF Translation, Database, Adds, LogGrows
  <2> QED
    BY <2>1 DEF Null
<1> QED
  BY <1>1, <1>2, AddsFurther

LEMMA KeepsAll ==
  ASSUME NEW a, Translation(a)
  PROVE  Keeps(a.log, a.map, a)
<1>1. LogGrows(a.log, a.log)
  BY SameLog DEF Translation
<1>2. \A c \in Commit : IF a.map[c] # Null THEN a.map[c] = a.map[c]
                        ELSE a.map[c] \notin 1 .. Len(a.log)
  BY DEF Null
<1> QED
  BY <1>1, <1>2 DEF Keeps, Adds

\* The tree of a new commit: its own content is mapped to it or an ancestor.
Grown(log, par, tree, base, at, m) ==
  /\ base # Null => m[base] # Null
  /\ \A d \in Dir : tree[d] # Null =>
       /\ m[tree[d]] # Null
       /\ m[tree[d]] = at \/ \E p \in ToSet(par) : m[tree[d]] \in log[p].anc

LEMMA CommitTreeSourced ==
  ASSUME NEW log, IsLog(hist, log), NEW par \in Seq(1 .. Len(log)),
         NEW tree, IsTree(hist, tree), NEW base \in Commit \cup {Null},
         NEW r, r = CommitTree(log, par, tree, base),
         NEW m, Sourced(log, m), NEW n, \A c \in Commit : m[c] # Null => n[c] = m[c],
         Grown(log, par, tree, base, r.at, n)
  PROVE  Sourced(r.log, n)
<1>1. /\ IsLog(hist, r.log) /\ LogGrows(log, r.log) /\ r.at \in 1 .. Len(r.log)
      /\ r.log[r.at].tree = tree /\ r.log[r.at].base = base
      /\ ToSet(r.log[r.at].par) = ToSet(par) /\ OneMore(log, r)
  BY CommitTreeIs DEF Commit
<1>2. r.at \in r.log[r.at].anc
      /\ \A p \in ToSet(par) : log[p].anc \subseteq r.log[r.at].anc
  <2>1. \A p \in ToSet(par) : p \in 1 .. Len(log)
    BY DEF ToSet
  <2>2. r.at \in r.log[r.at].anc /\ \A p \in ToSet(par) : r.log[p].anc \subseteq r.log[r.at].anc
    BY <1>1, MonoAncestors
  <2> QED
    BY <1>1, <2>1, <2>2 DEF LogGrows
<1>3. ASSUME NEW k \in 1 .. Len(r.log)
      PROVE  /\ r.log[k].base # Null => n[r.log[k].base] # Null
             /\ \A d \in Dir : r.log[k].tree[d] # Null =>
                  n[r.log[k].tree[d]] # Null /\ n[r.log[k].tree[d]] \in r.log[k].anc
  <2>1. CASE k = r.at
    <3>1. base # Null => n[base] # Null
      BY DEF Grown
    <3>2. ASSUME NEW d \in Dir, tree[d] # Null
          PROVE  n[tree[d]] # Null /\ n[tree[d]] \in r.log[r.at].anc
      BY <1>2, <3>2 DEF Grown
    <3> QED
      BY <1>1, <2>1, <3>1, <3>2
  <2>2. CASE k # r.at
    <3>1. k \in 1 .. Len(log)
      BY <1>1, <2>2 DEF OneMore
    <3>2. r.log[k] = log[k]
      BY <1>1, <3>1 DEF LogGrows
    <3>3. log[k].base \in Commit \cup {Null} /\ IsTree(hist, log[k].tree)
      <4> DEFINE R == [par : Seq(Nat), tree : [Dir -> Commit \cup {Null}],
                       base : Commit \cup {Null}, anc : SUBSET Nat]
      <4>1. log \in Seq(R) /\ IsTree(hist, log[k].tree)
        BY <3>1 DEF IsLog, Commit
      <4> HIDE DEF R
      <4>2. log[k] \in R
        BY <3>1, <4>1
      <4> QED
        BY <4>1, <4>2 DEF R
    <3>4. log[k].base # Null => n[log[k].base] # Null
      BY <3>1, <3>3 DEF Sourced
    <3>5. ASSUME NEW d \in Dir, log[k].tree[d] # Null
          PROVE  n[log[k].tree[d]] # Null /\ n[log[k].tree[d]] \in log[k].anc
      <4>1. log[k].tree[d] \in Commit
        BY <3>3, <3>5 DEF IsTree, Commit
      <4>2. m[log[k].tree[d]] # Null /\ m[log[k].tree[d]] \in log[k].anc
        BY <3>1, <3>5 DEF Sourced
      <4> QED
        BY <4>1, <4>2
    <3> QED
      BY <3>2, <3>4, <3>5
  <2> QED
    BY <2>1, <2>2
<1> QED
  BY <1>3 DEF Sourced

LEMMA InheritedIsSourced ==
  ASSUME NEW log, IsLog(hist, log), NEW m, Sourced(log, m), NEW n,
         \A c \in Commit : m[c] # Null => n[c] = m[c],
         NEW par \in Seq(1 .. Len(log)), NEW own, NEW t, IsTree(hist, t), Inherited(log, own, par, t),
         NEW d \in Dir \ DOMAIN own, t[d] # Null
  PROVE  n[t[d]] # Null /\ \E p \in ToSet(par) : n[t[d]] \in log[p].anc
<1>1. PICK p \in ToSet(par) : log[p].tree[d] = t[d]
  BY DEF Inherited
<1>2. p \in 1 .. Len(log)
  BY DEF ToSet
<1>3. m[t[d]] # Null /\ m[t[d]] \in log[p].anc
  BY <1>1, <1>2 DEF Sourced
<1>4. t[d] \in Commit
  BY DEF IsTree, Commit
<1> QED
  BY <1>3, <1>4

-----------------------------------------------------------------------------
\* A commit without a mono commit gets a new one: none was made from it.
LEMMA TranslateKeeps ==
  ASSUME IsHistory(hist, Dir), NEW acc, Translation(acc), NEW c \in Commit, acc.map[c] = Null,
         NEW par \in Seq(0 .. Len(acc.log)), NEW headp \in 0 .. Len(par),
         NEW r, r = TranslateCommit(acc, c, par, headp), ~ r.failed
  PROVE  Keeps(acc.log, acc.map, r)
<1> SUFFICES ASSUME Sourced(acc.log, acc.map)
             PROVE  Sourced(r.log, r.map) /\ Adds(acc.log, acc.map, r.log, r.map)
  BY DEF Keeps
<1> DEFINE own == [d \in {hist.dir[c]} |-> c]
           tree == Tree(acc.log, own, par, headp)
           new == CommitTree(acc.log, par, tree, c)
<1>1. ~ acc.failed /\ Null \notin ToSet(par)
  BY TranslateFails
<1>2. r = [log |-> new.log, map |-> [acc.map EXCEPT ![c] = new.at], failed |-> FALSE]
  BY <1>1 DEF TranslateCommit
<1>3. /\ Len(acc.log) \in Nat /\ Len(par) \in Nat /\ DOMAIN par = 1 .. Len(par)
      /\ acc.map \in [Commit -> 0 .. Len(acc.log)] /\ c \in Commits(hist) /\ hist.dir[c] \in Dir
      /\ IsLog(hist, acc.log)
  <2>1. c \in Commits(hist) /\ hist.dir[c] \in Dir
    BY HistoryType DEF Commit
  <2> QED
    BY <2>1 DEF Translation, IsLog, Database
<1>4. par \in Seq(1 .. Len(acc.log))
  <2>1. \A i \in 1 .. Len(par) : par[i] \in 0 .. Len(acc.log) /\ par[i] # 0
    BY <1>1, <1>3 DEF ToSet, Null
  <2>2. \A i \in 1 .. Len(par) : par[i] \in 1 .. Len(acc.log)
    BY <1>3, <2>1
  <2> QED
    BY <1>3, <2>2
<1>5. DOMAIN own = {hist.dir[c]} /\ own[hist.dir[c]] = c
  OBVIOUS
<1>6. IsTree(hist, tree) /\ tree[hist.dir[c]] = c /\ Inherited(acc.log, own, par, tree)
  <2>1. DOMAIN own \subseteq Dir /\ \A d \in DOMAIN own : own[d] \in Commit /\ hist.dir[own[d]] = d
    BY <1>3, <1>5
  <2> HIDE DEF own
  <2>2. /\ IsTree(hist, tree) /\ \A d \in DOMAIN own : tree[d] = own[d]
        /\ Inherited(acc.log, own, par, tree)
    BY <1>3, <1>4, <2>1, TreeIs
  <2> QED
    BY <1>5, <2>2
<1> HIDE DEF own, tree
<1>7. /\ LogGrows(acc.log, new.log) /\ new.at \in 1 .. Len(new.log)
      /\ new.log[new.at].base = c
  <2>1. c \in Commits(hist) \cup {Null}
    BY <1>3
  <2> QED
    BY <1>3, <1>4, <1>6, <2>1, CommitTreeIs
<1>8. new.at \notin 1 .. Len(acc.log)
  <2> SUFFICES ASSUME new.at \in 1 .. Len(acc.log) PROVE FALSE
    OBVIOUS
  <2>1. acc.log[new.at].base = c
    BY <1>7 DEF LogGrows
  <2>2. c # Null
    BY HistoryType DEF Commit, Null
  <2> QED
    BY <2>1, <2>2 DEF Sourced
<1>9. r.map[c] = new.at /\ (\A k \in Commit : k # c => r.map[k] = acc.map[k]) /\ r.log = new.log
  BY <1>2, <1>3
<1>10. new.at # Null
  <2>1. Len(new.log) \in Nat
    BY <1>7 DEF LogGrows
  <2> QED
    BY <1>7, <2>1 DEF Null
<1>11. \A k \in Commit : acc.map[k] # Null => r.map[k] = acc.map[k]
  BY <1>9
<1>12. Grown(acc.log, par, tree, c, new.at, r.map)
  <2>1. ASSUME NEW d \in Dir, tree[d] # Null
        PROVE  /\ r.map[tree[d]] # Null
               /\ r.map[tree[d]] = new.at
                    \/ \E p \in ToSet(par) : r.map[tree[d]] \in acc.log[p].anc
    <3>1. CASE d = hist.dir[c]
      BY <1>6, <1>9, <1>10, <3>1
    <3>2. CASE d # hist.dir[c]
      <4>1. d \in Dir \ DOMAIN own
        BY <1>5, <3>2
      <4> DEFINE log == acc.log
                 m == acc.map
                 n == r.map
      <4>2. /\ IsLog(hist, log) /\ Sourced(log, m) /\ \A k \in Commit : m[k] # Null => n[k] = m[k]
            /\ par \in Seq(1 .. Len(log)) /\ Inherited(log, own, par, tree)
        BY <1>3, <1>4, <1>6, <1>11
      <4> HIDE DEF new, log, m, n
      <4>3. n[tree[d]] # Null /\ \E p \in ToSet(par) : n[tree[d]] \in log[p].anc
        BY SMTT(30), <1>6, <2>1, <4>1, <4>2, InheritedIsSourced
      <4> QED
        BY <4>3 DEF log, n
    <3> QED
      BY <3>1, <3>2
  <2> QED
    BY <1>9, <1>10, <2>1 DEF Grown
<1>13. Sourced(new.log, r.map)
  <2>1. new = CommitTree(acc.log, par, tree, c)
    OBVIOUS
  <2>2. IsTree(hist, tree) /\ c \in Commit \cup {Null}
    BY <1>6
  <2> HIDE DEF new, tree
  <2> QED
    BY SMTT(30), <1>3, <1>4, <1>11, <1>12, <2>1, <2>2, CommitTreeSourced
<1>14. Adds(acc.log, acc.map, r.log, r.map)
  <2>1. ASSUME NEW k \in Commit
        PROVE  IF acc.map[k] # Null
                 THEN r.map[k] = acc.map[k] ELSE r.map[k] \notin 1 .. Len(acc.log)
    <3>1. CASE k = c
      BY <1>8, <1>9, <3>1
    <3>2. CASE k # c
      BY <1>9, <3>2 DEF Null
    <3> QED
      BY <3>1, <3>2
  <2> QED
    BY <1>7, <1>9, <2>1 DEF Adds
<1> QED
  BY <1>9, <1>13, <1>14

\* A merge has what its targets are and what its parents have.
LEMMA MergeKeeps ==
  ASSUME IsLog(hist, mono), Sourced(mono, map), NEW targets \in Seq(Commit), OnePerDir(targets),
         NEW par \in Seq(1 .. Len(mono)), par # <<>>,
         NEW base \in Commit \cup {Null}, base # Null => map[base] # Null,
         \A c \in ToSet(targets) : map[c] # Null /\ \E p \in ToSet(par) : map[c] \in mono[p].anc,
         NEW r, r = MergeTargets(targets, par, base)
  PROVE  Sourced(r.log, map)
<1> DEFINE own == [d \in {hist.dir[c] : c \in ToSet(targets)} |->
                     CHOOSE c \in ToSet(targets) : hist.dir[c] = d]
           tree == Tree(mono, own, par, 1)
<1>1. CASE Len(par) = 1
  BY <1>1 DEF MergeTargets
<1>2. CASE Len(par) # 1
  <2>1. r = CommitTree(mono, par, tree, base)
    BY <1>2 DEF MergeTargets
  <2>2. ASSUME NEW c \in ToSet(targets)
        PROVE  hist.dir[c] \in DOMAIN own /\ own[hist.dir[c]] = c
    BY DEF OnePerDir
  <2>3. \A d \in DOMAIN own : own[d] \in Commit /\ hist.dir[own[d]] = d /\ d \in Dir
          /\ own[d] \in ToSet(targets)
    <3>1. ToSet(targets) \subseteq Commit
      BY DEF ToSet
    <3>2. \A d \in DOMAIN own : \E c \in ToSet(targets) : d = hist.dir[c]
      OBVIOUS
    <3> HIDE DEF own
    <3> QED
      BY <2>2, <3>1, <3>2 DEF OnePerDir
  <2>4. 1 \in 0 .. Len(par) /\ DOMAIN own \subseteq Dir
    <3>1. Len(par) \in Nat /\ Len(par) # 0
      OBVIOUS
    <3> HIDE DEF own
    <3> QED
      BY <2>3, <3>1
  <2> HIDE DEF own
  <2>5. /\ IsTree(hist, tree) /\ \A d \in DOMAIN own : tree[d] = own[d]
        /\ Inherited(mono, own, par, tree)
    BY SMTT(30), <2>3, <2>4, TreeIs
  <2> HIDE DEF tree
  <2>6. ASSUME NEW d \in Dir, tree[d] # Null
        PROVE  map[tree[d]] # Null /\ \E p \in ToSet(par) : map[tree[d]] \in mono[p].anc
    <3>1. CASE d \in DOMAIN own
      BY <2>3, <2>5, <3>1
    <3>2. CASE d \notin DOMAIN own
      BY <2>5, <2>6, <3>2, InheritedIsSourced
    <3> QED
      BY <3>1, <3>2
  <2>7. Grown(mono, par, tree, base, r.at, map)
    BY <2>6 DEF Grown
  <2> QED
    BY <2>1, <2>5, <2>7, CommitTreeSourced
<1> QED
  BY <1>1, <1>2

-----------------------------------------------------------------------------
Begun == [log |-> mono, map |-> map, failed |-> FALSE]

SideFold(f, s, n) ==
  \A t \in SUBSET (1 .. n) :
    f[t] = IF t = {} THEN Begun ELSE TranslateSide(f[t \ {Max(t)}], s[Max(t)])

LEMMA SideFoldExists ==
  ASSUME NEW s, NEW n \in Nat
  PROVE  \E f : f = [t \in SUBSET (1 .. n) |-> f[t]] /\ SideFold(f, s, n)
<1> DEFINE Good == {k \in Nat : \E f : f = [t \in SUBSET (1 .. k) |-> f[t]] /\ SideFold(f, s, k)}
<1>1. 0 \in Good
  <2> DEFINE f == [t \in SUBSET (1 .. 0) |-> Begun]
  <2>1. \A t \in SUBSET (1 .. 0) : t = {}
    OBVIOUS
  <2>2. f = [t \in SUBSET (1 .. 0) |-> f[t]]
    OBVIOUS
  <2>3. SideFold(f, s, 0)
    BY <2>1 DEF SideFold
  <2> QED
    BY <2>2, <2>3
<1>2. ASSUME NEW k \in Nat, k \in Good PROVE k + 1 \in Good
  <2>1. PICK f : f = [t \in SUBSET (1 .. k) |-> f[t]] /\ SideFold(f, s, k)
    BY <1>2
  <2> DEFINE g == [t \in SUBSET (1 .. k + 1) |->
                     IF k + 1 \in t THEN TranslateSide(f[t \ {k + 1}], s[k + 1]) ELSE f[t]]
  <2>2. ASSUME NEW t \in SUBSET (1 .. k + 1)
        PROVE  g[t] = IF t = {} THEN Begun ELSE TranslateSide(g[t \ {Max(t)}], s[Max(t)])
    <3>1. CASE k + 1 \in t
      <4>1. Max(t) \in t /\ k + 1 <= Max(t)
        BY <3>1, MaxOfSome
      <4>2. Max(t) = k + 1
        <5>1. Max(t) \in 1 .. k + 1
          BY <4>1
        <5> QED
          BY <4>1, <5>1
      <4>3. t \ {k + 1} \in SUBSET (1 .. k + 1) /\ k + 1 \notin t \ {k + 1}
        OBVIOUS
      <4>4. g[t \ {k + 1}] = f[t \ {k + 1}]
        BY <4>3
      <4> QED
        BY <3>1, <4>2, <4>4
    <3>2. CASE k + 1 \notin t
      <4>1. t \in SUBSET (1 .. k)
        BY <3>2
      <4>2. t # {} => Max(t) \in t
        BY <4>1, MaxOfSome
      <4>3. t \ {Max(t)} \in SUBSET (1 .. k + 1) /\ k + 1 \notin t \ {Max(t)}
        BY <3>2
      <4>4. g[t] = f[t] /\ g[t \ {Max(t)}] = f[t \ {Max(t)}]
        BY <3>2, <4>3
      <4> HIDE DEF g
      <4> QED
        BY <2>1, <4>1, <4>4 DEF SideFold
    <3> QED
      BY <3>1, <3>2
  <2>3. g = [t \in SUBSET (1 .. k + 1) |-> g[t]]
    OBVIOUS
  <2> HIDE DEF g
  <2>4. SideFold(g, s, k + 1)
    BY <2>2 DEF SideFold
  <2> QED
    BY <2>3, <2>4
<1> HIDE DEF Good
<1>3. n \in Good
  BY <1>1, <1>2, FromZeroOn
<1> QED
  BY <1>3 DEF Good

\* The translations of the side commits, one after the other.
LEMMA SideSteps ==
  ASSUME NEW U, NEW s \in Seq(U)
  PROVE  \E v : /\ v[0] = Begun /\ FoldLeft(TranslateSide, Begun, s) = v[Len(s)]
                /\ \A i \in 1 .. Len(s) : v[i] = TranslateSide(v[i - 1], s[i])
<1> DEFINE n == Len(s)
           iter == CHOOSE f : f = [t \in SUBSET DOMAIN s |->
                     IF t = {} THEN Begun ELSE TranslateSide(f[t \ {Max(t)}], s[Max(t)])]
           v == [i \in 0 .. n |-> iter[1 .. i]]
<1>1. n \in Nat /\ DOMAIN s = 1 .. n
  OBVIOUS
<1>2. FoldLeft(TranslateSide, Begun, s) = iter[DOMAIN s]
  BY DEF FoldLeft, MapThenFoldSet
<1>3. SideFold(iter, s, n)
  <2>1. PICK f : f = [t \in SUBSET (1 .. n) |-> f[t]] /\ SideFold(f, s, n)
    BY <1>1, SideFoldExists
  <2>2. f = [t \in SUBSET DOMAIN s |->
                     IF t = {} THEN Begun ELSE TranslateSide(f[t \ {Max(t)}], s[Max(t)])]
    BY <1>1, <2>1 DEF SideFold
  <2>3. iter = [t \in SUBSET (1 .. n) |->
                     IF t = {} THEN Begun ELSE TranslateSide(iter[t \ {Max(t)}], s[Max(t)])]
    BY <1>1, <2>2
  <2> HIDE DEF iter
  <2> QED
    BY <2>3 DEF SideFold
<1> HIDE DEF iter
<1>4. v[0] = Begun
  <2>1. 1 .. 0 = {} /\ 0 \in 0 .. n
    BY <1>1
  <2> QED
    BY <1>1, <1>3, <2>1 DEF SideFold
<1>5. ASSUME NEW i \in 1 .. n
      PROVE v[i] = TranslateSide(v[i - 1], s[i])
  <2>1. Max(1 .. i) = i /\ (1 .. i) \ {i} = 1 .. i - 1
    BY <1>1, MaxOfAll
  <2>2. 1 .. i \in SUBSET (1 .. n) /\ 1 .. i # {} /\ i - 1 \in 0 .. n /\ i \in 0 .. n
    BY <1>1
  <2> QED
    BY <1>3, <2>1, <2>2 DEF SideFold
<1>6. FoldLeft(TranslateSide, Begun, s) = v[n]
  BY <1>1, <1>2
<1> HIDE DEF v
<1> QED
  BY <1>4, <1>5, <1>6

LEMMA ParentsAre ==
  ASSUME IsHistory(hist, Dir), NEW acc, Translation(acc), NEW c \in Commit
  PROVE  /\ Parents(acc, c) \in Seq(0 .. Len(acc.log)) /\ Len(Parents(acc, c)) = Len(hist.par[c])
         /\ Len(hist.par[c]) \in Nat /\ DOMAIN Parents(acc, c) = 1 .. Len(hist.par[c])
         /\ \A i \in 1 .. Len(hist.par[c]) : Parents(acc, c)[i] = acc.map[hist.par[c][i]]
         /\ ToSet(Parents(acc, c)) = {acc.map[p] : p \in ToSet(hist.par[c])}
         /\ \A p \in ToSet(hist.par[c]) : acc.map[p] \in 0 .. Len(acc.log)
         /\ \A p \in ToSet(hist.par[c]) : acc.map[p] # Null =>
              acc.map[p] \in 1 .. Len(acc.log) /\ acc.map[p] \in acc.log[acc.map[p]].anc
<1>1. /\ Len(hist.par[c]) \in Nat /\ DOMAIN hist.par[c] = 1 .. Len(hist.par[c])
      /\ \A p \in ToSet(hist.par[c]) : p \in Commit
      /\ \A i \in 1 .. Len(hist.par[c]) : hist.par[c][i] \in ToSet(hist.par[c])
  BY HistoryType DEF Commit
<1>2. acc.map \in [Commit -> 0 .. Len(acc.log)] /\ IsLog(hist, acc.log) /\ Len(acc.log) \in Nat
  BY DEF Translation, Database, IsLog
<1>3. \A p \in ToSet(hist.par[c]) : acc.map[p] \in 0 .. Len(acc.log)
  BY <1>1, <1>2
<1>4. Parents(acc, c) = [i \in 1 .. Len(hist.par[c]) |-> acc.map[hist.par[c][i]]]
  BY <1>1 DEF Parents
<1>5. Parents(acc, c) \in Seq(0 .. Len(acc.log)) /\ Len(Parents(acc, c)) = Len(hist.par[c])
  BY <1>1, <1>3, <1>4
<1>6. ToSet(Parents(acc, c)) = {acc.map[p] : p \in ToSet(hist.par[c])}
  BY <1>1, <1>4 DEF ToSet
<1>7. ASSUME NEW p \in ToSet(hist.par[c]), acc.map[p] # Null
      PROVE  acc.map[p] \in 1 .. Len(acc.log) /\ acc.map[p] \in acc.log[acc.map[p]].anc
  <2>1. acc.map[p] \in 1 .. Len(acc.log)
    BY <1>2, <1>3, <1>7 DEF Null
  <2> QED
    BY <1>2, <2>1, MonoAncestors
<1> QED
  BY <1>1, <1>3, <1>4, <1>5, <1>6, <1>7

LEMMA SideIs ==
  ASSUME IsHistory(hist, Dir), IsLog(hist, mono), Database(mono, map),
         NEW s \in Seq(Commit), IsInjective(s), \A c \in ToSet(s) : map[c] = Null,
         \A i \in 1 .. Len(s) : \A p \in ToSet(hist.par[s[i]]) :
           map[p] # Null \/ \E j \in 1 .. i - 1 : s[j] = p,
         NEW r, r = FoldLeft(TranslateSide, Begun, s)
  PROVE  /\ ~ r.failed /\ Translation(r) /\ LogGrows(mono, r.log) /\ Keeps(mono, map, r)
         /\ \A c \in Commit : IF c \in ToSet(s) THEN r.map[c] # Null ELSE r.map[c] = map[c]
<1>1. PICK v : /\ v[0] = Begun /\ r = v[Len(s)]
               /\ \A i \in 1 .. Len(s) : v[i] = TranslateSide(v[i - 1], s[i])
  BY ZenonT(60), SideSteps
<1>2. Len(s) \in Nat /\ DOMAIN s = 1 .. Len(s) /\ \A i \in 1 .. Len(s) : s[i] \in Commit
        /\ s[i] \in ToSet(s)
  BY DEF ToSet
<1> DEFINE Done(k) == {s[j] : j \in 1 .. k}
           Holds(k) == /\ ~ v[k].failed /\ Translation(v[k]) /\ LogGrows(mono, v[k].log)
                       /\ Keeps(mono, map, v[k])
                       /\ \A c \in Commit : IF c \in Done(k) THEN v[k].map[c] # Null
                                            ELSE v[k].map[c] = map[c]
           Good == {k \in Nat : k <= Len(s) => Holds(k)}
<1>3. 0 \in Good
  <2>1. Begun.log = mono /\ Begun.map = map /\ ~ Begun.failed
    BY DEF Begun
  <2>2. Done(0) = {}
    OBVIOUS
  <2>3. Translation(v[0]) /\ LogGrows(mono, v[0].log) /\ Keeps(mono, map, v[0])
    BY <1>1, <2>1, SameLog, KeepsAll DEF Translation
  <2> QED
    BY <1>1, <2>1, <2>2, <2>3
<1>4. ASSUME NEW k \in Nat, k \in Good PROVE k + 1 \in Good
  <2> SUFFICES ASSUME k + 1 <= Len(s) PROVE Holds(k + 1)
    OBVIOUS
  <2> DEFINE a == v[k]
             c == s[k + 1]
             par == Parents(a, c)
             b == v[k + 1]
  <2>1. k + 1 \in 1 .. Len(s) /\ (k + 1) - 1 = k /\ k <= Len(s)
    BY <1>2
  <2>2. Holds(k)
    BY <1>4, <2>1
  <2>3. b = TranslateCommit(a, c, par, 0)
    BY Zenon, <1>1, <2>1 DEF TranslateSide
  <2>4. c \in Commit /\ c \in ToSet(s) /\ map[c] = Null
    BY <1>2, <2>1
  <2>5. c \notin Done(k)
    <3>1. \A j \in 1 .. k : j \in 1 .. Len(s) /\ j # k + 1
      BY <2>1
    <3>2. \A j \in 1 .. k : s[j] # s[k + 1]
      BY <1>2, <2>1, <3>1 DEF IsInjective
    <3> QED
      BY <3>2
  <2>6. a.map[c] = Null
    BY <2>2, <2>4, <2>5
  <2>7. ASSUME NEW p \in ToSet(hist.par[c]) PROVE a.map[p] # Null
    <3>1. p \in Commit
      BY <2>4, HistoryType DEF Commit
    <3>2. map[p] # Null \/ p \in Done(k)
      BY <2>1
    <3> QED
      BY <2>2, <3>1, <3>2
  <2>8. /\ par \in Seq(0 .. Len(a.log)) /\ Len(par) \in Nat
        /\ ToSet(par) = {a.map[p] : p \in ToSet(hist.par[c])}
        /\ \A p \in ToSet(hist.par[c]) : a.map[p] # Null => a.map[p] \in a.log[a.map[p]].anc
    <3>1. Translation(a)
      BY <2>2
    <3> HIDE DEF a, c
    <3>2. Len(par) = Len(hist.par[c]) /\ Len(hist.par[c]) \in Nat /\ par \in Seq(0 .. Len(a.log))
      BY <2>4, <3>1, ParentsAre
    <3>3. /\ ToSet(par) = {a.map[p] : p \in ToSet(hist.par[c])}
          /\ \A p \in ToSet(hist.par[c]) : a.map[p] # Null => a.map[p] \in a.log[a.map[p]].anc
      BY <2>4, <3>1, ParentsAre
    <3> QED
      BY <3>2, <3>3
  <2>9. Null \notin ToSet(par)
    BY <2>7, <2>8
  <2>10. Translation(a) /\ ~ a.failed /\ LogGrows(mono, a.log) /\ Keeps(mono, map, a)
    BY <2>2
  <2>11. Dated => \A p \in ToSet(hist.par[c]) : \E m \in ToSet(par) : a.map[p] \in a.log[m].anc
    BY SMTT(30), <2>7, <2>8
  <2>12. 0 \in 0 .. Len(par)
    BY <2>8
  <2> HIDE DEF par, a, b, c
  <2>13. ~ b.failed
    BY <2>3, <2>6, <2>9, <2>10, TranslateFails
  <2>14. /\ Translation(b) /\ LogGrows(a.log, b.log)
         /\ b.map = [a.map EXCEPT ![c] = b.map[c]] /\ b.map[c] \in 1 .. Len(b.log)
    <3>1. Ready(a, c, par)
      BY <2>7, <2>11 DEF Ready
    <3>2. Translated(a, c, par, 0, b)
      BY <2>3, <2>4, <2>8, <2>10, <2>12, <2>13, <3>1, TranslateCommitIs
    <3> QED
      BY <3>2 DEF Translated
  <2>15. LogGrows(mono, b.log)
    BY <2>10, <2>14, LogGrowsFurther
  <2>16. Keeps(mono, map, b)
    <3>1. Keeps(a.log, a.map, b)
      BY <2>3, <2>4, <2>6, <2>8, <2>10, <2>12, <2>13, TranslateKeeps
    <3> QED
      BY <2>10, <3>1, KeepsFurther
  <2>17. ASSUME NEW x \in Commit
         PROVE IF x \in Done(k + 1) THEN b.map[x] # Null ELSE b.map[x] = map[x]
    <3>1. Done(k + 1) = Done(k) \cup {c}
      <4>1. 1 .. k + 1 = (1 .. k) \cup {k + 1}
        OBVIOUS
      <4> QED
        BY <4>1 DEF c
    <3>2. DOMAIN a.map = Commit
      BY <2>10 DEF Translation, Database
    <3>3. IF x \in Done(k) THEN a.map[x] # Null ELSE a.map[x] = map[x]
      BY <2>2 DEF a
    <3>4. b.map[c] # Null
      BY <2>14 DEF Null
    <3>5. x # c => b.map[x] = a.map[x]
      BY <2>14, <3>2
    <3> HIDE DEF Done
    <3> QED
      BY <3>1, <3>3, <3>4, <3>5
  <2> QED
    BY <2>13, <2>14, <2>15, <2>17, <2>16 DEF b
<1> HIDE DEF Good
<1>5. Len(s) \in Good
  BY <1>2, <1>3, <1>4, FromZeroOn
<1>6. Holds(Len(s))
  BY <1>2, <1>5 DEF Good
<1>7. Done(Len(s)) = ToSet(s)
  BY <1>2 DEF ToSet
<1> QED
  BY <1>1, <1>6, <1>7

-----------------------------------------------------------------------------
(***************************************************************************)
(* What is listed for a directory: a path of split commits, from its goal  *)
(* towards its head, each commit with the place of the parent that         *)
(* follows.                                                                *)
(***************************************************************************)
FRec == [c : Commit, ct : Nat, headp : Nat, translated : BOOLEAN, locked : BOOLEAN]

LEMMA FudgedIs ==
  ASSUME NEW s \in Seq(FRec), NEW t, t = Fudged(s)
  PROVE  /\ t \in Seq(FRec) /\ Len(t) = Len(s)
         /\ \A i \in 1 .. Len(s) : /\ t[i].c = s[i].c /\ t[i].headp = s[i].headp
                                   /\ t[i].translated = s[i].translated /\ t[i].locked = s[i].locked
<1>1. Len(s) \in Nat /\ DOMAIN s = 1 .. Len(s) /\ \A i \in 1 .. Len(s) : s[i] \in FRec
  OBVIOUS
<1> DEFINE least(i) == Min({s[j].ct : j \in 1 .. i})
<1>2. t = [i \in 1 .. Len(s) |-> [s[i] EXCEPT !.ct = least(i)]]
  BY <1>1 DEF Fudged
<1>3. ASSUME NEW i \in 1 .. Len(s) PROVE least(i) \in Nat
  <2> DEFINE T == {s[j].ct : j \in 1 .. i}
  <2>1. \A j \in 1 .. i : j \in 1 .. Len(s)
    BY <1>1
  <2>2. \A j \in 1 .. i : s[j].ct \in Nat
    BY <1>1, <2>1 DEF FRec
  <2>3. T \subseteq Nat
    BY <2>2
  <2>4. s[i].ct \in T
    BY <1>1
  <2> HIDE DEF T
  <2>5. Min(T) \in T
    BY <2>3, <2>4, MinIs
  <2> QED
    BY <2>3, <2>5 DEF T
<1> HIDE DEF least
<1>4. \A i \in 1 .. Len(s) : [s[i] EXCEPT !.ct = least(i)] \in FRec
  BY <1>1, <1>3 DEF FRec
<1>5. t \in Seq(FRec) /\ Len(t) = Len(s)
  <2> DEFINE g(i) == [s[i] EXCEPT !.ct = least(i)]
  <2>1. t = [i \in 1 .. Len(s) |-> g(i)] /\ \A i \in 1 .. Len(s) : g(i) \in FRec
    BY <1>2, <1>4
  <2> HIDE DEF g
  <2> QED
    BY <1>1, <2>1
<1>6. \A i \in 1 .. Len(s) : t[i] = [s[i] EXCEPT !.ct = least(i)]
  BY <1>2
<1> QED
  BY <1>1, <1>5, <1>6 DEF FRec

\* f comes before g, and its parent is g.
Links(f, g) == f.headp # 0 /\ hist.par[f.c][f.headp] = g.c

\* Entries that lead from g, parent by parent.
IsPath(l, g) ==
  /\ l \in Seq(FRec)
  /\ \A i \in 1 .. Len(l) :
       /\ l[i].c \in hist.anc[g]
       /\ l[i].headp \in 0 .. Len(hist.par[l[i].c])
       /\ l[i].headp = 0 => hist.par[l[i].c] = <<>>
  /\ \A i \in 1 .. Len(l) - 1 : Links(l[i], l[i + 1])
  /\ l # <<>> => l[1].c = g

LEMMA LinkIs ==
  ASSUME IsHistory(hist, Dir), NEW f \in FRec, NEW g, Links(f, g),
         f.headp \in 0 .. Len(hist.par[f.c])
  PROVE  /\ g.c \in ToSet(hist.par[f.c]) /\ g.c \in Commit /\ g.c < f.c
         /\ g.c \in hist.anc[f.c] /\ hist.anc[g.c] \subseteq hist.anc[f.c]
<1>1. f.c \in Commits(hist)
  BY DEF FRec, Commit
<1>2. f.headp \in 1 .. Len(hist.par[f.c])
  BY <1>1, HistoryType DEF Links
<1>3. g.c \in ToSet(hist.par[f.c])
  <2>1. hist.par[f.c][f.headp] \in ToSet(hist.par[f.c])
    BY <1>1, <1>2, HistoryType
  <2> QED
    BY <2>1 DEF Links
<1> QED
  BY <1>1, <1>3, HistoryType, AncestorFacts DEF Commit

LEMMA PathDescends ==
  ASSUME IsHistory(hist, Dir), NEW g, NEW l, IsPath(l, g),
         NEW i \in 1 .. Len(l), NEW j \in 1 .. Len(l), i < j
  PROVE  l[j].c \in hist.anc[l[i].c] /\ l[j].c < l[i].c
<1>1. Len(l) \in Nat /\ \A k \in 1 .. Len(l) : l[k] \in FRec /\ l[k].c \in Commit /\ l[k].c \in Nat
  <2>1. l \in Seq(FRec)
    BY DEF IsPath
  <2>2. Len(l) \in Nat /\ \A k \in 1 .. Len(l) : l[k] \in FRec
    BY <2>1
  <2> QED
    BY <2>2, HistoryType DEF FRec, Commit
<1> DEFINE Good == {k \in Nat : i + k + 1 <= Len(l) =>
                      l[i + k + 1].c \in hist.anc[l[i].c] /\ l[i + k + 1].c < l[i].c}
<1>2. \A k \in 1 .. Len(l) - 1 : l[k + 1].c < l[k].c /\ l[k + 1].c \in hist.anc[l[k].c]
                                 /\ hist.anc[l[k + 1].c] \subseteq hist.anc[l[k].c]
  <2> SUFFICES ASSUME NEW k \in 1 .. Len(l) - 1
               PROVE  l[k + 1].c < l[k].c /\ l[k + 1].c \in hist.anc[l[k].c]
                      /\ hist.anc[l[k + 1].c] \subseteq hist.anc[l[k].c]
    OBVIOUS
  <2>1. k \in 1 .. Len(l)
    BY <1>1
  <2>2. Links(l[k], l[k + 1]) /\ l[k].headp \in 0 .. Len(hist.par[l[k].c])
    BY <2>1 DEF IsPath
  <2> QED
    BY <1>1, <2>1, <2>2, LinkIs
<1>3. 0 \in Good
  <2>1. i + 0 + 1 <= Len(l) => i \in 1 .. Len(l) - 1 /\ i + 0 + 1 = i + 1
    BY <1>1
  <2> QED
    BY <1>2, <2>1
<1>4. ASSUME NEW k \in Nat, k \in Good PROVE k + 1 \in Good
  <2> SUFFICES ASSUME i + (k + 1) + 1 <= Len(l)
               PROVE  l[i + (k + 1) + 1].c \in hist.anc[l[i].c] /\ l[i + (k + 1) + 1].c < l[i].c
    OBVIOUS
  <2> DEFINE m == i + k + 1
  <2>1. m \in 1 .. Len(l) - 1 /\ m \in 1 .. Len(l) /\ i + (k + 1) + 1 = m + 1 /\ m <= Len(l)
          /\ m + 1 \in 1 .. Len(l)
    BY <1>1
  <2>2. l[m].c \in hist.anc[l[i].c] /\ l[m].c < l[i].c
    BY <1>4, <2>1
  <2>3. l[m + 1].c < l[m].c /\ l[m + 1].c \in hist.anc[l[m].c]
    BY <1>2, <2>1
  <2>4. hist.anc[l[m].c] \subseteq hist.anc[l[i].c]
    BY <1>1, <2>2, AncestorFacts DEF Commit
  <2> HIDE DEF m
  <2>5. l[m + 1].c \in Nat /\ l[m].c \in Nat /\ l[i].c \in Nat
    BY <1>1, <2>1
  <2> QED
    BY SMTT(30), <2>1, <2>2, <2>3, <2>4, <2>5
<1> HIDE DEF Good
<1>5. j - i - 1 \in Good
  <2>1. j - i - 1 \in Nat
    BY <1>1
  <2>2. \A k \in Nat : k \in Good
    BY <1>3, <1>4, FromZeroOn
  <2> QED
    BY <2>1, <2>2
<1>6. i + (j - i - 1) + 1 = j /\ j <= Len(l)
  BY <1>1
<1> QED
  BY <1>5, <1>6 DEF Good

LineFParent(c) == FParent(c, IF hist.par[c] = <<>> THEN 0 ELSE 1)

LEMMA FParentIs ==
  ASSUME IsHistory(hist, Dir), NEW c \in Commit, NEW headp \in Nat, NEW f, f = FParent(c, headp)
  PROVE  f \in FRec /\ f.c = c /\ f.headp = headp /\ ~ f.translated /\ ~ f.locked
<1>1. hist.ct[c] \in Nat
  BY HistoryType DEF Commit
<1>2. f = [c |-> c, ct |-> hist.ct[c], headp |-> headp, translated |-> FALSE, locked |-> FALSE]
  BY DEF FParent
<1> QED
  BY <1>1, <1>2 DEF FRec

LEMMA MarkedIs ==
  ASSUME NEW f \in FRec, NEW x \in BOOLEAN, NEW g, g = [f EXCEPT !.translated = x]
  PROVE  g \in FRec /\ g.c = f.c /\ g.headp = f.headp /\ g.translated = x /\ g.locked = f.locked
BY DEF FRec

\* Entries for the beginning of a first-parent line.
LEMMA LinePath ==
  ASSUME IsHistory(hist, Dir), NEW g \in Commit, NEW line, IsLine(hist, g, line),
         NEW n \in 0 .. Len(line), NEW l \in Seq(FRec), Len(l) = n,
         \A i \in 1 .. n : l[i].c = line[i]
           /\ l[i].headp = IF hist.par[line[i]] = <<>> THEN 0 ELSE 1
  PROVE  /\ IsPath(l, g)
         /\ n = Len(line) => l[n].headp = 0
<1>1. /\ line \in Seq(hist.anc[g]) /\ line # <<>> /\ line[1] = g /\ Len(line) \in Nat
           /\ Len(line) # 0
      /\ \A i \in 1 .. Len(line) - 1 : hist.par[line[i]] # <<>>
           /\ line[i + 1] = hist.par[line[i]][1]
      /\ hist.par[line[Len(line)]] = <<>>
      /\ \A i \in 1 .. Len(line) : line[i] \in hist.anc[g]
  BY DEF IsLine
<1>2. hist.anc[g] \subseteq Commit
  BY AncestorFacts DEF Commit
<1>3. n \in Nat /\ n <= Len(line) /\ 1 .. n \subseteq 1 .. Len(line)
  BY <1>1
<1>4. ASSUME NEW i \in 1 .. n
      PROVE  /\ l[i].c \in hist.anc[g]
             /\ l[i].headp \in 0 .. Len(hist.par[l[i].c])
             /\ l[i].headp = 0 => hist.par[l[i].c] = <<>>
  <2>1. line[i] \in hist.anc[g] /\ line[i] \in Commits(hist)
    BY <1>1, <1>2, <1>3 DEF Commit
  <2>2. hist.par[line[i]] # <<>> => 1 \in 1 .. Len(hist.par[line[i]])
    BY <2>1, FirstParentIs
  <2>3. Len(hist.par[line[i]]) \in Nat
    BY <2>1, HistoryType
  <2> QED
    BY <2>1, <2>2, <2>3
<1>5. ASSUME NEW i \in 1 .. n - 1 PROVE Links(l[i], l[i + 1])
  <2>1. i \in 1 .. Len(line) - 1 /\ i \in 1 .. n /\ i + 1 \in 1 .. n
    BY <1>1, <1>3
  <2>2. l[i].headp = 1 /\ l[i].c = line[i] /\ l[i + 1].c = line[i + 1]
    BY <1>1, <2>1
  <2> QED
    BY <1>1, <2>1, <2>2 DEF Links
<1>6. l # <<>> => l[1].c = g
  <2>1. l # <<>> => 1 \in 1 .. n
    BY <1>3
  <2> QED
    BY <1>1, <2>1
<1>7. IsPath(l, g)
  BY <1>4, <1>5, <1>6 DEF IsPath
<1>8. n = Len(line) => l[n].headp = 0
  <2>1. n = Len(line) => n \in 1 .. n
    BY <1>1
  <2> QED
    BY <1>1, <2>1
<1> QED
  BY <1>7, <1>8

LEMMA FirstParentsIs ==
  ASSUME IsHistory(hist, Dir), NEW d, goal[d] \in Commit, NEW l, l = FirstParents(d)
  PROVE  /\ IsPath(l, goal[d]) /\ l # <<>>
         /\ l[Len(l)].headp = 0 \/ map[l[Len(l)].c] # Null
         /\ \A i \in 1 .. Len(l) : ~ l[i].locked
<1> DEFINE line == FirstParentLine(hist, goal[d])
           Enough(n) == n >= Len(line) \/ map[line[n]] # Null
           S == {k \in {FirstBatch + i * NextBatch : i \in 0 .. Len(line)} : Enough(k)} \cup {Len(line)}
           n == Min(S)
           m == Min({n, Len(line)})
<1>1. l = [i \in 1 .. m |-> LineFParent(line[i])]
  BY DEF FirstParents, LineFParent
<1>2. IsLine(hist, goal[d], line) /\ line \in Seq(hist.anc[goal[d]]) /\ line # <<>>
        /\ Len(line) \in Nat /\ Len(line) # 0
      /\ \A i \in 1 .. Len(line) : line[i] \in hist.anc[goal[d]]
  <2>1. IsLine(hist, goal[d], line)
    BY LineIs DEF Commit
  <2> HIDE DEF line
  <2> QED
    BY <2>1 DEF IsLine
<1>3. hist.anc[goal[d]] \subseteq Commit
  BY AncestorFacts DEF Commit
<1> HIDE DEF line
<1>4. \A k \in S : k \in Nat /\ k >= 1 /\ Enough(k)
  <2>1. FirstBatch \in Nat \ {0} /\ NextBatch \in Nat \ {0}
    BY InterleaverAssumption
  <2>2. \A i \in 0 .. Len(line) : i * NextBatch \in Nat
    BY <1>2, <2>1
  <2>3. \A i \in 0 .. Len(line) : FirstBatch + i * NextBatch \in Nat
          /\ FirstBatch + i * NextBatch >= 1
    BY <1>2, <2>1, <2>2
  <2>4. ASSUME NEW k \in S PROVE k \in Nat /\ k >= 1 /\ Enough(k)
    <3>1. CASE k = Len(line)
      BY <1>2, <3>1
    <3>2. CASE k # Len(line)
      <4>1. k \in {FirstBatch + i * NextBatch : i \in 0 .. Len(line)} /\ Enough(k)
        BY <3>2
      <4> QED
        BY <2>3, <4>1
    <3> QED
      BY <3>1, <3>2
  <2> HIDE DEF S, Enough
  <2> QED
    BY <2>4
<1>5. n \in S
  <2>1. Len(line) \in S
    OBVIOUS
  <2> HIDE DEF S
  <2> QED
    BY <1>4, <2>1, MinIs
<1>6. n \in Nat /\ n >= 1 /\ Enough(n)
  BY <1>4, <1>5
<1> HIDE DEF n
<1>7. m \in 1 .. Len(line) /\ (m = Len(line) \/ map[line[m]] # Null)
  <2>1. {n, Len(line)} \subseteq Nat /\ {n, Len(line)} # {}
    BY <1>2, <1>6
  <2>2. m \in {n, Len(line)} /\ m <= n /\ m <= Len(line)
    <3> DEFINE T == {n, Len(line)}
    <3>1. T \subseteq Nat /\ T # {} /\ n \in T /\ Len(line) \in T
      BY <2>1
    <3> HIDE DEF T
    <3>2. Min(T) \in T /\ \A k \in T : Min(T) <= k
      BY <3>1, MinIs
    <3> QED
      BY <3>1, <3>2 DEF T
  <2> HIDE DEF m
  <2> QED
    BY <1>2, <1>6, <2>2
<1> HIDE DEF m
<1>8. 1 .. m \subseteq 1 .. Len(line) /\ m \in Nat /\ m # 0 /\ m \in 1 .. m
  BY <1>2, <1>7
<1>9. ASSUME NEW i \in 1 .. m
      PROVE  /\ LineFParent(line[i]) \in FRec /\ LineFParent(line[i]).c = line[i]
             /\ LineFParent(line[i]).headp = IF hist.par[line[i]] = <<>> THEN 0 ELSE 1
             /\ ~ LineFParent(line[i]).locked
  <2>1. line[i] \in Commit
    BY <1>2, <1>3, <1>8
  <2> DEFINE h == IF hist.par[line[i]] = <<>> THEN 0 ELSE 1
  <2>2. h \in Nat /\ LineFParent(line[i]) = FParent(line[i], h)
    BY DEF LineFParent
  <2> HIDE DEF h
  <2>3. /\ LineFParent(line[i]) \in FRec /\ LineFParent(line[i]).c = line[i]
        /\ LineFParent(line[i]).headp = h /\ ~ LineFParent(line[i]).locked
    BY <2>1, <2>2, FParentIs
  <2> QED
    BY <2>3 DEF h
<1>10. l \in Seq(FRec) /\ Len(l) = m /\ \A i \in 1 .. m : l[i] = LineFParent(line[i])
  BY <1>1, <1>8, <1>9
<1>11. IsPath(l, goal[d]) /\ (m = Len(line) => l[m].headp = 0)
  <2>1. m \in 0 .. Len(line)
    BY <1>2, <1>7
  <2> QED
    BY <1>2, <1>9, <1>10, <2>1, LinePath
<1>12. l # <<>> /\ l[m].c = line[m]
  BY <1>8, <1>9, <1>10
<1> QED
  BY <1>7, <1>9, <1>10, <1>11, <1>12

VisitNext(tip, onPath, acc, c) == Visit(acc, c, onPath)
Visited(tip, onPath, s) ==
  FoldLeft(LAMBDA acc, c : Visit(acc, c, onPath), [included |-> {tip}, path |-> <<>>], s)

PathFold(tip, onPath, f, s, n) ==
  \A t \in SUBSET (1 .. n) :
    f[t] = IF t = {} THEN [included |-> {tip}, path |-> <<>>]
      ELSE VisitNext(tip, onPath, f[t \ {Max(t)}], s[Max(t)])

LEMMA PathFoldExists ==
  ASSUME NEW tip, NEW onPath, NEW s, NEW n \in Nat
  PROVE  \E f : f = [t \in SUBSET (1 .. n) |-> f[t]] /\ PathFold(tip, onPath, f, s, n)
<1> DEFINE Good == {k \in Nat : \E f : f = [t \in SUBSET (1 .. k) |-> f[t]]
                     /\ PathFold(tip, onPath, f, s, k)}
<1>1. 0 \in Good
  <2> DEFINE f == [t \in SUBSET (1 .. 0) |-> [included |-> {tip}, path |-> <<>>]]
  <2>1. \A t \in SUBSET (1 .. 0) : t = {}
    OBVIOUS
  <2>2. f = [t \in SUBSET (1 .. 0) |-> f[t]]
    OBVIOUS
  <2>3. PathFold(tip, onPath, f, s, 0)
    BY <2>1 DEF PathFold
  <2> QED
    BY <2>2, <2>3
<1>2. ASSUME NEW k \in Nat, k \in Good PROVE k + 1 \in Good
  <2>1. PICK f : f = [t \in SUBSET (1 .. k) |-> f[t]] /\ PathFold(tip, onPath, f, s, k)
    BY <1>2
  <2> DEFINE g == [t \in SUBSET (1 .. k + 1) |->
                     IF k + 1 \in t THEN VisitNext(tip, onPath, f[t \ {k + 1}], s[k + 1]) ELSE f[t]]
  <2>2. ASSUME NEW t \in SUBSET (1 .. k + 1)
        PROVE  g[t] = IF t = {} THEN [included |-> {tip}, path |-> <<>>]
                 ELSE VisitNext(tip, onPath, g[t \ {Max(t)}], s[Max(t)])
    <3>1. CASE k + 1 \in t
      <4>1. Max(t) \in t /\ k + 1 <= Max(t)
        BY <3>1, MaxOfSome
      <4>2. Max(t) = k + 1
        <5>1. Max(t) \in 1 .. k + 1
          BY <4>1
        <5> QED
          BY <4>1, <5>1
      <4>3. t \ {k + 1} \in SUBSET (1 .. k + 1) /\ k + 1 \notin t \ {k + 1}
        OBVIOUS
      <4>4. g[t \ {k + 1}] = f[t \ {k + 1}]
        BY <4>3
      <4> QED
        BY <3>1, <4>2, <4>4
    <3>2. CASE k + 1 \notin t
      <4>1. t \in SUBSET (1 .. k)
        BY <3>2
      <4>2. t # {} => Max(t) \in t
        BY <4>1, MaxOfSome
      <4>3. t \ {Max(t)} \in SUBSET (1 .. k + 1) /\ k + 1 \notin t \ {Max(t)}
        BY <3>2
      <4>4. g[t] = f[t] /\ g[t \ {Max(t)}] = f[t \ {Max(t)}]
        BY <3>2, <4>3
      <4> HIDE DEF g
      <4> QED
        BY <2>1, <4>1, <4>4 DEF PathFold
    <3> QED
      BY <3>1, <3>2
  <2>3. g = [t \in SUBSET (1 .. k + 1) |-> g[t]]
    OBVIOUS
  <2> HIDE DEF g
  <2>4. PathFold(tip, onPath, g, s, k + 1)
    BY <2>2 DEF PathFold
  <2> QED
    BY <2>3, <2>4
<1> HIDE DEF Good
<1>3. n \in Good
  BY <1>1, <1>2, FromZeroOn
<1> QED
  BY <1>3 DEF Good

\* The commits of the log, visited one after the other.
Visits(tip, onPath, s, v) ==
  /\ v[0] = [included |-> {tip}, path |-> <<>>] /\ Visited(tip, onPath, s) = v[Len(s)]
  /\ \A i \in 1 .. Len(s) : v[i] = VisitNext(tip, onPath, v[i - 1], s[i])

LEMMA PathSteps ==
  ASSUME NEW tip, NEW onPath, NEW U, NEW s \in Seq(U)
  PROVE  \E v : Visits(tip, onPath, s, v)
<1> DEFINE n == Len(s)
           iter == CHOOSE f : f = [t \in SUBSET DOMAIN s |->
                     IF t = {} THEN [included |-> {tip}, path |-> <<>>]
                       ELSE Visit(f[t \ {Max(t)}], s[Max(t)], onPath)]
           v == [i \in 0 .. n |-> iter[1 .. i]]
<1>1. n \in Nat /\ DOMAIN s = 1 .. n
  OBVIOUS
<1>2. Visited(tip, onPath, s) = iter[DOMAIN s]
  BY DEF FoldLeft, MapThenFoldSet, Visited
<1>3. PathFold(tip, onPath, iter, s, n)
  <2>1. PICK f : f = [t \in SUBSET (1 .. n) |-> f[t]] /\ PathFold(tip, onPath, f, s, n)
    BY <1>1, PathFoldExists
  <2>2. f = [t \in SUBSET DOMAIN s |->
                     IF t = {} THEN [included |-> {tip}, path |-> <<>>]
                       ELSE Visit(f[t \ {Max(t)}], s[Max(t)], onPath)]
    BY <1>1, <2>1 DEF PathFold, VisitNext
  <2>3. iter = [t \in SUBSET (1 .. n) |->
                     IF t = {} THEN [included |-> {tip}, path |-> <<>>]
                       ELSE Visit(iter[t \ {Max(t)}], s[Max(t)], onPath)]
    BY <1>1, <2>2
  <2> HIDE DEF iter
  <2> QED
    BY <2>3 DEF PathFold, VisitNext
<1> HIDE DEF iter
<1>4. v[0] = [included |-> {tip}, path |-> <<>>]
  <2>1. 1 .. 0 = {} /\ 0 \in 0 .. n
    BY <1>1
  <2> QED
    BY <1>1, <1>3, <2>1 DEF PathFold
<1>5. ASSUME NEW i \in 1 .. n
      PROVE v[i] = VisitNext(tip, onPath, v[i - 1], s[i])
  <2>1. Max(1 .. i) = i /\ (1 .. i) \ {i} = 1 .. i - 1
    BY <1>1, MaxOfAll
  <2>2. 1 .. i \in SUBSET (1 .. n) /\ 1 .. i # {} /\ i - 1 \in 0 .. n /\ i \in 0 .. n
    BY <1>1
  <2> QED
    BY <1>3, <2>1, <2>2 DEF PathFold
<1>6. Visited(tip, onPath, s) = v[n]
  BY <1>1, <1>2
<1> HIDE DEF v
<1>7. Visits(tip, onPath, s, v)
  BY <1>4, <1>5, <1>6 DEF Visits
<1> QED
  BY <1>7

\* What git-log lists between b and g, from which the path is picked.
Between(g, b) ==
  Within(LogOrder(hist, g, hist.anc[g] \ hist.anc[b], FALSE), {c \in Commit : b \in hist.anc[c]})

LEMMA BetweenIs ==
  ASSUME IsHistory(hist, Dir), NEW g \in Commit, NEW b \in hist.anc[g], b # g,
         NEW log, log = Between(g, b)
  PROVE  /\ log \in Seq(Commit) /\ IsInjective(log) /\ log # <<>> /\ log[1] = g
         /\ ToSet(log) = {c \in hist.anc[g] : b \in hist.anc[c] /\ c # b}
         /\ Dated => \A i, j \in 1 .. Len(log) : i < j => hist.ct[log[j]] <= hist.ct[log[i]]
<1> DEFINE region == hist.anc[g] \ hist.anc[b]
           L == LogOrder(hist, g, region, FALSE)
           S == {c \in Commit : b \in hist.anc[c]}
<1>1. /\ g \in Commits(hist) /\ b \in Commits(hist) /\ hist.anc[g] \subseteq Commits(hist)
      /\ hist.anc[b] \subseteq hist.anc[g] /\ g \in hist.anc[g] /\ b \in hist.anc[b]
           /\ g \notin hist.anc[b]
  <2>1. g \in Commits(hist) /\ hist.anc[g] \subseteq Commits(hist) /\ g \in hist.anc[g]
    BY AncestorFacts DEF Commit
  <2>2. hist.anc[b] \subseteq hist.anc[g] /\ (g \in hist.anc[b] => b = g)
    BY <2>1, AncestorFacts
  <2> QED
    BY <2>1, <2>2, AncestorFacts
<1>2. FromTip(hist, g, region)
  <2>1. ASSUME NEW p \in region \ {g} PROVE \E k \in region : p \in ToSet(hist.par[k])
    <3>1. PICK k \in hist.anc[g] : p \in ToSet(hist.par[k])
      BY <1>1, ChildBetween
    <3>2. k \in Commits(hist) /\ p \in hist.anc[k]
      BY <1>1, <3>1, AncestorFacts
    <3>3. k \notin hist.anc[b]
      BY <1>1, <3>2, AncestorFacts
    <3> QED
      BY <3>1, <3>3
  <2> QED
    BY <1>1, <2>1 DEF FromTip
<1> HIDE DEF region
<1>3. /\ L \in Seq(region) /\ IsInjective(L) /\ ToSet(L) = region /\ L # <<>> /\ L[1] = g
      /\ InOrder(hist) => \A i, j \in 1 .. Len(L) : i < j => hist.ct[L[j]] <= hist.ct[L[i]]
  <2> DEFINE dateOrder == FALSE
  <2>1. L = LogOrder(hist, g, region, dateOrder) /\ dateOrder \in BOOLEAN
    OBVIOUS
  <2> HIDE DEF L, dateOrder
  <2> QED
    BY <1>2, <2>1, LogOrderIs
<1>4. log = Within(L, S)
  BY DEF Between, region
<1> HIDE DEF L
<1>5. Len(L) \in Nat /\ Len(L) # 0 /\ 1 \in 1 .. Len(L)
  BY <1>3
<1>6. PICK e : Places(log, L, S, Len(L), e)
  BY <1>3, <1>4, WithinPlaces
<1>7. log \in Seq(region) /\ ToSet(log) = ToSet(L) \cap S /\ IsInjective(log)
  BY <1>3, <1>4, WithinIs
<1>8. log \in Seq(Commit) /\ Len(log) \in Nat
  <2>1. region \subseteq Commit
    BY <1>1 DEF region, Commit
  <2> QED
    BY <1>7, <2>1
<1>9. Len(log) # 0 /\ log[1] = g
  <2>1. L[1] \in S
    BY <1>3
  <2>2. PICK i \in 1 .. Len(log) : e[i] = 1
    BY <1>5, <1>6, <2>1 DEF Places
  <2>3. 1 \in 1 .. Len(log)
    BY <1>8, <2>2
  <2>4. e[1] \in 1 .. Len(L) /\ (1 < i => e[1] < e[i])
    BY <1>6, <2>2, <2>3 DEF Places
  <2>5. i = 1
    BY <1>5, <1>8, <2>2, <2>4
  <2> QED
    BY <1>3, <1>6, <1>8, <2>2, <2>3, <2>5 DEF Places
<1>10. ToSet(log) = {c \in hist.anc[g] : b \in hist.anc[c] /\ c # b}
  <2>1. ASSUME NEW c \in hist.anc[g], b \in hist.anc[c] PROVE c \in hist.anc[b] <=> c = b
    BY <1>1, <2>1, AncestorFacts
  <2>2. ToSet(log) = region \cap S
    BY <1>3, <1>7
  <2> QED
    BY <1>1, <2>1, <2>2 DEF region, Commit
<1>11. ASSUME Dated, NEW i \in 1 .. Len(log), NEW j \in 1 .. Len(log), i < j
       PROVE  hist.ct[log[j]] <= hist.ct[log[i]]
  <2>1. InOrder(hist)
    BY <1>11 DEF Dated, InOrder, Commit
  <2>2. e[i] \in 1 .. Len(L) /\ e[j] \in 1 .. Len(L) /\ e[i] < e[j] /\ log[i] = L[e[i]]
          /\ log[j] = L[e[j]]
    BY <1>6, <1>11 DEF Places
  <2> QED
    BY <1>3, <2>1, <2>2
<1> QED
  BY <1>7, <1>8, <1>9, <1>10, <1>11

\* The parent through which the path leaves the commits listed on it.
Picked(f) == hist.par[f.c][f.headp]

LEMMA PickIs ==
  ASSUME IsHistory(hist, Dir), NEW g \in Commit, NEW b \in hist.anc[g], b # g,
         NEW onPath, onPath = ToSet(Between(g, b)) \cup {b},
         NEW c \in ToSet(Between(g, b)), NEW k, k = HeadParent(c, onPath)
  PROVE  /\ k \in 1 .. Len(hist.par[c]) /\ c \in Commit /\ c \in hist.anc[g]
         /\ hist.par[c][k] \in onPath /\ hist.par[c][k] \in ToSet(hist.par[c])
<1>1. ToSet(Between(g, b)) = {x \in hist.anc[g] : b \in hist.anc[x] /\ x # b}
  BY BetweenIs
<1>2. /\ c \in hist.anc[g] /\ b \in hist.anc[c] /\ c # b /\ c \in Commits(hist)
      /\ hist.anc[c] \subseteq hist.anc[g] /\ g \in Commits(hist)
      /\ Len(hist.par[c]) \in Nat
      /\ \A i \in 1 .. Len(hist.par[c]) : hist.par[c][i] \in ToSet(hist.par[c])
      /\ DOMAIN hist.par[c] = 1 .. Len(hist.par[c])
  <2>1. g \in Commits(hist) /\ hist.anc[g] \subseteq Commits(hist)
    BY AncestorFacts DEF Commit
  <2>2. c \in hist.anc[g] /\ b \in hist.anc[c] /\ c # b
    BY <1>1
  <2> QED
    BY SMTT(30), <2>1, <2>2, AncestorFacts, HistoryType
<1>3. PICK p \in ToSet(hist.par[c]) : b \in hist.anc[p]
  BY <1>2, AncestorFacts
<1>4. p \in hist.anc[g]
  BY <1>2, AncestorFacts
<1>5. p \in onPath
  BY <1>1, <1>3, <1>4
<1>6. PICK i \in 1 .. Len(hist.par[c]) : hist.par[c][i] = p
  BY <1>2 DEF ToSet
<1>7. k = IF {j \in 1 .. Len(hist.par[c]) : hist.par[c][j] \in onPath} # {}
          THEN Min({j \in 1 .. Len(hist.par[c]) : hist.par[c][j] \in onPath}) ELSE 0
  BY DEF HeadParent, SelectInSeq
<1> DEFINE s == hist.par[c]
<1> HIDE DEF s
<1>8. /\ k \in 0 .. Len(s) /\ (k # 0 => s[k] \in onPath)
      /\ k = 0 => \A j \in 1 .. Len(s) : s[j] \notin onPath
  <2>1. Len(s) \in Nat
    BY <1>2 DEF s
  <2> DEFINE T == {j \in 1 .. Len(s) : s[j] \in onPath}
  <2>2. k = IF T # {} THEN Min(T) ELSE 0
    BY <1>7 DEF s
  <2>3. T # {} => Min(T) \in T
    <3>1. T \subseteq Nat
      OBVIOUS
    <3> HIDE DEF T
    <3> QED
      BY <3>1, MinIs
  <2>4. T = {} => \A j \in 1 .. Len(s) : s[j] \notin onPath
    OBVIOUS
  <2>5. T # {} => k \in 1 .. Len(s) /\ s[k] \in onPath
    BY <2>2, <2>3
  <2> HIDE DEF T
  <2> QED
    BY <2>1, <2>2, <2>4, <2>5
<1>9. k \in 1 .. Len(s)
  BY <1>2, <1>5, <1>6, <1>8 DEF s
<1> QED
  BY <1>2, <1>8, <1>9 DEF s, Commit

\* What is known of the path after the first k commits of the log.
PathState(g, b, log, l, included, k) ==
  /\ IsPath(l, g) /\ l # <<>>
  /\ \A i \in 1 .. Len(l) : /\ l[i].headp # 0 /\ ~ l[i].locked
                            /\ \E j \in 1 .. k : l[i].c = log[j]
  /\ included = {l[i].c : i \in 1 .. Len(l)} \cup {Picked(l[Len(l)])}
  /\ Picked(l[Len(l)]) \in ToSet(log) \cup {b}
  /\ Dated => \A j \in 1 .. k : log[j] # Picked(l[Len(l)])

LEMMA PathGrows ==
  ASSUME IsHistory(hist, Dir), NEW g \in Commit, NEW b \in hist.anc[g], b # g,
         NEW log, log = Between(g, b), NEW onPath, onPath = ToSet(log) \cup {b},
         NEW k \in 1 .. Len(log), NEW v, PathState(g, b, log, v.path, v.included, k),
         k + 1 <= Len(log), NEW w, w = Visit(v, log[k + 1], onPath)
  PROVE  PathState(g, b, log, w.path, w.included, k + 1)
<1> DEFINE l == v.path
           n == Len(l)
           c == log[k + 1]
           headp == HeadParent(c, onPath)
           f == FParent(c, headp)
           m == Append(l, f)
<1>1. /\ log \in Seq(Commit) /\ IsInjective(log) /\ Len(log) \in Nat /\ DOMAIN log = 1 .. Len(log)
      /\ \A i \in 1 .. Len(log) : log[i] \in Commit /\ log[i] \in ToSet(log)
      /\ Dated => \A i, j \in 1 .. Len(log) : i < j => hist.ct[log[j]] <= hist.ct[log[i]]
      /\ ToSet(log) = {x \in hist.anc[g] : b \in hist.anc[x] /\ x # b}
  <2>1. log \in Seq(Commit) /\ IsInjective(log)
        /\ ToSet(log) = {x \in hist.anc[g] : b \in hist.anc[x] /\ x # b}
        /\ (Dated => \A i, j \in 1 .. Len(log) : i < j => hist.ct[log[j]] <= hist.ct[log[i]])
    BY BetweenIs
  <2>2. Len(log) \in Nat /\ DOMAIN log = 1 .. Len(log) /\ \A i \in 1 .. Len(log) : log[i] \in Commit
    BY <2>1
  <2> QED
    BY <2>1, <2>2 DEF ToSet
<1>2. k + 1 \in 1 .. Len(log) /\ k \in Nat /\ k <= Len(log) /\ 1 .. k \subseteq 1 .. k + 1
      /\ 1 .. k + 1 \subseteq 1 .. Len(log) /\ 1 .. k + 1 = (1 .. k) \cup {k + 1}
  BY <1>1
<1>3. /\ IsPath(l, g) /\ l # <<>> /\ l \in Seq(FRec) /\ n \in Nat /\ n # 0 /\ n \in 1 .. n
      /\ \A i \in 1 .. n : l[i].headp # 0 /\ ~ l[i].locked /\ \E j \in 1 .. k : l[i].c = log[j]
      /\ v.included = {l[i].c : i \in 1 .. n} \cup {Picked(l[n])}
      /\ Picked(l[n]) \in ToSet(log) \cup {b}
      /\ Dated => \A j \in 1 .. k : log[j] # Picked(l[n])
  <2>1. l \in Seq(FRec) /\ l # <<>>
    BY DEF PathState, IsPath
  <2>2. n \in Nat /\ n # 0 /\ n \in 1 .. n
    BY <2>1
  <2> QED
    BY <2>1, <2>2 DEF PathState
<1>4. /\ headp \in 1 .. Len(hist.par[c]) /\ c \in Commit /\ c \in hist.anc[g]
      /\ hist.par[c][headp] \in onPath /\ hist.par[c][headp] \in ToSet(hist.par[c])
  <2>1. c \in ToSet(Between(g, b)) /\ onPath = ToSet(Between(g, b)) \cup {b}
    BY <1>1, <1>2
  <2> HIDE DEF c, headp
  <2>2. headp = HeadParent(c, onPath)
    BY DEF headp
  <2> QED
    BY <2>1, <2>2, PickIs
<1>5. \A j \in 1 .. k : log[j] # c
  <2>1. \A j \in 1 .. k : j \in 1 .. Len(log) /\ j # k + 1
    BY <1>2
  <2> QED
    BY <1>1, <1>2, <2>1 DEF IsInjective
<1>6. \A i \in 1 .. n : l[i].c # c
  BY <1>3, <1>5
<1>7. CASE c \notin v.included
  <2>1. w = v
    BY <1>7 DEF Visit
  <2>2. Picked(l[n]) # c
    BY <1>3, <1>7
  <2>3. \A i \in 1 .. n : \E j \in 1 .. k + 1 : l[i].c = log[j]
    BY <1>2, <1>3
  <2>4. Dated => \A j \in 1 .. k + 1 : log[j] # Picked(l[n])
    BY <1>2, <1>3, <2>2
  <2>5. w.path = l /\ w.included = v.included /\ n = Len(l)
    BY <2>1
  <2>6. \A i \in 1 .. n : l[i].headp # 0 /\ ~ l[i].locked /\ \E j \in 1 .. k + 1 : l[i].c = log[j]
    BY <1>3, <2>3
  <2> DEFINE included == v.included
  <2>7. /\ included = {l[i].c : i \in 1 .. n} \cup {Picked(l[n])}
        /\ Picked(l[n]) \in ToSet(log) \cup {b} /\ IsPath(l, g) /\ l # <<>>
    BY <1>3
  <2> HIDE DEF l, included
  <2>8. PathState(g, b, log, l, included, k + 1)
    BY <2>4, <2>6, <2>7 DEF PathState
  <2> QED
    BY <2>1, <2>8 DEF l, included
<1>8. CASE c \in v.included
  <2>1. c = Picked(l[n])
    BY <1>3, <1>6, <1>8
  <2>2. w.path = m /\ w.included = v.included \cup {hist.par[c][headp]}
    BY <1>8 DEF Visit
  <2>3. /\ f \in FRec /\ f.c = c /\ f.headp = headp /\ ~ f.locked
    <3>1. headp \in Nat
      <4>1. Len(hist.par[c]) \in Nat
        BY <1>4, HistoryType DEF Commit
      <4> QED
        BY <1>4, <4>1
    <3> HIDE DEF headp, c
    <3> QED
      BY <1>4, <3>1, FParentIs
  <2>4. /\ m \in Seq(FRec) /\ Len(m) = n + 1 /\ m[n + 1] = f
        /\ \A i \in 1 .. n : m[i] = l[i]
    <3> HIDE DEF f, l
    <3> QED
      BY <1>3, <2>3, AfterAppend
  <2>5. Picked(f) = hist.par[c][headp] /\ f.headp # 0
    <3>1. Len(hist.par[c]) \in Nat
      BY <1>4, HistoryType DEF Commit
    <3> HIDE DEF headp, f
    <3> QED
      BY <1>4, <2>3, <3>1 DEF Picked
  <2> HIDE DEF headp, f, m, c
  <2>6. \A i \in 1 .. n + 1 : m[i] = IF i = n + 1 THEN f ELSE l[i]
    BY <1>3, <2>4
  <2>7. 1 .. n + 1 = (1 .. n) \cup {n + 1}
    BY <1>3
  <2>8. IsPath(m, g)
    <3>1. \A i \in 1 .. n + 1 :
             /\ m[i].c \in hist.anc[g] /\ m[i].headp \in 0 .. Len(hist.par[m[i].c])
             /\ m[i].headp = 0 => hist.par[m[i].c] = <<>>
      <4>1. \A i \in 1 .. n : 
             /\ l[i].c \in hist.anc[g] /\ l[i].headp \in 0 .. Len(hist.par[l[i].c])
             /\ l[i].headp = 0 => hist.par[l[i].c] = <<>>
        BY <1>3 DEF IsPath
      <4>2. Len(hist.par[c]) \in Nat
        BY <1>4, HistoryType DEF Commit
      <4>3. f.c \in hist.anc[g] /\ f.headp \in 0 .. Len(hist.par[f.c]) /\ f.headp # 0
        BY <1>4, <2>3, <2>5, <4>2
      <4> HIDE DEF l, n
      <4> QED
        BY <2>6, <2>7, <4>1, <4>3
    <3>2. \A i \in 1 .. (n + 1) - 1 : Links(m[i], m[i + 1])
      <4>0. (n + 1) - 1 = n
        <5> HIDE DEF n
        <5> QED
          BY <1>3
      <4> SUFFICES ASSUME NEW i \in 1 .. n PROVE Links(m[i], m[i + 1])
        BY <4>0
      <4>1. CASE i = n
        <5>1. l[n].headp # 0 /\ hist.par[l[n].c][l[n].headp] = f.c
          BY Zenon, <1>3, <2>1, <2>3 DEF Picked
        <5> HIDE DEF l, n
        <5> QED
          BY Zenon, <1>3, <2>4, <4>1, <5>1 DEF Links
      <4>2. CASE i # n
        <5>1. i \in 1 .. n - 1 /\ i + 1 \in 1 .. n
          BY <1>3, <4>2
        <5>2. Links(l[i], l[i + 1])
          BY <1>3, <5>1 DEF IsPath
        <5> HIDE DEF l, n
        <5> QED
          BY <2>4, <5>1, <5>2
      <4> QED
        BY <4>1, <4>2
    <3>3. m[1].c = g
      <4>1. 1 \in 1 .. n /\ l[1].c = g
        BY <1>3 DEF IsPath
      <4> QED
        BY <2>4, <4>1
    <3> HIDE DEF l, n
    <3> QED
      BY <2>4, <3>1, <3>2, <3>3 DEF IsPath
  <2>9. m # <<>>
    BY <1>3, <2>4
  <2>10. \A i \in 1 .. n + 1 : m[i].headp # 0 /\ ~ m[i].locked
           /\ \E j \in 1 .. k + 1 : m[i].c = log[j]
    <3>1. c = log[k + 1] /\ k + 1 \in 1 .. k + 1
      BY <1>2 DEF c
    <3> SUFFICES ASSUME NEW i \in 1 .. n + 1
                 PROVE  m[i].headp # 0 /\ ~ m[i].locked /\ \E j \in 1 .. k + 1 : m[i].c = log[j]
      OBVIOUS
    <3>2. CASE i = n + 1
      BY <2>3, <2>4, <2>5, <3>1, <3>2
    <3>3. CASE i # n + 1
      <4>1. i \in 1 .. n /\ m[i] = l[i]
        BY <2>4, <2>7, <3>3
      <4>2. l[i].headp # 0 /\ ~ l[i].locked /\ \E j \in 1 .. k : l[i].c = log[j]
        BY <1>3, <4>1
      <4> HIDE DEF l, n
      <4> QED
        BY <1>2, <4>1, <4>2
    <3> QED
      BY <3>2, <3>3
  <2>11. w.included = {m[i].c : i \in 1 .. n + 1} \cup {Picked(m[n + 1])}
    <3>1. {m[i].c : i \in 1 .. n + 1} = {l[i].c : i \in 1 .. n} \cup {c}
      <4> HIDE DEF l, n
      <4> QED
        BY <2>3, <2>4, <2>6, <2>7
    <3> HIDE DEF l, n
    <3> QED
      BY <1>3, <2>1, <2>2, <2>4, <2>5, <3>1
  <2>12. Picked(m[n + 1]) \in ToSet(log) \cup {b}
    BY <1>4, <2>4, <2>5
  <2>13. ASSUME Dated, NEW j \in 1 .. k + 1 PROVE log[j] # Picked(m[n + 1])
    <3>1. hist.ct[hist.par[c][headp]] < hist.ct[c]
      BY <1>4, <2>13 DEF Dated
    <3>2. c = log[k + 1] /\ j \in 1 .. Len(log)
      BY <1>2 DEF c
    <3>3. j # k + 1 => j < k + 1
      BY <1>2
    <3>4. hist.ct[c] <= hist.ct[log[j]]
      <4>1. hist.ct[c] \in Nat
        BY <1>4, HistoryType DEF Commit
      <4> QED
        BY <1>1, <1>2, <2>13, <3>2, <3>3, <4>1
    <3>5. hist.ct[log[j]] \in Nat /\ hist.ct[c] \in Nat
      <4>1. log[j] \in Commits(hist) /\ c \in Commits(hist)
        BY <1>1, <1>4, <3>2 DEF Commit
      <4> QED
        BY <4>1, HistoryType
    <3>6. hist.par[c][headp] # log[j]
      BY <3>1, <3>4, <3>5
    <3> QED
      BY <2>4, <2>5, <3>6
  <2>14. Dated => \A j \in 1 .. k + 1 : log[j] # Picked(m[n + 1])
    BY <2>13
  <2>15. Len(m) = n + 1
    BY <2>4
  <2> DEFINE q == n + 1
  <2> HIDE DEF n, l
  <2>16. /\ w.included = {m[i].c : i \in 1 .. q} \cup {Picked(m[q])}
         /\ \A i \in 1 .. q : m[i].headp # 0 /\ ~ m[i].locked
              /\ \E j \in 1 .. k + 1 : m[i].c = log[j]
         /\ Picked(m[q]) \in ToSet(log) \cup {b}
         /\ Dated => \A j \in 1 .. k + 1 : log[j] # Picked(m[q])
    BY <2>10, <2>11, <2>12, <2>14
  <2>17. q = Len(m)
    BY <2>15
  <2> HIDE DEF q
  <2>18. PathState(g, b, log, m, w.included, k + 1)
    BY <2>8, <2>9, <2>16, <2>17 DEF PathState
  <2> QED
    BY <2>2, <2>18
<1> QED
  BY <1>7, <1>8

LEMMA NothingVisited ==
  ASSUME NEW tip, NEW onPath, NEW U, NEW s \in Seq(U), Len(s) = 0, NEW w, w = Visited(tip, onPath, s)
  PROVE  w.path = <<>>
<1>1. PICK v : Visits(tip, onPath, s, v)
  BY Zenon, PathSteps
<1>2. v[0] = [included |-> {tip}, path |-> <<>>] /\ w = v[0]
  BY <1>1 DEF Visits
<1> QED
  BY <1>2

LEMMA NoElements ==
  ASSUME NEW S, NEW s \in Seq(S), ToSet(s) = {}
  PROVE  Len(s) = 0
<1>1. Len(s) \in Nat /\ DOMAIN s = 1 .. Len(s)
  OBVIOUS
<1>2. \A i \in DOMAIN s : s[i] \in ToSet(s)
  BY DEF ToSet
<1>3. 1 \notin 1 .. Len(s)
  BY <1>1, <1>2
<1> QED
  BY <1>1, <1>3

\* Nothing is listed for a directory whose head is its goal.
LEMMA NoPath ==
  ASSUME IsHistory(hist, Dir), NEW d, goal[d] \in Commit, dhead[d] = goal[d],
         NEW l, l = FirstAncestryPath(d)
  PROVE  l = <<>>
<1> DEFINE g == goal[d]
           b == dhead[d]
           log == Between(g, b)
           onPath == ToSet(log) \cup {b}
<1>0. l = Visited(g, onPath, log).path
  BY Zenon DEF FirstAncestryPath, Visited, Between
<1>1. g \notin hist.anc[g] \ hist.anc[b]
  OBVIOUS
<1>2. LogOrder(hist, g, hist.anc[g] \ hist.anc[b], FALSE) = <<>>
  BY <1>1 DEF LogOrder
<1>3. <<>> \in Seq(Commit)
  OBVIOUS
<1>4. log \in Seq(Commit) /\ ToSet(log) = {}
  <2>1. log = Within(<<>>, {c \in Commit : b \in hist.anc[c]})
    BY <1>2 DEF Between
  <2>2. ToSet(<<>>) = {}
    BY DEF ToSet
  <2> DEFINE e == <<>>
             S == {c \in Commit : b \in hist.anc[c]}
  <2>3. e \in Seq(Commit) /\ ToSet(e) = {} /\ log = Within(e, S)
    BY <1>3, <2>1, <2>2
  <2> HIDE DEF e, S, log
  <2>4. Within(e, S) \in Seq(Commit) /\ ToSet(Within(e, S)) = ToSet(e) \cap S
    BY <2>3, WithinIs
  <2> QED
    BY <2>3, <2>4
<1>5. Len(log) = 0
  <2> HIDE DEF log
  <2> QED
    BY <1>4, NoElements
<1> HIDE DEF log, onPath
<1>6. log \in Seq(Commit)
  BY <1>4
<1>7. PICK w : w = Visited(g, onPath, log)
  OBVIOUS
<1>8. l = w.path
  BY <1>0, <1>7
<1> HIDE DEF g
<1> QED
  BY <1>5, <1>6, <1>7, <1>8, NothingVisited

LEMMA AncestryPathIs ==
  ASSUME IsHistory(hist, Dir), NEW d, goal[d] \in Commit, dhead[d] \in hist.anc[goal[d]],
         NEW l, l = FirstAncestryPath(d)
  PROVE  /\ IsPath(l, goal[d])
         /\ l = <<>> => dhead[d] = goal[d]
         /\ \A i \in 1 .. Len(l) : l[i].headp # 0 /\ ~ l[i].locked
         /\ l # <<>> => (Dated => Picked(l[Len(l)]) = dhead[d])
<1> DEFINE g == goal[d]
           b == dhead[d]
           log == Between(g, b)
           onPath == ToSet(log) \cup {b}
           n == Len(log)
<1>1. l = Visited(g, onPath, log).path
  BY Zenon DEF FirstAncestryPath, Visited, Between
<1>2. CASE b = g
  <2>1. l = <<>>
    BY <1>2, NoPath
  <2>2. IsPath(<<>>, g)
    BY DEF IsPath
  <2> QED
    BY <1>2, <2>1, <2>2
<1>3. CASE b # g
  <2> HIDE DEF log
  <2>1. /\ log \in Seq(Commit) /\ IsInjective(log) /\ log # <<>> /\ log[1] = g
        /\ n \in Nat /\ n # 0 /\ DOMAIN log = 1 .. n
        /\ ToSet(log) = {c \in hist.anc[g] : b \in hist.anc[c] /\ c # b}
    <3>1. /\ log \in Seq(Commit) /\ IsInjective(log) /\ log # <<>> /\ log[1] = g
          /\ ToSet(log) = {c \in hist.anc[g] : b \in hist.anc[c] /\ c # b}
      BY <1>3, BetweenIs DEF log
    <3> QED
      BY <3>1
  <2> HIDE DEF onPath
  <2>2. PICK v : /\ v[0] = [included |-> {g}, path |-> <<>>] /\ Visited(g, onPath, log) = v[n]
                 /\ \A i \in 1 .. n : v[i] = VisitNext(g, onPath, v[i - 1], log[i])
    <3>1. log \in Seq(Commit)
      BY <2>1
    <3>2. \E v : Visits(g, onPath, log, v)
      BY Zenon, <3>1, PathSteps
    <3> QED
      BY <3>2 DEF Visits
  <2> DEFINE Good == {k \in Nat : k + 1 <= n => PathState(g, b, log, v[k + 1].path, v[k + 1].included, k + 1)}
  <2>3. 0 \in Good
    <3> DEFINE headp == HeadParent(g, onPath)
               f == FParent(g, headp)
               w == v[1]
    <3>1. 1 \in 1 .. n /\ 1 - 1 = 0
      BY <2>1
    <3>2. v[1] = Visit(v[0], g, onPath)
      BY <2>1, <2>2, <3>1 DEF VisitNext
    <3>3. w.included = {g} \cup {hist.par[g][headp]} /\ w.path = Append(<<>>, f)
      BY <2>2, <3>2 DEF Visit
    <3>4. g \in ToSet(log)
      BY <2>1, <3>1 DEF ToSet
    <3>5. /\ headp \in 1 .. Len(hist.par[g]) /\ g \in hist.anc[g]
          /\ hist.par[g][headp] \in onPath /\ hist.par[g][headp] \in ToSet(hist.par[g])
      <4> HIDE DEF headp
      <4>1. headp = HeadParent(g, onPath) /\ onPath = ToSet(Between(g, b)) \cup {b}
              /\ g \in ToSet(Between(g, b))
        BY <3>4 DEF headp, onPath, log
      <4> QED
        BY <1>3, <4>1, PickIs
    <3>6. Len(hist.par[g]) \in Nat
      BY HistoryType DEF Commit
    <3>7. /\ f \in FRec /\ f.c = g /\ f.headp = headp /\ ~ f.locked
      <4>1. headp \in Nat
        BY <3>5, <3>6
      <4> HIDE DEF headp
      <4> QED
        BY <4>1, FParentIs
    <3>8. headp # 0
      BY <3>5, <3>6
    <3> HIDE DEF f, headp
    <3> DEFINE m == <<f>>
    <3>9. m \in Seq(FRec) /\ Len(m) = 1 /\ m[1] = f /\ m # <<>> /\ w.path = m
      BY <3>3, <3>7, Single
    <3> HIDE DEF m, w
    <3>10. \A i \in 1 .. 1 : i = 1
      OBVIOUS
    <3>11. IsPath(m, g)
      <4>1. \A i \in 1 .. 1 :
              /\ m[i].c \in hist.anc[g] /\ m[i].headp \in 0 .. Len(hist.par[m[i].c])
              /\ m[i].headp = 0 => hist.par[m[i].c] = <<>>
        BY <3>5, <3>6, <3>7, <3>8, <3>9, <3>10
      <4>2. 1 .. (1 - 1) = {}
        OBVIOUS
      <4> QED
        BY <3>7, <3>9, <4>1, <4>2 DEF IsPath
    <3>12. Picked(m[1]) = hist.par[g][headp]
      BY <3>7, <3>9 DEF Picked
    <3>13. {m[i].c : i \in 1 .. 1} = {g}
      BY <3>7, <3>9, <3>10
    <3>14. \A i \in 1 .. 1 : m[i].headp # 0 /\ ~ m[i].locked /\ \E j \in 1 .. 1 : m[i].c = log[j]
      BY <2>1, <3>7, <3>8, <3>9, <3>10
    <3>15. Dated => \A j \in 1 .. 1 : log[j] # Picked(m[1])
      <4>1. hist.par[g][headp] # g
        BY <3>5, HistoryType DEF Commit
      <4> QED
        BY <2>1, <3>10, <3>12, <4>1
    <3>16. PathState(g, b, log, m, w.included, 1)
      <4>1. w.included = {m[i].c : i \in 1 .. 1} \cup {Picked(m[1])}
        BY <3>3, <3>12, <3>13
      <4>2. Picked(m[1]) \in ToSet(log) \cup {b}
        BY <3>5, <3>12 DEF onPath
      <4> DEFINE one == 1
      <4>3. one = Len(m)
        BY <3>9
      <4>4. /\ w.included = {m[i].c : i \in 1 .. one} \cup {Picked(m[one])}
            /\ Picked(m[one]) \in ToSet(log) \cup {b}
            /\ \A i \in 1 .. one : m[i].headp # 0 /\ ~ m[i].locked
                 /\ \E j \in 1 .. 1 : m[i].c = log[j]
            /\ Dated => \A j \in 1 .. 1 : log[j] # Picked(m[one])
        BY <3>14, <3>15, <4>1, <4>2
      <4> HIDE DEF one
      <4> QED
        BY <3>9, <3>11, <4>3, <4>4 DEF PathState
    <3> QED
      BY <3>9, <3>16 DEF w
  <2>4. ASSUME NEW k \in Nat, k \in Good PROVE k + 1 \in Good
    <3> SUFFICES ASSUME (k + 1) + 1 <= n
                 PROVE  PathState(g, b, log, v[(k + 1) + 1].path, v[(k + 1) + 1].included, (k + 1) + 1)
      OBVIOUS
    <3> DEFINE j == k + 1
    <3>1. j \in 1 .. n /\ j + 1 \in 1 .. n /\ j + 1 <= n /\ (j + 1) - 1 = j
      BY <2>1
    <3>2. PathState(g, b, log, v[j].path, v[j].included, j)
      BY <2>1, <2>4, <3>1
    <3> HIDE DEF Good, j
    <3>3. v[j + 1] = Visit(v[j], log[j + 1], onPath)
      BY <2>2, <3>1 DEF VisitNext
    <3>4. log = Between(g, b) /\ onPath = ToSet(log) \cup {b}
      BY DEF log, onPath
    <3> HIDE DEF g, b, n
    <3>5. PathState(g, b, log, v[j + 1].path, v[j + 1].included, j + 1)
      <4> USE DEF g, b, n
      <4> QED
        BY <1>3, <3>1, <3>2, <3>3, <3>4, PathGrows
    <3> QED
      BY <3>5 DEF j
  <2> HIDE DEF Good
  <2>5. \A k \in Nat : k \in Good
    BY <2>3, <2>4, FromZeroOn
  <2>6. PathState(g, b, log, l, v[n].included, n)
    <3>1. n - 1 \in Nat /\ (n - 1) + 1 = n /\ n <= n
      BY <2>1
    <3>2. n - 1 \in Good
      BY <2>5, <3>1
    <3>3. PathState(g, b, log, v[n].path, v[n].included, n)
      BY <3>1, <3>2 DEF Good
    <3> QED
      BY <1>1, <2>2, <3>3
  <2>7. ASSUME Dated PROVE Picked(l[Len(l)]) = b
    <3>1. Picked(l[Len(l)]) \in ToSet(log) \cup {b} /\ \A j \in 1 .. n : log[j] # Picked(l[Len(l)])
      BY <2>6, <2>7 DEF PathState
    <3>2. Picked(l[Len(l)]) \notin ToSet(log)
      BY <2>1, <3>1 DEF ToSet
    <3> QED
      BY <3>1, <3>2
  <2>8. IsPath(l, g) /\ l # <<>> /\ \A i \in 1 .. Len(l) : l[i].headp # 0 /\ ~ l[i].locked
    BY <2>6 DEF PathState
  <2> QED
    BY <2>7, <2>8
<1> QED
  BY <1>2, <1>3

\* Dates and marks do not matter to a path.
LEMMA SamePath ==
  ASSUME NEW g, NEW s, IsPath(s, g), NEW t \in Seq(FRec), Len(t) = Len(s),
         \A i \in 1 .. Len(s) : t[i].c = s[i].c /\ t[i].headp = s[i].headp
  PROVE  /\ IsPath(t, g) /\ (t = <<>> <=> s = <<>>)
         /\ s # <<>> => t[Len(t)].c = s[Len(s)].c /\ t[Len(t)].headp = s[Len(s)].headp
                        /\ Picked(t[Len(t)]) = Picked(s[Len(s)])
<1>1. s \in Seq(FRec) /\ Len(s) \in Nat /\ (t = <<>> <=> s = <<>>)
  <2>1. s \in Seq(FRec)
    BY DEF IsPath
  <2> QED
    BY <2>1
<1>2. \A i \in 1 .. Len(s) : /\ t[i].c \in hist.anc[g]
                             /\ t[i].headp \in 0 .. Len(hist.par[t[i].c])
                             /\ t[i].headp = 0 => hist.par[t[i].c] = <<>>
  BY DEF IsPath
<1>3. \A i \in 1 .. Len(s) - 1 : Links(t[i], t[i + 1])
  <2> SUFFICES ASSUME NEW i \in 1 .. Len(s) - 1 PROVE Links(t[i], t[i + 1])
    OBVIOUS
  <2>1. i \in 1 .. Len(s) /\ i + 1 \in 1 .. Len(s)
    BY <1>1
  <2>2. Links(s[i], s[i + 1])
    BY DEF IsPath
  <2> QED
    BY <2>1, <2>2 DEF Links
<1>4. s # <<>> => 1 \in 1 .. Len(s) /\ Len(s) \in 1 .. Len(s) /\ s[1].c = g
  BY <1>1 DEF IsPath
<1>5. s # <<>> => t[1].c = g
  BY <1>4
<1>6. IsPath(t, g)
  BY <1>1, <1>2, <1>3, <1>5 DEF IsPath
<1> QED
  BY <1>1, <1>4, <1>6 DEF Picked

\* What find_dir_commits lists for a directory.
ListFor(l, d) ==
  /\ IsPath(l, goal[d])
  /\ \A i \in 1 .. Len(l) : l[i].translated <=> map[l[i].c] # Null
  /\ l = <<>> => dhead[d] = goal[d]
  /\ l # <<>> =>
       IF dhead[d] = Null THEN l[Len(l)].headp = 0 \/ l[Len(l)].translated
       ELSE Dated => Picked(l[Len(l)]) = dhead[d]

LEMMA DirCommitsIs ==
  ASSUME IsHistory(hist, Dir), Database(mono, map), NEW d, goal[d] \in Commit,
         dhead[d] # Null => dhead[d] \in hist.anc[goal[d]],
         NEW l, l = DirCommits(d)
  PROVE  ListFor(l, d)
<1> DEFINE p == IF dhead[d] = Null THEN FirstParents(d) ELSE FirstAncestryPath(d)
           s == Fudged(p)
           marked(i) == \E j \in 1 .. i : map[s[j].c] # Null
<1>1. /\ IsPath(p, goal[d])
      /\ p = <<>> => dhead[d] = goal[d]
      /\ p # <<>> => IF dhead[d] = Null THEN p[Len(p)].headp = 0 \/ map[p[Len(p)].c] # Null
                     ELSE Dated => Picked(p[Len(p)]) = dhead[d]
  <2>1. CASE dhead[d] = Null
    BY <2>1, FirstParentsIs
  <2>2. CASE dhead[d] # Null
    BY <2>2, AncestryPathIs
  <2> QED
    BY <2>1, <2>2
<1> HIDE DEF p
<1>2. p \in Seq(FRec)
  BY <1>1 DEF IsPath
<1>3. s \in Seq(FRec) /\ Len(s) = Len(p) /\ \A i \in 1 .. Len(p) : s[i].c = p[i].c
        /\ s[i].headp = p[i].headp
  BY <1>2, FudgedIs
<1>4. l = [i \in DOMAIN s |-> [s[i] EXCEPT !.translated = marked(i)]]
  BY DEF DirCommits, p
<1> HIDE DEF s
<1>5. DOMAIN s = 1 .. Len(s) /\ Len(s) \in Nat /\ \A i \in 1 .. Len(s) : s[i] \in FRec
  BY <1>3
<1>6. IsPath(s, goal[d])
  BY <1>1, <1>3, SamePath
<1>7. ASSUME NEW i \in 1 .. Len(s) PROVE marked(i) <=> map[s[i].c] # Null
  <2>1. i \in 1 .. i /\ \A j \in 1 .. i : j \in 1 .. Len(s) /\ (j = i \/ j < i)
    BY <1>5
  <2>2. ASSUME NEW j \in 1 .. i, map[s[j].c] # Null PROVE map[s[i].c] # Null
    <3>1. s[j].c \in Commit /\ s[i].c \in Commit
      BY <1>5, <2>1 DEF FRec
    <3>2. j = i \/ s[i].c \in hist.anc[s[j].c]
      BY <1>6, <2>1, PathDescends
    <3> QED
      BY <2>2, <3>1, <3>2, AncestorsMapped
  <2> QED
    BY <2>1, <2>2
<1>8. \A i \in 1 .. Len(s) : marked(i) \in BOOLEAN
  OBVIOUS
<1> HIDE DEF marked
<1>9. ASSUME NEW i \in 1 .. Len(s)
      PROVE  /\ l[i] \in FRec /\ l[i].c = s[i].c /\ l[i].headp = s[i].headp
             /\ l[i].translated = marked(i)
  <2>1. l[i] = [s[i] EXCEPT !.translated = marked(i)]
    BY <1>4, <1>5
  <2> QED
    BY <1>5, <1>8, <2>1, MarkedIs
<1>10. l \in Seq(FRec) /\ Len(l) = Len(s)
  <2>1. l = [i \in 1 .. Len(s) |-> l[i]]
    BY <1>4, <1>5
  <2> QED
    BY <1>5, <1>9, <2>1
<1>11. /\ IsPath(l, goal[d]) /\ (l = <<>> <=> s = <<>>)
       /\ s # <<>> => l[Len(l)].c = s[Len(s)].c /\ l[Len(l)].headp = s[Len(s)].headp
                        /\ Picked(l[Len(l)]) = Picked(s[Len(s)])
  BY SMTT(30), <1>6, <1>9, <1>10, SamePath
<1>12. /\ (s = <<>> <=> p = <<>>)
       /\ p # <<>> => s[Len(s)].c = p[Len(p)].c /\ s[Len(s)].headp = p[Len(p)].headp
                      /\ Picked(s[Len(s)]) = Picked(p[Len(p)])
  BY <1>1, <1>3, SamePath
<1>13. \A i \in 1 .. Len(l) : l[i].translated <=> map[l[i].c] # Null
  BY <1>7, <1>9, <1>10
<1>14. l # <<>> => Len(l) \in 1 .. Len(l)
  BY <1>10
<1>15. ASSUME l # <<>>, dhead[d] = Null PROVE l[Len(l)].headp = 0 \/ l[Len(l)].translated
  <2>1. p[Len(p)].headp = 0 \/ map[p[Len(p)].c] # Null
    BY <1>1, <1>11, <1>12, <1>15
  <2> QED
    BY <1>11, <1>12, <1>13, <1>14, <1>15, <2>1
<1>16. ASSUME l # <<>>, dhead[d] # Null, Dated PROVE Picked(l[Len(l)]) = dhead[d]
  BY <1>1, <1>11, <1>12, <1>16
<1> QED
  BY <1>1, <1>11, <1>12, <1>13, <1>15, <1>16 DEF ListFor

LEMMA PickedIs ==
  ASSUME IsHistory(hist, Dir), NEW f, f.c \in Commit, f.headp \in 0 .. Len(hist.par[f.c]),
           f.headp # 0,
         NEW p, p = Picked(f)
  PROVE  /\ p \in ToSet(hist.par[f.c]) /\ p \in Commit /\ p \in hist.anc[f.c] /\ p < f.c
         /\ hist.anc[p] \subseteq hist.anc[f.c]
<1> DEFINE c == f.c
           i == f.headp
<1>1. c \in Commits(hist) /\ Len(hist.par[c]) \in Nat
  BY HistoryType DEF Commit
<1>2. i \in 1 .. Len(hist.par[c]) /\ p = hist.par[c][i]
  BY <1>1 DEF Picked
<1> HIDE DEF c, i
<1>3. p \in ToSet(hist.par[c])
  BY <1>1, <1>2, HistoryType
<1>4. p \in Commits(hist) /\ p < c /\ p \in hist.anc[c] /\ hist.anc[p] \subseteq hist.anc[c]
  BY <1>1, <1>3, HistoryType, AncestorFacts
<1> QED
  BY <1>3, <1>4 DEF c, Commit

LEMMA PathsJoin ==
  ASSUME IsHistory(hist, Dir), NEW g \in Commit, NEW l, IsPath(l, g), l # <<>>, l[Len(l)].headp # 0,
         NEW m, IsPath(m, Picked(l[Len(l)]))
  PROVE  IsPath(l \o m, g)
<1> DEFINE n == Len(l)
           k == Len(m)
           p == Picked(l[n])
           w == l \o m
<1>1. l \in Seq(FRec) /\ m \in Seq(FRec) /\ n \in Nat /\ k \in Nat /\ n # 0 /\ n \in 1 .. n
        /\ l[n] \in FRec
  <2>1. l \in Seq(FRec) /\ m \in Seq(FRec)
    BY DEF IsPath
  <2>2. n \in Nat /\ k \in Nat /\ n # 0
    BY <2>1
  <2> QED
    BY <2>1, <2>2
<1>2. /\ w \in Seq(FRec) /\ Len(w) = n + k
      /\ \A i \in 1 .. n : w[i] = l[i]
      /\ \A i \in 1 .. k : w[n + i] = m[i]
  BY <1>1, AfterConcat
<1>3. l[n].c \in hist.anc[g] /\ l[n].headp \in 0 .. Len(hist.par[l[n].c])
  BY <1>1 DEF IsPath
<1>4. p \in Commit /\ hist.anc[p] \subseteq hist.anc[g]
  <2>1. l[n].c \in Commits(hist) /\ hist.anc[l[n].c] \subseteq hist.anc[g]
    BY <1>3, AncestorFacts DEF Commit
  <2>4. hist.anc[p] \subseteq hist.anc[l[n].c] /\ p \in Commits(hist)
    <3> DEFINE f == l[n]
    <3>1. f.c \in Commit /\ f.headp \in 0 .. Len(hist.par[f.c]) /\ f.headp # 0 /\ p = Picked(f)
      BY <1>3, <2>1 DEF Commit
    <3> HIDE DEF f, p
    <3>2. hist.anc[p] \subseteq hist.anc[f.c] /\ p \in Commits(hist)
      BY <3>1, PickedIs DEF Commit
    <3> QED
      BY <3>2 DEF f
  <2> QED
    BY <2>1, <2>4 DEF Commit
<1> HIDE DEF w
<1>5. ASSUME NEW i \in 1 .. n + k
      PROVE  /\ w[i].c \in hist.anc[g]
             /\ w[i].headp \in 0 .. Len(hist.par[w[i].c])
             /\ w[i].headp = 0 => hist.par[w[i].c] = <<>>
  <2>1. CASE i \in 1 .. n
    BY <1>2, <2>1 DEF IsPath
  <2>2. CASE i \notin 1 .. n
    <3>1. i - n \in 1 .. k /\ n + (i - n) = i
      BY <1>1, <2>2
    <3>2. w[i] = m[i - n]
      BY <1>2, <3>1
    <3>3. m[i - n].c \in hist.anc[p] /\ m[i - n].headp \in 0 .. Len(hist.par[m[i - n].c])
          /\ (m[i - n].headp = 0 => hist.par[m[i - n].c] = <<>>)
      BY <3>1 DEF IsPath
    <3> QED
      BY <1>4, <3>2, <3>3
  <2> QED
    BY <2>1, <2>2
<1>6. ASSUME NEW i \in 1 .. n + k - 1 PROVE Links(w[i], w[i + 1])
  <2>1. CASE i < n
    <3>1. i \in 1 .. n /\ i + 1 \in 1 .. n /\ i \in 1 .. n - 1
      BY <1>1, <2>1
    <3>2. w[i] = l[i] /\ w[i + 1] = l[i + 1]
      BY <1>2, <3>1
    <3> QED
      BY <3>1, <3>2 DEF IsPath
  <2>2. CASE i = n
    <3>1. 1 \in 1 .. k
      BY <1>1, <2>2
    <3>2. w[i] = l[n] /\ w[i + 1] = m[1] /\ m # <<>>
      BY <1>1, <1>2, <2>2, <3>1
    <3>3. m[1].c = p
      BY <3>2 DEF IsPath
    <3> QED
      BY <3>2, <3>3 DEF Links, Picked
  <2>3. CASE i > n
    <3>1. i - n \in 1 .. k - 1 /\ i - n \in 1 .. k /\ i - n + 1 \in 1 .. k
          /\ n + (i - n) = i /\ n + (i - n + 1) = i + 1
      BY <1>1, <2>3
    <3>2. w[i] = m[i - n] /\ w[i + 1] = m[i - n + 1]
      BY <1>2, <3>1
    <3>3. Links(m[i - n], m[i - n + 1])
      BY <3>1 DEF IsPath
    <3> QED
      BY <3>2, <3>3
  <2> QED
    BY <1>1, <2>1, <2>2, <2>3
<1>7. w[1].c = g
  <2>1. 1 \in 1 .. n
    BY <1>1
  <2> QED
    BY <1>2, <2>1 DEF IsPath
<1> QED
  BY SMTT(30), <1>2, <1>5, <1>6, <1>7 DEF IsPath, w

LEMMA FurtherIs ==
  ASSUME IsHistory(hist, Dir), Database(mono, map), NEW d, goal[d] \in Commit,
         NEW l, ListFor(l, d), l # <<>>, dhead[d] = Null,
         NEW since, NEW m, m = FurtherParents(l, since)
  PROVE  /\ m \in Seq(FRec) /\ IsPath(l \o m, goal[d])
         /\ \A i \in 1 .. Len(m) : m[i].translated /\ map[m[i].c] # Null
         /\ m # <<>> /\ m[Len(m)].headp # 0 =>
              Picked(m[Len(m)]) \in hist.anc[goal[d]] /\ map[Picked(m[Len(m)])] # Null
<1> DEFINE n == Len(l)
           last == l[n]
           p == Picked(last)
           line == IF last.headp = 0 THEN <<>> ELSE FirstParentLine(hist, p)
           S == {k \in DOMAIN line : hist.ct[line[k]] < since} \cup {Len(line) + 1}
           q == Min(S) - 1
           mark(f) == [f EXCEPT !.translated = TRUE]
<1>1. m = [i \in 1 .. q |-> mark(LineFParent(line[i]))]
  BY Zenon DEF FurtherParents, Last, Picked, LineFParent
<1>2. /\ IsPath(l, goal[d]) /\ l \in Seq(FRec) /\ n \in Nat /\ n # 0 /\ n \in 1 .. n
           /\ last \in FRec
      /\ last.headp = 0 \/ last.translated
      /\ last.translated <=> map[last.c] # Null
      /\ last.c \in hist.anc[goal[d]] /\ last.headp \in 0 .. Len(hist.par[last.c])
  <2>1. IsPath(l, goal[d]) /\ l \in Seq(FRec) /\ (last.headp = 0 \/ last.translated)
    BY DEF ListFor, IsPath
  <2>2. n \in Nat /\ n # 0
    BY <2>1
  <2> QED
    BY <2>1, <2>2 DEF ListFor, IsPath
<1>3. CASE last.headp = 0
  <2>1. line = <<>> /\ DOMAIN line = {} /\ Len(line) = 0
    BY <1>3
  <2>2. S = {1}
    BY <2>1
  <2>3. q = 0
    <3>1. Min({1}) = 1
      <4> DEFINE T == {1}
      <4>1. T \subseteq Nat /\ T # {}
        OBVIOUS
      <4> HIDE DEF T
      <4>2. Min(T) \in T
        BY <4>1, MinIs
      <4> QED
        BY <4>2 DEF T
    <3>2. Min(S) = 1
      BY <2>2, <3>1
    <3> HIDE DEF S
    <3> QED
      BY <3>2
  <2> DEFINE x(i) == mark(LineFParent(line[i]))
  <2>4. m = <<>> /\ m \in Seq(FRec) /\ Len(m) = 0
    <3>1. m = [i \in 1 .. 0 |-> x(i)]
      BY <1>1, <2>3
    <3> HIDE DEF x
    <3>2. \A i \in 1 .. 0 : x(i) \in FRec
      OBVIOUS
    <3>3. m \in Seq(FRec) /\ Len(m) = 0
      BY <3>1, <3>2
    <3> QED
      BY <3>3
  <2>5. l \o m = l
    BY <1>2, <2>4
  <2> QED
    BY <1>2, <2>4, <2>5
<1>4. CASE last.headp # 0
  <2>1. last.c \in Commit /\ map[last.c] # Null /\ hist.anc[last.c] \subseteq hist.anc[goal[d]]
    BY <1>2, <1>4, AncestorFacts DEF Commit
  <2>2. p \in ToSet(hist.par[last.c]) /\ p \in Commit /\ p \in hist.anc[last.c]
          /\ hist.anc[p] \subseteq hist.anc[last.c]
    <3>1. p = Picked(last)
      OBVIOUS
    <3> HIDE DEF last, p
    <3> QED
      BY <1>2, <1>4, <2>1, <3>1, PickedIs
  <2>3. \A a \in hist.anc[p] : map[a] # Null
    BY <2>1, <2>2, AncestorsMapped
  <2>4. IsLine(hist, p, line) /\ line \in Seq(hist.anc[p]) /\ Len(line) \in Nat
          /\ DOMAIN line = 1 .. Len(line)
        /\ \A i \in 1 .. Len(line) : line[i] \in hist.anc[p]
    <3>1. line = FirstParentLine(hist, p)
      BY <1>4
    <3> HIDE DEF p, line
    <3>2. IsLine(hist, p, line)
      BY <2>2, <3>1, LineIs DEF Commit
    <3> QED
      BY <3>2 DEF IsLine
  <2>5. hist.anc[p] \subseteq Commit
    BY <2>2, AncestorFacts DEF Commit
  <2> HIDE DEF p, line, last
  <2>6. q \in 0 .. Len(line)
    <3>1. S \subseteq 1 .. Len(line) + 1 /\ Len(line) + 1 \in S
      BY <2>4
    <3>2. 1 .. Len(line) + 1 \subseteq Nat
      OBVIOUS
    <3> HIDE DEF S
    <3>3. Min(S) \in S
      BY <3>1, <3>2, MinIs
    <3>4. Min(S) \in 1 .. Len(line) + 1
      BY <3>1, <3>3
    <3> QED
      BY <2>4, <3>4
  <2> HIDE DEF q
  <2>7. 1 .. q \subseteq 1 .. Len(line) /\ q \in Nat
    BY <2>4, <2>6
  <2>8. ASSUME NEW i \in 1 .. q
        PROVE  /\ mark(LineFParent(line[i])) \in FRec /\ mark(LineFParent(line[i])).c = line[i]
               /\ mark(LineFParent(line[i])).headp = IF hist.par[line[i]] = <<>> THEN 0 ELSE 1
               /\ mark(LineFParent(line[i])).translated
    <3>1. line[i] \in Commit
      BY <2>4, <2>5, <2>7
    <3> DEFINE h == IF hist.par[line[i]] = <<>> THEN 0 ELSE 1
               f == LineFParent(line[i])
               x == TRUE
               g == [f EXCEPT !.translated = x]
    <3>2. h \in Nat /\ f = FParent(line[i], h)
      BY DEF LineFParent
    <3> HIDE DEF h, f
    <3>3. f \in FRec /\ f.c = line[i] /\ f.headp = h
      BY <3>1, <3>2, FParentIs
    <3>4. x \in BOOLEAN /\ g = [f EXCEPT !.translated = x]
      OBVIOUS
    <3> HIDE DEF g, x
    <3>5. g \in FRec /\ g.c = f.c /\ g.headp = f.headp /\ g.translated = x
      BY <3>3, <3>4, MarkedIs
    <3> QED
      BY <3>3, <3>5 DEF h, f, g, x
  <2> HIDE DEF mark
  <2>9. m \in Seq(FRec) /\ Len(m) = q /\ \A i \in 1 .. q : m[i] = mark(LineFParent(line[i]))
    BY <1>1, <2>7, <2>8
  <2>10. IsPath(m, p)
    BY <2>2, <2>4, <2>6, <2>8, <2>9, LinePath
  <2>11. IsPath(l \o m, goal[d])
    BY <1>2, <1>4, <2>10, PathsJoin DEF p, last
  <2>12. \A i \in 1 .. Len(m) : m[i].translated /\ map[m[i].c] # Null
    BY <2>3, <2>4, <2>7, <2>8, <2>9
  <2>13. ASSUME m # <<>>, m[Len(m)].headp # 0
         PROVE  Picked(m[Len(m)]) \in hist.anc[goal[d]] /\ map[Picked(m[Len(m)])] # Null
    <3> DEFINE f == m[Len(m)]
    <3>1. Len(m) \in 1 .. Len(m)
      BY <2>9, <2>13
    <3>2. f.c \in hist.anc[p] /\ f.headp \in 0 .. Len(hist.par[f.c]) /\ f.headp # 0
      BY <2>10, <2>13, <3>1 DEF IsPath
    <3>3. f.c \in Commits(hist) /\ hist.anc[f.c] \subseteq hist.anc[p]
      BY <2>2, <2>5, <3>2, AncestorFacts DEF Commit
    <3>4. Picked(f) \in hist.anc[f.c]
      <4> HIDE DEF f
      <4> QED
        BY <3>2, <3>3, PickedIs DEF Commit
    <3> QED
      BY <2>1, <2>2, <2>3, <3>3, <3>4
  <2> QED
    BY <2>9, <2>11, <2>12, <2>13
<1> QED
  BY Zenon, <1>3, <1>4
=============================================================================
