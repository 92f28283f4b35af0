-------------------------- MODULE MtGenerate_proofs --------------------------
(***************************************************************************)
(* Theorems about MtGenerate, for any agents, branches, mt-configs and     *)
(* bounds: races, kills and repeated runs do not make an agent publish a   *)
(* translation that another one has published, nor an mt-split ref that is *)
(* ahead of its branch.  The argument is the lease: while a run works, the *)
(* mt-db it leased is a prefix of its own, and a push goes through only if *)
(* the destination still has the mt-db of the lease.                       *)
(***************************************************************************)
EXTENDS MtGenerate, TLAPS

-----------------------------------------------------------------------------
(***************************************************************************)
(* The inductive invariant.                                                *)
(***************************************************************************)
\* The runs of "--push-only" are left out: see MCMtPushOnly.
Generating == \A m \in Modes : m.generate

OnBranch == {"check", "translate", "save", "push", "push_split"}
AfterInit == {"branch"} \cup OnBranch
AfterSetup == {"init", "make_worktree"} \cup AfterInit

\* The mapping an mt-db ref stands for.
MappingOf(d) == IF d \in {None, Bare} THEN <<>> ELSE d

\* Where a run is: it has a branch, and a database.
InPlace(r, l) ==
  /\ r.at \in OnBranch => r.next <= Len(Actions)
  /\ r.at \in AfterInit => l.mtdb \in History

\* The mt-db of a run goes beyond the one it leased, and what is saved is what
\* it has in its worktree.
Leasing(r, l) ==
  /\ r.at \in AfterSetup => IsPrefix(MappingOf(r.lease), MappingOf(l.mtdb))
  /\ r.at \in AfterInit \ {"save"} => l.mtdb = r.db
  /\ r.at = "save" => IsPrefix(l.mtdb, r.db)

\* The branch that was generated is in the mt-db, and mt-split names its head.
Generated(r, l) ==
  r.at \in {"save", "push"} =>
    LET b == Actions[r.next]
    IN  IsPrefix(l.target[b], r.db) /\ Len(l.target[b]) = l.split[b]

\* What mt-split is about to name has been published.
PushedBefore(r, l, target) ==
  r.at = "push_split" =>
    LET b == Actions[r.next] IN l.split[b] <= Len(target[b])

AgentSound(a) ==
  /\ InPlace(run[a], local[a])
  /\ Leasing(run[a], local[a])
  /\ Generated(run[a], local[a])
  /\ PushedBefore(run[a], local[a], remote.target)

IInv ==
  /\ TypeOK /\ PublishedIsMapped /\ SplitRefsBehind
  /\ \A a \in Agent : AgentSound(a)

(***************************************************************************)
(* What is added when the monorepo exists and every run fetches.           *)
(***************************************************************************)
Established == Published > 0 /\ \A m \in Modes : m.fetch /\ m.generate

\* The destination's mt-db exists, and a run that pushes has translated for
\* no branch but the one it works on.
OneBranchAhead(r, l) ==
  /\ r.at = "setup_sources" => r.mono.mtdb # None
  /\ r.at = "init" => l.mtdb = r.lease
  /\ r.at # "make_worktree"
  /\ r.at = "push" => r.mode.push
  /\ r.at \in AfterSetup => r.lease \in History
  /\ r.at \in {"branch", "check", "translate", "push_split"} /\ r.mode.push => r.db = r.lease
  /\ r.at \in {"save", "push"} /\ r.mode.push =>
       \/ r.db = r.lease
       \/ IsStrictPrefix(r.lease, r.db) /\ l.target[Actions[r.next]] = r.db

\* The mt-split refs that a run fetched exist and were published.
SplitFetched(r, l, target) ==
  /\ r.at \notin {"idle", "done"} =>
       \A b \in Branch : r.split[b] > 0 /\ r.split[b] <= Len(target[b])
  /\ r.at = "check" => l.split[Actions[r.next]] = r.split[Actions[r.next]]

\* Source branch b is published as far as the run saw it.
Covered(r, target, b) == r.seen[b] <= Len(target[b])

\* The branches that a run has done with are.
DoneSoFar(r, l, target) ==
  /\ r.at \in {"setup_mono", "setup_sources", "init"} => r.next = 1
  /\ r.mode = Normal =>
       /\ r.at \in AfterInit => \A i \in 1 .. r.next - 1 : Covered(r, target, Actions[i])
       /\ r.at \in {"save", "push"} => l.split[Actions[r.next]] = r.seen[Actions[r.next]]
       /\ r.at = "push_split" => Covered(r, target, Actions[r.next])
       /\ r.at = "done" => \A i \in 1 .. Len(Actions) : Covered(r, target, Actions[i])

AgentAhead(r, l, target) ==
  OneBranchAhead(r, l) /\ SplitFetched(r, l, target) /\ DoneSoFar(r, l, target)

EInv ==
  /\ IInv
  /\ remote.mtdb # None /\ \A b \in Branch : rsplit[b] > 0
  /\ \A a \in Agent : AgentAhead(run[a], local[a], remote.target)

\* Every branch has a "generate branch" line.
AllBranches == \A b \in Branch : \E i \in 1 .. Len(Actions) : Actions[i] = b

-----------------------------------------------------------------------------
(***************************************************************************)
(* Histories.                                                              *)
(***************************************************************************)
LEMMA NotHistories == None \notin History /\ Bare \notin History /\ None # Bare
  BY GenerateAssumption DEF GenerateAssumption, History, Maker

LEMMA PrefixElements ==
  ASSUME NEW s \in History, NEW t \in History
  PROVE  IsPrefix(s, t) <=> Len(s) <= Len(t) /\ \A i \in 1 .. Len(s) : s[i] = t[i]
<1> USE DEF History
<1>1. SubSeq(s, 1, Len(s)) = s
  OBVIOUS
<1>2. CASE Len(s) <= Len(t)
  <2>1. /\ SubSeq(t, 1, Len(s)) \in Seq(Maker) /\ Len(SubSeq(t, 1, Len(s))) = Len(s)
        /\ \A i \in 1 .. Len(s) : SubSeq(t, 1, Len(s))[i] = t[i]
    BY <1>2
  <2>2. SubSeq(t, 1, Len(s)) = s <=> \A i \in 1 .. Len(s) : s[i] = t[i]
    BY <2>1
  <2> QED
    BY <1>1, <1>2, <2>2 DEF IsPrefix
<1>3. CASE ~ (Len(s) <= Len(t))
  BY <1>3 DEF IsPrefix
<1> QED
  BY <1>2, <1>3

LEMMA PrefixReflexive == ASSUME NEW s \in History PROVE IsPrefix(s, s)
  BY PrefixElements DEF History

LEMMA EmptyPrefix == ASSUME NEW s \in History PROVE IsPrefix(<<>>, s)
<1>1. <<>> \in History /\ Len(<<>>) = 0 /\ Len(s) \in Nat
  BY DEF History
<1> QED
  BY <1>1, PrefixElements

LEMMA EmptyHistory == ASSUME NEW s \in History, Len(s) = 0 PROVE s = <<>>
  BY DEF History

LEMMA PrefixTransitive ==
  ASSUME NEW s \in History, NEW t \in History, NEW u \in History, IsPrefix(s, t), IsPrefix(t, u)
  PROVE  IsPrefix(s, u)
<1>1. Len(s) \in Nat /\ Len(t) \in Nat /\ Len(u) \in Nat
  BY DEF History
<1>2. Len(s) <= Len(t) /\ Len(t) <= Len(u)
  BY PrefixElements
<1>3. ASSUME NEW i \in 1 .. Len(s) PROVE s[i] = u[i]
  <2>1. i \in 1 .. Len(t)
    BY <1>1, <1>2
  <2> QED
    BY <2>1, PrefixElements
<1> QED
  BY <1>1, <1>2, <1>3, PrefixElements

LEMMA PrefixAntisymmetric ==
  ASSUME NEW s \in History, NEW t \in History, IsPrefix(s, t), IsPrefix(t, s)
  PROVE  s = t
<1>1. Len(s) \in Nat /\ Len(t) \in Nat
  BY DEF History
<1>2. Len(s) = Len(t) /\ \A i \in 1 .. Len(s) : s[i] = t[i]
  BY <1>1, PrefixElements
<1> QED
  BY <1>2 DEF History

LEMMA SubSeqPrefix ==
  ASSUME NEW t \in History, NEW n \in Nat, n <= Len(t)
  PROVE  /\ SubSeq(t, 1, n) \in History /\ Len(SubSeq(t, 1, n)) = n
         /\ IsPrefix(SubSeq(t, 1, n), t)
<1>1. /\ SubSeq(t, 1, n) \in History /\ Len(SubSeq(t, 1, n)) = n
      /\ \A i \in 1 .. n : SubSeq(t, 1, n)[i] = t[i]
  BY DEF History
<1> QED
  BY <1>1, PrefixElements

\* What interleave-commits makes of an mt-db: one that goes on from it, as far
\* as the source.
LEMMA InterleavedExtends ==
  ASSUME NEW a \in Agent, NEW b \in Branch, NEW db \in History, run[a].seen[b] \in Nat
  PROVE  LET e == Interleaved(a, db, b) n == run[a].seen[b]
         IN  /\ e \in History /\ n <= Len(e) /\ IsPrefix(db, e)
             /\ e = db \/ (IsStrictPrefix(db, e) /\ SubSeq(e, 1, n) = e)
<1> DEFINE n == run[a].seen[b]
           e == Interleaved(a, db, b)
<1>0. n \in Nat /\ Len(db) \in Nat
  BY DEF History
<1>1. CASE n <= Len(db)
  <2>1. e = db
    BY <1>1 DEF Interleaved
  <2> QED
    BY <1>1, <2>1, PrefixReflexive
<1>2. CASE ~ (n <= Len(db))
  <2>1. e = [c \in 1 .. n |-> IF c <= Len(db) THEN db[c] ELSE a]
    BY <1>2 DEF Interleaved
  <2>2. \A c \in 1 .. n : (IF c <= Len(db) THEN db[c] ELSE a) \in Maker
    BY <1>0 DEF History, Maker
  <2>3. e \in History /\ Len(e) = n
    <3> HIDE DEF n
    <3> QED
      BY <1>0, <2>1, <2>2 DEF History
  <2>4. \A i \in 1 .. Len(db) : db[i] = e[i]
    BY <1>0, <1>2, <2>1
  <2>5. IsPrefix(db, e) /\ db # e
    BY <1>0, <1>2, <2>3, <2>4, PrefixElements
  <2>6. SubSeq(e, 1, n) = e
    <3> HIDE DEF e
    <3> QED
      BY <2>3 DEF History
  <2> QED
    BY <2>3, <2>5, <2>6, <1>0 DEF IsStrictPrefix
<1> QED
  BY <1>1, <1>2

-----------------------------------------------------------------------------
(***************************************************************************)
(* Types.  A run that works on a branch has one, and a database.           *)
(***************************************************************************)
TInv == TypeOK /\ \A a \in Agent : InPlace(run[a], local[a])

LEMMA NoRunType == IsRun(NoRun) /\ NoRun.at = "idle"
<1>1. IsHeads(Nowhere)
  BY GenerateAssumption DEF GenerateAssumption, IsHeads, Nowhere
<1>2. [b \in Branch |-> <<>>] \in [Branch -> History] /\ <<>> \in History
  BY DEF History
<1>3. [mtdb |-> None, target |-> [b \in Branch |-> <<>>]] \in Destination
  BY <1>2, NotHistories DEF Destination, Db
<1>4. Len(Actions) \in Nat
  BY GenerateAssumption DEF GenerateAssumption
<1>5. 1 \in 1 .. Len(Actions) + 1
  BY <1>4
<1>6. NoRun.at = "idle" /\ NoRun.mode = Normal /\ NoRun.split = Nowhere /\ NoRun.seen = Nowhere
      /\ NoRun.lease = None /\ NoRun.db = <<>> /\ NoRun.next = 1
      /\ NoRun.mono = [mtdb |-> None, target |-> [b \in Branch |-> <<>>]]
  BY DEF NoRun
<1> QED
  BY <1>1, <1>2, <1>3, <1>5, <1>6 DEF IsRun, Points, Db

LEMMA TypeInit == Init => TInv
<1> SUFFICES ASSUME Init PROVE TInv
  OBVIOUS
<1> USE GenerateAssumption DEF GenerateAssumption
<1>1. IsHeads(src) /\ IsHeads(rsplit) /\ kills \in [Agent -> 0 .. MaxKills]
  BY DEF Init, IsHeads
<1>2. [c \in 1 .. Published |-> Founder] \in History /\ <<>> \in History
  BY DEF History, Maker
<1>3. remote \in Destination
  BY <1>2, NotHistories DEF Init, Destination, Db
<1>4. IsLocal([mtdb |-> None, split |-> Nowhere, target |-> [b \in Branch |-> <<>>]])
  BY <1>2 DEF IsLocal, Db, IsHeads, Nowhere
<1>5. DOMAIN local = Agent /\ DOMAIN run = Agent
  BY DEF Init
<1>6. ASSUME NEW a \in Agent
      PROVE  IsLocal(local[a]) /\ IsRun(run[a]) /\ run[a].at = "idle"
  BY <1>4, NoRunType DEF Init
<1> QED
  BY <1>1, <1>3, <1>5, <1>6 DEF TInv, TypeOK, At, InPlace, OnBranch, AfterInit

\* A step of an agent leaves the refs and runs of the others alone.
LEMMA StepFrame ==
  ASSUME TypeOK, NEW a \in Agent, Step(a) \/ Kill(a)
  PROVE  /\ DOMAIN local' = Agent /\ DOMAIN run' = Agent /\ src' = src
         /\ \A c \in Agent \ {a} : local'[c] = local[c] /\ run'[c] = run[c]
  BY DEF TypeOK, Step, Kill, Start, SetupMono, SetupSources, InitReset, InitMakeRef,
         InitMakeWorktree, InitOneCommit, Fetch, AllDone, Check, Translate, HeadNotTranslated,
         Save, Push, PushRejected, PushSplit, PushSplitRejected, Error, Goto, NextBranch

\* The steps up to the first branch.
Setup(a) ==
  \/ \E m \in Modes : Start(a, m)
  \/ SetupMono(a) \/ SetupSources(a)
  \/ InitReset(a) \/ InitMakeRef(a) \/ InitMakeWorktree(a)

\* Those that end a run.
Ends(a) ==
  \/ InitOneCommit(a) \/ HeadNotTranslated(a)
  \/ PushRejected(a) \/ PushSplitRejected(a) \/ Kill(a)

\* What a step may make of a run and its refs.
GoodRun(r, l) ==
  IsLocal(l) /\ IsRun(r) /\ (r.at = "make_worktree" => l.mtdb = Bare) /\ InPlace(r, l)

LEMMA EndsRun ==
  ASSUME TypeOK, NEW a \in Agent, Ends(a)
  PROVE  /\ run'[a] = NoRun /\ local' = local /\ UNCHANGED <<src, remote, rsplit>>
         /\ kills' \in [Agent -> 0 .. MaxKills]
  BY GenerateAssumption
  DEF GenerateAssumption, TypeOK, Ends, InitOneCommit, HeadNotTranslated, PushRejected,
      PushSplitRejected, Kill, Error

LEMMA SetupRun ==
  ASSUME TInv, NEW a \in Agent, Setup(a)
  PROVE  GoodRun(run'[a], local'[a]) /\ UNCHANGED <<src, remote, rsplit, kills>>
<1> DEFINE r == run[a]
           l == local[a]
<1>h. /\ DOMAIN local = Agent /\ DOMAIN run = Agent /\ IsLocal(l) /\ IsRun(r)
      /\ IsHeads(src) /\ IsHeads(rsplit) /\ remote \in Destination /\ InPlace(r, l)
      /\ At(a, "make_worktree") => l.mtdb = Bare
  BY DEF TInv, TypeOK
<1>u. UNCHANGED <<src, remote, rsplit, kills>>
  BY DEF Setup, Start, SetupMono, SetupSources, InitReset, InitMakeRef, InitMakeWorktree
<1>s. SUFFICES GoodRun(run'[a], local'[a])
  BY <1>u
<1>1. ASSUME NEW m \in Modes, Start(a, m) PROVE GoodRun(run'[a], local'[a])
  <2> DEFINE q == [NoRun EXCEPT !.mode = m, !.split = rsplit, !.at = "setup_mono"]
  <2>1. run'[a] = q /\ local' = local
    BY <1>1, <1>h DEF Start
  <2>2. IsRun(q) /\ q.at = "setup_mono"
    BY <1>h, NoRunType DEF IsRun, Points
  <2> QED
    BY <1>h, <2>1, <2>2 DEF GoodRun, InPlace, OnBranch, AfterInit
<1>2. CASE SetupMono(a)
  <2> DEFINE q == [r EXCEPT !.mono = remote, !.at = "setup_sources"]
  <2>1. run'[a] = q /\ local' = local
    BY <1>2, <1>h DEF SetupMono
  <2>2. IsRun(q) /\ q.at = "setup_sources"
    BY <1>h DEF IsRun, Points
  <2> QED
    BY <1>h, <2>1, <2>2 DEF GoodRun, InPlace, OnBranch, AfterInit
<1>3. CASE SetupSources(a)
  <2> DEFINE q == [r EXCEPT !.seen = src, !.lease = r.mono.mtdb, !.at = "init"]
             k == [l EXCEPT !.mtdb = ForceFetched(r.mono.mtdb, @)]
  <2>1. run'[a] = q /\ local'[a] = k
    BY <1>3, <1>h DEF SetupSources
  <2>2. r.mono.mtdb \in Db
    BY <1>h DEF IsRun, Destination
  <2>3. IsRun(q) /\ q.at = "init"
    BY <1>h, <2>2 DEF IsRun, Points
  <2>4. IsLocal(k)
    BY <1>h, <2>2 DEF IsLocal, ForceFetched
  <2> QED
    BY <1>h, <2>1, <2>3, <2>4 DEF GoodRun, InPlace, OnBranch, AfterInit
<1>4. CASE InitReset(a)
  <2> DEFINE q == [r EXCEPT !.db = l.mtdb, !.at = "branch"]
  <2>1. run'[a] = q /\ local' = local /\ l.mtdb \notin {None, Bare}
    BY <1>4, <1>h DEF InitReset
  <2>2. l.mtdb \in History
    BY <1>h, <2>1 DEF IsLocal, Db
  <2>3. IsRun(q) /\ q.at = "branch"
    BY <1>h, <2>2 DEF IsRun, Points
  <2> QED
    BY <1>h, <2>1, <2>2, <2>3 DEF GoodRun, InPlace, OnBranch, AfterInit
<1>5. CASE InitMakeRef(a)
  <2> DEFINE q == [r EXCEPT !.at = "make_worktree"]
             k == [l EXCEPT !.mtdb = Bare]
  <2>1. run'[a] = q /\ local'[a] = k
    BY <1>5, <1>h DEF InitMakeRef, Goto
  <2>2. IsRun(q) /\ q.at = "make_worktree"
    BY <1>h DEF IsRun, Points
  <2>3. IsLocal(k) /\ k.mtdb = Bare
    BY <1>h DEF IsLocal, Db
  <2> QED
    BY <2>1, <2>2, <2>3 DEF GoodRun, InPlace, OnBranch, AfterInit
<1>6. CASE InitMakeWorktree(a)
  <2> DEFINE q == [r EXCEPT !.db = <<>>, !.at = "branch"]
             k == [l EXCEPT !.mtdb = <<>>]
  <2>1. run'[a] = q /\ local'[a] = k /\ <<>> \in History
    BY <1>6, <1>h DEF InitMakeWorktree, History
  <2>2. IsRun(q) /\ q.at = "branch"
    BY <1>h, <2>1 DEF IsRun, Points
  <2>3. IsLocal(k) /\ k.mtdb \in History
    BY <1>h, <2>1 DEF IsLocal, Db
  <2> QED
    BY <2>1, <2>2, <2>3 DEF GoodRun, InPlace, OnBranch, AfterInit
<1> QED
  BY <1>1, <1>2, <1>3, <1>4, <1>5, <1>6 DEF Setup

\* The steps on a branch.
BranchStep(a) ==
  \/ Fetch(a) \/ AllDone(a) \/ Check(a) \/ Translate(a) \/ Save(a)
  \/ Push(a) \/ PushSplit(a)

LEMMA BranchRun ==
  ASSUME TInv, NEW a \in Agent, BranchStep(a)
  PROVE  GoodRun(run'[a], local'[a]) /\ remote' \in Destination /\ IsHeads(rsplit') /\ kills' = kills
<1> DEFINE r == run[a]
           l == local[a]
           b == Actions[r.next]
<1>h. /\ DOMAIN local = Agent /\ DOMAIN run = Agent /\ IsLocal(l) /\ IsRun(r)
      /\ IsHeads(src) /\ IsHeads(rsplit) /\ remote \in Destination /\ InPlace(r, l)
  BY DEF TInv, TypeOK
<1>k. kills' = kills /\ src' = src
  BY DEF BranchStep, Fetch, AllDone, Check, Translate, Save, Push, PushSplit
<1>n. r.next \in Nat \ {0} /\ Len(Actions) \in Nat /\ Actions \in Seq(Branch)
  BY <1>h, GenerateAssumption DEF GenerateAssumption, IsRun
<1>b. r.next <= Len(Actions) => b \in Branch /\ r.next + 1 \in 1 .. Len(Actions) + 1
  BY <1>n
<1>m. r.at \in AfterInit => l.mtdb \in History
  BY <1>h DEF InPlace
<1>o. r.at \in OnBranch => r.next <= Len(Actions)
  BY <1>h DEF InPlace
\* NextBranch.
<1>x. ASSUME NextBranch(a), r.next <= Len(Actions)
      PROVE  IsRun(run'[a]) /\ run'[a].at = "branch"
  <2> DEFINE q == [r EXCEPT !.next = @ + 1, !.at = "branch"]
  <2>1. run'[a] = q
    BY <1>x, <1>h DEF NextBranch
  <2>2. IsRun(q) /\ q.at = "branch"
    BY <1>h, <1>b, <1>x DEF IsRun, Points
  <2> QED
    BY <2>1, <2>2
\* Goto.
<1>y. ASSUME NEW pc \in Points, Goto(a, pc)
      PROVE  IsRun(run'[a]) /\ run'[a].at = pc /\ run'[a].next = r.next
  <2> DEFINE q == [r EXCEPT !.at = pc]
  <2>1. run'[a] = q
    BY <1>y, <1>h DEF Goto
  <2>2. IsRun(q) /\ q.at = pc /\ q.next = r.next
    BY <1>h DEF IsRun
  <2> QED
    BY <2>1, <2>2
<1>1. CASE Fetch(a)
  <2>1. /\ r.at = "branch" /\ r.next <= Len(Actions) /\ Goto(a, "check")
        /\ remote' = remote /\ rsplit' = rsplit
    BY <1>1, <1>n DEF Fetch, At
  <2>2. IsRun(run'[a]) /\ run'[a].at = "check" /\ run'[a].next = r.next
    BY <1>y, <2>1 DEF Points
  <2>3. IsLocal(local'[a]) /\ local'[a].mtdb = l.mtdb
    <3> DEFINE t == Fetched(r.mono.target[b], l.target[b], <<>>)
               p == Fetched(r.split[b], l.split[b], 0)
               k == [l EXCEPT !.target[b] = t, !.split[b] = p]
    <3>1. t \in History
      BY <1>h, <1>b, <2>1 DEF IsRun, IsLocal, Destination, Fetched
    <3>2. p \in Nat /\ p <= MaxCommits[b]
      BY <1>h, <1>b, <2>1 DEF IsRun, IsLocal, IsHeads, Fetched
    <3>3. IsLocal(k) /\ k.mtdb = l.mtdb
      <4> HIDE DEF t, p, b
      <4> QED
        BY <1>h, <3>1, <3>2 DEF IsLocal, IsHeads
    <3>4. local'[a] = k \/ local'[a] = l
      BY <1>1, <1>h DEF Fetch, B
    <3> QED
      BY <1>h, <3>3, <3>4
  <2> QED
    BY <1>h, <1>k, <1>m, <2>1, <2>2, <2>3 DEF GoodRun, InPlace, OnBranch, AfterInit
<1>2. CASE AllDone(a)
  <2> DEFINE q == [NoRun EXCEPT !.mode = r.mode, !.seen = r.seen, !.at = "done"]
  <2>1. run'[a] = q /\ local' = local /\ remote' = remote /\ rsplit' = rsplit
    BY <1>2, <1>h DEF AllDone
  <2>2. IsRun(q) /\ q.at = "done"
    BY <1>h, NoRunType DEF IsRun, Points
  <2> QED
    BY <1>h, <1>k, <2>1, <2>2 DEF GoodRun, InPlace, OnBranch, AfterInit
<1>3. CASE Check(a)
  <2>1. r.at = "check" /\ local' = local /\ remote' = remote /\ rsplit' = rsplit
    BY <1>3 DEF Check, At
  <2>2. Goto(a, "push") \/ Goto(a, "translate") \/ NextBranch(a)
    BY <1>3 DEF Check
  <2>3. r.next <= Len(Actions) /\ l.mtdb \in History
    BY <1>m, <1>o, <2>1 DEF OnBranch, AfterInit
  <2>4. /\ IsRun(run'[a]) /\ run'[a].at \in {"push", "translate", "branch"}
        /\ run'[a].at # "branch" => run'[a].next = r.next
    BY <1>x, <1>y, <2>2, <2>3 DEF Points
  <2> QED
    BY <1>h, <1>k, <2>1, <2>3, <2>4 DEF GoodRun, InPlace, OnBranch, AfterInit
<1>4. CASE Translate(a)
  <2> DEFINE n == r.seen[b]
             e == Interleaved(a, r.db, b)
             q == [r EXCEPT !.db = e, !.at = "save"]
             k == [l EXCEPT !.target[b] = SubSeq(e, 1, n), !.split[b] = n]
  <2>1. /\ r.at = "translate" /\ run'[a] = q /\ local'[a] = k
        /\ remote' = remote /\ rsplit' = rsplit
    BY <1>4, <1>h DEF Translate, At, B
  <2>2. r.next <= Len(Actions) /\ l.mtdb \in History /\ b \in Branch
    BY <1>b, <1>m, <1>o, <2>1 DEF OnBranch, AfterInit
  <2>3. n \in Nat /\ n <= MaxCommits[b] /\ r.db \in History
    BY <1>h, <2>2 DEF IsRun, IsHeads
  <2>4. e \in History /\ n <= Len(e)
    BY <2>2, <2>3, InterleavedExtends
  <2>5. SubSeq(e, 1, n) \in History
    <3> HIDE DEF e, n
    <3> QED
      BY <2>3, <2>4, SubSeqPrefix
  <2> HIDE DEF e, n, b
  <2>6. IsRun(q) /\ q.at = "save" /\ q.next = r.next
    BY <1>h, <2>4 DEF IsRun, Points
  <2>7. IsLocal(k) /\ k.mtdb = l.mtdb
    BY <1>h, <2>3, <2>5 DEF IsLocal, IsHeads
  <2> QED
    BY <1>h, <1>k, <2>1, <2>2, <2>6, <2>7 DEF GoodRun, InPlace, OnBranch, AfterInit
<1>5. CASE Save(a)
  <2> DEFINE k == [l EXCEPT !.mtdb = r.db]
  <2>1. /\ r.at = "save" /\ local'[a] = k /\ remote' = remote /\ rsplit' = rsplit
        /\ Goto(a, "push") \/ NextBranch(a)
    BY <1>5, <1>h DEF Save, At
  <2>2. r.next <= Len(Actions)
    BY <1>o, <2>1 DEF OnBranch
  <2>3. /\ IsRun(run'[a]) /\ run'[a].at \in {"push", "branch"}
        /\ run'[a].at # "branch" => run'[a].next = r.next
    BY <1>x, <1>y, <2>1, <2>2 DEF Points
  <2>4. IsLocal(k) /\ k.mtdb \in History
    BY <1>h DEF IsLocal, IsRun, Db
  <2> QED
    BY <1>h, <1>k, <2>1, <2>2, <2>3, <2>4 DEF GoodRun, InPlace, OnBranch, AfterInit
<1>6. CASE Push(a)
  <2> DEFINE q == [r EXCEPT !.lease = l.mtdb, !.at = "push_split"]
  <2>1. /\ r.at = "push" /\ run'[a] = q /\ local' = local /\ rsplit' = rsplit
        /\ remote' = [mtdb |-> l.mtdb, target |-> [remote.target EXCEPT ![b] = l.target[b]]]
    BY <1>6, <1>h DEF Push, At, B
  <2>2. r.next <= Len(Actions) /\ l.mtdb \in History /\ b \in Branch
    BY <1>b, <1>m, <1>o, <2>1 DEF OnBranch, AfterInit
  <2>3. IsRun(q) /\ q.at = "push_split" /\ q.next = r.next
    BY <1>h, <2>2 DEF IsRun, Points, Db
  <2>4. l.target[b] \in History /\ remote.target \in [Branch -> History]
    BY <1>h, <2>2 DEF IsLocal, Destination
  <2>5. remote' \in Destination
    <3> HIDE DEF b
    <3> QED
      BY <2>1, <2>2, <2>4, NotHistories DEF Destination, Db
  <2> QED
    BY <1>h, <1>k, <2>1, <2>2, <2>3, <2>5 DEF GoodRun, InPlace, OnBranch, AfterInit
<1>7. CASE PushSplit(a)
  <2>1. /\ r.at = "push_split" /\ local' = local /\ remote' = remote /\ NextBranch(a)
        /\ \/ rsplit' = rsplit
           \/ rsplit' = [rsplit EXCEPT ![b] = l.split[b]]
    BY <1>7 DEF PushSplit, At, B
  <2>2. r.next <= Len(Actions) /\ l.mtdb \in History /\ b \in Branch
    BY <1>b, <1>m, <1>o, <2>1 DEF OnBranch, AfterInit
  <2>3. IsRun(run'[a]) /\ run'[a].at = "branch"
    BY <1>x, <2>1, <2>2
  <2>4. IsHeads(rsplit')
    <3>1. l.split[b] \in Nat /\ l.split[b] <= MaxCommits[b]
      BY <1>h, <2>2 DEF IsLocal, IsHeads
    <3> HIDE DEF b
    <3> QED
      BY <1>h, <2>1, <3>1 DEF IsHeads
  <2> QED
    BY <1>h, <1>k, <2>1, <2>2, <2>3, <2>4 DEF GoodRun, InPlace, OnBranch, AfterInit
<1> QED
  BY <1>1, <1>2, <1>3, <1>4, <1>5, <1>6, <1>7 DEF BranchStep

LEMMA TypeCommit == ASSUME TInv, NEW b \in Branch, Commit(b) PROVE TInv'
<1>1. IsHeads(src')
  <2>1. src \in [Branch -> Nat] /\ src[b] < MaxCommits[b] /\ src' = [src EXCEPT ![b] = @ + 1]
    BY DEF TInv, TypeOK, IsHeads, Commit
  <2>2. src[b] \in Nat /\ MaxCommits[b] \in Nat
    BY <2>1, GenerateAssumption DEF GenerateAssumption
  <2>3. src[b] + 1 \in Nat /\ src[b] + 1 <= MaxCommits[b]
    BY <2>1, <2>2
  <2>4. \A c \in Branch : src[c] <= MaxCommits[c]
    BY DEF TInv, TypeOK, IsHeads
  <2> QED
    BY <2>1, <2>3, <2>4 DEF IsHeads
<1> QED
  BY <1>1 DEF TInv, TypeOK, At, InPlace, Commit

LEMMA TypeStep ==
  ASSUME TInv, NEW a \in Agent, Step(a) \/ Kill(a)
  PROVE  TInv'
<1>f. /\ DOMAIN local' = Agent /\ DOMAIN run' = Agent /\ src' = src
      /\ \A c \in Agent \ {a} : local'[c] = local[c] /\ run'[c] = run[c]
  BY StepFrame DEF TInv
<1>h. /\ IsHeads(src) /\ IsHeads(rsplit) /\ kills \in [Agent -> 0 .. MaxKills] /\ remote \in Destination
      /\ IsLocal(local[a])
      /\ \A c \in Agent : GoodRun(run[c], local[c])
  BY DEF TInv, TypeOK, GoodRun, At
<1>s. SUFFICES /\ GoodRun(run'[a], local'[a]) /\ remote' \in Destination
               /\ IsHeads(rsplit') /\ kills' \in [Agent -> 0 .. MaxKills]
  <2>1. \A c \in Agent : GoodRun(run'[c], local'[c])
    BY <1>f, <1>h, <1>s
  <2> QED
    BY <1>f, <1>h, <1>s, <2>1 DEF TInv, TypeOK, GoodRun, At
<1>1. CASE Ends(a)
  <2>1. run'[a] = NoRun /\ local' = local /\ UNCHANGED <<remote, rsplit>> /\ kills' \in [Agent -> 0 .. MaxKills]
    BY <1>1, EndsRun DEF TInv
  <2> QED
    BY <1>h, <2>1, NoRunType DEF GoodRun, InPlace, OnBranch, AfterInit
<1>2. CASE Setup(a)
  BY <1>2, <1>h, SetupRun
<1>3. CASE BranchStep(a)
  BY <1>3, <1>h, BranchRun
<1> QED
  BY <1>1, <1>2, <1>3 DEF Step, Ends, Setup, BranchStep

LEMMA TypeNext == TInv /\ [Next]_vars => TInv'
<1>1. TInv /\ UNCHANGED vars => TInv'
  BY DEF TInv, TypeOK, At, InPlace, vars
<1> QED
  BY <1>1, TypeCommit, TypeStep DEF Next

\* Remotes, refs and runs have their types in every state, whatever the modes.
THEOREM TypeCorrect == Spec => []TypeOK
<1>1. TInv => TypeOK
  BY DEF TInv
<1> QED
  BY <1>1, TypeInit, TypeNext, PTL DEF Spec

-----------------------------------------------------------------------------
(***************************************************************************)
(* The invariant is inductive.                                             *)
(***************************************************************************)
LEMMA MappingType ==
  /\ \A d \in Db : MappingOf(d) \in History
  /\ \A d \in History : MappingOf(d) = d /\ d \in Db
<1>1. <<>> \in History
  BY DEF History
<1> QED
  BY <1>1, NotHistories DEF MappingOf, Db

\* The mapping of the destination; it is never without a database.
LEMMA MappingOfRemote == TypeOK => Mapping = MappingOf(remote.mtdb) /\ Mapping \in History
  BY MappingType DEF TypeOK, Destination, Mapping, MappingOf

LEMMA InvInit == Init => IInv
<1> SUFFICES ASSUME Init PROVE IInv
  OBVIOUS
<1>1. TypeOK
  BY TypeInit DEF TInv
<1> DEFINE old == [c \in 1 .. Published |-> Founder]
<1>2. old \in History /\ Len(old) = Published
  BY GenerateAssumption DEF GenerateAssumption, History, Maker
<1>3. Mapping = old
  <2>1. CASE Published = 0
    <3>1. Len(old) = 0 /\ old \in Seq(Maker)
      BY <1>2, <2>1 DEF History
    <3>2. old = <<>>
      BY <3>1, EmptyHistory DEF History
    <3>3. remote.mtdb = None
      BY <2>1 DEF Init
    <3> HIDE DEF old
    <3> QED
      BY <3>2, <3>3 DEF Mapping
  <2>2. CASE Published # 0
    BY <1>2, <2>2, NotHistories DEF Init, Mapping
  <2> QED
    BY <2>1, <2>2
<1>4. \A b \in Branch : remote.target[b] = old /\ rsplit[b] = Published
  BY DEF Init
<1>5. PublishedIsMapped
  BY <1>2, <1>3, <1>4, PrefixReflexive DEF PublishedIsMapped
<1>6. SplitRefsBehind
  BY <1>2, <1>4, GenerateAssumption DEF SplitRefsBehind, GenerateAssumption
<1>7. \A a \in Agent : run[a].at = "idle"
  BY NoRunType DEF Init
<1> QED
  BY <1>1, <1>5, <1>6, <1>7
  DEF IInv, AgentSound, InPlace, Leasing, Generated, PushedBefore, OnBranch, AfterInit, AfterSetup

\* What is to be shown of a step, apart from types.
Growing(target) == \A b \in Branch : IsPrefix(remote.target[b], target[b])
RunSound(r, l, target) == Leasing(r, l) /\ Generated(r, l) /\ PushedBefore(r, l, target)

\* Before the first branch, and between two, nothing is generated or pushed.
LEMMA SoundIdle ==
  ASSUME NEW r, NEW l, NEW t, r.at \in {"idle", "setup_mono", "setup_sources", "done"}
  PROVE  RunSound(r, l, t)
  BY DEF RunSound, Leasing, Generated, PushedBefore, OnBranch, AfterInit, AfterSetup

LEMMA SoundInit ==
  ASSUME NEW r, NEW l, NEW t, r.at \in {"init", "make_worktree"},
         IsPrefix(MappingOf(r.lease), MappingOf(l.mtdb))
  PROVE  RunSound(r, l, t)
  BY DEF RunSound, Leasing, Generated, PushedBefore, OnBranch, AfterInit, AfterSetup

LEMMA SoundBranch ==
  ASSUME NEW r, NEW l, NEW t, r.at \in {"branch", "check", "translate"},
         IsPrefix(MappingOf(r.lease), MappingOf(l.mtdb)), l.mtdb = r.db
  PROVE  RunSound(r, l, t)
  BY DEF RunSound, Leasing, Generated, PushedBefore, OnBranch, AfterInit, AfterSetup

LEMMA SetupSound ==
  ASSUME IInv, NEW a \in Agent, Setup(a)
  PROVE  RunSound(run'[a], local'[a], remote.target)
<1> DEFINE r == run[a]
           l == local[a]
<1>h. /\ DOMAIN local = Agent /\ DOMAIN run = Agent /\ IsLocal(l) /\ IsRun(r)
      /\ Leasing(r, l)
      /\ At(a, "make_worktree") => l.mtdb = Bare
  BY DEF IInv, TypeOK, AgentSound
<1>d. DOMAIN r = DOMAIN NoRun /\ DOMAIN l = {"mtdb", "split", "target"}
  BY <1>h DEF IsRun, IsLocal
<1>m. r.at \in {"init", "make_worktree"} => IsPrefix(MappingOf(r.lease), MappingOf(l.mtdb))
  BY <1>h DEF Leasing, AfterSetup
<1>1. ASSUME NEW m \in Modes, Start(a, m) PROVE RunSound(run'[a], local'[a], remote.target)
  <2>1. run'[a].at = "setup_mono"
    BY <1>1, <1>h DEF Start, NoRun
  <2> QED
    BY <2>1, SoundIdle
<1>2. CASE SetupMono(a)
  <2>1. run'[a].at = "setup_sources"
    BY <1>2, <1>h, <1>d DEF SetupMono, NoRun
  <2> QED
    BY <2>1, SoundIdle
<1>3. CASE SetupSources(a)
  <2>1. /\ run'[a].at = "init" /\ run'[a].lease = r.mono.mtdb
        /\ local'[a].mtdb = ForceFetched(r.mono.mtdb, l.mtdb)
    BY <1>3, <1>h, <1>d DEF SetupSources, NoRun
  <2>2. r.mono.mtdb \in Db /\ l.mtdb \in Db
    BY <1>h DEF IsRun, IsLocal, Destination
  <2>3. IsPrefix(MappingOf(r.mono.mtdb), MappingOf(local'[a].mtdb))
    <3>1. CASE r.mono.mtdb = None
      <4>1. MappingOf(r.mono.mtdb) = <<>> /\ local'[a].mtdb = l.mtdb
        BY <2>1, <3>1 DEF MappingOf, ForceFetched
      <4> QED
        BY <2>2, <4>1, MappingType, EmptyPrefix
    <3>2. CASE r.mono.mtdb # None
      <4>1. local'[a].mtdb = r.mono.mtdb
        BY <2>1, <3>2 DEF ForceFetched
      <4> QED
        BY <2>2, <4>1, MappingType, PrefixReflexive
    <3> QED
      BY <3>1, <3>2
  <2> QED
    BY <2>1, <2>3, SoundInit
<1>4. CASE InitReset(a)
  <2>1. /\ r.at = "init" /\ run'[a].at = "branch" /\ run'[a].lease = r.lease
        /\ run'[a].db = l.mtdb /\ local' = local
    BY <1>4, <1>h, <1>d DEF InitReset, NoRun, At
  <2> QED
    BY <1>m, <2>1, SoundBranch
<1>5. CASE InitMakeRef(a)
  <2>1. /\ r.at = "init" /\ run'[a].at = "make_worktree" /\ run'[a].lease = r.lease
        /\ l.mtdb = None /\ local'[a].mtdb = Bare
    BY <1>5, <1>h, <1>d DEF InitMakeRef, Goto, NoRun, At
  <2>2. MappingOf(None) = MappingOf(Bare)
    BY DEF MappingOf
  <2>3. IsPrefix(MappingOf(run'[a].lease), MappingOf(local'[a].mtdb))
    BY <1>m, <2>1, <2>2
  <2> QED
    BY <2>1, <2>3, SoundInit
<1>6. CASE InitMakeWorktree(a)
  <2>1. /\ r.at = "make_worktree" /\ run'[a].at = "branch" /\ run'[a].lease = r.lease
        /\ run'[a].db = <<>> /\ l.mtdb = Bare /\ local'[a].mtdb = <<>>
    BY <1>6, <1>h, <1>d DEF InitMakeWorktree, NoRun, At
  <2>2. MappingOf(Bare) = MappingOf(<<>>)
    BY DEF MappingOf
  <2>3. IsPrefix(MappingOf(run'[a].lease), MappingOf(local'[a].mtdb))
    BY <1>m, <2>1, <2>2
  <2> QED
    BY <2>1, <2>3, SoundBranch
<1> QED
  BY <1>1, <1>2, <1>3, <1>4, <1>5, <1>6 DEF Setup

\* A push of what was generated under a lease that still holds.
LEMMA PushSound ==
  ASSUME IInv, NEW a \in Agent, Push(a)
  PROVE  /\ RunSound(run'[a], local'[a], remote'.target)
         /\ Growing(remote'.target) /\ PublishedIsMapped'
<1> DEFINE r == run[a]
           l == local[a]
           b == Actions[r.next]
<1>h. /\ DOMAIN local = Agent /\ DOMAIN run = Agent /\ IsLocal(l) /\ IsRun(r)
      /\ remote \in Destination /\ InPlace(r, l) /\ Leasing(r, l) /\ Generated(r, l)
  BY SMTT(30) DEF IInv, TypeOK, AgentSound
<1>1. /\ r.at = "push" /\ local' = local
      /\ remote' = [mtdb |-> l.mtdb, target |-> [remote.target EXCEPT ![b] = l.target[b]]]
      /\ run'[a] = [r EXCEPT !.lease = l.mtdb, !.at = "push_split"]
      /\ remote.mtdb = r.lease /\ IsPrefix(remote.target[b], l.target[b])
  BY <1>h DEF Push, At, B, Accepted, FastForward
<1>2. /\ r.next \in 1 .. Len(Actions) /\ b \in Branch
      /\ l.mtdb \in History /\ l.mtdb = r.db
  <2>1. r.next <= Len(Actions) /\ l.mtdb \in History /\ l.mtdb = r.db
    BY <1>h, <1>1 DEF InPlace, Leasing, OnBranch, AfterInit
  <2> QED
    BY <1>h, <2>1, GenerateAssumption DEF GenerateAssumption, IsRun
<1>3. IsPrefix(l.target[b], l.mtdb) /\ Len(l.target[b]) = l.split[b]
  BY <1>h, <1>1, <1>2 DEF Generated
<1>4. /\ remote.target \in [Branch -> History] /\ l.target \in [Branch -> History]
      /\ l.target[b] \in History
  BY <1>h, <1>2 DEF Destination, IsLocal
<1>5. /\ run'[a].lease = l.mtdb /\ run'[a].at = "push_split" /\ run'[a].db = r.db
      /\ run'[a].next = r.next
  BY <1>h, <1>1 DEF IsRun, NoRun
<1> HIDE DEF b
<1>6. remote'.target[b] = l.target[b] /\ \A c \in Branch \ {b} : remote'.target[c] = remote.target[c]
  BY <1>1, <1>2, <1>4
<1>7. Growing(remote'.target)
  BY <1>1, <1>4, <1>6, PrefixReflexive DEF Growing
<1>8. Mapping' = l.mtdb
  BY <1>1, <1>2, NotHistories DEF Mapping
<1>9. IsPrefix(Mapping, l.mtdb) /\ Mapping \in History
  <2>1. IsPrefix(MappingOf(r.lease), MappingOf(l.mtdb))
    BY <1>h, <1>1 DEF Leasing, OnBranch, AfterInit, AfterSetup
  <2> QED
    BY <1>1, <1>2, <2>1, MappingType, MappingOfRemote DEF IInv
<1>10. PublishedIsMapped'
  <2> SUFFICES ASSUME NEW c \in Branch PROVE IsPrefix(remote'.target[c], l.mtdb)
    BY <1>8 DEF PublishedIsMapped
  <2>1. CASE c = b
    BY <1>3, <1>6, <2>1
  <2>2. CASE c # b
    <3>1. IsPrefix(remote.target[c], Mapping) /\ remote.target[c] \in History
      BY <1>4 DEF IInv, PublishedIsMapped
    <3> QED
      BY <1>2, <1>6, <1>9, <2>2, <3>1, PrefixTransitive
  <2> QED
    BY <2>1, <2>2
<1>11. Leasing(run'[a], local'[a]) /\ Generated(run'[a], local'[a])
  BY <1>1, <1>2, <1>5, MappingType, PrefixReflexive
  DEF Leasing, Generated, OnBranch, AfterInit, AfterSetup
<1>12. PushedBefore(run'[a], local'[a], remote'.target)
  <2>1. Len(l.target[b]) \in Nat
    BY <1>4 DEF History
  <2>2. l.split[b] <= Len(remote'.target[b])
    BY SMTT(30), <1>3, <1>6, <2>1
  <2>3. local'[a].split[Actions[run'[a].next]] <= Len(remote'.target[Actions[run'[a].next]])
    BY <1>1, <1>5, <2>2 DEF b
  <2> QED
    BY <2>3 DEF PushedBefore
<1> QED
  BY <1>7, <1>10, <1>11, <1>12 DEF RunSound

LEMMA BranchSound ==
  ASSUME IInv, Generating, NEW a \in Agent, BranchStep(a), ~Push(a)
  PROVE  /\ RunSound(run'[a], local'[a], remote.target) /\ remote' = remote
         /\ rsplit' = rsplit \/ SplitRefsBehind'
<1> DEFINE r == run[a]
           l == local[a]
           b == Actions[r.next]
<1>h. /\ DOMAIN local = Agent /\ DOMAIN run = Agent /\ IsLocal(l) /\ IsRun(r)
      /\ remote \in Destination /\ InPlace(r, l) /\ Leasing(r, l) /\ Generated(r, l)
      /\ PushedBefore(r, l, remote.target) /\ SplitRefsBehind /\ IsHeads(rsplit)
  BY DEF IInv, TypeOK, AgentSound
<1>d. DOMAIN r = DOMAIN NoRun /\ DOMAIN l = {"mtdb", "split", "target"}
  BY <1>h DEF IsRun, IsLocal
<1>b. r.next <= Len(Actions) => b \in Branch
  BY <1>h, GenerateAssumption DEF GenerateAssumption, IsRun
<1> USE DEF RunSound, Leasing, Generated, PushedBefore, OnBranch, AfterInit, AfterSetup
<1>1. CASE Fetch(a)
  <2>1. /\ r.at = "branch" /\ run'[a].at = "check" /\ run'[a].lease = r.lease
        /\ run'[a].db = r.db /\ remote' = remote /\ rsplit' = rsplit
        /\ local'[a].mtdb = l.mtdb
    BY <1>1, <1>h, <1>d DEF Fetch, Goto, NoRun, At
  <2> QED
    BY <1>h, <2>1
<1>2. CASE AllDone(a)
  <2>1. run'[a].at = "done" /\ remote' = remote /\ rsplit' = rsplit
    BY <1>2, <1>h DEF AllDone, NoRun
  <2> QED
    BY <2>1
<1>3. CASE Check(a)
  <2>1. r.mode.generate
    BY <1>h DEF Generating, IsRun, Normal
  <2>2. Goto(a, "translate") \/ NextBranch(a)
    BY <1>3, <2>1 DEF Check
  <2>3. /\ r.at = "check" /\ run'[a].at \in {"translate", "branch"} /\ run'[a].lease = r.lease
        /\ run'[a].db = r.db /\ remote' = remote /\ rsplit' = rsplit /\ local' = local
    BY <1>3, <1>h, <1>d, <2>2 DEF Check, Goto, NextBranch, NoRun, At
  <2> QED
    BY <1>h, <2>3
<1>4. CASE Translate(a)
  <2> DEFINE n == r.seen[b]
             e == Interleaved(a, r.db, b)
  <2>1. /\ r.at = "translate" /\ run'[a] = [r EXCEPT !.db = e, !.at = "save"]
        /\ local'[a] = [l EXCEPT !.target[b] = SubSeq(e, 1, n), !.split[b] = n]
        /\ remote' = remote /\ rsplit' = rsplit
    BY <1>4, <1>h DEF Translate, At, B
  <2>2. b \in Branch /\ n \in Nat /\ r.db \in History /\ l.mtdb = r.db
    BY <1>h, <1>b, <2>1 DEF IsRun, InPlace, IsHeads
  <2>3. e \in History /\ n <= Len(e) /\ IsPrefix(r.db, e)
    BY <2>2, InterleavedExtends
  <2> HIDE DEF e, n
  <2>4. Len(SubSeq(e, 1, n)) = n /\ IsPrefix(SubSeq(e, 1, n), e)
    BY <2>2, <2>3, SubSeqPrefix
  <2>5. /\ run'[a].at = "save" /\ run'[a].db = e /\ run'[a].lease = r.lease
        /\ run'[a].next = r.next
    BY <1>d, <2>1 DEF NoRun
  <2>6. l.target \in [Branch -> History] /\ l.split \in [Branch -> Nat]
    BY <1>h DEF IsLocal, IsHeads
  <2>7. /\ local'[a].mtdb = l.mtdb /\ local'[a].target[b] = SubSeq(e, 1, n)
        /\ local'[a].split[b] = n
    <3> HIDE DEF b
    <3> QED
      BY <1>d, <2>1, <2>2, <2>6
  <2>8. Leasing(run'[a], local'[a])
    <3>1. IsPrefix(MappingOf(r.lease), MappingOf(l.mtdb))
      BY <1>h, <2>1
    <3> QED
      BY <2>2, <2>3, <2>5, <2>7, <3>1
  <2>9. Generated(run'[a], local'[a])
    <3> SUFFICES LET c == Actions[run'[a].next]
                 IN  IsPrefix(local'[a].target[c], run'[a].db)
                     /\ Len(local'[a].target[c]) = local'[a].split[c]
      BY DEF Generated
    <3>1. Actions[run'[a].next] = b
      BY <2>5
    <3> HIDE DEF b
    <3> QED
      BY <2>4, <2>5, <2>7, <3>1
  <2>10. PushedBefore(run'[a], local'[a], remote.target)
    BY <2>5
  <2> QED
    BY <2>1, <2>8, <2>9, <2>10
<1>5. CASE Save(a)
  <2>1. /\ r.at = "save" /\ local'[a] = [l EXCEPT !.mtdb = r.db] /\ remote' = remote
        /\ rsplit' = rsplit
        /\ Goto(a, "push") \/ NextBranch(a)
    BY <1>5, <1>h DEF Save, At
  <2>2. /\ local'[a].mtdb = r.db /\ local'[a].target = l.target /\ local'[a].split = l.split
        /\ run'[a].at \in {"push", "branch"} /\ run'[a].lease = r.lease /\ run'[a].db = r.db
        /\ run'[a].at = "push" => run'[a].next = r.next
    BY <1>h, <1>d, <2>1 DEF Goto, NextBranch, NoRun
  <2>3. l.mtdb \in History /\ r.db \in History /\ r.lease \in Db
    BY <1>h, <2>1 DEF InPlace, IsRun
  <2>4. IsPrefix(MappingOf(r.lease), r.db)
    BY <1>h, <2>1, <2>3, MappingType, PrefixTransitive
  <2>5. MappingOf(r.db) = r.db
    BY <2>3, MappingType
  <2>6. Leasing(run'[a], local'[a])
    BY <2>2, <2>4, <2>5
  <2>7. Generated(run'[a], local'[a])
    <3>1. IsPrefix(l.target[b], r.db) /\ Len(l.target[b]) = l.split[b]
      BY <1>h, <2>1
    <3> SUFFICES ASSUME run'[a].at = "push"
                 PROVE  LET c == Actions[run'[a].next]
                        IN  IsPrefix(local'[a].target[c], run'[a].db)
                            /\ Len(local'[a].target[c]) = local'[a].split[c]
      BY <2>2 DEF Generated
    <3>2. Actions[run'[a].next] = b
      BY <2>2
    <3> HIDE DEF b
    <3> QED
      BY <2>2, <3>1, <3>2
  <2>8. PushedBefore(run'[a], local'[a], remote.target)
    BY <2>2
  <2> QED
    BY <2>1, <2>6, <2>7, <2>8
<1>6. CASE PushSplit(a)
  <2>1. /\ r.at = "push_split" /\ run'[a].at = "branch" /\ run'[a].lease = r.lease
        /\ run'[a].db = r.db /\ remote' = remote /\ local' = local
        /\ \/ rsplit' = rsplit
           \/ rsplit' = [rsplit EXCEPT ![b] = l.split[b]]
    BY <1>6, <1>h, <1>d DEF PushSplit, At, B, NextBranch, NoRun
  <2>2. b \in Branch /\ l.split[b] <= Len(remote.target[b])
    BY <1>h, <1>b, <2>1 DEF InPlace
  <2>3. rsplit' = rsplit \/ SplitRefsBehind'
    <3> HIDE DEF b
    <3> QED
      BY <1>h, <2>1, <2>2 DEF SplitRefsBehind, IsHeads
  <2> QED
    BY <1>h, <2>1, <2>3
<1> QED
  BY <1>1, <1>2, <1>3, <1>4, <1>5, <1>6 DEF BranchStep

\* The histories of the branches only grow, so that what was behind stays so.
LEMMA GrowingLengths ==
  ASSUME remote \in Destination, remote' \in Destination, Growing(remote'.target), NEW b \in Branch
  PROVE  /\ Len(remote.target[b]) \in Nat /\ Len(remote'.target[b]) \in Nat
         /\ Len(remote.target[b]) <= Len(remote'.target[b])
<1>1. remote.target[b] \in History /\ remote'.target[b] \in History
  BY DEF Destination
<1>2. Len(remote.target[b]) <= Len(remote'.target[b])
  BY <1>1, PrefixElements DEF Growing
<1> QED
  BY <1>1, <1>2 DEF History

\* What any step of an agent does to the remote.
LEMMA StepSound ==
  ASSUME IInv, Generating, TInv', NEW a \in Agent, Step(a) \/ Kill(a)
  PROVE  /\ RunSound(run'[a], local'[a], remote'.target)
         /\ Growing(remote'.target) /\ PublishedIsMapped' /\ SplitRefsBehind'
<1>h. /\ remote \in Destination /\ remote' \in Destination /\ TypeOK /\ TInv
      /\ IsHeads(rsplit) /\ IsHeads(rsplit')
      /\ PublishedIsMapped /\ SplitRefsBehind
  BY DEF IInv, TInv, TypeOK, AgentSound
<1>0. remote' = remote => Growing(remote'.target) /\ PublishedIsMapped'
  BY <1>h, PrefixReflexive DEF Growing, PublishedIsMapped, Mapping, Destination
<1>s. remote' = remote /\ rsplit' = rsplit => SplitRefsBehind'
  BY <1>h DEF SplitRefsBehind
<1>1. CASE Ends(a)
  <2>1. run'[a] = NoRun /\ remote' = remote /\ rsplit' = rsplit
    BY <1>1, <1>h, EndsRun
  <2>2. RunSound(run'[a], local'[a], remote'.target)
    BY <2>1, NoRunType
    DEF RunSound, Leasing, Generated, PushedBefore, OnBranch, AfterInit, AfterSetup
  <2> QED
    BY <1>0, <1>s, <2>1, <2>2
<1>2. CASE Setup(a)
  <2>1. remote' = remote /\ rsplit' = rsplit
    BY <1>2, <1>h, SetupRun
  <2> QED
    BY <1>0, <1>2, <1>s, <2>1, SetupSound
<1>3. CASE BranchStep(a) /\ ~Push(a)
  BY <1>0, <1>3, <1>s, BranchSound
<1>4. CASE Push(a)
  <2>1. RunSound(run'[a], local'[a], remote'.target) /\ Growing(remote'.target) /\ PublishedIsMapped'
    BY <1>4, PushSound
  <2>2. rsplit' = rsplit
    BY <1>4 DEF Push
  <2>3. SplitRefsBehind'
    <3> SUFFICES ASSUME NEW b \in Branch PROVE rsplit[b] <= Len(remote'.target[b])
      BY <2>2 DEF SplitRefsBehind
    <3>1. rsplit[b] \in Nat /\ rsplit[b] <= Len(remote.target[b])
      BY <1>h DEF SplitRefsBehind, IsHeads
    <3> QED
      BY <1>h, <2>1, <3>1, GrowingLengths
  <2> QED
    BY <2>1, <2>3
<1> QED
  BY <1>1, <1>2, <1>3, <1>4 DEF Step, Ends, Setup, BranchStep

LEMMA InvStep ==
  ASSUME IInv, Generating, NEW a \in Agent, Step(a) \/ Kill(a)
  PROVE  IInv'
<1>t. TInv /\ TInv'
  BY TypeStep DEF TInv, IInv, AgentSound
<1>1. /\ RunSound(run'[a], local'[a], remote'.target)
      /\ Growing(remote'.target) /\ PublishedIsMapped' /\ SplitRefsBehind'
  BY <1>t, StepSound
<1>f. \A c \in Agent \ {a} : local'[c] = local[c] /\ run'[c] = run[c]
  BY <1>t, StepFrame DEF TInv
<1>2. ASSUME NEW c \in Agent PROVE RunSound(run'[c], local'[c], remote'.target)
  <2>1. CASE c = a
    BY <1>1, <2>1
  <2>2. CASE c # a
    <3>1. /\ run'[c] = run[c] /\ local'[c] = local[c] /\ IsLocal(local[c]) /\ IsRun(run[c])
          /\ Leasing(run[c], local[c]) /\ Generated(run[c], local[c]) /\ InPlace(run[c], local[c])
          /\ PushedBefore(run[c], local[c], remote.target)
          /\ remote \in Destination /\ remote' \in Destination
      BY <1>f, <1>t, <2>2 DEF IInv, AgentSound, TInv, TypeOK
    <3>2. PushedBefore(run[c], local[c], remote'.target)
      <4> SUFFICES ASSUME run[c].at = "push_split"
                   PROVE  LET b == Actions[run[c].next]
                          IN  local[c].split[b] <= Len(remote'.target[b])
        BY DEF PushedBefore
      <4> DEFINE b == Actions[run[c].next]
      <4>1. run[c].next <= Len(Actions)
        BY <3>1 DEF InPlace, OnBranch
      <4>2. b \in Branch
        BY <3>1, <4>1, GenerateAssumption DEF GenerateAssumption, IsRun
      <4>3. local[c].split[b] \in Nat /\ local[c].split[b] <= Len(remote.target[b])
        BY <3>1, <4>2 DEF PushedBefore, IsLocal, IsHeads
      <4> HIDE DEF b
      <4>4. local[c].split[b] <= Len(remote'.target[b])
        BY <1>1, <3>1, <4>2, <4>3, GrowingLengths
      <4> QED
        BY <4>4 DEF b
    <3> QED
      BY <3>1, <3>2 DEF RunSound
  <2> QED
    BY <2>1, <2>2
<1> QED
  BY <1>1, <1>2, <1>t DEF IInv, AgentSound, RunSound, TInv

LEMMA InvNext == Generating => (IInv /\ [Next]_vars => IInv')
<1> SUFFICES ASSUME Generating, IInv, [Next]_vars PROVE IInv'
  OBVIOUS
<1>1. CASE UNCHANGED vars
  BY <1>1 DEF IInv, TypeOK, PublishedIsMapped, Mapping, SplitRefsBehind, AgentSound, At, vars
<1>2. ASSUME NEW b \in Branch, Commit(b) PROVE IInv'
  <2>1. TInv'
    BY <1>2, TypeCommit DEF TInv, IInv, AgentSound
  <2> QED
    BY <1>2, <2>1 DEF IInv, TInv, PublishedIsMapped, Mapping, SplitRefsBehind, AgentSound, Commit
<1> QED
  BY <1>1, <1>2, InvStep DEF Next

\* The invariant holds whenever no run is one of "--push-only".
THEOREM Invariance == ASSUME Generating PROVE Spec => []IInv
<1>1. IInv /\ [Next]_vars => IInv'
  BY InvNext
<1> QED
  BY InvInit, <1>1, PTL DEF Spec

\* Whatever is published is in the published mt-db, as it was published.
THEOREM PublishedIsMappedAlways == ASSUME Generating PROVE Spec => []PublishedIsMapped
<1>1. IInv => PublishedIsMapped
  BY DEF IInv
<1>2. Spec => []IInv
  BY Invariance
<1> QED
  BY <1>1, <1>2, PTL

\* mt-split is never ahead of the branch it stands for.
THEOREM SplitRefsBehindAlways == ASSUME Generating PROVE Spec => []SplitRefsBehind
<1>1. IInv => SplitRefsBehind
  BY DEF IInv
<1>2. Spec => []IInv
  BY Invariance
<1> QED
  BY <1>1, <1>2, PTL

-----------------------------------------------------------------------------
(***************************************************************************)
(* Established monorepos: the rest of the invariant.                       *)
(***************************************************************************)
LEMMA EstablishedInit == Established /\ Init => EInv
<1> SUFFICES ASSUME Established, Init PROVE EInv
  OBVIOUS
<1>1. IInv
  BY InvInit
<1>2. Published > 0 /\ Published \in Nat
  BY GenerateAssumption DEF GenerateAssumption, Established
<1>3. \A b \in Branch : rsplit[b] > 0
  BY <1>2 DEF Init
<1>4. remote.mtdb # None
  <2> DEFINE old == [c \in 1 .. Published |-> Founder]
  <2>1. old \in History
    BY <1>2 DEF History, Maker
  <2>2. remote.mtdb = old
    BY <1>2 DEF Init
  <2> HIDE DEF old
  <2> QED
    BY <2>1, <2>2, NotHistories
<1>5. ASSUME NEW a \in Agent PROVE AgentAhead(run[a], local[a], remote.target)
  <2>1. run[a].at = "idle"
    BY NoRunType DEF Init
  <2> QED
    BY <2>1 DEF AgentAhead, OneBranchAhead, SplitFetched, DoneSoFar, AfterSetup, AfterInit, OnBranch
<1> QED
  BY <1>1, <1>3, <1>4, <1>5 DEF EInv

LEMMA EndsAhead ==
  ASSUME EInv, NEW a \in Agent, Ends(a)
  PROVE  AgentAhead(run'[a], local'[a], remote.target)
<1>1. run'[a].at = "idle"
  BY EndsRun, NoRunType DEF EInv, IInv
<1> QED
  BY <1>1 DEF AgentAhead, OneBranchAhead, SplitFetched, DoneSoFar, AfterSetup, AfterInit, OnBranch

\* Up to the first branch: the mt-db of the lease is fetched by force.
LEMMA SetupAhead ==
  ASSUME EInv, NEW a \in Agent, Setup(a)
  PROVE  AgentAhead(run'[a], local'[a], remote.target)
<1> DEFINE r == run[a]
           l == local[a]
<1>h. /\ DOMAIN local = Agent /\ DOMAIN run = Agent /\ IsLocal(l) /\ IsRun(r)
      /\ remote \in Destination /\ IsHeads(rsplit)
      /\ OneBranchAhead(r, l) /\ SplitFetched(r, l, remote.target) /\ DoneSoFar(r, l, remote.target)
  BY DEF EInv, IInv, TypeOK, AgentAhead
<1>d. DOMAIN r = DOMAIN NoRun /\ DOMAIN l = {"mtdb", "split", "target"}
  BY <1>h DEF IsRun, IsLocal
<1>1. ASSUME NEW m \in Modes, Start(a, m) PROVE AgentAhead(run'[a], local'[a], remote.target)
  <2>1. run'[a].at = "setup_mono" /\ run'[a].split = rsplit /\ run'[a].next = 1
    BY <1>1, <1>h DEF Start, NoRun
  <2>2. \A b \in Branch : rsplit[b] > 0 /\ rsplit[b] <= Len(remote.target[b])
    BY DEF EInv, IInv, SplitRefsBehind
  <2>3. OneBranchAhead(run'[a], local'[a])
    BY <2>1 DEF OneBranchAhead, AfterSetup, AfterInit, OnBranch
  <2>4. SplitFetched(run'[a], local'[a], remote.target)
    BY <2>1, <2>2 DEF SplitFetched
  <2>5. DoneSoFar(run'[a], local'[a], remote.target)
    BY <2>1 DEF DoneSoFar, AfterInit, OnBranch
  <2> QED
    BY <2>3, <2>4, <2>5 DEF AgentAhead
\* The steps that keep what was fetched of mt-split.
<1>k. ASSUME run'[a].split = r.split, r.at \notin {"idle", "done"}, run'[a].at # "check"
      PROVE  SplitFetched(run'[a], local'[a], remote.target)
  BY <1>h, <1>k DEF SplitFetched
<1>2. CASE SetupMono(a)
  <2>1. /\ r.at = "setup_mono" /\ run'[a].at = "setup_sources" /\ run'[a].mono = remote
        /\ run'[a].split = r.split /\ run'[a].next = r.next
    BY <1>2, <1>h, <1>d DEF SetupMono, NoRun, At
  <2>2. OneBranchAhead(run'[a], local'[a])
    BY <2>1 DEF OneBranchAhead, AfterSetup, AfterInit, OnBranch, EInv
  <2>3. DoneSoFar(run'[a], local'[a], remote.target)
    BY <1>h, <2>1 DEF DoneSoFar, AfterInit, OnBranch
  <2> QED
    BY <1>k, <2>1, <2>2, <2>3 DEF AgentAhead
<1>3. CASE SetupSources(a)
  <2>1. /\ r.at = "setup_sources" /\ run'[a].at = "init" /\ run'[a].lease = r.mono.mtdb
        /\ local'[a].mtdb = ForceFetched(r.mono.mtdb, l.mtdb)
        /\ run'[a].split = r.split /\ run'[a].next = r.next
    BY <1>3, <1>h, <1>d DEF SetupSources, NoRun, At
  <2>2. r.mono.mtdb \in Db \ {Bare} /\ r.mono.mtdb # None
    BY <1>h, <2>1 DEF IsRun, Destination, OneBranchAhead
  <2>3. r.mono.mtdb \in History /\ local'[a].mtdb = r.mono.mtdb
    BY <2>1, <2>2 DEF Db, ForceFetched
  <2>4. OneBranchAhead(run'[a], local'[a])
    BY <2>1, <2>3 DEF OneBranchAhead
  <2>5. DoneSoFar(run'[a], local'[a], remote.target)
    BY <1>h, <2>1 DEF DoneSoFar, AfterInit, OnBranch
  <2> QED
    BY <1>k, <2>1, <2>4, <2>5 DEF AgentAhead
<1>4. CASE InitReset(a)
  <2>1. /\ r.at = "init" /\ run'[a].at = "branch" /\ run'[a].lease = r.lease
        /\ run'[a].db = l.mtdb /\ run'[a].split = r.split /\ run'[a].next = r.next
    BY <1>4, <1>h, <1>d DEF InitReset, NoRun, At
  <2>2. l.mtdb = r.lease /\ r.lease \in History /\ r.next = 1
    BY <1>h, <2>1 DEF OneBranchAhead, DoneSoFar, AfterSetup
  <2>3. OneBranchAhead(run'[a], local'[a])
    BY <2>1, <2>2 DEF OneBranchAhead
  <2>4. DoneSoFar(run'[a], local'[a], remote.target)
    BY <2>1, <2>2 DEF DoneSoFar
  <2> QED
    BY <1>k, <2>1, <2>3, <2>4 DEF AgentAhead
<1>5. CASE InitMakeRef(a) \/ InitMakeWorktree(a)
  <2>1. (r.at = "init" /\ l.mtdb = None) \/ r.at = "make_worktree"
    BY <1>5 DEF InitMakeRef, InitMakeWorktree, At
  <2> QED
    BY <1>h, <2>1, NotHistories DEF OneBranchAhead, AfterSetup
<1> QED
  BY <1>1, <1>2, <1>3, <1>4, <1>5 DEF Setup

\* What a run goes on to know of the branches when they grow.
LEMMA AheadGrows ==
  ASSUME remote \in Destination, remote' \in Destination, Growing(remote'.target),
         NEW r, NEW l, IsRun(r), InPlace(r, l), AgentAhead(r, l, remote.target)
  PROVE  AgentAhead(r, l, remote'.target)
<1>1. \A b \in Branch : \A n \in Nat : n <= Len(remote.target[b]) => n <= Len(remote'.target[b])
  BY GrowingLengths
<1>2. \A b \in Branch : r.split[b] \in Nat /\ r.seen[b] \in Nat
  BY DEF IsRun, IsHeads
<1>3. \A i \in 1 .. Len(Actions) : Actions[i] \in Branch
  BY GenerateAssumption DEF GenerateAssumption
<1>4. r.next \in Nat /\ Len(Actions) \in Nat /\ 1 .. r.next - 1 \subseteq 1 .. Len(Actions)
      /\ r.next >= 1
  BY GenerateAssumption DEF GenerateAssumption, IsRun
<1>5. SplitFetched(r, l, remote'.target)
  BY <1>1, <1>2 DEF SplitFetched, AgentAhead
<1>6. ASSUME NEW i \in 1 .. Len(Actions), Covered(r, remote.target, Actions[i])
      PROVE  Covered(r, remote'.target, Actions[i])
  BY <1>1, <1>2, <1>3, <1>6 DEF Covered
<1>7. r.at = "push_split" => r.next \in 1 .. Len(Actions)
  BY <1>4 DEF InPlace, OnBranch
<1>8. DoneSoFar(r, l, remote'.target)
  BY <1>4, <1>6, <1>7 DEF DoneSoFar, AgentAhead
<1> QED
  BY <1>5, <1>8 DEF AgentAhead

\* A branch that is done with is one more.
LEMMA OneMoreDone ==
  ASSUME NEW r, NEW target, r.next \in Nat \ {0},
         \A i \in 1 .. r.next - 1 : Covered(r, target, Actions[i]),
         Covered(r, target, Actions[r.next])
  PROVE  \A i \in 1 .. r.next : Covered(r, target, Actions[i])
<1>1. \A i \in 1 .. r.next : i \in 1 .. r.next - 1 \/ i = r.next
  OBVIOUS
<1> QED
  BY <1>1

\* On a branch: what is translated for it is pushed before the next one.
LEMMA BranchAhead ==
  ASSUME EInv, Established, NEW a \in Agent, BranchStep(a), ~Push(a)
  PROVE  /\ AgentAhead(run'[a], local'[a], remote.target)
         /\ remote' = remote /\ \A b \in Branch : rsplit'[b] > 0
<1> DEFINE r == run[a]
           l == local[a]
           b == Actions[r.next]
           T == remote.target
<1>h. /\ DOMAIN local = Agent /\ DOMAIN run = Agent /\ IsLocal(l) /\ IsRun(r)
      /\ InPlace(r, l) /\ remote \in Destination /\ IsHeads(rsplit)
      /\ OneBranchAhead(r, l) /\ SplitFetched(r, l, T) /\ DoneSoFar(r, l, T)
      /\ \A c \in Branch : rsplit[c] > 0
  BY DEF EInv, IInv, AgentSound, TypeOK, AgentAhead
<1>d. /\ DOMAIN r = DOMAIN NoRun /\ DOMAIN l = {"mtdb", "split", "target"}
      /\ l.split \in [Branch -> Nat]
  BY <1>h DEF IsRun, IsLocal, IsHeads
<1>n. r.next \in Nat \ {0} /\ Len(Actions) \in Nat /\ r.next <= Len(Actions) + 1
  BY <1>h, GenerateAssumption DEF GenerateAssumption, IsRun
<1>b. r.next <= Len(Actions) => b \in Branch
  BY <1>n, GenerateAssumption DEF GenerateAssumption
<1>m. r.mode.fetch /\ r.mode.generate /\ Normal.push
  BY <1>h DEF Established, IsRun, Normal
<1>1. CASE Fetch(a)
  <2>1. /\ r.at = "branch" /\ run'[a].at = "check" /\ run'[a].lease = r.lease
        /\ run'[a].db = r.db /\ run'[a].mode = r.mode /\ run'[a].split = r.split
        /\ run'[a].seen = r.seen /\ run'[a].next = r.next
        /\ remote' = remote /\ rsplit' = rsplit /\ r.next <= Len(Actions)
        /\ local'[a].split = [l.split EXCEPT ![b] = Fetched(r.split[b], @, 0)]
    BY <1>1, <1>h, <1>d, <1>m DEF Fetch, Goto, NoRun, At, B
  <2>2. local'[a].split[b] = r.split[b]
    <3>1. r.split[b] # 0
      BY <1>b, <1>h, <2>1 DEF SplitFetched
    <3> HIDE DEF b
    <3> QED
      BY <1>b, <1>d, <2>1, <3>1 DEF Fetched
  <2>3. OneBranchAhead(run'[a], local'[a])
    BY <1>h, <2>1 DEF OneBranchAhead, AfterSetup, AfterInit, OnBranch
  <2>4. SplitFetched(run'[a], local'[a], T)
    BY <1>h, <2>1, <2>2 DEF SplitFetched
  <2>5. DoneSoFar(run'[a], local'[a], T)
    BY <1>h, <2>1 DEF DoneSoFar, AfterInit, OnBranch, Covered
  <2> QED
    BY <1>h, <2>1, <2>3, <2>4, <2>5 DEF AgentAhead
<1>2. CASE AllDone(a)
  <2>1. /\ r.at = "branch" /\ run'[a].at = "done" /\ run'[a].mode = r.mode
        /\ run'[a].seen = r.seen /\ remote' = remote /\ rsplit' = rsplit
        /\ r.next - 1 = Len(Actions)
    BY <1>2, <1>h, <1>n DEF AllDone, NoRun, At
  <2>2. OneBranchAhead(run'[a], local'[a]) /\ SplitFetched(run'[a], local'[a], T)
    BY <2>1 DEF OneBranchAhead, SplitFetched, AfterSetup, AfterInit, OnBranch
  <2>3. DoneSoFar(run'[a], local'[a], T)
    BY <1>h, <2>1 DEF DoneSoFar, AfterInit, OnBranch, Covered
  <2> QED
    BY <1>h, <2>1, <2>2, <2>3 DEF AgentAhead
\* NextBranch, of a run that has nothing to push or has pushed it.
<1>x. ASSUME NextBranch(a), r.at \in AfterInit, r.mode.push => r.db = r.lease,
             r.mode = Normal => Covered(r, T, b)
      PROVE  AgentAhead(run'[a], local'[a], T)
  <2>1. /\ run'[a].at = "branch" /\ run'[a].lease = r.lease /\ run'[a].db = r.db
        /\ run'[a].mode = r.mode /\ run'[a].split = r.split /\ run'[a].seen = r.seen
        /\ run'[a].next = r.next + 1
    BY <1>x, <1>h, <1>d DEF NextBranch, NoRun
  <2>2. OneBranchAhead(run'[a], local'[a])
    BY <1>h, <1>x, <2>1 DEF OneBranchAhead, AfterSetup
  <2>3. SplitFetched(run'[a], local'[a], T)
    BY <1>h, <1>x, <2>1 DEF SplitFetched, AfterInit, OnBranch
  <2>4. r.mode = Normal => \A i \in 1 .. r.next : Covered(r, T, Actions[i])
    BY <1>h, <1>n, <1>x, OneMoreDone DEF DoneSoFar
  <2>5. DoneSoFar(run'[a], local'[a], T)
    BY <1>n, <2>1, <2>4 DEF DoneSoFar, Covered
  <2> QED
    BY <2>2, <2>3, <2>5 DEF AgentAhead
<1>3. CASE Check(a)
  <2>1. r.at = "check" /\ local' = local /\ remote' = remote /\ rsplit' = rsplit
    BY <1>3 DEF Check, At
  <2>2. b \in Branch /\ l.split[b] <= Len(T[b])
    BY <1>h, <1>b, <2>1 DEF InPlace, OnBranch, SplitFetched
  <2>3. CASE Work(a, b)
    <3>1. /\ run'[a].at = "translate" /\ run'[a].lease = r.lease /\ run'[a].db = r.db
          /\ run'[a].mode = r.mode /\ run'[a].split = r.split /\ run'[a].seen = r.seen
          /\ run'[a].next = r.next
      BY <1>3, <1>h, <1>d, <1>m, <2>3 DEF Check, Goto, NoRun, B
    <3>2. OneBranchAhead(run'[a], local'[a])
      BY <1>h, <2>1, <3>1 DEF OneBranchAhead, AfterSetup, AfterInit, OnBranch
    <3>3. SplitFetched(run'[a], local'[a], T)
      BY <1>h, <2>1, <3>1 DEF SplitFetched
    <3>4. DoneSoFar(run'[a], local'[a], T)
      BY <1>h, <2>1, <3>1 DEF DoneSoFar, AfterInit, OnBranch, Covered
    <3> QED
      BY <1>h, <2>1, <3>2, <3>3, <3>4 DEF AgentAhead
  <2>4. CASE ~Work(a, b)
    <3>1. NextBranch(a) /\ l.split[b] = r.seen[b]
      BY <1>3, <1>m, <2>4 DEF Check, Work, B
    <3>2. r.mode.push => r.db = r.lease
      BY <1>h, <2>1 DEF OneBranchAhead
    <3>3. Covered(r, T, b)
      BY <2>2, <3>1 DEF Covered
    <3> HIDE DEF b, T
    <3> QED
      BY <1>h, <1>x, <2>1, <3>1, <3>2, <3>3 DEF AfterInit, OnBranch, T
  <2> QED
    BY <2>3, <2>4
<1>4. CASE Translate(a)
  <2> DEFINE n == r.seen[b]
             e == Interleaved(a, r.db, b)
  <2>1. /\ r.at = "translate" /\ run'[a] = [r EXCEPT !.db = e, !.at = "save"]
        /\ local'[a] = [l EXCEPT !.target[b] = SubSeq(e, 1, n), !.split[b] = n]
        /\ remote' = remote /\ rsplit' = rsplit
    BY <1>4, <1>h DEF Translate, At, B
  <2>2. b \in Branch /\ n \in Nat /\ r.db \in History
    BY <1>h, <1>b, <2>1 DEF IsRun, InPlace, IsHeads, OnBranch
  <2>3. e = r.db \/ (IsStrictPrefix(r.db, e) /\ SubSeq(e, 1, n) = e)
    BY <2>2, InterleavedExtends
  <2> HIDE DEF e, n
  <2>4. /\ run'[a].at = "save" /\ run'[a].db = e /\ run'[a].lease = r.lease
        /\ run'[a].mode = r.mode /\ run'[a].split = r.split /\ run'[a].seen = r.seen
        /\ run'[a].next = r.next
    BY <1>d, <2>1 DEF NoRun
  <2>5. l.target \in [Branch -> History]
    BY <1>h DEF IsLocal
  <2>6. local'[a].target[b] = SubSeq(e, 1, n) /\ local'[a].split[b] = n
    <3> HIDE DEF b
    <3> QED
      BY <1>d, <2>1, <2>2, <2>5
  <2>7. r.lease \in History /\ r.mode.push => r.db = r.lease
    BY <1>h, <2>1 DEF OneBranchAhead, AfterSetup, AfterInit, OnBranch
  <2>8. OneBranchAhead(run'[a], local'[a])
    BY <1>h, <2>1, <2>3, <2>4, <2>6, <2>7 DEF OneBranchAhead, AfterSetup, AfterInit, OnBranch
  <2>9. SplitFetched(run'[a], local'[a], T)
    BY <1>h, <2>1, <2>4 DEF SplitFetched
  <2>10. DoneSoFar(run'[a], local'[a], T)
    BY <1>h, <2>1, <2>4, <2>6 DEF DoneSoFar, AfterInit, OnBranch, Covered, n
  <2> QED
    BY <1>h, <2>1, <2>8, <2>9, <2>10 DEF AgentAhead
<1>5. CASE Save(a)
  <2>1. /\ r.at = "save" /\ local'[a] = [l EXCEPT !.mtdb = r.db]
        /\ remote' = remote /\ rsplit' = rsplit
    BY <1>5, <1>h DEF Save, At
  <2>2. CASE r.mode.push
    <3>1. /\ run'[a].at = "push" /\ run'[a].lease = r.lease /\ run'[a].db = r.db
          /\ run'[a].mode = r.mode /\ run'[a].split = r.split /\ run'[a].seen = r.seen
          /\ run'[a].next = r.next
          /\ local'[a].target = l.target /\ local'[a].split = l.split
      BY <1>5, <1>d, <1>h, <2>1, <2>2 DEF Save, Goto, NoRun
    <3>2. OneBranchAhead(run'[a], local'[a])
      BY <1>h, <2>1, <2>2, <3>1 DEF OneBranchAhead, AfterSetup, AfterInit, OnBranch
    <3>3. SplitFetched(run'[a], local'[a], T)
      BY <1>h, <2>1, <3>1 DEF SplitFetched
    <3>4. DoneSoFar(run'[a], local'[a], T)
      BY <1>h, <2>1, <3>1 DEF DoneSoFar, AfterInit, OnBranch, Covered
    <3> QED
      BY <1>h, <2>1, <3>2, <3>3, <3>4 DEF AgentAhead
  <2>3. CASE ~r.mode.push
    <3>1. NextBranch(a) /\ r.mode # Normal
      BY <1>5, <1>m, <2>3 DEF Save
    <3> HIDE DEF b, T
    <3> QED
      BY <1>h, <1>x, <2>1, <2>3, <3>1 DEF AfterInit, OnBranch, T
  <2> QED
    BY <2>2, <2>3
<1>6. CASE PushSplit(a)
  <2>1. /\ r.at = "push_split" /\ NextBranch(a) /\ remote' = remote
        /\ \/ rsplit' = rsplit
           \/ l.split[b] # 0 /\ rsplit' = [rsplit EXCEPT ![b] = l.split[b]]
    BY <1>6 DEF PushSplit, At, B
  <2>2. b \in Branch
    BY <1>h, <1>b, <2>1 DEF InPlace, OnBranch
  <2>3. r.mode.push => r.db = r.lease
    BY <1>h, <2>1 DEF OneBranchAhead
  <2>4. r.mode = Normal => Covered(r, T, b)
    BY <1>h, <2>1 DEF DoneSoFar
  <2>5. \A c \in Branch : rsplit'[c] > 0
    <3> HIDE DEF b
    <3> QED
      BY <1>d, <1>h, <2>1, <2>2 DEF IsHeads
  <2> HIDE DEF b, T
  <2> QED
    BY <1>x, <2>1, <2>3, <2>4, <2>5 DEF AfterInit, OnBranch, T
<1> QED
  BY <1>1, <1>2, <1>3, <1>4, <1>5, <1>6 DEF BranchStep

\* A push: the branch is published as far as it was generated, and the
\* promise is kept, by new translations or by old ones.
LEMMA PushAhead ==
  ASSUME EInv, NEW a \in Agent, Push(a)
  PROVE  /\ AgentAhead(run'[a], local'[a], remote'.target)
         /\ remote'.mtdb # None /\ rsplit' = rsplit
         /\ [Abstract!Next]_<<Mapping, remote.target>>
<1> DEFINE r == run[a]
           l == local[a]
           b == Actions[r.next]
           s == l.target[b]
<1>h. /\ DOMAIN local = Agent /\ DOMAIN run = Agent /\ IsLocal(l) /\ IsRun(r)
      /\ InPlace(r, l) /\ Leasing(r, l) /\ Generated(r, l) /\ remote \in Destination
      /\ OneBranchAhead(r, l) /\ SplitFetched(r, l, remote.target)
      /\ DoneSoFar(r, l, remote.target) /\ TypeOK /\ PublishedIsMapped /\ IInv
  BY SMTT(30) DEF EInv, IInv, AgentSound, TypeOK, AgentAhead
<1>1. /\ r.at = "push" /\ local' = local /\ rsplit' = rsplit
      /\ remote' = [mtdb |-> l.mtdb, target |-> [remote.target EXCEPT ![b] = s]]
      /\ run'[a] = [r EXCEPT !.lease = l.mtdb, !.at = "push_split"]
      /\ remote.mtdb = r.lease /\ IsPrefix(remote.target[b], s)
  BY <1>h DEF Push, At, B, Accepted, FastForward
<1>2. r.next \in 1 .. Len(Actions) /\ b \in Branch /\ r.db \in History
  BY <1>h, <1>1, GenerateAssumption DEF GenerateAssumption, IsRun, InPlace, OnBranch
<1>3. l.mtdb = r.db /\ l.mtdb \in History
  BY SMTT(30), <1>h, <1>1, <1>2 DEF Leasing, AfterInit, OnBranch
<1>4. IsPrefix(s, r.db) /\ Len(s) = l.split[b]
  BY <1>h, <1>1 DEF Generated
<1>5. /\ r.lease \in History
      /\ r.db = r.lease \/ (IsStrictPrefix(r.lease, r.db) /\ s = r.db)
  BY <1>h, <1>1 DEF OneBranchAhead, AfterSetup, AfterInit, OnBranch
<1>6. /\ run'[a].lease = l.mtdb /\ run'[a].at = "push_split" /\ run'[a].db = r.db
      /\ run'[a].next = r.next /\ run'[a].mode = r.mode /\ run'[a].split = r.split
      /\ run'[a].seen = r.seen
  BY <1>h, <1>1 DEF IsRun, NoRun
<1>7. /\ remote.target \in [Branch -> History] /\ s \in History /\ remote.target[b] \in History
  BY <1>h, <1>2 DEF Destination, IsLocal
<1>8. /\ Mapping = r.lease /\ Mapping' = r.db /\ remote'.mtdb # None
      /\ remote'.target = [remote.target EXCEPT ![b] = s]
  BY <1>1, <1>2, <1>3, <1>5, NotHistories DEF Mapping
<1> HIDE DEF b, s
<1>9. /\ remote'.target[b] = s /\ DOMAIN remote'.target = Branch
      /\ \A c \in Branch \ {b} : remote'.target[c] = remote.target[c]
  BY <1>2, <1>7, <1>8
<1>10. AgentAhead(run'[a], local'[a], remote'.target)
  <2>1. OneBranchAhead(run'[a], local'[a])
    BY <1>2, <1>3, <1>6 DEF OneBranchAhead
  <2>2. remote' \in Destination /\ Growing(remote'.target)
    <3>1. TInv' /\ Growing(remote'.target)
      BY PushSound, TypeStep, <1>h DEF IInv, TInv, AgentSound, Step
    <3> QED
      BY <3>1 DEF TInv, TypeOK
  <2>3. AgentAhead(r, l, remote'.target)
    BY <1>h, <2>2, AheadGrows DEF AgentAhead
  <2>4. SplitFetched(run'[a], local'[a], remote'.target)
    BY <1>1, <1>6, <2>3 DEF SplitFetched, AgentAhead
  <2>5. r.mode = Normal => Covered(r, remote'.target, b)
    <3>1. r.mode = Normal => r.seen[b] = Len(s)
      BY <1>h, <1>1, <1>4 DEF DoneSoFar, b
    <3>2. Len(s) \in Nat
      BY <1>7 DEF History
    <3> QED
      BY <1>9, <3>1, <3>2 DEF Covered
  <2>6. DoneSoFar(run'[a], local'[a], remote'.target)
    BY <1>1, <1>6, <2>3, <2>5 DEF DoneSoFar, AgentAhead, AfterInit, OnBranch, Covered, b
  <2> QED
    BY <2>1, <2>4, <2>6 DEF AgentAhead
<1>11. [Abstract!Next]_<<Mapping, remote.target>>
  <2>1. CASE r.db = r.lease /\ s = remote.target[b]
    BY <1>7, <1>8, <2>1
  <2>2. CASE r.db = r.lease /\ s # remote.target[b]
    <3>1. Abstract!Forward(b)
      BY <1>1, <1>8, <1>9, <2>2
      DEF Abstract!Forward, Abstract!IsStrictPrefix, Abstract!IsPrefix, IsStrictPrefix, IsPrefix
    <3>2. Abstract!CatchUp(b)
      BY <1>4, <1>8, <1>9, <2>2, <3>1 DEF Abstract!CatchUp, Abstract!IsPrefix, IsPrefix
    <3> QED
      BY <1>2, <3>2 DEF Abstract!Next
  <2>3. CASE IsStrictPrefix(r.lease, r.db) /\ s = r.db
    <3>1. IsPrefix(remote.target[b], r.lease) /\ IsPrefix(r.lease, r.db) /\ r.lease # r.db
      BY <1>2, <1>8, <1>h, <2>3 DEF PublishedIsMapped, IsStrictPrefix
    <3>2. remote.target[b] # r.db
      BY <1>2, <1>5, <1>7, <3>1, PrefixAntisymmetric
    <3>3. Abstract!Forward(b)
      BY <1>1, <1>9, <2>3, <3>2
      DEF Abstract!Forward, Abstract!IsStrictPrefix, Abstract!IsPrefix, IsStrictPrefix, IsPrefix
    <3>4. Abstract!Translate(b)
      BY <1>8, <1>9, <2>3, <3>3
      DEF Abstract!Translate, Abstract!IsStrictPrefix, Abstract!IsPrefix, IsStrictPrefix, IsPrefix
    <3> QED
      BY <1>2, <3>4 DEF Abstract!Next
  <2> QED
    BY <1>5, <2>1, <2>2, <2>3
<1> QED
  BY <1>1, <1>8, <1>10, <1>11

LEMMA EstablishedStep ==
  ASSUME EInv, Established, NEW a \in Agent, Step(a) \/ Kill(a)
  PROVE  EInv' /\ [Abstract!Next]_<<Mapping, remote.target>>
<1>g. Generating
  BY DEF Generating, Established
<1>t. TInv /\ TInv' /\ IInv'
  BY <1>g, TypeStep, InvStep DEF TInv, EInv, IInv, AgentSound
<1>w. Growing(remote'.target) /\ remote \in Destination /\ remote' \in Destination
  BY <1>g, <1>t, StepSound DEF EInv, TInv, TypeOK
<1>s. SUFFICES /\ AgentAhead(run'[a], local'[a], remote'.target)
               /\ remote'.mtdb # None /\ \A b \in Branch : rsplit'[b] > 0
               /\ [Abstract!Next]_<<Mapping, remote.target>>
  <2>1. ASSUME NEW c \in Agent PROVE AgentAhead(run'[c], local'[c], remote'.target)
    <3>1. CASE c = a
      BY <1>s, <3>1
    <3>2. CASE c # a
      <4>1. run'[c] = run[c] /\ local'[c] = local[c]
        BY <1>t, <3>2, StepFrame DEF TInv
      <4>2. /\ AgentAhead(run[c], local[c], remote.target)
            /\ IsRun(run[c]) /\ InPlace(run[c], local[c])
        BY <1>t DEF EInv, TInv, TypeOK
      <4>3. AgentAhead(run[c], local[c], remote'.target)
        BY <1>w, <4>2, AheadGrows
      <4> QED
        BY <4>1, <4>3
    <3> QED
      BY <3>1, <3>2
  <2> QED
    BY <1>s, <1>t, <2>1 DEF EInv
<1>k. remote' = remote => /\ remote'.mtdb # None
                          /\ [Abstract!Next]_<<Mapping, remote.target>>
  BY DEF Mapping, EInv
<1>r. \A b \in Branch : rsplit[b] > 0
  BY DEF EInv
<1>1. CASE Ends(a)
  <2>1. remote' = remote /\ rsplit' = rsplit
    BY <1>1, <1>t, EndsRun DEF TInv
  <2> QED
    BY <1>1, <1>k, <1>r, <2>1, EndsAhead
<1>2. CASE Setup(a)
  <2>1. remote' = remote /\ rsplit' = rsplit
    BY <1>2, <1>t, SetupRun
  <2> QED
    BY <1>2, <1>k, <1>r, <2>1, SetupAhead
<1>3. CASE BranchStep(a) /\ ~Push(a)
  BY <1>3, <1>k, BranchAhead
<1>4. CASE Push(a)
  BY <1>4, <1>r, PushAhead
<1> QED
  BY <1>1, <1>2, <1>3, <1>4 DEF Step, Ends, Setup, BranchStep

LEMMA EstablishedNext ==
  ASSUME Established, EInv, [Next]_vars
  PROVE  EInv' /\ [Abstract!Next]_<<Mapping, remote.target>>
<1>1. CASE UNCHANGED vars
  BY <1>1 DEF EInv, IInv, TypeOK, PublishedIsMapped, Mapping, SplitRefsBehind, AgentSound, At, vars
<1>2. ASSUME NEW b \in Branch, Commit(b)
      PROVE  EInv' /\ [Abstract!Next]_<<Mapping, remote.target>>
  <2>1. UNCHANGED <<remote, rsplit, local, run>>
    BY <1>2 DEF Commit
  <2>2. IInv'
    BY <1>2, InvNext DEF EInv, Next, Established, Generating
  <2> QED
    BY <2>1, <2>2 DEF EInv, Mapping
<1> QED
  BY <1>1, <1>2, EstablishedStep DEF Next

\* The whole invariant, of an established monorepo.
THEOREM EstablishedInvariance == ASSUME Established PROVE Spec => []EInv
<1>1. EInv /\ [Next]_vars => EInv'
  BY EstablishedNext
<1>2. Init => EInv
  BY EstablishedInit
<1> QED
  BY <1>1, <1>2, PTL DEF Spec

\* A run that ends without an error leaves every source commit it has seen
\* published, its own work or another agent's.
THEOREM CompletedRunPublishesAlways ==
  ASSUME Established, AllBranches
  PROVE  Spec => []CompletedRunPublishes
<1>1. EInv => CompletedRunPublishes
  BY DEF EInv, AgentAhead, DoneSoFar, Covered, CompletedRunPublishes, AllBranches, At
<1>2. Spec => []EInv
  BY EstablishedInvariance
<1> QED
  BY <1>1, <1>2, PTL

\* What is published implements TranslateOnce: no commit is translated twice,
\* whatever agents race, lose, or are killed.
THEOREM Refinement == ASSUME Established PROVE Spec => ImplementsTranslateOnce
<1>1. Init => Abstract!Init
  BY EstablishedInit DEF EInv, IInv, PublishedIsMapped, Abstract!Init, Abstract!IsPrefix, IsPrefix
<1>2. EInv /\ [Next]_vars => [Abstract!Next]_<<Mapping, remote.target>>
  BY EstablishedNext
<1>3. Spec => []EInv
  BY EstablishedInvariance
<1> QED
  BY <1>1, <1>2, <1>3, PTL DEF Spec, ImplementsTranslateOnce, Abstract!Spec
=============================================================================
