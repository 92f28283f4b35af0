-------------------------- MODULE MtUpstream_proofs --------------------------
(***************************************************************************)
(* Theorems about MtUpstream, for any number of agents, commits and        *)
(* retries.  That no commit of the upstream is translated again is proved  *)
(* from the order in which its destinations are fetched: mt-split first.   *)
(* What mt-split names when it is fetched has been published by then, so   *)
(* that the mirror of the monorepo, fetched later, contains it; mt-split   *)
(* must then be at the upstream's source as this run saw it, which was     *)
(* fetched after the downstream's.  The mt-db that is merged therefore     *)
(* knows all that the downstream's source contains, and nothing is left    *)
(* that the downstream could translate.                                    *)
(***************************************************************************)
EXTENDS MtUpstream, TLAPS

-----------------------------------------------------------------------------
\* The types are kept whatever the order of the destinations.
LEMMA TypeInit == Init => TypeOK
  BY UpstreamAssumption
  DEF UpstreamAssumption, Init, TypeOK, Run, Db, Commits, Points, NoRun, NoDb, NoMirror

LEMMA TypeSources ==
  ASSUME TypeOK, Commit \/ MergeSource \/ UpstreamPush \/ UpstreamPushSplit
  PROVE  TypeOK'
<1> USE UpstreamAssumption DEF UpstreamAssumption, TypeOK, Commits
<1>1. CASE Commit
  BY <1>1 DEF Commit
<1>2. CASE MergeSource
  BY <1>2 DEF MergeSource, upstream
<1>3. CASE UpstreamPush
  BY <1>3 DEF UpstreamPush
<1>4. CASE UpstreamPushSplit
  BY <1>4 DEF UpstreamPushSplit
<1> QED
  BY <1>1, <1>2, <1>3, <1>4

LEMMA NoRunIsRun == NoRun \in Run /\ NoDb \in Db
<1>1. NoDb \in Db
  BY UpstreamAssumption DEF UpstreamAssumption, NoDb, Db, Commits
<1>2. NoMirror \in [mono : Commits, split : Commits]
  BY UpstreamAssumption DEF UpstreamAssumption, NoMirror, Commits
<1> QED
  BY <1>1, <1>2, UpstreamAssumption DEF UpstreamAssumption, NoRun, Run, Points, Commits

LEMMA DestinationType == \A i \in {1, 2} : DestinationAt(i) \in {"mono", "split"}
<1>1. CASE Declared = MonoThenSplit
  BY <1>1 DEF DestinationAt, MonoThenSplit
<1>2. CASE Declared = SplitThenMono
  BY <1>2 DEF DestinationAt, SplitThenMono
<1> QED
  BY <1>1, <1>2, UpstreamAssumption DEF UpstreamAssumption

\* What a run becomes is a run, as long as it is one of these; the remote
\* changes in the two pushes.
LEMMA TypeStep ==
  ASSUME TypeOK, NEW a \in Agent, Step(a)
  PROVE  TypeOK'
<1>h. /\ run \in [Agent -> Run] /\ run[a] \in Run
      /\ remote \in [mtdb : Db, branch : Commits]
      /\ usrc \in Commits /\ upub \in Commits /\ usplit \in Commits /\ dsrc \in Commits
  BY DEF TypeOK
<1>u. UNCHANGED <<usrc, upub, usplit, dsrc>>
  BY DEF Step, Start, SetupUpstream, FetchFirst, FetchSecond, Retry, Merge,
         SyncFails, PushMtDb, Generate, NoWork, Push, Rejected, upstream
<1>s. SUFFICES run' \in [Agent -> Run] /\ remote' \in [mtdb : Db, branch : Commits]
  BY <1>h, <1>u, <1>s DEF TypeOK
<1>1. CASE Start(a)
  BY <1>h, <1>1, NoRunIsRun, UpstreamAssumption DEF UpstreamAssumption, Start, NoRun, Run, Points
<1>2. CASE SetupUpstream(a)
  BY <1>h, <1>2 DEF SetupUpstream, Run, Points
<1>3. CASE FetchFirst(a)
  BY <1>h, <1>3, DestinationType DEF FetchFirst, Fetched, Run, Points
<1>4. CASE FetchSecond(a)
  BY <1>h, <1>4, DestinationType DEF FetchSecond, Fetched, Run, Points
<1>5. CASE Retry(a)
  <2>1. run[a].retries \in Nat /\ run[a].retries > 0
    BY <1>h, <1>5 DEF Retry, Run
  <2>2. run[a].retries - 1 \in Nat
    BY <2>1
  <2> QED
    BY <1>h, <1>5, <2>2 DEF Retry, Run, Points
<1>6. CASE Merge(a)
  <2>1. Merged(a) \in Commits /\ 0 \in Commits
    BY <1>h, UpstreamAssumption DEF UpstreamAssumption, Merged, Run, Commits
  <2>2. [run[a].db EXCEPT !.merged = Merged(a)] \in Db
    BY <1>h, <2>1 DEF Run, Db
  <2>3. [run[a] EXCEPT !.db.merged = Merged(a), !.mirror = NoMirror,
                       !.useen = 0, !.at = "push_mtdb"] \in Run
    BY <1>h, <2>1, <2>2 DEF Run, Points, NoMirror
  <2> QED
    BY <1>h, <1>6, <2>3 DEF Merge
<1>7. CASE SyncFails(a) \/ NoWork(a) \/ Rejected(a)
  BY <1>h, <1>7, NoRunIsRun DEF SyncFails, NoWork, Rejected, Error
<1>8. CASE PushMtDb(a)
  BY <1>h, <1>8 DEF PushMtDb, Run, Points
<1>9. CASE Generate(a)
  <2>1. run[a].dseen \in 0 .. MaxCommits /\ run[a].db.own \in SUBSET (1 .. MaxCommits)
    BY <1>h DEF Run, Db, Commits
  <2>2. run[a].db.own \cup (1 .. run[a].dseen \ Known(run[a].db)) \in SUBSET (1 .. MaxCommits)
    BY <2>1, UpstreamAssumption DEF UpstreamAssumption
  <2> QED
    BY <1>h, <1>9, <2>2 DEF Generate, Run, Db, Points
<1>10. CASE Push(a)
  BY <1>h, <1>10, NoRunIsRun DEF Push, Error, Run
<1> QED
  BY <1>1, <1>2, <1>3, <1>4, <1>5, <1>6, <1>7, <1>8, <1>9, <1>10 DEF Step

LEMMA TypeNext == TypeOK /\ [Next]_vars => TypeOK'
<1> SUFFICES ASSUME TypeOK, [Next]_vars PROVE TypeOK'
  OBVIOUS
<1>1. CASE UNCHANGED vars
  BY <1>1 DEF vars, TypeOK
<1>2. CASE Next
  BY <1>2, TypeSources, TypeStep DEF Next
<1> QED
  BY <1>1, <1>2

\* Sources, destinations and runs have their types in every state.
THEOREM TypeCorrect == Spec => []TypeOK
  BY TypeInit, TypeNext, PTL DEF Spec

-----------------------------------------------------------------------------
(***************************************************************************)
(* The inductive invariant.                                                *)
(***************************************************************************)
\* Nothing is published before it is committed, nor named by mt-split before
\* it is published.
InOrder == usplit <= upub /\ upub <= usrc /\ dsrc <= usrc

\* The downstream has translated nothing of the upstream.
NothingOwn ==
  /\ remote.mtdb.own = {}
  /\ \A a \in Agent : run[a].lease.own = {} /\ run[a].db.own = {}

\* What a run has seen: its source is behind the upstream's, the mirror of
\* mt-split behind the monorepo's, and its source behind what it merged.
Behind(r) ==
  /\ r.at = "setup_upstream" => r.dseen <= usrc
  /\ r.at \in {"fetch_first", "fetch_second", "check"} => r.dseen <= r.useen
  /\ r.at = "fetch_second" => r.mirror.split <= upub
  /\ r.at = "check" => r.mirror.split <= r.mirror.mono
  /\ r.at \in {"push_mtdb", "generate", "push"} => r.dseen <= r.db.merged

RunsBehind == \A a \in Agent : Behind(run[a])

IInv == TypeOK /\ InOrder /\ NothingOwn /\ RunsBehind

LEMMA InvInit == Init => IInv
<1>1. Init => InOrder
  BY DEF Init, InOrder
<1>2. Init => NothingOwn
  BY DEF Init, NothingOwn, NoRun, NoDb
<1>3. Init => RunsBehind
  <2>1. NoRun.at = "idle"
    BY DEF NoRun
  <2>2. Behind(NoRun)
    BY <2>1 DEF Behind
  <2> QED
    BY <2>2 DEF Init, RunsBehind
<1> QED
  BY TypeInit, <1>1, <1>2, <1>3 DEF IInv

\* The numbers only grow, so that what a run has seen stays behind them.
LEMMA InvSources ==
  ASSUME IInv, Commit \/ MergeSource \/ UpstreamPush \/ UpstreamPushSplit
  PROVE  IInv'
<1> USE UpstreamAssumption DEF UpstreamAssumption, IInv
<1>1. TypeOK'
  BY TypeSources
<1>2. InOrder' /\ usrc <= usrc' /\ upub <= upub' /\ UNCHANGED <<remote, run>>
  BY DEF InOrder, TypeOK, Commits, Commit, MergeSource, UpstreamPush, UpstreamPushSplit, upstream
<1>3. NothingOwn'
  BY <1>2 DEF NothingOwn
<1>4. RunsBehind'
  <2>1. usrc \in Nat /\ upub \in Nat /\ usrc' \in Nat /\ upub' \in Nat
    BY <1>1 DEF TypeOK, Commits
  <2> SUFFICES ASSUME NEW b \in Agent PROVE Behind(run[b])'
    BY DEF RunsBehind
  <2>2. Behind(run[b]) /\ run[b] \in Run
    BY DEF RunsBehind, TypeOK
  <2>3. run[b].dseen \in Nat /\ run[b].mirror.split \in Nat
    BY <2>2 DEF Run, Commits
  <2>4. usrc <= usrc' /\ upub <= upub' /\ run' = run
    BY <1>2
  <2> QED
    BY <2>1, <2>2, <2>3, <2>4 DEF Behind
<1> QED
  BY <1>1, <1>2, <1>3, <1>4

\* A run goes on by itself.
LEMMA InvStep ==
  ASSUME IInv, NEW a \in Agent, Step(a), Declared = SplitThenMono
  PROVE  IInv'
<1> USE UpstreamAssumption DEF UpstreamAssumption
<1>t. TypeOK'
  BY TypeStep DEF IInv
<1>o. InOrder'
  BY DEF IInv, InOrder, Step, Start, SetupUpstream, FetchFirst, FetchSecond, Retry, Merge,
         SyncFails, PushMtDb, Generate, NoWork, Push, Rejected, upstream
<1>u. UNCHANGED <<usrc, upub>>
  BY DEF Step, Start, SetupUpstream, FetchFirst, FetchSecond, Retry, Merge,
         SyncFails, PushMtDb, Generate, NoWork, Push, Rejected, upstream
<1>h. /\ run \in [Agent -> Run] /\ run[a] \in Run /\ Behind(run[a])
      /\ usrc \in Nat /\ upub \in Nat /\ usplit \in Nat /\ dsrc \in Nat
      /\ usplit <= upub /\ dsrc <= usrc
      /\ remote.mtdb.own = {} /\ run[a].lease.own = {} /\ run[a].db.own = {}
  BY DEF IInv, TypeOK, RunsBehind, InOrder, NothingOwn, Commits
\* It is enough to look at this run and the remote.
<1>s. SUFFICES /\ \A b \in Agent \ {a} : run'[b] = run[b]
               /\ Behind(run'[a]) /\ run'[a].lease.own = {} /\ run'[a].db.own = {}
               /\ remote'.mtdb.own = {}
  <2>1. RunsBehind'
    BY <1>u, <1>s DEF RunsBehind, Behind, IInv
  <2>2. NothingOwn'
    BY <1>s DEF NothingOwn, IInv
  <2> QED
    BY <1>t, <1>o, <2>1, <2>2 DEF IInv
<1> USE <1>h DEF At, Behind, Run, Db, Commits
<1>n. Behind(NoRun) /\ NoRun.lease.own = {} /\ NoRun.db.own = {}
  BY DEF NoRun, NoDb
<1>1. CASE Start(a)
  BY <1>1 DEF Start, NoRun
<1>2. CASE SetupUpstream(a)
  BY <1>2 DEF SetupUpstream
<1>3. CASE FetchFirst(a)
  BY <1>3 DEF FetchFirst, Fetched, DestinationAt, SplitThenMono
<1>4. CASE FetchSecond(a)
  BY <1>4 DEF FetchSecond, Fetched, DestinationAt, SplitThenMono
<1>5. CASE Retry(a)
  BY <1>5 DEF Retry
<1>6. CASE Merge(a)
  <2>1. run[a].dseen <= run[a].mirror.mono
    BY <1>6 DEF Merge, Work
  <2> QED
    BY <1>6, <2>1 DEF Merge, Merged
<1>7. CASE SyncFails(a) \/ NoWork(a) \/ Rejected(a)
  BY <1>7, <1>n DEF SyncFails, NoWork, Rejected, Error
<1>8. CASE PushMtDb(a)
  <2>1. run[a].dseen <= run[a].db.merged
    BY <1>8 DEF PushMtDb
  <2> QED
    BY <1>8, <2>1 DEF PushMtDb
<1>9. CASE Generate(a)
  <2>1. run[a].dseen \in Nat /\ run[a].db.merged \in Nat /\ run[a].dseen <= run[a].db.merged
    BY <1>9 DEF Generate
  <2>2. 1 .. run[a].dseen \ Known(run[a].db) = {}
    BY ONLY <2>1 DEF Known
  <2> QED
    BY <1>9, <2>1, <2>2 DEF Generate
<1>10. CASE Push(a)
  BY <1>10, <1>n DEF Push, Error
<1> QED
  BY <1>1, <1>2, <1>3, <1>4, <1>5, <1>6, <1>7, <1>8, <1>9, <1>10 DEF Step

LEMMA InvNext == Declared = SplitThenMono => (IInv /\ [Next]_vars => IInv')
<1> SUFFICES ASSUME Declared = SplitThenMono, IInv, [Next]_vars PROVE IInv'
  OBVIOUS
<1>1. CASE UNCHANGED vars
  BY <1>1 DEF vars, IInv, TypeOK, InOrder, NothingOwn, RunsBehind, Behind
<1>2. CASE Next
  BY <1>2, InvSources, InvStep DEF Next
<1> QED
  BY <1>1, <1>2

\* If mt-split is fetched before the monorepo, the downstream never publishes
\* a translation of its own of a commit that the upstream translates.
THEOREM TranslatedOnceIfSplitFirst ==
  ASSUME Declared = SplitThenMono
  PROVE  Spec => []TranslatedOnce
<1>1. IInv => TranslatedOnce
  BY DEF IInv, NothingOwn, TranslatedOnce
<1>2. IInv /\ [Next]_vars => IInv'
  BY InvNext
<1> QED
  BY InvInit, <1>1, <1>2, PTL DEF Spec
=============================================================================
