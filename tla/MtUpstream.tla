------------------------------ MODULE MtUpstream ------------------------------
(***************************************************************************)
(* A downstream of mt generate and its upstream (sync_destinations,        *)
(* sync_upstream_before_generate, fetch_destinations and the push          *)
(* functions of git-apple-llvm-mt-generate, helpers/mt_db.sh).  The        *)
(* upstream's agents translate the upstream's split commits and publish    *)
(* them; what they do among themselves is MtGenerate, and here it is two   *)
(* steps, the push of monorepo and mt-db and the push of the mt-split refs.*)
(* A downstream agent must translate none of those commits itself: before  *)
(* it generates it waits until the upstream is up to date, asking the      *)
(* upstream's own check for work, and merges the upstream's mt-db.         *)
(*                                                                         *)
(* The upstream's split commits are the line 1, 2, ...; a number names a   *)
(* head.  The downstream's source is a line of merges from the upstream,   *)
(* and a number is the last upstream commit merged: its own commits, which *)
(* it alone translates, are left out.  An mt-db is two sets: the upstream  *)
(* commits merged from the upstream's mt-db, always a prefix, and those    *)
(* translated here.                                                        *)
(***************************************************************************)
EXTENDS Naturals

CONSTANTS
  Agent,        \* those who run mt generate for the downstream
  Declared,     \* the upstream's destinations, in the order of its mt-config
  MaxCommits,   \* bound: commits of the upstream's source
  Retries       \* Retries[a]: a's --sync-destinations-retries

MonoThenSplit == <<"mono", "split">>
SplitThenMono == <<"split", "mono">>

\* What the constants must be.
ASSUME UpstreamAssumption ==
  /\ Declared \in {MonoThenSplit, SplitThenMono}
  /\ MaxCommits \in Nat \ {0}
  /\ Retries \in [Agent -> Nat]

VARIABLES
  usrc,    \* the upstream's source head
  upub,    \* its monorepo destination: the commits published, with their mt-db
  usplit,  \* its splitref destination: mt-split
  dsrc,    \* the downstream's source: the last upstream commit it contains
  remote,  \* the downstream's monorepo destination: branch and mt-db
  run      \* run[a]: the run of agent a

upstream == <<usrc, upub, usplit>>
vars == <<usrc, upub, usplit, dsrc, remote, run>>

NoDb == [merged |-> 0, own |-> {}]
\* The mirrors of the upstream's destinations are fetched anew by every run.
NoMirror == [mono |-> 0, split |-> 0]
NoRun ==
  [at |-> "idle", dseen |-> 0, useen |-> 0, mirror |-> NoMirror,
   lease |-> NoDb, db |-> NoDb, branch |-> 0, retries |-> 0]

Init ==
  /\ usrc = 1 /\ upub = 0 /\ usplit = 0
  /\ dsrc = 0
  /\ remote = [mtdb |-> NoDb, branch |-> 0]
  /\ run = [a \in Agent |-> NoRun]

Known(d) == 1 .. d.merged \cup d.own

(***************************************************************************)
(* The sources, and the upstream's agents.                                 *)
(***************************************************************************)
Commit ==
  /\ usrc < MaxCommits
  /\ usrc' = usrc + 1
  /\ UNCHANGED <<upub, usplit, dsrc, remote, run>>

\* The downstream's source merges some of the upstream's.
MergeSource ==
  /\ \E n \in dsrc + 1 .. usrc : dsrc' = n
  /\ UNCHANGED <<upstream, remote, run>>

\* mt_push_ref of an upstream agent: the commits it saw, branch and mt-db.
UpstreamPush ==
  /\ \E n \in upub + 1 .. usrc : upub' = n
  /\ UNCHANGED <<usrc, usplit, dsrc, remote, run>>

\* mt_push_splitrefs, by the same run or, when that was killed, a later one.
UpstreamPushSplit ==
  /\ usplit < upub
  /\ usplit' = upub
  /\ UNCHANGED <<usrc, upub, dsrc, remote, run>>

-----------------------------------------------------------------------------
At(a, pc) == run[a].at = pc
Goto(a, pc) == run' = [run EXCEPT ![a].at = pc]
Error(a) == run' = [run EXCEPT ![a] = NoRun]

(***************************************************************************)
(* mt_setup: in reverse, so that everything of the downstream is fetched   *)
(* before the upstream's sources.  The upstream's destinations it fetches  *)
(* are fetched again before they are read.                                 *)
(***************************************************************************)
Start(a) ==
  /\ At(a, "idle")
  /\ run' = [run EXCEPT ![a] = [NoRun EXCEPT
                !.at = "setup_upstream", !.dseen = dsrc, !.branch = remote.branch,
                !.lease = remote.mtdb, !.db = remote.mtdb,
                !.retries = Retries[a]]]
  /\ UNCHANGED <<upstream, dsrc, remote>>

SetupUpstream(a) ==
  /\ At(a, "setup_upstream")
  /\ run' = [run EXCEPT ![a].useen = usrc, ![a].at = "fetch_first"]
  /\ UNCHANGED <<upstream, dsrc, remote>>

(***************************************************************************)
(* sync_destinations.                                                      *)
(***************************************************************************)
\* mt_setup_repo: the mirror of a destination is updated.
Fetched(a, r, pc) ==
  run' = [run EXCEPT ![a].mirror[r] = IF r = "mono" THEN upub ELSE usplit,
                     ![a].at = pc]

\* A mutant of DestinationAt: the last one declared is fetched first.
DestinationReversed(i) == Declared[3 - i]

\* fetch_destinations goes through the repositories as they are declared.
DestinationAt(i) == Declared[i]

FetchFirst(a) ==
  /\ At(a, "fetch_first")
  /\ Fetched(a, DestinationAt(1), "fetch_second")
  /\ UNCHANGED <<upstream, dsrc, remote>>

FetchSecond(a) ==
  /\ At(a, "fetch_second")
  /\ Fetched(a, DestinationAt(2), "check")
  /\ UNCHANGED <<upstream, dsrc, remote>>

\* A mutant of Work: mt-split is compared with the downstream's source.
WorkDownstream(a) ==
  run[a].mirror.mono = 0 \/ run[a].mirror.split # run[a].dseen

\* generate_actions with --check-for-work, for the upstream: its branch does
\* not exist, or mt-split is not at the source.
Work(a) ==
  run[a].mirror.mono = 0 \/ run[a].mirror.split # run[a].useen

\* A mutant of Retry: the retries are not counted.
RetryForever(a) ==
  /\ At(a, "check") /\ Work(a)
  /\ run' = [run EXCEPT ![a].retries = @ - 1, ![a].at = "fetch_first"]
  /\ UNCHANGED <<upstream, dsrc, remote>>

\* The sources are not fetched again.
Retry(a) ==
  /\ At(a, "check") /\ Work(a) /\ run[a].retries > 0
  /\ run' = [run EXCEPT ![a].retries = @ - 1, ![a].at = "fetch_first"]
  /\ UNCHANGED <<upstream, dsrc, remote>>

(***************************************************************************)
(* sync_upstream_before_generate: the mt-db comes from the mirror.         *)
(***************************************************************************)
\* split2mono upstream: a commit is mapped to another one, or the mt-db has
\* fewer commits than were merged.
Refused(a) ==
  \/ run[a].db.own \cap 1 .. run[a].mirror.mono # {}
  \/ run[a].mirror.mono < run[a].db.merged

Merged(a) == run[a].mirror.mono

Merge(a) ==
  /\ At(a, "check") /\ ~Work(a) /\ ~Refused(a)
  /\ run' = [run EXCEPT ![a].db.merged = Merged(a), ![a].mirror = NoMirror,
                        ![a].useen = 0, ![a].at = "push_mtdb"]
  /\ UNCHANGED <<upstream, dsrc, remote>>

\* "too many retries for --sync-destinations, giving up", or the merge fails.
SyncFails(a) ==
  /\ At(a, "check")
  /\ IF Work(a) THEN run[a].retries = 0 ELSE Refused(a)
  /\ Error(a)
  /\ UNCHANGED <<upstream, dsrc, remote>>

Leased(a) == remote.mtdb = run[a].lease

\* push_mtdb, with a lease; nothing is pushed when nothing was merged.
PushMtDb(a) ==
  /\ At(a, "push_mtdb")
  /\ run[a].db = run[a].lease \/ Leased(a)
  /\ remote' = IF run[a].db = run[a].lease THEN remote
               ELSE [remote EXCEPT !.mtdb = run[a].db]
  /\ run' = [run EXCEPT ![a].lease = run[a].db, ![a].at = "generate"]
  /\ UNCHANGED <<upstream, dsrc>>

\* translate-ref: whatever the mt-db does not know is translated.
Generate(a) ==
  /\ At(a, "generate") /\ run[a].branch < run[a].dseen
  /\ run' = [run EXCEPT
       ![a].db.own = @ \cup (1 .. run[a].dseen \ Known(run[a].db)),
       ![a].branch = run[a].dseen, ![a].at = "push"]
  /\ UNCHANGED <<upstream, dsrc, remote>>

NoWork(a) ==
  /\ At(a, "generate") /\ run[a].branch = run[a].dseen
  /\ Error(a)
  /\ UNCHANGED <<upstream, dsrc, remote>>

\* mt_push_ref; the branch must fast-forward.
Push(a) ==
  /\ At(a, "push") /\ Leased(a) /\ remote.branch <= run[a].branch
  /\ remote' = [mtdb |-> run[a].db, branch |-> run[a].branch]
  /\ Error(a)
  /\ UNCHANGED <<upstream, dsrc>>

Rejected(a) ==
  /\ \/ At(a, "push_mtdb") /\ run[a].db # run[a].lease /\ ~Leased(a)
     \/ At(a, "push") /\ ~(Leased(a) /\ remote.branch <= run[a].branch)
  /\ Error(a)
  /\ UNCHANGED <<upstream, dsrc, remote>>

Step(a) ==
  \/ Start(a) \/ SetupUpstream(a)
  \/ FetchFirst(a) \/ FetchSecond(a) \/ Retry(a)
  \/ Merge(a) \/ SyncFails(a) \/ PushMtDb(a)
  \/ Generate(a) \/ NoWork(a) \/ Push(a) \/ Rejected(a)

Next ==
  \/ Commit \/ MergeSource \/ UpstreamPush \/ UpstreamPushSplit
  \/ \E a \in Agent : Step(a)

\* The agents of both are run again and again, and a run goes on to its end.
Fairness ==
  /\ WF_vars(UpstreamPush) /\ WF_vars(UpstreamPushSplit)
  /\ \A a \in Agent : WF_vars(Step(a))

Spec == Init /\ [][Next]_vars /\ Fairness

-----------------------------------------------------------------------------
Commits == 0 .. MaxCommits
Db == [merged : Commits, own : SUBSET (1 .. MaxCommits)]
Points == {"idle", "setup_upstream", "fetch_first", "fetch_second", "check",
           "push_mtdb", "generate", "push"}
Run == [at : Points, dseen : Commits, useen : Commits,
        mirror : [mono : Commits, split : Commits],
        lease : Db, db : Db, branch : Commits, retries : Nat]

\* The types of the variables.
TypeOK ==
  /\ usrc \in Commits /\ upub \in Commits /\ usplit \in Commits /\ dsrc \in Commits
  /\ remote \in [mtdb : Db, branch : Commits]
  /\ run \in [Agent -> Run]

\* "It's vital that each split commit is only translated once to a monorepo
\* commit": none of the commits the upstream published is published by the
\* downstream as a commit of its own.
TranslatedOnce == remote.mtdb.own \cap 1 .. upub = {}

\* Once the sources are quiet, the downstream publishes: waiting for the
\* upstream, giving up and losing races do not go on for ever.
DownstreamCatchesUp == <>[](remote.branch = dsrc)
=============================================================================
