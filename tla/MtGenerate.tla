------------------------------ MODULE MtGenerate ------------------------------
(***************************************************************************)
(* git apple-llvm mt generate: agents that publish a generated monorepo    *)
(* (git-apple-llvm-mt-generate, git-apple-llvm-mt-translate-ref and        *)
(* helpers/mt_db.sh).  An agent mirrors the two destinations and the split *)
(* repository, fetches the generated refs it starts from, translates the   *)
(* commits that are new, saves its mt-db, pushes branch and mt-db together *)
(* with a lease on the mt-db, and pushes the mt-split refs last.  Agents   *)
(* share nothing but the remotes, and any of them may be killed between    *)
(* two steps and run again on the refs it left.                            *)
(*                                                                         *)
(* The split commits form the line 1, 2, ... and a source branch is a      *)
(* prefix of it, so a number names a source head.  A monorepo commit is    *)
(* its whole history, the sequence of the agents that made it: a push      *)
(* fast-forwards when the old history is a prefix of the new one.  The     *)
(* mt-db is the sequence of the monorepo commits the split commits were    *)
(* translated to.  An empty history or a 0 is a ref that does not exist.   *)
(***************************************************************************)
EXTENDS Naturals, Sequences, SequencesExt

CONSTANTS
  Agent,       \* those who run mt generate
  Founder,     \* who generated the commits that are published at first
  Branch,      \* the branches
  Actions,     \* the "generate branch" lines of the mt-config, in order
  Modes,       \* the command lines in use
  MaxCommits,  \* bound: commits of each source branch
  Published,   \* commits of each branch that are published at first
  MaxKills,    \* bound: runs of each agent that are killed
  None, Bare   \* an mt-db ref that does not exist, or has no database yet

ASSUME GenerateAssumption ==
  /\ Founder \notin Agent
  /\ Actions \in Seq(Branch)
  /\ MaxCommits \in [Branch -> Nat \ {0}]
  /\ Published \in Nat /\ \A b \in Branch : Published <= MaxCommits[b]
  /\ MaxKills \in Nat
  /\ Modes \subseteq [fetch : BOOLEAN, generate : BOOLEAN, push : BOOLEAN]
  /\ None # Bare /\ {None, Bare} \cap Seq(Agent \cup {Founder}) = {}

\* The modes: no option, --no-push and --push-only.
Normal   == [fetch |-> TRUE, generate |-> TRUE, push |-> TRUE]
NoPush   == [Normal EXCEPT !.push = FALSE]
PushOnly == [fetch |-> FALSE, generate |-> FALSE, push |-> TRUE]

VARIABLES
  src,     \* src[b]: the source head of branch b
  remote,  \* the monorepo destination: mt-db and branches
  rsplit,  \* the splitref destination: mt-split of each branch
  local,   \* local[a]: the refs of agent a, kept from run to run
  run,     \* run[a]: the run of agent a
  kills    \* kills[a]: its runs that were killed

vars == <<src, remote, rsplit, local, run, kills>>

Nowhere == [b \in Branch |-> 0]
NoRun ==
  [at |-> "idle", mode |-> Normal, split |-> Nowhere, seen |-> Nowhere,
   mono |-> [mtdb |-> None, target |-> [b \in Branch |-> <<>>]],
   lease |-> None, db |-> <<>>, next |-> 1]

Init ==
  /\ src = [b \in Branch |-> IF Published = 0 THEN 1 ELSE Published]
  /\ LET old == [c \in 1 .. Published |-> Founder]
     IN remote = [mtdb |-> IF Published = 0 THEN None ELSE old,
                  target |-> [b \in Branch |-> old]]
  /\ rsplit = [b \in Branch |-> Published]
  /\ local = [a \in Agent |-> [mtdb |-> None, split |-> Nowhere,
                               target |-> [b \in Branch |-> <<>>]]]
  /\ run = [a \in Agent |-> NoRun]
  /\ kills = [a \in Agent |-> 0]

\* The split repository's branch moves.
Commit(b) ==
  /\ src[b] < MaxCommits[b]
  /\ src' = [src EXCEPT ![b] = @ + 1]
  /\ UNCHANGED <<remote, rsplit, local, run, kills>>

At(a, pc) == run[a].at = pc
Goto(a, pc) == run' = [run EXCEPT ![a].at = pc]
Error(a) == run' = [run EXCEPT ![a] = NoRun]
\* The branch that is being worked on.
B(a) == Actions[run[a].next]

(***************************************************************************)
(* mt_setup: the remotes are fetched one after the other, in the reverse   *)
(* of the order they are declared: destinations first, sources last.       *)
(***************************************************************************)
Start(a, m) ==
  /\ At(a, "idle") \/ At(a, "done")
  /\ run' = [run EXCEPT ![a] = [NoRun EXCEPT
                !.mode = m, !.split = rsplit, !.at = "setup_mono"]]
  /\ UNCHANGED <<src, remote, rsplit, local, kills>>

SetupMono(a) ==
  /\ At(a, "setup_mono")
  /\ run' = [run EXCEPT ![a].mono = remote, ![a].at = "setup_sources"]
  /\ UNCHANGED <<src, remote, rsplit, local, kills>>

\* fetch_destination_mtdb: --force, when the destination has one.
ForceFetched(theirs, mine) == IF theirs = None THEN mine ELSE theirs

SetupSources(a) ==
  /\ At(a, "setup_sources")
  /\ run' = [run EXCEPT ![a].seen = src, ![a].lease = run[a].mono.mtdb,
                        ![a].at = "init"]
  /\ local' = [local EXCEPT ![a].mtdb = ForceFetched(run[a].mono.mtdb, @)]
  /\ UNCHANGED <<src, remote, rsplit, kills>>

(***************************************************************************)
(* mt_db_init.                                                             *)
(***************************************************************************)
\* The worktree is reset to the ref.
InitReset(a) ==
  /\ At(a, "init") /\ local[a].mtdb \notin {None, Bare}
  /\ run' = [run EXCEPT ![a].db = local[a].mtdb, ![a].at = "branch"]
  /\ UNCHANGED <<src, remote, rsplit, local, kills>>

\* A mutant of InitMakeRef: the ref is created with the databases.
InitMakeRefLater(a) ==
  /\ At(a, "init") /\ local[a].mtdb = None
  /\ Goto(a, "make_worktree")
  /\ UNCHANGED <<src, remote, rsplit, local, kills>>

\* mt_db_make_ref creates the ref with an empty commit ...
InitMakeRef(a) ==
  /\ At(a, "init") /\ local[a].mtdb = None
  /\ Goto(a, "make_worktree")
  /\ local' = [local EXCEPT ![a].mtdb = Bare]
  /\ UNCHANGED <<src, remote, rsplit, kills>>

\* ... and mt_db_make_worktree adds the commit with the databases.
InitMakeWorktree(a) ==
  /\ At(a, "make_worktree")
  /\ run' = [run EXCEPT ![a].db = <<>>, ![a].at = "branch"]
  /\ local' = [local EXCEPT ![a].mtdb = <<>>]
  /\ UNCHANGED <<src, remote, rsplit, kills>>

\* "expected 2 commits": without it the run stops here.
InitOneCommit(a) ==
  /\ At(a, "init") /\ local[a].mtdb = Bare
  /\ Error(a)
  /\ UNCHANGED <<src, remote, rsplit, local, kills>>

(***************************************************************************)
(* mt_fetch_ref: the agent's refs are set to the destinations'.            *)
(***************************************************************************)
\* A mutant of Fetched: a ref that the agent has is not touched.
FetchedOnce(theirs, mine, missing) == IF mine = missing THEN theirs ELSE mine

\* mt_fetch_one_branch: a ref the destination lacks is left as it is.
Fetched(theirs, mine, missing) == IF theirs = missing THEN mine ELSE theirs

Fetch(a) ==
  /\ At(a, "branch") /\ run[a].next <= Len(Actions)
  /\ Goto(a, "check")
  /\ local' = IF run[a].mode.fetch
              THEN [local EXCEPT
                     ![a].target[B(a)] = Fetched(run[a].mono.target[B(a)], @, <<>>),
                     ![a].split[B(a)] = Fetched(run[a].split[B(a)], @, 0)]
              ELSE local
  /\ UNCHANGED <<src, remote, rsplit, kills>>

AllDone(a) ==
  /\ At(a, "branch") /\ run[a].next > Len(Actions)
  /\ run' = [run EXCEPT ![a] = [NoRun EXCEPT
                !.mode = run[a].mode, !.seen = run[a].seen, !.at = "done"]]
  /\ UNCHANGED <<src, remote, rsplit, local, kills>>

(***************************************************************************)
(* mt_generate_ref.                                                        *)
(***************************************************************************)
Work(a, b) == local[a].target[b] = <<>> \/ local[a].split[b] # run[a].seen[b]

NextBranch(a) == run' = [run EXCEPT ![a].next = @ + 1, ![a].at = "branch"]

\* No work: "Assume we don't have to push".
Check(a) ==
  /\ At(a, "check")
  /\ IF ~run[a].mode.generate THEN Goto(a, "push")
     ELSE IF Work(a, B(a)) THEN Goto(a, "translate") ELSE NextBranch(a)
  /\ UNCHANGED <<src, remote, rsplit, local, kills>>

\* A mutant of Interleaved: the commits since mt-split are made anew.
InterleavedAnew(a, db, b) ==
  [c \in 1 .. run[a].seen[b] |-> IF c <= local[a].split[b] THEN db[c] ELSE a]

\* split2mono interleave-commits: translate the source commits that are not.
Interleaved(a, db, b) ==
  IF run[a].seen[b] <= Len(db) THEN db
  ELSE [c \in 1 .. run[a].seen[b] |-> IF c <= Len(db) THEN db[c] ELSE a]

\* The refs are updated together; the databases are files in the worktree.
Translate(a) ==
  LET b == B(a) db == Interleaved(a, run[a].db, b)
  IN /\ At(a, "translate") /\ local[a].split[b] <= Len(run[a].db)
     /\ run' = [run EXCEPT ![a].db = db, ![a].at = "save"]
     /\ local' = [local EXCEPT ![a].target[b] = SubSeq(db, 1, run[a].seen[b]),
                               ![a].split[b] = run[a].seen[b]]
     /\ UNCHANGED <<src, remote, rsplit, kills>>

\* The commit of mt-split is not in the mt-db.
HeadNotTranslated(a) ==
  /\ At(a, "translate") /\ local[a].split[B(a)] > Len(run[a].db)
  /\ Error(a)
  /\ UNCHANGED <<src, remote, rsplit, local, kills>>

\* mt_db_save.
Save(a) ==
  /\ At(a, "save")
  /\ local' = [local EXCEPT ![a].mtdb = run[a].db]
  /\ IF run[a].mode.push THEN Goto(a, "push") ELSE NextBranch(a)
  /\ UNCHANGED <<src, remote, rsplit, kills>>

(***************************************************************************)
(* mt_push_ref: to the mirror, and from there to the remote, atomically.   *)
(***************************************************************************)
FastForward(old, new) == new # <<>> /\ IsPrefix(old, new)

\* A mutant of Accepted: the mt-db is pushed by force, without a lease.
AcceptedUnleased(a, b) == FastForward(remote.target[b], local[a].target[b])

\* --force-with-lease on the mt-db; both branches must fast-forward.
Accepted(a, b) ==
  /\ remote.mtdb = run[a].lease
  /\ FastForward(run[a].mono.target[b], local[a].target[b])
  /\ FastForward(remote.target[b], local[a].target[b])

Push(a) ==
  LET b == B(a)
  IN /\ At(a, "push") /\ Accepted(a, b)
     /\ remote' = [mtdb |-> local[a].mtdb,
                   target |-> [remote.target EXCEPT ![b] = local[a].target[b]]]
     /\ run' = [run EXCEPT ![a].lease = local[a].mtdb, ![a].at = "push_split"]
     /\ UNCHANGED <<src, rsplit, local, kills>>

\* A mutant of PushRejected: the error of the push is ignored.
PushIgnored(a) ==
  /\ At(a, "push") /\ ~Accepted(a, B(a))
  /\ Goto(a, "push_split")
  /\ UNCHANGED <<src, remote, rsplit, local, kills>>

PushRejected(a) ==
  /\ At(a, "push") /\ ~Accepted(a, B(a))
  /\ Error(a)
  /\ UNCHANGED <<src, remote, rsplit, local, kills>>

\* mt_push_splitrefs; a ref the agent does not have is not pushed.
SplitForward(a, b) == run[a].split[b] <= local[a].split[b] /\ rsplit[b] <= local[a].split[b]

PushSplit(a) ==
  LET b == B(a)
  IN /\ At(a, "push_split")
     /\ local[a].split[b] = 0 \/ SplitForward(a, b)
     /\ rsplit' = IF local[a].split[b] = 0 THEN rsplit
                  ELSE [rsplit EXCEPT ![b] = local[a].split[b]]
     /\ NextBranch(a)
     /\ UNCHANGED <<src, remote, local, kills>>

PushSplitRejected(a) ==
  LET b == B(a)
  IN /\ At(a, "push_split")
     /\ local[a].split[b] # 0 /\ ~SplitForward(a, b)
     /\ Error(a)
     /\ UNCHANGED <<src, remote, rsplit, local, kills>>

\* The run is killed, or fails, between two of its steps.
Kill(a) ==
  /\ kills[a] < MaxKills
  /\ ~At(a, "idle") /\ ~At(a, "done")
  /\ kills' = [kills EXCEPT ![a] = @ + 1]
  /\ Error(a)
  /\ UNCHANGED <<src, remote, rsplit, local>>

Step(a) ==
  \/ \E m \in Modes : Start(a, m)
  \/ SetupMono(a) \/ SetupSources(a)
  \/ InitReset(a) \/ InitMakeRef(a) \/ InitMakeWorktree(a) \/ InitOneCommit(a)
  \/ Fetch(a) \/ AllDone(a)
  \/ Check(a) \/ Translate(a) \/ HeadNotTranslated(a) \/ Save(a)
  \/ Push(a) \/ PushRejected(a) \/ PushSplit(a) \/ PushSplitRejected(a)

Next ==
  \/ \E b \in Branch : Commit(b)
  \/ \E a \in Agent : Step(a) \/ Kill(a)

\* Every agent is run again and again, and a run goes on until it ends.
Fairness == \A a \in Agent : WF_vars(Step(a))

Spec == Init /\ [][Next]_vars /\ Fairness

-----------------------------------------------------------------------------
Maker == Agent \cup {Founder}
IsHeads(h) == h \in [Branch -> Nat] /\ \A b \in Branch : h[b] <= MaxCommits[b]
\* A history: a sequence of makers, one per commit.
History == Seq(Maker)
Db == {None, Bare} \cup History
Destination == [mtdb : Db \ {Bare}, target : [Branch -> History]]

Points == {"idle", "setup_mono", "setup_sources", "init",
           "make_worktree", "branch", "check", "translate", "save", "push",
           "push_split", "done"}

IsLocal(l) ==
  /\ DOMAIN l = {"mtdb", "split", "target"}
  /\ l.mtdb \in Db /\ l.target \in [Branch -> History]
  /\ IsHeads(l.split)

IsRun(r) ==
  /\ DOMAIN r = DOMAIN NoRun
  /\ r.at \in Points /\ r.mode \in Modes \cup {Normal}
  /\ IsHeads(r.split) /\ IsHeads(r.seen)
  /\ r.mono \in Destination
  /\ r.lease \in Db /\ r.db \in History
  /\ r.next \in 1 .. Len(Actions) + 1

\* The types of the variables; only an agent's own mt-db can be without a
\* database, and only while it is made, or after that failed.
TypeOK ==
  /\ IsHeads(src) /\ IsHeads(rsplit) /\ kills \in [Agent -> 0 .. MaxKills]
  /\ remote \in Destination
  /\ DOMAIN local = Agent /\ DOMAIN run = Agent
  /\ \A a \in Agent :
       /\ IsLocal(local[a]) /\ IsRun(run[a])
       /\ At(a, "make_worktree") => local[a].mtdb = Bare

Mapping == IF remote.mtdb = None THEN <<>> ELSE remote.mtdb

\* Whatever is published is in the published mt-db, and as the commit it was
\* published as: no agent can translate a published commit a second time.
PublishedIsMapped == \A b \in Branch : IsPrefix(remote.target[b], Mapping)

\* mt-split is pushed last, and is never ahead of the branch it stands for:
\* an agent that trusts it does not skip a commit that is not published.
SplitRefsBehind == \A b \in Branch : rsplit[b] <= Len(remote.target[b])

\* A run that ends without an error leaves every source commit it has seen
\* published, its own work or another agent's.
CompletedRunPublishes ==
  \A a \in Agent : At(a, "done") /\ run[a].mode = Normal =>
    \A b \in Branch : run[a].seen[b] <= Len(remote.target[b])

\* Every split commit is translated once, whichever agents race for it, lose
\* the race, or are killed: what is published implements TranslateOnce.
Abstract == INSTANCE TranslateOnce WITH mono <- Mapping, published <- remote.target
ImplementsTranslateOnce == Abstract!Spec

\* Once the sources are quiet they are published.  Where the branches and
\* their mt-split refs are published already, this holds whoever is killed and
\* when: every run fetches them over what the run before it left.
EventuallyPublished == \A b \in Branch : <>[](Len(remote.target[b]) = src[b])

\* So are their mt-split refs, which the agents of a downstream wait for.
SplitRefsCatchUp == \A b \in Branch : <>[](rsplit[b] = src[b])

\* The runs of agent a do nothing more for branch b, or fail: its mt-db is the
\* empty commit, or its mt-split is not in its mt-db, or there is "no work".
Stuck(a, b) ==
  LET mtdb == local[a].mtdb split == local[a].split[b]
  IN \/ mtdb = Bare
     \/ mtdb \notin {None, Bare} /\ split > Len(mtdb)
     \/ split = src[b]

\* The branch has been pushed for the first time, and its mt-split ref has not:
\* whoever lost that race fetches the branch, and keeps its own mt-split.
HalfPublished(b) == remote.target[b] # <<>> /\ rsplit[b] = 0

\* A new monorepo has no refs to fetch over what a run left.  It is published,
\* once the sources are quiet, unless every agent is stuck, each by a kill: its
\* own, or the kill that leaves the branch without an mt-split ref.
PublishedUnlessStuck ==
  \A b \in Branch :
    <>[](\/ Len(remote.target[b]) = src[b]
         \/ \A a \in Agent : Stuck(a, b) /\ (kills[a] > 0 \/ HalfPublished(b)))
=============================================================================
