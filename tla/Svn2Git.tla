-------------------------------- MODULE Svn2Git --------------------------------
(***************************************************************************)
(* The svn2git database and the command that fills it (svn2git.cpp,        *)
(* git-apple-llvm-mt-llvm-svn2git-map, helpers/mt_llvm_svn2git.sh and      *)
(* bisect.sh, mt_generate_mapping).  The file has a slot for every SVN     *)
(* revision and no index: a revision is mapped if the file reaches beyond  *)
(* its slot and the slot is not zero.  Nothing tells a revision that was   *)
(* never mapped from one that was lost, and no record of what has been     *)
(* done is kept: the command searches the ancestors of a commit by         *)
(* bisection for the one where the mapped commits end, and maps the rest.  *)
(* That is right only as long as the ancestors of what is mapped are       *)
(* mapped, whatever ended the runs that mapped them.                       *)
(*                                                                         *)
(* Revisions 1 .. n are commits of a tree that parent gives: SVN has one   *)
(* sequence of revisions for all of its branches.                          *)
(***************************************************************************)
EXTENDS Naturals, Sequences, FiniteSetsExt

CONSTANTS
  MaxRev,    \* bound: revisions
  MaxFaults  \* bound: runs that are killed, cut short or lose a record

\* What the constants must be.
Svn2GitAssumption == MaxRev \in Nat /\ MaxFaults \in Nat

VARIABLES
  parent,  \* parent[r]: the revision r was made from, or 0
  mtdb,    \* the file as mt-db has it
  file,    \* the file in the worktree
  run,     \* the run of llvm-svn2git-map in progress
  faults

vars == <<parent, mtdb, file, run, faults>>

Revs == 1 .. Len(parent)
Tips == {r \in Revs : \A s \in Revs : parent[s] # r}
Line(r) ==
  LET line[s \in Revs] == (IF parent[s] = 0 THEN {} ELSE line[parent[s]]) \cup {s}
  IN  IF r = 0 THEN {} ELSE line[r]

NoRun == [at |-> "none", head |-> 0, todo |-> {}, buffer |-> 0]

\* svn2git create: the header and no slots.
Init ==
  /\ parent = <<>>
  /\ mtdb = <<>> /\ file = <<>>
  /\ run = NoRun
  /\ faults = 0

\* A mutant of Lookup: the last slot is taken to be beyond the end.
LookupShort(f, r) == r < Len(f) /\ f[r] # 0

\* main_lookup: offset + 20 > num_bytes, or all zeros.
Lookup(f, r) == r <= Len(f) /\ f[r] # 0

\* A mutant of Put: one record too far.
PutAfter(f, r) ==
  [i \in 1 .. Max({r + 1, Len(f)}) |-> IF i = r + 1 THEN r ELSE IF i <= Len(f) THEN f[i] ELSE 0]

\* insert_one_impl: what the file did not reach is a hole.
Put(f, r) ==
  [i \in 1 .. Max({r, Len(f)}) |-> IF i = r THEN r ELSE IF i <= Len(f) THEN f[i] ELSE 0]

\* A commit of llvm.org arrives.
Commit ==
  /\ Len(parent) < MaxRev
  /\ \E p \in {0} \cup Revs : parent' = Append(parent, p)
  /\ UNCHANGED <<mtdb, file, run, faults>>

\* mt_generate_mapping of a branch, and mt_llvm_svn2git_init: the worktree is
\* made anew from mt-db.  Nothing is done if the commit is mapped.
Start(h) ==
  /\ run.at = "none" /\ ~Lookup(mtdb, h)
  /\ file' = mtdb
  /\ run' = [NoRun EXCEPT !.at = "bisect", !.head = h]
  /\ UNCHANGED <<parent, mtdb, faults>>

\* What bisect can end with: a mapped commit after which the next one is not
\* mapped, or nothing if none of those it tries is mapped.
Boundaries(h) ==
  {k \in Line(h) \ {h} :
     /\ Lookup(file, k)
     /\ \A c \in Line(h) : parent[c] = k => ~Lookup(file, c)}
  \cup {0 : k \in {c \in Line(h) : parent[c] = 0 /\ ~Lookup(file, c)}}

\* What git rev-list lists, from the boundary to the commit.
RevList(h, k) == Line(h) \ Line(k)

\* A mutant of NextListed: without --reverse.
NextListedNewest(todo) == Max(todo)

\* git rev-list --reverse: the oldest comes first.
NextListed(todo) == Min(todo)

Bisect ==
  /\ run.at = "bisect"
  /\ \E k \in Boundaries(run.head) :
       run' = [run EXCEPT !.at = "insert", !.todo = RevList(run.head, k)]
  /\ UNCHANGED <<parent, mtdb, file, faults>>

\* insert_bulk: fseek writes out the record before, which was buffered.
Insert ==
  /\ run.at = "insert" /\ run.todo # {}
  /\ file' = IF run.buffer = 0 THEN file ELSE Put(file, run.buffer)
  /\ run' = [run EXCEPT !.buffer = NextListed(run.todo), !.todo = @ \ {NextListed(run.todo)}]
  /\ UNCHANGED <<parent, mtdb, faults>>

\* fclose writes out the last record, and mt_db_save commits the file.
Save ==
  /\ run.at = "insert" /\ run.todo = {}
  /\ LET f == IF run.buffer = 0 THEN file ELSE Put(file, run.buffer)
     IN  file' = f /\ mtdb' = f
  /\ run' = NoRun
  /\ UNCHANGED <<parent, faults>>

(***************************************************************************)
(* Faults.  The status of a pipeline is that of its last command, and the  *)
(* destructor that closes the file does not look at the result.            *)
(***************************************************************************)
\* git rev-list or the script between dies: the input ends, the status is 0.
CutShort ==
  /\ faults < MaxFaults
  /\ run.at = "insert" /\ run.todo # {}
  /\ run' = [run EXCEPT !.todo = {}]
  /\ faults' = faults + 1
  /\ UNCHANGED <<parent, mtdb, file>>

\* The last record cannot be written out.
SaveWithoutLast ==
  /\ faults < MaxFaults
  /\ run.at = "insert" /\ run.todo = {}
  /\ mtdb' = file
  /\ run' = NoRun
  /\ faults' = faults + 1
  /\ UNCHANGED <<parent, file>>

Kill ==
  /\ faults < MaxFaults
  /\ run.at # "none"
  /\ run' = NoRun
  /\ faults' = faults + 1
  /\ UNCHANGED <<parent, mtdb, file>>

Run == Bisect \/ Insert \/ Save
StartAny == \E h \in Tips : Start(h)

Next == Commit \/ StartAny \/ Run \/ CutShort \/ SaveWithoutLast \/ Kill

\* mt generate is run again and again, for whichever branch is not mapped.
Fairness == WF_vars(Run) /\ WF_vars(StartAny)

Spec == Init /\ [][Next]_vars /\ Fairness

-----------------------------------------------------------------------------
IsFile(f) == DOMAIN f = 1 .. Len(f) /\ \A i \in DOMAIN f : f[i] \in {0, i} /\ i \in Revs

\* The types of the variables.
TypeOK ==
  /\ Len(parent) <= MaxRev /\ \A r \in Revs : parent[r] \in 0 .. r - 1
  /\ IsFile(mtdb) /\ IsFile(file)
  /\ DOMAIN run = DOMAIN NoRun
  /\ run.at \in {"none", "bisect", "insert"}
  /\ run.head \in {0} \cup Revs /\ run.buffer \in {0} \cup Revs
  /\ run.todo \subseteq Revs
  /\ faults \in 0 .. MaxFaults

\* The parent of a mapped revision is mapped: else the search would take it
\* for one of those done, and it would never be mapped.
ParentsMapped ==
  \A r \in Revs : Lookup(mtdb, r) /\ parent[r] # 0 => Lookup(mtdb, parent[r])

\* Every revision is mapped in the end, whatever ended the runs before, and
\* in whichever order the branches were made and mapped.
EveryRevisionMapped ==
  \A r \in 1 .. MaxRev : r \in Revs ~> r \in Revs /\ Lookup(mtdb, r)
=============================================================================
