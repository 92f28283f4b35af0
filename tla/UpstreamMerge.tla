---------------------------- MODULE UpstreamMerge ----------------------------
(***************************************************************************)
(* Cascading split2mono databases (main_upstream and main_check_upstream   *)
(* of split2mono.cpp, split2monodb.h, mt_db.sh).  Each repository has a    *)
(* database of its own: two tables of records and a file "upstreams" that  *)
(* names every database merged into it, directly or through another one,   *)
(* with the sizes it had when it was merged.  A merge reads the records    *)
(* an upstream has appended since, inserts them one at a time, and then    *)
(* rewrites the file "upstreams".                                          *)
(*                                                                         *)
(* A table is the write-once map of CommitMap with the records of its data *)
(* file in the order they were appended.  Every repository has at most one *)
(* process, and each agent works on its own fetched copy of the upstream's *)
(* database: what a merge reads is a snapshot.                             *)
(***************************************************************************)
EXTENDS Integers, Sequences, FiniteSets

CONSTANTS
  Repo,         \* the repositories, each with a database
  Pairs,        \* <<r, u>>: r may be told to merge u
  CommitKey,    \* keys of the commits table: split commits
  SvnKey,       \* keys of the svnbase table: mono commits
  Generates,    \* Generates[r]: the keys that r maps itself
  MaxRecords,   \* bound: records in a table
  MtDb,         \* those whose database lives in the worktree of an mt-db ref
  None          \* the name read from an empty "upstreams" file

ASSUME UpstreamAssumption ==
  /\ IsFiniteSet(Repo)
  /\ Pairs \subseteq Repo \X Repo
  /\ CommitKey \cap SvnKey = {}
  /\ Generates \in [Repo -> SUBSET (CommitKey \cup SvnKey)]
  /\ MaxRecords \in Nat
  /\ MtDb \subseteq Repo
  /\ None \notin Repo

VARIABLES
  db,      \* db[r]: the files of r's database
  saved,   \* saved[r]: the version committed to r's mt-db ref
  proc     \* proc[r]: the process that works on r's database

vars == <<db, saved, proc>>

Tables == {"commits", "svnbase"}
Keys(t) == IF t = "commits" THEN CommitKey ELSE SvnKey
Name == Repo \cup {None}

\* Who mapped a key stands for the value it was mapped to.
Record == [key : CommitKey \cup SvnKey, by : Repo]
Sizes  == [n : Nat, size : [Tables -> Nat]]

EmptyDb ==
  [log  |-> [t \in Tables |-> <<>>],
   map  |-> [t \in Tables |-> [k \in {} |-> None]],
   ups  |-> [u \in {} |-> [n |-> 0, size |-> [t \in Tables |-> 0]]],
   file |-> "named"]

NoProcess == [at |-> "none"]
Idle      == [at |-> "idle"]

Init ==
  /\ db = [r \in Repo |-> EmptyDb]
  /\ saved = db
  /\ proc = [r \in Repo |-> NoProcess]

Extend(f, k, v) == [x \in DOMAIN f \cup {k} |-> IF x = k THEN v ELSE f[x]]

(***************************************************************************)
(* Sessions.                                                               *)
(***************************************************************************)
\* A mutant of Open: the worktree is used as it was left.
OpenAsLeft(r) ==
  /\ proc[r] = NoProcess
  /\ proc' = [proc EXCEPT ![r] = Idle]
  /\ UNCHANGED <<db, saved>>

\* mt_db_init resets the worktree to the version of the ref; without mt-db
\* the files are used as they are.
Open(r) ==
  /\ proc[r] = NoProcess
  /\ proc' = [proc EXCEPT ![r] = Idle]
  /\ db' = IF r \in MtDb THEN [db EXCEPT ![r] = saved[r]] ELSE db
  /\ UNCHANGED saved

Close(r) ==
  /\ proc[r] = Idle
  /\ proc' = [proc EXCEPT ![r] = NoProcess]
  /\ UNCHANGED <<db, saved>>

\* A mutant of Save: the version is committed after an error, too.
SaveAfterError(r) ==
  /\ r \in MtDb
  /\ proc[r] \in {Idle, NoProcess}
  /\ saved[r] # db[r]
  /\ saved' = [saved EXCEPT ![r] = db[r]]
  /\ UNCHANGED <<db, proc>>

\* mt_db_save: commit the worktree.
Save(r) ==
  /\ r \in MtDb
  /\ proc[r] = Idle
  /\ saved[r] # db[r]
  /\ saved' = [saved EXCEPT ![r] = db[r]]
  /\ UNCHANGED <<db, proc>>

Room(r, t) == Len(db[r].log[t]) < MaxRecords

\* insert_data of a key that is not mapped.
Inserted(d, t, rec) ==
  [d EXCEPT !.log[t] = Append(@, rec), !.map[t] = Extend(@, rec.key, rec.by)]

\* split2mono insert, insert-svnbase and interleave-commits: r maps a key.
Generate(r, t, k) ==
  /\ proc[r] = Idle
  /\ k \in Generates[r] \cap Keys(t)
  /\ k \notin DOMAIN db[r].map[t]
  /\ Room(r, t)
  /\ db' = [db EXCEPT ![r] = Inserted(@, t, [key |-> k, by |-> r])]
  /\ UNCHANGED <<saved, proc>>

(***************************************************************************)
(* Opening the two databases of a merge, and its early returns.            *)
(***************************************************************************)
NameOf(u, d) == IF d.file = "named" THEN u ELSE None
SizesOf(d) == [n |-> Cardinality(DOMAIN d.ups),
               size |-> [t \in Tables |-> Len(d.log[t])]]
AtMost(e, f) == e.n <= f.n /\ \A t \in Tables : e.size[t] <= f.size[t]

\* A mutant of NothingMerged: an empty data file counts as less than empty.
LessThanNothing == [n |-> 0, size |-> [t \in Tables |-> -1]]

NothingMerged == [n |-> 0, size |-> [t \in Tables |-> 0]]
Recorded(d, u) == IF u \in DOMAIN d.ups THEN d.ups[u] ELSE NothingMerged

\* A merge starts when the files parse and none of the refusals applies.
Mergeable(main, name, d, dname) ==
  /\ main.file # "unreadable" /\ d.file # "unreadable"
  /\ name # dname                                          \* self
  /\ AtMost(Recorded(main, dname), SizesOf(d))             \* missing ...
  /\ dname \in DOMAIN main.ups => main.ups[dname] # SizesOf(d)  \* nothing to do
  /\ name \notin DOMAIN d.ups                              \* upstream-cycle

\* "Check that we're only moving forward", for the upstream's upstreams.
OnlyForward(main, d) ==
  \A v \in DOMAIN d.ups \cap DOMAIN main.ups : AtMost(main.ups[v], d.ups[v])

\* A mutant of MergedUps: the upstream's upstreams are not merged.
MergedUpsForgotten(main, d) == main.ups

\* The upstream's upstreams are merged in memory; the file comes last.
MergedUps(main, d) ==
  [v \in DOMAIN main.ups \cup DOMAIN d.ups |->
     IF v \in DOMAIN d.ups THEN d.ups[v] ELSE main.ups[v]]

\* The version of u's database a merge opens.
Published(u) == IF u \in MtDb THEN saved[u] ELSE db[u]

BeginMerge(r, u) ==
  LET main == db[r]
      d    == Published(u)
      from == Recorded(main, NameOf(u, d)).size
  IN /\ proc[r] = Idle
     /\ u \in MtDb \/ proc[u] = NoProcess
     /\ Mergeable(main, NameOf(r, main), d, NameOf(u, d))
     /\ OnlyForward(main, d)
     /\ proc' = [proc EXCEPT ![r] =
          [at |-> "commits", up |-> NameOf(u, d), from |-> d, main |-> NameOf(r, main),
           ups |-> Extend(MergedUps(main, d), NameOf(u, d), SizesOf(d)),
           start |-> from, pos |-> from["commits"]]]
     /\ UNCHANGED <<db, saved>>

(***************************************************************************)
(* merge_tables: the records the upstream has beyond the recorded size.    *)
(***************************************************************************)
Merging(r, t) == proc[r].at = t
Left(r, t) == proc[r].pos < Len(proc[r].from.log[t])
NextRecord(r, t) == proc[r].from.log[t][proc[r].pos + 1]
NextMapped(r, t) == NextRecord(r, t).key \in DOMAIN db[r].map[t]

MergeRecord(r, t) ==
  /\ Merging(r, t) /\ Left(r, t)
  /\ ~NextMapped(r, t) /\ Room(r, t)
  /\ db' = [db EXCEPT ![r] = Inserted(@, t, NextRecord(r, t))]
  /\ proc' = [proc EXCEPT ![r].pos = @ + 1]
  /\ UNCHANGED saved

\* "sha1 is already mapped": the merge stops, with the records so far merged.
AlreadyMapped(r, t) ==
  /\ Merging(r, t) /\ Left(r, t)
  /\ NextMapped(r, t)
  /\ proc' = [proc EXCEPT ![r] = NoProcess]
  /\ UNCHANGED <<db, saved>>

\* A mutant of MergeSvnbase: the second table is forgotten.
SkipSvnbase(r) ==
  /\ Merging(r, "commits") /\ ~Left(r, "commits")
  /\ proc' = [proc EXCEPT ![r].at = "svnbase", ![r].pos = Len(proc[r].from.log["svnbase"])]
  /\ UNCHANGED <<db, saved>>

MergeSvnbase(r) ==
  /\ Merging(r, "commits") /\ ~Left(r, "commits")
  /\ proc' = [proc EXCEPT ![r].at = "svnbase", ![r].pos = proc[r].start["svnbase"]]
  /\ UNCHANGED <<db, saved>>

\* The tables are closed and "upstreams" is opened with O_TRUNC.
Truncate(r) ==
  /\ Merging(r, "svnbase") /\ ~Left(r, "svnbase")
  /\ proc' = [proc EXCEPT ![r].at = "truncated"]
  /\ db' = [db EXCEPT ![r].ups = EmptyDb.ups, ![r].file = "empty"]
  /\ UNCHANGED saved

\* The file is written as its stream is closed.  A name that was read from an
\* empty file is empty, and no later process can parse the line it makes.
Rewrite(r) ==
  /\ proc[r].at = "truncated"
  /\ db' = [db EXCEPT
       ![r].ups = proc[r].ups,
       ![r].file = IF proc[r].main = None \/ None \in DOMAIN proc[r].ups
                   THEN "unreadable" ELSE "named"]
  /\ proc' = [proc EXCEPT ![r] = Idle]
  /\ UNCHANGED saved

(***************************************************************************)
(* Errors.  The process ends and leaves the files as they are.  With mt-db *)
(* a kill looks the same, since the next session resets the worktree.      *)
(***************************************************************************)
Fail(r) ==
  /\ proc[r].at \in Tables \cup {"truncated"}
  /\ proc' = [proc EXCEPT ![r] = NoProcess]
  /\ UNCHANGED <<db, saved>>

\* An insertion whose record was appended and whose index was not updated.
FailInserting(r, t, k) ==
  /\ proc[r] = Idle /\ k \in Generates[r] \cap Keys(t)
  /\ k \notin DOMAIN db[r].map[t]
  /\ Room(r, t)
  /\ db' = [db EXCEPT ![r].log[t] = Append(@, [key |-> k, by |-> r])]
  /\ proc' = [proc EXCEPT ![r] = NoProcess]
  /\ UNCHANGED saved

FailMerging(r, t) ==
  /\ Merging(r, t) /\ Left(r, t)
  /\ ~NextMapped(r, t) /\ Room(r, t)
  /\ db' = [db EXCEPT ![r].log[t] = Append(@, NextRecord(r, t))]
  /\ proc' = [proc EXCEPT ![r] = NoProcess]
  /\ UNCHANGED saved

Step(r) ==
  \/ Open(r) \/ Close(r) \/ Save(r)
  \/ \E t \in Tables :
       \/ \E k \in Keys(t) : Generate(r, t, k) \/ FailInserting(r, t, k)
       \/ MergeRecord(r, t) \/ AlreadyMapped(r, t) \/ FailMerging(r, t)
  \/ \E u \in Repo : <<r, u>> \in Pairs /\ BeginMerge(r, u)
  \/ MergeSvnbase(r) \/ Truncate(r) \/ Rewrite(r)
  \/ Fail(r)

Next == \E r \in Repo : Step(r)

Spec == Init /\ [][Next]_vars

-----------------------------------------------------------------------------
IsPartial(f, S, T) == DOMAIN f \subseteq S /\ f \in [DOMAIN f -> T]
Files == {"named", "empty", "unreadable"}
Logs == [Tables -> Seq(Record)]

IsDb(d) ==
  /\ DOMAIN d = {"log", "map", "ups", "file"}
  /\ d.log \in Logs
  /\ DOMAIN d.map = Tables
  /\ \A t \in Tables : IsPartial(d.map[t], CommitKey \cup SvnKey, Repo)
  /\ IsPartial(d.ups, Name, Sizes)
  /\ d.file \in Files

IsMerge(p) ==
  /\ DOMAIN p = {"at", "up", "from", "main", "ups", "start", "pos"}
  /\ p.at \in Tables \cup {"truncated"}
  /\ p.up \in Name /\ p.main \in Name
  /\ IsDb(p.from)
  /\ IsPartial(p.ups, Name, Sizes)
  /\ p.start \in [Tables -> Nat] /\ p.pos \in Nat

\* The types of the variables.
TypeOK ==
  /\ DOMAIN db = Repo /\ DOMAIN saved = Repo /\ DOMAIN proc = Repo
  /\ \A r \in Repo :
       /\ IsDb(db[r]) /\ IsDb(saved[r])
       /\ proc[r] \in {NoProcess, Idle} \/ IsMerge(proc[r])

\* The first e.size records of a database's tables are mappings of d.
Merged(d, log, e) ==
  \A t \in Tables :
    /\ e.size[t] <= Len(log[t])
    /\ \A i \in 1 .. e.size[t] :
         /\ log[t][i].key \in DOMAIN d.map[t]
         /\ d.map[t][log[t][i].key] = log[t][i].by

\* Whatever a database records as merged from an upstream, also from one it
\* only knows through another, is mapped in it, and to the same commits: the
\* file "upstreams" never runs ahead of the tables, at no step of a merge and
\* whichever of its steps fails.
RecordedIsMerged ==
  \A r \in Repo : \A u \in DOMAIN db[r].ups \ {None} :
    Merged(db[r], Published(u).log, db[r].ups[u])

\* check-upstream, as main_check_upstream compares the two databases.
UpToDate(main, name, d, dname) ==
  /\ main.file # "unreadable" /\ d.file # "unreadable"
  /\ name # dname
  /\ dname \in DOMAIN main.ups
  /\ main.ups[dname] = SizesOf(d)

HasMappings(main, d) ==
  \A t \in Tables : \A k \in DOMAIN d.map[t] :
    k \in DOMAIN main.map[t] /\ main.map[t][k] = d.map[t][k]
KnowsUpstreams(main, d) ==
  \A v \in DOMAIN d.ups : v \in DOMAIN main.ups /\ AtMost(d.ups[v], main.ups[v])

UpToDateWith(r, u) ==
  UpToDate(db[r], NameOf(r, db[r]), Published(u), NameOf(u, Published(u)))

\* Comparing three numbers is enough: a database that check-upstream calls
\* up-to-date with an upstream has all its mappings, and has everything that
\* the upstream had merged from its own upstreams.
UpToDateIsComplete ==
  \A r, u \in Repo : UpToDateWith(r, u) =>
    HasMappings(db[r], Published(u)) /\ KnowsUpstreams(db[r], Published(u))

\* "Check that we're only moving forward": from one saved version to the next
\* no upstream is forgotten or recorded with fewer records.
UpstreamsMoveForward ==
  [][ \A r \in Repo : \A u \in DOMAIN saved[r].ups :
        /\ u \in DOMAIN saved'[r].ups
        /\ AtMost(saved[r].ups[u], saved'[r].ups[u]) ]_saved

\* "Check that cascading merges work correctly": in an mt-db, a merge that was
\* started never meets a key that is mapped already.
MergesSucceed ==
  \A r \in MtDb, t \in Tables : Merging(r, t) /\ Left(r, t) => ~NextMapped(r, t)

-----------------------------------------------------------------------------
(***************************************************************************)
(* What an mt-config says of a cascade: "second upstream declaration not   *)
(* supported", and the upstream is checked out from its mt-db ref.  A key  *)
(* is mapped by the repository that the commit was made in.                *)
(***************************************************************************)
Cascade ==
  \A r, u \in Repo : <<r, u>> \in Pairs =>
    u \in MtDb /\ \A v \in Repo : <<r, v>> \in Pairs => v = u

KeysApart == \A r, q \in Repo : r # q => Generates[r] \cap Generates[q] = {}
=============================================================================
