------------------------- MODULE UpstreamMerge_proofs -------------------------
(***************************************************************************)
(* Theorems about UpstreamMerge, for any repositories, cascades, keys and  *)
(* bounds.  That everything a database records as merged is mapped in it   *)
(* (RecordedIsMerged) does not carry over from step to step by itself:     *)
(* a merge opens a snapshot, copies what is beyond the recorded size, and  *)
(* takes over the upstreams that the snapshot records.  The invariant adds *)
(* that every mapping of a database is one of its records, so that who has *)
(* the records of a database has its mappings; that snapshots and saved    *)
(* versions are prefixes of what is published later; and, for a merge, how *)
(* many records of the snapshot are mapped at each of its points.          *)
(***************************************************************************)
EXTENDS UpstreamMerge, FiniteSetTheorems, TLAPS

-----------------------------------------------------------------------------
(***************************************************************************)
(* The inductive invariant.                                                *)
(***************************************************************************)
\* The records each repository publishes.
PubLogs == [u \in Repo |-> Published(u).log]

LogPrefix(p, q) ==
  \A t \in Tables :
    /\ Len(p[t]) <= Len(q[t])
    /\ \A i \in 1 .. Len(p[t]) : q[t][i] = p[t][i]

\* The first n records of a table are mappings of d.
Covered(d, log, t, n) ==
  /\ n <= Len(log[t])
  /\ \A i \in 1 .. n : /\ log[t][i].key \in DOMAIN d.map[t]
                       /\ d.map[t][log[t][i].key] = log[t][i].by

\* A mapping has a record.
MapInLog(d) ==
  \A t \in Tables : \A k \in DOMAIN d.map[t] :
    \E i \in 1 .. Len(d.log[t]) : d.log[t][i].key = k /\ d.log[t][i].by = d.map[t][k]

\* A name from an empty file makes a file that nobody reads.
NamesReadable(d) == None \in DOMAIN d.ups => d.file = "unreadable"

UpsMerged(d, pub) == \A u \in DOMAIN d.ups \ {None} : Merged(d, pub[u], d.ups[u])

Sound(d, pub) == MapInLog(d) /\ NamesReadable(d) /\ UpsMerged(d, pub)

\* What a merge will record is in the snapshot or has been merged before.
UpsToRecord(p, d, pub) ==
  \A v \in DOMAIN p.ups \ {None} :
    \/ v = p.up /\ p.ups[v].size = SizesOf(p.from).size
    \/ v \in DOMAIN p.from.ups /\ p.ups[v] = p.from.ups[v]
    \/ Merged(d, pub[v], p.ups[v])

\* The records of the snapshot that are mapped, at each point of a merge.
Progress(p, d) ==
  LET log == p.from.log
  IN  /\ p.at = "commits" => /\ Covered(d, log, "commits", p.pos)
                             /\ Covered(d, log, "svnbase", p.start["svnbase"])
      /\ p.at = "svnbase" => /\ Covered(d, log, "commits", Len(log["commits"]))
                             /\ Covered(d, log, "svnbase", p.pos)
      /\ p.at = "truncated" => \A t \in Tables : Covered(d, log, t, Len(log[t]))

MergeSound(p, d, pub) ==
  p \notin {NoProcess, Idle} =>
    /\ Sound(p.from, pub)
    /\ p.up # None => LogPrefix(p.from.log, pub[p.up])
    /\ UpsToRecord(p, d, pub)
    /\ Progress(p, d)

RepoSound(r) ==
  /\ Sound(db[r], PubLogs)
  /\ Sound(saved[r], PubLogs)
  /\ r \in MtDb => LogPrefix(saved[r].log, db[r].log)
  /\ MergeSound(proc[r], db[r], PubLogs)

IInv == TypeOK /\ \A r \in Repo : RepoSound(r)

-----------------------------------------------------------------------------
(***************************************************************************)
(* Types.                                                                  *)
(***************************************************************************)
LEMMA ExtendPartial ==
  ASSUME NEW S, NEW T, NEW f, IsPartial(f, S, T), NEW k \in S, NEW v \in T
  PROVE  IsPartial(Extend(f, k, v), S, T)
  BY DEF IsPartial, Extend

LEMMA SizesType == ASSUME NEW d, IsDb(d) PROVE SizesOf(d) \in Sizes
<1>1. IsFiniteSet(Name)
  BY UpstreamAssumption, FS_AddElement DEF UpstreamAssumption, Name
<1>2. DOMAIN d.ups \subseteq Name
  BY DEF IsDb, IsPartial
<1>3. Cardinality(DOMAIN d.ups) \in Nat
  BY <1>1, <1>2, FS_Subset, FS_CardinalityType
<1>4. \A t \in Tables : Len(d.log[t]) \in Nat
  BY DEF IsDb, Logs
<1> QED
  BY <1>3, <1>4 DEF SizesOf, Sizes

LEMMA AppendedType ==
  ASSUME NEW d, IsDb(d), NEW t \in Tables, NEW rec \in Record
  PROVE  IsDb([d EXCEPT !.log[t] = Append(@, rec)])
<1>1. [d.log EXCEPT ![t] = Append(@, rec)] \in Logs
  BY DEF IsDb, Logs
<1> QED
  BY <1>1 DEF IsDb

\* What an insertion changes.
LEMMA InsertedFields ==
  ASSUME NEW d, IsDb(d), NEW t \in Tables, NEW rec \in Record
  PROVE  LET e == Inserted(d, t, rec)
         IN  /\ e.log = [d.log EXCEPT ![t] = Append(@, rec)]
             /\ e.map = [d.map EXCEPT ![t] = Extend(@, rec.key, rec.by)]
             /\ e.ups = d.ups /\ e.file = d.file /\ DOMAIN e = DOMAIN d
  BY DEF Inserted, IsDb

LEMMA InsertedUps ==
  \A d, t, rec : IsDb(d) => Inserted(d, t, rec).ups = d.ups
  BY DEF Inserted, IsDb

LEMMA InsertedType ==
  ASSUME NEW d, IsDb(d), NEW t \in Tables, NEW rec \in Record
  PROVE  IsDb(Inserted(d, t, rec))
<1> DEFINE e == Inserted(d, t, rec)
<1>0. /\ e.log = [d.log EXCEPT ![t] = Append(@, rec)]
      /\ e.map = [d.map EXCEPT ![t] = Extend(@, rec.key, rec.by)]
      /\ e.ups = d.ups /\ e.file = d.file /\ DOMAIN e = DOMAIN d
  BY InsertedFields
<1> HIDE DEF e
<1>1. e.log \in Logs
  BY <1>0 DEF IsDb, Logs
<1>2. rec.key \in CommitKey \cup SvnKey /\ rec.by \in Repo
  BY DEF Record
<1>3. IsPartial(Extend(d.map[t], rec.key, rec.by), CommitKey \cup SvnKey, Repo)
  BY <1>2, ExtendPartial DEF IsDb
<1>4. DOMAIN e.map = Tables /\ \A u \in Tables : IsPartial(e.map[u], CommitKey \cup SvnKey, Repo)
  BY <1>0, <1>3 DEF IsDb
<1>5. IsDb(e)
  BY <1>0, <1>1, <1>4 DEF IsDb
<1> QED
  BY <1>5 DEF e

\* A step of r touches nothing of the others.
LEMMA StepFrame ==
  ASSUME TypeOK, NEW r \in Repo, Step(r)
  PROVE  /\ DOMAIN db' = Repo /\ DOMAIN saved' = Repo /\ DOMAIN proc' = Repo
         /\ \A q \in Repo \ {r} : db'[q] = db[q] /\ saved'[q] = saved[q] /\ proc'[q] = proc[q]
  BY DEF TypeOK, Step, Open, Close, Save, Generate, FailInserting, MergeRecord, AlreadyMapped,
         FailMerging, BeginMerge, MergeSvnbase, Truncate, Rewrite, Fail

LEMMA EmptyDbType == IsDb(EmptyDb)
<1>1. EmptyDb.log \in Logs
  BY DEF EmptyDb, Logs
<1>2. \A T, S : IsPartial([k \in {} |-> None], S, T)
  BY DEF IsPartial
<1>3. IsPartial(EmptyDb.ups, Name, Sizes)
  BY DEF EmptyDb, IsPartial
<1> QED
  BY <1>1, <1>2, <1>3 DEF EmptyDb, IsDb, Files

\* What a merge is about: a record of the snapshot.
LEMMA NextRecordType ==
  ASSUME TypeOK, NEW r \in Repo, NEW t \in Tables, Merging(r, t), Left(r, t)
  PROVE  /\ IsMerge(proc[r]) /\ NextRecord(r, t) \in Record
         /\ proc[r].pos + 1 \in 1 .. Len(proc[r].from.log[t])
<1>1. IsMerge(proc[r])
  BY DEF TypeOK, Merging, NoProcess, Idle, Tables
<1>2. proc[r].from.log[t] \in Seq(Record) /\ proc[r].pos \in Nat
  BY <1>1 DEF IsMerge, IsDb, Logs
<1>3. proc[r].pos + 1 \in 1 .. Len(proc[r].from.log[t])
  BY <1>2 DEF Left
<1> QED
  BY <1>1, <1>2, <1>3 DEF NextRecord

\* The step of r leaves r's database, version and process of their types.
LEMMA StepType ==
  ASSUME TypeOK, NEW r \in Repo, Step(r)
  PROVE  TypeOK'
<1>f. /\ DOMAIN db' = Repo /\ DOMAIN saved' = Repo /\ DOMAIN proc' = Repo
      /\ \A q \in Repo \ {r} : db'[q] = db[q] /\ saved'[q] = saved[q] /\ proc'[q] = proc[q]
  BY StepFrame
<1>h. /\ DOMAIN db = Repo /\ DOMAIN saved = Repo /\ DOMAIN proc = Repo
      /\ \A q \in Repo : IsDb(db[q]) /\ IsDb(saved[q])
      /\ proc[r] \in {NoProcess, Idle} \/ IsMerge(proc[r])
  BY DEF TypeOK
<1>s. SUFFICES /\ IsDb(db'[r]) /\ IsDb(saved'[r])
               /\ proc'[r] \in {NoProcess, Idle} \/ IsMerge(proc'[r])
  BY <1>f, <1>s DEF TypeOK
<1>1. CASE Open(r) \/ Close(r) \/ Save(r)
  BY <1>h, <1>1 DEF Open, Close, Save
<1>2. ASSUME NEW t \in Tables, NEW k \in Keys(t), Generate(r, t, k) \/ FailInserting(r, t, k)
      PROVE  IsDb(db'[r]) /\ saved'[r] = saved[r] /\ proc'[r] \in {NoProcess, Idle}
  <2> DEFINE rec == [key |-> k, by |-> r]
  <2>1. rec \in Record
    BY DEF Record, Keys
  <2>2. IsDb(Inserted(db[r], t, rec)) /\ IsDb([db[r] EXCEPT !.log[t] = Append(@, rec)])
    BY <1>h, <2>1, InsertedType, AppendedType
  <2> QED
    BY <1>h, <1>2, <2>2 DEF Generate, FailInserting
<1>3. ASSUME NEW t \in Tables, MergeRecord(r, t) \/ FailMerging(r, t)
      PROVE  IsDb(db'[r]) /\ saved'[r] = saved[r] /\ (proc'[r] \in {NoProcess, Idle} \/ IsMerge(proc'[r]))
  <2>1. IsMerge(proc[r]) /\ NextRecord(r, t) \in Record
    BY <1>3, NextRecordType DEF MergeRecord, FailMerging
  <2>2. /\ IsDb(Inserted(db[r], t, NextRecord(r, t)))
        /\ IsDb([db[r] EXCEPT !.log[t] = Append(@, NextRecord(r, t))])
    BY <1>h, <2>1, InsertedType, AppendedType
  <2>3. IsMerge([proc[r] EXCEPT !.pos = @ + 1])
    BY <2>1 DEF IsMerge
  <2> QED
    BY <1>h, <1>3, <2>2, <2>3 DEF MergeRecord, FailMerging
<1>4. ASSUME NEW t \in Tables, AlreadyMapped(r, t)
      PROVE  IsDb(db'[r]) /\ saved'[r] = saved[r] /\ proc'[r] = NoProcess
  BY <1>h, <1>4 DEF AlreadyMapped
<1>5. CASE Fail(r)
  BY <1>h, <1>5 DEF Fail
<1>6. ASSUME NEW u \in Repo, BeginMerge(r, u)
      PROVE  IsDb(db'[r]) /\ saved'[r] = saved[r] /\ IsMerge(proc'[r])
  <2> DEFINE d == Published(u)
             dname == NameOf(u, d)
             from == Recorded(db[r], dname).size
  <2>1. IsDb(d) /\ IsDb(db[r])
    BY <1>h DEF Published
  <2>2. dname \in Name /\ NameOf(r, db[r]) \in Name
    BY DEF NameOf, Name
  <2>3. SizesOf(d) \in Sizes
    BY <2>1, SizesType
  <2>4. IsPartial(MergedUps(db[r], d), Name, Sizes)
    BY <2>1 DEF MergedUps, IsDb, IsPartial
  <2>5. IsPartial(Extend(MergedUps(db[r], d), dname, SizesOf(d)), Name, Sizes)
    BY <2>2, <2>3, <2>4, ExtendPartial
  <2>6. Recorded(db[r], dname) \in Sizes
    BY <2>1 DEF Recorded, NothingMerged, Sizes, IsDb, IsPartial
  <2>7. from \in [Tables -> Nat] /\ from["commits"] \in Nat
    BY <2>6 DEF Sizes, Tables
  <2>8. IsMerge([at |-> "commits", up |-> dname, from |-> d, main |-> NameOf(r, db[r]),
                 ups |-> Extend(MergedUps(db[r], d), dname, SizesOf(d)),
                 start |-> from, pos |-> from["commits"]])
    BY <2>1, <2>2, <2>5, <2>7 DEF IsMerge, Tables
  <2> QED
    BY <1>h, <1>6, <2>8 DEF BeginMerge
<1>7. CASE MergeSvnbase(r)
  <2>1. IsMerge(proc[r])
    BY <1>h, <1>7 DEF MergeSvnbase, Merging, NoProcess, Idle
  <2>2. IsMerge([proc[r] EXCEPT !.at = "svnbase", !.pos = proc[r].start["svnbase"]])
    BY <2>1 DEF IsMerge, Tables
  <2> QED
    BY <1>h, <1>7, <2>2 DEF MergeSvnbase
<1>8. CASE Truncate(r)
  <2>1. IsMerge(proc[r])
    BY <1>h, <1>8 DEF Truncate, Merging, NoProcess, Idle
  <2>2. IsMerge([proc[r] EXCEPT !.at = "truncated"])
    BY <2>1 DEF IsMerge
  <2>3. IsDb([db[r] EXCEPT !.ups = EmptyDb.ups, !.file = "empty"])
    BY <1>h, EmptyDbType DEF IsDb, Files
  <2> QED
    BY <1>h, <1>8, <2>2, <2>3 DEF Truncate
<1>9. CASE Rewrite(r)
  <2>1. IsMerge(proc[r])
    BY <1>h, <1>9 DEF Rewrite, NoProcess, Idle
  <2>2. \A f \in Files : IsDb([db[r] EXCEPT !.ups = proc[r].ups, !.file = f])
    BY <1>h, <2>1 DEF IsDb, IsMerge
  <2>3. \E f \in Files : db'[r] = [db[r] EXCEPT !.ups = proc[r].ups, !.file = f]
    BY <1>h, <1>9 DEF Rewrite, Files
  <2> QED
    BY <1>h, <1>9, <2>2, <2>3 DEF Rewrite
<1> QED
  BY <1>h, <1>1, <1>2, <1>3, <1>4, <1>5, <1>6, <1>7, <1>8, <1>9 DEF Step

LEMMA TypeInit == Init => TypeOK
  BY EmptyDbType DEF Init, TypeOK

LEMMA TypeNext == TypeOK /\ [Next]_vars => TypeOK'
<1>1. TypeOK /\ UNCHANGED vars => TypeOK'
  BY DEF TypeOK, vars
<1> QED
  BY <1>1, StepType DEF Next

\* Databases, versions and processes have their types in every state.
THEOREM TypeCorrect == Spec => []TypeOK
  BY TypeInit, TypeNext, PTL DEF Spec

-----------------------------------------------------------------------------
(***************************************************************************)
(* What is merged stays merged: logs and maps only grow.                   *)
(***************************************************************************)
MapExtends(d, e) ==
  \A t \in Tables : \A k \in DOMAIN d.map[t] :
    k \in DOMAIN e.map[t] /\ e.map[t][k] = d.map[t][k]

LEMMA PrefixOfItself == ASSUME NEW p \in Logs PROVE LogPrefix(p, p)
  BY DEF LogPrefix, Logs

LEMMA PrefixOfAppended ==
  ASSUME NEW p \in Logs, NEW t \in Tables, NEW rec \in Record
  PROVE  LogPrefix(p, [p EXCEPT ![t] = Append(@, rec)])
<1> SUFFICES ASSUME NEW u \in Tables
             PROVE  LET q == [p EXCEPT ![t] = Append(@, rec)]
                    IN  /\ Len(p[u]) <= Len(q[u])
                        /\ \A i \in 1 .. Len(p[u]) : q[u][i] = p[u][i]
  BY DEF LogPrefix
<1>1. p[u] \in Seq(Record) /\ p[t] \in Seq(Record)
  BY DEF Logs
<1>2. CASE u = t
  BY <1>1, <1>2 DEF Logs
<1>3. CASE u # t
  BY <1>1, <1>3 DEF Logs
<1> QED
  BY <1>2, <1>3

LEMMA MergedGrows ==
  ASSUME NEW d, NEW p \in Logs, NEW q \in Logs, NEW e \in Sizes,
         Merged(d, p, e), LogPrefix(p, q)
  PROVE  Merged(d, q, e)
<1> SUFFICES ASSUME NEW t \in Tables
             PROVE  /\ e.size[t] <= Len(q[t])
                    /\ \A i \in 1 .. e.size[t] : /\ q[t][i].key \in DOMAIN d.map[t]
                                                /\ d.map[t][q[t][i].key] = q[t][i].by
  BY DEF Merged
<1>1. e.size[t] \in Nat /\ Len(p[t]) \in Nat /\ Len(q[t]) \in Nat
  BY DEF Sizes, Logs
<1>2. e.size[t] <= Len(p[t]) /\ Len(p[t]) <= Len(q[t])
  BY DEF Merged, LogPrefix
<1>3. ASSUME NEW i \in 1 .. e.size[t]
      PROVE  q[t][i] = p[t][i]
  BY <1>1, <1>2, <1>3 DEF LogPrefix
<1> QED
  BY <1>1, <1>2, <1>3 DEF Merged

LEMMA MergedKept ==
  ASSUME NEW d, NEW e, MapExtends(d, e), NEW log, NEW size, Merged(d, log, size)
  PROVE  Merged(e, log, size)
  BY DEF Merged, MapExtends

LEMMA CoveredKept ==
  ASSUME NEW d, NEW e, MapExtends(d, e), NEW log, NEW t \in Tables, NEW n, Covered(d, log, t, n)
  PROVE  Covered(e, log, t, n)
  BY DEF Covered, MapExtends

\* Logs that were published only grow.
Grows(pub, pub2) == \A u \in Repo : LogPrefix(pub[u], pub2[u])
Pubs == [Repo -> Logs]

LEMMA PubLogsType == TypeOK => PubLogs \in Pubs
  BY DEF TypeOK, PubLogs, Pubs, Published, IsDb

LEMMA SoundGrows ==
  ASSUME NEW d, IsDb(d), NEW pub \in Pubs, NEW pub2 \in Pubs, Grows(pub, pub2), Sound(d, pub)
  PROVE  Sound(d, pub2)
<1> SUFFICES ASSUME NEW u \in DOMAIN d.ups \ {None} PROVE Merged(d, pub2[u], d.ups[u])
  BY DEF Sound, UpsMerged
<1>1. u \in Repo /\ d.ups[u] \in Sizes
  BY DEF IsDb, IsPartial, Name
<1>2. pub[u] \in Logs /\ pub2[u] \in Logs /\ LogPrefix(pub[u], pub2[u])
  BY <1>1 DEF Pubs, Grows
<1>3. Merged(d, pub[u], d.ups[u])
  BY DEF Sound, UpsMerged
<1> QED
  BY <1>1, <1>2, <1>3, MergedGrows

LEMMA PrefixTransitive ==
  ASSUME NEW p \in Logs, NEW q \in Logs, NEW s \in Logs, LogPrefix(p, q), LogPrefix(q, s)
  PROVE  LogPrefix(p, s)
<1> SUFFICES ASSUME NEW t \in Tables
             PROVE  Len(p[t]) <= Len(s[t]) /\ \A i \in 1 .. Len(p[t]) : s[t][i] = p[t][i]
  BY DEF LogPrefix
<1>1. Len(p[t]) \in Nat /\ Len(q[t]) \in Nat /\ Len(s[t]) \in Nat
  BY DEF Logs
<1>2. Len(p[t]) <= Len(q[t]) /\ Len(q[t]) <= Len(s[t])
  BY DEF LogPrefix
<1>3. ASSUME NEW i \in 1 .. Len(p[t]) PROVE s[t][i] = p[t][i]
  BY <1>1, <1>2, <1>3 DEF LogPrefix
<1> QED
  BY <1>1, <1>2, <1>3

\* A merge goes on while its database and the others change.
LEMMA MergeSoundGrows ==
  ASSUME NEW p, p \in {NoProcess, Idle} \/ IsMerge(p), NEW d, NEW e, MapExtends(d, e),
         NEW pub \in Pubs, NEW pub2 \in Pubs, Grows(pub, pub2), MergeSound(p, d, pub)
  PROVE  MergeSound(p, e, pub2)
<1> SUFFICES ASSUME IsMerge(p), p \notin {NoProcess, Idle}
             PROVE  MergeSound(p, e, pub2)
  BY DEF MergeSound
<1>1. Sound(p.from, pub2)
  BY SoundGrows DEF MergeSound, IsMerge
<1>2. p.up # None => LogPrefix(p.from.log, pub2[p.up])
  <2> SUFFICES ASSUME p.up # None PROVE LogPrefix(p.from.log, pub2[p.up])
    OBVIOUS
  <2>1. p.up \in Repo /\ p.from.log \in Logs
    BY DEF IsMerge, Name, IsDb
  <2>2. LogPrefix(p.from.log, pub[p.up]) /\ LogPrefix(pub[p.up], pub2[p.up])
    BY <2>1 DEF MergeSound, Grows
  <2> QED
    BY <2>1, <2>2, PrefixTransitive DEF Pubs
<1>3. UpsToRecord(p, e, pub2)
  <2> SUFFICES ASSUME NEW v \in DOMAIN p.ups \ {None}, Merged(d, pub[v], p.ups[v])
               PROVE  Merged(e, pub2[v], p.ups[v])
    BY DEF UpsToRecord, MergeSound
  <2>1. v \in Repo /\ p.ups[v] \in Sizes
    BY DEF IsMerge, IsPartial, Name
  <2>2. Merged(e, pub[v], p.ups[v])
    BY MergedKept
  <2>3. pub[v] \in Logs /\ pub2[v] \in Logs /\ LogPrefix(pub[v], pub2[v])
    BY <2>1 DEF Pubs, Grows
  <2> QED
    BY <2>1, <2>2, <2>3, MergedGrows
<1>4. Progress(p, e)
  <2>1. Progress(p, d)
    BY DEF MergeSound
  <2> QED
    BY <2>1, CoveredKept DEF Progress, Tables
<1> QED
  BY <1>1, <1>2, <1>3, <1>4 DEF MergeSound

\* A record appended, and an insertion of a key that is not mapped.
LEMMA AppendedSound ==
  ASSUME NEW d, IsDb(d), NEW t \in Tables, NEW rec \in Record, NEW pub, Sound(d, pub)
  PROVE  LET e == [d EXCEPT !.log[t] = Append(@, rec)]
         IN  Sound(e, pub) /\ MapExtends(d, e) /\ LogPrefix(d.log, e.log)
<1> DEFINE e == [d EXCEPT !.log[t] = Append(@, rec)]
<1>0. /\ e.log = [d.log EXCEPT ![t] = Append(@, rec)]
      /\ e.map = d.map /\ e.ups = d.ups /\ e.file = d.file
  BY DEF IsDb
<1> HIDE DEF e
<1>1. MapExtends(d, e)
  BY <1>0 DEF MapExtends
<1>2. LogPrefix(d.log, e.log)
  BY <1>0, PrefixOfAppended DEF IsDb
<1>3. MapInLog(e)
  <2> SUFFICES ASSUME NEW u \in Tables, NEW k \in DOMAIN d.map[u]
               PROVE  \E i \in 1 .. Len(e.log[u]) : e.log[u][i].key = k /\ e.log[u][i].by = d.map[u][k]
    BY <1>0 DEF MapInLog
  <2>1. PICK i \in 1 .. Len(d.log[u]) : d.log[u][i].key = k /\ d.log[u][i].by = d.map[u][k]
    BY DEF Sound, MapInLog
  <2>2. Len(d.log[u]) \in Nat /\ Len(e.log[u]) \in Nat
    BY <1>0, AppendedType DEF IsDb, Logs
  <2>3. i \in 1 .. Len(e.log[u]) /\ e.log[u][i] = d.log[u][i]
    BY <1>2, <2>2 DEF LogPrefix
  <2> QED
    BY <2>1, <2>3
<1>4. NamesReadable(e) /\ UpsMerged(e, pub)
  BY <1>0 DEF Sound, NamesReadable, UpsMerged, Merged
<1> QED
  BY <1>1, <1>2, <1>3, <1>4 DEF e, Sound

LEMMA InsertedSound ==
  ASSUME NEW d, IsDb(d), NEW t \in Tables, NEW rec \in Record, rec.key \notin DOMAIN d.map[t],
         NEW pub, Sound(d, pub)
  PROVE  LET e == Inserted(d, t, rec)
         IN  /\ Sound(e, pub) /\ MapExtends(d, e) /\ LogPrefix(d.log, e.log)
             /\ rec.key \in DOMAIN e.map[t] /\ e.map[t][rec.key] = rec.by
<1> DEFINE e == Inserted(d, t, rec)
<1>0. /\ e.log = [d.log EXCEPT ![t] = Append(@, rec)]
      /\ e.map = [d.map EXCEPT ![t] = Extend(@, rec.key, rec.by)]
      /\ e.ups = d.ups /\ e.file = d.file
  BY InsertedFields
<1>t. IsDb(e)
  BY InsertedType
<1> HIDE DEF e
<1>m. /\ e.map[t] = Extend(d.map[t], rec.key, rec.by)
      /\ \A u \in Tables \ {t} : e.map[u] = d.map[u]
  BY <1>0 DEF IsDb
<1>1. MapExtends(d, e)
  BY <1>m DEF MapExtends, Extend
<1>2. LogPrefix(d.log, e.log)
  BY <1>0, PrefixOfAppended DEF IsDb
<1>3. MapInLog(e)
  <2> SUFFICES ASSUME NEW u \in Tables, NEW k \in DOMAIN e.map[u]
               PROVE  \E i \in 1 .. Len(e.log[u]) : e.log[u][i].key = k /\ e.log[u][i].by = e.map[u][k]
    BY DEF MapInLog
  <2>1. d.log[u] \in Seq(Record) /\ d.log[t] \in Seq(Record)
    BY DEF IsDb, Logs
  <2>2. CASE k \in DOMAIN d.map[u]
    <3>1. PICK i \in 1 .. Len(d.log[u]) : d.log[u][i].key = k /\ d.log[u][i].by = d.map[u][k]
      BY <2>2 DEF Sound, MapInLog
    <3>2. i \in 1 .. Len(e.log[u]) /\ e.log[u][i] = d.log[u][i]
      BY <1>t, <1>2, <2>1 DEF LogPrefix, IsDb, Logs
    <3> QED
      BY <1>1, <2>2, <3>1, <3>2 DEF MapExtends
  <2>3. CASE k \notin DOMAIN d.map[u]
    <3>1. u = t /\ k = rec.key
      BY <1>m, <2>3 DEF Extend
    <3>2. e.log[t] = Append(d.log[t], rec) /\ e.map[t][k] = rec.by
      BY <1>0, <1>m, <3>1 DEF IsDb, Logs, Extend
    <3>3. Len(d.log[t]) + 1 \in 1 .. Len(e.log[t]) /\ e.log[t][Len(d.log[t]) + 1] = rec
      BY <2>1, <3>2
    <3> QED
      BY <3>1, <3>2, <3>3
  <2> QED
    BY <2>2, <2>3
<1>4. NamesReadable(e)
  BY <1>0 DEF Sound, NamesReadable
<1>5. UpsMerged(e, pub)
  BY <1>0, <1>1, MergedKept DEF Sound, UpsMerged
<1>6. rec.key \in DOMAIN e.map[t] /\ e.map[t][rec.key] = rec.by
  BY <1>m DEF Extend
<1> QED
  BY <1>1, <1>2, <1>3, <1>4, <1>5, <1>6 DEF e, Sound

-----------------------------------------------------------------------------
(***************************************************************************)
(* The invariant is inductive.                                             *)
(***************************************************************************)
LEMMA InvInit == Init => IInv
<1> SUFFICES ASSUME Init, NEW r \in Repo PROVE RepoSound(r)
  BY TypeInit DEF IInv
<1>1. db[r] = EmptyDb /\ saved[r] = EmptyDb /\ proc[r] = NoProcess
  BY DEF Init
<1>2. Sound(EmptyDb, PubLogs)
  BY DEF Sound, MapInLog, NamesReadable, UpsMerged, EmptyDb
<1>3. LogPrefix(EmptyDb.log, EmptyDb.log)
  BY EmptyDbType, PrefixOfItself DEF IsDb
<1> QED
  BY <1>1, <1>2, <1>3 DEF RepoSound, MergeSound

\* What one step does to r, up to the growth of what is published.
Local(r) ==
  /\ LogPrefix(saved[r].log, saved'[r].log)
  /\ r \notin MtDb => LogPrefix(db[r].log, db'[r].log)
  /\ r \in MtDb => LogPrefix(saved'[r].log, db'[r].log)
  /\ Sound(db'[r], PubLogs)
  /\ Sound(saved'[r], PubLogs)
  /\ MergeSound(proc'[r], db'[r], PubLogs)

\* A session's steps outside of merges.
LEMMA LocalSession ==
  ASSUME IInv, NEW r \in Repo, Open(r) \/ Close(r) \/ Save(r) \/ Fail(r)
  PROVE  Local(r)
<1>h. /\ RepoSound(r) /\ IsDb(db[r]) /\ IsDb(saved[r])
      /\ DOMAIN db = Repo /\ DOMAIN saved = Repo /\ DOMAIN proc = Repo
  BY DEF IInv, TypeOK
<1>p. LogPrefix(db[r].log, db[r].log) /\ LogPrefix(saved[r].log, saved[r].log)
  BY <1>h, PrefixOfItself DEF IsDb
<1>1. CASE Open(r)
  BY <1>1, <1>h, <1>p DEF Open, Local, RepoSound, MergeSound
<1>2. CASE Close(r) \/ Fail(r)
  BY <1>2, <1>h, <1>p DEF Close, Fail, Local, RepoSound, MergeSound
<1>3. CASE Save(r)
  BY <1>3, <1>h, <1>p DEF Save, Local, RepoSound, MergeSound
<1> QED
  BY <1>1, <1>2, <1>3

\* A database whose log and map grow.
LEMMA LocalGrows ==
  ASSUME IInv, NEW r \in Repo, saved' = saved, Sound(db'[r], PubLogs), IsDb(db'[r]),
         LogPrefix(db[r].log, db'[r].log), MergeSound(proc'[r], db'[r], PubLogs)
  PROVE  Local(r)
<1>h. RepoSound(r) /\ IsDb(db[r]) /\ IsDb(saved[r])
  BY DEF IInv, TypeOK
<1>1. LogPrefix(saved[r].log, saved[r].log)
  BY <1>h, PrefixOfItself DEF IsDb
<1>2. r \in MtDb => LogPrefix(saved[r].log, db'[r].log)
  BY <1>h, PrefixTransitive DEF RepoSound, IsDb
<1> QED
  BY <1>h, <1>1, <1>2 DEF Local, RepoSound

LEMMA LocalGenerate ==
  ASSUME IInv, TypeOK', NEW r \in Repo, NEW t \in Tables, NEW k \in Keys(t),
         Generate(r, t, k) \/ FailInserting(r, t, k)
  PROVE  Local(r)
<1> DEFINE rec == [key |-> k, by |-> r]
<1>h. /\ Sound(db[r], PubLogs) /\ IsDb(db[r]) /\ IsDb(db'[r])
      /\ DOMAIN db = Repo /\ DOMAIN proc = Repo
  BY DEF IInv, TypeOK, RepoSound
<1>1. rec \in Record /\ rec.key = k
  BY DEF Record, Keys
<1>2. k \notin DOMAIN db[r].map[t] /\ proc'[r] \in {NoProcess, Idle} /\ saved' = saved
  BY <1>h DEF Generate, FailInserting
<1>3. \/ db'[r] = Inserted(db[r], t, rec)
      \/ db'[r] = [db[r] EXCEPT !.log[t] = Append(@, rec)]
  BY <1>h DEF Generate, FailInserting
<1>4. Sound(db'[r], PubLogs) /\ LogPrefix(db[r].log, db'[r].log)
  <2>1. LET e == Inserted(db[r], t, rec) IN Sound(e, PubLogs) /\ LogPrefix(db[r].log, e.log)
    BY <1>h, <1>1, <1>2, InsertedSound
  <2>2. LET e == [db[r] EXCEPT !.log[t] = Append(@, rec)]
        IN  Sound(e, PubLogs) /\ LogPrefix(db[r].log, e.log)
    BY <1>h, <1>1, AppendedSound
  <2> HIDE DEF rec
  <2> QED
    BY <1>3, <2>1, <2>2
<1> QED
  BY <1>h, <1>2, <1>4, LocalGrows DEF MergeSound

LEMMA LocalMergeRecord ==
  ASSUME IInv, TypeOK', NEW r \in Repo, NEW t \in Tables,
         MergeRecord(r, t) \/ FailMerging(r, t) \/ AlreadyMapped(r, t)
  PROVE  Local(r)
<1> DEFINE rec == NextRecord(r, t)
           p == proc[r]
<1>h. /\ Sound(db[r], PubLogs) /\ IsDb(db[r]) /\ IsDb(db'[r])
      /\ DOMAIN db = Repo /\ DOMAIN proc = Repo /\ MergeSound(p, db[r], PubLogs)
      /\ TypeOK
  BY DEF IInv, TypeOK, RepoSound
<1>1. IsMerge(p) /\ rec \in Record /\ p.pos + 1 \in 1 .. Len(p.from.log[t]) /\ p.at = t
  BY <1>h, NextRecordType DEF MergeRecord, FailMerging, AlreadyMapped, Merging
<1>2. CASE AlreadyMapped(r, t)
  <2>1. LogPrefix(db[r].log, db[r].log)
    BY <1>h, PrefixOfItself DEF IsDb
  <2> QED
    BY <1>2, <1>h, <2>1, LocalGrows DEF AlreadyMapped, MergeSound
<1>3. CASE FailMerging(r, t)
  <2>1. db'[r] = [db[r] EXCEPT !.log[t] = Append(@, rec)] /\ proc'[r] = NoProcess /\ saved' = saved
    BY <1>3, <1>h DEF FailMerging
  <2>2. Sound(db'[r], PubLogs) /\ LogPrefix(db[r].log, db'[r].log)
    BY <1>h, <1>1, <2>1, AppendedSound
  <2> QED
    BY <1>h, <2>1, <2>2, LocalGrows DEF MergeSound
<1>4. CASE MergeRecord(r, t)
  <2> DEFINE e == db'[r]
             q == proc'[r]
  <2>1. e = Inserted(db[r], t, rec) /\ q = [p EXCEPT !.pos = @ + 1] /\ saved' = saved
    BY <1>4, <1>h DEF MergeRecord
  <2>2. rec.key \notin DOMAIN db[r].map[t]
    BY <1>4 DEF MergeRecord, NextMapped
  <2>3. /\ Sound(e, PubLogs) /\ MapExtends(db[r], e) /\ LogPrefix(db[r].log, e.log)
        /\ rec.key \in DOMAIN e.map[t] /\ e.map[t][rec.key] = rec.by
    BY <1>h, <1>1, <2>1, <2>2, InsertedSound
  <2>4. /\ q.at = t /\ q.from = p.from /\ q.up = p.up /\ q.ups = p.ups
        /\ q.start = p.start /\ q.pos = p.pos + 1 /\ p.pos \in Nat
    BY <1>1, <2>1 DEF IsMerge
  <2>5. /\ Sound(p.from, PubLogs) /\ Progress(p, db[r])
        /\ p.up # None => LogPrefix(p.from.log, PubLogs[p.up])
    BY <1>h, <1>1 DEF MergeSound, NoProcess, Idle, Tables
  <2>6. UpsToRecord(q, e, PubLogs)
    <3>1. UpsToRecord(p, db[r], PubLogs)
      BY SMTT(30), <1>h, <1>1 DEF MergeSound, NoProcess, Idle, Tables
    <3> QED
      BY <2>3, <2>4, <3>1, MergedKept DEF UpsToRecord
  <2>7. Covered(e, p.from.log, t, p.pos + 1)
    <3>1. Covered(e, p.from.log, t, p.pos)
      BY <1>1, <2>3, <2>5, CoveredKept DEF Progress, Tables
    <3>2. rec = p.from.log[t][p.pos + 1]
      BY DEF NextRecord
    <3>3. p.pos + 1 <= Len(p.from.log[t])
      BY SMTT(30), <1>1, <2>4
    <3>4. ASSUME NEW i \in 1 .. p.pos + 1
          PROVE  /\ p.from.log[t][i].key \in DOMAIN e.map[t]
                 /\ e.map[t][p.from.log[t][i].key] = p.from.log[t][i].by
      <4>1. i \in 1 .. p.pos \/ i = p.pos + 1
        BY <2>4
      <4> QED
        BY ZenonT(60), <2>3, <3>1, <3>2, <4>1 DEF Covered
    <3> QED
      BY <3>3, <3>4 DEF Covered
  <2>8. Progress(q, e)
    <3>1. CASE t = "commits"
      <4>1. Covered(e, p.from.log, "svnbase", p.start["svnbase"])
        BY <1>1, <2>3, <2>5, <3>1, CoveredKept DEF Progress, Tables
      <4> QED
        BY <2>4, <2>7, <3>1, <4>1 DEF Progress
    <3>2. CASE t = "svnbase"
      <4>1. Covered(e, p.from.log, "commits", Len(p.from.log["commits"]))
        BY <1>1, <2>3, <2>5, <3>2, CoveredKept DEF Progress, Tables
      <4> QED
        BY <2>4, <2>7, <3>2, <4>1 DEF Progress
    <3> QED
      BY <3>1, <3>2 DEF Tables
  <2>9. MergeSound(q, e, PubLogs)
    BY <2>4, <2>5, <2>6, <2>8 DEF MergeSound
  <2> QED
    BY <1>h, <2>1, <2>3, <2>9, LocalGrows
<1> QED
  BY <1>2, <1>3, <1>4

\* A merge begins with what the recorded size says of the snapshot.
LEMMA LocalBeginMerge ==
  ASSUME IInv, TypeOK', NEW r \in Repo, NEW u \in Repo, BeginMerge(r, u)
  PROVE  Local(r)
<1> DEFINE main == db[r]
           d == Published(u)
           up == NameOf(u, d)
           from == Recorded(main, up).size
           p == proc'[r]
<1>h. /\ IsDb(main) /\ IsDb(d) /\ IsDb(db'[r]) /\ DOMAIN proc = Repo
      /\ Sound(main, PubLogs) /\ Sound(d, PubLogs) /\ PubLogs \in Pubs
  BY PubLogsType DEF IInv, TypeOK, RepoSound, Published
<1>1. /\ p = [at |-> "commits", up |-> up, from |-> d, main |-> NameOf(r, main),
              ups |-> Extend(MergedUps(main, d), up, SizesOf(d)),
              start |-> from, pos |-> from["commits"]]
      /\ db' = db /\ saved' = saved
      /\ Mergeable(main, NameOf(r, main), d, up)
  BY <1>h DEF BeginMerge
<1>2. up # None => up = u /\ PubLogs[up] = d.log
  BY DEF NameOf, PubLogs
<1>3. p.up # None => LogPrefix(p.from.log, PubLogs[p.up])
  BY <1>h, <1>1, <1>2, PrefixOfItself DEF IsDb
<1>4. UpsToRecord(p, main, PubLogs)
  <2> SUFFICES ASSUME NEW v \in DOMAIN p.ups \ {None}
               PROVE  \/ v = p.up /\ p.ups[v].size = SizesOf(p.from).size
                      \/ v \in DOMAIN p.from.ups /\ p.ups[v] = p.from.ups[v]
                      \/ Merged(main, PubLogs[v], p.ups[v])
    BY DEF UpsToRecord
  <2>1. p.ups = Extend(MergedUps(main, d), up, SizesOf(d)) /\ p.up = up /\ p.from = d
    BY <1>1
  <2>2. CASE v = up
    BY <2>1, <2>2 DEF Extend
  <2>3. CASE v # up /\ v \in DOMAIN d.ups
    BY <2>1, <2>3 DEF Extend, MergedUps
  <2>4. CASE v # up /\ v \notin DOMAIN d.ups
    <3>1. v \in DOMAIN main.ups /\ p.ups[v] = main.ups[v]
      BY <2>1, <2>4 DEF Extend, MergedUps
    <3> QED
      BY <1>h, <3>1 DEF Sound, UpsMerged
  <2> QED
    BY <2>2, <2>3, <2>4
<1>5. \A t \in Tables : Covered(main, d.log, t, from[t])
  <2>1. CASE up \in DOMAIN main.ups
    <3>1. up # None
      BY <1>h, <1>1, <2>1 DEF Mergeable, Sound, NamesReadable
    <3>2. Merged(main, d.log, main.ups[up])
      BY <1>h, <1>2, <2>1, <3>1 DEF Sound, UpsMerged
    <3> QED
      BY <2>1, <3>2 DEF Recorded, Merged, Covered
  <2>2. CASE up \notin DOMAIN main.ups
    <3>1. \A t \in Tables : from[t] = 0 /\ Len(d.log[t]) \in Nat
      BY <1>h, <2>2 DEF Recorded, NothingMerged, IsDb, Logs
    <3> QED
      BY <3>1 DEF Covered
  <2> QED
    BY <2>1, <2>2
<1>6. Progress(p, main)
  BY <1>1, <1>5 DEF Progress, Tables
<1>7. MergeSound(p, main, PubLogs)
  BY <1>h, <1>1, <1>3, <1>4, <1>6 DEF MergeSound
<1>8. LogPrefix(main.log, main.log)
  BY <1>h, PrefixOfItself DEF IsDb
<1> QED
  BY <1>h, <1>1, <1>7, <1>8, LocalGrows

\* A table is finished when all records of the snapshot are mapped.
LEMMA TableFinished ==
  ASSUME NEW d, NEW log \in Logs, NEW t \in Tables, NEW n \in Nat, ~ (n < Len(log[t])),
         Covered(d, log, t, n)
  PROVE  Covered(d, log, t, Len(log[t]))
<1>1. Len(log[t]) \in Nat /\ n <= Len(log[t])
  BY DEF Logs, Covered
<1>2. n = Len(log[t])
  BY <1>1
<1> QED
  BY <1>2

\* Who has all records of a database has its mappings.
LEMMA CoveredExtends ==
  ASSUME NEW d, NEW e, MapInLog(d), \A t \in Tables : Covered(e, d.log, t, Len(d.log[t]))
  PROVE  MapExtends(d, e)
  BY DEF MapInLog, Covered, MapExtends

LEMMA LocalMergeSteps ==
  ASSUME IInv, TypeOK', NEW r \in Repo, MergeSvnbase(r) \/ Truncate(r) \/ Rewrite(r)
  PROVE  Local(r)
<1> DEFINE p == proc[r]
           q == proc'[r]
           d == db[r]
           e == db'[r]
<1>h. /\ IsDb(d) /\ IsDb(e) /\ DOMAIN db = Repo /\ DOMAIN proc = Repo /\ PubLogs \in Pubs
      /\ Sound(d, PubLogs) /\ MergeSound(p, d, PubLogs) /\ saved' = saved
      /\ p \in {NoProcess, Idle} \/ IsMerge(p)
  BY PubLogsType DEF IInv, TypeOK, RepoSound, MergeSvnbase, Truncate, Rewrite
<1>1. IsMerge(p) /\ p \notin {NoProcess, Idle}
  BY <1>h DEF MergeSvnbase, Truncate, Rewrite, Merging, NoProcess, Idle
<1>2. /\ Sound(p.from, PubLogs) /\ UpsToRecord(p, d, PubLogs) /\ Progress(p, d)
      /\ p.up # None => LogPrefix(p.from.log, PubLogs[p.up])
      /\ p.from.log \in Logs /\ p.pos \in Nat
  BY <1>h, <1>1 DEF MergeSound, IsMerge, IsDb
<1>3. LogPrefix(d.log, d.log)
  BY <1>h, PrefixOfItself DEF IsDb
<1>4. CASE MergeSvnbase(r)
  <2>1. q = [p EXCEPT !.at = "svnbase", !.pos = p.start["svnbase"]] /\ db' = db /\ p.at = "commits"
    BY <1>4, <1>h DEF MergeSvnbase, Merging
  <2>2. q.at = "svnbase" /\ q.from = p.from /\ q.up = p.up /\ q.ups = p.ups /\ q.pos = p.start["svnbase"]
    BY <1>1, <2>1 DEF IsMerge
  <2>3. Covered(d, p.from.log, "commits", Len(p.from.log["commits"]))
    BY <1>2, <1>4, <2>1, TableFinished DEF MergeSvnbase, Left, Progress, Tables
  <2>4. Progress(q, d)
    BY <1>2, <2>1, <2>2, <2>3 DEF Progress
  <2>5. UpsToRecord(q, d, PubLogs)
    BY <1>2, <2>2 DEF UpsToRecord
  <2>6. MergeSound(q, d, PubLogs)
    BY <1>2, <2>2, <2>4, <2>5 DEF MergeSound
  <2> QED
    BY <1>h, <1>3, <2>1, <2>6, LocalGrows
<1>5. CASE Truncate(r)
  <2>1. q = [p EXCEPT !.at = "truncated"] /\ p.at = "svnbase"
        /\ e = [d EXCEPT !.ups = EmptyDb.ups, !.file = "empty"]
    BY <1>5, <1>h DEF Truncate, Merging
  <2>2. q.at = "truncated" /\ q.from = p.from /\ q.up = p.up /\ q.ups = p.ups
    BY <1>1, <2>1 DEF IsMerge
  <2>3. e.log = d.log /\ e.map = d.map /\ DOMAIN e.ups = {}
    BY <1>h, <2>1 DEF IsDb, EmptyDb
  <2>4. Sound(e, PubLogs) /\ MapExtends(d, e)
    BY <1>h, <2>3 DEF Sound, MapInLog, NamesReadable, UpsMerged, MapExtends
  <2>5. Covered(d, p.from.log, "svnbase", Len(p.from.log["svnbase"]))
    BY <1>2, <1>5, <2>1, TableFinished DEF Truncate, Left, Progress, Tables
  <2>6. \A t \in Tables : Covered(e, p.from.log, t, Len(p.from.log[t]))
    <3>1. \A t \in Tables : Covered(d, p.from.log, t, Len(p.from.log[t]))
      BY <1>2, <2>1, <2>5 DEF Progress, Tables
    <3> QED
      BY <2>4, <3>1, CoveredKept
  <2>7. Progress(q, e)
    BY <2>2, <2>6 DEF Progress
  <2>8. UpsToRecord(q, e, PubLogs)
    BY <1>2, <2>2, <2>4, MergedKept DEF UpsToRecord
  <2>9. MergeSound(q, e, PubLogs)
    BY <1>2, <2>2, <2>7, <2>8 DEF MergeSound
  <2> QED
    BY <1>h, <1>3, <2>3, <2>4, <2>9, LocalGrows
<1>6. CASE Rewrite(r)
  <2>1. /\ q = Idle /\ p.at = "truncated"
        /\ e.log = d.log /\ e.map = d.map /\ e.ups = p.ups
        /\ None \in DOMAIN p.ups => e.file = "unreadable"
    BY SMTT(30), <1>6, <1>h DEF Rewrite, IsDb
  <2>2. \A t \in Tables : Covered(e, p.from.log, t, Len(p.from.log[t]))
    BY <1>2, <2>1 DEF Progress, Covered
  <2>3. MapExtends(p.from, e)
    BY <1>2, <2>2, CoveredExtends DEF Sound
  <2>4. UpsMerged(e, PubLogs)
    <3> SUFFICES ASSUME NEW v \in DOMAIN p.ups \ {None} PROVE Merged(e, PubLogs[v], p.ups[v])
      BY <2>1 DEF UpsMerged
    <3>1. CASE v = p.up /\ p.ups[v].size = SizesOf(p.from).size
      <4>1. Merged(e, p.from.log, p.ups[v])
        BY ZenonT(60), <2>2, <3>1 DEF Merged, SizesOf, Covered
      <4>2. v \in Repo /\ p.ups[v] \in Sizes /\ PubLogs[v] \in Logs
        BY <1>h, <1>1 DEF IsMerge, IsPartial, Name, Pubs
      <4> QED
        BY SMTT(30), <1>2, <3>1, <4>1, <4>2, MergedGrows
    <3>2. CASE v \in DOMAIN p.from.ups /\ p.ups[v] = p.from.ups[v]
      <4>1. Merged(p.from, PubLogs[v], p.ups[v])
        BY <1>2, <3>2 DEF Sound, UpsMerged
      <4> QED
        BY <2>3, <4>1, MergedKept
    <3>3. CASE Merged(d, PubLogs[v], p.ups[v])
      BY <2>1, <3>3 DEF Merged
    <3> QED
      BY <1>2, <3>1, <3>2, <3>3 DEF UpsToRecord
  <2>5. Sound(e, PubLogs)
    BY <1>h, <2>1, <2>4 DEF Sound, MapInLog, NamesReadable
  <2> QED
    BY <1>h, <1>3, <2>1, <2>5, LocalGrows DEF MergeSound
<1> QED
  BY <1>4, <1>5, <1>6

LEMMA LocalStep ==
  ASSUME IInv, TypeOK', NEW r \in Repo, Step(r)
  PROVE  Local(r)
  BY LocalSession, LocalGenerate, LocalMergeRecord, LocalBeginMerge, LocalMergeSteps DEF Step

LEMMA InvStep ==
  ASSUME IInv, NEW r \in Repo, Step(r)
  PROVE  IInv'
<1>t. TypeOK /\ TypeOK'
  BY StepType DEF IInv
<1>1. Local(r)
  BY <1>t, LocalStep
<1>f. \A q \in Repo \ {r} : db'[q] = db[q] /\ saved'[q] = saved[q] /\ proc'[q] = proc[q]
  BY <1>t, StepFrame
<1>p. PubLogs \in Pubs /\ PubLogs' \in Pubs
  BY <1>t DEF TypeOK, PubLogs, Pubs, Published, IsDb
<1>g. Grows(PubLogs, PubLogs')
  <2> SUFFICES ASSUME NEW u \in Repo PROVE LogPrefix(PubLogs[u], PubLogs'[u])
    BY DEF Grows
  <2>1. /\ PubLogs[u] = IF u \in MtDb THEN saved[u].log ELSE db[u].log
        /\ PubLogs'[u] = IF u \in MtDb THEN saved'[u].log ELSE db'[u].log
    BY DEF PubLogs, Published
  <2>2. CASE u = r
    BY <1>1, <2>1, <2>2 DEF Local
  <2>3. CASE u # r
    BY <1>f, <1>p, <2>1, <2>3, PrefixOfItself DEF Pubs
  <2> QED
    BY <2>2, <2>3
\* Every repository is sound with what was published before the step ...
<1>2. ASSUME NEW q \in Repo
      PROVE  /\ Sound(db'[q], PubLogs) /\ Sound(saved'[q], PubLogs)
             /\ q \in MtDb => LogPrefix(saved'[q].log, db'[q].log)
             /\ MergeSound(proc'[q], db'[q], PubLogs)
  BY <1>1, <1>f DEF Local, IInv, RepoSound
\* ... and so with what is published now.
<1>3. ASSUME NEW q \in Repo PROVE RepoSound(q)'
  <2>1. /\ IsDb(db'[q]) /\ IsDb(saved'[q])
        /\ proc'[q] \in {NoProcess, Idle} \/ IsMerge(proc'[q])
    BY <1>t DEF TypeOK
  <2>2. Sound(db'[q], PubLogs') /\ Sound(saved'[q], PubLogs')
    BY <1>p, <1>g, <1>2, <2>1, SoundGrows
  <2>3. MapExtends(db'[q], db'[q])
    BY DEF MapExtends
  <2>4. MergeSound(proc'[q], db'[q], PubLogs')
    BY <1>p, <1>g, <1>2, <2>1, <2>3, MergeSoundGrows
  <2> QED
    BY <1>2, <2>2, <2>4 DEF RepoSound
<1> QED
  BY <1>t, <1>3 DEF IInv

LEMMA InvNext == IInv /\ [Next]_vars => IInv'
<1>1. IInv /\ UNCHANGED vars => IInv'
  BY DEF IInv, TypeOK, RepoSound, PubLogs, Published, vars
<1> QED
  BY <1>1, InvStep DEF Next

\* The databases, the saved and published versions and the merges under way
\* keep their invariant.
THEOREM Invariance == Spec => []IInv
  BY InvInit, InvNext, PTL DEF Spec

\* The file "upstreams" never runs ahead of the tables.
THEOREM RecordedIsMergedAlways == Spec => []RecordedIsMerged
<1>1. IInv => RecordedIsMerged
  <2> SUFFICES ASSUME IInv, NEW r \in Repo, NEW u \in DOMAIN db[r].ups \ {None}
               PROVE  Merged(db[r], Published(u).log, db[r].ups[u])
    BY DEF RecordedIsMerged
  <2>1. u \in Repo
    BY DEF IInv, TypeOK, IsDb, IsPartial, Name
  <2> QED
    BY <2>1 DEF IInv, RepoSound, Sound, UpsMerged, PubLogs
<1> QED
  BY <1>1, Invariance, PTL

\* A database that check-upstream calls up-to-date has all the mappings of
\* the upstream.
UpToDateHasMappings ==
  \A r, u \in Repo : UpToDateWith(r, u) => HasMappings(db[r], Published(u))

LEMMA SoundHasMappings ==
  ASSUME IInv, NEW r \in Repo, NEW u \in Repo, UpToDateWith(r, u)
  PROVE  HasMappings(db[r], Published(u))
<1> DEFINE d == Published(u)
           up == NameOf(u, d)
<1>1. Sound(d, PubLogs) /\ Sound(db[r], PubLogs)
  BY DEF IInv, RepoSound, Published
<1>2. up \in DOMAIN db[r].ups /\ db[r].ups[up] = SizesOf(d) /\ db[r].file # "unreadable"
  BY DEF UpToDateWith, UpToDate
<1>3. up # None
  BY <1>1, <1>2 DEF Sound, NamesReadable
<1>4. PubLogs[up] = d.log
  BY <1>3 DEF NameOf, PubLogs
<1>5. Merged(db[r], d.log, SizesOf(d))
  BY <1>1, <1>2, <1>3, <1>4 DEF Sound, UpsMerged
<1>6. \A t \in Tables : Covered(db[r], d.log, t, Len(d.log[t]))
  BY <1>5 DEF Merged, SizesOf, Covered
<1>7. MapExtends(d, db[r])
  BY <1>1, <1>6, CoveredExtends DEF Sound
<1> QED
  BY <1>7 DEF MapExtends, HasMappings

\* check-upstream never says yes while mappings are missing.
THEOREM UpToDateHasMappingsAlways == Spec => []UpToDateHasMappings
<1>1. IInv => UpToDateHasMappings
  BY SoundHasMappings DEF UpToDateHasMappings
<1> QED
  BY <1>1, Invariance, PTL

-----------------------------------------------------------------------------
(***************************************************************************)
(* From version to version, upstreams move forward: what a session saves   *)
(* is what it was opened with, or what a merge that was finished recorded, *)
(* and a merge that would go back is refused when it begins.               *)
(***************************************************************************)
Forward(f, g) == \A u \in DOMAIN f : u \in DOMAIN g /\ AtMost(f[u], g[u])

SessionForward(r) ==
  r \in MtDb =>
    /\ proc[r].at \in {"idle"} \cup Tables => Forward(saved[r].ups, db[r].ups)
    /\ proc[r].at \in Tables \cup {"truncated"} => Forward(saved[r].ups, proc[r].ups)

FInv == TypeOK /\ \A r \in Repo : SessionForward(r)

IsUps(f) == IsPartial(f, Name, Sizes)

LEMMA ForwardReflexive == ASSUME NEW f, IsUps(f) PROVE Forward(f, f)
<1> SUFFICES ASSUME NEW u \in DOMAIN f PROVE AtMost(f[u], f[u])
  BY DEF Forward
<1>1. f[u].n \in Nat /\ \A t \in Tables : f[u].size[t] \in Nat
  BY DEF IsUps, IsPartial, Sizes
<1> QED
  BY <1>1 DEF AtMost

LEMMA ForwardTransitive ==
  ASSUME NEW f, NEW g, NEW h, IsUps(f), IsUps(g), IsUps(h), Forward(f, g), Forward(g, h)
  PROVE  Forward(f, h)
<1> SUFFICES ASSUME NEW u \in DOMAIN f PROVE u \in DOMAIN h /\ AtMost(f[u], h[u])
  BY DEF Forward
<1>1. u \in DOMAIN g /\ u \in DOMAIN h /\ AtMost(f[u], g[u]) /\ AtMost(g[u], h[u])
  BY DEF Forward
<1>2. /\ f[u].n \in Nat /\ g[u].n \in Nat /\ h[u].n \in Nat
      /\ \A t \in Tables : f[u].size[t] \in Nat /\ g[u].size[t] \in Nat /\ h[u].size[t] \in Nat
  BY <1>1 DEF IsUps, IsPartial, Sizes
<1>3. \A t \in Tables : f[u].size[t] <= h[u].size[t]
  BY <1>1, <1>2 DEF AtMost
<1> QED
  BY <1>1, <1>2, <1>3 DEF AtMost

\* A merge that begins is to record at least what its database records.
LEMMA BeginForward ==
  ASSUME NEW main, NEW d, NEW name, NEW up, IsDb(main), IsDb(d),
         Mergeable(main, name, d, up), OnlyForward(main, d)
  PROVE  Forward(main.ups, Extend(MergedUps(main, d), up, SizesOf(d)))
<1> DEFINE new == Extend(MergedUps(main, d), up, SizesOf(d))
<1> SUFFICES ASSUME NEW u \in DOMAIN main.ups
             PROVE  u \in DOMAIN new /\ AtMost(main.ups[u], new[u])
  BY DEF Forward
<1>1. u \in DOMAIN new
  BY DEF Extend, MergedUps
<1> HIDE DEF new
<1>2. CASE u = up
  <2>1. new[u] = SizesOf(d)
    BY <1>1, <1>2 DEF new, Extend
  <2> QED
    BY <1>1, <1>2, <2>1 DEF Mergeable, Recorded
<1>3. CASE u # up /\ u \in DOMAIN d.ups
  <2>1. new[u] = d.ups[u]
    BY <1>3 DEF new, Extend, MergedUps
  <2> QED
    BY <1>1, <1>3, <2>1 DEF OnlyForward
<1>4. CASE u # up /\ u \notin DOMAIN d.ups
  <2>1. new[u] = main.ups[u]
    BY <1>4 DEF new, Extend, MergedUps
  <2>2. Forward(main.ups, main.ups)
    BY ForwardReflexive DEF IsDb, IsUps
  <2> QED
    BY <1>1, <2>1, <2>2 DEF Forward
<1> QED
  BY <1>1, <1>2, <1>3, <1>4

LEMMA ForwardInit == Init => FInv
  BY TypeInit DEF Init, FInv, SessionForward, NoProcess, Tables

LEMMA ForwardStep ==
  ASSUME FInv, NEW r \in Repo, Step(r)
  PROVE  FInv'
<1>t. TypeOK /\ TypeOK'
  BY StepType DEF FInv
<1>f. \A q \in Repo \ {r} : db'[q] = db[q] /\ saved'[q] = saved[q] /\ proc'[q] = proc[q]
  BY <1>t, StepFrame
<1>h. /\ DOMAIN db = Repo /\ DOMAIN saved = Repo /\ DOMAIN proc = Repo
      /\ IsDb(db[r]) /\ IsDb(saved[r]) /\ IsDb(db'[r])
      /\ IsUps(db[r].ups) /\ IsUps(saved[r].ups) /\ IsUps(db'[r].ups)
      /\ SessionForward(r)
  BY <1>t DEF FInv, TypeOK, IsDb, IsUps
<1>s. SUFFICES SessionForward(r)'
  BY <1>s, <1>t, <1>f DEF FInv, SessionForward
<1> DEFINE p == proc[r]
           q == proc'[r]
<1>1. CASE Open(r)
  BY <1>1, <1>h, ForwardReflexive DEF Open, Idle, SessionForward, Tables
<1>2. CASE Close(r) \/ Fail(r)
  BY <1>2, <1>h DEF Close, Fail, NoProcess, SessionForward, Tables
<1>3. CASE Save(r)
  BY <1>3, <1>h, ForwardReflexive DEF Save, Idle, SessionForward, Tables
<1>4. ASSUME NEW t \in Tables, NEW k \in Keys(t), Generate(r, t, k) \/ FailInserting(r, t, k)
      PROVE  SessionForward(r)'
  <2> DEFINE rec == [key |-> k, by |-> r]
  <2>1. rec \in Record
    BY DEF Record, Keys
  <2>2. Inserted(db[r], t, rec).ups = db[r].ups
    BY <1>h, InsertedUps
  <2>3. [db[r] EXCEPT !.log[t] = Append(@, rec)].ups = db[r].ups
    BY <1>h DEF IsDb
  <2>4. db'[r].ups = db[r].ups /\ saved' = saved /\ (q = p \/ q = NoProcess) /\ p = Idle
    BY <1>4, <1>h, <2>2, <2>3 DEF Generate, FailInserting
  <2> QED
    BY <1>h, <2>4 DEF SessionForward, NoProcess, Idle, Tables
<1>5. ASSUME NEW t \in Tables, MergeRecord(r, t) \/ AlreadyMapped(r, t) \/ FailMerging(r, t)
      PROVE  SessionForward(r)'
  <2>1. IsMerge(p) /\ NextRecord(r, t) \in Record
    BY <1>5, <1>t, NextRecordType DEF MergeRecord, AlreadyMapped, FailMerging
  <2>2. Inserted(db[r], t, NextRecord(r, t)).ups = db[r].ups
    BY <1>h, InsertedUps
  <2>3. [db[r] EXCEPT !.log[t] = Append(@, NextRecord(r, t))].ups = db[r].ups
    BY <1>h DEF IsDb
  <2>4. db'[r].ups = db[r].ups /\ saved' = saved /\ (q = [p EXCEPT !.pos = @ + 1] \/ q = NoProcess)
    BY <1>5, <1>h, <2>2, <2>3 DEF MergeRecord, AlreadyMapped, FailMerging
  <2>5. q = NoProcess \/ (q.at = p.at /\ q.ups = p.ups)
    BY <2>1, <2>4 DEF IsMerge
  <2> QED
    BY <1>h, <2>4, <2>5 DEF SessionForward, NoProcess, Tables
<1>6. ASSUME NEW u \in Repo, BeginMerge(r, u)
      PROVE  SessionForward(r)'
  <2> DEFINE d == Published(u)
             up == NameOf(u, d)
  <2>1. /\ q.at = "commits" /\ q.ups = Extend(MergedUps(db[r], d), up, SizesOf(d))
        /\ db' = db /\ saved' = saved /\ p = Idle
    BY <1>6, <1>h DEF BeginMerge
  <2>2. IsDb(d)
    BY <1>t DEF TypeOK, Published
  <2>3. Forward(db[r].ups, q.ups)
    BY <1>6, <1>h, <2>1, <2>2, BeginForward DEF BeginMerge
  <2>4. IsUps(q.ups)
    BY <1>t, <2>1 DEF TypeOK, IsMerge, IsUps, NoProcess, Idle
  <2>5. r \in MtDb => Forward(saved[r].ups, db[r].ups)
    BY <1>h, <2>1 DEF SessionForward, Idle
  <2>6. r \in MtDb => Forward(saved[r].ups, q.ups)
    BY <1>h, <2>3, <2>4, <2>5, ForwardTransitive
  <2> QED
    BY <2>1, <2>5, <2>6 DEF SessionForward
<1>7. CASE MergeSvnbase(r) \/ Truncate(r)
  <2>1. IsMerge(p)
    BY <1>t, <1>7 DEF TypeOK, MergeSvnbase, Truncate, Merging, NoProcess, Idle
  <2>2. /\ saved' = saved /\ p.at \in Tables /\ q.ups = p.ups
        /\ \/ q.at = "svnbase" /\ db' = db
           \/ q.at = "truncated"
    BY <1>7, <1>h, <2>1 DEF MergeSvnbase, Truncate, Merging, IsMerge, Tables
  <2> QED
    BY <1>h, <2>2 DEF SessionForward, Tables
<1>8. CASE Rewrite(r)
  <2>1. p.at = "truncated" /\ q = Idle /\ saved' = saved /\ db'[r].ups = p.ups
    BY <1>8, <1>h DEF Rewrite, IsDb
  <2> QED
    BY <1>h, <2>1 DEF SessionForward, Idle, Tables
<1> QED
  BY <1>1, <1>2, <1>3, <1>4, <1>5, <1>6, <1>7, <1>8 DEF Step

\* A saved version records what the one before it recorded.
LEMMA SavedForward ==
  ASSUME FInv, NEW r \in Repo, Step(r)
  PROVE  \A q \in Repo : Forward(saved[q].ups, saved'[q].ups)
<1>1. \A q \in Repo : Forward(saved[q].ups, saved[q].ups)
  BY ForwardReflexive DEF FInv, TypeOK, IsDb, IsUps
<1>2. CASE Save(r)
  BY <1>1, <1>2 DEF Save, Idle, FInv, TypeOK, SessionForward
<1>3. CASE ~Save(r)
  <2>1. saved' = saved
    BY <1>3 DEF Step, Open, Close, Generate, FailInserting, MergeRecord, AlreadyMapped,
       FailMerging, BeginMerge, MergeSvnbase, Truncate, Rewrite, Fail
  <2> QED
    BY <1>1, <2>1
<1> QED
  BY <1>2, <1>3

\* Nothing that a saved version records is taken back by a later one.
THEOREM UpstreamsMoveForwardAlways == Spec => UpstreamsMoveForward
<1> DEFINE Kept == \A r \in Repo : Forward(saved[r].ups, saved'[r].ups)
<1>1. Init => FInv
  BY ForwardInit
<1>2. FInv /\ [Next]_vars => FInv'
  <2>1. FInv /\ UNCHANGED vars => FInv'
    BY DEF FInv, TypeOK, SessionForward, vars
  <2> QED
    BY <2>1, ForwardStep DEF Next
<1>3. ASSUME FInv, [Next]_vars PROVE [Kept]_saved
  BY <1>3, SavedForward DEF Next, vars
<1>4. Kept <=> \A r \in Repo : \A u \in DOMAIN saved[r].ups :
                  /\ u \in DOMAIN saved'[r].ups
                  /\ AtMost(saved[r].ups[u], saved'[r].ups[u])
  BY DEF Forward
<1> QED
  BY <1>1, <1>2, <1>3, <1>4, PTL DEF Spec, UpstreamsMoveForward

-----------------------------------------------------------------------------
(***************************************************************************)
(* Cascades.  With one upstream per repository, two numbers and the sizes  *)
(* of two tables tell all versions of a database apart: whatever a merge   *)
(* adds to the file "upstreams" adds a name to it or a record to a table.  *)
(***************************************************************************)
Active(r) == proc[r].at \in Tables \cup {"truncated"}

\* The names in r's file "upstreams": the one upstream of r, and what that had
\* merged when it was merged.
Shape(r, ups, pub) ==
  /\ DOMAIN ups \subseteq MtDb \ {r}
  /\ DOMAIN ups # {} =>
       \E u \in DOMAIN ups :
         /\ <<r, u>> \in Pairs
         /\ Cardinality(DOMAIN ups) = 1 + ups[u].n
         /\ DOMAIN ups \subseteq {u} \cup DOMAIN pub[u].ups

\* A merge knows its upstream, and the upstreams of that.
MergeShape(r, p) ==
  /\ p.up \in MtDb \ {r} /\ <<r, p.up>> \in Pairs
  /\ p.up \in DOMAIN p.ups /\ p.ups[p.up] = SizesOf(p.from)
  /\ DOMAIN p.from.ups \subseteq DOMAIN p.ups
  /\ r \in MtDb => p.main = r

RepoShape(r) ==
  /\ Shape(r, db[r].ups, saved) /\ Shape(r, saved[r].ups, saved)
  /\ r \in MtDb => /\ saved[r].file = "named"
                   /\ proc[r].at \in {"idle"} \cup Tables => db[r].file = "named"
  /\ Active(r) => Shape(r, proc[r].ups, saved) /\ MergeShape(r, proc[r])

\* What is recorded of an upstream is what it was once, and who recorded the
\* sizes that it has now has all that it records.
Known(ups, pub) ==
  \A u \in DOMAIN ups :
    /\ AtMost(ups[u], SizesOf(pub[u]))
    /\ ups[u] = SizesOf(pub[u]) => Forward(pub[u].ups, ups)

Ahead(d, e) ==
  /\ AtMost(SizesOf(d), SizesOf(e))
  /\ SizesOf(d) = SizesOf(e) => d.ups = e.ups

\* The records of the snapshot that a merge has behind it.
Reached(p, t) ==
  IF p.at = t THEN p.pos ELSE IF p.at = "commits" THEN p.start[t] ELSE Len(p.from.log[t])

\* A merge under way will have more than s: a name, or a record.
WillGain(s, d, p) ==
  \/ Cardinality(DOMAIN s.ups) < Cardinality(DOMAIN p.ups)
  \/ \E t \in Tables : Len(s.log[t]) < Len(d.log[t]) + Len(p.from.log[t]) - Reached(p, t)

RepoKnown(r) ==
  /\ Known(db[r].ups, saved) /\ Known(saved[r].ups, saved)
  /\ Active(r) => Known(proc[r].ups, saved)
  /\ r \in MtDb => /\ proc[r] = Idle => Ahead(saved[r], db[r])
                   /\ Active(r) => WillGain(saved[r], db[r], proc[r])


CascadeInv == IInv /\ FInv /\ \A r \in Repo : RepoShape(r) /\ RepoKnown(r)

LEMMA ShapeGrows ==
  ASSUME NEW r, NEW ups, NEW pub, NEW pub2,
         \A u \in Repo : Forward(pub[u].ups, pub2[u].ups), Shape(r, ups, pub)
  PROVE  Shape(r, ups, pub2)
<1>1. \A u \in Repo : DOMAIN pub[u].ups \subseteq DOMAIN pub2[u].ups
  BY DEF Forward
<1>2. DOMAIN ups \subseteq Repo
  BY UpstreamAssumption DEF UpstreamAssumption, Shape
<1> QED
  BY <1>1, <1>2 DEF Shape

\* The names that a merge of u will record: u, and those that u records.
LEMMA ShapeBegins ==
  ASSUME Cascade, NEW r \in Repo, NEW u \in Repo, <<r, u>> \in Pairs, NEW pub, NEW main,
         u # r, r \notin DOMAIN pub[u].ups, IsDb(pub[u]), IsDb(main),
         Shape(r, main.ups, pub), Shape(u, pub[u].ups, pub)
  PROVE  LET new == Extend(MergedUps(main, pub[u]), u, SizesOf(pub[u]))
         IN  /\ Shape(r, new, pub)
             /\ DOMAIN new = {u} \cup DOMAIN pub[u].ups
             /\ Cardinality(DOMAIN new) = 1 + Cardinality(DOMAIN pub[u].ups)
             /\ new[u] = SizesOf(pub[u])
<1> DEFINE d == pub[u]
           new == Extend(MergedUps(main, d), u, SizesOf(d))
<1>1. u \in MtDb /\ \A v \in Repo : <<r, v>> \in Pairs => v = u
  BY DEF Cascade
<1>2. DOMAIN main.ups \subseteq {u} \cup DOMAIN d.ups
  BY <1>1, UpstreamAssumption DEF Shape, UpstreamAssumption
<1>3. DOMAIN new = {u} \cup DOMAIN d.ups
  BY <1>2 DEF Extend, MergedUps
<1>4. u \notin DOMAIN d.ups /\ DOMAIN d.ups \subseteq MtDb
  BY DEF Shape
<1>5. Cardinality(DOMAIN new) = 1 + Cardinality(DOMAIN d.ups)
  <2>1. IsFiniteSet(DOMAIN d.ups)
    BY <1>4, FS_Subset, UpstreamAssumption DEF UpstreamAssumption
  <2>2. Cardinality(DOMAIN d.ups) \in Nat
    BY <2>1, FS_CardinalityType
  <2>3. DOMAIN new = DOMAIN d.ups \cup {u}
    BY <1>3
  <2>4. Cardinality(DOMAIN d.ups \cup {u}) = Cardinality(DOMAIN d.ups) + 1
    BY <1>4, <2>1, FS_AddElement
  <2> HIDE DEF new
  <2> QED
    BY <2>2, <2>3, <2>4
<1>6. new[u] = SizesOf(d)
  BY DEF Extend
<1> HIDE DEF new
<1>7. new[u].n = Cardinality(DOMAIN d.ups)
  BY <1>6 DEF SizesOf
<1>8. Shape(r, new, pub)
  BY <1>1, <1>3, <1>4, <1>5, <1>7 DEF Shape
<1> QED
  BY <1>3, <1>5, <1>6, <1>8 DEF new

\* What one step does to r, up to the growth of what is saved.
LocalShape(r) ==
  /\ Shape(r, db'[r].ups, saved) /\ Shape(r, saved'[r].ups, saved)
  /\ r \in MtDb => /\ saved'[r].file = "named"
                   /\ proc'[r].at \in {"idle"} \cup Tables => db'[r].file = "named"
  /\ Active(r)' => Shape(r, proc'[r].ups, saved) /\ MergeShape(r, proc'[r])

\* A merge that begins opens a version that is saved.
LEMMA BeginCascade ==
  ASSUME Cascade, CascadeInv, NEW r \in Repo, NEW u \in Repo, <<r, u>> \in Pairs, BeginMerge(r, u)
  PROVE  LET d == saved[u]
             q == proc'[r]
         IN  /\ u \in MtDb /\ u # r /\ r \notin DOMAIN d.ups
             /\ q.at = "commits" /\ q.up = u /\ q.from = d
             /\ q.ups = Extend(MergedUps(db[r], d), u, SizesOf(d))
             /\ q.start = Recorded(db[r], u).size /\ q.pos = q.start["commits"]
             /\ r \in MtDb => q.main = r
             /\ db' = db /\ saved' = saved /\ proc[r] = Idle
             /\ Mergeable(db[r], NameOf(r, db[r]), d, u) /\ OnlyForward(db[r], d)
<1> DEFINE d == saved[u]
<1>1. u \in MtDb
  BY DEF Cascade
<1>2. Published(u) = d /\ NameOf(u, d) = u
  BY <1>1 DEF Published, NameOf, CascadeInv, RepoShape
<1>3. proc[r] = Idle /\ DOMAIN proc = Repo
  BY DEF BeginMerge, CascadeInv, IInv, TypeOK
<1>4. r \in MtDb => NameOf(r, db[r]) = r
  BY <1>3 DEF CascadeInv, RepoShape, NameOf, Idle
<1>5. Mergeable(db[r], NameOf(r, db[r]), d, u) /\ OnlyForward(db[r], d)
  BY <1>2 DEF BeginMerge
<1>6. u # r /\ r \notin DOMAIN d.ups
  <2>1. CASE r \in MtDb
    BY <1>4, <1>5, <2>1 DEF Mergeable
  <2>2. CASE r \notin MtDb
    BY <1>1, <2>2 DEF CascadeInv, RepoShape, Shape
  <2> QED
    BY <2>1, <2>2
<1>7. proc'[r] = [at |-> "commits", up |-> u, from |-> d, main |-> NameOf(r, db[r]),
                  ups |-> Extend(MergedUps(db[r], d), u, SizesOf(d)),
                  start |-> Recorded(db[r], u).size, pos |-> Recorded(db[r], u).size["commits"]]
  BY <1>2, <1>3 DEF BeginMerge
<1> QED
  BY <1>1, <1>3, <1>4, <1>5, <1>6, <1>7 DEF BeginMerge

LEMMA ShapeInit == Init => \A r \in Repo : RepoShape(r)
<1> SUFFICES ASSUME Init, NEW r \in Repo PROVE RepoShape(r)
  OBVIOUS
<1>1. db[r] = EmptyDb /\ saved[r] = EmptyDb /\ proc[r] = NoProcess
  BY DEF Init
<1>2. \A q : Shape(q, EmptyDb.ups, saved) /\ EmptyDb.file = "named"
  BY DEF Shape, EmptyDb
<1> QED
  BY <1>1, <1>2 DEF RepoShape, Active, NoProcess, Tables

\* The fields that a step of a merge leaves alone.
RecordStep(r) ==
  \E t \in Tables :
    \/ \E k \in Keys(t) : Generate(r, t, k) \/ FailInserting(r, t, k)
    \/ MergeRecord(r, t) \/ AlreadyMapped(r, t) \/ FailMerging(r, t)

LEMMA InsertedFile ==
  \A d, t, rec : IsDb(d) => Inserted(d, t, rec).file = d.file
  BY DEF Inserted, IsDb

LEMMA RecordKept ==
  ASSUME TypeOK, NEW r \in Repo, RecordStep(r)
  PROVE  /\ saved' = saved /\ db'[r].ups = db[r].ups /\ db'[r].file = db[r].file
         /\ \/ proc'[r] = NoProcess
            \/ proc'[r] = Idle /\ proc[r] = Idle
            \/ /\ IsMerge(proc[r]) /\ proc'[r] = [proc[r] EXCEPT !.pos = @ + 1]
<1>h. DOMAIN db = Repo /\ DOMAIN proc = Repo /\ IsDb(db[r])
  BY DEF TypeOK
<1> DEFINE Goal ==
      /\ saved' = saved /\ db'[r].ups = db[r].ups /\ db'[r].file = db[r].file
      /\ \/ proc'[r] = NoProcess
         \/ proc'[r] = Idle /\ proc[r] = Idle
         \/ /\ IsMerge(proc[r]) /\ proc'[r] = [proc[r] EXCEPT !.pos = @ + 1]
<1>1. ASSUME NEW t \in Tables, NEW k \in Keys(t), Generate(r, t, k) \/ FailInserting(r, t, k)
      PROVE  Goal
  <2> DEFINE rec == [key |-> k, by |-> r]
  <2>1. rec \in Record
    BY DEF Record, Keys
  <2> DEFINE e1 == Inserted(db[r], t, rec)
             e2 == [db[r] EXCEPT !.log[t] = Append(@, rec)]
  <2> HIDE DEF rec
  <2>2. e1.ups = db[r].ups /\ e1.file = db[r].file
    BY <1>h, InsertedUps, InsertedFile
  <2>4. e2.ups = db[r].ups /\ e2.file = db[r].file
    BY <1>h DEF IsDb
  <2>3. /\ db'[r] = Inserted(db[r], t, rec) \/ db'[r] = [db[r] EXCEPT !.log[t] = Append(@, rec)]
        /\ saved' = saved /\ proc[r] = Idle
        /\ proc'[r] = NoProcess \/ proc'[r] = proc[r]
    BY <1>1, <1>h DEF Generate, FailInserting, rec
  <2> QED
    BY <2>2, <2>3, <2>4
<1>2. ASSUME NEW t \in Tables, MergeRecord(r, t) \/ AlreadyMapped(r, t) \/ FailMerging(r, t)
      PROVE  Goal
  <2> DEFINE rec == NextRecord(r, t)
  <2>1. rec \in Record /\ IsMerge(proc[r])
    BY <1>2, NextRecordType DEF MergeRecord, AlreadyMapped, FailMerging
  <2> DEFINE e1 == Inserted(db[r], t, rec)
             e2 == [db[r] EXCEPT !.log[t] = Append(@, rec)]
  <2> HIDE DEF rec
  <2>2. e1.ups = db[r].ups /\ e1.file = db[r].file
    BY <1>h, InsertedUps, InsertedFile
  <2>4. e2.ups = db[r].ups /\ e2.file = db[r].file
    BY <1>h DEF IsDb
  <2>3. /\ \/ db'[r] = Inserted(db[r], t, rec) \/ db'[r] = [db[r] EXCEPT !.log[t] = Append(@, rec)]
           \/ db'[r] = db[r]
        /\ saved' = saved
        /\ proc'[r] = NoProcess \/ proc'[r] = [proc[r] EXCEPT !.pos = @ + 1]
    BY <1>2, <1>h DEF MergeRecord, AlreadyMapped, FailMerging, rec
  <2> QED
    BY <2>1, <2>2, <2>3, <2>4
<1> QED
  BY <1>1, <1>2 DEF RecordStep

LEMMA ShapeStep ==
  ASSUME Cascade, CascadeInv, NEW r \in Repo, Step(r)
  PROVE  LocalShape(r)
<1> DEFINE p == proc[r]
           q == proc'[r]
<1>h. /\ DOMAIN db = Repo /\ DOMAIN saved = Repo /\ DOMAIN proc = Repo
      /\ IsDb(db[r]) /\ IsDb(saved[r]) /\ RepoShape(r) /\ TypeOK
      /\ p \in {NoProcess, Idle} \/ IsMerge(p)
  BY DEF CascadeInv, IInv, TypeOK
<1>1. CASE Open(r) \/ Close(r) \/ Save(r) \/ Fail(r)
  BY <1>1, <1>h DEF Open, Close, Save, Fail, LocalShape, RepoShape, Active, NoProcess, Idle, Tables
<1>2. CASE RecordStep(r)
  <2>1. /\ saved' = saved /\ db'[r].ups = db[r].ups /\ db'[r].file = db[r].file
        /\ \/ q = NoProcess
           \/ q = Idle /\ p = Idle
           \/ IsMerge(p) /\ q = [p EXCEPT !.pos = @ + 1]
    BY <1>h, <1>2, RecordKept
  <2>2. CASE q \in {NoProcess, Idle}
    BY <1>h, <2>1, <2>2 DEF LocalShape, RepoShape, Active, NoProcess, Idle, Tables
  <2>3. CASE IsMerge(p) /\ q = [p EXCEPT !.pos = @ + 1]
    <3>1. q.at = p.at /\ q.up = p.up /\ q.ups = p.ups /\ q.from = p.from /\ q.main = p.main
      BY <2>3 DEF IsMerge
    <3> QED
      BY <1>h, <2>1, <3>1 DEF LocalShape, RepoShape, Active, MergeShape
  <2> QED
    BY <2>1, <2>2, <2>3
<1>3. ASSUME NEW u \in Repo, <<r, u>> \in Pairs, BeginMerge(r, u)
      PROVE  LocalShape(r)
  <2> DEFINE d == saved[u]
             new == Extend(MergedUps(db[r], d), u, SizesOf(d))
  <2>1. /\ u \in MtDb /\ u # r /\ r \notin DOMAIN d.ups
        /\ q.at = "commits" /\ q.up = u /\ q.from = d /\ q.ups = new
        /\ r \in MtDb => q.main = r
        /\ db' = db /\ saved' = saved /\ p = Idle
    BY <1>3, BeginCascade
  <2>2. IsDb(d) /\ Shape(u, d.ups, saved) /\ Shape(r, db[r].ups, saved)
    BY DEF CascadeInv, IInv, TypeOK, RepoShape
  <2>3. /\ Shape(r, new, saved) /\ DOMAIN new = {u} \cup DOMAIN d.ups /\ new[u] = SizesOf(d)
    BY <1>3, <1>h, <2>1, <2>2, ShapeBegins
  <2> HIDE DEF new
  <2>4. MergeShape(r, q)
    BY <1>3, <2>1, <2>3 DEF MergeShape
  <2> QED
    BY <1>h, <2>1, <2>3, <2>4 DEF LocalShape, RepoShape, Idle
<1>4. CASE MergeSvnbase(r) \/ Truncate(r)
  <2>1. IsMerge(p) /\ p.at \in Tables
    BY <1>4, <1>h DEF MergeSvnbase, Truncate, Merging, NoProcess, Idle, Tables
  <2>2. /\ q.at \in {"svnbase", "truncated"} /\ q.up = p.up /\ q.ups = p.ups
        /\ q.from = p.from /\ q.main = p.main /\ saved' = saved
        /\ q.at = "svnbase" => db' = db
        /\ db'[r] = db[r] \/ DOMAIN db'[r].ups = {}
    BY <1>4, <1>h, <2>1 DEF MergeSvnbase, Truncate, Merging, IsMerge, IsDb, EmptyDb
  <2>3. Shape(r, db'[r].ups, saved)
    BY <1>h, <2>2 DEF RepoShape, Shape
  <2> QED
    BY <1>h, <2>1, <2>2, <2>3 DEF LocalShape, RepoShape, Active, MergeShape, Tables
<1>5. CASE Rewrite(r)
  <2>1. IsMerge(p) /\ p.at = "truncated" /\ q = Idle /\ saved' = saved /\ db'[r].ups = p.ups
    BY <1>5, <1>h DEF Rewrite, NoProcess, Idle, IsDb
  <2>2. Shape(r, p.ups, saved) /\ MergeShape(r, p)
    BY <1>h, <2>1 DEF RepoShape, Active
  <2>3. r \in MtDb => db'[r].file = "named"
    <3>1. None \notin DOMAIN p.ups /\ (r \in MtDb => p.main # None)
      BY <2>2, UpstreamAssumption DEF Shape, MergeShape, UpstreamAssumption
    <3> QED
      BY <1>5, <1>h, <3>1 DEF Rewrite, IsDb
  <2> QED
    BY <1>h, <2>1, <2>2, <2>3 DEF LocalShape, RepoShape, Active, Idle, Tables
<1> QED
  BY <1>1, <1>2, <1>3, <1>4, <1>5 DEF Step, RecordStep

\* Sizes are ordered.
LEMMA AtMostTransitive ==
  ASSUME NEW e \in Sizes, NEW f \in Sizes, NEW g \in Sizes, AtMost(e, f), AtMost(f, g)
  PROVE  AtMost(e, g)
<1>1. \A t \in Tables : e.size[t] \in Nat /\ f.size[t] \in Nat /\ g.size[t] \in Nat
  BY DEF Sizes
<1>2. \A t \in Tables : e.size[t] <= g.size[t]
  BY <1>1 DEF AtMost
<1>3. e.n <= g.n
  BY DEF AtMost, Sizes
<1> QED
  BY <1>2, <1>3 DEF AtMost

LEMMA AtMostAntisymmetric ==
  ASSUME NEW e \in Sizes, NEW f \in Sizes, AtMost(e, f), AtMost(f, e)
  PROVE  e = f
<1>1. \A t \in Tables : e.size[t] \in Nat /\ f.size[t] \in Nat
  BY DEF Sizes
<1>2. \A t \in Tables : e.size[t] = f.size[t]
  BY <1>1 DEF AtMost
<1>3. e.size = f.size
  BY <1>2 DEF Sizes
<1>4. e.n = f.n
  BY DEF AtMost, Sizes
<1> QED
  BY <1>3, <1>4 DEF Sizes

LEMMA AtMostReflexive == ASSUME NEW e \in Sizes PROVE AtMost(e, e)
  BY DEF AtMost, Sizes

LEMMA AheadReflexive == ASSUME NEW d, IsDb(d) PROVE Ahead(d, d)
  BY SizesType, AtMostReflexive DEF Ahead

\* What is known stays known while other repositories save versions.
LEMMA KnownGrows ==
  ASSUME NEW ups, IsUps(ups), DOMAIN ups \subseteq Repo, NEW pub, NEW pub2,
         \A u \in Repo : IsDb(pub[u]) /\ IsDb(pub2[u]) /\ Ahead(pub[u], pub2[u]),
         Known(ups, pub)
  PROVE  Known(ups, pub2)
<1> SUFFICES ASSUME NEW u \in DOMAIN ups
             PROVE  /\ AtMost(ups[u], SizesOf(pub2[u]))
                    /\ ups[u] = SizesOf(pub2[u]) => Forward(pub2[u].ups, ups)
  BY DEF Known
<1>1. /\ ups[u] \in Sizes /\ SizesOf(pub[u]) \in Sizes /\ SizesOf(pub2[u]) \in Sizes
  BY SizesType DEF IsUps, IsPartial
<1>2. AtMost(ups[u], SizesOf(pub[u])) /\ AtMost(SizesOf(pub[u]), SizesOf(pub2[u]))
  BY DEF Known, Ahead
<1>3. AtMost(ups[u], SizesOf(pub2[u]))
  BY <1>1, <1>2, AtMostTransitive
<1>4. ASSUME ups[u] = SizesOf(pub2[u]) PROVE Forward(pub2[u].ups, ups)
  <2>1. SizesOf(pub[u]) = SizesOf(pub2[u])
    BY <1>1, <1>2, <1>4, AtMostAntisymmetric
  <2> QED
    BY <1>4, <2>1 DEF Known, Ahead
<1> QED
  BY <1>3, <1>4

\* What a merge of u will record is known: u as it is, the rest as u knows it.
LEMMA KnownBegins ==
  ASSUME NEW u \in Repo, NEW pub, NEW main, \A v \in Repo : IsDb(pub[v]), IsDb(main),
         DOMAIN pub[u].ups \subseteq Repo \ {u}, Known(pub[u].ups, pub),
         LET new == Extend(MergedUps(main, pub[u]), u, SizesOf(pub[u]))
         IN  DOMAIN new = {u} \cup DOMAIN pub[u].ups /\ IsUps(new)
  PROVE  Known(Extend(MergedUps(main, pub[u]), u, SizesOf(pub[u])), pub)
<1> DEFINE d == pub[u]
           new == Extend(MergedUps(main, d), u, SizesOf(d))
<1>1. new[u] = SizesOf(d)
  BY DEF Extend
<1>2. \A v \in DOMAIN d.ups : new[v] = d.ups[v]
  BY DEF Extend, MergedUps
<1>3. DOMAIN new = {u} \cup DOMAIN d.ups /\ IsUps(new)
  OBVIOUS
<1>4. IsUps(d.ups) /\ SizesOf(d) \in Sizes /\ IsDb(d)
  BY SizesType DEF IsDb, IsUps
<1> HIDE DEF new
<1>5. Forward(d.ups, new)
  <2>1. Forward(d.ups, d.ups)
    BY <1>4, ForwardReflexive
  <2> QED
    BY <1>2, <1>3, <2>1 DEF Forward
<1>6. ASSUME NEW v \in DOMAIN d.ups
      PROVE  /\ AtMost(new[v], SizesOf(pub[v]))
             /\ new[v] = SizesOf(pub[v]) => Forward(pub[v].ups, new)
  <2>1. /\ AtMost(new[v], SizesOf(pub[v]))
        /\ new[v] = SizesOf(pub[v]) => Forward(pub[v].ups, d.ups)
    BY <1>2 DEF Known
  <2>2. IsUps(pub[v].ups)
    BY DEF IsDb, IsUps
  <2> QED
    BY <1>3, <1>4, <1>5, <2>1, <2>2, ForwardTransitive
<1>7. AtMost(new[u], SizesOf(d))
  BY <1>1, <1>4, AtMostReflexive
<1>8. Known(new, pub)
  BY <1>3, <1>5, <1>6, <1>7 DEF Known
<1> QED
  BY <1>8 DEF new

\* The sizes of a database, as numbers.
LEMMA SizesFields ==
  ASSUME NEW d, IsDb(d)
  PROVE  /\ SizesOf(d).n = Cardinality(DOMAIN d.ups)
         /\ \A t \in Tables : SizesOf(d).size[t] = Len(d.log[t])
         /\ Cardinality(DOMAIN d.ups) \in Nat /\ \A t \in Tables : Len(d.log[t]) \in Nat
<1>1. SizesOf(d) \in Sizes
  BY SizesType
<1>2. /\ SizesOf(d).n = Cardinality(DOMAIN d.ups)
      /\ \A t \in Tables : SizesOf(d).size[t] = Len(d.log[t])
  BY DEF SizesOf
<1> QED
  BY <1>1, <1>2 DEF Sizes

\* A merge is not refused only when it has something to gain.
LEMMA BeginGains ==
  ASSUME Cascade, NEW r \in Repo, NEW u \in Repo, <<r, u>> \in Pairs, NEW pub,
         NEW s, NEW main, NEW d, d = pub[u], IsDb(s), IsDb(main), IsDb(d), Ahead(s, main),
         Shape(r, main.ups, pub), NEW name, Mergeable(main, name, d, u), NEW q,
         q.at = "commits", q.from = d, q.start = Recorded(main, u).size,
         q.pos = q.start["commits"],
         Cardinality(DOMAIN q.ups) = 1 + Cardinality(DOMAIN d.ups)
  PROVE  WillGain(s, main, q)
<1>1. \A t \in Tables : Reached(q, t) = Recorded(main, u).size[t]
  BY DEF Reached, Tables
<1>2. /\ Cardinality(DOMAIN s.ups) <= Cardinality(DOMAIN main.ups)
      /\ \A t \in Tables : Len(s.log[t]) <= Len(main.log[t])
  BY SizesFields DEF Ahead, AtMost
<1>3. /\ \A e \in {s, main, d} : Cardinality(DOMAIN e.ups) \in Nat
      /\ \A e \in {s, main, d} : \A t \in Tables : Len(e.log[t]) \in Nat
  BY SizesFields
<1>4. CASE u \notin DOMAIN main.ups
  <2>1. DOMAIN main.ups = {}
    BY <1>4, UpstreamAssumption DEF Shape, Cascade, UpstreamAssumption
  <2>2. Cardinality(DOMAIN main.ups) = 0
    BY <2>1, FS_EmptySet
  <2> QED
    BY <1>2, <1>3, <2>2 DEF WillGain
<1>5. CASE u \in DOMAIN main.ups
  <2>1. Cardinality(DOMAIN main.ups) = 1 + main.ups[u].n
    BY <1>5, UpstreamAssumption DEF Shape, Cascade, UpstreamAssumption
  <2>2. main.ups[u] # SizesOf(d) /\ AtMost(main.ups[u], SizesOf(d))
    BY <1>5 DEF Mergeable, Recorded
  <2>3. main.ups[u] \in Sizes /\ SizesOf(d) \in Sizes
    BY <1>5, SizesType DEF IsDb, IsPartial
  <2>4. ~AtMost(SizesOf(d), main.ups[u])
    BY <2>2, <2>3, AtMostAntisymmetric
  <2>5. main.ups[u].n \in Nat /\ \A t \in Tables : main.ups[u].size[t] \in Nat
    BY <2>3 DEF Sizes
  <2>6. CASE main.ups[u].n < Cardinality(DOMAIN d.ups)
    BY <1>2, <1>3, <2>1, <2>5, <2>6 DEF WillGain
  <2>7. CASE \E t \in Tables : main.ups[u].size[t] < Len(d.log[t])
    <3>1. PICK t \in Tables : main.ups[u].size[t] < Len(d.log[t])
      BY <2>7
    <3>2. Reached(q, t) = main.ups[u].size[t]
      BY <1>1, <1>5 DEF Recorded
    <3>4. /\ Len(s.log[t]) \in Nat /\ Len(main.log[t]) \in Nat /\ Len(d.log[t]) \in Nat
          /\ main.ups[u].size[t] \in Nat /\ Len(s.log[t]) <= Len(main.log[t])
      BY <1>2, <1>3, <2>5
    <3>5. Len(s.log[t]) < Len(main.log[t]) + Len(d.log[t]) - main.ups[u].size[t]
      <4>1. \A a, b, c, n \in Nat : a <= b /\ n < c => a < b + c - n
        OBVIOUS
      <4> QED
        BY <3>1, <3>4, <4>1
    <3>3. Len(s.log[t]) < Len(main.log[t]) + Len(d.log[t]) - Reached(q, t)
      BY <3>2, <3>5
    <3> QED
      BY <3>3 DEF WillGain
  <2>8. \/ main.ups[u].n < Cardinality(DOMAIN d.ups)
        \/ \E t \in Tables : main.ups[u].size[t] < Len(d.log[t])
    BY <1>3, <2>4, <2>5, SizesFields DEF AtMost
  <2> QED
    BY <2>6, <2>7, <2>8
<1> QED
  BY <1>4, <1>5

\* What one step does to r, up to the versions that are saved.
LocalKnown(r) ==
  /\ Ahead(saved[r], saved'[r])
  /\ Known(db'[r].ups, saved) /\ Known(saved'[r].ups, saved)
  /\ Active(r)' => Known(proc'[r].ups, saved)
  /\ r \in MtDb => /\ proc'[r] = Idle => Ahead(saved'[r], db'[r])
                   /\ Active(r)' => WillGain(saved'[r], db'[r], proc'[r])

LEMMA KnownSession ==
  ASSUME CascadeInv, NEW r \in Repo, Open(r) \/ Close(r) \/ Save(r) \/ Fail(r)
  PROVE  LocalKnown(r)
<1>h. /\ DOMAIN db = Repo /\ DOMAIN saved = Repo /\ DOMAIN proc = Repo
      /\ IsDb(db[r]) /\ IsDb(saved[r]) /\ RepoKnown(r)
  BY DEF CascadeInv, IInv, TypeOK
<1>1. Ahead(saved[r], saved[r]) /\ Ahead(db[r], db[r])
  BY <1>h, AheadReflexive
<1>2. CASE Open(r)
  BY <1>h, <1>1, <1>2 DEF Open, LocalKnown, RepoKnown, Active, Idle, Tables
<1>3. CASE Close(r) \/ Fail(r)
  BY <1>h, <1>1, <1>3 DEF Close, Fail, LocalKnown, RepoKnown, Active, NoProcess, Idle, Tables
<1>4. CASE Save(r)
  BY <1>h, <1>1, <1>4 DEF Save, LocalKnown, RepoKnown, Active, Idle, Tables
<1> QED
  BY <1>2, <1>3, <1>4

\* A database with one record more, and the same upstreams.
LEMMA MoreRecords ==
  ASSUME NEW s, NEW d, NEW e, IsDb(s), IsDb(d), IsDb(e), Ahead(s, d), e.ups = d.ups,
         NEW t \in Tables, Len(e.log[t]) = Len(d.log[t]) + 1,
         \A v \in Tables \ {t} : e.log[v] = d.log[v]
  PROVE  Ahead(s, e)
<1>1. /\ \A f \in {s, d, e} : SizesOf(f).n = Cardinality(DOMAIN f.ups)
      /\ \A f \in {s, d, e} : \A v \in Tables : SizesOf(f).size[v] = Len(f.log[v])
      /\ \A f \in {s, d, e} : \A v \in Tables : Len(f.log[v]) \in Nat
  BY SizesFields
<1>2. /\ SizesOf(s).n <= SizesOf(d).n
      /\ \A v \in Tables : Len(s.log[v]) <= Len(d.log[v])
  BY <1>1 DEF Ahead, AtMost
<1>3. \A v \in Tables : Len(s.log[v]) <= Len(e.log[v])
  <2> SUFFICES ASSUME NEW v \in Tables PROVE Len(s.log[v]) <= Len(e.log[v])
    OBVIOUS
  <2>1. Len(s.log[v]) \in Nat /\ Len(d.log[v]) \in Nat /\ Len(s.log[v]) <= Len(d.log[v])
    BY <1>1, <1>2
  <2>2. Len(e.log[v]) = Len(d.log[v]) \/ Len(e.log[v]) = Len(d.log[v]) + 1
    OBVIOUS
  <2> QED
    BY <2>1, <2>2
<1>4. SizesOf(s).size[t] # SizesOf(e).size[t]
  <2>1. Len(s.log[t]) \in Nat /\ Len(d.log[t]) \in Nat /\ Len(s.log[t]) <= Len(d.log[t])
    BY <1>1, <1>2
  <2>2. Len(s.log[t]) # Len(e.log[t])
    BY <2>1
  <2> QED
    BY <1>1, <2>2
<1>5. AtMost(SizesOf(s), SizesOf(e))
  BY <1>1, <1>2, <1>3 DEF AtMost
<1> QED
  BY <1>4, <1>5 DEF Ahead

LEMMA KnownGenerate ==
  ASSUME CascadeInv, TypeOK', NEW r \in Repo, NEW t \in Tables, NEW k \in Keys(t),
         Generate(r, t, k) \/ FailInserting(r, t, k)
  PROVE  LocalKnown(r)
<1> DEFINE rec == [key |-> k, by |-> r]
<1>h. /\ DOMAIN db = Repo /\ DOMAIN saved = Repo /\ DOMAIN proc = Repo
      /\ IsDb(db[r]) /\ IsDb(db'[r]) /\ IsDb(saved[r]) /\ RepoKnown(r) /\ TypeOK
  BY DEF CascadeInv, IInv, TypeOK
<1>1. saved' = saved /\ db'[r].ups = db[r].ups /\ proc[r] = Idle /\ proc'[r] \in {NoProcess, Idle}
  BY <1>h, RecordKept DEF RecordStep, Generate, FailInserting, NoProcess, Idle
<1>2. Ahead(saved[r], saved[r])
  BY <1>h, AheadReflexive
<1>3. CASE FailInserting(r, t, k)
  <2>1. proc'[r] = NoProcess
    BY <1>3, <1>h DEF FailInserting
  <2> QED
    BY <1>h, <1>1, <1>2, <2>1 DEF LocalKnown, RepoKnown, Active, NoProcess, Idle, Tables
<1>4. CASE Generate(r, t, k)
  <2>1. rec \in Record
    BY DEF Record, Keys
  <2>2. db'[r] = Inserted(db[r], t, rec)
    BY <1>4, <1>h DEF Generate
  <2> HIDE DEF rec
  <2>3. db'[r].log = [db[r].log EXCEPT ![t] = Append(@, rec)]
    BY <1>h, <2>2 DEF Inserted, IsDb
  <2>4. db[r].log[t] \in Seq(Record) /\ DOMAIN db[r].log = Tables
    BY <1>h DEF IsDb, Logs
  <2>5. /\ Len(db'[r].log[t]) = Len(db[r].log[t]) + 1
        /\ \A v \in Tables \ {t} : db'[r].log[v] = db[r].log[v]
    BY <2>1, <2>3, <2>4
  <2>6. r \in MtDb => Ahead(saved[r], db'[r])
    BY <1>h, <1>1, <2>5, MoreRecords DEF RepoKnown
  <2> QED
    BY <1>h, <1>1, <1>2, <2>6 DEF LocalKnown, RepoKnown, Active, NoProcess, Idle, Tables
<1> QED
  BY <1>3, <1>4

\* A record that is merged is one less to come.
LEMMA GainKept ==
  ASSUME NEW s, NEW d, NEW e, IsDb(s), IsDb(d), IsDb(e), NEW p, NEW q, IsMerge(p), IsMerge(q),
         WillGain(s, d, p), q.ups = p.ups, q.from = p.from,
         \A t \in Tables : Len(d.log[t]) - Reached(p, t) <= Len(e.log[t]) - Reached(q, t)
  PROVE  WillGain(s, e, q)
<1>1. ASSUME NEW t \in Tables, Len(s.log[t]) < Len(d.log[t]) + Len(p.from.log[t]) - Reached(p, t)
      PROVE  Len(s.log[t]) < Len(e.log[t]) + Len(q.from.log[t]) - Reached(q, t)
  <2>1. IsDb(p.from)
    BY DEF IsMerge
  <2>2. /\ Len(s.log[t]) \in Nat /\ Len(d.log[t]) \in Nat /\ Len(e.log[t]) \in Nat
        /\ Len(p.from.log[t]) \in Nat
    BY <2>1, SizesFields
  <2>3. Reached(p, t) \in Nat /\ Reached(q, t) \in Nat
    BY <2>1, <2>2 DEF Reached, IsMerge
  <2>4. \A a, b, c, f, m, n \in Nat : a < b + f - m /\ b - m <= c - n => a < c + f - n
    OBVIOUS
  <2> QED
    BY <1>1, <2>2, <2>3, <2>4
<1> QED
  BY <1>1 DEF WillGain

LEMMA KnownMergeRecord ==
  ASSUME CascadeInv, TypeOK', NEW r \in Repo, NEW t \in Tables,
         MergeRecord(r, t) \/ AlreadyMapped(r, t) \/ FailMerging(r, t)
  PROVE  LocalKnown(r)
<1> DEFINE rec == NextRecord(r, t)
           p == proc[r]
           q == proc'[r]
<1>h. /\ DOMAIN db = Repo /\ DOMAIN saved = Repo /\ DOMAIN proc = Repo
      /\ IsDb(db[r]) /\ IsDb(db'[r]) /\ IsDb(saved[r]) /\ RepoKnown(r) /\ TypeOK
      /\ q \in {NoProcess, Idle} \/ IsMerge(q)
  BY DEF CascadeInv, IInv, TypeOK
<1>1. saved' = saved /\ db'[r].ups = db[r].ups
  BY <1>h, RecordKept DEF RecordStep
<1>2. Ahead(saved[r], saved[r])
  BY <1>h, AheadReflexive
<1>3. CASE AlreadyMapped(r, t) \/ FailMerging(r, t)
  <2>1. q = NoProcess
    BY <1>3, <1>h DEF AlreadyMapped, FailMerging
  <2> QED
    BY <1>h, <1>1, <1>2, <2>1 DEF LocalKnown, RepoKnown, Active, NoProcess, Idle, Tables
<1>4. CASE MergeRecord(r, t)
  <2>1. rec \in Record /\ IsMerge(p) /\ p.at = t
    BY <1>4, <1>h, NextRecordType DEF MergeRecord, Merging
  <2>2. db'[r] = Inserted(db[r], t, rec) /\ q = [p EXCEPT !.pos = @ + 1]
    BY <1>4, <1>h DEF MergeRecord
  <2> HIDE DEF rec
  <2>3. db'[r].log = [db[r].log EXCEPT ![t] = Append(@, rec)]
    BY <1>h, <2>2 DEF Inserted, IsDb
  <2>4. db[r].log[t] \in Seq(Record) /\ DOMAIN db[r].log = Tables
    BY <1>h DEF IsDb, Logs
  <2>5. /\ Len(db'[r].log[t]) = Len(db[r].log[t]) + 1
        /\ \A v \in Tables \ {t} : db'[r].log[v] = db[r].log[v]
    BY <2>1, <2>3, <2>4
  <2>6. /\ q.at = p.at /\ q.ups = p.ups /\ q.from = p.from /\ q.start = p.start
        /\ q.pos = p.pos + 1 /\ p.pos \in Nat
    BY <2>1, <2>2 DEF IsMerge
  <2>7. \A v \in Tables : Len(db[r].log[v]) - Reached(p, v) <= Len(db'[r].log[v]) - Reached(q, v)
    <3> SUFFICES ASSUME NEW v \in Tables
                 PROVE  Len(db[r].log[v]) - Reached(p, v) <= Len(db'[r].log[v]) - Reached(q, v)
      OBVIOUS
    <3>1. Len(db[r].log[v]) \in Nat /\ Len(p.from.log[v]) \in Nat
      BY <1>h, <2>1, SizesFields DEF IsMerge
    <3>2. Reached(p, v) \in Nat
      BY <2>1, <3>1 DEF Reached, IsMerge
    <3>3. CASE v = t
      BY <2>1, <2>5, <2>6, <3>1, <3>3 DEF Reached
    <3>4. CASE v # t
      <4>1. Reached(q, v) = Reached(p, v) /\ db'[r].log[v] = db[r].log[v]
        BY <2>1, <2>5, <2>6, <3>4 DEF Reached
      <4> QED
        BY <3>1, <3>2, <4>1
    <3> QED
      BY <3>3, <3>4
  <2>8. IsMerge(q)
    BY <1>h, <2>1, <2>6 DEF NoProcess, Idle, Tables
  <2>9. r \in MtDb => WillGain(saved[r], db'[r], q)
    BY <1>h, <2>1, <2>6, <2>7, <2>8, GainKept DEF RepoKnown, Active
  <2> QED
    BY <1>h, <1>1, <1>2, <2>1, <2>6, <2>9 DEF LocalKnown, RepoKnown, Active, Idle, Tables
<1> QED
  BY <1>3, <1>4

LEMMA KnownBeginMerge ==
  ASSUME Cascade, CascadeInv, TypeOK', NEW r \in Repo, NEW u \in Repo, <<r, u>> \in Pairs,
         BeginMerge(r, u)
  PROVE  LocalKnown(r)
<1> DEFINE d == saved[u]
           q == proc'[r]
           new == Extend(MergedUps(db[r], d), u, SizesOf(d))
<1>1. /\ u \in MtDb /\ u # r /\ r \notin DOMAIN d.ups
      /\ q.at = "commits" /\ q.from = d /\ q.ups = new
      /\ q.start = Recorded(db[r], u).size /\ q.pos = q.start["commits"]
      /\ db' = db /\ saved' = saved /\ proc[r] = Idle
      /\ Mergeable(db[r], NameOf(r, db[r]), d, u)
  BY BeginCascade
<1>h. /\ \A v \in Repo : IsDb(saved[v])
      /\ IsDb(db[r]) /\ RepoKnown(r) /\ RepoKnown(u)
      /\ Shape(u, d.ups, saved) /\ Shape(r, db[r].ups, saved)
      /\ DOMAIN proc = Repo
  BY DEF CascadeInv, IInv, TypeOK, RepoShape
<1>2. DOMAIN new = {u} \cup DOMAIN d.ups /\ Cardinality(DOMAIN new) = 1 + Cardinality(DOMAIN d.ups)
  <2> HIDE DEF q
  <2>1. IsDb(d) /\ Shape(u, d.ups, saved) /\ Shape(r, db[r].ups, saved) /\ IsDb(db[r])
    BY <1>h
  <2>2. u # r /\ r \notin DOMAIN d.ups
    BY <1>1
  <2>3. /\ Shape(r, new, saved) /\ DOMAIN new = {u} \cup DOMAIN d.ups
        /\ Cardinality(DOMAIN new) = 1 + Cardinality(DOMAIN d.ups) /\ new[u] = SizesOf(d)
    BY <2>1, <2>2, ShapeBegins
  <2> QED
    BY <2>3
<1>3. IsUps(new)
  BY <1>1 DEF TypeOK, IsMerge, NoProcess, Idle, IsUps
<1>4. Known(new, saved)
  <2>1. DOMAIN d.ups \subseteq Repo \ {u} /\ Known(d.ups, saved)
    BY <1>h, UpstreamAssumption DEF Shape, RepoKnown, UpstreamAssumption
  <2> QED
    BY <1>2, <1>3, <1>h, <2>1, KnownBegins
<1>5. r \in MtDb => WillGain(saved[r], db[r], q)
  <2> SUFFICES ASSUME r \in MtDb PROVE WillGain(saved[r], db[r], q)
    OBVIOUS
  <2>1. Ahead(saved[r], db[r])
    BY <1>1, <1>h DEF RepoKnown
  <2>2. Cardinality(DOMAIN q.ups) = 1 + Cardinality(DOMAIN d.ups)
    BY <1>1, <1>2
  <2> HIDE DEF new, q
  <2> QED
    BY <1>1, <1>h, <2>1, <2>2, BeginGains
<1>6. Ahead(saved[r], saved[r])
  BY <1>h, AheadReflexive
<1> QED
  BY <1>1, <1>4, <1>5, <1>6, <1>h DEF LocalKnown, RepoKnown, Idle

LEMMA KnownMergeSteps ==
  ASSUME CascadeInv, TypeOK', NEW r \in Repo, MergeSvnbase(r) \/ Truncate(r) \/ Rewrite(r)
  PROVE  LocalKnown(r)
<1> DEFINE p == proc[r]
           q == proc'[r]
<1>h. /\ DOMAIN db = Repo /\ DOMAIN saved = Repo /\ DOMAIN proc = Repo
      /\ IsDb(db[r]) /\ IsDb(db'[r]) /\ IsDb(saved[r]) /\ RepoKnown(r) /\ TypeOK
      /\ q \in {NoProcess, Idle} \/ IsMerge(q)
      /\ p \in {NoProcess, Idle} \/ IsMerge(p)
  BY DEF CascadeInv, IInv, TypeOK
<1>1. saved' = saved /\ IsMerge(p) /\ IsDb(p.from)
  BY <1>h DEF MergeSvnbase, Truncate, Rewrite, Merging, NoProcess, Idle, IsMerge
<1>2. Ahead(saved[r], saved[r])
  BY <1>h, AheadReflexive
<1>3. \A t \in Tables : Len(db[r].log[t]) \in Nat /\ Len(p.from.log[t]) \in Nat
  BY <1>h, <1>1, SizesFields
<1>4. CASE MergeSvnbase(r) \/ Truncate(r)
  <2>1. /\ q.ups = p.ups /\ q.from = p.from /\ p.at \in Tables /\ q.start = p.start
        /\ \/ p.at = "commits" /\ q.at = "svnbase" /\ q.pos = p.start["svnbase"]
           \/ p.at = "svnbase" /\ q.at = "truncated"
        /\ ~Left(r, p.at)
    BY <1>4, <1>h, <1>1 DEF MergeSvnbase, Truncate, Merging, IsMerge, Tables
  <2>2. db'[r].log = db[r].log /\ (db'[r].ups = db[r].ups \/ DOMAIN db'[r].ups = {})
    BY <1>4, <1>h DEF MergeSvnbase, Truncate, IsDb, EmptyDb
  <2>3. IsMerge(q)
    BY <1>h, <2>1 DEF NoProcess, Idle
  <2>4. \A t \in Tables : Len(db[r].log[t]) - Reached(p, t) <= Len(db'[r].log[t]) - Reached(q, t)
    <3> SUFFICES ASSUME NEW t \in Tables
                 PROVE  Len(db[r].log[t]) - Reached(p, t) <= Len(db'[r].log[t]) - Reached(q, t)
      OBVIOUS
    <3>1. p.pos \in Nat /\ p.start[t] \in Nat
      BY <1>1 DEF IsMerge
    <3>2. CASE t = p.at
      <4>1. Reached(p, t) = p.pos /\ Reached(q, t) = Len(p.from.log[t])
        BY <2>1, <3>2 DEF Reached
      <4>2. ~(p.pos < Len(p.from.log[t]))
        BY <2>1, <3>2 DEF Left
      <4>3. \A a, b, c \in Nat : ~(b < c) => a - b <= a - c
        OBVIOUS
      <4>4. Len(db[r].log[t]) - p.pos <= Len(db[r].log[t]) - Len(p.from.log[t])
        BY <1>3, <3>1, <4>2, <4>3
      <4> QED
        BY <2>2, <4>1, <4>4
    <3>3. CASE t # p.at
      <4>1. Reached(q, t) = Reached(p, t) /\ Reached(p, t) \in Nat
        BY <1>3, <2>1, <3>1, <3>3 DEF Reached, Tables
      <4> QED
        BY <1>3, <2>2, <4>1
    <3> QED
      BY <3>2, <3>3
  <2>5. r \in MtDb => WillGain(saved[r], db'[r], q)
    BY <1>h, <1>1, <2>1, <2>3, <2>4, GainKept DEF RepoKnown, Active
  <2>6. Known(db'[r].ups, saved)
    BY <1>h, <2>2 DEF RepoKnown, Known
  <2> QED
    BY <1>h, <1>1, <1>2, <2>1, <2>5, <2>6 DEF LocalKnown, RepoKnown, Active, Idle, Tables
<1>5. CASE Rewrite(r)
  <2>1. p.at = "truncated" /\ q = Idle /\ db'[r].ups = p.ups /\ db'[r].log = db[r].log
    BY <1>5, <1>h DEF Rewrite, IsDb
  <2>2. Known(p.ups, saved)
    BY <1>h, <2>1 DEF RepoKnown, Active
  <2>3. ASSUME r \in MtDb PROVE Ahead(saved[r], db'[r])
    <3>1. Forward(saved[r].ups, p.ups) /\ LogPrefix(saved[r].log, db[r].log)
      BY <2>1, <2>3 DEF CascadeInv, FInv, SessionForward, IInv, RepoSound
    <3>2. Cardinality(DOMAIN saved[r].ups) <= Cardinality(DOMAIN p.ups)
      <4>1. DOMAIN saved[r].ups \subseteq DOMAIN p.ups
        BY <3>1 DEF Forward
      <4>2. IsFiniteSet(Name) /\ DOMAIN p.ups \subseteq Name
        BY <1>1, UpstreamAssumption, FS_AddElement DEF IsMerge, IsPartial, UpstreamAssumption, Name
      <4>3. IsFiniteSet(DOMAIN p.ups)
        BY <4>2, FS_Subset
      <4> QED
        BY <4>1, <4>3, FS_Subset
    <3>3. \A t \in Tables : Len(saved[r].log[t]) <= Len(db'[r].log[t])
      BY <2>1, <3>1 DEF LogPrefix
    <3>4. \A t \in Tables : Reached(p, t) = Len(p.from.log[t])
      BY <2>1 DEF Reached, Tables
    <3>5. WillGain(saved[r], db[r], p)
      BY <1>h, <2>1, <2>3 DEF RepoKnown, Active
    <3>6. /\ \A e \in {saved[r], db'[r]} : SizesOf(e).n = Cardinality(DOMAIN e.ups)
          /\ \A e \in {saved[r], db'[r]} : \A t \in Tables : SizesOf(e).size[t] = Len(e.log[t])
          /\ \A e \in {saved[r], db'[r]} : Cardinality(DOMAIN e.ups) \in Nat
          /\ \A e \in {saved[r], db'[r]} : \A t \in Tables : Len(e.log[t]) \in Nat
      BY <1>h, SizesFields
    <3>7. AtMost(SizesOf(saved[r]), SizesOf(db'[r]))
      BY <2>1, <3>2, <3>3, <3>6 DEF AtMost
    <3>8. SizesOf(saved[r]) # SizesOf(db'[r])
      <4>1. CASE Cardinality(DOMAIN saved[r].ups) < Cardinality(DOMAIN p.ups)
        BY <2>1, <3>6, <4>1
      <4>2. ASSUME NEW t \in Tables,
                   Len(saved[r].log[t]) < Len(db[r].log[t]) + Len(p.from.log[t]) - Reached(p, t)
            PROVE  SizesOf(saved[r]).size[t] # SizesOf(db'[r]).size[t]
        <5>1. \A a, b, c \in Nat : a < b + c - c => a < b
          OBVIOUS
        <5>2. /\ Len(saved[r].log[t]) \in Nat /\ Len(db[r].log[t]) \in Nat
              /\ Len(p.from.log[t]) \in Nat
          BY <1>3, <3>6
        <5>3. Len(saved[r].log[t]) < Len(db[r].log[t])
          BY <3>4, <4>2, <5>1, <5>2
        <5> QED
          BY <2>1, <3>6, <5>2, <5>3
      <4> QED
        BY <3>5, <4>1, <4>2 DEF WillGain
    <3> QED
      BY <3>7, <3>8 DEF Ahead
  <2> QED
    BY <1>h, <1>1, <1>2, <2>1, <2>2, <2>3 DEF LocalKnown, RepoKnown, Active, Idle, Tables
<1> QED
  BY <1>4, <1>5

LEMMA CascadeInit == Init => CascadeInv
<1> SUFFICES ASSUME Init PROVE CascadeInv
  OBVIOUS
<1>1. IInv /\ FInv /\ \A r \in Repo : RepoShape(r)
  BY InvInit, ForwardInit, ShapeInit
<1>2. ASSUME NEW r \in Repo PROVE RepoKnown(r)
  <2>1. db[r] = EmptyDb /\ saved[r] = EmptyDb /\ proc[r] = NoProcess
    BY DEF Init
  <2>2. Known(EmptyDb.ups, saved)
    BY DEF Known, EmptyDb
  <2> QED
    BY <2>1, <2>2 DEF RepoKnown, Active, NoProcess, Idle, Tables
<1> QED
  BY <1>1, <1>2 DEF CascadeInv

LEMMA LocalKnownStep ==
  ASSUME Cascade, CascadeInv, TypeOK', NEW r \in Repo, Step(r)
  PROVE  LocalKnown(r)
<1>1. CASE Open(r) \/ Close(r) \/ Save(r) \/ Fail(r)
  BY <1>1, KnownSession
<1>2. CASE RecordStep(r)
  BY <1>2, KnownGenerate, KnownMergeRecord DEF RecordStep
<1>3. ASSUME NEW u \in Repo, <<r, u>> \in Pairs, BeginMerge(r, u) PROVE LocalKnown(r)
  BY <1>3, KnownBeginMerge
<1>4. CASE MergeSvnbase(r) \/ Truncate(r) \/ Rewrite(r)
  BY <1>4, KnownMergeSteps
<1> QED
  BY <1>1, <1>2, <1>3, <1>4 DEF Step, RecordStep

LEMMA KnownStep ==
  ASSUME Cascade, CascadeInv, TypeOK', NEW r \in Repo, Step(r)
  PROVE  \A q \in Repo : Known(db'[q].ups, saved) /\ Known(saved'[q].ups, saved)
  BY LocalKnownStep, StepFrame DEF LocalKnown, CascadeInv, IInv, RepoKnown

LEMMA CascadeStep ==
  ASSUME Cascade, CascadeInv, NEW r \in Repo, Step(r)
  PROVE  CascadeInv'
<1>t. TypeOK /\ TypeOK' /\ IInv /\ FInv /\ IInv' /\ FInv'
  BY StepType, InvStep, ForwardStep DEF CascadeInv, IInv
<1>f. \A q \in Repo \ {r} : db'[q] = db[q] /\ saved'[q] = saved[q] /\ proc'[q] = proc[q]
  BY <1>t, StepFrame
<1>1. LocalShape(r)
  BY ShapeStep
<1>2. LocalKnown(r)
  BY <1>t, LocalKnownStep
\* Versions that are saved only move ahead.
<1>3. \A u \in Repo : IsDb(saved[u]) /\ IsDb(saved'[u]) /\ IsDb(db'[u])
  BY <1>t DEF TypeOK
<1>4. \A u \in Repo : Forward(saved[u].ups, saved'[u].ups)
  BY <1>t, SavedForward
<1>5. \A u \in Repo : Ahead(saved[u], saved'[u])
  BY <1>2, <1>3, <1>f, AheadReflexive DEF LocalKnown
\* So what is true of each repository with the versions before the step ...
<1>6. ASSUME NEW q \in Repo
      PROVE  /\ Shape(q, db'[q].ups, saved) /\ Shape(q, saved'[q].ups, saved)
             /\ Active(q)' => Shape(q, proc'[q].ups, saved)
             /\ Known(db'[q].ups, saved) /\ Known(saved'[q].ups, saved)
             /\ Active(q)' => Known(proc'[q].ups, saved)
  BY <1>1, <1>2, <1>f DEF LocalShape, LocalKnown, CascadeInv, RepoShape, RepoKnown, Active
\* ... is true with those after it.
<1>7. ASSUME NEW q \in Repo PROVE RepoShape(q)'
  <2>1. Shape(q, db'[q].ups, saved') /\ Shape(q, saved'[q].ups, saved')
    BY <1>4, <1>6, ShapeGrows
  <2>2. Active(q)' => Shape(q, proc'[q].ups, saved')
    BY <1>4, <1>6, ShapeGrows
  <2> QED
    BY <1>1, <1>f, <2>1, <2>2 DEF LocalShape, CascadeInv, RepoShape, Active
<1>8. ASSUME NEW q \in Repo PROVE RepoKnown(q)'
  <2>1. IsUps(db'[q].ups) /\ IsUps(saved'[q].ups)
    BY <1>3 DEF IsDb, IsUps
  <2>2. DOMAIN db'[q].ups \subseteq Repo /\ DOMAIN saved'[q].ups \subseteq Repo
    BY <1>6, UpstreamAssumption DEF Shape, UpstreamAssumption
  <2>3. Known(db'[q].ups, saved') /\ Known(saved'[q].ups, saved')
    BY <1>3, <1>5, <1>6, <2>1, <2>2, KnownGrows
  <2>4. ASSUME Active(q)' PROVE Known(proc'[q].ups, saved')
    <3>1. IsUps(proc'[q].ups)
      BY <1>t, <2>4 DEF TypeOK, Active, IsMerge, IsUps, NoProcess, Idle, Tables
    <3>2. DOMAIN proc'[q].ups \subseteq Repo
      BY <1>6, <2>4, UpstreamAssumption DEF Shape, UpstreamAssumption
    <3> QED
      BY <1>3, <1>5, <1>6, <2>4, <3>1, <3>2, KnownGrows
  <2>5. q \in MtDb => /\ proc'[q] = Idle => Ahead(saved'[q], db'[q])
                      /\ Active(q)' => WillGain(saved'[q], db'[q], proc'[q])
    BY <1>2, <1>f DEF LocalKnown, CascadeInv, RepoKnown, Active
  <2> QED
    BY <2>3, <2>4, <2>5 DEF RepoKnown, Active
<1> QED
  BY <1>t, <1>7, <1>8 DEF CascadeInv

LEMMA CascadeNext == ASSUME Cascade PROVE CascadeInv /\ [Next]_vars => CascadeInv'
<1>1. ASSUME CascadeInv, UNCHANGED vars PROVE CascadeInv'
  <2>1. db' = db /\ saved' = saved /\ proc' = proc
    BY <1>1 DEF vars
  <2>2. IInv' /\ FInv'
    BY <1>1, <2>1 DEF CascadeInv, IInv, FInv, TypeOK, RepoSound, PubLogs, Published, SessionForward
  <2> QED
    BY <1>1, <2>1, <2>2 DEF CascadeInv, RepoShape, RepoKnown, Active
<1> QED
  BY <1>1, CascadeStep DEF Next

\* In a cascade, a database that check-upstream calls up-to-date has the
\* mappings and the upstreams of its upstream.
THEOREM UpToDateIsCompleteAlways == ASSUME Cascade PROVE Spec => []UpToDateIsComplete
<1>1. CascadeInv => UpToDateIsComplete
  <2> SUFFICES ASSUME CascadeInv, NEW r \in Repo, NEW u \in Repo, UpToDateWith(r, u)
               PROVE  HasMappings(db[r], Published(u)) /\ KnowsUpstreams(db[r], Published(u))
    BY DEF UpToDateIsComplete
  <2>1. HasMappings(db[r], Published(u))
    BY SoundHasMappings DEF CascadeInv
  <2>2. /\ NameOf(u, Published(u)) \in DOMAIN db[r].ups
        /\ db[r].ups[NameOf(u, Published(u))] = SizesOf(Published(u))
    BY DEF UpToDateWith, UpToDate
  <2>3. NameOf(u, Published(u)) = u /\ u \in MtDb
    BY <2>2, UpstreamAssumption DEF NameOf, CascadeInv, RepoShape, Shape, UpstreamAssumption
  <2>4. Forward(saved[u].ups, db[r].ups) /\ Published(u) = saved[u]
    BY <2>2, <2>3 DEF Published, CascadeInv, RepoKnown, Known
  <2> QED
    BY <2>1, <2>4 DEF KnowsUpstreams, Forward
<1>2. Init => CascadeInv
  BY CascadeInit
<1>3. CascadeInv /\ [Next]_vars => CascadeInv'
  BY CascadeNext
<1> QED
  BY <1>1, <1>2, <1>3, PTL DEF Spec

-----------------------------------------------------------------------------
(***************************************************************************)
(* A merge meets no key that is mapped already.  In a session of an mt-db  *)
(* the records of a table have different keys, and each was mapped by the  *)
(* repository itself or by one that its file "upstreams" names; what is    *)
(* mapped is the repository's own or is among the records of its upstream  *)
(* that a merge has behind it.                                             *)
(***************************************************************************)
Distinct(d) ==
  \A t \in Tables : \A i, j \in 1 .. Len(d.log[t]) : d.log[t][i].key = d.log[t][j].key => i = j

Origin(d, names) ==
  \A t \in Tables : \A i \in 1 .. Len(d.log[t]) :
    d.log[t][i].by \in names /\ d.log[t][i].key \in Generates[d.log[t][i].by]

LogMapped(d) ==
  \A t \in Tables : \A i \in 1 .. Len(d.log[t]) : d.log[t][i].key \in DOMAIN d.map[t]

Fresh(r, d, names) == Distinct(d) /\ LogMapped(d) /\ Origin(d, {r} \cup names)

\* The key of one of the first n records.
KeyAmong(log, n, k) == \E i \in 1 .. n : log[i].key = k

OwnOrMerged(r, d, pub) ==
  \A t \in Tables : \A k \in DOMAIN d.map[t] :
    \/ k \in Generates[r]
    \/ \E u \in DOMAIN d.ups :
         <<r, u>> \in Pairs /\ KeyAmong(pub[u].log[t], d.ups[u].size[t], k)

OwnOrReached(r, d, p) ==
  \A t \in Tables : \A k \in DOMAIN d.map[t] :
    k \in Generates[r] \/ KeyAmong(p.from.log[t], Reached(p, t), k)

\* A database, its version and a merge of r, with the versions of upstreams.
FreshWith(r, d, s, p, pub) ==
  /\ Fresh(r, s, DOMAIN s.ups) /\ OwnOrMerged(r, s, pub)
  /\ p = Idle => Fresh(r, d, DOMAIN d.ups) /\ OwnOrMerged(r, d, pub)
  /\ p.at \in Tables \cup {"truncated"} =>
       /\ Fresh(r, d, DOMAIN p.ups)
       /\ Fresh(p.up, p.from, DOMAIN p.from.ups)
       /\ OwnOrReached(r, d, p)

RepoFresh(r) == r \in MtDb => FreshWith(r, db[r], saved[r], proc[r], saved)

FreshInv == CascadeInv /\ \A r \in Repo : RepoFresh(r)

LEMMA FreshInserted ==
  ASSUME NEW r, NEW names, NEW d, IsDb(d), NEW t \in Tables, NEW rec \in Record,
         rec.key \notin DOMAIN d.map[t], Fresh(r, d, names),
         rec.by \in {r} \cup names, rec.key \in Generates[rec.by]
  PROVE  Fresh(r, Inserted(d, t, rec), names)
<1> DEFINE e == Inserted(d, t, rec)
<1>0. /\ e.log = [d.log EXCEPT ![t] = Append(@, rec)]
      /\ e.map = [d.map EXCEPT ![t] = Extend(@, rec.key, rec.by)]
  BY InsertedFields
<1> HIDE DEF e
<1>1. /\ e.log[t] = Append(d.log[t], rec) /\ d.log[t] \in Seq(Record)
      /\ \A v \in Tables \ {t} : e.log[v] = d.log[v]
      /\ DOMAIN e.map[t] = DOMAIN d.map[t] \cup {rec.key}
      /\ \A v \in Tables \ {t} : e.map[v] = d.map[v]
  BY <1>0 DEF IsDb, Logs, Extend
<1>2. /\ Len(d.log[t]) \in Nat /\ Len(e.log[t]) = Len(d.log[t]) + 1
      /\ e.log[t][Len(d.log[t]) + 1] = rec
      /\ \A i \in 1 .. Len(d.log[t]) : e.log[t][i] = d.log[t][i]
  BY <1>1
\* A record of e is one of d, or it is the new one.
<1>3. \A i \in 1 .. Len(e.log[t]) : i \in 1 .. Len(d.log[t]) \/ i = Len(d.log[t]) + 1
  BY <1>2
<1>4. \A i \in 1 .. Len(d.log[t]) : d.log[t][i].key # rec.key
  BY DEF Fresh, LogMapped
<1>5. Distinct(e)
  <2> SUFFICES ASSUME NEW v \in Tables, NEW i \in 1 .. Len(e.log[v]), NEW j \in 1 .. Len(e.log[v]),
                      e.log[v][i].key = e.log[v][j].key
               PROVE  i = j
    BY DEF Distinct
  <2>1. CASE v # t
    BY <1>1, <2>1 DEF Fresh, Distinct
  <2>2. CASE v = t
    <3>1. CASE i \in 1 .. Len(d.log[t]) /\ j \in 1 .. Len(d.log[t])
      BY <1>2, <2>2, <3>1 DEF Fresh, Distinct
    <3>2. CASE i = Len(d.log[t]) + 1 \/ j = Len(d.log[t]) + 1
      BY <1>2, <1>3, <1>4, <2>2, <3>2
    <3> QED
      BY <1>3, <2>2, <3>1, <3>2
  <2> QED
    BY <2>1, <2>2
<1>6. LogMapped(e)
  <2> SUFFICES ASSUME NEW v \in Tables, NEW i \in 1 .. Len(e.log[v])
               PROVE  e.log[v][i].key \in DOMAIN e.map[v]
    BY DEF LogMapped
  <2>1. CASE v # t
    BY <1>1, <2>1 DEF Fresh, LogMapped
  <2>2. CASE v = t
    BY <1>1, <1>2, <1>3, <2>2 DEF Fresh, LogMapped
  <2> QED
    BY <2>1, <2>2
<1>7. Origin(e, {r} \cup names)
  <2> SUFFICES ASSUME NEW v \in Tables, NEW i \in 1 .. Len(e.log[v])
               PROVE  /\ e.log[v][i].by \in {r} \cup names
                      /\ e.log[v][i].key \in Generates[e.log[v][i].by]
    BY DEF Origin
  <2>1. CASE v # t
    BY <1>1, <2>1 DEF Fresh, Origin
  <2>2. CASE v = t
    BY <1>2, <1>3, <2>2 DEF Fresh, Origin
  <2> QED
    BY <2>1, <2>2
<1>8. Fresh(r, e, names)
  BY <1>5, <1>6, <1>7 DEF Fresh
<1> QED
  BY <1>8 DEF e

\* What is mapped after an insertion.
LEMMA MappedInserted ==
  ASSUME NEW d, IsDb(d), NEW t \in Tables, NEW rec \in Record,
         NEW v \in Tables, NEW k \in DOMAIN Inserted(d, t, rec).map[v]
  PROVE  k \in DOMAIN d.map[v] \/ (v = t /\ k = rec.key)
<1>1. Inserted(d, t, rec).map = [d.map EXCEPT ![t] = Extend(@, rec.key, rec.by)]
  BY DEF Inserted, IsDb
<1> QED
  BY <1>1 DEF IsDb, Extend

\* Versions of the upstreams that are saved keep their records.
LEMMA OwnOrMergedGrows ==
  ASSUME NEW r, NEW d, IsUps(d.ups), DOMAIN d.ups \subseteq Repo, NEW pub, NEW pub2,
         \A u \in Repo : IsDb(pub[u]) /\ LogPrefix(pub[u].log, pub2[u].log),
         Known(d.ups, pub), OwnOrMerged(r, d, pub)
  PROVE  OwnOrMerged(r, d, pub2)
<1> SUFFICES ASSUME NEW t \in Tables, NEW k \in DOMAIN d.map[t], NEW u \in DOMAIN d.ups,
                    KeyAmong(pub[u].log[t], d.ups[u].size[t], k)
             PROVE  KeyAmong(pub2[u].log[t], d.ups[u].size[t], k)
  BY DEF OwnOrMerged
<1>1. u \in Repo /\ d.ups[u].size[t] \in Nat
  BY DEF IsUps, IsPartial, Sizes
<1>2. Len(pub[u].log[t]) \in Nat /\ SizesOf(pub[u]).size[t] = Len(pub[u].log[t])
  BY <1>1, SizesFields
<1>3. d.ups[u].size[t] <= Len(pub[u].log[t])
  BY <1>2 DEF Known, AtMost
<1>4. PICK i \in 1 .. d.ups[u].size[t] : pub[u].log[t][i].key = k
  BY DEF KeyAmong
<1>5. i \in 1 .. Len(pub[u].log[t])
  BY <1>1, <1>2, <1>3, <1>4
<1>6. pub2[u].log[t][i] = pub[u].log[t][i]
  BY <1>1, <1>5 DEF LogPrefix
<1> QED
  BY <1>4, <1>6 DEF KeyAmong

LEMMA KeyAmongMore ==
  ASSUME NEW log, NEW m \in Nat, NEW n \in Nat, m <= n, NEW k, KeyAmong(log, m, k)
  PROVE  KeyAmong(log, n, k)
  BY DEF KeyAmong

\* What one step does to r, up to the growth of the versions.
LocalFresh(r) == r \in MtDb => FreshWith(r, db'[r], saved'[r], proc'[r], saved)

LEMMA FreshSession ==
  ASSUME FreshInv, NEW r \in Repo, Open(r) \/ Close(r) \/ Save(r) \/ Fail(r)
  PROVE  LocalFresh(r)
<1>h. /\ DOMAIN db = Repo /\ DOMAIN saved = Repo /\ DOMAIN proc = Repo /\ RepoFresh(r)
  BY DEF FreshInv, CascadeInv, IInv, TypeOK
<1>1. CASE Open(r)
  BY <1>1, <1>h DEF Open, LocalFresh, RepoFresh, FreshWith, Idle, Tables
<1>2. CASE Close(r) \/ Fail(r)
  BY <1>2, <1>h DEF Close, Fail, LocalFresh, RepoFresh, FreshWith, NoProcess, Idle, Tables
<1>3. CASE Save(r)
  BY <1>3, <1>h DEF Save, LocalFresh, RepoFresh, FreshWith, Idle, Tables
<1> QED
  BY <1>1, <1>2, <1>3

LEMMA FreshRecord ==
  ASSUME FreshInv, NEW r \in Repo, RecordStep(r)
  PROVE  LocalFresh(r)
<1> SUFFICES ASSUME r \in MtDb PROVE FreshWith(r, db'[r], saved'[r], proc'[r], saved)
  BY DEF LocalFresh
<1> DEFINE p == proc[r]
           q == proc'[r]
<1>h. /\ DOMAIN db = Repo /\ DOMAIN proc = Repo /\ RepoFresh(r) /\ TypeOK /\ IsDb(db[r])
      /\ saved' = saved
  BY RecordKept DEF FreshInv, CascadeInv, IInv, TypeOK
<1>1. CASE q = NoProcess
  BY <1>1, <1>h DEF RepoFresh, FreshWith, NoProcess, Idle, Tables
<1>2. ASSUME NEW t \in Tables, NEW k \in Keys(t), Generate(r, t, k)
      PROVE  FreshWith(r, db'[r], saved'[r], q, saved)
  <2> DEFINE rec == [key |-> k, by |-> r]
             e == Inserted(db[r], t, rec)
  <2>1. rec \in Record /\ rec.key = k /\ rec.by = r
    BY DEF Record, Keys
  <2>2. /\ db'[r] = e /\ p = Idle /\ q = Idle
        /\ k \in Generates[r] /\ k \notin DOMAIN db[r].map[t]
    BY <1>2, <1>h DEF Generate
  <2>3. Fresh(r, db[r], DOMAIN db[r].ups) /\ OwnOrMerged(r, db[r], saved)
    BY <1>h, <2>2 DEF RepoFresh, FreshWith
  <2> HIDE DEF rec
  <2>4. e.ups = db[r].ups
    BY <1>h, InsertedUps
  <2>5. Fresh(r, e, DOMAIN db[r].ups)
    BY <1>h, <2>1, <2>2, <2>3, FreshInserted
  <2>6. \A v \in Tables : \A x \in DOMAIN e.map[v] : x \in DOMAIN db[r].map[v] \/ x = k
    BY <1>h, <2>1, MappedInserted
  <2> HIDE DEF e
  <2>7. OwnOrMerged(r, e, saved)
    BY <2>2, <2>3, <2>4, <2>6 DEF OwnOrMerged
  <2> QED
    BY <1>h, <2>2, <2>4, <2>5, <2>7 DEF RepoFresh, FreshWith, Idle, Tables
<1>3. ASSUME NEW t \in Tables, MergeRecord(r, t)
      PROVE  FreshWith(r, db'[r], saved'[r], q, saved)
  <2> DEFINE rec == NextRecord(r, t)
             e == Inserted(db[r], t, rec)
  <2>1. /\ rec \in Record /\ IsMerge(p) /\ p.at = t
        /\ p.pos + 1 \in 1 .. Len(p.from.log[t])
    BY <1>3, <1>h, NextRecordType DEF MergeRecord, Merging
  <2>2. /\ db'[r] = e /\ q = [p EXCEPT !.pos = @ + 1] /\ rec.key \notin DOMAIN db[r].map[t]
    BY <1>3, <1>h DEF MergeRecord, NextMapped
  <2>3. /\ q.at = p.at /\ q.ups = p.ups /\ q.from = p.from /\ q.up = p.up /\ q.start = p.start
        /\ q.pos = p.pos + 1 /\ p.pos \in Nat /\ p.start \in [Tables -> Nat]
    BY <2>1, <2>2 DEF IsMerge
  <2>4. /\ Fresh(r, db[r], DOMAIN p.ups) /\ Fresh(p.up, p.from, DOMAIN p.from.ups)
        /\ OwnOrReached(r, db[r], p)
    BY <1>h, <2>1 DEF RepoFresh, FreshWith
  <2>5. rec = p.from.log[t][p.pos + 1]
    BY SMTT(30) DEF NextRecord
  <2>6. rec.by \in {r} \cup DOMAIN p.ups /\ rec.key \in Generates[rec.by]
    <3>1. p.up \in DOMAIN p.ups /\ DOMAIN p.from.ups \subseteq DOMAIN p.ups
      BY <2>1 DEF FreshInv, CascadeInv, RepoShape, Active, MergeShape
    <3> QED
      BY <2>1, <2>4, <2>5, <3>1 DEF Fresh, Origin
  <2> HIDE DEF rec
  <2>7. Fresh(r, e, DOMAIN p.ups)
    BY <1>h, <2>1, <2>2, <2>4, <2>6, FreshInserted
  <2>8. OwnOrReached(r, e, q)
    <3> SUFFICES ASSUME NEW v \in Tables, NEW k \in DOMAIN e.map[v], k \notin Generates[r]
                 PROVE  KeyAmong(q.from.log[v], Reached(q, v), k)
      BY DEF OwnOrReached
    <3>1. k \in DOMAIN db[r].map[v] \/ (v = t /\ k = rec.key)
      BY <1>h, <2>1, MappedInserted
    <3>2. CASE v = t
      <4>1. Reached(p, v) = p.pos /\ Reached(q, v) = p.pos + 1
        BY <2>1, <2>3, <3>2 DEF Reached
      <4>2. KeyAmong(p.from.log[v], p.pos, k) \/ k = rec.key
        BY <2>4, <3>1, <4>1 DEF OwnOrReached
      <4>3. CASE KeyAmong(p.from.log[v], p.pos, k)
        BY SMTT(30), <2>3, <4>1, <4>3, KeyAmongMore
      <4>4. CASE k = rec.key
        <5>1. p.pos + 1 \in 1 .. p.pos + 1
          BY <2>3
        <5> QED
          BY ZenonT(60), <2>3, <2>5, <3>2, <4>1, <4>4, <5>1 DEF KeyAmong
      <4> QED
        BY <4>2, <4>3, <4>4
    <3>3. CASE v # t
      <4>1. Reached(q, v) = Reached(p, v)
        BY <2>1, <2>3, <3>3 DEF Reached
      <4> QED
        BY <2>3, <2>4, <3>1, <3>3, <4>1 DEF OwnOrReached
    <3> QED
      BY <3>2, <3>3
  <2> HIDE DEF e
  <2>9. Fresh(r, saved[r], DOMAIN saved[r].ups) /\ OwnOrMerged(r, saved[r], saved) /\ q # Idle
    BY <1>h, <2>1, <2>3 DEF RepoFresh, FreshWith, Idle, Tables
  <2> QED
    BY <1>h, <2>2, <2>3, <2>4, <2>7, <2>8, <2>9 DEF FreshWith
<1>4. ASSUME NEW t \in Tables,
             AlreadyMapped(r, t) \/ FailMerging(r, t) \/ \E k \in Keys(t) : FailInserting(r, t, k)
      PROVE  q = NoProcess
  BY <1>4, <1>h DEF AlreadyMapped, FailMerging, FailInserting
<1> QED
  BY <1>1, <1>2, <1>3, <1>4 DEF RecordStep

LEMMA FreshBeginMerge ==
  ASSUME Cascade, FreshInv, NEW r \in Repo, NEW u \in Repo, <<r, u>> \in Pairs, BeginMerge(r, u)
  PROVE  LocalFresh(r)
<1> SUFFICES ASSUME r \in MtDb PROVE FreshWith(r, db'[r], saved'[r], proc'[r], saved)
  BY DEF LocalFresh
<1> DEFINE d == saved[u]
           q == proc'[r]
<1>1. /\ u \in MtDb /\ q.at = "commits" /\ q.up = u /\ q.from = d
      /\ q.ups = Extend(MergedUps(db[r], d), u, SizesOf(d))
      /\ q.start = Recorded(db[r], u).size /\ q.pos = q.start["commits"]
      /\ db' = db /\ saved' = saved /\ proc[r] = Idle
  BY BeginCascade DEF FreshInv
<1>2. /\ Fresh(r, db[r], DOMAIN db[r].ups) /\ OwnOrMerged(r, db[r], saved)
      /\ Fresh(r, saved[r], DOMAIN saved[r].ups) /\ OwnOrMerged(r, saved[r], saved)
      /\ Fresh(u, d, DOMAIN d.ups)
  BY <1>1 DEF FreshInv, RepoFresh, FreshWith
<1>3. DOMAIN db[r].ups \subseteq DOMAIN q.ups
  BY <1>1 DEF Extend, MergedUps
<1>4. Fresh(r, db[r], DOMAIN q.ups)
  BY <1>2, <1>3 DEF Fresh, Origin
<1>5. OwnOrReached(r, db[r], q)
  <2> SUFFICES ASSUME NEW t \in Tables, NEW k \in DOMAIN db[r].map[t], k \notin Generates[r]
               PROVE  KeyAmong(d.log[t], Reached(q, t), k)
    BY <1>1 DEF OwnOrReached
  <2>1. PICK v \in DOMAIN db[r].ups :
          <<r, v>> \in Pairs /\ KeyAmong(saved[v].log[t], db[r].ups[v].size[t], k)
    BY <1>2 DEF OwnOrMerged
  <2>2. v = u
    BY <2>1, UpstreamAssumption DEF Cascade, UpstreamAssumption
  <2>3. Reached(q, t) = db[r].ups[u].size[t]
    BY <1>1, <2>1, <2>2 DEF Reached, Recorded, Tables
  <2> QED
    BY <2>1, <2>2, <2>3
<1> QED
  BY <1>1, <1>2, <1>4, <1>5 DEF FreshWith, Idle

LEMMA FreshMergeSteps ==
  ASSUME FreshInv, NEW r \in Repo, MergeSvnbase(r) \/ Truncate(r) \/ Rewrite(r)
  PROVE  LocalFresh(r)
<1> SUFFICES ASSUME r \in MtDb PROVE FreshWith(r, db'[r], saved'[r], proc'[r], saved)
  BY DEF LocalFresh
<1> DEFINE p == proc[r]
           q == proc'[r]
<1>h. /\ DOMAIN db = Repo /\ DOMAIN proc = Repo /\ RepoFresh(r) /\ TypeOK
      /\ IsDb(db[r]) /\ (p \in {NoProcess, Idle} \/ IsMerge(p))
  BY DEF FreshInv, CascadeInv, IInv, TypeOK
<1>1. saved' = saved /\ IsMerge(p) /\ IsDb(p.from) /\ p.at \in Tables \cup {"truncated"}
  BY <1>h DEF MergeSvnbase, Truncate, Rewrite, Merging, NoProcess, Idle, IsMerge
<1>2. /\ Fresh(r, saved[r], DOMAIN saved[r].ups) /\ OwnOrMerged(r, saved[r], saved)
      /\ Fresh(r, db[r], DOMAIN p.ups) /\ Fresh(p.up, p.from, DOMAIN p.from.ups)
      /\ OwnOrReached(r, db[r], p)
  BY <1>h, <1>1 DEF RepoFresh, FreshWith
<1>3. \A t \in Tables : Len(p.from.log[t]) \in Nat
  BY <1>1, SizesFields
<1>4. MergeSound(p, db[r], PubLogs) /\ p \notin {NoProcess, Idle}
  BY <1>1 DEF FreshInv, CascadeInv, IInv, RepoSound, NoProcess, Idle, Tables
<1>5. CASE MergeSvnbase(r) \/ Truncate(r)
  <2>1. /\ q.ups = p.ups /\ q.from = p.from /\ q.up = p.up /\ p.at \in Tables /\ q.start = p.start
        /\ \/ p.at = "commits" /\ q.at = "svnbase" /\ q.pos = p.start["svnbase"]
           \/ p.at = "svnbase" /\ q.at = "truncated"
    BY <1>5, <1>h, <1>1 DEF MergeSvnbase, Truncate, Merging, IsMerge, Tables
  <2>2. db'[r].log = db[r].log /\ db'[r].map = db[r].map
    <3>1. CASE MergeSvnbase(r)
      BY <3>1 DEF MergeSvnbase
    <3>2. CASE Truncate(r)
      <4>1. db'[r] = [db[r] EXCEPT !.ups = EmptyDb.ups, !.file = "empty"]
        BY <1>h, <3>2 DEF Truncate
      <4> QED
        BY <1>h, <4>1 DEF IsDb
    <3> QED
      BY <1>5, <3>1, <3>2
  <2>3. p.pos \in Nat /\ p.start \in [Tables -> Nat]
    BY SMTT(30), <1>1 DEF IsMerge
  <2>4. p.pos <= Len(p.from.log[p.at])
    BY ZenonT(60), <1>4, <2>1 DEF MergeSound, Progress, Covered, Tables
  <2>5. OwnOrReached(r, db'[r], q)
    <3> SUFFICES ASSUME NEW t \in Tables, NEW k \in DOMAIN db[r].map[t], k \notin Generates[r]
                 PROVE  KeyAmong(p.from.log[t], Reached(q, t), k)
      BY <2>1, <2>2 DEF OwnOrReached
    <3>1. KeyAmong(p.from.log[t], Reached(p, t), k)
      BY <1>2 DEF OwnOrReached
    <3>2. CASE t = p.at
      <4>1. Reached(p, t) = p.pos /\ Reached(q, t) = Len(p.from.log[t])
        BY <2>1, <3>2 DEF Reached
      <4> QED
        BY <1>3, <2>3, <2>4, <3>1, <3>2, <4>1, KeyAmongMore
    <3>3. CASE t # p.at
      <4>1. Reached(q, t) = Reached(p, t)
        BY SMTT(30), <2>1, <3>3 DEF Reached, Tables
      <4> QED
        BY <3>1, <4>1
    <3> QED
      BY <3>2, <3>3
  <2>6. Fresh(r, db'[r], DOMAIN q.ups)
    BY SMTT(30), <1>2, <2>1, <2>2 DEF Fresh, Distinct, LogMapped, Origin
  <2>7. q # Idle
    BY <2>1 DEF Idle
  <2> QED
    BY <1>1, <1>2, <2>1, <2>5, <2>6, <2>7 DEF FreshWith
<1>6. CASE Rewrite(r)
  <2>1. /\ p.at = "truncated" /\ q = Idle
        /\ db'[r].ups = p.ups /\ db'[r].log = db[r].log /\ db'[r].map = db[r].map
    BY <1>6, <1>h DEF Rewrite, IsDb
  <2>2. Fresh(r, db'[r], DOMAIN db'[r].ups)
    BY <1>2, <2>1 DEF Fresh, Distinct, LogMapped, Origin
  <2>3. /\ p.up \in MtDb /\ <<r, p.up>> \in Pairs /\ p.up \in DOMAIN p.ups
        /\ p.ups[p.up] = SizesOf(p.from)
    BY <2>1 DEF FreshInv, CascadeInv, RepoShape, Active, MergeShape
  <2>4. LogPrefix(p.from.log, saved[p.up].log)
    BY <1>4, <2>3, UpstreamAssumption DEF MergeSound, PubLogs, Published, UpstreamAssumption
  <2>5. OwnOrMerged(r, db'[r], saved)
    <3> SUFFICES ASSUME NEW t \in Tables, NEW k \in DOMAIN db[r].map[t], k \notin Generates[r]
                 PROVE  KeyAmong(saved[p.up].log[t], p.ups[p.up].size[t], k)
      BY <2>1, <2>3 DEF OwnOrMerged
    <3>1. KeyAmong(p.from.log[t], Len(p.from.log[t]), k)
      BY <1>2, <2>1 DEF OwnOrReached, Reached, Tables
    <3>2. p.ups[p.up].size[t] = Len(p.from.log[t])
      BY <1>1, <2>3, SizesFields
    <3> QED
      BY <2>4, <3>1, <3>2 DEF KeyAmong, LogPrefix
  <2> QED
    BY <1>1, <1>2, <2>1, <2>2, <2>5 DEF FreshWith, Idle, Tables
<1> QED
  BY <1>5, <1>6

LEMMA FreshStep ==
  ASSUME Cascade, FreshInv, NEW r \in Repo, Step(r)
  PROVE  FreshInv'
<1>1. CascadeInv /\ CascadeInv' /\ IInv /\ TypeOK /\ TypeOK'
  BY CascadeStep DEF FreshInv, CascadeInv, IInv
<1>f. \A q \in Repo \ {r} : db'[q] = db[q] /\ saved'[q] = saved[q] /\ proc'[q] = proc[q]
  BY <1>1, StepFrame
<1>2. LocalFresh(r)
  <2>1. CASE Open(r) \/ Close(r) \/ Save(r) \/ Fail(r)
    BY <2>1, FreshSession
  <2>2. CASE RecordStep(r)
    BY <2>2, FreshRecord
  <2>3. ASSUME NEW u \in Repo, <<r, u>> \in Pairs, BeginMerge(r, u) PROVE LocalFresh(r)
    BY <2>3, FreshBeginMerge
  <2>4. CASE MergeSvnbase(r) \/ Truncate(r) \/ Rewrite(r)
    BY <2>4, FreshMergeSteps
  <2> QED
    BY <2>1, <2>2, <2>3, <2>4 DEF Step, RecordStep
<1>3. \A q \in Repo : IsDb(saved[q]) /\ IsDb(db'[q]) /\ IsDb(saved'[q])
  BY <1>1 DEF TypeOK
<1>4. \A u \in Repo : LogPrefix(saved[u].log, saved'[u].log)
  <2>1. LogPrefix(saved[r].log, saved'[r].log)
    BY <1>1, LocalStep DEF Local
  <2>2. \A u \in Repo : LogPrefix(saved[u].log, saved[u].log)
    BY <1>3, PrefixOfItself DEF IsDb
  <2> QED
    BY <1>f, <2>1, <2>2
<1>5. ASSUME NEW q \in Repo PROVE RepoFresh(q)'
  <2> SUFFICES ASSUME q \in MtDb PROVE FreshWith(q, db'[q], saved'[q], proc'[q], saved')
    BY DEF RepoFresh
  <2>1. FreshWith(q, db'[q], saved'[q], proc'[q], saved)
    BY <1>2, <1>f DEF LocalFresh, FreshInv, RepoFresh
  <2>2. /\ IsUps(db'[q].ups) /\ DOMAIN db'[q].ups \subseteq Repo
        /\ IsUps(saved'[q].ups) /\ DOMAIN saved'[q].ups \subseteq Repo
    BY <1>1, <1>3, UpstreamAssumption DEF IsDb, IsUps, CascadeInv, RepoShape, Shape, UpstreamAssumption
  <2>3. Known(db'[q].ups, saved) /\ Known(saved'[q].ups, saved)
    BY <1>1, KnownStep
  <2>4. OwnOrMerged(q, saved'[q], saved')
    BY <1>3, <1>4, <2>1, <2>2, <2>3, OwnOrMergedGrows DEF FreshWith
  <2>5. proc'[q] = Idle => OwnOrMerged(q, db'[q], saved')
    BY <1>3, <1>4, <2>1, <2>2, <2>3, OwnOrMergedGrows DEF FreshWith
  <2> QED
    BY <2>1, <2>4, <2>5 DEF FreshWith
<1> QED
  BY <1>1, <1>5 DEF FreshInv

LEMMA FreshInit == Init => FreshInv
<1> SUFFICES ASSUME Init, NEW r \in Repo PROVE RepoFresh(r)
  BY CascadeInit DEF FreshInv
<1>1. db[r] = EmptyDb /\ saved[r] = EmptyDb /\ proc[r] = NoProcess
  BY DEF Init
<1>2. \A t \in Tables : Len(EmptyDb.log[t]) = 0 /\ DOMAIN EmptyDb.map[t] = {}
  BY DEF EmptyDb
<1>3. Fresh(r, EmptyDb, DOMAIN EmptyDb.ups)
  BY <1>2 DEF Fresh, Distinct, LogMapped, Origin
<1>4. OwnOrMerged(r, EmptyDb, saved)
  BY <1>2 DEF OwnOrMerged
<1> QED
  BY <1>1, <1>3, <1>4 DEF RepoFresh, FreshWith, NoProcess, Idle, Tables

LEMMA FreshNext == ASSUME Cascade PROVE FreshInv /\ [Next]_vars => FreshInv'
<1>1. ASSUME FreshInv, UNCHANGED vars PROVE FreshInv'
  <2>1. CascadeInv'
    BY <1>1, CascadeNext DEF FreshInv
  <2> QED
    BY <1>1, <2>1 DEF FreshInv, RepoFresh, vars
<1> QED
  BY <1>1, FreshStep DEF Next

\* In a cascade whose repositories map different keys, a merge that was started
\* never stops at "sha1 is already mapped".
THEOREM MergesSucceedAlways == ASSUME Cascade, KeysApart PROVE Spec => []MergesSucceed
<1>1. FreshInv => MergesSucceed
  <2> SUFFICES ASSUME FreshInv, NEW r \in MtDb, NEW t \in Tables, Merging(r, t), Left(r, t),
                      NextMapped(r, t)
               PROVE  FALSE
    BY DEF MergesSucceed
  <2> DEFINE p == proc[r]
             rec == NextRecord(r, t)
             log == p.from.log[t]
  <2>1. r \in Repo
    BY UpstreamAssumption DEF UpstreamAssumption
  <2>2. /\ IsMerge(p) /\ rec \in Record /\ p.pos + 1 \in 1 .. Len(log) /\ p.at = t
    BY <2>1, NextRecordType DEF FreshInv, CascadeInv, IInv, Merging
  <2>3. rec = log[p.pos + 1] /\ p.pos \in Nat /\ Reached(p, t) = p.pos
    BY <2>2 DEF NextRecord, IsMerge, Reached
  <2>4. Fresh(p.up, p.from, DOMAIN p.from.ups) /\ OwnOrReached(r, db[r], p)
    BY <2>1, <2>2 DEF FreshInv, RepoFresh, FreshWith
  <2>5. rec.key \notin Generates[r]
    <3>1. p.up \in MtDb \ {r} /\ DOMAIN p.from.ups \subseteq MtDb \ {r}
      BY <2>1, <2>2 DEF FreshInv, CascadeInv, RepoShape, Active, MergeShape, Shape
    <3>2. rec.by \in {p.up} \cup DOMAIN p.from.ups /\ rec.key \in Generates[rec.by]
      BY <2>2, <2>3, <2>4 DEF Fresh, Origin
    <3>3. rec.by \in Repo /\ rec.by # r
      BY <3>1, <3>2, UpstreamAssumption DEF UpstreamAssumption
    <3> QED
      BY <2>1, <3>2, <3>3 DEF KeysApart
  <2>6. PICK i \in 1 .. p.pos : log[i].key = rec.key
    BY <2>3, <2>4, <2>5 DEF OwnOrReached, KeyAmong, NextMapped
  <2>7. i \in 1 .. Len(log) /\ i # p.pos + 1
    BY SMTT(30), <2>2, <2>3, <2>6
  <2> QED
    BY <2>2, <2>3, <2>4, <2>6, <2>7 DEF Fresh, Distinct
<1>2. Init => FreshInv
  BY FreshInit
<1>3. FreshInv /\ [Next]_vars => FreshInv'
  BY FreshNext
<1> QED
  BY <1>1, <1>2, <1>3, PTL DEF Spec
=============================================================================
