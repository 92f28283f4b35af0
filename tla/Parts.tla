-------------------------------- MODULE Parts --------------------------------
(***************************************************************************)
(* The parts of the system that share no state, side by side.  part says   *)
(* which of them a behaviour is about; the others stay as they are         *)
(* initially.                                                              *)
(*   "map"       the table of split2mono, as other processes read it       *)
(*   "by hand"   the table of a process that is killed, opened as it is    *)
(*   "calls"     calls of git, with input or without                       *)
(*   "revs"      the revisions of commits, over several runs               *)
(*   "svn2git"   the svn2git database and the command that fills it        *)
(*   "trie"      the trie of the names in memory                           *)
(*   "dirs"      the list of directories and its masks                     *)
(*   "fwd"       branches and tags that are forwarded                      *)
(*   "zipper"    the zippered merge of two branches                        *)
(***************************************************************************)
EXTENDS Naturals, FiniteSets

CONSTANTS
  MapKey, MapDigit,    \* the keys of the table and their digits
  HandKey, HandDigit,  \* those of the table that is opened by hand
  Value, Slot, Depth, Byte, MaxRecords,
  Thread, Input, Output, Capacity, MaxCalls, MaxDeaths, Interruptible, MaxInterrupts,
  Upstream, MaxCommits, Branch, MaxRuns,
  MaxRev, MaxFaults,
  TrieName, Width, RootBits, Bits,
  DirName, RootDir, MaxSize,
  Order, WithTags, Heads, Tags, FwdLine, MaxMoves, MaxKills,
  Window, MaxBase, MaxBranch  \* MaxBranch: the commits of a branch

VARIABLES
  part,
  data, index, diskData, diskIndex, saved, mode, op, stack, top, half, reply,
  call, mine, git, pipe, deaths,
  par, id, tip, base, content, revRun, memo, runs,
  parent, mtdb, file, svnRun, faults,
  slot, entries, found,
  list, tracked, repeated, active, stable, declared,
  refs, cache, fwdRun, former, restored, moves, kills,
  left, right, merged

PartNames == {"map", "by hand", "calls", "revs", "svn2git", "trie", "dirs", "fwd", "zipper"}

-----------------------------------------------------------------------------
MapTable == INSTANCE MCSplitMonoTable WITH Key <- MapKey, Digit <- MapDigit
HandTable == INSTANCE MCSplitMonoTable WITH Key <- HandKey, Digit <- HandDigit
Calls == INSTANCE GitCalls
Revs == INSTANCE GitRevs WITH run <- revRun
Svn == INSTANCE Svn2Git WITH run <- svnRun
Trie == INSTANCE Sha1Trie WITH Name <- TrieName, reply <- found
Dirs == INSTANCE DirList WITH Name <- DirName, Root <- RootDir
Forward == INSTANCE Fwd WITH run <- fwdRun, Line <- FwdLine
Zipper == INSTANCE ZipperedMerge WITH MaxCommits <- MaxBranch

\* What the constants must be.
ASSUME PartsAssumption ==
  /\ MapTable!ConstantsAssumption /\ HandTable!ConstantsAssumption
  /\ Calls!CallsAssumption /\ Revs!RevsAssumption
  /\ Svn!Svn2GitAssumption /\ Trie!TrieAssumption /\ Dirs!DirListAssumption
  /\ Forward!FwdAssumption /\ Zipper!ZipperAssumption

-----------------------------------------------------------------------------
tableVars == <<data, index, diskData, diskIndex, saved, mode, op, stack, top, half, reply>>
callVars == <<call, mine, git, pipe, deaths>>
revVars == <<par, id, tip, base, content, revRun, memo, runs>>
svnVars == <<parent, mtdb, file, svnRun, faults>>
trieVars == <<slot, entries, found>>
dirVars == <<list, tracked, repeated, active, stable, declared>>
fwdVars == <<refs, cache, fwdRun, former, restored, moves, kills>>
zipperVars == <<left, right, merged>>
toolVars == <<fwdVars, zipperVars>>
vars == <<part, tableVars, callVars, revVars, svnVars, trieVars, dirVars, toolVars>>

Init ==
  /\ part \in PartNames
  /\ IF part = "by hand" THEN HandTable!Init ELSE MapTable!Init
  /\ Calls!Init /\ Revs!Init /\ Svn!Init /\ Trie!Init /\ Dirs!Init
  /\ Forward!Init /\ Zipper!Init

\* A step of one part.
Map(A) ==
  /\ part = "map" /\ A
  /\ UNCHANGED <<part, callVars, revVars, svnVars, trieVars, dirVars, toolVars>>
Hand(A) ==
  /\ part = "by hand" /\ A
  /\ UNCHANGED <<part, callVars, revVars, svnVars, trieVars, dirVars, toolVars>>
InCalls(A) ==
  /\ part = "calls" /\ A
  /\ UNCHANGED <<part, tableVars, revVars, svnVars, trieVars, dirVars, toolVars>>
InRevs(A) ==
  /\ part = "revs" /\ A
  /\ UNCHANGED <<part, tableVars, callVars, svnVars, trieVars, dirVars, toolVars>>
InSvn(A) ==
  /\ part = "svn2git" /\ A
  /\ UNCHANGED <<part, tableVars, callVars, revVars, trieVars, dirVars, toolVars>>
InTrie(A) ==
  /\ part = "trie" /\ A
  /\ UNCHANGED <<part, tableVars, callVars, revVars, svnVars, dirVars, toolVars>>
InDirs(A) ==
  /\ part = "dirs" /\ A
  /\ UNCHANGED <<part, tableVars, callVars, revVars, svnVars, trieVars, toolVars>>
InFwd(A) ==
  /\ part = "fwd" /\ A
  /\ UNCHANGED <<part, tableVars, callVars, revVars, svnVars, trieVars, dirVars, zipperVars>>
InZipper(A) ==
  /\ part = "zipper" /\ A
  /\ UNCHANGED <<part, tableVars, callVars, revVars, svnVars, trieVars, dirVars, fwdVars>>

\* The next-state relations of the parts, action by action, so that the
\* coverage of a run shows each of them.
MapNext ==
  \/ Map(MapTable!Open) \/ Map(MapTable!CloseData) \/ Map(MapTable!CloseIndex)
  \/ \E k \in MapKey, v \in Value :
       \/ Map(MapTable!Begin("insert", k, v)) \/ Map(MapTable!Begin("check", k, v))
  \/ \E k \in MapKey : Map(MapTable!Begin("lookup", k, "none"))
  \/ Map(MapTable!Descend) \/ Map(MapTable!FoundMapped) \/ Map(MapTable!LookupAbsent)
  \/ Map(MapTable!InsertNew) \/ Map(MapTable!InsertCollision)
  \/ Map(MapTable!WriteEntry) \/ Map(MapTable!WriteBitmap)
  \/ Map(MapTable!Fail) \/ Map(MapTable!Kill) \/ Map(MapTable!Save) \/ Map(MapTable!Reset)

HandNext ==
  \/ Hand(HandTable!Open) \/ Hand(HandTable!CloseData) \/ Hand(HandTable!CloseIndex)
  \/ \E k \in HandKey, v \in Value :
       \/ Hand(HandTable!Begin("insert", k, v)) \/ Hand(HandTable!Begin("check", k, v))
  \/ \E k \in HandKey : Hand(HandTable!Begin("lookup", k, "none"))
  \/ Hand(HandTable!FoundMapped) \/ Hand(HandTable!FoundUnreadable)
  \/ Hand(HandTable!LookupAbsent) \/ Hand(HandTable!InsertNew)
  \/ Hand(HandTable!WriteEntry) \/ Hand(HandTable!WriteBitmap)
  \/ Hand(HandTable!Fail) \/ Hand(HandTable!Kill) \/ Hand(HandTable!Reopen)

CallsNext ==
  \E t \in Thread :
    \/ InCalls(Calls!Pipe(t)) \/ InCalls(Calls!PipeTo(t)) \/ InCalls(Calls!Spawn(t))
    \/ InCalls(Calls!Close(t)) \/ InCalls(Calls!Write(t)) \/ InCalls(Calls!BrokenPipe(t))
    \/ InCalls(Calls!CloseTo(t)) \/ InCalls(Calls!Read(t)) \/ InCalls(Calls!ReadEnd(t))
    \/ InCalls(Calls!Wait(t)) \/ InCalls(Calls!Interrupt(t))
    \/ InCalls(Calls!GitReads(t)) \/ InCalls(Calls!GitReadsEnd(t))
    \/ InCalls(Calls!GitWrites(t)) \/ InCalls(Calls!GitExits(t)) \/ InCalls(Calls!GitDies(t))

RevsNext ==
  \/ InRevs(Revs!Commit) \/ InRevs(Revs!Start) \/ InRevs(Revs!List)
  \/ InRevs(Revs!FindHead) \/ InRevs(Revs!Translate) \/ InRevs(Revs!End)

SvnNext ==
  \/ InSvn(Svn!Commit) \/ InSvn(Svn!StartAny) \/ InSvn(Svn!Bisect) \/ InSvn(Svn!Insert)
  \/ InSvn(Svn!Save) \/ InSvn(Svn!CutShort) \/ InSvn(Svn!SaveWithoutLast) \/ InSvn(Svn!Kill)

TrieNext == \E n \in TrieName : InTrie(Trie!Lookup(n)) \/ InTrie(Trie!Insert(n))

DirsNext ==
  \/ \E n \in DirName, kind \in Dirs!Kinds : InDirs(Dirs!AddDir(n, kind))
  \/ InDirs(Dirs!EndDirs)
  \/ \E n \in DirName : InDirs(Dirs!SetHead(n))

FwdNext ==
  \/ \E o \in Forward!Origins :
       InFwd(Forward!Move(o[1], o[2])) \/ InFwd(Forward!Restore(o[1], o[2]))
  \/ InFwd(Forward!Start) \/ InFwd(Forward!Fetch) \/ InFwd(Forward!Skip)
  \/ InFwd(Forward!FailLocally) \/ InFwd(Forward!Push) \/ InFwd(Forward!RecordHeads)
  \/ InFwd(Forward!RecordTags) \/ InFwd(Forward!Kill)

ZipperNext == InZipper(Zipper!Commit) \/ InZipper(Zipper!Merge)

Next ==
  \/ MapNext \/ HandNext \/ CallsNext \/ RevsNext \/ SvnNext \/ TrieNext \/ DirsNext
  \/ FwdNext \/ ZipperNext

\* The fairness of each part, in the behaviours that are about it.
Fairness ==
  /\ \A t \in Thread :
       WF_vars(InCalls(Calls!Step(t))) /\ WF_vars(InCalls(Calls!GitStep(t)))
  /\ WF_vars(InSvn(Svn!Run)) /\ WF_vars(InSvn(Svn!StartAny))
  /\ WF_vars(InFwd(Forward!Run)) /\ WF_vars(InFwd(Forward!Start))

Spec == Init /\ [][Next]_vars /\ Fairness

-----------------------------------------------------------------------------
\* The types of the variables of the parts.
TypeOK ==
  /\ part \in PartNames
  /\ Calls!TypeOK /\ Revs!TypeOK /\ Svn!TypeOK /\ Trie!TypeOK /\ Dirs!TypeOK
  /\ Forward!TypeOK /\ Zipper!TypeOK

\* SplitMonoTable!FilesLagBehind, also when the files of a killed process are
\* opened again as they are.
FilesLagBehind ==
  IF part = "by hand" THEN HandTable!FilesLagBehind ELSE MapTable!FilesLagBehind

\* The properties of the parts, as they state them.
ReplyIsOutput == Calls!ReplyIsOutput
EveryCallReturns == Calls!EveryCallReturns
NewestBaseWinsInOneRun == Revs!NewestBaseWinsInOneRun
DownstreamTranslated == Revs!DownstreamTranslated
ParentsMapped == Svn!ParentsMapped
EveryRevisionMapped == Svn!EveryRevisionMapped
OneEntryPerName == Trie!OneEntryPerName
MasksFollow == Dirs!MasksFollow
EveryNameIsClaimed == Dirs!EveryNameIsClaimed
EventuallyForwarded == part = "fwd" => Forward!EventuallyForwarded
NothingLeftBehind == Zipper!NothingLeftBehind
=============================================================================
