--------------------------------- MODULE Fwd ---------------------------------
(***************************************************************************)
(* git apple-llvm fwd (git-apple-llvm-fwd): a job that forwards branches   *)
(* and tags from some remotes to others, as the "push" lines of a          *)
(* fwd-config say.  A run fetches the remotes that are sources into its    *)
(* clone, and pushes to each remote of the "push" lines, one remote after  *)
(* the other in the order of their names.  It does not ask a remote what   *)
(* it has: it skips the push when the refs equal those that the clone      *)
(* keeps for the remote since the last push (or fetch).  git records the   *)
(* branches that it pushed; tags are recorded by a push of their own, if   *)
(* nothing was refused.  The first push that fails ends the run.           *)
(*                                                                         *)
(* Nobody else writes to the remotes that are forwarded to.  No line       *)
(* forwards to the branch that the clone's HEAD names, which git refuses   *)
(* to delete when the refs are cleared for the comparison.  A ref is the   *)
(* history of its commits, which are numbered as they are made; an empty   *)
(* one is a ref that does not exist.  A line with a pattern is a line for  *)
(* each name that it matches.                                              *)
(***************************************************************************)
EXTENDS Naturals, Sequences, SequencesExt

CONSTANTS
  Order,        \* the remotes, in the order of their names
  WithTags,     \* those of a "remote-tags" line
  Heads, Tags,  \* the names of branches and tags
  Line,         \* the "push" lines: to, from, src, dst, force, exact (no pattern)
  MaxMoves,     \* bound: changes of the sources
  MaxKills      \* bound: runs that are killed

Remote == Range(Order)
Name == Heads \cup Tags

\* What the constants must be.
FwdAssumption ==
  /\ Order \in Seq(Remote) \ {<<>>} /\ IsInjective(Order)
  /\ WithTags \subseteq Remote /\ Heads \cap Tags = {}
  /\ Line \subseteq [to : Remote, from : Remote, src : Name, dst : Name,
                     force : BOOLEAN, exact : BOOLEAN]
  /\ \A l \in Line : l.to # l.from /\ (l.src \in Tags <=> l.dst \in Tags)
  /\ \A k, l \in Line : k.to = l.to /\ k.dst = l.dst => k = l
  /\ MaxMoves \in Nat /\ MaxKills \in Nat

VARIABLES
  refs,      \* refs[r]: what remote r has
  cache,     \* cache[r]: the clone's refs/remotes/r and refs/remote-tags/r
  run,       \* the run in progress: where it is, and at which remote
  former,    \* the values each ref of a source had
  restored,  \* a ref of a source went back to such a value
  moves,
  kills

vars == <<refs, cache, run, former, restored, moves, kills>>

NoRef == <<>>
Idle == [at |-> "idle", next |-> 1]
LinesTo(r) == {l \in Line : l.to = r}

\* The refs that somebody else than fwd writes.
Origins ==
  {<<l.from, l.src>> : l \in {k \in Line : \A m \in LinesTo(k.from) : m.dst # k.src}}

Init ==
  /\ refs = [r \in Remote |-> [n \in Name |-> IF <<r, n>> \in Origins THEN <<0>> ELSE NoRef]]
  /\ cache = [r \in Remote |-> [n \in Name |-> NoRef]]
  /\ run = Idle
  /\ former = [r \in Remote |-> [n \in Name |-> {refs[r][n]}]]
  /\ restored = FALSE
  /\ moves = 0 /\ kills = 0

-----------------------------------------------------------------------------
(***************************************************************************)
(* The sources: a ref is moved forward, rewritten, deleted, or restored.   *)
(***************************************************************************)
Set(r, n, h) ==
  /\ moves < MaxMoves /\ h # refs[r][n]
  /\ refs' = [refs EXCEPT ![r][n] = h]
  /\ former' = [former EXCEPT ![r][n] = @ \cup {h}]
  /\ moves' = moves + 1
  /\ UNCHANGED <<cache, run, kills>>

Move(r, n) ==
  /\ \E h \in {Append(refs[r][n], moves + 1), <<moves + 1>>, NoRef} : Set(r, n, h)
  /\ UNCHANGED restored

Restore(r, n) ==
  /\ \E h \in former[r][n] \ {NoRef} : Set(r, n, h)
  /\ restored' = TRUE

-----------------------------------------------------------------------------
(***************************************************************************)
(* A run.                                                                  *)
(***************************************************************************)
This == Order[run.next]

\* The rest of the run: the next remote, or the next pass.
GoOn ==
  run' = IF run.next < Len(Order) THEN [at |-> run.at, next |-> run.next + 1]
         ELSE IF run.at = "fetch" THEN [at |-> "push", next |-> 1] ELSE Idle

Start ==
  /\ run = Idle
  /\ run' = [Idle EXCEPT !.at = "fetch"]
  /\ UNCHANGED <<refs, cache, former, restored, moves, kills>>

\* fetch_remote, of those that are sources.
IsSource(r) == \E l \in Line : l.from = r
Fetched(r) ==
  [n \in Name |-> IF n \in Heads \/ r \in WithTags THEN refs[r][n] ELSE cache[r][n]]

Fetch ==
  /\ run.at = "fetch"
  /\ cache' = IF IsSource(This) THEN [cache EXCEPT ![This] = Fetched(This)] ELSE cache
  /\ GoOn
  /\ UNCHANGED <<refs, former, restored, moves, kills>>

\* What a line pushes, and what is in refs/heads and refs/tags after the local push.
Pushed(l) == cache[l.from][l.src]
Missing(r) == \E l \in LinesTo(r) : l.exact /\ Pushed(l) = NoRef

\* A mutant of Changed: branches only.
ChangedHeads(r) ==
  \E l \in LinesTo(r) : l.dst \in Heads /\ Pushed(l) # NoRef /\ Pushed(l) # cache[r][l.dst]

\* check_locally_for_changes.
Changed(r) == \E l \in LinesTo(r) : Pushed(l) # NoRef /\ Pushed(l) # cache[r][l.dst]

\* What a remote lets a line do to the ref it has: tags are never moved.
Accepts(l, old, new) ==
  l.force \/ old \in {NoRef, new} \/ (l.dst \in Heads /\ IsPrefix(old, new))

Skip ==
  /\ run.at = "push" /\ ~Missing(This) /\ ~Changed(This)
  /\ GoOn
  /\ UNCHANGED <<refs, cache, former, restored, moves, kills>>

\* The push into the clone itself fails, before anything is pushed.
FailLocally ==
  /\ run.at = "push" /\ Missing(This)
  /\ run' = Idle
  /\ UNCHANGED <<refs, cache, former, restored, moves, kills>>

\* git push without --atomic: each ref is accepted or refused by itself.
LineFor(r, n) == {l \in LinesTo(r) : l.dst = n /\ Pushed(l) # NoRef}
AfterPush(r) ==
  [n \in Name |->
     LET ls == {l \in LineFor(r, n) : Accepts(l, refs[r][n], Pushed(l))}
     IN  IF ls = {} THEN refs[r][n] ELSE Pushed(CHOOSE l \in ls : TRUE)]

Push ==
  /\ run.at = "push" /\ ~Missing(This) /\ Changed(This)
  /\ refs' = [refs EXCEPT ![This] = AfterPush(This)]
  /\ run' = [run EXCEPT !.at = "record"]
  /\ UNCHANGED <<cache, former, restored, moves, kills>>

\* git's own record of the branches, of those that were accepted.  The run
\* ends if a ref was refused.
Landed(l) == refs[l.to][l.dst] = Pushed(l)
Recorded(r, N) ==
  [n \in Name |-> IF n \in N /\ \E l \in LineFor(r, n) : Landed(l)
                  THEN refs[r][n] ELSE cache[r][n]]

RecordHeads ==
  /\ run.at = "record"
  /\ cache' = [cache EXCEPT ![This] = Recorded(This, Heads)]
  /\ run' = IF \A l \in LinesTo(This) : Pushed(l) = NoRef \/ Landed(l)
            THEN [run EXCEPT !.at = "record_tags"] ELSE Idle
  /\ UNCHANGED <<refs, former, restored, moves, kills>>

RecordTags ==
  /\ run.at = "record_tags"
  /\ cache' = [cache EXCEPT ![This] = Recorded(This, Tags)]
  /\ run' = IF run.next < Len(Order) THEN [at |-> "push", next |-> run.next + 1] ELSE Idle
  /\ UNCHANGED <<refs, former, restored, moves, kills>>

Kill ==
  /\ run # Idle /\ kills < MaxKills
  /\ run' = Idle
  /\ kills' = kills + 1
  /\ UNCHANGED <<refs, cache, former, restored, moves>>

Run == Fetch \/ Skip \/ FailLocally \/ Push \/ RecordHeads \/ RecordTags

Next ==
  \/ \E o \in Origins : Move(o[1], o[2]) \/ Restore(o[1], o[2])
  \/ Start \/ Run \/ Kill

\* The job is started again and again, and a run that is not killed goes on.
Fairness == WF_vars(Start) /\ WF_vars(Run)

Spec == Init /\ [][Next]_vars /\ Fairness

-----------------------------------------------------------------------------
IsHistory(h) == h \in Seq(0 .. MaxMoves)

\* The types of the variables.
TypeOK ==
  /\ \A r \in Remote, n \in Name : IsHistory(refs[r][n]) /\ IsHistory(cache[r][n])
  /\ run.at \in {"idle", "fetch", "push", "record", "record_tags"}
  /\ run.next \in 1 .. Len(Order)
  /\ restored \in BOOLEAN /\ moves \in 0 .. MaxMoves /\ kills \in 0 .. MaxKills

Source(l) == refs[l.from][l.src]
Forwarded(l) == Source(l) \in {NoRef, refs[l.to][l.dst]}
Refused(l) == Source(l) # NoRef /\ ~Accepts(l, refs[l.to][l.dst], Source(l))
Lost(l) == l.exact /\ Source(l) = NoRef

\* What stands before remote r: a push that fails, of a remote before it or,
\* since it fails as a whole, of r itself because a branch is gone.
Behind(r) ==
  \E l \in Line, i, j \in DOMAIN Order :
    /\ Order[i] = l.to /\ Order[j] = r
    /\ \/ Lost(l) /\ i <= j
       \/ Refused(l) /\ i < j

\* In the end every ref is forwarded, also through remotes that are both
\* source and destination, whatever the kills left in the clone, but those
\* that are refused and those of the remotes behind a failure.  A ref that
\* goes back to a former value may be mistaken for the one that was recorded.
EventuallyForwarded ==
  <>[](restored \/ \A l \in Line : Forwarded(l) \/ Refused(l) \/ Behind(l.to))
=============================================================================
