---------------------------- MODULE BranchPromise ----------------------------
(***************************************************************************)
(* What interleaving promises of the branches of the monorepo, without the *)
(* passes of a run: a branch is moved to one goal per directory it tracks. *)
(* It then has the content of the goals and the history that comes with    *)
(* them; it is moved forward from what it had, unless a goal rewinds it;   *)
(* and a split commit keeps the mono commit it got first, on every branch. *)
(***************************************************************************)
EXTENDS SplitHistory

CONSTANTS
  Directory,    \* the directories
  Branches,     \* the branches of the monorepo
  TrackedBy     \* TrackedBy[b]: the directories branch b tracks

VARIABLES
  history,   \* the split history
  at,        \* at[b][d]: the commit of d whose content the branch has
  merged,    \* merged[b]: the split commits in the history of the branch
  known      \* known[c]: the mono commit of c

pvars == <<history, at, merged, known>>

\* What a branch of commits dated later than their parents must contain; git
\* lists the others in an order the interleaver cannot use.
WellDated(h) == \A c \in Commits(h) : \A p \in ToSet(h.par[c]) : h.ct[p] < h.ct[c]
Required(g) ==
  IF WellDated(history) THEN Ancestors(history, ToSet(g)) ELSE ToSet(g) \ {Null}

PromiseInit ==
  /\ at = [b \in Branches |-> [d \in Directory |-> Null]]
  /\ merged = [b \in Branches |-> {}]
  /\ known = [c \in Commits(history) |-> Null]

Descends(g, b) ==
  \A d \in Directory : at[b][d] # Null => at[b][d] \in Ancestors(history, {g[d]})

Move(b) ==
  /\ at'[b] \in [Directory -> Commits(history) \cup {Null}]
  /\ \A d \in TrackedBy[b] : at'[b][d] # Null /\ history.dir[at'[b][d]] = d
  /\ Required([d \in Directory |-> at'[b][d]]) \subseteq merged'[b]
  /\ Descends(at'[b], b) => merged[b] \subseteq merged'[b]
  /\ \A c \in merged'[b] : known'[c] # Null
  /\ \A c \in Commits(history) : known[c] # Null => known'[c] = known[c]
  /\ \A k \in Branches \ {b} : at'[k] = at[k] /\ merged'[k] = merged[k]
  /\ UNCHANGED history

Promise == PromiseInit /\ [][\E b \in Branches : Move(b)]_pvars
=============================================================================
