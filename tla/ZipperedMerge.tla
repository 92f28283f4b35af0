---------------------------- MODULE ZipperedMerge ----------------------------
(***************************************************************************)
(* The zippered merge (am/zippered_merge.py): two branches, left and       *)
(* right, that merge from a common ancestor independently are merged into  *)
(* one target.  A commit may be merged when its merge base with the common *)
(* ancestor is the one the other branch was merged up to, and a pair of    *)
(* commits when both have the same; commits in between come along.  The    *)
(* merges are computed from a window of the oldest unmerged commits of     *)
(* each branch; the automerger makes the first of them, and computes again *)
(* when it is in the target and other commits have arrived.                *)
(*                                                                         *)
(* A commit is its merge base, a position in the line of the common        *)
(* ancestor's commits, and a branch the sequence of its first parents.     *)
(* Merge bases do not decrease along a branch, as after a reverse merge    *)
(* they might.                                                             *)
(***************************************************************************)
EXTENDS Naturals, Sequences, FiniteSetsExt, SequencesExt

CONSTANTS
  Window,      \* max_commits
  MaxBase,     \* bound: commits of the common ancestor
  MaxCommits   \* bound: commits of each branch

\* What the constants must be.
ZipperAssumption == Window \in Nat \ {0} /\ MaxBase \in Nat /\ MaxCommits \in Nat

VARIABLES
  left, right,  \* the merge bases of the branches' commits; the first commit
                \* of each has been merged
  merged        \* how many commits of left and right are in the target

vars == <<left, right, merged>>

\* The target is made from the common ancestor, or from branches in step: the
\* search does not find a commit that reaches what the other branch is merged
\* up to, unless it is the next one.
Init ==
  /\ left = <<0>> /\ right = <<0>>
  /\ merged = <<1, 1>>

\* Where the windows end.
Least(m, n) == IF m <= n THEN m ELSE n
LeftEnd == Least(merged[1] + Window, Len(left))
RightEnd == Least(merged[2] + Window, Len(right))

\* A mutant of NextMatch: the right side is not advanced past commits that
\* have no match.
NextMatchOfFirst(i, j) ==
  {p \in (i + 1 .. LeftEnd) \X {n \in {j + 1} : n <= RightEnd} :
     /\ left[p[1]] = right[p[2]]
     /\ \A k \in i + 1 .. p[1] - 1 : left[k] # right[p[2]]}

\* find_next_matching_merge_base: the first commit of the right with a match
\* in the left, and the first match.
NextMatch(i, j) ==
  {p \in (i + 1 .. LeftEnd) \X (j + 1 .. RightEnd) :
     /\ left[p[1]] = right[p[2]]
     /\ \A k \in i + 1 .. p[1] - 1 : left[k] # right[p[2]]
     /\ \A n \in j + 1 .. p[2] - 1, k \in i + 1 .. LeftEnd : left[k] # right[n]}

\* compute_zippered_merge_commits, one merge: what is merged then, when i and
\* j commits are; nothing if there is none.
NextMerge(i, j) ==
  IF i < LeftEnd /\ right[j] = left[i + 1] THEN {<<i + 1, j>>}
  ELSE IF j < RightEnd /\ left[i] = right[j + 1] THEN {<<i, j + 1>>}
  ELSE NextMatch(i, j)

\* All merges of a call, without stop_on_first.
Merges ==
  LET from[p \in (1 .. LeftEnd) \X (1 .. RightEnd)] ==
        LET next == NextMerge(p[1], p[2])
            q == CHOOSE q \in next : TRUE
        IN  IF next = {} THEN <<>> ELSE <<q>> \o from[q]
  IN  from[merged]

-----------------------------------------------------------------------------
\* A commit on a branch, which may merge from the common ancestor.
Commit ==
  \/ /\ Len(left) < MaxCommits
     /\ \E b \in Last(left) .. MaxBase : left' = Append(left, b)
     /\ UNCHANGED <<right, merged>>
  \/ /\ Len(right) < MaxCommits
     /\ \E b \in Last(right) .. MaxBase : right' = Append(right, b)
     /\ UNCHANGED <<left, merged>>

\* The first merge reaches the target.
Merge ==
  /\ merged' \in NextMerge(merged[1], merged[2])
  /\ UNCHANGED <<left, right>>

Next == Commit \/ Merge

Spec == Init /\ [][Next]_vars

-----------------------------------------------------------------------------
\* The types of the variables.
TypeOK ==
  /\ left \in Seq(0 .. MaxBase) /\ right \in Seq(0 .. MaxBase)
  /\ merged[1] \in 1 .. Len(left) /\ merged[2] \in 1 .. Len(right)

\* The commits that may be merged together, those that are merged included.
InStep ==
  {p \in (merged[1] .. LeftEnd) \X (merged[2] .. RightEnd) : left[p[1]] = right[p[2]]}

\* However greedy the search is, and whatever it skips, every merge leaves
\* the target in step, and the last one reaches the last pair of commits in
\* the windows that are in step: nothing that could be merged is left.
NothingLeftBehind ==
  LET ms == Merges
      end == IF ms = <<>> THEN merged ELSE Last(ms)
  IN  /\ \A i \in DOMAIN ms : ms[i] \in InStep
      /\ \A p \in InStep : p[1] <= end[1] /\ p[2] <= end[2]
=============================================================================
