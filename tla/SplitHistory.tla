---------------------------- MODULE SplitHistory ----------------------------
(***************************************************************************)
(* The commits of the split repositories and the questions the interleaver *)
(* puts to git about them: the orders of git-log, first-parent lines and   *)
(* merge bases (commit_source.h, git_cache.h).                             *)
(*                                                                         *)
(* A history is a record of functions over its commits 1..n: par, the      *)
(* parents in order; ct, the commit date; dir, the directory (the split    *)
(* repository) of the commit; anc, its ancestors and itself.  Parents come *)
(* before their children in the numbering.  A commit stands for its tree:  *)
(* distinct commits have distinct content.                                 *)
(***************************************************************************)
EXTENDS Integers, Sequences, SequencesExt, FiniteSetsExt

Null == 0                     \* sha1_ref(): no commit

Commits(h) == DOMAIN h.par

WithAncestors(par, ct, dir) ==
  LET anc[c \in DOMAIN par] ==
        {c} \cup UNION {anc[p] : p \in ToSet(par[c])}
  IN  [par |-> par, ct |-> ct, dir |-> dir, anc |-> anc]

\* git commits no parent twice.
IsHistory(h, dirs) ==
  /\ h.par \in Seq(Seq(Nat))
  /\ h.ct \in [Commits(h) -> Nat]
  /\ h.dir \in [Commits(h) -> dirs]
  /\ h.anc \in [Commits(h) -> SUBSET Commits(h)]
  /\ \A c \in Commits(h) :
       /\ IsInjective(h.par[c])
       /\ \A p \in ToSet(h.par[c]) : p \in 1..(c - 1) /\ h.dir[p] = h.dir[c]
       /\ h.anc[c] = {c} \cup UNION {h.anc[p] : p \in ToSet(h.par[c])}

Ancestors(h, S) == UNION {h.anc[c] : c \in S \ {Null}}

\* The members of S that no other member descends from.
Maximal(S, anc) == {c \in S : \A k \in S : c \in anc[k] => k = c}

\* git_cache::merge_base.  git-merge-base prints the newest of several best
\* common ancestors.
MergeBase(h, a, b) ==
  LET best == Maximal(h.anc[a] \cap h.anc[b], h.anc)
  IN  IF best = {} THEN Null
      ELSE CHOOSE c \in best : \A k \in best : h.ct[k] <= h.ct[c]

\* The members of a sequence that are in S, in its order.
Within(s, S) ==
  FoldLeft(LAMBDA t, x : IF x \in S THEN Append(t, x) ELSE t, <<>>, s)

(***************************************************************************)
(* git-log from a tip, within the commits that the stops leave.  Commits   *)
(* wait in a queue from which the newest is listed, the one queued first   *)
(* when dates are equal.  A parent is queued with the first child listed;  *)
(* with --date-order, when every child has been listed.                    *)
(***************************************************************************)
ListNewest(h, region, dateOrder, s) ==
  LET i    == Min({k \in DOMAIN s.queue :
                     \A j \in DOMAIN s.queue : h.ct[s.queue[j]] <= h.ct[s.queue[k]]})
      rest == RemoveAt(s.queue, i)
      out  == Append(s.out, s.queue[i])
      ready == {p \in region \ (ToSet(out) \cup ToSet(rest)) :
                  dateOrder => \A k \in region : p \in ToSet(h.par[k]) => k \in ToSet(out)}
  IN  [queue |-> rest \o Within(h.par[s.queue[i]], ready), out |-> out]

LogOrder(h, tip, region, dateOrder) ==
  LET log[n \in 0..Cardinality(region)] ==
        IF n = 0 THEN [queue |-> <<tip>>, out |-> <<>>]
        ELSE LET s == log[n - 1]
             IN  IF s.queue = <<>> THEN s ELSE ListNewest(h, region, dateOrder, s)
  IN  IF tip \in region THEN log[Cardinality(region)].out ELSE <<>>

\* git log --first-parent
FirstParentLine(h, tip) ==
  LET line[c \in Commits(h)] ==
        IF h.par[c] = <<>> THEN <<c>> ELSE <<c>> \o line[h.par[c][1]]
  IN  line[tip]
=============================================================================
