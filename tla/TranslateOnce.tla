---------------------------- MODULE TranslateOnce ----------------------------
(***************************************************************************)
(* What the published monorepo promises ("It's vital that each split       *)
(* commit is only translated once to a monorepo commit",                   *)
(* docs/git-apple-llvm-mt.md).  The commits of the split repository form a *)
(* line; commit c is translated to the monorepo commit mono[c], and a      *)
(* generated branch is the line of the translations of the commits of its  *)
(* source.  A branch grows by commits that are translated for it, or by    *)
(* those that were translated for another branch.                          *)
(***************************************************************************)
EXTENDS Naturals, Sequences, SequencesExt

CONSTANT Branch

VARIABLES
  mono,      \* mono[c]: the monorepo commit of split commit c
  published  \* published[b]: the monorepo commits of branch b

Forward(b) ==
  /\ IsStrictPrefix(published[b], published'[b])
  /\ \A c \in Branch \ {b} : published'[c] = published[c]

\* New commits are translated, all of them for b.
Translate(b) ==
  /\ Forward(b)
  /\ IsStrictPrefix(mono, mono')
  /\ mono' = published'[b]

\* b moves to commits that are translated already.
CatchUp(b) ==
  /\ Forward(b)
  /\ UNCHANGED mono
  /\ IsPrefix(published'[b], mono)

Init == \A b \in Branch : IsPrefix(published[b], mono)

Next == \E b \in Branch : Translate(b) \/ CatchUp(b)

Spec == Init /\ [][Next]_<<mono, published>>
=============================================================================
