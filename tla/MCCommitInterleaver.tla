------------------------ MODULE MCCommitInterleaver ------------------------
(***************************************************************************)
(* Instances of CommitInterleaver: split histories with lines, merges,     *)
(* side branches and several roots, dated in order, all alike and against  *)
(* the order.                                                              *)
(***************************************************************************)
EXTENDS CommitInterleaver, TLC

CONSTANTS B1, B2

MCDirs == <<"a", "b", "c">>
MCTracked == (B1 :> {"a", "b"}) @@ (B2 :> {"a", "b", "c"})

\* Four commits in "a", one in "b" and one in "c".
Shapes == {
  << <<>>, <<1>>, <<2>>, <<3>> >>,            \* a line
  << <<>>, <<1>>, <<1>>, <<3, 2>> >>,         \* a side branch
  << <<>>, <<1>>, <<2>>, <<3, 2>> >>,         \* a merge of what it has
  << <<>>, <<>>, <<1, 2>>, <<3>> >>}          \* two roots

Dates == {
  <<1, 2, 3, 4, 2, 3>>,                       \* in order
  <<1, 1, 1, 1, 1, 1>>,                       \* all alike
  <<1, 3, 2, 4, 4, 1>>}                       \* clock skew

\* Two lines of two commits and one of one, dated across each other.
Lines == << <<>>, <<1>>, <<>>, <<3>>, <<>> >>
LineDates == {<<1, 3, 2, 4, 3>>, <<2, 3, 1, 3, 1>>, <<2, 2, 2, 2, 2>>, <<2, 1, 3, 2, 1>>}

\* A merge whose side branch forked off before the last commit of "b".
Crossed == WithAncestors(<< <<>>, <<1>>, <<1>>, <<3, 2>>, <<>>, <<5>>, <<>> >>,
                         <<2, 3, 3, 5, 1, 4, 1>>,
                         <<"a", "a", "a", "a", "b", "b", "c">>)

MCHistories ==
  {Crossed} \cup
  {WithAncestors(shape \o << <<>>, <<>> >>, ct, <<"a", "a", "a", "a", "b", "c">>) :
     shape \in Shapes, ct \in Dates}
  \cup {WithAncestors(Lines, ct, <<"a", "a", "b", "b", "c">>) : ct \in LineDates}

\* Seven commits with one date, as a rebase leaves them.  The branch that 7
\* merges forks off at 2, which the first parents of 7 reach over 5, 4 and 3.
TieHistories ==
  {WithAncestors(<< <<>>, <<1>>, <<2>>, <<3>>, <<4>>, <<2>>, <<5, 6>> >>,
                 [c \in 1..7 |-> 1], [c \in 1..7 |-> "a"])}
OnlyA == <<"a">>
TrackA == B1 :> {"a"}
=============================================================================
