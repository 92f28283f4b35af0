----------------------------- MODULE MCMtGenerate -----------------------------
(***************************************************************************)
(* Instances of MtGenerate.                                                *)
(***************************************************************************)
EXTENDS MtGenerate

Both == <<"main", "release">>
One  == <<"main">>

UpTo2 == [b \in Branch |-> 2]
UpTo3 == [b \in Branch |-> 3]

AlwaysNormal == {Normal}
InTwoRuns    == {NoPush, PushOnly}
=============================================================================
