--------------------------- MODULE MCUpstreamMerge ---------------------------
(***************************************************************************)
(* An instance of UpstreamMerge.  "c" merges "b", which merges "a", as the *)
(* single upstream of an mt-config allows.                                 *)
(***************************************************************************)
EXTENDS UpstreamMerge

Chain == {<<"b", "a">>, <<"c", "b">>}

\* Every key is mapped by one repository only.
OwnKeys ==
  [r \in Repo |-> CASE r = "a" -> {"k1", "k2"} [] r = "b" -> {"s1"} [] OTHER -> {}]

\* The instance is such a cascade.
ASSUME ChainAssumption == Cascade /\ KeysApart
=============================================================================
