---------------------------- MODULE MCMtUpstream ----------------------------
(***************************************************************************)
(* Instances of MtUpstream.                                                *)
(***************************************************************************)
EXTENDS MtUpstream

\* One agent tries twice, the others give up at once.
Patience == [a \in Agent |-> IF a = "d" THEN 1 ELSE 0]
=============================================================================
