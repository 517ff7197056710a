------------------------------ MODULE MCRouter ------------------------------
(***************************************************************************)
(* Router with small constants.                                            *)
(***************************************************************************)
EXTENDS Router, TLC

MayEat == {TRUE, FALSE}

ClientSymmetry == Permutations(Clients)
=============================================================================
