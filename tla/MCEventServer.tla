--------------------------- MODULE MCEventServer ---------------------------
(***************************************************************************)
(* EventServer with small constants: two places out of each other's range. *)
(***************************************************************************)
EXTENDS EventServer

Places2 == {"here", "there"}
SamePlace == [p \in Places2 |-> {p}]
=============================================================================
