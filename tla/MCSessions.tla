----------------------------- MODULE MCSessions -----------------------------
(***************************************************************************)
(* Sessions with small constants: the clients that may quit at any time    *)
(* send a packet while they are inside a server, the others log in,        *)
(* connect and wait for the answers.                                       *)
(***************************************************************************)
EXTENDS Sessions

MCMaxRequests == [p \in Players |-> IF p \in Abrupt THEN 1 ELSE 0]
=============================================================================
