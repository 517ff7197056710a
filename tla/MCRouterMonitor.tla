-------------------------- MODULE MCRouterMonitor --------------------------
(***************************************************************************)
(* RouterMonitor with small constants.  Descriptors are numbers; the       *)
(* format of RouterMonitor_genKey writes them out (distinct keys) with the *)
(* C library of Windows and gives blanks for each of them with glibc.      *)
(***************************************************************************)
EXTENDS RouterMonitor

DistinctKeys == [f \in Fds |-> f]
BlankKeys == [f \in Fds |-> 0]
=============================================================================
