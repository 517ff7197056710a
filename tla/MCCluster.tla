----------------------------- MODULE MCCluster -----------------------------
(* A barrack server on two ports, a social server and a zone, whose GlobalServer
   is started twice.  The endpoints are named by the ports of
   cfg/server.cfg, whose three zones have the same port at three addresses. *)
EXTENDS Cluster

MCPorts == <<<<"2000", "2001">>, <<"1337">>, <<"2004">>>>
MCEndpoints == {"2000", "2001", "1337", "2004"}
=============================================================================
