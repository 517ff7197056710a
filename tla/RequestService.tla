--------------------------- MODULE RequestService ---------------------------
(***************************************************************************)
(* What a client may expect of a server process, whatever the number of   *)
(* workers behind its Router: the life of one request.                     *)
(*                                                                         *)
(* A client sends its packets in order.  Each one is queued, served by at *)
(* most one worker at a time, turned into a reply and then gone; its       *)
(* answer reaches the client at most once and only after it was served.    *)
(* A request can also vanish before it is served (lost) or its reply can   *)
(* be dropped: the server does not promise an answer.                      *)
(*                                                                         *)
(* Ordered says whether the server also promises that the packets of one   *)
(* client are served one after the other in the order they were sent.      *)
(***************************************************************************)
EXTENDS Naturals, FiniteSets

CONSTANTS
    Clients,      \* the connected game clients
    MaxRequests,  \* how many packets each client sends
    Capacity,     \* how many requests can be served at the same time
    Ordered       \* TRUE if one client's packets are served in order

VARIABLES
    life,      \* life[r]: where request r is in its life
    answered   \* the requests whose answer was sent to the client

vars == <<life, answered>>

Requests == Clients \X (1..MaxRequests)

Stages == {"unsent", "queued", "serving", "replying", "gone"}

\* The requests of r's client sent before r
Earlier(r) == {<<r[1], n>> : n \in 1..(r[2] - 1)}

Queued == {r \in Requests : life[r] = "queued"}
Serving == {r \in Requests : life[r] = "serving"}

Init ==
    /\ life = [r \in Requests |-> "unsent"]
    /\ answered = {}

Become(r, stage) == life' = [life EXCEPT ![r] = stage]

(* The server takes a packet of the client, or drops it as it arrives.    *)
Send(r, stage) ==
    /\ life[r] = "unsent"
    /\ \A e \in Earlier(r) : life[e] # "unsent"
    /\ stage \in {"queued", "gone"}
    /\ Become(r, stage)
    /\ UNCHANGED answered

Serve(r) ==
    /\ life[r] = "queued"
    /\ Cardinality(Serving) < Capacity
    /\ Ordered => \A e \in Earlier(r) : life[e] \notin {"queued", "serving"}
    /\ Become(r, "serving")
    /\ UNCHANGED answered

(* The worker is done with r; the requests in eaten, which were queued,    *)
(* vanish with the reply.                                                  *)
Reply(r, eaten) ==
    /\ life[r] = "serving"
    /\ life' = [q \in Requests |-> IF q = r THEN "replying"
                                   ELSE IF q \in eaten THEN "gone"
                                   ELSE life[q]]
    /\ UNCHANGED answered

(* The reply reaches the client (or holds nothing for it).                *)
Answer(r, visible) ==
    /\ life[r] = "replying"
    /\ r \notin answered
    /\ Ordered => \A q \in answered : q[1] = r[1] => q[2] < r[2]
    /\ Become(r, "gone")
    /\ answered' = answered \cup (IF visible THEN {r} ELSE {})

Next ==
    \E r \in Requests :
        \/ \E stage \in {"queued", "gone"} : Send(r, stage)
        \/ Serve(r)
        \/ \E eaten \in SUBSET Queued : Reply(r, eaten)
        \/ \E visible \in BOOLEAN : Answer(r, visible)

Spec == Init /\ [][Next]_vars
=============================================================================
