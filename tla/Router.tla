------------------------------- MODULE Router -------------------------------
(***************************************************************************)
(* The load balancer of a server process (Common/Server/Router.c) with the *)
(* workers it feeds (Common/Server/Worker.c).                              *)
(*                                                                         *)
(* The Router is one reactor thread.  Its frontend is a raw TCP socket the *)
(* game clients talk to, its backend a ROUTER socket to which every worker *)
(* thread connects a REQ socket.  Each handler runs to completion, so a    *)
(* handler is one action; the workers run beside it, and their receive and *)
(* their reply are separate actions.                                       *)
(*                                                                         *)
(* A packet is the pair <<client, n>>, the n-th one that client sent: the  *)
(* bytes do not matter here.  What a handler does with it is the choice of *)
(* a reply in Reply.                                                       *)
(***************************************************************************)
EXTENDS Naturals, Sequences, FiniteSets

CONSTANTS
    WorkersCount,   \* info.workersCount
    Clients,        \* the connected game clients
    NoClient,       \* a NULL curClientId.frame
    MaxRequests,    \* bound: packets each client sends
    Eager,          \* bound: the clients that send more than one
    MaxFrames,      \* bound: data frames in one reply
    EatChoices      \* may a REQ socket eat requests that wait as it replies?

ASSUME WorkersCountAssumption == WorkersCount \in Nat \ {0}
ASSUME ClientsAssumption == NoClient \notin Clients
ASSUME BoundsAssumption == MaxRequests \in Nat /\ MaxFrames \in Nat
ASSUME EatChoicesAssumption == EatChoices \subseteq BOOLEAN /\ EatChoices # {}

VARIABLES
    \* --- the Router
    status,             \* "starting", "open" (frontend bound) or "stopped"
    registered,         \* the workers whose identity.frame is set
    workersReadyCount,  \* READY signals received
    curClient,          \* workers[w].curClientId.frame
    readyWorkers,       \* the list of ready workers, oldest first
    overloadWorker,     \* who takes the next request when the list is empty
    \* --- the sockets between the Router and the workers
    inbox,              \* inbox[w]: requests on their way to worker w
    backend,            \* backend[w]: messages of w the Router has not read
    \* --- the workers
    phase,              \* "starting", "waiting" (in recv) or "busy"
    job,                \* the request a busy worker processes
    \* --- the clients
    sent,               \* sent[c]: packets of c the frontend has read
    received,           \* received[c]: for each data frame sent to c, its request
    \* --- history
    lastReply           \* header of the last message of w the Router has read

routerVars == <<status, registered, workersReadyCount, curClient,
                readyWorkers, overloadWorker>>
socketVars == <<inbox, backend>>
workerVars == <<phase, job>>
clientVars == <<sent, received>>
vars == <<routerVars, socketVars, workerVars, clientVars, lastReply>>

Workers == 0..(WorkersCount - 1)
Requests == Clients \X (1..MaxRequests)
NoRequest == <<NoClient, 0>>

\* First frame of a worker's message.  A reply without header frame, which
\* processClientPacket leaves when there is no session, is "unknown".
Headers == {"READY", "NORMAL", "ERROR", "unknown"}
Message(h, r, n) == [header |-> h, request |-> r, frames |-> n]
Messages == [header : Headers, request : Requests \cup {NoRequest}, frames : Nat]

Init ==
    /\ status = "starting"
    /\ registered = {}
    /\ workersReadyCount = 0
    /\ curClient = [w \in Workers |-> NoClient]
    /\ readyWorkers = <<>>
    /\ overloadWorker = 0
    /\ inbox = [w \in Workers |-> <<>>]
    /\ backend = [w \in Workers |-> <<>>]
    /\ phase = [w \in Workers |-> "starting"]
    /\ job = [w \in Workers |-> NoRequest]
    /\ sent = [c \in Clients |-> 0]
    /\ received = [c \in Clients |-> <<>>]
    /\ lastReply = [w \in Workers |-> "none"]

(***************************************************************************)
(* Workers                                                                 *)
(***************************************************************************)

\* Worker_mainLoop: connected, the worker signals READY and polls its socket.
SignalReady(w) ==
    /\ phase[w] = "starting"
    /\ phase' = [phase EXCEPT ![w] = "waiting"]
    /\ backend' = [backend EXCEPT ![w] = Append(@, Message("READY", NoRequest, 0))]
    /\ UNCHANGED <<routerVars, inbox, job, clientVars, lastReply>>

\* MUTANT of Receive: the worker looks at its next request without taking it.
Receive_Peeks(w) ==
    /\ phase[w] = "waiting"
    /\ inbox[w] # <<>>
    /\ phase' = [phase EXCEPT ![w] = "busy"]
    /\ job' = [job EXCEPT ![w] = Head(inbox[w])]
    /\ UNCHANGED <<routerVars, inbox, backend, clientVars, lastReply>>

\* Worker_handlePublicRequest receives [identity, data].
Receive(w) ==
    /\ phase[w] = "waiting"
    /\ inbox[w] # <<>>
    /\ phase' = [phase EXCEPT ![w] = "busy"]
    /\ job' = [job EXCEPT ![w] = Head(inbox[w])]
    /\ inbox' = [inbox EXCEPT ![w] = Tail(@)]
    /\ UNCHANGED <<routerVars, backend, clientVars, lastReply>>

\* What a REQ socket does to requests that arrived before its send: libzmq 4
\* drops all those it can see, which are all or, if the thread has not been
\* told of them yet, none.
EatWaiting(w) ==
    \E eats \in EatChoices :
        inbox' = IF eats THEN [inbox EXCEPT ![w] = <<>>] ELSE inbox

\* MUTANT of Reply: a request that fails is tried again and not answered.
Reply_TriesAgain(w) ==
    /\ phase[w] = "busy"
    /\ \/ /\ \E h \in {"NORMAL", "unknown"} :
              backend' = [backend EXCEPT ![w] = Append(@, Message(h, job[w], 0))]
          /\ EatWaiting(w)
       \/ /\ inbox' = [inbox EXCEPT ![w] = Append(@, job[w])]
          /\ UNCHANGED backend
    /\ phase' = [phase EXCEPT ![w] = "waiting"]
    /\ job' = [job EXCEPT ![w] = NoRequest]
    /\ UNCHANGED <<routerVars, clientVars, lastReply>>

\* The worker always answers, whatever happened to the packet: NORMAL with
\* the data frames of the handlers that ran, ERROR if a handler failed, no
\* header at all if the session could not be read.
Reply(w) ==
    /\ phase[w] = "busy"
    /\ \E h \in {"NORMAL", "ERROR", "unknown"} :
         \E n \in (IF h = "NORMAL" THEN 0..MaxFrames ELSE {0}) :
           backend' = [backend EXCEPT ![w] = Append(@, Message(h, job[w], n))]
    /\ EatWaiting(w)
    /\ phase' = [phase EXCEPT ![w] = "waiting"]
    /\ job' = [job EXCEPT ![w] = NoRequest]
    /\ UNCHANGED <<routerVars, clientVars, lastReply>>

(***************************************************************************)
(* Router_backend: one message of a worker                                *)
(***************************************************************************)

\* The Router reads the next message of w.
Read(w, h) ==
    /\ status # "stopped"
    /\ backend[w] # <<>>
    /\ Head(backend[w]).header = h
    /\ backend' = [backend EXCEPT ![w] = Tail(@)]
    /\ lastReply' = [lastReply EXCEPT ![w] = h]

\* MUTANT of Release: the worker is listed but still holds its client.
Release_KeepsClient(w) ==
    /\ readyWorkers' = Append(readyWorkers, w)
    /\ UNCHANGED curClient

\* The tail of the handler: w no longer answers for a client and goes to the
\* end of the list of ready workers.
Release(w) ==
    /\ curClient' = [curClient EXCEPT ![w] = NoClient]
    /\ readyWorkers' = Append(readyWorkers, w)

\* MUTANT of AllReady: off by one.
AllReady_Early(count) == count + 1 >= WorkersCount

AllReady(count) == count = WorkersCount

\* The last READY starts the monitor and binds the frontend; if either fails
\* the handler returns -1 and the reactor ends.
BackendReady(w) ==
    /\ Read(w, "READY")
    /\ registered' = registered \cup {w}
    /\ workersReadyCount' = workersReadyCount + 1
    /\ \/ /\ ~ AllReady(workersReadyCount')
          /\ Release(w)
          /\ UNCHANGED status
       \/ /\ AllReady(workersReadyCount')
          /\ Release(w)
          /\ status' = "open"
       \/ /\ AllReady(workersReadyCount')
          /\ status' = "stopped"
          /\ UNCHANGED <<curClient, readyWorkers>>
    /\ UNCHANGED <<overloadWorker, inbox, workerVars, clientVars>>

\* One message per data frame goes to the client, none if there is no frame.
BackendNormal(w) ==
    LET m == Head(backend[w])
        c == m.request[1]
    IN /\ Read(w, "NORMAL")
       /\ received' = [received EXCEPT ![c] = @ \o [i \in 1..m.frames |-> m.request[2]]]
       /\ Release(w)
       /\ UNCHANGED <<status, registered, workersReadyCount, overloadWorker,
                      inbox, workerVars, sent>>

\* The handler jumps over its tail: w keeps its client and stays out of the
\* list.
BackendError(w) ==
    /\ Read(w, "ERROR")
    /\ UNCHANGED <<routerVars, inbox, workerVars, clientVars>>

BackendUnknown(w) ==
    /\ Read(w, "unknown")
    /\ Release(w)
    /\ UNCHANGED <<status, registered, workersReadyCount, overloadWorker,
                   inbox, workerVars, clientVars>>

Router_backend(w) ==
    BackendReady(w) \/ BackendNormal(w) \/ BackendError(w) \/ BackendUnknown(w)

(***************************************************************************)
(* Router_frontend: one packet of a client                                *)
(***************************************************************************)

\* The bound on the packets of c
MaySend(c) == sent[c] < MaxRequests /\ (c \in Eager \/ sent[c] = 0)

\* The frontend reads the next packet of c.
Accept(c) ==
    /\ status = "open"
    /\ MaySend(c)
    /\ sent' = [sent EXCEPT ![c] = @ + 1]

\* The packet now read, c's newest one.
Newest(c) == <<c, sent[c] + 1>>

\* MUTANT of Forward: the newest packet overtakes those that wait.
Forward_Overtakes(c, w) == inbox' = [inbox EXCEPT ![w] = <<Newest(c)>> \o @]

Forward(c, w) == inbox' = [inbox EXCEPT ![w] = Append(@, Newest(c))]

\* MUTANT of Owners: the loop starts at the second worker.
Owners_SkipsFirst(c) == {w \in Workers \ {0} : curClient[w] = c}

\* The workers that answer for c.
Owners(c) == {w \in Workers : curClient[w] = c}

\* MUTANT of NextOverload: the index does not wrap.
NextOverload_NoWrap == overloadWorker + 1

NextOverload == (overloadWorker + 1) % workersReadyCount

\* A packet that is empty, whose client has no file descriptor any more or
\* that cannot be announced to the monitor goes nowhere.
FrontendDiscard(c) ==
    /\ Accept(c)
    /\ UNCHANGED <<routerVars, socketVars, workerVars, received, lastReply>>

\* A worker answers for c: it gets the packet (the last one the loop finds).
FrontendSticky(c) ==
    /\ Accept(c)
    /\ \E w \in Owners(c) :
         /\ \A v \in Owners(c) : v <= w
         /\ Forward(c, w)
    /\ UNCHANGED <<routerVars, backend, workerVars, received, lastReply>>

\* The worker that became ready first gets the packet, and answers for c.
FrontendReady(c) ==
    /\ Accept(c)
    /\ Owners(c) = {}
    /\ readyWorkers # <<>>
    /\ LET w == Head(readyWorkers)
       IN /\ readyWorkers' = Tail(readyWorkers)
          /\ curClient' = [curClient EXCEPT ![w] = c]
          /\ Forward(c, w)
    /\ UNCHANGED <<status, registered, workersReadyCount, overloadWorker,
                   backend, workerVars, received, lastReply>>

\* No worker is ready: the overload worker takes the packet and answers for
\* c from now on, whoever it answered for before.
FrontendOverload(c) ==
    /\ Accept(c)
    /\ Owners(c) = {}
    /\ readyWorkers = <<>>
    /\ workersReadyCount # 0
    /\ curClient' = [curClient EXCEPT ![overloadWorker] = c]
    /\ Forward(c, overloadWorker)
    /\ overloadWorker' = NextOverload
    /\ UNCHANGED <<status, registered, workersReadyCount, readyWorkers,
                   backend, workerVars, received, lastReply>>

Router_frontend(c) ==
    \/ FrontendDiscard(c)
    \/ FrontendSticky(c)
    \/ FrontendReady(c)
    \/ FrontendOverload(c)

(***************************************************************************)
(* Specification                                                           *)
(***************************************************************************)

\* Nothing is left to do: the clients are silent and every loop polls.
Idle ==
    /\ \A w \in Workers :
         phase[w] = "waiting" /\ inbox[w] = <<>>
         /\ (backend[w] = <<>> \/ status = "stopped")
    /\ status = "stopped" \/ \A c \in Clients : ~ MaySend(c)
    /\ UNCHANGED vars

Next ==
    \/ \E w \in Workers : SignalReady(w) \/ Receive(w) \/ Reply(w) \/ Router_backend(w)
    \/ \E c \in Clients : Router_frontend(c)
    \/ Idle

\* Every thread is scheduled, and the reactor polls its sockets in turn.
Fairness ==
    \A w \in Workers : /\ WF_vars(SignalReady(w))
                       /\ WF_vars(Receive(w))
                       /\ WF_vars(Reply(w))
                       /\ WF_vars(Router_backend(w))

Spec == Init /\ [][Next]_vars
FairSpec == Spec /\ Fairness

(***************************************************************************)
(* Properties                                                              *)
(***************************************************************************)

\* Every variable keeps its type: the list holds indices of the workers array
\* and overloadWorker is always one.
TypeOK ==
    /\ status \in {"starting", "open", "stopped"}
    /\ registered \subseteq Workers
    /\ workersReadyCount \in 0..WorkersCount
    /\ curClient \in [Workers -> Clients \cup {NoClient}]
    /\ readyWorkers \in Seq(Workers)
    /\ overloadWorker \in Workers
    /\ inbox \in [Workers -> Seq(Requests)]
    /\ backend \in [Workers -> Seq(Messages)]
    /\ phase \in [Workers -> {"starting", "waiting", "busy"}]
    /\ job \in [Workers -> Requests \cup {NoRequest}]
    /\ sent \in [Clients -> 0..MaxRequests]
    /\ received \in [Clients -> Seq(1..MaxRequests)]
    /\ lastReply \in [Workers -> Headers \cup {"none"}]

\* At most one worker answers for a client, although overload, stale list
\* entries and errors move the responsibility around: the loop of
\* Router_frontend that lets the last match win has a single match.
OneOwner ==
    \A v, w \in Workers :
        curClient[v] = curClient[w] /\ curClient[v] # NoClient => v = w

\* The frontend only opens once every worker has told its identity, so no
\* packet is sent to a NULL identity.frame, and workersReadyCount, by which
\* the overload index is reduced, counts exactly the registered workers.
RegisteredBeforeUse ==
    /\ workersReadyCount = Cardinality(registered)
    /\ status = "open" => registered = Workers
    /\ \A w \in Workers :
         inbox[w] # <<>> \/ curClient[w] # NoClient => w \in registered

\* No message of w is under way in either direction and w processes nothing.
Quiet(w) ==
    phase[w] = "waiting" /\ inbox[w] = <<>> /\ backend[w] = <<>>

\* However requests were stacked on a worker by overload and stickiness, or
\* eaten by its socket, once everything has drained the Router lists it as
\* ready and holds no client for it.  Only a worker whose last message was an
\* ERROR escapes (and one whose READY ended the Router).
QuietWorkerIsReady ==
    \A w \in Workers :
        Quiet(w) /\ lastReply[w] # "ERROR" /\ status # "stopped" =>
            /\ \E i \in 1..Len(readyWorkers) : readyWorkers[i] = w
            /\ curClient[w] = NoClient

\* r waits for worker w or is being processed by it.
Holds(w, r) ==
    \/ \E i \in 1..Len(inbox[w]) : inbox[w][i] = r
    \/ phase[w] = "busy" /\ job[w] = r

\* No worker processes a packet of a client while an earlier packet of that
\* client is still waiting or being processed.
PacketOrder ==
    \A v, w \in Workers :
        phase[w] = "busy" =>
            \A n \in 1..(job[w][2] - 1) : ~ Holds(v, <<job[w][1], n>>)

(***************************************************************************)
(* The Router implements the request service, in order if there is only   *)
(* one worker.                                                             *)
(***************************************************************************)
Stage(r) ==
    IF r[2] > sent[r[1]] THEN "unsent"
    ELSE IF \E w \in Workers : \E i \in 1..Len(inbox[w]) :
               inbox[w][i] = r THEN "queued"
    ELSE IF \E w \in Workers : job[w] = r THEN "serving"
    ELSE IF \E w \in Workers : \E i \in 1..Len(backend[w]) :
               backend[w][i].request = r THEN "replying"
    ELSE "gone"

Service == INSTANCE RequestService WITH
    life <- [r \in Requests |-> Stage(r)],
    answered <- {r \in Requests :
                   \E i \in 1..Len(received[r[1]]) : received[r[1]][i] = r[2]},
    Capacity <- WorkersCount,
    Ordered <- (WorkersCount = 1)

\* A packet is served by at most one worker, answered at most once and only
\* after it was served; with one worker the packets and the answers of each
\* client keep their order.
ServiceSpec == Service!Spec

\* No packet the frontend has forwarded stays with a worker forever: whatever
\* the handlers return, the worker replies and takes its next request.
EveryPacketSettles ==
    \A r \in Requests :
        (\E w \in Workers : Holds(w, r)) ~> (\A w \in Workers : ~ Holds(w, r))
=============================================================================
