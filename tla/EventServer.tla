---------------------------- MODULE EventServer ----------------------------
(***************************************************************************)
(* The event server of a zone (Common/Server/EventServer.c,                *)
(* EventHandler.c, Common/Graph): the workers dispatch what the players do *)
(* as events; one thread handles an event at a time, keeps a graph of the  *)
(* clients that see each other, and sends packets to them.                 *)
(*                                                                         *)
(* Where the players are, it reads from Redis, one command at a time,      *)
(* while the workers write positions and the monitor flushes the sessions  *)
(* of clients that have quit.  All players are on the same map.  SCAN      *)
(* returns all keys with its first answer; Redis itself does not fail.     *)
(***************************************************************************)
EXTENDS Naturals, Sequences, FiniteSets

CONSTANTS
    Clients,      \* the connections to the zone
    Workers,
    Positions,
    Start,        \* where ZoneHandler_connect puts a commander
    Around,       \* Around[p]: the positions within COMMANDER_RANGE_AROUND of p
    Absent,       \* no session, no position, nothing sent
    Quitters,     \* the clients that may disconnect
    MaxRequests,  \* bound: packets a client sends after CZ_GAME_READY
    MaxEvents     \* bound: events of a worker not yet received

ASSUME ClientsAssumption == Absent \notin Clients /\ Quitters \subseteq Clients
ASSUME PositionsAssumption == Start \in Positions /\ Absent \notin Positions
ASSUME AbsentAssumption == Absent \notin [client : Clients, position : Positions]
ASSUME AroundAssumption ==
    /\ Around \in [Positions -> SUBSET Positions]
    /\ \A p, q \in Positions : p \in Around[q] <=> q \in Around[p]
ASSUME BoundsAssumption == MaxRequests \in Nat /\ MaxEvents \in Nat

VARIABLES
    \* --- the clients
    client,     \* client[c]: "away", "connecting", "loading",
                \* "playing" or "gone"
    requests,   \* requests[c]: packets c has sent while playing
    \* --- the workers and Redis
    position,   \* position[c]: of the game session of c in Redis
    writing,    \* writing[w]: the session worker w has yet to write
    events,     \* events[w]: what w has dispatched
    told,       \* told[c]: the position in the last event about c (history)
    \* --- the event server
    running,    \* the loop of EventServer_start runs
    pc,         \* where in the handler it is
    event,      \* the event it handles
    listed,     \* keys of the SCAN whose position it has yet to read
    inRange,    \* redisClientsAround
    strangers,  \* those of redisClientsAround that go by an old identity
    unread,     \* entered or left clients whose session it has yet to read
    arcs,       \* arcs[c]: the neighbours of c in clientsGraph
    around,     \* around[c]: the mark of GraphNodeClient
    \* --- the packets
    out,        \* the packet the last step sent
    screen      \* screen[c]: the other players the client of c displays

clientVars == <<client, requests>>
workerVars == <<position, writing>>
graphVars == <<arcs, around>>
handlerVars == <<pc, event, listed, inRange, strangers, unread>>
sentVars == <<out, screen>>
vars == <<clientVars, workerVars, events, told, running, handlerVars, graphVars, sentVars>>

\* The packet about c, sent to each client in to
Packet(kind, c, to) == [kind |-> kind, about |-> c, to |-> to]

\* MUTANT of Event: the fields are taken in the wrong order.
Event_Swapped(kind, c, p) == [kind |-> kind, client |-> p, position |-> c]

\* Event of client c at position p
Event(kind, c, p) == [kind |-> kind, client |-> c, position |-> p]

\* The events that go through EventServer_updateClientPosition
UpdateEvents == {"enterPc", "commanderMove", "moveStop", "jump"}
\* and those that only look at the graph; this kind stands for a rest, too
AroundEvents == {"chat"}

Write(c, p) == [client |-> c, position |-> p]

Init ==
    /\ client = [c \in Clients |-> "away"]
    /\ requests = [c \in Clients |-> 0]
    /\ position = [c \in Clients |-> Absent]
    /\ writing = [w \in Workers |-> Absent]
    /\ events = [w \in Workers |-> <<>>]
    /\ told = [c \in Clients |-> Absent]
    /\ running = TRUE
    /\ pc = "receive"
    /\ event = Absent
    /\ listed = {}
    /\ inRange = {}
    /\ strangers = {}
    /\ unread = {}
    /\ arcs = [c \in Clients |-> {}]
    /\ around = [c \in Clients |-> FALSE]
    /\ out = Absent
    /\ screen = [c \in Clients |-> {}]

(***************************************************************************)
(* The workers of the zone                                                 *)
(***************************************************************************)
Silent == out' = Absent /\ UNCHANGED screen

\* Worker_dispatchEvent
Dispatch(w, e) ==
    /\ Len(events[w]) < MaxEvents
    /\ events' = [events EXCEPT ![w] = Append(@, e)]
    /\ told' = IF e.kind \in UpdateEvents THEN [told EXCEPT ![e.client] = e.position]
               ELSE told

\* The worker has read the session of c and handles a packet of it.
Handling(w, c) == writing[w] = Absent /\ position[c] # Absent

\* ZoneHandler_connect: the game session is moved to the map with the position p
\* and the identity it had at the barrack; the update replaces both.
Connect(w, c, p) ==
    /\ client[c] = "away"
    /\ writing[w] = Absent
    /\ client' = [client EXCEPT ![c] = "connecting"]
    /\ position' = [position EXCEPT ![c] = p]
    /\ writing' = [writing EXCEPT ![w] = Write(c, Start)]
    /\ Silent
    /\ UNCHANGED <<requests, events, told, running, handlerVars, graphVars>>

OldIdentity(c) == client[c] = "connecting"

\* ZoneHandler_gameReady: the session is written after the event was sent.
GameReady(w, c) ==
    /\ client[c] = "loading"
    /\ Handling(w, c)
    /\ client' = [client EXCEPT ![c] = "playing"]
    /\ Dispatch(w, Event("enterPc", c, position[c]))
    /\ writing' = [writing EXCEPT ![w] = Write(c, position[c])]
    /\ Silent
    /\ UNCHANGED <<requests, position, running, handlerVars, graphVars>>

\* A further packet of c, handled by w
Request(w, c) ==
    /\ client[c] = "playing"
    /\ requests[c] < MaxRequests
    /\ Handling(w, c)
    /\ requests' = [requests EXCEPT ![c] = @ + 1]
    /\ Silent
    /\ UNCHANGED <<client, position, running, handlerVars, graphVars>>

\* MUTANT of KeyboardMove: the position is stored, but nobody is notified.
KeyboardMove_Untold(w, c, p) ==
    /\ Request(w, c)
    /\ writing' = [writing EXCEPT ![w] = Write(c, p)]
    /\ UNCHANGED <<events, told>>

\* ZoneHandler_keyboardMove
KeyboardMove(w, c, p) ==
    /\ Request(w, c)
    /\ Dispatch(w, Event("commanderMove", c, p))
    /\ writing' = [writing EXCEPT ![w] = Write(c, p)]

\* ZoneHandler_moveStop: the event carries the position where the client says it
\* stops, the session keeps the one of its last move.
MoveStop(w, c, p) ==
    /\ Request(w, c)
    /\ Dispatch(w, Event("moveStop", c, p))
    /\ UNCHANGED writing

\* ZoneHandler_jump
Jump(w, c) ==
    /\ Request(w, c)
    /\ Dispatch(w, Event("jump", c, position[c]))
    /\ UNCHANGED writing

\* ZoneHandler_chat and ZoneHandler_restSit
Show(w, c) ==
    /\ Request(w, c)
    /\ Dispatch(w, Event("chat", c, Absent))
    /\ UNCHANGED writing

\* Redis_updateSession, of PACKET_HANDLER_UPDATE_SESSION
Update(w) ==
    /\ writing[w] # Absent
    /\ LET c == writing[w].client
       IN /\ position' = [position EXCEPT ![c] = writing[w].position]
          /\ client' = [client EXCEPT ![c] = IF OldIdentity(c) THEN "loading" ELSE @]
    /\ writing' = [writing EXCEPT ![w] = Absent]
    /\ Silent
    /\ UNCHANGED <<requests, events, told, running, handlerVars, graphVars>>

\* MUTANT of Quit: the monitor flushes the session of another client.
Quit_Other(c) ==
    /\ c \in Quitters
    /\ client[c] \in {"loading", "playing"}
    /\ client' = [client EXCEPT ![c] = "gone"]
    /\ position' = [d \in Clients |-> IF d = c THEN position[c] ELSE Absent]
    /\ Silent
    /\ UNCHANGED <<requests, writing, events, told, running, handlerVars, graphVars>>

\* The client disconnects and the monitor flushes its session.
Quit(c) ==
    /\ c \in Quitters
    /\ client[c] \in {"loading", "playing"}
    /\ client' = [client EXCEPT ![c] = "gone"]
    /\ position' = [position EXCEPT ![c] = Absent]
    /\ Silent
    /\ UNCHANGED <<requests, writing, events, told, running, handlerVars, graphVars>>

(***************************************************************************)
(* Packets the event server sends                                          *)
(***************************************************************************)

\* Router_subscribe: every client the message names gets the packet.  A
\* ZC_ENTER_PC puts the player on the screen of who gets it, a ZC_LEAVE removes
\* it; nobody is on their own screen.
Multicast(kind, c, to) ==
    screen' = [d \in Clients |->
                 IF d \notin to \/ d = c THEN screen[d]
                 ELSE IF kind = "enter" THEN screen[d] \cup {c}
                 ELSE IF kind = "leave" THEN screen[d] \ {c}
                 ELSE screen[d]]

\* EventServer_sendToClients and EventServer_sendToClient
Send(kind, c, to) ==
    /\ out' = Packet(kind, c, to)
    /\ Multicast(kind, c, to)

\* Nothing is sent to an empty list.
SendIfAny(kind, c, to) ==
    \/ to = {} /\ Silent
    \/ to # {} /\ Send(kind, c, to)

(***************************************************************************)
(* The graph                                                               *)
(***************************************************************************)

\* MUTANT of Link: only the arcs of c are added.
Link_OneWay(c, others) == arcs' = [arcs EXCEPT ![c] = @ \cup others]

\* EventServer_linkClients for c and each of the others
Link(c, others) ==
    arcs' = [d \in Clients |-> IF d = c THEN arcs[c] \cup others
                               ELSE IF d \in others THEN arcs[d] \cup {c}
                               ELSE arcs[d]]

\* EventServer_unlinkClients for c and each of the others
Unlink(c, others) ==
    arcs' = [d \in Clients |-> IF d = c THEN arcs[c] \ others
                               ELSE IF d \in others THEN arcs[d] \ {c}
                               ELSE arcs[d]]

\* MUTANT of Mark: the neighbours keep the mark of an earlier event.
Mark_Keeps(c, present) ==
    around' = [d \in Clients |-> around[d] \/ d \in present]

\* The neighbours of c lose their mark, then those present get it.
Mark(c, present) ==
    around' = [d \in Clients |-> \/ d \in present
                                 \/ around[d] /\ d \notin arcs[c]]

(***************************************************************************)
(* The event server                                                        *)
(***************************************************************************)
At(place) == running /\ pc = place

\* What the handler of the event leaves alone
OthersUnchanged == UNCHANGED <<clientVars, workerVars>>

TakeEvent(w) ==
    /\ At("receive")
    /\ events[w] # <<>>
    /\ events' = [events EXCEPT ![w] = Tail(@)]
    /\ UNCHANGED told

\* The events whose handler begins with EventServer_updateClientPosition
ReceiveUpdate(w) ==
    /\ TakeEvent(w)
    /\ Head(events[w]).kind \in UpdateEvents
    /\ event' = Head(events[w])
    /\ pc' = "scan"
    /\ Silent
    /\ OthersUnchanged
    /\ UNCHANGED <<running, listed, inRange, strangers, unread, graphVars>>

\* EventHandler_chat and EventHandler_restSit: to the neighbours in the graph
\* and to the client itself
ReceiveAround(w) ==
    LET e == Head(events[w])
    IN /\ TakeEvent(w)
       /\ e.kind \in AroundEvents
       /\ Send(e.kind, e.client, arcs[e.client] \cup {e.client})
       /\ OthersUnchanged
       /\ UNCHANGED <<running, handlerVars, graphVars>>

\* SCAN of Redis_getClientsWithinDistance
Scan ==
    /\ At("scan")
    /\ listed' = {d \in Clients : position[d] # Absent}
    /\ pc' = "positions"
    /\ Silent
    /\ OthersUnchanged
    /\ UNCHANGED <<events, told, running, event, inRange, strangers, unread, graphVars>>

\* HMGET of a key the SCAN returned.  If it was flushed meanwhile, the fields
\* are null pointers, and reading them ends the server.
ReadPosition(d) ==
    /\ At("positions")
    /\ d \in listed
    /\ listed' = listed \ {d}
    /\ \/ position[d] = Absent /\ running' = FALSE /\ UNCHANGED <<inRange, strangers>>
       \/ /\ position[d] # Absent
          /\ IF position[d] \notin Around[event.position] \/ d = event.client
             THEN UNCHANGED <<inRange, strangers>>
             ELSE IF OldIdentity(d)
             THEN strangers' = strangers \cup {d} /\ UNCHANGED inRange
             ELSE inRange' = inRange \cup {d} /\ UNCHANGED strangers
          /\ UNCHANGED running
    /\ Silent
    /\ OthersUnchanged
    /\ UNCHANGED <<events, told, pc, event, unread, graphVars>>

\* MUTANT of Enter: ZC_ENTER_PC goes nowhere.
Enter_Forgets ==
    LET c == event.client
        entered == inRange \ arcs[c]
    IN /\ At("positions")
       /\ listed = {}
       /\ Mark(c, inRange)
       /\ Link(c, entered)
       /\ unread' = entered
       /\ pc' = "entered"
       /\ Silent
       /\ OthersUnchanged
       /\ UNCHANGED <<events, told, running, event, listed, inRange, strangers>>

\* Those within range that are no neighbours yet are linked; if there are any,
\* all those within range are told about the client.  A stranger is never a
\* neighbour yet; its node is left out, since ReadStranger ends the loop.
Enter ==
    LET c == event.client
        entered == inRange \ arcs[c]
    IN /\ At("positions")
       /\ listed = {}
       /\ Mark(c, inRange)
       /\ Link(c, entered)
       /\ \/ entered \cup strangers = {} /\ Silent
          \/ entered \cup strangers # {} /\ Send("enter", c, inRange)
       /\ unread' = entered
       /\ pc' = "entered"
       /\ OthersUnchanged
       /\ UNCHANGED <<events, told, running, event, listed, inRange, strangers>>

\* MUTANT of ReadSession: the loop does not advance.
ReadSession_Stays(d, kind) ==
    /\ d \in unread
    /\ unread' = unread
    /\ \/ position[d] = Absent /\ running' = FALSE /\ Silent
       \/ /\ position[d] # Absent
          /\ Send(kind, d, {event.client})
          /\ UNCHANGED running
    /\ OthersUnchanged
    /\ UNCHANGED <<events, told, pc, event, listed, inRange, strangers, graphVars>>

\* EventServer_getGameSessionBySocketId of d, to send the client a packet
\* about d; if it fails, so does the handler, which ends the loop.  A socket
\* session that does not exist is created before: it is in Sessions (Recreate),
\* here it makes no difference.
ReadSession(d, kind) ==
    /\ d \in unread
    /\ unread' = unread \ {d}
    /\ \/ position[d] = Absent /\ running' = FALSE /\ Silent
       \/ /\ position[d] # Absent
          /\ Send(kind, d, {event.client})
          /\ UNCHANGED running
    /\ OthersUnchanged
    /\ UNCHANGED <<events, told, pc, event, listed, inRange, strangers, graphVars>>

ReadEntered(d) == At("entered") /\ ReadSession(d, "enter")

\* The same for an identity of the barrack's: the zone has no session under it,
\* so there is no game session to be found.
ReadStranger ==
    /\ At("entered")
    /\ strangers # {}
    /\ running' = FALSE
    /\ Silent
    /\ OthersUnchanged
    /\ UNCHANGED <<events, told, handlerVars, graphVars>>

\* The neighbours that are not within range any more are unlinked and told.
Leave ==
    LET c == event.client
        left == {d \in arcs[c] : ~ around[d]}
    IN /\ At("entered")
       /\ unread = {} /\ strangers = {}
       /\ Unlink(c, left)
       /\ SendIfAny("leave", c, left)
       /\ unread' = left
       /\ pc' = "left"
       /\ OthersUnchanged
       /\ UNCHANGED <<events, told, running, event, listed, inRange, strangers, around>>

ReadLeft(d) == At("left") /\ ReadSession(d, "leave")

\* The packet about what the client did
Finish ==
    LET c == event.client
    IN /\ At("left")
       /\ unread = {}
       /\ \/ event.kind = "enterPc" /\ Silent
          \/ event.kind \in {"commanderMove", "moveStop"} /\ SendIfAny(event.kind, c, inRange)
          \/ event.kind = "jump" /\ Send("jump", c, inRange \cup {c})
       /\ pc' = "receive"
       /\ event' = Absent
       /\ inRange' = {}
       /\ OthersUnchanged
       /\ UNCHANGED <<events, told, running, listed, strangers, unread, graphVars>>

(***************************************************************************)
(* Specification                                                           *)
(***************************************************************************)
EventServer_subscribe ==
    \/ \E w \in Workers : ReceiveUpdate(w) \/ ReceiveAround(w)
    \/ Scan \/ Enter \/ ReadStranger \/ Leave \/ Finish
    \/ \E d \in Clients : ReadPosition(d) \/ ReadEntered(d) \/ ReadLeft(d)

Worker(w) ==
    \/ Update(w)
    \/ \E c \in Clients :
         \/ GameReady(w, c)
         \/ \E p \in Positions :
              Connect(w, c, p) \/ KeyboardMove(w, c, p) \/ MoveStop(w, c, p)
         \/ Jump(w, c)
         \/ Show(w, c)

Next ==
    \/ \E w \in Workers : Worker(w)
    \/ \E c \in Clients : Quit(c)
    \/ EventServer_subscribe

\* The threads are scheduled and Redis answers.
Fairness == WF_vars(EventServer_subscribe) /\ \A w \in Workers : WF_vars(Update(w))

Spec == Init /\ [][Next]_vars
FairSpec == Spec /\ Fairness

(***************************************************************************)
(* Properties                                                              *)
(***************************************************************************)
PacketKinds == {"enter", "leave"} \cup UpdateEvents \cup AroundEvents
Places == {"receive", "scan", "positions", "entered", "left"}
EventType == [kind : UpdateEvents \cup AroundEvents, client : Clients,
              position : Positions \cup {Absent}]

\* Every variable keeps its type.
TypeOK ==
    /\ client \in [Clients -> {"away", "connecting", "loading", "playing", "gone"}]
    /\ requests \in [Clients -> 0..MaxRequests]
    /\ position \in [Clients -> Positions \cup {Absent}]
    /\ writing \in [Workers -> [client : Clients, position : Positions] \cup {Absent}]
    /\ events \in [Workers -> Seq(EventType)]
    /\ told \in [Clients -> Positions \cup {Absent}]
    /\ running \in BOOLEAN
    /\ pc \in Places
    /\ event \in EventType \cup {Absent}
    /\ listed \subseteq Clients
    /\ inRange \subseteq Clients
    /\ strangers \subseteq Clients
    /\ unread \subseteq Clients
    /\ arcs \in [Clients -> SUBSET Clients]
    /\ around \in [Clients -> BOOLEAN]
    /\ out \in [kind : PacketKinds, about : Clients, to : SUBSET Clients] \cup {Absent}
    /\ screen \in [Clients -> SUBSET Clients]

\* Players see each other or neither sees the other, and none itself.
GraphIsMutual ==
    \A c, d \in Clients : d \in arcs[c] => c \in arcs[d] /\ c # d

\* Between two events each client displays exactly its neighbours in the graph:
\* the packets that entering and leaving send to both sides, at different times
\* and to different lists, add up to the changes of the graph.
ScreensFollowGraph == At("receive") => screen = arcs

\* When the lists have been compared, the neighbours of the client are those
\* Redis returned, whatever marks earlier events have left in the graph.
NeighboursAreInRange == At("left") => arcs[event.client] = inRange

\* A packet about what a player does never reaches a client that does not
\* display that player.
NothingUnseen ==
    [][out' # Absent /\ out'.kind \notin {"enter", "leave"} =>
         \A d \in out'.to : d = out'.about \/ out'.about \in screen[d]]_vars

\* Nothing is under way and no player is loading the map.
Quiet ==
    /\ At("receive")
    /\ \A w \in Workers : events[w] = <<>> /\ writing[w] = Absent
    /\ \A c \in Clients : client[c] # "loading"

\* c and d are neighbours exactly if d's position in Redis was within range of
\* where c said it is.
SeenFrom(c, d) == d \in arcs[c] <=> position[d] \in Around[told[c]]

\* In a zone with one worker, as in cfg/server.cfg: once everything has been
\* handled, the graph links two players exactly if they are close to each other,
\* seen from one of the two, although events are sent before the positions are
\* written, and positions are read one by one while players move.  Both sides
\* agree on who is close unless a player has stopped elsewhere than its last
\* move has brought it, which the other one is not compared with.
QuietGraphIsProximity ==
    Quiet =>
        \A c, d \in {p \in Clients : client[p] = "playing"} :
            c # d => SeenFrom(c, d) \/ SeenFrom(d, c)

\* "The neighbour is still marked as not around : The current commander left
\* its screen zone": the handler goes on with telling both sides.
LeaveGoesOn == [][At("left") => running']_vars

\* The event server ends for nobody who has arrived and stays: the session it has
\* just tried to read is that of a client that has quit, or of one that was
\* arriving when its position was read.
OnlyChangesEndIt ==
    [][running /\ ~ running' =>
         \/ pc = "entered" /\ strangers # {} /\ UNCHANGED handlerVars
         \/ \E d \in (listed \ listed') \cup (unread \ unread') : client[d] = "gone"]_vars

\* What the workers have dispatched is handled sooner or later.
EventsAreHandled == []<>(running => pc = "receive" /\ \A w \in Workers : events[w] = <<>>)
=============================================================================
