------------------------- MODULE EventServerProofs -------------------------
(***************************************************************************)
(* Proofs about the event server: who sees whom, for any number of clients *)
(* and workers and any geometry of the map.                                *)
(*                                                                         *)
(* The workers and the monitor change what the event server reads, never   *)
(* what it keeps; so the invariant has a part for the types of the former  *)
(* and one, HandlerInv, that only speaks of the latter.                    *)
(***************************************************************************)
EXTENDS EventServer, FiniteSetTheorems, TLAPS

\* The types of what workers, monitor and clients change
InputType ==
    /\ client \in [Clients -> {"away", "connecting", "loading", "playing", "gone"}]
    /\ requests \in [Clients -> 0..MaxRequests]
    /\ position \in [Clients -> Positions \cup {Absent}]
    /\ writing \in [Workers -> [client : Clients, position : Positions] \cup {Absent}]
    /\ events \in [Workers -> Seq(EventType)]

PacketType == [kind : PacketKinds, about : Clients, to : SUBSET Clients]

\* The types of what the event server changes
HandlerType ==
    /\ running \in BOOLEAN
    /\ pc \in Places
    /\ event \in EventType \cup {Absent}
    /\ listed \subseteq Clients
    /\ inRange \subseteq Clients
    /\ strangers \subseteq Clients
    /\ unread \subseteq Clients
    /\ arcs \in [Clients -> SUBSET Clients]
    /\ around \in [Clients -> BOOLEAN]
    /\ screen \in [Clients -> SUBSET Clients]

OutType == out \in PacketType \cup {Absent}

\* The type of the history of dispatched positions
ToldType == told \in [Clients -> Positions \cup {Absent}]

\* Outside "receive" there is an event, and redisClientsAround never holds the
\* client of the event.
EventOK ==
    /\ pc = "receive" => inRange = {}
    /\ pc # "receive" => event \in EventType /\ event.client \notin inRange

\* The client is linked with all those within range, and the marks of its
\* neighbours tell them from the others.
EnteredOK ==
    pc = "entered" =>
        /\ unread \subseteq inRange
        /\ inRange \subseteq arcs[event.client]
        /\ \A d \in arcs[event.client] : around[d] <=> d \in inRange

\* The client is linked with those within range and nobody else; those it has
\* to forget yet have left.
LeftOK ==
    pc = "left" =>
        /\ arcs[event.client] = inRange
        /\ unread \cap inRange = {}
        /\ event.client \notin unread

\* What d displays: its neighbours, but the client of the event does not
\* display yet those it has not read, and still displays those that left.
Shown(d) ==
    IF pc = "entered" /\ d = event.client THEN arcs[d] \ unread
    ELSE IF pc = "left" /\ d = event.client THEN arcs[d] \cup unread
    ELSE arcs[d]

ScreensOK == running => \A d \in Clients : screen[d] = Shown(d)

HandlerInv == HandlerType /\ GraphIsMutual /\ EventOK /\ EnteredOK /\ LeftOK /\ ScreensOK

\* The inductive invariant
IInv == InputType /\ OutType /\ HandlerInv

ownVars == <<running, handlerVars, graphVars, screen>>

LEMMA TypeParts == TypeOK <=> InputType /\ HandlerType /\ OutType /\ ToldType
  BY DEF TypeOK, InputType, HandlerType, OutType, ToldType, PacketType

(***************************************************************************)
(* The initial state                                                       *)
(***************************************************************************)
LEMMA InitInv == Init => IInv
<1> SUFFICES ASSUME Init PROVE IInv
  OBVIOUS
<1>1. InputType
  <2>1. <<>> \in Seq(EventType)
    OBVIOUS
  <2>2. 0 \in 0..MaxRequests
    BY BoundsAssumption
  <2> QED
    BY <2>1, <2>2 DEF Init, InputType
<1>2. HandlerType
  BY DEF Init, HandlerType, Places
<1>3. OutType /\ GraphIsMutual /\ EventOK /\ EnteredOK /\ LeftOK
  BY DEF Init, OutType, GraphIsMutual, EventOK, EnteredOK, LeftOK
<1>4. ScreensOK
  BY DEF Init, ScreensOK, Shown
<1> QED
  BY <1>1, <1>2, <1>3, <1>4 DEF IInv, HandlerInv

(***************************************************************************)
(* Steps of others leave the event server alone                            *)
(***************************************************************************)
LEMMA OwnUnchanged ==
    ASSUME HandlerInv, UNCHANGED ownVars
    PROVE  HandlerInv'
<1>1. /\ running' = running /\ pc' = pc /\ event' = event /\ listed' = listed
      /\ inRange' = inRange /\ strangers' = strangers /\ unread' = unread /\ arcs' = arcs
      /\ around' = around /\ screen' = screen
  BY DEF ownVars, handlerVars, graphVars
<1>2. HandlerType'
  BY <1>1 DEF HandlerInv, HandlerType
<1>3. GraphIsMutual' /\ EventOK' /\ EnteredOK' /\ LeftOK'
  BY <1>1 DEF HandlerInv, GraphIsMutual, EventOK, EnteredOK, LeftOK
<1>4. ScreensOK'
  BY <1>1 DEF HandlerInv, ScreensOK, Shown
<1> QED
  BY <1>2, <1>3, <1>4 DEF HandlerInv

LEMMA DispatchType ==
    ASSUME InputType, NEW w \in Workers, NEW e \in EventType, Dispatch(w, e)
    PROVE  events' \in [Workers -> Seq(EventType)]
<1>1. events[w] \in Seq(EventType)
  BY DEF InputType
<1>2. Append(events[w], e) \in Seq(EventType)
  BY <1>1
<1> QED
  BY <1>2 DEF InputType, Dispatch

LEMMA EventTyped ==
    ASSUME NEW kind \in UpdateEvents \cup AroundEvents, NEW c \in Clients,
           NEW p \in Positions \cup {Absent}
    PROVE  Event(kind, c, p) \in EventType
  BY DEF Event, EventType

LEMMA WriteTyped ==
    ASSUME InputType, NEW w \in Workers, NEW c \in Clients, NEW p \in Positions,
           writing' = [writing EXCEPT ![w] = Write(c, p)]
    PROVE  writing' \in [Workers -> [client : Clients, position : Positions] \cup {Absent}]
<1>1. Write(c, p) \in [client : Clients, position : Positions]
  BY DEF Write
<1> QED
  BY <1>1 DEF InputType

\* What a step of a worker, of the monitor or of a client guarantees
OthersStep == InputType' /\ out' = Absent /\ UNCHANGED ownVars

LEMMA HandledPosition ==
    ASSUME InputType, NEW w \in Workers, NEW c \in Clients, Handling(w, c)
    PROVE  position[c] \in Positions
  BY DEF InputType, Handling

LEMMA RequestsType ==
    ASSUME InputType, NEW w \in Workers, NEW c \in Clients, Request(w, c)
    PROVE  /\ requests' \in [Clients -> 0..MaxRequests]
           /\ client' = client /\ position' = position
           /\ out' = Absent /\ UNCHANGED ownVars
<1>1. requests[c] \in 0..MaxRequests /\ requests[c] < MaxRequests
  BY DEF Request, InputType
<1>2. requests[c] + 1 \in 0..MaxRequests
  BY <1>1, BoundsAssumption
<1>3. requests' = [requests EXCEPT ![c] = requests[c] + 1]
  BY DEF Request
<1>4. requests' \in [Clients -> 0..MaxRequests]
  BY <1>2, <1>3 DEF InputType
<1> QED
  BY <1>4 DEF Request, Silent, ownVars

LEMMA ConnectStep ==
    ASSUME InputType, NEW w \in Workers, NEW c \in Clients, NEW p \in Positions,
           Connect(w, c, p)
    PROVE  OthersStep
<1>1. client' \in [Clients -> {"away", "connecting", "loading", "playing", "gone"}]
  BY DEF Connect, InputType
<1>2. position' \in [Clients -> Positions \cup {Absent}]
  BY DEF Connect, InputType
<1>3. writing' \in [Workers -> [client : Clients, position : Positions] \cup {Absent}]
  BY PositionsAssumption, WriteTyped DEF Connect
<1>4. requests' = requests /\ events' = events /\ out' = Absent /\ UNCHANGED ownVars
  BY DEF Connect, Silent, ownVars
<1> QED
  BY <1>1, <1>2, <1>3, <1>4 DEF OthersStep, InputType

LEMMA GameReadyStep ==
    ASSUME InputType, NEW w \in Workers, NEW c \in Clients, GameReady(w, c)
    PROVE  OthersStep
<1>1. client' \in [Clients -> {"away", "connecting", "loading", "playing", "gone"}]
  BY DEF GameReady, InputType
<1>2. position[c] \in Positions
  BY HandledPosition DEF GameReady
<1>3. Event("enterPc", c, position[c]) \in EventType
  BY <1>2, EventTyped DEF UpdateEvents
<1>4. events' \in [Workers -> Seq(EventType)]
  BY <1>3, DispatchType DEF GameReady
<1>5. writing' \in [Workers -> [client : Clients, position : Positions] \cup {Absent}]
  BY <1>2, WriteTyped DEF GameReady
<1>6. requests' = requests /\ position' = position /\ out' = Absent /\ UNCHANGED ownVars
  BY DEF GameReady, Silent, ownVars
<1> QED
  BY <1>1, <1>4, <1>5, <1>6 DEF OthersStep, InputType

LEMMA PlayingStep ==
    ASSUME InputType, NEW w \in Workers, NEW c \in Clients, Request(w, c),
           NEW e \in EventType, Dispatch(w, e),
           writing' \in [Workers -> [client : Clients, position : Positions] \cup {Absent}]
    PROVE  OthersStep
<1>1. events' \in [Workers -> Seq(EventType)]
  BY DispatchType
<1> QED
  BY <1>1, RequestsType DEF OthersStep, InputType

LEMMA WorkerStep ==
    ASSUME InputType, NEW w \in Workers, Worker(w)
    PROVE  OthersStep
<1>1. writing \in [Workers -> [client : Clients, position : Positions] \cup {Absent}]
  BY DEF InputType
<1>2. CASE Update(w)
  <2>1. writing[w] \in [client : Clients, position : Positions]
    BY <1>1, <1>2 DEF Update
  <2>2. position' \in [Clients -> Positions \cup {Absent}]
    BY <1>2, <2>1 DEF Update, InputType
  <2>3. writing' \in [Workers -> [client : Clients, position : Positions] \cup {Absent}]
    BY <1>1, <1>2 DEF Update
  <2>4. client' \in [Clients -> {"away", "connecting", "loading", "playing", "gone"}]
    BY <1>2, <2>1 DEF Update, InputType
  <2>5. requests' = requests /\ events' = events /\ out' = Absent /\ UNCHANGED ownVars
    BY <1>2 DEF Update, Silent, ownVars
  <2> QED
    BY <2>2, <2>3, <2>4, <2>5 DEF OthersStep, InputType
<1>3. CASE \E c \in Clients : GameReady(w, c) \/ \E p \in Positions : Connect(w, c, p)
  BY <1>3, ConnectStep, GameReadyStep
<1>4. ASSUME NEW c \in Clients, NEW p \in Positions, KeyboardMove(w, c, p)
      PROVE  OthersStep
  <2>1. Event("commanderMove", c, p) \in EventType
    BY EventTyped DEF UpdateEvents
  <2>2. writing' \in [Workers -> [client : Clients, position : Positions] \cup {Absent}]
    BY <1>4, WriteTyped DEF KeyboardMove
  <2> QED
    BY <1>4, <2>1, <2>2, PlayingStep DEF KeyboardMove
<1>5. ASSUME NEW c \in Clients, NEW p \in Positions, MoveStop(w, c, p)
      PROVE  OthersStep
  <2>1. Event("moveStop", c, p) \in EventType
    BY EventTyped DEF UpdateEvents
  <2> QED
    BY <1>1, <1>5, <2>1, PlayingStep DEF MoveStop
<1>6. ASSUME NEW c \in Clients, Jump(w, c)
      PROVE  OthersStep
  <2>1. position[c] \in Positions
    BY <1>6, HandledPosition DEF Jump, Request
  <2>2. Event("jump", c, position[c]) \in EventType
    BY <2>1, EventTyped DEF UpdateEvents
  <2> QED
    BY <1>1, <1>6, <2>2, PlayingStep DEF Jump
<1>7. ASSUME NEW c \in Clients, Show(w, c)
      PROVE  OthersStep
  <2>1. Event("chat", c, Absent) \in EventType
    BY EventTyped DEF AroundEvents
  <2> QED
    BY <1>1, <1>7, <2>1, PlayingStep DEF Show
<1> QED
  BY <1>2, <1>3, <1>4, <1>5, <1>6, <1>7 DEF Worker

LEMMA QuitStep ==
    ASSUME InputType, NEW c \in Clients, Quit(c)
    PROVE  OthersStep
<1>1. client' \in [Clients -> {"away", "connecting", "loading", "playing", "gone"}]
  BY DEF Quit, InputType
<1>2. position' \in [Clients -> Positions \cup {Absent}]
  BY DEF Quit, InputType
<1>3. requests' = requests /\ writing' = writing /\ events' = events
      /\ out' = Absent /\ UNCHANGED ownVars
  BY DEF Quit, Silent, ownVars
<1> QED
  BY <1>1, <1>2, <1>3 DEF OthersStep, InputType

\* An iteration of the event server takes at most events from the workers.
LEMMA OthersUnchangedType ==
    ASSUME InputType, OthersUnchanged, events' \in [Workers -> Seq(EventType)]
    PROVE  InputType'
  BY DEF InputType, OthersUnchanged, clientVars, workerVars

LEMMA TakenEvent ==
    ASSUME InputType, NEW w \in Workers, TakeEvent(w)
    PROVE  /\ Head(events[w]) \in EventType
           /\ events' \in [Workers -> Seq(EventType)]
<1>1. events[w] \in Seq(EventType) /\ events[w] # <<>>
  BY DEF InputType, TakeEvent
<1>2. Head(events[w]) \in EventType /\ Tail(events[w]) \in Seq(EventType)
  BY <1>1
<1> QED
  BY <1>2 DEF InputType, TakeEvent

(***************************************************************************)
(* Packets                                                                 *)
(***************************************************************************)
LEMMA SendType ==
    ASSUME NEW kind \in PacketKinds, NEW c \in Clients, NEW to \in SUBSET Clients,
           HandlerType, Send(kind, c, to)
    PROVE  /\ out' \in PacketType
           /\ screen' \in [Clients -> SUBSET Clients]
<1>1. out' \in PacketType
  BY DEF Send, Multicast, Packet, PacketType
<1>2. screen' = [d \in Clients |->
                    IF d \notin to \/ d = c THEN screen[d]
                    ELSE IF kind = "enter" THEN screen[d] \cup {c}
                    ELSE IF kind = "leave" THEN screen[d] \ {c}
                    ELSE screen[d]]
  BY DEF Send, Multicast
<1>3. \A d \in Clients : screen[d] \in SUBSET Clients
  BY DEF HandlerType
<1>4. \A d \in Clients :
        (IF d \notin to \/ d = c THEN screen[d]
         ELSE IF kind = "enter" THEN screen[d] \cup {c}
         ELSE IF kind = "leave" THEN screen[d] \ {c}
         ELSE screen[d]) \in SUBSET Clients
  BY <1>3
<1> QED
  BY <1>1, <1>2, <1>4

\* Only ZC_ENTER_PC and ZC_LEAVE change what a client displays.
LEMMA SendOther ==
    ASSUME NEW kind, kind \notin {"enter", "leave"}, NEW c, NEW to,
           HandlerType, Send(kind, c, to)
    PROVE  screen' = screen
<1>1. screen' = [d \in Clients |-> screen[d]]
  BY DEF Send, Multicast
<1>2. screen = [d \in Clients |-> screen[d]]
  BY DEF HandlerType
<1> QED
  BY <1>1, <1>2

LEMMA ClientOfEvent ==
    ASSUME HandlerInv, pc # "receive"
    PROVE  event \in EventType /\ event.client \in Clients /\ event.client \notin inRange
  BY DEF HandlerInv, EventOK, EventType

(***************************************************************************)
(* The steps of the event server                                           *)
(***************************************************************************)
LEMMA ReceiveUpdateInv ==
    ASSUME IInv, NEW w \in Workers, ReceiveUpdate(w)
    PROVE  IInv'
<1>1. InputType /\ HandlerInv
  BY DEF IInv
<1>2. pc = "receive" /\ pc' = "scan" /\ event' = Head(events[w])
      /\ running' = running /\ listed' = listed /\ inRange' = inRange
      /\ strangers' = strangers /\ unread' = unread /\ arcs' = arcs /\ around' = around
      /\ out' = Absent /\ screen' = screen
  BY DEF ReceiveUpdate, TakeEvent, At, Silent, graphVars
<1>3. Head(events[w]) \in EventType /\ events' \in [Workers -> Seq(EventType)]
  BY <1>1, TakenEvent DEF ReceiveUpdate
<1>4. InputType'
  BY <1>1, <1>3, OthersUnchangedType DEF ReceiveUpdate
<1>5. HandlerType'
  BY <1>1, <1>2, <1>3 DEF HandlerInv, HandlerType, Places
<1>6. GraphIsMutual' /\ EnteredOK' /\ LeftOK'
  BY <1>1, <1>2 DEF HandlerInv, GraphIsMutual, EnteredOK, LeftOK
<1>7. EventOK'
  BY <1>1, <1>2, <1>3 DEF HandlerInv, EventOK
<1>8. ScreensOK'
  BY <1>1, <1>2 DEF HandlerInv, ScreensOK, Shown
<1>9. OutType'
  BY <1>2 DEF OutType
<1> QED
  BY <1>4, <1>5, <1>6, <1>7, <1>8, <1>9 DEF IInv, HandlerInv

\* A chat or a rest is sent to the neighbours of its client and to itself.
LEMMA ReceiveAroundSends ==
    ASSUME InputType, HandlerInv, NEW w \in Workers, ReceiveAround(w)
    PROVE  \E c \in Clients, kind \in AroundEvents : Send(kind, c, arcs[c] \cup {c})
<1>1. Head(events[w]) \in EventType
  BY TakenEvent DEF ReceiveAround
<1>2. Head(events[w]).client \in Clients
  BY <1>1 DEF EventType
<1> QED
  BY <1>2 DEF ReceiveAround

LEMMA ReceiveAroundInv ==
    ASSUME IInv, NEW w \in Workers, ReceiveAround(w)
    PROVE  IInv'
<1>1. InputType /\ HandlerInv /\ HandlerType
  BY DEF IInv, HandlerInv
<1>2. PICK c \in Clients, kind \in AroundEvents : Send(kind, c, arcs[c] \cup {c})
  BY <1>1, ReceiveAroundSends
<1>3. arcs[c] \cup {c} \in SUBSET Clients
  BY <1>1 DEF HandlerType
<1>4. kind \in PacketKinds /\ kind \notin {"enter", "leave"}
  BY DEF AroundEvents, PacketKinds
<1>5. out' \in PacketType
  BY <1>1, <1>2, <1>3, <1>4, SendType
<1>6. screen' = screen
  BY <1>1, <1>2, <1>4, SendOther
<1>7. UNCHANGED ownVars
  BY <1>6 DEF ReceiveAround, ownVars
<1>8. HandlerInv'
  BY <1>1, <1>7, OwnUnchanged
<1>9. InputType'
  BY <1>1, TakenEvent, OthersUnchangedType DEF ReceiveAround
<1> QED
  BY <1>5, <1>8, <1>9 DEF IInv, OutType

LEMMA ScanInv ==
    ASSUME IInv, Scan
    PROVE  IInv'
<1>1. InputType /\ HandlerInv
  BY DEF IInv
<1>2. pc = "scan" /\ pc' = "positions" /\ listed' \subseteq Clients
      /\ event' = event /\ running' = running /\ inRange' = inRange
      /\ strangers' = strangers /\ unread' = unread /\ arcs' = arcs /\ around' = around
      /\ out' = Absent /\ screen' = screen /\ events' = events
  BY DEF Scan, At, Silent, graphVars
<1>3. InputType'
  BY <1>1, <1>2, OthersUnchangedType DEF Scan, InputType
<1>4. HandlerType'
  BY <1>1, <1>2 DEF HandlerInv, HandlerType, Places
<1>5. GraphIsMutual' /\ EventOK' /\ EnteredOK' /\ LeftOK'
  BY <1>1, <1>2 DEF HandlerInv, GraphIsMutual, EventOK, EnteredOK, LeftOK
<1>6. ScreensOK'
  BY <1>1, <1>2 DEF HandlerInv, ScreensOK, Shown
<1> QED
  BY <1>2, <1>3, <1>4, <1>5, <1>6 DEF IInv, HandlerInv, OutType

LEMMA ReadPositionInv ==
    ASSUME IInv, NEW d \in Clients, ReadPosition(d)
    PROVE  IInv'
<1>1. InputType /\ HandlerInv
  BY DEF IInv
<1>2. pc = "positions" /\ pc' = pc /\ listed' \subseteq listed
      /\ event' = event /\ unread' = unread /\ arcs' = arcs /\ around' = around
      /\ out' = Absent /\ screen' = screen /\ events' = events
  BY DEF ReadPosition, At, Silent, graphVars
<1>3. running /\ running' \in BOOLEAN
  BY <1>1 DEF ReadPosition, At
<1>4. /\ inRange' \in {inRange, inRange \cup {d}} /\ event.client \notin inRange'
      /\ strangers' \in {strangers, strangers \cup {d}}
  BY <1>1, <1>2, ClientOfEvent DEF ReadPosition
<1>5. InputType'
  BY <1>1, <1>2, OthersUnchangedType DEF ReadPosition, InputType
<1>6. HandlerType'
  BY <1>1, <1>2, <1>3, <1>4 DEF HandlerInv, HandlerType
<1>7. EventOK'
  BY <1>1, <1>2, <1>4 DEF HandlerInv, EventOK
<1>8. GraphIsMutual' /\ EnteredOK' /\ LeftOK'
  BY <1>1, <1>2 DEF HandlerInv, GraphIsMutual, EnteredOK, LeftOK
<1>9. ScreensOK'
  BY <1>1, <1>2, <1>3 DEF HandlerInv, ScreensOK, Shown
<1> QED
  BY <1>2, <1>5, <1>6, <1>7, <1>8, <1>9 DEF IInv, HandlerInv, OutType

LEMMA EnterInv ==
    ASSUME IInv, Enter
    PROVE  IInv'
<1> DEFINE c == event.client
           entered == inRange \ arcs[c]
<1>1. InputType /\ HandlerInv /\ HandlerType /\ GraphIsMutual
  BY DEF IInv, HandlerInv
<1>2. running /\ pc = "positions" /\ pc' = "entered" /\ event' = event
      /\ running' = running /\ listed' = listed /\ inRange' = inRange
      /\ strangers' = strangers /\ unread' = entered /\ events' = events
      /\ Mark(c, inRange) /\ Link(c, entered)
  BY DEF Enter, At
<1>3. event \in EventType /\ c \in Clients /\ c \notin inRange
  BY <1>1, <1>2, ClientOfEvent
<1>4. inRange \subseteq Clients /\ arcs \in [Clients -> SUBSET Clients]
      /\ around \in [Clients -> BOOLEAN] /\ screen \in [Clients -> SUBSET Clients]
  BY <1>1 DEF HandlerType
<1>5. arcs' = [d \in Clients |-> IF d = c THEN arcs[c] \cup entered
                                 ELSE IF d \in entered THEN arcs[d] \cup {c}
                                 ELSE arcs[d]]
  BY <1>2 DEF Link
<1>6. around' = [d \in Clients |-> \/ d \in inRange
                                   \/ around[d] /\ d \notin arcs[c]]
  BY <1>2 DEF Mark
<1>7. arcs' \in [Clients -> SUBSET Clients]
  BY <1>3, <1>4, <1>5
<1>8. around' \in [Clients -> BOOLEAN]
  BY <1>3, <1>4, <1>6
<1>9. InputType'
  BY <1>1, <1>2, OthersUnchangedType DEF Enter, InputType
<1>10. GraphIsMutual'
  <2> SUFFICES ASSUME NEW a \in Clients, NEW b \in Clients, b \in arcs'[a]
               PROVE  a \in arcs'[b] /\ a # b
    BY DEF GraphIsMutual
  <2>1. b \in arcs[a] => a \in arcs[b] /\ a # b
    BY <1>1 DEF GraphIsMutual
  <2>2. CASE a = c
    BY <1>3, <1>5, <2>1, <2>2
  <2>3. CASE a # c /\ b = c
    BY <1>3, <1>5, <2>1, <2>3
  <2>4. CASE a # c /\ b # c
    BY <1>3, <1>5, <2>1, <2>4
  <2> QED
    BY <2>2, <2>3, <2>4
<1>11. arcs'[c] = arcs[c] \cup inRange
  BY <1>3, <1>5
<1>12. EnteredOK'
  <2>1. unread' \subseteq inRange' /\ inRange' \subseteq arcs'[event'.client]
    BY <1>2, <1>11
  <2>2. ASSUME NEW d \in arcs'[c] PROVE around'[d] <=> d \in inRange
    BY <1>3, <1>4, <1>6, <1>11
  <2> QED
    BY <1>2, <2>1, <2>2 DEF EnteredOK
<1>13. EventOK' /\ LeftOK'
  BY <1>2, <1>3 DEF EventOK, LeftOK
<1>14. \A d \in Clients : screen[d] = arcs[d]
  BY <1>1, <1>2 DEF HandlerInv, ScreensOK, Shown
<1>15. \A d \in Clients :
         Shown(d)' = IF d = c THEN arcs'[d] \ entered ELSE arcs'[d]
  BY <1>2 DEF Shown
<1>16. OutType' /\ screen' \in [Clients -> SUBSET Clients] /\ ScreensOK'
  <2>1. CASE entered = {} /\ Silent
    <3>1. \A d \in Clients : screen'[d] = arcs'[d] \ entered /\ screen'[d] = arcs'[d]
      BY <1>3, <1>5, <1>14, <2>1 DEF Silent
    <3> QED
      BY <1>4, <1>15, <2>1, <3>1 DEF Silent, OutType, ScreensOK
  <2>2. CASE Send("enter", c, inRange)
    <3>1. out' \in PacketType /\ screen' \in [Clients -> SUBSET Clients]
      BY <1>1, <1>3, <1>4, <2>2, SendType DEF PacketKinds
    <3>2. \A d \in Clients : screen'[d] = IF d \notin inRange \/ d = c THEN screen[d]
                                          ELSE screen[d] \cup {c}
      BY <2>2 DEF Send, Multicast
    <3>3. ASSUME NEW d \in Clients PROVE screen'[d] = Shown(d)'
      <4>1. CASE d = c
        <5>1. screen'[d] = arcs[d]
          BY <1>14, <3>2, <4>1
        <5>2. arcs'[d] = arcs[d] \cup entered /\ arcs[d] \cap entered = {}
          BY <1>5, <4>1
        <5>3. Shown(d)' = arcs'[d] \ entered
          BY <1>15, <4>1
        <5>4. arcs'[d] \ entered = arcs[d]
          BY ONLY <5>2
        <5> QED
          BY ONLY <5>1, <5>3, <5>4
      <4>2. CASE d # c /\ d \in entered
        BY <1>3, <1>5, <1>14, <1>15, <3>2, <4>2
      <4>3. CASE d # c /\ d \notin entered /\ d \in inRange
        <5>1. c \in arcs[d]
          BY <1>1, <1>3, <4>3 DEF GraphIsMutual
        <5> QED
          BY <1>3, <1>5, <1>14, <1>15, <3>2, <4>3, <5>1
      <4>4. CASE d # c /\ d \notin inRange
        BY <1>3, <1>5, <1>14, <1>15, <3>2, <4>4
      <4> QED
        BY <4>1, <4>2, <4>3, <4>4
    <3> QED
      BY <3>1, <3>3 DEF OutType, ScreensOK
  <2> QED
    BY <2>1, <2>2 DEF Enter
<1>17. HandlerType'
  <2>1. unread' \subseteq Clients
    BY <1>2, <1>4
  <2> QED
    BY <1>1, <1>2, <1>7, <1>8, <1>16, <2>1 DEF HandlerType, Places
<1> QED
  BY <1>9, <1>10, <1>12, <1>13, <1>16, <1>17 DEF IInv, HandlerInv

LEMMA LeaveInv ==
    ASSUME IInv, Leave
    PROVE  IInv'
<1> DEFINE c == event.client
           left == {d \in arcs[c] : ~ around[d]}
<1>1. InputType /\ HandlerInv /\ HandlerType /\ GraphIsMutual
  BY DEF IInv, HandlerInv
<1>2. running /\ pc = "entered" /\ pc' = "left" /\ event' = event
      /\ running' = running /\ listed' = listed /\ inRange' = inRange
      /\ strangers' = strangers /\ unread = {} /\ unread' = left /\ events' = events /\ around' = around
      /\ Unlink(c, left) /\ SendIfAny("leave", c, left)
  BY DEF Leave, At
<1>3. event \in EventType /\ c \in Clients /\ c \notin inRange
  BY <1>1, <1>2, ClientOfEvent
<1>4. inRange \subseteq Clients /\ arcs \in [Clients -> SUBSET Clients]
      /\ screen \in [Clients -> SUBSET Clients]
  BY <1>1 DEF HandlerType
<1>5. inRange \subseteq arcs[c] /\ left = arcs[c] \ inRange
  BY <1>1, <1>2 DEF HandlerInv, EnteredOK
<1>6. arcs' = [d \in Clients |-> IF d = c THEN arcs[c] \ left
                                 ELSE IF d \in left THEN arcs[d] \ {c}
                                 ELSE arcs[d]]
  BY <1>2 DEF Unlink
<1>7. c \notin left /\ left \subseteq Clients
  BY <1>1, <1>3, <1>4, <1>5 DEF GraphIsMutual
<1> HIDE DEF left
<1>8. arcs' \in [Clients -> SUBSET Clients]
  BY <1>3, <1>4, <1>6
<1>9. InputType'
  BY <1>1, <1>2, OthersUnchangedType DEF Leave, InputType
<1>10. GraphIsMutual'
  <2> SUFFICES ASSUME NEW a \in Clients, NEW b \in Clients, b \in arcs'[a]
               PROVE  a \in arcs'[b] /\ a # b
    BY DEF GraphIsMutual
  <2>1. (b \in arcs[a] => a \in arcs[b] /\ a # b) /\ (b \notin arcs[a] => a \notin arcs[b])
    BY <1>1 DEF GraphIsMutual
  <2>2. CASE a = c
    BY <1>3, <1>6, <2>1, <2>2
  <2>3. CASE a # c /\ b = c
    <3>1. a \notin left
      BY <1>6, <2>3
    <3>2. a \in arcs[c]
      BY <1>6, <2>1, <2>3
    <3> QED
      BY <1>3, <1>6, <2>3, <3>1, <3>2
  <2>4. CASE a # c /\ b # c
    BY <1>3, <1>6, <2>1, <2>4
  <2> QED
    BY <2>2, <2>3, <2>4
<1>11. arcs'[c] = inRange
  BY <1>3, <1>5, <1>6
<1>12. LeftOK'
  <2>1. left \cap inRange = {}
    BY <1>5
  <2> QED
    BY <1>2, <1>7, <1>11, <2>1 DEF LeftOK
<1>13. EventOK' /\ EnteredOK'
  BY <1>2, <1>3 DEF EventOK, EnteredOK
<1>14. \A d \in Clients : screen[d] = arcs[d]
  BY <1>1, <1>2 DEF HandlerInv, ScreensOK, Shown
<1>15. \A d \in Clients :
         Shown(d)' = IF d = c THEN arcs'[d] \cup left ELSE arcs'[d]
  BY <1>2 DEF Shown
<1>16. \A d \in Clients : d = c => Shown(d)' = arcs[d]
  BY <1>3, <1>5, <1>11, <1>15
<1>17. OutType' /\ screen' \in [Clients -> SUBSET Clients] /\ ScreensOK'
  <2>1. CASE left = {} /\ Silent
    <3>1. \A d \in Clients : screen'[d] = Shown(d)'
      BY <1>3, <1>6, <1>14, <1>15, <1>16, <2>1 DEF Silent
    <3> QED
      BY <1>4, <2>1, <3>1 DEF Silent, OutType, ScreensOK
  <2>2. CASE left # {} /\ Send("leave", c, left)
    <3>1. out' \in PacketType /\ screen' \in [Clients -> SUBSET Clients]
      BY <1>1, <1>3, <1>7, <2>2, SendType DEF PacketKinds
    <3>2. \A d \in Clients : screen'[d] = IF d \notin left \/ d = c THEN screen[d]
                                          ELSE screen[d] \ {c}
      BY <2>2 DEF Send, Multicast
    <3>3. ASSUME NEW d \in Clients PROVE screen'[d] = Shown(d)'
      <4>1. CASE d = c
        BY <1>14, <1>16, <3>2, <4>1
      <4>2. CASE d # c
        BY <1>6, <1>14, <1>15, <3>2, <4>2
      <4> QED
        BY <4>1, <4>2
    <3> QED
      BY <3>1, <3>3 DEF OutType, ScreensOK
  <2> QED
    BY <1>2, <2>1, <2>2 DEF SendIfAny
<1>18. HandlerType'
  BY <1>1, <1>2, <1>7, <1>8, <1>17 DEF HandlerType, Places
<1> QED
  BY <1>9, <1>10, <1>12, <1>13, <1>17, <1>18 DEF IInv, HandlerInv

\* What reading the session of d does: it fails and the loop ends, or d is read
\* and the client of the event gets a packet about it.
LEMMA ReadSessionFacts ==
    ASSUME InputType, HandlerInv, pc # "receive", running,
           NEW d \in Clients, NEW kind \in {"enter", "leave"}, ReadSession(d, kind)
    PROVE  /\ InputType'
           /\ OutType'
           /\ HandlerType'
           /\ d \in unread /\ unread' = unread \ {d}
           /\ pc' = pc /\ event' = event /\ listed' = listed /\ inRange' = inRange
           /\ strangers' = strangers /\ arcs' = arcs /\ around' = around
           /\ ~ running' \/ Send(kind, d, {event.client})
<1>1. HandlerType
  BY DEF HandlerInv
<1>2. d \in unread /\ unread' = unread \ {d} /\ events' = events
      /\ pc' = pc /\ event' = event /\ listed' = listed /\ inRange' = inRange
      /\ strangers' = strangers /\ arcs' = arcs /\ around' = around
  BY DEF ReadSession, graphVars
<1>3. InputType'
  BY <1>2, OthersUnchangedType DEF ReadSession, InputType
<1>4. CASE running' = FALSE /\ Silent
  <2>1. HandlerType'
    BY <1>1, <1>2, <1>4 DEF HandlerType, Silent
  <2> QED
    BY <1>2, <1>3, <1>4, <2>1 DEF Silent, OutType
<1>5. CASE running' = running /\ Send(kind, d, {event.client})
  <2>1. {event.client} \in SUBSET Clients /\ kind \in PacketKinds
    BY ClientOfEvent DEF PacketKinds
  <2>2. out' \in PacketType /\ screen' \in [Clients -> SUBSET Clients]
    BY <1>1, <1>5, <2>1, SendType
  <2>3. HandlerType'
    BY <1>1, <1>2, <1>5, <2>2 DEF HandlerType
  <2> QED
    BY <1>2, <1>3, <1>5, <2>2, <2>3 DEF OutType
<1> QED
  BY <1>4, <1>5 DEF ReadSession

LEMMA ReadEnteredInv ==
    ASSUME IInv, NEW d \in Clients, ReadEntered(d)
    PROVE  IInv'
<1>1. InputType /\ HandlerInv /\ GraphIsMutual /\ EventOK /\ EnteredOK
  BY DEF IInv, HandlerInv
<1>2. running /\ pc = "entered" /\ ReadSession(d, "enter")
  BY DEF ReadEntered, At
<1>3. /\ InputType' /\ OutType' /\ HandlerType'
      /\ d \in unread /\ unread' = unread \ {d}
      /\ pc' = pc /\ event' = event /\ listed' = listed /\ inRange' = inRange
      /\ arcs' = arcs /\ around' = around
      /\ ~ running' \/ Send("enter", d, {event.client})
  BY <1>1, <1>2, ReadSessionFacts
<1>4. event.client \in Clients /\ event.client \notin inRange
  BY <1>1, <1>2, ClientOfEvent
<1>5. GraphIsMutual' /\ EventOK' /\ EnteredOK' /\ LeftOK'
  BY <1>1, <1>2, <1>3 DEF GraphIsMutual, EventOK, EnteredOK, LeftOK
<1>6. ScreensOK'
  <2> SUFFICES ASSUME running', NEW b \in Clients PROVE screen'[b] = Shown(b)'
    BY DEF ScreensOK
  <2>1. screen'[b] = IF b # event.client \/ b = d THEN screen[b] ELSE screen[b] \cup {d}
    BY <1>3 DEF Send, Multicast
  <2>2. screen[b] = IF b = event.client THEN arcs[b] \ unread ELSE arcs[b]
    BY <1>1, <1>2 DEF HandlerInv, ScreensOK, Shown
  <2>3. Shown(b)' = IF b = event.client THEN arcs[b] \ (unread \ {d}) ELSE arcs[b]
    BY <1>2, <1>3 DEF Shown
  <2>4. d \in arcs[event.client] /\ d # event.client
    BY <1>1, <1>2, <1>3, <1>4 DEF EnteredOK
  <2>5. CASE b = event.client
    BY <2>1, <2>2, <2>3, <2>4, <2>5
  <2>6. CASE b # event.client
    BY <2>1, <2>2, <2>3, <2>6
  <2> QED
    BY <2>5, <2>6
<1> QED
  BY <1>3, <1>5, <1>6 DEF IInv, HandlerInv

LEMMA ReadStrangerInv ==
    ASSUME IInv, ReadStranger
    PROVE  IInv'
<1>1. InputType /\ HandlerInv
  BY DEF IInv
<1>2. /\ pc' = pc /\ event' = event /\ listed' = listed /\ inRange' = inRange
      /\ strangers' = strangers /\ unread' = unread /\ arcs' = arcs /\ around' = around
      /\ running' = FALSE /\ out' = Absent /\ screen' = screen /\ events' = events
  BY DEF ReadStranger, Silent, handlerVars, graphVars
<1>3. InputType'
  BY <1>1, <1>2, OthersUnchangedType DEF ReadStranger, InputType
<1>4. HandlerType'
  BY <1>1, <1>2 DEF HandlerInv, HandlerType
<1>5. GraphIsMutual' /\ EventOK' /\ EnteredOK' /\ LeftOK' /\ ScreensOK'
  BY <1>1, <1>2 DEF HandlerInv, GraphIsMutual, EventOK, EnteredOK, LeftOK, ScreensOK
<1> QED
  BY <1>2, <1>3, <1>4, <1>5 DEF IInv, HandlerInv, OutType

LEMMA ReadLeftInv ==
    ASSUME IInv, NEW d \in Clients, ReadLeft(d)
    PROVE  IInv'
<1>1. InputType /\ HandlerInv /\ GraphIsMutual /\ EventOK /\ LeftOK
  BY DEF IInv, HandlerInv
<1>2. running /\ pc = "left" /\ ReadSession(d, "leave")
  BY DEF ReadLeft, At
<1>3. /\ InputType' /\ OutType' /\ HandlerType'
      /\ d \in unread /\ unread' = unread \ {d}
      /\ pc' = pc /\ event' = event /\ listed' = listed /\ inRange' = inRange
      /\ arcs' = arcs /\ around' = around
      /\ ~ running' \/ Send("leave", d, {event.client})
  BY <1>1, <1>2, ReadSessionFacts
<1>4. GraphIsMutual' /\ EventOK' /\ EnteredOK' /\ LeftOK'
  BY <1>1, <1>2, <1>3 DEF GraphIsMutual, EventOK, EnteredOK, LeftOK
<1>5. ScreensOK'
  <2> SUFFICES ASSUME running', NEW b \in Clients PROVE screen'[b] = Shown(b)'
    BY DEF ScreensOK
  <2>1. screen'[b] = IF b # event.client \/ b = d THEN screen[b] ELSE screen[b] \ {d}
    BY <1>3 DEF Send, Multicast
  <2>2. screen[b] = IF b = event.client THEN arcs[b] \cup unread ELSE arcs[b]
    BY <1>1, <1>2 DEF HandlerInv, ScreensOK, Shown
  <2>3. Shown(b)' = IF b = event.client THEN arcs[b] \cup (unread \ {d}) ELSE arcs[b]
    BY <1>2, <1>3 DEF Shown
  <2>4. d \notin arcs[event.client] /\ d # event.client
    BY <1>1, <1>2, <1>3 DEF LeftOK
  <2>5. CASE b = event.client
    BY <2>1, <2>2, <2>3, <2>4, <2>5
  <2>6. CASE b # event.client
    BY <2>1, <2>2, <2>3, <2>6
  <2> QED
    BY <2>5, <2>6
<1> QED
  BY <1>3, <1>4, <1>5 DEF IInv, HandlerInv

\* What Finish sends, and to whom: the neighbours, and for a jump the client.
LEMMA FinishSends ==
    ASSUME HandlerInv, Finish
    PROVE  \/ Silent
           \/ \E kind \in UpdateEvents, to \in {inRange, inRange \cup {event.client}} :
                Send(kind, event.client, to)
<1>1. CASE event.kind = "enterPc" /\ Silent
  BY <1>1
<1>2. CASE event.kind \in {"commanderMove", "moveStop"}
           /\ SendIfAny(event.kind, event.client, inRange)
  BY <1>2 DEF SendIfAny, UpdateEvents
<1>3. CASE Send("jump", event.client, inRange \cup {event.client})
  BY <1>3 DEF UpdateEvents
<1> QED
  BY <1>1, <1>2, <1>3 DEF Finish

LEMMA FinishInv ==
    ASSUME IInv, Finish
    PROVE  IInv'
<1>1. InputType /\ HandlerInv /\ HandlerType
  BY DEF IInv, HandlerInv
<1>2. running /\ pc = "left" /\ pc' = "receive" /\ unread = {}
      /\ event' = Absent /\ inRange' = {} /\ strangers' = strangers /\ events' = events
      /\ running' = running /\ listed' = listed /\ unread' = unread
      /\ arcs' = arcs /\ around' = around
  BY DEF Finish, At, graphVars
<1>3. event.client \in Clients
  BY <1>1, <1>2, ClientOfEvent
<1>4. OutType' /\ screen' = screen
  <2>1. CASE Silent
    BY <2>1 DEF Silent, OutType
  <2>2. ASSUME NEW kind \in UpdateEvents, NEW to \in {inRange, inRange \cup {event.client}},
               Send(kind, event.client, to)
        PROVE  OutType' /\ screen' = screen
    <3>1. to \in SUBSET Clients
      BY <1>1, <1>3 DEF HandlerType
    <3>2. kind \in PacketKinds /\ kind \notin {"enter", "leave"}
      BY DEF UpdateEvents, PacketKinds
    <3> QED
      BY <1>1, <1>3, <2>2, <3>1, <3>2, SendType, SendOther DEF OutType
  <2> QED
    BY <1>1, <2>1, <2>2, FinishSends
<1>5. InputType'
  BY <1>1, <1>2, OthersUnchangedType DEF Finish, InputType
<1>6. HandlerType'
  BY <1>1, <1>2, <1>4 DEF HandlerType, Places
<1>7. GraphIsMutual' /\ EventOK' /\ EnteredOK' /\ LeftOK'
  BY <1>1, <1>2 DEF HandlerInv, GraphIsMutual, EventOK, EnteredOK, LeftOK
<1>8. ScreensOK'
  <2>1. \A d \in Clients : screen[d] = arcs[d]
    BY <1>1, <1>2 DEF HandlerInv, ScreensOK, Shown
  <2> QED
    BY <1>2, <1>4, <2>1 DEF ScreensOK, Shown
<1> QED
  BY <1>4, <1>5, <1>6, <1>7, <1>8 DEF IInv, HandlerInv

(***************************************************************************)
(* The theorems                                                            *)
(***************************************************************************)
LEMMA StepInv == IInv /\ [Next]_vars => IInv'
<1> SUFFICES ASSUME IInv, [Next]_vars PROVE IInv'
  OBVIOUS
<1>1. InputType /\ HandlerInv
  BY DEF IInv
<1>2. ASSUME OthersStep PROVE IInv'
  BY <1>1, <1>2, OwnUnchanged DEF OthersStep, IInv, OutType
<1>3. CASE \E w \in Workers : Worker(w)
  BY <1>1, <1>2, <1>3, WorkerStep
<1>4. CASE \E c \in Clients : Quit(c)
  BY <1>1, <1>2, <1>4, QuitStep
<1>5. CASE EventServer_subscribe
  BY <1>5, ReceiveUpdateInv, ReceiveAroundInv, ScanInv, ReadPositionInv, EnterInv,
     ReadEnteredInv, ReadStrangerInv, LeaveInv, ReadLeftInv, FinishInv DEF EventServer_subscribe
<1>6. CASE UNCHANGED vars
  <2>1. UNCHANGED ownVars /\ out' = out /\ client' = client /\ requests' = requests
        /\ position' = position /\ writing' = writing /\ events' = events
    BY <1>6 DEF vars, ownVars, clientVars, workerVars, sentVars
  <2>2. InputType' /\ OutType'
    BY <2>1 DEF IInv, InputType, OutType
  <2> QED
    BY <1>1, <2>1, <2>2, OwnUnchanged DEF IInv
<1> QED
  BY <1>3, <1>4, <1>5, <1>6 DEF Next

\* The inductive invariant holds in every reachable state.
THEOREM Invariance == Spec => []IInv
  BY InitInv, StepInv, PTL DEF Spec

LEMMA DispatchTold ==
    ASSUME ToldType, NEW w \in Workers, NEW e \in EventType, Dispatch(w, e)
    PROVE  ToldType'
<1>1. e.client \in Clients /\ e.position \in Positions \cup {Absent}
  BY DEF EventType
<1> QED
  BY <1>1 DEF ToldType, Dispatch

\* Only what a worker dispatches is told.
LEMMA StepTold == IInv /\ ToldType /\ [Next]_vars => ToldType'
<1> SUFFICES ASSUME IInv, ToldType, [Next]_vars PROVE ToldType'
  OBVIOUS
<1>1. ASSUME NEW w \in Workers, NEW c \in Clients, NEW kind \in UpdateEvents \cup AroundEvents,
             NEW p \in Positions \cup {Absent}, Dispatch(w, Event(kind, c, p))
      PROVE  ToldType'
  BY <1>1, EventTyped, DispatchTold
<1>2. ASSUME NEW w \in Workers, Worker(w) PROVE ToldType'
  <2>1. \A c \in Clients : position[c] \in Positions \cup {Absent}
    BY DEF IInv, InputType
  <2>2. ASSUME NEW c \in Clients, NEW p \in Positions, KeyboardMove(w, c, p) \/ MoveStop(w, c, p)
        PROVE  ToldType'
    BY <1>1, <2>2 DEF KeyboardMove, MoveStop, UpdateEvents
  <2>3. ASSUME NEW c \in Clients, GameReady(w, c) \/ Jump(w, c) \/ Show(w, c)
        PROVE  ToldType'
    BY <1>1, <2>1, <2>3 DEF GameReady, Jump, Show, UpdateEvents, AroundEvents
  <2>4. CASE Update(w) \/ \E c \in Clients, p \in Positions : Connect(w, c, p)
    BY <2>4 DEF Update, Connect, ToldType
  <2> QED
    BY <1>2, <2>2, <2>3, <2>4 DEF Worker
<1>3. CASE EventServer_subscribe
  BY <1>3 DEF EventServer_subscribe, ReceiveUpdate, ReceiveAround, TakeEvent, Scan,
     ReadPosition, Enter, ReadEntered, ReadLeft, ReadSession, ReadStranger, Leave, Finish, ToldType
<1>4. CASE UNCHANGED vars \/ \E c \in Clients : Quit(c)
  BY <1>4 DEF vars, Quit, ToldType
<1> QED
  BY <1>2, <1>3, <1>4 DEF Next

\* Every variable of the model keeps its type.
THEOREM TypeCorrectness == Spec => []TypeOK
<1>1. IInv /\ ToldType => TypeOK
  BY TypeParts DEF IInv, HandlerInv
<1>2. Init => ToldType
  BY DEF Init, ToldType
<1> QED
  BY <1>1, <1>2, StepTold, Invariance, PTL DEF Spec

\* EventServer_linkClients and EventServer_unlinkClients keep the graph
\* symmetric whatever positions Redis returns.
THEOREM MutualGraph == Spec => []GraphIsMutual
<1>1. IInv => GraphIsMutual
  BY DEF IInv, HandlerInv
<1> QED
  BY <1>1, Invariance, PTL

\* Between two events every client displays its neighbours in the graph and
\* nobody else, although both sides are told at different steps.
THEOREM FaithfulScreens == Spec => []ScreensFollowGraph
<1>1. IInv => ScreensFollowGraph
  <2> SUFFICES ASSUME IInv, At("receive") PROVE screen = arcs
    BY DEF ScreensFollowGraph
  <2>1. \A d \in Clients : screen[d] = arcs[d]
    BY DEF IInv, HandlerInv, ScreensOK, Shown, At
  <2>2. screen \in [Clients -> SUBSET Clients] /\ arcs \in [Clients -> SUBSET Clients]
    BY DEF IInv, HandlerInv, HandlerType
  <2> QED
    BY <2>1, <2>2
<1> QED
  BY <1>1, Invariance, PTL

\* The comparison of the two lists leaves the client with exactly the
\* neighbours Redis returned, whatever marks earlier events have left.
THEOREM ExactNeighbours == Spec => []NeighboursAreInRange
<1>1. IInv => NeighboursAreInRange
  BY DEF IInv, HandlerInv, LeftOK, NeighboursAreInRange, At
<1> QED
  BY <1>1, Invariance, PTL

\* What the event server sends about a player, other than ZC_ENTER_PC and
\* ZC_LEAVE, only reaches clients that display the player.
THEOREM SeenOnly == Spec => NothingUnseen
<1> DEFINE Reported == out' # Absent /\ out'.kind \notin {"enter", "leave"}
           Seen == \A d \in out'.to : d = out'.about \/ out'.about \in screen[d]
<1>1. ASSUME NEW kind, NEW c, NEW to, Send(kind, c, to)
      PROVE  out'.kind = kind /\ out'.about = c /\ out'.to = to
  BY <1>1 DEF Send, Multicast, Packet
<1>2. ASSUME IInv, EventServer_subscribe, Reported PROVE Seen
  <2>1. InputType /\ HandlerInv /\ HandlerType /\ GraphIsMutual
    BY <1>2 DEF IInv, HandlerInv
  <2>2. ~ Silent
    BY <1>2 DEF Silent
  <2>3. ASSUME NEW w \in Workers, ReceiveAround(w) PROVE Seen
    <3>1. PICK c \in Clients, kind \in AroundEvents : Send(kind, c, arcs[c] \cup {c})
      BY <2>1, <2>3, ReceiveAroundSends
    <3>2. out'.about = c /\ out'.to = arcs[c] \cup {c}
      BY <1>1, <3>1
    <3>3. \A d \in Clients : screen[d] = arcs[d]
      BY <2>1, <2>3 DEF ReceiveAround, TakeEvent, At, HandlerInv, ScreensOK, Shown
    <3>4. \A d \in arcs[c] : d \in Clients /\ c \in arcs[d]
      BY <2>1 DEF HandlerType, GraphIsMutual
    <3> QED
      BY <3>2, <3>3, <3>4
  <2>4. CASE Finish
    <3>1. PICK kind \in UpdateEvents, to \in {inRange, inRange \cup {event.client}} :
             Send(kind, event.client, to)
      BY <2>1, <2>2, <2>4, FinishSends
    <3>2. out'.about = event.client /\ out'.to \subseteq inRange \cup {event.client}
      BY <1>1, <3>1
    <3>3. running /\ pc = "left" /\ unread = {}
      BY <2>4 DEF Finish, At
    <3>4. event.client \in Clients /\ arcs[event.client] = inRange
      BY <2>1, <3>3, ClientOfEvent DEF HandlerInv, LeftOK
    <3>5. \A d \in Clients : screen[d] = arcs[d]
      BY <2>1, <3>3 DEF HandlerInv, ScreensOK, Shown
    <3>6. \A d \in inRange : d \in Clients /\ event.client \in arcs[d]
      BY <2>1, <3>4 DEF HandlerType, GraphIsMutual
    <3> QED
      BY <3>2, <3>5, <3>6
  <2>5. ASSUME NEW kind \in {"enter", "leave"}, NEW c, NEW to, Send(kind, c, to)
        PROVE  FALSE
    BY <1>1, <1>2, <2>5
  <2>6. ~ Enter /\ ~ Leave /\ ~ Scan /\ ~ ReadStranger
    BY <2>2, <2>5 DEF Enter, Leave, Scan, SendIfAny, ReadStranger
  <2>7. \A w \in Workers : ~ ReceiveUpdate(w)
    BY <2>2 DEF ReceiveUpdate
  <2>8. \A d \in Clients : ~ ReadPosition(d) /\ ~ ReadEntered(d) /\ ~ ReadLeft(d)
    BY <2>2, <2>5 DEF ReadPosition, ReadEntered, ReadLeft, ReadSession
  <2> QED
    BY <1>2, <2>3, <2>4, <2>6, <2>7, <2>8 DEF EventServer_subscribe
<1>3. ASSUME IInv, Next, Reported PROVE Seen
  <2>1. ~ OthersStep
    BY <1>3 DEF OthersStep
  <2>2. InputType
    BY <1>3 DEF IInv
  <2> QED
    BY <1>2, <1>3, <2>1, <2>2, WorkerStep, QuitStep DEF Next
<1>4. IInv /\ [Next]_vars => [Reported => Seen]_vars
  BY <1>3
<1> QED
  BY <1>4, Invariance, PTL DEF Spec, NothingUnseen

(***************************************************************************)
(* Whose session the event server may miss                                 *)
(***************************************************************************)

\* c has left a trace with the workers or in Redis,
MetByWorker(c) ==
    \/ position[c] # Absent
    \/ \E w \in Workers : writing[w] # Absent /\ writing[w].client = c
    \/ \E w \in Workers : \E i \in 1..Len(events[w]) : events[w][i].client = c

\* or with the event server.
MetByServer(c) ==
    \/ pc # "receive" /\ event.client = c
    \/ c \in listed \cup inRange \cup unread
    \/ \E d \in Clients : c \in arcs[d]

\* A client that has left a trace has connected, and the game session of a
\* client that is connected is there.
PresenceOK ==
    \A c \in Clients :
        /\ client[c] = "away" => ~ MetByWorker(c) /\ ~ MetByServer(c)
        /\ position[c] = Absent => client[c] \in {"away", "gone"}

LEMMA InitPresence == Init => PresenceOK
<1> SUFFICES ASSUME Init, NEW c \in Clients
             PROVE  position[c] = Absent /\ client[c] = "away"
                    /\ ~ MetByWorker(c) /\ ~ MetByServer(c)
  BY DEF PresenceOK
<1> QED
  BY DEF Init, MetByWorker, MetByServer

\* One event more, of a client that has connected
LEMMA DispatchMet ==
    ASSUME InputType, NEW w \in Workers, NEW e \in EventType, Dispatch(w, e),
           NEW v \in Workers, NEW i \in 1..Len(events'[v])
    PROVE  events'[v][i] = e \/ \E j \in 1..Len(events[v]) : events[v][j] = events'[v][i]
<1>1. events[w] \in Seq(EventType) /\ events[v] \in Seq(EventType)
  BY DEF InputType
<1>2. events'[v] = IF v = w THEN Append(events[w], e) ELSE events[v]
  BY DEF InputType, Dispatch
<1> QED
  BY <1>1, <1>2

LEMMA TakenMet ==
    ASSUME InputType, NEW w \in Workers, TakeEvent(w),
           NEW v \in Workers, NEW i \in 1..Len(events'[v])
    PROVE  \E j \in 1..Len(events[v]) : events[v][j] = events'[v][i]
<1>1. events[w] \in Seq(EventType) /\ events[w] # <<>> /\ events[v] \in Seq(EventType)
  BY DEF InputType, TakeEvent
<1>2. events'[v] = IF v = w THEN Tail(events[w]) ELSE events[v]
  BY DEF InputType, TakeEvent
<1>3. CASE v = w
  <2>1. i + 1 \in 1..Len(events[v]) /\ events[v][i + 1] = events'[v][i]
    BY <1>1, <1>2, <1>3
  <2> QED
    BY <2>1
<1> QED
  BY <1>1, <1>2, <1>3

\* A request is of a client that is playing and leaves it so.
LEMMA RequestPresence ==
    ASSUME InputType, PresenceOK, UNCHANGED <<ownVars, position>>,
           NEW w \in Workers, NEW c \in Clients, client[c] \notin {"away", "connecting"},
           \/ client' = client
           \/ client' = [client EXCEPT ![c] = "playing"],
           client[c] = "gone" => client' = client,
           Handling(w, c),
           NEW e \in EventType, e.client = c, Dispatch(w, e),
           \/ writing' = writing
           \/ \E p : writing' = [writing EXCEPT ![w] = Write(c, p)]
    PROVE  PresenceOK'
<1> SUFFICES ASSUME NEW d \in Clients
             PROVE  /\ client'[d] = "away" => ~ MetByWorker(d)' /\ ~ MetByServer(d)'
                    /\ position'[d] = Absent => client'[d] \in {"away", "gone"}
  BY DEF PresenceOK
<1>1. client'[d] = "away" => client[d] = "away" /\ d # c
  BY DEF InputType
<1>2. MetByServer(d)' = MetByServer(d)
  BY DEF MetByServer, ownVars, handlerVars, graphVars
<1>3. ASSUME d # c, MetByWorker(d)' PROVE MetByWorker(d)
  <2>1. CASE position'[d] # Absent
    BY <2>1 DEF MetByWorker
  <2>2. ASSUME NEW v \in Workers, writing'[v] # Absent, writing'[v].client = d
        PROVE  MetByWorker(d)
    <3>1. \A p : Write(c, p).client = c
      BY DEF Write
    <3>2. writing'[v] = writing[v]
      BY <1>3, <2>2, <3>1 DEF InputType
    <3> QED
      BY <2>2, <3>2 DEF MetByWorker
  <2>3. ASSUME NEW v \in Workers, NEW i \in 1..Len(events'[v]), events'[v][i].client = d
        PROVE  MetByWorker(d)
    <3>1. \E j \in 1..Len(events[v]) : events[v][j] = events'[v][i]
      BY <1>3, <2>3, DispatchMet
    <3> QED
      BY <2>3, <3>1 DEF MetByWorker
  <2> QED
    BY <1>3, <2>1, <2>2, <2>3 DEF MetByWorker
<1>4. position'[d] = Absent => client'[d] \in {"away", "gone"}
  BY DEF PresenceOK, Handling, InputType
<1> QED
  BY <1>1, <1>2, <1>3, <1>4 DEF PresenceOK

LEMMA WorkerPresence ==
    ASSUME InputType, PresenceOK, NEW w \in Workers, Worker(w)
    PROVE  PresenceOK'
<1>1. UNCHANGED ownVars
  BY WorkerStep DEF OthersStep
<1>2. ASSUME NEW c \in Clients, NEW p \in Positions, Connect(w, c, p)
      PROVE  PresenceOK'
  <2> SUFFICES ASSUME NEW d \in Clients
               PROVE  /\ client'[d] = "away" => ~ MetByWorker(d)' /\ ~ MetByServer(d)'
                      /\ position'[d] = Absent => client'[d] \in {"away", "gone"}
    BY DEF PresenceOK
  <2>1. /\ client' = [client EXCEPT ![c] = "connecting"]
        /\ position' = [position EXCEPT ![c] = p]
        /\ writing' = [writing EXCEPT ![w] = Write(c, Start)]
        /\ events' = events
    BY <1>2 DEF Connect
  <2>2. CASE d = c
    BY <2>1, <2>2, PositionsAssumption DEF InputType
  <2>3. CASE d # c
    <3>1. client'[d] = client[d] /\ position'[d] = position[d]
      BY <2>1, <2>3 DEF InputType
    <3>2. MetByServer(d)' = MetByServer(d)
      BY <1>1 DEF MetByServer, ownVars, handlerVars, graphVars
    <3>3. ASSUME NEW v \in Workers, writing'[v] # Absent, writing'[v].client = d
          PROVE  writing[v] # Absent /\ writing[v].client = d
      BY <2>1, <2>3, <3>3 DEF InputType, Write
    <3>4. MetByWorker(d)' => MetByWorker(d)
      BY <2>1, <3>1, <3>3 DEF MetByWorker
    <3> QED
      BY <3>1, <3>2, <3>4 DEF PresenceOK
  <2> QED
    BY <2>2, <2>3
<1>3. CASE Update(w)
  <2> SUFFICES ASSUME NEW d \in Clients
               PROVE  /\ client'[d] = "away" => ~ MetByWorker(d)' /\ ~ MetByServer(d)'
                      /\ position'[d] = Absent => client'[d] \in {"away", "gone"}
    BY DEF PresenceOK
  <2> DEFINE c == writing[w].client
  <2>1. writing[w] \in [client : Clients, position : Positions]
    BY <1>3 DEF Update, InputType
  <2>2. /\ writing[w] # Absent /\ events' = events
        /\ position' = [position EXCEPT ![c] = writing[w].position]
        /\ client' = [client EXCEPT ![c] = IF OldIdentity(c) THEN "loading" ELSE client[c]]
        /\ writing' = [writing EXCEPT ![w] = Absent]
    BY <1>3 DEF Update
  <2>3. client[c] # "away"
    BY <2>1, <2>2 DEF PresenceOK, MetByWorker
  <2>4. position'[c] # Absent
    BY <2>1, <2>2, PositionsAssumption DEF InputType
  <2>5. /\ client'[d] = "away" => client[d] = "away"
        /\ d # c => client'[d] = client[d] /\ position'[d] = position[d]
    BY <2>1, <2>2, <2>3 DEF InputType
  <2>6. MetByServer(d)' = MetByServer(d)
    BY <1>1 DEF MetByServer, ownVars, handlerVars, graphVars
  <2>7. ASSUME NEW v \in Workers, writing'[v] # Absent
        PROVE  writing'[v] = writing[v]
    BY <2>2, <2>7 DEF InputType
  <2>8. MetByWorker(d)' => d = c \/ MetByWorker(d)
    BY <2>2, <2>5, <2>7 DEF MetByWorker
  <2> QED
    BY <2>3, <2>4, <2>5, <2>6, <2>8 DEF PresenceOK
<1>4. ASSUME NEW c \in Clients, GameReady(w, c) PROVE PresenceOK'
  <2>1. Event("enterPc", c, position[c]) \in EventType
    BY <1>4, HandledPosition, EventTyped DEF GameReady, UpdateEvents
  <2>2. Event("enterPc", c, position[c]).client = c
    BY DEF Event
  <2> QED
    BY <1>1, <1>4, <2>1, <2>2, RequestPresence DEF GameReady
<1>5. ASSUME NEW c \in Clients, NEW e \in EventType, e.client = c,
             Request(w, c), Dispatch(w, e),
             writing' = writing \/ \E p : writing' = [writing EXCEPT ![w] = Write(c, p)]
      PROVE  PresenceOK'
  BY <1>1, <1>5, RequestPresence DEF Request
<1>6. ASSUME NEW kind \in UpdateEvents \cup AroundEvents, NEW c \in Clients,
             NEW p \in Positions \cup {Absent}
      PROVE  Event(kind, c, p) \in EventType /\ Event(kind, c, p).client = c
  BY EventTyped DEF Event
<1>7. ASSUME NEW c \in Clients, NEW p \in Positions, KeyboardMove(w, c, p) \/ MoveStop(w, c, p)
      PROVE  PresenceOK'
  <2>1. \E kind \in UpdateEvents : Dispatch(w, Event(kind, c, p))
    BY <1>7 DEF KeyboardMove, MoveStop, UpdateEvents
  <2> QED
    BY <1>5, <1>6, <1>7, <2>1 DEF KeyboardMove, MoveStop
<1>8. ASSUME NEW c \in Clients, Jump(w, c) \/ Show(w, c) PROVE PresenceOK'
  <2>1. \E kind \in UpdateEvents \cup AroundEvents, p \in Positions \cup {Absent} :
          Dispatch(w, Event(kind, c, p))
    BY <1>8, HandledPosition DEF Jump, Show, Request, UpdateEvents, AroundEvents
  <2> QED
    BY <1>5, <1>6, <1>8, <2>1 DEF Jump, Show
<1> QED
  BY <1>2, <1>3, <1>4, <1>7, <1>8 DEF Worker

LEMMA QuitPresence ==
    ASSUME InputType, PresenceOK, NEW c \in Clients, Quit(c)
    PROVE  PresenceOK'
<1> SUFFICES ASSUME NEW d \in Clients
             PROVE  /\ client'[d] = "away" => ~ MetByWorker(d)' /\ ~ MetByServer(d)'
                    /\ position'[d] = Absent => client'[d] \in {"away", "gone"}
  BY DEF PresenceOK
<1>1. /\ client' = [client EXCEPT ![c] = "gone"]
      /\ position' = [position EXCEPT ![c] = Absent]
      /\ writing' = writing /\ events' = events /\ UNCHANGED ownVars
  BY DEF Quit, ownVars, Silent
<1>2. MetByServer(d)' = MetByServer(d)
  BY <1>1 DEF MetByServer, ownVars, handlerVars, graphVars
<1>3. d # c => client'[d] = client[d] /\ position'[d] = position[d]
  BY <1>1 DEF InputType
<1>4. d = c => client'[d] = "gone"
  BY <1>1 DEF InputType
<1>5. d # c => MetByWorker(d)' = MetByWorker(d)
  BY <1>1, <1>3 DEF MetByWorker
<1> QED
  BY <1>2, <1>3, <1>4, <1>5 DEF PresenceOK

\* What the event server learns of a client it learns from an event, from a
\* position, or from what it already had.
LEMMA ServerPresence ==
    ASSUME IInv, PresenceOK, EventServer_subscribe
    PROVE  PresenceOK'
<1>1. InputType /\ HandlerInv /\ HandlerType
  BY DEF IInv, HandlerInv
<1>2. client' = client /\ position' = position /\ writing' = writing
  BY DEF EventServer_subscribe, ReceiveUpdate, ReceiveAround, Scan, Enter, ReadStranger,
     Leave, Finish, ReadPosition, ReadEntered, ReadLeft, ReadSession, OthersUnchanged,
     clientVars, workerVars
<1> SUFFICES ASSUME NEW c \in Clients, client[c] = "away"
             PROVE  ~ MetByWorker(c)' /\ ~ MetByServer(c)'
  BY <1>2 DEF PresenceOK
<1>3. ~ MetByWorker(c) /\ ~ MetByServer(c)
  BY DEF PresenceOK
<1>4. ASSUME NEW w \in Workers, TakeEvent(w) PROVE ~ MetByWorker(c)'
  BY <1>1, <1>2, <1>3, <1>4, TakenMet DEF MetByWorker
<1>5. ASSUME events' = events PROVE ~ MetByWorker(c)'
  BY <1>2, <1>3, <1>5 DEF MetByWorker
<1>6. ASSUME NEW w \in Workers, ReceiveUpdate(w)
      PROVE  ~ MetByWorker(c)' /\ ~ MetByServer(c)'
  <2>1. events[w] \in Seq(EventType) /\ events[w] # <<>>
    BY <1>1, <1>6 DEF InputType, ReceiveUpdate, TakeEvent
  <2>2. Head(events[w]).client # c
    <3>1. 1 \in 1..Len(events[w]) /\ Head(events[w]) = events[w][1]
      BY <2>1
    <3> QED
      BY <1>3, <3>1 DEF MetByWorker
  <2> QED
    BY <1>3, <1>4, <1>6, <2>2 DEF ReceiveUpdate, TakeEvent, MetByServer, graphVars
<1>7. ASSUME NEW w \in Workers, ReceiveAround(w)
      PROVE  ~ MetByWorker(c)' /\ ~ MetByServer(c)'
  BY <1>3, <1>4, <1>7 DEF ReceiveAround, MetByServer, handlerVars, graphVars
<1>8. CASE Scan
  <2>1. c \notin listed'
    BY <1>3, <1>8 DEF Scan, MetByWorker
  <2> QED
    BY <1>3, <1>5, <1>8, <2>1 DEF Scan, At, MetByServer, graphVars
<1>9. ASSUME NEW d \in Clients, ReadPosition(d)
      PROVE  ~ MetByWorker(c)' /\ ~ MetByServer(c)'
  <2>1. d # c
    BY <1>3, <1>9 DEF ReadPosition, MetByServer
  <2>2. listed' \subseteq listed /\ inRange' \subseteq inRange \cup {d}
    BY <1>9 DEF ReadPosition
  <2> QED
    BY <1>3, <1>5, <1>9, <2>1, <2>2 DEF ReadPosition, At, MetByServer, graphVars
<1>10. CASE Enter
  <2>1. event.client \in Clients /\ event.client # c /\ c \notin inRange
    BY <1>1, <1>3, <1>10, ClientOfEvent DEF Enter, At, MetByServer
  <2>2. \A d \in Clients : c \notin arcs'[d]
    BY <1>3, <1>10, <2>1 DEF Enter, Link, MetByServer
  <2> QED
    BY <1>3, <1>5, <1>10, <2>1, <2>2 DEF Enter, At, MetByServer
<1>11. CASE Leave
  <2>1. event.client \in Clients /\ event.client # c
    BY <1>1, <1>3, <1>11, ClientOfEvent DEF Leave, At, MetByServer
  <2>2. \A d \in Clients : c \notin arcs'[d]
    BY <1>3, <1>11, <2>1 DEF Leave, Unlink, MetByServer
  <2>3. c \notin unread'
    BY <1>3, <1>11, <2>1 DEF Leave, MetByServer
  <2> QED
    BY <1>3, <1>5, <1>11, <2>1, <2>2, <2>3 DEF Leave, At, MetByServer
<1>12. CASE Finish
  BY <1>3, <1>5, <1>12 DEF Finish, MetByServer, graphVars
<1>13. ASSUME NEW d \in Clients, ReadEntered(d) \/ ReadLeft(d)
       PROVE  ~ MetByWorker(c)' /\ ~ MetByServer(c)'
  BY <1>3, <1>5, <1>13 DEF ReadEntered, ReadLeft, ReadSession, MetByServer, graphVars
<1>14. CASE ReadStranger
  BY <1>3, <1>5, <1>14 DEF ReadStranger, MetByServer, handlerVars, graphVars
<1> QED
  BY <1>6, <1>7, <1>8, <1>9, <1>10, <1>11, <1>12, <1>13, <1>14 DEF EventServer_subscribe

LEMMA StepPresence == IInv /\ PresenceOK /\ [Next]_vars => PresenceOK'
<1> SUFFICES ASSUME IInv, PresenceOK, [Next]_vars PROVE PresenceOK'
  OBVIOUS
<1>1. InputType
  BY DEF IInv
<1>2. CASE UNCHANGED vars
  BY <1>2 DEF PresenceOK, MetByWorker, MetByServer, vars, clientVars, workerVars,
     handlerVars, graphVars
<1> QED
  BY <1>1, <1>2, WorkerPresence, QuitPresence, ServerPresence DEF Next

\* The loop of the event server ends for nobody who has arrived and stays,
\* whatever the workers write and the monitor flushes while it reads: the
\* session it fails to read is that of a client that has quit, or of one that was
\* arriving when its position was read.
THEOREM EndsForChangesOnly == Spec => OnlyChangesEndIt
<1> DEFINE Blamed ==
      \/ pc = "entered" /\ strangers # {} /\ UNCHANGED handlerVars
      \/ \E d \in (listed \ listed') \cup (unread \ unread') : client[d] = "gone"
<1>1. ASSUME IInv, PresenceOK, Next, running, ~ running' PROVE Blamed
  <2>1. ~ UNCHANGED ownVars
    BY <1>1 DEF ownVars
  <2>2. EventServer_subscribe
    BY <1>1, <2>1, WorkerStep, QuitStep DEF Next, OthersStep, IInv
  <2>3. \/ ReadStranger
        \/ \E d \in Clients : /\ position[d] = Absent
                              /\ \/ d \in listed /\ listed' = listed \ {d}
                                 \/ d \in unread /\ unread' = unread \ {d}
    BY <1>1, <2>2 DEF EventServer_subscribe, ReceiveUpdate, ReceiveAround, Scan, Enter,
       Leave, Finish, ReadPosition, ReadEntered, ReadLeft, ReadSession
  <2>4. ASSUME NEW d \in Clients, d \in listed \cup unread, position[d] = Absent
        PROVE  client[d] = "gone"
    BY <1>1, <2>4 DEF PresenceOK, MetByServer
  <2>5. \A d \in Clients :
           /\ d \in listed /\ listed' = listed \ {d} => d \in listed \ listed'
           /\ d \in unread /\ unread' = unread \ {d} => d \in unread \ unread'
    OBVIOUS
  <2> QED
    BY <2>3, <2>4, <2>5 DEF ReadStranger, At
<1>2. IInv /\ PresenceOK /\ [Next]_vars => [running /\ ~ running' => Blamed]_vars
  BY <1>1
<1>3. Spec => []PresenceOK
  BY InitPresence, StepPresence, Invariance, PTL DEF Spec
<1> QED
  BY <1>2, <1>3, Invariance, PTL DEF Spec, OnlyChangesEndIt
-----------------------------------------------------------------------------
(* How the handling of an event comes to its end *)

\* At most so many steps are left until the next event: the three loops read
\* what is left of their lists.
StepsLeft(place, toList, toRead) ==
    CASE place = "scan" -> 3 * Cardinality(Clients) + 5
      [] place = "positions" -> Cardinality(toList) + 2 * Cardinality(Clients) + 4
      [] place = "entered" -> Cardinality(toRead) + Cardinality(Clients) + 3
      [] place = "left" -> Cardinality(toRead) + 1
      [] OTHER -> 0

HandlerLeft == StepsLeft(pc, listed, unread)

\* The event that is handled is one that Finish has a packet for.
KindOK == pc # "receive" => event.kind \in UpdateEvents

LEMMA ListSize ==
    ASSUME IsFiniteSet(Clients), NEW S \in SUBSET Clients
    PROVE  /\ Cardinality(Clients) \in Nat /\ Cardinality(S) \in Nat
           /\ Cardinality(S) <= Cardinality(Clients)
           /\ \A d \in S : Cardinality(S \ {d}) = Cardinality(S) - 1
<1>1. IsFiniteSet(S) /\ Cardinality(S) <= Cardinality(Clients)
  BY FS_Subset
<1> QED
  BY <1>1, FS_CardinalityType, FS_RemoveElement

\* Every stage has fewer steps left than the one before it.
LEMMA StagesShrink ==
    ASSUME IsFiniteSet(Clients), NEW S \in SUBSET Clients, NEW T \in SUBSET Clients,
           NEW U \in SUBSET Clients
    PROVE  /\ StepsLeft("positions", S, T) < StepsLeft("scan", U, T)
           /\ StepsLeft("entered", S, T) < StepsLeft("positions", S, U)
           /\ StepsLeft("left", S, T) < StepsLeft("entered", S, U)
           /\ StepsLeft("receive", S, T) < StepsLeft("left", S, T)
           /\ \A d \in S : StepsLeft("positions", S \ {d}, T) < StepsLeft("positions", S, T)
           /\ \A d \in T : \A place \in {"entered", "left"} :
                StepsLeft(place, S, T \ {d}) < StepsLeft(place, S, T)
<1> DEFINE n == Cardinality(Clients)
           s == Cardinality(S)
           t == Cardinality(T)
           u == Cardinality(U)
<1>1. /\ n \in Nat /\ s \in 0..n /\ t \in 0..n /\ u \in 0..n
      /\ \A d \in S : Cardinality(S \ {d}) = s - 1
      /\ \A d \in T : Cardinality(T \ {d}) = t - 1
  BY ListSize
<1>2. /\ StepsLeft("scan", U, T) = 3 * n + 5
      /\ StepsLeft("positions", S, T) = s + 2 * n + 4
      /\ StepsLeft("positions", S, U) = s + 2 * n + 4
      /\ StepsLeft("entered", S, T) = t + n + 3
      /\ StepsLeft("entered", S, U) = u + n + 3
      /\ StepsLeft("left", S, T) = t + 1
      /\ StepsLeft("receive", S, T) = 0
      /\ \A d \in S : StepsLeft("positions", S \ {d}, T) = Cardinality(S \ {d}) + 2 * n + 4
      /\ \A d \in T : /\ StepsLeft("entered", S, T \ {d}) = Cardinality(T \ {d}) + n + 3
                      /\ StepsLeft("left", S, T \ {d}) = Cardinality(T \ {d}) + 1
  BY DEF StepsLeft
<1> HIDE DEF n, s, t, u
<1>3. ASSUME NEW d \in S
      PROVE  StepsLeft("positions", S \ {d}, T) < StepsLeft("positions", S, T)
  <2>1. s \in Nat /\ n \in Nat
    BY <1>1
  <2>2. /\ StepsLeft("positions", S \ {d}, T) = s - 1 + 2 * n + 4
        /\ StepsLeft("positions", S, T) = s + 2 * n + 4
    BY <1>1, <1>2
  <2> QED
    BY <2>1, <2>2
<1>4. ASSUME NEW d \in T
      PROVE  /\ StepsLeft("entered", S, T \ {d}) < StepsLeft("entered", S, T)
             /\ StepsLeft("left", S, T \ {d}) < StepsLeft("left", S, T)
  <2>1. t \in Nat /\ n \in Nat
    BY <1>1
  <2>2. /\ StepsLeft("entered", S, T \ {d}) = t - 1 + n + 3
        /\ StepsLeft("entered", S, T) = t + n + 3
        /\ StepsLeft("left", S, T \ {d}) = t - 1 + 1
        /\ StepsLeft("left", S, T) = t + 1
    BY <1>1, <1>2
  <2> QED
    BY <2>1, <2>2
<1>5. /\ StepsLeft("positions", S, T) < StepsLeft("scan", U, T)
      /\ StepsLeft("entered", S, T) < StepsLeft("positions", S, U)
      /\ StepsLeft("left", S, T) < StepsLeft("entered", S, U)
      /\ StepsLeft("receive", S, T) < StepsLeft("left", S, T)
  <2>1. n \in Nat /\ s \in 0..n /\ t \in 0..n /\ u \in 0..n
    BY <1>1
  <2> QED
    BY <1>2, <2>1
<1> QED
  BY <1>3, <1>4, <1>5

LEMMA HandlerLeftNat ==
    ASSUME IsFiniteSet(Clients), HandlerType
    PROVE  HandlerLeft \in Nat /\ (HandlerLeft = 0 <=> pc = "receive")
<1>1. /\ Cardinality(Clients) \in Nat /\ Cardinality(listed) \in Nat /\ Cardinality(unread) \in Nat
      /\ pc \in Places
  BY ListSize DEF HandlerType
<1> QED
  BY <1>1 DEF HandlerLeft, StepsLeft, Places

\* A step of the event server takes an event, ends its loop or brings the
\* handling of its event closer to the end; nobody else's step matters to it.
Advances ==
    /\ EventServer_subscribe =>
          \/ \E w \in Workers : ReceiveUpdate(w) \/ ReceiveAround(w)
          \/ ~ running'
          \/ HandlerLeft' < HandlerLeft
    /\ ~ EventServer_subscribe => HandlerLeft' = HandlerLeft

LEMMA StepAdvances ==
    ASSUME IsFiniteSet(Clients), IInv, [Next]_vars
    PROVE  Advances
<1>1. InputType /\ HandlerInv /\ listed \subseteq Clients /\ unread \subseteq Clients
  BY DEF IInv, HandlerInv, HandlerType
<1>2. /\ arcs \in [Clients -> SUBSET Clients] /\ inRange \subseteq Clients
      /\ pc # "receive" => event.client \in Clients
  BY <1>1, ClientOfEvent DEF HandlerInv, HandlerType
<1>3. ASSUME OthersStep PROVE HandlerLeft' = HandlerLeft
  BY <1>3 DEF OthersStep, ownVars, handlerVars, HandlerLeft
<1>4. ASSUME ~ EventServer_subscribe PROVE HandlerLeft' = HandlerLeft
  <2>1. CASE UNCHANGED vars
    BY <2>1 DEF vars, handlerVars, HandlerLeft
  <2>2. CASE \E w \in Workers : Worker(w)
    BY <1>1, <1>3, <2>2, WorkerStep
  <2>3. CASE \E c \in Clients : Quit(c)
    BY <1>1, <1>3, <2>3, QuitStep
  <2> QED
    BY <1>4, <2>1, <2>2, <2>3 DEF Next
<1>5. ASSUME Scan PROVE HandlerLeft' < HandlerLeft
  <2>1. /\ listed' \subseteq Clients /\ pc = "scan" /\ pc' = "positions" /\ unread' = unread
    BY <1>5 DEF Scan, At
  <2> QED
    BY <1>1, <2>1, StagesShrink DEF HandlerLeft
<1>6. ASSUME NEW d \in Clients, ReadPosition(d) PROVE HandlerLeft' < HandlerLeft
  BY <1>1, <1>6, StagesShrink DEF ReadPosition, At, HandlerLeft
<1>7. ASSUME Enter PROVE HandlerLeft' < HandlerLeft
  <2>1. unread' \subseteq Clients /\ pc = "positions" /\ pc' = "entered" /\ listed' = listed
    BY <1>2, <1>7 DEF Enter, At
  <2> QED
    BY <1>1, <2>1, StagesShrink DEF HandlerLeft
<1>8. ASSUME NEW d \in Clients, ReadEntered(d) \/ ReadLeft(d) PROVE HandlerLeft' < HandlerLeft
  BY <1>1, <1>8, StagesShrink DEF ReadEntered, ReadLeft, ReadSession, At, HandlerLeft
<1>9. ASSUME Leave PROVE HandlerLeft' < HandlerLeft
  <2>1. unread' \subseteq Clients /\ pc = "entered" /\ pc' = "left" /\ listed' = listed
    BY <1>2, <1>9 DEF Leave, At
  <2> QED
    BY <1>1, <2>1, StagesShrink DEF HandlerLeft
<1>10. ASSUME Finish PROVE HandlerLeft' < HandlerLeft
  BY <1>1, <1>10, StagesShrink DEF Finish, At, HandlerLeft
<1>11. ASSUME EventServer_subscribe
       PROVE  \/ \E w \in Workers : ReceiveUpdate(w) \/ ReceiveAround(w)
              \/ ~ running'
              \/ HandlerLeft' < HandlerLeft
  BY <1>5, <1>6, <1>7, <1>8, <1>9, <1>10, <1>11 DEF EventServer_subscribe, ReadStranger
<1> QED
  BY <1>4, <1>11 DEF Advances

LEMMA StepKind ==
    ASSUME IInv, KindOK, [Next]_vars
    PROVE  KindOK'
<1>1. InputType
  BY DEF IInv
<1>2. CASE UNCHANGED vars
  BY <1>2 DEF vars, handlerVars, KindOK
<1>3. CASE (\E w \in Workers : Worker(w)) \/ \E c \in Clients : Quit(c)
  <2>1. OthersStep
    BY <1>1, <1>3, WorkerStep, QuitStep
  <2> QED
    BY <2>1 DEF OthersStep, ownVars, handlerVars, KindOK
<1>4. CASE EventServer_subscribe
  BY <1>4 DEF EventServer_subscribe, ReceiveUpdate, ReceiveAround, TakeEvent, Scan, ReadPosition,
     Enter, ReadEntered, ReadLeft, ReadSession, ReadStranger, Leave, Finish, At, handlerVars, KindOK
<1> QED
  BY <1>2, <1>3, <1>4 DEF Next

\* The event server can take its next step: the guards of its handler.
CanHandle ==
    \/ pc \in {"scan", "positions", "entered"}
    \/ pc = "left" /\ (unread # {} \/ event.kind \in UpdateEvents)

\* However the workers write and the monitors flush while it reads, the event
\* server is through with an event after a bounded number of its own steps, and
\* there is a next step until it is or its loop ends: with the fairness of its
\* thread, what EventsAreHandled needs.
THEOREM HandlerEnds ==
    ASSUME IsFiniteSet(Clients)
    PROVE  Spec => /\ [](HandlerLeft \in Nat /\ (HandlerLeft = 0 <=> pc = "receive"))
                   /\ [](pc = "receive" \/ CanHandle)
                   /\ [][Advances]_vars
<1> DEFINE Bounded == HandlerLeft \in Nat /\ (HandlerLeft = 0 <=> pc = "receive")
           GoesOn == pc = "receive" \/ CanHandle
<1>1. IInv => Bounded
  BY HandlerLeftNat DEF IInv, HandlerInv
<1>2. IInv /\ [Next]_vars => [Advances]_vars
  BY StepAdvances
<1>3. Init => KindOK
  BY DEF Init, KindOK
<1>4. IInv /\ KindOK /\ [Next]_vars => KindOK'
  BY StepKind
<1>5. IInv /\ KindOK => GoesOn
  BY DEF IInv, HandlerInv, HandlerType, Places, KindOK, CanHandle
<1> HIDE DEF Bounded, GoesOn
<1>6. Spec => []Bounded /\ []GoesOn /\ [][Advances]_vars
  BY <1>1, <1>2, <1>3, <1>4, <1>5, Invariance, PTL DEF Spec
<1> QED
  BY <1>6 DEF Bounded, GoesOn
=============================================================================
