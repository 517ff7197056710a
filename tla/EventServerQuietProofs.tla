---------------------- MODULE EventServerQuietProofs ----------------------
(***************************************************************************)
(* When everything has been handled, the graph links exactly the players   *)
(* that are close to each other, seen from one of the two.                 *)
(*                                                                         *)
(* This holds of a zone with one worker: it writes a session before it     *)
(* handles the next packet, so what is read of a player with no event left *)
(* is where the player will be.  The proof speaks of the position in Redis *)
(* once the worker has written (Final), of the one the player has told     *)
(* last, and of the events that will still compare it with the others      *)
(* (Queued, Handled).                                                      *)
(***************************************************************************)
EXTENDS EventServerProofs

\* The position of x in Redis when w has written the session it holds
Final(w, x) ==
    IF writing[w] # Absent /\ writing[w].client = x THEN writing[w].position
    ELSE position[x]

Updates(e, x) == e.kind \in UpdateEvents /\ e.client = x

\* An event that will compare x with the others has been dispatched,
Queued(w, x) == \E i \in 1..Len(events[w]) : Updates(events[w][i], x)

\* or is being handled.
Handled(x) == pc # "receive" /\ event.client = x

Playing(x) == client[x] = "playing"

\* d will be within range of where c has told it is.
Near(w, c, d) == Final(w, d) \in Around[told[c]]

\* The last event of a player carries the position it has told last.
LastEventIsTold(w) ==
    \A c \in Clients : \A i \in 1..Len(events[w]) :
        /\ Playing(c)
        /\ Updates(events[w][i], c)
        /\ \A j \in 1..Len(events[w]) : i < j => ~ Updates(events[w][j], c)
        => events[w][i].position = told[c]

HandledEventIsTold(w) ==
    \A c \in Clients :
        Playing(c) /\ Handled(c) /\ ~ Queued(w, c) => event.position = told[c]

\* While the worker writes the session of a player, the event about it is the
\* last one that anybody has to handle.
WrittenIsLast(w) ==
    writing[w] # Absent /\ Playing(writing[w].client) =>
        IF events[w] = <<>> THEN pc = "receive" \/ Handled(writing[w].client)
        ELSE Updates(events[w][Len(events[w])], writing[w].client)

\* What the handler has read of players who have no further event is where they
\* will be.
ReadIsFinal(w) ==
    \A c, d \in Clients :
        /\ Playing(c) /\ Playing(d) /\ c # d
        /\ Handled(c) /\ ~ Queued(w, c) /\ ~ Queued(w, d)
        => \/ pc = "scan"
           \/ pc = "positions" /\ d \in listed
           \/ d \in inRange <=> Near(w, c, d)

\* Nobody is found before its position is read.
FoundOnce ==
    /\ pc = "scan" => inRange = {}
    /\ pc = "positions" => listed \cap inRange = {}

\* The graph is right about players that no event will compare any more.
SettledOK(w) ==
    \A c, d \in Clients :
        /\ Playing(c) /\ Playing(d) /\ c # d
        /\ ~ Queued(w, c) /\ ~ Handled(c) /\ ~ Queued(w, d) /\ ~ Handled(d)
        => \/ d \in arcs[c] <=> Near(w, c, d)
           \/ c \in arcs[d] <=> Near(w, d, c)

QuietInv(w) ==
    /\ LastEventIsTold(w)
    /\ HandledEventIsTold(w)
    /\ WrittenIsLast(w)
    /\ ReadIsFinal(w)
    /\ FoundOnce
    /\ SettledOK(w)


LEMMA InitQuiet ==
    ASSUME NEW w \in Workers, Init
    PROVE  QuietInv(w)
<1>1. events[w] = <<>> /\ writing[w] = Absent /\ pc = "receive" /\ inRange = {}
      /\ \A c \in Clients : ~ Playing(c)
  BY DEF Init, Playing
<1> QED
  BY <1>1 DEF QuietInv, LastEventIsTold, HandledEventIsTold, WrittenIsLast,
     ReadIsFinal, FoundOnce, SettledOK

(***************************************************************************)
(* Steps of the worker and of the clients                                  *)
(***************************************************************************)
LEMMA Appended ==
    ASSUME InputType, NEW w \in Workers, NEW e \in EventType, Dispatch(w, e)
    PROVE  /\ Len(events[w]) \in Nat
           /\ Len(events'[w]) = Len(events[w]) + 1
           /\ \A i \in 1..Len(events[w]) : events'[w][i] = events[w][i]
           /\ events'[w][Len(events'[w])] = e
           /\ events'[w] # <<>>
<1>1. events[w] \in Seq(EventType)
  BY DEF InputType
<1>2. events'[w] = Append(events[w], e)
  BY DEF InputType, Dispatch
<1> QED
  BY <1>1, <1>2

\* Nothing is dispatched, nobody begins to play or to move.
LEMMA CalmStep ==
    ASSUME InputType, NEW w \in Workers, QuietInv(w), UNCHANGED ownVars, events' = events, told' = told,
           \A x \in Clients : Playing(x)' => Playing(x) /\ Final(w, x)' = Final(w, x),
           \/ writing'[w] = writing[w]
           \/ writing'[w] = Absent
           \/ ~ Playing(writing[w].client)'
    PROVE  QuietInv(w)'
<1>1. /\ pc' = pc /\ event' = event /\ inRange' = inRange /\ listed' = listed
      /\ arcs' = arcs
  BY DEF ownVars, handlerVars, graphVars
<1>2. \A x : Queued(w, x)' = Queued(w, x)
  BY DEF Queued
<1>3. \A x : Handled(x)' = Handled(x)
  BY <1>1 DEF Handled
<1>4. \A c, d \in Clients :
        Playing(c)' /\ Playing(d)' => Near(w, c, d)' = Near(w, c, d)
  BY DEF Near
<1>5. LastEventIsTold(w)'
  BY DEF QuietInv, LastEventIsTold
<1>6. HandledEventIsTold(w)'
  BY <1>1, <1>2, <1>3 DEF QuietInv, HandledEventIsTold
<1>7. WrittenIsLast(w)'
  <2>1. writing[w] # Absent => writing[w].client \in Clients
    BY DEF InputType
  <2>2. writing'[w] # Absent /\ Playing(writing[w].client)' =>
            writing'[w] = writing[w] /\ Playing(writing[w].client)
    BY <2>1
  <2> QED
    BY <1>1, <1>3, <2>2 DEF QuietInv, WrittenIsLast
<1>8. ReadIsFinal(w)'
  BY <1>1, <1>2, <1>3, <1>4 DEF QuietInv, ReadIsFinal
<1>9. FoundOnce'
  BY <1>1 DEF QuietInv, FoundOnce
<1>10. SettledOK(w)'
  BY <1>1, <1>2, <1>3, <1>4 DEF QuietInv, SettledOK
<1> QED
  BY <1>5, <1>6, <1>7, <1>8, <1>9, <1>10 DEF QuietInv

\* An event about c is dispatched, and what it carries is told.
LEMMA UpdateDispatched ==
    ASSUME InputType, ToldType, NEW w \in Workers, QuietInv(w), UNCHANGED ownVars,
           NEW c \in Clients, NEW e \in EventType, Dispatch(w, e), Updates(e, c),
           \A x \in Clients \ {c} : /\ Playing(x)' = Playing(x)
                                    /\ Final(w, x)' = Final(w, x),
           writing'[w] = Absent \/ writing'[w].client = c
    PROVE  QuietInv(w)'
<1>1. /\ pc' = pc /\ event' = event /\ inRange' = inRange /\ listed' = listed
      /\ arcs' = arcs
  BY DEF ownVars, handlerVars, graphVars
<1>2. /\ Len(events[w]) \in Nat
      /\ Len(events'[w]) = Len(events[w]) + 1
      /\ \A i \in 1..Len(events[w]) : events'[w][i] = events[w][i]
      /\ events'[w][Len(events'[w])] = e
      /\ events'[w] # <<>>
  BY Appended
<1>3. Queued(w, c)'
  BY <1>2 DEF Queued
<1>4. \A x : Queued(w, x) => Queued(w, x)'
  BY <1>2 DEF Queued
<1>5. \A x : Handled(x)' = Handled(x)
  BY <1>1 DEF Handled
<1>6. /\ told'[c] = e.position
      /\ \A x \in Clients \ {c} : told'[x] = told[x]
      /\ \A x, y \in Clients \ {c} : Near(w, x, y)' = Near(w, x, y)
  <2>1. told' = [told EXCEPT ![c] = e.position]
    BY DEF Dispatch, Updates
  <2> QED
    BY <2>1 DEF ToldType, Near
<1>7. LastEventIsTold(w)'
  <2> SUFFICES ASSUME NEW x \in Clients, NEW i \in 1..Len(events'[w]),
                      Playing(x)', Updates(events'[w][i], x),
                      \A j \in 1..Len(events'[w]) : i < j => ~ Updates(events'[w][j], x)
               PROVE  events'[w][i].position = told'[x]
    BY DEF LastEventIsTold
  <2>1. CASE x = c
    BY <1>2, <1>6, <2>1
  <2>2. CASE x # c
    <3>1. i \in 1..Len(events[w])
      BY <1>2, <2>2 DEF Updates
    <3>2. \A j \in 1..Len(events[w]) : i < j => ~ Updates(events[w][j], x)
      BY <1>2
    <3> QED
      BY <1>2, <1>6, <2>2, <3>1, <3>2 DEF QuietInv, LastEventIsTold
  <2> QED
    BY <2>1, <2>2
<1>8. HandledEventIsTold(w)'
  BY <1>1, <1>3, <1>4, <1>5, <1>6 DEF QuietInv, HandledEventIsTold
<1>9. WrittenIsLast(w)'
  BY <1>2 DEF WrittenIsLast
<1>10. ReadIsFinal(w)'
  BY <1>1, <1>3, <1>4, <1>5, <1>6 DEF QuietInv, ReadIsFinal
<1>11. FoundOnce'
  BY <1>1 DEF QuietInv, FoundOnce
<1>12. SettledOK(w)'
  BY <1>1, <1>3, <1>4, <1>5, <1>6 DEF QuietInv, SettledOK
<1> QED
  BY <1>7, <1>8, <1>9, <1>10, <1>11, <1>12 DEF QuietInv

\* An event is dispatched that only looks at the graph.
LEMMA AroundDispatched ==
    ASSUME InputType, NEW w \in Workers, QuietInv(w), UNCHANGED ownVars,
           NEW e \in EventType, Dispatch(w, e), e.kind \notin UpdateEvents,
           client' = client, position' = position, writing' = writing, writing[w] = Absent
    PROVE  QuietInv(w)'
<1>1. /\ pc' = pc /\ event' = event /\ inRange' = inRange /\ listed' = listed
      /\ arcs' = arcs
  BY DEF ownVars, handlerVars, graphVars
<1>2. /\ Len(events[w]) \in Nat
      /\ Len(events'[w]) = Len(events[w]) + 1
      /\ \A i \in 1..Len(events[w]) : events'[w][i] = events[w][i]
      /\ events'[w][Len(events'[w])] = e
  BY Appended
<1>3. \A x : Queued(w, x)' = Queued(w, x)
  <2> TAKE x
  <2>1. ASSUME NEW i \in 1..Len(events'[w]), Updates(events'[w][i], x)
        PROVE  Queued(w, x)
    <3>1. i \in 1..Len(events[w])
      BY <1>2, <2>1 DEF Updates
    <3> QED
      BY <1>2, <2>1, <3>1 DEF Queued
  <2>2. Queued(w, x) => Queued(w, x)'
    BY <1>2 DEF Queued
  <2> QED
    BY <2>1, <2>2 DEF Queued
<1>4. \A x : Handled(x)' = Handled(x) /\ Playing(x)' = Playing(x)
              /\ Final(w, x)' = Final(w, x) /\ told' = told
  BY <1>1 DEF Handled, Playing, Final, Dispatch
<1>5. \A c, d \in Clients : Near(w, c, d)' = Near(w, c, d)
  BY <1>4 DEF Near
<1>6. LastEventIsTold(w)'
  <2> SUFFICES ASSUME NEW x \in Clients, NEW i \in 1..Len(events'[w]),
                      Playing(x), Updates(events'[w][i], x),
                      \A j \in 1..Len(events'[w]) : i < j => ~ Updates(events'[w][j], x)
               PROVE  events'[w][i].position = told[x]
    BY <1>4 DEF LastEventIsTold
  <2>1. i \in 1..Len(events[w])
    BY <1>2 DEF Updates
  <2>2. \A j \in 1..Len(events[w]) : i < j => ~ Updates(events[w][j], x)
    BY <1>2
  <2> QED
    BY <1>2, <2>1, <2>2 DEF QuietInv, LastEventIsTold
<1>7. HandledEventIsTold(w)'
  BY <1>1, <1>3, <1>4 DEF QuietInv, HandledEventIsTold
<1>8. WrittenIsLast(w)'
  BY DEF WrittenIsLast
<1>9. ReadIsFinal(w)'
  BY <1>1, <1>3, <1>4, <1>5 DEF QuietInv, ReadIsFinal
<1>10. FoundOnce'
  BY <1>1 DEF QuietInv, FoundOnce
<1>11. SettledOK(w)'
  BY <1>1, <1>3, <1>4, <1>5 DEF QuietInv, SettledOK
<1> QED
  BY <1>6, <1>7, <1>8, <1>9, <1>10, <1>11 DEF QuietInv

LEMMA WorkerQuiet ==
    ASSUME IInv, ToldType, PresenceOK, NEW w \in Workers, QuietInv(w), Worker(w)
    PROVE  QuietInv(w)'
<1>1. InputType /\ UNCHANGED ownVars
  BY WorkerStep DEF IInv, OthersStep
<1>2. \A c \in Clients, p \in Positions : Write(c, p) # Absent
  BY AbsentAssumption DEF Write
<1>3. ASSUME NEW c \in Clients, NEW p \in Positions, Connect(w, c, p)
      PROVE  QuietInv(w)'
  <2>1. /\ client[c] = "away" /\ writing[w] = Absent
        /\ client' = [client EXCEPT ![c] = "connecting"]
        /\ position' = [position EXCEPT ![c] = p]
        /\ writing' = [writing EXCEPT ![w] = Write(c, Start)]
        /\ events' = events /\ told' = told
    BY <1>3 DEF Connect
  <2>2. writing'[w] = Write(c, Start) /\ ~ Playing(c)'
    BY <1>1, <2>1 DEF InputType, Playing
  <2>3. writing'[w].client = c
    BY <2>2 DEF Write
  <2>4. \A x \in Clients \ {c} : Playing(x)' = Playing(x) /\ Final(w, x)' = Final(w, x)
    BY <1>1, <2>1, <2>3 DEF InputType, Playing, Final
  <2> QED
    BY <1>1, <2>1, <2>2, <2>3, <2>4, CalmStep
<1>4. ASSUME NEW c \in Clients, GameReady(w, c) PROVE QuietInv(w)'
  <2> DEFINE e == Event("enterPc", c, position[c])
  <2>1. /\ writing[w] = Absent /\ Dispatch(w, e) /\ position' = position
        /\ client' = [client EXCEPT ![c] = "playing"]
        /\ writing' = [writing EXCEPT ![w] = Write(c, position[c])]
    BY <1>4 DEF GameReady, Handling
  <2>2. position[c] \in Positions
    BY <1>1, <1>4, HandledPosition DEF GameReady
  <2>3. e \in EventType /\ Updates(e, c)
    BY <2>2, EventTyped DEF UpdateEvents, Updates, Event
  <2>4. writing'[w].client = c /\ writing'[w].position = position[c]
    BY <1>1, <2>1 DEF InputType, Write
  <2>5. \A x \in Clients \ {c} : Playing(x)' = Playing(x) /\ Final(w, x)' = Final(w, x)
    BY <1>1, <2>1, <2>4 DEF InputType, Playing, Final
  <2> QED
    BY <1>1, <2>1, <2>3, <2>4, <2>5, UpdateDispatched
<1>5. ASSUME NEW c \in Clients, NEW p \in Positions, KeyboardMove(w, c, p)
      PROVE  QuietInv(w)'
  <2> DEFINE e == Event("commanderMove", c, p)
  <2>1. /\ writing[w] = Absent /\ Dispatch(w, e) /\ position' = position
        /\ client' = client /\ writing' = [writing EXCEPT ![w] = Write(c, p)]
    BY <1>5 DEF KeyboardMove, Request, Handling
  <2>2. e \in EventType /\ Updates(e, c)
    BY EventTyped DEF UpdateEvents, Updates, Event
  <2>3. writing'[w] # Absent /\ writing'[w].client = c /\ writing'[w].position = p
    BY <1>1, <1>2, <2>1 DEF InputType, Write
  <2>4. \A x \in Clients \ {c} : Playing(x)' = Playing(x) /\ Final(w, x)' = Final(w, x)
    BY <2>1, <2>3 DEF Playing, Final
  <2> QED
    BY <1>1, <2>1, <2>2, <2>3, <2>4, UpdateDispatched
<1>6. ASSUME NEW c \in Clients, NEW kind \in UpdateEvents, NEW p \in Positions,
             Request(w, c), Dispatch(w, Event(kind, c, p)), writing' = writing
      PROVE  QuietInv(w)'
  <2> DEFINE e == Event(kind, c, p)
  <2>1. writing[w] = Absent /\ position' = position /\ client' = client
    BY <1>6 DEF Request, Handling
  <2>2. e \in EventType /\ Updates(e, c)
    BY EventTyped DEF Updates, Event
  <2>3. \A x : Playing(x)' = Playing(x) /\ Final(w, x)' = Final(w, x)
    BY <1>6, <2>1 DEF Playing, Final
  <2> QED
    BY <1>1, <1>6, <2>1, <2>2, <2>3, UpdateDispatched
<1>7. ASSUME NEW c \in Clients, NEW p \in Positions, MoveStop(w, c, p)
      PROVE  QuietInv(w)'
  BY <1>6, <1>7 DEF MoveStop, UpdateEvents
<1>8. ASSUME NEW c \in Clients, Jump(w, c) PROVE QuietInv(w)'
  <2>1. position[c] \in Positions
    BY <1>1, <1>8, HandledPosition DEF Jump, Request
  <2> QED
    BY <1>6, <1>8, <2>1 DEF Jump, UpdateEvents
<1>9. ASSUME NEW c \in Clients, Show(w, c) PROVE QuietInv(w)'
  <2>1. Event("chat", c, Absent) \in EventType
    BY EventTyped DEF AroundEvents
  <2>2. Event("chat", c, Absent).kind \notin UpdateEvents
    BY DEF Event, UpdateEvents
  <2> QED
    BY <1>1, <1>9, <2>1, <2>2, AroundDispatched DEF Show, Request, Handling
<1>10. CASE Update(w)
  <2> DEFINE y == writing[w].client
  <2>1. /\ writing[w] # Absent /\ events' = events /\ told' = told
        /\ position' = [position EXCEPT ![y] = writing[w].position]
        /\ client' = [client EXCEPT ![y] = IF OldIdentity(y) THEN "loading" ELSE client[y]]
        /\ writing' = [writing EXCEPT ![w] = Absent]
    BY <1>10 DEF Update
  <2>2. writing[w] \in [client : Clients, position : Positions] /\ writing'[w] = Absent
    BY <1>1, <2>1 DEF InputType
  <2>3. \A x \in Clients : Final(w, x)' = Final(w, x)
    BY <1>1, <2>1, <2>2 DEF InputType, Final
  <2>4. \A x \in Clients : Playing(x)' => Playing(x)
    BY <1>1, <2>1, <2>2 DEF InputType, Playing
  <2> QED
    BY <1>1, <2>1, <2>2, <2>3, <2>4, CalmStep
<1> QED
  BY <1>3, <1>4, <1>5, <1>7, <1>8, <1>9, <1>10 DEF Worker

LEMMA QuitQuiet ==
    ASSUME IInv, NEW w \in Workers, QuietInv(w), NEW c \in Clients, Quit(c)
    PROVE  QuietInv(w)'
<1>1. /\ InputType /\ UNCHANGED ownVars
      /\ client' = [client EXCEPT ![c] = "gone"]
      /\ position' = [position EXCEPT ![c] = Absent]
      /\ writing' = writing /\ events' = events /\ told' = told
  BY DEF Quit, ownVars, Silent, IInv
<1>2. \A x \in Clients : Playing(x)' => x # c /\ Playing(x)
  BY <1>1 DEF InputType, Playing
<1>3. \A x \in Clients \ {c} : Final(w, x)' = Final(w, x)
  BY <1>1 DEF InputType, Final
<1> QED
  BY <1>1, <1>2, <1>3, CalmStep

(***************************************************************************)
(* Steps of the event server                                               *)
(***************************************************************************)
LEMMA ServerLeavesRedis ==
    ASSUME EventServer_subscribe
    PROVE  client' = client /\ position' = position /\ writing' = writing /\ told' = told
BY DEF EventServer_subscribe, ReceiveUpdate, ReceiveAround, TakeEvent, Scan, Enter, ReadStranger,
   Leave, Finish, ReadPosition, ReadEntered, ReadLeft, ReadSession, OthersUnchanged,
   clientVars, workerVars

LEMMA SameFinal ==
    ASSUME client' = client, position' = position, writing' = writing, told' = told,
           NEW w
    PROVE  /\ \A x : Playing(x)' = Playing(x) /\ Final(w, x)' = Final(w, x)
           /\ \A x, y : Near(w, x, y)' = Near(w, x, y)
<1>1. \A x : Playing(x)' = Playing(x) /\ Final(w, x)' = Final(w, x)
  BY DEF Playing, Final
<1> QED
  BY <1>1 DEF Near

\* A step within the handler of an event changes the arcs of its client only.
LEMMA HandlingStep ==
    ASSUME NEW w \in Workers, QuietInv(w),
           client' = client, position' = position, writing' = writing, told' = told,
           events' = events, event' = event, pc # "receive", pc' # "receive",
           \A c, d \in Clients :
               ~ Handled(c) /\ ~ Handled(d) => (d \in arcs'[c] <=> d \in arcs[c]),
           FoundOnce', ReadIsFinal(w)'
    PROVE  QuietInv(w)'
<1>1. /\ \A x : Playing(x)' = Playing(x) /\ Final(w, x)' = Final(w, x)
      /\ \A x, y : Near(w, x, y)' = Near(w, x, y)
  BY SameFinal
<1>2. \A x : Queued(w, x)' = Queued(w, x) /\ Handled(x)' = Handled(x)
  BY DEF Queued, Handled
<1>3. LastEventIsTold(w)' /\ HandledEventIsTold(w)' /\ WrittenIsLast(w)'
  BY <1>1, <1>2 DEF QuietInv, LastEventIsTold, HandledEventIsTold, WrittenIsLast
<1>4. SettledOK(w)'
  BY <1>1, <1>2 DEF QuietInv, SettledOK
<1> QED
  BY <1>3, <1>4 DEF QuietInv

\* A step that reads a session after the lists have been compared
LEMMA ReadingStep ==
    ASSUME NEW w \in Workers, QuietInv(w),
           client' = client, position' = position, writing' = writing, told' = told,
           events' = events, event' = event, arcs' = arcs, inRange' = inRange,
           pc = "entered" \/ pc = "left", pc' = "entered" \/ pc' = "left"
    PROVE  QuietInv(w)'
<1>1. /\ \A x : Playing(x)' = Playing(x)
      /\ \A x, y : Near(w, x, y)' = Near(w, x, y)
  BY SameFinal
<1>2. \A x : Queued(w, x)' = Queued(w, x) /\ Handled(x)' = Handled(x)
  BY DEF Queued, Handled
<1>3. ReadIsFinal(w)'
  BY <1>1, <1>2 DEF QuietInv, ReadIsFinal
<1>4. FoundOnce'
  BY DEF FoundOnce
<1> QED
  BY <1>3, <1>4, HandlingStep

\* The oldest event is taken, and what follows keeps its order.
LEMMA Taken ==
    ASSUME InputType, NEW w \in Workers, TakeEvent(w)
    PROVE  /\ Len(events[w]) \in Nat \ {0}
           /\ Len(events'[w]) = Len(events[w]) - 1
           /\ \A i \in 1..Len(events'[w]) : events'[w][i] = events[w][i + 1]
           /\ Head(events[w]) = events[w][1]
           /\ events'[w] = <<>> <=> Len(events[w]) = 1
<1>1. events[w] \in Seq(EventType) /\ events[w] # <<>>
  BY DEF InputType, TakeEvent
<1>2. events'[w] = Tail(events[w])
  BY DEF InputType, TakeEvent
<1>3. Len(events[w]) \in Nat \ {0} /\ Len(events'[w]) = Len(events[w]) - 1
  BY <1>1, <1>2
<1>4. \A i \in 1..Len(events'[w]) : events'[w][i] = events[w][i + 1]
  BY <1>1, <1>2, <1>3
<1>5. events'[w] \in Seq(EventType) /\ Head(events[w]) = events[w][1]
  BY <1>1, <1>2
<1>6. events'[w] = <<>> <=> Len(events'[w]) = 0
  BY <1>5
<1> QED
  BY <1>3, <1>4, <1>5, <1>6

\* What remains to be handled after an event has been taken
LEMMA TakenQuiet ==
    ASSUME InputType, NEW w \in Workers, QuietInv(w), TakeEvent(w),
           client' = client, position' = position, writing' = writing, told' = told
    PROVE  /\ LastEventIsTold(w)'
           /\ \A x : Queued(w, x) <=> Queued(w, x)' \/ Updates(events[w][1], x)
<1>1. /\ Len(events[w]) \in Nat \ {0}
      /\ Len(events'[w]) = Len(events[w]) - 1
      /\ \A i \in 1..Len(events'[w]) : events'[w][i] = events[w][i + 1]
  BY Taken
<1>2. \A x : Playing(x)' = Playing(x) /\ Final(w, x)' = Final(w, x)
  BY SameFinal
<1>3. LastEventIsTold(w)'
  <2> SUFFICES ASSUME NEW c \in Clients, NEW i \in 1..Len(events'[w]),
                      Playing(c), Updates(events'[w][i], c),
                      \A j \in 1..Len(events'[w]) : i < j => ~ Updates(events'[w][j], c)
               PROVE  events'[w][i].position = told[c]
    BY <1>2 DEF LastEventIsTold
  <2>1. i + 1 \in 1..Len(events[w]) /\ events[w][i + 1] = events'[w][i]
    BY <1>1
  <2>2. ASSUME NEW j \in 1..Len(events[w]), i + 1 < j PROVE ~ Updates(events[w][j], c)
    <3>1. j - 1 \in 1..Len(events'[w]) /\ i < j - 1 /\ (j - 1) + 1 = j
      BY <1>1, <2>2
    <3>2. ~ Updates(events'[w][j - 1], c)
      BY <3>1
    <3> QED
      BY <1>1, <3>1, <3>2
  <2> QED
    BY <2>1, <2>2 DEF QuietInv, LastEventIsTold
<1>4. ASSUME NEW x PROVE Queued(w, x) <=> Queued(w, x)' \/ Updates(events[w][1], x)
  <2>1. ASSUME NEW i \in 1..Len(events[w]), Updates(events[w][i], x), i # 1
        PROVE  Queued(w, x)'
    <3>1. i - 1 \in 1..Len(events'[w]) /\ (i - 1) + 1 = i
      BY <1>1, <2>1
    <3>2. events'[w][i - 1] = events[w][i]
      BY <1>1, <3>1
    <3> QED
      BY <2>1, <3>1, <3>2 DEF Queued
  <2>2. ASSUME NEW i \in 1..Len(events'[w]), Updates(events'[w][i], x)
        PROVE  Queued(w, x)
    <3>1. i + 1 \in 1..Len(events[w]) /\ events[w][i + 1] = events'[w][i]
      BY <1>1
    <3> QED
      BY <2>2, <3>1 DEF Queued
  <2>3. 1 \in 1..Len(events[w])
    BY <1>1
  <2> QED
    BY <2>1, <2>2, <2>3 DEF Queued
<1> QED
  BY <1>3, <1>4

LEMMA ReceiveUpdateQuiet ==
    ASSUME IInv, NEW w \in Workers, QuietInv(w), ReceiveUpdate(w)
    PROVE  QuietInv(w)'
<1>1. InputType /\ HandlerInv
  BY DEF IInv
<1>2. client' = client /\ position' = position /\ writing' = writing /\ told' = told
  BY DEF ReceiveUpdate, TakeEvent, OthersUnchanged, clientVars, workerVars
<1>3. /\ pc = "receive" /\ pc' = "scan" /\ event' = events[w][1]
      /\ event'.kind \in UpdateEvents
      /\ inRange' = inRange /\ arcs' = arcs /\ TakeEvent(w)
  BY <1>1, Taken DEF ReceiveUpdate, TakeEvent, At, graphVars
<1>4. /\ LastEventIsTold(w)'
      /\ \A x : Queued(w, x) <=> Queued(w, x)' \/ Updates(events[w][1], x)
  BY <1>1, <1>2, <1>3, TakenQuiet
<1>5. /\ \A x : Playing(x)' = Playing(x) /\ Final(w, x)' = Final(w, x)
      /\ \A x, y : Near(w, x, y)' = Near(w, x, y)
  BY <1>2, SameFinal
<1>6. \A x : ~ Handled(x) /\ (Handled(x)' <=> Updates(events[w][1], x))
  BY <1>3 DEF Handled, Updates
<1>7. HandledEventIsTold(w)'
  <2> SUFFICES ASSUME NEW c \in Clients, Playing(c), Handled(c)', ~ Queued(w, c)'
               PROVE  event'.position = told[c]
    BY <1>2, <1>5 DEF HandledEventIsTold
  <2>1. 1 \in 1..Len(events[w]) /\ Updates(events[w][1], c)
    BY <1>1, <1>3, <1>6, Taken
  <2>2. ASSUME NEW j \in 1..Len(events[w]), 1 < j PROVE ~ Updates(events[w][j], c)
    <3>1. /\ Len(events'[w]) = Len(events[w]) - 1 /\ Len(events[w]) \in Nat
          /\ \A i \in 1..Len(events'[w]) : events'[w][i] = events[w][i + 1]
      BY <1>1, <1>3, Taken
    <3>2. j - 1 \in 1..Len(events'[w]) /\ (j - 1) + 1 = j
      BY <2>2, <3>1
    <3>3. events'[w][j - 1] = events[w][j]
      BY <3>1, <3>2
    <3> QED
      BY <3>2, <3>3 DEF Queued
  <2> QED
    BY <1>3, <2>1, <2>2 DEF QuietInv, LastEventIsTold
<1>8. WrittenIsLast(w)'
  <2> SUFFICES ASSUME writing[w] # Absent, Playing(writing[w].client)
               PROVE  IF events'[w] = <<>> THEN Handled(writing[w].client)'
                      ELSE Updates(events'[w][Len(events'[w])], writing[w].client)
    BY <1>2, <1>5 DEF WrittenIsLast
  <2>1. /\ Len(events[w]) \in Nat \ {0}
        /\ Len(events'[w]) = Len(events[w]) - 1
        /\ \A i \in 1..Len(events'[w]) : events'[w][i] = events[w][i + 1]
        /\ events'[w] = <<>> <=> Len(events[w]) = 1
        /\ events[w] # <<>>
    BY <1>1, <1>3, Taken DEF TakeEvent
  <2>2. Updates(events[w][Len(events[w])], writing[w].client)
    BY <2>1 DEF QuietInv, WrittenIsLast
  <2>3. CASE events'[w] = <<>>
    BY <1>6, <2>1, <2>2, <2>3, <1>3, <1>2 DEF Handled, Updates
  <2>4. CASE events'[w] # <<>>
    BY <2>1, <2>2, <2>4
  <2> QED
    BY <2>3, <2>4
<1>9. ReadIsFinal(w)'
  BY <1>3 DEF ReadIsFinal
<1>10. FoundOnce'
  BY <1>1, <1>3 DEF HandlerInv, EventOK, FoundOnce
<1>11. SettledOK(w)'
  BY <1>3, <1>4, <1>5, <1>6 DEF QuietInv, SettledOK
<1> QED
  BY <1>4, <1>7, <1>8, <1>9, <1>10, <1>11 DEF QuietInv

LEMMA ReceiveAroundQuiet ==
    ASSUME IInv, NEW w \in Workers, QuietInv(w), ReceiveAround(w)
    PROVE  QuietInv(w)'
<1>1. InputType /\ TakeEvent(w)
  BY DEF IInv, ReceiveAround
<1>2. client' = client /\ position' = position /\ writing' = writing /\ told' = told
  BY DEF ReceiveAround, TakeEvent, OthersUnchanged, clientVars, workerVars
<1>3. /\ pc' = pc /\ event' = event /\ inRange' = inRange /\ listed' = listed
      /\ arcs' = arcs /\ pc = "receive"
  BY <1>1 DEF ReceiveAround, TakeEvent, At, handlerVars, graphVars
<1>4. \A x : ~ Updates(events[w][1], x)
  BY <1>1, Taken DEF ReceiveAround, Updates, UpdateEvents, AroundEvents
<1>5. LastEventIsTold(w)' /\ \A x : Queued(w, x)' = Queued(w, x)
  BY <1>1, <1>2, <1>4, TakenQuiet DEF Queued
<1>6. /\ \A x : Playing(x)' = Playing(x) /\ Final(w, x)' = Final(w, x)
      /\ \A x, y : Near(w, x, y)' = Near(w, x, y)
  BY <1>2, SameFinal
<1>7. \A x : ~ Handled(x) /\ ~ Handled(x)'
  BY <1>3 DEF Handled
<1>8. WrittenIsLast(w)'
  <2>1. /\ Len(events[w]) \in Nat \ {0}
        /\ Len(events'[w]) = Len(events[w]) - 1
        /\ \A i \in 1..Len(events'[w]) : events'[w][i] = events[w][i + 1]
        /\ events'[w] = <<>> <=> Len(events[w]) = 1
        /\ events[w] # <<>>
    BY <1>1, Taken DEF TakeEvent
  <2> QED
    BY <1>2, <1>3, <1>6, <2>1 DEF QuietInv, WrittenIsLast
<1>9. HandledEventIsTold(w)' /\ ReadIsFinal(w)' /\ FoundOnce'
  BY <1>3, <1>7 DEF HandledEventIsTold, ReadIsFinal, FoundOnce
<1>10. SettledOK(w)'
  BY <1>3, <1>5, <1>6, <1>7 DEF QuietInv, SettledOK
<1> QED
  BY <1>5, <1>8, <1>9, <1>10 DEF QuietInv

\* A player is there to be scanned.
LEMMA ScanQuiet ==
    ASSUME IInv, PresenceOK, NEW w \in Workers, QuietInv(w), Scan
    PROVE  QuietInv(w)'
<1>1. /\ client' = client /\ position' = position /\ writing' = writing /\ told' = told
      /\ events' = events /\ event' = event /\ arcs' = arcs /\ inRange' = inRange
      /\ pc = "scan" /\ pc' = "positions"
      /\ listed' = {d \in Clients : position[d] # Absent}
  BY DEF Scan, At, OthersUnchanged, clientVars, workerVars, graphVars
<1>2. \A d \in Clients : Playing(d) => d \in listed'
  BY <1>1 DEF PresenceOK, Playing
<1>3. ReadIsFinal(w)'
  BY <1>1, <1>2, SameFinal DEF ReadIsFinal
<1>4. FoundOnce'
  BY <1>1 DEF QuietInv, FoundOnce
<1> QED
  BY <1>1, <1>3, <1>4, HandlingStep

\* A player with no event left is read where it will be: nothing is being
\* written about it.
LEMMA ReadPositionQuiet ==
    ASSUME IInv, PresenceOK, NEW w \in Workers, QuietInv(w), NEW d \in Clients,
           ReadPosition(d)
    PROVE  QuietInv(w)'
<1>1. /\ client' = client /\ position' = position /\ writing' = writing /\ told' = told
      /\ events' = events /\ event' = event /\ arcs' = arcs
      /\ pc = "positions" /\ pc' = "positions"
      /\ d \in listed /\ listed' = listed \ {d}
      /\ inRange' = inRange \/ inRange' = inRange \cup {d}
  BY DEF ReadPosition, At, OthersUnchanged, clientVars, workerVars, graphVars
<1>2. FoundOnce'
  BY <1>1 DEF QuietInv, FoundOnce
<1>3. /\ \A x : Playing(x)' = Playing(x)
      /\ \A x, y : Near(w, x, y)' = Near(w, x, y)
  BY <1>1, SameFinal
<1>4. \A x : Queued(w, x)' = Queued(w, x) /\ Handled(x)' = Handled(x)
  BY <1>1 DEF Queued, Handled
<1>5. ReadIsFinal(w)'
  <2> SUFFICES ASSUME NEW c \in Clients, NEW e \in Clients, Playing(c), Playing(e), c # e,
                      Handled(c), ~ Queued(w, c), ~ Queued(w, e)
               PROVE  e \in listed' \/ (e \in inRange' <=> Near(w, c, e))
    BY <1>1, <1>3, <1>4 DEF ReadIsFinal
  <2>1. CASE e # d
    BY <1>1, <2>1 DEF QuietInv, ReadIsFinal
  <2>2. CASE e = d
    <3>1. event.position = told[c] /\ event.client = c
      BY DEF QuietInv, HandledEventIsTold, Handled
    <3>2. ~ (writing[w] # Absent /\ writing[w].client = d)
      <4> SUFFICES ASSUME writing[w] # Absent, writing[w].client = d PROVE FALSE
        OBVIOUS
      <4>1. events[w] = <<>> \/ Updates(events[w][Len(events[w])], d)
        BY <2>2 DEF QuietInv, WrittenIsLast
      <4>2. events[w] # <<>> => Len(events[w]) \in 1..Len(events[w])
        BY DEF IInv, InputType
      <4>3. events[w] = <<>>
        BY <2>2, <4>1, <4>2 DEF Queued
      <4>4. Handled(d)
        BY <1>1, <2>2, <4>3 DEF QuietInv, WrittenIsLast
      <4> QED
        BY <2>2, <3>1, <4>4 DEF Handled
    <3>3. position[d] = Final(w, d)
      BY <3>2 DEF Final
    <3>4. position[d] # Absent /\ ~ OldIdentity(d)
      BY <2>2 DEF PresenceOK, Playing, OldIdentity
    <3>5. d \notin inRange
      BY <1>1 DEF QuietInv, FoundOnce
    <3>6. d \in inRange' <=> position[d] \in Around[event.position]
      BY <2>2, <3>1, <3>4, <3>5 DEF ReadPosition
    <3> QED
      BY <2>2, <3>1, <3>3, <3>6 DEF Near
  <2> QED
    BY <2>1, <2>2
<1> QED
  BY <1>1, <1>2, <1>5, HandlingStep

LEMMA EnterQuiet ==
    ASSUME IInv, NEW w \in Workers, QuietInv(w), Enter
    PROVE  QuietInv(w)'
<1>1. /\ client' = client /\ position' = position /\ writing' = writing /\ told' = told
      /\ events' = events /\ event' = event /\ inRange' = inRange
      /\ pc = "positions" /\ pc' = "entered" /\ listed = {} /\ listed' = listed
  BY DEF Enter, At, OthersUnchanged, clientVars, workerVars
<1>2. event.client \in Clients
  BY <1>1, ClientOfEvent DEF IInv
<1>3. \A c, d \in Clients :
        ~ Handled(c) /\ ~ Handled(d) => (d \in arcs'[c] <=> d \in arcs[c])
  BY <1>1, <1>2 DEF Enter, Link, Handled
<1>4. /\ \A x : Playing(x)' = Playing(x)
      /\ \A x, y : Near(w, x, y)' = Near(w, x, y)
  BY <1>1, SameFinal
<1>5. \A x : Queued(w, x)' = Queued(w, x) /\ Handled(x)' = Handled(x)
  BY <1>1 DEF Queued, Handled
<1>6. ReadIsFinal(w)' /\ FoundOnce'
  BY <1>1, <1>4, <1>5 DEF QuietInv, ReadIsFinal, FoundOnce
<1> QED
  BY <1>1, <1>3, <1>6, HandlingStep

LEMMA LeaveQuiet ==
    ASSUME IInv, NEW w \in Workers, QuietInv(w), Leave
    PROVE  QuietInv(w)'
<1>1. /\ client' = client /\ position' = position /\ writing' = writing /\ told' = told
      /\ events' = events /\ event' = event /\ inRange' = inRange
      /\ pc = "entered" /\ pc' = "left" /\ listed' = listed
  BY DEF Leave, At, OthersUnchanged, clientVars, workerVars
<1>2. event.client \in Clients
  BY <1>1, ClientOfEvent DEF IInv
<1>3. \A c, d \in Clients :
        ~ Handled(c) /\ ~ Handled(d) => (d \in arcs'[c] <=> d \in arcs[c])
  BY <1>1, <1>2 DEF Leave, Unlink, Handled
<1>4. /\ \A x : Playing(x)' = Playing(x)
      /\ \A x, y : Near(w, x, y)' = Near(w, x, y)
  BY <1>1, SameFinal
<1>5. \A x : Queued(w, x)' = Queued(w, x) /\ Handled(x)' = Handled(x)
  BY <1>1 DEF Queued, Handled
<1>6. ReadIsFinal(w)' /\ FoundOnce'
  BY <1>1, <1>4, <1>5 DEF QuietInv, ReadIsFinal, FoundOnce
<1> QED
  BY <1>1, <1>3, <1>6, HandlingStep

\* The client is linked with those it has found, who are those it is near to.
LEMMA FinishQuiet ==
    ASSUME IInv, PresenceOK, NEW w \in Workers, QuietInv(w), Finish
    PROVE  QuietInv(w)'
<1>1. /\ client' = client /\ position' = position /\ writing' = writing /\ told' = told
      /\ events' = events /\ arcs' = arcs
      /\ pc = "left" /\ pc' = "receive"
  BY DEF Finish, At, OthersUnchanged, clientVars, workerVars, graphVars
<1>2. /\ \A x : Playing(x)' = Playing(x) /\ Final(w, x)' = Final(w, x)
      /\ \A x, y : Near(w, x, y)' = Near(w, x, y)
  BY <1>1, SameFinal
<1>3. \A x : Queued(w, x)' = Queued(w, x) /\ ~ Handled(x)'
  BY <1>1 DEF Queued, Handled
<1>4. LastEventIsTold(w)'
  BY <1>1, <1>2 DEF QuietInv, LastEventIsTold
<1>5. HandledEventIsTold(w)' /\ ReadIsFinal(w)' /\ FoundOnce'
  BY <1>1, <1>3 DEF HandledEventIsTold, ReadIsFinal, FoundOnce
<1>6. WrittenIsLast(w)'
  BY <1>1, <1>2 DEF QuietInv, WrittenIsLast
<1>7. SettledOK(w)'
  <2> SUFFICES ASSUME NEW c \in Clients, NEW d \in Clients, Playing(c), Playing(d), c # d,
                      ~ Queued(w, c), ~ Queued(w, d)
               PROVE  \/ d \in arcs[c] <=> Near(w, c, d)
                      \/ c \in arcs[d] <=> Near(w, d, c)
    BY <1>1, <1>2, <1>3 DEF SettledOK
  <2>1. ASSUME NEW x \in Clients, NEW y \in Clients, Playing(x), Playing(y), x # y,
               ~ Queued(w, x), ~ Queued(w, y), Handled(x)
        PROVE  y \in arcs[x] <=> Near(w, x, y)
    <3>1. arcs[x] = inRange
      BY <1>1, <2>1 DEF IInv, HandlerInv, LeftOK, Handled
    <3>2. y \in inRange <=> Near(w, x, y)
      BY <1>1, <2>1 DEF QuietInv, ReadIsFinal
    <3> QED
      BY <3>1, <3>2
  <2>2. CASE ~ Handled(c) /\ ~ Handled(d)
    BY <2>2 DEF QuietInv, SettledOK
  <2> QED
    BY <2>1, <2>2
<1> QED
  BY <1>4, <1>5, <1>6, <1>7 DEF QuietInv

LEMMA ServerQuiet ==
    ASSUME IInv, PresenceOK, NEW w \in Workers, Workers = {w}, QuietInv(w),
           EventServer_subscribe
    PROVE  QuietInv(w)'
<1>1. client' = client /\ position' = position /\ writing' = writing /\ told' = told
  BY ServerLeavesRedis
<1>2. CASE ReceiveUpdate(w) \/ ReceiveAround(w)
  BY <1>2, ReceiveUpdateQuiet, ReceiveAroundQuiet
<1>3. CASE Scan \/ \E d \in Clients : ReadPosition(d)
  BY <1>3, ScanQuiet, ReadPositionQuiet
<1>4. CASE Enter \/ Leave \/ Finish
  BY <1>4, EnterQuiet, LeaveQuiet, FinishQuiet
<1>5. CASE ReadStranger \/ \E d \in Clients : ReadEntered(d) \/ ReadLeft(d)
  <2>1. /\ events' = events /\ event' = event /\ arcs' = arcs /\ inRange' = inRange
        /\ pc = "entered" \/ pc = "left"
    BY <1>5 DEF ReadStranger, ReadEntered, ReadLeft, ReadSession, At, handlerVars, graphVars
  <2>2. pc' = pc
    BY <1>5 DEF ReadStranger, ReadEntered, ReadLeft, ReadSession, handlerVars
  <2> QED
    BY <1>1, <2>1, <2>2, ReadingStep
<1> QED
  BY <1>2, <1>3, <1>4, <1>5 DEF EventServer_subscribe

LEMMA StepQuiet ==
    ASSUME NEW w \in Workers, Workers = {w}
    PROVE  IInv /\ ToldType /\ PresenceOK /\ QuietInv(w) /\ [Next]_vars => QuietInv(w)'
<1> SUFFICES ASSUME IInv, ToldType, PresenceOK, QuietInv(w), [Next]_vars PROVE QuietInv(w)'
  OBVIOUS
<1>1. CASE UNCHANGED vars
  <2>1. /\ events' = events /\ told' = told /\ client' = client /\ position' = position
        /\ writing' = writing /\ UNCHANGED ownVars
    BY <1>1 DEF vars, clientVars, workerVars, sentVars, ownVars, handlerVars, graphVars
  <2> QED
    BY <2>1, SameFinal, CalmStep DEF IInv
<1> QED
  BY <1>1, WorkerQuiet, QuitQuiet, ServerQuiet DEF Next

\* In a zone with one worker, wherever the players go and stop and whoever quits:
\* when the event server has handled everything, any two players are neighbours
\* exactly if one of them, where it has told it is, has the position in Redis of
\* the other within range.  No position it read while one was on its way to Redis
\* remains in the graph.
THEOREM GraphSettles ==
    ASSUME NEW w \in Workers, Workers = {w}
    PROVE  Spec => []QuietGraphIsProximity
<1>1. IInv /\ QuietInv(w) => QuietGraphIsProximity
  <2> SUFFICES ASSUME IInv, QuietInv(w), Quiet, NEW c \in Clients, NEW d \in Clients,
                      Playing(c), Playing(d), c # d
               PROVE  SeenFrom(c, d) \/ SeenFrom(d, c)
    BY DEF QuietGraphIsProximity, Playing
  <2>1. events[w] = <<>> /\ writing[w] = Absent /\ pc = "receive"
    BY DEF Quiet, At
  <2>2. ~ Queued(w, c) /\ ~ Queued(w, d) /\ ~ Handled(c) /\ ~ Handled(d)
    BY <2>1 DEF Queued, Handled
  <2> QED
    BY <2>1, <2>2 DEF QuietInv, SettledOK, Near, Final, SeenFrom
<1>2. Spec => []PresenceOK
  BY InitPresence, StepPresence, Invariance, PTL DEF Spec
<1>3. Spec => []ToldType
  <2>1. TypeOK => ToldType
    BY TypeParts
  <2> QED
    BY <2>1, TypeCorrectness, PTL
<1>4. Spec => []QuietInv(w)
  BY <1>2, <1>3, InitQuiet, StepQuiet, Invariance, PTL DEF Spec
<1> QED
  BY <1>1, <1>4, Invariance, PTL
=============================================================================
