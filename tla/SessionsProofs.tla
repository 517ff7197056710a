--------------------------- MODULE SessionsProofs ---------------------------
(***************************************************************************)
(* Proofs about Sessions, for any number of players and packets, in every  *)
(* behaviour in which no two workers process packets of one connection at  *)
(* the same time (OneAtATime): with one worker per server, as              *)
(* cfg/server.cfg asks for, or with any number of them and clients that    *)
(* wait for every answer.  Two workers that take packets of one client may *)
(* write its game session back after it was moved to the zone.             *)
(*                                                                         *)
(* The invariants are proved in layers, each from those before: what a     *)
(* task may look like (Shapes), the order of a client's packets (Order),   *)
(* where the game session may be (Handover), that the two sessions of a    *)
(* client go together (Paired), what the copies of the workers contain     *)
(* (Counted), what a player who was told to start the game can count on    *)
(* (Arrival), what a client that waits for its answers can (Courtesy),     *)
(* what a flush may rely on to log such a client out (Swept), and when the *)
(* event server finds its socket session missing (Found).                  *)
(***************************************************************************)
EXTENDS Sessions, FiniteSetTheorems, TLAPS


B(p) == <<p, "barrack">>
Z(p) == <<p, "zone">>
BarrackKey(p) == <<"barrack", "undefined", p>>
ZoneKey(p) == <<"zone", "field", p>>
StrayKey(p) == <<"barrack", "field", p>>

\* The session of a connection that has logged in
Full(c) == SocketSession(IF ServerOf(c) = "barrack" THEN "undefined" ELSE "field",
                         PlayerOf(c), TRUE)

\* a works on connection c
On(a, c) == Busy(a) /\ Conn(a) = c
\* No two workers work on packets of one connection.
OneAtATime ==
    \A a, b \in Actors, c \in Conns :
        On(a, c) /\ On(b, c) /\ task[a].kind # "flush" /\ task[b].kind # "flush" => a = b

Does(a, kinds, pcs) == task[a].kind \in kinds /\ task[a].pc \in pcs

KindsOf(server) ==
    IF server = "barrack" THEN {"login", "update", "query", "startGame"}
    ELSE {"connect", "update", "query"}

Reads == {"readSocket", "createSocket", "readGame"}
Puts == {"putSocket", "putGame"}
Flushes == {"flushRead", "flushCreate", "flushGame", "flushSocket"}
Ends == {"answer", "fail"}

CommandsOf(kind) ==
    IF kind \in {"login", "update"} THEN Reads \cup Puts \cup Ends
    ELSE IF kind = "query" THEN Reads \cup Ends
    ELSE IF kind = "startGame" THEN Reads \cup {"moveOut"} \cup Flushes \cup Ends
    ELSE IF kind = "connect" THEN Reads \cup {"readTransit", "moveIn"} \cup Puts \cup Ends
    ELSE Flushes \cup {"answer"}

\* Before and after the client has logged in
Shaped(c, s) == s = NewSocketSession \/ s = Full(c)

Tasks == [conn : Conns, kind : Packets \cup {"flush"}, pc : Commands,
          session : Sockets, changes : Nat]

\* A task t that actor a may have
TaskOK(a, t) ==
    /\ t \in Tasks
    /\ ServerOf(t.conn) = a[1]
    /\ IF IsMonitor(a) THEN t.kind = "flush" ELSE t.kind \in KindsOf(a[1])
    /\ t.pc \in CommandsOf(t.kind)
    /\ Shaped(t.conn, t.session)
    /\ t.pc = "moveIn" => t.session = Full(t.conn)
    /\ t.kind = "login" /\ t.pc \in Puts => t.session = Full(t.conn)

Shapes ==
    /\ SessionTypes
    /\ \A a \in Actors : task[a] = NoTask \/ TaskOK(a, task[a])
    /\ \A c \in Conns : socket[c] = Absent \/ Shaped(c, socket[c])
    /\ \A c \in Conns : pending[c] \in KindsOf(ServerOf(c)) \cup {NoPacket}
    /\ \A p \in Players : game[StrayKey(p)] = Absent

\* What the clients, the workers and the monitors do to the sessions
Changes == (\E c \in Conns : Client(c)) \/ \E a \in Actors : Step(a)

-----------------------------------------------------------------------------
(* Connections, sessions, keys and actors *)

LEMMA ConnFacts ==
    ASSUME NEW c \in Conns
    PROVE  /\ PlayerOf(c) \in Players /\ ServerOf(c) \in Servers
           /\ c = <<PlayerOf(c), ServerOf(c)>>
           /\ ServerOf(c) = "barrack" => c = B(PlayerOf(c))
           /\ ServerOf(c) = "zone" => c = Z(PlayerOf(c))
  BY DEF Conns, PlayerOf, ServerOf, Servers, B, Z

LEMMA PlayerFacts ==
    ASSUME NEW p \in Players
    PROVE  /\ B(p) \in Conns /\ ServerOf(B(p)) = "barrack" /\ PlayerOf(B(p)) = p
           /\ Z(p) \in Conns /\ ServerOf(Z(p)) = "zone" /\ PlayerOf(Z(p)) = p
           /\ B(p) # Z(p)
           /\ p # NoAccount
  BY PlayersAssumption DEF Conns, PlayerOf, ServerOf, Servers, B, Z

LEMMA SessionFacts ==
    ASSUME NEW c \in Conns
    PROVE  /\ NewSocketSession \in Sockets /\ ~ NewSocketSession.authenticated
           /\ NewSocketSession.account = NoAccount /\ NewSocketSession.map = "undefined"
           /\ Full(c) \in Sockets /\ Full(c).authenticated
           /\ Full(c).account = PlayerOf(c)
           /\ ServerOf(c) = "barrack" => Full(c).map = "undefined"
           /\ ServerOf(c) = "zone" => Full(c).map = "field"
           /\ Full(c) # NewSocketSession
           /\ Full(c) # Absent /\ NewSocketSession # Absent
  <1>1. /\ NewSocketSession \in Sockets /\ ~ NewSocketSession.authenticated
        /\ NewSocketSession.account = NoAccount /\ NewSocketSession.map = "undefined"
    BY DEF NewSocketSession, SocketSession, Sockets, Maps, Accounts
  <1>2. /\ Full(c) \in Sockets /\ Full(c).authenticated
        /\ Full(c).account = PlayerOf(c)
        /\ ServerOf(c) = "barrack" => Full(c).map = "undefined"
        /\ ServerOf(c) = "zone" => Full(c).map = "field"
    BY ConnFacts DEF Full, SocketSession, Sockets, Maps, Accounts, Servers
  <1>3. Full(c) # NewSocketSession
    BY <1>1, <1>2
  <1> QED BY <1>1, <1>2, <1>3, AbsentAssumption

LEMMA KeyFacts ==
    ASSUME NEW p \in Players
    PROVE  /\ BarrackKey(p) \in GameKeys /\ ZoneKey(p) \in GameKeys
           /\ TransitKey(p) \in GameKeys /\ StrayKey(p) \in GameKeys
           /\ BarrackKey(p) # ZoneKey(p) /\ BarrackKey(p) # TransitKey(p)
           /\ ZoneKey(p) # TransitKey(p)
           /\ StrayKey(p) \notin {BarrackKey(p), ZoneKey(p), TransitKey(p)}
           /\ GameKey(B(p), Full(B(p))) = BarrackKey(p)
           /\ GameKey(Z(p), Full(Z(p))) = ZoneKey(p)
           /\ \A k \in GameKeys : k[3] = p =>
                k \in {BarrackKey(p), ZoneKey(p), TransitKey(p), StrayKey(p)}
  BY PlayerFacts, SessionFacts
     DEF BarrackKey, ZoneKey, TransitKey, StrayKey, GameKeys, GameKey, Servers, Maps, Accounts

LEMMA GameKeyFacts ==
    ASSUME NEW c \in Conns, NEW s, Shaped(c, s)
    PROVE  /\ s \in Sockets /\ GameKey(c, s) \in GameKeys
           /\ GameKey(c, s)[3] \in {NoAccount, PlayerOf(c)}
           /\ GameKey(c, s)[1] = ServerOf(c)
           /\ \A p \in Players : GameKey(c, s) # StrayKey(p) /\ GameKey(c, s) # TransitKey(p)
           /\ \A p \in Players : GameKey(c, s) = BarrackKey(p) => c = B(p) /\ s = Full(c)
           /\ \A p \in Players : GameKey(c, s) = ZoneKey(p) => c = Z(p) /\ s = Full(c)
           /\ TransitKey(s.account) \in GameKeys
           /\ \A p \in Players : TransitKey(s.account) = TransitKey(p) => s = Full(c) /\ p = PlayerOf(c)
           /\ \A p \in Players : TransitKey(s.account) # BarrackKey(p)
                /\ TransitKey(s.account) # ZoneKey(p) /\ TransitKey(s.account) # StrayKey(p)
           /\ s.account \in {NoAccount, PlayerOf(c)}
           /\ s.account # NoAccount => s = Full(c)
  <1>1. /\ PlayerOf(c) \in Players /\ ServerOf(c) \in {"barrack", "zone"}
        /\ PlayerOf(c) # NoAccount /\ \A p \in Players : p # NoAccount
        /\ s \in Sockets
        /\ s = NewSocketSession \/ s = Full(c)
    BY ConnFacts, SessionFacts, PlayersAssumption DEF Shaped, Servers
  <1>2. CASE s = NewSocketSession
    <2>1. s.account = NoAccount /\ s.map = "undefined"
      BY <1>2, SessionFacts
    <2> QED BY <1>1, <2>1, ConnFacts
        DEF GameKey, GameKeys, Servers, Maps, Accounts, StrayKey, TransitKey, BarrackKey, ZoneKey
  <1>3. CASE s = Full(c)
    <2>1. /\ s.account = PlayerOf(c)
          /\ ServerOf(c) = "barrack" => s.map = "undefined"
          /\ ServerOf(c) = "zone" => s.map = "field"
      BY <1>3, SessionFacts
    <2> QED BY <1>1, <1>3, <2>1, ConnFacts
        DEF GameKey, GameKeys, Servers, Maps, Accounts, StrayKey, TransitKey, BarrackKey,
            ZoneKey
  <1> QED BY <1>1, <1>2, <1>3

LEMMA NoTaskFacts == NoTask \notin Tasks
  BY DEF NoTask, Tasks, Packets

-----------------------------------------------------------------------------
(* What a task may look like *)

LEMMA InitShapes == Init => Shapes
  <1> SUFFICES ASSUME Init PROVE Shapes
    OBVIOUS
  <1>1. SessionTypes
    BY DEF Init, SessionTypes, Packets, NoPacket
  <1>2. \A p \in Players : StrayKey(p) \in GameKeys
    BY KeyFacts
  <1> QED BY <1>1, <1>2 DEF Init, Shapes

\* The first command of a handler
HandlePc == [kind \in {"login", "update", "query", "startGame", "connect"} |->
    IF kind \in {"login", "update"} THEN "putSocket"
    ELSE IF kind = "query" THEN "answer"
    ELSE IF kind = "startGame" THEN "moveOut" ELSE "readTransit"]
HandleSession(c, kind, s) == IF kind = "login" THEN Full(c) ELSE s
HandleChanges(kind, n) == IF kind = "update" THEN n + 1 ELSE n

\* The task of a busy actor
LEMMA BusyOK ==
    ASSUME Shapes, NEW a \in Actors, Busy(a)
    PROVE  /\ TaskOK(a, task[a]) /\ task[a] \in Tasks /\ Conn(a) \in Conns
           /\ Shaped(Conn(a), task[a].session) /\ task[a].session \in Sockets
           /\ task[a].changes \in Nat
           /\ ServerOf(Conn(a)) = a[1]
           /\ task[a].pc \in CommandsOf(task[a].kind)
           /\ IsMonitor(a) <=> task[a].kind = "flush"
           /\ task[a].kind \in KindsOf(a[1]) \cup {"flush"}
  <1>1. TaskOK(a, task[a])
    BY DEF Shapes, Busy
  <1> QED BY <1>1 DEF TaskOK, Tasks, Conn, KindsOf

LEMMA HandleEffect ==
    ASSUME Shapes, NEW a \in Actors, Busy(a), NEW s, NEW n, Shaped(Conn(a), s), Handle(a, s, n)
    PROVE  /\ task[a].kind \in KindsOf(a[1]) /\ task[a].kind # "flush"
           /\ Continue(a, HandlePc[task[a].kind], HandleSession(Conn(a), task[a].kind, s),
                       HandleChanges(task[a].kind, n))
  <1>1. /\ task[a].kind \in KindsOf(a[1]) \cup {"flush"}
        /\ ServerOf(Conn(a)) = a[1] /\ Conn(a) \in Conns
    BY BusyOK
  <1>2. CASE Login(a, s, n)
    <2>1. task[a].kind = "login" /\ a[1] = "barrack"
      BY <1>1, <1>2 DEF Login, KindsOf
    <2>2. s.map = "undefined"
      BY <1>1, <2>1, SessionFacts DEF Shaped
    <2>3. SocketSession(s.map, PlayerOf(Conn(a)), TRUE) = Full(Conn(a))
      BY <1>1, <2>1, <2>2 DEF Full
    <2> QED BY <1>1, <1>2, <2>1, <2>3
        DEF Login, HandlePc, HandleSession, HandleChanges, KindsOf
  <1>3. CASE UpdateRequest(a, s, n)
    BY <1>1, <1>3 DEF UpdateRequest, HandlePc, HandleSession, HandleChanges, KindsOf
  <1>4. CASE QueryRequest(a, s, n)
    BY <1>1, <1>4 DEF QueryRequest, HandlePc, HandleSession, HandleChanges, KindsOf
  <1>5. CASE StartGame(a, s, n)
    BY <1>1, <1>5 DEF StartGame, HandlePc, HandleSession, HandleChanges, KindsOf
  <1>6. CASE ConnectZone(a, s, n)
    BY <1>1, <1>6 DEF ConnectZone, HandlePc, HandleSession, HandleChanges, KindsOf
  <1> QED BY <1>2, <1>3, <1>4, <1>5, <1>6 DEF Handle

\* An actor that gets task t; the tasks of the others stay.
TaskChange(a, t) ==
    /\ task' = [task EXCEPT ![a] = t]
    /\ task'[a] = t
    /\ \A b \in Actors : b # a => task'[b] = task[b]
    /\ task' \in [Actors -> {NoTask} \cup Tasks]
    /\ \A b \in Actors : task'[b] = NoTask \/ TaskOK(b, task'[b])

LEMMA TaskStep ==
    ASSUME Shapes, NEW a \in Actors, NEW t, t = NoTask \/ TaskOK(a, t),
           task' = [task EXCEPT ![a] = t]
    PROVE  TaskChange(a, t)
  <1>1. task \in [Actors -> {NoTask} \cup Tasks]
    BY DEF Shapes, SessionTypes, Tasks
  <1>2. t \in {NoTask} \cup Tasks
    BY DEF TaskOK
  <1>3. task'[a] = t /\ \A b \in Actors : b # a => task'[b] = task[b]
    BY <1>1
  <1> QED BY <1>1, <1>2, <1>3 DEF Shapes, TaskChange

LEMMA ContinueStep ==
    ASSUME Shapes, NEW a \in Actors, Busy(a), NEW pc, NEW s, NEW n \in Nat,
           Shaped(Conn(a), s), pc \in CommandsOf(task[a].kind),
           pc = "moveIn" => s = Full(Conn(a)),
           task[a].kind = "login" /\ pc \in Puts => s = Full(Conn(a)),
           Continue(a, pc, s, n)
    PROVE  TaskChange(a, Task(Conn(a), task[a].kind, pc, s, n))
  <1> DEFINE t == Task(Conn(a), task[a].kind, pc, s, n)
  <1>1. TaskOK(a, task[a]) /\ Conn(a) \in Conns /\ task[a].kind \in Packets \cup {"flush"}
    BY BusyOK DEF Tasks
  <1>2. s \in Sockets
    BY <1>1, SessionFacts DEF Shaped
  <1>3. pc \in Commands
    BY <1>1 DEF CommandsOf, Commands, Reads, Puts, Flushes, Ends
  <1>4. t \in Tasks
    BY <1>1, <1>2, <1>3 DEF Task, Tasks
  <1>5. /\ t.conn = Conn(a) /\ t.kind = task[a].kind /\ t.pc = pc /\ t.session = s
        /\ task[a].conn = Conn(a)
    BY DEF Task, Conn
  <1>6. TaskOK(a, t)
    BY <1>1, <1>4, <1>5 DEF TaskOK
  <1>7. task' = [task EXCEPT ![a] = t]
    BY DEF Continue
  <1> QED BY <1>6, <1>7, TaskStep

\* A handler takes over from command pc.
LEMMA HandleStep ==
    ASSUME Shapes, NEW a \in Actors, Busy(a), NEW s, NEW n \in Nat, Shaped(Conn(a), s),
           Handle(a, s, n)
    PROVE  LET kind == task[a].kind
           IN  /\ kind \in KindsOf(a[1]) /\ kind # "flush"
               /\ TaskChange(a, Task(Conn(a), kind, HandlePc[kind],
                                HandleSession(Conn(a), kind, s), HandleChanges(kind, n)))
  <1> DEFINE kind == task[a].kind
  <1>1. /\ kind \in KindsOf(a[1]) /\ kind # "flush"
        /\ Continue(a, HandlePc[kind], HandleSession(Conn(a), kind, s), HandleChanges(kind, n))
    BY HandleEffect
  <1>2. Shaped(Conn(a), HandleSession(Conn(a), kind, s)) /\ HandleChanges(kind, n) \in Nat
    BY DEF HandleSession, HandleChanges, Shaped
  <1>3. HandlePc[kind] \in CommandsOf(kind) /\ HandlePc[kind] # "moveIn"
    BY <1>1 DEF HandlePc, CommandsOf, KindsOf, Reads, Puts, Flushes, Ends
  <1>4. kind = "login" => HandleSession(Conn(a), kind, s) = Full(Conn(a))
    BY DEF HandleSession
  <1> QED BY <1>1, <1>2, <1>3, <1>4, ContinueStep

-----------------------------------------------------------------------------
(* What each command does *)

\* Actor a goes on with command pc and copies s and n of the session.
To(a, pc, s, n) == TaskChange(a, Task(Conn(a), task[a].kind, pc, s, n))

\* The handler of the packet is run on copies s and n.
Handled(a, s, n) ==
    /\ task[a].kind \in KindsOf(a[1])
    /\ To(a, HandlePc[task[a].kind], HandleSession(Conn(a), task[a].kind, s),
          HandleChanges(task[a].kind, n))

\* Who works on what stays; a has a new command and new copies.
Same(a) ==
    /\ \A b \in Actors : (Busy(b)' <=> Busy(b)) /\ Conn(b)' = Conn(b)
    /\ \A b \in Actors : \A c \in Conns : On(b, c)' <=> On(b, c)
    /\ \A b \in Actors : Busy(b) => task'[b].kind = task[b].kind
    /\ \A b \in Actors : b # a => task'[b] = task[b]

LEMMA ToFacts ==
    ASSUME Shapes, NEW a \in Actors, Busy(a), NEW pc, NEW s, NEW n, To(a, pc, s, n)
    PROVE  /\ Same(a) /\ Busy(a)'
           /\ task'[a].kind = task[a].kind /\ task'[a].pc = pc
           /\ task'[a].session = s /\ task'[a].changes = n
  <1> DEFINE t == Task(Conn(a), task[a].kind, pc, s, n)
  <1>1. /\ task'[a] = t /\ \A b \in Actors : b # a => task'[b] = task[b]
        /\ TaskOK(a, t) \/ t = NoTask
    BY DEF To, TaskChange
  <1>2. /\ t.conn = Conn(a) /\ t.kind = task[a].kind /\ t.pc = pc /\ t.session = s
        /\ t.changes = n /\ task[a].conn = Conn(a)
    BY DEF Task, Conn
  <1>3. task[a].kind # "none"
    BY BusyOK DEF Tasks, Packets
  <1>4. t # NoTask
    BY <1>2, <1>3 DEF NoTask
  <1>5. task'[a] # NoTask /\ task[a] # NoTask
    BY <1>1, <1>4 DEF Busy
  <1>6. \A b \in Actors : (Busy(b)' <=> Busy(b)) /\ Conn(b)' = Conn(b)
    BY <1>1, <1>2, <1>5 DEF Busy, Conn
  <1>7. \A b \in Actors : \A c \in Conns : On(b, c)' <=> On(b, c)
    BY <1>6 DEF On
  <1>8. \A b \in Actors : Busy(b) => task'[b].kind = task[b].kind
    BY <1>1, <1>2
  <1> QED BY <1>1, <1>2, <1>5, <1>6, <1>7, <1>8 DEF Same, Busy

LEMMA ReadSocketStep ==
    ASSUME Shapes, NEW a \in Actors, ReadSocket(a)
    PROVE  /\ At(a, "readSocket") /\ Busy(a)
           /\ \/ socket[Conn(a)] = Absent /\ To(a, "createSocket", NewSocketSession, 0)
              \/ socket[Conn(a)] = Full(Conn(a)) /\ To(a, "readGame", Full(Conn(a)), 0)
              \/ socket[Conn(a)] = NewSocketSession /\ Handled(a, NewSocketSession, 0)
  <1> DEFINE c == Conn(a)
             s == socket[Conn(a)]
  <1>1. At(a, "readSocket") /\ Busy(a) /\ task[a].pc = "readSocket"
    BY DEF ReadSocket, At
  <1>2. c \in Conns /\ task[a].pc \in CommandsOf(task[a].kind) /\ task[a].kind \in KindsOf(a[1]) \cup {"flush"}
    BY <1>1, BusyOK
  <1>3. task[a].kind # "flush"
    BY <1>1, <1>2 DEF CommandsOf, Flushes
  <1>4. /\ Full(c).authenticated /\ ~ NewSocketSession.authenticated
        /\ Full(c) # Absent /\ NewSocketSession # Absent
    BY <1>2, SessionFacts
  <1>5. s = Absent \/ s = NewSocketSession \/ s = Full(c)
    BY <1>2 DEF Shapes, Shaped
  <1>6. {"createSocket", "readGame"} \subseteq CommandsOf(task[a].kind)
    BY <1>2, <1>3, <1>1 DEF CommandsOf, KindsOf, Reads, Flushes
  <1>7. CASE s = Absent
    <2>1. Continue(a, "createSocket", NewSocketSession, 0)
      BY <1>7 DEF ReadSocket
    <2>2. To(a, "createSocket", NewSocketSession, 0)
      BY <1>1, <1>6, <2>1, ContinueStep DEF Shaped, To, Puts
    <2> QED BY <1>1, <1>7, <2>2
  <1>8. CASE s = Full(c)
    <2>1. Continue(a, "readGame", Full(c), 0)
      BY <1>4, <1>8 DEF ReadSocket
    <2>2. To(a, "readGame", Full(c), 0)
      BY <1>1, <1>6, <2>1, ContinueStep DEF Shaped, To, Puts
    <2> QED BY <1>1, <1>8, <2>2
  <1>9. CASE s = NewSocketSession
    <2>1. Handle(a, NewSocketSession, 0)
      BY <1>4, <1>9 DEF ReadSocket
    <2>2. Handled(a, NewSocketSession, 0)
      BY <1>1, <2>1, HandleStep DEF Shaped, To, Handled
    <2> QED BY <1>1, <1>9, <2>2
  <1> QED BY <1>5, <1>7, <1>8, <1>9

LEMMA CreateSocketStep ==
    ASSUME Shapes, NEW a \in Actors, CreateSocket(a)
    PROVE  At(a, "createSocket") /\ Busy(a) /\ Handled(a, NewSocketSession, 0)
  <1>1. At(a, "createSocket") /\ Busy(a) /\ Handle(a, NewSocketSession, 0)
    BY DEF CreateSocket, At
  <1> QED BY <1>1, HandleStep DEF Shaped, To, Handled

LEMMA ReadGameStep ==
    ASSUME Shapes, NEW a \in Actors, ReadGame(a)
    PROVE  LET s == task[a].session
               g == game[GameKey(Conn(a), s)]
           IN  /\ At(a, "readGame") /\ Busy(a)
               /\ \/ g = Absent /\ To(a, "fail", s, task[a].changes)
                  \/ g # Absent /\ g \in Games /\ Handled(a, s, g.changes)
  <1> DEFINE s == task[a].session
             g == game[GameKey(Conn(a), s)]
  <1>1. At(a, "readGame") /\ Busy(a) /\ task[a].pc = "readGame"
    BY DEF ReadGame, At
  <1>2. /\ Conn(a) \in Conns /\ Shaped(Conn(a), s) /\ task[a].changes \in Nat
        /\ task[a].pc \in CommandsOf(task[a].kind)
        /\ task[a].kind \in KindsOf(a[1]) \cup {"flush"}
    BY <1>1, BusyOK
  <1>3. g \in Games \cup {Absent}
    BY <1>2, GameKeyFacts DEF Shapes, SessionTypes
  <1>4. CASE g = Absent
    <2>1. \/ GoTo(a, "fail")
          \/ g # Absent
      BY DEF ReadGame
    <2>2. Continue(a, "fail", s, task[a].changes)
      BY <1>4, <2>1 DEF GoTo
    <2>3. "fail" \in CommandsOf(task[a].kind)
      BY <1>1, <1>2 DEF CommandsOf, KindsOf, Ends, Flushes, Reads
    <2>4. To(a, "fail", s, task[a].changes)
      BY <1>1, <1>2, <2>2, <2>3, ContinueStep DEF To, Puts
    <2> QED BY <1>1, <1>4, <2>4
  <1>5. CASE g # Absent
    <2>1. Handle(a, s, g.changes)
      BY <1>5 DEF ReadGame
    <2>2. g.changes \in Nat
      BY <1>3, <1>5 DEF Games
    <2>3. Handled(a, s, g.changes)
      BY <1>1, <1>2, <2>1, <2>2, HandleStep DEF To, Handled
    <2> QED BY <1>1, <1>3, <1>5, <2>3
  <1> QED BY <1>4, <1>5

LEMMA PcKinds ==
    ASSUME Shapes, NEW a \in Actors, Busy(a)
    PROVE  /\ task[a].pc \in Reads => task[a].kind # "flush"
           /\ task[a].pc \in Puts => task[a].kind \in {"login", "update", "connect"}
           /\ task[a].pc = "moveOut" => task[a].kind = "startGame" /\ a[1] = "barrack"
           /\ task[a].pc \in {"readTransit", "moveIn"} => task[a].kind = "connect" /\ a[1] = "zone"
           /\ task[a].pc \in Flushes => task[a].kind \in {"startGame", "flush"}
           /\ task[a].kind = "flush" => task[a].pc \in Flushes \cup {"answer"}
           /\ task[a].pc = "moveIn" => task[a].session = Full(Conn(a))
           /\ task[a].kind = "login" /\ task[a].pc \in Puts => task[a].session = Full(Conn(a))
           /\ task[a].kind \in {"login", "startGame"} => a[1] = "barrack"
           /\ task[a].kind = "connect" => a[1] = "zone"
  <1>1. /\ TaskOK(a, task[a]) /\ task[a].pc \in CommandsOf(task[a].kind)
        /\ task[a].kind \in KindsOf(a[1]) \cup {"flush"}
        /\ a[1] \in {"barrack", "zone"}
    BY BusyOK DEF Actors, Servers
  <1>2. task[a].kind \in {"login", "update", "query", "startGame", "connect", "flush"}
    BY <1>1 DEF KindsOf
  <1> QED BY <1>1, <1>2 DEF TaskOK, Conn, CommandsOf, KindsOf, Reads, Puts, Flushes, Ends

LEMMA GoToStep ==
    ASSUME Shapes, NEW a \in Actors, Busy(a), NEW pc, pc \in CommandsOf(task[a].kind),
           pc # "moveIn",
           pc \in Puts => task[a].pc \in Puts \cup {"moveIn"},
           GoTo(a, pc)
    PROVE  To(a, pc, task[a].session, task[a].changes)
  <1>1. Shaped(Conn(a), task[a].session) /\ task[a].changes \in Nat
    BY BusyOK
  <1>2. task[a].kind = "login" /\ pc \in Puts => task[a].session = Full(Conn(a))
    BY PcKinds
  <1>3. Continue(a, pc, task[a].session, task[a].changes)
    BY DEF GoTo
  <1> QED BY <1>1, <1>2, <1>3, ContinueStep DEF To

LEMMA UpdateSocketStep ==
    ASSUME Shapes, NEW a \in Actors, UpdateSocket(a)
    PROVE  /\ At(a, "putSocket") /\ Busy(a)
           /\ To(a, "putGame", task[a].session, task[a].changes)
           /\ PutSocket(Conn(a), task[a].session)
  <1>1. /\ At(a, "putSocket") /\ Busy(a) /\ task[a].pc = "putSocket" /\ GoTo(a, "putGame")
        /\ PutSocket(Conn(a), task[a].session)
    BY DEF UpdateSocket, At
  <1>2. task[a].kind \in {"login", "update", "connect"}
    BY <1>1, PcKinds DEF Puts
  <1>3. "putGame" \in CommandsOf(task[a].kind)
    BY <1>2 DEF CommandsOf, Puts
  <1> QED BY <1>1, <1>3, GoToStep DEF Puts

LEMMA UpdateGameStep ==
    ASSUME Shapes, NEW a \in Actors, UpdateGame(a)
    PROVE  LET key == GameKey(Conn(a), task[a].session)
               account == task[a].session.account
           IN  /\ At(a, "putGame") /\ Busy(a)
               /\ task[a].kind \in {"login", "update", "connect"}
               /\ To(a, "answer", task[a].session, task[a].changes)
               /\ key \in GameKeys
               /\ game' = [game EXCEPT ![key] = [owner |-> Conn(a), changes |-> task[a].changes]]
               /\ applied' = [p \in Players |-> IF p = account /\ task[a].kind = "update"
                                                THEN applied[p] + 1 ELSE applied[p]]
  <1>1. At(a, "putGame") /\ Busy(a) /\ task[a].pc = "putGame" /\ GoTo(a, "answer")
    BY DEF UpdateGame, At
  <1>2. task[a].kind \in {"login", "update", "connect"}
    BY <1>1, PcKinds DEF Puts
  <1>3. "answer" \in CommandsOf(task[a].kind)
    BY <1>2 DEF CommandsOf, Ends
  <1>4. GameKey(Conn(a), task[a].session) \in GameKeys
    BY <1>1, BusyOK, GameKeyFacts
  <1> QED BY <1>1, <1>2, <1>3, <1>4, GoToStep DEF Puts, UpdateGame

LEMMA MoveOutStep ==
    ASSUME Shapes, NEW a \in Actors, MoveOut(a)
    PROVE  LET from == GameKey(Conn(a), task[a].session)
               to == TransitKey(task[a].session.account)
           IN  /\ At(a, "moveOut") /\ Busy(a)
               /\ task[a].kind = "startGame" /\ ServerOf(Conn(a)) = "barrack"
               /\ from \in GameKeys /\ to \in GameKeys
               /\ \/ /\ Rename(from, to)
                     /\ To(a, "flushRead", task[a].session, task[a].changes)
                  \/ /\ game' = game
                     /\ To(a, "fail", task[a].session, task[a].changes)
  <1>1. At(a, "moveOut") /\ Busy(a) /\ task[a].pc = "moveOut"
    BY DEF MoveOut, At
  <1>2. task[a].kind = "startGame" /\ a[1] = "barrack"
    BY <1>1, PcKinds
  <1>3. {"flushRead", "fail"} \subseteq CommandsOf(task[a].kind)
    BY <1>2 DEF CommandsOf, Ends, Flushes
  <1>4. /\ GameKey(Conn(a), task[a].session) \in GameKeys
        /\ TransitKey(task[a].session.account) \in GameKeys
        /\ ServerOf(Conn(a)) = "barrack"
    BY <1>1, <1>2, BusyOK, GameKeyFacts
  <1> QED BY <1>1, <1>2, <1>3, <1>4, GoToStep DEF Puts, MoveOut

LEMMA ReadTransitStep ==
    ASSUME Shapes, NEW a \in Actors, ReadTransit(a)
    PROVE  LET p == PlayerOf(Conn(a))
           IN  /\ At(a, "readTransit") /\ Busy(a) /\ task[a].kind = "connect"
               /\ Conn(a) = Z(p) /\ p \in Players
               /\ \/ To(a, "fail", task[a].session, task[a].changes)
                  \/ /\ game[TransitKey(p)] # Absent /\ game[TransitKey(p)] \in Games
                     /\ To(a, "moveIn", Full(Z(p)), game[TransitKey(p)].changes)
  <1> DEFINE p == PlayerOf(Conn(a))
  <1>1. At(a, "readTransit") /\ Busy(a) /\ task[a].pc = "readTransit"
    BY DEF ReadTransit, At
  <1>2. task[a].kind = "connect" /\ a[1] = "zone"
    BY <1>1, PcKinds
  <1>3. {"moveIn", "fail"} \subseteq CommandsOf(task[a].kind)
    BY <1>2 DEF CommandsOf, Ends
  <1>4. p \in Players /\ Conn(a) = Z(p) /\ ServerOf(Conn(a)) = "zone"
    BY <1>1, <1>2, BusyOK, ConnFacts
  <1>5. CASE GoTo(a, "fail")
    BY <1>1, <1>2, <1>3, <1>4, <1>5, GoToStep DEF Puts
  <1>6. CASE /\ game[TransitKey(p)] # Absent
             /\ Continue(a, "moveIn", SocketSession("field", p, TRUE),
                         game[TransitKey(p)].changes)
    <2>1. SocketSession("field", p, TRUE) = Full(Conn(a))
      BY <1>4 DEF Full
    <2>2. game[TransitKey(p)] \in Games
      BY <1>4, <1>6, KeyFacts DEF Shapes, SessionTypes
    <2>3. game[TransitKey(p)].changes \in Nat
      BY <2>2 DEF Games
    <2>4. To(a, "moveIn", Full(Z(p)), game[TransitKey(p)].changes)
      BY <1>1, <1>2, <1>3, <1>4, <1>6, <2>1, <2>3, ContinueStep DEF To, Puts, Shaped
    <2> QED BY <1>1, <1>2, <1>4, <1>6, <2>2, <2>4
  <1> QED BY <1>5, <1>6 DEF ReadTransit

LEMMA MoveInStep ==
    ASSUME Shapes, NEW a \in Actors, MoveIn(a)
    PROVE  LET p == PlayerOf(Conn(a))
           IN  /\ At(a, "moveIn") /\ Busy(a) /\ task[a].kind = "connect"
               /\ Conn(a) = Z(p) /\ p \in Players /\ task[a].session = Full(Z(p))
               /\ \/ /\ Rename(TransitKey(p), ZoneKey(p))
                     /\ To(a, "putSocket", Full(Z(p)), task[a].changes)
                  \/ /\ game[TransitKey(p)] = Absent /\ game' = game
                     /\ To(a, "fail", Full(Z(p)), task[a].changes)
  <1> DEFINE p == PlayerOf(Conn(a))
  <1>1. At(a, "moveIn") /\ Busy(a) /\ task[a].pc = "moveIn"
    BY DEF MoveIn, At
  <1>2. task[a].kind = "connect" /\ a[1] = "zone" /\ task[a].session = Full(Conn(a))
    BY <1>1, PcKinds
  <1>3. {"putSocket", "fail"} \subseteq CommandsOf(task[a].kind)
    BY <1>2 DEF CommandsOf, Ends, Puts
  <1>4. p \in Players /\ Conn(a) = Z(p)
    BY <1>1, <1>2, BusyOK, ConnFacts
  <1>5. /\ task[a].session.account = p
        /\ GameKey(Conn(a), task[a].session) = ZoneKey(p)
    BY <1>2, <1>4, SessionFacts, KeyFacts, PlayerFacts
  <1>6. \/ GoTo(a, "putSocket") => To(a, "putSocket", Full(Z(p)), task[a].changes)
        \/ ~ GoTo(a, "putSocket")
    BY <1>1, <1>2, <1>3, <1>4, GoToStep DEF Puts
  <1>7. GoTo(a, "fail") => To(a, "fail", Full(Z(p)), task[a].changes)
    BY <1>1, <1>2, <1>3, <1>4, GoToStep DEF Puts
  <1> QED BY <1>1, <1>2, <1>4, <1>5, <1>6, <1>7 DEF MoveIn

LEMMA FlushReadStep ==
    ASSUME Shapes, NEW a \in Actors, FlushRead(a)
    PROVE  /\ At(a, "flushRead") /\ Busy(a) /\ task[a].kind \in {"startGame", "flush"}
           /\ \/ socket[Conn(a)] = Absent /\ To(a, "flushCreate", NewSocketSession, 0)
              \/ /\ socket[Conn(a)] # Absent
                 /\ To(a, "flushGame", socket[Conn(a)], 0)
  <1> DEFINE s == socket[Conn(a)]
  <1>1. At(a, "flushRead") /\ Busy(a) /\ task[a].pc = "flushRead"
    BY DEF FlushRead, At
  <1>2. task[a].kind \in {"startGame", "flush"} /\ Conn(a) \in Conns
    BY <1>1, PcKinds, BusyOK DEF Flushes
  <1>3. {"flushCreate", "flushGame"} \subseteq CommandsOf(task[a].kind)
    BY <1>2 DEF CommandsOf, Flushes
  <1>4. CASE s = Absent /\ Continue(a, "flushCreate", NewSocketSession, 0)
    BY <1>1, <1>2, <1>3, <1>4, ContinueStep DEF To, Puts, Shaped
  <1>5. CASE s # Absent /\ Continue(a, "flushGame", s, 0)
    <2>1. Shaped(Conn(a), s)
      BY <1>2, <1>5 DEF Shapes
    <2> QED BY <1>1, <1>2, <1>3, <1>5, <2>1, ContinueStep DEF To, Puts
  <1> QED BY <1>4, <1>5 DEF FlushRead

LEMMA FlushCreateStep ==
    ASSUME Shapes, NEW a \in Actors, FlushCreate(a)
    PROVE  /\ At(a, "flushCreate") /\ Busy(a) /\ task[a].kind \in {"startGame", "flush"}
           /\ To(a, "flushGame", task[a].session, task[a].changes)
           /\ PutSocket(Conn(a), NewSocketSession)
  <1>1. /\ At(a, "flushCreate") /\ Busy(a) /\ task[a].pc = "flushCreate"
        /\ GoTo(a, "flushGame") /\ PutSocket(Conn(a), NewSocketSession)
    BY DEF FlushCreate, At
  <1>2. task[a].kind \in {"startGame", "flush"}
    BY <1>1, PcKinds DEF Flushes
  <1>3. "flushGame" \in CommandsOf(task[a].kind)
    BY <1>2 DEF CommandsOf, Flushes
  <1> QED BY <1>1, <1>2, <1>3, GoToStep DEF Puts

LEMMA FlushGameStep ==
    ASSUME Shapes, NEW a \in Actors, FlushGame(a)
    PROVE  LET key == GameKey(Conn(a), task[a].session)
           IN  /\ At(a, "flushGame") /\ Busy(a) /\ task[a].kind \in {"startGame", "flush"}
               /\ To(a, "flushSocket", task[a].session, task[a].changes)
               /\ key \in GameKeys /\ game' = [game EXCEPT ![key] = Absent]
  <1>1. At(a, "flushGame") /\ Busy(a) /\ task[a].pc = "flushGame" /\ GoTo(a, "flushSocket")
    BY DEF FlushGame, At
  <1>2. task[a].kind \in {"startGame", "flush"}
    BY <1>1, PcKinds DEF Flushes
  <1>3. "flushSocket" \in CommandsOf(task[a].kind)
    BY <1>2 DEF CommandsOf, Flushes
  <1>4. GameKey(Conn(a), task[a].session) \in GameKeys
    BY <1>1, BusyOK, GameKeyFacts
  <1> QED BY <1>1, <1>2, <1>3, <1>4, GoToStep DEF Puts, FlushGame

LEMMA FlushSocketStep ==
    ASSUME Shapes, NEW a \in Actors, FlushSocket(a)
    PROVE  /\ At(a, "flushSocket") /\ Busy(a) /\ task[a].kind \in {"startGame", "flush"}
           /\ To(a, "answer", task[a].session, task[a].changes)
           /\ PutSocket(Conn(a), Absent)
  <1>1. /\ At(a, "flushSocket") /\ Busy(a) /\ task[a].pc = "flushSocket"
        /\ GoTo(a, "answer") /\ PutSocket(Conn(a), Absent)
    BY DEF FlushSocket, At
  <1>2. task[a].kind \in {"startGame", "flush"}
    BY <1>1, PcKinds DEF Flushes
  <1>3. "answer" \in CommandsOf(task[a].kind)
    BY <1>2 DEF CommandsOf, Ends
  <1> QED BY <1>1, <1>2, <1>3, GoToStep DEF Puts

-----------------------------------------------------------------------------
(* Shapes is inductive *)

\* What the commands of an actor change in Redis
RedisOK ==
    /\ socket' \in [Conns -> Sockets \cup {Absent}]
    /\ \A c \in Conns : socket'[c] = Absent \/ Shaped(c, socket'[c])
    /\ game' \in [GameKeys -> Games \cup {Absent}]
    /\ \A p \in Players : game'[StrayKey(p)] = Absent
    /\ applied' \in [Players -> Nat]

LEMMA ShapesCommand ==
    ASSUME Shapes, NEW a \in Actors, NEW t, TaskChange(a, t), RedisOK,
           UNCHANGED <<clientVars, flushed>>
    PROVE  Shapes'
  <1>1. SessionTypes'
    BY DEF Shapes, SessionTypes, RedisOK, TaskChange, Tasks, clientVars
  <1>2. \A b \in Actors : task'[b] = NoTask \/ TaskOK(b, task'[b])
    BY DEF TaskChange
  <1> QED BY <1>1, <1>2 DEF Shapes, RedisOK, clientVars

LEMMA PutSocketOK ==
    ASSUME Shapes, NEW c \in Conns, NEW s, s = Absent \/ Shaped(c, s), PutSocket(c, s)
    PROVE  /\ socket' \in [Conns -> Sockets \cup {Absent}]
           /\ \A d \in Conns : socket'[d] = Absent \/ Shaped(d, socket'[d])
           /\ socket'[c] = s /\ \A d \in Conns : d # c => socket'[d] = socket[d]
  <1>1. s \in Sockets \cup {Absent}
    BY SessionFacts DEF Shaped
  <1>2. socket \in [Conns -> Sockets \cup {Absent}]
    BY DEF Shapes, SessionTypes
  <1>3. socket' = [socket EXCEPT ![c] = s]
    BY DEF PutSocket
  <1>4. socket'[c] = s /\ \A d \in Conns : d # c => socket'[d] = socket[d]
    BY <1>2, <1>3
  <1>5. \A d \in Conns : socket[d] = Absent \/ Shaped(d, socket[d])
    BY DEF Shapes
  <1> QED BY <1>1, <1>2, <1>3, <1>4, <1>5

LEMMA RedisSame ==
    ASSUME Shapes
    PROVE  /\ UNCHANGED socket => /\ socket' \in [Conns -> Sockets \cup {Absent}]
                                  /\ \A c \in Conns : socket'[c] = Absent \/ Shaped(c, socket'[c])
           /\ UNCHANGED game => /\ game' \in [GameKeys -> Games \cup {Absent}]
                                /\ \A p \in Players : game'[StrayKey(p)] = Absent
           /\ UNCHANGED applied => applied' \in [Players -> Nat]
  BY DEF Shapes, SessionTypes

LEMMA RenameOK ==
    ASSUME Shapes, NEW from \in GameKeys, NEW to \in GameKeys, Rename(from, to),
           \A p \in Players : to # StrayKey(p)
    PROVE  /\ game' \in [GameKeys -> Games \cup {Absent}]
           /\ \A p \in Players : game'[StrayKey(p)] = Absent
           /\ game[from] # Absent /\ game'[to] = game[from]
           /\ from # to => game'[from] = Absent
           /\ \A k \in GameKeys : k # from /\ k # to => game'[k] = game[k]
  <1>1. game \in [GameKeys -> Games \cup {Absent}] /\ \A p \in Players : game[StrayKey(p)] = Absent
    BY DEF Shapes, SessionTypes
  <1>2. \A p \in Players : StrayKey(p) \in GameKeys
    BY KeyFacts
  <1> QED BY <1>1, <1>2 DEF Rename

LEMMA CommandShapes ==
    ASSUME Shapes, NEW a \in Actors, Command(a)
    PROVE  Shapes'
  <1> DEFINE c == Conn(a)
             s == task[a].session
  <1>1. CASE ReadSocket(a)
    <2>1. UNCHANGED <<clientVars, flushed, redisVars, applied>>
      BY <1>1 DEF ReadSocket
    <2>2. PICK t : TaskChange(a, t)
      BY <1>1, ReadSocketStep DEF To, Handled
    <2> QED BY <2>1, <2>2, RedisSame, ShapesCommand DEF RedisOK, redisVars
  <1>2. CASE CreateSocket(a)
    <2>1. UNCHANGED <<clientVars, flushed, game, applied>> /\ PutSocket(c, NewSocketSession)
      BY <1>2 DEF CreateSocket
    <2>2. PICK t : TaskChange(a, t)
      BY <1>2, CreateSocketStep DEF To, Handled
    <2>3. c \in Conns
      BY <1>2, CreateSocketStep, BusyOK
    <2> QED BY <2>1, <2>2, <2>3, PutSocketOK, RedisSame, ShapesCommand DEF RedisOK, Shaped
  <1>3. CASE ReadGame(a)
    <2>1. UNCHANGED <<clientVars, flushed, redisVars, applied>>
      BY <1>3 DEF ReadGame
    <2>2. PICK t : TaskChange(a, t)
      BY <1>3, ReadGameStep DEF To, Handled
    <2> QED BY <2>1, <2>2, RedisSame, ShapesCommand DEF RedisOK, redisVars
  <1>4. CASE UpdateSocket(a)
    <2>1. UNCHANGED <<clientVars, flushed, game, applied>> /\ PutSocket(c, s)
      BY <1>4 DEF UpdateSocket
    <2>2. PICK t : TaskChange(a, t)
      BY <1>4, UpdateSocketStep DEF To
    <2>3. c \in Conns /\ Shaped(c, s)
      BY <1>4, UpdateSocketStep, BusyOK
    <2> QED BY <2>1, <2>2, <2>3, PutSocketOK, RedisSame, ShapesCommand DEF RedisOK
  <1>5. CASE UpdateGame(a)
    <2> DEFINE g == [owner |-> c, changes |-> task[a].changes]
               key == GameKey(c, s)
    <2>1. UNCHANGED <<clientVars, flushed, socket>>
      BY <1>5 DEF UpdateGame
    <2>2. /\ Busy(a) /\ key \in GameKeys /\ game' = [game EXCEPT ![key] = g]
          /\ applied' = [p \in Players |-> IF p = s.account /\ task[a].kind = "update"
                                           THEN applied[p] + 1 ELSE applied[p]]
      BY <1>5, UpdateGameStep
    <2>3. PICK t : TaskChange(a, t)
      BY <1>5, UpdateGameStep DEF To
    <2>4. c \in Conns /\ Shaped(c, s) /\ task[a].changes \in Nat
      BY <2>2, BusyOK
    <2>5. g \in Games
      BY <2>4 DEF Games
    <2>6. \A p \in Players : key # StrayKey(p) /\ StrayKey(p) \in GameKeys
      BY <2>4, GameKeyFacts, KeyFacts
    <2>7. game \in [GameKeys -> Games \cup {Absent}] /\ \A p \in Players : game[StrayKey(p)] = Absent
      BY DEF Shapes, SessionTypes
    <2>8. game' \in [GameKeys -> Games \cup {Absent}] /\ \A p \in Players : game'[StrayKey(p)] = Absent
      BY <2>2, <2>5, <2>6, <2>7
    <2>9. applied' \in [Players -> Nat]
      BY <2>2 DEF Shapes, SessionTypes
    <2> QED BY <2>1, <2>3, <2>8, <2>9, RedisSame, ShapesCommand DEF RedisOK
  <1>6. CASE MoveOut(a)
    <2> DEFINE from == GameKey(c, s)
               to == TransitKey(s.account)
    <2>1. UNCHANGED <<clientVars, flushed, socket, applied>>
      BY <1>6 DEF MoveOut
    <2>2. /\ Busy(a) /\ from \in GameKeys /\ to \in GameKeys
          /\ Rename(from, to) \/ game' = game
      BY <1>6, MoveOutStep
    <2>3. PICK t : TaskChange(a, t)
      BY <1>6, MoveOutStep DEF To
    <2>4. \A p \in Players : to # StrayKey(p)
      BY <2>2, BusyOK, GameKeyFacts
    <2> QED BY <2>1, <2>2, <2>3, <2>4, RenameOK, RedisSame, ShapesCommand DEF RedisOK
  <1>7. CASE ReadTransit(a)
    <2>1. UNCHANGED <<clientVars, flushed, redisVars, applied>>
      BY <1>7 DEF ReadTransit
    <2>2. PICK t : TaskChange(a, t)
      BY <1>7, ReadTransitStep DEF To
    <2> QED BY <2>1, <2>2, RedisSame, ShapesCommand DEF RedisOK, redisVars
  <1>8. CASE MoveIn(a)
    <2> DEFINE p == PlayerOf(c)
    <2>1. UNCHANGED <<clientVars, flushed, socket, applied>>
      BY <1>8 DEF MoveIn
    <2>2. p \in Players /\ (Rename(TransitKey(p), ZoneKey(p)) \/ game' = game)
      BY <1>8, MoveInStep
    <2>3. PICK t : TaskChange(a, t)
      BY <1>8, MoveInStep DEF To
    <2>4. /\ TransitKey(p) \in GameKeys /\ ZoneKey(p) \in GameKeys
          /\ \A q \in Players : ZoneKey(p) # StrayKey(q)
      BY <2>2, KeyFacts DEF ZoneKey, StrayKey
    <2> QED BY <2>1, <2>2, <2>3, <2>4, RenameOK, RedisSame, ShapesCommand DEF RedisOK
  <1>9. CASE FlushRead(a)
    <2>1. UNCHANGED <<clientVars, flushed, redisVars, applied>>
      BY <1>9 DEF FlushRead
    <2>2. PICK t : TaskChange(a, t)
      BY <1>9, FlushReadStep DEF To
    <2> QED BY <2>1, <2>2, RedisSame, ShapesCommand DEF RedisOK, redisVars
  <1>10. CASE FlushCreate(a)
    <2>1. UNCHANGED <<clientVars, flushed, game, applied>>
      BY <1>10 DEF FlushCreate
    <2>2. PICK t : TaskChange(a, t)
      BY <1>10, FlushCreateStep DEF To
    <2>3. c \in Conns /\ PutSocket(c, NewSocketSession)
      BY <1>10, FlushCreateStep, BusyOK
    <2> QED BY <2>1, <2>2, <2>3, PutSocketOK, RedisSame, ShapesCommand DEF RedisOK, Shaped
  <1>11. CASE FlushGame(a)
    <2> DEFINE key == GameKey(c, s)
    <2>1. UNCHANGED <<clientVars, flushed, socket, applied>>
      BY <1>11 DEF FlushGame
    <2>2. key \in GameKeys /\ game' = [game EXCEPT ![key] = Absent]
      BY <1>11, FlushGameStep
    <2>3. PICK t : TaskChange(a, t)
      BY <1>11, FlushGameStep DEF To
    <2>4. game' \in [GameKeys -> Games \cup {Absent}] /\ \A p \in Players : game'[StrayKey(p)] = Absent
      BY <2>2, KeyFacts DEF Shapes, SessionTypes
    <2> QED BY <2>1, <2>3, <2>4, RedisSame, ShapesCommand DEF RedisOK
  <1>12. CASE FlushSocket(a)
    <2>1. UNCHANGED <<clientVars, flushed, game, applied>>
      BY <1>12 DEF FlushSocket
    <2>2. PICK t : TaskChange(a, t)
      BY <1>12, FlushSocketStep DEF To
    <2>3. c \in Conns /\ PutSocket(c, Absent)
      BY <1>12, FlushSocketStep, BusyOK
    <2> QED BY <2>1, <2>2, <2>3, PutSocketOK, RedisSame, ShapesCommand DEF RedisOK
  <1>13. CASE Answer(a) \/ Fail(a)
    <2>1. /\ task' = [task EXCEPT ![a] = NoTask]
          /\ UNCHANGED <<link, requests, pending, flushed, redisVars, applied>>
          /\ Advance(a) \/ UNCHANGED progress
      BY <1>13 DEF Answer, Fail, clientVars
    <2>2. TaskChange(a, NoTask)
      BY <2>1, TaskStep
    <2>3. progress' \in [Conns -> {"connected", "entering", "inside", "leaving", "left"}]
      <3>1. progress \in [Conns -> {"connected", "entering", "inside", "leaving", "left"}]
        BY DEF Shapes, SessionTypes
      <3> QED BY <2>1, <3>1 DEF Advance
    <2>4. SessionTypes'
      BY <2>1, <2>2, <2>3 DEF Shapes, SessionTypes, TaskChange, Tasks, redisVars
    <2> QED BY <2>1, <2>2, <2>4 DEF Shapes, TaskChange, redisVars
  <1> QED BY <1>1, <1>2, <1>3, <1>4, <1>5, <1>6, <1>7, <1>8, <1>9, <1>10, <1>11, <1>12, <1>13
      DEF Command

\* The first task of a message, or of a flush
LEMMA TakeStep ==
    ASSUME Shapes, NEW a \in Actors, NEW c \in Conns, Take(a, c)
    PROVE  /\ ~ IsMonitor(a) /\ ~ Busy(a) /\ ServerOf(c) = a[1]
           /\ pending[c] \in KindsOf(a[1]) /\ pending[c] # "flush"
           /\ TaskChange(a, Task(c, pending[c], "readSocket", NewSocketSession, 0))
           /\ pending' = [pending EXCEPT ![c] = NoPacket]
           /\ UNCHANGED <<link, progress, requests, flushed, redisVars, applied>>
  <1> DEFINE t == Task(c, pending[c], "readSocket", NewSocketSession, 0)
  <1>1. /\ ~ IsMonitor(a) /\ ~ Busy(a) /\ ServerOf(c) = a[1]
        /\ pending[c] # NoPacket /\ task' = [task EXCEPT ![a] = t]
        /\ pending' = [pending EXCEPT ![c] = NoPacket]
        /\ UNCHANGED <<link, progress, requests, flushed, redisVars, applied>>
    BY DEF Take
  <1>2. pending[c] \in KindsOf(a[1])
    BY <1>1 DEF Shapes
  <1>3. pending[c] # "flush" /\ pending[c] \in Packets
    BY <1>2 DEF KindsOf, Packets
  <1>4. t \in Tasks
    BY <1>3, SessionFacts DEF Task, Tasks, Commands
  <1>5. /\ t.conn = c /\ t.kind = pending[c] /\ t.pc = "readSocket"
        /\ t.session = NewSocketSession
    BY DEF Task
  <1>6. "readSocket" \in CommandsOf(pending[c])
    BY <1>2 DEF CommandsOf, KindsOf, Reads
  <1>7. TaskOK(a, t)
    BY <1>1, <1>2, <1>4, <1>5, <1>6 DEF TaskOK, Shaped, Puts
  <1> QED BY <1>1, <1>2, <1>3, <1>7, TaskStep

LEMMA BeginFlushStep ==
    ASSUME Shapes, NEW a \in Actors, NEW c \in Conns, BeginFlush(a, c)
    PROVE  /\ IsMonitor(a) /\ ~ Busy(a) /\ ServerOf(c) = a[1] /\ link[c] = "closed"
           /\ progress[c] # "connected"
           /\ TaskChange(a, Task(c, "flush", "flushRead", NewSocketSession, 0))
           /\ UNCHANGED <<clientVars, redisVars, applied>>
  <1> DEFINE t == Task(c, "flush", "flushRead", NewSocketSession, 0)
  <1>1. /\ IsMonitor(a) /\ ~ Busy(a) /\ ServerOf(c) = a[1] /\ link[c] = "closed"
        /\ progress[c] # "connected" /\ task' = [task EXCEPT ![a] = t]
        /\ UNCHANGED <<clientVars, redisVars, applied>>
    BY DEF BeginFlush, Disconnected
  <1>2. t \in Tasks
    BY SessionFacts DEF Task, Tasks, Commands
  <1>3. /\ t.conn = c /\ t.kind = "flush" /\ t.pc = "flushRead"
        /\ t.session = NewSocketSession
    BY DEF Task
  <1>4. TaskOK(a, t)
    BY <1>1, <1>2, <1>3 DEF TaskOK, Shaped, Puts, CommandsOf, Flushes
  <1> QED BY <1>1, <1>4, TaskStep

\* What the steps of a client leave alone
LEMMA ClientStep ==
    ASSUME Shapes, NEW c \in Conns, Client(c)
    PROVE  /\ UNCHANGED <<task, flushed, redisVars, applied>>
           /\ \A a \in Actors : Busy(a)' <=> Busy(a)
           /\ \A a \in Actors, d \in Conns : On(a, d)' <=> On(a, d)
  <1>1. UNCHANGED <<task, flushed, redisVars, applied>>
    BY DEF Client, Open, SendEnter, SendStartGame, Close, SendRequest, Send
  <1> QED BY <1>1 DEF Busy, On, Conn

LEMMA ClientShapes ==
    ASSUME Shapes, NEW c \in Conns, Client(c)
    PROVE  Shapes'
  <1>1. UNCHANGED <<task, flushed, redisVars, applied>>
    BY ClientStep
  <1>2. /\ link' \in [Conns -> {"new", "open", "closed"}]
        /\ progress' \in [Conns -> {"connected", "entering", "inside", "leaving", "left"}]
        /\ requests' \in [Players -> Nat]
    <2>1. /\ link \in [Conns -> {"new", "open", "closed"}]
          /\ progress \in [Conns -> {"connected", "entering", "inside", "leaving", "left"}]
          /\ requests \in [Players -> Nat]
      BY DEF Shapes, SessionTypes
    <2> QED BY <2>1 DEF Client, Open, SendEnter, SendStartGame, Close, SendRequest, Send
  <1>3. /\ pending' \in [Conns -> Packets \cup {NoPacket}]
        /\ \A d \in Conns : pending'[d] \in KindsOf(ServerOf(d)) \cup {NoPacket}
    <2>1. /\ pending \in [Conns -> Packets \cup {NoPacket}]
          /\ \A d \in Conns : pending[d] \in KindsOf(ServerOf(d)) \cup {NoPacket}
          /\ ServerOf(c) \in {"barrack", "zone"}
      BY ConnFacts DEF Shapes, SessionTypes, Servers
    <2>2. \/ pending' = pending
          \/ \E packet \in KindsOf(ServerOf(c)) : pending' = [pending EXCEPT ![c] = packet]
      BY <2>1 DEF Client, Open, SendEnter, SendStartGame, Close, SendRequest, Send, KindsOf
    <2>3. KindsOf(ServerOf(c)) \subseteq Packets
      BY DEF KindsOf, Packets
    <2> QED BY <2>1, <2>2, <2>3
  <1>4. SessionTypes'
    BY <1>1, <1>2, <1>3 DEF Shapes, SessionTypes, redisVars
  <1> QED BY <1>1, <1>3, <1>4 DEF Shapes, redisVars

LEMMA NextShapes == Shapes /\ [Changes]_sessionVars => Shapes'
  <1> SUFFICES ASSUME Shapes, [Changes]_sessionVars PROVE Shapes'
    OBVIOUS
  <1>1. ASSUME NEW c \in Conns, Client(c) PROVE Shapes'
    BY <1>1, ClientShapes
  <1>2. ASSUME NEW a \in Actors, Command(a) PROVE Shapes'
    BY <1>2, CommandShapes
  <1>3. ASSUME NEW a \in Actors, NEW c \in Conns, Take(a, c) PROVE Shapes'
    <2>1. /\ TaskChange(a, Task(c, pending[c], "readSocket", NewSocketSession, 0))
          /\ pending' = [pending EXCEPT ![c] = NoPacket]
          /\ UNCHANGED <<link, progress, requests, flushed, redisVars, applied>>
      BY <1>3, TakeStep
    <2> QED BY <2>1 DEF Shapes, SessionTypes, TaskChange, Tasks, redisVars
  <1>4. ASSUME NEW a \in Actors, NEW c \in Conns, BeginFlush(a, c) PROVE Shapes'
    <2>1. /\ TaskChange(a, Task(c, "flush", "flushRead", NewSocketSession, 0))
          /\ UNCHANGED <<clientVars, redisVars, applied>>
          /\ flushed' = [flushed EXCEPT ![c] = TRUE]
      BY <1>4, BeginFlushStep DEF BeginFlush
    <2> QED BY <2>1 DEF Shapes, SessionTypes, TaskChange, Tasks, redisVars, clientVars
  <1>5. CASE UNCHANGED sessionVars
    BY <1>5 DEF sessionVars, clientVars, redisVars, Shapes, SessionTypes
  <1> QED BY <1>1, <1>2, <1>3, <1>4, <1>5 DEF Changes, Step

\* What else is left of Next: the monitor misses a client, or the event server
\* meets one or finds its socket session missing, and then creates it.
LEMMA NextCases == [Next]_vars => [Changes]_sessionVars \/ \E c \in Conns : Recreate(c)
  BY DEF Next, Thread, Changes, EventServer, Miss, Meet, FindMissing, vars

LEMMA EventCases ==
    [Next]_vars => \/ [Changes]_sessionVars /\ UNCHANGED eventVars
                   \/ \E c \in Conns : Meet(c) \/ FindMissing(c) \/ Recreate(c)
  BY DEF Next, Thread, Changes, EventServer, Miss, vars

LEMMA RecreateShapes ==
    ASSUME Shapes, NEW c \in Conns, Recreate(c)
    PROVE  Shapes'
  <1>1. /\ socket' = [socket EXCEPT ![c] = NewSocketSession]
        /\ UNCHANGED <<link, progress, requests, pending, task, flushed, game, applied>>
    BY DEF Recreate, PutSocket, clientVars
  <1>2. NewSocketSession \in Sockets /\ Shaped(c, NewSocketSession)
    BY SessionFacts DEF Shaped
  <1> QED BY <1>1, <1>2 DEF Shapes, SessionTypes

LEMMA StepShapes == Shapes /\ [Next]_vars => Shapes'
  BY NextCases, NextShapes, RecreateShapes

LEMMA StepTypes == TypeOK /\ [Next]_vars /\ SessionTypes' => TypeOK'
  <1> SUFFICES ASSUME TypeOK, [Next]_vars
               PROVE  /\ missed' \subseteq Conns /\ running' \in BOOLEAN
                      /\ met' \subseteq Conns /\ creating' \subseteq Conns
    BY DEF TypeOK
  <1>1. CASE UNCHANGED <<missed, running, met, creating>>
    BY <1>1 DEF TypeOK
  <1>2. ASSUME NEW a \in Actors, NEW c \in Conns, Miss(a, c)
        PROVE  UNCHANGED <<running, met, creating>> /\ missed' \subseteq Conns
    BY <1>2 DEF Miss, eventVars, TypeOK
  <1>3. ASSUME NEW c \in Conns, EventServer(c)
        PROVE  /\ missed' = missed /\ running' \in BOOLEAN
               /\ met' \subseteq Conns /\ creating' \subseteq Conns
    BY <1>3 DEF EventServer, Meet, FindMissing, Recreate, TypeOK
  <1> QED BY <1>1, <1>2, <1>3 DEF Next, Thread, vars, eventVars, TypeOK

\* Every variable keeps its type, for any number of players: what is stored
\* under a socket key is a socket session, under a game key a game session.
THEOREM TypeCorrectness == Spec => []TypeOK
  <1>1. Init => Shapes /\ TypeOK
    BY InitShapes DEF Init, Shapes, TypeOK
  <1>2. Shapes /\ TypeOK /\ [Next]_vars => Shapes' /\ TypeOK'
    BY StepShapes, StepTypes DEF Shapes
  <1> QED BY <1>1, <1>2, PTL DEF Spec

-----------------------------------------------------------------------------
(* The order of a client's packets *)

Enters == {"login", "connect"}

\* A client that enters a server waits for the answer.
EnterOK(c) ==
    /\ pending[c] \in Enters => progress[c] = "entering"
    /\ \A a \in Actors : On(a, c) /\ task[a].kind \in Enters =>
          progress[c] = "entering" /\ pending[c] = NoPacket

\* Until it has the answer it sends nothing else,
RequestOK(c) ==
    progress[c] \in {"connected", "entering"} =>
        /\ pending[c] \in Enters \cup {NoPacket}
        /\ \A a \in Actors : On(a, c) => task[a].kind \in Enters \cup {"flush"}

\* and before that nothing at all.
FreshOK(c) ==
    progress[c] = "connected" => pending[c] = NoPacket /\ \A a \in Actors : ~ On(a, c)

\* Nothing follows the packet that starts the game.
LeavingOK(p) ==
    /\ pending[B(p)] = "startGame" => progress[B(p)] = "leaving"
    /\ \A a \in Actors : On(a, B(p)) /\ task[a].kind = "startGame" =>
          progress[B(p)] = "leaving" /\ pending[B(p)] = NoPacket

Order ==
    /\ \A c \in Conns : EnterOK(c) /\ RequestOK(c) /\ FreshOK(c)
    /\ \A p \in Players : LeavingOK(p)

LEMMA InitOrder == Init => Order
  <1> SUFFICES ASSUME Init PROVE Order
    OBVIOUS
  <1>1. \A c \in Conns : progress[c] = "connected" /\ pending[c] = NoPacket
    BY DEF Init
  <1>2. \A a \in Actors, c \in Conns : ~ On(a, c)
    BY DEF Init, On, Busy
  <1>3. \A p \in Players : B(p) \in Conns
    BY PlayerFacts
  <1> QED BY <1>1, <1>2, <1>3
      DEF Order, EnterOK, RequestOK, FreshOK, LeavingOK, NoPacket, Enters

LEMMA OrderStable ==
    ASSUME Order, UNCHANGED <<progress, pending>>,
           \A b \in Actors : \A c \in Conns : On(b, c)' <=> On(b, c),
           \A b \in Actors : Busy(b) => task'[b].kind = task[b].kind
    PROVE  Order'
  <1>1. \A b \in Actors : \A c \in Conns : On(b, c)' => On(b, c) /\ task'[b].kind = task[b].kind
    BY DEF On
  <1>2. \A p \in Players : B(p) \in Conns
    BY PlayerFacts
  <1>3. ASSUME NEW c \in Conns PROVE (EnterOK(c) /\ RequestOK(c) /\ FreshOK(c))'
    BY <1>1, <1>3 DEF Order, EnterOK, RequestOK, FreshOK
  <1>4. ASSUME NEW p \in Players PROVE LeavingOK(p)'
    BY <1>1, <1>2, <1>4 DEF Order, LeavingOK
  <1> QED BY <1>3, <1>4 DEF Order

LEMMA OnlyWorker ==
    ASSUME OneAtATime, NEW a \in Actors, NEW b \in Actors, NEW c \in Conns,
           On(a, c), On(b, c), task[a].kind # "flush", task[b].kind # "flush"
    PROVE  a = b
  BY DEF OneAtATime

\* The end of a task
LEMMA EndStep ==
    ASSUME Shapes, NEW a \in Actors, Answer(a) \/ Fail(a)
    PROVE  /\ Busy(a) /\ Conn(a) \in Conns
           /\ TaskChange(a, NoTask)
           /\ UNCHANGED <<link, requests, pending, flushed, redisVars, applied>>
           /\ \A b \in Actors : \A c \in Conns : On(b, c)' <=> (On(b, c) /\ b # a)
           /\ \A b \in Actors : b # a => task'[b] = task[b]
           /\ \A c \in Conns : c # Conn(a) => progress'[c] = progress[c]
           /\ \/ progress'[Conn(a)] = progress[Conn(a)]
              \/ /\ task[a].kind \in Enters /\ progress'[Conn(a)] = "inside"
                 /\ task[a].pc = "answer"
              \/ /\ task[a].kind = "startGame" /\ progress'[Conn(a)] = "left"
                 /\ link[Conn(a)] = "open" /\ task[a].pc = "answer"
  <1>1. Busy(a) /\ Conn(a) \in Conns
    BY BusyOK DEF Answer, Fail, At
  <1>2. task' = [task EXCEPT ![a] = NoTask]
    BY DEF Answer, Fail
  <1>3. TaskChange(a, NoTask)
    BY <1>2, TaskStep
  <1>4. \A b \in Actors : \A c \in Conns : On(b, c)' <=> (On(b, c) /\ b # a)
    BY <1>3 DEF TaskChange, On, Busy, Conn
  <1>5. progress \in [Conns -> {"connected", "entering", "inside", "leaving", "left"}]
    BY DEF Shapes, SessionTypes
  <1>6. UNCHANGED <<link, requests, pending, flushed, redisVars, applied>>
    BY DEF Answer, Fail, clientVars
  <1>7. CASE Answer(a)
    <2>1. Advance(a) /\ task[a].pc = "answer"
      BY <1>7 DEF Answer, At
    <2> QED BY <1>1, <1>3, <1>4, <1>5, <1>6, <2>1 DEF TaskChange, Advance, Enters
  <1>8. CASE Fail(a)
    BY <1>1, <1>3, <1>4, <1>6, <1>8 DEF TaskChange, Fail, clientVars
  <1> QED BY <1>7, <1>8

\* The beginning of a task
LEMMA BeginStep ==
    ASSUME Shapes, NEW a \in Actors, NEW c \in Conns, NEW kind \in Packets \cup {"flush"}, NEW pc,
           ~ Busy(a), TaskChange(a, Task(c, kind, pc, NewSocketSession, 0))
    PROVE  /\ \A b \in Actors : \A d \in Conns : On(b, d)' <=> (On(b, d) \/ (b = a /\ d = c))
           /\ \A b \in Actors : b # a => task'[b] = task[b]
           /\ ~ \E d \in Conns : On(a, d)
           /\ task'[a].kind = kind /\ task'[a].pc = pc /\ task'[a].session = NewSocketSession
  <1> DEFINE t == Task(c, kind, pc, NewSocketSession, 0)
  <1>1. /\ t.conn = c /\ t.kind = kind /\ t.pc = pc /\ t.session = NewSocketSession
    BY DEF Task
  <1>2. t # NoTask
    BY <1>1 DEF NoTask, Packets
  <1>3. task'[a] = t /\ \A b \in Actors : b # a => task'[b] = task[b]
    BY DEF TaskChange
  <1> QED BY <1>1, <1>2, <1>3 DEF On, Busy, Conn

LEMMA CommandOrder ==
    ASSUME OneAtATime, Shapes, Order, NEW a \in Actors, Command(a)
    PROVE  Order'
  <1>1. CASE Answer(a) \/ Fail(a)
    <2>1. PICK c \in Conns : c = Conn(a) /\ On(a, c)
      BY <1>1, EndStep DEF On
    <2>2. /\ pending' = pending
          /\ \A b \in Actors : \A d \in Conns : On(b, d)' <=> (On(b, d) /\ b # a)
          /\ \A b \in Actors : b # a => task'[b] = task[b]
          /\ \A d \in Conns : d # c => progress'[d] = progress[d]
          /\ \/ progress'[c] = progress[c]
             \/ task[a].kind \in Enters /\ progress'[c] = "inside"
             \/ task[a].kind = "startGame" /\ progress'[c] = "left"
      BY <1>1, <2>1, EndStep
    <2>3. ASSUME NEW b \in Actors, On(b, c), b # a PROVE task[a].kind = "flush" \/ task[b].kind = "flush"
      BY <2>1, <2>3, OnlyWorker
    <2>4. ASSUME NEW d \in Conns PROVE (EnterOK(d) /\ RequestOK(d) /\ FreshOK(d))'
      <3>1. EnterOK(d) /\ RequestOK(d) /\ FreshOK(d)
        BY DEF Order
      <3>2. CASE progress'[d] = progress[d]
        BY <2>2, <3>1, <3>2 DEF EnterOK, RequestOK, FreshOK
      <3>3. CASE d = c /\ task[a].kind \in Enters /\ progress'[c] = "inside"
        <4>1. pending[c] = NoPacket /\ NoPacket \notin Enters
          BY <2>1, <3>1, <3>3 DEF EnterOK, NoPacket, Enters
        <4>2. \A b \in Actors : On(b, c) /\ b # a => task[b].kind = "flush" /\ "flush" \notin Enters
          BY <2>3, <3>3 DEF Enters
        <4> QED BY <2>2, <3>3, <4>1, <4>2 DEF EnterOK, RequestOK, FreshOK
      <3>4. CASE d = c /\ task[a].kind = "startGame" /\ progress'[c] = "left"
        <4>1. \A b \in Actors : On(b, c) /\ b # a => task[b].kind = "flush" /\ "flush" \notin Enters
          BY <2>3, <3>4 DEF Enters
        <4>2. progress[c] \notin {"connected", "entering"}
          BY <2>1, <3>1, <3>4 DEF RequestOK, Enters
        <4>3. pending[c] \notin Enters
          BY <3>1, <3>4, <4>2 DEF EnterOK
        <4> QED BY <2>2, <3>4, <4>1, <4>3 DEF EnterOK, RequestOK, FreshOK
      <3> QED BY <2>2, <3>2, <3>3, <3>4
    <2>5. ASSUME NEW p \in Players PROVE LeavingOK(p)'
      <3>1. LeavingOK(p) /\ B(p) \in Conns /\ EnterOK(B(p))
        BY PlayerFacts DEF Order
      <3>2. CASE progress'[B(p)] = progress[B(p)]
        BY <2>2, <3>1, <3>2 DEF LeavingOK
      <3>3. CASE B(p) = c /\ task[a].kind \in Enters
        <4>1. progress[c] = "entering"
          BY <2>1, <3>1, <3>3 DEF EnterOK
        <4>2. pending[c] # "startGame" /\ \A b \in Actors : On(b, c) => task[b].kind # "startGame"
          BY <3>1, <3>3, <4>1 DEF LeavingOK
        <4> QED BY <2>2, <3>3, <4>2 DEF LeavingOK
      <3>4. CASE B(p) = c /\ task[a].kind = "startGame"
        <4>1. pending[c] = NoPacket
          BY <2>1, <3>1, <3>4 DEF LeavingOK
        <4>2. \A b \in Actors : On(b, c) /\ b # a => task[b].kind = "flush"
          BY <2>3, <3>4
        <4> QED BY <2>2, <3>4, <4>1, <4>2 DEF LeavingOK, NoPacket
      <3> QED BY <2>2, <3>1, <3>2, <3>3, <3>4
    <2> QED BY <2>4, <2>5 DEF Order
  <1>2. ASSUME Busy(a), NEW pc, NEW s, NEW n, To(a, pc, s, n), UNCHANGED clientVars PROVE Order'
    BY <1>2, ToFacts, OrderStable DEF Same, clientVars
  <1>3. ASSUME Busy(a), NEW s, NEW n, Handled(a, s, n), UNCHANGED clientVars PROVE Order'
    BY <1>2, <1>3 DEF Handled
  <1>4. CASE ReadSocket(a)
    BY <1>2, <1>3, <1>4, ReadSocketStep DEF ReadSocket
  <1>5. CASE CreateSocket(a)
    BY <1>3, <1>5, CreateSocketStep DEF CreateSocket
  <1>6. CASE ReadGame(a)
    BY <1>2, <1>3, <1>6, ReadGameStep DEF ReadGame
  <1>7. CASE UpdateSocket(a)
    BY <1>2, <1>7, UpdateSocketStep DEF UpdateSocket
  <1>8. CASE UpdateGame(a)
    BY <1>2, <1>8, UpdateGameStep DEF UpdateGame
  <1>9. CASE MoveOut(a)
    BY <1>2, <1>9, MoveOutStep DEF MoveOut
  <1>10. CASE ReadTransit(a)
    BY <1>2, <1>10, ReadTransitStep DEF ReadTransit
  <1>11. CASE MoveIn(a)
    BY <1>2, <1>11, MoveInStep DEF MoveIn
  <1>12. CASE FlushRead(a)
    BY <1>2, <1>12, FlushReadStep DEF FlushRead
  <1>13. CASE FlushCreate(a)
    BY <1>2, <1>13, FlushCreateStep DEF FlushCreate
  <1>14. CASE FlushGame(a)
    BY <1>2, <1>14, FlushGameStep DEF FlushGame
  <1>15. CASE FlushSocket(a)
    BY <1>2, <1>15, FlushSocketStep DEF FlushSocket
  <1> QED BY <1>1, <1>4, <1>5, <1>6, <1>7, <1>8, <1>9, <1>10, <1>11, <1>12, <1>13, <1>14, <1>15
      DEF Command

LEMMA TakeOrder ==
    ASSUME Shapes, Order, NEW a \in Actors, NEW c \in Conns, Take(a, c)
    PROVE  Order'
  <1>1. /\ ~ Busy(a) /\ progress' = progress /\ pending' = [pending EXCEPT ![c] = NoPacket]
        /\ pending[c] \in Packets /\ pending[c] # NoPacket /\ pending[c] # "flush"
        /\ TaskChange(a, Task(c, pending[c], "readSocket", NewSocketSession, 0))
    BY TakeStep DEF KindsOf, Packets, NoPacket
  <1>2. /\ \A b \in Actors : \A d \in Conns : On(b, d)' <=> (On(b, d) \/ (b = a /\ d = c))
        /\ \A b \in Actors : b # a => task'[b] = task[b]
        /\ ~ \E d \in Conns : On(a, d)
        /\ task'[a].kind = pending[c]
    BY <1>1, BeginStep
  <1>3. pending'[c] = NoPacket /\ \A d \in Conns : d # c => pending'[d] = pending[d]
    BY <1>1 DEF Shapes, SessionTypes
  <1>4. ASSUME NEW d \in Conns PROVE (EnterOK(d) /\ RequestOK(d) /\ FreshOK(d))'
    <2>1. EnterOK(d) /\ RequestOK(d) /\ FreshOK(d)
      BY DEF Order
    <2> QED BY <1>1, <1>2, <1>3, <2>1 DEF EnterOK, RequestOK, FreshOK, Enters, NoPacket
  <1>5. ASSUME NEW p \in Players PROVE LeavingOK(p)'
    <2>1. LeavingOK(p) /\ B(p) \in Conns
      BY PlayerFacts DEF Order
    <2> QED BY <1>1, <1>2, <1>3, <2>1 DEF LeavingOK, NoPacket
  <1> QED BY <1>4, <1>5 DEF Order

LEMMA BeginFlushOrder ==
    ASSUME Shapes, Order, NEW a \in Actors, NEW c \in Conns, BeginFlush(a, c)
    PROVE  Order'
  <1>1. /\ ~ Busy(a) /\ UNCHANGED clientVars /\ progress[c] # "connected"
        /\ TaskChange(a, Task(c, "flush", "flushRead", NewSocketSession, 0))
    BY BeginFlushStep
  <1>2. /\ \A b \in Actors : \A d \in Conns : On(b, d)' <=> (On(b, d) \/ (b = a /\ d = c))
        /\ \A b \in Actors : b # a => task'[b] = task[b]
        /\ task'[a].kind = "flush"
    BY <1>1, BeginStep
  <1>3. ASSUME NEW d \in Conns PROVE (EnterOK(d) /\ RequestOK(d) /\ FreshOK(d))'
    <2>1. EnterOK(d) /\ RequestOK(d) /\ FreshOK(d)
      BY DEF Order
    <2> QED BY <1>1, <1>2, <2>1 DEF EnterOK, RequestOK, FreshOK, Enters, clientVars
  <1>4. ASSUME NEW p \in Players PROVE LeavingOK(p)'
    <2>1. LeavingOK(p) /\ B(p) \in Conns
      BY PlayerFacts DEF Order
    <2> QED BY <1>1, <1>2, <2>1 DEF LeavingOK, clientVars
  <1> QED BY <1>3, <1>4 DEF Order

LEMMA ClientOrder ==
    ASSUME Shapes, Order, NEW c \in Conns, Client(c)
    PROVE  Order'
  <1>1. /\ task' = task
        /\ \A a \in Actors : \A d \in Conns : On(a, d)' <=> On(a, d)
    BY ClientStep
  <1>2. /\ progress \in [Conns -> {"connected", "entering", "inside", "leaving", "left"}]
        /\ pending \in [Conns -> Packets \cup {NoPacket}]
    BY DEF Shapes, SessionTypes
  <1>3. CASE Open(c) \/ Close(c)
    BY <1>1, <1>3, OrderStable DEF Open, Close
  <1>4. CASE SendEnter(c)
    <2>1. /\ progress[c] = "connected" /\ progress' = [progress EXCEPT ![c] = "entering"]
          /\ \E packet \in Enters : pending' = [pending EXCEPT ![c] = packet]
      BY <1>4 DEF SendEnter, Send, Enters
    <2>2. /\ progress'[c] = "entering" /\ pending'[c] \in Enters
          /\ \A d \in Conns : d # c => progress'[d] = progress[d] /\ pending'[d] = pending[d]
      BY <1>2, <2>1
    <2>3. ASSUME NEW d \in Conns PROVE (EnterOK(d) /\ RequestOK(d) /\ FreshOK(d))'
      <3>1. EnterOK(d) /\ RequestOK(d) /\ FreshOK(d)
        BY DEF Order
      <3> QED BY <1>1, <2>1, <2>2, <3>1 DEF EnterOK, RequestOK, FreshOK
    <2>4. ASSUME NEW p \in Players PROVE LeavingOK(p)'
      <3>1. LeavingOK(p) /\ B(p) \in Conns
        BY PlayerFacts DEF Order
      <3> QED BY <1>1, <2>1, <2>2, <3>1 DEF LeavingOK, Enters
    <2> QED BY <2>3, <2>4 DEF Order
  <1>5. CASE \/ SendStartGame(c)
             \/ \E packet \in Packets : SendRequest(c, packet)
    <2>1. /\ progress[c] = "inside" /\ pending[c] = NoPacket
          /\ \/ /\ progress' = [progress EXCEPT ![c] = "leaving"]
                /\ pending' = [pending EXCEPT ![c] = "startGame"]
             \/ /\ progress' = progress
                /\ \E packet \in {"update", "query"} : pending' = [pending EXCEPT ![c] = packet]
      BY <1>5 DEF SendStartGame, SendRequest, Send
    <2>2. /\ \/ progress'[c] = "leaving" /\ pending'[c] = "startGame"
             \/ progress'[c] = "inside" /\ pending'[c] \in {"update", "query"}
          /\ \A d \in Conns : d # c => progress'[d] = progress[d] /\ pending'[d] = pending[d]
      BY <1>2, <2>1
    <2>3. ASSUME NEW d \in Conns PROVE (EnterOK(d) /\ RequestOK(d) /\ FreshOK(d))'
      <3>1. EnterOK(d) /\ RequestOK(d) /\ FreshOK(d)
        BY DEF Order
      <3> QED BY <1>1, <2>1, <2>2, <3>1 DEF EnterOK, RequestOK, FreshOK, Enters
    <2>4. ASSUME NEW p \in Players PROVE LeavingOK(p)'
      <3>1. LeavingOK(p) /\ B(p) \in Conns
        BY PlayerFacts DEF Order
      <3> QED BY <1>1, <2>1, <2>2, <3>1 DEF LeavingOK
    <2> QED BY <2>3, <2>4 DEF Order
  <1> QED BY <1>3, <1>4, <1>5 DEF Client

LEMMA NextOrder == OneAtATime /\ Shapes /\ Order /\ [Changes]_sessionVars => Order'
  <1> SUFFICES ASSUME OneAtATime, Shapes, Order, [Changes]_sessionVars PROVE Order'
    OBVIOUS
  <1>1. CASE UNCHANGED sessionVars
    BY <1>1, OrderStable DEF sessionVars, clientVars, On, Busy, Conn
  <1> QED BY <1>1, ClientOrder, CommandOrder, TakeOrder, BeginFlushOrder DEF Changes, Step

-----------------------------------------------------------------------------
(* Where the game session may be *)

\* The game session of p has left the barrack: nothing of the barrack writes it
\* any more.
Moved(p) ==
    /\ progress[B(p)] \in {"leaving", "left"}
    /\ pending[B(p)] = NoPacket
    /\ \A a \in Actors : On(a, B(p)) => Does(a, {"startGame", "flush"}, Flushes \cup Ends)

\* It waits for the zone server, or a worker there is about to fetch it.
InTransit(p) ==
    \/ game[TransitKey(p)] # Absent
    \/ \E a \in Actors : On(a, Z(p)) /\ task[a].pc = "moveIn"

\* A session of the zone server names it.
Arrived(p) ==
    \/ game[ZoneKey(p)] # Absent
    \/ socket[Z(p)] = Full(Z(p))
    \/ \E a \in Actors : On(a, Z(p)) /\ task[a].pc # "moveIn" /\ task[a].session = Full(Z(p))

HandoverOf(p) ==
    /\ InTransit(p) => Moved(p) /\ game[BarrackKey(p)] = Absent
    /\ Arrived(p) =>
          Moved(p) /\ game[BarrackKey(p)] = Absent /\ game[TransitKey(p)] = Absent

Handover == \A p \in Players : HandoverOf(p)

LEMMA InitHandover == Init => Handover
  <1> SUFFICES ASSUME Init, NEW p \in Players PROVE HandoverOf(p)
    BY DEF Handover
  <1>1. game[TransitKey(p)] = Absent /\ game[ZoneKey(p)] = Absent /\ socket[Z(p)] = Absent
    BY KeyFacts, PlayerFacts DEF Init
  <1>2. \A a \in Actors, c \in Conns : ~ On(a, c)
    BY DEF Init, On, Busy
  <1> QED BY <1>1, <1>2, PlayerFacts, SessionFacts DEF HandoverOf, InTransit, Arrived

\* A command is the end of a task or goes on with it; a flush goes on to its end.
LEMMA CommandCases ==
    ASSUME Shapes, NEW a \in Actors, Command(a)
    PROVE  \/ Answer(a) \/ Fail(a)
           \/ /\ Busy(a) /\ UNCHANGED clientVars /\ task[a].pc \notin Ends
              /\ \E pc, s, n :
                   /\ To(a, pc, s, n)
                   /\ task[a].pc \in Flushes => pc \in Flushes \cup Ends
  <1>1. CASE ReadSocket(a)
    BY <1>1, ReadSocketStep DEF ReadSocket, At, Flushes, Ends, Handled
  <1>2. CASE CreateSocket(a)
    BY <1>2, CreateSocketStep DEF CreateSocket, At, Flushes, Ends, Handled
  <1>3. CASE ReadGame(a)
    BY <1>3, ReadGameStep DEF ReadGame, At, Flushes, Ends, Handled
  <1>4. CASE UpdateSocket(a)
    BY <1>4, UpdateSocketStep DEF UpdateSocket, At, Flushes, Ends
  <1>5. CASE UpdateGame(a)
    BY <1>5, UpdateGameStep DEF UpdateGame, At, Flushes, Ends
  <1>6. CASE MoveOut(a)
    BY <1>6, MoveOutStep DEF MoveOut, At, Flushes, Ends
  <1>7. CASE ReadTransit(a)
    BY <1>7, ReadTransitStep DEF ReadTransit, At, Flushes, Ends
  <1>8. CASE MoveIn(a)
    BY <1>8, MoveInStep DEF MoveIn, At, Flushes, Ends
  <1>9. CASE FlushRead(a)
    BY <1>9, FlushReadStep DEF FlushRead, At, Flushes, Ends
  <1>10. CASE FlushCreate(a)
    BY <1>10, FlushCreateStep DEF FlushCreate, At, Flushes, Ends
  <1>11. CASE FlushGame(a)
    BY <1>11, FlushGameStep DEF FlushGame, At, Flushes, Ends
  <1>12. CASE FlushSocket(a)
    BY <1>12, FlushSocketStep DEF FlushSocket, At, Flushes, Ends
  <1> QED BY <1>1, <1>2, <1>3, <1>4, <1>5, <1>6, <1>7, <1>8, <1>9, <1>10, <1>11, <1>12
      DEF Command

LEMMA MovedKept ==
    ASSUME Shapes, [Changes]_sessionVars, NEW p \in Players, Moved(p)
    PROVE  Moved(p)'
  <1> B(p) \in Conns
    BY PlayerFacts
  <1>1. ASSUME NEW c \in Conns, Client(c) PROVE Moved(p)'
    <2>1. /\ task' = task /\ \A a \in Actors, d \in Conns : On(a, d)' <=> On(a, d)
          /\ \/ UNCHANGED <<progress, pending>>
             \/ progress[c] \in {"connected", "inside"}
      BY <1>1, ClientStep DEF Client, Open, SendEnter, SendStartGame, Close, SendRequest, Send
    <2>2. \A d \in Conns : d # c => progress'[d] = progress[d] /\ pending'[d] = pending[d]
      BY <1>1 DEF Shapes, SessionTypes, Client, Open, SendEnter, SendStartGame, Close, SendRequest, Send
    <2> QED BY <2>1, <2>2 DEF Moved, Does
  <1>2. ASSUME NEW a \in Actors, Answer(a) \/ Fail(a) PROVE Moved(p)'
    <2>1. PICK c \in Conns : c = Conn(a) /\ On(a, c)
      BY <1>2, EndStep DEF On
    <2>2. c = B(p) => task[a].kind \notin Enters
      BY <2>1 DEF Moved, Does, Enters
    <2> QED BY <1>2, <2>1, <2>2, EndStep DEF Moved, Does
  <1>3. ASSUME NEW a \in Actors, Busy(a), UNCHANGED clientVars, task[a].pc \notin Ends,
               NEW pc, NEW s, NEW n, To(a, pc, s, n),
               task[a].pc \in Flushes => pc \in Flushes \cup Ends
        PROVE  Moved(p)'
    <2>1. Same(a) /\ task'[a].kind = task[a].kind /\ task'[a].pc = pc
      BY <1>3, ToFacts
    <2> QED BY <1>3, <2>1 DEF Moved, Does, Same, clientVars
  <1>4. ASSUME NEW a \in Actors, NEW c \in Conns, Take(a, c) PROVE Moved(p)'
    <2>1. /\ ~ Busy(a) /\ progress' = progress /\ pending' = [pending EXCEPT ![c] = NoPacket]
          /\ pending[c] \in Packets /\ pending[c] # NoPacket
          /\ TaskChange(a, Task(c, pending[c], "readSocket", NewSocketSession, 0))
      BY <1>4, TakeStep DEF KindsOf, Packets, NoPacket
    <2>2. c # B(p)
      BY <2>1 DEF Moved
    <2>3. pending'[B(p)] = pending[B(p)]
      BY <2>1, <2>2 DEF Shapes, SessionTypes
    <2>4. /\ \A b \in Actors : \A d \in Conns : On(b, d)' <=> (On(b, d) \/ (b = a /\ d = c))
          /\ \A b \in Actors : b # a => task'[b] = task[b]
          /\ ~ \E d \in Conns : On(a, d)
      BY <2>1, BeginStep
    <2> QED BY <2>1, <2>2, <2>3, <2>4 DEF Moved, Does
  <1>5. ASSUME NEW a \in Actors, NEW c \in Conns, BeginFlush(a, c) PROVE Moved(p)'
    <2>1. /\ ~ Busy(a) /\ UNCHANGED clientVars
          /\ TaskChange(a, Task(c, "flush", "flushRead", NewSocketSession, 0))
      BY <1>5, BeginFlushStep
    <2>2. /\ \A b \in Actors : \A d \in Conns : On(b, d)' <=> (On(b, d) \/ (b = a /\ d = c))
          /\ \A b \in Actors : b # a => task'[b] = task[b]
          /\ task'[a].kind = "flush" /\ task'[a].pc = "flushRead"
      BY <2>1, BeginStep
    <2> QED BY <2>1, <2>2 DEF Moved, Does, clientVars, Flushes
  <1>6. CASE UNCHANGED sessionVars
    BY <1>6 DEF sessionVars, clientVars, Moved, Does, On, Busy, Conn
  <1> QED BY <1>1, <1>2, <1>3, <1>4, <1>5, <1>6, CommandCases DEF Changes, Step

\* A step that brings no session to p's keys keeps Handover.
LEMMA HandoverFrame ==
    ASSUME NEW p \in Players, HandoverOf(p), Moved(p) => Moved(p)',
           InTransit(p)' => InTransit(p), Arrived(p)' => Arrived(p),
           Moved(p) /\ game[BarrackKey(p)] = Absent => game'[BarrackKey(p)] = Absent,
           Arrived(p) /\ game[TransitKey(p)] = Absent => game'[TransitKey(p)] = Absent
    PROVE  HandoverOf(p)'
  BY DEF HandoverOf

\* An actor goes on with its next command, and the keys of p change as listed.
LEMMA ToHandover ==
    ASSUME Shapes, NEW p \in Players, HandoverOf(p), Moved(p) => Moved(p)',
           NEW a \in Actors, Busy(a), NEW pc, NEW s, NEW n, To(a, pc, s, n), pc # "moveIn",
           Conn(a) = Z(p) /\ s = Full(Z(p)) => Arrived(p),
           socket'[Z(p)] = Full(Z(p)) => Arrived(p),
           game'[ZoneKey(p)] # Absent => Arrived(p),
           game'[TransitKey(p)] # Absent => game[TransitKey(p)] # Absent,
           Moved(p) /\ game[BarrackKey(p)] = Absent => game'[BarrackKey(p)] = Absent
    PROVE  HandoverOf(p)'
  <1>1. /\ Same(a) /\ task'[a].pc = pc /\ task'[a].session = s
        /\ On(a, Z(p)) => Conn(a) = Z(p)
    BY ToFacts DEF On
  <1>2. /\ \A b \in Actors : On(b, Z(p))' <=> On(b, Z(p))
        /\ \A b \in Actors : b # a => task'[b] = task[b]
    BY <1>1, PlayerFacts DEF Same
  <1>3. InTransit(p)' => InTransit(p)
    BY <1>1, <1>2 DEF InTransit
  <1>4. Arrived(p)' => Arrived(p)
    BY <1>1, <1>2 DEF Arrived
  <1> QED BY <1>3, <1>4, HandoverFrame

\* The handlers leave the sessions of the zone server as they are.
LEMMA HandledSession ==
    ASSUME Shapes, NEW a \in Actors, Busy(a), NEW p \in Players, NEW s, NEW n,
           Conn(a) = Z(p), Handled(a, s, n)
    PROVE  HandleSession(Conn(a), task[a].kind, s) = s
  <1>1. task[a].kind # "login"
    BY BusyOK, PcKinds, PlayerFacts
  <1> QED BY <1>1 DEF HandleSession

LEMMA HandlePcFacts ==
    ASSUME Shapes, NEW a \in Actors, Busy(a), NEW s, NEW n, Handled(a, s, n)
    PROVE  HandlePc[task[a].kind] # "moveIn"
  BY DEF Handled, HandlePc, KindsOf

\* A copy of a session that has arrived
LEMMA ArrivedCopy ==
    ASSUME NEW p \in Players, NEW a \in Actors, Busy(a), Conn(a) = Z(p),
           task[a].pc # "moveIn", task[a].session = Full(Z(p))
    PROVE  Arrived(p)
  BY DEF Arrived, On

\* While the barrack works for p the game session has not moved.
LEMMA NotMoved ==
    ASSUME NEW p \in Players, NEW a \in Actors, Busy(a), Conn(a) = B(p),
           task[a].pc \notin Flushes \cup Ends
    PROVE  ~ Moved(p)
  BY DEF Moved, Does, On

LEMMA ReadsHandover ==
    ASSUME Shapes, NEW p \in Players, HandoverOf(p), Moved(p) => Moved(p)',
           NEW a \in Actors, ReadSocket(a) \/ CreateSocket(a) \/ ReadGame(a)
    PROVE  HandoverOf(p)'
  <1>1. Z(p) \in Conns /\ Full(Z(p)) # NewSocketSession
    BY PlayerFacts, SessionFacts
  <1>2. CASE ReadSocket(a)
    <2>1. UNCHANGED <<socket, game>> /\ Busy(a)
      BY <1>2, ReadSocketStep DEF ReadSocket, redisVars
    <2>2. (socket'[Z(p)] = Full(Z(p)) => Arrived(p)) /\ (game'[ZoneKey(p)] # Absent => Arrived(p))
      BY <2>1 DEF Arrived
    <2>3. CASE To(a, "createSocket", NewSocketSession, 0)
      BY <1>1, <2>1, <2>2, <2>3, ToHandover
    <2>4. CASE socket[Conn(a)] = Full(Conn(a)) /\ To(a, "readGame", Full(Conn(a)), 0)
      BY <1>1, <2>1, <2>2, <2>4, ToHandover
    <2>5. CASE Handled(a, NewSocketSession, 0)
      BY <1>1, <2>1, <2>2, <2>5, HandledSession, HandlePcFacts, ToHandover DEF Handled
    <2> QED BY <1>2, <2>3, <2>4, <2>5, ReadSocketStep
  <1>3. CASE CreateSocket(a)
    <2>1. game' = game /\ Busy(a) /\ Handled(a, NewSocketSession, 0)
          /\ PutSocket(Conn(a), NewSocketSession) /\ Conn(a) \in Conns
      BY <1>3, CreateSocketStep, BusyOK DEF CreateSocket
    <2>2. socket'[Z(p)] = Full(Z(p)) => socket[Z(p)] = Full(Z(p))
      BY <1>1, <2>1 DEF PutSocket, Shapes, SessionTypes
    <2>3. (socket'[Z(p)] = Full(Z(p)) => Arrived(p)) /\ (game'[ZoneKey(p)] # Absent => Arrived(p))
      BY <2>1, <2>2 DEF Arrived
    <2> QED BY <1>1, <2>1, <2>3, HandledSession, HandlePcFacts, ToHandover DEF Handled
  <1>4. CASE ReadGame(a)
    <2>1. UNCHANGED <<socket, game>> /\ Busy(a) /\ task[a].pc # "moveIn"
      BY <1>4, ReadGameStep DEF ReadGame, redisVars, At
    <2>2. (socket'[Z(p)] = Full(Z(p)) => Arrived(p)) /\ (game'[ZoneKey(p)] # Absent => Arrived(p))
      BY <2>1 DEF Arrived
    <2>3. Conn(a) = Z(p) /\ task[a].session = Full(Z(p)) => Arrived(p)
      BY <2>1, ArrivedCopy
    <2>4. CASE To(a, "fail", task[a].session, task[a].changes)
      BY <2>1, <2>2, <2>3, <2>4, ToHandover
    <2>5. CASE \E n : Handled(a, task[a].session, n)
      BY <2>1, <2>2, <2>3, <2>5, HandledSession, HandlePcFacts, ToHandover DEF Handled
    <2> QED BY <1>4, <2>4, <2>5, ReadGameStep
  <1> QED BY <1>2, <1>3, <1>4

LEMMA PutsHandover ==
    ASSUME Shapes, NEW p \in Players, HandoverOf(p), Moved(p) => Moved(p)',
           NEW a \in Actors, UpdateSocket(a) \/ UpdateGame(a)
    PROVE  HandoverOf(p)'
  <1>1. CASE UpdateSocket(a)
    <2>1. /\ game' = game /\ Busy(a) /\ task[a].pc # "moveIn" /\ Conn(a) \in Conns
          /\ To(a, "putGame", task[a].session, task[a].changes)
          /\ PutSocket(Conn(a), task[a].session)
      BY <1>1, UpdateSocketStep, BusyOK DEF UpdateSocket, At
    <2>2. Conn(a) = Z(p) /\ task[a].session = Full(Z(p)) => Arrived(p)
      BY <2>1, ArrivedCopy
    <2>3. socket'[Z(p)] = Full(Z(p)) => Arrived(p)
      BY <2>1, <2>2, PlayerFacts DEF PutSocket, Shapes, SessionTypes, Arrived
    <2>4. game'[ZoneKey(p)] # Absent => Arrived(p)
      BY <2>1 DEF Arrived
    <2> QED BY <2>1, <2>2, <2>3, <2>4, ToHandover
  <1>2. CASE UpdateGame(a)
    <2> DEFINE key == GameKey(Conn(a), task[a].session)
    <2>1. /\ socket' = socket /\ Busy(a) /\ task[a].pc = "putGame" /\ Conn(a) \in Conns
          /\ To(a, "answer", task[a].session, task[a].changes)
          /\ key \in GameKeys /\ Shaped(Conn(a), task[a].session)
          /\ \A k \in GameKeys : k # key => game'[k] = game[k]
      BY <1>2, UpdateGameStep, BusyOK DEF UpdateGame, At, Shapes, SessionTypes
    <2>2. Conn(a) = Z(p) /\ task[a].session = Full(Z(p)) => Arrived(p)
      BY <2>1, ArrivedCopy
    <2>3. socket'[Z(p)] = Full(Z(p)) => Arrived(p)
      BY <2>1 DEF Arrived
    <2>4. /\ key # TransitKey(p)
          /\ key = BarrackKey(p) => Conn(a) = B(p)
          /\ key = ZoneKey(p) => Conn(a) = Z(p) /\ task[a].session = Full(Conn(a))
      BY <2>1, GameKeyFacts
    <2>5. game'[ZoneKey(p)] # Absent => Arrived(p)
      BY <2>1, <2>2, <2>4, KeyFacts DEF Arrived
    <2>6. game'[TransitKey(p)] = game[TransitKey(p)]
      BY <2>1, <2>4, KeyFacts
    <2>7. key = BarrackKey(p) => ~ Moved(p)
      BY <2>1, <2>4, NotMoved DEF Flushes, Ends
    <2>8. Moved(p) => game'[BarrackKey(p)] = game[BarrackKey(p)]
      BY <2>1, <2>7, KeyFacts
    <2> QED BY <2>1, <2>2, <2>3, <2>5, <2>6, <2>8, ToHandover
  <1> QED BY <1>1, <1>2

LEMMA FlushesHandover ==
    ASSUME Shapes, NEW p \in Players, HandoverOf(p), Moved(p) => Moved(p)',
           NEW a \in Actors,
           FlushRead(a) \/ FlushCreate(a) \/ FlushGame(a) \/ FlushSocket(a)
    PROVE  HandoverOf(p)'
  <1>0. Z(p) \in Conns /\ Full(Z(p)) # NewSocketSession /\ Full(Z(p)) # Absent
    BY PlayerFacts, SessionFacts
  <1>1. Busy(a) /\ Conn(a) \in Conns /\ task[a].pc # "moveIn"
    <2>1. Busy(a) /\ task[a].pc # "moveIn"
      BY DEF FlushRead, FlushCreate, FlushGame, FlushSocket, At
    <2> QED BY <2>1, BusyOK
  <1>2. Conn(a) = Z(p) /\ task[a].session = Full(Z(p)) => Arrived(p)
    BY <1>1, ArrivedCopy
  <1>3. CASE FlushRead(a)
    <2>1. UNCHANGED <<socket, game>>
      BY <1>3 DEF FlushRead, redisVars
    <2>2. /\ socket'[Z(p)] = Full(Z(p)) => Arrived(p)
          /\ game'[ZoneKey(p)] # Absent => Arrived(p)
      BY <2>1 DEF Arrived
    <2>3. CASE To(a, "flushCreate", NewSocketSession, 0)
      BY <1>0, <1>1, <2>1, <2>2, <2>3, ToHandover
    <2>4. CASE To(a, "flushGame", socket[Conn(a)], 0)
      BY <1>1, <2>1, <2>2, <2>4, ToHandover
    <2> QED BY <1>3, <2>3, <2>4, FlushReadStep
  <1>4. CASE FlushCreate(a) \/ FlushSocket(a)
    <2>1. /\ game' = game
          /\ \E s \in {NewSocketSession, Absent} : PutSocket(Conn(a), s)
          /\ \E pc \in {"flushGame", "answer"} : To(a, pc, task[a].session, task[a].changes)
      BY <1>4, FlushCreateStep, FlushSocketStep DEF FlushCreate, FlushSocket
    <2>2. socket'[Z(p)] = Full(Z(p)) => Arrived(p)
      BY <1>0, <1>1, <2>1 DEF PutSocket, Shapes, SessionTypes, Arrived
    <2>3. game'[ZoneKey(p)] # Absent => Arrived(p)
      BY <2>1 DEF Arrived
    <2> QED BY <1>1, <1>2, <2>1, <2>2, <2>3, ToHandover
  <1>5. CASE FlushGame(a)
    <2>1. /\ socket' = socket
          /\ To(a, "flushSocket", task[a].session, task[a].changes)
          /\ \A k \in GameKeys : game'[k] = game[k] \/ game'[k] = Absent
      BY <1>5, FlushGameStep DEF FlushGame, Shapes, SessionTypes
    <2>2. /\ socket'[Z(p)] = Full(Z(p)) => Arrived(p)
          /\ game'[ZoneKey(p)] # Absent => Arrived(p)
      BY <2>1, KeyFacts DEF Arrived
    <2> QED BY <1>1, <1>2, <2>1, <2>2, KeyFacts, ToHandover
  <1> QED BY <1>3, <1>4, <1>5

\* The session of p moves from the barrack into transit, where nothing was.
LEMMA MoveOutHandover ==
    ASSUME OneAtATime, Shapes, Order, NEW p \in Players, HandoverOf(p), Moved(p) => Moved(p)',
           NEW a \in Actors, MoveOut(a)
    PROVE  HandoverOf(p)'
  <1> DEFINE s == task[a].session
             from == GameKey(Conn(a), s)
             to == TransitKey(s.account)
  <1>1. /\ socket' = socket /\ Busy(a) /\ task[a].pc = "moveOut" /\ task[a].kind = "startGame"
        /\ Conn(a) \in Conns /\ ServerOf(Conn(a)) = "barrack" /\ Shaped(Conn(a), s)
        /\ from \in GameKeys /\ to \in GameKeys
    BY MoveOutStep, BusyOK DEF MoveOut, At
  <1>2. Conn(a) # Z(p)
    BY <1>1, PlayerFacts
  <1>3. /\ from # ZoneKey(p) /\ from # TransitKey(p) /\ to # ZoneKey(p) /\ to # BarrackKey(p)
        /\ from = BarrackKey(p) => Conn(a) = B(p) /\ s = Full(B(p))
        /\ to = TransitKey(p) => Conn(a) = B(p) /\ s = Full(B(p))
        /\ \A q \in Players : to # StrayKey(q)
    <2>1. /\ from # TransitKey(p) /\ to # ZoneKey(p) /\ to # BarrackKey(p)
          /\ from = BarrackKey(p) => Conn(a) = B(p) /\ s = Full(Conn(a))
          /\ from = ZoneKey(p) => Conn(a) = Z(p)
          /\ to = TransitKey(p) => s = Full(Conn(a)) /\ p = PlayerOf(Conn(a))
          /\ \A q \in Players : to # StrayKey(q)
      BY <1>1, GameKeyFacts
    <2> QED BY <1>1, <1>2, <2>1, ConnFacts
  <1>4. CASE game' = game /\ To(a, "fail", s, task[a].changes)
    <2>1. (socket'[Z(p)] = Full(Z(p)) => Arrived(p)) /\ (game'[ZoneKey(p)] # Absent => Arrived(p))
      BY <1>1, <1>4 DEF Arrived
    <2> QED BY <1>1, <1>2, <1>4, <2>1, ToHandover
  <1>5. CASE Rename(from, to) /\ To(a, "flushRead", s, task[a].changes)
    <2>1. /\ game[from] # Absent /\ (from # to => game'[from] = Absent)
          /\ \A k \in GameKeys : k # from /\ k # to => game'[k] = game[k]
      BY <1>1, <1>3, <1>5, RenameOK
    <2>2. game'[ZoneKey(p)] = game[ZoneKey(p)]
      BY <1>3, <2>1, KeyFacts
    <2>3. (socket'[Z(p)] = Full(Z(p)) => Arrived(p)) /\ (game'[ZoneKey(p)] # Absent => Arrived(p))
      BY <1>1, <2>2 DEF Arrived
    <2>4. CASE Conn(a) # B(p)
      <3>1. game'[TransitKey(p)] = game[TransitKey(p)] /\ game'[BarrackKey(p)] = game[BarrackKey(p)]
        BY <1>3, <2>1, <2>4, KeyFacts
      <3> QED BY <1>1, <1>2, <1>5, <2>3, <3>1, ToHandover
    <2>5. CASE Conn(a) = B(p) /\ s # Full(B(p))
      <3>1. game'[TransitKey(p)] = game[TransitKey(p)] /\ game'[BarrackKey(p)] = game[BarrackKey(p)]
        BY <1>3, <2>1, <2>5, KeyFacts
      <3> QED BY <1>1, <1>2, <1>5, <2>3, <3>1, ToHandover
    <2>6. CASE Conn(a) = B(p) /\ s = Full(B(p))
      <3>1. On(a, B(p)) /\ B(p) \in Conns
        BY <1>1, <2>6, PlayerFacts DEF On
      <3>2. from = BarrackKey(p) /\ game'[BarrackKey(p)] = Absent
        BY <1>3, <2>1, <2>6, KeyFacts
      <3>3. ~ Arrived(p)
        BY <2>1, <3>2 DEF HandoverOf
      <3>4. /\ Same(a) /\ task'[a].kind = "startGame" /\ task'[a].pc = "flushRead"
        BY <1>1, <1>5, ToFacts
      <3>5. ~ Arrived(p)'
        <4>1. ~ On(a, Z(p)) /\ Z(p) \in Conns
          BY <1>2, PlayerFacts DEF On
        <4> QED BY <2>3, <3>3, <3>4, <4>1 DEF Arrived, Same
      <3>6. progress[B(p)] = "leaving" /\ pending[B(p)] = NoPacket
        BY <1>1, <3>1 DEF Order, LeavingOK
      <3>7. UNCHANGED clientVars
        BY DEF MoveOut
      <3>8. ASSUME NEW b \in Actors, On(b, B(p)), b # a
            PROVE  Does(b, {"startGame", "flush"}, Flushes \cup Ends)
        <4>1. task[b].kind = "flush"
          BY <1>1, <3>1, <3>8, OnlyWorker
        <4> QED BY <3>8, <4>1, PcKinds DEF Does, Ends, On
      <3>9. Moved(p)'
        <4>1. /\ Does(a, {"startGame", "flush"}, Flushes \cup Ends)'
              /\ \A b \in Actors : On(b, B(p))' <=> On(b, B(p))
              /\ \A b \in Actors : b # a => task'[b] = task[b]
          BY <3>1, <3>4 DEF Does, Flushes, Same
        <4>2. \A b \in Actors : On(b, B(p))' => Does(b, {"startGame", "flush"}, Flushes \cup Ends)'
          BY <3>8, <4>1 DEF Does
        <4> QED BY <3>6, <3>7, <4>2 DEF Moved, clientVars
      <3> QED BY <3>2, <3>5, <3>9 DEF HandoverOf
    <2> QED BY <2>4, <2>5, <2>6
  <1> QED BY <1>4, <1>5, MoveOutStep

\* A worker of the zone server is the only one to fetch a session.
LEMMA ZoneHandover ==
    ASSUME Shapes, NEW p \in Players, HandoverOf(p), Moved(p) => Moved(p)',
           NEW a \in Actors, ReadTransit(a) \/ MoveIn(a)
    PROVE  HandoverOf(p)'
  <1> DEFINE q == PlayerOf(Conn(a))
  <1>1. /\ socket' = socket /\ Busy(a) /\ q \in Players /\ Conn(a) = Z(q)
        /\ q # p => Conn(a) # Z(p)
    BY ReadTransitStep, MoveInStep, PlayerFacts DEF ReadTransit, MoveIn, redisVars
  <1>2. socket'[Z(p)] = Full(Z(p)) => Arrived(p)
    BY <1>1 DEF Arrived
  <1>3. Conn(a) = Z(p) /\ task[a].pc # "moveIn" /\ task[a].session = Full(Z(p)) => Arrived(p)
    BY <1>1, ArrivedCopy
  <1>4. CASE ReadTransit(a)
    <2>1. game' = game /\ task[a].pc # "moveIn"
      BY <1>4, ReadTransitStep DEF ReadTransit, redisVars, At
    <2>2. game'[ZoneKey(p)] # Absent => Arrived(p)
      BY <2>1 DEF Arrived
    <2>3. CASE To(a, "fail", task[a].session, task[a].changes)
      BY <1>1, <1>2, <1>3, <2>1, <2>2, <2>3, ToHandover
    <2>4. CASE /\ game[TransitKey(q)] # Absent
               /\ To(a, "moveIn", Full(Z(q)), game[TransitKey(q)].changes)
      <3>1. Same(a) /\ task'[a].pc = "moveIn"
        BY <1>1, <2>4, ToFacts
      <3>2. /\ \A b \in Actors : On(b, Z(p))' <=> On(b, Z(p))
            /\ \A b \in Actors : b # a => task'[b] = task[b]
        BY <3>1, PlayerFacts DEF Same
      <3>3. On(a, Z(p)) => q = p
        BY <1>1 DEF On
      <3>4. InTransit(p)' => InTransit(p)
        BY <2>1, <2>4, <3>2, <3>3 DEF InTransit
      <3>5. Arrived(p)' => Arrived(p)
        BY <1>2, <2>2, <3>1, <3>2 DEF Arrived
      <3> QED BY <2>1, <3>4, <3>5, HandoverFrame
    <2> QED BY <1>4, <2>3, <2>4, ReadTransitStep
  <1>5. CASE MoveIn(a)
    <2>1. task[a].pc = "moveIn" /\ task[a].session = Full(Z(q))
      BY <1>5, MoveInStep DEF At
    <2>2. q = p => InTransit(p)
      BY <1>1, <2>1 DEF InTransit, On
    <2>3. /\ \/ Rename(TransitKey(q), ZoneKey(q)) /\ game'[TransitKey(q)] = Absent
             \/ game[TransitKey(q)] = Absent /\ game' = game
          /\ \A k \in GameKeys : k # TransitKey(q) /\ k # ZoneKey(q) => game'[k] = game[k]
          /\ \E pc \in {"putSocket", "fail"} : To(a, pc, Full(Z(q)), task[a].changes)
      <3>1. /\ TransitKey(q) \in GameKeys /\ ZoneKey(q) \in GameKeys
            /\ TransitKey(q) # ZoneKey(q) /\ \A r \in Players : ZoneKey(q) # StrayKey(r)
        BY <1>1, KeyFacts DEF ZoneKey, StrayKey
      <3> QED BY <1>5, <3>1, MoveInStep, RenameOK
    <2>4. /\ BarrackKey(p) \notin {TransitKey(q), ZoneKey(q)}
          /\ q # p => {TransitKey(p), ZoneKey(p)} \cap {TransitKey(q), ZoneKey(q)} = {}
          /\ BarrackKey(p) \in GameKeys /\ ZoneKey(p) \in GameKeys /\ TransitKey(p) \in GameKeys
      BY <1>1, KeyFacts DEF BarrackKey, TransitKey, ZoneKey
    <2>5. game'[BarrackKey(p)] = game[BarrackKey(p)]
      BY <2>3, <2>4
    <2>6. CASE q # p
      <3>1. game'[TransitKey(p)] = game[TransitKey(p)] /\ game'[ZoneKey(p)] = game[ZoneKey(p)]
        BY <2>3, <2>4, <2>6
      <3>2. game'[ZoneKey(p)] # Absent => Arrived(p)
        BY <3>1 DEF Arrived
      <3> QED BY <1>1, <1>2, <2>3, <2>5, <2>6, <3>1, <3>2, ToHandover
    <2>7. CASE q = p
      <3>1. game'[TransitKey(p)] = Absent
        BY <2>3, <2>7
      <3>2. Moved(p)' /\ game'[BarrackKey(p)] = Absent
        BY <2>2, <2>5, <2>7 DEF HandoverOf
      <3> QED BY <3>1, <3>2 DEF HandoverOf
    <2> QED BY <2>6, <2>7
  <1> QED BY <1>4, <1>5

LEMMA EndHandover ==
    ASSUME Shapes, NEW p \in Players, HandoverOf(p), Moved(p) => Moved(p)',
           NEW a \in Actors, Answer(a) \/ Fail(a)
    PROVE  HandoverOf(p)'
  <1>1. /\ UNCHANGED <<socket, game>>
        /\ \A b \in Actors : On(b, Z(p))' <=> (On(b, Z(p)) /\ b # a)
        /\ \A b \in Actors : b # a => task'[b] = task[b]
    BY EndStep, PlayerFacts DEF redisVars
  <1>2. InTransit(p)' => InTransit(p)
    BY <1>1 DEF InTransit
  <1>3. Arrived(p)' => Arrived(p)
    BY <1>1 DEF Arrived
  <1> QED BY <1>1, <1>2, <1>3, HandoverFrame

LEMMA BeginHandover ==
    ASSUME Shapes, NEW p \in Players, HandoverOf(p), Moved(p) => Moved(p)',
           NEW a \in Actors, NEW c \in Conns, Take(a, c) \/ BeginFlush(a, c)
    PROVE  HandoverOf(p)'
  <1>1. PICK kind \in Packets \cup {"flush"}, pc \in {"readSocket", "flushRead"} :
            ~ Busy(a) /\ TaskChange(a, Task(c, kind, pc, NewSocketSession, 0))
    BY TakeStep, BeginFlushStep DEF KindsOf, Packets
  <1>2. /\ \A b \in Actors : On(b, Z(p))' <=> (On(b, Z(p)) \/ (b = a /\ Z(p) = c))
        /\ \A b \in Actors : b # a => task'[b] = task[b]
        /\ task'[a].pc # "moveIn" /\ task'[a].session # Full(Z(p))
        /\ ~ On(a, Z(p))
    BY <1>1, BeginStep, PlayerFacts, SessionFacts
  <1>3. UNCHANGED <<socket, game>>
    BY DEF Take, BeginFlush, redisVars
  <1>4. InTransit(p)' => InTransit(p)
    BY <1>2, <1>3 DEF InTransit
  <1>5. Arrived(p)' => Arrived(p)
    BY <1>2, <1>3 DEF Arrived
  <1> QED BY <1>3, <1>4, <1>5, HandoverFrame

LEMMA NextHandover == OneAtATime /\ Shapes /\ Order /\ Handover /\ [Changes]_sessionVars => Handover'
  <1> SUFFICES ASSUME OneAtATime, Shapes, Order, Handover, [Changes]_sessionVars, NEW p \in Players
               PROVE  HandoverOf(p)'
    BY DEF Handover
  <1>1. HandoverOf(p) /\ (Moved(p) => Moved(p)')
    BY MovedKept DEF Handover
  <1>2. ASSUME NEW c \in Conns, Client(c) PROVE HandoverOf(p)'
    <2>1. UNCHANGED <<task, socket, game>> /\ \A a \in Actors, d \in Conns : On(a, d)' <=> On(a, d)
      BY <1>2, ClientStep DEF redisVars
    <2>2. (InTransit(p)' => InTransit(p)) /\ (Arrived(p)' => Arrived(p))
      BY <2>1, PlayerFacts DEF InTransit, Arrived
    <2> QED BY <1>1, <2>1, <2>2, HandoverFrame
  <1>3. CASE UNCHANGED sessionVars
    <2>1. UNCHANGED <<task, socket, game>> /\ \A a \in Actors, d \in Conns : On(a, d)' <=> On(a, d)
      BY <1>3 DEF sessionVars, redisVars, On, Busy, Conn
    <2>2. (InTransit(p)' => InTransit(p)) /\ (Arrived(p)' => Arrived(p))
      BY <2>1, PlayerFacts DEF InTransit, Arrived
    <2> QED BY <1>1, <2>1, <2>2, HandoverFrame
  <1>4. ASSUME NEW a \in Actors, Command(a) PROVE HandoverOf(p)'
    BY <1>1, <1>4, ReadsHandover, PutsHandover, FlushesHandover, MoveOutHandover, ZoneHandover,
       EndHandover DEF Command
  <1> QED BY <1>1, <1>2, <1>3, <1>4, BeginHandover DEF Changes, Step

LEMMA HandoverUnique == Shapes /\ Handover => OneGameSession
  <1> SUFFICES ASSUME Shapes, Handover, NEW p \in Players
               PROVE  Cardinality(Homes(p)) <= 1
    BY DEF OneGameSession
  <1>1. Homes(p) \subseteq {BarrackKey(p), ZoneKey(p), TransitKey(p)}
    BY KeyFacts DEF Homes, Shapes
  <1>2. \/ game[BarrackKey(p)] = Absent /\ game[TransitKey(p)] = Absent
        \/ game[BarrackKey(p)] = Absent /\ game[ZoneKey(p)] = Absent
        \/ game[TransitKey(p)] = Absent /\ game[ZoneKey(p)] = Absent
    BY DEF Handover, HandoverOf, InTransit, Arrived
  <1>3. Homes(p) = {} \/ \E k \in GameKeys : Homes(p) = {k}
    BY <1>1, <1>2, KeyFacts DEF Homes
  <1>4. CASE Homes(p) = {}
    <2>1. Cardinality(Homes(p)) = 0
      BY <1>4, FS_EmptySet
    <2> QED BY <2>1
  <1>5. ASSUME NEW k \in GameKeys, Homes(p) = {k} PROVE Cardinality(Homes(p)) <= 1
    <2>1. Cardinality({k}) = 1
      BY FS_Singleton
    <2>2. Cardinality(Homes(p)) = 1
      BY <1>5, <2>1
    <2> QED BY <2>2
  <1> QED BY <1>3, <1>4, <1>5

-----------------------------------------------------------------------------
(* The two sessions of a client go together *)

Owned(c) ==
    LET g == game[GameKey(c, Full(c))] IN g # Absent /\ g.owner = c

\* a is between the two commands of an update, or of a flush, of connection c,
\* or flushes it after it has moved the game session.
Between(a, c) ==
    /\ On(a, c)
    /\ \/ task[a].pc = "putGame" /\ task[a].session = Full(c)
       \/ task[a].pc = "flushSocket"
       \/ Does(a, {"startGame"}, Flushes)

HasGame(c) == socket[c] = Full(c) => Owned(c) \/ \E a \in Actors : Between(a, c)

Paired == \A c \in Conns : HasGame(c)

LEMMA OwnKey ==
    ASSUME NEW c \in Conns
    PROVE  /\ GameKey(c, Full(c)) \in GameKeys
           /\ \A d \in Conns : \A s : Shaped(d, s) /\ GameKey(d, s) = GameKey(c, Full(c))
                => d = c /\ s = Full(c)
           /\ \A p \in Players : GameKey(c, Full(c)) # TransitKey(p)
           /\ \A p \in Players : GameKey(c, Full(c)) = ZoneKey(p) => c = Z(p)
           /\ \A d \in Conns : \A s : Shaped(d, s) => GameKey(c, Full(c)) # TransitKey(s.account)
  <1> DEFINE p == PlayerOf(c)
  <1>1. p \in Players /\ ServerOf(c) \in Servers /\ Shaped(c, Full(c))
        /\ (c = B(p) \/ c = Z(p))
    BY ConnFacts DEF Shaped, Servers
  <1>2. GameKey(c, Full(c)) = BarrackKey(p) \/ GameKey(c, Full(c)) = ZoneKey(p)
    BY <1>1, KeyFacts
  <1>3. GameKey(c, Full(c)) = BarrackKey(p) => c = B(p)
    BY <1>1, GameKeyFacts
  <1>4. GameKey(c, Full(c)) = ZoneKey(p) => c = Z(p)
    BY <1>1, GameKeyFacts
  <1>5. ASSUME NEW d \in Conns, NEW s, Shaped(d, s), GameKey(d, s) = GameKey(c, Full(c))
        PROVE  d = c /\ s = Full(c)
    BY <1>1, <1>2, <1>3, <1>4, <1>5, GameKeyFacts
  <1>6. ASSUME NEW d \in Conns, NEW s, Shaped(d, s) PROVE GameKey(c, Full(c)) # TransitKey(s.account)
    BY <1>1, <1>2, <1>6, GameKeyFacts
  <1> QED BY <1>1, <1>4, <1>5, <1>6, GameKeyFacts

LEMMA InitPaired == Init => Paired
  BY SessionFacts DEF Init, Paired, HasGame

\* What another actor does is nothing to the one between two commands.
LEMMA PairedTo ==
    ASSUME Shapes, NEW c \in Conns, HasGame(c),
           NEW a \in Actors, Busy(a), NEW pc, NEW s, NEW n, To(a, pc, s, n),
           socket'[c] = Full(c) => socket[c] = Full(c),
           Owned(c) => Owned(c)' \/ Between(a, c)',
           Between(a, c) => Owned(c)' \/ Between(a, c)'
    PROVE  HasGame(c)'
  <1>1. Same(a)
    BY ToFacts
  <1>2. ASSUME NEW b \in Actors, b # a, Between(b, c) PROVE Between(b, c)'
    <2>1. On(b, c)' /\ task'[b] = task[b]
      BY <1>1, <1>2 DEF Same, Between
    <2> QED BY <1>2, <2>1 DEF Between, Does
  <1> QED BY <1>2 DEF HasGame

LEMMA QuietPaired ==
    ASSUME Shapes, NEW c \in Conns, HasGame(c),
           NEW a \in Actors, Busy(a), NEW pc, NEW s, NEW n, To(a, pc, s, n),
           UNCHANGED game, socket'[c] = Full(c) => socket[c] = Full(c),
           task[a].pc \notin {"putGame"} \cup Flushes
    PROVE  HasGame(c)'
  <1>1. Owned(c) => Owned(c)'
    BY DEF Owned
  <1>2. ~ Between(a, c)
    BY DEF Between, Does, Flushes
  <1> QED BY <1>1, <1>2, PairedTo

LEMMA PutPaired ==
    ASSUME Shapes, NEW c \in Conns, HasGame(c), NEW a \in Actors,
           UpdateSocket(a) \/ UpdateGame(a)
    PROVE  HasGame(c)'
  <1> DEFINE d == Conn(a)
             s == task[a].session
  <1>1. CASE UpdateSocket(a)
    <2>1. /\ Busy(a) /\ d \in Conns /\ Shaped(d, s) /\ UNCHANGED game
          /\ task[a].pc = "putSocket"
          /\ To(a, "putGame", s, task[a].changes)
          /\ PutSocket(d, s)
      BY <1>1, UpdateSocketStep, BusyOK DEF UpdateSocket, At
    <2>2. socket'[d] = s /\ \A e \in Conns : e # d => socket'[e] = socket[e]
      BY <2>1, PutSocketOK
    <2>3. CASE c # d
      BY <2>1, <2>2, <2>3, QuietPaired DEF Flushes
    <2>4. CASE c = d /\ s = Full(c)
      <3>1. On(a, c)' /\ task'[a].pc = "putGame" /\ task'[a].session = Full(c)
        BY <2>1, <2>4, ToFacts DEF Same, On
      <3>2. Between(a, c)'
        BY <3>1 DEF Between
      <3> QED BY <3>2 DEF HasGame
    <2>5. CASE c = d /\ s # Full(c)
      <3>1. socket'[c] # Full(c)
        BY <2>2, <2>5
      <3> QED BY <3>1 DEF HasGame
    <2> QED BY <2>3, <2>4, <2>5
  <1>2. CASE UpdateGame(a)
    <2> DEFINE key == GameKey(d, s)
               g == [owner |-> d, changes |-> task[a].changes]
    <2>1. /\ Busy(a) /\ d \in Conns /\ Shaped(d, s) /\ UNCHANGED socket
          /\ task[a].pc = "putGame"
          /\ To(a, "answer", s, task[a].changes)
          /\ key \in GameKeys /\ game' = [game EXCEPT ![key] = g]
          /\ g \in Games
      BY <1>2, UpdateGameStep, BusyOK DEF UpdateGame, At, Games
    <2>2. game'[key] = g /\ \A k \in GameKeys : k # key => game'[k] = game[k]
      BY <2>1 DEF Shapes, SessionTypes
    <2>3. CASE key = GameKey(c, Full(c))
      <3>1. d = c
        BY <2>1, <2>3, OwnKey
      <3>2. game'[GameKey(c, Full(c))] = g /\ g.owner = c /\ g # Absent
        BY <2>1, <2>2, <2>3, <3>1, AbsentAssumption
      <3>3. Owned(c)'
        BY <3>2 DEF Owned
      <3> QED BY <3>3 DEF HasGame
    <2>4. CASE key # GameKey(c, Full(c))
      <3>1. Owned(c) => Owned(c)'
        BY <2>2, <2>4, OwnKey DEF Owned
      <3>2. ~ Between(a, c)
        BY <2>1, <2>4 DEF Between, Does, Flushes, On
      <3> QED BY <2>1, <3>1, <3>2, PairedTo
    <2> QED BY <2>3, <2>4
  <1> QED BY <1>1, <1>2

LEMMA MovePaired ==
    ASSUME Shapes, Handover, NEW c \in Conns, HasGame(c), NEW a \in Actors,
           MoveOut(a) \/ MoveIn(a)
    PROVE  HasGame(c)'
  <1> DEFINE d == Conn(a)
             s == task[a].session
  <1>1. Busy(a) /\ UNCHANGED socket /\ task[a].pc \notin {"putGame"} \cup Flushes
        /\ d \in Conns /\ Shaped(d, s)
    <2>1. Busy(a) /\ UNCHANGED socket /\ task[a].pc \notin {"putGame"} \cup Flushes
      BY DEF MoveOut, MoveIn, At, Flushes
    <2> QED BY <2>1, BusyOK
  <1>2. CASE game' = game
    <2>1. \E pc, n, t : To(a, pc, t, n)
      BY MoveOutStep, MoveInStep
    <2> QED BY <1>1, <1>2, <2>1, QuietPaired
  <1>3. CASE MoveOut(a) /\ game' # game
    <2> DEFINE from == GameKey(d, s)
               to == TransitKey(s.account)
    <2>1. /\ Rename(from, to) /\ from \in GameKeys /\ to \in GameKeys
          /\ To(a, "flushRead", s, task[a].changes) /\ task[a].kind = "startGame"
      BY <1>3, MoveOutStep
    <2>2. \A k \in GameKeys : k # from /\ k # to => game'[k] = game[k]
      BY <2>1 DEF Rename
    <2>3. to # GameKey(c, Full(c)) /\ GameKey(c, Full(c)) \in GameKeys
      BY <1>1, OwnKey
    <2>4. CASE from # GameKey(c, Full(c))
      <3>1. Owned(c) => Owned(c)'
        BY <2>2, <2>3, <2>4 DEF Owned
      <3>2. ~ Between(a, c)
        BY <1>1 DEF Between, Does, Flushes
      <3> QED BY <1>1, <2>1, <3>1, <3>2, PairedTo
    <2>5. CASE from = GameKey(c, Full(c))
      <3>1. d = c
        BY <1>1, <2>5, OwnKey
      <3>2. On(a, c)' /\ task'[a].kind = "startGame" /\ task'[a].pc = "flushRead"
        BY <1>1, <2>1, <3>1, ToFacts DEF Same, On
      <3>3. Between(a, c)'
        BY <3>2 DEF Between, Does, Flushes
      <3> QED BY <3>3 DEF HasGame
    <2> QED BY <2>4, <2>5
  <1>4. CASE MoveIn(a) /\ game' # game
    <2> DEFINE p == PlayerOf(d)
    <2>1. /\ Rename(TransitKey(p), ZoneKey(p)) /\ p \in Players /\ d = Z(p)
          /\ To(a, "putSocket", Full(Z(p)), task[a].changes)
      BY <1>4, MoveInStep
    <2>2. /\ game[TransitKey(p)] # Absent
          /\ \A k \in GameKeys : k # TransitKey(p) /\ k # ZoneKey(p) => game'[k] = game[k]
      BY <2>1 DEF Rename
    <2>3. socket[Z(p)] # Full(Z(p))
      BY <2>1, <2>2 DEF Handover, HandoverOf, Arrived
    <2>4. CASE c = Z(p)
      BY <1>1, <2>3, <2>4 DEF HasGame
    <2>5. CASE c # Z(p)
      <3>1. /\ GameKey(c, Full(c)) \in GameKeys
            /\ GameKey(c, Full(c)) \notin {TransitKey(p), ZoneKey(p)}
        BY <2>1, <2>5, OwnKey
      <3>2. Owned(c) => Owned(c)'
        BY <2>2, <3>1 DEF Owned
      <3>3. ~ Between(a, c)
        BY <1>1 DEF Between, Does, Flushes
      <3> QED BY <1>1, <2>1, <3>2, <3>3, PairedTo
    <2> QED BY <2>4, <2>5
  <1> QED BY <1>2, <1>3, <1>4

LEMMA FlushPaired ==
    ASSUME Shapes, NEW c \in Conns, HasGame(c), NEW a \in Actors,
           FlushRead(a) \/ FlushCreate(a) \/ FlushGame(a) \/ FlushSocket(a)
    PROVE  HasGame(c)'
  <1> DEFINE d == Conn(a)
             s == task[a].session
  <1>1. Busy(a) /\ d \in Conns /\ Shaped(d, s)
    <2>1. Busy(a)
      BY DEF FlushRead, FlushCreate, FlushGame, FlushSocket, At
    <2> QED BY <2>1, BusyOK
  <1>2. CASE FlushRead(a)
    <2>1. /\ UNCHANGED <<socket, game>> /\ task[a].pc = "flushRead"
          /\ \E pc \in {"flushCreate", "flushGame"} : \E t, n : To(a, pc, t, n)
      BY <1>2, FlushReadStep DEF FlushRead, redisVars, At
    <2>2. PICK pc, t, n : pc \in {"flushCreate", "flushGame"} /\ To(a, pc, t, n)
      BY <2>1
    <2>3. Same(a) /\ task'[a].kind = task[a].kind /\ task'[a].pc = pc
      BY <1>1, <2>2, ToFacts
    <2>4. Between(a, c) => Between(a, c)'
      BY <2>1, <2>2, <2>3 DEF Between, Does, Flushes, Same
    <2>5. Owned(c) => Owned(c)'
      BY <2>1 DEF Owned
    <2> QED BY <1>1, <2>1, <2>2, <2>4, <2>5, PairedTo
  <1>3. CASE FlushCreate(a) \/ FlushSocket(a)
    <2>1. /\ UNCHANGED game /\ task[a].pc \in {"flushCreate", "flushSocket"}
          /\ \E t \in {NewSocketSession, Absent} : PutSocket(d, t)
          /\ \E pc : To(a, pc, s, task[a].changes)
      BY <1>3, FlushCreateStep, FlushSocketStep DEF FlushCreate, FlushSocket, At
    <2>2. CASE c = d
      <3>1. socket'[c] # Full(c)
        BY <1>1, <2>1, <2>2, SessionFacts DEF PutSocket, Shapes, SessionTypes
      <3> QED BY <3>1 DEF HasGame
    <2>3. CASE c # d
      <3>1. socket'[c] = socket[c]
        BY <2>1, <2>3 DEF PutSocket, Shapes, SessionTypes
      <3>2. ~ Between(a, c)
        BY <2>3 DEF Between, On
      <3>3. Owned(c) => Owned(c)'
        BY <2>1 DEF Owned
      <3> QED BY <1>1, <2>1, <3>1, <3>2, <3>3, PairedTo
    <2> QED BY <2>2, <2>3
  <1>4. CASE FlushGame(a)
    <2> DEFINE key == GameKey(d, s)
    <2>1. /\ UNCHANGED socket /\ task[a].pc = "flushGame"
          /\ To(a, "flushSocket", s, task[a].changes)
          /\ \A k \in GameKeys : k # key => game'[k] = game[k]
      BY <1>4, FlushGameStep DEF FlushGame, Shapes, SessionTypes, At
    <2>2. CASE c = d
      <3>1. On(a, c)' /\ task'[a].pc = "flushSocket"
        BY <1>1, <2>1, <2>2, ToFacts DEF Same, On
      <3>2. Between(a, c)'
        BY <3>1 DEF Between
      <3> QED BY <3>2 DEF HasGame
    <2>3. CASE c # d
      <3>1. key # GameKey(c, Full(c)) /\ GameKey(c, Full(c)) \in GameKeys
        BY <1>1, <2>3, OwnKey
      <3>2. Owned(c) => Owned(c)'
        BY <2>1, <3>1 DEF Owned
      <3>3. ~ Between(a, c)
        BY <2>3 DEF Between, On
      <3> QED BY <1>1, <2>1, <3>2, <3>3, PairedTo
    <2> QED BY <2>2, <2>3
  <1> QED BY <1>2, <1>3, <1>4

LEMMA CommandPaired ==
    ASSUME Shapes, Handover, NEW c \in Conns, HasGame(c), NEW a \in Actors, Command(a)
    PROVE  HasGame(c)'
  <1>1. CASE ReadSocket(a) \/ ReadGame(a) \/ ReadTransit(a)
    <2>1. /\ Busy(a) /\ UNCHANGED <<socket, game>>
          /\ task[a].pc \notin {"putGame"} \cup Flushes
      BY <1>1 DEF ReadSocket, ReadGame, ReadTransit, redisVars, At, Flushes
    <2>2. \E pc, s, n : To(a, pc, s, n)
      BY <1>1, ReadSocketStep, ReadGameStep, ReadTransitStep DEF Handled
    <2> QED BY <2>1, <2>2, QuietPaired
  <1>2. CASE CreateSocket(a)
    <2>1. /\ Busy(a) /\ UNCHANGED game /\ PutSocket(Conn(a), NewSocketSession)
          /\ task[a].pc \notin {"putGame"} \cup Flushes
      BY <1>2 DEF CreateSocket, At, Flushes
    <2>2. \E pc, s, n : To(a, pc, s, n)
      BY <1>2, CreateSocketStep DEF Handled
    <2>3. socket'[c] = Full(c) => socket[c] = Full(c)
      BY <2>1, SessionFacts DEF PutSocket, Shapes, SessionTypes
    <2> QED BY <2>1, <2>2, <2>3, QuietPaired
  <1>3. CASE Answer(a) \/ Fail(a)
    <2>1. /\ Busy(a) /\ UNCHANGED <<socket, game>>
          /\ \A b \in Actors : On(b, c)' <=> (On(b, c) /\ b # a)
          /\ \A b \in Actors : b # a => task'[b] = task[b]
          /\ task[a].pc \in Ends
      BY <1>3, EndStep DEF redisVars, Answer, Fail, At, Ends
    <2>2. Owned(c) => Owned(c)'
      BY <2>1 DEF Owned
    <2>3. \A b \in Actors : Between(b, c) => b # a
      BY <2>1 DEF Between, Does, Flushes, Ends
    <2>4. \A b \in Actors : Between(b, c) => Between(b, c)'
      BY <2>1, <2>3 DEF Between, Does
    <2> QED BY <2>1, <2>2, <2>4 DEF HasGame
  <1> QED BY <1>1, <1>2, <1>3, PutPaired, MovePaired, FlushPaired DEF Command

LEMMA NextPaired == Shapes /\ Handover /\ Paired /\ [Changes]_sessionVars => Paired'
  <1> SUFFICES ASSUME Shapes, Handover, Paired, [Changes]_sessionVars, NEW c \in Conns PROVE HasGame(c)'
    BY DEF Paired
  <1>1. HasGame(c)
    BY DEF Paired
  <1>2. ASSUME UNCHANGED <<socket, game>>,
               \A b \in Actors : On(b, c) => On(b, c)' /\ task'[b] = task[b]
        PROVE  HasGame(c)'
    <2>1. Owned(c) => Owned(c)'
      BY <1>2 DEF Owned
    <2>2. \A b \in Actors : Between(b, c) => Between(b, c)'
      BY <1>2 DEF Between, Does
    <2> QED BY <1>1, <1>2, <2>1, <2>2 DEF HasGame
  <1>3. ASSUME NEW d \in Conns, Client(d) PROVE HasGame(c)'
    BY <1>2, <1>3, ClientStep DEF redisVars
  <1>4. ASSUME NEW a \in Actors, NEW d \in Conns, Take(a, d) \/ BeginFlush(a, d) PROVE HasGame(c)'
    <2>1. PICK kind \in Packets \cup {"flush"}, pc \in {"readSocket", "flushRead"} :
              ~ Busy(a) /\ TaskChange(a, Task(d, kind, pc, NewSocketSession, 0))
      BY <1>4, TakeStep, BeginFlushStep DEF KindsOf, Packets
    <2>2. \A b \in Actors : On(b, c) => On(b, c)' /\ task'[b] = task[b]
      BY <2>1, BeginStep
    <2>3. UNCHANGED <<socket, game>>
      BY <1>4 DEF Take, BeginFlush, redisVars
    <2> QED BY <1>2, <2>2, <2>3
  <1>5. CASE UNCHANGED sessionVars
    BY <1>2, <1>5 DEF sessionVars, redisVars, On, Busy, Conn
  <1> QED BY <1>1, <1>3, <1>4, <1>5, CommandPaired DEF Changes, Step

LEMMA PairedNames == Shapes /\ Paired => SocketHasGame
  <1> SUFFICES ASSUME Shapes, Paired, NEW c \in Conns, socket[c] # Absent,
                      socket[c].authenticated, ~ WorkedOn(c)
               PROVE  LET g == game[GameKey(c, socket[c])] IN g # Absent /\ g.owner = c
    BY DEF SocketHasGame
  <1>1. socket[c] = Full(c)
    BY SessionFacts DEF Shapes, Shaped
  <1>2. \A a \in Actors : ~ Between(a, c)
    BY DEF Between, On, WorkedOn, Conn
  <1> QED BY <1>1, <1>2 DEF Paired, HasGame, Owned

-----------------------------------------------------------------------------
(* What the copies of the workers contain *)

Keys(p) == {BarrackKey(p), ZoneKey(p), TransitKey(p)}

\* A copy that is about to be written has every change, the one of its own
\* packet included.
CopyOK(a) ==
    Busy(a) /\ task[a].session = Full(Conn(a)) /\ task[a].pc \in Puts \cup {"moveIn"} =>
        task[a].changes =
            applied[PlayerOf(Conn(a))] + (IF task[a].kind = "update" THEN 1 ELSE 0)

\* The game session is read for a client that has logged in,
ReadOK(a) == Busy(a) /\ task[a].pc = "readGame" => task[a].session = Full(Conn(a))

\* and before it has there is nothing to lose.
CountOK(p) ==
    /\ progress[B(p)] \in {"connected", "entering"} => applied[p] = 0
    /\ \A k \in Keys(p) : game[k] # Absent => game[k].changes = applied[p]

Counted ==
    /\ \A a \in Actors : CopyOK(a) /\ ReadOK(a)
    /\ \A p \in Players : CountOK(p)

LEMMA InitCounted == Init => Counted
  <1> SUFFICES ASSUME Init PROVE Counted
    OBVIOUS
  <1>1. \A a \in Actors : ~ Busy(a)
    BY DEF Init, Busy
  <1>2. \A p \in Players : Keys(p) \subseteq GameKeys
    BY KeyFacts DEF Keys
  <1> QED BY <1>1, <1>2 DEF Init, Counted, CopyOK, ReadOK, CountOK

\* A command that changes no game session of a player but brings a with it
LEMMA CountedTo ==
    ASSUME Shapes, Counted, NEW a \in Actors, Busy(a), NEW pc, NEW s, NEW n, To(a, pc, s, n),
           UNCHANGED <<progress, applied>>,
           s = Full(Conn(a)) /\ pc \in Puts \cup {"moveIn"} =>
             n = applied[PlayerOf(Conn(a))] + (IF task[a].kind = "update" THEN 1 ELSE 0),
           pc = "readGame" => s = Full(Conn(a)),
           \A p \in Players : \A k \in Keys(p) :
             game'[k] # Absent => game'[k].changes = applied[p]
    PROVE  Counted'
  <1>1. /\ Same(a) /\ task'[a].kind = task[a].kind /\ task'[a].pc = pc
        /\ task'[a].session = s /\ task'[a].changes = n
    BY ToFacts
  <1>2. ASSUME NEW b \in Actors PROVE (CopyOK(b) /\ ReadOK(b))'
    <2>1. (Busy(b)' <=> Busy(b)) /\ Conn(b)' = Conn(b)
      BY <1>1 DEF Same
    <2>2. CASE b = a
      BY <1>1, <2>1, <2>2 DEF CopyOK, ReadOK
    <2>3. CASE b # a
      <3>1. task'[b] = task[b] /\ CopyOK(b) /\ ReadOK(b)
        BY <1>1, <2>3 DEF Same, Counted
      <3> QED BY <2>1, <3>1 DEF CopyOK, ReadOK
    <2> QED BY <2>2, <2>3
  <1>3. ASSUME NEW p \in Players PROVE CountOK(p)'
    BY DEF Counted, CountOK, Keys
  <1> QED BY <1>2, <1>3 DEF Counted

LEMMA SameGames ==
    ASSUME Counted, UNCHANGED game
    PROVE  \A p \in Players : \A k \in Keys(p) : game'[k] # Absent => game'[k].changes = applied[p]
  BY DEF Counted, CountOK

LEMMA ReadsCounted ==
    ASSUME Shapes, Order, Counted, NEW a \in Actors,
           ReadSocket(a) \/ CreateSocket(a) \/ ReadGame(a) \/ ReadTransit(a)
    PROVE  Counted'
  <1> DEFINE c == Conn(a)
             kind == task[a].kind
  <1>1. Busy(a) /\ UNCHANGED <<game, progress, applied>>
    BY DEF ReadSocket, CreateSocket, ReadGame, ReadTransit, At, redisVars, clientVars
  <1>2. /\ c \in Conns /\ PlayerOf(c) \in Players /\ applied[PlayerOf(c)] \in Nat
        /\ Full(c) # NewSocketSession
    BY <1>1, BusyOK, ConnFacts, SessionFacts DEF Shapes, SessionTypes
  <1>3. kind = "login" => applied[PlayerOf(c)] = 0
    <2>1. kind = "login" => c = B(PlayerOf(c)) /\ progress[c] = "entering"
      <3>1. kind = "login" => ServerOf(c) = "barrack"
        BY <1>1, BusyOK, PcKinds
      <3>2. On(a, c)
        BY <1>1 DEF On
      <3> QED BY <1>2, <3>1, <3>2, ConnFacts DEF Order, EnterOK, Enters
    <2> QED BY <1>2, <2>1 DEF Counted, CountOK
  <1>4. ASSUME NEW s, NEW n \in Nat, Handled(a, s, n),
               \/ s = NewSocketSession /\ n = 0
               \/ s = Full(c) /\ n = applied[PlayerOf(c)]
        PROVE  Counted'
    <2> DEFINE t == HandleSession(c, kind, s)
               m == HandleChanges(kind, n)
    <2>1. /\ To(a, HandlePc[kind], t, m) /\ kind \in KindsOf(a[1])
          /\ HandlePc[kind] # "readGame"
      BY <1>4 DEF Handled, HandlePc, KindsOf
    <2>2. t = Full(c) /\ HandlePc[kind] \in Puts \cup {"moveIn"} =>
            m = applied[PlayerOf(c)] + (IF kind = "update" THEN 1 ELSE 0)
      <3>1. CASE kind = "login"
        BY <1>2, <1>3, <1>4, <3>1 DEF HandleChanges
      <3>2. CASE kind # "login" /\ s = NewSocketSession
        BY <1>2, <3>2 DEF HandleSession
      <3>3. CASE kind = "update" /\ s = Full(c)
        BY <1>2, <1>4, <3>3 DEF HandleChanges
      <3>4. CASE kind \notin {"login", "update"}
        BY <2>1, <3>4 DEF HandlePc, KindsOf, Puts
      <3> QED BY <1>4, <3>1, <3>2, <3>3, <3>4
    <2> QED BY <1>1, <2>1, <2>2, SameGames, CountedTo
  <1>5. CASE ReadSocket(a)
    <2>1. CASE To(a, "createSocket", NewSocketSession, 0)
      BY <1>1, <2>1, SameGames, CountedTo DEF Puts
    <2>2. CASE To(a, "readGame", Full(c), 0)
      BY <1>1, <2>2, SameGames, CountedTo DEF Puts
    <2> QED BY <1>4, <1>5, <2>1, <2>2, ReadSocketStep
  <1>6. CASE CreateSocket(a)
    BY <1>4, <1>6, CreateSocketStep
  <1>7. CASE ReadGame(a)
    <2> DEFINE g == game[GameKey(c, task[a].session)]
    <2>1. task[a].session = Full(c)
      BY <1>1, <1>7, ReadGameStep DEF At, Counted, ReadOK
    <2>2. CASE To(a, "fail", task[a].session, task[a].changes)
      BY <1>1, <2>2, SameGames, CountedTo DEF Puts
    <2>3. CASE g # Absent /\ g \in Games /\ Handled(a, task[a].session, g.changes)
      <3>1. GameKey(c, Full(c)) \in Keys(PlayerOf(c))
        BY <1>2, ConnFacts, KeyFacts DEF Keys, Servers
      <3>2. g.changes = applied[PlayerOf(c)] /\ g.changes \in Nat
        BY <1>2, <2>1, <2>3, <3>1 DEF Counted, CountOK
      <3> QED BY <1>4, <2>1, <2>3, <3>2
    <2> QED BY <1>7, <2>2, <2>3, ReadGameStep
  <1>8. CASE ReadTransit(a)
    <2> DEFINE p == PlayerOf(c)
               g == game[TransitKey(p)]
    <2>1. kind = "connect" /\ c = Z(p)
      BY <1>8, ReadTransitStep
    <2>2. CASE To(a, "fail", task[a].session, task[a].changes)
      BY <1>1, <2>2, SameGames, CountedTo DEF Puts
    <2>3. CASE g # Absent /\ To(a, "moveIn", Full(Z(p)), g.changes)
      <3>1. g.changes = applied[p]
        BY <1>2, <2>3 DEF Counted, CountOK, Keys
      <3> QED BY <1>1, <1>2, <2>1, <2>3, <3>1, SameGames, CountedTo
    <2> QED BY <1>8, <2>2, <2>3, ReadTransitStep
  <1> QED BY <1>5, <1>6, <1>7, <1>8

\* Games that move take their changes with them.
LEMMA RenameCounted ==
    ASSUME Shapes, Counted, NEW from \in GameKeys, NEW to \in GameKeys, Rename(from, to),
           \A p \in Players : to \in Keys(p) => from \in Keys(p)
    PROVE  \A p \in Players : \A k \in Keys(p) : game'[k] # Absent => game'[k].changes = applied[p]
  <1> SUFFICES ASSUME NEW p \in Players, NEW k \in Keys(p), game'[k] # Absent
               PROVE  game'[k].changes = applied[p]
    OBVIOUS
  <1>1. k \in GameKeys
    BY KeyFacts DEF Keys
  <1>2. CASE k = to
    BY <1>1, <1>2 DEF Rename, Counted, CountOK
  <1>3. CASE k # to
    BY <1>1, <1>3 DEF Rename, Counted, CountOK
  <1> QED BY <1>2, <1>3

LEMMA MovesCounted ==
    ASSUME Shapes, Counted, NEW a \in Actors, UpdateSocket(a) \/ MoveOut(a) \/ MoveIn(a)
    PROVE  Counted'
  <1> DEFINE c == Conn(a)
             s == task[a].session
             n == task[a].changes
  <1>1. /\ Busy(a) /\ UNCHANGED <<progress, applied>> /\ CopyOK(a)
        /\ c \in Conns /\ Shaped(c, s)
    <2>1. Busy(a) /\ UNCHANGED <<progress, applied>>
      BY DEF UpdateSocket, MoveOut, MoveIn, At, clientVars
    <2> QED BY <2>1, BusyOK DEF Counted
  <1>2. CASE UpdateSocket(a)
    <2>1. UNCHANGED game /\ task[a].pc = "putSocket" /\ To(a, "putGame", s, n)
      BY <1>2, UpdateSocketStep DEF UpdateSocket, At
    <2>2. s = Full(c) => n = applied[PlayerOf(c)] + (IF task[a].kind = "update" THEN 1 ELSE 0)
      BY <1>1, <2>1 DEF CopyOK, Puts
    <2> QED BY <1>1, <2>1, <2>2, SameGames, CountedTo
  <1>3. CASE MoveOut(a)
    <2> DEFINE from == GameKey(c, s)
               to == TransitKey(s.account)
    <2>1. /\ from \in GameKeys /\ to \in GameKeys
          /\ \/ Rename(from, to) /\ To(a, "flushRead", s, n)
             \/ game' = game /\ To(a, "fail", s, n)
          /\ ServerOf(c) = "barrack"
      BY <1>3, MoveOutStep
    <2>2. ASSUME NEW p \in Players, to \in Keys(p) PROVE from \in Keys(p)
      <3>1. to = TransitKey(p)
        BY <1>1, <2>2, GameKeyFacts DEF Keys
      <3>2. s = Full(c) /\ c = B(p)
        BY <1>1, <2>1, <3>1, GameKeyFacts, ConnFacts
      <3> QED BY <3>2, KeyFacts DEF Keys
    <2>3. \A p \in Players : \A k \in Keys(p) :
             game'[k] # Absent => game'[k].changes = applied[p]
      BY <2>1, <2>2, RenameCounted, SameGames
    <2> QED BY <1>1, <2>1, <2>3, CountedTo DEF Puts
  <1>4. CASE MoveIn(a)
    <2> DEFINE p == PlayerOf(c)
    <2>1. /\ p \in Players /\ c = Z(p) /\ s = Full(c) /\ task[a].pc = "moveIn"
          /\ \/ Rename(TransitKey(p), ZoneKey(p)) /\ To(a, "putSocket", s, n)
             \/ game' = game /\ To(a, "fail", s, n)
      BY <1>4, MoveInStep DEF At
    <2>2. n = applied[p] + (IF task[a].kind = "update" THEN 1 ELSE 0)
      BY <1>1, <2>1 DEF CopyOK
    <2>3. ASSUME NEW q \in Players, ZoneKey(p) \in Keys(q) PROVE TransitKey(p) \in Keys(q)
      BY <2>1, <2>3 DEF Keys, ZoneKey, BarrackKey, TransitKey
    <2>4. \A q \in Players : \A k \in Keys(q) :
             game'[k] # Absent => game'[k].changes = applied[q]
      BY <2>1, <2>3, KeyFacts, RenameCounted, SameGames
    <2> QED BY <1>1, <2>1, <2>2, <2>4, CountedTo
  <1> QED BY <1>2, <1>3, <1>4

LEMMA FlushesCounted ==
    ASSUME Shapes, Counted, NEW a \in Actors,
           FlushRead(a) \/ FlushCreate(a) \/ FlushGame(a) \/ FlushSocket(a)
    PROVE  Counted'
  <1>1. Busy(a) /\ UNCHANGED <<progress, applied>>
    BY DEF FlushRead, FlushCreate, FlushGame, FlushSocket, At, clientVars
  <1>2. PICK pc, s, n : pc \in Flushes \cup {"answer"} /\ To(a, pc, s, n)
    BY FlushReadStep, FlushCreateStep, FlushGameStep, FlushSocketStep DEF Flushes
  <1>3. \A k \in GameKeys : game'[k] = game[k] \/ game'[k] = Absent
    BY FlushGameStep DEF FlushRead, FlushCreate, FlushGame, FlushSocket, redisVars, Shapes, SessionTypes
  <1>4. \A p \in Players : Keys(p) \subseteq GameKeys
    BY KeyFacts DEF Keys
  <1>5. \A p \in Players : \A k \in Keys(p) :
           game'[k] # Absent => game'[k].changes = applied[p]
    BY <1>3, <1>4 DEF Counted, CountOK
  <1> QED BY <1>1, <1>2, <1>5, CountedTo DEF Flushes, Puts

\* While a writes the game session of p, p's session is nowhere else, and
\* nobody else has a copy of it.
LEMMA SoleWriter ==
    ASSUME OneAtATime, Shapes, Order, Handover, NEW a \in Actors, Busy(a),
           task[a].pc = "putGame", task[a].session = Full(Conn(a))
    PROVE  LET p == PlayerOf(Conn(a))
               key == GameKey(Conn(a), task[a].session)
           IN  /\ p \in Players /\ key \in Keys(p)
               /\ \A k \in Keys(p) : k # key => game[k] = Absent
               /\ \A b \in Actors : Busy(b) /\ PlayerOf(Conn(b)) = p /\ b # a
                    /\ task[b].session = Full(Conn(b))
                    => task[b].pc \notin Puts \cup {"moveIn"}
               /\ task[a].kind = "update" => progress[B(p)] \notin {"connected", "entering"}
  <1> DEFINE c == Conn(a)
             p == PlayerOf(Conn(a))
             key == GameKey(Conn(a), task[a].session)
  <1>1. /\ p \in Players /\ c \in Conns /\ (c = B(p) \/ c = Z(p))
    BY BusyOK, ConnFacts DEF Servers
  <1>2. task[a].kind # "flush"
    BY PcKinds DEF Puts
  <1>3. ASSUME NEW b \in Actors, Busy(b), Conn(b) = c, b # a,
               task[b].pc \in Puts \cup {"moveIn"}
        PROVE  FALSE
    <2>1. task[b].kind # "flush"
      BY <1>3, PcKinds
    <2> QED BY <1>1, <1>2, <1>3, <2>1, OnlyWorker DEF On
  <1>4. CASE c = B(p)
    <2>1. ~ Moved(p)
      BY <1>1, <1>4, NotMoved DEF Flushes, Ends
    <2>2. ~ InTransit(p) /\ ~ Arrived(p)
      BY <1>1, <2>1 DEF Handover, HandoverOf
    <2>3. key = BarrackKey(p)
      BY <1>1, <1>4, KeyFacts
    <2>4. game[ZoneKey(p)] = Absent /\ game[TransitKey(p)] = Absent
      BY <2>2 DEF Arrived, InTransit
    <2>5. ASSUME NEW b \in Actors, Busy(b), PlayerOf(Conn(b)) = p, b # a,
                 task[b].session = Full(Conn(b)), task[b].pc \in Puts \cup {"moveIn"}
          PROVE  FALSE
      <3>1. Conn(b) = B(p) \/ Conn(b) = Z(p)
        BY <2>5, BusyOK, ConnFacts DEF Servers
      <3>2. CASE Conn(b) = Z(p)
        BY <2>2, <2>5, <3>2 DEF InTransit, Arrived, On
      <3> QED BY <1>3, <1>4, <2>5, <3>1, <3>2
    <2>6. task[a].kind = "update" => progress[B(p)] \notin {"connected", "entering"}
      BY <1>1, <1>4 DEF Order, RequestOK, On, Enters
    <2> QED BY <1>1, <2>3, <2>4, <2>5, <2>6 DEF Keys
  <1>5. CASE c = Z(p)
    <2>1. Arrived(p)
      BY <1>1, <1>5, ArrivedCopy
    <2>2. Moved(p) /\ game[BarrackKey(p)] = Absent /\ game[TransitKey(p)] = Absent
      BY <1>1, <2>1 DEF Handover, HandoverOf
    <2>3. key = ZoneKey(p)
      BY <1>1, <1>5, KeyFacts
    <2>4. ASSUME NEW b \in Actors, Busy(b), PlayerOf(Conn(b)) = p, b # a,
                 task[b].session = Full(Conn(b)), task[b].pc \in Puts \cup {"moveIn"}
          PROVE  FALSE
      <3>1. Conn(b) = B(p) \/ Conn(b) = Z(p)
        BY <2>4, BusyOK, ConnFacts DEF Servers
      <3>2. CASE Conn(b) = B(p)
        BY <1>1, <2>2, <2>4, <3>2, NotMoved DEF Puts, Flushes, Ends
      <3> QED BY <1>3, <1>5, <2>4, <3>1, <3>2
    <2>5. progress[B(p)] \notin {"connected", "entering"}
      BY <2>2 DEF Moved
    <2> QED BY <1>1, <2>2, <2>3, <2>4, <2>5 DEF Keys
  <1> QED BY <1>1, <1>4, <1>5

LEMMA UpdateCounted ==
    ASSUME OneAtATime, Shapes, Order, Handover, Counted, NEW a \in Actors, UpdateGame(a)
    PROVE  Counted'
  <1> DEFINE c == Conn(a)
             p == PlayerOf(Conn(a))
             s == task[a].session
             n == task[a].changes
             key == GameKey(c, s)
             g == [owner |-> c, changes |-> n]
  <1>1. /\ Busy(a) /\ task[a].pc = "putGame" /\ c \in Conns /\ Shaped(c, s)
        /\ progress' = progress /\ To(a, "answer", s, n) /\ key \in GameKeys
        /\ game' = [game EXCEPT ![key] = g]
        /\ applied' = [q \in Players |-> IF q = s.account /\ task[a].kind = "update"
                                         THEN applied[q] + 1 ELSE applied[q]]
        /\ applied \in [Players -> Nat] /\ g.changes = n
    BY UpdateGameStep, BusyOK DEF UpdateGame, clientVars, At, Shapes, SessionTypes
  <1>2. game'[key] = g /\ \A k \in GameKeys : k # key => game'[k] = game[k]
    BY <1>1 DEF Shapes, SessionTypes
  <1>3. \A q \in Players : Keys(q) \subseteq GameKeys
    BY KeyFacts DEF Keys
  <1>4. CASE s # Full(c)
    <2>1. s.account = NoAccount
      BY <1>1, <1>4, GameKeyFacts
    <2>2. \A q \in Players : key \notin Keys(q)
      BY <1>1, <1>4, GameKeyFacts DEF Keys
    <2>3. applied' = applied
      BY <1>1, <2>1, PlayersAssumption
    <2>4. \A q \in Players : \A k \in Keys(q) :
             game'[k] # Absent => game'[k].changes = applied[q]
      BY <1>2, <1>3, <2>2 DEF Counted, CountOK
    <2> QED BY <1>1, <2>3, <2>4, CountedTo DEF Puts
  <1>5. CASE s = Full(c)
    <2>1. /\ p \in Players /\ key \in Keys(p)
          /\ \A k \in Keys(p) : k # key => game[k] = Absent
          /\ \A b \in Actors : Busy(b) /\ PlayerOf(Conn(b)) = p /\ b # a
               /\ task[b].session = Full(Conn(b))
               => task[b].pc \notin Puts \cup {"moveIn"}
          /\ task[a].kind = "update" => progress[B(p)] \notin {"connected", "entering"}
      BY <1>1, <1>5, SoleWriter
    <2>2. s.account = p
      BY <1>1, <1>5, SessionFacts
    <2>3. /\ applied'[p] = applied[p] + (IF task[a].kind = "update" THEN 1 ELSE 0)
          /\ \A q \in Players : q # p => applied'[q] = applied[q]
      BY <1>1, <2>1, <2>2
    <2>4. n = applied'[p]
      BY <1>1, <1>5, <2>3 DEF Counted, CopyOK, Puts
    <2>5. ASSUME NEW q \in Players PROVE CountOK(q)'
      <3>1. CASE q = p
        <4>1. \A k \in Keys(p) : game'[k] # Absent => game'[k].changes = applied'[p]
          BY <1>1, <1>2, <1>3, <2>1, <2>4
        <4>2. progress'[B(p)] \in {"connected", "entering"} => applied'[p] = 0
          BY <1>1, <2>1, <2>3 DEF Counted, CountOK
        <4> QED BY <3>1, <4>1, <4>2 DEF CountOK, Keys
      <3>2. CASE q # p
        <4>1. key \notin Keys(q)
          BY <2>1, <3>2 DEF Keys, BarrackKey, ZoneKey, TransitKey
        <4>2. \A k \in Keys(q) : game'[k] = game[k]
          BY <1>2, <1>3, <4>1
        <4> QED BY <1>1, <2>3, <3>2, <4>2 DEF Counted, CountOK, Keys
      <3> QED BY <3>1, <3>2
    <2>6. /\ Same(a) /\ task'[a].pc = "answer"
      BY <1>1, ToFacts
    <2>7. ASSUME NEW b \in Actors PROVE (CopyOK(b) /\ ReadOK(b))'
      <3>1. (Busy(b)' <=> Busy(b)) /\ Conn(b)' = Conn(b)
        BY <2>6 DEF Same
      <3>2. CASE b = a
        BY <2>6, <3>2 DEF CopyOK, ReadOK, Puts
      <3>3. CASE b # a
        <4>1. task'[b] = task[b] /\ CopyOK(b) /\ ReadOK(b)
          BY <2>6, <3>3 DEF Same, Counted
        <4>2. Busy(b) => PlayerOf(Conn(b)) \in Players
          BY BusyOK, ConnFacts
        <4>3. CASE PlayerOf(Conn(b)) = p
          BY <2>1, <3>1, <3>3, <4>1, <4>3 DEF CopyOK, ReadOK
        <4>4. CASE PlayerOf(Conn(b)) # p
          BY <2>3, <3>1, <4>1, <4>2, <4>4 DEF CopyOK, ReadOK
        <4> QED BY <4>3, <4>4
      <3> QED BY <3>2, <3>3
    <2> QED BY <2>5, <2>7 DEF Counted
  <1> QED BY <1>4, <1>5

\* Steps that neither write a game session nor bring a copy about to be written
LEMMA QuietCounted ==
    ASSUME Counted, UNCHANGED <<game, applied>>,
           \A p \in Players : progress'[B(p)] \in {"connected", "entering"} =>
                              progress[B(p)] \in {"connected", "entering"},
           \A b \in Actors : Busy(b)' =>
             \/ Busy(b) /\ task'[b] = task[b]
             \/ task'[b].pc \in {"readSocket", "flushRead"}
    PROVE  Counted'
  <1>1. ASSUME NEW b \in Actors PROVE (CopyOK(b) /\ ReadOK(b))'
    <2>1. CopyOK(b) /\ ReadOK(b)
      BY DEF Counted
    <2>2. CASE Busy(b) /\ task'[b] = task[b]
      <3>1. Conn(b)' = Conn(b)
        BY <2>2 DEF Conn
      <3> QED BY <2>1, <2>2, <3>1 DEF CopyOK, ReadOK
    <2>3. CASE ~ Busy(b)' \/ task'[b].pc \in {"readSocket", "flushRead"}
      BY <2>3 DEF CopyOK, ReadOK, Puts
    <2> QED BY <2>2, <2>3
  <1>2. ASSUME NEW p \in Players PROVE CountOK(p)'
    BY DEF Counted, CountOK, Keys
  <1> QED BY <1>1, <1>2 DEF Counted

LEMMA NextCounted ==
    OneAtATime /\ Shapes /\ Order /\ Handover /\ Counted /\ [Changes]_sessionVars => Counted'
  <1> SUFFICES ASSUME OneAtATime, Shapes, Order, Handover, Counted, [Changes]_sessionVars PROVE Counted'
    OBVIOUS
  <1>1. ASSUME NEW a \in Actors, Answer(a) \/ Fail(a) PROVE Counted'
    <2>1. /\ Busy(a) /\ UNCHANGED <<game, applied>>
          /\ task'[a] = NoTask /\ \A b \in Actors : b # a => task'[b] = task[b]
          /\ \A c \in Conns : \/ progress'[c] = progress[c]
                              \/ progress'[c] \in {"inside", "left"}
      BY <1>1, EndStep DEF redisVars, TaskChange
    <2>2. \A b \in Actors : Busy(b)' => Busy(b) /\ task'[b] = task[b]
      BY <2>1 DEF Busy
    <2> QED BY <2>1, <2>2, PlayerFacts, QuietCounted
  <1>2. ASSUME NEW a \in Actors, Command(a) PROVE Counted'
    BY <1>1, <1>2, ReadsCounted, MovesCounted, FlushesCounted, UpdateCounted DEF Command
  <1>3. ASSUME NEW a \in Actors, NEW c \in Conns, Take(a, c) \/ BeginFlush(a, c) PROVE Counted'
    <2>1. PICK kind \in Packets \cup {"flush"}, pc \in {"readSocket", "flushRead"} :
              ~ Busy(a) /\ TaskChange(a, Task(c, kind, pc, NewSocketSession, 0))
      BY <1>3, TakeStep, BeginFlushStep DEF KindsOf, Packets
    <2>2. UNCHANGED <<game, applied, progress>>
      BY <1>3 DEF Take, BeginFlush, redisVars, clientVars
    <2>3. \A b \in Actors : b # a => task'[b] = task[b] /\ (Busy(b)' <=> Busy(b))
      BY <2>1 DEF TaskChange, Busy
    <2>4. task'[a].pc = pc
      BY <2>1, BeginStep
    <2> QED BY <2>2, <2>3, <2>4, QuietCounted
  <1>4. ASSUME NEW c \in Conns, Client(c) PROVE Counted'
    <2>1. UNCHANGED <<task, game, applied>> /\ \A a \in Actors : Busy(a)' <=> Busy(a)
      BY <1>4, ClientStep DEF redisVars
    <2>2. \A d \in Conns : progress'[d] \in {"connected", "entering"} =>
                           progress[d] \in {"connected", "entering"}
      BY <1>4 DEF Shapes, SessionTypes, Client, Open, SendEnter, SendStartGame, Close, SendRequest, Send
    <2> QED BY <2>1, <2>2, PlayerFacts, QuietCounted
  <1>5. CASE UNCHANGED sessionVars
    BY <1>5, QuietCounted DEF sessionVars, clientVars, redisVars, Busy
  <1> QED BY <1>2, <1>3, <1>4, <1>5 DEF Changes, Step

LEMMA CountedNoLoss == Shapes /\ Counted => NoLostUpdate
  <1> SUFFICES ASSUME Shapes, Counted, NEW p \in Players, NEW k \in Homes(p)
               PROVE  game[k].changes = applied[p]
    BY DEF NoLostUpdate
  <1>1. k \in Keys(p) /\ game[k] # Absent
    BY KeyFacts DEF Homes, Keys, Shapes
  <1> QED BY <1>1 DEF Counted, CountOK

-----------------------------------------------------------------------------
(* What a player who was told to start the game can count on *)

Asks == {"update", "query", "startGame"}

\* Before its client has opened a connection there is nothing on it.
NewOK == \A c \in Conns : link[c] = "new" => progress[c] = "connected"

\* The monitors flush what has closed.
Closing == \A a \in Actors : Busy(a) /\ task[a].kind = "flush" => link[Conn(a)] = "closed"

\* A task of kind that has come to command pc finds its client logged in.
Settling(kind, pc) ==
    \/ kind \in {"update", "query"}
    \/ kind = "login" /\ pc \in {"putGame", "answer"}
    \/ kind = "startGame" /\ pc \in {"readSocket", "readGame", "moveOut"}

\* p is logged in at the barrack.
Settled(p) ==
    \/ progress[B(p)] = "inside"
    \/ pending[B(p)] \in Asks
    \/ \E a \in Actors : On(a, B(p)) /\ Settling(task[a].kind, task[a].pc)

Owning == {"readGame", "putSocket", "putGame", "moveOut"}

\* Then the session is there as long as the connection is open, and the
\* workers find it.
OpenOK(p) ==
    link[B(p)] = "open" =>
        /\ Settled(p) => socket[B(p)] = Full(B(p))
        /\ \A a \in Actors : On(a, B(p)) /\ task[a].kind \in Asks =>
             /\ task[a].pc # "createSocket"
             /\ task[a].pc \in Owning => task[a].session = Full(B(p))

\* p was told to start the game, or will be if it stays connected.
Leaves(p) ==
    \/ progress[B(p)] = "left"
    \/ /\ link[B(p)] = "open"
       /\ \E a \in Actors : On(a, B(p)) /\ Does(a, {"startGame"}, Flushes \cup {"answer"})

SentOK(p) == progress[Z(p)] = "connected" /\ Leaves(p) => game[TransitKey(p)] # Absent

Arrival == NewOK /\ Closing /\ \A p \in Players : OpenOK(p) /\ SentOK(p)

LEMMA InitArrival == Init => Arrival
  <1> SUFFICES ASSUME Init PROVE Arrival
    OBVIOUS
  <1>1. \A a \in Actors : ~ Busy(a)
    BY DEF Init, Busy
  <1>2. \A p \in Players : link[B(p)] = "new" /\ progress[B(p)] = "connected"
    BY PlayerFacts DEF Init
  <1> QED BY <1>1, <1>2 DEF Init, Arrival, NewOK, Closing, OpenOK, SentOK, Leaves, On

LEMMA NextNewOK == Shapes /\ Order /\ NewOK /\ [Changes]_sessionVars => NewOK'
  <1> SUFFICES ASSUME Shapes, Order, NewOK, [Changes]_sessionVars, NEW c \in Conns, link'[c] = "new"
               PROVE  progress'[c] = "connected"
    BY DEF NewOK
  <1>1. ASSUME NEW d \in Conns, Client(d) PROVE progress'[c] = "connected"
    <2>1. /\ link[c] = "new" /\ (d = c => progress' = progress)
          /\ d # c => progress'[c] = progress[c]
      BY <1>1 DEF Shapes, SessionTypes, Client, Open, SendEnter, SendStartGame, Close, SendRequest, Send
    <2> QED BY <2>1 DEF NewOK
  <1>2. ASSUME NEW a \in Actors, Command(a) PROVE progress'[c] = "connected"
    <2>1. CASE Answer(a) \/ Fail(a)
      <3>1. /\ link[c] = "new" /\ (c # Conn(a) => progress'[c] = progress[c]) /\ Busy(a)
        BY <2>1, EndStep
      <3>2. progress[c] = "connected" /\ ~ On(a, c)
        BY <3>1 DEF NewOK, Order, FreshOK
      <3> QED BY <3>1, <3>2 DEF On
    <2>2. CASE UNCHANGED clientVars
      BY <2>2 DEF clientVars, NewOK
    <2> QED BY <1>2, <2>1, <2>2, CommandCases
  <1>3. ASSUME NEW a \in Actors, NEW d \in Conns, Take(a, d) \/ BeginFlush(a, d)
        PROVE  progress'[c] = "connected"
    BY <1>3 DEF Take, BeginFlush, clientVars, NewOK
  <1>4. CASE UNCHANGED sessionVars
    BY <1>4 DEF sessionVars, clientVars, NewOK
  <1> QED BY <1>1, <1>2, <1>3, <1>4 DEF Changes, Step

LEMMA NextClosing == Shapes /\ Closing /\ [Changes]_sessionVars => Closing'
  <1> SUFFICES ASSUME Shapes, Closing, [Changes]_sessionVars, NEW b \in Actors, Busy(b)', task'[b].kind = "flush"
               PROVE  link'[Conn(b)'] = "closed"
    BY DEF Closing
  <1>1. ASSUME NEW d \in Conns, Client(d) PROVE link'[Conn(b)'] = "closed"
    <2>1. task' = task /\ (Busy(b)' <=> Busy(b)) /\ Conn(b)' = Conn(b)
      BY <1>1, ClientStep DEF Conn
    <2>2. Conn(b) \in Conns /\ link[Conn(b)] = "closed"
      BY <2>1, BusyOK DEF Closing
    <2>3. \A c \in Conns : link[c] = "closed" => link'[c] = "closed"
      BY <1>1 DEF Shapes, SessionTypes, Client, Open, SendEnter, SendStartGame, Close, SendRequest, Send
    <2> QED BY <2>1, <2>2, <2>3
  <1>2. ASSUME NEW a \in Actors, Command(a) PROVE link'[Conn(b)'] = "closed"
    <2>1. CASE Answer(a) \/ Fail(a)
      <3>1. /\ task'[a] = NoTask /\ \A e \in Actors : e # a => task'[e] = task[e]
            /\ link' = link
        BY <2>1, EndStep DEF TaskChange
      <3>2. b # a
        BY <3>1 DEF Busy
      <3> QED BY <3>1, <3>2 DEF Closing, Busy, Conn
    <2>2. ASSUME Busy(a), UNCHANGED clientVars, NEW pc, NEW s, NEW n, To(a, pc, s, n)
          PROVE  link'[Conn(b)'] = "closed"
      <3>1. Same(a)
        BY <2>2, ToFacts
      <3>2. Busy(b) /\ Conn(b)' = Conn(b) /\ task[b].kind = "flush"
        BY <3>1 DEF Same
      <3> QED BY <2>2, <3>2 DEF Closing, clientVars
    <2> QED BY <1>2, <2>1, <2>2, CommandCases
  <1>3. ASSUME NEW a \in Actors, NEW d \in Conns, Take(a, d) \/ BeginFlush(a, d)
        PROVE  link'[Conn(b)'] = "closed"
    <2>1. PICK kind \in Packets \cup {"flush"}, pc \in {"readSocket", "flushRead"} :
              /\ ~ Busy(a) /\ TaskChange(a, Task(d, kind, pc, NewSocketSession, 0))
              /\ kind = "flush" => link[d] = "closed"
              /\ link' = link
      BY <1>3, TakeStep, BeginFlushStep DEF KindsOf, Packets, clientVars
    <2>2. /\ task'[a] = Task(d, kind, pc, NewSocketSession, 0)
          /\ \A e \in Actors : e # a => task'[e] = task[e]
      BY <2>1 DEF TaskChange
    <2>3. CASE b = a
      BY <2>1, <2>2, <2>3 DEF Task, Conn
    <2>4. CASE b # a
      BY <2>1, <2>2, <2>4 DEF Closing, Busy, Conn
    <2> QED BY <2>3, <2>4
  <1>4. CASE UNCHANGED sessionVars
    BY <1>4 DEF sessionVars, clientVars, Closing, Busy, Conn
  <1> QED BY <1>1, <1>2, <1>3, <1>4 DEF Changes, Step

-----------------------------------------------------------------------------
(* The session of a connection that is open *)

LEMMA OpenFrame ==
    ASSUME NEW p \in Players, OpenOK(p), link'[B(p)] = "open" => link[B(p)] = "open",
           Settled(p)' => Settled(p), socket'[B(p)] = socket[B(p)],
           \A b \in Actors : On(b, B(p))' =>
              \/ On(b, B(p)) /\ task'[b] = task[b]
              \/ task'[b].pc \in {"readSocket", "flushRead"}
    PROVE  OpenOK(p)'
  BY DEF OpenOK, Owning

\* The worker of the barrack is the only actor on a connection that is open.
LEMMA Alone ==
    ASSUME OneAtATime, Shapes, Closing, NEW p \in Players, link[B(p)] = "open",
           NEW a \in Actors, On(a, B(p))
    PROVE  /\ task[a].kind \in {"login", "update", "query", "startGame"}
           /\ \A b \in Actors : On(b, B(p)) => b = a
  <1>1. B(p) \in Conns /\ ServerOf(B(p)) = "barrack"
    BY PlayerFacts
  <1>2. \A b \in Actors : On(b, B(p)) => task[b].kind # "flush"
    BY DEF Closing, On
  <1>3. \A b \in Actors : On(b, B(p)) => b = a
    BY <1>1, <1>2, OnlyWorker
  <1>4. task[a].kind \in KindsOf("barrack")
    BY <1>1, <1>2, BusyOK DEF On
  <1> QED BY <1>3, <1>4 DEF KindsOf

\* It goes on with a command that finds the session.
LEMMA OpenTo ==
    ASSUME OneAtATime, Shapes, Order, Closing, NEW p \in Players, link[B(p)] = "open",
           NEW a \in Actors, On(a, B(p)), NEW pc, NEW s, NEW n, To(a, pc, s, n),
           UNCHANGED clientVars,
           task[a].kind \in Asks =>
             /\ pc # "createSocket"
             /\ pc \in Owning => s = Full(B(p)),
           Settling(task[a].kind, pc) => socket'[B(p)] = Full(B(p))
    PROVE  OpenOK(p)'
  <1>1. /\ Same(a) /\ task'[a].kind = task[a].kind /\ task'[a].pc = pc
        /\ task'[a].session = s
    BY ToFacts DEF On
  <1>2. \A b \in Actors : On(b, B(p))' => b = a
    BY <1>1, Alone, PlayerFacts DEF Same
  <1>3. Settled(p)' => socket'[B(p)] = Full(B(p))
    <2>1. \/ progress[B(p)] # "inside" /\ pending[B(p)] \notin Asks
          \/ task[a].kind \in {"update", "query"}
      BY Alone, PlayerFacts DEF Order, EnterOK, LeavingOK, Enters, Asks, NoPacket
    <2>2. task[a].kind \in {"update", "query"} => Settling(task[a].kind, pc)
      BY DEF Settling
    <2> QED BY <1>1, <1>2, <2>1, <2>2 DEF Settled, clientVars
  <1>4. \A b \in Actors : On(b, B(p))' /\ task'[b].kind \in Asks =>
             /\ task'[b].pc # "createSocket"
             /\ task'[b].pc \in Owning => task'[b].session = Full(B(p))
    BY <1>1, <1>2
  <1> QED BY <1>3, <1>4 DEF OpenOK

LEMMA CommandOpen ==
    ASSUME OneAtATime, Shapes, Order, Closing, NEW p \in Players, OpenOK(p),
           link[B(p)] = "open", NEW a \in Actors, On(a, B(p)), Command(a),
           ~ Answer(a), ~ Fail(a)
    PROVE  OpenOK(p)'
  <1> DEFINE c == B(p)
             kind == task[a].kind
             s == task[a].session
  <1>1. /\ c \in Conns /\ Busy(a) /\ Conn(a) = c /\ a[1] = "barrack"
        /\ kind \in {"login", "update", "query", "startGame"}
        /\ Full(c) # Absent /\ Full(c) # NewSocketSession
    <2>1. B(p) \in Conns /\ ServerOf(B(p)) = "barrack" /\ Busy(a) /\ Conn(a) = B(p)
      BY PlayerFacts DEF On
    <2> QED BY <2>1, BusyOK, Alone, SessionFacts
  <1>2. /\ Settling(kind, task[a].pc) => socket[c] = Full(c)
        /\ kind \in Asks => task[a].pc # "createSocket"
        /\ kind \in Asks /\ task[a].pc \in Owning => s = Full(c)
    BY DEF OpenOK, Settled
  <1>3. CASE ReadSocket(a)
    <2>1. UNCHANGED clientVars /\ socket' = socket /\ task[a].pc = "readSocket"
      BY <1>3 DEF ReadSocket, redisVars, At
    <2>2. kind # "login" => socket[c] = Full(c)
      BY <1>1, <1>2, <2>1 DEF Settling
    <2>3. CASE To(a, "createSocket", NewSocketSession, 0) /\ socket[c] = Absent
      BY <1>1, <2>1, <2>2, <2>3, OpenTo DEF Settling, Asks
    <2>4. CASE To(a, "readGame", Full(c), 0) /\ socket[c] = Full(c)
      BY <1>1, <2>1, <2>4, OpenTo
    <2>5. CASE Handled(a, NewSocketSession, 0) /\ socket[c] = NewSocketSession
      <3>1. kind = "login"
        BY <1>1, <2>2, <2>5
      <3>2. To(a, "putSocket", Full(c), 0)
        BY <1>1, <2>5, <3>1 DEF Handled, HandlePc, HandleSession, HandleChanges
      <3> QED BY <2>1, <3>1, <3>2, OpenTo DEF Settling, Asks
    <2> QED BY <1>1, <1>3, <2>3, <2>4, <2>5, ReadSocketStep
  <1>4. CASE CreateSocket(a)
    <2>1. UNCHANGED clientVars /\ task[a].pc = "createSocket"
      BY <1>4 DEF CreateSocket, At
    <2>2. kind = "login"
      BY <1>1, <1>2, <2>1 DEF Asks
    <2>3. To(a, "putSocket", Full(c), 0)
      BY <1>1, <1>4, <2>2, CreateSocketStep DEF Handled, HandlePc, HandleSession, HandleChanges
    <2> QED BY <2>1, <2>2, <2>3, OpenTo DEF Settling, Asks
  <1>5. CASE ReadGame(a)
    <2>1. UNCHANGED clientVars /\ socket' = socket /\ task[a].pc = "readGame"
      BY <1>5 DEF ReadGame, redisVars, At
    <2>2. kind \in Asks => s = Full(c) /\ socket[c] = Full(c)
      BY <1>2, <2>1 DEF Settling, Owning, Asks
    <2>3. CASE To(a, "fail", s, task[a].changes)
      BY <1>1, <2>1, <2>2, <2>3, OpenTo DEF Settling, Asks, Owning
    <2>4. ASSUME NEW n, Handled(a, s, n) PROVE OpenOK(p)'
      <3>1. To(a, HandlePc[kind], HandleSession(c, kind, s), HandleChanges(kind, n))
        BY <1>1, <2>4 DEF Handled
      <3>2. CASE kind = "login"
        <4>1. HandlePc[kind] = "putSocket"
          BY <3>2 DEF HandlePc
        <4> QED BY <2>1, <3>1, <3>2, <4>1, OpenTo DEF Settling, Asks
      <3>3. CASE kind \in Asks
        <4>1. HandleSession(c, kind, s) = Full(c) /\ HandlePc[kind] # "createSocket"
          BY <2>2, <3>3 DEF HandleSession, HandlePc, Asks
        <4> QED BY <2>1, <2>2, <3>1, <3>3, <4>1, OpenTo
      <3> QED BY <1>1, <3>2, <3>3 DEF Asks
    <2> QED BY <1>5, <2>3, <2>4, ReadGameStep
  <1>6. CASE UpdateSocket(a)
    <2>1. /\ UNCHANGED clientVars /\ task[a].pc = "putSocket" /\ PutSocket(c, s)
          /\ To(a, "putGame", s, task[a].changes)
      BY <1>1, <1>6, UpdateSocketStep DEF UpdateSocket, At
    <2>2. s = Full(c)
      BY <1>1, <1>2, <2>1, PcKinds DEF Puts, Owning, Asks
    <2>3. socket'[c] = Full(c)
      BY <1>1, <2>1, <2>2 DEF PutSocket, Shapes, SessionTypes
    <2> QED BY <2>1, <2>2, <2>3, OpenTo
  <1>7. CASE UpdateGame(a)
    <2>1. /\ UNCHANGED clientVars /\ task[a].pc = "putGame" /\ socket' = socket
          /\ To(a, "answer", s, task[a].changes) /\ kind \in {"login", "update"}
      BY <1>1, <1>7, UpdateGameStep DEF UpdateGame, At
    <2>2. socket'[c] = Full(c)
      BY <1>2, <2>1 DEF Settling
    <2> QED BY <2>1, <2>2, OpenTo DEF Owning
  <1>8. CASE MoveOut(a) \/ FlushRead(a) \/ FlushCreate(a) \/ FlushGame(a) \/ FlushSocket(a)
    <2>1. UNCHANGED clientVars
      BY <1>8 DEF MoveOut, FlushRead, FlushCreate, FlushGame, FlushSocket
    <2>2. PICK pc, t, n : pc \in Flushes \cup Ends /\ To(a, pc, t, n)
      BY <1>8, MoveOutStep, FlushReadStep, FlushCreateStep, FlushGameStep, FlushSocketStep
         DEF Flushes, Ends
    <2>3. kind = "startGame"
      BY <1>1, <1>8, MoveOutStep, FlushReadStep, FlushCreateStep, FlushGameStep, FlushSocketStep
    <2> QED BY <2>1, <2>2, <2>3, OpenTo DEF Settling, Flushes, Ends, Owning
  <1>9. CASE ReadTransit(a) \/ MoveIn(a)
    BY <1>1, <1>9, ReadTransitStep, MoveInStep
  <1> QED BY <1>3, <1>4, <1>5, <1>6, <1>7, <1>8, <1>9 DEF Command

\* A command for another connection leaves the socket session of c alone.
LEMMA SocketElsewhere ==
    ASSUME Shapes, NEW c \in Conns, NEW a \in Actors, Command(a), ~ On(a, c)
    PROVE  socket'[c] = socket[c]
  <1>1. Busy(a)
    BY DEF Command, ReadSocket, CreateSocket, ReadGame, UpdateSocket, UpdateGame, MoveOut, ReadTransit,
           MoveIn, FlushRead, FlushCreate, FlushGame, FlushSocket, Answer, Fail, At
  <1>2. Conn(a) \in Conns /\ Conn(a) # c
    BY <1>1, BusyOK DEF On
  <1>3. UNCHANGED socket \/ \E s : PutSocket(Conn(a), s)
    BY DEF Command, ReadSocket, CreateSocket, ReadGame, UpdateSocket, UpdateGame, MoveOut, ReadTransit,
           MoveIn, FlushRead, FlushCreate, FlushGame, FlushSocket, Answer, Fail, redisVars
  <1> QED BY <1>2, <1>3 DEF PutSocket, Shapes, SessionTypes

LEMMA NextOpen ==
    ASSUME OneAtATime, Shapes, Order, NewOK, Closing, [Changes]_sessionVars, NEW p \in Players, OpenOK(p)
    PROVE  OpenOK(p)'
  <1> DEFINE c == B(p)
  <1> SUFFICES ASSUME link'[c] = "open" PROVE OpenOK(p)'
    BY DEF OpenOK
  <1>0. c \in Conns /\ ServerOf(c) = "barrack"
    BY PlayerFacts
  <1>1. ASSUME NEW d \in Conns, Client(d) PROVE OpenOK(p)'
    <2>1. /\ UNCHANGED <<task, socket>> /\ \A a \in Actors : On(a, c)' <=> On(a, c)
      BY <1>0, <1>1, ClientStep DEF redisVars
    <2>2. CASE link[c] = "open"
      <3>1. /\ progress'[c] = "inside" => progress[c] = "inside"
            /\ pending'[c] \in Asks => pending[c] \in Asks \/ progress[c] = "inside"
        BY <1>0, <1>1 DEF Shapes, SessionTypes, Client, Open, SendEnter, SendStartGame, Close,
           SendRequest, Send, Asks
      <3>2. Settled(p)' => Settled(p)
        BY <2>1, <3>1 DEF Settled
      <3> QED BY <2>1, <2>2, <3>2, OpenFrame
    <2>3. CASE link[c] # "open"
      <3>1. link[c] = "new" /\ UNCHANGED <<progress, pending>>
        BY <1>0, <1>1, <2>3 DEF Shapes, SessionTypes, Client, Open, SendEnter, SendStartGame, Close,
           SendRequest, Send
      <3>2. progress[c] = "connected" /\ pending[c] = NoPacket /\ \A a \in Actors : ~ On(a, c)
        BY <1>0, <3>1 DEF NewOK, Order, FreshOK
      <3>3. ~ Settled(p)'
        BY <2>1, <3>1, <3>2 DEF Settled, Asks, NoPacket
      <3> QED BY <2>1, <3>2, <3>3 DEF OpenOK
    <2> QED BY <2>2, <2>3
  <1>2. ASSUME NEW a \in Actors, Answer(a) \/ Fail(a) PROVE OpenOK(p)'
    <2>1. /\ link[c] = "open" /\ UNCHANGED <<socket, pending>>
          /\ \A b \in Actors : On(b, c)' <=> (On(b, c) /\ b # a)
          /\ \A b \in Actors : b # a => task'[b] = task[b]
          /\ c # Conn(a) => progress'[c] = progress[c]
          /\ Busy(a)
      BY <1>0, <1>2, EndStep DEF redisVars
    <2>2. progress'[c] = "inside" => Settled(p)
      <3>1. CASE progress'[c] = progress[c]
        BY <3>1 DEF Settled
      <3>2. CASE c = Conn(a) /\ task[a].kind \in Enters /\ task[a].pc = "answer"
        <4>1. On(a, c) /\ task[a].kind = "login"
          BY <1>0, <2>1, <3>2, BusyOK, PcKinds DEF On, Enters
        <4> QED BY <3>2, <4>1 DEF Settled, Settling
      <3>3. CASE c = Conn(a) /\ progress'[c] = "left"
        BY <3>3
      <3> QED BY <1>2, <2>1, <3>1, <3>2, <3>3, EndStep
    <2>3. Settled(p)' => Settled(p)
      BY <2>1, <2>2 DEF Settled
    <2> QED BY <2>1, <2>3, OpenFrame
  <1>3. ASSUME NEW a \in Actors, Command(a), ~ Answer(a), ~ Fail(a) PROVE OpenOK(p)'
    <2>1. PICK pc, s, n : Busy(a) /\ UNCHANGED clientVars /\ To(a, pc, s, n)
      BY <1>3, CommandCases
    <2>2. link[c] = "open"
      BY <2>1 DEF clientVars
    <2>3. CASE On(a, c)
      BY <1>3, <2>2, <2>3, CommandOpen
    <2>4. CASE ~ On(a, c)
      <3>1. Same(a)
        BY <2>1, ToFacts
      <3>2. \A b \in Actors : On(b, c)' => On(b, c) /\ task'[b] = task[b]
        BY <1>0, <2>4, <3>1 DEF Same
      <3>3. Settled(p)' => Settled(p)
        BY <2>1, <3>2 DEF Settled, clientVars
      <3>4. socket'[c] = socket[c]
        BY <1>0, <1>3, <2>4, SocketElsewhere
      <3> QED BY <2>2, <3>2, <3>3, <3>4, OpenFrame
    <2> QED BY <2>3, <2>4
  <1>4. ASSUME NEW a \in Actors, NEW d \in Conns, Take(a, d) PROVE OpenOK(p)'
    <2>1. /\ ~ Busy(a) /\ pending' = [pending EXCEPT ![d] = NoPacket]
          /\ pending[d] \in Packets
          /\ TaskChange(a, Task(d, pending[d], "readSocket", NewSocketSession, 0))
          /\ UNCHANGED <<link, progress, socket>>
      BY <1>4, TakeStep DEF KindsOf, Packets, redisVars
    <2>2. /\ \A b \in Actors : On(b, c)' <=> (On(b, c) \/ (b = a /\ c = d))
          /\ \A b \in Actors : b # a => task'[b] = task[b]
          /\ task'[a].kind = pending[d] /\ task'[a].pc = "readSocket" /\ ~ On(a, c)
      BY <1>0, <2>1, BeginStep
    <2>3. pending'[c] \in Asks => pending[c] \in Asks
      BY <1>0, <2>1 DEF Shapes, SessionTypes, Asks, NoPacket
    <2>4. Settling(pending[c], "readSocket") => pending[c] \in Asks
      BY DEF Settling, Asks
    <2>5. Settled(p)' => Settled(p)
      BY <2>1, <2>2, <2>3, <2>4 DEF Settled
    <2> QED BY <2>1, <2>2, <2>5, OpenFrame
  <1>5. ASSUME NEW a \in Actors, NEW d \in Conns, BeginFlush(a, d) PROVE OpenOK(p)'
    <2>1. /\ ~ Busy(a) /\ UNCHANGED <<clientVars, socket>>
          /\ TaskChange(a, Task(d, "flush", "flushRead", NewSocketSession, 0))
      BY <1>5, BeginFlushStep DEF redisVars
    <2>2. /\ \A b \in Actors : On(b, c)' <=> (On(b, c) \/ (b = a /\ c = d))
          /\ \A b \in Actors : b # a => task'[b] = task[b]
          /\ task'[a].kind = "flush" /\ task'[a].pc = "flushRead"
      BY <1>0, <2>1, BeginStep
    <2>3. Settled(p)' => Settled(p)
      BY <2>1, <2>2 DEF Settled, Settling, clientVars
    <2> QED BY <2>1, <2>2, <2>3, OpenFrame DEF clientVars
  <1>6. CASE UNCHANGED sessionVars
    <2>1. UNCHANGED <<task, clientVars, socket>> /\ \A a \in Actors : On(a, c)' <=> On(a, c)
      BY <1>6 DEF sessionVars, redisVars, On, Busy, Conn
    <2>2. Settled(p)' => Settled(p)
      BY <2>1 DEF Settled, clientVars
    <2> QED BY <2>1, <2>2, OpenFrame DEF clientVars
  <1> QED BY <1>1, <1>2, <1>3, <1>4, <1>5, <1>6 DEF Changes, Step

-----------------------------------------------------------------------------
(* The game session of a player who was told to start the game *)

LEMMA SentFrame ==
    ASSUME NEW p \in Players, SentOK(p),
           progress'[Z(p)] = "connected" => progress[Z(p)] = "connected",
           Leaves(p)' => Leaves(p),
           game[TransitKey(p)] # Absent => game'[TransitKey(p)] # Absent
    PROVE  SentOK(p)'
  BY DEF SentOK

\* Only the worker of the zone server takes a session out of transit, for a
\* client that has sent its first packet.
LEMMA TransitKept ==
    ASSUME Shapes, Order, NEW p \in Players, progress[Z(p)] = "connected",
           NEW a \in Actors, Command(a), game[TransitKey(p)] # Absent
    PROVE  game'[TransitKey(p)] # Absent
  <1>0. TransitKey(p) \in GameKeys /\ Z(p) \in Conns
    BY KeyFacts, PlayerFacts
  <1>1. CASE UpdateGame(a) \/ FlushGame(a)
    <2>0. Busy(a)
      BY <1>1, UpdateGameStep, FlushGameStep
    <2>1. GameKey(Conn(a), task[a].session) # TransitKey(p)
      BY <2>0, BusyOK, GameKeyFacts
    <2> DEFINE key == GameKey(Conn(a), task[a].session)
    <2>2. \E g : game' = [game EXCEPT ![key] = g]
      BY <1>1, UpdateGameStep, FlushGameStep
    <2>3. game \in [GameKeys -> Games \cup {Absent}]
      BY DEF Shapes, SessionTypes
    <2>4. key # TransitKey(p)
      BY <2>1
    <2> HIDE DEF key
    <2> QED BY <1>0, <2>2, <2>3, <2>4
  <1>2. CASE MoveOut(a)
    <2>1. GameKey(Conn(a), task[a].session) # TransitKey(p)
      BY <1>2, MoveOutStep, BusyOK, GameKeyFacts
    <2> QED BY <1>0, <1>2, <2>1, MoveOutStep DEF Rename
  <1>3. CASE MoveIn(a)
    <2> DEFINE q == PlayerOf(Conn(a))
    <2>1. /\ Busy(a) /\ q \in Players /\ Conn(a) = Z(q) /\ task[a].kind = "connect"
          /\ Rename(TransitKey(q), ZoneKey(q)) \/ game' = game
      BY <1>3, MoveInStep
    <2>2. q # p
      BY <1>0, <2>1 DEF Order, FreshOK, On
    <2>3. TransitKey(q) # TransitKey(p) /\ ZoneKey(q) # TransitKey(p)
      BY <2>2 DEF TransitKey, ZoneKey
    <2> QED BY <1>0, <2>1, <2>3 DEF Rename
  <1>4. CASE UNCHANGED game
    BY <1>4
  <1> QED BY <1>1, <1>2, <1>3, <1>4
      DEF Command, ReadSocket, CreateSocket, ReadGame, UpdateSocket, ReadTransit, FlushRead,
          FlushCreate, FlushSocket, Answer, Fail, redisVars

\* A worker leaves the barrack's session to be flushed only if it has moved the
\* game session.
LEMMA LeaveStep ==
    ASSUME Shapes, NEW a \in Actors, Command(a), ~ MoveOut(a), ~ Answer(a), ~ Fail(a),
           task[a].kind = "startGame"
    PROVE  \E pc, s, n : To(a, pc, s, n) /\ (pc \in Flushes \cup {"answer"} => task[a].pc \in Flushes)
  <1>1. CASE ReadSocket(a) \/ CreateSocket(a) \/ ReadGame(a)
    <2>1. HandlePc["startGame"] = "moveOut"
      BY DEF HandlePc
    <2> QED BY <1>1, <2>1, ReadSocketStep, CreateSocketStep, ReadGameStep DEF Handled, Flushes
  <1>2. CASE UpdateSocket(a)
    BY <1>2, UpdateSocketStep DEF Flushes
  <1>3. CASE FlushRead(a) \/ FlushCreate(a) \/ FlushGame(a) \/ FlushSocket(a)
    BY <1>3, FlushReadStep, FlushCreateStep, FlushGameStep, FlushSocketStep DEF At, Flushes
  <1> QED BY <1>1, <1>2, <1>3, UpdateGameStep, ReadTransitStep, MoveInStep DEF Command

LEMMA NextSent ==
    ASSUME OneAtATime, Shapes, Order, NewOK, Closing, [Changes]_sessionVars,
           NEW p \in Players, OpenOK(p), SentOK(p)
    PROVE  SentOK(p)'
  <1> DEFINE c == B(p)
  <1>0. c \in Conns /\ Z(p) \in Conns /\ TransitKey(p) \in GameKeys
    BY PlayerFacts, KeyFacts
  <1>1. ASSUME NEW d \in Conns, Client(d) PROVE SentOK(p)'
    <2>1. /\ UNCHANGED <<task, game>> /\ \A a \in Actors : On(a, c)' <=> On(a, c)
      BY <1>0, <1>1, ClientStep DEF redisVars
    <2>2. /\ progress'[Z(p)] = "connected" => progress[Z(p)] = "connected"
          /\ progress'[c] = "left" => progress[c] = "left"
          /\ link'[c] = "open" => link[c] \in {"new", "open"}
      BY <1>0, <1>1 DEF Shapes, SessionTypes, Client, Open, SendEnter, SendStartGame, Close,
         SendRequest, Send
    <2>3. link[c] = "new" => \A a \in Actors : ~ On(a, c)
      BY <1>0 DEF NewOK, Order, FreshOK
    <2>4. Leaves(p)' => Leaves(p)
      BY <2>1, <2>2, <2>3 DEF Leaves, Does
    <2> QED BY <2>1, <2>2, <2>4, SentFrame
  <1>2. ASSUME NEW a \in Actors, Answer(a) \/ Fail(a) PROVE SentOK(p)'
    <2>1. /\ UNCHANGED <<link, game>> /\ Busy(a)
          /\ \A b \in Actors : On(b, c)' <=> (On(b, c) /\ b # a)
          /\ \A b \in Actors : b # a => task'[b] = task[b]
          /\ progress'[Z(p)] = "connected" => progress[Z(p)] = "connected"
      BY <1>0, <1>2, EndStep DEF redisVars
    <2>2. progress'[c] = "left" => Leaves(p)
      <3>1. CASE progress'[c] = progress[c]
        BY <3>1 DEF Leaves
      <3>2. CASE /\ c = Conn(a) /\ task[a].kind = "startGame" /\ link[c] = "open"
                 /\ task[a].pc = "answer"
        BY <2>1, <3>2 DEF Leaves, Does, On
      <3>3. CASE progress'[c] = "inside"
        BY <3>3
      <3> QED BY <1>0, <1>2, <3>1, <3>2, <3>3, EndStep
    <2>3. Leaves(p)' => Leaves(p)
      BY <2>1, <2>2 DEF Leaves, Does
    <2> QED BY <2>1, <2>3, SentFrame
  <1>3. ASSUME NEW a \in Actors, Command(a), ~ Answer(a), ~ Fail(a) PROVE SentOK(p)'
    <2>1. PICK pc, s, n : Busy(a) /\ UNCHANGED clientVars /\ To(a, pc, s, n)
      BY <1>3, CommandCases
    <2>2. progress[Z(p)] = "connected" /\ game[TransitKey(p)] # Absent
            => game'[TransitKey(p)] # Absent
      BY <1>3, TransitKept
    <2>3. ASSUME Leaves(p)' => Leaves(p) PROVE SentOK(p)'
      BY <2>1, <2>2, <2>3 DEF SentOK, clientVars
    <2>4. /\ Same(a) /\ \A b \in Actors : On(b, c)' <=> On(b, c)
          /\ \A b \in Actors : b # a => task'[b] = task[b]
          /\ task'[a].kind = task[a].kind /\ task'[a].pc = pc
      BY <1>0, <2>1, ToFacts DEF Same
    <2>5. CASE ~ On(a, c) \/ task[a].kind # "startGame"
      <3>1. Leaves(p)' => Leaves(p)
        BY <2>1, <2>4, <2>5 DEF Leaves, Does, clientVars
      <3> QED BY <2>3, <3>1
    <2>6. CASE On(a, c) /\ task[a].kind = "startGame" /\ ~ MoveOut(a)
      <3>1. task'[a].pc \in Flushes \cup {"answer"} => task[a].pc \in Flushes
        <4>1. PICK qc, t, m : To(a, qc, t, m)
                              /\ (qc \in Flushes \cup {"answer"} => task[a].pc \in Flushes)
          BY <1>3, <2>6, LeaveStep
        <4>2. task'[a].pc = qc
          BY <2>1, <4>1, ToFacts
        <4> QED BY <4>1, <4>2
      <3>2. Leaves(p)' => Leaves(p)
        BY <2>1, <2>4, <3>1 DEF Leaves, Does, clientVars
      <3> QED BY <2>3, <3>2
    <2>7. CASE On(a, c) /\ MoveOut(a)
      <3>1. /\ task[a].pc = "moveOut" /\ task[a].kind = "startGame" /\ Conn(a) = c
        BY <2>7, MoveOutStep DEF At, On
      <3>2. CASE Rename(GameKey(c, task[a].session), TransitKey(task[a].session.account))
        <4>1. CASE link[c] = "open"
          <5>1. task[a].session = Full(c)
            BY <2>7, <3>1, <4>1 DEF OpenOK, Asks, Owning
          <5>2. TransitKey(task[a].session.account) = TransitKey(p)
            BY <1>0, <5>1, SessionFacts, PlayerFacts
          <5>3. game'[TransitKey(p)] # Absent
            BY <1>0, <3>2, <5>2 DEF Rename
          <5> QED BY <5>3 DEF SentOK
        <4>2. CASE link[c] # "open"
          <5>1. Leaves(p)' => Leaves(p)
            BY <2>1, <4>2 DEF Leaves, clientVars
          <5> QED BY <2>3, <5>1
        <4> QED BY <4>1, <4>2
      <3>3. CASE To(a, "fail", task[a].session, task[a].changes)
        <4>1. task'[a].pc = "fail"
          BY <2>1, <3>3, ToFacts
        <4>2. Leaves(p)' => Leaves(p)
          BY <2>1, <2>4, <4>1 DEF Leaves, Does, Flushes, clientVars
        <4> QED BY <2>3, <4>2
      <3> QED BY <2>7, <3>1, <3>2, <3>3, MoveOutStep
    <2> QED BY <2>5, <2>6, <2>7
  <1>4. ASSUME NEW a \in Actors, NEW d \in Conns, Take(a, d) \/ BeginFlush(a, d) PROVE SentOK(p)'
    <2>1. PICK kind \in Packets \cup {"flush"}, pc \in {"readSocket", "flushRead"} :
              /\ ~ Busy(a) /\ TaskChange(a, Task(d, kind, pc, NewSocketSession, 0))
              /\ kind # "startGame" \/ pc = "readSocket"
      BY <1>4, TakeStep, BeginFlushStep DEF KindsOf, Packets
    <2>2. /\ \A b \in Actors : On(b, c)' <=> (On(b, c) \/ (b = a /\ c = d))
          /\ \A b \in Actors : b # a => task'[b] = task[b]
          /\ task'[a].kind = kind /\ task'[a].pc = pc
      BY <1>0, <2>1, BeginStep
    <2>3. UNCHANGED <<link, progress, game>>
      BY <1>4 DEF Take, BeginFlush, clientVars, redisVars
    <2>4. Leaves(p)' => Leaves(p)
      BY <2>1, <2>2, <2>3 DEF Leaves, Does, Flushes
    <2> QED BY <2>3, <2>4, SentFrame
  <1>5. CASE UNCHANGED sessionVars
    <2>1. UNCHANGED <<link, progress, task, game>> /\ \A a \in Actors : On(a, c)' <=> On(a, c)
      BY <1>5 DEF sessionVars, clientVars, redisVars, On, Busy, Conn
    <2>2. Leaves(p)' => Leaves(p)
      BY <2>1 DEF Leaves, Does
    <2> QED BY <2>1, <2>2, SentFrame
  <1> QED BY <1>1, <1>2, <1>3, <1>4, <1>5 DEF Changes, Step

LEMMA NextArrival == OneAtATime /\ Shapes /\ Order /\ Arrival /\ [Changes]_sessionVars => Arrival'
  <1> SUFFICES ASSUME OneAtATime, Shapes, Order, Arrival, [Changes]_sessionVars PROVE Arrival'
    OBVIOUS
  <1>1. NewOK' /\ Closing'
    BY NextNewOK, NextClosing DEF Arrival
  <1>2. ASSUME NEW p \in Players PROVE (OpenOK(p) /\ SentOK(p))'
    BY NextOpen, NextSent DEF Arrival
  <1> QED BY <1>1, <1>2 DEF Arrival

-----------------------------------------------------------------------------
(* The life of the game session of a client that waits for its answers *)

\* Such a client closes a connection nobody works on.
QuietOK(c) ==
    PlayerOf(c) \notin Abrupt /\ link[c] = "closed" =>
        pending[c] = NoPacket /\ \A a \in Actors : On(a, c) => task[a].kind = "flush"

\* So what a worker of the zone server is about to write was not flushed.
HeldOK(p) ==
    \A a \in Actors :
        On(a, Z(p)) /\ task[a].session = Full(Z(p)) /\ task[a].pc \in Puts =>
            game[ZoneKey(p)] # Absent

\* It opens the second connection when the first has told it to.
FollowOK(p) == link[Z(p)] # "new" => progress[B(p)] = "left"

Courtesy ==
    /\ \A c \in Conns : QuietOK(c)
    /\ \A p \in Players \ Abrupt : HeldOK(p)
    /\ \A p \in Players : FollowOK(p)

LEMMA InitCourtesy == Init => Courtesy
  <1> SUFFICES ASSUME Init PROVE Courtesy
    OBVIOUS
  <1>1. \A a \in Actors, c \in Conns : ~ On(a, c)
    BY DEF Init, On, Busy
  <1>2. \A p \in Players : Z(p) \in Conns
    BY PlayerFacts
  <1> QED BY <1>1, <1>2 DEF Init, Courtesy, QuietOK, HeldOK, FollowOK

LEMMA NextFollow ==
    ASSUME Shapes, Order, [Changes]_sessionVars, NEW p \in Players, FollowOK(p)
    PROVE  FollowOK(p)'
  <1> DEFINE c == B(p)
  <1>0. c \in Conns /\ Z(p) \in Conns /\ ServerOf(Z(p)) = "zone" /\ PlayerOf(Z(p)) = p
    BY PlayerFacts
  <1>1. ASSUME NEW d \in Conns, Client(d) PROVE FollowOK(p)'
    <2>1. /\ progress[c] = "left" => progress'[c] = "left"
          /\ link'[Z(p)] = link[Z(p)] \/ link[Z(p)] # "new" \/ progress[<<p, "barrack">>] = "left"
      BY <1>0, <1>1 DEF Shapes, SessionTypes, Client, Open, SendEnter, SendStartGame, Close,
         SendRequest, Send
    <2> QED BY <2>1 DEF FollowOK, B
  <1>2. ASSUME NEW a \in Actors, Answer(a) \/ Fail(a) PROVE FollowOK(p)'
    <2>1. progress[c] = "left" => progress'[c] = "left"
      <3>1. c = Conn(a) /\ progress[c] = "left" =>
               task[a].kind \notin Enters /\ task[a].kind # "startGame"
        <4>1. Busy(a)
          BY <1>2, EndStep
        <4> QED BY <1>0, <4>1 DEF On, Order, EnterOK, LeavingOK
      <3> QED BY <1>0, <1>2, <3>1, EndStep
    <2> QED BY <1>2, <2>1, EndStep DEF FollowOK
  <1>3. CASE UNCHANGED <<link, progress>>
    BY <1>3 DEF FollowOK
  <1>4. ASSUME NEW a \in Actors, Command(a) PROVE FollowOK(p)'
    BY <1>2, <1>3, <1>4, CommandCases DEF clientVars
  <1>5. ASSUME NEW a \in Actors, NEW d \in Conns, Take(a, d) \/ BeginFlush(a, d) PROVE FollowOK(p)'
    BY <1>3, <1>5 DEF Take, BeginFlush, clientVars
  <1> QED BY <1>1, <1>3, <1>4, <1>5 DEF Changes, Step, sessionVars, clientVars

LEMMA NextQuiet ==
    ASSUME Shapes, [Changes]_sessionVars, NEW c \in Conns, QuietOK(c)
    PROVE  QuietOK(c)'
  <1>1. ASSUME NEW d \in Conns, Client(d) PROVE QuietOK(c)'
    <2>1. task' = task /\ \A a \in Actors : On(a, c)' <=> On(a, c)
      BY <1>1, ClientStep
    <2>2. \/ /\ link'[c] = "closed" => link[c] = "closed"
             /\ link[c] = "closed" => pending'[c] = pending[c]
          \/ d = c /\ Close(c)
      BY <1>1 DEF Shapes, SessionTypes, Client, Open, SendEnter, SendStartGame, Close, SendRequest, Send
    <2>3. CASE d = c /\ Close(c) /\ PlayerOf(c) \notin Abrupt
      BY <2>1, <2>3 DEF Close, WorkedOn, On, Conn, QuietOK
    <2> QED BY <2>1, <2>2, <2>3 DEF QuietOK
  <1>2. ASSUME NEW a \in Actors, Command(a) PROVE QuietOK(c)'
    <2>1. CASE Answer(a) \/ Fail(a)
      BY <2>1, EndStep DEF QuietOK
    <2>2. ASSUME Busy(a), UNCHANGED clientVars, NEW pc, NEW s, NEW n, To(a, pc, s, n)
          PROVE  QuietOK(c)'
      <3>1. Same(a)
        BY <2>2, ToFacts
      <3> QED BY <2>2, <3>1 DEF Same, QuietOK, clientVars, On
    <2> QED BY <1>2, <2>1, <2>2, CommandCases
  <1>3. ASSUME NEW a \in Actors, NEW d \in Conns, Take(a, d) PROVE QuietOK(c)'
    <2>1. /\ ~ Busy(a) /\ pending' = [pending EXCEPT ![d] = NoPacket]
          /\ pending[d] \in Packets /\ pending[d] # NoPacket /\ link' = link
          /\ TaskChange(a, Task(d, pending[d], "readSocket", NewSocketSession, 0))
      BY <1>3, TakeStep DEF KindsOf, Packets, NoPacket
    <2>2. /\ \A b \in Actors : On(b, c)' <=> (On(b, c) \/ (b = a /\ c = d))
          /\ \A b \in Actors : b # a => task'[b] = task[b]
          /\ ~ On(a, c)
      BY <2>1, BeginStep
    <2>3. d # c => pending'[c] = pending[c]
      BY <2>1 DEF Shapes, SessionTypes
    <2> QED BY <2>1, <2>2, <2>3 DEF QuietOK
  <1>4. ASSUME NEW a \in Actors, NEW d \in Conns, BeginFlush(a, d) PROVE QuietOK(c)'
    <2>1. /\ ~ Busy(a) /\ UNCHANGED clientVars
          /\ TaskChange(a, Task(d, "flush", "flushRead", NewSocketSession, 0))
      BY <1>4, BeginFlushStep
    <2>2. /\ \A b \in Actors : On(b, c)' <=> (On(b, c) \/ (b = a /\ c = d))
          /\ \A b \in Actors : b # a => task'[b] = task[b]
          /\ task'[a].kind = "flush"
      BY <2>1, BeginStep
    <2> QED BY <2>1, <2>2 DEF QuietOK, clientVars
  <1>5. CASE UNCHANGED sessionVars
    BY <1>5 DEF sessionVars, clientVars, QuietOK, On, Busy, Conn
  <1> QED BY <1>1, <1>2, <1>3, <1>4, <1>5 DEF Changes, Step

\* While a worker of the zone server writes, the game session stays.
LEMMA HeldTo ==
    ASSUME Shapes, NEW p \in Players, HeldOK(p), NEW a \in Actors, Busy(a),
           NEW pc, NEW s, NEW n, To(a, pc, s, n),
           game[ZoneKey(p)] # Absent => game'[ZoneKey(p)] # Absent,
           Conn(a) = Z(p) /\ s = Full(Z(p)) /\ pc \in Puts => game'[ZoneKey(p)] # Absent
    PROVE  HeldOK(p)'
  <1>1. /\ Same(a) /\ task'[a].pc = pc /\ task'[a].session = s
    BY ToFacts
  <1>2. /\ \A b \in Actors : On(b, Z(p))' <=> On(b, Z(p))
        /\ \A b \in Actors : b # a => task'[b] = task[b]
        /\ On(a, Z(p)) => Conn(a) = Z(p)
    BY <1>1, PlayerFacts DEF Same, On
  <1> QED BY <1>1, <1>2 DEF HeldOK

\* Who deletes the game session of a client that waits for its answers: at the
\* zone server its monitor, when the connection has closed and nobody else
\* works on it; at the barrack also the worker that has moved the session away.
LEMMA PoliteFlush ==
    ASSUME OneAtATime, Shapes, Order, Handover, Arrival, Courtesy,
           NEW p \in Players \ Abrupt, NEW a \in Actors, FlushGame(a)
    PROVE  LET key == GameKey(Conn(a), task[a].session)
           IN  /\ key = ZoneKey(p) =>
                    /\ link[Z(p)] = "closed"
                    /\ \A b \in Actors : On(b, Z(p)) => task[b].kind = "flush"
               /\ key = BarrackKey(p) =>
                    link[B(p)] = "closed" \/ game[BarrackKey(p)] = Absent
               /\ key # TransitKey(p)
  <1> DEFINE key == GameKey(Conn(a), task[a].session)
  <1>1. /\ Busy(a) /\ task[a].pc = "flushGame" /\ task[a].kind \in {"startGame", "flush"}
        /\ Conn(a) \in Conns
    BY FlushGameStep, BusyOK DEF At
  <1>2. /\ key # TransitKey(p)
        /\ key = ZoneKey(p) => Conn(a) = Z(p)
        /\ key = BarrackKey(p) => Conn(a) = B(p)
    BY <1>1, BusyOK, GameKeyFacts
  <1>3. ASSUME key = ZoneKey(p)
        PROVE  link[Z(p)] = "closed" /\ \A b \in Actors : On(b, Z(p)) => task[b].kind = "flush"
    <2>1. task[a].kind = "flush"
      BY <1>1, <1>2, <1>3, BusyOK, PcKinds, PlayerFacts
    <2>2. link[Z(p)] = "closed"
      BY <1>1, <1>2, <1>3, <2>1 DEF Arrival, Closing
    <2> QED BY <2>2, PlayerFacts DEF Courtesy, QuietOK
  <1>4. ASSUME key = BarrackKey(p), link[B(p)] # "closed" PROVE game[BarrackKey(p)] = Absent
    <2>1. On(a, B(p)) /\ B(p) \in Conns /\ Z(p) \in Conns
      BY <1>1, <1>2, <1>4, PlayerFacts DEF On
    <2>2. task[a].kind = "startGame"
      BY <1>1, <1>4, <2>1 DEF Arrival, Closing, On
    <2>3. progress[B(p)] = "leaving"
      BY <2>1, <2>2 DEF Order, LeavingOK
    <2>4. link[B(p)] = "open"
      BY <1>4, <2>1, <2>3 DEF Arrival, NewOK, Shapes, SessionTypes
    <2>5. progress[Z(p)] = "connected"
      BY <2>1, <2>3 DEF Courtesy, FollowOK, Arrival, NewOK
    <2>6. Leaves(p)
      BY <1>1, <2>1, <2>2, <2>4 DEF Leaves, Does, Flushes
    <2>7. game[TransitKey(p)] # Absent
      BY <2>5, <2>6 DEF Arrival, SentOK
    <2> QED BY <2>7 DEF Handover, HandoverOf, InTransit
  <1> QED BY <1>2, <1>3, <1>4

LEMMA CommandHeld ==
    ASSUME OneAtATime, Shapes, Order, Handover, Arrival, Courtesy,
           NEW p \in Players \ Abrupt, NEW a \in Actors, Command(a), ~ Answer(a), ~ Fail(a)
    PROVE  HeldOK(p)'
  <1> DEFINE c == Conn(a)
             s == task[a].session
  <1>0. /\ HeldOK(p) /\ ZoneKey(p) \in GameKeys /\ p \in Players
        /\ Full(Z(p)) # NewSocketSession
    BY KeyFacts, PlayerFacts, SessionFacts DEF Courtesy
  <1>1. CASE ReadSocket(a) \/ CreateSocket(a)
    <2>1. Busy(a) /\ game' = game
      BY <1>1 DEF ReadSocket, CreateSocket, At, redisVars
    <2>2. ASSUME NEW pc, NEW t, NEW n, To(a, pc, t, n), pc \notin Puts \/ c # Z(p) \/ t = NewSocketSession
          PROVE  HeldOK(p)'
      BY <1>0, <2>1, <2>2, HeldTo
    <2>3. ASSUME NEW n, Handled(a, NewSocketSession, n) PROVE HeldOK(p)'
      BY <1>0, <2>1, <2>2, <2>3, HandledSession DEF Handled
    <2> QED BY <1>1, <2>2, <2>3, ReadSocketStep, CreateSocketStep DEF Puts
  <1>2. CASE ReadGame(a)
    <2>1. Busy(a) /\ game' = game
      BY <1>2 DEF ReadGame, At, redisVars
    <2>2. CASE To(a, "fail", s, task[a].changes)
      BY <1>0, <2>1, <2>2, HeldTo DEF Puts
    <2>3. ASSUME NEW n, Handled(a, s, n), game[GameKey(c, s)] # Absent PROVE HeldOK(p)'
      <3>1. c = Z(p) => HandleSession(c, task[a].kind, s) = s
        BY <1>0, <2>1, <2>3, HandledSession
      <3>2. c = Z(p) /\ s = Full(Z(p)) => game[ZoneKey(p)] # Absent
        BY <1>0, <2>3, KeyFacts
      <3> QED BY <1>0, <2>1, <2>3, <3>1, <3>2, HeldTo DEF Handled
    <2> QED BY <1>2, <2>2, <2>3, ReadGameStep
  <1>3. CASE UpdateSocket(a)
    <2>1. /\ Busy(a) /\ game' = game /\ task[a].pc = "putSocket"
          /\ To(a, "putGame", s, task[a].changes)
      BY <1>3, UpdateSocketStep DEF UpdateSocket, At
    <2>2. c = Z(p) /\ s = Full(Z(p)) => game[ZoneKey(p)] # Absent
      BY <1>0, <2>1 DEF HeldOK, On, Puts
    <2> QED BY <1>0, <2>1, <2>2, HeldTo
  <1>4. CASE UpdateGame(a)
    <2> DEFINE g == [owner |-> c, changes |-> task[a].changes]
    <2>1. /\ Busy(a) /\ To(a, "answer", s, task[a].changes) /\ GameKey(c, s) \in GameKeys
          /\ game' = [game EXCEPT ![GameKey(c, s)] = g]
          /\ c \in Conns /\ task[a].changes \in Nat
      BY <1>4, UpdateGameStep, BusyOK
    <2>2. g # Absent
      BY <2>1, AbsentAssumption DEF Games
    <2>3. game[ZoneKey(p)] # Absent => game'[ZoneKey(p)] # Absent
      BY <1>0, <2>1, <2>2 DEF Shapes, SessionTypes
    <2> QED BY <1>0, <2>1, <2>3, HeldTo DEF Puts
  <1>5. CASE MoveOut(a)
    <2> DEFINE from == GameKey(c, s)
               to == TransitKey(s.account)
    <2>1. /\ Busy(a) /\ ServerOf(c) = "barrack"
          /\ Rename(from, to) \/ game' = game
          /\ \E pc \in {"flushRead", "fail"} : To(a, pc, s, task[a].changes)
          /\ Shaped(c, s) /\ c \in Conns
      BY <1>5, MoveOutStep, BusyOK
    <2>2. from # ZoneKey(p) /\ to # ZoneKey(p)
      BY <1>0, <1>5, <2>1, MoveOutStep, GameKeyFacts, PlayerFacts
    <2>3. game'[ZoneKey(p)] = game[ZoneKey(p)]
      BY <1>0, <2>1, <2>2 DEF Rename
    <2> QED BY <1>0, <1>5, <2>1, <2>3, MoveOutStep, HeldTo DEF Puts
  <1>6. CASE ReadTransit(a)
    <2>1. Busy(a) /\ game' = game /\ \E pc \in {"fail", "moveIn"} : \E t, n : To(a, pc, t, n)
      BY <1>6, ReadTransitStep DEF ReadTransit, redisVars
    <2> QED BY <1>0, <2>1, HeldTo DEF Puts
  <1>7. CASE MoveIn(a)
    <2> DEFINE q == PlayerOf(c)
    <2>1. /\ Busy(a) /\ q \in Players /\ c = Z(q)
          /\ \/ Rename(TransitKey(q), ZoneKey(q)) /\ To(a, "putSocket", Full(Z(q)), task[a].changes)
             \/ game' = game /\ To(a, "fail", Full(Z(q)), task[a].changes)
      BY <1>7, MoveInStep
    <2>2. CASE game' = game /\ To(a, "fail", Full(Z(q)), task[a].changes)
      BY <1>0, <2>1, <2>2, HeldTo DEF Puts
    <2>3. CASE Rename(TransitKey(q), ZoneKey(q)) /\ To(a, "putSocket", Full(Z(q)), task[a].changes)
      <3>1. TransitKey(q) # ZoneKey(p) /\ (c = Z(p) => q = p)
        BY <1>0, <2>1, PlayerFacts DEF TransitKey, ZoneKey
      <3>2. /\ game[ZoneKey(p)] # Absent => game'[ZoneKey(p)] # Absent
            /\ c = Z(p) => game'[ZoneKey(p)] # Absent
        BY <1>0, <2>3, <3>1 DEF Rename
      <3> QED BY <1>0, <2>1, <2>3, <3>2, HeldTo
    <2> QED BY <2>1, <2>2, <2>3
  <1>8. CASE FlushRead(a) \/ FlushCreate(a) \/ FlushSocket(a)
    <2>1. /\ Busy(a) /\ game' = game
          /\ \E pc \in Flushes \cup {"answer"} : \E t, n : To(a, pc, t, n)
      BY <1>8, FlushReadStep, FlushCreateStep, FlushSocketStep
         DEF FlushRead, FlushCreate, FlushSocket, redisVars, Flushes
    <2> QED BY <1>0, <2>1, HeldTo DEF Puts, Flushes
  <1>9. CASE FlushGame(a)
    <2> DEFINE key == GameKey(c, s)
    <2>1. /\ Busy(a) /\ To(a, "flushSocket", s, task[a].changes)
          /\ \A k \in GameKeys : k # key => game'[k] = game[k]
      BY <1>9, FlushGameStep DEF Shapes, SessionTypes
    <2>2. CASE key # ZoneKey(p)
      BY <1>0, <2>1, <2>2, HeldTo DEF Puts
    <2>3. CASE key = ZoneKey(p)
      <3>1. \A b \in Actors : On(b, Z(p)) => task[b].kind = "flush"
        BY <1>9, <2>3, PoliteFlush
      <3>2. \A b \in Actors : On(b, Z(p)) => task[b].pc \notin Puts
        BY <3>1, PcKinds DEF On, Puts
      <3>3. \A b \in Actors : On(b, Z(p))' => task'[b].pc \notin Puts
        BY <2>1, <3>2, PlayerFacts, ToFacts DEF Same, Puts
      <3> QED BY <3>3 DEF HeldOK
    <2> QED BY <2>2, <2>3
  <1> QED BY <1>1, <1>2, <1>3, <1>4, <1>5, <1>6, <1>7, <1>8, <1>9 DEF Command

LEMMA NextHeld ==
    ASSUME OneAtATime, Shapes, Order, Handover, Arrival, Courtesy, [Changes]_sessionVars,
           NEW p \in Players \ Abrupt
    PROVE  HeldOK(p)'
  <1>0. HeldOK(p) /\ Z(p) \in Conns
    BY PlayerFacts DEF Courtesy
  <1>1. ASSUME UNCHANGED game,
               \A b \in Actors : On(b, Z(p))' =>
                 \/ On(b, Z(p)) /\ task'[b] = task[b]
                 \/ task'[b].pc \in {"readSocket", "flushRead"}
        PROVE  HeldOK(p)'
    BY <1>0, <1>1 DEF HeldOK, Puts
  <1>2. ASSUME NEW d \in Conns, Client(d) PROVE HeldOK(p)'
    BY <1>0, <1>1, <1>2, ClientStep DEF redisVars
  <1>3. ASSUME NEW a \in Actors, Answer(a) \/ Fail(a) PROVE HeldOK(p)'
    BY <1>0, <1>1, <1>3, EndStep DEF redisVars
  <1>4. ASSUME NEW a \in Actors, NEW d \in Conns, Take(a, d) \/ BeginFlush(a, d) PROVE HeldOK(p)'
    <2>1. PICK kind \in Packets \cup {"flush"}, pc \in {"readSocket", "flushRead"} :
              ~ Busy(a) /\ TaskChange(a, Task(d, kind, pc, NewSocketSession, 0))
      BY <1>4, TakeStep, BeginFlushStep DEF KindsOf, Packets
    <2>2. /\ \A b \in Actors : On(b, Z(p))' => On(b, Z(p)) \/ b = a
          /\ \A b \in Actors : b # a => task'[b] = task[b]
          /\ task'[a].pc = pc
      BY <1>0, <2>1, BeginStep
    <2>3. UNCHANGED game
      BY <1>4 DEF Take, BeginFlush, redisVars
    <2> QED BY <1>1, <2>2, <2>3
  <1>5. CASE UNCHANGED sessionVars
    BY <1>1, <1>5 DEF sessionVars, redisVars, On, Busy, Conn
  <1> QED BY <1>2, <1>3, <1>4, <1>5, CommandHeld DEF Changes, Step

LEMMA NextCourtesy ==
    OneAtATime /\ Shapes /\ Order /\ Handover /\ Arrival /\ Courtesy /\ [Changes]_sessionVars => Courtesy'
  <1> SUFFICES ASSUME OneAtATime, Shapes, Order, Handover, Arrival, Courtesy, [Changes]_sessionVars
               PROVE  Courtesy'
    OBVIOUS
  <1>1. \A c \in Conns : QuietOK(c)'
    BY NextQuiet DEF Courtesy
  <1>2. \A p \in Players \ Abrupt : HeldOK(p)'
    BY NextHeld
  <1>3. \A p \in Players : FollowOK(p)'
    BY NextFollow DEF Courtesy
  <1> QED BY <1>1, <1>2, <1>3 DEF Courtesy

\* What LifeCycle allows a step to do with the game session of p
Lives(p) ==
    Place(p)' # Place(p) =>
        \/ <<Place(p), Place(p)'>> \in {<<"nowhere", "barrack">>, <<"barrack", "transit">>,
                                        <<"transit", "zone">>}
        \/ /\ Place(p) \in {"barrack", "zone"}
           /\ Place(p)' = "nowhere"
           /\ link[<<p, Place(p)>>] = "closed"

LEMMA SamePlace ==
    ASSUME NEW p \in Players,
           \A k \in Keys(p) : game'[k] = Absent <=> game[k] = Absent
    PROVE  Lives(p)
  BY DEF Lives, Place, Keys, BarrackKey, ZoneKey

\* At most one of the keys of p holds a game session.
LEMMA PlaceFacts ==
    ASSUME Handover, NEW p \in Players
    PROVE  /\ game[BarrackKey(p)] # Absent =>
                 game[TransitKey(p)] = Absent /\ game[ZoneKey(p)] = Absent
           /\ game[TransitKey(p)] # Absent =>
                 game[BarrackKey(p)] = Absent /\ game[ZoneKey(p)] = Absent
           /\ game[ZoneKey(p)] # Absent =>
                 game[BarrackKey(p)] = Absent /\ game[TransitKey(p)] = Absent
           /\ Place(p) = IF game[ZoneKey(p)] # Absent THEN "zone"
                         ELSE IF game[TransitKey(p)] # Absent THEN "transit"
                         ELSE IF game[BarrackKey(p)] # Absent THEN "barrack"
                         ELSE "nowhere"
           /\ Place(p)' = IF game'[ZoneKey(p)] # Absent THEN "zone"
                          ELSE IF game'[TransitKey(p)] # Absent THEN "transit"
                          ELSE IF game'[BarrackKey(p)] # Absent THEN "barrack"
                          ELSE "nowhere"
  BY DEF Handover, HandoverOf, InTransit, Arrived, Place, BarrackKey, ZoneKey

LEMMA StepLives ==
    ASSUME OneAtATime, Shapes, Order, Handover, Arrival, Courtesy, [Changes]_sessionVars,
           NEW p \in Players \ Abrupt
    PROVE  Lives(p)
  <1>0. /\ p \in Players /\ BarrackKey(p) \in GameKeys /\ ZoneKey(p) \in GameKeys
        /\ TransitKey(p) \in GameKeys
        /\ BarrackKey(p) # ZoneKey(p) /\ BarrackKey(p) # TransitKey(p)
        /\ ZoneKey(p) # TransitKey(p)
    BY KeyFacts
  <1>1. CASE UNCHANGED game
    BY <1>0, <1>1, SamePlace
  <1>2. ASSUME NEW a \in Actors, UpdateGame(a) PROVE Lives(p)
    <2> DEFINE c == Conn(a)
               key == GameKey(c, task[a].session)
               g == [owner |-> c, changes |-> task[a].changes]
    <2>1. /\ Busy(a) /\ task[a].pc = "putGame" /\ c \in Conns /\ key \in GameKeys
          /\ game' = [game EXCEPT ![key] = g] /\ task[a].changes \in Nat
          /\ Shaped(c, task[a].session)
      BY <1>2, UpdateGameStep, BusyOK DEF At
    <2>2. game'[key] # Absent /\ \A k \in GameKeys : k # key => game'[k] = game[k]
      BY <2>1, AbsentAssumption DEF Shapes, SessionTypes, Games
    <2>3. /\ key # TransitKey(p)
          /\ key = ZoneKey(p) => c = Z(p) /\ task[a].session = Full(Z(p))
          /\ key = BarrackKey(p) => c = B(p)
      BY <1>0, <2>1, GameKeyFacts
    <2>4. CASE key = ZoneKey(p)
      <3>1. game[ZoneKey(p)] # Absent
        BY <2>1, <2>3, <2>4 DEF Courtesy, HeldOK, On, Puts
      <3> QED BY <1>0, <2>2, <2>4, <3>1, SamePlace DEF Keys
    <2>5. CASE key = BarrackKey(p)
      <3>1. ~ Moved(p)
        BY <1>0, <2>1, <2>3, <2>5, NotMoved DEF Flushes, Ends
      <3>2. game[ZoneKey(p)] = Absent /\ game[TransitKey(p)] = Absent
        BY <1>0, <3>1 DEF Handover, HandoverOf, InTransit, Arrived
      <3>3. Place(p)' = "barrack" /\ Place(p) \in {"barrack", "nowhere"}
        BY <1>0, <2>2, <2>5, <3>2, PlaceFacts
      <3> QED BY <3>3 DEF Lives
    <2>6. CASE key \notin Keys(p)
      BY <1>0, <2>2, <2>6, SamePlace DEF Keys
    <2> QED BY <2>3, <2>4, <2>5, <2>6 DEF Keys
  <1>3. ASSUME NEW a \in Actors, MoveOut(a) PROVE Lives(p)
    <2> DEFINE s == task[a].session
               from == GameKey(Conn(a), s)
               to == TransitKey(s.account)
    <2>1. /\ Busy(a) /\ Conn(a) \in Conns /\ Shaped(Conn(a), s)
          /\ ServerOf(Conn(a)) = "barrack" /\ from \in GameKeys /\ to \in GameKeys
          /\ Rename(from, to) \/ game' = game
      BY <1>3, MoveOutStep, BusyOK
    <2>2. /\ from # TransitKey(p) /\ from # ZoneKey(p) /\ to # ZoneKey(p) /\ to # BarrackKey(p)
          /\ from = BarrackKey(p) <=> to = TransitKey(p)
      <3>1. /\ from # TransitKey(p) /\ to # ZoneKey(p) /\ to # BarrackKey(p)
            /\ from = BarrackKey(p) => Conn(a) = B(p) /\ s = Full(Conn(a))
            /\ from = ZoneKey(p) => Conn(a) = Z(p)
            /\ to = TransitKey(p) => s = Full(Conn(a)) /\ p = PlayerOf(Conn(a))
        BY <1>0, <2>1, GameKeyFacts
      <3>2. from # ZoneKey(p)
        BY <1>0, <2>1, <3>1, PlayerFacts
      <3>3. from = BarrackKey(p) => to = TransitKey(p)
        BY <1>0, <3>1, PlayerFacts, SessionFacts
      <3>4. to = TransitKey(p) => from = BarrackKey(p)
        BY <1>0, <2>1, <3>1, ConnFacts, KeyFacts
      <3> QED BY <3>1, <3>2, <3>3, <3>4
    <2>3. CASE Rename(from, to) /\ from = BarrackKey(p)
      <3>1. /\ game[BarrackKey(p)] # Absent /\ game'[TransitKey(p)] # Absent
            /\ game'[BarrackKey(p)] = Absent /\ game'[ZoneKey(p)] = game[ZoneKey(p)]
        BY <1>0, <2>2, <2>3 DEF Rename
      <3>2. Place(p) = "barrack" /\ Place(p)' = "transit"
        BY <1>0, <3>1, PlaceFacts
      <3> QED BY <3>2 DEF Lives
    <2>4. CASE Rename(from, to) /\ from # BarrackKey(p)
      <3>1. \A k \in Keys(p) : game'[k] = game[k]
        BY <1>0, <2>2, <2>4 DEF Rename, Keys
      <3> QED BY <1>0, <3>1, SamePlace
    <2> QED BY <1>1, <2>1, <2>3, <2>4
  <1>4. ASSUME NEW a \in Actors, MoveIn(a) PROVE Lives(p)
    <2> DEFINE q == PlayerOf(Conn(a))
    <2>1. q \in Players /\ (Rename(TransitKey(q), ZoneKey(q)) \/ game' = game)
      BY <1>4, MoveInStep
    <2>2. CASE Rename(TransitKey(q), ZoneKey(q)) /\ q = p
      <3>1. game[TransitKey(p)] # Absent /\ game'[ZoneKey(p)] # Absent
        BY <1>0, <2>2 DEF Rename
      <3>2. Place(p) = "transit" /\ Place(p)' = "zone"
        BY <1>0, <3>1, PlaceFacts
      <3> QED BY <3>2 DEF Lives
    <2>3. CASE Rename(TransitKey(q), ZoneKey(q)) /\ q # p
      <3>1. Keys(p) \cap {TransitKey(q), ZoneKey(q)} = {}
        BY <2>3 DEF Keys, TransitKey, ZoneKey, BarrackKey
      <3>2. \A k \in Keys(p) : game'[k] = game[k]
        BY <1>0, <2>3, <3>1 DEF Rename, Keys
      <3> QED BY <1>0, <3>2, SamePlace
    <2> QED BY <1>1, <2>1, <2>2, <2>3
  <1>5. ASSUME NEW a \in Actors, FlushGame(a) PROVE Lives(p)
    <2> DEFINE key == GameKey(Conn(a), task[a].session)
    <2>1. key \in GameKeys /\ game' = [game EXCEPT ![key] = Absent]
      BY <1>5, FlushGameStep
    <2>2. game'[key] = Absent /\ \A k \in GameKeys : k # key => game'[k] = game[k]
      BY <2>1 DEF Shapes, SessionTypes
    <2>3. /\ key = ZoneKey(p) => link[Z(p)] = "closed"
          /\ key = BarrackKey(p) => link[B(p)] = "closed" \/ game[BarrackKey(p)] = Absent
          /\ key # TransitKey(p)
      BY <1>5, PoliteFlush
    <2>4. CASE key \notin Keys(p) \/ game[key] = Absent
      BY <1>0, <2>2, <2>4, SamePlace DEF Keys
    <2>5. CASE key = ZoneKey(p) /\ game[key] # Absent
      <3>1. Place(p) = "zone" /\ Place(p)' = "nowhere"
        BY <1>0, <2>2, <2>5, PlaceFacts
      <3> QED BY <2>3, <2>5, <3>1 DEF Lives, Z
    <2>6. CASE key = BarrackKey(p) /\ game[key] # Absent
      <3>1. Place(p) = "barrack" /\ Place(p)' = "nowhere"
        BY <1>0, <2>2, <2>6, PlaceFacts
      <3> QED BY <2>3, <2>6, <3>1 DEF Lives, B
    <2> QED BY <2>3, <2>4, <2>5, <2>6 DEF Keys
  <1>6. \/ UNCHANGED game
        \/ \E a \in Actors : UpdateGame(a) \/ MoveOut(a) \/ MoveIn(a) \/ FlushGame(a)
    BY DEF Changes, Step, Command, Client, Open, SendEnter, SendStartGame, Close, SendRequest, Send,
       Take, BeginFlush, ReadSocket, CreateSocket, ReadGame, UpdateSocket, ReadTransit, FlushRead,
       FlushCreate, FlushSocket, Answer, Fail, redisVars, sessionVars
  <1> QED BY <1>1, <1>2, <1>3, <1>4, <1>5, <1>6

-----------------------------------------------------------------------------
(* What is left of a client that waits for its answers *)

\* A key of the barrack's is owned by a connection to the barrack,
HomeOK ==
    \A k \in GameKeys :
        k[1] = "barrack" /\ game[k] # Absent => ServerOf(game[k].owner) = "barrack"

\* and c owns no key of its server but the one its session names.
OwnsOne(c) ==
    \A k \in GameKeys :
        k[1] = ServerOf(c) /\ game[k] # Absent /\ game[k].owner = c => k = GameKey(c, Full(c))

\* Nobody is logged in through c.
Blank(c) == socket[c] = Absent \/ (ServerOf(c) = "zone" /\ socket[c] = NewSocketSession)

\* What actor a may rely on at its next command: the session of c is there when
\* a changes the game session, and is deleted after it.
StepOK(a, c) ==
    LET t == task[a]
    IN /\ t.pc \in {"createSocket", "flushCreate"} => socket[c] = Absent
       /\ t.kind = "update" =>
            /\ t.pc # "createSocket"
            /\ t.pc = "readSocket" => socket[c] = Full(c)
            /\ t.pc = "readGame" => t.session = Full(c)
       /\ t.pc \in Puts => t.session = Full(c)
       /\ t.pc = "putGame" \/ (t.kind \in Enters /\ t.pc = "answer") => socket[c] = Full(c)
       /\ t.pc = "flushGame" /\ t.session # Full(c) => socket[c] # Full(c)
       /\ t.pc = "flushSocket" => ~ Owned(c)
       /\ t.kind = "flush" /\ t.pc = "answer" => Blank(c)

\* The client of c is inside the server, or was when it sent what is pending.
Inside(c) == (progress[c] = "inside" /\ link[c] = "open") \/ pending[c] = "update"

SweptOK(c) ==
    /\ Owned(c) => socket[c] = Full(c)
    /\ Inside(c) => socket[c] = Full(c)
    /\ flushed[c] =>
         link[c] = "closed" /\ ((\E a \in Actors : On(a, c)) \/ Blank(c))
    /\ \A a \in Actors : On(a, c) => StepOK(a, c)

Polite(c) == PlayerOf(c) \notin Abrupt

Swept == HomeOK /\ \A c \in Conns : Polite(c) => OwnsOne(c) /\ SweptOK(c)

LEMMA InitSwept == Init => Swept
  <1> SUFFICES ASSUME Init PROVE Swept
    OBVIOUS
  <1>1. \A a \in Actors, c \in Conns : ~ On(a, c)
    BY DEF Init, On, Busy
  <1>2. \A c \in Conns : ~ Owned(c)
    BY OwnKey DEF Init, Owned
  <1>3. \A k \in GameKeys : game[k] = Absent
    BY DEF Init
  <1> QED BY <1>1, <1>2, <1>3 DEF Init, Swept, HomeOK, OwnsOne, SweptOK, Inside, NoPacket

\* Nobody else works on a connection of such a client.
LEMMA SoleActor ==
    ASSUME OneAtATime, Shapes, Closing, NEW c \in Conns, Polite(c), QuietOK(c),
           NEW a \in Actors, NEW b \in Actors, On(a, c), On(b, c)
    PROVE  a = b
  <1>1. CASE link[c] = "closed"
    <2>1. task[a].kind = "flush" /\ task[b].kind = "flush"
      BY <1>1 DEF QuietOK, Polite
    <2>2. IsMonitor(a) /\ IsMonitor(b) /\ a[1] = b[1]
      BY <2>1, BusyOK DEF On
    <2> QED BY <2>2 DEF IsMonitor, Actors
  <1>2. CASE link[c] # "closed"
    <2>1. task[a].kind # "flush" /\ task[b].kind # "flush"
      BY <1>2 DEF Closing, On
    <2> QED BY <2>1, OnlyWorker
  <1> QED BY <1>1, <1>2

\* How a game session comes under a key
LEMMA GameChange ==
    ASSUME Shapes, NEW a \in Actors, Command(a),
           NEW k \in GameKeys, game'[k] # Absent, game'[k] # game[k]
    PROVE  LET d == Conn(a)
               s == task[a].session
               q == PlayerOf(d)
           IN  \/ /\ UpdateGame(a) /\ k = GameKey(d, s) /\ game'[k].owner = d
               \/ /\ MoveOut(a) /\ ServerOf(d) = "barrack" /\ k = TransitKey(s.account)
                  /\ GameKey(d, s) \in GameKeys /\ GameKey(d, s)[1] = "barrack"
                  /\ game[GameKey(d, s)] # Absent /\ game'[k] = game[GameKey(d, s)]
               \/ /\ MoveIn(a) /\ q \in Players /\ d = Z(q) /\ k = ZoneKey(q)
                  /\ game[TransitKey(q)] # Absent /\ game'[k] = game[TransitKey(q)]
  <1> DEFINE d == Conn(a)
             s == task[a].session
             q == PlayerOf(d)
  <1>0. game \in [GameKeys -> Games \cup {Absent}]
    BY DEF Shapes, SessionTypes
  <1>1. CASE game' = game
    BY <1>1
  <1>2. CASE UpdateGame(a)
    <2>1. /\ GameKey(d, s) \in GameKeys
          /\ game' = [game EXCEPT ![GameKey(d, s)] = [owner |-> d, changes |-> task[a].changes]]
      BY <1>2, UpdateGameStep
    <2>2. k = GameKey(d, s)
      BY <1>0, <2>1
    <2>3. game'[k] = [owner |-> d, changes |-> task[a].changes]
      BY <1>0, <2>1, <2>2
    <2> QED BY <1>2, <2>2, <2>3
  <1>3. CASE MoveOut(a)
    <2>1. /\ Busy(a) /\ ServerOf(d) = "barrack" /\ GameKey(d, s) \in GameKeys
          /\ Rename(GameKey(d, s), TransitKey(s.account)) \/ game' = game
      BY <1>3, MoveOutStep
    <2>2. GameKey(d, s)[1] = "barrack"
      BY <2>1 DEF GameKey
    <2>3. Rename(GameKey(d, s), TransitKey(s.account))
      BY <2>1
    <2>4. game'[k] = IF k = TransitKey(s.account) THEN game[GameKey(d, s)]
                     ELSE IF k = GameKey(d, s) THEN Absent ELSE game[k]
      BY <2>3 DEF Rename
    <2> QED BY <1>3, <2>1, <2>2, <2>3, <2>4 DEF Rename
  <1>4. CASE MoveIn(a)
    <2>1. /\ q \in Players /\ d = Z(q)
          /\ Rename(TransitKey(q), ZoneKey(q)) \/ game' = game
      BY <1>4, MoveInStep
    <2>2. Rename(TransitKey(q), ZoneKey(q))
      BY <2>1
    <2>3. game'[k] = IF k = ZoneKey(q) THEN game[TransitKey(q)]
                     ELSE IF k = TransitKey(q) THEN Absent ELSE game[k]
      BY <2>2 DEF Rename
    <2> QED BY <1>4, <2>1, <2>2, <2>3 DEF Rename
  <1>5. CASE FlushGame(a)
    BY <1>0, <1>5, FlushGameStep
  <1> QED BY <1>1, <1>2, <1>3, <1>4, <1>5
      DEF Command, ReadSocket, CreateSocket, ReadGame, UpdateSocket, ReadTransit, FlushRead,
          FlushCreate, FlushSocket, Answer, Fail, redisVars

LEMMA CommandHome ==
    ASSUME Shapes, HomeOK, NEW a \in Actors, Command(a)
    PROVE  HomeOK'
  <1> SUFFICES ASSUME NEW k \in GameKeys, k[1] = "barrack", game'[k] # Absent
               PROVE  ServerOf(game'[k].owner) = "barrack"
    BY DEF HomeOK
  <1>1. CASE game'[k] = game[k]
    BY <1>1 DEF HomeOK
  <1>2. CASE UpdateGame(a) /\ k = GameKey(Conn(a), task[a].session) /\ game'[k].owner = Conn(a)
    BY <1>2 DEF GameKey
  <1>3. CASE \E x : k = TransitKey(x) \/ k = ZoneKey(x)
    BY <1>3 DEF TransitKey, ZoneKey
  <1> QED BY <1>1, <1>2, <1>3, GameChange

\* The game session of a connection comes under its key by an update of it.
LEMMA OwnedElse ==
    ASSUME Shapes, NEW c \in Conns, OwnsOne(c), NEW a \in Actors, Command(a),
           ~ (UpdateGame(a) /\ On(a, c)), Owned(c)'
    PROVE  Owned(c)
  <1> DEFINE k == GameKey(c, Full(c))
  <1>1. k \in GameKeys /\ game'[k] # Absent /\ game'[k].owner = c
    BY OwnKey DEF Owned
  <1>2. CASE game'[k] = game[k]
    BY <1>1, <1>2 DEF Owned
  <1>3. ASSUME UpdateGame(a), k = GameKey(Conn(a), task[a].session) PROVE FALSE
    <2>1. Busy(a) /\ Conn(a) \in Conns /\ Shaped(Conn(a), task[a].session)
      BY <1>3, BusyOK DEF UpdateGame, At
    <2>2. Conn(a) = c
      BY <1>3, <2>1, OwnKey
    <2> QED BY <1>3, <2>1, <2>2 DEF On
  <1>4. ASSUME MoveOut(a), k = TransitKey(task[a].session.account) PROVE FALSE
    <2>1. Busy(a) /\ Conn(a) \in Conns /\ Shaped(Conn(a), task[a].session)
      BY <1>4, BusyOK DEF MoveOut, At
    <2> QED BY <1>4, <2>1, OwnKey
  <1>5. ASSUME NEW q \in Players, k = ZoneKey(q), game[TransitKey(q)] # Absent,
               game'[k] = game[TransitKey(q)]
        PROVE  FALSE
    <2>1. c = Z(q) /\ TransitKey(q) \in GameKeys /\ TransitKey(q)[1] = "zone"
      BY <1>5, OwnKey, KeyFacts DEF TransitKey
    <2>2. TransitKey(q) = k
      BY <1>1, <1>5, <2>1, PlayerFacts DEF OwnsOne
    <2> QED BY <1>5, <2>2, KeyFacts
  <1> QED BY <1>1, <1>2, <1>3, <1>4, <1>5, GameChange

LEMMA CommandOwns ==
    ASSUME Shapes, HomeOK, NEW c \in Conns, OwnsOne(c), NEW a \in Actors, Command(a),
           On(a, c) /\ task[a].pc = "putGame" => task[a].session = Full(c)
    PROVE  OwnsOne(c)'
  <1> SUFFICES ASSUME NEW k \in GameKeys, k[1] = ServerOf(c), game'[k] # Absent,
                      game'[k].owner = c
               PROVE  k = GameKey(c, Full(c))
    BY DEF OwnsOne
  <1>1. CASE game'[k] = game[k]
    BY <1>1 DEF OwnsOne
  <1>2. ASSUME UpdateGame(a), k = GameKey(Conn(a), task[a].session), Conn(a) = c
        PROVE  k = GameKey(c, Full(c))
    BY <1>2 DEF UpdateGame, At, On
  <1>3. ASSUME NEW x, k = TransitKey(x), NEW f \in GameKeys, f[1] = "barrack", game[f] # Absent,
               game'[k] = game[f]
        PROVE  FALSE
    <2>1. ServerOf(c) = "zone"
      BY <1>3 DEF TransitKey
    <2> QED BY <1>3, <2>1 DEF HomeOK
  <1>4. ASSUME NEW q \in Players, k = ZoneKey(q), game[TransitKey(q)] # Absent,
               game'[k] = game[TransitKey(q)]
        PROVE  FALSE
    <2>1. ServerOf(c) = "zone" /\ TransitKey(q) \in GameKeys /\ TransitKey(q)[1] = "zone"
      BY <1>4, KeyFacts DEF ZoneKey, TransitKey
    <2>2. TransitKey(q) = GameKey(c, Full(c))
      BY <1>4, <2>1 DEF OwnsOne
    <2> QED BY <2>2, OwnKey
  <1> QED BY <1>1, <1>2, <1>3, <1>4, GameChange

\* A step that is none of a thread working on c
LEMMA SweptFrame ==
    ASSUME NEW c \in Conns, SweptOK(c), socket'[c] = socket[c], Owned(c)' => Owned(c),
           flushed'[c] = flushed[c], link[c] = "closed" => link'[c] = "closed",
           Inside(c)' => Inside(c),
           \A b \in Actors : On(b, c)' => On(b, c) /\ task'[b] = task[b],
           \A b \in Actors : On(b, c) => On(b, c)'
    PROVE  SweptOK(c)'
  <1>1. \A b \in Actors : On(b, c)' => StepOK(b, c)'
    BY DEF SweptOK, StepOK, Blank
  <1> QED BY <1>1 DEF SweptOK, Blank

\* What the properties say of its next command if a goes on with pc and s
LEMMA SweptTo ==
    ASSUME OneAtATime, Shapes, Closing, NEW c \in Conns, Polite(c), QuietOK(c), SweptOK(c),
           UNCHANGED <<clientVars, flushed>>,
           NEW a \in Actors, On(a, c), NEW pc, NEW s, NEW n, To(a, pc, s, n),
           Owned(c)' => socket'[c] = Full(c),
           Inside(c) => socket'[c] = Full(c),
           pc \in {"createSocket", "flushCreate"} => socket'[c] = Absent,
           task[a].kind = "update" =>
             pc \notin {"createSocket", "readSocket"} /\ (pc = "readGame" => s = Full(c)),
           pc \in Puts => s = Full(c),
           pc = "putGame" \/ (task[a].kind \in Enters /\ pc = "answer") => socket'[c] = Full(c),
           pc = "flushGame" /\ s # Full(c) => socket'[c] # Full(c),
           pc = "flushSocket" => ~ Owned(c)',
           task[a].kind = "flush" /\ pc = "answer" => Blank(c)'
    PROVE  SweptOK(c)'
  <1>1. /\ Same(a) /\ task'[a].kind = task[a].kind /\ task'[a].pc = pc /\ task'[a].session = s
    BY ToFacts DEF On
  <1>2. \A b \in Actors : On(b, c)' <=> On(b, c)
    BY <1>1 DEF Same
  <1>3. \A b \in Actors : On(b, c)' => b = a
    BY <1>2, SoleActor
  <1>4. StepOK(a, c)'
    BY <1>1 DEF StepOK
  <1>5. Inside(c)' = Inside(c) /\ link' = link /\ flushed' = flushed
    BY DEF Inside, clientVars
  <1> QED BY <1>2, <1>3, <1>4, <1>5 DEF SweptOK

\* The handler of the packet takes over.
LEMMA SweptHandled ==
    ASSUME OneAtATime, Shapes, Closing, NEW c \in Conns, Polite(c), QuietOK(c), SweptOK(c),
           UNCHANGED <<clientVars, flushed>>,
           NEW a \in Actors, On(a, c), NEW s, NEW n, Handled(a, s, n),
           task[a].kind = "update" => s = Full(c),
           Owned(c)' => socket'[c] = Full(c),
           Inside(c) => socket'[c] = Full(c)
    PROVE  SweptOK(c)'
  <1> DEFINE kind == task[a].kind
  <1>1. /\ Conn(a) = c /\ kind \in {"login", "update", "query", "startGame", "connect"}
        /\ To(a, HandlePc[kind], HandleSession(c, kind, s), HandleChanges(kind, n))
    BY DEF Handled, On, KindsOf
  <1>2. /\ HandlePc[kind] \in {"putSocket", "answer", "moveOut", "readTransit"}
        /\ HandlePc[kind] = "answer" => kind = "query"
        /\ HandlePc[kind] = "putSocket" => kind \in {"login", "update"}
    BY <1>1 DEF HandlePc
  <1>3. HandlePc[kind] \in Puts => HandleSession(c, kind, s) = Full(c)
    BY <1>2 DEF HandleSession, Puts
  <1> QED BY <1>1, <1>2, <1>3, SweptTo DEF Enters

\* The commands of the actor that works on c
LEMMA CommandSwept ==
    ASSUME OneAtATime, Shapes, Order, Closing, HomeOK,
           NEW c \in Conns, Polite(c), QuietOK(c), OwnsOne(c), SweptOK(c),
           NEW a \in Actors, On(a, c), Command(a), ~ Answer(a), ~ Fail(a)
    PROVE  SweptOK(c)'
  <1> DEFINE s == task[a].session
             kind == task[a].kind
  <1>0. /\ Conn(a) = c /\ Busy(a) /\ StepOK(a, c)
        /\ Full(c) # NewSocketSession /\ Full(c) # Absent /\ NewSocketSession # Absent
        /\ socket \in [Conns -> Sockets \cup {Absent}]
    BY SessionFacts DEF On, SweptOK, Shapes, SessionTypes
  <1>1. UNCHANGED <<clientVars, flushed>>
    BY DEF Command, ReadSocket, CreateSocket, ReadGame, UpdateSocket, UpdateGame, MoveOut,
       ReadTransit, MoveIn, FlushRead, FlushCreate, FlushGame, FlushSocket
  <1>2. ~ UpdateGame(a) => (Owned(c)' => Owned(c))
    BY OwnedElse
  <1>3. \A x : PutSocket(c, x) => socket'[c] = x
    BY <1>0 DEF PutSocket
  <1>4. CASE ReadSocket(a)
    <2>1. socket' = socket /\ task[a].pc = "readSocket"
      BY <1>4 DEF ReadSocket, At, redisVars
    <2>2. Owned(c)' => socket'[c] = Full(c)
      BY <1>2, <1>4, <2>1 DEF SweptOK, ReadSocket, UpdateGame, At
    <2>3. CASE socket[c] = Absent /\ To(a, "createSocket", NewSocketSession, 0)
      BY <1>0, <1>1, <2>1, <2>2, <2>3, SweptTo DEF SweptOK, StepOK, Puts
    <2>4. CASE socket[c] = Full(c) /\ To(a, "readGame", Full(c), 0)
      BY <1>0, <1>1, <2>1, <2>2, <2>4, SweptTo DEF SweptOK, Puts
    <2>5. CASE socket[c] = NewSocketSession /\ Handled(a, NewSocketSession, 0)
      BY <1>0, <1>1, <2>1, <2>2, <2>5, SweptHandled DEF SweptOK, StepOK
    <2> QED BY <1>0, <1>4, <2>3, <2>4, <2>5, ReadSocketStep
  <1>5. CASE CreateSocket(a)
    <2>1. /\ task[a].pc = "createSocket" /\ PutSocket(c, NewSocketSession)
          /\ Handled(a, NewSocketSession, 0)
      BY <1>0, <1>5, CreateSocketStep DEF CreateSocket, At
    <2>2. socket[c] = Absent /\ kind # "update"
      BY <1>0, <2>1 DEF StepOK
    <2>3. ~ Owned(c)' /\ ~ Inside(c)
      BY <1>0, <1>2, <1>5, <2>1, <2>2 DEF SweptOK, UpdateGame, At
    <2> QED BY <1>1, <2>1, <2>2, <2>3, SweptHandled
  <1>6. CASE ReadGame(a)
    <2>1. socket' = socket /\ task[a].pc = "readGame"
      BY <1>6 DEF ReadGame, At, redisVars
    <2>2. (Owned(c)' => socket'[c] = Full(c)) /\ (Inside(c) => socket'[c] = Full(c))
      BY <1>2, <1>6, <2>1 DEF SweptOK, UpdateGame, At
    <2>3. CASE To(a, "fail", s, task[a].changes)
      BY <1>0, <1>1, <2>1, <2>2, <2>3, SweptTo DEF Puts
    <2>4. ASSUME NEW n, Handled(a, s, n) PROVE SweptOK(c)'
      BY <1>0, <1>1, <2>1, <2>2, <2>4, SweptHandled DEF StepOK
    <2> QED BY <1>0, <1>6, <2>3, <2>4, ReadGameStep
  <1>7. CASE UpdateSocket(a)
    <2>1. /\ task[a].pc = "putSocket" /\ PutSocket(c, s)
          /\ To(a, "putGame", s, task[a].changes)
      BY <1>0, <1>7, UpdateSocketStep DEF At
    <2>2. s = Full(c) /\ socket'[c] = Full(c)
      BY <1>0, <1>3, <2>1 DEF StepOK, Puts
    <2> QED BY <1>1, <2>1, <2>2, SweptTo
  <1>8. CASE UpdateGame(a)
    <2>1. /\ task[a].pc = "putGame" /\ kind \in {"login", "update", "connect"}
          /\ To(a, "answer", s, task[a].changes) /\ socket' = socket
      BY <1>0, <1>8, UpdateGameStep DEF At, UpdateGame
    <2>2. socket'[c] = Full(c)
      BY <1>0, <2>1 DEF StepOK
    <2> QED BY <1>1, <2>1, <2>2, SweptTo DEF Puts
  <1>9. CASE MoveOut(a) \/ ReadTransit(a) \/ MoveIn(a)
    <2>1. /\ socket' = socket
          /\ kind \in {"startGame", "connect"}
          /\ \/ \E pc \in {"flushRead", "fail", "moveIn"} : \E x, n : To(a, pc, x, n)
             \/ MoveIn(a) /\ \E n : To(a, "putSocket", Full(c), n)
      BY <1>0, <1>9, MoveOutStep, ReadTransitStep, MoveInStep
         DEF MoveOut, ReadTransit, MoveIn, redisVars
    <2>2. task[a].pc \in {"moveOut", "readTransit", "moveIn"}
      BY <1>9 DEF MoveOut, ReadTransit, MoveIn, At
    <2>3. (Owned(c)' => socket'[c] = Full(c)) /\ (Inside(c) => socket'[c] = Full(c))
      BY <1>2, <2>1, <2>2 DEF SweptOK, UpdateGame, At
    <2>4. ASSUME NEW pc \in {"flushRead", "fail", "moveIn"}, NEW x, NEW n, To(a, pc, x, n)
          PROVE  SweptOK(c)'
      BY <1>1, <2>1, <2>3, <2>4, SweptTo DEF Puts
    <2>5. ASSUME NEW n, To(a, "putSocket", Full(c), n) PROVE SweptOK(c)'
      BY <1>1, <2>1, <2>3, <2>5, SweptTo
    <2> QED BY <2>1, <2>4, <2>5
  <1>10. CASE FlushRead(a)
    <2>1. socket' = socket /\ kind \in {"startGame", "flush"} /\ task[a].pc = "flushRead"
      BY <1>10, FlushReadStep DEF FlushRead, At, redisVars
    <2>2. (Owned(c)' => socket'[c] = Full(c)) /\ (Inside(c) => socket'[c] = Full(c))
      BY <1>2, <2>1 DEF SweptOK, UpdateGame, At
    <2>3. CASE socket[c] = Absent /\ To(a, "flushCreate", NewSocketSession, 0)
      BY <1>1, <2>1, <2>2, <2>3, SweptTo DEF Puts
    <2>4. CASE To(a, "flushGame", socket[c], 0)
      BY <1>1, <2>1, <2>2, <2>4, SweptTo DEF Puts
    <2> QED BY <1>0, <1>10, <2>3, <2>4, FlushReadStep
  <1>11. CASE FlushCreate(a)
    <2>1. /\ kind \in {"startGame", "flush"} /\ task[a].pc = "flushCreate"
          /\ To(a, "flushGame", s, task[a].changes) /\ PutSocket(c, NewSocketSession)
      BY <1>0, <1>11, FlushCreateStep DEF At
    <2>2. socket[c] = Absent /\ socket'[c] = NewSocketSession
      BY <1>0, <1>3, <2>1 DEF StepOK
    <2>3. ~ Owned(c)' /\ ~ Inside(c)
      BY <1>0, <1>2, <2>1, <2>2 DEF SweptOK, UpdateGame, At
    <2> QED BY <1>0, <1>1, <2>1, <2>2, <2>3, SweptTo DEF Puts
  <1>12. CASE FlushGame(a)
    <2>1. /\ kind \in {"startGame", "flush"} /\ task[a].pc = "flushGame" /\ socket' = socket
          /\ To(a, "flushSocket", s, task[a].changes)
          /\ game' = [game EXCEPT ![GameKey(c, s)] = Absent] /\ GameKey(c, s) \in GameKeys
      BY <1>0, <1>12, FlushGameStep DEF At, FlushGame
    <2>2. ~ Owned(c)'
      <3>1. CASE s = Full(c)
        <4>1. game'[GameKey(c, Full(c))] = Absent
          BY <2>1, <3>1 DEF Shapes, SessionTypes
        <4> QED BY <4>1 DEF Owned
      <3>2. CASE s # Full(c)
        BY <1>0, <1>2, <2>1, <3>2 DEF StepOK, SweptOK, UpdateGame, At
      <3> QED BY <3>1, <3>2
    <2> QED BY <1>1, <2>1, <2>2, SweptTo DEF Puts, SweptOK
  <1>13. CASE FlushSocket(a)
    <2>1. /\ kind \in {"startGame", "flush"} /\ task[a].pc = "flushSocket"
          /\ To(a, "answer", s, task[a].changes) /\ PutSocket(c, Absent)
      BY <1>0, <1>13, FlushSocketStep DEF At
    <2>2. socket'[c] = Absent /\ ~ Owned(c)'
      BY <1>0, <1>2, <1>3, <2>1 DEF StepOK, UpdateGame, At
    <2>3. CASE kind = "flush"
      <3>1. link[c] = "closed" /\ pending[c] = NoPacket
        BY <1>0, <2>3 DEF Closing, QuietOK, Polite
      <3>2. ~ Inside(c)
        BY <3>1 DEF Inside, NoPacket
      <3> QED BY <1>1, <2>1, <2>2, <2>3, <3>2, SweptTo DEF Puts, Enters, Blank
    <2>4. CASE kind = "startGame"
      <3>1. c = B(PlayerOf(c)) /\ PlayerOf(c) \in Players
        BY <1>0, <2>4, BusyOK, PcKinds, ConnFacts
      <3>2. progress[c] = "leaving" /\ pending[c] = NoPacket
        BY <2>4, <3>1 DEF Order, LeavingOK
      <3>3. ~ Inside(c)
        BY <3>2 DEF Inside, NoPacket
      <3> QED BY <1>1, <2>1, <2>2, <2>4, <3>3, SweptTo DEF Puts, Enters
    <2> QED BY <2>1, <2>3, <2>4
  <1> QED BY <1>4, <1>5, <1>6, <1>7, <1>8, <1>9, <1>10, <1>11, <1>12, <1>13 DEF Command

\* The end of a task on c: the client is told that it is inside, or the flush
\* has left nothing.
LEMMA EndSwept ==
    ASSUME OneAtATime, Shapes, Closing, NEW c \in Conns, Polite(c), QuietOK(c), SweptOK(c),
           NEW a \in Actors, On(a, c), Answer(a) \/ Fail(a)
    PROVE  SweptOK(c)'
  <1>0. Conn(a) = c /\ StepOK(a, c) /\ Busy(a)
    BY DEF On, SweptOK
  <1>1. /\ UNCHANGED <<link, pending, flushed, socket, game>>
        /\ \A b \in Actors : ~ On(b, c)'
        /\ \/ progress'[c] = progress[c]
           \/ /\ task[a].kind \in Enters /\ task[a].pc = "answer"
           \/ progress'[c] = "left"
    BY <1>0, EndStep, SoleActor DEF redisVars
  <1>2. Owned(c)' <=> Owned(c)
    BY <1>1 DEF Owned
  <1>3. Inside(c)' => socket[c] = Full(c)
    BY <1>0, <1>1 DEF Inside, SweptOK, StepOK
  <1>4. ASSUME flushed[c] PROVE Blank(c)
    <2>1. task[a].kind = "flush"
      BY <1>4 DEF SweptOK, QuietOK, Polite
    <2>2. task[a].pc = "answer"
      BY <1>0, <2>1, PcKinds DEF Answer, Fail, At, Flushes
    <2> QED BY <1>0, <2>1, <2>2 DEF StepOK
  <1> QED BY <1>1, <1>2, <1>3, <1>4 DEF SweptOK, Blank

\* Commands for other connections leave that of c alone.
LEMMA ElsewhereSwept ==
    ASSUME Shapes, NEW c \in Conns, OwnsOne(c), SweptOK(c),
           NEW a \in Actors, Command(a), ~ On(a, c)
    PROVE  SweptOK(c)'
  <1>1. socket'[c] = socket[c] /\ (Owned(c)' => Owned(c))
    BY SocketElsewhere, OwnedElse
  <1>2. CASE Answer(a) \/ Fail(a)
    <2>1. /\ UNCHANGED <<link, pending, flushed>>
          /\ \A b \in Actors : On(b, c)' <=> (On(b, c) /\ b # a)
          /\ \A b \in Actors : b # a => task'[b] = task[b]
          /\ c # Conn(a) => progress'[c] = progress[c]
          /\ Busy(a)
      BY <1>2, EndStep
    <2>2. Inside(c)' => Inside(c)
      BY <2>1 DEF Inside, On
    <2> QED BY <1>1, <2>1, <2>2, SweptFrame
  <1>3. CASE ~ Answer(a) /\ ~ Fail(a)
    <2>1. /\ UNCHANGED clientVars
          /\ \A b \in Actors : On(b, c)' <=> On(b, c)
          /\ \A b \in Actors : b # a => task'[b] = task[b]
      BY <1>3, CommandCases, ToFacts DEF Same
    <2>2. UNCHANGED flushed
      BY <1>3 DEF Command, ReadSocket, CreateSocket, ReadGame, UpdateSocket, UpdateGame, MoveOut,
         ReadTransit, MoveIn, FlushRead, FlushCreate, FlushGame, FlushSocket
    <2>3. Inside(c)' = Inside(c) /\ link' = link
      BY <2>1 DEF Inside, clientVars
    <2> QED BY <1>1, <2>1, <2>2, <2>3, SweptFrame
  <1> QED BY <1>2, <1>3

\* Only a client that is inside sends what changes the game session.
LEMMA ClientSwept ==
    ASSUME Shapes, NewOK, NEW c \in Conns, SweptOK(c), NEW d \in Conns, Client(d)
    PROVE  SweptOK(c)'
  <1>1. /\ UNCHANGED <<task, flushed, redisVars>>
        /\ \A a \in Actors : On(a, c)' <=> On(a, c)
    BY ClientStep
  <1>2. Owned(c)' <=> Owned(c)
    BY <1>1 DEF Owned, redisVars
  <1>3. /\ link \in [Conns -> {"new", "open", "closed"}]
        /\ progress \in [Conns -> {"connected", "entering", "inside", "leaving", "left"}]
        /\ pending \in [Conns -> Packets \cup {NoPacket}]
    BY DEF Shapes, SessionTypes
  <1>4. Inside(c)' => Inside(c)
    <2>1. CASE Open(d)
      <3>1. link[d] = "new" /\ progress[d] = "connected" /\ UNCHANGED <<progress, pending>>
            /\ (c # d => link'[c] = link[c])
        BY <1>3, <2>1 DEF Open, NewOK
      <3> QED BY <3>1 DEF Inside
    <2>2. CASE Close(d)
      BY <1>3, <2>2 DEF Close, Inside
    <2>3. CASE SendEnter(d) \/ SendStartGame(d)
      <3>1. /\ link' = link /\ progress'[d] # "inside" /\ pending'[d] # "update"
            /\ c # d => progress'[c] = progress[c] /\ pending'[c] = pending[c]
        BY <1>3, <2>3 DEF SendEnter, SendStartGame, Send
      <3> QED BY <3>1 DEF Inside
    <2>4. CASE \E packet \in Packets : SendRequest(d, packet)
      <3>1. /\ link' = link /\ progress' = progress
            /\ progress[d] = "inside" /\ link[d] = "open"
            /\ c # d => pending'[c] = pending[c]
        BY <1>3, <2>4 DEF SendRequest, Send
      <3> QED BY <3>1 DEF Inside
    <2> QED BY <2>1, <2>2, <2>3, <2>4 DEF Client
  <1>5. link[c] = "closed" => link'[c] = "closed"
    BY <1>3 DEF Client, Open, SendEnter, SendStartGame, Close, SendRequest, Send
  <1> QED BY <1>1, <1>2, <1>4, <1>5, SweptFrame DEF redisVars

\* A thread begins with a packet, or with the flush, of a connection.
LEMMA BeginSwept ==
    ASSUME Shapes, NEW c \in Conns, SweptOK(c), NEW a \in Actors, NEW d \in Conns,
           Take(a, d) \/ BeginFlush(a, d)
    PROVE  SweptOK(c)'
  <1>0. redisVars' = redisVars /\ link' = link /\ progress' = progress
    BY DEF Take, BeginFlush, clientVars
  <1>1. socket' = socket /\ (Owned(c)' <=> Owned(c))
    BY <1>0 DEF redisVars, Owned
  <1>2. PICK kind \in Packets \cup {"flush"}, pc \in {"readSocket", "flushRead"} :
            /\ ~ Busy(a) /\ TaskChange(a, Task(d, kind, pc, NewSocketSession, 0))
            /\ kind = "update" => pending[d] = "update"
    BY TakeStep, BeginFlushStep DEF KindsOf, Packets
  <1>3. /\ \A b \in Actors : On(b, c)' <=> (On(b, c) \/ (b = a /\ c = d))
        /\ \A b \in Actors : b # a => task'[b] = task[b]
        /\ ~ On(a, c)
        /\ task'[a].kind = kind /\ task'[a].pc = pc
    BY <1>2, BeginStep
  <1>4. Inside(c)' => Inside(c)
    <2>1. pending'[c] = pending[c] \/ pending'[c] = NoPacket
      BY DEF Take, BeginFlush, clientVars, Shapes, SessionTypes
    <2> QED BY <1>0, <2>1 DEF Inside, NoPacket
  <1>5. flushed'[c] => flushed[c] \/ (c = d /\ link[c] = "closed")
    BY DEF Take, BeginFlush, Disconnected, Shapes, SessionTypes
  <1>6. ASSUME NEW b \in Actors, On(b, c)' PROVE StepOK(b, c)'
    <2>1. CASE b # a
      BY <1>1, <1>3, <1>6, <2>1 DEF SweptOK, StepOK, Blank
    <2>2. CASE b = a
      <3>1. c = d
        BY <1>3, <1>6, <2>2
      <3>2. kind = "update" => socket[c] = Full(c)
        BY <1>2, <3>1 DEF SweptOK, Inside
      <3> QED BY <1>1, <1>3, <2>2, <3>2 DEF StepOK, Puts
    <2> QED BY <2>1, <2>2
  <1> QED BY <1>0, <1>1, <1>3, <1>4, <1>5, <1>6 DEF SweptOK, Blank

LEMMA NextSwept ==
    OneAtATime /\ Shapes /\ Order /\ Arrival /\ Courtesy /\ Swept /\ [Changes]_sessionVars => Swept'
  <1> SUFFICES ASSUME OneAtATime, Shapes, Order, Arrival, Courtesy, Swept, [Changes]_sessionVars
               PROVE  Swept'
    OBVIOUS
  <1>0. NewOK /\ Closing /\ HomeOK /\ \A c \in Conns : QuietOK(c)
    BY DEF Arrival, Courtesy, Swept
  <1>1. ASSUME NEW a \in Actors, Command(a) PROVE Swept'
    <2>1. HomeOK'
      BY <1>0, <1>1, CommandHome
    <2>2. ASSUME NEW c \in Conns, Polite(c) PROVE (OwnsOne(c) /\ SweptOK(c))'
      <3>1. OwnsOne(c) /\ SweptOK(c)
        BY <2>2 DEF Swept
      <3>2. OwnsOne(c)'
        BY <1>0, <1>1, <3>1, CommandOwns DEF SweptOK, StepOK, Puts
      <3>3. SweptOK(c)'
        BY <1>0, <1>1, <2>2, <3>1, CommandSwept, EndSwept, ElsewhereSwept
      <3> QED BY <3>2, <3>3
    <2> QED BY <2>1, <2>2 DEF Swept, Polite
  <1>2. ASSUME UNCHANGED game, \A c \in Conns : Polite(c) => SweptOK(c)' PROVE Swept'
    BY <1>2 DEF Swept, HomeOK, OwnsOne, Polite
  <1>3. ASSUME NEW d \in Conns, Client(d) PROVE Swept'
    BY <1>0, <1>2, <1>3, ClientSwept, ClientStep DEF Swept, redisVars
  <1>4. ASSUME NEW a \in Actors, NEW d \in Conns, Take(a, d) \/ BeginFlush(a, d) PROVE Swept'
    <2>1. UNCHANGED game
      BY <1>4 DEF Take, BeginFlush, redisVars
    <2> QED BY <1>2, <1>4, <2>1, BeginSwept DEF Swept
  <1>5. CASE UNCHANGED sessionVars
    <2>1. UNCHANGED <<link, progress, pending, task, flushed, socket, game>>
      BY <1>5 DEF sessionVars, clientVars, redisVars
    <2>2. ASSUME NEW c \in Conns, SweptOK(c) PROVE SweptOK(c)'
      BY <2>1, <2>2, SweptFrame DEF Owned, Inside, On, Busy, Conn
    <2> QED BY <1>2, <2>1, <2>2 DEF Swept
  <1> QED BY <1>1, <1>3, <1>4, <1>5 DEF Changes, Step

LEMMA SweptIsGone ==
    ASSUME Swept, NEW c \in Conns, Polite(c), FlushOver(c)
    PROVE  LoggedOut(c)
  <1>1. SweptOK(c) /\ OwnsOne(c)
    BY DEF Swept
  <1>2. Blank(c)
    BY <1>1 DEF SweptOK, FlushOver, WorkedOn, On, Conn
  <1>3. ~ Owned(c)
    BY <1>1, <1>2, SessionFacts DEF SweptOK, Blank
  <1>4. ASSUME NEW k \in GameKeys, k[1] = ServerOf(c), game[k] # Absent, game[k].owner = c
        PROVE  FALSE
    BY <1>1, <1>3, <1>4 DEF OwnsOne, Owned
  <1> QED BY <1>2, <1>4 DEF LoggedOut, NoGame, Blank

-----------------------------------------------------------------------------
(* What the event server does to the sessions *)

\* The flush of c has deleted its socket session, and nobody works on c but the
\* monitor that has yet to end the flush.
Away(c) ==
    /\ flushed[c]
    /\ \A a \in Actors : On(a, c) => task[a].kind = "flush" /\ task[a].pc = "answer"

FlushKnown == \A a \in Actors : Busy(a) /\ task[a].kind = "flush" => flushed[Conn(a)]

\* The event server works on players of the zone, and what it finds missing of a
\* client that waits for its answers the monitor has deleted.
Found ==
    /\ FlushKnown
    /\ \A c \in met \cup creating : c \in Conns /\ ServerOf(c) = "zone"
    /\ \A c \in Conns : Polite(c) =>
         /\ c \in met => socket[c] # Absent \/ Away(c)
         /\ c \in creating => Away(c)

LEMMA InitFound == Init => Found
  BY DEF Init, Found, FlushKnown, Busy

LEMMA NextFlushKnown == Shapes /\ FlushKnown /\ [Changes]_sessionVars => FlushKnown'
  <1> SUFFICES ASSUME Shapes, FlushKnown, [Changes]_sessionVars PROVE FlushKnown'
    OBVIOUS
  <1>1. ASSUME NEW c \in Conns, Client(c) PROVE FlushKnown'
    BY <1>1, ClientStep DEF FlushKnown, Conn
  <1>2. ASSUME NEW a \in Actors, Command(a) PROVE FlushKnown'
    <2>1. flushed' = flushed
      BY <1>2 DEF Command, ReadSocket, CreateSocket, ReadGame, UpdateSocket, UpdateGame, MoveOut,
         ReadTransit, MoveIn, FlushRead, FlushCreate, FlushGame, FlushSocket, Answer, Fail
    <2>2. CASE Answer(a) \/ Fail(a)
      <3>1. \A b \in Actors : Busy(b)' => b # a /\ task'[b] = task[b]
        BY <2>2, EndStep DEF TaskChange, Busy
      <3> QED BY <2>1, <3>1 DEF FlushKnown, Busy, Conn
    <2>3. ASSUME NEW pc, NEW s, NEW n, Busy(a), To(a, pc, s, n) PROVE FlushKnown'
      <3>1. Same(a)
        BY <2>3, ToFacts
      <3> QED BY <2>1, <3>1 DEF Same, FlushKnown
    <2> QED BY <1>2, <2>2, <2>3, CommandCases
  <1>3. ASSUME NEW a \in Actors, NEW c \in Conns, Take(a, c) PROVE FlushKnown'
    <2>1. /\ TaskChange(a, Task(c, pending[c], "readSocket", NewSocketSession, 0))
          /\ pending[c] # "flush" /\ flushed' = flushed
      BY <1>3, TakeStep
    <2>2. task'[a].kind # "flush" /\ \A b \in Actors : b # a => task'[b] = task[b]
      BY <2>1 DEF TaskChange, Task
    <2> QED BY <2>1, <2>2 DEF FlushKnown, Busy, Conn
  <1>4. ASSUME NEW a \in Actors, NEW c \in Conns, BeginFlush(a, c) PROVE FlushKnown'
    <2>1. TaskChange(a, Task(c, "flush", "flushRead", NewSocketSession, 0))
      BY <1>4, BeginFlushStep
    <2>2. task'[a].conn = c /\ \A b \in Actors : b # a => task'[b] = task[b]
      BY <2>1 DEF TaskChange, Task
    <2>3. flushed'[c] /\ \A d \in Conns : flushed[d] => flushed'[d]
      BY <1>4 DEF BeginFlush, Shapes, SessionTypes
    <2>4. \A b \in Actors : Busy(b) => Conn(b) \in Conns
      BY BusyOK
    <2> QED BY <2>2, <2>3, <2>4 DEF FlushKnown, Busy, Conn
  <1>5. CASE UNCHANGED sessionVars
    BY <1>5 DEF sessionVars, FlushKnown, Busy, Conn
  <1> QED BY <1>1, <1>2, <1>3, <1>4, <1>5 DEF Changes, Step

\* Nobody takes up a connection that is away.
LEMMA AwayStays ==
    ASSUME Shapes, [Changes]_sessionVars, NEW c \in Conns, Polite(c), QuietOK(c), SweptOK(c),
           Away(c)
    PROVE  Away(c)'
  <1>0. flushed[c] /\ pending[c] = NoPacket
    BY DEF Away, SweptOK, QuietOK, Polite
  <1>1. ASSUME NEW d \in Conns, Client(d) PROVE Away(c)'
    BY <1>1, ClientStep DEF Away
  <1>2. ASSUME NEW a \in Actors, Command(a) PROVE Away(c)'
    <2>1. flushed' = flushed
      BY <1>2 DEF Command, ReadSocket, CreateSocket, ReadGame, UpdateSocket, UpdateGame, MoveOut,
         ReadTransit, MoveIn, FlushRead, FlushCreate, FlushGame, FlushSocket, Answer, Fail
    <2>2. CASE Answer(a) \/ Fail(a)
      <3>1. \A b \in Actors : On(b, c)' => On(b, c) /\ task'[b] = task[b]
        BY <2>2, EndStep
      <3> QED BY <2>1, <3>1 DEF Away
    <2>3. ASSUME NEW pc, NEW s, NEW n, Busy(a), To(a, pc, s, n), task[a].pc \notin Ends
          PROVE  Away(c)'
      <3>1. \A b \in Actors : On(b, c)' => On(b, c) /\ (b # a => task'[b] = task[b])
        BY <2>3, ToFacts DEF Same
      <3>2. ~ On(a, c)
        BY <2>3 DEF Away, Ends
      <3> QED BY <2>1, <3>1, <3>2 DEF Away
    <2> QED BY <1>2, <2>2, <2>3, CommandCases
  <1>3. ASSUME NEW a \in Actors, NEW d \in Conns, Take(a, d) PROVE Away(c)'
    <2>1. /\ ~ Busy(a) /\ flushed' = flushed /\ d # c /\ pending[d] \in Packets
          /\ TaskChange(a, Task(d, pending[d], "readSocket", NewSocketSession, 0))
      BY <1>0, <1>3, TakeStep DEF KindsOf, Packets, Take
    <2>2. \A b \in Actors : On(b, c)' => On(b, c) /\ task'[b] = task[b]
      BY <2>1, BeginStep
    <2> QED BY <2>1, <2>2 DEF Away
  <1>4. ASSUME NEW a \in Actors, NEW d \in Conns, BeginFlush(a, d) PROVE Away(c)'
    <2>1. /\ ~ Busy(a) /\ TaskChange(a, Task(d, "flush", "flushRead", NewSocketSession, 0))
          /\ d # c
      BY <1>0, <1>4, BeginFlushStep DEF BeginFlush, Disconnected
    <2>2. \A b \in Actors : On(b, c)' => On(b, c) /\ task'[b] = task[b]
      BY <2>1, BeginStep
    <2>3. flushed'[c]
      BY <1>0, <1>4 DEF BeginFlush, Shapes, SessionTypes
    <2> QED BY <2>2, <2>3 DEF Away
  <1>5. CASE UNCHANGED sessionVars
    BY <1>5 DEF sessionVars, Away, On, Busy, Conn
  <1> QED BY <1>1, <1>2, <1>3, <1>4, <1>5 DEF Changes, Step

\* A connection to the zone whose socket session is deleted is away.
LEMMA DeletedIsAway ==
    ASSUME OneAtATime, Shapes, Closing, FlushKnown, [Changes]_sessionVars,
           NEW c \in Conns, ServerOf(c) = "zone", Polite(c), QuietOK(c),
           socket[c] # Absent, socket'[c] = Absent
    PROVE  Away(c)'
  <1>1. PICK a \in Actors : FlushSocket(a) /\ Conn(a) = c
    <2>1. socket \in [Conns -> Sockets \cup {Absent}] /\ NewSocketSession # Absent
      BY SessionFacts DEF Shapes, SessionTypes
    <2>2. \A d \in Conns : Client(d) => socket' = socket
      BY ClientStep DEF redisVars
    <2>3. \A a \in Actors, d \in Conns : Take(a, d) \/ BeginFlush(a, d) => socket' = socket
      BY DEF Take, BeginFlush, redisVars
    <2>4. socket' # socket
      OBVIOUS
    <2>5. PICK a \in Actors : Command(a)
      BY <2>2, <2>3, <2>4 DEF Changes, Step, sessionVars, redisVars
    <2>6. ~ UpdateSocket(a)
      <3>1. UpdateSocket(a) => Busy(a) /\ PutSocket(Conn(a), task[a].session)
        BY DEF UpdateSocket, At
      <3>2. Busy(a) => task[a].session \in Sockets
        BY BusyOK DEF Tasks
      <3> QED BY <2>1, <3>1, <3>2, AbsentAssumption DEF PutSocket
    <2>7. CreateSocket(a) \/ FlushCreate(a) \/ FlushSocket(a)
      BY <2>4, <2>5, <2>6 DEF Command, ReadSocket, ReadGame, UpdateGame, MoveOut, ReadTransit,
         MoveIn, FlushRead, FlushGame, Answer, Fail, redisVars
    <2>8. FlushSocket(a)
      BY <2>1, <2>7 DEF CreateSocket, FlushCreate, PutSocket
    <2>9. Conn(a) = c
      BY <2>1, <2>8 DEF FlushSocket, PutSocket
    <2> QED BY <2>8, <2>9
  <1>2. /\ On(a, c) /\ To(a, "answer", task[a].session, task[a].changes)
        /\ task[a].kind \in {"startGame", "flush"} /\ flushed' = flushed
    BY <1>1, FlushSocketStep DEF On, FlushSocket
  <1>3. task[a].kind = "flush"
    BY <1>2, BusyOK DEF On, KindsOf, IsMonitor
  <1>4. flushed[c] /\ link[c] = "closed"
    BY <1>2, <1>3 DEF FlushKnown, Closing, On
  <1>5. /\ \A b \in Actors : On(b, c)' <=> On(b, c)
        /\ task'[a].kind = "flush" /\ task'[a].pc = "answer"
    BY <1>2, <1>3, ToFacts DEF On, Same
  <1>6. \A b \in Actors : On(b, c) => b = a
    BY <1>2, SoleActor
  <1> QED BY <1>2, <1>4, <1>5, <1>6 DEF Away

LEMMA ChangesFound ==
    ASSUME OneAtATime, Shapes, Closing, Courtesy, Swept, Found,
           [Changes]_sessionVars, UNCHANGED <<met, creating>>
    PROVE  Found'
  <1>1. FlushKnown'
    BY NextFlushKnown DEF Found
  <1>2. ASSUME NEW c \in Conns, Polite(c)
        PROVE  /\ c \in met => socket'[c] # Absent \/ Away(c)'
               /\ c \in creating => Away(c)'
    <2>1. QuietOK(c) /\ SweptOK(c) /\ FlushKnown
      BY <1>2 DEF Courtesy, Swept, Found
    <2>2. Away(c) => Away(c)'
      BY <1>2, <2>1, AwayStays
    <2>3. c \in met /\ socket[c] # Absent /\ socket'[c] = Absent => Away(c)'
      BY <1>2, <2>1, DeletedIsAway DEF Found
    <2> QED BY <1>2, <2>2, <2>3 DEF Found
  <1> QED BY <1>1, <1>2 DEF Found, Polite

\* The neighbour the event server has read is logged in.
LEMMA MeetFound ==
    ASSUME Shapes, Swept, Found, NEW c \in Conns, Meet(c)
    PROVE  Found'
  <1>1. /\ met' = met \cup {c} /\ ServerOf(c) = "zone"
        /\ UNCHANGED <<task, flushed, socket, creating>>
    BY DEF Meet, Handles, sessionVars, redisVars
  <1>2. Polite(c) => socket[c] # Absent
    <2>1. PICK k \in GameKeys : k[1] = ServerOf(c) /\ game[k] # Absent /\ game[k].owner = c
      BY <1>1 DEF Meet
    <2>2. Polite(c) => Owned(c)
      BY <2>1 DEF Swept, OwnsOne, Owned
    <2> QED BY <2>2, SessionFacts DEF Swept, SweptOK
  <1>3. \A d \in Conns : Away(d) <=> Away(d)'
    BY <1>1 DEF Away, On, Busy, Conn
  <1>4. FlushKnown'
    BY <1>1 DEF Found, FlushKnown, Busy, Conn
  <1> QED BY <1>1, <1>2, <1>3, <1>4 DEF Found, Polite

LEMMA FindMissingFound ==
    ASSUME Found, NEW c \in Conns, FindMissing(c)
    PROVE  Found'
  <1>1. /\ creating' = {c} /\ c \in met /\ socket[c] = Absent
        /\ UNCHANGED <<task, flushed, socket, met>>
    BY DEF FindMissing, sessionVars, redisVars
  <1>2. \A d \in Conns : Away(d) <=> Away(d)'
    BY <1>1 DEF Away, On, Busy, Conn
  <1>3. FlushKnown'
    BY <1>1 DEF Found, FlushKnown, Busy, Conn
  <1> QED BY <1>1, <1>2, <1>3 DEF Found, Polite

\* A new socket session takes the place of the one that was found missing.
LEMMA RecreateFacts ==
    ASSUME Shapes, Found, NEW c \in Conns, Recreate(c)
    PROVE  /\ ServerOf(c) = "zone" /\ \A p \in Players : c # B(p)
           /\ socket'[c] = NewSocketSession
           /\ \A d \in Conns : d # c => socket'[d] = socket[d]
           /\ UNCHANGED <<link, progress, pending, task, flushed, game, applied>>
           /\ \A a \in Actors : (Busy(a)' <=> Busy(a)) /\ Conn(a)' = Conn(a)
           /\ \A a \in Actors, d \in Conns : On(a, d)' <=> On(a, d)
  <1>1. /\ socket' = [socket EXCEPT ![c] = NewSocketSession]
        /\ UNCHANGED <<link, progress, pending, task, flushed, game, applied>>
    BY DEF Recreate, PutSocket, clientVars
  <1>2. ServerOf(c) = "zone"
    BY DEF Recreate, Found
  <1>3. \A p \in Players : c # B(p)
    BY <1>2, PlayerFacts
  <1> QED BY <1>1, <1>2, <1>3 DEF Shapes, SessionTypes, On, Busy, Conn

LEMMA RecreateOrder ==
    ASSUME Order, NEW c \in Conns, Recreate(c)
    PROVE  Order'
  <1>1. UNCHANGED <<progress, pending, task>>
    BY DEF Recreate, clientVars
  <1> QED BY <1>1, OrderStable DEF On, Busy, Conn

LEMMA RecreateHandover ==
    ASSUME Shapes, Found, Handover, Paired, NEW c \in Conns, Recreate(c)
    PROVE  Handover' /\ Paired'
  <1>1. /\ socket'[c] = NewSocketSession /\ \A d \in Conns : d # c => socket'[d] = socket[d]
        /\ UNCHANGED <<progress, pending, task, game>>
        /\ \A a \in Actors, d \in Conns : On(a, d)' <=> On(a, d)
    BY RecreateFacts
  <1>2. \A d \in Conns : socket'[d] = Full(d) => socket[d] = Full(d)
    BY <1>1, SessionFacts
  <1>3. ASSUME NEW p \in Players PROVE HandoverOf(p)'
    <2>1. B(p) \in Conns /\ Z(p) \in Conns
      BY PlayerFacts
    <2>2. (InTransit(p)' => InTransit(p)) /\ (Arrived(p)' => Arrived(p))
      BY <1>1, <1>2, <2>1 DEF InTransit, Arrived
    <2>3. Moved(p) => Moved(p)'
      BY <1>1, <2>1 DEF Moved, Does
    <2> QED BY <1>1, <2>2, <2>3 DEF Handover, HandoverOf
  <1>4. ASSUME NEW d \in Conns PROVE HasGame(d)'
    <2>1. (Owned(d)' <=> Owned(d)) /\ \A a \in Actors : Between(a, d)' <=> Between(a, d)
      BY <1>1 DEF Owned, Between, Does
    <2> QED BY <1>2, <2>1 DEF Paired, HasGame
  <1> QED BY <1>3, <1>4 DEF Handover, Paired

LEMMA RecreateArrival ==
    ASSUME Shapes, Found, Arrival, Courtesy, NEW c \in Conns, Recreate(c)
    PROVE  Arrival' /\ Courtesy'
  <1>1. /\ \A p \in Players : socket'[B(p)] = socket[B(p)]
        /\ UNCHANGED <<link, progress, pending, task, game>>
        /\ \A a \in Actors : (Busy(a)' <=> Busy(a)) /\ Conn(a)' = Conn(a)
        /\ \A a \in Actors, d \in Conns : On(a, d)' <=> On(a, d)
    BY RecreateFacts, PlayerFacts
  <1>2. NewOK' /\ Closing'
    BY <1>1 DEF Arrival, NewOK, Closing
  <1>3. ASSUME NEW p \in Players PROVE OpenOK(p)' /\ SentOK(p)' /\ FollowOK(p)'
    <2>1. B(p) \in Conns /\ Z(p) \in Conns
      BY PlayerFacts
    <2>2. OpenOK(p)'
      BY <1>1, <2>1 DEF Arrival, OpenOK, Settled
    <2>3. SentOK(p)'
      BY <1>1, <2>1 DEF Arrival, SentOK, Leaves, Does
    <2> QED BY <1>1, <2>2, <2>3 DEF Courtesy, FollowOK
  <1>4. \A d \in Conns : QuietOK(d)'
    BY <1>1 DEF Courtesy, QuietOK
  <1>5. ASSUME NEW p \in Players \ Abrupt PROVE HeldOK(p)'
    BY <1>1, PlayerFacts DEF Courtesy, HeldOK
  <1> QED BY <1>2, <1>3, <1>4, <1>5 DEF Arrival, Courtesy

LEMMA RecreateSwept ==
    ASSUME Shapes, Found, Swept, NEW c \in Conns, Recreate(c)
    PROVE  Swept' /\ Found'
  <1>1. /\ socket'[c] = NewSocketSession /\ \A d \in Conns : d # c => socket'[d] = socket[d]
        /\ UNCHANGED <<link, progress, pending, task, flushed, game>>
        /\ ServerOf(c) = "zone"
        /\ \A a \in Actors : (Busy(a)' <=> Busy(a)) /\ Conn(a)' = Conn(a)
        /\ \A a \in Actors, d \in Conns : On(a, d)' <=> On(a, d)
    BY RecreateFacts
  <1>2. c \in creating /\ creating' = {} /\ met' \subseteq met
    BY DEF Recreate
  <1>3. \A d \in Conns : (Away(d)' <=> Away(d)) /\ (Inside(d)' <=> Inside(d))
                         /\ (Owned(d)' <=> Owned(d))
    BY <1>1 DEF Away, Inside, Owned
  <1>4. ASSUME NEW d \in Conns, Polite(d) PROVE SweptOK(d)'
    <2>1. SweptOK(d)
      BY <1>4 DEF Swept
    <2>2. CASE d # c
      BY <1>1, <1>3, <2>1, <2>2, SweptFrame
    <2>3. CASE d = c
      <3>1. Away(c)
        BY <1>2, <1>4, <2>3 DEF Found
      <3>2. Blank(c)
        BY <2>1, <2>3, <3>1 DEF Away, SweptOK, StepOK
      <3>3. ~ Owned(c) /\ ~ Inside(c)
        BY <2>1, <2>3, <3>2, SessionFacts DEF SweptOK, Blank
      <3>4. Blank(c)'
        BY <1>1 DEF Blank
      <3>5. \A a \in Actors : On(a, c)' => task'[a].kind = "flush" /\ task'[a].pc = "answer"
        BY <1>1, <3>1 DEF Away
      <3>6. \A a \in Actors : On(a, c)' => StepOK(a, c)'
        BY <3>4, <3>5 DEF StepOK, Puts, Enters
      <3> QED BY <1>1, <1>3, <2>1, <2>3, <3>3, <3>4, <3>6 DEF SweptOK
    <2> QED BY <2>2, <2>3
  <1>5. Swept'
    BY <1>1, <1>4 DEF Swept, HomeOK, OwnsOne, Polite
  <1>6. FlushKnown'
    BY <1>1 DEF Found, FlushKnown
  <1>7. ASSUME NEW d \in Conns, Polite(d), d \in met' PROVE socket'[d] # Absent \/ Away(d)'
    BY <1>1, <1>2, <1>3, <1>7, SessionFacts DEF Found
  <1> QED BY <1>2, <1>5, <1>6, <1>7 DEF Found, Polite

-----------------------------------------------------------------------------
(* Packets of one client, one at a time *)

\* One worker per server, as cfg/server.cfg asks for,
OneWorker == WorkersCount = 1

\* or clients that send nothing but the packets they wait an answer for: login,
\* start of the game, connection to the zone.
NoRequests == \A p \in Players : MaxRequests[p] = 0

TurnsOK ==
    /\ OneAtATime
    /\ \A c \in Conns : pending[c] # NoPacket =>
          \A a \in Actors : On(a, c) => task[a].kind = "flush"
    /\ \A c \in Conns : pending[c] \notin {"update", "query"}
    /\ \A a \in Actors : Busy(a) => task[a].kind \notin {"update", "query"}

LEMMA InitTurns == Init => TurnsOK
  BY DEF Init, TurnsOK, OneAtATime, On, Busy, NoPacket

\* Nobody begins to work on a connection, and no client sends.
LEMMA TurnsFrame ==
    ASSUME TurnsOK, pending' = pending,
           \A b \in Actors : Busy(b)' => Busy(b) /\ task'[b].kind = task[b].kind,
           \A b \in Actors, c \in Conns : On(b, c)' => On(b, c)
    PROVE  TurnsOK'
  <1>1. \A b \in Actors, c \in Conns : On(b, c)' => task'[b].kind = task[b].kind
    BY DEF On
  <1>2. OneAtATime'
    BY <1>1 DEF TurnsOK, OneAtATime
  <1> QED BY <1>1, <1>2 DEF TurnsOK

LEMMA CommandTurns ==
    ASSUME Shapes, TurnsOK, NEW a \in Actors, Command(a)
    PROVE  TurnsOK'
  <1>1. CASE Answer(a) \/ Fail(a)
    <2>1. /\ pending' = pending /\ task'[a] = NoTask
          /\ \A b \in Actors, c \in Conns : On(b, c)' => On(b, c)
          /\ \A b \in Actors : b # a => task'[b] = task[b]
      BY <1>1, EndStep DEF TaskChange
    <2>2. \A b \in Actors : Busy(b)' => Busy(b) /\ task'[b].kind = task[b].kind
      BY <2>1 DEF Busy
    <2> QED BY <2>1, <2>2, TurnsFrame
  <1>2. ASSUME Busy(a), UNCHANGED clientVars, NEW pc, NEW s, NEW n, To(a, pc, s, n)
        PROVE  TurnsOK'
    <2>1. Same(a)
      BY <1>2, ToFacts
    <2>2. pending' = pending
      BY <1>2 DEF clientVars
    <2> QED BY <2>1, <2>2, TurnsFrame DEF Same
  <1> QED BY <1>1, <1>2, CommandCases

\* A packet is taken, or a connection is flushed.
LEMMA BeginTurns ==
    ASSUME Shapes, TurnsOK, NEW a \in Actors, NEW c \in Conns, Take(a, c) \/ BeginFlush(a, c)
    PROVE  TurnsOK'
  <1>1. PICK kind \in Packets \cup {"flush"}, pc \in {"readSocket", "flushRead"} :
          /\ ~ Busy(a) /\ TaskChange(a, Task(c, kind, pc, NewSocketSession, 0))
          /\ \A d \in Conns : pending'[d] \in {pending[d], NoPacket}
          /\ \/ kind = "flush"
             \/ kind = pending[c] /\ pending[c] # NoPacket /\ pending'[c] = NoPacket
    <2>1. pending \in [Conns -> Packets \cup {NoPacket}]
      BY DEF Shapes, SessionTypes
    <2>2. CASE Take(a, c)
      <3>1. /\ ~ Busy(a) /\ pending[c] # NoPacket /\ pending' = [pending EXCEPT ![c] = NoPacket]
            /\ TaskChange(a, Task(c, pending[c], "readSocket", NewSocketSession, 0))
        BY <2>2, TakeStep DEF Take
      <3> QED BY <2>1, <3>1
    <2>3. CASE BeginFlush(a, c)
      <3>1. /\ ~ Busy(a) /\ pending' = pending
            /\ TaskChange(a, Task(c, "flush", "flushRead", NewSocketSession, 0))
        BY <2>3, BeginFlushStep DEF clientVars
      <3> QED BY <3>1
    <2> QED BY <2>2, <2>3
  <1>2. /\ \A b \in Actors : \A d \in Conns : On(b, d)' <=> (On(b, d) \/ (b = a /\ d = c))
        /\ \A b \in Actors : b # a => task'[b] = task[b]
        /\ \A d \in Conns : ~ On(a, d)
        /\ task'[a].kind = kind
    BY <1>1, BeginStep
  <1>3. OneAtATime'
    <2> SUFFICES ASSUME NEW b1 \in Actors, NEW b2 \in Actors, NEW d \in Conns,
                        On(b1, d)', On(b2, d)', task'[b1].kind # "flush", task'[b2].kind # "flush"
                 PROVE  b1 = b2
      BY DEF OneAtATime
    <2>1. ASSUME NEW b \in Actors, On(b, d)', task'[b].kind # "flush", b # a
          PROVE  On(b, d) /\ task[b].kind # "flush" /\ (d = c => kind = "flush")
      BY <1>1, <1>2, <2>1 DEF TurnsOK
    <2>2. On(a, d)' => d = c
      BY <1>2
    <2>3. CASE b1 # a /\ b2 # a
      BY <2>1, <2>3 DEF TurnsOK, OneAtATime
    <2>4. CASE b1 = a /\ b2 # a
      BY <1>2, <2>1, <2>2, <2>4
    <2>5. CASE b1 # a /\ b2 = a
      BY <1>2, <2>1, <2>2, <2>5
    <2> QED BY <2>3, <2>4, <2>5
  <1>4. \A d \in Conns : pending'[d] # NoPacket => pending'[d] = pending[d] /\ (d = c => kind = "flush")
    BY <1>1
  <1>5. \A b \in Actors : Busy(b)' => task'[b].kind \notin {"update", "query"}
    BY <1>1, <1>2 DEF TurnsOK, Busy
  <1>6. \A d \in Conns : pending'[d] \notin {"update", "query"}
    BY <1>1 DEF TurnsOK, NoPacket
  <1>7. \A d \in Conns : pending'[d] # NoPacket =>
           \A b \in Actors : On(b, d)' => task'[b].kind = "flush"
    BY <1>2, <1>4 DEF TurnsOK, On
  <1> QED BY <1>3, <1>5, <1>6, <1>7 DEF TurnsOK

LEMMA ClientTurns ==
    ASSUME NoRequests, Shapes, Order, TurnsOK, NEW c \in Conns, Client(c)
    PROVE  TurnsOK'
  <1>1. /\ task' = task
        /\ \A b \in Actors : Busy(b)' <=> Busy(b)
        /\ \A b \in Actors, d \in Conns : On(b, d)' <=> On(b, d)
    BY ClientStep
  <1>2. pending \in [Conns -> Packets \cup {NoPacket}] /\ requests \in [Players -> Nat]
    BY DEF Shapes, SessionTypes
  <1>3. CASE Open(c) \/ Close(c)
    BY <1>1, <1>3, TurnsFrame DEF Open, Close
  <1>4. ASSUME NEW packet \in Packets, SendRequest(c, packet) PROVE FALSE
    <2>1. requests[PlayerOf(c)] \in Nat /\ MaxRequests[PlayerOf(c)] = 0
      BY <1>2, ConnFacts DEF NoRequests
    <2> QED BY <1>4, <2>1 DEF SendRequest
  <1>5. CASE SendEnter(c) \/ SendStartGame(c)
    <2>1. \A a \in Actors : On(a, c) => task[a].kind = "flush"
      <3>1. EnterOK(c) /\ RequestOK(c) /\ FreshOK(c)
        BY DEF Order
      <3>2. CASE SendEnter(c)
        BY <3>1, <3>2 DEF SendEnter, FreshOK
      <3>3. CASE SendStartGame(c)
        <4>1. progress[c] = "inside" /\ c = B(PlayerOf(c)) /\ PlayerOf(c) \in Players
          BY <3>3, ConnFacts DEF SendStartGame
        <4>2. LeavingOK(PlayerOf(c))
          BY <4>1 DEF Order
        <4>3. ASSUME NEW a \in Actors, On(a, c)
              PROVE  task[a].kind \in {"login", "connect", "startGame", "flush"}
          <5>1. task[a].kind \in Packets \cup {"flush"} /\ Busy(a)
            BY <4>3, BusyOK DEF On, Tasks
          <5> QED BY <5>1 DEF TurnsOK, Packets
        <4> QED BY <3>1, <4>1, <4>2, <4>3 DEF EnterOK, LeavingOK, Enters
      <3> QED BY <1>5, <3>2, <3>3
    <2>2. /\ pending'[c] \in {"login", "connect", "startGame"}
          /\ \A d \in Conns : d # c => pending'[d] = pending[d]
      BY <1>2, <1>5 DEF SendEnter, SendStartGame, Send
    <2>3. OneAtATime'
      BY <1>1 DEF TurnsOK, OneAtATime
    <2> QED BY <1>1, <2>1, <2>2, <2>3 DEF TurnsOK
  <1> QED BY <1>3, <1>4, <1>5 DEF Client

LEMMA NextTurns == NoRequests /\ Shapes /\ Order /\ TurnsOK /\ [Changes]_sessionVars => TurnsOK'
  <1> SUFFICES ASSUME NoRequests, Shapes, Order, TurnsOK, [Changes]_sessionVars PROVE TurnsOK'
    OBVIOUS
  <1>1. CASE UNCHANGED sessionVars
    BY <1>1, TurnsFrame DEF sessionVars, clientVars, On, Busy, Conn
  <1> QED BY <1>1, ClientTurns, CommandTurns, BeginTurns DEF Changes, Step

LEMMA RecreateTurns ==
    ASSUME TurnsOK, NEW c \in Conns, Recreate(c)
    PROVE  TurnsOK'
  <1>1. UNCHANGED <<pending, task>>
    BY DEF Recreate, clientVars
  <1> QED BY <1>1, TurnsFrame DEF On, Busy, Conn

\* The packets of a connection are processed one at a time by one worker, and
\* by any number of workers if the client waits for the answer to each of them:
\* the answer is the last thing a worker does for a packet (Worker.c:746).
THEOREM TurnsTaken == ASSUME OneWorker \/ NoRequests PROVE Spec => []OneAtATime
  <1>1. CASE OneWorker
    <2>1. Shapes => OneAtATime
      <3> SUFFICES ASSUME Shapes, NEW a \in Actors, NEW b \in Actors, NEW c \in Conns,
                          On(a, c), On(b, c), task[a].kind # "flush", task[b].kind # "flush"
                   PROVE  a = b
        BY DEF OneAtATime
      <3>1. ~ IsMonitor(a) /\ ~ IsMonitor(b) /\ a[1] = b[1]
        BY BusyOK DEF On
      <3> QED BY <1>1, <3>1 DEF OneWorker, Actors, IsMonitor
    <2> QED BY <2>1, InitShapes, StepShapes, PTL DEF Spec
  <1>2. CASE NoRequests
    <2> DEFINE IInv == Shapes /\ Order /\ TurnsOK
    <2>1. Init => IInv
      BY InitShapes, InitOrder, InitTurns
    <2>2. IInv /\ [Next]_vars => IInv'
      <3>1. IInv /\ [Changes]_sessionVars => IInv'
        BY <1>2, NextShapes, NextOrder, NextTurns DEF TurnsOK
      <3>2. ASSUME IInv, NEW c \in Conns, Recreate(c) PROVE IInv'
        BY <3>2, RecreateShapes, RecreateOrder, RecreateTurns
      <3> QED BY <3>1, <3>2, NextCases
    <2>3. IInv => OneAtATime
      BY DEF TurnsOK
    <2> QED BY <2>1, <2>2, <2>3, PTL DEF Spec
  <1> QED BY <1>1, <1>2

-----------------------------------------------------------------------------
(* What follows from it *)

Kept == /\ OneGameSession /\ SocketHasGame /\ NoLostUpdate
        /\ HandoverKept /\ PoliteFlushLogsOut

\* With any number of workers, the sessions are kept in every behaviour in which
\* no two workers process packets of the same connection: the one thing the
\* workers must be able to rely on is the order in which the Router hands the
\* packets out.
THEOREM TurnsSuffice == Spec /\ []OneAtATime => []Kept /\ LifeCycle
  <1> DEFINE IInv == /\ Shapes /\ Order /\ Handover /\ Paired
                     /\ Counted /\ Arrival /\ Courtesy /\ Swept /\ Found
  <1>1. Init => IInv
    BY InitShapes, InitOrder, InitHandover, InitPaired, InitCounted, InitArrival, InitCourtesy,
       InitSwept, InitFound
  <1>2. OneAtATime /\ IInv /\ [Next]_vars => IInv'
    <2> SUFFICES ASSUME OneAtATime, IInv, [Next]_vars PROVE IInv'
      OBVIOUS
    <2>1. CASE [Changes]_sessionVars /\ UNCHANGED eventVars
      <3>1. /\ Shapes' /\ Order' /\ Handover' /\ Paired'
            /\ Counted' /\ Arrival' /\ Courtesy' /\ Swept'
        BY <2>1, NextShapes, NextOrder, NextHandover, NextPaired, NextCounted, NextArrival,
           NextCourtesy, NextSwept
      <3>2. Found'
        BY <2>1, ChangesFound DEF Arrival, eventVars
      <3> QED BY <3>1, <3>2
    <2>2. ASSUME NEW c \in Conns, Meet(c) \/ FindMissing(c) PROVE IInv'
      <3>1. UNCHANGED sessionVars
        BY <2>2 DEF Meet, FindMissing
      <3>2. /\ Shapes' /\ Order' /\ Handover' /\ Paired'
            /\ Counted' /\ Arrival' /\ Courtesy' /\ Swept'
        BY <3>1, NextShapes, NextOrder, NextHandover, NextPaired, NextCounted, NextArrival,
           NextCourtesy, NextSwept
      <3>3. Found'
        BY <2>2, MeetFound, FindMissingFound
      <3> QED BY <3>2, <3>3
    <2>3. ASSUME NEW c \in Conns, Recreate(c) PROVE IInv'
      <3>1. Counted'
        BY <2>3, RecreateFacts, QuietCounted
      <3> QED BY <2>3, <3>1, RecreateShapes, RecreateOrder, RecreateHandover, RecreateArrival,
              RecreateSwept
    <2> QED BY <2>1, <2>2, <2>3, EventCases
  <1>3. IInv => Kept
    BY HandoverUnique, PairedNames, CountedNoLoss, SweptIsGone
       DEF Kept, Arrival, SentOK, Leaves, HandoverKept, B, Z, PoliteFlushLogsOut, Polite
  <1>4. OneAtATime /\ IInv /\ [Next]_vars => [\A p \in Players \ Abrupt : Lives(p)]_vars
    <2>1. OneAtATime /\ IInv /\ [Changes]_sessionVars => \A p \in Players \ Abrupt : Lives(p)
      BY StepLives
    <2>2. ASSUME NEW c \in Conns, Recreate(c) PROVE \A p \in Players : Lives(p)
      BY <2>2, SamePlace DEF Recreate
    <2> QED BY <2>1, <2>2, NextCases
  <1>5. [\A p \in Players \ Abrupt : Lives(p)]_vars
          => [\A p \in Players \ Abrupt :
                Place(p)' # Place(p) =>
                   \/ <<Place(p), Place(p)'>> \in {<<"nowhere", "barrack">>,
                                                   <<"barrack", "transit">>,
                                                   <<"transit", "zone">>}
                   \/ /\ Place(p) \in {"barrack", "zone"}
                      /\ Place(p)' = "nowhere"
                      /\ link[<<p, Place(p)>>] = "closed"]_vars
    BY DEF Lives
  <1> QED BY <1>1, <1>2, <1>3, <1>4, <1>5, PTL DEF Spec, LifeCycle

\* The game session of a player is never in two places, for any number of
\* players and packets and wherever the commands of the servers and of their
\* monitors interleave, even for the clients that quit while a packet is
\* outstanding.
THEOREM UniqueGame == ASSUME OneWorker \/ NoRequests PROVE Spec => []OneGameSession
  <1>1. Kept => OneGameSession
    BY DEF Kept
  <1> QED BY <1>1, TurnsTaken, TurnsSuffice, PTL

\* An authenticated socket session that no thread works on always names a game
\* session that names it back.
THEOREM NamedGame == ASSUME OneWorker \/ NoRequests PROVE Spec => []SocketHasGame
  <1>1. Kept => SocketHasGame
    BY DEF Kept
  <1> QED BY <1>1, TurnsTaken, TurnsSuffice, PTL

\* The game session of a player has every change a packet of the player made:
\* neither another packet, nor the handover to the zone server, nor a flush
\* writes an older copy back.
THEOREM EveryChangeKept == ASSUME OneWorker \/ NoRequests PROVE Spec => []NoLostUpdate
  <1>1. Kept => NoLostUpdate
    BY DEF Kept
  <1> QED BY <1>1, TurnsTaken, TurnsSuffice, PTL

\* A player who was told to start the game finds the game session at the zone
\* server, although the flush of the barrack's session goes on meanwhile, by its
\* worker and by its monitor.
THEOREM HandoverIsKept == ASSUME OneWorker \/ NoRequests PROVE Spec => []HandoverKept
  <1>1. Kept => HandoverKept
    BY DEF Kept
  <1> QED BY <1>1, TurnsTaken, TurnsSuffice, PTL

\* The game session of a client that waits for its answers goes from the barrack
\* through transit to the zone, never back, and only ends after its connection
\* there has closed: the flush that follows the move, by the barrack's worker,
\* deletes nothing of it.
THEOREM OneLife == ASSUME OneWorker \/ NoRequests PROVE Spec => LifeCycle
  BY TurnsTaken, TurnsSuffice, PTL

\* A client that waits for its answers is logged out for good once the flush of
\* its connection is over, whatever the workers and monitors of both servers and
\* the event server interleave.  What the event server may leave of it is a new
\* socket session, through which nobody is logged in.
THEOREM FlushLogsOut == ASSUME OneWorker \/ NoRequests PROVE Spec => []PoliteFlushLogsOut
  <1>1. Kept => PoliteFlushLogsOut
    BY DEF Kept
  <1> QED BY <1>1, TurnsTaken, TurnsSuffice, PTL
-----------------------------------------------------------------------------
(* How a flush comes to its end, with any number of workers *)

\* At most so many commands follow command pc, itself included.
CommandsFrom == [pc \in Commands |->
    CASE pc = "readSocket" -> 10
      [] pc \in {"createSocket", "readGame"} -> 9
      [] pc = "readTransit" -> 8
      [] pc = "moveIn" -> 7
      [] pc \in {"putSocket", "moveOut"} -> 6
      [] pc \in {"putGame", "flushRead"} -> 5
      [] pc = "flushCreate" -> 4
      [] pc = "flushGame" -> 3
      [] pc = "flushSocket" -> 2
      [] OTHER -> 1]

CommandsLeft(a) == IF Busy(a) THEN CommandsFrom[task[a].pc] ELSE 0

LEMMA LeftNat ==
    ASSUME Shapes, NEW a \in Actors
    PROVE  CommandsLeft(a) \in Nat /\ (Busy(a) => CommandsLeft(a) > 0)
  <1>1. Busy(a) => task[a].pc \in Commands
    BY BusyOK DEF Tasks
  <1>2. \A pc \in Commands : CommandsFrom[pc] \in Nat /\ CommandsFrom[pc] > 0
    BY DEF CommandsFrom, Commands
  <1> QED BY <1>1, <1>2 DEF CommandsLeft

\* A command that is followed by command pc
LEMMA LeftTo ==
    ASSUME Shapes, NEW a \in Actors, Busy(a), NEW pc, NEW s, NEW n, To(a, pc, s, n),
           CommandsFrom[pc] < CommandsFrom[task[a].pc]
    PROVE  CommandsLeft(a)' < CommandsLeft(a)
  BY ToFacts DEF CommandsLeft

LEMMA LeftHandled ==
    ASSUME Shapes, NEW a \in Actors, Busy(a), NEW s, NEW n, Handled(a, s, n),
           task[a].pc \in {"readSocket", "createSocket", "readGame"}
    PROVE  CommandsLeft(a)' < CommandsLeft(a)
  <1>1. task[a].kind \in {"login", "update", "query", "startGame", "connect"}
    BY DEF Handled, KindsOf
  <1>2. HandlePc[task[a].kind] \in {"putSocket", "answer", "moveOut", "readTransit"}
    BY <1>1 DEF HandlePc
  <1>3. CommandsFrom[HandlePc[task[a].kind]] < CommandsFrom[task[a].pc]
    BY <1>2 DEF CommandsFrom, Commands
  <1> QED BY <1>3, LeftTo DEF Handled

LEMMA CommandLeft ==
    ASSUME Shapes, NEW a \in Actors, Command(a)
    PROVE  Busy(a) /\ CommandsLeft(a)' < CommandsLeft(a)
  <1>1. /\ CommandsFrom["createSocket"] < CommandsFrom["readSocket"]
        /\ CommandsFrom["readGame"] < CommandsFrom["readSocket"]
        /\ CommandsFrom["fail"] < CommandsFrom["readGame"]
        /\ CommandsFrom["putGame"] < CommandsFrom["putSocket"]
        /\ CommandsFrom["answer"] < CommandsFrom["putGame"]
        /\ CommandsFrom["flushRead"] < CommandsFrom["moveOut"]
        /\ CommandsFrom["fail"] < CommandsFrom["moveOut"]
        /\ CommandsFrom["fail"] < CommandsFrom["readTransit"]
        /\ CommandsFrom["moveIn"] < CommandsFrom["readTransit"]
        /\ CommandsFrom["putSocket"] < CommandsFrom["moveIn"]
        /\ CommandsFrom["fail"] < CommandsFrom["moveIn"]
        /\ CommandsFrom["flushCreate"] < CommandsFrom["flushRead"]
        /\ CommandsFrom["flushGame"] < CommandsFrom["flushRead"]
        /\ CommandsFrom["flushGame"] < CommandsFrom["flushCreate"]
        /\ CommandsFrom["flushSocket"] < CommandsFrom["flushGame"]
        /\ CommandsFrom["answer"] < CommandsFrom["flushSocket"]
    BY DEF CommandsFrom, Commands
  <1>2. CASE Answer(a) \/ Fail(a)
    <2>1. Busy(a) /\ ~ Busy(a)'
      BY <1>2, EndStep DEF TaskChange, Busy
    <2> QED BY <2>1, LeftNat DEF CommandsLeft
  <1>3. CASE ReadSocket(a)
    BY <1>1, <1>3, ReadSocketStep, LeftTo, LeftHandled DEF At
  <1>4. CASE CreateSocket(a)
    BY <1>4, CreateSocketStep, LeftHandled DEF At
  <1>5. CASE ReadGame(a)
    BY <1>1, <1>5, ReadGameStep, LeftTo, LeftHandled DEF At
  <1>6. CASE UpdateSocket(a)
    BY <1>1, <1>6, UpdateSocketStep, LeftTo DEF At
  <1>7. CASE UpdateGame(a)
    BY <1>1, <1>7, UpdateGameStep, LeftTo DEF At
  <1>8. CASE MoveOut(a)
    BY <1>1, <1>8, MoveOutStep, LeftTo DEF At
  <1>9. CASE ReadTransit(a)
    BY <1>1, <1>9, ReadTransitStep, LeftTo DEF At
  <1>10. CASE MoveIn(a)
    BY <1>1, <1>10, MoveInStep, LeftTo DEF At
  <1>11. CASE FlushRead(a)
    BY <1>1, <1>11, FlushReadStep, LeftTo DEF At
  <1>12. CASE FlushCreate(a)
    BY <1>1, <1>12, FlushCreateStep, LeftTo DEF At
  <1>13. CASE FlushGame(a)
    BY <1>1, <1>13, FlushGameStep, LeftTo DEF At
  <1>14. CASE FlushSocket(a)
    BY <1>1, <1>14, FlushSocketStep, LeftTo DEF At
  <1> QED BY <1>2, <1>3, <1>4, <1>5, <1>6, <1>7, <1>8, <1>9, <1>10, <1>11, <1>12, <1>13, <1>14
      DEF Command

\* Nobody else meddles with the task of a, and who is at work takes no other.
Works(a) ==
    /\ Command(a) => CommandsLeft(a)' < CommandsLeft(a)
    /\ Busy(a) /\ ~ Command(a) => task'[a] = task[a]

LEMMA NextWorks == Shapes /\ [Changes]_sessionVars => \A a \in Actors : Works(a)
  <1> SUFFICES ASSUME Shapes, [Changes]_sessionVars, NEW a \in Actors, Busy(a), ~ Command(a)
               PROVE  task'[a] = task[a]
    BY CommandLeft DEF Works
  <1>1. ASSUME NEW b \in Actors, Command(b) PROVE task'[a] = task[a]
    <2>1. b # a
      BY <1>1
    <2>2. CASE Answer(b) \/ Fail(b)
      BY <2>1, <2>2, EndStep
    <2>3. ASSUME NEW pc, NEW s, NEW n, Busy(b), To(b, pc, s, n) PROVE task'[a] = task[a]
      BY <2>1, <2>3, ToFacts DEF Same
    <2> QED BY <1>1, <2>2, <2>3, CommandCases
  <1>2. ASSUME NEW b \in Actors, NEW c \in Conns, Take(b, c) PROVE task'[a] = task[a]
    BY <1>2, TakeStep DEF TaskChange
  <1>3. ASSUME NEW b \in Actors, NEW c \in Conns, BeginFlush(b, c) PROVE task'[a] = task[a]
    BY <1>3, BeginFlushStep DEF TaskChange
  <1>4. ASSUME NEW c \in Conns, Client(c) PROVE task'[a] = task[a]
    BY <1>4, ClientStep
  <1>5. CASE UNCHANGED sessionVars
    BY <1>5 DEF sessionVars
  <1> QED BY <1>1, <1>2, <1>3, <1>4, <1>5 DEF Changes, Step

\* The monitor has yet to read that c has disconnected.
Due(c) == link[c] = "closed" /\ progress[c] # "connected" /\ ~ flushed[c] /\ c \notin missed

\* It stays so until a monitor reads it, which flushes c or misses it, for good.
\* A flush begins once, and what it was to do stays done: nobody takes up the
\* connection again.
StaysFlushed(c) ==
    /\ Due(c) => Due(c)' \/ \E a \in Actors : BeginFlush(a, c) \/ Miss(a, c)
    /\ c \in missed /\ ~ flushed[c] => c \in missed' /\ ~ flushed'[c]
    /\ flushed[c] => flushed'[c] /\ ~ \E a \in Actors : BeginFlush(a, c)
    /\ FlushOver(c) => FlushOver(c)'

FlushedClosed == \A c \in Conns : flushed[c] => link[c] = "closed"

LEMMA NextFlushedClosed == Shapes /\ FlushedClosed /\ [Changes]_sessionVars => FlushedClosed'
  <1> SUFFICES ASSUME Shapes, FlushedClosed, [Changes]_sessionVars, NEW d \in Conns, flushed'[d]
               PROVE  link'[d] = "closed"
    BY DEF FlushedClosed
  <1>1. link \in [Conns -> {"new", "open", "closed"}] /\ flushed \in [Conns -> BOOLEAN]
    BY DEF Shapes, SessionTypes
  <1>2. flushed[d] => link[d] = "closed"
    BY DEF FlushedClosed
  <1>3. ASSUME NEW c \in Conns, Client(c) PROVE link'[d] = "closed"
    BY <1>1, <1>2, <1>3, ClientStep
       DEF Client, Open, SendEnter, SendStartGame, Close, SendRequest, Send
  <1>4. ASSUME NEW a \in Actors, Command(a) PROVE link'[d] = "closed"
    <2>1. UNCHANGED <<link, flushed>>
      BY <1>4 DEF Command, ReadSocket, CreateSocket, ReadGame, UpdateSocket, UpdateGame, MoveOut,
         ReadTransit, MoveIn, FlushRead, FlushCreate, FlushGame, FlushSocket, Answer, Fail,
         clientVars
    <2> QED BY <1>2, <2>1
  <1>5. ASSUME NEW a \in Actors, NEW c \in Conns, Take(a, c) \/ BeginFlush(a, c)
        PROVE  link'[d] = "closed"
    BY <1>1, <1>2, <1>5 DEF Take, BeginFlush, Disconnected, clientVars
  <1>6. CASE UNCHANGED sessionVars
    BY <1>2, <1>6 DEF sessionVars, clientVars
  <1> QED BY <1>3, <1>4, <1>5, <1>6 DEF Changes, Step

\* What a step that the monitor misses nobody in does to d
FlushStep(d) ==
    /\ Due(d) => Due(d)' \/ \E a \in Actors : BeginFlush(a, d)
    /\ d \in missed /\ ~ flushed[d] => ~ flushed'[d]
    /\ flushed[d] => flushed'[d] /\ ~ \E a \in Actors : BeginFlush(a, d)
    /\ FlushOver(d) => FlushOver(d)'

LEMMA NextFlushStep ==
    ASSUME Shapes, FlushedClosed, [Changes]_sessionVars, missed' = missed, NEW d \in Conns
    PROVE  FlushStep(d)
  <1>1. /\ link \in [Conns -> {"new", "open", "closed"}] /\ flushed \in [Conns -> BOOLEAN]
        /\ progress \in [Conns -> {"connected", "entering", "inside", "leaving", "left"}]
        /\ pending \in [Conns -> Packets \cup {NoPacket}]
    BY DEF Shapes, SessionTypes
  <1>2. flushed[d] => link[d] = "closed"
    BY DEF FlushedClosed
  <1>3. flushed[d] => ~ \E a \in Actors : BeginFlush(a, d)
    BY DEF BeginFlush, Disconnected
  <1>4. WorkedOn(d) <=> \E a \in Actors : On(a, d)
    BY DEF WorkedOn, On, Conn
  <1>5. WorkedOn(d)' <=> \E a \in Actors : On(a, d)'
    BY DEF WorkedOn, On, Conn
  <1>6. ASSUME NEW c \in Conns, Client(c) PROVE FlushStep(d)
    <2>1. link[d] = "closed" =>
            link'[d] = "closed" /\ progress'[d] = progress[d] /\ pending'[d] = pending[d]
      BY <1>1, <1>6 DEF Client, Open, SendEnter, SendStartGame, Close, SendRequest, Send
    <2> QED BY <1>2, <1>3, <1>4, <1>5, <1>6, <2>1, ClientStep DEF FlushStep, Due, FlushOver
  <1>7. ASSUME NEW a \in Actors, Command(a) PROVE FlushStep(d)
    <2>1. UNCHANGED <<link, flushed, pending>>
      BY <1>7 DEF Command, ReadSocket, CreateSocket, ReadGame, UpdateSocket, UpdateGame, MoveOut,
         ReadTransit, MoveIn, FlushRead, FlushCreate, FlushGame, FlushSocket, Answer, Fail,
         clientVars
    <2>2. link[d] = "closed" => progress'[d] = progress[d]
      BY <1>1, <1>7 DEF Command, ReadSocket, CreateSocket, ReadGame, UpdateSocket, UpdateGame,
         MoveOut, ReadTransit, MoveIn, FlushRead, FlushCreate, FlushGame, FlushSocket, Answer,
         Fail, Advance, clientVars
    <2>3. \A b \in Actors : On(b, d)' => On(b, d)
      <3>1. CASE Answer(a) \/ Fail(a)
        BY <3>1, EndStep
      <3>2. ASSUME NEW pc, NEW s, NEW n, Busy(a), To(a, pc, s, n)
            PROVE  \A b \in Actors : On(b, d)' => On(b, d)
        BY <3>2, ToFacts DEF Same
      <3> QED BY <1>7, <3>1, <3>2, CommandCases
    <2> QED BY <1>2, <1>3, <1>4, <1>5, <2>1, <2>2, <2>3 DEF FlushStep, Due, FlushOver
  <1>8. ASSUME NEW a \in Actors, NEW c \in Conns, Take(a, c) PROVE FlushStep(d)
    <2>1. /\ UNCHANGED <<link, progress, flushed>>
          /\ pending'[d] \in {pending[d], NoPacket}
          /\ pending[d] = NoPacket => d # c
      BY <1>1, <1>8 DEF Take
    <2>2. \A b \in Actors : On(b, d)' => On(b, d) \/ d = c
      BY <1>8, TakeStep, BeginStep DEF KindsOf, Packets
    <2> QED BY <1>2, <1>3, <1>4, <1>5, <2>1, <2>2 DEF FlushStep, Due, FlushOver
  <1>9. ASSUME NEW a \in Actors, NEW c \in Conns, BeginFlush(a, c) PROVE FlushStep(d)
    <2>1. /\ UNCHANGED <<link, progress, pending>> /\ ~ flushed[c]
          /\ d # c => flushed'[d] = flushed[d]
          /\ c \notin missed
          /\ flushed[d] => flushed'[d]
      BY <1>1, <1>9 DEF BeginFlush, Disconnected, clientVars
    <2>2. \A b \in Actors : On(b, d)' => On(b, d) \/ d = c
      BY <1>9, BeginFlushStep, BeginStep
    <2> QED BY <1>3, <1>4, <1>5, <1>9, <2>1, <2>2 DEF FlushStep, Due, FlushOver
  <1>10. CASE UNCHANGED sessionVars
    <2>1. UNCHANGED <<link, progress, flushed, pending, task>>
      BY <1>10 DEF sessionVars, clientVars
    <2> QED BY <1>3, <2>1 DEF FlushStep, Due, FlushOver, WorkedOn, Busy
  <1> QED BY <1>6, <1>7, <1>8, <1>9, <1>10 DEF Changes, Step

\* The event server takes up no connection.
LEMMA NextStaysFlushed ==
    ASSUME Shapes, FlushedClosed, [Next]_vars, NEW d \in Conns
    PROVE  StaysFlushed(d)
  <1>1. flushed[d] => ~ \E a \in Actors : BeginFlush(a, d)
    BY DEF BeginFlush, Disconnected
  <1>2. CASE [Changes]_sessionVars /\ missed' = missed
    BY <1>2, NextFlushStep DEF FlushStep, StaysFlushed
  <1>3. ASSUME NEW a \in Actors, NEW c \in Conns, Miss(a, c) PROVE StaysFlushed(d)
    <2>1. missed' = missed \cup {c} /\ UNCHANGED <<link, progress, flushed, pending, task>>
      BY <1>3 DEF Miss, sessionVars, clientVars
    <2> QED BY <1>1, <1>3, <2>1 DEF StaysFlushed, Due, FlushOver, WorkedOn, Busy
  <1>4. ASSUME NEW c \in Conns, Recreate(c) PROVE StaysFlushed(d)
    <2>1. UNCHANGED <<missed, link, progress, flushed, pending, task>>
      BY <1>4 DEF Recreate, clientVars
    <2> QED BY <1>1, <2>1 DEF StaysFlushed, Due, FlushOver, WorkedOn, Busy
  <1> QED BY <1>2, <1>3, <1>4
      DEF Next, Thread, Changes, EventServer, Meet, FindMissing, vars

\* With any number of workers every task, that of a flush in particular, is over
\* after a bounded number of commands of its own thread, which nobody else
\* takes away or adds to.
THEOREM TasksEnd ==
    Spec => /\ [](\A a \in Actors : CommandsLeft(a) \in Nat)
            /\ [][\A a \in Actors : Works(a)]_vars
  <1> DEFINE Nats == \A a \in Actors : CommandsLeft(a) \in Nat
             Work == \A a \in Actors : Works(a)
  <1>1. Shapes => Nats
    BY LeftNat
  <1>2. Shapes /\ [Next]_vars => Shapes' /\ [Work]_vars
    <2>1. ASSUME Shapes, NEW c \in Conns, Recreate(c), NEW a \in Actors PROVE Works(a)
      BY <2>1, CommandLeft DEF Recreate, Works
    <2> QED BY <2>1, NextWorks, NextCases, StepShapes
  <1> HIDE DEF Nats, Work
  <1>3. Spec => []Nats /\ [][Work]_vars
    BY <1>1, <1>2, InitShapes, PTL DEF Spec
  <1> QED BY <1>3 DEF Nats, Work

\* The disconnection of a client stays to be read until its monitor reads it,
\* which either misses the client, that is then never flushed, or flushes it
\* once and for all: with TasksEnd, what DisconnectedIsFlushed needs besides the
\* fairness of the threads and FlushLogsOut.
THEOREM FlushIsFinal == Spec => [][\A c \in Conns : StaysFlushed(c)]_vars
  <1>1. Init => Shapes /\ FlushedClosed
    BY InitShapes DEF Init, FlushedClosed
  <1>2. Shapes /\ FlushedClosed /\ [Next]_vars => [\A c \in Conns : StaysFlushed(c)]_vars
    BY NextStaysFlushed
  <1>3. Shapes /\ FlushedClosed /\ [Next]_vars => FlushedClosed'
    <2>1. ASSUME FlushedClosed, NEW c \in Conns, Recreate(c) PROVE FlushedClosed'
      BY <2>1 DEF FlushedClosed, Recreate, clientVars
    <2> QED BY <2>1, NextFlushedClosed, NextCases
  <1> QED BY <1>1, <1>2, <1>3, StepShapes, PTL DEF Spec
=============================================================================
