------------------------------ MODULE Sessions ------------------------------
(***************************************************************************)
(* The sessions of the players in Redis (Common/Redis/Fields), as the      *)
(* workers of a barrack and of a zone server, the Router monitors of both  *)
(* and the event server of the zone change them.                           *)
(*                                                                         *)
(* Redis runs one command at a time, but a session is two keys (the socket *)
(* session and the game session) and every operation on it several         *)
(* commands: each command is one action here, and the commands of          *)
(* different threads interleave.  Redis itself does not fail.              *)
(*                                                                         *)
(* A player connects to the barrack server, logs in, moves on to the zone  *)
(* server and connects there.  Clients of the players in Abrupt may close  *)
(* a connection at any time and name another login, the others close it    *)
(* only when everything they sent has been dealt with.                     *)
(***************************************************************************)
EXTENDS Naturals, FiniteSets

CONSTANTS
    Players,       \* each with the account its login generates
    NoAccount,     \* SOCKET_SESSION_UNDEFINED_ACCOUNT
    Absent,        \* a key that does not exist
    WorkersCount,  \* workers of each server
    Abrupt,        \* the players whose client may quit at any time
    MaxRequests    \* bound: MaxRequests[p], the packets p sends inside the servers

ASSUME PlayersAssumption == NoAccount \notin Players /\ Abrupt \subseteq Players
ASSUME WorkersCountAssumption == WorkersCount \in Nat \ {0}
ASSUME MaxRequestsAssumption == MaxRequests \in [Players -> Nat]

VARIABLES
    \* --- the clients
    link,       \* link[c]: "new", "open" or "closed"
    progress,   \* progress[c]: how far the client of c has come
    requests,   \* requests[p]: packets p has sent while inside
    pending,    \* pending[c]: the packet of c no worker has taken yet
    \* --- the servers
    task,       \* task[a]: what worker or monitor a is doing
    flushed,    \* flushed[c]: the monitor has begun to flush c
    missed,     \* the connections that closed before the monitor knew them
    \* --- the event server of the zone
    running,    \* its loop runs
    met,        \* the connections it has linked to a neighbour
    creating,   \* the one whose socket session it has found missing, if any
    \* --- Redis
    socket,     \* socket[c]: the socket session
    game,       \* game[k]: the game session under key k
    \* --- history
    applied     \* applied[p]: changes to the game session of p made so far

clientVars == <<link, progress, requests, pending>>
redisVars == <<socket, game>>
sessionVars == <<clientVars, task, flushed, redisVars, applied>>
eventVars == <<running, met, creating>>
vars == <<sessionVars, missed, eventVars>>

Servers == {"barrack", "zone"}
Conns == Players \X Servers
PlayerOf(c) == c[1]
ServerOf(c) == c[2]

\* Actor 0 of a server is its monitor, the others are its workers.
Actors == Servers \X (0..WorkersCount)
IsMonitor(a) == a[2] = 0

\* SOCKET_SESSION_UNDEFINED_MAP, and the map of every new commander
Maps == {"undefined", "field"}
Accounts == Players \cup {NoAccount}
GameKeys == Servers \X Maps \X Accounts

\* MUTANT of SocketSession: the fields are taken in the wrong order.
SocketSession_Swapped(map, account, authenticated) ==
    [map |-> account, account |-> map, authenticated |-> authenticated]

SocketSession(map, account, authenticated) ==
    [map |-> map, account |-> account, authenticated |-> authenticated]
NewSocketSession == SocketSession("undefined", NoAccount, FALSE)

\* What is stored under the key of a connection and under that of a game
Sockets == [map : Maps, account : Accounts, authenticated : BOOLEAN]
Games == [owner : Conns, changes : Nat]

ASSUME AbsentAssumption == Absent \notin Sockets /\ Absent \notin Games

\* The key of the game session a socket session names
GameKey(c, s) == <<ServerOf(c), s.map, s.account>>

\* Where the barrack leaves the game session for the zone server
TransitKey(account) == <<"zone", "undefined", account>>

Packets == {"login", "update", "query", "startGame", "connect"}
NoPacket == "none"

NoTask == [kind |-> "none"]

\* Actor a is about to issue command pc for connection c; s is its copy of the
\* socket session, n the changes its copy of the game session contains.
Task(c, kind, pc, s, n) ==
    [conn |-> c, kind |-> kind, pc |-> pc, session |-> s, changes |-> n]

Busy(a) == task[a] # NoTask
At(a, pc) == Busy(a) /\ task[a].pc = pc
Conn(a) == task[a].conn
WorkedOn(c) == \E a \in Actors : Busy(a) /\ task[a].conn = c

Init ==
    /\ link = [c \in Conns |-> "new"]
    /\ progress = [c \in Conns |-> "connected"]
    /\ requests = [p \in Players |-> 0]
    /\ pending = [c \in Conns |-> NoPacket]
    /\ task = [a \in Actors |-> NoTask]
    /\ flushed = [c \in Conns |-> FALSE]
    /\ socket = [c \in Conns |-> Absent]
    /\ game = [k \in GameKeys |-> Absent]
    /\ applied = [p \in Players |-> 0]
    /\ missed = {}
    /\ running = TRUE
    /\ met = {}
    /\ creating = {}

(***************************************************************************)
(* The clients                                                             *)
(***************************************************************************)

\* The client connects to the zone server once it was told to start the game.
Open(c) ==
    /\ link[c] = "new"
    /\ ServerOf(c) = "zone" => progress[<<PlayerOf(c), "barrack">>] = "left"
    /\ link' = [link EXCEPT ![c] = "open"]
    /\ UNCHANGED <<progress, requests, pending, task, flushed, redisVars, applied>>

Send(c, packet) ==
    /\ link[c] = "open"
    /\ pending[c] = NoPacket
    /\ pending' = [pending EXCEPT ![c] = packet]
    /\ UNCHANGED <<link, task, flushed, redisVars, applied>>

\* CB_LOGIN or CZ_CONNECT
SendEnter(c) ==
    /\ progress[c] = "connected"
    /\ Send(c, IF ServerOf(c) = "barrack" THEN "login" ELSE "connect")
    /\ progress' = [progress EXCEPT ![c] = "entering"]
    /\ UNCHANGED requests

\* A packet whose handler changes the session, or one whose handler does not
SendRequest(c, packet) ==
    /\ progress[c] = "inside"
    /\ packet \in {"update", "query"}
    /\ requests[PlayerOf(c)] < MaxRequests[PlayerOf(c)]
    /\ Send(c, packet)
    /\ requests' = [requests EXCEPT ![PlayerOf(c)] = @ + 1]
    /\ UNCHANGED progress

SendStartGame(c) ==
    /\ ServerOf(c) = "barrack"
    /\ progress[c] = "inside"
    /\ Send(c, "startGame")
    /\ progress' = [progress EXCEPT ![c] = "leaving"]
    /\ UNCHANGED requests

Close(c) ==
    /\ link[c] = "open"
    /\ PlayerOf(c) \in Abrupt \/ (pending[c] = NoPacket /\ ~ WorkedOn(c))
    /\ link' = [link EXCEPT ![c] = "closed"]
    /\ UNCHANGED <<progress, requests, pending, task, flushed, redisVars, applied>>

(***************************************************************************)
(* Worker_processClientPacket                                              *)
(***************************************************************************)

\* A worker takes the next packet of c.
Take(a, c) ==
    /\ ~ IsMonitor(a)
    /\ ~ Busy(a)
    /\ ServerOf(c) = a[1]
    /\ pending[c] # NoPacket
    /\ task' = [task EXCEPT ![a] =
                  Task(c, pending[c], "readSocket", NewSocketSession, 0)]
    /\ pending' = [pending EXCEPT ![c] = NoPacket]
    /\ UNCHANGED <<link, progress, requests, flushed, redisVars, applied>>

\* The next command of a, with its copies of the session
Continue(a, pc, s, n) ==
    task' = [task EXCEPT ![a] = Task(Conn(a), task[a].kind, pc, s, n)]

GoTo(a, pc) == Continue(a, pc, task[a].session, task[a].changes)

(***************************************************************************)
(* The handlers: each runs on the session s that was read and issues its   *)
(* first command, which is the first of Redis_updateSession if it only     *)
(* changes the session.                                                    *)
(***************************************************************************)

\* BarrackHandler_login and BarrackHandler_loginByPassport
Login(a, s, n) ==
    /\ task[a].kind = "login"
    /\ Continue(a, "putSocket",
                SocketSession(s.map, PlayerOf(Conn(a)), TRUE), n)

\* A handler that changes the game session, as BarrackHandler_commanderMove
\* and ZoneHandler_keyboardMove
UpdateRequest(a, s, n) ==
    task[a].kind = "update" /\ Continue(a, "putSocket", s, n + 1)

\* A handler that only answers, as BarrackHandler_startBarrack
QueryRequest(a, s, n) ==
    task[a].kind = "query" /\ Continue(a, "answer", s, n)

\* BarrackHandler_startGame
StartGame(a, s, n) ==
    task[a].kind = "startGame" /\ Continue(a, "moveOut", s, n)

\* ZoneHandler_connect
ConnectZone(a, s, n) ==
    task[a].kind = "connect" /\ Continue(a, "readTransit", s, n)

Handle(a, s, n) ==
    \/ Login(a, s, n)
    \/ UpdateRequest(a, s, n)
    \/ QueryRequest(a, s, n)
    \/ StartGame(a, s, n)
    \/ ConnectZone(a, s, n)

(***************************************************************************)
(* Redis_getSession                                                        *)
(***************************************************************************)

\* HMGET of the socket session.  A session that does not exist is created.
ReadSocket(a) ==
    LET s == socket[Conn(a)]
    IN /\ At(a, "readSocket")
       /\ \/ /\ s = Absent
             /\ Continue(a, "createSocket", NewSocketSession, 0)
          \/ /\ s # Absent /\ s.authenticated
             /\ Continue(a, "readGame", s, 0)
          \/ /\ s # Absent /\ ~ s.authenticated
             /\ Handle(a, s, 0)
       /\ UNCHANGED <<clientVars, flushed, redisVars, applied>>

PutSocket(c, s) == socket' = [socket EXCEPT ![c] = s]

CreateSocket(a) ==
    /\ At(a, "createSocket")
    /\ PutSocket(Conn(a), NewSocketSession)
    /\ Handle(a, NewSocketSession, 0)
    /\ UNCHANGED <<clientVars, flushed, game, applied>>

\* HMGET of the game session; the packet fails without it.
ReadGame(a) ==
    LET g == game[GameKey(Conn(a), task[a].session)]
    IN /\ At(a, "readGame")
       /\ \/ g = Absent /\ GoTo(a, "fail")
          \/ g # Absent /\ Handle(a, task[a].session, g.changes)
       /\ UNCHANGED <<clientVars, flushed, redisVars, applied>>

(***************************************************************************)
(* Redis_updateSession: first the socket, then the game session            *)
(***************************************************************************)
UpdateSocket(a) ==
    /\ At(a, "putSocket")
    /\ PutSocket(Conn(a), task[a].session)
    /\ GoTo(a, "putGame")
    /\ UNCHANGED <<clientVars, flushed, game, applied>>

UpdateGame(a) ==
    LET account == task[a].session.account
    IN /\ At(a, "putGame")
       /\ game' = [game EXCEPT ![GameKey(Conn(a), task[a].session)] =
                     [owner |-> Conn(a), changes |-> task[a].changes]]
       /\ applied' = [p \in Players |->
                        IF p = account /\ task[a].kind = "update"
                        THEN applied[p] + 1 ELSE applied[p]]
       /\ GoTo(a, "answer")
       /\ UNCHANGED <<clientVars, flushed, socket>>

(***************************************************************************)
(* Redis_moveGameSession                                                   *)
(***************************************************************************)

\* MUTANT of Rename: the source key stays.
Rename_Copies(from, to) ==
    /\ game[from] # Absent
    /\ game' = [game EXCEPT ![to] = game[from]]

\* RENAME fails if there is no source.
Rename(from, to) ==
    /\ game[from] # Absent
    /\ game' = [k \in GameKeys |-> IF k = to THEN game[from]
                                   ELSE IF k = from THEN Absent ELSE game[k]]

\* BarrackHandler_startGame: moved, the session is deleted from the barrack.
MoveOut(a) ==
    LET from == GameKey(Conn(a), task[a].session)
        to == TransitKey(task[a].session.account)
    IN /\ At(a, "moveOut")
       /\ \/ Rename(from, to) /\ GoTo(a, "flushRead")
          \/ game[from] = Absent /\ GoTo(a, "fail") /\ UNCHANGED game
       /\ UNCHANGED <<clientVars, flushed, socket, applied>>

\* MUTANT of ReadTransit: the handler goes on with an empty game session.
ReadTransit_ForgetsGame(a) ==
    LET account == PlayerOf(Conn(a))
    IN /\ At(a, "readTransit")
       /\ \/ /\ game[TransitKey(account)] = Absent
             /\ GoTo(a, "fail")
          \/ /\ game[TransitKey(account)] # Absent
             /\ Continue(a, "moveIn", SocketSession("field", account, TRUE), 0)
       /\ UNCHANGED <<clientVars, flushed, redisVars, applied>>

\* ZoneHandler_connect, for the account the client names; it fails if the client
\* names another login than that of the game session.
ReadTransit(a) ==
    LET account == PlayerOf(Conn(a))
        g == game[TransitKey(account)]
    IN /\ At(a, "readTransit")
       /\ \/ (g = Absent \/ account \in Abrupt) /\ GoTo(a, "fail")
          \/ /\ g # Absent
             /\ Continue(a, "moveIn", SocketSession("field", account, TRUE), g.changes)
       /\ UNCHANGED <<clientVars, flushed, redisVars, applied>>

MoveIn(a) ==
    LET from == TransitKey(task[a].session.account)
        to == GameKey(Conn(a), task[a].session)
    IN /\ At(a, "moveIn")
       /\ \/ Rename(from, to) /\ GoTo(a, "putSocket")
          \/ game[from] = Absent /\ GoTo(a, "fail") /\ UNCHANGED game
       /\ UNCHANGED <<clientVars, flushed, socket, applied>>

(***************************************************************************)
(* Redis_flushSession, of PACKET_HANDLER_DELETE_SESSION and of the monitor *)
(***************************************************************************)

\* Monitor a receives the DISCONNECTED of c.
Disconnected(a, c) ==
    /\ IsMonitor(a)
    /\ ~ Busy(a)
    /\ ServerOf(c) = a[1]
    /\ link[c] = "closed"
    /\ progress[c] # "connected"
    /\ ~ flushed[c] /\ c \notin missed

\* MUTANT of BeginFlush: the monitor also flushes a client that is connected.
BeginFlush_AnyClient(a, c) ==
    /\ IsMonitor(a)
    /\ ~ Busy(a)
    /\ ServerOf(c) = a[1]
    /\ progress[c] # "connected"
    /\ ~ flushed[c]
    /\ flushed' = [flushed EXCEPT ![c] = TRUE]
    /\ task' = [task EXCEPT ![a] = Task(c, "flush", "flushRead", NewSocketSession, 0)]
    /\ UNCHANGED <<clientVars, redisVars, applied>>

\* RouterMonitor_monitor, of a client that has sent something: the client of the
\* entry under the descriptor is flushed.
BeginFlush(a, c) ==
    /\ Disconnected(a, c)
    /\ flushed' = [flushed EXCEPT ![c] = TRUE]
    /\ task' = [task EXCEPT ![a] = Task(c, "flush", "flushRead", NewSocketSession, 0)]
    /\ UNCHANGED <<clientVars, redisVars, applied>>

\* The ADD_FD of c, which comes through another socket, has not been read yet:
\* there is no entry under the descriptor, and nothing is flushed.
Miss(a, c) ==
    /\ Disconnected(a, c)
    /\ missed' = missed \cup {c}
    /\ UNCHANGED <<sessionVars, eventVars>>

FlushRead(a) ==
    LET s == socket[Conn(a)]
    IN /\ At(a, "flushRead")
       /\ \/ s = Absent /\ Continue(a, "flushCreate", NewSocketSession, 0)
          \/ s # Absent /\ Continue(a, "flushGame", s, 0)
       /\ UNCHANGED <<clientVars, flushed, redisVars, applied>>

FlushCreate(a) ==
    /\ At(a, "flushCreate")
    /\ PutSocket(Conn(a), NewSocketSession)
    /\ GoTo(a, "flushGame")
    /\ UNCHANGED <<clientVars, flushed, game, applied>>

\* MUTANT of FlushGame: the key is that of the session in transit.
FlushGame_WrongKey(a) ==
    /\ At(a, "flushGame")
    /\ game' = [game EXCEPT ![TransitKey(task[a].session.account)] = Absent]
    /\ GoTo(a, "flushSocket")
    /\ UNCHANGED <<clientVars, flushed, socket, applied>>

FlushGame(a) ==
    /\ At(a, "flushGame")
    /\ game' = [game EXCEPT ![GameKey(Conn(a), task[a].session)] = Absent]
    /\ GoTo(a, "flushSocket")
    /\ UNCHANGED <<clientVars, flushed, socket, applied>>

\* MUTANT of FlushSocket: the socket session stays.
FlushSocket_Keeps(a) ==
    /\ At(a, "flushSocket")
    /\ GoTo(a, "answer")
    /\ UNCHANGED <<clientVars, flushed, redisVars, applied>>

FlushSocket(a) ==
    /\ At(a, "flushSocket")
    /\ PutSocket(Conn(a), Absent)
    /\ GoTo(a, "answer")
    /\ UNCHANGED <<clientVars, flushed, game, applied>>

(***************************************************************************)
(* The end of a task                                                       *)
(***************************************************************************)

\* The client goes on when it gets the answer to what it waits for.
Advance(a) ==
    progress' = [progress EXCEPT ![Conn(a)] =
        IF link[Conn(a)] # "open" THEN @
        ELSE IF task[a].kind \in {"login", "connect"} THEN "inside"
        ELSE IF task[a].kind = "startGame" THEN "left"
        ELSE @]

Answer(a) ==
    /\ At(a, "answer")
    /\ Advance(a)
    /\ task' = [task EXCEPT ![a] = NoTask]
    /\ UNCHANGED <<link, requests, pending, flushed, redisVars, applied>>

\* ERROR, or no header at all: the client gets nothing.
Fail(a) ==
    /\ At(a, "fail")
    /\ task' = [task EXCEPT ![a] = NoTask]
    /\ UNCHANGED <<clientVars, flushed, redisVars, applied>>

(***************************************************************************)
(* The event server, which handles the events of the players one by one    *)
(* (module EventServer): it reads the sessions of those who enter or leave *)
(* the screen of the player of the event.  Only what it finds missing does *)
(* it change.  The key it creates for an identity of the barrack's is that *)
(* of no connection to the zone, and left out.                             *)
(***************************************************************************)

\* It handles an event of another player than that of c, dispatched by the
\* handler of a packet.
Handles(c) ==
    /\ running /\ creating = {}
    /\ ServerOf(c) = "zone"
    /\ \E p \in Players \ {PlayerOf(c)} :
         progress[<<p, "zone">>] = "inside" /\ requests[p] > 0

\* EventServer_linkClients: c was close to that player when its game session was
\* read.
Meet(c) ==
    /\ Handles(c)
    /\ \E k \in GameKeys :
         k[1] = "zone" /\ k[2] = "field" /\ game[k] # Absent /\ game[k].owner = c
    /\ met' = met \cup {c}
    /\ UNCHANGED <<sessionVars, missed, running, creating>>

\* HMGET of Redis_getGameSessionBySocketId finds no socket session of c.
FindMissing(c) ==
    /\ Handles(c)
    /\ c \in met
    /\ socket[c] = Absent
    /\ creating' = {c}
    /\ UNCHANGED <<sessionVars, missed, running, met>>

\* MUTANT of Recreate: it creates the session of a client that is logged in.
Recreate_LoggedIn(c) ==
    /\ c \in creating
    /\ PutSocket(c, SocketSession("field", PlayerOf(c), TRUE))
    /\ creating' = {} /\ met' = {} /\ running' = FALSE
    /\ UNCHANGED <<clientVars, task, flushed, game, applied, missed>>

\* It creates the session, and looks for the game session this one names.  If
\* there is none, which can be no player's, its handler fails and the loop ends.
Recreate(c) ==
    LET found == game[GameKey(c, NewSocketSession)] # Absent
    IN /\ c \in creating
       /\ PutSocket(c, NewSocketSession)
       /\ creating' = {}
       /\ running' = found
       /\ met' = {d \in met : found}
       /\ UNCHANGED <<clientVars, task, flushed, game, applied, missed>>

EventServer(c) == Meet(c) \/ FindMissing(c) \/ Recreate(c)

(***************************************************************************)
(* Specification                                                           *)
(***************************************************************************)
Command(a) ==
    \/ ReadSocket(a) \/ CreateSocket(a) \/ ReadGame(a)
    \/ UpdateSocket(a) \/ UpdateGame(a)
    \/ MoveOut(a) \/ ReadTransit(a) \/ MoveIn(a)
    \/ FlushRead(a) \/ FlushCreate(a) \/ FlushGame(a) \/ FlushSocket(a)
    \/ Answer(a) \/ Fail(a)

Client(c) ==
    Open(c) \/ SendEnter(c) \/ SendStartGame(c) \/ Close(c)
    \/ \E packet \in Packets : SendRequest(c, packet)

\* What a worker or a monitor does to the sessions: the next command of its
\* task, or a new task.
Step(a) == Command(a) \/ \E c \in Conns : Take(a, c) \/ BeginFlush(a, c)

Thread(a) ==
    \/ Step(a) /\ UNCHANGED <<missed, eventVars>>
    \/ \E c \in Conns : Miss(a, c)

Next ==
    \/ \E c \in Conns : Client(c) /\ UNCHANGED <<missed, eventVars>>
    \/ \E a \in Actors : Thread(a)
    \/ \E c \in Conns : EventServer(c)

\* As long as a worker or a monitor has something to do, one of them proceeds:
\* they are scheduled, and Redis answers.
Fairness == WF_vars(\E a \in Actors : Thread(a))

Spec == Init /\ [][Next]_vars
FairSpec == Spec /\ Fairness

(***************************************************************************)
(* Properties                                                              *)
(***************************************************************************)
Commands == {"readSocket", "createSocket", "readGame", "putSocket", "putGame",
             "moveOut", "readTransit", "moveIn", "flushRead", "flushCreate",
             "flushGame", "flushSocket", "answer", "fail"}

SessionTypes ==
    /\ link \in [Conns -> {"new", "open", "closed"}]
    /\ progress \in [Conns -> {"connected", "entering", "inside", "leaving", "left"}]
    /\ requests \in [Players -> Nat]
    /\ pending \in [Conns -> Packets \cup {NoPacket}]
    /\ task \in [Actors -> {NoTask} \cup
                   [conn : Conns, kind : Packets \cup {"flush"}, pc : Commands,
                    session : Sockets, changes : Nat]]
    /\ flushed \in [Conns -> BOOLEAN]
    /\ socket \in [Conns -> Sockets \cup {Absent}]
    /\ game \in [GameKeys -> Games \cup {Absent}]
    /\ applied \in [Players -> Nat]

\* Every variable keeps its type: what is stored under a socket key is a
\* socket session, under a game key a game session.
TypeOK ==
    /\ SessionTypes
    /\ missed \subseteq Conns
    /\ running \in BOOLEAN
    /\ met \subseteq Conns
    /\ creating \subseteq Conns

Homes(p) == {k \in GameKeys : k[3] = p /\ game[k] # Absent}

\* Whatever the servers and the monitors interleave, the game session of a
\* player is never in two places.
OneGameSession == \A p \in Players : Cardinality(Homes(p)) <= 1

\* The game session contains every change a packet of the player made: none is
\* overwritten by an older copy, in particular not by the handover.
NoLostUpdate ==
    \A p \in Players : \A k \in Homes(p) : game[k].changes = applied[p]

\* An authenticated socket session names a game session, which names the
\* socket, whenever no thread works on it: otherwise no packet of that client
\* could be processed any more.
SocketHasGame ==
    \A c \in Conns :
        socket[c] # Absent /\ socket[c].authenticated /\ ~ WorkedOn(c) =>
            LET g == game[GameKey(c, socket[c])] IN g # Absent /\ g.owner = c

\* A player who was told to start the game finds the game session at the zone
\* server, although the barrack's session is flushed meanwhile.
HandoverKept ==
    \A p \in Players :
        /\ progress[<<p, "barrack">>] = "left"
        /\ progress[<<p, "zone">>] = "connected"
        => game[TransitKey(p)] # Absent

\* No game session of connection c is left at its server.
NoGame(c) ==
    \A k \in GameKeys : k[1] = ServerOf(c) /\ game[k] # Absent => game[k].owner # c

FlushOver(c) == flushed[c] /\ ~ WorkedOn(c) /\ pending[c] = NoPacket

\* "session successfully flushed": nothing of a client is left when the flush
\* of its connection is over.
FlushedIsGone == \A c \in Conns : FlushOver(c) => socket[c] = Absent /\ NoGame(c)

\* Nobody is logged in through c: there is no game session of it, and no socket
\* session but the new one the event server may have made in its place.
LoggedOut(c) ==
    /\ NoGame(c)
    /\ \/ socket[c] = Absent
       \/ ServerOf(c) = "zone" /\ socket[c] = NewSocketSession

\* When the flush of its connection is over, a client that has not quit while a
\* packet was outstanding is logged out for good, although the workers, the
\* monitors and the event server read and write its sessions meanwhile.
PoliteFlushLogsOut ==
    \A c \in Conns : PlayerOf(c) \notin Abrupt /\ FlushOver(c) => LoggedOut(c)

\* Where the game session of p is
Place(p) ==
    IF game[<<"zone", "field", p>>] # Absent THEN "zone"
    ELSE IF game[TransitKey(p)] # Absent THEN "transit"
    ELSE IF game[<<"barrack", "undefined", p>>] # Absent THEN "barrack"
    ELSE "nowhere"

\* The game session of such a client goes from the barrack through transit to
\* the zone, never back, and only ends after its connection there has closed.
LifeCycle ==
    [][\A p \in Players \ Abrupt :
         Place(p)' # Place(p) =>
            \/ <<Place(p), Place(p)'>> \in {<<"nowhere", "barrack">>,
                                            <<"barrack", "transit">>,
                                            <<"transit", "zone">>}
            \/ /\ Place(p) \in {"barrack", "zone"}
               /\ Place(p)' = "nowhere"
               /\ link[<<p, Place(p)>>] = "closed"]_vars

\* The monitor reads of each disconnection sooner or later, and a client it
\* knew by then is logged out and stays so.  One it did not know is never
\* flushed.
DisconnectedIsFlushed ==
    []<>(\A c \in Conns :
           PlayerOf(c) \notin Abrupt /\ link[c] = "closed" /\ progress[c] # "connected"
           => c \in missed \/ (FlushOver(c) /\ LoggedOut(c)))
=============================================================================
