# R1EMU in TLA+

A formal model of R1EMU (`src/server/R1EMU`), the server of this repository: how
its load balancer hands packets to worker threads, how it keeps the sessions of
the players in Redis while several threads and servers change them, how it
notices that a client has gone, how the event server of a zone decides which
players see each other, what a message of several requests changes and answers,
and how the servers are started, and started again. TLC checks the models on
small instances. TLAPS proves every invariant, every action property and both
refinements that the passing runs check, for every value of the constants or under
conditions it names (as one worker or distinct keys), and of every liveness property
the part that needs no fairness; the rest is left to TLC.

## The system

R1EMU is a set of server processes (a global server, a barrack, a social and
several zone servers). Each process has the same anatomy:

    game clients --TCP--> Router frontend --(ROUTER/REQ)--> Worker 0..n-1 --> Redis
                              |   ^                             |
                   socket     |   | answers, multicasts         | events (PUB/SUB)
                   events,    v   |                             v
                   ADD_FD   RouterMonitor --flush--> Redis   EventServer <--read-- Redis

| component | state it keeps | operations | modelled in |
|---|---|---|---|
| Router (`Common/Server/Router.c`) | workers with identity and current client, list of ready workers, overload index, count of READY | one handler per message of a worker and per packet of a client | `Router` |
| Worker (`Common/Server/Worker.c`) | nothing between messages; during one a copy of the session and the reply | receive, read session, handle each sub-packet, update session, answer; dispatch an event | `Router` (the handshake), `Sessions` and `EventServer` (the commands), `ClientMessage` (one message from begin to end) |
| RouterMonitor (`Common/Server/RouterMonitor.c`) | hashtable from descriptor to identity | read a socket event, read an ADD_FD message, flush a session | `RouterMonitor` (the table), `Sessions` (the flush) |
| Redis sessions (`Common/Redis/Fields`) | a socket session per connection, a game session per account | get, update, move, flush, by socket id, within a distance | `Sessions`, `ClientMessage`, `EventServer` |
| BarrackHandler (`BarrackServer/BarrackHandler`) | fields of the session | one handler per packet type | `ClientMessage` (checks, fields, answers), `Sessions` (commands) |
| ZoneHandler (`ZoneServer/ZoneHandler`) | fields of the session | one handler per packet type | `Sessions`, `EventServer`, by their effect on the session and the events they send |
| EventServer, EventHandler, Graph | graph of the clients, a mark per node | one handler per kind of event | `EventServer` |
| GlobalServer, Server, ServerFactory (`GlobalServer`, `ZoneServer/main.c`, `Common/Server`) | configuration, process handles, ports | flush Redis, create the processes, start their threads, open their ports | `Cluster` |
| SocialHandler, AdminCmd, builders, Packet, Crypto, utilities | none that another component reads | fill packets, convert | not modelled |

How they interact, and what is hard about it:

* The Router is one reactor thread. It and the workers only share sockets, so
  each Router handler is one atomic step, and everything that can go wrong is in
  the order of messages: a worker registered or not, an owner that is forgotten
  while packets of its client wait, an overload worker with packets of several
  clients, of which it remembers one, and the REQ sockets of the workers, which
  discard what has arrived when they send.
* The monitor hears of a client through two sockets, the socket events of the
  frontend and the ADD_FD messages of the Router, which are not ordered with
  respect to each other.
* Redis executes one command at a time, but a session is two keys. A request is
  several commands, and so is a flush. Workers of two servers, two monitors and
  the event server interleave their commands; nothing locks a session. A monitor
  that hears of a disconnection before it knows the client flushes nothing, and
  reading a socket session that is missing creates it.
* The event server compares the positions in Redis, read one at a time, with its
  own graph while workers keep changing positions and monitors remove sessions.
  The event of a change is sent before the change is written.
* A worker runs all the requests of a message on one copy of the session. A
  request may be refused after it has changed the copy, Redis may refuse the
  update or be gone, and the answer was put into the reply before.
* A server is five kinds of threads that start each other and depend on MySQL
  and Redis; it outlives the GlobalServer that created it, and the next
  GlobalServer creates servers with the same ports and router ids on the same
  Redis, which it flushes before it knows whether it is the only one.

What makes the components correct:

* Router: a packet is served at most once, by one worker; its answer is sent at
  most once and after it was served; no packet stays with a worker for ever; a
  worker without work is available; with one worker the order of a client's
  packets is kept.
* RouterMonitor: only sessions of disconnected clients are flushed; a known
  client that disconnects is flushed; the monitor does not stop.
* Sessions: the game session of a player exists once, follows its life cycle,
  loses no change, survives the handover between servers, and is gone after the
  client was flushed; a flushed client is logged in nowhere.
* Messages: what is stored of an account changes by whole requests; what a client
  is told is what is stored; no sequence of requests locks a client out; what
  has gone to the zone does not come back.
* Starting: no port is open before the server is complete; one server per router
  id; a server meets no sessions but those of its own clients, and nothing but
  the flush of another GlobalServer takes those away; every server that was
  created serves or ends.
* EventServer: seeing is mutual; every client's screen is its neighbours in the
  graph; when things are quiet two players are neighbours exactly as one of them
  sees it; its loop ends for nobody who has arrived and stays.

The behaviours that are hard to test are listed in `PROJECT.json` under
`hazards`, each with its line and the properties about it.

## The modules

| module | contents |
|---|---|
| `RequestService` | abstract: the life of one request (unsent, queued, serving, replying, gone) as a client may count on it, ordered or not |
| `Router` | the Router and the main loops of its workers; implements `RequestService` |
| `MCRouter` | constants for TLC |
| `RouterProofs` | inductive invariant and theorems about `Router` |
| `RouterServiceProofs` | `Router` implements `RequestService`; the order of packets |
| `RouterMonitor`, `MCRouterMonitor`, `RouterMonitorProofs` | the monitor, its constants, its theorems |
| `Sessions`, `MCSessions`, `SessionsProofs` | the sessions of the players in Redis, their constants, their theorems |
| `BarrackAccounts` | abstract: the game sessions of the accounts of a barrack, changed by one whole request at a time |
| `ClientMessage`, `MCClientMessage`, `ClientMessageProofs` | a worker and the messages of one client; implements `BarrackAccounts`; its constants, its theorems |
| `EventServer`, `MCEventServer`, `EventServerProofs` | the event server, its constants, its theorems |
| `EventServerQuietProofs` | the graph is the proximity of the players when all is quiet |
| `Cluster`, `MCCluster`, `ClusterProofs` | the start of GlobalServers and servers, its constants, its theorems |

A definition named `X_Something` after a comment `MUTANT of X` is not part of
the model: it is `X` with a plausible mistake and shows that a property would
notice it.

### Router

State: `curClient`, `readyWorkers`, `overloadWorker`, `workersReadyCount` are
the fields of the Router of the same names; `registered` are the workers whose
`identity.frame` is set. `inbox[w]` and `backend[w]` are the messages on their
way to and from worker `w`; `phase` and `job` are where a worker's loop is.
`status` says whether the frontend is bound and the reactor runs. A packet is
`<<client, n>>`; a message of a worker has a header and a number of data frames.

Actions: `Router_backend` has one disjunct per header (`BackendReady`,
`BackendNormal`, `BackendError`, `BackendUnknown`), `Router_frontend` one per
way a packet is forwarded (`FrontendSticky`, `FrontendReady`,
`FrontendOverload`) or not (`FrontendDiscard`). A worker has `SignalReady`,
`Receive` and `Reply`. `Reply` may answer with any header, since any handler may
fail or its session be missing, and may lose what waits in the socket
(`EatWaiting`): libzmq's REQ socket discards pending messages as it sends. That
is the one assumption about a library; `EatChoices` is the set of what it may
do.

`Service` maps this state to `RequestService`: the stage of a packet is where it
is found (inbox, job, backend), and it is answered when a data frame has been
sent.

### RouterMonitor

State: the operating system's side (`fd`, `live`, `packets`), the two queues
(`events`, `adds`), and the monitor's hashtable `connected`, whether its reactor
runs, and how often it flushed whom. `genKey` is the key made of a descriptor;
`FdKey` is a constant because the format string of the code (`%I64d`) gives
distinct keys with one C library and equal ones with another. `Reuse` says
whether the system uses a descriptor again.

### Sessions

One actor per worker and per monitor of the barrack and of the zone server
(`Actors`); `task[a]` is what it is doing, including its private copy of the
session. Each Redis command is one action (`ReadSocket`, `CreateSocket`,
`ReadGame`, `UpdateSocket`, `UpdateGame`, `MoveOut`, `ReadTransit`,
`MoveIn`, `FlushRead`, `FlushCreate`, `FlushGame`, `FlushSocket`). `Handle` is
the packet handler between the reads and the writes: it changes the copy and
decides which commands follow (`Login`, `UpdateRequest`, `QueryRequest`,
`StartGame`, `ConnectZone`). The contents of a game session are its owner (the
socket id it carries) and the number of changes it contains; `applied` counts
the changes the handlers made, so a lost update is a difference of the two.

A monitor that reads a disconnection either finds the client in its table
(`BeginFlush`) or does not (`Miss`, RouterMonitor.c:227-233): that client is
never flushed, and `missed` remembers it. `RouterMonitor` has the table and the
two queues that decide which of the two happens; here both always may.

The event server of the zone is the third reader of sessions. It reads those of
the neighbours it has linked earlier (`Meet`, `met`), and when the socket session
of such a neighbour is missing (`FindMissing`), because the client was flushed,
it creates it (`Recreate`, EventServer.c:480 and RedisSocketSession.c:78-92). It
then finds no game session and its loop ends. The socket session stays: it names
no account and is not authenticated, and nobody will flush it. `LoggedOut` is
what can therefore be promised of a flushed client: no game session, and no
socket session but such a blank one at the zone. What the event server does
besides is in the module `EventServer`.

Clients in `Abrupt` may close at any moment, and may name another login than
theirs to the zone server (ZoneHandler.c:576-580), the others close only when
nothing of theirs is under way and name their own. Only the latter can count on
a clean flush, see Findings.

### ClientMessage

One worker of the barrack and one client. `socket`, `game` and `transit` are
what Redis has (the keys of one connection and of the accounts it may get),
`reachable` whether the worker still has its connection to Redis: it never
connects again. `session` and `copy` are the worker's copy of the session,
`reply` what the handlers have told the client in this message, `header` the
header of the answer (the Router passes only "normal" ones to the client).

`Receive` and `ReceiveFails` are `Redis_getSession` and the beginning of
`Worker_processClientPacket`; `Process` is one sub-packet: a handler (`Login`,
`StartBarrack`, `BarracknameChange`, `CommanderCreate`, `CommanderDestroy`,
`CommanderMove`, `StartGame`) or a packet that is rejected, together with what
`Worker_processOneRequest` does with its result (`HandlerOk`, `HandlerError`,
`UpdateSession`, and the flush of `StartGame`). `EndOfMessage` and `Reply` end
the message. After the handover the client may send further messages to the
barrack, and log in there again. Only what would follow an accepted CB_START_GAME
in the same message is left out if `StartGameLast` holds: the copy of the session
the worker still has would be written back. A name is a sequence of words, since
the HMSET command is split at blanks: `Hmset` is what the fields contain afterwards, `Accepted` whether Redis
takes the command at all. A game session has the number of commanders, the names
and the job; `CountLimit` is 2^8 in the code.

### Cluster

`global`, `created` and `cli` are the GlobalServers: how far each is, how many
servers it has created, who holds the CLI port. A process is a pair of a
GlobalServer and a server of the configuration; `main`, `monitor` and `event`
are its threads, `connected`, `sent` and `ready` count its workers, `bound` its
ports. `holder` is the process that listens on an endpoint, `store` the process
whose client has a session under a key of Redis, `clients` the connections of a
process. `overlapped` is history: a flush while servers of another GlobalServer
were alive or about to be created.

A GlobalServer is `Launch`, `GlobalConnects`, `FlushRedis`, `BindCli`, `Spawn`,
`Poll`, `StopGlobal`. A process connects its workers one after the other
(`WorkerConnectsMySQL`, `WorkerConnectsRedis`), starts them (`StartServer`,
`WorkerReady`), and with the last READY (`RegisterWorker`) starts the monitor,
waits for it (`MonitorConnectsRedis`, `MonitorConnectsMySQL`, `MonitorIsReady`)
and binds its ports (`BindPort`). `EventServerJoins` is its event server.
`Redis_connect` tries for ever, so its step may happen at any time;
`MySQL_connect` tries once and may fail. `Crash` ends a process at any moment;
its sessions stay in Redis. `Packet` and `Leave` are its clients, as far as the
keys of their sessions go.

### EventServer

Players join the zone, move, stop, jump and talk (`Connect`, `GameReady`,
`KeyboardMove`, `MoveStop`, `Jump`, `Show`); each handler dispatches an event to
`events[w]` and, if it returns PACKET_HANDLER_UPDATE_SESSION, the session is
written in a later step (`Update`). A stop (`MoveStop`) may be anywhere: its
position goes out with the event and is not written. `told[c]` is history, the
position in the last event of `c`. `Connect` moves the game session to the map;
until its update, the session has the position and the identity (`OldIdentity`)
of the barrack. `Quit` removes the session of a client, as
the monitor does. The event server takes an event (`ReceiveUpdate`,
`ReceiveAround`), lists the sessions (`Scan`), reads each position
(`ReadPosition`), compares them with the graph (`Enter`), reads the sessions of
those that entered (`ReadEntered`; `ReadStranger` for one it only has an old
identity of, which fails), finds who left (`Leave`), reads their
sessions (`ReadLeft`) and sends what the player did (`Finish`). `arcs` is the
graph, `around` the mark of a node, `inRange` the list from Redis. `out` is the
packet of the last step, `Multicast` its way through the Router
(`Router_subscribe`) to the clients it names, and `screen[c]` what the game
client of `c` displays as a result of all packets it got.

## What TLC checks

| run | instance | properties |
|---|---|---|
| `router_two` | 2 workers, 3 clients of which one sends 2 packets without waiting, 0 or 1 data frames | types; `OneOwner`; `RegisteredBeforeUse`; `QuietWorkerIsReady`; implements `RequestService`; `EveryPacketSettles` |
| `router_one` | 1 worker, 2 clients with 2 packets each, up to 2 data frames | `PacketOrder`; implements the ordered `RequestService` |
| `router_order` | 2 workers, 1 client with 3 packets | `PacketOrder` is violated |
| `monitor` | 2 connections, 3 descriptors, 2 packets each | types; `NeverFlushesLive`; `MonitorSurvives`; `FlushedOnce`; `KnownClientIsFlushed` |
| `monitor_reuse` | descriptors are used again | `NeverFlushesLive` is violated |
| `monitor_blank` | equal keys | `NeverFlushesLive` is violated |
| `sessions` | 1 player who may quit at any time and sends a request, 1 who waits for every answer; 1 worker and a monitor per server, the event server of the zone | types; `OneGameSession`; `NoLostUpdate`; `SocketHasGame`; `HandoverKept`; `PoliteFlushLogsOut`; `LifeCycle`; `DisconnectedIsFlushed` |
| `sessions_orphan` | 1 player who may quit at any time | `FlushedIsGone` is violated |
| `message` | messages of up to 3 sub-packets, 2 accounts, names of 0 to 3 words, 3 values of the counter, a Redis that may go | types; `AnswerMatchesStore`; `SessionIsReadable`; `LeftStaysLeft`; implements `BarrackAccounts` |
| `events` | 2 players, 1 worker, 2 places out of range of each other, one player may quit | types; `GraphIsMutual`; `ScreensFollowGraph`; `NeighboursAreInRange`; `QuietGraphIsProximity`; `NothingUnseen`; `OnlyChangesEndIt`; `EventsAreHandled` |
| `events_quit` | as above, 1 request | `LeaveGoesOn` is violated |
| `cluster` | 2 GlobalServers; a barrack server with 2 ports and 2 workers is followed; 2 identities | types; `FrontendMeansReady`; `OneServerPerId`; `NoForeignSession`; `OnlyAnotherFlushDrops`; `EveryServerSettles` |

Why the bounds are enough for what the runs ask:

* `router_two`: with three clients both workers can be busy for others when a
  packet comes, so overload happens and its index wraps; the one client that
  sends twice (`Eager`) can have a packet wait behind its own or behind
  another's. Two workers suffice to have an owner and a competitor. The proofs
  cover all sizes.
* `router_one` has both clients pipelining; order is a matter of two packets of
  one client.
* `monitor`: what can go wrong needs two connections and a third descriptor to
  choose; the queues are bounded by the packets.
* `sessions`: interference is between the threads that work on the same player:
  a worker of each server, both monitors and the event server. The second player shows that keys
  do not collide and workers switch between clients; it is the one whose flush
  must be clean (see Findings). One worker per server is what `cfg/server.cfg`
  asks for, and enough to interleave a request with a flush.
* `message`: three sub-packets are a login, a request that is refused after it
  changed the copy, and one that would store it; a counter of three values wraps
  within two messages. Two accounts let the client log in again after the
  handover. Names of two words make the number of arguments of HMSET
  odd, names of three shift the fields and are accepted.
* `cluster`: two GlobalServers give every meeting of an old process and a new
  one. Servers of one configuration share neither a router id nor a port, so one
  followed server has all that can go wrong; the barrack server is taken because
  it has two ports. The proofs cover all sizes.
* `events`: a pair of players shows every relation (entering, leaving, stale
  positions of either). Two requests let a player leave and come back.
  `MaxEvents` makes the queue of a worker short; a worker that would exceed it
  waits.

Runs that bound the number of packets stop when all were sent and therefore do
not check deadlocks, except the runs of the Router, where `Idle` names the
states it may stop in.

Fairness. Weak fairness is asserted of the loops of threads only: each worker's
receive and reply and the Router's reading of a worker's messages (`zmq_poll`
and czmq reactors serve every ready socket), the monitor's two readers, the
workers and monitors of `Sessions` taken together (as long as any of them has
something to do, one proceeds), the event server's loop and the worker's pending write. In
`Cluster` it is asserted of the threads of a process: a step that waits for
Redis happens because it is tried every few seconds for ever, and Redis is there
at one of the attempts; MySQL need not be. Nothing is assumed of clients and
operators: they need not send, connect, quit, start or stop anything.

### Findings

* `router_order`: the Router keeps a client on its worker "so we don't break the
  protocol by processing a packet before another one" (Router.c:534). Packet 2
  of a client is kept with `w0`, which works on packet 1, and waits there. The
  answer to packet 1 makes the Router forget the client of `w0` (Router.c:455),
  although packet 2 still waits. Packet 3 finds no owner, goes to the ready `w1`
  and is processed before `w0` takes packet 2.
* `monitor_reuse`: the ADD_FD of a client may be read after its disconnection,
  which then finds no entry. The late entry stays in the table; when the system uses
  the descriptor again, the disconnection flushes another client's session.
* `monitor_blank`: with glibc, all descriptors have the same key.
* `sessions_orphan`: a worker that is between reading and writing a session when
  it is flushed writes it again; both keys then stay for good.
* `events_quit`: when a neighbour has quit, the handler that finds it is no
  longer around cannot read its session, fails, and ends the loop of the event
  server.

Facts that are modelled without a run of their own:

* An answer may tell what was not stored when Redis fails or a name has several
  words (`AnswerMatchesStore` excludes both). A Redis lost between the writes of
  the two sessions leaves an authenticated socket without a game session
  (`SessionIsReadable` speaks of a Redis that answers).
* A client whose disconnection the monitor reads before its ADD_FD is never
  flushed (`Miss`; the exception `DisconnectedIsFlushed` names, and why
  `KnownClientIsFlushed` asks for a known client).
* The event server creates the socket session of a flushed neighbour again, for
  good, unauthenticated (`Recreate`; the exception `LoggedOut` names).
* A sub-packet after CB_START_GAME in the same message writes the game session
  back to the barrack. Nothing in the code prevents it: with `StartGameLast`
  false TLC finds `LeftStaysLeft`, `SessionIsReadable` and `AnswerMatchesStore`
  violated. `BackOnlyInItsMessage` says that this is the only way back; TLC
  agrees (messages of two sub-packets, `CountLimit` 1, 6.9 million states), and
  it is proved.
* A session left by an old server that outlived a flush is taken over by a client
  of the next one with the same identity (`NoForeignSession` excludes it), and
  the flush of another GlobalServer deletes the sessions of living servers (the
  exception `OnlyAnotherFlushDrops` names).
* A server whose monitor cannot reach MySQL neither serves nor ends (the third
  way to settle in `EveryServerSettles`).
* A player who is just arriving ends the event server if another player's event
  is handled between the move of the game session and its update, and the
  position it had at the barrack is within range (`ReadStranger`, an exception in
  `OnlyChangesEndIt`, as is a client that has quit).
* A worker whose last answer was an ERROR does not come back to the list of ready
  workers and keeps its client (`QuietWorkerIsReady` excludes it).
* The position a player stops at is sent but not written to the session. If it is
  not where its last move ended, two neighbours may see their distance
  differently, and who handles the last event decides. `QuietGraphIsProximity`
  says of every pair that the graph agrees with one of the two; that it always
  agrees with both is false, as TLC shows.
* With two workers `QuietGraphIsProximity` fails, see the proof of `GraphSettles`.

## What is proved

The proofs use the named assumptions on constants only. They hold for any number
of workers, clients, packets and positions.

`RouterProofs`. The invariants of `Router` are not inductive: that no packet
goes to an unregistered worker depends on what unregistered workers may have
sent. `IInv` adds `Startup(w)` (until its READY is read, a worker has an empty
inbox, owns no client, and READY is its only message; afterwards it never
signals again) and `Carried(w)` (what a busy worker or an answer carries is a
packet). There is one lemma per action. Theorems: `TypeCorrectness`,
`UniqueOwner`, `NoUnknownWorker`, `DrainedWorkerIsReady`.

`RouterServiceProofs` adds `SInv`, about the packets rather than the workers: a
packet is in one place, an inbox, a job or a reply the Router has not read
(`Alone`, `Taken`, `IdleHasNoJob`); what passes through a worker leaves it in the
order it was sent (`InOrder`), whatever its socket discards; READY is about no
packet (`ReadyAsksNothing`); and a packet that was answered is nowhere any more
(`AnswersOver`, and with one worker no earlier packet is, `AnswersInOrder`). SInv
holds for any constants (`PlacesInvariance`). From it, `RouterServes`: every
step of the Router or a worker is, under the mapping `Service`, a step of
`RequestService` or none, for any number of workers; so a packet is served at
most once and answered only after it was. With one worker the ordered service is
implemented, and `OrderKept` proves `PacketOrder`; `router_order` shows that both
need the one worker. `PacketsComeThrough` is what `EveryPacketSettles` rests on:
`StepsTo` counts the steps a worker has to take until it is through with the packet
at a place of its inbox; each of its steps lowers that for every packet it has,
nothing raises it, the worker can take a step as long as it has a packet
(`CanWork`), and what it is through with does not come back (`NoReturn`).

`RouterMonitorProofs`. Under `SoundDescriptors` (distinct keys, no reuse), the
assumption that `monitor_reuse` and `monitor_blank` show to be needed, the table
only names the connection whose descriptor the key stands for, and an event of a
disconnection in the queue means that the connection is closed. Theorems:
`TypeCorrectness`, `OnlyDisconnectedFlushed`, `MonitorNeverEnds`. `OnceInv` adds
that at most one disconnection waits for a descriptor, before the first flush:
`NeverFlushedTwice`. `OnlyDisconnectedFlushed` and `NeverFlushedTwice` are what
`Sessions` takes for granted of its monitors, which flush a connection once and
after it has closed. `DueUntilFlushed` is the safety half of
`KnownClientIsFlushed` (a flush that is due is taken away by nothing but the
flush); that the flush happens needs the fairness of the two readers, and is
model-checked.

`ClientMessageProofs`. Most of it is under `StartGameLast` (the client sends
nothing after CB_START_GAME in the same message, as it waits for the answer; the
code does not enforce it). The properties speak of the end of a message; `IInv`
says what holds between two sub-packets: the copy is what Redis has while the
message goes well (`CopyIsStored`), the reply agrees with it (`AnswersAreStored`), the socket
session names an account whose game session is complete (`SocketNamesGame`,
`AllComplete`, `AccountsKnown`), and an account in transit has none at the
barrack (`Departed`). Every handler has a lemma, its refinement another. Theorems:
`AnswersAreTrue`, `NoLockOut`, `NoWayBack` (no later message brings the game
session back, not even a new login), and `Implementation`: the worker implements
`BarrackAccounts`. Of any client, whatever it sends after CB_START_GAME,
`AnyClient` holds: in a message that has not started the game, the copy of an
authenticated session has its game session in Redis (`CopyHasGame`). Hence
`TypeCorrectness`, and `OnlyWayBack`: what is in transit comes back only in the
message that sent it off.

`SessionsProofs`. `TypeCorrectness` holds for any number of workers. The rest
needs one thing of the workers, `OneAtATime`: no two of them process packets of one
connection at the same time. (Otherwise a request may write the game session back
after another has moved it, and TLC finds `OneGameSession` violated.) That is all
they need: `TurnsSuffice` proves the five invariants and the action property of the
run in every behaviour that keeps to it, with any number of workers. `TurnsTaken`
proves that behaviours do, under `OneWorker` (one worker per server, as
`cfg/server.cfg` asks for) or under `NoRequests` (any number of workers, and clients
that wait for the answer to every packet: they log in, start the game and connect
to the zone, and may quit at any moment). The monitors are threads of their own in
any case, so commands of two actors on one connection interleave. The invariant has
nine layers, each proved from those before: `Shapes` (which commands and which copy a task may have), `Order` (a
client's packets: what may be outstanding, taken or over), `Handover` (where the
game session may be, and that nobody writes to a place it has left), `Paired`
(the two sessions of a client go together, or a thread is between their two
commands), `Counted` (the copy of a worker contains every change), `Arrival`
(what a player who was told to start the game can count on), `Courtesy` (the
same for what is deleted, with a client that waits for its answers), `Swept`
(what the flush of such a client relies on: its session is there whenever a
request changes it, is the one the flush read, and names the only game session
its connection owns, so that both keys are gone after the last command) and `Found`
(a socket session the event server finds missing is that of a client that was
flushed: `Away`, no thread works on it but a flush that has issued its last command). The steps of the event
server change no key but that one, so `Recreate` has a lemma per layer and the
rest stutters. Theorems: `TypeCorrectness`, `UniqueGame`, `NamedGame`,
`EveryChangeKept`, `HandoverIsKept`, `FlushLogsOut` and the action property
`OneLife`, each under `OneWorker \/ NoRequests`. That the client
waits for its answers is needed: `sessions_orphan` shows what is left of one that
does not.

What `DisconnectedIsFlushed` rests on is proved with any number of workers and any
clients. `TasksEnd`: `CommandsLeft` counts what is left of a task, every command of
a worker or a monitor lowers it, and nobody else changes a task that is under way.
`FlushIsFinal`: a disconnection stays to be read until the monitor reads it; then
the client is missed, and never flushed, or its flush begins, once, and stays over
when it is over.

`ClusterProofs`. For every configuration with fewer than 65536 social and zone
servers (`CountsAssumption`; the code does not check it), non-empty lists of
distinct ports, and any number of GlobalServers. `IInv` says for each place of a
main thread what its counters and its monitor are (`ThreadOK`), that a process
holds exactly the ports it has bound (`HolderOK`), that a process exists only
once it was created (`CreatedOK`), that without an overlapping flush at most one
GlobalServer is under way (`OneUnderway`), and whose sessions are in Redis
(`SessionsOK`). Theorems: `RouterIdsDistinct`, `TypeCorrectness`,
`PortsOpenLast`, `UniqueServer`, `CleanStart`, `SessionsKept`.

`EveryServerSettles` itself needs fairness, and is model-checked; what it rests on
is proved. `StartupLeft` counts the steps the threads of a process have left: its
stages, its monitor, its event server, its ports and the workers that are to be
connected, announced and registered. `StartupAdvances`: every step of a thread of
the process lowers it, and no other step, neither of another process nor of a
GlobalServer or a client, raises it. `OnlyMonitorBlocks`: as long as a created
process has neither ended nor begun to serve with its event server listening, the
guard of one of its threads holds (`CanGoOn`), or its monitor was refused by MySQL.
Both need `Begun`, which relates the threads to the main thread.

`EventServerProofs`. The workers and the monitor change what the event server
reads but not what it keeps (`OthersStep`); so its invariant makes no assumption
on the positions. `HandlerInv` says at each place of the handler what holds of
graph, marks and lists: `EnteredOK` (those within range are linked, and the
marks tell them apart), `LeftOK` (the neighbours are exactly those within
range), and `ScreensOK`: a screen is the neighbours of its client, except that
the client of the event does not show yet whom it has not read and still shows
whom it has left. `PresenceOK` adds who can be missing: a client that has left a
trace in an event, a list or the graph has connected, and while it is connected
its game session is there. Theorems: `TypeCorrectness`, `MutualGraph`,
`FaithfulScreens`, `ExactNeighbours` and the action properties `SeenOnly` and
`EndsForChangesOnly`, which speaks of the very client whose session has just been
read. `HandlerEnds` is what `EventsAreHandled` rests on: for finitely
many clients `HandlerLeft` bounds the steps the handler has left, each of its steps
lowers it and nobody else's changes it, and as long as the loop runs the guard of a
next step holds until the event is handled (`CanHandle`).

`EventServerQuietProofs` proves `QuietGraphIsProximity` for a zone with one worker,
which is what `cfg/server.cfg` asks for, wherever its players stop. An event carries
a position that its worker writes only afterwards, or not at all after a stop, and
the event server reads the positions of the others one at a time, so the graph may
be wrong about a pair between any two events. The invariant `QuietInv` speaks of the
position a player will have in Redis once the worker has written (`Final`), of the
position its last event told (`told`), and of the events that will still compare it
with the others (`Queued`, `Handled`): the last event of a player carries what it
told (`LastEventIsTold`, `HandledEventIsTold`); a position that is yet to be written
belongs to the last event of all (`WrittenIsLast`); what the handler has read of a
player without a further event is final (`ReadIsFinal`); and for every pair that no
event will compare again the graph agrees with what one of the two told and the
final position of the other (`SettledOK`). When nothing is under way that is every
pair: `GraphSettles`. Players who stopped where their last move ended have told what
is in Redis, and the graph is then their proximity. With two workers the argument
fails at `WrittenIsLast`: the event of one player may be handled while the other
worker has yet to write the position of a second, whose own event has been handled
before. TLC, given a second worker in `events.cfg`, finds such a behaviour of 31
states.

Assumptions on constants are those the code justifies: that model values such as
`NoClient`, `NoConn` or `Absent` differ from what they stand beside, that bounds
are naturals, that `Around` is symmetric.

Only model-checked, because the prover cannot treat fairness and ENABLED: the
liveness properties `EveryPacketSettles`, `KnownClientIsFlushed`,
`DisconnectedIsFlushed`, `EventsAreHandled` and `EveryServerSettles`. The safety half of
each is proved (`PacketsComeThrough`; `DueUntilFlushed`; `TasksEnd` and `FlushIsFinal`;
`HandlerEnds`; `StartupAdvances` and `OnlyMonitorBlocks`): what is due stays due, or
the steps that lead to its end are bounded and possible. The five runs with a
violation are model-checked by their nature.

## Abstractions

* A message of a client holds one packet, except in `ClientMessage`; CZ_PING and
  decryption are left out.
* In `ClientMessage` the client logs in before it sends anything else, its login
  is one word, and no word is the name of a field of Redis. The position and the
  looks of a commander are not among the fields.
* In `RouterMonitor` the Router tells the monitor the descriptor of a client as it
  is. Router.c:511-514 reads it as eight bytes from a buffer of five, the copy of
  the identity: where descriptors are shorter, bytes of the identity and from
  behind the buffer come along.
* In `Sessions` descriptors are not used again: what reuse does to the monitor is
  in `RouterMonitor`. The socket session the event server creates for an identity
  of the barrack's is that of no connection to the zone, and left out.
* In `Sessions` a client has one packet outstanding at a time. The servers run
  with one worker (`cfg/server.cfg`), which takes a client's packets one after
  the other, so a client that does not wait is no different there; with several
  workers `router_order` shows that it is.
* Redis fails only in `ClientMessage` (it goes away for good, at any command), and
  is awaited in `Cluster`; elsewhere it does not fail. SCAN returns every key in its first answer.
* All players are on one map. Positions are places with a symmetric relation
  `Around`; the Manhattan distance of `Common/utils/position.c` is one.
* When the event server reads the fields of a session that is gone it uses null
  pointers; the model stops its loop, other threads go on (in the program the
  process would end).
* `zlist_remove` of the element a loop is at is assumed to leave the cursor at
  its predecessor, as czmq does.
* PUB/SUB and PUSH/PULL sockets lose nothing; the high-water marks are not
  reached.
* In `EventServer` a client that is connecting does not quit before its session
  is written; `Sessions` models that. The node the graph gets for an old identity
  is left out, since the loop ends before anything reads it.
* `EventServer` has one session per client, present or absent; the blank socket
  session that reading a missing one creates is in `Sessions`, where it matters.
* Nodes of the graph are never removed by the code; the model has one for each
  client from the start.
* In `Cluster` the configuration file is the numbers of servers and workers and
  the ports; identities of connections count from a random start in each
  process, so those of two processes may be equal. A child whose execv() fails
  counts as not created.

Not modelled at all: packet layout and builders, Blowfish, the queries of MySQL,
administrator commands, the social server (its only handler fills its own
session), the addresses BarrackHandler_startGame tells the client (three are
written in the code), the hooks and tools around the game client, the earlier
Python servers.

The map covers a small part of the lines of the repository. Most of them are
declarations of vendored libraries (MySQL, zlib, hiredis, czmq), the hooks and
tools injected into the game client with their disassembler and LuaJIT headers,
and builders that lay out packets field by field: none has control state the
models could show to be right or wrong. Of the files that have some,
`Common/Server`, `Common/Redis/Fields`, `GlobalServer`, `BarrackHandler` and
`ZoneHandler`, the modules translate nearly every function.

## Plan

Done, in this order: `Router` with `RequestService`, `RouterMonitor`, `Sessions`,
`EventServer`, `ClientMessage` with `BarrackAccounts`, `Cluster`, and the proofs
of all of them.

Next, models:

1. `EventServer` composed with the flush of `Sessions`, command by command.
2. Events dispatched before the event server has subscribed (`Cluster` composed
   with `EventServer`).
3. The messages of a zone's client in the manner of `ClientMessage`, with the
   events their handlers dispatch before a later sub-packet fails.
4. The hashtable, list and distance operators as functions, checked against
   reference definitions.

Next, proofs: how far the graph may be from the proximity with several workers.
