------------------------------ MODULE Cluster ------------------------------
(***************************************************************************)
(* How the servers of an installation are started, and started again.      *)
(*                                                                         *)
(* A GlobalServer (GlobalServer/main.c) connects to Redis, flushes it,     *)
(* binds its CLI port and creates one process for every configured server. *)
(* A server process (ZoneServer/main.c) runs an event server thread, and a *)
(* main thread that connects its workers, starts them, runs the router's   *)
(* reactor and, when the last worker is READY, starts the monitor and only *)
(* then binds the ports its clients use.  A server outlives the            *)
(* GlobalServer that created it: nothing stops it when that one stops.  So *)
(* servers of several GlobalServers can meet at the same ports, under the  *)
(* same router ids, in the same Redis.                                     *)
(*                                                                         *)
(* Outside this module: what the workers and the monitor do once they run  *)
(* (Router, RouterMonitor, Sessions, ClientMessage) and a Redis that dies  *)
(* after it was connected (ClientMessage).                                 *)
(***************************************************************************)
EXTENDS Integers, Sequences

CONSTANTS
    Globals,        \* the GlobalServers an operator starts, one after another or not
    SocialCount,    \* length of socialServer/portsArray in server.cfg
    ZoneCount,      \* length of zoneServer/portsArray
    SocialWorkers,  \* socialServer/workersCount
    ZoneWorkers,    \* zoneServer/workersCount
    Ports,          \* Ports[s] : the endpoints of server s, in the order they are bound
    Endpoints,
    Identities,     \* what a raw ROUTER socket calls its connections
    Followed,       \* the servers whose processes are followed
    Nobody

(***************************************************************************)
(* The servers in the order GlobalServer_start creates them: the barrack   *)
(* server, the social servers, the zone servers.                           *)
(***************************************************************************)
ServerCount == 1 + SocialCount + ZoneCount
Servers == 1..ServerCount

IsBarrack(s) == s = 1
IsSocial(s) == s \in 2..(1 + SocialCount)

\* 16 bits wide: BARRACK_SERVER_ROUTER_ID is (uint16_t) -1, the first social
\* server has (uint16_t) -2, the next ones count down, the zones up from 0.
RouterId(s) ==
    IF IsBarrack(s) THEN 65535
    ELSE IF IsSocial(s) THEN (65534 - (s - 2)) % 65536
    ELSE (s - 2 - SocialCount) % 65536

\* The barrack server is given the number of workers of the zones.
WorkersOf(s) == IF IsSocial(s) THEN SocialWorkers ELSE ZoneWorkers

ASSUME CountsAssumption ==
    /\ SocialCount \in Nat \ {0}
    /\ ZoneCount \in Nat \ {0}
    /\ SocialCount + ZoneCount < 65536
    /\ SocialWorkers \in Nat \ {0}
    /\ ZoneWorkers \in Nat \ {0}

ASSUME PortsAssumption ==
    /\ Ports \in [Servers -> Seq(Endpoints)]
    /\ \A s \in Servers : Len(Ports[s]) > 0
    /\ \A s \in Servers : \A i, j \in 1..Len(Ports[s]) : Ports[s][i] = Ports[s][j] => i = j

ASSUME FollowedAssumption == Followed \subseteq Servers

\* A process: the GlobalServer that created it, and which server it is.
Instances == Globals \X Followed

ASSUME NobodyAssumption == Nobody \notin Globals /\ Nobody \notin Instances

\* The key of a socket session: router id and identity of the connection.  The
\* socket counts its identities from a random number, so those of two processes
\* can be the same.
Keys == {RouterId(s) : s \in Followed} \X Identities
KeyOf(p, id) == <<RouterId(p[2]), id>>

-----------------------------------------------------------------------------

VARIABLES
    global,     \* how far each GlobalServer is
    created,    \* how many servers it has created
    cli,        \* the GlobalServer that holds the CLI port
    main,       \* how far the main thread of a process is
    connected,  \* workers of it that are connected to MySQL and Redis
    sent,       \* workers of it that have sent READY
    ready,      \* Router.workersReadyCount
    monitor,    \* its monitor thread
    event,      \* its event server thread
    bound,      \* ports its frontend is bound to
    holder,     \* the process that listens on an endpoint
    store,      \* Redis: the process that created the session of a key
    clients,    \* the connections of a process that have sent a packet
    overlapped  \* a GlobalServer flushed Redis while servers of another were,
                \* or were going to be, alive

globalVars == <<global, created, cli>>
threadVars == <<main, connected, sent, ready, monitor, event, bound>>
sessionVars == <<store, clients>>
vars == <<globalVars, threadVars, holder, sessionVars, overlapped>>

GlobalStages == {"off", "connect", "flush", "bind", "spawn", "poll", "gone"}
MainStages ==
    {"none", "sql", "redis", "start", "reactor", "handshake", "bind", "serving", "gone"}
MonitorStages == {"none", "redis", "sql", "listens", "ended"}
EventStages == {"none", "connect", "listens", "ended"}

(* Every variable has its type; the counters stay within the configuration. *)
TypeOK ==
    /\ global \in [Globals -> GlobalStages]
    /\ created \in [Globals -> 0..ServerCount]
    /\ cli \in Globals \cup {Nobody}
    /\ main \in [Instances -> MainStages]
    /\ connected \in [Instances -> Nat]
    /\ sent \in [Instances -> Nat]
    /\ ready \in [Instances -> Nat]
    /\ monitor \in [Instances -> MonitorStages]
    /\ event \in [Instances -> EventStages]
    /\ bound \in [Instances -> Nat]
    /\ holder \in [Endpoints -> Instances \cup {Nobody}]
    /\ store \in [Keys -> Instances \cup {Nobody}]
    /\ clients \in [Instances -> SUBSET Identities]
    /\ overlapped \in BOOLEAN
    /\ \A p \in Instances :
        /\ connected[p] <= WorkersOf(p[2])
        /\ ready[p] <= sent[p] /\ sent[p] <= connected[p]
        /\ bound[p] <= Len(Ports[p[2]])

Init ==
    /\ global = [g \in Globals |-> "off"]
    /\ created = [g \in Globals |-> 0]
    /\ cli = Nobody
    /\ main = [p \in Instances |-> "none"]
    /\ connected = [p \in Instances |-> 0]
    /\ sent = [p \in Instances |-> 0]
    /\ ready = [p \in Instances |-> 0]
    /\ monitor = [p \in Instances |-> "none"]
    /\ event = [p \in Instances |-> "none"]
    /\ bound = [p \in Instances |-> 0]
    /\ holder = [e \in Endpoints |-> Nobody]
    /\ store = [k \in Keys |-> Nobody]
    /\ clients = [p \in Instances |-> {}]
    /\ overlapped = FALSE

Alive(p) == main[p] \notin {"none", "gone"}

\* Servers of g are alive, or g is past its flush and will create some.
Underway(g) ==
    \/ global[g] \in {"bind", "spawn"}
    \/ \E s \in Followed : Alive(<<g, s>>)

-----------------------------------------------------------------------------
(* The GlobalServer. *)

Launch(g) ==
    /\ global[g] = "off"
    /\ global' = [global EXCEPT ![g] = "connect"]
    /\ UNCHANGED <<created, cli, threadVars, holder, sessionVars, overlapped>>

\* Redis_connect tries until Redis is there.
GlobalConnects(g) ==
    /\ global[g] = "connect"
    /\ global' = [global EXCEPT ![g] = "flush"]
    /\ UNCHANGED <<created, cli, threadVars, holder, sessionVars, overlapped>>

\* MUTANT of FlushRedis: the database keeps what it has.
FlushRedis_Keeps(g) ==
    /\ global[g] = "flush"
    /\ global' = [global EXCEPT ![g] = "bind"]
    /\ overlapped' = (overlapped \/ \E h \in Globals \ {g} : Underway(h))
    /\ UNCHANGED <<created, cli, threadVars, holder, sessionVars>>

\* Redis_flushDatabase: FLUSHALL, whoever uses the database.
FlushRedis(g) ==
    /\ global[g] = "flush"
    /\ \/ /\ global' = [global EXCEPT ![g] = "bind"]
          /\ store' = [k \in Keys |-> Nobody]
          /\ overlapped' = (overlapped \/ \E h \in Globals \ {g} : Underway(h))
       \/ /\ global' = [global EXCEPT ![g] = "gone"]  \* Redis refuses the command
          /\ UNCHANGED <<store, overlapped>>
    /\ UNCHANGED <<created, cli, threadVars, holder, clients>>

\* The CLI port is free unless another GlobalServer still runs.
BindCli(g) ==
    /\ global[g] = "bind"
    /\ IF cli = Nobody
       THEN /\ cli' = g
            /\ global' = [global EXCEPT ![g] = "spawn"]
       ELSE /\ global' = [global EXCEPT ![g] = "gone"]
            /\ UNCHANGED cli
    /\ UNCHANGED <<created, threadVars, holder, sessionVars, overlapped>>

\* Server_createProcess.  The parent does not learn whether fork() or execv()
\* failed, and goes on with the next server.
Spawn(g) ==
    /\ global[g] = "spawn" /\ created[g] < ServerCount
    /\ created' = [created EXCEPT ![g] = created[g] + 1]
    /\ LET p == <<g, created[g] + 1>>
       IN  \/ /\ p \in Instances
              /\ main' = [main EXCEPT ![p] = "sql"]
              /\ event' = [event EXCEPT ![p] = "connect"]
           \/ UNCHANGED <<main, event>>
    /\ UNCHANGED <<global, cli, connected, sent, ready, monitor, bound, holder,
                   sessionVars, overlapped>>

\* MUTANT of Poll: Redis is flushed once the servers exist.
Poll_Flushes(g) ==
    /\ global[g] = "spawn" /\ created[g] = ServerCount
    /\ global' = [global EXCEPT ![g] = "poll"]
    /\ store' = [k \in Keys |-> Nobody]
    /\ UNCHANGED <<created, cli, threadVars, holder, clients, overlapped>>

Poll(g) ==
    /\ global[g] = "spawn" /\ created[g] = ServerCount
    /\ global' = [global EXCEPT ![g] = "poll"]
    /\ UNCHANGED <<created, cli, threadVars, holder, sessionVars, overlapped>>

\* A signal ends the GlobalServer; its servers are not told.
StopGlobal(g) ==
    /\ global[g] \in {"connect", "flush", "bind", "spawn", "poll"}
    /\ global' = [global EXCEPT ![g] = "gone"]
    /\ cli' = IF cli = g THEN Nobody ELSE cli
    /\ UNCHANGED <<created, threadVars, holder, sessionVars, overlapped>>

-----------------------------------------------------------------------------
(* A server process. *)

\* The process ends, with all its threads, sockets and connections.  The
\* sessions of its clients stay in Redis: its monitor is gone too.
Exit(p) ==
    /\ main' = [main EXCEPT ![p] = "gone"]
    /\ connected' = [connected EXCEPT ![p] = 0]
    /\ sent' = [sent EXCEPT ![p] = 0]
    /\ ready' = [ready EXCEPT ![p] = 0]
    /\ monitor' = [monitor EXCEPT ![p] = "ended"]
    /\ event' = [event EXCEPT ![p] = "ended"]
    /\ bound' = [bound EXCEPT ![p] = 0]
    /\ holder' = [e \in Endpoints |-> IF holder[e] = p THEN Nobody ELSE holder[e]]
    /\ clients' = [clients EXCEPT ![p] = {}]
    /\ UNCHANGED <<globalVars, store, overlapped>>

\* Worker_init: MySQL first, one attempt; main returns -1 when it fails.
WorkerConnectsMySQL(p) ==
    /\ main[p] = "sql"
    /\ \/ /\ main' = [main EXCEPT ![p] = "redis"]
          /\ UNCHANGED <<globalVars, connected, sent, ready, monitor, event, bound, holder,
                         sessionVars, overlapped>>
       \/ Exit(p)

\* MUTANT of WorkerConnectsRedis: the loop runs once more than there are workers.
WorkerConnectsRedis_OneMore(p) ==
    /\ main[p] = "redis"
    /\ connected' = [connected EXCEPT ![p] = connected[p] + 1]
    /\ main' = [main EXCEPT ![p] = IF connected[p] = WorkersOf(p[2]) THEN "start" ELSE "sql"]
    /\ UNCHANGED <<globalVars, sent, ready, monitor, event, bound, holder, sessionVars,
                   overlapped>>

\* then Redis, until it is there; then the next worker.
WorkerConnectsRedis(p) ==
    /\ main[p] = "redis"
    /\ connected' = [connected EXCEPT ![p] = connected[p] + 1]
    /\ main' = [main EXCEPT ![p] = IF connected[p] + 1 = WorkersOf(p[2]) THEN "start" ELSE "sql"]
    /\ UNCHANGED <<globalVars, sent, ready, monitor, event, bound, holder, sessionVars,
                   overlapped>>

\* Server_start: all worker threads, then the backend and the reactor.
StartServer(p) ==
    /\ main[p] = "start"
    /\ main' = [main EXCEPT ![p] = "reactor"]
    /\ UNCHANGED <<globalVars, connected, sent, ready, monitor, event, bound, holder,
                   sessionVars, overlapped>>

\* A worker thread announces itself to the backend.
WorkerReady(p) ==
    /\ main[p] = "reactor" /\ sent[p] < connected[p]
    /\ sent' = [sent EXCEPT ![p] = sent[p] + 1]
    /\ UNCHANGED <<globalVars, main, connected, ready, monitor, event, bound, holder,
                   sessionVars, overlapped>>

\* MUTANT of RegisterWorker: the first READY starts the monitor.
RegisterWorker_First(p) ==
    /\ main[p] = "reactor" /\ ready[p] < sent[p]
    /\ ready' = [ready EXCEPT ![p] = ready[p] + 1]
    /\ main' = [main EXCEPT ![p] = "handshake"]
    /\ monitor' = [monitor EXCEPT ![p] = "redis"]
    /\ UNCHANGED <<globalVars, connected, sent, event, bound, holder, sessionVars, overlapped>>

\* Router_backend, ROUTER_WORKER_READY: the last one starts the monitor, and
\* the reactor waits in Router_initMonitor for it.
RegisterWorker(p) ==
    /\ main[p] = "reactor" /\ ready[p] < sent[p]
    /\ ready' = [ready EXCEPT ![p] = ready[p] + 1]
    /\ IF ready[p] + 1 = WorkersOf(p[2])
       THEN /\ main' = [main EXCEPT ![p] = "handshake"]
            /\ monitor' = [monitor EXCEPT ![p] = "redis"]
       ELSE UNCHANGED <<main, monitor>>
    /\ UNCHANGED <<globalVars, connected, sent, event, bound, holder, sessionVars, overlapped>>

\* RouterMonitor_start: Redis, until it is there,
MonitorConnectsRedis(p) ==
    /\ monitor[p] = "redis"
    /\ monitor' = [monitor EXCEPT ![p] = "sql"]
    /\ UNCHANGED <<globalVars, main, connected, sent, ready, event, bound, holder,
                   sessionVars, overlapped>>

\* then MySQL, one attempt.  When it fails the thread ends: the end of an actor
\* satisfies zactor_new, but READY never comes and the reactor waits for ever.
MonitorConnectsMySQL(p) ==
    /\ monitor[p] = "sql"
    /\ \E outcome \in {"listens", "ended"} : monitor' = [monitor EXCEPT ![p] = outcome]
    /\ UNCHANGED <<globalVars, main, connected, sent, ready, event, bound, holder,
                   sessionVars, overlapped>>

MonitorIsReady(p) ==
    /\ main[p] = "handshake" /\ monitor[p] = "listens"
    /\ main' = [main EXCEPT ![p] = "bind"]
    /\ UNCHANGED <<globalVars, connected, sent, ready, monitor, event, bound, holder,
                   sessionVars, overlapped>>

NextPort(p) == Ports[p[2]][bound[p] + 1]

\* MUTANT of BindPort: the result of bind is not checked.
BindPort_GoesOn(p) ==
    /\ main[p] = "bind"
    /\ holder' = [holder EXCEPT ![NextPort(p)] = IF @ = Nobody THEN p ELSE @]
    /\ bound' = [bound EXCEPT ![p] = bound[p] + 1]
    /\ main' = [main EXCEPT
                  ![p] = IF bound[p] + 1 = Len(Ports[p[2]]) THEN "serving" ELSE "bind"]
    /\ UNCHANGED <<globalVars, connected, sent, ready, monitor, event, sessionVars, overlapped>>

\* Router_initFrontend binds one port after the other; one that is in use ends
\* the reactor, and the process with it.
BindPort(p) ==
    /\ main[p] = "bind"
    /\ \/ /\ holder[NextPort(p)] = Nobody
          /\ holder' = [holder EXCEPT ![NextPort(p)] = p]
          /\ bound' = [bound EXCEPT ![p] = bound[p] + 1]
          /\ main' = [main EXCEPT
                        ![p] = IF bound[p] + 1 = Len(Ports[p[2]]) THEN "serving" ELSE "bind"]
          /\ UNCHANGED <<globalVars, connected, sent, ready, monitor, event, sessionVars,
                         overlapped>>
       \/ holder[NextPort(p)] # Nobody /\ Exit(p)

\* MUTANT of EventServerJoins: one attempt only.
EventServerJoins_GivesUp(p) ==
    /\ event[p] = "connect"
    /\ \E outcome \in {"listens", "ended"} : event' = [event EXCEPT ![p] = outcome]
    /\ UNCHANGED <<globalVars, main, connected, sent, ready, monitor, bound, holder,
                   sessionVars, overlapped>>

\* EventServer_start: Redis, until it is there, then its sockets.
EventServerJoins(p) ==
    /\ event[p] = "connect"
    /\ event' = [event EXCEPT ![p] = "listens"]
    /\ UNCHANGED <<globalVars, main, connected, sent, ready, monitor, bound, holder,
                   sessionVars, overlapped>>

\* A signal, or a fault (crashHandler), ends the process.
Crash(p) == Alive(p) /\ Exit(p)

-----------------------------------------------------------------------------
(* The clients of a server, as far as the keys of their sessions go. *)

\* Redis_getSession: a worker that handles a packet takes the session that has
\* the key of the connection, or creates one.
Packet(p, id) ==
    /\ main[p] = "serving"
    /\ store' = [store EXCEPT ![KeyOf(p, id)] = IF @ = Nobody THEN p ELSE @]
    /\ clients' = [clients EXCEPT ![p] = clients[p] \cup {id}]
    /\ UNCHANGED <<globalVars, threadVars, holder, overlapped>>

\* The connection closes and the monitor flushes its session (RouterMonitor and
\* Sessions have the steps in between).
Leave(p, id) ==
    /\ main[p] = "serving" /\ id \in clients[p]
    /\ store' = [store EXCEPT ![KeyOf(p, id)] = Nobody]
    /\ clients' = [clients EXCEPT ![p] = clients[p] \ {id}]
    /\ UNCHANGED <<globalVars, threadVars, holder, overlapped>>

-----------------------------------------------------------------------------

GlobalNext(g) ==
    \/ Launch(g) \/ GlobalConnects(g) \/ FlushRedis(g) \/ BindCli(g)
    \/ Spawn(g) \/ Poll(g) \/ StopGlobal(g)

\* What the threads of a process do by themselves.
Thread(p) ==
    \/ WorkerConnectsMySQL(p) \/ WorkerConnectsRedis(p) \/ StartServer(p)
    \/ WorkerReady(p) \/ RegisterWorker(p)
    \/ MonitorConnectsRedis(p) \/ MonitorConnectsMySQL(p) \/ MonitorIsReady(p)
    \/ BindPort(p)

Next ==
    \/ \E g \in Globals : GlobalNext(g)
    \/ \E p \in Instances :
        \/ Thread(p) \/ EventServerJoins(p) \/ Crash(p)
        \/ \E id \in Identities : Packet(p, id) \/ Leave(p, id)

\* A thread that can go on does.  For the steps that wait for Redis this says
\* that Redis is there at one of the attempts, which are made for ever.
Fairness ==
    \A p \in Instances : WF_vars(Thread(p)) /\ WF_vars(EventServerJoins(p))

Spec == Init /\ [][Next]_vars /\ Fairness

-----------------------------------------------------------------------------
(* Properties *)

(***************************************************************************)
(* A port of clients is open only when every worker of the router is       *)
(* registered and the monitor listens: a connection whose ACCEPTED event   *)
(* nobody hears would never be flushed, a packet for an unregistered       *)
(* worker would go to no identity (Router.c:390-405).                      *)
(***************************************************************************)
FrontendMeansReady ==
    \A e \in Endpoints :
        holder[e] # Nobody =>
            LET p == holder[e]
            IN  /\ Alive(p)
                /\ ready[p] = WorkersOf(p[2])
                /\ monitor[p] = "listens"

(***************************************************************************)
(* Two processes never serve under the same router id, however often the   *)
(* GlobalServer was started again while older servers lived: the keys of   *)
(* their clients would be the same.  Nothing but the first port of the     *)
(* server stands between them (Router.c:645-655).                          *)
(***************************************************************************)
OneServerPerId ==
    \A p, q \in Instances :
        /\ main[p] = "serving" /\ main[q] = "serving"
        /\ RouterId(p[2]) = RouterId(q[2])
        => p = q

(***************************************************************************)
(* The session of a connected client disappears, or becomes another's,     *)
(* only by the flush of a GlobalServer other than the one that created its *)
(* server: GlobalServer_start comes after the flush (main.c:56-66).        *)
(***************************************************************************)
SessionDropped(p, id) ==
    /\ id \in clients[p] /\ id \in clients'[p]
    /\ store[KeyOf(p, id)] # Nobody /\ store'[KeyOf(p, id)] # store[KeyOf(p, id)]

OnlyAnotherFlushDrops ==
    [][\A p \in Instances, id \in Identities :
        SessionDropped(p, id) =>
            \E g \in Globals \ {p[1]} : global[g] = "flush" /\ global'[g] = "bind"]_vars

(***************************************************************************)
(* The sessions in Redis under the router id of a server are those of its  *)
(* own clients, unless Redis was flushed while servers of an older         *)
(* GlobalServer were alive: such a server writes sessions after the flush, *)
(* and leaves them behind when it ends (main.c:54-58).  The event server   *)
(* would show them to the players, and a connection of the same identity   *)
(* would take them over.                                                   *)
(***************************************************************************)
NoForeignSession ==
    ~overlapped =>
        \A p \in Instances, id \in Identities :
            Alive(p) => store[KeyOf(p, id)] \in {p, Nobody}

(***************************************************************************)
(* Every server that was created serves with its event server listening,   *)
(* or ends, or waits for a monitor that MySQL refused (ZoneServer/main.c,  *)
(* Router.c:600-620).                                                      *)
(***************************************************************************)
Settled(p) ==
    \/ main[p] = "gone"
    \/ main[p] = "serving" /\ event[p] = "listens"
    \/ main[p] = "handshake" /\ monitor[p] = "ended"

EveryServerSettles == \A p \in Instances : main[p] = "sql" ~> Settled(p)
=============================================================================
