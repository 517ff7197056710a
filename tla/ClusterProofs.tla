--------------------------- MODULE ClusterProofs ---------------------------
(***************************************************************************)
(* What holds of the servers of an installation however many GlobalServers *)
(* are started: the ports are open only when a server is complete, one     *)
(* server serves under a router id, and the sessions go only by the flush  *)
(* of another GlobalServer.  The inductive invariant IInv has a part for   *)
(* the threads of a process, one for the ports, one for the GlobalServers, *)
(* and one for the sessions.                                               *)
(***************************************************************************)
EXTENDS Cluster, TLAPS

\* Stages of the main thread that have opened a port, or are about to.
Open == {"bind", "serving"}

ThreadOK(p) ==
    /\ connected[p] <= WorkersOf(p[2])
    /\ ready[p] <= sent[p]
    /\ sent[p] <= connected[p]
    /\ bound[p] <= Len(Ports[p[2]])
    /\ main[p] \in {"none", "gone"} => connected[p] = 0
    /\ main[p] \in {"sql", "redis"} => connected[p] < WorkersOf(p[2])
    /\ main[p] \in {"none", "sql", "redis", "start", "gone"} => sent[p] = 0
    /\ main[p] \in {"none", "sql", "redis", "start", "reactor"} => monitor[p] = "none"
    /\ main[p] \in {"handshake", "bind", "serving"} => ready[p] = WorkersOf(p[2])
    /\ main[p] \in Open => monitor[p] = "listens"
    /\ main[p] \notin Open => bound[p] = 0
    /\ main[p] = "bind" => bound[p] < Len(Ports[p[2]])
    /\ main[p] = "serving" => bound[p] = Len(Ports[p[2]])

\* Whoever holds an endpoint is open, and holds all ports it has bound.
HolderOK ==
    /\ \A e \in Endpoints : holder[e] # Nobody => main[holder[e]] \in Open
    /\ \A p \in Instances : \A i \in 1..bound[p] : holder[Ports[p[2]][i]] = p

\* A GlobalServer creates its servers after its flush, in order.
CreatedOK ==
    /\ \A g \in Globals : global[g] \in {"off", "connect", "flush", "bind"} => created[g] = 0
    /\ \A p \in Instances : created[p[1]] < p[2] => main[p] = "none"

\* Servers of one GlobalServer at a time, and sessions of those only.
OneUnderway ==
    ~overlapped =>
        /\ \A g, h \in Globals : Underway(g) /\ Underway(h) => g = h
        /\ \A k \in Keys, h \in Globals :
            store[k] # Nobody /\ Underway(h) => store[k][1] = h

SessionsOK ==
    /\ \A k \in Keys : store[k] # Nobody => RouterId(store[k][2]) = k[1]
    /\ \A p \in Instances : clients[p] # {} => main[p] = "serving"

TypesOnly ==
    /\ global \in [Globals -> GlobalStages]
    /\ created \in [Globals -> 0..ServerCount]
    /\ cli \in Globals \cup {Nobody}
    /\ main \in [Instances -> MainStages]
    /\ connected \in [Instances -> Nat]
    /\ sent \in [Instances -> Nat]
    /\ ready \in [Instances -> Nat]
    /\ monitor \in [Instances -> MonitorStages]
    /\ event \in [Instances -> EventStages]
    /\ bound \in [Instances -> Nat]
    /\ holder \in [Endpoints -> Instances \cup {Nobody}]
    /\ store \in [Keys -> Instances \cup {Nobody}]
    /\ clients \in [Instances -> SUBSET Identities]
    /\ overlapped \in BOOLEAN

IInv ==
    /\ TypesOnly
    /\ \A p \in Instances : ThreadOK(p)
    /\ HolderOK
    /\ CreatedOK
    /\ OneUnderway
    /\ SessionsOK

-----------------------------------------------------------------------------
(* Facts about the configuration. *)

\* A number that fits into 16 bits is not changed by the conversion.
LEMMA Wraps ==
    ASSUME NEW x \in Int, 0 <= x, x < 65536
    PROVE  x % 65536 = x
  OBVIOUS

LEMMA RouterIdValue ==
    ASSUME NEW s \in Servers
    PROVE  RouterId(s) = IF s = 1 THEN 65535
                         ELSE IF s <= 1 + SocialCount THEN 65536 - s
                         ELSE s - 2 - SocialCount
  <1>1. s \in Int /\ 1 <= s /\ s <= 1 + SocialCount + ZoneCount
    BY CountsAssumption DEF Servers, ServerCount
  <1>2. CASE s = 1
    BY <1>2 DEF RouterId, IsBarrack
  <1>3. CASE s # 1 /\ s <= 1 + SocialCount
    <2>1. RouterId(s) = (65534 - (s - 2)) % 65536
      BY <1>1, <1>3, CountsAssumption DEF RouterId, IsBarrack, IsSocial
    <2>2. 65534 - (s - 2) = 65536 - s
      BY <1>1
    <2>3. 65536 - s \in Int /\ 0 <= 65536 - s /\ 65536 - s < 65536
      BY <1>1, <1>3, CountsAssumption
    <2>4. (65536 - s) % 65536 = 65536 - s
      BY <2>3, Wraps
    <2> QED BY <2>1, <2>2, <2>4, <1>3
  <1>4. CASE s # 1 /\ ~(s <= 1 + SocialCount)
    <2>1. RouterId(s) = (s - 2 - SocialCount) % 65536
      BY <1>1, <1>4, CountsAssumption DEF RouterId, IsBarrack, IsSocial
    <2>2. /\ s - 2 - SocialCount \in Int
          /\ 0 <= s - 2 - SocialCount /\ s - 2 - SocialCount < 65536
      BY <1>1, <1>4, CountsAssumption
    <2>3. (s - 2 - SocialCount) % 65536 = s - 2 - SocialCount
      BY <2>2, Wraps
    <2> QED BY <2>1, <2>3, <1>4
  <1> QED BY <1>2, <1>3, <1>4

(***************************************************************************)
(* No two servers of a configuration share a router id, although the ids   *)
(* of the social servers count down and wrap at 16 bits (Server.h:27-28,   *)
(* GlobalServer.c:463-488).                                                *)
(***************************************************************************)
THEOREM RouterIdsDistinct ==
    ASSUME NEW s \in Servers, NEW t \in Servers, s # t
    PROVE  RouterId(s) # RouterId(t)
  <1>1. /\ s \in Int /\ 1 <= s /\ s <= 1 + SocialCount + ZoneCount
        /\ t \in Int /\ 1 <= t /\ t <= 1 + SocialCount + ZoneCount
    BY CountsAssumption DEF Servers, ServerCount
  <1>2. RouterId(s) = IF s = 1 THEN 65535
                      ELSE IF s <= 1 + SocialCount THEN 65536 - s
                      ELSE s - 2 - SocialCount
    BY RouterIdValue
  <1>3. RouterId(t) = IF t = 1 THEN 65535
                      ELSE IF t <= 1 + SocialCount THEN 65536 - t
                      ELSE t - 2 - SocialCount
    BY RouterIdValue
  <1>4. SocialCount \in Nat /\ ZoneCount \in Nat /\ SocialCount + ZoneCount < 65536
    BY CountsAssumption
  <1>5. CASE s = 1
    <2>1. RouterId(s) = 65535
      BY <1>2, <1>5
    <2>2. CASE t # 1 /\ t <= 1 + SocialCount
      BY <1>1, <1>3, <2>1, <2>2
    <2>3. CASE t # 1 /\ ~(t <= 1 + SocialCount)
      <3>1. RouterId(t) = t - 2 - SocialCount
        BY <1>3, <2>3
      <3>2. t - 2 - SocialCount < 65535
        BY <1>1, <1>4
      <3>3. t - 2 - SocialCount # 65535
        BY <1>1, <1>4, <3>2
      <3> QED BY <1>1, <1>4, <2>1, <3>1, <3>3
    <2> QED BY <1>5, <2>2, <2>3
  <1>6. CASE s # 1 /\ s <= 1 + SocialCount
    <2>1. RouterId(s) = 65536 - s
      BY <1>2, <1>6
    <2>2. CASE t = 1
      BY <1>1, <1>3, <1>6, <2>1, <2>2
    <2>3. CASE t # 1 /\ t <= 1 + SocialCount
      BY <1>1, <1>3, <2>1, <2>3
    <2>4. CASE t # 1 /\ ~(t <= 1 + SocialCount)
      <3>1. RouterId(t) = t - 2 - SocialCount
        BY <1>3, <2>4
      <3>2. t - 2 - SocialCount <= ZoneCount - 1
        BY <1>1, <1>4
      <3>3. 65535 - SocialCount <= 65536 - s
        BY <1>1, <1>4, <1>6
      <3>4. ZoneCount - 1 < 65535 - SocialCount
        BY <1>4
      <3>5. t - 2 - SocialCount < 65536 - s
        BY <1>1, <1>4, <3>2, <3>3, <3>4
      <3>6. t - 2 - SocialCount # 65536 - s
        BY <1>1, <1>4, <3>5
      <3> QED BY <1>1, <1>4, <2>1, <3>1, <3>6
    <2> QED BY <2>2, <2>3, <2>4
  <1>7. CASE s # 1 /\ ~(s <= 1 + SocialCount)
    <2>1. RouterId(s) = s - 2 - SocialCount
      BY <1>2, <1>7
    <2>2. CASE t = 1
      BY <1>1, <1>3, <1>4, <1>7, <2>1, <2>2
    <2>3. CASE t # 1 /\ t <= 1 + SocialCount
      <3>1. RouterId(t) = 65536 - t
        BY <1>3, <2>3
      <3>2. s - 2 - SocialCount <= ZoneCount - 1
        BY <1>1, <1>4
      <3>3. 65535 - SocialCount <= 65536 - t
        BY <1>1, <1>4, <2>3
      <3>4. ZoneCount - 1 < 65535 - SocialCount
        BY <1>4
      <3>5. s - 2 - SocialCount < 65536 - t
        BY <1>1, <1>4, <3>2, <3>3, <3>4
      <3>6. s - 2 - SocialCount # 65536 - t
        BY <1>1, <1>4, <3>5
      <3> QED BY <1>1, <1>4, <2>1, <3>1, <3>6
    <2>4. CASE t # 1 /\ ~(t <= 1 + SocialCount)
      BY <1>1, <1>3, <1>4, <1>7, <2>1, <2>4
    <2> QED BY <2>2, <2>3, <2>4
  <1> QED BY <1>5, <1>6, <1>7

LEMMA InstanceParts ==
    ASSUME NEW p \in Instances
    PROVE  /\ p[1] \in Globals /\ p[2] \in Servers /\ p[2] \in Followed
           /\ p = <<p[1], p[2]>>
           /\ p # Nobody
           /\ WorkersOf(p[2]) \in Nat /\ WorkersOf(p[2]) > 0
           /\ Len(Ports[p[2]]) \in Nat /\ Len(Ports[p[2]]) > 0
           /\ \A i \in 1..Len(Ports[p[2]]) : Ports[p[2]][i] \in Endpoints
  <1>1. p[1] \in Globals /\ p[2] \in Followed /\ p = <<p[1], p[2]>>
    BY DEF Instances
  <1>2. p[2] \in Servers
    BY <1>1, FollowedAssumption
  <1>3. p # Nobody
    BY NobodyAssumption
  <1>4. WorkersOf(p[2]) \in Nat /\ WorkersOf(p[2]) > 0
    BY CountsAssumption DEF WorkersOf
  <1>5. Ports[p[2]] \in Seq(Endpoints) /\ Len(Ports[p[2]]) > 0
    BY <1>2, PortsAssumption
  <1>6. /\ Len(Ports[p[2]]) \in Nat
        /\ \A i \in 1..Len(Ports[p[2]]) : Ports[p[2]][i] \in Endpoints
    BY <1>5
  <1> QED BY <1>1, <1>2, <1>3, <1>4, <1>5, <1>6

LEMMA KeyIsKey ==
    ASSUME NEW p \in Instances, NEW id \in Identities
    PROVE  KeyOf(p, id) \in Keys /\ KeyOf(p, id)[1] = RouterId(p[2]) /\ KeyOf(p, id)[2] = id
  BY InstanceParts DEF KeyOf, Keys

-----------------------------------------------------------------------------
(* The initial states. *)

LEMMA InitIInv == Init => IInv
  <1> SUFFICES ASSUME Init PROVE IInv
    OBVIOUS
  <1>1. TypesOnly
    <2>1. ServerCount \in Nat
      BY CountsAssumption DEF ServerCount
    <2>2. 0 \in 0..ServerCount
      BY <2>1
    <2> QED BY <2>2 DEF Init, TypesOnly, GlobalStages, MainStages, MonitorStages, EventStages
  <1>2. ASSUME NEW p \in Instances PROVE ThreadOK(p)
    <2>1. WorkersOf(p[2]) \in Nat /\ Len(Ports[p[2]]) \in Nat
      BY InstanceParts
    <2> QED BY <2>1 DEF Init, ThreadOK, Open
  <1>3. HolderOK
    BY DEF Init, HolderOK
  <1>4. CreatedOK
    BY DEF Init, CreatedOK
  <1>5. ASSUME NEW g \in Globals PROVE ~Underway(g)
    <2>1. \A s \in Followed : <<g, s>> \in Instances
      BY DEF Instances
    <2>2. global[g] = "off" /\ \A s \in Followed : main[<<g, s>>] = "none"
      BY <2>1 DEF Init
    <2> QED BY <2>2 DEF Underway, Alive
  <1>6. OneUnderway
    BY <1>5 DEF OneUnderway
  <1>7. SessionsOK
    BY DEF Init, SessionsOK
  <1> QED BY <1>1, <1>2, <1>3, <1>4, <1>6, <1>7 DEF IInv

-----------------------------------------------------------------------------
(* Steps of the threads of one process that open no port. *)

\* What such a step leaves alone, and how far it may take the main thread.
Local(p) ==
    /\ UNCHANGED <<globalVars, bound, holder, sessionVars, overlapped>>
    /\ \A q \in Instances \ {p} :
        /\ main'[q] = main[q] /\ connected'[q] = connected[q] /\ sent'[q] = sent[q]
        /\ ready'[q] = ready[q] /\ monitor'[q] = monitor[q]
    /\ Alive(p) => main'[p] \notin {"none", "gone"}
    /\ ~Alive(p) => main'[p] = main[p]
    /\ main[p] \in Open => main'[p] = main[p]

LEMMA LocalStep ==
    ASSUME IInv, NEW p \in Instances, Local(p), TypesOnly', ThreadOK(p)'
    PROVE  IInv'
  <1>1. ASSUME NEW q \in Instances PROVE ThreadOK(q)'
    <2>1. CASE q = p
      BY <2>1
    <2>2. CASE q # p
      <3>1. ThreadOK(q)
        BY DEF IInv
      <3>2. /\ main'[q] = main[q] /\ connected'[q] = connected[q] /\ sent'[q] = sent[q]
            /\ ready'[q] = ready[q] /\ monitor'[q] = monitor[q] /\ bound'[q] = bound[q]
        BY <2>2 DEF Local
      <3> QED BY <3>1, <3>2 DEF ThreadOK
    <2> QED BY <2>1, <2>2
  <1>2. \A q \in Instances : main[q] \in Open => main'[q] \in Open
    BY DEF Local
  <1>3. \A q \in Instances : Alive(q)' <=> Alive(q)
    BY DEF Local, Alive
  <1>4. HolderOK'
    <2>1. HolderOK /\ TypesOnly
      BY DEF IInv
    <2>2. \A e \in Endpoints : holder[e] # Nobody => holder[e] \in Instances
      BY <2>1 DEF TypesOnly
    <2>3. holder' = holder /\ bound' = bound
      BY DEF Local
    <2> QED BY <1>2, <2>1, <2>2, <2>3 DEF HolderOK
  <1>5. CreatedOK'
    <2>1. CreatedOK
      BY DEF IInv
    <2>2. \A q \in Instances : main[q] = "none" => main'[q] = "none"
      BY DEF Local, Alive
    <2>3. global' = global /\ created' = created
      BY DEF Local, globalVars
    <2> QED BY <2>1, <2>2, <2>3 DEF CreatedOK
  <1>6. OneUnderway'
    <2>1. OneUnderway
      BY DEF IInv
    <2>2. \A g \in Globals : Underway(g)' <=> Underway(g)
      <3>1. \A g \in Globals, s \in Followed : <<g, s>> \in Instances
        BY DEF Instances
      <3>2. global' = global
        BY DEF Local, globalVars
      <3> QED BY <1>3, <3>1, <3>2 DEF Underway
    <2>3. store' = store /\ overlapped' = overlapped
      BY DEF Local, sessionVars
    <2> QED BY <2>1, <2>2, <2>3 DEF OneUnderway
  <1>7. SessionsOK'
    <2>1. SessionsOK
      BY DEF IInv
    <2>2. \A q \in Instances : main[q] = "serving" => main'[q] = "serving"
      BY DEF Local, Open
    <2>3. store' = store /\ clients' = clients
      BY DEF Local, sessionVars
    <2> QED BY <2>1, <2>2, <2>3 DEF SessionsOK
  <1> QED BY <1>1, <1>4, <1>5, <1>6, <1>7 DEF IInv

LEMMA LocalActions ==
    ASSUME IInv, NEW p \in Instances,
           \/ main[p] = "sql" /\ main' = [main EXCEPT ![p] = "redis"]
              /\ UNCHANGED <<globalVars, connected, sent, ready, monitor, event, bound, holder,
                             sessionVars, overlapped>>
           \/ WorkerConnectsRedis(p)
           \/ StartServer(p)
           \/ WorkerReady(p)
           \/ RegisterWorker(p)
           \/ MonitorConnectsRedis(p)
           \/ MonitorConnectsMySQL(p)
           \/ MonitorIsReady(p)
           \/ EventServerJoins(p)
    PROVE  IInv'
  <1> DEFINE MySQLConnected ==
        main[p] = "sql" /\ main' = [main EXCEPT ![p] = "redis"]
        /\ UNCHANGED <<globalVars, connected, sent, ready, monitor, event, bound, holder,
                       sessionVars, overlapped>>
  <1>1. TypesOnly /\ ThreadOK(p)
    BY DEF IInv
  <1>2. /\ WorkersOf(p[2]) \in Nat /\ WorkersOf(p[2]) > 0
        /\ Len(Ports[p[2]]) \in Nat /\ Len(Ports[p[2]]) > 0
    BY InstanceParts
  <1>3. /\ connected[p] \in Nat /\ sent[p] \in Nat /\ ready[p] \in Nat /\ bound[p] \in Nat
        /\ main[p] \in MainStages /\ monitor[p] \in MonitorStages
    BY <1>1 DEF TypesOnly
  <1> USE DEF Local, Alive, Open, globalVars, sessionVars, MainStages, MonitorStages
  <1>a. CASE MySQLConnected
    <2>1. TypesOnly'
      BY <1>1, <1>a DEF TypesOnly
    <2>2. Local(p)
      BY <1>1, <1>a DEF TypesOnly
    <2>3. ThreadOK(p)'
      BY <1>1, <1>2, <1>3, <1>a DEF ThreadOK, TypesOnly
    <2> QED BY <2>1, <2>2, <2>3, LocalStep
  <1>b. CASE WorkerConnectsRedis(p)
    <2>1. TypesOnly'
      BY <1>1, <1>3, <1>b DEF TypesOnly, WorkerConnectsRedis
    <2>2. Local(p)
      BY <1>1, <1>b DEF TypesOnly, WorkerConnectsRedis
    <2>3. ThreadOK(p)'
      BY <1>1, <1>2, <1>3, <1>b DEF ThreadOK, TypesOnly, WorkerConnectsRedis
    <2> QED BY <2>1, <2>2, <2>3, LocalStep
  <1>c. CASE StartServer(p)
    <2>1. TypesOnly'
      BY <1>1, <1>c DEF TypesOnly, StartServer
    <2>2. Local(p)
      BY <1>1, <1>c DEF TypesOnly, StartServer
    <2>3. ThreadOK(p)'
      BY <1>1, <1>2, <1>3, <1>c DEF ThreadOK, TypesOnly, StartServer
    <2> QED BY <2>1, <2>2, <2>3, LocalStep
  <1>d. CASE WorkerReady(p)
    <2>1. TypesOnly'
      BY <1>1, <1>3, <1>d DEF TypesOnly, WorkerReady
    <2>2. Local(p)
      BY <1>1, <1>d DEF TypesOnly, WorkerReady
    <2>3. ThreadOK(p)'
      BY <1>1, <1>2, <1>3, <1>d DEF ThreadOK, TypesOnly, WorkerReady
    <2> QED BY <2>1, <2>2, <2>3, LocalStep
  <1>e. CASE RegisterWorker(p)
    <2>1. TypesOnly'
      BY <1>1, <1>3, <1>e DEF TypesOnly, RegisterWorker
    <2>2. Local(p)
      BY <1>1, <1>e DEF TypesOnly, RegisterWorker
    <2>3. ThreadOK(p)'
      <3>1. /\ main[p] = "reactor" /\ ready[p] < sent[p] /\ ready'[p] = ready[p] + 1
            /\ connected'[p] = connected[p] /\ sent'[p] = sent[p] /\ bound'[p] = bound[p]
        BY <1>1, <1>e DEF TypesOnly, RegisterWorker
      <3>2. CASE ready[p] + 1 = WorkersOf(p[2])
        <4>1. main'[p] = "handshake" /\ monitor'[p] = "redis"
          BY <1>1, <1>e, <3>2 DEF TypesOnly, RegisterWorker
        <4> QED BY <1>1, <1>2, <1>3, <3>1, <3>2, <4>1 DEF ThreadOK
      <3>3. CASE ready[p] + 1 # WorkersOf(p[2])
        <4>1. main'[p] = main[p] /\ monitor'[p] = monitor[p]
          BY <1>e, <3>3 DEF RegisterWorker
        <4> QED BY <1>1, <1>2, <1>3, <3>1, <4>1 DEF ThreadOK
      <3> QED BY <3>2, <3>3
    <2> QED BY <2>1, <2>2, <2>3, LocalStep
  <1>f. CASE MonitorConnectsRedis(p)
    <2>1. TypesOnly'
      BY <1>1, <1>f DEF TypesOnly, MonitorConnectsRedis
    <2>2. Local(p)
      BY <1>1, <1>f DEF TypesOnly, MonitorConnectsRedis
    <2>3. ThreadOK(p)'
      BY <1>1, <1>2, <1>3, <1>f DEF ThreadOK, TypesOnly, MonitorConnectsRedis
    <2> QED BY <2>1, <2>2, <2>3, LocalStep
  <1>g. CASE MonitorConnectsMySQL(p)
    <2>1. TypesOnly'
      BY <1>1, <1>g DEF TypesOnly, MonitorConnectsMySQL
    <2>2. Local(p)
      BY <1>1, <1>g DEF TypesOnly, MonitorConnectsMySQL
    <2>3. ThreadOK(p)'
      BY <1>1, <1>2, <1>3, <1>g DEF ThreadOK, TypesOnly, MonitorConnectsMySQL
    <2> QED BY <2>1, <2>2, <2>3, LocalStep
  <1>h. CASE MonitorIsReady(p)
    <2>1. TypesOnly'
      BY <1>1, <1>h DEF TypesOnly, MonitorIsReady
    <2>2. Local(p)
      BY <1>1, <1>h DEF TypesOnly, MonitorIsReady
    <2>3. ThreadOK(p)'
      BY <1>1, <1>2, <1>3, <1>h DEF ThreadOK, TypesOnly, MonitorIsReady
    <2> QED BY <2>1, <2>2, <2>3, LocalStep
  <1>i. CASE EventServerJoins(p)
    <2>1. TypesOnly'
      BY <1>1, <1>i DEF TypesOnly, EventServerJoins, EventStages
    <2>2. Local(p)
      BY <1>1, <1>i DEF TypesOnly, EventServerJoins
    <2>3. ThreadOK(p)'
      BY <1>1, <1>2, <1>3, <1>i DEF ThreadOK, TypesOnly, EventServerJoins
    <2> QED BY <2>1, <2>2, <2>3, LocalStep
  <1> QED BY <1>a, <1>b, <1>c, <1>d, <1>e, <1>f, <1>g, <1>h, <1>i

-----------------------------------------------------------------------------
(* The end of a process, and its ports. *)

LEMMA ExitStep ==
    ASSUME IInv, NEW p \in Instances, Alive(p), Exit(p)
    PROVE  IInv'
  <1>1. TypesOnly /\ HolderOK /\ CreatedOK /\ OneUnderway /\ SessionsOK
    BY DEF IInv
  <1>2. /\ WorkersOf(p[2]) \in Nat /\ Len(Ports[p[2]]) \in Nat /\ p # Nobody
    BY InstanceParts
  <1>3. \A q \in Instances \ {p} :
          /\ main'[q] = main[q] /\ connected'[q] = connected[q] /\ sent'[q] = sent[q]
          /\ ready'[q] = ready[q] /\ monitor'[q] = monitor[q] /\ bound'[q] = bound[q]
          /\ clients'[q] = clients[q]
    BY <1>1 DEF Exit, TypesOnly
  <1>4. /\ main'[p] = "gone" /\ connected'[p] = 0 /\ sent'[p] = 0 /\ ready'[p] = 0
        /\ monitor'[p] = "ended" /\ bound'[p] = 0 /\ clients'[p] = {}
    BY <1>1 DEF Exit, TypesOnly
  <1>5. \A e \in Endpoints : holder'[e] = IF holder[e] = p THEN Nobody ELSE holder[e]
    BY DEF Exit
  <1>6. TypesOnly'
    BY <1>1 DEF TypesOnly, Exit, globalVars, MainStages, MonitorStages, EventStages
  <1>7. ASSUME NEW q \in Instances PROVE ThreadOK(q)'
    <2>1. CASE q = p
      BY <1>2, <1>4, <2>1 DEF ThreadOK, Open
    <2>2. CASE q # p
      <3>1. ThreadOK(q)
        BY DEF IInv
      <3> QED BY <1>3, <2>2, <3>1 DEF ThreadOK
    <2> QED BY <2>1, <2>2
  <1>8. HolderOK'
    <2>1. ASSUME NEW e \in Endpoints, holder'[e] # Nobody
          PROVE  main'[holder'[e]] \in Open
      <3>1. holder'[e] = holder[e] /\ holder[e] # p /\ holder[e] # Nobody
        BY <1>5, <2>1
      <3>2. holder[e] \in Instances /\ main[holder[e]] \in Open
        BY <1>1, <3>1 DEF TypesOnly, HolderOK
      <3> QED BY <1>3, <3>1, <3>2
    <2>2. ASSUME NEW q \in Instances, NEW i \in 1..bound'[q]
          PROVE  holder'[Ports[q[2]][i]] = q
      <3>1. q # p
        BY <1>4, <2>2
      <3>2. i \in 1..bound[q] /\ holder[Ports[q[2]][i]] = q
        BY <1>1, <1>3, <2>2, <3>1 DEF HolderOK
      <3>3. Ports[q[2]][i] \in Endpoints
        <4>1. ThreadOK(q) /\ bound[q] \in Nat
          BY <1>1 DEF IInv, TypesOnly
        <4>2. /\ Len(Ports[q[2]]) \in Nat
              /\ \A j \in 1..Len(Ports[q[2]]) : Ports[q[2]][j] \in Endpoints
          BY InstanceParts
        <4>3. bound[q] <= Len(Ports[q[2]])
          BY <4>1 DEF ThreadOK
        <4>4. i \in 1..Len(Ports[q[2]])
          BY <3>2, <4>1, <4>2, <4>3
        <4> QED BY <4>2, <4>4
      <3> QED BY <1>5, <3>1, <3>2, <3>3
    <2> QED BY <2>1, <2>2 DEF HolderOK
  <1>9. CreatedOK'
    <2>1. main[p] # "none"
      BY DEF Alive
    <2>2. global' = global /\ created' = created
      BY DEF Exit, globalVars
    <2> QED BY <1>1, <1>3, <2>1, <2>2 DEF CreatedOK
  <1>10. OneUnderway'
    <2>1. \A g \in Globals : Underway(g)' => Underway(g)
      <3>1. \A g \in Globals, s \in Followed : <<g, s>> \in Instances
        BY DEF Instances
      <3>2. \A q \in Instances : Alive(q)' => Alive(q)
        BY <1>3, <1>4 DEF Alive
      <3>3. global' = global
        BY DEF Exit, globalVars
      <3> QED BY <3>1, <3>2, <3>3 DEF Underway
    <2>2. store' = store /\ overlapped' = overlapped
      BY DEF Exit
    <2> QED BY <1>1, <2>1, <2>2 DEF OneUnderway
  <1>11. SessionsOK'
    <2>1. store' = store
      BY DEF Exit
    <2> QED BY <1>1, <1>3, <1>4, <2>1 DEF SessionsOK
  <1> QED BY <1>6, <1>7, <1>8, <1>9, <1>10, <1>11 DEF IInv

Binds(p) ==
    /\ main[p] = "bind"
    /\ holder[NextPort(p)] = Nobody
    /\ holder' = [holder EXCEPT ![NextPort(p)] = p]
    /\ bound' = [bound EXCEPT ![p] = bound[p] + 1]
    /\ main' = [main EXCEPT
                  ![p] = IF bound[p] + 1 = Len(Ports[p[2]]) THEN "serving" ELSE "bind"]
    /\ UNCHANGED <<globalVars, connected, sent, ready, monitor, event, sessionVars, overlapped>>

LEMMA BindsStep ==
    ASSUME IInv, NEW p \in Instances, Binds(p)
    PROVE  IInv'
  <1>1. TypesOnly /\ HolderOK /\ CreatedOK /\ OneUnderway /\ SessionsOK /\ ThreadOK(p)
    BY DEF IInv
  <1>2. /\ WorkersOf(p[2]) \in Nat /\ Len(Ports[p[2]]) \in Nat /\ p # Nobody
        /\ \A j \in 1..Len(Ports[p[2]]) : Ports[p[2]][j] \in Endpoints
    BY InstanceParts
  <1>3. /\ main[p] = "bind" /\ bound[p] \in Nat /\ bound[p] < Len(Ports[p[2]])
        /\ bound'[p] = bound[p] + 1 /\ holder[NextPort(p)] = Nobody
    BY <1>1 DEF Binds, TypesOnly, ThreadOK
  <1>4. NextPort(p) \in Endpoints
    <2>1. bound[p] + 1 \in 1..Len(Ports[p[2]])
      BY <1>2, <1>3
    <2> QED BY <1>2, <2>1 DEF NextPort
  <1>5. \A e \in Endpoints : holder'[e] = IF e = NextPort(p) THEN p ELSE holder[e]
    BY <1>1, <1>4 DEF Binds, TypesOnly
  <1>6. /\ main'[p] = IF bound[p] + 1 = Len(Ports[p[2]]) THEN "serving" ELSE "bind"
        /\ \A q \in Instances \ {p} : main'[q] = main[q] /\ bound'[q] = bound[q]
    BY <1>1 DEF Binds, TypesOnly
  <1>7. /\ connected' = connected /\ sent' = sent /\ ready' = ready /\ monitor' = monitor
        /\ event' = event /\ global' = global /\ created' = created /\ cli' = cli
        /\ store' = store /\ clients' = clients /\ overlapped' = overlapped
    BY DEF Binds, globalVars, sessionVars
  <1>8. TypesOnly'
    <2>1. main' \in [Instances -> MainStages]
      BY <1>1 DEF Binds, TypesOnly, MainStages
    <2>2. bound' \in [Instances -> Nat]
      BY <1>1, <1>3 DEF Binds, TypesOnly
    <2>3. holder' \in [Endpoints -> Instances \cup {Nobody}]
      BY <1>1 DEF Binds, TypesOnly
    <2> QED BY <1>1, <1>7, <2>1, <2>2, <2>3 DEF TypesOnly
  <1>9. ASSUME NEW q \in Instances PROVE ThreadOK(q)'
    <2>1. ThreadOK(q)
      BY DEF IInv
    <2>2. CASE q = p
      <3>1. CASE bound[p] + 1 = Len(Ports[p[2]])
        <4>1. main'[p] = "serving"
          BY <1>6, <3>1
        <4> QED BY <1>2, <1>3, <1>7, <2>1, <2>2, <3>1, <4>1 DEF ThreadOK, Open
      <3>2. CASE bound[p] + 1 # Len(Ports[p[2]])
        <4>1. main'[p] = "bind"
          BY <1>6, <3>2
        <4> QED BY <1>2, <1>3, <1>7, <2>1, <2>2, <3>2, <4>1 DEF ThreadOK, Open
      <3> QED BY <3>1, <3>2
    <2>3. CASE q # p
      BY <1>6, <1>7, <2>1, <2>3 DEF ThreadOK
    <2> QED BY <2>2, <2>3
  <1>10. main'[p] \in Open
    BY <1>6 DEF Open
  <1>11. HolderOK'
    <2>1. ASSUME NEW e \in Endpoints, holder'[e] # Nobody
          PROVE  main'[holder'[e]] \in Open
      <3>1. CASE e = NextPort(p)
        BY <1>5, <1>10, <3>1
      <3>2. CASE e # NextPort(p)
        <4>1. holder'[e] = holder[e] /\ holder[e] \in Instances /\ main[holder[e]] \in Open
          BY <1>1, <1>5, <2>1, <3>2 DEF TypesOnly, HolderOK
        <4> QED BY <1>6, <1>10, <4>1
      <3> QED BY <3>1, <3>2
    <2>2. ASSUME NEW q \in Instances, NEW i \in 1..bound'[q]
          PROVE  holder'[Ports[q[2]][i]] = q
      <3>1. CASE q = p /\ i = bound[p] + 1
        BY <1>4, <1>5, <3>1 DEF NextPort
      <3>2. CASE ~(q = p /\ i = bound[p] + 1)
        <4>1. bound[q] \in Nat /\ bound[q] <= Len(Ports[q[2]])
          BY <1>1 DEF IInv, TypesOnly, ThreadOK
        <4>2. i \in 1..bound[q]
          BY <1>3, <1>6, <2>2, <3>2, <4>1
        <4>3. holder[Ports[q[2]][i]] = q
          BY <1>1, <4>2 DEF HolderOK
        <4>4. Ports[q[2]][i] \in Endpoints
          <5>1. /\ Len(Ports[q[2]]) \in Nat
                /\ \A j \in 1..Len(Ports[q[2]]) : Ports[q[2]][j] \in Endpoints
            BY InstanceParts
          <5>2. i \in 1..Len(Ports[q[2]])
            BY <4>1, <4>2, <5>1
          <5> QED BY <5>1, <5>2
        <4>5. q # Nobody
          BY InstanceParts
        <4> QED BY <1>3, <1>5, <4>3, <4>4, <4>5
      <3> QED BY <3>1, <3>2
    <2> QED BY <2>1, <2>2 DEF HolderOK
  <1>12. CreatedOK'
    BY <1>1, <1>3, <1>6, <1>7 DEF CreatedOK
  <1>13. OneUnderway'
    <2>1. \A q \in Instances : Alive(q)' <=> Alive(q)
      BY <1>3, <1>6 DEF Alive
    <2>2. \A g \in Globals, s \in Followed : <<g, s>> \in Instances
      BY DEF Instances
    <2>3. \A g \in Globals : Underway(g)' <=> Underway(g)
      BY <1>7, <2>1, <2>2 DEF Underway
    <2> QED BY <1>1, <1>7, <2>3 DEF OneUnderway
  <1>14. SessionsOK'
    BY <1>1, <1>3, <1>6, <1>7 DEF SessionsOK
  <1> QED BY <1>8, <1>9, <1>11, <1>12, <1>13, <1>14 DEF IInv

-----------------------------------------------------------------------------
(* The GlobalServer. *)

\* Steps that change how far a GlobalServer is, and neither start nor flush.
LEMMA GlobalMoves ==
    ASSUME IInv, NEW g \in Globals,
           UNCHANGED <<created, threadVars, holder, sessionVars, overlapped>>,
           cli' \in Globals \cup {Nobody},
           NEW next \in GlobalStages,
           global' = [global EXCEPT ![g] = next],
           next \in {"connect", "flush"} => global[g] \in {"off", "connect", "flush", "bind"},
           next \notin {"off", "bind"},
           next = "spawn" => global[g] = "bind"
    PROVE  IInv'
  <1>1. TypesOnly /\ HolderOK /\ CreatedOK /\ OneUnderway /\ SessionsOK
    BY DEF IInv
  <1>2. /\ created' = created /\ main' = main /\ connected' = connected /\ sent' = sent
        /\ ready' = ready /\ monitor' = monitor /\ event' = event /\ bound' = bound
        /\ holder' = holder /\ store' = store /\ clients' = clients
        /\ overlapped' = overlapped
    BY DEF threadVars, sessionVars
  <1>3. TypesOnly'
    BY <1>1, <1>2 DEF TypesOnly
  <1>4. \A p \in Instances : ThreadOK(p)'
    BY <1>2 DEF IInv, ThreadOK
  <1>5. HolderOK' /\ SessionsOK'
    BY <1>1, <1>2 DEF HolderOK, SessionsOK
  <1>6. CreatedOK'
    BY <1>1, <1>2 DEF CreatedOK, TypesOnly
  <1>7. OneUnderway'
    <2>1. \A h \in Globals : Underway(h)' => Underway(h)
      BY <1>1, <1>2 DEF Underway, Alive, TypesOnly
    <2> QED BY <1>1, <1>2, <2>1 DEF OneUnderway
  <1> QED BY <1>3, <1>4, <1>5, <1>6, <1>7 DEF IInv

Flushes(g) ==
    /\ global[g] = "flush"
    /\ global' = [global EXCEPT ![g] = "bind"]
    /\ store' = [k \in Keys |-> Nobody]
    /\ overlapped' = (overlapped \/ \E h \in Globals \ {g} : Underway(h))
    /\ UNCHANGED <<created, cli, threadVars, holder, clients>>

LEMMA FlushesStep ==
    ASSUME IInv, NEW g \in Globals, Flushes(g)
    PROVE  IInv'
  <1>1. TypesOnly /\ HolderOK /\ CreatedOK /\ OneUnderway /\ SessionsOK
    BY DEF IInv
  <1>2. /\ created' = created /\ main' = main /\ connected' = connected /\ sent' = sent
        /\ ready' = ready /\ monitor' = monitor /\ event' = event /\ bound' = bound
        /\ holder' = holder /\ clients' = clients /\ cli' = cli
    BY DEF Flushes, threadVars
  <1>3. TypesOnly'
    <2>1. global' \in [Globals -> GlobalStages]
      BY <1>1 DEF TypesOnly, Flushes, GlobalStages
    <2>2. store' \in [Keys -> Instances \cup {Nobody}]
      BY DEF Flushes
    <2>3. overlapped' \in BOOLEAN
      BY DEF Flushes
    <2> QED BY <1>1, <1>2, <2>1, <2>2, <2>3 DEF TypesOnly
  <1>4. \A p \in Instances : ThreadOK(p)'
    BY <1>2 DEF IInv, ThreadOK
  <1>5. HolderOK' /\ CreatedOK'
    BY <1>1, <1>2 DEF HolderOK, CreatedOK, TypesOnly, Flushes
  <1>6. SessionsOK'
    BY <1>1, <1>2 DEF SessionsOK, Flushes
  <1>7. OneUnderway'
    <2>1. \A h \in Globals \ {g} : Underway(h)' => Underway(h)
      BY <1>1, <1>2 DEF Underway, Alive, TypesOnly, Flushes
    <2>2. \A k \in Keys : store'[k] = Nobody
      BY DEF Flushes
    <2>3. ASSUME ~overlapped', NEW h \in Globals \ {g} PROVE ~Underway(h)'
      BY <2>1, <2>3 DEF Flushes
    <2> QED BY <2>2, <2>3 DEF OneUnderway
  <1> QED BY <1>3, <1>4, <1>5, <1>6, <1>7 DEF IInv

LEMMA SpawnStep ==
    ASSUME IInv, NEW g \in Globals, Spawn(g)
    PROVE  IInv'
  <1> DEFINE p == <<g, created[g] + 1>>
  <1>1. TypesOnly /\ HolderOK /\ CreatedOK /\ OneUnderway /\ SessionsOK
    BY DEF IInv
  <1>2. /\ global' = global /\ cli' = cli /\ connected' = connected /\ sent' = sent
        /\ ready' = ready /\ monitor' = monitor /\ bound' = bound
        /\ holder' = holder /\ clients' = clients /\ store' = store
        /\ overlapped' = overlapped
    BY DEF Spawn, sessionVars
  <1>3. global[g] = "spawn" /\ created[g] \in Nat /\ ServerCount \in Nat
        /\ created[g] + 1 <= ServerCount
    BY <1>1, CountsAssumption DEF Spawn, TypesOnly, ServerCount
  <1>4. created' = [created EXCEPT ![g] = created[g] + 1]
    BY DEF Spawn
  <1>5. CASE main' = main /\ event' = event
    <2>1. TypesOnly'
      BY <1>1, <1>2, <1>3, <1>4, <1>5 DEF TypesOnly
    <2>2. \A q \in Instances : ThreadOK(q)'
      BY <1>2, <1>5 DEF IInv, ThreadOK
    <2>3. HolderOK' /\ SessionsOK'
      BY <1>1, <1>2, <1>5 DEF HolderOK, SessionsOK
    <2>4. CreatedOK'
      <3>1. \A h \in Globals : created'[h] \in Nat /\ created[h] \in Nat
                               /\ created[h] <= created'[h]
        BY <1>1, <1>3, <1>4 DEF TypesOnly
      <3>2. \A q \in Instances : created'[q[1]] < q[2] => created[q[1]] < q[2]
        BY <3>1, InstanceParts DEF Servers
      <3>3. \A h \in Globals : h # g => created'[h] = created[h]
        BY <1>1, <1>4 DEF TypesOnly
      <3> QED BY <1>1, <1>2, <1>3, <1>5, <3>2, <3>3 DEF CreatedOK
    <2>5. OneUnderway'
      <3>1. \A h \in Globals : Underway(h)' <=> Underway(h)
        BY <1>2, <1>5 DEF Underway, Alive
      <3> QED BY <1>1, <1>2, <3>1 DEF OneUnderway
    <2> QED BY <2>1, <2>2, <2>3, <2>4, <2>5 DEF IInv
  <1>6. CASE /\ p \in Instances
             /\ main' = [main EXCEPT ![p] = "sql"]
             /\ event' = [event EXCEPT ![p] = "connect"]
    <2>1. main[p] = "none"
      <3>1. p[1] = g /\ p[2] = created[g] + 1
        OBVIOUS
      <3> QED BY <1>1, <1>3, <1>6, <3>1 DEF CreatedOK
    <2>2. /\ main'[p] = "sql"
          /\ \A q \in Instances \ {p} : main'[q] = main[q]
      BY <1>1, <1>6 DEF TypesOnly
    <2>3. TypesOnly'
      <3>1. created' \in [Globals -> 0..ServerCount]
        BY <1>1, <1>3, <1>4 DEF TypesOnly
      <3>2. main' \in [Instances -> MainStages]
        BY <1>1, <1>6 DEF TypesOnly, MainStages
      <3>3. event' \in [Instances -> EventStages]
        BY <1>1, <1>6 DEF TypesOnly, EventStages
      <3> QED BY <1>1, <1>2, <3>1, <3>2, <3>3 DEF TypesOnly
    <2>4. ASSUME NEW q \in Instances PROVE ThreadOK(q)'
      <3>1. ThreadOK(q)
        BY DEF IInv
      <3>2. CASE q = p
        <4>1. /\ WorkersOf(p[2]) \in Nat /\ WorkersOf(p[2]) > 0
              /\ Len(Ports[p[2]]) \in Nat
          BY <1>6, InstanceParts
        <4>2. main'[q] = "sql" /\ main[q] = "none"
          BY <2>1, <2>2, <3>2
        <4> QED BY <1>2, <3>1, <3>2, <4>1, <4>2 DEF ThreadOK, Open
      <3>3. CASE q # p
        BY <1>2, <2>2, <3>1, <3>3 DEF ThreadOK
      <3> QED BY <3>2, <3>3
    <2>5. HolderOK'
      <3>1. \A q \in Instances : main[q] \in Open => main'[q] = main[q]
        BY <2>1, <2>2 DEF Open
      <3> QED BY <1>1, <1>2, <3>1 DEF HolderOK, TypesOnly
    <2>6. CreatedOK'
      <3>1. \A h \in Globals : created'[h] \in Nat /\ created[h] \in Nat
                               /\ created[h] <= created'[h]
        BY <1>1, <1>3, <1>4 DEF TypesOnly
      <3>2. \A q \in Instances : created'[q[1]] < q[2] => created[q[1]] < q[2]
        BY <3>1, InstanceParts DEF Servers
      <3>3. \A h \in Globals : h # g => created'[h] = created[h]
        BY <1>1, <1>4 DEF TypesOnly
      <3>4. p[1] = g /\ p[2] = created[g] + 1 /\ created'[g] = created[g] + 1
        BY <1>1, <1>4 DEF TypesOnly
      <3>5. ~(created'[p[1]] < p[2])
        BY <1>3, <3>4
      <3>6. ASSUME NEW q \in Instances, created'[q[1]] < q[2] PROVE main'[q] = "none"
        <4>1. q # p
          BY <3>5, <3>6
        <4>2. main[q] = "none"
          BY <1>1, <3>2, <3>6 DEF CreatedOK
        <4> QED BY <2>2, <4>1, <4>2
      <3> QED BY <1>1, <1>2, <1>3, <3>3, <3>6 DEF CreatedOK
    <2>7. OneUnderway'
      <3>1. \A h \in Globals : Underway(h)' => Underway(h)
        <4>1. Underway(g)
          BY <1>3 DEF Underway
        <4>2. ASSUME NEW h \in Globals, h # g PROVE Underway(h)' => Underway(h)
          <5>1. \A s \in Followed : <<h, s>> \in Instances /\ <<h, s>> # p
            BY <4>2 DEF Instances
          <5>2. \A s \in Followed : main'[<<h, s>>] = main[<<h, s>>]
            BY <2>2, <5>1
          <5> QED BY <1>2, <5>2 DEF Underway, Alive
        <4> QED BY <4>1, <4>2
      <3> QED BY <1>1, <1>2, <3>1 DEF OneUnderway
    <2>8. SessionsOK'
      <3>1. \A q \in Instances : main[q] = "serving" => main'[q] = "serving"
        BY <2>1, <2>2
      <3> QED BY <1>1, <1>2, <3>1 DEF SessionsOK
    <2> QED BY <2>3, <2>4, <2>5, <2>6, <2>7, <2>8 DEF IInv
  <1>7. \/ main' = main /\ event' = event
        \/ /\ p \in Instances
           /\ main' = [main EXCEPT ![p] = "sql"]
           /\ event' = [event EXCEPT ![p] = "connect"]
    BY DEF Spawn
  <1> QED BY <1>5, <1>6, <1>7

LEMMA GlobalStep ==
    ASSUME IInv, NEW g \in Globals, GlobalNext(g)
    PROVE  IInv'
  <1>1. TypesOnly
    BY DEF IInv
  <1>2. CASE Launch(g)
    BY <1>1, <1>2, GlobalMoves DEF Launch, TypesOnly, GlobalStages, threadVars, sessionVars
  <1>3. CASE GlobalConnects(g)
    BY <1>1, <1>3, GlobalMoves
       DEF GlobalConnects, TypesOnly, GlobalStages, threadVars, sessionVars
  <1>4. CASE FlushRedis(g)
    <2>1. CASE Flushes(g)
      BY <2>1, FlushesStep
    <2>2. CASE ~Flushes(g)
      <3>1. /\ global' = [global EXCEPT ![g] = "gone"]
            /\ UNCHANGED <<created, cli, threadVars, holder, sessionVars, overlapped>>
        BY <1>4, <2>2 DEF FlushRedis, Flushes, sessionVars
      <3> QED BY <1>1, <3>1, GlobalMoves DEF TypesOnly, GlobalStages
    <2> QED BY <2>1, <2>2
  <1>5. CASE BindCli(g)
    <2>1. CASE cli = Nobody
      BY <1>1, <1>5, <2>1, GlobalMoves DEF BindCli, TypesOnly, GlobalStages
    <2>2. CASE cli # Nobody
      BY <1>1, <1>5, <2>2, GlobalMoves DEF BindCli, TypesOnly, GlobalStages
    <2> QED BY <2>1, <2>2
  <1>6. CASE Spawn(g)
    BY <1>6, SpawnStep
  <1>7. CASE Poll(g)
    BY <1>1, <1>7, GlobalMoves DEF Poll, TypesOnly, GlobalStages
  <1>8. CASE StopGlobal(g)
    BY <1>1, <1>8, GlobalMoves DEF StopGlobal, TypesOnly, GlobalStages
  <1> QED BY <1>2, <1>3, <1>4, <1>5, <1>6, <1>7, <1>8 DEF GlobalNext

-----------------------------------------------------------------------------
(* The clients. *)

LEMMA ClientStep ==
    ASSUME IInv, NEW p \in Instances, NEW id \in Identities, Packet(p, id) \/ Leave(p, id)
    PROVE  IInv'
  <1> DEFINE k == KeyOf(p, id)
  <1>1. TypesOnly /\ HolderOK /\ CreatedOK /\ OneUnderway /\ SessionsOK
    BY DEF IInv
  <1>2. /\ global' = global /\ created' = created /\ cli' = cli
        /\ main' = main /\ connected' = connected /\ sent' = sent
        /\ ready' = ready /\ monitor' = monitor /\ event' = event /\ bound' = bound
        /\ holder' = holder /\ overlapped' = overlapped /\ main[p] = "serving"
    BY DEF Packet, Leave, globalVars, threadVars
  <1>3. k \in Keys /\ k[1] = RouterId(p[2])
    BY KeyIsKey
  <1>4. p \in Instances /\ p # Nobody /\ p[1] \in Globals
    BY InstanceParts
  <1>5. /\ store'[k] \in {p, store[k], Nobody}
        /\ \A j \in Keys : j # k => store'[j] = store[j]
        /\ store' \in [Keys -> Instances \cup {Nobody}]
    BY <1>1, <1>3, <1>4 DEF Packet, Leave, TypesOnly
  <1>6. /\ clients' \in [Instances -> SUBSET Identities]
        /\ \A q \in Instances : q # p => clients'[q] = clients[q]
    BY <1>1 DEF Packet, Leave, TypesOnly
  <1>7. TypesOnly'
    BY <1>1, <1>2, <1>5, <1>6 DEF TypesOnly
  <1>8. \A q \in Instances : ThreadOK(q)'
    BY <1>2 DEF IInv, ThreadOK
  <1>9. HolderOK' /\ CreatedOK'
    BY <1>1, <1>2 DEF HolderOK, CreatedOK
  <1>10. OneUnderway'
    <2>1. \A h \in Globals : Underway(h)' <=> Underway(h)
      BY <1>2 DEF Underway, Alive
    <2>2. Underway(p[1])
      <3>1. p = <<p[1], p[2]>> /\ p[2] \in Followed
        BY InstanceParts
      <3> QED BY <1>2, <3>1 DEF Underway, Alive
    <2>3. ASSUME ~overlapped', NEW j \in Keys, NEW h \in Globals, store'[j] # Nobody,
                 Underway(h)'
          PROVE  store'[j][1] = h
      <3>1. ~overlapped /\ Underway(h)
        BY <1>2, <2>1, <2>3
      <3>2. CASE store'[j] = store[j]
        BY <1>1, <2>3, <3>1, <3>2 DEF OneUnderway
      <3>3. CASE store'[j] # store[j]
        <4>1. store'[j] = p
          BY <1>5, <2>3, <3>3
        <4>2. p[1] = h
          BY <1>1, <1>4, <2>2, <3>1 DEF OneUnderway
        <4> QED BY <4>1, <4>2
      <3> QED BY <3>2, <3>3
    <2>4. ASSUME ~overlapped', NEW g \in Globals, NEW h \in Globals, Underway(g)', Underway(h)'
          PROVE  g = h
      BY <1>1, <1>2, <2>1, <2>4 DEF OneUnderway
    <2> QED BY <2>3, <2>4 DEF OneUnderway
  <1>11. SessionsOK'
    BY <1>1, <1>2, <1>3, <1>5, <1>6 DEF SessionsOK
  <1> QED BY <1>7, <1>8, <1>9, <1>10, <1>11 DEF IInv

-----------------------------------------------------------------------------
(* The theorems. *)

LEMMA NextIInv == IInv /\ [Next]_vars => IInv'
  <1> SUFFICES ASSUME IInv, [Next]_vars PROVE IInv'
    OBVIOUS
  <1>1. CASE UNCHANGED vars
    <2>1. /\ UNCHANGED <<globalVars, threadVars, holder, sessionVars, overlapped>>
      BY <1>1 DEF vars
    <2>2. /\ global' = global /\ created' = created /\ cli' = cli /\ main' = main
          /\ connected' = connected /\ sent' = sent /\ ready' = ready /\ monitor' = monitor
          /\ event' = event /\ bound' = bound /\ holder' = holder /\ store' = store
          /\ clients' = clients /\ overlapped' = overlapped
      BY <2>1 DEF globalVars, threadVars, sessionVars
    <2> QED BY <2>2 DEF IInv, TypesOnly, ThreadOK, HolderOK, CreatedOK, OneUnderway,
                        SessionsOK, Underway, Alive
  <1>2. CASE \E g \in Globals : GlobalNext(g)
    BY <1>2, GlobalStep
  <1>3. ASSUME NEW p \in Instances, Thread(p) PROVE IInv'
    <2>1. CASE WorkerConnectsMySQL(p)
      <3>1. CASE Exit(p)
        BY <2>1, <3>1, ExitStep DEF WorkerConnectsMySQL, Alive
      <3>2. CASE ~Exit(p)
        BY <2>1, <3>2, LocalActions DEF WorkerConnectsMySQL
      <3> QED BY <3>1, <3>2
    <2>2. CASE BindPort(p)
      <3>1. CASE Exit(p)
        BY <2>2, <3>1, ExitStep DEF BindPort, Alive
      <3>2. CASE ~Exit(p)
        BY <2>2, <3>2, BindsStep DEF BindPort, Binds
      <3> QED BY <3>1, <3>2
    <2> QED BY <1>3, <2>1, <2>2, LocalActions DEF Thread
  <1>4. ASSUME NEW p \in Instances, EventServerJoins(p) PROVE IInv'
    BY <1>4, LocalActions
  <1>5. ASSUME NEW p \in Instances, Crash(p) PROVE IInv'
    BY <1>5, ExitStep DEF Crash
  <1>6. ASSUME NEW p \in Instances, NEW id \in Identities, Packet(p, id) \/ Leave(p, id)
        PROVE  IInv'
    BY <1>6, ClientStep
  <1> QED BY <1>1, <1>2, <1>3, <1>4, <1>5, <1>6 DEF Next

(* IInv holds in every reachable state. *)
THEOREM Invariance == Spec => []IInv
  BY InitIInv, NextIInv, PTL DEF Spec

(* Every variable keeps its type, and no counter passes the configuration. *)
THEOREM TypeCorrectness == Spec => []TypeOK
  <1>1. IInv => TypeOK
    BY DEF IInv, TypesOnly, ThreadOK, TypeOK
  <1> QED BY <1>1, Invariance, PTL

LEMMA IInvReady == IInv => FrontendMeansReady
  <1> SUFFICES ASSUME IInv, NEW e \in Endpoints, holder[e] # Nobody
               PROVE  /\ Alive(holder[e])
                      /\ ready[holder[e]] = WorkersOf(holder[e][2])
                      /\ monitor[holder[e]] = "listens"
    BY DEF FrontendMeansReady
  <1>1. holder[e] \in Instances /\ main[holder[e]] \in Open
    BY DEF IInv, TypesOnly, HolderOK
  <1>2. ThreadOK(holder[e])
    BY <1>1 DEF IInv
  <1> QED BY <1>1, <1>2 DEF ThreadOK, Open, Alive

(* No port of clients is open before every worker of its server is          *)
(* registered and its monitor listens (Router.c:390-405).                   *)
THEOREM PortsOpenLast == Spec => []FrontendMeansReady
  BY Invariance, IInvReady, PTL

LEMMA IInvOneServer == IInv => OneServerPerId
  <1> SUFFICES ASSUME IInv, NEW p \in Instances, NEW q \in Instances,
                      main[p] = "serving", main[q] = "serving",
                      RouterId(p[2]) = RouterId(q[2])
               PROVE  p = q
    BY DEF OneServerPerId
  <1>1. p[2] \in Servers /\ q[2] \in Servers
    BY InstanceParts
  <1>2. p[2] = q[2]
    BY <1>1, RouterIdsDistinct
  <1>3. \A r \in Instances : main[r] = "serving" => 1 \in 1..bound[r]
    <2>1. SUFFICES ASSUME NEW r \in Instances, main[r] = "serving" PROVE 1 \in 1..bound[r]
      OBVIOUS
    <2>2. Len(Ports[r[2]]) \in Nat /\ Len(Ports[r[2]]) > 0
      BY InstanceParts
    <2>3. bound[r] = Len(Ports[r[2]])
      BY <2>1 DEF IInv, ThreadOK
    <2> QED BY <2>2, <2>3
  <1>4. holder[Ports[p[2]][1]] = p /\ holder[Ports[q[2]][1]] = q
    BY <1>3 DEF IInv, HolderOK
  <1> QED BY <1>2, <1>4

(* However many GlobalServers are started, two processes never serve under   *)
(* one router id (Router.c:622-640).                                        *)
THEOREM UniqueServer == Spec => []OneServerPerId
  BY Invariance, IInvOneServer, PTL

LEMMA IInvNoForeign == IInv => NoForeignSession
  <1> SUFFICES ASSUME IInv, ~overlapped, NEW p \in Instances, NEW id \in Identities, Alive(p),
                      store[KeyOf(p, id)] # Nobody
               PROVE  store[KeyOf(p, id)] = p
    BY DEF NoForeignSession
  <1> DEFINE q == store[KeyOf(p, id)]
  <1>1. KeyOf(p, id) \in Keys /\ KeyOf(p, id)[1] = RouterId(p[2])
    BY KeyIsKey
  <1>2. q \in Instances
    BY <1>1 DEF IInv, TypesOnly
  <1>3. RouterId(q[2]) = RouterId(p[2])
    BY <1>1 DEF IInv, SessionsOK
  <1>4. p = <<p[1], p[2]>> /\ q = <<q[1], q[2]>> /\ p[2] \in Followed
        /\ p[1] \in Globals /\ p[2] \in Servers /\ q[2] \in Servers
    BY <1>2, InstanceParts
  <1>5. q[2] = p[2]
    BY <1>3, <1>4, RouterIdsDistinct
  <1>6. q[1] = p[1]
    <2>1. Underway(p[1])
      BY <1>4 DEF Underway
    <2> QED BY <1>1, <1>4, <2>1 DEF IInv, OneUnderway
  <1> QED BY <1>4, <1>5, <1>6

(* A server finds no sessions under its router id but its own, unless Redis  *)
(* was flushed while servers of another GlobalServer were alive.            *)
THEOREM CleanStart == Spec => []NoForeignSession
  BY Invariance, IInvNoForeign, PTL

LEMMA DropIsFlush ==
    ASSUME IInv, [Next]_vars, NEW p \in Instances, NEW id \in Identities, SessionDropped(p, id)
    PROVE  \E g \in Globals \ {p[1]} : global[g] = "flush" /\ global'[g] = "bind"
  <1> DEFINE k == KeyOf(p, id)
  <1>1. /\ TypesOnly /\ SessionsOK /\ CreatedOK /\ OneServerPerId
        /\ id \in clients[p] /\ id \in clients'[p] /\ store[k] # Nobody /\ store'[k] # store[k]
    BY IInvOneServer DEF IInv, SessionDropped
  <1>2. main[p] = "serving" /\ k \in Keys
    BY <1>1, KeyIsKey DEF SessionsOK
  <1>3. store' # store
    BY <1>1
  <1>4. PICK g \in Globals : Flushes(g) \/ \E q \in Instances, i \in Identities :
                                              Packet(q, i) \/ Leave(q, i)
    <2>1. ASSUME NEW q \in Instances, Thread(q) \/ EventServerJoins(q) \/ Crash(q)
          PROVE  FALSE
      BY <1>3, <2>1 DEF Thread, WorkerConnectsMySQL, WorkerConnectsRedis, StartServer,
           WorkerReady, RegisterWorker, MonitorConnectsRedis, MonitorConnectsMySQL,
           MonitorIsReady, BindPort, EventServerJoins, Crash, Exit, sessionVars
    <2>2. ASSUME NEW g \in Globals, GlobalNext(g) PROVE Flushes(g)
      BY <1>3, <2>2 DEF GlobalNext, Launch, GlobalConnects, FlushRedis, BindCli, Spawn,
           Poll, StopGlobal, Flushes, sessionVars
    <2>3. p[1] \in Globals
      BY InstanceParts
    <2>4. Next
      BY <1>3 DEF vars, sessionVars
    <2> QED BY <2>1, <2>2, <2>3, <2>4 DEF Next
  <1>5. CASE Flushes(g)
    <2>1. global[g] = "flush" /\ global'[g] = "bind"
      BY <1>1, <1>5 DEF Flushes, TypesOnly
    <2>2. g # p[1]
      <3>1. created[g] = 0
        BY <1>1, <2>1 DEF CreatedOK
      <3>2. p[2] \in Servers
        BY InstanceParts
      <3>3. 0 < p[2]
        BY <3>2, CountsAssumption DEF Servers, ServerCount
      <3> QED BY <1>1, <1>2, <3>1, <3>3 DEF CreatedOK
    <2> QED BY <2>1, <2>2
  <1>6. ASSUME NEW q \in Instances, NEW i \in Identities, Packet(q, i) \/ Leave(q, i)
        PROVE  FALSE
    <2>1. KeyOf(q, i) \in Keys /\ k = KeyOf(q, i)
      BY <1>1, <1>2, <1>6, KeyIsKey DEF Packet, Leave, TypesOnly
    <2>2. CASE Packet(q, i)
      BY <1>1, <1>2, <2>1, <2>2 DEF Packet, TypesOnly
    <2>3. CASE Leave(q, i)
      <3>1. RouterId(p[2]) = RouterId(q[2]) /\ i = id
        BY <2>1 DEF KeyOf
      <3>2. p = q
        BY <1>1, <1>2, <2>3, <3>1 DEF OneServerPerId, Leave
      <3>3. id \notin clients'[p]
        BY <1>1, <2>3, <3>1, <3>2 DEF Leave, TypesOnly
      <3> QED BY <1>1, <3>3
    <2> QED BY <1>6, <2>2, <2>3
  <1> QED BY <1>4, <1>5, <1>6

(* The session of a connected client goes only by the flush of a GlobalServer *)
(* other than the one that created its server (main.c:54-66).               *)
THEOREM SessionsKept == Spec => OnlyAnotherFlushDrops
  <1> DEFINE Kept == \A p \in Instances, id \in Identities :
                        SessionDropped(p, id) =>
                          \E g \in Globals \ {p[1]} : global[g] = "flush" /\ global'[g] = "bind"
  <1>1. IInv /\ [Next]_vars => [Kept]_vars
    BY DropIsFlush
  <1> QED BY <1>1, Invariance, PTL DEF Spec, OnlyAnotherFlushDrops
-----------------------------------------------------------------------------
(* How a process settles: it has only so many steps to make, and while it has *)
(* not settled one of them is there to be made.                               *)

\* Stages that follow stage m of the main thread; the workers that are still to
\* be connected come on top.
After(m) ==
    CASE m = "none" -> 5
      [] m \in {"sql", "start"} -> 4
      [] m \in {"redis", "reactor"} -> 3
      [] m = "handshake" -> 2
      [] m = "bind" -> 1
      [] OTHER -> 0

MonitorLeft(m) ==
    CASE m = "none" -> 3
      [] m = "redis" -> 2
      [] m = "sql" -> 1
      [] OTHER -> 0

EventLeft(e) == IF e \in {"none", "connect"} THEN 1 ELSE 0

\* a, m, e and b steps are left to the main thread, the monitor, the event
\* server and the ports; of w workers c are connected (two steps each), s have
\* announced themselves and r are registered.
Total(a, m, e, b, w, c, s, r) == a + m + e + b + 2 * (w - c) + (w - s) + (w - r)

\* At most so many steps are left to the threads of p.
StartupLeft(p) ==
    IF main[p] = "gone" THEN 0
    ELSE Total(After(main[p]), MonitorLeft(monitor[p]), EventLeft(event[p]),
               Len(Ports[p[2]]) - bound[p],
               WorkersOf(p[2]), connected[p], sent[p], ready[p])

\* A thread of p can go on: the guards of its steps, of which those that wait
\* for Redis have none.
CanGoOn(p) ==
    \/ main[p] \in {"sql", "redis", "start"}
    \/ main[p] = "reactor" /\ (sent[p] < connected[p] \/ ready[p] < sent[p])
    \/ main[p] = "handshake" /\ monitor[p] = "listens"
    \/ main[p] = "bind" /\ bound[p] < Len(Ports[p[2]])
    \/ monitor[p] \in {"redis", "sql"}
    \/ event[p] = "connect"

\* The threads of p end with it and begin with it, and its main thread goes on
\* only when its workers have.
Begun(p) ==
    /\ main[p] = "gone" => monitor[p] = "ended" /\ event[p] = "ended"
    /\ main[p] \notin {"none", "gone"} => event[p] \in {"connect", "listens"}
    /\ main[p] \in {"sql", "redis", "start"} => ready[p] = 0
    /\ main[p] \in {"start", "reactor"} => connected[p] = WorkersOf(p[2])
    /\ main[p] = "reactor" => ready[p] < WorkersOf(p[2])
    /\ main[p] = "handshake" => monitor[p] # "none"

\* The state of the threads of p
LEMMA PartTypes ==
    ASSUME IInv, NEW p \in Instances
    PROVE  /\ main[p] \in MainStages /\ monitor[p] \in MonitorStages /\ event[p] \in EventStages
           /\ connected[p] \in Nat /\ sent[p] \in Nat /\ ready[p] \in Nat /\ bound[p] \in Nat
           /\ WorkersOf(p[2]) \in Nat /\ WorkersOf(p[2]) > 0
           /\ Len(Ports[p[2]]) \in Nat
           /\ connected[p] <= WorkersOf(p[2]) /\ sent[p] <= connected[p]
           /\ ready[p] <= sent[p] /\ bound[p] <= Len(Ports[p[2]])
  <1>1. TypesOnly /\ ThreadOK(p)
    BY DEF IInv
  <1> QED BY <1>1, InstanceParts DEF TypesOnly, ThreadOK

LEMMA TotalIsNat ==
    ASSUME NEW a \in Nat, NEW m \in Nat, NEW e \in Nat, NEW b \in Nat,
           NEW w \in Nat, NEW c \in 0..w, NEW s \in 0..w, NEW r \in 0..w
    PROVE  Total(a, m, e, b, w, c, s, r) \in Nat /\ Total(a, m, e, b, w, c, s, r) >= a
  BY DEF Total

\* The parts of StartupLeft
LEMMA PartNats ==
    ASSUME NEW x
    PROVE  After(x) \in Nat /\ MonitorLeft(x) \in Nat /\ EventLeft(x) \in Nat
  BY DEF After, MonitorLeft, EventLeft

LEMMA LeftTypes ==
    ASSUME IInv, NEW p \in Instances
    PROVE  /\ main[p] \notin {"gone", "serving"} => After(main[p]) > 0
           /\ Len(Ports[p[2]]) - bound[p] \in Nat
           /\ WorkersOf(p[2]) \in Nat
           /\ connected[p] \in 0..WorkersOf(p[2])
           /\ sent[p] \in 0..WorkersOf(p[2])
           /\ ready[p] \in 0..WorkersOf(p[2])
  <1>1. main[p] \notin {"gone", "serving"} => After(main[p]) > 0
    BY PartTypes DEF After, MainStages
  <1> QED BY <1>1, PartTypes

LEMMA LeftTypesNext ==
    ASSUME IInv', NEW p \in Instances
    PROVE  /\ Len(Ports[p[2]]) - bound'[p] \in Nat /\ bound'[p] \in Nat
           /\ connected'[p] \in 0..WorkersOf(p[2])
           /\ sent'[p] \in 0..WorkersOf(p[2])
           /\ ready'[p] \in 0..WorkersOf(p[2])
  <1>1. TypesOnly' /\ ThreadOK(p)'
    BY DEF IInv
  <1>2. /\ connected'[p] \in Nat /\ sent'[p] \in Nat /\ ready'[p] \in Nat /\ bound'[p] \in Nat
        /\ connected'[p] <= WorkersOf(p[2]) /\ sent'[p] <= connected'[p]
        /\ ready'[p] <= sent'[p] /\ bound'[p] <= Len(Ports[p[2]])
    BY <1>1 DEF TypesOnly, ThreadOK
  <1> QED BY <1>2, InstanceParts

LEMMA LeftIsNat ==
    ASSUME IInv, NEW p \in Instances
    PROVE  /\ StartupLeft(p) \in Nat
           /\ main[p] \notin {"gone", "serving"} => StartupLeft(p) > 0
  <1> DEFINE n == Total(After(main[p]), MonitorLeft(monitor[p]), EventLeft(event[p]),
                        Len(Ports[p[2]]) - bound[p],
                        WorkersOf(p[2]), connected[p], sent[p], ready[p])
  <1>1. n \in Nat /\ n >= After(main[p])
    BY LeftTypes, PartNats, TotalIsNat
  <1>2. StartupLeft(p) = IF main[p] = "gone" THEN 0 ELSE n
    BY DEF StartupLeft
  <1> HIDE DEF n
  <1>3. main[p] \notin {"gone", "serving"} => n > 0
    BY <1>1, LeftTypes, PartNats
  <1> QED BY <1>1, <1>2, <1>3

LEMMA LeftIsNatNext ==
    ASSUME IInv', NEW p \in Instances
    PROVE  StartupLeft(p)' \in Nat
  <1> DEFINE n == Total(After(main'[p]), MonitorLeft(monitor'[p]), EventLeft(event'[p]),
                        Len(Ports[p[2]]) - bound'[p],
                        WorkersOf(p[2]), connected'[p], sent'[p], ready'[p])
  <1>1. n \in Nat
    BY LeftTypesNext, InstanceParts, PartNats, TotalIsNat
  <1>2. StartupLeft(p)' = IF main'[p] = "gone" THEN 0 ELSE n
    BY DEF StartupLeft
  <1> HIDE DEF n
  <1> QED BY <1>1, <1>2

\* A step undoes nothing of what the threads of p have done,
Keeps(p) ==
    /\ main[p] # "gone" /\ main'[p] # "gone"
    /\ After(main'[p]) <= After(main[p])
    /\ MonitorLeft(monitor'[p]) <= MonitorLeft(monitor[p])
    /\ EventLeft(event'[p]) <= EventLeft(event[p])
    /\ bound[p] <= bound'[p] /\ connected[p] <= connected'[p]
    /\ sent[p] <= sent'[p] /\ ready[p] <= ready'[p]

\* and adds to it.
Adds(p) ==
    \/ After(main'[p]) # After(main[p])
    \/ MonitorLeft(monitor'[p]) # MonitorLeft(monitor[p])
    \/ EventLeft(event'[p]) # EventLeft(event[p])
    \/ bound'[p] # bound[p]
    \/ sent'[p] # sent[p]
    \/ ready'[p] # ready[p]

LEMMA LeftFalls ==
    ASSUME IInv, IInv', NEW p \in Instances, Keeps(p)
    PROVE  /\ StartupLeft(p)' <= StartupLeft(p)
           /\ Adds(p) => StartupLeft(p)' < StartupLeft(p)
  <1> DEFINE a == After(main[p])                 a1 == After(main'[p])
             m == MonitorLeft(monitor[p])        m1 == MonitorLeft(monitor'[p])
             e == EventLeft(event[p])            e1 == EventLeft(event'[p])
             b == Len(Ports[p[2]]) - bound[p]    b1 == Len(Ports[p[2]]) - bound'[p]
             w == WorkersOf(p[2])
  <1>1. /\ a \in Nat /\ m \in Nat /\ e \in Nat /\ b \in Nat /\ w \in Nat
        /\ connected[p] \in 0..w /\ sent[p] \in 0..w /\ ready[p] \in 0..w
    BY LeftTypes, PartNats
  <1>2. /\ a1 \in Nat /\ m1 \in Nat /\ e1 \in Nat /\ b1 \in Nat
        /\ connected'[p] \in 0..w /\ sent'[p] \in 0..w /\ ready'[p] \in 0..w
    BY LeftTypesNext, PartNats
  <1>3. b1 <= b /\ (bound'[p] # bound[p] => b1 # b)
    <2>1. bound[p] \in Nat /\ bound'[p] \in Nat /\ Len(Ports[p[2]]) \in Nat
      BY PartTypes, LeftTypesNext
    <2>2. bound[p] <= bound'[p]
      BY DEF Keeps
    <2> QED BY <2>1, <2>2
  <1>4. /\ StartupLeft(p) = Total(a, m, e, b, w, connected[p], sent[p], ready[p])
        /\ StartupLeft(p)' = Total(a1, m1, e1, b1, w, connected'[p], sent'[p], ready'[p])
    BY DEF StartupLeft, Keeps
  <1>5. /\ a1 <= a /\ m1 <= m /\ e1 <= e
        /\ connected[p] <= connected'[p] /\ sent[p] <= sent'[p] /\ ready[p] <= ready'[p]
    BY DEF Keeps
  <1>8. Adds(p) => \/ a1 # a \/ m1 # m \/ e1 # e \/ b1 # b
                   \/ sent'[p] # sent[p] \/ ready'[p] # ready[p]
    BY <1>3 DEF Adds
  <1> HIDE DEF a, m, e, b, a1, m1, e1, b1, w
  <1>6. /\ a1 \in 0..a /\ m1 \in 0..m /\ e1 \in 0..e /\ b1 \in 0..b
        /\ connected'[p] \in connected[p]..w /\ sent'[p] \in sent[p]..w
        /\ ready'[p] \in ready[p]..w
    BY <1>1, <1>2, <1>3, <1>5
  <1>7. /\ StartupLeft(p)' <= StartupLeft(p)
        /\ a1 # a \/ m1 # m \/ e1 # e \/ b1 # b \/ sent'[p] # sent[p] \/ ready'[p] # ready[p]
             => StartupLeft(p)' < StartupLeft(p)
    BY <1>1, <1>4, <1>6 DEF Total
  <1> QED BY <1>7, <1>8

\* What a step leaves alone it keeps.
LEMMA Untouched ==
    ASSUME IInv, NEW p \in Instances
    PROVE  /\ main'[p] = main[p] => After(main'[p]) <= After(main[p])
           /\ monitor'[p] = monitor[p] => MonitorLeft(monitor'[p]) <= MonitorLeft(monitor[p])
           /\ event'[p] = event[p] => EventLeft(event'[p]) <= EventLeft(event[p])
           /\ bound'[p] = bound[p] => bound[p] <= bound'[p]
           /\ connected'[p] = connected[p] => connected[p] <= connected'[p]
           /\ sent'[p] = sent[p] => sent[p] <= sent'[p]
           /\ ready'[p] = ready[p] => ready[p] <= ready'[p]
  <1>1. /\ After(main[p]) \in Nat /\ MonitorLeft(monitor[p]) \in Nat /\ EventLeft(event[p]) \in Nat
    BY PartNats
  <1> QED BY <1>1, PartTypes

\* A step that changes no thread of p
LEMMA StillLeft ==
    ASSUME NEW p \in Instances, Begun(p),
           main'[p] = main[p], monitor'[p] = monitor[p], event'[p] = event[p],
           connected'[p] = connected[p], sent'[p] = sent[p], ready'[p] = ready[p],
           bound'[p] = bound[p]
    PROVE  Begun(p)' /\ StartupLeft(p)' = StartupLeft(p)
  BY DEF Begun, StartupLeft

LEMMA ExitLeft ==
    ASSUME IInv, NEW p \in Instances, Exit(p)
    PROVE  Begun(p)' /\ StartupLeft(p)' = 0
  <1>1. TypesOnly
    BY DEF IInv
  <1>2. main'[p] = "gone" /\ monitor'[p] = "ended" /\ event'[p] = "ended"
    BY <1>1 DEF Exit, TypesOnly
  <1> QED BY <1>2 DEF Begun, StartupLeft

\* What the main thread does before the reactor waits for messages
LEMMA ConnectLeft ==
    ASSUME IInv, IInv', NEW p \in Instances, Begun(p),
           WorkerConnectsMySQL(p) \/ WorkerConnectsRedis(p) \/ StartServer(p)
    PROVE  Begun(p)' /\ StartupLeft(p)' < StartupLeft(p)
  <1>1. TypesOnly /\ ThreadOK(p)
    BY DEF IInv
  <1>2. CASE Exit(p) /\ main[p] = "sql"
    BY <1>2, LeftIsNat, ExitLeft
  <1>3. CASE /\ main[p] = "sql" /\ main'[p] = "redis"
             /\ UNCHANGED <<connected, sent, ready, monitor, event, bound>>
    <2>1. After(main[p]) = 4 /\ After(main'[p]) = 3
      BY <1>3 DEF After
    <2>2a. Keeps(p) /\ Adds(p)
      BY <1>3, <2>1, PartTypes, Untouched DEF Keeps, Adds
    <2>2. StartupLeft(p)' < StartupLeft(p)
      BY <2>2a, LeftFalls
    <2> QED BY <1>3, <2>2 DEF Begun
  <1>4. CASE /\ main[p] = "redis" /\ main'[p] \in {"start", "sql"}
             /\ connected'[p] = connected[p] + 1
             /\ main'[p] = "start" => connected'[p] = WorkersOf(p[2])
             /\ UNCHANGED <<sent, ready, monitor, event, bound>>
    <2> DEFINE m == MonitorLeft(monitor[p])
               e == EventLeft(event[p])
               b == Len(Ports[p[2]]) - bound[p]
               w == WorkersOf(p[2])
    <2>1. After(main[p]) = 3 /\ After(main'[p]) = 4
      BY <1>4 DEF After
    <2>2. /\ m \in Nat /\ e \in Nat /\ b \in Nat /\ w \in Nat
          /\ connected[p] \in 0..w /\ sent[p] \in 0..w /\ ready[p] \in 0..w
          /\ connected[p] + 1 <= w
      BY <1>1, <1>4, LeftTypes, PartNats, PartTypes DEF ThreadOK
    <2>3. /\ StartupLeft(p) = Total(3, m, e, b, w, connected[p], sent[p], ready[p])
          /\ StartupLeft(p)' = Total(4, m, e, b, w, connected[p] + 1, sent[p], ready[p])
      BY <1>4, <2>1 DEF StartupLeft
    <2> HIDE DEF m, e, b, w
    <2>4. StartupLeft(p)' < StartupLeft(p)
      BY <2>2, <2>3 DEF Total
    <2> QED BY <1>4, <2>4 DEF Begun
  <1>5. CASE /\ main[p] = "start" /\ main'[p] = "reactor"
             /\ UNCHANGED <<connected, sent, ready, monitor, event, bound>>
    <2>1. After(main[p]) = 4 /\ After(main'[p]) = 3
      BY <1>5 DEF After
    <2>2a. Keeps(p) /\ Adds(p)
      BY <1>5, <2>1, PartTypes, Untouched DEF Keeps, Adds
    <2>2. StartupLeft(p)' < StartupLeft(p)
      BY <2>2a, LeftFalls
    <2> QED BY <1>5, <2>2, PartTypes DEF Begun
  <1>6. CASE WorkerConnectsMySQL(p)
    BY <1>1, <1>2, <1>3, <1>6 DEF TypesOnly, WorkerConnectsMySQL
  <1>7. CASE WorkerConnectsRedis(p)
    BY <1>1, <1>4, <1>7 DEF TypesOnly, WorkerConnectsRedis
  <1>8. CASE StartServer(p)
    BY <1>1, <1>5, <1>8 DEF TypesOnly, StartServer
  <1> QED BY <1>6, <1>7, <1>8

\* READY of the workers and of the monitor, and what follows them
LEMMA ReactorLeft ==
    ASSUME IInv, IInv', NEW p \in Instances, Begun(p),
           WorkerReady(p) \/ RegisterWorker(p) \/ MonitorIsReady(p)
    PROVE  Begun(p)' /\ StartupLeft(p)' < StartupLeft(p)
  <1>1. TypesOnly /\ ThreadOK(p)
    BY DEF IInv
  <1>2. CASE WorkerReady(p)
    <2>1. /\ main[p] = "reactor" /\ sent'[p] = sent[p] + 1
          /\ UNCHANGED <<main, connected, ready, monitor, event, bound>>
      BY <1>1, <1>2 DEF TypesOnly, WorkerReady
    <2>2a. Keeps(p) /\ Adds(p)
      BY <2>1, PartTypes, Untouched DEF Keeps, Adds
    <2>2. StartupLeft(p)' < StartupLeft(p)
      BY <2>2a, LeftFalls
    <2> QED BY <2>1, <2>2 DEF Begun
  <1>3. CASE RegisterWorker(p) /\ ready[p] + 1 # WorkersOf(p[2])
    <2>1. /\ main[p] = "reactor" /\ ready'[p] = ready[p] + 1 /\ ready[p] < sent[p]
          /\ UNCHANGED <<main, connected, sent, monitor, event, bound>>
      BY <1>1, <1>3 DEF TypesOnly, RegisterWorker
    <2>2a. Keeps(p) /\ Adds(p)
      BY <2>1, PartTypes, Untouched DEF Keeps, Adds
    <2>2. StartupLeft(p)' < StartupLeft(p)
      BY <2>2a, LeftFalls
    <2>3. ready'[p] < WorkersOf(p[2])
      <3>1. /\ ready[p] \in Nat /\ sent[p] \in Nat /\ WorkersOf(p[2]) \in Nat
            /\ ready[p] < sent[p] /\ sent[p] <= connected[p] /\ connected[p] = WorkersOf(p[2])
        BY <2>1, PartTypes DEF Begun
      <3> QED BY <1>3, <2>1, <3>1
    <2> QED BY <2>1, <2>2, <2>3 DEF Begun
  <1>4. CASE RegisterWorker(p) /\ ready[p] + 1 = WorkersOf(p[2])
    <2>1. /\ main[p] = "reactor" /\ ready'[p] = ready[p] + 1
          /\ main'[p] = "handshake" /\ monitor'[p] = "redis"
          /\ UNCHANGED <<connected, sent, event, bound>>
      BY <1>1, <1>4 DEF TypesOnly, RegisterWorker
    <2>2. monitor[p] = "none"
      BY <1>1, <2>1 DEF ThreadOK
    <2>3. /\ After(main[p]) = 3 /\ After(main'[p]) = 2
          /\ MonitorLeft(monitor[p]) = 3 /\ MonitorLeft(monitor'[p]) = 2
      BY <2>1, <2>2 DEF After, MonitorLeft
    <2>4a. Keeps(p) /\ Adds(p)
      BY <2>1, <2>3, PartTypes, Untouched DEF Keeps, Adds
    <2>4. StartupLeft(p)' < StartupLeft(p)
      BY <2>4a, LeftFalls
    <2> QED BY <2>1, <2>4 DEF Begun
  <1>5. CASE MonitorIsReady(p)
    <2>1. /\ main[p] = "handshake" /\ main'[p] = "bind"
          /\ UNCHANGED <<connected, sent, ready, monitor, event, bound>>
      BY <1>1, <1>5 DEF TypesOnly, MonitorIsReady
    <2>2. After(main[p]) = 2 /\ After(main'[p]) = 1
      BY <2>1 DEF After
    <2>3a. Keeps(p) /\ Adds(p)
      BY <2>1, <2>2, PartTypes, Untouched DEF Keeps, Adds
    <2>3. StartupLeft(p)' < StartupLeft(p)
      BY <2>3a, LeftFalls
    <2> QED BY <2>1, <2>3 DEF Begun
  <1> QED BY <1>2, <1>3, <1>4, <1>5

\* The other threads, and the ports
LEMMA OtherLeft ==
    ASSUME IInv, IInv', NEW p \in Instances, Begun(p),
           \/ MonitorConnectsRedis(p) \/ MonitorConnectsMySQL(p)
           \/ EventServerJoins(p) \/ BindPort(p)
    PROVE  Begun(p)' /\ StartupLeft(p)' < StartupLeft(p)
  <1>1. TypesOnly /\ ThreadOK(p)
    BY DEF IInv
  <1>2. CASE MonitorConnectsRedis(p) \/ MonitorConnectsMySQL(p)
    <2>1. /\ \/ monitor[p] = "redis" /\ monitor'[p] = "sql"
             \/ monitor[p] = "sql" /\ monitor'[p] \in {"listens", "ended"}
          /\ UNCHANGED <<main, connected, sent, ready, event, bound>>
      BY <1>1, <1>2 DEF TypesOnly, MonitorConnectsRedis, MonitorConnectsMySQL
    <2>2. MonitorLeft(monitor'[p]) < MonitorLeft(monitor[p])
      BY <2>1 DEF MonitorLeft
    <2>3. main[p] # "gone"
      BY <2>1 DEF Begun
    <2>4a. Keeps(p) /\ Adds(p)
      BY <2>1, <2>2, <2>3, PartTypes, PartNats, Untouched DEF Keeps, Adds
    <2>4. StartupLeft(p)' < StartupLeft(p)
      BY <2>4a, LeftFalls
    <2> QED BY <2>1, <2>3, <2>4 DEF Begun
  <1>3. CASE EventServerJoins(p)
    <2>1. /\ event[p] = "connect" /\ event'[p] = "listens"
          /\ UNCHANGED <<main, connected, sent, ready, monitor, bound>>
      BY <1>1, <1>3 DEF TypesOnly, EventServerJoins
    <2>2. EventLeft(event[p]) = 1 /\ EventLeft(event'[p]) = 0
      BY <2>1 DEF EventLeft
    <2>3. main[p] # "gone"
      BY <2>1 DEF Begun
    <2>4a. Keeps(p) /\ Adds(p)
      BY <2>1, <2>2, <2>3, PartTypes, PartNats, Untouched DEF Keeps, Adds
    <2>4. StartupLeft(p)' < StartupLeft(p)
      BY <2>4a, LeftFalls
    <2> QED BY <2>1, <2>3, <2>4 DEF Begun
  <1>4. CASE BindPort(p) /\ ~ Exit(p)
    <2>1. /\ main[p] = "bind" /\ main'[p] \in {"serving", "bind"}
          /\ bound'[p] = bound[p] + 1
          /\ UNCHANGED <<connected, sent, ready, monitor, event>>
      BY <1>1, <1>4 DEF TypesOnly, BindPort
    <2>2. After(main'[p]) <= After(main[p])
      BY <2>1 DEF After
    <2>3a. Keeps(p) /\ Adds(p)
      BY <2>1, <2>2, PartTypes, Untouched DEF Keeps, Adds
    <2>3. StartupLeft(p)' < StartupLeft(p)
      BY <2>3a, LeftFalls
    <2> QED BY <2>1, <2>3 DEF Begun
  <1>5. CASE BindPort(p) /\ Exit(p)
    BY <1>5, LeftIsNat, ExitLeft DEF BindPort
  <1> QED BY <1>2, <1>3, <1>4, <1>5

LEMMA ThreadLeft ==
    ASSUME IInv, IInv', NEW p \in Instances, Begun(p), Thread(p) \/ EventServerJoins(p)
    PROVE  Begun(p)' /\ StartupLeft(p)' < StartupLeft(p)
  BY ConnectLeft, ReactorLeft, OtherLeft DEF Thread

\* A process changes the state of its own threads only.
LEMMA OwnThreads ==
    ASSUME IInv, NEW p \in Instances, NEW q \in Instances, p # q,
           Thread(q) \/ EventServerJoins(q) \/ Crash(q)
    PROVE  /\ main'[p] = main[p] /\ monitor'[p] = monitor[p] /\ event'[p] = event[p]
           /\ connected'[p] = connected[p] /\ sent'[p] = sent[p] /\ ready'[p] = ready[p]
           /\ bound'[p] = bound[p]
  <1>1. TypesOnly
    BY DEF IInv
  <1>2. Exit(q) => /\ main'[p] = main[p] /\ monitor'[p] = monitor[p] /\ event'[p] = event[p]
                   /\ connected'[p] = connected[p] /\ sent'[p] = sent[p]
                   /\ ready'[p] = ready[p] /\ bound'[p] = bound[p]
    BY <1>1 DEF Exit, TypesOnly
  <1> QED
    BY <1>1, <1>2
       DEF TypesOnly, Thread, WorkerConnectsMySQL, WorkerConnectsRedis, StartServer,
           WorkerReady, RegisterWorker, MonitorConnectsRedis, MonitorConnectsMySQL,
           MonitorIsReady, BindPort, EventServerJoins, Crash

LEMMA SpawnLeft ==
    ASSUME IInv, IInv', NEW p \in Instances, Begun(p), NEW g \in Globals, Spawn(g)
    PROVE  Begun(p)' /\ StartupLeft(p)' <= StartupLeft(p)
  <1>1. TypesOnly /\ ThreadOK(p) /\ CreatedOK
    BY DEF IInv
  <1> DEFINE q == <<g, created[g] + 1>>
  <1>2. UNCHANGED <<connected, sent, ready, monitor, bound>>
    BY DEF Spawn
  <1>3. CASE UNCHANGED <<main, event>>
    BY <1>2, <1>3, StillLeft, LeftIsNat
  <1>4. CASE /\ q \in Instances
             /\ main' = [main EXCEPT ![q] = "sql"] /\ event' = [event EXCEPT ![q] = "connect"]
    <2>1. CASE p # q
      <3>1. main'[p] = main[p] /\ event'[p] = event[p]
        BY <1>1, <1>4, <2>1 DEF TypesOnly
      <3> QED BY <1>2, <3>1, StillLeft, LeftIsNat
    <2>2. CASE p = q
      <3>1. created[p[1]] < p[2]
        BY <1>1, <2>2 DEF TypesOnly
      <3>2. main[p] = "none"
        BY <1>1, <3>1 DEF CreatedOK
      <3>3. main'[p] = "sql" /\ event'[p] = "connect"
        BY <1>1, <1>4, <2>2 DEF TypesOnly
      <3>4. sent[p] = 0 /\ ready[p] = 0
        BY <1>1, <3>2, PartTypes DEF ThreadOK
      <3> HIDE DEF q
      <3>5. Begun(p)'
        BY <1>2, <3>3, <3>4 DEF Begun
      <3>6. StartupLeft(p)' <= StartupLeft(p)
        <4> DEFINE m == MonitorLeft(monitor[p])
                   e == EventLeft(event[p])
                   b == Len(Ports[p[2]]) - bound[p]
                   w == WorkersOf(p[2])
        <4>1. /\ After(main[p]) = 5 /\ After(main'[p]) = 4 /\ EventLeft(event'[p]) = 1
          BY <3>2, <3>3 DEF After, EventLeft
        <4>2. /\ m \in Nat /\ e \in Nat /\ b \in Nat /\ w \in Nat
              /\ connected[p] \in 0..w /\ sent[p] \in 0..w /\ ready[p] \in 0..w
          BY LeftTypes, PartNats
        <4>3. /\ StartupLeft(p) = Total(5, m, e, b, w, connected[p], sent[p], ready[p])
              /\ StartupLeft(p)' = Total(4, m, 1, b, w, connected[p], sent[p], ready[p])
          BY <1>2, <3>2, <3>3, <4>1 DEF StartupLeft
        <4> HIDE DEF m, e, b, w
        <4> QED BY <4>2, <4>3 DEF Total
      <3> QED BY <3>5, <3>6
    <2> QED BY <2>1, <2>2
  <1> QED BY <1>3, <1>4 DEF Spawn

LEMMA NextLeft ==
    ASSUME IInv, [Next]_vars, NEW p \in Instances, Begun(p)
    PROVE  Begun(p)' /\ StartupLeft(p)' <= StartupLeft(p)
  <1>0. IInv'
    BY NextIInv
  <1>1. CASE Thread(p) \/ EventServerJoins(p)
    <2>1. Begun(p)' /\ StartupLeft(p)' < StartupLeft(p)
      BY <1>0, <1>1, ThreadLeft
    <2>2. StartupLeft(p)' \in Nat /\ StartupLeft(p) \in Nat
      BY <1>0, LeftIsNat, LeftIsNatNext
    <2> QED BY <2>1, <2>2
  <1>2. CASE Crash(p)
    BY <1>2, ExitLeft, LeftIsNat DEF Crash
  <1>3. ASSUME NEW q \in Instances, q # p, Thread(q) \/ EventServerJoins(q) \/ Crash(q)
        PROVE  Begun(p)' /\ StartupLeft(p)' <= StartupLeft(p)
    BY <1>3, OwnThreads, StillLeft, LeftIsNat
  <1>4. ASSUME NEW g \in Globals, Spawn(g)
        PROVE  Begun(p)' /\ StartupLeft(p)' <= StartupLeft(p)
    BY <1>0, <1>4, SpawnLeft
  <1>5. CASE UNCHANGED threadVars
    BY <1>5, StillLeft, LeftIsNat DEF threadVars
  <1>6. ASSUME NEW g \in Globals, GlobalNext(g), ~ Spawn(g) PROVE UNCHANGED threadVars
    BY <1>6 DEF GlobalNext, Launch, GlobalConnects, FlushRedis, BindCli, Poll, StopGlobal
  <1>7. ASSUME NEW q \in Instances, NEW id \in Identities, Packet(q, id) \/ Leave(q, id)
        PROVE  UNCHANGED threadVars
    BY <1>7 DEF Packet, Leave
  <1>8. UNCHANGED vars => UNCHANGED threadVars
    BY DEF vars
  <1> QED BY <1>1, <1>2, <1>3, <1>4, <1>5, <1>6, <1>7, <1>8 DEF Next

(* The steps a server makes by itself bring it closer to its end or to serving, *)
(* and nothing that happens to other servers, GlobalServers or clients sets it  *)
(* back: so it makes finitely many (ZoneServer/main.c, Router.c:390-405).       *)
THEOREM StartupAdvances ==
    Spec => /\ [](\A p \in Instances : StartupLeft(p) \in Nat)
            /\ [][\A p \in Instances :
                    /\ StartupLeft(p)' <= StartupLeft(p)
                    /\ Thread(p) \/ EventServerJoins(p) => StartupLeft(p)' < StartupLeft(p)]_vars
  <1> DEFINE AllBegun == \A p \in Instances : Begun(p)
             Nats == \A p \in Instances : StartupLeft(p) \in Nat
             Advance == \A p \in Instances :
                    /\ StartupLeft(p)' <= StartupLeft(p)
                    /\ Thread(p) \/ EventServerJoins(p) => StartupLeft(p)' < StartupLeft(p)
  <1>1. Init => AllBegun
    BY DEF Init, Begun
  <1>2. IInv /\ AllBegun /\ [Next]_vars => AllBegun'
    BY NextLeft
  <1>3. IInv => Nats
    BY LeftIsNat
  <1>4. IInv /\ AllBegun /\ [Next]_vars => [Advance]_vars
    BY NextLeft, ThreadLeft, NextIInv
  <1> HIDE DEF AllBegun, Nats, Advance
  <1>5. Spec => []Nats /\ [][Advance]_vars
    BY <1>1, <1>2, <1>3, <1>4, Invariance, PTL DEF Spec
  <1> QED BY <1>5 DEF Nats, Advance

(* A server that has neither ended nor serves waits for nothing, unless for a  *)
(* monitor that MySQL refused: with StartupAdvances, what EveryServerSettles   *)
(* needs besides the fairness of the threads.                                  *)
THEOREM OnlyMonitorBlocks ==
    Spec => [](\A p \in Instances : main[p] = "none" \/ Settled(p) \/ CanGoOn(p))
  <1> DEFINE AllBegun == \A p \in Instances : Begun(p)
  <1>1. Init => AllBegun
    BY DEF Init, Begun
  <1>2. IInv /\ AllBegun /\ [Next]_vars => AllBegun'
    BY NextLeft
  <1>3. IInv /\ AllBegun => \A p \in Instances : main[p] = "none" \/ Settled(p) \/ CanGoOn(p)
    <2> SUFFICES ASSUME IInv, NEW p \in Instances, Begun(p)
                 PROVE  main[p] = "none" \/ Settled(p) \/ CanGoOn(p)
      OBVIOUS
    <2>1. ThreadOK(p)
      BY DEF IInv
    <2> QED BY <2>1, PartTypes
          DEF ThreadOK, Begun, Settled, CanGoOn, Open, MainStages, MonitorStages, EventStages
  <1> HIDE DEF AllBegun
  <1> QED BY <1>1, <1>2, <1>3, Invariance, PTL DEF Spec
=============================================================================
