---------------------------- MODULE RouterProofs ----------------------------
(***************************************************************************)
(* Proofs about Router, for any number of workers, clients and packets.   *)
(*                                                                         *)
(* The invariants of Router are proved together, strengthened by how a    *)
(* worker starts (Startup) and by what a busy worker or a reply carries   *)
(* (Carried).                                                              *)
(***************************************************************************)
EXTENDS Router, SequenceTheorems, FiniteSetTheorems, TLAPS

\* Until the Router has read its READY, a worker is unknown: nothing is sent
\* to it, and READY is all it has sent.  Afterwards it never signals again.
Startup(w) ==
    /\ w \notin registered =>
         /\ inbox[w] = <<>>
         /\ curClient[w] = NoClient
         /\ lastReply[w] = "none"
         /\ \/ phase[w] = "starting" /\ backend[w] = <<>>
            \/ /\ phase[w] = "waiting"
               /\ Len(backend[w]) = 1
               /\ backend[w][1].header = "READY"
    /\ w \in registered =>
         /\ phase[w] # "starting"
         /\ \A i \in 1..Len(backend[w]) : backend[w][i].header # "READY"

\* A busy worker processes a packet, and every other message than READY
\* answers one.
Carried(w) ==
    /\ phase[w] = "busy" => job[w] \in Requests
    /\ \A i \in 1..Len(backend[w]) :
         backend[w][i].header # "READY" => backend[w][i].request \in Requests

IInv ==
    /\ TypeOK
    /\ OneOwner
    /\ RegisteredBeforeUse
    /\ QuietWorkerIsReady
    /\ \A w \in Workers : Startup(w) /\ Carried(w)

(***************************************************************************)
(* Lemmas on the constants                                                 *)
(***************************************************************************)

\* There are WorkersCount workers, the first of them 0.
LEMMA WorkersFinite ==
    /\ IsFiniteSet(Workers)
    /\ Cardinality(Workers) = WorkersCount
    /\ 0 \in Workers
<1>1. WorkersCount \in Nat /\ WorkersCount > 0
  BY WorkersCountAssumption
<1>2. 0 \in Int /\ WorkersCount - 1 \in Int
  BY <1>1
<1>3. /\ IsFiniteSet(0..(WorkersCount - 1))
      /\ Cardinality(0..(WorkersCount - 1)) =
           IF 0 > WorkersCount - 1 THEN 0 ELSE (WorkersCount - 1) - 0 + 1
  BY <1>2, FS_Interval
<1> QED
  BY <1>1, <1>3 DEF Workers

\* No client is the client of an empty request.
LEMMA RequestParts ==
    ASSUME NEW r \in Requests
    PROVE  r[1] \in Clients /\ r[2] \in 1..MaxRequests /\ r[1] # NoClient
  BY ClientsAssumption DEF Requests

\* A worker that is not registered yet leaves room in the count.
LEMMA RoomToRegister ==
    ASSUME NEW w \in Workers, registered \subseteq Workers, w \notin registered
    PROVE  /\ Cardinality(registered \cup {w}) = Cardinality(registered) + 1
           /\ Cardinality(registered) \in Nat
           /\ Cardinality(registered) + 1 <= WorkersCount
           /\ Cardinality(registered) + 1 = WorkersCount =>
                registered \cup {w} = Workers
<1>1. IsFiniteSet(registered)
  BY WorkersFinite, FS_Subset
<1>2. Cardinality(registered \cup {w}) = Cardinality(registered) + 1
  BY <1>1, FS_AddElement
<1>3. registered \cup {w} \subseteq Workers
  OBVIOUS
<1>4. /\ Cardinality(registered \cup {w}) <= Cardinality(Workers)
      /\ Cardinality(registered \cup {w}) = Cardinality(Workers) =>
           registered \cup {w} = Workers
  BY <1>3, WorkersFinite, FS_Subset
<1>5. Cardinality(registered) \in Nat
  BY <1>1, FS_CardinalityType
<1> QED
  BY <1>2, <1>4, <1>5, WorkersFinite

(***************************************************************************)
(* The invariant holds initially and every action preserves it            *)
(***************************************************************************)

LEMMA InitInv == Init => IInv
<1> SUFFICES ASSUME Init PROVE IInv
  OBVIOUS
<1>1. TypeOK
  <2>1. /\ 0 \in 0..WorkersCount
        /\ 0 \in Workers
        /\ 0 \in 0..MaxRequests
    BY WorkersCountAssumption, WorkersFinite, BoundsAssumption
  <2> QED
    BY <2>1, EmptySeq DEF Init, TypeOK
<1>2. OneOwner /\ QuietWorkerIsReady
  BY DEF Init, OneOwner, QuietWorkerIsReady, Quiet
<1>3. RegisteredBeforeUse
  BY FS_EmptySet DEF Init, RegisteredBeforeUse
<1>4. \A w \in Workers : Startup(w) /\ Carried(w)
  BY DEF Init, Startup, Carried
<1> QED
  BY <1>1, <1>2, <1>3, <1>4 DEF IInv

LEMMA SignalReadyInv ==
    ASSUME IInv, NEW w \in Workers, SignalReady(w)
    PROVE  IInv'
<1> DEFINE m == Message("READY", NoRequest, 0)
<1>1. /\ w \notin registered
      /\ backend[w] = <<>>
  BY DEF IInv, Startup, SignalReady
<1>2. m \in Messages /\ m.header = "READY"
  BY DEF Message, Messages, Headers
<1>3. /\ Append(backend[w], m) \in Seq(Messages)
      /\ Len(Append(backend[w], m)) = 1
      /\ Append(backend[w], m)[1] = m
      /\ Append(backend[w], m) # <<>>
  BY <1>1, <1>2, AppendProperties, EmptySeq
<1>4. /\ backend' = [backend EXCEPT ![w] = Append(backend[w], m)]
      /\ phase' = [phase EXCEPT ![w] = "waiting"]
      /\ UNCHANGED <<status, registered, workersReadyCount, curClient, readyWorkers,
                     overloadWorker, inbox, job, sent, received, lastReply>>
  BY DEF SignalReady, routerVars, clientVars
<1> HIDE DEF m
<1>5. TypeOK'
  BY <1>3, <1>4 DEF IInv, TypeOK
<1>6. OneOwner' /\ RegisteredBeforeUse'
  BY <1>4 DEF IInv, OneOwner, RegisteredBeforeUse
<1>7. QuietWorkerIsReady'
  BY <1>3, <1>4 DEF IInv, TypeOK, QuietWorkerIsReady, Quiet
<1>8. ASSUME NEW v \in Workers
      PROVE  Startup(v)' /\ Carried(v)'
  BY <1>1, <1>2, <1>3, <1>4 DEF IInv, TypeOK, Startup, Carried
<1> QED
  BY <1>5, <1>6, <1>7, <1>8 DEF IInv

LEMMA ReceiveInv ==
    ASSUME IInv, NEW w \in Workers, Receive(w)
    PROVE  IInv'
<1>1. /\ inbox[w] \in Seq(Requests)
      /\ inbox[w] # <<>>
      /\ phase[w] = "waiting"
  BY DEF IInv, TypeOK, Receive
<1>2. /\ Head(inbox[w]) \in Requests
      /\ Tail(inbox[w]) \in Seq(Requests)
  BY <1>1, HeadTailProperties
<1>3. w \in registered
  BY <1>1 DEF IInv, RegisteredBeforeUse
<1>4. /\ phase' = [phase EXCEPT ![w] = "busy"]
      /\ job' = [job EXCEPT ![w] = Head(inbox[w])]
      /\ inbox' = [inbox EXCEPT ![w] = Tail(inbox[w])]
      /\ UNCHANGED <<status, registered, workersReadyCount, curClient, readyWorkers,
                     overloadWorker, backend, sent, received, lastReply>>
  BY DEF Receive, routerVars, clientVars
<1>5. TypeOK'
  BY <1>2, <1>4 DEF IInv, TypeOK
<1>6. OneOwner' /\ RegisteredBeforeUse'
  BY <1>3, <1>4 DEF IInv, TypeOK, OneOwner, RegisteredBeforeUse
<1>7. QuietWorkerIsReady'
  BY <1>4 DEF IInv, TypeOK, QuietWorkerIsReady, Quiet
<1>8. ASSUME NEW v \in Workers
      PROVE  Startup(v)' /\ Carried(v)'
  BY <1>2, <1>3, <1>4 DEF IInv, TypeOK, Startup, Carried
<1> QED
  BY <1>5, <1>6, <1>7, <1>8 DEF IInv

LEMMA ReplyInv ==
    ASSUME IInv, NEW w \in Workers, Reply(w)
    PROVE  IInv'
<1>1. /\ phase[w] = "busy"
      /\ w \in registered
      /\ job[w] \in Requests
      /\ backend[w] \in Seq(Messages)
  BY DEF IInv, TypeOK, Startup, Carried, Reply
<1>2. PICK h \in {"NORMAL", "ERROR", "unknown"}, n \in Nat :
        backend' = [backend EXCEPT ![w] = Append(backend[w], Message(h, job[w], n))]
  <2>1. \A h : (IF h = "NORMAL" THEN 0..MaxFrames ELSE {0}) \subseteq Nat
    BY BoundsAssumption
  <2> QED
    BY <2>1, Zenon DEF Reply
<1> DEFINE m == Message(h, job[w], n)
<1>3. m \in Messages /\ m.header # "READY" /\ m.request \in Requests
  BY <1>1 DEF Message, Messages, Headers
<1> HIDE DEF m
<1>4. /\ Append(backend[w], m) \in Seq(Messages)
      /\ Append(backend[w], m) # <<>>
      /\ Len(Append(backend[w], m)) = Len(backend[w]) + 1
      /\ \A i \in 1..Len(backend[w]) : Append(backend[w], m)[i] = backend[w][i]
      /\ Append(backend[w], m)[Len(backend[w]) + 1] = m
      /\ Len(backend[w]) \in Nat
  BY <1>1, <1>3, AppendProperties, LenProperties
<1>5. /\ backend' = [backend EXCEPT ![w] = Append(backend[w], m)]
      /\ phase' = [phase EXCEPT ![w] = "waiting"]
      /\ job' = [job EXCEPT ![w] = NoRequest]
      /\ UNCHANGED <<status, registered, workersReadyCount, curClient, readyWorkers,
                     overloadWorker, sent, received, lastReply>>
  BY <1>2 DEF Reply, routerVars, clientVars, m
<1>6. inbox' = inbox \/ inbox' = [inbox EXCEPT ![w] = <<>>]
  BY DEF Reply, EatWaiting
<1>7. /\ inbox' \in [Workers -> Seq(Requests)]
      /\ \A v \in Workers : inbox'[v] = inbox[v] \/ inbox'[v] = <<>>
      /\ \A v \in Workers : v # w => inbox'[v] = inbox[v]
  <2>1. /\ inbox \in [Workers -> Seq(Requests)]
        /\ <<>> \in Seq(Requests)
    BY EmptySeq DEF IInv, TypeOK
  <2>2. CASE inbox' = inbox
    BY <2>1, <2>2
  <2>3. CASE inbox' = [inbox EXCEPT ![w] = <<>>]
    BY <2>1, <2>3
  <2> QED
    BY <1>6, <2>2, <2>3
<1>8. TypeOK'
  BY <1>4, <1>5, <1>7 DEF IInv, TypeOK
<1>9. OneOwner' /\ RegisteredBeforeUse'
  BY <1>5, <1>7 DEF IInv, TypeOK, OneOwner, RegisteredBeforeUse
<1>10. QuietWorkerIsReady'
  <2> SUFFICES ASSUME NEW v \in Workers, v # w, Quiet(v)', lastReply'[v] # "ERROR",
                      status' # "stopped"
               PROVE  /\ \E i \in 1..Len(readyWorkers') : readyWorkers'[i] = v
                      /\ curClient'[v] = NoClient
    BY <1>4, <1>5 DEF IInv, TypeOK, QuietWorkerIsReady, Quiet
  <2>1. Quiet(v)
    BY <1>5, <1>7 DEF IInv, TypeOK, Quiet
  <2> QED
    BY <2>1, <1>5 DEF IInv, QuietWorkerIsReady
<1>11. ASSUME NEW v \in Workers
       PROVE  Startup(v)' /\ Carried(v)'
  <2>1. CASE v = w
    <3>1. /\ backend'[v] = Append(backend[w], m)
          /\ phase'[v] = "waiting"
          /\ v \in registered'
      BY <1>1, <1>5, <2>1 DEF IInv, TypeOK
    <3>2. ASSUME NEW i \in 1..Len(backend'[v])
          PROVE  /\ backend'[v][i].header # "READY"
                 /\ backend'[v][i].request \in Requests
      <4>1. CASE i = Len(backend[w]) + 1
        BY <1>3, <1>4, <3>1, <4>1
      <4>2. CASE i \in 1..Len(backend[w])
        BY <1>1, <1>4, <3>1, <4>2 DEF IInv, Startup, Carried
      <4> QED
        BY <1>4, <3>1, <4>1, <4>2
    <3> QED
      BY <3>1, <3>2 DEF Startup, Carried
  <2>2. CASE v # w
    BY <1>5, <1>7, <2>2 DEF IInv, TypeOK, Startup, Carried
  <2> QED
    BY <2>1, <2>2
<1> QED
  BY <1>8, <1>9, <1>10, <1>11 DEF IInv

(***************************************************************************)
(* Router_backend                                                          *)
(***************************************************************************)

\* Reading takes the first message of w away and changes no other queue.
ReadEffect(w, h) ==
    /\ backend[w] \in Seq(Messages) /\ backend[w] # <<>>
    /\ 1 \in 1..Len(backend[w])
    /\ Head(backend[w]) = backend[w][1]
    /\ backend[w][1].header = h
    /\ backend' \in [Workers -> Seq(Messages)]
    /\ \A v \in Workers : v # w => backend'[v] = backend[v]
    /\ Len(backend'[w]) = Len(backend[w]) - 1
    /\ \A i \in 1..Len(backend'[w]) :
         i + 1 \in 1..Len(backend[w]) /\ backend'[w][i] = backend[w][i + 1]
    /\ lastReply' = [lastReply EXCEPT ![w] = h]

LEMMA ReadFacts ==
    ASSUME IInv, NEW w \in Workers, NEW h \in Headers, Read(w, h)
    PROVE  ReadEffect(w, h)
<1>1. /\ backend[w] \in Seq(Messages)
      /\ backend[w] # <<>>
      /\ Head(backend[w]).header = h
      /\ backend' = [backend EXCEPT ![w] = Tail(backend[w])]
      /\ lastReply' = [lastReply EXCEPT ![w] = h]
  BY DEF IInv, TypeOK, Read
<1>2. /\ Tail(backend[w]) \in Seq(Messages)
      /\ Len(Tail(backend[w])) = Len(backend[w]) - 1
      /\ \A i \in 1..Len(Tail(backend[w])) : Tail(backend[w])[i] = backend[w][i + 1]
  BY <1>1, HeadTailProperties
<1>3. Len(backend[w]) \in Nat /\ Len(backend[w]) # 0
  BY <1>1, LenProperties, EmptySeq
<1>4. Head(backend[w]) = backend[w][1]
  BY <1>1
<1>5. /\ backend'[w] = Tail(backend[w])
      /\ backend' \in [Workers -> Seq(Messages)]
      /\ \A v \in Workers : v # w => backend'[v] = backend[v]
  BY <1>1, <1>2 DEF IInv, TypeOK
<1> QED
  BY <1>1, <1>2, <1>3, <1>4, <1>5 DEF ReadEffect

\* What is left in the queues after a registered worker's message was read.
LEMMA ReadKeeps ==
    ASSUME IInv, NEW w \in registered, NEW h, ReadEffect(w, h),
           UNCHANGED <<registered, inbox, phase, job>>,
           \A v \in Workers : v # w => curClient'[v] = curClient[v],
           NEW v \in Workers
    PROVE  Startup(v)' /\ Carried(v)'
<1>1. CASE v = w
  <2>1. /\ Startup(w) /\ Carried(w)
        /\ w \in registered'
        /\ phase'[w] = phase[w] /\ job'[w] = job[w]
    BY <1>1 DEF IInv
  <2>2. ASSUME NEW i \in 1..Len(backend'[w])
        PROVE  /\ backend'[w][i].header # "READY"
               /\ backend'[w][i].request \in Requests
    <3>1. i + 1 \in 1..Len(backend[w]) /\ backend'[w][i] = backend[w][i + 1]
      BY DEF ReadEffect
    <3> DEFINE j == i + 1
    <3>2. j \in 1..Len(backend[w]) /\ backend'[w][i] = backend[w][j]
      BY <3>1
    <3> HIDE DEF j
    <3> QED
      BY <2>1, <3>2 DEF Startup, Carried
  <2> QED
    BY <1>1, <2>1, <2>2 DEF Startup, Carried
<1>2. CASE v # w
  <2>1. /\ Startup(v) /\ Carried(v)
        /\ backend'[v] = backend[v]
        /\ curClient'[v] = curClient[v]
        /\ lastReply'[v] = lastReply[v]
    BY <1>2 DEF IInv, TypeOK, ReadEffect
  <2> QED
    BY <2>1 DEF Startup, Carried
<1> QED
  BY <1>1, <1>2

\* The tail of the handler adds w to the list, and only w loses its client.
Listed(v) == \E i \in 1..Len(readyWorkers) : readyWorkers[i] = v

ReleaseEffect(w) ==
    /\ readyWorkers' \in Seq(Workers)
    /\ Listed(w)'
    /\ \A v : Listed(v) => Listed(v)'
    /\ curClient'[w] = NoClient
    /\ \A v \in Workers : v # w => curClient'[v] = curClient[v]
    /\ curClient' \in [Workers -> Clients \cup {NoClient}]

LEMMA ReleaseFacts ==
    ASSUME TypeOK, NEW w \in Workers, Release(w)
    PROVE  ReleaseEffect(w)
<1>1. /\ readyWorkers \in Seq(Workers)
      /\ readyWorkers' = Append(readyWorkers, w)
      /\ curClient' = [curClient EXCEPT ![w] = NoClient]
  BY DEF TypeOK, Release
<1>2. /\ readyWorkers' \in Seq(Workers)
      /\ Len(readyWorkers') = Len(readyWorkers) + 1
      /\ \A i \in 1..Len(readyWorkers) : readyWorkers'[i] = readyWorkers[i]
      /\ readyWorkers'[Len(readyWorkers) + 1] = w
  BY <1>1, AppendProperties
<1>3. Len(readyWorkers) \in Nat
  BY <1>1, LenProperties
<1>4. curClient' \in [Workers -> Clients \cup {NoClient}]
  BY <1>1 DEF TypeOK
<1> QED
  BY <1>1, <1>2, <1>3, <1>4 DEF ReleaseEffect, Listed, TypeOK

\* A reply that lets the handler reach its tail.
LEMMA AnsweredInv ==
    ASSUME IInv, NEW w \in Workers, NEW h \in {"NORMAL", "unknown"},
           Read(w, h), Release(w),
           received' \in [Clients -> Seq(1..MaxRequests)],
           UNCHANGED <<status, registered, workersReadyCount, overloadWorker,
                       inbox, phase, job, sent>>
    PROVE  IInv'
<1>1. /\ h \in Headers /\ h # "READY"
      /\ TypeOK
      /\ ReadEffect(w, h)
      /\ ReleaseEffect(w)
  BY ReadFacts, ReleaseFacts DEF Headers, IInv
<1>2. w \in registered
  BY <1>1 DEF IInv, Startup, ReadEffect
<1>3. TypeOK'
  BY <1>1 DEF TypeOK, ReadEffect, ReleaseEffect
<1>4. OneOwner'
  BY <1>1 DEF IInv, OneOwner, ReleaseEffect
<1>5. RegisteredBeforeUse'
  BY <1>1 DEF IInv, RegisteredBeforeUse, ReleaseEffect
<1>6. QuietWorkerIsReady'
  <2> SUFFICES ASSUME NEW v \in Workers, Quiet(v)', lastReply'[v] # "ERROR",
                      status # "stopped"
               PROVE  Listed(v)' /\ curClient'[v] = NoClient
    BY <1>1 DEF QuietWorkerIsReady, Listed
  <2>1. CASE v = w
    BY <1>1, <2>1 DEF ReleaseEffect
  <2>2. CASE v # w
    <3>1. Quiet(v) /\ lastReply[v] # "ERROR"
      BY <1>1, <2>2 DEF TypeOK, Quiet, ReadEffect
    <3>2. Listed(v) /\ curClient[v] = NoClient
      BY <3>1 DEF IInv, QuietWorkerIsReady, Listed
    <3> QED
      BY <1>1, <2>2, <3>2 DEF ReleaseEffect
  <2> QED
    BY <2>1, <2>2
<1>7. ASSUME NEW v \in Workers
      PROVE  Startup(v)' /\ Carried(v)'
  BY <1>1, <1>2, ReadKeeps DEF ReleaseEffect
<1> QED
  BY <1>3, <1>4, <1>5, <1>6, <1>7 DEF IInv

LEMMA BackendNormalInv ==
    ASSUME IInv, NEW w \in Workers, BackendNormal(w)
    PROVE  IInv'
<1> DEFINE m == Head(backend[w])
           c == m.request[1]
           copies == [i \in 1..m.frames |-> m.request[2]]
<1>1. Read(w, "NORMAL") /\ Release(w) /\ "NORMAL" \in Headers
  BY DEF BackendNormal, Headers
<1>2. /\ m \in Messages
      /\ m.header = "NORMAL"
      /\ m.request \in Requests
  <2>1. ReadEffect(w, "NORMAL")
    BY <1>1, ReadFacts
  <2>2. backend[w][1] \in Messages
    BY <2>1, ElementOfSeq DEF ReadEffect
  <2> QED
    BY <2>1, <2>2 DEF IInv, Carried, ReadEffect
<1>3. /\ c \in Clients
      /\ m.request[2] \in 1..MaxRequests
      /\ m.frames \in Nat
  BY <1>2, RequestParts DEF Messages
<1>4. copies \in Seq(1..MaxRequests)
  <2>1. copies \in [1..m.frames -> 1..MaxRequests]
    BY <1>3
  <2> QED
    BY <1>3, <2>1, SeqDef
<1>5. received' = [received EXCEPT ![c] = received[c] \o copies]
  BY DEF BackendNormal
<1>6. received[c] \o copies \in Seq(1..MaxRequests)
  <2>1. received[c] \in Seq(1..MaxRequests)
    BY <1>3 DEF IInv, TypeOK
  <2> HIDE DEF copies, c, m
  <2> QED
    BY <1>4, <2>1, ConcatProperties
<1>7. received' \in [Clients -> Seq(1..MaxRequests)]
  BY <1>3, <1>5, <1>6 DEF IInv, TypeOK
<1>8. UNCHANGED <<status, registered, workersReadyCount, overloadWorker,
                  inbox, phase, job, sent>>
  BY DEF BackendNormal, workerVars
<1> QED
  BY <1>1, <1>7, <1>8, AnsweredInv

LEMMA BackendUnknownInv ==
    ASSUME IInv, NEW w \in Workers, BackendUnknown(w)
    PROVE  IInv'
<1>1. /\ Read(w, "unknown")
      /\ Release(w)
      /\ received' \in [Clients -> Seq(1..MaxRequests)]
      /\ UNCHANGED <<status, registered, workersReadyCount, overloadWorker,
                     inbox, phase, job, sent>>
  BY DEF BackendUnknown, workerVars, clientVars, IInv, TypeOK
<1> QED
  BY <1>1, AnsweredInv

\* The worker stays with its client and out of the list: nothing is claimed
\* about it until its next message.
LEMMA BackendErrorInv ==
    ASSUME IInv, NEW w \in Workers, BackendError(w)
    PROVE  IInv'
<1>1. /\ ReadEffect(w, "ERROR")
      /\ "ERROR" \in Headers
      /\ UNCHANGED <<status, registered, workersReadyCount, curClient, readyWorkers,
                     overloadWorker, inbox, phase, job, sent, received>>
  BY ReadFacts DEF BackendError, Headers, routerVars, workerVars, clientVars
<1>2. w \in registered
  BY <1>1 DEF IInv, Startup, ReadEffect
<1>3. TypeOK'
  BY <1>1 DEF IInv, TypeOK, ReadEffect
<1>4. OneOwner' /\ RegisteredBeforeUse'
  BY <1>1 DEF IInv, OneOwner, RegisteredBeforeUse
<1>5. QuietWorkerIsReady'
  <2> SUFFICES ASSUME NEW v \in Workers, Quiet(v)', lastReply'[v] # "ERROR",
                      status # "stopped"
               PROVE  Listed(v) /\ curClient[v] = NoClient
    BY <1>1 DEF QuietWorkerIsReady, Listed
  <2>1. Quiet(v) /\ lastReply[v] # "ERROR"
    BY <1>1 DEF IInv, TypeOK, Quiet, ReadEffect
  <2> QED
    BY <2>1 DEF IInv, QuietWorkerIsReady, Listed
<1>6. ASSUME NEW v \in Workers
      PROVE  Startup(v)' /\ Carried(v)'
  BY <1>1, <1>2, ReadKeeps
<1> QED
  BY <1>3, <1>4, <1>5, <1>6 DEF IInv

\* The first and only READY of w.  After the last one the frontend opens and
\* every worker is registered, or the reactor ends.
LEMMA BackendReadyInv ==
    ASSUME IInv, NEW w \in Workers, BackendReady(w)
    PROVE  IInv'
<1>1. /\ TypeOK
      /\ ReadEffect(w, "READY")
      /\ "READY" \in Headers
  BY ReadFacts DEF BackendReady, Headers, IInv
<1>2. /\ w \notin registered
      /\ registered \subseteq Workers
      /\ workersReadyCount = Cardinality(registered)
      /\ phase[w] = "waiting"
      /\ Len(backend[w]) = 1
      /\ inbox[w] = <<>>
      /\ curClient[w] = NoClient
  BY <1>1 DEF IInv, TypeOK, Startup, ReadEffect, RegisteredBeforeUse
<1>3. /\ registered' = registered \cup {w}
      /\ workersReadyCount' = workersReadyCount + 1
      /\ UNCHANGED <<overloadWorker, inbox, phase, job, sent, received>>
  BY DEF BackendReady, workerVars, clientVars
<1>4. /\ workersReadyCount' = Cardinality(registered')
      /\ workersReadyCount' \in 0..WorkersCount
      /\ workersReadyCount' = WorkersCount => registered' = Workers
  <2>1. WorkersCount \in Nat
    BY WorkersCountAssumption
  <2>2. /\ Cardinality(registered \cup {w}) = Cardinality(registered) + 1
        /\ Cardinality(registered) \in Nat
        /\ Cardinality(registered) + 1 <= WorkersCount
        /\ Cardinality(registered) + 1 = WorkersCount => registered \cup {w} = Workers
    BY <1>2, RoomToRegister
  <2> QED
    BY <1>2, <1>3, <2>1, <2>2
<1>5. \/ ReleaseEffect(w) /\ UNCHANGED status /\ workersReadyCount' # WorkersCount
      \/ ReleaseEffect(w) /\ status' = "open" /\ workersReadyCount' = WorkersCount
      \/ status' = "stopped" /\ UNCHANGED <<curClient, readyWorkers>>
  BY <1>1, ReleaseFacts DEF BackendReady, AllReady
<1>6. /\ curClient' \in [Workers -> Clients \cup {NoClient}]
      /\ readyWorkers' \in Seq(Workers)
      /\ status' \in {"starting", "open", "stopped"}
      /\ \A v \in Workers : curClient'[v] = curClient[v]
      /\ \A v : Listed(v) => Listed(v)'
      /\ status' = "open" => registered' = Workers
      /\ status' # "stopped" => Listed(w)'
      /\ status' # "stopped" => status # "stopped"
  <2>1. /\ status = "open" => registered = Workers
        /\ status # "stopped"
    BY DEF IInv, RegisteredBeforeUse, BackendReady, Read
  <2>2. CASE ReleaseEffect(w)
    BY <1>1, <1>2, <1>4, <1>5, <2>1, <2>2 DEF ReleaseEffect, TypeOK
  <2>3. CASE status' = "stopped" /\ UNCHANGED <<curClient, readyWorkers>>
    BY <1>1, <2>1, <2>3 DEF TypeOK, Listed
  <2> QED
    BY <1>5, <2>2, <2>3
<1>7. TypeOK'
  BY <1>1, <1>2, <1>3, <1>4, <1>6 DEF TypeOK, ReadEffect
<1>8. OneOwner'
  BY <1>6 DEF IInv, OneOwner
<1>9. RegisteredBeforeUse'
  BY <1>2, <1>3, <1>4, <1>6 DEF IInv, RegisteredBeforeUse
<1>10. QuietWorkerIsReady'
  <2> SUFFICES ASSUME NEW v \in Workers, Quiet(v)', lastReply'[v] # "ERROR",
                      status' # "stopped"
               PROVE  Listed(v)' /\ curClient'[v] = NoClient
    BY DEF QuietWorkerIsReady, Listed
  <2>1. CASE v = w
    BY <1>2, <1>6, <2>1
  <2>2. CASE v # w
    <3>1. Quiet(v) /\ lastReply[v] # "ERROR"
      BY <1>1, <1>3, <2>2 DEF TypeOK, Quiet, ReadEffect
    <3>2. Listed(v) /\ curClient[v] = NoClient
      BY <1>6, <3>1 DEF IInv, QuietWorkerIsReady, Listed
    <3> QED
      BY <1>6, <3>2
  <2> QED
    BY <2>1, <2>2
<1>11. ASSUME NEW v \in Workers
       PROVE  Startup(v)' /\ Carried(v)'
  <2>1. CASE v = w
    <3>1. /\ Len(backend'[w]) = 0
          /\ phase'[w] = "waiting"
          /\ w \in registered'
      BY <1>1, <1>2, <1>3 DEF ReadEffect
    <3> QED
      BY <2>1, <3>1 DEF Startup, Carried
  <2>2. CASE v # w
    <3>1. /\ Startup(v) /\ Carried(v)
          /\ backend'[v] = backend[v]
          /\ curClient'[v] = curClient[v]
          /\ lastReply'[v] = lastReply[v]
          /\ v \in registered' <=> v \in registered
      BY <1>1, <1>3, <1>6, <2>2 DEF IInv, TypeOK, ReadEffect
    <3> QED
      BY <1>3, <3>1 DEF Startup, Carried
  <2> QED
    BY <2>1, <2>2
<1> QED
  BY <1>7, <1>8, <1>9, <1>10, <1>11 DEF IInv

(***************************************************************************)
(* Router_frontend                                                         *)
(***************************************************************************)

\* While the frontend reads, every worker is registered, and what it read is
\* a packet.
LEMMA AcceptFacts ==
    ASSUME IInv, NEW c \in Clients, Accept(c)
    PROVE  /\ registered = Workers
           /\ status = "open"
           /\ Newest(c) \in Requests
           /\ sent' \in [Clients -> 0..MaxRequests]
<1>1. /\ sent \in [Clients -> 0..MaxRequests]
      /\ sent[c] < MaxRequests
      /\ sent' = [sent EXCEPT ![c] = sent[c] + 1]
      /\ status = "open"
      /\ MaxRequests \in Nat
  BY BoundsAssumption DEF IInv, TypeOK, Accept, MaySend
<1>2. sent[c] + 1 \in 1..MaxRequests
  BY <1>1
<1>3. sent' \in [Clients -> 0..MaxRequests]
  <2>1. sent[c] + 1 \in 0..MaxRequests
    BY <1>2, <1>1
  <2> QED
    BY <1>1, <2>1
<1>4. Newest(c) \in Requests
  BY <1>2 DEF Newest, Requests
<1> QED
  BY <1>1, <1>3, <1>4 DEF IInv, RegisteredBeforeUse

\* A packet handed to worker w.  The handler may make w answer for c, if no
\* other worker does, and take w off the list.
LEMMA ForwardInv ==
    ASSUME IInv, NEW c \in Clients, Accept(c), NEW w \in Workers, Forward(c, w),
           \A v \in Workers : v # w => curClient[v] # c,
           curClient' = [curClient EXCEPT ![w] = c],
           readyWorkers' \in Seq(Workers),
           \A v \in Workers : v # w /\ Listed(v) => Listed(v)',
           overloadWorker' \in Workers,
           UNCHANGED <<status, registered, workersReadyCount, backend,
                       phase, job, received, lastReply>>
    PROVE  IInv'
<1>1. /\ TypeOK
      /\ registered = Workers
      /\ status = "open"
      /\ Newest(c) \in Requests
      /\ sent' \in [Clients -> 0..MaxRequests]
  BY AcceptFacts DEF IInv
<1>2. /\ inbox' = [inbox EXCEPT ![w] = Append(inbox[w], Newest(c))]
      /\ Append(inbox[w], Newest(c)) \in Seq(Requests)
      /\ Append(inbox[w], Newest(c)) # <<>>
  <2>1. inbox[w] \in Seq(Requests)
    BY <1>1 DEF TypeOK
  <2>2. inbox' = [inbox EXCEPT ![w] = Append(inbox[w], Newest(c))]
    BY DEF Forward
  <2>3. /\ Append(inbox[w], Newest(c)) \in Seq(Requests)
        /\ Append(inbox[w], Newest(c)) # <<>>
    BY <1>1, <2>1, AppendProperties
  <2> QED
    BY <2>2, <2>3
<1>3. /\ inbox' \in [Workers -> Seq(Requests)]
      /\ inbox'[w] # <<>>
      /\ \A v \in Workers : v # w => inbox'[v] = inbox[v]
  BY <1>1, <1>2 DEF TypeOK
<1>4. /\ curClient' \in [Workers -> Clients \cup {NoClient}]
      /\ curClient'[w] = c
      /\ \A v \in Workers : v # w => curClient'[v] = curClient[v]
  BY <1>1 DEF TypeOK
<1>5. TypeOK'
  BY <1>1, <1>3, <1>4 DEF TypeOK
<1>6. OneOwner'
  BY <1>4 DEF IInv, OneOwner
<1>7. RegisteredBeforeUse'
  BY <1>1 DEF IInv, RegisteredBeforeUse
<1>8. QuietWorkerIsReady'
  <2> SUFFICES ASSUME NEW v \in Workers, Quiet(v)', lastReply'[v] # "ERROR",
                      status' # "stopped"
               PROVE  Listed(v)' /\ curClient'[v] = NoClient
    BY DEF QuietWorkerIsReady, Listed
  <2>1. v # w
    BY <1>3 DEF Quiet
  <2>2. Quiet(v) /\ lastReply[v] # "ERROR"
    BY <1>3, <2>1 DEF Quiet
  <2>3. Listed(v) /\ curClient[v] = NoClient
    BY <1>1, <2>2 DEF IInv, QuietWorkerIsReady, Listed
  <2> QED
    BY <1>4, <2>1, <2>3
<1>9. ASSUME NEW v \in Workers
      PROVE  Startup(v)' /\ Carried(v)'
  BY <1>1 DEF IInv, Startup, Carried
<1> QED
  BY <1>5, <1>6, <1>7, <1>8, <1>9 DEF IInv

LEMMA FrontendDiscardInv ==
    ASSUME IInv, NEW c \in Clients, FrontendDiscard(c)
    PROVE  IInv'
<1>1. /\ sent' \in [Clients -> 0..MaxRequests]
      /\ UNCHANGED <<status, registered, workersReadyCount, curClient, readyWorkers,
                     overloadWorker, inbox, backend, phase, job, received, lastReply>>
  BY AcceptFacts DEF FrontendDiscard, routerVars, socketVars, workerVars
<1>2. TypeOK'
  BY <1>1 DEF IInv, TypeOK
<1>3. OneOwner' /\ RegisteredBeforeUse'
  BY <1>1 DEF IInv, OneOwner, RegisteredBeforeUse
<1>4. QuietWorkerIsReady'
  BY <1>1 DEF IInv, QuietWorkerIsReady, Quiet
<1>5. ASSUME NEW v \in Workers
      PROVE  Startup(v)' /\ Carried(v)'
  BY <1>1 DEF IInv, Startup, Carried
<1> QED
  BY <1>2, <1>3, <1>4, <1>5 DEF IInv

LEMMA FrontendStickyInv ==
    ASSUME IInv, NEW c \in Clients, FrontendSticky(c)
    PROVE  IInv'
<1>1. PICK w \in Owners(c) : Forward(c, w)
  BY DEF FrontendSticky
<1>2. /\ w \in Workers
      /\ curClient[w] = c
      /\ c # NoClient
  BY ClientsAssumption DEF Owners
<1>3. \A v \in Workers : v # w => curClient[v] # c
  BY <1>2 DEF IInv, OneOwner
<1>4. /\ UNCHANGED <<status, registered, workersReadyCount, curClient, readyWorkers,
                     overloadWorker, backend, phase, job, received, lastReply>>
      /\ Accept(c)
  BY DEF FrontendSticky, routerVars, workerVars
<1>5. /\ curClient' = [curClient EXCEPT ![w] = c]
      /\ readyWorkers' \in Seq(Workers)
      /\ overloadWorker' \in Workers
      /\ \A v \in Workers : v # w /\ Listed(v) => Listed(v)'
  BY <1>2, <1>4 DEF IInv, TypeOK, Listed
<1> QED
  BY <1>1, <1>2, <1>3, <1>4, <1>5, ForwardInv

LEMMA FrontendReadyInv ==
    ASSUME IInv, NEW c \in Clients, FrontendReady(c)
    PROVE  IInv'
<1> DEFINE w == Head(readyWorkers)
<1>1. /\ readyWorkers \in Seq(Workers)
      /\ readyWorkers # <<>>
      /\ readyWorkers' = Tail(readyWorkers)
      /\ curClient' = [curClient EXCEPT ![w] = c]
      /\ Forward(c, w)
      /\ Accept(c)
      /\ Owners(c) = {}
      /\ UNCHANGED <<status, registered, workersReadyCount, overloadWorker,
                     backend, phase, job, received, lastReply>>
  BY DEF IInv, TypeOK, FrontendReady, workerVars
<1>2. /\ w \in Workers
      /\ w = readyWorkers[1]
      /\ Tail(readyWorkers) \in Seq(Workers)
      /\ Len(Tail(readyWorkers)) = Len(readyWorkers) - 1
      /\ \A i \in 1..Len(Tail(readyWorkers)) : Tail(readyWorkers)[i] = readyWorkers[i + 1]
      /\ Len(readyWorkers) \in Nat
  BY <1>1, HeadTailProperties
<1> HIDE DEF w
<1>3. ASSUME NEW v \in Workers, v # w, Listed(v)
      PROVE  Listed(v)'
  <2>1. PICK i \in 1..Len(readyWorkers) : readyWorkers[i] = v
    BY <1>3 DEF Listed
  <2>2. i # 1
    BY <1>2, <1>3, <2>1
  <2>3. /\ i - 1 \in 1..Len(Tail(readyWorkers))
        /\ (i - 1) + 1 = i
    BY <1>2, <2>1, <2>2
  <2>4. Tail(readyWorkers)[i - 1] = v
    BY <1>2, <2>1, <2>3
  <2> QED
    BY <1>1, <2>3, <2>4 DEF Listed
<1>4. /\ \A v \in Workers : v # w => curClient[v] # c
      /\ overloadWorker' \in Workers
      /\ readyWorkers' \in Seq(Workers)
  BY <1>1, <1>2 DEF Owners, IInv, TypeOK
<1> QED
  BY <1>1, <1>2, <1>3, <1>4, ForwardInv

\* The index stays in the array because by now every worker is counted.
LEMMA FrontendOverloadInv ==
    ASSUME IInv, NEW c \in Clients, FrontendOverload(c)
    PROVE  IInv'
<1> DEFINE w == overloadWorker
<1>1. /\ w \in Workers
      /\ curClient' = [curClient EXCEPT ![w] = c]
      /\ Forward(c, w)
      /\ Accept(c)
      /\ overloadWorker' = NextOverload
      /\ Owners(c) = {}
      /\ UNCHANGED <<status, registered, workersReadyCount, readyWorkers,
                     backend, phase, job, received, lastReply>>
  BY DEF IInv, TypeOK, FrontendOverload, workerVars
<1>2. workersReadyCount = WorkersCount
  BY <1>1, AcceptFacts, WorkersFinite DEF IInv, RegisteredBeforeUse
<1>3. overloadWorker' \in Workers
  <2>1. /\ WorkersCount \in Nat \ {0}
        /\ overloadWorker \in Nat
        /\ overloadWorker' = (overloadWorker + 1) % WorkersCount
    BY <1>1, <1>2, WorkersCountAssumption DEF NextOverload, Workers
  <2> QED
    BY <2>1 DEF Workers
<1>4. /\ \A v \in Workers : v # w => curClient[v] # c
      /\ \A v \in Workers : v # w /\ Listed(v) => Listed(v)'
      /\ readyWorkers' \in Seq(Workers)
  BY <1>1 DEF Owners, IInv, TypeOK, Listed
<1> HIDE DEF w
<1> QED
  BY <1>1, <1>3, <1>4, ForwardInv

LEMMA StutterInv ==
    ASSUME IInv, UNCHANGED vars
    PROVE  IInv'
<1>1. UNCHANGED <<status, registered, workersReadyCount, curClient, readyWorkers,
                  overloadWorker, inbox, backend, phase, job, sent, received, lastReply>>
  BY DEF vars, routerVars, socketVars, workerVars, clientVars
<1>2. TypeOK'
  BY <1>1 DEF IInv, TypeOK
<1>3. OneOwner' /\ RegisteredBeforeUse'
  BY <1>1 DEF IInv, OneOwner, RegisteredBeforeUse
<1>4. QuietWorkerIsReady'
  BY <1>1 DEF IInv, QuietWorkerIsReady, Quiet
<1>5. ASSUME NEW v \in Workers
      PROVE  Startup(v)' /\ Carried(v)'
  BY <1>1 DEF IInv, Startup, Carried
<1> QED
  BY <1>2, <1>3, <1>4, <1>5 DEF IInv

(***************************************************************************)
(* The theorems                                                            *)
(***************************************************************************)

LEMMA NextInv == IInv /\ [Next]_vars => IInv'
<1> SUFFICES ASSUME IInv, [Next]_vars PROVE IInv'
  OBVIOUS
<1>1. ASSUME NEW w \in Workers, SignalReady(w) PROVE IInv'
  BY <1>1, SignalReadyInv
<1>2. ASSUME NEW w \in Workers, Receive(w) PROVE IInv'
  BY <1>2, ReceiveInv
<1>3. ASSUME NEW w \in Workers, Reply(w) PROVE IInv'
  BY <1>3, ReplyInv
<1>4. ASSUME NEW w \in Workers, Router_backend(w) PROVE IInv'
  BY <1>4, BackendReadyInv, BackendNormalInv, BackendErrorInv, BackendUnknownInv
     DEF Router_backend
<1>5. ASSUME NEW c \in Clients, Router_frontend(c) PROVE IInv'
  BY <1>5, FrontendDiscardInv, FrontendStickyInv, FrontendReadyInv, FrontendOverloadInv
     DEF Router_frontend
<1>6. CASE Idle
  BY <1>6, StutterInv DEF Idle
<1>7. CASE UNCHANGED vars
  BY <1>7, StutterInv
<1> QED
  BY <1>1, <1>2, <1>3, <1>4, <1>5, <1>6, <1>7 DEF Next

\* The strengthened invariant holds in every reachable state.
THEOREM Invariance == Spec => []IInv
<1> QED
  BY InitInv, NextInv, PTL DEF Spec

\* Every variable keeps its type for any number of workers; in particular the
\* overload index always stays inside the workers array.
THEOREM TypeCorrectness == Spec => []TypeOK
<1>1. IInv => TypeOK
  BY DEF IInv
<1> QED
  BY <1>1, Invariance, PTL

\* However stickiness, overload and errors move the responsibility for a
\* client between the workers, never more than one of them has it.
THEOREM UniqueOwner == Spec => []OneOwner
<1>1. IInv => OneOwner
  BY DEF IInv
<1> QED
  BY <1>1, Invariance, PTL

\* The Router forwards nothing to a worker whose identity it does not know,
\* and its count of ready workers is the number of registered ones.
THEOREM NoUnknownWorker == Spec => []RegisteredBeforeUse
<1>1. IInv => RegisteredBeforeUse
  BY DEF IInv
<1> QED
  BY <1>1, Invariance, PTL

\* A worker that has drained is in the list of ready workers and free, unless
\* its last message was an ERROR.
THEOREM DrainedWorkerIsReady == Spec => []QuietWorkerIsReady
<1>1. IInv => QuietWorkerIsReady
  BY DEF IInv
<1> QED
  BY <1>1, Invariance, PTL
=============================================================================
