------------------------ MODULE RouterServiceProofs ------------------------
(***************************************************************************)
(* Router implements RequestService, and with one worker it keeps the      *)
(* order of every client's packets.                                        *)
(*                                                                         *)
(* A packet under way is in one place: it waits for a worker, is being     *)
(* processed by one, or is the request of a reply the Router has not read. *)
(* The invariant says so (Alone), that what passes through a worker leaves *)
(* it in the order in which it was sent (InOrder), and that an answered    *)
(* packet is nowhere any more (AnswersOver).                               *)
(***************************************************************************)
EXTENDS RouterProofs

\* The places of a packet
Contains(s, r) == \E i \in 1..Len(s) : s[i] = r
Asks(s, r) == \E i \in 1..Len(s) : s[i].request = r

Waits(w, r) == Contains(inbox[w], r)
Replied(w, r) == Asks(backend[w], r)
Travels(w, r) == Waits(w, r) \/ job[w] = r \/ Replied(w, r)

\* A data frame of the answer to r has been sent.
Answered(r) == Contains(received[r[1]], r[2])

\* Packets of two clients have no order.
Before(q, r) == q[1] = r[1] => q[2] < r[2]

Sorted(s) ==
    \A i, j \in 1..Len(s) : i < j => Before(s[i], s[j])

SortedReplies(s) ==
    \A i, j \in 1..Len(s) :
        i < j /\ s[i].request \in Requests /\ s[j].request \in Requests =>
            Before(s[i].request, s[j].request)

\* What worker w has replied to was sent before what it processes, and that
\* before what waits for it.
InOrder(w) ==
    /\ Sorted(inbox[w])
    /\ SortedReplies(backend[w])
    /\ \A q, r \in Requests :
         /\ Replied(w, q) /\ (job[w] = r \/ Waits(w, r)) => Before(q, r)
         /\ job[w] = q /\ Waits(w, r) => Before(q, r)

\* No packet is with two workers.
Alone ==
    \A v, w \in Workers : \A r \in Requests :
        Travels(v, r) /\ Travels(w, r) => v = w

\* Only packets the frontend has read are under way.
Taken ==
    \A w \in Workers : \A r \in Requests : Travels(w, r) => r[2] <= sent[r[1]]

\* READY is about no packet.
ReadyAsksNothing ==
    \A w \in Workers : \A i \in 1..Len(backend[w]) :
        backend[w][i].header = "READY" => backend[w][i].request = NoRequest

IdleHasNoJob == \A w \in Workers : phase[w] # "busy" => job[w] = NoRequest

AnswersOver ==
    \A r \in Requests : Answered(r) =>
        /\ r[2] <= sent[r[1]]
        /\ \A w \in Workers : ~ Travels(w, r)

AnswersInOrder ==
    WorkersCount = 1 =>
        \A w \in Workers : \A q, r \in Requests :
            Answered(q) /\ Travels(w, r) => Before(q, r)

SInv ==
    /\ \A w \in Workers : InOrder(w)
    /\ Alone
    /\ Taken
    /\ IdleHasNoJob
    /\ ReadyAsksNothing
    /\ AnswersOver
    /\ AnswersInOrder

(***************************************************************************)
(* Lemmas on sequences of packets and of messages                          *)
(***************************************************************************)

\* What is appended is contained and, if it is newer than the rest, in order.
LEMMA AppendPacket ==
    ASSUME NEW s \in Seq(Requests), NEW x \in Requests, Sorted(s),
           \A r \in Requests : Contains(s, r) => Before(r, x)
    PROVE  /\ Sorted(Append(s, x))
           /\ \A r \in Requests : Contains(Append(s, x), r) <=> Contains(s, r) \/ r = x
<1> DEFINE t == Append(s, x)
<1>1. /\ Len(t) = Len(s) + 1
      /\ \A i \in 1..Len(s) : t[i] = s[i]
      /\ t[Len(s) + 1] = x
      /\ Len(s) \in Nat
  BY AppendProperties, LenProperties
<1>2. \A i \in 1..Len(s) : s[i] \in Requests
  BY ElementOfSeq
<1> HIDE DEF t
<1>3. ASSUME NEW i \in 1..Len(t), NEW j \in 1..Len(t), i < j
      PROVE  Before(t[i], t[j])
  <2>1. i \in 1..Len(s) /\ t[i] = s[i] /\ s[i] \in Requests
    BY <1>1, <1>2, <1>3
  <2>2. CASE j \in 1..Len(s)
    BY <1>1, <1>3, <2>1, <2>2 DEF Sorted
  <2>3. CASE j = Len(s) + 1
    <3>1. t[j] = x
      BY <1>1, <2>3
    <3>2. Contains(s, s[i])
      BY <2>1 DEF Contains
    <3> QED
      BY <2>1, <3>1, <3>2
  <2> QED
    BY <1>1, <2>2, <2>3
<1>4. ASSUME NEW r \in Requests
      PROVE  Contains(t, r) <=> Contains(s, r) \/ r = x
  <2>1. ASSUME NEW i \in 1..Len(t), t[i] = r PROVE Contains(s, r) \/ r = x
    <3>1. CASE i \in 1..Len(s)
      BY <1>1, <2>1, <3>1 DEF Contains
    <3>2. CASE i = Len(s) + 1
      BY <1>1, <2>1, <3>2
    <3> QED
      BY <1>1, <3>1, <3>2
  <2>2. ASSUME NEW i \in 1..Len(s), s[i] = r PROVE Contains(t, r)
    BY <1>1, <2>2 DEF Contains
  <2>3. r = x => Contains(t, r)
    BY <1>1 DEF Contains
  <2> QED
    BY <2>1, <2>2, <2>3 DEF Contains
<1> QED
  BY <1>3, <1>4 DEF Sorted, t

\* The head is older than the rest, so it does not occur in it.
LEMMA TailPacket ==
    ASSUME NEW s \in Seq(Requests), s # <<>>, Sorted(s)
    PROVE  /\ Head(s) \in Requests
           /\ Contains(s, Head(s))
           /\ Sorted(Tail(s))
           /\ \A r \in Requests :
                /\ Contains(Tail(s), r) <=> Contains(s, r) /\ r # Head(s)
                /\ Contains(Tail(s), r) => Before(Head(s), r)
<1> DEFINE t == Tail(s)
           h == Head(s)
<1>1. /\ Len(t) = Len(s) - 1
      /\ \A i \in 1..Len(t) : t[i] = s[i + 1]
      /\ Len(s) \in Nat /\ Len(s) > 0
      /\ h = s[1] /\ h \in Requests
  BY HeadTailProperties, LenProperties, EmptySeq
<1> HIDE DEF t, h
<1>2. 1 \in 1..Len(s) /\ Contains(s, h)
  BY <1>1 DEF Contains
<1>3. \A i \in 1..Len(t) : i + 1 \in 1..Len(s) /\ t[i] = s[i + 1]
  BY <1>1
<1>4. Sorted(t)
  <2> SUFFICES ASSUME NEW i \in 1..Len(t), NEW j \in 1..Len(t), i < j
               PROVE  Before(t[i], t[j])
    BY DEF Sorted
  <2>1. Before(s[i + 1], s[j + 1])
    <3>1. i + 1 \in 1..Len(s) /\ j + 1 \in 1..Len(s) /\ i + 1 < j + 1
      BY <1>1
    <3> QED
      BY <3>1 DEF Sorted
  <2> QED
    BY <1>3, <2>1
<1>5. ASSUME NEW r \in Requests, Contains(t, r)
      PROVE  Contains(s, r) /\ r # h /\ Before(h, r)
  <2>1. PICK i \in 1..Len(t) : t[i] = r
    BY <1>5 DEF Contains
  <2>2. i + 1 \in 1..Len(s) /\ s[i + 1] = r /\ 1 < i + 1
    BY <1>1, <1>3, <2>1
  <2>3. Before(h, r)
    BY <1>1, <1>2, <2>2 DEF Sorted
  <2>4. Contains(s, r)
    BY <2>2, Zenon DEF Contains
  <2>5. r # h
    <3>1. r[2] \in Int
      BY DEF Requests
    <3> QED
      BY <2>3, <3>1 DEF Before
  <2> QED
    BY <2>3, <2>4, <2>5
<1>6. ASSUME NEW r \in Requests, Contains(s, r), r # h
      PROVE  Contains(t, r)
  <2>1. PICK i \in 1..Len(s) : s[i] = r
    BY <1>6 DEF Contains
  <2>2. i # 1
    BY <1>1, <1>6, <2>1
  <2> DEFINE k == i - 1
  <2>3. k \in 1..Len(t) /\ k + 1 = i
    BY <1>1, <2>1, <2>2
  <2>4. t[k] = r
    BY <1>1, <2>1, <2>3
  <2> HIDE DEF k
  <2> QED
    BY <2>3, <2>4 DEF Contains
<1> QED
  BY <1>1, <1>2, <1>4, <1>5, <1>6 DEF t, h

\* The same for messages, of which READY has no packet.
LEMMA AppendMessage ==
    ASSUME NEW s \in Seq(Messages), NEW m \in Messages, SortedReplies(s),
           m.request \in Requests =>
             \A r \in Requests : Asks(s, r) => Before(r, m.request)
    PROVE  /\ SortedReplies(Append(s, m))
           /\ \A r : Asks(Append(s, m), r) <=> Asks(s, r) \/ r = m.request
<1> DEFINE t == Append(s, m)
<1>1. /\ Len(t) = Len(s) + 1
      /\ \A i \in 1..Len(s) : t[i] = s[i]
      /\ t[Len(s) + 1] = m
      /\ Len(s) \in Nat
  BY AppendProperties, LenProperties
<1> HIDE DEF t
<1>2. ASSUME NEW i \in 1..Len(t), NEW j \in 1..Len(t), i < j,
             t[i].request \in Requests, t[j].request \in Requests
      PROVE  Before(t[i].request, t[j].request)
  <2>1. i \in 1..Len(s) /\ t[i] = s[i]
    BY <1>1, <1>2
  <2>2. CASE j \in 1..Len(s)
    BY <1>1, <1>2, <2>1, <2>2 DEF SortedReplies
  <2>3. CASE j = Len(s) + 1
    <3>1. t[j] = m
      BY <1>1, <2>3
    <3>2. Asks(s, t[i].request)
      BY <2>1 DEF Asks
    <3> QED
      BY <1>2, <3>1, <3>2
  <2> QED
    BY <1>1, <2>2, <2>3
<1>3. ASSUME NEW r
      PROVE  Asks(t, r) <=> Asks(s, r) \/ r = m.request
  <2>1. ASSUME NEW i \in 1..Len(t), t[i].request = r PROVE Asks(s, r) \/ r = m.request
    <3>1. CASE i \in 1..Len(s)
      BY <1>1, <2>1, <3>1 DEF Asks
    <3>2. CASE i = Len(s) + 1
      BY <1>1, <2>1, <3>2
    <3> QED
      BY <1>1, <3>1, <3>2
  <2>2. ASSUME NEW i \in 1..Len(s), s[i].request = r PROVE Asks(t, r)
    BY <1>1, <2>2 DEF Asks
  <2>3. r = m.request => Asks(t, r)
    BY <1>1 DEF Asks
  <2> QED
    BY <2>1, <2>2, <2>3 DEF Asks
<1> QED
  BY <1>2, <1>3 DEF SortedReplies, t

LEMMA TailMessage ==
    ASSUME NEW s \in Seq(Messages), s # <<>>, SortedReplies(s),
           NEW r \in Requests
    PROVE  /\ SortedReplies(Tail(s))
           /\ Head(s).request \in Requests =>
                /\ Asks(Tail(s), r) <=> Asks(s, r) /\ r # Head(s).request
                /\ Asks(Tail(s), r) => Before(Head(s).request, r)
           /\ Head(s).request \notin Requests => (Asks(Tail(s), r) <=> Asks(s, r))
           /\ Asks(s, Head(s).request)
<1> DEFINE t == Tail(s)
           h == Head(s)
<1>1. /\ Len(t) = Len(s) - 1
      /\ \A i \in 1..Len(t) : t[i] = s[i + 1]
      /\ Len(s) \in Nat /\ Len(s) > 0
      /\ h = s[1]
  BY HeadTailProperties, LenProperties, EmptySeq
<1> HIDE DEF t, h
<1>2. 1 \in 1..Len(s) /\ Asks(s, h.request)
  BY <1>1 DEF Asks
<1>3. \A i \in 1..Len(t) : i + 1 \in 1..Len(s) /\ t[i] = s[i + 1]
  BY <1>1
<1>4. SortedReplies(t)
  <2> SUFFICES ASSUME NEW i \in 1..Len(t), NEW j \in 1..Len(t), i < j,
                      t[i].request \in Requests, t[j].request \in Requests
               PROVE  Before(t[i].request, t[j].request)
    BY DEF SortedReplies
  <2>1. i + 1 \in 1..Len(s) /\ j + 1 \in 1..Len(s) /\ i + 1 < j + 1
    BY <1>1
  <2>2. s[i + 1].request \in Requests /\ s[j + 1].request \in Requests
    BY <1>3
  <2>3. Before(s[i + 1].request, s[j + 1].request)
    BY <2>1, <2>2 DEF SortedReplies
  <2> QED
    BY <1>3, <2>3
<1>5. ASSUME Asks(t, r)
      PROVE  Asks(s, r) /\ (h.request \in Requests => r # h.request /\ Before(h.request, r))
  <2>1. PICK i \in 1..Len(t) : t[i].request = r
    BY <1>5 DEF Asks
  <2>2. i + 1 \in 1..Len(s) /\ s[i + 1].request = r /\ 1 < i + 1
    BY <1>1, <1>3, <2>1
  <2>3. Asks(s, r)
    BY <2>2, Zenon DEF Asks
  <2>4. ASSUME h.request \in Requests PROVE r # h.request /\ Before(h.request, r)
    <3>1. Before(h.request, r)
      BY <1>1, <1>2, <2>2, <2>4 DEF SortedReplies
    <3>2. r[2] \in Int
      BY DEF Requests
    <3> QED
      BY <3>1, <3>2 DEF Before
  <2> QED
    BY <2>3, <2>4
<1>6. ASSUME Asks(s, r), r # h.request
      PROVE  Asks(t, r)
  <2>1. PICK i \in 1..Len(s) : s[i].request = r
    BY <1>6 DEF Asks
  <2>2. i # 1
    BY <1>1, <1>6, <2>1
  <2> DEFINE k == i - 1
  <2>3. k \in 1..Len(t) /\ k + 1 = i
    BY <1>1, <2>1, <2>2
  <2>4. t[k].request = r
    BY <1>1, <2>1, <2>3
  <2> HIDE DEF k
  <2> QED
    BY <2>3, <2>4 DEF Asks
<1> QED
  BY <1>2, <1>4, <1>5, <1>6 DEF t, h

\* Copies of one element add that element.
LEMMA AppendCopies ==
    ASSUME NEW S, NEW s \in Seq(S), NEW u \in Seq(S), NEW n,
           \A i \in 1..Len(u) : u[i] = n, NEW k
    PROVE  Contains(s \o u, k) <=> Contains(s, k) \/ (k = n /\ Len(u) > 0)
<1> DEFINE t == s \o u
<1>1. /\ Len(t) = Len(s) + Len(u)
      /\ \A i \in 1..(Len(s) + Len(u)) : t[i] = IF i <= Len(s) THEN s[i] ELSE u[i - Len(s)]
      /\ Len(s) \in Nat /\ Len(u) \in Nat
  BY ConcatProperties, LenProperties
<1> HIDE DEF t
<1>2. ASSUME NEW i \in 1..Len(t), t[i] = k
      PROVE  Contains(s, k) \/ (k = n /\ Len(u) > 0)
  <2>1. CASE i <= Len(s)
    BY <1>1, <1>2, <2>1 DEF Contains
  <2>2. CASE i > Len(s)
    BY <1>1, <1>2, <2>2
  <2> QED
    BY <1>1, <2>1, <2>2
<1>3. ASSUME NEW i \in 1..Len(s), s[i] = k
      PROVE  Contains(t, k)
  <2>1. i \in 1..Len(t) /\ t[i] = k
    BY <1>1, <1>3
  <2> QED
    BY <2>1 DEF Contains
<1>4. ASSUME k = n, Len(u) > 0
      PROVE  Contains(t, k)
  <2> DEFINE i == Len(s) + 1
  <2>1. i \in 1..Len(t) /\ t[i] = n
    BY <1>1, <1>4
  <2> HIDE DEF i
  <2> QED
    BY <1>4, <2>1 DEF Contains
<1> QED
  BY <1>2, <1>3, <1>4 DEF Contains, t

(***************************************************************************)
(* What each step does to the places                                       *)
(***************************************************************************)
LEMMA NoRequestIsNone ==
    /\ NoRequest \notin Requests
    /\ \A r \in Requests : r[1] \in Clients /\ r[2] \in 1..MaxRequests /\ r = <<r[1], r[2]>>
  BY ClientsAssumption DEF NoRequest, Requests

LEMMA InitPlaces == Init => SInv
<1> SUFFICES ASSUME Init PROVE SInv
  OBVIOUS
<1>1. ASSUME NEW w \in Workers, NEW r \in Requests PROVE ~ Travels(w, r)
  <2>1. inbox[w] = <<>> /\ backend[w] = <<>> /\ job[w] = NoRequest
    BY DEF Init
  <2>2. ~ Waits(w, r) /\ ~ Replied(w, r)
    BY <2>1 DEF Waits, Replied, Contains, Asks
  <2> QED
    BY <2>1, <2>2, NoRequestIsNone DEF Travels
<1>2. ASSUME NEW w \in Workers PROVE InOrder(w)
  <2>1. Sorted(inbox[w]) /\ SortedReplies(backend[w])
    BY DEF Init, Sorted, SortedReplies
  <2> QED
    BY <1>1, <2>1 DEF InOrder, Travels
<1>3. \A r \in Requests : ~ Answered(r)
  BY NoRequestIsNone DEF Init, Answered, Contains
<1>4. IdleHasNoJob /\ ReadyAsksNothing
  BY DEF Init, IdleHasNoJob, ReadyAsksNothing
<1> QED
  BY <1>1, <1>2, <1>3, <1>4 DEF SInv, Alone, Taken, AnswersOver, AnswersInOrder

\* A packet leaves the queue of its worker and becomes its job.
LEMMA ReceiveEffect ==
    ASSUME IInv, SInv, NEW w \in Workers, Receive(w)
    PROVE  \E r \in Requests :
             /\ Waits(w, r)
             /\ job[w] = NoRequest
             /\ job' = [job EXCEPT ![w] = r]
             /\ phase' = [phase EXCEPT ![w] = "busy"]
             /\ \A v \in Workers : \A q \in Requests :
                  Waits(v, q)' <=> Waits(v, q) /\ q # r
             /\ \A q \in Requests : Waits(w, q)' => Before(r, q)
             /\ \A v \in Workers : Sorted(inbox[v])'
             /\ UNCHANGED <<backend, sent, received>>
<1> DEFINE r == Head(inbox[w])
<1>1. /\ inbox \in [Workers -> Seq(Requests)]
      /\ inbox[w] # <<>>
      /\ phase[w] = "waiting"
      /\ inbox' = [inbox EXCEPT ![w] = Tail(inbox[w])]
      /\ job' = [job EXCEPT ![w] = r]
      /\ phase' = [phase EXCEPT ![w] = "busy"]
      /\ UNCHANGED <<backend, sent, received>>
  BY DEF IInv, TypeOK, Receive, clientVars
<1>2. Sorted(inbox[w])
  BY DEF SInv, InOrder
<1>3. /\ r \in Requests
      /\ Contains(inbox[w], r)
      /\ Sorted(Tail(inbox[w]))
      /\ \A q \in Requests :
           /\ Contains(Tail(inbox[w]), q) <=> Contains(inbox[w], q) /\ q # r
           /\ Contains(Tail(inbox[w]), q) => Before(r, q)
  BY <1>1, <1>2, TailPacket
<1> HIDE DEF r
<1>4. /\ inbox'[w] = Tail(inbox[w])
      /\ \A v \in Workers : v # w => inbox'[v] = inbox[v]
  BY <1>1
<1>5. job[w] = NoRequest
  BY <1>1 DEF SInv, IdleHasNoJob
<1>6. ASSUME NEW v \in Workers, NEW q \in Requests
      PROVE  Waits(v, q)' <=> Waits(v, q) /\ q # r
  <2>1. CASE v = w
    BY <1>3, <1>4, <2>1 DEF Waits
  <2>2. CASE v # w
    <3>1. Waits(w, r) /\ ~ Waits(v, r)
      BY <1>3, <2>2 DEF SInv, Alone, Travels, Waits
    <3>2. Waits(v, q)' <=> Waits(v, q)
      BY <1>4, <2>2 DEF Waits
    <3> QED
      BY <3>1, <3>2
  <2> QED
    BY <2>1, <2>2
<1>7. \A v \in Workers : Sorted(inbox[v])'
  <2> SUFFICES ASSUME NEW v \in Workers PROVE Sorted(inbox'[v])
    BY DEF Sorted
  <2>1. Sorted(inbox[v])
    BY DEF SInv, InOrder
  <2> QED
    BY <1>3, <1>4, <2>1
<1>8. \A q \in Requests : Waits(w, q)' => Before(r, q)
  BY <1>3, <1>4 DEF Waits
<1> QED
  BY <1>1, <1>3, <1>5, <1>6, <1>7, <1>8 DEF Waits

\* The job becomes a reply; some of what waits for the worker may be lost.
LEMMA ReplyEffect ==
    ASSUME IInv, SInv, NEW w \in Workers, Reply(w)
    PROVE  \E r \in Requests : \E eaten \in SUBSET {q \in Requests : Waits(w, q)} :
             /\ job[w] = r
             /\ job' = [job EXCEPT ![w] = NoRequest]
             /\ phase' = [phase EXCEPT ![w] = "waiting"]
             /\ \A v \in Workers : \A q \in Requests :
                  /\ Waits(v, q)' <=> Waits(v, q) /\ q \notin eaten
                  /\ Replied(v, q)' <=> Replied(v, q) \/ (v = w /\ q = r)
             /\ \A v \in Workers : Sorted(inbox[v])' /\ SortedReplies(backend[v])'
             /\ ReadyAsksNothing'
             /\ UNCHANGED <<sent, received>>
<1> DEFINE r == job[w]
<1>1. /\ inbox \in [Workers -> Seq(Requests)]
      /\ backend \in [Workers -> Seq(Messages)]
      /\ phase[w] = "busy"
      /\ r \in Requests
      /\ job' = [job EXCEPT ![w] = NoRequest]
      /\ phase' = [phase EXCEPT ![w] = "waiting"]
      /\ UNCHANGED <<sent, received>>
  BY DEF IInv, TypeOK, Carried, Reply, clientVars
<1>2. PICK h \in {"NORMAL", "ERROR", "unknown"}, n \in Nat :
        backend' = [backend EXCEPT ![w] = Append(backend[w], Message(h, job[w], n))]
  <2>1. \A h : (IF h = "NORMAL" THEN 0..MaxFrames ELSE {0}) \subseteq Nat
    BY BoundsAssumption
  <2> QED
    BY <2>1, Zenon DEF Reply
<1> DEFINE m == Message(h, job[w], n)
<1>3. m \in Messages /\ m.header # "READY" /\ m.request = r
  BY <1>1 DEF Message, Messages, Headers
<1>4. /\ backend'[w] = Append(backend[w], m)
      /\ \A v \in Workers : v # w => backend'[v] = backend[v]
      /\ backend[w] \in Seq(Messages)
  BY <1>1, <1>2
<1> HIDE DEF m
<1>5. \A q \in Requests : Replied(w, q) => Before(q, r)
  BY <1>1 DEF SInv, InOrder
<1> HIDE DEF r
<1>6. SortedReplies(backend[w])
  BY DEF SInv, InOrder
<1>7. /\ SortedReplies(Append(backend[w], m))
      /\ \A q : Asks(Append(backend[w], m), q) <=> Asks(backend[w], q) \/ q = r
  <2>1. m.request \in Requests =>
          \A q \in Requests : Asks(backend[w], q) => Before(q, m.request)
    BY <1>3, <1>5 DEF Replied
  <2> QED
    BY <1>3, <1>4, <1>6, <2>1, AppendMessage
<1>8. ASSUME NEW v \in Workers, NEW q \in Requests
      PROVE  Replied(v, q)' <=> Replied(v, q) \/ (v = w /\ q = r)
  BY <1>4, <1>7 DEF Replied
<1>9. \A v \in Workers : SortedReplies(backend[v])'
  <2> SUFFICES ASSUME NEW v \in Workers PROVE SortedReplies(backend'[v])
    BY DEF SortedReplies
  <2>1. SortedReplies(backend[v])
    BY DEF SInv, InOrder
  <2> QED
    BY <1>4, <1>7, <2>1
<1>10. ReadyAsksNothing'
  <2> SUFFICES ASSUME NEW v \in Workers, NEW i \in 1..Len(backend'[v]),
                      backend'[v][i].header = "READY"
               PROVE  backend'[v][i].request = NoRequest
    BY DEF ReadyAsksNothing
  <2>1. CASE v = w
    <3>1. /\ Len(backend'[w]) = Len(backend[w]) + 1
          /\ \A k \in 1..Len(backend[w]) : backend'[w][k] = backend[w][k]
          /\ backend'[w][Len(backend[w]) + 1] = m
          /\ Len(backend[w]) \in Nat
      BY <1>3, <1>4, AppendProperties, LenProperties
    <3>2. i \in 1..Len(backend[w])
      BY <1>3, <2>1, <3>1
    <3> QED
      BY <2>1, <3>1, <3>2 DEF SInv, ReadyAsksNothing
  <2>2. CASE v # w
    BY <1>4, <2>2 DEF SInv, ReadyAsksNothing
  <2> QED
    BY <2>1, <2>2
<1>11. \E eaten \in SUBSET {q \in Requests : Waits(w, q)} :
         /\ \A v \in Workers : \A q \in Requests :
              Waits(v, q)' <=> Waits(v, q) /\ q \notin eaten
         /\ \A v \in Workers : Sorted(inbox[v])'
  <2>1. CASE inbox' = inbox
    <3>1. \A v \in Workers : Sorted(inbox[v])'
      BY <2>1 DEF SInv, InOrder, Sorted
    <3>2. \A v \in Workers : \A q \in Requests : Waits(v, q)' <=> Waits(v, q)
      BY <2>1 DEF Waits, Contains
    <3> WITNESS {} \in SUBSET {q \in Requests : Waits(w, q)}
    <3> QED
      BY <3>1, <3>2
  <2>2. CASE inbox' = [inbox EXCEPT ![w] = <<>>]
    <3> DEFINE all == {q \in Requests : Waits(w, q)}
    <3>1. /\ inbox'[w] = <<>>
          /\ \A v \in Workers : v # w => inbox'[v] = inbox[v]
      BY <1>1, <2>2
    <3>2. ASSUME NEW v \in Workers PROVE Sorted(inbox'[v])
      <4>1. Sorted(inbox[v])
        BY DEF SInv, InOrder
      <4> QED
        BY <3>1, <4>1 DEF Sorted
    <3>3. ASSUME NEW v \in Workers, NEW q \in Requests
          PROVE  Waits(v, q)' <=> Waits(v, q) /\ q \notin all
      <4>1. CASE v = w
        BY <3>1, <4>1 DEF Waits, Contains
      <4>2. CASE v # w
        <5>1. Waits(v, q)' <=> Waits(v, q)
          BY <3>1, <4>2 DEF Waits
        <5>2. ~ (Waits(v, q) /\ Waits(w, q))
          BY <4>2 DEF SInv, Alone, Travels
        <5> QED
          BY <5>1, <5>2
      <4> QED
        BY <4>1, <4>2
    <3>4. \A v \in Workers : Sorted(inbox[v])'
      BY <3>2 DEF Sorted
    <3> WITNESS all \in SUBSET {q \in Requests : Waits(w, q)}
    <3> QED
      BY <3>3, <3>4
  <2> QED
    BY <2>1, <2>2 DEF Reply, EatWaiting
<1> QED
  BY <1>1, <1>8, <1>9, <1>10, <1>11 DEF r

\* The Router takes a message: its packet, if it has one, is not under way any
\* more.
LEMMA ReadPlaces ==
    ASSUME IInv, SInv, NEW w \in Workers, NEW h \in Headers, Read(w, h)
    PROVE  /\ LET r == Head(backend[w]).request
              IN /\ h # "READY" => r \in Requests /\ Replied(w, r)
                 /\ h = "READY" => r = NoRequest
                 /\ \A v \in Workers : \A q \in Requests :
                      Replied(v, q)' <=> Replied(v, q) /\ q # r
                 /\ h # "READY" => \A q \in Requests : Replied(w, q)' => Before(r, q)
           /\ \A v \in Workers : SortedReplies(backend[v])'
           /\ ReadyAsksNothing'
<1> DEFINE r == Head(backend[w]).request
<1>1. ReadEffect(w, h)
  BY ReadFacts
<1>2. /\ backend \in [Workers -> Seq(Messages)]
      /\ backend[w] \in Seq(Messages)
      /\ backend[w] # <<>>
      /\ backend'[w] = Tail(backend[w])
      /\ \A v \in Workers : v # w => backend'[v] = backend[v]
      /\ Head(backend[w]).header = h
  BY DEF IInv, TypeOK, Read
<1>3. SortedReplies(backend[w])
  BY DEF SInv, InOrder
<1>4. /\ h # "READY" => r \in Requests
      /\ h = "READY" => r = NoRequest
  BY <1>1 DEF ReadEffect, IInv, Carried, SInv, ReadyAsksNothing
<1>5. SortedReplies(Tail(backend[w]))
  <2>1. CASE Requests = {}
    BY <2>1 DEF SortedReplies
  <2>2. CASE \E q : q \in Requests
    BY <1>2, <1>3, <2>2, TailMessage
  <2> QED
    BY <2>1, <2>2
<1>6. ASSUME NEW q \in Requests
      PROVE  /\ Asks(Tail(backend[w]), q) <=> Asks(backend[w], q) /\ q # r
             /\ Asks(backend[w], r)
             /\ h # "READY" => (Asks(Tail(backend[w]), q) => Before(r, q))
  BY <1>2, <1>3, <1>4, TailMessage, NoRequestIsNone
<1>7. h # "READY" => Replied(w, r)
  BY <1>4, <1>6 DEF Replied
<1> HIDE DEF r
<1>8. ASSUME NEW v \in Workers, NEW q \in Requests
      PROVE  Replied(v, q)' <=> Replied(v, q) /\ q # r
  <2>1. CASE v = w
    BY <1>2, <1>6, <2>1 DEF Replied
  <2>2. CASE v # w
    <3>1. Replied(v, q)' <=> Replied(v, q)
      BY <1>2, <2>2 DEF Replied
    <3>2. ~ Replied(v, q) \/ q # r
      BY <1>4, <1>7, <2>2, NoRequestIsNone DEF SInv, Alone, Travels
    <3> QED
      BY <3>1, <3>2
  <2> QED
    BY <2>1, <2>2
<1>9. \A v \in Workers : SortedReplies(backend[v])'
  <2> SUFFICES ASSUME NEW v \in Workers PROVE SortedReplies(backend'[v])
    BY DEF SortedReplies
  <2>1. SortedReplies(backend[v])
    BY DEF SInv, InOrder
  <2> QED
    BY <1>2, <1>5, <2>1
<1>10. ReadyAsksNothing'
  <2> SUFFICES ASSUME NEW v \in Workers, NEW i \in 1..Len(backend'[v]),
                      backend'[v][i].header = "READY"
               PROVE  backend'[v][i].request = NoRequest
    BY DEF ReadyAsksNothing
  <2>1. CASE v = w
    <3> DEFINE k == i + 1
    <3>1. k \in 1..Len(backend[w]) /\ backend'[w][i] = backend[w][k]
      BY <1>1, <2>1 DEF ReadEffect
    <3> HIDE DEF k
    <3> QED
      BY <2>1, <3>1 DEF SInv, ReadyAsksNothing
  <2>2. CASE v # w
    BY <1>2, <2>2 DEF SInv, ReadyAsksNothing
  <2> QED
    BY <2>1, <2>2
<1>11. h # "READY" => \A q \in Requests : Replied(w, q)' => Before(r, q)
  BY <1>2, <1>6 DEF Replied
<1> QED
  BY <1>4, <1>7, <1>8, <1>9, <1>10, <1>11 DEF r

\* Signalling READY moves no packet.
LEMMA SignalReadyPlaces ==
    ASSUME IInv, SInv, NEW w \in Workers, SignalReady(w)
    PROVE  /\ \A v \in Workers : \A q \in Requests : Replied(v, q)' <=> Replied(v, q)
           /\ \A v \in Workers : SortedReplies(backend[v])'
           /\ ReadyAsksNothing'
           /\ phase' = [phase EXCEPT ![w] = "waiting"]
           /\ job[w] = NoRequest
           /\ UNCHANGED <<inbox, job, sent, received>>
<1> DEFINE m == Message("READY", NoRequest, 0)
<1>1. /\ backend \in [Workers -> Seq(Messages)]
      /\ backend' = [backend EXCEPT ![w] = Append(backend[w], m)]
      /\ phase' = [phase EXCEPT ![w] = "waiting"]
      /\ UNCHANGED <<inbox, job, sent, received>>
      /\ phase[w] = "starting"
  BY DEF IInv, TypeOK, SignalReady, clientVars
<1>2. m \in Messages /\ m.request = NoRequest
  BY DEF Message, Messages, Headers
<1> HIDE DEF m
<1>3. SortedReplies(backend[w]) /\ backend[w] \in Seq(Messages)
  BY <1>1 DEF SInv, InOrder
<1>4. /\ SortedReplies(Append(backend[w], m))
      /\ \A q : Asks(Append(backend[w], m), q) <=> Asks(backend[w], q) \/ q = NoRequest
  BY <1>2, <1>3, NoRequestIsNone, AppendMessage
<1>5. /\ backend'[w] = Append(backend[w], m)
      /\ \A v \in Workers : v # w => backend'[v] = backend[v]
  BY <1>1
<1>6. \A v \in Workers : \A q \in Requests : Replied(v, q)' <=> Replied(v, q)
  BY <1>4, <1>5, NoRequestIsNone DEF Replied
<1>7. \A v \in Workers : SortedReplies(backend[v])'
  <2> SUFFICES ASSUME NEW v \in Workers PROVE SortedReplies(backend'[v])
    BY DEF SortedReplies
  <2>1. SortedReplies(backend[v])
    BY DEF SInv, InOrder
  <2> QED
    BY <1>4, <1>5, <2>1
<1>8. ReadyAsksNothing'
  <2> SUFFICES ASSUME NEW v \in Workers, NEW i \in 1..Len(backend'[v]),
                      backend'[v][i].header = "READY"
               PROVE  backend'[v][i].request = NoRequest
    BY DEF ReadyAsksNothing
  <2>1. CASE v = w
    <3>1. /\ Len(backend'[w]) = Len(backend[w]) + 1
          /\ \A k \in 1..Len(backend[w]) : backend'[w][k] = backend[w][k]
          /\ backend'[w][Len(backend[w]) + 1] = m
          /\ Len(backend[w]) \in Nat
      BY <1>2, <1>3, <1>5, AppendProperties, LenProperties
    <3>2. CASE i \in 1..Len(backend[w])
      BY <2>1, <3>1, <3>2 DEF SInv, ReadyAsksNothing
    <3>3. CASE i = Len(backend[w]) + 1
      BY <1>2, <2>1, <3>1, <3>3
    <3> QED
      BY <2>1, <3>1, <3>2, <3>3
  <2>2. CASE v # w
    BY <1>5, <2>2 DEF SInv, ReadyAsksNothing
  <2> QED
    BY <2>1, <2>2
<1> QED
  BY <1>1, <1>6, <1>7, <1>8 DEF SInv, IdleHasNoJob

\* The packet the frontend reads is nowhere yet, and newer than those of its
\* client that are.
LEMMA AcceptPlaces ==
    ASSUME IInv, SInv, NEW c \in Clients, Accept(c)
    PROVE  /\ Newest(c) \in Requests
           /\ Newest(c)[1] = c
           /\ Newest(c)[2] = sent[c] + 1
           /\ sent[c] \in Nat
           /\ \A d \in Clients : sent'[d] = IF d = c THEN sent[c] + 1 ELSE sent[d]
           /\ \A d \in Clients : sent[d] \in Nat
           /\ ~ Answered(Newest(c))
           /\ \A w \in Workers : ~ Travels(w, Newest(c))
           /\ \A w \in Workers : \A q \in Requests : Travels(w, q) => Before(q, Newest(c))
           /\ \A q \in Requests : Answered(q) => Before(q, Newest(c))
<1> DEFINE r == Newest(c)
<1>1. r \in Requests
  BY AcceptFacts
<1>2. r[1] = c /\ r[2] = sent[c] + 1
  BY DEF Newest
<1>3. /\ sent \in [Clients -> Nat]
      /\ sent' = [sent EXCEPT ![c] = sent[c] + 1]
  BY BoundsAssumption DEF IInv, TypeOK, Accept
<1> HIDE DEF r
<1>4. ASSUME NEW w \in Workers, NEW q \in Requests, Travels(w, q)
      PROVE  Before(q, r)
  <2>1. q[2] <= sent[q[1]] /\ q[2] \in Int
    BY <1>4, NoRequestIsNone DEF SInv, Taken
  <2> QED
    BY <1>2, <1>3, <2>1 DEF Before
<1>5. ASSUME NEW q \in Requests, Answered(q)
      PROVE  Before(q, r)
  <2>1. q[2] <= sent[q[1]] /\ q[2] \in Int
    BY <1>5, NoRequestIsNone DEF SInv, AnswersOver
  <2> QED
    BY <1>2, <1>3, <2>1 DEF Before
<1>6. ~ Before(r, r)
  BY <1>2, <1>3 DEF Before
<1> QED
  BY <1>1, <1>2, <1>3, <1>4, <1>5, <1>6 DEF r

\* A forwarded packet waits for its worker, behind all others.
LEMMA ForwardPlaces ==
    ASSUME IInv, SInv, NEW c \in Clients, Accept(c), NEW w \in Workers, Forward(c, w)
    PROVE  /\ \A v \in Workers : \A q \in Requests :
                Waits(v, q)' <=> Waits(v, q) \/ (v = w /\ q = Newest(c))
           /\ \A v \in Workers : Sorted(inbox[v])'
<1> DEFINE r == Newest(c)
<1>1. /\ inbox \in [Workers -> Seq(Requests)]
      /\ inbox' = [inbox EXCEPT ![w] = Append(inbox[w], r)]
  BY DEF IInv, TypeOK, Forward
<1>2. /\ r \in Requests
      /\ \A q \in Requests : Contains(inbox[w], q) => Before(q, r)
  BY AcceptPlaces DEF Travels, Waits
<1> HIDE DEF r
<1>3. inbox[w] \in Seq(Requests) /\ Sorted(inbox[w])
  BY <1>1 DEF SInv, InOrder
<1>4. /\ Sorted(Append(inbox[w], r))
      /\ \A q \in Requests :
           Contains(Append(inbox[w], r), q) <=> Contains(inbox[w], q) \/ q = r
  BY <1>2, <1>3, AppendPacket
<1>5. /\ inbox'[w] = Append(inbox[w], r)
      /\ \A v \in Workers : v # w => inbox'[v] = inbox[v]
  BY <1>1
<1>6. \A v \in Workers : \A q \in Requests :
        Waits(v, q)' <=> Waits(v, q) \/ (v = w /\ q = r)
  BY <1>4, <1>5 DEF Waits
<1>7. \A v \in Workers : Sorted(inbox[v])'
  <2> SUFFICES ASSUME NEW v \in Workers PROVE Sorted(inbox'[v])
    BY DEF Sorted
  <2>1. Sorted(inbox[v])
    BY DEF SInv, InOrder
  <2> QED
    BY <1>4, <1>5, <2>1
<1> QED
  BY <1>6, <1>7 DEF r

\* The data frames of an answer reach its client.
LEMMA AnswerEffect ==
    ASSUME IInv, SInv, NEW w \in Workers, BackendNormal(w)
    PROVE  LET m == Head(backend[w])
           IN \A q \in Requests :
                Answered(q)' <=> Answered(q) \/ (q = m.request /\ m.frames > 0)
<1> DEFINE m == Head(backend[w])
           c == m.request[1]
           copies == [i \in 1..m.frames |-> m.request[2]]
<1>1. Read(w, "NORMAL") /\ "NORMAL" \in Headers
  BY DEF BackendNormal, Headers
<1>2. m.request \in Requests
  BY <1>1, ReadPlaces
<1>3. m.frames \in Nat
  <2>1. backend[w] \in Seq(Messages) /\ backend[w] # <<>>
    BY <1>1 DEF IInv, TypeOK, Read
  <2>2. m \in Messages
    BY <2>1, HeadTailProperties
  <2> QED
    BY <2>2 DEF Messages
<1>4. /\ c \in Clients
      /\ received[c] \in Seq(1..MaxRequests)
      /\ received' = [received EXCEPT ![c] = received[c] \o copies]
      /\ received \in [Clients -> Seq(1..MaxRequests)]
      /\ m.request[2] \in 1..MaxRequests
  BY <1>2, NoRequestIsNone DEF BackendNormal, IInv, TypeOK
<1>5. /\ copies \in Seq(1..MaxRequests)
      /\ Len(copies) = m.frames
      /\ \A i \in 1..m.frames : copies[i] = m.request[2]
  <2> HIDE DEF m
  <2>1. copies \in [1..m.frames -> 1..MaxRequests]
    BY <1>4
  <2>2. copies \in Seq(1..MaxRequests)
    BY <1>3, <2>1, SeqDef
  <2> QED
    BY <1>3, <2>2, LenProperties
<1>6. m.request = <<c, m.request[2]>>
  BY <1>2, NoRequestIsNone
<1> DEFINE n == m.request[2]
<1>7. \A i \in 1..Len(copies) : copies[i] = n
  BY <1>5
<1> HIDE DEF copies, m, c, n
<1>8. ASSUME NEW k
      PROVE  Contains(received[c] \o copies, k) <=>
               Contains(received[c], k) \/ (k = n /\ m.frames > 0)
  <2> DEFINE S == 1..MaxRequests
  <2>1. received[c] \in Seq(S) /\ copies \in Seq(S) /\ Len(copies) = m.frames
    BY <1>4, <1>5
  <2> HIDE DEF S
  <2>2. Contains(received[c] \o copies, k) <=>
          Contains(received[c], k) \/ (k = n /\ Len(copies) > 0)
    BY <1>7, <2>1, AppendCopies
  <2> QED
    BY <2>1, <2>2
<1>9. ASSUME NEW q \in Requests
      PROVE  Answered(q)' <=> Answered(q) \/ (q = m.request /\ m.frames > 0)
  <2>1. CASE q[1] = c
    <3>1. received'[q[1]] = received[c] \o copies
      BY <1>4, <2>1
    <3>2. q = m.request <=> q[2] = n
      BY <1>6, <2>1, NoRequestIsNone DEF n
    <3> QED
      BY <1>8, <2>1, <3>1, <3>2 DEF Answered
  <2>2. CASE q[1] # c
    <3>1. received'[q[1]] = received[q[1]] /\ q # m.request
      BY <1>4, <1>6, <2>2, NoRequestIsNone
    <3> QED
      BY <3>1 DEF Answered
  <2> QED
    BY <2>1, <2>2
<1> QED
  BY <1>9 DEF m

(***************************************************************************)
(* The invariant                                                           *)
(***************************************************************************)

\* A packet has one place even within its worker.
LEMMA OnePlace ==
    ASSUME SInv, NEW w \in Workers, NEW r \in Requests
    PROVE  /\ ~ (Waits(w, r) /\ job[w] = r)
           /\ ~ (Waits(w, r) /\ Replied(w, r))
           /\ ~ (Replied(w, r) /\ job[w] = r)
<1>1. ~ Before(r, r)
  BY NoRequestIsNone DEF Before
<1> QED
  BY <1>1 DEF SInv, InOrder

\* With one worker, two workers are the same.
LEMMA SingleWorker ==
    ASSUME WorkersCount = 1, NEW v \in Workers, NEW w \in Workers
    PROVE  v = w
  BY DEF Workers

LEMMA SignalReadyKeeps ==
    ASSUME IInv, SInv, NEW w \in Workers, SignalReady(w)
    PROVE  SInv'
<1>1. /\ \A v \in Workers : \A q \in Requests : Replied(v, q)' <=> Replied(v, q)
      /\ \A v \in Workers : SortedReplies(backend[v])'
      /\ ReadyAsksNothing'
      /\ phase' = [phase EXCEPT ![w] = "waiting"]
      /\ job[w] = NoRequest
      /\ UNCHANGED <<inbox, job, sent, received>>
  BY SignalReadyPlaces
<1>2. \A v \in Workers : \A q \in Requests :
        /\ Waits(v, q)' <=> Waits(v, q)
        /\ Travels(v, q)' <=> Travels(v, q)
        /\ Answered(q)' <=> Answered(q)
  BY <1>1 DEF Waits, Contains, Answered, Travels
<1>3. \A v \in Workers : InOrder(v)'
  BY <1>1, <1>2 DEF SInv, InOrder, Sorted
<1>4. Alone' /\ Taken' /\ AnswersOver' /\ AnswersInOrder'
  BY <1>1, <1>2 DEF SInv, Alone, Taken, AnswersOver, AnswersInOrder
<1>5. IdleHasNoJob'
  BY <1>1 DEF SInv, IdleHasNoJob
<1> QED
  BY <1>1, <1>3, <1>4, <1>5 DEF SInv

LEMMA ReceiveKeeps ==
    ASSUME IInv, SInv, NEW w \in Workers, Receive(w)
    PROVE  SInv'
<1>1. PICK r \in Requests :
        /\ Waits(w, r)
        /\ job[w] = NoRequest
        /\ job' = [job EXCEPT ![w] = r]
        /\ phase' = [phase EXCEPT ![w] = "busy"]
        /\ \A v \in Workers : \A q \in Requests :
             Waits(v, q)' <=> Waits(v, q) /\ q # r
        /\ \A q \in Requests : Waits(w, q)' => Before(r, q)
        /\ \A v \in Workers : Sorted(inbox[v])'
        /\ UNCHANGED <<backend, sent, received>>
  BY ReceiveEffect
<1>2. job \in [Workers -> Requests \cup {NoRequest}]
  BY DEF IInv, TypeOK
<1>3. \A v \in Workers : \A q \in Requests :
        /\ Replied(v, q)' <=> Replied(v, q)
        /\ Answered(q)' <=> Answered(q)
        /\ job'[v] = IF v = w THEN r ELSE job[v]
  BY <1>1, <1>2 DEF Replied, Asks, Answered, Contains
<1>4. \A v \in Workers : \A q \in Requests : Travels(v, q)' <=> Travels(v, q)
  BY <1>1, <1>3, NoRequestIsNone DEF Travels, SInv, Alone
<1>5. ASSUME NEW v \in Workers
      PROVE  InOrder(v)'
  <2>1. InOrder(v)
    BY DEF SInv
  <2>2. SortedReplies(backend[v])'
    BY <1>1, <2>1 DEF InOrder, SortedReplies
  <2>3. ASSUME NEW x \in Requests, NEW y \in Requests
        PROVE  /\ Replied(v, x)' /\ (job'[v] = y \/ Waits(v, y)') => Before(x, y)
               /\ job'[v] = x /\ Waits(v, y)' => Before(x, y)
    BY <1>1, <1>3, <2>1 DEF InOrder
  <2> QED
    BY <1>1, <2>2, <2>3 DEF InOrder
<1>6. Alone' /\ Taken' /\ AnswersOver' /\ AnswersInOrder'
  BY <1>1, <1>3, <1>4 DEF SInv, Alone, Taken, AnswersOver, AnswersInOrder
<1>7. IdleHasNoJob' /\ ReadyAsksNothing'
  BY <1>1, <1>3 DEF SInv, IdleHasNoJob, ReadyAsksNothing, IInv, TypeOK
<1> QED
  BY <1>5, <1>6, <1>7 DEF SInv

LEMMA ReplyKeeps ==
    ASSUME IInv, SInv, NEW w \in Workers, Reply(w)
    PROVE  SInv'
<1>1. PICK r \in Requests, eaten \in SUBSET {q \in Requests : Waits(w, q)} :
        /\ job[w] = r
        /\ job' = [job EXCEPT ![w] = NoRequest]
        /\ phase' = [phase EXCEPT ![w] = "waiting"]
        /\ \A v \in Workers : \A q \in Requests :
             /\ Waits(v, q)' <=> Waits(v, q) /\ q \notin eaten
             /\ Replied(v, q)' <=> Replied(v, q) \/ (v = w /\ q = r)
        /\ \A v \in Workers : Sorted(inbox[v])' /\ SortedReplies(backend[v])'
        /\ ReadyAsksNothing'
        /\ UNCHANGED <<sent, received>>
  BY ReplyEffect
<1>2. job \in [Workers -> Requests \cup {NoRequest}]
  BY DEF IInv, TypeOK
<1>3. \A v \in Workers : \A q \in Requests :
        /\ Answered(q)' <=> Answered(q)
        /\ job'[v] = IF v = w THEN NoRequest ELSE job[v]
  BY <1>1, <1>2 DEF Answered, Contains
<1>4. \A v \in Workers : \A q \in Requests : Travels(v, q)' => Travels(v, q)
  BY <1>1, <1>3, NoRequestIsNone DEF Travels
<1>5. ASSUME NEW v \in Workers
      PROVE  InOrder(v)'
  <2>1. InOrder(v)
    BY DEF SInv
  <2>2. ASSUME NEW x \in Requests, NEW y \in Requests
        PROVE  /\ Replied(v, x)' /\ (job'[v] = y \/ Waits(v, y)') => Before(x, y)
               /\ job'[v] = x /\ Waits(v, y)' => Before(x, y)
    BY <1>1, <1>3, <2>1, NoRequestIsNone DEF InOrder
  <2> QED
    BY <1>1, <2>2 DEF InOrder
<1>6. Alone' /\ Taken' /\ AnswersOver' /\ AnswersInOrder'
  BY <1>1, <1>3, <1>4 DEF SInv, Alone, Taken, AnswersOver, AnswersInOrder
<1>7. IdleHasNoJob'
  BY <1>1, <1>3 DEF SInv, IdleHasNoJob, IInv, TypeOK
<1> QED
  BY <1>1, <1>5, <1>6, <1>7 DEF SInv

\* A message that tells the client nothing
LEMMA ReadKeepsPlaces ==
    ASSUME IInv, SInv, NEW w \in Workers, NEW h \in Headers, Read(w, h),
           UNCHANGED <<inbox, phase, job, sent, received>>
    PROVE  SInv'
<1> DEFINE r == Head(backend[w]).request
<1>1. /\ \A v \in Workers : \A q \in Requests :
           Replied(v, q)' <=> Replied(v, q) /\ q # r
      /\ \A v \in Workers : SortedReplies(backend[v])'
      /\ ReadyAsksNothing'
  BY ReadPlaces
<1> HIDE DEF r
<1>2. \A v \in Workers : \A q \in Requests :
        /\ Waits(v, q)' <=> Waits(v, q)
        /\ Travels(v, q)' => Travels(v, q)
        /\ Answered(q)' <=> Answered(q)
  BY <1>1 DEF Waits, Contains, Answered, Travels
<1>3. \A v \in Workers : InOrder(v)'
  BY <1>1, <1>2 DEF SInv, InOrder, Sorted
<1>4. Alone' /\ Taken' /\ AnswersOver' /\ AnswersInOrder'
  BY <1>1, <1>2 DEF SInv, Alone, Taken, AnswersOver, AnswersInOrder
<1>5. IdleHasNoJob'
  BY DEF SInv, IdleHasNoJob
<1> QED
  BY <1>1, <1>3, <1>4, <1>5 DEF SInv

LEMMA BackendNormalKeeps ==
    ASSUME IInv, SInv, NEW w \in Workers, BackendNormal(w)
    PROVE  SInv'
<1> DEFINE m == Head(backend[w])
           r == m.request
<1>1. Read(w, "NORMAL") /\ "NORMAL" \in Headers /\ UNCHANGED <<inbox, phase, job, sent>>
  BY DEF BackendNormal, Headers, workerVars
<1>2. /\ r \in Requests /\ Replied(w, r)
      /\ \A v \in Workers : \A q \in Requests :
           Replied(v, q)' <=> Replied(v, q) /\ q # r
      /\ \A q \in Requests : Replied(w, q)' => Before(r, q)
      /\ \A v \in Workers : SortedReplies(backend[v])'
      /\ ReadyAsksNothing'
  BY <1>1, ReadPlaces
<1>3. \A q \in Requests : Answered(q)' => Answered(q) \/ q = r
  BY AnswerEffect
<1> HIDE DEF m, r
<1>4. \A v \in Workers : \A q \in Requests :
        /\ Waits(v, q)' <=> Waits(v, q)
        /\ Travels(v, q)' => Travels(v, q) /\ q # r
  <2>1. \A v \in Workers : \A q \in Requests : Waits(v, q)' <=> Waits(v, q)
    BY <1>1 DEF Waits, Contains
  <2>2. \A v \in Workers : ~ Waits(v, r) /\ job[v] # r
    BY <1>2, OnePlace DEF SInv, Alone, Travels
  <2> QED
    BY <1>1, <1>2, <2>1, <2>2 DEF Travels
<1>5. \A v \in Workers : InOrder(v)'
  BY <1>1, <1>2, <1>4 DEF SInv, InOrder, Sorted
<1>6. Alone' /\ Taken'
  BY <1>1, <1>4 DEF SInv, Alone, Taken
<1>7. AnswersOver'
  <2>1. r[2] <= sent[r[1]]
    BY <1>2 DEF SInv, Taken, Travels
  <2> QED
    BY <1>1, <1>2, <1>3, <1>4, <2>1 DEF SInv, AnswersOver
<1>8. AnswersInOrder'
  <2> SUFFICES ASSUME WorkersCount = 1, NEW v \in Workers, NEW q \in Requests,
                      NEW x \in Requests, Answered(q)', Travels(v, x)'
               PROVE  Before(q, x)
    BY DEF AnswersInOrder
  <2>1. CASE Answered(q)
    BY <1>4, <2>1 DEF SInv, AnswersInOrder
  <2>2. CASE q = r
    <3>1. v = w
      BY SingleWorker
    <3>2. Replied(w, x)' \/ job[w] = x \/ Waits(w, x)
      BY <1>1, <1>4, <3>1 DEF Travels
    <3> QED
      BY <1>2, <2>2, <3>2 DEF SInv, InOrder
  <2> QED
    BY <1>3, <2>1, <2>2
<1>9. IdleHasNoJob'
  BY <1>1 DEF SInv, IdleHasNoJob
<1> QED
  BY <1>2, <1>5, <1>6, <1>7, <1>8, <1>9 DEF SInv

LEMMA BackendKeeps ==
    ASSUME IInv, SInv, NEW w \in Workers, Router_backend(w)
    PROVE  SInv'
<1>1. CASE BackendReady(w)
  BY <1>1, ReadKeepsPlaces DEF BackendReady, Headers, workerVars, clientVars
<1>2. CASE BackendError(w)
  BY <1>2, ReadKeepsPlaces DEF BackendError, Headers, workerVars, clientVars
<1>3. CASE BackendUnknown(w)
  BY <1>3, ReadKeepsPlaces DEF BackendUnknown, Headers, workerVars, clientVars
<1> QED
  BY <1>1, <1>2, <1>3, BackendNormalKeeps DEF Router_backend

LEMMA DiscardKeeps ==
    ASSUME IInv, SInv, NEW c \in Clients, Accept(c),
           UNCHANGED <<inbox, backend, phase, job, received>>
    PROVE  SInv'
<1>1. \A v \in Workers : \A q \in Requests :
        /\ Waits(v, q)' <=> Waits(v, q)
        /\ Replied(v, q)' <=> Replied(v, q)
        /\ Travels(v, q)' <=> Travels(v, q)
  BY DEF Waits, Contains, Replied, Asks, Travels
<1>2. \A q \in Requests :
        /\ q[2] <= sent[q[1]] => q[2] <= sent'[q[1]]
        /\ Answered(q)' <=> Answered(q)
  BY AcceptPlaces, NoRequestIsNone DEF Answered
<1>3. \A v \in Workers : InOrder(v)'
  BY <1>1 DEF SInv, InOrder, Sorted, SortedReplies
<1>4. Alone' /\ Taken' /\ AnswersOver' /\ AnswersInOrder'
  BY <1>1, <1>2 DEF SInv, Alone, Taken, AnswersOver, AnswersInOrder
<1>5. IdleHasNoJob' /\ ReadyAsksNothing'
  BY DEF SInv, IdleHasNoJob, ReadyAsksNothing
<1> QED
  BY <1>3, <1>4, <1>5 DEF SInv

LEMMA ForwardKeeps ==
    ASSUME IInv, SInv, NEW c \in Clients, Accept(c), NEW w \in Workers, Forward(c, w),
           UNCHANGED <<backend, phase, job, received>>
    PROVE  SInv'
<1> DEFINE r == Newest(c)
<1>1. /\ \A v \in Workers : \A q \in Requests :
           Waits(v, q)' <=> Waits(v, q) \/ (v = w /\ q = r)
      /\ \A v \in Workers : Sorted(inbox[v])'
  BY ForwardPlaces
<1>2. /\ r \in Requests
      /\ r[2] <= sent'[r[1]]
      /\ ~ Answered(r)
      /\ \A v \in Workers : ~ Travels(v, r)
      /\ \A v \in Workers : \A q \in Requests : Travels(v, q) => Before(q, r)
      /\ \A q \in Requests : Answered(q) => Before(q, r)
  BY AcceptPlaces
<1>3. \A q \in Requests : q[2] <= sent[q[1]] => q[2] <= sent'[q[1]]
  BY AcceptPlaces, NoRequestIsNone
<1> HIDE DEF r
<1>4. \A v \in Workers : \A q \in Requests :
        /\ Replied(v, q)' <=> Replied(v, q)
        /\ Travels(v, q)' <=> Travels(v, q) \/ (v = w /\ q = r)
        /\ Answered(q)' <=> Answered(q)
  BY <1>1 DEF Contains, Replied, Asks, Answered, Travels
<1>5. ASSUME NEW v \in Workers
      PROVE  InOrder(v)'
  <2>1. InOrder(v)
    BY DEF SInv
  <2>2. SortedReplies(backend[v])'
    BY <2>1 DEF InOrder, SortedReplies
  <2>3. ASSUME NEW x \in Requests, NEW y \in Requests
        PROVE  /\ Replied(v, x)' /\ (job'[v] = y \/ Waits(v, y)') => Before(x, y)
               /\ job'[v] = x /\ Waits(v, y)' => Before(x, y)
    BY <1>1, <1>2, <1>4, <2>1 DEF InOrder, Travels
  <2> QED
    BY <1>1, <2>2, <2>3 DEF InOrder
<1>6. Alone'
  BY <1>2, <1>4 DEF SInv, Alone
<1>7. Taken' /\ AnswersOver' /\ AnswersInOrder'
  BY <1>2, <1>3, <1>4 DEF SInv, Taken, AnswersOver, AnswersInOrder
<1>8. IdleHasNoJob' /\ ReadyAsksNothing'
  BY DEF SInv, IdleHasNoJob, ReadyAsksNothing
<1> QED
  BY <1>5, <1>6, <1>7, <1>8 DEF SInv

\* What a packet read by the frontend may become
LEMMA FrontendCases ==
    ASSUME IInv, NEW c \in Clients, Router_frontend(c)
    PROVE  /\ Accept(c)
           /\ UNCHANGED <<backend, phase, job, received>>
           /\ UNCHANGED inbox \/ \E w \in Workers : Forward(c, w)
<1>1. CASE FrontendDiscard(c)
  BY <1>1 DEF FrontendDiscard, socketVars, workerVars
<1>2. CASE FrontendSticky(c)
  BY <1>2 DEF FrontendSticky, Owners, workerVars
<1>3. CASE FrontendReady(c)
  <2>1. readyWorkers \in Seq(Workers) /\ readyWorkers # <<>>
    BY <1>3 DEF IInv, TypeOK, FrontendReady
  <2>2. Head(readyWorkers) \in Workers
    BY <2>1, HeadTailProperties
  <2> QED
    BY <1>3, <2>2 DEF FrontendReady, workerVars
<1>4. CASE FrontendOverload(c)
  BY <1>4 DEF FrontendOverload, workerVars, IInv, TypeOK
<1> QED
  BY <1>1, <1>2, <1>3, <1>4 DEF Router_frontend

LEMMA FrontendKeeps ==
    ASSUME IInv, SInv, NEW c \in Clients, Router_frontend(c)
    PROVE  SInv'
  BY FrontendCases, DiscardKeeps, ForwardKeeps

LEMMA UnchangedKeeps ==
    ASSUME SInv, UNCHANGED vars
    PROVE  SInv'
<1>1. UNCHANGED <<inbox, backend, phase, job, sent, received>>
  BY DEF vars, socketVars, workerVars, clientVars
<1>2. \A v \in Workers : \A q \in Requests :
        /\ Waits(v, q)' <=> Waits(v, q)
        /\ Replied(v, q)' <=> Replied(v, q)
        /\ Travels(v, q)' <=> Travels(v, q)
  BY <1>1 DEF Waits, Contains, Replied, Asks, Travels
<1>3. \A v \in Workers : InOrder(v)'
  BY <1>1, <1>2 DEF SInv, InOrder, Sorted, SortedReplies
<1>4. Alone' /\ Taken' /\ AnswersOver' /\ AnswersInOrder'
  <2>1. \A q \in Requests : Answered(q)' <=> Answered(q)
    BY <1>1 DEF Answered, Contains
  <2> QED
    BY <1>1, <1>2, <2>1 DEF SInv, Alone, Taken, AnswersOver, AnswersInOrder
<1>5. IdleHasNoJob' /\ ReadyAsksNothing'
  BY <1>1 DEF SInv, IdleHasNoJob, ReadyAsksNothing
<1> QED
  BY <1>3, <1>4, <1>5 DEF SInv

LEMMA NextKeepsPlaces == IInv /\ SInv /\ [Next]_vars => SInv'
<1> SUFFICES ASSUME IInv, SInv, [Next]_vars PROVE SInv'
  OBVIOUS
<1>1. ASSUME NEW w \in Workers, SignalReady(w) \/ Receive(w) \/ Reply(w) \/ Router_backend(w)
      PROVE  SInv'
  BY <1>1, SignalReadyKeeps, ReceiveKeeps, ReplyKeeps, BackendKeeps
<1>2. ASSUME NEW c \in Clients, Router_frontend(c) PROVE SInv'
  BY <1>2, FrontendKeeps
<1>3. CASE Idle
  BY <1>3, UnchangedKeeps DEF Idle
<1>4. CASE UNCHANGED vars
  BY <1>4, UnchangedKeeps
<1> QED
  BY <1>1, <1>2, <1>3, <1>4 DEF Next

\* In every reachable state each packet has at most one place, and the places
\* of a worker hold its packets in the order in which they were sent.
THEOREM PlacesInvariance == Spec => []SInv
<1> QED
  BY Invariance, InitPlaces, NextKeepsPlaces, PTL DEF Spec

\* With one worker, no packet of a client is processed while an earlier one
\* waits or is being processed: what router_order shows to fail with two.
THEOREM OrderKept == ASSUME WorkersCount = 1 PROVE Spec => []PacketOrder
<1>1. SInv /\ IInv => PacketOrder
  <2> SUFFICES ASSUME SInv, IInv, NEW v \in Workers, NEW w \in Workers, phase[w] = "busy",
                      NEW n \in 1..(job[w][2] - 1), Holds(v, <<job[w][1], n>>)
               PROVE  FALSE
    BY DEF PacketOrder
  <2> DEFINE r == job[w]
             q == <<job[w][1], n>>
  <2>1. r \in Requests /\ v = w
    BY SingleWorker DEF IInv, Carried
  <2>2. r[1] \in Clients /\ r[2] \in 1..MaxRequests /\ MaxRequests \in Nat
    BY <2>1, NoRequestIsNone, BoundsAssumption
  <2>3. q[1] = r[1] /\ q[2] = n /\ n < r[2] /\ n \in 1..MaxRequests
    BY <2>2
  <2>4. q \in Requests /\ q # r
    BY <2>2, <2>3 DEF Requests
  <2>5. Waits(w, q)
    BY <2>1, <2>4 DEF Holds, Waits, Contains
  <2>6. Before(r, q)
    BY <2>1, <2>4, <2>5 DEF SInv, InOrder
  <2> QED
    BY <2>2, <2>3, <2>6 DEF Before
<1> QED
  BY <1>1, Invariance, PlacesInvariance, PTL

(***************************************************************************)
(* The refinement                                                          *)
(***************************************************************************)
AllStages == {"unsent", "queued", "serving", "replying", "gone"}

\* The stage of a packet is the kind of its place.
StageIsPlace ==
    \A r \in Requests :
        /\ Stage(r) \in AllStages
        /\ Stage(r) = "unsent" <=> r[2] > sent[r[1]]
        /\ Stage(r) = "queued" <=> \E w \in Workers : Waits(w, r)
        /\ Stage(r) = "serving" <=> \E w \in Workers : job[w] = r
        /\ Stage(r) = "replying" <=> \E w \in Workers : Replied(w, r)

LEMMA PlaceOfStage ==
    /\ IInv /\ SInv => StageIsPlace
    /\ IInv' /\ SInv' => StageIsPlace'
<1>1. ASSUME IInv, SInv, NEW r \in Requests
      PROVE  /\ Stage(r) \in AllStages
             /\ Stage(r) = "unsent" <=> r[2] > sent[r[1]]
             /\ Stage(r) = "queued" <=> \E w \in Workers : Waits(w, r)
             /\ Stage(r) = "serving" <=> \E w \in Workers : job[w] = r
             /\ Stage(r) = "replying" <=> \E w \in Workers : Replied(w, r)
  <2> DEFINE late == r[2] > sent[r[1]]
             queued == \E w \in Workers : Waits(w, r)
             served == \E w \in Workers : job[w] = r
             asked == \E w \in Workers : Replied(w, r)
  <2>1. Stage(r) = IF late THEN "unsent" ELSE IF queued THEN "queued"
                   ELSE IF served THEN "serving" ELSE IF asked THEN "replying" ELSE "gone"
    BY DEF Stage, Waits, Contains, Replied, Asks
  <2>2. late => ~ queued /\ ~ served /\ ~ asked
    <3>1. r[1] \in Clients /\ r[2] \in Int /\ sent[r[1]] \in Int
      BY <1>1, NoRequestIsNone, BoundsAssumption DEF IInv, TypeOK
    <3>2. \A w \in Workers : Travels(w, r) => ~ late
      BY <1>1, <3>1 DEF SInv, Taken
    <3> HIDE DEF late
    <3> QED
      BY <3>2 DEF Travels
  <2>3. ~ (queued /\ served) /\ ~ (queued /\ asked) /\ ~ (served /\ asked)
    BY <1>1, OnePlace DEF SInv, Alone, Travels
  <2> HIDE DEF late, queued, served, asked
  <2>4. /\ Stage(r) \in AllStages
        /\ Stage(r) = "unsent" <=> late
        /\ Stage(r) = "queued" <=> queued
        /\ Stage(r) = "serving" <=> served
        /\ Stage(r) = "replying" <=> asked
    BY <2>1, <2>2, <2>3 DEF AllStages
  <2> QED
    BY <2>4 DEF late, queued, served, asked
<1>2. ASSUME IInv', SInv', NEW r \in Requests
      PROVE  /\ Stage(r)' \in AllStages
             /\ Stage(r)' = "unsent" <=> r[2] > sent'[r[1]]
             /\ Stage(r)' = "queued" <=> \E w \in Workers : Waits(w, r)'
             /\ Stage(r)' = "serving" <=> \E w \in Workers : job'[w] = r
             /\ Stage(r)' = "replying" <=> \E w \in Workers : Replied(w, r)'
  <2> DEFINE late == r[2] > sent'[r[1]]
             queued == \E w \in Workers : Waits(w, r)'
             served == \E w \in Workers : job'[w] = r
             asked == \E w \in Workers : Replied(w, r)'
  <2>1. Stage(r)' = IF late THEN "unsent" ELSE IF queued THEN "queued"
                    ELSE IF served THEN "serving" ELSE IF asked THEN "replying" ELSE "gone"
    BY DEF Stage, Waits, Contains, Replied, Asks
  <2>2. late => ~ queued /\ ~ served /\ ~ asked
    <3>1. r[1] \in Clients /\ r[2] \in Int /\ sent'[r[1]] \in Int
      BY <1>2, NoRequestIsNone, BoundsAssumption DEF IInv, TypeOK
    <3>2. \A w \in Workers : Travels(w, r)' => ~ late
      BY <1>2, <3>1 DEF SInv, Taken
    <3> HIDE DEF late
    <3> QED
      BY <3>2 DEF Travels
  <2>3. ~ (queued /\ served) /\ ~ (queued /\ asked) /\ ~ (served /\ asked)
    <3>1. ASSUME NEW w \in Workers
          PROVE  /\ ~ (Waits(w, r)' /\ job'[w] = r)
                 /\ ~ (Waits(w, r)' /\ Replied(w, r)')
                 /\ ~ (Replied(w, r)' /\ job'[w] = r)
      <4>1. ~ Before(r, r)
        BY NoRequestIsNone DEF Before
      <4> QED
        BY <1>2, <4>1 DEF SInv, InOrder
    <3> QED
      BY <1>2, <3>1 DEF SInv, Alone, Travels
  <2> HIDE DEF late, queued, served, asked
  <2>4. /\ Stage(r)' \in AllStages
        /\ Stage(r)' = "unsent" <=> late
        /\ Stage(r)' = "queued" <=> queued
        /\ Stage(r)' = "serving" <=> served
        /\ Stage(r)' = "replying" <=> asked
    BY <2>1, <2>2, <2>3 DEF AllStages
  <2> QED
    BY <2>4 DEF late, queued, served, asked
<1> QED
  BY <1>1, <1>2 DEF StageIsPlace

\* A packet whose places stay as they are stays in its stage.
SamePlaces(q) ==
    /\ (q[2] > sent[q[1]])' <=> q[2] > sent[q[1]]
    /\ (\E w \in Workers : Waits(w, q))' <=> \E w \in Workers : Waits(w, q)
    /\ (\E w \in Workers : job[w] = q)' <=> \E w \in Workers : job[w] = q
    /\ (\E w \in Workers : Replied(w, q))' <=> \E w \in Workers : Replied(w, q)

LEMMA SameStage ==
    ASSUME StageIsPlace, StageIsPlace', NEW q \in Requests, SamePlaces(q)
    PROVE  Stage(q)' = Stage(q)
<1>1. /\ Stage(q)' \in AllStages
      /\ Stage(q)' = "unsent" <=> (q[2] > sent[q[1]])'
      /\ Stage(q)' = "queued" <=> (\E w \in Workers : Waits(w, q))'
      /\ Stage(q)' = "serving" <=> (\E w \in Workers : job[w] = q)'
      /\ Stage(q)' = "replying" <=> (\E w \in Workers : Replied(w, q))'
  BY DEF StageIsPlace
<1>2. /\ Stage(q) \in AllStages
      /\ Stage(q) = "unsent" <=> q[2] > sent[q[1]]
      /\ Stage(q) = "queued" <=> \E w \in Workers : Waits(w, q)
      /\ Stage(q) = "serving" <=> \E w \in Workers : job[w] = q
      /\ Stage(q) = "replying" <=> \E w \in Workers : Replied(w, q)
  BY DEF StageIsPlace
<1>3. SamePlaces(q)
  OBVIOUS
<1> QED
  BY <1>1, <1>2, <1>3 DEF SamePlaces, AllStages

\* The request service and the Router speak of the same packets.
LEMMA SameRequests ==
    /\ Service!Requests = Requests
    /\ \A r \in Requests : Service!Earlier(r) = {<<r[1], n>> : n \in 1..(r[2] - 1)}
    /\ \A r \in Requests : Service!Earlier(r) \subseteq Requests
<1>1. Service!Requests = Requests
  BY DEF Service!Requests, Requests
<1>2. \A r \in Requests : Service!Earlier(r) = {<<r[1], n>> : n \in 1..(r[2] - 1)}
  BY DEF Service!Earlier
<1>3. ASSUME NEW r \in Requests, NEW n \in 1..(r[2] - 1)
      PROVE  <<r[1], n>> \in Requests
  <2>1. r[1] \in Clients /\ r[2] \in 1..MaxRequests /\ MaxRequests \in Nat
    BY NoRequestIsNone, BoundsAssumption
  <2>2. n \in 1..MaxRequests
    BY <2>1
  <2> QED
    BY <2>1, <2>2 DEF Requests
<1> QED
  BY <1>1, <1>2, <1>3

AnsweredSet == {r \in Requests : Answered(r)}

\* Only packet r changes its stage.
Becomes(r, stage) ==
    \A q \in Requests : Stage(q)' = IF q = r THEN stage ELSE Stage(q)

LEMMA BecomesIsBecome ==
    ASSUME NEW r \in Requests, NEW stage, Becomes(r, stage)
    PROVE  Service!Become(r, stage)
<1> DEFINE L == [q \in Requests |-> Stage(q)]
<1>1. [q \in Requests |-> Stage(q)'] = [L EXCEPT ![r] = stage]
  BY DEF Becomes
<1> QED
  BY <1>1 DEF Service!Become

\* The answered packets, as RequestService names them
LEMMA AnsweredIsSet ==
    /\ {r \in Requests : \E i \in 1..Len(received[r[1]]) : received[r[1]][i] = r[2]}
         = AnsweredSet
    /\ {r \in Requests : \E i \in 1..Len(received'[r[1]]) : received'[r[1]][i] = r[2]}
         = AnsweredSet'
  BY DEF AnsweredSet, Answered, Contains

\* Counting is the same in both modules.
LEMMA SameCardinality == \A S : Service!Cardinality(S) = Cardinality(S)
  BY DEF Service!Cardinality, Cardinality

\* Fewer packets are being processed than there are workers, when one waits.
LEMMA RoomToServe ==
    ASSUME IInv, SInv, NEW w \in Workers, job[w] = NoRequest
    PROVE  Cardinality(Service!Serving) < WorkersCount
<1> DEFINE T == {r \in Requests : Stage(r) = "serving"}
           S == {v \in Workers : job[v] \in Requests}
           g == [v \in S |-> job[v]]
           R == Workers \ {w}
<1>1. T = Service!Serving
  BY SameRequests DEF Service!Serving
<1>2. \A r \in Requests : r \in T <=> \E v \in Workers : job[v] = r
  BY PlaceOfStage DEF StageIsPlace
<1>3. g \in Surjection(S, T)
  <2>1. g \in [S -> T]
    BY <1>2
  <2>2. \A r \in T : \E v \in S : g[v] = r
    BY <1>2
  <2> QED
    BY <2>1, <2>2 DEF Surjection
<1>4. /\ IsFiniteSet(R)
      /\ Cardinality(R) = WorkersCount - 1
  BY WorkersFinite, FS_RemoveElement
<1>5. S \subseteq R
  BY NoRequestIsNone
<1> HIDE DEF T, S, g, R
<1>6. /\ IsFiniteSet(S)
      /\ Cardinality(S) <= WorkersCount - 1
  BY <1>4, <1>5, FS_Subset
<1>7. IsFiniteSet(T) /\ Cardinality(T) <= Cardinality(S)
  BY <1>3, <1>6, FS_Surjection
<1>8. Cardinality(T) \in Nat /\ Cardinality(S) \in Nat /\ WorkersCount \in Nat
  BY <1>6, <1>7, FS_CardinalityType, WorkersCountAssumption
<1> QED
  BY <1>1, <1>6, <1>7, <1>8

LEMMA ReceiveServes ==
    ASSUME IInv, SInv, StageIsPlace, StageIsPlace', NEW w \in Workers, Receive(w)
    PROVE  \E r \in Requests : Service!Serve(r)
<1>1. PICK r \in Requests :
        /\ Waits(w, r)
        /\ job[w] = NoRequest
        /\ job' = [job EXCEPT ![w] = r]
        /\ phase' = [phase EXCEPT ![w] = "busy"]
        /\ \A v \in Workers : \A q \in Requests :
             Waits(v, q)' <=> Waits(v, q) /\ q # r
        /\ \A q \in Requests : Waits(w, q)' => Before(r, q)
        /\ \A v \in Workers : Sorted(inbox[v])'
        /\ UNCHANGED <<backend, sent, received>>
  BY ReceiveEffect
<1>2. /\ job \in [Workers -> Requests \cup {NoRequest}]
      /\ \A v \in Workers : job'[v] = IF v = w THEN r ELSE job[v]
  BY <1>1 DEF IInv, TypeOK
<1>3. Becomes(r, "serving")
  <2> SUFFICES ASSUME NEW q \in Requests
               PROVE  Stage(q)' = IF q = r THEN "serving" ELSE Stage(q)
    BY DEF Becomes
  <2>1. CASE q = r
    <3>1. job'[w] = q
      BY <1>2, <2>1
    <3> QED
      BY <2>1, <3>1 DEF StageIsPlace
  <2>2. CASE q # r
    <3>1. /\ (q[2] > sent[q[1]])' <=> q[2] > sent[q[1]]
          /\ (\E v \in Workers : Waits(v, q))' <=> \E v \in Workers : Waits(v, q)
      BY <1>1, <2>2
    <3>2. (\E v \in Workers : job[v] = q)' <=> \E v \in Workers : job[v] = q
      BY <1>1, <1>2, <2>2, NoRequestIsNone
    <3>3. (\E v \in Workers : Replied(v, q))' <=> \E v \in Workers : Replied(v, q)
      BY <1>1 DEF Replied, Asks
    <3>4. SamePlaces(q)
      BY <3>1, <3>2, <3>3 DEF SamePlaces
    <3> QED
      BY <2>2, <3>4, SameStage
  <2> QED
    BY <2>1, <2>2
<1>4. Stage(r) = "queued"
  BY <1>1 DEF StageIsPlace
<1>5. WorkersCount = 1 =>
        \A e \in Service!Earlier(r) : Stage(e) \notin {"queued", "serving"}
  <2> SUFFICES ASSUME WorkersCount = 1, NEW e \in Service!Earlier(r),
                      Stage(e) \in {"queued", "serving"}
               PROVE  FALSE
    OBVIOUS
  <2>1. e \in Requests /\ e[1] = r[1] /\ e[2] < r[2] /\ e # r
    BY SameRequests, NoRequestIsNone
  <2>2. PICK v \in Workers : Waits(v, e) \/ job[v] = e
    BY <2>1 DEF StageIsPlace
  <2>3. v = w /\ job[v] # e
    BY <1>1, <2>1, <2>2, SingleWorker, NoRequestIsNone
  <2>4. Waits(w, e)'
    BY <1>1, <2>1, <2>2, <2>3
  <2>5. Before(r, e) /\ e[2] \in Int /\ r[2] \in Int
    BY <1>1, <2>1, <2>4, NoRequestIsNone
  <2> QED
    BY <2>1, <2>5 DEF Before
<1>6. Cardinality(Service!Serving) < WorkersCount
  BY <1>1, RoomToServe
<1>7. Service!Become(r, "serving")
  BY <1>3, BecomesIsBecome
<1>8. AnsweredSet' = AnsweredSet
  BY <1>1 DEF AnsweredSet, Answered, Contains
<1>9. Service!Serve(r)
  <2> DEFINE L == [q \in Requests |-> Stage(q)]
  <2>1. L[r] = "queued"
    BY <1>4
  <2>2. \A e \in Requests : L[e] = Stage(e)
    OBVIOUS
  <2> HIDE DEF L
  <2>3. (WorkersCount = 1) => \A e \in Service!Earlier(r) : L[e] \notin {"queued", "serving"}
    BY <1>5, <2>2, SameRequests
  <2> USE DEF L
  <2> QED
    BY <1>6, <1>7, <1>8, <2>1, <2>3, AnsweredIsSet, SameCardinality DEF Service!Serve
<1> QED
  BY <1>9

LEMMA ReplyReplies ==
    ASSUME IInv, SInv, StageIsPlace, StageIsPlace', NEW w \in Workers, Reply(w)
    PROVE  \E r \in Requests : \E eaten \in SUBSET Service!Queued : Service!Reply(r, eaten)
<1>1. PICK r \in Requests, eaten \in SUBSET {q \in Requests : Waits(w, q)} :
        /\ job[w] = r
        /\ job' = [job EXCEPT ![w] = NoRequest]
        /\ phase' = [phase EXCEPT ![w] = "waiting"]
        /\ \A v \in Workers : \A q \in Requests :
             /\ Waits(v, q)' <=> Waits(v, q) /\ q \notin eaten
             /\ Replied(v, q)' <=> Replied(v, q) \/ (v = w /\ q = r)
        /\ \A v \in Workers : Sorted(inbox[v])' /\ SortedReplies(backend[v])'
        /\ ReadyAsksNothing'
        /\ UNCHANGED <<sent, received>>
  BY ReplyEffect
<1>2. /\ job \in [Workers -> Requests \cup {NoRequest}]
      /\ \A v \in Workers : job'[v] = IF v = w THEN NoRequest ELSE job[v]
  BY <1>1 DEF IInv, TypeOK
<1>3. ASSUME NEW q \in Requests
      PROVE  Stage(q)' = IF q = r THEN "replying" ELSE IF q \in eaten THEN "gone" ELSE Stage(q)
  <2>1. CASE q = r
    <3>1. Replied(w, q)'
      BY <1>1, <2>1
    <3> QED
      BY <2>1, <3>1 DEF StageIsPlace
  <2>2. CASE q # r /\ q \in eaten
    <3>1. Waits(w, q)
      BY <2>2
    <3>2. ~ (q[2] > sent'[q[1]])
      <4>1. q[2] <= sent[q[1]] /\ q[2] \in Int /\ sent[q[1]] \in Int
        BY <3>1, NoRequestIsNone, BoundsAssumption DEF SInv, Taken, Travels, IInv, TypeOK
      <4> QED
        BY <1>1, <4>1
    <3>3. \A v \in Workers : ~ Waits(v, q)' /\ job'[v] # q /\ ~ Replied(v, q)'
      <4> SUFFICES ASSUME NEW v \in Workers
                   PROVE  ~ Waits(v, q)' /\ job'[v] # q /\ ~ Replied(v, q)'
        OBVIOUS
      <4>1. job[v] # q /\ ~ Replied(v, q)
        BY <3>1, OnePlace DEF SInv, Alone, Travels
      <4> QED
        BY <1>1, <1>2, <2>2, <4>1, NoRequestIsNone
    <3> QED
      BY <2>2, <3>2, <3>3 DEF StageIsPlace, AllStages
  <2>3. CASE q # r /\ q \notin eaten
    <3>1. /\ (q[2] > sent[q[1]])' <=> q[2] > sent[q[1]]
          /\ (\E v \in Workers : Waits(v, q))' <=> \E v \in Workers : Waits(v, q)
          /\ (\E v \in Workers : Replied(v, q))' <=> \E v \in Workers : Replied(v, q)
      BY <1>1, <2>3
    <3>2. (\E v \in Workers : job[v] = q)' <=> \E v \in Workers : job[v] = q
      BY <1>1, <1>2, <2>3, NoRequestIsNone
    <3>3. SamePlaces(q)
      BY <3>1, <3>2 DEF SamePlaces
    <3> QED
      BY <2>3, <3>3, SameStage
  <2> QED
    BY <2>1, <2>2, <2>3
<1>4. Stage(r) = "serving"
  BY <1>1 DEF StageIsPlace
<1>5. eaten \in SUBSET Service!Queued
  <2>1. \A q \in eaten : q \in Requests /\ Stage(q) = "queued"
    BY DEF StageIsPlace
  <2> QED
    BY <2>1, SameRequests DEF Service!Queued
<1>6. AnsweredSet' = AnsweredSet
  BY <1>1 DEF AnsweredSet, Answered, Contains
<1>7. Service!Reply(r, eaten)
  <2> DEFINE L == [q \in Requests |-> Stage(q)]
  <2>1. L[r] = "serving"
    BY <1>4
  <2>2. [q \in Requests |-> Stage(q)'] =
          [q \in Requests |-> IF q = r THEN "replying" ELSE IF q \in eaten THEN "gone" ELSE L[q]]
    BY <1>3
  <2> QED
    BY <1>6, <2>1, <2>2, AnsweredIsSet, SameRequests DEF Service!Reply
<1> QED
  BY <1>5, <1>7

\* The Router takes a reply: its packet is over, and answered if a data frame
\* was sent.
LEMMA TakenReplyAnswers ==
    ASSUME IInv, SInv, StageIsPlace, StageIsPlace', NEW w \in Workers,
           NEW h \in Headers, h # "READY", Read(w, h),
           UNCHANGED <<inbox, job, sent>>, NEW visible \in BOOLEAN,
           \A q \in Requests :
             Answered(q)' <=> Answered(q) \/ (q = Head(backend[w]).request /\ visible)
    PROVE  \E r \in Requests : \E seen \in BOOLEAN : Service!Answer(r, seen)
<1>1. PICK r \in Requests :
        /\ r = Head(backend[w]).request
        /\ Replied(w, r)
        /\ \A v \in Workers : \A q \in Requests :
             Replied(v, q)' <=> Replied(v, q) /\ q # r
  BY ReadPlaces
<1>2. \A q \in Requests : Answered(q)' <=> Answered(q) \/ (q = r /\ visible)
  BY <1>1
<1>3. \A v \in Workers : \A q \in Requests : Waits(v, q)' <=> Waits(v, q)
  BY DEF Waits, Contains
<1>4. Becomes(r, "gone")
  <2> SUFFICES ASSUME NEW q \in Requests
               PROVE  Stage(q)' = IF q = r THEN "gone" ELSE Stage(q)
    BY DEF Becomes
  <2>1. CASE q = r
    <3>1. ~ (q[2] > sent'[q[1]])
      <4>1. q[2] <= sent[q[1]] /\ q[2] \in Int /\ sent[q[1]] \in Int
        BY <1>1, <2>1, NoRequestIsNone, BoundsAssumption
           DEF SInv, Taken, Travels, IInv, TypeOK
      <4> QED
        BY <4>1
    <3>2. \A v \in Workers : ~ Waits(v, q)' /\ job'[v] # q /\ ~ Replied(v, q)'
      <4> SUFFICES ASSUME NEW v \in Workers
                   PROVE  ~ Waits(v, q)' /\ job'[v] # q /\ ~ Replied(v, q)'
        OBVIOUS
      <4>1. job[v] # q /\ ~ Waits(v, q)
        BY <1>1, <2>1, OnePlace DEF SInv, Alone, Travels
      <4> QED
        BY <1>1, <1>3, <2>1, <4>1
    <3> QED
      BY <2>1, <3>1, <3>2 DEF StageIsPlace, AllStages
  <2>2. CASE q # r
    <3>1. /\ (q[2] > sent[q[1]])' <=> q[2] > sent[q[1]]
          /\ (\E v \in Workers : Waits(v, q))' <=> \E v \in Workers : Waits(v, q)
          /\ (\E v \in Workers : job[v] = q)' <=> \E v \in Workers : job[v] = q
          /\ (\E v \in Workers : Replied(v, q))' <=> \E v \in Workers : Replied(v, q)
      BY <1>1, <1>3, <2>2
    <3>2. SamePlaces(q)
      BY <3>1 DEF SamePlaces
    <3> QED
      BY <2>2, <3>2, SameStage
  <2> QED
    BY <2>1, <2>2
<1>5. Stage(r) = "replying"
  BY <1>1 DEF StageIsPlace
<1>6. r \notin AnsweredSet
  BY <1>1 DEF AnsweredSet, SInv, AnswersOver, Travels
<1>7. (WorkersCount = 1) => \A q \in AnsweredSet : q[1] = r[1] => q[2] < r[2]
  BY <1>1 DEF AnsweredSet, SInv, AnswersInOrder, Travels, Before
<1>8. AnsweredSet' = AnsweredSet \cup (IF visible THEN {r} ELSE {})
  BY <1>1, <1>2 DEF AnsweredSet
<1>9. Service!Become(r, "gone")
  BY <1>1, <1>4, BecomesIsBecome
<1>10. Service!Answer(r, visible)
  <2> DEFINE L == [q \in Requests |-> Stage(q)]
  <2>1. L[r] = "replying"
    BY <1>1, <1>5
  <2> QED
    BY <1>6, <1>7, <1>8, <1>9, <2>1, AnsweredIsSet DEF Service!Answer
<1> QED
  BY <1>1, <1>10

LEMMA BackendAnswers ==
    ASSUME IInv, SInv, StageIsPlace, StageIsPlace', NEW w \in Workers,
           BackendNormal(w) \/ BackendError(w) \/ BackendUnknown(w)
    PROVE  \E r \in Requests : \E seen \in BOOLEAN : Service!Answer(r, seen)
<1>1. CASE BackendNormal(w)
  <2> DEFINE visible == Head(backend[w]).frames > 0
  <2>1. Read(w, "NORMAL") /\ "NORMAL" \in Headers /\ UNCHANGED <<inbox, job, sent>>
    BY <1>1 DEF BackendNormal, Headers, workerVars
  <2>2. \A q \in Requests :
          Answered(q)' <=> Answered(q) \/ (q = Head(backend[w]).request /\ visible)
    BY <1>1, AnswerEffect
  <2>3. visible \in BOOLEAN
    OBVIOUS
  <2> HIDE DEF visible
  <2> QED
    BY <2>1, <2>2, <2>3, TakenReplyAnswers
<1>2. ASSUME NEW h \in {"ERROR", "unknown"}, Read(w, h),
             UNCHANGED <<inbox, job, sent, received>>
      PROVE  \E r \in Requests : \E seen \in BOOLEAN : Service!Answer(r, seen)
  <2>1. h \in Headers /\ h # "READY"
    BY DEF Headers
  <2>2. \A q \in Requests : Answered(q)' <=> Answered(q)
    BY <1>2 DEF Answered, Contains
  <2> QED
    BY <1>2, <2>1, <2>2, TakenReplyAnswers
<1> QED
  BY <1>1, <1>2 DEF BackendError, BackendUnknown, workerVars, clientVars

\* A packet the frontend reads is queued or dropped.
LEMMA FrontendSends ==
    ASSUME IInv, SInv, StageIsPlace, StageIsPlace', NEW c \in Clients, Router_frontend(c)
    PROVE  \E r \in Requests : \E stage \in {"queued", "gone"} : Service!Send(r, stage)
<1>1. /\ Accept(c)
      /\ UNCHANGED <<backend, phase, job, received>>
      /\ UNCHANGED inbox \/ \E w \in Workers : Forward(c, w)
  BY FrontendCases
<1>2. PICK r \in Requests :
        /\ r = Newest(c) /\ r[1] = c /\ r[2] = sent[c] + 1
        /\ \A d \in Clients : sent'[d] = IF d = c THEN sent[c] + 1 ELSE sent[d]
        /\ \A d \in Clients : sent[d] \in Nat
        /\ \A v \in Workers : ~ Travels(v, r)
  BY <1>1, AcceptPlaces
<1>3. \A v \in Workers : \A q \in Requests : Replied(v, q)' <=> Replied(v, q)
  BY <1>1 DEF Replied, Asks
<1>4. \A v \in Workers : \A q \in Requests : q # r => (Waits(v, q)' <=> Waits(v, q))
  <2>1. CASE UNCHANGED inbox
    BY <2>1 DEF Waits, Contains
  <2>2. CASE \E w \in Workers : Forward(c, w)
    BY <1>1, <1>2, <2>2, ForwardPlaces
  <2> QED
    BY <1>1, <2>1, <2>2
<1>5. ASSUME NEW q \in Requests, q # r
      PROVE  Stage(q)' = Stage(q)
  <2>1. (q[2] > sent[q[1]])' <=> q[2] > sent[q[1]]
    <3>1. q[1] \in Clients /\ q[2] \in Int /\ q = <<q[1], q[2]>> /\ r = <<r[1], r[2]>>
      BY <1>2, NoRequestIsNone
    <3> QED
      BY <1>2, <1>5, <3>1
  <2>2. /\ (\E v \in Workers : Waits(v, q))' <=> \E v \in Workers : Waits(v, q)
        /\ (\E v \in Workers : job[v] = q)' <=> \E v \in Workers : job[v] = q
        /\ (\E v \in Workers : Replied(v, q))' <=> \E v \in Workers : Replied(v, q)
    BY <1>1, <1>3, <1>4, <1>5
  <2>3. SamePlaces(q)
    BY <2>1, <2>2 DEF SamePlaces
  <2> QED
    BY <2>3, SameStage
<1>6. Stage(r) = "unsent"
  BY <1>2 DEF StageIsPlace
<1>7. PICK stage \in {"queued", "gone"} : Stage(r)' = stage
  <2>1. ~ (r[2] > sent'[r[1]])
    BY <1>2
  <2>2. \A v \in Workers : job'[v] # r
    BY <1>1, <1>2 DEF Travels
  <2>3. \A v \in Workers : ~ Replied(v, r)'
    BY <1>2, <1>3 DEF Travels
  <2>4. /\ Stage(r)' \in AllStages
        /\ Stage(r)' = "unsent" <=> r[2] > sent'[r[1]]
        /\ Stage(r)' = "serving" <=> \E v \in Workers : job'[v] = r
        /\ Stage(r)' = "replying" <=> \E v \in Workers : Replied(v, r)'
    BY <1>2 DEF StageIsPlace
  <2> QED
    BY <2>1, <2>2, <2>3, <2>4 DEF AllStages
<1>8. Becomes(r, stage)
  BY <1>2, <1>5, <1>7 DEF Becomes
<1>9. Service!Become(r, stage)
  BY <1>2, <1>8, BecomesIsBecome
<1>10. \A e \in Service!Earlier(r) : e \in Requests /\ Stage(e) # "unsent"
  <2> SUFFICES ASSUME NEW e \in Service!Earlier(r)
               PROVE  e \in Requests /\ Stage(e) # "unsent"
    OBVIOUS
  <2>1. e \in Requests /\ e[1] = r[1] /\ e[2] < r[2] /\ e[2] \in Int
    BY <1>2, SameRequests, NoRequestIsNone
  <2>2. ~ (e[2] > sent[e[1]])
    BY <1>2, <2>1
  <2> QED
    BY <2>1, <2>2 DEF StageIsPlace
<1>11. AnsweredSet' = AnsweredSet
  BY <1>1 DEF AnsweredSet, Answered, Contains
<1>12. Service!Send(r, stage)
  <2> DEFINE L == [q \in Requests |-> Stage(q)]
  <2>1. L[r] = "unsent" /\ \A e \in Service!Earlier(r) : L[e] # "unsent"
    BY <1>2, <1>6, <1>10
  <2> QED
    BY <1>7, <1>9, <1>11, <2>1, AnsweredIsSet DEF Service!Send
<1> QED
  BY <1>2, <1>7, <1>12

\* Signalling READY and reading it concern no packet.
LEMMA OthersStutter ==
    ASSUME IInv, SInv, StageIsPlace, StageIsPlace',
           \/ \E w \in Workers : SignalReady(w) \/ BackendReady(w)
           \/ UNCHANGED vars
    PROVE  \A r \in Requests : Stage(r)' = Stage(r) /\ (Answered(r)' <=> Answered(r))
<1>1. /\ \A v \in Workers : \A q \in Requests : Replied(v, q)' <=> Replied(v, q)
      /\ UNCHANGED <<inbox, job, sent, received>>
  <2>1. ASSUME NEW w \in Workers, SignalReady(w)
        PROVE  /\ \A v \in Workers : \A q \in Requests : Replied(v, q)' <=> Replied(v, q)
               /\ UNCHANGED <<inbox, job, sent, received>>
    BY <2>1, SignalReadyPlaces
  <2>2. ASSUME NEW w \in Workers, BackendReady(w)
        PROVE  /\ \A v \in Workers : \A q \in Requests : Replied(v, q)' <=> Replied(v, q)
               /\ UNCHANGED <<inbox, job, sent, received>>
    <3>1. /\ Read(w, "READY") /\ "READY" \in Headers
          /\ UNCHANGED <<inbox, job, sent, received>>
      BY <2>2 DEF BackendReady, Headers, workerVars, clientVars
    <3> DEFINE x == Head(backend[w]).request
    <3>2. x = NoRequest /\ \A v \in Workers : \A q \in Requests :
            Replied(v, q)' <=> Replied(v, q) /\ q # x
      BY <3>1, ReadPlaces
    <3> HIDE DEF x
    <3> QED
      BY <3>1, <3>2, NoRequestIsNone
  <2>3. ASSUME UNCHANGED vars
        PROVE  /\ \A v \in Workers : \A q \in Requests : Replied(v, q)' <=> Replied(v, q)
               /\ UNCHANGED <<inbox, job, sent, received>>
    BY <2>3 DEF vars, socketVars, workerVars, clientVars, Replied, Asks
  <2> QED
    BY <2>1, <2>2, <2>3
<1>2. ASSUME NEW r \in Requests
      PROVE  Stage(r)' = Stage(r) /\ (Answered(r)' <=> Answered(r))
  <2>1. \A v \in Workers : Waits(v, r)' <=> Waits(v, r)
    BY <1>1 DEF Waits, Contains
  <2>2. SamePlaces(r)
    BY <1>1, <2>1 DEF SamePlaces
  <2>3. Answered(r)' <=> Answered(r)
    BY <1>1 DEF Answered, Contains
  <2> QED
    BY <2>2, <2>3, SameStage
<1> QED
  BY <1>2

LEMMA NextServes ==
    ASSUME IInv, SInv, IInv', SInv', [Next]_vars
    PROVE  [Service!Next]_(Service!vars)
<1>1. StageIsPlace /\ StageIsPlace'
  BY PlaceOfStage
<1>2. ASSUME NEW w \in Workers, Receive(w) PROVE Service!Next
  BY <1>1, <1>2, ReceiveServes, SameRequests DEF Service!Next
<1>3. ASSUME NEW w \in Workers, Reply(w) PROVE Service!Next
  BY <1>1, <1>3, ReplyReplies, SameRequests DEF Service!Next
<1>4. ASSUME NEW w \in Workers, BackendNormal(w) \/ BackendError(w) \/ BackendUnknown(w)
      PROVE  Service!Next
  BY <1>1, <1>4, BackendAnswers, SameRequests DEF Service!Next
<1>5. ASSUME NEW c \in Clients, Router_frontend(c) PROVE Service!Next
  BY <1>1, <1>5, FrontendSends, SameRequests DEF Service!Next
<1>6. ASSUME \/ \E w \in Workers : SignalReady(w) \/ BackendReady(w)
             \/ UNCHANGED vars
      PROVE  UNCHANGED Service!vars
  <2>1. \A r \in Requests : Stage(r)' = Stage(r) /\ (Answered(r)' <=> Answered(r))
    BY <1>1, <1>6, OthersStutter
  <2>2. [r \in Requests |-> Stage(r)'] = [r \in Requests |-> Stage(r)]
    BY <2>1
  <2>3. AnsweredSet' = AnsweredSet
    BY <2>1 DEF AnsweredSet
  <2> QED
    BY <2>2, <2>3, AnsweredIsSet DEF Service!vars
<1> QED
  BY <1>2, <1>3, <1>4, <1>5, <1>6 DEF Next, Router_backend, Idle

LEMMA InitServes == Init => Service!Init
<1> SUFFICES ASSUME Init PROVE Service!Init
  OBVIOUS
<1>1. StageIsPlace
  BY InitInv, InitPlaces, PlaceOfStage
<1>2. ASSUME NEW r \in Requests PROVE Stage(r) = "unsent" /\ ~ Answered(r)
  <2>1. r[1] \in Clients /\ r[2] \in 1..MaxRequests
    BY NoRequestIsNone
  <2>2. sent[r[1]] = 0 /\ received[r[1]] = <<>>
    BY <2>1 DEF Init
  <2> QED
    BY <1>1, <2>1, <2>2 DEF StageIsPlace, Answered, Contains
<1>3. [r \in Requests |-> Stage(r)] = [r \in Requests |-> "unsent"]
  BY <1>2
<1>4. AnsweredSet = {}
  BY <1>2 DEF AnsweredSet
<1> QED
  BY <1>3, <1>4, AnsweredIsSet, SameRequests DEF Service!Init

\* The Router implements the request service for any number of workers and
\* clients: a packet is served by at most one worker, answered at most once and
\* only after it was served; with one worker, in the order of its client.
THEOREM RouterServes == Spec => ServiceSpec
<1>1. Init => Service!Init
  BY InitServes
<1>2. IInv /\ SInv /\ IInv' /\ SInv' /\ [Next]_vars => [Service!Next]_(Service!vars)
  BY NextServes
<1> QED
  BY <1>1, <1>2, Invariance, PlacesInvariance, PTL DEF Spec, ServiceSpec, Service!Spec

(***************************************************************************)
(* How a packet comes through                                              *)
(***************************************************************************)

\* r is the i-th packet that waits for w; the one being processed is in front
\* of them.
HeldAt(w, r, i) ==
    \/ i = 0 /\ phase[w] = "busy" /\ job[w] = r
    \/ i \in 1..Len(inbox[w]) /\ inbox[w][i] = r

\* The steps w has to take until it is through with the packet at place i
StepsTo(w, i) == 2 * i + (IF phase[w] = "busy" THEN 1 ELSE 0)

\* The worker can take its next step: the guards of Receive and Reply.
CanWork(w) == phase[w] = "busy" \/ (phase[w] = "waiting" /\ inbox[w] # <<>>)

Works(w) == Receive(w) \/ Reply(w)

\* A step leaves a packet where it is, moves it forward or is the end of it; a
\* step of its own worker is one of the latter two.
Approaches(w, r, i) ==
    \/ \E j \in 0..i : /\ HeldAt(w, r, j)'
                       /\ StepsTo(w, j)' <= StepsTo(w, i)
                       /\ Works(w) => StepsTo(w, j)' < StepsTo(w, i)
    \/ \A v \in Workers : ~ Holds(v, r)'

PacketsApproach ==
    \A w \in Workers : \A r \in Requests : \A i \in Nat :
        HeldAt(w, r, i) => Approaches(w, r, i)

\* What the workers are through with does not come back.
NoReturn ==
    \A r \in Requests :
        r[2] <= sent[r[1]] /\ (\A w \in Workers : ~ Holds(w, r)) =>
            /\ r[2] <= sent'[r[1]]
            /\ \A w \in Workers : ~ Holds(w, r)'

LEMMA HoldsIsWaits ==
    ASSUME NEW w \in Workers, NEW r
    PROVE  Holds(w, r) <=> Waits(w, r) \/ (phase[w] = "busy" /\ job[w] = r)
  BY DEF Holds, Waits, Contains

\* A packet has one place with one worker.
LEMMA OneHolder ==
    ASSUME IInv, SInv, NEW w \in Workers, NEW r \in Requests, NEW i \in Nat, HeldAt(w, r, i)
    PROVE  /\ Holds(w, r)
           /\ \A v \in Workers : v # w => ~ Holds(v, r)
           /\ i = 0 => ~ Waits(w, r)
<1>1. Holds(w, r) /\ Travels(w, r)
  BY DEF HeldAt, Holds, Waits, Contains, Travels
<1>2. ASSUME NEW v \in Workers, v # w PROVE ~ Holds(v, r)
  BY <1>1, <1>2, HoldsIsWaits DEF SInv, Alone, Travels
<1>3. ASSUME i = 0 PROVE ~ Waits(w, r)
  <2>1. job[w] = r
    BY <1>3 DEF HeldAt
  <2>2. ~ Before(r, r)
    BY NoRequestIsNone DEF Before
  <2> QED
    BY <2>1, <2>2 DEF SInv, InOrder
<1> QED
  BY <1>1, <1>2, <1>3

\* Receive moves everything that waits one place forward.
LEMMA ReceiveApproaches ==
    ASSUME IInv, NEW w \in Workers, Receive(w), NEW r \in Requests, NEW i \in Nat,
           HeldAt(w, r, i)
    PROVE  /\ i - 1 \in Nat /\ HeldAt(w, r, i - 1)'
           /\ StepsTo(w, i - 1)' < StepsTo(w, i)
<1>1. /\ inbox \in [Workers -> Seq(Requests)] /\ inbox[w] # <<>>
      /\ phase[w] = "waiting" /\ phase'[w] = "busy"
      /\ job'[w] = Head(inbox[w]) /\ inbox'[w] = Tail(inbox[w])
  BY DEF IInv, TypeOK, Receive
<1>2. /\ Len(inbox'[w]) = Len(inbox[w]) - 1 /\ Len(inbox[w]) \in Nat
      /\ \A k \in 1..Len(inbox'[w]) : inbox'[w][k] = inbox[w][k + 1]
      /\ job'[w] = inbox[w][1]
  BY <1>1, HeadTailProperties, LenProperties
<1>3. i \in 1..Len(inbox[w]) /\ inbox[w][i] = r
  BY <1>1 DEF HeldAt
<1> DEFINE j == i - 1
<1>4. j \in Nat /\ j + 1 = i
  BY <1>2, <1>3
<1>5. StepsTo(w, j)' < StepsTo(w, i)
  BY <1>1, <1>4 DEF StepsTo
<1> HIDE DEF j
<1>6. HeldAt(w, r, j)'
  <2>1. CASE j = 0
    BY <1>1, <1>2, <1>3, <1>4, <2>1 DEF HeldAt
  <2>2. CASE j # 0
    <3>1. j \in 1..Len(inbox'[w])
      BY <1>2, <1>3, <1>4, <2>2
    <3> QED
      BY <1>2, <1>3, <1>4, <3>1 DEF HeldAt
  <2> QED
    BY <2>1, <2>2
<1> QED
  BY <1>4, <1>5, <1>6 DEF j

\* Reply ends one packet; those that wait keep their places or are all lost.
LEMMA ReplyApproaches ==
    ASSUME IInv, SInv, NEW w \in Workers, Reply(w), NEW r \in Requests, NEW i \in Nat,
           HeldAt(w, r, i)
    PROVE  \/ HeldAt(w, r, i)' /\ StepsTo(w, i)' < StepsTo(w, i)
           \/ \A v \in Workers : ~ Holds(v, r)'
<1>1. /\ inbox \in [Workers -> Seq(Requests)] /\ phase \in [Workers -> {"starting", "waiting", "busy"}]
      /\ phase[w] = "busy" /\ phase' = [phase EXCEPT ![w] = "waiting"]
      /\ job' = [job EXCEPT ![w] = NoRequest] /\ job \in [Workers -> Requests \cup {NoRequest}]
      /\ inbox' \in {inbox, [inbox EXCEPT ![w] = <<>>]}
  BY DEF IInv, TypeOK, Reply, EatWaiting
<1>2. StepsTo(w, i)' < StepsTo(w, i)
  BY <1>1 DEF StepsTo
<1>3. ASSUME ~ Waits(w, r)' PROVE \A v \in Workers : ~ Holds(v, r)'
  <2>1. ~ Holds(w, r)'
    BY <1>1, <1>3 DEF Holds, Waits, Contains
  <2>2. ASSUME NEW v \in Workers, v # w PROVE ~ Holds(v, r)'
    <3>1. inbox'[v] = inbox[v] /\ phase'[v] = phase[v] /\ job'[v] = job[v]
      BY <1>1, <2>2
    <3>2. ~ Holds(v, r)
      BY <2>2, OneHolder
    <3> QED
      BY <3>1, <3>2 DEF Holds
  <2> QED
    BY <2>1, <2>2
<1>4. CASE inbox'[w] = <<>>
  <2>1. ~ Waits(w, r)'
    BY <1>4 DEF Waits, Contains
  <2> QED
    BY <1>3, <2>1
<1>5. CASE inbox'[w] = inbox[w] /\ i = 0
  <2>1. ~ Waits(w, r)'
    BY <1>5, OneHolder DEF Waits
  <2> QED
    BY <1>3, <2>1
<1>6. CASE inbox'[w] = inbox[w] /\ i # 0
  BY <1>2, <1>6 DEF HeldAt
<1> QED
  BY <1>1, <1>4, <1>5, <1>6

\* What is not a step of worker w takes nothing from its inbox and not its job.
LEMMA OthersApproach ==
    ASSUME IInv, NEW w \in Workers, [Next]_vars, ~ Works(w), NEW r \in Requests, NEW i \in Nat,
           HeldAt(w, r, i)
    PROVE  HeldAt(w, r, i)' /\ StepsTo(w, i)' <= StepsTo(w, i)
<1>1. /\ inbox \in [Workers -> Seq(Requests)] /\ job \in [Workers -> Requests \cup {NoRequest}]
      /\ phase \in [Workers -> {"starting", "waiting", "busy"}]
  BY DEF IInv, TypeOK
<1>2. StepsTo(w, i) \in Nat
  BY DEF StepsTo
<1>3. ASSUME inbox'[w] = inbox[w], phase'[w] = phase[w], job'[w] = job[w]
      PROVE  HeldAt(w, r, i)' /\ StepsTo(w, i)' <= StepsTo(w, i)
  BY <1>2, <1>3 DEF HeldAt, StepsTo
<1>4. ASSUME NEW v \in Workers, SignalReady(v)
      PROVE  HeldAt(w, r, i)' /\ StepsTo(w, i)' <= StepsTo(w, i)
  <2>1. CASE v # w
    BY <1>1, <1>3, <1>4, <2>1 DEF SignalReady
  <2>2. CASE v = w
    <3>1. phase[w] = "starting" /\ phase'[w] = "waiting" /\ inbox' = inbox /\ job' = job
      BY <1>1, <1>4, <2>2 DEF SignalReady
    <3> QED
      BY <1>2, <3>1 DEF HeldAt, StepsTo
  <2> QED
    BY <2>1, <2>2
<1>5. ASSUME NEW v \in Workers, Receive(v) \/ Reply(v)
      PROVE  HeldAt(w, r, i)' /\ StepsTo(w, i)' <= StepsTo(w, i)
  <2>1. v # w
    BY <1>5 DEF Works
  <2> QED
    BY <1>1, <1>3, <1>5, <2>1 DEF Receive, Reply, EatWaiting
<1>6. ASSUME NEW v \in Workers, Router_backend(v)
      PROVE  HeldAt(w, r, i)' /\ StepsTo(w, i)' <= StepsTo(w, i)
  BY <1>3, <1>6 DEF Router_backend, BackendReady, BackendNormal, BackendError, BackendUnknown, workerVars
<1>7. ASSUME NEW c \in Clients, Router_frontend(c)
      PROVE  HeldAt(w, r, i)' /\ StepsTo(w, i)' <= StepsTo(w, i)
  <2>1. UNCHANGED <<phase, job>> /\ (UNCHANGED inbox \/ \E v \in Workers : Forward(c, v))
    BY <1>7, FrontendCases
  <2>2. ASSUME NEW v \in Workers, Forward(c, v), v = w
        PROVE  HeldAt(w, r, i)'
    <3>1. Newest(c) \in Requests
      BY <1>7, FrontendCases, AcceptFacts
    <3>2. inbox'[w] = Append(inbox[w], Newest(c))
      BY <1>1, <2>2 DEF Forward
    <3>3. /\ Len(inbox'[w]) = Len(inbox[w]) + 1 /\ Len(inbox[w]) \in Nat
          /\ \A k \in 1..Len(inbox[w]) : inbox'[w][k] = inbox[w][k]
      BY <1>1, <3>1, <3>2, AppendProperties, LenProperties
    <3> QED
      BY <2>1, <3>3 DEF HeldAt
  <2>3. ASSUME NEW v \in Workers, Forward(c, v), v # w
        PROVE  HeldAt(w, r, i)' /\ StepsTo(w, i)' <= StepsTo(w, i)
    BY <1>1, <1>3, <2>1, <2>3 DEF Forward
  <2>4. StepsTo(w, i)' <= StepsTo(w, i)
    BY <1>2, <2>1 DEF StepsTo
  <2> QED
    BY <1>3, <2>1, <2>2, <2>3, <2>4
<1>8. CASE UNCHANGED vars
  BY <1>3, <1>8 DEF vars, socketVars, workerVars
<1> QED
  BY <1>4, <1>5, <1>6, <1>7, <1>8 DEF Next, Idle

LEMMA StepApproaches ==
    ASSUME IInv, SInv, [Next]_vars
    PROVE  PacketsApproach
<1> SUFFICES ASSUME NEW w \in Workers, NEW r \in Requests, NEW i \in Nat, HeldAt(w, r, i)
             PROVE  Approaches(w, r, i)
  BY DEF PacketsApproach
<1>1. CASE Receive(w)
  <2>1. /\ i - 1 \in Nat /\ HeldAt(w, r, i - 1)'
        /\ StepsTo(w, i - 1)' < StepsTo(w, i)
    BY <1>1, ReceiveApproaches
  <2> DEFINE j == i - 1
  <2>2. j \in 0..i
    BY <2>1
  <2>3. StepsTo(w, j)' \in Nat /\ StepsTo(w, i) \in Nat
    BY <2>1 DEF StepsTo
  <2>4. HeldAt(w, r, j)' /\ StepsTo(w, j)' < StepsTo(w, i) /\ StepsTo(w, j)' <= StepsTo(w, i)
    BY <2>1, <2>3
  <2> HIDE DEF j
  <2> QED
    BY <2>2, <2>4 DEF Approaches
<1>2. CASE Reply(w)
  <2>1. i \in 0..i /\ StepsTo(w, i)' \in Nat /\ StepsTo(w, i) \in Nat
    BY DEF StepsTo
  <2>2. StepsTo(w, i)' < StepsTo(w, i) => StepsTo(w, i)' <= StepsTo(w, i)
    BY <2>1
  <2> QED
    BY <1>2, <2>1, <2>2, ReplyApproaches DEF Approaches
<1>3. CASE ~ Works(w)
  <2>1. i \in 0..i
    OBVIOUS
  <2> QED
    BY <1>3, <2>1, OthersApproach DEF Approaches
<1> QED
  BY <1>1, <1>2, <1>3 DEF Works

LEMMA StepKeepsAway ==
    ASSUME IInv, SInv, [Next]_vars
    PROVE  NoReturn
<1> SUFFICES ASSUME NEW r \in Requests, r[2] <= sent[r[1]], \A w \in Workers : ~ Holds(w, r)
             PROVE  r[2] <= sent'[r[1]] /\ \A w \in Workers : ~ Holds(w, r)'
  BY DEF NoReturn
<1>1. /\ inbox \in [Workers -> Seq(Requests)] /\ job \in [Workers -> Requests \cup {NoRequest}]
      /\ phase \in [Workers -> {"starting", "waiting", "busy"}]
  BY DEF IInv, TypeOK
<1>2. \A w \in Workers : ~ Waits(w, r) /\ ~ (phase[w] = "busy" /\ job[w] = r)
  BY HoldsIsWaits
<1>3. ASSUME \A w \in Workers : ~ Waits(w, r)' /\ ~ (phase'[w] = "busy" /\ job'[w] = r)
      PROVE  \A w \in Workers : ~ Holds(w, r)'
  BY <1>3 DEF Holds, Waits, Contains
<1>4. ASSUME NEW v \in Workers, SignalReady(v)
      PROVE  sent' = sent /\ \A w \in Workers : ~ Waits(w, r)' /\ ~ (phase'[w] = "busy" /\ job'[w] = r)
  <2>1. /\ inbox' = inbox /\ job' = job /\ sent' = sent
        /\ phase' = [phase EXCEPT ![v] = "waiting"]
    BY <1>4 DEF SignalReady, clientVars
  <2>2. \A w \in Workers : Waits(w, r)' <=> Waits(w, r)
    BY <2>1 DEF Waits, Contains
  <2> QED
    BY <1>1, <1>2, <2>1, <2>2
<1>5. ASSUME NEW v \in Workers, Receive(v)
      PROVE  sent' = sent /\ \A w \in Workers : ~ Waits(w, r)' /\ ~ (phase'[w] = "busy" /\ job'[w] = r)
  BY <1>1, <1>2, <1>5, ReceiveEffect
<1>6. ASSUME NEW v \in Workers, Reply(v)
      PROVE  sent' = sent /\ \A w \in Workers : ~ Waits(w, r)' /\ ~ (phase'[w] = "busy" /\ job'[w] = r)
  <2>1. /\ job' = [job EXCEPT ![v] = NoRequest] /\ phase' = [phase EXCEPT ![v] = "waiting"]
        /\ sent' = sent
    BY <1>6 DEF Reply, clientVars
  <2>2. \A w \in Workers : Waits(w, r)' => Waits(w, r)
    BY <1>6, ReplyEffect
  <2> QED
    BY <1>1, <1>2, <2>1, <2>2
<1>7. ASSUME NEW v \in Workers, Router_backend(v)
      PROVE  sent' = sent /\ \A w \in Workers : ~ Waits(w, r)' /\ ~ (phase'[w] = "busy" /\ job'[w] = r)
  <2>1. UNCHANGED <<inbox, phase, job, sent>>
    BY <1>7 DEF Router_backend, BackendReady, BackendNormal, BackendError, BackendUnknown,
       workerVars, clientVars
  <2> QED
    BY <1>2, <2>1 DEF Waits, Contains
<1>8. CASE UNCHANGED vars
  BY <1>2, <1>3, <1>8 DEF vars, socketVars, workerVars, clientVars, Waits, Contains
<1>9. ASSUME NEW c \in Clients, Router_frontend(c)
      PROVE  r[2] <= sent'[r[1]] /\ \A w \in Workers : ~ Holds(w, r)'
  <2>1. /\ Accept(c) /\ UNCHANGED <<phase, job>>
        /\ UNCHANGED inbox \/ \E w \in Workers : Forward(c, w)
    BY <1>9, FrontendCases
  <2>2. r[2] <= sent'[r[1]] /\ r # Newest(c)
    BY <2>1, AcceptPlaces, NoRequestIsNone
  <2>3. ASSUME NEW w \in Workers PROVE ~ Waits(w, r)'
    BY <1>2, <2>1, <2>2, ForwardPlaces DEF Waits, Contains
  <2> QED
    BY <1>2, <1>3, <2>1, <2>2, <2>3
<1> QED
  BY <1>3, <1>4, <1>5, <1>6, <1>7, <1>8, <1>9 DEF Next, Idle

\* Whatever the handlers return and the sockets drop, a packet that a worker has
\* comes closer to its end with every step of that worker and is set back by
\* none; the worker can take such a step as long as it has the packet; and once
\* the workers are through with it, it does not come back: with the fairness of
\* the workers, what EveryPacketSettles needs.
THEOREM PacketsComeThrough ==
    Spec => /\ [][PacketsApproach]_vars
            /\ [](\A w \in Workers : (\E r \in Requests : Holds(w, r)) => CanWork(w))
            /\ [][NoReturn]_vars
<1> DEFINE Able == \A w \in Workers : (\E r \in Requests : Holds(w, r)) => CanWork(w)
<1>1. IInv => Able
  <2> SUFFICES ASSUME IInv, NEW w \in Workers, NEW r \in Requests, Holds(w, r)
               PROVE  CanWork(w)
    OBVIOUS
  <2>1. CASE phase[w] = "busy"
    BY <2>1 DEF CanWork
  <2>2. CASE \E i \in 1..Len(inbox[w]) : inbox[w][i] = r
    <3>1. inbox[w] # <<>>
      BY <2>2
    <3>2. phase[w] \in {"waiting", "busy"}
      BY <3>1 DEF IInv, TypeOK, RegisteredBeforeUse, Startup
    <3> QED
      BY <3>1, <3>2 DEF CanWork
  <2> QED
    BY <2>1, <2>2 DEF Holds
<1>2. IInv /\ SInv /\ [Next]_vars => [PacketsApproach]_vars /\ [NoReturn]_vars
  BY StepApproaches, StepKeepsAway
<1> HIDE DEF Able
<1>3. Spec => [][PacketsApproach]_vars /\ []Able /\ [][NoReturn]_vars
  BY <1>1, <1>2, Invariance, PlacesInvariance, PTL DEF Spec
<1> QED
  BY <1>3 DEF Able
=============================================================================
