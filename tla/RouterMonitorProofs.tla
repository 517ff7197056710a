------------------------ MODULE RouterMonitorProofs ------------------------
(***************************************************************************)
(* Proofs about RouterMonitor: with keys that tell descriptors apart, and  *)
(* as long as the system uses no descriptor twice, the monitor never       *)
(* flushes a connected client and never ends, however the two queues it    *)
(* reads are interleaved.                                                  *)
(***************************************************************************)
EXTENDS RouterMonitor, SequenceTheorems, TLAPS

\* What the two theorems need of the platform
SoundDescriptors ==
    /\ Reuse = FALSE
    /\ \A f, g \in Fds : FdKey[f] = FdKey[g] => f = g

\* No two connections have had the same descriptor.
OneUser == \A c, d \in Conns : fd[c] = fd[d] /\ fd[c] # NoFd => c = d

\* Only a connection that got a descriptor is open, has sent something or was
\* flushed.
Opened ==
    \A c \in Conns : c \in live \/ packets[c] > 0 \/ flushes[c] > 0 => fd[c] \in Fds

\* A DISCONNECTED names the descriptor of a closed connection.
EventsTell ==
    \A i \in 1..Len(events) :
        events[i].kind = "DISCONNECTED" =>
            \E c \in Conns : fd[c] = events[i].fd /\ c \notin live

\* ADD_FD names a connection and its descriptor.
AddsTell == \A i \in 1..Len(adds) : fd[adds[i].conn] = adds[i].fd

\* The table has a client under the key of its descriptor.
TableTells ==
    \A k \in Keys : connected[k] # NoConn =>
        /\ fd[connected[k]] \in Fds
        /\ FdKey[fd[connected[k]]] = k

IInv ==
    /\ TypeOK
    /\ OneUser
    /\ Opened
    /\ EventsTell
    /\ AddsTell
    /\ TableTells
    /\ NeverFlushesLive
    /\ MonitorSurvives

LEMMA KeyInKeys == \A f \in Fds : genKey(f) \in Keys /\ genKey(f) = FdKey[f]
  BY DEF Keys, genKey

\* What the queues hold
LEMMA MessageTypes ==
    ASSUME TypeOK
    PROVE  /\ \A i \in 1..Len(events) : events[i].fd \in Fds
           /\ \A i \in 1..Len(adds) : adds[i].fd \in Fds /\ adds[i].conn \in Conns
<1>1. /\ events \in Seq([kind : Kinds, fd : Fds])
      /\ adds \in Seq([fd : Fds, conn : Conns])
  BY DEF TypeOK
<1>2. \A i \in 1..Len(events) : events[i] \in [kind : Kinds, fd : Fds]
  BY <1>1, ElementOfSeq
<1>3. \A i \in 1..Len(adds) : adds[i] \in [fd : Fds, conn : Conns]
  BY <1>1, ElementOfSeq
<1> QED
  BY <1>2, <1>3

\* What reading the next socket event changes
LEMMA ReadEventFacts ==
    ASSUME TypeOK, EventsTell, NEW kind \in Kinds, ReadEvent(kind)
    PROVE  /\ Head(events).kind = kind
           /\ Head(events).fd \in Fds
           /\ kind = "DISCONNECTED" =>
                \E c \in Conns : fd[c] = Head(events).fd /\ c \notin live
           /\ events' \in Seq([kind : Kinds, fd : Fds])
           /\ \A i \in 1..Len(events') :
                i + 1 \in 1..Len(events) /\ events'[i] = events[i + 1]
<1>1. /\ events \in Seq([kind : Kinds, fd : Fds])
      /\ events # <<>>
      /\ events' = Tail(events)
      /\ Head(events).kind = kind
  BY DEF TypeOK, ReadEvent
<1>2. /\ Tail(events) \in Seq([kind : Kinds, fd : Fds])
      /\ Len(Tail(events)) = Len(events) - 1
      /\ \A i \in 1..Len(Tail(events)) : Tail(events)[i] = events[i + 1]
  BY <1>1, HeadTailProperties
<1>3. Len(events) \in Nat /\ Len(events) # 0
  BY <1>1, LenProperties, EmptySeq
<1>4. Head(events) = events[1] /\ 1 \in 1..Len(events)
  BY <1>1, <1>3
<1>5. Head(events).fd \in Fds
  BY <1>4, MessageTypes
<1>6. kind = "DISCONNECTED" =>
        \E c \in Conns : fd[c] = Head(events).fd /\ c \notin live
  BY <1>1, <1>4 DEF EventsTell
<1> QED
  BY <1>1, <1>2, <1>3, <1>5, <1>6

LEMMA InitInv == Init => IInv
<1> SUFFICES ASSUME Init PROVE IInv
  OBVIOUS
<1>1. TypeOK
  BY MaxPacketsAssumption DEF Init, TypeOK
<1>2. OneUser /\ Opened /\ TableTells
  BY DEF Init, OneUser, Opened, TableTells
<1>3. EventsTell /\ AddsTell
  BY DEF Init, EventsTell, AddsTell
<1>4. NeverFlushesLive /\ MonitorSurvives
  BY DEF Init, NeverFlushesLive, MonitorSurvives
<1> QED
  BY <1>1, <1>2, <1>3, <1>4 DEF IInv

LEMMA ConnectInv ==
    ASSUME SoundDescriptors, IInv, NEW c \in Conns, NEW f \in Fds, Connect(c, f)
    PROVE  IInv'
<1> DEFINE e == Event("ACCEPTED", f)
<1>1. /\ fd[c] = NoFd
      /\ \A d \in Conns : fd[d] # f
      /\ fd' = [fd EXCEPT ![c] = f]
      /\ live' = live \cup {c}
      /\ events' = Append(events, e)
      /\ UNCHANGED <<packets, read, adds, connected, running, flushes>>
  BY DEF Connect, Free, SoundDescriptors, monitorVars
<1>2. /\ e \in [kind : Kinds, fd : Fds]
      /\ e.kind # "DISCONNECTED"
      /\ c \notin live
      /\ f # NoFd
  BY <1>1, NoFdAssumption DEF Event, Kinds, IInv, Opened
<1> HIDE DEF e
<1>3. /\ events' \in Seq([kind : Kinds, fd : Fds])
      /\ \A i \in 1..Len(events') :
           (i \in 1..Len(events) /\ events'[i] = events[i]) \/ events'[i] = e
  <2>1. events \in Seq([kind : Kinds, fd : Fds])
    BY DEF IInv, TypeOK
  <2> QED
    BY <1>1, <1>2, <2>1, AppendProperties, LenProperties
<1>4. /\ fd \in [Conns -> Fds \cup {NoFd}]
      /\ fd' \in [Conns -> Fds \cup {NoFd}]
      /\ fd'[c] = f
      /\ \A d \in Conns : d # c => fd'[d] = fd[d]
  BY <1>1 DEF IInv, TypeOK
<1>5. TypeOK'
  BY <1>1, <1>3, <1>4 DEF IInv, TypeOK
<1>6. OneUser' /\ Opened'
  BY <1>1, <1>2, <1>4 DEF IInv, OneUser, Opened
<1>7. EventsTell'
  <2> SUFFICES ASSUME NEW i \in 1..Len(events'), events'[i].kind = "DISCONNECTED"
               PROVE  \E d \in Conns : fd'[d] = events'[i].fd /\ d \notin live'
    BY DEF EventsTell
  <2>1. i \in 1..Len(events) /\ events'[i] = events[i]
    BY <1>2, <1>3
  <2>2. PICK d \in Conns : fd[d] = events[i].fd /\ d \notin live
    BY <2>1 DEF IInv, EventsTell
  <2>3. events[i].fd \in Fds
    BY <2>1, MessageTypes DEF IInv
  <2>4. d # c
    BY <1>1, <2>2, <2>3, NoFdAssumption
  <2> QED
    BY <1>1, <1>4, <2>1, <2>2, <2>4
<1>8. AddsTell'
  <2> SUFFICES ASSUME NEW i \in 1..Len(adds) PROVE fd'[adds[i].conn] = adds[i].fd
    BY <1>1 DEF AddsTell
  <2>1. adds[i].fd \in Fds /\ adds[i].conn \in Conns
    BY MessageTypes DEF IInv
  <2>2. fd[adds[i].conn] = adds[i].fd
    BY DEF IInv, AddsTell
  <2> QED
    BY <1>1, <1>4, <2>1, <2>2, NoFdAssumption
<1>9. TableTells'
  <2> SUFFICES ASSUME NEW k \in Keys, connected[k] # NoConn
               PROVE  fd'[connected[k]] \in Fds /\ FdKey[fd'[connected[k]]] = k
    BY <1>1 DEF TableTells
  <2>1. /\ connected[k] \in Conns
        /\ fd[connected[k]] \in Fds
        /\ FdKey[fd[connected[k]]] = k
    BY DEF IInv, TypeOK, TableTells
  <2> QED
    BY <1>1, <1>4, <2>1, NoFdAssumption
<1>10. NeverFlushesLive' /\ MonitorSurvives'
  <2>1. ~ (flushes[c] > 0)
    BY <1>1, NoFdAssumption DEF IInv, Opened
  <2> QED
    BY <1>1, <2>1 DEF IInv, NeverFlushesLive, MonitorSurvives
<1> QED
  BY <1>5, <1>6, <1>7, <1>8, <1>9, <1>10 DEF IInv

LEMMA SendPacketInv ==
    ASSUME IInv, NEW c \in Conns, SendPacket(c)
    PROVE  IInv'
<1>1. /\ c \in live
      /\ packets[c] < MaxPackets
      /\ packets' = [packets EXCEPT ![c] = packets[c] + 1]
      /\ UNCHANGED <<fd, live, read, events, adds, connected, running, flushes>>
  BY DEF SendPacket, monitorVars
<1>2. packets' \in [Conns -> 0..MaxPackets]
  <2>1. packets[c] + 1 \in 0..MaxPackets
    BY <1>1, MaxPacketsAssumption DEF IInv, TypeOK
  <2> QED
    BY <1>1, <2>1 DEF IInv, TypeOK
<1>3. TypeOK'
  BY <1>1, <1>2 DEF IInv, TypeOK
<1>4. OneUser' /\ Opened'
  BY <1>1 DEF IInv, TypeOK, OneUser, Opened
<1>5. EventsTell' /\ AddsTell' /\ TableTells'
  BY <1>1 DEF IInv, EventsTell, AddsTell, TableTells
<1>6. NeverFlushesLive' /\ MonitorSurvives'
  BY <1>1 DEF IInv, NeverFlushesLive, MonitorSurvives
<1> QED
  BY <1>3, <1>4, <1>5, <1>6 DEF IInv

LEMMA DisconnectInv ==
    ASSUME IInv, NEW c \in Conns, Disconnect(c)
    PROVE  IInv'
<1> DEFINE e == Event("DISCONNECTED", fd[c])
<1>1. /\ c \in live
      /\ fd[c] \in Fds
      /\ live' = live \ {c}
      /\ events' = Append(events, e)
      /\ UNCHANGED <<fd, packets, read, adds, connected, running, flushes>>
  BY DEF Disconnect, monitorVars, IInv, Opened
<1>2. e \in [kind : Kinds, fd : Fds] /\ e.fd = fd[c]
  BY <1>1 DEF Event, Kinds
<1> HIDE DEF e
<1>3. /\ events' \in Seq([kind : Kinds, fd : Fds])
      /\ \A i \in 1..Len(events') :
           (i \in 1..Len(events) /\ events'[i] = events[i]) \/ events'[i] = e
  <2>1. events \in Seq([kind : Kinds, fd : Fds])
    BY DEF IInv, TypeOK
  <2> QED
    BY <1>1, <1>2, <2>1, AppendProperties, LenProperties
<1>4. TypeOK'
  BY <1>1, <1>3 DEF IInv, TypeOK
<1>5. OneUser' /\ Opened' /\ TableTells' /\ AddsTell'
  BY <1>1 DEF IInv, OneUser, Opened, TableTells, AddsTell
<1>6. EventsTell'
  BY <1>1, <1>2, <1>3 DEF IInv, EventsTell
<1>7. NeverFlushesLive' /\ MonitorSurvives'
  BY <1>1 DEF IInv, NeverFlushesLive, MonitorSurvives
<1> QED
  BY <1>4, <1>5, <1>6, <1>7 DEF IInv

LEMMA DiscardPacketInv ==
    ASSUME IInv, NEW c \in Conns, DiscardPacket(c)
    PROVE  IInv'
<1>1. /\ read[c] < packets[c]
      /\ read' = [read EXCEPT ![c] = read[c] + 1]
      /\ UNCHANGED <<fd, live, packets, events, adds, connected, running, flushes>>
  BY DEF DiscardPacket, osVars, monitorVars
<1>2. read' \in [Conns -> 0..MaxPackets]
  <2>1. read[c] + 1 \in 0..MaxPackets
    BY <1>1, MaxPacketsAssumption DEF IInv, TypeOK
  <2> QED
    BY <1>1, <2>1 DEF IInv, TypeOK
<1>3. TypeOK'
  BY <1>1, <1>2 DEF IInv, TypeOK
<1>4. OneUser' /\ Opened' /\ EventsTell' /\ AddsTell' /\ TableTells'
  BY <1>1 DEF IInv, OneUser, Opened, EventsTell, AddsTell, TableTells
<1>5. NeverFlushesLive' /\ MonitorSurvives'
  BY <1>1 DEF IInv, NeverFlushesLive, MonitorSurvives
<1> QED
  BY <1>3, <1>4, <1>5 DEF IInv

LEMMA InformMonitorInv ==
    ASSUME IInv, NEW c \in Conns, InformMonitor(c)
    PROVE  IInv'
<1> DEFINE m == AddFd(fd[c], c)
<1>1. /\ read[c] < packets[c]
      /\ read' = [read EXCEPT ![c] = read[c] + 1]
      /\ adds' = Append(adds, m)
      /\ UNCHANGED <<fd, live, packets, events, connected, running, flushes>>
  BY DEF InformMonitor, osVars, monitorVars
<1>2. fd[c] \in Fds
  <2>1. packets[c] > 0
    BY <1>1 DEF IInv, TypeOK
  <2> QED
    BY <2>1 DEF IInv, Opened
<1>3. m \in [fd : Fds, conn : Conns] /\ m.fd = fd[m.conn]
  BY <1>2 DEF AddFd
<1> HIDE DEF m
<1>4. /\ adds' \in Seq([fd : Fds, conn : Conns])
      /\ \A i \in 1..Len(adds') :
           (i \in 1..Len(adds) /\ adds'[i] = adds[i]) \/ adds'[i] = m
  <2>1. adds \in Seq([fd : Fds, conn : Conns])
    BY DEF IInv, TypeOK
  <2> QED
    BY <1>1, <1>3, <2>1, AppendProperties, LenProperties
<1>5. read' \in [Conns -> 0..MaxPackets]
  <2>1. read[c] + 1 \in 0..MaxPackets
    BY <1>1, MaxPacketsAssumption DEF IInv, TypeOK
  <2> QED
    BY <1>1, <2>1 DEF IInv, TypeOK
<1>6. TypeOK'
  BY <1>1, <1>4, <1>5 DEF IInv, TypeOK
<1>7. OneUser' /\ Opened' /\ EventsTell' /\ TableTells'
  BY <1>1 DEF IInv, OneUser, Opened, EventsTell, TableTells
<1>8. AddsTell'
  BY <1>1, <1>3, <1>4 DEF IInv, AddsTell
<1>9. NeverFlushesLive' /\ MonitorSurvives'
  BY <1>1 DEF IInv, NeverFlushesLive, MonitorSurvives
<1> QED
  BY <1>6, <1>7, <1>8, <1>9 DEF IInv

\* The queue of events loses its head.
LEMMA EventsTellTail ==
    ASSUME IInv, NEW kind \in Kinds, ReadEvent(kind), UNCHANGED <<fd, live>>
    PROVE  EventsTell'
<1> SUFFICES ASSUME NEW i \in 1..Len(events'), events'[i].kind = "DISCONNECTED"
             PROVE  \E c \in Conns : fd[c] = events'[i].fd /\ c \notin live
  BY DEF EventsTell
<1> DEFINE j == i + 1
<1>1. j \in 1..Len(events) /\ events'[i] = events[j]
  BY ReadEventFacts DEF IInv
<1> HIDE DEF j
<1> QED
  BY <1>1 DEF IInv, EventsTell

LEMMA MonitorAcceptedInv ==
    ASSUME IInv, MonitorAccepted
    PROVE  IInv'
<1>1. /\ ReadEvent("ACCEPTED")
      /\ "ACCEPTED" \in Kinds
      /\ UNCHANGED <<fd, live, packets, read, adds, connected, running, flushes>>
  BY DEF MonitorAccepted, Kinds, osVars, monitorVars
<1>2. events' \in Seq([kind : Kinds, fd : Fds])
  BY <1>1, ReadEventFacts DEF IInv
<1>3. TypeOK'
  BY <1>1, <1>2 DEF IInv, TypeOK
<1>4. EventsTell'
  BY <1>1, EventsTellTail
<1>5. OneUser' /\ Opened' /\ AddsTell' /\ TableTells'
  BY <1>1 DEF IInv, OneUser, Opened, AddsTell, TableTells
<1>6. NeverFlushesLive' /\ MonitorSurvives'
  BY <1>1 DEF IInv, NeverFlushesLive, MonitorSurvives
<1> QED
  BY <1>3, <1>4, <1>5, <1>6 DEF IInv

\* The entry under the key of a closed connection's descriptor is that
\* connection: no other had the descriptor, and no other descriptor the key.
LEMMA MonitorDisconnectedInv ==
    ASSUME SoundDescriptors, IInv, MonitorDisconnected
    PROVE  IInv'
<1> DEFINE f == Head(events).fd
           k == genKey(f)
           c == connected[k]
<1>1. /\ ReadEvent("DISCONNECTED")
      /\ "DISCONNECTED" \in Kinds
      /\ UNCHANGED <<fd, live, packets, read, adds, running>>
      /\ \/ UNCHANGED <<connected, flushes>>
         \/ /\ c # NoConn
            /\ flushes' = [flushes EXCEPT ![c] = flushes[c] + 1]
            /\ connected' = [connected EXCEPT ![k] = NoConn]
  BY DEF MonitorDisconnected, FlushSession, Kinds, osVars
<1>2. /\ events' \in Seq([kind : Kinds, fd : Fds])
      /\ f \in Fds
      /\ \E d \in Conns : fd[d] = f /\ d \notin live
  BY <1>1, ReadEventFacts DEF IInv
<1>3. k \in Keys /\ k = FdKey[f]
  BY <1>2, KeyInKeys
<1>4. EventsTell'
  BY <1>1, EventsTellTail
<1>5. OneUser' /\ AddsTell' /\ MonitorSurvives'
  BY <1>1 DEF IInv, OneUser, AddsTell, MonitorSurvives
<1> HIDE DEF f, k
<1>6. CASE UNCHANGED <<connected, flushes>>
  BY <1>1, <1>2, <1>4, <1>5, <1>6 DEF IInv, TypeOK, Opened, TableTells, NeverFlushesLive
<1>7. CASE /\ c # NoConn
           /\ flushes' = [flushes EXCEPT ![c] = flushes[c] + 1]
           /\ connected' = [connected EXCEPT ![k] = NoConn]
  <2>1. /\ c \in Conns
        /\ fd[c] \in Fds
        /\ FdKey[fd[c]] = k
    BY <1>3, <1>7 DEF IInv, TypeOK, TableTells
  <2>2. fd[c] = f
    BY <1>2, <1>3, <2>1 DEF SoundDescriptors
  <2>3. c \notin live
    BY <1>2, <2>1, <2>2, NoFdAssumption DEF IInv, OneUser
  <2> HIDE DEF c
  <2>4. TypeOK'
    <3>1. flushes' \in [Conns -> Nat]
      BY <1>7, <2>1 DEF IInv, TypeOK
    <3>2. connected' \in [Keys -> Conns \cup {NoConn}]
      BY <1>3, <1>7 DEF IInv, TypeOK
    <3> QED
      BY <1>1, <1>2, <3>1, <3>2 DEF IInv, TypeOK
  <2>5. Opened' /\ NeverFlushesLive'
    BY <1>1, <1>7, <2>1, <2>3 DEF IInv, TypeOK, Opened, NeverFlushesLive
  <2>6. TableTells'
    BY <1>1, <1>3, <1>7 DEF IInv, TypeOK, TableTells
  <2> QED
    BY <1>4, <1>5, <2>4, <2>5, <2>6 DEF IInv
<1> QED
  BY <1>1, <1>6, <1>7

LEMMA MonitorAddFdInv ==
    ASSUME SoundDescriptors, IInv, MonitorAddFd
    PROVE  IInv'
<1> DEFINE m == Head(adds)
           k == genKey(m.fd)
           known == connected[k]
<1>1. /\ adds \in Seq([fd : Fds, conn : Conns])
      /\ adds # <<>>
      /\ adds' = Tail(adds)
      /\ UNCHANGED <<fd, live, packets, read, events, flushes>>
      /\ \/ /\ known = NoConn
            /\ connected' = [connected EXCEPT ![k] = m.conn]
            /\ UNCHANGED running
         \/ /\ known = m.conn
            /\ UNCHANGED <<connected, running>>
         \/ /\ known \notin {NoConn, m.conn}
            /\ running' = FALSE
            /\ UNCHANGED connected
  BY DEF MonitorAddFd, Remember, IInv, TypeOK, osVars
<1>2. /\ m = adds[1]
      /\ Tail(adds) \in Seq([fd : Fds, conn : Conns])
      /\ Len(Tail(adds)) = Len(adds) - 1
      /\ \A i \in 1..Len(Tail(adds)) : Tail(adds)[i] = adds[i + 1]
      /\ Len(adds) \in Nat /\ Len(adds) # 0
  BY <1>1, HeadTailProperties, LenProperties, EmptySeq
<1>3. /\ m.fd \in Fds
      /\ m.conn \in Conns
      /\ fd[m.conn] = m.fd
  <2>1. 1 \in 1..Len(adds)
    BY <1>2
  <2> QED
    BY <1>2, <2>1, MessageTypes DEF IInv, AddsTell
<1>4. k \in Keys /\ k = FdKey[m.fd]
  BY <1>3, KeyInKeys
<1> HIDE DEF m, k
<1>5. known \in {NoConn, m.conn}
  <2> SUFFICES ASSUME known # NoConn PROVE known = m.conn
    OBVIOUS
  <2>1. /\ known \in Conns
        /\ fd[known] \in Fds
        /\ FdKey[fd[known]] = k
    BY <1>4 DEF IInv, TypeOK, TableTells
  <2>2. fd[known] = m.fd
    BY <1>3, <1>4, <2>1 DEF SoundDescriptors
  <2> QED
    BY <1>3, <2>1, <2>2, NoFdAssumption DEF IInv, OneUser
<1> HIDE DEF known
<1>6. /\ connected' = [connected EXCEPT ![k] = m.conn] \/ UNCHANGED connected
      /\ UNCHANGED running
  BY <1>1, <1>5
<1>7. AddsTell'
  <2> SUFFICES ASSUME NEW i \in 1..Len(adds') PROVE fd[adds'[i].conn] = adds'[i].fd
    BY <1>1 DEF AddsTell
  <2> DEFINE j == i + 1
  <2>1. j \in 1..Len(adds) /\ adds'[i] = adds[j]
    BY <1>1, <1>2
  <2> HIDE DEF j
  <2> QED
    BY <2>1 DEF IInv, AddsTell
<1>8. TypeOK'
  BY <1>1, <1>2, <1>3, <1>4, <1>6 DEF IInv, TypeOK
<1>9. TableTells'
  <2> SUFFICES ASSUME NEW h \in Keys, connected'[h] # NoConn
               PROVE  /\ fd[connected'[h]] \in Fds
                      /\ FdKey[fd[connected'[h]]] = h
    BY <1>1 DEF TableTells
  <2>1. CASE h = k /\ connected'[h] = m.conn
    BY <1>3, <1>4, <2>1
  <2>2. CASE connected'[h] = connected[h]
    BY <2>2 DEF IInv, TableTells
  <2> QED
    BY <1>4, <1>6, <2>1, <2>2 DEF IInv, TypeOK
<1>10. OneUser' /\ Opened' /\ EventsTell' /\ NeverFlushesLive' /\ MonitorSurvives'
  BY <1>1, <1>6 DEF IInv, OneUser, Opened, EventsTell, NeverFlushesLive, MonitorSurvives
<1> QED
  BY <1>7, <1>8, <1>9, <1>10 DEF IInv

LEMMA NextInv == SoundDescriptors /\ IInv /\ [Next]_vars => IInv'
<1> SUFFICES ASSUME SoundDescriptors, IInv, [Next]_vars PROVE IInv'
  OBVIOUS
<1>1. ASSUME NEW c \in Conns, NEW f \in Fds, Connect(c, f) PROVE IInv'
  BY <1>1, ConnectInv
<1>2. ASSUME NEW c \in Conns, SendPacket(c) PROVE IInv'
  BY <1>2, SendPacketInv
<1>3. ASSUME NEW c \in Conns, Disconnect(c) PROVE IInv'
  BY <1>3, DisconnectInv
<1>4. ASSUME NEW c \in Conns, InformMonitor(c) PROVE IInv'
  BY <1>4, InformMonitorInv
<1>5. ASSUME NEW c \in Conns, DiscardPacket(c) PROVE IInv'
  BY <1>5, DiscardPacketInv
<1>6. CASE MonitorAccepted
  BY <1>6, MonitorAcceptedInv
<1>7. CASE MonitorDisconnected
  BY <1>7, MonitorDisconnectedInv
<1>8. CASE MonitorAddFd
  BY <1>8, MonitorAddFdInv
<1>9. CASE UNCHANGED vars
  BY <1>9 DEF vars, osVars, monitorVars, IInv, TypeOK, OneUser, Opened, EventsTell,
              AddsTell, TableTells, NeverFlushesLive, MonitorSurvives
<1> QED
  BY <1>1, <1>2, <1>3, <1>4, <1>5, <1>6, <1>7, <1>8, <1>9 DEF Next

\* Every variable keeps its type; in particular what is in the table is a
\* connection that has registered.
THEOREM TypeCorrectness == SoundDescriptors /\ Spec => []TypeOK
<1>1. IInv => TypeOK
  BY DEF IInv
<1>2. SoundDescriptors => []SoundDescriptors
  <2>1. SoundDescriptors => SoundDescriptors'
    BY DEF SoundDescriptors
  <2> QED
    BY <2>1, PTL
<1> QED
  BY <1>1, <1>2, InitInv, NextInv, PTL DEF Spec

\* With distinct keys and fresh descriptors only disconnected clients are
\* flushed, for any number of clients and packets.
THEOREM OnlyDisconnectedFlushed == SoundDescriptors /\ Spec => []NeverFlushesLive
<1>1. IInv => NeverFlushesLive
  BY DEF IInv
<1>2. SoundDescriptors => []SoundDescriptors
  <2>1. SoundDescriptors => SoundDescriptors'
    BY DEF SoundDescriptors
  <2> QED
    BY <2>1, PTL
<1> QED
  BY <1>1, <1>2, InitInv, NextInv, PTL DEF Spec

\* Under the same assumptions the reactor of the monitor never ends.
THEOREM MonitorNeverEnds == SoundDescriptors /\ Spec => []MonitorSurvives
<1>1. IInv => MonitorSurvives
  BY DEF IInv
<1>2. SoundDescriptors => []SoundDescriptors
  <2>1. SoundDescriptors => SoundDescriptors'
    BY DEF SoundDescriptors
  <2> QED
    BY <2>1, PTL
<1> QED
  BY <1>1, <1>2, InitInv, NextInv, PTL DEF Spec
-----------------------------------------------------------------------------
(* How often a connection is flushed *)

\* At most one DISCONNECTED waits for each descriptor, and it is the first.
ToldOnce ==
    /\ \A i, j \in 1..Len(events) :
         /\ events[i].kind = "DISCONNECTED"
         /\ events[j].kind = "DISCONNECTED"
         /\ events[i].fd = events[j].fd
         => i = j
    /\ \A i \in 1..Len(events), c \in Conns :
         events[i].kind = "DISCONNECTED" /\ events[i].fd = fd[c] => flushes[c] = 0

OnceInv == ToldOnce /\ FlushedOnce

\* A step that only appends an event, which is no disconnection
LEMMA AppendOnce ==
    ASSUME IInv, OnceInv, NEW e \in [kind : Kinds, fd : Fds], events' = Append(events, e),
           UNCHANGED flushes,
           \A c \in Conns : fd'[c] = fd[c] \/ flushes[c] = 0,
           e.kind = "DISCONNECTED" =>
              /\ \A i \in 1..Len(events) :
                   ~ (events[i].kind = "DISCONNECTED" /\ events[i].fd = e.fd)
              /\ \A c \in Conns : fd'[c] = e.fd => flushes[c] = 0
    PROVE  OnceInv'
<1>1. events \in Seq([kind : Kinds, fd : Fds])
  BY DEF IInv, TypeOK
<1>2. /\ Len(events) \in Nat
      /\ Len(events') = Len(events) + 1
      /\ events'[Len(events) + 1] = e
      /\ \A i \in 1..Len(events) : events'[i] = events[i]
  BY <1>1, AppendProperties, LenProperties
<1>3. \A i \in 1..Len(events') :
        \/ i \in 1..Len(events) /\ events'[i] = events[i]
        \/ i = Len(events) + 1 /\ events'[i] = e
  BY <1>2
<1>4. ASSUME NEW i \in 1..Len(events'), NEW j \in 1..Len(events'),
             events'[i].kind = "DISCONNECTED", events'[j].kind = "DISCONNECTED",
             events'[i].fd = events'[j].fd
      PROVE  i = j
  BY <1>3, <1>4 DEF OnceInv, ToldOnce
<1>5. ASSUME NEW i \in 1..Len(events'), NEW c \in Conns,
             events'[i].kind = "DISCONNECTED", events'[i].fd = fd'[c]
      PROVE  flushes[c] = 0
  <2>1. CASE i \in 1..Len(events) /\ events'[i] = events[i]
    BY <1>5, <2>1 DEF OnceInv, ToldOnce
  <2>2. CASE events'[i] = e
    BY <1>5, <2>2
  <2> QED BY <1>3, <2>1, <2>2
<1>6. FlushedOnce'
  BY DEF OnceInv, FlushedOnce
<1> QED
  BY <1>4, <1>5, <1>6 DEF OnceInv, ToldOnce

LEMMA ConnectOnce ==
    ASSUME IInv, OnceInv, NEW c \in Conns, NEW f \in Fds, Connect(c, f)
    PROVE  OnceInv'
<1> DEFINE e == Event("ACCEPTED", f)
<1>1. /\ fd[c] = NoFd
      /\ fd' = [fd EXCEPT ![c] = f]
      /\ events' = Append(events, e)
      /\ UNCHANGED flushes
  BY DEF Connect, monitorVars
<1>2. e \in [kind : Kinds, fd : Fds] /\ e.kind # "DISCONNECTED"
  BY DEF Event, Kinds
<1>3. flushes[c] = 0
  BY <1>1, NoFdAssumption DEF IInv, TypeOK, Opened
<1>4. \A d \in Conns : fd'[d] = fd[d] \/ flushes[d] = 0
  BY <1>1, <1>3 DEF IInv, TypeOK
<1> HIDE DEF e
<1> QED
  BY <1>1, <1>2, <1>4, AppendOnce

\* A connection closes once, so no other disconnection of its descriptor waits.
LEMMA DisconnectOnce ==
    ASSUME IInv, OnceInv, NEW c \in Conns, Disconnect(c)
    PROVE  OnceInv'
<1> DEFINE e == Event("DISCONNECTED", fd[c])
<1>1. /\ c \in live
      /\ fd[c] \in Fds
      /\ events' = Append(events, e)
      /\ UNCHANGED <<fd, flushes>>
  BY DEF Disconnect, monitorVars, IInv, Opened
<1>2. e \in [kind : Kinds, fd : Fds] /\ e.fd = fd[c]
  BY <1>1 DEF Event, Kinds
<1>3. \A d \in Conns : fd[d] = fd[c] => d = c
  BY <1>1, NoFdAssumption DEF IInv, OneUser
<1>4. \A i \in 1..Len(events) :
        ~ (events[i].kind = "DISCONNECTED" /\ events[i].fd = e.fd)
  BY <1>1, <1>2, <1>3 DEF IInv, EventsTell
<1>5. flushes[c] = 0
  BY <1>1 DEF IInv, TypeOK, NeverFlushesLive
<1>6. \A d \in Conns : fd'[d] = e.fd => flushes[d] = 0
  BY <1>1, <1>2, <1>3, <1>5
<1> HIDE DEF e
<1> QED
  BY <1>1, <1>2, <1>4, <1>6, AppendOnce

\* The queue of events loses its head.
LEMMA TailOnce ==
    ASSUME IInv, OnceInv, NEW kind \in Kinds, ReadEvent(kind), UNCHANGED <<fd, flushes>>
    PROVE  OnceInv'
<1>1. \A i \in 1..Len(events') :
        i + 1 \in 1..Len(events) /\ events'[i] = events[i + 1]
  BY ReadEventFacts DEF IInv
<1>2. ASSUME NEW i \in 1..Len(events'), NEW j \in 1..Len(events'),
             events'[i].kind = "DISCONNECTED", events'[j].kind = "DISCONNECTED",
             events'[i].fd = events'[j].fd
      PROVE  i = j
  <2>1. i + 1 = j + 1
    BY <1>1, <1>2 DEF OnceInv, ToldOnce
  <2> QED BY <2>1
<1>3. ASSUME NEW i \in 1..Len(events'), NEW c \in Conns,
             events'[i].kind = "DISCONNECTED", events'[i].fd = fd[c]
      PROVE  flushes[c] = 0
  BY <1>1, <1>3 DEF OnceInv, ToldOnce
<1> QED
  BY <1>2, <1>3 DEF OnceInv, ToldOnce, FlushedOnce

\* The disconnection that is read is the only one of its descriptor, so the
\* client it flushes was not flushed before and is not named by another.
LEMMA MonitorDisconnectedOnce ==
    ASSUME SoundDescriptors, IInv, OnceInv, MonitorDisconnected
    PROVE  OnceInv'
<1> DEFINE f == Head(events).fd
           k == genKey(f)
           c == connected[k]
<1>1. /\ ReadEvent("DISCONNECTED")
      /\ "DISCONNECTED" \in Kinds
      /\ UNCHANGED fd
      /\ \/ UNCHANGED flushes
         \/ c # NoConn /\ flushes' = [flushes EXCEPT ![c] = flushes[c] + 1]
  BY DEF MonitorDisconnected, FlushSession, Kinds, osVars
<1>2. CASE UNCHANGED flushes
  BY <1>1, <1>2, TailOnce
<1>3. CASE c # NoConn /\ flushes' = [flushes EXCEPT ![c] = flushes[c] + 1]
  <2>1. /\ f \in Fds
        /\ Head(events).kind = "DISCONNECTED"
        /\ \A i \in 1..Len(events') :
             i + 1 \in 1..Len(events) /\ events'[i] = events[i + 1]
    BY <1>1, ReadEventFacts DEF IInv
  <2>2. 1 \in 1..Len(events) /\ Head(events) = events[1]
    <3>1. events \in Seq([kind : Kinds, fd : Fds]) /\ events # <<>>
      BY <1>1 DEF IInv, TypeOK, ReadEvent
    <3> QED BY <3>1, LenProperties, EmptySeq
  <2>3. k \in Keys /\ k = FdKey[f]
    BY <2>1, KeyInKeys
  <2>4. c \in Conns /\ fd[c] = f
    <3>1. c \in Conns /\ fd[c] \in Fds /\ FdKey[fd[c]] = k
      BY <1>3, <2>3 DEF IInv, TypeOK, TableTells
    <3> QED BY <2>1, <2>3, <3>1 DEF SoundDescriptors
  <2>5. flushes[c] = 0
    BY <2>1, <2>2, <2>4 DEF OnceInv, ToldOnce
  <2>6. ASSUME NEW i \in 1..Len(events'),
               events'[i].kind = "DISCONNECTED", events'[i].fd = f
        PROVE  FALSE
    <3>1. i + 1 = 1
      BY <2>1, <2>2, <2>6 DEF OnceInv, ToldOnce
    <3> QED BY <3>1
  <2> HIDE DEF c, f, k
  <2>7. \A d \in Conns : d # c => flushes'[d] = flushes[d]
    BY <1>3, <2>4 DEF IInv, TypeOK
  <2>8. flushes'[c] = 1
    BY <1>3, <2>4, <2>5 DEF IInv, TypeOK
  <2>9. ASSUME NEW i \in 1..Len(events'), NEW j \in 1..Len(events'),
               events'[i].kind = "DISCONNECTED", events'[j].kind = "DISCONNECTED",
               events'[i].fd = events'[j].fd
        PROVE  i = j
    <3>1. i + 1 = j + 1
      BY <2>1, <2>9 DEF OnceInv, ToldOnce
    <3> QED BY <3>1
  <2>10. ASSUME NEW i \in 1..Len(events'), NEW d \in Conns,
                events'[i].kind = "DISCONNECTED", events'[i].fd = fd'[d]
         PROVE  flushes'[d] = 0
    <3>1. d # c
      BY <1>1, <2>4, <2>6, <2>10
    <3>2. flushes[d] = 0
      BY <1>1, <2>1, <2>10 DEF OnceInv, ToldOnce
    <3> QED BY <2>7, <3>1, <3>2
  <2>11. FlushedOnce'
    BY <2>7, <2>8 DEF OnceInv, FlushedOnce
  <2> QED BY <2>9, <2>10, <2>11 DEF OnceInv, ToldOnce
<1> QED
  BY <1>1, <1>2, <1>3

LEMMA NextOnce ==
    ASSUME SoundDescriptors, IInv, OnceInv, [Next]_vars
    PROVE  OnceInv'
<1>1. ASSUME NEW c \in Conns, NEW f \in Fds, Connect(c, f) PROVE OnceInv'
  BY <1>1, ConnectOnce
<1>2. ASSUME NEW c \in Conns, Disconnect(c) PROVE OnceInv'
  BY <1>2, DisconnectOnce
<1>3. CASE MonitorAccepted
  BY <1>3, TailOnce DEF MonitorAccepted, Kinds, osVars, monitorVars
<1>4. CASE MonitorDisconnected
  BY <1>4, MonitorDisconnectedOnce
<1>5. CASE UNCHANGED <<fd, events, flushes>>
  BY <1>5 DEF OnceInv, ToldOnce, FlushedOnce
<1>6. ASSUME NEW c \in Conns, SendPacket(c) \/ InformMonitor(c) \/ DiscardPacket(c)
      PROVE  UNCHANGED <<fd, events, flushes>>
  BY <1>6 DEF SendPacket, InformMonitor, DiscardPacket, osVars, monitorVars
<1>7. MonitorAddFd \/ UNCHANGED vars => UNCHANGED <<fd, events, flushes>>
  BY DEF MonitorAddFd, vars, osVars, monitorVars
<1> QED
  BY <1>1, <1>2, <1>3, <1>4, <1>5, <1>6, <1>7 DEF Next

\* With distinct keys and fresh descriptors the session of a connection is
\* flushed at most once, however often it is registered.
THEOREM NeverFlushedTwice == SoundDescriptors /\ Spec => []FlushedOnce
<1>1. Init => OnceInv
  BY DEF Init, OnceInv, ToldOnce, FlushedOnce
<1>2. OnceInv => FlushedOnce
  BY DEF OnceInv
<1>3. SoundDescriptors => []SoundDescriptors
  <2>1. SoundDescriptors => SoundDescriptors'
    BY DEF SoundDescriptors
  <2> QED
    BY <2>1, PTL
<1>4. SoundDescriptors /\ IInv /\ OnceInv /\ [Next]_vars => OnceInv'
  BY NextOnce
<1> QED
  BY <1>1, <1>2, <1>3, <1>4, InitInv, NextInv, PTL DEF Spec

\* A client whose flush is due
LEMMA StepDue ==
    ASSUME SoundDescriptors, IInv, [Next]_vars, NEW c \in Conns, Due(c)
    PROVE  Due(c)' \/ flushes'[c] = flushes[c] + 1
<1> DEFINE e == Event("DISCONNECTED", fd[c])
           k == genKey(fd[c])
<1>1. /\ fd[c] \in Fds
      /\ k \in Keys /\ connected[k] = c
      /\ e.kind = "DISCONNECTED" /\ e.fd = fd[c]
  BY KeyInKeys DEF Due, IInv, TypeOK, Event
<1>2. PICK i \in 1..Len(events) : events[i] = e
  BY DEF Due
<1>3. events \in Seq([kind : Kinds, fd : Fds]) /\ Len(events) \in Nat
  BY LenProperties DEF IInv, TypeOK
<1>4. ASSUME fd'[c] = fd[c], connected'[k] = c,
             \E j \in 1..Len(events') : events'[j] = e
      PROVE  Due(c)'
  BY <1>1, <1>4, NoFdAssumption DEF Due, genKey
<1>5. ASSUME NEW m \in [kind : Kinds, fd : Fds], events' = Append(events, m)
      PROVE  \E j \in 1..Len(events') : events'[j] = e
  <2>1. i \in 1..Len(events') /\ events'[i] = events[i]
    BY <1>3, <1>5, AppendProperties
  <2> QED BY <1>2, <2>1
<1>6. ASSUME events # <<>>, events' = Tail(events), Head(events) # e
      PROVE  \E j \in 1..Len(events') : events'[j] = e
  <2>1. /\ Len(events') = Len(events) - 1
        /\ \A j \in 1..Len(events') : events'[j] = events[j + 1]
    BY <1>3, <1>6, HeadTailProperties
  <2>2. i # 1
    BY <1>2, <1>6
  <2>3. i - 1 \in 1..Len(events') /\ events'[i - 1] = events[i]
    BY <1>3, <2>1, <2>2
  <2> QED BY <1>2, <2>3
<1> HIDE DEF e
<1>7. ASSUME NEW d \in Conns, NEW f \in Fds, Connect(d, f) PROVE Due(c)'
  <2>1. /\ fd' = [fd EXCEPT ![d] = f] /\ fd[d] = NoFd
        /\ events' = Append(events, Event("ACCEPTED", f))
        /\ UNCHANGED connected
    BY <1>7 DEF Connect, monitorVars
  <2>2. Event("ACCEPTED", f) \in [kind : Kinds, fd : Fds]
    BY DEF Event, Kinds
  <2>3. fd'[c] = fd[c]
    BY <1>1, <2>1, NoFdAssumption DEF IInv, TypeOK
  <2> QED BY <1>1, <1>4, <1>5, <2>1, <2>2, <2>3
<1>8. ASSUME NEW d \in Conns, Disconnect(d) PROVE Due(c)'
  <2>1. /\ UNCHANGED <<fd, connected>>
        /\ events' = Append(events, Event("DISCONNECTED", fd[d]))
        /\ fd[d] \in Fds
    BY <1>8 DEF Disconnect, monitorVars, IInv, Opened
  <2>2. Event("DISCONNECTED", fd[d]) \in [kind : Kinds, fd : Fds]
    BY <2>1 DEF Event, Kinds
  <2> QED BY <1>1, <1>4, <1>5, <2>1, <2>2
<1>9. CASE MonitorAccepted
  <2>1. /\ events # <<>> /\ events' = Tail(events)
        /\ Head(events).kind = "ACCEPTED"
        /\ UNCHANGED <<fd, connected>>
    BY <1>9 DEF MonitorAccepted, ReadEvent, osVars, monitorVars
  <2>2. Head(events) # e
    BY <1>1, <2>1
  <2> QED BY <1>1, <1>4, <1>6, <2>1, <2>2
<1>10. CASE MonitorDisconnected
  <2> DEFINE h == genKey(Head(events).fd)
  <2>1. /\ ReadEvent("DISCONNECTED") /\ "DISCONNECTED" \in Kinds
        /\ events # <<>> /\ events' = Tail(events)
        /\ UNCHANGED fd
        /\ \/ connected[h] = NoConn /\ UNCHANGED connected
           \/ /\ connected[h] # NoConn
              /\ flushes' = [flushes EXCEPT ![connected[h]] = flushes[connected[h]] + 1]
              /\ connected' = [connected EXCEPT ![h] = NoConn]
    BY <1>10 DEF MonitorDisconnected, ReadEvent, FlushSession, Kinds, osVars
  <2>2. Head(events) \in [kind : Kinds, fd : Fds]
    BY <1>3, <2>1, HeadTailProperties
  <2>3. h \in Keys
    BY <2>2, KeyInKeys
  <2>4. CASE h = k
    BY <1>1, <2>1, <2>4, NoConnAssumption DEF IInv, TypeOK
  <2>5. CASE h # k
    <3>1. Head(events) # e
      BY <1>1, <2>5
    <3>2. connected'[k] = c
      BY <1>1, <2>1, <2>3, <2>5 DEF IInv, TypeOK
    <3> QED BY <1>4, <1>6, <2>1, <3>1, <3>2
  <2> QED BY <2>4, <2>5
<1>11. CASE MonitorAddFd
  <2> DEFINE h == genKey(Head(adds).fd)
  <2>1. /\ UNCHANGED <<fd, events>>
        /\ \/ UNCHANGED connected
           \/ /\ connected[h] = NoConn
              /\ connected' = [connected EXCEPT ![h] = Head(adds).conn]
    BY <1>11 DEF MonitorAddFd, Remember, osVars
  <2>2. connected'[k] = c
    BY <1>1, <2>1, NoConnAssumption DEF IInv, TypeOK
  <2> QED BY <1>2, <1>4, <2>1, <2>2
<1>12. ASSUME UNCHANGED <<fd, events, connected>> PROVE Due(c)'
  BY <1>1, <1>2, <1>4, <1>12
<1>13. ASSUME NEW d \in Conns, SendPacket(d) \/ InformMonitor(d) \/ DiscardPacket(d)
       PROVE  UNCHANGED <<fd, events, connected>>
  BY <1>13 DEF SendPacket, InformMonitor, DiscardPacket, osVars, monitorVars
<1>14. UNCHANGED vars => UNCHANGED <<fd, events, connected>>
  BY DEF vars, osVars, monitorVars
<1> QED
  BY <1>7, <1>8, <1>9, <1>10, <1>11, <1>12, <1>13, <1>14 DEF Next

\* The safety half of KnownClientIsFlushed: a flush that is due stays due until
\* it happens; neither another client's messages nor its own take it away.
THEOREM DueUntilFlushed ==
    SoundDescriptors /\ Spec
        => [][\A c \in Conns : Due(c) => Due(c)' \/ flushes'[c] = flushes[c] + 1]_vars
<1>1. SoundDescriptors => []SoundDescriptors
  <2>1. SoundDescriptors => SoundDescriptors'
    BY DEF SoundDescriptors
  <2> QED
    BY <2>1, PTL
<1>2. SoundDescriptors /\ IInv /\ [Next]_vars
        => [\A c \in Conns : Due(c) => Due(c)' \/ flushes'[c] = flushes[c] + 1]_vars
  BY StepDue
<1> QED
  BY <1>1, <1>2, InitInv, NextInv, PTL DEF Spec
=============================================================================
