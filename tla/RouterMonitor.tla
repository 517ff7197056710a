--------------------------- MODULE RouterMonitor ---------------------------
(***************************************************************************)
(* The monitor of a Router (Common/Server/RouterMonitor.c): it remembers   *)
(* which client uses which file descriptor and flushes the session of a    *)
(* client that disconnects.                                                *)
(*                                                                         *)
(* It learns about descriptors from two queues that are not ordered with   *)
(* respect to each other: the socket events of the frontend, which carry   *)
(* only a descriptor, and the ADD_FD messages of Router_frontend, which    *)
(* carry the descriptor and the identity of a client that sent a packet.   *)
(* The operating system gives the descriptor of a closed socket to a later *)
(* one if Reuse is TRUE.                                                   *)
(***************************************************************************)
EXTENDS Naturals, Sequences

CONSTANTS
    Conns,       \* the connections, each with an identity of its own
    NoConn,
    Fds,         \* the file descriptors
    NoFd,
    FdKey,       \* FdKey[f]: the text RouterMonitor_genKey makes of f
    Reuse,       \* may a descriptor be used by two connections in turn?
    MaxPackets   \* bound: packets each connection sends

ASSUME NoConnAssumption == NoConn \notin Conns
ASSUME NoFdAssumption == NoFd \notin Fds
ASSUME FdKeyAssumption == DOMAIN FdKey = Fds
ASSUME ReuseAssumption == Reuse \in BOOLEAN
ASSUME MaxPacketsAssumption == MaxPackets \in Nat

VARIABLES
    fd,         \* fd[c]: the descriptor of c, kept when c has closed
    live,       \* the open connections
    packets,    \* packets[c]: packets c has sent
    read,       \* read[c]: those the Router has read
    events,     \* socket events the monitor has not read
    adds,       \* ADD_FD messages the monitor has not read
    connected,  \* the monitor's hashtable
    running,    \* the monitor's reactor runs
    flushes     \* flushes[c]: how often the session of c was flushed

osVars == <<fd, live, packets>>
monitorVars == <<connected, running, flushes>>
vars == <<osVars, read, events, adds, monitorVars>>

\* MUTANT of genKey: all descriptors get the same key.
genKey_Constant(f) == FdKey[CHOOSE g \in Fds : TRUE]

genKey(f) == FdKey[f]

Keys == {FdKey[f] : f \in Fds}

Kinds == {"ACCEPTED", "DISCONNECTED"}
Event(kind, f) == [kind |-> kind, fd |-> f]

\* The Router reads the descriptor of c as eight bytes from the buffer of the
\* identity (Router.c:511-514): that is the descriptor where it has eight bytes,
\* as on Windows.  Where it has four, bytes of the identity come along, which is
\* left out.
AddFd(f, c) == [fd |-> f, conn |-> c]

Init ==
    /\ fd = [c \in Conns |-> NoFd]
    /\ live = {}
    /\ packets = [c \in Conns |-> 0]
    /\ read = [c \in Conns |-> 0]
    /\ events = <<>>
    /\ adds = <<>>
    /\ connected = [k \in Keys |-> NoConn]
    /\ running = TRUE
    /\ flushes = [c \in Conns |-> 0]

(***************************************************************************)
(* The clients and the operating system                                    *)
(***************************************************************************)

\* f is not the descriptor of an open connection, and a new one if
\* descriptors are not used again.
Free(f) == \A c \in Conns : fd[c] = f => Reuse /\ c \notin live

Connect(c, f) ==
    /\ fd[c] = NoFd
    /\ Free(f)
    /\ fd' = [fd EXCEPT ![c] = f]
    /\ live' = live \cup {c}
    /\ events' = Append(events, Event("ACCEPTED", f))
    /\ UNCHANGED <<packets, read, adds, monitorVars>>

SendPacket(c) ==
    /\ c \in live
    /\ packets[c] < MaxPackets
    /\ packets' = [packets EXCEPT ![c] = @ + 1]
    /\ UNCHANGED <<fd, live, read, events, adds, monitorVars>>

Disconnect(c) ==
    /\ c \in live
    /\ live' = live \ {c}
    /\ events' = Append(events, Event("DISCONNECTED", fd[c]))
    /\ UNCHANGED <<fd, packets, read, adds, monitorVars>>

(***************************************************************************)
(* The Router                                                              *)
(***************************************************************************)

\* Router_informMonitor, once for each packet.
InformMonitor(c) ==
    /\ read[c] < packets[c]
    /\ read' = [read EXCEPT ![c] = @ + 1]
    /\ adds' = Append(adds, AddFd(fd[c], c))
    /\ UNCHANGED <<osVars, events, monitorVars>>

\* The frontend cannot tell the descriptor of a closed connection any more.
DiscardPacket(c) ==
    /\ read[c] < packets[c]
    /\ c \notin live
    /\ read' = [read EXCEPT ![c] = @ + 1]
    /\ UNCHANGED <<osVars, events, adds, monitorVars>>

(***************************************************************************)
(* The monitor                                                             *)
(***************************************************************************)

ReadEvent(kind) ==
    /\ running
    /\ events # <<>>
    /\ Head(events).kind = kind
    /\ events' = Tail(events)

\* A known descriptor is only reported.
MonitorAccepted ==
    /\ ReadEvent("ACCEPTED")
    /\ UNCHANGED <<osVars, read, adds, monitorVars>>

\* Redis_flushSession for the client of the table
FlushSession(c) == flushes' = [flushes EXCEPT ![c] = @ + 1]

\* MUTANT of MonitorDisconnected: the entry is removed but not flushed.
MonitorDisconnected_ForgetsFlush ==
    /\ ReadEvent("DISCONNECTED")
    /\ connected' = [connected EXCEPT ![genKey(Head(events).fd)] = NoConn]
    /\ UNCHANGED <<osVars, read, adds, running, flushes>>

MonitorDisconnected ==
    LET k == genKey(Head(events).fd)
    IN /\ ReadEvent("DISCONNECTED")
       /\ \/ /\ connected[k] = NoConn
             /\ UNCHANGED <<connected, flushes>>
          \/ /\ connected[k] # NoConn
             /\ FlushSession(connected[k])
             /\ connected' = [connected EXCEPT ![k] = NoConn]
       /\ UNCHANGED <<osVars, read, adds, running>>

\* MUTANT of Remember: the message's frames are taken in the wrong order.
Remember_WrongFrame(m) == connected' = [connected EXCEPT ![genKey(m.fd)] = m.fd]

Remember(m) == connected' = [connected EXCEPT ![genKey(m.fd)] = m.conn]

\* RouterMonitor_subscribe, ROUTER_MONITOR_ADD_FD: if the descriptor belongs to
\* another client the handler fails and the reactor ends.
MonitorAddFd ==
    LET m == Head(adds)
        known == connected[genKey(m.fd)]
    IN /\ running
       /\ adds # <<>>
       /\ adds' = Tail(adds)
       /\ \/ /\ known = NoConn
             /\ Remember(m)
             /\ UNCHANGED running
          \/ /\ known = m.conn
             /\ UNCHANGED <<connected, running>>
          \/ /\ known \notin {NoConn, m.conn}
             /\ running' = FALSE
             /\ UNCHANGED connected
       /\ UNCHANGED <<osVars, read, events, flushes>>

(***************************************************************************)
(* Specification                                                           *)
(***************************************************************************)
Next ==
    \/ \E c \in Conns :
         \/ \E f \in Fds : Connect(c, f)
         \/ SendPacket(c)
         \/ Disconnect(c)
         \/ InformMonitor(c)
         \/ DiscardPacket(c)
    \/ MonitorAccepted
    \/ MonitorDisconnected
    \/ MonitorAddFd

\* zloop serves every reader that has a message.
Fairness == WF_vars(MonitorAccepted \/ MonitorDisconnected) /\ WF_vars(MonitorAddFd)

Spec == Init /\ [][Next]_vars
FairSpec == Spec /\ Fairness

(***************************************************************************)
(* Properties                                                              *)
(***************************************************************************)

\* Every variable keeps its type: the hashtable holds identities of clients.
TypeOK ==
    /\ fd \in [Conns -> Fds \cup {NoFd}]
    /\ live \subseteq Conns
    /\ packets \in [Conns -> 0..MaxPackets]
    /\ read \in [Conns -> 0..MaxPackets]
    /\ events \in Seq([kind : Kinds, fd : Fds])
    /\ adds \in Seq([fd : Fds, conn : Conns])
    /\ connected \in [Keys -> Conns \cup {NoConn}]
    /\ running \in BOOLEAN
    /\ flushes \in [Conns -> Nat]

\* The monitor flushes the session of a client that has disconnected, never
\* that of a client that is still connected.
NeverFlushesLive == \A c \in Conns : flushes[c] > 0 => c \notin live

\* The reactor of the monitor never ends because a descriptor changed its
\* identity, so sessions go on being flushed.
MonitorSurvives == running

\* The monitor flushes the session of a connection once: an ADD_FD that is read
\* after the disconnection leaves an entry that no later event flushes again.
FlushedOnce == \A c \in Conns : flushes[c] <= 1

\* The table has c under its descriptor and its disconnection waits to be read.
Due(c) ==
    /\ fd[c] # NoFd
    /\ connected[genKey(fd[c])] = c
    /\ \E i \in 1..Len(events) : events[i] = Event("DISCONNECTED", fd[c])

\* A client the monitor knows and whose disconnection it has yet to read is
\* flushed: the message is not lost and the table still names the client.
KnownClientIsFlushed == \A c \in Conns : Due(c) ~> flushes[c] > 0
=============================================================================
