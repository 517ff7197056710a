--------------------------- MODULE ClientMessage ---------------------------
(***************************************************************************)
(* How a worker of the barrack server deals with the messages of one       *)
(* client (Worker_processClientPacket): it reads the session once, runs    *)
(* the handler of every sub-packet of the message on its copy, writes the  *)
(* copy back after the handlers that changed it, and answers with          *)
(* everything the handlers have put into the reply, or with an error the   *)
(* Router keeps from the client.                                           *)
(*                                                                         *)
(* Redis may become unreachable between any two commands.  A worker never  *)
(* connects again, so from then on every command of it fails.              *)
(*                                                                         *)
(* The client logs in before it sends anything else.  Once it was allowed  *)
(* to start the game it goes to the zone server, but nothing keeps it from *)
(* sending further messages to the barrack and logging in again there.     *)
(***************************************************************************)
EXTENDS Naturals, Sequences

CONSTANTS
    Words,         \* words of names, none of them the name of a Redis field
    Names,         \* the names a client may ask for: sequences of words
    Placeholder,   \* REDIS_EMPTY_STRING
    Printable,     \* the names of printable characters only
    Jobs,          \* the jobs of commanders
    NoJob,         \* the job of a session without a commander
    Accounts,      \* the accounts that logins generate, in any order
    NoAccount,     \* SOCKET_SESSION_UNDEFINED_ACCOUNT
    Absent,        \* a key or a field that does not exist
    Unknown,       \* what an answer does not tell
    CountLimit,    \* 2^8: charactersCreatedCount is an uint8_t
    StartGameLast, \* nothing follows an accepted CB_START_GAME in its message
    MaxPackets     \* bound: sub-packets of a message

EmptyName == <<>>
Texts == {<<w>> : w \in Words}
AllNames == Names \cup Texts \cup {EmptyName}
Counts == 0..(CountLimit - 1)

\* What is stored under the key of a game session: its names are single words.
Games == [count : Counts, name : Texts, family : Texts \cup {Absent},
          job : Jobs \cup {NoJob}]
Sockets == [account : Accounts \cup {NoAccount}, authenticated : BOOLEAN]

\* The worker's copy of a game session, and what it has told the client
Copies == [count : Counts, name : AllNames, family : AllNames, job : Jobs \cup {NoJob}]
Replies == [count : Counts \cup {Unknown}, name : AllNames \cup {Unknown},
            family : AllNames \cup {Unknown}, started : BOOLEAN]

ASSUME NamesAssumption ==
    /\ Placeholder \in Words
    /\ Names \subseteq Seq(Words)
    /\ Printable \subseteq Names
ASSUME NoneAssumption ==
    /\ NoAccount \notin Accounts
    /\ NoJob \notin Jobs
    /\ Absent \notin Games /\ Absent \notin Sockets /\ Absent \notin Texts
    /\ Unknown \notin AllNames /\ Unknown \notin Counts
ASSUME CountLimitAssumption == CountLimit \in Nat \ {0}
ASSUME StartGameLastAssumption == StartGameLast \in BOOLEAN
ASSUME MaxPacketsAssumption == MaxPackets \in Nat \ {0}

VARIABLES
    \* --- Redis
    reachable,  \* whether the worker still has its connection
    socket,     \* the socket session of the client
    game,       \* game[a]: the game session of account a at the barrack
    transit,    \* transit[a]: the game session of a on its way to a zone
    \* --- the worker
    phase,      \* "idle", "working" or "replying"
    session,    \* its copy of the socket session
    copy,       \* its copy of the game session
    header,     \* header of the reply: "none", "normal" or "error"
    reply,      \* what the handlers have told the client in this message
    processed   \* sub-packets processed so far

redisVars == <<reachable, socket, game, transit>>
vars == <<redisVars, phase, session, copy, header, reply, processed>>

NewSocket == [account |-> NoAccount, authenticated |-> FALSE]
NewGame == [count |-> 0, name |-> EmptyName, family |-> EmptyName, job |-> NoJob]
NewReply == [count |-> Unknown, name |-> Unknown, family |-> Unknown,
             started |-> FALSE]

Init ==
    /\ reachable = TRUE
    /\ socket = Absent
    /\ game = [a \in Accounts |-> Absent]
    /\ transit = [a \in Accounts |-> Absent]
    /\ phase = "idle"
    /\ session = NewSocket
    /\ copy = NewGame
    /\ header = "none"
    /\ reply = NewReply
    /\ processed = 0

(***************************************************************************)
(* Redis_updateGameSession formats one HMSET command, which is split at    *)
(* its blanks: a name of several words becomes several arguments, and      *)
(* every argument at an odd place is taken for the name of a field.        *)
(***************************************************************************)

\* CHECK_REDIS_EMPTY_STRING and the arguments a name becomes
Arguments(name) == IF name = EmptyName THEN <<Placeholder>> ELSE name

\* HMSET with an odd number of arguments is an error.
Accepted(g) == (Len(Arguments(g.name)) + Len(Arguments(g.family))) % 2 = 0

\* A value is the first argument after the name of its field.  The name of the
\* family field is no name of a field if an even number of words precedes it;
\* then the field keeps its value.
FirstWord(name) == <<Head(Arguments(name))>>
OldFamily(old) == IF old = Absent THEN Absent ELSE old.family

Hmset(old, g) ==
    [count |-> g.count,
     name |-> FirstWord(g.name),
     family |-> IF Len(Arguments(g.name)) % 2 = 1 THEN FirstWord(g.family)
                ELSE OldFamily(old),
     job |-> g.job]

(***************************************************************************)
(* The beginning of a message: Redis_getSession                            *)
(***************************************************************************)
Complete(g) == g # Absent /\ g.family # Absent

\* Nothing of a new connection is in Redis: its socket session is created.
Welcome ==
    /\ socket = Absent
    /\ socket' = NewSocket
    /\ session' = NewSocket
    /\ copy' = NewGame

\* Sessions that did not log in yet start from an empty game session.
WelcomeAgain ==
    /\ socket # Absent
    /\ ~ socket.authenticated
    /\ session' = socket
    /\ copy' = NewGame
    /\ UNCHANGED socket

WelcomeBack ==
    /\ socket # Absent
    /\ socket.authenticated
    /\ Complete(game[socket.account])
    /\ session' = socket
    /\ copy' = game[socket.account]
    /\ UNCHANGED socket

\* The session is read and the message considered "normal".
Receive ==
    /\ phase = "idle"
    /\ reachable
    /\ Welcome \/ WelcomeAgain \/ WelcomeBack
    /\ phase' = "working"
    /\ header' = "normal"
    /\ reply' = NewReply
    /\ processed' = 0
    /\ UNCHANGED <<reachable, game, transit>>

\* Redis does not answer or does not have the whole game session: the worker
\* sends back what it was sent, without a header.
ReceiveFails ==
    /\ phase = "idle"
    /\ \/ reachable' = FALSE
       \/ /\ UNCHANGED reachable
          /\ socket # Absent
          /\ socket.authenticated
          /\ ~ Complete(game[socket.account])
    /\ phase' = "replying"
    /\ header' = "none"
    /\ reply' = NewReply
    /\ UNCHANGED <<socket, game, transit, session, copy, processed>>

(***************************************************************************)
(* What Worker_processOneRequest does with the result of a handler         *)
(***************************************************************************)

\* MUTANT of HandlerError: the loop goes on with the next sub-packet.
HandlerError_GoesOn(g) ==
    /\ copy' = g
    /\ UNCHANGED <<phase, header, redisVars, session, reply>>

\* PACKET_HANDLER_ERROR, with what the handler had changed so far
HandlerError(g) ==
    /\ copy' = g
    /\ header' = "error"
    /\ phase' = "replying"
    /\ UNCHANGED <<redisVars, session, reply>>

\* PACKET_HANDLER_OK
HandlerOk == UNCHANGED <<redisVars, phase, session, copy, header, reply>>

\* MUTANT of Update: a refused command does not end the loop.
Update_GoesOn(s, g) ==
    /\ reachable
    /\ socket' = s
    /\ game' = IF Accepted(g)
               THEN [game EXCEPT ![s.account] = Hmset(@, g)] ELSE game
    /\ UNCHANGED <<reachable, phase>>

\* Redis_updateSession: the socket session and then the game session.  Neither,
\* the first or both may be written; what is not written ends the loop, but the
\* answer of the handler remains in the reply.
Update(s, g) ==
    \/ /\ reachable
       /\ Accepted(g)
       /\ socket' = s
       /\ game' = [game EXCEPT ![s.account] = Hmset(@, g)]
       /\ UNCHANGED <<reachable, phase>>
    \/ /\ reachable
       /\ \/ ~ Accepted(g) /\ UNCHANGED reachable
          \/ reachable' = FALSE
       /\ socket' = s
       /\ phase' = "replying"
       /\ UNCHANGED game
    \/ /\ reachable' = FALSE
       /\ phase' = "replying"
       /\ UNCHANGED <<socket, game>>

\* PACKET_HANDLER_UPDATE_SESSION, with answer r
UpdateSession(s, g, r) ==
    /\ session' = s
    /\ copy' = g
    /\ reply' = r
    /\ Update(s, g)
    /\ UNCHANGED <<transit, header>>

\* Redis_flushSession: the game session the socket session names, then the
\* socket session.  g is the game sessions before.
Flush(g) ==
    \/ /\ UNCHANGED <<reachable, phase>>
       /\ game' = [g EXCEPT ![socket.account] = Absent]
       /\ socket' = Absent
    \/ /\ reachable' = FALSE
       /\ phase' = "replying"
       /\ game' \in {g, [g EXCEPT ![socket.account] = Absent]}
       /\ UNCHANGED socket

(***************************************************************************)
(* The handlers                                                            *)
(***************************************************************************)

\* BarrackHandler_login and BarrackHandler_loginByPassport: every login gets
\* an account of its own.
Login(a) ==
    /\ game[a] = Absent /\ transit[a] = Absent
    /\ a # session.account
    /\ UpdateSession([account |-> a, authenticated |-> TRUE], copy, reply)

\* BarrackHandler_startBarrack and BarrackHandler_currentBarrack
StartBarrack == HandlerOk

\* MUTANT of BarracknameChange: PACKET_HANDLER_OK.
BarracknameChange_NotSaved(name) ==
    /\ name # EmptyName /\ name \in Printable
    /\ copy' = [copy EXCEPT !.family = name]
    /\ reply' = [reply EXCEPT !.family = name]
    /\ UNCHANGED <<redisVars, phase, session, header>>

\* BarrackHandler_barracknameChange
BarracknameChange(name) ==
    \/ /\ name = EmptyName \/ name \notin Printable
       /\ HandlerError(copy)
    \/ /\ name # EmptyName /\ name \in Printable
       /\ UpdateSession(session, [copy EXCEPT !.family = name],
                        [reply EXCEPT !.family = name])

\* MUTANT of CountOneMore: a count that is wider than its field.
CountOneMore_Wide(count) == count + 1

CountOneMore(count) == (count + 1) % CountLimit

\* BarrackHandler_commanderCreate.  The name is in the session before the job
\* is validated, and both before the gender is.
CommanderCreate(name, job, validGender) ==
    LET named == [copy EXCEPT !.name = name]
        employed == [named EXCEPT !.job = job]
        created == [employed EXCEPT !.count = CountOneMore(@)]
    IN \/ job = NoJob /\ HandlerError(named)
       \/ job # NoJob /\ ~ validGender /\ HandlerError(employed)
       \/ /\ job # NoJob /\ validGender
          /\ UpdateSession(session, created,
                 [reply EXCEPT !.count = created.count, !.name = name,
                               !.family = copy.family])

\* BarrackHandler_commanderDestroy: all of them
CommanderDestroy ==
    UpdateSession(session, [copy EXCEPT !.count = 0], [reply EXCEPT !.count = 0])

\* BarrackHandler_commanderMove: the position is not among the fields here.
CommanderMove == UpdateSession(session, copy, reply)

\* MUTANT of StartGame: PACKET_HANDLER_UPDATE_SESSION.
StartGame_Updates(validRouter) ==
    /\ validRouter
    /\ game[session.account] # Absent
    /\ reachable
    /\ transit' = [transit EXCEPT ![session.account] = game[session.account]]
    /\ reply' = [reply EXCEPT !.started = TRUE]
    /\ Update(session, copy)
    /\ UNCHANGED <<session, copy, header>>

\* BarrackHandler_startGame: once the game session is moved to the zone's key,
\* the client is told and the session deleted from the barrack.
StartGame(validRouter) ==
    LET a == session.account
    IN \/ /\ ~ validRouter \/ game[a] = Absent
          /\ HandlerError(copy)
       \/ /\ validRouter
          /\ reachable' = FALSE
          /\ header' = "error"
          /\ phase' = "replying"
          /\ UNCHANGED <<socket, game, transit, session, copy, reply>>
       \/ /\ validRouter
          /\ reachable
          /\ game[a] # Absent
          /\ transit' = [transit EXCEPT ![a] = game[a]]
          /\ reply' = [reply EXCEPT !.started = TRUE]
          /\ Flush([game EXCEPT ![a] = Absent])
          /\ UNCHANGED <<session, copy, header>>

\* The packet has a wrong size, an unknown type or no handler.
Reject == HandlerError(copy)

Handle ==
    \/ \E a \in Accounts : Login(a)
    \/ /\ session.authenticated
       /\ \/ StartBarrack
          \/ \E name \in Names : BarracknameChange(name)
          \/ \E name \in Names, job \in Jobs \cup {NoJob}, validGender \in BOOLEAN :
                CommanderCreate(name, job, validGender)
          \/ CommanderDestroy
          \/ CommanderMove
          \/ \E validRouter \in BOOLEAN : StartGame(validRouter)
    \/ Reject

\* The next sub-packet of the message.  The loop itself would also process what
\* follows an accepted CB_START_GAME: with StartGameLast the client, which waits
\* for the answer, sends nothing there.
Process ==
    /\ phase = "working"
    /\ processed < MaxPackets
    /\ StartGameLast => ~ reply.started
    /\ processed' = processed + 1
    /\ Handle

(***************************************************************************)
(* The end of a message                                                    *)
(***************************************************************************)

\* Nothing of the message remains, or what remains is not a whole sub-packet.
EndOfMessage ==
    /\ phase = "working"
    /\ phase' = "replying"
    /\ UNCHANGED <<redisVars, session, copy, header, reply, processed>>

\* The reply goes to the Router, which passes on a "normal" one only.
Reply ==
    /\ phase = "replying"
    /\ phase' = "idle"
    /\ UNCHANGED <<redisVars, session, copy, header, reply, processed>>

Next == Receive \/ ReceiveFails \/ Process \/ EndOfMessage \/ Reply

Spec == Init /\ [][Next]_vars

(***************************************************************************)
(* Properties                                                              *)
(***************************************************************************)
\* Every variable keeps its type; in particular a name in Redis is one word.
TypeOK ==
    /\ reachable \in BOOLEAN
    /\ socket \in Sockets \cup {Absent}
    /\ game \in [Accounts -> Games \cup {Absent}]
    /\ transit \in [Accounts -> Games \cup {Absent}]
    /\ phase \in {"idle", "working", "replying"}
    /\ session \in Sockets
    /\ copy \in Copies
    /\ header \in {"none", "normal", "error"}
    /\ reply \in Replies
    /\ processed \in 0..MaxPackets

\* Where the game session of the client is
Stored == IF reply.started THEN transit[session.account] ELSE game[session.account]

OneWord(name) == name = Unknown \/ Len(name) <= 1
TellsOfNames == OneWord(reply.name) /\ OneWord(reply.family)

\* What a message tells the client is what Redis has when the message is over,
\* whatever its later sub-packets did, as long as Redis answers and names are of
\* one word.
AnswerMatchesStore ==
    phase = "replying" /\ header = "normal" /\ reachable /\ TellsOfNames =>
        /\ reply.count # Unknown => Stored.count = reply.count
        /\ reply.name # Unknown => Stored.name = Arguments(reply.name)
        /\ reply.family # Unknown => Stored.family = Arguments(reply.family)
        /\ reply.started => Stored # Absent

\* Whatever a message contained, the next one finds its session: no sequence of
\* requests, refused ones included, locks an authenticated client out.
SessionIsReadable ==
    phase = "idle" /\ reachable /\ socket # Absent /\ socket.authenticated =>
        Complete(game[socket.account])

\* "We don't need the barrack session anymore": if nothing follows CB_START_GAME
\* in its message, the game session that is on its way to the zone stays away
\* from the barrack.  No later message brings it back: the client that goes on
\* at the barrack, and may log in there again, gets a socket session that names
\* another account or none.
LeftStaysLeft ==
    /\ \A a \in Accounts : transit[a] # Absent => game[a] = Absent
    /\ reply.started => transit[session.account] # Absent
    /\ reachable /\ socket # Absent /\ socket.authenticated =>
          transit[socket.account] = Absent

\* Whatever a client sends, the game session that is on its way to the zone comes
\* back to the barrack only through a sub-packet that follows CB_START_GAME in
\* the very message: the copy of it the worker still has goes with that message.
BackOnlyInItsMessage ==
    [][\A a \in Accounts :
         transit[a] # Absent /\ game[a] = Absent /\ game'[a] # Absent =>
             reply.started /\ session.account = a]_vars

\* What is stored changes by one whole request of the client at a time: of a
\* request that failed nothing is ever stored.
Accepts == INSTANCE BarrackAccounts WITH barrack <- game
AccountsSpec == Accepts!Spec
=============================================================================
