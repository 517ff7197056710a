------------------------ MODULE ClientMessageProofs ------------------------
(***************************************************************************)
(* Proofs about ClientMessage: whatever sub-packets a message has, however *)
(* many words the names in them have and whenever Redis fails, an answer   *)
(* the client gets agrees with what is stored, the next message finds its  *)
(* session, and the game session that has left for the zone stays there.   *)
(***************************************************************************)
EXTENDS ClientMessage, SequenceTheorems, TLAPS

\* Names Redis takes for one value
Fits(name) == Len(Arguments(name)) % 2 = 1

\* What Redis has after HMSET of g, both names of which fit
Image(g) ==
    [count |-> g.count, name |-> FirstWord(g.name), family |-> FirstWord(g.family),
     job |-> g.job]

\* The answers of a message agree with g.
Agrees(r, g) ==
    /\ r.count # Unknown => g.count = r.count
    /\ r.name # Unknown => Fits(r.name) /\ g.name = FirstWord(r.name)
    /\ r.family # Unknown => Fits(r.family) /\ g.family = FirstWord(r.family)

\* No game session lacks its family name.
AllComplete ==
    /\ \A a \in Accounts : game[a] # Absent => game[a].family # Absent
    /\ \A a \in Accounts : transit[a] # Absent => transit[a].family # Absent

\* The accounts of authenticated sessions, and of those that may start the game
AccountsKnown ==
    /\ session.authenticated => session.account \in Accounts
    /\ socket # Absent /\ socket.authenticated => socket.account \in Accounts
    /\ reply.started => session.authenticated

\* A game session is not in two places, and the one of a client that may start
\* the game is on its way.
Departed ==
    /\ \A a \in Accounts : transit[a] # Absent => game[a] = Absent
    /\ reply.started => transit[session.account] # Absent

\* While Redis answers, the socket session names a game session.
SocketNamesGame ==
    reachable /\ socket # Absent /\ socket.authenticated => game[socket.account] # Absent

\* Between two sub-packets the worker's copy of the session is what Redis has.
CopyIsStored ==
    phase = "working" =>
        /\ reachable /\ header = "normal"
        /\ Fits(copy.name) /\ Fits(copy.family)
        /\ ~ reply.started => /\ socket = session
                              /\ session.authenticated => game[session.account] = Image(copy)
                              /\ ~ session.authenticated => copy = NewGame /\ reply = NewReply

\* So the answers given so far agree with what Redis has, and in the end unless
\* a name of several words was refused.
AnswersAreStored ==
    /\ phase = "working" => Agrees(reply, Stored)
    /\ phase = "replying" /\ header = "normal" /\ reachable =>
          Agrees(reply, Stored) \/ ~ TellsOfNames

IInv ==
    /\ TypeOK
    /\ AllComplete
    /\ AccountsKnown
    /\ SocketNamesGame
    /\ CopyIsStored
    /\ AnswersAreStored
    /\ Departed

(***************************************************************************)
(* Names                                                                   *)
(***************************************************************************)
LEMMA ArgumentsOfName ==
    ASSUME NEW n \in AllNames
    PROVE  /\ Arguments(n) \in Seq(Words)
           /\ Arguments(n) # <<>>
<1>1. CASE n = EmptyName
  <2>1. Arguments(n) = <<Placeholder>>
    BY <1>1 DEF Arguments
  <2> QED
    BY <2>1, NamesAssumption
<1>2. CASE n # EmptyName
  <2>1. Arguments(n) = n
    BY <1>2 DEF Arguments
  <2>2. \A w \in Words : <<w>> \in Seq(Words)
    OBVIOUS
  <2>3. n \in Seq(Words)
    BY <1>2, <2>2, NamesAssumption DEF AllNames, Texts
  <2> QED
    BY <1>2, <2>1, <2>3 DEF EmptyName
<1> QED
  BY <1>1, <1>2

LEMMA FirstWordIsText ==
    ASSUME NEW n \in AllNames
    PROVE  FirstWord(n) \in Texts
<1>1. Head(Arguments(n)) \in Words
  BY ArgumentsOfName
<1> QED
  BY <1>1 DEF FirstWord, Texts

LEMMA TextIsOneArgument ==
    ASSUME NEW t \in Texts
    PROVE  t \in AllNames /\ Fits(t) /\ FirstWord(t) = t
<1>1. PICK w \in Words : t = <<w>>
  BY DEF Texts
<1>2. Arguments(t) = <<w>>
  BY <1>1 DEF Arguments, EmptyName
<1>3. Len(Arguments(t)) = 1 /\ Head(Arguments(t)) = w
  BY <1>2
<1>4. t \in AllNames
  BY DEF AllNames
<1>5. Fits(t)
  BY <1>3 DEF Fits
<1>6. FirstWord(t) = t
  BY <1>1, <1>3 DEF FirstWord
<1> QED
  BY <1>4, <1>5, <1>6

LEMMA EmptyNameFits == EmptyName \in AllNames /\ Fits(EmptyName)
<1>1. Arguments(EmptyName) = <<Placeholder>>
  BY DEF Arguments
<1>2. Len(Arguments(EmptyName)) = 1
  BY <1>1
<1> QED
  BY <1>2 DEF Fits, AllNames

\* A name of one word, or none, is one argument.
LEMMA OneWordFits ==
    ASSUME NEW n \in AllNames, OneWord(n)
    PROVE  Fits(n) /\ FirstWord(n) = Arguments(n)
<1>1. n # Unknown
  BY NoneAssumption
<1>2. Len(n) <= 1
  BY <1>1 DEF OneWord
<1>3. CASE n = EmptyName
  <2>1. Arguments(n) = <<Placeholder>>
    BY <1>3 DEF Arguments
  <2>2. Len(Arguments(n)) = 1 /\ Head(Arguments(n)) = Placeholder
    BY <2>1
  <2> QED
    BY <2>1, <2>2 DEF Fits, FirstWord
<1>4. CASE n # EmptyName
  <2>1. Arguments(n) = n
    BY <1>4 DEF Arguments
  <2>2. n \in Seq(Words) /\ n # <<>>
    BY <2>1, ArgumentsOfName
  <2>3. Len(n) = 1
    BY <1>2, <2>2, EmptySeq
  <2>4. n = <<Head(n)>>
    BY <2>2, <2>3
  <2> QED
    BY <2>1, <2>3, <2>4 DEF Fits, FirstWord
<1> QED
  BY <1>3, <1>4

\* The command is accepted if both names fit and refused if one of them does not.
LEMMA Parity ==
    ASSUME NEW g \in Copies
    PROVE  /\ Fits(g.name) /\ Fits(g.family) => Accepted(g)
           /\ Fits(g.name) /\ ~ Fits(g.family) => ~ Accepted(g)
           /\ ~ Fits(g.name) /\ Fits(g.family) => ~ Accepted(g)
<1> DEFINE m == Len(Arguments(g.name))
<1> DEFINE k == Len(Arguments(g.family))
<1>1. g.name \in AllNames /\ g.family \in AllNames
  BY DEF Copies
<1>2. m \in Nat /\ k \in Nat
  BY <1>1, ArgumentsOfName
<1> HIDE DEF m, k
<1>3. /\ m % 2 = 1 /\ k % 2 = 1 => (m + k) % 2 = 0
      /\ m % 2 = 1 /\ k % 2 # 1 => (m + k) % 2 # 0
      /\ m % 2 # 1 /\ k % 2 = 1 => (m + k) % 2 # 0
  BY <1>2
<1> QED
  BY <1>3 DEF Fits, Accepted, m, k

LEMMA HmsetStoresImage ==
    ASSUME NEW g \in Copies, NEW old, Fits(g.name)
    PROVE  Hmset(old, g) = Image(g)
  BY DEF Fits, Hmset, Image

LEMMA ImageIsGame ==
    ASSUME NEW g \in Copies
    PROVE  /\ Image(g) \in Games
           /\ Image(g) # Absent
           /\ Image(g).family # Absent
<1>1. FirstWord(g.name) \in Texts /\ FirstWord(g.family) \in Texts
  BY FirstWordIsText DEF Copies
<1>2. Image(g) \in Games
  BY <1>1 DEF Image, Games, Copies
<1> QED
  BY <1>1, <1>2, NoneAssumption DEF Image

\* What is read back from Redis is the image of itself.
LEMMA GameIsCopy ==
    ASSUME NEW g \in Games, g.family # Absent
    PROVE  /\ g \in Copies
           /\ Fits(g.name) /\ Fits(g.family)
           /\ Image(g) = g
<1>1. g.name \in Texts /\ g.family \in Texts
  BY DEF Games
<1>2. g.name \in AllNames /\ g.family \in AllNames /\ Fits(g.name) /\ Fits(g.family)
  BY <1>1, TextIsOneArgument
<1>3. FirstWord(g.name) = g.name /\ FirstWord(g.family) = g.family
  BY <1>1, TextIsOneArgument
<1>4. g \in Copies
  BY <1>2 DEF Games, Copies
<1>5. Image(g) = g
  BY <1>3 DEF Image, Games
<1> QED
  BY <1>2, <1>4, <1>5

LEMMA NewGameIsCopy ==
    NewGame \in Copies /\ Fits(NewGame.name) /\ Fits(NewGame.family)
<1>1. 0 \in Counts
  BY CountLimitAssumption DEF Counts
<1> QED
  BY <1>1, EmptyNameFits DEF NewGame, Copies

LEMMA NewReplyTellsNothing == NewReply \in Replies /\ \A g : Agrees(NewReply, g)
  BY DEF NewReply, Replies, Agrees

(***************************************************************************)
(* The invariant holds initially and is preserved by every action.         *)
(***************************************************************************)
LEMMA InitHolds == Init => IInv
<1> SUFFICES ASSUME Init PROVE IInv
  OBVIOUS
<1>1. NewSocket \in Sockets
  BY DEF NewSocket, Sockets
<1>2. TypeOK
  <2>1. /\ reachable \in BOOLEAN /\ socket \in Sockets \cup {Absent}
        /\ game \in [Accounts -> Games \cup {Absent}]
        /\ transit \in [Accounts -> Games \cup {Absent}]
    BY DEF Init
  <2>2. /\ session \in Sockets /\ copy \in Copies /\ reply \in Replies
    BY <1>1, NewGameIsCopy, NewReplyTellsNothing DEF Init
  <2>3. /\ phase \in {"idle", "working", "replying"}
        /\ header \in {"none", "normal", "error"}
        /\ processed \in 0..MaxPackets
    <3>1. 0 \in 0..MaxPackets
      BY MaxPacketsAssumption
    <3> QED
      BY <3>1 DEF Init
  <2> QED
    BY <2>1, <2>2, <2>3 DEF TypeOK
<1>3. AllComplete /\ Departed
  BY DEF Init, AllComplete, Departed, NewReply
<1>4. AccountsKnown
  BY DEF Init, AccountsKnown, NewSocket, NewReply
<1>5. SocketNamesGame /\ CopyIsStored /\ AnswersAreStored
  BY DEF Init, SocketNamesGame, CopyIsStored, AnswersAreStored
<1> QED
  BY <1>2, <1>3, <1>4, <1>5 DEF IInv

\* Nothing the invariant is about changes at the end of a message.
LEMMA EndKeeps == IInv /\ (EndOfMessage \/ Reply) => IInv'
<1> SUFFICES ASSUME IInv, EndOfMessage \/ Reply PROVE IInv'
  OBVIOUS
<1> USE DEF EndOfMessage, Reply, redisVars
<1>1. TypeOK'
  BY DEF IInv, TypeOK
<1>2. AllComplete' /\ AccountsKnown' /\ SocketNamesGame' /\ Departed'
  BY DEF IInv, AllComplete, AccountsKnown, SocketNamesGame, Departed
<1>3. CopyIsStored'
  BY DEF CopyIsStored
<1>4. AnswersAreStored'
  BY DEF IInv, AnswersAreStored, Stored, TellsOfNames
<1> QED
  BY <1>1, <1>2, <1>3, <1>4 DEF IInv

LEMMA ReceiveKeeps == IInv /\ Receive => IInv'
<1> SUFFICES ASSUME IInv, Receive PROVE IInv'
  OBVIOUS
<1>1. socket' \in Sockets /\ session' \in Sockets /\ session' = socket'
  <2>1. socket \in Sockets \cup {Absent} /\ NewSocket \in Sockets
    BY DEF IInv, TypeOK, NewSocket, Sockets
  <2>2. Welcome \/ WelcomeAgain \/ WelcomeBack
    BY DEF Receive
  <2> QED
    BY <2>1, <2>2 DEF Welcome, WelcomeAgain, WelcomeBack
<1>2. /\ copy' \in Copies /\ Fits(copy'.name) /\ Fits(copy'.family)
      /\ session'.authenticated => /\ session'.account \in Accounts
                                   /\ game[session'.account] = Image(copy')
                                   /\ game[session'.account] # Absent
      /\ ~ session'.authenticated => copy' = NewGame
  <2>1. CASE Welcome \/ WelcomeAgain
    BY <2>1, NewGameIsCopy DEF Welcome, WelcomeAgain, NewSocket
  <2>2. CASE WelcomeBack
    <3>1. /\ session' = socket /\ socket.authenticated /\ socket.account \in Accounts
          /\ copy' = game[socket.account] /\ Complete(copy')
      BY <2>2 DEF WelcomeBack, IInv, AccountsKnown
    <3>2. copy' \in Games /\ copy'.family # Absent
      BY <3>1 DEF Complete, IInv, TypeOK
    <3> QED
      BY <3>1, <3>2, GameIsCopy DEF Complete
  <2> QED
    BY <2>1, <2>2 DEF Receive
<1>3. reachable' /\ phase' = "working" /\ header' = "normal" /\ reply' = NewReply
  BY DEF Receive
<1>4. UNCHANGED <<game, transit, reachable>>
  BY DEF Receive
<1>5. TypeOK'
  <2>1. processed' \in 0..MaxPackets
    BY MaxPacketsAssumption DEF Receive
  <2> QED
    BY <1>1, <1>2, <1>3, <1>4, <2>1, NewReplyTellsNothing DEF IInv, TypeOK
<1>6. AllComplete' /\ Departed'
  BY <1>3, <1>4 DEF IInv, AllComplete, Departed, NewReply
<1>7. AccountsKnown' /\ SocketNamesGame'
  BY <1>1, <1>2, <1>3, <1>4 DEF AccountsKnown, SocketNamesGame, NewReply
<1>8. CopyIsStored'
  BY <1>1, <1>2, <1>3, <1>4 DEF CopyIsStored
<1>9. AnswersAreStored'
  <2>1. Agrees(reply', Stored')
    BY <1>3, NewReplyTellsNothing
  <2> QED
    BY <1>3, <2>1 DEF AnswersAreStored, Agrees
<1> QED
  BY <1>5, <1>6, <1>7, <1>8, <1>9 DEF IInv

LEMMA ReceiveFailsKeeps == IInv /\ ReceiveFails => IInv'
<1> SUFFICES ASSUME IInv, ReceiveFails PROVE IInv'
  OBVIOUS
<1> USE DEF ReceiveFails
<1>1. TypeOK'
  BY NewReplyTellsNothing DEF IInv, TypeOK
<1>2. AllComplete' /\ SocketNamesGame' /\ Departed'
  BY DEF IInv, AllComplete, SocketNamesGame, Departed, NewReply
<1>3. AccountsKnown'
  BY DEF IInv, AccountsKnown, NewReply
<1>4. CopyIsStored' /\ AnswersAreStored'
  BY DEF CopyIsStored, AnswersAreStored
<1> QED
  BY <1>1, <1>2, <1>3, <1>4 DEF IInv

LEMMA ErrorKeeps ==
    ASSUME IInv, phase = "working", NEW g \in Copies, HandlerError(g),
           processed' \in 0..MaxPackets
    PROVE  IInv'
<1> USE DEF HandlerError, redisVars
<1>1. TypeOK'
  BY DEF IInv, TypeOK
<1>2. AllComplete' /\ AccountsKnown' /\ SocketNamesGame' /\ Departed'
  BY DEF IInv, AllComplete, AccountsKnown, SocketNamesGame, Departed
<1>3. CopyIsStored' /\ AnswersAreStored'
  BY DEF CopyIsStored, AnswersAreStored
<1> QED
  BY <1>1, <1>2, <1>3 DEF IInv

LEMMA OkKeeps ==
    ASSUME IInv, HandlerOk, processed' \in 0..MaxPackets
    PROVE  IInv'
<1> USE DEF HandlerOk, redisVars
<1>1. TypeOK'
  BY DEF IInv, TypeOK
<1>2. AllComplete' /\ AccountsKnown' /\ SocketNamesGame' /\ Departed'
  BY DEF IInv, AllComplete, AccountsKnown, SocketNamesGame, Departed
<1>3. CopyIsStored' /\ AnswersAreStored'
  BY DEF IInv, CopyIsStored, AnswersAreStored, Stored, TellsOfNames
<1> QED
  BY <1>1, <1>2, <1>3 DEF IInv

\* Every handler that changes the session: what it writes is its copy, or
\* nothing if the command is refused, and then it told a name of several words.
LEMMA UpdateKeeps ==
    ASSUME IInv, phase = "working", ~ reply.started,
           NEW s \in Sockets, NEW g \in Copies, NEW r \in Replies,
           s.authenticated, s.account \in Accounts, transit[s.account] = Absent,
           Fits(g.name) \/ Fits(g.family),
           Accepted(g) => Agrees(r, Image(g)),
           ~ Accepted(g) => s = session /\ ~ (OneWord(r.name) /\ OneWord(r.family)),
           ~ r.started,
           UpdateSession(s, g, r),
           processed' \in 0..MaxPackets
    PROVE  IInv'
<1>1. /\ session' = s /\ copy' = g /\ reply' = r
      /\ UNCHANGED <<transit, header>>
      /\ Update(s, g)
  BY DEF UpdateSession
<1>2. reachable /\ header = "normal" /\ socket = session
  BY DEF IInv, CopyIsStored
<1>3. CASE /\ Accepted(g)
           /\ socket' = s
           /\ game' = [game EXCEPT ![s.account] = Hmset(@, g)]
           /\ UNCHANGED <<reachable, phase>>
  <2>1. Fits(g.name) /\ Fits(g.family)
    BY <1>3, Parity
  <2>2. game' = [game EXCEPT ![s.account] = Image(g)]
    BY <1>3, <2>1, HmsetStoresImage
  <2>3. game'[s.account] = Image(g) /\ Image(g) # Absent
    BY <2>2, ImageIsGame DEF IInv, TypeOK
  <2>4. TypeOK'
    BY <1>1, <1>3, <2>2, ImageIsGame DEF IInv, TypeOK
  <2>5. AllComplete'
    BY <1>1, <2>2, ImageIsGame DEF IInv, AllComplete, TypeOK
  <2>6. AccountsKnown' /\ SocketNamesGame'
    BY <1>1, <1>3, <2>3 DEF AccountsKnown, SocketNamesGame
  <2>7. CopyIsStored'
    BY <1>1, <1>2, <1>3, <2>1, <2>3 DEF CopyIsStored
  <2>8. AnswersAreStored'
    <3>1. Stored' = Image(g)
      BY <1>1, <2>3 DEF Stored
    <3> QED
      BY <1>1, <1>3, <3>1 DEF AnswersAreStored
  <2>9. Departed'
    BY <1>1, <2>2 DEF IInv, Departed, TypeOK
  <2> QED
    BY <2>4, <2>5, <2>6, <2>7, <2>8, <2>9 DEF IInv
<1>4. CASE /\ ~ Accepted(g)
           /\ socket' = s
           /\ phase' = "replying"
           /\ UNCHANGED <<reachable, game>>
  <2>1. s = session /\ session.authenticated
    BY <1>4
  <2>2. game[s.account] # Absent
    BY <2>1, <1>2, NoneAssumption DEF IInv, SocketNamesGame, TypeOK
  <2>3. TypeOK'
    BY <1>1, <1>4 DEF IInv, TypeOK
  <2>4. AllComplete' /\ Departed'
    BY <1>1, <1>4 DEF IInv, AllComplete, Departed
  <2>5. AccountsKnown' /\ SocketNamesGame'
    BY <1>1, <1>4, <2>2 DEF AccountsKnown, SocketNamesGame
  <2>6. CopyIsStored'
    BY <1>4 DEF CopyIsStored
  <2>7. AnswersAreStored'
    <3>1. ~ TellsOfNames'
      BY <1>1, <1>4 DEF TellsOfNames, OneWord
    <3> QED
      BY <1>4, <3>1 DEF AnswersAreStored
  <2> QED
    BY <2>3, <2>4, <2>5, <2>6, <2>7 DEF IInv
<1>5. CASE /\ reachable' = FALSE
           /\ socket' \in {s, socket}
           /\ phase' = "replying"
           /\ UNCHANGED game
  <2>1. TypeOK'
    BY <1>1, <1>5 DEF IInv, TypeOK
  <2>2. AllComplete' /\ SocketNamesGame' /\ Departed'
    BY <1>1, <1>5 DEF IInv, AllComplete, SocketNamesGame, Departed
  <2>3. AccountsKnown'
    BY <1>1, <1>5 DEF IInv, AccountsKnown
  <2>4. CopyIsStored' /\ AnswersAreStored'
    BY <1>5 DEF CopyIsStored, AnswersAreStored
  <2> QED
    BY <2>1, <2>2, <2>3, <2>4 DEF IInv
<1> QED
  BY <1>1, <1>3, <1>4, <1>5 DEF Update

\* What is known of the session in the middle of a message that may go on
LEMMA WorkingFacts ==
    ASSUME IInv, phase = "working", ~ reply.started
    PROVE  /\ reachable /\ header = "normal" /\ socket = session /\ ~ reply.started
           /\ copy \in Copies /\ reply \in Replies /\ session \in Sockets
           /\ Fits(copy.name) /\ Fits(copy.family)
           /\ ~ session.authenticated => copy = NewGame /\ reply = NewReply
           /\ session.authenticated =>
                 /\ session.account \in Accounts
                 /\ game[session.account] = Image(copy)
                 /\ game[session.account] # Absent
                 /\ transit[session.account] = Absent
                 /\ Agrees(reply, Image(copy))
<1>1. /\ reachable /\ header = "normal" /\ socket = session /\ ~ reply.started
      /\ copy \in Copies /\ reply \in Replies /\ session \in Sockets
      /\ Fits(copy.name) /\ Fits(copy.family)
      /\ ~ session.authenticated => copy = NewGame /\ reply = NewReply
  BY DEF IInv, TypeOK, CopyIsStored, AccountsKnown
<1>2. ASSUME session.authenticated
      PROVE  /\ session.account \in Accounts
             /\ game[session.account] = Image(copy)
             /\ game[session.account] # Absent
             /\ transit[session.account] = Absent
             /\ Agrees(reply, Image(copy))
  <2>1. session.account \in Accounts /\ game[session.account] = Image(copy)
    BY <1>2 DEF IInv, AccountsKnown, CopyIsStored
  <2>2. game[session.account] # Absent
    BY <1>1, <2>1, ImageIsGame
  <2>3. transit[session.account] = Absent
    BY <2>1, <2>2 DEF IInv, Departed
  <2>4. Stored = Image(copy)
    BY <1>1, <2>1 DEF Stored
  <2> QED
    BY <2>1, <2>2, <2>3, <2>4 DEF IInv, AnswersAreStored
<1> QED
  BY <1>1, <1>2

\* The answers given before agree with the copy, so those to a request that
\* changes another field, or this one to what is told, agree with the new copy.
LEMMA LoginKeeps ==
    ASSUME IInv, phase = "working", ~ reply.started, NEW a \in Accounts, Login(a),
           processed' \in 0..MaxPackets
    PROVE  IInv'
<1> DEFINE s == [account |-> a, authenticated |-> TRUE]
<1>1. s \in Sockets /\ s.authenticated /\ s.account \in Accounts /\ transit[s.account] = Absent
  BY DEF Login, Sockets
<1>2. /\ copy \in Copies /\ reply \in Replies /\ ~ reply.started
      /\ Fits(copy.name) /\ Fits(copy.family)
  BY WorkingFacts
<1>3. Accepted(copy)
  BY <1>2, Parity
<1>4. Agrees(reply, Image(copy))
  BY WorkingFacts, NewReplyTellsNothing
<1>5. UpdateSession(s, copy, reply)
  BY DEF Login
<1> HIDE DEF s
<1> QED
  BY <1>1, <1>2, <1>3, <1>4, <1>5, UpdateKeeps

\* A request of a client that has logged in, with new copy g and answers r
LEMMA RequestKeeps ==
    ASSUME IInv, phase = "working", ~ reply.started, session.authenticated,
           NEW g \in Copies, NEW r \in Replies,
           Fits(g.name) \/ Fits(g.family),
           Accepted(g) => Agrees(r, Image(g)),
           ~ Accepted(g) => ~ (OneWord(r.name) /\ OneWord(r.family)),
           r.started = reply.started,
           UpdateSession(session, g, r), processed' \in 0..MaxPackets
    PROVE  IInv'
  BY WorkingFacts, UpdateKeeps

LEMMA BarracknameChangeKeeps ==
    ASSUME IInv, phase = "working", ~ reply.started, session.authenticated,
           NEW name \in Names, BarracknameChange(name), processed' \in 0..MaxPackets
    PROVE  IInv'
<1> DEFINE g == [copy EXCEPT !.family = name]
<1> DEFINE r == [reply EXCEPT !.family = name]
<1>1. /\ copy \in Copies /\ reply \in Replies
      /\ Fits(copy.name) /\ Fits(copy.family)
      /\ Agrees(reply, Image(copy))
  BY WorkingFacts
<1>2. name \in AllNames
  BY DEF AllNames
<1>3. CASE HandlerError(copy)
  BY <1>1, <1>3, ErrorKeeps
<1>4. CASE UpdateSession(session, g, r)
  <2>1. g \in Copies /\ g.name = copy.name /\ g.family = name /\ g.count = copy.count
    BY <1>1, <1>2 DEF Copies
  <2>2. /\ r \in Replies /\ r.name = reply.name /\ r.family = name
        /\ r.count = reply.count /\ r.started = reply.started
    BY <1>1, <1>2 DEF Replies
  <2> HIDE DEF g, r
  <2>3. Accepted(g) => Fits(name)
    BY <1>1, <2>1, Parity
  <2>4. ~ Accepted(g) => ~ OneWord(name)
    BY <1>1, <1>2, <2>1, Parity, OneWordFits
  <2>5. Accepted(g) => Agrees(r, Image(g))
    BY <1>1, <2>1, <2>2, <2>3 DEF Agrees, Image
  <2> QED
    BY <1>1, <1>4, <2>1, <2>2, <2>4, <2>5, RequestKeeps
<1> QED
  BY <1>3, <1>4 DEF BarracknameChange

LEMMA CommanderCreateKeeps ==
    ASSUME IInv, phase = "working", ~ reply.started, session.authenticated,
           NEW name \in Names, NEW job \in Jobs \cup {NoJob}, NEW validGender \in BOOLEAN,
           CommanderCreate(name, job, validGender), processed' \in 0..MaxPackets
    PROVE  IInv'
<1> DEFINE named == [copy EXCEPT !.name = name]
<1> DEFINE employed == [named EXCEPT !.job = job]
<1> DEFINE g == [employed EXCEPT !.count = CountOneMore(@)]
<1> DEFINE r == [reply EXCEPT !.count = g.count, !.name = name, !.family = copy.family]
<1>1. /\ copy \in Copies /\ reply \in Replies
      /\ Fits(copy.name) /\ Fits(copy.family)
  BY WorkingFacts
<1>2. name \in AllNames
  BY DEF AllNames
<1>3. named \in Copies /\ employed \in Copies
  BY <1>1, <1>2 DEF Copies
<1>4. CASE HandlerError(named) \/ HandlerError(employed)
  BY <1>3, <1>4, ErrorKeeps
<1>5. CASE UpdateSession(session, g, r)
  <2>1. \A k \in Counts : CountOneMore(k) \in Counts
    BY CountLimitAssumption DEF Counts, CountOneMore
  <2>2. employed.count \in Counts /\ employed.name = name /\ employed.family = copy.family
    BY <1>1 DEF Copies
  <2>3. g \in Copies /\ g.name = name /\ g.family = copy.family
    BY <1>3, <2>1, <2>2 DEF Copies
  <2>4. /\ r \in Replies /\ r.name = name /\ r.family = copy.family
        /\ r.count = g.count /\ r.started = reply.started
    BY <1>1, <1>2, <2>3 DEF Replies, Copies
  <2> HIDE DEF g, r, named, employed
  <2>5. Accepted(g) => Fits(name)
    BY <1>1, <2>3, Parity
  <2>6. ~ Accepted(g) => ~ OneWord(name)
    BY <1>1, <1>2, <2>3, Parity, OneWordFits
  <2>7. Accepted(g) => Agrees(r, Image(g))
    BY <1>1, <2>3, <2>4, <2>5 DEF Agrees, Image
  <2> QED
    BY <1>1, <1>5, <2>3, <2>4, <2>6, <2>7, RequestKeeps
<1> QED
  BY <1>4, <1>5 DEF CommanderCreate

LEMMA CommanderDestroyKeeps ==
    ASSUME IInv, phase = "working", ~ reply.started, session.authenticated,
           CommanderDestroy, processed' \in 0..MaxPackets
    PROVE  IInv'
<1> DEFINE g == [copy EXCEPT !.count = 0]
<1> DEFINE r == [reply EXCEPT !.count = 0]
<1>1. /\ copy \in Copies /\ reply \in Replies
      /\ Fits(copy.name) /\ Fits(copy.family)
      /\ Agrees(reply, Image(copy))
  BY WorkingFacts
<1>2. 0 \in Counts
  BY CountLimitAssumption DEF Counts
<1>3. g \in Copies /\ g.name = copy.name /\ g.family = copy.family /\ g.count = 0
  BY <1>1, <1>2 DEF Copies
<1>4. /\ r \in Replies /\ r.name = reply.name /\ r.family = reply.family
      /\ r.count = 0 /\ r.started = reply.started
  BY <1>1, <1>2 DEF Replies
<1>5. UpdateSession(session, g, r)
  BY DEF CommanderDestroy
<1> HIDE DEF g, r
<1>6. Accepted(g)
  BY <1>1, <1>3, Parity
<1>7. Agrees(r, Image(g))
  BY <1>1, <1>3, <1>4 DEF Agrees, Image
<1> QED
  BY <1>1, <1>3, <1>4, <1>5, <1>6, <1>7, RequestKeeps

LEMMA CommanderMoveKeeps ==
    ASSUME IInv, phase = "working", ~ reply.started, session.authenticated,
           CommanderMove, processed' \in 0..MaxPackets
    PROVE  IInv'
<1>1. /\ copy \in Copies /\ reply \in Replies
      /\ Fits(copy.name) /\ Fits(copy.family)
      /\ Agrees(reply, Image(copy))
  BY WorkingFacts
<1>2. Accepted(copy)
  BY <1>1, Parity
<1> QED
  BY <1>1, <1>2, RequestKeeps DEF CommanderMove

LEMMA StartGameKeeps ==
    ASSUME IInv, phase = "working", ~ reply.started, session.authenticated,
           NEW validRouter \in BOOLEAN, StartGame(validRouter), processed' \in 0..MaxPackets
    PROVE  IInv'
<1> DEFINE a == session.account
<1> DEFINE moved == [game EXCEPT ![a] = Absent]
<1>1. /\ copy \in Copies /\ reply \in Replies
      /\ Fits(copy.name) /\ Fits(copy.family)
      /\ reachable /\ header = "normal" /\ socket = session
      /\ a \in Accounts /\ game[a] = Image(copy) /\ game[a] # Absent
      /\ Agrees(reply, Image(copy))
  BY WorkingFacts
<1>2. CASE HandlerError(copy)
  BY <1>1, <1>2, ErrorKeeps
<1>3. CASE /\ reachable' = FALSE /\ header' = "error" /\ phase' = "replying"
           /\ UNCHANGED <<socket, game, transit, session, copy, reply>>
  <2>1. TypeOK'
    BY <1>3 DEF IInv, TypeOK
  <2>2. AllComplete' /\ AccountsKnown' /\ SocketNamesGame' /\ Departed'
    BY <1>3 DEF IInv, AllComplete, AccountsKnown, SocketNamesGame, Departed
  <2>3. CopyIsStored' /\ AnswersAreStored'
    BY <1>3 DEF CopyIsStored, AnswersAreStored
  <2> QED
    BY <2>1, <2>2, <2>3 DEF IInv
<1>4. CASE /\ transit' = [transit EXCEPT ![a] = game[a]]
           /\ reply' = [reply EXCEPT !.started = TRUE]
           /\ Flush(moved)
           /\ UNCHANGED <<session, copy, header>>
  <2>1. /\ game' = moved
        /\ \/ UNCHANGED <<reachable, phase>> /\ socket' = Absent
           \/ reachable' = FALSE /\ phase' = "replying" /\ UNCHANGED socket
    <3>1. [moved EXCEPT ![socket.account] = Absent] = moved
      BY <1>1 DEF IInv, TypeOK
    <3> QED
      BY <1>4, <3>1 DEF Flush
  <2>2. /\ reply' \in Replies /\ reply'.started
        /\ reply'.count = reply.count /\ reply'.name = reply.name
        /\ reply'.family = reply.family
    BY <1>1, <1>4 DEF Replies
  <2>3. transit'[a] = Image(copy) /\ transit'[a] # Absent
    BY <1>1, <1>4 DEF IInv, TypeOK
  <2>4. TypeOK'
    <3>1. /\ game' \in [Accounts -> Games \cup {Absent}]
          /\ transit' \in [Accounts -> Games \cup {Absent}]
      BY <1>1, <1>4, <2>1 DEF IInv, TypeOK
    <3>2. /\ reachable' \in BOOLEAN /\ socket' \in Sockets \cup {Absent}
          /\ phase' \in {"idle", "working", "replying"}
      BY <2>1 DEF IInv, TypeOK
    <3>3. session' \in Sockets /\ copy' \in Copies /\ header' \in {"none", "normal", "error"}
      BY <1>4 DEF IInv, TypeOK
    <3> QED
      BY <1>4, <2>2, <3>1, <3>2, <3>3 DEF TypeOK
  <2>5. AllComplete'
    BY <1>1, <1>4, <2>1 DEF IInv, AllComplete, TypeOK
  <2>6. AccountsKnown' /\ SocketNamesGame'
    BY <1>4, <2>1, <2>2 DEF IInv, AccountsKnown, SocketNamesGame
  <2>7. CopyIsStored'
    BY <1>1, <1>4, <2>1 DEF CopyIsStored
  <2>8. AnswersAreStored'
    <3>1. Stored' = Image(copy)
      BY <1>4, <2>2, <2>3 DEF Stored
    <3>2. Agrees(reply', Image(copy))
      BY <1>1, <2>2 DEF Agrees
    <3> QED
      BY <3>1, <3>2 DEF AnswersAreStored
  <2>9. Departed'
    <3>1. \A b \in Accounts : transit'[b] # Absent => game'[b] = Absent
      BY <1>1, <1>4, <2>1 DEF IInv, Departed, TypeOK
    <3> QED
      BY <1>4, <2>1, <2>3, <3>1 DEF Departed
  <2> QED
    BY <2>4, <2>5, <2>6, <2>7, <2>8, <2>9 DEF IInv
<1> QED
  BY <1>2, <1>3, <1>4 DEF StartGame

LEMMA ProcessKeeps ==
    ASSUME StartGameLast
    PROVE  IInv /\ Process => IInv'
<1> SUFFICES ASSUME IInv, Process PROVE IInv'
  OBVIOUS
<1>1. phase = "working" /\ ~ reply.started /\ processed' \in 0..MaxPackets
  <2>1. processed \in 0..MaxPackets
    BY DEF IInv, TypeOK
  <2> QED
    BY <2>1, MaxPacketsAssumption DEF Process
<1>2. CASE \E a \in Accounts : Login(a)
  BY <1>1, <1>2, LoginKeeps
<1>3. CASE session.authenticated /\ StartBarrack
  BY <1>1, <1>3, OkKeeps DEF StartBarrack
<1>4. CASE session.authenticated /\ \E name \in Names : BarracknameChange(name)
  BY <1>1, <1>4, BarracknameChangeKeeps
<1>5. CASE session.authenticated /\
           \E name \in Names, job \in Jobs \cup {NoJob}, validGender \in BOOLEAN :
              CommanderCreate(name, job, validGender)
  BY <1>1, <1>5, CommanderCreateKeeps
<1>6. CASE session.authenticated /\ CommanderDestroy
  BY <1>1, <1>6, CommanderDestroyKeeps
<1>7. CASE session.authenticated /\ CommanderMove
  BY <1>1, <1>7, CommanderMoveKeeps
<1>8. CASE session.authenticated /\ \E validRouter \in BOOLEAN : StartGame(validRouter)
  BY <1>1, <1>8, StartGameKeeps
<1>9. CASE Reject
  BY <1>1, <1>9, WorkingFacts, ErrorKeeps DEF Reject
<1> QED
  BY <1>2, <1>3, <1>4, <1>5, <1>6, <1>7, <1>8, <1>9 DEF Process, Handle

LEMMA StutterKeeps == IInv /\ UNCHANGED vars => IInv'
<1> SUFFICES ASSUME IInv, UNCHANGED vars PROVE IInv'
  OBVIOUS
<1> USE DEF vars, redisVars
<1>1. TypeOK'
  BY DEF IInv, TypeOK
<1>2. AllComplete' /\ AccountsKnown' /\ SocketNamesGame' /\ Departed'
  BY DEF IInv, AllComplete, AccountsKnown, SocketNamesGame, Departed
<1>3. CopyIsStored' /\ AnswersAreStored'
  BY DEF IInv, CopyIsStored, AnswersAreStored, Stored, TellsOfNames
<1> QED
  BY <1>1, <1>2, <1>3 DEF IInv

\* The inductive invariant holds for any number of accounts, names of any
\* length and messages of any length.
THEOREM Invariance == ASSUME StartGameLast PROVE Spec => []IInv
<1>1. IInv /\ [Next]_vars => IInv'
  BY ReceiveKeeps, ReceiveFailsKeeps, ProcessKeeps, EndKeeps, StutterKeeps DEF Next
<1> QED
  BY InitHolds, <1>1, PTL DEF Spec

\* What an answer tells of names of one word, and of the number of commanders,
\* is what Redis has.
THEOREM AnswersAreTrue == ASSUME StartGameLast PROVE Spec => []AnswerMatchesStore
<1>1. IInv => AnswerMatchesStore
  <2> SUFFICES ASSUME IInv, phase = "replying", header = "normal", reachable, TellsOfNames
               PROVE  /\ reply.count # Unknown => Stored.count = reply.count
                      /\ reply.name # Unknown => Stored.name = Arguments(reply.name)
                      /\ reply.family # Unknown => Stored.family = Arguments(reply.family)
                      /\ reply.started => Stored # Absent
    BY DEF AnswerMatchesStore
  <2>1. Agrees(reply, Stored)
    BY DEF IInv, AnswersAreStored
  <2>2. reply.name # Unknown => FirstWord(reply.name) = Arguments(reply.name)
    <3>1. reply.name # Unknown => reply.name \in AllNames
      BY DEF IInv, TypeOK, Replies
    <3> QED
      BY <3>1, OneWordFits DEF TellsOfNames
  <2>3. reply.family # Unknown => FirstWord(reply.family) = Arguments(reply.family)
    <3>1. reply.family # Unknown => reply.family \in AllNames
      BY DEF IInv, TypeOK, Replies
    <3> QED
      BY <3>1, OneWordFits DEF TellsOfNames
  <2>4. reply.started => Stored # Absent
    BY DEF IInv, AccountsKnown, Departed, Stored
  <2> QED
    BY <2>1, <2>2, <2>3, <2>4 DEF Agrees
<1> QED
  BY <1>1, Invariance, PTL

\* No message locks its client out.
THEOREM NoLockOut == ASSUME StartGameLast PROVE Spec => []SessionIsReadable
<1>1. IInv => SessionIsReadable
  BY DEF IInv, SessionIsReadable, SocketNamesGame, AllComplete, AccountsKnown, Complete
<1> QED
  BY <1>1, Invariance, PTL

\* A game session that is on its way to the zone is not brought back by any later
\* message of the client, if nothing follows CB_START_GAME in its own.
THEOREM NoWayBack == ASSUME StartGameLast PROVE Spec => []LeftStaysLeft
<1>1. IInv => LeftStaysLeft
  <2> SUFFICES ASSUME IInv PROVE LeftStaysLeft
    OBVIOUS
  <2>1. ASSUME reachable, socket # Absent, socket.authenticated
        PROVE  transit[socket.account] = Absent
    <3>1. socket.account \in Accounts /\ game[socket.account] # Absent
      BY <2>1 DEF IInv, AccountsKnown, SocketNamesGame
    <3> QED
      BY <3>1 DEF IInv, Departed
  <2> QED
    BY <2>1 DEF IInv, Departed, LeftStaysLeft
<1> QED
  BY <1>1, Invariance, PTL

(***************************************************************************)
(* What holds of every client, also of one that sends more after           *)
(* CB_START_GAME in the same message: a message that has not started the   *)
(* game writes a game session only where there is one, or that of a login. *)
(***************************************************************************)
CopyHasGame ==
    /\ session.authenticated => session.account \in Accounts
    /\ socket # Absent /\ socket.authenticated => socket.account \in Accounts
    /\ phase = "working" /\ session.authenticated /\ ~ reply.started =>
          game[session.account] # Absent

AnyClient == TypeOK /\ CopyHasGame

\* A step brings the game session of a back only after CB_START_GAME.
Back(a) ==
    transit[a] # Absent /\ game[a] = Absent /\ game'[a] # Absent =>
        reply.started /\ session.account = a

LEMMA HmsetIsGame ==
    ASSUME NEW g \in Copies, NEW old \in Games \cup {Absent}
    PROVE  Hmset(old, g) \in Games
<1>1. FirstWord(g.name) \in Texts /\ FirstWord(g.family) \in Texts
  BY FirstWordIsText DEF Copies
<1>2. OldFamily(old) \in Texts \cup {Absent}
  BY DEF OldFamily, Games
<1> QED
  BY <1>1, <1>2 DEF Hmset, Games, Copies

\* Every handler that changes the session
LEMMA AnyUpdate ==
    ASSUME AnyClient, NEW s \in Sockets, NEW g \in Copies, NEW r \in Replies,
           s.authenticated, s.account \in Accounts, r.started = reply.started,
           s = session \/ transit[s.account] = Absent,
           phase = "working", UpdateSession(s, g, r), processed' \in 0..MaxPackets
    PROVE  AnyClient' /\ \A a \in Accounts : Back(a)
<1>1. /\ session' = s /\ copy' = g /\ reply' = r /\ UNCHANGED <<transit, header>>
      /\ Update(s, g)
  BY DEF UpdateSession
<1>2. /\ socket' \in {s, socket}
      /\ \/ game' = [game EXCEPT ![s.account] = Hmset(@, g)] /\ phase' = phase
         \/ game' = game /\ phase' = "replying"
      /\ reachable' \in BOOLEAN
  BY <1>1 DEF Update, AnyClient, TypeOK
<1>3. game[s.account] \in Games \cup {Absent}
  BY DEF AnyClient, TypeOK
<1>4. Hmset(game[s.account], g) \in Games /\ Absent \notin Games
  BY <1>3, HmsetIsGame, NoneAssumption
<1>5. /\ game' \in [Accounts -> Games \cup {Absent}]
      /\ \A a \in Accounts \ {s.account} : game'[a] = game[a]
      /\ phase' = "working" => game'[s.account] # Absent
  BY <1>2, <1>4 DEF AnyClient, TypeOK
<1>6. TypeOK'
  BY <1>1, <1>2, <1>5 DEF AnyClient, TypeOK
<1>7. CopyHasGame'
  BY <1>1, <1>2, <1>5 DEF AnyClient, CopyHasGame
<1>8. ASSUME NEW a \in Accounts PROVE Back(a)
  BY <1>5 DEF AnyClient, CopyHasGame, Back
<1> QED
  BY <1>6, <1>7, <1>8 DEF AnyClient

LEMMA AnyHandler ==
    ASSUME AnyClient, phase = "working", processed' \in 0..MaxPackets,
           session.authenticated,
           \/ StartBarrack \/ CommanderDestroy \/ CommanderMove
           \/ \E name \in Names : BarracknameChange(name)
           \/ \E name \in Names, job \in Jobs \cup {NoJob}, validGender \in BOOLEAN :
                CommanderCreate(name, job, validGender)
    PROVE  AnyClient' /\ \A a \in Accounts : Back(a)
<1>1. /\ session \in Sockets /\ session.account \in Accounts
      /\ copy \in Copies /\ reply \in Replies /\ 0 \in Counts
  BY CountLimitAssumption DEF AnyClient, TypeOK, CopyHasGame, Counts
<1>2. ASSUME NEW g \in Copies, HandlerError(g)
      PROVE  AnyClient' /\ \A a \in Accounts : Back(a)
  <2>1. TypeOK'
    BY <1>2 DEF HandlerError, redisVars, AnyClient, TypeOK
  <2> QED
    BY <1>2, <2>1 DEF HandlerError, redisVars, AnyClient, CopyHasGame, Back
<1>3. CASE StartBarrack
  <2>1. TypeOK'
    BY <1>3 DEF StartBarrack, HandlerOk, redisVars, AnyClient, TypeOK
  <2> QED
    BY <1>3, <2>1 DEF StartBarrack, HandlerOk, redisVars, AnyClient, CopyHasGame, Back
<1>4. CASE CommanderDestroy
  <2>1. [copy EXCEPT !.count = 0] \in Copies
    BY <1>1 DEF Copies
  <2>2. [reply EXCEPT !.count = 0] \in Replies /\ [reply EXCEPT !.count = 0].started = reply.started
    BY <1>1 DEF Replies
  <2> QED
    BY <1>1, <1>4, <2>1, <2>2, AnyUpdate DEF CommanderDestroy
<1>5. CASE CommanderMove
  BY <1>1, <1>5, AnyUpdate DEF CommanderMove
<1>6. ASSUME NEW name \in Names, BarracknameChange(name)
      PROVE  AnyClient' /\ \A a \in Accounts : Back(a)
  <2> DEFINE r == [reply EXCEPT !.family = name]
  <2>1. name \in AllNames
    BY DEF AllNames
  <2>2. [copy EXCEPT !.family = name] \in Copies
    BY <1>1, <2>1 DEF Copies
  <2>3. r \in Replies /\ r.started = reply.started
    BY <1>1, <2>1 DEF Replies
  <2> QED
    BY <1>1, <1>2, <1>6, <2>2, <2>3, AnyUpdate DEF BarracknameChange
<1>7. ASSUME NEW name \in Names, NEW job \in Jobs \cup {NoJob}, NEW validGender \in BOOLEAN,
             CommanderCreate(name, job, validGender)
      PROVE  AnyClient' /\ \A a \in Accounts : Back(a)
  <2> DEFINE named == [copy EXCEPT !.name = name]
  <2> DEFINE employed == [named EXCEPT !.job = job]
  <2> DEFINE g == [employed EXCEPT !.count = CountOneMore(@)]
  <2> DEFINE r == [reply EXCEPT !.count = g.count, !.name = name, !.family = copy.family]
  <2>1. name \in AllNames
    BY DEF AllNames
  <2>2. named \in Copies /\ employed \in Copies
    BY <1>1, <2>1 DEF Copies
  <2>3. \A k \in Counts : CountOneMore(k) \in Counts
    BY CountLimitAssumption DEF Counts, CountOneMore
  <2>4. g \in Copies
    BY <2>2, <2>3 DEF Copies
  <2>5. r \in Replies /\ r.started = reply.started
    BY <1>1, <2>1, <2>4 DEF Replies, Copies
  <2>6. HandlerError(named) \/ HandlerError(employed) \/ UpdateSession(session, g, r)
    BY <1>7 DEF CommanderCreate
  <2> HIDE DEF named, employed, g, r
  <2> QED
    BY <1>1, <1>2, <2>2, <2>4, <2>5, <2>6, AnyUpdate
<1> QED
  BY <1>3, <1>4, <1>5, <1>6, <1>7

LEMMA AnyStartGame ==
    ASSUME AnyClient, phase = "working", processed' \in 0..MaxPackets,
           session.authenticated, NEW validRouter \in BOOLEAN, StartGame(validRouter)
    PROVE  AnyClient' /\ \A a \in Accounts : Back(a)
<1>1. copy \in Copies /\ reply \in Replies
  BY DEF AnyClient, TypeOK
<1>2. CASE UNCHANGED <<socket, game, transit, session, copy, reply>>
           /\ reachable' \in BOOLEAN /\ phase' = "replying" /\ header' = "error"
  <2>1. TypeOK'
    BY <1>2 DEF AnyClient, TypeOK
  <2> QED
    BY <1>2, <2>1 DEF AnyClient, CopyHasGame, Back
<1>3. CASE /\ game[session.account] # Absent
           /\ transit' = [transit EXCEPT ![session.account] = game[session.account]]
           /\ reply' = [reply EXCEPT !.started = TRUE]
           /\ Flush([game EXCEPT ![session.account] = Absent])
           /\ UNCHANGED <<session, copy, header>>
  <2>1. /\ game' \in [Accounts -> Games \cup {Absent}]
        /\ \A a \in Accounts : game'[a] \in {game[a], Absent}
        /\ socket' \in {socket, Absent} /\ reachable' \in BOOLEAN
        /\ phase' \in {phase, "replying"}
    BY <1>3 DEF Flush, AnyClient, TypeOK
  <2>2. reply' \in Replies /\ reply'.started
    BY <1>1, <1>3 DEF Replies
  <2>3. transit' \in [Accounts -> Games \cup {Absent}]
    BY <1>3 DEF AnyClient, TypeOK, CopyHasGame
  <2>4. TypeOK'
    BY <1>3, <2>1, <2>2, <2>3 DEF AnyClient, TypeOK
  <2> QED
    BY <1>3, <2>1, <2>2, <2>4 DEF AnyClient, CopyHasGame, Back
<1> QED
  BY <1>2, <1>3 DEF StartGame, HandlerError, redisVars, AnyClient, TypeOK

LEMMA AnyProcess ==
    ASSUME AnyClient, Process
    PROVE  AnyClient' /\ \A a \in Accounts : Back(a)
<1>1. phase = "working" /\ processed' \in 0..MaxPackets
  <2>1. processed \in 0..MaxPackets
    BY DEF AnyClient, TypeOK
  <2> QED
    BY <2>1, MaxPacketsAssumption DEF Process
<1>2. ASSUME NEW a \in Accounts, Login(a) PROVE AnyClient' /\ \A b \in Accounts : Back(b)
  <2> DEFINE s == [account |-> a, authenticated |-> TRUE]
  <2>1. s \in Sockets /\ s.authenticated /\ s.account = a /\ transit[s.account] = Absent
    BY <1>2 DEF Sockets, Login
  <2>2. UpdateSession(s, copy, reply)
    BY <1>2 DEF Login
  <2>3. copy \in Copies /\ reply \in Replies
    BY DEF AnyClient, TypeOK
  <2> HIDE DEF s
  <2> QED
    BY <1>1, <2>1, <2>2, <2>3, AnyUpdate
<1>3. CASE Reject
  <2>1. TypeOK'
    BY <1>1, <1>3 DEF Reject, HandlerError, redisVars, AnyClient, TypeOK
  <2> QED
    BY <1>3, <2>1 DEF Reject, HandlerError, redisVars, AnyClient, CopyHasGame, Back
<1> QED
  BY <1>1, <1>2, <1>3, AnyHandler, AnyStartGame DEF Process, Handle

LEMMA AnyOther ==
    ASSUME AnyClient, Receive \/ ReceiveFails \/ EndOfMessage \/ Reply \/ UNCHANGED vars
    PROVE  AnyClient' /\ \A a \in Accounts : Back(a)
<1>1. UNCHANGED <<game, transit>>
  BY DEF Receive, ReceiveFails, EndOfMessage, Reply, vars, redisVars
<1>2. CASE Receive
  <2>1. /\ socket' \in Sockets /\ session' = socket' /\ copy' \in Copies
        /\ session'.authenticated =>
              session'.account \in Accounts /\ game[session'.account] # Absent
    <3>1. CASE Welcome \/ WelcomeAgain
      <4>1. NewSocket \in Sockets /\ ~ NewSocket.authenticated
        BY DEF NewSocket, Sockets
      <4>2. socket \in Sockets \cup {Absent}
        BY DEF AnyClient, TypeOK
      <4>3. copy' = NewGame /\ session' \in {socket, NewSocket} /\ session' = socket'
        BY <3>1 DEF Welcome, WelcomeAgain
      <4>4. ~ session'.authenticated /\ socket' \in Sockets
        BY <3>1, <4>1, <4>2 DEF Welcome, WelcomeAgain
      <4> QED
        BY <4>3, <4>4, NewGameIsCopy
    <3>2. CASE WelcomeBack
      <4>1. /\ socket # Absent /\ socket.account \in Accounts /\ socket' = socket
            /\ session' = socket
            /\ copy' = game[socket.account] /\ Complete(game[socket.account])
        BY <3>2 DEF WelcomeBack, AnyClient, CopyHasGame
      <4>2. copy' \in Games /\ copy'.family # Absent
        BY <4>1 DEF Complete, AnyClient, TypeOK
      <4> QED
        BY <4>1, <4>2, GameIsCopy DEF Complete, AnyClient, TypeOK
    <3> QED
      BY <1>2, <3>1, <3>2 DEF Receive
  <2>2. /\ reachable' = reachable /\ phase' = "working" /\ header' = "normal"
        /\ reply' = NewReply /\ processed' = 0
    BY <1>2 DEF Receive
  <2>3. TypeOK'
    BY <1>1, <2>1, <2>2, NewReplyTellsNothing, MaxPacketsAssumption DEF AnyClient, TypeOK
  <2> QED
    BY <1>1, <2>1, <2>2, <2>3 DEF AnyClient, CopyHasGame, Back
<1>3. CASE ReceiveFails
  <2>1. TypeOK'
    BY <1>3, NewReplyTellsNothing DEF ReceiveFails, AnyClient, TypeOK
  <2> QED
    BY <1>1, <1>3, <2>1 DEF ReceiveFails, AnyClient, CopyHasGame, Back
<1>4. CASE EndOfMessage \/ Reply \/ UNCHANGED vars
  <2>1. TypeOK'
    BY <1>4 DEF EndOfMessage, Reply, vars, redisVars, AnyClient, TypeOK
  <2> QED
    BY <1>1, <1>4, <2>1
    DEF EndOfMessage, Reply, vars, redisVars, AnyClient, CopyHasGame, Back
<1> QED
  BY <1>2, <1>3, <1>4

\* The only way back from the zone: a sub-packet after CB_START_GAME in the same
\* message.  Nothing is assumed of the client.
THEOREM OnlyWayBack == Spec => BackOnlyInItsMessage
<1>1. Init => AnyClient
  BY InitHolds DEF Init, NewSocket, IInv, AnyClient, CopyHasGame
<1>2. AnyClient /\ [Next]_vars => AnyClient' /\ \A a \in Accounts : Back(a)
  BY AnyProcess, AnyOther DEF Next
<1> QED
  BY <1>1, <1>2, PTL DEF Spec, BackOnlyInItsMessage, Back

\* Every variable keeps its type; a name in Redis is always one word.
THEOREM TypeCorrectness == Spec => []TypeOK
<1>1. Init => AnyClient
  BY InitHolds DEF Init, NewSocket, IInv, AnyClient, CopyHasGame
<1>2. AnyClient /\ [Next]_vars => AnyClient'
  BY AnyProcess, AnyOther DEF Next
<1>3. AnyClient => TypeOK
  BY DEF AnyClient
<1> QED
  BY <1>1, <1>2, <1>3, PTL DEF Spec

(***************************************************************************)
(* Every step is one whole request of BarrackAccounts, or changes nothing  *)
(* there.                                                                  *)
(***************************************************************************)
LEMMA UpdateWrites ==
    ASSUME NEW s, NEW g \in Copies, NEW r, Fits(g.name) \/ Fits(g.family),
           UpdateSession(s, g, r)
    PROVE  /\ UNCHANGED transit
           /\ \/ UNCHANGED game
              \/ /\ Fits(g.name) /\ Fits(g.family)
                 /\ game' = [game EXCEPT ![s.account] = Image(g)]
<1>1. UNCHANGED transit /\ Update(s, g)
  BY DEF UpdateSession
<1>2. CASE UNCHANGED game
  BY <1>1, <1>2
<1>3. CASE Accepted(g) /\ game' = [game EXCEPT ![s.account] = Hmset(@, g)]
  <2>1. Fits(g.name) /\ Fits(g.family)
    BY <1>3, Parity
  <2> QED
    BY <1>1, <1>3, <2>1, HmsetStoresImage
<1> QED
  BY <1>1, <1>2, <1>3 DEF Update

LEMMA LoginRefines ==
    ASSUME IInv, phase = "working", ~ reply.started, NEW a \in Accounts, Login(a)
    PROVE  Accepts!LogIn(a) \/ UNCHANGED <<game, transit>>
<1> DEFINE s == [account |-> a, authenticated |-> TRUE]
<1>1. UpdateSession(s, copy, reply) /\ game[a] = Absent /\ transit[a] = Absent
  BY DEF Login
<1>2. copy \in Copies /\ Fits(copy.name)
  BY WorkingFacts
<1>3. s.account = a
  OBVIOUS
<1> HIDE DEF s
<1>4. /\ UNCHANGED transit
      /\ UNCHANGED game \/ game' = [game EXCEPT ![a] = Image(copy)]
  BY <1>1, <1>2, <1>3, UpdateWrites
<1>5. Image(copy) \in {Accepts!NewSession} \cup {game[b] : b \in Accounts}
  <2>1. CASE session.authenticated
    BY <2>1, WorkingFacts
  <2>2. CASE ~ session.authenticated
    <3>1. copy = NewGame
      BY <2>2, WorkingFacts
    <3>2. FirstWord(EmptyName) = <<Placeholder>>
      <4>1. Head(<<Placeholder>>) = Placeholder
        OBVIOUS
      <4> QED
        BY <4>1 DEF FirstWord, Arguments
    <3>3. Image(copy) = Accepts!NewSession
      BY <3>1, <3>2 DEF Image, NewGame, Accepts!NewSession
    <3> QED
      BY <3>3
  <2> QED
    BY <2>1, <2>2
<1> QED
  BY <1>1, <1>4, <1>5 DEF Accepts!LogIn

LEMMA BarracknameChangeRefines ==
    ASSUME IInv, phase = "working", ~ reply.started, session.authenticated,
           NEW name \in Names, BarracknameChange(name)
    PROVE  Accepts!ChangeName(session.account) \/ UNCHANGED <<game, transit>>
<1> DEFINE a == session.account
<1> DEFINE g == [copy EXCEPT !.family = name]
<1> DEFINE r == [reply EXCEPT !.family = name]
<1>1. /\ copy \in Copies /\ Fits(copy.name)
      /\ a \in Accounts /\ game[a] = Image(copy) /\ game[a] # Absent
  BY WorkingFacts
<1>2. name \in AllNames /\ FirstWord(name) \in Texts
  BY FirstWordIsText DEF AllNames
<1>3. CASE HandlerError(copy)
  BY <1>3 DEF HandlerError, redisVars
<1>4. CASE UpdateSession(session, g, r)
  <2>1. g \in Copies /\ g.name = copy.name
    BY <1>1, <1>2 DEF Copies
  <2>2. Image(g) = [Image(copy) EXCEPT !.family = FirstWord(name)]
    BY <1>1 DEF Image, Copies
  <2> HIDE DEF g, r
  <2>3. /\ UNCHANGED transit
        /\ UNCHANGED game \/ game' = [game EXCEPT ![a] = Image(g)]
    BY <1>1, <1>4, <2>1, UpdateWrites
  <2>4. CASE game' = [game EXCEPT ![a] = Image(g)]
    <3>1. game' = [game EXCEPT ![a].family = FirstWord(name)]
      BY <1>1, <2>2, <2>4 DEF IInv, TypeOK
    <3>2. Texts = Accepts!Texts
      BY DEF Texts, Accepts!Texts
    <3> QED
      BY <1>1, <1>2, <2>3, <3>1, <3>2 DEF Accepts!ChangeName
  <2> QED
    BY <2>3, <2>4
<1> QED
  BY <1>3, <1>4 DEF BarracknameChange

LEMMA CommanderCreateRefines ==
    ASSUME IInv, phase = "working", ~ reply.started, session.authenticated,
           NEW name \in Names, NEW job \in Jobs \cup {NoJob}, NEW validGender \in BOOLEAN,
           CommanderCreate(name, job, validGender)
    PROVE  Accepts!CreateCommander(session.account) \/ UNCHANGED <<game, transit>>
<1> DEFINE a == session.account
<1> DEFINE named == [copy EXCEPT !.name = name]
<1> DEFINE employed == [named EXCEPT !.job = job]
<1> DEFINE g == [employed EXCEPT !.count = CountOneMore(@)]
<1> DEFINE r == [reply EXCEPT !.count = g.count, !.name = name, !.family = copy.family]
<1>1. /\ copy \in Copies /\ Fits(copy.family)
      /\ a \in Accounts /\ game[a] = Image(copy) /\ game[a] # Absent
  BY WorkingFacts
<1>2. name \in AllNames /\ FirstWord(name) \in Texts
  BY FirstWordIsText DEF AllNames
<1>3. CASE HandlerError(named) \/ HandlerError(employed)
  BY <1>3 DEF HandlerError, redisVars
<1>4. CASE job # NoJob /\ UpdateSession(session, g, r)
  <2>1. \A k \in Counts : CountOneMore(k) \in Counts
    BY CountLimitAssumption DEF Counts, CountOneMore
  <2>2. g \in Copies /\ g.family = copy.family
    BY <1>1, <1>2, <2>1 DEF Copies
  <2>3. Image(g) = Accepts!WithCommander(game[a], FirstWord(name), job)
    <3>1. employed.count = copy.count /\ employed.name = name /\ employed.job = job
      BY <1>1 DEF Copies
    <3>2. /\ g.count = (copy.count + 1) % CountLimit
          /\ g.name = name /\ g.job = job /\ g.family = copy.family
      BY <1>1, <3>1 DEF Copies, CountOneMore
    <3>3. game[a].count = copy.count /\ game[a].family = FirstWord(copy.family)
      BY <1>1 DEF Image
    <3> HIDE DEF g
    <3> QED
      BY <3>2, <3>3 DEF Image, Accepts!WithCommander
  <2> HIDE DEF g, r
  <2>4. /\ UNCHANGED transit
        /\ UNCHANGED game \/ game' = [game EXCEPT ![a] = Image(g)]
    BY <1>1, <1>4, <2>2, UpdateWrites
  <2>5. CASE game' = [game EXCEPT ![a] = Image(g)]
    <3>1. game' = [game EXCEPT ![a] = Accepts!WithCommander(@, FirstWord(name), job)]
      BY <1>1, <2>3, <2>5 DEF IInv, TypeOK
    <3>2. Texts = Accepts!Texts
      BY DEF Texts, Accepts!Texts
    <3> QED
      BY <1>1, <1>2, <1>4, <2>4, <3>1, <3>2 DEF Accepts!CreateCommander
  <2> QED
    BY <2>4, <2>5
<1> QED
  BY <1>3, <1>4 DEF CommanderCreate

LEMMA CommanderDestroyRefines ==
    ASSUME IInv, phase = "working", ~ reply.started, session.authenticated, CommanderDestroy
    PROVE  Accepts!DestroyCommanders(session.account) \/ UNCHANGED <<game, transit>>
<1> DEFINE a == session.account
<1> DEFINE g == [copy EXCEPT !.count = 0]
<1> DEFINE r == [reply EXCEPT !.count = 0]
<1>1. /\ copy \in Copies /\ Fits(copy.name)
      /\ a \in Accounts /\ game[a] = Image(copy) /\ game[a] # Absent
  BY WorkingFacts
<1>2. 0 \in Counts
  BY CountLimitAssumption DEF Counts
<1>3. g \in Copies /\ g.name = copy.name
  BY <1>1, <1>2 DEF Copies
<1>4. Image(g) = [Image(copy) EXCEPT !.count = 0]
  BY <1>1 DEF Image, Copies
<1>5. UpdateSession(session, g, r)
  BY DEF CommanderDestroy
<1> HIDE DEF g, r
<1>6. /\ UNCHANGED transit
      /\ UNCHANGED game \/ game' = [game EXCEPT ![a] = Image(g)]
  BY <1>1, <1>3, <1>5, UpdateWrites
<1>7. CASE game' = [game EXCEPT ![a] = Image(g)]
  <2>1. game' = [game EXCEPT ![a].count = 0]
    BY <1>1, <1>4, <1>7 DEF IInv, TypeOK
  <2> QED
    BY <1>1, <1>6, <2>1 DEF Accepts!DestroyCommanders
<1> QED
  BY <1>6, <1>7

\* The game session is written as it was read.
LEMMA CommanderMoveRefines ==
    ASSUME IInv, phase = "working", ~ reply.started, session.authenticated, CommanderMove
    PROVE  UNCHANGED <<game, transit>>
<1>1. /\ copy \in Copies /\ Fits(copy.name)
      /\ session.account \in Accounts /\ game[session.account] = Image(copy)
  BY WorkingFacts
<1>2. /\ UNCHANGED transit
      /\ UNCHANGED game \/ game' = [game EXCEPT ![session.account] = Image(copy)]
  BY <1>1, UpdateWrites DEF CommanderMove
<1> QED
  BY <1>1, <1>2 DEF IInv, TypeOK

LEMMA StartGameRefines ==
    ASSUME IInv, phase = "working", ~ reply.started, session.authenticated,
           NEW validRouter \in BOOLEAN, StartGame(validRouter)
    PROVE  Accepts!Leave(session.account) \/ UNCHANGED <<game, transit>>
<1> DEFINE a == session.account
<1>1. a \in Accounts /\ game[a] # Absent /\ socket = session
  BY WorkingFacts
<1>2. CASE \/ HandlerError(copy)
           \/ UNCHANGED <<socket, game, transit, session, copy, reply>>
  BY <1>2 DEF HandlerError, redisVars
<1>3. CASE /\ transit' = [transit EXCEPT ![a] = game[a]]
           /\ Flush([game EXCEPT ![a] = Absent])
  <2>1. game' = [game EXCEPT ![a] = Absent]
    BY <1>1, <1>3 DEF Flush, IInv, TypeOK
  <2> QED
    BY <1>1, <1>3, <2>1 DEF Accepts!Leave
<1> QED
  BY <1>2, <1>3 DEF StartGame

LEMMA ProcessRefines ==
    ASSUME StartGameLast, IInv, Process
    PROVE  Accepts!Next \/ UNCHANGED <<game, transit>>
<1>1. phase = "working" /\ ~ reply.started
  BY DEF Process
<1>2. session.authenticated => session.account \in Accounts
  BY DEF IInv, AccountsKnown
<1>3. CASE \E a \in Accounts : Login(a)
  BY <1>1, <1>3, LoginRefines DEF Accepts!Next
<1>4. CASE session.authenticated /\ \E name \in Names : BarracknameChange(name)
  BY <1>1, <1>2, <1>4, BarracknameChangeRefines DEF Accepts!Next
<1>5. CASE session.authenticated /\
           \E name \in Names, job \in Jobs \cup {NoJob}, validGender \in BOOLEAN :
              CommanderCreate(name, job, validGender)
  BY <1>1, <1>2, <1>5, CommanderCreateRefines DEF Accepts!Next
<1>6. CASE session.authenticated /\ CommanderDestroy
  BY <1>1, <1>2, <1>6, CommanderDestroyRefines DEF Accepts!Next
<1>7. CASE session.authenticated /\ CommanderMove
  BY <1>1, <1>7, CommanderMoveRefines
<1>8. CASE session.authenticated /\ \E validRouter \in BOOLEAN : StartGame(validRouter)
  BY <1>1, <1>2, <1>8, StartGameRefines DEF Accepts!Next
<1>9. CASE StartBarrack \/ Reject
  BY <1>9 DEF StartBarrack, HandlerOk, Reject, HandlerError, redisVars
<1> QED
  BY <1>3, <1>4, <1>5, <1>6, <1>7, <1>8, <1>9 DEF Process, Handle

\* The worker implements BarrackAccounts: what is stored of an account changes
\* by one whole request at a time, whatever failed in between.
THEOREM Implementation == ASSUME StartGameLast PROVE Spec => AccountsSpec
<1>1. Init => Accepts!Init
  BY DEF Init, Accepts!Init
<1>2. IInv /\ [Next]_vars => [Accepts!Next]_Accepts!vars
  <2> SUFFICES ASSUME IInv, [Next]_vars PROVE Accepts!Next \/ UNCHANGED <<game, transit>>
    BY DEF Accepts!vars
  <2>1. CASE Receive \/ ReceiveFails
    BY <2>1 DEF Receive, ReceiveFails
  <2>2. CASE Process
    BY <2>2, ProcessRefines
  <2>3. CASE EndOfMessage \/ Reply \/ UNCHANGED vars
    BY <2>3 DEF EndOfMessage, Reply, vars, redisVars
  <2> QED
    BY <2>1, <2>2, <2>3 DEF Next
<1> QED
  BY <1>1, <1>2, Invariance, PTL DEF Spec, AccountsSpec, Accepts!Spec
=============================================================================
