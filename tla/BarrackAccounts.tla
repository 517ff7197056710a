-------------------------- MODULE BarrackAccounts --------------------------
(***************************************************************************)
(* What the barrack server promises about the game sessions of accounts:   *)
(* each changes by whole requests only, and goes to the zone for good.     *)
(***************************************************************************)
EXTENDS Naturals

CONSTANTS
    Accounts,     \* the accounts logins generate
    Words,        \* what names are made of
    Placeholder,  \* stands for an empty name
    Jobs,         \* the jobs of commanders
    NoJob,        \* the job of a session without a commander
    Absent,       \* no game session
    CountLimit    \* the range of the number of commanders

VARIABLES
    barrack,      \* barrack[a]: the game session of account a at the barrack
    transit       \* transit[a]: its game session on its way to a zone

vars == <<barrack, transit>>

Texts == {<<w>> : w \in Words}

NewSession ==
    [count |-> 0, name |-> <<Placeholder>>, family |-> <<Placeholder>>, job |-> NoJob]

Init ==
    /\ barrack = [a \in Accounts |-> Absent]
    /\ transit = [a \in Accounts |-> Absent]

\* A first login starts with a new session, a further one with what the client
\* had under its previous account.
LogIn(a) ==
    /\ barrack[a] = Absent /\ transit[a] = Absent
    /\ \E g \in {NewSession} \cup {barrack[b] : b \in Accounts} :
          barrack' = [barrack EXCEPT ![a] = g]
    /\ UNCHANGED transit

ChangeName(a) ==
    /\ barrack[a] # Absent
    /\ \E t \in Texts : barrack' = [barrack EXCEPT ![a].family = t]
    /\ UNCHANGED transit

\* Name, job and number of commanders change together.
WithCommander(g, t, j) ==
    [count |-> (g.count + 1) % CountLimit, name |-> t, family |-> g.family, job |-> j]

CreateCommander(a) ==
    /\ barrack[a] # Absent
    /\ \E t \in Texts, j \in Jobs :
          barrack' = [barrack EXCEPT ![a] = WithCommander(@, t, j)]
    /\ UNCHANGED transit

DestroyCommanders(a) ==
    /\ barrack[a] # Absent
    /\ barrack' = [barrack EXCEPT ![a].count = 0]
    /\ UNCHANGED transit

Leave(a) ==
    /\ barrack[a] # Absent
    /\ transit' = [transit EXCEPT ![a] = barrack[a]]
    /\ barrack' = [barrack EXCEPT ![a] = Absent]

Next == \E a \in Accounts :
    LogIn(a) \/ ChangeName(a) \/ CreateCommander(a) \/ DestroyCommanders(a) \/ Leave(a)

Spec == Init /\ [][Next]_vars
=============================================================================
