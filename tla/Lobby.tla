------------------------------- MODULE Lobby -------------------------------
(***************************************************************************)
(* What the master server promises about hosts and the players in them,    *)
(* without hosts' rosters, passwords, pings, clocks or commands: a set of  *)
(* open hosts, each with a capacity, and for every player at most one      *)
(* session, which is at an open host.  Module MasterServer, which keeps    *)
(* the sessions twice (in the roster of each host and in a table of        *)
(* players), implements this specification.                                *)
(***************************************************************************)
EXTENDS Integers, FiniteSets

CONSTANTS
  Endpoint,    \* external IP endpoints hosts register at
  Player,      \* player ids, administrators included
  SessionId,   \* the random session ids handed out by /join
  MaxPlayers   \* the capacities a host may open with

VARIABLES
  capacity,    \* open host -> its maxPlayers
  session,     \* player in a host -> [host, id]
  issued       \* session ids handed out so far

lobbyVars == <<capacity, session, issued>>

\* The players whose session is at host e.
Members(e) == {p \in DOMAIN session : session[p].host = e}

LobbyInit ==
  /\ capacity = [e \in {} |-> e]
  /\ session = [p \in {} |-> p]
  /\ issued = {}

\* The sessions at host e end, whoever holds them.
Evacuate(e) == session' = [p \in DOMAIN session \ Members(e) |-> session[p]]

\* A host opens, or a host already open there is replaced by a new one.
Open(e, n) ==
  /\ capacity' = [x \in DOMAIN capacity \cup {e} |->
                    IF x = e THEN n ELSE capacity[x]]
  /\ Evacuate(e)
  /\ UNCHANGED issued

Close(e) ==
  /\ e \in DOMAIN capacity
  /\ capacity' = [x \in DOMAIN capacity \ {e} |-> capacity[x]]
  /\ Evacuate(e)
  /\ UNCHANGED issued

\* Player p enters e, leaving the host it was in.  The hosting player takes
\* one of the places, and p is counted where it was when it asks.
Enter(p, e, s) ==
  /\ e \in DOMAIN capacity
  /\ Cardinality(Members(e)) + 1 < capacity[e]
  /\ s \in SessionId \ issued
  /\ session' = [q \in DOMAIN session \cup {p} |->
                   IF q = p THEN [host |-> e, id |-> s] ELSE session[q]]
  /\ issued' = issued \cup {s}
  /\ UNCHANGED capacity

\* The sessions of the players P end.
Depart(P) ==
  /\ session' = [q \in DOMAIN session \ P |-> session[q]]
  /\ UNCHANGED <<capacity, issued>>

LobbyNext ==
  \/ \E e \in Endpoint, n \in MaxPlayers : Open(e, n)
  \/ \E e \in Endpoint : Close(e)
  \/ \E p \in Player, e \in Endpoint, s \in SessionId : Enter(p, e, s)
  \/ \E P \in SUBSET Player : Depart(P)

LobbySpec == LobbyInit /\ [][LobbyNext]_lobbyVars
=============================================================================
