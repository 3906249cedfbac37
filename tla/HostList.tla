------------------------------ MODULE HostList ------------------------------
(***************************************************************************)
(* What /list-hosts makes of the database: the hosts a game may be shown,  *)
(* nearest first, and not too many of them.  The database is that of       *)
(* MasterServer; what it does not keep of a host is given here: its        *)
(* version and whether it is private by the player who hosts it, where it  *)
(* is by its endpoint.                                                     *)
(***************************************************************************)
EXTENDS MasterServer, SequencesExt

CONSTANTS
  Version,    \* the version of the game that each player has
  Private,    \* the players whose hosts are private
  Peer,       \* addresses games ask from
  Unknown,    \* Option.None of a distance
  Distance,   \* from a peer to an endpoint; Unknown if either has no location
  MaxListed   \* the most hosts a game may ask for (100)

ASSUME HostListAssumption ==
  /\ DOMAIN Version = Player /\ Private \subseteq Player
  /\ Unknown \notin Nat /\ MaxListed \in Nat
  /\ Distance \in [Peer -> [Endpoint -> Nat \cup {Unknown}]]

\* What a game asks to be shown, besides its address and a limit.
Filter == [version : Range(Version), hideFull : BOOLEAN, hidePasswordProtected : BOOLEAN]

-----------------------------------------------------------------------------
\* Faulty variant of Hides: a host is full when a client too many is in it.
HidesOverfull(f, host) ==
  \/ host.hostingPlayer \in Private \/ Version[host.hostingPlayer] # f.version
  \/ f.hidePasswordProtected /\ host.password # NoPassword
  \/ f.hideFull /\ FullOneTooLate(host)

Hides(f, host) ==
  \/ host.hostingPlayer \in Private \/ Version[host.hostingPlayer] # f.version
  \/ f.hidePasswordProtected /\ host.password # NoPassword
  \/ f.hideFull /\ IsFull(host)

Shown(d, f) == {e \in DOMAIN d.hosts : ~Hides(f, d.hosts[e])}

\* The ordering of Option: None comes before every distance.
Before(x, y) == y # Unknown /\ (x = Unknown \/ x < y)

\* A game may ask for any number of hosts.
Clamp(limit) == Max({0, Min({limit, MaxListed})})

Take(s, n) == SubSeq(s, 1, Min({n, Len(s)}))

Nearest(s, peer) ==
  \A i, j \in DOMAIN s : i < j => ~Before(Distance[peer][s[j]], Distance[peer][s[i]])

\* Faulty variant of Listings: the first hosts found are taken, then sorted.
TakenThenSorted(d, f, peer, limit) ==
  {s \in UNION {SetToSeqs(Range(Take(t, Clamp(limit)))) : t \in SetToSeqs(Shown(d, f))} :
     Nearest(s, peer)}

\* The lists the server may answer with: hosts as far away as each other come
\* in the order in which the map of hosts happens to iterate.
Listings(d, f, peer, limit) ==
  {Take(s, Clamp(limit)) : s \in {t \in SetToSeqs(Shown(d, f)) : Nearest(t, peer)}}

-----------------------------------------------------------------------------
(* Properties.                                                             *)

\* A game that hides full hosts is shown exactly the public hosts of its
\* version that would let it in: the filter of the query and the guard of the
\* join command agree, also where maxPlayers leaves no room at all, and at
\* hosts without password if it hides the others.
ShownHostsLetIn ==
  \A f \in Filter : f.hideFull =>
    \A e \in DOMAIN db.hosts :
      LET host == db.hosts[e]
      IN  host.hostingPlayer \notin Private /\ Version[host.hostingPlayer] = f.version =>
            (e \in Shown(db, f) <=>
               \E password \in (IF f.hidePasswordProtected THEN {NoPassword} ELSE OptPassword) :
                 Accepts(e, password))

\* However many hosts there are and whatever limit is asked for, the list is
\* as long as it may be, and no host that was left out is nearer to the game
\* than one that was listed.
NoneNearerLeftOut ==
  \A f \in Filter, peer \in Peer, limit \in -1 .. MaxListed + 1 :
    \A s \in Listings(db, f, peer, limit) :
      /\ Len(s) = Clamp(Min({limit, Cardinality(Shown(db, f))}))
      /\ \A i \in DOMAIN s : \A e \in Shown(db, f) \ Range(s) :
           ~Before(Distance[peer][e], Distance[peer][s[i]])
=============================================================================
