-------------------------- MODULE LicenseVerifier --------------------------
(***************************************************************************)
(* What a login that is not cached waits for: a chain of calls to Steam,   *)
(* Itch or Oculus.  The first call asks who the credentials belong to;     *)
(* Steam and Itch API keys need a second one that asks whether that user   *)
(* owns the game, and Steam fetches the user's name along with it.         *)
(*                                                                         *)
(* A call is evaluated by the service at one moment (Reply), or fails on   *)
(* its way (Break), and its answer is acted upon later: meanwhile tickets  *)
(* expire, and games are bought and refunded.                              *)
(***************************************************************************)
CONSTANTS
  Verification,   \* verifications under way at the same time
  User,           \* accounts at the services
  NoUser,         \* the owner of a download key nobody claimed
  Secret,         \* tickets, keys and nonces
  Account,        \* whose each secret is
  Credential      \* what players log in with: [method, secret, claims]

Method == {"steam", "itch.apikey", "itch.downloadkey", "oculus"}

ASSUME AccountAssumption ==
  NoUser \notin User \cup Secret /\ Account \in [Secret -> User \cup {NoUser}]
ASSUME CredentialAssumption ==
  /\ Credential \subseteq [method : Method, secret : Secret, claims : User \cup {NoUser}]
  /\ \A c \in Credential :
       Account[c.secret] = NoUser => c.method \in {"itch.downloadkey", "oculus"}

VARIABLES
  valid,          \* the secrets the services accept
  owners,         \* the users that own the game
  verification,   \* what each verification is doing
  witness         \* history: what has been true since each verification began

vars == <<valid, owners, verification, witness>>

-----------------------------------------------------------------------------
NeedsLicense(c) == c.method \in {"steam", "itch.apikey"}

\* Whom a player provided for credentials c stands for.
Subject(c) == IF c.method = "oculus" THEN c.claims ELSE Account[c.secret]

Idle == [state |-> "idle"]
Running(c, calls) == [state |-> "running", cred |-> c, calls |-> calls]

\* Faulty variant of Provided: a key without an owner yields a player without an id.
ProvidedOwner(c, user) == [state |-> "provided", cred |-> c, player |-> user]

\* Player(id): the user of the service, or the key when nobody claimed it.
Provided(c, user) ==
  [state |-> "provided", cred |-> c, player |-> IF user = NoUser THEN c.secret ELSE user]
\* For whatever reason: a refusal, or a call that failed.
Failed == [state |-> "failed"]

Asked == "asked"
Broken == "broken"   \* no response, or one that cannot be read
Denied == "denied"
Recognised == "recognised"   \* with the id of the user the secret belongs to
Owned == "owned"
Details == "details"   \* a name, or the empty list of players: both will do

Identity == "authenticateUser"
License == "fetchGameLicense"
UserDetails == "fetchUserDetails"
Call == {Identity, License, UserDetails}

\* The calls that follow once the user is known.
SecondCalls(c) == {License} \cup (IF c.method = "steam" THEN {UserDetails} ELSE {})

-----------------------------------------------------------------------------
(* The services (external).                                                *)

\* Oculus is asked whether the nonce is that of the user the player claims to be.
Recognises(c) == c.secret \in valid /\ (c.method = "oculus" => Account[c.secret] = c.claims)

ServiceAnswer(c, call) ==
  IF call = UserDetails THEN Details
  ELSE IF call = Identity THEN IF Recognises(c) THEN Recognised ELSE Denied
  ELSE IF Account[c.secret] \in owners THEN Owned ELSE Denied

\* What a verification has seen come true so far.
Seen(w, c, vs, os) ==
  LET recognised == w.recognised \/ (c.secret \in vs /\ Subject(c) = Account[c.secret])
  IN  [recognised |-> recognised,
       owned |-> w.owned \/ (recognised /\ Subject(c) \in os)]

Nothing == [recognised |-> FALSE, owned |-> FALSE]

Observe(vs, os) ==
  witness' = [v \in Verification |->
                IF verification[v].state = "running"
                THEN Seen(witness[v], verification[v].cred, vs, os) ELSE witness[v]]

Change(vs, os) ==
  /\ valid' = vs /\ owners' = os
  /\ Observe(vs, os)
  /\ UNCHANGED verification

TicketsChange == \E s \in Secret :
  Change(IF s \in valid THEN valid \ {s} ELSE valid \cup {s}, owners)

OwnersChange == \E u \in User :
  Change(valid, IF u \in owners THEN owners \ {u} ELSE owners \cup {u})

-----------------------------------------------------------------------------
(* The calls.                                                              *)
Init ==
  /\ valid = {} /\ owners = {}
  /\ verification = [v \in Verification |-> Idle]
  /\ witness = [v \in Verification |-> Nothing]

Verify(v, c) ==
  /\ verification[v] = Idle
  /\ verification' = [verification EXCEPT ![v] = Running(c, [n \in {Identity} |-> Asked])]
  /\ witness' = [witness EXCEPT ![v] = Seen(Nothing, c, valid, owners)]
  /\ UNCHANGED <<valid, owners>>

UnderWay(v, call) ==
  /\ verification[v].state = "running"
  /\ call \in DOMAIN verification[v].calls
  /\ verification[v].calls[call] = Asked

Answered(v, call) ==
  /\ verification[v].state = "running"
  /\ call \in DOMAIN verification[v].calls
  /\ verification[v].calls[call] # Asked

Return(v, call, answer) ==
  /\ UnderWay(v, call)
  /\ verification' = [verification EXCEPT ![v].calls[call] = answer]
  /\ UNCHANGED <<valid, owners, witness>>

Reply(v, call) == Return(v, call, ServiceAnswer(verification[v].cred, call))
Break(v, call) == Return(v, call, Broken)

Continue(v, next) ==
  /\ verification' = [verification EXCEPT ![v] = next]
  /\ UNCHANGED <<valid, owners, witness>>

-----------------------------------------------------------------------------
(* What the verifiers make of the answers.                                 *)

\* Faulty variant of AfterIdentity: an answer without a verdict counts as yes.
TrustingAfterIdentity(c, answer) ==
  IF answer = Broken THEN Failed
  ELSE IF NeedsLicense(c) /\ answer # Denied
  THEN Running(c, [n \in SecondCalls(c) |-> Asked])
  ELSE Provided(c, Subject(c))

AfterIdentity(c, answer) ==
  IF answer \in {Broken, Denied} THEN Failed
  ELSE IF NeedsLicense(c) THEN Running(c, [n \in SecondCalls(c) |-> Asked])
  ELSE Provided(c, Subject(c))

Identified(v) ==
  /\ Answered(v, Identity)
  /\ Continue(v, AfterIdentity(verification[v].cred, verification[v].calls[Identity]))

\* Faulty variant of CanConclude: both answers are needed, and both must be good.
BothGood(calls) ==
  /\ calls[License] # Asked
  /\ calls[License] = Owned /\ UserDetails \in DOMAIN calls => calls[UserDetails] = Details

\* zip looks at the licence first: without one it fails although the details
\* are under way, and details that failed are not noticed before it is there.
CanConclude(calls) ==
  /\ calls[License] # Asked
  /\ calls[License] = Owned /\ UserDetails \in DOMAIN calls => calls[UserDetails] # Asked

\* Faulty variant of AfterLicense: a response that does not say is taken for a yes.
TrustingAfterLicense(c, calls) ==
  IF calls[License] = Broken THEN Failed
  ELSE Provided(c, Account[c.secret])

AfterLicense(c, calls) ==
  IF \E n \in DOMAIN calls : calls[n] \in {Denied, Broken} THEN Failed
  ELSE Provided(c, Account[c.secret])

Licensed(v) ==
  /\ Answered(v, License)
  /\ CanConclude(verification[v].calls)
  /\ Continue(v, AfterLicense(verification[v].cred, verification[v].calls))

\* The login goes on with the player or the failure.
Finish(v) ==
  /\ verification[v].state \in {"provided", "failed"}
  /\ verification' = [verification EXCEPT ![v] = Idle]
  /\ witness' = [witness EXCEPT ![v] = Nothing]
  /\ UNCHANGED <<valid, owners>>

Step(v) ==
  \/ \E n \in Call : Reply(v, n) \/ Break(v, n)
  \/ Identified(v) \/ Licensed(v) \/ Finish(v)

Next ==
  \/ \E v \in Verification : Step(v) \/ \E c \in Credential : Verify(v, c)
  \/ TicketsChange \/ OwnersChange

Spec == Init /\ [][Next]_vars

\* The HTTP client ends every call, if need be with a time-out of its own.
Fairness == \A v \in Verification :
  /\ \A n \in Call : WF_vars(Reply(v, n) \/ Break(v, n))
  /\ WF_vars(Identified(v)) /\ WF_vars(Licensed(v))

FairSpec == Spec /\ Fairness

-----------------------------------------------------------------------------
(* Properties.                                                             *)
Answer == {Asked, Broken, Denied, Recognised, Owned, Details}

\* Every part of the state has its type: a player always has an id, and the
\* calls under way are the first one, or those that follow it.
TypeOK ==
  /\ valid \subseteq Secret /\ owners \subseteq User
  /\ witness \in [Verification -> [recognised : BOOLEAN, owned : BOOLEAN]]
  /\ DOMAIN verification = Verification
  /\ \A v \in Verification :
       \/ verification[v] \in {Idle, Failed}
       \/ verification[v] \in [state : {"provided"}, cred : Credential, player : User \cup Secret]
       \/ /\ verification[v].state = "running"
          /\ verification[v] = Running(verification[v].cred, verification[v].calls)
          /\ verification[v].cred \in Credential
          /\ \E S \in {{Identity}, SecondCalls(verification[v].cred)} :
               verification[v].calls \in [S -> Answer]

\* A player is provided only as the one its secret belongs to (not the one it
\* claims to be), only for credentials that were good at some moment
\* after the verification began, and, where the verifier asks for a licence,
\* for a user who owned the game at that moment or later: however the
\* services' answers are delayed, fail, or are overtaken by what changes there.
OnlyTheEntitled ==
  [][\A v \in Verification :
       verification'[v].state = "provided" /\ verification[v].state = "running" =>
         /\ witness[v].recognised
         /\ verification'[v].player \in {Account[verification[v].cred.secret],
                                        verification[v].cred.secret} \ {NoUser}
         /\ NeedsLicense(verification[v].cred) => witness[v].owned]_vars

\* Every verification ends, whichever of its calls fails, and in whatever order
\* the two parallel calls are answered.
EveryVerificationEnds ==
  \A v \in Verification :
    (verification[v].state = "running") ~> (verification[v].state \in {"provided", "failed"})
=============================================================================
