----------------------- MODULE LicenseVerifierProofs -----------------------
(***************************************************************************)
(* Only the entitled are let in: for any number of verifications, users    *)
(* and credentials, and whatever changes at the services meanwhile.        *)
(***************************************************************************)
EXTENDS LicenseVerifier, TLAPS

\* An answer that lets its player through was true at some moment seen.
CallsSound(c, calls, w) ==
  \/ /\ calls \in [{Identity} -> {Asked, Broken, Denied, Recognised}]
     /\ calls[Identity] = Recognised => w.recognised /\ Subject(c) = Account[c.secret]
  \/ /\ NeedsLicense(c) /\ w.recognised
     /\ calls \in [SecondCalls(c) -> {Asked, Broken, Denied, Owned, Details}]
     /\ calls[License] # Details
     /\ calls[License] = Owned => w.owned

\* The history has noted what the services would say at this moment.
UpToDate(c, w, vs, os) ==
  /\ c.secret \in vs /\ Subject(c) = Account[c.secret] => w.recognised
  /\ w.recognised /\ Subject(c) \in os => w.owned

IsRunning(x) == x.state = "running" /\ x = Running(x.cred, x.calls) /\ x.cred \in Credential

\* What a verification x with the history w may be while the services
\* accept the secrets vs and the users os own the game.
Sound(x, w, vs, os) ==
  /\ w \in [recognised : BOOLEAN, owned : BOOLEAN]
  /\ \/ x \in {Idle, Failed}
     \/ x \in [state : {"provided"}, cred : Credential, player : User \cup Secret]
     \/ IsRunning(x) /\ CallsSound(x.cred, x.calls, w) /\ UpToDate(x.cred, w, vs, os)

\* The inductive invariant.
IInv ==
  /\ valid \subseteq Secret /\ owners \subseteq User
  /\ DOMAIN verification = Verification
  /\ witness \in [Verification -> [recognised : BOOLEAN, owned : BOOLEAN]]
  /\ \A v \in Verification : Sound(verification[v], witness[v], valid, owners)

\* Calls that are sound are calls of the right type.
LEMMA CallsTyped ==
  ASSUME NEW c, NEW calls, NEW w, CallsSound(c, calls, w)
  PROVE  \E S \in {{Identity}, SecondCalls(c)} : calls \in [S -> Answer]
BY DEF CallsSound, Answer

LEMMA Typed == IInv => TypeOK
<1> SUFFICES ASSUME IInv, NEW v \in Verification PROVE
      \/ verification[v] \in {Idle, Failed}
      \/ verification[v] \in [state : {"provided"}, cred : Credential, player : User \cup Secret]
      \/ /\ IsRunning(verification[v])
         /\ \E S \in {{Identity}, SecondCalls(verification[v].cred)} :
              verification[v].calls \in [S -> Answer]
  BY DEF IInv, TypeOK, IsRunning
<1>1. Sound(verification[v], witness[v], valid, owners)
  BY DEF IInv
<1> QED BY <1>1, CallsTyped DEF Sound

LEMMA InitOK == Init => IInv
  BY DEF Init, IInv, Sound, Nothing

-----------------------------------------------------------------------------
\* Whom a credential stands for is a user, or nobody; for one that needs a
\* licence it is the user its secret belongs to.
LEMMA Subjects ==
  ASSUME NEW c \in Credential
  PROVE  /\ c.secret \in Secret
         /\ Account[c.secret] \in User \cup {NoUser}
         /\ Subject(c) \in User \cup {NoUser}
         /\ NeedsLicense(c) => Subject(c) = Account[c.secret]
BY AccountAssumption, CredentialAssumption DEF Subject, NeedsLicense

\* A player that is provided has an id.
LEMMA PlayersHaveIds ==
  ASSUME NEW c \in Credential, NEW user \in User \cup {NoUser}
  PROVE  /\ Provided(c, user) \in [state : {"provided"}, cred : Credential, player : User \cup Secret]
         /\ Provided(c, user).player \in {user, c.secret} \ {NoUser}
BY Subjects, AccountAssumption DEF Provided

\* A step of one verification alone keeps the invariant if what it leaves is sound.
LEMMA OneVerification ==
  ASSUME IInv, NEW v \in Verification, NEW x, NEW w,
         Sound(x, w, valid, owners),
         verification' = [verification EXCEPT ![v] = x],
         witness' = [witness EXCEPT ![v] = w],
         UNCHANGED <<valid, owners>>
  PROVE  IInv'
<1>1. w \in [recognised : BOOLEAN, owned : BOOLEAN]
  BY DEF Sound
<1>2. \A u \in Verification : Sound(verification'[u], witness'[u], valid, owners)
  BY DEF IInv
<1> QED BY <1>1, <1>2 DEF IInv

\* The same for a step that leaves the history alone.
LEMMA SameHistory ==
  ASSUME IInv, NEW v \in Verification, NEW x,
         Sound(x, witness[v], valid, owners),
         verification' = [verification EXCEPT ![v] = x],
         UNCHANGED <<valid, owners, witness>>
  PROVE  IInv'
<1>1. witness' = [witness EXCEPT ![v] = witness[v]]
  BY DEF IInv
<1> QED BY <1>1, OneVerification

-----------------------------------------------------------------------------
\* What the history notes is up to date, and never forgets.
LEMMA SeenIsUpToDate ==
  ASSUME NEW c, NEW w \in [recognised : BOOLEAN, owned : BOOLEAN], NEW vs, NEW os
  PROVE  /\ Seen(w, c, vs, os) \in [recognised : BOOLEAN, owned : BOOLEAN]
         /\ UpToDate(c, Seen(w, c, vs, os), vs, os)
         /\ w.recognised => Seen(w, c, vs, os).recognised
         /\ w.owned => Seen(w, c, vs, os).owned
BY DEF Seen, UpToDate

LEMMA CallsStaySound ==
  ASSUME NEW c, NEW calls, NEW w, NEW u, CallsSound(c, calls, w),
         w.recognised => u.recognised, w.owned => u.owned
  PROVE  CallsSound(c, calls, u)
BY DEF CallsSound

\* Whatever changes at the services.
LEMMA ChangeStep ==
  ASSUME IInv, NEW vs \in SUBSET Secret, NEW os \in SUBSET User, Change(vs, os) PROVE IInv'
<1>1. ASSUME NEW v \in Verification
      PROVE  /\ witness'[v] \in [recognised : BOOLEAN, owned : BOOLEAN]
             /\ Sound(verification[v], witness'[v], vs, os)
  <2>1. Sound(verification[v], witness[v], valid, owners)
    BY DEF IInv
  <2>2. witness[v] \in [recognised : BOOLEAN, owned : BOOLEAN]
    BY DEF IInv
  <2>3. CASE verification[v].state = "running"
    <3> DEFINE c == verification[v].cred
    <3>1. witness'[v] = Seen(witness[v], c, vs, os)
      BY <2>3 DEF Change, Observe
    <3>2. IsRunning(verification[v]) /\ CallsSound(c, verification[v].calls, witness[v])
      BY <2>1, <2>3 DEF Sound, Idle, Failed
    <3>3. CallsSound(c, verification[v].calls, witness'[v])
      BY <2>2, <3>1, <3>2, SeenIsUpToDate, CallsStaySound
    <3> QED BY <2>2, <3>1, <3>2, <3>3, SeenIsUpToDate DEF Sound
  <2>4. CASE verification[v].state # "running"
    <3>1. witness'[v] = witness[v]
      BY <2>4 DEF Change, Observe
    <3> QED BY <2>1, <2>2, <2>4, <3>1 DEF Sound, IsRunning
  <2> QED BY <2>3, <2>4
<1>2. witness' \in [Verification -> [recognised : BOOLEAN, owned : BOOLEAN]]
  BY <1>1 DEF Change, Observe
<1> QED BY <1>1, <1>2 DEF IInv, Change

LEMMA VerifyStep ==
  ASSUME IInv, NEW v \in Verification, NEW c \in Credential, Verify(v, c) PROVE IInv'
<1> DEFINE calls == [n \in {Identity} |-> Asked]
           w == Seen(Nothing, c, valid, owners)
<1>1. w \in [recognised : BOOLEAN, owned : BOOLEAN] /\ UpToDate(c, w, valid, owners)
  BY SeenIsUpToDate DEF Nothing
<1>2. CallsSound(c, calls, w)
  BY DEF CallsSound, Asked, Recognised
<1>3. IsRunning(Running(c, calls)) /\ Running(c, calls).cred = c /\ Running(c, calls).calls = calls
  BY DEF IsRunning, Running
<1>4. Sound(Running(c, calls), w, valid, owners)
  BY <1>1, <1>2, <1>3 DEF Sound
<1> QED BY <1>4, OneVerification DEF Verify

-----------------------------------------------------------------------------
\* The answers.
LEMMA RunningIsSound ==
  ASSUME IInv, NEW v \in Verification, verification[v].state = "running"
  PROVE  /\ IsRunning(verification[v])
         /\ CallsSound(verification[v].cred, verification[v].calls, witness[v])
         /\ UpToDate(verification[v].cred, witness[v], valid, owners)
         /\ witness[v] \in [recognised : BOOLEAN, owned : BOOLEAN]
BY DEF IInv, Sound, Idle, Failed

\* A call may be answered as the service sees fit, or break.
LEMMA AnswersSound ==
  ASSUME NEW c \in Credential, NEW calls, NEW w, NEW n \in DOMAIN calls, NEW answer,
         CallsSound(c, calls, w), UpToDate(c, w, valid, owners),
         answer \in {ServiceAnswer(c, n), Broken}
  PROVE  CallsSound(c, [calls EXCEPT ![n] = answer], w)
<1> USE DEF Asked, Broken, Denied, Recognised, Owned, Details, Identity, License, UserDetails
<1>1. CASE /\ calls \in [{Identity} -> {Asked, Broken, Denied, Recognised}]
           /\ calls[Identity] = Recognised => w.recognised /\ Subject(c) = Account[c.secret]
  <2>1. answer \in {Broken, Denied, Recognised}
    BY <1>1 DEF ServiceAnswer
  <2>2. ASSUME answer = Recognised PROVE Subject(c) = Account[c.secret] /\ w.recognised
    <3>1. Recognises(c)
      BY <1>1, <2>2 DEF ServiceAnswer
    <3> QED BY <3>1 DEF Recognises, Subject, UpToDate
  <2> QED BY <1>1, <2>1, <2>2 DEF CallsSound
<1>2. CASE /\ NeedsLicense(c) /\ w.recognised
           /\ calls \in [SecondCalls(c) -> {Asked, Broken, Denied, Owned, Details}]
           /\ calls[License] # Details
           /\ calls[License] = Owned => w.owned
  <2>1. n \in {License, UserDetails}
    BY <1>2 DEF SecondCalls
  <2>2. answer \in {Broken, Denied, Owned, Details} /\ (n = License => answer # Details)
    BY <2>1 DEF ServiceAnswer
  <2>3. ASSUME n = License, answer = Owned PROVE w.owned
    BY <1>2, <2>3, Subjects DEF ServiceAnswer, UpToDate
  <2> QED BY <1>2, <2>1, <2>2, <2>3 DEF CallsSound, SecondCalls
<1> QED BY <1>1, <1>2 DEF CallsSound

LEMMA ReturnStep ==
  ASSUME IInv, NEW v \in Verification, NEW n \in Call, Reply(v, n) \/ Break(v, n) PROVE IInv'
<1> DEFINE c == verification[v].cred
           calls == verification[v].calls
<1>1. PICK answer \in {ServiceAnswer(c, n), Broken} : Return(v, n, answer)
  BY DEF Reply, Break
<1>2. verification[v].state = "running" /\ n \in DOMAIN calls
  BY <1>1 DEF Return, UnderWay
<1> DEFINE next == Running(c, [calls EXCEPT ![n] = answer])
<1>3. verification' = [verification EXCEPT ![v] = next]
  <2>1. verification[v] = Running(c, calls)
    BY <1>2, RunningIsSound DEF IsRunning
  <2>2. [verification[v] EXCEPT !.calls[n] = answer] = next
    BY <2>1 DEF Running
  <2>3. verification' = [verification EXCEPT ![v] = [verification[v] EXCEPT !.calls[n] = answer]]
    BY <1>1 DEF Return
  <2> QED BY <2>2, <2>3
<1>4. CallsSound(c, [calls EXCEPT ![n] = answer], witness[v])
  BY <1>2, RunningIsSound, AnswersSound DEF IsRunning
<1>5. IsRunning(next) /\ next.cred = c /\ next.calls = [calls EXCEPT ![n] = answer]
  BY <1>2, RunningIsSound DEF IsRunning, Running
<1>6. Sound(next, witness[v], valid, owners)
  BY <1>2, <1>4, <1>5, RunningIsSound DEF Sound
<1> QED BY <1>1, <1>3, <1>6, SameHistory DEF Return

\* What the verifiers make of the answers.
LEMMA ConclusionsSound ==
  ASSUME IInv, NEW v \in Verification, Identified(v) \/ Licensed(v)
  PROVE  \E x :
           /\ verification' = [verification EXCEPT ![v] = x]
           /\ UNCHANGED <<valid, owners, witness>>
           /\ Sound(x, witness[v], valid, owners)
           /\ x.state = "provided" =>
                /\ witness[v].recognised
                /\ x.player \in {Account[verification[v].cred.secret],
                                 verification[v].cred.secret} \ {NoUser}
                /\ NeedsLicense(verification[v].cred) => witness[v].owned
<1> DEFINE c == verification[v].cred
           calls == verification[v].calls
           w == witness[v]
<1> USE DEF Asked, Broken, Denied, Recognised, Owned, Details, Identity, License, UserDetails
<1>1. verification[v].state = "running"
  BY DEF Identified, Licensed, Answered
<1>2. /\ c \in Credential
      /\ CallsSound(c, calls, w) /\ UpToDate(c, w, valid, owners)
      /\ w \in [recognised : BOOLEAN, owned : BOOLEAN]
  BY <1>1, RunningIsSound DEF IsRunning
<1>3. Failed.state # "provided" /\ Sound(Failed, w, valid, owners)
  BY <1>2 DEF Failed, Sound
<1>4. CASE Identified(v)
  <2> DEFINE next == AfterIdentity(c, calls[Identity])
             asked == [n \in SecondCalls(c) |-> Asked]
  <2>1. verification' = [verification EXCEPT ![v] = next] /\ UNCHANGED <<valid, owners, witness>>
    BY <1>4 DEF Identified, Continue
  <2>2. Identity \in DOMAIN calls /\ calls[Identity] # Asked
    BY <1>4 DEF Identified, Answered
  <2>3. CASE calls[Identity] \in {Broken, Denied}
    <3>1. next = Failed
      BY <2>3 DEF AfterIdentity
    <3> QED BY <1>3, <2>1, <3>1
  <2>4. CASE calls[Identity] \notin {Broken, Denied}
    <3>1. w.recognised /\ Subject(c) = Account[c.secret]
      BY <1>2, <2>2, <2>4 DEF CallsSound, SecondCalls
    <3>2. CASE NeedsLicense(c)
      <4>1. next = Running(c, asked)
        BY <2>4, <3>2 DEF AfterIdentity
      <4>2. CallsSound(c, asked, w)
        BY <3>1, <3>2 DEF CallsSound, SecondCalls
      <4>3. /\ IsRunning(next) /\ next.cred = c /\ next.calls = asked
            /\ next.state # "provided"
        BY <1>2, <4>1 DEF IsRunning, Running
      <4>4. Sound(next, w, valid, owners)
        BY <1>2, <4>2, <4>3 DEF Sound
      <4> QED BY <2>1, <4>3, <4>4
    <3>3. CASE ~NeedsLicense(c)
      <4>1. next = Provided(c, Subject(c))
        BY <2>4, <3>3 DEF AfterIdentity
      <4>2. /\ next \in [state : {"provided"}, cred : Credential, player : User \cup Secret]
            /\ next.player \in {Account[c.secret], c.secret} \ {NoUser}
        BY <1>2, <3>1, <4>1, Subjects, PlayersHaveIds
      <4>3. Sound(next, w, valid, owners)
        BY <1>2, <4>2 DEF Sound
      <4> QED BY <2>1, <3>1, <3>3, <4>2, <4>3
    <3> QED BY <3>2, <3>3
  <2> QED BY <2>3, <2>4
<1>5. CASE Licensed(v)
  <2> DEFINE next == AfterLicense(c, calls)
  <2>1. verification' = [verification EXCEPT ![v] = next] /\ UNCHANGED <<valid, owners, witness>>
    BY <1>5 DEF Licensed, Continue
  <2>2. License \in DOMAIN calls /\ calls[License] # Asked
    BY <1>5 DEF Licensed, Answered
  <2>3. CASE \E n \in DOMAIN calls : calls[n] \in {Denied, Broken}
    <3>1. next = Failed
      BY <2>3 DEF AfterLicense
    <3> QED BY <1>3, <2>1, <3>1
  <2>4. CASE ~(\E n \in DOMAIN calls : calls[n] \in {Denied, Broken})
    <3>1. w.recognised /\ w.owned
      BY <1>2, <2>2, <2>4 DEF CallsSound
    <3>2. next = Provided(c, Account[c.secret])
      BY <2>4 DEF AfterLicense
    <3>3. /\ next \in [state : {"provided"}, cred : Credential, player : User \cup Secret]
          /\ next.player \in {Account[c.secret], c.secret} \ {NoUser}
      BY <1>2, <3>2, Subjects, PlayersHaveIds
    <3>4. Sound(next, w, valid, owners)
      BY <1>2, <3>3 DEF Sound
    <3> QED BY <2>1, <3>1, <3>3, <3>4
  <2> QED BY <2>3, <2>4
<1> QED BY <1>4, <1>5

LEMMA FinishStep ==
  ASSUME IInv, NEW v \in Verification, Finish(v) PROVE IInv'
<1>1. Sound(Idle, Nothing, valid, owners)
  BY DEF Sound, Nothing
<1> QED BY <1>1, OneVerification DEF Finish

-----------------------------------------------------------------------------
LEMMA NextOK == IInv /\ [Next]_vars => IInv'
<1> SUFFICES ASSUME IInv, [Next]_vars PROVE IInv'
  OBVIOUS
<1>1. CASE \E v \in Verification, n \in Call : Reply(v, n) \/ Break(v, n)
  BY <1>1, ReturnStep
<1>2. CASE \E v \in Verification : Identified(v) \/ Licensed(v)
  BY <1>2, ConclusionsSound, SameHistory
<1>3. CASE \E v \in Verification : Finish(v)
  BY <1>3, FinishStep
<1>4. CASE \E v \in Verification, c \in Credential : Verify(v, c)
  BY <1>4, VerifyStep
<1>5. CASE TicketsChange \/ OwnersChange
  <2>1. \E vs \in SUBSET Secret, os \in SUBSET User : Change(vs, os)
    BY <1>5 DEF TicketsChange, OwnersChange, IInv
  <2> QED BY <2>1, ChangeStep
<1>6. CASE UNCHANGED vars
  BY <1>6 DEF vars, IInv
<1> QED BY <1>1, <1>2, <1>3, <1>4, <1>5, <1>6 DEF Next, Step

LEMMA Inductive == Spec => []IInv
  BY InitOK, NextOK, PTL DEF Spec

\* Type correctness: a player that is provided always has an id, and what is
\* under way is the first call, or those that follow it.
THEOREM TypeCorrect == Spec => []TypeOK
  BY Inductive, Typed, PTL

\* A player is provided only as the one its secret belongs to, for credentials
\* that were good after the verification began, and, where a licence is asked
\* for, for a user that owned the game then or later.
THEOREM Entitled == Spec => OnlyTheEntitled
<1> DEFINE Let(v) ==
      verification'[v].state = "provided" /\ verification[v].state = "running" =>
        /\ witness[v].recognised
        /\ verification'[v].player \in {Account[verification[v].cred.secret],
                                       verification[v].cred.secret} \ {NoUser}
        /\ NeedsLicense(verification[v].cred) => witness[v].owned
<1>1. IInv /\ [Next]_vars => [\A v \in Verification : Let(v)]_vars
  <2> SUFFICES ASSUME IInv, Next, NEW v \in Verification PROVE Let(v)
    OBVIOUS
  <2>1. CASE Identified(v) \/ Licensed(v)
    <3>1. PICK x :
            /\ verification' = [verification EXCEPT ![v] = x]
            /\ x.state = "provided" =>
                 /\ witness[v].recognised
                 /\ x.player \in {Account[verification[v].cred.secret],
                                  verification[v].cred.secret} \ {NoUser}
                 /\ NeedsLicense(verification[v].cred) => witness[v].owned
      BY <2>1, ConclusionsSound
    <3> QED BY <3>1 DEF IInv
  <2>2. CASE ~(Identified(v) \/ Licensed(v))
    <3>1. CASE verification'[v] = verification[v]
      BY <3>1
    <3>2. CASE \E n \in Call : Reply(v, n) \/ Break(v, n)
      <4>1. PICK n \in Call : Reply(v, n) \/ Break(v, n)
        BY <3>2
      <4>2. PICK answer : Return(v, n, answer)
        BY <4>1 DEF Reply, Break
      <4>3. verification'[v].state = verification[v].state
        BY <4>2, RunningIsSound DEF Return, UnderWay, IsRunning, Running, IInv
      <4> QED BY <4>3
    <3>3. CASE Finish(v) \/ \E c \in Credential : Verify(v, c)
      BY <3>3 DEF Finish, Verify, Idle
    <3>4. CASE Step(v)
      BY <2>2, <3>2, <3>3, <3>4 DEF Step
    <3>5. CASE \E w \in Verification \ {v} : Step(w) \/ \E c \in Credential : Verify(w, c)
      <4>1. PICK w \in Verification \ {v} : Step(w) \/ \E c \in Credential : Verify(w, c)
        BY <3>5
      <4>2. PICK x : verification' = [verification EXCEPT ![w] = x]
        <5>1. CASE \E n \in Call : Reply(w, n) \/ Break(w, n)
          BY <5>1 DEF Reply, Break, Return
        <5>2. CASE Identified(w) \/ Licensed(w) \/ Finish(w)
          BY <5>2 DEF Identified, Licensed, Continue, Finish
        <5>3. CASE \E c \in Credential : Verify(w, c)
          BY <5>3 DEF Verify
        <5> QED BY <4>1, <5>1, <5>2, <5>3 DEF Step
      <4> QED BY <3>1, <4>2 DEF IInv
    <3>6. CASE TicketsChange \/ OwnersChange
      BY <3>1, <3>6 DEF TicketsChange, OwnersChange, Change
    <3> QED BY <3>3, <3>4, <3>5, <3>6 DEF Next
  <2> QED BY <2>1, <2>2
<1> QED BY <1>1, Inductive, PTL DEF Spec, OnlyTheEntitled
=============================================================================
