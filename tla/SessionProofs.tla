--------------------------- MODULE SessionProofs ---------------------------
(***************************************************************************)
(* Proofs about Session for any number of sessions and calls.              *)
(***************************************************************************)
EXTENDS Session, TLAPS

\* A call that has written the session.
Written(c) == pc[c] \in {"rotated", "answered", "lost"}

\* A call is about a session that has been signed in.
CallsKnowSession == \A c \in Calls :
    pc[c] # "new" => sid[c] \in Sessions /\ life[sid[c]] # "none"

\* A device has the secret of its sign-in and those of the refreshes that were
\* answered, and none before the sign-in.
GotFromAnswers == \A s \in Sessions :
    /\ \A x \in got[s] : x = s \/ (x \in Calls /\ pc[x] = "answered")
    /\ life[s] = "none" => got[s] = {}

\* A refresh that went on presented a secret the device had.
PresentedWasGot == \A c \in Calls :
    pc[c] = "rotate" \/ Written(c) => presented[c] \in got[sid[c]]

\* The inductive invariant behind the rotation.
RotationInv == TypeOK /\ CallsKnowSession /\ GotFromAnswers /\ PresentedWasGot /\ SpentNeverReturns

\* A session deleted for good has no refresh that could write it back.
Gone == \A c \in Calls :
    pc[c] \in {"revoked", "killed"} /\ sid[c] \notin raced =>
        stored[sid[c]] = None /\ Rotating(sid[c]) = {}

\* An untroubled session: at most one refresh is under way, and what it leaves in
\* the key is the last secret the device has or is about to be sent.
Quiet(s) ==
    /\ \A c, d \in Pending(s) : c = d
    /\ \A c \in Calls : sid[c] = s /\ pc[c] = "rotated" => stored[s] \in {None, c}
    /\ (\A c \in Calls : sid[c] = s => pc[c] # "rotated") /\ got[s] # {} => stored[s] \in {None, held[s]}
    /\ \A c \in Calls : sid[c] = s => pc[c] # "reuse"

Untroubled == \A s \in Sessions \ troubled : Quiet(s)

-----------------------------------------------------------------------------
\* The initial state satisfies all of them.
LEMMA InitInv == Init => RotationInv /\ Gone /\ Untroubled
BY SessionConstants
   DEF Init, RotationInv, TypeOK, CallStates, CallsKnowSession, GotFromAnswers, PresentedWasGot,
       SpentNeverReturns, Written, Gone, Rotating, Untroubled, Quiet, Pending

\* One step of any actor keeps the rotation's invariant: a refresh writes a
\* secret that no device can have presented yet.
LEMMA RotationStep ==
    ASSUME RotationInv, [Next]_vars
    PROVE  RotationInv'
<1>. USE SessionConstants
         DEF RotationInv, TypeOK, CallStates, Secrets, CallsKnowSession, GotFromAnswers,
             PresentedWasGot, SpentNeverReturns, Written, Goto
<1>1. ASSUME NEW s \in Sessions, SignIn(s)
      PROVE  RotationInv'
  BY <1>1 DEF SignIn, Receive
<1>2. ASSUME NEW s \in Sessions, SignInLost(s)
      PROVE  RotationInv'
  BY <1>2 DEF SignInLost
<1>3. ASSUME NEW c \in Calls, NEW s \in Sessions, Revoke(c, s)
      PROVE  RotationInv'
  BY <1>3 DEF Revoke, Delete
<1>4. ASSUME NEW c \in Calls, NEW s \in Sessions, NEW x \in Secrets, GetSession(c, s, x)
      PROVE  RotationInv'
  <2>1. AfterGet(s, x) \in {"refused", "reuse", "expired", "rotate"}
    BY <1>4 DEF AfterGet
  <2>. QED BY <1>4, <2>1 DEF GetSession
<1>5. ASSUME NEW c \in Calls, RefreshStep(c)
      PROVE  RotationInv'
  <2>1. CASE UpdateSession(c)
    BY <2>1 DEF UpdateSession, Put
  <2>2. CASE UpdateSessionFails(c)
    BY <2>2 DEF UpdateSessionFails
  <2>3. CASE Answer(c)
    BY <2>3 DEF Answer, Receive
  <2>4. CASE AnswerLost(c)
    BY <2>4 DEF AnswerLost
  <2>5. CASE KillSession(c)
    BY <2>5 DEF KillSession, Delete
  <2>6. CASE KillSessionFails(c)
    BY <2>6 DEF KillSessionFails
  <2>. QED BY <1>5, <2>1, <2>2, <2>3, <2>4, <2>5, <2>6 DEF RefreshStep
<1>6. ASSUME NEW s \in Sessions, LastSecond(s)
      PROVE  RotationInv'
  BY <1>6 DEF LastSecond
<1>7. ASSUME NEW s \in Sessions, ExpiresAt(s) \/ Expire(s)
      PROVE  RotationInv'
  BY <1>7 DEF ExpiresAt, Expire
<1>8. CASE UNCHANGED vars
  BY <1>8 DEF vars
<1>. QED BY <1>1, <1>2, <1>3, <1>4, <1>5, <1>6, <1>7, <1>8 DEF Next

\* A key that is gone, with no refresh that has read it, is not written again.
LEMMA GoneStep ==
    ASSUME RotationInv, Gone, [Next]_vars
    PROVE  Gone'
<1>. USE SessionConstants
         DEF RotationInv, TypeOK, CallStates, Secrets, CallsKnowSession, Gone, Rotating, Goto
<1>1. ASSUME NEW s \in Sessions, SignIn(s) \/ SignInLost(s)
      PROVE  Gone'
  BY <1>1 DEF SignIn, SignInLost
<1>2. ASSUME NEW c \in Calls, NEW s \in Sessions, Revoke(c, s)
      PROVE  Gone'
  BY <1>2 DEF Revoke, Delete
<1>3. ASSUME NEW c \in Calls, NEW s \in Sessions, NEW x \in Secrets, GetSession(c, s, x)
      PROVE  Gone'
  <2>1. AfterGet(s, x) \notin {"revoked", "killed"}
    BY <1>3 DEF AfterGet
  <2>2. AfterGet(s, x) = "rotate" => stored[s] # None
    BY <1>3 DEF AfterGet
  <2>. QED BY <1>3, <2>1, <2>2 DEF GetSession
<1>4. ASSUME NEW c \in Calls, RefreshStep(c)
      PROVE  Gone'
  <2>1. CASE UpdateSession(c)
    BY <2>1 DEF UpdateSession, Put
  <2>2. CASE UpdateSessionFails(c)
    BY <2>2 DEF UpdateSessionFails
  <2>3. CASE Answer(c)
    BY <2>3 DEF Answer, Receive
  <2>4. CASE AnswerLost(c)
    BY <2>4 DEF AnswerLost
  <2>5. CASE KillSession(c)
    BY <2>5 DEF KillSession, Delete
  <2>6. CASE KillSessionFails(c)
    BY <2>6 DEF KillSessionFails
  <2>. QED BY <1>4, <2>1, <2>2, <2>3, <2>4, <2>5, <2>6 DEF RefreshStep
<1>5. ASSUME NEW s \in Sessions, LastSecond(s) \/ ExpiresAt(s) \/ Expire(s)
      PROVE  Gone'
  BY <1>5 DEF LastSecond, ExpiresAt, Expire
<1>6. CASE UNCHANGED vars
  BY <1>6 DEF vars
<1>. QED BY <1>1, <1>2, <1>3, <1>4, <1>5, <1>6 DEF Next

\* An untroubled session stays as it is described.
LEMMA UntroubledStep ==
    ASSUME RotationInv, Untroubled, [Next]_vars
    PROVE  Untroubled'
<1>. USE SessionConstants
         DEF RotationInv, TypeOK, CallStates, Secrets, CallsKnowSession, Untroubled, Quiet,
             Pending, Goto
<1>1. ASSUME NEW s \in Sessions, SignIn(s) \/ SignInLost(s)
      PROVE  Untroubled'
  BY <1>1 DEF SignIn, SignInLost, Receive, GotFromAnswers
<1>2. ASSUME NEW c \in Calls, NEW s \in Sessions, Revoke(c, s)
      PROVE  Untroubled'
  BY <1>2 DEF Revoke, Delete
<1>3. ASSUME NEW c \in Calls, NEW s \in Sessions, NEW x \in Secrets, GetSession(c, s, x)
      PROVE  Untroubled'
  <2>1. AfterGet(s, x) \in {"refused", "reuse", "expired", "rotate"}
    BY <1>3 DEF AfterGet
  <2>2. AfterGet(s, x) = "reuse" => stored[s] \notin {None, x}
    BY <1>3 DEF AfterGet
  <2>3. s \notin troubled' => AfterGet(s, x) # "reuse"
    BY <1>3, <2>2 DEF GetSession
  <2>. QED BY <1>3, <2>1, <2>3 DEF GetSession
<1>4. ASSUME NEW c \in Calls, RefreshStep(c)
      PROVE  Untroubled'
  <2>1. CASE UpdateSession(c)
    BY <2>1 DEF UpdateSession, Put
  <2>2. CASE UpdateSessionFails(c)
    BY <2>2 DEF UpdateSessionFails
  <2>3. CASE Answer(c)
    BY <2>3 DEF Answer, Receive
  <2>4. CASE AnswerLost(c)
    BY <2>4 DEF AnswerLost
  <2>5. CASE KillSession(c)
    BY <2>5 DEF KillSession, Delete
  <2>6. CASE KillSessionFails(c)
    BY <2>6 DEF KillSessionFails
  <2>. QED BY <1>4, <2>1, <2>2, <2>3, <2>4, <2>5, <2>6 DEF RefreshStep
<1>5. ASSUME NEW s \in Sessions, LastSecond(s) \/ ExpiresAt(s) \/ Expire(s)
      PROVE  Untroubled'
  BY <1>5 DEF LastSecond, ExpiresAt, Expire
<1>6. CASE UNCHANGED vars
  BY <1>6 DEF vars
<1>. QED BY <1>1, <1>2, <1>3, <1>4, <1>5, <1>6 DEF Next

-----------------------------------------------------------------------------
\* The three invariants hold in every reachable state of SignIn, RefreshToken
\* and Revoke.
THEOREM SessionInvariant == Spec => [](RotationInv /\ Gone /\ Untroubled)
<1>1. Init => RotationInv /\ Gone /\ Untroubled
  BY InitInv
<1>2. RotationInv /\ Gone /\ Untroubled /\ [Next]_vars => (RotationInv /\ Gone /\ Untroubled)'
  BY RotationStep, GoneStep, UntroubledStep
<1>. QED BY <1>1, <1>2, PTL DEF Spec

\* Sessions keep their types, and a call that has begun names its session.
THEOREM SessionTypes == Spec => []TypeOK
BY SessionInvariant, PTL DEF RotationInv

\* A refresh token that RefreshToken has rotated is dead for good, under any
\* number of racing refreshes, lost answers and failed writes.
THEOREM RotatedIsDead == Spec => []SpentNeverReturns
BY SessionInvariant, PTL DEF RotationInv

\* A revoked or killed session stays deleted unless a refresh had read it before.
THEOREM RevokedIsGone == Spec => []DeletedForGood
<1>1. Gone => DeletedForGood
  BY DEF Gone, DeletedForGood
<1>. QED BY <1>1, SessionInvariant, PTL

\* RefreshToken's reuse detection never hits a device that refreshes one at a
\* time and gets its answers.
THEOREM HonestDevicesAreSafe == Spec => []NoFalseReuse
<1>1. RotationInv /\ Untroubled => NoFalseReuse
  BY DEF RotationInv, TypeOK, CallsKnowSession, Untroubled, Quiet, NoFalseReuse
<1>. QED BY <1>1, SessionInvariant, PTL

\* The sessions and the calls agree in every behaviour.
THEOREM SessionStaysConsistent == Spec => []SessionConsistent
BY SessionTypes, RotatedIsDead, PTL DEF SessionConsistent
=============================================================================
