------------------------ MODULE DeviceSessionProofs ------------------------
(***************************************************************************)
(* Theorems about DeviceSession, for any number of concurrent requests,    *)
(* any reuse interval and any lifetime: an ended session stays ended, the  *)
(* chain of its secrets never forks, and three compare-and-sets suffice.   *)
(***************************************************************************)
EXTENDS DeviceSession, TLAPS

\* Requests that hold a secret not stored yet.
Rotating == {r \in Request : pc[r] \in {"refreshRead", "swap"}}

\* Whatever the state mentions was generated.
Known ==
    /\ session.hash \in 0..generated
    /\ \A r \in Request : /\ presented[r] \in 0..generated
                          /\ fresh[r] \in 0..generated
                          /\ seen[r].hash \in 0..generated
    /\ replacedBy \subseteq (1..generated) \X (1..generated)
    /\ ended \subseteq 1..generated
    /\ \A s \in 1..generated : origin[s] \in 1..generated

\* A secret in the making is nowhere else yet, and belongs to the sign-in of the
\* secret it is to replace.
FreshUnused ==
    \A r \in Rotating :
        /\ fresh[r] # NoSecret /\ presented[r] # NoSecret
        /\ fresh[r] # session.hash
        /\ \A q \in Request : fresh[r] # seen[q].hash
        /\ \A q \in Rotating : fresh[r] = fresh[q] => r = q
        /\ \A p \in replacedBy : p[1] # fresh[r]
        /\ origin[fresh[r]] = origin[presented[r]]

\* A session that has rotated names the secret its own one replaced.
Linked(s) == s.prev # NoSecret => /\ <<s.prev, s.hash>> \in replacedBy
                                  /\ origin[s.prev] = origin[s.hash]

SessionsLinked == Linked(session) /\ \A r \in Request : Linked(seen[r])

\* The stored secret was never replaced.
StoredIsLast == session.hash # NoSecret => \A p \in replacedBy : p[1] # session.hash

\* What a request decided on: a session that recognised its secret.
SeenMatches ==
    \A r \in Rotating :
        pc[r] = "swap" \/ attempt[r] > 0 =>
            seen[r].hash # NoSecret /\ Matches(seen[r], presented[r])

AttemptsLeft ==
    \A r \in Request : /\ r \in Rotating => attempt[r] < MaxAttempts
                       /\ pc[r] = "idle" => attempt[r] = 0

Core == /\ TypeOK /\ AttemptsLeft
        /\ Known /\ FreshUnused
        /\ SessionsLinked /\ StoredIsLast /\ SeenMatches
        /\ ChainIsLinear /\ EndedStaysEnded

\* Where a rotation that lost a race stands.  After one loss the secret it saw
\* stored is gone for good; after two its own secret is, so it does not swap again.
Losing ==
    \A r \in Rotating :
        /\ pc[r] = "refreshRead" => attempt[r] <= 2
        /\ pc[r] = "refreshRead" /\ attempt[r] > 0 => seen[r].hash # session.hash
        /\ pc[r] = "refreshRead" /\ attempt[r] = 2 => presented[r] # seen[r].hash
        /\ pc[r] = "swap" => attempt[r] <= 1
        /\ pc[r] = "swap" /\ attempt[r] = 1 => presented[r] # seen[r].hash

----------------------------------------------------------------------------
(* Types *)

\* classifySecret says to rotate only for a session that recognises the secret.
LEMMA Recognised ==
    ASSUME NEW s, NEW secret, NEW at,
           classifySecret(s, secret, at) \in {"current", "previous"}
    PROVE  s.hash # NoSecret /\ Matches(s, secret)
BY DEF classifySecret

LEMMA NoSessionType == NoSession \in Session
BY SessionAssumption DEF NoSession, Session, NoSecret

LEMMA FinishType ==
    ASSUME TypeOK, NEW r \in Request, Finish(r)
    PROVE  /\ pc' \in [Request -> Pc]
           /\ presented' \in [Request -> 0..MaxSecrets]
           /\ fresh' \in [Request -> 0..MaxSecrets]
           /\ startedAt' \in [Request -> 0..MaxTime]
           /\ seen' \in [Request -> Session]
           /\ attempt' \in [Request -> 0..MaxAttempts]
BY NoSessionType, SessionAssumption DEF TypeOK, Finish, Pc, NoSecret

LEMMA ContinueType ==
    ASSUME TypeOK, NEW r \in Request, NEW w \in Pc, Continue(r, w)
    PROVE  /\ pc' \in [Request -> Pc]
           /\ presented' \in [Request -> 0..MaxSecrets]
           /\ fresh' \in [Request -> 0..MaxSecrets]
           /\ startedAt' \in [Request -> 0..MaxTime]
           /\ seen' \in [Request -> Session]
           /\ attempt' \in [Request -> 0..MaxAttempts]
BY DEF TypeOK, Continue

\* What a session that is ended leaves in the history.
LEMMA StoredOrigin ==
    ASSUME TypeOK, Known, session.hash # NoSecret
    PROVE  origin[session.hash] \in 1..generated /\ origin[session.hash] \in Secret
<1>1. session.hash \in 1..generated
  BY DEF Known, TypeOK, NoSecret
<1>2. origin[session.hash] \in 1..generated
  BY <1>1 DEF Known
<1>3. generated \in 0..MaxSecrets
  BY DEF TypeOK
<1> QED BY <1>2, <1>3, SessionAssumption DEF Secret

LEMMA TypeStep == Core /\ [Next]_vars => TypeOK' /\ AttemptsLeft'
<1> SUFFICES ASSUME Core, [Next]_vars PROVE TypeOK' /\ AttemptsLeft'
  OBVIOUS
<1> USE SessionAssumption DEF Core, AttemptsLeft, Rotating
<1>1. CASE UNCHANGED vars
  BY <1>1 DEF TypeOK, vars, requestVars, history
<1>2. CASE Tick
  BY <1>2 DEF TypeOK, Tick, requestVars, history
<1>3. CASE AccountRemoved
  BY <1>3 DEF TypeOK, AccountRemoved, requestVars, history
<1>4. CASE SignIn
  <2>1. generated + 1 \in Secret /\ generated' \in 0..MaxSecrets
    BY <1>4 DEF TypeOK, SignIn, Secret
  <2>2. session' \in Session
    BY <1>4, <2>1 DEF TypeOK, SignIn, Session, Secret, NoSecret
  <2>3. origin' \in [Secret -> 0..MaxSecrets]
    BY <1>4, <2>1 DEF TypeOK, SignIn, Secret
  <2>4. session.hash # NoSecret => origin[session.hash] \in Secret
    BY StoredOrigin
  <2>5. ended' \subseteq Secret
    BY <1>4, <2>4 DEF TypeOK, SignIn
  <2> QED BY <1>4, <2>1, <2>2, <2>3, <2>5 DEF TypeOK, SignIn, requestVars
<1>5. ASSUME NEW r \in Request, NEW s \in 1..generated, RefreshStart(r, s)
      PROVE  TypeOK' /\ AttemptsLeft'
  <2>1. generated + 1 \in Secret /\ generated' \in 0..MaxSecrets /\ s \in Secret
    BY <1>5 DEF TypeOK, RefreshStart, Secret
  <2>2. presented' \in [Request -> 0..MaxSecrets] /\ fresh' \in [Request -> 0..MaxSecrets]
    BY <1>5, <2>1, SMTT(30) DEF TypeOK, RefreshStart, Secret
  <2>3. startedAt' \in [Request -> 0..MaxTime] /\ pc' \in [Request -> Pc]
    BY <1>5, SMTT(30) DEF TypeOK, RefreshStart, Pc
  <2>4. origin' \in [Secret -> 0..MaxSecrets]
    BY <1>5, <2>1, SMTT(30) DEF TypeOK, RefreshStart, Secret
  <2> QED BY <1>5, <2>1, <2>2, <2>3, <2>4 DEF TypeOK, RefreshStart
<1>6. ASSUME NEW r \in Request, NEW s \in 1..generated, LogoutStart(r, s)
      PROVE  TypeOK' /\ AttemptsLeft'
  BY <1>6 DEF TypeOK, LogoutStart, Pc, history
<1>7. ASSUME NEW r \in Request, RefreshRead(r) PROVE TypeOK' /\ AttemptsLeft'
  <2>1. CASE Finish(r)
    <3>1. AttemptsLeft'
      BY <1>7, <2>1 DEF TypeOK, Finish
    <3> QED BY <1>7, <2>1, <3>1, FinishType DEF TypeOK, RefreshRead, history
  <2>2. CASE Continue(r, "clear")
    <3>1. AttemptsLeft'
      BY <1>7, <2>2 DEF TypeOK, Continue
    <3> QED BY <1>7, <2>2, <3>1, ContinueType DEF TypeOK, RefreshRead, history, Pc
  <2>3. CASE /\ pc' = [pc EXCEPT ![r] = "swap"]
             /\ seen' = [seen EXCEPT ![r] = session]
             /\ UNCHANGED <<presented, fresh, startedAt, attempt>>
    BY <1>7, <2>3 DEF TypeOK, RefreshRead, history, Pc
  <2> QED BY <1>7, <2>1, <2>2, <2>3 DEF RefreshRead
<1>8. ASSUME NEW r \in Request, Swap(r) PROVE TypeOK' /\ AttemptsLeft'
  <2>1. seen[r].hash \in Secret /\ fresh[r] \in Secret
    <3>1. r \in Rotating /\ pc[r] = "swap"
      BY <1>8 DEF Swap
    <3>2. seen[r].hash # 0 /\ fresh[r] # 0
      BY <3>1 DEF SeenMatches, FreshUnused, NoSecret
    <3>3. seen[r].hash \in 0..MaxSecrets /\ fresh[r] \in 0..MaxSecrets
      BY DEF TypeOK, Session
    <3> QED BY <3>2, <3>3 DEF Secret
  <2>2. CASE SwapAllowed(r)
    <3>1. session' \in Session
      BY <1>8, <2>2 DEF TypeOK, Swap, RotatedSession, Session
    <3>2. /\ replacedAt' \in [Secret -> 0..MaxTime]
          /\ replacedBy' \subseteq Secret \X Secret
      BY <1>8, <2>1, <2>2 DEF TypeOK, Swap
    <3>3. AttemptsLeft'
      BY <1>8, <2>2 DEF TypeOK, Swap, Continue
    <3> QED BY <1>8, <2>2, <3>1, <3>2, <3>3, ContinueType DEF TypeOK, Swap, Pc
  <2>3. CASE ~SwapAllowed(r)
    BY <1>8, <2>3 DEF TypeOK, Swap, Decided, Pc
  <2> QED BY <2>2, <2>3
<1>9. ASSUME NEW r \in Request, Clear(r) PROVE TypeOK' /\ AttemptsLeft'
  <2>1. session.hash # NoSecret => origin[session.hash] \in Secret
    BY StoredOrigin
  <2>2. AttemptsLeft'
    BY <1>9 DEF TypeOK, Clear, ClearSession, Finish
  <2> QED BY <1>9, <2>1, <2>2, FinishType, NoSessionType DEF TypeOK, Clear, ClearSession
<1>10. ASSUME NEW r \in Request, LoadUser(r) PROVE TypeOK' /\ AttemptsLeft'
  <2>1. Finish(r) \/ Continue(r, "clearGone")
    BY <1>10 DEF LoadUser
  <2>2. AttemptsLeft'
    BY <1>10, <2>1 DEF TypeOK, Finish, Continue
  <2>3. /\ pc' \in [Request -> Pc]
        /\ presented' \in [Request -> 0..MaxSecrets]
        /\ fresh' \in [Request -> 0..MaxSecrets]
        /\ startedAt' \in [Request -> 0..MaxTime]
        /\ seen' \in [Request -> Session]
        /\ attempt' \in [Request -> 0..MaxAttempts]
    BY <2>1, FinishType, ContinueType DEF Pc
  <2>4. UNCHANGED <<now, session, generated, userExists, history>>
    BY <1>10 DEF LoadUser
  <2> QED BY <2>2, <2>3, <2>4 DEF TypeOK, history
<1>11. ASSUME NEW r \in Request, LogoutRead(r) PROVE TypeOK' /\ AttemptsLeft'
  <2>1. Finish(r) \/ Continue(r, "clear")
    BY <1>11 DEF LogoutRead
  <2>2. AttemptsLeft'
    BY <1>11, <2>1 DEF TypeOK, Finish, Continue
  <2> QED BY <1>11, <2>1, <2>2, FinishType, ContinueType DEF TypeOK, LogoutRead, history, Pc
<1> QED
  BY <1>1, <1>2, <1>3, <1>4, <1>5, <1>6, <1>7, <1>8, <1>9, <1>10, <1>11
  DEF Next, RequestStep

----------------------------------------------------------------------------
(* Steps that store no secret and let no request go on rotating *)

Quiet ==
    /\ session' \in {session, NoSession}
    /\ UNCHANGED <<generated, origin, replacedBy>>
    /\ \/ ended' = ended
       \/ /\ session' = NoSession /\ session.hash # NoSecret
          /\ ended' = ended \cup {origin[session.hash]}
    /\ \A r \in Request : /\ presented'[r] \in 0..generated
                          /\ fresh'[r] \in 0..generated
                          /\ seen'[r] \in {seen[r], NoSession}
    /\ \A r \in Rotating' : /\ r \in Rotating
                           /\ pc'[r] = pc[r] /\ presented'[r] = presented[r]
                           /\ fresh'[r] = fresh[r] /\ seen'[r] = seen[r]
                           /\ attempt'[r] = attempt[r]

LEMMA FinishQuiet ==
    ASSUME TypeOK, Known, NEW r \in Request, Finish(r),
           session' \in {session, NoSession},
           UNCHANGED <<generated, origin, replacedBy>>,
           \/ ended' = ended
           \/ /\ session' = NoSession /\ session.hash # NoSecret
              /\ ended' = ended \cup {origin[session.hash]}
    PROVE  Quiet
BY DEF Quiet, Finish, TypeOK, Known, Rotating, NoSecret

LEMMA ContinueQuiet ==
    ASSUME TypeOK, Known, NEW r \in Request, NEW w \in Pc \ {"refreshRead", "swap"},
           Continue(r, w), UNCHANGED <<session, generated, origin, replacedBy, ended>>
    PROVE  Quiet
BY DEF Quiet, Continue, TypeOK, Known, Rotating

LEMMA QuietSteps ==
    ASSUME TypeOK, Known
    PROVE  /\ UNCHANGED vars \/ Tick \/ AccountRemoved => Quiet
           /\ \A r \in Request :
                 /\ Clear(r) \/ LoadUser(r) \/ LogoutRead(r) => Quiet
                 /\ \A s \in 1..generated : LogoutStart(r, s) => Quiet
                 /\ RefreshRead(r) => \/ Quiet
                                     \/ /\ pc' = [pc EXCEPT ![r] = "swap"]
                                        /\ seen' = [seen EXCEPT ![r] = session]
                                        /\ UNCHANGED <<presented, fresh, startedAt, attempt>>
<1>1. UNCHANGED vars \/ Tick \/ AccountRemoved => Quiet
  BY DEF Quiet, vars, Tick, AccountRemoved, requestVars, history, Known, Rotating
<1>2. ASSUME NEW r \in Request, Clear(r) PROVE Quiet
  BY <1>2, FinishQuiet DEF Clear, ClearSession
<1>3. ASSUME NEW r \in Request, LoadUser(r) PROVE Quiet
  <2>1. Finish(r) \/ Continue(r, "clearGone")
    BY <1>3 DEF LoadUser
  <2>2. UNCHANGED <<session, generated, origin, replacedBy, ended>>
    BY <1>3 DEF LoadUser, history
  <2> QED BY <2>1, <2>2, FinishQuiet, ContinueQuiet DEF Pc
<1>4. ASSUME NEW r \in Request, LogoutRead(r) PROVE Quiet
  <2>1. Finish(r) \/ Continue(r, "clear")
    BY <1>4 DEF LogoutRead
  <2>2. UNCHANGED <<session, generated, origin, replacedBy, ended>>
    BY <1>4 DEF LogoutRead, history
  <2> QED BY <2>1, <2>2, FinishQuiet, ContinueQuiet DEF Pc
<1>5. ASSUME NEW r \in Request, NEW s \in 1..generated, LogoutStart(r, s) PROVE Quiet
  BY <1>5 DEF Quiet, LogoutStart, history, TypeOK, Known, Rotating
<1>6. ASSUME NEW r \in Request, RefreshRead(r)
      PROVE  \/ Quiet
             \/ /\ pc' = [pc EXCEPT ![r] = "swap"]
                /\ seen' = [seen EXCEPT ![r] = session]
                /\ UNCHANGED <<presented, fresh, startedAt, attempt>>
  <2>1. UNCHANGED <<session, generated, origin, replacedBy, ended>>
    BY <1>6 DEF RefreshRead, history
  <2>2. CASE Finish(r)
    BY <2>1, <2>2, FinishQuiet
  <2>3. CASE Continue(r, "clear")
    BY <2>1, <2>3, ContinueQuiet DEF Pc
  <2> QED BY <1>6, <2>2, <2>3 DEF RefreshRead
<1> QED BY <1>1, <1>2, <1>3, <1>4, <1>5, <1>6

\* The part of Core that is not about types.
Chain == /\ Known /\ FreshUnused
         /\ SessionsLinked /\ StoredIsLast /\ SeenMatches
         /\ ChainIsLinear /\ EndedStaysEnded

LEMMA NoSessionFields == NoSession.hash = NoSecret /\ NoSession.prev = NoSecret
BY DEF NoSession

LEMMA QuietChain == Core /\ Quiet => Chain'
<1> SUFFICES ASSUME Core, Quiet PROVE Chain'
  OBVIOUS
<1> USE NoSessionFields DEF Core
<1>1. Known'
  <2>1. session.hash # NoSecret => origin[session.hash] \in 1..generated
    BY StoredOrigin
  <2>2. \A r \in Request : seen'[r].hash \in 0..generated
    BY DEF Quiet, Known, TypeOK, NoSecret
  <2>3. session'.hash \in 0..generated
    BY DEF Quiet, Known, TypeOK, NoSecret
  <2> QED BY <2>1, <2>2, <2>3 DEF Quiet, Known
<1>2. FreshUnused'
  BY DEF Quiet, FreshUnused
<1>3. SessionsLinked'
  BY DEF Quiet, SessionsLinked, Linked
<1>4. StoredIsLast'
  BY DEF Quiet, StoredIsLast
<1>5. SeenMatches'
  BY DEF Quiet, SeenMatches, Matches, hashesEqual
<1>6. ChainIsLinear'
  BY DEF Quiet, ChainIsLinear
<1>7. EndedStaysEnded'
  BY DEF Quiet, EndedStaysEnded
<1> QED BY <1>1, <1>2, <1>3, <1>4, <1>5, <1>6, <1>7 DEF Chain

----------------------------------------------------------------------------
(* Steps that generate or store a secret *)

LEMMA SignInChain == Core /\ SignIn => Chain'
<1> SUFFICES ASSUME Core, SignIn PROVE Chain'
  OBVIOUS
<1> USE DEF Core
<1> DEFINE s == generated + 1
<1>1. /\ s \in Secret /\ generated \in Nat /\ generated' = s
      /\ session'.hash = s /\ session'.prev = NoSecret
      /\ \A t \in 1..generated : t \in Secret /\ t # s /\ origin'[t] = origin[t]
      /\ origin'[s] = s
  BY SessionAssumption DEF TypeOK, SignIn, Secret
<1>2. UNCHANGED <<requestVars, replacedBy>>
  BY DEF SignIn
<1>3. Rotating' = Rotating
  BY <1>2 DEF Rotating, requestVars
<1>4. Known'
  <2>1. session.hash # NoSecret => origin[session.hash] \in 1..generated
    BY StoredOrigin
  <2>2. ended' \subseteq 1..generated
    BY <2>1 DEF SignIn, Known
  <2>3. \A t \in 1..s : origin'[t] \in 1..s
    BY <1>1 DEF Known
  <2> QED BY <1>1, <1>2, <2>2, <2>3 DEF Known, requestVars
<1>5. FreshUnused'
  <2>1. \A r \in Rotating : /\ fresh[r] \in 1..generated /\ presented[r] \in 1..generated
                           /\ fresh[r] # s
    BY <1>1 DEF FreshUnused, Known, Rotating, NoSecret
  <2> QED BY <1>1, <1>2, <1>3, <2>1 DEF FreshUnused, requestVars
<1>6. SessionsLinked'
  <2>1. ASSUME NEW r \in Request PROVE Linked(seen[r])'
    <3>1. CASE seen[r].prev = NoSecret
      BY <1>2, <3>1 DEF Linked, requestVars
    <3>2. CASE seen[r].prev # NoSecret
      <4>1. <<seen[r].prev, seen[r].hash>> \in replacedBy
        BY <3>2 DEF SessionsLinked, Linked
      <4>2. seen[r].prev \in 1..generated /\ seen[r].hash \in 1..generated
        BY <4>1 DEF Known
      <4> QED BY <1>1, <1>2, <3>2, <4>2 DEF SessionsLinked, Linked, requestVars
    <3> QED BY <3>1, <3>2
  <2> QED BY <1>1, <2>1 DEF SessionsLinked, Linked
<1>7. StoredIsLast'
  BY <1>1, <1>2 DEF StoredIsLast, Known
<1>8. SeenMatches'
  BY <1>2, <1>3 DEF SeenMatches, Matches, hashesEqual, requestVars
<1>9. ChainIsLinear'
  BY <1>2 DEF ChainIsLinear
<1>10. EndedStaysEnded'
  <2>1. session.hash # NoSecret => origin[session.hash] \in 1..generated
    BY StoredOrigin
  <2>2. s \notin ended'
    BY <1>1, <2>1 DEF SignIn, Known
  <2> QED BY <1>1, <2>2 DEF EndedStaysEnded
<1> QED BY <1>4, <1>5, <1>6, <1>7, <1>8, <1>9, <1>10 DEF Chain

LEMMA RefreshStartChain ==
    ASSUME Core, NEW r \in Request, NEW secret \in 1..generated, RefreshStart(r, secret)
    PROVE  Chain'
<1> USE DEF Core
<1> DEFINE f == generated + 1
<1>1. /\ f \in Secret /\ generated \in Nat /\ generated' = f
      /\ \A t \in 1..generated : t \in Secret /\ t # f /\ origin'[t] = origin[t]
      /\ origin'[f] = origin[secret]
  <2>1. /\ generated \in 0..MaxSecrets /\ generated < MaxSecrets /\ generated' = f
        /\ origin \in [Secret -> 0..MaxSecrets] /\ origin' = [origin EXCEPT ![f] = origin[secret]]
    BY DEF TypeOK, RefreshStart
  <2>2. f \in Secret /\ generated \in Nat
    BY <2>1, SessionAssumption DEF Secret
  <2>3. \A t \in 1..generated : t \in Secret /\ t # f
    BY <2>1, SessionAssumption DEF Secret
  <2> HIDE DEF f
  <2> QED BY <2>1, <2>2, <2>3
<1>2. UNCHANGED <<session, seen, attempt, replacedBy, ended>>
  BY DEF RefreshStart
<1>3. /\ pc[r] = "idle" /\ r \notin Rotating /\ attempt[r] = 0
      /\ Rotating' = Rotating \cup {r} /\ pc'[r] = "refreshRead"
      /\ presented'[r] = secret /\ fresh'[r] = f
      /\ \A q \in Request \ {r} : /\ pc'[q] = pc[q] /\ presented'[q] = presented[q]
                                 /\ fresh'[q] = fresh[q]
  BY DEF RefreshStart, TypeOK, Rotating, AttemptsLeft
<1>4. Known'
  <2>1. \A t \in 1..f : origin'[t] \in 1..f
    BY <1>1 DEF Known
  <2>2. \A q \in Request : /\ presented'[q] \in 0..f /\ fresh'[q] \in 0..f
                          /\ seen'[q].hash \in 0..f
    BY <1>1, <1>2, <1>3 DEF Known
  <2> QED BY <1>1, <1>2, <2>1, <2>2 DEF Known
<1>5. FreshUnused'
  <2>1. ASSUME NEW q \in Rotating
        PROVE  /\ q # r /\ q \in Request
               /\ fresh[q] \in 1..generated /\ presented[q] \in 1..generated
    BY <1>1, <1>3 DEF FreshUnused, Known, Rotating, NoSecret
  <2>2. /\ f # NoSecret /\ secret # NoSecret /\ f # session.hash
        /\ \A q \in Request : f # seen[q].hash
        /\ \A p \in replacedBy : p[1] # f
        /\ origin'[f] = origin'[secret]
    BY <1>1 DEF Known, NoSecret
  <2>3. ASSUME NEW q \in Rotating
        PROVE  /\ fresh'[q] = fresh[q] /\ presented'[q] = presented[q] /\ fresh[q] # f
               /\ origin'[fresh[q]] = origin'[presented[q]]
    BY <1>1, <1>3, <2>1 DEF FreshUnused
  <2> QED BY <1>2, <1>3, <2>2, <2>3 DEF FreshUnused
<1>6. SessionsLinked'
  <2>1. ASSUME NEW s, Linked(s) PROVE Linked(s)'
    <3>1. CASE s.prev = NoSecret
      BY <3>1 DEF Linked
    <3>2. CASE s.prev # NoSecret
      BY <1>1, <1>2, <2>1, <3>2 DEF Linked, Known
    <3> QED BY <3>1, <3>2
  <2> QED BY <1>2, <2>1 DEF SessionsLinked, Linked
<1>7. StoredIsLast' /\ ChainIsLinear'
  BY <1>2 DEF StoredIsLast, ChainIsLinear
<1>8. SeenMatches'
  BY <1>2, <1>3 DEF SeenMatches, Matches, hashesEqual, Rotating
<1>9. EndedStaysEnded'
  <2>1. CASE session.hash = NoSecret
    BY <1>2, <2>1 DEF EndedStaysEnded
  <2>2. CASE session.hash # NoSecret
    <3>1. session.hash \in 1..generated
      BY <1>1, <2>2 DEF Known, NoSecret
    <3>2. session.prev # NoSecret => session.prev \in 1..generated
      BY DEF SessionsLinked, Linked, Known
    <3> QED BY <1>1, <1>2, <2>2, <3>1, <3>2 DEF EndedStaysEnded
  <2> QED BY <2>1, <2>2
<1> QED BY <1>4, <1>5, <1>6, <1>7, <1>8, <1>9 DEF Chain

LEMMA ReadChain ==
    ASSUME Core, NEW r \in Request, RefreshRead(r),
           pc' = [pc EXCEPT ![r] = "swap"],
           seen' = [seen EXCEPT ![r] = session],
           UNCHANGED <<presented, fresh, startedAt, attempt>>
    PROVE  Chain' /\ session.hash # NoSecret /\ Matches(session, presented[r])
<1> USE DEF Core
<1>1. session.hash # NoSecret /\ Matches(session, presented[r])
  <2>1. pc'[r] = "swap"
    BY DEF TypeOK
  <2>2. classifySecret(session, presented[r], startedAt[r]) \in {"current", "previous"}
    BY <2>1 DEF RefreshRead, Finish, Continue, TypeOK
  <2> QED BY <2>2, Recognised
<1>2. UNCHANGED <<session, generated, origin, replacedBy, ended>>
  BY DEF RefreshRead, history
<1>3. /\ Rotating' = Rotating /\ r \in Rotating
      /\ \A q \in Request \ {r} : pc'[q] = pc[q]
      /\ \A q \in Request : seen'[q] = IF q = r THEN session ELSE seen[q]
  BY DEF RefreshRead, TypeOK, Rotating
<1>4. Known'
  BY <1>2, <1>3 DEF Known
<1>5. FreshUnused'
  BY <1>2, <1>3 DEF FreshUnused
<1>6. SessionsLinked'
  BY <1>2, <1>3 DEF SessionsLinked, Linked
<1>7. StoredIsLast' /\ ChainIsLinear' /\ EndedStaysEnded'
  BY <1>2 DEF StoredIsLast, ChainIsLinear, EndedStaysEnded
<1>8. SeenMatches'
  BY <1>1, <1>3 DEF SeenMatches, Matches, hashesEqual, Rotating
<1> QED BY <1>1, <1>4, <1>5, <1>6, <1>7, <1>8 DEF Chain

LEMMA SwapLostChain ==
    ASSUME Core, NEW r \in Request, Swap(r), ~SwapAllowed(r)
    PROVE  Chain'
<1> USE DEF Core
<1>1. UNCHANGED <<session, generated, origin, replacedBy, ended, presented, fresh, seen>>
  BY DEF Swap
<1>2. /\ Rotating' \subseteq Rotating
      /\ pc[r] = "swap"
      /\ \A q \in Request \ {r} : pc'[q] = pc[q] /\ attempt'[q] = attempt[q]
  BY DEF Swap, TypeOK, Rotating
<1>3. Known' /\ SessionsLinked' /\ StoredIsLast' /\ ChainIsLinear' /\ EndedStaysEnded'
  BY <1>1 DEF Known, SessionsLinked, Linked, StoredIsLast, ChainIsLinear, EndedStaysEnded
<1>4. FreshUnused'
  BY <1>1, <1>2 DEF FreshUnused
<1>5. SeenMatches'
  BY <1>1, <1>2 DEF SeenMatches, Matches, hashesEqual, Rotating
<1> QED BY <1>3, <1>4, <1>5 DEF Chain

\* The one that matters: the compare-and-set stores a secret.
LEMMA SwapWonChain ==
    ASSUME Core, NEW r \in Request, Swap(r), SwapAllowed(r)
    PROVE  Chain'
<1> USE DEF Core
<1>1. /\ pc[r] = "swap" /\ r \in Rotating
      /\ session.hash = seen[r].hash /\ session.hash # NoSecret
      /\ Matches(seen[r], presented[r])
  BY DEF Swap, SwapAllowed, Rotating, SeenMatches
<1>2. /\ session'.hash = fresh[r] /\ session'.prev = session.hash
      /\ replacedBy' = replacedBy \cup {<<session.hash, fresh[r]>>}
      /\ UNCHANGED <<generated, origin, ended, presented, fresh, seen, attempt>>
  BY <1>1 DEF Swap, RotatedSession, Continue
<1>3. /\ Rotating' = Rotating \ {r}
      /\ \A q \in Request \ {r} : pc'[q] = pc[q]
  BY DEF Swap, Continue, TypeOK, Rotating
<1>4. /\ fresh[r] # NoSecret /\ fresh[r] # session.hash
      /\ \A p \in replacedBy : p[1] # fresh[r]
      /\ origin[fresh[r]] = origin[presented[r]]
      /\ fresh[r] \in 1..generated /\ session.hash \in 1..generated
  BY <1>1 DEF FreshUnused, Known, TypeOK, NoSecret, Rotating
<1>5. origin[fresh[r]] = origin[session.hash]
  <2>1. presented[r] = seen[r].hash \/ (presented[r] = seen[r].prev /\ seen[r].prev # NoSecret)
    BY <1>1 DEF Matches, hashesEqual
  <2> QED BY <1>1, <1>4, <2>1 DEF SessionsLinked, Linked
<1>6. Known'
  BY <1>2, <1>4 DEF Known
<1>7. FreshUnused'
  BY <1>1, <1>2, <1>3 DEF FreshUnused, Rotating
<1>8. SessionsLinked'
  BY <1>2, <1>5 DEF SessionsLinked, Linked
<1>9. StoredIsLast'
  BY <1>2, <1>4 DEF StoredIsLast
<1>10. SeenMatches'
  BY <1>2, <1>3 DEF SeenMatches, Matches, hashesEqual, Rotating
<1>11. ChainIsLinear'
  BY <1>1, <1>2 DEF ChainIsLinear, StoredIsLast
<1>12. EndedStaysEnded'
  BY <1>1, <1>2, <1>5 DEF EndedStaysEnded
<1> QED BY <1>6, <1>7, <1>8, <1>9, <1>10, <1>11, <1>12 DEF Chain

----------------------------------------------------------------------------
(* Theorems *)

LEMMA CoreInit == Init => Core
<1> SUFFICES ASSUME Init PROVE Core
  OBVIOUS
<1> USE DEF Init
<1>1. TypeOK
  BY SessionAssumption, NoSessionType DEF TypeOK, Pc, NoSecret
<1>2. Rotating = {}
  BY DEF Rotating
<1>3. AttemptsLeft
  BY <1>2, SessionAssumption DEF AttemptsLeft
<1>4. Known
  BY NoSessionFields DEF Known, NoSecret
<1> QED
  BY <1>1, <1>2, <1>3, <1>4, NoSessionFields
  DEF Core, FreshUnused, SessionsLinked, Linked, StoredIsLast, SeenMatches,
      ChainIsLinear, EndedStaysEnded

LEMMA CoreStep == Core /\ [Next]_vars => Core'
<1> SUFFICES ASSUME Core, [Next]_vars PROVE Core'
  OBVIOUS
<1>1. TypeOK' /\ AttemptsLeft'
  BY TypeStep
<1>2. TypeOK /\ Known
  BY DEF Core
<1>3. CASE UNCHANGED vars \/ Tick \/ AccountRemoved
  BY <1>2, <1>3, QuietSteps, QuietChain, <1>1 DEF Core, Chain
<1>4. CASE SignIn
  BY <1>1, <1>4, SignInChain DEF Core, Chain
<1>5. ASSUME NEW r \in Request, RequestStep(r) PROVE Chain'
  <2>1. ASSUME NEW s \in 1..generated, RefreshStart(r, s) PROVE Chain'
    BY <2>1, RefreshStartChain
  <2>2. ASSUME NEW s \in 1..generated, LogoutStart(r, s) PROVE Chain'
    BY <1>2, <2>2, QuietSteps, QuietChain
  <2>3. CASE RefreshRead(r)
    BY <1>2, <2>3, QuietSteps, QuietChain, ReadChain
  <2>4. CASE Swap(r)
    BY <2>4, SwapWonChain, SwapLostChain
  <2>5. CASE Clear(r) \/ LoadUser(r) \/ LogoutRead(r)
    BY <1>2, <2>5, QuietSteps, QuietChain
  <2> QED BY <1>5, <2>1, <2>2, <2>3, <2>4, <2>5 DEF RequestStep
<1>6. CASE \E r \in Request : RequestStep(r)
  BY <1>1, <1>5, <1>6 DEF Core, Chain
<1> QED BY <1>3, <1>4, <1>6 DEF Next

LEMMA CoreInvariant == Spec => []Core
BY CoreInit, CoreStep, PTL DEF Spec

\* Every record, counter and history of the model stays within its type.
THEOREM TypeCorrect == Spec => []TypeOK
<1>1. Core => TypeOK
  BY DEF Core
<1> QED BY <1>1, CoreInvariant, PTL

\* The compare-and-set lets at most one refresh replace a secret, however many
\* present it and whatever signs in or out meanwhile.
THEOREM ChainNeverForks == Spec => []ChainIsLinear
<1>1. Core => ChainIsLinear
  BY DEF Core
<1> QED BY <1>1, CoreInvariant, PTL

\* No refresh in flight revives a session that was ended or replaced.
THEOREM NoResurrection == Spec => []EndedStaysEnded
<1>1. Core => EndedStaysEnded
  BY DEF Core
<1> QED BY <1>1, CoreInvariant, PTL

----------------------------------------------------------------------------
(* Three attempts suffice *)

LEMMA LosingInit == Init => Losing
BY DEF Init, Losing, Rotating

LEMMA LosingQuiet == Core /\ Losing /\ Quiet => Losing'
<1> SUFFICES ASSUME Core, Losing, Quiet PROVE Losing'
  OBVIOUS
<1>1. ASSUME NEW r \in Rotating', pc[r] = "swap" \/ attempt[r] > 0
      PROVE  seen[r].hash # NoSecret
  BY <1>1 DEF Core, SeenMatches, Quiet
<1> QED BY <1>1, NoSessionFields DEF Losing, Quiet

LEMMA LosingSignIn == Core /\ Losing /\ SignIn => Losing'
<1> SUFFICES ASSUME Core, Losing, SignIn PROVE Losing'
  OBVIOUS
<1>1. \A r \in Request : seen[r].hash # session'.hash
  BY DEF Core, Known, SignIn, TypeOK
<1>2. UNCHANGED requestVars /\ Rotating' = Rotating
  BY DEF SignIn, Rotating, requestVars
<1> QED BY <1>1, <1>2 DEF Losing, requestVars, Rotating

LEMMA LosingRefreshStart ==
    ASSUME Core, Losing, NEW r \in Request, NEW s \in 1..generated, RefreshStart(r, s)
    PROVE  Losing'
<1>1. /\ Rotating' = Rotating \cup {r} /\ r \notin Rotating
      /\ pc'[r] = "refreshRead" /\ attempt[r] = 0
      /\ \A q \in Rotating : pc'[q] = pc[q] /\ presented'[q] = presented[q]
      /\ UNCHANGED <<session, seen, attempt>>
  BY DEF Core, TypeOK, AttemptsLeft, RefreshStart, Rotating
<1> QED BY <1>1 DEF Losing

\* A read that still recognises the secret is at most the second one, and the
\* second finds the secret already replaced.
LEMMA LosingRead ==
    ASSUME Core, Losing, NEW r \in Request, RefreshRead(r),
           pc' = [pc EXCEPT ![r] = "swap"],
           seen' = [seen EXCEPT ![r] = session],
           UNCHANGED <<presented, fresh, startedAt, attempt>>
    PROVE  Losing'
<1> USE DEF Core
<1>1. session.hash # NoSecret /\ Matches(session, presented[r])
  BY ReadChain
<1>2. UNCHANGED <<session, replacedBy>>
  BY DEF RefreshRead, history
<1>3. /\ Rotating' = Rotating /\ r \in Rotating /\ pc[r] = "refreshRead"
      /\ pc'[r] = "swap" /\ seen'[r] = session
      /\ \A q \in Request \ {r} : pc'[q] = pc[q] /\ seen'[q] = seen[q]
      /\ attempt[r] \in Nat
  BY SessionAssumption DEF RefreshRead, TypeOK, Rotating
<1>4. CASE attempt[r] = 0
  BY <1>1, <1>2, <1>3, <1>4 DEF Losing, Rotating
<1>5. CASE attempt[r] > 0
  <2>1. /\ seen[r].hash # NoSecret /\ Matches(seen[r], presented[r])
        /\ seen[r].hash # session.hash /\ attempt[r] <= 2
        /\ attempt[r] = 2 => presented[r] # seen[r].hash
    BY <1>3, <1>5 DEF SeenMatches, Losing
  <2>2. presented[r] # session.hash
    <3>1. CASE presented[r] = seen[r].hash
      BY <2>1, <3>1
    <3>2. CASE presented[r] = seen[r].prev /\ seen[r].prev # NoSecret
      <4>1. <<presented[r], seen[r].hash>> \in replacedBy
        BY <3>2 DEF SessionsLinked, Linked
      <4> QED BY <1>1, <4>1 DEF StoredIsLast
    <3> QED BY <2>1, <3>1, <3>2 DEF Matches, hashesEqual
  <2>3. <<presented[r], session.hash>> \in replacedBy
    BY <1>1, <2>2 DEF Matches, hashesEqual, SessionsLinked, Linked
  <2>4. presented[r] = seen[r].hash
    <3>1. SUFFICES ASSUME presented[r] # seen[r].hash PROVE FALSE
      OBVIOUS
    <3>2. <<presented[r], seen[r].hash>> \in replacedBy
      BY <2>1, <3>1 DEF Matches, hashesEqual, SessionsLinked, Linked
    <3>3. <<presented[r], session.hash>> = <<presented[r], seen[r].hash>>
      BY <2>3, <3>2 DEF ChainIsLinear
    <3> QED BY <2>1, <3>3
  <2>5. attempt[r] = 1
    BY <1>3, <1>5, <2>1, <2>4
  <2> QED BY <1>2, <1>3, <2>2, <2>5 DEF Losing, Rotating
<1> QED BY <1>3, <1>4, <1>5

LEMMA LosingSwapWon ==
    ASSUME Core, Losing, NEW r \in Request, Swap(r), SwapAllowed(r)
    PROVE  Losing'
<1>1. /\ r \in Rotating /\ Rotating' = Rotating \ {r}
      /\ session'.hash = fresh[r]
      /\ \A q \in Request \ {r} : pc'[q] = pc[q]
      /\ UNCHANGED <<presented, seen, attempt>>
  BY DEF Core, Swap, RotatedSession, Continue, TypeOK, Rotating
<1>2. \A q \in Request : seen[q].hash # fresh[r]
  BY <1>1 DEF Core, FreshUnused
<1> QED BY <1>1, <1>2 DEF Losing, Rotating

LEMMA LosingSwapLost ==
    ASSUME MaxAttempts >= 3,
           Core, Losing, NEW r \in Request, Swap(r), ~SwapAllowed(r)
    PROVE  Losing' /\ pc'[r] = "refreshRead"
<1>1. /\ pc[r] = "swap" /\ r \in Rotating /\ attempt[r] \in Nat
      /\ seen[r].hash # session.hash
      /\ pc'[r] = Decided(attempt[r] + 1) /\ attempt'[r] = attempt[r] + 1
      /\ \A q \in Request \ {r} : pc'[q] = pc[q] /\ attempt'[q] = attempt[q]
      /\ UNCHANGED <<session, presented, seen>>
  BY SessionAssumption DEF Core, Swap, SwapAllowed, TypeOK, Rotating
<1>2. attempt[r] <= 1 /\ (attempt[r] = 1 => presented[r] # seen[r].hash)
  BY <1>1 DEF Losing
<1>3. pc'[r] = "refreshRead" /\ Rotating' = Rotating
  BY <1>1, <1>2, SessionAssumption DEF Decided, Rotating
<1> QED BY <1>1, <1>2, <1>3 DEF Losing, Rotating

LEMMA LosingStep ==
    MaxAttempts >= 3 /\ Core /\ Losing /\ NeverGivesUp /\ [Next]_vars
    => Losing' /\ NeverGivesUp'
<1> SUFFICES ASSUME MaxAttempts >= 3, Core, Losing, NeverGivesUp, [Next]_vars
             PROVE  Losing' /\ NeverGivesUp'
  OBVIOUS
<1>1. TypeOK /\ Known
  BY DEF Core
<1>2. Losing'
  <2>1. CASE UNCHANGED vars \/ Tick \/ AccountRemoved
    BY <1>1, <2>1, QuietSteps, LosingQuiet
  <2>2. CASE SignIn
    BY <2>2, LosingSignIn
  <2>3. ASSUME NEW r \in Request, RequestStep(r) PROVE Losing'
    <3>1. ASSUME NEW s \in 1..generated, RefreshStart(r, s) PROVE Losing'
      BY <3>1, LosingRefreshStart
    <3>2. ASSUME NEW s \in 1..generated, LogoutStart(r, s) PROVE Losing'
      BY <1>1, <3>2, QuietSteps, LosingQuiet
    <3>3. CASE RefreshRead(r)
      BY <1>1, <3>3, QuietSteps, LosingQuiet, LosingRead
    <3>4. CASE Swap(r)
      BY <3>4, LosingSwapWon, LosingSwapLost
    <3>5. CASE Clear(r) \/ LoadUser(r) \/ LogoutRead(r)
      BY <1>1, <3>5, QuietSteps, LosingQuiet
    <3> QED BY <2>3, <3>1, <3>2, <3>3, <3>4, <3>5 DEF RequestStep
  <2> QED BY <2>1, <2>2, <2>3 DEF Next
<1>3. NeverGivesUp'
  <2>1. ASSUME NEW r \in Request, Swap(r) PROVE NeverGivesUp'
    <3>1. pc'[r] # "gaveUp"
      <4>1. CASE SwapAllowed(r)
        BY <1>1, <2>1, <4>1 DEF Swap, Continue, TypeOK
      <4>2. CASE ~SwapAllowed(r)
        BY <2>1, <4>2, LosingSwapLost
      <4> QED BY <4>1, <4>2
    <3>2. \A q \in Request \ {r} : pc'[q] = pc[q]
      BY <1>1, <2>1 DEF Swap, Continue, TypeOK
    <3> QED BY <3>1, <3>2 DEF NeverGivesUp
  <2>2. ASSUME NEW r \in Request, NEW w \in {"idle", "refreshRead", "swap", "clear",
                                           "clearGone", "logoutRead"},
               pc' = [pc EXCEPT ![r] = w]
        PROVE  NeverGivesUp'
    BY <1>1, <2>2 DEF NeverGivesUp, TypeOK
  <2>3. ASSUME NEW r \in Request, RequestStep(r) PROVE NeverGivesUp'
    BY <2>1, <2>2, <2>3
    DEF RequestStep, RefreshStart, RefreshRead, Clear, ClearSession, LoadUser,
        LogoutStart, LogoutRead, Finish, Continue
  <2>4. CASE UNCHANGED vars \/ Tick \/ AccountRemoved \/ SignIn
    BY <2>4 DEF NeverGivesUp, vars, requestVars, Tick, AccountRemoved, SignIn
  <2> QED BY <2>3, <2>4 DEF Next
<1> QED BY <1>2, <1>3

\* With MAX_ROTATION_ATTEMPTS = 3, or more, rotateSession never throws for lost
\* races, whatever the other requests do: a second loss means the secret has been
\* replaced twice, and the third read no longer recognises it.
THEOREM ThreeAttemptsSuffice ==
    ASSUME MaxAttempts >= 3
    PROVE  Spec => []NeverGivesUp
<1>1. Init => Losing /\ NeverGivesUp
  <2>1. Init => NeverGivesUp
    BY DEF Init, NeverGivesUp
  <2> QED BY <2>1, LosingInit
<1>2. Core /\ Losing /\ NeverGivesUp /\ [Next]_vars => Losing' /\ NeverGivesUp'
  BY LosingStep
<1> QED BY <1>1, <1>2, CoreInvariant, PTL DEF Spec

----------------------------------------------------------------------------
(* The grace of a replaced secret *)

\* A rotation is dated when its request began, which is before the secret was replaced.
Dated(s) == s.prev # NoSecret => s.rotatedAt <= replacedAt[s.prev]

\* What a request decided on with a replaced secret was within its grace.
Graced ==
    /\ Dated(session)
    /\ \A r \in Request :
          /\ Dated(seen[r])
          /\ startedAt[r] <= now
          /\ pc[r] = "swap" => \/ presented[r] = seen[r].hash
                               \/ startedAt[r] <= seen[r].rotatedAt + ReuseInterval

\* The fields of a session that a request has read.
LEMMA SeenType ==
    ASSUME TypeOK, NEW r \in Request
    PROVE  /\ seen[r].rotatedAt \in Nat
           /\ seen[r].prev # NoSecret => seen[r].prev \in Secret
<1>1. seen[r] \in Session
  BY DEF TypeOK
<1>2. seen[r].rotatedAt \in 0..MaxTime /\ seen[r].prev \in 0..MaxSecrets
  BY <1>1 DEF Session
<1> QED BY <1>2, SessionAssumption DEF Secret, NoSecret

LEMMA GracedInit == Init => Graced
BY NoSessionFields DEF Init, Graced, Dated

\* A request that ends, or goes on without swapping, leaves nothing to date.
LEMMA GracedFinish ==
    ASSUME TypeOK, Graced, NEW r \in Request, Finish(r), UNCHANGED <<now, replacedAt>>,
           session' = session \/ session' = NoSession
    PROVE  Graced'
BY NoSessionFields DEF TypeOK, Graced, Dated, Finish

LEMMA GracedContinue ==
    ASSUME TypeOK, Graced, NEW r \in Request, NEW w \in Pc \ {"swap"}, Continue(r, w),
           UNCHANGED <<now, session, replacedAt>>
    PROVE  Graced'
BY DEF TypeOK, Graced, Dated, Continue

\* A read that decides to swap has looked at the grace.
LEMMA GracedRead ==
    ASSUME Core, Graced, NEW r \in Request, RefreshRead(r)
    PROVE  Graced'
<1>1. TypeOK /\ UNCHANGED <<now, session, replacedAt>>
  BY DEF Core, RefreshRead, history
<1>2. CASE Finish(r)
  BY <1>1, <1>2, GracedFinish
<1>3. CASE Continue(r, "clear")
  BY <1>1, <1>3, GracedContinue DEF Pc
<1>4. ASSUME classifySecret(session, presented[r], startedAt[r]) \in {"current", "previous"},
             pc' = [pc EXCEPT ![r] = "swap"], seen' = [seen EXCEPT ![r] = session],
             UNCHANGED <<presented, fresh, startedAt, attempt>>
      PROVE  Graced'
  <2>1. \/ presented[r] = session.hash
        \/ startedAt[r] <= session.rotatedAt + ReuseInterval
    BY <1>4 DEF classifySecret, hashesEqual, WithinReuse
  <2>2. \A q \in Request : /\ seen'[q] = IF q = r THEN session ELSE seen[q]
                           /\ q # r => pc'[q] = pc[q]
    BY <1>1, <1>4 DEF TypeOK
  <2> QED BY <1>1, <1>4, <2>1, <2>2 DEF Graced, Dated
<1> QED BY <1>2, <1>3, <1>4 DEF RefreshRead

\* A swap dates its secret's replacement at a time when the request has begun; a secret
\* that was replaced before keeps its date.
LEMMA GracedSwap ==
    ASSUME Core, Graced, NEW r \in Request, Swap(r)
    PROVE  Graced'
<1> USE DEF Core
<1>1. CASE ~SwapAllowed(r)
  <2>1. /\ UNCHANGED <<now, session, presented, startedAt, seen, replacedAt>>
        /\ \A q \in Request : pc'[q] = "swap" => pc[q] = "swap"
    BY <1>1 DEF Swap, TypeOK, Decided
  <2> QED BY <2>1 DEF Graced, Dated
<1>2. CASE SwapAllowed(r)
  <2>1. /\ r \in Rotating
        /\ session.hash = seen[r].hash /\ session.hash # NoSecret
        /\ session.hash \in Secret
    BY <1>2 DEF Swap, SwapAllowed, Rotating, SeenMatches, TypeOK, Session, Secret, NoSecret
  <2>2. /\ session'.prev = session.hash /\ session'.rotatedAt = startedAt[r]
        /\ replacedAt' = [replacedAt EXCEPT ![session.hash] = now]
        /\ UNCHANGED <<now, presented, startedAt, seen>>
        /\ \A q \in Request : pc'[q] = "swap" => pc[q] = "swap"
    BY <1>2, <2>1 DEF Swap, RotatedSession, Continue, TypeOK
  <2>3. Dated(session)'
    BY <2>1, <2>2 DEF Dated, Graced, TypeOK
  <2>4. ASSUME NEW q \in Request PROVE Dated(seen[q])'
    <3>1. seen[q].prev # NoSecret => seen[q].prev # session.hash
      BY <2>1 DEF SessionsLinked, Linked, StoredIsLast
    <3>2. seen[q].prev # NoSecret => seen[q].prev \in Secret
      BY SeenType
    <3> QED BY <2>2, <3>1, <3>2 DEF Dated, Graced, TypeOK
  <2> QED BY <2>2, <2>3, <2>4 DEF Graced
<1> QED BY <1>1, <1>2

LEMMA GracedStep == Core /\ Graced /\ [Next]_vars => Graced'
<1> SUFFICES ASSUME Core, Graced, [Next]_vars PROVE Graced'
  OBVIOUS
<1>1. TypeOK
  BY DEF Core
<1>2. CASE UNCHANGED vars
  BY <1>2 DEF vars, requestVars, history, Graced, Dated
<1>3. CASE Tick
  BY <1>1, <1>3 DEF Tick, requestVars, history, Graced, Dated, TypeOK
<1>4. CASE AccountRemoved
  BY <1>4 DEF AccountRemoved, requestVars, history, Graced, Dated
<1>5. CASE SignIn
  BY <1>5 DEF SignIn, requestVars, Graced, Dated
<1>6. ASSUME NEW r \in Request, RequestStep(r) PROVE Graced'
  <2>1. ASSUME NEW s \in 1..generated, RefreshStart(r, s) PROVE Graced'
    BY <1>1, <2>1 DEF RefreshStart, Graced, Dated, TypeOK
  <2>2. ASSUME NEW s \in 1..generated, LogoutStart(r, s) PROVE Graced'
    BY <1>1, <2>2 DEF LogoutStart, history, Graced, Dated, TypeOK
  <2>3. CASE RefreshRead(r)
    BY <2>3, GracedRead
  <2>4. CASE Swap(r)
    BY <2>4, GracedSwap
  <2>5. CASE Clear(r)
    BY <1>1, <2>5, GracedFinish DEF Clear, ClearSession
  <2>6. CASE LoadUser(r)
    <3>1. (Finish(r) \/ Continue(r, "clearGone")) /\ UNCHANGED <<now, session, replacedAt>>
      BY <2>6 DEF LoadUser, history
    <3> QED BY <1>1, <3>1, GracedFinish, GracedContinue DEF Pc
  <2>7. CASE LogoutRead(r)
    <3>1. (Finish(r) \/ Continue(r, "clear")) /\ UNCHANGED <<now, session, replacedAt>>
      BY <2>7 DEF LogoutRead, history
    <3> QED BY <1>1, <3>1, GracedFinish, GracedContinue DEF Pc
  <2> QED BY <1>6, <2>1, <2>2, <2>3, <2>4, <2>5, <2>6, <2>7 DEF RequestStep
<1> QED BY <1>2, <1>3, <1>4, <1>5, <1>6 DEF Next

\* A secret that was replaced rotates for ReuseInterval seconds and no longer, however
\* often its refresh loses a race before it does.
THEOREM GraceEnds == Spec => NoUseAfterGrace
<1>1. ASSUME Core, Graced, [Next]_vars, NEW r \in Request,
             pc[r] = "swap", pc'[r] = "loadUser", presented[r] # session.hash
      PROVE  startedAt[r] <= replacedAt[presented[r]] + ReuseInterval
  <2> USE DEF Core
  <2>1. Swap(r) /\ SwapAllowed(r)
    <3>1. PICK q \in Request : RequestStep(q)
      BY <1>1 DEF Next, vars, requestVars, Tick, AccountRemoved, SignIn
    <3>2. q = r
      BY <1>1, <3>1 DEF RequestStep, RefreshStart, RefreshRead, Swap, Clear, LoadUser, LogoutStart,
                        LogoutRead, ClearSession, Finish, Continue, TypeOK
    <3>3. Swap(r)
      BY <1>1, <3>1, <3>2 DEF RequestStep, RefreshStart, RefreshRead, Clear, LoadUser, LogoutStart,
                              LogoutRead
    <3> QED BY <1>1, <3>3 DEF Swap, Decided, TypeOK
  <2>2. session.hash = seen[r].hash /\ Matches(seen[r], presented[r])
    BY <1>1, <2>1 DEF SwapAllowed, SeenMatches, Rotating
  <2>3. presented[r] = seen[r].prev /\ seen[r].prev # NoSecret
    BY <1>1, <2>2 DEF Matches, hashesEqual
  <2>4. /\ seen[r].rotatedAt <= replacedAt[presented[r]]
        /\ startedAt[r] <= seen[r].rotatedAt + ReuseInterval
    BY <1>1, <2>2, <2>3 DEF Graced, Dated
  <2>5. /\ startedAt[r] \in Nat /\ seen[r].rotatedAt \in Nat /\ ReuseInterval \in Nat
        /\ replacedAt[presented[r]] \in Nat
    <3>1. presented[r] \in Secret /\ seen[r].rotatedAt \in Nat
      BY <1>1, <2>3, SeenType
    <3>2. /\ startedAt[r] \in 0..MaxTime /\ replacedAt[presented[r]] \in 0..MaxTime
          /\ MaxTime \in Nat
      BY <1>1, <3>1, SessionAssumption DEF TypeOK
    <3> QED BY <3>1, <3>2, SessionAssumption
  <2> QED BY <2>4, <2>5
<1>2. Core /\ Graced /\ [Next]_vars =>
        [\A r \in Request :
            (pc[r] = "swap" /\ pc'[r] = "loadUser" /\ presented[r] # session.hash)
            => startedAt[r] <= replacedAt[presented[r]] + ReuseInterval]_vars
  BY <1>1
<1> QED BY <1>2, CoreInvariant, GracedInit, GracedStep, PTL DEF Spec, NoUseAfterGrace

----------------------------------------------------------------------------
(* The atomic session *)

\* What a request is about to swap is what it read, if its hash is still stored, and
\* what it read let it rotate; a secret in the making belongs to one request.
Decisive ==
    /\ \A r \in Request : pc[r] = "swap" =>
          /\ seen[r].hash = session.hash => seen[r] = session
          /\ classifySecret(seen[r], presented[r], startedAt[r]) \in {"current", "previous"}
    /\ \A r \in Asking : /\ fresh[r] \in 1..generated
                         /\ \A q \in Asking : fresh[q] = fresh[r] => q = r

\* A step of one request is one step of its phase.
LEMMA PhaseMoves ==
    ASSUME TypeOK, NEW r \in Request, NEW w \in Pc, pc' = [pc EXCEPT ![r] = w]
    PROVE  /\ Phase' = [Phase EXCEPT ![r] = PhaseAt[w]]
           /\ Phase[r] = PhaseAt[pc[r]]
           /\ \A q \in Request \ {r} : q \in Asking' <=> q \in Asking
           /\ r \in Asking' <=> PhaseAt[w] = "asked"
BY DEF TypeOK, Phase, Asking

\* A request that stops asking has put its secret to use, or has thrown it away.
LEMMA SpendsFresh ==
    ASSUME TypeOK, Decisive, NEW r \in Asking, Asking' = Asking \ {r},
           \A q \in Asking' : fresh'[q] = fresh[q], generated' = generated
    PROVE  fresh[r] \in Secret /\ Atomic!Spends(fresh[r])
<1>1. fresh[r] \in 1..generated /\ generated \in 0..MaxSecrets
  BY DEF TypeOK, Decisive
<1>2. fresh[r] \in Secret
  BY <1>1, SessionAssumption DEF Secret
<1>3. {fresh'[q] : q \in Asking'} = {fresh[q] : q \in Asking} \ {fresh[r]}
  BY DEF Decisive
<1>4. Spent' = Spent \cup {fresh[r]} /\ fresh[r] \notin Spent
  BY <1>1, <1>3 DEF Spent
<1> QED BY <1>2, <1>4 DEF Atomic!Spends

\* The model's classification is the abstract one.
LEMMA Classified ==
    ASSUME TypeOK, NEW r \in Request, NEW match,
           match = classifySecret(session, presented[r], startedAt[r])
    PROVE  /\ match \in {"none", "unknown"} <=> ~Atomic!Recognises(r)
           /\ match \in {"current", "previous"} <=> Atomic!Recognises(r) /\ Atomic!InTime(r)
           /\ match \in {"replayed", "expired"} <=> Atomic!Recognises(r) /\ ~Atomic!InTime(r)
<1>1. /\ startedAt[r] \in Nat /\ session.expiresAt \in Nat /\ session.rotatedAt \in Nat
      /\ ReuseInterval \in Nat
  <2>1. startedAt[r] \in 0..MaxTime /\ session \in Session
    BY DEF TypeOK
  <2> QED BY <2>1, SessionAssumption DEF Session
<1>2. Atomic!Recognises(r) <=> session.hash # NoSecret /\ Matches(session, presented[r])
  BY DEF Atomic!Recognises, Matches, hashesEqual
<1>3. Atomic!Recognises(r) =>
        /\ Atomic!InTime(r) <=> /\ ~(startedAt[r] >= session.expiresAt)
                                /\ \/ hashesEqual(session.hash, presented[r])
                                   \/ WithinReuse(session, startedAt[r])
        /\ session.hash # NoSecret
  BY <1>1, <1>2 DEF Atomic!InTime, hashesEqual, WithinReuse
<1> QED BY <1>2, <1>3 DEF classifySecret

\* Steps that decide nothing, store no secret that was read, and generate none for a
\* request.
Undecided ==
    /\ \A q \in Request : pc'[q] = "swap" =>
          /\ pc[q] = "swap" /\ seen'[q] = seen[q]
          /\ presented'[q] = presented[q] /\ startedAt'[q] = startedAt[q]
    /\ \/ session' = session
       \/ \A q \in Request : pc[q] = "swap" => seen[q].hash # session'.hash
    /\ \A q \in Asking' : q \in Asking /\ fresh'[q] = fresh[q]
    /\ generated' \in {generated, generated + 1}

LEMMA UndecidedKeeps == Core /\ Decisive /\ Undecided => Decisive'
<1> SUFFICES ASSUME Core, Decisive, Undecided PROVE Decisive'
  OBVIOUS
<1>1. ASSUME NEW q \in Request, pc'[q] = "swap"
      PROVE  /\ seen'[q].hash = session'.hash => seen'[q] = session'
             /\ classifySecret(seen'[q], presented'[q], startedAt'[q]) \in {"current", "previous"}
  BY <1>1 DEF Undecided, Decisive
<1>2. ASSUME NEW r \in Asking'
      PROVE  fresh'[r] \in 1..generated' /\ \A q \in Asking' : fresh'[q] = fresh'[r] => q = r
  <2>1. generated \in Nat /\ fresh[r] \in 1..generated
    BY <1>2, SessionAssumption DEF Core, TypeOK, Undecided, Decisive
  <2> QED BY <1>2, <2>1 DEF Undecided, Decisive
<1> QED BY <1>1, <1>2 DEF Decisive

\* A request at work on a swap has read a session.
LEMMA SwapsAfterRead ==
    ASSUME Core, NEW q \in Request, pc[q] = "swap"
    PROVE  seen[q].hash # NoSecret /\ seen[q].hash \in 1..generated
BY DEF Core, SeenMatches, Rotating, Known, TypeOK, NoSecret

LEMMA FinishUndecided ==
    ASSUME Core, NEW r \in Request, Finish(r), session' \in {session, NoSession},
           generated' = generated
    PROVE  Undecided
<1>1. TypeOK /\ \A q \in Request : q # r => pc'[q] = pc[q] /\ seen'[q] = seen[q] /\ fresh'[q] = fresh[q]
                                           /\ presented'[q] = presented[q] /\ startedAt'[q] = startedAt[q]
  BY DEF Core, TypeOK, Finish
<1>2. pc'[r] = "idle"
  BY DEF Core, TypeOK, Finish
<1>3. \A q \in Asking' : q \in Asking /\ q # r
  BY <1>1, <1>2 DEF Asking, PhaseAt
<1>4. \A q \in Request : pc[q] = "swap" => seen[q].hash # NoSession.hash
  BY SwapsAfterRead, NoSessionFields
<1> QED BY <1>1, <1>2, <1>3, <1>4 DEF Undecided, Asking

LEMMA ContinueUndecided ==
    ASSUME Core, NEW r \in Request, NEW w \in Pc \ {"swap"}, Continue(r, w),
           PhaseAt[w] = "asked" => PhaseAt[pc[r]] = "asked",
           \/ session' = session
           \/ \A q \in Request : seen[q].hash # session'.hash,
           generated' = generated
    PROVE  Undecided
<1>1. TypeOK /\ UNCHANGED <<seen, presented, startedAt, fresh>>
      /\ pc' = [pc EXCEPT ![r] = w]
  BY DEF Core, Continue
<1>2. \A q \in Request : pc'[q] = IF q = r THEN w ELSE pc[q]
  BY <1>1 DEF TypeOK
<1>3. \A q \in Asking' : q \in Asking
  BY <1>2 DEF Asking
<1> QED BY <1>1, <1>2, <1>3 DEF Undecided

\* A read that decides to swap looks at the session that is stored.
LEMMA ReadDecides ==
    ASSUME Core, Decisive, NEW r \in Request, RefreshRead(r),
           pc' = [pc EXCEPT ![r] = "swap"],
           seen' = [seen EXCEPT ![r] = session],
           UNCHANGED <<presented, fresh, startedAt, attempt>>
    PROVE  Decisive'
<1>1. TypeOK /\ UNCHANGED <<session, generated>> /\ pc[r] = "refreshRead"
  BY DEF Core, RefreshRead
<1>2. pc'[r] = "swap"
  BY <1>1 DEF TypeOK
<1>3. classifySecret(session, presented[r], startedAt[r]) \in {"current", "previous"}
  BY <1>1, <1>2 DEF RefreshRead, Finish, Continue, TypeOK
<1>4. \A q \in Request : /\ pc'[q] = IF q = r THEN "swap" ELSE pc[q]
                         /\ seen'[q] = IF q = r THEN session ELSE seen[q]
  BY <1>1 DEF TypeOK
<1>5. Asking' = Asking
  BY <1>1, <1>4 DEF Asking, PhaseAt
<1> QED BY <1>1, <1>3, <1>4, <1>5 DEF Decisive

LEMMA StartDecides ==
    ASSUME Core, Decisive, NEW r \in Request, NEW secret \in 1..generated, RefreshStart(r, secret)
    PROVE  Decisive'
<1>1. /\ generated \in Nat /\ generated' = generated + 1
      /\ \A q \in Request \ {r} : /\ pc'[q] = pc[q] /\ presented'[q] = presented[q]
                                  /\ fresh'[q] = fresh[q] /\ startedAt'[q] = startedAt[q]
      /\ pc[r] = "idle" /\ pc'[r] = "refreshRead" /\ fresh'[r] = generated + 1
      /\ UNCHANGED <<seen, session>>
  BY SessionAssumption DEF Core, TypeOK, RefreshStart
<1>2. Asking' = Asking \cup {r} /\ r \notin Asking
  BY <1>1 DEF Asking, PhaseAt
<1>3. \A q \in Asking : q # r /\ fresh'[q] = fresh[q] /\ fresh[q] \in 1..generated
  BY <1>1, <1>2 DEF Decisive, Asking
<1>4. ASSUME NEW q \in Request, pc'[q] = "swap"
      PROVE  /\ seen'[q].hash = session'.hash => seen'[q] = session'
             /\ classifySecret(seen'[q], presented'[q], startedAt'[q]) \in {"current", "previous"}
  BY <1>1, <1>4 DEF Decisive
<1>5. ASSUME NEW p \in Asking'
      PROVE  fresh'[p] \in 1..generated' /\ \A q \in Asking' : fresh'[q] = fresh'[p] => q = p
  BY <1>1, <1>2, <1>3 DEF Decisive
<1> QED BY <1>4, <1>5 DEF Decisive

LEMMA SwapDecides ==
    ASSUME Core, Decisive, NEW r \in Request, Swap(r)
    PROVE  Decisive'
<1>1. TypeOK /\ pc[r] = "swap" /\ r \in Rotating /\ generated' = generated
  BY DEF Core, Swap, Rotating
<1>2. CASE SwapAllowed(r)
  <2>1. session'.hash = fresh[r] /\ Continue(r, "loadUser")
    BY <1>2 DEF Swap, RotatedSession
  <2>2. \A q \in Request : seen[q].hash # session'.hash
    BY <1>1, <2>1 DEF Core, FreshUnused
  <2> QED BY <1>1, <2>1, <2>2, ContinueUndecided, UndecidedKeeps DEF Pc, PhaseAt
<1>3. CASE ~SwapAllowed(r)
  <2>1. /\ UNCHANGED <<presented, fresh, startedAt, seen, session>>
        /\ pc' = [pc EXCEPT ![r] = Decided(attempt[r] + 1)]
    BY <1>3 DEF Swap
  <2>2. \A q \in Request : pc'[q] = IF q = r THEN Decided(attempt[r] + 1) ELSE pc[q]
    BY <1>1, <2>1 DEF TypeOK
  <2>3. \A q \in Asking' : q \in Asking
    BY <1>1, <2>2 DEF Asking, PhaseAt
  <2> QED BY <1>1, <2>1, <2>2, <2>3, UndecidedKeeps DEF Undecided, Decided
<1> QED BY <1>2, <1>3

LEMMA DecisiveStep == Core /\ Decisive /\ [Next]_vars => Decisive'
<1> SUFFICES ASSUME Core, Decisive, [Next]_vars PROVE Decisive'
  OBVIOUS
<1>1. CASE UNCHANGED vars \/ Tick \/ AccountRemoved
  <2>1. UNCHANGED <<session, generated, pc, seen, presented, startedAt, fresh>>
    BY <1>1 DEF vars, requestVars, Tick, AccountRemoved
  <2> QED BY <2>1 DEF Decisive, Asking
<1>2. CASE SignIn
  <2>1. UNCHANGED requestVars /\ generated' = generated + 1 /\ session'.hash = generated + 1
        /\ generated \in Nat
    BY <1>2, SessionAssumption DEF SignIn, Core, TypeOK
  <2>2. \A q \in Request : seen[q].hash # session'.hash
    BY <2>1 DEF Core, Known
  <2> QED BY <2>1, <2>2, UndecidedKeeps DEF Undecided, requestVars, Asking
<1>3. ASSUME NEW r \in Request, RequestStep(r) PROVE Decisive'
  <2>1. ASSUME NEW s \in 1..generated, RefreshStart(r, s) PROVE Decisive'
    BY <2>1, StartDecides
  <2>2. ASSUME NEW s \in 1..generated, LogoutStart(r, s) PROVE Decisive'
    <3>1. /\ UNCHANGED <<session, generated, seen, startedAt, fresh>>
          /\ \A q \in Request : /\ q # r => pc'[q] = pc[q] /\ presented'[q] = presented[q]
                                /\ q = r => pc'[q] = "logoutRead"
      BY <2>2 DEF LogoutStart, Core, TypeOK
    <3>2. \A q \in Asking' : q \in Asking
      BY <3>1 DEF Asking, PhaseAt
    <3> QED BY <3>1, <3>2, UndecidedKeeps DEF Undecided
  <2>3. CASE RefreshRead(r)
    <3>1. UNCHANGED <<session, generated>>
      BY <2>3 DEF RefreshRead
    <3>2. CASE Finish(r)
      BY <3>1, <3>2, FinishUndecided, UndecidedKeeps
    <3>3. CASE Continue(r, "clear")
      BY <3>1, <3>3, ContinueUndecided, UndecidedKeeps DEF Pc, PhaseAt
    <3> QED BY <2>3, <3>2, <3>3, ReadDecides DEF RefreshRead
  <2>4. CASE Swap(r)
    BY <2>4, SwapDecides
  <2>5. CASE Clear(r)
    BY <2>5, FinishUndecided, UndecidedKeeps DEF Clear, ClearSession
  <2>6. CASE LoadUser(r)
    <3>1. (Finish(r) \/ Continue(r, "clearGone")) /\ UNCHANGED <<session, generated>>
      BY <2>6 DEF LoadUser
    <3> QED BY <3>1, FinishUndecided, ContinueUndecided, UndecidedKeeps DEF Pc, PhaseAt
  <2>7. CASE LogoutRead(r)
    <3>1. (Finish(r) \/ Continue(r, "clear")) /\ UNCHANGED <<session, generated>>
      BY <2>7 DEF LogoutRead
    <3> QED BY <3>1, FinishUndecided, ContinueUndecided, UndecidedKeeps DEF Pc, PhaseAt
  <2> QED BY <1>3, <2>1, <2>2, <2>3, <2>4, <2>5, <2>6, <2>7 DEF RequestStep
<1> QED BY <1>1, <1>2, <1>3 DEF Next

LEMMA AtomicInit == Init => Atomic!Init
BY NoSessionFields
DEF Init, Atomic!Init, NoSession, Atomic!NoSession, Phase, PhaseAt, Spent, Asking

\* What stays as it is when no request comes or goes.
LEMMA SamePhases ==
    ASSUME UNCHANGED <<pc, fresh, generated>>
    PROVE  Phase' = Phase /\ Spent' = Spent
BY DEF Phase, Spent, Asking

\* A request that is not asking, and does not begin to, spends nothing.
LEMMA SpendsNothing ==
    ASSUME TypeOK, NEW r \in Request, Asking' = Asking, generated' = generated,
           \A q \in Asking : fresh'[q] = fresh[q]
    PROVE  Spent' = Spent
BY DEF Spent

LEMMA SignInIsAtomic == Core /\ Decisive /\ SignIn => \E s \in Secret : Atomic!SignIn(s)
<1> SUFFICES ASSUME Core, Decisive, SignIn PROVE \E s \in Secret : Atomic!SignIn(s)
  OBVIOUS
<1> DEFINE s == generated + 1
<1>1. generated \in Nat /\ s \in Secret /\ generated' = s
  BY SessionAssumption DEF Core, TypeOK, SignIn, Secret
<1>2. UNCHANGED <<now, pc, presented, fresh, startedAt>>
  BY DEF SignIn, requestVars
<1>3. Phase' = Phase /\ Asking' = Asking
  BY <1>2 DEF Phase, Asking
<1>4. \A q \in Asking : fresh[q] # s
  BY <1>1 DEF Decisive
<1>5. Spent' = Spent \cup {s} /\ s \notin Spent
  BY <1>1, <1>2, <1>3, <1>4 DEF Spent
<1>6. Atomic!SignIn(s)
  BY <1>2, <1>3, <1>5 DEF SignIn, Atomic!SignIn, Atomic!Spends
<1> QED BY <1>1, <1>6

LEMMA StartIsAtomic ==
    ASSUME Core, Decisive, NEW r \in Request, NEW secret \in 1..generated, RefreshStart(r, secret)
    PROVE  secret \in Secret /\ Atomic!Ask(r, secret)
<1>1. /\ TypeOK /\ generated' = generated + 1
      /\ pc[r] = "idle" /\ pc' = [pc EXCEPT ![r] = "refreshRead"]
      /\ fresh' = [fresh EXCEPT ![r] = generated + 1]
      /\ UNCHANGED <<now, session>>
      /\ PhaseAt[pc[r]] = "idle" /\ r \notin Asking
  BY DEF Core, RefreshStart, Asking, PhaseAt
<1> generated \in Nat /\ secret \in Secret
  BY <1>1, SessionAssumption DEF TypeOK, Secret
<1>2. /\ Phase' = [Phase EXCEPT ![r] = "asked"] /\ Phase[r] = "idle"
      /\ r \in Asking'
      /\ \A q \in Request \ {r} : q \in Asking' <=> q \in Asking
  BY <1>1, PhaseMoves DEF Pc, PhaseAt
<1>3. Asking' = Asking \cup {r}
  BY <1>2 DEF Asking
<1>4. {fresh'[q] : q \in Asking'} = {fresh[q] : q \in Asking} \cup {generated + 1}
  BY <1>1, <1>2, <1>3 DEF TypeOK, Asking
<1>5. Spent' = Spent
  BY <1>1, <1>4 DEF Spent
<1> QED BY <1>1, <1>2, <1>5 DEF RefreshStart, Atomic!Ask, Atomic!Moves

\* The end of a request, or its going on, as the abstract session sees it.
LEMMA FinishIsAtomic ==
    ASSUME TypeOK, NEW r \in Request, Finish(r)
    PROVE  /\ Phase' = [Phase EXCEPT ![r] = "idle"] /\ Phase[r] = PhaseAt[pc[r]]
           /\ Atomic!Answered(r)
           /\ Asking' = Asking \ {r} /\ \A q \in Asking' : fresh'[q] = fresh[q]
<1>1. pc' = [pc EXCEPT ![r] = "idle"] /\ fresh' = [fresh EXCEPT ![r] = NoSecret]
  BY DEF Finish
<1>2. /\ Phase' = [Phase EXCEPT ![r] = "idle"] /\ Phase[r] = PhaseAt[pc[r]]
      /\ r \notin Asking' /\ \A q \in Request \ {r} : q \in Asking' <=> q \in Asking
  BY <1>1, PhaseMoves DEF Pc, PhaseAt
<1>3. Asking' = Asking \ {r}
  BY <1>2 DEF Asking
<1> QED BY <1>1, <1>2, <1>3 DEF Finish, Atomic!Answered, TypeOK, Asking

LEMMA ContinueIsAtomic ==
    ASSUME TypeOK, NEW r \in Request, NEW w \in Pc, PhaseAt[w] # "asked", Continue(r, w)
    PROVE  /\ Phase' = [Phase EXCEPT ![r] = PhaseAt[w]] /\ Phase[r] = PhaseAt[pc[r]]
           /\ UNCHANGED <<presented, fresh, startedAt>>
           /\ Asking' = Asking \ {r}
<1>1. pc' = [pc EXCEPT ![r] = w] /\ UNCHANGED <<presented, fresh, startedAt>>
  BY DEF Continue
<1>2. /\ Phase' = [Phase EXCEPT ![r] = PhaseAt[w]] /\ Phase[r] = PhaseAt[pc[r]]
      /\ r \notin Asking' /\ \A q \in Request \ {r} : q \in Asking' <=> q \in Asking
  BY <1>1, PhaseMoves
<1> QED BY <1>1, <1>2 DEF Asking

\* A read on the way to a swap is invisible; one that decides otherwise is the atomic step.
LEMMA ReadIsAtomic ==
    ASSUME Core, Decisive, NEW r \in Request, RefreshRead(r)
    PROVE  \/ UNCHANGED Atomic!vars
           \/ \E s \in Secret : Atomic!Reject(r, s) \/ Atomic!Refuse(r, s)
<1> DEFINE match == classifySecret(session, presented[r], startedAt[r])
<1>1. /\ TypeOK /\ pc[r] = "refreshRead" /\ UNCHANGED <<now, session, generated>>
      /\ PhaseAt[pc[r]] = "asked" /\ r \in Asking
  BY DEF Core, RefreshRead, PhaseAt, Asking
<1>2. /\ match \in {"none", "unknown"} <=> ~Atomic!Recognises(r)
      /\ match \in {"replayed", "expired"} <=> Atomic!Recognises(r) /\ ~Atomic!InTime(r)
  BY <1>1, Classified
<1>3. CASE pc' = [pc EXCEPT ![r] = "swap"] /\ UNCHANGED <<presented, fresh, startedAt>>
  <2>1. /\ Phase' = [Phase EXCEPT ![r] = "asked"] /\ Phase[r] = "asked"
        /\ r \in Asking' /\ \A q \in Request \ {r} : q \in Asking' <=> q \in Asking
    BY <1>1, <1>3, PhaseMoves DEF Pc, PhaseAt
  <2>2. Phase' = Phase /\ Asking' = Asking
    BY <1>1, <2>1 DEF Phase, Asking
  <2> QED BY <1>1, <1>3, <2>2 DEF Spent, Atomic!vars
<1>4. CASE match \in {"replayed", "expired"} /\ Continue(r, "clear")
  <2>1. /\ Phase' = [Phase EXCEPT ![r] = "ending"] /\ Phase[r] = "asked"
        /\ UNCHANGED <<presented, fresh, startedAt>> /\ Asking' = Asking \ {r}
    BY <1>1, <1>4, ContinueIsAtomic DEF Pc, PhaseAt
  <2>2. fresh[r] \in Secret /\ Atomic!Spends(fresh[r])
    BY <1>1, <2>1, SpendsFresh
  <2>3. Atomic!Reject(r, fresh[r])
    BY <1>1, <1>2, <1>4, <2>1, <2>2 DEF Atomic!Reject, Atomic!Moves
  <2> QED BY <2>2, <2>3
<1>5. CASE match \in {"none", "unknown"} /\ Finish(r)
  <2>1. /\ Phase' = [Phase EXCEPT ![r] = "idle"] /\ Phase[r] = "asked"
        /\ Atomic!Answered(r) /\ Asking' = Asking \ {r}
        /\ \A q \in Asking' : fresh'[q] = fresh[q]
    BY <1>1, <1>5, FinishIsAtomic
  <2>2. fresh[r] \in Secret /\ Atomic!Spends(fresh[r])
    BY <1>1, <2>1, SpendsFresh
  <2>3. Atomic!Refuse(r, fresh[r])
    BY <1>1, <1>2, <1>5, <2>1, <2>2 DEF Atomic!Refuse, Atomic!Moves
  <2> QED BY <2>2, <2>3
<1> QED BY <1>3, <1>4, <1>5 DEF RefreshRead

\* The step that counts: what the compare-and-set finds unchanged by its hash is
\* unchanged altogether, so the decision made on what was read holds for what is stored.
LEMMA SwapIsAtomic ==
    ASSUME Core, Decisive, NEW r \in Request, Swap(r)
    PROVE  UNCHANGED Atomic!vars \/ \E s \in Secret : Atomic!Rotate(r, s)
<1>1. /\ TypeOK /\ pc[r] = "swap" /\ UNCHANGED <<now, generated>>
      /\ PhaseAt[pc[r]] = "asked" /\ r \in Asking
  BY DEF Core, Swap, PhaseAt, Asking
<1>2. CASE SwapAllowed(r)
  <2>1. /\ seen[r] = session
        /\ classifySecret(session, presented[r], startedAt[r]) \in {"current", "previous"}
    BY <1>1, <1>2 DEF SwapAllowed, Decisive
  <2>2. Atomic!Recognises(r) /\ Atomic!InTime(r)
    BY <1>1, <2>1, Classified
  <2>3. /\ Phase' = [Phase EXCEPT ![r] = "rotated"] /\ Phase[r] = "asked"
        /\ UNCHANGED <<presented, fresh, startedAt>> /\ Asking' = Asking \ {r}
    BY <1>1, <1>2, ContinueIsAtomic DEF Swap, Pc, PhaseAt
  <2>4. fresh[r] \in Secret /\ Atomic!Spends(fresh[r])
    BY <1>1, <2>3, SpendsFresh
  <2>5. session' = [hash |-> fresh[r], prev |-> session.hash,
                    rotatedAt |-> startedAt[r], expiresAt |-> session.expiresAt]
    BY <1>2, <2>1 DEF Swap, RotatedSession
  <2>6. Atomic!Rotate(r, fresh[r])
    BY <1>1, <2>2, <2>3, <2>4, <2>5 DEF Atomic!Rotate, Atomic!Moves
  <2> QED BY <2>4, <2>6
<1>3. CASE ~SwapAllowed(r)
  <2>1. /\ UNCHANGED <<presented, fresh, startedAt, session>>
        /\ pc' = [pc EXCEPT ![r] = Decided(attempt[r] + 1)]
        /\ Decided(attempt[r] + 1) \in Pc /\ PhaseAt[Decided(attempt[r] + 1)] = "asked"
    BY <1>3 DEF Swap, Decided, Pc, PhaseAt
  <2>2. /\ Phase' = [Phase EXCEPT ![r] = "asked"] /\ Phase[r] = "asked"
        /\ r \in Asking' /\ \A q \in Request \ {r} : q \in Asking' <=> q \in Asking
    BY <1>1, <2>1, PhaseMoves
  <2>3. Phase' = Phase /\ Asking' = Asking
    BY <1>1, <2>2 DEF Phase, Asking
  <2> QED BY <1>1, <2>1, <2>3 DEF Spent, Atomic!vars
<1> QED BY <1>2, <1>3

\* A step of a request that was not asking.
LEMMA OtherStepsAreAtomic ==
    ASSUME Core, NEW r \in Request
    PROVE  /\ Clear(r) => Atomic!End(r)
           /\ LoadUser(r) => Atomic!Deliver(r)
           /\ LogoutRead(r) => Atomic!Leave(r)
           /\ \A s \in 1..generated : LogoutStart(r, s) => s \in Secret /\ Atomic!AskToLeave(r, s)
<1> USE DEF Core
<1>1. ASSUME PhaseAt[pc[r]] # "asked", Finish(r), generated' = generated
      PROVE  /\ Phase' = [Phase EXCEPT ![r] = "idle"] /\ Phase[r] = PhaseAt[pc[r]]
             /\ Atomic!Answered(r) /\ Spent' = Spent
  BY <1>1, FinishIsAtomic, SpendsNothing DEF Asking
<1>2. ASSUME NEW w \in Pc, PhaseAt[w] # "asked", PhaseAt[pc[r]] # "asked", Continue(r, w),
             generated' = generated
      PROVE  /\ Phase' = [Phase EXCEPT ![r] = PhaseAt[w]] /\ Phase[r] = PhaseAt[pc[r]]
             /\ UNCHANGED <<presented, startedAt>> /\ Spent' = Spent
  BY <1>2, ContinueIsAtomic, SpendsNothing DEF Asking
<1>3. ASSUME Clear(r) PROVE Atomic!End(r)
  <2>1. Finish(r) /\ PhaseAt[pc[r]] = "ending" /\ session' = NoSession /\ UNCHANGED <<now, generated>>
    BY <1>3 DEF Clear, ClearSession, PhaseAt
  <2> QED BY <1>1, <2>1 DEF Atomic!End, Atomic!Moves, NoSession, Atomic!NoSession
<1>4. ASSUME LoadUser(r) PROVE Atomic!Deliver(r)
  <2>1. PhaseAt[pc[r]] = "rotated" /\ UNCHANGED <<now, session, generated>>
    BY <1>4 DEF LoadUser, PhaseAt
  <2>2. CASE Finish(r)
    BY <1>1, <2>1, <2>2 DEF Atomic!Deliver, Atomic!Moves
  <2>3. CASE Continue(r, "clearGone")
    BY <1>2, <2>1, <2>3 DEF Atomic!Deliver, Atomic!Moves, Pc, PhaseAt
  <2> QED BY <1>4, <2>2, <2>3 DEF LoadUser
<1>5. ASSUME LogoutRead(r) PROVE Atomic!Leave(r)
  <2>1. PhaseAt[pc[r]] = "leaving" /\ UNCHANGED <<now, session, generated>>
    BY <1>5 DEF LogoutRead, PhaseAt
  <2>2. classifySecret(session, presented[r], now) \in {"none", "unknown"} <=> ~Atomic!Recognises(r)
    BY DEF classifySecret, Matches, hashesEqual, Atomic!Recognises
  <2>3. CASE ~Atomic!Recognises(r)
    BY <1>1, <1>5, <2>1, <2>2, <2>3 DEF LogoutRead, Atomic!Leave, Atomic!Moves
  <2>4. CASE Atomic!Recognises(r)
    <3>1. Continue(r, "clear")
      BY <1>5, <2>2, <2>4 DEF LogoutRead
    <3> QED BY <1>2, <2>1, <2>4, <3>1 DEF Atomic!Leave, Atomic!Moves, Pc, PhaseAt
  <2> QED BY <2>3, <2>4
<1>6. ASSUME NEW s \in 1..generated, LogoutStart(r, s)
      PROVE  s \in Secret /\ Atomic!AskToLeave(r, s)
  <2>1. /\ s \in Secret /\ pc[r] = "idle" /\ pc' = [pc EXCEPT ![r] = "logoutRead"]
        /\ UNCHANGED <<now, session, generated, fresh, startedAt>>
        /\ presented' = [presented EXCEPT ![r] = s]
        /\ PhaseAt[pc[r]] = "idle" /\ r \notin Asking
    BY <1>6, SessionAssumption DEF LogoutStart, TypeOK, Secret, Asking, PhaseAt
  <2>2. /\ Phase' = [Phase EXCEPT ![r] = "leaving"] /\ Phase[r] = "idle"
        /\ r \notin Asking' /\ \A q \in Request \ {r} : q \in Asking' <=> q \in Asking
    BY <2>1, PhaseMoves DEF Pc, PhaseAt
  <2>3. Spent' = Spent
    BY <2>1, <2>2 DEF Spent, Asking
  <2> QED BY <2>1, <2>2, <2>3 DEF Atomic!AskToLeave, Atomic!Moves
<1> QED BY <1>3, <1>4, <1>5, <1>6

LEMMA AtomicStep == Core /\ Decisive /\ [Next]_vars => [Atomic!Next]_(Atomic!vars)
<1> SUFFICES ASSUME Core, Decisive, [Next]_vars PROVE [Atomic!Next]_(Atomic!vars)
  OBVIOUS
<1>1. CASE UNCHANGED vars \/ AccountRemoved
  <2>1. UNCHANGED <<now, session, pc, presented, fresh, startedAt, generated>>
    BY <1>1 DEF vars, requestVars, AccountRemoved
  <2> QED BY <2>1, SamePhases DEF Atomic!vars
<1>2. CASE Tick
  <2>1. UNCHANGED <<session, pc, presented, fresh, startedAt, generated>> /\ now' = now + 1
    BY <1>2 DEF Tick, requestVars
  <2> QED BY <2>1, SamePhases DEF Atomic!Next, Atomic!Tick
<1>3. CASE SignIn
  BY <1>3, SignInIsAtomic DEF Atomic!Next
<1>4. ASSUME NEW r \in Request, RequestStep(r) PROVE [Atomic!Next]_(Atomic!vars)
  <2>1. ASSUME NEW s \in 1..generated, RefreshStart(r, s) PROVE Atomic!Next
    BY <2>1, StartIsAtomic DEF Atomic!Next
  <2>2. ASSUME NEW s \in 1..generated, LogoutStart(r, s) PROVE Atomic!Next
    BY <2>2, OtherStepsAreAtomic DEF Atomic!Next
  <2>3. CASE RefreshRead(r)
    BY <2>3, ReadIsAtomic DEF Atomic!Next
  <2>4. CASE Swap(r)
    BY <2>4, SwapIsAtomic DEF Atomic!Next
  <2>5. CASE Clear(r) \/ LoadUser(r) \/ LogoutRead(r)
    BY <2>5, OtherStepsAreAtomic DEF Atomic!Next
  <2> QED BY <1>4, <2>1, <2>2, <2>3, <2>4, <2>5 DEF RequestStep
<1> QED BY <1>1, <1>2, <1>3, <1>4 DEF Next

\* Reading, comparing the hash, setting and trying again amount to one atomic step per
\* refresh, whatever other requests do in between.
THEOREM RefreshesAreAtomic == Spec => ImplementsAtomicSession
<1>1. Init => Decisive
  BY DEF Init, Decisive, Asking, PhaseAt
<1> QED
  BY <1>1, CoreInvariant, DecisiveStep, AtomicInit, AtomicStep, PTL
  DEF Spec, ImplementsAtomicSession, Atomic!Spec
==============================================================================
