--------------------------- MODULE DeviceSession ---------------------------
(***************************************************************************)
(* The refresh session of one device: sign-in, refresh and logout as       *)
(* concurrent requests over the session record in Redis                    *)
(* (api/src/lib/Session.ts, redis/src/lib/models/Device.ts).  Each Redis   *)
(* command, the compare-and-set script included, is one step; between two  *)
(* of them any other request may run.                                      *)
(*                                                                         *)
(* A secret is a number: every one generated is new.  Any secret ever      *)
(* generated may be presented at any time, by a client that retries, that  *)
(* lost a response, or that should not have it.                            *)
(***************************************************************************)
EXTENDS Naturals

CONSTANTS Request,        \* concurrent requests for the device
          ReuseInterval,  \* seconds a replaced secret still rotates
          Lifetime,       \* app.getRefreshTokenExpiresIn()
          MaxAttempts,    \* MAX_ROTATION_ATTEMPTS
          MaxSecrets,     \* bound: secrets generated in a behaviour
          MaxTime         \* bound: the clock

ASSUME SessionAssumption ==
    /\ ReuseInterval \in Nat
    /\ Lifetime \in Nat \ {0}
    /\ MaxAttempts \in Nat \ {0}
    /\ MaxSecrets \in Nat
    /\ MaxTime \in Nat

NoSecret == 0
Secret == 1..MaxSecrets

\* NexxusDeviceSession; hash = NoSecret when the document has no $.session,
\* prev = NoSecret before the first rotation.
Session == [hash : 0..MaxSecrets, prev : 0..MaxSecrets,
            rotatedAt : 0..MaxTime, expiresAt : Nat]
NoSession == [hash |-> NoSecret, prev |-> NoSecret, rotatedAt |-> 0, expiresAt |-> 0]

VARIABLES
    now,        \* the clock, in seconds
    session,    \* $.session of the device document
    generated,  \* secrets generated so far
    userExists, \* the device's user row is in the database
    pc,         \* per request: the step it is at
    presented,  \* per request: the secret it came with
    fresh,      \* per request: nextSecret, generated by refresh
    startedAt,  \* per request: the `now` rotateSession and revokeSession took
    seen,       \* per request: the session it read
    attempt,    \* per request: failed compare-and-sets
    origin,     \* history: per secret, the secret its sign-in generated
    replacedBy, \* history: pairs <<secret, secret that a rotation put in its place>>
    replacedAt, \* history: per secret, when that happened
    ended       \* history: sign-ins whose session was ended

requestVars == <<pc, presented, fresh, startedAt, seen, attempt>>
history == <<origin, replacedBy, replacedAt, ended>>
vars == <<now, session, generated, userExists, requestVars, history>>

Pc == {"idle", "refreshRead", "swap", "clear", "loadUser", "clearGone",
       "logoutRead", "gaveUp"}

TypeOK ==
    /\ now \in 0..MaxTime
    /\ session \in Session
    /\ generated \in 0..MaxSecrets
    /\ userExists \in BOOLEAN
    /\ pc \in [Request -> Pc]
    /\ presented \in [Request -> 0..MaxSecrets]
    /\ fresh \in [Request -> 0..MaxSecrets]
    /\ startedAt \in [Request -> 0..MaxTime]
    /\ seen \in [Request -> Session]
    /\ attempt \in [Request -> 0..MaxAttempts]
    /\ origin \in [Secret -> 0..MaxSecrets]
    /\ replacedBy \subseteq Secret \X Secret
    /\ replacedAt \in [Secret -> 0..MaxTime]
    /\ ended \subseteq Secret

Init ==
    /\ now = 0
    /\ session = NoSession
    /\ generated = 0
    /\ userExists = TRUE
    /\ pc = [r \in Request |-> "idle"]
    /\ presented = [r \in Request |-> NoSecret]
    /\ fresh = [r \in Request |-> NoSecret]
    /\ startedAt = [r \in Request |-> 0]
    /\ seen = [r \in Request |-> NoSession]
    /\ attempt = [r \in Request |-> 0]
    /\ origin = [s \in Secret |-> NoSecret]
    /\ replacedBy = {}
    /\ replacedAt = [s \in Secret |-> 0]
    /\ ended = {}

----------------------------------------------------------------------------
(* classifySecret *)

hashesEqual(stored, secret) == stored # NoSecret /\ stored = secret

Matches(s, secret) == hashesEqual(s.hash, secret) \/ hashesEqual(s.prev, secret)

\* Mutant of WithinReuse: a replaced secret rotates for ever.
AlwaysReused(s, at) == TRUE

\* now - rotatedAt <= reuseIntervalSeconds, without going below zero.
WithinReuse(s, at) == at <= s.rotatedAt + ReuseInterval

classifySecret(s, secret, at) ==
    IF s.hash = NoSecret THEN "none"
    ELSE IF ~Matches(s, secret) THEN "unknown"
    ELSE IF at >= s.expiresAt THEN "expired"
    ELSE IF hashesEqual(s.hash, secret) THEN "current"
    ELSE IF WithinReuse(s, at) THEN "previous" ELSE "replayed"

----------------------------------------------------------------------------
(* Requests *)

Finish(r) ==
    /\ pc' = [pc EXCEPT ![r] = "idle"]
    /\ presented' = [presented EXCEPT ![r] = NoSecret]
    /\ fresh' = [fresh EXCEPT ![r] = NoSecret]
    /\ startedAt' = [startedAt EXCEPT ![r] = 0]
    /\ seen' = [seen EXCEPT ![r] = NoSession]
    /\ attempt' = [attempt EXCEPT ![r] = 0]

Continue(r, where) ==
    /\ pc' = [pc EXCEPT ![r] = where]
    /\ UNCHANGED <<presented, fresh, startedAt, seen, attempt>>

\* issue: setSession replaces whatever the device had with one command.
SignIn ==
    LET s == generated + 1 IN
    /\ generated < MaxSecrets
    /\ generated' = s
    /\ session' = [hash |-> s, prev |-> NoSecret, rotatedAt |-> 0, expiresAt |-> now + Lifetime]
    /\ origin' = [origin EXCEPT ![s] = s]
    /\ ended' = IF session.hash = NoSecret THEN ended ELSE ended \cup {origin[session.hash]}
    /\ UNCHANGED <<now, userExists, requestVars, replacedBy, replacedAt>>

\* refresh up to rotateSession's loop: the new secret and `now` are taken once.
RefreshStart(r, secret) ==
    /\ pc[r] = "idle"
    /\ generated < MaxSecrets
    /\ generated' = generated + 1
    /\ pc' = [pc EXCEPT ![r] = "refreshRead"]
    /\ presented' = [presented EXCEPT ![r] = secret]
    /\ fresh' = [fresh EXCEPT ![r] = generated + 1]
    /\ startedAt' = [startedAt EXCEPT ![r] = now]
    /\ origin' = [origin EXCEPT ![generated + 1] = origin[secret]]
    /\ UNCHANGED <<now, session, userExists, seen, attempt, replacedBy, replacedAt, ended>>

\* readSession and the decision on what it returned.
RefreshRead(r) ==
    LET match == classifySecret(session, presented[r], startedAt[r]) IN
    /\ pc[r] = "refreshRead"
    /\ \/ /\ match \in {"current", "previous"}
          /\ pc' = [pc EXCEPT ![r] = "swap"]
          /\ seen' = [seen EXCEPT ![r] = session]
          /\ UNCHANGED <<presented, fresh, startedAt, attempt>>
       \/ /\ match \in {"replayed", "expired"}
          /\ Continue(r, "clear")
       \/ /\ match \in {"none", "unknown"}
          /\ Finish(r)
    /\ UNCHANGED <<now, session, generated, userExists, history>>

\* Mutants of SwapAllowed: a blind write; a check that only asks for a session.
BlindSwap(r) == TRUE
AnySessionSwap(r) == session.hash # NoSecret

\* NEXXUS_DEVICE_SESSION_CAS_SCRIPT compares the stored hash.
SwapAllowed(r) == session.hash = seen[r].hash

\* Mutant of RotatedSession: a rotation prolongs the session.
ProlongedSession(r) ==
    [hash |-> fresh[r], prev |-> seen[r].hash,
     rotatedAt |-> startedAt[r], expiresAt |-> startedAt[r] + Lifetime]

RotatedSession(r) ==
    [hash |-> fresh[r], prev |-> seen[r].hash,
     rotatedAt |-> startedAt[r], expiresAt |-> seen[r].expiresAt]

\* Mutant of Decided: gives up one attempt early.
DecidedTooSoon(n) == IF n + 1 < MaxAttempts THEN "refreshRead" ELSE "gaveUp"

\* Where rotateSession's loop goes after its n-th lost race; it throws when the
\* attempts are used up.
Decided(n) == IF n < MaxAttempts THEN "refreshRead" ELSE "gaveUp"

\* swapSession; a lost race decides again on what is stored now.
Swap(r) ==
    /\ pc[r] = "swap"
    /\ \/ /\ SwapAllowed(r)
          /\ session' = RotatedSession(r)
          /\ replacedBy' = replacedBy \cup {<<seen[r].hash, fresh[r]>>}
          /\ replacedAt' = [replacedAt EXCEPT ![seen[r].hash] = now]
          /\ Continue(r, "loadUser")
       \/ /\ ~SwapAllowed(r)
          /\ attempt' = [attempt EXCEPT ![r] = @ + 1]
          /\ pc' = [pc EXCEPT ![r] = Decided(attempt[r] + 1)]
          /\ UNCHANGED <<presented, fresh, startedAt, seen, session, replacedBy, replacedAt>>
    /\ UNCHANGED <<now, generated, userExists, origin, ended>>

\* clearSession deletes $.session, whichever it is by now.
ClearSession(r) ==
    /\ session' = NoSession
    /\ ended' = IF session.hash = NoSecret THEN ended ELSE ended \cup {origin[session.hash]}
    /\ Finish(r)

Clear(r) ==
    /\ pc[r] \in {"clear", "clearGone"}
    /\ ClearSession(r)
    /\ UNCHANGED <<now, generated, userExists, origin, replacedBy, replacedAt>>

\* refresh after the rotation: the user is read again before tokens are minted.
LoadUser(r) ==
    /\ pc[r] = "loadUser"
    /\ IF userExists THEN Finish(r) ELSE Continue(r, "clearGone")
    /\ UNCHANGED <<now, session, generated, userExists, history>>

LogoutStart(r, secret) ==
    /\ pc[r] = "idle"
    /\ pc' = [pc EXCEPT ![r] = "logoutRead"]
    /\ presented' = [presented EXCEPT ![r] = secret]
    /\ UNCHANGED <<now, session, generated, userExists, fresh, startedAt, seen, attempt, history>>

\* revokeSession's read; nowSeconds() is evaluated after it.
LogoutRead(r) ==
    /\ pc[r] = "logoutRead"
    /\ IF classifySecret(session, presented[r], now) \in {"none", "unknown"}
       THEN Finish(r)
       ELSE Continue(r, "clear")
    /\ UNCHANGED <<now, session, generated, userExists, history>>

Tick ==
    /\ now < MaxTime
    /\ now' = now + 1
    /\ UNCHANGED <<session, generated, userExists, requestVars, history>>

\* The account disappears from the database.
AccountRemoved ==
    /\ userExists
    /\ userExists' = FALSE
    /\ UNCHANGED <<now, session, generated, requestVars, history>>

RequestStep(r) ==
    \/ \E s \in 1..generated : RefreshStart(r, s) \/ LogoutStart(r, s)
    \/ RefreshRead(r) \/ Swap(r) \/ Clear(r) \/ LoadUser(r)
    \/ LogoutRead(r)

Next ==
    \/ Tick \/ AccountRemoved \/ SignIn
    \/ \E r \in Request : RequestStep(r)

Spec == Init /\ [][Next]_vars

----------------------------------------------------------------------------
(* Properties *)

\* A session that was ended by logout, replay or expiry, or replaced by a later
\* sign-in, never comes back, whatever refreshes were in flight: the stored
\* secrets stem from one sign-in, and that one was not ended
\* (rotateSession's compare-and-set against setSession and clearSession).
EndedStaysEnded ==
    session.hash # NoSecret =>
        /\ origin[session.hash] \notin ended
        /\ session.prev # NoSecret => origin[session.prev] = origin[session.hash]

\* Two refreshes racing on the same secret never both swap it: a stored secret
\* is replaced by at most one other, so the chain of a session never forks
\* (NEXXUS_DEVICE_SESSION_CAS_SCRIPT).
ChainIsLinear ==
    \A p, q \in replacedBy : p[1] = q[1] => p = q

\* "Losing that race several times in a row isn't contention, it's a bug": with
\* MAX_ROTATION_ATTEMPTS attempts no rotation ever throws, since a secret is
\* forgotten after two rotations by others.
NeverGivesUp == \A r \in Request : pc[r] # "gaveUp"

\* A replaced secret rotates only for ReuseInterval seconds after it was replaced,
\* also when its refresh lost a race in between (classifySecret's 'replayed').
NoUseAfterGrace ==
    [][\A r \in Request :
          (pc[r] = "swap" /\ pc'[r] = "loadUser" /\ presented[r] # session.hash)
          => startedAt[r] <= replacedAt[presented[r]] + ReuseInterval]_vars

\* "End the session the presented secret belongs to": no request ends a session
\* of another sign-in than the one its secret comes from (revokeSession and
\* rotateSession read the session and then clear whatever is stored).
EndsOnlyItsOwnSession ==
    [][\A r \in Request :
          (pc[r] = "clear" /\ pc'[r] = "idle" /\ session.hash # NoSecret)
          => origin[presented[r]] = origin[session.hash]]_vars

----------------------------------------------------------------------------
(* The atomic session *)

\* What AtomicSession takes a request for: one that is at work on its refresh has asked.
PhaseAt == [idle |-> "idle", refreshRead |-> "asked", swap |-> "asked", gaveUp |-> "asked",
            loadUser |-> "rotated", logoutRead |-> "leaving",
            clear |-> "ending", clearGone |-> "ending"]

Asking == {r \in Request : PhaseAt[pc[r]] = "asked"}

\* A secret in the making has not been put to use.
Spent == (1..generated) \ {fresh[r] : r \in Asking}
Phase == [r \in Request |-> PhaseAt[pc[r]]]

Atomic == INSTANCE AtomicSession WITH spent <- Spent, phase <- Phase

\* A refresh is as good as one atomic step on the session stored when it swaps: the
\* compare-and-set looks at the hash only, and that is as good as looking at all that
\* was decided on, since a hash never comes back with another predecessor, date or
\* deadline (rotateSession, NEXXUS_DEVICE_SESSION_CAS_SCRIPT).
ImplementsAtomicSession == Atomic!Spec

============================================================================
