--------------------------- MODULE AtomicSession ---------------------------
(***************************************************************************)
(* What a device's refresh session promises the requests on it: a refresh  *)
(* is one indivisible step, which decides on the session as it is stored   *)
(* at that moment and, if it rotates, puts a secret in its place that has  *)
(* never been used.  DeviceSession implements it with a read, a            *)
(* compare-and-set on the hash alone, and a bounded number of retries      *)
(* (api/src/lib/Session.ts, redis/src/lib/models/Device.ts).               *)
(*                                                                         *)
(* Ending a session is not part of the promise: a logout, or a refresh     *)
(* that finds its secret expired or replayed, decides in one step and ends *)
(* whatever session is stored in a later one.                              *)
(***************************************************************************)
EXTENDS Naturals

CONSTANTS Request, Secret, NoSecret, ReuseInterval, Lifetime

VARIABLES now,
          session,   \* the stored session; hash = NoSecret when there is none
          spent,     \* secrets stored once, or thrown away
          phase,     \* per request: idle, asked, rotated, leaving, ending
          presented, \* per request: the secret it came with
          startedAt  \* per request: when it came

vars == <<now, session, spent, phase, presented, startedAt>>

NoSession == [hash |-> NoSecret, prev |-> NoSecret, rotatedAt |-> 0, expiresAt |-> 0]

Init ==
    /\ now = 0
    /\ session = NoSession
    /\ spent = {}
    /\ phase = [r \in Request |-> "idle"]
    /\ presented = [r \in Request |-> NoSecret]
    /\ startedAt = [r \in Request |-> 0]

Moves(r, from, to) == phase[r] = from /\ phase' = [phase EXCEPT ![r] = to]

\* Each secret is put to use once.
Spends(s) == s \notin spent /\ spent' = spent \cup {s}

Recognises(r) ==
    session.hash # NoSecret /\ presented[r] \in {session.hash, session.prev} \ {NoSecret}

InTime(r) ==
    /\ startedAt[r] < session.expiresAt
    /\ presented[r] = session.hash \/ startedAt[r] <= session.rotatedAt + ReuseInterval

SignIn(s) ==
    /\ Spends(s)
    /\ session' = [hash |-> s, prev |-> NoSecret, rotatedAt |-> 0, expiresAt |-> now + Lifetime]
    /\ UNCHANGED <<now, phase, presented, startedAt>>

Ask(r, secret) ==
    /\ Moves(r, "idle", "asked")
    /\ presented' = [presented EXCEPT ![r] = secret]
    /\ startedAt' = [startedAt EXCEPT ![r] = now]
    /\ UNCHANGED <<now, session, spent>>

\* The successor keeps the deadline of the sign-in.
Rotate(r, s) ==
    /\ Moves(r, "asked", "rotated")
    /\ Recognises(r) /\ InTime(r)
    /\ Spends(s)
    /\ session' = [hash |-> s, prev |-> session.hash,
                   rotatedAt |-> startedAt[r], expiresAt |-> session.expiresAt]
    /\ UNCHANGED <<now, presented, startedAt>>

\* Expired or replayed: the secret made for the request is thrown away.
Reject(r, s) ==
    /\ Moves(r, "asked", "ending")
    /\ Recognises(r) /\ ~InTime(r)
    /\ Spends(s)
    /\ UNCHANGED <<now, session, presented, startedAt>>

Answered(r) ==
    /\ presented' = [presented EXCEPT ![r] = NoSecret]
    /\ startedAt' = [startedAt EXCEPT ![r] = 0]

\* No session, or none that knows the secret.
Refuse(r, s) ==
    /\ Moves(r, "asked", "idle")
    /\ ~Recognises(r)
    /\ Spends(s)
    /\ Answered(r)
    /\ UNCHANGED <<now, session>>

\* The tokens go out, unless the user is no more.
Deliver(r) ==
    /\ \/ Moves(r, "rotated", "idle") /\ Answered(r)
       \/ Moves(r, "rotated", "ending") /\ UNCHANGED <<presented, startedAt>>
    /\ UNCHANGED <<now, session, spent>>

AskToLeave(r, secret) ==
    /\ Moves(r, "idle", "leaving")
    /\ presented' = [presented EXCEPT ![r] = secret]
    /\ UNCHANGED <<now, session, spent, startedAt>>

Leave(r) ==
    /\ \/ Moves(r, "leaving", "ending") /\ Recognises(r) /\ UNCHANGED <<presented, startedAt>>
       \/ Moves(r, "leaving", "idle") /\ ~Recognises(r) /\ Answered(r)
    /\ UNCHANGED <<now, session, spent>>

End(r) ==
    /\ Moves(r, "ending", "idle")
    /\ session' = NoSession
    /\ Answered(r)
    /\ UNCHANGED <<now, spent>>

Tick ==
    /\ now' = now + 1
    /\ UNCHANGED <<session, spent, phase, presented, startedAt>>

Next ==
    \/ Tick
    \/ \E s \in Secret : SignIn(s)
    \/ \E r \in Request :
          \/ \E s \in Secret : Ask(r, s) \/ Rotate(r, s) \/ Reject(r, s) \/ Refuse(r, s) \/ AskToLeave(r, s)
          \/ Deliver(r) \/ Leave(r) \/ End(r)

Spec == Init /\ [][Next]_vars

============================================================================
