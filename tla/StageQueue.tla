----------------------------- MODULE StageQueue -----------------------------
(***************************************************************************)
(* What a pipeline stage's queue promises the worker that consumes it: a   *)
(* message is ready, taken, done or dead; it may be taken and given back   *)
(* any number of times, a handler may have succeeded on it without the     *)
(* queue learning of it, and done and dead are final.  It is the           *)
(* at-least-once contract MessageDelivery implements                       *)
(* (message_queue/src/lib/MessageQueueAdapter.ts).                         *)
(***************************************************************************)
CONSTANT Message

VARIABLES ready, taken, done, dead,
          ok            \* messages a run of the handler succeeded on

vars == <<ready, taken, done, dead, ok>>

Init ==
    /\ ready = Message
    /\ taken = {} /\ done = {} /\ dead = {} /\ ok = {}

Take(m) ==
    /\ m \in ready
    /\ ready' = ready \ {m}
    /\ taken' = taken \cup {m}
    /\ UNCHANGED <<done, dead, ok>>

\* A requeue, a lost connection or a shutdown, of one or more messages.
GiveBack(S) ==
    /\ S \subseteq taken
    /\ ready' = ready \cup S
    /\ taken' = taken \ S
    /\ UNCHANGED <<done, dead, ok>>

Ack(m) ==
    /\ m \in taken
    /\ taken' = taken \ {m}
    /\ done' = done \cup {m}
    /\ ok' = ok \cup {m}
    /\ UNCHANGED <<ready, dead>>

\* The handler of a delivery that was given back meanwhile.
LateSuccess(m) ==
    /\ ok' = ok \cup {m}
    /\ UNCHANGED <<ready, taken, done, dead>>

DeadLetter(m) ==
    /\ m \in taken
    /\ taken' = taken \ {m}
    /\ dead' = dead \cup {m}
    /\ UNCHANGED <<ready, done, ok>>

Next ==
    \/ \E m \in Message : Take(m) \/ Ack(m) \/ LateSuccess(m) \/ DeadLetter(m)
    \/ \E S \in SUBSET Message : GiveBack(S)

Spec == Init /\ [][Next]_vars

============================================================================
