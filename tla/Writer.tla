------------------------------- MODULE Writer -------------------------------
(***************************************************************************)
(* The life of one object of an application: requests of its owner to the  *)
(* API (api/src/lib/routes/Model.ts, Acl.ts), their messages on the writer *)
(* queue, the writer worker (worker/src/lib/WriterWorker.ts) with the      *)
(* database and the field cache (redis/src/lib/models/FieldCache.ts), and  *)
(* the events it publishes for the transport manager.                      *)
(*                                                                         *)
(* Several writers handle several messages at once, in any order; what     *)
(* MessageDelivery shows of a queue is used here: a message is handled by  *)
(* one worker at a time and comes again when its handler does not resolve. *)
(***************************************************************************)
EXTENDS Naturals

CONSTANTS Create, Update, Delete, \* messages; an update patches the object's `acl` field
          MaxBreaks,              \* bound: handlers that break off
          none

Msg == Create \cup Update \cup Delete

ASSUME WriterAssumption ==
    /\ none \notin Msg
    /\ Create \cap Update = {} /\ Create \cap Delete = {} /\ Update \cap Delete = {}
    /\ MaxBreaks \in Nat

VARIABLES
    answer,      \* per request: none, accepted, failed, forbidden (not the owner), absent
    pc,          \* per message: where it is
    doc,         \* the document: none, or the message that wrote its `acl` field
    cache,       \* the field cache's hash: its `acl` field, its owner, its time to live
    told,        \* per message: its event reached the transport manager's queue, or failed to
    applied,     \* history: how often a message was written to the database
    broken,      \* history: messages whose handler broke off after its write
    breaks,      \* how many handlers broke off
    tainted      \* history: cache operations of two writers overlapped, or one failed

history == <<applied, broken, tainted>>
vars == <<answer, pc, doc, cache, told, breaks, history>>

\* After the write, up to the operation on the cache.
Mirroring == {"publish", "hset", "expire", "unlink"}
Handling == Mirroring \cup {"write", "publishLast"}
Pc == Handling \cup {"idle", "dbget", "sending", "lost", "queued", "done", "dead"}
NoEntry == [acl |-> none, owner |-> FALSE, ttl |-> FALSE]

TypeOK ==
    /\ answer \in [Msg -> {"none", "accepted", "failed", "forbidden", "absent"}]
    /\ pc \in [Msg -> Pc]
    /\ doc \in Create \cup Update \cup {none}
    /\ cache \in [acl : Create \cup Update \cup {none}, owner : BOOLEAN, ttl : BOOLEAN]
    /\ told \in [Msg -> {"no", "failed", "yes"}]
    /\ applied \in [Msg -> 0..(MaxBreaks + 1)]
    /\ broken \subseteq Msg
    /\ breaks \in 0..MaxBreaks
    /\ tainted \in BOOLEAN

Init ==
    /\ answer = [m \in Msg |-> "none"]
    /\ pc = [m \in Msg |-> "idle"]
    /\ doc = none
    /\ cache = NoEntry
    /\ told = [m \in Msg |-> "no"]
    /\ applied = [m \in Msg |-> 0]
    /\ broken = {}
    /\ breaks = 0
    /\ tainted = FALSE

Goto(m, step) == pc' = [pc EXCEPT ![m] = step]
Answered(m, a) == answer' = [answer EXCEPT ![m] = a]
Cached == cache.acl # none
----------------------------------------------------------------------------
(* The API *)

\* authorize lets the owner create; an update or a delete is checked against the cached
\* fields, if there are any, and against the document otherwise.
Request(m) ==
    /\ pc[m] = "idle"
    /\ IF m \in Create THEN Goto(m, "sending") /\ UNCHANGED answer
       ELSE IF ~Cached THEN Goto(m, "dbget") /\ UNCHANGED answer
       ELSE IF cache.owner THEN Goto(m, "sending") /\ UNCHANGED answer
       ELSE Goto(m, "lost") /\ Answered(m, "forbidden")
    /\ UNCHANGED <<doc, cache, told, breaks, history>>

\* loadObjectAttributes after a miss.
LoadFromDatabase(m) ==
    /\ pc[m] = "dbget"
    /\ IF doc # none THEN Goto(m, "sending") /\ UNCHANGED answer
       ELSE Goto(m, "lost") /\ Answered(m, "absent")
    /\ UNCHANGED <<doc, cache, told, breaks, history>>

\* The broker gets the message, perhaps after the API stopped waiting.
Enqueue(m) ==
    /\ pc[m] = "sending"
    /\ Goto(m, "queued")
    /\ UNCHANGED <<answer, doc, cache, told, breaks, history>>

\* Mutant of Confirmed: sendToQueue without waiting for the broker.
ConfirmedAtOnce(m) == pc[m] \notin {"idle", "dbget"}

\* The broker has the message, and has said so.
Confirmed(m) == pc[m] \notin {"idle", "dbget", "sending", "lost"}

Accept(m) ==
    /\ answer[m] = "none" /\ Confirmed(m)
    /\ Answered(m, "accepted")
    /\ UNCHANGED <<pc, doc, cache, told, breaks, history>>

\* publishMessage gives up; the message is lost, on its way, or even handled.
PublishTimesOut(m) ==
    /\ answer[m] = "none" /\ pc[m] \notin {"idle", "dbget"}
    /\ Answered(m, "failed")
    /\ \/ UNCHANGED pc
       \/ pc[m] = "sending" /\ Goto(m, "lost")
    /\ UNCHANGED <<doc, cache, told, breaks, history>>
----------------------------------------------------------------------------
(* The writer *)

\* Another writer is between its write and its cache operation.
Overlaps(m) == \E n \in Msg \ {m} : pc[n] \in Mirroring

Take(m) ==
    /\ pc[m] = "queued"
    /\ Goto(m, "write")
    /\ UNCHANGED <<answer, doc, cache, told, breaks, history>>

Wrote(m) ==
    /\ applied' = [applied EXCEPT ![m] = @ + 1]
    /\ tainted' = (tainted \/ Overlaps(m))
    /\ UNCHANGED <<answer, cache, told, breaks, broken>>

\* createItems: an `index` operation, which also writes over what is there.
CreateItem(m) ==
    /\ pc[m] = "write" /\ m \in Create
    /\ doc' = m
    /\ Goto(m, "publish")
    /\ Wrote(m)

\* updateItems, then the write-through of the field the patch touched.
UpdateItem(m) ==
    /\ pc[m] = "write" /\ m \in Update /\ doc # none
    /\ doc' = m
    /\ Goto(m, "hset")
    /\ Wrote(m)

\* deleteItems, which has read the fields to return a moment before.
DeleteItem(m) ==
    /\ pc[m] = "write" /\ m \in Delete /\ doc # none
    /\ doc' = none
    /\ Goto(m, "publish")
    /\ Wrote(m)

\* updateItems and deleteItems answer null: nothing to tell anybody.
NothingThere(m) ==
    /\ pc[m] = "write" /\ m \notin Create /\ doc = none
    /\ Goto(m, "done")
    /\ UNCHANGED <<answer, doc, cache, told, breaks, history>>

\* The step after the publish, and the one after the cache.
AfterPublish(m) == IF pc[m] = "publishLast" THEN "done" ELSE IF m \in Create THEN "hset" ELSE "unlink"
AfterCache(m) == IF m \in Update THEN "publishLast" ELSE "done"

Publish(m) ==
    /\ pc[m] \in {"publish", "publishLast"}
    /\ told' = [told EXCEPT ![m] = "yes"]
    /\ Goto(m, AfterPublish(m))
    /\ UNCHANGED <<answer, doc, cache, breaks, history>>

\* Mutant of PublishFails: the failure is thrown, and the message retried.
PublishRejects(m) ==
    /\ pc[m] \in {"publish", "publishLast"}
    /\ Goto(m, "queued")
    /\ UNCHANGED <<answer, doc, cache, told, breaks, history>>

\* publish() swallows a failure; one after which the event got there all the same is a Publish.
PublishFails(m) ==
    /\ pc[m] \in {"publish", "publishLast"}
    /\ told' = [told EXCEPT ![m] = IF @ = "yes" THEN @ ELSE "failed"]
    /\ Goto(m, AfterPublish(m))
    /\ UNCHANGED <<answer, doc, cache, breaks, applied, broken, tainted>>

\* HSET merges.  The creation mirrors the builtin fields, an update its own.
HSet(m) ==
    /\ pc[m] = "hset"
    /\ cache' = [cache EXCEPT !.acl = m, !.owner = @ \/ m \in Create]
    /\ Goto(m, "expire")
    /\ UNCHANGED <<answer, doc, told, breaks, history>>

SetExpiry(m) ==
    /\ pc[m] = "expire"
    /\ cache' = [cache EXCEPT !.ttl = Cached]
    /\ Goto(m, AfterCache(m))
    /\ UNCHANGED <<answer, doc, told, breaks, history>>

\* Mutant of UnlinkEntry: a deletion leaves the cache alone.
LeaveEntry(m) ==
    /\ pc[m] = "unlink"
    /\ Goto(m, "done")
    /\ UNCHANGED <<answer, doc, cache, told, breaks, history>>

UnlinkEntry(m) ==
    /\ pc[m] = "unlink"
    /\ cache' = NoEntry
    /\ Goto(m, "done")
    /\ UNCHANGED <<answer, doc, told, breaks, history>>

\* Mutant of CacheFails: the failure ends the handler, and the message is discarded.
CacheRejects(m) ==
    /\ pc[m] \in {"hset", "expire", "unlink"}
    /\ Goto(m, "done")
    /\ tainted' = TRUE
    /\ UNCHANGED <<answer, doc, cache, told, breaks, applied, broken>>

\* safeFieldCacheOp swallows a failure.
CacheFails(m) ==
    /\ pc[m] \in {"hset", "expire", "unlink"}
    /\ Goto(m, AfterCache(m))
    /\ tainted' = TRUE
    /\ UNCHANGED <<answer, doc, cache, told, breaks, applied, broken>>

EntryExpires ==
    /\ cache.ttl
    /\ cache' = NoEntry
    /\ UNCHANGED <<answer, pc, doc, told, breaks, history>>

\* The handler fails or its process dies: the message comes again, or is given up.
Breaks(m) ==
    /\ pc[m] \in Handling
    /\ breaks < MaxBreaks /\ breaks' = breaks + 1
    /\ Goto(m, "queued") \/ Goto(m, "dead")
    /\ broken' = IF pc[m] = "write" THEN broken ELSE broken \cup {m}
    /\ tainted' = (tainted \/ pc[m] \in Mirroring)
    /\ UNCHANGED <<answer, doc, cache, told, applied>>
----------------------------------------------------------------------------
Handler(m) ==
    \/ Take(m) \/ CreateItem(m) \/ UpdateItem(m) \/ DeleteItem(m) \/ NothingThere(m)
    \/ Publish(m) \/ PublishFails(m) \/ HSet(m) \/ SetExpiry(m) \/ UnlinkEntry(m) \/ CacheFails(m)

Next ==
    \/ \E m \in Msg :
        \/ Request(m) \/ LoadFromDatabase(m) \/ Enqueue(m) \/ Accept(m) \/ PublishTimesOut(m)
        \/ Handler(m) \/ Breaks(m)
    \/ EntryExpires

Spec == Init /\ [][Next]_vars
----------------------------------------------------------------------------
(* Properties *)

\* A write is repeated only for a handler that broke off after it: neither a publish nor
\* a cache operation that fails sends a message round again.
RepeatsOnlyAfterBreak == \A m \in Msg : applied[m] > 1 => m \in broken

\* A change that was accepted and carried out is told to the transport manager, or its publish
\* has failed; a creation whose handler broke off is told by the next one.
ChangesAreTold ==
    \A m \in Msg : pc[m] = "done" /\ applied[m] > 0 /\ (m \in Create \/ m \notin broken)
        => told[m] # "no"

\* A request answered with 202 has its message on the queue, with a writer, or behind it: a
\* message that the broker did not get, or that comes after its request gave up, is not accepted.
AcceptedIsQueued == \A m \in Msg : answer[m] = "accepted" => pc[m] \in Handling \cup {"queued", "done", "dead"}

\* When no writer is at work on the object, and none was disturbed, the cache has what the
\* database has, and will expire.
CacheMirrors ==
    ~tainted /\ (\A m \in Msg : pc[m] \notin Mirroring) =>
        /\ cache.acl \in {none, doc}
        /\ Cached => cache.ttl

\* The comment of DeleteItem's null: "the delete that got there first has told the subscribers".
DeletionIsTold ==
    \A m \in Delete : pc[m] = "done" /\ applied[m] > 0 => told[m] # "no"

\* The comment of the write-through: a partial entry is fine, the read path fills it up.
OwnerIsRecognised == \A m \in Msg : answer[m] # "forbidden"
=============================================================================
