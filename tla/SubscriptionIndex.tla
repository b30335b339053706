------------------------- MODULE SubscriptionIndex -------------------------
(***************************************************************************)
(* The subscription index in Redis for one scope of one model: the         *)
(* channels of the scope (filtered or not), the device documents that list *)
(* them, and the partitions, partition indexes, scope counter and filter   *)
(* registry that list the devices (redis/src/lib/models/Subscription.ts,   *)
(* Device.ts).  Subscribe and unsubscribe come from the API                *)
(* (api/src/lib/routes/Subscription.ts), the clean-up after a disconnect   *)
(* from the transport worker (VolatileTransportWorker.ts).                 *)
(*                                                                         *)
(* Every Redis command is one step, and requests run concurrently: nothing *)
(* but the atomicity of single commands orders them.                       *)
(***************************************************************************)
EXTENDS Integers, FiniteSets, SequencesExt

CONSTANTS Device,
          Channel,      \* the channels of the scope
          Filtered,     \* those with a filter
          Partition,
          PartitionOf,  \* getDevicePartition: a hash of the device id
          Request,      \* requests and clean-ups that may be in flight
          MaxInFlight,  \* bound: how many of them at once
          MaxOverlaps,  \* bound: requests started while another is in flight
          MaxList       \* bound: entries in a device's subscription list

ASSUME IndexAssumption ==
    /\ Device # {} /\ Channel # {} /\ Request # {}
    /\ Filtered \subseteq Channel
    /\ PartitionOf \in [Device -> Partition]
    /\ MaxInFlight \in Nat \ {0}
    /\ MaxOverlaps \in Nat
    /\ MaxList \in Nat

VARIABLES
    socket,     \* the device has a registered connection
    connected,  \* document: transport is set
    list,       \* document: $.subscriptions, in order
    members,    \* partition sets: <<channel, device>>
    partitions, \* partition index: <<channel, partition>>
    scope,      \* scope registry: [present, count]
    filters,    \* filter registry: channels whose filter is stored
    pc,         \* per request: its next command
    dev, chan,  \* per request: its device and channel
    position,   \* per request: the list index hasSubscription found
    task,       \* per request and channel: where removeDevice is
    overlapped, \* history: requests started while another was in flight
    dropped     \* history: what HDEL on the scope counter threw away

documents == <<socket, connected, list>>
index == <<members, partitions, scope, filters, dropped>>
requests == <<pc, dev, overlapped, chan, position, task>>
vars == <<documents, index, requests>>

Pc == {"idle", "append", "add", "index", "count", "filter", "pop",
       "cleanup", "removing", "clear", "offline"}
Task == {"none", "remove", "cardPartition", "unindex", "cardIndex", "dropFilter",
         "decrement", "dropScope"}

TypeOK ==
    /\ socket \in [Device -> BOOLEAN]
    /\ connected \in [Device -> BOOLEAN]
    /\ \A d \in Device : list[d] \in Seq(Channel) /\ Len(list[d]) <= MaxList
    /\ members \subseteq Channel \X Device
    /\ partitions \subseteq Channel \X Partition
    /\ scope \in [present : BOOLEAN, count : Int]
    /\ filters \subseteq Filtered
    /\ pc \in [Request -> Pc]
    /\ dev \in [Request -> Device]
    /\ chan \in [Request -> Channel]
    /\ position \in [Request -> Nat]
    /\ task \in [Request -> [Channel -> Task]]
    /\ overlapped \in 0..MaxOverlaps
    /\ dropped \in Int

Init ==
    /\ socket = [d \in Device |-> FALSE]
    /\ connected = [d \in Device |-> FALSE]
    /\ list = [d \in Device |-> <<>>]
    /\ members = {} /\ partitions = {} /\ filters = {}
    /\ scope = [present |-> FALSE, count |-> 0]
    /\ pc = [r \in Request |-> "idle"]
    /\ dev = [r \in Request |-> CHOOSE d \in Device : TRUE]
    /\ chan = [r \in Request |-> CHOOSE c \in Channel : TRUE]
    /\ position = [r \in Request |-> 0]
    /\ task = [r \in Request |-> [c \in Channel |-> "none"]]
    /\ overlapped = 0
    /\ dropped = 0

InFlight == {r \in Request : pc[r] # "idle"}
Start(r) ==
    /\ pc[r] = "idle" /\ Cardinality(InFlight) < MaxInFlight
    /\ IF InFlight = {} THEN UNCHANGED overlapped
       ELSE overlapped < MaxOverlaps /\ overlapped' = overlapped + 1

GoTo(r, where) == pc' = [pc EXCEPT ![r] = where]
TaskTo(r, c, where) == task' = [task EXCEPT ![r][c] = where]

\* The members in the partition set that holds d.
PartitionSet(c, d) == {m \in members : m[1] = c /\ PartitionOf[m[2]] = PartitionOf[d]}

----------------------------------------------------------------------------
(* Subscribe: addSubscription and addDevice *)

\* get, then hasSubscription.  Its second look in Redis never finds anything: a
\* JSONPath read returns the list wrapped in an array of matches.
Subscribe(r, d, c) ==
    /\ Start(r) /\ connected[d]
    /\ ~Contains(list[d], c)
    /\ Len(list[d]) + Cardinality({q \in Request : pc[q] = "append" /\ dev[q] = d}) < MaxList
    /\ GoTo(r, "append")
    /\ dev' = [dev EXCEPT ![r] = d]
    /\ chan' = [chan EXCEPT ![r] = c]
    /\ UNCHANGED <<documents, index, position, task>>

AppendEntry(r) ==
    /\ pc[r] = "append"
    /\ list' = [list EXCEPT ![dev[r]] = Append(@, chan[r])]
    /\ GoTo(r, "add")
    /\ UNCHANGED <<socket, connected, index, dev, overlapped, chan, position, task>>

\* Mutant of AddMember: counts a device that is there already.
AddAlways(r) ==
    /\ pc[r] = "add"
    /\ members' = members \cup {<<chan[r], dev[r]>>}
    /\ GoTo(r, "index")
    /\ UNCHANGED <<documents, partitions, scope, filters, dropped, dev, overlapped, chan, position, task>>

\* SADD says whether the device is new in the channel.
AddMember(r) ==
    /\ pc[r] = "add"
    /\ members' = members \cup {<<chan[r], dev[r]>>}
    /\ GoTo(r, IF <<chan[r], dev[r]>> \in members THEN "idle" ELSE "index")
    /\ UNCHANGED <<documents, partitions, scope, filters, dropped, dev, overlapped, chan, position, task>>

IndexPartition(r) ==
    /\ pc[r] = "index"
    /\ partitions' = partitions \cup {<<chan[r], PartitionOf[dev[r]]>>}
    /\ GoTo(r, "count")
    /\ UNCHANGED <<documents, members, scope, filters, dropped, dev, overlapped, chan, position, task>>

CountUp(r) ==
    /\ pc[r] = "count"
    /\ scope' = [present |-> TRUE, count |-> scope.count + 1]
    /\ GoTo(r, IF chan[r] \in Filtered THEN "filter" ELSE "idle")
    /\ UNCHANGED <<documents, members, partitions, filters, dropped, dev, overlapped, chan, position, task>>

StoreFilter(r) ==
    /\ pc[r] = "filter"
    /\ filters' = filters \cup {chan[r]}
    /\ GoTo(r, "idle")
    /\ UNCHANGED <<documents, members, partitions, scope, dropped, dev, overlapped, chan, position, task>>

----------------------------------------------------------------------------
(* Unsubscribe: removeSubscription *)

Unsubscribe(r, d, c) ==
    /\ Start(r) /\ connected[d]
    /\ Contains(list[d], c)
    /\ GoTo(r, "pop")
    /\ dev' = [dev EXCEPT ![r] = d]
    /\ chan' = [chan EXCEPT ![r] = c]
    /\ position' = [position EXCEPT ![r] = SelectInSeq(list[d], LAMBDA x : x = c)]
    /\ UNCHANGED <<documents, index, task>>

\* JSON.ARRPOP takes what is at the index now; past the end, the last entry.
PopEntry(r) ==
    LET l == list[dev[r]]
        i == IF position[r] <= Len(l) THEN position[r] ELSE Len(l)
    IN
    /\ pc[r] = "pop"
    /\ list' = [list EXCEPT ![dev[r]] = IF l = <<>> THEN l ELSE RemoveAt(l, i)]
    /\ GoTo(r, "removing")
    /\ TaskTo(r, chan[r], "remove")
    /\ UNCHANGED <<socket, connected, index, dev, overlapped, chan, position>>

----------------------------------------------------------------------------
(* removeDevice, one for the channel of an unsubscribe, one for every      *)
(* channel of a device that disconnected, all at once                      *)

\* Mutant of RemoveMember: does not look at what SREM returned.
RemoveAlways(r, c) ==
    /\ task[r][c] = "remove"
    /\ members' = members \ {<<c, dev[r]>>}
    /\ TaskTo(r, c, "cardPartition")
    /\ UNCHANGED <<documents, partitions, scope, filters, dropped, pc, dev, overlapped, chan, position>>

RemoveMember(r, c) ==
    /\ task[r][c] = "remove"
    /\ members' = members \ {<<c, dev[r]>>}
    /\ TaskTo(r, c, IF <<c, dev[r]>> \in members THEN "cardPartition" ELSE "none")
    /\ UNCHANGED <<documents, partitions, scope, filters, dropped, pc, dev, overlapped, chan, position>>

\* Mutant of PartitionEmptied: the partition is dropped with its first device.
PartitionLeft(r, c) == TRUE

PartitionEmptied(r, c) == PartitionSet(c, dev[r]) = {}

CardPartition(r, c) ==
    /\ task[r][c] = "cardPartition"
    /\ TaskTo(r, c, IF PartitionEmptied(r, c) THEN "unindex" ELSE "decrement")
    /\ UNCHANGED <<documents, index, pc, dev, overlapped, chan, position>>

Unindex(r, c) ==
    /\ task[r][c] = "unindex"
    /\ partitions' = partitions \ {<<c, PartitionOf[dev[r]]>>}
    /\ TaskTo(r, c, "cardIndex")
    /\ UNCHANGED <<documents, members, scope, filters, dropped, pc, dev, overlapped, chan, position>>

CardIndex(r, c) ==
    /\ task[r][c] = "cardIndex"
    /\ TaskTo(r, c, IF c \in Filtered /\ ~\E p \in Partition : <<c, p>> \in partitions
                    THEN "dropFilter" ELSE "decrement")
    /\ UNCHANGED <<documents, index, pc, dev, overlapped, chan, position>>

DropFilter(r, c) ==
    /\ task[r][c] = "dropFilter"
    /\ filters' = filters \ {c}
    /\ TaskTo(r, c, "decrement")
    /\ UNCHANGED <<documents, members, partitions, scope, dropped, pc, dev, overlapped, chan, position>>

CountDown(r, c) ==
    /\ task[r][c] = "decrement"
    /\ scope' = [present |-> TRUE, count |-> scope.count - 1]
    /\ TaskTo(r, c, IF scope.count - 1 <= 0 THEN "dropScope" ELSE "none")
    /\ UNCHANGED <<documents, members, partitions, filters, dropped, pc, dev, overlapped, chan, position>>

DropScope(r, c) ==
    /\ task[r][c] = "dropScope"
    /\ scope' = [present |-> FALSE, count |-> 0]
    /\ dropped' = dropped + scope.count
    /\ TaskTo(r, c, "none")
    /\ UNCHANGED <<documents, members, partitions, filters, pc, dev, overlapped, chan, position>>

RemoveDevice(r, c) ==
    \/ RemoveMember(r, c) \/ CardPartition(r, c) \/ Unindex(r, c) \/ CardIndex(r, c)
    \/ DropFilter(r, c) \/ CountDown(r, c) \/ DropScope(r, c)

\* Promise.all: an unsubscribe is done, a clean-up goes on to the document.
Removed(r) ==
    /\ pc[r] \in {"removing", "cleanup"}
    /\ \A c \in Channel : task[r][c] = "none"
    /\ GoTo(r, IF pc[r] = "removing" THEN "idle" ELSE "clear")
    /\ UNCHANGED <<documents, index, dev, overlapped, chan, position, task>>

----------------------------------------------------------------------------
(* Connections: registerDevice and unregisterDevice *)

Connect(d) ==
    /\ ~socket[d]
    /\ socket' = [socket EXCEPT ![d] = TRUE]
    /\ connected' = [connected EXCEPT ![d] = TRUE]
    /\ UNCHANGED <<list, index, requests>>

\* The socket closes; removeAllSubscriptions loads the document.
Disconnect(r, d) ==
    /\ Start(r) /\ socket[d]
    /\ socket' = [socket EXCEPT ![d] = FALSE]
    /\ GoTo(r, "cleanup")
    /\ dev' = [dev EXCEPT ![r] = d]
    /\ task' = [task EXCEPT ![r] = [c \in Channel |->
                   IF connected[d] /\ Contains(list[d], c) THEN "remove" ELSE "none"]]
    /\ UNCHANGED <<connected, list, index, chan, position>>

ClearList(r) ==
    /\ pc[r] = "clear"
    /\ list' = [list EXCEPT ![dev[r]] = <<>>]
    /\ GoTo(r, "offline")
    /\ UNCHANGED <<socket, connected, index, dev, overlapped, chan, position, task>>

GoOffline(r) ==
    /\ pc[r] = "offline"
    /\ connected' = [connected EXCEPT ![dev[r]] = FALSE]
    /\ GoTo(r, "idle")
    /\ UNCHANGED <<socket, list, index, dev, overlapped, chan, position, task>>

----------------------------------------------------------------------------
RequestStep(r) ==
    \/ \E d \in Device, c \in Channel : Subscribe(r, d, c) \/ Unsubscribe(r, d, c)
    \/ AppendEntry(r) \/ AddMember(r) \/ IndexPartition(r) \/ CountUp(r) \/ StoreFilter(r)
    \/ PopEntry(r) \/ Removed(r)
    \/ \E c \in Channel : RemoveDevice(r, c)
    \/ \E d \in Device : Disconnect(r, d)
    \/ ClearList(r) \/ GoOffline(r)

Next ==
    \/ \E d \in Device : Connect(d)
    \/ \E r \in Request : RequestStep(r)

Spec == Init /\ [][Next]_vars

----------------------------------------------------------------------------
(* Properties *)

Quiet == InFlight = {}

\* Every member is counted exactly once, however requests interleave: apart from
\* what HDEL threw away, the scope counter is the number of members, less the adds
\* that have not counted theirs yet, plus the removals that have not.
\* ("bail so we don't double-count the scope HINCRBY").
CountedOnce ==
    scope.count + dropped
      = Cardinality(members)
        - Cardinality({r \in Request : pc[r] \in {"index", "count"}})
        + Cardinality({t \in Request \X Channel :
              task[t[1]][t[2]] \in {"cardPartition", "unindex", "cardIndex",
                                    "dropFilter", "decrement"}})

\* While requests come one at a time, after each the index mirrors the documents:
\* the members are what the devices' lists say, the partition index, the scope
\* counter and the filter registry are what the members say.
IndexMatchesDocuments ==
    Quiet /\ overlapped = 0 =>
        /\ members = {m \in Channel \X Device : Contains(list[m[2]], m[1])}
        /\ partitions = {<<m[1], PartitionOf[m[2]]>> : m \in members}
        /\ scope = [present |-> members # {}, count |-> Cardinality(members)]
        /\ filters = Filtered \cap {m[1] : m \in members}

\* "which partitions are currently non-empty": a member's partition is indexed,
\* or fan-out does not find the device.
MembersAreIndexed ==
    Quiet => \A m \in members : <<m[1], PartitionOf[m[2]]>> \in partitions

\* "When the connection closes, the device's subscriptions are removed."
ClosedHasNone ==
    Quiet => \A d \in Device : ~socket[d] => \A c \in Channel : <<c, d>> \notin members

============================================================================
