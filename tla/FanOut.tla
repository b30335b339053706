------------------------------- MODULE FanOut -------------------------------
(***************************************************************************)
(* From a change in the database to the devices that hear of it: a writer  *)
(* stores the change and tells the transport manager, which looks up the   *)
(* subscription index (worker/src/lib/TransportManagerWorker.ts,           *)
(* redis/src/lib/models/Subscription.ts) and publishes one message for     *)
(* every transport and set of channels, while devices subscribe and        *)
(* unsubscribe (api/src/lib/routes/Subscription.ts).  A subscribe request  *)
(* writes the index one command after the other, and answers with a first  *)
(* page of the channel's objects, from a search that shows what was stored *)
(* before the search index was last refreshed: a process that refreshed it *)
(* a moment ago searches without a refresh.  The transport manager reads   *)
(* the subscription index one command after the other.                     *)
(*                                                                         *)
(* Removals are one step and come when no subscribe is half done: what     *)
(* they do to each other otherwise is the subject of SubscriptionIndex.    *)
(***************************************************************************)
EXTENDS Naturals, FiniteSets, Sequences

CONSTANTS Device, TransportOf, Partition, PartitionOf,
          Api,        \* processes that serve subscribe requests
          Scope,      \* of subscriptions: a model, a user's objects of it, one object
          Plain,      \* per scope: its channel without a filter
          Filtered,   \* channels with a filter
          FilterScope,\* per filtered channel: its scope
          Stale,      \* channels whose filter no longer compiles
          Change,     \* changes of objects, told as events
          Patterns,   \* per change: the scopes of its object, in the order they are tried
          Passes,     \* <<change, filtered channel>>: the object passes the filter
          Subscription, \* what devices subscribe to: <<device, channel>>
          MaxTries    \* attempts the queue makes at an event

Channel == Filtered \cup {Plain[s] : s \in Scope}

ASSUME FanOutAssumption ==
    /\ IsFiniteSet(Subscription) /\ Scope # {}
    /\ PartitionOf \in [Device -> Partition]
    /\ FilterScope \in [Filtered -> Scope]
    /\ \A s \in Scope : Plain[s] \notin Filtered
    /\ \A s, t \in Scope : Plain[s] = Plain[t] => s = t
    /\ Stale \subseteq Filtered
    /\ Subscription \subseteq Device \X Channel
    /\ \A e \in Change : Patterns[e] \in Seq(Scope)
    /\ Passes \subseteq Change \X Filtered
    /\ MaxTries \in Nat \ {0}

VARIABLES
    sub,      \* per subscription: where its request is, off or on
    page,     \* per subscription: the changes its first page shows
    blind,    \* history: changes its search may lack, stored since its process last refreshed
    visible,  \* changes that a search shows
    throttled,\* processes that refreshed the search index less than 500 ms ago
    recent,   \* per such process: changes stored since
    members,  \* partition sets
    indexed,  \* partition indexes: <<channel, partition>>
    count,    \* scope registry
    filters,  \* filter registries
    at,       \* per change: where it is
    scopes,   \* per event in hand: patterns still to try, by their position
    chan,     \* the channel being read
    parts,    \* its partitions still to read
    chans,    \* filtered channels of the pattern still to read
    found,    \* device-to-channels map, as pairs
    unsent,   \* messages not settled yet
    failed,   \* a publish of this attempt failed
    tries,    \* attempts begun
    heard,    \* how many messages with the event reached a device
    told      \* <<change, subscription>>: told by one of them

index == <<members, indexed, count, filters>>
clients == <<sub, page, blind>>
search == <<visible, throttled, recent>>
reader == <<scopes, chan, parts, chans, found>>
sender == <<unsent, failed, heard, told>>
vars == <<clients, search, index, at, reader, sender, tries>>

ScopeOf(c) == IF c \in Filtered THEN FilterScope[c] ELSE CHOOSE s \in Scope : Plain[s] = c
Messages == [transport : {TransportOf[d] : d \in Device}, channels : SUBSET Channel, devices : SUBSET Device]

TypeOK ==
    /\ sub \in [Subscription -> {"off", "add", "index", "count", "filter", "search", "page", "on"}]
    /\ page \in [Subscription -> SUBSET Change] /\ blind \in [Subscription -> SUBSET Change]
    /\ visible \subseteq Change /\ throttled \subseteq Api
    /\ recent \in [Api -> SUBSET Change]
    /\ members \subseteq Subscription
    /\ indexed \subseteq Channel \X Partition
    /\ count \in [Scope -> 0..Cardinality(Subscription)]
    /\ filters \subseteq Filtered
    /\ at \in [Change -> {"unborn", "stored", "queued", "scope", "index", "members",
                          "filters", "filter", "publish", "done", "dead"}]
    /\ scopes \in [Change -> SUBSET Nat]
    /\ \A e \in Change : scopes[e] \subseteq DOMAIN Patterns[e]
    /\ unsent \in [Change -> SUBSET Messages]
    /\ chan \in [Change -> Channel]
    /\ parts \in [Change -> SUBSET Partition]
    /\ chans \in [Change -> SUBSET Filtered]
    /\ found \in [Change -> SUBSET Subscription]
    /\ failed \in [Change -> BOOLEAN]
    /\ tries \in [Change -> 0..MaxTries]
    /\ heard \in [Change -> [Device -> 0..MaxTries]]
    /\ told \subseteq Change \X Subscription

Init ==
    /\ sub = [s \in Subscription |-> "off"]
    /\ page = [s \in Subscription |-> {}] /\ blind = [s \in Subscription |-> {}]
    /\ visible = {} /\ throttled = {} /\ recent = [p \in Api |-> {}]
    /\ members = {} /\ indexed = {} /\ filters = {}
    /\ count = [s \in Scope |-> 0]
    /\ at = [e \in Change |-> "unborn"]
    /\ scopes = [e \in Change |-> {}]
    /\ chan = [e \in Change |-> CHOOSE c \in Channel : TRUE]
    /\ parts = [e \in Change |-> {}]
    /\ chans = [e \in Change |-> {}]
    /\ found = [e \in Change |-> {}]
    /\ unsent = [e \in Change |-> {}]
    /\ failed = [e \in Change |-> FALSE]
    /\ tries = [e \in Change |-> 0]
    /\ heard = [e \in Change |-> [d \in Device |-> 0]]
    /\ told = {}

SubTo(s, step) == sub' = [sub EXCEPT ![s] = step]
AtTo(e, step) == at' = [at EXCEPT ![e] = step]
----------------------------------------------------------------------------
(* Subscribe and unsubscribe *)

Subscribe(s) ==
    /\ sub[s] = "off"
    /\ SubTo(s, "add")
    /\ UNCHANGED <<page, blind, search, index, at, reader, sender, tries>>

AddMember(s) ==
    /\ sub[s] = "add"
    /\ SubTo(s, "index")
    /\ members' = members \cup {s}
    /\ UNCHANGED <<page, blind, search, indexed, count, filters, at, reader, sender, tries>>

IndexPartition(s) ==
    /\ sub[s] = "index"
    /\ SubTo(s, "count")
    /\ indexed' = indexed \cup {<<s[2], PartitionOf[s[1]]>>}
    /\ UNCHANGED <<page, blind, search, members, count, filters, at, reader, sender, tries>>

CountUp(s) ==
    /\ sub[s] = "count"
    /\ SubTo(s, IF s[2] \in Filtered THEN "filter" ELSE "search")
    /\ count' = [count EXCEPT ![ScopeOf(s[2])] = @ + 1]
    /\ UNCHANGED <<page, blind, search, members, indexed, filters, at, reader, sender, tries>>

StoreFilter(s) ==
    /\ sub[s] = "filter"
    /\ SubTo(s, "search")
    /\ filters' = filters \cup {s[2]}
    /\ UNCHANGED <<page, blind, search, members, indexed, count, at, reader, sender, tries>>

Stored == {e \in Change : at[e] # "unborn"}

\* Mutant of RefreshIndex: the time is noted, but the index is not refreshed.
UnrefreshedPage(s, p) ==
    /\ sub[s] = "search" /\ p \notin throttled
    /\ SubTo(s, "page")
    /\ throttled' = throttled \cup {p}
    /\ UNCHANGED <<page, blind, visible, recent, index, at, reader, sender, tries>>

\* searchItems, for the first page: process p refreshes the index first.
RefreshIndex(s, p) ==
    /\ sub[s] = "search" /\ p \notin throttled
    /\ SubTo(s, "page")
    /\ visible' = Stored
    /\ throttled' = throttled \cup {p}
    /\ UNCHANGED <<page, blind, recent, index, at, reader, sender, tries>>

\* It refreshed the index less than 500 ms ago, and does not do so again.
SkipRefresh(s, p) ==
    /\ sub[s] = "search" /\ p \in throttled
    /\ SubTo(s, "page")
    /\ blind' = [blind EXCEPT ![s] = recent[p]]
    /\ UNCHANGED <<page, search, index, at, reader, sender, tries>>

SearchPage(s) ==
    /\ sub[s] = "page"
    /\ SubTo(s, "on")
    /\ page' = [page EXCEPT ![s] = visible]
    /\ UNCHANGED <<blind, search, index, at, reader, sender, tries>>

ThrottleEnds(p) ==
    /\ p \in throttled
    /\ throttled' = throttled \ {p}
    /\ recent' = [recent EXCEPT ![p] = {}]
    /\ UNCHANGED <<clients, visible, index, at, reader, sender, tries>>

\* Elasticsearch refreshes on its own, and other processes do.
BackgroundRefresh ==
    /\ visible' = Stored
    /\ UNCHANGED <<clients, throttled, recent, index, at, reader, sender, tries>>

\* removeSubscription and removeDevice.
Unsubscribe(s) ==
    /\ sub[s] = "on"
    /\ \A t \in Subscription : sub[t] \in {"off", "on"}
    /\ SubTo(s, "off")
    /\ page' = [page EXCEPT ![s] = {}]
    /\ blind' = [blind EXCEPT ![s] = {}]
    /\ members' = members \ {s}
    /\ indexed' = {i \in indexed : \E m \in members' : m[2] = i[1] /\ PartitionOf[m[1]] = i[2]}
    /\ filters' = {c \in filters : \E m \in members' : m[2] = c}
    /\ count' = [count EXCEPT ![ScopeOf(s[2])] = @ - 1]
    /\ UNCHANGED <<search, at, reader, sender, tries>>
----------------------------------------------------------------------------
(* The writer *)

Store(e) ==
    /\ at[e] = "unborn"
    /\ AtTo(e, "stored")
    /\ recent' = [p \in Api |-> IF p \in throttled THEN recent[p] \cup {e} ELSE recent[p]]
    /\ UNCHANGED <<clients, visible, throttled, index, reader, sender, tries>>

Tell(e) ==
    /\ at[e] = "stored"
    /\ AtTo(e, "queued")
    /\ UNCHANGED <<clients, search, index, reader, sender, tries>>
----------------------------------------------------------------------------
(* The transport manager: getDevicesFromGeneratedChannels *)

ActiveScopes == {s \in Scope : count[s] > 0}

\* getActiveScopes, once per event.
ReadScopes(e) ==
    /\ at[e] = "queued"
    /\ AtTo(e, "scope")
    /\ tries' = [tries EXCEPT ![e] = @ + 1]
    /\ scopes' = [scopes EXCEPT ![e] = {i \in DOMAIN Patterns[e] : Patterns[e][i] \in ActiveScopes}]
    /\ found' = [found EXCEPT ![e] = {}]
    /\ failed' = [failed EXCEPT ![e] = FALSE]
    /\ UNCHANGED <<clients, search, index, chan, parts, chans, unsent, heard, told>>

NextScope(e, i) ==
    /\ at[e] = "scope" /\ i \in scopes[e] /\ \A j \in scopes[e] : i <= j
    /\ AtTo(e, "index")
    /\ scopes' = [scopes EXCEPT ![e] = @ \ {i}]
    /\ chan' = [chan EXCEPT ![e] = Plain[Patterns[e][i]]]
    /\ UNCHANGED <<clients, search, index, parts, chans, found, sender, tries>>

\* What follows a channel that is read: the filters of its scope, or the next of them.
AfterChannel(e) == IF chan[e] \in Filtered THEN "filter" ELSE "filters"

\* getAllDevices: the partitions that have members, then those members.
ReadIndex(e) ==
    LET active == {p \in Partition : <<chan[e], p>> \in indexed} IN
    /\ at[e] = "index"
    /\ AtTo(e, IF active = {} THEN AfterChannel(e) ELSE "members")
    /\ parts' = [parts EXCEPT ![e] = active]
    /\ UNCHANGED <<clients, search, index, scopes, chan, chans, found, sender, tries>>

ReadPartition(e, p) ==
    /\ at[e] = "members" /\ p \in parts[e]
    /\ found' = [found EXCEPT ![e] = @ \cup {s \in members : s[2] = chan[e] /\ PartitionOf[s[1]] = p}]
    /\ parts' = [parts EXCEPT ![e] = @ \ {p}]
    /\ IF parts'[e] = {} THEN AtTo(e, AfterChannel(e)) ELSE UNCHANGED at
    /\ UNCHANGED <<clients, search, index, scopes, chan, chans, sender, tries>>

\* A stored filter that no longer compiles is skipped.
Matching(e, stored) == {c \in stored \ Stale : <<e, c>> \in Passes}

ReadFilters(e) ==
    /\ at[e] = "filters"
    /\ AtTo(e, "filter")
    /\ chans' = [chans EXCEPT ![e] =
           Matching(e, {c \in filters : FilterScope[c] = ScopeOf(chan[e])})]
    /\ UNCHANGED <<clients, search, index, scopes, chan, parts, found, sender, tries>>

NextFilter(e, c) ==
    /\ at[e] = "filter" /\ c \in chans[e]
    /\ AtTo(e, "index")
    /\ chan' = [chan EXCEPT ![e] = c]
    /\ chans' = [chans EXCEPT ![e] = @ \ {c}]
    /\ UNCHANGED <<clients, search, index, scopes, parts, found, sender, tries>>

ScopeRead(e) ==
    /\ at[e] = "filter" /\ chans[e] = {}
    /\ AtTo(e, "scope")
    /\ UNCHANGED <<clients, search, index, scopes, chan, parts, chans, found, sender, tries>>
----------------------------------------------------------------------------
(* groupDevicesForFanOut and publishFanOut *)

ChannelsOf(d, f) == {s[2] : s \in {t \in f : t[1] = d}}

\* Mutant of Group: a message per transport and channel.
GroupByChannel(f) ==
    {[transport |-> TransportOf[s[1]], channels |-> {s[2]},
      devices |-> {d \in Device : <<d, s[2]>> \in f /\ TransportOf[d] = TransportOf[s[1]]}] : s \in f}

\* A message per transport and set of channels, to the devices that matched just these.
Group(f) ==
    {[transport |-> TransportOf[s[1]], channels |-> ChannelsOf(s[1], f),
      devices |-> {d \in Device : ChannelsOf(d, f) = ChannelsOf(s[1], f)
                                  /\ TransportOf[d] = TransportOf[s[1]]}] : s \in f}

Publish(e) ==
    /\ at[e] = "scope" /\ scopes[e] = {}
    /\ AtTo(e, "publish")
    /\ unsent' = [unsent EXCEPT ![e] = Group(found[e])]
    /\ UNCHANGED <<clients, search, index, reader, failed, heard, told, tries>>

Reaches(e, m) ==
    /\ heard' = [heard EXCEPT ![e] = [d \in Device |-> IF d \in m.devices THEN @[d] + 1 ELSE @[d]]]
    /\ told' = told \cup {<<e, s>> : s \in m.devices \X m.channels}

Confirmed(e, m) ==
    /\ at[e] = "publish" /\ m \in unsent[e]
    /\ unsent' = [unsent EXCEPT ![e] = @ \ {m}]
    /\ Reaches(e, m)
    /\ UNCHANGED <<clients, search, index, at, reader, failed, tries>>

\* Refused, or not confirmed in time: the message may have reached the queue or not.
PublishFails(e, m) ==
    /\ at[e] = "publish" /\ m \in unsent[e]
    /\ unsent' = [unsent EXCEPT ![e] = @ \ {m}]
    /\ failed' = [failed EXCEPT ![e] = TRUE]
    /\ Reaches(e, m) \/ UNCHANGED <<heard, told>>
    /\ UNCHANGED <<clients, search, index, at, reader, tries>>

\* Every publish has settled: a failure fails the event, which is retried, or dead-lettered.
Settle(e) ==
    /\ at[e] = "publish" /\ unsent[e] = {}
    /\ AtTo(e, IF ~failed[e] THEN "done" ELSE IF tries[e] < MaxTries THEN "queued" ELSE "dead")
    /\ UNCHANGED <<clients, search, index, reader, sender, tries>>
----------------------------------------------------------------------------
Next ==
    \/ \E s \in Subscription :
        \/ Subscribe(s) \/ AddMember(s) \/ IndexPartition(s) \/ CountUp(s) \/ StoreFilter(s)
        \/ SearchPage(s) \/ Unsubscribe(s)
        \/ \E p \in Api : RefreshIndex(s, p) \/ SkipRefresh(s, p)
    \/ BackgroundRefresh \/ \E p \in Api : ThrottleEnds(p)
    \/ \E e \in Change :
        \/ Store(e) \/ Tell(e)
        \/ ReadScopes(e) \/ ReadIndex(e) \/ ReadFilters(e) \/ ScopeRead(e)
        \/ \E i \in scopes[e] : NextScope(e, i)
        \/ \E p \in Partition : ReadPartition(e, p)
        \/ \E c \in Filtered : NextFilter(e, c)
        \/ Publish(e) \/ Settle(e)
        \/ \E m \in unsent[e] : Confirmed(e, m) \/ PublishFails(e, m)

Spec == Init /\ [][Next]_vars
----------------------------------------------------------------------------
(* Properties *)

\* The object of the change belongs to the channel, and passes its filter.
Matches(e, c) ==
    /\ \E i \in DOMAIN Patterns[e] : Patterns[e][i] = ScopeOf(c)
    /\ c \in Filtered => <<e, c>> \in Passes /\ c \notin Stale

\* The event of the change is done, and a device with a subscription to one of its channels
\* neither has it in the first page of the subscription nor was told on that channel.
Missed(e, s) ==
    /\ at[e] = "done" /\ sub[s] = "on" /\ Matches(e, s[2])
    /\ e \notin page[s] /\ <<e, s>> \notin told

\* A subscriber misses no change but for the throttle of the refresh: one that was stored
\* after the last refresh of the process that answered with the first page.
NothingIsMissed == \A e \in Change, s \in Subscription : Missed(e, s) => e \in blind[s]

\* The first page is consistent with writes in flight, as Subscription.ts:120-145 has it.
PageIsConsistent == \A e \in Change, s \in Subscription : ~Missed(e, s)

\* Nobody is told on a channel that the change does not match.
OnlyMatchesAreTold == \A t \in told : Matches(t[1], t[2][2])

\* Fan-out is exact, whatever subscribes and unsubscribes while the index is being read, but
\* for what the throttle of the refresh keeps from a first page.
FanOutIsExact == NothingIsMissed /\ OnlyMatchesAreTold

\* An attempt sends a device one message, however many of its channels match: it hears an
\* event again only when a publish failed and the event was retried.
OneMessagePerAttempt == \A e \in Change, d \in Device : heard[e][d] <= tries[e]
=============================================================================
