------------------------------ MODULE MCFanOut ------------------------------
(* Two devices in different partitions, of one transport, one of them on a *)
(* channel of the model and on a filtered one that the change passes; one  *)
(* process serves the requests, so that one meets the throttle of another. *)
EXTENDS FanOut, TLC

CONSTANTS d1, d2, ws, api, p1, p2, model, object, all, one, passing, e1

MCTransportOf == d1 :> ws @@ d2 :> ws
MCPartitionOf == d1 :> p1 @@ d2 :> p2
MCPlain == model :> all @@ object :> one
MCFilterScope == passing :> object
MCPatterns == e1 :> <<model, object>>
MCSubscription == {<<d1, all>>, <<d1, passing>>, <<d2, all>>}
MCPasses == {<<e1, passing>>}

\* What was read last is not read again once the reader is through with it.
Reading == {e \in Change : at[e] \in {"scope", "index", "members", "filters", "filter"}}
\* Nothing asks whether a change is missing from a first page because of the throttle or is
\* in it, and what is visible stays so.
Excused == [s \in Subscription |-> IF sub[s] = "page" THEN blind[s] \cup visible ELSE blind[s] \cup page[s]]

View == <<sub, Excused, visible, throttled, [p \in throttled |-> recent[p] \ visible],
          index, at, scopes, parts, chans, sender, tries,
          [e \in Reading |-> found[e]],
          [e \in {f \in Reading : at[f] # "scope"} |-> chan[e]]>>
=============================================================================
