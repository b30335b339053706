------------------------ MODULE MCSubscriptionIndex ------------------------
(* Instance of SubscriptionIndex for TLC: two devices in one partition and *)
(* one in another, an unfiltered channel and a filtered one.               *)
EXTENDS SubscriptionIndex, TLC

CONSTANTS d1, d2, d3, plain, filtered, p1, p2, r1, r2

PartitionTable == d1 :> p1 @@ d2 :> p1 @@ d3 :> p2
OnePartition == d1 :> p1 @@ d2 :> p1

Requests == Permutations(Request)
Symmetry == Requests \cup Permutations({d1, d2})

\* What an idle request was about is never read again.
View ==
    <<documents, index, pc, task, overlapped,
      [r \in InFlight |-> <<dev[r], chan[r], position[r]>>]>>

============================================================================
