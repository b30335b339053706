------------------------- MODULE MCMessageDelivery -------------------------
(* Instance of MessageDelivery for TLC: one message that can be decoded and *)
(* one that cannot.                                                        *)
EXTENDS MessageDelivery

CONSTANTS m1, bad

============================================================================
