--------------------------- MODULE MCMqConsumers ---------------------------
(* Instance of MqConsumers for TLC.  Tags are interchangeable numbers.     *)
EXTENDS MqConsumers

============================================================================
