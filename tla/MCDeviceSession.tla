-------------------------- MODULE MCDeviceSession --------------------------
(* Instance of DeviceSession for TLC.                                      *)
EXTENDS DeviceSession, TLC

CONSTANTS r1, r2, r3

Requests == Permutations(Request)

============================================================================
