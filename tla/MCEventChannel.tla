--------------------------- MODULE MCEventChannel ---------------------------
(* Two native threads and the isolate, a ring of two events.               *)
EXTENDS EventChannel, TLC

=============================================================================
