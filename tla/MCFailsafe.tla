----------------------------- MODULE MCFailsafe -----------------------------
(* A clock of 16 ms: outages, debounces and the 0 sentinel all meet the wrap. *)
EXTENDS Failsafe
=============================================================================
