---------------------------- MODULE MCStallGuard ----------------------------
(* The instance of StallGuard for TLC is in stall_guard.cfg.               *)
EXTENDS StallGuard
=============================================================================
