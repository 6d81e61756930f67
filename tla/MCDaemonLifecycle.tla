-------------------------- MODULE MCDaemonLifecycle --------------------------
(* Model checking DaemonLifecycle: its constants are model values. *)
EXTENDS DaemonLifecycle
=============================================================================
