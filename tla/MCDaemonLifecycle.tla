-------------------------- MODULE MCDaemonLifecycle --------------------------
(* Small instances of DaemonLifecycle.tla for TLC. *)
EXTENDS DaemonLifecycle
===============================================================================
