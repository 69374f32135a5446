----------------------------- MODULE MCEnvDaemon -----------------------------
(* Small instances of EnvDaemon.tla for TLC. *)
EXTENDS EnvDaemon, TLC
===============================================================================
