--------------------------- MODULE MCLimitTimeExec ---------------------------
(* A small instance of LimitTimeExec.tla for TLC. *)
EXTENDS LimitTimeExec
===============================================================================
