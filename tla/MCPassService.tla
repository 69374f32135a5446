---------------------------- MODULE MCPassService ----------------------------
(* A small instance of PassService.tla for TLC. *)
EXTENDS PassService

CONSTANTS f, g

MCFuncs == {f, g}
MCfn == <<f, g, f>>
===============================================================================
