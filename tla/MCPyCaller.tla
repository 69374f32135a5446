----------------------------- MODULE MCPyCaller -----------------------------
(* A small instance of PyCaller.tla for TLC. *)
EXTENDS PyCaller

MCReturnCodes == {-64, -9, 0, 1, 255}
=============================================================================
