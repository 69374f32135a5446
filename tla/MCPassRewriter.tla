--------------------------- MODULE MCPassRewriter ---------------------------
(* A small instance of PassRewriter.tla for TLC. *)
EXTENDS PassRewriter, TLC

CONSTANTS f1, f2, h     \* two passes, and a header of both

Body(f, l) == [kind |-> "body", file |-> f, line |-> l, macro |-> FALSE]
Break(f, l) == [kind |-> "break", file |-> f, line |-> l, macro |-> FALSE]
Case(f, l) == [kind |-> "case", file |-> f, line |-> l, macro |-> FALSE]
Macro(f, l) == [kind |-> "body", file |-> f, line |-> l, macro |-> TRUE]

MCPasses == <<f1, f2>>

(***************************************************************************)
(* A template is traversed twice; "case X: break;" is on one line; a body  *)
(* is empty; a place is in the header and one in a macro.                  *)
(***************************************************************************)
MCMatches ==
    f1 :> <<Body(f1, 1), Body(f1, 1), Body(None, 0), Body(f1, 2)>> @@
    f2 :> <<Body(h, 1), Case(f2, 1), Break(f2, 1), Macro(f2, 2), Body(f2, 3)>>

(* What clang-tidy broke hides a statement from the traversal. *)
MCUnfixed ==
    f1 :> <<Body(f1, 1), Body(f1, 1)>> @@
    f2 :> MCMatches[f2]
=============================================================================
