------------------------------ MODULE MCLitRound ------------------------------
(* Two root directories; b is in a directory of SkipDirList. *)
EXTENDS LitRound

MCRoots == <<"r", "s">>
MCWalk == <<"a1", "a2", "b", "c">>
MCdirOf == [a1 |-> "A", a2 |-> "A", b |-> "B", c |-> "C"]
MCProfiled == <<"c", "a1">>
MCrootOf == [A |-> "r", B |-> "r", C |-> "s"]

===============================================================================
