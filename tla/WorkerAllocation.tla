--------------------------- MODULE WorkerAllocation ---------------------------
(***************************************************************************)
(* What hireRemoteWorker and freeRemoteWorker promise together, without    *)
(* the dictionary and the lock: every worker has at most one owner, a      *)
(* process owns at most one worker, and a worker changes hands only by     *)
(* being given back by its owner.                                          *)
(***************************************************************************)
CONSTANTS Clients, Workers, None

VARIABLE owner      \* [Workers -> Clients \cup {None}]

AllocationInit == owner = [w \in Workers |-> None]

Hire(c, w) ==
    /\ owner[w] = None
    /\ \A v \in Workers : owner[v] # c
    /\ owner' = [owner EXCEPT ![w] = c]

GiveBack(c, w) ==
    /\ owner[w] = c
    /\ owner' = [owner EXCEPT ![w] = None]

AllocationNext == \E c \in Clients, w \in Workers : Hire(c, w) \/ GiveBack(c, w)

AllocationSpec == AllocationInit /\ [][AllocationNext]_owner
===============================================================================
