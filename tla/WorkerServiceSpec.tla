-------------------------- MODULE WorkerServiceSpec --------------------------
(***************************************************************************)
(* The promise of WorkerService.tla as a specification: with every step    *)
(* goes what the client of the last job has been told.                     *)
(***************************************************************************)
EXTENDS WorkerService

VARIABLE answered   \* [Workers -> the answer to the last job, "none" before]

serviceVars == <<serving, profile, feats, left, strayed, answered>>

Tell(w, s) == answered' = [answered EXCEPT ![w] = s]

Promised(w) ==
    \/ \E j \in JobRecords : Take(w, j) /\ Tell(w, "none")
    \/ \E s \in {"Success", "Failed", "closed"} : Finish(w, s) /\ Tell(w, s)
    \/ (Work(w) \/ Stray(w) \/ Late(w) \/ Wipe(w)) /\ UNCHANGED answered

ServiceNext == \E w \in Workers : Promised(w)

ServiceSpec ==
    /\ ServiceInit /\ answered = [w \in Workers |-> "none"]
    /\ [][ServiceNext]_serviceVars
===============================================================================
