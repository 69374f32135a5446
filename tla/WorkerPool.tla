------------------------------ MODULE WorkerPool ------------------------------
(***************************************************************************)
(* The pool of remote workers of training/fakeEnv.py: the processes that   *)
(* run Worker.EnvWorker share SharedWorkerDict, a manager dictionary from  *)
(* worker IDs to "is this worker available", and WorkerLock, a             *)
(* multiprocessing.Lock.  A process hires a worker, does one job on it and *)
(* frees it.  What happens during the job is one of two actions here: the  *)
(* remote end answers with some status, or the TCP call raises and the     *)
(* process dies.  TrainingEnv.tla says which of the two, and why.          *)
(***************************************************************************)
EXTENDS Naturals, FiniteSets

CONSTANTS Clients,      \* the EnvWorker processes forked by the main program
          Workers,      \* the worker IDs, the keys of SharedWorkerDict
          NumPrograms,  \* how many programs each EnvWorker iterates over
          None          \* Python's None, for the lock and for retID

(***************************************************************************)
(* The main program creates as many processes as workers (maxWorkerNum for *)
(* both).  All that the protocol needs is that there are not more.         *)
(***************************************************************************)
ASSUME PoolAssumption ==
    /\ IsFiniteSet(Clients)
    /\ IsFiniteSet(Workers)
    /\ Cardinality(Clients) <= Cardinality(Workers)
    /\ NumPrograms \in Nat
    /\ None \notin Clients \cup Workers

(***************************************************************************)
(* The statuses EnvDoJob returns, by its docstring and by the daemon's     *)
(* answers.  "" is a connection closed without an answer.                  *)
(***************************************************************************)
Statuses == {"Success", "Failed", "EnvEcho Error!", ""}

VARIABLES
    SharedWorkerDict,   \* [Workers -> BOOLEAN], TRUE when available
    WorkerLock,         \* the process that holds the lock, or None
    pc,                 \* the next statement of each process
    workerID,           \* retID / workerID of each process, or None
    status,             \* retStatus of each process
    program             \* the program each process is at, 1 .. NumPrograms + 1

poolVars == <<SharedWorkerDict, WorkerLock, pc, workerID, status, program>>

InHire == {"scan", "mark", "leaveHire"}   \* between acquire and release, hiring
InFree == {"unmark", "leaveFree"}         \* between acquire and release, freeing

PcValues == {"next", "hire"} \cup InHire \cup {"work", "free"} \cup InFree
                \cup {"done", "dead"}

(***************************************************************************)
(* Where a process is marked in the dictionary as the user of workerID.    *)
(* A process that died on an exception stays there: EnvDoJob has no        *)
(* "finally" that would free its worker.                                   *)
(***************************************************************************)
Hiring == {"leaveHire", "work", "free", "unmark", "dead"}

PoolInit ==
    /\ SharedWorkerDict = [w \in Workers |-> TRUE]
    /\ WorkerLock = None
    /\ pc = [c \in Clients |-> "next"]
    /\ workerID = [c \in Clients |-> None]
    /\ status = [c \in Clients |-> ""]
    /\ program = [c \in Clients |-> 1]

Goto(c, from, to) == pc[c] = from /\ pc' = [pc EXCEPT ![c] = to]

Acquire(c) == WorkerLock = None /\ WorkerLock' = c
Release(c) == WorkerLock = c /\ WorkerLock' = None

-------------------------------------------------------------------------------
(* EnvWorker: the loop over the programs, and the retry of an empty status. *)

StartJob(c) ==
    /\ program[c] <= NumPrograms
    /\ Goto(c, "next", "hire")
    /\ UNCHANGED <<SharedWorkerDict, WorkerLock, workerID, status, program>>

FinishPrograms(c) ==
    /\ program[c] > NumPrograms
    /\ Goto(c, "next", "done")
    /\ UNCHANGED <<SharedWorkerDict, WorkerLock, workerID, status, program>>

(* hireRemoteWorker *)

(* Bug variant: the dictionary is scanned without waiting for the lock. *)
AcquireToHire_NoWait(c) ==
    /\ Goto(c, "hire", "scan")
    /\ WorkerLock' = c
    /\ UNCHANGED <<SharedWorkerDict, workerID, status, program>>

AcquireToHire(c) ==
    /\ Goto(c, "hire", "scan")
    /\ Acquire(c)
    /\ UNCHANGED <<SharedWorkerDict, workerID, status, program>>

(* Bug variant: the outer loop is not left when a worker has been found. *)
FindFree_NoBreak(c) ==
    /\ Goto(c, "scan", "scan")
    /\ \E w \in Workers : SharedWorkerDict[w] /\ workerID' = [workerID EXCEPT ![c] = w]
    /\ UNCHANGED <<SharedWorkerDict, WorkerLock, status, program>>

(***************************************************************************)
(* One pass over SharedWorkerDict.items() that finds an available worker.  *)
(* A pass that finds none changes nothing, and is made again at once with  *)
(* the lock still held.                                                    *)
(***************************************************************************)
FindFree(c) ==
    /\ Goto(c, "scan", "mark")
    /\ \E w \in Workers : SharedWorkerDict[w] /\ workerID' = [workerID EXCEPT ![c] = w]
    /\ UNCHANGED <<SharedWorkerDict, WorkerLock, status, program>>

(* Bug variant: the worker that was found is not marked. *)
MarkHired_NotMarked(c) ==
    /\ Goto(c, "mark", "leaveHire")
    /\ UNCHANGED <<SharedWorkerDict, WorkerLock, workerID, status, program>>

MarkHired(c) ==
    /\ Goto(c, "mark", "leaveHire")
    /\ SharedWorkerDict' = [SharedWorkerDict EXCEPT ![workerID[c]] = FALSE]
    /\ UNCHANGED <<WorkerLock, workerID, status, program>>

LeaveHire(c) ==
    /\ Goto(c, "leaveHire", "work")
    /\ Release(c)
    /\ UNCHANGED <<SharedWorkerDict, workerID, status, program>>

(* EnvDoJob, between hiring and freeing *)

(* Bug variant: a job without an answer returns before it frees the worker. *)
JobAnswered_EarlyReturn(c, s) ==
    /\ Goto(c, "work", IF s = "" THEN "next" ELSE "free")
    /\ status' = [status EXCEPT ![c] = s]
    /\ UNCHANGED <<SharedWorkerDict, WorkerLock, workerID, program>>

JobAnswered(c, s) ==
    /\ Goto(c, "work", "free")
    /\ status' = [status EXCEPT ![c] = s]
    /\ UNCHANGED <<SharedWorkerDict, WorkerLock, workerID, program>>

(* connect, sendall or recv raises: nothing catches it, the process ends. *)
JobRaised(c) ==
    /\ Goto(c, "work", "dead")
    /\ UNCHANGED <<SharedWorkerDict, WorkerLock, workerID, status, program>>

(* freeRemoteWorker *)

AcquireToFree(c) ==
    /\ Goto(c, "free", "unmark")
    /\ Acquire(c)
    /\ UNCHANGED <<SharedWorkerDict, workerID, status, program>>

MarkFree(c) ==
    /\ Goto(c, "unmark", "leaveFree")
    /\ SharedWorkerDict' = [SharedWorkerDict EXCEPT ![workerID[c]] = TRUE]
    /\ UNCHANGED <<WorkerLock, workerID, status, program>>

(***************************************************************************)
(* release, and EnvDoJob returns to EnvWorker: its locals are gone, and an *)
(* empty status means the same program again.                              *)
(***************************************************************************)
LeaveFree(c) ==
    /\ Goto(c, "leaveFree", "next")
    /\ Release(c)
    /\ workerID' = [workerID EXCEPT ![c] = None]
    /\ program' = IF status[c] = "" THEN program
                  ELSE [program EXCEPT ![c] = @ + 1]
    /\ UNCHANGED <<SharedWorkerDict, status>>

-------------------------------------------------------------------------------
LocalStep(c) ==
    \/ StartJob(c) \/ FinishPrograms(c)
    \/ AcquireToHire(c) \/ FindFree(c) \/ MarkHired(c) \/ LeaveHire(c)
    \/ AcquireToFree(c) \/ MarkFree(c) \/ LeaveFree(c)

Client(c) == LocalStep(c) \/ JobRaised(c) \/ \E s \in Statuses : JobAnswered(c, s)

(* main's p.join() on every process: once all have ended nothing moves. *)
Ended == \A c \in Clients : pc[c] \in {"done", "dead"}

PoolNext == \/ \E c \in Clients : Client(c)
            \/ Ended /\ UNCHANGED poolVars

(***************************************************************************)
(* Every process runs: each is scheduled by the operating system.  Nothing *)
(* is assumed about who gets the lock (a POSIX semaphore is not fair), nor *)
(* about what the remote end answers.                                      *)
(***************************************************************************)
PoolFairness == \A c \in Clients :
                    /\ WF_poolVars(LocalStep(c))
                    /\ WF_poolVars(\E s \in Statuses : JobAnswered(c, s))

PoolSpec == PoolInit /\ [][PoolNext]_poolVars /\ PoolFairness

-------------------------------------------------------------------------------
(* Properties *)

(* The variables have the values their declarations say. *)
PoolTypeOK ==
    /\ SharedWorkerDict \in [Workers -> BOOLEAN]
    /\ WorkerLock \in Clients \cup {None}
    /\ pc \in [Clients -> PcValues]
    /\ workerID \in [Clients -> Workers \cup {None}]
    /\ status \in [Clients -> Statuses]
    /\ program \in [Clients -> 1 .. NumPrograms + 1]

(***************************************************************************)
(* hireRemoteWorker never gives the same worker to two processes: between  *)
(* hiring and freeing a process is alone on its worker, dead ones          *)
(* included.                                                               *)
(***************************************************************************)
ExclusiveHire ==
    \A c, d \in Clients :
        /\ c # d
        /\ pc[c] \in Hiring
        /\ pc[d] \in Hiring
        => workerID[c] # workerID[d]

(***************************************************************************)
(* The busy loop of hireRemoteWorker holds the lock that freeRemoteWorker  *)
(* needs, so a process that scanned a dictionary with no available worker  *)
(* would spin for ever, and every other process with it.  It never does:   *)
(* whoever scans finds a worker, whatever died before.                     *)
(***************************************************************************)
ScanFindsWorker ==
    \A c \in Clients : pc[c] = "scan" => \E w \in Workers : SharedWorkerDict[w]

(***************************************************************************)
(* The dictionary tells the truth at every step: a worker is unavailable   *)
(* exactly while some process has hired it and not freed it.  No worker in *)
(* use is offered again, and none is lost other than by the death of its   *)
(* process: when all have ended only the workers of dead ones are missing. *)
(***************************************************************************)
UnavailableIsHired ==
    \A w \in Workers :
        ~SharedWorkerDict[w] <=> \E c \in Clients : pc[c] \in Hiring /\ workerID[c] = w

(***************************************************************************)
(* The lock does not stay with one process: every hirer and every freer    *)
(* leaves its critical section.                                            *)
(***************************************************************************)
LockIsReleased ==
    \A c \in Clients : (WorkerLock = c) ~> (WorkerLock # c)

(***************************************************************************)
(* The refinement mapping to WorkerAllocation.tla: the owner of a worker   *)
(* is the process between its mark in the dictionary and its unmark.  The  *)
(* pool implements the allocation of workers: the scan, the mark and the   *)
(* unmark of different processes, in whatever order the lock lets them     *)
(* through, are seen as whole Hire and GiveBack steps.                     *)
(***************************************************************************)
Users(w) == {c \in Clients : pc[c] \in Hiring /\ workerID[c] = w}

TheOne(S) == IF S = {} THEN None ELSE CHOOSE c \in S : TRUE

Owner == [w \in Workers |-> TheOne(Users(w))]

Allocation == INSTANCE WorkerAllocation WITH owner <- Owner

AllocationRefined == Allocation!AllocationSpec

===============================================================================
