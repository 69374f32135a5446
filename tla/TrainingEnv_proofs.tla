------------------------- MODULE TrainingEnv_proofs -------------------------
(***************************************************************************)
(* Proofs about the training client.  First WorkerPool.tla, for any finite *)
(* set of processes and any set of workers that is at least as large; then *)
(* TrainingEnv.tla, which extends it, for any number of clients, workers,  *)
(* programs and faults: a job that succeeds has its own results, and no    *)
(* client sends more jobs than it has programs and loses to faults.        *)
(***************************************************************************)
EXTENDS TrainingEnv, FiniteSetTheorems, TLAPS

(* The lock is held by the process inside a critical section, and by no other. *)
LockInv ==
    \A c \in Clients : WorkerLock = c <=> pc[c] \in InHire \cup InFree

(* A process that is to mark, use or free a worker has one. *)
HasWorker ==
    \A c \in Clients :
        pc[c] \in Hiring \cup {"mark", "leaveFree"} => workerID[c] \in Workers

(* The worker found by the scan is still available when it is marked. *)
FoundIsFree ==
    \A c \in Clients : pc[c] = "mark" => SharedWorkerDict[workerID[c]]

(* EnvWorker is inside its loop over the programs while it does a job. *)
InLoop ==
    \A c \in Clients : pc[c] \notin {"next", "done"} => program[c] <= NumPrograms

(* The inductive invariant. *)
IInv ==
    /\ PoolTypeOK
    /\ LockInv
    /\ HasWorker
    /\ FoundIsFree
    /\ InLoop
    /\ ExclusiveHire
    /\ UnavailableIsHired

-------------------------------------------------------------------------------
(***************************************************************************)
(* Pigeonhole: when every worker is unavailable, each is hired by a        *)
(* process of its own, so no process is left that has not hired one.       *)
(***************************************************************************)
LEMMA AllUnavailableAllHiring ==
    ASSUME IInv,
           \A w \in Workers : ~SharedWorkerDict[w],
           NEW c \in Clients
    PROVE  pc[c] \in Hiring
<1> SUFFICES ASSUME pc[c] \notin Hiring PROVE FALSE
    OBVIOUS
<1> DEFINE Others == Clients \ {c}
           user == [w \in Workers |-> CHOOSE d \in Clients : pc[d] \in Hiring /\ workerID[d] = w]
<1>1. \A w \in Workers : \E d \in Clients : pc[d] \in Hiring /\ workerID[d] = w
    BY DEF IInv, UnavailableIsHired
<1>2. \A w \in Workers : user[w] \in Others /\ workerID[user[w]] = w
    BY <1>1
<1>3. user \in Injection(Workers, Others)
    <2>1. user \in [Workers -> Others]
        BY <1>2
    <2>2. \A v, w \in Workers : user[v] = user[w] => v = w
        BY <1>2
    <2> QED BY <2>1, <2>2 DEF Injection, IsInjective
<1>4. IsFiniteSet(Others) /\ Cardinality(Others) = Cardinality(Clients) - 1
    BY FS_RemoveElement, PoolAssumption
<1>5. Cardinality(Workers) <= Cardinality(Others)
    BY <1>3, <1>4, FS_Injection, PoolAssumption
<1>6. Cardinality(Clients) \in Nat /\ Cardinality(Workers) \in Nat
    BY FS_CardinalityType, PoolAssumption
<1> QED
    BY <1>4, <1>5, <1>6, PoolAssumption

(* It holds at the start. *)
LEMMA InitIInv == PoolInit => IInv
<1> SUFFICES ASSUME PoolInit PROVE IInv
    OBVIOUS
<1> USE PoolAssumption DEF PoolInit
<1>1. PoolTypeOK
    <2>1. 1 \in 1 .. NumPrograms + 1
        <3>1. NumPrograms \in Nat
            BY PoolAssumption
        <3> QED BY ONLY <3>1
    <2>2. program \in [Clients -> 1 .. NumPrograms + 1]
        BY <2>1
    <2> QED BY <2>2 DEF PoolTypeOK, PcValues, Statuses
<1>2. LockInv
    BY DEF LockInv, InHire, InFree
<1>3. HasWorker /\ FoundIsFree /\ InLoop /\ ExclusiveHire
    BY DEF HasWorker, FoundIsFree, InLoop, ExclusiveHire, Hiring
<1>4. UnavailableIsHired
    BY DEF UnavailableIsHired, Hiring
<1> QED BY <1>1, <1>2, <1>3, <1>4 DEF IInv

-------------------------------------------------------------------------------
(* Nobody but the two marks of the dictionary changes who uses a worker. *)
LEMMA OnlyMarksChangeUsers ==
    ASSUME IInv, NEW c \in Clients, Client(c), ~MarkHired(c), ~MarkFree(c)
    PROVE  /\ SharedWorkerDict' = SharedWorkerDict
           /\ \A d \in Clients : pc'[d] \in Hiring <=> pc[d] \in Hiring
           /\ \A d \in Clients : pc[d] \in Hiring => workerID'[d] = workerID[d]
<1>1. pc \in [Clients -> PcValues] /\ workerID \in [Clients -> Workers \cup {None}]
    BY DEF IInv, PoolTypeOK
<1> USE <1>1 DEF Goto, Hiring
<1>2. CASE StartJob(c) \/ FinishPrograms(c) \/ AcquireToHire(c) \/ LeaveHire(c) \/ AcquireToFree(c)
    BY <1>2 DEF StartJob, FinishPrograms, AcquireToHire, LeaveHire, AcquireToFree
<1>3. CASE FindFree(c)
    BY <1>3 DEF FindFree
<1>4. CASE LeaveFree(c)
    BY <1>4 DEF LeaveFree
<1>5. CASE JobRaised(c) \/ \E s \in Statuses : JobAnswered(c, s)
    BY <1>5 DEF JobRaised, JobAnswered
<1> QED BY <1>2, <1>3, <1>4, <1>5 DEF Client, LocalStep

(* A worker is marked for one process, which nobody else has hired. *)
LEMMA MarkHiredUsers ==
    ASSUME IInv, NEW c \in Clients, MarkHired(c)
    PROVE  ExclusiveHire' /\ UnavailableIsHired'
<1> DEFINE v == workerID[c]
<1>1. /\ v \in Workers /\ SharedWorkerDict[v]
      /\ pc[c] \notin Hiring /\ pc'[c] \in Hiring /\ workerID' = workerID
      /\ \A d \in Clients : d # c => pc'[d] = pc[d]
      /\ \A w \in Workers : SharedWorkerDict'[w] = IF w = v THEN FALSE ELSE SharedWorkerDict[w]
    BY DEF IInv, PoolTypeOK, HasWorker, FoundIsFree, MarkHired, Goto, Hiring
<1>2. \A d \in Clients : pc[d] \in Hiring => workerID[d] # v
    BY <1>1 DEF IInv, UnavailableIsHired
<1>3. ExclusiveHire'
    BY <1>1, <1>2 DEF IInv, ExclusiveHire
<1>4. UnavailableIsHired'
    BY <1>1 DEF IInv, UnavailableIsHired
<1> QED BY <1>3, <1>4

(* A worker that is given back had one user. *)
LEMMA MarkFreeUsers ==
    ASSUME IInv, NEW c \in Clients, MarkFree(c)
    PROVE  ExclusiveHire' /\ UnavailableIsHired'
<1> DEFINE v == workerID[c]
<1>1. /\ pc[c] \in Hiring /\ pc'[c] \notin Hiring /\ workerID' = workerID
      /\ \A d \in Clients : d # c => pc'[d] = pc[d]
      /\ \A w \in Workers : SharedWorkerDict'[w] = IF w = v THEN TRUE ELSE SharedWorkerDict[w]
    BY DEF IInv, PoolTypeOK, HasWorker, MarkFree, Goto, Hiring
<1>2. \A d \in Clients : d # c /\ pc[d] \in Hiring => workerID[d] # v
    BY <1>1 DEF IInv, ExclusiveHire
<1>3. ExclusiveHire'
    BY <1>1 DEF IInv, ExclusiveHire
<1>4. UnavailableIsHired'
    BY <1>1, <1>2 DEF IInv, UnavailableIsHired
<1> QED BY <1>3, <1>4

(* Exclusive use, and the truth of the dictionary, survive every step. *)
LEMMA StepUsers ==
    ASSUME IInv, NEW c \in Clients, Client(c)
    PROVE  ExclusiveHire' /\ UnavailableIsHired'
<1>1. CASE ~MarkHired(c) /\ ~MarkFree(c)
    <2>1. /\ SharedWorkerDict' = SharedWorkerDict
          /\ \A d \in Clients : pc'[d] \in Hiring <=> pc[d] \in Hiring
          /\ \A d \in Clients : pc[d] \in Hiring => workerID'[d] = workerID[d]
        BY <1>1, OnlyMarksChangeUsers
    <2> QED BY <2>1 DEF IInv, ExclusiveHire, UnavailableIsHired
<1> QED BY <1>1, MarkHiredUsers, MarkFreeUsers

(***************************************************************************)
(* Every step of a process preserves the invariant.                        *)
(***************************************************************************)
LEMMA StepIInv ==
    ASSUME IInv, NEW c \in Clients, Client(c)
    PROVE  IInv'
<1>a. ExclusiveHire' /\ UnavailableIsHired'
    BY StepUsers
<1> USE PoolAssumption DEF IInv, Goto
<1>1. CASE StartJob(c)
    <2> USE <1>1 DEF StartJob
    <2>1. PoolTypeOK'
        BY DEF PoolTypeOK, PcValues, InHire, InFree, Acquire, Release
    <2>2. LockInv'
        BY DEF PoolTypeOK, LockInv, InHire, InFree, Acquire, Release
    <2>3. HasWorker' /\ FoundIsFree' /\ InLoop'
        BY DEF PoolTypeOK, HasWorker, FoundIsFree, InLoop, Hiring, LockInv, InHire, InFree
    <2> QED BY <2>1, <2>2, <2>3, <1>a
<1>2. CASE FinishPrograms(c)
    <2> USE <1>2 DEF FinishPrograms
    <2>1. PoolTypeOK'
        BY DEF PoolTypeOK, PcValues, InHire, InFree, Acquire, Release
    <2>2. LockInv'
        BY DEF PoolTypeOK, LockInv, InHire, InFree, Acquire, Release
    <2>3. HasWorker' /\ FoundIsFree' /\ InLoop'
        BY DEF PoolTypeOK, HasWorker, FoundIsFree, InLoop, Hiring, LockInv, InHire, InFree
    <2> QED BY <2>1, <2>2, <2>3, <1>a
<1>3. CASE AcquireToHire(c)
    <2> USE <1>3 DEF AcquireToHire
    <2>1. PoolTypeOK'
        BY DEF PoolTypeOK, PcValues, InHire, InFree, Acquire, Release
    <2>2. LockInv'
        BY DEF PoolTypeOK, LockInv, InHire, InFree, Acquire, Release
    <2>3. HasWorker' /\ FoundIsFree' /\ InLoop'
        BY DEF PoolTypeOK, HasWorker, FoundIsFree, InLoop, Hiring, LockInv, InHire, InFree
    <2> QED BY <2>1, <2>2, <2>3, <1>a
<1>4. CASE FindFree(c)
    <2> USE <1>4 DEF FindFree
    <2>1. PoolTypeOK'
        BY DEF PoolTypeOK, PcValues, InHire, InFree, Acquire, Release
    <2>2. LockInv'
        BY DEF PoolTypeOK, LockInv, InHire, InFree, Acquire, Release
    <2>3. HasWorker' /\ FoundIsFree' /\ InLoop'
        BY DEF PoolTypeOK, HasWorker, FoundIsFree, InLoop, Hiring, LockInv, InHire, InFree
    <2> QED BY <2>1, <2>2, <2>3, <1>a
<1>5. CASE MarkHired(c)
    <2> USE <1>5 DEF MarkHired
    <2>1. PoolTypeOK'
        BY DEF PoolTypeOK, PcValues, InHire, InFree, Acquire, Release
    <2>2. LockInv'
        BY DEF PoolTypeOK, LockInv, InHire, InFree, Acquire, Release
    <2>3. HasWorker' /\ FoundIsFree' /\ InLoop'
        BY DEF PoolTypeOK, HasWorker, FoundIsFree, InLoop, Hiring, LockInv, InHire, InFree
    <2> QED BY <2>1, <2>2, <2>3, <1>a
<1>6. CASE LeaveHire(c)
    <2> USE <1>6 DEF LeaveHire
    <2>1. PoolTypeOK'
        BY DEF PoolTypeOK, PcValues, InHire, InFree, Acquire, Release
    <2>2. LockInv'
        BY DEF PoolTypeOK, LockInv, InHire, InFree, Acquire, Release
    <2>3. HasWorker' /\ FoundIsFree' /\ InLoop'
        BY DEF PoolTypeOK, HasWorker, FoundIsFree, InLoop, Hiring, LockInv, InHire, InFree
    <2> QED BY <2>1, <2>2, <2>3, <1>a
<1>7. CASE AcquireToFree(c)
    <2> USE <1>7 DEF AcquireToFree
    <2>1. PoolTypeOK'
        BY DEF PoolTypeOK, PcValues, InHire, InFree, Acquire, Release
    <2>2. LockInv'
        BY DEF PoolTypeOK, LockInv, InHire, InFree, Acquire, Release
    <2>3. HasWorker' /\ FoundIsFree' /\ InLoop'
        BY DEF PoolTypeOK, HasWorker, FoundIsFree, InLoop, Hiring, LockInv, InHire, InFree
    <2> QED BY <2>1, <2>2, <2>3, <1>a
<1>8. CASE MarkFree(c)
    <2> USE <1>8 DEF MarkFree
    <2>1. PoolTypeOK'
        BY DEF PoolTypeOK, PcValues, InHire, InFree, Acquire, Release
    <2>2. LockInv'
        BY DEF PoolTypeOK, LockInv, InHire, InFree, Acquire, Release
    <2>3. HasWorker' /\ FoundIsFree' /\ InLoop'
        BY DEF PoolTypeOK, HasWorker, FoundIsFree, InLoop, Hiring, LockInv, InHire, InFree
    <2> QED BY <2>1, <2>2, <2>3, <1>a
<1>9. CASE LeaveFree(c)
    <2> USE <1>9 DEF LeaveFree
    <2>1. PoolTypeOK'
        <3>1. program[c] \in 1 .. NumPrograms
            <4>1. program[c] \in 1 .. NumPrograms + 1 /\ program[c] <= NumPrograms
                BY DEF PoolTypeOK, InLoop
            <4>2. NumPrograms \in Nat
                OBVIOUS
            <4> QED BY ONLY <4>1, <4>2
        <3>2. program[c] + 1 \in 1 .. NumPrograms + 1
            <4>1. NumPrograms \in Nat
                OBVIOUS
            <4> QED BY ONLY <3>1, <4>1
        <3>3. program' \in [Clients -> 1 .. NumPrograms + 1]
            BY <3>2 DEF PoolTypeOK
        <3> QED
            BY <3>3 DEF PoolTypeOK, PcValues, InHire, InFree, Release
    <2>2. LockInv'
        BY DEF PoolTypeOK, LockInv, InHire, InFree, Acquire, Release
    <2>3. HasWorker' /\ FoundIsFree' /\ InLoop'
        BY DEF PoolTypeOK, HasWorker, FoundIsFree, InLoop, Hiring, LockInv, InHire, InFree
    <2> QED BY <2>1, <2>2, <2>3, <1>a
<1>10. CASE JobRaised(c)
    <2> USE <1>10 DEF JobRaised
    <2>1. PoolTypeOK'
        BY DEF PoolTypeOK, PcValues, InHire, InFree, Acquire, Release
    <2>2. LockInv'
        BY DEF PoolTypeOK, LockInv, InHire, InFree, Acquire, Release
    <2>3. HasWorker' /\ FoundIsFree' /\ InLoop'
        BY DEF PoolTypeOK, HasWorker, FoundIsFree, InLoop, Hiring, LockInv, InHire, InFree
    <2> QED BY <2>1, <2>2, <2>3, <1>a
<1>11. ASSUME NEW s \in Statuses, JobAnswered(c, s) PROVE IInv'
    <2> USE <1>11 DEF JobAnswered
    <2>1. PoolTypeOK'
        BY DEF PoolTypeOK, PcValues, InHire, InFree, Acquire, Release
    <2>2. LockInv'
        BY DEF PoolTypeOK, LockInv, InHire, InFree, Acquire, Release
    <2>3. HasWorker' /\ FoundIsFree' /\ InLoop'
        BY DEF PoolTypeOK, HasWorker, FoundIsFree, InLoop, Hiring, LockInv, InHire, InFree
    <2> QED BY <2>1, <2>2, <2>3, <1>a
<1> QED
    BY <1>1, <1>2, <1>3, <1>4, <1>5, <1>6, <1>7, <1>8, <1>9, <1>10, <1>11 DEF Client, LocalStep

(* The invariant holds at every step. *)
THEOREM Invariance == PoolSpec => []IInv
<1>1. IInv /\ [PoolNext]_poolVars => IInv'
    <2> SUFFICES ASSUME IInv, [PoolNext]_poolVars PROVE IInv'
        OBVIOUS
    <2>1. CASE \E c \in Clients : Client(c)
        BY <2>1, StepIInv
    <2>2. CASE UNCHANGED poolVars
        BY <2>2 DEF poolVars, IInv, PoolTypeOK, LockInv, HasWorker, FoundIsFree,
                    InLoop, ExclusiveHire, UnavailableIsHired
    <2> QED BY <2>1, <2>2 DEF PoolNext
<1> QED
    BY InitIInv, <1>1, PTL DEF PoolSpec

(* The variables of the pool stay in their types. *)
THEOREM TypeCorrect == PoolSpec => []PoolTypeOK
<1>1. IInv => PoolTypeOK
    BY DEF IInv
<1> QED BY <1>1, Invariance, PTL

(* Two processes never work on the same worker. *)
THEOREM HireIsExclusive == PoolSpec => []ExclusiveHire
<1>1. IInv => ExclusiveHire
    BY DEF IInv
<1> QED BY <1>1, Invariance, PTL

(* A worker is unavailable exactly while some process has it hired. *)
THEOREM DictionaryIsTrue == PoolSpec => []UnavailableIsHired
<1>1. IInv => UnavailableIsHired
    BY DEF IInv
<1> QED BY <1>1, Invariance, PTL

(***************************************************************************)
(* The busy loop of hireRemoteWorker, which holds the lock, always finds a *)
(* worker: with no more processes than workers nobody spins for ever,      *)
(* however many processes have died with a worker in hand.                 *)
(***************************************************************************)
THEOREM HireNeverSpins == PoolSpec => []ScanFindsWorker
<1>1. IInv => ScanFindsWorker
    <2> SUFFICES ASSUME IInv, NEW c \in Clients, pc[c] = "scan"
                 PROVE  \E w \in Workers : SharedWorkerDict[w]
        BY DEF ScanFindsWorker
    <2>1. pc[c] \notin Hiring
        BY DEF Hiring
    <2> QED BY <2>1, AllUnavailableAllHiring
<1> QED BY <1>1, Invariance, PTL

-------------------------------------------------------------------------------
(* The refinement of WorkerAllocation.tla. *)

(* The process that uses a worker is its owner. *)
LEMMA OwnerIsUser ==
    ASSUME IInv, NEW w \in Workers, NEW c \in Clients,
           pc[c] \in Hiring, workerID[c] = w
    PROVE  Owner[w] = c
<1>1. c \in Users(w)
    BY DEF Users
<1>2. \A d \in Users(w) : d = c
    BY DEF Users, IInv, ExclusiveHire
<1> QED
    BY <1>1, <1>2 DEF Owner, TheOne

(* A worker that nobody uses has no owner. *)
LEMMA UnusedHasNoOwner ==
    ASSUME NEW w \in Workers,
           \A c \in Clients : ~(pc[c] \in Hiring /\ workerID[c] = w)
    PROVE  Owner[w] = None
BY DEF Owner, TheOne, Users

(* Whoever owns a worker uses it. *)
LEMMA OwnerUses ==
    ASSUME NEW w \in Workers, Owner[w] # None
    PROVE  Owner[w] \in Clients /\ pc[Owner[w]] \in Hiring /\ workerID[Owner[w]] = w
BY DEF Owner, TheOne, Users

(* A step that changes neither who is hiring nor their workers is a stutter. *)
LEMMA SameUsersSameOwner ==
    ASSUME \A c \in Clients : pc'[c] \in Hiring <=> pc[c] \in Hiring,
           \A c \in Clients : pc[c] \in Hiring => workerID'[c] = workerID[c]
    PROVE  Owner' = Owner
<1>1. \A w \in Workers : Users(w)' = Users(w)
    BY DEF Users
<1>2. \A w \in Workers : TheOne(Users(w)') = TheOne(Users(w))
    BY <1>1
<1> QED BY <1>2 DEF Owner

(***************************************************************************)
(* Every step of a process is a Hire, a GiveBack or a stutter of the       *)
(* allocation.                                                             *)
(***************************************************************************)
LEMMA StepRefines ==
    ASSUME IInv, IInv', NEW c \in Clients, Client(c)
    PROVE  Allocation!AllocationNext \/ Owner' = Owner
<1> USE DEF Goto
<1>1. CASE MarkHired(c)
    <2>1. PICK v \in Workers : v = workerID[c] /\ SharedWorkerDict[v] /\ pc[c] \notin Hiring
        BY <1>1 DEF MarkHired, IInv, HasWorker, FoundIsFree, Hiring
    <2>2. Owner[v] = None
        BY <2>1, UnusedHasNoOwner DEF IInv, UnavailableIsHired
    <2>3. \A w \in Workers : Owner[w] # c
        BY <2>1, OwnerUses, PoolAssumption
    <2>4. \A d \in Clients : d # c => (pc'[d] \in Hiring <=> pc[d] \in Hiring)
        BY <1>1 DEF MarkHired, IInv, PoolTypeOK
    <2>5. pc'[c] \in Hiring /\ workerID' = workerID
        BY <1>1 DEF MarkHired, IInv, PoolTypeOK, Hiring
    <2>6. Users(v)' = {c}
        <3>1. \A d \in Clients : d # c => ~(pc'[d] \in Hiring /\ workerID'[d] = v)
            BY <2>1, <2>5, IInv' DEF IInv, ExclusiveHire
        <3> QED BY <2>1, <2>5, <3>1 DEF Users
    <2>7. \A w \in Workers : w # v => Users(w)' = Users(w)
        BY <2>1, <2>4, <2>5 DEF Users
    <2>8. Owner' = [Owner EXCEPT ![v] = c]
        <3>1. \A w \in Workers : Owner'[w] = IF w = v THEN c ELSE Owner[w]
            <4> TAKE w \in Workers
            <4>1. Owner'[w] = TheOne(Users(w)') /\ Owner[w] = TheOne(Users(w))
                BY DEF Owner
            <4>2. CASE w = v
                BY <2>6, <4>1, <4>2 DEF TheOne
            <4>3. CASE w # v
                BY <2>7, <4>1, <4>3
            <4> QED BY <4>2, <4>3
        <3>2. Owner' = [w \in Workers |-> Owner'[w]] /\ Owner = [w \in Workers |-> Owner[w]]
            BY DEF Owner
        <3> QED BY <3>1, <3>2
    <2>9. Allocation!Hire(c, v)
        BY <2>2, <2>3, <2>8 DEF Allocation!Hire
    <2> QED BY <2>1, <2>9 DEF Allocation!AllocationNext
<1>2. CASE MarkFree(c)
    <2>1. PICK v \in Workers : v = workerID[c] /\ pc[c] \in Hiring
        BY <1>2 DEF MarkFree, IInv, HasWorker, Hiring
    <2>2. Owner[v] = c
        BY <2>1, OwnerIsUser
    <2>3. pc'[c] \notin Hiring /\ workerID' = workerID
        BY <1>2 DEF MarkFree, IInv, PoolTypeOK, Hiring
    <2>4. \A d \in Clients : d # c => (pc'[d] \in Hiring <=> pc[d] \in Hiring)
        BY <1>2 DEF MarkFree, IInv, PoolTypeOK
    <2>5. Users(v)' = {}
        <3>1. \A d \in Clients : d # c => ~(pc[d] \in Hiring /\ workerID[d] = v)
            BY <2>1 DEF IInv, ExclusiveHire
        <3> QED BY <2>3, <2>4, <3>1 DEF Users
    <2>6. \A w \in Workers : w # v => Users(w)' = Users(w)
        BY <2>1, <2>3, <2>4 DEF Users
    <2>7. Owner' = [Owner EXCEPT ![v] = None]
        <3>1. \A w \in Workers : Owner'[w] = IF w = v THEN None ELSE Owner[w]
            <4> TAKE w \in Workers
            <4>1. Owner'[w] = TheOne(Users(w)') /\ Owner[w] = TheOne(Users(w))
                BY DEF Owner
            <4>2. CASE w = v
                BY <2>5, <4>1, <4>2 DEF TheOne
            <4>3. CASE w # v
                BY <2>6, <4>1, <4>3
            <4> QED BY <4>2, <4>3
        <3>2. Owner' = [w \in Workers |-> Owner'[w]] /\ Owner = [w \in Workers |-> Owner[w]]
            BY DEF Owner
        <3> QED BY <3>1, <3>2
    <2>8. Allocation!GiveBack(c, v)
        BY <2>2, <2>7 DEF Allocation!GiveBack
    <2> QED BY <2>1, <2>8 DEF Allocation!AllocationNext
<1>3. CASE StartJob(c) \/ FinishPrograms(c) \/ AcquireToHire(c) \/ FindFree(c)
    <2>1. \A d \in Clients : pc'[d] \in Hiring <=> pc[d] \in Hiring
        BY <1>3 DEF StartJob, FinishPrograms, AcquireToHire, FindFree, IInv, PoolTypeOK, Hiring
    <2>2. \A d \in Clients : pc[d] \in Hiring => workerID'[d] = workerID[d]
        BY <1>3 DEF StartJob, FinishPrograms, AcquireToHire, FindFree, IInv, PoolTypeOK, Hiring
    <2> QED BY <2>1, <2>2, SameUsersSameOwner
<1>4. CASE LeaveHire(c) \/ AcquireToFree(c) \/ JobRaised(c) \/ \E s \in Statuses : JobAnswered(c, s)
    <2>1. \A d \in Clients : pc'[d] \in Hiring <=> pc[d] \in Hiring
        BY <1>4 DEF LeaveHire, AcquireToFree, JobRaised, JobAnswered, IInv, PoolTypeOK, Hiring
    <2>2. workerID' = workerID
        BY <1>4 DEF LeaveHire, AcquireToFree, JobRaised, JobAnswered
    <2> QED BY <2>1, <2>2, SameUsersSameOwner
<1>5. CASE LeaveFree(c)
    <2>1. \A d \in Clients : pc'[d] \in Hiring <=> pc[d] \in Hiring
        BY <1>5 DEF LeaveFree, IInv, PoolTypeOK, Hiring
    <2>2. \A d \in Clients : pc[d] \in Hiring => workerID'[d] = workerID[d]
        BY <1>5 DEF LeaveFree, IInv, PoolTypeOK, Hiring
    <2> QED BY <2>1, <2>2, SameUsersSameOwner
<1> QED
    BY <1>1, <1>2, <1>3, <1>4, <1>5 DEF Client, LocalStep

(***************************************************************************)
(* hireRemoteWorker and freeRemoteWorker implement an allocator of workers *)
(* to processes, one owner each.                                           *)
(***************************************************************************)
THEOREM PoolRefinesAllocation == PoolSpec => AllocationRefined
<1>1. PoolInit => Allocation!AllocationInit
    <2> SUFFICES ASSUME PoolInit PROVE Owner = [w \in Workers |-> None]
        BY DEF Allocation!AllocationInit
    <2>1. \A w \in Workers : Users(w) = {}
        BY DEF PoolInit, Users, Hiring
    <2> QED BY <2>1 DEF Owner, TheOne
<1>2. IInv /\ IInv' /\ [PoolNext]_poolVars => [Allocation!AllocationNext]_Owner
    <2> SUFFICES ASSUME IInv, IInv', [PoolNext]_poolVars
                 PROVE  Allocation!AllocationNext \/ Owner' = Owner
        OBVIOUS
    <2>1. CASE \E c \in Clients : Client(c)
        BY <2>1, StepRefines
    <2>2. CASE UNCHANGED poolVars
        BY <2>2, SameUsersSameOwner DEF poolVars
    <2> QED BY <2>1, <2>2 DEF PoolNext
<1> QED
    BY <1>1, <1>2, Invariance, PTL DEF PoolSpec, AllocationRefined, Allocation!AllocationSpec

-------------------------------------------------------------------------------
(* The environment: its invariant *)

USE DEF resultVars

Commands == {"target", "profiled", "features"}
AnyTag == [client : Clients, number : Nat]
AnyRequest == [client : Clients, command : Commands, number : Nat, target : Nat]

AnyJob == [tag : AnyTag, target : Programs]

Replies == {Waiting, Closed, Reset, "Success", "Failed"} \cup SUBSET AnyTag

(* The shapes of the variables, without the bounds of TypeOK. *)
Shapes ==
    /\ command \in [Clients -> Commands]
    /\ number \in [Clients -> Nat]
    /\ tcp \in [Clients -> Workers \cup {None}]
    /\ reply \in [Clients -> Replies]
    /\ DOMAIN retProfiled = Clients /\ retProfiled = [c \in Clients |-> retProfiled[c]]
    /\ DOMAIN retFeatures = Clients /\ retFeatures = [c \in Clients |-> retFeatures[c]]
    /\ up \in [Workers -> BOOLEAN]
    /\ queue \in [Workers -> Seq(AnyRequest)]
    /\ serving \in [Workers -> [tag : AnyTag, target : Nat] \cup {None}]
    /\ profile \in [Workers -> [Programs -> SUBSET AnyTag]]
    /\ feats \in [Workers -> SUBSET AnyTag]
    /\ left \in [Workers -> SUBSET AnyJob]
    /\ strayed \in [Workers -> BOOLEAN]

(* A client is connected only during a job, to the worker it has hired. *)
ConnInv ==
    \A c \in Clients :
        /\ tcp[c] # None => tcp[c] = workerID[c] /\ pc[c] \in {"work", "dead"}
        /\ tcp[c] = None => reply[c] = Waiting
        /\ pc[c] \notin {"work", "dead"} => command[c] = "target"

(* Client c waits for worker w to deal with its current request. *)
WaitsFor(c, w) ==
    /\ c \in Clients /\ pc[c] = "work" /\ tcp[c] = w /\ reply[c] = Waiting

(* A worker serves the current "target" request of a client that waits. *)
ServedInv ==
    \A w \in Workers : serving[w] # None =>
        /\ WaitsFor(serving[w].tag.client, w)
        /\ command[serving[w].tag.client] = "target"
        /\ serving[w].tag = TagOf(serving[w].tag.client)
        /\ serving[w].target = program[serving[w].tag.client]
        /\ queue[w] = <<>>

(* At most the current request of one waiting client is queued. *)
QueuedInv ==
    \A w \in Workers : queue[w] # <<>> =>
        LET r == Head(queue[w]) IN
        /\ queue[w] = <<r>>
        /\ WaitsFor(r.client, w)
        /\ r.command = command[r.client] /\ r.number = number[r.client]
        /\ r.target = program[r.client]

(* The jobs whose results client c may get: its own, and those of survivors. *)
Allowed(c) == {TagOf(c)} \cup {j.tag : j \in left[workerID[c]]}

(* A measurement that client c may get, unless its job has strayed. *)
Certain(c, m) == ~strayed[workerID[c]] => m \subseteq Allowed(c)

(* The worker of client c holds nothing but such results. *)
HoldsOwn(c) ==
    /\ Certain(c, profile[workerID[c]][program[c]])
    /\ feats[workerID[c]] \subseteq Allowed(c)

(* From "Success" until the client has fetched the results. *)
Fetches(c) == pc[c] = "work" /\ (command[c] # "target" \/ reply[c] = "Success")

OwnInv == \A c \in Clients : Fetches(c) => HoldsOwn(c)

(* What arrives in answer to each request. *)
ReplyInv ==
    \A c \in Clients :
        /\ command[c] = "target" => reply[c] \in {Waiting, Closed, Reset, "Success", "Failed"}
        /\ pc[c] = "work" /\ reply[c] \notin {Waiting, Closed, Reset} =>
              /\ command[c] = "profiled" => Certain(c, reply[c])
              /\ command[c] = "features" => reply[c] \subseteq Allowed(c)

(* The job of client c has returned "Success". *)
HasReturned(c) == pc[c] = "free" /\ status[c] = "Success"

(* What has been received. *)
DataInv ==
    \A c \in Clients :
        /\ pc[c] = "work" /\ command[c] = "features" => Certain(c, retProfiled[c])
        /\ HasReturned(c) => Certain(c, retProfiled[c]) /\ retFeatures[c] \subseteq Allowed(c)

EnvInv ==
    /\ IInv /\ Shapes /\ ConnInv /\ ServedInv /\ QueuedInv /\ OwnInv /\ ReplyInv /\ DataInv

-------------------------------------------------------------------------------
(* Consequences of the invariant. *)

(* A client at work has a worker, and a program of the list. *)
LEMMA AtWork ==
    ASSUME IInv, NEW c \in Clients, pc[c] = "work"
    PROVE  workerID[c] \in Workers /\ program[c] \in Programs
<1>1. workerID[c] \in Workers
    BY DEF IInv, HasWorker, Hiring
<1>2. program[c] \in 1 .. NumPrograms + 1 /\ program[c] <= NumPrograms
    BY DEF IInv, PoolTypeOK, InLoop
<1>3. NumPrograms \in Nat
    BY PoolAssumption
<1>4. program[c] \in 1 .. NumPrograms
    BY ONLY <1>2, <1>3
<1> QED BY <1>1, <1>4 DEF Programs

(* Two clients at work have different workers. *)
LEMMA Apart ==
    ASSUME IInv, NEW c \in Clients, NEW d \in Clients, pc[c] = "work", pc[d] = "work",
           workerID[c] = workerID[d]
    PROVE  c = d
BY DEF IInv, ExclusiveHire, Hiring

(* Whoever waits for a worker has hired it. *)
LEMMA WaitsForItsWorker ==
    ASSUME EnvInv, NEW c, NEW w \in Workers, WaitsFor(c, w)
    PROVE  c \in Clients /\ pc[c] = "work" /\ workerID[c] = w
BY PoolAssumption DEF EnvInv, ConnInv, WaitsFor

(* A client that does not wait is neither served nor queued. *)
LEMMA NotWaiting ==
    ASSUME EnvInv, NEW c \in Clients, tcp[c] = None \/ reply[c] # Waiting \/ pc[c] # "work",
           NEW w \in Workers
    PROVE  /\ serving[w] # None => serving[w].tag.client # c
           /\ queue[w] # <<>> => Head(queue[w]).client # c
BY PoolAssumption DEF EnvInv, ServedInv, QueuedInv, WaitsFor

(* The worker of a client that does not wait does nothing. *)
LEMMA WorkerAtRest ==
    ASSUME EnvInv, NEW c \in Clients, pc[c] = "work", tcp[c] = None \/ reply[c] # Waiting
    PROVE  serving[workerID[c]] = None /\ queue[workerID[c]] = <<>>
<1>1. workerID[c] \in Workers
    BY AtWork DEF EnvInv
<1>2. serving[workerID[c]] = None
    <2> SUFFICES ASSUME serving[workerID[c]] # None PROVE FALSE
        OBVIOUS
    <2>1. WaitsFor(serving[workerID[c]].tag.client, workerID[c])
        BY <1>1 DEF EnvInv, ServedInv
    <2> QED BY <1>1, <2>1, WaitsForItsWorker, NotWaiting, Apart DEF EnvInv
<1>3. queue[workerID[c]] = <<>>
    <2> SUFFICES ASSUME queue[workerID[c]] # <<>> PROVE FALSE
        OBVIOUS
    <2>1. WaitsFor(Head(queue[workerID[c]]).client, workerID[c])
        BY <1>1 DEF EnvInv, QueuedInv
    <2> QED BY <1>1, <2>1, WaitsForItsWorker, NotWaiting, Apart DEF EnvInv
<1> QED BY <1>2, <1>3

(* A worker that survivors and the job at hand cannot make less certain. *)
Grows(w) == left[w] \subseteq left'[w] /\ (strayed[w] => strayed'[w])

(* What a client may get, it may get after such a step. *)
LEMMA Carry ==
    ASSUME NEW c, workerID'[c] = workerID[c], number'[c] = number[c], Grows(workerID[c])
    PROVE  /\ Allowed(c) \subseteq Allowed(c)'
           /\ \A m : Certain(c, m) => Certain(c, m)'
<1>1. Allowed(c) \subseteq Allowed(c)'
    BY DEF Allowed, TagOf, Grows
<1> QED BY <1>1 DEF Certain, Grows

(* A worker at work has no client that fetches results, or has returned. *)
LEMMA BusyIsAlone ==
    ASSUME EnvInv, NEW w \in Workers,
           \/ serving[w] # None
           \/ queue[w] # <<>> /\ Head(queue[w]).command = "target",
           NEW d \in Clients, Fetches(d) \/ HasReturned(d)
    PROVE  workerID[d] # w
<1>1. PICK k : WaitsFor(k, w) /\ command[k] = "target"
    BY DEF EnvInv, ServedInv, QueuedInv
<1>2. k \in Clients /\ pc[k] = "work" /\ workerID[k] = w /\ reply[k] = Waiting
    BY <1>1, WaitsForItsWorker DEF WaitsFor
<1>3. d # k
    BY <1>1, <1>2, ReplyAssumption DEF Fetches, HasReturned
<1> QED BY <1>2, <1>3 DEF EnvInv, IInv, ExclusiveHire, Hiring, Fetches, HasReturned

-------------------------------------------------------------------------------
(* The initial states. *)
LEMMA InitEnvInv == Init => EnvInv
<1> SUFFICES ASSUME Init PROVE EnvInv
    OBVIOUS
<1> USE DEF Init
<1>1. IInv
    BY InitIInv
<1>2. Shapes
    BY DEF Shapes, Commands, Replies, Service!ServiceInit
<1>3. ConnInv /\ ServedInv /\ QueuedInv
    BY DEF ConnInv, ServedInv, QueuedInv, Service!ServiceInit
<1>4. OwnInv /\ ReplyInv /\ DataInv
    BY DEF OwnInv, ReplyInv, DataInv, PoolInit, Fetches, HasReturned
<1> QED BY <1>1, <1>2, <1>3, <1>4 DEF EnvInv

-------------------------------------------------------------------------------
(* The steps of clients. *)

(* A step that leaves the pool alone. *)
LEMMA UnchangedIInv ==
    ASSUME IInv,
           UNCHANGED <<SharedWorkerDict, WorkerLock, pc, workerID, status, program>>
    PROVE  IInv'
BY DEF IInv, PoolTypeOK, LockInv, HasWorker, FoundIsFree, InLoop, ExclusiveHire,
       UnavailableIsHired


(* What a step of the pool leaves alone. *)
LEMMA LocalFrame ==
    ASSUME IInv, NEW c \in Clients, LocalStep(c)
    PROVE  /\ IInv'
           /\ pc[c] \notin {"work", "dead"} /\ pc'[c] \notin {"free", "dead"}
           /\ \A d \in Clients : d # c => /\ pc'[d] = pc[d]
                                          /\ workerID'[d] = workerID[d]
                                          /\ program'[d] = program[d]
           /\ status' = status
<1>1. IInv'
    BY StepIInv DEF Client
<1>2. pc \in [Clients -> PcValues] /\ workerID = [d \in Clients |-> workerID[d]]
        /\ program = [d \in Clients |-> program[d]]
    BY DEF IInv, PoolTypeOK
<1> USE <1>2 DEF Goto, LocalStep, Acquire, Release
<1>3. pc[c] \notin {"work", "dead"}
    BY DEF StartJob, FinishPrograms, AcquireToHire, FindFree, MarkHired, LeaveHire,
           AcquireToFree, MarkFree, LeaveFree
<1>4. pc'[c] \notin {"free", "dead"}
    BY DEF StartJob, FinishPrograms, AcquireToHire, FindFree, MarkHired, LeaveHire,
           AcquireToFree, MarkFree, LeaveFree
<1>5. \A d \in Clients : d # c =>
        pc'[d] = pc[d] /\ workerID'[d] = workerID[d] /\ program'[d] = program[d]
    BY DEF StartJob, FinishPrograms, AcquireToHire, FindFree, MarkHired, LeaveHire,
           AcquireToFree, MarkFree, LeaveFree
<1>6. status' = status
    BY DEF StartJob, FinishPrograms, AcquireToHire, FindFree, MarkHired, LeaveHire,
           AcquireToFree, MarkFree, LeaveFree
<1> QED BY <1>1, <1>3, <1>4, <1>5, <1>6

(* What the end of a job, by an answer or an exception, leaves alone. *)
LEMMA JobFrame ==
    ASSUME IInv, NEW c \in Clients,
           JobRaised(c) \/ \E s \in Statuses : JobAnswered(c, s)
    PROVE  /\ IInv'
           /\ pc[c] = "work" /\ pc'[c] \in {"free", "dead"}
           /\ \A d \in Clients : d # c => pc'[d] = pc[d] /\ status'[d] = status[d]
           /\ workerID' = workerID /\ program' = program
<1>1. IInv'
    BY StepIInv DEF Client
<1>2. pc \in [Clients -> PcValues] /\ status \in [Clients -> Statuses]
    BY DEF IInv, PoolTypeOK
<1> QED BY <1>1, <1>2 DEF Goto, JobRaised, JobAnswered

(* A step of the pool, outside a job. *)
LEMMA PoolStepInv ==
    ASSUME EnvInv, NEW c \in Clients, PoolStep(c)
    PROVE  EnvInv'
<1> USE PoolAssumption DEF EnvInv, clientVars, daemonVars
<1>0. /\ LocalStep(c)
      /\ UNCHANGED <<command, number, tcp, reply, retProfiled, retFeatures,
                     up, queue, serving, profile, feats, left, strayed>>
    BY DEF PoolStep
<1>a. /\ IInv'
      /\ pc[c] \notin {"work", "dead"} /\ pc'[c] \notin {"free", "dead"}
      /\ \A d \in Clients : d # c => /\ pc'[d] = pc[d]
                                     /\ workerID'[d] = workerID[d]
                                     /\ program'[d] = program[d]
      /\ status' = status
    BY <1>0, LocalFrame
<1>b. tcp[c] = None /\ reply[c] = Waiting /\ command[c] = "target"
    BY <1>a DEF ConnInv
<1>1. Shapes'
    BY <1>0 DEF Shapes
<1>2. ConnInv'
    BY <1>0, <1>a, <1>b DEF ConnInv
<1>3. ServedInv'
    BY <1>0, <1>a DEF ServedInv, WaitsFor, TagOf
<1>4. QueuedInv'
    BY <1>0, <1>a DEF QueuedInv, WaitsFor
<1>5. OwnInv'
    <2> SUFFICES ASSUME NEW d \in Clients, Fetches(d)'
                 PROVE  HoldsOwn(d)'
        BY DEF OwnInv
    <2>1. d # c
        BY <1>0, <1>b, ReplyAssumption DEF Fetches
    <2> QED BY <2>1, <1>0, <1>a DEF OwnInv, Fetches, HoldsOwn, Certain, Allowed, TagOf
<1>6. ReplyInv'
    BY <1>0, <1>a, <1>b DEF ReplyInv, Certain, Allowed, TagOf
<1>7. DataInv'
    BY <1>0, <1>a, <1>b DEF DataInv, HasReturned, Certain, Allowed, TagOf
<1> QED BY <1>a, <1>1, <1>2, <1>3, <1>4, <1>5, <1>6, <1>7

(* The exceptions that end a process. *)
LEMMA RaisedInv ==
    ASSUME EnvInv, NEW c \in Clients, JobRaised(c), tcp[c] = None \/ reply[c] # Waiting,
           UNCHANGED <<clientVars, daemonVars>>
    PROVE  EnvInv'
<1> USE PoolAssumption DEF EnvInv
<1>0. UNCHANGED <<command, number, tcp, reply, retProfiled, retFeatures,
                  up, queue, serving, profile, feats, left, strayed>>
    BY DEF clientVars, daemonVars
<1>a. /\ IInv'
      /\ pc[c] = "work" /\ pc'[c] = "dead"
      /\ \A d \in Clients : d # c => pc'[d] = pc[d]
      /\ workerID' = workerID /\ program' = program /\ status' = status
    BY JobFrame DEF JobRaised, Goto, IInv, PoolTypeOK
<1>b. \A w \in Workers : /\ serving[w] # None => serving[w].tag.client # c
                         /\ queue[w] # <<>> => Head(queue[w]).client # c
    BY NotWaiting
<1>1. Shapes'
    BY <1>0 DEF Shapes
<1>2. ConnInv'
    BY <1>0, <1>a DEF ConnInv
<1>3. ServedInv'
    BY <1>0, <1>a, <1>b DEF ServedInv, WaitsFor, TagOf
<1>4. QueuedInv'
    BY <1>0, <1>a, <1>b DEF QueuedInv, WaitsFor
<1>5. OwnInv'
    BY <1>0, <1>a DEF OwnInv, Fetches, HoldsOwn, Certain, Allowed, TagOf
<1>6. ReplyInv'
    BY <1>0, <1>a DEF ReplyInv, Certain, Allowed, TagOf
<1>7. DataInv'
    BY <1>0, <1>a DEF DataInv, HasReturned, Certain, Allowed, TagOf
<1> QED BY <1>a, <1>1, <1>2, <1>3, <1>4, <1>5, <1>6, <1>7

(* A request is sent: the only one queued at the worker that was hired. *)
LEMMA SendInv ==
    ASSUME EnvInv, NEW c \in Clients, Send(c)
    PROVE  EnvInv'
<1> USE PoolAssumption DEF EnvInv
<1> DEFINE w == workerID[c]
           n == IF command[c] = "target" THEN number[c] + 1 ELSE number[c]
           r == [client |-> c, command |-> command[c], number |-> n, target |-> program[c]]
<1>0. /\ pc[c] = "work" /\ tcp[c] = None
      /\ tcp' = [tcp EXCEPT ![c] = w]
      /\ number' = [number EXCEPT ![c] = n]
      /\ queue' = [queue EXCEPT ![w] = Append(queue[w], r)]
      /\ UNCHANGED <<SharedWorkerDict, WorkerLock, pc, workerID, status, program,
                     command, reply, up, serving, profile, feats, left, strayed>>
    BY DEF Send, poolVars
<1>a. w \in Workers /\ program[c] \in Programs /\ n \in Nat
    BY <1>0, AtWork DEF Shapes
<1>b. /\ serving[w] = None /\ queue[w] = <<>>
      /\ reply[c] = Waiting
    BY <1>0, WorkerAtRest DEF ConnInv
<1>c. \A v \in Workers : /\ serving[v] # None => serving[v].tag.client # c
                         /\ queue[v] # <<>> => Head(queue[v]).client # c
    BY <1>0, NotWaiting
<1>d. r \in AnyRequest
    BY <1>a DEF AnyRequest, Shapes, Programs
<1>e. /\ queue'[w] = <<r>> /\ \A v \in Workers : v # w => queue'[v] = queue[v]
      /\ queue' \in [Workers -> Seq(AnyRequest)]
    BY <1>0, <1>a, <1>b, <1>d DEF Shapes
<1>f. /\ tcp' \in [Clients -> Workers \cup {None}] /\ number' \in [Clients -> Nat]
      /\ tcp'[c] = w /\ number'[c] = n
      /\ \A d \in Clients : d # c => tcp'[d] = tcp[d] /\ number'[d] = number[d]
    BY <1>0, <1>a DEF Shapes
<1>g. command[c] = "target" \/ n = number[c]
    OBVIOUS
<1>h. /\ retProfiled' = [d \in Clients |-> retProfiled'[d]] /\ DOMAIN retProfiled' = Clients
      /\ retFeatures' = [d \in Clients |-> retFeatures'[d]] /\ DOMAIN retFeatures' = Clients
      /\ \A d \in Clients : d # c \/ command[c] # "target" =>
            retProfiled'[d] = retProfiled[d] /\ retFeatures'[d] = retFeatures[d]
    BY DEF Send, Shapes
<1> HIDE DEF w, n, r
<1>1. IInv'
    <2>1. UNCHANGED <<SharedWorkerDict, WorkerLock, pc, workerID, status, program>>
        BY <1>0
    <2> QED BY <2>1, UnchangedIInv
<1>2. Shapes'
    BY <1>0, <1>e, <1>f, <1>h DEF Shapes
<1>3. ConnInv'
    BY <1>0, <1>a, <1>f DEF ConnInv, w
<1>4. ServedInv'
    <2> SUFFICES ASSUME NEW v \in Workers, serving[v] # None
                 PROVE  /\ WaitsFor(serving[v].tag.client, v)'
                        /\ command[serving[v].tag.client] = "target"
                        /\ serving[v].tag = TagOf(serving[v].tag.client)'
                        /\ serving[v].target = program[serving[v].tag.client]
                        /\ queue'[v] = <<>>
        BY <1>0 DEF ServedInv, WaitsFor, TagOf
    <2>1. v # w /\ serving[v].tag.client # c
        BY <1>b, <1>c
    <2> QED BY <2>1, <1>0, <1>e, <1>f DEF ServedInv, WaitsFor, TagOf
<1>5. QueuedInv'
    <2> SUFFICES ASSUME NEW v \in Workers, queue'[v] # <<>>
                 PROVE  /\ queue'[v] = <<Head(queue'[v])>>
                        /\ WaitsFor(Head(queue[v]).client, v)'
                        /\ Head(queue'[v]).command = command[Head(queue'[v]).client]
                        /\ Head(queue'[v]).number = number'[Head(queue'[v]).client]
                        /\ Head(queue'[v]).target = program[Head(queue'[v]).client]
        BY <1>0 DEF QueuedInv, WaitsFor
    <2>1. CASE v = w
        <3>1. Head(queue'[v]) = r
            BY <2>1, <1>e
        <3> QED BY <3>1, <2>1, <1>0, <1>a, <1>b, <1>e, <1>f DEF WaitsFor, r
    <2>2. CASE v # w
        <3>1. queue'[v] = queue[v] /\ Head(queue[v]).client # c
            BY <2>2, <1>c, <1>e
        <3> QED BY <3>1, <1>0, <1>f DEF QueuedInv, WaitsFor
    <2> QED BY <2>1, <2>2
<1>6. ASSUME NEW d \in Clients, number'[d] = number[d]
      PROVE  Allowed(d)' = Allowed(d) /\ \A m : Certain(d, m)' <=> Certain(d, m)
    BY <1>0, <1>6 DEF Certain, Allowed, TagOf
<1>7. OwnInv'
    <2> SUFFICES ASSUME NEW d \in Clients, Fetches(d)
                 PROVE  HoldsOwn(d)'
        BY <1>0 DEF OwnInv, Fetches
    <2>1. HoldsOwn(d) /\ number'[d] = number[d]
        BY <1>b, <1>f, <1>g, ReplyAssumption DEF OwnInv, Fetches
    <2> QED BY <2>1, <1>0, <1>6 DEF HoldsOwn
<1>8. ReplyInv'
    <2> SUFFICES ASSUME NEW d \in Clients, command[d] # "target",
                        pc[d] = "work", reply[d] \notin {Waiting, Closed, Reset}
                 PROVE  /\ command[d] = "profiled" => Certain(d, reply[d])'
                        /\ command[d] = "features" => reply[d] \subseteq Allowed(d)'
        BY <1>0 DEF ReplyInv
    <2>1. number'[d] = number[d]
        BY <1>f, <1>g
    <2> QED BY <2>1, <1>0, <1>6 DEF ReplyInv
<1>9. DataInv'
    <2> SUFFICES ASSUME NEW d \in Clients,
                        (pc[d] = "work" /\ command[d] = "features") \/ HasReturned(d)
                 PROVE  /\ pc[d] = "work" /\ command[d] = "features" =>
                              Certain(d, retProfiled[d])'
                        /\ HasReturned(d) => /\ Certain(d, retProfiled[d])'
                                             /\ retFeatures'[d] \subseteq Allowed(d)'
        BY <1>0 DEF DataInv, HasReturned
    <2>1. /\ number'[d] = number[d]
          /\ retProfiled'[d] = retProfiled[d] /\ retFeatures'[d] = retFeatures[d]
        BY <1>0, <1>f, <1>g, <1>h DEF HasReturned
    <2> QED BY <2>1, <1>6 DEF DataInv
<1> QED BY <1>1, <1>2, <1>3, <1>4, <1>5, <1>7, <1>8, <1>9

(***************************************************************************)
(* What every receipt of an answer changes: the client is no longer        *)
(* connected, and nobody else's connection is touched.                     *)
(***************************************************************************)
LEMMA ArrivedFrame ==
    ASSUME EnvInv, NEW c \in Clients, Arrived(c)
    PROVE  /\ pc[c] = "work" /\ reply[c] \notin {Waiting, Reset}
           /\ tcp' \in [Clients -> Workers \cup {None}]
           /\ tcp'[c] = None /\ reply'[c] = Waiting
           /\ reply' \in [Clients -> Replies]
           /\ \A d \in Clients : d # c => tcp'[d] = tcp[d] /\ reply'[d] = reply[d]
           /\ \A w \in Workers : /\ serving[w] # None => serving[w].tag.client # c
                                 /\ queue[w] # <<>> => Head(queue[w]).client # c
<1>1. \A w \in Workers : /\ serving[w] # None => serving[w].tag.client # c
                         /\ queue[w] # <<>> => Head(queue[w]).client # c
    BY NotWaiting DEF Arrived
<1> QED BY <1>1 DEF Arrived, EnvInv, Shapes, Replies

(* The parts of the invariant about workers survive the receipt of an answer. *)
LEMMA ArrivedWorkers ==
    ASSUME EnvInv, NEW c \in Clients, Arrived(c),
           \A d \in Clients : d # c => pc'[d] = pc[d] /\ command'[d] = command[d],
           UNCHANGED <<workerID, program, number, up, queue, serving, profile, feats, left, strayed>>
    PROVE  ServedInv' /\ QueuedInv'
<1> USE DEF EnvInv
<1>a. /\ \A d \in Clients : d # c => tcp'[d] = tcp[d] /\ reply'[d] = reply[d]
      /\ \A w \in Workers : /\ serving[w] # None => serving[w].tag.client # c
                            /\ queue[w] # <<>> => Head(queue[w]).client # c
    BY ArrivedFrame
<1>1. ServedInv'
    BY <1>a DEF ServedInv, WaitsFor, TagOf
<1>2. QueuedInv'
    BY <1>a DEF QueuedInv, WaitsFor
<1> QED BY <1>1, <1>2

(* The answer to "target": go on to fetch the results, or give up. *)
LEMMA ReceiveStatusInv ==
    ASSUME EnvInv, NEW c \in Clients, ReceiveStatus(c)
    PROVE  EnvInv'
<1> USE PoolAssumption, ReplyAssumption DEF EnvInv
<1>0. /\ command[c] = "target" /\ Arrived(c)
      /\ UNCHANGED <<number, retProfiled, retFeatures, up, queue, serving, profile, feats, left, strayed>>
    BY DEF ReceiveStatus, daemonVars
<1>a. /\ pc[c] = "work" /\ reply[c] \notin {Waiting, Reset}
      /\ tcp' \in [Clients -> Workers \cup {None}]
      /\ tcp'[c] = None /\ reply'[c] = Waiting
      /\ reply' \in [Clients -> Replies]
      /\ \A d \in Clients : d # c => tcp'[d] = tcp[d] /\ reply'[d] = reply[d]
    BY <1>0, ArrivedFrame
<1>b. reply[c] \in {Closed, "Success", "Failed"}
    BY <1>0, <1>a DEF ReplyInv
<1>1. CASE reply[c] = "Success"
    <2>0. /\ command' \in [Clients -> Commands] /\ command'[c] = "profiled"
          /\ \A d \in Clients : d # c => command'[d] = command[d]
          /\ UNCHANGED <<SharedWorkerDict, WorkerLock, pc, workerID, status, program>>
        BY <1>0, <1>1 DEF ReceiveStatus, NextCommand, poolVars, Shapes, Commands
    <2>1. IInv'
        BY <2>0, UnchangedIInv
    <2>2. Shapes'
        BY <1>0, <1>a, <2>0 DEF Shapes
    <2>3. ConnInv'
        BY <1>0, <1>a, <2>0 DEF ConnInv
    <2>4. ServedInv' /\ QueuedInv'
        BY <1>0, <2>0, ArrivedWorkers
    <2>5. OwnInv'
        BY <1>0, <1>a, <1>1, <2>0 DEF OwnInv, Fetches, HoldsOwn, Certain, Allowed, TagOf
    <2>6. ReplyInv'
        BY <1>0, <1>a, <2>0 DEF ReplyInv, Certain, Allowed, TagOf
    <2>7. DataInv'
        BY <1>0, <2>0 DEF DataInv, HasReturned, Certain, Allowed, TagOf
    <2> QED BY <2>1, <2>2, <2>3, <2>4, <2>5, <2>6, <2>7
<1>2. CASE reply[c] # "Success"
    <2> DEFINE s == IF reply[c] = Closed THEN "" ELSE reply[c]
    <2>a. JobAnswered(c, s) /\ command' = command /\ s \in Statuses /\ s # "Success"
        BY <1>0, <1>b, <1>2 DEF ReceiveStatus, Statuses
    <2> HIDE DEF s
    <2>0. /\ IInv' /\ pc'[c] = "free" /\ status'[c] # "Success"
          /\ \A d \in Clients : d # c => pc'[d] = pc[d] /\ status'[d] = status[d]
          /\ workerID' = workerID /\ program' = program
        BY <2>a, JobFrame DEF JobAnswered, Goto, IInv, PoolTypeOK
    <2>2. Shapes'
        BY <1>0, <1>a, <2>a DEF Shapes
    <2>3. ConnInv'
        BY <1>0, <1>a, <2>a, <2>0 DEF ConnInv
    <2>4. ServedInv' /\ QueuedInv'
        BY <1>0, <2>a, <2>0, ArrivedWorkers
    <2>5. OwnInv'
        BY <1>0, <1>a, <2>a, <2>0 DEF OwnInv, Fetches, HoldsOwn, Certain, Allowed, TagOf
    <2>6. ReplyInv'
        BY <1>0, <1>a, <2>a, <2>0 DEF ReplyInv, Certain, Allowed, TagOf
    <2>7. DataInv'
        BY <1>0, <2>a, <2>0 DEF DataInv, HasReturned, Certain, Allowed, TagOf
    <2> QED BY <2>0, <2>2, <2>3, <2>4, <2>5, <2>6, <2>7
<1> QED BY <1>1, <1>2

(* The measurement arrives. *)
LEMMA ReceiveProfiledInv ==
    ASSUME EnvInv, NEW c \in Clients, ReceiveProfiled(c)
    PROVE  EnvInv'
<1> USE PoolAssumption, ReplyAssumption DEF EnvInv
<1>0. /\ command[c] = "profiled" /\ Arrived(c)
      /\ retProfiled' = [retProfiled EXCEPT ![c] = DataOf(c)]
      /\ command' = [command EXCEPT ![c] = "features"]
      /\ UNCHANGED <<SharedWorkerDict, WorkerLock, pc, workerID, status, program>>
      /\ UNCHANGED <<number, retFeatures, up, queue, serving, profile, feats, left, strayed>>
    BY DEF ReceiveProfiled, NextCommand, poolVars, daemonVars
<1>a. /\ pc[c] = "work" /\ reply[c] \notin {Waiting, Reset}
      /\ tcp' \in [Clients -> Workers \cup {None}]
      /\ tcp'[c] = None /\ reply'[c] = Waiting
      /\ reply' \in [Clients -> Replies]
      /\ \A d \in Clients : d # c => tcp'[d] = tcp[d] /\ reply'[d] = reply[d]
    BY <1>0, ArrivedFrame
<1>b. Certain(c, DataOf(c))
    BY <1>0, <1>a DEF ReplyInv, DataOf, Certain
<1>c. /\ command' \in [Clients -> Commands] /\ command'[c] = "features"
      /\ \A d \in Clients : d # c => command'[d] = command[d]
    BY <1>0 DEF Shapes, Commands
<1>d. /\ retProfiled' = [d \in Clients |-> retProfiled'[d]] /\ DOMAIN retProfiled' = Clients
      /\ retProfiled'[c] = DataOf(c)
      /\ \A d \in Clients : d # c => retProfiled'[d] = retProfiled[d]
    BY <1>0 DEF Shapes
<1>1. IInv'
    BY <1>0, UnchangedIInv
<1>2. Shapes'
    BY <1>0, <1>a, <1>c, <1>d DEF Shapes
<1>3. ConnInv'
    BY <1>0, <1>a, <1>c DEF ConnInv
<1>4. ServedInv' /\ QueuedInv'
    BY <1>0, <1>c, ArrivedWorkers
<1>5. OwnInv'
    BY <1>0, <1>a, <1>c DEF OwnInv, Fetches, HoldsOwn, Certain, Allowed, TagOf
<1>6. ReplyInv'
    BY <1>0, <1>a, <1>c DEF ReplyInv, Certain, Allowed, TagOf
<1>7. DataInv'
    BY <1>0, <1>a, <1>b, <1>c, <1>d DEF DataInv, HasReturned, Certain, Allowed, TagOf
<1> QED BY <1>1, <1>2, <1>3, <1>4, <1>5, <1>6, <1>7

(* The features arrive: the job returns "Success". *)
LEMMA ReceiveFeaturesInv ==
    ASSUME EnvInv, NEW c \in Clients, ReceiveFeatures(c)
    PROVE  EnvInv'
<1> USE PoolAssumption, ReplyAssumption DEF EnvInv
<1>0. /\ command[c] = "features" /\ Arrived(c)
      /\ retFeatures' = [retFeatures EXCEPT ![c] = DataOf(c)]
      /\ command' = [command EXCEPT ![c] = "target"]
      /\ JobAnswered(c, "Success")
      /\ UNCHANGED <<number, retProfiled, up, queue, serving, profile, feats, left, strayed>>
    BY DEF ReceiveFeatures, NextCommand, daemonVars
<1>a. /\ pc[c] = "work" /\ reply[c] \notin {Waiting, Reset}
      /\ tcp' \in [Clients -> Workers \cup {None}]
      /\ tcp'[c] = None /\ reply'[c] = Waiting
      /\ reply' \in [Clients -> Replies]
      /\ \A d \in Clients : d # c => tcp'[d] = tcp[d] /\ reply'[d] = reply[d]
    BY <1>0, ArrivedFrame
<1>b. DataOf(c) \subseteq Allowed(c) /\ Certain(c, retProfiled[c])
    BY <1>0, <1>a DEF ReplyInv, DataInv, DataOf
<1>c. /\ command' \in [Clients -> Commands] /\ command'[c] = "target"
      /\ \A d \in Clients : d # c => command'[d] = command[d]
    BY <1>0 DEF Shapes, Commands
<1>d. /\ retFeatures' = [d \in Clients |-> retFeatures'[d]] /\ DOMAIN retFeatures' = Clients
      /\ retFeatures'[c] = DataOf(c)
      /\ \A d \in Clients : d # c => retFeatures'[d] = retFeatures[d]
    BY <1>0 DEF Shapes
<1>e. /\ IInv' /\ pc'[c] = "free"
      /\ \A d \in Clients : d # c => pc'[d] = pc[d] /\ status'[d] = status[d]
      /\ workerID' = workerID /\ program' = program
    <2>1. "Success" \in Statuses
        BY DEF Statuses
    <2> QED BY <1>0, <2>1, JobFrame DEF JobAnswered, Goto, IInv, PoolTypeOK
<1>2. Shapes'
    BY <1>0, <1>a, <1>c, <1>d DEF Shapes
<1>3. ConnInv'
    BY <1>0, <1>a, <1>c, <1>e DEF ConnInv
<1>4. ServedInv' /\ QueuedInv'
    BY <1>0, <1>c, <1>e, ArrivedWorkers
<1>5. OwnInv'
    BY <1>0, <1>a, <1>c, <1>e DEF OwnInv, Fetches, HoldsOwn, Certain, Allowed, TagOf
<1>6. ReplyInv'
    BY <1>0, <1>a, <1>c, <1>e DEF ReplyInv, Certain, Allowed, TagOf
<1>7. DataInv'
    BY <1>0, <1>a, <1>b, <1>c, <1>d, <1>e DEF DataInv, HasReturned, Certain, Allowed, TagOf
<1> QED BY <1>2, <1>3, <1>4, <1>5, <1>6, <1>7, <1>e

-------------------------------------------------------------------------------
(* The steps of workers. *)

(* The parts of the invariant that relate clients only. *)
ClientInv == IInv /\ ConnInv /\ ReplyInv /\ DataInv

(* A step of a worker that tells no client anything. *)
LEMMA UnchangedClientInv ==
    ASSUME ClientInv, UNCHANGED <<poolVars, clientVars>>,
           \A c \in Clients : Fetches(c) \/ HasReturned(c) => Grows(workerID[c])
    PROVE  ClientInv'
<1>0. /\ UNCHANGED <<SharedWorkerDict, WorkerLock, pc, workerID, status, program>>
      /\ UNCHANGED <<command, number, tcp, reply, retProfiled, retFeatures>>
    BY DEF poolVars, clientVars
<1>1. IInv'
    BY <1>0, UnchangedIInv DEF ClientInv
<1>2. ConnInv'
    BY <1>0 DEF ClientInv, ConnInv
<1>3. ASSUME NEW c \in Clients, Fetches(c) \/ HasReturned(c)
      PROVE  /\ Allowed(c) \subseteq Allowed(c)'
             /\ \A m : Certain(c, m) => Certain(c, m)'
    BY <1>0, <1>3, Carry
<1>4. ReplyInv'
    BY <1>0, <1>3 DEF ClientInv, ReplyInv, Fetches
<1>5. DataInv'
    <2> SUFFICES ASSUME NEW c \in Clients
                 PROVE  /\ pc[c] = "work" /\ command[c] = "features" =>
                              Certain(c, retProfiled[c])'
                        /\ HasReturned(c) => /\ Certain(c, retProfiled[c])'
                                             /\ retFeatures[c] \subseteq Allowed(c)'
        BY <1>0 DEF DataInv, HasReturned
    <2> QED BY <1>0, <1>3 DEF ClientInv, DataInv, Fetches
<1> QED BY <1>1, <1>2, <1>4, <1>5 DEF ClientInv

(* The results of a client whose worker is left alone stay what they were. *)
LEMMA HoldsStill ==
    ASSUME NEW d, HoldsOwn(d), Grows(workerID[d]),
           UNCHANGED <<workerID, program, number>>,
           profile'[workerID[d]] = profile[workerID[d]], feats'[workerID[d]] = feats[workerID[d]]
    PROVE  HoldsOwn(d)'
<1>1. /\ Allowed(d) \subseteq Allowed(d)'
      /\ \A m : Certain(d, m) => Certain(d, m)'
    BY Carry
<1>2. Certain(d, profile[workerID[d]][program[d]])'
    BY <1>1 DEF HoldsOwn, Certain
<1> QED BY <1>1, <1>2 DEF HoldsOwn, Certain

(* A worker begins with the request in its listen queue. *)
LEMMA AcceptTargetInv ==
    ASSUME EnvInv, NEW w \in Workers, AcceptTarget(w)
    PROVE  EnvInv'
<1> USE PoolAssumption DEF EnvInv
<1> DEFINE r == Head(queue[w])
           j == [tag |-> [client |-> r.client, number |-> r.number], target |-> r.target]
<1>0. /\ serving[w] = None /\ queue[w] # <<>> /\ r.command = "target"
      /\ serving' = [serving EXCEPT ![w] = j]
      /\ queue' = [queue EXCEPT ![w] = Tail(queue[w])]
      /\ strayed' = [strayed EXCEPT ![w] = FALSE]
      /\ UNCHANGED <<pc, workerID, status, program, command, number, tcp, reply, up,
                     profile, feats, left>>
      /\ UNCHANGED <<poolVars, clientVars>>
    BY DEF AcceptTarget, Accepts, Service!Take, poolVars, clientVars
<1>a. /\ queue[w] = <<r>> /\ r \in AnyRequest
      /\ WaitsFor(r.client, w)
      /\ r.command = command[r.client] /\ r.number = number[r.client]
      /\ r.target = program[r.client]
    BY <1>0 DEF QueuedInv, Shapes
<1>b. /\ queue'[w] = <<>> /\ queue' \in [Workers -> Seq(AnyRequest)]
      /\ \A v \in Workers : v # w => queue'[v] = queue[v]
    BY <1>0, <1>a DEF Shapes
<1>c. /\ serving'[w] = j /\ \A v \in Workers : v # w => serving'[v] = serving[v]
      /\ j \in [tag : AnyTag, target : Nat]
    BY <1>0, <1>a DEF Shapes, AnyRequest, AnyTag
<1>d. j.tag.client = r.client /\ j.tag = TagOf(r.client) /\ j.target = program[r.client]
    BY <1>a DEF TagOf
<1>e. ASSUME NEW d \in Clients, Fetches(d) \/ HasReturned(d)
      PROVE  Grows(workerID[d])
    <2>1. workerID[d] # w
        BY <1>0, <1>e, BusyIsAlone
    <2> QED BY <2>1, <1>0 DEF Grows, Shapes
<1>f. strayed' \in [Workers -> BOOLEAN]
    BY <1>0 DEF Shapes
<1> HIDE DEF j, r
<1>1. ClientInv'
    BY <1>0, <1>e, UnchangedClientInv DEF ClientInv
<1>2. Shapes'
    BY <1>0, <1>b, <1>c, <1>f DEF Shapes, clientVars
<1>3. ServedInv'
    <2> SUFFICES ASSUME NEW v \in Workers, serving'[v] # None
                 PROVE  /\ WaitsFor(serving'[v].tag.client, v)
                        /\ command[serving'[v].tag.client] = "target"
                        /\ serving'[v].tag = TagOf(serving'[v].tag.client)
                        /\ serving'[v].target = program[serving'[v].tag.client]
                        /\ queue'[v] = <<>>
        BY <1>0 DEF ServedInv, WaitsFor, TagOf
    <2>1. CASE v = w
        BY <2>1, <1>0, <1>a, <1>b, <1>c, <1>d
    <2>2. CASE v # w
        BY <2>2, <1>b, <1>c DEF ServedInv
    <2> QED BY <2>1, <2>2
<1>4. QueuedInv'
    BY <1>0, <1>b DEF QueuedInv, WaitsFor
<1>5. OwnInv'
    <2> SUFFICES ASSUME NEW d \in Clients, Fetches(d) PROVE HoldsOwn(d)'
        BY <1>0 DEF OwnInv, Fetches
    <2> QED BY <1>0, <1>e, HoldsStill DEF OwnInv
<1> QED BY <1>1, <1>2, <1>3, <1>4, <1>5 DEF ClientInv

(* A worker at work touches only the results of its own client. *)
LEMMA ServingInv ==
    ASSUME EnvInv, NEW w \in Workers, serving[w] # None,
           NEW m \in SUBSET AnyTag, NEW f \in SUBSET AnyTag, NEW b \in BOOLEAN,
           profile' = [profile EXCEPT ![w][serving[w].target] = m],
           feats' = [feats EXCEPT ![w] = f],
           strayed' = [strayed EXCEPT ![w] = b],
           UNCHANGED <<poolVars, clientVars, up, queue, serving, left>>
    PROVE  EnvInv'
<1> USE DEF EnvInv
<1>0. /\ UNCHANGED <<pc, workerID, status, program, command, number, tcp, reply>>
      /\ UNCHANGED <<retProfiled, retFeatures>>
    BY DEF poolVars, clientVars
<1>a. WaitsFor(serving[w].tag.client, w) /\ serving[w].target = program[serving[w].tag.client]
    BY DEF ServedInv
<1>b. serving[w].target \in Programs
    BY <1>a, WaitsForItsWorker, AtWork
<1>c. /\ profile' \in [Workers -> [Programs -> SUBSET AnyTag]]
      /\ feats' \in [Workers -> SUBSET AnyTag] /\ strayed' \in [Workers -> BOOLEAN]
    BY <1>b DEF Shapes
<1>d. \A v \in Workers : v # w =>
        profile'[v] = profile[v] /\ feats'[v] = feats[v] /\ strayed'[v] = strayed[v]
    BY DEF Shapes
<1>e. ASSUME NEW d \in Clients, Fetches(d) \/ HasReturned(d)
      PROVE  workerID[d] \in Workers /\ workerID[d] # w /\ Grows(workerID[d])
    <2>1. workerID[d] # w
        BY <1>e, BusyIsAlone
    <2>2. workerID[d] \in Workers
        BY <1>e DEF IInv, HasWorker, Hiring, Fetches, HasReturned
    <2> QED BY <2>1, <2>2, <1>d DEF Grows
<1>1. ClientInv'
    BY <1>e, UnchangedClientInv DEF ClientInv
<1>2. Shapes'
    BY <1>0, <1>c DEF Shapes
<1>3. ServedInv' /\ QueuedInv'
    BY <1>0 DEF ServedInv, QueuedInv, WaitsFor, TagOf
<1>4. OwnInv'
    <2> SUFFICES ASSUME NEW d \in Clients, Fetches(d) PROVE HoldsOwn(d)'
        BY <1>0 DEF OwnInv, Fetches
    <2> QED BY <1>0, <1>d, <1>e, HoldsStill DEF OwnInv
<1> QED BY <1>1, <1>2, <1>3, <1>4 DEF ClientInv

(* What is in the files, and what a job writes to them. *)
LEMMA FileTypes ==
    ASSUME EnvInv, NEW w \in Workers, serving[w] # None
    PROVE  /\ serving[w].tag \in AnyTag /\ serving[w].target \in Programs
           /\ profile[w][serving[w].target] \in SUBSET AnyTag /\ feats[w] \in SUBSET AnyTag
           /\ Service!Measurements \subseteq SUBSET AnyTag
<1>1. /\ WaitsFor(serving[w].tag.client, w) /\ serving[w].target = program[serving[w].tag.client]
      /\ serving[w].tag \in AnyTag
    BY DEF EnvInv, ServedInv, Shapes
<1>2. serving[w].target \in Programs
    BY <1>1, WaitsForItsWorker, AtWork DEF EnvInv
<1>3. Tags \subseteq AnyTag
    BY PoolAssumption, FaultsAssumption DEF Tags, AnyTag
<1> QED BY <1>1, <1>2, <1>3 DEF EnvInv, Shapes, Service!Measurements

(* The job writes its results. *)
LEMMA WorkOnInv ==
    ASSUME EnvInv, NEW w \in Workers, WorkOn(w)
    PROVE  EnvInv'
<1>0. /\ serving[w] # None
      /\ UNCHANGED <<poolVars, clientVars, up, queue, serving, left>> /\ strayed' = strayed
    BY DEF WorkOn, Service!Work
<1>1. PICK m \in {profile[w][serving[w].target], {}, {serving[w].tag}} :
            profile' = [profile EXCEPT ![w][serving[w].target] = m]
    BY DEF WorkOn, Service!Work
<1>2. PICK f \in {feats[w], {}, feats[w] \cup {serving[w].tag}} :
            feats' = [feats EXCEPT ![w] = f]
    BY DEF WorkOn, Service!Work
<1>3. m \in SUBSET AnyTag /\ f \in SUBSET AnyTag
    BY <1>0, FileTypes
<1>4. strayed[w] \in BOOLEAN /\ strayed' = [strayed EXCEPT ![w] = strayed[w]]
    BY <1>0 DEF EnvInv, Shapes
<1> QED BY <1>0, <1>1, <1>2, <1>3, <1>4, ServingInv

(* The job measures what is not its own. *)
LEMMA StrayOnInv ==
    ASSUME EnvInv, NEW w \in Workers, StrayOn(w)
    PROVE  EnvInv'
<1>0. /\ serving[w] # None
      /\ UNCHANGED <<poolVars, clientVars, up, queue, serving, left>> /\ feats' = feats
      /\ strayed' = [strayed EXCEPT ![w] = TRUE]
    BY DEF StrayOn, Service!Stray
<1>1. PICK m \in Service!Measurements \cup {profile[w][serving[w].target]} :
            profile' = [profile EXCEPT ![w][serving[w].target] = m]
    BY DEF StrayOn, Service!Stray
<1>2. m \in SUBSET AnyTag /\ feats[w] \in SUBSET AnyTag
    BY <1>0, FileTypes
<1>3. feats' = [feats EXCEPT ![w] = feats[w]]
    BY <1>0 DEF EnvInv, Shapes
<1> QED BY <1>0, <1>1, <1>2, <1>3, ServingInv

(***************************************************************************)
(* A survivor writes the results of its job, which every client of that    *)
(* worker has to expect.                                                   *)
(***************************************************************************)
LEMMA LateOnInv ==
    ASSUME EnvInv, NEW w \in Workers, LateOn(w)
    PROVE  EnvInv'
<1> USE DEF EnvInv
<1>0. /\ UNCHANGED <<poolVars, clientVars, up, queue, serving, left, strayed>>
      /\ UNCHANGED <<pc, workerID, status, program, command, number, tcp, reply>>
      /\ UNCHANGED <<retProfiled, retFeatures>>
    BY DEF LateOn, Service!Late, poolVars, clientVars
<1>1. PICK j \in left[w] :
        \/ profile' = [profile EXCEPT ![w][j.target] = {j.tag}] /\ feats' = feats
        \/ feats' = [feats EXCEPT ![w] = feats[w] \cup {j.tag}] /\ profile' = profile
    BY DEF LateOn, Service!Late
<1>2. j.tag \in AnyTag /\ j.target \in Programs
    BY DEF Shapes, AnyJob
<1>a. /\ profile \in [Workers -> [Programs -> SUBSET AnyTag]]
      /\ feats \in [Workers -> SUBSET AnyTag]
      /\ w \in Workers
    BY DEF Shapes
<1>3. /\ profile' \in [Workers -> [Programs -> SUBSET AnyTag]]
      /\ \A v \in Workers, t \in Programs :
            profile'[v][t] = profile[v][t] \/ (v = w /\ profile'[v][t] = {j.tag})
    <2>1. CASE profile' = profile
        BY ONLY <2>1, <1>a
    <2>2. CASE profile' = [profile EXCEPT ![w][j.target] = {j.tag}]
        BY ONLY <2>2, <1>2, <1>a
    <2> QED BY <1>1, <2>1, <2>2
<1>4. /\ feats' \in [Workers -> SUBSET AnyTag]
      /\ \A v \in Workers : feats'[v] = feats[v] \/ (v = w /\ feats'[v] = feats[v] \cup {j.tag})
    BY ONLY <1>1, <1>2, <1>a
<1>5. \A d \in Clients : Grows(workerID[d])
    BY <1>0 DEF Grows
<1>6. ClientInv'
    BY <1>0, <1>5, UnchangedClientInv DEF ClientInv
<1>7. Shapes'
    BY <1>0, <1>3, <1>4 DEF Shapes
<1>8. ServedInv' /\ QueuedInv'
    BY <1>0 DEF ServedInv, QueuedInv, WaitsFor, TagOf
<1>9. OwnInv'
    <2> SUFFICES ASSUME NEW d \in Clients, Fetches(d) PROVE HoldsOwn(d)'
        BY <1>0 DEF OwnInv, Fetches
    <2>1. workerID[d] \in Workers /\ program[d] \in Programs
        BY AtWork DEF Fetches
    <2>2. HoldsOwn(d) /\ Allowed(d)' = Allowed(d) /\ strayed' = strayed
        BY <1>0 DEF OwnInv, Allowed, TagOf
    <2>3. workerID[d] = w => j.tag \in Allowed(d)
        BY DEF Allowed
    <2>4. feats'[workerID[d]] \subseteq Allowed(d)
        BY <1>4, <2>1, <2>2, <2>3 DEF HoldsOwn
    <2>5. Certain(d, profile'[workerID[d]][program[d]])
        BY <1>3, <2>1, <2>2, <2>3 DEF HoldsOwn, Certain
    <2> QED BY <1>0, <2>2, <2>4, <2>5 DEF HoldsOwn, Certain
<1> QED BY <1>6, <1>7, <1>8, <1>9 DEF ClientInv

(***************************************************************************)
(* Worker w gets rid of the request it serves or has queued: client c is   *)
(* sent the answer m, or its connection is closed.                         *)
(***************************************************************************)
Gone(c, w, m) ==
    /\ WaitsFor(c, w)
    /\ m \in Replies /\ reply' = [reply EXCEPT ![c] = m]
    /\ command[c] = "target" =>
          m \in {Closed, Reset, "Failed"} \/ (m = "Success" /\ HoldsOwn(c)')
    /\ command[c] # "target" =>
          /\ UNCHANGED <<left, strayed>>
          /\ m # Closed /\ m # Reset =>
                /\ command[c] = "profiled" => Certain(c, m)
                /\ command[c] = "features" => m \subseteq Allowed(c)
    /\ serving'[w] = None /\ queue'[w] = <<>>
    /\ serving' = [v \in Workers |-> serving'[v]] /\ queue' = [v \in Workers |-> queue'[v]]
    /\ \A v \in Workers : v # w => serving'[v] = serving[v] /\ queue'[v] = queue[v]
    /\ left' \in [Workers -> SUBSET AnyJob] /\ strayed' \in [Workers -> BOOLEAN]
    /\ \A v \in Workers : v # w => left'[v] = left[v] /\ strayed'[v] = strayed[v]
    /\ up' \in [Workers -> BOOLEAN]
    /\ UNCHANGED <<SharedWorkerDict, WorkerLock, pc, workerID, status, program,
                   command, number, tcp, retProfiled, retFeatures, profile, feats>>

(* The client is told once, and what it is told is its own. *)
LEMMA GoneInv ==
    ASSUME EnvInv, NEW w \in Workers, NEW c, NEW m, Gone(c, w, m)
    PROVE  EnvInv'
<1> USE PoolAssumption, ReplyAssumption DEF EnvInv, Gone
<1>a. c \in Clients /\ pc[c] = "work" /\ workerID[c] = w /\ reply[c] = Waiting /\ tcp[c] = w
    BY WaitsForItsWorker DEF WaitsFor
<1>c. /\ reply' \in [Clients -> Replies] /\ reply'[c] = m
      /\ \A d \in Clients : d # c => reply'[d] = reply[d]
    BY <1>a DEF Shapes
<1>d. \A v \in Workers : v # w =>
        /\ serving[v] # None => serving[v].tag.client # c
        /\ queue[v] # <<>> => Head(queue[v]).client # c
    BY <1>a DEF ServedInv, QueuedInv, WaitsFor
<1>e. ASSUME NEW d \in Clients, \/ d # c /\ (Fetches(d) \/ HasReturned(d))
                                \/ d = c /\ command[c] # "target"
      PROVE  /\ left'[workerID[d]] = left[workerID[d]]
             /\ strayed'[workerID[d]] = strayed[workerID[d]]
    <2>1. CASE d # c /\ (Fetches(d) \/ HasReturned(d))
        <3>1. workerID[d] \in Workers /\ workerID[d] # w
            BY <1>a, <2>1 DEF IInv, HasWorker, ExclusiveHire, Hiring, Fetches, HasReturned
        <3> QED BY <3>1
    <2> QED BY <1>e, <2>1
<1>f. ASSUME NEW d \in Clients, \/ d # c /\ (Fetches(d) \/ HasReturned(d))
                                \/ d = c /\ command[c] # "target"
      PROVE  Allowed(d)' = Allowed(d) /\ \A x : Certain(d, x)' <=> Certain(d, x)
    BY <1>e, <1>f DEF Allowed, Certain, TagOf
<1>1. IInv'
    BY UnchangedIInv
<1>2. Shapes'
    <2>1. serving' \in [Workers -> [tag : AnyTag, target : Nat] \cup {None}]
        BY DEF Shapes
    <2>2. queue' \in [Workers -> Seq(AnyRequest)]
        <3>1. \A v \in Workers : queue[v] \in Seq(AnyRequest)
            BY DEF Shapes
        <3>2. <<>> \in Seq(AnyRequest)
            OBVIOUS
        <3>3. ASSUME NEW v \in Workers PROVE queue'[v] \in Seq(AnyRequest)
            <4>1. CASE v = w
                BY <3>2, <4>1
            <4>2. CASE v # w
                BY <3>1, <4>2
            <4> QED BY <4>1, <4>2
        <3> QED BY <3>3
    <2> QED BY <2>1, <2>2, <1>c DEF Shapes
<1>3. ConnInv'
    BY <1>a, <1>c DEF ConnInv
<1>4. ServedInv'
    <2> SUFFICES ASSUME NEW v \in Workers, serving'[v] # None
                 PROVE  /\ WaitsFor(serving[v].tag.client, v)'
                        /\ command[serving'[v].tag.client] = "target"
                        /\ serving'[v].tag = TagOf(serving'[v].tag.client)
                        /\ serving'[v].target = program[serving'[v].tag.client]
                        /\ queue'[v] = <<>>
        BY DEF ServedInv, WaitsFor, TagOf
    <2>1. v # w /\ serving'[v] = serving[v] /\ queue'[v] = queue[v]
        OBVIOUS
    <2> QED BY <2>1, <1>c, <1>d DEF ServedInv, WaitsFor
<1>5. QueuedInv'
    BY <1>c, <1>d DEF QueuedInv, WaitsFor
<1>6. OwnInv'
    <2> SUFFICES ASSUME NEW d \in Clients, Fetches(d)' PROVE HoldsOwn(d)'
        BY DEF OwnInv
    <2>1. CASE d # c
        <3>1. Fetches(d)
            BY <1>c, <2>1 DEF Fetches
        <3> QED BY <2>1, <3>1, <1>f DEF OwnInv, HoldsOwn
    <2>2. CASE d = c /\ command[c] = "target"
        BY <1>c, <2>2 DEF Fetches
    <2>3. CASE d = c /\ command[c] # "target"
        BY <1>a, <1>f, <2>3 DEF OwnInv, Fetches, HoldsOwn
    <2> QED BY <2>1, <2>2, <2>3
<1>7. ReplyInv'
    <2> SUFFICES ASSUME NEW d \in Clients
                 PROVE  /\ command[d] = "target" =>
                              reply'[d] \in {Waiting, Closed, Reset, "Success", "Failed"}
                        /\ pc[d] = "work" /\ reply'[d] \notin {Waiting, Closed, Reset} =>
                              /\ command[d] = "profiled" => Certain(d, reply[d])'
                              /\ command[d] = "features" => reply'[d] \subseteq Allowed(d)'
        BY DEF ReplyInv
    <2>1. CASE d # c
        BY <2>1, <1>c, <1>f DEF ReplyInv, Fetches
    <2>2. CASE d = c
        BY <2>2, <1>a, <1>c, <1>f
    <2> QED BY <2>1, <2>2
<1>8. DataInv'
    <2> SUFFICES ASSUME NEW d \in Clients
                 PROVE  /\ pc[d] = "work" /\ command[d] = "features" =>
                              Certain(d, retProfiled[d])'
                        /\ HasReturned(d) => /\ Certain(d, retProfiled[d])'
                                             /\ retFeatures[d] \subseteq Allowed(d)'
        BY DEF DataInv, HasReturned
    <2>1. CASE d # c
        BY <2>1, <1>f DEF DataInv, Fetches
    <2>2. CASE d = c
        BY <2>2, <1>a, <1>f DEF DataInv, HasReturned
    <2> QED BY <2>1, <2>2
<1> QED BY <1>1, <1>2, <1>3, <1>4, <1>5, <1>6, <1>7, <1>8

(* The end of a "target" request, whatever the client is told. *)
LEMMA FinishInv ==
    ASSUME EnvInv, NEW w \in Workers, NEW s, Service!Finish(w, s),
           NEW m \in {Closed, "Success", "Failed"}, m = "Success" => s = "Success",
           reply' = [reply EXCEPT ![serving[w].tag.client] = m],
           up' \in [Workers -> BOOLEAN],
           queue' = [v \in Workers |-> queue'[v]],
           \A v \in Workers : queue'[v] = queue[v],
           UNCHANGED <<SharedWorkerDict, WorkerLock, pc, workerID, status, program,
                       command, number, tcp, retProfiled, retFeatures>>
    PROVE  EnvInv'
<1>a. PICK c : c = serving[w].tag.client
    OBVIOUS
<1>0. /\ serving[w] # None
      /\ serving' = [serving EXCEPT ![w] = None]
      /\ left' \in {left, [left EXCEPT ![w] = left[w] \cup {serving[w]}]}
      /\ profile' = profile /\ feats' = feats
    BY DEF Service!Finish, Service!Over
<1>b. PICK b \in BOOLEAN :
        /\ strayed' = [strayed EXCEPT ![w] = b]
        /\ s = "Success" => /\ feats[w] \subseteq Service!Own(w)
                            /\ b \/ profile[w][serving[w].target] \subseteq Service!Own(w)
    <2>1. strayed[w] \in BOOLEAN
        BY DEF EnvInv, Shapes
    <2> QED BY <2>1 DEF Service!Finish
<1>1. /\ WaitsFor(c, w) /\ command[c] = "target"
      /\ serving[w].tag = TagOf(c) /\ serving[w].target = program[c]
      /\ queue[w] = <<>>
    BY <1>0, <1>a DEF EnvInv, ServedInv
<1>2. workerID[c] = w
    BY <1>1, WaitsForItsWorker
<1>c. serving[w] \in AnyJob
    BY <1>0, FileTypes DEF AnyJob, EnvInv, Shapes
<1>d. /\ left' \in [Workers -> SUBSET AnyJob] /\ strayed' \in [Workers -> BOOLEAN]
      /\ \A v \in Workers : v # w => left'[v] = left[v] /\ strayed'[v] = strayed[v]
      /\ strayed'[w] = b /\ left[w] \subseteq left'[w]
    <2>1. /\ left \in [Workers -> SUBSET AnyJob] /\ strayed \in [Workers -> BOOLEAN]
          /\ w \in Workers /\ b \in BOOLEAN
        BY <1>b DEF EnvInv, Shapes
    <2>2. /\ left' \in {left, [left EXCEPT ![w] = left[w] \cup {serving[w]}]}
          /\ strayed' = [strayed EXCEPT ![w] = b]
        BY <1>0, <1>b
    <2> QED BY ONLY <1>c, <2>1, <2>2
<1>3. m = "Success" => HoldsOwn(c)'
    <2>1. Service!Own(w) = Allowed(c)
        BY <1>1, <1>2 DEF Service!Own, Allowed
    <2>2. Allowed(c) \subseteq Allowed(c)'
        BY <1>2, <1>d DEF Allowed, TagOf
    <2> QED BY <1>0, <1>1, <1>2, <1>b, <1>d, <2>1, <2>2 DEF HoldsOwn, Certain
<1>4. /\ serving'[w] = None /\ queue'[w] = <<>>
      /\ serving' = [v \in Workers |-> serving'[v]]
      /\ \A v \in Workers : v # w => serving'[v] = serving[v]
    BY <1>0, <1>1 DEF EnvInv, Shapes
<1>5. m \in {Closed, Reset, "Failed"} \/ (m = "Success" /\ HoldsOwn(c)')
    BY <1>3
<1>6. m \in Replies /\ reply' = [reply EXCEPT ![c] = m]
    BY <1>a DEF Replies
<1>7. UNCHANGED <<SharedWorkerDict, WorkerLock, pc, workerID, status, program,
                  command, number, tcp, retProfiled, retFeatures, profile, feats>>
    BY <1>0
<1>9. WaitsFor(c, w) /\ command[c] = "target"
    BY <1>1
<1>10. Gone(c, w, m)
    BY <1>d, <1>4, <1>5, <1>6, <1>7, <1>9 DEF Gone
<1> QED BY <1>10, GoneInv

(* What the request at the head of a worker's queue asks for. *)
Asked(w) ==
    LET r == Head(queue[w])
    IN  IF r.command = "profiled" THEN profile[w][r.target] ELSE feats[w]

(* The client at the head of the queue gets m for its query. *)
QueryGets(w, m) ==
    /\ Accepts(w) /\ Head(queue[w]).command # "target"
    /\ Deliver(Head(queue[w]).client, m)
    /\ queue' = [queue EXCEPT ![w] = Tail(@)]
    /\ UNCHANGED <<poolVars, command, number, tcp, retProfiled, retFeatures,
                   up, serving, profile, feats, left, strayed>>

(***************************************************************************)
(* The files a client asks for are those of its job, so the answer to a    *)
(* query, or its closed connection, keeps the invariant.                   *)
(***************************************************************************)
LEMMA QueryInv ==
    ASSUME EnvInv, NEW w \in Workers, NEW m, m = Closed \/ m = Asked(w), QueryGets(w, m)
    PROVE  EnvInv'
<1> USE DEF EnvInv
<1> DEFINE r == Head(queue[w])
<1>a. PICK c : c = r.client
    OBVIOUS
<1>b. m = Closed \/ m = IF r.command = "profiled" THEN profile[w][r.target] ELSE feats[w]
    BY DEF Asked
<1>0. /\ serving[w] = None /\ queue[w] # <<>> /\ r.command # "target"
      /\ reply' = [reply EXCEPT ![c] = m]
      /\ queue' = [queue EXCEPT ![w] = Tail(queue[w])]
      /\ UNCHANGED <<SharedWorkerDict, WorkerLock, pc, workerID, status, program>>
      /\ UNCHANGED <<command, number, tcp, retProfiled, retFeatures,
                     up, serving, profile, feats, left, strayed>>
    BY <1>a DEF QueryGets, Accepts, Deliver, poolVars
<1>1. /\ queue[w] = <<r>> /\ WaitsFor(c, w)
      /\ r.command = command[c] /\ r.target = program[c]
    BY <1>0, <1>a DEF QueuedInv
<1>2. c \in Clients /\ pc[c] = "work" /\ workerID[c] = w
    BY <1>1, WaitsForItsWorker
<1>3. HoldsOwn(c)
    BY <1>0, <1>1, <1>2 DEF OwnInv, Fetches
<1>4. /\ m \in Replies
      /\ m # Closed /\ m # Reset => /\ command[c] = "profiled" => Certain(c, m)
                                    /\ command[c] = "features" => m \subseteq Allowed(c)
    <2>1. CASE m = Closed
        BY <2>1 DEF Replies
    <2>2. CASE m # Closed
        <3>1. r.command \in {"profiled", "features"} /\ r.target \in Programs
            BY <1>0, <1>1, <1>2, AtWork DEF Shapes, Commands
        <3>2. m \in SUBSET AnyTag
            BY <1>b, <2>2, <3>1 DEF Shapes
        <3> QED BY <1>1, <1>2, <1>3, <1>b, <2>2, <3>1, <3>2 DEF HoldsOwn, Replies
    <2> QED BY <2>1, <2>2
<1>5. left' = left /\ strayed' = strayed /\ command[c] # "target"
    BY <1>0, <1>1
<1>6. /\ queue'[w] = <<>>
      /\ \A v \in Workers : v # w => queue'[v] = queue[v]
      /\ queue' = [v \in Workers |-> queue'[v]]
    <2>1. PICK x : queue[w] = <<x>>
        BY <1>1
    <2>2. Tail(queue[w]) = <<>>
        BY <2>1
    <2> QED BY <2>2, <1>0 DEF Shapes
<1>8. /\ serving'[w] = None /\ queue'[w] = <<>>
      /\ serving' = [v \in Workers |-> serving'[v]]
      /\ queue' = [v \in Workers |-> queue'[v]]
      /\ \A v \in Workers : v # w => serving'[v] = serving[v] /\ queue'[v] = queue[v]
      /\ up' \in [Workers -> BOOLEAN]
      /\ left' \in [Workers -> SUBSET AnyJob] /\ strayed' \in [Workers -> BOOLEAN]
    BY <1>0, <1>6 DEF Shapes
<1>7. reply' = [reply EXCEPT ![c] = m] /\ WaitsFor(c, w)
    BY <1>0, <1>1
<1> HIDE DEF EnvInv, r
<1>9. Gone(c, w, m)
    BY <1>0, <1>4, <1>5, <1>7, <1>8 DEF Gone
<1> QED BY <1>9, GoneInv

(* The worker answers a query. *)
LEMMA AnswerQueryInv ==
    ASSUME EnvInv, NEW w \in Workers, AnswerQuery(w)
    PROVE  EnvInv'
<1>1. PICK m : m = Asked(w)
    OBVIOUS
<1>2. QueryGets(w, m)
    BY <1>1 DEF AnswerQuery, QueryGets, Asked
<1> QED BY <1>1, <1>2, QueryInv

(* The worker drops the connection of a query. *)
LEMMA DropQueryInv ==
    ASSUME EnvInv, NEW w \in Workers, DropQuery(w)
    PROVE  EnvInv'
<1>1. QueryGets(w, Closed)
    BY DEF DropQuery, QueryGets
<1> QED BY <1>1, QueryInv

(* The worker answers a "target" request. *)
LEMMA AnswerTargetInv ==
    ASSUME EnvInv, NEW w \in Workers, NEW s \in {"Success", "Failed"}, AnswerTarget(w, s)
    PROVE  EnvInv'
<1>1. /\ Service!Finish(w, s)
      /\ reply' = [reply EXCEPT ![serving[w].tag.client] = s]
      /\ up' = up /\ queue' = queue
      /\ UNCHANGED <<SharedWorkerDict, WorkerLock, pc, workerID, status, program>>
      /\ UNCHANGED <<command, number, tcp, retProfiled, retFeatures>>
    BY DEF AnswerTarget, Deliver, poolVars
<1>2. up' \in [Workers -> BOOLEAN] /\ queue' = [v \in Workers |-> queue'[v]]
    BY <1>1 DEF EnvInv, Shapes
<1>3. s \in {Closed, "Success", "Failed"}
    OBVIOUS
<1> QED BY <1>1, <1>2, <1>3, FinishInv

(* The worker drops the connection of a "target" request. *)
LEMMA DropTargetInv ==
    ASSUME EnvInv, NEW w \in Workers, DropTarget(w)
    PROVE  EnvInv'
<1>1. /\ Service!Finish(w, "closed")
      /\ reply' = [reply EXCEPT ![serving[w].tag.client] = Closed]
      /\ up' = up /\ queue' = queue
      /\ UNCHANGED <<SharedWorkerDict, WorkerLock, pc, workerID, status, program>>
      /\ UNCHANGED <<command, number, tcp, retProfiled, retFeatures>>
    BY DEF DropTarget, Deliver, poolVars
<1>2. up' \in [Workers -> BOOLEAN] /\ queue' = [v \in Workers |-> queue'[v]]
    BY <1>1 DEF EnvInv, Shapes
<1>3. Closed \in {Closed, "Success", "Failed"} /\ Closed # "Success"
    BY ReplyAssumption
<1> QED BY <1>1, <1>2, <1>3, FinishInv

(* A daemon that is started, or stops with nothing to do. *)
LEMMA OnlyUpInv ==
    ASSUME EnvInv, up' \in [Workers -> BOOLEAN],
           UNCHANGED <<poolVars, clientVars, queue, serving, profile, feats, left, strayed>>
    PROVE  EnvInv'
<1> USE DEF EnvInv
<1>0. /\ UNCHANGED <<pc, workerID, program>>
      /\ UNCHANGED <<command, number, tcp, reply, retProfiled, retFeatures>>
    BY DEF poolVars, clientVars
<1>1. ClientInv'
    BY UnchangedClientInv DEF ClientInv, Grows
<1>2. Shapes'
    BY <1>0 DEF Shapes
<1>3. ServedInv' /\ QueuedInv'
    BY <1>0 DEF ServedInv, QueuedInv, WaitsFor, TagOf
<1>4. OwnInv'
    BY <1>0 DEF OwnInv, Fetches, HoldsOwn, Certain, Allowed, TagOf
<1> QED BY <1>1, <1>2, <1>3, <1>4 DEF ClientInv

(* The daemon stops: closes or resets the connection it has. *)
LEMMA StopInv ==
    ASSUME EnvInv, NEW w \in Workers, Stop(w)
    PROVE  EnvInv'
<1> USE DEF EnvInv
<1>0. /\ up' = [up EXCEPT ![w] = FALSE]
      /\ reply' = [c \in Clients |->
                    IF serving[w] # None /\ serving[w].tag.client = c THEN Closed
                    ELSE IF \E i \in DOMAIN queue[w] : queue[w][i].client = c THEN Reset
                    ELSE reply[c]]
      /\ queue' = [queue EXCEPT ![w] = <<>>]
      /\ UNCHANGED poolVars
      /\ UNCHANGED <<SharedWorkerDict, WorkerLock, pc, workerID, status, program>>
      /\ UNCHANGED <<command, number, tcp, retProfiled, retFeatures>>
    BY DEF Stop, poolVars
<1>a. /\ up' \in [Workers -> BOOLEAN]
      /\ queue' = [v \in Workers |-> queue'[v]] /\ queue'[w] = <<>>
      /\ \A v \in Workers : v # w => queue'[v] = queue[v]
    BY <1>0 DEF Shapes
<1>b. reply = [c \in Clients |-> reply[c]]
    BY DEF Shapes
<1>1. CASE serving[w] # None
    <2> DEFINE c == serving[w].tag.client
    <2>1. queue[w] = <<>> /\ WaitsFor(c, w)
        BY <1>1 DEF ServedInv
    <2>2. Service!Finish(w, "closed")
        BY <1>1 DEF Stop
    <2>3. reply' = [reply EXCEPT ![c] = Closed]
        BY <1>0, <1>1, <1>b, <2>1
    <2>4. \A v \in Workers : queue'[v] = queue[v]
        BY <1>a, <2>1
    <2>5. Closed \in {Closed, "Success", "Failed"} /\ Closed # "Success"
        BY ReplyAssumption
    <2> HIDE DEF EnvInv
    <2> QED BY <1>0, <1>a, <2>2, <2>3, <2>4, <2>5, FinishInv
<1>2. CASE serving[w] = None /\ queue[w] # <<>>
    <2>a. PICK c : c = Head(queue[w]).client
        OBVIOUS
    <2>1. queue[w] = <<Head(queue[w])>> /\ WaitsFor(c, w)
        BY <1>2, <2>a DEF QueuedInv
    <2>2. UNCHANGED <<serving, profile, feats, left, strayed>>
        BY <1>2 DEF Stop
    <2>3. DOMAIN queue[w] = {1} /\ queue[w][1] = Head(queue[w])
        BY <2>1
    <2>4. reply' = [reply EXCEPT ![c] = Reset]
        BY <1>0, <1>2, <1>b, <2>3, <2>a
    <2>5. /\ serving'[w] = None /\ serving' = [v \in Workers |-> serving'[v]]
          /\ \A v \in Workers : v # w => serving'[v] = serving[v] /\ queue'[v] = queue[v]
          /\ left' \in [Workers -> SUBSET AnyJob] /\ strayed' \in [Workers -> BOOLEAN]
        BY <1>2, <1>a, <2>2 DEF Shapes
    <2>6. Reset \in Replies
        BY DEF Replies
    <2> HIDE DEF EnvInv
    <2>7. Gone(c, w, Reset)
        BY <1>0, <1>a, <2>1, <2>2, <2>4, <2>5, <2>6 DEF Gone
    <2> QED BY <2>7, GoneInv
<1>3. CASE serving[w] = None /\ queue[w] = <<>>
    <2>1. UNCHANGED <<serving, profile, feats, left, strayed>>
        BY <1>3 DEF Stop
    <2>2. queue' = queue
        BY <1>0, <1>3 DEF Shapes
    <2>3. reply' = reply
        BY <1>0, <1>3, <1>b
    <2> QED BY <1>0, <1>a, <2>1, <2>2, <2>3, OnlyUpInv DEF clientVars
<1> QED BY <1>1, <1>2, <1>3

(* The results are removed. *)
LEMMA WipeInv ==
    ASSUME EnvInv, NEW w \in Workers, WipeResults(w)
    PROVE  EnvInv'
<1> USE DEF EnvInv
<1>0. /\ profile' = [profile EXCEPT ![w] = [t \in Programs |-> {}]]
      /\ feats' = [feats EXCEPT ![w] = {}]
      /\ UNCHANGED <<poolVars, clientVars>>
      /\ UNCHANGED <<pc, workerID, program, up, queue, serving, left, strayed>>
      /\ UNCHANGED <<command, number, tcp, reply, retProfiled, retFeatures>>
    BY DEF WipeResults, Service!Wipe, poolVars, clientVars
<1>1. ClientInv'
    BY <1>0, UnchangedClientInv DEF ClientInv, Grows
<1>2. Shapes'
    BY <1>0 DEF Shapes
<1>3. ServedInv' /\ QueuedInv'
    BY <1>0 DEF ServedInv, QueuedInv, WaitsFor, TagOf
<1>4. OwnInv'
    <2> SUFFICES ASSUME NEW d \in Clients, Fetches(d), HoldsOwn(d) PROVE HoldsOwn(d)'
        BY <1>0 DEF OwnInv, Fetches
    <2>1. workerID[d] \in Workers /\ program[d] \in Programs
        BY AtWork DEF Fetches
    <2>2. /\ profile'[workerID[d]][program[d]] \in {{}, profile[workerID[d]][program[d]]}
          /\ feats'[workerID[d]] \in {{}, feats[workerID[d]]}
        BY <2>1, <1>0 DEF Shapes
    <2> QED BY <2>2, <1>0 DEF HoldsOwn, Certain, Allowed, TagOf
<1> QED BY <1>1, <1>2, <1>3, <1>4 DEF ClientInv

-------------------------------------------------------------------------------
(* The theorems. *)

(* Nothing changes. *)
LEMMA StutterInv ==
    ASSUME EnvInv, UNCHANGED vars
    PROVE  EnvInv'
<1>1. /\ up' \in [Workers -> BOOLEAN]
      /\ UNCHANGED <<poolVars, clientVars, queue, serving, profile, feats, left, strayed>>
    BY DEF vars, daemonVars, EnvInv, Shapes
<1> QED BY <1>1, OnlyUpInv

(* EnvInv is inductive: it holds in every state of the environment. *)
THEOREM EnvInvariance == Spec => []EnvInv
<1>1. EnvInv /\ [EnvNext]_vars => EnvInv'
    <2> SUFFICES ASSUME EnvInv, [EnvNext]_vars PROVE EnvInv'
        OBVIOUS
    <2>1. CASE \E c \in Clients : ClientStep(c)
        <3>1. PICK c \in Clients : ClientStep(c)
            BY <2>1
        <3>2. CASE SendRefused(c)
            BY <3>2, RaisedInv DEF SendRefused
        <3>3. CASE ReceiveRaises(c)
            <4>1. reply[c] # Waiting
                BY <3>3, ReplyAssumption DEF ReceiveRaises
            <4> QED BY <3>3, <4>1, RaisedInv DEF ReceiveRaises
        <3> QED BY <3>1, <3>2, <3>3, PoolStepInv, SendInv, ReceiveStatusInv,
                   ReceiveProfiledInv, ReceiveFeaturesInv DEF ClientStep
    <2>2. CASE \E w \in Workers : DaemonStep(w) \/ WorkOn(w) \/ StrayOn(w) \/ DropTarget(w) \/ DropQuery(w)
                                    \/ Stop(w) \/ Start(w) \/ WipeResults(w) \/ LateOn(w)
        <3>1. PICK w \in Workers : DaemonStep(w) \/ WorkOn(w) \/ StrayOn(w) \/ DropTarget(w) \/ DropQuery(w)
                                    \/ Stop(w) \/ Start(w) \/ WipeResults(w) \/ LateOn(w)
            BY <2>2
        <3>2. CASE Start(w)
            <4>1. up' \in [Workers -> BOOLEAN]
                BY <3>2 DEF Start, EnvInv, Shapes
            <4> QED BY <3>2, <4>1, OnlyUpInv DEF Start
        <3> QED BY <3>1, <3>2, AcceptTargetInv, AnswerQueryInv, AnswerTargetInv, WorkOnInv,
                   StrayOnInv, LateOnInv, DropTargetInv, DropQueryInv, StopInv, WipeInv DEF DaemonStep
    <2>3. CASE Ended /\ UNCHANGED vars
        BY <2>3, StutterInv
    <2>4. CASE UNCHANGED vars
        BY <2>4, StutterInv
    <2> QED BY <2>1, <2>2, <2>3, <2>4 DEF EnvNext
<1> QED BY <1>1, InitEnvInv, PTL DEF Spec

(***************************************************************************)
(* A job that succeeds returns the results made for it, none, or those of  *)
(* a job of which a process survived a kill on its worker; if "make clean" *)
(* failed or no PyActor ran, the measurement may be any.  This is so for   *)
(* any number of clients, workers, programs and faults, the survivors and  *)
(* strays among them.                                                      *)
(***************************************************************************)
THEOREM ResultsAreOwn == Spec => []JobGetsOwnResults
<1>1. EnvInv => JobGetsOwnResults
    BY DEF EnvInv, DataInv, HasReturned, Certain, Allowed, JobGetsOwnResults
<1> QED BY <1>1, EnvInvariance, PTL

(* Whoever a worker serves or has queued is the process that has hired it. *)
THEOREM ServesItsHirer == Spec => []WorksForItsHirer
<1>1. EnvInv => WorksForItsHirer
    <2> SUFFICES ASSUME EnvInv, NEW w \in Workers
                 PROVE  /\ serving[w] # None =>
                              LET c == serving[w].tag.client IN
                              /\ pc[c] = "work" /\ workerID[c] = w /\ reply[c] = Waiting
                              /\ queue[w] = <<>>
                        /\ Len(queue[w]) <= 1
        BY DEF WorksForItsHirer
    <2>1. ASSUME serving[w] # None
          PROVE  LET c == serving[w].tag.client IN
                 /\ pc[c] = "work" /\ workerID[c] = w /\ reply[c] = Waiting
                 /\ queue[w] = <<>>
        <3>1. WaitsFor(serving[w].tag.client, w) /\ queue[w] = <<>>
            BY <2>1 DEF EnvInv, ServedInv
        <3> QED BY <3>1, WaitsForItsWorker DEF WaitsFor
    <2>2. Len(queue[w]) <= 1
        <3>1. CASE queue[w] = <<>>
            BY <3>1
        <3>2. CASE queue[w] # <<>>
            <4>1. PICK r : queue[w] = <<r>>
                BY <3>2 DEF EnvInv, QueuedInv
            <4> QED BY <4>1
        <3> QED BY <3>1, <3>2
    <2> QED BY <2>1, <2>2
<1> QED BY <1>1, EnvInvariance, PTL

(***************************************************************************)
(* Every step of the environment is a step of the pool, or leaves it       *)
(* alone: what is shown above of its safety holds here too.                *)
(***************************************************************************)
THEOREM EnvRefinesPool == Spec => PoolRefined
<1>1. Init => PoolInit
    BY DEF Init
<1>2. EnvInv /\ [EnvNext]_vars => [PoolNext]_poolVars
    <2> SUFFICES ASSUME EnvInv, [EnvNext]_vars PROVE [PoolNext]_poolVars
        OBVIOUS
    <2>1. CASE \E c \in Clients : ClientStep(c)
        <3>1. PICK c \in Clients : ClientStep(c)
            BY <2>1
        <3>2. ASSUME ReceiveStatus(c) PROVE Client(c) \/ UNCHANGED poolVars
            <4>1. reply[c] \in {Closed, "Success", "Failed"}
                BY <3>2 DEF ReceiveStatus, Arrived, EnvInv, ReplyInv
            <4> QED BY <3>2, <4>1 DEF ReceiveStatus, Client, Statuses
        <3>3. ASSUME ReceiveFeatures(c) PROVE Client(c)
            BY <3>3 DEF ReceiveFeatures, Client, Statuses
        <3>4. Client(c) \/ UNCHANGED poolVars
            BY <3>1, <3>2, <3>3 DEF ClientStep, PoolStep, Send, SendRefused, ReceiveRaises,
                                    ReceiveProfiled, Client
        <3> QED BY <3>4 DEF PoolNext
    <2>2. CASE \E w \in Workers : DaemonStep(w) \/ WorkOn(w) \/ StrayOn(w) \/ DropTarget(w) \/ DropQuery(w)
                                    \/ Stop(w) \/ Start(w) \/ WipeResults(w) \/ LateOn(w)
        BY <2>2 DEF DaemonStep, WorkOn, StrayOn, DropTarget, DropQuery, Stop, Start, WipeResults,
                    LateOn, AcceptTarget, AnswerQuery, AnswerTarget
    <2>3. CASE UNCHANGED vars
        BY <2>3 DEF vars
    <2> QED BY <2>1, <2>2, <2>3 DEF EnvNext
<1> QED BY <1>1, <1>2, EnvInvariance, PTL DEF Spec, PoolRefined

(* No worker has two users, whatever the daemons do. *)
THEOREM EnvHireIsExclusive == Spec => []ExclusiveHire
<1>1. EnvInv => ExclusiveHire
    BY DEF EnvInv, IInv
<1> QED BY <1>1, EnvInvariance, PTL

-------------------------------------------------------------------------------
(* The types of the environment: its bounds. *)

(***************************************************************************)
(* Whether the job for the program at hand has been sent and not been lost *)
(* with a closed connection: it will not be sent again.                    *)
(***************************************************************************)
Counted(c) ==
    \/ pc[c] = "dead"
    \/ /\ pc[c] = "work"
       /\ tcp[c] # None \/ command[c] # "target"
       /\ command[c] # "target" \/ reply[c] # Closed
    \/ pc[c] \in {"free"} \cup InFree /\ status[c] # ""

(* A client has sent one job per program, and one more per fault at most. *)
CountInv ==
    \A c \in Clients :
        number[c] <= (IF Counted(c) THEN program[c] ELSE program[c] - 1) + faults

(* A client that is connected, or fetches results, has sent a job. *)
SentInv ==
    \A c \in Clients : command[c] # "target" \/ tcp[c] # None => number[c] >= 1

(* What is kept of jobs, or on its way, is under the tags of jobs. *)
KeptInv ==
    /\ retProfiled \in [Clients -> Service!Measurements]
    /\ retFeatures \in [Clients -> SUBSET Tags]
    /\ profile \in [Workers -> [Programs -> Service!Measurements]]
    /\ feats \in [Workers -> SUBSET Tags]
    /\ left \in [Workers -> SUBSET Service!JobRecords]
    /\ \A c \in Clients :
          /\ command[c] = "profiled" => reply[c] \in {Waiting, Closed, Reset} \cup Service!Measurements
          /\ command[c] = "features" => reply[c] \in {Waiting, Closed, Reset} \cup SUBSET Tags

(* The inductive invariant for the bounds of TypeOK. *)
BoundInv == EnvInv /\ faults \in 0 .. MaxFaults /\ CountInv /\ SentInv /\ KeptInv

(* No client sends more jobs than it has programs and faults to lose them. *)
LEMMA NumberBound ==
    ASSUME BoundInv, NEW c \in Clients
    PROVE  number[c] \in 0 .. NumPrograms + MaxFaults
<1>1. number[c] \in Nat /\ program[c] \in 1 .. NumPrograms + 1
    BY DEF BoundInv, EnvInv, Shapes, IInv, PoolTypeOK
<1>2. NumPrograms \in Nat /\ MaxFaults \in Nat /\ faults \in 0 .. MaxFaults
    BY PoolAssumption, FaultsAssumption DEF BoundInv
<1>3. CASE Counted(c)
    <2>1. program[c] <= NumPrograms
        BY <1>3 DEF Counted, InFree, BoundInv, EnvInv, IInv, InLoop
    <2>2. number[c] <= program[c] + faults
        BY <1>3 DEF BoundInv, CountInv
    <2> QED BY ONLY <1>1, <1>2, <2>1, <2>2
<1>4. CASE ~Counted(c)
    <2>1. number[c] <= (program[c] - 1) + faults
        BY <1>4 DEF BoundInv, CountInv
    <2> QED BY ONLY <1>1, <1>2, <2>1
<1> QED BY <1>3, <1>4

(* The tag of a job that was sent is one of the tags there are. *)
LEMMA TagIsBounded ==
    ASSUME BoundInv, NEW c \in Clients, command[c] # "target" \/ tcp[c] # None
    PROVE  TagOf(c) \in Tags
<1>1. number[c] >= 1
    BY DEF BoundInv, SentInv
<1>2. NumPrograms \in Nat /\ MaxFaults \in Nat
    BY PoolAssumption, FaultsAssumption
<1>3. number[c] \in 0 .. NumPrograms + MaxFaults
    BY NumberBound
<1>4. number[c] \in 1 .. NumPrograms + MaxFaults
    BY ONLY <1>1, <1>2, <1>3
<1> QED BY <1>4 DEF TagOf, Tags

(* At the start no job has been sent. *)
LEMMA InitBoundInv == Init => BoundInv
<1> SUFFICES ASSUME Init PROVE BoundInv
    OBVIOUS
<1>1. EnvInv
    BY InitEnvInv
<1>2. faults \in 0 .. MaxFaults
    BY FaultsAssumption DEF Init
<1>3. CountInv
    <2>1. \A c \in Clients : ~Counted(c) /\ number[c] = 0 /\ program[c] = 1 /\ faults = 0
        BY DEF Init, PoolInit, Counted, InFree
    <2> QED BY <2>1 DEF CountInv
<1>4. SentInv /\ KeptInv
    BY DEF SentInv, KeptInv, Init, Service!ServiceInit, Service!Measurements
<1> QED BY <1>1, <1>2, <1>3, <1>4 DEF BoundInv

(* The types that count. *)
LEMMA CountTypes ==
    ASSUME BoundInv, NEW d \in Clients
    PROVE  number[d] \in Nat /\ program[d] \in Nat /\ program[d] >= 1 /\ faults \in Nat
<1>1. number[d] \in Nat /\ program[d] \in 1 .. NumPrograms + 1
    BY DEF BoundInv, EnvInv, Shapes, IInv, PoolTypeOK
<1>2. faults \in 0 .. MaxFaults /\ NumPrograms \in Nat /\ MaxFaults \in Nat
    BY PoolAssumption, FaultsAssumption DEF BoundInv
<1> QED BY ONLY <1>1, <1>2

(***************************************************************************)
(* A step in which no client sends a job or goes on to another program     *)
(* keeps the count if it loses no job, or is a fault.                      *)
(***************************************************************************)
LEMMA CountStep ==
    ASSUME BoundInv, UNCHANGED <<number, program>>,
           \/ faults' = faults /\ \A d \in Clients : Counted(d) => Counted(d)'
           \/ faults' = faults + 1
    PROVE  CountInv'
<1> SUFFICES ASSUME NEW d \in Clients
             PROVE  number[d] <= (IF Counted(d)' THEN program[d] ELSE program[d] - 1) + faults'
    BY DEF CountInv
<1>1. number[d] <= (IF Counted(d) THEN program[d] ELSE program[d] - 1) + faults
    BY DEF BoundInv, CountInv
<1>2. number[d] \in Nat /\ program[d] \in Nat /\ faults \in Nat
    BY CountTypes
<1>3. \/ faults' = faults /\ (Counted(d) => Counted(d)')
      \/ faults' = faults + 1
    OBVIOUS
<1> HIDE DEF Counted
<1>4. CASE faults' = faults /\ (Counted(d) => Counted(d)')
    BY ONLY <1>1, <1>2, <1>4
<1>5. CASE faults' = faults + 1
    BY ONLY <1>1, <1>2, <1>5
<1> QED BY <1>3, <1>4, <1>5

(* A step of the pool outside a job: the end of a program is counted once. *)
LEMMA PoolStepCount ==
    ASSUME BoundInv, NEW c \in Clients, PoolStep(c)
    PROVE  CountInv'
<1>0. /\ LocalStep(c)
      /\ UNCHANGED <<command, number, tcp, reply, faults>>
    BY DEF PoolStep, clientVars
<1>a. /\ pc[c] \notin {"work", "dead"} /\ status' = status
      /\ \A d \in Clients : d # c => pc'[d] = pc[d] /\ program'[d] = program[d]
    BY <1>0, LocalFrame DEF BoundInv, EnvInv
<1>b. tcp[c] = None /\ command[c] = "target"
    BY <1>a DEF BoundInv, EnvInv, ConnInv
<1>c. /\ DOMAIN pc = Clients /\ pc = [d \in Clients |-> pc[d]]
      /\ DOMAIN program = Clients /\ program = [d \in Clients |-> program[d]]
    BY DEF BoundInv, EnvInv, IInv, PoolTypeOK
<1>1. CASE LeaveFree(c)
    <2>1. /\ pc[c] = "leaveFree" /\ pc'[c] = "next"
          /\ program'[c] = IF status[c] = "" THEN program[c] ELSE program[c] + 1
        BY <1>1, <1>c DEF LeaveFree, Goto
    <2>2. ~Counted(c)' /\ (Counted(c) <=> status[c] # "")
        BY <2>1 DEF Counted, InFree
    <2> SUFFICES ASSUME NEW d \in Clients
                 PROVE  number[d] <= (IF Counted(d)' THEN program'[d] ELSE program'[d] - 1)
                                       + faults
        BY <1>0 DEF CountInv
    <2>3. number[d] <= (IF Counted(d) THEN program[d] ELSE program[d] - 1) + faults
        BY DEF BoundInv, CountInv
    <2>4. number[d] \in Nat /\ program[d] \in Nat /\ faults \in Nat
        BY CountTypes
    <2>5. CASE d = c
        <3>1. program'[d] = IF Counted(d) THEN program[d] + 1 ELSE program[d]
            BY <2>1, <2>2, <2>5
        <3>2. ~Counted(d)'
            BY <2>2, <2>5
        <3> HIDE DEF Counted
        <3> QED BY ONLY <2>3, <2>4, <3>1, <3>2
    <2>6. CASE d # c
        <3>1. Counted(d)' <=> Counted(d)
            BY <1>0, <1>a, <2>6 DEF Counted
        <3> QED BY <1>a, <2>3, <2>6, <3>1
    <2> QED BY <2>5, <2>6
<1>2. CASE ~LeaveFree(c)
    <2>1. program' = program
        BY <1>0, <1>2 DEF LocalStep, StartJob, FinishPrograms, AcquireToHire, FindFree,
                          MarkHired, LeaveHire, AcquireToFree, MarkFree
    <2>2. Counted(c) => Counted(c)'
        <3>1. pc[c] \in {"free"} \cup InFree => pc'[c] \in InFree
            BY <1>0, <1>2, <1>c DEF LocalStep, StartJob, FinishPrograms, AcquireToHire, FindFree,
                          MarkHired, LeaveHire, AcquireToFree, MarkFree, Goto, InFree
        <3> QED BY <1>0, <1>a, <3>1 DEF Counted
    <2>3. \A d \in Clients : Counted(d) => Counted(d)'
        BY <1>0, <1>a, <2>2 DEF Counted
    <2> QED BY <1>0, <2>1, <2>3, CountStep
<1> QED BY <1>1, <1>2

(* A job is sent only when the one before it was answered or lost. *)
LEMMA SendCount ==
    ASSUME BoundInv, NEW c \in Clients, Send(c)
    PROVE  CountInv' /\ SentInv'
<1> DEFINE n == IF command[c] = "target" THEN number[c] + 1 ELSE number[c]
<1>0. /\ pc[c] = "work" /\ tcp[c] = None /\ workerID[c] # None
      /\ tcp' = [tcp EXCEPT ![c] = workerID[c]]
      /\ number' = [number EXCEPT ![c] = n]
      /\ UNCHANGED <<pc, status, program, command, reply, faults>>
    <2>1. workerID[c] # None
        BY AtWork, PoolAssumption DEF Send, BoundInv, EnvInv
    <2> QED BY <2>1 DEF Send, poolVars
<1>a. /\ tcp'[c] = workerID[c] /\ number'[c] = n
      /\ \A d \in Clients : d # c => tcp'[d] = tcp[d] /\ number'[d] = number[d]
    BY <1>0 DEF BoundInv, EnvInv, Shapes
<1>b. reply[c] = Waiting
    BY <1>0 DEF BoundInv, EnvInv, ConnInv
<1>c. Counted(c)' /\ (Counted(c) <=> command[c] # "target")
    BY <1>0, <1>a, <1>b, ReplyAssumption DEF Counted, InFree
<1>1. CountInv'
    <2> SUFFICES ASSUME NEW d \in Clients
                 PROVE  number'[d] <= (IF Counted(d)' THEN program[d] ELSE program[d] - 1)
                                       + faults
        BY <1>0 DEF CountInv
    <2>1. number[d] <= (IF Counted(d) THEN program[d] ELSE program[d] - 1) + faults
        BY DEF BoundInv, CountInv
    <2>2. number[d] \in Nat /\ program[d] \in Nat /\ faults \in Nat
        BY CountTypes
    <2>3. CASE d = c
        <3>1. number'[d] = IF Counted(d) THEN number[d] ELSE number[d] + 1
            BY <1>a, <1>c, <2>3
        <3>2. Counted(d)'
            BY <1>c, <2>3
        <3> HIDE DEF Counted
        <3> QED BY ONLY <2>1, <2>2, <3>1, <3>2
    <2>4. CASE d # c
        <3>1. Counted(d)' <=> Counted(d)
            BY <1>0, <1>a, <2>4 DEF Counted
        <3> QED BY <1>a, <2>1, <2>4, <3>1
    <2> QED BY <2>3, <2>4
<1>2. SentInv'
    <2>1. number[c] \in Nat
        BY CountTypes
    <2>2. number'[c] >= 1
        <3>1. command[c] # "target" => number[c] >= 1
            BY DEF BoundInv, SentInv
        <3> QED BY <1>a, <2>1, <3>1
    <2> QED BY <1>0, <1>a, <2>2 DEF BoundInv, SentInv
<1> QED BY <1>1, <1>2

(* A process that dies on an exception loses no job that counts. *)
LEMMA RaisedCount ==
    ASSUME BoundInv, NEW c \in Clients, JobRaised(c), UNCHANGED <<clientVars, faults>>
    PROVE  CountInv' /\ SentInv'
<1>0. UNCHANGED <<command, number, tcp, reply, status, program, faults>>
    BY DEF JobRaised, clientVars
<1>1. pc'[c] = "dead" /\ \A d \in Clients : d # c => pc'[d] = pc[d]
    BY DEF JobRaised, Goto, BoundInv, EnvInv, IInv, PoolTypeOK
<1>2. \A d \in Clients : Counted(d) => Counted(d)'
    BY <1>0, <1>1 DEF Counted
<1>3. SentInv'
    BY <1>0 DEF BoundInv, SentInv
<1> QED BY <1>0, <1>2, <1>3, CountStep

(***************************************************************************)
(* An answer is received: the job was counted before exactly if it still   *)
(* is, and only a closed connection lets it be sent again.                 *)
(***************************************************************************)
LEMMA ReceiveCount ==
    ASSUME BoundInv, NEW c \in Clients,
           ReceiveStatus(c) \/ ReceiveProfiled(c) \/ ReceiveFeatures(c)
    PROVE  CountInv' /\ SentInv'
<1> USE DEF BoundInv, EnvInv
<1>0. Arrived(c) /\ UNCHANGED <<number, program, faults>>
    BY DEF ReceiveStatus, ReceiveProfiled, ReceiveFeatures, JobAnswered, poolVars
<1>a. /\ pc[c] = "work" /\ tcp[c] # None /\ tcp'[c] = None /\ reply'[c] = Waiting
      /\ \A d \in Clients : d # c => tcp'[d] = tcp[d] /\ reply'[d] = reply[d]
    BY <1>0, ArrivedFrame DEF ConnInv
<1>b. /\ command = [d \in Clients |-> command[d]] /\ DOMAIN command = Clients
      /\ pc = [d \in Clients |-> pc[d]] /\ DOMAIN pc = Clients
      /\ status = [d \in Clients |-> status[d]] /\ DOMAIN status = Clients
    BY DEF Shapes, IInv, PoolTypeOK
<1>c. \A d \in Clients : d # c => /\ pc'[d] = pc[d] /\ command'[d] = command[d]
                                  /\ status'[d] = status[d]
    BY <1>b DEF ReceiveStatus, ReceiveProfiled, ReceiveFeatures, JobAnswered, NextCommand,
                Goto, poolVars
<1>1. Counted(c) => Counted(c)'
    <2>1. CASE ReceiveStatus(c)
        <3>1. CASE reply[c] = "Success"
            <4>1. pc'[c] = "work" /\ command'[c] = "profiled"
                BY <2>1, <3>1, <1>a, <1>b DEF ReceiveStatus, NextCommand, poolVars
            <4> QED BY <4>1 DEF Counted
        <3>2. CASE reply[c] \notin {"Success", Closed}
            <4>1. reply[c] = "Failed"
                BY <2>1, <3>2, <1>0 DEF ReceiveStatus, Arrived, ReplyInv
            <4>2. pc'[c] = "free" /\ status'[c] = "Failed"
                BY <2>1, <3>2, <4>1, <1>b DEF ReceiveStatus, JobAnswered, Goto
            <4> QED BY <4>2 DEF Counted
        <3>3. CASE reply[c] = Closed
            BY <2>1, <3>3, <1>a DEF ReceiveStatus, Counted, InFree
        <3> QED BY <3>1, <3>2, <3>3
    <2>2. CASE ReceiveProfiled(c)
        <3>1. pc'[c] = "work" /\ command'[c] = "features"
            BY <2>2, <1>a, <1>b DEF ReceiveProfiled, NextCommand, poolVars
        <3> QED BY <3>1 DEF Counted
    <2>3. CASE ReceiveFeatures(c)
        <3>1. pc'[c] = "free" /\ status'[c] = "Success"
            BY <2>3, <1>b DEF ReceiveFeatures, JobAnswered, Goto
        <3> QED BY <3>1 DEF Counted
    <2> QED BY <2>1, <2>2, <2>3
<1>2. \A d \in Clients : Counted(d) => Counted(d)'
    BY <1>a, <1>c, <1>1 DEF Counted
<1>3. SentInv'
    <2>1. number[c] >= 1
        BY <1>a DEF SentInv
    <2> QED BY <2>1, <1>0, <1>a, <1>c DEF SentInv
<1> QED BY <1>0, <1>2, <1>3, CountStep

(***************************************************************************)
(* A worker tells clients anything but that a connection is closed: no job *)
(* is lost.                                                                *)
(***************************************************************************)
LEMMA ToldCount ==
    ASSUME BoundInv,
           UNCHANGED <<poolVars, command, number, tcp>>,
           \/ faults' = faults /\ \A d \in Clients : reply'[d] = Closed =>
                                        command[d] # "target" \/ reply[d] = Closed
           \/ faults' = faults + 1
    PROVE  CountInv' /\ SentInv'
<1>0. UNCHANGED <<pc, status, program, command, number, tcp>>
    BY DEF poolVars
<1>1. SentInv'
    BY <1>0 DEF BoundInv, SentInv
<1>2. CASE /\ faults' = faults
           /\ \A d \in Clients : reply'[d] = Closed => command[d] # "target" \/ reply[d] = Closed
    <2>1. \A d \in Clients : Counted(d) => Counted(d)'
        BY <1>0, <1>2 DEF Counted
    <2> QED BY <1>0, <1>1, <1>2, <2>1, CountStep
<1>3. CASE faults' = faults + 1
    BY <1>0, <1>1, <1>3, CountStep
<1> QED BY <1>2, <1>3

(* The steps of a worker, and its faults, keep the count. *)
LEMMA WorkerCount ==
    ASSUME BoundInv, NEW w \in Workers,
           DaemonStep(w) \/ WorkOn(w) \/ StrayOn(w) \/ DropTarget(w) \/ DropQuery(w)
                \/ Stop(w) \/ Start(w) \/ WipeResults(w) \/ LateOn(w)
    PROVE  CountInv' /\ SentInv' /\ faults' \in 0 .. MaxFaults
<1>0. reply = [d \in Clients |-> reply[d]] /\ DOMAIN reply = Clients
    BY DEF BoundInv, EnvInv, Shapes
<1>a. UNCHANGED <<poolVars, command, number, tcp>>
    BY DEF DaemonStep, AcceptTarget, AnswerQuery, AnswerTarget, WorkOn, DropTarget, DropQuery,
           Stop, Start, WipeResults, StrayOn, LateOn, clientVars
<1>b. faults \in 0 .. MaxFaults /\ MaxFaults \in Nat
    BY FaultsAssumption DEF BoundInv
<1>1. CASE DropTarget(w) \/ DropQuery(w) \/ Stop(w) \/ WipeResults(w) \/ StrayOn(w)
    <2>1. faults' = faults + 1 /\ faults < MaxFaults
        BY <1>1 DEF DropTarget, DropQuery, Stop, WipeResults, StrayOn
    <2>2. faults' \in 0 .. MaxFaults
        BY ONLY <1>b, <2>1
    <2> QED BY <1>a, <2>1, <2>2, ToldCount
<1>2. CASE AcceptTarget(w) \/ WorkOn(w) \/ Start(w) \/ LateOn(w)
    <2>1. reply' = reply /\ faults' = faults
        BY <1>2 DEF AcceptTarget, WorkOn, Start, LateOn, clientVars
    <2> QED BY <1>a, <1>b, <2>1, ToldCount
<1>3. CASE AnswerQuery(w)
    <2>1. faults' = faults
        BY <1>3 DEF AnswerQuery
    <2>2. \A d \in Clients : reply'[d] = Closed => command[d] # "target" \/ reply[d] = Closed
        <3>1. command[Head(queue[w]).client] # "target"
            BY <1>3 DEF AnswerQuery, Accepts, BoundInv, EnvInv, QueuedInv
        <3> QED BY <1>3, <1>0, <3>1 DEF AnswerQuery, Deliver
    <2> QED BY <1>a, <1>b, <2>1, <2>2, ToldCount
<1>4. ASSUME NEW s \in {"Success", "Failed"}, AnswerTarget(w, s)
      PROVE  CountInv' /\ SentInv' /\ faults' \in 0 .. MaxFaults
    <2>1. faults' = faults \/ (faults < MaxFaults /\ faults' = faults + 1)
        BY ONLY <1>4 DEF AnswerTarget
    <2>a. reply' = [reply EXCEPT ![serving[w].tag.client] = s]
        BY ONLY <1>4 DEF AnswerTarget, Deliver
    <2>2. \A d \in Clients : reply'[d] = Closed => reply[d] = Closed
        BY <1>0, <2>a, ReplyAssumption
    <2>3. faults' \in 0 .. MaxFaults
        BY ONLY <1>b, <2>1
    <2>4. CASE faults' = faults
        BY <1>a, <2>2, <2>3, <2>4, ToldCount
    <2>5. CASE faults' = faults + 1
        BY <1>a, <2>3, <2>5, ToldCount
    <2> QED BY ONLY <2>1, <2>4, <2>5
<1> QED BY <1>1, <1>2, <1>3, <1>4 DEF DaemonStep

(* A client keeps what it receives under the tag of its job. *)
LEMMA ClientKept ==
    ASSUME BoundInv, NEW c \in Clients, ClientStep(c)
    PROVE  KeptInv' /\ faults' = faults
<1> USE DEF BoundInv, KeptInv
<1>1. /\ faults' = faults
      /\ profile' = profile /\ feats' = feats /\ left' = left
    BY DEF ClientStep, PoolStep, Send, SendRefused, ReceiveRaises, ReceiveStatus,
           ReceiveProfiled, ReceiveFeatures, daemonVars
<1>a. command = [d \in Clients |-> command[d]] /\ DOMAIN command = Clients
    BY DEF EnvInv, Shapes
<1>2. ASSUME Arrived(c), \A d \in Clients : d # c => command'[d] = command[d]
      PROVE  \A d \in Clients :
                /\ command'[d] = "profiled" =>
                      reply'[d] \in {Waiting, Closed, Reset} \cup Service!Measurements
                /\ command'[d] = "features" =>
                      reply'[d] \in {Waiting, Closed, Reset} \cup SUBSET Tags
    BY <1>2, ArrivedFrame
<1>3. CASE ReceiveProfiled(c)
    <2>1. DataOf(c) \in Service!Measurements
        BY <1>3 DEF ReceiveProfiled, Arrived, DataOf, Service!Measurements
    <2>2. retProfiled' \in [Clients -> Service!Measurements] /\ retFeatures' = retFeatures
        BY <1>3, <2>1 DEF ReceiveProfiled
    <2>3. Arrived(c) /\ \A d \in Clients : d # c => command'[d] = command[d]
        BY <1>3, <1>a DEF ReceiveProfiled, NextCommand
    <2> QED BY <1>1, <1>2, <2>2, <2>3
<1>4. CASE ReceiveFeatures(c)
    <2>1. DataOf(c) \in SUBSET Tags
        BY <1>4 DEF ReceiveFeatures, Arrived, DataOf
    <2>2. retFeatures' \in [Clients -> SUBSET Tags] /\ retProfiled' = retProfiled
        BY <1>4, <2>1 DEF ReceiveFeatures
    <2>3. Arrived(c) /\ \A d \in Clients : d # c => command'[d] = command[d]
        BY <1>4, <1>a DEF ReceiveFeatures, NextCommand
    <2> QED BY <1>1, <1>2, <2>2, <2>3
<1>5. CASE Send(c)
    <2>1. /\ retProfiled' \in [Clients -> Service!Measurements]
          /\ retFeatures' \in [Clients -> SUBSET Tags]
        BY <1>5 DEF Send, Service!Measurements
    <2>2. command' = command /\ reply' = reply
        BY <1>5 DEF Send
    <2> QED BY <1>1, <2>1, <2>2
<1>6. CASE PoolStep(c) \/ SendRefused(c) \/ ReceiveRaises(c)
    <2>1. UNCHANGED <<retProfiled, retFeatures, command, reply>>
        BY <1>6 DEF PoolStep, SendRefused, ReceiveRaises, clientVars
    <2> QED BY <1>1, <2>1
<1>7. CASE ReceiveStatus(c)
    <2>1. retProfiled' = retProfiled /\ retFeatures' = retFeatures
        BY <1>7 DEF ReceiveStatus
    <2>2. Arrived(c) /\ \A d \in Clients : d # c => command'[d] = command[d]
        BY <1>7, <1>a DEF ReceiveStatus, NextCommand
    <2> QED BY <1>1, <1>2, <2>1, <2>2
<1> QED BY <1>3, <1>4, <1>5, <1>6, <1>7 DEF ClientStep

(* The job a worker serves has one of the tags there are. *)
LEMMA ServedIsBounded ==
    ASSUME BoundInv, NEW w \in Workers, serving[w] # None
    PROVE  /\ serving[w] \in Service!JobRecords
           /\ serving[w].tag \in Tags /\ serving[w].target \in Programs
           /\ serving[w].tag.client \in Clients /\ command[serving[w].tag.client] = "target"
<1> USE DEF BoundInv, EnvInv
<1>1. /\ WaitsFor(serving[w].tag.client, w)
      /\ command[serving[w].tag.client] = "target"
      /\ serving[w].tag = TagOf(serving[w].tag.client)
      /\ serving[w].target = program[serving[w].tag.client]
    BY DEF ServedInv
<1>2. /\ serving[w].tag.client \in Clients
      /\ tcp[serving[w].tag.client] # None
      /\ serving[w].target \in Programs
    BY <1>1, AtWork, PoolAssumption DEF WaitsFor
<1>3. serving[w].tag \in Tags
    BY <1>1, <1>2, TagIsBounded
<1>4. serving[w] \in [tag : AnyTag, target : Nat]
    BY DEF Shapes
<1> QED BY <1>1, <1>2, <1>3, <1>4 DEF Service!JobRecords

(* The end of a job, by an answer or without, leaves its tag at most. *)
LEMMA FinishKept ==
    ASSUME BoundInv, NEW w \in Workers, NEW s, Service!Finish(w, s), NEW m,
           reply' = [reply EXCEPT ![serving[w].tag.client] = m],
           UNCHANGED <<command, retProfiled, retFeatures>>
    PROVE  KeptInv'
<1>1. /\ serving[w] # None /\ profile' = profile /\ feats' = feats
      /\ left' \in {left, [left EXCEPT ![w] = left[w] \cup {serving[w]}]}
    BY DEF Service!Finish, Service!Over
<1>2. /\ serving[w] \in Service!JobRecords
      /\ serving[w].tag.client \in Clients /\ command[serving[w].tag.client] = "target"
    BY <1>1, ServedIsBounded
<1>3. left' \in [Workers -> SUBSET Service!JobRecords]
    BY <1>1, <1>2 DEF BoundInv, KeptInv
<1>4. \A c \in Clients : command[c] # "target" => reply'[c] = reply[c]
    BY <1>2 DEF BoundInv, EnvInv, Shapes
<1> QED BY <1>1, <1>3, <1>4 DEF BoundInv, KeptInv

(* A worker keeps what it measures under the tags of jobs. *)
LEMMA WorkerKept ==
    ASSUME BoundInv, NEW w \in Workers,
           DaemonStep(w) \/ WorkOn(w) \/ StrayOn(w) \/ DropTarget(w) \/ DropQuery(w)
                \/ Stop(w) \/ Start(w) \/ WipeResults(w) \/ LateOn(w)
    PROVE  KeptInv'
<1> USE DEF BoundInv, KeptInv
<1>1. UNCHANGED <<command, retProfiled, retFeatures>>
    BY DEF DaemonStep, AcceptTarget, AnswerQuery, AnswerTarget, WorkOn, DropTarget, DropQuery,
           Stop, Start, WipeResults, StrayOn, LateOn, clientVars
<1>a. reply = [d \in Clients |-> reply[d]] /\ DOMAIN reply = Clients
    BY DEF EnvInv, Shapes
<1>b. \A i \in Tags : {i} \in Service!Measurements /\ {} \in Service!Measurements
    BY DEF Service!Measurements
<1>2. CASE WorkOn(w)
    <2>0. /\ serving[w] # None /\ reply' = reply /\ left' = left
        BY <1>2 DEF WorkOn, Service!Work, clientVars
    <2>1. PICK m \in {profile[w][serving[w].target], {}, {serving[w].tag}} :
                profile' = [profile EXCEPT ![w][serving[w].target] = m]
        BY <1>2 DEF WorkOn, Service!Work
    <2>2. PICK f \in {feats[w], {}, feats[w] \cup {serving[w].tag}} :
                feats' = [feats EXCEPT ![w] = f]
        BY <1>2 DEF WorkOn, Service!Work
    <2>3. serving[w].tag \in Tags /\ serving[w].target \in Programs
        BY <2>0, ServedIsBounded
    <2>a. profile[w][serving[w].target] \in Service!Measurements /\ feats[w] \in SUBSET Tags
        BY <2>3
    <2>b. {} \in Service!Measurements /\ {serving[w].tag} \in Service!Measurements
        BY ONLY <2>3 DEF Service!Measurements
    <2>4. m \in Service!Measurements /\ f \in SUBSET Tags
        BY ONLY <2>3, <2>a, <2>b
    <2>5. profile' \in [Workers -> [Programs -> Service!Measurements]]
        BY <2>1, <2>3, <2>4
    <2>6. feats' \in [Workers -> SUBSET Tags]
        BY <2>2, <2>4
    <2> QED BY <1>1, <2>0, <2>5, <2>6
<1>3. CASE StrayOn(w)
    <2>0. /\ serving[w] # None /\ UNCHANGED <<reply, left, feats>>
        BY <1>3 DEF StrayOn, Service!Stray, clientVars
    <2>1. PICK m \in Service!Measurements \cup {profile[w][serving[w].target]} :
                profile' = [profile EXCEPT ![w][serving[w].target] = m]
        BY <1>3 DEF StrayOn, Service!Stray
    <2>2. serving[w].target \in Programs
        BY <2>0, ServedIsBounded
    <2>3. m \in Service!Measurements
        BY <2>2
    <2>4. profile' \in [Workers -> [Programs -> Service!Measurements]]
        BY <2>1, <2>2, <2>3
    <2> QED BY <1>1, <2>0, <2>4
<1>4. CASE LateOn(w)
    <2>0. UNCHANGED <<reply, left>>
        BY <1>4 DEF LateOn, Service!Late, clientVars
    <2>1. PICK j \in left[w] :
            \/ profile' = [profile EXCEPT ![w][j.target] = {j.tag}] /\ feats' = feats
            \/ feats' = [feats EXCEPT ![w] = feats[w] \cup {j.tag}] /\ profile' = profile
        BY <1>4 DEF LateOn, Service!Late
    <2>2. j.tag \in Tags /\ j.target \in Programs
        BY DEF Service!JobRecords
    <2>3. {j.tag} \in Service!Measurements
        BY <2>2, <1>b
    <2>4. CASE profile' = [profile EXCEPT ![w][j.target] = {j.tag}] /\ feats' = feats
        <3>1. profile' \in [Workers -> [Programs -> Service!Measurements]]
            BY <2>2, <2>3, <2>4
        <3> QED BY <1>1, <2>0, <2>4, <3>1
    <2>5. CASE feats' = [feats EXCEPT ![w] = feats[w] \cup {j.tag}] /\ profile' = profile
        <3>1. feats' \in [Workers -> SUBSET Tags]
            BY <2>2, <2>5
        <3> QED BY <1>1, <2>0, <2>5, <3>1
    <2> QED BY <2>1, <2>4, <2>5
<1>5. CASE WipeResults(w)
    <2>1. /\ profile' = [profile EXCEPT ![w] = [t \in Programs |-> {}]]
          /\ feats' = [feats EXCEPT ![w] = {}]
          /\ UNCHANGED <<reply, left>>
        BY <1>5 DEF WipeResults, Service!Wipe, clientVars
    <2>2. profile' \in [Workers -> [Programs -> Service!Measurements]]
        BY <2>1 DEF Service!Measurements
    <2>3. feats' \in [Workers -> SUBSET Tags]
        BY <2>1
    <2> QED BY <1>1, <2>1, <2>2, <2>3
<1>6. CASE AcceptTarget(w) \/ Start(w)
    <2>1. UNCHANGED <<profile, feats, left, reply>>
        BY <1>6 DEF AcceptTarget, Start, Service!Take, clientVars
    <2> QED BY <1>1, <2>1
<1>7. CASE DropTarget(w) \/ \E s \in {"Success", "Failed"} : AnswerTarget(w, s)
    BY <1>1, <1>7, FinishKept DEF DropTarget, AnswerTarget, Deliver
<1>8. CASE AnswerQuery(w) \/ DropQuery(w)
    <2> DEFINE k == Head(queue[w])
    <2>1. /\ queue[w] # <<>> /\ k.command # "target" /\ UNCHANGED <<profile, feats, left>>
          /\ \/ reply' = [reply EXCEPT ![k.client] = Closed]
             \/ reply' = [reply EXCEPT ![k.client] =
                             IF k.command = "profiled" THEN profile[w][k.target] ELSE feats[w]]
        BY <1>8 DEF AnswerQuery, DropQuery, Accepts, Deliver
    <2>2. /\ WaitsFor(k.client, w) /\ k.command = command[k.client]
          /\ k.target = program[k.client]
        BY <2>1 DEF EnvInv, QueuedInv
    <2>3. k.client \in Clients /\ k.target \in Programs
        BY <2>2, AtWork DEF WaitsFor, EnvInv
    <2>4. ASSUME NEW c \in Clients
          PROVE  /\ command[c] = "profiled" =>
                       reply'[c] \in {Waiting, Closed, Reset} \cup Service!Measurements
                 /\ command[c] = "features" =>
                       reply'[c] \in {Waiting, Closed, Reset} \cup SUBSET Tags
        <3>1. CASE c # k.client
            BY <1>a, <2>1, <3>1
        <3>2. CASE c = k.client
            BY <1>a, <2>1, <2>2, <2>3, <3>2
        <3> QED BY <3>1, <3>2
    <2> QED BY <1>1, <2>1, <2>4
<1>9. CASE Stop(w)
    <2>1. CASE serving[w] # None
        <3>1. /\ serving[w] # None /\ profile' = profile /\ feats' = feats
              /\ left' \in {left, [left EXCEPT ![w] = left[w] \cup {serving[w]}]}
            BY <1>9, <2>1 DEF Stop, Service!Finish, Service!Over
        <3>2. left' \in [Workers -> SUBSET Service!JobRecords]
            BY <3>1, ServedIsBounded
        <3>3. \A c \in Clients : reply'[c] \in {Closed, Reset, reply[c]}
            BY <1>9 DEF Stop
        <3> QED BY <1>1, <3>1, <3>2, <3>3
    <2>2. CASE serving[w] = None
        <3>1. UNCHANGED <<profile, feats, left>>
            BY <1>9, <2>2 DEF Stop
        <3>2. \A c \in Clients : reply'[c] \in {Closed, Reset, reply[c]}
            BY <1>9 DEF Stop
        <3> QED BY <1>1, <3>1, <3>2
    <2> QED BY <2>1, <2>2
<1> QED BY <1>2, <1>3, <1>4, <1>5, <1>6, <1>7, <1>8, <1>9 DEF DaemonStep

(* BoundInv is inductive: it holds in every state of the environment. *)
THEOREM BoundInvariance == Spec => []BoundInv
<1>1. BoundInv /\ EnvInv' /\ [EnvNext]_vars => BoundInv'
    <2> SUFFICES ASSUME BoundInv, EnvInv', [EnvNext]_vars
                 PROVE  faults' \in 0 .. MaxFaults /\ CountInv' /\ SentInv' /\ KeptInv'
        BY DEF BoundInv
    <2>1. CASE \E c \in Clients : ClientStep(c)
        <3>1. PICK c \in Clients : ClientStep(c)
            BY <2>1
        <3>2. KeptInv' /\ faults' = faults
            BY <3>1, ClientKept
        <3>3. CountInv' /\ SentInv'
            <4>1. CASE PoolStep(c)
                <5>1. SentInv'
                    BY <4>1 DEF PoolStep, clientVars, BoundInv, SentInv
                <5> QED BY <4>1, <5>1, PoolStepCount
            <4>2. CASE SendRefused(c) \/ ReceiveRaises(c)
                BY <4>2, RaisedCount DEF SendRefused, ReceiveRaises
            <4> QED BY <3>1, <4>1, <4>2, SendCount, ReceiveCount DEF ClientStep
        <3> QED BY <3>2, <3>3 DEF BoundInv
    <2>2. CASE \E w \in Workers : DaemonStep(w) \/ WorkOn(w) \/ StrayOn(w) \/ DropTarget(w) \/ DropQuery(w)
                                    \/ Stop(w) \/ Start(w) \/ WipeResults(w) \/ LateOn(w)
        BY <2>2, WorkerCount, WorkerKept
    <2>3. CASE UNCHANGED vars
        <3>1. UNCHANGED <<poolVars, command, number, tcp, reply, faults>>
            BY <2>3 DEF vars, clientVars
        <3>2. faults' = faults /\ reply' = reply
            BY <3>1
        <3>3. CountInv' /\ SentInv'
            BY <3>1, <3>2, ToldCount
        <3>4. KeptInv'
            BY <2>3 DEF vars, clientVars, daemonVars, BoundInv, KeptInv
        <3> QED BY <3>2, <3>3, <3>4 DEF BoundInv
    <2> QED BY <2>1, <2>2, <2>3 DEF EnvNext
<1> QED BY <1>1, InitBoundInv, EnvInvariance, PTL DEF Spec

(***************************************************************************)
(* The variables stay in their types; above all, no client sends more jobs *)
(* than it has programs and loses to faults, so the tags never run out.    *)
(***************************************************************************)
THEOREM EnvTypes == Spec => []TypeOK
<1>1. BoundInv => TypeOK
    <2> SUFFICES ASSUME BoundInv PROVE TypeOK
        OBVIOUS
    <2> USE DEF BoundInv, EnvInv
    <2>1. number \in [Clients -> 0 .. NumPrograms + MaxFaults]
        <3>1. \A c \in Clients : number[c] \in 0 .. NumPrograms + MaxFaults
            BY NumberBound
        <3> QED BY <3>1 DEF Shapes
    <2>2. ASSUME NEW c \in Clients
          PROVE  IF command[c] = "target"
                 THEN reply[c] \in {Waiting, Closed, Reset, "Success", "Failed"}
                 ELSE reply[c] \in {Waiting, Closed, Reset} \cup SUBSET Tags
        <3>1. command[c] \in Commands
            BY DEF Shapes
        <3> QED BY <3>1 DEF ReplyInv, KeptInv, Commands, Service!Measurements
    <2>3. ASSUME NEW w \in Workers, NEW i \in DOMAIN queue[w]
          PROVE  queue[w][i] \in [client : Clients, command : {"target", "profiled", "features"},
                                  number : 1 .. NumPrograms + MaxFaults, target : Programs]
        <3>1. queue[w] # <<>> /\ queue[w] \in Seq(AnyRequest)
            BY <2>3 DEF Shapes
        <3>2. PICK r : /\ queue[w] = <<r>> /\ WaitsFor(r.client, w)
                       /\ r.number = number[r.client] /\ r.target = program[r.client]
            BY <3>1 DEF QueuedInv
        <3>3. r \in AnyRequest /\ queue[w][i] = r
            BY <2>3, <3>1, <3>2
        <3>4. r.client \in Clients /\ tcp[r.client] # None /\ program[r.client] \in Programs
            BY <3>2, AtWork, PoolAssumption DEF WaitsFor
        <3>5. number[r.client] \in 1 .. NumPrograms + MaxFaults
            BY <3>4, TagIsBounded DEF TagOf, Tags
        <3> QED BY <3>2, <3>3, <3>4, <3>5 DEF AnyRequest, Commands
    <2>4. serving \in [Workers -> Service!JobRecords \cup {None}]
        BY ServedIsBounded DEF Shapes
    <2> QED BY <2>1, <2>2, <2>3, <2>4 DEF TypeOK, IInv, Shapes, KeptInv, Commands
<1> QED BY <1>1, BoundInvariance, PTL

===============================================================================
