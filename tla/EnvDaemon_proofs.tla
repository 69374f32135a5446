-------------------------- MODULE EnvDaemon_proofs --------------------------
(***************************************************************************)
(* Proofs about a worker, EnvDaemon.tla, for any targets and passes and    *)
(* any number of requests, wipes, restarts and survivors of kills.         *)
(***************************************************************************)
EXTENDS EnvDaemon, TLAPS

(* What a compiler may have been given while the request is served. *)
OwnPasses == {req.passes} \cup {r.passes : r \in compilers}

(* An executable of the current request. *)
IsOwn(b) ==
    /\ b \notin {None, PyCaller}
    /\ b.job = req.job
    /\ b.passes \subseteq OwnPasses

Built == hpc = "run" \/ Served

(* A handler at work has a request, and its passes are in the IPC file. *)
RequestInv ==
    /\ hpc # "idle" \/ answer # "none" => req # None
    /\ hpc \in {"clean", "rmFeatures", "make"} => ipc = req.passes
    /\ hpc \in {"ipc", "clean"} => ~cleaned
    /\ actor = "profiling" => hpc \in {"verify", "run"}

(* From "make clean" to the PyActor there is nothing that is not of the request. *)
BuildInv ==
    cleaned =>
        /\ hpc \in {"rmFeatures", "make"} => objects \subseteq OwnPasses
        /\ hpc \in {"rmFeatures", "make", "verify", "distribute"} =>
                elf[req.target] = None \/ IsOwn(elf[req.target])
        /\ Built => IsOwn(oriElf[req.target])

(* A PyActor has removed the old measurement, and writes the new one. *)
UsageInv ==
    cleaned /\ Built /\ actor # "off" =>
        usage[req.target] \in {0, req.job} \cup JobsOf(actors)

FeaturesInv ==
    hpc \in {"make", "verify", "distribute", "run"} \/ Served =>
        features \subseteq {req.job} \cup JobsOf(compilers)

IInv == TypeOK /\ RequestInv /\ BuildInv /\ UsageInv /\ FeaturesInv

-------------------------------------------------------------------------------
(* A handler at work has a request of its types. *)
LEMMA RequestType ==
    ASSUME TypeOK, RequestInv, hpc # "idle"
    PROVE  /\ req \in Requests /\ req.job \in Jobs /\ req.job \in Nat
           /\ req.target \in Targets /\ req.passes \in Passes
<1>1. req \in Requests
    BY DEF TypeOK, RequestInv
<1> QED BY <1>1, DaemonAssumption DEF Requests, Jobs

-------------------------------------------------------------------------------
(* A new request has its types. *)
LEMMA NewRequest ==
    ASSUME TypeOK, NEW t \in Targets, NEW p \in Passes, ReceiveTarget(t, p)
    PROVE  req' \in Requests /\ req' # None
<1>1. LastJob \in Nat
    BY DaemonAssumption DEF TypeOK, LastJob, Requests, Jobs
<1>2. LastJob + 1 \in Jobs
    BY <1>1, DaemonAssumption DEF ReceiveTarget, Jobs
<1>3. req' \in Requests
    BY <1>2 DEF ReceiveTarget, Requests
<1> QED BY <1>3, NamesAssumption

(* Every step keeps the types. *)
LEMMA NextType == IInv /\ [Next]_vars => TypeOK'
<1> SUFFICES ASSUME IInv, [Next]_vars PROVE TypeOK'
    OBVIOUS
<1>0. TypeOK /\ RequestInv
    BY DEF IInv
<1> USE <1>0, DaemonAssumption, NamesAssumption
    DEF TypeOK, RequestInv, Goto, Answer, LastJob, ActorLeft, ActorOver,
        buildVars, resultVars, lateVars, historyVars
<1>1. CASE \E t \in Targets, p \in Passes : ReceiveTarget(t, p)
    <2>1. PICK t \in Targets, p \in Passes : ReceiveTarget(t, p)
        BY <1>1
    <2>3. req' \in Requests
        BY <2>1, NewRequest
    <2> QED BY <2>1, <2>3 DEF ReceiveTarget
<1>2. CASE WriteIpc
    BY <1>2, RequestType DEF WriteIpc
<1>3. CASE UnknownTarget
    BY <1>3 DEF UnknownTarget
<1>4. CASE MakeClean
    BY <1>4 DEF MakeClean
<1>5. CASE RemoveFeatures
    BY <1>5 DEF RemoveFeatures
<1>6. CASE Compile
    <2>1. req.job \in Jobs
        BY <1>6, RequestType DEF Compile
    <2>2. features' \in SUBSET Jobs /\ dir' \in BOOLEAN
        BY <1>6, <2>1 DEF Compile
    <2> QED BY <1>6, <2>2 DEF Compile
<1>7. CASE \E ok \in BOOLEAN : Link(ok)
    <2>1. PICK ok \in BOOLEAN : Link(ok)
        BY <1>7
    <2>2. req.job \in Jobs
        BY <2>1, RequestType DEF Link
    <2>3. [job |-> req.job, passes |-> objects, ok |-> ok] \in Builds
        BY <2>2 DEF Builds
    <2>4. elf' \in [Targets -> {None, PyCaller} \cup Builds]
        BY <2>1, <2>3 DEF Link
    <2> QED BY <2>1, <2>4 DEF Link
<1>8. CASE MakeReturns
    BY <1>8 DEF MakeReturns
<1>9. CASE MakeFails
    BY <1>9 DEF MakeFails
<1>10. CASE MakeOutlivesKill
    BY <1>10 DEF MakeOutlivesKill
<1>11. CASE VerifyReturns
    BY <1>11 DEF VerifyReturns
<1>12. CASE VerifyFails
    BY <1>12 DEF VerifyFails
<1>13. CASE LitOutlivesKill
    BY <1>13 DEF LitOutlivesKill
<1>14. CASE DistributePyActor
    BY <1>14 DEF DistributePyActor
<1>15. CASE NoExecutable
    BY <1>15 DEF NoExecutable
<1>16. CASE NoPyCaller
    BY <1>16 DEF NoPyCaller
<1>17. CASE RunReturns
    BY <1>17 DEF RunReturns
<1>18. CASE RunKilled
    BY <1>18 DEF RunKilled
<1>19. CASE ActorStarts
    <2>0. 0 \in 0 .. MaxJobs
        BY DaemonAssumption
    <2>1. usage' \in [Targets -> 0 .. MaxJobs]
        BY <1>19, <2>0 DEF ActorStarts
    <2>2. dir' \in BOOLEAN
        BY <1>19 DEF ActorStarts
    <2> QED BY <1>19, <2>1, <2>2 DEF ActorStarts
<1>20. CASE ActorGivesUp
    BY <1>20 DEF ActorGivesUp
<1>21. CASE ActorRecords
    <2>1. req.target \in Targets
        BY <1>21, RequestType DEF ActorRecords
    <2>2. oriElf[req.target] \in Builds
        BY <1>21, <2>1 DEF ActorRecords, Record
    <2>3. oriElf[req.target].job \in 0 .. MaxJobs
        BY <2>2 DEF Builds, Jobs
    <2>4. usage' \in [Targets -> 0 .. MaxJobs]
        BY <1>21, <2>3 DEF ActorRecords, Record
    <2> QED BY <1>21, <2>4 DEF ActorRecords
<1>22. CASE \E r \in compilers : LateCompiler(r)
    <2>1. PICK r \in compilers : LateCompiler(r)
        BY <1>22
    <2>2. r.job \in Jobs /\ r.passes \in Passes
        BY DEF Requests
    <2>3. features' \in SUBSET Jobs
        BY <2>1, <2>2 DEF LateCompiler
    <2>4. objects' \in SUBSET Passes
        BY <2>1, <2>2 DEF LateCompiler
    <2> QED BY <2>1, <2>3, <2>4 DEF LateCompiler
<1>23. CASE \E r \in actors : LateActor(r)
    <2>1. PICK r \in actors : LateActor(r)
        BY <1>23
    <2>2. r.job \in 0 .. MaxJobs
        BY DEF Requests, Jobs
    <2>3. usage' \in [Targets -> 0 .. MaxJobs]
        BY <2>1, <2>2 DEF LateActor
    <2> QED BY <2>1, <2>3 DEF LateActor
<1>24. CASE WipeResults
    <2>1. usage' \in [Targets -> 0 .. MaxJobs] /\ restarts' \in 0 .. MaxRestarts
        BY <1>24 DEF WipeResults
    <2> QED BY <1>24, <2>1 DEF WipeResults
<1>25. CASE StopStart
    BY <1>25 DEF StopStart
<1>26. CASE UNCHANGED vars
    BY <1>26 DEF vars
<1> QED BY <1>1, <1>2, <1>3, <1>4, <1>5, <1>6, <1>7, <1>8, <1>9, <1>10, <1>11, <1>12, <1>13, <1>14, <1>15, <1>16, <1>17, <1>18, <1>19, <1>20, <1>21, <1>22, <1>23, <1>24, <1>25, <1>26 DEF Next, Handler, Actor

(* A request comes: the last answer is no longer of interest. *)
LEMMA ReceiveIInv ==
    ASSUME IInv, NEW t \in Targets, NEW p \in Passes, ReceiveTarget(t, p)
    PROVE  RequestInv' /\ BuildInv' /\ UsageInv' /\ FeaturesInv'
<1>1. hpc' = "ipc" /\ answer' = "none" /\ ~cleaned' /\ req' # None /\ actor' = actor
    <2>1. req' # None
        BY NewRequest DEF IInv
    <2> QED BY <2>1 DEF ReceiveTarget, Goto
<1>2. actor # "profiling"
    BY DEF IInv, RequestInv, ReceiveTarget, Goto
<1> QED BY <1>1, <1>2 DEF RequestInv, BuildInv, UsageInv, FeaturesInv, Built, Served

(* The phases of a request up to make. *)
LEMMA PrepareIInv ==
    ASSUME IInv, WriteIpc \/ UnknownTarget \/ MakeClean \/ RemoveFeatures
    PROVE  RequestInv' /\ BuildInv' /\ UsageInv' /\ FeaturesInv'
<1>0. TypeOK /\ RequestInv /\ BuildInv /\ UsageInv /\ FeaturesInv
    BY DEF IInv
<1> USE <1>0 DEF RequestInv, BuildInv, UsageInv, FeaturesInv, Built, Served, Goto, Answer,
                 buildVars, resultVars, lateVars, historyVars
<1>1. CASE WriteIpc
    BY <1>1 DEF WriteIpc
<1>2. CASE UnknownTarget
    BY <1>2 DEF UnknownTarget
<1>3. CASE MakeClean
    <2>1. hpc = "clean" /\ hpc' = "rmFeatures" /\ req' = req /\ ipc' = ipc /\ actor' = actor
        BY <1>3 DEF MakeClean
    <2>2. req.target \in Targets /\ elf \in [Targets -> {None, PyCaller} \cup Builds]
        BY <2>1, RequestType DEF TypeOK
    <2>3. cleaned' => elf'[req.target] = None /\ objects' = {}
        BY <1>3, <2>1, <2>2 DEF MakeClean
    <2>4. RequestInv'
        BY <1>3, <2>1 DEF MakeClean
    <2>5. BuildInv'
        BY <2>1, <2>3
    <2> QED BY <2>1, <2>4, <2>5
<1>4. CASE RemoveFeatures
    BY <1>4 DEF RemoveFeatures, IsOwn, OwnPasses
<1> QED BY <1>1, <1>2, <1>3, <1>4

(* The compilers of a request, those that outlive it, and the linker. *)
LEMMA MakeIInv ==
    ASSUME IInv, \/ Compile \/ \E ok \in BOOLEAN : Link(ok)
                 \/ MakeReturns \/ MakeFails \/ MakeOutlivesKill
    PROVE  RequestInv' /\ BuildInv' /\ UsageInv' /\ FeaturesInv'
<1>0. TypeOK /\ RequestInv /\ BuildInv /\ UsageInv /\ FeaturesInv
    BY DEF IInv
<1> USE <1>0 DEF RequestInv, BuildInv, UsageInv, FeaturesInv, Built, Served, Goto, Answer,
                 buildVars, resultVars, lateVars, historyVars
<1>1. CASE Compile
    <2>1. hpc = "make" /\ hpc' = hpc /\ ipc = req.passes /\ elf[req.target] = None
        BY <1>1 DEF Compile
    <2>2. cleaned => objects' \subseteq OwnPasses
        BY <1>1, <2>1 DEF Compile, OwnPasses
    <2>3. OwnPasses' = OwnPasses
        BY <1>1 DEF Compile, OwnPasses
    <2>4. features' \subseteq {req.job} \cup JobsOf(compilers)
        BY <1>1, <2>1 DEF Compile
    <2>5. RequestInv'
        BY <1>1, <2>1 DEF Compile
    <2>6. BuildInv'
        BY <1>1, <2>1, <2>2, <2>3 DEF Compile
    <2>7. FeaturesInv'
        BY <1>1, <2>4 DEF Compile, JobsOf
    <2> QED BY <1>1, <2>1, <2>5, <2>6, <2>7 DEF Compile
<1>2. CASE \E ok \in BOOLEAN : Link(ok)
    <2>1. PICK ok \in BOOLEAN : Link(ok)
        BY <1>2
    <2>2. hpc = "make" /\ UNCHANGED <<hpc, req, answer, ipc, objects, oriElf, resultVars,
                                      actor, lateVars, historyVars>>
        BY <2>1 DEF Link
    <2>3. req.job \in Jobs /\ req.target \in Targets
        BY <2>2, RequestType
    <2>4. PICK b : b = [job |-> req.job, passes |-> objects, ok |-> ok]
        OBVIOUS
    <2>5. b \in Builds /\ elf' = [elf EXCEPT ![req.target] = b]
        BY <2>1, <2>3, <2>4 DEF Link, Builds, TypeOK
    <2>6. elf'[req.target] = b
        BY <2>3, <2>5 DEF TypeOK
    <2>7. b \notin {None, PyCaller} /\ b.job = req.job /\ b.passes = objects
        BY <2>4, <2>5, NamesAssumption
    <2>8. cleaned => objects \subseteq OwnPasses
        BY <2>2
    <2>9. OwnPasses' = OwnPasses
        BY <2>2 DEF OwnPasses
    <2>10. BuildInv'
        BY <2>2, <2>6, <2>7, <2>8, <2>9 DEF IsOwn
    <2> QED BY <2>2, <2>10 DEF JobsOf
<1>3. CASE MakeReturns
    BY <1>3 DEF MakeReturns, IsOwn, OwnPasses
<1>4. CASE MakeFails
    BY <1>4 DEF MakeFails
<1>5. CASE MakeOutlivesKill
    BY <1>5 DEF MakeOutlivesKill
<1> QED BY <1>1, <1>2, <1>3, <1>4, <1>5

(* lit, before PyCaller is in place. *)
LEMMA VerifyIInv ==
    ASSUME IInv, VerifyReturns \/ VerifyFails \/ LitOutlivesKill
                 \/ NoExecutable \/ NoPyCaller
    PROVE  RequestInv' /\ BuildInv' /\ UsageInv' /\ FeaturesInv'
<1>0. TypeOK /\ RequestInv /\ BuildInv /\ UsageInv /\ FeaturesInv
    BY DEF IInv
<1> USE <1>0 DEF RequestInv, BuildInv, UsageInv, FeaturesInv, Built, Served, Goto, Answer,
                 buildVars, resultVars, lateVars, historyVars, ActorLeft, ActorOver
<1>1. CASE VerifyReturns
    BY <1>1 DEF VerifyReturns, IsOwn, OwnPasses
<1>2. CASE VerifyFails
    BY <1>2 DEF VerifyFails
<1>3. CASE LitOutlivesKill
    BY <1>3 DEF LitOutlivesKill
<1>4. CASE NoExecutable
    BY <1>4 DEF NoExecutable
<1>5. CASE NoPyCaller
    BY <1>5 DEF NoPyCaller
<1> QED BY <1>1, <1>2, <1>3, <1>4, <1>5

(* The PyActor measures the executable that was moved away for it. *)
LEMMA RunIInv ==
    ASSUME IInv, DistributePyActor \/ RunReturns \/ RunKilled
    PROVE  RequestInv' /\ BuildInv' /\ UsageInv' /\ FeaturesInv'
<1>0. TypeOK /\ RequestInv /\ BuildInv /\ UsageInv /\ FeaturesInv
    BY DEF IInv
<1> USE <1>0 DEF RequestInv, BuildInv, UsageInv, FeaturesInv, Built, Served, Goto, Answer,
                 buildVars, resultVars, lateVars, historyVars, ActorLeft, ActorOver
<1>1. CASE DistributePyActor
    <2>1. /\ hpc = "distribute" /\ hpc' = "run" /\ actor' = "off" /\ elf[req.target] # None
          /\ UNCHANGED <<req, answer, ipc, resultVars, lateVars, historyVars>>
        BY <1>1 DEF DistributePyActor
    <2>2. req.target \in Targets
        BY <2>1, RequestType
    <2>3. PICK b : b = elf[req.target]
        OBVIOUS
    <2>4. oriElf'[req.target] = b
        BY <1>1, <2>2, <2>3 DEF DistributePyActor, TypeOK
    <2>5. cleaned => IsOwn(b)
        BY <2>1, <2>3
    <2>6. BuildInv'
        BY <2>1, <2>4, <2>5 DEF IsOwn, OwnPasses
    <2> QED BY <2>1, <2>6 DEF JobsOf
<1>2. CASE RunReturns
    BY <1>2 DEF RunReturns, IsOwn, OwnPasses, JobsOf
<1>3. CASE RunKilled
    <2>1. /\ hpc = "run" /\ hpc' = "idle" /\ answer' = "Success"
          /\ UNCHANGED <<req, ipc, objects, elf, oriElf, resultVars, compilers, historyVars>>
        BY <1>3 DEF RunKilled
    <2>2. /\ actors \subseteq actors' /\ actor' # "profiling"
          /\ actor' # "off" => actor # "off"
        BY <1>3 DEF RunKilled
    <2>3. JobsOf(actors) \subseteq JobsOf(actors')
        BY <2>2 DEF JobsOf
    <2>4. RequestInv' /\ FeaturesInv'
        BY <2>1, <2>2 DEF JobsOf
    <2>5. BuildInv'
        BY <2>1 DEF IsOwn, OwnPasses
    <2>6. UsageInv'
        BY <2>1, <2>2, <2>3
    <2> QED BY <2>4, <2>5, <2>6
<1> QED BY <1>1, <1>2, <1>3

(* What the PyActor of the current lit run writes is about the current build. *)
LEMMA ActorIInv ==
    ASSUME IInv, Actor
    PROVE  RequestInv' /\ BuildInv' /\ UsageInv' /\ FeaturesInv'
<1>0. TypeOK /\ RequestInv /\ BuildInv /\ UsageInv /\ FeaturesInv
    BY DEF IInv
<1> USE <1>0 DEF RequestInv, BuildInv, UsageInv, FeaturesInv, Built, Served, Goto, Answer,
                 buildVars, resultVars, lateVars, historyVars, ActorLeft, ActorOver
<1>1. CASE ActorStarts
    <2>1. /\ hpc \in {"verify", "run"} /\ actor' = "profiling"
          /\ UNCHANGED <<hpc, req, answer, ipc, objects, elf, oriElf, features, lateVars,
                         historyVars>>
        BY <1>1 DEF ActorStarts
    <2>2. req.target \in Targets
        BY <2>1, RequestType
    <2>3. usage'[req.target] = 0
        BY <1>1, <2>2 DEF ActorStarts, TypeOK
    <2>4. UsageInv'
        BY <2>1, <2>3
    <2> QED BY <2>1, <2>4 DEF IsOwn, OwnPasses, JobsOf
<1>2. CASE ActorGivesUp
    BY <1>2 DEF ActorGivesUp, IsOwn, OwnPasses, JobsOf
<1>3. CASE ActorRecords
    <2>1. /\ actor = "profiling" /\ hpc \in {"verify", "run"} /\ actor' = "over"
          /\ UNCHANGED <<hpc, req, answer, ipc, objects, elf, oriElf, dir, features,
                         lateVars, historyVars>>
        BY <1>3 DEF ActorRecords
    <2>2. req.target \in Targets
        BY <2>1, RequestType
    <2>3. usage'[req.target] \in {usage[req.target], oriElf[req.target].job}
        BY <1>3, <2>2 DEF ActorRecords, Record, TypeOK
    <2>4. cleaned /\ hpc = "run" => oriElf[req.target].job = req.job
        BY DEF IsOwn
    <2>5. UsageInv'
        BY <2>1, <2>3, <2>4 DEF JobsOf
    <2> QED BY <2>1, <2>5 DEF IsOwn, OwnPasses, JobsOf
<1> QED BY <1>1, <1>2, <1>3 DEF Actor

(* What survived a kill is counted as such. *)
LEMMA LateIInv ==
    ASSUME IInv, (\E r \in compilers : LateCompiler(r)) \/ (\E r \in actors : LateActor(r))
    PROVE  RequestInv' /\ BuildInv' /\ UsageInv' /\ FeaturesInv'
<1>0. TypeOK /\ RequestInv /\ BuildInv /\ UsageInv /\ FeaturesInv
    BY DEF IInv
<1> USE <1>0 DEF RequestInv, BuildInv, UsageInv, FeaturesInv, Built, Served, Goto, Answer,
                 buildVars, resultVars, lateVars, historyVars, ActorLeft, ActorOver
<1>1. CASE \E r \in compilers : LateCompiler(r)
    <2>1. PICK r \in compilers : LateCompiler(r)
        BY <1>1
    <2>2. /\ features' \subseteq features \cup {r.job}
          /\ objects' \subseteq objects \cup {r.passes}
          /\ UNCHANGED <<hpc, req, answer, ipc, elf, oriElf, dir, usage, actor, lateVars,
                         historyVars>>
        BY <2>1 DEF LateCompiler
    <2>3. r.job \in JobsOf(compilers) /\ r.passes \in OwnPasses
        BY DEF JobsOf, OwnPasses
    <2>4. FeaturesInv'
        BY <2>2, <2>3 DEF JobsOf
    <2>5. BuildInv'
        BY <2>2, <2>3 DEF IsOwn, OwnPasses
    <2> QED BY <2>2, <2>4, <2>5 DEF JobsOf
<1>2. CASE \E r \in actors : LateActor(r)
    <2>1. PICK r \in actors : LateActor(r)
        BY <1>2
    <2>2. UNCHANGED <<hpc, req, answer, buildVars, dir, features, actor, lateVars, historyVars>>
        BY <2>1 DEF LateActor
    <2>3. r.job \in JobsOf(actors)
        BY DEF JobsOf
    <2>4. \A t \in Targets : usage'[t] \in {usage[t], r.job}
        BY <2>1 DEF LateActor, TypeOK
    <2>5. cleaned /\ Built => req.target \in Targets
        BY DEF TypeOK, Requests
    <2>6. UsageInv'
        BY <2>2, <2>3, <2>4, <2>5 DEF JobsOf
    <2> QED BY <2>2, <2>6 DEF IsOwn, OwnPasses, JobsOf
<1> QED BY <1>1, <1>2

(* Wiped results are no wrong ones; a request that is broken off has none. *)
LEMMA RestartIInv ==
    ASSUME IInv, WipeResults \/ StopStart
    PROVE  RequestInv' /\ BuildInv' /\ UsageInv' /\ FeaturesInv'
<1>0. TypeOK /\ RequestInv /\ BuildInv /\ UsageInv /\ FeaturesInv
    BY DEF IInv
<1> USE <1>0 DEF RequestInv, BuildInv, UsageInv, FeaturesInv, Built, Served, Goto, Answer,
                 buildVars, resultVars, lateVars, historyVars, ActorLeft, ActorOver
<1>1. CASE WipeResults
    <2>1. /\ features' = {} /\ usage' = [t \in Targets |-> 0]
          /\ UNCHANGED <<hpc, req, answer, buildVars, actor, lateVars, cleaned, verdict>>
        BY <1>1 DEF WipeResults
    <2>2. cleaned /\ Built => req.target \in Targets
        BY DEF TypeOK, Requests
    <2>3. UsageInv'
        BY <2>1, <2>2
    <2> QED BY <2>1, <2>3 DEF IsOwn, OwnPasses
<1>2. CASE StopStart
    <2>1. CASE hpc = "idle"
        <3>1. /\ UNCHANGED <<hpc, req, answer, objects, elf, oriElf, resultVars, compilers,
                             cleaned>>
              /\ actor' = actor /\ actors' = actors
            BY <1>2, <2>1 DEF StopStart
        <3> QED BY <2>1, <3>1 DEF IsOwn, OwnPasses, JobsOf
    <2>2. CASE hpc # "idle"
        <3>1. /\ hpc' = "idle" /\ answer' = "closed" /\ req' = req
              /\ actor' # "profiling"
            BY <1>2, <2>2 DEF StopStart
        <3> QED BY <2>2, <3>1
    <2> QED BY <2>1, <2>2
<1> QED BY <1>1, <1>2

(* Every step keeps the invariant. *)
LEMMA NextIInv == IInv /\ [Next]_vars => IInv'
<1> SUFFICES ASSUME IInv, [Next]_vars
             PROVE  RequestInv' /\ BuildInv' /\ UsageInv' /\ FeaturesInv'
    BY NextType DEF IInv
<1>1. CASE UNCHANGED vars
    BY <1>1 DEF vars, IInv, RequestInv, BuildInv, UsageInv, FeaturesInv, Built, Served,
                IsOwn, OwnPasses, JobsOf, buildVars, resultVars, lateVars, historyVars
<1>2. CASE Handler
    BY <1>2, PrepareIInv, MakeIInv, VerifyIInv, RunIInv DEF Handler
<1> QED BY <1>1, <1>2, ReceiveIInv, MakeIInv, ActorIInv, LateIInv, RestartIInv DEF Next

(* The invariant holds at the start. *)
LEMMA InitIInv == Init => IInv
<1> SUFFICES ASSUME Init PROVE IInv
    OBVIOUS
<1>1. TypeOK
    <2>1. elf \in [Targets -> {None, PyCaller} \cup Builds]
        BY DEF Init
    <2>2. oriElf \in [Targets -> {None, PyCaller} \cup Builds]
        BY DEF Init
    <2>3. usage \in [Targets -> 0 .. MaxJobs] /\ restarts \in 0 .. MaxRestarts
        BY DaemonAssumption DEF Init
    <2> QED BY <2>1, <2>2, <2>3, DaemonAssumption DEF Init, TypeOK
<1> QED BY <1>1 DEF Init, IInv, RequestInv, BuildInv, UsageInv, FeaturesInv, Built, Served

(* The invariant holds always. *)
LEMMA Invariance == Spec => []IInv
BY InitIInv, NextIInv, PTL DEF Spec

-------------------------------------------------------------------------------
(* Type correctness of EnvDaemon.tla. *)
THEOREM TypeCorrect == Spec => []TypeOK
<1>1. IInv => TypeOK
    BY DEF IInv
<1> QED BY <1>1, Invariance, PTL

(***************************************************************************)
(* When EnvEcho answers "Success" after a "make clean" that worked, the    *)
(* profiled executable is of this request and its passes, however many     *)
(* compilers of killed requests are still at work.                         *)
(***************************************************************************)
THEOREM SuccessesAreOwn == Spec => []SuccessIsOwnBuild
<1>1. IInv => SuccessIsOwnBuild
    BY DEF IInv, BuildInv, Built, IsOwn, OwnPasses, SuccessIsOwnBuild
<1> QED BY <1>1, Invariance, PTL

(***************************************************************************)
(* The measurement that can then be fetched is of this build, since the    *)
(* PyActor removes the last one when it starts, or of a survivor.          *)
(***************************************************************************)
THEOREM ProfilesAreOwn == Spec => []ProfileIsOwn
<1>1. IInv => ProfileIsOwn
    BY DEF IInv, UsageInv, Built, ProfileIsOwn
<1> QED BY <1>1, Invariance, PTL

(* And so are the features, since EnvEcho removes the file before make. *)
THEOREM FeaturesOfOwn == Spec => []FeaturesAreOwn
<1>1. IInv => FeaturesAreOwn
    BY DEF IInv, FeaturesInv, FeaturesAreOwn
<1> QED BY <1>1, Invariance, PTL

-------------------------------------------------------------------------------
(* The refinement: a worker as its clients see it. *)
JobOf(r) == [tag |-> r.job, target |-> r.target]
Serving == IF hpc = "idle" THEN None ELSE JobOf(req)
Profile == [t \in Targets |-> IF usage[t] = 0 THEN {} ELSE {usage[t]}]
Left == {JobOf(r) : r \in compilers \cup actors}
Strayed == IF Served THEN ~cleaned \/ actor = "off" ELSE InBuild /\ ~cleaned

seen == <<Serving, Profile, features, Left, Strayed, answer>>

(* A clean build is profiled by run only. *)
OrderInv == cleaned /\ actor = "profiling" => hpc = "run"

OwnJobs == {Serving.tag} \cup {j.tag : j \in Left}

(* The abstract actions, for the one worker there is. *)
AbsTake ==
    /\ Serving = None /\ Serving' \in [tag : Jobs, target : Targets]
    /\ ~Strayed' /\ answer' = "none"
    /\ UNCHANGED <<Profile, features, Left>>

AbsOver ==
    /\ Serving # None /\ Serving' = None
    /\ Left' \in {Left, Left \cup {Serving}}
    /\ UNCHANGED <<Profile, features>>

AbsSuccess ==
    /\ AbsOver /\ answer' = "Success"
    /\ features \subseteq OwnJobs
    /\ Strayed => Strayed'
    /\ Strayed' \/ Profile[Serving.target] \subseteq OwnJobs

AbsFailure == AbsOver /\ ~Strayed' /\ answer' \in {"Failed", "closed"}

AbsWork ==
    /\ Serving # None
    /\ \E m \in {Profile[Serving.target], {}, {Serving.tag}} :
          Profile' = [Profile EXCEPT ![Serving.target] = m]
    /\ features' \in {features, {}, features \cup {Serving.tag}}
    /\ UNCHANGED <<Serving, Left, Strayed, answer>>

AbsStray ==
    /\ Serving # None
    /\ Strayed'
    /\ \E m \in {Profile[Serving.target]} \cup {{j} : j \in Jobs} :
          Profile' = [Profile EXCEPT ![Serving.target] = m]
    /\ UNCHANGED <<Serving, features, Left, answer>>

AbsLate ==
    /\ \E j \in Left :
          \/ Profile' = [Profile EXCEPT ![j.target] = {j.tag}] /\ features' = features
          \/ features' = features \cup {j.tag} /\ Profile' = Profile
    /\ UNCHANGED <<Serving, Left, Strayed, answer>>

AbsWipe ==
    /\ Profile' = [t \in Targets |-> {}] /\ features' = {}
    /\ UNCHANGED <<Serving, Left, Strayed, answer>>

AbsNext ==
    \/ AbsTake \/ AbsSuccess \/ AbsFailure \/ AbsWork \/ AbsStray \/ AbsLate \/ AbsWipe

-------------------------------------------------------------------------------
(* They are the actions of WorkerServiceSpec.tla. *)
LEMMA AbsIsService == AbsNext => Service!ServiceNext
<1> DEFINE w == "self"
<1> SUFFICES ASSUME AbsNext PROVE Service!Promised(w)
    BY DEF Service!ServiceNext
<1>a. Strayed \in BOOLEAN /\ Strayed' \in BOOLEAN
    BY DEF Strayed, Served, InBuild
<1> USE DEF Service!Promised, Service!Tell, Service!JobRecords
<1>1. CASE AbsTake
    <2>1. Service!Take(w, Serving')
        BY <1>1, <1>a DEF AbsTake, Service!Take, Serving, Profile, Left, Strayed, JobOf
    <2> QED BY <1>1, <2>1 DEF AbsTake
<1>2. CASE AbsSuccess
    <2>1. Service!Over(w)
        BY <1>2 DEF AbsSuccess, AbsOver, Service!Over, Serving, Profile, Left, JobOf
    <2>2. features \subseteq Service!Own(w)
        BY <1>2 DEF AbsSuccess, AbsOver, OwnJobs, Service!Own, Serving, Left, JobOf
    <2>3. Strayed' \/ Profile[Serving.target] \subseteq Service!Own(w)
        BY <1>2 DEF AbsSuccess, AbsOver, OwnJobs, Service!Own, Serving, Left, JobOf
    <2>4. Service!Finish(w, "Success")
        BY <1>2, <1>a, <2>1, <2>2, <2>3 DEF AbsSuccess, Service!Finish, Serving, Profile, Strayed, JobOf
    <2> QED BY <1>2, <2>4 DEF AbsSuccess
<1>3. CASE AbsFailure
    <2>1. Service!Over(w)
        BY <1>3 DEF AbsFailure, AbsOver, Service!Over, Serving, Profile, Left, JobOf
    <2>2. Service!Finish(w, answer')
        BY <1>3, <1>a, <2>1 DEF AbsFailure, Service!Finish, Strayed
    <2> QED BY <1>3, <2>2 DEF AbsFailure
<1>4. CASE AbsWork
    <2>1. PICK m \in {Profile[Serving.target], {}, {Serving.tag}} :
                Profile' = [Profile EXCEPT ![Serving.target] = m]
        BY <1>4 DEF AbsWork
    <2>2. [x \in {w} |-> Profile'] = [[x \in {w} |-> Profile] EXCEPT ![w][Serving.target] = m]
        BY <2>1
    <2>3. [x \in {w} |-> features'] = [[x \in {w} |-> features] EXCEPT ![w] = features']
        OBVIOUS
    <2>4. Service!Work(w)
        BY <1>4, <2>1, <2>2, <2>3
           DEF AbsWork, Service!Work, Serving, Profile, Left, Strayed, JobOf
    <2> QED BY <1>4, <2>4 DEF AbsWork
<1>5. CASE AbsStray
    <2>1. PICK m \in {Profile[Serving.target]} \cup {{j} : j \in Jobs} :
                Profile' = [Profile EXCEPT ![Serving.target] = m]
        BY <1>5 DEF AbsStray
    <2>2. [x \in {w} |-> Profile'] = [[x \in {w} |-> Profile] EXCEPT ![w][Serving.target] = m]
        BY <2>1
    <2>3. [x \in {w} |-> Strayed'] = [[x \in {w} |-> Strayed] EXCEPT ![w] = TRUE]
        BY <1>5, <1>a DEF AbsStray
    <2>4. Service!Stray(w)
        BY <1>5, <2>1, <2>2, <2>3
           DEF AbsStray, Service!Stray, Service!Measurements, Serving, Profile, Left, Strayed, JobOf
    <2> QED BY <1>5, <2>4 DEF AbsStray
<1>6. CASE AbsLate
    <2>1. Service!Late(w)
        BY <1>6 DEF AbsLate, Service!Late, Serving, Profile, Left, Strayed, JobOf
    <2> QED BY <1>6, <2>1 DEF AbsLate
<1>7. CASE AbsWipe
    <2>1. Service!Wipe(w)
        BY <1>7 DEF AbsWipe, Service!Wipe, Serving, Profile, Left, Strayed, JobOf
    <2> QED BY <1>7, <2>1 DEF AbsWipe
<1> QED BY <1>1, <1>2, <1>3, <1>4, <1>5, <1>6, <1>7 DEF AbsNext

-------------------------------------------------------------------------------
(* A build that was cleaned has no PyCaller before run puts it there. *)
LEMMA NextOrderInv == IInv /\ OrderInv /\ [Next]_vars => OrderInv'
<1> SUFFICES ASSUME IInv, OrderInv, [Next]_vars PROVE OrderInv'
    OBVIOUS
<1> USE DEF OrderInv, Goto, Answer, buildVars, resultVars, lateVars, historyVars,
            ActorLeft, ActorOver
<1>1. CASE \E t \in Targets, p \in Passes : ReceiveTarget(t, p)
    BY <1>1 DEF ReceiveTarget
<1>2. CASE WriteIpc \/ UnknownTarget \/ RemoveFeatures \/ Compile
           \/ \E ok \in BOOLEAN : Link(ok)
    BY <1>2 DEF WriteIpc, UnknownTarget, RemoveFeatures, Compile, Link
<1>3. CASE MakeClean
    BY <1>3 DEF MakeClean, IInv, RequestInv
<1>4. CASE MakeReturns \/ MakeFails \/ MakeOutlivesKill
    BY <1>4 DEF MakeReturns, MakeFails, MakeOutlivesKill
<1>5. CASE VerifyReturns \/ VerifyFails \/ LitOutlivesKill \/ NoExecutable \/ NoPyCaller
    BY <1>5 DEF VerifyReturns, VerifyFails, LitOutlivesKill, NoExecutable, NoPyCaller
<1>6. CASE DistributePyActor \/ RunReturns \/ RunKilled
    BY <1>6 DEF DistributePyActor, RunReturns, RunKilled
<1>7. CASE ActorStarts
    <2>1. cleaned /\ hpc = "verify" => elf[req.target] # PyCaller
        BY NamesAssumption DEF IInv, BuildInv, IsOwn
    <2> QED BY <1>7, <2>1 DEF ActorStarts
<1>8. CASE ActorGivesUp \/ ActorRecords
    BY <1>8 DEF ActorGivesUp, ActorRecords
<1>9. CASE (\E r \in compilers : LateCompiler(r)) \/ (\E r \in actors : LateActor(r))
    BY <1>9 DEF LateCompiler, LateActor
<1>10. CASE WipeResults \/ StopStart \/ UNCHANGED vars
    BY <1>10 DEF WipeResults, StopStart, vars
<1> QED BY <1>1, <1>2, <1>3, <1>4, <1>5, <1>6, <1>7, <1>8, <1>9, <1>10
        DEF Next, Handler, Actor

(* What a client sees of a worker at work, and of an idle one. *)
LEMMA ServingFacts ==
    ASSUME TypeOK, RequestInv
    PROVE  /\ hpc = "idle" => Serving = None
           /\ hpc # "idle" => /\ Serving = JobOf(req)
                              /\ Serving # None
                              /\ Serving.tag = req.job /\ Serving.target = req.target
                              /\ req.job \in Jobs /\ req.target \in Targets
BY RequestType, NamesAssumption DEF Serving, JobOf

(* The jobs whose results may be there are those of the request and of survivors. *)
LEMMA OwnFacts ==
    ASSUME TypeOK, RequestInv, hpc # "idle"
    PROVE  OwnJobs = {req.job} \cup JobsOf(compilers) \cup JobsOf(actors)
<1>1. Serving.tag = req.job
    BY ServingFacts
<1>2. \A r : JobOf(r).tag = r.job
    BY DEF JobOf
<1>3. \A i : (\E j \in Left : j.tag = i) <=> (\E r \in compilers \cup actors : r.job = i)
    BY <1>2 DEF Left
<1> QED BY <1>1, <1>3 DEF OwnJobs, JobsOf

(* Results that stay where they are look the same. *)
LEMMA SameResults ==
    ASSUME usage' = usage
    PROVE  Profile' = Profile
BY DEF Profile

(* The survivors of a step are those there were, and perhaps the request's. *)
LEMMA SurvivorsOfStep ==
    ASSUME compilers' \in {compilers, compilers \cup {req}},
           actors' \in {actors, actors \cup {req}}
    PROVE  Left' \in {Left, Left \cup {JobOf(req)}}
BY DEF Left

(* A measurement of the request's target is replaced. *)
LEMMA ProfileSet ==
    ASSUME TypeOK, NEW t \in Targets, NEW u \in 0 .. MaxJobs,
           usage' = [usage EXCEPT ![t] = u]
    PROVE  Profile' = [Profile EXCEPT ![t] = IF u = 0 THEN {} ELSE {u}]
<1> DEFINE m == IF u = 0 THEN {} ELSE {u}
<1>1. usage'[t] = u /\ \A x \in Targets : x # t => usage'[x] = usage[x]
    BY DEF TypeOK
<1>2. Profile' = [x \in Targets |-> IF x = t THEN m ELSE Profile[x]]
    BY <1>1 DEF Profile
<1>3. [Profile EXCEPT ![t] = m] = [x \in Targets |-> IF x = t THEN m ELSE Profile[x]]
    BY DEF Profile
<1> QED BY <1>2, <1>3

(* A job at work that stays one, and puts its own results in place. *)
LEMMA OwnWork ==
    ASSUME TypeOK, RequestInv, hpc # "idle", hpc' # "idle", InBuild' = InBuild,
           UNCHANGED <<req, answer, cleaned, compilers, actors>>,
           NEW u \in {usage[req.target], 0, req.job},
           usage' = [usage EXCEPT ![req.target] = u],
           features' \in {features, {}, features \cup {req.job}}
    PROVE  AbsWork
<1>1. /\ Serving # None /\ Serving.tag = req.job /\ Serving.target = req.target
      /\ req.job \in Jobs /\ req.target \in Targets
    BY ServingFacts
<1>2. u \in 0 .. MaxJobs /\ (u = req.job => u # 0)
    BY <1>1, DaemonAssumption DEF TypeOK, Jobs
<1> DEFINE m == IF u = 0 THEN {} ELSE {u}
<1>3. Profile' = [Profile EXCEPT ![Serving.target] = m]
    BY <1>1, <1>2, ProfileSet
<1>4. m \in {Profile[Serving.target], {}, {Serving.tag}}
    BY <1>1, <1>2 DEF Profile
<1>5. Serving' = Serving /\ Left' = Left /\ Strayed' = Strayed
    BY DEF Serving, Left, Strayed, Served
<1> HIDE DEF m
<1> QED BY <1>1, <1>3, <1>4, <1>5 DEF AbsWork

(***************************************************************************)
(* Every step of the worker is one that its clients know, whatever has     *)
(* survived and whatever of the files was there before.                    *)
(***************************************************************************)
LEMMA StepSimulates ==
    ASSUME IInv, IInv', OrderInv, Next
    PROVE  AbsNext \/ UNCHANGED seen
<1>0. /\ TypeOK /\ RequestInv /\ TypeOK' /\ RequestInv'
    BY DEF IInv
<1>a. /\ hpc = "idle" => Serving = None
      /\ hpc # "idle" => /\ Serving = JobOf(req)
                         /\ Serving # None
                         /\ Serving.tag = req.job /\ Serving.target = req.target
                         /\ req.job \in Jobs /\ req.target \in Targets
    BY <1>0, ServingFacts
<1>b. /\ hpc' = "idle" => Serving' = None
      /\ hpc' # "idle" => Serving' = JobOf(req')
    BY DEF Serving
<1>c. \/ ~UNCHANGED <<compilers, actors>>
      \/ Left' = Left
    BY DEF Left
<1> USE DEF Goto, Answer, buildVars, resultVars, lateVars, historyVars
<1>1. CASE \E t \in Targets, p \in Passes : ReceiveTarget(t, p)
    <2>1. PICK t \in Targets, p \in Passes : ReceiveTarget(t, p)
        BY <1>1
    <2>2. req' \in Requests
        BY <1>0, <2>1, NewRequest
    <2>3. Serving = None /\ Serving' \in [tag : Jobs, target : Targets]
        BY <1>a, <1>b, <2>1, <2>2 DEF ReceiveTarget, Requests, JobOf
    <2>4. UNCHANGED <<Profile, features, Left>> /\ answer' = "none"
        BY <1>c, <2>1, SameResults DEF ReceiveTarget
    <2>5. ~Strayed'
        BY <2>1 DEF ReceiveTarget, Strayed, Served, InBuild
    <2> QED BY <2>3, <2>4, <2>5 DEF AbsTake, AbsNext
<1>2. CASE WriteIpc \/ (\E ok \in BOOLEAN : Link(ok)) \/ MakeReturns
           \/ VerifyReturns \/ DistributePyActor \/ ActorGivesUp
    <2>1. /\ UNCHANGED <<usage, features, answer, req, compilers, actors, cleaned>>
          /\ hpc # "idle" /\ hpc' # "idle" /\ InBuild' = InBuild
        <3>1. CASE \E ok \in BOOLEAN : Link(ok)
            BY <3>1 DEF Link, InBuild
        <3>2. CASE ActorGivesUp
            BY <1>0, <3>2 DEF ActorGivesUp, RequestInv, InBuild
        <3>3. CASE WriteIpc \/ MakeReturns \/ VerifyReturns \/ DistributePyActor
            BY <3>3 DEF WriteIpc, MakeReturns, VerifyReturns, DistributePyActor, InBuild
        <3> QED BY <1>2, <3>1, <3>2, <3>3
    <2>2. Serving' = Serving
        BY <1>a, <1>b, <2>1
    <2>3. Strayed' = Strayed
        BY <2>1 DEF Strayed, Served
    <2> QED BY <1>c, <2>1, <2>2, <2>3, SameResults DEF seen
<1>3. CASE MakeClean
    <2>1. /\ UNCHANGED <<usage, features, answer, req, compilers, actors>>
          /\ hpc = "clean" /\ hpc' = "rmFeatures" /\ ~cleaned /\ ~Strayed
          /\ Serving' = Serving /\ Left' = Left /\ Profile' = Profile
        BY <1>0, <1>a, <1>b, <1>c, <1>3, SameResults
           DEF MakeClean, RequestInv, Strayed, Served, InBuild
    <2>2. Strayed' = ~cleaned'
        BY <2>1 DEF Strayed, Served, InBuild
    <2>3. CASE cleaned'
        <3>1. Strayed' = Strayed
            BY <2>1, <2>2, <2>3 DEF Strayed
        <3> QED BY <2>1, <3>1 DEF seen
    <2>4. CASE ~cleaned'
        <3>1. Profile' = [Profile EXCEPT ![Serving.target] = Profile[Serving.target]]
            BY <2>1 DEF Profile
        <3> QED BY <1>a, <2>1, <2>2, <2>4, <3>1 DEF AbsStray, AbsNext
    <2> QED BY <2>3, <2>4
<1>4. ASSUME hpc # "idle", hpc' = "idle", UNCHANGED <<usage, features>>,
             compilers' \in {compilers, compilers \cup {req}},
             actors' \in {actors, actors \cup {req}}
      PROVE  AbsOver
    BY <1>a, <1>b, <1>4, SameResults, SurvivorsOfStep DEF AbsOver
<1>5. CASE UnknownTarget \/ MakeFails \/ MakeOutlivesKill \/ VerifyFails \/ LitOutlivesKill
           \/ NoExecutable \/ NoPyCaller
    <2>1. /\ UNCHANGED <<usage, features>> /\ answer' \in {"Failed", "closed"}
          /\ hpc # "idle" /\ hpc' = "idle"
          /\ compilers' \in {compilers, compilers \cup {req}}
          /\ actors' \in {actors, actors \cup {req}}
        BY <1>5 DEF UnknownTarget, MakeFails, MakeOutlivesKill, VerifyFails, LitOutlivesKill,
                    NoExecutable, NoPyCaller, ActorLeft
    <2>2. ~Strayed'
        BY <2>1 DEF Strayed, Served, InBuild
    <2> QED BY <1>4, <2>1, <2>2 DEF AbsFailure, AbsNext
<1>6. CASE RunReturns \/ RunKilled
    <2>1. /\ UNCHANGED <<usage, features, cleaned>> /\ answer' = "Success"
          /\ hpc = "run" /\ hpc' = "idle" /\ (actor = "off" => actor' = "off")
          /\ compilers' \in {compilers, compilers \cup {req}}
          /\ actors' \in {actors, actors \cup {req}}
        BY <1>6 DEF RunReturns, RunKilled, ActorLeft
    <2>2. features \subseteq OwnJobs
        BY <1>0, <2>1, OwnFacts DEF IInv, FeaturesInv
    <2>3. Strayed' = (~cleaned \/ actor' = "off") /\ (Strayed => ~cleaned)
        BY <2>1 DEF Strayed, Served, InBuild
    <2>4. ASSUME cleaned, actor # "off"
          PROVE  Profile[Serving.target] \subseteq OwnJobs
        <3>1. usage[req.target] \in {0, req.job} \cup JobsOf(actors)
            BY <2>1, <2>4 DEF IInv, UsageInv, Built
        <3>2. Profile[req.target] = IF usage[req.target] = 0 THEN {} ELSE {usage[req.target]}
            BY <1>a, <2>1 DEF Profile
        <3> QED BY <1>0, <1>a, <2>1, <3>1, <3>2, OwnFacts
    <2>5. AbsSuccess
        BY <1>4, <2>1, <2>2, <2>3, <2>4 DEF AbsSuccess
    <2> QED BY <2>5 DEF AbsNext
<1>7. CASE RemoveFeatures \/ Compile \/ ActorStarts
    <2>1. /\ hpc # "idle" /\ hpc' # "idle" /\ InBuild' = InBuild
          /\ UNCHANGED <<req, answer, cleaned, compilers, actors>>
        BY <1>7 DEF RemoveFeatures, Compile, ActorStarts, InBuild
    <2>2. req.target \in Targets /\ usage \in [Targets -> 0 .. MaxJobs]
        BY <1>0, <1>a, <2>1 DEF TypeOK
    <2>3. PICK u \in {usage[req.target], 0, req.job} : usage' = [usage EXCEPT ![req.target] = u]
        BY <1>7, <2>2 DEF RemoveFeatures, Compile, ActorStarts
    <2>4. features' \in {features, {}, features \cup {req.job}}
        BY <1>7 DEF RemoveFeatures, Compile, ActorStarts
    <2> QED BY <1>0, <2>1, <2>3, <2>4, OwnWork DEF AbsNext
<1>8. CASE ActorRecords
    <2>1. /\ hpc \in {"verify", "run"} /\ hpc' = hpc /\ InBuild /\ InBuild' = InBuild
          /\ UNCHANGED <<req, answer, cleaned, compilers, actors, features>>
          /\ actor = "profiling"
        BY <1>0, <1>8 DEF ActorRecords, RequestInv, InBuild
    <2>2. req.target \in Targets /\ usage \in [Targets -> 0 .. MaxJobs]
        BY <1>0, <1>a, <2>1 DEF TypeOK
    <2>3. oriElf[req.target].job \in Jobs
        BY <1>0, <1>8, <2>2 DEF ActorRecords, Record, TypeOK, Builds
    <2>4. CASE cleaned
        <3>1. oriElf[req.target].job = req.job
            BY <2>1, <2>4 DEF OrderInv, IInv, BuildInv, Built, IsOwn
        <3>2. PICK u \in {usage[req.target], 0, req.job} :
                    usage' = [usage EXCEPT ![req.target] = u]
            BY <1>8, <2>2, <3>1 DEF ActorRecords, Record
        <3>3. hpc # "idle" /\ hpc' # "idle"
            BY <2>1
        <3> QED BY <1>0, <2>1, <3>2, <3>3, OwnWork DEF AbsNext
    <2>5. CASE ~cleaned
        <3>1. Serving' = Serving /\ Strayed' /\ Left' = Left
            BY <1>a, <1>b, <1>c, <2>1, <2>5 DEF Strayed, Served
        <3>2. CASE usage' = usage
            <4>1. Profile' = [Profile EXCEPT ![Serving.target] = Profile[Serving.target]]
                BY <3>2 DEF Profile
            <4> QED BY <1>a, <2>1, <3>1, <4>1 DEF AbsStray, AbsNext
        <3>3. CASE usage' = [usage EXCEPT ![req.target] = oriElf[req.target].job]
            <4>1. oriElf[req.target].job \in 0 .. MaxJobs /\ oriElf[req.target].job # 0
                BY <2>3, DaemonAssumption DEF Jobs
            <4>2. Profile' = [Profile EXCEPT ![Serving.target] = {oriElf[req.target].job}]
                BY <1>0, <1>a, <2>1, <2>2, <3>3, <4>1, ProfileSet
            <4> QED BY <1>a, <2>1, <2>3, <3>1, <4>2 DEF AbsStray, AbsNext
        <3> QED BY <1>8, <3>2, <3>3 DEF ActorRecords, Record
    <2> QED BY <2>4, <2>5
<1>9. CASE \E r \in compilers : LateCompiler(r)
    <2>1. PICK r \in compilers : LateCompiler(r)
        BY <1>9
    <2>2. UNCHANGED <<Serving, Profile, Left, Strayed, answer>>
        BY <1>c, <2>1, SameResults DEF LateCompiler, Serving, Strayed, Served, InBuild
    <2>3. JobOf(r) \in Left /\ JobOf(r).tag = r.job
        BY <2>1 DEF Left, JobOf
    <2>4. features' = features \/ features' = features \cup {JobOf(r).tag}
        BY <2>1, <2>3 DEF LateCompiler
    <2> QED BY <2>2, <2>3, <2>4 DEF AbsLate, AbsNext, seen
<1>10. CASE \E r \in actors : LateActor(r)
    <2>1. PICK r \in actors : LateActor(r)
        BY <1>10
    <2>2. UNCHANGED <<Serving, features, Left, Strayed, answer>>
        BY <1>c, <2>1 DEF LateActor, Serving, Strayed, Served, InBuild
    <2>3. JobOf(r) \in Left /\ JobOf(r).tag = r.job /\ JobOf(r).target = r.target
        BY <2>1 DEF Left, JobOf
    <2>4. r.target \in Targets /\ r.job \in 0 .. MaxJobs /\ r.job # 0
        BY <1>0, <2>1, DaemonAssumption DEF TypeOK, Requests, Jobs
    <2>5. CASE usage' = usage
        BY <2>2, <2>5, SameResults DEF seen
    <2>6. CASE usage' = [usage EXCEPT ![r.target] = r.job]
        <3>1. Profile' = [Profile EXCEPT ![JobOf(r).target] = {JobOf(r).tag}]
            BY <1>0, <2>3, <2>4, <2>6, ProfileSet
        <3> QED BY <2>2, <2>3, <3>1 DEF AbsLate, AbsNext
    <2> QED BY <2>1, <2>5, <2>6 DEF LateActor
<1>11. CASE WipeResults
    <2>1. Profile' = [t \in Targets |-> {}] /\ features' = {}
        BY <1>11 DEF WipeResults, Profile
    <2>2. UNCHANGED <<Serving, Left, Strayed, answer>>
        BY <1>c, <1>11 DEF WipeResults, Serving, Strayed, Served, InBuild
    <2> QED BY <2>1, <2>2 DEF AbsWipe, AbsNext
<1>12. CASE StopStart
    <2>1. UNCHANGED <<usage, features, req, cleaned>> /\ hpc' = "idle"
        BY <1>12 DEF StopStart
    <2>2. CASE hpc = "idle"
        <3>1. UNCHANGED <<answer, compilers, actors, actor, hpc>>
            BY <1>0, <1>12, <2>2 DEF StopStart, ActorLeft, RequestInv
        <3>2. Strayed' = Strayed
            BY <2>1, <3>1 DEF Strayed, Served, InBuild
        <3> QED BY <1>a, <1>b, <1>c, <2>1, <2>2, <3>1, <3>2, SameResults DEF seen
    <2>3. CASE hpc # "idle"
        <3>1. /\ answer' = "closed"
              /\ compilers' \in {compilers, compilers \cup {req}}
              /\ actors' \in {actors, actors \cup {req}}
            BY <1>12, <2>3 DEF StopStart, ActorLeft
        <3>2. ~Strayed'
            BY <2>1, <3>1 DEF Strayed, Served, InBuild
        <3> QED BY <1>4, <2>1, <2>3, <3>1, <3>2 DEF AbsFailure, AbsNext
    <2> QED BY <2>2, <2>3
<1>13. CASE UNCHANGED vars
    BY <1>13 DEF vars, seen, Serving, Profile, Left, Strayed, Served, InBuild
<1> QED BY <1>1, <1>2, <1>3, <1>5, <1>6, <1>7, <1>8, <1>9, <1>10, <1>11, <1>12, <1>13
        DEF Next, Handler, Actor

(***************************************************************************)
(* EnvEcho, the compilers, the PyActor, what survives kills and what       *)
(* restarts do implement the one-job-at-a-time worker that TrainingEnv.tla *)
(* is built on, in every behaviour and for any number of requests.         *)
(***************************************************************************)
THEOREM EnvImplementsService == Spec => ServiceRefined
<1>1. Init => OrderInv
    BY DEF Init, OrderInv
<1>2. Spec => []OrderInv
    BY <1>1, NextOrderInv, Invariance, PTL DEF Spec
<1>3. ASSUME Init
      PROVE  Service!ServiceInit /\ [w \in {"self"} |-> answer] = [w \in {"self"} |-> "none"]
    <2>1. /\ Serving = None /\ Profile = [t \in Targets |-> {}] /\ features = {}
          /\ Left = {} /\ Strayed = FALSE
        BY <1>3 DEF Init, Serving, Profile, Left, Strayed, Served, InBuild
    <2> QED BY <1>3, <2>1 DEF Init, Service!ServiceInit, Serving, Profile, Left, Strayed, JobOf
<1>4. ASSUME IInv, IInv', OrderInv, [Next]_vars
      PROVE  [Service!ServiceNext]_(Service!serviceVars)
    <2>1. AbsNext \/ UNCHANGED seen
        <3>1. CASE UNCHANGED vars
            BY <3>1 DEF vars, buildVars, resultVars, lateVars, historyVars,
                        seen, Serving, Profile, Left, Strayed, Served, InBuild
        <3> QED BY <1>4, <3>1, StepSimulates
    <2>2. CASE UNCHANGED seen
        BY <2>2 DEF Service!serviceVars, seen, Serving, Profile, Left, Strayed, JobOf
    <2> QED BY <2>1, <2>2, AbsIsService
<1> QED BY <1>2, <1>3, <1>4, Invariance, PTL DEF Spec, ServiceRefined, Service!ServiceSpec

===============================================================================
