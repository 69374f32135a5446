------------------------------ MODULE EnvDaemon ------------------------------
(***************************************************************************)
(* One worker of the training framework: the Env daemon that serves        *)
(* "target", "profiled" and "features" requests one at a time              *)
(* (EnvTcpHandler.handle and EnvResponseActor.EnvEcho), the Clang daemon   *)
(* that hands the passes in the IPC file to the compiler, the files they   *)
(* share, and the PyActor that profiles the program under test.            *)
(*                                                                         *)
(* Data are reduced to where they come from.  A "target" request has a     *)
(* number, its job; a file of measurements is the job of the build that    *)
(* was measured; an executable is the job that built it, the passes its    *)
(* objects were compiled with, and whether it computes the right output.   *)
(***************************************************************************)
EXTENDS Naturals, FiniteSets

CONSTANTS Targets,      \* build targets that clients name
          LitTests,     \* the keys of LitTestDict, the measurable ones
          Passes,       \* pass lists; NoPasses is the empty one
          NoPasses,
          PyCaller,     \* the profiling stub copied over the executable
          None,
          MaxJobs,      \* bound: "target" requests
          MaxRestarts   \* bound: wipes and restarts

ASSUME DaemonAssumption ==
    /\ LitTests \subseteq Targets
    /\ NoPasses \in Passes
    /\ MaxJobs \in Nat /\ MaxRestarts \in Nat

Jobs == 1 .. MaxJobs
Requests == [job : Jobs, target : Targets, passes : Passes]
Builds == [job : Jobs, passes : SUBSET Passes, ok : BOOLEAN]

ASSUME NamesAssumption ==
    /\ None \notin Requests /\ None \notin [tag : Jobs, target : Targets]
    /\ None # PyCaller
    /\ None \notin Builds /\ PyCaller \notin Builds

VARIABLES
    hpc,        \* where EnvTcpHandler is; "idle" when it waits for a request
    req,        \* the last "target" request, or None
    answer,     \* what it was answered with
    ipc,        \* the contents of /tmp/PredictionDaemon-IPC-<n>
    objects,    \* the passes of the objects of the current build
    elf,        \* [Targets -> what is at ElfPath]
    oriElf,     \* [Targets -> what is at ElfPath.OriElf]
    dir,        \* whether /tmp/PredictionDaemon/worker-<n> exists
    usage,      \* [Targets -> the job measured in <target>.usage], 0: no file
    features,   \* the jobs whose compilations are in the features file
    actor,      \* the PyActor of the current lit run
    compilers,  \* requests of which a compiler survived a kill
    actors,     \* requests of which a PyActor survived a kill
    cleaned,    \* whether "make clean" worked for the current request
    verdict,    \* what lit said of the current build, and nothing reads
    restarts

buildVars == <<ipc, objects, elf, oriElf>>
resultVars == <<dir, usage, features>>
lateVars == <<compilers, actors>>
historyVars == <<cleaned, verdict, restarts>>
vars == <<hpc, req, answer, buildVars, resultVars, actor, lateVars, historyVars>>

Init ==
    /\ hpc = "idle" /\ req = None /\ answer = "none"
    /\ ipc = NoPasses /\ objects = {}
    /\ elf = [t \in Targets |-> None] /\ oriElf = [t \in Targets |-> None]
    /\ dir = FALSE /\ usage = [t \in Targets |-> 0] /\ features = {}
    /\ actor = "off" /\ compilers = {} /\ actors = {}
    /\ cleaned = FALSE /\ verdict = FALSE /\ restarts = 0

Goto(from, to) == hpc = from /\ hpc' = to

(* The handler returns: the client has its answer, or none if "closed". *)
Answer(from, status) == Goto(from, "idle") /\ answer' = status

LastJob == IF req = None THEN 0 ELSE req.job

-------------------------------------------------------------------------------
(* "target @ t @ p" *)

ReceiveTarget(t, p) ==
    /\ Goto("idle", "ipc")
    /\ LastJob < MaxJobs
    /\ req' = [job |-> LastJob + 1, target |-> t, passes |-> p]
    /\ answer' = "none" /\ cleaned' = FALSE /\ verdict' = FALSE
    /\ UNCHANGED <<buildVars, resultVars, actor, lateVars, restarts>>

(* Bug variant: the passes of the last request stay in the IPC file. *)
WriteIpc_NotWritten ==
    /\ Goto("ipc", "clean")
    /\ UNCHANGED <<req, answer, buildVars, resultVars, actor, lateVars, historyVars>>

WriteIpc ==
    /\ Goto("ipc", "clean")
    /\ ipc' = req.passes
    /\ UNCHANGED <<req, answer, objects, elf, oriElf, resultVars, actor, lateVars,
                   historyVars>>

(***************************************************************************)
(* LitTestDict[BuildTarget] raises KeyError: socketserver logs it and      *)
(* closes the connection without an answer.                                *)
(***************************************************************************)
UnknownTarget ==
    /\ Answer("clean", "closed")
    /\ req.target \notin LitTests
    /\ UNCHANGED <<req, buildVars, resultVars, actor, lateVars, historyVars>>

(* os.system("make clean"), whose status is not looked at. *)
MakeClean ==
    /\ Goto("clean", "rmFeatures")
    /\ req.target \in LitTests
    /\ \/ /\ cleaned' = TRUE
          /\ elf' = [elf EXCEPT ![req.target] = None]
          /\ objects' = {}
       \/ UNCHANGED <<cleaned, elf, objects>>
    /\ UNCHANGED <<req, answer, ipc, oriElf, resultVars, actor, lateVars, verdict,
                   restarts>>

(* Bug variant: compilers append to the features of the last request. *)
RemoveFeatures_Kept ==
    /\ Goto("rmFeatures", "make")
    /\ UNCHANGED <<req, answer, buildVars, resultVars, actor, lateVars, historyVars>>

RemoveFeatures ==
    /\ Goto("rmFeatures", "make")
    /\ features' = {}
    /\ UNCHANGED <<req, answer, buildVars, dir, usage, actor, lateVars, historyVars>>

(***************************************************************************)
(* One compiler of make: the Clang daemon (ClangTcpHandler.handle) sends   *)
(* it the contents of the IPC file, and it appends to the features file.   *)
(* An executable that is still there is up to date for make.               *)
(***************************************************************************)
Compile ==
    /\ hpc = "make" /\ elf[req.target] = None
    /\ objects' = objects \cup {ipc}
    /\ \/ dir' = TRUE /\ features' = features \cup {req.job}
       \/ ~dir /\ UNCHANGED <<dir, features>>
    /\ UNCHANGED <<hpc, req, answer, ipc, elf, oriElf, usage, actor, lateVars,
                   historyVars>>

Link(ok) ==
    /\ hpc = "make" /\ elf[req.target] = None /\ objects # {}
    /\ elf' = [elf EXCEPT ![req.target] =
                  [job |-> req.job, passes |-> objects, ok |-> ok]]
    /\ UNCHANGED <<hpc, req, answer, ipc, objects, oriElf, resultVars, actor,
                   lateVars, historyVars>>

(***************************************************************************)
(* make has ended, with or without an executable.  LimitTimeExec gives     *)
(* (False, 0) for both: what make returned is lost.                        *)
(***************************************************************************)
MakeReturns ==
    /\ Goto("make", "verify")
    /\ actor' = "off"
    /\ UNCHANGED <<req, answer, buildVars, resultVars, lateVars, historyVars>>

(***************************************************************************)
(* LimitTimeExec killed make after 900 seconds, a compiler perhaps not, or *)
(* its process ended with an error.                                        *)
(***************************************************************************)
MakeFails ==
    /\ Answer("make", "Failed")
    /\ compilers' \in {compilers, compilers \cup {req}}
    /\ UNCHANGED <<req, buildVars, resultVars, actor, actors, historyVars>>

(* The kill did not work within ten seconds: sys.exit(0) in the handler. *)
MakeOutlivesKill ==
    /\ Answer("make", "closed")
    /\ compilers' = compilers \cup {req}
    /\ UNCHANGED <<req, buildVars, resultVars, actor, actors, historyVars>>

(***************************************************************************)
(* lit runs the test.  A PyCaller that is still there starts the PyActor,  *)
(* and has to have ended before lit does.                                  *)
(***************************************************************************)
ActorOver == actor # "profiling"

VerifyReturns ==
    /\ ActorOver
    /\ Goto("verify", "distribute")
    /\ verdict' = (elf[req.target] \notin {None, PyCaller} /\ elf[req.target].ok)
    /\ UNCHANGED <<req, answer, buildVars, resultVars, actor, lateVars, cleaned,
                   restarts>>

(* The PyActor of a killed lit is killed, or has escaped. *)
ActorLeft ==
    /\ actor' = IF actor = "profiling" THEN "killed" ELSE actor
    /\ actors' \in {actors, IF actor = "profiling" THEN actors \cup {req} ELSE actors}

VerifyFails ==
    /\ Answer("verify", "Failed")
    /\ ActorLeft
    /\ UNCHANGED <<req, buildVars, resultVars, compilers, historyVars>>

(* As MakeOutlivesKill, for lit in verify and in run. *)
LitOutlivesKill ==
    /\ \E from \in {"verify", "run"} : Answer(from, "closed")
    /\ ActorLeft
    /\ UNCHANGED <<req, buildVars, resultVars, compilers, historyVars>>

(***************************************************************************)
(* distributePyActor: the executable is moved away (a missing one raises)  *)
(* and PyCaller put in its place, or not found.                            *)
(***************************************************************************)
DistributePyActor ==
    /\ Goto("distribute", "run")
    /\ elf[req.target] # None
    /\ oriElf' = [oriElf EXCEPT ![req.target] = elf[req.target]]
    /\ elf' = [elf EXCEPT ![req.target] = PyCaller]
    /\ actor' = "off"
    /\ UNCHANGED <<req, answer, ipc, objects, resultVars, lateVars, historyVars>>

(* Bug variant: builds again until there is an executable. *)
NoExecutable_BuildsAgain ==
    /\ Goto("distribute", "make")
    /\ elf[req.target] = None
    /\ UNCHANGED <<req, answer, buildVars, resultVars, actor, lateVars, historyVars>>

NoExecutable ==
    /\ Answer("distribute", "Failed")
    /\ elf[req.target] = None
    /\ UNCHANGED <<req, buildVars, resultVars, actor, lateVars, historyVars>>

NoPyCaller ==
    /\ Answer("distribute", "Failed")
    /\ elf[req.target] # None
    /\ oriElf' = [oriElf EXCEPT ![req.target] = elf[req.target]]
    /\ elf' = [elf EXCEPT ![req.target] = None]
    /\ UNCHANGED <<req, ipc, objects, resultVars, actor, lateVars, historyVars>>

(* env.run(), whose result EnvEcho ignores: lit ends, or is killed. *)
RunReturns ==
    /\ ActorOver
    /\ Answer("run", "Success")
    /\ UNCHANGED <<req, buildVars, resultVars, actor, lateVars, historyVars>>

RunKilled ==
    /\ Answer("run", "Success")
    /\ ActorLeft
    /\ UNCHANGED <<req, buildVars, resultVars, compilers, historyVars>>

Handler ==
    \/ WriteIpc \/ UnknownTarget \/ MakeClean \/ RemoveFeatures
    \/ MakeReturns \/ MakeFails \/ MakeOutlivesKill
    \/ VerifyReturns \/ VerifyFails \/ LitOutlivesKill
    \/ DistributePyActor \/ NoExecutable \/ NoPyCaller
    \/ RunReturns \/ RunKilled

-------------------------------------------------------------------------------
(* PyActorService.Executor.run, under lit *)

(* Bug variant: the last measurement is not removed before the next one. *)
ActorStarts_KeepsUsage ==
    /\ hpc \in {"verify", "run"} /\ elf[req.target] = PyCaller
    /\ actor \in {"off", "over"}
    /\ actor' = "profiling"
    /\ dir' = TRUE
    /\ UNCHANGED <<hpc, req, answer, buildVars, usage, features, lateVars, historyVars>>

ActorStarts ==
    /\ hpc \in {"verify", "run"} /\ elf[req.target] = PyCaller
    /\ actor \in {"off", "over"}
    /\ actor' = "profiling"
    /\ dir' = TRUE
    /\ usage' = [usage EXCEPT ![req.target] = 0]
    /\ UNCHANGED <<hpc, req, answer, buildVars, features, lateVars, historyVars>>

(* An exception while profiling, or a program that dies on a signal. *)
ActorGivesUp ==
    /\ actor = "profiling"
    /\ actor' = "over"
    /\ UNCHANGED <<hpc, req, answer, buildVars, resultVars, lateVars, historyVars>>

(* recordTargetInfo; a directory that was removed meanwhile raises. *)
Record(t) ==
    /\ oriElf[t] \notin {None, PyCaller}
    /\ usage' = IF dir THEN [usage EXCEPT ![t] = oriElf[t].job] ELSE usage

ActorRecords ==
    /\ actor = "profiling"
    /\ actor' = "over"
    /\ Record(req.target)
    /\ UNCHANGED <<hpc, req, answer, buildVars, dir, features, lateVars, historyVars>>

Actor == ActorStarts \/ ActorGivesUp \/ ActorRecords

-------------------------------------------------------------------------------
(* What survived a kill goes on. *)

LateCompiler(r) ==
    /\ r \in compilers
    /\ \/ dir /\ features' = features \cup {r.job}
       \/ features' = features
    /\ objects' \in {objects, IF r.target = req.target THEN objects \cup {r.passes}
                              ELSE objects}
    /\ UNCHANGED <<hpc, req, answer, ipc, elf, oriElf, dir, usage, actor, lateVars,
                   historyVars>>

(* It measured the executable of its own request. *)
LateActor(r) ==
    /\ r \in actors
    /\ usage' = IF dir THEN [usage EXCEPT ![r.target] = r.job] ELSE usage
    /\ UNCHANGED <<hpc, req, answer, buildVars, dir, features, actor, lateVars,
                   historyVars>>

-------------------------------------------------------------------------------
(* DaemonStart.sh *)

(***************************************************************************)
(* rm -rf /tmp/PredictionDaemon: the results of this worker, whichever     *)
(* worker is being restarted.                                              *)
(***************************************************************************)
WipeResults ==
    /\ restarts < MaxRestarts /\ restarts' = restarts + 1
    /\ dir' = FALSE /\ usage' = [t \in Targets |-> 0] /\ features' = {}
    /\ UNCHANGED <<hpc, req, answer, buildVars, actor, lateVars, cleaned, verdict>>

(***************************************************************************)
(* PredictionDaemon.py stop and start: the handler and its children are    *)
(* killed, one of them perhaps not, and the IPC file is emptied.           *)
(***************************************************************************)
StopStart ==
    /\ restarts < MaxRestarts /\ restarts' = restarts + 1
    /\ hpc' = "idle"
    /\ answer' = IF hpc = "idle" THEN answer ELSE "closed"
    /\ ipc' = NoPasses
    /\ compilers' \in {compilers, IF hpc = "make" THEN compilers \cup {req} ELSE compilers}
    /\ ActorLeft
    /\ UNCHANGED <<req, objects, elf, oriElf, resultVars, cleaned, verdict>>

Exhausted == hpc = "idle" /\ LastJob = MaxJobs

Next ==
    \/ \E t \in Targets, p \in Passes : ReceiveTarget(t, p)
    \/ Handler
    \/ Compile \/ \E ok \in BOOLEAN : Link(ok)
    \/ Actor
    \/ \E r \in compilers : LateCompiler(r)
    \/ \E r \in actors : LateActor(r)
    \/ WipeResults \/ StopStart
    \/ Exhausted /\ UNCHANGED vars

(***************************************************************************)
(* The handler goes on: make, verify and run each end by LimitTimeExec     *)
(* (CallEnds there), the rest is file operations and "make clean".         *)
(* Nothing obliges a client to send, a compiler or the PyActor to end.     *)
(***************************************************************************)
Spec == Init /\ [][Next]_vars /\ WF_vars(Handler)

-------------------------------------------------------------------------------
(* Properties *)

(* The variables have the values their declarations say. *)
TypeOK ==
    /\ hpc \in {"idle", "ipc", "clean", "rmFeatures", "make", "verify", "distribute", "run"}
    /\ req = None \/ req \in Requests
    /\ answer \in {"none", "Success", "Failed", "closed"}
    /\ ipc \in Passes /\ objects \in SUBSET Passes
    /\ elf \in [Targets -> {None, PyCaller} \cup Builds]
    /\ oriElf \in [Targets -> {None, PyCaller} \cup Builds]
    /\ dir \in BOOLEAN
    /\ usage \in [Targets -> 0 .. MaxJobs]
    /\ features \in SUBSET Jobs
    /\ actor \in {"off", "profiling", "over", "killed"}
    /\ compilers \in SUBSET Requests /\ actors \in SUBSET Requests
    /\ cleaned \in BOOLEAN /\ verdict \in BOOLEAN
    /\ restarts \in 0 .. MaxRestarts

Served == hpc = "idle" /\ answer = "Success"

JobsOf(S) == {r.job : r \in S}

(***************************************************************************)
(* "Success" for a request is about a build of that request: EnvEcho does  *)
(* not see that make failed, but a build that failed never reaches the     *)
(* profiled executable.  All of it was compiled with the passes of the     *)
(* request, unless a compiler of a killed request came in between.         *)
(***************************************************************************)
SuccessIsOwnBuild ==
    Served /\ cleaned =>
        LET b == oriElf[req.target] IN
        /\ b \notin {None, PyCaller}
        /\ b.job = req.job
        /\ b.passes \subseteq {req.passes} \cup {r.passes : r \in compilers}

(***************************************************************************)
(* Nobody removes <target>.usage but the PyActor, when it starts.  Then a  *)
(* "profiled" request after "Success" gets the measurement of this build   *)
(* or that there is none, never that of an earlier request for the target, *)
(* unless its PyActor survived a kill.                                     *)
(***************************************************************************)
ProfileIsOwn ==
    Served /\ cleaned /\ actor # "off" =>
        usage[req.target] \in {0, req.job} \cup JobsOf(actors)

(***************************************************************************)
(* The features a client gets after "Success" are those of the compilers   *)
(* of its own request, and of compilers that survived a kill.              *)
(***************************************************************************)
FeaturesAreOwn == Served => features \subseteq {req.job} \cup JobsOf(compilers)

(* Every request is answered, or its connection closed. *)
RequestEnds == (hpc = "ipc") ~> (hpc = "idle")

(***************************************************************************)
(* Lib.py, lines 282 and 283, of verify(): "0 --> success and correct,     *)
(* others --> failed", and line 409, "We already use env.verify() to       *)
(* verify it": what is answered "Success" has been verified.               *)
(***************************************************************************)
SuccessIsVerified == Served /\ cleaned => verdict

-------------------------------------------------------------------------------
(***************************************************************************)
(* The worker as its clients see it, WorkerServiceSpec.tla.  A job strays  *)
(* when "make clean" fails, or when there was no PyCaller to run the       *)
(* PyActor, or one that could not.                                         *)
(***************************************************************************)
InBuild == hpc \in {"rmFeatures", "make", "verify", "distribute", "run"}

Service == INSTANCE WorkerServiceSpec WITH
    Workers <- {"self"},
    answered <- [w \in {"self"} |-> answer],
    Tags <- Jobs,
    serving <- [w \in {"self"} |->
                   IF hpc = "idle" THEN None
                   ELSE [tag |-> req.job, target |-> req.target]],
    profile <- [w \in {"self"} |->
                   [t \in Targets |-> IF usage[t] = 0 THEN {} ELSE {usage[t]}]],
    feats <- [w \in {"self"} |-> features],
    left <- [w \in {"self"} |->
                {[tag |-> r.job, target |-> r.target] : r \in compilers \cup actors}],
    strayed <- [w \in {"self"} |->
                   IF Served THEN ~cleaned \/ actor = "off" ELSE InBuild /\ ~cleaned]

(***************************************************************************)
(* EnvEcho's phases, the compilers, the PyActor, what survives kills,      *)
(* wipes and restarts, in any order they can come, implement the           *)
(* one-job-at-a-time worker.                                               *)
(***************************************************************************)
ServiceRefined == Service!ServiceSpec

===============================================================================
