----------------------------- MODULE TrainingEnv -----------------------------
(***************************************************************************)
(* The training environment as a whole: the client processes of            *)
(* fakeEnv.py (WorkerPool.tla), the TCP connections they open to the       *)
(* workers they hire, and the workers (WorkerService.tla, which            *)
(* EnvDaemon.tla implements), whose daemons may drop a connection, stop    *)
(* and be started again.                                                   *)
(*                                                                         *)
(* A job is one call of EnvDoJob; its tag is the process and a number.     *)
(* A file of results is the set of the tags of the jobs whose results are  *)
(* in it; what is empty, missing or "ProfiledFileNotExists" is {}.          *)
(***************************************************************************)
EXTENDS WorkerPool, Sequences

CONSTANTS MaxFaults     \* bound: dropped connections, stops, wipes, survivors, strays

ASSUME FaultsAssumption == MaxFaults \in Nat

Programs == 1 .. NumPrograms
Tags == [client : Clients, number : 1 .. NumPrograms + MaxFaults]

VARIABLES
    command,        \* the request EnvDoJob is at: "target", "profiled", "features"
    number,         \* how many jobs each client has sent
    tcp,            \* the worker a client is connected to, or None (init is False)
    reply,          \* what has arrived on the connection; Waiting before
    retProfiled,    \* the jobs of the measurement received
    retFeatures,    \* the jobs of the features received
    up,             \* whether the Env daemon of a worker listens
    queue,          \* connections not yet accepted, with the request sent on them
    serving, profile, feats, left, strayed,    \* of WorkerService
    faults

(* A connection with no answer yet, one closed without, one reset. *)
CONSTANTS Waiting, Closed, Reset

ASSUME ReplyAssumption ==
    /\ Waiting # Closed /\ Waiting # Reset /\ Closed # Reset
    /\ {Waiting, Closed, Reset} \cap {"Success", "Failed"} = {}
    /\ \A files \in SUBSET Tags : files \notin {Waiting, Closed, Reset}

Service == INSTANCE WorkerService WITH Targets <- Programs

clientVars == <<command, number, tcp, reply, retProfiled, retFeatures>>
resultVars == <<profile, feats, left, strayed>>
daemonVars == <<up, queue, serving, resultVars>>
vars == <<poolVars, clientVars, daemonVars, faults>>

Init ==
    /\ PoolInit
    /\ command = [c \in Clients |-> "target"]
    /\ number = [c \in Clients |-> 0]
    /\ tcp = [c \in Clients |-> None]
    /\ reply = [c \in Clients |-> Waiting]
    /\ retProfiled = [c \in Clients |-> {}]
    /\ retFeatures = [c \in Clients |-> {}]
    /\ up = [w \in Workers |-> TRUE]
    /\ queue = [w \in Workers |-> <<>>]
    /\ Service!ServiceInit
    /\ faults = 0

TagOf(c) == [client |-> c, number |-> number[c]]

-------------------------------------------------------------------------------
(* Clients *)

PoolStep(c) ==
    /\ LocalStep(c)
    /\ UNCHANGED <<clientVars, daemonVars, faults>>

(* TcpClient.Send of the next request, on a new connection. *)
Send(c) ==
    LET w == workerID[c]
        n == IF command[c] = "target" THEN number[c] + 1 ELSE number[c]
    IN  /\ pc[c] = "work" /\ tcp[c] = None
        /\ up[w]
        /\ tcp' = [tcp EXCEPT ![c] = w]
        /\ number' = [number EXCEPT ![c] = n]
        /\ queue' = [queue EXCEPT ![w] =
                        Append(@, [client |-> c, command |-> command[c], number |-> n,
                                   target |-> program[c]])]
        /\ IF command[c] = "target"
           THEN /\ retProfiled' = [retProfiled EXCEPT ![c] = {}]
                /\ retFeatures' = [retFeatures EXCEPT ![c] = {}]
           ELSE UNCHANGED <<retProfiled, retFeatures>>
        /\ UNCHANGED <<poolVars, command, reply, up, serving, resultVars, faults>>

(* Nobody listens, or the connection was reset: the exception ends the process. *)
SendRefused(c) ==
    /\ pc[c] = "work" /\ tcp[c] = None /\ ~up[workerID[c]]
    /\ JobRaised(c)
    /\ UNCHANGED <<clientVars, daemonVars, faults>>

ReceiveRaises(c) ==
    /\ reply[c] = Reset
    /\ JobRaised(c)
    /\ UNCHANGED <<clientVars, daemonVars, faults>>

(* TcpClient.Receive: all that arrives until the end, then disconnect. *)
Arrived(c) ==
    /\ pc[c] = "work" /\ reply[c] \notin {Waiting, Reset}
    /\ tcp' = [tcp EXCEPT ![c] = None]
    /\ reply' = [reply EXCEPT ![c] = Waiting]

NextCommand(c, cmd) == command' = [command EXCEPT ![c] = cmd]

(* Bug variant: EnvDoJob returns a failure without freeing the worker. *)
ReceiveStatus_NotFreed(c) ==
    /\ command[c] = "target"
    /\ Arrived(c)
    /\ IF reply[c] = "Success"
       THEN /\ NextCommand(c, "profiled")
            /\ UNCHANGED poolVars
       ELSE /\ Goto(c, "work", "next")
            /\ UNCHANGED <<SharedWorkerDict, WorkerLock, workerID, status, program, command>>
    /\ UNCHANGED <<number, retProfiled, retFeatures, daemonVars, faults>>

ReceiveStatus(c) ==
    /\ command[c] = "target"
    /\ Arrived(c)
    /\ IF reply[c] = "Success"
       THEN /\ NextCommand(c, "profiled")
            /\ UNCHANGED poolVars
       ELSE /\ JobAnswered(c, IF reply[c] = Closed THEN "" ELSE reply[c])
            /\ UNCHANGED command
    /\ UNCHANGED <<number, retProfiled, retFeatures, daemonVars, faults>>

(* Bug variant: no answer is not told from an answer. *)
DataOf_Raw(c) == reply[c]

(* "ProfiledFileNotExists", and "" of a dropped connection, are taken as data. *)
DataOf(c) == IF reply[c] = Closed THEN {} ELSE reply[c]

(* Bug variant: asks again until there is a measurement. *)
ReceiveProfiled_AsksAgain(c) ==
    /\ command[c] = "profiled"
    /\ Arrived(c)
    /\ retProfiled' = [retProfiled EXCEPT ![c] = DataOf(c)]
    /\ NextCommand(c, IF DataOf(c) = {} THEN "profiled" ELSE "features")
    /\ UNCHANGED <<poolVars, number, retFeatures, daemonVars, faults>>

ReceiveProfiled(c) ==
    /\ command[c] = "profiled"
    /\ Arrived(c)
    /\ retProfiled' = [retProfiled EXCEPT ![c] = DataOf(c)]
    /\ NextCommand(c, "features")
    /\ UNCHANGED <<poolVars, number, retFeatures, daemonVars, faults>>

ReceiveFeatures(c) ==
    /\ command[c] = "features"
    /\ Arrived(c)
    /\ retFeatures' = [retFeatures EXCEPT ![c] = DataOf(c)]
    /\ NextCommand(c, "target")
    /\ JobAnswered(c, "Success")
    /\ UNCHANGED <<number, retProfiled, daemonVars, faults>>

ClientStep(c) ==
    \/ PoolStep(c) \/ Send(c) \/ SendRefused(c) \/ ReceiveRaises(c)
    \/ ReceiveStatus(c) \/ ReceiveProfiled(c) \/ ReceiveFeatures(c)

-------------------------------------------------------------------------------
(* Workers *)

Deliver(c, msg) == reply' = [reply EXCEPT ![c] = msg]

Accepts(w) == up[w] /\ serving[w] = None /\ queue[w] # <<>>

(* EnvTcpHandler.handle of a "target" request, up to its answer *)
AcceptTarget(w) ==
    /\ Accepts(w)
    /\ LET r == Head(queue[w]) IN
        /\ r.command = "target"
        /\ Service!Take(w, [tag |-> [client |-> r.client, number |-> r.number],
                            target |-> r.target])
    /\ queue' = [queue EXCEPT ![w] = Tail(@)]
    /\ UNCHANGED <<poolVars, clientVars, up, faults>>

WorkOn(w) ==
    /\ Service!Work(w)
    /\ UNCHANGED <<poolVars, clientVars, up, queue, faults>>

StrayOn(w) ==
    /\ faults < MaxFaults /\ faults' = faults + 1
    /\ Service!Stray(w)
    /\ UNCHANGED <<poolVars, clientVars, up, queue>>

(* A process that survives a kill, or a job that strays, counts as a fault. *)
AnswerTarget(w, s) ==
    /\ Service!Finish(w, s)
    /\ Deliver(serving[w].tag.client, s)
    /\ IF left' = left /\ (strayed'[w] => strayed[w]) THEN UNCHANGED faults
       ELSE faults < MaxFaults /\ faults' = faults + 1
    /\ UNCHANGED <<poolVars, command, number, tcp, retProfiled, retFeatures, up, queue>>

(* The handler ends on an exception or on sys.exit: the connection is closed. *)
DropTarget(w) ==
    /\ faults < MaxFaults /\ faults' = faults + 1
    /\ Service!Finish(w, "closed")
    /\ Deliver(serving[w].tag.client, Closed)
    /\ UNCHANGED <<poolVars, command, number, tcp, retProfiled, retFeatures, up, queue>>

(* "profiled" and "features": the file as it is now *)
AnswerQuery(w) ==
    /\ Accepts(w)
    /\ LET r == Head(queue[w]) IN
        /\ r.command # "target"
        /\ Deliver(r.client, IF r.command = "profiled" THEN profile[w][r.target]
                             ELSE feats[w])
    /\ queue' = [queue EXCEPT ![w] = Tail(@)]
    /\ UNCHANGED <<poolVars, command, number, tcp, retProfiled, retFeatures,
                   up, serving, resultVars, faults>>

(* The file goes between exists() and open(): the handler ends on an exception. *)
DropQuery(w) ==
    /\ faults < MaxFaults /\ faults' = faults + 1
    /\ Accepts(w)
    /\ LET r == Head(queue[w]) IN r.command # "target" /\ Deliver(r.client, Closed)
    /\ queue' = [queue EXCEPT ![w] = Tail(@)]
    /\ UNCHANGED <<poolVars, command, number, tcp, retProfiled, retFeatures,
                   up, serving, resultVars>>

(***************************************************************************)
(* The daemon stops: the connection being served is closed, those not yet  *)
(* accepted are reset.  A compiler or a PyActor may survive.               *)
(***************************************************************************)
Stop(w) ==
    /\ faults < MaxFaults /\ faults' = faults + 1
    /\ up[w] /\ up' = [up EXCEPT ![w] = FALSE]
    /\ reply' = [c \in Clients |->
                    IF serving[w] # None /\ serving[w].tag.client = c THEN Closed
                    ELSE IF \E i \in DOMAIN queue[w] : queue[w][i].client = c THEN Reset
                    ELSE reply[c]]
    /\ queue' = [queue EXCEPT ![w] = <<>>]
    /\ IF serving[w] = None THEN UNCHANGED <<serving, resultVars>>
       ELSE Service!Finish(w, "closed")
    /\ UNCHANGED <<poolVars, command, number, tcp, retProfiled, retFeatures>>

Start(w) ==
    /\ ~up[w] /\ up' = [up EXCEPT ![w] = TRUE]
    /\ UNCHANGED <<poolVars, clientVars, queue, serving, resultVars, faults>>

WipeResults(w) ==
    /\ faults < MaxFaults /\ faults' = faults + 1
    /\ Service!Wipe(w)
    /\ UNCHANGED <<poolVars, clientVars, up, queue>>

(* What survived a kill writes its results, daemon or no daemon. *)
LateOn(w) ==
    /\ Service!Late(w)
    /\ UNCHANGED <<poolVars, clientVars, up, queue, faults>>

DaemonStep(w) ==
    \/ AcceptTarget(w) \/ AnswerQuery(w)
    \/ \E s \in {"Success", "Failed"} : AnswerTarget(w, s)

EnvNext ==
    \/ \E c \in Clients : ClientStep(c)
    \/ \E w \in Workers : DaemonStep(w) \/ WorkOn(w) \/ StrayOn(w) \/ DropTarget(w) \/ DropQuery(w)
                          \/ Stop(w) \/ Start(w) \/ WipeResults(w) \/ LateOn(w)
    \/ Ended /\ UNCHANGED vars

(***************************************************************************)
(* Every process is scheduled, and a handler answers: EnvDaemon.tla shows  *)
(* that each request ends (RequestEnds).  Faults are not fair, and a       *)
(* daemon that was stopped need not be started again.                      *)
(***************************************************************************)
Spec == /\ Init /\ [][EnvNext]_vars
        /\ \A c \in Clients : WF_vars(ClientStep(c))
        /\ \A w \in Workers : WF_vars(DaemonStep(w))

-------------------------------------------------------------------------------
(* Properties *)

(* The variables have the values their declarations say. *)
TypeOK ==
    /\ PoolTypeOK
    /\ command \in [Clients -> {"target", "profiled", "features"}]
    /\ number \in [Clients -> 0 .. NumPrograms + MaxFaults]
    /\ tcp \in [Clients -> Workers \cup {None}]
    /\ \A c \in Clients :
          IF command[c] = "target" THEN reply[c] \in {Waiting, Closed, Reset, "Success", "Failed"}
          ELSE reply[c] \in {Waiting, Closed, Reset} \cup SUBSET Tags
    /\ retProfiled \in [Clients -> Service!Measurements]
    /\ retFeatures \in [Clients -> SUBSET Tags]
    /\ up \in [Workers -> BOOLEAN]
    /\ \A w \in Workers : \A i \in DOMAIN queue[w] :
          queue[w][i] \in [client : Clients, command : {"target", "profiled", "features"},
                           number : 1 .. NumPrograms + MaxFaults, target : Programs]
    /\ serving \in [Workers -> Service!JobRecords \cup {None}]
    /\ profile \in [Workers -> [Programs -> Service!Measurements]]
    /\ feats \in [Workers -> SUBSET Tags]
    /\ left \in [Workers -> SUBSET Service!JobRecords]
    /\ strayed \in [Workers -> BOOLEAN]
    /\ faults \in 0 .. MaxFaults

(***************************************************************************)
(* What training is for: the results EnvDoJob has when it returns          *)
(* "Success" were made for this very job, never for another client's or an *)
(* earlier job, whatever was dropped, retried or restarted.  There are two *)
(* exceptions.  A compiler or PyActor that survived a kill on this worker  *)
(* may have put those of its own job there.  And nothing is said of the    *)
(* measurement (though of the features) of a job that was answered         *)
(* "Success" although "make clean" failed or no PyActor ran: then it may   *)
(* be of any job.                                                          *)
(***************************************************************************)
JobGetsOwnResults ==
    \A c \in Clients :
        pc[c] = "free" /\ status[c] = "Success" =>
            LET w == workerID[c]
                allowed == {TagOf(c)} \cup {j.tag : j \in left[w]}
            IN  /\ retFeatures[c] \subseteq allowed
                /\ ~strayed[w] => retProfiled[c] \subseteq allowed

(***************************************************************************)
(* A worker works only for the process that has hired it and is waiting,   *)
(* and nobody else is in its listen queue.                                 *)
(***************************************************************************)
WorksForItsHirer ==
    \A w \in Workers :
        /\ serving[w] # None =>
              LET c == serving[w].tag.client IN
              /\ pc[c] = "work" /\ workerID[c] = w /\ reply[c] = Waiting
              /\ queue[w] = <<>>
        /\ Len(queue[w]) <= 1

(***************************************************************************)
(* fakeEnv.py ends: with finitely many faults every process goes through   *)
(* its programs, or has died on an exception.                              *)
(***************************************************************************)
AllEnd == <>Ended

(* The pool, as WorkerPool.tla has it, and with it the theorems about it. *)
PoolRefined == PoolInit /\ [][PoolNext]_poolVars

===============================================================================
