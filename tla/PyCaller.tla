------------------------------- MODULE PyCaller -------------------------------
(***************************************************************************)
(* PyActor/*/PyCaller.cpp: what lit runs in the place of a benchmark.  It  *)
(* forks, its child becomes the PyActor (MimicAndFeatureExtractor.py), and *)
(* its own exit status is the number that the PyActor writes to a pipe.    *)
(* The variant WithStdin hands lit's input on through a second pipe.       *)
(*                                                                         *)
(* A pipe is known by its two ends; an end exists while some process has   *)
(* it open, whatever the descriptor's number is after dup2.                *)
(* The PyActor's benchmark and perf processes have neither: Popen closes   *)
(* the descriptors above 2, and it gives the benchmark a pipe of its own.  *)
(***************************************************************************)
EXTENDS Integers

CONSTANTS Sizes,        \* how many blocks of input lit may give
          PipeSize,     \* how many blocks a pipe holds
          ReturnCodes,  \* Popen's return codes: -n for a death by signal n
          None

ASSUME SizeAssumption == Sizes \subseteq Nat /\ PipeSize \in Nat \ {0}
ASSUME CodeAssumption == ReturnCodes \subseteq -64 .. 255 /\ None \notin Int

SIGABRT == -6
SIGKILL == -9
SIGPIPE == -13
Signals == {SIGABRT, SIGKILL, SIGPIPE}

(* Reading and writing end of the input pipe pFD and of the pipe retFD. *)
Ends == {"pR", "pW", "rR", "rW"}
Procs == {"caller", "actor"}

VARIABLES
    withStdin,  \* which of the two programs this is
    size,       \* the blocks of results_stdin
    pc,         \* where PyCaller is
    actor,      \* where its child is
    open,       \* [Procs -> SUBSET Ends]
    written,    \* blocks that PyCaller has written to pFD
    got,        \* blocks that the PyActor has read from it
    code,       \* how the benchmark's last run ended, None before
    report,     \* what is in the pipe retFD
    status,     \* PyCaller's exit status, None while it runs
    recorded    \* what this PyActor wrote to the .usage file

inputVars == <<written, got>>
vars == <<withStdin, size, pc, actor, open, written, got, code, report,
          status, recorded>>

HasOpen(e) == \E p \in Procs : e \in open[p]
InPipe == written - got

Init ==
    /\ withStdin \in BOOLEAN
    /\ size \in Sizes /\ (~withStdin => size = 0)
    /\ pc = "start" /\ actor = "none"
    /\ open = [p \in Procs |-> {}]
    /\ written = 0 /\ got = 0
    /\ code = None /\ report = None /\ status = None /\ recorded = None

-------------------------------------------------------------------------------
(* PyCaller *)

Close(p, e) == open' = [open EXCEPT ![p] = @ \ {e}]

(* The ends of a process that is gone are closed. *)
CallerEnds(s) ==
    /\ pc' = "over" /\ status' = s
    /\ open' = [open EXCEPT !["caller"] = {}]
    /\ UNCHANGED <<withStdin, size, actor, inputVars, code, report, recorded>>

(* The pipes; the input is then read to its end. *)
MakePipes ==
    /\ pc = "start" /\ pc' = "fork"
    /\ open' = [open EXCEPT !["caller"] =
                    IF withStdin THEN Ends ELSE {"rR", "rW"}]
    /\ UNCHANGED <<withStdin, size, actor, inputVars, code, report, status, recorded>>

Fork ==
    /\ pc = "fork"
    /\ pc' = IF withStdin THEN "closePR" ELSE "wait"
    /\ actor' = "child"
    /\ open' = [open EXCEPT !["actor"] = open["caller"]]
    /\ UNCHANGED <<withStdin, size, inputVars, code, report, status, recorded>>

(* fork() returns -1, which takes the branch of the parent. *)
ForkFails ==
    /\ pc = "fork"
    /\ pc' = IF withStdin THEN "closePR" ELSE "wait"
    /\ UNCHANGED <<withStdin, size, actor, open, inputVars, code, report, status, recorded>>

CloseInputReader ==
    /\ pc = "closePR" /\ pc' = "write"
    /\ Close("caller", "pR")
    /\ UNCHANGED <<withStdin, size, actor, inputVars, code, report, status, recorded>>

(* write() blocks while the pipe is full. *)
WriteInput ==
    /\ pc = "write" /\ written < size
    /\ HasOpen("pR") /\ InPipe < PipeSize
    /\ written' = written + 1
    /\ UNCHANGED <<withStdin, size, pc, actor, open, got, code, report, status, recorded>>

WriteWithoutReader ==
    /\ pc = "write" /\ written < size
    /\ ~HasOpen("pR")
    /\ CallerEnds(SIGPIPE)

CloseInputWriter ==
    /\ pc = "write" /\ written = size
    /\ pc' = "wait"
    /\ Close("caller", "pW")
    /\ UNCHANGED <<withStdin, size, actor, inputVars, code, report, status, recorded>>

(* waitpid(-1): the child has ended, or there is none. *)
Wait ==
    /\ pc = "wait" /\ actor \in {"none", "over"}
    /\ pc' = "closeRW"
    /\ UNCHANGED <<withStdin, size, actor, open, inputVars, code, report, status, recorded>>

(* Bug variant: the parent keeps its own writing end and reads. *)
CloseReportWriter_Kept ==
    /\ pc = "closeRW" /\ pc' = "read"
    /\ UNCHANGED <<withStdin, size, actor, open, inputVars, code, report, status, recorded>>

CloseReportWriter ==
    /\ pc = "closeRW" /\ pc' = "read"
    /\ Close("caller", "rW")
    /\ UNCHANGED <<withStdin, size, actor, inputVars, code, report, status, recorded>>

(* The process keeps the low eight bits of what main returns. *)
ReturnReport ==
    /\ pc = "read" /\ report # None
    /\ CallerEnds(report % 256)

(* Bug variant: what cannot be parsed counts as 0, as with atoi. *)
NothingToParse_IsZero ==
    /\ pc = "read" /\ report = None /\ ~HasOpen("rW")
    /\ CallerEnds(0)

(* The end of the pipe: std::stoi throws and nothing catches it. *)
NothingToParse ==
    /\ pc = "read" /\ report = None /\ ~HasOpen("rW")
    /\ CallerEnds(SIGABRT)

Caller ==
    \/ MakePipes \/ Fork \/ ForkFails
    \/ CloseInputReader \/ WriteInput \/ WriteWithoutReader \/ CloseInputWriter
    \/ Wait \/ CloseReportWriter \/ ReturnReport \/ NothingToParse

-------------------------------------------------------------------------------
(* Its child *)

ActorEnds ==
    /\ actor' = "over"
    /\ open' = [open EXCEPT !["actor"] = {}]

(* Bug variant: the child keeps the reading end of the report's pipe. *)
Exec_KeepsReportReader ==
    /\ actor = "child"
    /\ actor' = IF withStdin THEN "input" ELSE "profile"
    /\ open' = [open EXCEPT !["actor"] = @ \ {"pW"}]
    /\ UNCHANGED <<withStdin, size, pc, inputVars, code, report, status, recorded>>

(* Bug variant: the child keeps the writing end of its own input. *)
Exec_KeepsInputWriter ==
    /\ actor = "child"
    /\ actor' = IF withStdin THEN "input" ELSE "profile"
    /\ open' = [open EXCEPT !["actor"] = @ \ {"rR"}]
    /\ UNCHANGED <<withStdin, size, pc, inputVars, code, report, status, recorded>>

(* The ends that are not its own are closed; execv. *)
Exec ==
    /\ actor = "child"
    /\ actor' = IF withStdin THEN "input" ELSE "profile"
    /\ open' = [open EXCEPT !["actor"] = @ \ {"pW", "rR"}]
    /\ UNCHANGED <<withStdin, size, pc, inputVars, code, report, status, recorded>>

(***************************************************************************)
(* execv fails, or the PyActor ends before its last run of the benchmark:  *)
(* an exception, a return after a failure of the profiling, a kill.        *)
(***************************************************************************)
ActorGivesUp ==
    /\ actor \in {"child", "input", "profile"}
    /\ ActorEnds
    /\ UNCHANGED <<withStdin, size, pc, inputVars, code, report, status, recorded>>

ReadInput ==
    /\ actor = "input" /\ InPipe > 0
    /\ got' = got + 1
    /\ UNCHANGED <<withStdin, size, pc, actor, open, written, code, report, status, recorded>>

(* sys.stdin.buffer.read() returns: the pipe is empty and has no writer. *)
InputEnds ==
    /\ actor = "input" /\ InPipe = 0 /\ ~HasOpen("pW")
    /\ actor' = "profile"
    /\ UNCHANGED <<withStdin, size, pc, open, inputVars, code, report, status, recorded>>

(* The runs under perf are over, and the run whose output lit sees. *)
LastRun(c) ==
    /\ actor = "profile"
    /\ actor' = "report" /\ code' = c
    /\ UNCHANGED <<withStdin, size, pc, open, inputVars, report, status, recorded>>

(* os.write to descriptor 512; Python takes no SIGPIPE but raises. *)
WriteReport ==
    /\ actor = "report" /\ HasOpen("rR")
    /\ actor' = "record" /\ report' = code
    /\ Close("actor", "rW")
    /\ UNCHANGED <<withStdin, size, pc, inputVars, code, status, recorded>>

WriteReportRaises ==
    /\ actor = "report" /\ ~HasOpen("rR")
    /\ ActorEnds
    /\ UNCHANGED <<withStdin, size, pc, inputVars, code, report, status, recorded>>

(* Nothing is recorded of a benchmark that was killed by a signal. *)
Record ==
    /\ actor = "record"
    /\ recorded' = IF code < 0 THEN None ELSE got
    /\ ActorEnds
    /\ UNCHANGED <<withStdin, size, pc, inputVars, code, report, status>>

(* The PyActor is killed in its last run or after it. *)
KilledLate ==
    /\ actor \in {"report", "record"}
    /\ ActorEnds
    /\ UNCHANGED <<withStdin, size, pc, inputVars, code, report, status, recorded>>

Actor ==
    \/ Exec \/ ActorGivesUp \/ ReadInput \/ InputEnds
    \/ (\E c \in ReturnCodes : LastRun(c))
    \/ WriteReport \/ WriteReportRaises \/ Record \/ KilledLate

-------------------------------------------------------------------------------
(* The SIGKILL that LimitTimeExec's KillChildren sends to PyCaller. *)
CallerKilled ==
    /\ pc # "over"
    /\ CallerEnds(SIGKILL)

Over == pc = "over" /\ actor \in {"none", "over"}

Next == \/ Caller
        \/ Actor
        \/ CallerKilled
        \/ Over /\ UNCHANGED vars

(***************************************************************************)
(* PyCaller goes on, and the PyActor reads its input; the benchmark, and   *)
(* so the PyActor's other steps, may take for ever.                        *)
(***************************************************************************)
Spec == /\ Init /\ [][Next]_vars
        /\ WF_vars(Caller) /\ WF_vars(ReadInput \/ InputEnds)

-------------------------------------------------------------------------------
(* Properties *)

(* The variables have the values their declarations say. *)
TypeOK ==
    /\ withStdin \in BOOLEAN /\ size \in Sizes
    /\ pc \in {"start", "fork", "closePR", "write", "wait", "closeRW", "read", "over"}
    /\ actor \in {"none", "child", "input", "profile", "report", "record", "over"}
    /\ open \in [Procs -> SUBSET Ends]
    /\ written \in Nat /\ got \in Nat
    /\ got <= written /\ written <= size /\ InPipe <= PipeSize
    /\ code \in ReturnCodes \cup {None}
    /\ report \in ReturnCodes \cup {None}
    /\ status \in 0 .. 255 \cup Signals \cup {None}
    /\ recorded \in Nat \cup {None}

(***************************************************************************)
(* lit takes status 0 for a passed benchmark: the benchmark's last run     *)
(* then ended with 0, and on all of its input; no failure of the PyActor,  *)
(* no kill and no code modulo 256 looks like it.                           *)
(***************************************************************************)
SuccessIsReal == status = 0 => code = 0 /\ got = size

(***************************************************************************)
(* What is measured was run on the whole input.  A PyActor whose PyCaller  *)
(* is killed sees a shorter input and profiles it all the same; only its   *)
(* report, that nobody can read, keeps it from recording this.             *)
(***************************************************************************)
RecordedOnWholeInput == recorded # None => recorded = size /\ code >= 0

(***************************************************************************)
(* Neither waits for the other for ever: once its child is gone PyCaller   *)
(* ends, also in the middle of a write or without a report.                *)
(***************************************************************************)
CallerFollowsActor == actor = "over" ~> pc = "over"

(* A PyActor that reads its input comes to the end of it or is killed. *)
InputIsRead == actor = "input" ~> actor # "input"

===============================================================================
