--------------------------- MODULE DaemonLifecycle ---------------------------
(***************************************************************************)
(* How the two daemons of a worker come and go: DaemonStart.sh runs        *)
(* "PredictionDaemon.py stop" and "PredictionDaemon.py start", which know  *)
(* of the daemons by a PID file for each.  stop signals and does not wait; *)
(* start leaves the Clang daemon to a child and returns once the Env       *)
(* daemon has been forked.  So old and new daemons, and the script of the  *)
(* next repetition, run side by side.                                      *)
(***************************************************************************)
EXTENDS Naturals

CONSTANTS Pids,         \* bound: processes of one kind at a time
          None,         \* no file, nobody
          Empty,        \* a PID file that was opened and not yet written
          MaxHasty,     \* bound: repetitions that begin before the last has settled
          MaxOvertaken, \* bound: starts that overtake a daemon told to stop
          MaxKills,     \* bound: "kill" requests to the Env daemon
          MaxCrashes    \* bound: daemons that end without running their exit code

ASSUME LifecycleAssumption ==
    /\ None \notin Pids /\ Empty \notin Pids /\ None # Empty
    /\ MaxHasty \in Nat /\ MaxOvertaken \in Nat
    /\ MaxKills \in Nat /\ MaxCrashes \in Nat

Kinds == {"Clang", "Env"}

VARIABLES
    script,     \* the next statement of DaemonStart.sh; "rest" when it is not running
    at,         \* [Kinds -> [Pids -> how far a process has come]]
    pidFile,    \* [Kinds -> what /tmp/PredictionDaemon-<kind>-<n>.pid holds, or None]
    port,       \* [Kinds -> the process that listens, or None]
    buildDir,   \* whether test-suite/build-worker-<n> exists
    abrupt,     \* the kinds of which a daemon ended without its exit code
    hasty, overtaken, kills, crashes

fileVars == <<pidFile, port>>
countVars == <<hasty, overtaken, kills, crashes>>
vars == <<script, at, fileVars, buildDir, abrupt, countVars>>

Init ==
    /\ script = "rest"
    /\ at = [k \in Kinds |-> [p \in Pids |-> "none"]]
    /\ pidFile = [k \in Kinds |-> None]
    /\ port = [k \in Kinds |-> None]
    /\ buildDir = FALSE
    /\ abrupt = {}
    /\ hasty = 0 /\ overtaken = 0 /\ kills = 0 /\ crashes = 0

Go(from, to) == script = from /\ script' = to

Moves(k, p, from, to) ==
    /\ at[k][p] = from
    /\ at' = [at EXCEPT ![k][p] = to]

BothServe == \A k \in Kinds : \E p \in Pids : at[k][p] = "serving"

Settled ==
    /\ script = "rest"
    /\ \A k \in Kinds, p \in Pids : at[k][p] \in {"none", "serving"}

-------------------------------------------------------------------------------
(* SIGTERM *)

(***************************************************************************)
(* What a SIGTERM does to process p.  Before the handler is installed it   *)
(* ends the process there and then.  The handler raises SystemExit, which  *)
(* socketserver before Python 3.6 swallows while a request is served.  A   *)
(* daemon that leaves already goes on leaving.                             *)
(***************************************************************************)
Terminated(k, p) ==
    LET stage == at[k][p]
        next == IF stage \in {"forked", "opened", "written"} THEN {"none"}
                ELSE IF stage = "armed" THEN {"leaving"}
                ELSE IF stage = "serving" THEN {"leaving", "serving"}
                ELSE {stage}
    IN  /\ \E s \in next : at' = [at EXCEPT ![k][p] = s]
        /\ abrupt' = IF next = {"none"} THEN abrupt \cup {k} ELSE abrupt

-------------------------------------------------------------------------------
(* DaemonStart.sh: PredictionDaemon.py stop *)

(* A process ID is not given again while a PID file still holds it. *)
Fresh(k, p) == at[k][p] = "none" /\ pidFile[k] # p

RunScript ==
    /\ Go("rest", "stopClang")
    /\ \A k \in Kinds : \E p \in Pids : Fresh(k, p)     \* the bound on Pids
    /\ IF Settled THEN UNCHANGED hasty
                  ELSE hasty < MaxHasty /\ hasty' = hasty + 1
    /\ UNCHANGED <<at, fileVars, buildDir, abrupt, overtaken, kills, crashes>>

(* No PID file: "Not running", and on to the next statement. *)
NotRunning(k, from, to) ==
    /\ Go(from, to)
    /\ pidFile[k] = None
    /\ UNCHANGED <<at, abrupt>>

Signal(k, from, to) ==
    /\ Go(from, to)
    /\ \E p \in Pids : pidFile[k] = p /\ at[k][p] # "none" /\ Terminated(k, p)

(***************************************************************************)
(* int('') raises ValueError, os.kill ProcessLookupError for a process     *)
(* that is gone: stop ends there, the script goes on with start.           *)
(***************************************************************************)
StopRaises(k, from) ==
    /\ Go(from, "fork")
    /\ pidFile[k] # None
    /\ pidFile[k] \in Pids => at[k][pidFile[k]] = "none"
    /\ UNCHANGED <<at, abrupt>>

StopClang ==
    /\ \/ NotRunning("Clang", "stopClang", "stopEnv")
       \/ Signal("Clang", "stopClang", "stopEnv")
       \/ StopRaises("Clang", "stopClang")
    /\ UNCHANGED <<fileVars, buildDir, countVars>>

StopEnv ==
    /\ \/ NotRunning("Env", "stopEnv", "fork")
       \/ Signal("Env", "stopEnv", "fork")
       \/ StopRaises("Env", "stopEnv")
    /\ UNCHANGED <<fileVars, buildDir, countVars>>

-------------------------------------------------------------------------------
(* PredictionDaemon.py start *)

ForkClang ==
    /\ Go("fork", "cmake")
    /\ \E p \in Pids :
          /\ Fresh("Clang", p)
          /\ at' = [at EXCEPT !["Clang"][p] = "check"]
    /\ UNCHANGED <<fileVars, buildDir, abrupt, countVars>>

(* Bug variant: the build directory of a cmake that failed is removed. *)
FirstCmake_Removed ==
    /\ Go("cmake", "rest")
    /\ ~buildDir
    /\ UNCHANGED <<at, fileVars, buildDir, abrupt, countVars>>

(***************************************************************************)
(* CheckTestSuiteCmake with no build directory: it is made and cmake run   *)
(* in it.  ExecuteCmd returns a triple, never equal to 0: the start ends   *)
(* with "cmake failed.", whether it did or not.                            *)
(***************************************************************************)
FirstCmake ==
    /\ Go("cmake", "rest")
    /\ ~buildDir /\ buildDir' = TRUE
    /\ UNCHANGED <<at, fileVars, abrupt, countVars>>

CmakeDone ==
    /\ Go("cmake", "checkEnv")
    /\ buildDir
    /\ UNCHANGED <<at, fileVars, buildDir, abrupt, countVars>>

Leaving(k, p) == at[k][p] \in {"leaving", "closing"}

(* "Already running".  It overtakes the daemon if that one is about to leave. *)
Refused(k) ==
    /\ pidFile[k] # None
    /\ IF \E p \in Pids : pidFile[k] = p /\ Leaving(k, p)
       THEN overtaken < MaxOvertaken /\ overtaken' = overtaken + 1
       ELSE UNCHANGED overtaken

EnvRefused ==
    /\ Go("checkEnv", "rest")
    /\ Refused("Env")
    /\ UNCHANGED <<at, fileVars, buildDir, abrupt, hasty, kills, crashes>>

(* Bug variant: the PID file is not looked for. *)
ForkEnv_Unchecked ==
    /\ Go("checkEnv", "rest")
    /\ \E p \in Pids :
          /\ Fresh("Env", p)
          /\ at' = [at EXCEPT !["Env"][p] = "forked"]
    /\ UNCHANGED <<fileVars, buildDir, abrupt, countVars>>

(* The first fork of daemonize: the parent exits, the script is over. *)
ForkEnv ==
    /\ Go("checkEnv", "rest")
    /\ pidFile["Env"] = None
    /\ \E p \in Pids :
          /\ Fresh("Env", p)
          /\ at' = [at EXCEPT !["Env"][p] = "forked"]
    /\ UNCHANGED <<fileVars, buildDir, abrupt, countVars>>

Script ==
    \/ StopClang \/ StopEnv \/ ForkClang \/ FirstCmake \/ CmakeDone
    \/ EnvRefused \/ ForkEnv

-------------------------------------------------------------------------------
(* daemonize and the server *)

ClangRefused(p) ==
    /\ Moves("Clang", p, "check", "none")
    /\ Refused("Clang")
    /\ UNCHANGED <<script, fileVars, buildDir, abrupt, hasty, kills, crashes>>

ClangForks(p) ==
    /\ Moves("Clang", p, "check", "forked")
    /\ pidFile["Clang"] = None
    /\ UNCHANGED <<script, fileVars, buildDir, abrupt, countVars>>

(* open(PidFile, 'w') makes the file or empties it. *)
OpenPidFile(k, p) ==
    /\ Moves(k, p, "forked", "opened")
    /\ pidFile' = [pidFile EXCEPT ![k] = Empty]
    /\ UNCHANGED <<script, port, buildDir, abrupt, countVars>>

(* The number is written when the file is closed; one removed since is lost. *)
WritePidFile(k, p) ==
    /\ Moves(k, p, "opened", "written")
    /\ pidFile' = IF pidFile[k] = None THEN pidFile ELSE [pidFile EXCEPT ![k] = p]
    /\ UNCHANGED <<script, port, buildDir, abrupt, countVars>>

(* atexit.register and signal.signal *)
Arm(k, p) ==
    /\ Moves(k, p, "written", "armed")
    /\ UNCHANGED <<script, fileVars, buildDir, abrupt, countVars>>

Bind(k, p) ==
    /\ Moves(k, p, "armed", "serving")
    /\ port[k] = None /\ port' = [port EXCEPT ![k] = p]
    /\ UNCHANGED <<script, pidFile, buildDir, abrupt, countVars>>

(* OSError: the address is in use.  The exception ends the process. *)
BindFails(k, p) ==
    /\ Moves(k, p, "armed", "leaving")
    /\ port[k] # None
    /\ IF Leaving(k, port[k])
       THEN overtaken < MaxOvertaken /\ overtaken' = overtaken + 1
       ELSE UNCHANGED overtaken
    /\ UNCHANGED <<script, fileVars, buildDir, abrupt, hasty, kills, crashes>>

(* Bug variant: the PID file is not removed. *)
AtExit_KeepsFile(k, p) ==
    /\ Moves(k, p, "leaving", "closing")
    /\ UNCHANGED <<script, fileVars, buildDir, abrupt, countVars>>

(* The lambda that daemonize registered: os.remove(PidFile), by its name. *)
AtExit(k, p) ==
    /\ Moves(k, p, "leaving", "closing")
    /\ pidFile' = [pidFile EXCEPT ![k] = None]
    /\ UNCHANGED <<script, port, buildDir, abrupt, countVars>>

(* The listening socket is closed before or after that. *)
Unbind(k, p) ==
    /\ Leaving(k, p)
    /\ port[k] = p /\ port' = [port EXCEPT ![k] = None]
    /\ UNCHANGED <<script, at, pidFile, buildDir, abrupt, countVars>>

Ends(k, p) ==
    /\ Moves(k, p, "closing", "none")
    /\ port[k] # p
    /\ UNCHANGED <<script, fileVars, buildDir, abrupt, countVars>>

DaemonStep(k, p) ==
    \/ OpenPidFile(k, p) \/ WritePidFile(k, p) \/ Arm(k, p)
    \/ Bind(k, p) \/ BindFails(k, p)
    \/ AtExit(k, p) \/ Unbind(k, p) \/ Ends(k, p)

ClangStart(p) == ClangRefused(p) \/ ClangForks(p)

-------------------------------------------------------------------------------
(* "kill" from a client: the Env daemon signals the process in its PID file. *)
KillRequest ==
    /\ kills < MaxKills /\ kills' = kills + 1
    /\ \E p \in Pids : at["Env"][p] = "serving"
    /\ \E p \in Pids : pidFile["Env"] = p /\ at["Env"][p] # "none" /\ Terminated("Env", p)
    /\ UNCHANGED <<script, fileVars, buildDir, hasty, overtaken, crashes>>

(* SIGKILL, or out of memory: no handler, no atexit. *)
Crash(k, p) ==
    /\ crashes < MaxCrashes /\ crashes' = crashes + 1
    /\ Moves(k, p, "serving", "none")
    /\ port' = [port EXCEPT ![k] = None]
    /\ abrupt' = abrupt \cup {k}
    /\ UNCHANGED <<script, pidFile, buildDir, hasty, overtaken, kills>>

Next ==
    \/ RunScript \/ Script
    \/ \E p \in Pids : ClangStart(p)
    \/ \E k \in Kinds, p \in Pids : DaemonStep(k, p) \/ Crash(k, p)
    \/ KillRequest
    \/ Settled /\ UNCHANGED vars

(***************************************************************************)
(* Every process runs, and the operator does what DaemonStart.sh and the   *)
(* README say: while the daemons do not both serve, again.                 *)
(***************************************************************************)
Spec == /\ Init /\ [][Next]_vars
        /\ WF_vars(Script) /\ WF_vars(~BothServe /\ RunScript)
        /\ \A p \in Pids : WF_vars(ClangStart(p))
        /\ \A k \in Kinds, p \in Pids : WF_vars(DaemonStep(k, p))

-------------------------------------------------------------------------------
(* Properties *)

Stages == {"none", "check", "forked", "opened", "written", "armed", "serving",
           "leaving", "closing"}

(* The variables have the values their declarations say. *)
TypeOK ==
    /\ script \in {"rest", "stopClang", "stopEnv", "fork", "cmake", "checkEnv"}
    /\ at \in [Kinds -> [Pids -> Stages]]
    /\ pidFile \in [Kinds -> Pids \cup {None, Empty}]
    /\ port \in [Kinds -> Pids \cup {None}]
    /\ buildDir \in BOOLEAN
    /\ abrupt \in SUBSET Kinds
    /\ hasty \in 0 .. MaxHasty /\ overtaken \in 0 .. MaxOvertaken
    /\ kills \in 0 .. MaxKills /\ crashes \in 0 .. MaxCrashes

(***************************************************************************)
(* The PID file is the one handle on a daemon: with an operator who waits, *)
(* the process that listens is the one it names, so the next stop reaches  *)
(* it; and the port is not held by a daemon that nobody can name.          *)
(***************************************************************************)
ServerIsNamed ==
    hasty = 0 => \A k \in Kinds, p \in Pids : at[k][p] = "serving" => pidFile[k] = p

(***************************************************************************)
(* A PID file whose process is gone blocks every later start.  It is never *)
(* left by a daemon that could run its exit code, whoever else was         *)
(* starting or stopping; only by one that was killed outright, or was told *)
(* to stop before it had installed its handler.                            *)
(***************************************************************************)
StaleOnlyIfAbrupt ==
    \A k \in Kinds, p \in Pids :
        pidFile[k] = p /\ at[k][p] = "none" => k \in abrupt

(***************************************************************************)
(* With an operator who waits, a daemon that exits removes its own PID     *)
(* file and never that of its successor.                                   *)
(***************************************************************************)
RemovesOnlyOwn ==
    [][hasty = 0 => \A k \in Kinds :
          pidFile'[k] = None /\ pidFile[k] # None =>
              \E p \in Pids : pidFile[k] = p /\ at'[k][p] = "closing"]_vars

(***************************************************************************)
(* An operator who waits, and repeats DaemonStart.sh until both daemons    *)
(* run, has them run in the end, if none of them crashes: neither the      *)
(* first cmake, nor a kill, nor a slow exit that a start ran into leaves   *)
(* anything that would stop the next start.                                *)
(***************************************************************************)
TryAgainHelps == [](hasty = 0 /\ crashes = 0) => []<>BothServe

===============================================================================
