------------------------ MODULE DaemonLifecycle_proofs ------------------------
(***************************************************************************)
(* Proofs about the PID files of DaemonLifecycle.tla, for any number of    *)
(* processes, repetitions, kills and crashes.                              *)
(***************************************************************************)
EXTENDS DaemonLifecycle, TLAPS

Starting == {"check", "forked", "opened", "written", "armed"}
Owning == {"written", "armed", "serving", "leaving"}

(* Who is named in a PID file has written it, and has not run its exit code. *)
NamedInv ==
    \A k \in Kinds, p \in Pids :
        pidFile[k] = p => \/ at[k][p] \in Owning
                          \/ at[k][p] = "none" /\ k \in abrupt

(* With an operator who waits, whoever wrote the PID file still has it. *)
OwnInv ==
    \A k \in Kinds, p \in Pids :
        /\ at[k][p] \in Owning => pidFile[k] = p
        /\ at[k][p] = "forked" => pidFile[k] = None
        /\ at[k][p] = "opened" => pidFile[k] = Empty

(* Nobody starts while somebody else of the same kind does. *)
OneStarts ==
    /\ \A k \in Kinds, p, q \in Pids :
          at[k][p] \in Starting /\ at[k][q] \in Starting => p = q
    /\ script \in {"stopClang", "stopEnv", "fork"} =>
          \A k \in Kinds, p \in Pids : at[k][p] \notin Starting
    /\ script \in {"cmake", "checkEnv"} => \A p \in Pids : at["Env"][p] \notin Starting

IInv == TypeOK /\ NamedInv /\ (hasty = 0 => OwnInv /\ OneStarts)

-------------------------------------------------------------------------------
(* Process p of kind k has gone from stage a to stage b, the others nowhere. *)
Moved(k, p, a, b) ==
    /\ at[k][p] = a /\ at'[k][p] = b
    /\ at' \in [Kinds -> [Pids -> Stages]]
    /\ \A j \in Kinds, q \in Pids : j # k \/ q # p => at'[j][q] = at[j][q]

(* An assignment to one element of at leaves the others. *)
LEMMA AtUpdate ==
    ASSUME TypeOK, NEW k \in Kinds, NEW p \in Pids, NEW a, NEW b \in Stages,
           at[k][p] = a, at' = [at EXCEPT ![k][p] = b]
    PROVE  Moved(k, p, a, b)
BY DEF TypeOK, Moved

(* Moves says just that. *)
LEMMA MovesMoved ==
    ASSUME TypeOK, NEW k \in Kinds, NEW p \in Pids, NEW a, NEW b \in Stages,
           Moves(k, p, a, b)
    PROVE  Moved(k, p, a, b)
BY AtUpdate DEF Moves

(* The invariant holds at the start. *)
LEMMA InitIInv == Init => IInv
<1> SUFFICES ASSUME Init PROVE IInv
    OBVIOUS
<1>1. TypeOK
    <2>1. at \in [Kinds -> [Pids -> Stages]]
        BY DEF Init, Stages
    <2>2. /\ overtaken \in 0 .. MaxOvertaken
          /\ hasty \in 0 .. MaxHasty
          /\ kills \in 0 .. MaxKills /\ crashes \in 0 .. MaxCrashes
        BY LifecycleAssumption DEF Init
    <2>3. /\ pidFile \in [Kinds -> Pids \cup {None, Empty}]
          /\ port \in [Kinds -> Pids \cup {None}]
        BY DEF Init
    <2> QED BY <2>1, <2>2, <2>3 DEF Init, TypeOK
<1>2. NamedInv
    BY LifecycleAssumption DEF Init, NamedInv
<1>3. OwnInv /\ OneStarts
    BY DEF Init, OwnInv, OneStarts, Owning, Starting
<1> QED BY <1>1, <1>2, <1>3 DEF IInv

(* A step of the script that changes no process, PID file or port. *)
LEMMA ScriptStep ==
    ASSUME IInv, NEW from, NEW to \in {"rest", "stopClang", "stopEnv", "fork", "cmake", "checkEnv"},
           Go(from, to), UNCHANGED <<at, pidFile, abrupt>>, TypeOK',
           to \in {"stopEnv", "fork"} => from \in {"stopClang", "stopEnv"},
           hasty' = 0 => hasty = 0,
           to = "stopClang" => (hasty' = 0 => Settled),
           to = "cmake" => from = "fork",
           to = "checkEnv" => from = "cmake"
    PROVE  IInv'
<1>1. NamedInv'
    BY DEF IInv, NamedInv
<1>2. hasty' = 0 => OwnInv'
    BY DEF IInv, OwnInv
<1>3. hasty' = 0 => OneStarts'
    BY DEF IInv, OneStarts, Go, Settled, Starting, Kinds
<1> QED BY <1>1, <1>2, <1>3 DEF IInv

(***************************************************************************)
(* A SIGTERM to the process named in a PID file: one that has written it   *)
(* and has not run its exit code.  It starts nothing.                      *)
(***************************************************************************)
LEMMA SignalKeeps ==
    ASSUME IInv, NEW k \in Kinds, NEW p \in Pids,
           pidFile[k] = p, at[k][p] # "none", Terminated(k, p), UNCHANGED pidFile
    PROVE  /\ at' \in [Kinds -> [Pids -> Stages]] /\ abrupt' \in SUBSET Kinds
           /\ NamedInv'
           /\ hasty = 0 => OwnInv'
           /\ \A j \in Kinds, q \in Pids : at'[j][q] \in Starting => at[j][q] \in Starting
<1>1. at[k][p] \in Owning
    BY DEF IInv, NamedInv
<1>2. PICK b : /\ at' = [at EXCEPT ![k][p] = b]
               /\ b \in {"none", "leaving", "serving"}
               /\ b = "none" => k \in abrupt'
               /\ b = "serving" => at[k][p] = "serving"
               /\ abrupt \subseteq abrupt' /\ abrupt' \subseteq abrupt \cup {k}
    <2>1. CASE at[k][p] = "written"
        BY <2>1 DEF Terminated
    <2>2. CASE at[k][p] \in {"armed", "serving", "leaving"}
        BY <2>2 DEF Terminated
    <2> QED BY <1>1, <2>1, <2>2 DEF Owning
<1>3. Moved(k, p, at[k][p], b)
    BY <1>2, AtUpdate DEF IInv, Stages
<1>4. at' \in [Kinds -> [Pids -> Stages]] /\ abrupt' \in SUBSET Kinds
    BY <1>2, <1>3 DEF Moved, IInv, TypeOK
<1>5. NamedInv'
    BY <1>2, <1>3 DEF Moved, IInv, NamedInv, Owning
<1>6. hasty = 0 => OwnInv'
    BY <1>1, <1>2, <1>3 DEF Moved, IInv, OwnInv, Owning
<1>7. \A j \in Kinds, q \in Pids : at'[j][q] \in Starting => at[j][q] \in Starting
    BY <1>2, <1>3 DEF Moved, Starting
<1> QED BY <1>4, <1>5, <1>6, <1>7

(* PredictionDaemon.py stop, for one kind. *)
LEMMA StopInv ==
    ASSUME IInv, NEW k \in Kinds, NEW from \in {"stopClang", "stopEnv"},
           NEW to \in {"stopEnv", "fork"},
           NotRunning(k, from, to) \/ Signal(k, from, to) \/ StopRaises(k, from),
           UNCHANGED <<fileVars, buildDir, countVars>>
    PROVE  IInv'
<1> USE DEF fileVars, countVars
<1>1. CASE NotRunning(k, from, to)
    <2>1. TypeOK'
        BY <1>1 DEF NotRunning, Go, IInv, TypeOK
    <2> QED BY <1>1, <2>1, ScriptStep DEF NotRunning
<1>2. CASE StopRaises(k, from)
    <2>1. TypeOK'
        BY <1>2 DEF StopRaises, Go, IInv, TypeOK
    <2> QED BY <1>2, <2>1, ScriptStep DEF StopRaises
<1>3. CASE Signal(k, from, to)
    <2>1. PICK p \in Pids : pidFile[k] = p /\ at[k][p] # "none" /\ Terminated(k, p)
        BY <1>3 DEF Signal
    <2>2. /\ at' \in [Kinds -> [Pids -> Stages]] /\ abrupt' \in SUBSET Kinds
          /\ NamedInv'
          /\ hasty = 0 => OwnInv'
          /\ \A j \in Kinds, q \in Pids : at'[j][q] \in Starting => at[j][q] \in Starting
        BY <2>1, SignalKeeps
    <2>3. script = from /\ script' = to
        BY <1>3 DEF Signal, Go
    <2>4. TypeOK'
        BY <2>2, <2>3 DEF IInv, TypeOK
    <2>5. hasty = 0 => OneStarts'
        BY <2>2, <2>3 DEF IInv, OneStarts
    <2> QED BY <2>2, <2>4, <2>5 DEF IInv
<1> QED BY <1>1, <1>2, <1>3

(* PredictionDaemon.py start, up to the fork of the Env daemon. *)
LEMMA StartInv ==
    ASSUME IInv, ForkClang \/ FirstCmake \/ CmakeDone \/ EnvRefused \/ ForkEnv
    PROVE  IInv'
<1> USE DEF fileVars, countVars
<1>1. CASE ForkClang
    <2>1. PICK p \in Pids : /\ at["Clang"][p] = "none" /\ pidFile["Clang"] # p
                             /\ at' = [at EXCEPT !["Clang"][p] = "check"]
        BY <1>1 DEF ForkClang, Fresh
    <2>2. Moved("Clang", p, "none", "check")
        BY <2>1, AtUpdate DEF IInv, Stages, Kinds
    <2>3. /\ script = "fork" /\ script' = "cmake"
          /\ UNCHANGED <<pidFile, port, buildDir, abrupt,
                         hasty, overtaken, kills, crashes>>
        BY <1>1 DEF ForkClang, Go
    <2>4. TypeOK'
        BY <2>2, <2>3 DEF IInv, TypeOK, Moved
    <2>5. NamedInv'
        BY <2>1, <2>2, <2>3 DEF IInv, NamedInv, Moved
    <2>6. hasty = 0 => OwnInv'
        BY <2>2, <2>3 DEF IInv, OwnInv, Moved, Owning
    <2>7. hasty = 0 => OneStarts'
        BY <2>2, <2>3 DEF IInv, OneStarts, Moved, Kinds
    <2> QED BY <2>3, <2>4, <2>5, <2>6, <2>7 DEF IInv
<1>2. CASE FirstCmake
    <2>1. TypeOK'
        BY <1>2 DEF FirstCmake, Go, IInv, TypeOK
    <2> QED BY <1>2, <2>1, ScriptStep DEF FirstCmake
<1>3. CASE CmakeDone
    <2>1. TypeOK'
        BY <1>3 DEF CmakeDone, Go, IInv, TypeOK
    <2> QED BY <1>3, <2>1, ScriptStep DEF CmakeDone
<1>4. CASE EnvRefused
    <2>1. overtaken' \in 0 .. MaxOvertaken
        BY <1>4, LifecycleAssumption DEF EnvRefused, Refused, IInv, TypeOK
    <2>2. TypeOK'
        BY <1>4, <2>1 DEF EnvRefused, Go, IInv, TypeOK
    <2> QED BY <1>4, <2>2, ScriptStep DEF EnvRefused
<1>5. CASE ForkEnv
    <2>1. PICK p \in Pids : /\ at["Env"][p] = "none" /\ pidFile["Env"] # p
                             /\ at' = [at EXCEPT !["Env"][p] = "forked"]
        BY <1>5 DEF ForkEnv, Fresh
    <2>2. Moved("Env", p, "none", "forked")
        BY <2>1, AtUpdate DEF IInv, Stages, Kinds
    <2>3. /\ script = "checkEnv" /\ script' = "rest" /\ pidFile["Env"] = None
          /\ UNCHANGED <<pidFile, port, buildDir, abrupt,
                         hasty, overtaken, kills, crashes>>
        BY <1>5 DEF ForkEnv, Go
    <2>4. TypeOK'
        BY <2>2, <2>3 DEF IInv, TypeOK, Moved
    <2>5. NamedInv'
        BY <2>1, <2>2, <2>3 DEF IInv, NamedInv, Moved
    <2>6. hasty = 0 => OwnInv'
        BY <2>2, <2>3 DEF IInv, OwnInv, Moved, Owning
    <2>7. hasty = 0 => OneStarts'
        BY <2>2, <2>3 DEF IInv, OneStarts, Moved, Kinds
    <2> QED BY <2>3, <2>4, <2>5, <2>6, <2>7 DEF IInv
<1> QED BY <1>1, <1>2, <1>3, <1>4, <1>5

-------------------------------------------------------------------------------
(***************************************************************************)
(* A step of one process.  What it does to the PID file of its kind is     *)
(* left to each of them: this is what has to be shown of it.               *)
(***************************************************************************)
LEMMA ProcessInv ==
    ASSUME IInv, NEW k \in Kinds, NEW p \in Pids, NEW a, NEW b, Moved(k, p, a, b),
           UNCHANGED <<script, hasty>>, TypeOK',
           \A j \in Kinds : j # k => pidFile'[j] = pidFile[j],
           abrupt \subseteq abrupt',
           a # "none", b \in Starting => a \in Starting,
           \A q \in Pids : pidFile'[k] = q =>
               \/ q = p /\ (b \in Owning \/ (b = "none" /\ k \in abrupt'))
               \/ q # p /\ pidFile[k] = q,
           hasty = 0 =>
               /\ b \in Owning => pidFile'[k] = p
               /\ b = "forked" => pidFile'[k] = None
               /\ b = "opened" => pidFile'[k] = Empty
               /\ \A q \in Pids : q # p /\ at[k][q] \in Owning \cup {"forked", "opened"}
                      => pidFile'[k] = pidFile[k]
    PROVE  IInv'
<1>1. NamedInv'
    BY DEF IInv, NamedInv, Moved
<1>2. hasty = 0 => OwnInv'
    <2> SUFFICES ASSUME hasty = 0, NEW j \in Kinds, NEW q \in Pids
                 PROVE  /\ at'[j][q] \in Owning => pidFile'[j] = q
                        /\ at'[j][q] = "forked" => pidFile'[j] = None
                        /\ at'[j][q] = "opened" => pidFile'[j] = Empty
        BY DEF OwnInv
    <2>1. CASE j = k /\ q = p
        BY <2>1 DEF Moved
    <2>2. CASE j # k \/ q # p
        BY <2>2 DEF Moved, IInv, OwnInv
    <2> QED BY <2>1, <2>2
<1>3. hasty = 0 => OneStarts'
    <2>1. \A j \in Kinds, q \in Pids : at'[j][q] \in Starting => at[j][q] \in Starting
        BY DEF Moved, Starting
    <2>2. script' = script /\ "Env" \in Kinds
        BY DEF Kinds
    <2>3. ASSUME hasty = 0 PROVE OneStarts'
        <3>1. OneStarts
            BY <2>3 DEF IInv
        <3> QED BY <2>1, <2>2, <3>1 DEF OneStarts
    <2> QED BY <2>3
<1> QED BY <1>1, <1>2, <1>3 DEF IInv

(* The Clang daemon of a start finds a PID file, or goes on. *)
LEMMA ClangStartInv ==
    ASSUME IInv, NEW p \in Pids, ClangStart(p)
    PROVE  IInv'
<1> USE DEF fileVars, countVars
<1>1. "Clang" \in Kinds
    BY DEF Kinds
<1>2. CASE ClangRefused(p)
    <2>1. Moved("Clang", p, "check", "none")
        BY <1>1, <1>2, MovesMoved DEF ClangRefused, IInv, Stages
    <2>2. overtaken' \in 0 .. MaxOvertaken
        BY <1>2, LifecycleAssumption DEF ClangRefused, Refused, IInv, TypeOK
    <2>3. TypeOK'
        BY <1>2, <2>1, <2>2 DEF ClangRefused, IInv, TypeOK, Moved
    <2>4. pidFile["Clang"] # p
        BY <1>1, <2>1 DEF IInv, NamedInv, Moved, Owning
    <2> QED BY <1>1, <1>2, <2>1, <2>3, <2>4, ProcessInv DEF ClangRefused, Starting, Owning
<1>3. CASE ClangForks(p)
    <2>1. Moved("Clang", p, "check", "forked")
        BY <1>1, <1>3, MovesMoved DEF ClangForks, IInv, Stages
    <2>2. TypeOK'
        BY <1>3, <2>1 DEF ClangForks, IInv, TypeOK, Moved
    <2>3. \A q \in Pids : pidFile["Clang"] # q
        BY <1>3, LifecycleAssumption DEF ClangForks
    <2> QED BY <1>1, <1>3, <2>1, <2>2, <2>3, ProcessInv DEF ClangForks, Starting, Owning
<1> QED BY <1>2, <1>3 DEF ClangStart

(* The steps of daemonize and of the server. *)
LEMMA DaemonStepInv ==
    ASSUME IInv, NEW k \in Kinds, NEW p \in Pids, DaemonStep(k, p)
    PROVE  IInv'
<1> USE DEF fileVars, countVars
<1>1. CASE OpenPidFile(k, p)
    <2>1. Moved(k, p, "forked", "opened")
        BY <1>1, MovesMoved DEF OpenPidFile, IInv, Stages
    <2>2. pidFile' = [pidFile EXCEPT ![k] = Empty]
        BY <1>1 DEF OpenPidFile
    <2>3. TypeOK'
        BY <1>1, <2>1, <2>2 DEF OpenPidFile, IInv, TypeOK, Moved
    <2>4. pidFile'[k] = Empty /\ \A j \in Kinds : j # k => pidFile'[j] = pidFile[j]
        BY <2>2 DEF IInv, TypeOK
    <2>5. hasty = 0 => \A q \in Pids : q # p => at[k][q] \notin Owning \cup {"forked", "opened"}
        BY <2>1, LifecycleAssumption DEF IInv, OwnInv, OneStarts, Starting, Moved
    <2>6. \A q \in Pids : pidFile'[k] # q
        BY <2>4, LifecycleAssumption
    <2> QED BY <1>1, <2>1, <2>3, <2>4, <2>5, <2>6, ProcessInv DEF OpenPidFile, Starting, Owning
<1>2. CASE WritePidFile(k, p)
    <2>1. Moved(k, p, "opened", "written")
        BY <1>2, MovesMoved DEF WritePidFile, IInv, Stages
    <2>2. /\ pidFile'[k] = IF pidFile[k] = None THEN None ELSE p
          /\ \A j \in Kinds : j # k => pidFile'[j] = pidFile[j]
          /\ pidFile' \in [Kinds -> Pids \cup {None, Empty}]
        BY <1>2 DEF WritePidFile, IInv, TypeOK
    <2>3. TypeOK'
        BY <1>2, <2>1, <2>2 DEF WritePidFile, IInv, TypeOK, Moved
    <2>4. hasty = 0 => /\ pidFile'[k] = p
                     /\ \A q \in Pids : q # p =>
                            at[k][q] \notin Owning \cup {"forked", "opened"}
        BY <2>1, <2>2, LifecycleAssumption
        DEF IInv, OwnInv, OneStarts, Starting, Moved
    <2>5. None \notin Pids
        BY LifecycleAssumption
    <2> QED BY <1>2, <2>1, <2>2, <2>3, <2>4, <2>5, ProcessInv
            DEF WritePidFile, Starting, Owning
<1>3. CASE Arm(k, p)
    <2>1. Moved(k, p, "written", "armed")
        BY <1>3, MovesMoved DEF Arm, IInv, Stages
    <2>2. TypeOK'
        BY <1>3, <2>1 DEF Arm, IInv, TypeOK, Moved
    <2>3. hasty = 0 => pidFile'[k] = p
        BY <1>3, <2>1 DEF Arm, IInv, OwnInv, Moved, Owning
    <2> QED BY <1>3, <2>1, <2>2, <2>3, ProcessInv DEF Arm, Starting, Owning
<1>4. CASE Bind(k, p)
    <2>1. Moved(k, p, "armed", "serving")
        BY <1>4, MovesMoved DEF Bind, IInv, Stages
    <2>2. port' = [port EXCEPT ![k] = p]
        BY <1>4 DEF Bind
    <2>3. TypeOK'
        BY <1>4, <2>1, <2>2 DEF Bind, IInv, TypeOK, Moved
    <2>4. hasty = 0 => pidFile'[k] = p
        BY <1>4, <2>1 DEF Bind, IInv, OwnInv, Moved, Owning
    <2> QED BY <1>4, <2>1, <2>3, <2>4, ProcessInv DEF Bind, Starting, Owning
<1>5. CASE BindFails(k, p)
    <2>1. Moved(k, p, "armed", "leaving")
        BY <1>5, MovesMoved DEF BindFails, IInv, Stages
    <2>2. overtaken' \in 0 .. MaxOvertaken
        BY <1>5, LifecycleAssumption DEF BindFails, IInv, TypeOK
    <2>3. TypeOK'
        BY <1>5, <2>1, <2>2 DEF BindFails, IInv, TypeOK, Moved
    <2>4. hasty = 0 => pidFile'[k] = p
        BY <1>5, <2>1 DEF BindFails, IInv, OwnInv, Moved, Owning
    <2> QED BY <1>5, <2>1, <2>3, <2>4, ProcessInv DEF BindFails, Starting, Owning
<1>6. CASE AtExit(k, p)
    <2>1. Moved(k, p, "leaving", "closing")
        BY <1>6, MovesMoved DEF AtExit, IInv, Stages
    <2>2. pidFile' = [pidFile EXCEPT ![k] = None]
        BY <1>6 DEF AtExit
    <2>3. TypeOK'
        BY <1>6, <2>1, <2>2 DEF AtExit, IInv, TypeOK, Moved
    <2>4. pidFile'[k] = None /\ \A j \in Kinds : j # k => pidFile'[j] = pidFile[j]
        BY <2>2 DEF IInv, TypeOK
    <2>5. hasty = 0 => \A q \in Pids : q # p => at[k][q] \notin Owning \cup {"forked", "opened"}
        BY <2>1, LifecycleAssumption DEF IInv, OwnInv, Moved, Owning
    <2>6. \A q \in Pids : pidFile'[k] # q
        BY <2>4, LifecycleAssumption
    <2> QED BY <1>6, <2>1, <2>3, <2>4, <2>5, <2>6, ProcessInv DEF AtExit, Starting, Owning
<1>7. CASE Unbind(k, p)
    <2>1. /\ port' = [port EXCEPT ![k] = None]
          /\ UNCHANGED <<script, at, pidFile, buildDir, abrupt, countVars>>
        BY <1>7 DEF Unbind
    <2>2. TypeOK'
        BY <2>1 DEF IInv, TypeOK
    <2> QED BY <2>1, <2>2 DEF IInv, NamedInv, OwnInv, OneStarts
<1>8. CASE Ends(k, p)
    <2>1. Moved(k, p, "closing", "none")
        BY <1>8, MovesMoved DEF Ends, IInv, Stages
    <2>2. TypeOK'
        BY <1>8, <2>1 DEF Ends, IInv, TypeOK, Moved
    <2>3. pidFile[k] # p
        BY <2>1 DEF IInv, NamedInv, Moved, Owning
    <2> QED BY <1>8, <2>1, <2>2, <2>3, ProcessInv DEF Ends, Starting, Owning
<1> QED BY <1>1, <1>2, <1>3, <1>4, <1>5, <1>6, <1>7, <1>8 DEF DaemonStep

(* SIGKILL. *)
LEMMA CrashInv ==
    ASSUME IInv, NEW k \in Kinds, NEW p \in Pids, Crash(k, p)
    PROVE  IInv'
<1> USE DEF fileVars, countVars
<1>1. Moved(k, p, "serving", "none")
    BY MovesMoved DEF Crash, IInv, Stages
<1>2. /\ port' = [port EXCEPT ![k] = None] /\ abrupt' = abrupt \cup {k}
      /\ crashes' \in 0 .. MaxCrashes
    BY LifecycleAssumption DEF Crash, IInv, TypeOK
<1>3. TypeOK'
    BY <1>1, <1>2 DEF Crash, IInv, TypeOK, Moved
<1> QED BY <1>1, <1>2, <1>3, ProcessInv DEF Crash, Starting, Owning

(* The "kill" request. *)
LEMMA KillRequestInv ==
    ASSUME IInv, KillRequest
    PROVE  IInv'
<1> USE DEF fileVars, countVars
<1>1. PICK p \in Pids : pidFile["Env"] = p /\ at["Env"][p] # "none" /\ Terminated("Env", p)
    BY DEF KillRequest
<1>2. /\ at' \in [Kinds -> [Pids -> Stages]] /\ abrupt' \in SUBSET Kinds
      /\ NamedInv'
      /\ hasty = 0 => OwnInv'
      /\ \A j \in Kinds, q \in Pids : at'[j][q] \in Starting => at[j][q] \in Starting
    BY <1>1, SignalKeeps DEF KillRequest, Kinds
<1>3. kills' \in 0 .. MaxKills /\ script' = script /\ hasty' = hasty
    BY LifecycleAssumption DEF KillRequest, IInv, TypeOK
<1>4. TypeOK'
    BY <1>2, <1>3 DEF KillRequest, IInv, TypeOK
<1>5. hasty = 0 => OneStarts'
    BY <1>2, <1>3 DEF IInv, OneStarts, Kinds
<1> QED BY <1>2, <1>3, <1>4, <1>5 DEF IInv

(* DaemonStart.sh begins: with an operator who waits, nobody is starting. *)
LEMMA RunScriptInv ==
    ASSUME IInv, RunScript
    PROVE  IInv'
<1> USE DEF fileVars, countVars
<1>1. Go("rest", "stopClang")
    BY DEF RunScript
<1>2. /\ hasty' \in 0 .. MaxHasty
      /\ hasty' = 0 => hasty = 0 /\ Settled
    BY LifecycleAssumption DEF RunScript, IInv, TypeOK
<1>3. UNCHANGED <<at, pidFile, abrupt>>
    BY DEF RunScript
<1>4. TypeOK'
    BY <1>2 DEF RunScript, Go, IInv, TypeOK
<1> QED BY <1>1, <1>2, <1>3, <1>4, ScriptStep

-------------------------------------------------------------------------------
(* Every step, and every stuttering step, keeps the invariant. *)
LEMMA NextInv == IInv /\ [Next]_vars => IInv'
<1> SUFFICES ASSUME IInv, [Next]_vars PROVE IInv'
    OBVIOUS
<1>1. CASE RunScript
    BY <1>1, RunScriptInv
<1>2. CASE StopClang
    BY <1>2, StopInv DEF StopClang, Kinds
<1>3. CASE StopEnv
    BY <1>3, StopInv DEF StopEnv, Kinds
<1>4. CASE ForkClang \/ FirstCmake \/ CmakeDone \/ EnvRefused \/ ForkEnv
    BY <1>4, StartInv
<1>5. ASSUME NEW p \in Pids, ClangStart(p) PROVE IInv'
    BY <1>5, ClangStartInv
<1>6. ASSUME NEW k \in Kinds, NEW p \in Pids, DaemonStep(k, p) PROVE IInv'
    BY <1>6, DaemonStepInv
<1>7. ASSUME NEW k \in Kinds, NEW p \in Pids, Crash(k, p) PROVE IInv'
    BY <1>7, CrashInv
<1>8. CASE KillRequest
    BY <1>8, KillRequestInv
<1>9. CASE UNCHANGED vars
    BY <1>9 DEF vars, fileVars, countVars,
                IInv, TypeOK, NamedInv, OwnInv, OneStarts
<1> QED BY <1>1, <1>2, <1>3, <1>4, <1>5, <1>6, <1>7, <1>8, <1>9 DEF Next, Script

(* The invariant holds of every behaviour. *)
THEOREM Invariance == Spec => []IInv
<1>1. Init => IInv
    BY InitIInv
<1>2. IInv /\ [Next]_vars => IInv'
    BY NextInv
<1> QED BY <1>1, <1>2, PTL DEF Spec

(* The variables have the values their declarations say. *)
THEOREM TypeCorrect == Spec => []TypeOK
<1>1. IInv => TypeOK
    BY DEF IInv
<1> QED BY <1>1, Invariance, PTL

(***************************************************************************)
(* With an operator who waits, the PID file names the process that serves, *)
(* whatever was killed, crashed or refused to start before.                *)
(***************************************************************************)
THEOREM ServersAreNamed == Spec => []ServerIsNamed
<1>1. IInv => ServerIsNamed
    BY DEF IInv, OwnInv, Owning, ServerIsNamed
<1> QED BY <1>1, Invariance, PTL

(***************************************************************************)
(* A PID file that blocks every later start comes from a daemon of its     *)
(* kind that could not run its exit code, however the repetitions of the   *)
(* script overlap.                                                         *)
(***************************************************************************)
THEOREM StaleFilesAreAbrupt == Spec => []StaleOnlyIfAbrupt
<1>1. IInv => StaleOnlyIfAbrupt
    BY DEF IInv, NamedInv, Owning, StaleOnlyIfAbrupt
<1> QED BY <1>1, Invariance, PTL

-------------------------------------------------------------------------------
(* Only the exit code of a daemon removes a PID file. *)
LEMMA OnlyAtExitRemoves ==
    ASSUME IInv, [Next]_vars, NEW k \in Kinds, pidFile'[k] = None, pidFile[k] # None
    PROVE  \E p \in Pids : AtExit(k, p)
<1> USE DEF fileVars, countVars
<1>1. pidFile' # pidFile
    OBVIOUS
<1>2. ~RunScript /\ ~Script /\ ~KillRequest /\ ~UNCHANGED vars
    BY <1>1 DEF RunScript, Script, StopClang, StopEnv, ForkClang, FirstCmake, CmakeDone,
                EnvRefused, ForkEnv, KillRequest, vars
<1>3. ASSUME NEW p \in Pids PROVE ~ClangStart(p)
    BY <1>1 DEF ClangStart, ClangRefused, ClangForks
<1>4. PICK j \in Kinds, p \in Pids : DaemonStep(j, p) \/ Crash(j, p)
    BY <1>2, <1>3 DEF Next
<1>5. ~Arm(j, p) /\ ~Bind(j, p) /\ ~BindFails(j, p) /\ ~Unbind(j, p) /\ ~Ends(j, p) /\ ~Crash(j, p)
    BY <1>1 DEF Arm, Bind, BindFails, Unbind, Ends, Crash
<1>6. ~OpenPidFile(j, p)
    BY LifecycleAssumption DEF OpenPidFile, IInv, TypeOK
<1>7. ~WritePidFile(j, p)
    BY LifecycleAssumption DEF WritePidFile, IInv, TypeOK
<1>8. AtExit(j, p)
    BY <1>4, <1>5, <1>6, <1>7 DEF DaemonStep
<1>9. j = k
    BY <1>8 DEF AtExit, IInv, TypeOK
<1> QED BY <1>8, <1>9

(* With an operator who waits, a daemon removes its own PID file only. *)
THEOREM ExitsRemoveOwn == Spec => RemovesOnlyOwn
<1> DEFINE Own == hasty = 0 => \A k \in Kinds :
                      pidFile'[k] = None /\ pidFile[k] # None =>
                          \E p \in Pids : pidFile[k] = p /\ at'[k][p] = "closing"
<1>1. IInv /\ [Next]_vars => [Own]_vars
    <2> SUFFICES ASSUME IInv, [Next]_vars, hasty = 0, NEW k \in Kinds,
                        pidFile'[k] = None, pidFile[k] # None
                 PROVE  \E p \in Pids : pidFile[k] = p /\ at'[k][p] = "closing"
        OBVIOUS
    <2>1. PICK p \in Pids : AtExit(k, p)
        BY OnlyAtExitRemoves
    <2>2. Moved(k, p, "leaving", "closing")
        BY <2>1, MovesMoved DEF AtExit, IInv, Stages
    <2>3. pidFile[k] = p
        BY <2>2 DEF IInv, OwnInv, Owning, Moved
    <2> QED BY <2>2, <2>3 DEF Moved
<1> QED BY <1>1, Invariance, PTL DEF Spec, RemovesOnlyOwn
===============================================================================
