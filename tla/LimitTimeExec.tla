---------------------------- MODULE LimitTimeExec ----------------------------
(***************************************************************************)
(* LimitTimeExec of training/Lib.py: the Env daemon runs Func (workerMake  *)
(* or workerVerify) in a child process, ExecProc, polls it every WaitUnit  *)
(* seconds and kills it, with the processes under it, after LimitTime.     *)
(*                                                                         *)
(* Func runs one command (taskset make, or lit) and waits for it; the      *)
(* command starts further processes.  The process tree is a parent         *)
(* function: when a process dies its children go to Init.                  *)
(***************************************************************************)
EXTENDS Integers, FiniteSets

CONSTANTS LimitTime, WaitUnit,  \* seconds
          ExecProc,             \* the multiprocessing.Process
          Cmd,                  \* the command that Func runs
          Subs,                 \* processes that may be started under Cmd
          Init1,                \* process 1, that adopts orphans
          None

ASSUME TimeAssumption == LimitTime \in Nat /\ WaitUnit \in Nat \ {0}
ASSUME ProcAssumption ==
    /\ IsFiniteSet(Subs)
    /\ ExecProc # Cmd /\ ExecProc # Init1 /\ ExecProc # None
    /\ Cmd # Init1 /\ Cmd # None /\ Init1 # None
    /\ {ExecProc, Cmd, Init1, None} \cap Subs = {}
    /\ None \notin Int

Under == {Cmd} \cup Subs        \* what can run below ExecProc
Procs == {ExecProc} \cup Under

VARIABLES
    pc,         \* where LimitTimeExec is
    WaitSecs,
    isKilled, ret,
    alive,      \* the processes that run
    parent,     \* [Under -> Procs \cup {Init1, None}], None before its start
    orphans,    \* those that lost a process above them before KillChildren looked
    late,       \* those started after it looked
    snapshot,   \* what KillChildren found
    toKill,     \* what it has still to kill
    func,       \* where Func is, in ExecProc
    funcRet,    \* what Func returned, None before
    exitcode,   \* exitcode of ExecProc, None while it runs
    handler,    \* what ExecProc's SIGTERM handler has to kill; None outside it
    signal      \* the last signal sent to ExecProc

parentVars == <<WaitSecs, isKilled, ret>>
killVars == <<snapshot, toKill>>
execVars == <<func, funcRet, exitcode>>
sigVars == <<handler, signal>>
treeVars == <<alive, parent, orphans, late>>
vars == <<pc, WaitSecs, isKilled, ret, alive, parent, orphans, late, snapshot, toKill,
          func, funcRet, exitcode, handler, signal>>

(***************************************************************************)
(* psutil's children(recursive=True): the least set of live processes that *)
(* holds the children of p and the children of its members.                *)
(***************************************************************************)
Closed(S, p) == \A q \in alive \cap Under : parent[q] \in S \cup {p} => q \in S
Descendants(p) ==
    {q \in alive \cap Under : \A S \in SUBSET Under : Closed(S, p) => q \in S}

(* KillChildren has looked at the tree. *)
Looked == pc \in {"killing", "killpid", "join", "exited"} \/ isKilled

(* q dies: its live children are adopted. *)
Dies(q) ==
    /\ alive' = alive \ {q}
    /\ parent' = [x \in Under |-> IF parent[x] = q THEN Init1 ELSE parent[x]]
    /\ orphans' = IF Looked THEN orphans ELSE orphans \cup Descendants(q)
    /\ UNCHANGED late

(* p starts q. *)
Starts(p, q) ==
    /\ alive' = alive \cup {q}
    /\ parent' = [parent EXCEPT ![q] = p]
    /\ orphans' = IF ~Looked /\ p \in orphans THEN orphans \cup {q} ELSE orphans
    /\ late' = IF Looked THEN late \cup {q} ELSE late

Init ==
    /\ pc = "poll" /\ WaitSecs = 0 /\ isKilled = FALSE /\ ret = -1
    /\ alive = {ExecProc} /\ parent = [q \in Under |-> None]
    /\ orphans = {} /\ late = {}
    /\ snapshot = {} /\ toKill = {}
    /\ func = "begin" /\ funcRet = None /\ exitcode = None
    /\ handler = None /\ signal = "none"

-------------------------------------------------------------------------------
(* The daemon: the polling loop *)

IsAlive == ExecProc \in alive

PollAlive ==
    /\ pc = "poll" /\ IsAlive
    /\ pc' = "sleep"
    /\ UNCHANGED <<parentVars, killVars, execVars, sigVars, treeVars>>

PollFinished ==
    /\ pc = "poll" /\ ~IsAlive
    /\ pc' = "returned"
    /\ ret' = exitcode /\ isKilled' = FALSE
    /\ UNCHANGED <<WaitSecs, killVars, execVars, sigVars, treeVars>>

(* Bug variant: killed at the limit, not after it. *)
Sleep_AtLimit ==
    /\ pc = "sleep"
    /\ WaitSecs' = WaitSecs + WaitUnit
    /\ pc' = IF WaitSecs' >= LimitTime THEN "recheck" ELSE "poll"
    /\ UNCHANGED <<isKilled, ret, killVars, execVars, sigVars, treeVars>>

(* Bug variant: the seconds slept are not added up. *)
Sleep_NotCounted ==
    /\ pc = "sleep"
    /\ WaitSecs' = WaitUnit
    /\ pc' = IF WaitSecs' > LimitTime THEN "recheck" ELSE "poll"
    /\ UNCHANGED <<isKilled, ret, killVars, execVars, sigVars, treeVars>>

(* time.sleep(WaitUnit), and the comparison with LimitTime *)
Sleep ==
    /\ pc = "sleep"
    /\ WaitSecs' = WaitSecs + WaitUnit
    /\ pc' = IF WaitSecs' > LimitTime THEN "recheck" ELSE "poll"
    /\ UNCHANGED <<isKilled, ret, killVars, execVars, sigVars, treeVars>>

Recheck ==
    /\ pc = "recheck"
    /\ pc' = IF IsAlive THEN "children" ELSE "poll"
    /\ UNCHANGED <<parentVars, killVars, execVars, sigVars, treeVars>>

(* Bug variant: children() without recursive=True. *)
SnapshotChildren_NotRecursive ==
    /\ pc = "children"
    /\ snapshot' = Descendants(ExecProc)
    /\ toKill' = {q \in alive \cap Under : parent[q] = ExecProc}
    /\ pc' = "killing"
    /\ UNCHANGED <<parentVars, execVars, sigVars, treeVars>>

(* KillChildren: one look at the tree, then a kill for each process found. *)
SnapshotChildren ==
    /\ pc = "children"
    /\ snapshot' = Descendants(ExecProc)
    /\ toKill' = Descendants(ExecProc)
    /\ pc' = "killing"
    /\ UNCHANGED <<parentVars, execVars, sigVars, treeVars>>

KillChild(q) ==
    /\ pc = "killing" /\ q \in toKill
    /\ toKill' = toKill \ {q}
    /\ Dies(q)
    /\ UNCHANGED <<pc, parentVars, snapshot, execVars, sigVars>>

(* ExecProc.terminate() *)
Terminate ==
    /\ pc = "killing" /\ toKill = {}
    /\ signal' = "SIGTERM"
    /\ pc' = "killpid"
    /\ UNCHANGED <<parentVars, killVars, execVars, handler, treeVars>>

KillPid ==
    /\ pc = "killpid"
    /\ signal' = "SIGKILL"
    /\ pc' = "join"
    /\ UNCHANGED <<parentVars, killVars, execVars, handler, treeVars>>

(* Bug variant: returns after the kill without waiting for its effect. *)
Joined_NoWait ==
    /\ pc = "join"
    /\ pc' = "returned"
    /\ isKilled' = TRUE /\ ret' = -1
    /\ UNCHANGED <<WaitSecs, killVars, execVars, sigVars, treeVars>>

Joined ==
    /\ pc = "join" /\ ~IsAlive
    /\ pc' = "returned"
    /\ isKilled' = TRUE /\ ret' = -1
    /\ UNCHANGED <<WaitSecs, killVars, execVars, sigVars, treeVars>>

(* Ten seconds after SIGKILL it is still there: sys.exit(0) in the handler. *)
JoinTimesOut ==
    /\ pc = "join" /\ IsAlive
    /\ pc' = "exited"
    /\ UNCHANGED <<parentVars, killVars, execVars, sigVars, treeVars>>

Caller ==
    \/ PollAlive \/ PollFinished \/ Sleep \/ Recheck \/ SnapshotChildren
    \/ (\E q \in Under : KillChild(q))
    \/ Terminate \/ KillPid \/ Joined \/ JoinTimesOut

-------------------------------------------------------------------------------
(* ExecProc *)

ExecExits(code) ==
    /\ Dies(ExecProc)
    /\ exitcode' = code
    /\ func' = "over"
    /\ handler' = None

(* os.chdir raises, or sys.exit(1) on a missing environment variable *)
FuncRaises ==
    /\ func = "begin" /\ IsAlive /\ handler = None
    /\ ExecExits(1)
    /\ UNCHANGED <<pc, parentVars, killVars, funcRet, signal>>

(* subprocess.Popen of ExecuteCmd *)
FuncStartsCmd ==
    /\ func = "begin" /\ IsAlive /\ handler = None
    /\ func' = "wait"
    /\ Starts(ExecProc, Cmd)
    /\ UNCHANGED <<pc, parentVars, killVars, funcRet, exitcode, sigVars>>

(***************************************************************************)
(* The command is over and Func returns r, which says whether the command  *)
(* succeeded; multiprocessing drops r and the process exits with 0.        *)
(***************************************************************************)
FuncReturns(r) ==
    /\ func = "wait" /\ IsAlive /\ Cmd \notin alive /\ handler = None
    /\ funcRet' = r
    /\ ExecExits(0)
    /\ UNCHANGED <<pc, parentVars, killVars, signal>>

(***************************************************************************)
(* The handler that daemonize installed in the daemon is inherited by      *)
(* ExecProc: on SIGTERM it looks at its own children and kills them.       *)
(***************************************************************************)
HandleSigterm ==
    /\ signal \in {"SIGTERM", "SIGKILL"} /\ IsAlive /\ handler = None
    /\ handler' = Descendants(ExecProc)
    /\ UNCHANGED <<pc, parentVars, killVars, execVars, signal, treeVars>>

HandlerKills(q) ==
    /\ handler # None /\ IsAlive
    /\ q \in handler \cap alive
    /\ handler' = handler \ {q}
    /\ Dies(q)
    /\ UNCHANGED <<pc, parentVars, killVars, execVars, signal>>

(* SystemExit(1) at its end, or psutil's NoSuchProcess for one that is gone *)
HandlerExits ==
    /\ handler # None /\ IsAlive
    /\ handler \cap alive # handler \/ handler = {}
    /\ ExecExits(1)
    /\ UNCHANGED <<pc, parentVars, killVars, funcRet, signal>>

SigkillTakesEffect ==
    /\ signal = "SIGKILL" /\ IsAlive
    /\ ExecExits(-9)
    /\ UNCHANGED <<pc, parentVars, killVars, funcRet, signal>>

Exec ==
    \/ FuncRaises \/ FuncStartsCmd \/ (\E r \in {0, -1} : FuncReturns(r))
    \/ HandleSigterm \/ (\E q \in Under : HandlerKills(q)) \/ HandlerExits
    \/ SigkillTakesEffect

-------------------------------------------------------------------------------
(* The processes under ExecProc start others, and end when they are done. *)

Spawn(p, q) ==
    /\ p \in alive \cap Under
    /\ q \in Subs /\ parent[q] = None
    /\ Starts(p, q)
    /\ UNCHANGED <<pc, parentVars, killVars, execVars, sigVars>>

Ends(p) ==
    /\ p \in alive \cap Under
    /\ Dies(p)
    /\ UNCHANGED <<pc, parentVars, killVars, execVars, sigVars>>

Subprocesses == \E p \in Under : Ends(p) \/ \E q \in Subs : Spawn(p, q)

Over == pc \in {"returned", "exited"}

Next == \/ Caller
        \/ Exec
        \/ Subprocesses
        \/ Over /\ UNCHANGED vars

(* Only the daemon's own process is assumed to go on: Func may hang. *)
Spec == Init /\ [][Next]_vars /\ WF_vars(Caller)

-------------------------------------------------------------------------------
(* Properties *)

(* The variables have the values their declarations say. *)
TypeOK ==
    /\ pc \in {"poll", "sleep", "recheck", "children", "killing", "killpid",
               "join", "returned", "exited"}
    /\ WaitSecs \in Nat
    /\ isKilled \in BOOLEAN
    /\ ret \in {0, 1, -1, -9}
    /\ alive \in SUBSET Procs
    /\ parent \in [Under -> Procs \cup {Init1, None}]
    /\ orphans \in SUBSET Under /\ late \in SUBSET Under
    /\ snapshot \in SUBSET Under /\ toKill \in SUBSET Under
    /\ func \in {"begin", "wait", "over"}
    /\ funcRet \in {None, 0, -1}
    /\ exitcode \in {None, 0, 1, -9}
    /\ handler = None \/ handler \in SUBSET Under
    /\ signal \in {"none", "SIGTERM", "SIGKILL"}

(***************************************************************************)
(* When the call returns the executed process is over.  make() and         *)
(* verify() take (False, 0) for success: Func then ran to its end, was not *)
(* signalled, and within the limit plus one poll.                          *)
(***************************************************************************)
SoundReturn ==
    pc = "returned" =>
        /\ ExecProc \notin alive
        /\ ~isKilled /\ ret = 0 =>
                /\ funcRet # None
                /\ signal = "none"
                /\ WaitSecs <= LimitTime + WaitUnit

(* Nothing is killed before its time, nor called killed without a kill. *)
KilledOnlyAfterLimit ==
    (isKilled \/ signal # "none" \/ snapshot # {}) =>
        WaitSecs > LimitTime /\ WaitSecs <= LimitTime + WaitUnit

(***************************************************************************)
(* What survives a kill was started after KillChildren looked at the tree, *)
(* or had by then lost a process above it, with which it left the tree and *)
(* the reach of children(recursive=True).  Nothing else survives.          *)
(***************************************************************************)
SurvivorsLateOrOrphaned ==
    (pc = "returned" /\ isKilled) => alive \subseteq late \cup orphans

(* The call ends, whatever Func and its processes do. *)
CallEnds == <>Over

===============================================================================
