------------------------ MODULE LimitTimeExec_proofs ------------------------
(***************************************************************************)
(* Proofs about LimitTimeExec.tla, for every time limit, polling interval  *)
(* and set of processes that may be started under the command.             *)
(***************************************************************************)
EXTENDS LimitTimeExec, TLAPS

Polling == {"poll", "sleep"}
KillStages == {"recheck", "children", "killing", "killpid", "join"}

(* The clock: the loop leaves polling at the first poll after the limit. *)
ClockInv ==
    /\ WaitSecs <= LimitTime + WaitUnit
    /\ pc = "sleep" => WaitSecs <= LimitTime
    /\ pc = "poll" /\ IsAlive => WaitSecs <= LimitTime
    /\ pc \in KillStages \cup {"exited"} => WaitSecs > LimitTime
    /\ isKilled => pc = "returned" /\ WaitSecs > LimitTime

(* Nothing is killed before the stage of the loop that kills it. *)
StageInv ==
    /\ pc \in Polling \cup {"recheck", "children"} => snapshot = {}
    /\ pc \in Polling \cup {"recheck", "children", "killing"} => signal = "none"
    /\ pc \notin Polling \cup {"returned"} => ~isKilled
    /\ pc = "returned" /\ ~isKilled => snapshot = {} /\ signal = "none" /\ ret = exitcode

(* How ExecProc ended. *)
ExitInv ==
    /\ exitcode = None <=> IsAlive
    /\ exitcode = 0 => funcRet # None
    /\ pc = "returned" => ~IsAlive

(* No process that was found is left out of the kills, and none comes back. *)
TreeInv ==
    /\ \A q \in Under : q \in alive \cup snapshot => parent[q] # None
    /\ func = "begin" => parent[Cmd] = None
    /\ toKill \subseteq snapshot
    /\ pc = "killing" => alive \cap snapshot \subseteq toKill
    /\ pc \in {"killpid", "join", "returned", "exited"} => alive \cap snapshot = {}

IInv == TypeOK /\ ClockInv /\ StageInv /\ ExitInv /\ TreeInv

(***************************************************************************)
(* Who is not an orphan is in the tree until KillChildren looks, and was   *)
(* seen by it, or started late, after that.                                *)
(***************************************************************************)
LineInv ==
    IF Looked THEN alive \cap Under \subseteq snapshot \cup late \cup orphans
              ELSE alive \cap Under \subseteq Descendants(ExecProc) \cup orphans

-------------------------------------------------------------------------------
(* It holds at the start. *)
LEMMA InitIInv == Init => IInv
<1> SUFFICES ASSUME Init PROVE IInv
    OBVIOUS
<1> USE TimeAssumption, ProcAssumption DEF Init, Procs, Under, IsAlive
<1>1. TypeOK
    BY DEF TypeOK
<1>2. ClockInv /\ StageInv
    BY DEF ClockInv, StageInv, Polling, KillStages
<1>3. ExitInv /\ TreeInv
    BY DEF ExitInv, TreeInv
<1> QED BY <1>1, <1>2, <1>3 DEF IInv

(* A process is among nobody's descendants but those under ExecProc. *)
LEMMA DescendantsUnder == \A q : Descendants(q) \in SUBSET Under
BY DEF Descendants

(* A death takes nobody else, and leaves who was started started. *)
LEMMA DeathInTree ==
    ASSUME TypeOK, NEW q \in Procs, Dies(q)
    PROVE  /\ alive' = alive \ {q}
           /\ \A x \in Under : parent'[x] = None <=> parent[x] = None
BY ProcAssumption DEF TypeOK, Dies, Procs, Under

(* A step of the loop of LimitTimeExec. *)
LEMMA CallerIInv == ASSUME IInv, Caller PROVE IInv'
<1> USE TimeAssumption, ProcAssumption, DescendantsUnder
<1>1. CASE PollAlive
    <2> USE <1>1 DEF PollAlive, parentVars, killVars, execVars, sigVars, treeVars, IsAlive
    <2>1. TypeOK'
        BY DEF IInv, TypeOK, ExitInv, Procs, Under
    <2>2. ClockInv'
        BY DEF IInv, TypeOK, ClockInv, StageInv, Polling, KillStages
    <2>3. StageInv'
        BY DEF IInv, TypeOK, ClockInv, StageInv, ExitInv, Polling, KillStages
    <2>4. ExitInv'
        BY DEF IInv, TypeOK, ExitInv, StageInv, Procs, Under
    <2>5. TreeInv'
        BY DEF IInv, TypeOK, TreeInv, StageInv, Polling, Procs, Under
    <2> QED BY <2>1, <2>2, <2>3, <2>4, <2>5 DEF IInv
<1>2. CASE PollFinished
    <2> USE <1>2 DEF PollFinished, parentVars, killVars, execVars, sigVars, treeVars, IsAlive
    <2>1. TypeOK'
        BY DEF IInv, TypeOK, ExitInv, Procs, Under
    <2>2. ClockInv'
        BY DEF IInv, TypeOK, ClockInv, StageInv, Polling, KillStages
    <2>3. StageInv'
        BY DEF IInv, TypeOK, ClockInv, StageInv, ExitInv, Polling, KillStages
    <2>4. ExitInv'
        BY DEF IInv, TypeOK, ExitInv, StageInv, Procs, Under
    <2>5. TreeInv'
        BY DEF IInv, TypeOK, TreeInv, StageInv, Polling, Procs, Under
    <2> QED BY <2>1, <2>2, <2>3, <2>4, <2>5 DEF IInv
<1>3. CASE Sleep
    <2> USE <1>3 DEF Sleep, parentVars, killVars, execVars, sigVars, treeVars, IsAlive
    <2>1. TypeOK'
        BY DEF IInv, TypeOK, ExitInv, Procs, Under
    <2>2. ClockInv'
        BY DEF IInv, TypeOK, ClockInv, StageInv, Polling, KillStages
    <2>3. StageInv'
        BY DEF IInv, TypeOK, ClockInv, StageInv, ExitInv, Polling, KillStages
    <2>4. ExitInv'
        BY DEF IInv, TypeOK, ExitInv, StageInv, Procs, Under
    <2>5. TreeInv'
        BY DEF IInv, TypeOK, TreeInv, StageInv, Polling, Procs, Under
    <2> QED BY <2>1, <2>2, <2>3, <2>4, <2>5 DEF IInv
<1>4. CASE Recheck
    <2> USE <1>4 DEF Recheck, parentVars, killVars, execVars, sigVars, treeVars, IsAlive
    <2>1. TypeOK'
        BY DEF IInv, TypeOK, ExitInv, Procs, Under
    <2>2. ClockInv'
        BY DEF IInv, TypeOK, ClockInv, StageInv, Polling, KillStages
    <2>3. StageInv'
        BY DEF IInv, TypeOK, ClockInv, StageInv, ExitInv, Polling, KillStages
    <2>4. ExitInv'
        BY DEF IInv, TypeOK, ExitInv, StageInv, Procs, Under
    <2>5. TreeInv'
        BY DEF IInv, TypeOK, TreeInv, StageInv, Polling, Procs, Under
    <2> QED BY <2>1, <2>2, <2>3, <2>4, <2>5 DEF IInv
<1>5. CASE SnapshotChildren
    <2> USE <1>5 DEF SnapshotChildren, parentVars, killVars, execVars, sigVars, treeVars, IsAlive, Descendants
    <2>1. TypeOK'
        BY DEF IInv, TypeOK, ExitInv, Procs, Under
    <2>2. ClockInv'
        BY DEF IInv, TypeOK, ClockInv, StageInv, Polling, KillStages
    <2>3. StageInv'
        BY DEF IInv, TypeOK, ClockInv, StageInv, ExitInv, Polling, KillStages
    <2>4. ExitInv'
        BY DEF IInv, TypeOK, ExitInv, StageInv, Procs, Under
    <2>5. TreeInv'
        BY DEF IInv, TypeOK, TreeInv, StageInv, Polling, Procs, Under
    <2> QED BY <2>1, <2>2, <2>3, <2>4, <2>5 DEF IInv
<1>6. ASSUME NEW q \in Under, KillChild(q) PROVE IInv'
    <2> USE <1>6 DEF KillChild, parentVars, killVars, execVars, sigVars, treeVars, IsAlive, Dies
    <2>1. TypeOK'
        BY DEF IInv, TypeOK, ExitInv, Procs, Under
    <2>2. ClockInv'
        BY DEF IInv, TypeOK, ClockInv, StageInv, Polling, KillStages
    <2>3. StageInv'
        BY DEF IInv, TypeOK, ClockInv, StageInv, ExitInv, Polling, KillStages
    <2>4. ExitInv'
        BY DEF IInv, TypeOK, ExitInv, StageInv, Procs, Under
    <2>5. TreeInv'
        <3>1. /\ alive' = alive \ {q}
              /\ \A x \in Under : parent'[x] = None <=> parent[x] = None
            BY DeathInTree DEF IInv, Procs
        <3> QED
            BY <3>1 DEF IInv, TypeOK, TreeInv, StageInv, Polling, Procs, Under
    <2> QED BY <2>1, <2>2, <2>3, <2>4, <2>5 DEF IInv
<1>7. CASE Terminate
    <2> USE <1>7 DEF Terminate, parentVars, killVars, execVars, sigVars, treeVars, IsAlive
    <2>1. TypeOK'
        BY DEF IInv, TypeOK, ExitInv, Procs, Under
    <2>2. ClockInv'
        BY DEF IInv, TypeOK, ClockInv, StageInv, Polling, KillStages
    <2>3. StageInv'
        BY DEF IInv, TypeOK, ClockInv, StageInv, ExitInv, Polling, KillStages
    <2>4. ExitInv'
        BY DEF IInv, TypeOK, ExitInv, StageInv, Procs, Under
    <2>5. TreeInv'
        BY DEF IInv, TypeOK, TreeInv, StageInv, Polling, Procs, Under
    <2> QED BY <2>1, <2>2, <2>3, <2>4, <2>5 DEF IInv
<1>8. CASE KillPid
    <2> USE <1>8 DEF KillPid, parentVars, killVars, execVars, sigVars, treeVars, IsAlive
    <2>1. TypeOK'
        BY DEF IInv, TypeOK, ExitInv, Procs, Under
    <2>2. ClockInv'
        BY DEF IInv, TypeOK, ClockInv, StageInv, Polling, KillStages
    <2>3. StageInv'
        BY DEF IInv, TypeOK, ClockInv, StageInv, ExitInv, Polling, KillStages
    <2>4. ExitInv'
        BY DEF IInv, TypeOK, ExitInv, StageInv, Procs, Under
    <2>5. TreeInv'
        BY DEF IInv, TypeOK, TreeInv, StageInv, Polling, Procs, Under
    <2> QED BY <2>1, <2>2, <2>3, <2>4, <2>5 DEF IInv
<1>9. CASE Joined
    <2> USE <1>9 DEF Joined, parentVars, killVars, execVars, sigVars, treeVars, IsAlive
    <2>1. TypeOK'
        BY DEF IInv, TypeOK, ExitInv, Procs, Under
    <2>2. ClockInv'
        BY DEF IInv, TypeOK, ClockInv, StageInv, Polling, KillStages
    <2>3. StageInv'
        BY DEF IInv, TypeOK, ClockInv, StageInv, ExitInv, Polling, KillStages
    <2>4. ExitInv'
        BY DEF IInv, TypeOK, ExitInv, StageInv, Procs, Under
    <2>5. TreeInv'
        BY DEF IInv, TypeOK, TreeInv, StageInv, Polling, Procs, Under
    <2> QED BY <2>1, <2>2, <2>3, <2>4, <2>5 DEF IInv
<1>10. CASE JoinTimesOut
    <2> USE <1>10 DEF JoinTimesOut, parentVars, killVars, execVars, sigVars, treeVars, IsAlive
    <2>1. TypeOK'
        BY DEF IInv, TypeOK, ExitInv, Procs, Under
    <2>2. ClockInv'
        BY DEF IInv, TypeOK, ClockInv, StageInv, Polling, KillStages
    <2>3. StageInv'
        BY DEF IInv, TypeOK, ClockInv, StageInv, ExitInv, Polling, KillStages
    <2>4. ExitInv'
        BY DEF IInv, TypeOK, ExitInv, StageInv, Procs, Under
    <2>5. TreeInv'
        BY DEF IInv, TypeOK, TreeInv, StageInv, Polling, Procs, Under
    <2> QED BY <2>1, <2>2, <2>3, <2>4, <2>5 DEF IInv
<1> QED
    BY <1>1, <1>2, <1>3, <1>4, <1>5, <1>6, <1>7, <1>8, <1>9, <1>10 DEF Caller

(* A step of ExecProc. *)
LEMMA ExecIInv == ASSUME IInv, Exec PROVE IInv'
<1> USE TimeAssumption, ProcAssumption, DescendantsUnder
<1>1. CASE FuncRaises
    <2> USE <1>1 DEF FuncRaises, parentVars, killVars, execVars, sigVars, treeVars, IsAlive, ExecExits, Dies
    <2>1. TypeOK'
        BY DEF IInv, TypeOK, ExitInv, Procs, Under
    <2>2. ClockInv'
        BY DEF IInv, TypeOK, ClockInv, StageInv, Polling, KillStages
    <2>3. StageInv'
        BY DEF IInv, TypeOK, ClockInv, StageInv, ExitInv, Polling, KillStages
    <2>4. ExitInv'
        BY DEF IInv, TypeOK, ExitInv, StageInv, Procs, Under
    <2>5. TreeInv'
        <3>1. /\ alive' = alive \ {ExecProc}
              /\ \A x \in Under : parent'[x] = None <=> parent[x] = None
            BY DeathInTree DEF IInv, Procs
        <3> QED
            BY <3>1 DEF IInv, TypeOK, TreeInv, StageInv, Polling, Procs, Under
    <2> QED BY <2>1, <2>2, <2>3, <2>4, <2>5 DEF IInv
<1>2. CASE FuncStartsCmd
    <2> USE <1>2 DEF FuncStartsCmd, Starts, parentVars, killVars, execVars, sigVars, treeVars, IsAlive
    <2>1. TypeOK'
        BY DEF IInv, TypeOK, ExitInv, Procs, Under
    <2>2. ClockInv'
        BY DEF IInv, TypeOK, ClockInv, StageInv, Polling, KillStages
    <2>3. StageInv'
        BY DEF IInv, TypeOK, ClockInv, StageInv, ExitInv, Polling, KillStages
    <2>4. ExitInv'
        BY DEF IInv, TypeOK, ExitInv, StageInv, Procs, Under
    <2>5. TreeInv'
        BY DEF IInv, TypeOK, TreeInv, StageInv, Polling, Procs, Under
    <2> QED BY <2>1, <2>2, <2>3, <2>4, <2>5 DEF IInv
<1>3. ASSUME NEW r \in {0, -1}, FuncReturns(r) PROVE IInv'
    <2> USE <1>3 DEF FuncReturns, parentVars, killVars, execVars, sigVars, treeVars, IsAlive, ExecExits, Dies
    <2>1. TypeOK'
        BY DEF IInv, TypeOK, ExitInv, Procs, Under
    <2>2. ClockInv'
        BY DEF IInv, TypeOK, ClockInv, StageInv, Polling, KillStages
    <2>3. StageInv'
        BY DEF IInv, TypeOK, ClockInv, StageInv, ExitInv, Polling, KillStages
    <2>4. ExitInv'
        BY DEF IInv, TypeOK, ExitInv, StageInv, Procs, Under
    <2>5. TreeInv'
        <3>1. /\ alive' = alive \ {ExecProc}
              /\ \A x \in Under : parent'[x] = None <=> parent[x] = None
            BY DeathInTree DEF IInv, Procs
        <3> QED
            BY <3>1 DEF IInv, TypeOK, TreeInv, StageInv, Polling, Procs, Under
    <2> QED BY <2>1, <2>2, <2>3, <2>4, <2>5 DEF IInv
<1>4. CASE HandleSigterm
    <2> USE <1>4 DEF HandleSigterm, parentVars, killVars, execVars, sigVars, treeVars, IsAlive, Descendants
    <2>1. TypeOK'
        BY DEF IInv, TypeOK, ExitInv, Procs, Under
    <2>2. ClockInv'
        BY DEF IInv, TypeOK, ClockInv, StageInv, Polling, KillStages
    <2>3. StageInv'
        BY DEF IInv, TypeOK, ClockInv, StageInv, ExitInv, Polling, KillStages
    <2>4. ExitInv'
        BY DEF IInv, TypeOK, ExitInv, StageInv, Procs, Under
    <2>5. TreeInv'
        BY DEF IInv, TypeOK, TreeInv, StageInv, Polling, Procs, Under
    <2> QED BY <2>1, <2>2, <2>3, <2>4, <2>5 DEF IInv
<1>5. ASSUME NEW q \in Under, HandlerKills(q) PROVE IInv'
    <2> USE <1>5 DEF HandlerKills, parentVars, killVars, execVars, sigVars, treeVars, IsAlive, Dies
    <2>1. TypeOK'
        BY DEF IInv, TypeOK, ExitInv, Procs, Under
    <2>2. ClockInv'
        BY DEF IInv, TypeOK, ClockInv, StageInv, Polling, KillStages
    <2>3. StageInv'
        BY DEF IInv, TypeOK, ClockInv, StageInv, ExitInv, Polling, KillStages
    <2>4. ExitInv'
        BY DEF IInv, TypeOK, ExitInv, StageInv, Procs, Under
    <2>5. TreeInv'
        <3>1. /\ alive' = alive \ {q}
              /\ \A x \in Under : parent'[x] = None <=> parent[x] = None
            BY DeathInTree DEF IInv, Procs
        <3> QED
            BY <3>1 DEF IInv, TypeOK, TreeInv, StageInv, Polling, Procs, Under
    <2> QED BY <2>1, <2>2, <2>3, <2>4, <2>5 DEF IInv
<1>6. CASE HandlerExits
    <2> USE <1>6 DEF HandlerExits, parentVars, killVars, execVars, sigVars, treeVars, IsAlive, ExecExits, Dies
    <2>1. TypeOK'
        BY DEF IInv, TypeOK, ExitInv, Procs, Under
    <2>2. ClockInv'
        BY DEF IInv, TypeOK, ClockInv, StageInv, Polling, KillStages
    <2>3. StageInv'
        BY DEF IInv, TypeOK, ClockInv, StageInv, ExitInv, Polling, KillStages
    <2>4. ExitInv'
        BY DEF IInv, TypeOK, ExitInv, StageInv, Procs, Under
    <2>5. TreeInv'
        <3>1. /\ alive' = alive \ {ExecProc}
              /\ \A x \in Under : parent'[x] = None <=> parent[x] = None
            BY DeathInTree DEF IInv, Procs
        <3> QED
            BY <3>1 DEF IInv, TypeOK, TreeInv, StageInv, Polling, Procs, Under
    <2> QED BY <2>1, <2>2, <2>3, <2>4, <2>5 DEF IInv
<1>7. CASE SigkillTakesEffect
    <2> USE <1>7 DEF SigkillTakesEffect, parentVars, killVars, execVars, sigVars, treeVars, IsAlive, ExecExits, Dies
    <2>1. TypeOK'
        BY DEF IInv, TypeOK, ExitInv, Procs, Under
    <2>2. ClockInv'
        BY DEF IInv, TypeOK, ClockInv, StageInv, Polling, KillStages
    <2>3. StageInv'
        BY DEF IInv, TypeOK, ClockInv, StageInv, ExitInv, Polling, KillStages
    <2>4. ExitInv'
        BY DEF IInv, TypeOK, ExitInv, StageInv, Procs, Under
    <2>5. TreeInv'
        <3>1. /\ alive' = alive \ {ExecProc}
              /\ \A x \in Under : parent'[x] = None <=> parent[x] = None
            BY DeathInTree DEF IInv, Procs
        <3> QED
            BY <3>1 DEF IInv, TypeOK, TreeInv, StageInv, Polling, Procs, Under
    <2> QED BY <2>1, <2>2, <2>3, <2>4, <2>5 DEF IInv
<1> QED
    BY <1>1, <1>2, <1>3, <1>4, <1>5, <1>6, <1>7 DEF Exec

(* A step of a process under ExecProc. *)
LEMMA SubprocessesIInv == ASSUME IInv, Subprocesses PROVE IInv'
<1> USE TimeAssumption, ProcAssumption, DescendantsUnder
<1>1. ASSUME NEW p \in Under, NEW q \in Subs, Spawn(p, q) PROVE IInv'
    <2> USE <1>1 DEF Spawn, Starts, parentVars, killVars, execVars, sigVars, treeVars, IsAlive
    <2>1. TypeOK'
        BY DEF IInv, TypeOK, ExitInv, Procs, Under
    <2>2. ClockInv'
        BY DEF IInv, TypeOK, ClockInv, StageInv, Polling, KillStages
    <2>3. StageInv'
        BY DEF IInv, TypeOK, ClockInv, StageInv, ExitInv, Polling, KillStages
    <2>4. ExitInv'
        BY DEF IInv, TypeOK, ExitInv, StageInv, Procs, Under
    <2>5. TreeInv'
        BY DEF IInv, TypeOK, TreeInv, StageInv, Polling, Procs, Under
    <2> QED BY <2>1, <2>2, <2>3, <2>4, <2>5 DEF IInv
<1>2. ASSUME NEW p \in Under, Ends(p) PROVE IInv'
    <2> USE <1>2 DEF Ends, parentVars, killVars, execVars, sigVars, treeVars, IsAlive, Dies
    <2>1. TypeOK'
        BY DEF IInv, TypeOK, ExitInv, Procs, Under
    <2>2. ClockInv'
        BY DEF IInv, TypeOK, ClockInv, StageInv, Polling, KillStages
    <2>3. StageInv'
        BY DEF IInv, TypeOK, ClockInv, StageInv, ExitInv, Polling, KillStages
    <2>4. ExitInv'
        BY DEF IInv, TypeOK, ExitInv, StageInv, Procs, Under
    <2>5. TreeInv'
        <3>1. /\ alive' = alive \ {p}
              /\ \A x \in Under : parent'[x] = None <=> parent[x] = None
            BY DeathInTree DEF IInv, Procs
        <3> QED
            BY <3>1 DEF IInv, TypeOK, TreeInv, StageInv, Polling, Procs, Under
    <2> QED BY <2>1, <2>2, <2>3, <2>4, <2>5 DEF IInv
<1> QED
    BY <1>1, <1>2 DEF Subprocesses

(* The invariant holds at every step. *)
THEOREM Invariance == Spec => []IInv
<1>1. IInv /\ [Next]_vars => IInv'
    <2> SUFFICES ASSUME IInv, [Next]_vars PROVE IInv'
        OBVIOUS
    <2>1. CASE Caller \/ Exec \/ Subprocesses
        BY <2>1, CallerIInv, ExecIInv, SubprocessesIInv
    <2>2. CASE UNCHANGED vars
        BY <2>2 DEF vars, IInv, TypeOK, ClockInv, StageInv, ExitInv, TreeInv, IsAlive
    <2> QED BY <2>1, <2>2 DEF Next
<1> QED
    BY InitIInv, <1>1, PTL DEF Spec

(* The variables stay in their types. *)
THEOREM TypeCorrect == Spec => []TypeOK
<1>1. IInv => TypeOK
    BY DEF IInv
<1> QED BY <1>1, Invariance, PTL

(***************************************************************************)
(* LimitTimeExec never returns while Func runs, and what it gives for      *)
(* success is never said of a Func that did not end by itself in time.     *)
(***************************************************************************)
THEOREM ReturnIsSound == Spec => []SoundReturn
<1>1. IInv => SoundReturn
    BY DEF IInv, ClockInv, StageInv, ExitInv, SoundReturn, IsAlive
<1> QED BY <1>1, Invariance, PTL

(* Nothing is killed before LimitTime, nor later than one poll after it. *)
THEOREM KillsAreTimely == Spec => []KilledOnlyAfterLimit
<1>1. IInv => KilledOnlyAfterLimit
    BY TimeAssumption DEF IInv, TypeOK, ClockInv, StageInv, Polling, KillStages,
       KilledOnlyAfterLimit
<1> QED BY <1>1, Invariance, PTL

-------------------------------------------------------------------------------
(* The tree, and who leaves it *)

(* Who is started under the tree is in it, and the others stay in it. *)
LEMMA StartInTree ==
    ASSUME TypeOK, NEW p \in Procs, NEW q \in Under, q \notin alive, Starts(p, q)
    PROVE  /\ Descendants(ExecProc) \subseteq Descendants(ExecProc)'
           /\ p \in {ExecProc} \cup Descendants(ExecProc) => q \in Descendants(ExecProc)'
<1>1. /\ alive' = alive \cup {q}
      /\ \A x \in Under \ {q} : parent'[x] = parent[x]
      /\ parent'[q] = p
    BY DEF Starts, TypeOK
<1>2. ASSUME NEW S \in SUBSET Under, Closed(S, ExecProc)'
      PROVE  Closed(S, ExecProc)
    BY <1>1, <1>2 DEF Closed
<1>3. ASSUME NEW x \in Descendants(ExecProc) PROVE x \in Descendants(ExecProc)'
    BY <1>1, <1>2 DEF Descendants
<1>4. ASSUME p \in {ExecProc} \cup Descendants(ExecProc)
      PROVE  q \in Descendants(ExecProc)'
    <2>1. ASSUME NEW S \in SUBSET Under, Closed(S, ExecProc)' PROVE q \in S
        <3>1. p \in S \cup {ExecProc}
            BY <1>2, <1>4, <2>1 DEF Descendants
        <3>2. q \in alive' \cap Under
            BY <1>1
        <3> QED BY <1>1, <2>1, <3>1, <3>2 DEF Closed
    <2> QED BY <1>1, <2>1 DEF Descendants
<1> QED BY <1>3, <1>4

(* A death takes only its own descendants from the tree. *)
LEMMA DeathLeavesTree ==
    ASSUME TypeOK, NEW d \in Procs, Dies(d)
    PROVE  (alive' \cap Descendants(ExecProc)) \ Descendants(d) \subseteq Descendants(ExecProc)'
<1>1. /\ alive' = alive \ {d}
      /\ \A x \in Under : parent[x] # d => parent'[x] = parent[x]
    BY DEF Dies, TypeOK
<1> SUFFICES ASSUME NEW x \in Descendants(ExecProc), x \in alive', x \notin Descendants(d),
                    NEW S \in SUBSET Under, Closed(S, ExecProc)'
             PROVE  x \in S
    BY DEF Descendants
<1> DEFINE T == S \cup ({d} \cap Under) \cup Descendants(d)
<1>2. \A q \in alive \cap Under : parent[q] \in Descendants(d) \cup {d} => q \in Descendants(d)
    BY DEF Descendants, Closed
<1>3. Closed(T, ExecProc)
    <2> SUFFICES ASSUME NEW q \in alive \cap Under, parent[q] \in T \cup {ExecProc}
                 PROVE  q \in T
        BY DEF Closed
    <2>1. CASE q = d
        BY <2>1
    <2>2. CASE parent[q] \in Descendants(d) \cup {d}
        BY <1>2, <2>2
    <2>3. CASE q # d /\ parent[q] \notin Descendants(d) \cup {d}
        <3>1. parent'[q] \in S \cup {ExecProc} /\ q \in alive' \cap Under
            BY <1>1, <2>3
        <3> QED BY <3>1 DEF Closed
    <2> QED BY <2>1, <2>2, <2>3
<1>4. T \in SUBSET Under
    BY DescendantsUnder
<1>5. x \in T
    BY <1>3, <1>4 DEF Descendants
<1> QED BY <1>1, <1>5

(* A start keeps LineInv, if it changes nothing but the tree. *)
LEMMA StartKeepsLine ==
    ASSUME TypeOK, TreeInv, LineInv, NEW p \in Procs, p \in alive, NEW q \in Under,
           parent[q] = None, Starts(p, q), UNCHANGED <<pc, isKilled, snapshot>>
    PROVE  LineInv'
<1>1. q \notin alive
    BY DEF TreeInv
<1>2. /\ alive' = alive \cup {q} /\ (Looked' <=> Looked)
      /\ orphans \subseteq orphans' /\ late \subseteq late'
      /\ Looked => q \in late'
      /\ ~Looked /\ p \in orphans => q \in orphans'
    BY DEF Starts, Looked
<1>3. CASE Looked
    BY <1>2, <1>3 DEF LineInv
<1>4. CASE ~Looked
    <2>1. p \in {ExecProc} \cup Descendants(ExecProc) \cup orphans
        BY <1>4 DEF LineInv, Procs
    <2>2. q \in Descendants(ExecProc)' \cup orphans'
        BY <1>1, <1>2, <1>4, <2>1, StartInTree
    <2>3. Descendants(ExecProc) \subseteq Descendants(ExecProc)'
        BY <1>1, StartInTree
    <2> QED BY <1>2, <1>4, <2>2, <2>3 DEF LineInv
<1> QED BY <1>3, <1>4

(* A death keeps LineInv, if it changes nothing but the tree. *)
LEMMA DeathKeepsLine ==
    ASSUME TypeOK, LineInv, NEW d \in Procs, Dies(d), UNCHANGED <<pc, isKilled, snapshot>>
    PROVE  LineInv'
<1>1. /\ alive' = alive \ {d} /\ late' = late /\ (Looked' <=> Looked)
      /\ orphans' = IF Looked THEN orphans ELSE orphans \cup Descendants(d)
    BY DEF Dies, Looked
<1>2. CASE Looked
    BY <1>1, <1>2 DEF LineInv
<1>3. CASE ~Looked
    BY <1>1, <1>3, DeathLeavesTree DEF LineInv
<1> QED BY <1>2, <1>3

(* Without a start, a death or a look nothing moves in the tree. *)
LEMMA TreeKept ==
    ASSUME LineInv, UNCHANGED <<alive, parent, orphans, late, snapshot>>, Looked' <=> Looked
    PROVE  LineInv'
<1>1. Descendants(ExecProc)' = Descendants(ExecProc)
    BY DEF Descendants, Closed
<1> QED BY <1>1 DEF LineInv

(* Every step keeps LineInv. *)
LEMMA LineStep == ASSUME IInv, LineInv, [Next]_vars PROVE LineInv'
<1> USE DEF IInv, parentVars, killVars, execVars, sigVars, treeVars
<1>1. ASSUME PollAlive \/ PollFinished \/ Sleep \/ Recheck PROVE LineInv'
    <2>1. ~isKilled /\ pc \in {"poll", "sleep", "recheck"}
        BY <1>1 DEF PollAlive, PollFinished, Sleep, Recheck, ClockInv
    <2>2. ~isKilled' /\ pc' \in {"poll", "sleep", "recheck", "children", "returned"}
        BY <1>1, <2>1 DEF PollAlive, PollFinished, Sleep, Recheck
    <2>3. UNCHANGED <<alive, parent, orphans, late, snapshot>>
        BY <1>1 DEF PollAlive, PollFinished, Sleep, Recheck
    <2> QED BY <2>1, <2>2, <2>3, TreeKept DEF Looked
<1>2. CASE SnapshotChildren
    <2>1. ~Looked
        BY <1>2 DEF SnapshotChildren, Looked, StageInv, Polling
    <2> QED BY <1>2, <2>1 DEF SnapshotChildren, LineInv, Looked
<1>3. ASSUME NEW q \in Under, KillChild(q) PROVE LineInv'
    BY <1>3, DeathKeepsLine DEF KillChild, Procs
<1>4. ASSUME Terminate \/ KillPid \/ Joined \/ JoinTimesOut PROVE LineInv'
    <2>1. UNCHANGED <<alive, parent, orphans, late, snapshot>> /\ Looked /\ Looked'
        BY <1>4 DEF Terminate, KillPid, Joined, JoinTimesOut, Looked
    <2> QED BY <2>1, TreeKept
<1>5. CASE FuncRaises
    BY <1>5, DeathKeepsLine DEF FuncRaises, ExecExits, Procs
<1>6. CASE FuncStartsCmd
    <2>1. Cmd \in Under /\ ExecProc \in Procs /\ ExecProc \in alive /\ parent[Cmd] = None
        BY <1>6 DEF FuncStartsCmd, TreeInv, IsAlive, Under, Procs
    <2> QED BY <1>6, <2>1, StartKeepsLine DEF FuncStartsCmd
<1>7. ASSUME NEW c \in {0, -1}, FuncReturns(c) PROVE LineInv'
    BY <1>7, DeathKeepsLine DEF FuncReturns, ExecExits, Procs
<1>8. CASE HandleSigterm
    BY <1>8, TreeKept DEF HandleSigterm, Looked
<1>9. ASSUME NEW q \in Under, HandlerKills(q) PROVE LineInv'
    BY <1>9, DeathKeepsLine DEF HandlerKills, Procs
<1>10. ASSUME HandlerExits \/ SigkillTakesEffect PROVE LineInv'
    BY <1>10, DeathKeepsLine DEF HandlerExits, SigkillTakesEffect, ExecExits, Procs
<1>11. ASSUME NEW p \in Under, NEW q \in Subs, Spawn(p, q) PROVE LineInv'
    BY <1>11, StartKeepsLine DEF Spawn, Under, Procs
<1>12. ASSUME NEW p \in Under, Ends(p) PROVE LineInv'
    BY <1>12, DeathKeepsLine DEF Ends, Procs
<1>13. CASE UNCHANGED vars
    BY <1>13, TreeKept DEF vars, Looked
<1> QED
    BY <1>1, <1>2, <1>3, <1>4, <1>5, <1>6, <1>7, <1>8, <1>9, <1>10, <1>11, <1>12, <1>13
    DEF Next, Caller, Exec, Subprocesses

(***************************************************************************)
(* Only who was started late or had lost a process above it survives the   *)
(* kill, whatever tree of processes the command has grown.                 *)
(***************************************************************************)
THEOREM OnlyTheseSurvive == Spec => []SurvivorsLateOrOrphaned
<1>1. Init => LineInv
    BY ProcAssumption DEF Init, LineInv, Looked, Under
<1>2. IInv /\ LineInv => SurvivorsLateOrOrphaned
    BY DEF IInv, TypeOK, TreeInv, ExitInv, IsAlive, LineInv, Looked, SurvivorsLateOrOrphaned, Procs
<1>3. IInv /\ LineInv /\ [Next]_vars => LineInv'
    BY LineStep
<1> QED BY Invariance, <1>1, <1>2, <1>3, PTL DEF Spec
===============================================================================
