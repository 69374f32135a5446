---------------------------- MODULE SigintHandler ----------------------------
(***************************************************************************)
(* Ctrl-C on fakeEnv.py: every process of the program (the main one and    *)
(* its EnvWorkers, that inherit the handler) runs sigint_handler, which    *)
(* goes through the worker IDs and sends each a "kill" with one TcpClient. *)
(***************************************************************************)
EXTENDS Naturals, FiniteSets

CONSTANTS Procs,            \* the processes that get SIGINT
          maxWorkerNum,     \* workers are 1 .. maxWorkerNum, at least one
          None

Workers == 1 .. maxWorkerNum

VARIABLES
    i,      \* the loop variable of each process; maxWorkerNum + 1 after it
    tcp,    \* the worker its TcpClient is connected to, None while init is False
    up,     \* whether the Env daemon of each worker listens
    inbox,  \* [Workers -> number of connections with a "kill" to be read]
    raised  \* the processes whose handler ended on an exception

vars == <<i, tcp, up, inbox, raised>>

Init ==
    /\ i = [p \in Procs |-> 1]
    /\ tcp = [p \in Procs |-> None]
    /\ up = [w \in Workers |-> TRUE]
    /\ inbox = [w \in Workers |-> 0]
    /\ raised = {}

InLoop(p) == i[p] <= maxWorkerNum /\ p \notin raised

(***************************************************************************)
(* tcp.Send(WorkerID=i, Msg="kill"): it connects when it is not connected, *)
(* and writes.  Nothing disconnects before the next worker's turn, so what *)
(* is written later goes to the same daemon, that reads one line of it.    *)
(***************************************************************************)
SendKill(p) ==
    /\ InLoop(p)
    /\ tcp[p] = None
    /\ up[i[p]]
    /\ tcp' = [tcp EXCEPT ![p] = i[p]]
    /\ inbox' = [inbox EXCEPT ![i[p]] = @ + 1]
    /\ i' = [i EXCEPT ![p] = @ + 1]
    /\ UNCHANGED <<up, raised>>

SendOnSameConnection(p) ==
    /\ InLoop(p)
    /\ tcp[p] # None
    /\ i' = [i EXCEPT ![p] = @ + 1]
    /\ UNCHANGED <<tcp, up, inbox, raised>>

(* Connection refused, or the other end has gone (EPIPE, ECONNRESET). *)
SendRaises(p) ==
    /\ InLoop(p)
    /\ ~up[IF tcp[p] = None THEN i[p] ELSE tcp[p]]
    /\ raised' = raised \cup {p}
    /\ UNCHANGED <<i, tcp, up, inbox>>

(* EnvTcpHandler.handle of a "kill": SIGTERM to the daemon itself. *)
DaemonKilled(w) ==
    /\ up[w] /\ inbox[w] > 0
    /\ up' = [up EXCEPT ![w] = FALSE]
    /\ inbox' = [inbox EXCEPT ![w] = 0]
    /\ UNCHANGED <<i, tcp, raised>>

Stopped == \A p \in Procs : ~InLoop(p)

Next ==
    \/ \E p \in Procs : SendKill(p) \/ SendOnSameConnection(p) \/ SendRaises(p)
    \/ \E w \in Workers : DaemonKilled(w)
    \/ Stopped /\ UNCHANGED vars

Spec == /\ Init /\ [][Next]_vars
        /\ \A p \in Procs : WF_vars(SendKill(p) \/ SendOnSameConnection(p) \/ SendRaises(p))
        /\ \A w \in Workers : WF_vars(DaemonKilled(w))

(***************************************************************************)
(* fakeEnv.py, line 116: the handler is for the workers "from 1 to         *)
(* maxWorkerNum": after Ctrl-C each of them stops.                         *)
(***************************************************************************)
EveryWorkerStops == \A w \in Workers : <>~up[w]

===============================================================================
