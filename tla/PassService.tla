----------------------------- MODULE PassService -----------------------------
(***************************************************************************)
(* The daemons of inference/: a compiler asks the Clang daemon of          *)
(* PredictionDaemon.py for one pass after the other for the function it is *)
(* at; ClangEcho hands the line on to tfServer.py, the process that keeps  *)
(* the model, through two queues of a multiprocessing manager.             *)
(***************************************************************************)
EXTENDS Integers, Sequences, FiniteSets

CONSTANTS Compilers,    \* the compiler processes, numbered in the order in
                        \* which make starts them
          Funcs,        \* function names
          fn,           \* [Compilers -> Funcs], what each compiles
          Passes,       \* what the model chooses from (34)
          Jobs,         \* how many compilers make runs at a time (-j)
          Threshold,    \* passes for a function (9)
          MaxStops,     \* bound: how often the daemon gets SIGTERM
          None

ASSUME ServiceAssumption ==
    /\ Compilers \subseteq Nat /\ IsFiniteSet(Compilers) /\ IsFiniteSet(Passes)
    /\ Threshold \in Nat \ {0} /\ Cardinality(Passes) >= Threshold
    /\ fn \in [Compilers -> Funcs]
    /\ MaxStops \in Nat /\ Jobs \in Nat
    /\ None \notin Compilers \cup Funcs \cup Passes

VARIABLES
    state,      \* of each compiler
    line,       \* what of its line has reached the daemon
    got,        \* [Compilers -> Seq(Passes)]
    listen,     \* the connections that wait for accept, a sequence of compilers
    daemon,     \* "up" or "down"
    at,         \* where the handler is
    cur,        \* the compiler it serves
    reply,      \* Pass of ClangEcho
    tfServerLock,   \* whether it is held
    GlobalIpcQueue_Features, GlobalIpcQueue_Pass,
    manager,    \* whether the process that holds the queues runs
    tf,         \* "idle", "chosen" or "dead": the model's process
    choice,     \* what it has still to put
    FunctionPassRec,    \* [Funcs -> SUBSET Passes], {} without an entry
    stops,
    disturbed   \* history: the functions whose compilation was not left alone

compVars == <<state, line, got>>
handlerVars == <<at, cur, reply, tfServerLock>>
queueVars == <<GlobalIpcQueue_Features, GlobalIpcQueue_Pass>>
tfVars == <<tf, choice, FunctionPassRec>>
daemonVars == <<daemon, manager, stops>>
vars == <<state, line, got, listen, daemon, at, cur, reply, tfServerLock,
          GlobalIpcQueue_Features, GlobalIpcQueue_Pass, manager, tf, choice,
          FunctionPassRec, stops, disturbed>>

Nothing == [pass |-> None, for |-> None]

Init ==
    /\ state = [c \in Compilers |-> "idle"]
    /\ line = [c \in Compilers |-> "none"]
    /\ got = [c \in Compilers |-> <<>>]
    /\ listen = <<>> /\ daemon = "up"
    /\ at = "accept" /\ cur = None /\ reply = Nothing /\ tfServerLock = FALSE
    /\ GlobalIpcQueue_Features = <<>> /\ GlobalIpcQueue_Pass = <<>>
    /\ manager = TRUE /\ tf = "idle" /\ choice = Nothing
    /\ FunctionPassRec = [f \in Funcs |-> {}]
    /\ stops = 0 /\ disturbed = {}

-------------------------------------------------------------------------------
(* The compilers *)

Active(c) == state[c] \in {"ready", "sending", "waiting"}

(* They get no more passes, and the history of their functions is not theirs. *)
FailAll(C) ==
    /\ state' = [c \in Compilers |-> IF c \in C /\ Active(c) THEN "failed" ELSE state[c]]
    /\ got' = [c \in Compilers |-> IF c \in C /\ Active(c) THEN <<>> ELSE got[c]]
    /\ disturbed' = disturbed \cup {fn[c] : c \in {d \in C : Active(d)}}

(* Functions of one name are one function to the daemon. *)
Begin(c) ==
    /\ state[c] = "idle" /\ \A d \in Compilers : d < c => state[d] # "idle"
    /\ Cardinality({d \in Compilers : Active(d)}) < Jobs
    /\ state' = [state EXCEPT ![c] = "ready"]
    /\ disturbed' = IF \E d \in Compilers : Active(d) /\ fn[d] = fn[c]
                    THEN disturbed \cup {fn[c]} ELSE disturbed
    /\ UNCHANGED <<line, got, listen, handlerVars, queueVars, tfVars, daemonVars>>

Connect(c) ==
    /\ state[c] = "ready" /\ daemon = "up"
    /\ state' = [state EXCEPT ![c] = "sending"]
    /\ line' = [line EXCEPT ![c] = "none"]
    /\ listen' = Append(listen, c)
    /\ UNCHANGED <<got, handlerVars, queueVars, tfVars, daemonVars, disturbed>>

Refused(c) ==
    /\ state[c] = "ready" /\ daemon = "down"
    /\ FailAll({c})
    /\ UNCHANGED <<line, listen, handlerVars, queueVars, tfVars, daemonVars>>

(* "function @ features", written as a whole *)
SendLine(c) ==
    /\ state[c] = "sending"
    /\ state' = [state EXCEPT ![c] = "waiting"]
    /\ line' = [line EXCEPT ![c] = "whole"]
    /\ UNCHANGED <<got, listen, handlerVars, queueVars, tfVars, daemonVars, disturbed>>

(***************************************************************************)
(* The compiler is killed; readline() returns what had been sent: no "@",  *)
(* or too few features.                                                    *)
(***************************************************************************)
Killed(c) ==
    /\ Active(c)
    /\ FailAll({c})
    /\ IF state[c] = "sending"
       THEN \E l \in {"noAt", "partial"} : line' = [line EXCEPT ![c] = l]
       ELSE UNCHANGED line
    /\ UNCHANGED <<listen, handlerVars, queueVars, tfVars, daemonVars>>

-------------------------------------------------------------------------------
(* The Clang daemon: a server without threads *)

(* The handler is over: the connection is closed. *)
HandlerEnds ==
    /\ at' = "accept" /\ cur' = None /\ reply' = Nothing
    /\ line' = [c \in Compilers |-> IF c = cur THEN "none" ELSE line[c]]

Accept ==
    /\ daemon = "up" /\ at = "accept" /\ listen # <<>>
    /\ cur' = Head(listen) /\ listen' = Tail(listen)
    /\ at' = "read"
    /\ UNCHANGED <<compVars, reply, tfServerLock, queueVars, tfVars, daemonVars, disturbed>>

(* readline() and split('@'): there may be no Inputs[1]. *)
ReadLine ==
    /\ at = "read" /\ line[cur] \in {"whole", "partial"}
    /\ at' = "acquire"
    /\ UNCHANGED <<compVars, listen, cur, reply, tfServerLock, queueVars, tfVars,
                   daemonVars, disturbed>>

ReadLineRaises ==
    /\ at = "read" /\ line[cur] = "noAt"
    /\ FailAll({cur})
    /\ HandlerEnds
    /\ UNCHANGED <<listen, tfServerLock, queueVars, tfVars, daemonVars>>

Acquire ==
    /\ at = "acquire" /\ ~tfServerLock
    /\ tfServerLock' = TRUE /\ at' = "put"
    /\ UNCHANGED <<compVars, listen, cur, reply, queueVars, tfVars, daemonVars, disturbed>>

Put ==
    /\ at = "put" /\ manager
    /\ GlobalIpcQueue_Features' =
            Append(GlobalIpcQueue_Features,
                   [func |-> fn[cur], line |-> line[cur], for |-> cur])
    /\ at' = "get"
    /\ UNCHANGED <<compVars, listen, cur, reply, tfServerLock, GlobalIpcQueue_Pass,
                   tfVars, daemonVars, disturbed>>

(* No process holds the queue: the call raises, and the lock stays held. *)
PutRaises ==
    /\ at = "put" /\ ~manager
    /\ FailAll({cur})
    /\ HandlerEnds
    /\ UNCHANGED <<listen, tfServerLock, queueVars, tfVars, daemonVars>>

Get ==
    /\ at = "get" /\ GlobalIpcQueue_Pass # <<>>
    /\ reply' = Head(GlobalIpcQueue_Pass)
    /\ GlobalIpcQueue_Pass' = Tail(GlobalIpcQueue_Pass)
    /\ at' = "release"
    /\ UNCHANGED <<compVars, listen, cur, tfServerLock, GlobalIpcQueue_Features,
                   tfVars, daemonVars, disturbed>>

(* Bug variant: the lock is not released. *)
Release_Forgotten ==
    /\ at = "release"
    /\ at' = "write"
    /\ UNCHANGED <<compVars, listen, cur, reply, tfServerLock, queueVars, tfVars,
                   daemonVars, disturbed>>

Release ==
    /\ at = "release"
    /\ tfServerLock' = FALSE /\ at' = "write"
    /\ UNCHANGED <<compVars, listen, cur, reply, queueVars, tfVars, daemonVars, disturbed>>

(* The pass goes to the compiler, if it is still there. *)
Write ==
    /\ at = "write"
    /\ IF state[cur] = "waiting"
       THEN /\ got' = [got EXCEPT ![cur] = Append(@, reply.pass)]
            /\ state' = [state EXCEPT ![cur] =
                            IF Len(got'[cur]) = Threshold THEN "done" ELSE "ready"]
       ELSE UNCHANGED <<got, state>>
    /\ HandlerEnds
    /\ UNCHANGED <<listen, tfServerLock, queueVars, tfVars, daemonVars, disturbed>>

Handler ==
    \/ Accept \/ ReadLine \/ ReadLineRaises \/ Acquire \/ Put \/ PutRaises
    \/ Get \/ Release \/ Write

-------------------------------------------------------------------------------
(* tfServer *)

(* Bug variant: the history is removed one pass too early. *)
Forgotten_TooSoon(h) == IF Cardinality(h) = Threshold - 1 THEN {} ELSE h

(* Bug variant: the history is removed at the call after the last pass. *)
Forgotten_TooLate(h) == IF Cardinality(h) > Threshold THEN {} ELSE h

(* "if the pass meet the threshold, remove its history" *)
Forgotten(h) == IF Cardinality(h) = Threshold THEN {} ELSE h

(***************************************************************************)
(* ChoosePass: the model's choose_action chooses a pass that is not in the *)
(* history that it is given, and puts it there.                            *)
(***************************************************************************)
ChoosePass(p) ==
    /\ tf = "idle" /\ manager /\ GlobalIpcQueue_Features # <<>>
    /\ LET request == Head(GlobalIpcQueue_Features)
           history == FunctionPassRec[request.func]
       IN  /\ request.line = "whole"
           /\ p \notin history
           /\ FunctionPassRec' = [FunctionPassRec EXCEPT ![request.func] =
                                    Forgotten(history \cup {p})]
           /\ choice' = [pass |-> p, for |-> request.for]
    /\ GlobalIpcQueue_Features' = Tail(GlobalIpcQueue_Features)
    /\ tf' = "chosen"
    /\ UNCHANGED <<compVars, listen, handlerVars, GlobalIpcQueue_Pass, daemonVars, disturbed>>

(* What a process had in memory is gone with it. *)
TfDies ==
    /\ tf' = "dead" /\ choice' = Nothing
    /\ FunctionPassRec' = [f \in Funcs |-> {}]

(* A vector that is no number or too short: an exception ends the process. *)
ModelRaises ==
    /\ tf = "idle" /\ manager /\ GlobalIpcQueue_Features # <<>>
    /\ Head(GlobalIpcQueue_Features).line = "partial"
    /\ GlobalIpcQueue_Features' = Tail(GlobalIpcQueue_Features)
    /\ TfDies
    /\ UNCHANGED <<compVars, listen, handlerVars, GlobalIpcQueue_Pass, daemonVars,
                   disturbed>>

PutPass ==
    /\ tf = "chosen"
    /\ GlobalIpcQueue_Pass' = Append(GlobalIpcQueue_Pass, choice)
    /\ tf' = "idle" /\ choice' = Nothing
    /\ UNCHANGED <<compVars, listen, handlerVars, GlobalIpcQueue_Features,
                   FunctionPassRec, daemonVars, disturbed>>

TfServer == (\E p \in Passes : ChoosePass(p)) \/ ModelRaises \/ PutPass

-------------------------------------------------------------------------------
(* Stop and start *)

Sigterm ==
    /\ daemon = "up" /\ stops < MaxStops
    /\ stops' = stops + 1

(* The handler of SIGTERM kills the manager, with its queues, and tfServer. *)
ChildrenKilled ==
    /\ manager' = FALSE
    /\ GlobalIpcQueue_Features' = <<>> /\ GlobalIpcQueue_Pass' = <<>>
    /\ TfDies

(* SystemExit ends the daemon. *)
Stopped ==
    /\ Sigterm
    /\ daemon' = "down" /\ ChildrenKilled
    /\ FailAll({c \in Compilers : state[c] \in {"sending", "waiting"}})
    /\ HandlerEnds /\ listen' = <<>> /\ tfServerLock' = FALSE

(***************************************************************************)
(* Bug variant: only the request is given up, with a lock that is released *)
(* on the way out, and nothing is killed.                                  *)
(***************************************************************************)
Swallowed_NothingKilled ==
    /\ Sigterm /\ at # "accept"
    /\ FailAll({cur})
    /\ HandlerEnds /\ tfServerLock' = FALSE
    /\ UNCHANGED <<listen, daemon, manager, queueVars, tfVars>>

(***************************************************************************)
(* Before Python 3.6 socketserver takes SystemExit for an error of the     *)
(* request: the daemon goes on, without its children, and with the lock    *)
(* held if it was.                                                         *)
(***************************************************************************)
Swallowed ==
    /\ Sigterm /\ at # "accept"
    /\ ChildrenKilled
    /\ FailAll({cur})
    /\ HandlerEnds
    /\ UNCHANGED <<listen, daemon, tfServerLock>>

(* A new daemon, with a new lock, new queues and a new tfServer *)
Start ==
    /\ daemon = "down"
    /\ daemon' = "up" /\ manager' = TRUE /\ tf' = "idle"
    /\ disturbed' = disturbed \cup {fn[c] : c \in {d \in Compilers : Active(d)}}
    /\ UNCHANGED <<compVars, listen, handlerVars, queueVars, choice, FunctionPassRec,
                   stops>>

-------------------------------------------------------------------------------
Compiler(c) ==
    \/ Begin(c) \/ Connect(c) \/ Refused(c) \/ SendLine(c) \/ Killed(c)

Next ==
    \/ \E c \in Compilers : Compiler(c)
    \/ Handler \/ TfServer
    \/ Stopped \/ Swallowed \/ Start

(* The daemon and tfServer go on, and a compiler that has begun a line. *)
Spec == /\ Init /\ [][Next]_vars
        /\ WF_vars(Handler) /\ WF_vars(TfServer)
        /\ \A c \in Compilers : WF_vars(SendLine(c))

-------------------------------------------------------------------------------
(* Properties *)

Reply == [pass : Passes, for : Compilers]
Request == [func : Funcs, line : {"whole", "partial"}, for : Compilers]

(* The variables have the values their declarations say. *)
TypeOK ==
    /\ state \in [Compilers ->
            {"idle", "ready", "sending", "waiting", "done", "failed"}]
    /\ line \in [Compilers -> {"none", "whole", "partial", "noAt"}]
    /\ got \in [Compilers -> Seq(Passes)]
    /\ listen \in Seq(Compilers)
    /\ daemon \in {"up", "down"}
    /\ at \in {"accept", "read", "acquire", "put", "get", "release", "write"}
    /\ cur \in Compilers \cup {None}
    /\ reply \in Reply \cup {Nothing} /\ choice \in Reply \cup {Nothing}
    /\ tfServerLock \in BOOLEAN /\ manager \in BOOLEAN
    /\ GlobalIpcQueue_Features \in Seq(Request)
    /\ GlobalIpcQueue_Pass \in Seq(Reply)
    /\ tf \in {"idle", "chosen", "dead"}
    /\ FunctionPassRec \in [Funcs -> SUBSET Passes]
    /\ stops \in Nat /\ disturbed \in SUBSET Funcs

(***************************************************************************)
(* The pass that a handler writes back was chosen for the compiler it      *)
(* serves, whatever became of the handlers before it: none leaves a pass   *)
(* in the queue, that the next one would take for its own.                 *)
(***************************************************************************)
ReplyIsOwn == at \in {"release", "write"} => reply.for = cur

(***************************************************************************)
(* tfServer.py:118: "avoid repeated pass every 9 iters".  For a function   *)
(* of which no two compilations overlapped and none was broken off, the    *)
(* passes are all different.                                               *)
(***************************************************************************)
DistinctPasses ==
    \A c \in Compilers : fn[c] \notin disturbed =>
        \A i, j \in 1 .. Len(got[c]) : got[c][i] = got[c][j] => i = j

(* Such a function has no history between two of its compilations. *)
HistoryIsGone ==
    \A f \in Funcs \ disturbed :
        daemon = "up" /\ (\A c \in Compilers : fn[c] = f => ~Active(c)) =>
            FunctionPassRec[f] = {}

(***************************************************************************)
(* A compiler waits for ever only for a model that died: of a line that    *)
(* was cut off, or of a SIGTERM that did not end the daemon.               *)
(***************************************************************************)
WaitersAreServed ==
    \A c \in Compilers :
        state[c] = "waiting" ~> state[c] # "waiting" \/ tf = "dead"

===============================================================================
