-------------------------- MODULE PassService_proofs --------------------------
(***************************************************************************)
(* Proofs about PassService.tla for any number of compilers, functions and *)
(* passes, any threshold and any number of SIGTERMs.                       *)
(***************************************************************************)
EXTENDS PassService, FiniteSetTheorems, SequenceTheorems, TLAPS

Elems(s) == {s[i] : i \in 1 .. Len(s)}

OneToOne(s) == \A i, j \in 1 .. Len(s) : s[i] = s[j] => i = j

(* The pass that tfServer has chosen and the compiler has not got *)
Coming ==
    IF tf = "chosen" THEN choice
    ELSE IF at \in {"release", "write"} THEN reply
    ELSE IF GlobalIpcQueue_Pass # <<>> THEN Head(GlobalIpcQueue_Pass)
    ELSE Nothing

(* What c will have got when that pass has arrived *)
Prospect(c) ==
    IF c = cur /\ Coming # Nothing THEN Append(got[c], Coming.pass) ELSE got[c]

-------------------------------------------------------------------------------
(* The handler's request is in one place: one queue, tfServer or the reply. *)
FlightInv ==
    /\ at = "accept" <=> cur = None
    /\ at = "read" => Coming = Nothing
    /\ reply # Nothing <=> at \in {"release", "write"}
    /\ choice # Nothing <=> tf = "chosen"
    /\ Coming # Nothing => Coming.for = cur
    /\ at \notin {"release", "write", "get"} => Coming = Nothing
    /\ at \in {"release", "write"} => tf = "idle"
    /\ at # "get" => GlobalIpcQueue_Features = <<>>
    /\ GlobalIpcQueue_Features # <<>> =>
            /\ GlobalIpcQueue_Features =
                    <<[func |-> fn[cur], line |-> line[cur], for |-> cur]>>
            /\ tf # "chosen" /\ GlobalIpcQueue_Pass = <<>>
    /\ GlobalIpcQueue_Pass # <<>> => at = "get" /\ tf = "idle" /\ Len(GlobalIpcQueue_Pass) = 1

(* Without a manager there is nothing in its queues, and no model. *)
ManagerInv ==
    /\ ~manager => /\ tf = "dead"
                   /\ at # "get"
    /\ daemon = "down" => at = "accept" /\ ~manager /\ listen = <<>>
    /\ tf = "dead" => \A f \in Funcs : FunctionPassRec[f] = {}

(* Who is at the daemon has connected, once, and has had no pass since. *)
ConnInv ==
    /\ OneToOne(listen) /\ cur \notin Elems(listen)
    /\ \A c \in Elems(listen) \cup ({cur} \ {None}) :
            state[c] \in {"sending", "waiting", "failed"}
    /\ \A c \in Compilers :
        /\ state[c] \in {"idle", "sending"} => line[c] = "none"
        /\ line[c] \in {"partial", "noAt"} => state[c] = "failed"
    /\ at \notin {"accept", "read"} => line[cur] \in {"whole", "partial"}

(* Two compilers of one function are not left alone, nor is one that fails. *)
AloneInv ==
    \A c \in Compilers :
        /\ state[c] = "idle" => got[c] = <<>>
        /\ state[c] = "failed" => fn[c] \in disturbed
        /\ Active(c) => Len(got[c]) < Threshold
        /\ \A d \in Compilers :
                Active(c) /\ Active(d) /\ fn[c] = fn[d] /\ c # d => fn[c] \in disturbed

(* An undisturbed compiler gets different passes ... *)
DistinctInv ==
    \A c \in Compilers : fn[c] \notin disturbed =>
        /\ OneToOne(Prospect(c))
        /\ IsFiniteSet(Elems(Prospect(c)))
        /\ Cardinality(Elems(Prospect(c))) = Len(Prospect(c))

(* ... which are the history of its function, until they are complete. *)
HistoryInv ==
    tf # "dead" =>
        /\ \A f \in Funcs \ disturbed :
                (\A c \in Compilers : fn[c] = f => ~Active(c)) => FunctionPassRec[f] = {}
        /\ \A c \in Compilers : fn[c] \notin disturbed /\ Active(c) =>
                FunctionPassRec[fn[c]] =
                    IF Len(Prospect(c)) = Threshold THEN {} ELSE Elems(Prospect(c))

IInv == TypeOK /\ FlightInv /\ ManagerInv /\ ConnInv /\ AloneInv /\ DistinctInv /\ HistoryInv

-------------------------------------------------------------------------------
(* The invariant holds at the start. *)
LEMMA InitIInv == Init => IInv
<1> SUFFICES ASSUME Init PROVE IInv
    OBVIOUS
<1> USE DEF Init
<1>1. TypeOK
    <2>1. <<>> \in Seq(Compilers) /\ <<>> \in Seq(Request) /\ <<>> \in Seq(Reply)
        OBVIOUS
    <2>2. got \in [Compilers -> Seq(Passes)]
        OBVIOUS
    <2>3. FunctionPassRec \in [Funcs -> SUBSET Passes]
        OBVIOUS
    <2> QED BY <2>1, <2>2, <2>3 DEF TypeOK
<1>2. FlightInv /\ ManagerInv /\ ConnInv
    BY ServiceAssumption DEF FlightInv, ManagerInv, ConnInv, OneToOne, Elems, Coming, Nothing
<1>3. AloneInv
    BY ServiceAssumption DEF AloneInv, Active
<1>4. \A c \in Compilers : Prospect(c) = <<>> /\ ~Active(c)
    BY DEF Prospect, Coming, Active
<1>5. OneToOne(<<>>) /\ Elems(<<>>) = {} /\ Len(<<>>) = 0
    BY DEF OneToOne, Elems
<1>6. DistinctInv
    BY <1>4, <1>5, FS_EmptySet DEF DistinctInv
<1>7. HistoryInv
    BY <1>4 DEF HistoryInv
<1> QED BY <1>1, <1>2, <1>3, <1>6, <1>7 DEF IInv

(* A chosen pass is no Nothing, and its parts are a pass and a compiler. *)
LEMMA ReplyParts ==
    /\ Nothing \notin Reply
    /\ \A r \in Reply : r.pass \in Passes /\ r.for \in Compilers
BY ServiceAssumption DEF Reply, Nothing

(* The handler serves a compiler. *)
LEMMA CurIsCompiler ==
    ASSUME IInv, at # "accept"
    PROVE  cur \in Compilers
BY DEF IInv, TypeOK, FlightInv

(* What failing some compilers does to the types *)
LEMMA FailTypes ==
    ASSUME TypeOK, NEW C \in SUBSET Compilers, FailAll(C)
    PROVE  /\ state' \in [Compilers ->
                    {"idle", "ready", "sending", "waiting", "done", "failed"}]
           /\ got' \in [Compilers -> Seq(Passes)]
           /\ disturbed' \in SUBSET Funcs
<1>1. <<>> \in Seq(Passes)
    OBVIOUS
<1>2. \A c \in Compilers : fn[c] \in Funcs
    BY ServiceAssumption
<1> QED BY <1>1, <1>2 DEF TypeOK, FailAll

(* What the end of a handler does to the types *)
LEMMA EndTypes ==
    ASSUME TypeOK, HandlerEnds
    PROVE  /\ line' \in [Compilers -> {"none", "whole", "partial", "noAt"}]
           /\ at' = "accept" /\ cur' = None /\ reply' = Nothing
BY DEF TypeOK, HandlerEnds

(* What the end of the manager and of tfServer does to the types *)
LEMMA KilledTypes ==
    ASSUME ChildrenKilled
    PROVE  /\ GlobalIpcQueue_Features' \in Seq(Request) /\ GlobalIpcQueue_Pass' \in Seq(Reply)
           /\ manager' = FALSE /\ tf' = "dead" /\ choice' = Nothing
           /\ FunctionPassRec' \in [Funcs -> SUBSET Passes]
<1>1. [f \in Funcs |-> {}] \in [Funcs -> SUBSET Passes]
    OBVIOUS
<1> QED BY <1>1 DEF ChildrenKilled, TfDies

(* What it does to each compiler and its function *)
LEMMA FailEach ==
    ASSUME NEW C \in SUBSET Compilers, FailAll(C)
    PROVE  /\ \A d \in Compilers :
                /\ state'[d] = IF d \in C /\ Active(d) THEN "failed" ELSE state[d]
                /\ got'[d] = IF d \in C /\ Active(d) THEN <<>> ELSE got[d]
           /\ disturbed \subseteq disturbed'
           /\ \A d \in C : Active(d) => fn[d] \in disturbed'
BY DEF FailAll

(* The steps of the compilers keep the types. *)
LEMMA CompilerTypes ==
    ASSUME IInv, NEW c \in Compilers, Compiler(c)
    PROVE  TypeOK'
<1> USE ServiceAssumption DEF IInv, TypeOK, handlerVars, queueVars, tfVars, daemonVars, compVars
<1>1. CASE Begin(c)
    BY <1>1 DEF Begin
<1>2. CASE Connect(c)
    BY <1>2 DEF Connect
<1>3. CASE Refused(c)
    BY <1>3, FailTypes DEF Refused
<1>4. CASE SendLine(c)
    BY <1>4 DEF SendLine
<1>5. CASE Killed(c)
    <2>1. line' \in [Compilers -> {"none", "whole", "partial", "noAt"}]
        BY <1>5 DEF Killed
    <2> QED BY <1>5, <2>1, FailTypes DEF Killed
<1> QED BY <1>1, <1>2, <1>3, <1>4, <1>5 DEF Compiler

(* The steps of the handler keep the types. *)
LEMMA HandlerTypes ==
    ASSUME IInv, Handler
    PROVE  TypeOK'
<1> USE ServiceAssumption DEF IInv, TypeOK, handlerVars, queueVars, tfVars, daemonVars, compVars
<1>1. CASE Accept
    BY <1>1 DEF Accept
<1>2. CASE ReadLine
    BY <1>2 DEF ReadLine
<1>3. CASE ReadLineRaises
    BY <1>3, CurIsCompiler, FailTypes, EndTypes DEF ReadLineRaises
<1>4. CASE Acquire
    BY <1>4 DEF Acquire
<1>5. CASE Put
    <2>1. cur \in Compilers /\ line[cur] \in {"whole", "partial"} /\ fn[cur] \in Funcs
        BY <1>5, CurIsCompiler DEF Put, ConnInv
    <2>2. [func |-> fn[cur], line |-> line[cur], for |-> cur] \in Request
        BY <2>1 DEF Request
    <2> QED BY <1>5, <2>2 DEF Put
<1>6. CASE PutRaises
    BY <1>6, CurIsCompiler, FailTypes, EndTypes DEF PutRaises
<1>7. CASE Get
    BY <1>7 DEF Get
<1>8. CASE Release
    BY <1>8 DEF Release
<1>9. CASE Write
    <2>1. cur \in Compilers /\ reply \in Reply
        BY <1>9, CurIsCompiler DEF Write, FlightInv
    <2>2. Append(got[cur], reply.pass) \in Seq(Passes)
        BY <2>1, ReplyParts
    <2>3. got' \in [Compilers -> Seq(Passes)]
        BY <1>9, <2>2 DEF Write
    <2> QED BY <1>9, <2>3 DEF Write, HandlerEnds
<1> QED BY <1>1, <1>2, <1>3, <1>4, <1>5, <1>6, <1>7, <1>8, <1>9 DEF Handler

(* The steps of tfServer, stop and start keep the types. *)
LEMMA DaemonTypes ==
    ASSUME IInv, TfServer \/ Stopped \/ Swallowed \/ Start
    PROVE  TypeOK'
<1> USE ServiceAssumption DEF IInv, TypeOK, handlerVars, queueVars, tfVars, daemonVars, compVars
<1>1. ASSUME NEW p \in Passes, ChoosePass(p) PROVE TypeOK'
    <2> DEFINE r == Head(GlobalIpcQueue_Features)
               h == FunctionPassRec[r.func]
    <2>0. r \in Request
        BY <1>1 DEF ChoosePass
    <2>1. r.func \in Funcs /\ r.for \in Compilers
        BY <2>0 DEF Request
    <2>5. Tail(GlobalIpcQueue_Features) \in Seq(Request)
        BY <1>1 DEF ChoosePass
    <2>2. Forgotten(h \cup {p}) \in SUBSET Passes
        BY <2>1 DEF Forgotten
    <2>3. FunctionPassRec' \in [Funcs -> SUBSET Passes]
        BY <1>1, <2>1, <2>2 DEF ChoosePass
    <2>4. choice' \in Reply
        BY <1>1, <2>1 DEF ChoosePass, Reply
    <2> HIDE DEF r, h
    <2> QED BY <1>1, <2>3, <2>4, <2>5 DEF ChoosePass
<1>2. CASE ModelRaises
    BY <1>2 DEF ModelRaises, TfDies
<1>3. CASE PutPass
    <2>1. choice \in Reply
        BY <1>3 DEF PutPass, FlightInv
    <2> QED BY <1>3, <2>1 DEF PutPass
<1>4. CASE Stopped
    <2>1. FailAll({c \in Compilers : state[c] \in {"sending", "waiting"}})
        BY <1>4 DEF Stopped
    <2>2. <<>> \in Seq(Compilers)
        OBVIOUS
    <2>3. {c \in Compilers : state[c] \in {"sending", "waiting"}} \in SUBSET Compilers
        OBVIOUS
    <2>4. /\ state' \in [Compilers ->
                    {"idle", "ready", "sending", "waiting", "done", "failed"}]
          /\ got' \in [Compilers -> Seq(Passes)] /\ disturbed' \in SUBSET Funcs
        BY <2>1, <2>3, FailTypes
    <2>5. /\ HandlerEnds /\ ChildrenKilled /\ stops' \in Nat
          /\ daemon' = "down" /\ listen' = <<>> /\ tfServerLock' = FALSE
        BY <1>4 DEF Stopped, Sigterm
    <2> QED BY <2>2, <2>4, <2>5, EndTypes, KilledTypes
<1>5. CASE Swallowed
    <2>1. FailAll({cur}) /\ {cur} \in SUBSET Compilers
        BY <1>5, CurIsCompiler DEF Swallowed
    <2>4. /\ state' \in [Compilers ->
                    {"idle", "ready", "sending", "waiting", "done", "failed"}]
          /\ got' \in [Compilers -> Seq(Passes)] /\ disturbed' \in SUBSET Funcs
        BY <2>1, FailTypes
    <2> QED BY <1>5, <2>4, EndTypes, KilledTypes DEF Swallowed, Sigterm
<1>6. CASE Start
    BY <1>6 DEF Start
<1> QED BY <1>1, <1>2, <1>3, <1>4, <1>5, <1>6 DEF TfServer

-------------------------------------------------------------------------------
(* What the daemon is at does not change with a compiler. *)
LEMMA CompilerPlaces ==
    ASSUME IInv, NEW c \in Compilers, Compiler(c)
    PROVE  (FlightInv /\ ManagerInv)'
<1> USE DEF IInv, TypeOK, FlightInv, ManagerInv, ConnInv, Coming,
            handlerVars, queueVars, tfVars, daemonVars, compVars
<1>1. at \notin {"accept", "read"} => line'[cur] = line[cur]
    BY ServiceAssumption, CurIsCompiler
       DEF Compiler, Begin, Connect, Refused, SendLine, Killed, Active
<1>2. UNCHANGED <<handlerVars, queueVars, tfVars, daemonVars>>
    BY DEF Compiler, Begin, Connect, Refused, SendLine, Killed
<1>3. daemon = "down" => listen' = listen
    BY <1>2 DEF Compiler, Begin, Connect, Refused, SendLine, Killed
<1>4. Coming' = Coming
    BY <1>2
<1>5. FlightInv'
    BY <1>1, <1>2, <1>4
<1>6. ManagerInv'
    BY <1>2, <1>3
<1> QED BY <1>5, <1>6

(* A queue of one is empty when that one is taken. *)
LEMMA LastTaken ==
    ASSUME NEW S, NEW s \in Seq(S), Len(s) = 1
    PROVE  Tail(s) = <<>>
<1>1. Tail(s) \in Seq(S) /\ Len(Tail(s)) = 0
    OBVIOUS
<1> QED BY <1>1, EmptySeq

(* The steps of the handler *)
LEMMA HandlerPlaces ==
    ASSUME IInv, Handler
    PROVE  (FlightInv /\ ManagerInv)'
<1> USE DEF IInv, TypeOK, FlightInv, ManagerInv, ConnInv, Coming, Nothing,
            handlerVars, queueVars, tfVars, daemonVars, compVars
<1>1. CASE Accept
    <2>1. Head(listen) \in Compilers /\ Head(listen) # None
        BY <1>1, ServiceAssumption DEF Accept
    <2> QED BY <1>1, <2>1 DEF Accept
<1>2. CASE ReadLine
    BY <1>2 DEF ReadLine
<1>3. CASE ReadLineRaises
    BY <1>3 DEF ReadLineRaises, HandlerEnds
<1>4. CASE Acquire
    BY <1>4 DEF Acquire
<1>5. CASE Put
    <2>1. GlobalIpcQueue_Features' =
            <<[func |-> fn[cur], line |-> line[cur], for |-> cur]>>
        BY <1>5 DEF Put
    <2> QED BY <1>5, <2>1 DEF Put
<1>6. CASE PutRaises
    BY <1>6 DEF PutRaises, HandlerEnds
<1>7. CASE Get
    <2>1. Len(GlobalIpcQueue_Pass) = 1 /\ tf = "idle" /\ GlobalIpcQueue_Features = <<>>
        BY <1>7 DEF Get
    <2>2. GlobalIpcQueue_Pass' = <<>>
        <3>1. GlobalIpcQueue_Pass' = Tail(GlobalIpcQueue_Pass)
            BY <1>7 DEF Get
        <3> QED BY <2>1, <3>1, LastTaken
    <2>3. reply' \in Reply
        BY <1>7, <2>1 DEF Get
    <2>4. Coming = Head(GlobalIpcQueue_Pass) /\ Coming' = Coming
        BY <1>7, <2>1 DEF Get
    <2> QED BY <1>7, <2>1, <2>2, <2>3, <2>4, ReplyParts DEF Get
<1>8. CASE Release
    BY <1>8 DEF Release
<1>9. CASE Write
    BY <1>9 DEF Write, HandlerEnds
<1> QED BY <1>1, <1>2, <1>3, <1>4, <1>5, <1>6, <1>7, <1>8, <1>9 DEF Handler

(* The steps of tfServer, stop and start *)
LEMMA DaemonPlaces ==
    ASSUME IInv, TfServer \/ Stopped \/ Swallowed \/ Start
    PROVE  (FlightInv /\ ManagerInv)'
<1> USE DEF IInv, TypeOK, FlightInv, ManagerInv, ConnInv, Coming, Nothing,
            handlerVars, queueVars, tfVars, daemonVars, compVars
<1>1. ASSUME NEW p \in Passes, ChoosePass(p) PROVE (FlightInv /\ ManagerInv)'
    <2>1. /\ GlobalIpcQueue_Features' = <<>> /\ GlobalIpcQueue_Pass' = <<>>
          /\ choice' = [pass |-> p, for |-> cur] /\ tf' = "chosen" /\ at = "get"
        BY <1>1 DEF ChoosePass
    <2>2. choice' # Nothing /\ Coming' = choice'
        BY <2>1, ServiceAssumption
    <2> QED BY <1>1, <2>1, <2>2 DEF ChoosePass
<1>2. CASE ModelRaises
    BY <1>2 DEF ModelRaises, TfDies
<1>3. CASE PutPass
    <2>1. GlobalIpcQueue_Pass = <<>> /\ GlobalIpcQueue_Features = <<>> /\ at = "get"
        BY <1>3 DEF PutPass
    <2>2. GlobalIpcQueue_Pass' = <<choice>> /\ Coming' = choice /\ Coming = choice
        BY <1>3, <2>1 DEF PutPass
    <2> QED BY <1>3, <2>1, <2>2 DEF PutPass
<1>4. CASE Stopped
    BY <1>4 DEF Stopped, Sigterm, ChildrenKilled, TfDies, HandlerEnds
<1>5. CASE Swallowed
    BY <1>5 DEF Swallowed, Sigterm, ChildrenKilled, TfDies, HandlerEnds
<1>6. CASE Start
    BY <1>6 DEF Start
<1> QED BY <1>1, <1>2, <1>3, <1>4, <1>5, <1>6 DEF TfServer

-------------------------------------------------------------------------------
(* The listen queue stays without repetitions as it grows and shrinks. *)
LEMMA QueueGrows ==
    ASSUME NEW s \in Seq(Compilers), NEW c \in Compilers, OneToOne(s), c \notin Elems(s)
    PROVE  OneToOne(Append(s, c)) /\ Elems(Append(s, c)) = Elems(s) \cup {c}
BY DEF OneToOne, Elems

(* Its head is in it once. *)
LEMMA QueueShrinks ==
    ASSUME NEW s \in Seq(Compilers), s # <<>>, OneToOne(s)
    PROVE  /\ OneToOne(Tail(s)) /\ Head(s) \notin Elems(Tail(s))
           /\ Elems(s) = Elems(Tail(s)) \cup {Head(s)}
<1>1. Len(Tail(s)) = Len(s) - 1 /\ \A i \in 1 .. Len(Tail(s)) : Tail(s)[i] = s[i + 1]
    OBVIOUS
<1>2. OneToOne(Tail(s)) /\ Head(s) \notin Elems(Tail(s))
    BY <1>1 DEF OneToOne, Elems
<1>3. Elems(Tail(s)) \cup {Head(s)} \subseteq Elems(s)
    BY <1>1 DEF Elems
<1>4. ASSUME NEW i \in 1 .. Len(s) PROVE s[i] \in Elems(Tail(s)) \cup {Head(s)}
    <2>1. CASE i = 1
        BY <2>1
    <2>2. CASE i # 1
        <3>1. i - 1 \in 1 .. Len(Tail(s)) /\ Tail(s)[i - 1] = s[i]
            BY <1>1, <2>2
        <3> QED BY <3>1 DEF Elems
    <2> QED BY <2>1, <2>2
<1>5. Elems(s) \subseteq Elems(Tail(s)) \cup {Head(s)}
    BY <1>4 DEF Elems
<1> QED BY <1>2, <1>3, <1>5

(* Who may be at the daemon, after a step of a compiler *)
LEMMA CompilerConns ==
    ASSUME IInv, NEW c \in Compilers, Compiler(c)
    PROVE  ConnInv'
<1> USE ServiceAssumption DEF IInv, TypeOK, FlightInv, ConnInv,
            handlerVars, queueVars, tfVars, daemonVars, compVars
<1>1. CASE Begin(c)
    BY <1>1 DEF Begin
<1>2. CASE Connect(c)
    <2>1. c \notin Elems(listen) /\ c # cur
        BY <1>2 DEF Connect
    <2>2. OneToOne(listen') /\ Elems(listen') = Elems(listen) \cup {c}
        BY <1>2, <2>1, QueueGrows DEF Connect
    <2> QED BY <1>2, <2>1, <2>2 DEF Connect
<1>3. CASE Refused(c)
    <2>1. UNCHANGED <<listen, at, cur, line>>
        BY <1>3 DEF Refused
    <2>2. \A d \in Compilers : state'[d] = IF d = c THEN "failed" ELSE state[d]
        BY <1>3, FailEach DEF Refused, Active
    <2>3. \A d \in Elems(listen) : d \in Compilers
        BY DEF Elems
    <2>4. state[c] = "ready"
        BY <1>3 DEF Refused
    <2>5. (OneToOne(listen) /\ cur \notin Elems(listen))'
        BY <2>1 DEF Elems, OneToOne
    <2>6. Elems(listen') = Elems(listen)
        BY <2>1
    <2> QED BY <2>1, <2>2, <2>3, <2>4, <2>5, <2>6
<1>4. CASE SendLine(c)
    BY <1>4 DEF SendLine
<1>5. CASE Killed(c)
    <2>0. UNCHANGED <<listen, at, cur>>
        BY <1>5 DEF Killed
    <2>1. /\ \A d \in Compilers : state'[d] = IF d = c THEN "failed" ELSE state[d]
          /\ UNCHANGED <<listen, at, cur>>
        BY <1>5, <2>0, FailEach DEF Killed
    <2>2. \A d \in Compilers : d # c => line'[d] = line[d]
        BY <1>5 DEF Killed
    <2>3. line'[c] = line[c] \/ (state[c] = "sending" /\ line'[c] \in {"noAt", "partial"})
        BY <1>5 DEF Killed
    <2>4. \A d \in Elems(listen) : d \in Compilers
        BY DEF Elems
    <2>5. (OneToOne(listen) /\ cur \notin Elems(listen))'
        BY <2>1 DEF Elems, OneToOne
    <2>6. Elems(listen') = Elems(listen)
        BY <2>1
    <2>7. \A d \in Elems(listen) \cup ({cur} \ {None}) :
            state'[d] \in {"sending", "waiting", "failed"}
        BY <2>1, <2>4
    <2>8. \A d \in Compilers :
            /\ state'[d] \in {"idle", "sending"} => line'[d] = "none"
            /\ line'[d] \in {"partial", "noAt"} => state'[d] = "failed"
        BY <2>1, <2>2, <2>3
    <2>9. at \notin {"accept", "read"} => line'[cur] \in {"whole", "partial"}
        BY <2>2, <2>3
    <2> QED BY <2>1, <2>5, <2>6, <2>7, <2>8, <2>9
<1> QED BY <1>1, <1>2, <1>3, <1>4, <1>5 DEF Compiler

(* ... after one of the handler, tfServer, stop or start *)
LEMMA DaemonConns ==
    ASSUME IInv, Handler \/ TfServer \/ Stopped \/ Swallowed \/ Start
    PROVE  ConnInv'
<1> USE ServiceAssumption DEF IInv, TypeOK, FlightInv, ConnInv,
            handlerVars, queueVars, tfVars, daemonVars, compVars
<1>0. \A d \in Elems(listen) : d \in Compilers
    BY DEF Elems
<1>1. CASE Accept
    <2>1. /\ OneToOne(listen') /\ cur' \notin Elems(listen')
          /\ Elems(listen) = Elems(listen') \cup {cur'}
        BY <1>1, QueueShrinks DEF Accept
    <2> QED BY <1>1, <2>1 DEF Accept
<1>2. CASE ReadLine
    BY <1>2 DEF ReadLine
<1>3. CASE ReadLineRaises
    BY <1>0, <1>3 DEF ReadLineRaises, HandlerEnds, FailAll, Active
<1>4. CASE Acquire
    BY <1>4 DEF Acquire
<1>5. CASE Put
    BY <1>5 DEF Put
<1>6. CASE PutRaises
    BY <1>0, <1>6 DEF PutRaises, HandlerEnds, FailAll, Active
<1>7. CASE Get
    BY <1>7 DEF Get
<1>8. CASE Release
    BY <1>8 DEF Release
<1>9. CASE Write
    BY <1>0, <1>9 DEF Write, HandlerEnds
<1>10. CASE TfServer
    BY <1>10 DEF TfServer, ChoosePass, ModelRaises, PutPass
<1>11. CASE Stopped
    BY <1>11 DEF Stopped, Sigterm, HandlerEnds, FailAll, Active, OneToOne, Elems
<1>12. CASE Swallowed
    BY <1>0, <1>12 DEF Swallowed, Sigterm, HandlerEnds, FailAll, Active
<1>13. CASE Start
    BY <1>13 DEF Start
<1> QED BY <1>1, <1>2, <1>3, <1>4, <1>5, <1>6, <1>7, <1>8, <1>9, <1>10, <1>11, <1>12, <1>13
        DEF Handler

-------------------------------------------------------------------------------
(* A compiler that fails leaves the others as they were. *)
LEMMA FailAlone ==
    ASSUME IInv, NEW C \in SUBSET Compilers, FailAll(C)
    PROVE  AloneInv'
BY FailEach DEF IInv, AloneInv, Active

(* No step breaks what is said of compilers that are left alone. *)
LEMMA AloneStep ==
    ASSUME IInv, [Next]_vars
    PROVE  AloneInv'
<1> USE ServiceAssumption DEF IInv, TypeOK, AloneInv, Active,
            handlerVars, queueVars, tfVars, daemonVars, compVars
<1>1. ASSUME NEW c \in Compilers, Compiler(c) PROVE AloneInv'
    <2>1. CASE Begin(c)
        BY <2>1 DEF Begin
    <2>2. CASE Connect(c)
        BY <2>2 DEF Connect
    <2>3. CASE Refused(c) \/ Killed(c)
        BY <2>3, FailAlone DEF Refused, Killed
    <2>4. CASE SendLine(c)
        BY <2>4 DEF SendLine
    <2> QED BY <1>1, <2>1, <2>2, <2>3, <2>4 DEF Compiler
<1>2. CASE Write
    <2>1. cur \in Compilers /\ UNCHANGED disturbed
        BY <1>2, CurIsCompiler DEF Write
    <2>2. CASE state[cur] = "waiting"
        <3>1. reply \in Reply /\ reply.pass \in Passes
            BY <1>2, ReplyParts DEF Write, FlightInv
        <3>2. Len(Append(got[cur], reply.pass)) = Len(got[cur]) + 1
            BY <2>1, <3>1
        <3>3. /\ got'[cur] = Append(got[cur], reply.pass)
              /\ \A d \in Compilers : d # cur => got'[d] = got[d] /\ state'[d] = state[d]
              /\ state'[cur] = IF Len(got[cur]) + 1 = Threshold THEN "done" ELSE "ready"
            BY <1>2, <2>1, <2>2, <3>2 DEF Write
        <3>4. Len(got[cur]) \in Nat /\ Len(got[cur]) < Threshold
            BY <2>1, <2>2
        <3>5. Len(got'[cur]) = Len(got[cur]) + 1
            BY <3>2, <3>3
        <3>6. \A c \in Compilers :
                /\ Active(c)' => Active(c) /\ Len(got'[c]) < Threshold
                /\ state'[c] = "idle" => state[c] = "idle" /\ got'[c] = got[c]
                /\ state'[c] = "failed" => state[c] = "failed"
            BY <2>1, <2>2, <3>3, <3>4, <3>5
        <3> QED BY <2>1, <3>6
    <2>3. CASE state[cur] # "waiting"
        BY <1>2, <2>1, <2>3 DEF Write
    <2> QED BY <2>2, <2>3
<1>3. CASE ReadLineRaises \/ PutRaises \/ Swallowed
    BY <1>3, CurIsCompiler, FailAlone DEF ReadLineRaises, PutRaises, Swallowed
<1>4. CASE Stopped
    <2>1. {c \in Compilers : state[c] \in {"sending", "waiting"}} \in SUBSET Compilers
        OBVIOUS
    <2> QED BY <1>4, <2>1, FailAlone DEF Stopped
<1>5. CASE Accept \/ ReadLine \/ Acquire \/ Put \/ Get \/ Release \/ TfServer
    <2>1. UNCHANGED <<compVars, disturbed>>
        BY <1>5 DEF Accept, ReadLine, Acquire, Put, Get, Release, TfServer, ChoosePass,
                    ModelRaises, PutPass
    <2> QED BY <2>1
<1>6. CASE Start
    BY <1>6 DEF Start
<1>7. CASE UNCHANGED vars
    BY <1>7 DEF vars
<1> QED BY <1>1, <1>2, <1>3, <1>4, <1>5, <1>6, <1>7 DEF Next, Handler

-------------------------------------------------------------------------------
(* A different pass at the end of a sequence of different passes *)
LEMMA AppendDistinct ==
    ASSUME NEW s \in Seq(Passes), NEW p \in Passes, p \notin Elems(s),
           OneToOne(s), IsFiniteSet(Elems(s)), Cardinality(Elems(s)) = Len(s)
    PROVE  LET t == Append(s, p)
           IN  /\ OneToOne(t) /\ Elems(t) = Elems(s) \cup {p}
               /\ IsFiniteSet(Elems(t)) /\ Cardinality(Elems(t)) = Len(t)
               /\ Len(t) = Len(s) + 1
<1> DEFINE t == Append(s, p)
<1>1. /\ Len(s) \in Nat /\ Len(t) = Len(s) + 1 /\ t[Len(s) + 1] = p
      /\ \A i \in 1 .. Len(s) : t[i] = s[i]
    BY AppendProperties
<1>2. \A i \in 1 .. Len(s) : s[i] \in Elems(s)
    BY DEF Elems
<1>3. 1 .. Len(s) + 1 = (1 .. Len(s)) \cup {Len(s) + 1}
    BY <1>1
<1> HIDE DEF t
<1>4. OneToOne(t)
    BY <1>1, <1>2 DEF OneToOne
<1>5. Elems(t) = Elems(s) \cup {p}
    BY <1>1, <1>3 DEF Elems
<1>6. /\ IsFiniteSet(Elems(s) \cup {p})
      /\ Cardinality(Elems(s) \cup {p}) = Cardinality(Elems(s)) + 1
    BY FS_AddElement
<1> QED BY <1>1, <1>6, <1>4, <1>5 DEF t

(* A shorter sequence has no more repetitions. *)
LEMMA PrefixDistinct ==
    ASSUME NEW s \in Seq(Passes), NEW p \in Passes, OneToOne(Append(s, p))
    PROVE  OneToOne(s)
BY DEF OneToOne

(***************************************************************************)
(* Only ChoosePass changes what an undisturbed compiler will have got.     *)
(***************************************************************************)
LEMMA ProspectKept ==
    ASSUME IInv, [Next]_vars, \A p \in Passes : ~ChoosePass(p),
           NEW c \in Compilers, fn[c] \notin disturbed'
    PROVE  Prospect(c)' = Prospect(c) /\ fn[c] \notin disturbed
<1> USE ServiceAssumption DEF IInv, TypeOK, FlightInv, Prospect, Coming, Nothing,
            handlerVars, queueVars, tfVars, daemonVars, compVars
<1>0. Active(c) => state[c] # "failed"
    BY DEF Active
<1>1. CASE \E d \in Compilers : Compiler(d)
    <2> PICK d \in Compilers : Compiler(d)
        BY <1>1
    <2>1. UNCHANGED <<handlerVars, queueVars, tfVars>>
        BY DEF Compiler, Begin, Connect, Refused, SendLine, Killed
    <2>2. got'[c] = got[c] /\ fn[c] \notin disturbed
        BY FailEach DEF Compiler, Begin, Connect, Refused, SendLine, Killed
    <2> QED BY <2>1, <2>2
<1>2. CASE Accept \/ ReadLine \/ Acquire \/ Put \/ Release
    BY <1>2 DEF Accept, ReadLine, Acquire, Put, Release
<1>3. CASE Get
    BY <1>3 DEF Get
<1>4. CASE PutPass
    <2>1. GlobalIpcQueue_Pass = <<>> /\ at = "get"
        BY <1>4 DEF PutPass
    <2> QED BY <1>4, <2>1 DEF PutPass
<1>5. CASE ModelRaises
    BY <1>5 DEF ModelRaises, TfDies
<1>6. CASE Start
    BY <1>6 DEF Start, ManagerInv
<1>7. CASE UNCHANGED vars
    BY <1>7 DEF vars
<1>8. ASSUME ReadLineRaises \/ PutRaises \/ Swallowed
      PROVE  Prospect(c)' = Prospect(c) /\ fn[c] \notin disturbed
    <2>1. cur \in Compilers /\ FailAll({cur}) /\ at # "accept" /\ HandlerEnds
        BY <1>8, CurIsCompiler DEF ReadLineRaises, PutRaises, Swallowed
    <2>2. state[cur] # "failed" => Active(cur)
        BY <2>1 DEF ConnInv, Active
    <2>3. fn[cur] \in disturbed'
        BY <2>1, <2>2, FailEach DEF AloneInv
    <2>4. c # cur /\ fn[c] \notin disturbed /\ got'[c] = got[c]
        BY <2>1, <2>3, FailEach
    <2>5. cur' = None /\ c # cur'
        BY <2>1 DEF HandlerEnds
    <2> QED BY <2>4, <2>5
<1>9. ASSUME Stopped
      PROVE  Prospect(c)' = Prospect(c) /\ fn[c] \notin disturbed
    <2> DEFINE C == {d \in Compilers : state[d] \in {"sending", "waiting"}}
    <2>1. FailAll(C) /\ C \in SUBSET Compilers /\ HandlerEnds
        BY <1>9 DEF Stopped
    <2>2. ASSUME c = cur PROVE FALSE
        <3>1. state[c] \in {"sending", "waiting", "failed"}
            BY <2>2 DEF ConnInv
        <3>2. fn[c] \in disturbed'
            BY <2>1, <3>1, FailEach DEF AloneInv, Active
        <3> QED BY <3>2
    <2>3. fn[c] \notin disturbed /\ got'[c] = got[c]
        BY <2>1, FailEach
    <2>4. cur' = None /\ c # cur'
        BY <2>1 DEF HandlerEnds
    <2> QED BY <2>2, <2>3, <2>4
<1>10. ASSUME Write
       PROVE  Prospect(c)' = Prospect(c) /\ fn[c] \notin disturbed
    <2>1. /\ cur \in Compilers /\ Coming = reply /\ reply # Nothing
          /\ cur' = None /\ disturbed' = disturbed
        BY <1>10, CurIsCompiler DEF Write, HandlerEnds
    <2>2. CASE c = cur
        <3>1. state[c] \in {"sending", "waiting", "failed"} /\ state[c] # "failed"
            BY <2>1, <2>2 DEF ConnInv, AloneInv
        <3>2. line[c] # "none"
            BY <1>10, <2>2 DEF ConnInv, Write
        <3>3. state[c] = "waiting"
            BY <3>1, <3>2 DEF ConnInv
        <3>4. got'[c] = Append(got[c], reply.pass)
            BY <1>10, <2>2, <3>3 DEF Write
        <3> QED BY <2>1, <2>2, <3>4
    <2>3. CASE c # cur
        <3>1. got'[c] = got[c]
            BY <1>10, <2>3 DEF Write
        <3> QED BY <2>1, <2>3, <3>1
    <2> QED BY <2>2, <2>3
<1> QED BY <1>1, <1>2, <1>3, <1>4, <1>5, <1>6, <1>7, <1>8, <1>9, <1>10
        DEF Next, Handler, TfServer

(***************************************************************************)
(* A compiler left alone begins, goes on, or ends with its last pass.      *)
(***************************************************************************)
LEMMA ActivityKept ==
    ASSUME IInv, [Next]_vars,
           NEW c \in Compilers, fn[c] \notin disturbed', ~Start
    PROVE  \/ Active(c)' = Active(c)
           \/ Begin(c)
           \/ Write /\ Active(c) /\ Len(got'[c]) = Threshold
<1> USE ServiceAssumption DEF IInv, TypeOK, Active,
            handlerVars, queueVars, tfVars, daemonVars, compVars
<1>1. CASE \E d \in Compilers : Compiler(d)
    <2> PICK d \in Compilers : Compiler(d)
        BY <1>1
    <2>1. CASE Begin(d) \/ Connect(d) \/ SendLine(d)
        BY <2>1 DEF Begin, Connect, SendLine
    <2>2. CASE Refused(d) \/ Killed(d)
        BY <2>2, FailEach DEF Refused, Killed
    <2> QED BY <2>1, <2>2 DEF Compiler
<1>2. CASE ReadLineRaises \/ PutRaises \/ Swallowed
    BY <1>2, CurIsCompiler, FailEach DEF ReadLineRaises, PutRaises, Swallowed
<1>3. CASE Stopped
    <2>1. {d \in Compilers : state[d] \in {"sending", "waiting"}} \in SUBSET Compilers
        OBVIOUS
    <2> QED BY <1>3, <2>1, FailEach DEF Stopped
<1>4. CASE Write
    <2>1. cur \in Compilers
        BY <1>4, CurIsCompiler DEF Write
    <2>2. c # cur => state'[c] = state[c]
        BY <1>4, <2>1 DEF Write
    <2>3. state[cur] # "waiting" => state' = state
        BY <1>4 DEF Write
    <2>4. state[cur] = "waiting" =>
            state'[cur] = IF Len(got'[cur]) = Threshold THEN "done" ELSE "ready"
        BY <1>4, <2>1 DEF Write
    <2> QED BY <1>4, <2>1, <2>2, <2>3, <2>4
<1>5. CASE Accept \/ ReadLine \/ Acquire \/ Put \/ Get \/ Release \/ TfServer
    <2>1. UNCHANGED compVars
        BY <1>5 DEF Accept, ReadLine, Acquire, Put, Get, Release, TfServer, ChoosePass,
                    ModelRaises, PutPass
    <2> QED BY <2>1
<1>6. CASE UNCHANGED vars
    BY <1>6 DEF vars
<1> QED BY <1>1, <1>2, <1>3, <1>4, <1>5, <1>6 DEF Next, Handler

(* A function stays disturbed. *)
LEMMA DisturbedGrows ==
    ASSUME IInv, [Next]_vars
    PROVE  disturbed \subseteq disturbed'
<1> USE DEF handlerVars, queueVars, tfVars, daemonVars, compVars
<1>1. CASE \E d \in Compilers : Compiler(d)
    BY <1>1 DEF Compiler, Begin, Connect, Refused, SendLine, Killed, FailAll
<1>2. CASE Handler
    BY <1>2 DEF Handler, Accept, ReadLine, ReadLineRaises, Acquire, Put, PutRaises, Get,
                Release, Write, FailAll
<1>3. CASE TfServer
    BY <1>3 DEF TfServer, ChoosePass, ModelRaises, PutPass
<1>4. CASE Stopped \/ Swallowed \/ Start
    BY <1>4 DEF Stopped, Swallowed, Start, FailAll
<1>5. CASE UNCHANGED vars
    BY <1>5 DEF vars
<1> QED BY <1>1, <1>2, <1>3, <1>4, <1>5 DEF Next

(* A step of no one but tfServer leaves the histories, or takes the model too. *)
LEMMA HistoriesKept ==
    ASSUME IInv, [Next]_vars, \A p \in Passes : ~ChoosePass(p)
    PROVE  \/ FunctionPassRec' = FunctionPassRec /\ (tf' # "dead" => tf # "dead")
           \/ tf' = "dead"
           \/ Start
<1> USE DEF handlerVars, queueVars, tfVars, daemonVars, compVars
<1>1. CASE \E d \in Compilers : Compiler(d)
    BY <1>1 DEF Compiler, Begin, Connect, Refused, SendLine, Killed
<1>2. CASE Handler
    BY <1>2 DEF Handler, Accept, ReadLine, ReadLineRaises, Acquire, Put, PutRaises, Get,
                Release, Write
<1>3. CASE TfServer
    BY <1>3 DEF TfServer, ModelRaises, PutPass, TfDies
<1>4. CASE Stopped \/ Swallowed
    BY <1>4 DEF Stopped, Swallowed, ChildrenKilled, TfDies
<1>5. CASE UNCHANGED vars
    BY <1>5 DEF vars
<1> QED BY <1>1, <1>2, <1>3, <1>4, <1>5 DEF Next

(* What the steps other than ChoosePass do to histories *)
LEMMA HistoryStep ==
    ASSUME IInv, [Next]_vars, \A p \in Passes : ~ChoosePass(p)
    PROVE  (DistinctInv /\ HistoryInv)'
<1>1. \A c \in Compilers : fn[c] \notin disturbed' =>
        Prospect(c)' = Prospect(c) /\ fn[c] \notin disturbed
    BY ProspectKept
<1>2. DistinctInv'
    BY <1>1 DEF IInv, DistinctInv
<1>3. HistoryInv'
    <2>1. CASE tf' = "dead"
        BY <2>1 DEF HistoryInv
    <2>2. CASE Start
        <3>1. /\ FunctionPassRec' = FunctionPassRec /\ UNCHANGED state
              /\ \A c \in Compilers : Active(c) => fn[c] \in disturbed'
            BY <2>2 DEF Start, tfVars, compVars
        <3>2. \A f \in Funcs : FunctionPassRec[f] = {}
            BY <2>2 DEF Start, IInv, ManagerInv
        <3>3. \A c \in Compilers : Active(c)' = Active(c)
            BY <3>1 DEF Active
        <3> QED BY <3>1, <3>2, <3>3 DEF HistoryInv
    <2>3. CASE ~Start /\ tf' # "dead"
        <3>1. FunctionPassRec' = FunctionPassRec /\ tf # "dead"
            BY <2>3, HistoriesKept
        <3>2. \A c \in Compilers : fn[c] \in Funcs
            BY ServiceAssumption
        <3>3. ASSUME NEW f \in Funcs \ disturbed',
                     \A c \in Compilers : fn[c] = f => ~Active(c)'
              PROVE  FunctionPassRec'[f] = {}
            <4>1. CASE \A c \in Compilers : fn[c] = f => ~Active(c)
                <5>1. f \notin disturbed
                    BY <1>1, <4>1, <3>3, DisturbedGrows
                <5> QED BY <3>1, <3>3, <4>1, <5>1 DEF IInv, HistoryInv
            <4>2. CASE \E c \in Compilers : fn[c] = f /\ Active(c)
                <5> PICK c \in Compilers : fn[c] = f /\ Active(c)
                    BY <4>2
                <5>1. ~Active(c)' /\ fn[c] \notin disturbed' /\ ~Begin(c)
                    BY <3>3 DEF Begin, Active
                <5>2. Write /\ Len(got'[c]) = Threshold
                    BY <2>3, <5>1, ActivityKept
                <5>3. cur' = None /\ c # cur'
                    BY <5>2, ServiceAssumption DEF Write, HandlerEnds
                <5>4. Prospect(c)' = got'[c]
                    BY <5>3 DEF Prospect
                <5>5. Prospect(c)' = Prospect(c) /\ fn[c] \notin disturbed
                    BY <1>1, <5>1
                <5> QED BY <3>1, <5>2, <5>4, <5>5 DEF IInv, HistoryInv
            <4> QED BY <4>1, <4>2
        <3>4. ASSUME NEW c \in Compilers, fn[c] \notin disturbed', Active(c)'
              PROVE  FunctionPassRec'[fn[c]] =
                        IF Len(Prospect(c)') = Threshold THEN {} ELSE Elems(Prospect(c)')
            <4>1. Prospect(c)' = Prospect(c) /\ fn[c] \notin disturbed
                BY <1>1, <3>4
            <4>2. CASE Active(c)
                BY <3>1, <4>1, <4>2 DEF IInv, HistoryInv
            <4>3. CASE ~Active(c)
                <5>1. Begin(c)
                    BY <2>3, <3>4, <4>3, ActivityKept
                <5>2. \A d \in Compilers : fn[d] = fn[c] => ~Active(d)
                    BY <3>4, <5>1 DEF Begin
                <5>3. FunctionPassRec[fn[c]] = {}
                    BY <3>1, <3>2, <4>1, <5>2 DEF IInv, HistoryInv
                <5>4. c # cur /\ got[c] = <<>>
                    BY <5>1, ServiceAssumption DEF Begin, IInv, ConnInv, AloneInv
                <5>5. Prospect(c) = <<>> /\ Elems(<<>>) = {}
                    BY <5>4 DEF Prospect, Elems
                <5> QED BY <3>1, <4>1, <5>3, <5>5
            <4> QED BY <4>2, <4>3
        <3> QED BY <3>3, <3>4 DEF HistoryInv
    <2> QED BY <2>1, <2>2, <2>3
<1> QED BY <1>2, <1>3

(* What ChoosePass does to them *)
LEMMA ChooseStep ==
    ASSUME IInv, NEW p \in Passes, ChoosePass(p)
    PROVE  (DistinctInv /\ HistoryInv)'
<1> DEFINE h == FunctionPassRec[fn[cur]]
<1>1. /\ at = "get" /\ cur \in Compilers /\ fn[cur] \in Funcs /\ tf = "idle"
      /\ GlobalIpcQueue_Features = <<[func |-> fn[cur], line |-> line[cur], for |-> cur]>>
      /\ GlobalIpcQueue_Pass = <<>>
    BY CurIsCompiler, ServiceAssumption DEF ChoosePass, IInv, FlightInv
<1>0. /\ Head(GlobalIpcQueue_Features).func = fn[cur]
       /\ Head(GlobalIpcQueue_Features).line = line[cur]
       /\ Head(GlobalIpcQueue_Features).for = cur
    BY <1>1
<1>2. /\ line[cur] = "whole" /\ p \notin h
      /\ FunctionPassRec' = [FunctionPassRec EXCEPT ![fn[cur]] = Forgotten(h \cup {p})]
      /\ choice' = [pass |-> p, for |-> cur] /\ tf' = "chosen"
      /\ UNCHANGED <<state, got, at, cur, disturbed>>
    BY <1>0 DEF ChoosePass, compVars, handlerVars
<1>3. Coming = Nothing /\ Coming'.pass = p /\ Coming' # Nothing
    BY <1>1, <1>2, ServiceAssumption DEF Coming, Nothing
<1>4. \A c \in Compilers :
        /\ Prospect(c) = got[c] /\ Active(c)' = Active(c)
        /\ Prospect(c)' = IF c = cur THEN Append(got[c], p) ELSE got[c]
    BY <1>2, <1>3 DEF Prospect, Active
<1>5. fn[cur] \notin disturbed => Active(cur)
    BY <1>1, <1>2, ServiceAssumption DEF IInv, ConnInv, AloneInv, Active
<1>6. \A f \in Funcs : f # fn[cur] => FunctionPassRec'[f] = FunctionPassRec[f]
    BY <1>2 DEF IInv, TypeOK
<1>7. FunctionPassRec'[fn[cur]] = Forgotten(h \cup {p})
    BY <1>1, <1>2 DEF IInv, TypeOK
<1>8. ASSUME fn[cur] \notin disturbed
      PROVE  /\ h = Elems(got[cur]) /\ got[cur] \in Seq(Passes)
             /\ OneToOne(got[cur]) /\ IsFiniteSet(Elems(got[cur]))
             /\ Cardinality(Elems(got[cur])) = Len(got[cur])
    <2>1. Active(cur) /\ Len(got[cur]) < Threshold /\ got[cur] \in Seq(Passes)
        BY <1>1, <1>5, <1>8 DEF IInv, AloneInv, TypeOK
    <2>2. Len(got[cur]) # Threshold
        BY <2>1, ServiceAssumption
    <2>3. h = Elems(got[cur])
        BY <1>1, <1>4, <1>8, <2>1, <2>2 DEF IInv, HistoryInv
    <2> QED BY <1>1, <1>4, <1>8, <2>1, <2>3 DEF IInv, DistinctInv
<1>9. ASSUME fn[cur] \notin disturbed
      PROVE  LET t == Append(got[cur], p)
             IN  /\ OneToOne(t) /\ Elems(t) = h \cup {p} /\ IsFiniteSet(Elems(t))
                 /\ Cardinality(Elems(t)) = Len(t)
    BY <1>2, <1>8, <1>9, AppendDistinct
<1>10. DistinctInv'
    BY <1>1, <1>2, <1>4, <1>9 DEF IInv, DistinctInv
<1>11. ASSUME NEW f \in Funcs \ disturbed',
              \A c \in Compilers : fn[c] = f => ~Active(c)'
       PROVE  FunctionPassRec'[f] = {}
    <2>1. f # fn[cur]
        BY <1>1, <1>2, <1>4, <1>5, <1>11
    <2> QED BY <1>1, <1>2, <1>4, <1>6, <1>11, <2>1 DEF IInv, HistoryInv
<1>12. ASSUME NEW c \in Compilers, fn[c] \notin disturbed', Active(c)'
       PROVE  FunctionPassRec'[fn[c]] =
                IF Len(Prospect(c)') = Threshold THEN {} ELSE Elems(Prospect(c)')
    <2>1. CASE c = cur
        BY <1>2, <1>4, <1>7, <1>9, <1>12, <2>1 DEF Forgotten
    <2>2. CASE c # cur
        <3>1. fn[c] \in Funcs /\ fn[c] # fn[cur]
            BY <1>1, <1>2, <1>4, <1>5, <1>12, <2>2, ServiceAssumption DEF IInv, AloneInv
        <3> QED BY <1>1, <1>2, <1>4, <1>6, <1>12, <2>2, <3>1 DEF IInv, HistoryInv
    <2> QED BY <2>1, <2>2
<1> QED BY <1>10, <1>11, <1>12 DEF HistoryInv

-------------------------------------------------------------------------------
(* Every step keeps the invariant. *)
LEMMA NextIInv == IInv /\ [Next]_vars => IInv'
<1> SUFFICES ASSUME IInv, [Next]_vars PROVE IInv'
    OBVIOUS
<1>1. (TypeOK /\ FlightInv /\ ManagerInv /\ ConnInv)'
    <2>1. CASE \E c \in Compilers : Compiler(c)
        BY <2>1, CompilerTypes, CompilerPlaces, CompilerConns
    <2>2. CASE Handler
        BY <2>2, HandlerTypes, HandlerPlaces, DaemonConns
    <2>3. CASE TfServer \/ Stopped \/ Swallowed \/ Start
        BY <2>3, DaemonTypes, DaemonPlaces, DaemonConns
    <2>4. CASE UNCHANGED vars
        BY <2>4 DEF vars, IInv, TypeOK, FlightInv, ManagerInv, ConnInv, Coming
    <2> QED BY <2>1, <2>2, <2>3, <2>4 DEF Next
<1>2. AloneInv'
    BY AloneStep
<1>3. (DistinctInv /\ HistoryInv)'
    BY ChooseStep, HistoryStep
<1> QED BY <1>1, <1>2, <1>3 DEF IInv

(* It holds in every behaviour. *)
THEOREM Invariance == Spec => []IInv
BY InitIInv, NextIInv, PTL DEF Spec

(* The variables have the values their declarations say. *)
THEOREM TypeCorrect == Spec => []TypeOK
<1>1. IInv => TypeOK
    BY DEF IInv
<1> QED BY <1>1, Invariance, PTL

(***************************************************************************)
(* No handler of inference/PredictionDaemon.py takes the pass that tfServer *)
(* chose for another: the lock and the two queues pair them, through       *)
(* killed compilers, a model that died and any number of SIGTERMs.         *)
(***************************************************************************)
THEOREM RepliesAreOwn == Spec => []ReplyIsOwn
<1>1. IInv => ReplyIsOwn
    BY DEF IInv, FlightInv, Coming, ReplyIsOwn
<1> QED BY <1>1, Invariance, PTL

(***************************************************************************)
(* "avoid repeated pass every 9 iters" of tfServer.py, for every function  *)
(* whose compilations neither overlap nor are broken off, with any         *)
(* threshold and any set of passes that is large enough.                   *)
(***************************************************************************)
THEOREM PassesAreDistinct == Spec => []DistinctPasses
<1>1. IInv => DistinctPasses
    <2> SUFFICES ASSUME IInv, NEW c \in Compilers, fn[c] \notin disturbed
                 PROVE  OneToOne(got[c])
        BY DEF DistinctPasses, OneToOne
    <2>1. OneToOne(Prospect(c))
        BY DEF IInv, DistinctInv
    <2>2. CASE c = cur /\ Coming # Nothing
        <3>1. Coming.pass \in Passes /\ got[c] \in Seq(Passes)
            <4>1. Coming \in Reply \cup {Nothing}
                BY DEF IInv, TypeOK, Coming
            <4> QED BY <2>2, <4>1, ReplyParts DEF IInv, TypeOK
        <3>2. OneToOne(Append(got[c], Coming.pass))
            BY <2>1, <2>2 DEF Prospect
        <3> QED BY <3>1, <3>2, PrefixDistinct
    <2>3. CASE ~(c = cur /\ Coming # Nothing)
        BY <2>1, <2>3 DEF Prospect
    <2> QED BY <2>2, <2>3
<1> QED BY <1>1, Invariance, PTL

(***************************************************************************)
(* tfServer.py forgets the passes of such a function with the last of      *)
(* them: the next compilation of its name starts from none.                *)
(***************************************************************************)
THEOREM HistoriesAreGone == Spec => []HistoryIsGone
<1>1. IInv => HistoryIsGone
    BY DEF IInv, ManagerInv, HistoryInv, HistoryIsGone
<1> QED BY <1>1, Invariance, PTL

===============================================================================
