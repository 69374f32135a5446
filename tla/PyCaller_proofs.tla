--------------------------- MODULE PyCaller_proofs ---------------------------
(***************************************************************************)
(* Proofs about PyCaller.tla for inputs of any size, pipes of any capacity *)
(* and any return codes.                                                   *)
(***************************************************************************)
EXTENDS PyCaller, TLAPS

(* PyCaller has its writing end until all of the input is in the pipe. *)
WriterInv ==
    /\ pc \in {"start", "fork"} => actor = "none"
    /\ withStdin /\ pc \in {"fork", "closePR", "write"} => "pW" \in open["caller"]
    /\ withStdin /\ pc \in {"wait", "closeRW", "read"} => written = size
    /\ pc = "over" => open["caller"] = {}

(* Only PyCaller can read a report: the PyActor has closed its reading end. *)
ReaderInv ==
    actor \in {"input", "profile", "report", "record"} => "rR" \notin open["actor"]

(***************************************************************************)
(* A PyActor that is past its input has all of it, unless PyCaller was     *)
(* killed meanwhile.                                                       *)
(***************************************************************************)
InputInv ==
    /\ ~withStdin => size = 0
    /\ actor = "input" => withStdin
    /\ actor \in {"profile", "report", "record"} /\ pc # "over" => got = size

(* A report tells how the last run ended, and is about the whole input. *)
ReportInv ==
    /\ code # None => actor \in {"report", "record", "over"}
    /\ actor = "report" => code # None /\ report = None
    /\ actor = "record" => report # None
    /\ report # None => actor \in {"record", "over"} /\ report = code /\ got = size
    /\ recorded # None => actor = "over" /\ report # None /\ recorded = size /\ code >= 0

(* A process that ended with 0 was given the report 0. *)
StatusInv == status = 0 => report = 0

IInv == TypeOK /\ WriterInv /\ ReaderInv /\ InputInv /\ ReportInv /\ StatusInv

-------------------------------------------------------------------------------
(* The invariant holds at the start. *)
LEMMA InitIInv == Init => IInv
<1> SUFFICES ASSUME Init PROVE IInv
    OBVIOUS
<1>1. TypeOK
    <2>1. size \in Nat
        BY SizeAssumption DEF Init
    <2> QED BY <2>1, SizeAssumption DEF Init, TypeOK, InPipe
<1> QED BY <1>1, CodeAssumption
           DEF Init, IInv, WriterInv, ReaderInv, InputInv, ReportInv, StatusInv

(* What exit status 0 is, of the low eight bits of a return code. *)
LEMMA LowByte ==
    ASSUME NEW c \in ReturnCodes
    PROVE  c % 256 \in 0 .. 255 /\ (c % 256 = 0 => c = 0)
<1>1. c \in -64 .. 255
    BY CodeAssumption
<1> QED BY <1>1

(***************************************************************************)
(* PyCaller ends with a status that is a signal, or 0 for the report 0.    *)
(***************************************************************************)
LEMMA EndKeeps ==
    ASSUME IInv, NEW s \in 0 .. 255 \cup Signals, CallerEnds(s),
           pc # "over", s = 0 => report = 0
    PROVE  IInv'
<1>1. TypeOK'
    BY DEF IInv, TypeOK, CallerEnds, inputVars, InPipe, Procs
<1>2. open'["caller"] = {} /\ open'["actor"] = open["actor"]
    BY DEF IInv, TypeOK, CallerEnds, Procs
<1>3. (WriterInv /\ ReaderInv)'
    BY <1>2 DEF IInv, WriterInv, ReaderInv, CallerEnds, inputVars
<1>4. (InputInv /\ ReportInv /\ StatusInv)'
    BY DEF IInv, InputInv, ReportInv, StatusInv, CallerEnds, inputVars
<1> QED BY <1>1, <1>3, <1>4 DEF IInv

(* The steps of PyCaller that leave its child and the report alone. *)
LEMMA CallerKeeps ==
    ASSUME IInv, MakePipes \/ Fork \/ ForkFails \/ CloseInputReader \/ WriteInput
                 \/ CloseInputWriter \/ Wait \/ CloseReportWriter
    PROVE  IInv'
<1> USE DEF IInv, TypeOK, WriterInv, ReaderInv, InputInv, ReportInv, StatusInv,
            Procs, Ends, inputVars, InPipe
<1>1. CASE MakePipes
    <2>1. open'["caller"] = (IF withStdin THEN Ends ELSE {"rR", "rW"})
        BY <1>1 DEF MakePipes
    <2>2. open'["actor"] = open["actor"] /\ open' \in [Procs -> SUBSET Ends]
        BY <1>1 DEF MakePipes
    <2> QED BY <1>1, <2>1, <2>2 DEF MakePipes
<1>2. CASE Fork
    <2>1. open'["caller"] = open["caller"] /\ open' \in [Procs -> SUBSET Ends]
        BY <1>2 DEF Fork
    <2> QED BY <1>2, <2>1 DEF Fork
<1>3. CASE ForkFails
    BY <1>3 DEF ForkFails
<1>4. CASE CloseInputReader
    <2>1. /\ open'["caller"] = open["caller"] \ {"pR"}
          /\ open'["actor"] = open["actor"] /\ open' \in [Procs -> SUBSET Ends]
        BY <1>4 DEF CloseInputReader, Close
    <2> QED BY <1>4, <2>1 DEF CloseInputReader
<1>5. CASE WriteInput
    <2>1. size \in Nat
        BY SizeAssumption
    <2> QED BY <1>5, <2>1, SizeAssumption DEF WriteInput
<1>6. CASE CloseInputWriter
    <2>1. open'["actor"] = open["actor"] /\ open' \in [Procs -> SUBSET Ends]
        BY <1>6 DEF CloseInputWriter, Close
    <2> QED BY <1>6, <2>1 DEF CloseInputWriter
<1>7. CASE Wait
    BY <1>7 DEF Wait
<1>8. CASE CloseReportWriter
    <2>1. open'["actor"] = open["actor"] /\ open' \in [Procs -> SUBSET Ends]
        BY <1>8 DEF CloseReportWriter, Close
    <2> QED BY <1>8, <2>1 DEF CloseReportWriter
<1> QED BY <1>1, <1>2, <1>3, <1>4, <1>5, <1>6, <1>7, <1>8

(* The steps in which PyCaller ends. *)
LEMMA CallerEndKeeps ==
    ASSUME IInv, WriteWithoutReader \/ ReturnReport \/ NothingToParse \/ CallerKilled
    PROVE  IInv'
<1>1. CASE WriteWithoutReader \/ NothingToParse \/ CallerKilled
    BY <1>1, EndKeeps DEF WriteWithoutReader, NothingToParse, CallerKilled, Signals,
                          SIGPIPE, SIGABRT, SIGKILL
<1>2. CASE ReturnReport
    <2>1. report \in ReturnCodes
        BY <1>2 DEF ReturnReport, IInv, TypeOK
    <2> QED BY <1>2, <2>1, LowByte, EndKeeps DEF ReturnReport
<1> QED BY <1>1, <1>2

(* The steps of the PyActor up to its last run of the benchmark. *)
LEMMA ActorKeeps ==
    ASSUME IInv, Exec \/ ReadInput \/ InputEnds \/ \E c \in ReturnCodes : LastRun(c)
    PROVE  IInv'
<1> USE DEF IInv, TypeOK, WriterInv, ReaderInv, InputInv, ReportInv, StatusInv,
            Procs, Ends, inputVars, InPipe
<1>1. CASE Exec
    <2>1. /\ open'["actor"] = open["actor"] \ {"pW", "rR"}
          /\ open'["caller"] = open["caller"] /\ open' \in [Procs -> SUBSET Ends]
        BY <1>1 DEF Exec
    <2>2. ~withStdin => got = size
        BY SizeAssumption
    <2> QED BY <1>1, <2>1, <2>2 DEF Exec
<1>2. CASE ReadInput
    BY <1>2, SizeAssumption DEF ReadInput
<1>3. CASE InputEnds
    <2>1. "pW" \notin open["caller"]
        BY <1>3 DEF InputEnds, HasOpen
    <2>2. pc # "over" => written = size
        BY <1>3, <2>1 DEF InputEnds
    <2>3. pc # "over" => got = size
        BY <1>3, <2>2 DEF InputEnds
    <2> QED BY <1>3, <2>3 DEF InputEnds
<1>4. CASE \E c \in ReturnCodes : LastRun(c)
    BY <1>4, CodeAssumption DEF LastRun
<1> QED BY <1>1, <1>2, <1>3, <1>4

(* The end of the PyActor, with a report and a record or without. *)
LEMMA ActorEndKeeps ==
    ASSUME IInv, WriteReport \/ WriteReportRaises \/ Record \/ ActorGivesUp \/ KilledLate
    PROVE  IInv'
<1> USE DEF IInv, TypeOK, WriterInv, ReaderInv, InputInv, ReportInv, StatusInv,
            Procs, Ends, inputVars, InPipe
<1>1. CASE WriteReport
    <2>1. "rR" \in open["caller"]
        BY <1>1 DEF WriteReport, HasOpen
    <2>2. got = size
        BY <1>1, <2>1 DEF WriteReport
    <2>3. /\ open'["actor"] = open["actor"] \ {"rW"}
          /\ open'["caller"] = open["caller"] /\ open' \in [Procs -> SUBSET Ends]
        BY <1>1 DEF WriteReport, Close
    <2> QED BY <1>1, <2>2, <2>3, CodeAssumption DEF WriteReport
<1>2. ASSUME ActorEnds
      PROVE  open'["caller"] = open["caller"] /\ open' \in [Procs -> SUBSET Ends]
    BY <1>2 DEF ActorEnds
<1>3. CASE Record
    <2>1. code \in ReturnCodes /\ code \in Int
        BY <1>3, CodeAssumption DEF Record
    <2> QED BY <1>2, <1>3, <2>1 DEF Record, ActorEnds
<1>4. CASE WriteReportRaises \/ ActorGivesUp \/ KilledLate
    BY <1>2, <1>4, CodeAssumption DEF WriteReportRaises, ActorGivesUp, KilledLate, ActorEnds
<1> QED BY <1>1, <1>3, <1>4

(* Every step keeps the invariant. *)
LEMMA NextIInv == IInv /\ [Next]_vars => IInv'
<1> SUFFICES ASSUME IInv, [Next]_vars PROVE IInv'
    OBVIOUS
<1>1. CASE Caller
    BY <1>1, CallerKeeps, CallerEndKeeps DEF Caller
<1>2. CASE Actor
    BY <1>2, ActorKeeps, ActorEndKeeps DEF Actor
<1>3. CASE CallerKilled
    BY <1>3, CallerEndKeeps
<1>4. CASE UNCHANGED vars
    BY <1>4 DEF vars, IInv, TypeOK, WriterInv, ReaderInv, InputInv, ReportInv, StatusInv,
                inputVars, InPipe
<1> QED BY <1>1, <1>2, <1>3, <1>4 DEF Next

(* The invariant holds always. *)
LEMMA Invariance == Spec => []IInv
BY InitIInv, NextIInv, PTL DEF Spec

(* The variables keep their types. *)
THEOREM TypeCorrect == Spec => []TypeOK
<1>1. IInv => TypeOK
    BY DEF IInv
<1> QED BY <1>1, Invariance, PTL

(* lit takes no failure for a passed benchmark, nor a run on less than its input. *)
THEOREM SuccessesAreReal == Spec => []SuccessIsReal
<1>1. IInv => SuccessIsReal
    BY CodeAssumption DEF IInv, StatusInv, ReportInv, SuccessIsReal
<1> QED BY <1>1, Invariance, PTL

(* What is recorded was measured on the whole input. *)
THEOREM RecordsAreWhole == Spec => []RecordedOnWholeInput
<1>1. IInv => RecordedOnWholeInput
    BY DEF IInv, ReportInv, RecordedOnWholeInput
<1> QED BY <1>1, Invariance, PTL

===============================================================================
