------------------------------- MODULE LitRound -------------------------------
(***************************************************************************)
(* RandomSelect/LLVMTestSuiteScript: the rounds of LitDriver.py.  A round  *)
(* builds the test suite, one random pass set for each root directory,     *)
(* checks with lit that the benchmarks run, puts a PyActor in the place of *)
(* each (LitMimic.py), and lets some processes run lit on what is left;    *)
(* the PyActors record.  The function-level mode builds and checks one     *)
(* benchmark after another, and PredictionDaemon.py chooses a pass set for *)
(* each of its functions.  The files that all share are in ServiceLib.py.  *)
(***************************************************************************)
EXTENDS Naturals, Sequences, FiniteSets, SequencesExt

CONSTANTS
    Roots,      \* TargetPathList, a sequence of root directories
    Walk,       \* all tests, a sequence in the order of os.walk
    dirOf,      \* [tests -> directories]
    rootOf,     \* [directories -> Range(Roots)]
    Skipped,    \* SkipDirList
    Measurable, \* the tests that GraphGen/output names
    Profiled,   \* FuncBenchmarksInfo, a sequence of tests
    PassSets,   \* what RandomGenerator may return
    ManyLists,  \* the number of processes in a mode of several cores (5)
    MaxRound,   \* the rounds of one run (20)
    None, Empty \* no file, or no value; an empty file

Tests == Range(Walk)

(***************************************************************************)
(* TargetPathList names no directory twice, os.walk yields a .test file    *)
(* once, below one of them, and Input/StdBaseFeatures has a line for each  *)
(* benchmark.  No time is taken for None or for an empty TimeStamp.        *)
(***************************************************************************)
ASSUME LitAssumption ==
    /\ Roots \in Seq(Range(Roots)) /\ Roots # <<>> /\ IsInjective(Roots)
    /\ Walk \in Seq(Tests) /\ IsInjective(Walk)
    /\ Profiled \in Seq(Tests) /\ IsInjective(Profiled)
    /\ dirOf \in [Tests -> DOMAIN rootOf]
    /\ rootOf \in [DOMAIN rootOf -> Range(Roots)]
    /\ ManyLists \in Nat \ {0} /\ MaxRound \in Nat \ {0}
    /\ None \notin Tests /\ None # Empty
    /\ {None, Empty} \cap (Nat \X Nat) = {}

Modes == {"Standard", "Random-BenchmarkLevel", "Selected.SingleCore",
          "Random-FunctionLevel"}
Driver == 0
Workers == 1 .. ManyLists
Procs == {Driver} \cup Workers
Daemon == ManyLists + 1     \* who keeps no LogService between two calls

VARIABLES
    mode, round,
    pc,             \* where LitDriver is
    k,              \* the root directory or the profiled test it is at
    stamp,          \* the file results/TimeStamp
    lpc, time,      \* [Procs -> ...], LogService's __init__ and its self.time
    inputSet,       \* the file InputSet that clang reads
    inputSetAll,    \* the file InputSetAll, [Range(Roots) -> a pass set]
    elf,            \* [Tests -> what is built: nothing, or whether lit likes it]
    built,          \* [Tests -> the pass set it was built with]
    actors,         \* the tests whose elf is PyCaller
    desc,           \* the tests whose .test file and directory exist
    noexe,          \* [Tests -> number of NOEXE lines in the SanityCheck log]
    todo,           \* what is left of NOEXEList, [Tests -> number of lines]
    failed,         \* the tests that the SanityCheck log lists as failed
    daemon,         \* whether PredictionDaemon serves
    info,           \* the benchmark that /tmp/PredictionDaemon.info names
    funcSet,        \* the lines of this round's FuncSet log
    list,           \* SuccessBuiltTestPath; None is the name ""
    lists,          \* SplitList, [Workers -> the tests still to be run]
    ran,            \* [Tests -> how often lit has been given it in this round]
    records         \* the lines of this round's Features log

logVars == <<stamp, lpc, time>>
setVars == <<inputSet, inputSetAll>>
buildVars == <<elf, built, actors, desc>>
sanityVars == <<noexe, todo, failed>>
daemonVars == <<daemon, info, funcSet>>
suiteVars == <<buildVars, sanityVars, daemonVars>>
runVars == <<lists, ran, records>>
vars == <<mode, round, pc, k, logVars, setVars, buildVars, sanityVars, daemonVars,
          list, runVars>>

Rebuild == round = 1 \/ mode # "Standard"
FunctionLevel == mode = "Random-FunctionLevel"
(* One pass set for all benchmarks of a root directory. *)
BenchmarkLevel == mode \in {"Random-BenchmarkLevel", "Selected.SingleCore"}
(* What a loop over the list l that takes the places I leaves in a new list. *)
Chosen(l, I) ==
    LET q[i \in 0 .. Len(l)] ==
            IF i = 0 THEN <<>> ELSE IF i \in I THEN Append(q[i - 1], l[i]) ELSE q[i - 1]
    IN  q[Len(l)]

TestsIn(d) == {t \in Tests : dirOf[t] = d}
InRoot(t) == rootOf[dirOf[t]] = Roots[k]

(***************************************************************************)
(* TimeStamp, InputSetAll and PredictionDaemon.info are as earlier runs,   *)
(* of any mode, have left them, and their daemon may still serve.  (The    *)
(* clang of the other modes does not ask it.  InputSet is written before   *)
(* it is read.)                                                            *)
(***************************************************************************)
Init ==
    /\ mode \in Modes /\ round = 1 /\ pc = "begin" /\ k = 1
    /\ stamp \in {None, Empty, <<0, Driver>>}
    /\ lpc = [p \in Procs |-> "none"] /\ time = [p \in Procs |-> None]
    /\ inputSet = None /\ inputSetAll \in [Range(Roots) -> PassSets \cup {None}]
    /\ elf = [t \in Tests |-> "none"] /\ built = [t \in Tests |-> None]
    /\ actors = {} /\ desc = {}
    /\ noexe = [t \in Tests |-> 0] /\ todo = [t \in Tests |-> 0] /\ failed = {}
    /\ daemon \in (IF FunctionLevel THEN {"up", "down"} ELSE {"down"})
    /\ info \in (IF FunctionLevel THEN Range(Profiled) \cup {None} ELSE {None})
    /\ funcSet = {}
    /\ list = <<>> /\ lists = [w \in Workers |-> {}]
    /\ ran = [t \in Tests |-> 0] /\ records = {}

-------------------------------------------------------------------------------
(* LogService(): the processes of a round find the time, and so the names *)
(* of the log files, in TimeStamp; a time is known by who took it when.   *)

Look(p) ==
    /\ lpc[p] = "look"
    /\ lpc' = [lpc EXCEPT ![p] = IF stamp = None THEN "create" ELSE "read"]
    /\ UNCHANGED <<stamp, time>>

ReadStamp(p) ==
    /\ lpc[p] = "read" /\ stamp # None
    /\ lpc' = [lpc EXCEPT ![p] = "done"]
    /\ time' = [time EXCEPT ![p] = stamp]
    /\ UNCHANGED stamp

(* open(..., 'w') empties the file; the time is written when it is closed. *)
CreateStamp(p) ==
    /\ lpc[p] = "create"
    /\ lpc' = [lpc EXCEPT ![p] = "write"]
    /\ stamp' = Empty
    /\ UNCHANGED time

WriteStamp(p) ==
    /\ lpc[p] = "write"
    /\ lpc' = [lpc EXCEPT ![p] = "done"]
    /\ stamp' = <<round, p>>
    /\ time' = [time EXCEPT ![p] = <<round, p>>]

LogService(p) ==
    /\ Look(p) \/ ReadStamp(p) \/ CreateStamp(p) \/ WriteStamp(p)
    /\ UNCHANGED <<mode, round, pc, k, setVars, suiteVars, list, runVars>>

(* The driver goes on to s, and to a LogService in it. *)
GoToLog(s) == pc' = s /\ lpc' = [lpc EXCEPT ![Driver] = "look"]
Logged(s) == pc = s /\ lpc[Driver] = "done"

-------------------------------------------------------------------------------
(* The build *)

(***************************************************************************)
(* DelTimeStamp, and with it the logs are new; CmakeTestSuite removes all  *)
(* that was built.  Before, "stop" does not wait for the daemon and        *)
(* "start" refuses while its PID file is there: the daemon may be gone.    *)
(***************************************************************************)
BeginRound ==
    /\ pc = "begin"
    /\ daemon' \in CASE ~FunctionLevel -> {daemon}
                    [] FunctionLevel /\ daemon = "up" -> {"up", "down"}
                    [] FunctionLevel /\ daemon = "down" -> {"up"}
    /\ funcSet' = {}
    /\ stamp' = None
    /\ noexe' = [t \in Tests |-> 0] /\ failed' = {}
    /\ ran' = [t \in Tests |-> 0] /\ records' = {}
    /\ IF Rebuild
       THEN /\ GoToLog("cmake")
            /\ elf' = [t \in Tests |-> "none"] /\ built' = [t \in Tests |-> None]
            /\ actors' = {} /\ desc' = {} /\ list' = <<>>
       ELSE GoToLog("log") /\ UNCHANGED <<buildVars, list>>
    /\ UNCHANGED <<mode, round, k, time, setVars, todo, info, lists>>

Cmake ==
    /\ Logged("cmake")
    /\ GoToLog("log")
    /\ desc' = Tests
    /\ UNCHANGED <<mode, round, k, stamp, time, setVars, elf, built, actors,
                   sanityVars, daemonVars, list, runVars>>

(* The InputSetAll of the former round, or run, is removed. *)
StartBuild ==
    /\ Logged("log") /\ ~FunctionLevel
    /\ pc' = "build" /\ k' = 1
    /\ inputSetAll' = [r \in Range(Roots) |-> None]
    /\ UNCHANGED <<mode, round, logVars, inputSet, suiteVars, list, runVars>>

(***************************************************************************)
(* make of the tests T with the pass set s: what is missing is built or    *)
(* not, for better or worse; PyCaller, older than the objects, is linked   *)
(* over when make comes to it.  The "make clean" before cleans nothing: of *)
(* a list with shell=True the shell runs only the first word.              *)
(***************************************************************************)
Make(T, s) ==
    LET missing == {t \in T : elf[t] = "none"} IN
    \E e \in [missing -> {"none", "bad", "good"}], A \in SUBSET (actors \cap T) :
        /\ elf' = [t \in Tests |-> IF t \in missing THEN e[t] ELSE elf[t]]
        /\ built' = [t \in Tests |-> IF t \in missing /\ e[t] # "none" THEN s ELSE built[t]]
        /\ actors' = actors \ A

AllBuilt == k = Len(Roots)

(* RandomGenerator, make, and the line of InputSetAll. *)
BuildRoot(s) ==
    /\ pc = "build"
    /\ inputSet' = s
    /\ inputSetAll' = [inputSetAll EXCEPT ![Roots[k]] = s]
    /\ IF Rebuild THEN Make({t \in Tests : InRoot(t)}, s)
                  ELSE UNCHANGED <<elf, built, actors>>
    /\ k' = IF AllBuilt THEN 1 ELSE k + 1
    /\ pc' = IF ~AllBuilt THEN pc ELSE IF Rebuild THEN "sanity" ELSE "split"
    /\ UNCHANGED <<mode, round, logVars, desc, sanityVars, daemonVars, list, runVars>>

-------------------------------------------------------------------------------
(* LitMimic *)

(* What lit, run on the tests T, adds to the SanityCheck log. *)
NoExe(T, e) == {t \in T \cap desc : e[t] = "none"}
Failing(T, e) == {t \in T \cap desc : e[t] = "bad"}
WithLines(T) == [t \in Tests |-> noexe[t] + IF t \in T THEN 1 ELSE 0]

(***************************************************************************)
(* The PyActors of the tests T record, under the pass set of InputSetAll,  *)
(* in the log of TimeStamp.  (One that gives up only leaves a line out.)   *)
(***************************************************************************)
Record(T, who) ==
    records' = records \cup {[test |-> t, by |-> who, time |-> stamp,
                              set |-> inputSetAll[rootOf[dirOf[t]]]] : t \in T}

SanityCheck ==
    /\ pc = "sanity"
    /\ LET T == {t \in Tests : InRoot(t)} IN
        /\ noexe' = WithLines(NoExe(T, elf))
        /\ failed' = failed \cup Failing(T, elf)
    /\ todo' = noexe'
    /\ pc' = "retry"
    /\ UNCHANGED <<mode, round, k, logVars, setVars, buildVars, daemonVars, list, runVars>>

(* Bug variant: InputSet stays what the last directory left. *)
Retry_LastSet(t) ==
    /\ pc = "retry" /\ todo[t] > 0 /\ t \in desc
    /\ LET T == TestsIn(dirOf[t]) IN
        /\ Make(T, inputSet)
        /\ noexe' = [WithLines(NoExe(T, elf')) EXCEPT ![t] = @ - 1]
        /\ failed' = failed \cup Failing(T, elf')
        /\ Record(T \cap desc \cap actors', "sanity")
    /\ todo' = [todo EXCEPT ![t] = @ - 1]
    /\ UNCHANGED <<mode, round, pc, k, logVars, setVars, desc, daemonVars, list, lists, ran>>

(***************************************************************************)
(* A NOEXE line is marked; its directory is built and checked again.  The  *)
(* tests of one lit -j end, and leave lines, in any order, after the lines *)
(* of earlier runs; here all lines are dealt with in any order.            *)
(***************************************************************************)
Retry(t) ==
    /\ pc = "retry" /\ todo[t] > 0 /\ t \in desc
    /\ LET T == TestsIn(dirOf[t])
           s == inputSetAll[rootOf[dirOf[t]]] IN
        /\ inputSet' = s
        /\ Make(T, s)
        /\ noexe' = [WithLines(NoExe(T, elf')) EXCEPT ![t] = @ - 1]
        /\ failed' = failed \cup Failing(T, elf')
        /\ Record(T \cap desc \cap actors', "sanity")
    /\ todo' = [todo EXCEPT ![t] = @ - 1]
    /\ UNCHANGED <<mode, round, pc, k, logVars, inputSetAll, desc, daemonVars, list,
                   lists, ran>>

(* os.chdir to a directory of SkipDirList that has been removed. *)
RetryRaises ==
    /\ pc = "retry" /\ \E t \in Tests \ desc : todo[t] > 0
    /\ pc' = "crashed"
    /\ UNCHANGED <<mode, round, k, logVars, setVars, suiteVars, list, runVars>>

Retried == pc = "retry" /\ \A t \in Tests : todo[t] = 0

(* Bug variant: a directory without a single elf is removed as well. *)
Distribute_RemovesEmpty ==
    /\ Retried
    /\ LET kept == Chosen(Walk, {i \in DOMAIN Walk : /\ InRoot(Walk[i])
                                                      /\ dirOf[Walk[i]] \notin Skipped
                                                      /\ elf[Walk[i]] # "none"})
           gone == {t \in Tests :
                        /\ InRoot(t)
                        /\ \/ dirOf[t] \in Skipped
                           \/ \A u \in TestsIn(dirOf[t]) : elf[u] = "none"} IN
        /\ list' = list \o kept
        /\ actors' = actors \cup Range(kept)
        /\ elf' = [t \in Tests |-> IF t \in gone THEN "none" ELSE elf[t]]
        /\ desc' = desc \ gone
    /\ k' = IF AllBuilt THEN k ELSE k + 1
    /\ pc' = IF AllBuilt THEN "remove" ELSE "sanity"
    /\ UNCHANGED <<mode, round, logVars, setVars, built, sanityVars, daemonVars, runVars>>

(* PyCaller takes the place of each elf; SkipDirList is removed. *)
Distribute ==
    /\ Retried
    /\ LET kept == Chosen(Walk, {i \in DOMAIN Walk : /\ InRoot(Walk[i])
                                                      /\ dirOf[Walk[i]] \notin Skipped
                                                      /\ elf[Walk[i]] # "none"})
           gone == {t \in Tests : InRoot(t) /\ dirOf[t] \in Skipped} IN
        /\ list' = list \o kept
        /\ actors' = actors \cup Range(kept)
        /\ elf' = [t \in Tests |-> IF t \in gone THEN "none" ELSE elf[t]]
        /\ desc' = desc \ gone
    /\ k' = IF AllBuilt THEN k ELSE k + 1
    /\ pc' = IF AllBuilt THEN "remove" ELSE "sanity"
    /\ UNCHANGED <<mode, round, logVars, setVars, built, sanityVars, daemonVars, runVars>>

(* A slice of a list, from the m-th to the n-th as far as they exist. *)
Slice(q, m, n) == SubSeq(q, m, IF n < Len(q) THEN n ELSE Len(q))

(***************************************************************************)
(* "for test in l: if test in F: l.remove(test)": after a removal the test *)
(* behind the removed one is not looked at.                                *)
(***************************************************************************)
RemoveInLoop(l, F) ==
    LET gone[i \in 0 .. Len(l)] == i # 0 /\ l[i] \in F /\ ~gone[i - 1]
    IN  Chosen(l, {i \in DOMAIN l : ~gone[i]})

(* Bug variant: the .test files of failed tests stay. *)
RemoveFailed_KeepsFiles ==
    /\ pc = "remove" /\ pc' = "split"
    /\ list' = RemoveInLoop(list, failed)
    /\ UNCHANGED <<mode, round, k, logVars, setVars, suiteVars, runVars>>

(* RemoveSanityFailedTestDesc, and the loop over SuccessBuiltTestPath. *)
RemoveFailed ==
    /\ pc = "remove" /\ pc' = "split"
    /\ desc' = desc \ failed
    /\ list' = RemoveInLoop(list, failed)
    /\ UNCHANGED <<mode, round, k, logVars, setVars, elf, built, actors,
                   sanityVars, daemonVars, runVars>>

-------------------------------------------------------------------------------
(* The function-level mode *)

(* InputSetAll is left as it is, with the sets of an earlier run. *)
StartProfiled ==
    /\ Logged("log") /\ FunctionLevel
    /\ k' = 1 /\ pc' = IF Profiled = <<>> THEN "split" ELSE "info"
    /\ UNCHANGED <<mode, round, logVars, setVars, suiteVars, list, runVars>>

(* What the daemon is to know of the benchmark that is built next. *)
WriteInfo ==
    /\ pc = "info" /\ pc' = "make"
    /\ info' = Profiled[k]
    /\ UNCHANGED <<mode, round, k, logVars, setVars, buildVars, sanityVars, daemon, funcSet,
                   list, runVars>>

(* A compiler is at work, for the test b or for the checks of cmake (None). *)
Compiling(b) ==
    \/ pc = "cmake" /\ lpc[Driver] = "look" /\ b = None
    \/ pc = "make" /\ b = Profiled[k] /\ elf[b] = "none"

(***************************************************************************)
(* The daemon answers a compiler, random passes or the best ones, and      *)
(* logs for what it takes to be the benchmark; its LogService may be the   *)
(* first of the round.  Without the file it raises and goes on serving.    *)
(***************************************************************************)
Echo(b) ==
    /\ daemon = "up" /\ Compiling(b)
    /\ stamp' = IF stamp = None THEN <<round, Daemon>> ELSE stamp
    /\ funcSet' = funcSet \cup {e \in {[bench |-> info, of |-> b, time |-> stamp']} :
                                     e.bench # None}
    /\ UNCHANGED <<mode, round, pc, k, lpc, time, setVars, buildVars, sanityVars, daemon, info,
                   list, runVars>>

(* make of one benchmark, with a pass set for each function. *)
BuildAssigned ==
    /\ pc = "make" /\ pc' = "check"
    /\ Make({Profiled[k]}, None)
    /\ UNCHANGED <<mode, round, k, logVars, setVars, desc, sanityVars, daemonVars, list, runVars>>

(* CheckAssignedTest: what lit does not list as failed is in the list, an *)
(* elf that does not exist too; an elf is a PyActor then.                 *)
CheckAssignedTest ==
    /\ pc = "check"
    /\ LET t == Profiled[k] IN
        /\ noexe' = WithLines(NoExe({t}, elf))
        /\ failed' = failed \cup Failing({t}, elf)
        /\ list' = Append(list, IF elf[t] = "bad" THEN None ELSE t)
        /\ actors' = actors \cup {u \in {t} : elf[u] = "good"}
    /\ IF k = Len(Profiled) THEN pc' = "split" /\ UNCHANGED k ELSE pc' = "info" /\ k' = k + 1
    /\ UNCHANGED <<mode, round, logVars, setVars, elf, built, desc, todo, daemonVars, runVars>>

-------------------------------------------------------------------------------
(* lit *)

PickTests(l) ==
    IF mode = "Selected.SingleCore"
    THEN Chosen(l, {i \in DOMAIN l : l[i] \in Measurable})
    ELSE l

SplitCount == IF mode \in {"Selected.SingleCore", "Standard"} THEN 1 ELSE ManyLists

(* Bug variant: the remainder of the division is forgotten. *)
Step_NoRemainder(n) == n \div SplitCount

Step(n) == n \div SplitCount + 1

Shuffles(l) == {[i \in DOMAIN l |-> l[p[i]]] : p \in Bijection(DOMAIN l, DOMAIN l)}

(* Bug variant: TimeStamp is deleted before the workers are waited for. *)
Split_DelTimeStamp ==
    /\ pc = "split" /\ pc' = "run"
    /\ stamp' = None
    /\ list' = PickTests(list)
    /\ \E q \in Shuffles(PickTests(list)) :
        /\ lists' = [w \in Workers |->
                        IF w <= SplitCount
                        THEN LET n == Step(Len(q)) IN Range(Slice(q, (w - 1) * n + 1, w * n)) \ {None}
                        ELSE {}]
    /\ lpc' = [p \in Procs |-> IF p \in 1 .. SplitCount THEN "look" ELSE lpc[p]]
    /\ UNCHANGED <<mode, round, k, time, setVars, suiteVars, ran, records>>

(* SplitList; a worker for each part is started, with the names that are   *)
(* not "".  The shuffled order is seen in the parts only: the next shuffle *)
(* undoes it.                                                              *)
Split ==
    /\ pc = "split" /\ pc' = "run"
    /\ list' = PickTests(list)
    /\ \E q \in Shuffles(PickTests(list)) :
        /\ lists' = [w \in Workers |->
                        IF w <= SplitCount
                        THEN LET n == Step(Len(q)) IN Range(Slice(q, (w - 1) * n + 1, w * n)) \ {None}
                        ELSE {}]
    /\ lpc' = [p \in Procs |-> IF p \in 1 .. SplitCount THEN "look" ELSE lpc[p]]
    /\ UNCHANGED <<mode, round, k, stamp, time, setVars, suiteVars, ran, records>>

(***************************************************************************)
(* LitWorker: lit runs a test that has a .test file; what is not a PyActor *)
(* runs too and records nothing.                                           *)
(***************************************************************************)
RunTest(w, t) ==
    /\ pc = "run" /\ lpc[w] = "done" /\ t \in lists[w]
    /\ lists' = [lists EXCEPT ![w] = @ \ {t}]
    /\ ran' = [ran EXCEPT ![t] = @ + 1]
    /\ Record({t} \cap desc \cap actors, "round")
    /\ UNCHANGED <<mode, round, pc, k, logVars, setVars, suiteVars, list>>

Joined == \A w \in 1 .. SplitCount : lpc[w] = "done" /\ lists[w] = {}

Join ==
    /\ pc = "run" /\ Joined
    /\ GoToLog("mail")
    /\ UNCHANGED <<mode, round, k, stamp, time, setVars, suiteVars, list, runVars>>

(* The mail of the round has been sent; DelTimeStamp. *)
EndRound ==
    /\ Logged("mail")
    /\ stamp' = None
    /\ IF round < MaxRound
       THEN pc' = "begin" /\ round' = round + 1 /\ UNCHANGED lpc
       ELSE GoToLog("lastMail") /\ UNCHANGED round
    /\ UNCHANGED <<mode, k, time, setVars, suiteVars, list, runVars>>

(***************************************************************************)
(* Nobody catches what the connection, the login and quit() raise, before  *)
(* and after the mail's LogService: the run ends, and leaves TimeStamp.    *)
(***************************************************************************)
MailRaises ==
    /\ pc \in {"mail", "lastMail"} /\ lpc[Driver] \in {"look", "done"}
    /\ pc' = "mailFailed" /\ lpc' = [lpc EXCEPT ![Driver] = "none"]
    /\ UNCHANGED <<mode, round, k, stamp, time, setVars, suiteVars, list, runVars>>

(* The mail after all rounds: its LogService leaves a TimeStamp. *)
LastMail ==
    /\ Logged("lastMail")
    /\ pc' = "over"
    /\ UNCHANGED <<mode, round, k, logVars, setVars, suiteVars, list, runVars>>

-------------------------------------------------------------------------------
Main ==
    \/ LogService(Driver)
    \/ BeginRound \/ Cmake \/ StartBuild \/ (\E s \in PassSets : BuildRoot(s))
    \/ SanityCheck \/ (\E t \in Tests : Retry(t)) \/ RetryRaises \/ Distribute \/ RemoveFailed
    \/ StartProfiled \/ WriteInfo \/ BuildAssigned \/ CheckAssignedTest
    \/ Split \/ Join \/ EndRound \/ LastMail \/ MailRaises

LitWorker(w) == LogService(w) \/ \E t \in Tests : RunTest(w, t)

LitProcesses == Main \/ \E w \in Workers : LitWorker(w)

Over == pc \in {"over", "crashed", "mailFailed"}

Next == \/ LitProcesses
        \/ \E b \in Tests \cup {None} : Echo(b)
        \/ Over /\ UNCHANGED vars

(* As long as a process can go on, one does: lit and make come to an end. *)
Spec == Init /\ [][Next]_vars /\ WF_vars(LitProcesses)

-------------------------------------------------------------------------------
(* Properties *)

Times == (0 .. MaxRound) \X (Procs \cup {Daemon})

(* The variables have the values their declarations say. *)
TypeOK ==
    /\ mode \in Modes /\ round \in 1 .. MaxRound
    /\ k \in DOMAIN Roots \cup DOMAIN Profiled
    /\ pc \in {"begin", "cmake", "log", "build", "sanity", "retry", "remove",
               "info", "make", "check", "split", "run", "mail", "lastMail", "over", "crashed",
               "mailFailed"}
    /\ stamp \in Times \cup {None, Empty}
    /\ lpc \in [Procs -> {"none", "look", "read", "create", "write", "done"}]
    /\ time \in [Procs -> Times \cup {None}]
    /\ inputSet \in PassSets \cup {None}
    /\ inputSetAll \in [Range(Roots) -> PassSets \cup {None}]
    /\ elf \in [Tests -> {"none", "bad", "good"}]
    /\ built \in [Tests -> PassSets \cup {None}]
    /\ actors \subseteq Tests /\ desc \subseteq Tests /\ failed \subseteq Tests
    /\ noexe \in [Tests -> Nat] /\ todo \in [Tests -> Nat]
    /\ daemon \in {"up", "down"} /\ info \in Range(Profiled) \cup {None}
    /\ funcSet \subseteq [bench : Tests, of : Tests \cup {None}, time : Times]
    /\ list \in Seq(Tests \cup {None})
    /\ lists \in [Workers -> SUBSET Tests] /\ ran \in [Tests -> Nat]
    /\ records \subseteq [test : Tests, by : {"sanity", "round"},
                             time : Times, set : PassSets \cup {None}]

(***************************************************************************)
(* The driver, the workers, the PyActors and the daemon log to the files   *)
(* of one time, taken in this round, whoever of them is the first to need  *)
(* it.                                                                     *)
(***************************************************************************)
OneLog ==
    pc \in {"run", "mail"} =>
        /\ time[Driver][1] = round
        /\ \A w \in 1 .. SplitCount : lpc[w] = "done" => time[w] = time[Driver]
        /\ \A r \in records \cup funcSet : r.time = time[Driver]

(* The shuffled list is cut so that lit gets each test once in a round. *)
EachTestOnce ==
    pc = "mail" => \A t \in Tests : ran[t] = IF t \in Range(list) THEN 1 ELSE 0

(***************************************************************************)
(* In the modes that build every benchmark of a root directory with one    *)
(* pass set, what a PyActor records is named after the passes its          *)
(* benchmark was built with, after a retry as well.  In the function-level *)
(* mode, where the functions have passes of their own, it is named after   *)
(* the set that an earlier run has left in InputSetAll, if there is one:   *)
(* no run of this mode removes it or writes to it, and it says nothing of  *)
(* the build.  The daemon logs the passes of the functions under the       *)
(* benchmark that is compiled (or under one of a former round, when cmake  *)
(* compiles).  In mode Standard InputSetAll changes without a build, and   *)
(* the compiler does not read InputSet.                                    *)
(***************************************************************************)
LabelIsBuild ==
    /\ BenchmarkLevel => \A r \in records : r.set = built[r.test]
    /\ FunctionLevel =>
           \A r \in records : /\ r.set = inputSetAll[rootOf[dirOf[r.test]]]
                              /\ built[r.test] = None
    /\ \A e \in funcSet : e.of \in {e.bench, None}

(***************************************************************************)
(* A round's lit records nothing of a benchmark that failed the sanity     *)
(* check, though the loop that removes failed tests leaves some of them in *)
(* the list: the .test file that lit would need is gone.  (The lit of a    *)
(* retry comes before that removal, and records what it likes.)            *)
(***************************************************************************)
RecordedPassed ==
    \A r \in records : r.by = "round" => elf[r.test] = "good" /\ r.test \notin failed

(***************************************************************************)
(* All rounds end.  There are two ways not to get there: a retry in a      *)
(* directory of SkipDirList, whose NOEXE line outlives the directory, and  *)
(* a mail, of a round or the last one, that cannot be sent.                *)
(***************************************************************************)
RunEnds == <>(\/ pc \in {"over", "mailFailed"}
              \/ /\ pc = "crashed"
                 /\ \A t \in Tests \ desc : todo[t] > 0 => dirOf[t] \in Skipped)

(***************************************************************************)
(* LitMimic.py, line 3: "This file will replace the real elf with PyActor  *)
(* to extract features": the tests that lit gets are PyActors, if they are *)
(* built.                                                                  *)
(***************************************************************************)
ListedAreActors ==
    pc = "run" => \A t \in Range(list) \cap desc : elf[t] # "none" => t \in actors

===============================================================================
