----------------------------- MODULE PassRewriter -----------------------------
(***************************************************************************)
(* PassInstrument/PassRewriter.cpp with the scripts around it: the probes  *)
(* "PassPeeper(id)" that are inserted into LLVM's passes and that count    *)
(* the features of a compilation.  The options of ScriptDriver.sh are      *)
(*   1  TidyAllPasses.sh          LLVM's passes -> TidiedPasses            *)
(*   2  InstrumentTidiedPasses.sh TidiedPasses -> RewrittenPasses          *)
(*   3  CopyRewrittenPassBack.sh  RewrittenPasses -> LLVM's passes         *)
(*                                                                         *)
(* A file is the set of probes in it, each at a line of the tidied file.   *)
(* clang's traversal of a file is a sequence of places, in the order in    *)
(* which the seven matchers' callbacks reach them.                         *)
(***************************************************************************)
EXTENDS Integers, Sequences, FiniteSets

CONSTANTS Passes,       \* PassesArr: a sequence of pass files
          Matches,      \* [file -> its places]
          Unfixed,      \* the same, before what clang-tidy broke is mended
          MaxRuns,      \* bound: how often an option is chosen
          None

Files == {Passes[i] : i \in 1 .. Len(Passes)}

(***************************************************************************)
(* Where a callback wants a probe: "body" is the first child of a body,    *)
(* with file None when there is no child; a place in a header is not in    *)
(* the main file; one in a macro has no file name.                         *)
(***************************************************************************)
IsPlace(m) ==
    /\ DOMAIN m = {"kind", "file", "line", "macro"}
    /\ m.kind \in {"body", "break", "case"}
    /\ m.line \in Nat /\ m.macro \in BOOLEAN

ASSUME PassesAssumption ==
    /\ Passes \in Seq(Files) /\ Passes # <<>>
    /\ \A i, j \in 1 .. Len(Passes) : Passes[i] = Passes[j] => i = j
    /\ None \notin Files
ASSUME MatchesAssumption ==
    \A f \in Files : \A s \in {Matches[f], Unfixed[f]} :
        /\ DOMAIN s = 1 .. Len(s) /\ Len(s) \in Nat
        /\ \A i \in 1 .. Len(s) : IsPlace(s[i])

(* What a file may hold, and what a line of RewrittenLog says. *)
Probe == [line : Nat, id : Nat]
Contents == [Files -> SUBSET Probe]
LogLine == [file : Files, line : Nat, id : Nat]

ASSUME BoundAssumption == MaxRuns \in Nat
ASSUME NoneAssumption ==
    None \notin Nat /\ None \notin Contents /\ None \notin Seq(LogLine)

VARIABLES
    source,         \* LLVM's passes
    tidied, rewritten,  \* the directories, None as long as there is none
    fixed,          \* whether the tidied passes were mended by hand
    RewrittenLog,   \* None without the file
    FeatureSize,    \* None without the file
    script,         \* the step that the chosen option is at
    k,              \* the index of the pass that a loop or the tool is at
    pos,            \* the next place of the traversal
    InsertIndexId,
    RewriteMap,     \* the keys <<file, line>>
    buffer,         \* the Rewriter's edit buffer of the file
    runs,           \* options chosen so far
    complete,       \* history: the last PassRewriter went through all files
    retidied,       \* history: option 1 was chosen with probes in source
    installed       \* history: "none", "part" or "whole" of option 3

dirVars == <<source, tidied, rewritten, fixed>>
logVars == <<RewrittenLog, FeatureSize>>
toolVars == <<pos, InsertIndexId, RewriteMap, buffer>>
histVars == <<complete, retidied, installed>>
vars == <<source, tidied, rewritten, fixed, RewrittenLog, FeatureSize, script, k,
          pos, InsertIndexId, RewriteMap, buffer, runs, complete, retidied, installed>>

Init ==
    /\ source = [f \in Files |-> {}]
    /\ tidied = None /\ rewritten = None /\ fixed = FALSE
    /\ RewrittenLog = None /\ FeatureSize = None
    /\ script = "idle" /\ k = 1 /\ runs = 0
    /\ pos = 1 /\ InsertIndexId = 0 /\ RewriteMap = {} /\ buffer = {}
    /\ complete = FALSE /\ retidied = FALSE /\ installed = "none"

Choose ==
    /\ script = "idle" /\ runs < MaxRuns
    /\ runs' = runs + 1

-------------------------------------------------------------------------------
(* Option 1 *)

Tidy ==
    /\ Choose
    /\ tidied' = source
    /\ fixed' = FALSE
    /\ retidied' = (retidied \/ \E f \in Files : source[f] # {})
    /\ UNCHANGED <<source, rewritten, logVars, script, k, toolVars, complete, installed>>

(* "Please Fix NewGVN.cpp at line 2099 and 2100", by hand *)
Fix ==
    /\ script = "idle" /\ tidied # None /\ ~fixed
    /\ fixed' = TRUE
    /\ UNCHANGED <<source, tidied, rewritten, logVars, script, k, toolVars, runs, histVars>>

-------------------------------------------------------------------------------
(* Option 2; "Assume TidyAllPasses.sh is already done." *)

ClearLog ==
    /\ Choose /\ tidied # None
    /\ RewrittenLog' = None /\ FeatureSize' = None
    /\ script' = "copy" /\ complete' = FALSE
    /\ UNCHANGED <<dirVars, k, toolVars, retidied, installed>>

(* rm -rf RewrittenPasses, cp -r *)
CopyTidied ==
    /\ script = "copy" /\ script' = "start"
    /\ rewritten' = tidied
    /\ UNCHANGED <<source, tidied, fixed, logVars, k, toolVars, runs, histVars>>

(* The process PassRewriter starts on all passes: its global variables. *)
Start ==
    /\ script = "start" /\ script' = "tool"
    /\ k' = 1 /\ pos' = 1
    /\ InsertIndexId' = 0 /\ RewriteMap' = {}
    /\ buffer' = rewritten[Passes[1]]
    /\ UNCHANGED <<dirVars, logVars, runs, histVars>>

File == Passes[k]
Places == IF fixed THEN Matches[File] ELSE Unfixed[File]
Traversing == script = "tool" /\ pos <= Len(Places)

Key(m) == <<m.file, m.line>>
CheckKeyExists(m) == Key(m) \in RewriteMap
isInMainFile(m) == m.file = File
isFileNameReadable(m) == ~m.macro

(* Bug variant: a place in a header is taken too. *)
Wanted_Headers(m) ==
    /\ m.file # None
    /\ ~CheckKeyExists(m) /\ isFileNameReadable(m)

Wanted(m) ==
    /\ isInMainFile(m)
    /\ ~CheckKeyExists(m) /\ isFileNameReadable(m)

(* Bug variant: the index is increased before it is logged. *)
RecordMatchedLoc_IncrementFirst(m) ==
    /\ RewriteMap' = RewriteMap \cup {Key(m)}
    /\ LET log == IF RewrittenLog = None THEN <<>> ELSE RewrittenLog
       IN  RewrittenLog' = Append(log, [file |-> m.file, line |-> m.line,
                                        id |-> InsertIndexId + 1])

(* The map, and a line of the log, which is opened and closed for it. *)
RecordMatchedLoc(m) ==
    /\ RewriteMap' = RewriteMap \cup {Key(m)}
    /\ LET log == IF RewrittenLog = None THEN <<>> ELSE RewrittenLog
       IN  RewrittenLog' = Append(log, [file |-> m.file, line |-> m.line,
                                        id |-> InsertIndexId])

(***************************************************************************)
(* InsertTextBefore, InsertTextAfter and ReplaceText change the edit       *)
(* buffer of the file that the place is in.                                *)
(***************************************************************************)
InsertText(m) ==
    buffer' = IF isInMainFile(m)
              THEN buffer \cup {[line |-> m.line, id |-> InsertIndexId]}
              ELSE buffer

InsertApi(m) ==
    /\ InsertText(m)
    /\ RecordMatchedLoc(m)
    /\ InsertIndexId' = InsertIndexId + 1

Callback(m) ==
    /\ pos' = pos + 1
    /\ IF Wanted(m) THEN InsertApi(m)
       ELSE UNCHANGED <<buffer, RewriteMap, RewrittenLog, InsertIndexId>>
    /\ UNCHANGED <<dirVars, FeatureSize, script, k, runs, histVars>>

(* if, else, for, range for, while, do while *)
InsertApiInCompStmt ==
    Traversing /\ Places[pos].kind = "body" /\ Callback(Places[pos])
InsertApiInSingleStmt ==
    Traversing /\ Places[pos].kind = "break" /\ Callback(Places[pos])
ReplaceApiAfterMark ==
    Traversing /\ Places[pos].kind = "case" /\ Callback(Places[pos])

(* Bug variant: the index is a member of the action made for each file. *)
EndSourceFileAction_NewIndex ==
    /\ script = "tool" /\ pos > Len(Places)
    /\ rewritten' = [rewritten EXCEPT ![File] = buffer]
    /\ pos' = 1 /\ InsertIndexId' = 0
    /\ IF k < Len(Passes)
       THEN k' = k + 1 /\ buffer' = rewritten[Passes[k + 1]]
            /\ UNCHANGED <<script, complete>>
       ELSE k' = 1 /\ buffer' = {} /\ script' = "fetch" /\ complete' = TRUE
    /\ UNCHANGED <<source, tidied, fixed, logVars, RewriteMap, runs, retidied, installed>>

(* The buffer goes to the file; the tool goes to the next file or returns. *)
EndSourceFileAction ==
    /\ script = "tool" /\ pos > Len(Places)
    /\ rewritten' = [rewritten EXCEPT ![File] = buffer]
    /\ pos' = 1
    /\ IF k < Len(Passes)
       THEN k' = k + 1 /\ buffer' = rewritten[Passes[k + 1]]
            /\ UNCHANGED <<script, complete>>
       ELSE k' = 1 /\ buffer' = {} /\ script' = "fetch" /\ complete' = TRUE
    /\ UNCHANGED <<source, tidied, fixed, logVars, InsertIndexId, RewriteMap, runs,
                   retidied, installed>>

(* exit(EXIT_FAILURE) in RecordMatchedLoc, or a crash: the script goes on. *)
ToolDies ==
    /\ script = "tool" /\ script' = "fetch"
    /\ k' = 1 /\ pos' = 1 /\ buffer' = {}
    /\ UNCHANGED <<dirVars, logVars, InsertIndexId, RewriteMap, runs, histVars>>

(* The third field of the log's last line, plus 1 *)
FetchFeatureSize ==
    /\ script = "fetch" /\ script' = "idle"
    /\ FeatureSize' = IF RewrittenLog = None THEN 0
                      ELSE RewrittenLog[Len(RewrittenLog)].id + 1
    /\ UNCHANGED <<dirVars, RewrittenLog, k, toolVars, runs, histVars>>

-------------------------------------------------------------------------------
(* Option 3 *)

CopyBack ==
    /\ Choose /\ rewritten # None
    /\ script' = "copyBack" /\ k' = 1
    /\ installed' = "part"
    /\ UNCHANGED <<dirVars, logVars, toolVars, complete, retidied>>

CopyPassBack ==
    /\ script = "copyBack"
    /\ source' = [source EXCEPT ![File] = rewritten[File]]
    /\ IF k < Len(Passes)
       THEN k' = k + 1 /\ UNCHANGED <<script, installed>>
       ELSE k' = 1 /\ script' = "idle" /\ installed' = "whole"
    /\ UNCHANGED <<tidied, rewritten, fixed, logVars, toolVars, runs, complete, retidied>>

(* Ctrl-C: the script ends, and PassRewriter with it. *)
Interrupted ==
    /\ script # "idle" /\ script' = "idle"
    /\ k' = 1 /\ pos' = 1 /\ buffer' = {}
    /\ UNCHANGED <<dirVars, logVars, InsertIndexId, RewriteMap, runs, histVars>>

Tool ==
    \/ InsertApiInCompStmt \/ InsertApiInSingleStmt \/ ReplaceApiAfterMark
    \/ EndSourceFileAction \/ ToolDies

Next ==
    \/ Tidy \/ Fix
    \/ ClearLog \/ CopyTidied \/ Start \/ Tool \/ FetchFeatureSize
    \/ CopyBack \/ CopyPassBack
    \/ Interrupted
    \/ script = "idle" /\ runs = MaxRuns /\ UNCHANGED vars

Spec == Init /\ [][Next]_vars

-------------------------------------------------------------------------------
(* Properties *)

(* The variables have the values their declarations say. *)
TypeOK ==
    /\ source \in Contents
    /\ tidied \in Contents \cup {None} /\ rewritten \in Contents \cup {None}
    /\ fixed \in BOOLEAN
    /\ RewrittenLog = None \/ RewrittenLog \in Seq(LogLine)
    /\ FeatureSize \in Nat \cup {None}
    /\ script \in {"idle", "copy", "start", "tool", "fetch", "copyBack"}
    /\ k \in 1 .. Len(Passes) /\ pos \in Nat \ {0}
    /\ InsertIndexId \in Nat /\ RewriteMap \in SUBSET (Files \X Nat)
    /\ buffer \in SUBSET Probe
    /\ runs \in Nat
    /\ complete \in BOOLEAN /\ retidied \in BOOLEAN
    /\ installed \in {"none", "part", "whole"}

DistinctProbes(dir) ==
    \A f, g \in Files : \A a \in dir[f], b \in dir[g] :
        a.id = b.id \/ (f = g /\ a.line = b.line) => f = g /\ a = b

(***************************************************************************)
(* README.md:285: "The Rewritter assume the passes inside llvm-thesis are  *)
(* not instrumented."  Under this assumption no feature is counted at two  *)
(* places and no line has two probes, in whatever order options are        *)
(* chosen, broken off and repeated.  Passes that were copied back to the   *)
(* end carry the probes of one run, so that it holds of LLVM as well;      *)
(* passes of two runs may not.                                             *)
(***************************************************************************)
ProbesDistinct ==
    ~retidied =>
        /\ rewritten # None => DistinctProbes(rewritten)
        /\ installed = "whole" => DistinctProbes(source)

(* RewrittenLog tells the place of every probe, from the moment it is saved. *)
LogTellsProbes ==
    ~retidied /\ rewritten # None /\ RewrittenLog # None =>
        \A f \in Files : \A a \in rewritten[f] :
            \E i \in 1 .. Len(RewrittenLog) :
                RewrittenLog[i] = [file |-> f, line |-> a.line, id |-> a.id]

(***************************************************************************)
(* Whoever makes a vector of FeatureSize counters finds a place for every  *)
(* probe, also when PassRewriter died and the script took the size of what *)
(* was logged until then.  After a run that was not disturbed no counter   *)
(* is left without a probe.                                                *)
(***************************************************************************)
SizeFits ==
    ~retidied /\ FeatureSize # None =>
        LET ids == UNION {{a.id : a \in rewritten[f]} : f \in Files} IN
        /\ \A id \in ids : id < FeatureSize
        /\ complete => FeatureSize = Cardinality(ids)

===============================================================================
