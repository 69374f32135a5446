------------------------- MODULE PassRewriter_proofs -------------------------
(***************************************************************************)
(* Proofs about the probes of PassRewriter.tla, for any passes, any places *)
(* in them, and any number of options that are chosen and broken off.      *)
(***************************************************************************)
EXTENDS PassRewriter, FiniteSetTheorems, TLAPS

Log == IF RewrittenLog = None THEN <<>> ELSE RewrittenLog
Lines == 1 .. Len(Log)

(* The probes that the log tells of a file. *)
Told(f) == {[line |-> Log[i].line, id |-> Log[i].id] : i \in {j \in Lines : Log[j].file = f}}

(* The log numbers its lines, and no place is in it twice. *)
LogInv ==
    /\ RewrittenLog # <<>>
    /\ \A i \in Lines : Log[i].id = i - 1
    /\ \A i, j \in Lines : Log[i].file = Log[j].file /\ Log[i].line = Log[j].line => i = j
    /\ script \in {"copy", "start"} => RewrittenLog = None

(* The process PassRewriter knows what is in the log. *)
ToolInv ==
    script = "tool" =>
        /\ InsertIndexId = Len(Log)
        /\ \A i \in Lines : <<Log[i].file, Log[i].line>> \in RewriteMap

(* What the scripts rely on. *)
StageInv ==
    /\ script = "copy" => tidied # None
    /\ script \in {"copy", "start", "tool"} => ~complete
    /\ script \in {"start", "tool", "fetch", "copyBack"} => rewritten # None
    /\ script = "copyBack" => installed = "part"
    /\ FeatureSize # None =>
            /\ script \in {"idle", "copyBack"}
            /\ FeatureSize = Len(Log) /\ rewritten # None
    /\ complete => rewritten # None

(* How far the files are, while PassRewriter runs. *)
ProgressInv ==
    script = "tool" =>
        /\ buffer = Told(File)
        /\ \A i \in 1 .. Len(Passes) :
            /\ i < k => rewritten[Passes[i]] = Told(Passes[i])
            /\ i >= k => rewritten[Passes[i]] = {}
            /\ i > k => Told(Passes[i]) = {}

Logged == script \in {"start", "tool", "fetch"} \/ FeatureSize # None \/ RewrittenLog # None

(* The files of TidiedPasses are clean, those of RewrittenPasses are as logged. *)
FilesInv ==
    /\ tidied # None => \A f \in Files : tidied[f] = {}
    /\ rewritten # None =>
        /\ script = "start" => \A f \in Files : rewritten[f] = {}
        /\ Logged => \A f \in Files : rewritten[f] \subseteq Told(f)
        /\ complete => \A f \in Files : rewritten[f] = Told(f)
        /\ DistinctProbes(rewritten)

(* How far the copies are. *)
InstallInv ==
    /\ script = "copyBack" =>
            \A i \in 1 .. Len(Passes) : i < k => source[Passes[i]] = rewritten[Passes[i]]
    /\ installed = "whole" => DistinctProbes(source)

CleanInv == ~retidied => ProgressInv /\ FilesInv /\ InstallInv

IInv == TypeOK /\ LogInv /\ ToolInv /\ StageInv /\ CleanInv

-------------------------------------------------------------------------------
(* The log is a sequence of lines, with or without the file. *)
LEMMA LogType ==
    ASSUME TypeOK
    PROVE  Log \in Seq(LogLine) /\ Len(Log) \in Nat /\ \A i \in Lines : Log[i] \in LogLine
<1>1. Log \in Seq(LogLine)
    BY DEF TypeOK, Log
<1> QED BY <1>1 DEF Lines

(* The pass that a loop is at is one of the passes, and no other is the same. *)
LEMMA PassesFacts ==
    /\ Len(Passes) \in Nat \ {0}
    /\ \A i \in 1 .. Len(Passes) : Passes[i] \in Files
    /\ \A f \in Files : \E i \in 1 .. Len(Passes) : f = Passes[i]
    /\ \A i, j \in 1 .. Len(Passes) : Passes[i] = Passes[j] => i = j
<1>1. Len(Passes) \in Nat /\ Len(Passes) # 0
    BY PassesAssumption
<1> QED BY <1>1, PassesAssumption DEF Files

(* Files with probes that the log tells of have different probes. *)
LEMMA ToldDistinct ==
    ASSUME TypeOK, LogInv, NEW dir, \A f \in Files : dir[f] \subseteq Told(f)
    PROVE  DistinctProbes(dir)
<1> SUFFICES ASSUME NEW f \in Files, NEW g \in Files, NEW a \in dir[f], NEW b \in dir[g],
                    a.id = b.id \/ (f = g /\ a.line = b.line)
             PROVE  f = g /\ a = b
    BY DEF DistinctProbes
<1>1. PICK i \in Lines : Log[i].file = f /\ a = [line |-> Log[i].line, id |-> Log[i].id]
    BY DEF Told
<1>2. PICK j \in Lines : Log[j].file = g /\ b = [line |-> Log[j].line, id |-> Log[j].id]
    BY DEF Told
<1>3. CASE a.id = b.id
    <2>1. Log[i].id = Log[j].id
        BY <1>1, <1>2, <1>3
    <2>2. i - 1 = j - 1
        BY <2>1 DEF LogInv
    <2>3. i = j
        BY <2>2 DEF Lines
    <2> QED BY <1>1, <1>2, <2>3
<1>4. CASE f = g /\ a.line = b.line
    <2>1. Log[i].file = Log[j].file /\ Log[i].line = Log[j].line
        BY <1>1, <1>2, <1>4
    <2>2. i = j
        BY <2>1 DEF LogInv
    <2> QED BY <1>1, <1>2, <2>2
<1> QED BY <1>3, <1>4

(* A line more in the log is a probe more for its file. *)
LEMMA LogGrows ==
    ASSUME TypeOK, NEW f \in Files, NEW l \in Nat,
           RewrittenLog' = Append(Log, [file |-> f, line |-> l, id |-> InsertIndexId])
    PROVE  /\ Log' = RewrittenLog' /\ RewrittenLog' \in Seq(LogLine)
           /\ Len(Log') = Len(Log) + 1
           /\ \A i \in Lines : Log'[i] = Log[i]
           /\ Log'[Len(Log) + 1] = [file |-> f, line |-> l, id |-> InsertIndexId]
           /\ Lines' = Lines \cup {Len(Log) + 1}
           /\ Told(f)' = Told(f) \cup {[line |-> l, id |-> InsertIndexId]}
           /\ \A g \in Files : g # f => Told(g)' = Told(g)
<1> DEFINE e == [file |-> f, line |-> l, id |-> InsertIndexId]
<1>1. Log \in Seq(LogLine) /\ Len(Log) \in Nat
    BY LogType
<1>2. e \in LogLine
    BY DEF TypeOK, LogLine
<1>3. RewrittenLog' \in Seq(LogLine)
    BY <1>1, <1>2
<1>4. Log' = RewrittenLog'
    BY <1>3, NoneAssumption DEF Log
<1> HIDE DEF e
<1>5. /\ Len(Log') = Len(Log) + 1
      /\ \A i \in Lines : Log'[i] = Log[i]
      /\ Log'[Len(Log) + 1] = e
    BY <1>1, <1>2, <1>4 DEF Lines, e
<1>6. Lines' = Lines \cup {Len(Log) + 1}
    BY <1>1, <1>5 DEF Lines
<1>7. Len(Log) + 1 \notin Lines
    BY <1>1 DEF Lines
<1>8. Told(f)' = Told(f) \cup {[line |-> l, id |-> InsertIndexId]}
    BY <1>5, <1>6, <1>7 DEF Told, e
<1>9. ASSUME NEW g \in Files, g # f PROVE Told(g)' = Told(g)
    BY <1>5, <1>6, <1>7, <1>9 DEF Told, e
<1> QED BY <1>3, <1>4, <1>5, <1>6, <1>8, <1>9 DEF e

(* Nothing is told by an empty log. *)
LEMMA ToldNothing ==
    ASSUME RewrittenLog = None, NEW f
    PROVE  Told(f) = {} /\ Len(Log) = 0 /\ Lines = {}
BY DEF Told, Log, Lines

-------------------------------------------------------------------------------
(* The invariant holds at the start. *)
LEMMA InitIInv == Init => IInv
<1> SUFFICES ASSUME Init PROVE IInv
    OBVIOUS
<1>1. TypeOK
    <2>1. [f \in Files |-> {}] \in [Files -> SUBSET Probe]
        OBVIOUS
    <2>2. source \in Contents
        BY <2>1 DEF Init, Contents
    <2>3. 1 \in 1 .. Len(Passes)
        BY PassesFacts
    <2>4. k \in 1 .. Len(Passes) /\ pos \in Nat \ {0}
        BY <2>3 DEF Init
    <2>5. RewriteMap \in SUBSET (Files \X Nat) /\ buffer \in SUBSET Probe
        BY DEF Init
    <2>6. /\ tidied \in Contents \cup {None} /\ rewritten \in Contents \cup {None}
          /\ RewrittenLog = None /\ FeatureSize \in Nat \cup {None}
        BY DEF Init
    <2>7. /\ fixed \in BOOLEAN /\ script = "idle"
          /\ InsertIndexId \in Nat /\ runs \in Nat /\ installed = "none"
        BY DEF Init
    <2>8. complete \in BOOLEAN /\ retidied \in BOOLEAN
        BY DEF Init
    <2> QED BY <2>2, <2>4, <2>5, <2>6, <2>7, <2>8 DEF TypeOK
<1>2. Log = <<>> /\ RewrittenLog # <<>>
    <2>1. <<>> \in Seq(LogLine)
        OBVIOUS
    <2>2. <<>> # None
        BY <2>1, NoneAssumption
    <2> QED BY <2>2 DEF Init, Log
<1>3. LogInv /\ ToolInv /\ StageInv
    BY <1>2 DEF Init, LogInv, ToolInv, StageInv, Lines
<1>4. CleanInv
    BY DEF Init, CleanInv, ProgressInv, FilesInv, InstallInv, Logged
<1> QED BY <1>1, <1>3, <1>4 DEF IInv

-------------------------------------------------------------------------------
(* A log that is left alone tells what it told. *)
LEMMA SameLog ==
    ASSUME RewrittenLog' = RewrittenLog
    PROVE  Log' = Log /\ Lines' = Lines /\ \A f \in Files : Told(f)' = Told(f)
BY DEF Log, Lines, Told

(* The place that the traversal is at is a place. *)
LEMMA PlaceFacts ==
    ASSUME TypeOK, Traversing
    PROVE  File \in Files /\ IsPlace(Places[pos])
<1>1. File \in Files
    BY PassesFacts DEF TypeOK, File
<1>2. pos \in 1 .. Len(Matches[File]) \/ ~fixed
    BY <1>1, MatchesAssumption DEF TypeOK, Traversing, Places
<1>3. pos \in 1 .. Len(Unfixed[File]) \/ fixed
    BY <1>1, MatchesAssumption DEF TypeOK, Traversing, Places
<1> QED BY <1>1, <1>2, <1>3, MatchesAssumption DEF Places

(* Tidying copies files without probes, as long as LLVM's have none. *)
LEMMA TidyIInv == IInv /\ Tidy => LogInv' /\ ToolInv' /\ StageInv' /\ CleanInv'
<1> SUFFICES ASSUME IInv, Tidy PROVE LogInv' /\ ToolInv' /\ StageInv' /\ CleanInv'
    OBVIOUS
<1> USE DEF Tidy, Choose, logVars, toolVars
<1>1. Log' = Log /\ Lines' = Lines /\ \A f \in Files : Told(f)' = Told(f)
    BY SameLog
<1>2. LogInv' /\ ToolInv'
    BY <1>1 DEF IInv, LogInv, ToolInv
<1>3. StageInv'
    BY <1>1 DEF IInv, StageInv
<1>4. ASSUME ~retidied' PROVE ProgressInv' /\ FilesInv' /\ InstallInv'
    <2>1. FilesInv /\ InstallInv /\ \A f \in Files : tidied'[f] = {}
        BY <1>4 DEF IInv, CleanInv
    <2>2. ProgressInv' /\ InstallInv'
        BY <2>1 DEF ProgressInv, InstallInv, DistinctProbes
    <2>3. Logged' = Logged
        BY DEF Logged
    <2>4. FilesInv'
        BY <1>1, <2>1, <2>3 DEF FilesInv, DistinctProbes
    <2> QED BY <2>2, <2>4
<1> QED BY <1>2, <1>3, <1>4 DEF CleanInv

(* Mending the tidied passes by hand changes no probe. *)
LEMMA FixIInv == IInv /\ Fix => LogInv' /\ ToolInv' /\ StageInv' /\ CleanInv'
<1> SUFFICES ASSUME IInv, Fix PROVE LogInv' /\ ToolInv' /\ StageInv' /\ CleanInv'
    OBVIOUS
<1> USE DEF Fix, logVars, toolVars, histVars
<1>1. Log' = Log /\ Lines' = Lines /\ \A f \in Files : Told(f)' = Told(f)
    BY SameLog
<1>2. LogInv' /\ ToolInv' /\ StageInv'
    BY <1>1 DEF IInv, LogInv, ToolInv, StageInv
<1>3. ASSUME ~retidied PROVE ProgressInv' /\ FilesInv' /\ InstallInv'
    <2>1. FilesInv /\ InstallInv
        BY <1>3 DEF IInv, CleanInv
    <2>2. ProgressInv' /\ InstallInv'
        BY <2>1 DEF ProgressInv, InstallInv, DistinctProbes
    <2>3. Logged' = Logged
        BY DEF Logged
    <2>4. FilesInv'
        BY <1>1, <2>1, <2>3 DEF FilesInv, DistinctProbes
    <2> QED BY <2>2, <2>4
<1> QED BY <1>2, <1>3 DEF CleanInv

(* Option 2 begins without a log. *)
LEMMA ClearLogIInv == IInv /\ ClearLog => LogInv' /\ ToolInv' /\ StageInv' /\ CleanInv'
<1> SUFFICES ASSUME IInv, ClearLog PROVE LogInv' /\ ToolInv' /\ StageInv' /\ CleanInv'
    OBVIOUS
<1> USE DEF ClearLog, Choose, dirVars, toolVars
<1>1. Len(Log') = 0 /\ Lines' = {}
    BY DEF Log, Lines
<1>2. RewrittenLog' # <<>>
    <2>1. <<>> \in Seq(LogLine)
        OBVIOUS
    <2> QED BY <2>1, NoneAssumption
<1>3. LogInv' /\ ToolInv' /\ StageInv'
    BY <1>1, <1>2 DEF IInv, LogInv, ToolInv, StageInv
<1>4. ASSUME ~retidied PROVE ProgressInv' /\ FilesInv' /\ InstallInv'
    <2>1. FilesInv /\ InstallInv
        BY <1>4 DEF IInv, CleanInv
    <2>2. ProgressInv' /\ InstallInv'
        BY <2>1 DEF ProgressInv, InstallInv, DistinctProbes
    <2>3. ~Logged'
        BY DEF Logged
    <2>4. FilesInv'
        BY <2>1, <2>3 DEF FilesInv, DistinctProbes
    <2> QED BY <2>2, <2>4
<1> QED BY <1>3, <1>4 DEF CleanInv

(* PassRewriter gets the tidied files. *)
LEMMA CopyTidiedIInv == IInv /\ CopyTidied => LogInv' /\ ToolInv' /\ StageInv' /\ CleanInv'
<1> SUFFICES ASSUME IInv, CopyTidied PROVE LogInv' /\ ToolInv' /\ StageInv' /\ CleanInv'
    OBVIOUS
<1> USE DEF CopyTidied, logVars, toolVars, histVars
<1>1. Log' = Log /\ Lines' = Lines /\ \A f \in Files : Told(f)' = Told(f)
    BY SameLog
<1>2. LogInv' /\ ToolInv' /\ StageInv'
    BY <1>1 DEF IInv, LogInv, ToolInv, StageInv
<1>3. ASSUME ~retidied PROVE ProgressInv' /\ FilesInv' /\ InstallInv'
    <2>1. InstallInv /\ \A f \in Files : rewritten'[f] = {}
        BY <1>3 DEF IInv, CleanInv, StageInv, FilesInv
    <2>2. ProgressInv' /\ InstallInv'
        BY <2>1 DEF ProgressInv, InstallInv, DistinctProbes
    <2>3. ~complete' /\ tidied' = tidied
        BY DEF IInv, StageInv
    <2>4. DistinctProbes(rewritten)'
        BY <2>1 DEF DistinctProbes
    <2>5. FilesInv'
        BY <1>3, <2>1, <2>3, <2>4 DEF IInv, CleanInv, FilesInv
    <2> QED BY <2>2, <2>5
<1> QED BY <1>2, <1>3 DEF CleanInv

(* The tool starts on the first file with nothing told. *)
LEMMA StartIInv == IInv /\ Start => LogInv' /\ ToolInv' /\ StageInv' /\ CleanInv'
<1> SUFFICES ASSUME IInv, Start PROVE LogInv' /\ ToolInv' /\ StageInv' /\ CleanInv'
    OBVIOUS
<1> USE DEF Start, dirVars, logVars, histVars
<1>1. Log' = Log /\ Lines' = Lines /\ \A f \in Files : Told(f)' = Told(f)
    BY SameLog
<1>2. RewrittenLog = None
    BY DEF IInv, LogInv
<1>3. Len(Log) = 0 /\ Lines = {} /\ \A f \in Files : Told(f) = {}
    BY <1>2, ToldNothing
<1>4. LogInv' /\ ToolInv'
    BY <1>1, <1>3 DEF IInv, LogInv, ToolInv
<1>5. StageInv'
    BY <1>1 DEF IInv, StageInv
<1>6. ASSUME ~retidied PROVE ProgressInv' /\ FilesInv' /\ InstallInv'
    <2>1. FilesInv /\ InstallInv /\ \A f \in Files : rewritten[f] = {}
        BY <1>6 DEF IInv, CleanInv, StageInv, FilesInv
    <2>2. InstallInv'
        BY <2>1 DEF InstallInv, DistinctProbes
    <2>3. File' = Passes[1] /\ Passes[1] \in Files
        BY PassesFacts DEF File
    <2>4. buffer' = Told(File)'
        BY <1>1, <1>3, <2>1, <2>3 DEF Told
    <2>5. ProgressInv'
        BY <1>1, <1>3, <2>1, <2>4, PassesFacts DEF ProgressInv
    <2>6. ~complete
        BY DEF IInv, StageInv
    <2>7. FilesInv'
        BY <1>1, <2>1, <2>6 DEF FilesInv, DistinctProbes
    <2> QED BY <2>2, <2>5, <2>7
<1> QED BY <1>4, <1>5, <1>6 DEF CleanInv

(* A callback that takes a place gives file, log and map one entry each. *)
LEMMA CallbackIInv ==
    IInv /\ Traversing /\ Callback(Places[pos])
        => LogInv' /\ ToolInv' /\ StageInv' /\ CleanInv'
<1> SUFFICES ASSUME IInv, Traversing, Callback(Places[pos])
             PROVE  LogInv' /\ ToolInv' /\ StageInv' /\ CleanInv'
    OBVIOUS
<1> USE DEF dirVars, histVars
<1>1. PICK m : m = Places[pos]
    OBVIOUS
<1>2. Callback(m) /\ IsPlace(m) /\ File \in Files /\ script = "tool"
    BY <1>1, PlaceFacts DEF IInv, Traversing
<1>3. /\ UNCHANGED <<source, tidied, rewritten, fixed, FeatureSize, script, k, runs,
                     complete, retidied, installed>>
      /\ File' = File /\ Passes[k] = File
    BY <1>2 DEF Callback, File
<1>4. StageInv /\ FeatureSize = None /\ ~complete /\ rewritten # None
    BY <1>2 DEF IInv, StageInv
<1>5. StageInv'
    BY <1>2, <1>3, <1>4 DEF StageInv
<1>6. CASE ~Wanted(m)
    <2>1. UNCHANGED <<buffer, RewriteMap, RewrittenLog, InsertIndexId>>
        BY <1>2, <1>6 DEF Callback
    <2>2. Log' = Log /\ Lines' = Lines /\ \A f \in Files : Told(f)' = Told(f)
        BY <2>1, SameLog
    <2>3. LogInv' /\ ToolInv'
        BY <1>3, <2>1, <2>2 DEF IInv, LogInv, ToolInv
    <2>4. ASSUME ~retidied PROVE ProgressInv' /\ FilesInv' /\ InstallInv'
        <3>1. ProgressInv /\ FilesInv /\ InstallInv
            BY <2>4 DEF IInv, CleanInv
        <3>2. Told(File)' = Told(File)
            BY <1>2, <1>3, <2>1, <2>2 DEF Told
        <3>3. ProgressInv'
            BY <1>2, <1>3, <2>1, <2>2, <3>1, <3>2, PassesFacts DEF ProgressInv
        <3>4. InstallInv'
            BY <1>3, <3>1 DEF InstallInv, DistinctProbes
        <3>5. Logged' = Logged
            BY <1>3, <2>1 DEF Logged
        <3>6. FilesInv'
            BY <1>3, <2>2, <3>1, <3>5 DEF FilesInv, DistinctProbes
        <3> QED BY <3>3, <3>4, <3>6
    <2> QED BY <1>3, <1>5, <2>3, <2>4 DEF CleanInv
<1>7. CASE Wanted(m)
    <2>1. PICK l \in Nat : l = m.line
        BY <1>2 DEF IsPlace
    <2>2. PICK f \in Files : f = File
        BY <1>2
    <2>3. m.file = f /\ <<f, l>> \notin RewriteMap
        BY <1>7, <2>1, <2>2 DEF Wanted, isInMainFile, CheckKeyExists, Key
    <2>4. InsertApi(m)
        BY <1>2, <1>7 DEF Callback
    <2>5. /\ buffer' = buffer \cup {[line |-> l, id |-> InsertIndexId]}
          /\ RewriteMap' = RewriteMap \cup {<<f, l>>}
          /\ InsertIndexId' = InsertIndexId + 1
          /\ RewrittenLog' = Append(Log, [file |-> f, line |-> l, id |-> InsertIndexId])
        BY <2>1, <2>2, <2>3, <2>4
        DEF InsertApi, InsertText, RecordMatchedLoc, Key, isInMainFile, Log
    <2>6. /\ Log' = RewrittenLog'
          /\ Len(Log') = Len(Log) + 1
          /\ \A i \in Lines : Log'[i] = Log[i]
          /\ Log'[Len(Log) + 1] = [file |-> f, line |-> l, id |-> InsertIndexId]
          /\ Lines' = Lines \cup {Len(Log) + 1}
          /\ Told(f)' = Told(f) \cup {[line |-> l, id |-> InsertIndexId]}
          /\ \A g \in Files : g # f => Told(g)' = Told(g)
        BY <2>5, LogGrows DEF IInv
    <2>7. /\ Len(Log) \in Nat /\ InsertIndexId = Len(Log)
          /\ \A i \in Lines : <<Log[i].file, Log[i].line>> \in RewriteMap
        BY <1>2, LogType DEF IInv, ToolInv
    <2>8. LogInv'
        <3>1. RewrittenLog' # <<>>
            BY <2>6, <2>7
        <3>2. ASSUME NEW i \in Lines' PROVE Log'[i].id = i - 1
            <4>1. CASE i \in Lines
                BY <2>6, <4>1 DEF IInv, LogInv
            <4>2. CASE i = Len(Log) + 1
                <5>1. Log'[i].id = InsertIndexId
                    BY <2>6, <4>2
                <5> QED BY <2>7, <4>2, <5>1
            <4> QED BY <2>6, <4>1, <4>2
        <3>3. ASSUME NEW i \in Lines', NEW j \in Lines',
                     Log'[i].file = Log'[j].file, Log'[i].line = Log'[j].line
              PROVE  i = j
            <4>1. CASE i \in Lines /\ j \in Lines
                BY <2>6, <3>3, <4>1 DEF IInv, LogInv
            <4>2. \A x \in Lines : ~(Log[x].file = f /\ Log[x].line = l)
                BY <2>3, <2>7
            <4>3. CASE i \in Lines /\ j = Len(Log) + 1
                BY <2>6, <3>3, <4>2, <4>3
            <4>4. CASE j \in Lines /\ i = Len(Log) + 1
                BY <2>6, <3>3, <4>2, <4>4
            <4> QED BY <2>6, <4>1, <4>3, <4>4
        <3>4. script' = "tool"
            BY <1>2, <1>3
        <3> QED BY <3>1, <3>2, <3>3, <3>4 DEF LogInv
    <2>9. ToolInv'
        <3>1. InsertIndexId' = Len(Log')
            BY <2>5, <2>6, <2>7
        <3>2. ASSUME NEW i \in Lines' PROVE <<Log'[i].file, Log'[i].line>> \in RewriteMap'
            <4>1. CASE i \in Lines
                <5>1. Log'[i] = Log[i]
                    BY <2>6, <4>1
                <5> QED BY <2>5, <2>7, <4>1, <5>1
            <4>2. CASE i = Len(Log) + 1
                <5>1. Log'[i].file = f /\ Log'[i].line = l
                    BY <2>6, <4>2
                <5> QED BY <2>5, <5>1
            <4> QED BY <2>6, <4>1, <4>2
        <3> QED BY <3>1, <3>2 DEF ToolInv
    <2>10. ASSUME ~retidied PROVE ProgressInv' /\ FilesInv' /\ InstallInv'
        <3>1. ProgressInv /\ FilesInv /\ InstallInv
            BY <2>10 DEF IInv, CleanInv
        <3>2. InstallInv'
            BY <1>3, <3>1 DEF InstallInv, DistinctProbes
        <3>3. buffer = Told(f)
            BY <1>2, <2>2, <3>1 DEF ProgressInv
        <3>4. Told(File)' = Told(f)'
            BY <1>3, <2>2 DEF Told
        <3>5. buffer' = Told(File)'
            BY <2>5, <2>6, <3>3, <3>4
        <3>6. \A i \in 1 .. Len(Passes) : i # k => Told(Passes[i])' = Told(Passes[i])
            BY <1>3, <2>2, <2>6, PassesFacts DEF IInv, TypeOK
        <3>7. ProgressInv'
            BY <1>2, <1>3, <3>1, <3>5, <3>6 DEF ProgressInv, IInv, TypeOK
        <3>8. \A g \in Files : Told(g) \subseteq Told(g)'
            BY <2>6
        <3>9. Logged
            BY <1>2 DEF Logged
        <3>10. FilesInv'
            BY <1>2, <1>3, <1>4, <3>1, <3>8, <3>9 DEF FilesInv, DistinctProbes
        <3> QED BY <3>2, <3>7, <3>10
    <2> QED BY <1>3, <1>5, <2>8, <2>9, <2>10 DEF CleanInv
<1> QED BY <1>6, <1>7

(* A file that is written is as logged; after the last one, all are. *)
LEMMA EndSourceFileIInv ==
    IInv /\ EndSourceFileAction => LogInv' /\ ToolInv' /\ StageInv' /\ CleanInv'
<1> SUFFICES ASSUME IInv, EndSourceFileAction
             PROVE  LogInv' /\ ToolInv' /\ StageInv' /\ CleanInv'
    OBVIOUS
<1> USE DEF EndSourceFileAction, logVars
<1>1. Log' = Log /\ Lines' = Lines /\ \A f \in Files : Told(f)' = Told(f)
    BY SameLog
<1>2. LogInv' /\ ToolInv'
    BY <1>1 DEF IInv, LogInv, ToolInv
<1>3. File \in Files /\ rewritten \in Contents /\ k \in 1 .. Len(Passes)
    BY PassesFacts DEF IInv, TypeOK, StageInv, File
<1>4. /\ rewritten'[File] = buffer
      /\ \A f \in Files : f # File => rewritten'[f] = rewritten[f]
    BY <1>3 DEF Contents
<1>5. rewritten' # None
    <2>1. rewritten' \in Contents
        BY <1>3 DEF IInv, TypeOK, Contents
    <2> QED BY <2>1, NoneAssumption
<1>6. StageInv'
    BY <1>1, <1>5 DEF IInv, StageInv
<1>7. ASSUME ~retidied PROVE ProgressInv' /\ FilesInv' /\ InstallInv'
    <2>1. ProgressInv /\ FilesInv /\ InstallInv
        BY <1>7 DEF IInv, CleanInv
    <2>2. InstallInv'
        BY <2>1 DEF InstallInv, DistinctProbes
    <2>3. rewritten'[File] = Told(File)
        BY <1>4, <2>1 DEF ProgressInv
    <2>4. \A i \in 1 .. Len(Passes) : i # k => rewritten'[Passes[i]] = rewritten[Passes[i]]
        BY <1>3, <1>4, PassesFacts DEF File
    <2>5. \A i \in 1 .. Len(Passes) : i <= k => rewritten'[Passes[i]] = Told(Passes[i])
        BY <1>3, <2>1, <2>3, <2>4 DEF ProgressInv, File
    <2>6. ASSUME k < Len(Passes) PROVE ProgressInv'
        <3>1. /\ k' = k + 1 /\ buffer' = rewritten[Passes[k + 1]]
              /\ k + 1 \in 1 .. Len(Passes)
            BY <1>3, <2>6, PassesFacts
        <3>2. buffer' = {} /\ Told(Passes[k + 1]) = {}
            BY <1>3, <2>1, <3>1 DEF ProgressInv
        <3>3. File' = Passes[k + 1] /\ Passes[k + 1] \in Files
            BY <3>1, PassesFacts DEF File
        <3>4. buffer' = Told(File)'
            BY <1>1, <3>2, <3>3 DEF Told
        <3>5. ASSUME NEW i \in 1 .. Len(Passes)
              PROVE  /\ i < k + 1 => rewritten'[Passes[i]] = Told(Passes[i])
                     /\ i >= k + 1 => rewritten'[Passes[i]] = {}
                     /\ i > k + 1 => Told(Passes[i]) = {}
            <4>1. CASE i <= k
                BY <1>3, <2>5, <4>1
            <4>2. CASE i > k
                <5>1. i # k /\ i >= k /\ ~(i < k + 1)
                    BY <1>3, <4>2
                <5>2. rewritten'[Passes[i]] = rewritten[Passes[i]]
                    BY <2>4, <5>1
                <5>3. rewritten[Passes[i]] = {} /\ Told(Passes[i]) = {}
                    BY <2>1, <4>2, <5>1 DEF ProgressInv
                <5> QED BY <5>1, <5>2, <5>3
            <4> QED BY <1>3, <4>1, <4>2
        <3>6. \A i \in 1 .. Len(Passes) : Told(Passes[i])' = Told(Passes[i])
            BY <1>1, PassesFacts
        <3> QED BY <3>1, <3>4, <3>5, <3>6 DEF ProgressInv
    <2>7. ASSUME ~(k < Len(Passes))
          PROVE  script' = "fetch" /\ \A f \in Files : rewritten'[f] = Told(f)
        <3>1. \A i \in 1 .. Len(Passes) : i <= k
            BY <1>3, <2>7, PassesFacts
        <3> QED BY <2>5, <2>7, <3>1, PassesFacts
    <2>8. ProgressInv'
        BY <2>6, <2>7 DEF ProgressInv
    <2>9. \A f \in Files : rewritten'[f] \subseteq Told(f)
        <3>1. ASSUME NEW i \in 1 .. Len(Passes)
              PROVE  rewritten'[Passes[i]] \subseteq Told(Passes[i])
            <4>1. CASE i <= k
                BY <2>5, <4>1
            <4>2. CASE i > k
                BY <1>3, <2>1, <2>4, <4>2 DEF ProgressInv
            <4> QED BY <1>3, <4>1, <4>2
        <3> QED BY <3>1, PassesFacts
    <2>10. DistinctProbes(rewritten)'
        <3>1. PICK d : d = rewritten'
            OBVIOUS
        <3>2. DistinctProbes(d)
            BY <2>9, <3>1, ToldDistinct DEF IInv
        <3> QED BY <3>1, <3>2 DEF DistinctProbes
    <2>11. script' # "start" /\ (complete' => \A f \in Files : rewritten'[f] = Told(f))
        BY <2>7 DEF IInv, StageInv
    <2>12. FilesInv'
        BY <1>1, <2>1, <2>9, <2>10, <2>11 DEF FilesInv
    <2> QED BY <2>2, <2>8, <2>12
<1> QED BY <1>2, <1>6, <1>7 DEF CleanInv

(* The log of a tool that died is not shorter than its files are long. *)
LEMMA ToolDiesIInv == IInv /\ ToolDies => LogInv' /\ ToolInv' /\ StageInv' /\ CleanInv'
<1> SUFFICES ASSUME IInv, ToolDies PROVE LogInv' /\ ToolInv' /\ StageInv' /\ CleanInv'
    OBVIOUS
<1> USE DEF ToolDies, dirVars, logVars, histVars
<1>1. Log' = Log /\ Lines' = Lines /\ \A f \in Files : Told(f)' = Told(f)
    BY SameLog
<1>2. LogInv' /\ ToolInv'
    BY <1>1 DEF IInv, LogInv, ToolInv
<1>3. StageInv'
    BY <1>1 DEF IInv, StageInv
<1>4. ASSUME ~retidied PROVE ProgressInv' /\ FilesInv' /\ InstallInv'
    <2>1. FilesInv /\ InstallInv
        BY <1>4 DEF IInv, CleanInv
    <2>2. ProgressInv' /\ InstallInv'
        BY <2>1, PassesFacts DEF ProgressInv, InstallInv, DistinctProbes
    <2>3. Logged' => Logged
        BY DEF Logged, IInv, LogInv, StageInv
    <2>4. FilesInv'
        BY <1>1, <2>1, <2>3 DEF FilesInv, DistinctProbes
    <2> QED BY <2>2, <2>4
<1> QED BY <1>2, <1>3, <1>4 DEF CleanInv

(* Ctrl-C leaves files, log and size as they are. *)
LEMMA InterruptedIInv == IInv /\ Interrupted => LogInv' /\ ToolInv' /\ StageInv' /\ CleanInv'
<1> SUFFICES ASSUME IInv, Interrupted PROVE LogInv' /\ ToolInv' /\ StageInv' /\ CleanInv'
    OBVIOUS
<1> USE DEF Interrupted, dirVars, logVars, histVars
<1>1. Log' = Log /\ Lines' = Lines /\ \A f \in Files : Told(f)' = Told(f)
    BY SameLog
<1>2. LogInv' /\ ToolInv'
    BY <1>1 DEF IInv, LogInv, ToolInv
<1>3. StageInv'
    BY <1>1 DEF IInv, StageInv
<1>4. ASSUME ~retidied PROVE ProgressInv' /\ FilesInv' /\ InstallInv'
    <2>1. FilesInv /\ InstallInv
        BY <1>4 DEF IInv, CleanInv
    <2>2. ProgressInv' /\ InstallInv'
        BY <2>1, PassesFacts DEF ProgressInv, InstallInv, DistinctProbes
    <2>3. Logged' => Logged
        BY DEF Logged, IInv, LogInv, StageInv
    <2>4. FilesInv'
        BY <1>1, <2>1, <2>3 DEF FilesInv, DistinctProbes
    <2> QED BY <2>2, <2>4
<1> QED BY <1>2, <1>3, <1>4 DEF CleanInv

(* Option 3 begins with nothing copied. *)
LEMMA CopyBackIInv == IInv /\ CopyBack => LogInv' /\ ToolInv' /\ StageInv' /\ CleanInv'
<1> SUFFICES ASSUME IInv, CopyBack PROVE LogInv' /\ ToolInv' /\ StageInv' /\ CleanInv'
    OBVIOUS
<1> USE DEF CopyBack, Choose, dirVars, logVars, toolVars
<1>1. Log' = Log /\ Lines' = Lines /\ \A f \in Files : Told(f)' = Told(f)
    BY SameLog
<1>2. LogInv' /\ ToolInv'
    BY <1>1 DEF IInv, LogInv, ToolInv
<1>3. StageInv'
    BY <1>1 DEF IInv, StageInv
<1>4. ASSUME ~retidied PROVE ProgressInv' /\ FilesInv' /\ InstallInv'
    <2>1. FilesInv /\ InstallInv
        BY <1>4 DEF IInv, CleanInv
    <2>2. ProgressInv' /\ InstallInv'
        BY <2>1, PassesFacts DEF ProgressInv, InstallInv, DistinctProbes
    <2>3. Logged' => Logged
        BY DEF Logged, IInv, LogInv, StageInv
    <2>4. FilesInv'
        BY <1>1, <2>1, <2>3 DEF FilesInv, DistinctProbes
    <2> QED BY <2>2, <2>4
<1> QED BY <1>2, <1>3, <1>4 DEF CleanInv

(* The size that is fetched is the length of the log. *)
LEMMA FetchFeatureSizeIInv ==
    IInv /\ FetchFeatureSize => LogInv' /\ ToolInv' /\ StageInv' /\ CleanInv'
<1> SUFFICES ASSUME IInv, FetchFeatureSize
             PROVE  LogInv' /\ ToolInv' /\ StageInv' /\ CleanInv'
    OBVIOUS
<1> USE DEF FetchFeatureSize, dirVars, toolVars, histVars
<1>1. Log' = Log /\ Lines' = Lines /\ \A f \in Files : Told(f)' = Told(f)
    BY SameLog
<1>2. LogInv' /\ ToolInv'
    BY <1>1 DEF IInv, LogInv, ToolInv
<1>3. FeatureSize' = Len(Log)
    <2>1. CASE RewrittenLog = None
        BY <2>1 DEF Log
    <2>2. CASE RewrittenLog # None
        <3>1. RewrittenLog = Log /\ Log # <<>> /\ Log \in Seq(LogLine)
            BY <2>2, LogType DEF Log, IInv, LogInv
        <3>2. Len(Log) \in Lines /\ Len(Log) \in Nat
            BY <3>1 DEF Lines
        <3>3. Log[Len(Log)].id = Len(Log) - 1
            BY <3>2 DEF IInv, LogInv
        <3> QED BY <2>2, <3>1, <3>2, <3>3
    <2> QED BY <2>1, <2>2
<1>4. StageInv'
    BY <1>1, <1>3 DEF IInv, StageInv
<1>5. ASSUME ~retidied PROVE ProgressInv' /\ FilesInv' /\ InstallInv'
    <2>1. FilesInv /\ InstallInv
        BY <1>5 DEF IInv, CleanInv
    <2>2. ProgressInv' /\ InstallInv'
        BY <2>1 DEF ProgressInv, InstallInv, DistinctProbes
    <2>3. Logged
        BY DEF Logged
    <2>4. FilesInv'
        BY <1>1, <2>1, <2>3 DEF FilesInv, DistinctProbes
    <2> QED BY <2>2, <2>4
<1> QED BY <1>2, <1>4, <1>5 DEF CleanInv

(* What was copied is as in RewrittenPasses; after the last file, all is. *)
LEMMA CopyPassBackIInv ==
    IInv /\ CopyPassBack => LogInv' /\ ToolInv' /\ StageInv' /\ CleanInv'
<1> SUFFICES ASSUME IInv, CopyPassBack
             PROVE  LogInv' /\ ToolInv' /\ StageInv' /\ CleanInv'
    OBVIOUS
<1> USE DEF CopyPassBack, logVars, toolVars
<1>1. Log' = Log /\ Lines' = Lines /\ \A f \in Files : Told(f)' = Told(f)
    BY SameLog
<1>2. LogInv' /\ ToolInv'
    BY <1>1 DEF IInv, LogInv, ToolInv
<1>3. StageInv'
    BY <1>1 DEF IInv, StageInv
<1>4. File \in Files /\ source \in Contents /\ k \in 1 .. Len(Passes)
    BY PassesFacts DEF IInv, TypeOK, File
<1>5. /\ source'[File] = rewritten[File]
      /\ \A f \in Files : f # File => source'[f] = source[f]
    BY <1>4 DEF Contents
<1>6. ASSUME ~retidied PROVE ProgressInv' /\ FilesInv' /\ InstallInv'
    <2>1. FilesInv /\ InstallInv /\ rewritten # None
        BY <1>6 DEF IInv, CleanInv, StageInv
    <2>2. \A i \in 1 .. Len(Passes) : i # k => source'[Passes[i]] = source[Passes[i]]
        BY <1>4, <1>5, PassesFacts DEF File
    <2>3. \A i \in 1 .. Len(Passes) : i <= k => source'[Passes[i]] = rewritten[Passes[i]]
        <3>1. ASSUME NEW i \in 1 .. Len(Passes), i <= k
              PROVE  source'[Passes[i]] = rewritten[Passes[i]]
            <4>1. CASE i = k
                BY <1>5, <4>1 DEF File
            <4>2. CASE i < k
                <5>1. source[Passes[i]] = rewritten[Passes[i]]
                    BY <2>1, <4>2 DEF InstallInv
                <5> QED BY <1>4, <2>2, <4>2, <5>1
            <4> QED BY <1>4, <3>1, <4>1, <4>2
        <3> QED BY <3>1
    <2>4. ASSUME k < Len(Passes) PROVE InstallInv'
        <3>1. k' = k + 1 /\ installed' = "part"
            BY <2>4 DEF IInv, StageInv
        <3>2. \A i \in 1 .. Len(Passes) : i < k + 1 => source'[Passes[i]] = rewritten[Passes[i]]
            BY <1>4, <2>3
        <3>3. rewritten' = rewritten /\ installed' # "whole"
            BY <3>1
        <3> HIDE DEF CopyPassBack
        <3> QED BY <3>1, <3>2, <3>3 DEF InstallInv
    <2>5. ASSUME ~(k < Len(Passes)) PROVE InstallInv'
        <3>1. \A i \in 1 .. Len(Passes) : i <= k
            BY <1>4, <2>5, PassesFacts
        <3>2. \A f \in Files : source'[f] = rewritten[f]
            BY <2>3, <3>1, PassesFacts
        <3>3. DistinctProbes(rewritten)
            BY <2>1 DEF FilesInv
        <3>4. DistinctProbes(source)'
            BY <3>2, <3>3 DEF DistinctProbes
        <3>5. script' # "copyBack"
            BY <2>5
        <3> HIDE DEF CopyPassBack
        <3> QED BY <3>4, <3>5 DEF InstallInv
    <2>6. ProgressInv'
        BY DEF ProgressInv
    <2>7. Logged' => Logged
        BY DEF Logged, IInv, LogInv
    <2>8. FilesInv'
        BY <1>1, <2>1, <2>7 DEF FilesInv, DistinctProbes
    <2> QED BY <2>4, <2>5, <2>6, <2>8
<1> QED BY <1>2, <1>3, <1>6 DEF CleanInv

-------------------------------------------------------------------------------
(* An entry of a directory that is exchanged leaves it a directory. *)
LEMMA ContentsExcept ==
    ASSUME NEW dir \in Contents, NEW f \in Files, NEW s \in SUBSET Probe
    PROVE  [dir EXCEPT ![f] = s] \in Contents
BY DEF Contents

(* A callback keeps the types. *)
LEMMA CallbackType == IInv /\ Traversing /\ Callback(Places[pos]) => TypeOK'
<1> SUFFICES ASSUME IInv, Traversing, Callback(Places[pos]) PROVE TypeOK'
    OBVIOUS
<1> USE DEF dirVars, histVars
<1>1. PICK m : m = Places[pos]
    OBVIOUS
<1>2. TypeOK /\ Callback(m) /\ IsPlace(m) /\ File \in Files
    BY <1>1, PlaceFacts DEF IInv
<1>3. /\ UNCHANGED <<source, tidied, rewritten, fixed, FeatureSize, script, k, runs,
                     complete, retidied, installed>>
      /\ pos' = pos + 1
    BY <1>2 DEF Callback
<1>4. CASE ~Wanted(m)
    <2>1. UNCHANGED <<buffer, RewriteMap, RewrittenLog, InsertIndexId>>
        BY <1>2, <1>4 DEF Callback
    <2> QED BY <1>2, <1>3, <2>1 DEF TypeOK
<1>5. CASE Wanted(m)
    <2>1. PICK l \in Nat : l = m.line
        BY <1>2 DEF IsPlace
    <2>2. PICK f \in Files : f = File /\ f = m.file
        BY <1>2, <1>5 DEF Wanted, isInMainFile
    <2>3. InsertApi(m)
        BY <1>2, <1>5 DEF Callback
    <2>4. /\ buffer' = buffer \cup {[line |-> l, id |-> InsertIndexId]}
          /\ RewriteMap' = RewriteMap \cup {<<f, l>>}
          /\ InsertIndexId' = InsertIndexId + 1
          /\ RewrittenLog' = Append(Log, [file |-> f, line |-> l, id |-> InsertIndexId])
        BY <2>1, <2>2, <2>3
        DEF InsertApi, InsertText, RecordMatchedLoc, Key, isInMainFile, Log
    <2>5. RewrittenLog' \in Seq(LogLine)
        BY <1>2, <2>4, LogGrows
    <2>6. [line |-> l, id |-> InsertIndexId] \in Probe
        BY <1>2 DEF TypeOK, Probe
    <2>7. /\ buffer' \in SUBSET Probe /\ RewriteMap' \in SUBSET (Files \X Nat)
          /\ InsertIndexId' \in Nat
        BY <1>2, <2>4, <2>6 DEF TypeOK
    <2> QED BY <1>2, <1>3, <2>5, <2>7 DEF TypeOK
<1> QED BY <1>4, <1>5

(* Every step keeps the types. *)
LEMMA NextType == IInv /\ [Next]_vars => TypeOK'
<1> SUFFICES ASSUME IInv, [Next]_vars PROVE TypeOK'
    OBVIOUS
<1>0. TypeOK /\ LogInv /\ StageInv /\ File \in Files
    BY PassesFacts DEF IInv, TypeOK, File
<1>1. CASE Tidy
    <2>1. retidied' \in BOOLEAN
        BY <1>0, <1>1 DEF Tidy, TypeOK
    <2>2. tidied' \in Contents \cup {None} /\ runs' \in Nat /\ fixed' = FALSE
        BY <1>0, <1>1 DEF Tidy, TypeOK, Choose
    <2>3. UNCHANGED <<source, rewritten, logVars, script, k, toolVars, complete, installed>>
        BY <1>1 DEF Tidy
    <2> QED BY <1>0, <2>1, <2>2, <2>3 DEF TypeOK, logVars, toolVars
<1>2. CASE Fix
    BY <1>0, <1>2 DEF Fix, TypeOK, logVars, toolVars, histVars
<1>3. CASE ClearLog
    <2>1. /\ RewrittenLog' = None /\ FeatureSize' = None /\ script' = "copy"
          /\ complete' = FALSE /\ runs' = runs + 1
          /\ UNCHANGED <<dirVars, k, toolVars, retidied, installed>>
        BY <1>3 DEF ClearLog, Choose
    <2>2. /\ complete' \in BOOLEAN /\ retidied' \in BOOLEAN /\ fixed' \in BOOLEAN
        BY <1>0, <2>1 DEF TypeOK, dirVars
    <2>3. /\ FeatureSize' \in Nat \cup {None} /\ runs' \in Nat
          /\ InsertIndexId' \in Nat /\ RewriteMap' \in SUBSET (Files \X Nat)
          /\ buffer' \in SUBSET Probe /\ pos' \in Nat \ {0}
          /\ k' \in 1 .. Len(Passes)
        BY <1>0, <2>1 DEF TypeOK, toolVars
    <2>4. /\ source' \in Contents /\ tidied' \in Contents \cup {None}
          /\ rewritten' \in Contents \cup {None}
          /\ installed' \in {"none", "part", "whole"}
        BY <1>0, <2>1 DEF TypeOK, dirVars
    <2> QED BY <2>1, <2>2, <2>3, <2>4 DEF TypeOK
<1>4. CASE CopyTidied
    BY <1>0, <1>4 DEF CopyTidied, TypeOK, logVars, toolVars, histVars
<1>5. CASE Start
    <2>1. rewritten \in Contents /\ 1 \in 1 .. Len(Passes) /\ Passes[1] \in Files
        BY <1>0, <1>5, PassesFacts DEF Start, TypeOK, StageInv
    <2>2. buffer' \in SUBSET Probe
        BY <1>5, <2>1 DEF Start, Contents
    <2> QED BY <1>0, <1>5, <2>1, <2>2 DEF Start, TypeOK, dirVars, logVars, histVars
<1>6. CASE InsertApiInCompStmt \/ InsertApiInSingleStmt \/ ReplaceApiAfterMark
    BY <1>6, CallbackType DEF InsertApiInCompStmt, InsertApiInSingleStmt, ReplaceApiAfterMark
<1>7. CASE EndSourceFileAction
    <2>1. rewritten \in Contents /\ buffer \in SUBSET Probe
        BY <1>0, <1>7 DEF EndSourceFileAction, TypeOK, StageInv
    <2>2. rewritten' \in Contents
        BY <1>0, <1>7, <2>1, ContentsExcept DEF EndSourceFileAction
    <2>3. /\ k' \in 1 .. Len(Passes) /\ buffer' \in SUBSET Probe
          /\ script' \in {"tool", "fetch"} /\ complete' \in BOOLEAN
        <3>1. CASE k < Len(Passes)
            <4>1. k + 1 \in 1 .. Len(Passes) /\ Passes[k + 1] \in Files
                BY <1>0, <3>1, PassesFacts DEF TypeOK
            <4>2. rewritten[Passes[k + 1]] \in SUBSET Probe
                BY <2>1, <4>1 DEF Contents
            <4> QED BY <1>0, <1>7, <3>1, <4>1, <4>2 DEF EndSourceFileAction, TypeOK
        <3>2. CASE ~(k < Len(Passes))
            BY <1>7, <3>2, PassesFacts DEF EndSourceFileAction
        <3> QED BY <3>1, <3>2
    <2> QED BY <1>0, <1>7, <2>2, <2>3 DEF EndSourceFileAction, TypeOK, logVars
<1>8. CASE ToolDies
    BY <1>0, <1>8, PassesFacts DEF ToolDies, TypeOK, dirVars, logVars, histVars
<1>9. CASE FetchFeatureSize
    <2>1. FeatureSize' \in Nat
        <3>1. CASE RewrittenLog = None
            BY <1>9, <3>1 DEF FetchFeatureSize
        <3>2. CASE RewrittenLog # None
            <4>1. RewrittenLog \in Seq(LogLine) /\ RewrittenLog # <<>>
                BY <1>0, <3>2 DEF TypeOK, LogInv
            <4>2. RewrittenLog[Len(RewrittenLog)] \in LogLine
                BY <4>1
            <4> QED BY <1>9, <3>2, <4>2 DEF FetchFeatureSize, LogLine
        <3> QED BY <3>1, <3>2
    <2> QED BY <1>0, <1>9, <2>1 DEF FetchFeatureSize, TypeOK, dirVars, toolVars, histVars
<1>10. CASE CopyBack
    BY <1>0, <1>10, PassesFacts DEF CopyBack, TypeOK, Choose, dirVars, logVars, toolVars
<1>11. CASE CopyPassBack
    <2>1. rewritten \in Contents /\ source \in Contents
        BY <1>0, <1>11 DEF CopyPassBack, TypeOK, StageInv
    <2>2. rewritten[File] \in SUBSET Probe
        BY <1>0, <2>1 DEF Contents
    <2>3. source' \in Contents
        BY <1>0, <1>11, <2>1, <2>2, ContentsExcept DEF CopyPassBack
    <2>4. /\ k' \in 1 .. Len(Passes) /\ script' \in {"copyBack", "idle"}
          /\ installed' \in {"none", "part", "whole"}
        <3>1. CASE k < Len(Passes)
            BY <1>0, <1>11, <3>1, PassesFacts DEF CopyPassBack, TypeOK
        <3>2. CASE ~(k < Len(Passes))
            BY <1>11, <3>2, PassesFacts DEF CopyPassBack
        <3> QED BY <3>1, <3>2
    <2> QED BY <1>0, <1>11, <2>3, <2>4 DEF CopyPassBack, TypeOK, logVars, toolVars
<1>12. CASE Interrupted
    BY <1>0, <1>12, PassesFacts DEF Interrupted, TypeOK, dirVars, logVars, histVars
<1>13. CASE UNCHANGED vars
    BY <1>0, <1>13 DEF vars, TypeOK
<1> QED BY <1>1, <1>2, <1>3, <1>4, <1>5, <1>6, <1>7, <1>8, <1>9, <1>10, <1>11, <1>12, <1>13
        DEF Next, Tool

(* Every step keeps the invariant. *)
LEMMA NextIInv == IInv /\ [Next]_vars => IInv'
<1> SUFFICES ASSUME IInv, [Next]_vars PROVE LogInv' /\ ToolInv' /\ StageInv' /\ CleanInv'
    BY NextType DEF IInv
<1>1. CASE InsertApiInCompStmt \/ InsertApiInSingleStmt \/ ReplaceApiAfterMark
    BY <1>1, CallbackIInv DEF InsertApiInCompStmt, InsertApiInSingleStmt, ReplaceApiAfterMark
<1>2. CASE UNCHANGED vars
    <2> USE <1>2 DEF vars
    <2>1. Log' = Log /\ Lines' = Lines /\ \A f \in Files : Told(f)' = Told(f)
        BY SameLog
    <2>2. File' = File /\ Told(File)' = Told(File) /\ Logged' = Logged
        BY DEF File, Told, Log, Lines, Logged
    <2>3. LogInv' /\ ToolInv' /\ StageInv'
        BY <2>1 DEF IInv, LogInv, ToolInv, StageInv
    <2>4. ASSUME ~retidied PROVE ProgressInv' /\ FilesInv' /\ InstallInv'
        <3>1. ProgressInv /\ FilesInv /\ InstallInv
            BY <2>4 DEF IInv, CleanInv
        <3>2. ProgressInv'
            BY <2>1, <2>2, <3>1, PassesFacts DEF ProgressInv
        <3>3. FilesInv'
            BY <2>1, <2>2, <3>1 DEF FilesInv, DistinctProbes
        <3>4. InstallInv'
            BY <3>1 DEF InstallInv, DistinctProbes
        <3> QED BY <3>2, <3>3, <3>4
    <2> QED BY <2>3, <2>4 DEF CleanInv
<1> QED BY <1>1, <1>2, TidyIInv, FixIInv, ClearLogIInv, CopyTidiedIInv, StartIInv,
           EndSourceFileIInv, ToolDiesIInv, FetchFeatureSizeIInv, CopyBackIInv,
           CopyPassBackIInv, InterruptedIInv
        DEF Next, Tool

(* The invariant holds always. *)
LEMMA Invariance == Spec => []IInv
BY InitIInv, NextIInv, PTL DEF Spec

-------------------------------------------------------------------------------
(* Type correctness of PassRewriter.tla, for any passes and places. *)
THEOREM TypeCorrect == Spec => []TypeOK
<1>1. IInv => TypeOK
    BY DEF IInv
<1> QED BY <1>1, Invariance, PTL

(***************************************************************************)
(* Whatever order the options of ScriptDriver.sh are chosen in and broken  *)
(* off, on passes that were not instrumented no index is inserted twice    *)
(* and no line has two probes.                                             *)
(***************************************************************************)
THEOREM ProbesAreDistinct == Spec => []ProbesDistinct
<1>1. IInv => ProbesDistinct
    BY DEF IInv, CleanInv, FilesInv, InstallInv, ProbesDistinct
<1> QED BY <1>1, Invariance, PTL

(***************************************************************************)
(* RecordMatchedLoc and the edit buffers agree: every probe of a saved     *)
(* file is in RewrittenLog, also after PassRewriter died between files.    *)
(***************************************************************************)
THEOREM LogIsTrue == Spec => []LogTellsProbes
<1>1. ASSUME IInv PROVE LogTellsProbes
    <2> SUFFICES ASSUME ~retidied, rewritten # None, RewrittenLog # None,
                        NEW f \in Files, NEW a \in rewritten[f]
                 PROVE  \E i \in 1 .. Len(RewrittenLog) :
                            RewrittenLog[i] = [file |-> f, line |-> a.line, id |-> a.id]
        BY DEF LogTellsProbes
    <2>1. Log = RewrittenLog
        BY DEF Log
    <2>2. a \in Told(f)
        BY <1>1 DEF IInv, CleanInv, FilesInv, Logged
    <2>3. PICK i \in Lines : /\ Log[i].file = f
                             /\ a = [line |-> Log[i].line, id |-> Log[i].id]
        BY <2>2 DEF Told
    <2>4. Log[i] \in LogLine
        BY <1>1, LogType DEF IInv
    <2>5. Log[i] = [file |-> f, line |-> a.line, id |-> a.id]
        BY <2>3, <2>4 DEF LogLine
    <2> QED BY <2>1, <2>3, <2>5 DEF Lines
<1> QED BY <1>1, Invariance, PTL

(* A log's indices are the numbers below its length. *)
LEMMA IdsAreBelow ==
    ASSUME TypeOK, LogInv
    PROVE  UNION {{a.id : a \in Told(f)} : f \in Files} = 0 .. Len(Log) - 1
<1>1. Len(Log) \in Nat /\ \A i \in Lines : Log[i] \in LogLine /\ Log[i].id = i - 1
    BY LogType DEF LogInv
<1>2. ASSUME NEW f \in Files, NEW a \in Told(f) PROVE a.id \in 0 .. Len(Log) - 1
    <2>1. PICK i \in Lines : a = [line |-> Log[i].line, id |-> Log[i].id]
        BY DEF Told
    <2>2. a.id = i - 1
        BY <1>1, <2>1
    <2> QED BY <1>1, <2>2 DEF Lines
<1>3. ASSUME NEW n \in 0 .. Len(Log) - 1
      PROVE  \E f \in Files : \E a \in Told(f) : n = a.id
    <2>1. n + 1 \in Lines
        BY <1>1 DEF Lines
    <2>2. Log[n + 1] \in LogLine /\ Log[n + 1].id = n
        BY <1>1, <2>1
    <2>3. Log[n + 1].file \in Files
        BY <2>2 DEF LogLine
    <2>4. [line |-> Log[n + 1].line, id |-> Log[n + 1].id] \in Told(Log[n + 1].file)
        BY <2>1 DEF Told
    <2> QED BY <2>2, <2>3, <2>4
<1> QED BY <1>2, <1>3

(***************************************************************************)
(* FetchFeatureSize.sh's number is above every index that is in a pass,    *)
(* and the number of probes if PassRewriter went through all files.        *)
(***************************************************************************)
THEOREM SizeIsFit == Spec => []SizeFits
<1>1. ASSUME IInv PROVE SizeFits
    <2> SUFFICES ASSUME ~retidied, FeatureSize # None
                 PROVE  LET ids == UNION {{a.id : a \in rewritten[f]} : f \in Files} IN
                        /\ \A id \in ids : id < FeatureSize
                        /\ complete => FeatureSize = Cardinality(ids)
        BY DEF SizeFits
    <2> DEFINE ids == UNION {{a.id : a \in rewritten[f]} : f \in Files}
    <2>1. TypeOK /\ LogInv /\ FeatureSize = Len(Log) /\ rewritten # None /\ FilesInv
        BY <1>1 DEF IInv, StageInv, CleanInv
    <2>2. UNION {{a.id : a \in Told(f)} : f \in Files} = 0 .. Len(Log) - 1
        BY <2>1, IdsAreBelow
    <2>3. Len(Log) \in Nat
        BY <2>1, LogType
    <2>4. \A f \in Files : rewritten[f] \subseteq Told(f)
        BY <2>1 DEF FilesInv, Logged
    <2>5. ids \subseteq 0 .. Len(Log) - 1
        BY <2>2, <2>4
    <2>6. \A id \in ids : id < FeatureSize
        <3> SUFFICES ASSUME NEW id \in ids PROVE id < FeatureSize
            OBVIOUS
        <3>1. id \in 0 .. Len(Log) - 1
            BY <2>5
        <3> QED BY <2>1, <2>3, <3>1
    <2>7. ASSUME complete PROVE FeatureSize = Cardinality(ids)
        <3>1. \A f \in Files : rewritten[f] = Told(f)
            BY <2>1, <2>7 DEF FilesInv
        <3>2. ids = 0 .. Len(Log) - 1
            BY <2>2, <3>1
        <3>3. Cardinality(0 .. Len(Log) - 1) = Len(Log)
            <4>1. Len(Log) - 1 \in Int /\ 0 \in Int
                BY <2>3
            <4>2. Cardinality(0 .. Len(Log) - 1)
                    = IF 0 > Len(Log) - 1 THEN 0 ELSE (Len(Log) - 1) - 0 + 1
                BY <4>1, FS_Interval
            <4> QED BY <2>3, <4>2
        <3> QED BY <2>1, <3>2, <3>3
    <2> QED BY <2>6, <2>7
<1> QED BY <1>1, Invariance, PTL

===============================================================================
