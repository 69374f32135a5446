---------------------------- MODULE LitRound_proofs ----------------------------
(***************************************************************************)
(* Proofs about LitRound.tla, for any tests, directories, pass sets, lists *)
(* and rounds: one log for a round, each test once, records under the      *)
(* passes of the build, and none of a benchmark that failed.               *)
(***************************************************************************)
EXTENDS LitRound, WellFoundedInduction, SequenceTheorems, TLAPS

RootAt(t) == rootOf[dirOf[t]]
Now == {round} \X (Procs \cup {Daemon})

(* Which mode is where, and what k counts. *)
PhaseInv ==
    /\ pc \in {"build", "sanity", "retry", "remove"} => ~FunctionLevel /\ k \in DOMAIN Roots
    /\ pc \in {"info", "make", "check"} => FunctionLevel /\ k \in DOMAIN Profiled
    /\ pc \in {"cmake", "sanity", "retry", "remove"} => Rebuild
    /\ pc = "remove" => AllBuilt

(* The driver's LogService: what it has seen of TimeStamp is still so. *)
DriverInv ==
    /\ lpc[Driver] \in {"look", "read", "create", "write"} =>
           pc \in {"cmake", "log", "mail", "lastMail"}
    /\ pc \notin {"begin", "mailFailed"} =>
           /\ lpc[Driver] # "none"
           /\ lpc[Driver] = "look" => stamp \in Now \cup {None}
           /\ lpc[Driver] = "create" => stamp = None
           /\ lpc[Driver] = "write" => stamp = Empty
           /\ lpc[Driver] = "read" => stamp \in Now
           /\ lpc[Driver] = "done" => stamp \in Now /\ time[Driver] = stamp
    /\ pc = "mail" => stamp \in Now /\ time[Driver] = stamp

(* The workers find TimeStamp as the driver left it, and do not create it. *)
WorkerInv ==
    \A w \in Workers :
        /\ w > SplitCount => lpc[w] = "none"
        /\ pc # "run" => lpc[w] \in {"none", "done"}
        /\ pc = "run" => lpc[w] \in {"none", "look", "read", "done"}
        /\ pc \in {"run", "mail"} /\ w <= SplitCount /\ lpc[w] = "done" => time[w] = stamp

(* What is logged in a round is logged under its time. *)
LogInv ==
    pc \notin {"begin", "lastMail", "over", "mailFailed"} =>
        \A r \in records \cup funcSet : stamp \in Now /\ r.time = stamp

(* Nothing is built before the build, and only what a root is built for. *)
FreshInv ==
    /\ pc \in {"cmake", "log"} /\ Rebuild => \A t \in Tests : elf[t] = "none"
    /\ pc \in {"cmake", "log", "build"} /\ Rebuild => actors = {}
    /\ pc = "build" /\ Rebuild =>
           \A t \in Tests : elf[t] # "none" => \E j \in 1 .. k - 1 : RootAt(t) = Roots[j]

(***************************************************************************)
(* What is built was built with the pass set of InputSetAll, or, with a    *)
(* set for each function, with none.                                       *)
(***************************************************************************)
BuiltInv ==
    pc # "begin" => \A t \in Tests : elf[t] # "none" =>
        /\ BenchmarkLevel => built[t] = inputSetAll[RootAt(t)]
        /\ FunctionLevel => built[t] = None

(* A PyActor stands for an elf, and records in a directory that stays. *)
ActorInv ==
    /\ \A t \in actors : elf[t] # "none" /\ (dirOf[t] \in Skipped => FunctionLevel)
    /\ \A r \in records :
           elf[r.test] # "none" /\ (dirOf[r.test] \in Skipped => FunctionLevel)

(* The daemon is told of a benchmark before it is built. *)
InfoInv == pc = "make" => info = Profiled[k]

(* The tests of the roots that lit has been run on. *)
Checked ==
    {t \in Tests : \E j \in DOMAIN Roots : /\ RootAt(t) = Roots[j]
                                           /\ \/ j < k
                                              \/ j = k /\ pc \in {"retry", "remove"}}

(* A failed test is known as failed, until its .test file is removed. *)
FailedInv ==
    /\ pc \in {"sanity", "retry", "remove"} =>
           \A t \in desc \cap Checked : elf[t] = "bad" => t \in failed
    /\ pc \in {"cmake", "log"} => failed = {}
    /\ pc \in {"info", "make", "check"} => \A t \in failed : elf[t] = "bad"
    /\ pc \notin {"sanity", "retry", "remove", "crashed"} =>
           \A t \in desc \cap actors : elf[t] = "good" /\ t \notin failed
    /\ pc \notin {"run", "mail", "begin", "lastMail", "over", "mailFailed"} =>
           \A r \in records : r.by = "sanity"

(* A NOEXE line to be dealt with is in the log. *)
TodoInv == pc = "retry" => \A t \in Tests : todo[t] <= noexe[t]

(* No test is in the list twice. *)
Once(l) == \A i, j \in DOMAIN l : l[i] = l[j] /\ l[i] # None => i = j

ListInv ==
    /\ Once(list)
    /\ pc \in {"cmake", "log", "build"} /\ Rebuild => list = <<>>
    /\ pc \in {"sanity", "retry"} =>
           \A i \in DOMAIN list : list[i] \in Tests /\ \E j \in 1 .. k - 1 : RootAt(list[i]) = Roots[j]
    /\ pc \in {"info", "make", "check"} =>
           \A i \in DOMAIN list : list[i] # None => \E j \in 1 .. k - 1 : list[i] = Profiled[j]

(* The parts of the list that are still to be run, and what has been run. *)
PartsInv ==
    /\ pc \notin {"run", "mail", "begin", "lastMail", "over", "mailFailed"} =>
           \A t \in Tests : ran[t] = 0
    /\ pc = "run" =>
           /\ \A w \in Workers : w > SplitCount => lists[w] = {}
           /\ \A v, w \in Workers : v # w => lists[v] \cap lists[w] = {}
           /\ \A t \in Tests :
                  IF t \in Range(list) /\ \A w \in Workers : t \notin lists[w]
                  THEN ran[t] = 1 ELSE ran[t] = 0
           /\ \A w \in Workers : lists[w] \subseteq Range(list)

(* The inductive invariant. *)
IInv ==
    /\ TypeOK /\ PhaseInv /\ DriverInv /\ WorkerInv /\ LogInv /\ FreshInv /\ BuiltInv
    /\ ActorInv /\ InfoInv /\ FailedInv /\ TodoInv /\ ListInv /\ PartsInv
    /\ LabelIsBuild /\ RecordedPassed /\ EachTestOnce

-------------------------------------------------------------------------------
(* Induction, and what the loops over lists return *)

(* A set of numbers that is not empty has a least one. *)
LEMMA LeastNatural ==
    ASSUME NEW T \in SUBSET Nat, T # {}
    PROVE  \E m \in T : \A n \in T : m <= n
<1> DEFINE R == OpToRel(<, Nat)
<1>1. IsWellFoundedOn(R, Nat)
    BY NatLessThanWellFounded
<1>2. \A m, n \in Nat : <<n, m>> \in R <=> n < m
    BY DEF OpToRel
<1> HIDE DEF R
<1>3. T \subseteq Nat
    OBVIOUS
<1>4. PICK m \in T : \A n \in T : <<n, m>> \notin R
    BY <1>1, <1>3, WFMin
<1>5. ASSUME NEW n \in T PROVE m <= n
    <2>1. m \in Nat /\ n \in Nat
        BY <1>3
    <2>2. ~(n < m)
        BY <1>2, <1>4, <2>1, Zenon
    <2> QED BY <2>1, <2>2
<1> QED BY <1>5

(* Induction, for the numbers of a set: the property is that set. *)
LEMMA NaturalInduction ==
    ASSUME NEW S, 0 \in S, \A n \in Nat : n \in S => n + 1 \in S
    PROVE  \A n \in Nat : n \in S
<1> SUFFICES ASSUME {n \in Nat : n \notin S} # {} PROVE FALSE
    OBVIOUS
<1>1. PICK m \in {n \in Nat : n \notin S} : \A n \in {i \in Nat : i \notin S} : m <= n
    BY LeastNatural
<1>2. m # 0 /\ m - 1 \in Nat
    BY <1>1
<1>3. m - 1 \in S
    BY <1>1, <1>2
<1> QED BY <1>1, <1>2, <1>3

(* The equation of the loop in Chosen, up to the place n. *)
LoopStep(l, I, q, i) ==
    IF i = 0 THEN <<>> ELSE IF i \in I THEN Append(q[i - 1], l[i]) ELSE q[i - 1]
Loop(l, I, n, q) == q = [i \in 0 .. n |-> LoopStep(l, I, q, i)]

(* The loop can go on to every place, so the equation has a solution. *)
LEMMA LoopEnds ==
    ASSUME NEW l, NEW I
    PROVE  \A n \in Nat : \E q : Loop(l, I, n, q)
<1> DEFINE S == {m \in Nat : \E q : Loop(l, I, m, q)}
<1>1. 0 \in S
    <2>1. Loop(l, I, 0, [i \in 0 .. 0 |-> <<>>])
        BY DEF Loop, LoopStep
    <2> QED BY <2>1
<1>2. ASSUME NEW m \in Nat, m \in S PROVE m + 1 \in S
    <2>1. PICK q : Loop(l, I, m, q)
        BY <1>2
    <2> DEFINE r == [i \in 0 .. m + 1 |-> IF i = m + 1 THEN LoopStep(l, I, q, i) ELSE q[i]]
    <2>2. \A i \in 0 .. m : r[i] = q[i] /\ q[i] = LoopStep(l, I, q, i)
        BY <2>1 DEF Loop
    <2>3. \A i \in 0 .. m + 1 : LoopStep(l, I, r, i) = LoopStep(l, I, q, i)
        <3> HIDE DEF r
        <3> QED BY <2>2 DEF LoopStep
    <2>4. \A i \in 0 .. m + 1 : r[i] = LoopStep(l, I, r, i)
        <3>1. r[m + 1] = LoopStep(l, I, q, m + 1)
            OBVIOUS
        <3> HIDE DEF r
        <3>2. \A i \in 0 .. m + 1 : i \in 0 .. m \/ i = m + 1
            OBVIOUS
        <3> QED BY <2>2, <2>3, <3>1, <3>2
    <2>5. r = [i \in 0 .. m + 1 |-> r[i]]
        OBVIOUS
    <2> HIDE DEF r
    <2>6. Loop(l, I, m + 1, r)
        BY <2>4, <2>5 DEF Loop
    <2> QED BY <2>6
<1> HIDE DEF S
<1>3. \A n \in Nat : n \in S
    BY <1>1, <1>2, NaturalInduction
<1> QED BY <1>3 DEF S

(* Chosen is where its loop ends. *)
LEMMA ChosenIsLoop ==
    ASSUME NEW S, NEW l \in Seq(S), NEW I
    PROVE  \E q : Loop(l, I, Len(l), q) /\ Chosen(l, I) = q[Len(l)]
<1> DEFINE p == CHOOSE q : Loop(l, I, Len(l), q)
<1>1. Chosen(l, I) = p[Len(l)]
    BY DEF Chosen, Loop, LoopStep
<1>2. Len(l) \in Nat
    OBVIOUS
<1>3. Loop(l, I, Len(l), p)
    BY <1>2, LoopEnds, Zenon
<1> QED BY <1>1, <1>3

(***************************************************************************)
(* Chosen returns what the places I hold, and no test twice if l has none  *)
(* twice.                                                                  *)
(***************************************************************************)
LEMMA ChosenProperties ==
    ASSUME NEW S, NEW l \in Seq(S), NEW I
    PROVE  /\ Chosen(l, I) \in Seq(S)
           /\ Range(Chosen(l, I)) = {l[j] : j \in I \cap DOMAIN l}
           /\ Once(l) => Once(Chosen(l, I))
<1> DEFINE n == Len(l)
           Held(i) == {l[j] : j \in I \cap (1 .. i)}
<1>1. PICK q : Loop(l, I, n, q) /\ Chosen(l, I) = q[n]
    BY ChosenIsLoop
<1> DEFINE Good(i) == /\ q[i] \in Seq(S)
                      /\ \A x : x \in Range(q[i]) <=> x \in Held(i)
                      /\ Once(l) => Once(q[i])
           T == {i \in Nat : i <= n => Good(i)}
<1>2. n \in Nat /\ DOMAIN l = 1 .. n /\ \A i \in 1 .. n : l[i] \in S
    OBVIOUS
<1> HIDE DEF n
<1>3. \A i \in 0 .. n : q[i] = LoopStep(l, I, q, i)
    BY <1>1, <1>2 DEF Loop
<1>4. 0 \in T
    <2>1. q[0] = <<>>
        BY <1>2, <1>3 DEF LoopStep
    <2>2. Held(0) = {} /\ Range(<<>>) = {} /\ Once(<<>>)
        BY DEF Range, Once
    <2>3. q[0] \in Seq(S)
        BY <2>1
    <2>4. Good(0)
        BY <2>1, <2>2, <2>3
    <2> QED BY <2>4
<1>5. ASSUME NEW i \in Nat, i \in T, i + 1 <= n PROVE Good(i + 1)
    <2>1. Good(i)
        BY <1>2, <1>5
    <2>2. i + 1 \in 1 .. n /\ l[i + 1] \in S
        BY <1>2, <1>5
    <2>3. q[i + 1] = IF i + 1 \in I THEN Append(q[i], l[i + 1]) ELSE q[i]
        BY <1>2, <1>3, <2>2 DEF LoopStep
    <2>4. CASE i + 1 \notin I
        <3>1. Held(i + 1) = Held(i)
            BY <2>4
        <3> QED BY <2>1, <2>3, <2>4, <3>1
    <2>5. CASE i + 1 \in I
        <3> DEFINE s == q[i]
                   r == Append(s, l[i + 1])
        <3>1. s \in Seq(S) /\ r \in Seq(S) /\ q[i + 1] = r
            BY <2>1, <2>2, <2>3, <2>5
        <3> HIDE DEF s
        <3>2. /\ Len(s) \in Nat /\ DOMAIN s = 1 .. Len(s) /\ DOMAIN r = 1 .. Len(s) + 1
              /\ \A a \in 1 .. Len(s) : r[a] = s[a]
              /\ r[Len(s) + 1] = l[i + 1]
            BY <3>1, <2>2
        <3> HIDE DEF r
        <3>3. Range(r) = Range(s) \cup {l[i + 1]}
            BY <3>2 DEF Range
        <3>4. Held(i + 1) = Held(i) \cup {l[i + 1]}
            <4>1. I \cap (1 .. i + 1) = (I \cap (1 .. i)) \cup {i + 1}
                BY <2>5
            <4> QED BY <4>1
        <3>5. \A x : x \in Range(s) <=> x \in Held(i)
            BY <2>1 DEF s
        <3>6. ASSUME Once(l) PROVE Once(r)
            <4>1. Once(s)
                BY <2>1, <3>6 DEF s
            <4>2. ASSUME NEW a \in 1 .. Len(s), s[a] = l[i + 1] PROVE l[i + 1] = None
                <5>1. PICK j \in I \cap (1 .. i) : s[a] = l[j]
                    BY <3>2, <3>5 DEF Range
                <5>2. j \in DOMAIN l /\ i + 1 \in DOMAIN l /\ j # i + 1
                    BY <1>2, <2>2, <5>1
                <5> QED BY <3>6, <4>2, <5>1, <5>2 DEF Once
            <4> QED BY <3>2, <4>1, <4>2 DEF Once
        <3>7. \A x : x \in Range(r) <=> x \in Held(i + 1)
            BY <3>3, <3>4, <3>5
        <3> QED BY <3>1, <3>6, <3>7
    <2> QED BY <2>4, <2>5
<1>6. \A i \in Nat : i \in T => i + 1 \in T
    <2> HIDE DEF Good
    <2> QED BY <1>5
<1>7. n \in T
    <2> HIDE DEF T
    <2> QED BY <1>2, <1>4, <1>6, NaturalInduction
<1>8. Good(n)
    BY <1>2, <1>7
<1>9. Held(n) = {l[j] : j \in I \cap DOMAIN l}
    BY <1>2
<1> QED BY <1>1, <1>8, <1>9

(* A part of a list, and a list in another order. *)
LEMMA RemovedProperties ==
    ASSUME NEW S, NEW l \in Seq(S), NEW F
    PROVE  /\ RemoveInLoop(l, F) \in Seq(S)
           /\ Range(RemoveInLoop(l, F)) \subseteq Range(l)
           /\ Once(l) => Once(RemoveInLoop(l, F))
<1>1. PICK I : RemoveInLoop(l, F) = Chosen(l, I)
    BY DEF RemoveInLoop
<1>2. {l[j] : j \in I \cap DOMAIN l} \subseteq Range(l)
    BY DEF Range
<1> QED BY <1>1, <1>2, ChosenProperties

(* PickTests takes tests of the list, and none twice. *)
LEMMA PickedProperties ==
    ASSUME NEW S, NEW l \in Seq(S)
    PROVE  /\ PickTests(l) \in Seq(S)
           /\ Range(PickTests(l)) \subseteq Range(l)
           /\ Once(l) => Once(PickTests(l))
<1>1. PickTests(l) = l \/ \E I : PickTests(l) = Chosen(l, I)
    BY DEF PickTests
<1>2. CASE PickTests(l) = l
    BY <1>2
<1>3. ASSUME NEW I, PickTests(l) = Chosen(l, I)
      PROVE  /\ PickTests(l) \in Seq(S)
             /\ Range(PickTests(l)) \subseteq Range(l)
             /\ Once(l) => Once(PickTests(l))
    <2>1. {l[j] : j \in I \cap DOMAIN l} \subseteq Range(l)
        BY DEF Range
    <2> QED BY <1>3, <2>1, ChosenProperties
<1> QED BY <1>1, <1>2, <1>3

(* A shuffled list has the same tests, each as often. *)
LEMMA ShuffleProperties ==
    ASSUME NEW S, NEW l \in Seq(S), NEW q \in Shuffles(l)
    PROVE  /\ q \in Seq(S) /\ Len(q) = Len(l)
           /\ Range(q) = Range(l)
           /\ Once(l) => Once(q)
<1>1. PICK p \in Bijection(DOMAIN l, DOMAIN l) : q = [i \in DOMAIN l |-> l[p[i]]]
    BY DEF Shuffles
<1> DEFINE n == Len(l)
<1>2. n \in Nat /\ DOMAIN l = 1 .. n /\ \A i \in 1 .. n : l[i] \in S
    OBVIOUS
<1> HIDE DEF n
<1>3. /\ \A i \in 1 .. n : p[i] \in 1 .. n
      /\ \A i, j \in 1 .. n : p[i] = p[j] => i = j
      /\ \A j \in 1 .. n : \E i \in 1 .. n : p[i] = j
    BY <1>1, <1>2 DEF Bijection, Injection, Surjection, IsInjective
<1>4. q = [i \in 1 .. n |-> l[p[i]]]
    BY <1>1, <1>2
<1>5. q \in Seq(S) /\ Len(q) = n
    BY <1>2, <1>3, <1>4
<1>6. DOMAIN q = 1 .. n /\ \A i \in 1 .. n : q[i] = l[p[i]]
    BY <1>4
<1>7. Range(q) = Range(l)
    <2>1. ASSUME NEW j \in 1 .. n PROVE l[j] \in Range(q)
        <3>1. PICK i \in 1 .. n : p[i] = j
            BY <1>3
        <3>2. q[i] = l[j]
            BY <1>6, <3>1
        <3> QED BY <1>6, <3>2 DEF Range
    <2>2. ASSUME NEW i \in 1 .. n PROVE q[i] \in Range(l)
        BY <1>2, <1>3, <1>6 DEF Range
    <2> QED BY <1>2, <1>6, <2>1, <2>2 DEF Range
<1>8. ASSUME Once(l) PROVE Once(q)
    <2>1. \A i, j \in 1 .. n : l[i] = l[j] /\ l[i] # None => i = j
        BY <1>2, <1>8 DEF Once
    <2>2. ASSUME NEW i \in 1 .. n, NEW j \in 1 .. n, q[i] = q[j], q[i] # None PROVE i = j
        <3>1. p[i] \in 1 .. n /\ p[j] \in 1 .. n /\ l[p[i]] = l[p[j]] /\ l[p[i]] # None
            BY <1>3, <1>6, <2>2
        <3>2. p[i] = p[j]
            BY <2>1, <3>1
        <3> QED BY <1>3, <3>2
    <2> QED BY <1>6, <2>2 DEF Once
<1> QED BY <1>5, <1>7, <1>8 DEF n

(* Walk names each test at one place. *)
LEMMA WalkProperties ==
    /\ Walk \in Seq(Tests) /\ Range(Walk) = Tests
    /\ \A l \in Seq(Tests) : IsInjective(l) => Once(l)
    /\ \A i, j \in DOMAIN Roots : Roots[i] = Roots[j] => i = j
    /\ \A t \in Tests : RootAt(t) \in Range(Roots)
BY LitAssumption DEF Tests, Once, IsInjective, RootAt

(* The tests of a list that a round of the driver keeps for lit. *)
Kept == Chosen(Walk, {i \in DOMAIN Walk : /\ InRoot(Walk[i])
                                          /\ dirOf[Walk[i]] \notin Skipped
                                          /\ elf[Walk[i]] # "none"})

(* The walk over a root takes each of its built tests once. *)
LEMMA KeptProperties ==
    /\ Kept \in Seq(Tests) /\ Once(Kept)
    /\ Range(Kept) = {t \in Tests : InRoot(t) /\ dirOf[t] \notin Skipped /\ elf[t] # "none"}
<1> DEFINE I == {i \in DOMAIN Walk : /\ InRoot(Walk[i])
                                     /\ dirOf[Walk[i]] \notin Skipped
                                     /\ elf[Walk[i]] # "none"}
<1>1. Walk \in Seq(Tests) /\ Once(Walk)
    BY WalkProperties, LitAssumption
<1>2. Kept = Chosen(Walk, I)
    BY DEF Kept
<1>3. Range(Kept) = {Walk[j] : j \in I \cap DOMAIN Walk}
    <2> HIDE DEF I
    <2> QED BY <1>1, <1>2, ChosenProperties
<1>4. Tests = {Walk[j] : j \in DOMAIN Walk}
    BY DEF Tests, Range
<1>5. Kept \in Seq(Tests) /\ Once(Kept)
    <2> HIDE DEF I
    <2> QED BY <1>1, <1>2, ChosenProperties
<1>6. Range(Kept) = {t \in Tests : InRoot(t) /\ dirOf[t] \notin Skipped /\ elf[t] # "none"}
    BY <1>3, <1>4
<1> QED BY <1>5, <1>6

-------------------------------------------------------------------------------
(* Where the list is cut *)

(* The greater the number of a part, the later it begins. *)
LEMMA Cuts ==
    ASSUME NEW n \in Nat, NEW v \in Nat, NEW w \in Nat, v <= w
    PROVE  v * n <= w * n /\ v * n \in Nat /\ w * n \in Nat
<1>1. w * n = v * n + (w - v) * n
    OBVIOUS
<1>2. w - v \in Nat
    OBVIOUS
<1>3. (w - v) * n \in Nat /\ v * n \in Nat /\ w * n \in Nat
    BY <1>2
<1> QED BY <1>1, <1>3

(* The w-th of the parts of n places holds the place i. *)
Holds(n, w, i) == (w - 1) * n + 1 <= i /\ i <= w * n

(* Parts of the m-th part of a list and one more are enough. *)
LEMMA PartsReach ==
    ASSUME NEW m \in Nat, NEW c \in Nat \ {0}
    PROVE  m \div c + 1 \in Nat \ {0} /\ m < c * (m \div c + 1)
<1>1. m = (c * (m \div c)) + (m % c) /\ m % c < c /\ m \div c \in Nat /\ m % c \in Nat
    OBVIOUS
<1>2. c * (m \div c + 1) = (c * (m \div c)) + c
    BY <1>1
<1> QED BY <1>1, <1>2

(* Each place of a list of length m is in one of the c parts. *)
LEMMA EveryPlaceOnce ==
    ASSUME NEW m \in Nat, NEW c \in Nat \ {0}, NEW n \in Nat \ {0}, m < c * n
    PROVE  /\ \A i \in 1 .. m : \E w \in 1 .. c : Holds(n, w, i)
           /\ \A i \in 1 .. m : \A v, w \in 1 .. c : Holds(n, v, i) /\ Holds(n, w, i) => v = w
<1>1. n \in Nat /\ n > 0 /\ m < c * n
    OBVIOUS
<1>2. ASSUME NEW i \in 1 .. m PROVE \E w \in 1 .. c : (w - 1) * n + 1 <= i /\ i <= w * n
    <2> DEFINE T == {w \in Nat : i <= w * n}
    <2>1. c \in T
        BY <1>1
    <2>2. PICK w \in T : \A v \in T : w <= v
        BY <2>1, LeastNatural
    <2>3. w # 0
        BY <2>2, <1>1
    <2>4. w - 1 \in Nat /\ w - 1 \notin T /\ w <= c
        BY <2>1, <2>2, <2>3
    <2>5. (w - 1) * n \in Nat
        BY <1>1, <2>4
    <2>6. ~(i <= (w - 1) * n) /\ i <= w * n /\ w \in 1 .. c
        BY <2>2, <2>3, <2>4
    <2> QED BY <2>5, <2>6
<1>3. ASSUME NEW i \in 1 .. m, NEW v \in 1 .. c, NEW w \in 1 .. c, v < w,
             i <= v * n, (w - 1) * n + 1 <= i
      PROVE  FALSE
    <2>1. v * n <= (w - 1) * n /\ v * n \in Nat /\ (w - 1) * n \in Nat
        BY <1>1, <1>3, Cuts
    <2> QED BY <1>3, <2>1
<1>4. ASSUME NEW i \in 1 .. m, NEW v \in 1 .. c, NEW w \in 1 .. c,
             (v - 1) * n + 1 <= i, i <= v * n, (w - 1) * n + 1 <= i, i <= w * n
      PROVE  v = w
    <2>1. v < w \/ w < v \/ v = w
        OBVIOUS
    <2> QED BY <1>3, <1>4, <2>1
<1> QED BY <1>2, <1>4 DEF Holds

(* The tests of a slice. *)
LEMMA SliceRange ==
    ASSUME NEW S, NEW q \in Seq(S), NEW a \in Nat \ {0}, NEW b \in Nat
    PROVE  Range(Slice(q, a, b)) = {q[i] : i \in {j \in 1 .. Len(q) : a <= j /\ j <= b}}
<1> DEFINE e == IF b < Len(q) THEN b ELSE Len(q)
           s == SubSeq(q, a, e)
<1>1. e \in Nat /\ e <= Len(q) /\ e <= b /\ \A j \in Nat : j <= b /\ j <= Len(q) => j <= e
    OBVIOUS
<1> HIDE DEF e
<1>2. CASE a <= e
    <2>1. DOMAIN s = 1 .. e - a + 1 /\ \A i \in 1 .. e - a + 1 : s[i] = q[a + i - 1]
        BY <1>1, <1>2
    <2> HIDE DEF s
    <2>2. ASSUME NEW j \in 1 .. Len(q), a <= j, j <= b PROVE q[j] \in Range(s)
        <3>1. j - a + 1 \in 1 .. e - a + 1 /\ a + (j - a + 1) - 1 = j
            BY <1>1, <2>2
        <3> QED BY <2>1, <3>1 DEF Range
    <2>3. ASSUME NEW x \in Range(s)
          PROVE  \E j \in 1 .. Len(q) : a <= j /\ j <= b /\ x = q[j]
        <3>1. PICK i \in 1 .. e - a + 1 : x = q[a + i - 1]
            BY <2>1 DEF Range
        <3>2. a + i - 1 \in 1 .. Len(q) /\ a <= a + i - 1 /\ a + i - 1 <= b
            BY <1>1, <1>2
        <3> QED BY <3>1, <3>2
    <2>4. Range(s) = {q[i] : i \in {j \in 1 .. Len(q) : a <= j /\ j <= b}}
        BY <2>2, <2>3
    <2> QED BY <2>4 DEF Slice, s, e
<1>3. CASE ~(a <= e)
    <2>1. s = <<>>
        BY <1>1, <1>3
    <2>2. {j \in 1 .. Len(q) : a <= j /\ j <= b} = {}
        BY <1>1, <1>3
    <2>3. Range(s) = {}
        BY <2>1 DEF Range
    <2> QED BY <2>2, <2>3 DEF Slice, s, e
<1> QED BY <1>2, <1>3

(* The w-th part of a list that is cut into c. *)
Part(q, c, w) ==
    LET n == Len(q) \div c + 1 IN Range(Slice(q, (w - 1) * n + 1, w * n)) \ {None}

(* The parts of a list hold each of its names but "" in one part. *)
LEMMA PartsOfList ==
    ASSUME NEW q \in Seq(Tests \cup {None}), Once(q), NEW c \in Nat \ {0}
    PROVE  /\ \A w \in 1 .. c : Part(q, c, w) \subseteq Tests /\ Part(q, c, w) \subseteq Range(q)
           /\ \A v, w \in 1 .. c : v # w => Part(q, c, v) \cap Part(q, c, w) = {}
           /\ \A t \in Range(q) \ {None} : \E w \in 1 .. c : t \in Part(q, c, w)
<1>0. PICK m, n : m = Len(q) /\ n = m \div c + 1
    OBVIOUS
<1> DEFINE P(w) == Part(q, c, w)
           In(i, w) == Holds(n, w, i)
<1>1. m \in Nat /\ DOMAIN q = 1 .. m /\ n \in Nat /\ \A i \in 1 .. m : q[i] \in Tests \cup {None}
    BY <1>0
<1>2. /\ \A i \in 1 .. m : \E w \in 1 .. c : In(i, w)
      /\ \A i \in 1 .. m : \A v, w \in 1 .. c : In(i, v) /\ In(i, w) => v = w
    <2>1. m \in Nat /\ n \in Nat \ {0} /\ m < c * n
        BY <1>0, <1>1, PartsReach
    <2> QED BY <2>1, EveryPlaceOnce
<1>3. ASSUME NEW w \in 1 .. c PROVE P(w) = {q[i] : i \in {j \in 1 .. m : In(j, w)}} \ {None}
    <2>1. (w - 1) * n \in Nat /\ w * n \in Nat
        <3>1. w - 1 \in Nat /\ w \in Nat
            OBVIOUS
        <3> QED BY <1>1, <3>1, Cuts
    <2>2. (w - 1) * n + 1 \in Nat \ {0}
        BY <2>1
    <2> DEFINE a == (w - 1) * n + 1
               b == w * n
    <2>3. P(w) = Range(Slice(q, a, b)) \ {None}
        BY <1>0 DEF Part
    <2>4. a \in Nat \ {0} /\ b \in Nat
        BY <2>1, <2>2
    <2>5. {q[i] : i \in {j \in 1 .. m : In(j, w)}} = {q[i] : i \in {j \in 1 .. Len(q) : a <= j /\ j <= b}}
        BY <1>0 DEF Holds
    <2> HIDE DEF a, b, In, P
    <2>6. Range(Slice(q, a, b)) = {q[i] : i \in {j \in 1 .. Len(q) : a <= j /\ j <= b}}
        BY <2>4, SliceRange
    <2> QED BY <2>3, <2>5, <2>6
<1> HIDE DEF In, P
<1>4. ASSUME NEW w \in 1 .. c PROVE P(w) \subseteq Tests /\ P(w) \subseteq Range(q)
    <2>1. \A i \in 1 .. m : q[i] \in Range(q)
        BY <1>1 DEF Range
    <2> QED BY <1>1, <1>3, <2>1
<1>5. ASSUME NEW v \in 1 .. c, NEW w \in 1 .. c, NEW t, t \in P(v), t \in P(w) PROVE v = w
    <2>1. PICK i \in 1 .. m : In(i, v) /\ t = q[i]
        BY <1>3, <1>5
    <2>2. PICK j \in 1 .. m : In(j, w) /\ t = q[j]
        BY <1>3, <1>5
    <2>3. t # None
        BY <1>3, <1>5
    <2>4. i = j
        BY <1>1, <2>1, <2>2, <2>3 DEF Once
    <2> QED BY <1>2, <2>1, <2>2, <2>4
<1>6. ASSUME NEW t \in Range(q) \ {None} PROVE \E w \in 1 .. c : t \in P(w)
    <2>1. PICK i \in 1 .. m : t = q[i]
        BY <1>1 DEF Range
    <2>2. PICK w \in 1 .. c : In(i, w)
        BY <1>2
    <2> QED BY <1>3, <2>1, <2>2
<1> QED BY <1>4, <1>5, <1>6 DEF P

-------------------------------------------------------------------------------
(* What the steps have in common *)

(* Processes, times and parts. *)
LEMMA Basics ==
    ASSUME TypeOK
    PROVE  /\ ManyLists \in Nat \ {0} /\ MaxRound \in Nat \ {0}
           /\ Driver \in Procs /\ Driver \notin Workers /\ Workers \subseteq Procs
           /\ \A p \in Procs : p = Driver \/ p \in Workers
           /\ SplitCount \in Workers /\ SplitCount \in Nat \ {0}
           /\ 1 .. SplitCount \subseteq Workers
           /\ \A w \in Workers : w \in Nat /\ (w <= SplitCount <=> w \in 1 .. SplitCount)
           /\ Now \subseteq Times /\ None \notin Now /\ Empty \notin Now /\ None # Empty
           /\ \A p \in Procs \cup {Daemon} : <<round, p>> \in Now
           /\ \A x \in Now : x[1] = round
<1>1. ManyLists \in Nat \ {0} /\ MaxRound \in Nat \ {0} /\ round \in 1 .. MaxRound /\ None # Empty
    BY LitAssumption DEF TypeOK
<1>2. /\ Driver \in Procs /\ Driver \notin Workers /\ Workers \subseteq Procs
      /\ \A p \in Procs : p = Driver \/ p \in Workers
    BY DEF Driver, Procs, Workers
<1>3. /\ SplitCount \in Workers /\ SplitCount \in Nat \ {0} /\ 1 .. SplitCount \subseteq Workers
      /\ \A w \in Workers : w \in Nat /\ (w <= SplitCount <=> w \in 1 .. SplitCount)
    BY <1>1 DEF SplitCount, Workers
<1>4. Now \subseteq Times
    BY <1>1 DEF Now, Times
<1>5. Now \subseteq Nat \X Nat
    BY <1>1 DEF Now, Procs, Driver, Daemon, Workers
<1>6. None \notin Now /\ Empty \notin Now
    BY <1>5, LitAssumption
<1>7. \A p \in Procs \cup {Daemon} : <<round, p>> \in Now
    BY DEF Now
<1>8. \A x \in Now : x[1] = round
    BY DEF Now
<1> QED BY <1>1, <1>2, <1>3, <1>4, <1>6, <1>7, <1>8

(* What make changes: what is missing in T, and PyActors of T. *)
LEMMA MakeEffects ==
    ASSUME TypeOK, NEW T \in SUBSET Tests, NEW s \in PassSets \cup {None}, Make(T, s)
    PROVE  /\ elf' \in [Tests -> {"none", "bad", "good"}]
           /\ built' \in [Tests -> PassSets \cup {None}]
           /\ actors' \subseteq actors
           /\ \A t \in Tests : elf[t] # "none" \/ t \notin T =>
                  elf'[t] = elf[t] /\ built'[t] = built[t]
           /\ \A t \in T : elf[t] = "none" /\ elf'[t] # "none" => built'[t] = s
<1> DEFINE missing == {t \in T : elf[t] = "none"}
<1>1. PICK e \in [missing -> {"none", "bad", "good"}], A \in SUBSET (actors \cap T) :
          /\ elf' = [t \in Tests |-> IF t \in missing THEN e[t] ELSE elf[t]]
          /\ built' = [t \in Tests |-> IF t \in missing /\ e[t] # "none" THEN s ELSE built[t]]
          /\ actors' = actors \ A
    BY DEF Make
<1>2. elf \in [Tests -> {"none", "bad", "good"}] /\ built \in [Tests -> PassSets \cup {None}]
    BY DEF TypeOK
<1>3. elf' \in [Tests -> {"none", "bad", "good"}]
    BY <1>1, <1>2
<1>4. built' \in [Tests -> PassSets \cup {None}]
    BY <1>1, <1>2
<1>5. ASSUME NEW t \in Tests, elf[t] # "none" \/ t \notin T
      PROVE  elf'[t] = elf[t] /\ built'[t] = built[t]
    <2>1. t \notin missing
        BY <1>5
    <2> QED BY <1>1, <2>1
<1>6. ASSUME NEW t \in T, elf[t] = "none", elf'[t] # "none" PROVE built'[t] = s
    <2>1. t \in missing /\ t \in Tests
        BY <1>6
    <2> QED BY <1>1, <1>6, <2>1
<1> QED BY <1>1, <1>3, <1>4, <1>5, <1>6

(* What the PyActors of T add to the records. *)
LEMMA RecordEffects ==
    ASSUME TypeOK, NEW T \in SUBSET Tests, NEW who \in {"sanity", "round"}, Record(T, who)
    PROVE  /\ \A r \in records' :
                  \/ r \in records
                  \/ /\ r.test \in T /\ r.by = who /\ r.time = stamp
                     /\ r.set = inputSetAll[RootAt(r.test)]
           /\ stamp \in Times \/ T = {} =>
                  records' \subseteq [test : Tests, by : {"sanity", "round"},
                                      time : Times, set : PassSets \cup {None}]
<1> DEFINE new(t) == [test |-> t, by |-> who, time |-> stamp,
                      set |-> inputSetAll[RootAt(t)]]
<1>1. records' = records \cup {new(t) : t \in T}
    BY DEF Record, RootAt
<1>2. \A t \in T : /\ new(t).test \in T /\ new(t).by = who /\ new(t).time = stamp
                   /\ new(t).set = inputSetAll[RootAt(new(t).test)]
    OBVIOUS
<1>3. ASSUME stamp \in Times, NEW t \in T
      PROVE  new(t) \in [test : Tests, by : {"sanity", "round"}, time : Times,
                         set : PassSets \cup {None}]
    <2>1. RootAt(t) \in Range(Roots) /\ inputSetAll[RootAt(t)] \in PassSets \cup {None}
        BY WalkProperties DEF TypeOK
    <2> QED BY <1>3, <2>1
<1>4. records \subseteq [test : Tests, by : {"sanity", "round"}, time : Times,
                         set : PassSets \cup {None}]
    BY DEF TypeOK
<1> HIDE DEF new
<1> QED BY <1>1, <1>2, <1>3, <1>4

(* A step is one of the actions, or changes nothing. *)
LEMMA NextCases ==
    ASSUME [Next]_vars
    PROVE  \/ \E p \in Procs : LogService(p)
           \/ BeginRound \/ Cmake \/ StartBuild \/ \E s \in PassSets : BuildRoot(s)
           \/ SanityCheck \/ (\E t \in Tests : Retry(t)) \/ RetryRaises \/ Distribute
           \/ RemoveFailed \/ StartProfiled \/ WriteInfo \/ BuildAssigned
           \/ CheckAssignedTest \/ Split \/ (\E w \in Workers, t \in Tests : RunTest(w, t))
           \/ Join \/ EndRound \/ LastMail \/ MailRaises \/ (\E b \in Tests \cup {None} : Echo(b))
           \/ UNCHANGED vars
<1>1. Driver \in Procs /\ Workers \subseteq Procs
    BY DEF Driver, Procs
<1> QED BY <1>1, Zenon DEF Next, LitProcesses, Main, LitWorker, Over

-------------------------------------------------------------------------------
(* Types, and the LogServices *)

LEMMA InitType == Init => TypeOK
<1> SUFFICES ASSUME Init PROVE TypeOK
    OBVIOUS
<1>1. 1 \in 1 .. MaxRound /\ 1 \in DOMAIN Roots
    BY LitAssumption
<1>2. <<>> \in Seq(Tests \cup {None})
    OBVIOUS
<1>3. <<0, Driver>> \in Times
    BY LitAssumption DEF Times, Procs
<1>4. /\ stamp \in Times \cup {None, Empty}
      /\ daemon \in {"up", "down"} /\ info \in Range(Profiled) \cup {None}
    BY <1>3 DEF Init
<1> QED BY <1>1, <1>2, <1>4 DEF Init, TypeOK

(* Between its LogServices the driver knows the time of the round. *)
LEMMA DriverKnows ==
    ASSUME TypeOK, DriverInv, pc \notin {"begin", "cmake", "log", "mail", "lastMail", "mailFailed"}
    PROVE  lpc[Driver] = "done" /\ stamp \in Now /\ time[Driver] = stamp
<1>1. lpc[Driver] \in {"none", "look", "read", "create", "write", "done"}
    BY Basics DEF TypeOK
<1> QED BY <1>1 DEF DriverInv

(***************************************************************************)
(* A LogService takes the time that is there, a worker's always; only the  *)
(* driver writes one, and only where there is none.                        *)
(***************************************************************************)
LEMMA LogCases ==
    ASSUME TypeOK, DriverInv, WorkerInv, NEW p \in Procs, LogService(p)
    PROVE  /\ \/ p = Driver /\ pc \in {"cmake", "log", "mail", "lastMail"}
              \/ p \in Workers /\ pc = "run" /\ stamp \in Now
           /\ \/ lpc[p] = "look" /\ lpc' = [lpc EXCEPT ![p] = "read"] /\ stamp \in Now
                 /\ stamp' = stamp /\ time' = time
              \/ lpc[p] = "read" /\ lpc' = [lpc EXCEPT ![p] = "done"] /\ stamp \in Now
                 /\ stamp' = stamp /\ time' = [time EXCEPT ![p] = stamp]
              \/ p = Driver /\ lpc[p] = "look" /\ lpc' = [lpc EXCEPT ![p] = "create"]
                 /\ stamp = None /\ stamp' = stamp /\ time' = time
              \/ p = Driver /\ lpc[p] = "create" /\ lpc' = [lpc EXCEPT ![p] = "write"]
                 /\ stamp = None /\ stamp' = Empty /\ time' = time
              \/ p = Driver /\ lpc[p] = "write" /\ lpc' = [lpc EXCEPT ![p] = "done"]
                 /\ stamp = Empty /\ stamp' = <<round, p>>
                 /\ time' = [time EXCEPT ![p] = <<round, p>>]
<1>1. Look(p) \/ ReadStamp(p) \/ CreateStamp(p) \/ WriteStamp(p)
    BY DEF LogService
<1>2. lpc[p] \in {"look", "read", "create", "write"}
    BY <1>1 DEF Look, ReadStamp, CreateStamp, WriteStamp
<1>3. CASE p = Driver
    <2>1. pc \in {"cmake", "log", "mail", "lastMail"}
        BY <1>2, <1>3 DEF DriverInv
    <2>2. /\ lpc[p] = "look" => stamp \in Now \cup {None}
          /\ lpc[p] = "create" => stamp = None
          /\ lpc[p] = "write" => stamp = Empty
          /\ lpc[p] = "read" => stamp \in Now
        BY <1>3, <2>1 DEF DriverInv
    <2>3. None \notin Now
        BY Basics
    <2> QED BY <1>1, <1>3, <2>1, <2>2, <2>3 DEF Look, ReadStamp, CreateStamp, WriteStamp
<1>4. CASE p \in Workers
    <2>1. pc = "run" /\ lpc[p] \in {"look", "read"}
        BY <1>2, <1>4 DEF WorkerInv
    <2>2. stamp \in Now /\ None \notin Now
        BY <2>1, DriverKnows, Basics
    <2> QED BY <1>1, <1>4, <2>1, <2>2 DEF Look, ReadStamp, CreateStamp, WriteStamp
<1> QED BY <1>3, <1>4, Basics

(* Without a TimeStamp, or under one, the daemon's line has a time. *)
LEMMA EchoTime ==
    ASSUME TypeOK, PhaseInv, DriverInv, InfoInv, NEW b \in Tests \cup {None}, Echo(b)
    PROVE  /\ stamp' \in Now /\ (stamp \in Now => stamp' = stamp)
           /\ pc \in {"cmake", "make"} /\ (pc = "make" => b = info)
           /\ pc = "cmake" => lpc[Driver] = "look" /\ b = None
<1>1. stamp \in Now \cup {None} /\ None \notin Now
    <2>1. CASE pc = "cmake" /\ lpc[Driver] = "look"
        BY <2>1, Basics DEF DriverInv
    <2>2. CASE pc = "make"
        BY <2>2, DriverKnows, Basics
    <2> QED BY <2>1, <2>2 DEF Echo, Compiling
<1>2. <<round, Daemon>> \in Now
    BY Basics
<1>3. stamp' = IF stamp = None THEN <<round, Daemon>> ELSE stamp
    BY DEF Echo
<1>4. /\ pc \in {"cmake", "make"} /\ (pc = "make" => b = info)
      /\ pc = "cmake" => lpc[Driver] = "look" /\ b = None
    BY DEF Echo, Compiling, InfoInv
<1> QED BY <1>1, <1>2, <1>3, <1>4

(* Split cuts what it picks of the list, each of its tests for one worker. *)
LEMMA SplitEffects ==
    ASSUME TypeOK, ListInv, Split
    PROVE  /\ list' \in Seq(Tests \cup {None}) /\ Once(list') /\ Range(list') \subseteq Range(list)
           /\ lists' \in [Workers -> SUBSET Tests]
           /\ \A w \in Workers : /\ w > SplitCount => lists'[w] = {}
                                /\ lists'[w] \subseteq Range(list')
           /\ \A v, w \in Workers : v # w => lists'[v] \cap lists'[w] = {}
           /\ \A t \in Tests \cap Range(list') : \E w \in Workers : t \in lists'[w]
<1>1. /\ list' \in Seq(Tests \cup {None}) /\ Once(list') /\ Range(list') \subseteq Range(list)
      /\ list' = PickTests(list)
    BY PickedProperties DEF Split, TypeOK, ListInv
<1>2. PICK q \in Shuffles(list') :
          lists' = [w \in Workers |->
                       IF w <= SplitCount
                       THEN LET n == Step(Len(q))
                            IN  Range(Slice(q, (w - 1) * n + 1, w * n)) \ {None}
                       ELSE {}]
    BY <1>1 DEF Split
<1>3. q \in Seq(Tests \cup {None}) /\ Range(q) = Range(list') /\ Once(q)
    BY <1>1, ShuffleProperties
<1> DEFINE P(w) == lists'[w]
<1>4. /\ \A w \in 1 .. SplitCount : P(w) = Part(q, SplitCount, w)
      /\ \A w \in Workers : w > SplitCount => P(w) = {}
      /\ lists' = [w \in Workers |-> P(w)]
    <2> DEFINE n == Step(Len(q))
               R(w) == Range(Slice(q, (w - 1) * n + 1, w * n)) \ {None}
    <2>1. lists' = [w \in Workers |-> IF w <= SplitCount THEN R(w) ELSE {}]
        BY <1>2
    <2>2. SplitCount \in Nat /\ 1 .. SplitCount \subseteq Workers
          /\ \A w \in Workers : w \in Nat
        BY Basics
    <2>3. \A w \in 1 .. SplitCount : R(w) = Part(q, SplitCount, w)
        BY DEF Part, Step
    <2> HIDE DEF R
    <2> QED BY <2>1, <2>2, <2>3
<1> HIDE DEF P
<1>5. /\ \A w \in 1 .. SplitCount : P(w) \subseteq Tests /\ P(w) \subseteq Range(q)
      /\ \A v, w \in 1 .. SplitCount : v # w => P(v) \cap P(w) = {}
      /\ \A t \in Range(q) \ {None} : \E w \in 1 .. SplitCount : t \in P(w)
    <2>1. SplitCount \in Nat \ {0}
        BY Basics
    <2>2. /\ \A w \in 1 .. SplitCount : /\ Part(q, SplitCount, w) \subseteq Tests
                                        /\ Part(q, SplitCount, w) \subseteq Range(q)
          /\ \A v, w \in 1 .. SplitCount :
                 v # w => Part(q, SplitCount, v) \cap Part(q, SplitCount, w) = {}
          /\ \A t \in Range(q) \ {None} : \E w \in 1 .. SplitCount : t \in Part(q, SplitCount, w)
        BY <1>3, <2>1, PartsOfList
    <2> QED BY <1>4, <2>2
<1>6. /\ 1 .. SplitCount \subseteq Workers
      /\ \A w \in Workers : w \in 1 .. SplitCount \/ w > SplitCount
    <2>1. SplitCount \in Nat /\ 1 .. SplitCount \subseteq Workers
          /\ \A w \in Workers : w \in Nat /\ (w <= SplitCount <=> w \in 1 .. SplitCount)
        BY Basics
    <2> QED BY <2>1
<1>7. None \notin Tests
    BY LitAssumption
<1>8. \A w \in Workers : P(w) \subseteq Tests
    BY <1>4, <1>5, <1>6
<1>9. lists' \in [Workers -> SUBSET Tests]
    BY <1>4, <1>8
<1> QED BY <1>1, <1>3, <1>4, <1>5, <1>6, <1>7, <1>9 DEF P

(* Every step keeps the types. *)
LEMMA TypeStep ==
    ASSUME TypeOK, PhaseInv, DriverInv, WorkerInv, InfoInv, TodoInv, ListInv, [Next]_vars
    PROVE  TypeOK'
<1>a. Now \subseteq Times /\ Driver \in Procs
    BY Basics
<1>1. ASSUME NEW p \in Procs, LogService(p) PROVE TypeOK'
    <2>1. <<round, p>> \in Times
        BY Basics
    <2> USE LogCases, <1>1
    <2>2. stamp' \in Times \cup {None, Empty}
        BY <1>a, <2>1 DEF TypeOK
    <2>3. lpc' \in [Procs -> {"none", "look", "read", "create", "write", "done"}]
        BY DEF TypeOK
    <2>4. time' \in [Procs -> Times \cup {None}]
        <3>1. time' = time \/ \E x \in Times : time' = [time EXCEPT ![p] = x]
            BY <1>a, <2>1
        <3> QED BY <3>1 DEF TypeOK
    <2> QED BY <2>2, <2>3, <2>4
        DEF LogService, TypeOK, setVars, suiteVars, buildVars, sanityVars, daemonVars, runVars
<1> USE DEF GoToLog, Logged, logVars, setVars, suiteVars, buildVars, sanityVars,
            daemonVars, runVars
<1>2. CASE BeginRound
    <2>1. daemon' \in {"up", "down"}
        BY <1>2 DEF BeginRound, TypeOK
    <2>2. /\ pc' \in {"cmake", "log"} /\ lpc' = [lpc EXCEPT ![Driver] = "look"]
          /\ UNCHANGED <<buildVars, list>>
             \/ /\ elf' = [t \in Tests |-> "none"] /\ built' = [t \in Tests |-> None]
                /\ actors' = {} /\ desc' = {} /\ list' = <<>>
        BY <1>2 DEF BeginRound
    <2>3. /\ elf' \in [Tests -> {"none", "bad", "good"}]
          /\ built' \in [Tests -> PassSets \cup {None}]
          /\ actors' \subseteq Tests /\ desc' \subseteq Tests
          /\ list' \in Seq(Tests \cup {None})
        <3>1. <<>> \in Seq(Tests \cup {None})
            OBVIOUS
        <3>2. CASE UNCHANGED <<buildVars, list>>
            BY <3>2 DEF TypeOK
        <3>3. CASE ~UNCHANGED <<buildVars, list>>
            BY <2>2, <3>1, <3>3
        <3> QED BY <3>2, <3>3
    <2>4. lpc' \in [Procs -> {"none", "look", "read", "create", "write", "done"}]
        BY <2>2 DEF TypeOK
    <2>5. pc' \in {"cmake", "log"}
        BY <2>2
    <2> QED BY <1>2, <2>1, <2>3, <2>4, <2>5 DEF BeginRound, TypeOK
<1>3. CASE Cmake
    BY <1>3, <1>a DEF Cmake, TypeOK
<1>4. CASE StartBuild
    <2>1. 1 \in DOMAIN Roots
        BY LitAssumption
    <2> QED BY <1>4, <2>1 DEF StartBuild, TypeOK
<1>5. ASSUME NEW s \in PassSets, BuildRoot(s) PROVE TypeOK'
    <2>1. k \in DOMAIN Roots /\ k \in Nat /\ Len(Roots) \in Nat /\ DOMAIN Roots = 1 .. Len(Roots)
        BY <1>5, LitAssumption DEF BuildRoot, PhaseInv
    <2>2. k' \in DOMAIN Roots
        BY <1>5, <2>1 DEF BuildRoot, AllBuilt
    <2>3. /\ elf' \in [Tests -> {"none", "bad", "good"}]
          /\ built' \in [Tests -> PassSets \cup {None}] /\ actors' \subseteq Tests
        <3>1. CASE Rebuild
            BY <1>5, <3>1, MakeEffects DEF BuildRoot, TypeOK
        <3> QED BY <1>5, <3>1 DEF BuildRoot, TypeOK
    <2> QED BY <1>5, <2>2, <2>3 DEF BuildRoot, TypeOK
<1>6. CASE SanityCheck
    <2>1. noexe' \in [Tests -> Nat]
        BY <1>6 DEF SanityCheck, WithLines, TypeOK
    <2>2. failed' \subseteq Tests
        BY <1>6 DEF SanityCheck, Failing, TypeOK
    <2> QED BY <1>6, <2>1, <2>2 DEF SanityCheck, TypeOK
<1>7. ASSUME NEW t \in Tests, Retry(t) PROVE TypeOK'
    <2> DEFINE T == TestsIn(dirOf[t])
               s == inputSetAll[rootOf[dirOf[t]]]
    <2>1. T \subseteq Tests /\ s \in PassSets \cup {None}
        BY WalkProperties DEF TestsIn, TypeOK, RootAt
    <2>2. inputSet' = s /\ Make(T, s) /\ Record(T \cap desc \cap actors', "sanity")
        BY <1>7 DEF Retry
    <2>3. /\ noexe' = [WithLines(NoExe(T, elf')) EXCEPT ![t] = @ - 1]
          /\ failed' = failed \cup Failing(T, elf') /\ todo' = [todo EXCEPT ![t] = @ - 1]
          /\ todo[t] > 0 /\ todo[t] <= noexe[t]
        BY <1>7 DEF Retry, TodoInv
    <2> HIDE DEF T, s
    <2>4. /\ elf' \in [Tests -> {"none", "bad", "good"}]
          /\ built' \in [Tests -> PassSets \cup {None}] /\ actors' \subseteq Tests
        BY <2>1, <2>2, MakeEffects DEF TypeOK
    <2>5. stamp \in Times
        BY <1>7, <1>a, DriverKnows DEF Retry
    <2>6. records' \subseteq [test : Tests, by : {"sanity", "round"},
                              time : Times, set : PassSets \cup {None}]
        <3>1. T \cap desc \cap actors' \in SUBSET Tests
            BY <2>1
        <3> QED BY <2>2, <2>5, <3>1, RecordEffects
    <2>7. failed' \subseteq Tests
        BY <2>1, <2>3 DEF Failing, TypeOK
    <2>8. noexe' \in [Tests -> Nat] /\ todo' \in [Tests -> Nat]
        <3>1. todo[t] \in Nat /\ noexe[t] \in Nat /\ noexe[t] - 1 \in Nat /\ todo[t] - 1 \in Nat
            BY <2>3 DEF TypeOK
        <3>2. WithLines(NoExe(T, elf')) \in [Tests -> Nat]
              /\ WithLines(NoExe(T, elf'))[t] - 1 \in Nat
            BY <2>3, <3>1 DEF WithLines, TypeOK
        <3>3. noexe' \in [Tests -> Nat]
            BY <2>3, <3>2
        <3>4. todo' \in [Tests -> Nat]
            BY <2>3, <3>1 DEF TypeOK
        <3> QED BY <3>3, <3>4
    <2> QED BY <1>7, <2>1, <2>2, <2>4, <2>6, <2>7, <2>8 DEF Retry, TypeOK
<1>8. CASE RetryRaises
    BY <1>8 DEF RetryRaises, TypeOK
<1>9. CASE Distribute
    <2>1. /\ list' = list \o Kept /\ actors' = actors \cup Range(Kept)
          /\ k' = IF AllBuilt THEN k ELSE k + 1
        BY <1>9 DEF Distribute, Kept
    <2>2. list' \in Seq(Tests \cup {None}) /\ actors' \subseteq Tests
        <3>1. Kept \in Seq(Tests \cup {None}) /\ Range(Kept) \subseteq Tests
            BY KeptProperties
        <3> QED BY <2>1, <3>1 DEF TypeOK
    <2>3. k \in DOMAIN Roots /\ k \in Nat /\ Len(Roots) \in Nat /\ DOMAIN Roots = 1 .. Len(Roots)
        BY <1>9, LitAssumption DEF Distribute, Retried, PhaseInv
    <2>4. k' \in DOMAIN Roots
        BY <2>1, <2>3 DEF AllBuilt
    <2>5. elf' \in [Tests -> {"none", "bad", "good"}] /\ desc' \subseteq Tests
        BY <1>9 DEF Distribute, TypeOK
    <2> QED BY <1>9, <2>2, <2>4, <2>5 DEF Distribute, TypeOK
<1>10. CASE RemoveFailed
    <2>1. list' \in Seq(Tests \cup {None})
        BY <1>10, RemovedProperties DEF RemoveFailed, TypeOK
    <2> QED BY <1>10, <2>1 DEF RemoveFailed, TypeOK
<1>11. CASE StartProfiled
    <2>1. k' \in DOMAIN Roots
        BY <1>11, LitAssumption DEF StartProfiled
    <2> QED BY <1>11, <2>1 DEF StartProfiled, TypeOK
<1>12. CASE WriteInfo
    <2>1. info' \in Range(Profiled)
        BY <1>12 DEF WriteInfo, PhaseInv, Range
    <2> QED BY <1>12, <2>1 DEF WriteInfo, TypeOK
<1>13. CASE BuildAssigned
    <2>1. Profiled[k] \in Tests
        BY <1>13, LitAssumption DEF BuildAssigned, PhaseInv
    <2>2. {Profiled[k]} \in SUBSET Tests /\ Make({Profiled[k]}, None)
        BY <1>13, <2>1 DEF BuildAssigned
    <2>3. /\ elf' \in [Tests -> {"none", "bad", "good"}]
          /\ built' \in [Tests -> PassSets \cup {None}] /\ actors' \subseteq Tests
        BY <2>2, MakeEffects DEF TypeOK
    <2> QED BY <1>13, <2>3 DEF BuildAssigned, TypeOK
<1>14. CASE CheckAssignedTest
    <2>1. k \in DOMAIN Profiled /\ k \in Nat /\ Len(Profiled) \in Nat
          /\ DOMAIN Profiled = 1 .. Len(Profiled) /\ Profiled[k] \in Tests
        BY <1>14, LitAssumption DEF CheckAssignedTest, PhaseInv
    <2>2. k' \in DOMAIN Profiled
        BY <1>14, <2>1 DEF CheckAssignedTest
    <2>3. list' \in Seq(Tests \cup {None})
        BY <1>14, <2>1 DEF CheckAssignedTest, TypeOK
    <2>4. noexe' \in [Tests -> Nat]
        BY <1>14 DEF CheckAssignedTest, WithLines, TypeOK
    <2>5. failed' \subseteq Tests /\ actors' \subseteq Tests
        BY <1>14, <2>1 DEF CheckAssignedTest, Failing, TypeOK
    <2> QED BY <1>14, <2>2, <2>3, <2>4, <2>5 DEF CheckAssignedTest, TypeOK
<1>15. CASE Split
    <2>1. /\ list' \in Seq(Tests \cup {None}) /\ lists' \in [Workers -> SUBSET Tests]
        BY <1>15, SplitEffects
    <2>2. lpc' \in [Procs -> {"none", "look", "read", "create", "write", "done"}]
        BY <1>15 DEF Split, TypeOK
    <2> QED BY <1>15, <2>1, <2>2 DEF Split, TypeOK
<1>16. ASSUME NEW w \in Workers, NEW t \in Tests, RunTest(w, t) PROVE TypeOK'
    <2>1. {t} \cap desc \cap actors \in SUBSET Tests /\ Record({t} \cap desc \cap actors, "round")
        BY <1>16 DEF RunTest
    <2>2. stamp \in Times
        BY <1>16, <1>a, DriverKnows DEF RunTest
    <2>3. records' \subseteq [test : Tests, by : {"sanity", "round"},
                              time : Times, set : PassSets \cup {None}]
        BY <2>1, <2>2, RecordEffects
    <2>4. lists' \in [Workers -> SUBSET Tests] /\ ran' \in [Tests -> Nat]
        BY <1>16 DEF RunTest, TypeOK
    <2> QED BY <1>16, <2>3, <2>4 DEF RunTest, TypeOK
<1>17. CASE Join
    BY <1>17, <1>a DEF Join, TypeOK
<1>18. CASE EndRound
    <2>1. round' \in 1 .. MaxRound
        BY <1>18, LitAssumption DEF EndRound, TypeOK
    <2> QED BY <1>18, <1>a, <2>1 DEF EndRound, TypeOK
<1>19. CASE LastMail
    BY <1>19 DEF LastMail, TypeOK
<1>20. ASSUME NEW b \in Tests \cup {None}, Echo(b) PROVE TypeOK'
    <2>1. stamp' \in Times
        BY <1>a, <1>20, EchoTime
    <2>2. info \in Tests \cup {None}
        BY LitAssumption DEF TypeOK, Range
    <2>3. funcSet' \subseteq [bench : Tests, of : Tests \cup {None}, time : Times]
        <3> DEFINE e == [bench |-> info, of |-> b, time |-> stamp']
        <3>1. info # None => e \in [bench : Tests, of : Tests \cup {None}, time : Times]
            BY <2>1, <2>2
        <3>2. funcSet' = funcSet \cup {x \in {e} : x.bench # None} /\ e.bench = info
            BY <1>20 DEF Echo
        <3> HIDE DEF e
        <3> QED BY <3>1, <3>2 DEF TypeOK
    <2> QED BY <1>20, <2>1, <2>3 DEF Echo, TypeOK
<1>21. CASE UNCHANGED vars
    BY <1>21 DEF vars, TypeOK
<1>22. CASE MailRaises
    BY <1>22, <1>a DEF MailRaises, TypeOK
<1> QED BY NextCases, <1>1, <1>2, <1>3, <1>4, <1>5, <1>6, <1>7, <1>8, <1>9, <1>10, <1>11,
           <1>12, <1>13, <1>14, <1>15, <1>16, <1>17, <1>18, <1>19, <1>20, <1>21, <1>22

-------------------------------------------------------------------------------
(* Phases, and the time of the round *)

LEMMA PhaseStep ==
    ASSUME TypeOK, PhaseInv, [Next]_vars
    PROVE  PhaseInv'
<1> USE DEF GoToLog, Logged, PhaseInv, Rebuild, FunctionLevel, AllBuilt
<1>1. ASSUME NEW p \in Procs, LogService(p) PROVE PhaseInv'
    BY <1>1 DEF LogService
<1>2. CASE BeginRound
    BY <1>2 DEF BeginRound
<1>3. CASE Cmake
    BY <1>3 DEF Cmake
<1>4. CASE StartBuild
    <2>1. 1 \in DOMAIN Roots
        BY LitAssumption
    <2> QED BY <1>4, <2>1 DEF StartBuild
<1>5. ASSUME NEW s \in PassSets, BuildRoot(s) PROVE PhaseInv'
    <2>1. k \in DOMAIN Roots /\ k \in Nat /\ Len(Roots) \in Nat /\ DOMAIN Roots = 1 .. Len(Roots)
        BY <1>5, LitAssumption DEF BuildRoot
    <2>2. k' \in DOMAIN Roots
        BY <1>5, <2>1 DEF BuildRoot
    <2> QED BY <1>5, <2>2 DEF BuildRoot
<1>6. CASE SanityCheck
    BY <1>6 DEF SanityCheck
<1>7. ASSUME NEW t \in Tests, Retry(t) PROVE PhaseInv'
    BY <1>7 DEF Retry
<1>8. CASE RetryRaises
    BY <1>8 DEF RetryRaises
<1>9. CASE Distribute
    <2>1. k \in DOMAIN Roots /\ k \in Nat /\ Len(Roots) \in Nat /\ DOMAIN Roots = 1 .. Len(Roots)
        BY <1>9, LitAssumption DEF Distribute, Retried
    <2>2. k' \in DOMAIN Roots
        BY <1>9, <2>1 DEF Distribute
    <2> QED BY <1>9, <2>2 DEF Distribute, Retried
<1>10. CASE RemoveFailed
    BY <1>10 DEF RemoveFailed
<1>11. CASE StartProfiled
    <2>1. Profiled # <<>> => 1 \in DOMAIN Profiled
        BY LitAssumption
    <2> QED BY <1>11, <2>1 DEF StartProfiled
<1>12. CASE WriteInfo
    BY <1>12 DEF WriteInfo
<1>13. CASE BuildAssigned
    BY <1>13 DEF BuildAssigned
<1>14. CASE CheckAssignedTest
    <2>1. k \in DOMAIN Profiled /\ k \in Nat /\ Len(Profiled) \in Nat
          /\ DOMAIN Profiled = 1 .. Len(Profiled)
        BY <1>14, LitAssumption DEF CheckAssignedTest
    <2>2. k' \in DOMAIN Profiled
        BY <1>14, <2>1 DEF CheckAssignedTest
    <2> QED BY <1>14, <2>2 DEF CheckAssignedTest
<1>15. CASE Split
    BY <1>15 DEF Split
<1>16. ASSUME NEW w \in Workers, NEW t \in Tests, RunTest(w, t) PROVE PhaseInv'
    BY <1>16 DEF RunTest
<1>17. CASE Join
    BY <1>17 DEF Join
<1>18. CASE EndRound
    BY <1>18 DEF EndRound
<1>19. CASE LastMail
    BY <1>19 DEF LastMail
<1>20. ASSUME NEW b \in Tests \cup {None}, Echo(b) PROVE PhaseInv'
    BY <1>20 DEF Echo
<1>21. CASE UNCHANGED vars
    BY <1>21 DEF vars
<1>22. CASE MailRaises
    BY <1>22 DEF MailRaises
<1> QED BY NextCases, <1>1, <1>2, <1>3, <1>4, <1>5, <1>6, <1>7, <1>8, <1>9, <1>10, <1>11,
           <1>12, <1>13, <1>14, <1>15, <1>16, <1>17, <1>18, <1>19, <1>20, <1>21, <1>22

(* The daemon keeps the name it was told until the benchmark is built. *)
LEMMA InfoStep ==
    ASSUME InfoInv, [Next]_vars
    PROVE  InfoInv'
<1> USE DEF InfoInv, GoToLog, Logged, daemonVars, suiteVars
<1>1. ASSUME ~WriteInfo, \A p \in Procs : ~LogService(p), \A b \in Tests \cup {None} : ~Echo(b),
             ~UNCHANGED vars
      PROVE  pc' # "make"
    BY <1>1, NextCases DEF BeginRound, Cmake, StartBuild, BuildRoot, SanityCheck, Retry,
       RetryRaises, Distribute, RemoveFailed, StartProfiled, BuildAssigned, CheckAssignedTest,
       Split, RunTest, Join, EndRound, LastMail, MailRaises
<1>2. CASE WriteInfo
    BY <1>2 DEF WriteInfo
<1>3. ASSUME NEW p \in Procs, LogService(p) PROVE InfoInv'
    BY <1>3 DEF LogService
<1>4. ASSUME NEW b \in Tests \cup {None}, Echo(b) PROVE InfoInv'
    BY <1>4 DEF Echo
<1>5. CASE UNCHANGED vars
    BY <1>5 DEF vars
<1> QED BY <1>1, <1>2, <1>3, <1>4, <1>5 DEF InfoInv

(* A step between the LogServices of the driver, or of the workers. *)
Quiet ==
    /\ UNCHANGED <<mode, round, logVars>> /\ pc \notin {"begin", "mailFailed"}
    /\ lpc[Driver] = "done"
    /\ \/ pc = "run" /\ pc' = "run"
       \/ pc # "run" /\ pc' \notin {"begin", "cmake", "log", "mail", "lastMail", "run"}

(* The steps that concern TimeStamp, and those that leave it alone. *)
LEMMA QuietCases ==
    ASSUME TypeOK, DriverInv, [Next]_vars
    PROVE  \/ \E p \in Procs : LogService(p)
           \/ BeginRound \/ Cmake \/ Split \/ Join \/ EndRound \/ MailRaises
           \/ (\E b \in Tests \cup {None} : Echo(b)) \/ UNCHANGED vars \/ Quiet
<1> USE DEF Logged, logVars, Quiet
<1>1. ASSUME pc \notin {"begin", "cmake", "log", "mail", "lastMail", "mailFailed"}
      PROVE  lpc[Driver] = "done"
    BY <1>1, DriverKnows
<1>2. CASE StartBuild
    BY <1>2 DEF StartBuild
<1>3. ASSUME NEW s \in PassSets, BuildRoot(s) PROVE Quiet
    BY <1>1, <1>3 DEF BuildRoot
<1>4. CASE SanityCheck
    BY <1>1, <1>4 DEF SanityCheck
<1>5. ASSUME NEW t \in Tests, Retry(t) PROVE Quiet
    BY <1>1, <1>5 DEF Retry
<1>6. CASE RetryRaises
    BY <1>1, <1>6 DEF RetryRaises
<1>7. CASE Distribute
    BY <1>1, <1>7 DEF Distribute, Retried
<1>8. CASE RemoveFailed
    BY <1>1, <1>8 DEF RemoveFailed
<1>9. CASE StartProfiled
    BY <1>9 DEF StartProfiled
<1>10. CASE WriteInfo
    BY <1>1, <1>10 DEF WriteInfo
<1>11. CASE BuildAssigned
    BY <1>1, <1>11 DEF BuildAssigned
<1>12. CASE CheckAssignedTest
    BY <1>1, <1>12 DEF CheckAssignedTest
<1>13. ASSUME NEW w \in Workers, NEW t \in Tests, RunTest(w, t) PROVE Quiet
    BY <1>1, <1>13 DEF RunTest
<1>14. CASE LastMail
    BY <1>14 DEF LastMail
<1> QED BY NextCases, <1>2, <1>3, <1>4, <1>5, <1>6, <1>7, <1>8, <1>9, <1>10, <1>11, <1>12,
           <1>13, <1>14

(* Only the driver writes TimeStamp before it has read its time. *)
LEMMA DriverStep ==
    ASSUME TypeOK, PhaseInv, DriverInv, WorkerInv, InfoInv, [Next]_vars
    PROVE  DriverInv'
<1> USE DEF GoToLog, Logged, logVars
<1>a. /\ lpc \in [Procs -> {"none", "look", "read", "create", "write", "done"}]
      /\ DOMAIN time = Procs /\ Driver \in Procs /\ Driver \notin Workers
      /\ None \notin Now /\ Empty \notin Now /\ <<round, Driver>> \in Now
      /\ round' = round => Now' = Now
    BY Basics DEF TypeOK, Now
<1>1. ASSUME NEW p \in Procs, LogService(p) PROVE DriverInv'
    <2>1. UNCHANGED <<round, pc>> /\ Now' = Now
        BY <1>1, <1>a DEF LogService
    <2>2. CASE p = Driver
        <3>1. pc \in {"cmake", "log", "mail", "lastMail"}
            BY <1>1, <2>2, LogCases, Basics
        <3>2. stamp \in Now => stamp' = stamp
            BY <1>1, <1>a, LogCases
        <3>3. pc = "mail" => stamp' \in Now /\ time'[Driver] = stamp'
            <4>1. pc = "mail" => stamp \in Now /\ time[Driver] = stamp
                BY DEF DriverInv
            <4> QED BY <1>1, <1>a, <2>2, <4>1, LogCases
        <3>4. /\ lpc'[Driver] # "none"
              /\ lpc'[Driver] = "look" => stamp' \in Now \cup {None}
              /\ lpc'[Driver] = "create" => stamp' = None
              /\ lpc'[Driver] = "write" => stamp' = Empty
              /\ lpc'[Driver] = "read" => stamp' \in Now
              /\ lpc'[Driver] = "done" => stamp' \in Now /\ time'[Driver] = stamp'
            BY <1>1, <1>a, <2>2, LogCases
        <3> QED BY <2>1, <3>1, <3>3, <3>4 DEF DriverInv
    <2>3. CASE p \in Workers
        <3>1. stamp' = stamp /\ lpc'[Driver] = lpc[Driver] /\ time'[Driver] = time[Driver]
            BY <1>1, <1>a, <2>3, LogCases
        <3> QED BY <2>1, <3>1 DEF DriverInv
    <2> QED BY <2>2, <2>3, Basics
<1>2. CASE BeginRound
    <2>1. pc' \in {"cmake", "log"} /\ lpc'[Driver] = "look" /\ stamp' = None
        BY <1>2, <1>a DEF BeginRound
    <2> QED BY <2>1 DEF DriverInv
<1>3. CASE Cmake
    <2>1. stamp \in Now
        BY <1>3 DEF Cmake, DriverInv
    <2>2. pc' = "log" /\ lpc'[Driver] = "look" /\ stamp' = stamp /\ Now' = Now
        BY <1>3, <1>a DEF Cmake
    <2> QED BY <2>1, <2>2 DEF DriverInv
<1>4. CASE Split
    <2>1. stamp \in Now /\ time[Driver] = stamp /\ lpc[Driver] = "done"
        BY <1>4, DriverKnows DEF Split
    <2>2. lpc'[Driver] = lpc[Driver]
        BY <1>4, <1>a, Basics DEF Split
    <2> QED BY <1>4, <1>a, <2>1, <2>2 DEF Split, DriverInv
<1>5. CASE Join
    <2>1. stamp \in Now /\ time[Driver] = stamp
        BY <1>5, DriverKnows DEF Join
    <2>2. pc' = "mail" /\ lpc'[Driver] = "look" /\ stamp' = stamp /\ time' = time /\ Now' = Now
        BY <1>5, <1>a DEF Join
    <2> QED BY <2>1, <2>2 DEF DriverInv
<1>6. CASE EndRound
    <2>1. /\ stamp' = None
          /\ \/ pc' = "begin" /\ lpc'[Driver] = "done"
             \/ pc' = "lastMail" /\ lpc'[Driver] = "look"
        BY <1>6, <1>a DEF EndRound
    <2> QED BY <2>1 DEF DriverInv
<1>7. ASSUME NEW b \in Tests \cup {None}, Echo(b) PROVE DriverInv'
    <2>1. /\ stamp' \in Now /\ (stamp \in Now => stamp' = stamp)
          /\ pc \in {"cmake", "make"} /\ (pc = "cmake" => lpc[Driver] = "look")
        BY <1>7, EchoTime
    <2>2. UNCHANGED <<round, pc, lpc, time>>
        BY <1>7 DEF Echo
    <2>3. pc = "make" => lpc[Driver] = "done" /\ stamp \in Now /\ time[Driver] = stamp
        BY DriverKnows
    <2> QED BY <1>a, <2>1, <2>2, <2>3 DEF DriverInv
<1>8. CASE UNCHANGED vars
    BY <1>8, <1>a DEF vars, DriverInv
<1>9. CASE Quiet
    <2>1. UNCHANGED <<round, stamp, lpc, time>> /\ lpc[Driver] = "done" /\ pc' # "mail"
          /\ pc \notin {"begin", "mailFailed"}
        BY <1>9 DEF Quiet
    <2> QED BY <1>a, <2>1 DEF DriverInv
<1>10. CASE MailRaises
    <2>1. pc' = "mailFailed" /\ lpc'[Driver] = "none"
        BY <1>10, <1>a DEF MailRaises
    <2> QED BY <2>1 DEF DriverInv
<1> QED BY QuietCases, <1>1, <1>2, <1>3, <1>4, <1>5, <1>6, <1>7, <1>8, <1>9, <1>10

(* Every LogService of the workers finds the time of the driver. *)
LEMMA WorkerStep ==
    ASSUME TypeOK, PhaseInv, DriverInv, WorkerInv, InfoInv, [Next]_vars
    PROVE  WorkerInv'
<1> USE DEF GoToLog, Logged, logVars
<1>a. /\ lpc \in [Procs -> {"none", "look", "read", "create", "write", "done"}]
      /\ DOMAIN time = Procs /\ Driver \in Procs /\ Driver \notin Workers /\ Workers \subseteq Procs
      /\ \A w \in Workers : w \in Nat /\ (w <= SplitCount <=> w \in 1 .. SplitCount)
      /\ SplitCount \in Nat
    BY Basics DEF TypeOK
<1>1. ASSUME NEW p \in Procs, LogService(p) PROVE WorkerInv'
    <2>1. UNCHANGED <<mode, pc>> /\ SplitCount' = SplitCount
        BY <1>1 DEF LogService, SplitCount
    <2>2. CASE p = Driver
        <3>1. \A w \in Workers : lpc'[w] = lpc[w] /\ time'[w] = time[w]
            BY <1>1, <1>a, <2>2, LogCases
        <3>2. pc \in {"run", "mail"} => stamp' = stamp
            <4>1. pc \in {"run", "mail"} => stamp \in Now /\ None \notin Now /\ Empty \notin Now
                BY Basics, DriverKnows DEF DriverInv
            <4> QED BY <1>1, <2>2, <4>1, LogCases
        <3> QED BY <2>1, <3>1, <3>2 DEF WorkerInv
    <2>3. CASE p \in Workers
        <3>1. p # Driver /\ pc = "run"
            BY <1>1, <1>a, <2>3, LogCases
        <3>2. /\ stamp' = stamp
              /\ \/ lpc' = [lpc EXCEPT ![p] = "read"] /\ time' = time
                 \/ lpc' = [lpc EXCEPT ![p] = "done"] /\ time' = [time EXCEPT ![p] = stamp]
              /\ lpc[p] # "none"
            BY <1>1, <3>1, LogCases
        <3> QED BY <1>a, <2>1, <3>1, <3>2 DEF WorkerInv
    <2> QED BY <2>2, <2>3, Basics
<1>2. CASE BeginRound
    <2>1. pc = "begin" /\ pc' \in {"cmake", "log"} /\ \A w \in Workers : lpc'[w] = lpc[w]
        BY <1>2, <1>a DEF BeginRound
    <2>2. SplitCount' = SplitCount
        BY <1>2 DEF BeginRound, SplitCount
    <2> QED BY <2>1, <2>2 DEF WorkerInv
<1>3. CASE Cmake
    <2>1. pc = "cmake" /\ pc' = "log" /\ \A w \in Workers : lpc'[w] = lpc[w]
        BY <1>3, <1>a DEF Cmake
    <2>2. SplitCount' = SplitCount
        BY <1>3 DEF Cmake, SplitCount
    <2> QED BY <2>1, <2>2 DEF WorkerInv
<1>4. CASE Split
    <2>1. /\ pc = "split" /\ pc' = "run"
          /\ \A w \in Workers : lpc'[w] = IF w <= SplitCount THEN "look" ELSE lpc[w]
        BY <1>4, <1>a DEF Split
    <2>2. SplitCount' = SplitCount
        BY <1>4 DEF Split, SplitCount
    <2> QED BY <1>a, <2>1, <2>2 DEF WorkerInv
<1>5. CASE Join
    <2>1. pc = "run" /\ pc' = "mail" /\ UNCHANGED <<stamp, time>> /\ \A w \in Workers : lpc'[w] = lpc[w]
        BY <1>5, <1>a DEF Join
    <2>2. \A w \in Workers : w <= SplitCount => lpc[w] = "done"
        BY <1>5, <1>a DEF Join, Joined
    <2>3. SplitCount' = SplitCount
        BY <1>5 DEF Join, SplitCount
    <2> QED BY <1>a, <2>1, <2>2, <2>3 DEF WorkerInv
<1>6. CASE EndRound
    <2>1. pc = "mail" /\ pc' \in {"begin", "lastMail"} /\ \A w \in Workers : lpc'[w] = lpc[w]
        BY <1>6, <1>a DEF EndRound
    <2>2. SplitCount' = SplitCount
        BY <1>6 DEF EndRound, SplitCount
    <2> QED BY <2>1, <2>2 DEF WorkerInv
<1>7. ASSUME NEW b \in Tests \cup {None}, Echo(b) PROVE WorkerInv'
    <2>1. pc \in {"cmake", "make"}
        BY <1>7, EchoTime
    <2>2. UNCHANGED <<mode, pc, lpc, time>>
        BY <1>7 DEF Echo
    <2> QED BY <2>1, <2>2 DEF WorkerInv, SplitCount
<1>8. CASE UNCHANGED vars
    BY <1>8 DEF vars, WorkerInv, SplitCount
<1>9. CASE Quiet
    <2>1. UNCHANGED <<mode, stamp, lpc, time>> /\ SplitCount' = SplitCount
        BY <1>9 DEF Quiet, SplitCount
    <2>2. \/ pc = "run" /\ pc' = "run"
          \/ pc # "run" /\ pc' \notin {"run", "mail"}
        BY <1>9 DEF Quiet
    <2> QED BY <2>1, <2>2 DEF WorkerInv
<1>10. CASE MailRaises
    <2>1. /\ pc \in {"mail", "lastMail"} /\ pc' = "mailFailed"
          /\ \A w \in Workers : lpc'[w] = lpc[w]
        BY <1>10, <1>a DEF MailRaises
    <2>2. SplitCount' = SplitCount
        BY <1>10 DEF MailRaises, SplitCount
    <2> QED BY <2>1, <2>2 DEF WorkerInv
<1> QED BY QuietCases, <1>1, <1>2, <1>3, <1>4, <1>5, <1>6, <1>7, <1>8, <1>9, <1>10

(* Whatever is appended to a log in a round bears its time. *)
LEMMA LogStep ==
    ASSUME TypeOK, PhaseInv, DriverInv, WorkerInv, InfoInv, LogInv, [Next]_vars
    PROVE  LogInv'
<1> USE DEF GoToLog, Logged, suiteVars, daemonVars, runVars, logVars
<1>a. /\ None \notin Now /\ Empty \notin Now
      /\ round' = round => Now' = Now
    BY Basics DEF Now
<1>1. ASSUME UNCHANGED <<round, stamp, records, funcSet>>,
             pc' \notin {"begin", "lastMail", "over", "mailFailed"} =>
                 pc \notin {"begin", "lastMail", "over", "mailFailed"}
      PROVE  LogInv'
    BY <1>1, <1>a DEF LogInv
<1>2. ASSUME NEW p \in Procs, LogService(p) PROVE LogInv'
    <2>1. UNCHANGED <<round, pc, records, funcSet>> /\ Now' = Now
        BY <1>2, <1>a DEF LogService
    <2>2. stamp \in Now => stamp' = stamp
        BY <1>2, <1>a, LogCases
    <2> QED BY <2>1, <2>2 DEF LogInv
<1>3. CASE BeginRound
    <2>1. records' = {} /\ funcSet' = {}
        BY <1>3 DEF BeginRound
    <2> QED BY <2>1 DEF LogInv
<1>4. ASSUME NEW b \in Tests \cup {None}, Echo(b) PROVE LogInv'
    <2>1. stamp' \in Now /\ (stamp \in Now => stamp' = stamp) /\ pc \in {"cmake", "make"}
        BY <1>4, EchoTime
    <2>2. UNCHANGED <<round, pc, records>> /\ Now' = Now
        BY <1>4, <1>a DEF Echo
    <2>3. \A r \in funcSet' : r \in funcSet \/ r.time = stamp'
        BY <1>4 DEF Echo
    <2> QED BY <2>1, <2>2, <2>3 DEF LogInv
<1>5. ASSUME NEW T \in SUBSET Tests, NEW who \in {"sanity", "round"}, Record(T, who),
             pc \in {"retry", "run"}, UNCHANGED <<round, stamp, funcSet>>
      PROVE  LogInv'
    <2>1. stamp \in Now
        BY <1>5, DriverKnows
    <2>2. \A r \in records' : r \in records \/ r.time = stamp
        BY <1>5, RecordEffects
    <2> QED BY <1>5, <1>a, <2>1, <2>2 DEF LogInv
<1>6. ASSUME NEW t \in Tests, Retry(t) PROVE LogInv'
    <2>1. TestsIn(dirOf[t]) \cap desc \cap actors' \in SUBSET Tests
        BY DEF TestsIn
    <2> QED BY <1>5, <1>6, <2>1 DEF Retry
<1>7. ASSUME NEW w \in Workers, NEW t \in Tests, RunTest(w, t) PROVE LogInv'
    <2>1. {t} \cap desc \cap actors \in SUBSET Tests
        OBVIOUS
    <2> QED BY <1>5, <1>7, <2>1 DEF RunTest
<1>8. CASE Cmake
    BY <1>1, <1>8 DEF Cmake
<1>9. CASE StartBuild
    BY <1>1, <1>9 DEF StartBuild
<1>10. ASSUME NEW s \in PassSets, BuildRoot(s) PROVE LogInv'
    BY <1>1, <1>10 DEF BuildRoot
<1>11. CASE SanityCheck
    BY <1>1, <1>11 DEF SanityCheck
<1>12. CASE RetryRaises
    BY <1>1, <1>12 DEF RetryRaises
<1>13. CASE Distribute
    BY <1>1, <1>13 DEF Distribute, Retried
<1>14. CASE RemoveFailed
    BY <1>1, <1>14 DEF RemoveFailed
<1>15. CASE StartProfiled
    BY <1>1, <1>15 DEF StartProfiled
<1>16. CASE WriteInfo
    BY <1>1, <1>16 DEF WriteInfo
<1>17. CASE BuildAssigned
    BY <1>1, <1>17 DEF BuildAssigned
<1>18. CASE CheckAssignedTest
    BY <1>1, <1>18 DEF CheckAssignedTest
<1>19. CASE Split
    BY <1>1, <1>19 DEF Split
<1>20. CASE Join
    BY <1>1, <1>20 DEF Join
<1>21. CASE EndRound
    BY <1>21 DEF EndRound, LogInv
<1>22. CASE LastMail
    BY <1>22 DEF LastMail, LogInv
<1>23. CASE UNCHANGED vars
    BY <1>1, <1>23 DEF vars
<1>24. CASE MailRaises
    BY <1>24 DEF MailRaises, LogInv
<1> QED BY NextCases, <1>2, <1>3, <1>4, <1>6, <1>7, <1>8, <1>9, <1>10, <1>11, <1>12, <1>13,
           <1>14, <1>15, <1>16, <1>17, <1>18, <1>19, <1>20, <1>21, <1>22, <1>23, <1>24

-------------------------------------------------------------------------------
(* What is built, and the PyActors *)

(* A step that leaves the build alone. *)
BuildKept ==
    /\ UNCHANGED <<mode, elf, built, actors, inputSetAll, records>>
    /\ \/ UNCHANGED <<round, pc, k>>
       \/ pc = "cmake" /\ pc' = "log" /\ UNCHANGED <<round, k>>
       \/ pc # "begin" /\ pc' \notin {"cmake", "log", "build"}

(* The steps that concern what is built, and those that do not. *)
LEMMA BuildCases ==
    ASSUME [Next]_vars
    PROVE  \/ BeginRound \/ StartBuild \/ (\E s \in PassSets : BuildRoot(s))
           \/ (\E t \in Tests : Retry(t)) \/ Distribute \/ BuildAssigned \/ CheckAssignedTest
           \/ (\E w \in Workers, t \in Tests : RunTest(w, t)) \/ BuildKept
<1> USE DEF Logged, GoToLog, BuildKept, setVars, suiteVars, buildVars, runVars
<1>1. ASSUME NEW p \in Procs, LogService(p) PROVE BuildKept
    BY <1>1 DEF LogService
<1>2. CASE Cmake
    BY <1>2 DEF Cmake
<1>3. CASE SanityCheck
    BY <1>3 DEF SanityCheck
<1>4. CASE RetryRaises
    BY <1>4 DEF RetryRaises
<1>5. CASE RemoveFailed
    BY <1>5 DEF RemoveFailed
<1>6. CASE StartProfiled
    BY <1>6 DEF StartProfiled
<1>7. CASE WriteInfo
    BY <1>7 DEF WriteInfo
<1>8. CASE Split
    BY <1>8 DEF Split
<1>9. CASE Join
    BY <1>9 DEF Join
<1>10. CASE EndRound
    BY <1>10 DEF EndRound
<1>11. CASE LastMail
    BY <1>11 DEF LastMail
<1>12. ASSUME NEW b \in Tests \cup {None}, Echo(b) PROVE BuildKept
    BY <1>12 DEF Echo
<1>13. CASE UNCHANGED vars
    BY <1>13 DEF vars
<1>14. CASE MailRaises
    BY <1>14 DEF MailRaises
<1> QED BY NextCases, <1>1, <1>2, <1>3, <1>4, <1>5, <1>6, <1>7, <1>8, <1>9, <1>10, <1>11,
           <1>12, <1>13, <1>14

(* The roots are built in their order. *)
LEMMA FreshStep ==
    ASSUME TypeOK, PhaseInv, FreshInv, [Next]_vars
    PROVE  FreshInv'
<1> USE DEF GoToLog, Logged, FreshInv, Rebuild
<1>1. CASE BeginRound
    BY <1>1 DEF BeginRound
<1>2. CASE StartBuild
    BY <1>2 DEF StartBuild, suiteVars, buildVars
<1>3. ASSUME NEW s \in PassSets, BuildRoot(s) PROVE FreshInv'
    <2>1. pc = "build" /\ k \in DOMAIN Roots /\ k \in Nat /\ UNCHANGED <<mode, round>>
        BY <1>3, LitAssumption DEF BuildRoot, PhaseInv
    <2>2. CASE pc' = "build" /\ Rebuild
        <3>1. k' = k + 1
            BY <1>3, <2>2 DEF BuildRoot
        <3> DEFINE T == {t \in Tests : InRoot(t)}
        <3>2. Make(T, s) /\ T \in SUBSET Tests /\ s \in PassSets \cup {None}
            BY <1>3, <2>2 DEF BuildRoot
        <3> HIDE DEF T
        <3>3. /\ actors' \subseteq actors
              /\ \A t \in Tests : elf[t] # "none" \/ t \notin T => elf'[t] = elf[t]
            BY <3>2, MakeEffects
        <3>4. \A t \in T : RootAt(t) = Roots[k]
            BY DEF T, InRoot, RootAt
        <3>5. ASSUME NEW t \in Tests, elf'[t] # "none"
              PROVE  \E j \in 1 .. k' - 1 : RootAt(t) = Roots[j]
            <4>1. CASE elf[t] # "none"
                <5>1. PICK j \in 1 .. k - 1 : RootAt(t) = Roots[j]
                    BY <2>1, <2>2, <4>1
                <5>2. j \in 1 .. k' - 1
                    BY <2>1, <3>1
                <5> QED BY <5>1, <5>2
            <4>2. CASE elf[t] = "none"
                <5>1. t \in T /\ k \in 1 .. k' - 1
                    BY <2>1, <3>1, <3>3, <3>5, <4>2, LitAssumption
                <5> QED BY <3>4, <5>1
            <4> QED BY <4>1, <4>2
        <3> QED BY <2>1, <2>2, <3>3, <3>5 DEF RootAt
    <2>3. CASE pc' # "build"
        BY <1>3, <2>3 DEF BuildRoot
    <2>4. CASE ~Rebuild
        BY <2>1, <2>4
    <2> QED BY <2>2, <2>3, <2>4
<1>4. ASSUME NEW t \in Tests, Retry(t) PROVE FreshInv'
    BY <1>4 DEF Retry
<1>5. CASE Distribute
    BY <1>5 DEF Distribute, Retried
<1>6. CASE BuildAssigned
    BY <1>6 DEF BuildAssigned
<1>7. CASE CheckAssignedTest
    BY <1>7 DEF CheckAssignedTest
<1>8. ASSUME NEW w \in Workers, NEW t \in Tests, RunTest(w, t) PROVE FreshInv'
    BY <1>8 DEF RunTest
<1>9. CASE BuildKept
    BY <1>9 DEF BuildKept, RootAt
<1> QED BY BuildCases, <1>1, <1>2, <1>3, <1>4, <1>5, <1>6, <1>7, <1>8, <1>9

(* Make builds with the pass set that was chosen for the root. *)
LEMMA BuiltStep ==
    ASSUME TypeOK, PhaseInv, FreshInv, BuiltInv, [Next]_vars
    PROVE  BuiltInv'
<1> USE DEF GoToLog, Logged
<1>a. /\ \A t \in Tests : RootAt(t) \in Range(Roots)
      /\ BenchmarkLevel \/ FunctionLevel => Rebuild /\ ~(BenchmarkLevel /\ FunctionLevel)
    BY WalkProperties DEF Rebuild, BenchmarkLevel, FunctionLevel
<1>b. ASSUME UNCHANGED <<mode, inputSetAll>>, pc # "begin",
             \A t \in Tests : elf'[t] # "none" =>
                 \/ elf[t] # "none" /\ built'[t] = built[t]
                 \/ BenchmarkLevel /\ built'[t] = inputSetAll[RootAt(t)]
                 \/ FunctionLevel /\ built'[t] = None
      PROVE  BuiltInv'
    BY <1>b DEF BuiltInv, FunctionLevel, BenchmarkLevel, RootAt
<1>1. CASE BeginRound
    <2>1. UNCHANGED mode
        BY <1>1 DEF BeginRound
    <2>2. BenchmarkLevel \/ FunctionLevel => elf' = [t \in Tests |-> "none"]
        BY <1>1, <1>a DEF BeginRound
    <2> QED BY <2>1, <2>2 DEF BuiltInv, FunctionLevel, BenchmarkLevel
<1>2. CASE StartBuild
    <2>1. UNCHANGED <<mode, elf>> /\ ~FunctionLevel /\ pc = "log"
        BY <1>2 DEF StartBuild, suiteVars, buildVars
    <2>2. BenchmarkLevel => \A t \in Tests : elf[t] = "none"
        BY <1>a, <2>1 DEF FreshInv
    <2> QED BY <2>1, <2>2 DEF BuiltInv, FunctionLevel, BenchmarkLevel
<1>3. ASSUME NEW s \in PassSets, BuildRoot(s) PROVE BuiltInv'
    <2>1. /\ pc = "build" /\ ~FunctionLevel /\ k \in DOMAIN Roots /\ UNCHANGED mode
          /\ inputSetAll' = [inputSetAll EXCEPT ![Roots[k]] = s]
        BY <1>3 DEF BuildRoot, PhaseInv
    <2>2. CASE BenchmarkLevel
        <3> DEFINE T == {t \in Tests : InRoot(t)}
        <3>1. Make(T, s) /\ T \in SUBSET Tests /\ s \in PassSets \cup {None}
            BY <1>3, <1>a, <2>2 DEF BuildRoot
        <3>2. \A t \in Tests : t \in T <=> RootAt(t) = Roots[k]
            BY DEF T, InRoot, RootAt
        <3> HIDE DEF T
        <3>3. /\ \A t \in Tests : elf[t] # "none" \/ t \notin T =>
                     elf'[t] = elf[t] /\ built'[t] = built[t]
              /\ \A t \in T : elf[t] = "none" /\ elf'[t] # "none" => built'[t] = s
            BY <3>1, MakeEffects
        <3>4. DOMAIN inputSetAll = Range(Roots) /\ Roots[k] \in Range(Roots)
            BY <2>1 DEF TypeOK, Range
        <3>5. ASSUME NEW t \in Tests, elf'[t] # "none" PROVE built'[t] = inputSetAll'[RootAt(t)]
            <4>1. CASE elf[t] # "none"
                <5>1. PICK j \in 1 .. k - 1 : RootAt(t) = Roots[j]
                    BY <1>a, <2>1, <2>2, <4>1 DEF FreshInv
                <5>2. j \in DOMAIN Roots /\ j # k
                    BY <2>1, LitAssumption
                <5>3. RootAt(t) # Roots[k]
                    BY <2>1, <5>1, <5>2, WalkProperties
                <5>4. inputSetAll'[RootAt(t)] = inputSetAll[RootAt(t)]
                    BY <1>a, <2>1, <3>4, <5>3
                <5>5. built[t] = inputSetAll[RootAt(t)]
                    BY <2>1, <2>2, <4>1 DEF BuiltInv
                <5> QED BY <3>3, <4>1, <5>4, <5>5
            <4>2. CASE elf[t] = "none"
                <5>1. t \in T /\ built'[t] = s
                    BY <3>3, <3>5, <4>2
                <5> QED BY <2>1, <3>2, <3>4, <5>1
            <4> QED BY <4>1, <4>2
        <3> QED BY <2>1, <3>5 DEF BuiltInv, FunctionLevel, BenchmarkLevel, RootAt
    <2>3. CASE ~BenchmarkLevel
        BY <2>1, <2>3 DEF BuiltInv, FunctionLevel, BenchmarkLevel
    <2> QED BY <2>2, <2>3
<1>4. ASSUME NEW u \in Tests, Retry(u) PROVE BuiltInv'
    <2> DEFINE T == TestsIn(dirOf[u])
               s == inputSetAll[RootAt(u)]
    <2>1. /\ T \in SUBSET Tests /\ s \in PassSets \cup {None}
          /\ \A t \in T : inputSetAll[RootAt(t)] = s
        BY <1>a DEF TestsIn, TypeOK, RootAt
    <2>2. UNCHANGED <<mode, inputSetAll>> /\ Make(T, s) /\ pc # "begin" /\ ~FunctionLevel
        BY <1>4 DEF Retry, RootAt, PhaseInv
    <2> HIDE DEF T, s
    <2>3. /\ \A t \in Tests : elf[t] # "none" \/ t \notin T =>
                 elf'[t] = elf[t] /\ built'[t] = built[t]
          /\ \A t \in T : elf[t] = "none" /\ elf'[t] # "none" => built'[t] = s
        BY <2>1, <2>2, MakeEffects
    <2>4. CASE BenchmarkLevel
        BY <1>b, <2>1, <2>2, <2>3, <2>4
    <2>5. CASE ~BenchmarkLevel
        BY <2>2, <2>5 DEF BuiltInv, BenchmarkLevel, FunctionLevel
    <2> QED BY <2>4, <2>5
<1>5. CASE Distribute
    <2>1. /\ UNCHANGED <<mode, inputSetAll, built>> /\ pc # "begin"
          /\ \A t \in Tests : elf'[t] \in {"none", elf[t]}
        BY <1>5 DEF Distribute, Retried, setVars
    <2> QED BY <1>b, <2>1
<1>6. CASE BuildAssigned
    <2> DEFINE T == {Profiled[k]}
    <2>1. T \in SUBSET Tests /\ None \in PassSets \cup {None} /\ FunctionLevel
        BY <1>6, LitAssumption DEF BuildAssigned, PhaseInv
    <2>2. UNCHANGED <<mode, inputSetAll>> /\ Make(T, None) /\ pc # "begin"
        BY <1>6 DEF BuildAssigned, setVars
    <2> HIDE DEF T
    <2>4. /\ \A t \in Tests : elf[t] # "none" \/ t \notin T =>
                 elf'[t] = elf[t] /\ built'[t] = built[t]
          /\ \A t \in T : elf[t] = "none" /\ elf'[t] # "none" => built'[t] = None
        BY <2>1, <2>2, MakeEffects
    <2> QED BY <1>b, <2>1, <2>2, <2>4
<1>7. CASE CheckAssignedTest
    BY <1>b, <1>7 DEF CheckAssignedTest, setVars
<1>8. ASSUME NEW w \in Workers, NEW t \in Tests, RunTest(w, t) PROVE BuiltInv'
    BY <1>b, <1>8 DEF RunTest, setVars, suiteVars, buildVars
<1>9. CASE BuildKept
    <2>1. CASE pc # "begin"
        BY <1>b, <1>9, <2>1 DEF BuildKept
    <2>2. CASE pc = "begin"
        BY <1>9, <2>2 DEF BuildKept, BuiltInv
    <2> QED BY <2>1, <2>2
<1> QED BY BuildCases, <1>1, <1>2, <1>3, <1>4, <1>5, <1>6, <1>7, <1>8, <1>9

(* Nothing that has a PyActor loses its elf. *)
LEMMA ActorStep ==
    ASSUME TypeOK, PhaseInv, ActorInv, [Next]_vars
    PROVE  ActorInv'
<1> USE DEF GoToLog, Logged
<1>a. ASSUME UNCHANGED mode, actors' \subseteq actors,
             \A t \in Tests : elf[t] # "none" => elf'[t] # "none",
             \A r \in records' : r \in records \/ r.test \in actors
      PROVE  ActorInv'
    <2>1. actors \subseteq Tests /\ \A r \in records : r.test \in Tests
        BY DEF TypeOK
    <2> QED BY <1>a, <2>1 DEF ActorInv, FunctionLevel
<1>1. CASE BeginRound
    <2>1. UNCHANGED mode /\ records' = {}
        BY <1>1 DEF BeginRound
    <2>2. actors' = {} \/ UNCHANGED <<elf, actors>>
        BY <1>1 DEF BeginRound, buildVars
    <2> QED BY <2>1, <2>2 DEF ActorInv, FunctionLevel
<1>2. CASE StartBuild
    BY <1>a, <1>2 DEF StartBuild, suiteVars, buildVars, runVars
<1>3. ASSUME NEW s \in PassSets, BuildRoot(s) PROVE ActorInv'
    <2>1. UNCHANGED <<mode, records>>
        BY <1>3 DEF BuildRoot, runVars
    <2>2. CASE Rebuild
        <3> DEFINE T == {t \in Tests : InRoot(t)}
        <3>1. Make(T, s) /\ T \in SUBSET Tests /\ s \in PassSets \cup {None}
            BY <1>3, <2>2 DEF BuildRoot
        <3> HIDE DEF T
        <3> QED BY <1>a, <2>1, <3>1, MakeEffects
    <2>3. CASE ~Rebuild
        BY <1>a, <1>3, <2>1, <2>3 DEF BuildRoot
    <2> QED BY <2>2, <2>3
<1>4. ASSUME NEW u \in Tests, Retry(u) PROVE ActorInv'
    <2> DEFINE T == TestsIn(dirOf[u])
               s == inputSetAll[RootAt(u)]
    <2>1. /\ T \in SUBSET Tests /\ s \in PassSets \cup {None}
          /\ T \cap desc \cap actors' \in SUBSET Tests
        BY WalkProperties DEF TestsIn, TypeOK
    <2>2. UNCHANGED mode /\ Make(T, s) /\ Record(T \cap desc \cap actors', "sanity")
        BY <1>4 DEF Retry, RootAt
    <2> HIDE DEF T, s
    <2>3. /\ actors' \subseteq actors
          /\ \A t \in Tests : elf[t] # "none" => elf'[t] = elf[t]
        BY <2>1, <2>2, MakeEffects
    <2>4. \A r \in records' : r \in records \/ r.test \in T \cap desc \cap actors'
        BY <2>1, <2>2, RecordEffects
    <2> QED BY <1>a, <2>2, <2>3, <2>4
<1>5. CASE Distribute
    <2>1. /\ UNCHANGED <<mode, records>> /\ ~FunctionLevel
          /\ actors' = actors \cup Range(Kept)
          /\ \A t \in Tests : dirOf[t] \notin Skipped => elf'[t] = elf[t]
        BY <1>5 DEF Distribute, Retried, Kept, PhaseInv, runVars
    <2>2. \A t \in Range(Kept) : t \in Tests /\ dirOf[t] \notin Skipped /\ elf[t] # "none"
        BY KeptProperties
    <2>3. \A t \in actors : t \in Tests /\ dirOf[t] \notin Skipped /\ elf[t] # "none"
        BY <2>1 DEF ActorInv, TypeOK
    <2>4. \A r \in records : r.test \in Tests /\ dirOf[r.test] \notin Skipped /\ elf[r.test] # "none"
        BY <2>1 DEF ActorInv, TypeOK
    <2> QED BY <2>1, <2>2, <2>3, <2>4 DEF ActorInv
<1>6. CASE BuildAssigned
    <2> DEFINE T == {Profiled[k]}
    <2>1. T \in SUBSET Tests /\ None \in PassSets \cup {None}
        BY <1>6, LitAssumption DEF BuildAssigned, PhaseInv
    <2>2. UNCHANGED <<mode, records>> /\ Make(T, None)
        BY <1>6 DEF BuildAssigned, runVars
    <2> HIDE DEF T
    <2> QED BY <1>a, <2>1, <2>2, MakeEffects
<1>7. CASE CheckAssignedTest
    <2>1. /\ UNCHANGED <<mode, elf, records>> /\ FunctionLevel
          /\ \A t \in actors' : t \in actors \/ elf[t] = "good"
        BY <1>7 DEF CheckAssignedTest, PhaseInv, runVars
    <2> QED BY <2>1 DEF ActorInv, FunctionLevel
<1>8. ASSUME NEW w \in Workers, NEW t \in Tests, RunTest(w, t) PROVE ActorInv'
    <2> DEFINE T == {t} \cap desc \cap actors
    <2>1. UNCHANGED <<mode, elf, actors>> /\ Record(T, "round") /\ T \in SUBSET Tests
        BY <1>8 DEF RunTest, suiteVars, buildVars
    <2>2. T \subseteq actors
        OBVIOUS
    <2> HIDE DEF T
    <2>3. \A r \in records' : r \in records \/ r.test \in T
        BY <2>1, RecordEffects
    <2> QED BY <1>a, <2>1, <2>2, <2>3
<1>9. CASE BuildKept
    BY <1>a, <1>9 DEF BuildKept
<1> QED BY BuildCases, <1>1, <1>2, <1>3, <1>4, <1>5, <1>6, <1>7, <1>8, <1>9

(* The set that a line of the Features log bears. *)
Labelled(r) ==
    /\ BenchmarkLevel => r.set = built[r.test]
    /\ FunctionLevel => r.set = inputSetAll[RootAt(r.test)] /\ built[r.test] = None

(* The Features log names the pass set of the build, or an earlier one. *)
LEMMA LabelStep ==
    ASSUME TypeOK, PhaseInv, DriverInv, InfoInv, BuiltInv, ActorInv, LabelIsBuild, [Next]_vars
    PROVE  LabelIsBuild'
<1> USE DEF GoToLog, Logged
<1>a. /\ \A r \in records : r.test \in Tests /\ elf[r.test] # "none"
      /\ \A t \in actors : t \in Tests /\ elf[t] # "none"
    BY DEF ActorInv, TypeOK
<1>b. \A e \in funcSet' : e.of \in {e.bench, None}
    <2>1. ASSUME NEW b \in Tests \cup {None}, Echo(b) PROVE \A e \in funcSet' : e.of \in {e.bench, None}
        <3>1. b \in {info, None}
            BY <2>1, EchoTime
        <3>2. funcSet' \subseteq funcSet \cup {[bench |-> info, of |-> b, time |-> stamp']}
            BY <2>1 DEF Echo
        <3> QED BY <3>1, <3>2 DEF LabelIsBuild
    <2>2. ASSUME funcSet' = funcSet \/ funcSet' = {}
          PROVE \A e \in funcSet' : e.of \in {e.bench, None}
        BY <2>2 DEF LabelIsBuild
    <2>3. \/ funcSet' = funcSet \/ funcSet' = {}
          \/ \E b \in Tests \cup {None} : Echo(b)
        <3> USE NextCases DEF suiteVars, daemonVars
        <3>1. ASSUME NEW p \in Procs, LogService(p) PROVE funcSet' = funcSet
            BY <3>1 DEF LogService
        <3>2. BeginRound => funcSet' = {}
            BY DEF BeginRound
        <3>3. Cmake \/ StartBuild \/ SanityCheck \/ RetryRaises \/ Distribute \/ RemoveFailed
              \/ StartProfiled \/ WriteInfo \/ BuildAssigned \/ CheckAssignedTest \/ Split
              \/ Join \/ EndRound \/ LastMail \/ MailRaises => funcSet' = funcSet
            BY DEF Cmake, StartBuild, SanityCheck, RetryRaises, Distribute, RemoveFailed,
               StartProfiled, WriteInfo, BuildAssigned, CheckAssignedTest, Split,
               Join, EndRound, LastMail, MailRaises
        <3>4. ASSUME NEW s \in PassSets, BuildRoot(s) PROVE funcSet' = funcSet
            BY <3>4 DEF BuildRoot
        <3>5. ASSUME NEW t \in Tests, Retry(t) PROVE funcSet' = funcSet
            BY <3>5 DEF Retry
        <3>6. ASSUME NEW w \in Workers, NEW t \in Tests, RunTest(w, t) PROVE funcSet' = funcSet
            BY <3>6 DEF RunTest
        <3>7. UNCHANGED vars => funcSet' = funcSet
            BY DEF vars
        <3> QED BY <3>1, <3>2, <3>3, <3>4, <3>5, <3>6, <3>7
    <2> QED BY <2>1, <2>2, <2>3
<1>c. ASSUME UNCHANGED mode, FunctionLevel => UNCHANGED inputSetAll,
             \A t \in Tests : elf[t] # "none" => built'[t] = built[t],
             \A r \in records' : r \in records \/ (r.test \in actors /\ Labelled(r))
      PROVE  LabelIsBuild'
    <2>1. \A r \in records' : Labelled(r) /\ built'[r.test] = built[r.test]
        BY <1>a, <1>c DEF LabelIsBuild, Labelled, RootAt
    <2> QED BY <1>b, <1>c, <2>1 DEF LabelIsBuild, Labelled, RootAt, BenchmarkLevel, FunctionLevel
<1>d. ASSUME NEW T \in SUBSET actors, NEW who \in {"sanity", "round"}, Record(T, who), pc # "begin"
      PROVE  \A r \in records' : r \in records \/ (r.test \in actors /\ Labelled(r))
    <2>1. T \in SUBSET Tests
        BY <1>a
    <2>2. \A r \in records' :
              r \in records \/ (r.test \in T /\ r.set = inputSetAll[RootAt(r.test)])
        BY <1>d, <2>1, RecordEffects
    <2>3. \A t \in T : /\ BenchmarkLevel => built[t] = inputSetAll[RootAt(t)]
                       /\ FunctionLevel => built[t] = None
        BY <1>a, <1>d DEF BuiltInv
    <2>4. ASSUME NEW r \in records', r \notin records PROVE r.test \in actors /\ Labelled(r)
        <3>1. r.test \in T /\ r.test \in actors /\ r.set = inputSetAll[RootAt(r.test)]
            BY <1>d, <2>2, <2>4
        <3>2. BenchmarkLevel => r.set = built[r.test]
            BY <2>3, <3>1
        <3>3. FunctionLevel => built[r.test] = None
            BY <2>3, <3>1
        <3> QED BY <3>1, <3>2, <3>3 DEF Labelled
    <2> QED BY <2>4
<1>1. CASE BeginRound
    BY <1>1, <1>b DEF BeginRound, LabelIsBuild
<1>2. CASE StartBuild
    BY <1>c, <1>2 DEF StartBuild, suiteVars, buildVars, runVars
<1>3. ASSUME NEW s \in PassSets, BuildRoot(s) PROVE LabelIsBuild'
    <2>1. UNCHANGED <<mode, records>> /\ ~FunctionLevel
        BY <1>3 DEF BuildRoot, runVars, PhaseInv
    <2>2. CASE Rebuild
        <3> DEFINE T == {t \in Tests : InRoot(t)}
        <3>1. Make(T, s) /\ T \in SUBSET Tests /\ s \in PassSets \cup {None}
            BY <1>3, <2>2 DEF BuildRoot
        <3> HIDE DEF T
        <3>2. \A t \in Tests : elf[t] # "none" => built'[t] = built[t]
            BY <3>1, MakeEffects
        <3> QED BY <1>c, <2>1, <3>2
    <2>3. CASE ~Rebuild
        BY <1>c, <1>3, <2>1, <2>3 DEF BuildRoot
    <2> QED BY <2>2, <2>3
<1>4. ASSUME NEW u \in Tests, Retry(u) PROVE LabelIsBuild'
    <2> DEFINE T == TestsIn(dirOf[u])
               s == inputSetAll[RootAt(u)]
    <2>1. T \in SUBSET Tests /\ s \in PassSets \cup {None}
        BY WalkProperties DEF TestsIn, TypeOK
    <2>2. /\ UNCHANGED <<mode, inputSetAll>> /\ pc # "begin" /\ Make(T, s)
          /\ Record(T \cap desc \cap actors', "sanity")
        BY <1>4 DEF Retry, RootAt
    <2> HIDE DEF T, s
    <2>3. /\ actors' \subseteq actors
          /\ \A t \in Tests : elf[t] # "none" => built'[t] = built[t]
        BY <2>1, <2>2, MakeEffects
    <2>4. T \cap desc \cap actors' \in SUBSET actors
        BY <2>3
    <2>5. \A r \in records' : r \in records \/ (r.test \in actors /\ Labelled(r))
        BY <1>d, <2>2, <2>4
    <2> QED BY <1>c, <2>2, <2>3, <2>5
<1>5. CASE Distribute
    BY <1>c, <1>5 DEF Distribute, runVars, setVars
<1>6. CASE BuildAssigned
    <2> DEFINE T == {Profiled[k]}
    <2>1. T \in SUBSET Tests /\ None \in PassSets \cup {None}
        BY <1>6, LitAssumption DEF BuildAssigned, PhaseInv
    <2>2. UNCHANGED <<mode, records, inputSetAll>> /\ Make(T, None)
        BY <1>6 DEF BuildAssigned, runVars, setVars
    <2> HIDE DEF T
    <2>3. \A t \in Tests : elf[t] # "none" => built'[t] = built[t]
        BY <2>1, <2>2, MakeEffects
    <2> QED BY <1>c, <2>2, <2>3
<1>7. CASE CheckAssignedTest
    BY <1>c, <1>7 DEF CheckAssignedTest, runVars, setVars
<1>8. ASSUME NEW w \in Workers, NEW t \in Tests, RunTest(w, t) PROVE LabelIsBuild'
    <2>1. /\ UNCHANGED <<mode, built, inputSetAll>> /\ Record({t} \cap desc \cap actors, "round")
          /\ pc # "begin"
        BY <1>8 DEF RunTest, suiteVars, buildVars, setVars
    <2>2. \A r \in records' : r \in records \/ (r.test \in actors /\ Labelled(r))
        BY <1>d, <2>1
    <2> QED BY <1>c, <2>1, <2>2
<1>9. CASE BuildKept
    BY <1>c, <1>9 DEF BuildKept
<1> QED BY BuildCases, <1>1, <1>2, <1>3, <1>4, <1>5, <1>6, <1>7, <1>8, <1>9

-------------------------------------------------------------------------------
(* The sanity check *)

LEMMA TodoStep ==
    ASSUME TypeOK, TodoInv, [Next]_vars
    PROVE  TodoInv'
<1> USE DEF GoToLog, Logged, sanityVars, suiteVars
<1>1. CASE SanityCheck
    <2>1. todo' = noexe' /\ \A t \in Tests : noexe'[t] \in Nat
        BY <1>1 DEF SanityCheck, WithLines, TypeOK
    <2> QED BY <2>1 DEF TodoInv
<1>2. ASSUME NEW u \in Tests, Retry(u) PROVE TodoInv'
    <2>1. /\ noexe' = [WithLines(NoExe(TestsIn(dirOf[u]), elf')) EXCEPT ![u] = @ - 1]
          /\ todo' = [todo EXCEPT ![u] = @ - 1] /\ pc = "retry"
        BY <1>2 DEF Retry
    <2>2. ASSUME NEW t \in Tests PROVE todo'[t] <= noexe'[t]
        <3> DEFINE W == WithLines(NoExe(TestsIn(dirOf[u]), elf'))
        <3>1. /\ noexe[t] \in Nat /\ todo[t] \in Nat /\ todo[t] <= noexe[t]
              /\ DOMAIN todo = Tests
            BY <2>1 DEF TypeOK, TodoInv
        <3>2. DOMAIN W = Tests /\ W[t] \in {noexe[t], noexe[t] + 1}
            BY <3>1 DEF WithLines
        <3>3. /\ todo'[t] = IF t = u THEN todo[t] - 1 ELSE todo[t]
              /\ noexe'[t] = IF t = u THEN W[t] - 1 ELSE W[t]
            BY <2>1, <3>1, <3>2
        <3> HIDE DEF W
        <3> QED BY <3>1, <3>2, <3>3
    <2> QED BY <2>2 DEF TodoInv
<1>3. ASSUME UNCHANGED <<todo, noexe>>, pc' = "retry" => pc = "retry" PROVE TodoInv'
    BY <1>3 DEF TodoInv
<1>4. ASSUME pc' # "retry" PROVE TodoInv'
    BY <1>4 DEF TodoInv
<1>5. ASSUME NEW p \in Procs, LogService(p) PROVE TodoInv'
    BY <1>3, <1>5 DEF LogService
<1>6. ASSUME NEW b \in Tests \cup {None}, Echo(b) PROVE TodoInv'
    BY <1>3, <1>6 DEF Echo
<1>7. ASSUME NEW s \in PassSets, BuildRoot(s) PROVE TodoInv'
    BY <1>4, <1>7 DEF BuildRoot
<1>8. ASSUME NEW w \in Workers, NEW t \in Tests, RunTest(w, t) PROVE TodoInv'
    BY <1>4, <1>8 DEF RunTest
<1>9. BeginRound \/ Cmake \/ StartBuild \/ RetryRaises \/ Distribute \/ RemoveFailed
      \/ StartProfiled \/ WriteInfo \/ BuildAssigned \/ CheckAssignedTest \/ Split
      \/ Join \/ EndRound \/ LastMail \/ MailRaises => TodoInv'
    BY <1>4 DEF BeginRound, Cmake, StartBuild, RetryRaises, Distribute, RemoveFailed,
       StartProfiled, WriteInfo, BuildAssigned, CheckAssignedTest, Split, Join, EndRound,
       LastMail, MailRaises
<1>10. CASE UNCHANGED vars
    BY <1>3, <1>10 DEF vars
<1> QED BY NextCases, <1>1, <1>2, <1>5, <1>6, <1>7, <1>8, <1>9, <1>10

(* What fails the sanity check is known, or loses its .test file. *)
LEMMA FailedStep ==
    ASSUME TypeOK, PhaseInv, FreshInv, ActorInv, FailedInv, [Next]_vars
    PROVE  FailedInv'
<1> USE DEF GoToLog, Logged, suiteVars, buildVars, sanityVars, runVars
<1>a. /\ elf \in [Tests -> {"none", "bad", "good"}]
      /\ actors \subseteq Tests /\ desc \subseteq Tests /\ failed \subseteq Tests
      /\ \A r \in records : r.by \in {"sanity", "round"}
    BY DEF TypeOK
(* A step that changes nothing here, within a part of the round. *)
<1>b. ASSUME UNCHANGED <<pc, k, elf, actors, desc, failed, records>> PROVE FailedInv'
    <2>1. Checked' = Checked
        BY <1>b DEF Checked, RootAt
    <2> QED BY <1>b, <2>1 DEF FailedInv
<1>c. ASSUME UNCHANGED <<elf, actors, desc, failed>>,
             pc \notin {"sanity", "retry", "remove", "crashed"},
             pc' \notin {"sanity", "retry", "remove", "cmake", "log"},
             pc' \in {"info", "make", "check"} => pc \in {"log", "info", "make", "check"},
             \/ pc' \in {"run", "mail", "begin", "lastMail", "over", "mailFailed"}
             \/ UNCHANGED records /\ pc \notin {"run", "mail", "begin", "lastMail", "over", "mailFailed"}
      PROVE  FailedInv'
    BY <1>c DEF FailedInv
<1>1. ASSUME NEW p \in Procs, LogService(p) PROVE FailedInv'
    BY <1>b, <1>1 DEF LogService
<1>2. CASE BeginRound
    <2>1. pc = "begin" /\ pc' \in {"cmake", "log"} /\ failed' = {} /\ records' = {}
        BY <1>2 DEF BeginRound
    <2>2. desc' = {} \/ UNCHANGED <<elf, actors, desc>>
        BY <1>2 DEF BeginRound
    <2> QED BY <2>1, <2>2 DEF FailedInv
<1>3. CASE Cmake
    <2>1. pc = "cmake" /\ pc' = "log" /\ UNCHANGED <<actors, failed, records>>
        BY <1>3 DEF Cmake
    <2>2. actors = {}
        BY <2>1 DEF FreshInv, PhaseInv
    <2> QED BY <2>1, <2>2 DEF FailedInv
<1>4. CASE StartBuild
    BY <1>c, <1>4 DEF StartBuild
<1>5. ASSUME NEW s \in PassSets, BuildRoot(s) PROVE FailedInv'
    <2>1. /\ pc = "build" /\ pc' \in {"build", "sanity", "split"}
          /\ pc' = "sanity" => k' = 1
          /\ UNCHANGED <<desc, failed, records>>
        BY <1>5 DEF BuildRoot
    <2>2. CASE Rebuild
        <3> DEFINE T == {t \in Tests : InRoot(t)}
        <3>1. Make(T, s) /\ T \in SUBSET Tests /\ s \in PassSets \cup {None} /\ actors = {}
            BY <1>5, <2>1, <2>2 DEF BuildRoot, FreshInv
        <3> HIDE DEF T
        <3>2. actors' = {}
            BY <3>1, MakeEffects
        <3>3. pc' = "sanity" => Checked' = {}
            BY <2>1, LitAssumption DEF Checked
        <3> QED BY <2>1, <3>2, <3>3 DEF FailedInv
    <2>3. CASE ~Rebuild
        <3>1. UNCHANGED <<elf, actors>> /\ pc' # "sanity"
            BY <1>5, <2>3 DEF BuildRoot
        <3> QED BY <1>c, <2>1, <3>1
    <2> QED BY <2>2, <2>3
<1>6. CASE SanityCheck
    <2>1. /\ pc = "sanity" /\ pc' = "retry" /\ UNCHANGED <<k, elf, desc, records>>
          /\ failed' = failed \cup Failing({t \in Tests : InRoot(t)}, elf)
        BY <1>6 DEF SanityCheck
    <2>2. ASSUME NEW t \in desc \cap Checked', elf[t] = "bad" PROVE t \in failed'
        <3>1. PICK j \in DOMAIN Roots : RootAt(t) = Roots[j] /\ (j < k \/ j = k)
            BY <2>1 DEF Checked, RootAt
        <3>2. CASE j < k
            <4>1. t \in Checked
                BY <1>a, <3>1, <3>2 DEF Checked
            <4> QED BY <2>1, <2>2, <4>1 DEF FailedInv
        <3>3. CASE j = k
            <4>1. t \in Failing({u \in Tests : InRoot(u)}, elf)
                BY <1>a, <2>2, <3>1, <3>3 DEF Failing, InRoot, RootAt
            <4> QED BY <2>1, <4>1
        <3> QED BY <3>1, <3>2, <3>3
    <2> QED BY <2>1, <2>2 DEF FailedInv
<1>7. ASSUME NEW u \in Tests, Retry(u) PROVE FailedInv'
    <2> DEFINE T == TestsIn(dirOf[u])
               s == inputSetAll[RootAt(u)]
    <2>1. /\ T \in SUBSET Tests /\ s \in PassSets \cup {None}
          /\ T \cap desc \cap actors' \in SUBSET Tests
        BY WalkProperties DEF TestsIn, TypeOK
    <2>2. /\ Make(T, s) /\ Record(T \cap desc \cap actors', "sanity")
          /\ pc = "retry" /\ UNCHANGED <<pc, k, desc>>
          /\ failed' = failed \cup Failing(T, elf')
        BY <1>7 DEF Retry, RootAt
    <2> HIDE DEF T, s
    <2>3. \A t \in Tests : elf[t] # "none" \/ t \notin T => elf'[t] = elf[t]
        BY <2>1, <2>2, MakeEffects
    <2>4. \A r \in records' : r \in records \/ r.by = "sanity"
        BY <2>1, <2>2, RecordEffects
    <2>5. Checked' = Checked
        BY <2>2 DEF Checked, RootAt
    <2>6. ASSUME NEW t \in desc \cap Checked, elf'[t] = "bad" PROVE t \in failed'
        <3>1. CASE elf[t] = "bad"
            BY <2>2, <3>1 DEF FailedInv
        <3>2. CASE elf[t] # "bad"
            <4>1. t \in T
                BY <1>a, <2>3, <2>6, <3>2
            <4> QED BY <2>2, <2>6, <4>1 DEF Failing
        <3> QED BY <3>1, <3>2
    <2> QED BY <2>2, <2>4, <2>5, <2>6 DEF FailedInv
<1>8. CASE RetryRaises
    BY <1>8 DEF RetryRaises, FailedInv
<1>9. CASE Distribute
    <2>1. /\ pc = "retry" /\ pc' \in {"remove", "sanity"} /\ UNCHANGED <<failed, records>>
          /\ desc' \subseteq desc /\ \A t \in Tests : elf'[t] \in {"none", elf[t]}
          /\ k' = (IF pc' = "remove" THEN k ELSE k + 1)
        BY <1>9 DEF Distribute, Retried
    <2>2. k \in Nat /\ DOMAIN Roots \subseteq Nat
        BY <2>1, LitAssumption DEF PhaseInv
    <2>3. Checked' \subseteq Checked
        BY <2>1, <2>2 DEF Checked, RootAt
    <2> QED BY <1>a, <2>1, <2>3 DEF FailedInv
<1>10. CASE RemoveFailed
    <2>1. /\ pc = "remove" /\ pc' = "split" /\ UNCHANGED <<elf, actors, failed, records>>
          /\ desc' = desc \ failed
        BY <1>10 DEF RemoveFailed
    <2>2. ASSUME NEW t \in Tests PROVE t \in Checked
        <3>1. PICK j \in DOMAIN Roots : RootAt(t) = Roots[j]
            BY WalkProperties DEF Range
        <3>2. j < k \/ j = k
            BY <2>1, LitAssumption DEF PhaseInv, AllBuilt
        <3> QED BY <2>1, <3>1, <3>2 DEF Checked
    <2>3. \A t \in desc \ failed : elf[t] # "bad"
        BY <1>a, <2>1, <2>2 DEF FailedInv
    <2>4. \A t \in actors : elf[t] # "none"
        BY DEF ActorInv
    <2> QED BY <1>a, <2>1, <2>3, <2>4 DEF FailedInv
<1>11. CASE StartProfiled
    <2>1. /\ pc = "log" /\ pc' \in {"split", "info"}
          /\ UNCHANGED <<elf, actors, desc, failed, records>>
        BY <1>11 DEF StartProfiled
    <2> QED BY <2>1 DEF FailedInv
<1>12. CASE WriteInfo
    BY <1>c, <1>12 DEF WriteInfo
<1>13. CASE BuildAssigned
    <2> DEFINE T == {Profiled[k]}
    <2>1. T \in SUBSET Tests /\ None \in PassSets \cup {None}
        BY <1>13, LitAssumption DEF BuildAssigned, PhaseInv
    <2>2. /\ Make(T, None) /\ pc = "make" /\ pc' = "check"
          /\ UNCHANGED <<desc, failed, records>>
        BY <1>13 DEF BuildAssigned
    <2> HIDE DEF T
    <2>3. /\ actors' \subseteq actors
          /\ \A t \in Tests : elf[t] # "none" => elf'[t] = elf[t]
        BY <2>1, <2>2, MakeEffects
    <2> QED BY <1>a, <2>2, <2>3 DEF FailedInv
<1>14. CASE CheckAssignedTest
    <2> DEFINE t == Profiled[k]
    <2>1. /\ pc = "check" /\ pc' \in {"split", "info"} /\ UNCHANGED <<elf, desc, records>>
          /\ failed' = failed \cup Failing({t}, elf)
          /\ actors' = actors \cup {u \in {t} : elf[u] = "good"}
        BY <1>14 DEF CheckAssignedTest
    <2> HIDE DEF t
    <2>2. \A u \in failed' : u \in failed \/ elf[u] = "bad"
        BY <2>1 DEF Failing
    <2>3. \A u \in actors' : u \in actors \/ elf[u] = "good"
        BY <2>1
    <2>4. /\ \A u \in failed : elf[u] = "bad"
          /\ \A u \in desc \cap actors : elf[u] = "good"
          /\ \A r \in records : r.by = "sanity"
        BY <2>1 DEF FailedInv
    <2> QED BY <2>1, <2>2, <2>3, <2>4 DEF FailedInv
<1>15. CASE Split
    BY <1>c, <1>15 DEF Split
<1>16. ASSUME NEW w \in Workers, NEW t \in Tests, RunTest(w, t) PROVE FailedInv'
    BY <1>c, <1>16 DEF RunTest
<1>17. CASE Join
    BY <1>c, <1>17 DEF Join
<1>18. CASE EndRound
    BY <1>c, <1>18 DEF EndRound
<1>19. CASE LastMail
    BY <1>c, <1>19 DEF LastMail
<1>20. ASSUME NEW b \in Tests \cup {None}, Echo(b) PROVE FailedInv'
    BY <1>b, <1>20 DEF Echo
<1>21. CASE UNCHANGED vars
    BY <1>b, <1>21 DEF vars
<1>22. CASE MailRaises
    BY <1>c, <1>22 DEF MailRaises
<1> QED BY NextCases, <1>1, <1>2, <1>3, <1>4, <1>5, <1>6, <1>7, <1>8, <1>9, <1>10, <1>11,
           <1>12, <1>13, <1>14, <1>15, <1>16, <1>17, <1>18, <1>19, <1>20, <1>21, <1>22

(* Only lit of the round records, and only tests that passed. *)
LEMMA PassedStep ==
    ASSUME TypeOK, FailedInv, RecordedPassed, [Next]_vars, FailedInv'
    PROVE  RecordedPassed'
<1> USE DEF GoToLog, Logged, suiteVars, buildVars, sanityVars, runVars
<1>1. ASSUME pc' \notin {"run", "mail", "begin", "lastMail", "over", "mailFailed"} PROVE RecordedPassed'
    BY <1>1 DEF RecordedPassed, FailedInv
<1>2. ASSUME UNCHANGED <<elf, failed, records>> PROVE RecordedPassed'
    BY <1>2 DEF RecordedPassed
<1>3. ASSUME NEW w \in Workers, NEW t \in Tests, RunTest(w, t) PROVE RecordedPassed'
    <2> DEFINE T == {t} \cap desc \cap actors
    <2>1. pc = "run" /\ UNCHANGED <<elf, failed>> /\ Record(T, "round") /\ T \in SUBSET Tests
        BY <1>3 DEF RunTest
    <2>2. \A u \in T : elf[u] = "good" /\ u \notin failed
        BY <2>1 DEF FailedInv
    <2> HIDE DEF T
    <2>3. \A r \in records' : r \in records \/ r.test \in T
        BY <2>1, RecordEffects
    <2> QED BY <2>1, <2>2, <2>3 DEF RecordedPassed
<1>4. ASSUME NEW p \in Procs, LogService(p) PROVE RecordedPassed'
    BY <1>2, <1>4 DEF LogService
<1>5. ASSUME NEW b \in Tests \cup {None}, Echo(b) PROVE RecordedPassed'
    BY <1>2, <1>5 DEF Echo
<1>6. Split \/ Join \/ EndRound \/ LastMail \/ MailRaises \/ StartProfiled => RecordedPassed'
    BY <1>2 DEF Split, Join, EndRound, LastMail, MailRaises, StartProfiled
<1>7. ASSUME NEW s \in PassSets, BuildRoot(s) PROVE RecordedPassed'
    BY <1>1, <1>7 DEF BuildRoot
<1>8. ASSUME NEW t \in Tests, Retry(t) PROVE RecordedPassed'
    BY <1>1, <1>8 DEF Retry
<1>9. BeginRound \/ Cmake \/ StartBuild \/ SanityCheck \/ RetryRaises \/ Distribute
      \/ RemoveFailed \/ WriteInfo \/ BuildAssigned \/ CheckAssignedTest => RecordedPassed'
    BY <1>1 DEF BeginRound, Cmake, StartBuild, SanityCheck, RetryRaises, Distribute,
       RemoveFailed, WriteInfo, BuildAssigned, CheckAssignedTest
<1>10. CASE UNCHANGED vars
    BY <1>2, <1>10 DEF vars
<1> QED BY NextCases, <1>3, <1>4, <1>5, <1>6, <1>7, <1>8, <1>9, <1>10

-------------------------------------------------------------------------------
(* The list, and its parts *)

LEMMA ListStep ==
    ASSUME TypeOK, PhaseInv, ListInv, [Next]_vars
    PROVE  ListInv'
<1> USE DEF GoToLog, Logged, suiteVars, runVars
<1>a. list \in Seq(Tests \cup {None}) /\ None \notin Tests
    BY LitAssumption DEF TypeOK
<1>b. ASSUME UNCHANGED list,
             \/ UNCHANGED <<mode, round, pc, k>>
             \/ pc \in {"cmake", "log", "build"} /\ pc' \in {"log", "build"} /\ UNCHANGED <<mode, round>>
             \/ pc' \notin {"cmake", "log", "build", "sanity", "retry", "info", "make", "check"}
      PROVE  ListInv'
    BY <1>b, <1>a DEF ListInv, Rebuild, Once, RootAt
<1>1. ASSUME NEW p \in Procs, LogService(p) PROVE ListInv'
    BY <1>b, <1>1 DEF LogService
<1>2. CASE BeginRound
    <2>1. /\ pc' \in {"cmake", "log"} /\ UNCHANGED <<mode, round>>
          /\ Rebuild => list' = <<>>
          /\ ~Rebuild => UNCHANGED list
        BY <1>2 DEF BeginRound
    <2>2. CASE Rebuild
        <3>1. Once(list')
            BY <2>1, <2>2 DEF Once
        <3> QED BY <2>1, <2>2, <3>1 DEF ListInv
    <2>3. CASE ~Rebuild
        BY <2>1, <2>3 DEF ListInv, Rebuild, Once
    <2> QED BY <2>2, <2>3
<1>3. CASE Cmake
    BY <1>b, <1>3 DEF Cmake
<1>4. CASE StartBuild
    BY <1>b, <1>4 DEF StartBuild
<1>5. ASSUME NEW s \in PassSets, BuildRoot(s) PROVE ListInv'
    <2>1. pc = "build" /\ UNCHANGED <<list, mode, round>> /\ pc' \in {"build", "sanity", "split"}
          /\ (pc' = "sanity" => Rebuild)
        BY <1>5 DEF BuildRoot
    <2>2. CASE pc' = "sanity"
        <3>1. list' = <<>>
            BY <2>1, <2>2 DEF ListInv
        <3> QED BY <2>2, <3>1 DEF ListInv, Once
    <2> QED BY <1>b, <2>1, <2>2
<1>6. CASE SanityCheck
    BY <1>6 DEF SanityCheck, ListInv, Once, RootAt
<1>7. ASSUME NEW t \in Tests, Retry(t) PROVE ListInv'
    BY <1>b, <1>7 DEF Retry
<1>8. CASE RetryRaises
    BY <1>b, <1>8 DEF RetryRaises
<1>9. CASE Distribute
    <2>1. /\ pc = "retry" /\ pc' \in {"remove", "sanity"} /\ list' = list \o Kept
          /\ pc' = "sanity" => k' = k + 1
        BY <1>9 DEF Distribute, Retried, Kept
    <2>2. k \in DOMAIN Roots /\ DOMAIN Roots \subseteq Nat \ {0}
        BY <2>1, LitAssumption DEF PhaseInv
    <2>3. /\ Kept \in Seq(Tests) /\ Once(Kept)
          /\ \A i \in DOMAIN Kept : Kept[i] \in Tests /\ RootAt(Kept[i]) = Roots[k]
        <3>1. \A t \in Range(Kept) : t \in Tests /\ RootAt(t) = Roots[k]
            BY KeptProperties DEF InRoot, RootAt
        <3>2. \A i \in DOMAIN Kept : Kept[i] \in Range(Kept)
            BY DEF Range
        <3> QED BY <3>1, <3>2, KeptProperties
    <2>4. \A i \in DOMAIN list :
              list[i] \in Tests /\ \E j \in 1 .. k - 1 : RootAt(list[i]) = Roots[j]
        BY <2>1 DEF ListInv
    <2>5. ASSUME NEW i \in DOMAIN list, NEW j \in DOMAIN Kept PROVE list[i] # Kept[j]
        <3>1. PICK r \in 1 .. k - 1 : RootAt(list[i]) = Roots[r]
            BY <2>4
        <3>2. r \in DOMAIN Roots /\ r # k
            BY <2>2, LitAssumption
        <3>3. Roots[r] # Roots[k]
            BY <2>2, <3>2, WalkProperties
        <3> QED BY <2>3, <3>1, <3>3
    <2> DEFINE m == Len(list)
               n == Len(Kept)
    <2>6. /\ m \in Nat /\ n \in Nat /\ DOMAIN list = 1 .. m /\ DOMAIN Kept = 1 .. n
          /\ DOMAIN list' = 1 .. m + n
          /\ \A i \in 1 .. m : list'[i] = list[i]
          /\ \A i \in 1 .. n : list'[m + i] = Kept[i]
        BY <1>a, <2>1, <2>3
    <2> HIDE DEF m, n
    <2>7. \A i \in DOMAIN list' : i \in 1 .. m \/ \E j \in 1 .. n : i = m + j
        <3>1. ASSUME NEW i \in 1 .. m + n, i \notin 1 .. m PROVE \E j \in 1 .. n : i = m + j
            <4>1. i - m \in 1 .. n /\ i = m + (i - m)
                BY <2>6, <3>1
            <4> QED BY <4>1
        <3> QED BY <2>6, <3>1
    <2>8. Once(list')
        <3> SUFFICES ASSUME NEW i \in DOMAIN list', NEW j \in DOMAIN list',
                            list'[i] = list'[j], list'[i] # None
                     PROVE  i = j
            BY DEF Once
        <3>1. CASE i \in 1 .. m /\ j \in 1 .. m
            BY <2>6, <3>1 DEF ListInv, Once
        <3>2. CASE i \in 1 .. m /\ \E b \in 1 .. n : j = m + b
            BY <2>5, <2>6, <3>2
        <3>3. ASSUME j \in 1 .. m, NEW a \in 1 .. n, i = m + a PROVE FALSE
            <4>1. list'[i] = Kept[a] /\ list'[j] = list[j]
                BY <2>6, <3>3
            <4> QED BY <2>5, <2>6, <3>3, <4>1
        <3>4. ASSUME NEW a \in 1 .. n, NEW b \in 1 .. n, i = m + a, j = m + b PROVE i = j
            <4>1. Kept[a] = Kept[b] /\ Kept[a] # None
                BY <2>6, <3>4
            <4> QED BY <2>3, <2>6, <3>4, <4>1 DEF Once
        <3> QED BY <2>7, <3>1, <3>2, <3>3, <3>4
    <2>9. ASSUME pc' = "sanity", NEW i \in DOMAIN list'
          PROVE  list'[i] \in Tests /\ \E j \in 1 .. k' - 1 : RootAt(list'[i]) = Roots[j]
        <3>1. k' - 1 = k /\ k \in 1 .. k
            BY <2>1, <2>2, <2>9
        <3>2. CASE i \in 1 .. m
            <4>1. list'[i] = list[i] /\ i \in DOMAIN list
                BY <2>6, <3>2
            <4>2. PICK j \in 1 .. k - 1 : RootAt(list[i]) = Roots[j]
                BY <2>4, <4>1
            <4>3. j \in 1 .. k' - 1
                BY <2>2, <3>1
            <4> QED BY <2>4, <4>1, <4>2, <4>3
        <3>3. CASE \E j \in 1 .. n : i = m + j
            BY <2>3, <2>6, <3>1, <3>3
        <3> QED BY <2>7, <3>2, <3>3
    <2> QED BY <2>1, <2>8, <2>9 DEF ListInv, RootAt
<1>10. CASE RemoveFailed
    <2>1. list' = RemoveInLoop(list, failed) /\ pc' = "split"
        BY <1>10 DEF RemoveFailed
    <2>2. Once(list')
        BY <1>a, <2>1, RemovedProperties DEF ListInv
    <2> QED BY <2>1, <2>2 DEF ListInv
<1>11. CASE StartProfiled
    <2>1. pc = "log" /\ pc' \in {"split", "info"} /\ UNCHANGED list /\ Rebuild
        BY <1>11 DEF StartProfiled, Rebuild, FunctionLevel
    <2>2. list = <<>>
        BY <2>1 DEF ListInv
    <2> QED BY <2>1, <2>2 DEF ListInv, Once
<1>12. CASE WriteInfo
    BY <1>12 DEF WriteInfo, ListInv, Once
<1>13. CASE BuildAssigned
    BY <1>13 DEF BuildAssigned, ListInv, Once
<1>14. CASE CheckAssignedTest
    <2>1. PICK x \in {None, Profiled[k]} : list' = Append(list, x)
        BY <1>14 DEF CheckAssignedTest
    <2>2. /\ pc = "check" /\ pc' \in {"split", "info"}
          /\ pc' = "info" => k' = k + 1
        BY <1>14 DEF CheckAssignedTest
    <2>3. /\ k \in DOMAIN Profiled /\ DOMAIN Profiled = 1 .. Len(Profiled) /\ Len(Profiled) \in Nat
          /\ Profiled[k] \in Tests
          /\ \A i, j \in DOMAIN Profiled : Profiled[i] = Profiled[j] => i = j
        BY <2>2, LitAssumption DEF PhaseInv, IsInjective
    <2> DEFINE m == Len(list)
    <2>4. /\ m \in Nat /\ DOMAIN list = 1 .. m /\ DOMAIN list' = 1 .. m + 1
          /\ \A i \in 1 .. m : list'[i] = list[i]
          /\ list'[m + 1] = x
        BY <1>a, <2>1, <2>3
    <2> HIDE DEF m
    <2>5. \A i \in 1 .. m : list[i] # None => \E j \in 1 .. k - 1 : list[i] = Profiled[j]
        BY <2>2, <2>4 DEF ListInv
    <2>6. ASSUME NEW i \in 1 .. m, list[i] = x PROVE x = None
        <3> SUFFICES ASSUME x # None PROVE FALSE
            OBVIOUS
        <3>1. PICK j \in 1 .. k - 1 : x = Profiled[j]
            BY <2>5, <2>6
        <3>2. x = Profiled[k] /\ j \in DOMAIN Profiled /\ j # k
            BY <2>3
        <3> QED BY <2>3, <3>1, <3>2
    <2>7. Once(list')
        BY <2>4, <2>6 DEF ListInv, Once
    <2>8. ASSUME pc' = "info", NEW i \in DOMAIN list', list'[i] # None
          PROVE  \E j \in 1 .. k' - 1 : list'[i] = Profiled[j]
        <3>1. k' - 1 = k /\ k \in 1 .. k /\ 1 .. k - 1 \subseteq 1 .. k
            BY <2>2, <2>3, <2>8
        <3>2. CASE i \in 1 .. m
            BY <2>4, <2>5, <2>8, <3>1, <3>2
        <3>3. CASE i = m + 1
            BY <2>1, <2>4, <2>8, <3>1, <3>3
        <3> QED BY <2>4, <3>2, <3>3
    <2> QED BY <2>2, <2>7, <2>8 DEF ListInv
<1>15. CASE Split
    <2>1. pc' = "run" /\ Once(list')
        BY <1>15, SplitEffects DEF Split
    <2> QED BY <2>1 DEF ListInv
<1>16. ASSUME NEW w \in Workers, NEW t \in Tests, RunTest(w, t) PROVE ListInv'
    BY <1>b, <1>16 DEF RunTest
<1>17. CASE Join
    BY <1>b, <1>17 DEF Join
<1>18. CASE EndRound
    BY <1>b, <1>18 DEF EndRound
<1>19. CASE LastMail
    BY <1>b, <1>19 DEF LastMail
<1>20. ASSUME NEW b \in Tests \cup {None}, Echo(b) PROVE ListInv'
    BY <1>b, <1>20 DEF Echo
<1>21. CASE UNCHANGED vars
    BY <1>b, <1>21 DEF vars
<1>22. CASE MailRaises
    BY <1>b, <1>22 DEF MailRaises
<1> QED BY NextCases, <1>1, <1>2, <1>3, <1>4, <1>5, <1>6, <1>7, <1>8, <1>9, <1>10, <1>11,
           <1>12, <1>13, <1>14, <1>15, <1>16, <1>17, <1>18, <1>19, <1>20, <1>21, <1>22

(* The parts of the list are disjoint and run to their ends. *)
LEMMA PartsStep ==
    ASSUME TypeOK, ListInv, PartsInv, [Next]_vars
    PROVE  PartsInv'
<1> USE DEF GoToLog, Logged, suiteVars, runVars
<1>a. ASSUME pc' \in {"mail", "begin", "lastMail", "over", "mailFailed"} PROVE PartsInv'
    BY <1>a DEF PartsInv
<1>b. ASSUME UNCHANGED ran, pc \notin {"run", "mail", "begin", "lastMail", "over", "mailFailed"},
             pc' \notin {"run", "mail", "begin", "lastMail", "over", "mailFailed"}
      PROVE  PartsInv'
    BY <1>b DEF PartsInv
<1>c. ASSUME UNCHANGED <<mode, pc, list, lists, ran>> PROVE PartsInv'
    BY <1>c DEF PartsInv, SplitCount
<1>1. ASSUME NEW p \in Procs, LogService(p) PROVE PartsInv'
    BY <1>c, <1>1 DEF LogService
<1>2. CASE BeginRound
    BY <1>2 DEF BeginRound, PartsInv
<1>3. CASE Split
    <2>1. /\ pc = "split" /\ pc' = "run" /\ UNCHANGED <<mode, ran>>
          /\ SplitCount' = SplitCount
        BY <1>3 DEF Split, SplitCount
    <2>2. \A t \in Tests : ran[t] = 0
        BY <2>1 DEF PartsInv
    <2>3. /\ \A w \in Workers : w > SplitCount => lists'[w] = {}
          /\ \A w \in Workers : lists'[w] \subseteq Range(list')
          /\ \A v, w \in Workers : v # w => lists'[v] \cap lists'[w] = {}
          /\ \A t \in Tests \cap Range(list') : \E w \in Workers : t \in lists'[w]
        BY <1>3, SplitEffects
    <2> QED BY <2>1, <2>2, <2>3 DEF PartsInv
<1>4. ASSUME NEW w \in Workers, NEW t \in Tests, RunTest(w, t) PROVE PartsInv'
    <2>1. /\ pc = "run" /\ t \in lists[w] /\ UNCHANGED <<mode, pc, list>>
          /\ lists' = [lists EXCEPT ![w] = @ \ {t}] /\ ran' = [ran EXCEPT ![t] = @ + 1]
        BY <1>4 DEF RunTest
    <2>2. lists \in [Workers -> SUBSET Tests] /\ ran \in [Tests -> Nat] /\ SplitCount' = SplitCount
        BY <2>1 DEF TypeOK, SplitCount
    <2>3. /\ \A v \in Workers : lists'[v] = IF v = w THEN lists[w] \ {t} ELSE lists[v]
          /\ \A u \in Tests : ran'[u] = IF u = t THEN ran[t] + 1 ELSE ran[u]
        BY <2>1, <2>2
    <2>4. /\ \A v \in Workers : v > SplitCount => lists[v] = {}
          /\ \A v, x \in Workers : v # x => lists[v] \cap lists[x] = {}
          /\ \A v \in Workers : lists[v] \subseteq Range(list)
          /\ \A u \in Tests :
                 IF u \in Range(list) /\ \A v \in Workers : u \notin lists[v]
                 THEN ran[u] = 1 ELSE ran[u] = 0
        BY <2>1 DEF PartsInv
    <2>5. /\ \A v \in Workers : v > SplitCount => lists'[v] = {}
          /\ \A v, x \in Workers : v # x => lists'[v] \cap lists'[x] = {}
          /\ \A v \in Workers : lists'[v] \subseteq Range(list)
        BY <2>3, <2>4
    <2>6. ASSUME NEW u \in Tests
          PROVE  IF u \in Range(list) /\ \A v \in Workers : u \notin lists'[v]
                 THEN ran'[u] = 1 ELSE ran'[u] = 0
        <3>1. CASE u = t
            <4>1. t \in Range(list) /\ ran[t] = 0
                BY <2>1, <2>4
            <4>2. \A v \in Workers : t \notin lists'[v]
                BY <2>1, <2>3, <2>4
            <4> QED BY <2>3, <3>1, <4>1, <4>2
        <3>2. CASE u # t
            <4>1. ran'[u] = ran[u] /\ \A v \in Workers : u \in lists'[v] <=> u \in lists[v]
                BY <2>3, <3>2
            <4> QED BY <2>4, <4>1
        <3> QED BY <3>1, <3>2
    <2> QED BY <2>1, <2>2, <2>5, <2>6 DEF PartsInv
<1>5. ASSUME NEW b \in Tests \cup {None}, Echo(b) PROVE PartsInv'
    BY <1>c, <1>5 DEF Echo
<1>6. ASSUME NEW s \in PassSets, BuildRoot(s) PROVE PartsInv'
    BY <1>b, <1>6 DEF BuildRoot
<1>7. ASSUME NEW t \in Tests, Retry(t) PROVE PartsInv'
    BY <1>b, <1>7 DEF Retry
<1>8. Cmake \/ StartBuild \/ SanityCheck \/ RetryRaises \/ Distribute \/ RemoveFailed
      \/ StartProfiled \/ WriteInfo \/ BuildAssigned \/ CheckAssignedTest => PartsInv'
    BY <1>b DEF Cmake, StartBuild, SanityCheck, RetryRaises, Distribute, Retried, RemoveFailed,
       StartProfiled, WriteInfo, BuildAssigned, CheckAssignedTest
<1>9. Join \/ EndRound \/ LastMail \/ MailRaises => PartsInv'
    BY <1>a DEF Join, EndRound, LastMail, MailRaises
<1>10. CASE UNCHANGED vars
    BY <1>c, <1>10 DEF vars
<1> QED BY NextCases, <1>1, <1>2, <1>3, <1>4, <1>5, <1>6, <1>7, <1>8, <1>9, <1>10

(* When all parts have ended each test of the list has been run once. *)
LEMMA OnceStep ==
    ASSUME TypeOK, PartsInv, EachTestOnce, [Next]_vars
    PROVE  EachTestOnce'
<1> USE DEF GoToLog, Logged, suiteVars, runVars
<1>1. ASSUME pc' # "mail" PROVE EachTestOnce'
    BY <1>1 DEF EachTestOnce
<1>2. ASSUME UNCHANGED <<pc, list, ran>> PROVE EachTestOnce'
    BY <1>2 DEF EachTestOnce
<1>3. CASE Join
    <2>1. pc = "run" /\ Joined /\ UNCHANGED <<list, ran>>
        BY <1>3 DEF Join
    <2>2. ASSUME NEW w \in Workers PROVE lists[w] = {}
        <3>1. w \in 1 .. SplitCount \/ w > SplitCount
            <4>1. w \in Nat /\ SplitCount \in Nat /\ (w <= SplitCount <=> w \in 1 .. SplitCount)
                BY Basics
            <4> QED BY <4>1
        <3> QED BY <2>1, <3>1 DEF Joined, PartsInv
    <2>3. \A t \in Tests : ran[t] = IF t \in Range(list) THEN 1 ELSE 0
        BY <2>1, <2>2 DEF PartsInv
    <2> QED BY <2>1, <2>3 DEF EachTestOnce
<1>4. ASSUME NEW p \in Procs, LogService(p) PROVE EachTestOnce'
    BY <1>2, <1>4 DEF LogService
<1>5. ASSUME NEW b \in Tests \cup {None}, Echo(b) PROVE EachTestOnce'
    BY <1>2, <1>5 DEF Echo
<1>6. ASSUME NEW s \in PassSets, BuildRoot(s) PROVE EachTestOnce'
    BY <1>1, <1>6 DEF BuildRoot
<1>7. ASSUME NEW t \in Tests, Retry(t) PROVE EachTestOnce'
    BY <1>1, <1>7 DEF Retry
<1>8. ASSUME NEW w \in Workers, NEW t \in Tests, RunTest(w, t) PROVE EachTestOnce'
    BY <1>1, <1>8 DEF RunTest
<1>9. BeginRound \/ Cmake \/ StartBuild \/ SanityCheck \/ RetryRaises \/ Distribute
      \/ RemoveFailed \/ StartProfiled \/ WriteInfo \/ BuildAssigned \/ CheckAssignedTest
      \/ Split \/ EndRound \/ LastMail \/ MailRaises => EachTestOnce'
    BY <1>1 DEF BeginRound, Cmake, StartBuild, SanityCheck, RetryRaises, Distribute,
       RemoveFailed, StartProfiled, WriteInfo, BuildAssigned, CheckAssignedTest,
       Split, EndRound, LastMail, MailRaises
<1>10. CASE UNCHANGED vars
    BY <1>2, <1>10 DEF vars
<1> QED BY NextCases, <1>3, <1>4, <1>5, <1>6, <1>7, <1>8, <1>9, <1>10

-------------------------------------------------------------------------------
(* The theorems *)

LEMMA InitInv == Init => IInv
<1> SUFFICES ASSUME Init PROVE IInv
    OBVIOUS
<1>1. TypeOK
    BY InitType
<1>2. Driver \in Procs /\ Workers \subseteq Procs
    BY <1>1, Basics
<1>3. /\ pc = "begin" /\ actors = {} /\ records = {} /\ funcSet = {} /\ list = <<>>
      /\ lpc = [p \in Procs |-> "none"]
    BY DEF Init
<1>4. PhaseInv /\ DriverInv /\ WorkerInv /\ LogInv
    BY <1>2, <1>3 DEF PhaseInv, DriverInv, WorkerInv, LogInv
<1>5. FreshInv /\ BuiltInv /\ ActorInv /\ InfoInv
    BY <1>3 DEF FreshInv, BuiltInv, ActorInv, InfoInv
<1>6. FailedInv /\ TodoInv /\ PartsInv
    BY <1>3 DEF FailedInv, TodoInv, PartsInv
<1>7. ListInv
    BY <1>3 DEF ListInv, Once
<1>8. LabelIsBuild /\ RecordedPassed /\ EachTestOnce
    BY <1>3 DEF LabelIsBuild, RecordedPassed, EachTestOnce
<1> QED BY <1>1, <1>4, <1>5, <1>6, <1>7, <1>8 DEF IInv

(* The invariant is inductive. *)
LEMMA NextInv == IInv /\ [Next]_vars => IInv'
<1> SUFFICES ASSUME IInv, [Next]_vars PROVE IInv'
    OBVIOUS
<1> USE DEF IInv
<1>1. TypeOK' /\ PhaseInv' /\ InfoInv'
    BY TypeStep, PhaseStep, InfoStep
<1>2. DriverInv' /\ WorkerInv' /\ LogInv'
    BY DriverStep, WorkerStep, LogStep
<1>3. FreshInv' /\ BuiltInv' /\ ActorInv' /\ LabelIsBuild'
    BY FreshStep, BuiltStep, ActorStep, LabelStep
<1>4. FailedInv' /\ TodoInv'
    BY FailedStep, TodoStep
<1>5. RecordedPassed'
    BY <1>4, PassedStep
<1>6. ListInv' /\ PartsInv' /\ EachTestOnce'
    BY ListStep, PartsStep, OnceStep
<1> QED BY <1>1, <1>2, <1>3, <1>4, <1>5, <1>6

(* The inductive invariant holds for any tests, lists and rounds. *)
THEOREM Invariance == Spec => []IInv
<1> QED BY InitInv, NextInv, PTL DEF Spec

(* The variables keep their types, whatever the tests and the pass sets. *)
THEOREM Types == Spec => []TypeOK
<1>1. IInv => TypeOK
    BY DEF IInv
<1> QED BY <1>1, Invariance, PTL

(* All who log in a round log to the files of one time, taken in it. *)
THEOREM OneLogPerRound == Spec => []OneLog
<1>1. IInv => OneLog
    <2> SUFFICES ASSUME IInv, pc \in {"run", "mail"}
                 PROVE  /\ time[Driver][1] = round
                        /\ \A w \in 1 .. SplitCount : lpc[w] = "done" => time[w] = time[Driver]
                        /\ \A r \in records \cup funcSet : r.time = time[Driver]
        BY DEF OneLog
    <2> USE DEF IInv
    <2>1. stamp \in Now /\ time[Driver] = stamp
        BY DriverKnows DEF DriverInv
    <2>2. \A x \in Now : x[1] = round
        BY Basics
    <2>3. \A w \in 1 .. SplitCount : w \in Workers /\ w <= SplitCount
        BY Basics
    <2>4. \A w \in 1 .. SplitCount : lpc[w] = "done" => time[w] = stamp
        BY <2>3 DEF WorkerInv
    <2>5. \A r \in records \cup funcSet : r.time = stamp
        BY DEF LogInv
    <2> QED BY <2>1, <2>2, <2>4, <2>5
<1> QED BY <1>1, Invariance, PTL

(* The parts of the shuffled list give each of its tests to lit once. *)
THEOREM TestsOnce == Spec => []EachTestOnce
<1>1. IInv => EachTestOnce
    BY DEF IInv
<1> QED BY <1>1, Invariance, PTL

(***************************************************************************)
(* A line of the Features log has the pass set its benchmark was built     *)
(* with, or, if its functions have passes of their own, the set that an    *)
(* earlier run has left for its root directory.                            *)
(***************************************************************************)
THEOREM LabelsAreBuilds == Spec => []LabelIsBuild
<1>1. IInv => LabelIsBuild
    BY DEF IInv
<1> QED BY <1>1, Invariance, PTL

(* A round's lit records no benchmark that failed the sanity check. *)
THEOREM RecordsPassed == Spec => []RecordedPassed
<1>1. IInv => RecordedPassed
    BY DEF IInv
<1> QED BY <1>1, Invariance, PTL

================================================================================
