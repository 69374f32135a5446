# Verification of the pass-training framework

TLA+ models, TLC runs and TLAPS proofs for the programs of this repository that
run concurrently and talk to each other: the training client, the daemons of
its workers, the time-limited execution and profiling they rest on, the daemons of the
trained model, the rounds of the random selection, and the tool that puts the probes
into LLVM's passes.
Paths are relative to the repository; `training/`, `PyActor/` and `inference/`
stand for the directories of that name under `PassInstrument/`, and `RandomSelect/` for
`RandomSelect/LLVMTestSuiteScript/`.

## 1. The system

The framework searches for good orders of LLVM optimisation passes.  A *training
client* has a list of benchmark programs of the LLVM test suite.  For each it picks
nine passes at random, sends them to a *worker*, and gets back how
long the program ran and the features of its functions.  A worker is an account
on some machine with two daemons: the *Env daemon* builds, verifies and profiles
a program, and the *Clang daemon* tells every compiler process of that build which passes
to use.

    fakeEnv.py                  worker n: one machine account, two daemons
    +--------------+   TCP      +---------------------------------------------+
    | EnvWorker 1  |  target    | Env daemon (EnvTcpHandler, one at a time)   |
    | EnvWorker 2  | ---------> |   IPC file <- passes                        |
    |   ...        |  profiled  |   make clean; LimitTimeExec(make)           |
    | EnvWorker N  |  features  |   LimitTimeExec(lit)          "verify"      |
    +--------------+ <--------- |   exe -> exe.OriElf, PyCaller -> exe        |
     SharedWorkerDict,          |   LimitTimeExec(lit) -> PyCaller -> PyActor |
     WorkerLock                 | Clang daemon: compilers of make <-> IPC     |
                                | /tmp/PredictionDaemon/worker-n: .usage,     |
                                |                       features              |
                                +---------------------------------------------+

The features are counted by probes, calls of `PassPeeper(id)` that the *pass rewriter* has
put into LLVM's passes.  After the training, the *inference daemons* replace the Clang
daemon: a compiler asks for one pass after the other, and a process with the trained model chooses.  The
*random-selection rounds*, the older experiment, build the whole test suite with random passes
again and again and let PyActors record; they share PyCaller with the training.

    compilers --TCP--> Clang daemon (inference) --queue--> tfServer --queue--> back
    ScriptDriver.sh: LLVM passes -> TidiedPasses -> RewrittenPasses -> LLVM passes
    LitDriver round: build, SanityCheck, PyCaller for elf, lit workers -> Features log

### Inventory

| Component | Source | State it keeps | Operations | Hard behaviour |
|---|---|---|---|---|
| Worker pool | `training/fakeEnv.py` (`Worker`) | `SharedWorkerDict` (manager dictionary), `WorkerLock`; per process the worker, the status, the program it is at | `hireRemoteWorker`, `freeRemoteWorker`, `EnvWorker` | processes interleave between two dictionary calls; a busy scan holds the lock that freeing needs; a process dies on an exception and keeps its worker; an empty status is retried |
| Training environment | `fakeEnv.py` (`TcpClient`, `EnvDoJob`) with `training/PredictionDaemon.py` | a connection per client, the listen queue, what the worker holds | `Send`, `Receive`, the three requests of a job, stop and start of a daemon | three connections make one job; dropped, refused and reset connections; results wiped or stale when fetched |
| Ctrl-C | `fakeEnv.py` (`sigint_handler`), `kill` in `EnvTcpHandler` | a `TcpClient` | one message per worker, in every process | one connection is used for all workers |
| `LimitTimeExec` | `training/Lib.py`: 37-163 | the seconds waited, the process tree | poll, kill children, terminate, SIGKILL, join | the tree changes while it is killed; the work ends while it is given up; the SIGTERM handler is inherited |
| Env and Clang daemons, EnvEcho, PyActor | `PredictionDaemon.py`, `Lib.py`: 213-412, `PyActor/InstrumentServiceLib.py` | IPC file, build directory, `.OriElf`, `.usage`, features file | phases of EnvEcho; a compiler's request; profiling | files are the only link between processes; what survives a kill goes on writing; restarts wipe |
| Daemon life cycle | `PredictionDaemon.py`: 162-337, `DaemonStart.sh`, `Lib.CheckTestSuiteCmake` | PID files, ports, IPC file | start, stop, atexit, double fork | a start during a stop; a PID file left by a crash; a port still bound; a first start that ends after cmake |
| PyCaller and its PyActor | `PyActor/*/PyCaller.cpp`, `MimicAndFeatureExtractor.py`, `InstrumentServiceLib.py` | two pipes, a child, an exit status | fork, exec, hand input on, wait, report, record | who holds which end of a pipe; a write to a pipe that nobody reads; a status cut to eight bits; one of the two is killed |
| Pass rewriter | `PassInstrument/PassRewriter.cpp`, `ScriptDriver.sh`, `script/*.sh` | three directories of passes, `RewriteMap`, `InsertIndexId`, `RewrittenLog`, FeatureSize | the callbacks of seven matchers; tidy, instrument, copy back | a place is matched several times; the log outlives the process; options broken off or repeated; a copy that is not complete |
| Inference daemons | `inference/PredictionDaemon.py`, `inference/tfServer.py` | two queues, `tfServerLock`, `FunctionPassRec` | one request per function and pass; nine passes each | a lock held while waiting for another process; a request cut off; SIGTERM in the middle of one |
| Random-selection rounds | `RandomSelect/` `LitDriver.py`, `LitMimic.py`, `ServiceLib.py` | target lists, random sets, logs, a time stamp file | build, pick tests, sanity check, distribute PyActor, parallel lit workers, mail | workers race for the time stamp; lists changed while iterated; retries that meet what another step has put in place |
| Random-selection daemon | `LLVMTestSuiteScript/PredictionDaemon.py` | the driver's information file, PID file | one Echo per function, stop and start in each round | it names the benchmark by a file that changes per benchmark; it may be the first to need the time stamp; a start that follows a stop at once |
| Connection set-up, pass database, evaluation scripts, external drivers, reward tools, vendored benchmarks | see `PROJECT.json` | - | - | sequential, generated or third party |

What makes each correct:

* **Worker pool.** No worker has two users; the scan with the lock held always
  finds a worker; the dictionary is true at every step; the lock is released.
* **Training environment.** The results of a job are its own, or none, or known exceptions; a worker
  works only for who has hired it; every job and the whole program end.
* **LimitTimeExec.** After it returns its process is over; "clean" means that
  the function ran to its end in time; a kill is neither early nor late; what
  survives a kill is known; it ends whatever is executed.
* **Worker.** "Success" is about a build of this request, compiled with its
  passes; measurement and features are not those of another request; every
  request ends.
* **Daemon life cycle.** The PID file names the daemon that serves; a daemon removes its
  own file and no other; a file without a daemon comes only from one that could not run
  its exit code; repeating `DaemonStart.sh` brings both daemons up.
* **PyCaller.** Status 0 means that the benchmark ended with 0 on all of its input; what is
  recorded was run on all of it; neither process waits for the other for ever.
* **Pass rewriter.** A probe has an index and a line of its own; the log tells where
  each is; the feature size covers them.
* **Inference daemons.** The nine passes of a function differ, and its history is then
  gone; a reply reaches the handler that asked; who waits for ever waits for a dead model.
* **Random-selection rounds.** A round has one log; every test picked is run once; what is
  recorded bears the passes it was built with, and is of no failed test; the rounds end.

## 2. Modules

| Module | What it is |
|---|---|
| `WorkerPool` | processes, dictionary and lock of `fakeEnv.py` |
| `WorkerAllocation` | abstract: a worker has at most one owner, a process at most one worker; implemented by `WorkerPool` |
| `LimitTimeExec` | the polling loop, the kill, the executed process with its inherited handler, and a process tree that grows and ends by itself |
| `EnvDaemon` | one worker: EnvEcho, the compilers, the PyActor, survivors of kills, wipes and restarts |
| `WorkerService` | abstract: what a worker promises its clients, as actions on which `TrainingEnv` is built |
| `WorkerServiceSpec` | these actions as a specification, each with the answer the client gets; implemented by `EnvDaemon` |
| `TrainingEnv` | `WorkerPool` (extended) with TCP connections to `WorkerService` (instantiated for all workers), drops, stops, starts, wipes, and what survives a kill |
| `SigintHandler` | Ctrl-C on the training client |
| `DaemonLifecycle` | `DaemonStart.sh`, stop and start, and the two daemons of a worker with their PID files and ports |
| `PyCaller` | PyCaller, with and without input, and the PyActor it forks, joined by pipes |
| `PassRewriter` | the traversal and numbering of PassRewriter.cpp, its log, and the options of ScriptDriver.sh |
| `PassService` | compilers, Clang daemon, queues and tfServer of `inference/`, stop and start |
| `LitRound` | rounds of `LitDriver.py` with `LitMimic.py`, the lit workers, the time stamp and the daemon of the function-level mode |
| `MC*` | instances for TLC |
| `*_proofs` | theorems and proofs, one module per component; `TrainingEnv_proofs` has those of `WorkerPool` as well |

They fit together so: `LimitTimeExec` shows how and when make or lit can end or
survive; `EnvDaemon` uses these outcomes as its steps `MakeReturns`, `MakeFails`,
`MakeOutlivesKill` (and the same for lit) and is shown to implement `WorkerServiceSpec`; `TrainingEnv` uses
`WorkerService` as the remote end of `WorkerPool`, and is shown to implement
`WorkerPool`, so that the theorems about the pool hold of it.  `PyCaller` looks into the
steps `ActorStarts`, `ActorGivesUp` and `ActorRecords` of `EnvDaemon` and `RunTest` of
`LitRound`: it justifies that a PyActor records a whole run or nothing.  `PassRewriter` and
`PassService` stand alone: their links to the rest are LLVM's sources and the compiler.

### How state and actions correspond to the code

**WorkerPool.** `pc[c]` is the next statement of process `c`: "hire" waits for
`WorkerLock.acquire()` in `hireRemoteWorker`, "scan" is the loop over
`SharedWorkerDict.items()`, "mark" the assignment of `False`, "leaveHire" the
release; "free", "unmark" and "leaveFree" are the same for `freeRemoteWorker`; "work" is
`EnvDoJob` between them; "dead" is a process ended by an exception that nothing
catches.  Each call to the manager dictionary is a step of its own, since it is a
message to another process.  A pass of the scan that finds nothing is no step:
it changes nothing and starts again with the lock held.  `LeaveFree` also
returns to `EnvWorker`: on an empty status the same program is tried again.

**LimitTimeExec.** `pc` is the daemon's place in the loop; `recheck` and `children` are
the two calls, `is_alive` and psutil's `children`, between which the process may end and the tree may
change.  `alive` and `parent` are the process table; a process that dies gives
its children to `Init1`.  `Descendants` is what `children(recursive=True)` returns at one
moment.  `orphans` and `late` are history: who had lost a process above it before `KillChildren` looked, and who was
started after (`Looked`).  `func`, `funcRet` and `exitcode` belong to the executed process, and `handler`
is the SIGTERM handler that it inherits from the daemon and that kills *its* children
in turn.  `multiprocessing` drops what `Func` returns: that is why `FuncReturns(r)` exits
with 0.

**EnvDaemon.** `hpc` is the phase of the handler.  Files are reduced to where
they come from: `elf[t]` and `oriElf[t]` hold a build (its job, the passes its
objects were compiled with, whether its output is right), `PyCaller` or nothing; `usage[t]` is the job
that was measured.  `objects` are the object files of the build
directory.  `cleaned` and `verdict` are history: whether "make clean" worked and what lit
found; the code looks at neither.  `compilers` and `actors` are the
requests of which a process survived a kill: `SurvivorsLateOrOrphaned` tells which can, those that
were started after the tree was read and those that had left it before.

**WorkerService.** What `EnvDaemon` comes to for a client, in every behaviour (`ServiceRefined`).  `left[w]` are the jobs of which a
compiler or a PyActor survived a kill: they may write results of their own at any later time (`Late`).
`strayed[w]` says that the job was not measured as it should be: "make clean" failed, so that the executable may be that of
any former job, or there was no PyCaller to start a PyActor, so that the measurement is whatever was there.  So nothing is
promised by a guard that the code does not have: `Finish` with "Success" may leave features and measurements of
survivors' jobs, and of a job that strayed any measurement.

**TrainingEnv.** `Send` is `TcpClient.Send` with its connect, `Arrived` is
`Receive`, which reads until the other end closes and then disconnects.  `queue`
holds connections in the listen backlog of a daemon whose handler is busy.  A
daemon that stops closes the connection it serves (the client reads an empty
string) and resets the others (the client raises).  Data are tags: the job that was
measured.  A daemon may also close the connection of a query without an answer
(`DropQuery`), which the client takes for data: an empty string.  A job that is answered, dropped or stopped in the middle may
leave survivors, and "make clean" may fail (`StrayOn`); `LateOn` is a survivor that writes.  `JobGetsOwnResults` names
the two exceptions that come of these, and no other.

**SigintHandler.** `i[p]` is the loop variable of the handler in process `p` and
`tcp[p]` the one connection that it uses for all workers.

**DaemonLifecycle.** `script` is the next statement of `DaemonStart.sh`, where "fork" to
"checkEnv" are `PredictionDaemon.py start` up to the fork of the Env daemon.  `at[k][p]`
is how far process `p` of kind `k` (Clang or Env) has come: "check" looks for the PID
file, "forked" is after the double fork, "opened" and "written" are the two effects of
the `with` that writes the PID file (the number goes out when the file is closed),
"armed" has its exit code and signal handler, "serving" is bound and listens,
"leaving" has an exception to end with, "closing" has run `atexit`.  The Clang daemon
of a start checks its own PID file, long after the script has gone on; the Env
daemon's is checked by the script.  `Terminated` is a SIGTERM: the default action before
the handler is installed, a `SystemExit` after, which `socketserver` before Python 3.6
swallows in the middle of a request.  `abrupt` is history: the kinds of which
a daemon ended without its exit code.

**PyCaller.** `pc` and `actor` are the two processes, `open[p]` the pipe ends process `p`
has.  A pipe is full, empty or at its end by who holds which end, as in the kernel: so it shows
whether each closes what it must.  `written` and `got` count blocks; `report` is the
number in the second pipe, `status` what lit sees (negative: the signal).  `CallerKilled` is the SIGKILL of
`KillChildren`, which may come before that of the PyActor, or without it.

**PassRewriter.** A file is the set of its probes; what clang's traversal yields is a sequence of places,
constant for a file (`Matches`), and another before two lines of NewGVN.cpp are mended
by hand (`Unfixed`).  `RewriteMap` and `InsertIndexId` are global variables of the process, `RewrittenLog` a file
that is appended to, and `buffer` the Rewriter's, which goes to the file at its end.  `complete`, `retidied`
and `installed` are history: whether the last run went through all files, whether passes with
probes were tidied (against `README.md`:285), whether option 3 went to its end.

**PassService.** `at` is the statement of `ClangEcho` that the handler is at, `tf` the loop of
tfServer; `for` in requests and passes is history, the code has no such field.  The model
is a choice among the passes not in the history it is given.  A compiler may be killed
in the middle of its line, and `Swallowed` is a SIGTERM that an older socketserver takes for an error
of the request, after the handler has killed the children.

**LitRound.** `pc` is the driver's place, `k` the root directory, or in the function-level mode the test, it is at.  `LogService(p)` is the constructor of
that name: look, create, read.  `elf[t]` is whether lit would like the executable, `built[t]` the pass set it was
built with, `actors` where PyCaller is in its place, `desc` the tests with a .test file.
`noexe` counts lines of the SanityCheck log, which live as long as the round; `todo` counts those a LitMimic has
taken from it and not dealt with.  `Retry(t)` takes them in any order: the tests of one `lit -j` come to their ends, and leave lines, in any.
`Chosen` is a loop that appends what it takes from one list to another: over `os.walk`, in `PickTests` and
in the removal of failed tests.  `Make` may build or not, and links over a PyCaller when it
comes to it.  A record carries its time stamp and the pass set of `InputSetAll`.
In the function-level mode `WriteInfo`, `BuildAssigned` and `CheckAssignedTest` are the loop over the profiled
benchmarks; `Echo` is an answer of the daemon to a compiler, which logs it in `funcSet` under the benchmark of `info`.

## 3. Runs

| Run | Instance | What it shows |
|---|---|---|
| `MCWorkerPool` | 3 processes, 3 workers, 1 program | exclusive hire, the scan finds a worker, the dictionary is true, the lock is released, the pool implements `WorkerAllocation` |
| `MCLimitTimeExec` | limit 2, unit 1, three processes below the executed one | soundness of what the call returns, timeliness of kills, who may survive, termination |
| `MCEnvDaemon` | 2 targets (1 known to lit), 2 pass lists, 2 requests, 1 wipe or restart | builds, measurements, features and passes are the request's own; a request ends; the worker implements `WorkerServiceSpec` |
| `EnvDaemonVerified` | 1 request | *violated*: "Success" means verified |
| `MCTrainingEnv` | 2 clients, 2 workers, 1 program, 1 fault | results are own but for survivors' and strays', workers serve their hirers, the program ends, the environment implements the pool |
| `SigintHandler` | 3 processes, 3 workers | *violated*: each worker stops |
| `MCDaemonLifecycle` | 2 processes of each kind, 1 hasty repetition, 1 overtaken exit, 1 kill, 1 crash | the PID file names the server; a daemon removes its own file only; a file without a process is left by an abrupt end only; without haste and crashes, repeating the script brings both daemons up |
| `MCPassService` | 3 compilers, 2 at a time, two for one function, 2 passes each, 1 SIGTERM | a reply is for who asked; passes differ; the history is gone; waiters are served or the model is dead |
| `MCLitRound` | 2 roots, 3 directories, 4 tests, 2 profiled, 2 pass sets, 2 lists, 2 rounds, 4 modes, any leftovers of earlier runs | one log a round, each test once, records labelled with their build or with a leftover, none of failed tests, the rounds end or a mail fails |
| `LitRoundMeasured` | same | *violated*: what lit is given are PyActors |
| `MCPassRewriter` | 2 passes and a header, 6 options | probes are distinct, the log tells them, the size fits |
| `MCPyCaller` | inputs of 0, 1, 3 blocks, pipes of 2, codes -64 to 255 | success is real, records are of whole inputs, nobody waits for ever |

The type invariant of every module with variables of its own and a passing run is a theorem (section 4); those of `TrainingEnv`
and `LitRound`, which bound how many jobs are sent and say when `TimeStamp` may be taken for a time, are checked by a run as well.

### Bounds, and why they are enough

* *Pool.* Three processes are the least for which one waits for the lock while another
  scans and a third has died with a worker; a process hires again after it has freed, since a
  program with an empty status is tried again.  The theorems cover every other number.
* *LimitTimeExec.* A limit of two units is passed at the third poll, so every order of
  end, last sleep and kill occurs; three processes below allow a grandchild, an orphan and
  a process started between the snapshot and the kill.
* *EnvDaemon.* Staleness takes two requests, `MaxJobs = 2`, for the same target or for
  two; a compiler or PyActor of the first can then meet the second.  One target is
  unknown to lit.  One restart or wipe may come at any step (`MaxRestarts = 1`).
* *TrainingEnv.* `MaxFaults` bounds drops, stops, wipes, survivors and strays together; what a survivor writes, and when, is
  not bounded.  With one program a
  worker is still reused after a drop, as the same program is retried.  Two faults let a retry be disturbed
  again: that passes five minutes together with liveness; the proofs hold for any number.
* *DaemonLifecycle.* A process ID is given again once no process and no PID file has it, so
  `Pids` bounds how many of one kind live or are remembered at once: one that serves or
  leaves and one that starts.  `MaxOvertaken` bounds how often a start finds a daemon that is about to leave (its PID
  file or its port is still there) and gives up: the README calls it "the previous
  workers need time to finish" and has the operator come back.  `MaxHasty` bounds the
  repetitions that begin while processes of the last one are on their way.  After one of those
  two starts can pass the same check, and the one that then finds the port taken removes the PID
  file of the other as it exits: that is why three of the properties speak of an operator
  who has waited so far (`hasty = 0`); `StaleOnlyIfAbrupt` holds either way.  What
  `PredictionDaemon.py` cannot control, the kills and crashes, is bounded by
  `MaxKills` and `MaxCrashes`.  The theorems hold for any number of all of these.
* *PyCaller.* Three blocks do not fit into a pipe of two, one does; the codes are both ends of a byte
  and signals.  The theorems hold for all sizes and codes.
* *PassRewriter.* The places have each case there is: a template twice, "case: break;" on one line, an empty
  body, a header, a macro, a statement that clang-tidy broke.  Six options: two full cycles.  The theorems hold for any.
* *PassService.* Two compilers at a time with `Threshold = 2` allow every mixture of two
  histories, the third finds what the first has left for the same function.  One SIGTERM
  finds each state of the handler; a Start may follow.  Compilers end, so this system stops
  (`CHECK_DEADLOCK FALSE`).
* *LitRound.* A first root with a kept and a skipped directory and a second one: a failed retry can be taken up again
  when the next root is checked.  A pair of neighbours may fail together.  Two rounds show what the
  first leaves.  Two lists of three tests have a remainder (the code has five lists; the arithmetic is the same).
  In the function-level mode the daemon is up in the first round, in the second it is up or lost; two profiled
  tests, one in each root, give every pair of built, failed and missing ones.  `TimeStamp`, `InputSetAll` and the daemon's
  information file start with anything that earlier runs can have left.

### Fairness

* *Pool.* Each process goes on when it can (`LocalStep`), and a job gets an answer when it is not
  ended by an exception.  The lock is not assumed fair; that is why "every hirer hires"
  is no property.
* *LimitTimeExec.* Only the daemon's own process is fair: the executed function and its
  processes may hang, which is what the limit is for.
* *EnvDaemon.* Only the handler is fair, justified by `CallEnds`.  `RunReturns` waits for the
  PyActor but `RunKilled` does not, so a PyActor that hangs is no obstacle.
* *TrainingEnv.* Each client process is fair; each daemon that is up answers, justified by
  `RequestEnds`.  Drops, stops, starts, wipes, strays and survivors are not fair: a daemon
  that was stopped may stay so, and then its clients die rather than wait.

* *DaemonLifecycle.* Every process and the script go on, and the operator repeats the script
  while the two daemons do not both serve, which is what `DaemonStart.sh` and the README
  ask for.  Kills and crashes are not fair; nor are repetitions when both serve.
  A SIGTERM may be swallowed each time, so that a stop achieves nothing: then the old
  daemons go on serving, and that satisfies the property.
* *PyCaller.* PyCaller goes on, and a PyActor reads its input; the benchmark may take for ever.
* *PassService.* Handler and tfServer go on, and a compiler that has connected sends its line or is
  killed.  Kills, stops and starts are not fair.
* *LitRound.* While the driver or a lit worker can go on, one of them does: make and lit come to an end, which the code assumes as well.
  Which one is left open, and need not be fair: each has finitely many steps before all must wait for the others.
  Nothing is assumed of the daemon; a compiler that gets no answer is a build like any other.

### Disagreements between the code and its comments

1. `LimitTimeExec` returns the exit code of the process, 0 whatever `Func`
   returned, where its docstring says "from Func(args)": a failed make or lit counts as success.
2. So `verify()` never fails on a wrong output and EnvEcho answers "Success" for
   a miscompiled program (`EnvDaemonVerified`).  `SuccessIsOwnBuild` says what is left: a build
   that *failed* is still noticed, since moving a missing executable raises.
3. A run that was killed, or a PyActor that gave up, is answered "Success"
   with no measurement to fetch, which the comment at `Lib.py`:407 allows for; `ProfileIsOwn`
   says that at least an earlier one is not fetched instead.
4. Ctrl-C tells only the first worker to stop (`SigintHandler`).
5. `LitMimic` retries what the log of the round calls NOEXE, so a retry that failed is retried when the next root
   directory is checked, and make links benchmarks over PyCallers that are in place: lit runs them and
   nothing is recorded (`LitRoundMeasured`).

The models show, or were written from, more that no run is spent on:

* "all children will be terminated" (`LimitTimeExec`): processes started after the tree was read survive, and those that
  had lost a process above them before and so were no longer in the tree (`SurvivorsLateOrOrphaned`).
* In the function-level mode a PyActor labels what it records with the set of its root in `InputSetAll`, which this mode neither
  writes nor removes (`LitDriver.py`:161-169, `ServiceLib.py`:183-203).  `README.md`:108 asks for a Benchmark-Level run first: its file
  is still there, so the records bear the set of that run's last round, which says nothing of their build (`LabelIsBuild`).
* `EmailService.send` has only `sendmail` in its try (`ServiceLib.py`:115-131): a mail server that cannot be reached, or refuses the login,
  ends the whole run with an exception at the end of whichever round it happens in (`MailRaises`).
* After a crash, "If failed, try again!" does not help: start finds the PID file and says "Already running", stop
  fails on the process that is gone, and nothing removes the file.  That is why `TryAgainHelps` excludes crashes.
* The first start of a worker always ends with "cmake failed.": `ExecuteCmd` returns a triple,
  which is compared with 0.  And "if the cmake is not done" looks for the directory that is made before
  cmake runs, so the second start serves, as `TryAgainHelps` says, even after a cmake that did fail.
* `LitDriver.py`:199-202 removes from the list it iterates over, so of two neighbouring failed tests one stays. It
  is harmless because its .test file is gone: `RecordedPassed`.
* "make clean" given as a list with `shell=True` runs only its first word, make.
* `LitDriver.py`:39 calls `PassSetService()`, where it would have to be `sv.PassSetService()`; the exception is
  swallowed, so the pass set of a failed build is never recorded there.
* A retry in a directory of `SkipDirList` whose NOEXE line outlives it raises: beside a failed mail the one way that `RunEnds` allows
  not to end the rounds.
* `README.md`:173 lists a mode `Random`; `main` (`LitDriver.py`:487) takes only `Random-BenchmarkLevel` for it, and so
  the list that `PickTests` has for "Random" (line 113) is never used.
* In the function-level mode "all the remained tests should be all reported as successful" (`LitDriver.py`:267), but
  `CheckAssignedTest` looks for failed tests only, which NOEXE is not: a benchmark that was not built is given to lit.
  What fails is in the list as "", which lit does not see.
* `LitDriver.py`:148-151 stops the daemon and starts it at once; if start finds the PID file, the round has no daemon,
  and nobody notices.  `DaemonLifecycle` has the same race, where the script is repeated.
* If the compiler asks while cmake checks it, the answer is logged under the last benchmark of the former round: the
  exception `of = None` in `LabelIsBuild`.
* A copy of the passes that is broken off leaves LLVM with probes of two runs: `ProbesDistinct` promises distinct
  ones only for `installed = "whole"`.

## 4. Proofs

All theorems hold for every value of the constants that the named assumptions allow.  Each is as weak
as the code lets it be, and TLC evaluates it on the instances:
`PoolAssumption` (finitely many processes, not more than workers; `None` is
neither), `TimeAssumption` (a limit, a unit that is not 0), `ProcAssumption` (the processes differ, finitely many),
`FaultsAssumption`, `ReplyAssumption` (the three marks of a connection differ from data),
`LifecycleAssumption` (`None` and `Empty` are no process IDs), `DaemonAssumption` and `NamesAssumption` of `EnvDaemon`
(bounds are numbers; `None` is no request, no build and not `PyCaller`), `SizeAssumption` and `CodeAssumption` of `PyCaller`
(a pipe holds something; return codes are -64 to 255), `PassesAssumption`, `MatchesAssumption`,
`BoundAssumption` and `NoneAssumption` of `PassRewriter` (at least one pass, none twice; `None` is no content),
`ServiceAssumption` of `PassService` (finitely many compilers and passes, at least as many passes as a
function gets; `None` is none of them), and `LitAssumption` of `LitRound` (`TargetPathList` has a root and none twice; `os.walk` yields
a .test file once, below one of the roots; `Input/StdBaseFeatures`, with 319 benchmarks in the repository, names none twice; at least one list and one round; a
time is neither `None` nor `Empty`).

**TrainingEnv_proofs, the pool.** The properties are not inductive by themselves: that the worker found by the scan is still
free when it is marked depends on the lock, and that nobody else marks it depends on the
dictionary being true.  `IInv` adds to the properties `LockInv` (who is in a critical section
holds the lock, and only they), `HasWorker` (a process past the scan has a worker),
`FoundIsFree` (between scan and mark the worker is available) and `InLoop` (the program
counter is in range between jobs).  `ScanFindsWorker` then
follows by counting: if no worker were available each would have a different user, all of them other
than the scanning process, so there would be more processes than workers
(`AllUnavailableAllHiring`).  `PoolRefinesAllocation`: only `MarkHired` and `MarkFree` change
the owner of a worker.

**LimitTimeExec_proofs.** `IInv` is the type invariant with `ClockInv` (how `pc` bounds
`WaitSecs`), `StageInv` (which signals and snapshots each stage may have), `ExitInv`
(an exit code exactly when the process is over, 0 only if `Func` returned) and `TreeInv` (what is in the snapshot and still
alive is still to be killed).  `LineInv` says for `OnlyTheseSurvive` that until `KillChildren` looks every process is below the
executed one or an orphan, and after it was seen, is late or an orphan; `Descendants` is a least set, so it is reasoned about as such.  `ReturnIsSound` is about the callers: what they take for a clean end was one.

**EnvDaemon_proofs.** `RequestInv`: from the request to "make clean" nothing is known to be clean; after it the IPC file
holds the passes of the request.  `BuildInv`: while make, lit and the move of the executable follow, what is at the target's
place is nothing or a build of this request, whose objects were compiled with `OwnPasses` - its passes, or those of
a compiler that survived an earlier kill, the one exception the properties make.  `UsageInv` and
`FeaturesInv` say the same of the measurement and of the features file.  `EnvImplementsService` adds
`OrderInv` (a clean build is profiled by `run` only).  The mapping
reads a measurement of 0 as none, and the handler as serving between request and answer; `left` are the survivors, and a job has
strayed when "make clean" failed or, at a "Success", no PyActor has run.  Every step is then `AbsTake`, `AbsSuccess`, `AbsFailure`,
`AbsWork`, `AbsStray`, `AbsLate`, `AbsWipe` or a stutter of what the client sees (`StepSimulates`), with no
condition on the behaviour.

**PyCaller_proofs.** `WriterInv`: PyCaller has its end of the pipe until all of the input is in it.  `ReaderInv`:
nobody but PyCaller can read the report.  So a PyActor past its input has all of it unless PyCaller was killed
(`InputInv`), a report is the code of the last run on the whole input (`ReportInv`), and status 0 is the report 0
(`StatusInv`, with `LowByte` for the eight bits).

**PassRewriter_proofs.** `LogInv`: the log numbers its lines from 0 and names no place twice.  `ToolInv`: the
process knows as many indices, and all places, as the log has.  `StageInv` is what the scripts leave for each other.
`ProgressInv` says how far each file is while PassRewriter runs, `FilesInv` that the files have no probes the
log does not tell (`Told`), and `InstallInv` follows the copies; these three hold while no passes with probes are tidied again.
`ToldDistinct` gives distinctness from the log, and the size is counted with `FS_Interval`.

**PassService_proofs.** `Coming` is the pass that was chosen and has not arrived, wherever it is: with tfServer, in the
queue, or in the handler's hand.  `FlightInv` says that a request or a pass is in one place only and belongs
to the compiler that is served, which is `ReplyIsOwn`; `ConnInv` that who is at the daemon has had no pass since it
connected.  `Prospect(c)` is what `c` will have when the coming pass has arrived: only `ChoosePass` changes it
(`ProspectKept`), so `DistinctInv` (its passes differ) and `HistoryInv` (they are what `FunctionPassRec` has,
until they are complete) need to be shown for that step alone.  `AloneInv` makes the compiler of an undisturbed function unique.

**TrainingEnv_proofs, the environment.** `EnvInv` has the pool's `IInv` as its first conjunct.
`ConnInv` ties a client's connection to the worker it hired; `ServedInv` and `QueuedInv` say that what a
worker serves or has queued comes from a client that is connected to it, waits, and
has hired it; with `ExclusiveHire` there is one such client, so the worker is
quiet between two requests of a job.  `OwnInv` says that after "Success", for as long as its client is at its queries, the worker
holds only results the client is `Allowed`: of the last job, or of jobs in `left`; the measurement only where it is `Certain`, the job
not having strayed.  `ReplyInv` and `DataInv` carry this through the connection to what the client stores.  What a client is
allowed only grows while it uses the worker (`Grows`, `Carry`), since `left` does and `strayed` is reset by the next job only: so a
survivor that writes between two queries (`LateOnInv`), or a stop that leaves one (`StopInv`), breaks none of them.
`EnvRefinesPool` shows that every step is one of the pool or leaves it alone, and
`EnvHireIsExclusive` carries a theorem of the pool over.

`EnvTypes` needs a count that no other property uses: `TypeOK` bounds the number of jobs a client ever sends.  `CountInv` says
that it is at most the number of programs done and in hand plus the number of faults so far, where the program in hand counts
once its job is sent and as long as it is not lost with a closed connection (`Counted`).  Only `Send` adds to the
number, and the job before it was then answered or lost; only a fault loses one, and each fault one at most.
`SentInv` (who is connected has sent a job) and `KeptInv` (results are kept under tags of jobs) complete `BoundInv`.

**DaemonLifecycle_proofs.** `NamedInv`, which holds for any operator, says that the process
named in a PID file is between writing it and its exit code, or ended abruptly; it is
inductive because a process writes its own number only.  `OwnInv` is its converse, for an operator
who waits: every process in those stages *is* named, an opened file is
empty, and a process that is about to open it finds none.  That no other process is in the
way needs `OneStarts`: of each kind at most one process starts, and none while
the script is before its fork.  `RemovesOnlyOwn` follows since only `AtExit` removes a
file (`OnlyAtExitRemoves`) and its process is named there.

**LitRound_proofs.** The invariant of a round, `IInv`, has a part for each thing that one stage leaves for another.
`DriverInv` and `WorkerInv` follow TimeStamp: the driver's `LogService` writes it before any worker looks, so a worker finds it
whole and never takes the branch that creates it, and whoever has read it has the driver's time; `LogInv` adds that what is
logged in a round bears that time.  This is `OneLogPerRound`, and the part of `Types` that `ReadStamp` never
reads a half-written time.  `FreshInv` (a root is built after those before it, in a tree with no executable), `BuiltInv` (in the benchmark-level modes what is built was built with the set
that `InputSetAll` has for its root, in the function-level mode with none, whatever `InputSetAll` has), `InfoInv` (the daemon is told of a benchmark before it is built) and `ActorInv`
(only what is built, and stays, records) give `LabelsAreBuilds`.  For `RecordsPassed`, `FailedInv` says that a test that has a
.test file and a bad executable is known as failed as soon as lit has been run on its root, retries included, and that after the removal only good ones
have both a .test file and a PyActor: so it does not matter that the loop over the list leaves some in it.  `ListInv`
says that the list never has a test twice.  It rests on lemmas about the loops (`ChosenProperties`, `RemovedProperties`,
`PickedProperties`, `ShuffleProperties`, `KeptProperties`), which hold for lists of any length: a loop is a recursive function, and induction over its index
is had without an operator as a parameter, from the least number of a set (`LeastNatural`, from the library's `WFMin`;
`NaturalInduction`).  `PartsInv` then counts what is still to be run and what has been: each test in the list is in one part or has been
run once.  That the cut itself is right is arithmetic, `PartsReach` and `EveryPlaceOnce`: with `Step` as the code rounds it, every place of the
list is in one slice and no place in two, also where the last slices are short or empty.  This is `TestsOnce`.

**Only model-checked.** Liveness (`LockIsReleased`, `CallEnds`, `RequestEnds`, `AllEnd`, `TryAgainHelps`,
`CallerFollowsActor`, `InputIsRead`, `WaitersAreServed`, `RunEnds`) and with it ENABLED are out of the prover's reach.  Every invariant, action
property and refinement that a passing run checks is a theorem as well.

## 5. Not modelled

* Linkers, as opposed to compilers, that survive a kill; a "make clean" that removes some of its files.
* Exceptions that end the daemon: in Python up to 3.5 `socketserver` swallows the
  `SystemExit` of a handler and the connection is closed; the model has this outcome, and
  `StopStart` the other.
* The retry without end for a target the daemon does not know: the client's table and the
  worker's come from the same generator (`EnvDaemon` has the `UnknownTarget` step; the client
  model counts it among the bounded faults).
* perf's output and its parsing, the format of the features, message texts, the text of mails.
* The lock of the log files, which is released before the buffered line is written by `close`: each message is one
  write to a file opened for appending, which the kernel does not split, so the lock adds nothing that a model could lose.
* The learning algorithm: it is not in this repository; `fakeEnv.py` stands in for it, and in `PassService` the
  trained model is a choice.
* That `start` empties the IPC file, and `daemonize` removes the log file, of a worker that
  may be running.
* Which passes the Random-selection daemon draws, and how it matches a demangled name with perf's: a choice of no effect
  on the rest of a round.
* `LitMimic.run` without a PyCaller returns `None`: an installation that was not made, no behaviour of a round.
* The pass database (`PassInstrument/Database`): LLVM's own passes, with the calls that the pass rewriter inserts.  They are
  the data that `PassRewriter` works on, by far the largest part of the C++ code here, and not this project's program; their
  lines are mapped to no definition.  The same holds for the vendored benchmarks.
* The reward tools (`RewriteWithTimeApi.cpp` among them), the graphs and the evaluation scripts: sequential programs over their
  input files, run by hand.
* The other components marked `not_modelled` in `PROJECT.json`, with the reason there.

## 6. Plan

All of the plan of the first version is done: `WorkerPool` with `WorkerAllocation`; `LimitTimeExec`; `EnvDaemon` with
`WorkerService` and its specification; `TrainingEnv`, which composes them; `SigintHandler`; `DaemonLifecycle`; `PassService`;
`LitRound`; `PyCaller` and `PassRewriter`, which were added to it; and the proofs for all of them
but `SigintHandler`, whose one property is violated.  What is left, in the order of its worth:

1. What the liveness properties rest on, as safety: that a process that waits can be let go on by another, for any number of them.
2. `RewriteWithTimeApi.cpp`, a second client of the traversal in `PassRewriter`.
