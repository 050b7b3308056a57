------------------------------ MODULE Lifecycle ------------------------------
(***************************************************************************)
(* The life of one monitored process: the preloaded main(), the singleton  *)
(* ZeroSum object, its asynchronous worker thread, the signal handler and  *)
(* the ways in which the process can end.                                  *)
(*                                                                         *)
(* Two threads have a program counter: "main" (the thread that constructs  *)
(* the singleton and runs the application) and "worker" (threadedFunction).*)
(* Shutdown, exit, the destructor and the handler can run on either one.   *)
(***************************************************************************)
EXTENDS FiniteSets

CONSTANTS
  Options,       \* the option records a run explores, one is chosen in Init
  CtorSignals    \* may an external signal arrive while the singleton is built?

Threads == {"main", "worker"}

(***************************************************************************)
(* process.id is a process id and pthread_kill takes a thread handle, so   *)
(* the call is undefined: "segv" is the C library reading through the id,  *)
(* "quit" is SIGQUIT reaching the process, "ignored" an error return. The  *)
(* library and the id stay what they are, so all calls of a process come   *)
(* to the same.                                                            *)
(***************************************************************************)
KillOutcome == {"segv", "quit", "ignored"}

(***************************************************************************)
(* Build and run-time options that decide the control flow:                *)
(*   mpi     built with ZEROSUM_USE_MPI                                    *)
(*   handler ZS_SIGNAL_HANDLER, log  ZS_ENABLE_LOG                         *)
(*   detect  ZS_DETECT_DEADLOCK, monitor  ZS_MONITOR_LOG                   *)
(*   exits   a GPU or hwloc query can fail, its error path calls exit()    *)
(*   kill    what pthread_kill(process.id, SIGQUIT) comes to               *)
(***************************************************************************)
Option == [mpi: BOOLEAN, handler: BOOLEAN, log: BOOLEAN, detect: BOOLEAN,
           monitor: BOOLEAN, exits: BOOLEAN, kill: KillOutcome]

ASSUME LifecycleAssumption == Options \subseteq Option /\ CtorSignals \in BOOLEAN

VARIABLES
  opt,          \* the options of this run, fixed after Init
  pc,           \* where each thread is
  instance,     \* the function-local static of getInstance()
  working,      \* ZeroSum::working
  doShutdown,   \* ZeroSum::doShutdown
  joinable,     \* worker.joinable()
  dtorBy,       \* the thread that runs ~ZeroSum, or "none"
  initialized,  \* the worker's local: has doOnce() succeeded?
  mpi,          \* "none", "ready" after MPI_Init, "final" after MPI_Finalize
  log,          \* "none", "open", or "final" once finalizeLog() closed it
  stopFile,     \* ./zerosum.stop exists
  expired,      \* the time limit has passed
  quitMasked,   \* SIGQUIT is blocked on main, its handler has been entered
  signalled,    \* the one external signal of a run has been sent (a bound)
  outcome       \* "running", or how the process ended

vars == <<opt, pc, instance, working, doShutdown, joinable, dtorBy,
          initialized, mpi, log, stopFile, expired, quitMasked,
          signalled, outcome>>

\* What the worker and the ending threads do not change.
env == <<mpi, stopFile, expired, quitMasked, signalled>>
\* What ~ZeroSum and shutdown() work on.
ending == <<working, doShutdown, joinable, dtorBy>>

\* Program counters. A kill site is named for the code that called it.
KillSites   == {"killDeadlock", "killStop", "killStale", "killExpired"}
EndingPcs   == {"sd", "notify", "join", "final", "exit", "detach", "destroy", "end"}
HandlerPcs  == {"trace", "crash"}
MainPcs     == {"start", "ctor", "ctorSpawned", "app"} \cup EndingPcs \cup HandlerPcs
WorkerPcs   == {"none", "top", "once", "info", "open", "hw", "threads", "gpu",
                "stop", "stale", "row", "pred", "block", "wait", "expire", "done"}
                 \cup KillSites \cup EndingPcs \cup HandlerPcs

Running     == outcome = "running"
Constructed == instance \in {"alive", "destroyed"}   \* the static's guard is set
WorkerLive  == pc["worker"] \notin {"none", "done"}

Goto(t, p)     == pc' = [pc EXCEPT ![t] = p]
Step(t, p, q)  == Running /\ pc[t] = p /\ Goto(t, q)

Init ==
  /\ opt \in Options
  /\ pc = [t \in Threads |-> IF t = "main" THEN "start" ELSE "none"]
  /\ instance = "none"
  /\ working = FALSE /\ doShutdown = FALSE /\ joinable = FALSE
  /\ dtorBy = "none"
  /\ initialized = FALSE
  /\ mpi = "none"
  /\ log = "none"
  /\ stopFile \in BOOLEAN
  /\ expired = FALSE /\ quitMasked = FALSE /\ signalled = FALSE
  /\ outcome = "running"

-----------------------------------------------------------------------------
(* Main: zerosum_preload_main and the constructor.                         *)

\* getInstance() enters the constructor: members, the handler registration.
ConstructBegin ==
  /\ Step("main", "start", "ctor")
  /\ instance' = "building"
  /\ working' = TRUE /\ doShutdown' = TRUE
  /\ UNCHANGED <<opt, joinable, dtorBy, initialized, log, env, outcome>>

\* The constructor starts the worker and is not finished yet.
ConstructSpawn ==
  /\ Running /\ pc["main"] = "ctor"
  /\ pc' = [pc EXCEPT !["main"] = "ctorSpawned", !["worker"] = "top"]
  /\ joinable' = TRUE
  /\ UNCHANGED <<opt, instance, working, doShutdown, dtorBy, initialized, log,
                 env, outcome>>

ConstructEnd ==
  /\ Step("main", "ctorSpawned", "app")
  /\ instance' = "alive"
  /\ UNCHANGED <<opt, ending, initialized, log, env, outcome>>

\* main_real returns and the preloaded main calls shutdown(), or the
\* application calls exit() itself.
AppReturn ==
  /\ Step("main", "app", "sd")
  /\ UNCHANGED <<opt, instance, ending, initialized, log, env, outcome>>

AppExit ==
  /\ Step("main", "app", "exit")
  /\ UNCHANGED <<opt, instance, ending, initialized, log, env, outcome>>

-----------------------------------------------------------------------------
(* Environment: MPI calls of the application, the stop file, time, signals. *)

MpiStep ==
  /\ Running /\ opt.mpi /\ pc["main"] = "app"
  /\ \/ mpi = "none"  /\ mpi' = "ready"
     \/ mpi = "ready" /\ mpi' = "final"
  /\ UNCHANGED <<opt, pc, instance, ending, initialized, log, stopFile, expired,
                 quitMasked, signalled, outcome>>

CreateStopFile ==
  /\ Running /\ ~stopFile
  /\ stopFile' = TRUE
  /\ UNCHANGED <<opt, pc, instance, ending, initialized, mpi, log, expired,
                 quitMasked, signalled, outcome>>

LimitPasses ==
  /\ Running /\ ~expired /\ WorkerLive
  /\ expired' = TRUE
  /\ UNCHANGED <<opt, pc, instance, ending, initialized, mpi, log, stopFile,
                 quitMasked, signalled, outcome>>

\* A signal is delivered to t: the handler starts, or the default action ends
\* the process.
Raise(t) ==
  IF opt.handler
  THEN Goto(t, "trace") /\ UNCHANGED outcome
  ELSE outcome' = "killed" /\ UNCHANGED pc

Signal(t) ==
  /\ Running /\ ~signalled
  /\ IF t = "main" THEN pc[t] # "start" ELSE WorkerLive
  /\ instance = "building" => CtorSignals
  /\ signalled' = TRUE
  /\ Raise(t)
  /\ UNCHANGED <<opt, instance, ending, initialized, mpi, log, stopFile, expired,
                 quitMasked>>

-----------------------------------------------------------------------------
(* Worker: threadedFunction, doOnce, doPeriodic, checkForStop.             *)

\* Everything a worker step leaves alone unless it says otherwise.
WorkerFrame == UNCHANGED <<opt, instance, ending, env>>

\* A step that only moves the worker on.
Move(p, q) ==
  /\ Step("worker", p, q)
  /\ WorkerFrame /\ UNCHANGED <<initialized, log, outcome>>

\* Mutant: an unknown state is left behind.
FinalizeLog_Closed == log' = "closed"

\* finalizeLog() closes the log if it is open.
FinalizeLog == log' = IF log = "open" THEN "final" ELSE log

\* Mutant: the kill is sent and the log is left open.
GiveUp_NoFlush(p, site) == Move(p, site)

\* One of the four places that give up on the application: the log is
\* finalised, then the kill is sent.
GiveUp(p, site) ==
  /\ Step("worker", p, site)
  /\ FinalizeLog
  /\ WorkerFrame /\ UNCHANGED <<initialized, outcome>>

\* The outer loop's test of working.
LoopTop == Move("top", IF working THEN "once" ELSE "done")

\* The inner loop: tests working and doOnce() up to MPI_Initialized.
OnceSkip == initialized /\ Move("once", "threads")
OnceStop == ~initialized /\ ~working /\ Move("once", "pred")
OnceSpin == ~initialized /\ working /\ opt.mpi /\ mpi = "none" /\ Move("once", "once")
OnceReady ==
  /\ ~initialized /\ working
  /\ opt.mpi => mpi # "none"
  /\ Move("once", "info")

\* getMPIinfo(): MPI may have been finalised since MPI_Initialized said yes, an
\* error then goes to MPI_Abort.
OnceInfo ==
  \/ Move("info", IF opt.log THEN "open" ELSE "hw")
  \/ /\ Running /\ pc["worker"] = "info" /\ mpi = "final"
     /\ outcome' = "aborted"
     /\ WorkerFrame /\ UNCHANGED <<pc, initialized, log>>

\* openLog() asks getInstance() for the rank, which waits for the constructor.
OnceOpenLog ==
  /\ Constructed
  /\ Step("worker", "open", "hw")
  /\ log' = "open"
  /\ WorkerFrame /\ UNCHANGED <<initialized, outcome>>

\* getgpu(), node fields, hwloc: the end of doOnce().
OnceDone ==
  /\ Step("worker", "hw", "threads")
  /\ initialized' = TRUE
  /\ WorkerFrame /\ UNCHANGED <<log, outcome>>

\* A failing GPU or hwloc query calls exit() on the worker.
ErrorExit ==
  /\ opt.exits
  /\ \/ Move("hw", "exit")
     \/ Move("gpu", "exit")

\* getpthreads(): may find every thread asleep for long enough; it then writes
\* to getInstance().getLogfile().
ThreadsOK == Move("threads", "gpu")
ThreadsDeadlocked == opt.detect /\ Constructed /\ GiveUp("threads", "killDeadlock")

\* The node's and the GPUs' samples.
Sample == Move("gpu", "stop")

\* checkForStop(): the stop file, then the monitored log's age.
StopAbsent == ~stopFile /\ Move("stop", "stale")
StopFound  == stopFile /\ GiveUp("stop", "killStop")
StaleNo    == Move("stale", "row")
StaleFound == opt.monitor /\ GiveUp("stale", "killStale")

\* logThreads() appends this period's rows, if the log is open.
WriteRow == Move("row", "pred")

\* wait_for: the predicate is tested, then the worker blocks; it holds cv_m
\* until then, but shutdown() does not ask for cv_m. A notification or a spurious
\* wake-up tests the predicate again, a timeout returns its value.
\* Mutant: wait() in place of wait_for().
Timeout_Never == FALSE

PredTest == Move("pred", IF working THEN "block" ELSE "done")
Block    == Move("block", "wait")
Spurious == Move("wait", "pred")
Timeout  == Move("wait", IF working THEN "expire" ELSE "done")

\* Mutant: the limit finalises the log and goes on.
ExpiredFound_NoKill == expired /\ GiveUp("expire", "top")

NotExpired   == ~expired /\ Move("expire", "top")
ExpiredFound == expired /\ GiveUp("expire", "killExpired")

\* Where the worker goes on if the kill has no effect.
AfterKill == [killDeadlock |-> "gpu", killStop |-> "stale",
              killStale |-> "row", killExpired |-> "top"]

\* pthread_kill(process.id, SIGQUIT) on the worker: SIGSEGV, or an error.
KillSegv ==
  /\ opt.kill = "segv"
  /\ Running /\ pc["worker"] \in KillSites
  /\ Raise("worker")
  /\ WorkerFrame /\ UNCHANGED <<initialized, log>>

KillIgnored ==
  /\ opt.kill = "ignored"
  /\ pc["worker"] \in KillSites /\ Move(pc["worker"], AfterKill[pc["worker"]])

\* SIGQUIT reaches the process: the worker blocks it, so main takes it, unless
\* it is in the handler of an earlier one.
KillQuit ==
  /\ opt.kill = "quit"
  /\ Running /\ pc["worker"] \in KillSites
  /\ IF opt.handler
     THEN /\ pc' = [main   |-> IF quitMasked THEN pc["main"] ELSE "trace",
                    worker |-> AfterKill[pc["worker"]]]
          /\ quitMasked' = TRUE
          /\ UNCHANGED outcome
     ELSE outcome' = "killed" /\ UNCHANGED <<pc, quitMasked>>
  /\ UNCHANGED <<opt, instance, ending, initialized, mpi, log, stopFile, expired,
                 signalled>>

\* What the worker does by itself, waking up from its wait apart.
WorkerStep ==
  \/ LoopTop \/ OnceSkip \/ OnceStop \/ OnceSpin \/ OnceReady \/ OnceInfo
  \/ OnceOpenLog \/ OnceDone \/ ErrorExit
  \/ ThreadsOK \/ ThreadsDeadlocked \/ Sample
  \/ StopAbsent \/ StopFound \/ StaleNo \/ StaleFound \/ WriteRow
  \/ PredTest \/ Block \/ NotExpired \/ ExpiredFound
  \/ KillSegv \/ KillIgnored \/ KillQuit

Worker == WorkerStep \/ Spurious \/ Timeout

-----------------------------------------------------------------------------
(* Ending: shutdown(), exit(), ~ZeroSum and the handler, on either thread. *)

\* shutdown() returns to the preloaded main, which exits, or to ~ZeroSum.
AfterShutdown(t) == IF dtorBy = t THEN "detach" ELSE "exit"

ShutdownSkip(t) ==
  /\ ~doShutdown
  /\ Step(t, "sd", AfterShutdown(t))
  /\ UNCHANGED <<opt, instance, ending, initialized, log, env, outcome>>

ShutdownFlag(t) ==
  /\ doShutdown
  /\ Step(t, "sd", "notify")
  /\ working' = FALSE
  /\ UNCHANGED <<opt, instance, doShutdown, joinable, dtorBy, initialized, log,
                 env, outcome>>

\* cv.notify_all() without cv_m: it reaches the worker only if it waits now.
Notify(t) ==
  /\ Running /\ pc[t] = "notify"
  /\ pc' = [u \in Threads |-> IF u = t THEN "join"
                              ELSE IF pc[u] = "wait" THEN "pred" ELSE pc[u]]
  /\ UNCHANGED <<opt, instance, ending, initialized, log, env, outcome>>

\* Mutant: the worker is not joined.
Join_Missing(t) ==
  /\ joinable
  /\ Step(t, "join", "final")
  /\ UNCHANGED <<opt, instance, ending, initialized, log, env, outcome>>

Join(t) ==
  /\ t # "worker" /\ joinable /\ pc["worker"] = "done"
  /\ Step(t, "join", "final")
  /\ joinable' = FALSE
  /\ UNCHANGED <<opt, instance, working, doShutdown, dtorBy, initialized, log,
                 env, outcome>>

\* join() throws when a thread joins itself or the worker is not joinable, and
\* nothing catches it: std::terminate raises SIGABRT.
JoinThrows(t) ==
  /\ Running /\ pc[t] = "join"
  /\ t = "worker" \/ ~joinable
  /\ Raise(t)
  /\ UNCHANGED <<opt, instance, ending, initialized, log, env>>

\* The summary of rank 0, then finalizeLog().
Summary(t) ==
  /\ Step(t, "final", AfterShutdown(t))
  /\ FinalizeLog
  /\ UNCHANGED <<opt, instance, ending, initialized, env, outcome>>

\* Mutant: ~ZeroSum only detaches.
ExitDestroys_DetachOnly(t) ==
  /\ instance = "alive" /\ dtorBy = "none"
  /\ Step(t, "exit", "detach")
  /\ dtorBy' = t
  /\ UNCHANGED <<opt, instance, working, doShutdown, joinable, initialized, log,
                 env, outcome>>

\* exit() runs ~ZeroSum once, and only for a completed singleton; working
\* decides whether the destructor shuts down first.
ExitDestroys(t) ==
  /\ instance = "alive" /\ dtorBy = "none"
  /\ Step(t, "exit", IF working THEN "sd" ELSE "detach")
  /\ dtorBy' = t
  /\ UNCHANGED <<opt, instance, working, doShutdown, joinable, initialized, log,
                 env, outcome>>

ExitSkips(t) ==
  /\ instance # "alive" \/ dtorBy # "none"
  /\ Step(t, "exit", "end")
  /\ UNCHANGED <<opt, instance, ending, initialized, log, env, outcome>>

Detach(t) ==
  /\ Step(t, "detach", "destroy")
  /\ joinable' = FALSE
  /\ UNCHANGED <<opt, instance, working, doShutdown, dtorBy, initialized, log,
                 env, outcome>>

\* The members of the singleton are destroyed.
Destroy(t) ==
  /\ Step(t, "destroy", "end")
  /\ instance' = "destroyed"
  /\ UNCHANGED <<opt, ending, initialized, log, env, outcome>>

\* The process is gone, its threads with it.
End(t) ==
  /\ Running /\ pc[t] = "end"
  /\ outcome' = IF ~doShutdown THEN "crashed"
                ELSE IF t = "main" /\ dtorBy = t THEN "clean" ELSE "error"
  /\ UNCHANGED <<opt, pc, instance, ending, initialized, log, env>>

\* print_backtrace() calls getInstance(), which waits for the constructor --
\* for ever when it interrupted the constructor itself.
Trace(t) ==
  /\ Constructed
  /\ Step(t, "trace", "crash")
  /\ UNCHANGED <<opt, instance, ending, initialized, log, env, outcome>>

\* Mutants: handleCrash() forgets the flag; the handler returns to the program.
Crash_KeepsFlag(t) ==
  /\ Step(t, "crash", "exit")
  /\ UNCHANGED <<opt, instance, ending, initialized, log, env, outcome>>

Crash_Returns(t) ==
  /\ Step(t, "crash", IF t = "main" THEN "app" ELSE "top")
  /\ doShutdown' = FALSE
  /\ UNCHANGED <<opt, instance, working, joinable, dtorBy, initialized, log,
                 env, outcome>>

\* handleCrash(), then exit(sig).
Crash(t) ==
  /\ Step(t, "crash", "exit")
  /\ doShutdown' = FALSE
  /\ UNCHANGED <<opt, instance, working, joinable, dtorBy, initialized, log,
                 env, outcome>>

Ending(t) ==
  \/ ShutdownSkip(t) \/ ShutdownFlag(t) \/ Notify(t) \/ Join(t) \/ JoinThrows(t)
  \/ Summary(t) \/ ExitDestroys(t) \/ ExitSkips(t) \/ Detach(t) \/ Destroy(t)
  \/ End(t) \/ Trace(t) \/ Crash(t)

\* A process that has ended stays ended.
Gone == ~Running /\ UNCHANGED vars

-----------------------------------------------------------------------------
Main == ConstructBegin \/ ConstructSpawn \/ ConstructEnd \/ AppReturn \/ AppExit

Environment ==
  \/ MpiStep \/ CreateStopFile \/ LimitPasses
  \/ \E t \in Threads : Signal(t)

Next == Main \/ Environment \/ Worker \/ (\E t \in Threads : Ending(t)) \/ Gone

Spec == Init /\ [][Next]_vars

(***************************************************************************)
(* The scheduler runs every thread that can run, and a wait that is woken  *)
(* too early keeps its deadline, so that the timeout comes in the end.     *)
(* Nothing obliges the application to return or to call MPI, a signal or a *)
(* stop file to come, or a condition variable to wake up spuriously.       *)
(***************************************************************************)
Fairness ==
  /\ WF_vars(ConstructSpawn) /\ WF_vars(ConstructEnd)
  /\ WF_vars(WorkerStep) /\ SF_vars(Timeout)
  /\ \A t \in Threads : WF_vars(Ending(t))

FairSpec == Spec /\ Fairness

-----------------------------------------------------------------------------
(* Properties.                                                             *)

\* Every variable stays in its range: the two threads, what they share, and
\* what is outside the program.
ThreadsTyped ==
  /\ pc \in [Threads -> MainPcs \cup WorkerPcs]
  /\ pc["main"] \in MainPcs /\ pc["worker"] \in WorkerPcs

StateTyped ==
  /\ opt \in Options
  /\ instance \in {"none", "building", "alive", "destroyed"}
  /\ working \in BOOLEAN /\ doShutdown \in BOOLEAN /\ joinable \in BOOLEAN
  /\ dtorBy \in Threads \cup {"none"}
  /\ initialized \in BOOLEAN
  /\ log \in {"none", "open", "final"}
  /\ outcome \in {"running", "clean", "crashed", "error", "killed", "aborted"}

OutsideTyped ==
  /\ mpi \in {"none", "ready", "final"}
  /\ stopFile \in BOOLEAN /\ expired \in BOOLEAN
  /\ quitMasked \in BOOLEAN /\ signalled \in BOOLEAN

TypeOK == ThreadsTyped /\ StateTyped /\ OutsideTyped

\* The summary and the final log sections are produced only when the worker
\* has returned: nobody samples while they are formatted (zerosum.cpp, join
\* before getSummary()).
SummaryAfterWorker == \A t \in Threads : pc[t] = "final" => pc["worker"] = "done"

\* While main ends the process in an orderly way the members of the singleton
\* outlive the worker that uses them, whichever of main's return and exit()
\* comes first and wherever the worker is: ~ZeroSum may detach only a worker
\* that has gone, or one a crash leaves behind.
MembersOutliveWorker ==
  dtorBy = "main" /\ doShutdown /\ (instance = "destroyed" \/ pc["main"] = "destroy")
    => pc["worker"] = "done"

\* A process that ends without a crash leaves a complete log: if logging was
\* on and the worker got through doOnce(), the log was finalised and not just
\* closed by the end of the process. ImplementsSession says so of a log that was opened.
CleanExitFlushed ==
  outcome = "clean" /\ opt.log /\ initialized => log = "final"

\* join() never throws in an orderly end: no thread joins itself, and the
\* worker is joinable at the join unless a crash handler detached it. Holds
\* where no error path of the sampling code calls exit() (JoinSafeAlways).
JoinSafe ==
  ~opt.exits =>
    \A t \in Threads : pc[t] = "join" => t # "worker" /\ (joinable \/ ~doShutdown)

\* Once shutdown() has begun the process ends, wherever the worker is, and
\* although the notification can be lost between the test of the predicate and
\* the wait: the timeout makes up for it.
ShutdownEnds == pc["main"] = "sd" ~> ~Running

\* A fatal signal that reaches the handler once the singleton is built ends
\* the process, on either thread and in the middle of a shutdown too.
HandledSignalEnds ==
  (\E t \in Threads : pc[t] = "trace" /\ Constructed) ~> ~Running

\* A user's stop file and the time limit end the process in the end, whatever
\* the application does, once doOnce() has succeeded: if the undefined kill faults
\* or arrives, since nothing else is tried where it only returns an error.
AbortHonoured ==
  (stopFile \/ expired) /\ initialized /\ Constructed /\ opt.kill # "ignored" ~> ~Running

-----------------------------------------------------------------------------
(* The session that a process is.                                          *)

\* A thread is in the handler or has been through it, or the worker exits.
Failing ==
  \/ \E t \in Threads : pc[t] \in HandlerPcs
  \/ pc["worker"] \in EndingPcs
  \/ instance # "none" /\ ~doShutdown

\* The summary has been made as soon as main has joined the worker and is past it.
Phase ==
  IF ~Running THEN "gone"
  ELSE IF Failing THEN "failing"
  ELSE IF pc["worker"] = "none" THEN "idle"
  ELSE IF pc["worker"] \in KillSites THEN "killing"
  ELSE IF pc["worker"] # "done" THEN "sampling"
  ELSE IF joinable \/ pc["main"] = "final" THEN "still"
  ELSE "reported"

Promise == INSTANCE Session WITH phase <- Phase, log <- log, result <- outcome

\* The process keeps its promise: whichever of the ends meet, the phases come in
\* order, and the log with them (zerosum.cpp 83-142, 213-228, 345-380).
ImplementsSession == Promise!SessionSpec

-----------------------------------------------------------------------------
(* What the documentation promises and the code does not do.               *)

\* JoinSafe without its condition: the GPU error paths "exit" (sycl.cpp).
JoinSafeAlways == \A t \in Threads : pc[t] = "join" => t # "worker"

\* --zs:expiration, "specify time limit in seconds": the limit ends a run.
TimeLimitHonoured == expired ~> ~Running

\* --zs:signal-handler, "to handle crashes": a signal the handler caught ends
\* the process.
CaughtSignalEnds == (\E t \in Threads : pc[t] = "trace") ~> ~Running

=============================================================================
