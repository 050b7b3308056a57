-------------------------- MODULE LifecycleProofs --------------------------
(***************************************************************************)
(* Type correctness and the safety properties of Lifecycle, for every set  *)
(* of options, every outcome of the misdirected kill and signals at any    *)
(* time, during the construction of the singleton too; and, from the       *)
(* second half on, that Lifecycle implements Session.                      *)
(***************************************************************************)
EXTENDS Lifecycle, TLAPS

USE DEF Threads, Running, Step, Goto, env, ending, Move, GiveUp, WorkerFrame

-----------------------------------------------------------------------------
(* Type correctness, one lemma per part of TypeOK.                         *)

LEMMA TypeInit == Init => TypeOK
BY LifecycleAssumption
   DEF Init, TypeOK, ThreadsTyped, StateTyped, OutsideTyped, MainPcs, WorkerPcs

\* The program counters stay those of their thread.
LEMMA ThreadsStep == ThreadsTyped /\ [Next]_vars => ThreadsTyped'
<1> SUFFICES ASSUME ThreadsTyped, [Next]_vars PROVE ThreadsTyped'
  OBVIOUS
<1> USE DEF ThreadsTyped, MainPcs, WorkerPcs, KillSites, EndingPcs, HandlerPcs
<1>1. CASE Main
  BY <1>1 DEF Main, ConstructBegin, ConstructSpawn, ConstructEnd, AppReturn, AppExit
<1>2. CASE Environment
  BY <1>2 DEF Environment, MpiStep, CreateStopFile, LimitPasses, Signal, Raise, WorkerLive
<1>3. CASE LoopTop \/ OnceSkip \/ OnceStop \/ OnceSpin \/ OnceReady
  BY <1>3 DEF LoopTop, OnceSkip, OnceStop, OnceSpin, OnceReady
<1>4. CASE OnceInfo \/ OnceOpenLog \/ OnceDone \/ ErrorExit
  BY <1>4 DEF OnceInfo, OnceOpenLog, OnceDone, ErrorExit
<1>5. CASE ThreadsOK \/ ThreadsDeadlocked \/ Sample \/ StopAbsent \/ StopFound
  BY <1>5 DEF ThreadsOK, ThreadsDeadlocked, Sample, StopAbsent, StopFound
<1>6. CASE StaleNo \/ StaleFound \/ WriteRow \/ PredTest \/ Block
  BY <1>6 DEF StaleNo, StaleFound, WriteRow, PredTest, Block
<1>7. CASE NotExpired \/ ExpiredFound \/ Spurious \/ Timeout
  BY <1>7 DEF NotExpired, ExpiredFound, Spurious, Timeout
<1>8. CASE KillSegv \/ KillIgnored \/ KillQuit
  BY <1>8 DEF KillSegv, KillIgnored, KillQuit, Raise, AfterKill
<1>9. ASSUME NEW t \in Threads, Ending(t) PROVE ThreadsTyped'
  <2>1. CASE ShutdownSkip(t) \/ ShutdownFlag(t) \/ Notify(t)
    BY <2>1 DEF ShutdownSkip, ShutdownFlag, Notify, AfterShutdown
  <2>2. CASE Join(t) \/ JoinThrows(t) \/ Summary(t)
    BY <2>2 DEF Join, JoinThrows, Summary, Raise, AfterShutdown
  <2>3. CASE ExitDestroys(t) \/ ExitSkips(t) \/ Detach(t) \/ Destroy(t)
    BY <2>3 DEF ExitDestroys, ExitSkips, Detach, Destroy
  <2>4. CASE End(t) \/ Trace(t) \/ Crash(t)
    BY <2>4 DEF End, Trace, Crash
  <2> QED
    BY <1>9, <2>1, <2>2, <2>3, <2>4 DEF Ending
<1>10. CASE UNCHANGED vars
  BY <1>10 DEF vars
<1> QED
  BY <1>1, <1>2, <1>3, <1>4, <1>5, <1>6, <1>7, <1>8, <1>9, <1>10
     DEF Next, Worker, WorkerStep, Gone

\* What the threads share stays in range.
LEMMA StateStep == StateTyped /\ [Next]_vars => StateTyped'
<1> SUFFICES ASSUME StateTyped, [Next]_vars PROVE StateTyped'
  OBVIOUS
<1> USE DEF StateTyped
<1>1. CASE Main
  BY <1>1 DEF Main, ConstructBegin, ConstructSpawn, ConstructEnd, AppReturn, AppExit
<1>2. CASE Environment
  BY <1>2 DEF Environment, MpiStep, CreateStopFile, LimitPasses, Signal, Raise
<1>3. CASE LoopTop \/ OnceSkip \/ OnceStop \/ OnceSpin \/ OnceReady
  BY <1>3 DEF LoopTop, OnceSkip, OnceStop, OnceSpin, OnceReady
<1>4. CASE OnceInfo \/ OnceOpenLog \/ OnceDone \/ ErrorExit
  BY <1>4 DEF OnceInfo, OnceOpenLog, OnceDone, ErrorExit
<1>5. CASE ThreadsOK \/ ThreadsDeadlocked \/ Sample \/ StopAbsent \/ StopFound
  BY <1>5 DEF ThreadsOK, ThreadsDeadlocked, Sample, StopAbsent, StopFound, FinalizeLog
<1>6. CASE StaleNo \/ StaleFound \/ WriteRow \/ PredTest \/ Block
  BY <1>6 DEF StaleNo, StaleFound, WriteRow, PredTest, Block, FinalizeLog
<1>7. CASE NotExpired \/ ExpiredFound \/ Spurious \/ Timeout
  BY <1>7 DEF NotExpired, ExpiredFound, Spurious, Timeout, FinalizeLog
<1>8. CASE KillSegv \/ KillIgnored \/ KillQuit
  BY <1>8 DEF KillSegv, KillIgnored, KillQuit, Raise
<1>9. ASSUME NEW t \in Threads, Ending(t) PROVE StateTyped'
  <2>1. CASE ShutdownSkip(t) \/ ShutdownFlag(t) \/ Notify(t)
    BY <2>1 DEF ShutdownSkip, ShutdownFlag, Notify
  <2>2. CASE Join(t) \/ JoinThrows(t) \/ Summary(t)
    BY <2>2 DEF Join, JoinThrows, Summary, Raise, FinalizeLog
  <2>3. CASE ExitDestroys(t) \/ ExitSkips(t) \/ Detach(t) \/ Destroy(t)
    BY <2>3 DEF ExitDestroys, ExitSkips, Detach, Destroy
  <2>4. CASE End(t) \/ Trace(t) \/ Crash(t)
    BY <2>4 DEF End, Trace, Crash
  <2> QED
    BY <1>9, <2>1, <2>2, <2>3, <2>4 DEF Ending
<1>10. CASE UNCHANGED vars
  BY <1>10 DEF vars
<1> QED
  BY <1>1, <1>2, <1>3, <1>4, <1>5, <1>6, <1>7, <1>8, <1>9, <1>10
     DEF Next, Worker, WorkerStep, Gone

\* What is outside of the program stays in range.
LEMMA OutsideStep == OutsideTyped /\ [Next]_vars => OutsideTyped'
<1> SUFFICES ASSUME OutsideTyped, [Next]_vars PROVE OutsideTyped'
  OBVIOUS
<1> USE DEF OutsideTyped
<1>1. CASE Main
  BY <1>1 DEF Main, ConstructBegin, ConstructSpawn, ConstructEnd, AppReturn, AppExit
<1>2. CASE Environment
  BY <1>2 DEF Environment, MpiStep, CreateStopFile, LimitPasses, Signal
<1>3. CASE Worker
  BY <1>3 DEF Worker, WorkerStep, LoopTop, OnceSkip, OnceStop, OnceSpin, OnceReady,
       OnceInfo, OnceOpenLog, OnceDone, ErrorExit, ThreadsOK, ThreadsDeadlocked,
       Sample, StopAbsent, StopFound, StaleNo, StaleFound, WriteRow, PredTest, Block,
       NotExpired, ExpiredFound, Spurious, Timeout, KillSegv, KillIgnored, KillQuit
<1>4. ASSUME NEW t \in Threads, Ending(t) PROVE OutsideTyped'
  BY <1>4 DEF Ending, ShutdownSkip, ShutdownFlag, Notify, Join, JoinThrows, Summary,
       ExitDestroys, ExitSkips, Detach, Destroy, End, Trace, Crash
<1>5. CASE UNCHANGED vars
  BY <1>5 DEF vars
<1> QED
  BY <1>1, <1>2, <1>3, <1>4, <1>5 DEF Next, Gone

\* Every variable of every reachable state is in its range.
THEOREM TypeCorrect == Spec => []TypeOK
<1>1. TypeOK /\ [Next]_vars => TypeOK'
  BY ThreadsStep, StateStep, OutsideStep DEF TypeOK
<1> QED
  BY TypeInit, <1>1, PTL DEF Spec

-----------------------------------------------------------------------------
(* The inductive invariant.                                                *)

\* The worker is started by the constructor and not before.
Unborn == pc["main"] \in {"start", "ctor"} => pc["worker"] = "none"

\* main has not entered ~ZeroSum, and only ~ZeroSum of another thread can have
\* cleared working, while the application still runs.
AppPhase ==
  /\ pc["main"] \in {"start", "ctor", "ctorSpawned", "app"} => dtorBy # "main"
  /\ pc["main"] \in {"ctor", "ctorSpawned", "app"} /\ dtorBy # "worker" => working

\* Only the thread that runs ~ZeroSum is in it; the worker shuts down nowhere else.
DtorOwner ==
  /\ pc["worker"] = "sd" => dtorBy = "worker"
  /\ \A t \in Threads : pc[t] \in {"detach", "destroy"} => dtorBy = t

\* working is cleared before the join, and it is never set again.
FlagCleared == pc["main"] \in {"notify", "join", "final"} => ~working

\* The heart of the matter: in an orderly end in which the worker takes no
\* part, a cleared flag outside of main's notify and join means that the worker
\* has been joined.
StoppedMeansDone ==
  ~working /\ doShutdown /\ dtorBy # "worker"
      /\ pc["main"] \notin {"notify", "join", "trace", "crash"}
    => pc["worker"] = "done"

\* Once main has been through its summary the log is not open.
SummarisedLog ==
  ~working /\ doShutdown /\ dtorBy # "worker"
      /\ pc["main"] \in {"exit", "detach", "destroy", "end"}
    => log # "open"

\* main comes to the end of ~ZeroSum in order only through a shutdown.
DtorAfterShutdown ==
  dtorBy = "main" /\ doShutdown =>
    /\ pc["main"] # "exit"
    /\ pc["main"] \in {"detach", "destroy", "end"} => ~working

\* A log that was asked for has been opened when doOnce() is over.
LogOpened == opt.log /\ (initialized \/ pc["worker"] = "hw") => log # "none"

\* Where no error path exits, the worker ends the process only after a crash.
WorkerEndsByCrash ==
  ~opt.exits =>
    /\ pc["worker"] \in EndingPcs => ~doShutdown
    /\ pc["worker"] \notin {"notify", "join", "final"}

\* Until main has joined it, the worker stays joinable.
JoinableUntilJoin ==
  ~opt.exits /\ doShutdown =>
    /\ pc["main"] \in {"ctorSpawned", "app", "sd", "notify", "join"} => joinable
    /\ pc["main"] = "exit" /\ working => joinable

EndingInv ==
  /\ Unborn /\ AppPhase /\ DtorOwner /\ FlagCleared
  /\ StoppedMeansDone /\ SummaryAfterWorker /\ DtorAfterShutdown

LogInv == SummarisedLog /\ LogOpened /\ CleanExitFlushed

JoinInv == WorkerEndsByCrash /\ JoinableUntilJoin

IInv ==
  /\ TypeOK /\ EndingInv /\ LogInv /\ JoinInv
  /\ MembersOutliveWorker

-----------------------------------------------------------------------------
(* What a step of the sampling code can and cannot do, once for all its     *)
(* actions: the steps below need no more of them.                           *)

WorkerEffect ==
  /\ pc["worker"] \notin EndingPcs \cup {"none", "done"}
  /\ pc'["worker"] \notin (EndingPcs \ {"exit"}) \cup {"none"}
  /\ pc'["worker"] = "exit" => opt.exits
  /\ pc'["main"] \in {pc["main"], "trace"}
  /\ UNCHANGED <<opt, instance, working, doShutdown, joinable, dtorBy, mpi>>
  /\ outcome' \in {"running", "killed", "aborted"}

WorkerProgress ==
  /\ log # "none" => log' # "none"
  /\ initialized' => initialized \/ pc["worker"] = "hw"
  /\ pc'["worker"] = "hw" => ~opt.log \/ log' = "open"
  /\ pc'["worker"] \in {"info", "open", "hw"} =>
       pc["worker"] \in {"info", "open"} \/ (opt.mpi => mpi # "none")

LEMMA WorkerEffectHolds ==
  ASSUME ThreadsTyped, Worker PROVE WorkerEffect /\ WorkerProgress
<1> USE DEF ThreadsTyped, WorkerEffect, WorkerProgress, EndingPcs
<1>1. CASE LoopTop \/ OnceSkip \/ OnceStop \/ OnceSpin \/ OnceReady
  BY <1>1 DEF LoopTop, OnceSkip, OnceStop, OnceSpin, OnceReady
<1>2. CASE OnceInfo \/ OnceOpenLog \/ OnceDone \/ ErrorExit
  BY <1>2 DEF OnceInfo, OnceOpenLog, OnceDone, ErrorExit
<1>3. CASE ThreadsOK \/ ThreadsDeadlocked \/ Sample \/ StopAbsent \/ StopFound
  BY <1>3 DEF ThreadsOK, ThreadsDeadlocked, Sample, StopAbsent, StopFound, FinalizeLog
<1>4. CASE StaleNo \/ StaleFound \/ WriteRow \/ PredTest \/ Block
  BY <1>4 DEF StaleNo, StaleFound, WriteRow, PredTest, Block, FinalizeLog
<1>5. CASE NotExpired \/ ExpiredFound \/ Spurious \/ Timeout
  BY <1>5 DEF NotExpired, ExpiredFound, Spurious, Timeout, FinalizeLog
<1>6. CASE KillSegv \/ KillIgnored \/ KillQuit
  BY <1>6 DEF KillSegv, KillIgnored, KillQuit, Raise, AfterKill, KillSites
<1> QED
  BY <1>1, <1>2, <1>3, <1>4, <1>5, <1>6 DEF Worker, WorkerStep

-----------------------------------------------------------------------------
(* The steps of the inductive invariant.                                   *)

LEMMA EndingInvStep == ThreadsTyped /\ EndingInv /\ [Next]_vars => EndingInv'
<1> SUFFICES ASSUME ThreadsTyped, EndingInv, [Next]_vars PROVE EndingInv'
  OBVIOUS
<1> USE DEF ThreadsTyped, EndingInv, Unborn, AppPhase, DtorOwner, FlagCleared,
        StoppedMeansDone, SummaryAfterWorker, DtorAfterShutdown
<1>1. CASE Main
  <2>1. CASE ConstructBegin
    BY <2>1 DEF ConstructBegin
  <2>2. CASE ConstructSpawn
    BY <2>2 DEF ConstructSpawn
  <2>3. CASE ConstructEnd \/ AppReturn \/ AppExit
    BY <2>3 DEF ConstructEnd, AppReturn, AppExit
  <2> QED
    BY <1>1, <2>1, <2>2, <2>3 DEF Main
<1>2. CASE Environment
  <2>1. CASE MpiStep \/ CreateStopFile \/ LimitPasses
    BY <2>1 DEF MpiStep, CreateStopFile, LimitPasses
  <2>2. ASSUME NEW t \in Threads, Signal(t) PROVE EndingInv'
    BY <2>2 DEF Signal, Raise, WorkerLive
  <2> QED
    BY <1>2, <2>1, <2>2 DEF Environment
<1>3. CASE Worker
  <2>1. WorkerEffect
    BY <1>3, WorkerEffectHolds
  <2> QED
    BY <2>1 DEF WorkerEffect, EndingPcs
<1>4. ASSUME NEW t \in Threads, Ending(t) PROVE EndingInv'
  <2>1. CASE ShutdownSkip(t) \/ ShutdownFlag(t)
    BY <2>1 DEF ShutdownSkip, ShutdownFlag, AfterShutdown
  <2>2. CASE Notify(t)
    BY <2>2 DEF Notify
  <2>3. CASE Join(t) \/ JoinThrows(t)
    BY <2>3 DEF Join, JoinThrows, Raise
  <2>4. CASE Summary(t)
    BY <2>4 DEF Summary, AfterShutdown
  <2>5. CASE ExitDestroys(t) \/ ExitSkips(t)
    BY <2>5 DEF ExitDestroys, ExitSkips
  <2>6. CASE Detach(t) \/ Destroy(t) \/ End(t)
    BY <2>6 DEF Detach, Destroy, End
  <2>7. CASE Trace(t) \/ Crash(t)
    BY <2>7 DEF Trace, Crash
  <2> QED
    BY <1>4, <2>1, <2>2, <2>3, <2>4, <2>5, <2>6, <2>7 DEF Ending
<1>5. CASE UNCHANGED vars
  BY <1>5 DEF vars
<1> QED
  BY <1>1, <1>2, <1>3, <1>4, <1>5 DEF Next, Gone

LEMMA LogInvStep ==
  TypeOK /\ EndingInv /\ LogInv /\ [Next]_vars => LogInv'
<1> SUFFICES ASSUME TypeOK, EndingInv, LogInv, [Next]_vars PROVE LogInv'
  OBVIOUS
<1> USE DEF TypeOK, ThreadsTyped, StateTyped, LogInv, SummarisedLog, LogOpened,
        CleanExitFlushed
<1>1. CASE Main
  BY <1>1 DEF Main, ConstructBegin, ConstructSpawn, ConstructEnd, AppReturn, AppExit,
       EndingInv, AppPhase
<1>2. CASE Environment
  <2>1. CASE MpiStep \/ CreateStopFile \/ LimitPasses
    BY <2>1 DEF MpiStep, CreateStopFile, LimitPasses
  <2>2. ASSUME NEW t \in Threads, Signal(t) PROVE LogInv'
    BY <2>2 DEF Signal, Raise
  <2> QED
    BY <1>2, <2>1, <2>2 DEF Environment
<1>3. CASE Worker
  <2>1. WorkerEffect /\ WorkerProgress
    BY <1>3, WorkerEffectHolds
  <2>2. LogOpened' /\ CleanExitFlushed'
    BY <2>1 DEF WorkerEffect, WorkerProgress
  <2>3. SummarisedLog'
    BY <2>1 DEF WorkerEffect, EndingInv, StoppedMeansDone
  <2> QED
    BY <2>2, <2>3
<1>4. ASSUME NEW t \in Threads, Ending(t) PROVE LogInv'
  <2>1. CASE ShutdownSkip(t) \/ ShutdownFlag(t)
    BY <2>1 DEF ShutdownSkip, ShutdownFlag, AfterShutdown, EndingInv, DtorOwner
  <2>2. CASE Notify(t)
    BY <2>2 DEF Notify
  <2>3. CASE Join(t) \/ JoinThrows(t)
    BY <2>3 DEF Join, JoinThrows, Raise
  <2>4. CASE Summary(t)
    BY <2>4 DEF Summary, AfterShutdown, FinalizeLog
  <2>5. CASE ExitDestroys(t) \/ ExitSkips(t)
    BY <2>5 DEF ExitDestroys, ExitSkips
  <2>6. CASE Detach(t) \/ Destroy(t)
    BY <2>6 DEF Detach, Destroy
  <2>7. CASE End(t)
    BY <2>7 DEF End, EndingInv, DtorAfterShutdown
  <2>8. CASE Trace(t) \/ Crash(t)
    BY <2>8 DEF Trace, Crash
  <2> QED
    BY <1>4, <2>1, <2>2, <2>3, <2>4, <2>5, <2>6, <2>7, <2>8 DEF Ending
<1>5. CASE UNCHANGED vars
  BY <1>5 DEF vars
<1> QED
  BY <1>1, <1>2, <1>3, <1>4, <1>5 DEF Next, Gone

LEMMA JoinInvStep ==
  ThreadsTyped /\ EndingInv /\ JoinInv /\ [Next]_vars => JoinInv'
<1> SUFFICES ASSUME ThreadsTyped, EndingInv, JoinInv, [Next]_vars PROVE JoinInv'
  OBVIOUS
<1> USE DEF ThreadsTyped, JoinInv, WorkerEndsByCrash, JoinableUntilJoin, EndingPcs
<1>1. CASE Main
  BY <1>1 DEF Main, ConstructBegin, ConstructSpawn, ConstructEnd, AppReturn, AppExit,
       EndingInv, Unborn
<1>2. CASE Environment
  <2>1. CASE MpiStep \/ CreateStopFile \/ LimitPasses
    BY <2>1 DEF MpiStep, CreateStopFile, LimitPasses
  <2>2. ASSUME NEW t \in Threads, Signal(t) PROVE JoinInv'
    BY <2>2 DEF Signal, Raise
  <2> QED
    BY <1>2, <2>1, <2>2 DEF Environment
<1>3. CASE Worker
  BY <1>3, WorkerEffectHolds DEF WorkerEffect
<1>4. ASSUME NEW t \in Threads, Ending(t) PROVE JoinInv'
  <2>1. CASE ShutdownSkip(t) \/ ShutdownFlag(t)
    BY <2>1 DEF ShutdownSkip, ShutdownFlag, AfterShutdown
  <2>2. CASE Notify(t)
    BY <2>2 DEF Notify
  <2>3. CASE Join(t) \/ JoinThrows(t)
    BY <2>3 DEF Join, JoinThrows, Raise
  <2>4. CASE Summary(t)
    BY <2>4 DEF Summary, AfterShutdown, EndingInv, FlagCleared
  <2>5. CASE ExitDestroys(t) \/ ExitSkips(t)
    BY <2>5 DEF ExitDestroys, ExitSkips
  <2>6. CASE Detach(t) \/ Destroy(t) \/ End(t)
    BY <2>6 DEF Detach, Destroy, End
  <2>7. CASE Trace(t) \/ Crash(t)
    BY <2>7 DEF Trace, Crash
  <2> QED
    BY <1>4, <2>1, <2>2, <2>3, <2>4, <2>5, <2>6, <2>7 DEF Ending
<1>5. CASE UNCHANGED vars
  BY <1>5 DEF vars
<1> QED
  BY <1>1, <1>2, <1>3, <1>4, <1>5 DEF Next, Gone

LEMMA MembersStep ==
  ThreadsTyped /\ EndingInv /\ MembersOutliveWorker /\ [Next]_vars
    => MembersOutliveWorker'
<1> SUFFICES ASSUME ThreadsTyped, EndingInv, MembersOutliveWorker, [Next]_vars
             PROVE  MembersOutliveWorker'
  OBVIOUS
<1> USE DEF ThreadsTyped, MembersOutliveWorker
<1>1. CASE Main
  BY <1>1 DEF Main, ConstructBegin, ConstructSpawn, ConstructEnd, AppReturn, AppExit,
       EndingInv, AppPhase
<1>2. CASE Environment
  <2>1. CASE MpiStep \/ CreateStopFile \/ LimitPasses
    BY <2>1 DEF MpiStep, CreateStopFile, LimitPasses
  <2>2. ASSUME NEW t \in Threads, Signal(t) PROVE MembersOutliveWorker'
    BY <2>2 DEF Signal, Raise, WorkerLive
  <2> QED
    BY <1>2, <2>1, <2>2 DEF Environment
<1>3. CASE Worker
  BY <1>3, WorkerEffectHolds DEF WorkerEffect
<1>4. ASSUME NEW t \in Threads, Ending(t) PROVE MembersOutliveWorker'
  <2>1. CASE Detach(t)
    \* main detaches with working cleared, so the worker has been joined.
    BY <2>1 DEF Detach, EndingInv, DtorAfterShutdown, StoppedMeansDone
  <2>2. CASE Destroy(t)
    BY <2>2 DEF Destroy, EndingInv, DtorOwner
  <2>3. CASE ExitDestroys(t) \/ ExitSkips(t)
    BY <2>3 DEF ExitDestroys, ExitSkips
  <2>4. CASE ShutdownSkip(t) \/ ShutdownFlag(t) \/ Summary(t)
    BY <2>4 DEF ShutdownSkip, ShutdownFlag, Summary, AfterShutdown
  <2>5. CASE Notify(t) \/ Join(t) \/ JoinThrows(t)
    BY <2>5 DEF Notify, Join, JoinThrows, Raise
  <2>6. CASE End(t) \/ Trace(t) \/ Crash(t)
    BY <2>6 DEF End, Trace, Crash
  <2> QED
    BY <1>4, <2>1, <2>2, <2>3, <2>4, <2>5, <2>6 DEF Ending
<1>5. CASE UNCHANGED vars
  BY <1>5 DEF vars
<1> QED
  BY <1>1, <1>2, <1>3, <1>4, <1>5 DEF Next, Gone

-----------------------------------------------------------------------------
(* The theorems.                                                           *)

LEMMA InvInit == Init => IInv
<1> SUFFICES ASSUME Init PROVE IInv
  OBVIOUS
<1>1. TypeOK
  BY TypeInit
<1>2. EndingInv
  BY DEF Init, EndingInv, Unborn, AppPhase, DtorOwner, FlagCleared, StoppedMeansDone,
         SummaryAfterWorker, DtorAfterShutdown
<1>3. LogInv /\ JoinInv
  BY DEF Init, LogInv, SummarisedLog, LogOpened, CleanExitFlushed, JoinInv,
         WorkerEndsByCrash, JoinableUntilJoin, EndingPcs
<1>4. MembersOutliveWorker
  BY DEF Init, MembersOutliveWorker
<1> QED
  BY <1>1, <1>2, <1>3, <1>4 DEF IInv

LEMMA InvStep == IInv /\ [Next]_vars => IInv'
BY ThreadsStep, StateStep, OutsideStep, EndingInvStep, LogInvStep, JoinInvStep,
   MembersStep DEF IInv, TypeOK

\* The inductive invariant behind the safety theorems holds in every state.
THEOREM InductiveInvariant == Spec => []IInv
BY InvInit, InvStep, PTL DEF Spec

\* The summary is formatted only when the worker has returned.
THEOREM SummaryAfterWorkerHolds == Spec => []SummaryAfterWorker
<1>1. IInv => SummaryAfterWorker
  BY DEF IInv, EndingInv
<1> QED
  BY InductiveInvariant, <1>1, PTL

\* In an orderly end the members of the singleton outlive the worker.
THEOREM MembersOutliveWorkerHolds == Spec => []MembersOutliveWorker
<1>1. IInv => MembersOutliveWorker
  BY DEF IInv
<1> QED
  BY InductiveInvariant, <1>1, PTL

\* A process that ends without a crash has finalised the log it opened.
THEOREM CleanExitFlushedHolds == Spec => []CleanExitFlushed
<1>1. IInv => CleanExitFlushed
  BY DEF IInv, LogInv
<1> QED
  BY InductiveInvariant, <1>1, PTL

\* join() does not throw in an orderly end without exiting error paths.
THEOREM JoinSafeHolds == Spec => []JoinSafe
<1>1. IInv => JoinSafe
  BY DEF IInv, JoinInv, JoinSafe, WorkerEndsByCrash, JoinableUntilJoin
<1> QED
  BY InductiveInvariant, <1>1, PTL

-----------------------------------------------------------------------------
(* The session: what its phases need beyond the inductive invariant.       *)

\* The singleton is built before main goes on, and destroyed by who entered ~ZeroSum.
Built ==
  /\ instance = "none" <=> pc["main"] = "start"
  /\ pc["main"] \in {"ctor", "ctorSpawned"} => instance = "building"
  /\ instance = "building" => pc["main"] \in {"ctor", "ctorSpawned", "trace"}
  /\ dtorBy # "none" => instance \in {"alive", "destroyed"}
  /\ instance = "destroyed" => dtorBy # "none"

\* A worker that runs ~ZeroSum does not come back from it.
WorkerDtor == dtorBy = "worker" => pc["worker"] \in EndingPcs \cup HandlerPcs

\* main comes to its end through ~ZeroSum, its own or the worker's.
EndOwned == pc["main"] = "end" /\ doShutdown => dtorBy # "none"

\* In an orderly end main is past the join when it has the summary to make.
Joined ==
  doShutdown /\ ~working /\ dtorBy # "worker"
      /\ pc["main"] \in {"final", "exit", "detach", "destroy", "end"}
    => ~joinable

\* Nobody but main's join takes a worker that is at work.
StaysJoinable == ~Failing /\ pc["worker"] \notin {"none", "done"} => joinable

\* SIGQUIT stays blocked on a main that never leaves its handler for the application.
QuitMeansFailing == quitMasked => Failing

\* The log is opened once, before doOnce() is over.
OpenedOnce ==
  /\ pc["worker"] \in {"info", "open", "hw"} => ~initialized
  /\ pc["worker"] \in {"none", "top", "once", "info", "open"} /\ ~initialized => log = "none"
  /\ pc["worker"] = "pred" => initialized \/ ~working
  /\ pc["worker"] \in {"threads", "gpu", "stop", "stale", "row", "block", "wait", "expire"}
                        \cup KillSites => initialized

SessionInv == /\ Built /\ WorkerDtor /\ EndOwned /\ Joined
              /\ StaysJoinable /\ QuitMeansFailing /\ OpenedOnce

\* Who fails does not recover.
LEMMA FailingStays ==
  ASSUME ThreadsTyped, EndingInv, Built, Failing, [Next]_vars
  PROVE  Failing'
<1> USE DEF ThreadsTyped, Built, Failing, HandlerPcs, EndingPcs
<1>1. CASE Main
  BY <1>1 DEF Main, ConstructBegin, ConstructSpawn, ConstructEnd, AppReturn, AppExit,
       EndingInv, Unborn
<1>2. CASE Environment
  <2>1. CASE MpiStep \/ CreateStopFile \/ LimitPasses
    BY <2>1 DEF MpiStep, CreateStopFile, LimitPasses
  <2>2. ASSUME NEW t \in Threads, Signal(t) PROVE Failing'
    BY <2>2 DEF Signal, Raise, Threads
  <2> QED
    BY <1>2, <2>1, <2>2 DEF Environment
<1>3. CASE Worker
  <2>1. CASE pc["worker"] \in HandlerPcs
    BY <1>3, <2>1 DEF Worker, WorkerStep, LoopTop, OnceSkip, OnceStop, OnceSpin, OnceReady,
       OnceInfo, OnceOpenLog, OnceDone, ErrorExit, ThreadsOK, ThreadsDeadlocked,
       Sample, StopAbsent, StopFound, StaleNo, StaleFound, WriteRow, PredTest, Block,
       NotExpired, ExpiredFound, Spurious, Timeout, KillSegv, KillIgnored, KillQuit, KillSites
  <2>2. WorkerEffect
    BY <1>3, WorkerEffectHolds
  <2>3. CASE pc["worker"] \notin HandlerPcs
    BY <2>2, <2>3 DEF WorkerEffect, Threads
  <2> QED
    BY <2>1, <2>3
<1>4. ASSUME NEW t \in Threads, Ending(t) PROVE Failing'
  <2>1. CASE ShutdownSkip(t) \/ ShutdownFlag(t)
    BY <2>1 DEF ShutdownSkip, ShutdownFlag, AfterShutdown, Threads
  <2>2. CASE Notify(t)
    BY <2>2 DEF Notify, Threads
  <2>3. CASE Join(t) \/ JoinThrows(t)
    BY <2>3 DEF Join, JoinThrows, Raise, Threads
  <2>4. CASE Summary(t)
    BY <2>4 DEF Summary, AfterShutdown, Threads
  <2>5. CASE ExitDestroys(t) \/ ExitSkips(t)
    BY <2>5 DEF ExitDestroys, ExitSkips, Threads
  <2>6. CASE Detach(t) \/ Destroy(t) \/ End(t)
    BY <2>6 DEF Detach, Destroy, End, Threads
  <2>7. CASE Trace(t)
    BY <2>7 DEF Trace, Threads
  <2>8. CASE Crash(t)
    BY <2>8 DEF Crash, Threads
  <2> QED
    BY <1>4, <2>1, <2>2, <2>3, <2>4, <2>5, <2>6, <2>7, <2>8 DEF Ending
<1>5. CASE UNCHANGED vars
  BY <1>5 DEF vars
<1> QED
  BY <1>1, <1>2, <1>3, <1>4, <1>5 DEF Next, Gone

\* The singleton's life is that of main's construction and of ~ZeroSum.
LEMMA BuiltStep ==
  ThreadsTyped /\ EndingInv /\ Built /\ [Next]_vars => Built'
<1> SUFFICES ASSUME ThreadsTyped, EndingInv, Built, [Next]_vars PROVE Built'
  OBVIOUS
<1> USE DEF ThreadsTyped, Built
<1>1. CASE Main
  BY <1>1 DEF Main, ConstructBegin, ConstructSpawn, ConstructEnd, AppReturn, AppExit
<1>2. CASE Environment
  <2>1. CASE MpiStep \/ CreateStopFile \/ LimitPasses
    BY <2>1 DEF MpiStep, CreateStopFile, LimitPasses
  <2>2. ASSUME NEW t \in Threads, Signal(t) PROVE Built'
    BY <2>2 DEF Signal, Raise, Threads
  <2> QED
    BY <1>2, <2>1, <2>2 DEF Environment
<1>3. CASE Worker
  <2>1. WorkerEffect
    BY <1>3, WorkerEffectHolds
  <2> QED
    BY <2>1 DEF WorkerEffect, EndingInv, Unborn
<1>4. ASSUME NEW t \in Threads, Ending(t) PROVE Built'
  <2>0. pc["main"] = "start" => pc["worker"] = "none"
    BY DEF EndingInv, Unborn
  <2>1. CASE ShutdownSkip(t) \/ ShutdownFlag(t)
    BY <2>0, <2>1 DEF ShutdownSkip, ShutdownFlag, AfterShutdown, Threads
  <2>2. CASE Notify(t)
    BY <2>0, <2>2 DEF Notify, Threads
  <2>3. CASE Join(t) \/ JoinThrows(t)
    BY <2>0, <2>3 DEF Join, JoinThrows, Raise, Threads
  <2>4. CASE Summary(t)
    BY <2>0, <2>4 DEF Summary, AfterShutdown, Threads
  <2>5. CASE ExitDestroys(t) \/ ExitSkips(t)
    BY <2>0, <2>5 DEF ExitDestroys, ExitSkips, Threads
  <2>6. CASE Detach(t) \/ End(t)
    BY <2>0, <2>6 DEF Detach, End, Threads
  <2>7. CASE Destroy(t)
    BY <2>0, <2>7 DEF Destroy, Threads, EndingInv, DtorOwner
  <2>8. CASE Trace(t) \/ Crash(t)
    BY <2>0, <2>8 DEF Trace, Crash, Threads, Constructed
  <2> QED
    BY <1>4, <2>1, <2>2, <2>3, <2>4, <2>5, <2>6, <2>7, <2>8 DEF Ending
<1>5. CASE UNCHANGED vars
  BY <1>5 DEF vars
<1> QED
  BY <1>1, <1>2, <1>3, <1>4, <1>5 DEF Next, Gone

\* The worker in ~ZeroSum, the owner of main's end and the join.
OwnersInv == WorkerDtor /\ EndOwned /\ Joined

\* Nobody enters ~ZeroSum or comes to its end another way.
LEMMA OwnersStep ==
  TypeOK /\ EndingInv /\ Built /\ OwnersInv /\ [Next]_vars => OwnersInv'
<1> SUFFICES ASSUME TypeOK, EndingInv, Built, OwnersInv, [Next]_vars PROVE OwnersInv'
  OBVIOUS
<1> USE DEF OwnersInv, WorkerDtor, EndOwned, Joined, EndingPcs, HandlerPcs
<1>0. ThreadsTyped /\ dtorBy \in Threads \cup {"none"}
  BY DEF TypeOK, StateTyped
<1>1. CASE Main
  BY <1>0, <1>1 DEF Main, ConstructBegin, ConstructSpawn, ConstructEnd, AppReturn, AppExit,
       ThreadsTyped, EndingInv, AppPhase, Unborn
<1>2. CASE Environment
  <2>1. CASE MpiStep \/ CreateStopFile \/ LimitPasses
    BY <2>1 DEF MpiStep, CreateStopFile, LimitPasses
  <2>2. ASSUME NEW t \in Threads, Signal(t) PROVE OwnersInv'
    BY <1>0, <2>2 DEF Signal, Raise, Threads, ThreadsTyped
  <2> QED
    BY <1>2, <2>1, <2>2 DEF Environment
<1>3. CASE Worker
  <2>1. WorkerEffect
    BY <1>0, <1>3, WorkerEffectHolds
  <2>2. dtorBy = "worker" => pc'["worker"] \in HandlerPcs
    BY <1>3, <2>1 DEF WorkerEffect, Worker, WorkerStep, LoopTop, OnceSkip, OnceStop, OnceSpin, OnceReady,
       OnceInfo, OnceOpenLog, OnceDone, ErrorExit, ThreadsOK, ThreadsDeadlocked,
       Sample, StopAbsent, StopFound, StaleNo, StaleFound, WriteRow, PredTest, Block,
       NotExpired, ExpiredFound, Spurious, Timeout, KillSegv, KillIgnored, KillQuit, KillSites
  <2> QED
    BY <2>1, <2>2 DEF WorkerEffect
<1>4. ASSUME NEW t \in Threads, Ending(t) PROVE OwnersInv'
  <2> USE <1>0 DEF Threads, ThreadsTyped
  <2>1. CASE ShutdownSkip(t) \/ ShutdownFlag(t)
    BY <2>1 DEF ShutdownSkip, ShutdownFlag, AfterShutdown, EndingInv, DtorOwner
  <2>2. CASE Notify(t)
    BY <2>2 DEF Notify
  <2>3. CASE Join(t) \/ JoinThrows(t)
    BY <2>3 DEF Join, JoinThrows, Raise
  <2>4. CASE Summary(t)
    BY <2>4 DEF Summary, AfterShutdown
  <2>5. CASE ExitDestroys(t) \/ ExitSkips(t)
    BY <2>5 DEF ExitDestroys, ExitSkips, Built, TypeOK, StateTyped
  <2>6. CASE Detach(t) \/ Destroy(t) \/ End(t)
    BY <2>6 DEF Detach, Destroy, End, EndingInv, DtorOwner
  <2>7. CASE Trace(t) \/ Crash(t)
    BY <2>7 DEF Trace, Crash
  <2> QED
    BY <1>4, <2>1, <2>2, <2>3, <2>4, <2>5, <2>6, <2>7 DEF Ending
<1>5. CASE UNCHANGED vars
  BY <1>5 DEF vars
<1> QED
  BY <1>1, <1>2, <1>3, <1>4, <1>5 DEF Next, Gone

\* No step detaches or joins a worker at work while nothing fails.
LEMMA StaysJoinableStep ==
  TypeOK /\ EndingInv /\ Built /\ OwnersInv /\ StaysJoinable /\ [Next]_vars => StaysJoinable'
<1> SUFFICES ASSUME TypeOK, EndingInv, Built, OwnersInv, StaysJoinable, [Next]_vars, ~Failing',
                    pc'["worker"] \notin {"none", "done"}
             PROVE  joinable'
  BY DEF StaysJoinable
<1>0. ThreadsTyped /\ dtorBy \in Threads \cup {"none"}
  BY DEF TypeOK, StateTyped
<1>1. ~Failing
  BY <1>0, FailingStays
<1>2. CASE Main
  BY <1>0, <1>1, <1>2 DEF Main, ConstructBegin, ConstructSpawn, ConstructEnd, AppReturn, AppExit,
       ThreadsTyped, StaysJoinable, EndingInv, Unborn
<1>3. CASE Environment \/ Worker \/ UNCHANGED vars
  <2>1. joinable' = joinable
    <3>1. CASE Environment
      BY <3>1 DEF Environment, MpiStep, CreateStopFile, LimitPasses, Signal, ending
    <3>2. CASE Worker
      BY <1>0, <3>2, WorkerEffectHolds DEF WorkerEffect
    <3> QED BY <1>3, <3>1, <3>2 DEF vars
  <2>2. pc["worker"] \notin {"none", "done"}
    <3>1. CASE Environment
      BY <1>0, <3>1 DEF Environment, MpiStep, CreateStopFile, LimitPasses, Signal, Raise, WorkerLive,
         ThreadsTyped, Threads
    <3>2. CASE Worker
      BY <1>0, <3>2, WorkerEffectHolds DEF WorkerEffect
    <3> QED BY <1>3, <3>1, <3>2 DEF vars
  <2> QED BY <1>1, <2>1, <2>2 DEF StaysJoinable
<1>4. ASSUME NEW t \in Threads, Ending(t) PROVE joinable'
  <2>1. pc["worker"] \notin {"none", "done"}
    BY <1>0, <1>4 DEF Ending, ShutdownSkip, ShutdownFlag, Notify, Join, JoinThrows, Summary,
       ExitDestroys, ExitSkips, Detach, Destroy, End, Trace, Crash, Raise, ThreadsTyped, Threads
  <2>2. joinable
    BY <1>1, <2>1 DEF StaysJoinable
  <2>3. CASE Join(t)
    BY <2>1, <2>3 DEF Join
  <2>4. CASE Detach(t)
    BY <1>0, <1>1, <2>1, <2>4 DEF Detach, Failing, Threads, EndingInv, DtorOwner, DtorAfterShutdown,
       StoppedMeansDone, Built, EndingPcs, ThreadsTyped
  <2>5. CASE ~Join(t) /\ ~Detach(t)
    BY <1>4, <2>2, <2>5 DEF Ending, ShutdownSkip, ShutdownFlag, Notify, JoinThrows, Summary,
       ExitDestroys, ExitSkips, Destroy, End, Trace, Crash, ending
  <2> QED BY <2>3, <2>4, <2>5
<1> QED
  BY <1>2, <1>3, <1>4 DEF Next, Gone

\* Only KillQuit masks SIGQUIT, and it sends main into the handler.
LEMMA QuitMeansFailingStep ==
  TypeOK /\ EndingInv /\ Built /\ QuitMeansFailing /\ [Next]_vars => QuitMeansFailing'
<1> SUFFICES ASSUME TypeOK, EndingInv, Built, QuitMeansFailing, [Next]_vars, quitMasked'
             PROVE  Failing'
  BY DEF QuitMeansFailing
<1>1. CASE quitMasked
  BY <1>1, FailingStays DEF TypeOK, QuitMeansFailing
<1>2. CASE ~quitMasked
  <2>1. KillQuit
    BY <1>2 DEF Next, Gone, Main, ConstructBegin, ConstructSpawn, ConstructEnd, AppReturn, AppExit,
       Environment, MpiStep, CreateStopFile, LimitPasses, Signal,
       Worker, WorkerStep, LoopTop, OnceSkip, OnceStop, OnceSpin, OnceReady, OnceInfo,
       OnceOpenLog, OnceDone, ErrorExit, ThreadsOK, ThreadsDeadlocked, Sample, StopAbsent,
       StopFound, StaleNo, StaleFound, WriteRow, PredTest, Block, NotExpired, ExpiredFound,
       Spurious, Timeout, KillSegv, KillIgnored, Move, GiveUp, WorkerFrame,
       Ending, ShutdownSkip, ShutdownFlag, Notify, Join, JoinThrows, Summary, ExitDestroys,
       ExitSkips, Detach, Destroy, End, Trace, Crash, env, vars
  <2>2. quitMasked' # quitMasked
    BY <1>2
  <2>3. pc' = [main |-> IF quitMasked THEN pc["main"] ELSE "trace",
               worker |-> AfterKill[pc["worker"]]]
    BY <2>1, <2>2 DEF KillQuit
  <2>4. pc'["main"] = "trace"
    BY <1>2, <2>3
  <2> QED BY <2>4 DEF Failing, Threads, HandlerPcs
<1> QED BY <1>1, <1>2

\* doOnce() is left for good when it is over, so the log is not opened again.
LEMMA OpenedOnceStep ==
  TypeOK /\ EndingInv /\ OpenedOnce /\ [Next]_vars => OpenedOnce'
<1> SUFFICES ASSUME TypeOK, EndingInv, OpenedOnce, [Next]_vars PROVE OpenedOnce'
  OBVIOUS
<1>0. ThreadsTyped
  BY DEF TypeOK
<1> USE <1>0 DEF OpenedOnce, ThreadsTyped, KillSites
<1>1. CASE Main
  BY <1>1 DEF Main, ConstructBegin, ConstructSpawn, ConstructEnd, AppReturn, AppExit,
       EndingInv, Unborn
<1>2. CASE Environment
  <2>1. CASE MpiStep \/ CreateStopFile \/ LimitPasses
    BY <2>1 DEF MpiStep, CreateStopFile, LimitPasses
  <2>2. ASSUME NEW t \in Threads, Signal(t) PROVE OpenedOnce'
    BY <2>2 DEF Signal, Raise, Threads
  <2> QED
    BY <1>2, <2>1, <2>2 DEF Environment
<1>3. CASE Worker
  <2>1. CASE LoopTop \/ OnceSkip \/ OnceStop \/ OnceSpin \/ OnceReady
    BY <2>1 DEF LoopTop, OnceSkip, OnceStop, OnceSpin, OnceReady
  <2>2. CASE OnceInfo \/ OnceOpenLog \/ OnceDone \/ ErrorExit
    BY <2>2 DEF OnceInfo, OnceOpenLog, OnceDone, ErrorExit
  <2>3. CASE ThreadsOK \/ ThreadsDeadlocked \/ Sample \/ StopAbsent \/ StopFound
    BY <2>3 DEF ThreadsOK, ThreadsDeadlocked, Sample, StopAbsent, StopFound, FinalizeLog
  <2>4. CASE StaleNo \/ StaleFound \/ WriteRow \/ PredTest \/ Block
    BY <2>4 DEF StaleNo, StaleFound, WriteRow, PredTest, Block, FinalizeLog
  <2>5. CASE NotExpired \/ ExpiredFound \/ Spurious \/ Timeout
    BY <2>5 DEF NotExpired, ExpiredFound, Spurious, Timeout, FinalizeLog
  <2>6. CASE KillSegv \/ KillIgnored \/ KillQuit
    BY <2>6 DEF KillSegv, KillIgnored, KillQuit, Raise, AfterKill
  <2> QED
    BY <1>3, <2>1, <2>2, <2>3, <2>4, <2>5, <2>6 DEF Worker, WorkerStep
<1>4. ASSUME NEW t \in Threads, Ending(t) PROVE OpenedOnce'
  <2>1. CASE ShutdownSkip(t) \/ ShutdownFlag(t)
    BY <2>1 DEF ShutdownSkip, ShutdownFlag, AfterShutdown, Threads
  <2>2. CASE Notify(t)
    BY <2>2 DEF Notify, Threads
  <2>3. CASE Join(t) \/ JoinThrows(t)
    BY <2>3 DEF Join, JoinThrows, Raise, Threads
  <2>4. CASE Summary(t)
    BY <2>4 DEF Summary, AfterShutdown, FinalizeLog, Threads
  <2>5. CASE ExitDestroys(t) \/ ExitSkips(t)
    BY <2>5 DEF ExitDestroys, ExitSkips, Threads
  <2>6. CASE Detach(t) \/ Destroy(t) \/ End(t)
    BY <2>6 DEF Detach, Destroy, End, Threads
  <2>7. CASE Trace(t) \/ Crash(t)
    BY <2>7 DEF Trace, Crash, Threads
  <2> QED
    BY <1>4, <2>1, <2>2, <2>3, <2>4, <2>5, <2>6, <2>7 DEF Ending
<1>5. CASE UNCHANGED vars
  BY <1>5 DEF vars
<1> QED
  BY <1>1, <1>2, <1>3, <1>4, <1>5 DEF Next, Gone

\* The session's invariant holds in every reachable state.
LEMMA SessionInvHolds == Spec => []SessionInv
<1>1. Init => SessionInv
  BY DEF Init, SessionInv, Built, WorkerDtor, EndOwned, Joined, StaysJoinable, QuitMeansFailing,
         OpenedOnce, KillSites
<1>2. IInv /\ SessionInv /\ [Next]_vars => SessionInv'
  BY BuiltStep, OwnersStep, StaysJoinableStep, QuitMeansFailingStep, OpenedOnceStep
     DEF IInv, TypeOK, SessionInv, OwnersInv
<1> QED
  BY <1>1, <1>2, InductiveInvariant, PTL DEF Spec

-----------------------------------------------------------------------------
(* The steps of the session.                                               *)

\* Where the process is between its construction and its end, in order.
PhaseTurn ==
  \/ Phase' = Phase /\ log' = log
  \/ Phase = "idle" /\ Phase' = "sampling" /\ log' = log
  \/ Phase = "sampling" /\ Phase' = "sampling" /\ log = "none" /\ log' = "open"
  \/ Phase = "sampling" /\ Phase' = "killing" /\ FinalizeLog
  \/ Phase = "killing" /\ Phase' = "sampling" /\ log' = log
  \/ Phase = "sampling" /\ Phase' = "still" /\ log' = log
  \/ Phase = "still" /\ Phase' = "reported" /\ FinalizeLog

\* What a step does to the log, and how it can end the process.
Effects ==
  /\ \/ log' = log
     \/ outcome' = "running" /\ FinalizeLog
     \/ outcome' = "running" /\ log = "none" /\ log' = "open"
  /\ \/ outcome' \in {"running", "killed"}
     \/ outcome' = "aborted" /\ log = "none" /\ pc["worker"] = "info"
     \/ \E t \in Threads : End(t)

\* Every step of a running process keeps to those effects.
LEMMA EffectsHold ==
  ASSUME TypeOK, EndingInv, OpenedOnce, Running, Next
  PROVE  Effects
<1> USE DEF Effects
<1>1. CASE Main
  BY <1>1 DEF Main, ConstructBegin, ConstructSpawn, ConstructEnd, AppReturn, AppExit
<1>2. CASE Environment
  BY <1>2 DEF Environment, MpiStep, CreateStopFile, LimitPasses, Signal, Raise
<1>3. CASE Worker
  <2>1. CASE OnceInfo \/ OnceOpenLog
    BY <2>1 DEF OnceInfo, OnceOpenLog, OpenedOnce
  <2>2. CASE LoopTop \/ OnceSkip \/ OnceStop \/ OnceSpin \/ OnceReady \/ OnceDone \/ ErrorExit
    BY <2>2 DEF LoopTop, OnceSkip, OnceStop, OnceSpin, OnceReady, OnceDone, ErrorExit
  <2>3. CASE ThreadsOK \/ ThreadsDeadlocked \/ Sample \/ StopAbsent \/ StopFound
    BY <2>3 DEF ThreadsOK, ThreadsDeadlocked, Sample, StopAbsent, StopFound
  <2>4. CASE StaleNo \/ StaleFound \/ WriteRow \/ PredTest \/ Block
    BY <2>4 DEF StaleNo, StaleFound, WriteRow, PredTest, Block
  <2>5. CASE NotExpired \/ ExpiredFound \/ Spurious \/ Timeout
    BY <2>5 DEF NotExpired, ExpiredFound, Spurious, Timeout
  <2>6. CASE KillSegv \/ KillIgnored \/ KillQuit
    BY <2>6 DEF KillSegv, KillIgnored, KillQuit, Raise
  <2> QED
    BY <1>3, <2>1, <2>2, <2>3, <2>4, <2>5, <2>6 DEF Worker, WorkerStep
<1>4. ASSUME NEW t \in Threads, Ending(t) PROVE Effects
  <2>1. CASE End(t)
    BY <2>1 DEF End
  <2>2. CASE ~End(t)
    BY <1>4, <2>2 DEF Ending, ShutdownSkip, ShutdownFlag, Notify, Join, JoinThrows, Summary,
       ExitDestroys, ExitSkips, Detach, Destroy, Trace, Crash, Raise
  <2> QED
    BY <2>1, <2>2
<1> QED
  BY <1>1, <1>2, <1>3, <1>4 DEF Next, Gone

\* Nothing is written on the way into a failure.
LEMMA NothingWritten ==
  ASSUME TypeOK, EndingInv, Built, ~Failing, Failing', Next
  PROVE  log' = log
<1>1. ThreadsTyped
  BY DEF TypeOK
<1>2. ASSUME Step("worker", "open", "hw") \/ \E p \in WorkerPcs, s \in KillSites : Step("worker", p, s),
             doShutdown' = doShutdown, instance' = instance
      PROVE  FALSE
  BY <1>1, <1>2 DEF Failing, ThreadsTyped, KillSites, EndingPcs, HandlerPcs
<1>3. CASE Main
  BY <1>3 DEF Main, ConstructBegin, ConstructSpawn, ConstructEnd, AppReturn, AppExit
<1>4. CASE Environment
  BY <1>4 DEF Environment, MpiStep, CreateStopFile, LimitPasses, Signal
<1>5. CASE Worker
  <2>1. CASE OnceOpenLog
    BY <1>2, <2>1 DEF OnceOpenLog
  <2>2. ASSUME NEW p \in WorkerPcs, NEW s \in KillSites, GiveUp(p, s) PROVE FALSE
    BY <1>2, <2>2
  <2>3. CASE ThreadsDeadlocked \/ StopFound \/ StaleFound \/ ExpiredFound
    BY <2>2, <2>3 DEF ThreadsDeadlocked, StopFound, StaleFound, ExpiredFound, WorkerPcs, KillSites
  <2>4. CASE ~(OnceOpenLog \/ ThreadsDeadlocked \/ StopFound \/ StaleFound \/ ExpiredFound)
    BY <1>5, <2>4 DEF Worker, WorkerStep, LoopTop, OnceSkip, OnceStop, OnceSpin, OnceReady,
       OnceInfo, OnceDone, ErrorExit, ThreadsOK, Sample, StopAbsent, StaleNo, WriteRow,
       PredTest, Block, NotExpired, Spurious, Timeout, KillSegv, KillIgnored, KillQuit
  <2> QED
    BY <2>1, <2>3, <2>4
<1>6. ASSUME NEW t \in Threads, Ending(t) PROVE log' = log
  <2>1. CASE Summary(t)
    BY <1>1, <2>1 DEF Summary, AfterShutdown, Failing, ThreadsTyped, EndingPcs, HandlerPcs
  <2>2. CASE ~Summary(t)
    BY <1>6, <2>2 DEF Ending, ShutdownSkip, ShutdownFlag, Notify, Join, JoinThrows,
       ExitDestroys, ExitSkips, Detach, Destroy, End, Trace, Crash
  <2> QED
    BY <2>1, <2>2
<1> QED
  BY <1>3, <1>4, <1>5, <1>6 DEF Next, Gone, vars

\* Where everything is while nothing has failed: main and the worker on the way
\* of an orderly run.
Orderly ==
  /\ pc["main"] \notin HandlerPcs
  /\ pc["worker"] \notin HandlerPcs \cup EndingPcs
  /\ pc["main"] # "start" => doShutdown
  /\ dtorBy # "worker"
  /\ ~quitMasked

\* As long as nothing has failed the process is on that way.
LEMMA OrderlyHolds ==
  ASSUME TypeOK, SessionInv, ~Failing
  PROVE  Orderly
BY DEF TypeOK, ThreadsTyped, StateTyped, SessionInv, Built, WorkerDtor, QuitMeansFailing,
       Failing, Orderly

\* The turns of the worker.
LEMMA WorkerTurn ==
  ASSUME IInv, SessionInv, ~Failing, ~Failing', Running, outcome' = "running", Worker
  PROVE  PhaseTurn
<1>1. Orderly /\ ThreadsTyped /\ OpenedOnce /\ outcome = "running"
  BY OrderlyHolds DEF IInv, TypeOK, SessionInv
<1>2. pc["worker"] \notin {"none", "done"}
  BY <1>1, WorkerEffectHolds DEF WorkerEffect
<1>3. joinable
  BY <1>2 DEF SessionInv, StaysJoinable
<1>4. Phase = IF pc["worker"] \in KillSites THEN "killing" ELSE "sampling"
  BY <1>1, <1>2 DEF Phase
<1>5. /\ joinable' = joinable /\ pc'["worker"] \in WorkerPcs \ (EndingPcs \cup HandlerPcs \cup {"none"})
      /\ ThreadsTyped'
  BY <1>1, WorkerEffectHolds, ThreadsStep DEF WorkerEffect, Failing, ThreadsTyped, Next
<1>6. Phase' = IF pc'["worker"] \in KillSites THEN "killing"
               ELSE IF pc'["worker"] # "done" THEN "sampling" ELSE "still"
  BY <1>3, <1>5 DEF Phase
<1> USE <1>1, <1>4, <1>6 DEF PhaseTurn, KillSites, ThreadsTyped
<1>7. CASE LoopTop \/ OnceSkip \/ OnceStop \/ OnceSpin \/ OnceReady \/ OnceInfo
  BY <1>7 DEF LoopTop, OnceSkip, OnceStop, OnceSpin, OnceReady, OnceInfo
<1>8. CASE OnceOpenLog \/ OnceDone
  BY <1>8 DEF OnceOpenLog, OnceDone, OpenedOnce
<1>9. CASE ErrorExit
  BY <1>5, <1>9 DEF ErrorExit, EndingPcs
<1>10. CASE ThreadsOK \/ ThreadsDeadlocked \/ Sample \/ StopAbsent \/ StopFound
  BY <1>10 DEF ThreadsOK, ThreadsDeadlocked, Sample, StopAbsent, StopFound
<1>11. CASE StaleNo \/ StaleFound \/ WriteRow \/ PredTest \/ Block
  BY <1>11 DEF StaleNo, StaleFound, WriteRow, PredTest, Block
<1>12. CASE NotExpired \/ ExpiredFound \/ Spurious \/ Timeout
  BY <1>12 DEF NotExpired, ExpiredFound, Spurious, Timeout
<1>13. CASE KillSegv
  BY <1>5, <1>13 DEF KillSegv, Raise, HandlerPcs
<1>14. CASE KillIgnored
  BY <1>14 DEF KillIgnored, AfterKill
<1>15. CASE KillQuit
  <2>1. pc' = [main |-> "trace", worker |-> AfterKill[pc["worker"]]]
    BY <1>15 DEF KillQuit, Orderly
  <2>2. pc'["main"] = "trace"
    BY <2>1
  <2> QED
    BY <2>2 DEF Failing, HandlerPcs
<1> QED
  BY <1>7, <1>8, <1>9, <1>10, <1>11, <1>12, <1>13, <1>14, <1>15 DEF Worker, WorkerStep

\* The turns of an end: only main takes part in an orderly one.
LEMMA EndingTurn ==
  ASSUME IInv, SessionInv, ~Failing, ~Failing', Running, outcome' = "running",
         NEW t \in Threads, Ending(t)
  PROVE  PhaseTurn
<1>1. /\ Orderly /\ ThreadsTyped /\ outcome = "running" /\ dtorBy \in Threads \cup {"none"}
      /\ instance \in {"none", "building", "alive", "destroyed"}
  BY OrderlyHolds DEF IInv, TypeOK, StateTyped
<1>2. t = "main" /\ pc["main"] \in EndingPcs /\ doShutdown
  <2>1. pc[t] \in EndingPcs \cup HandlerPcs
    BY DEF Ending, ShutdownSkip, ShutdownFlag, Notify, Join, JoinThrows, Summary, ExitDestroys,
           ExitSkips, Detach, Destroy, End, Trace, Crash, EndingPcs, HandlerPcs
  <2> QED
    BY <1>1, <2>1 DEF Orderly, EndingPcs
<1>3. Phase = IF pc["worker"] = "none" THEN "idle" ELSE IF pc["worker"] \in KillSites THEN "killing"
              ELSE IF pc["worker"] # "done" THEN "sampling"
              ELSE IF joinable \/ pc["main"] = "final" THEN "still" ELSE "reported"
  BY <1>1 DEF Phase
<1>4. Phase' = IF pc'["worker"] = "none" THEN "idle"
               ELSE IF pc'["worker"] \in KillSites THEN "killing"
               ELSE IF pc'["worker"] # "done" THEN "sampling"
               ELSE IF joinable' \/ pc'["main"] = "final" THEN "still" ELSE "reported"
  BY DEF Phase
<1> USE <1>1, <1>2, <1>3, <1>4 DEF PhaseTurn, ThreadsTyped, KillSites
<1>5. CASE ShutdownSkip(t) \/ ShutdownFlag(t)
  BY <1>5 DEF ShutdownSkip, ShutdownFlag
<1>6. CASE Notify(t)
  BY <1>6 DEF Notify
<1>7. CASE Join(t)
  BY <1>7 DEF Join
<1>8. CASE JoinThrows(t)
  BY <1>8 DEF JoinThrows, Raise, Failing, HandlerPcs
<1>9. CASE Summary(t)
  <2>1. pc["worker"] = "done" /\ ~working
    BY <1>9 DEF IInv, EndingInv, SummaryAfterWorker, FlagCleared, Summary
  <2>2. ~joinable
    BY <1>9, <2>1 DEF SessionInv, Joined, Summary, Orderly
  <2> QED
    BY <1>9, <2>1, <2>2 DEF Summary, AfterShutdown
<1>10. CASE ExitDestroys(t) \/ ExitSkips(t)
  <2>1. /\ pc["main"] = "exit" /\ pc'["main"] \in {"sd", "detach", "end"}
        /\ pc'["worker"] = pc["worker"] /\ joinable' = joinable /\ log' = log
    BY <1>10 DEF ExitDestroys, ExitSkips
  <2> QED
    BY <2>1
<1>11. CASE Detach(t)
  <2>1. dtorBy = "main" /\ ~working
    BY <1>11 DEF IInv, EndingInv, DtorOwner, DtorAfterShutdown, Detach
  <2>2. ~joinable
    BY <1>11, <2>1 DEF SessionInv, Joined, Detach
  <2> QED
    BY <1>11, <2>2 DEF Detach
<1>12. CASE Destroy(t)
  BY <1>12 DEF Destroy
<1>13. CASE End(t)
  BY <1>13 DEF End
<1>14. CASE Trace(t) \/ Crash(t)
  BY <1>14 DEF Trace, Crash, EndingPcs
<1> QED
  BY <1>5, <1>6, <1>7, <1>8, <1>9, <1>10, <1>11, <1>12, <1>13, <1>14 DEF Ending

\* The turns of an orderly step.
LEMMA OrderlyTurn ==
  ASSUME IInv, SessionInv, ~Failing, ~Failing', Running, outcome' = "running", Next
  PROVE  PhaseTurn
<1>1. Orderly /\ ThreadsTyped /\ outcome = "running" /\ EndingInv /\ Unborn
  BY OrderlyHolds DEF IInv, TypeOK, EndingInv
<1>2. CASE Main
  BY <1>1, <1>2 DEF Main, ConstructBegin, ConstructSpawn, ConstructEnd, AppReturn, AppExit,
       PhaseTurn, Phase, ThreadsTyped, Unborn, KillSites
<1>3. CASE Environment
  <2>1. CASE MpiStep \/ CreateStopFile \/ LimitPasses
    BY <1>1, <2>1 DEF MpiStep, CreateStopFile, LimitPasses, PhaseTurn, Phase
  <2>2. ASSUME NEW t \in Threads, Signal(t) PROVE FALSE
    <3>1. opt.handler /\ pc'[t] = "trace"
      BY <1>1, <2>2 DEF Signal, Raise, ThreadsTyped
    <3> QED
      BY <3>1 DEF Failing, HandlerPcs
  <2> QED
    BY <1>3, <2>1, <2>2 DEF Environment
<1> QED
  BY <1>2, <1>3, WorkerTurn, EndingTurn DEF Next, Gone

\* How an orderly process ends.
LEMMA OrderlyEnd ==
  ASSUME IInv, SessionInv, ~Failing, Running, NEW t \in Threads, End(t)
  PROVE  Phase = "reported" /\ outcome' = "clean" /\ log' = log
<1>1. /\ Orderly /\ ThreadsTyped /\ dtorBy \in Threads \cup {"none"}
  BY OrderlyHolds DEF IInv, TypeOK, StateTyped
<1>2. t = "main" /\ pc["main"] = "end" /\ doShutdown
  BY <1>1 DEF End, Orderly, EndingPcs
<1>3. dtorBy = "main"
  BY <1>1, <1>2 DEF Orderly, SessionInv, EndOwned
<1>4. ~working
  BY <1>2, <1>3 DEF IInv, EndingInv, DtorAfterShutdown
<1>5. pc["worker"] = "done"
  BY <1>2, <1>3, <1>4 DEF IInv, EndingInv, StoppedMeansDone
<1>6. ~joinable
  BY <1>2, <1>3, <1>4 DEF SessionInv, Joined
<1> QED
  BY <1>2, <1>3, <1>5, <1>6 DEF End, Phase, KillSites

\* A process that fails does not end cleanly.
LEMMA FailingEnd ==
  ASSUME IInv, Failing, NEW t \in Threads, End(t)
  PROVE  outcome' \in {"crashed", "error"}
<1> SUFFICES ASSUME doShutdown, t = "main", dtorBy = "main" PROVE FALSE
  BY DEF End
<1>1. pc["main"] = "end" /\ pc["worker"] = "done"
  BY DEF End, IInv, EndingInv, DtorAfterShutdown, StoppedMeansDone
<1> QED
  BY <1>1 DEF Failing, HandlerPcs, EndingPcs

\* Every step but the one of a process that has ended is taken by one that runs.
LEMMA StepsRun == Next => Gone \/ Running
<1>1. Main \/ Environment => Running
  BY DEF Main, ConstructBegin, ConstructSpawn, ConstructEnd, AppReturn, AppExit,
         Environment, MpiStep, CreateStopFile, LimitPasses, Signal
<1>2. Worker => Running
  BY DEF Worker, WorkerStep, LoopTop, OnceSkip, OnceStop, OnceSpin, OnceReady, OnceInfo,
         OnceOpenLog, OnceDone, ErrorExit, ThreadsOK, ThreadsDeadlocked, Sample, StopAbsent,
         StopFound, StaleNo, StaleFound, WriteRow, PredTest, Block, NotExpired, ExpiredFound,
         Spurious, Timeout, KillSegv, KillIgnored, KillQuit
<1>3. ASSUME NEW t \in Threads, Ending(t) PROVE Running
  BY <1>3 DEF Ending, ShutdownSkip, ShutdownFlag, Notify, Join, JoinThrows, Summary,
         ExitDestroys, ExitSkips, Detach, Destroy, End, Trace, Crash
<1> QED
  BY <1>1, <1>2, <1>3 DEF Next

\* Every step is one of the session, or leaves it alone.
LEMMA SessionStep ==
  ASSUME IInv, SessionInv, [Next]_vars
  PROVE  [Promise!SessionNext]_(Promise!svars)
<1> USE DEF Promise!SessionNext
<1>1. CASE UNCHANGED vars \/ Gone
  BY <1>1 DEF Gone, vars, Promise!svars, Phase, Failing
<1>2. ASSUME Next, Running, Failing PROVE [Promise!SessionNext]_(Promise!svars)
  <2>1. Failing' /\ Effects
    BY <1>2, FailingStays, EffectsHold DEF IInv, TypeOK, SessionInv
  <2>2. Phase = "failing" /\ outcome = "running"
    BY <1>2 DEF Phase
  <2>3. CASE outcome' = "running"
    <3>1. Phase' = "failing"
      BY <2>1, <2>3 DEF Phase
    <3> HIDE DEF Phase, Failing
    <3> QED
      BY <2>1, <2>2, <2>3, <3>1
         DEF Effects, FinalizeLog, Promise!svars, Promise!FinaliseAnyway, Promise!OpenLog,
             Promise!Finalised
  <2>4. CASE outcome' # "running"
    <3>1. Phase' = "gone" /\ log' = log
      BY <2>1, <2>4 DEF Phase, Effects
    <3> HIDE DEF Phase, Failing
    <3>2. CASE outcome' = "killed"
      BY <2>2, <3>1, <3>2 DEF Promise!Killed, Promise!Gone
    <3>3. CASE outcome' = "aborted" /\ log = "none"
      BY <2>2, <3>1, <3>3 DEF Promise!Aborted, Promise!Gone
    <3>4. ASSUME NEW t \in Threads, End(t) PROVE outcome' \in {"crashed", "error"}
      BY <1>2, <3>4, FailingEnd
    <3> QED
      BY <2>1, <2>2, <2>4, <3>1, <3>2, <3>3, <3>4
         DEF Effects, Promise!Failed, Promise!Gone
  <2> QED
    BY <2>3, <2>4
<1>3. ASSUME Next, Running, ~Failing PROVE [Promise!SessionNext]_(Promise!svars)
  <2>1. Effects
    BY <1>3, EffectsHold DEF IInv, SessionInv
  <2>2. outcome = "running"
    BY <1>3
  <2>3. CASE outcome' = "running" /\ Failing'
    <3>1. log' = log /\ Phase' = "failing"
      BY <1>3, <2>3, NothingWritten DEF IInv, SessionInv, Phase
    <3>2. Phase \in {"idle", "sampling", "killing", "still", "reported"}
      BY <1>3 DEF Phase
    <3> HIDE DEF Phase, Failing
    <3> QED
      BY <2>2, <2>3, <3>1, <3>2 DEF Promise!Fail, Promise!Turn, Promise!Phases
  <2>4. CASE outcome' = "running" /\ ~Failing'
    <3>1. PhaseTurn
      BY <1>3, <2>4, OrderlyTurn
    <3> HIDE DEF Phase, Failing
    <3> QED
      BY <2>2, <2>4, <3>1
         DEF PhaseTurn, FinalizeLog, Promise!svars, Promise!Start, Promise!OpenLog, Promise!GiveUp,
             Promise!GoOn, Promise!Settle, Promise!Report, Promise!Turn, Promise!Finalised
  <2>5. CASE outcome' # "running"
    <3>1. Phase' = "gone" /\ log' = log
      BY <2>1, <2>5 DEF Phase, Effects
    <3>2. Phase # "gone"
      BY <1>3 DEF Phase
    <3>3. pc["worker"] = "info" => Phase = "sampling"
      BY <1>3 DEF Phase, KillSites
    <3> HIDE DEF Phase, Failing
    <3>4. CASE outcome' = "killed"
      BY <3>1, <3>2, <3>4 DEF Promise!Killed, Promise!Gone
    <3>5. CASE outcome' = "aborted" /\ log = "none" /\ pc["worker"] = "info"
      BY <3>1, <3>3, <3>5 DEF Promise!Aborted, Promise!Gone
    <3>6. ASSUME NEW t \in Threads, End(t) PROVE Phase = "reported" /\ outcome' = "clean"
      BY <1>3, <3>6, OrderlyEnd
    <3>7. CASE \E t \in Threads : End(t)
      BY <3>1, <3>6, <3>7 DEF Promise!Exit, Promise!Gone
    <3> QED
      BY <2>1, <2>5, <3>4, <3>5, <3>7 DEF Effects
  <2> QED
    BY <2>3, <2>4, <2>5
<1> QED
  BY <1>1, <1>2, <1>3, StepsRun

\* Every process keeps the promise of Session: the phases of its life come in
\* order and the log with them, whichever of the ends meet (zerosum.cpp 83-142,
\* 213-228, 345-380).
THEOREM SessionIsKept == Spec => ImplementsSession
<1>1. Init => Promise!SessionInit
  BY DEF Init, Promise!SessionInit, Phase, Failing, HandlerPcs, EndingPcs
<1> QED
  BY <1>1, SessionStep, InductiveInvariant, SessionInvHolds, PTL
     DEF Spec, ImplementsSession, Promise!SessionSpec
=============================================================================
