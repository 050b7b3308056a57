# ZeroSum: a verification project

TLA+ models of [ZeroSum](../src/README.md), the per-process monitor for HPC
applications in `src/`, their model-checking configurations for TLC, and proofs
for TLAPS.  ZeroSum is preloaded into an application.  It starts one worker
thread per process, which samples once per period the threads, the hardware, the
node and the GPUs from `/proc`, hwloc and vendor libraries, decides whether the
application has to be given up (deadlock, stop file, stale log, time limit), and
writes a summary and CSV rows in the end.

What is hard in it is not arithmetic but order: a worker that shares one object
with the application's main thread, several ways to end a process that may meet,
a sampler that looks at threads while they change, and histories that grow at
different rates and are paired up by index later.  The models are about that.

| module | models | runs | proofs |
|---|---|---|---|
| `Lifecycle` | construction, the worker's loop, the abort paths, shutdown, exit, the signal handler | 2 | `LifecycleProofs` |
| `Session` | abstract: what a monitored process promises of its phases, its log and its end; implemented by `Lifecycle` | | |
| `DeadlockDetector` | `isRunning()` and the counting in `getpthreads()` against moving threads | 2 | `DeadlockDetectorProofs` |
| `SampleHistory` | the histories of threads, hardware threads and node; rows; the streaming cursor | 2 | `SampleHistoryProofs` |
| `PointToPoint` | the wrappers of MPI's sends and receives over several processes, the translation of ranks | 2 | `PointToPointProofs` |
| `ThreadRegistry` | the wrappers of `pthread_mutex_lock`/`_trylock`, their counters, the map of LWPs that scan and OMPT callbacks fill, `logThreads()` | 1 | `ThreadRegistryProofs` |
| `Registry` | abstract: calls are counted and reports recorded in one step each; implemented by `ThreadRegistry` | | |
| `Cadence` | the clock arithmetic of `threadedFunction()` | in `Monitor` | |
| `Aggregation` | the rows' cursor, the ZeroMQ send, an aggregator that comes and goes | in `Monitor` | |
| `Monitor` | composes `Cadence` and `Aggregation` with the shutdown and the stop file | 1 | `MonitorProofs` |
| `Feed` | abstract: what an aggregator may rely on; implemented by `Monitor` | | |
| `PowerCounters` | `cray_pm_counters`: files that are rewritten while they are read | in `Readings` | |
| `Placement`, `Ranks`, `Reports`, `Devices`, `Stacks` | operators: CPU lists and affinity; ranks and file names; percentages, averages and summaries; GPUs and their rows; merged call stacks | in `Readings` | |
| `Readings` | composes `PowerCounters` with the five: the counters are read, or an input is picked and what the operators make of it is stated; the assumptions about the inputs | 2 | `ReadingsProofs` |
| `Topology` | operators: hwloc's tree of a node and the job's tree (recursive) | in `MCReadings` | |
| `SumTheorems` | lemmas about sums, folds over lists, sorted and flattened lists, for the proofs | | |

`MC<Module>` gives the constants of a module their values for the runs
(`MCReadings` also states what `Topology` makes of the trees that it gives `Readings`, so that
the proofs, which extend `Readings`, reach no recursive operator), one `.cfg` file is one
run. `PROJECT.json` maps every definition to its source lines.

---------------------------------------------------------------------------

## 1. Inventory

All paths below are in `src/src/` unless they start with another directory.

### Process lifecycle: `zerosum.cpp`, `zerosum.h`, `preload.cpp`, `error_handling.cpp`

*State.* The singleton `ZeroSum` (function-local static of `getInstance()`):
`working`, `doShutdown`, `worker`, `cv`/`cv_m`, `step`, the log, the flags
`mpiFinalize`, `deadlock_detected_seconds`.

*Operations.* The constructor registers handlers, samples once and starts the
worker (306-335). The worker's `threadedFunction` (83-142) repeats `doOnce()`
until MPI is there, then `doPeriodic()`, then waits on `cv` up to the next period.
`shutdown()` (345-366) clears `working`, notifies, joins, summarises and
finalises the log; `~ZeroSum` shuts down if `working` is still set, then detaches
what is left. A fatal signal runs `signal_handler` -> `print_backtrace` ->
`handleCrash` -> `exit`.

*Interaction.* Main, the worker and a signal handler on either of them; the
application's `MPI_Init`/`MPI_Finalize`; the environment's stop file.

*Hard.* A notification without the lock; a worker that is started before the
constructor ends; `exit()` from main, from a handler and from the worker, each of
which runs the destructor; `pthread_kill` on a process id.

*Correct when* the summary is made after the worker has gone, members outlive
it, an orderly end leaves a finalised log, nobody joins himself, and a shutdown, a
handled signal and a reason to give up end the process.

### Deadlock detector: `zerosum_pthreads.cpp` 107-174, `utils.cpp` 114-219

*State.* `priorMinflt` per thread, the counter. *Operations.* one scan of
`/proc/self/task` per period. *Interaction.* the application's threads, which run,
sleep, start and end between and during the reads. *Hard.* the scan is not a
snapshot and mixes counters that began at different times.
*Correct when* no report is made while somebody visibly works, and a stuck
application is reported in time.

### Sample history and CSV output: `software.h`, `hardware.h`, `zerosum.cpp` 266-285, 368-394

*State.* For every LWP, hardware thread, GPU and the node: a list of steps and a
list of values per field; `lastStepWritten`. *Operations.* `Process::add`,
`LWP::update`, `HWT::updateFields`, `updateNodeFields`, `toCSV`, `getSummary`.
*Interaction.* the worker's scan, OMPT callbacks of OpenMP threads (under
`thread_mtx`), the writer of the rows. *Hard.* lists must stay in line when a
value is missing; one cursor serves lists of different lengths. *Correct when* a
row pairs a step with the values of that step, and every row is streamed once.

### MPI point-to-point accounting: `zerosum_mpi.cpp`, `software.h` 555-572

*State.* `sentBytes` and `recvBytes` (calls and bytes per world rank), the map of
remembered ranks per communicator handle. *Operations.* wrappers of the five sends,
two receives and `MPI_Sendrecv`, in C and Fortran; `translateRankToWorld`.
*Interaction.* the application's MPI calls, the MPI library. *Hard.* the peer is
named by a rank of some communicator, calls are counted before they are made, handles
are used again. *Correct when* a call is counted under the world rank it goes to, and
the logs of sender and receiver agree when nothing is under way.

### Thread registry: `zerosum_pthreads.cpp` 33-103, 176-243, `software.h` 260-288, 407-425, `zerosum_openmp.cpp` 30-60

*State.* `in_zs` per thread, the map of counters under its mutex and a thread-local
pointer into it, `Process::threads` under `thread_mtx`. *Operations.* the wrapped
calls, `getCounters`, `Process::add`, `logThreads`. *Interaction.* every thread of
the application, OMPT callbacks, the worker's scan. *Hard.* the locks of the counting
are wrapped themselves; ids are used again; a thread is reported by two threads at
once. *Correct when* each call outside of ZeroSum is counted once under its id, no
thread waits for itself, no report is lost, each thread is announced once.

### Cadence and aggregation: `zerosum.cpp` 83-142, 380-394, `zerosum_zmq.cpp`

*State.* `prev`, `then`, `then2`, `step`; `lastStepWritten`; a socket per batch.
*Operations.* the loop with its waits, `writeToLocalAggregator`, `finalizeLog`.
*Interaction.* the shutting-down main thread, the aggregator's process. *Hard.* the
wait is computed before the work and may be negative; a send without a peer blocks
the worker and then the join; a failed send keeps nothing. *Correct when* a sample is
never early, lateness does not accumulate beyond what iterations overran, each row
arrives at most once and in order, and the shutdown returns.

### The other components

| component | files | state | operations | hard behaviour / what makes it correct |
|---|---|---|---|---|
| Power counters | `cray_pm_counters.cpp` | open files, last values and freshness | read with a freshness test | a counter that changes while it is read; files left open |
| Process and node parsing | `zerosum_process.cpp`, `utils.cpp` | - | affinity lists, rank and size from the environment, file names, `/proc/stat` | spans, padding of names, unsigned differences |
| GPU back ends | `zerosum_cuda.cpp`, `_hip`, `_sycl`, `nvml.cpp`, `rocmsmi.cpp`, `sycl.cpp`, `level0_utils.h` | handles, snapshots of engines | queries to vendor libraries | error paths that call `exit()` on the worker; two libraries that number devices differently |
| Hardware topology | `hwloc.cpp` | tree, map of indices | traversal, JSON, validation | caches that are left out, indices that are not there |
| Plots and reports | `post-processing/hwloc_util.py` and scripts | trees of hosts | put rows into the tree of the job | a row whose unit is not found; hosts and devices that are found by a part of their name |
| Call stacks | `post-processing/zs-stacks.py`, `trees.py` | stacks, tree | parse, make unique, merge, ranges of ranks | stacks that begin alike, a line that stops the parser, labels that are cut |
| MPI merge tool | `post-processing/mpi_p2p_merge.cpp` | matrix | open each rank's log, add up | names agree with those that are written |
| Alternative start-up | `global_constructor_destructor.h` | - | constructor/destructor attributes in place of the preloaded main | order against static destruction |
| Launcher | `zerosum` (shell) | - | options to environment variables, the rank for the debugger | the rank it finds is the one the process finds |

The hazards of the code, each at its line and with the properties that watch it,
are the list `hazards` of `PROJECT.json`.

---------------------------------------------------------------------------

## 2. The modules

### `Lifecycle`

Two threads with a program counter, `"main"` and `"worker"`; shutdown, `exit()`,
the destructor and the handler are actions with the thread as parameter, as they
can run on either one.

| state | in the code |
|---|---|
| `pc` | where each thread is; a step is the code between two points at which the other thread, a signal or a notification can make a difference |
| `instance`, `dtorBy` | the static in `getInstance()` and the thread in which `exit()` runs its destructor |
| `working`, `doShutdown`, `joinable` | the members of that name (`worker.joinable()`) |
| `initialized` | the local of `threadedFunction` |
| `log` | `logfile`: `none`, `open`, `final` after `finalizeLog()` |
| `mpi`, `stopFile`, `expired`, `quitMasked`, `signalled`, `outcome` | outside: the application's MPI, `./zerosum.stop`, the clock, the kernel's signal mask, the end of the process |

| actions | code |
|---|---|
| `ConstructBegin/Spawn/End`, `AppReturn`, `AppExit` | the constructor, `zerosum_preload_main` |
| `LoopTop` ... `OnceDone`, `ErrorExit` | the outer and inner loop, `doOnce()`, the error paths of the GPU code |
| `ThreadsOK`, `ThreadsDeadlocked`, `Sample`, `StopAbsent/Found`, `StaleNo/Found`, `WriteRow` | `doPeriodic()`, `checkForStop()` |
| `PredTest`, `Block`, `Spurious`, `Timeout`, `NotExpired`, `ExpiredFound` | `cv.wait_for` with its predicate, the time limit |
| `KillSegv`, `KillIgnored`, `KillQuit` | `pthread_kill(process.id, SIGQUIT)` |
| `ShutdownSkip/Flag`, `Notify`, `Join`, `JoinThrows`, `Summary` | `shutdown()` |
| `ExitDestroys/Skips`, `Detach`, `Destroy`, `End` | `exit()` and `~ZeroSum` |
| `Signal`, `Trace`, `Crash` | the kernel, `signal_handler`, `handleCrash` |

`pthread_kill` takes a thread handle and is given a process id. That is undefined,
so the option `kill` chooses what the build can make of it: glibc reads through the
id (`segv`), a C library that accepts kernel ids reaches the process (`quit`), or
there is an error return (`ignored`), after which the worker goes on. Library and id
stay what they are, so all calls of a process come to the same.
`Raise` sends a signal to the handler or, without one, ends the process.
The test of the predicate and the blocking are two steps: the worker holds `cv_m`
over both, but `shutdown()` does not ask for it, so its notification can fall
between them and be lost.
Sampling is one step each here; the other modules open it up.

`Session` is what is left for somebody who looks at the process from outside: a phase
(`idle`, `sampling`, `killing`, `still`, `reported`, `failing`, `gone`), the log and the
result. `Phase` maps the two program counters to it: `still` is a joined worker before
the summary, `killing` is a worker that has given up and has not yet sent its signal,
`failing` is every way to an end that is not clean. In `Session` a clean end is
reached through `reported` only, giving up finalises the log in the same step, and no step opens
a log that was finalised. That a clean end leaves no opened log unfinished is therefore
checked with `ImplementsSession`, and proved as well (`CleanExitFlushedHolds`).

### `DeadlockDetector`

The application is what `/proc` shows of it (`alive`, `state`, `used`, `faults`)
and can take any step (`Run`, `Switch`, `Spawn`, `Exit`) between any two reads of
the scan (`StartScan`, one `Sample` per thread, `EndScan`). What the detector
remembers (`prior`, `counter`, `reported`) is separate from the truth (`ran`,
`saw`, `calm`, `quiet`), which the properties compare it with and which no step of
the detector reads. ZeroSum's own thread always runs when it looks and is the 1 in
`running <= 1`; `others` says that there was another. `IsRunning` has the three
clauses of the code, with its special treatment of the main thread; `NextPrior` says
when `priorMinflt` is saved.  `Spaced` are threads with a blank in their name,
whose fields `getThreadStat` reads one place off. A thread can also end between the
opening of its file and the read; then the fields lie behind the end of an empty list, and
`Unread` lets them pass for CPU time or not.

Simplification: the major faults of waited-for children, which a name with one
blank puts in the place of `utime`, are 0.

### `SampleHistory`

`lwp`, `hwt` and `node` are the lists of steps and values as the code keeps them,
but a value is a record of when and by whom it was read. Hence "row `i` pairs a
step with its value" is a statement about the lists and not about numbers.
`Extract` is the padding loop of `extractFields`, `Add` is `Process::add` with
its construction of a new LWP, in which the type arrives where the step belongs.
`ScanThread` visits the threads in the order of their ids (the order of
`/proc/self/task`). The directory is read as the scan goes on: one that begins
meanwhile may be met (`Spawn`), one that ends may be passed over (`Exit`) or be met
without its file, when only the counters of its wrapped calls are added. `NodeUpdate` is `updateNodeFields` and adds one step per
call; `Send` is `toCSV` of node, hardware threads, GPUs and threads, all with the
one cursor. `Once`, `BeginPeriod`, `ScanEnds`, `Metrics`, `NextPeriod`, `Aggregate`
and `Finalize` are the worker's way through `doOnce()`, `doPeriodic()` and
`finalizeLog()`.

### `PointToPoint`

Every process has its `sent`, `recv` and `cache` (the static `comms` in
`translateRankToWorld`). `Translated` is the function's answer, `Remember` what it
leaves behind; `Record` is `recordSentBytes`/`recordRecvBytes`. `Send`, `Recv` and
`Sendrecv` are the wrappers: record, then the real call (`Launch`, `Post`). A send
that blocks is one after which the process happens to do nothing until it is
received, so that blocking and nonblocking variants are one action; the Fortran names
call the C ones. `Match`, `CommCreate` and `CommFree` are the MPI library and are
external: messages of one sender do not overtake, a message takes the first receive
it fits, a handle is freed when nothing is pending on it. What MPI got from each
process for each rank is kept in `told`, which no wrapper reads.

Simplifications: all members of a communicator know it by the same handle; one tag;
intracommunicators only; a process makes one call at a time.

### `ThreadRegistry` and `Registry`

A thread has a place outside of the wrappers (`pc`) and, inside of them, a stack of
calls, whose length is `in_zs::get()`. `Enter` begins a call, `EnterNested`,
`EnterCounted` and `EnterFirst` are the three ways through the test of the depth and
`getMyCounters()`, `Take` and `TryFails` the real calls, `Lookup` is
`getCounters()` with the map's lock held. New counters are not initialised by the
code: they start from any of `FirstValues`, and the ghost `first` remembers from
which. `CallAdd`, `TestAdd`, `StoreAdd` are `Process::add`, called by the worker for
the id it scans and by OMPT for its own; `NextThread` goes through the ids in
ascending order. `WalkBegin` and `WalkEnd` are `logThreads()`, which walks the map
without `thread_mtx`: if the map changed meanwhile, it may see any part of it.

`Registry` is what is left when locks, depth and pointers are taken away: `Call` and
`Count`, `BeginReport` and `EndReport`. `ImplementsRegistry` maps the calls not yet
counted, the counters less their first values, the reports under way and the samples
in the map to its variables.

### `Cadence`, `Aggregation`, `Monitor` and `Feed`

`Cadence` is the loop as arithmetic: `Top` computes the wait *before* the work,
`Once`, `Sampled`, `Wake`, `Finish` spend time; a negative wait returns at once.
`excess` adds up by how much each iteration exceeded its period. `Aggregation` has the
cursor, the batch under way (`blocked` until a peer is there, `handed` to libzmq,
then delivered, or dropped with the peer) and what was received and lost.
`Monitor` puts the sends into the loop (`SendBatch`, `BatchEnds`), lets the main thread
shut down, join and send the rest (`Shutdown`, `Joined`, `Farewelled`), and lets the
stop file make the worker do it itself (`FarewellStep`, `AfterFarewell`, then the
`pthread_kill` of `Lifecycle`). A row is the hardware threads' of a step; the other
rows and the cursor where they differ are `SampleHistory`'s.
Every sample and every send takes time, the farewell's too.
`Feed` is the aggregator's view: rows at most once, in order; what is missing is
missing as whole batches and never comes later.

### `PowerCounters` and the modules of operators

`PowerCounters` reads the counters, freshness and generation in its constructor
(`Construct`), and freshness, generation and one counter after the other in each scan, with the
controller's `Refresh` anywhere in between; either leaves two files open, because
`get_unitless()` returns from inside its loop, until no file can be opened and
`getline()` is given a null pointer (`Crash`). The six modules of operators translate
functions without a state of their own: what `parseDiscreteValues`,
`getUniqueFilename`, `strPercentage`, `getSummary`, `traverse`, `buildJSON`,
`updateTree`, `findUnique`, `getgpustatus` and the like return. Each ends with a
statement `...For(input)` that compares the result with a definition from the
outside: a kernel's list, digits in order, sums of time, nodes of the machine.

`Ranks` has every variable that the code looks for, set by nine launchers. Two of them tell
ZeroSum less than it takes for granted (ALPS no size, PBS_TASKNUM a rank from one); what
is stated for these is only that processes write logs of their own and that the
debugger's log has the same number. `Devices` keeps "not set" and "set to nothing"
apart: with the latter, nothing is visible and nothing polled. In `Stacks` a line is a
header, a frame, another one, or empty; an empty one behind the first thread's stack
stops the tool (`failed`), and `Graph` is what is written of files that none stops.
`printlist` cuts a label where its text is longer than 40 characters (20 in
`zs-stacks.py`), so the text's width is part of the model and its characters are not.
In `Topology` the name of a host and a bus id are sequences of parts, so that
`startswith` is `IsPrefix` and `in` is `IsAt`; an address is a text until a use makes it
a list, and the list of a second use is one in a list (`UsesOf`, `Stops`). `Regular` says
which jobs `hwloc_util.py` is made for; every clause of it is needed, see below.

`Readings` composes them: as long as its topic is `power`, the counters are read
(`RunPower`); when they are idle, `Pick` may take an input of another topic, and the
behaviour stays there. Its properties say of that input what the modules' statements are, and
its assumptions what the inputs may be. `Topology` holds recursive operators, because the
code recurses over trees, and therefore no theorems can be stated over it: `Readings` picks its
trees, `MCReadings` states what is made of them. The others are made of functions and folds.

### How they fit together

`Lifecycle`'s step `ThreadsOK`/`ThreadsDeadlocked` is one scan of
`DeadlockDetector`, whose `reported` is the choice of the second; the same scan
is `NextThread` ... `StoreAdd` of `ThreadRegistry` and fills the threads' lists in
`SampleHistory`, whose `Finalize` is `FinalizeLog` in `Lifecycle`, and whose three
places for it (`idle`, `scanned`, `checks`) are the join and the abort paths.
`Monitor` is `Lifecycle`'s loop without signals and crashes, but with times and
sends. `Monitor` composes where the hazards meet (a blocked send and a join); the
others are kept apart because composing them multiplies states that do not meet.

---------------------------------------------------------------------------

## 3. The runs

| run | expected | question and result |
|---|---|---|
| `lifecycle` | pass | every interleaving of construction, sampling, abort, one external signal, return, exit: order of join, summary, destruction and log; every one of them is a behaviour of `Session`; a shutdown ends although its notification can be lost, a handled signal ends the process, a stop file or a passed limit ends it unless the kill only returns an error |
| `lifecycle_error_exit` | violation | a GPU error path calls `exit()` on the worker, whose destructor joins the worker with itself: `std::terminate` |
| `deadlock_safety` | pass | a report follows `Duration` scans without a visible sign of progress; `Duration + 1` quiet scans of a stuck application have led to a report |
| `deadlock_used_helper` | violation | a helper that used the CPU once counts as running ever after (`utime` is cumulative) |
| `history_safety` | pass | rows of threads pair steps with values; the hardware threads' rows are streamed at most once, in order, and completely without OpenMP |
| `history_node_rows` | violation | every call of `updateNodeFields` adds a step but values only to its own fields: the node's rows are labelled with earlier steps |
| `p2p_safety` | pass | while handles are not used again: a send is counted under the rank that MPI sends to; sender and receiver have counted the same calls once nothing is under way, and the receiver at least the bytes |
| `p2p_reused_handle` | violation | remembered ranks survive `MPI_Comm_free`: with a reused handle, sends are logged for another rank |
| `registry_safety` | pass | an OpenMP thread reports itself while the worker scans, a thread of the application contends for its mutex: each call is counted once, the depth stays at two, nobody waits for himself, each report is kept, threads are announced once in order, and the whole is an atomic `Registry` |
| `monitor_safety` | pass | slow samples, a late or missing `MPI_Init`, an aggregator that goes away, errors of libzmq, a stop file, a shutdown at any time: samples are never early, lag is bounded by the overruns, batches catch up, each row is in one place, the aggregator sees a `Feed`, and the shutdown returns |
| `readings_safety` | pass | power counters that change in the middle of scans (an energy is reported once; how long the files last), and the statements of the six modules of operators for every input of their sets |
| `readings_shares` | violation | SYCL's snapshots are remembered by an engine's label alone: the second device's share is taken against the first one's snapshot |

What the violations mean for a user is told under `findings` in `PROJECT.json`,
with the line of documentation each one disagrees with.

More disagreements are stated in the modules but not run, because what they show
is a single missing line and not an interplay; TLC refutes each of them.

* `Lifecycle.TimeLimitHonoured`: before `MPI_Init` the worker spins in the inner loop and
  never looks at the time limit.
* `Lifecycle.CaughtSignalEnds`: with `CtorSignals = TRUE`, a signal caught while the
  constructor runs waits for the guard that the same thread holds.
* `DeadlockDetector.NoFalseReportAnyName`: with a helper in `Spaced`, a blank in a
  thread's name moves its fields, so that a working thread is not seen.
* `Readings.GpusAlignedAsDocumented`: "If HIP_VISIBLE_DEVICES is set, capture visible GPUs",
  say the comments at `rocmsmi.cpp:49` and `zerosum_hip.cpp:50` (and `nvml.cpp:42`), above a
  `getenv()` of ROCR_VISIBLE_DEVICES (CUDA_VISIBLE_DEVICES). Where HIP_VISIBLE_DEVICES hides
  devices of those, a GPU gets another one's rows.

The proofs cover both values of the first two's constants. Others are conditions of a
property that passes: without the condition TLC refutes it.

* `Ranks.Telling`: "prefix the rank with as many zeros as needed to sort correctly"
  (`zerosum.cpp:179`) is not so under ALPS, which tells no size (`utils.cpp:537`), and ranks
  from PBS_TASKNUM (`utils.cpp:565`) count from one, so that the last of ten is a digit longer.
* `Ranks.SameNumberFor`: the launcher script takes PBS_O_TASKNUM as it is
  (`zerosum:268-269`), ZeroSum reduces it by one: the debugger's logs are numbered otherwise.
* `Devices.SharesShownFor`: two devices' engines of one label; run as `readings_shares`.
* `Stacks.Ended`: `line[0]` of an empty line raises an IndexError (`trees.py:159`,
  `zs-stacks.py:159`). The last line of a file ends with a newline, behind which `split("\n")`
  finds one more, empty line; a log that ends with the stack of its first thread stops
  the tool for all ranks.
* `Stacks.LabelTrue`: labels are cut at 40 or 20 characters; the ranks behind are not shown.
* `Topology.Regular`, clause by clause: a CPU that has rows must have them on every host
  (`hwloc_util.py:158`); no host's name may begin with another's (198: `node1` takes what is
  `node10`'s, too); no bus id may have another GPU's address in it (203); there must be rows of
  GPUs of both kinds (84); a use needs an address (137, KeyError); an address needs a use,
  and one only (the text is taken for a list at 266; a second tile of one rank puts the list in a
  list at 137, a TypeError at 203); no two ranks may use the same part of a GPU (210-216: the
  second one is shown). The tool reads aggregated files of whatever job there was.

The merge tool (`mpi_p2p_merge.cpp:73-78`) writes ranks with three digits, while the logs' names have
as many as the greatest rank: of "<nranks>" (58) it takes any number, and it finds all the
files in runs of 101 to 1000.

### Bounds

* `Lifecycle`: two threads are all there are; one external signal per process
  (`signalled`); MPI goes from none to ready to final; the time limit and the stop
  file appear once. Periods are not counted, the worker loops for ever. So the only
  bound is the one signal; a fatal signal leads to `exit()` and a second one meets
  the same handler. The two detectors of a stalled application are switched
  together; otherwise, where the kill faults, every combination of the options is
  taken; where it arrives, is ignored, or a GPU query fails, those with a log and the
  detectors, which have the most to lose. `AbortHonoured` leaves out the ignored kill, after
  which nothing else is tried.
* `CtorSignals` is FALSE and `Spaced` is empty in all runs.
* `DeadlockDetector`: two helpers (one to sleep, one to work or come and go), a
  `Duration` of 2 (the smallest where the counter can be reset on the way),
  `MaxFaults` 3 (main works before and after its last sample). Helpers are
  interchangeable: symmetry. The theorems have none of these bounds.
* `SampleHistory`: one helper, the thread with the greatest id, which leaves the
  cursor behind, three periods (in two of them the helper can vanish, come back and
  announce itself). Threads come and go only while the worker is idle or scanning:
  no other step looks at them. An OMPT callback comes at most once per period and
  helper, and once for the main thread.
* `PointToPoint`: two processes, so that a communicator can name them the other way
  around; two further handles (interchangeable, hence symmetry) with a duplicate of
  the world and its reversal for groups, so that one process can use communicators
  that disagree; three sends and receives in all (a message, its receive and one more
  that can disturb them), buffers as large as a message or larger. Creating and
  freeing communicators is not bounded. The theorems have none of these bounds.

* `ThreadRegistry`: main, the worker, one OpenMP thread and one other thread, both of
  which use the application's mutex; three calls (one thread locks, the other tries
  while OMPT reports it, or both report), two scans (the second finds what the first
  stored). `MaxLives` is 1: that an id is used by a second thread is covered by the
  proofs only. One first value of the counters suffices, as it is subtracted.
* `Monitor`: times are small numbers. A piece of work takes 0, 1 or 3 with a period of 2,
  so that iterations are on time, late and overtaken; the aggregator's period is 3, no
  multiple of 2, so that batches are due every other iteration or so; three samples,
  one outage, one error of libzmq, a wake-up late by 0 or 1. The theorems have none of
  these bounds.
* `PowerCounters`: one counter of each kind, ten files (four scans), two updates by the
  controller. The modules of operators: masks of six CPUs; job sizes around
  powers of ten; counters just before the word wraps, with a word of 2^11 in place
  of 2^32 (percentages of small words wrap in the same places); three GPUs, any of which
  are visible in any order, or none; up to four dumps of stacks with every kind of line in
  every place that matters, and up to 110 dumps whose labels are just cut and just not. The comments of `MCReadings`
  say why each case is in. The theorems have none of these bounds.
* `Topology`: machines of up to two cores and two units, 1680 jobs on two hosts whose
  names begin alike or not, with rows missing, doubled or out of order; 68 of them are
  regular, and of 238 others a tree is written as well. A tree is handled one node at a time and
  a unit by its own index, so that larger trees repeat what these do.

No run disables the deadlock check. A process that has ended is the
stuttering action `Gone` (`Ended` in `Monitor`), a detector that has reported leaves
the application free to go on, `SampleHistory` ends in `Over`, the application of
`PointToPoint` may `Stop`, and `ThreadRegistry` is `Quiet` when its bounds are used up.

### Fairness

`FairSpec` of `Lifecycle`: weak fairness for the steps of each thread, which the
kernel's scheduler gives; strong fairness for `Timeout`, because a `wait_for` whose
predicate is still true after a spurious wake-up goes on waiting for the *same*
deadline, so it cannot be put off for ever by wake-ups that disable it now and
then. None for the application's return, its calls of MPI, signals, stop files,
spurious wake-ups.

`FairSpec` of `Monitor`: weak fairness for the steps of the worker and of main once it
is joining, for the hand-over and the end of a send, and for the aggregator's coming
back, which is not the code's to give: `ShutdownCompletes` is a promise under the
condition that the aggregator stays away only finitely often (`MaxOutages`). Without
`PeerComes` the send blocks for ever, and the join with it; that is the hazard at
`zerosum_zmq.cpp:68`. No fairness for the first `doOnce()`, since `MPI_Init`
may never come, for `Shutdown` or for the stop file.

---------------------------------------------------------------------------

## 4. The proofs

Every theorem is about the specification with arbitrary constants.

**`LifecycleProofs`**, from `LifecycleAssumption` (types of the constants). The
safety invariants are not inductive: that the worker is done when main reaches
`final` is only preserved if one knows that nobody else can have made it
unjoinable, that a second `exit()` cannot run the destructor again, and that
`doShutdown` is only cleared on the way out of a handler. `IInv` says which
program counters, flags and destructor states go together; it is a conjunction of
named parts, each with a comment. The step lemmas go action by action; the
theorems `TypeCorrect`, `InductiveInvariant`, `SummaryAfterWorkerHolds`,
`MembersOutliveWorkerHolds`, `CleanExitFlushedHolds` and `JoinSafeHolds` follow.
They hold for every set of options, each with any outcome of the kill, and for signals
during construction, which the run leaves out.

`SessionIsKept` is the refinement, `ImplementsSession`. Which phase a process is in
follows from the program counters only if one knows who runs the destructor and who has
joined whom: `SessionInv` adds to `IInv` that nothing happens before the object
is built (`Built`), that a destructor on the worker leaves the worker on its way out
(`WorkerDtor`), that main's end belongs to the destructor (`EndOwned`), when the
worker has been joined (`Joined`, `StaysJoinable`), that a masked SIGQUIT means that
somebody has given up (`QuitMeansFailing`), and that a log is opened once
(`OpenedOnce`). A step is then one of `PhaseTurn` (which phases it can lead to) with
its effects on the log and the result (`Effects`); steps of a process that is already
failing stay there (`FailingStays`), the others are shown one by one to be a step of
`Session` or none.

**`DeadlockDetectorProofs`**, from `DetectorAssumption`. For any number of helpers,
any `Duration` and any bound on faults:
`TInv` (a helper that ran is in `used`; main that ran has `prior < faults`),
from which a visible sign of progress makes `IsRunning` true; hence `saw => others`
and `counter <= calm`, which is `NoFalseReport`. For `StuckReported` a second chain:
after one quiet scan `prior` is saved (or main sleeps), in every quiet scan after it
nobody is counted, and so the counter keeps up with the quiet scans
(`PriorSaved`, `NobodyCounted`, `CounterKeepsUp`).

**`PointToPointProofs`**, from `PointToPointAssumption`. `SentTrueHolds` says for any
number of processes, handles and groups that, without reuse of handles, the log's
numbers are MPI's. `SentTrue` is not inductive: `Right` says that the remembered ranks
of a living communicator are right and that nothing is remembered for a handle that
was never given out. Freeing a handle leaves its memory, but makes nothing wrong until
the handle lives again, and that is where the assumption is used.

`BalancedHolds` is about both sides. Its invariant is `Matched`: what MPI got for a
process less what is in flight is what the process asked for less what is still posted,
in total, and from each sender as long as the process has used no wildcard; bytes are
at most those of the buffers. The two differences are sums over lists from which a
`Match` takes an entry out of the middle, so that each action needs how a sum changes
with one entry of a table (`SumOfChanged`), at the end of a list (`SumOfLonger`) and
within it (`SumOfShorter`). Both are equal to what was counted once lists are empty,
and with `SentTrue` what was counted is what MPI got.

**`SumTheorems`** has these lemmas, for the folds of the community modules that the models
are written with. A fold is a recursive function over finite sets, and induction over data is out
of reach for the provers; the lemmas take the detour over a smallest counterexample,
whose existence is the well-foundedness of the numbers (`SmallestNumber`, `SmallestSet`).
For folds over lists they give more than one sum: `FoldExists` shows that the
recursion has a solution and `FoldRuns` that the fold is a *run*, a function `r` on
`0..n` with `r[0]` the base and each `r[i]` one step from `r[i - 1]`. What the code does in a
loop then has loop invariants: a fact that each step preserves holds of the result, again by
a smallest counterexample. `TakenInOrder` (a walk that keeps what is in a set lists the set
in order) and `FlatteningExists` (lists joined from the front) are two uses of it.

**`MonitorProofs`**, from `CadenceAssumption`, `AggregationAssumption` and
`MonitorAssumption`. For any periods, durations and numbers of samples, outages and
errors. `ClockInv` relates the clock at each phase to `prev`, the wait and the work
done so far; `NeverEarly`, `LagBounded` and `BatchesCatchUp` follow (the last
one needs that the aggregator's period is at least the sampling period). `RowInv`
says that what was received, is under way and is lost are three disjoint sets that
together are `1..cursor`, each in order, and `SenderInv` that the worker and main are
never both in a send; from both follow `RowsAccounted` and, step by step, the refinement
`ImplementsFeed`.

**`ThreadRegistryProofs`**, from `ThreadRegistryAssumption`. For any number of
threads, ids that are used again, any first values, any number of calls and scans.
`StackInv` says that above the outer call there is one more at most, the counting's,
and only before the thread has its counters; `OwnerInv` ties each mutex to the place
of its owner, so that locks exclude; `TargetInv` that what `add()` found in the
map is still true when it acts on it. `NoReentry` and `NoSelfLock` are consequences;
`CallsCounted` and `ReportsKept` are inductive on top of them. Most steps are `Silent`:
neither calls nor reports show them. The five that are not are the steps of
`Registry`, which gives `RegistryIsAtomic`. `ThreadsAnnouncedOnce` adds to `IInv`
what was announced (`Announced`): it is the map's ids in ascending order, up to a
position that `nthreads` names. A stored id above all others leaves that prefix alone, and
the ids that a walk announces are those behind it; both are facts about the
cardinality of the set of smaller ids.

**`SampleHistoryProofs`**, from `HistoryAssumption`. For any threads (finitely many),
sensors and periods. `HistoryOK` is inductive alone: `extractFields` fills a field up
to the steps there were before it appends (`ExtractFills`), and `add` appends one step
(`AddKeeps`), hence `RowsMatchSteps`. `HwtSentOnce` needs that the history that leaves
the cursor behind is not ahead of the hardware threads': `Counted` ties their number
of samples to `step` in each phase, `ThreadsKeepPace` bounds every thread but the
main one (whose constructor's sample puts it one ahead) by `step`, and `WorkerIsSeen`
says that the thread with the greatest id is not the main thread once a scan is over.
`Stream` is the invariant of cursor and rows.

**`ReadingsProofs`**, from `PowerCountersAssumption` and `ReadingsAssumption`, whose named
parts say what an input may be (each is what the kernel, a launcher or a device guarantees, with
a comment in `Readings`): a process has a CPU, no sample falls below zero, a variable
names no device twice, and so on. `ReadingsReadPower` says that the behaviours of the whole
are behaviours of `PowerSpec`, so that what is proved of the power counters holds in
it. The inductive invariant for everything else is `InputOK`, that the input is one of
its set; all the difficulty is in what the code makes of an input, which is a loop in
most cases.

*Power counters*: `FilesLeft` counts two files per scan, hence `LastsToLimitHolds`;
`EnergyInv` says that what was reported, with the fields of the scan under way, is
what each counter had gained when it was last read, wherever the controller writes in
between (and, in the constructor, that a counter that was read has its start), hence
`EnergyOnceHolds`.

*Percentages* (`PercentagesBoundedHolds`), for any counters that only grow, read at any
place before or after they wrap. Each field and each sum of fields is the true one up to
whole words (congruence lemmas over division with remainder), so an unsigned difference
is the true one whenever that fits a word. Three assumptions, which are the kernel's and
the machine's: counters do not fall, a guest's time is in the user's as well, and a hundred
times what was spent between two samples fits into a word.

*Averages and listings* (`AveragesInRangeHolds`), for any non-empty list of samples below a
word. A list whose entries lie between two numbers has a sum between as many times each
(`SumOfSpread`), the listed differences of a counter that never falls add up to its
rise (`StepsAddUp`), and a division rounds to within the same bounds. The summary
lists every CPU of the node once, its own first (`SummaryIsWhole`, from
`TakenInOrder`), and the heartbeat the newest samples.

*Placement* (`WorkerPlacedHolds`), for any finite set of CPUs, value of `ZS_ASYNC_CORE` and
entries of `/proc`. `KernelListIsRead` is the heart: the spans that the kernel writes,
read one after the other, give the set in order. Each span ends at the first gap
(`SpanEnds`), each CPU is in one (`SpanBegins`), and spans in order flatten to a list
in order with the same elements; a set has only one such list (`OrderedSorts`). The rest,
`AllowedIs`, `AffinityIs` and the other processes, follows from reading back what
the kernel meant.

*GPUs* (`DevicesAlignedHolds`), for any number of devices, any visible ones and any
engines. A list without repetitions is not longer than what it takes from
(`ListFits`), so that every GPU of the process has a polled row, whatever hides the others
(`VisibleIsPolled`); and if it is the variable that is read, the row is about the device
on the GPU's bus and has the GPU's number (`GpusStayAligned`). For SYCL's shares
(`SharesAreShown`), a poll is
two nested folds over devices and engines with a map of snapshots that outlives it:
after the first poll, the map has snapshots of that poll only (`FirstPoll`), and where no
device before it has the label, its own; the second poll takes the difference to that and
does not replace it (`LaterPoll`), since `insert()` leaves what is there.

*Names* (`FileNamesSortedHolds`), for each launcher of `Launched`, any size up to the
greatest `int` and any number of processes per node; where the size is a product of two
variables, all nodes must have as many processes. `RanksAreFound` takes the launchers
one by one: the first name of each list that is set, and what it is set to, for rank, size, rank
on the node and the script's number. `LogsSort`: of the
digits of two numbers in a row, look at the least place from which on the quotients
agree; the digits left of it are the same and the one at it is smaller (`DigitsSort`),
and all names have the width of the greatest rank's (`WidthFits`, `WidthGrows`).
That logs differ needs less, and holds for the two launchers that tell less as well: the last
digits of two numbers differ somewhere, however long their names are (`PaddedDiffers`).

*Call stacks* (`StacksMergedHolds`), for any number of dumps of any length, and both tools. Four
loops, each a run with its own invariant. The lines of a file (`LineRead`): what was
taken are frames that only frames separate from a header, and the reader has failed only if an
empty line was right behind these (`FileRead`). `findUnique` keeps, after `k` files, each of
their stacks once, with exactly the numbers of the files that have it (`StacksFound`).
`dotstacks` keeps, after `k` unique stacks, a tree whose paths are the prefixes of these and
whose nodes have the ranks of the stacks that go through them, each rank once, since the
unique stacks share none (`TreeGrown`); the count is the number of these. Ranks that
are sorted (`SortIs`) are written as spans that cover them and never touch
(`RangesAre`), in order (`SpansOrdered`). A label shows the spans up to where it is cut,
hence the ranks up to one of them (`LabelIsTrue`); a single span is shorter than both
limits, as long as a rank has nine digits at most (`AloneIsShort`).

*Only model-checked*: liveness (`ShutdownEnds`, `HandledSignalEnds`, `AbortHonoured`,
`ShutdownCompletes`), which needs fairness; and `TopologyCounted` and
`UtilizationShown`, which are about recursion over trees, for which the library has no
well-founded order that the provers can use. Every other property of a passing run is
proved for all values of the constants.

---------------------------------------------------------------------------

## 5. Not modelled

* The doubly loaded preload and shells (`preload.cpp` returns before a `ZeroSum`
  object exists there).
* Second signals during a handler, signals to threads of the application other than
  main (they run the same handler against the same object).
* The walk of `toCSV()` over `Process::threads` without `thread_mtx`: the same race as
  `logThreads()`', which `ThreadRegistry` has, with the same outcomes.
* `getopenmp()`, which enters a parallel region to ask for thread ids, and the
  registration of the OMPT tool: one call each, no state that is shared.
* Calls of MPI from several threads at once (`MPI_THREAD_MULTIPLE`), for which the maps
  of the accounting have no lock: any outcome is possible there.
* The queries of the vendors' libraries (Level Zero, NVML, ROCm SMI, CUDA, HIP, SYCL):
  reads into fields; what happens to the fields is in `Devices` and `Reports`.
* The merge tool, a matrix of what it reads under names that it makes (see above),
  the plotting scripts other than `hwloc_util.py` (data frames and layout), colours
  and line wrapping of the trees, the launcher's options (one environment variable
  each).
* `global_constructor_destructor.h`: its order against static destruction is the
  linker's.
* The wrappers of condition variables, which `#if 0` leaves out of every build.

### Hazards without a property

`PROJECT.json` lists five, with reasons: the blank in a thread's name and the signal during
construction (both stated and refuted, above), the end of MPI between the worker's test and
its query (nothing in the monitor shows it), the unlocked map of bytes under
`MPI_THREAD_MULTIPLE`, and negative ranks in the merge tool's matrix. Three have a property that
covers a part: the unlocked walk of `logThreads()` (what it leaves of the map, not what it
prints when it races), the missing CPU rows in `hwloc_util.py` (everything but the
failure itself), and the narrowed counters of a CPU (not the product that overflows after
119 hours without a sample).

---------------------------------------------------------------------------

## 6. Plan

Done: `Lifecycle`, `DeadlockDetector`, `PointToPoint`, `Monitor`, `ThreadRegistry`,
`SampleHistory` and `Readings`, each with its proofs; the refinements to `Session`, `Feed`
and `Registry`; `Topology`, which is model-checked. What is left, in order of importance:

1. The merge tool's matrix against the tables of `PointToPoint`.
2. Several threads per process in `PointToPoint`.
3. `Topology` as a walk over a numbered tree, which would bring its statements within
   reach of the proofs.
