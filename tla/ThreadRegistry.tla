--------------------------- MODULE ThreadRegistry ---------------------------
(***************************************************************************)
(* Who knows the threads of a process: the wrappers of pthread_mutex_lock  *)
(* and pthread_mutex_trylock with their counters, and the map of LWPs that *)
(* the worker's scan and the OMPT callback of every OpenMP thread fill.    *)
(*                                                                         *)
(* ZeroSum's own locks go through its own wrappers. A thread is inside a   *)
(* stack of wrapper calls, newest first; in_zs::get() is its length.       *)
(***************************************************************************)
EXTENDS Integers, Sequences, FiniteSetsExt, TLC

CONSTANTS
  Main,         \* thread ids are numbers, the scan and the map go by them
  Worker,       \* async_tid
  Helpers,      \* threads of the application that come and go
  Omp,          \* threads that OpenMP announces
  FirstValues,  \* what freshly allocated counters may hold
  Callers,      \* bound: threads of the application that use its mutex
  MaxCalls,     \* bound: lock calls of the application and its callbacks
  MaxScans,     \* bound: scans of the worker
  MaxLives      \* bound: threads started with the same id

Threads == {Main, Worker} \cup Helpers \cup Omp
App     == Threads \ {Worker}
Nobody  == 0

ASSUME ThreadRegistryAssumption ==
  /\ Threads \subseteq Nat \ {Nobody} /\ IsFiniteSet(Threads)
  /\ Main # Worker
  /\ {Main, Worker} \cap (Helpers \cup Omp) = {} /\ Helpers \cap Omp = {}
  /\ FirstValues \subseteq Nat /\ Callers \subseteq App
  /\ MaxCalls \in Nat /\ MaxScans \in Nat /\ MaxLives \in Nat

Mutexes == {"app", "map", "threads"}  \* the application's, mapMutex, thread_mtx
Ops     == {"locks", "trylocks"}
Flags   == {"Main", "ZeroSum", "OpenMP", "Other"}

VARIABLES
  pc,        \* thread -> where it is outside of the wrappers
  stack,     \* thread -> its wrapper calls, newest first
  owner,     \* mutex -> its owner, or Nobody
  mine,      \* thread -> has its thread_local counters pointer been set?
  counters,  \* getCounterMap(): id -> operation -> value
  first,     \* ghost: id -> the value its counters started from
  calls,     \* ghost: id -> operation -> calls begun outside of a wrapper
  target,    \* thread -> the id it looks up or reports
  found,     \* thread -> add()'s test threads.count(tid)
  threads,   \* Process::threads: id -> type and number of samples
  reports,   \* ghost: id -> calls of add() that are over
  nthreads,  \* the static of logThreads()
  announced, \* the "New Thread" lines, in order
  view,      \* worker: the map its walk started on
  orderly,   \* ghost: ids were only added in ascending order, never in a walk
  scans, lives

vars == <<pc, stack, owner, mine, counters, first, calls, target, found, threads,
          reports, nthreads, announced, view, orderly, scans, lives>>
counting == <<counters, first, calls>>
logging  == <<nthreads, announced, view, scans>>

Sample1   == [flags: SUBSET Flags, n: Nat]
Frame     == [m: Mutexes, op: Ops, at: {"enter", "take"}]
Alive     == {t \in Threads : pc[t] # "off"}
Top(t)    == Head(stack[t])
InCall(t) == stack[t] # <<>>

\* std::map::insert: an element that is there stays as it is.
Inserted(map, k, v) ==
  [j \in DOMAIN map \cup {k} |-> IF j \in DOMAIN map THEN map[j] ELSE v]

\* Mutant: the wrapper does not ask for its depth.
Counts_Always(t) == TRUE

\* Only the outermost wrapper of a thread counts.
Counts(t) == Len(stack[t]) = 1

Init ==
  /\ pc = [t \in Threads |-> IF t = Main THEN "run"
                             ELSE IF t = Worker THEN "rest" ELSE "off"]
  /\ stack = [t \in Threads |-> <<>>]
  /\ owner = [m \in Mutexes |-> Nobody]
  /\ mine = [t \in Threads |-> FALSE]
  /\ counters = <<>> /\ first = <<>>
  /\ calls = [t \in Threads |-> [op \in Ops |-> 0]]
  /\ target = [t \in Threads |-> Nobody]
  /\ found = [t \in Threads |-> FALSE]
  \* Process::Process passes Main where the step belongs, so the type is Other.
  /\ threads = [t \in {Main} |-> [flags |-> {"Other"}, n |-> 1]]
  /\ reports = [t \in Threads |-> IF t = Main THEN 1 ELSE 0]
  /\ nthreads = 0 /\ announced = <<>> /\ view = {} /\ orderly = TRUE
  /\ scans = 0 /\ lives = [t \in Threads |-> 0]

-----------------------------------------------------------------------------
(* The wrappers.                                                           *)

\* pthread_mutex_lock or _trylock is called outside of any wrapper.
Enter(t, m, op) ==
  /\ stack' = [stack EXCEPT ![t] = <<[m |-> m, op |-> op, at |-> "enter"]>>]
  /\ calls' = [calls EXCEPT ![t][op] = @ + 1]
  /\ pc' = [pc EXCEPT ![t] = "call"]

\* Inside getCounters(), with the map's lock: of a wrapper, or of the scan.
InLookup(t) == IF InCall(t) THEN owner["map"] = t /\ ~mine[t] ELSE pc[t] = "lookup"

\* Between in_zs and the real call.
Entered(t) == InCall(t) /\ Top(t).at = "enter" /\ ~InLookup(t)
Taking(f)  == [m |-> f.m, op |-> f.op, at |-> "take"]
Proceed(t) == stack' = [stack EXCEPT ![t] = <<Taking(Head(@))>> \o Tail(@)]

EnterNested(t) ==
  /\ Entered(t) /\ ~Counts(t)
  /\ Proceed(t)
  /\ UNCHANGED <<pc, owner, mine, counting, target, found, threads, reports,
                 logging, orderly, lives>>

\* The thread has its counters.
EnterCounted(t) ==
  /\ Entered(t) /\ Counts(t) /\ mine[t]
  /\ counters' = [counters EXCEPT ![t][Top(t).op] = @ + 1]
  /\ Proceed(t)
  /\ UNCHANGED <<pc, owner, mine, first, calls, target, found, threads, reports,
                 logging, orderly, lives>>

\* Its first counted call: getMyCounters() calls getCounters(gettid()), whose
\* lock_guard enters the wrapper again.
EnterFirst(t) ==
  /\ Entered(t) /\ Counts(t) /\ ~mine[t]
  /\ stack' = [stack EXCEPT ![t] = <<[m |-> "map", op |-> "locks", at |-> "enter"]>> \o @]
  /\ UNCHANGED <<pc, owner, mine, counting, target, found, threads, reports,
                 logging, orderly, lives>>

\* Where a thread goes on once it holds what it asked for.
Granted == [app |-> "held", map |-> "lookup", threads |-> "test"]

\* The real pthread_mutex_lock returns; the depth goes down.
Take(t) ==
  /\ InCall(t) /\ Top(t).at = "take" /\ owner[Top(t).m] = Nobody
  /\ owner' = [owner EXCEPT ![Top(t).m] = t]
  /\ stack' = [stack EXCEPT ![t] = Tail(@)]
  /\ pc' = [pc EXCEPT ![t] = IF Len(stack[t]) = 1 THEN Granted[Top(t).m] ELSE @]
  /\ UNCHANGED <<mine, counting, target, found, threads, reports, logging,
                 orderly, lives>>

\* The real pthread_mutex_trylock does not wait.
TryFails(t) ==
  /\ InCall(t) /\ Top(t).at = "take" /\ Top(t).op = "trylocks"
  /\ owner[Top(t).m] # Nobody
  /\ stack' = [stack EXCEPT ![t] = Tail(@)]
  /\ pc' = [pc EXCEPT ![t] = "run"]
  /\ UNCHANGED <<owner, mine, counting, target, found, threads, reports, logging,
                 orderly, lives>>

\* getCounters(): of the own id inside a wrapper, of the scanned id outside.
\* Counters of an id stay in the map when its thread ends.
LookupId(t) == IF InCall(t) THEN t ELSE target[t]

NewCounters(id, v) ==
  /\ counters' = Inserted(counters, id, [op \in Ops |-> v])
  /\ first' = Inserted(first, id, v)

\* Mutants: new counters for every caller; the map's lock is not released.
Lookup_Fresh(t) ==
  /\ InLookup(t)
  /\ \E v \in FirstValues :
       /\ counters' = (LookupId(t) :> [op \in Ops |-> v]) @@ counters
       /\ first' = first @@ (LookupId(t) :> v)
  /\ owner' = [owner EXCEPT !["map"] = Nobody]
  /\ mine' = IF InCall(t) THEN [mine EXCEPT ![t] = TRUE] ELSE mine
  /\ pc' = IF InCall(t) THEN pc ELSE [pc EXCEPT ![t] = "report"]
  /\ UNCHANGED <<stack, calls, target, found, threads, reports, logging, orderly, lives>>

Lookup_KeepsLock(t) ==
  /\ InLookup(t)
  /\ UNCHANGED <<counters, first, owner>>
  /\ mine' = [mine EXCEPT ![t] = TRUE]
  /\ pc' = IF InCall(t) THEN pc ELSE [pc EXCEPT ![t] = "report"]
  /\ UNCHANGED <<stack, calls, target, found, threads, reports, logging, orderly, lives>>

Lookup(t) ==
  /\ InLookup(t)
  /\ IF LookupId(t) \in DOMAIN counters
     THEN UNCHANGED <<counters, first>>
     ELSE \E v \in FirstValues : NewCounters(LookupId(t), v)
  /\ owner' = [owner EXCEPT !["map"] = Nobody]
  /\ mine' = IF InCall(t) THEN [mine EXCEPT ![t] = TRUE] ELSE mine
  /\ pc' = IF InCall(t) THEN pc ELSE [pc EXCEPT ![t] = "report"]
  /\ UNCHANGED <<stack, calls, target, found, threads, reports, logging, orderly, lives>>

-----------------------------------------------------------------------------
(* The application.                                                        *)

AppCalls == MapThenSumSet(LAMBDA t : calls[t]["locks"] + calls[t]["trylocks"], App)

\* A mutex of the application's own, locked or tried.
AppCall(t) ==
  /\ t \in Callers /\ pc[t] = "run" /\ owner["app"] # t
  /\ AppCalls < MaxCalls
  /\ \E op \in Ops : Enter(t, "app", op)
  /\ UNCHANGED <<owner, mine, counters, first, target, found, threads, reports,
                 logging, orderly, lives>>

AppUnlock(t) ==
  /\ pc[t] = "held"
  /\ owner' = [owner EXCEPT !["app"] = Nobody]
  /\ pc' = [pc EXCEPT ![t] = "run"]
  /\ UNCHANGED <<stack, mine, counting, target, found, threads, reports, logging,
                 orderly, lives>>

\* A new thread, perhaps with the id of one that has ended.
Spawn(t) ==
  /\ t \in Helpers \cup Omp
  /\ pc[t] = "off" /\ lives[t] < MaxLives
  /\ pc' = [pc EXCEPT ![t] = IF t \in Omp THEN "begin" ELSE "run"]
  /\ mine' = [mine EXCEPT ![t] = FALSE]
  /\ lives' = [lives EXCEPT ![t] = @ + 1]
  /\ UNCHANGED <<stack, owner, counting, target, found, threads, reports, logging, orderly>>

\* OpenMP keeps its threads.
Exit(t) ==
  /\ t \in Helpers /\ pc[t] = "run"
  /\ pc' = [pc EXCEPT ![t] = "off"]
  /\ UNCHANGED <<stack, owner, mine, counting, target, found, threads, reports,
                 logging, orderly, lives>>

-----------------------------------------------------------------------------
(* Process::add, by the worker's scan and by zerosum_thread_begin.         *)

\* Mutant: add() without its unique_lock.
CallAdd_Unlocked(t) ==
  /\ pc[t] \in {"begin", "report"}
  /\ target' = [target EXCEPT ![t] = IF pc[t] = "begin" THEN t ELSE @]
  /\ pc' = [pc EXCEPT ![t] = "test"]
  /\ UNCHANGED <<stack, owner, mine, counting, found, threads, reports, logging,
                 orderly, lives>>

CallAdd(t) ==
  /\ pc[t] \in {"begin", "report"}
  /\ target' = [target EXCEPT ![t] = IF pc[t] = "begin" THEN t ELSE @]
  /\ Enter(t, "threads", "locks")
  /\ UNCHANGED <<owner, mine, counters, first, found, threads, reports, logging,
                 orderly, lives>>

TestAdd(t) ==
  /\ pc[t] = "test"
  /\ found' = [found EXCEPT ![t] = target[t] \in DOMAIN threads]
  /\ pc' = [pc EXCEPT ![t] = "store"]
  /\ UNCHANGED <<stack, owner, mine, counting, target, threads, reports, logging,
                 orderly, lives>>

\* The callback passes OpenMP where the step belongs, the worker marks itself.
TypeGiven(t) == IF target[t] = Worker THEN {"ZeroSum"} ELSE {}

\* Mutant: add() inserts without a test, which changes nothing for a known id.
StoreAdd_AlwaysInserts(t) ==
  /\ pc[t] = "store"
  /\ threads' = Inserted(threads, target[t], [flags |-> {"Other"}, n |-> 1])
  /\ reports' = [reports EXCEPT ![target[t]] = @ + 1]
  /\ target' = [target EXCEPT ![t] = IF t = Worker THEN @ ELSE Nobody]
  /\ owner' = [owner EXCEPT !["threads"] = Nobody]
  /\ pc' = [pc EXCEPT ![t] = IF t = Worker THEN "scan" ELSE "run"]
  /\ found' = [found EXCEPT ![t] = FALSE]
  /\ UNCHANGED <<stack, mine, counting, orderly, logging, lives>>

\* A new LWP takes the type for its step and stays Other; std::map::insert
\* leaves an element that is there alone.
StoreAdd(t) ==
  /\ pc[t] = "store"
  /\ threads' =
       IF found[t]
       THEN [threads EXCEPT ![target[t]] = [flags |-> @.flags \cup TypeGiven(t),
                                            n     |-> @.n + 1]]
       ELSE Inserted(threads, target[t], [flags |-> {"Other"}, n |-> 1])
  /\ orderly' = (orderly /\ (found[t] \/ /\ pc[Worker] # "walk"
                                         /\ \A u \in DOMAIN threads : u < target[t]))
  /\ reports' = [reports EXCEPT ![target[t]] = @ + 1]
  /\ target' = [target EXCEPT ![t] = IF t = Worker THEN @ ELSE Nobody]
  /\ owner' = [owner EXCEPT !["threads"] = Nobody]
  /\ pc' = [pc EXCEPT ![t] = IF t = Worker THEN "scan" ELSE "run"]
  /\ found' = [found EXCEPT ![t] = FALSE]
  /\ UNCHANGED <<stack, mine, counting, logging, lives>>

-----------------------------------------------------------------------------
(* The worker's scan and logThreads().                                     *)

StartScan ==
  /\ pc[Worker] = "rest" /\ scans < MaxScans
  /\ scans' = scans + 1
  /\ target' = [target EXCEPT ![Worker] = Nobody]
  /\ pc' = [pc EXCEPT ![Worker] = "scan"]
  /\ UNCHANGED <<stack, owner, mine, counting, found, threads, reports, nthreads,
                 announced, view, orderly, lives>>

\* readdir() goes on to the next id that is there now; getCounters() is called.
Later == {t \in Alive : t > target[Worker]}

NextThread ==
  /\ pc[Worker] = "scan"
  /\ \E u \in Later : /\ \A v \in Later : u <= v
                      /\ target' = [target EXCEPT ![Worker] = u]
  /\ Enter(Worker, "map", "locks")
  /\ UNCHANGED <<owner, mine, counters, first, found, threads, reports, logging,
                 orderly, lives>>

\* The walk of logThreads() starts, without thread_mtx. It is skipped when the
\* map has not grown.
WalkBegin ==
  /\ pc[Worker] = "scan" /\ Later = {}
  /\ view' = DOMAIN threads
  /\ pc' = [pc EXCEPT ![Worker] = "walk"]
  /\ UNCHANGED <<stack, owner, mine, counting, target, found, threads, reports,
                 nthreads, announced, scans, orderly, lives>>

\* Mutant: the index is compared the wrong way round.
From_Rest(s, n) ==
  LET rank(u) == Cardinality({v \in s : v < u})
  IN [i \in 1..Max({0, Cardinality(s) - n - 1}) |-> CHOOSE u \in s : rank(u) = n + i]

\* The ids of s from index n on, in the order of the map.
From(s, n) ==
  LET rank(u) == Cardinality({v \in s : v < u})
  IN [i \in 1..Max({0, Cardinality(s) - n}) |-> CHOOSE u \in s : rank(u) = n + i - 1]

\* What a walk sees: the map, or anything of it if an insertion overlapped (a
\* data race on a std::map). The size is read again at the end.
Seen == IF view = DOMAIN threads THEN {view} ELSE SUBSET DOMAIN threads

WalkEnd ==
  /\ pc[Worker] = "walk"
  /\ \E s \in Seen : announced' = announced \o From(s, nthreads)
  /\ nthreads' = Cardinality(DOMAIN threads)
  /\ pc' = [pc EXCEPT ![Worker] = "rest"]
  /\ view' = {}
  /\ UNCHANGED <<stack, owner, mine, counting, target, found, threads, reports,
                 scans, orderly, lives>>

\* The bounds are used up: nothing is left to do.
Quiet ==
  /\ pc[Worker] = "rest" /\ scans = MaxScans
  /\ \A t \in App : pc[t] \in {"run", "off"}
  /\ UNCHANGED vars

Next ==
  \/ \E t \in Threads : \/ EnterNested(t) \/ EnterCounted(t) \/ EnterFirst(t)
                        \/ Take(t) \/ TryFails(t) \/ Lookup(t)
                        \/ AppCall(t) \/ AppUnlock(t) \/ Spawn(t) \/ Exit(t)
                        \/ CallAdd(t) \/ TestAdd(t) \/ StoreAdd(t)
  \/ StartScan \/ NextThread \/ WalkBegin \/ WalkEnd
  \/ Quiet

Spec == Init /\ [][Next]_vars

-----------------------------------------------------------------------------
(* Properties.                                                             *)

TypeOK ==
  /\ pc \in [Threads -> {"off", "run", "rest", "call", "held", "lookup", "begin",
                         "report", "test", "store", "scan", "walk"}]
  /\ stack \in [Threads -> Seq(Frame)]
  /\ owner \in [Mutexes -> Threads \cup {Nobody}]
  /\ mine \in [Threads -> BOOLEAN] /\ found \in [Threads -> BOOLEAN]
  /\ DOMAIN counters \subseteq Threads /\ DOMAIN first = DOMAIN counters
  /\ \A t \in DOMAIN counters : first[t] \in Nat /\ counters[t] \in [Ops -> Nat]
  /\ calls \in [Threads -> [Ops -> Nat]]
  /\ target \in [Threads -> Threads \cup {Nobody}]
  /\ DOMAIN threads \subseteq Threads
  /\ \A t \in DOMAIN threads : threads[t] \in Sample1
  /\ reports \in [Threads -> Nat] /\ lives \in [Threads -> Nat]
  /\ nthreads \in Nat /\ scans \in Nat
  /\ view \subseteq Threads /\ orderly \in BOOLEAN

\* The call of t that has entered a wrapper and is not counted yet.
Uncounted(t) == IF InCall(t) /\ stack[t][Len(stack[t])].at = "enter"
                THEN stack[t][Len(stack[t])].op ELSE "none"

Counted(t, op) == IF t \in DOMAIN counters THEN counters[t][op] - first[t] ELSE 0

\* A counter has grown by exactly the calls made under its id outside of the
\* wrappers, the locks of the counting itself not among them, over all threads
\* that had the id (zerosum_pthreads.cpp 90-103, 180-206).
CallsCounted ==
  \A t \in Threads, op \in Ops :
    Counted(t, op) + (IF Uncounted(t) = op THEN 1 ELSE 0) = calls[t][op]

\* The wrapper that counts is entered once more at most, by the counting
\* (zerosum_pthreads.cpp 184-190, utils.h 62-70).
NoReentry == \A t \in Threads : Len(stack[t]) <= 2

\* No thread waits for a mutex it holds: neither the map's nor the registry's
\* lock is held over a call that takes it (zerosum_pthreads.cpp 90-98,
\* software.h 272-288).
NoSelfLock ==
  \A t \in Threads : InCall(t) /\ Top(t).at = "take" => owner[Top(t).m] # t

\* A thread that is reported by the scan and by its own OMPT callback at the same
\* time has a sample for every report (software.h 272-288).
ReportsKept ==
  \A t \in Threads : (IF t \in DOMAIN threads THEN threads[t].n ELSE 0) = reports[t]

\* As long as ids come in ascending order and none comes during a walk, every
\* thread is announced in the log once (software.h 407-425).
AnnouncedInOrder ==
  orderly /\ pc[Worker] = "rest" =>
    /\ Len(announced) = nthreads
    /\ \A i, j \in DOMAIN announced : i < j => announced[i] < announced[j]

-----------------------------------------------------------------------------
(* The registry as one atomic object.                                      *)

Reported == [t \in Threads |-> IF t \in DOMAIN threads THEN threads[t].n ELSE 0]
Reporting(t) == \/ pc[t] \in {"test", "store"}
                \/ pc[t] = "call" /\ stack[t][Len(stack[t])].m = "threads"

Atomic == INSTANCE Registry WITH
  calling   <- [t \in Threads |-> Uncounted(t)],
  counted   <- [t \in Threads |-> [op \in Ops |-> Counted(t, op)]],
  reporting <- [t \in Threads |-> IF Reporting(t) THEN target[t] ELSE Nobody],
  reported  <- Reported

\* The locks and the depth make the registry what Registry describes: each call
\* is counted and each report recorded in one step.
ImplementsRegistry == Atomic!RegistrySpec
=============================================================================
