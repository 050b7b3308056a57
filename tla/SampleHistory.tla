---------------------------- MODULE SampleHistory ----------------------------
(***************************************************************************)
(* What ZeroSum remembers of its samples and how it gives it out.  Every   *)
(* thread (LWP), hardware thread and the node keep a list of the steps at  *)
(* which they were sampled and, for every field, a list of values; row i   *)
(* of the CSV output pairs entry i of both.  A thread can vanish in the    *)
(* middle of a scan, its id can be used again, and OpenMP threads announce *)
(* themselves at any time, so the lists must be kept in line.              *)
(*                                                                         *)
(* The rows are streamed to an aggregator with one shared cursor,          *)
(* lastStepWritten, and written to a file in the end.                      *)
(***************************************************************************)
EXTENDS Sequences, FiniteSetsExt, Integers

CONSTANTS
  Main,       \* thread ids: the main thread,
  Worker,     \* ZeroSum's own thread,
  Helpers,    \* the other threads
  NodeCalls,  \* the updateNodeFields() calls of a period: one field for each
  MaxStep     \* bound on the number of periods

Tids == {Main, Worker} \cup Helpers

\* Thread ids grow: the worker is younger than the main thread.
ASSUME HistoryAssumption ==
  /\ Tids \subseteq Nat /\ Main < Worker
  /\ IsFiniteSet(Helpers) /\ Main \notin Helpers /\ Worker \notin Helpers
  /\ NodeCalls \in Seq(STRING) /\ "meminfo" \in {NodeCalls[i] : i \in DOMAIN NodeCalls}
  /\ MaxStep \in Nat

\* software::ThreadType, as the numbers they are.
ZeroSumType == 2
OpenMPType  == 4
OtherType   == 8

(***************************************************************************)
(* A value records when and by whom it was read.  Absent is the "0" that   *)
(* stands for a value a field did not have.  "stat" are the fields of      *)
(* /proc/self/task/<tid>/stat, "calls" the counters of the wrapped calls.  *)
(***************************************************************************)
Absent == [at |-> -1, by |-> "none"]
Fields == {"stat", "calls"}
Empty  == [steps |-> <<>>, vals |-> [f \in Fields |-> <<>>]]

VARIABLES
  openmp,    \* do OpenMP threads report themselves (OMPT)? fixed after Init
  pc,        \* where the worker is in its period
  step,      \* ZeroSum::step
  alive,     \* the threads /proc/self/task shows
  todo,      \* the directory entries the scan has still to visit
  lwp,       \* Process::threads: id -> history
  hwt,       \* the steps of a hardware thread; GPUs are sampled with it
  node,      \* the history of the compute node
  cursor,    \* lastStepWritten
  sent       \* the entries of hwt that were sent to the aggregator, in order

vars == <<openmp, pc, step, alive, todo, lwp, hwt, node, cursor, sent>>
records == <<lwp, hwt, node>>
output  == <<cursor, sent>>

\* Mutant: the step is counted after the scan's first read.
Read_Ahead(by) == [at |-> step + 1, by |-> by]

Read(by) == [at |-> step, by |-> by]

\* The constructor samples the main thread, its type taken for a step.
Init ==
  /\ openmp \in BOOLEAN
  /\ pc = "once" /\ step = 0
  /\ alive = {Main, Worker} /\ todo = {}
  /\ lwp = [t \in {Main} |->
              [steps |-> <<1>>,
               vals |-> [Empty.vals EXCEPT !["stat"] = <<[at |-> 0, by |-> "scan"]>>]]]
  /\ hwt = <<>>
  /\ node = [steps |-> <<>>, vals |-> [f \in {NodeCalls[i] : i \in DOMAIN NodeCalls} |-> <<>>]]
  /\ cursor = 0 /\ sent = <<>>

-----------------------------------------------------------------------------
(* LWP: new histories, updates and padding.                                *)

\* Mutant: no slots for the steps a field has missed.
Extract_Unpadded(h, fs, v) ==
  [h.vals EXCEPT !["stat"]  = IF "stat"  \in fs THEN Append(@, v) ELSE @,
                 !["calls"] = IF "calls" \in fs THEN Append(@, v) ELSE @]

\* extractFields(): each field that is there is brought up to the number of
\* steps and gets its value.
Extract(h, fs, v) ==
  LET Padded(s) == s \o [i \in 1 .. (Len(h.steps) - Len(s)) |-> Absent]
  IN  [f \in Fields |-> IF f \in fs THEN Append(Padded(h.vals[f]), v) ELSE h.vals[f]]

\* Process::add(), under thread_mtx: a new thread has its type for first step.
Add(t, fs, v, s, type) ==
  lwp' = IF t \in DOMAIN lwp
         THEN [lwp EXCEPT ![t] = [steps |-> Append(@.steps, s), vals |-> Extract(@, fs, v)]]
         ELSE [u \in DOMAIN lwp \cup {t} |->
                 IF u = t THEN [steps |-> <<type>>, vals |-> Extract(Empty, fs, v)]
                 ELSE lwp[u]]

-----------------------------------------------------------------------------
(* The application's threads.                                              *)

\* Only the scan looks at the threads: they come and go during it or before it.
Observable == pc \in {"idle", "scan"}

Visited(h) ==
  h \in DOMAIN lwp /\
  Read("scan") \in {lwp[h].vals["calls"][i] : i \in DOMAIN lwp[h].vals["calls"]}

\* A thread begins, with a new id or an old one, though not one that this scan has
\* met; the directory is read as the scan goes on, which may meet the thread.
Spawn(h) ==
  /\ Observable /\ h \notin alive
  /\ alive' = alive \cup {h}
  /\ \/ UNCHANGED todo
     \/ pc = "scan" /\ ~Visited(h) /\ todo' = todo \cup {h}
  /\ UNCHANGED <<openmp, pc, step, records, output>>

\* A thread ends, before its entry has been read or after that.
Exit(h) ==
  /\ Observable /\ h \in alive
  /\ alive' = alive \ {h}
  /\ todo' \in {todo, todo \ {h}}
  /\ UNCHANGED <<openmp, pc, step, records, output>>

\* zerosum_thread_begin(): the type is passed where the step belongs. The runtime
\* announces the main thread once; others once per period, as a bound.
OmpThreadBegin(t) ==
  /\ openmp /\ pc # "over" /\ t \in alive
  /\ t \in DOMAIN lwp => \A i \in DOMAIN lwp[t].vals["stat"] :
       lwp[t].vals["stat"][i].by = "ompt" => t # Main /\ lwp[t].vals["stat"][i].at # step
  /\ Add(t, {"stat"}, Read("ompt"), OpenMPType, OtherType)
  /\ UNCHANGED <<openmp, pc, step, alive, todo, hwt, node, output>>

-----------------------------------------------------------------------------
(* The worker: doOnce() and the periods.                                   *)

\* updateNodeFields() for some calls, each of which adds a step of its own.
NodeUpdate(calls) ==
  node' = [steps |-> node.steps \o [i \in DOMAIN calls |-> step],
           vals  |-> [f \in DOMAIN node.vals |->
                        IF f \in {calls[i] : i \in DOMAIN calls}
                        THEN Append(node.vals[f], step) ELSE node.vals[f]]]

Once ==
  /\ pc = "once" /\ pc' = "idle"
  /\ NodeUpdate(<<"meminfo">>)
  /\ UNCHANGED <<openmp, step, alive, todo, lwp, hwt, output>>

BeginPeriod ==
  /\ pc = "idle" /\ step < MaxStep
  /\ pc' = "scan" /\ step' = step + 1 /\ todo' = alive
  /\ UNCHANGED <<openmp, alive, records, output>>

\* One thread of getpthreads(), the least id that is left of those listed. Of one
\* that has vanished only the counters of its calls are left.
ScanThread(t) ==
  /\ pc = "scan" /\ t \in todo /\ \A u \in todo : t <= u
  /\ todo' = todo \ {t}
  /\ Add(t, IF t \in alive THEN Fields ELSE {"calls"}, Read("scan"), step,
         IF t = Worker THEN ZeroSumType ELSE OtherType)
  /\ UNCHANGED <<openmp, pc, step, alive, hwt, node, output>>

ScanEnds ==
  /\ pc = "scan" /\ todo = {} /\ pc' = "scanned"
  /\ UNCHANGED <<openmp, step, alive, todo, records, output>>

\* The rest of doPeriodic() up to the stop checks.
Metrics ==
  /\ pc = "scanned" /\ pc' = "checks"
  /\ hwt' = Append(hwt, step)
  /\ NodeUpdate(NodeCalls)
  /\ UNCHANGED <<openmp, step, alive, todo, lwp, output>>

-----------------------------------------------------------------------------
(* Output: computeNode.toCSV(cursor), then process.toCSV(cursor).          *)

Max2(a, b) == IF a > b THEN a ELSE b

\* Mutant: the hardware threads do not start where the node started.
Send_Unsaved ==
  LET afterNode == Max2(cursor, Len(node.steps))
      afterHwt  == Max2(afterNode, Len(hwt))
  IN  /\ sent' = sent \o [i \in 1 .. (Len(hwt) - afterNode) |-> afterNode + i]
      /\ cursor' = Max2(afterHwt, Len(lwp[Max(DOMAIN lwp)].steps))

\* Node, hardware threads and GPUs each start at the cursor, and the last of
\* them leaves it behind; the threads all start there, and the one with the
\* greatest id leaves it behind.
Send ==
  LET afterNode == Max2(cursor, Len(hwt))
  IN  /\ sent' = sent \o [i \in 1 .. (Len(hwt) - cursor) |-> cursor + i]
      /\ cursor' = Max2(afterNode, Len(lwp[Max(DOMAIN lwp)].steps))

\* A period without a stop ends; the wait times out, and at times the
\* aggregation period is over too.
NextPeriod ==
  /\ pc = "checks" /\ pc' = "idle"
  /\ UNCHANGED <<openmp, step, alive, todo, records, output>>

Aggregate ==
  /\ pc = "checks" /\ pc' = "idle"
  /\ Send
  /\ UNCHANGED <<openmp, step, alive, todo, records>>

\* finalizeLog(): after the join, between two periods, or because the
\* application is given up, after the scan or at the stop checks.
Finalize ==
  /\ pc \in {"idle", "scanned", "checks"} /\ pc' = "over"
  /\ Send
  /\ UNCHANGED <<openmp, step, alive, todo, records>>

Over == pc = "over" /\ UNCHANGED vars

-----------------------------------------------------------------------------
Application ==
  \/ \E h \in Helpers : Spawn(h) \/ Exit(h)
  \/ \E t \in Tids \ {Worker} : OmpThreadBegin(t)

Periods ==
  \/ Once \/ BeginPeriod \/ (\E t \in Tids : ScanThread(t)) \/ ScanEnds \/ Metrics
  \/ NextPeriod \/ Aggregate \/ Finalize

Next == Application \/ Periods \/ Over

Spec == Init /\ [][Next]_vars

-----------------------------------------------------------------------------
(* Properties.                                                             *)

Value  == {Absent} \cup [at: 0 .. MaxStep, by: {"scan", "ompt"}]
Labels == 0 .. MaxStep \cup {1, ZeroSumType, OpenMPType, OtherType}

\* Every variable stays in its range.
TypeOK ==
  /\ openmp \in BOOLEAN
  /\ pc \in {"once", "idle", "scan", "scanned", "checks", "over"}
  /\ step \in 0 .. MaxStep
  /\ alive \subseteq Tids /\ todo \subseteq Tids
  /\ DOMAIN lwp \subseteq Tids /\ Main \in DOMAIN lwp
  /\ \A t \in DOMAIN lwp :
       /\ lwp[t].steps \in Seq(Labels)
       /\ lwp[t].vals \in [Fields -> Seq(Value)]
  /\ hwt \in Seq(1 .. MaxStep)
  /\ node.steps \in Seq(0 .. MaxStep)
  /\ cursor \in Nat /\ sent \in Seq(Nat)

\* Whatever threads vanish, come back under an old id or announce themselves
\* in the middle of a scan, a row of the CSV output pairs a step with a value
\* of that step: entry i of a field was read at step i, or is a slot for a
\* value the field did not have.  The first entry, labelled with the thread's
\* type, and those of OMPT callbacks are not covered.
RowsMatchSteps ==
  \A t \in DOMAIN lwp, f \in Fields :
    LET h == lwp[t]
    IN  /\ Len(h.vals[f]) <= Len(h.steps)
        /\ \A i \in 2 .. Len(h.vals[f]) :
             \/ h.vals[f][i] = Absent
             \/ h.vals[f][i].by = "ompt"
             \/ h.vals[f][i].at = h.steps[i]

\* The aggregator gets the hardware threads' rows at most once and in order,
\* although one cursor serves histories of different lengths. Unless OpenMP
\* threads make the last history longer than theirs, it gets every row.
HwtSentOnce ==
  /\ \A i, j \in 1 .. Len(sent) : i < j => sent[i] < sent[j]
  /\ ~openmp => \A i \in 1 .. Len(sent) : sent[i] = i
  /\ ~openmp /\ pc = "over" => Len(sent) = Len(hwt)

-----------------------------------------------------------------------------
(* What the documentation promises and the code does not do.               *)

\* ComputeNode::fieldsToCSV: "did this field have a value for this step?" --
\* the value written for a step is the one the field had then.
NodeRowsMatchSteps ==
  \A f \in DOMAIN node.vals : \A i \in 1 .. Len(node.vals[f]) :
    node.vals[f][i] = node.steps[i]

=============================================================================
