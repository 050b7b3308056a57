-------------------------- MODULE DeadlockDetector --------------------------
(***************************************************************************)
(* Automatic deadlock detection: once per period getpthreads() walks       *)
(* /proc/self/task and asks isRunning() of every thread, while those       *)
(* threads go on running, sleeping, exiting and being created.  A scan in  *)
(* which nobody but ZeroSum's own thread runs is counted, and enough of    *)
(* them in a row are reported as a deadlock.                               *)
(*                                                                         *)
(* The detector sees only what /proc shows at the instant it samples a     *)
(* thread.  What the threads really did is kept beside it, in "ran",       *)
(* "calm" and "quiet", which no step of the detector reads.                *)
(***************************************************************************)
EXTENDS Integers

CONSTANTS
  Helpers,    \* ids of the application's threads other than its main thread
  Main,       \* the main thread, whose id is the process id
  Spaced,     \* threads whose name holds a blank
  Duration,   \* ZS_DEADLOCK_DURATION, in periods
  MaxFaults   \* bound on the minor faults of the main thread

Threads == Helpers \cup {Main}

\* A duration of 0 or less reports on the first scan, whatever runs.
ASSUME DetectorAssumption ==
  /\ Main \notin Helpers
  /\ Spaced \subseteq Threads
  /\ Duration \in Nat \ {0}
  /\ MaxFaults \in Nat \ {0}

Unseen == -1

VARIABLES
  alive,      \* the threads /proc/self/task shows, ZeroSum's own apart
  state,      \* the kernel's state of each thread: "R", "S" or "t"
  used,       \* helpers whose utime, counted since they began, is not 0
  faults,     \* minflt of the main thread, which only grows
  prior,      \* isRunning's priorMinflt of the main thread
  scanning,   \* is a scan under way?
  todo,       \* the directory entries it has still to visit
  others,     \* has it counted a thread besides ZeroSum's own? (running > 1)
  counter,    \* deadlock_detected_seconds
  reported,   \* "Deadlock detected! Aborting!"
  ran,        \* truth: threads that progressed since they were last sampled
  saw,        \* truth: a sign of progress was there to be seen in this scan
  calm,       \* truth: scans in a row without one, up to Duration
  quiet       \* truth: scans in a row during which no thread did anything

procfs   == <<alive, state, used, faults>>
detector == <<prior, scanning, todo, others, counter, reported>>
truth    == <<ran, saw, calm, quiet>>
vars     == <<procfs, detector, truth>>

Min2(a, b) == IF a < b THEN a ELSE b

Init ==
  /\ alive = {Main}
  /\ state = [t \in Threads |-> "R"]
  /\ used = {} /\ faults = 1
  /\ prior = Unseen
  /\ scanning = FALSE /\ todo = {} /\ others = FALSE
  /\ counter = 0 /\ reported = FALSE
  /\ ran = {} /\ saw = FALSE /\ calm = 0 /\ quiet = 0

-----------------------------------------------------------------------------
(* The application, at any time and in the middle of a scan too.           *)

\* Something happened: the present scan, if any, is not quiet, nor are the
\* ones before it.
Disturb == quiet' = IF scanning THEN -1 ELSE 0

\* t does some work: a helper is charged for it, the main thread touches a new
\* page.  (Busy waiting is staying in "R" without this step.)
Run(t) ==
  /\ t \in alive /\ state[t] = "R"
  /\ IF t = Main
     THEN /\ faults < MaxFaults
          /\ faults' = faults + 1 /\ UNCHANGED used
     ELSE used' = used \cup {t} /\ UNCHANGED faults
  /\ ran' = ran \cup {t}
  /\ Disturb
  /\ UNCHANGED <<alive, state, detector, saw, calm>>

\* t blocks, is woken up, or is stopped by a tracer.
Switch(t) ==
  /\ t \in alive
  /\ \E s \in {"R", "S", "t"} \ {state[t]} : state' = [state EXCEPT ![t] = s]
  /\ Disturb
  /\ UNCHANGED <<alive, used, faults, detector, ran, saw, calm>>

\* A helper begins, perhaps with the id of an earlier one; a scan under way may
\* still meet it.
Spawn(h) ==
  /\ h \in Helpers \ alive
  /\ alive' = alive \cup {h}
  /\ state' = [state EXCEPT ![h] = "R"]
  /\ used' = used \ {h} /\ ran' = ran \ {h}
  /\ \/ UNCHANGED todo
     \/ scanning /\ todo' = todo \cup {h}
  /\ Disturb
  /\ UNCHANGED <<faults, prior, scanning, others, counter, reported, saw, calm>>

\* A helper ends; its directory entry may have been read already.
Exit(h) ==
  /\ h \in Helpers \cap alive
  /\ alive' = alive \ {h}
  /\ ran' = ran \ {h}
  /\ Disturb
  /\ UNCHANGED <<state, used, faults, detector, saw, calm>>

-----------------------------------------------------------------------------
(* The detector.                                                           *)

\* The stat line is split at blanks, so one in the thread's name moves every
\* field: the state is then a piece of the name, and utime the count of major
\* faults of waited-for children, 0 as a rule.
Shows(t, s) == t \notin Spaced /\ state[t] = s

\* Mutant: cumulative CPU time is not looked at.
IsRunning_StateOnly(t) ==
  /\ t \in alive
  /\ \/ Shows(t, "R") /\ (t # Main \/ prior = Unseen \/ ~(faults = 0 \/ prior = faults))
     \/ Shows(t, "t")

\* isRunning(): a vanished thread has no fields and does not run.  A helper
\* that says "R" runs, the main thread only if this is its first sample in "R"
\* or minflt has changed since the last one; "t" counts as running; a helper
\* with any CPU time at all counts as running.
IsRunning(t) ==
  /\ t \in alive
  /\ \/ Shows(t, "R") /\ (t # Main \/ prior = Unseen \/ ~(faults = 0 \/ prior = faults))
     \/ Shows(t, "t")
     \/ t # Main /\ t \notin Spaced /\ t \in used

\* Mutant: the first value is kept.
NextPrior_First(t) ==
  IF t = Main /\ t \in alive /\ Shows(t, "R") /\ prior = Unseen THEN faults ELSE prior

\* Every sample of the main thread in "R" saves its minflt.
NextPrior(t) == IF t = Main /\ t \in alive /\ Shows(t, "R") THEN faults ELSE prior

\* A sign of progress of t that a sample taken now could see: a helper that has
\* worked since its last sample or works now, a main thread that works now and
\* did something since, or a traced thread.
Progress(t) ==
  /\ t \in alive
  /\ \/ state[t] = "t"
     \/ t # Main /\ (t \in ran \/ state[t] = "R")
     \/ t = Main /\ t \in ran /\ state[t] = "R"

StartScan ==
  /\ ~scanning /\ ~reported
  /\ scanning' = TRUE /\ todo' = alive /\ others' = FALSE
  /\ saw' = FALSE
  /\ UNCHANGED <<procfs, prior, counter, reported, ran, calm, quiet>>

\* The stat file of a thread that ends after it was opened has no line: what is
\* read past the end of its fields can pass for CPU time (or crash the process).
Unread(t) == {FALSE} \cup (IF t \in alive THEN {} ELSE {TRUE})

Sample(t) ==
  /\ scanning /\ t \in todo
  /\ todo' = todo \ {t}
  /\ \E garbage \in Unread(t) : others' = (others \/ IsRunning(t) \/ garbage)
  /\ prior' = NextPrior(t)
  /\ ran' = ran \ {t}
  /\ saw' = (saw \/ Progress(t))
  /\ UNCHANGED <<procfs, scanning, counter, reported, calm, quiet>>

\* What is true of the scan that ends.
Account ==
  /\ calm' = IF saw THEN 0 ELSE Min2(calm + 1, Duration)
  /\ quiet' = Min2(quiet + 1, Duration + 1)

\* Mutant: the report comes one scan late.
EndScan_Late ==
  /\ scanning /\ todo = {}
  /\ scanning' = FALSE
  /\ counter' = IF others THEN 0 ELSE counter + 1
  /\ reported' = IF counter' > Duration THEN TRUE ELSE reported
  /\ Account
  /\ UNCHANGED <<procfs, prior, todo, others, ran, saw>>

\* The end of getpthreads().  finalizeLog() and the kill follow a report.
EndScan ==
  /\ scanning /\ todo = {}
  /\ scanning' = FALSE
  /\ counter' = IF others THEN 0 ELSE counter + 1
  /\ reported' = IF counter' >= Duration THEN TRUE ELSE reported
  /\ Account
  /\ UNCHANGED <<procfs, prior, todo, others, ran, saw>>

-----------------------------------------------------------------------------
Application ==
  \/ \E t \in Threads : Run(t) \/ Switch(t)
  \/ \E h \in Helpers : Spawn(h) \/ Exit(h)

Detector == StartScan \/ (\E t \in Threads : Sample(t)) \/ EndScan

Next == Application \/ Detector

Spec == Init /\ [][Next]_vars

-----------------------------------------------------------------------------
(* Properties.                                                             *)

\* Every variable stays in its range; the counter never passes the duration,
\* at which the report ends the scans, and main is always there.
TypeOK ==
  /\ alive \subseteq Threads /\ Main \in alive
  /\ state \in [Threads -> {"R", "S", "t"}]
  /\ used \subseteq Helpers
  /\ faults \in 1..MaxFaults /\ prior \in {Unseen} \cup (1..MaxFaults)
  /\ scanning \in BOOLEAN /\ todo \subseteq Threads /\ others \in BOOLEAN
  /\ counter \in 0..Duration /\ reported \in BOOLEAN
  /\ ran \subseteq Threads /\ saw \in BOOLEAN
  /\ calm \in 0..Duration /\ quiet \in -1..(Duration + 1)

\* No false report: when the detector aborts the application, each of the last
\* Duration scans came and went without any thread giving a sign of progress
\* that it could have seen.  Threads that start, end, wake or work between or
\* during samples, and an old value of minflt, never hide such a sign.  (Holds
\* for threads without a blank in their names, NoFalseReportAnyName.)
NoFalseReport == Spaced = {} /\ reported => calm = Duration

\* A deadlock is found: if no thread does anything for Duration + 1 scans, the
\* helpers asleep without any CPU time and main asleep or busy waiting, the
\* report has been made.  The one more scan is for an old value of minflt.
Stuck ==
  /\ state[Main] # "t"
  /\ \A h \in Helpers \cap alive : state[h] = "S" /\ h \notin used

StuckReported == quiet > Duration /\ Stuck => reported

-----------------------------------------------------------------------------
(* What the documentation promises and the code does not do.               *)

\* StuckReported for helpers that did work earlier on: a comment of isRunning()
\* says "if it occupied the CPU some time in the last period".
StuckReportedAsDocumented ==
  quiet > Duration /\ (\A t \in alive : state[t] = "S") => reported

\* NoFalseReport whatever the threads are called: getThreadStat() says that it
\* parses the fields as proc(5) defines them.
NoFalseReportAnyName == reported => calm = Duration

=============================================================================
