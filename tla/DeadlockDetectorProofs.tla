----------------------- MODULE DeadlockDetectorProofs -----------------------
(***************************************************************************)
(* The detector makes no false report and misses no deadlock, for any set  *)
(* of helpers and any duration.                                            *)
(***************************************************************************)
EXTENDS DeadlockDetector, TLAPS

-----------------------------------------------------------------------------
(* Type correctness, with what it needs: no scan goes on after a report.   *)

CounterBound ==
  /\ reported <=> counter >= Duration
  /\ scanning => ~reported

TInv == TypeOK /\ CounterBound

\* The initial state is well typed.
LEMMA TypeInit == Init => TInv
<1> SUFFICES ASSUME Init PROVE TInv
  OBVIOUS
<1> USE DetectorAssumption DEF DetectorAssumption, Init
<1>1. state \in [Threads -> {"R", "S", "t"}]
  OBVIOUS
<1>2. alive \subseteq Threads /\ Main \in alive /\ todo \subseteq Threads /\ ran \subseteq Threads
  BY DEF Threads
<1>3. faults \in 1..MaxFaults /\ prior \in {Unseen} \cup (1..MaxFaults)
  OBVIOUS
<1>4. counter \in 0..Duration /\ calm \in 0..Duration /\ quiet \in -1..(Duration + 1)
  OBVIOUS
<1>5. ~(counter >= Duration)
  OBVIOUS
<1> QED
  BY <1>1, <1>2, <1>3, <1>4, <1>5, Zenon DEF TInv, TypeOK, CounterBound

\* Whatever the application does keeps the types.
LEMMA TypeApplication ==
  ASSUME TInv, Application
  PROVE  TInv'
<1> USE DetectorAssumption DEF DetectorAssumption, TInv, TypeOK, CounterBound, Disturb, detector, Threads
<1>1. ASSUME NEW t \in Threads, Run(t) PROVE TInv'
  BY <1>1, SMTT(30) DEF Run
<1>2. ASSUME NEW t \in Threads, Switch(t) PROVE TInv'
  BY <1>2, SMTT(30) DEF Switch
<1>3. ASSUME NEW h \in Helpers, Spawn(h) PROVE TInv'
  BY <1>3, SMTT(30) DEF Spawn
<1>4. ASSUME NEW h \in Helpers, Exit(h) PROVE TInv'
  BY <1>4, SMTT(30) DEF Exit
<1> QED
  BY <1>1, <1>2, <1>3, <1>4 DEF Application

\* Every step of the detector keeps them.
LEMMA TypeDetector ==
  ASSUME TInv, Detector
  PROVE  TInv'
<1> USE DetectorAssumption DEF DetectorAssumption, TInv, TypeOK, CounterBound, procfs, Threads
<1>1. CASE StartScan
  <2>1. scanning' = TRUE /\ others' = FALSE /\ saw' = FALSE /\ todo' = alive /\ ~reported
    BY <1>1 DEF StartScan
  <2>2. UNCHANGED <<alive, state, used, faults, prior, counter, reported, ran, calm, quiet>>
    BY <1>1 DEF StartScan
  <2> QED
    BY <2>1, <2>2
<1>2. ASSUME NEW t \in Threads, Sample(t) PROVE TInv'
  <2>1. prior' \in {Unseen} \cup (1..MaxFaults)
    BY <1>2 DEF Sample, NextPrior
  <2>2. others' \in BOOLEAN /\ saw' \in BOOLEAN
    BY <1>2, Zenon DEF Sample
  <2> QED
    BY <1>2, <2>1, <2>2, SMTT(30) DEF Sample
<1>3. CASE EndScan
  <2>1. /\ counter' \in 0..Duration
        /\ calm' \in 0..Duration /\ quiet' \in -1..(Duration + 1)
    BY <1>3, SMTT(30) DEF EndScan, Account, Min2
  <2>2. scanning' = FALSE /\ (reported' <=> counter' >= Duration) /\ reported' \in BOOLEAN
    BY <1>3 DEF EndScan
  <2>3. UNCHANGED <<alive, state, used, faults, prior, todo, others, ran, saw>>
    BY <1>3 DEF EndScan
  <2> QED
    BY <2>1, <2>2, <2>3
<1> QED
  BY <1>1, <1>2, <1>3 DEF Detector

\* The types and the bound on the counter hold throughout.
THEOREM TInvHolds == Spec => []TInv
<1>1. TInv /\ [Next]_vars => TInv'
  <2>1. ASSUME TInv, UNCHANGED vars PROVE TInv'
    BY <2>1 DEF TInv, TypeOK, CounterBound, vars, procfs, detector, truth
  <2> QED
    BY <2>1, TypeApplication, TypeDetector DEF Next
<1> QED
  BY TypeInit, <1>1, PTL DEF Spec

\* TypeOK: every variable of the detector and of its surroundings keeps its
\* range, the counter never passes the duration.
THEOREM TypeCorrect == Spec => []TypeOK
<1>1. TInv => TypeOK
  BY DEF TInv
<1> QED
  BY <1>1, TInvHolds, PTL

-----------------------------------------------------------------------------
(* No false report.                                                        *)

\* What is there to be seen is seen: a helper that ran since its last sample
\* has CPU time, and a main thread that did has faulted since minflt was saved.
\* So a scan that missed a sign of progress has nonetheless counted a thread,
\* and the counter stays behind the number of calm scans.
PriorNotAhead == prior <= faults
RanShows ==
  /\ ran \cap Helpers \subseteq used
  /\ Main \in ran => prior < faults
SawCounts == saw => others
CounterBehind == counter <= calm

FInv == PriorNotAhead /\ RanShows /\ SawCounts /\ CounterBehind

\* A thread whose progress a sample could see is counted as running.
LEMMA ProgressRuns ==
  ASSUME TypeOK, FInv, Spaced = {}, NEW t \in Threads, Progress(t)
  PROVE  IsRunning(t)
BY SMTT(30) DEF TypeOK, FInv, PriorNotAhead, RanShows, Progress, IsRunning, Shows,
  Threads, Unseen

\* FInv holds at first.
LEMMA FInit == Init => FInv
BY SMTT(30) DEF Init, FInv, PriorNotAhead, RanShows, SawCounts, CounterBehind, Unseen

\* The application keeps FInv.
LEMMA FApplication ==
  ASSUME TInv, FInv, Application
  PROVE  FInv'
<1> USE DetectorAssumption DEF DetectorAssumption, TInv, TypeOK, FInv, PriorNotAhead,
      RanShows, SawCounts, CounterBehind, detector, Threads, Unseen
<1>1. ASSUME NEW t \in Threads, Run(t) PROVE FInv'
  BY <1>1, SMTT(30) DEF Run
<1>2. ASSUME NEW t \in Threads, Switch(t) PROVE FInv'
  BY <1>2, SMTT(30) DEF Switch
<1>3. ASSUME NEW h \in Helpers, Spawn(h) PROVE FInv'
  BY <1>3, SMTT(30) DEF Spawn
<1>4. ASSUME NEW h \in Helpers, Exit(h) PROVE FInv'
  BY <1>4, SMTT(30) DEF Exit
<1> QED
  BY <1>1, <1>2, <1>3, <1>4 DEF Application

\* The detector keeps FInv.
LEMMA FDetector ==
  ASSUME TInv, FInv, Spaced = {}, Detector
  PROVE  FInv'
<1> USE DEF FInv
<1>1. CASE StartScan
  BY <1>1 DEF StartScan, procfs, PriorNotAhead, RanShows, SawCounts, CounterBehind
<1>2. ASSUME NEW t \in Threads, Sample(t) PROVE FInv'
  <2>1. UNCHANGED <<used, faults, counter, calm>> /\ ran' = ran \ {t}
    BY <1>2 DEF Sample, procfs
  <2>2. prior' = prior \/ (t = Main /\ prior' = faults)
    BY <1>2 DEF Sample, NextPrior
  <2>3. PriorNotAhead' /\ CounterBehind'
    BY <2>1, <2>2 DEF PriorNotAhead, CounterBehind, TInv, TypeOK, Unseen
  <2>4. RanShows'
    BY <2>1, <2>2 DEF RanShows
  <2>5. SawCounts'
    BY <1>2, ProgressRuns DEF Sample, SawCounts, TInv
  <2> QED
    BY <2>3, <2>4, <2>5
<1>3. CASE EndScan
  <2>1. UNCHANGED <<used, faults, prior, others, ran, saw>>
    BY <1>3 DEF EndScan, procfs
  <2>2. CounterBehind'
    BY <1>3, DetectorAssumption
    DEF DetectorAssumption, EndScan, Account, Min2, CounterBehind, SawCounts, TInv,
        TypeOK, CounterBound
  <2> QED
    BY <2>1, <2>2 DEF PriorNotAhead, RanShows, SawCounts
<1> QED
  BY <1>1, <1>2, <1>3 DEF Detector

\* NoFalseReport: a report means Duration scans without a sign of progress,
\* whatever the threads do while they are sampled.
THEOREM NoFalseReportHolds == Spec => []NoFalseReport
<1>1. CASE Spaced = {}
  <2>1. TInv /\ FInv /\ [Next]_vars => FInv'
    <3>1. ASSUME FInv, UNCHANGED vars PROVE FInv'
      BY <3>1 DEF FInv, PriorNotAhead, RanShows, SawCounts, CounterBehind, vars, procfs,
        detector, truth
    <3> QED
      BY <1>1, <3>1, FApplication, FDetector DEF Next
  <2>2. TInv /\ FInv => NoFalseReport
    BY DetectorAssumption DEF DetectorAssumption, TInv, TypeOK, CounterBound, FInv,
      CounterBehind, NoFalseReport
  <2> QED
    BY <2>1, <2>2, FInit, TInvHolds, PTL DEF Spec
<1>2. CASE Spaced # {}
  <2>1. NoFalseReport
    BY <1>2 DEF NoFalseReport
  <2> QED
    BY <2>1, PTL
<1> QED
  BY <1>1, <1>2, Zenon

-----------------------------------------------------------------------------
(* No missed deadlock.                                                     *)

\* While nobody does anything: minflt of a busy main thread has been saved once
\* main has been sampled, from the second quiet scan on nobody is counted, and
\* the counter lags one behind the quiet scans at most.
PriorSaved ==
  Main \notin Spaced /\ state[Main] = "R"
    /\ (quiet >= 1 \/ (scanning /\ quiet >= 0 /\ Main \notin todo))
  => prior = faults
NobodyCounted == quiet >= 1 /\ Stuck /\ scanning => ~others
CounterKeepsUp == quiet >= 1 /\ Stuck => counter >= quiet - 1
ScanListsLiving ==
  /\ ~scanning => todo = {}
  /\ scanning /\ quiet >= 0 => todo \subseteq alive

QInv == PriorSaved /\ NobodyCounted /\ CounterKeepsUp /\ ScanListsLiving

\* QInv holds at first.
LEMMA QInit == Init => QInv
BY DEF Init, QInv, PriorSaved, NobodyCounted, CounterKeepsUp, ScanListsLiving

\* After a step of the application no scan is quiet: QInv holds.
LEMMA QApplication ==
  ASSUME TInv, QInv, Application
  PROVE  QInv'
<1>1. /\ quiet' = IF scanning THEN -1 ELSE 0
      /\ scanning' = scanning
      /\ ~scanning => UNCHANGED todo
  BY DEF Application, Run, Switch, Spawn, Exit, Disturb, detector
<1> QED
  BY <1>1 DEF QInv, PriorSaved, NobodyCounted, CounterKeepsUp, ScanListsLiving

\* The detector keeps QInv.
LEMMA QDetector ==
  ASSUME TInv, QInv, Detector
  PROVE  QInv'
<1> USE DEF QInv
<1>1. CASE StartScan
  <2>1. /\ UNCHANGED <<procfs, prior, counter, quiet>>
        /\ scanning' /\ todo' = alive /\ ~others'
    BY <1>1 DEF StartScan
  <2> QED
    BY <2>1 DEF PriorSaved, NobodyCounted, CounterKeepsUp, ScanListsLiving, Stuck, procfs,
      TInv, TypeOK
<1>2. ASSUME NEW t \in Threads, Sample(t) PROVE QInv'
  <2> USE <1>2 DEF Sample, procfs
  <2>1. PriorSaved'
    BY DEF PriorSaved, NextPrior, Shows, TInv, TypeOK
  <2>2. NobodyCounted'
    <3> SUFFICES ASSUME quiet >= 1, Stuck, scanning PROVE ~IsRunning(t)
      <4>1. quiet >= 1 => t \in alive
        BY DEF ScanListsLiving, TInv, TypeOK
      <4>2. quiet >= 1 => Unread(t) = {FALSE}
        BY <4>1, Zenon DEF Unread
      <4> QED
        BY <4>2 DEF NobodyCounted, Stuck
    <3>1. CASE t = Main
      BY <3>1 DEF IsRunning, Shows, PriorSaved, Stuck, TInv, TypeOK, Unseen
    <3>2. CASE t # Main
      BY <3>2 DEF IsRunning, Shows, Stuck, Threads
    <3> QED
      BY <3>1, <3>2
  <2>3. CounterKeepsUp' /\ ScanListsLiving'
    BY DEF CounterKeepsUp, ScanListsLiving, Stuck
  <2> QED
    BY <2>1, <2>2, <2>3
<1>3. CASE EndScan
  <2>1. /\ UNCHANGED <<procfs, prior, todo, others>>
        /\ scanning /\ todo = {} /\ ~scanning'
        /\ counter' = IF others THEN 0 ELSE counter + 1
        /\ quiet' = Min2(quiet + 1, Duration + 1)
    BY <1>3 DEF EndScan, Account
  <2>2. quiet' <= quiet + 1 /\ quiet' \in Int /\ quiet \in Int
    BY <2>1, DetectorAssumption DEF DetectorAssumption, Min2, TInv, TypeOK
  <2>3. PriorSaved'
    BY <2>1, <2>2 DEF PriorSaved, procfs
  <2>4. CounterKeepsUp'
    BY <2>1, <2>2 DEF CounterKeepsUp, NobodyCounted, Stuck, procfs, TInv, TypeOK
  <2> QED
    BY <2>1, <2>3, <2>4 DEF NobodyCounted, ScanListsLiving
<1> QED
  BY <1>1, <1>2, <1>3 DEF Detector

\* StuckReported: an application in which nobody does anything for Duration + 1
\* scans, with helpers that never used the CPU, has been reported.
THEOREM StuckReportedHolds == Spec => []StuckReported
<1>1. TInv /\ QInv /\ [Next]_vars => QInv'
  <2>1. ASSUME QInv, UNCHANGED vars PROVE QInv'
    BY <2>1 DEF QInv, PriorSaved, NobodyCounted, CounterKeepsUp, ScanListsLiving, Stuck,
      vars, procfs, detector, truth
  <2> QED
    BY <2>1, QApplication, QDetector DEF Next
<1>2. TInv /\ QInv => StuckReported
  BY DetectorAssumption DEF DetectorAssumption, TInv, TypeOK, CounterBound, QInv,
    CounterKeepsUp, StuckReported
<1> QED
  BY <1>1, <1>2, QInit, TInvHolds, PTL DEF Spec

=============================================================================
