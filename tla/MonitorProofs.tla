---------------------------- MODULE MonitorProofs ----------------------------
(***************************************************************************)
(* How late the worker can get, what becomes of each row, and that an      *)
(* aggregator sees a feed: for every period, every length of every piece   *)
(* of work, and aggregators that come and go.                              *)
(***************************************************************************)
EXTENDS Monitor, FiniteSetTheorems, SequenceTheorems, TLAPS

-----------------------------------------------------------------------------
(* The invariant of the clock.                                             *)

Waits == {"once", "sample", "wait", "farewell"}

ClockTyped ==
  /\ clock \in Nat /\ prev \in Nat /\ then \in Nat /\ step \in Nat /\ began \in Nat
  /\ work \in Nat /\ excess \in Nat /\ due \in Nat /\ stop \in Int

\* The clock never falls behind the period. Until the wait, the time to wait still
\* leads from the top of the iteration to the end of the period.
Lag ==
  /\ prev <= clock
  /\ phase = "top" => work = 0 /\ clock - prev <= Period + excess
  /\ phase \in Waits => /\ then = prev + Period /\ then = clock - work + stop
                        /\ clock - work - prev <= Period + excess
  /\ phase \in {"after", "send"} => clock - prev <= work + excess

\* Periods that are over, when the next sample begins or when one has begun.
Begun == IF phase \in {"wait", "farewell", "left"} THEN step - 1 ELSE step
Early == NeverEarly /\ Begun * Period <= prev

\* The next batch is not due before the period begins.
DueLater ==
  aggregating => /\ phase \in Waits \cup {"top", "send"} => prev <= due
                 /\ phase = "after" => prev <= due + Period

ClockInv == ClockTyped /\ Lag /\ Early /\ DueLater

LEMMA AtLeast0Nat ==
  ASSUME NEW n \in Int
  PROVE  AtLeast0(n) \in Nat /\ AtLeast0(n) >= n
BY DEF AtLeast0

\* A period more.
LEMMA OneMore == ASSUME NEW n \in Int PROVE (n + 1) * Period = n * Period + Period
BY CadenceAssumption

LEMMA ClockInit == Init => ClockInv
<1> SUFFICES ASSUME Init PROVE ClockInv
  OBVIOUS
<1>1. 0 * Period = 0
  BY CadenceAssumption
<1> QED
  BY <1>1, CadenceAssumption, MonitorAssumption
     DEF Init, CadenceInit, AggregationInit, ClockInv, ClockTyped, Lag, Early, NeverEarly, Begun,
         DueLater, Waits

\* The iteration begins: the wait is computed.
LEMMA ClockIterate == ClockInv /\ Iterate => ClockInv'
BY CadenceAssumption, MonitorAssumption
   DEF Iterate, Top, control, ClockInv, ClockTyped, Lag, Early, NeverEarly, Begun, DueLater, Waits

\* Work before the wait: the clock and the work grow together.
LEMMA ClockInitialize == ClockInv /\ Initialize => ClockInv'
BY CadenceAssumption, MonitorAssumption
   DEF Initialize, Once, Spend, control, ClockInv, ClockTyped, Lag, Early, NeverEarly, Begun,
       DueLater, Waits

\* A sample begins after the periods before it.
LEMMA ClockSample == ClockInv /\ SampleStep => ClockInv'
<1> SUFFICES ASSUME ClockInv, SampleStep PROVE ClockInv'
  OBVIOUS
<1> USE DEF SampleStep, Begin, Sampled, Spend, control
<1>1. PICK d \in Nat : clock' = clock + d /\ work' = work + d
  BY MonitorAssumption
<1>2. /\ phase = "sample" /\ phase' = "wait" /\ step' = step + 1 /\ began' = clock
      /\ UNCHANGED <<prev, then, stop, excess, due, aggregating>>
  OBVIOUS
<1> HIDE DEF SampleStep, Begin, Sampled
<1>3. Begun = step /\ Begun' = step
  BY <1>2 DEF Begun, ClockInv, ClockTyped
<1>4. Early'
  BY <1>2, <1>3, CadenceAssumption DEF Early, NeverEarly, Lag, ClockInv, ClockTyped
<1> QED
  BY <1>1, <1>2, <1>4, CadenceAssumption DEF ClockInv, ClockTyped, Lag, DueLater, Waits

\* So does the farewell after a sample.
LEMMA ClockFarewell == ClockInv /\ FarewellStep => ClockInv'
<1> SUFFICES ASSUME ClockInv, FarewellStep PROVE ClockInv'
  OBVIOUS
<1>1. PICK d \in Nat : clock' = clock + d /\ work' = work + d
  BY MonitorAssumption DEF FarewellStep, Spend
<1>2. /\ phase = "sample" /\ phase' = "farewell" /\ step' = step + 1 /\ began' = clock
      /\ UNCHANGED <<prev, then, stop, excess, due, aggregating>>
  BY DEF FarewellStep, Begin, control
<1>3. Begun = step /\ Begun' = step
  BY <1>2 DEF Begun, ClockInv, ClockTyped
<1>4. Early'
  BY <1>2, <1>3, CadenceAssumption DEF Early, NeverEarly, Lag, ClockInv, ClockTyped
<1> QED
  BY <1>1, <1>2, <1>4, CadenceAssumption DEF ClockInv, ClockTyped, Lag, DueLater, Waits

\* The send of a farewell is work before the wait, too.
LEMMA ClockAfterFarewell == ClockInv /\ AfterFarewell => ClockInv'
<1> SUFFICES ASSUME ClockInv, AfterFarewell PROVE ClockInv'
  OBVIOUS
<1>1. PICK d \in Nat : clock' = clock + d /\ work' = work + d
  BY MonitorAssumption DEF AfterFarewell, Spend
<1>2. /\ phase = "farewell" /\ phase' \in {"farewell", "wait"}
      /\ UNCHANGED <<prev, then, stop, step, began, excess, due, aggregating>>
  BY DEF AfterFarewell
<1>3. Begun = step - 1 /\ Begun' = step - 1
  BY <1>2 DEF Begun, ClockInv, ClockTyped
<1>4. Early'
  BY <1>2, <1>3, CadenceAssumption DEF Early, NeverEarly, ClockInv, ClockTyped
<1> QED
  BY <1>1, <1>2, <1>4, CadenceAssumption DEF ClockInv, ClockTyped, Lag, DueLater, Waits

\* Giving up takes no time.
LEMMA ClockQuiet == ClockInv /\ (Leave \/ Uninitialized) => ClockInv'
<1> SUFFICES ASSUME ClockInv, Leave \/ Uninitialized PROVE ClockInv'
  OBVIOUS
<1>1. UNCHANGED <<clock, prev, then, stop, step, began, work, excess, due, aggregating>>
  BY DEF Leave, Uninitialized, control
<1>2. \/ phase \in {"top", "wait"} /\ phase' = "left"
      \/ phase = "once" /\ phase' = "wait"
  BY DEF Leave, Uninitialized
<1>3. Begun' = Begun \/ Begun' = Begun - 1
  BY <1>1, <1>2 DEF Begun, ClockInv, ClockTyped
<1>4. (Begun - 1) * Period <= Begun * Period
  BY CadenceAssumption DEF Begun, ClockInv, ClockTyped
<1>5. Begun \in Int /\ Begun * Period \in Int /\ (Begun - 1) * Period \in Int
  BY CadenceAssumption DEF Begun, ClockInv, ClockTyped
<1>6. Begun' * Period <= prev
  BY <1>3, <1>4, <1>5 DEF ClockInv, ClockTyped, Early
<1>7. Early'
  BY <1>1, <1>6 DEF Early, NeverEarly, ClockInv
<1> QED
  BY <1>1, <1>2, <1>7 DEF ClockInv, ClockTyped, Lag, DueLater, Waits

\* The wait ends when the period does, or later.
LEMMA ClockWake == ClockInv /\ TimeOut => ClockInv'
<1> SUFFICES ASSUME ClockInv, TimeOut PROVE ClockInv'
  OBVIOUS
<1>1. PICK late \in {0, 1} : Wake(late)
  BY DEF TimeOut
<1>2. AtLeast0(stop) \in Nat /\ (AtLeast0(stop) = stop \/ AtLeast0(stop) = 0) /\ AtLeast0(stop) >= stop
  BY DEF AtLeast0, ClockInv, ClockTyped
<1>3. /\ phase = "wait" /\ phase' = "after" /\ prev' = then
      /\ clock' = clock + AtLeast0(stop) + late /\ work' = work + late
      /\ UNCHANGED <<then, stop, step, began, excess, due, aggregating>>
  BY <1>1 DEF Wake, TimeOut, control
<1>4. ClockTyped'
  BY <1>2, <1>3 DEF ClockInv, ClockTyped
<1>5. Lag'
  <2>1. /\ then = prev + Period /\ then = clock - work + stop
        /\ clock - work - prev <= Period + excess
    BY <1>3 DEF ClockInv, Lag, Waits
  <2>2. then <= clock + AtLeast0(stop) + late
    BY <1>2, <2>1, CadenceAssumption DEF ClockInv, ClockTyped
  <2>3. clock + AtLeast0(stop) + late - then <= work + late + excess
    BY <1>2, <2>1, CadenceAssumption DEF ClockInv, ClockTyped
  <2>4. prev' <= clock'
    BY <1>3, <2>2
  <2>5. clock' - prev' <= work' + excess'
    BY <1>2, <1>3, <2>3 DEF ClockInv, ClockTyped
  <2>6. phase' # "top" /\ phase' \notin Waits
    BY <1>3 DEF Waits
  <2> QED
    BY <2>4, <2>5, <2>6 DEF Lag
<1>6. DueLater'
  BY <1>3, CadenceAssumption DEF ClockInv, ClockTyped, Lag, DueLater, Waits
<1>7. step * Period <= prev + Period
  <2>1. step * Period = (step - 1) * Period + Period
    BY OneMore DEF ClockInv, ClockTyped
  <2>2. (step - 1) * Period \in Int
    BY CadenceAssumption DEF ClockInv, ClockTyped
  <2> QED
    BY <1>3, <2>1, <2>2, CadenceAssumption DEF ClockInv, ClockTyped, Early, Begun
<1>8. Early'
  BY <1>3, <1>7, CadenceAssumption DEF ClockInv, ClockTyped, Lag, Early, NeverEarly, Begun, Waits
<1> QED
  BY <1>4, <1>5, <1>6, <1>8 DEF ClockInv

\* The iteration ends: what it took above a period is added to the excess.
LEMMA ClockFinish ==
  ASSUME ClockInv, phase \in {"after", "send"}, NEW d \in Nat,
         clock' = clock + d, excess' = excess + AtLeast0(work + d - Period),
         work' = 0, phase' = "top", due' \in Nat,
         aggregating => prev <= due', UNCHANGED <<prev, then, stop, step, began, aggregating>>
  PROVE  ClockInv'
<1>1. AtLeast0(work + d - Period) \in Nat /\ AtLeast0(work + d - Period) >= work + d - Period
  BY AtLeast0Nat, CadenceAssumption DEF ClockInv, ClockTyped
<1>2. ClockTyped'
  BY <1>1 DEF ClockInv, ClockTyped
<1>3. Lag'
  BY <1>1, CadenceAssumption DEF ClockInv, ClockTyped, Lag, Waits
<1>4. Early'
  BY DEF ClockInv, Early, NeverEarly, Begun
<1>5. DueLater'
  BY DEF DueLater, Waits
<1> QED
  BY <1>2, <1>3, <1>4, <1>5 DEF ClockInv

LEMMA ClockNotDue == ClockInv /\ NotDue => ClockInv'
<1> SUFFICES ASSUME ClockInv, NotDue PROVE ClockInv'
  OBVIOUS
<1>1. aggregating => prev <= due
  BY DEF NotDue, Due, ClockInv, ClockTyped, Lag
<1> QED
  BY <1>1, ClockFinish DEF NotDue, Finish, control, ClockInv, ClockTyped

LEMMA ClockBatchEnds == ClockInv /\ BatchEnds => ClockInv'
<1> SUFFICES ASSUME ClockInv, BatchEnds PROVE ClockInv'
  OBVIOUS
<1>1. PICK d \in Nat : clock' = clock + d /\ excess' = excess + AtLeast0(work + d - Period)
  BY MonitorAssumption DEF BatchEnds
<1>2. aggregating => prev <= due
  BY DEF BatchEnds, ClockInv, DueLater
<1> QED
  BY <1>1, <1>2, ClockFinish DEF BatchEnds, control, ClockInv, ClockTyped

\* The next batch is due a period of batches later, which is a period at least.
LEMMA ClockSendBatch == ClockInv /\ SendBatch => ClockInv'
BY MonitorAssumption, CadenceAssumption
   DEF SendBatch, Due, Later, ClockInv, ClockTyped, Lag, Early, NeverEarly, Begun, DueLater, Waits

LEMMA ClockStep == ClockInv /\ [Next]_vars => ClockInv'
<1> SUFFICES ASSUME ClockInv, [Next]_vars PROVE ClockInv'
  OBVIOUS
<1>1. ASSUME UNCHANGED <<cadence, aggregating, due>> PROVE ClockInv'
  BY <1>1 DEF cadence, ClockInv, ClockTyped, Lag, Early, NeverEarly, Begun, DueLater
<1>2. CASE Worker
  BY <1>2, ClockIterate, ClockInitialize, ClockSample, ClockFarewell, ClockAfterFarewell,
     ClockQuiet, ClockWake,
     ClockNotDue, ClockBatchEnds, ClockSendBatch DEF Worker
<1>3. CASE SendFindsPeer \/ Main \/ CreateStopFile \/ Aggregator
  BY <1>1, <1>3 DEF SendFindsPeer, Main, Shutdown, Joined, Farewelled, CreateStopFile, Aggregator,
                    control
<1>4. CASE Ended \/ UNCHANGED vars
  BY <1>1, <1>4 DEF Ended, vars, control
<1> QED
  BY <1>2, <1>3, <1>4 DEF Next

LEMMA ClockInvariant == Spec => []ClockInv
BY ClockInit, ClockStep, PTL DEF Spec

\* No sample begins before its period, whatever the work takes (zerosum.cpp 103-120).
THEOREM SamplesNeverEarly == Spec => []NeverEarly
<1>1. ClockInv => NeverEarly
  BY DEF ClockInv, Early
<1> QED
  BY <1>1, ClockInvariant, PTL

\* The lateness of an iteration is bounded by a period and the time by which
\* iterations overran theirs (zerosum.cpp 88-120).
THEOREM LagStaysBounded == Spec => []LagBounded
<1>1. ClockInv => LagBounded
  BY DEF ClockInv, Lag, LagBounded
<1> QED
  BY <1>1, ClockInvariant, PTL

\* The batches are no further behind than the samples are, when they are not more
\* frequent than these (zerosum.cpp 99, 126-138).
THEOREM BatchesKeepUp == Spec => []BatchesCatchUp
<1>1. ClockInv => BatchesCatchUp
  BY CadenceAssumption DEF ClockInv, ClockTyped, Lag, DueLater, BatchesCatchUp, Waits
<1> QED
  BY <1>1, ClockInvariant, PTL

-----------------------------------------------------------------------------
(* The invariant of the rows.                                              *)

\* Rows that are no longer under way.
Settled == cursor - Len(batch)

RowsTyped ==
  /\ cursor \in Nat /\ received \in Seq(Nat) /\ batch \in Seq(Nat)
  /\ link \in {"idle", "blocked", "handed"}
  /\ Len(batch) <= cursor /\ lost \subseteq 1..Settled

\* The batch under way is the last one, and what came before it is settled.
BatchInv ==
  /\ link = "idle" => batch = <<>>
  /\ batch = Rows(Settled, cursor)
  /\ Elements(received) \cup lost = 1..Settled
  /\ Len(received) + Cardinality(lost) = Settled

\* One thread sends at a time, and only rows of steps that have begun.
SenderInv ==
  /\ step \in Nat /\ cursor \in Nat /\ cursor <= step
  /\ ~aggregating => link = "idle"
  /\ main \in {"sends", "ended"} => phase = "left"
  /\ link # "idle" => phase \in WorkerSends \/ main = "sends"

RowInv == RowsTyped /\ BatchInv

\* Rows are numbered without a gap.
LEMMA RowsFrom ==
  ASSUME NEW a \in Nat, NEW b \in Nat, a <= b
  PROVE  /\ Rows(a, b) \in Seq(Nat) /\ Len(Rows(a, b)) = b - a
         /\ Elements(Rows(a, b)) = (a + 1)..b
<1>1. Rows(a, b) \in [1..(b - a) -> Nat]
  BY DEF Rows
<1>2. Rows(a, b) \in Seq(Nat) /\ Len(Rows(a, b)) = b - a
  BY <1>1
<1>3. \A r \in (a + 1)..b : r - a \in 1..(b - a) /\ Rows(a, b)[r - a] = r
  BY DEF Rows
<1>4. \A i \in 1..(b - a) : Rows(a, b)[i] \in (a + 1)..b
  BY DEF Rows
<1>5. DOMAIN Rows(a, b) = 1..(b - a)
  BY DEF Rows
<1> QED
  BY <1>2, <1>3, <1>4, <1>5 DEF Elements

\* What is appended is added.
LEMMA ElementsOfBoth ==
  ASSUME NEW s \in Seq(Nat), NEW t \in Seq(Nat)
  PROVE  Elements(s \o t) = Elements(s) \cup Elements(t)
<1>1. \A i \in 1..Len(t) : /\ Len(s) + i \in 1..(Len(s) + Len(t))
                          /\ (s \o t)[Len(s) + i] = t[i]
  BY ConcatProperties, LenProperties
<1>2. \A i \in 1..Len(s) : /\ i \in 1..(Len(s) + Len(t)) /\ (s \o t)[i] = s[i]
  BY ConcatProperties, LenProperties
<1>3. \A i \in 1..(Len(s) + Len(t)) : i \in 1..Len(s) \/ i - Len(s) \in 1..Len(t)
  BY LenProperties
<1>4. \A i \in 1..(Len(s) + Len(t)) : i \notin 1..Len(s) => (s \o t)[i] = t[i - Len(s)]
  BY ConcatProperties, LenProperties
<1>5. /\ DOMAIN s = 1..Len(s) /\ DOMAIN t = 1..Len(t)
      /\ DOMAIN (s \o t) = 1..(Len(s) + Len(t))
  BY ConcatProperties, LenProperties
<1>6. Elements(s \o t) \subseteq Elements(s) \cup Elements(t)
  <2> SUFFICES ASSUME NEW i \in 1..(Len(s) + Len(t))
               PROVE  (s \o t)[i] \in Elements(s) \cup Elements(t)
    BY <1>5 DEF Elements
  <2> QED
    BY <1>2, <1>3, <1>4, <1>5 DEF Elements
<1>7. Elements(s) \subseteq Elements(s \o t)
  BY <1>2, <1>5 DEF Elements
<1>8. Elements(t) \subseteq Elements(s \o t)
  BY <1>1, <1>5 DEF Elements
<1> QED
  BY <1>6, <1>7, <1>8

\* More rows in the set of the lost ones.
LEMMA LoseMore ==
  ASSUME NEW a \in Nat, NEW b \in Nat, a <= b, NEW S, S \subseteq 1..a
  PROVE  /\ Cardinality(S) \in Nat
         /\ Cardinality(S \cup (a + 1)..b) = Cardinality(S) + (b - a)
<1>1. IsFiniteSet(1..a) /\ IsFiniteSet((a + 1)..b) /\ Cardinality((a + 1)..b) = b - a
  <2>1. a + 1 \in Int /\ 1 \in Int /\ (a + 1 > b => a + 1 = b + 1)
    OBVIOUS
  <2>2. Cardinality((a + 1)..b) = IF a + 1 > b THEN 0 ELSE b - (a + 1) + 1
    BY <2>1, FS_Interval
  <2> QED
    BY <2>1, <2>2, FS_Interval
<1>2. IsFiniteSet(S)
  BY <1>1, FS_Subset
<1>3. S \cap (a + 1)..b = {}
  OBVIOUS
<1>4. Cardinality(S \cap (a + 1)..b) = 0
  BY <1>3, FS_EmptySet
<1>5. Cardinality(S \cup (a + 1)..b)
        = Cardinality(S) + Cardinality((a + 1)..b) - Cardinality(S \cap (a + 1)..b)
  BY <1>1, <1>2, FS_Union
<1>6. Cardinality(S) \in Nat
  BY <1>2, FS_CardinalityType
<1> QED
  BY <1>1, <1>4, <1>5, <1>6

LEMMA RowStart ==
  ASSUME RowInv, NEW n \in Nat, cursor <= n, StartSend(n)
  PROVE  RowInv'
<1>1. /\ batch = <<>> /\ batch' = Rows(cursor, n) /\ cursor' = n /\ link' = "blocked"
      /\ UNCHANGED <<received, lost>>
  BY DEF RowInv, BatchInv, StartSend
<1>2. batch' \in Seq(Nat) /\ Len(batch') = n - cursor
  BY <1>1, RowsFrom DEF RowInv, RowsTyped
<1>3. Settled = cursor /\ Settled' = cursor
  BY <1>1, <1>2 DEF Settled, RowInv, RowsTyped
<1> QED
  BY <1>1, <1>2, <1>3 DEF RowInv, RowsTyped, BatchInv

LEMMA RowSkip ==
  ASSUME RowInv, link = "idle", NEW n \in Nat, cursor <= n, Skip(n)
  PROVE  RowInv'
<1>1. /\ batch = <<>> /\ cursor' = n /\ lost' = lost \cup (cursor + 1)..n
      /\ UNCHANGED <<batch, link, received>>
  BY DEF RowInv, BatchInv, Skip
<1>2. Len(batch) = 0 /\ Settled = cursor /\ Settled' = n
  BY <1>1 DEF Settled, RowInv, RowsTyped
<1>3. Cardinality(lost) \in Nat /\ Cardinality(lost') = Cardinality(lost) + (n - cursor)
  BY <1>1, <1>2, LoseMore DEF RowInv, RowsTyped
<1>4. Rows(n, n) = <<>>
  BY RowsFrom, EmptySeq
<1>5. Elements(received) \cup lost' = 1..n
  BY <1>1, <1>2 DEF RowInv, RowsTyped, BatchInv
<1>6. Len(received) \in Nat
  BY DEF RowInv, RowsTyped
<1>7. RowsTyped'
  BY <1>1, <1>2 DEF RowInv, RowsTyped
<1>8. BatchInv'
  <2>1. batch' = Rows(Settled', cursor')
    BY <1>1, <1>2, <1>4
  <2>2. Len(received') + Cardinality(lost') = Settled'
    <3>1. Len(received) + Cardinality(lost) = cursor /\ cursor \in Nat
      BY <1>2 DEF RowInv, RowsTyped, BatchInv
    <3> QED BY <1>1, <1>2, <1>3, <1>6, <3>1
  <2>3. batch' = <<>> /\ Elements(received') \cup lost' = 1..Settled'
    BY <1>1, <1>2, <1>5
  <2> QED
    BY <2>1, <2>2, <2>3 DEF BatchInv
<1> QED
  BY <1>7, <1>8 DEF RowInv

\* The batch arrives.
LEMMA RowDelivered == RowInv /\ Delivered => RowInv'
<1> SUFFICES ASSUME RowInv, Delivered PROVE RowInv'
  OBVIOUS
<1>1. /\ received' = received \o batch /\ batch' = <<>> /\ link' = "idle"
      /\ UNCHANGED <<cursor, lost>>
  BY DEF Delivered
<1>2. Settled \in Nat /\ Len(batch) \in Nat /\ Settled' = cursor
  BY <1>1 DEF Settled, RowInv, RowsTyped
<1>3. Elements(batch) = (Settled + 1)..cursor /\ Len(batch) = cursor - Settled
  BY <1>2, RowsFrom DEF Settled, RowInv, RowsTyped, BatchInv
<1>4. /\ received' \in Seq(Nat) /\ Len(received') = Len(received) + Len(batch)
      /\ Elements(received') = Elements(received) \cup Elements(batch)
  BY <1>1, ElementsOfBoth, ConcatProperties DEF RowInv, RowsTyped
<1>5. Rows(cursor, cursor) = <<>>
  BY RowsFrom, EmptySeq DEF RowInv, RowsTyped
<1>6. Elements(received') \cup lost' = 1..cursor
  BY <1>1, <1>2, <1>3, <1>4 DEF RowInv, RowsTyped, BatchInv
<1>7. Cardinality(lost) \in Nat /\ Len(received) \in Nat
  <2>1. lost \subseteq 1..Settled /\ Settled <= Settled
    BY <1>2 DEF RowInv, RowsTyped
  <2> QED
    BY <1>2, <2>1, LoseMore, LenProperties DEF RowInv, RowsTyped
<1>8. RowsTyped'
  <2>1. Settled <= cursor /\ Len(batch') = 0
    BY <1>1, <1>2, <1>3, EmptySeq DEF RowInv, RowsTyped
  <2>2. lost' \subseteq 1..Settled'
    BY <1>1, <1>2, <2>1 DEF RowInv, RowsTyped
  <2> QED
    BY <1>1, <1>4, <2>1, <2>2, EmptySeq DEF RowInv, RowsTyped
<1>9. BatchInv'
  <2>1. batch' = Rows(Settled', cursor')
    BY <1>1, <1>2, <1>5
  <2>2. Len(received') + Cardinality(lost') = Settled'
    BY <1>1, <1>2, <1>3, <1>4, <1>5, <1>6, <1>7 DEF RowInv, RowsTyped, BatchInv
  <2> QED
    BY <1>1, <1>2, <1>3, <1>4, <1>5, <1>6, <1>7, <2>1, <2>2 DEF BatchInv
<1> QED
  BY <1>8, <1>9 DEF RowInv

\* The batch is lost, with its peer or with an error.
LEMMA RowDropped == RowInv /\ (Dropped \/ Failed) => RowInv'
<1> SUFFICES ASSUME RowInv, Dropped \/ Failed PROVE RowInv'
  OBVIOUS
<1>1. /\ lost' = lost \cup Elements(batch) /\ batch' = <<>> /\ link' = "idle"
      /\ UNCHANGED <<cursor, received>>
  BY DEF Dropped, Failed
<1>2. Settled \in Nat /\ Len(batch) \in Nat /\ Settled' = cursor
  BY <1>1 DEF Settled, RowInv, RowsTyped
<1>3. Elements(batch) = (Settled + 1)..cursor /\ Len(batch) = cursor - Settled
  BY <1>2, RowsFrom DEF Settled, RowInv, RowsTyped, BatchInv
<1>4. Settled <= cursor
  BY <1>2, <1>3 DEF RowInv, RowsTyped
<1>5. Cardinality(lost) \in Nat /\ Cardinality(lost') = Cardinality(lost) + (cursor - Settled)
  BY <1>1, <1>2, <1>3, <1>4, LoseMore DEF RowInv, RowsTyped
<1>6. Rows(cursor, cursor) = <<>>
  BY RowsFrom, EmptySeq DEF RowInv, RowsTyped
<1>7. Elements(received) \cup lost' = 1..cursor
  BY <1>1, <1>2, <1>3 DEF RowInv, RowsTyped, BatchInv
<1>8. Len(received) \in Nat
  BY DEF RowInv, RowsTyped
<1>9. RowsTyped'
  BY <1>1, <1>2, <1>3 DEF RowInv, RowsTyped
<1>10. BatchInv'
  <2>1. batch' = Rows(Settled', cursor')
    BY <1>1, <1>2, <1>6
  <2>2. Len(received') + Cardinality(lost') = Settled'
    <3>1. Len(received) + Cardinality(lost) = Settled /\ cursor \in Nat
      BY DEF RowInv, RowsTyped, BatchInv
    <3>2. Len(received') = Len(received)
      BY <1>1
    <3> QED
      BY <1>2, <1>5, <1>8, <3>1, <3>2
  <2> QED
    BY <1>1, <1>2, <1>5, <1>6, <1>7, <1>8, <2>1, <2>2 DEF BatchInv
<1> QED
  BY <1>9, <1>10 DEF RowInv

\* One action after the other.
LEMMA RowStep ==
  ASSUME RowInv, SenderInv, [Next]_vars
  PROVE  RowInv'
<1>1. ASSUME UNCHANGED aggregation PROVE RowInv'
  <2> USE <1>1 DEF aggregation
  <2>1. RowsTyped'
    <3>1. Settled' = Settled
      BY DEF Settled
    <3> QED
      BY <3>1 DEF RowInv, RowsTyped
  <2>2. BatchInv'
    <3>1. Settled' = Settled
      BY DEF Settled
    <3> QED
      BY <3>1 DEF RowInv, BatchInv
  <2> QED
    BY <2>1, <2>2 DEF RowInv
<1>2. ASSUME UNCHANGED <<cursor, batch, received, lost>>, link # "idle", link' # "idle",
             link' \in {"idle", "blocked", "handed"}
      PROVE  RowInv'
  <2>1. Settled' = Settled
    BY <1>2 DEF Settled
  <2>2. RowsTyped' /\ BatchInv'
    BY <1>2, <2>1 DEF RowInv, RowsTyped, BatchInv
  <2> QED
    BY <2>2 DEF RowInv
<1>3. ASSUME UNCHANGED <<cursor, batch, received, lost, link>> PROVE RowInv'
  <2>1. Settled' = Settled
    BY <1>3 DEF Settled
  <2>2. RowsTyped' /\ BatchInv'
    BY <1>3, <2>1 DEF RowInv, RowsTyped, BatchInv
  <2> QED
    BY <2>2 DEF RowInv
<1>4. ASSUME SendEnds PROVE RowInv'
  BY <1>4, RowDelivered, RowDropped DEF SendEnds
<1>5. step \in Nat /\ cursor <= step
  BY DEF SenderInv
<1>6. cursor \in Nat /\ cursor <= step + 1 /\ step + 1 \in Nat
  BY <1>5 DEF RowInv, RowsTyped
<1>7. CASE UNCHANGED vars
  BY <1>1, <1>7 DEF vars
<1>8. CASE Iterate \/ Leave \/ Initialize \/ Uninitialized \/ SampleStep \/ TimeOut \/ NotDue
  BY <1>1, <1>8 DEF Iterate, Leave, Initialize, Uninitialized, SampleStep, TimeOut, NotDue
<1>9. CASE Shutdown \/ CreateStopFile \/ Ended
  BY <1>1, <1>9 DEF Shutdown, CreateStopFile, Ended, vars
<1>10. CASE FarewellStep
  <2>1. link = "idle"
    BY <1>10 DEF FarewellStep, SenderInv, WorkerSends
  <2>2. StartSend(step + 1) \/ Skip(step + 1)
    BY <1>10 DEF FarewellStep
  <2> QED
    BY <1>6, <2>1, <2>2, RowStart, RowSkip
<1>11. CASE AfterFarewell
  BY <1>1, <1>4, <1>11 DEF AfterFarewell
<1>12. CASE SendBatch
  BY <1>5, <1>12, RowStart DEF SendBatch
<1>13. CASE BatchEnds
  BY <1>4, <1>13 DEF BatchEnds
<1>14. CASE Joined
  <2>1. link = "idle"
    BY <1>14 DEF Joined, Joinable, SenderInv, WorkerSends
  <2>2. StartSend(step) \/ Skip(step)
    BY <1>14 DEF Joined
  <2> QED
    BY <1>5, <2>1, <2>2, RowStart, RowSkip
<1>15. CASE Farewelled
  BY <1>4, <1>15 DEF Farewelled
<1>16. CASE SendFindsPeer
  BY <1>2, <1>16 DEF SendFindsPeer, Accept
<1>17. CASE Aggregator
  BY <1>3, <1>17 DEF Aggregator, PeerGoes, PeerComes
<1> QED
  BY <1>7, <1>8, <1>9, <1>10, <1>11, <1>12, <1>13, <1>14, <1>15, <1>16, <1>17
     DEF Next, Worker, Main

LEMMA SenderStep ==
  ASSUME SenderInv, [Next]_vars
  PROVE  SenderInv'
<1> USE DEF SenderInv, WorkerSends
<1>1. CASE UNCHANGED vars \/ Ended
  BY <1>1 DEF Ended, vars, cadence, aggregation, control
<1>2. CASE Iterate \/ Leave \/ Uninitialized \/ TimeOut
  BY <1>2 DEF Iterate, Top, Leave, Uninitialized, TimeOut, Wake, working, aggregation, control
<1>3. CASE Initialize \/ NotDue
  BY <1>3 DEF Initialize, Once, NotDue, Finish, aggregation, control
<1>4. CASE SampleStep
  BY <1>4 DEF SampleStep, Begin, Sampled, aggregation, control
<1>5. CASE FarewellStep
  <2>1. step' = step + 1 /\ phase' = "farewell" /\ UNCHANGED main /\ phase = "sample"
    BY <1>5 DEF FarewellStep, Begin, control
  <2>2. cursor' = step + 1
    BY <1>5 DEF FarewellStep, StartSend, Skip
  <2>3. UNCHANGED aggregating /\ (~aggregating => link' = "idle")
    BY <1>5 DEF FarewellStep, Skip, control
  <2> QED
    BY <2>1, <2>2, <2>3
<1>6. CASE AfterFarewell
  <2>1. step' = step /\ main' = main /\ phase = "farewell" /\ phase' \in {"farewell", "wait"}
    BY <1>6 DEF AfterFarewell
  <2>2. cursor' = cursor
    BY <1>6 DEF AfterFarewell, SendEnds, Delivered, Dropped, Failed, aggregation
  <2>3. link' = "idle" /\ UNCHANGED aggregating
    BY <1>6 DEF AfterFarewell, SendEnds, Delivered, Dropped, Failed, aggregation
  <2>4. main \notin {"sends", "ended"}
    BY <2>1
  <2> QED
    BY <2>1, <2>2, <2>3, <2>4
<1>7. CASE SendBatch
  BY <1>7 DEF SendBatch, StartSend, Due
<1>8. CASE BatchEnds
  BY <1>8 DEF BatchEnds, SendEnds, Delivered, Dropped, Failed, control
<1>9. CASE SendFindsPeer
  BY <1>9 DEF SendFindsPeer, Accept, cadence, control
<1>10. CASE Shutdown \/ CreateStopFile
  BY <1>10 DEF Shutdown, CreateStopFile, cadence, aggregation
<1>11. CASE Joined
  BY <1>11 DEF Joined, Joinable, StartSend, Skip, cadence
<1>12. CASE Farewelled
  BY <1>12 DEF Farewelled, SendEnds, Delivered, Dropped, Failed, cadence
<1>13. CASE Aggregator
  BY <1>13 DEF Aggregator, PeerGoes, PeerComes, cadence, control
<1> QED
  BY <1>1, <1>2, <1>3, <1>4, <1>5, <1>6, <1>7, <1>8, <1>9, <1>10, <1>11, <1>12, <1>13
     DEF Next, Worker, Main

\* Both invariants hold at the start and are kept.
LEMMA RowInit == Init => RowInv /\ SenderInv
<1> SUFFICES ASSUME Init PROVE RowInv /\ SenderInv
  OBVIOUS
<1>1. /\ cursor = 0 /\ batch = <<>> /\ link = "idle" /\ received = <<>> /\ lost = {}
      /\ step = 0 /\ main = "runs" /\ phase = "top"
  BY DEF Init, CadenceInit, AggregationInit
<1>2. Len(batch) = 0 /\ Len(received) = 0 /\ batch \in Seq(Nat) /\ received \in Seq(Nat)
  BY <1>1, EmptySeq
<1>3. Settled = 0
  <2>1. cursor = 0 /\ Len(batch) = 0
    BY <1>1, <1>2
  <2> QED
    BY <2>1 DEF Settled
<1>4. Rows(0, 0) = <<>>
  BY RowsFrom, EmptySeq
<1>5. Cardinality(lost) = 0
  BY <1>1, FS_EmptySet
<1>6. Elements(received) = {} /\ 1..0 = {}
  BY <1>1 DEF Elements
<1>7. RowsTyped
  BY <1>1, <1>2, <1>3 DEF RowsTyped
<1>8. BatchInv
  BY <1>1, <1>2, <1>3, <1>4, <1>5, <1>6 DEF BatchInv
<1>9. SenderInv
  BY <1>1 DEF SenderInv
<1> QED
  BY <1>7, <1>8, <1>9 DEF RowInv

LEMMA RowInvariant == Spec => [](RowInv /\ SenderInv)
<1>1. RowInv /\ SenderInv /\ [Next]_vars => (RowInv /\ SenderInv)'
  BY RowStep, SenderStep
<1> QED
  BY RowInit, <1>1, PTL DEF Spec

\* The main thread and the worker never send at the same time (zerosum.cpp
\* 126-140, 343-350, 385-393).
THEOREM SendersExclude == Spec => []OneSender
<1>1. SenderInv => OneSender
  BY DEF SenderInv, OneSender
<1> QED
  BY <1>1, RowInvariant, PTL

\* No row is received and lost, or neither, whatever the number of outages,
\* errors and steps (zerosum_zmq.cpp 38-83).
THEOREM RowsStayAccounted == Spec => []RowsAccounted
<1>1. RowInv => RowsAccounted
  <2> SUFFICES ASSUME RowInv PROVE RowsAccounted
    OBVIOUS
  <2>1. Settled \in Nat /\ Len(batch) \in Nat /\ cursor \in Nat /\ Settled <= cursor
    BY DEF Settled, RowInv, RowsTyped
  <2>2. Len(batch) = cursor - Settled /\ Elements(batch) = (Settled + 1)..cursor
    BY <2>1, RowsFrom DEF RowInv, BatchInv
  <2>3. Cardinality(lost) \in Nat /\ Len(received) \in Nat
    <3>1. lost \subseteq 1..Settled /\ Settled <= Settled /\ received \in Seq(Nat)
      BY <2>1 DEF RowInv, RowsTyped
    <3> QED
      BY <2>1, <3>1, LoseMore, LenProperties
  <2>4. /\ Elements(received) \cup lost = 1..Settled
        /\ Len(received) + Cardinality(lost) = Settled
    BY DEF RowInv, BatchInv
  <2>5. Elements(received) \cup Elements(batch) \cup lost = 1..cursor
    BY <2>1, <2>2, <2>4
  <2>6. Len(received) + Len(batch) + Cardinality(lost) = cursor
    BY <2>1, <2>2, <2>3, <2>4
  <2> QED
    BY <2>5, <2>6 DEF RowsAccounted
<1> QED
  BY <1>1, RowInvariant, PTL

-----------------------------------------------------------------------------
(* The aggregator sees a feed.                                             *)

LEMMA FeedOfSend ==
  ASSUME RowInv, NEW n \in Nat, cursor <= n, StartSend(n)
  PROVE  [F!FeedNext]_(F!feed)
<1>1. /\ batch = <<>> /\ batch' = Rows(cursor, n) /\ cursor' = n /\ received' = received
  BY DEF RowInv, BatchInv, StartSend
<1>2. CASE n = cursor
  <2>1. batch' = <<>>
    BY <1>1, <1>2, RowsFrom, EmptySeq
  <2> QED
    BY <1>1, <1>2, <2>1 DEF F!feed
<1>3. CASE n > cursor
  BY <1>1, <1>3 DEF F!FeedNext, F!Take, F!Advance, Rows
<1> QED
  BY <1>2, <1>3 DEF RowInv, RowsTyped

LEMMA FeedOfSkip ==
  ASSUME RowInv, NEW n \in Nat, cursor <= n, Skip(n)
  PROVE  [F!FeedNext]_(F!feed)
<1>1. UNCHANGED <<batch, received>> /\ cursor' = n
  BY DEF Skip
<1>2. CASE n = cursor
  BY <1>1, <1>2 DEF F!feed
<1>3. CASE n > cursor
  BY <1>1, <1>3 DEF F!FeedNext, F!Pass, F!Advance
<1> QED
  BY <1>2, <1>3 DEF RowInv, RowsTyped

LEMMA FeedOfEnd == SendEnds => F!FeedNext
BY DEF SendEnds, Delivered, Dropped, Failed, F!FeedNext, F!Deliver, F!Lose

\* Every step of the monitor is a step of the feed, or none.
LEMMA FeedStep ==
  ASSUME RowInv, SenderInv, [Next]_vars
  PROVE  [F!FeedNext]_(F!feed)
<1>1. ASSUME UNCHANGED <<cursor, batch, received>> PROVE UNCHANGED F!feed
  BY <1>1 DEF F!feed
<1>2. step \in Nat /\ step + 1 \in Nat /\ cursor <= step /\ cursor <= step + 1
  BY DEF SenderInv
<1>3. CASE UNCHANGED vars \/ Ended
  BY <1>1, <1>3 DEF vars, Ended, aggregation
<1>4. CASE Iterate \/ Leave \/ Initialize \/ Uninitialized \/ SampleStep \/ TimeOut \/ NotDue
  BY <1>1, <1>4
     DEF Iterate, Leave, Initialize, Uninitialized, SampleStep, TimeOut, NotDue, aggregation
<1>5. CASE Shutdown \/ CreateStopFile
  BY <1>1, <1>5 DEF Shutdown, CreateStopFile, aggregation
<1>6. CASE Aggregator \/ SendFindsPeer
  BY <1>1, <1>6 DEF Aggregator, PeerGoes, PeerComes, SendFindsPeer, Accept
<1>7. CASE FarewellStep
  BY <1>2, <1>7, FeedOfSend, FeedOfSkip DEF FarewellStep
<1>8. CASE AfterFarewell
  BY <1>1, <1>8, FeedOfEnd DEF AfterFarewell, aggregation
<1>9. CASE SendBatch
  BY <1>2, <1>9, FeedOfSend DEF SendBatch
<1>10. CASE BatchEnds \/ Farewelled
  BY <1>10, FeedOfEnd DEF BatchEnds, Farewelled
<1>11. CASE Joined
  BY <1>2, <1>11, FeedOfSend, FeedOfSkip DEF Joined
<1> QED
  BY <1>3, <1>4, <1>5, <1>6, <1>7, <1>8, <1>9, <1>10, <1>11 DEF Next, Worker, Main

\* The monitor, with its clock, threads and sockets, implements the feed.
THEOREM MonitorImplementsFeed == Spec => ImplementsFeed
<1>1. Init => F!FeedInit
  BY DEF Init, AggregationInit, F!FeedInit
<1>2. RowInv /\ SenderInv /\ [Next]_vars => [F!FeedNext]_(F!feed)
  BY FeedStep
<1> QED
  BY <1>1, <1>2, RowInvariant, PTL DEF Spec, ImplementsFeed, F!FeedSpec

\* What the type invariant says of the threads and the flags.
Flags ==
  /\ phase \in Phases \cup WorkerSends \cup {"left"}
  /\ main \in {"runs", "joins", "sends", "ended"}
  /\ aggregating \in BOOLEAN /\ stopFile \in BOOLEAN /\ died \in BOOLEAN /\ peer \in BOOLEAN

LEMMA FlagsStep == Flags /\ [Next]_vars => Flags'
<1> SUFFICES ASSUME Flags, [Next]_vars PROVE Flags'
  OBVIOUS
<1> USE DEF Flags, Phases, WorkerSends
<1>1. ASSUME UNCHANGED <<peer, control>>,
             phase' \in Phases \cup WorkerSends \cup {"left"}
      PROVE  Flags'
  BY <1>1 DEF control
<1>2. CASE UNCHANGED vars \/ Ended
  BY <1>2 DEF Ended, vars, cadence, aggregation, control
<1>3. CASE Iterate \/ Leave \/ Initialize \/ Uninitialized \/ SampleStep \/ TimeOut \/ NotDue
  BY <1>1, <1>3 DEF Iterate, Top, Leave, Initialize, Once, Uninitialized, SampleStep, Sampled,
                    TimeOut, Wake, NotDue, Finish, aggregation
<1>4. CASE FarewellStep
  <2>1. UNCHANGED peer
    BY <1>4 DEF FarewellStep, StartSend, Skip
  <2> QED
    BY <1>1, <1>4, <2>1 DEF FarewellStep
<1>5. CASE AfterFarewell
  <2>1. UNCHANGED peer
    BY <1>5 DEF AfterFarewell, SendEnds, Delivered, Dropped, Failed, aggregation
  <2> QED
    BY <1>5, <2>1 DEF AfterFarewell
<1>6. CASE SendBatch
  BY <1>6 DEF SendBatch, StartSend
<1>7. CASE BatchEnds
  <2>1. UNCHANGED peer
    BY <1>7 DEF BatchEnds, SendEnds, Delivered, Dropped, Failed
  <2> QED
    BY <1>1, <1>7, <2>1 DEF BatchEnds
<1>8. CASE SendFindsPeer
  BY <1>1, <1>8 DEF SendFindsPeer, Accept, cadence
<1>9. CASE Shutdown \/ CreateStopFile
  BY <1>9 DEF Shutdown, CreateStopFile, cadence, aggregation
<1>10. CASE Joined
  BY <1>10 DEF Joined, StartSend, Skip, cadence
<1>11. CASE Farewelled
  BY <1>11 DEF Farewelled, SendEnds, Delivered, Dropped, Failed, cadence
<1>12. CASE Aggregator
  BY <1>12 DEF Aggregator, PeerGoes, PeerComes, cadence, control
<1> QED
  BY <1>2, <1>3, <1>4, <1>5, <1>6, <1>7, <1>8, <1>9, <1>10, <1>11, <1>12
     DEF Next, Worker, Main

\* The state keeps its type, times never become negative, but the wait may
\* (zerosum.cpp 80-141).
THEOREM TypeCorrect == Spec => []TypeOK
<1>1. Init => Flags
  BY DEF Init, CadenceInit, AggregationInit, Flags, Phases, WorkerSends
<1>2. ClockInv /\ RowInv /\ Flags => TypeOK
  <2> SUFFICES ASSUME ClockInv, RowInv, Flags PROVE TypeOK
    OBVIOUS
  <2>1. lost \subseteq Nat
    BY DEF RowInv, RowsTyped, Settled
  <2> QED
    BY <2>1 DEF TypeOK, ClockInv, ClockTyped, RowInv, RowsTyped, Flags
<1> QED
  BY <1>1, <1>2, FlagsStep, ClockInvariant, RowInvariant, PTL DEF Spec
=============================================================================
