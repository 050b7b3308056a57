--------------------------- MODULE ReadingsProofs ---------------------------
(***************************************************************************)
(* What is read and shown, for every input: the power counters are typed,  *)
(* their energies are reported once and their files last to the limit; the *)
(* percentages of a CPU stay within 100 wherever its counters wrap; the    *)
(* averages of a report lie within what was sampled; the rows of a GPU are *)
(* its own, whatever the variable that is read makes visible, and its      *)
(* engines show their share unless another device has the same labels; the *)
(* processes of a run have logs of their own, which sort as ranks do where *)
(* these and the size are known; the worker stays on the CPUs of its       *)
(* process, whatever these are; merged call stacks have the ranks that     *)
(* went through them, and labels that show them up to where they are cut.  *)
(***************************************************************************)
EXTENDS Readings, SumTheorems

-----------------------------------------------------------------------------
(* The power counters.                                                     *)

Field == [counter : Counters, v : Int]
Row   == [valid : BOOLEAN, changed : BOOLEAN, fields : Seq(Field)]

\* Every variable stays in its range; a row has its fields as soon as the
\* values are being read.
TypeOK ==
  /\ fresh \in Nat /\ generation \in Nat /\ value \in [Counters -> Int]
  /\ previousFreshness \in Nat /\ previousGeneration \in Nat
  /\ previous \in [Counters -> Int] /\ start \in [Counters -> Int]
  /\ reading \in {"new", "newGeneration", "idle", "freshness", "generation", "values"}
  /\ todo \subseteq Counters
  /\ reading = "generation" => row \in [valid : BOOLEAN]
  /\ reading = "values" => row \in Row
  /\ rows \in Seq(Row)
  /\ fds \in Nat /\ crashed \in BOOLEAN

\* The constructor's state is typed.
LEMMA TypeInit == PowerInit => TypeOK
<1> SUFFICES ASSUME PowerInit PROVE TypeOK
  OBVIOUS
<1>1. value \in [Counters -> Int] /\ rows \in Seq(Row)
  BY DEF PowerInit
<1> QED BY <1>1 DEF PowerInit, TypeOK

\* Every step keeps it typed.
LEMMA TypeStep == TypeOK /\ [PowerNext]_power => TypeOK'
<1> SUFFICES ASSUME TypeOK, [PowerNext]_power PROVE TypeOK'
  OBVIOUS
<1>1. CASE Refresh
  BY <1>1 DEF Refresh, TypeOK, Counters
<1>2. CASE StartRead
  BY <1>2 DEF StartRead, TypeOK, files
<1>3. CASE ReadFreshness
  BY <1>3 DEF ReadFreshness, TypeOK, files, Renewed, LeftOpen
<1>4. CASE ReadGeneration
  <2>1. row' \in Row
    BY <1>4 DEF ReadGeneration, TypeOK, Row
  <2> QED BY <1>4, <2>1 DEF ReadGeneration, TypeOK, files, LeftOpen
<1>5. ASSUME NEW c \in Counters, ReadValue(c) PROVE TypeOK'
  <2>1. row \in Row
    BY <1>5 DEF ReadValue, TypeOK
  <2>2. value[c] \in Int /\ previous[c] \in Int
    BY DEF TypeOK
  <2> DEFINE f == [counter |-> c, v |-> IF c \in Energies THEN value[c] - previous[c] ELSE value[c]]
  <2>3. f \in Field
    BY <2>2 DEF Field
  <2>4. row' = [row EXCEPT !.fields = Append(@, f)]
    BY <1>5 DEF ReadValue
  <2> HIDE DEF f
  <2>5. row' \in Row
    <3>1. row.fields \in Seq(Field) /\ Append(row.fields, f) \in Seq(Field)
      BY <2>1, <2>3 DEF Row
    <3> QED BY <2>1, <2>4, <3>1 DEF Row
  <2>6. previous' \in [Counters -> Int]
    BY <1>5 DEF ReadValue, Remember, TypeOK
  <2>7. todo' \subseteq Counters /\ reading = "values" /\ fds' \in Nat
    BY <1>5 DEF ReadValue, TypeOK, files, ClosedAfterwards
  <2>8. UNCHANGED <<fresh, generation, value, previousFreshness, previousGeneration, start,
                    reading, rows, crashed>>
    BY <1>5 DEF ReadValue, files, ClosedAfterwards
  <2> QED BY <2>5, <2>6, <2>7, <2>8 DEF TypeOK
<1>6. CASE EndRead
  <2>1. rows' \in Seq(Row)
    BY <1>6 DEF EndRead, TypeOK
  <2> QED BY <1>6, <2>1 DEF EndRead, TypeOK, files
<1>7. CASE Crash
  BY <1>7 DEF Crash, TypeOK, files
<1>8. CASE UNCHANGED power
  BY <1>8 DEF power, TypeOK
<1>9. ASSUME NEW c \in Counters, ConstructValue(c) PROVE TypeOK'
  <2>1. previous' \in [Counters -> Int] /\ start' \in [Counters -> Int]
    BY <1>9 DEF ConstructValue, TypeOK
  <2> QED BY <1>9, <2>1 DEF ConstructValue, TypeOK, files, ClosedAfterwards
<1>10. CASE ConstructFreshness
  BY <1>10 DEF ConstructFreshness, TypeOK, files, LeftOpen
<1>11. CASE ConstructGeneration
  BY <1>11 DEF ConstructGeneration, TypeOK, files, LeftOpen
<1> QED
  BY <1>1, <1>2, <1>3, <1>4, <1>5, <1>6, <1>7, <1>8, <1>9, <1>10, <1>11
  DEF PowerNext, Construct, Scan, Crashed

\* The state of the reader and of the controller is typed, whatever they interleave
\* (cray_pm_counters.cpp 37-152).
THEOREM PowerTypeCorrect == PowerSpec => []TypeOK
BY TypeInit, TypeStep, PTL DEF PowerSpec

\* The files a scan has left open so far; the constructor closes the directory and
\* leaves two more.
Open == IF reading = "generation" THEN 1 ELSE IF reading = "values" THEN 2
        ELSE IF reading = "new" THEN -1 ELSE 0

\* Two files were left open by the constructor, two by each scan that ended, and
\* nothing else is open between two calls; a scan crashes at the limit only.
FilesLeft ==
  /\ TypeOK
  /\ fds = 2 + 2 * Len(rows) + Open
  /\ crashed => fds >= MaxFds

\* The reader does not crash before it has used up the descriptors, at two for each
\* scan (cray_pm_counters.cpp 37-54, 112-152).
THEOREM LastsToLimitHolds == PowerSpec => []LastsToLimit
<1> USE PowerCountersAssumption
<1>1. PowerInit => FilesLeft
  BY TypeInit DEF PowerInit, FilesLeft, Open
<1>2. FilesLeft /\ [PowerNext]_power => FilesLeft'
  <2> SUFFICES ASSUME FilesLeft, [PowerNext]_power PROVE FilesLeft'
    OBVIOUS
  <2>0. TypeOK /\ TypeOK' /\ rows \in Seq(Row) /\ Len(rows) \in Nat /\ fds \in Nat
    BY TypeStep DEF FilesLeft, TypeOK
  <2>1. CASE Refresh
    BY <2>0, <2>1 DEF Refresh, FilesLeft, Open
  <2>2. CASE StartRead
    BY <2>0, <2>2 DEF StartRead, FilesLeft, Open
  <2>3. CASE ReadFreshness
    BY <2>0, <2>3 DEF ReadFreshness, FilesLeft, Open, LeftOpen
  <2>4. CASE ReadGeneration
    BY <2>0, <2>4 DEF ReadGeneration, FilesLeft, Open, LeftOpen
  <2>5. ASSUME NEW c \in Counters, ReadValue(c) PROVE FilesLeft'
    BY <2>0, <2>5 DEF ReadValue, FilesLeft, Open, ClosedAfterwards
  <2>6. CASE EndRead
    <3>1. Len(rows') = Len(rows) + 1
      BY <2>0, <2>6 DEF EndRead
    <3> QED BY <2>0, <2>6, <3>1 DEF EndRead, FilesLeft, Open
  <2>7. CASE Crash
    BY <2>0, <2>7 DEF Crash, FilesLeft, Open, Opens
  <2>8. CASE UNCHANGED power
    BY <2>0, <2>8 DEF power, FilesLeft, Open
  <2>9. ASSUME NEW c \in Counters, ConstructValue(c) PROVE FilesLeft'
    BY <2>0, <2>9 DEF ConstructValue, FilesLeft, Open, ClosedAfterwards
  <2>10. CASE ConstructFreshness
    BY <2>0, <2>10 DEF ConstructFreshness, FilesLeft, Open, LeftOpen
  <2>11. CASE ConstructGeneration
    BY <2>0, <2>11 DEF ConstructGeneration, FilesLeft, Open, LeftOpen
  <2> QED
    BY <2>1, <2>2, <2>3, <2>4, <2>5, <2>6, <2>7, <2>8, <2>9, <2>10, <2>11
    DEF PowerNext, Construct, Scan, Crashed
<1>3. FilesLeft => LastsToLimit
  BY DEF FilesLeft, TypeOK, Open, LastsToLimit
<1> QED BY <1>1, <1>2, <1>3, PTL DEF PowerSpec

\* What one scan says of a counter is a number, and grows with its fields.
LEMMA RowSumIsNumber ==
  ASSUME NEW r \in Row, NEW c
  PROVE  RowSum(r, c) \in Int /\ (r.fields = <<>> => RowSum(r, c) = 0)
<1> DEFINE n == Len(r.fields)
           f == [i \in DOMAIN r.fields |-> IF r.fields[i].counter = c THEN r.fields[i].v ELSE 0]
<1>1. r.fields \in Seq(Field) /\ n \in Nat /\ DOMAIN r.fields = 1 .. n
      /\ (r.fields = <<>> => n = 0)
  BY DEF Row
<1>2. \A i \in 1 .. n : r.fields[i].v \in Int
  <2>1. \A i \in 1 .. n : r.fields[i] \in Field
    BY <1>1
  <2>2. \A x \in Field : x.v \in Int
    BY DEF Field
  <2> QED BY <2>1, <2>2
<1>3. DOMAIN f = 1 .. n /\ \A i \in 1 .. n : f[i] \in Int
  BY <1>1, <1>2
<1> HIDE DEF f, n
<1>4. SumFunction(f) \in Int /\ (n = 0 => SumFunction(f) = 0)
  BY <1>1, <1>3, SumOfList
<1> QED BY <1>1, <1>4 DEF RowSum, f

\* A field more adds its value to the sum of its counter, and to no other.
LEMMA RowSumGrows ==
  ASSUME NEW r \in Row, NEW g \in Field, NEW s \in Row, s.fields = Append(r.fields, g), NEW c
  PROVE  RowSum(s, c) = RowSum(r, c) + (IF g.counter = c THEN g.v ELSE 0)
<1> DEFINE n == Len(r.fields)
           F(t) == [i \in DOMAIN t.fields |-> IF t.fields[i].counter = c THEN t.fields[i].v ELSE 0]
           f == F(r)
           h == F(s)
<1>1. r.fields \in Seq(Field) /\ n \in Nat /\ DOMAIN r.fields = 1 .. n
  BY DEF Row
<1>2. \A i \in 1 .. n : r.fields[i].v \in Int
  <2>1. \A i \in 1 .. n : r.fields[i] \in Field
    BY <1>1
  <2>2. \A x \in Field : x.v \in Int
    BY DEF Field
  <2> QED BY <2>1, <2>2
<1>3. g.v \in Int
  BY DEF Field
<1>4. DOMAIN s.fields = 1 .. (n + 1) /\ s.fields[n + 1] = g
      /\ \A i \in 1 .. n : s.fields[i] = r.fields[i]
  BY <1>1
<1>5. /\ DOMAIN f = 1 .. n /\ DOMAIN h = 1 .. (n + 1)
      /\ \A i \in 1 .. n : f[i] \in Int /\ h[i] = f[i]
      /\ h[n + 1] = (IF g.counter = c THEN g.v ELSE 0)
  BY <1>1, <1>2, <1>4
<1> HIDE DEF f, h, n
<1>6. SumFunction(h) = SumFunction(f) + h[n + 1]
  <2>1. h[n + 1] \in Int
    BY <1>3, <1>5
  <2> QED BY <1>1, <1>5, <2>1, SumOfLonger
<1>7. RowSum(r, c) = SumFunction(f) /\ RowSum(s, c) = SumFunction(h)
  BY DEF RowSum, f, h
<1> HIDE DEF F
<1> QED BY <1>5, <1>6, <1>7

\* What was reported, with the fields of the scan that is under way, is what the
\* counter had gained when it was last read; the constructor reports nothing.
EnergyInv ==
  /\ TypeOK
  /\ reading = "new" => rows = <<>>
  /\ \A c \in Energies :
       Reported(c) + (IF reading = "values" THEN RowSum(row, c) ELSE 0) = previous[c] - start[c]

\* What all scans say of a counter is a number, and grows with a row.
LEMMA ReportedIsNumber ==
  ASSUME NEW s \in Seq(Row), NEW c
  PROVE  LET T(t) == SumFunction([k \in DOMAIN t |-> RowSum(t[k], c)])
         IN  /\ T(s) \in Int /\ (s = <<>> => T(s) = 0)
             /\ \A r \in Row : T(Append(s, r)) = T(s) + RowSum(r, c)
<1> DEFINE n == Len(s)
           T(t) == [k \in DOMAIN t |-> RowSum(t[k], c)]
           f == T(s)
<1>1. n \in Nat /\ DOMAIN s = 1 .. n /\ (s = <<>> => n = 0) /\ \A k \in 1 .. n : s[k] \in Row
  OBVIOUS
<1>2. DOMAIN f = 1 .. n /\ \A k \in 1 .. n : f[k] \in Int
  BY <1>1, RowSumIsNumber
<1>3. SumFunction(f) \in Int /\ (s = <<>> => SumFunction(f) = 0)
  <2> HIDE DEF f, n
  <2> QED BY <1>1, <1>2, SumOfList
<1>4. ASSUME NEW r \in Row PROVE SumFunction(T(Append(s, r))) = SumFunction(f) + RowSum(r, c)
  <2> DEFINE h == T(Append(s, r))
  <2>1. DOMAIN Append(s, r) = 1 .. (n + 1) /\ Append(s, r)[n + 1] = r
        /\ \A k \in 1 .. n : Append(s, r)[k] = s[k]
    BY <1>1
  <2>2. DOMAIN h = 1 .. (n + 1) /\ h[n + 1] = RowSum(r, c) /\ \A k \in 1 .. n : h[k] = f[k]
    BY <1>1, <2>1
  <2>3. h[n + 1] \in Int
    BY <2>2, RowSumIsNumber
  <2> HIDE DEF f, h, n
  <2>4. SumFunction(h) = SumFunction(f) + h[n + 1]
    BY <1>1, <1>2, <2>2, <2>3, SumOfLonger
  <2> QED BY <2>2, <2>4 DEF h
<1> QED BY <1>3, <1>4

\* Nothing was reported, and nothing was gained.
LEMMA EnergyInit == PowerInit => EnergyInv
<1> SUFFICES ASSUME PowerInit PROVE EnergyInv
  OBVIOUS
<1>1. TypeOK /\ rows = <<>> /\ rows \in Seq(Row) /\ reading = "new"
  BY TypeInit DEF PowerInit
<1>2. \A c \in Energies : Reported(c) = 0
  BY <1>1, ReportedIsNumber DEF Reported
<1>3. \A c \in Energies : previous[c] - start[c] = 0
  BY DEF PowerInit, Counters
<1> QED BY <1>1, <1>2, <1>3 DEF EnergyInv

\* A value that is read adds to the fields what it adds to the previous value.
LEMMA EnergyStep == EnergyInv /\ [PowerNext]_power => EnergyInv'
<1> SUFFICES ASSUME EnergyInv, [PowerNext]_power PROVE EnergyInv'
  OBVIOUS
<1>0. TypeOK' /\ (reading' = "new" => rows' = <<>>)
  <2>1. reading' = "new" => reading = "new" /\ UNCHANGED rows
    BY DEF PowerNext, Construct, Scan, Refresh, ConstructValue, ConstructFreshness,
           ConstructGeneration, StartRead, ReadFreshness, ReadGeneration, ReadValue, EndRead,
           Crash, Crashed, power
  <2> QED BY <2>1, TypeStep DEF EnergyInv
<1> SUFFICES ASSUME NEW c \in Energies
             PROVE  Reported(c)' + (IF reading' = "values" THEN RowSum(row', c) ELSE 0)
                      = previous'[c] - start'[c]
  BY <1>0 DEF EnergyInv
<1>1. TypeOK /\ TypeOK' /\ rows \in Seq(Row)
      /\ Reported(c) + (IF reading = "values" THEN RowSum(row, c) ELSE 0) = previous[c] - start[c]
      /\ previous[c] \in Int /\ start[c] \in Int /\ value[c] \in Int /\ c \in Counters
  BY TypeStep DEF EnergyInv, TypeOK, Counters
<1>2. Reported(c) \in Int
  BY <1>1, ReportedIsNumber DEF Reported
<1>3. rows' = rows => Reported(c)' = Reported(c)
  BY DEF Reported
<1>4. CASE \/ Refresh \/ ConstructFreshness \/ ConstructGeneration
           \/ StartRead \/ ReadFreshness \/ Crash \/ UNCHANGED power
  <2>1. UNCHANGED <<rows, previous, start>>
    BY <1>4 DEF Refresh, ConstructFreshness, ConstructGeneration, StartRead, ReadFreshness,
                Crash, power
  <2>2. (reading' = "values" /\ reading = "values" /\ row' = row)
        \/ (reading' # "values" /\ reading # "values")
    BY <1>4 DEF Refresh, ConstructFreshness, ConstructGeneration, StartRead, ReadFreshness,
                Crash, power
  <2> QED BY <1>1, <1>3, <2>1, <2>2
<1>5. CASE ReadGeneration
  <2>1. UNCHANGED <<rows, previous, start>> /\ reading = "generation" /\ reading' = "values"
        /\ row'.fields = <<>>
    BY <1>5 DEF ReadGeneration
  <2>2. row' \in Row
    BY <1>1, <2>1 DEF TypeOK
  <2>3. RowSum(row', c) = 0
    BY <2>1, <2>2, RowSumIsNumber
  <2> QED BY <1>1, <1>2, <1>3, <2>1, <2>3
<1>6. ASSUME NEW d \in Counters, ReadValue(d)
      PROVE  Reported(c)' + (IF reading' = "values" THEN RowSum(row', c) ELSE 0)
                      = previous'[c] - start'[c]
  <2> DEFINE f == [counter |-> d, v |-> IF d \in Energies THEN value[d] - previous[d] ELSE value[d]]
  <2>1. /\ UNCHANGED <<rows, start>> /\ reading = "values" /\ reading' = "values"
        /\ row' = [row EXCEPT !.fields = Append(@, f)] /\ previous' = Remember(d)
    BY <1>6 DEF ReadValue
  <2>2. row \in Row /\ row' \in Row
    BY <1>1, <2>1 DEF TypeOK
  <2>3. f \in Field /\ f.counter = d /\ (d = c => f.v = value[c] - previous[c])
    <3>1. value[d] \in Int /\ previous[d] \in Int
      BY <1>1 DEF TypeOK
    <3>2. f.v \in Int /\ f.v = IF d \in Energies THEN value[d] - previous[d] ELSE value[d]
      BY <3>1
    <3> QED BY <3>2 DEF Field
  <2> HIDE DEF f
  <2>4. row'.fields = Append(row.fields, f)
    BY <2>1, <2>2 DEF Row
  <2>5. RowSum(row', c) = RowSum(row, c) + (IF d = c THEN f.v ELSE 0) /\ RowSum(row, c) \in Int
    BY <2>2, <2>3, <2>4, RowSumGrows, RowSumIsNumber
  <2>6. previous'[c] = IF d = c THEN value[c] ELSE previous[c]
    BY <1>1, <2>1 DEF Remember, TypeOK
  <2>7. CASE d = c
    <3>1. RowSum(row', c) = RowSum(row, c) + (value[c] - previous[c])
      BY <2>3, <2>5, <2>7
    <3>2. Reported(c) + RowSum(row, c) = previous[c] - start[c]
      BY <1>1, <2>1
    <3> QED BY <1>1, <1>2, <1>3, <2>1, <2>5, <2>6, <2>7, <3>1, <3>2
  <2>8. CASE d # c
    BY <1>1, <1>3, <2>1, <2>5, <2>6, <2>8
  <2> QED BY <2>7, <2>8
<1>7. CASE EndRead
  <2>1. /\ UNCHANGED <<previous, start>> /\ reading = "values" /\ reading' = "idle"
        /\ rows' = Append(rows, row)
    BY <1>7 DEF EndRead
  <2>2. row \in Row
    BY <1>1, <2>1 DEF TypeOK
  <2>3. Reported(c)' = Reported(c) + RowSum(row, c)
    BY <1>1, <2>1, <2>2, ReportedIsNumber DEF Reported
  <2>4. RowSum(row, c) \in Int
    BY <2>2, RowSumIsNumber
  <2> QED BY <1>1, <1>2, <2>1, <2>3, <2>4
<1>8. ASSUME NEW d \in Counters, ConstructValue(d)
      PROVE  Reported(c)' + (IF reading' = "values" THEN RowSum(row', c) ELSE 0)
                      = previous'[c] - start'[c]
  <2>1. UNCHANGED rows /\ reading = "new" /\ reading' = "new"
        /\ previous' = [previous EXCEPT ![d] = value[d]]
        /\ start' = [start EXCEPT ![d] = value[d]]
    BY <1>8 DEF ConstructValue
  <2>2. previous \in [Counters -> Int] /\ start \in [Counters -> Int] /\ value \in [Counters -> Int]
    BY <1>1 DEF TypeOK
  <2>3. /\ previous'[c] = IF d = c THEN value[c] ELSE previous[c]
        /\ start'[c] = IF d = c THEN value[c] ELSE start[c]
    BY <1>1, <2>1, <2>2
  <2>4. Reported(c)' = Reported(c) /\ Reported(c) = 0
    <3>1. rows = <<>>
      BY <2>1 DEF EnergyInv
    <3> QED BY <1>1, <1>3, <2>1, <3>1, ReportedIsNumber DEF Reported
  <2>5. previous[c] - start[c] = 0
    BY <1>1, <2>1, <2>4
  <2>6. previous'[c] - start'[c] = 0
    <3>1. CASE d = c
      BY <1>1, <2>3, <3>1
    <3>2. CASE d # c
      BY <2>3, <2>5, <3>2
    <3> QED BY <3>1, <3>2
  <2>7. (reading' = "values") = FALSE
    BY <2>1
  <2> QED BY <1>1, <2>3, <2>4, <2>6, <2>7
<1> QED
  BY <1>4, <1>5, <1>6, <1>7, <1>8 DEF PowerNext, Construct, Scan, Crashed

\* Between two scans the energies that were reported add up to what each counter
\* gained since the constructor read it, at whatever point of a scan the controller
\* renews its files (cray_pm_counters.cpp 112-152).
THEOREM EnergyOnceHolds == PowerSpec => []EnergyOnce
<1>1. EnergyInv => EnergyOnce
  <2> SUFFICES ASSUME EnergyInv, reading = "idle", NEW c \in Energies
               PROVE  Reported(c) = previous[c] - start[c]
    BY DEF EnergyOnce
  <2>1. rows \in Seq(Row)
    BY DEF EnergyInv, TypeOK
  <2>2. Reported(c) \in Int
    BY <2>1, ReportedIsNumber DEF Reported
  <2> QED BY <2>2 DEF EnergyInv
<1> QED BY EnergyInit, EnergyStep, <1>1, PTL DEF PowerSpec

-----------------------------------------------------------------------------
(* The percentages of a CPU.                                               *)

\* Division with remainder.
LEMMA Remainder ==
  ASSUME NEW w \in Nat \ {0}, NEW a \in Int
  PROVE  a % w \in 0 .. (w - 1) /\ a \div w \in Int /\ a = w * (a \div w) + (a % w)
<1>1. a % w \in 0 .. (w - 1)
  OBVIOUS
<1>2. a \div w \in Int
  OBVIOUS
<1>3. a = w * (a \div w) + (a % w)
  OBVIOUS
<1> QED BY <1>1, <1>2, <1>3

\* What is left of a number is what makes it a multiple.
LEMMA RemainderUnique ==
  ASSUME NEW w \in Nat \ {0}, NEW q \in Int, NEW r \in 0 .. (w - 1), NEW a \in Int, a = w * q + r
  PROVE  a % w = r
<1> DEFINE p == a \div w
           s == a % w
<1>1. s \in 0 .. (w - 1) /\ p \in Int /\ a = w * p + s
  BY Remainder
<1> HIDE DEF p, s
<1>2. w * (q - p) = s - r
  BY <1>1
<1>3. CASE q - p >= 1
  <2>1. w * (q - p) >= w
    BY <1>1, <1>3
  <2> QED BY <1>1, <1>2, <2>1
<1>4. CASE q - p <= -1
  <2>1. w * (q - p) <= 0 - w
    BY <1>1, <1>4
  <2> QED BY <1>1, <1>2, <2>1
<1>5. CASE q - p = 0
  BY <1>1, <1>2, <1>5 DEF s
<1> QED BY <1>1, <1>3, <1>4, <1>5

\* Whole multiples change no remainder.
LEMMA RemainderOfMore ==
  ASSUME NEW w \in Nat \ {0}, NEW a \in Int, NEW k \in Int
  PROVE  (a + w * k) % w = a % w
<1> DEFINE p == a \div w
           s == a % w
<1>1. s \in 0 .. (w - 1) /\ p \in Int /\ a = w * p + s
  BY Remainder
<1> HIDE DEF p, s
<1>2. a + w * k = w * (p + k) + s /\ p + k \in Int /\ a + w * k \in Int
  BY <1>1
<1> DEFINE b == a + w * k
<1>3. b \in Int /\ b = w * (p + k) + s
  BY <1>2
<1> HIDE DEF b
<1>4. b % w = s
  BY <1>1, <1>2, <1>3, RemainderUnique
<1> QED BY <1>4 DEF b, s

\* A number that grows by less than the divisor passes it at most once.
LEMMA RemainderAfter ==
  ASSUME NEW w \in Nat \ {0}, NEW a \in Int, NEW d \in 0 .. (w - 1)
  PROVE  (a + d) % w = IF (a % w) + d < w THEN (a % w) + d ELSE (a % w) + d - w
<1> DEFINE p == a \div w
           s == a % w
           b == a + d
<1>1. s \in 0 .. (w - 1) /\ p \in Int /\ a = w * p + s /\ b \in Int /\ b = a + d
  BY Remainder
<1> HIDE DEF p, s, b
<1>2. CASE s + d < w
  <2>1. s + d \in 0 .. (w - 1) /\ b = w * p + (s + d)
    BY <1>1, <1>2
  <2>2. b % w = s + d
    BY <1>1, <2>1, RemainderUnique
  <2> QED BY <1>2, <2>2 DEF b, s
<1>3. CASE ~(s + d < w)
  <2> DEFINE t == s + d - w
             q == p + 1
  <2>1. t \in 0 .. (w - 1) /\ b = w * q + t /\ q \in Int /\ b \in Int
    BY <1>1, <1>3
  <2> HIDE DEF t, q
  <2>2. b % w = t
    BY <2>1, RemainderUnique
  <2> QED BY <1>3, <2>2 DEF b, s, t
<1> QED BY <1>2, <1>3 DEF s


\* An unsigned difference whose true value is d shows d, or nothing when the
\* counter has wrapped in between.
LEMMA StrSubShows ==
  ASSUME Word \in Nat \ {0}, NEW x \in Int, NEW y \in Int, NEW a \in Int, NEW d \in Nat, d < Word,
         AsUnsigned(x) = AsUnsigned(a + d), AsUnsigned(y) = AsUnsigned(a)
  PROVE  strSub(x, y) \in {0, d}
<1> DEFINE u == a % Word
           n == (a + d) % Word
<1>1. u \in 0 .. (Word - 1) /\ n = IF u + d < Word THEN u + d ELSE u + d - Word
  <2>1. d \in 0 .. (Word - 1)
    OBVIOUS
  <2> QED BY <2>1, Remainder, RemainderAfter
<1>2. AsUnsigned(x) = n /\ AsUnsigned(y) = u
  BY DEF AsUnsigned
<1> HIDE DEF u, n
<1>3. strSub(x, y) = Max({n - u, 0})
  BY <1>2 DEF strSub
<1>4. \A m \in Int : Max({m, 0}) = IF m >= 0 THEN m ELSE 0
  BY DEF Max
<1>5. n - u = d \/ (n - u \in Int /\ n - u < 0)
  BY <1>1
<1>6. CASE n - u = d
  BY <1>3, <1>4, <1>6
<1>7. CASE n - u \in Int /\ n - u < 0
  BY <1>3, <1>4, <1>7
<1> QED BY <1>5, <1>6, <1>7

\* A set with an element more.
LEMMA SumWith ==
  ASSUME NEW S, IsFiniteSet(S), NEW x, x \notin S, NEW f, \A y \in S \cup {x} : f[y] \in Int
  PROVE  /\ IsFiniteSet(S \cup {x})
         /\ SumFunctionOnSet(f, S \cup {x}) = f[x] + SumFunctionOnSet(f, S)
<1>1. IsFiniteSet(S \cup {x}) /\ (S \cup {x}) \ {x} = S
  BY FS_AddElement
<1> QED BY <1>1, SumWithout

\* A sum over the parts, written out.
LEMMA SumOfParts ==
  ASSUME NEW f, \A p \in Parts : f[p] \in Int
  PROVE  SumFunctionOnSet(f, Parts) = f["user"] + f["nice"] + f["system_all"] + f["idle_all"]
                                      + f["steal"] + f["virt_all_time"]
<1> DEFINE S1 == {} \cup {"user"}
           S2 == S1 \cup {"nice"}
           S3 == S2 \cup {"system_all"}
           S4 == S3 \cup {"idle_all"}
           S5 == S4 \cup {"steal"}
           S6 == S5 \cup {"virt_all_time"}
           T(S) == SumFunctionOnSet(f, S)
<1>0. /\ "user" \notin {} /\ "nice" \notin S1 /\ "system_all" \notin S2 /\ "idle_all" \notin S3
      /\ "steal" \notin S4 /\ "virt_all_time" \notin S5 /\ S6 = Parts
  BY DEF Parts
<1>1. /\ f["user"] \in Int /\ f["nice"] \in Int /\ f["system_all"] \in Int /\ f["idle_all"] \in Int
      /\ f["steal"] \in Int /\ f["virt_all_time"] \in Int
  BY DEF Parts
<1>2. IsFiniteSet({}) /\ T({}) = 0
  BY FS_EmptySet, SumOfEmpty
<1>3. IsFiniteSet(S1) /\ T(S1) = f["user"] + T({})
  BY <1>0, <1>1, <1>2, SumWith
<1>4. IsFiniteSet(S2) /\ T(S2) = f["nice"] + T(S1)
  <2> HIDE DEF T
  <2>1. \A y \in S1 \cup {"nice"} : f[y] \in Int
    BY <1>1
  <2> HIDE DEF S1
  <2> QED BY <1>0, <1>3, <2>1, SumWith DEF T
<1>5. IsFiniteSet(S3) /\ T(S3) = f["system_all"] + T(S2)
  <2>1. \A y \in S2 \cup {"system_all"} : f[y] \in Int
    BY <1>1
  <2> HIDE DEF S2
  <2> QED BY <1>0, <1>4, <2>1, SumWith
<1>6. IsFiniteSet(S4) /\ T(S4) = f["idle_all"] + T(S3)
  <2>1. \A y \in S3 \cup {"idle_all"} : f[y] \in Int
    BY <1>1
  <2> HIDE DEF S3
  <2> QED BY <1>0, <1>5, <2>1, SumWith
<1>7. IsFiniteSet(S5) /\ T(S5) = f["steal"] + T(S4)
  <2>1. \A y \in S4 \cup {"steal"} : f[y] \in Int
    BY <1>1
  <2> HIDE DEF S4
  <2> QED BY <1>0, <1>6, <2>1, SumWith
<1>8. T(S6) = f["virt_all_time"] + T(S5)
  <2>1. \A y \in S5 \cup {"virt_all_time"} : f[y] \in Int
    BY <1>1
  <2> HIDE DEF S5
  <2> QED BY <1>0, <1>7, <2>1, SumWith
<1> HIDE DEF S1, S2, S3, S4, S5, S6
<1>9. T(Parts) = f["user"] + f["nice"] + f["system_all"] + f["idle_all"]
                                      + f["steal"] + f["virt_all_time"]
  <2> HIDE DEF T
  <2> QED BY <1>0, <1>1, <1>2, <1>3, <1>4, <1>5, <1>6, <1>7, <1>8
<1> QED BY <1>9

\* The fields of a line, if nothing wrapped, and their names.
Exact(t) ==
  [user |-> t["user"] - t["guest"], nice |-> t["nice"] - t["guest_nice"],
   system_all |-> t["system"] + t["irq"] + t["softirq"], idle_all |-> t["idle"] + t["iowait"],
   steal |-> t["steal"], virt_all_time |-> t["guest"] + t["guest_nice"],
   system |-> t["system"], irq |-> t["irq"], softirq |-> t["softirq"], idle |-> t["idle"],
   iowait |-> t["iowait"], guest |-> t["guest"], guest_nice |-> t["guest_nice"],
   total_time |-> t["user"] + t["nice"] + t["system"] + t["irq"] + t["softirq"] + t["idle"]
                  + t["iowait"] + t["steal"]]
Fields == {"user", "nice", "system_all", "idle_all", "steal", "virt_all_time", "system", "irq",
           "softirq", "idle", "iowait", "guest", "guest_nice", "total_time"}

\* A parsed line, field by field.
LEMMA ParsedFields ==
  ASSUME NEW t
  PROVE  LET P == parseProcStat(t)
             v == [c \in Columns |-> AsUnsigned(t[c])]
         IN  /\ DOMAIN P = Fields
             /\ P["user"] = AsUnsigned(v["user"] - v["guest"])
             /\ P["nice"] = AsUnsigned(v["nice"] - v["guest_nice"])
             /\ P["system_all"] = AsUnsigned(v["system"] + v["irq"] + v["softirq"])
             /\ P["idle_all"] = AsUnsigned(v["idle"] + v["iowait"])
             /\ P["steal"] = v["steal"]
             /\ P["virt_all_time"] = AsUnsigned(v["guest"] + v["guest_nice"])
             /\ \A c \in {"system", "irq", "softirq", "idle", "iowait", "guest", "guest_nice"} :
                  P[c] = v[c]
             /\ P["total_time"] = AsUnsigned(P["user"] + P["nice"]) + P["system_all"]
                                  + P["idle_all"] + P["steal"] + P["virt_all_time"]
<1> DEFINE v == [c \in Columns |-> AsUnsigned(t[c])]
           f == [user          |-> AsUnsigned(v["user"] - v["guest"]),
                 nice          |-> AsUnsigned(v["nice"] - v["guest_nice"]),
                 system_all    |-> AsUnsigned(v["system"] + v["irq"] + v["softirq"]),
                 idle_all      |-> AsUnsigned(v["idle"] + v["iowait"]),
                 steal         |-> v["steal"],
                 virt_all_time |-> AsUnsigned(v["guest"] + v["guest_nice"])]
           P == [k \in DOMAIN f \cup {"total_time"} \cup (Columns \ {"user", "nice", "steal"}) |->
                   CASE k \in DOMAIN f -> f[k] [] k = "total_time" -> Whole(f) [] OTHER -> v[k]]
<1>1. parseProcStat(t) = P
  BY DEF parseProcStat
<1>2. DOMAIN f = {"user", "nice", "system_all", "idle_all", "steal", "virt_all_time"}
  OBVIOUS
<1> HIDE DEF f
<1>3. DOMAIN P = Fields
  <2>1. DOMAIN P = DOMAIN f \cup {"total_time"} \cup (Columns \ {"user", "nice", "steal"})
    OBVIOUS
  <2>2. Columns \ {"user", "nice", "steal"} =
          {"system", "irq", "softirq", "idle", "iowait", "guest", "guest_nice"}
    BY ONLY DEF Columns
  <2>3. Fields = {"user", "nice", "system_all", "idle_all", "steal", "virt_all_time"}
                   \cup {"total_time"}
                   \cup {"system", "irq", "softirq", "idle", "iowait", "guest", "guest_nice"}
    BY ONLY DEF Fields
  <2> HIDE DEF P
  <2> QED BY ONLY <1>2, <2>1, <2>2, <2>3
<1>4. \A k \in DOMAIN f : P[k] = f[k]
  BY <1>2
<1>5. P["total_time"] = Whole(f)
  BY <1>2
<1>6. \A c \in {"system", "irq", "softirq", "idle", "iowait", "guest", "guest_nice"} : P[c] = v[c]
  BY <1>2 DEF Columns
<1> HIDE DEF P
<1>8. /\ P["user"] = f.user /\ P["nice"] = f.nice /\ P["system_all"] = f.system_all
      /\ P["idle_all"] = f.idle_all /\ P["steal"] = f.steal /\ P["virt_all_time"] = f.virt_all_time
  BY <1>2, <1>4
<1>9. P["total_time"] = AsUnsigned(P["user"] + P["nice"]) + P["system_all"] + P["idle_all"]
                        + P["steal"] + P["virt_all_time"]
  BY <1>5, <1>8 DEF Whole
<1>10. /\ P["user"] = AsUnsigned(v["user"] - v["guest"])
       /\ P["nice"] = AsUnsigned(v["nice"] - v["guest_nice"])
       /\ P["system_all"] = AsUnsigned(v["system"] + v["irq"] + v["softirq"])
       /\ P["idle_all"] = AsUnsigned(v["idle"] + v["iowait"])
       /\ P["steal"] = v["steal"]
       /\ P["virt_all_time"] = AsUnsigned(v["guest"] + v["guest_nice"])
  BY <1>8 DEF f
<1> HIDE DEF v
<1> QED BY <1>1, <1>3, <1>6, <1>9, <1>10 DEF v

\* Unsigned values differ from the true ones by whole words.
LEMMA UnsignedIs ==
  ASSUME Word \in Nat \ {0}, NEW a \in Int
  PROVE  \E q \in Int : AsUnsigned(a) = a + Word * q
<1> DEFINE p == a \div Word
           s == a % Word
<1>1. p \in Int /\ s \in Int /\ a = Word * p + s
  BY Remainder
<1> HIDE DEF p, s
<1>2. s = a + Word * (0 - p) /\ 0 - p \in Int
  BY <1>1
<1> QED BY <1>2 DEF s, AsUnsigned

\* An unsigned value is below a word,
LEMMA UnsignedRange ==
  ASSUME Word \in Nat \ {0}, NEW a \in Int
  PROVE  AsUnsigned(a) \in 0 .. (Word - 1)
BY Remainder DEF AsUnsigned

\* is the same a whole number of words further on,
LEMMA UnsignedSame ==
  ASSUME Word \in Nat \ {0}, NEW a \in Int, NEW q \in Int, NEW b, b = a + Word * q
  PROVE  AsUnsigned(b) = AsUnsigned(a)
BY RemainderOfMore DEF AsUnsigned

\* and is the number itself when that is below a word.
LEMMA UnsignedSmall ==
  ASSUME Word \in Nat \ {0}, NEW a \in 0 .. (Word - 1)
  PROVE  AsUnsigned(a) = a
<1>1. a = Word * 0 + a /\ 0 \in Int /\ a \in Int
  OBVIOUS
<1>2. a % Word = a
  BY ONLY <1>1, RemainderUnique, Word \in Nat \ {0}, a \in 0 .. (Word - 1)
<1> QED BY <1>2 DEF AsUnsigned

\* Every field has a true value.
LEMMA ExactFields ==
  ASSUME NEW t \in [Columns -> Nat]
  PROVE  \A k \in Fields : Exact(t)[k] \in Int
BY DEF Exact, Fields, Columns

\* The parts of a line are sums of columns: where the columns differ by m[c] words,
\* they differ by as many.
WordsOf(m, q) ==
  [user |-> m["user"] - m["guest"] + q.user, nice |-> m["nice"] - m["guest_nice"] + q.nice,
   system_all |-> m["system"] + m["irq"] + m["softirq"] + q.system_all,
   idle_all |-> m["idle"] + m["iowait"] + q.idle_all, steal |-> m["steal"],
   virt_all_time |-> m["guest"] + m["guest_nice"] + q.virt_all_time,
   system |-> m["system"], irq |-> m["irq"], softirq |-> m["softirq"], idle |-> m["idle"],
   iowait |-> m["iowait"], guest |-> m["guest"], guest_nice |-> m["guest_nice"],
   total_time |-> m["user"] + m["nice"] + m["system"] + m["irq"] + m["softirq"] + m["idle"]
                  + m["iowait"] + m["steal"] + q.total_time]

\* Each field of a parsed line is the true one up to whole words.
LEMMA ParsedUnsigned ==
  ASSUME Word \in Nat \ {0}, NEW t \in [Columns -> Nat], NEW k \in Fields
  PROVE  /\ parseProcStat(t)[k] \in Int
         /\ AsUnsigned(parseProcStat(t)[k]) = AsUnsigned(Exact(t)[k])
<1> DEFINE P == parseProcStat(t)
           v == [c \in Columns |-> AsUnsigned(t[c])]
<1>1. /\ P["user"] = AsUnsigned(v["user"] - v["guest"])
      /\ P["nice"] = AsUnsigned(v["nice"] - v["guest_nice"])
      /\ P["system_all"] = AsUnsigned(v["system"] + v["irq"] + v["softirq"])
      /\ P["idle_all"] = AsUnsigned(v["idle"] + v["iowait"])
      /\ P["steal"] = v["steal"]
      /\ P["virt_all_time"] = AsUnsigned(v["guest"] + v["guest_nice"])
      /\ \A c \in {"system", "irq", "softirq", "idle", "iowait", "guest", "guest_nice"} : P[c] = v[c]
      /\ P["total_time"] = AsUnsigned(P["user"] + P["nice"]) + P["system_all"] + P["idle_all"]
                           + P["steal"] + P["virt_all_time"]
  BY ParsedFields
<1>2. PICK m \in [Columns -> Int] : \A c \in Columns : v[c] = t[c] + Word * m[c]
  <2>1. \A c \in Columns : \E q \in Int : v[c] = t[c] + Word * q
    <3> TAKE c \in Columns
    <3>1. t[c] \in Int /\ v[c] = AsUnsigned(t[c])
      OBVIOUS
    <3> HIDE DEF v
    <3> QED BY <3>1, UnsignedIs
  <2> DEFINE g == [c \in Columns |-> CHOOSE q \in Int : v[c] = t[c] + Word * q]
  <2>2. g \in [Columns -> Int] /\ \A c \in Columns : v[c] = t[c] + Word * g[c]
    BY <2>1
  <2> HIDE DEF g
  <2> QED BY <2>2
<1>3. \A c \in Columns : v[c] \in Int /\ t[c] \in Int /\ m[c] \in Int
  BY <1>2, UnsignedRange
<1> HIDE DEF v, P
<1>4. PICK qu \in Int : P["user"] = v["user"] - v["guest"] + Word * qu
  <2>1. v["user"] - v["guest"] \in Int
    BY <1>3 DEF Columns
  <2> QED BY <1>1, <2>1, UnsignedIs
<1>5. PICK qn \in Int : P["nice"] = v["nice"] - v["guest_nice"] + Word * qn
  <2>1. v["nice"] - v["guest_nice"] \in Int
    BY <1>3 DEF Columns
  <2> QED BY <1>1, <2>1, UnsignedIs
<1>a. PICK qs \in Int : P["system_all"] = v["system"] + v["irq"] + v["softirq"] + Word * qs
  <2>1. v["system"] + v["irq"] + v["softirq"] \in Int
    BY <1>3 DEF Columns
  <2> QED BY <1>1, <2>1, UnsignedIs
<1>b. PICK qi \in Int : P["idle_all"] = v["idle"] + v["iowait"] + Word * qi
  <2>1. v["idle"] + v["iowait"] \in Int
    BY <1>3 DEF Columns
  <2> QED BY <1>1, <2>1, UnsignedIs
<1>c. PICK qv \in Int : P["virt_all_time"] = v["guest"] + v["guest_nice"] + Word * qv
  <2>1. v["guest"] + v["guest_nice"] \in Int
    BY <1>3 DEF Columns
  <2> QED BY <1>1, <2>1, UnsignedIs
<1>6. PICK qt \in Int : P["total_time"] = P["user"] + P["nice"] + Word * qt + P["system_all"]
                                           + P["idle_all"] + P["steal"] + P["virt_all_time"]
  <2>1. P["user"] + P["nice"] \in Int
    BY <1>3, <1>4, <1>5 DEF Columns
  <2> QED BY <1>1, <2>1, UnsignedIs
<1> DEFINE Q == [user |-> qu, nice |-> qn, system_all |-> qs, idle_all |-> qi,
                 virt_all_time |-> qv, total_time |-> qu + qn + qs + qi + qv + qt]
<1> DEFINE M == WordsOf(m, Q)
<1>7. M[k] \in Int
  BY <1>3 DEF Fields, Columns, WordsOf
<1>8. P[k] = Exact(t)[k] + Word * M[k]
  <2>a. /\ t["user"] \in Int /\ t["nice"] \in Int /\ t["system"] \in Int /\ t["irq"] \in Int
        /\ t["softirq"] \in Int /\ t["idle"] \in Int /\ t["iowait"] \in Int
        /\ t["steal"] \in Int /\ t["guest"] \in Int /\ t["guest_nice"] \in Int
        /\ m["user"] \in Int /\ m["nice"] \in Int /\ m["system"] \in Int /\ m["irq"] \in Int
        /\ m["softirq"] \in Int /\ m["idle"] \in Int /\ m["iowait"] \in Int
        /\ m["steal"] \in Int /\ m["guest"] \in Int /\ m["guest_nice"] \in Int
    BY <1>3 DEF Columns
  <2>b. /\ v["user"] = t["user"] + Word * m["user"] /\ v["nice"] = t["nice"] + Word * m["nice"]
        /\ v["system"] = t["system"] + Word * m["system"] /\ v["irq"] = t["irq"] + Word * m["irq"]
        /\ v["softirq"] = t["softirq"] + Word * m["softirq"]
        /\ v["idle"] = t["idle"] + Word * m["idle"]
        /\ v["iowait"] = t["iowait"] + Word * m["iowait"]
        /\ v["steal"] = t["steal"] + Word * m["steal"]
        /\ v["guest"] = t["guest"] + Word * m["guest"]
        /\ v["guest_nice"] = t["guest_nice"] + Word * m["guest_nice"]
    BY <1>2 DEF Columns
  <2>1. \A c \in {"system", "irq", "softirq", "idle", "iowait", "guest", "guest_nice"} :
          P[c] = t[c] + Word * m[c]
    BY <1>1, <1>2 DEF Columns
  <2>2. P["steal"] = t["steal"] + Word * m["steal"]
    BY <1>1, <2>b
  <2>3. P["user"] = t["user"] - t["guest"] + Word * (m["user"] - m["guest"] + qu)
    BY ONLY <1>4, <2>a, <2>b, qu \in Int, Word \in Nat \ {0}
  <2>4. P["nice"] = t["nice"] - t["guest_nice"] + Word * (m["nice"] - m["guest_nice"] + qn)
    BY ONLY <1>5, <2>a, <2>b, qn \in Int, Word \in Nat \ {0}
  <2>5. P["system_all"] = t["system"] + t["irq"] + t["softirq"]
                          + Word * (m["system"] + m["irq"] + m["softirq"] + qs)
    BY ONLY <1>a, <2>a, <2>b, qs \in Int, Word \in Nat \ {0}
  <2>6. P["idle_all"] = t["idle"] + t["iowait"] + Word * (m["idle"] + m["iowait"] + qi)
    BY ONLY <1>b, <2>a, <2>b, qi \in Int, Word \in Nat \ {0}
  <2>7. P["virt_all_time"] = t["guest"] + t["guest_nice"]
                             + Word * (m["guest"] + m["guest_nice"] + qv)
    BY ONLY <1>c, <2>a, <2>b, qv \in Int, Word \in Nat \ {0}
  <2>8. P["total_time"] =
          t["user"] + t["nice"] + t["system"] + t["irq"] + t["softirq"] + t["idle"]
          + t["iowait"] + t["steal"]
          + Word * (m["user"] + m["nice"] + m["system"] + m["irq"] + m["softirq"] + m["idle"]
                    + m["iowait"] + m["steal"] + (qu + qn + qs + qi + qv + qt))
    <3> DEFINE e1 == t["user"] - t["guest"]
               e2 == t["nice"] - t["guest_nice"]
               e3 == t["system"] + t["irq"] + t["softirq"]
               e4 == t["idle"] + t["iowait"]
               e5 == t["steal"]
               e6 == t["guest"] + t["guest_nice"]
               m1 == m["user"] - m["guest"] + qu
               m2 == m["nice"] - m["guest_nice"] + qn
               m3 == m["system"] + m["irq"] + m["softirq"] + qs
               m4 == m["idle"] + m["iowait"] + qi
               m5 == m["steal"]
               m6 == m["guest"] + m["guest_nice"] + qv
    <3>1. /\ e1 \in Int /\ e2 \in Int /\ e3 \in Int /\ e4 \in Int /\ e5 \in Int /\ e6 \in Int
          /\ m1 \in Int /\ m2 \in Int /\ m3 \in Int /\ m4 \in Int /\ m5 \in Int /\ m6 \in Int
      BY ONLY <2>a, qu \in Int, qn \in Int, qs \in Int, qi \in Int, qv \in Int
    <3>2. /\ e1 + e2 + e3 + e4 + e5 + e6 =
               t["user"] + t["nice"] + t["system"] + t["irq"] + t["softirq"] + t["idle"]
               + t["iowait"] + t["steal"]
          /\ m1 + m2 + m3 + m4 + m5 + m6 + qt =
               m["user"] + m["nice"] + m["system"] + m["irq"] + m["softirq"] + m["idle"]
               + m["iowait"] + m["steal"] + (qu + qn + qs + qi + qv + qt)
      BY ONLY <2>a, qu \in Int, qn \in Int, qs \in Int, qi \in Int, qv \in Int, qt \in Int
    <3>3. P["total_time"] = (e1 + Word * m1) + (e2 + Word * m2) + Word * qt + (e3 + Word * m3)
                            + (e4 + Word * m4) + (e5 + Word * m5) + (e6 + Word * m6)
      BY ONLY <1>6, <2>2, <2>3, <2>4, <2>5, <2>6, <2>7
    <3> HIDE DEF e1, e2, e3, e4, e5, e6, m1, m2, m3, m4, m5, m6
    <3>4. P["total_time"] = (e1 + e2 + e3 + e4 + e5 + e6)
                            + Word * (m1 + m2 + m3 + m4 + m5 + m6 + qt)
      BY ONLY <3>1, <3>3, qt \in Int, Word \in Nat \ {0}
    <3> QED BY ONLY <3>2, <3>4
  <2> QED BY <2>1, <2>2, <2>3, <2>4, <2>5, <2>6, <2>7, <2>8 DEF Exact, Fields, WordsOf
<1> HIDE DEF M
<1>9. Exact(t)[k] \in Int
  BY ExactFields
<1>10. P[k] \in Int
  BY <1>7, <1>8, <1>9
<1>11. AsUnsigned(P[k]) = AsUnsigned(Exact(t)[k])
  BY <1>7, <1>8, <1>9, UnsignedSame
<1> QED BY <1>10, <1>11 DEF P

\* What a line counts over time adds up.
LEMMA ExactAdds ==
  ASSUME NEW t \in [Columns -> Nat], NEW s \in [Columns -> Nat], NEW k \in Fields
  PROVE  Exact([c \in Columns |-> t[c] + s[c]])[k] = Exact(t)[k] + Exact(s)[k]
<1> DEFINE a == [c \in Columns |-> t[c] + s[c]]
<1>1. \A c \in Columns : t[c] \in Int /\ s[c] \in Int /\ a[c] = t[c] + s[c]
  OBVIOUS
<1> HIDE DEF a
<1> QED BY <1>1 DEF Exact, Fields, Columns

\* No part of a line is above its total when a guest's time is in the user's.
LEMMA ExactBounded ==
  ASSUME NEW s \in [Columns -> Nat], s["guest"] <= s["user"], s["guest_nice"] <= s["nice"]
  PROVE  /\ Exact(s)["total_time"] \in Nat
         /\ \A k \in Fields : Exact(s)[k] \in 0 .. Exact(s)["total_time"]
         /\ Exact(s)["user"] + Exact(s)["nice"] + Exact(s)["system_all"] + Exact(s)["idle_all"]
            + Exact(s)["steal"] + Exact(s)["virt_all_time"] = Exact(s)["total_time"]
<1>1. \A c \in Columns : s[c] \in Nat
  OBVIOUS
<1> QED BY <1>1 DEF Exact, Fields, Columns

\* A field that stood at b and grew by d, read as y and then as x, and the total of
\* the line likewise: what was read is right up to whole words.
Sampled(b, d, x, y, B, D, X, Y) ==
  /\ b \in Int /\ d \in 0 .. D /\ x \in Int /\ y \in Int
  /\ B \in Int /\ D \in Nat /\ X \in Int /\ Y \in Int
  /\ AsUnsigned(x) = AsUnsigned(b + d) /\ AsUnsigned(y) = AsUnsigned(b)
  /\ AsUnsigned(X) = AsUnsigned(B + D) /\ AsUnsigned(Y) = AsUnsigned(B)
  /\ 100 * D < Word

\* A row is at most the share of the time that was spent.
Bounded(r, d, D) == r \in 0 .. 100 /\ D * r <= 100 * d /\ (D = 0 => r = 0)

\* One row: its value is at most its share of the time that was spent.
LEMMA RowShows ==
  ASSUME Word \in Nat \ {0}, NEW b, NEW d, NEW x, NEW y, NEW B, NEW D, NEW X, NEW Y,
         Sampled(b, d, x, y, B, D, X, Y)
  PROVE  Bounded(strPercentage(x, y, X, Y), d, D)
<1>0. /\ b \in Int /\ d \in 0 .. D /\ d \in Nat /\ x \in Int /\ y \in Int
      /\ B \in Int /\ D \in Nat /\ X \in Int /\ Y \in Int
      /\ AsUnsigned(x) = AsUnsigned(b + d) /\ AsUnsigned(y) = AsUnsigned(b)
      /\ AsUnsigned(X) = AsUnsigned(B + D) /\ AsUnsigned(Y) = AsUnsigned(B)
      /\ 100 * D < Word
  BY DEF Sampled
<1> USE <1>0
<1> DEFINE all == strSub(X, Y)
           part == strSub(x, y)
           n == AsUnsigned(part * 100)
           r == strPercentage(x, y, X, Y)
<1>1. all \in {0, D}
  BY StrSubShows
<1>2. part \in {0, d}
  <2>1. d \in Nat /\ d < Word
    OBVIOUS
  <2> QED BY <2>1, StrSubShows
<1>3. r = IF all > 0 THEN n \div all ELSE 0
  BY DEF strPercentage
<1> HIDE DEF all, part, r
<1>4. part * 100 \in 0 .. (Word - 1) /\ part * 100 <= 100 * d
  BY <1>2
<1>5. n \in Nat /\ n <= 100 * d
  BY <1>4, UnsignedSmall
<1> HIDE DEF n
<1>6. CASE ~(all > 0)
  BY <1>3, <1>6 DEF r, Bounded
<1>7. CASE all > 0
  <2>1. all = D /\ D \in Nat \ {0}
    BY <1>1, <1>7
  <2>2. r = n \div D
    BY <1>3, <1>7, <2>1
  <2>3. n % D \in 0 .. (D - 1) /\ n \div D \in Int /\ n = D * (n \div D) + (n % D)
    <3>1. n \in Int /\ D \in Nat \ {0}
      BY <1>5, <2>1
    <3> QED BY ONLY <3>1, Remainder
  <2>4. r \in Int /\ D * r <= n /\ n <= D * r + D - 1
    <3> DEFINE p == n \div D
               s == n % D
    <3>1. s \in 0 .. (D - 1) /\ p \in Int /\ n = D * p + s /\ r = p
      BY <2>2, <2>3
    <3> HIDE DEF p, s
    <3>2. D \in Nat /\ n \in Nat
      BY <1>5
    <3> QED BY ONLY <3>1, <3>2
  <2>5. D * r <= 100 * d
    BY <1>5, <2>4
  <2>6. r >= 0
    <3>1. CASE r <= -1
      <4>1. D * r <= 0 - D
        BY <2>1, <2>4, <3>1
      <4> QED BY <1>5, <2>1, <2>4, <4>1
    <3> QED BY <2>4, <3>1
  <2>7. r <= 100
    <3>1. CASE r >= 101
      <4>1. r - 101 \in Nat /\ r \in Int /\ D \in Nat \ {0}
        BY <2>1, <2>4, <3>1
      <4>2. D * (r - 101) >= 0 /\ D * (r - 101) = D * r - 101 * D
        BY ONLY <4>1
      <4> DEFINE z == D * r
      <4>3. z \in Int /\ z - 101 * D >= 0 /\ z <= 100 * d /\ d <= D /\ d \in Nat
        BY <2>5, <4>1, <4>2
      <4> HIDE DEF z
      <4> QED BY ONLY <4>1, <4>3
    <3> QED BY <2>4, <3>1
  <2>8. r \in 0 .. 100
    BY <2>4, <2>6, <2>7
  <2> QED BY <2>1, <2>5, <2>8 DEF r, Bounded
<1> QED BY <1>6, <1>7

\* Without wrapping, a row shows the share itself.
LEMMA RowIsShare ==
  ASSUME Word \in Nat \ {0}, NEW b, NEW d, NEW x, NEW y, NEW B, NEW D, NEW X, NEW Y,
         Sampled(b, d, x, y, B, D, X, Y),
         b >= 0, B >= 0, D > 0, b + d < Word, B + D < Word
  PROVE  strPercentage(x, y, X, Y) = (d * 100) \div D
<1>0. /\ b \in Nat /\ d \in 0 .. D /\ d \in Nat /\ x \in Int /\ y \in Int
      /\ B \in Nat /\ D \in Nat \ {0} /\ X \in Int /\ Y \in Int
      /\ AsUnsigned(x) = AsUnsigned(b + d) /\ AsUnsigned(y) = AsUnsigned(b)
      /\ AsUnsigned(X) = AsUnsigned(B + D) /\ AsUnsigned(Y) = AsUnsigned(B)
      /\ 100 * D < Word
  BY DEF Sampled
<1> USE <1>0
<1>1. /\ AsUnsigned(x) = b + d /\ AsUnsigned(y) = b
      /\ AsUnsigned(X) = B + D /\ AsUnsigned(Y) = B
  <2>1. /\ b + d \in 0 .. (Word - 1) /\ b \in 0 .. (Word - 1)
        /\ B + D \in 0 .. (Word - 1) /\ B \in 0 .. (Word - 1)
    OBVIOUS
  <2> QED BY <2>1, UnsignedSmall
<1>2. \A m \in Nat : Max({m, 0}) = m
  BY DEF Max
<1>3. strSub(x, y) = d /\ strSub(X, Y) = D
  <2>1. d \in Nat /\ D \in Nat /\ (b + d) - b = d /\ (B + D) - B = D
    OBVIOUS
  <2> QED BY <1>1, <1>2, <2>1 DEF strSub
<1>4. d * 100 \in 0 .. (Word - 1) /\ D > 0
  OBVIOUS
<1>5. AsUnsigned(d * 100) = d * 100
  BY <1>4, UnsignedSmall
<1> QED BY <1>3, <1>4, <1>5 DEF strPercentage

\* A sum over the columns, written out.
LEMMA SumOfColumns ==
  ASSUME NEW f, \A c \in Columns : f[c] \in Int
  PROVE  SumFunctionOnSet(f, Columns) = f["user"] + f["nice"] + f["system"] + f["idle"]
           + f["iowait"] + f["irq"] + f["softirq"] + f["steal"] + f["guest"] + f["guest_nice"]
<1> DEFINE S1 == {} \cup {"user"}
           S2 == S1 \cup {"nice"}
           S3 == S2 \cup {"system"}
           S4 == S3 \cup {"idle"}
           S5 == S4 \cup {"iowait"}
           S6 == S5 \cup {"irq"}
           S7 == S6 \cup {"softirq"}
           S8 == S7 \cup {"steal"}
           S9 == S8 \cup {"guest"}
           S10 == S9 \cup {"guest_nice"}
           T(S) == SumFunctionOnSet(f, S)
<1>0. /\ "user" \notin {}
      /\ "nice" \notin S1
      /\ "system" \notin S2
      /\ "idle" \notin S3
      /\ "iowait" \notin S4
      /\ "irq" \notin S5
      /\ "softirq" \notin S6
      /\ "steal" \notin S7
      /\ "guest" \notin S8
      /\ "guest_nice" \notin S9
      /\ S10 = Columns
  BY DEF Columns
<1>1. \A c \in S10 : f[c] \in Int
  BY <1>0
<1>2. IsFiniteSet({}) /\ T({}) = 0
  BY FS_EmptySet, SumOfEmpty
<1>3. IsFiniteSet(S1) /\ T(S1) = f["user"] + T({})
  <2>1. \A y \in {} \cup {"user"} : f[y] \in Int
    BY <1>1
  <2> QED BY <1>0, <1>2, <2>1, SumWith
<1>4. IsFiniteSet(S2) /\ T(S2) = f["nice"] + T(S1)
  <2>1. \A y \in S1 \cup {"nice"} : f[y] \in Int
    BY <1>1
  <2> HIDE DEF S1
  <2> QED BY <1>0, <1>3, <2>1, SumWith
<1>5. IsFiniteSet(S3) /\ T(S3) = f["system"] + T(S2)
  <2>1. \A y \in S2 \cup {"system"} : f[y] \in Int
    BY <1>1
  <2> HIDE DEF S2
  <2> QED BY <1>0, <1>4, <2>1, SumWith
<1>6. IsFiniteSet(S4) /\ T(S4) = f["idle"] + T(S3)
  <2>1. \A y \in S3 \cup {"idle"} : f[y] \in Int
    BY <1>1
  <2> HIDE DEF S3
  <2> QED BY <1>0, <1>5, <2>1, SumWith
<1>7. IsFiniteSet(S5) /\ T(S5) = f["iowait"] + T(S4)
  <2>1. \A y \in S4 \cup {"iowait"} : f[y] \in Int
    BY <1>1
  <2> HIDE DEF S4
  <2> QED BY <1>0, <1>6, <2>1, SumWith
<1>8. IsFiniteSet(S6) /\ T(S6) = f["irq"] + T(S5)
  <2>1. \A y \in S5 \cup {"irq"} : f[y] \in Int
    BY <1>1
  <2> HIDE DEF S5
  <2> QED BY <1>0, <1>7, <2>1, SumWith
<1>9. IsFiniteSet(S7) /\ T(S7) = f["softirq"] + T(S6)
  <2>1. \A y \in S6 \cup {"softirq"} : f[y] \in Int
    BY <1>1
  <2> HIDE DEF S6
  <2> QED BY <1>0, <1>8, <2>1, SumWith
<1>10. IsFiniteSet(S8) /\ T(S8) = f["steal"] + T(S7)
  <2>1. \A y \in S7 \cup {"steal"} : f[y] \in Int
    BY <1>1
  <2> HIDE DEF S7
  <2> QED BY <1>0, <1>9, <2>1, SumWith
<1>11. IsFiniteSet(S9) /\ T(S9) = f["guest"] + T(S8)
  <2>1. \A y \in S8 \cup {"guest"} : f[y] \in Int
    BY <1>1
  <2> HIDE DEF S8
  <2> QED BY <1>0, <1>10, <2>1, SumWith
<1>12. IsFiniteSet(S10) /\ T(S10) = f["guest_nice"] + T(S9)
  <2>1. \A y \in S9 \cup {"guest_nice"} : f[y] \in Int
    BY <1>1
  <2> HIDE DEF S9
  <2> QED BY <1>0, <1>11, <2>1, SumWith
<1>13. /\ f["user"] \in Int /\ f["nice"] \in Int /\ f["system"] \in Int /\ f["idle"] \in Int
       /\ f["iowait"] \in Int /\ f["irq"] \in Int /\ f["softirq"] \in Int /\ f["steal"] \in Int
       /\ f["guest"] \in Int /\ f["guest_nice"] \in Int
  BY DEF Columns
<1> HIDE DEF S1, S2, S3, S4, S5, S6, S7, S8, S9, S10
<1>14. T(Columns) = f["user"] + f["nice"] + f["system"] + f["idle"] + f["iowait"] + f["irq"]
                    + f["softirq"] + f["steal"] + f["guest"] + f["guest_nice"]
  <2> HIDE DEF T
  <2> QED BY <1>0, <1>2, <1>3, <1>4, <1>5, <1>6, <1>7, <1>8, <1>9, <1>10, <1>11, <1>12, <1>13
<1> QED BY <1>14

\* What the columns of a line that is short of a word parse to.
LEMMA ParsedSmall ==
  ASSUME Word \in Nat \ {0}, NEW s \in [Columns -> Nat], s["guest"] <= s["user"],
         s["guest_nice"] <= s["nice"], Exact(s)["total_time"] < Word
  PROVE  /\ \A p \in Parts : parseProcStat(s)[p] = Exact(s)[p]
         /\ Whole(parseProcStat(s)) = Exact(s)["total_time"]
<1> DEFINE P == parseProcStat(s)
           v == [c \in Columns |-> AsUnsigned(s[c])]
<1>1. /\ P["user"] = AsUnsigned(v["user"] - v["guest"])
      /\ P["nice"] = AsUnsigned(v["nice"] - v["guest_nice"])
      /\ P["system_all"] = AsUnsigned(v["system"] + v["irq"] + v["softirq"])
      /\ P["idle_all"] = AsUnsigned(v["idle"] + v["iowait"])
      /\ P["steal"] = v["steal"]
      /\ P["virt_all_time"] = AsUnsigned(v["guest"] + v["guest_nice"])
  BY ParsedFields
<1>2. \A c \in Columns : v[c] = AsUnsigned(s[c]) /\ s[c] \in Int
  OBVIOUS
<1>3. \A c \in Columns : v[c] \in Int
  BY <1>2, UnsignedRange
<1> HIDE DEF v, P
<1>4. \A p \in Parts : \E a \in Int : P[p] = AsUnsigned(a)
  BY <1>1, <1>2, <1>3 DEF Parts, Columns
<1>5. /\ Exact(s)["total_time"] \in Nat
      /\ \A k \in Fields : Exact(s)[k] \in 0 .. Exact(s)["total_time"]
      /\ Exact(s)["user"] + Exact(s)["nice"] + Exact(s)["system_all"] + Exact(s)["idle_all"]
            + Exact(s)["steal"] + Exact(s)["virt_all_time"] = Exact(s)["total_time"]
  BY ExactBounded
<1>6. \A p \in Parts : P[p] = Exact(s)[p]
  <2> TAKE p \in Parts
  <2>1. p \in Fields
    BY DEF Parts, Fields
  <2>2. P[p] \in 0 .. (Word - 1)
    BY <1>4, UnsignedRange
  <2>3. AsUnsigned(P[p]) = P[p]
    BY <2>2, UnsignedSmall
  <2>4. Exact(s)[p] \in 0 .. (Word - 1)
    BY <1>5, <2>1
  <2>5. AsUnsigned(Exact(s)[p]) = Exact(s)[p]
    BY <2>4, UnsignedSmall
  <2>6. AsUnsigned(P[p]) = AsUnsigned(Exact(s)[p])
    BY <2>1, ParsedUnsigned DEF P
  <2> QED BY <2>3, <2>5, <2>6
<1>7. Whole(P) = Exact(s)["total_time"]
  <2> DEFINE E == Exact(s)
  <2>1. /\ P.user = E["user"] /\ P.nice = E["nice"] /\ P.system_all = E["system_all"]
        /\ P.idle_all = E["idle_all"] /\ P.steal = E["steal"]
        /\ P.virt_all_time = E["virt_all_time"]
    BY <1>6 DEF Parts
  <2> HIDE DEF E
  <2>2. /\ E["user"] \in Nat /\ E["nice"] \in Nat /\ E["system_all"] \in Nat
        /\ E["idle_all"] \in Nat /\ E["steal"] \in Nat /\ E["virt_all_time"] \in Nat
        /\ E["total_time"] \in Nat
    BY <1>5 DEF E, Fields
  <2>3. E["user"] + E["nice"] + E["system_all"] + E["idle_all"] + E["steal"]
        + E["virt_all_time"] = E["total_time"] /\ E["total_time"] < Word
    BY <1>5 DEF E
  <2>4. E["user"] + E["nice"] \in 0 .. (Word - 1)
    BY <2>2, <2>3
  <2>5. AsUnsigned(E["user"] + E["nice"]) = E["user"] + E["nice"]
    BY <2>4, UnsignedSmall
  <2> QED BY <2>1, <2>3, <2>5 DEF Whole, E
<1> QED BY <1>6, <1>7 DEF P

\* The rows of a CPU stay within 100 % (utils.cpp 294-346, hardware.h 71-113): whatever
\* the unsigned counters stand at, be it just before they wrap, each row is at most
\* 100, the parts together are at most 100, and each shows its share while nothing
\* wraps. It holds of counters that only grow, of which a guest's time is in the user's,
\* and when a hundred times what was spent between two samples fits into a word: the
\* row multiplies before it divides.
THEOREM PercentagesStayBounded ==
  ASSUME Word \in Nat \ {0}, NEW before \in [Columns -> Nat], NEW spent \in [Columns -> Nat],
         before["guest"] <= before["user"], before["guest_nice"] <= before["nice"],
         spent["guest"] <= spent["user"], spent["guest_nice"] <= spent["nice"],
         100 * Exact(spent)["total_time"] < Word
  PROVE  PercentagesBoundedFor(before, spent)
<1> DEFINE after == [c \in Columns |-> before[c] + spent[c]]
           X == parseProcStat(after)
           Y == parseProcStat(before)
           percents == fieldsToCSV(X, Y)
           all == Whole(parseProcStat(spent))
           E == Exact(spent)
           B == Exact(before)
           D == E["total_time"]
<1>1. /\ D \in Nat
      /\ \A k \in Fields : E[k] \in 0 .. D
      /\ E["user"] + E["nice"] + E["system_all"] + E["idle_all"] + E["steal"]
         + E["virt_all_time"] = D
  BY ExactBounded
<1>2. /\ B["total_time"] \in Nat
      /\ \A k \in Fields : B[k] \in Nat
  BY ExactBounded
<1>3. after \in [Columns -> Nat]
  OBVIOUS
<1>4. \A k \in Fields : /\ X[k] \in Int /\ AsUnsigned(X[k]) = AsUnsigned(B[k] + E[k])
                        /\ Y[k] \in Int /\ AsUnsigned(Y[k]) = AsUnsigned(B[k])
  <2> TAKE k \in Fields
  <2>1. Exact(after)[k] = B[k] + E[k]
    BY ExactAdds
  <2> HIDE DEF after, E, B
  <2>2. X[k] \in Int /\ AsUnsigned(X[k]) = AsUnsigned(Exact(after)[k])
    BY <1>3, ParsedUnsigned
  <2>3. Y[k] \in Int /\ AsUnsigned(Y[k]) = AsUnsigned(B[k])
    BY ParsedUnsigned DEF B
  <2> QED BY <2>1, <2>2, <2>3
<1>5. DOMAIN X = Fields
  BY ParsedFields
<1>6. DOMAIN percents = Fields /\ \A k \in Fields :
        percents[k] = strPercentage(X[k], Y[k], X["total_time"], Y["total_time"])
  <2> HIDE DEF X, Y
  <2> QED BY <1>5 DEF fieldsToCSV
<1>7. 100 * D < Word
  OBVIOUS
<1> HIDE DEF after, X, Y, percents, all, E, B
<1>8. "total_time" \in Fields /\ Parts \subseteq Fields
  BY DEF Fields, Parts
<1> HIDE DEF D
<1>t. /\ B["total_time"] \in Int /\ X["total_time"] \in Int /\ Y["total_time"] \in Int
      /\ AsUnsigned(X["total_time"]) = AsUnsigned(B["total_time"] + D)
      /\ AsUnsigned(Y["total_time"]) = AsUnsigned(B["total_time"])
  BY <1>2, <1>4, <1>8 DEF D
<1>9. \A k \in Fields : percents[k] \in 0 .. 100 /\ D * percents[k] <= 100 * E[k] /\ (D = 0 => percents[k] = 0)
  <2> TAKE k \in Fields
  <2>1. /\ B[k] \in Int /\ E[k] \in 0 .. D /\ X[k] \in Int /\ Y[k] \in Int
        /\ AsUnsigned(X[k]) = AsUnsigned(B[k] + E[k]) /\ AsUnsigned(Y[k]) = AsUnsigned(B[k])
    BY <1>1, <1>2, <1>4
  <2>2. Bounded(strPercentage(X[k], Y[k], X["total_time"], Y["total_time"]), E[k], D)
    <3>1. Sampled(B[k], E[k], X[k], Y[k], B["total_time"], D, X["total_time"], Y["total_time"])
      BY <1>1, <1>7, <1>t, <2>1 DEF Sampled
    <3> QED BY ONLY <3>1, RowShows, Word \in Nat \ {0}
  <2> QED BY <1>6, <2>2 DEF Bounded
<1>10. SumFunctionOnSet(percents, Parts) <= 100
  <2>1. \A p \in Parts : percents[p] \in Int
    BY <1>8, <1>9
  <2>2. SumFunctionOnSet(percents, Parts) = percents["user"] + percents["nice"] + percents["system_all"]
          + percents["idle_all"] + percents["steal"] + percents["virt_all_time"]
    BY <2>1, SumOfParts
  <2> DEFINE r1 == percents["user"]
             r2 == percents["nice"]
             r3 == percents["system_all"]
             r4 == percents["idle_all"]
             r5 == percents["steal"]
             r6 == percents["virt_all_time"]
             sum == r1 + r2 + r3 + r4 + r5 + r6
  <2>3. /\ r1 \in 0 .. 100 /\ D * r1 <= 100 * E["user"] /\ (D = 0 => r1 = 0)
        /\ r2 \in 0 .. 100 /\ D * r2 <= 100 * E["nice"] /\ (D = 0 => r2 = 0)
        /\ r3 \in 0 .. 100 /\ D * r3 <= 100 * E["system_all"] /\ (D = 0 => r3 = 0)
        /\ r4 \in 0 .. 100 /\ D * r4 <= 100 * E["idle_all"] /\ (D = 0 => r4 = 0)
        /\ r5 \in 0 .. 100 /\ D * r5 <= 100 * E["steal"] /\ (D = 0 => r5 = 0)
        /\ r6 \in 0 .. 100 /\ D * r6 <= 100 * E["virt_all_time"] /\ (D = 0 => r6 = 0)
    BY <1>8, <1>9 DEF Parts
  <2>4. /\ E["user"] \in Int /\ E["nice"] \in Int /\ E["system_all"] \in Int
        /\ E["idle_all"] \in Int /\ E["steal"] \in Int /\ E["virt_all_time"] \in Int
    BY <1>1 DEF Fields
  <2> HIDE DEF r1, r2, r3, r4, r5, r6
  <2>5. sum \in Nat /\ (D = 0 => sum = 0)
    BY <2>3
  <2>6. D * sum <= 100 * D
    <3>1. D * sum = D * r1 + D * r2 + D * r3 + D * r4 + D * r5 + D * r6
      BY <1>1, <2>3
    <3> DEFINE d1 == D * r1
               d2 == D * r2
               d3 == D * r3
               d4 == D * r4
               d5 == D * r5
               d6 == D * r6
               all6 == D * sum
    <3>2. /\ d1 \in Int /\ d2 \in Int /\ d3 \in Int /\ d4 \in Int /\ d5 \in Int /\ d6 \in Int
      BY <1>1, <2>3
    <3>3. /\ d1 <= 100 * E["user"] /\ d2 <= 100 * E["nice"] /\ d3 <= 100 * E["system_all"]
          /\ d4 <= 100 * E["idle_all"] /\ d5 <= 100 * E["steal"] /\ d6 <= 100 * E["virt_all_time"]
          /\ all6 = d1 + d2 + d3 + d4 + d5 + d6
      BY <2>3, <3>1
    <3> HIDE DEF d1, d2, d3, d4, d5, d6, all6
    <3>4. all6 <= 100 * D
      BY <1>1, <2>4, <3>2, <3>3
    <3> QED BY <3>4 DEF all6
  <2> HIDE DEF sum
  <2>7. sum <= 100
    <3>1. CASE D = 0
      BY <2>5, <3>1
    <3>2. CASE D # 0 /\ sum >= 101
      <4>1. sum - 101 \in Nat /\ sum \in Int /\ D \in Nat \ {0}
        BY <1>1, <2>5, <3>2
      <4>2. D * (sum - 101) >= 0 /\ D * (sum - 101) = D * sum - 101 * D
        BY ONLY <4>1
      <4> DEFINE z == D * sum
      <4>3. z \in Int /\ z - 101 * D >= 0 /\ z <= 100 * D
        BY <2>6, <4>1, <4>2
      <4> HIDE DEF z
      <4> QED BY ONLY <4>1, <4>3
    <3> QED BY <2>5, <3>1, <3>2
  <2> QED BY <2>2, <2>7 DEF sum, r1, r2, r3, r4, r5, r6
<1>11. ASSUME all > 0, SumFunctionOnSet(after, Columns) < Word, NEW p \in Parts
       PROVE  percents[p] = (parseProcStat(spent)[p] * 100) \div all
  <2>1. parseProcStat(spent)[p] = E[p] /\ all = D
    <3>1. Exact(spent)["total_time"] < Word
      BY <1>1, <1>7 DEF D, E
    <3> QED BY <3>1, ParsedSmall DEF E, D, all
  <2>2. B["total_time"] + D < Word
    <3>1. \A c \in Columns : after[c] = before[c] + spent[c] /\ before[c] \in Nat /\ spent[c] \in Nat
      BY DEF after
    <3>2. \A c \in Columns : after[c] \in Int
      BY <1>3
    <3>3. SumFunctionOnSet(after, Columns) = after["user"] + after["nice"] + after["system"]
            + after["idle"] + after["iowait"] + after["irq"] + after["softirq"] + after["steal"]
            + after["guest"] + after["guest_nice"]
      BY <3>2, SumOfColumns
    <3>4. B["total_time"] + D <= SumFunctionOnSet(after, Columns)
      BY <3>1, <3>3 DEF B, D, E, Exact, Columns
    <3> QED BY <1>1, <1>2, <1>11, <3>2, <3>3, <3>4 DEF Columns
  <2>3. p \in Fields /\ E[p] \in 0 .. D /\ B[p] \in Nat
    BY <1>1, <1>2, <1>8
  <2>4. B[p] + E[p] < Word
    <3>1. B[p] <= B["total_time"]
      BY <2>3, ExactBounded DEF B
    <3> QED BY <1>1, <1>2, <2>2, <2>3, <3>1
  <2>5. D \in Nat \ {0}
    BY <1>1, <1>11, <2>1
  <2>6. /\ X[p] \in Int /\ AsUnsigned(X[p]) = AsUnsigned(B[p] + E[p])
        /\ Y[p] \in Int /\ AsUnsigned(Y[p]) = AsUnsigned(B[p]) /\ B["total_time"] \in Nat
    BY <1>2, <1>4, <2>3
  <2>7. strPercentage(X[p], Y[p], X["total_time"], Y["total_time"]) = (E[p] * 100) \div D
    <3>1. Sampled(B[p], E[p], X[p], Y[p], B["total_time"], D, X["total_time"], Y["total_time"])
      BY <1>1, <1>7, <1>t, <2>3, <2>6 DEF Sampled
    <3>2. B[p] >= 0 /\ B["total_time"] >= 0 /\ D > 0
      BY <1>2, <2>3, <2>5
    <3> QED BY ONLY <2>2, <2>4, <3>1, <3>2, RowIsShare, Word \in Nat \ {0}
  <2> QED BY <1>6, <2>1, <2>3, <2>7
<1>12. \A k \in DOMAIN percents : percents[k] <= 100
  BY <1>6, <1>9
<1> QED BY <1>10, <1>11, <1>12 DEF PercentagesBoundedFor, after, X, Y, percents, all

-----------------------------------------------------------------------------
(* The averages of the reports.                                            *)

\* A non-empty set of small numbers has a least and a greatest element.
LEMMA MinMaxOfNumbers ==
  ASSUME NEW w \in Nat, NEW S \in SUBSET (0 .. w), S # {}
  PROVE  /\ Min(S) \in S /\ Max(S) \in S
         /\ \A x \in S : Min(S) <= x /\ x <= Max(S)
<1>1. PICK a \in S : \A x \in S : a <= x
  BY SmallestNumber
<1>2. \E b \in S : \A x \in S : x <= b
  <2> DEFINE Above == {m \in Nat : \A x \in S : x <= m}
  <2>1. w \in Above
    OBVIOUS
  <2>2. Above \in SUBSET Nat /\ Above # {}
    BY <2>1
  <2>3. PICK b \in Above : \A m \in Above : b <= m
    <3> HIDE DEF Above
    <3> QED BY <2>2, SmallestNumber
  <2>4. b \in Nat /\ \A x \in S : x \in Nat /\ x <= b
    BY <2>3
  <2>5. b \in S
    <3> SUFFICES ASSUME b \notin S PROVE FALSE
      OBVIOUS
    <3>1. \A x \in S : x <= b - 1
      BY <2>4
    <3>2. b - 1 \in Nat
      BY <1>1, <2>4, <3>1
    <3>3. b - 1 \in Above
      BY <3>1, <3>2
    <3> QED BY <2>3, <2>4, <3>3
  <2> QED BY <2>4, <2>5
<1>3. PICK b \in S : \A x \in S : x <= b
  BY <1>2
<1>4. Min(S) \in S /\ \A x \in S : Min(S) <= x
  BY <1>1, Zenon DEF Min
<1>5. Max(S) \in S /\ \A x \in S : Max(S) >= x
  <2>1. \A x \in S : b >= x
    BY <1>3
  <2> QED BY <2>1, Zenon DEF Max
<1> QED BY <1>4, <1>5

\* The first entries of a list are zero, the others lie between low and high.
Spread(f, n, d, low, high) ==
  /\ n \in Nat /\ d \in 0 .. n /\ DOMAIN f = 1 .. n
  /\ low \in Int /\ high \in Int
  /\ \A i \in 1 .. n : f[i] \in Int
  /\ \A i \in 1 .. d : f[i] = 0
  /\ \A i \in (d + 1) .. n : low <= f[i] /\ f[i] <= high

\* Then their sum lies between as many times low and high.
LEMMA SumOfSpread ==
  ASSUME NEW f, NEW n, NEW d, NEW low, NEW high, Spread(f, n, d, low, high)
  PROVE  /\ SumFunction(f) \in Int
         /\ low * (n - d) <= SumFunction(f) /\ SumFunction(f) <= high * (n - d)
<1> USE DEF Spread
<1> DEFINE F(k) == SumFunctionOnSet(f, 1 .. k)
           Holds(k) == low * (k - d) <= F(k) /\ F(k) <= high * (k - d)
           Wrong == {k \in d .. n : ~Holds(k)}
<1>1. \A k \in 0 .. n : F(k) \in Int
  <2>1. \A k \in 0 .. n : IsFiniteSet(1 .. k) /\ \A i \in 1 .. k : f[i] \in Int
    BY FS_Interval
  <2> QED BY <2>1, SumType
<1>2. ASSUME NEW k \in 0 .. (n - 1) PROVE F(k + 1) = F(k) + f[k + 1]
  <2>1. k \in Nat /\ \A i \in 1 .. (k + 1) : f[i] \in Int
    OBVIOUS
  <2> QED BY <2>1, SumOfPrefix
<1>3. F(d) = 0
  <2>1. IsFiniteSet(1 .. d) /\ \A i \in 1 .. d : f[i] = 0
    BY FS_Interval
  <2> QED BY <2>1, SumOfZeros
<1>4. SumFunction(f) = F(n)
  BY Zenon DEF SumFunction
<1> HIDE DEF F
<1>5. Holds(d)
  BY <1>3
<1>6. ASSUME NEW k \in d .. (n - 1), Holds(k) PROVE Holds(k + 1)
  <2>1. F(k + 1) = F(k) + f[k + 1] /\ F(k) \in Int
    BY <1>1, <1>2
  <2>2. low <= f[k + 1] /\ f[k + 1] <= high /\ f[k + 1] \in Int
    OBVIOUS
  <2>3. low * (k + 1 - d) = low * (k - d) + low /\ high * (k + 1 - d) = high * (k - d) + high
    OBVIOUS
  <2>4. low * (k - d) \in Int /\ high * (k - d) \in Int
    OBVIOUS
  <2> QED BY <1>6, <2>1, <2>2, <2>3, <2>4
<1>7. Wrong = {}
  <2> SUFFICES ASSUME Wrong # {} PROVE FALSE
    OBVIOUS
  <2>1. PICK k \in Wrong : \A m \in Wrong : k <= m
    <3>1. Wrong \in SUBSET Nat
      OBVIOUS
    <3> HIDE DEF Wrong
    <3> QED BY <3>1, SmallestNumber
  <2> HIDE DEF Holds
  <2>2. k \in d .. n /\ ~Holds(k) /\ k # d
    BY <1>5, <2>1
  <2>3. k - 1 \in d .. (n - 1) /\ k - 1 \notin Wrong /\ (k - 1) + 1 = k
    BY <2>1, <2>2
  <2>4. Holds(k - 1)
    BY <2>3
  <2>5. Holds((k - 1) + 1)
    BY <1>6, <2>3, <2>4
  <2> QED BY <2>2, <2>3, <2>5
<1>8. Holds(n)
  <2> HIDE DEF Holds
  <2>1. n \in d .. n /\ n \notin Wrong
    BY <1>7
  <2> QED BY <2>1
<1> QED BY <1>1, <1>4, <1>8

\* One lies under every divisor.
LEMMA Divisor ==
  ASSUME NEW m \in Int
  PROVE  Max({1, m}) = IF m >= 1 THEN m ELSE 1
BY DEF Max

\* What was sampled: at least one value, each of which fits into a word.
Sampling(values) == values \in Seq(0 .. (Word - 1)) /\ values # <<>>

Rises(values) == \A i \in 1 .. Len(values) - 1 : values[i] <= values[i + 1]

\* The differences that are listed: none for the first value, and none for a fall.
LEMMA StepsShow ==
  ASSUME Word \in Nat \ {0}, NEW values, Sampling(values)
  PROVE  /\ Len(values) \in Nat \ {0} /\ DOMAIN values = 1 .. Len(values)
         /\ Steps(values) \in Seq(0 .. (Word - 1)) /\ Len(Steps(values)) = Len(values)
         /\ DOMAIN Steps(values) = 1 .. Len(values)
         /\ Steps(values)[1] = 0
         /\ \A i \in 2 .. Len(values) :
              Steps(values)[i] = IF values[i] >= values[i - 1] THEN values[i] - values[i - 1] ELSE 0
<1> DEFINE n == Len(values)
<1>1. /\ n \in Nat \ {0} /\ DOMAIN values = 1 .. n
      /\ \A i \in 1 .. n : values[i] \in 0 .. (Word - 1)
  BY DEF Sampling
<1>2. ASSUME NEW a \in 0 .. (Word - 1), NEW b \in 0 .. (Word - 1)
      PROVE  strSub(a, b) = IF a >= b THEN a - b ELSE 0
  <2>1. AsUnsigned(a) = a /\ AsUnsigned(b) = b
    BY UnsignedSmall
  <2>2. \A m \in Int : Max({m, 0}) = IF m >= 0 THEN m ELSE 0
    BY DEF Max
  <2>3. strSub(a, b) = Max({a - b, 0}) /\ a - b \in Int
    BY <2>1 DEF strSub
  <2> QED BY <2>2, <2>3
<1>3. /\ DOMAIN Steps(values) = 1 .. n
      /\ \A i \in 1 .. n : Steps(values)[i] = strSub(values[i], values[IF i = 1 THEN 1 ELSE i - 1])
  BY <1>1 DEF Steps
<1>4. \A i \in 1 .. n :
        Steps(values)[i] = IF i = 1 THEN 0
                           ELSE IF values[i] >= values[i - 1] THEN values[i] - values[i - 1] ELSE 0
  <2> TAKE i \in 1 .. n
  <2> DEFINE j == IF i = 1 THEN 1 ELSE i - 1
  <2>1. j \in 1 .. n
    BY <1>1
  <2>2. values[i] \in 0 .. (Word - 1) /\ values[j] \in 0 .. (Word - 1)
    BY <1>1, <2>1
  <2>3. Steps(values)[i] = strSub(values[i], values[j])
    BY <1>3
  <2>4. strSub(values[i], values[j]) = IF values[i] >= values[j] THEN values[i] - values[j] ELSE 0
    BY <1>2, <2>2
  <2> QED BY <2>2, <2>3, <2>4
<1>5. \A i \in 1 .. n : Steps(values)[i] \in 0 .. (Word - 1)
  <2> TAKE i \in 1 .. n
  <2>1. i = 1 \/ (i - 1 \in 1 .. n)
    BY <1>1
  <2> QED BY <1>1, <1>4, <2>1
<1>6. Steps(values) \in Seq(0 .. (Word - 1)) /\ Len(Steps(values)) = n
  <2>1. Steps(values) = [i \in 1 .. n |-> Steps(values)[i]]
    BY <1>1 DEF Steps
  <2> HIDE DEF n
  <2>2. [i \in 1 .. n |-> Steps(values)[i]] \in Seq(0 .. (Word - 1))
    BY <1>1, <1>5
  <2>3. Len([i \in 1 .. n |-> Steps(values)[i]]) = n
    BY <1>1
  <2> QED BY <2>1, <2>2, <2>3
<1> QED BY <1>1, <1>3, <1>4, <1>6

\* The differences after the first one.
LEMMA GrownRange ==
  ASSUME Word \in Nat \ {0}, NEW values, Sampling(values)
  PROVE  LET grown == Tail(Steps(values))
         IN  /\ (grown # <<>>) <=> (Len(values) >= 2)
             /\ Range(grown) = {Steps(values)[i] : i \in 2 .. Len(values)}
             /\ Range(grown) \in SUBSET (0 .. (Word - 1))
             /\ grown # <<>> => Range(grown) # {}
<1> DEFINE n == Len(values)
           s == Steps(values)
           grown == Tail(s)
<1>1. n \in Nat \ {0} /\ s \in Seq(0 .. (Word - 1)) /\ Len(s) = n
  BY StepsShow
<1> HIDE DEF n, s
<1>2. /\ grown \in Seq(0 .. (Word - 1)) /\ Len(grown) = n - 1 /\ DOMAIN grown = 1 .. (n - 1)
      /\ \A i \in 1 .. (n - 1) : grown[i] = s[i + 1]
  <2>1. s # <<>>
    BY <1>1
  <2>2. \A i \in 1 .. (n - 1) : Tail(s)[i] = s[i + 1]
    BY <1>1
  <2>3. grown \in Seq(0 .. (Word - 1)) /\ Len(grown) = n - 1
    BY <1>1, <2>1
  <2>4. DOMAIN grown = 1 .. (n - 1)
    BY <2>3
  <2> QED BY <2>2, <2>3, <2>4
<1> HIDE DEF grown
<1>3. (grown # <<>>) <=> n >= 2
  BY <1>1, <1>2
<1>4. Range(grown) = {s[i] : i \in 2 .. n}
  <2>1. ASSUME NEW i \in 1 .. (n - 1) PROVE grown[i] = s[i + 1] /\ i + 1 \in 2 .. n
    BY <1>1, <1>2
  <2>2. ASSUME NEW i \in 2 .. n PROVE s[i] = grown[i - 1] /\ i - 1 \in 1 .. (n - 1)
    BY <1>1, <1>2
  <2>3. Range(grown) = {grown[i] : i \in 1 .. (n - 1)}
    BY <1>2 DEF Range
  <2>4. ASSUME NEW x \in Range(grown) PROVE x \in {s[i] : i \in 2 .. n}
    BY <2>1, <2>3
  <2>5. ASSUME NEW x \in {s[i] : i \in 2 .. n} PROVE x \in Range(grown)
    BY <2>2, <2>3
  <2> QED BY <2>4, <2>5
<1>5. Range(grown) \in SUBSET (0 .. (Word - 1))
  <2>1. \A i \in 2 .. n : s[i] \in 0 .. (Word - 1)
    BY <1>1
  <2> QED BY <1>4, <2>1
<1>6. n >= 2 => Range(grown) # {}
  <2>1. n >= 2 => 2 \in 2 .. n
    BY <1>1
  <2> QED BY <1>4, <2>1
<1> QED BY <1>3, <1>4, <1>5, <1>6 DEF grown, s, n

\* Their average lies between the least and the greatest of them.
LEMMA GrownWithin ==
  ASSUME Word \in Nat \ {0}, NEW values, Sampling(values), Tail(Steps(values)) # <<>>
  PROVE  Within(OverSteps(values), Min(Range(Tail(Steps(values)))), Max(Range(Tail(Steps(values)))))
<1> DEFINE n == Len(values)
           s == Steps(values)
           R == Range(Tail(s))
           low == Min(R)
           high == Max(R)
<1>1. /\ n \in Nat /\ n >= 2 /\ DOMAIN s = 1 .. n /\ s[1] = 0
      /\ R = {s[i] : i \in 2 .. n} /\ R \in SUBSET (0 .. (Word - 1)) /\ R # {}
      /\ \A i \in 1 .. n : s[i] \in 0 .. (Word - 1)
  <2>1. /\ n \in Nat \ {0} /\ s \in Seq(0 .. (Word - 1)) /\ Len(s) = n /\ DOMAIN s = 1 .. n /\ s[1] = 0
    BY StepsShow
  <2>2. n >= 2 /\ R = {s[i] : i \in 2 .. n} /\ R \in SUBSET (0 .. (Word - 1)) /\ R # {}
    BY GrownRange
  <2> HIDE DEF n, s, R
  <2> QED BY <2>1, <2>2
<1> HIDE DEF n, s, R
<1>2. low \in 0 .. (Word - 1) /\ high \in 0 .. (Word - 1) /\ \A x \in R : low <= x /\ x <= high
  <2>1. Word - 1 \in Nat
    OBVIOUS
  <2> QED BY <1>1, <2>1, MinMaxOfNumbers
<1> HIDE DEF low, high
<1>3. Spread(s, n, 1, low, high)
  BY <1>1, <1>2 DEF Spread
<1>4. SumFunction(s) \in Int /\ low * (n - 1) <= SumFunction(s) /\ SumFunction(s) <= high * (n - 1)
  BY <1>3, SumOfSpread
<1>5. OverSteps(values) = [sum |-> SumFunction(s), by |-> n - 1]
  <2>1. Max({1, n - 1}) = n - 1
    BY <1>1, Divisor
  <2> QED BY <2>1 DEF OverSteps, Average, Sum, s, n
<1> QED BY <1>4, <1>5 DEF Within, low, high, R, s

\* The differences of values that never fall add up to the whole rise.
LEMMA StepsAddUp ==
  ASSUME Word \in Nat \ {0}, NEW values, Sampling(values), Rises(values)
  PROVE  SumFunction(Steps(values)) = values[Len(values)] - values[1]
<1> DEFINE n == Len(values)
           s == Steps(values)
           F(k) == SumFunctionOnSet(s, 1 .. k)
           Wrong == {k \in 1 .. n : F(k) # values[k] - values[1]}
<1>1. /\ n \in Nat \ {0} /\ DOMAIN s = 1 .. n /\ s[1] = 0
      /\ \A i \in 1 .. n : s[i] \in 0 .. (Word - 1) /\ values[i] \in 0 .. (Word - 1)
      /\ \A i \in 2 .. n : s[i] = IF values[i] >= values[i - 1] THEN values[i] - values[i - 1] ELSE 0
  <2>1. /\ n \in Nat \ {0} /\ DOMAIN s = 1 .. n /\ s \in Seq(0 .. (Word - 1)) /\ s[1] = 0
        /\ \A i \in 2 .. n : s[i] = IF values[i] >= values[i - 1] THEN values[i] - values[i - 1] ELSE 0
    BY StepsShow
  <2>2. values \in Seq(0 .. (Word - 1))
    BY DEF Sampling
  <2> HIDE DEF s
  <2> QED BY <2>1, <2>2
<1>2. \A i \in 2 .. n : s[i] = values[i] - values[i - 1]
  <2> TAKE i \in 2 .. n
  <2>1. i - 1 \in 1 .. Len(values) - 1 /\ (i - 1) + 1 = i /\ i \in 1 .. n /\ i - 1 \in 1 .. n
    BY <1>1
  <2>2. values[i - 1] <= values[i]
    <3>1. values[i - 1] <= values[(i - 1) + 1]
      BY <2>1 DEF Rises
    <3> QED BY <2>1, <3>1
  <2> HIDE DEF s
  <2> QED BY <1>1, <2>1, <2>2
<1> HIDE DEF s, n
<1>3. \A k \in 0 .. n : F(k) \in Int
  <2> TAKE k \in 0 .. n
  <2>1. \A i \in 1 .. k : i \in 1 .. n
    BY <1>1
  <2>2. \A i \in 1 .. k : s[i] \in Int
    BY <1>1, <2>1
  <2>3. IsFiniteSet(1 .. k)
    BY <1>1, FS_Interval
  <2> QED BY <2>2, <2>3, SumType
<1>4. ASSUME NEW k \in 0 .. (n - 1) PROVE F(k + 1) = F(k) + s[k + 1]
  <2>0. \A i \in 1 .. (k + 1) : i \in 1 .. n
    BY <1>1
  <2>1. k \in Nat /\ \A i \in 1 .. (k + 1) : s[i] \in Int
    BY <1>1, <2>0
  <2> QED BY <2>1, SumOfPrefix
<1>5. F(1) = 0
  <2>1. 0 \in 0 .. (n - 1) /\ 0 + 1 = 1
    BY <1>1
  <2>2. F(0) = 0
    <3>1. IsFiniteSet(1 .. 0) /\ \A i \in 1 .. 0 : s[i] = 0
      BY FS_Interval
    <3> QED BY <3>1, SumOfZeros
  <2>3. F(0 + 1) = F(0) + s[0 + 1]
    BY <1>4, <2>1
  <2> HIDE DEF F
  <2> QED BY <1>1, <2>2, <2>3
<1> HIDE DEF F
<1>6. Wrong = {}
  <2> SUFFICES ASSUME Wrong # {} PROVE FALSE
    OBVIOUS
  <2>1. PICK k \in Wrong : \A m \in Wrong : k <= m
    <3>1. Wrong \in SUBSET Nat
      BY <1>1
    <3> HIDE DEF Wrong
    <3> QED BY <3>1, SmallestNumber
  <2>2. k \in 1 .. n /\ F(k) # values[k] - values[1]
    BY <2>1
  <2>3. k # 1
    BY <1>1, <1>5, <2>2
  <2>4. k - 1 \in 0 .. (n - 1) /\ k - 1 \in 1 .. n /\ (k - 1) + 1 = k /\ k \in 2 .. n
    BY <1>1, <2>2, <2>3
  <2>5. F(k - 1) = values[k - 1] - values[1]
    <3>1. k - 1 \notin Wrong
      BY <1>1, <2>1, <2>4
    <3> QED BY <2>4, <3>1
  <2>6. F(k) = F(k - 1) + s[k]
    <3>1. F((k - 1) + 1) = F(k - 1) + s[(k - 1) + 1]
      BY <1>4, <2>4
    <3> QED BY <2>4, <3>1
  <2>7. s[k] = values[k] - values[k - 1]
    BY <1>2, <2>4
  <2>8. values[k] \in Int /\ values[k - 1] \in Int /\ values[1] \in Int
    <3>1. \A i \in 1 .. n : values[i] \in Int
      BY <1>1
    <3>2. 1 \in 1 .. n
      BY <1>1
    <3> QED BY <2>2, <2>4, <3>1, <3>2
  <2> QED BY <2>2, <2>5, <2>6, <2>7, <2>8
<1>7. n \in 1 .. n /\ n \notin Wrong
  BY <1>1, <1>6
<1>8. SumFunction(s) = F(n)
  BY <1>1, Zenon DEF SumFunction, F
<1> QED BY <1>7, <1>8 DEF n, s

\* The average of a device lies between its extremes, whatever is averaged.
LEMMA DeviceWithin ==
  ASSUME Word \in Nat \ {0}, NEW name, NEW values, Sampling(values)
  PROVE  LET device == GPUgetSummary(name, values)
         IN  Within(device.average, device.min, device.max)
<1> DEFINE n == Len(values)
           shown == IF name \in Cumulative THEN Steps(values) ELSE values
           d == IF name \in Cumulative THEN 1 ELSE 0
           R == Range(shown)
           low == Min(R)
           high == Max(R)
<1>1. /\ n \in Nat \ {0} /\ DOMAIN shown = 1 .. n /\ \A i \in 1 .. n : shown[i] \in 0 .. (Word - 1)
      /\ \A i \in 1 .. d : shown[i] = 0
      /\ d = 1 => shown[1] = 0
  <2>1. /\ n \in Nat \ {0} /\ DOMAIN Steps(values) = 1 .. n /\ Steps(values) \in Seq(0 .. (Word - 1))
        /\ Steps(values)[1] = 0
    BY StepsShow
  <2>2. values \in Seq(0 .. (Word - 1))
    BY DEF Sampling
  <2>3. CASE name \in Cumulative
    <3>1. shown = Steps(values) /\ \A i \in 1 .. d : i = 1
      BY <2>3
    <3> HIDE DEF shown, d
    <3> QED BY <2>1, <3>1
  <2>4. CASE name \notin Cumulative
    <3>1. shown = values /\ d = 0
      BY <2>4
    <3>2. DOMAIN values = 1 .. n /\ \A i \in 1 .. n : values[i] \in 0 .. (Word - 1)
      BY <2>2
    <3> HIDE DEF shown, d
    <3> QED BY <2>1, <3>1, <3>2
  <2> QED BY <2>3, <2>4
<1>2. GPUgetSummary(name, values) =
        [min |-> low, max |-> high,
         average |-> [sum |-> SumFunction(shown), by |-> Max({1, n - d})]]
  <2>1. GPUgetFields(name, values) =
          [shown |-> shown, average |-> [sum |-> SumFunction(shown), by |-> Max({1, n - d})]]
    <3>1. CASE name \in Cumulative
      BY <3>1 DEF GPUgetFields, OverSteps, Average, Sum
    <3>2. CASE name \notin Cumulative
      <4>1. n - d = n
        BY <1>1, <3>2
      <4> QED BY <3>2, <4>1 DEF GPUgetFields, OverValues, Average, Sum
    <3> QED BY <3>1, <3>2
  <2> QED BY <2>1 DEF GPUgetSummary
<1>d. d \in {0, 1}
  OBVIOUS
<1> HIDE DEF shown, d, n
<1>3. R \in SUBSET (0 .. (Word - 1)) /\ R # {} /\ \A i \in 1 .. n : shown[i] \in R
  <2>1. 1 \in 1 .. n
    BY <1>1
  <2> QED BY <1>1, <2>1 DEF Range
<1> HIDE DEF R
<1>4. low \in 0 .. (Word - 1) /\ high \in 0 .. (Word - 1) /\ \A x \in R : low <= x /\ x <= high
  <2>1. Word - 1 \in Nat
    OBVIOUS
  <2> QED BY <1>3, <2>1, MinMaxOfNumbers
<1> HIDE DEF low, high
<1>5. Spread(shown, n, d, low, high)
  <2>1. \A i \in 1 .. n : low <= shown[i] /\ shown[i] <= high
    BY <1>3, <1>4
  <2>2. d \in 0 .. n
    BY <1>1, <1>d
  <2> QED BY <1>1, <1>4, <2>1, <2>2, <1>d DEF Spread
<1>6. /\ SumFunction(shown) \in Int
      /\ low * (n - d) <= SumFunction(shown) /\ SumFunction(shown) <= high * (n - d)
  BY <1>5, SumOfSpread
<1>7. n - d \in Int /\ (n - d >= 1 \/ (n = 1 /\ d = 1))
  BY <1>1, <1>d
<1>8. CASE n - d >= 1
  <2>1. Max({1, n - d}) = n - d
    BY <1>7, <1>8, Divisor
  <2> QED BY <1>2, <1>6, <2>1 DEF Within
<1>9. CASE n = 1 /\ d = 1
  <2>1. Max({1, n - d}) = 1
    BY <1>9, Divisor
  <2>2. low <= 0 /\ 0 <= high
    BY <1>1, <1>3, <1>4, <1>9
  <2>3. SumFunction(shown) = 0
    <3>1. n - d = 0 /\ low * 0 = 0 /\ high * 0 = 0
      BY <1>4, <1>9
    <3> QED BY <1>6, <3>1
  <2> QED BY <1>2, <1>4, <2>1, <2>2, <2>3 DEF Within
<1> QED BY <1>7, <1>8, <1>9

\* Whatever was sampled, and however often, the averages of the report lie among the
\* values they are about, every sample is listed, and the differences of a counter that
\* never falls add up to what it grew by (hardware.h 114-176, 253-338, 428-457,
\* software.h 119-144, 207-245).
THEOREM AveragesStayWithin ==
  ASSUME Word \in Nat \ {0}, NEW name, NEW values \in Seq(0 .. (Word - 1)), values # <<>>
  PROVE  AveragesWithinFor(name, values)
<1> DEFINE n == Len(values)
           grown == Tail(Steps(values))
           stat == [utime |-> values, voluntary_ctxt_switches |-> values]
           thread == LWPgetSummary(stat)
           device == GPUgetSummary(name, values)
<1>1. Sampling(values)
  BY DEF Sampling
<1>2. n \in Nat \ {0} /\ Len(Steps(values)) = n /\ DOMAIN values = 1 .. n /\ values[n] = Last(values)
  BY <1>1, StepsShow DEF Last
<1>3. grown # <<>> => Within(HWTgetSummary(values), Min(Range(grown)), Max(Range(grown)))
  BY <1>1, GrownWithin DEF HWTgetSummary
<1>4. Rises(values) => SumFunction(Steps(values)) = Last(values) - values[1]
  BY <1>1, <1>2, StepsAddUp
<1>5. /\ thread.utime = Average(Last(values), n - 1)
      /\ thread.voluntary_ctxt_switches = Average(Last(values), 1)
  BY DEF LWPgetSummary
<1>6. grown # <<>> /\ Rises(values) /\ values[1] = 0 => thread.utime = OverSteps(values)
  <2> SUFFICES ASSUME Rises(values), values[1] = 0 PROVE thread.utime = OverSteps(values)
    OBVIOUS
  <2>1. Last(values) \in Int
    BY <1>2 DEF Last
  <2>2. SumFunction(Steps(values)) = Last(values)
    BY <1>4, <2>1
  <2> QED BY <1>5, <2>2 DEF OverSteps, Sum
<1>7. (grown # <<>> /\ Rises(values) /\ values[1] = 0) =>
        Within(thread.utime, Min(Range(grown)), Max(Range(grown)))
  BY <1>3, <1>6 DEF HWTgetSummary
<1>8. Within(device.average, device.min, device.max)
  BY <1>1, DeviceWithin
<1>9. device.average = GPUgetFields(name, values).average
  BY DEF GPUgetSummary
<1>10. \A f \in {HWTgetFields(values), GPUgetFields(name, values), NodegetFields(values)} :
         Len(f.shown) = Len(values)
  BY <1>2 DEF HWTgetFields, GPUgetFields, NodegetFields
<1>11. Rises(values) => HWTgetSummary(values).sum = Last(values) - values[1]
  BY <1>4 DEF HWTgetSummary, OverSteps, Average, Sum
<1>12. Len(LWPgetFields(name, values)) = Len(values)
  BY <1>2 DEF LWPgetFields
<1> HIDE DEF thread, device, grown
<1> QED BY <1>3, <1>5, <1>7, <1>8, <1>9, <1>10, <1>11, <1>12
        DEF AveragesWithinFor, Rises, thread, device, grown

-----------------------------------------------------------------------------
(* The GPUs of a process.                                                  *)

\* Such a list is not longer than there are things.
LEMMA ListFits ==
  ASSUME NEW m \in Nat, NEW list, ListsOnce(list, m)
  PROVE  Len(list) \in Nat /\ Len(list) <= m
<1> DEFINE n == Len(list)
<1>1. n \in Nat /\ list \in [1 .. n -> 0 .. (m - 1)] /\ DOMAIN list = 1 .. n
  BY DEF ListsOnce
<1>2. IsFiniteSet(1 .. n) /\ Cardinality(1 .. n) = n
  <2>1. 1 \in Int /\ n \in Int /\ (1 > n => n = 0) /\ n - 1 + 1 = n
    BY <1>1
  <2>2. Cardinality(1 .. n) = IF 1 > n THEN 0 ELSE n - 1 + 1
    BY <2>1, FS_Interval
  <2> QED BY <2>1, <2>2, FS_Interval
<1>3. IsFiniteSet(0 .. (m - 1)) /\ Cardinality(0 .. (m - 1)) = m
  <2>1. 0 \in Int /\ m - 1 \in Int /\ (0 > m - 1 => m = 0) /\ m - 1 - 0 + 1 = m
    OBVIOUS
  <2>2. Cardinality(0 .. (m - 1)) = IF 0 > m - 1 THEN 0 ELSE m - 1 - 0 + 1
    BY <2>1, FS_Interval
  <2> QED BY <2>1, <2>2, FS_Interval
<1>4. ASSUME n > m PROVE FALSE
  <2>1. \E x, y \in 1 .. n : x # y /\ list[x] = list[y]
    BY <1>1, <1>2, <1>3, <1>4, FS_PigeonHole
  <2> QED BY <1>1, <2>1 DEF ListsOnce
<1> QED BY <1>1, <1>4

\* The devices that are visible are those that are polled.
LEMMA VisibleIsPolled ==
  ASSUME NEW count \in Nat, NEW visible, Names(visible, count)
  PROVE  LET polled == Dev!initialize(count, visible)
         IN  /\ polled \in Seq(0 .. (count - 1))
             /\ Dev!Visible(visible, Dev!All(count)) = polled
             /\ ~visible.set => Len(polled) = count /\ \A i \in 1 .. count : polled[i] = i - 1
             /\ visible.set => polled = visible.list
<1> DEFINE all == Dev!All(count)
           list == visible.list
<1>1. /\ DOMAIN all = 1 .. count /\ \A i \in 1 .. count : all[i] = i - 1
      /\ all \in Seq(0 .. (count - 1)) /\ Len(all) = count
  BY DEF Dev!All
<1>0. list \in Seq(0 .. (count - 1))
  BY DEF Names
<1> HIDE DEF all
<1>2. CASE ~visible.set
  BY <1>1, <1>2 DEF Dev!initialize, Dev!Visible, all
<1>3. CASE visible.set
  <2>1. Dev!Visible(visible, all) = [i \in DOMAIN list |-> all[list[i] + 1]]
    BY <1>3 DEF Dev!Visible
  <2> HIDE DEF list
  <2>2. \A i \in DOMAIN list : all[list[i] + 1] = list[i]
    <3> TAKE i \in DOMAIN list
    <3>1. list[i] \in 0 .. (count - 1)
      BY <1>0
    <3>2. list[i] + 1 \in 1 .. count /\ (list[i] + 1) - 1 = list[i]
      BY <3>1
    <3> QED BY <1>1, <3>2
  <2>3. [i \in DOMAIN list |-> all[list[i] + 1]] = [i \in DOMAIN list |-> list[i]]
    BY <2>2
  <2>4. [i \in DOMAIN list |-> list[i]] = list
    BY <1>0
  <2> QED BY <1>0, <1>3, <2>1, <2>3, <2>4 DEF Dev!initialize, all, list
<1> QED BY <1>2, <1>3

\* For any number of GPUs on the node, however a process is given some of them, there
\* is a row for each, and it is its own if only the variable that ZeroSum reads hides
\* devices (zerosum_cuda.cpp 47-158, nvml.cpp 31-64, rocmsmi.cpp 34-66, hardware.h
\* 411-421). It holds where the second variable names no device twice.
THEOREM GpusStayAligned ==
  ASSUME NEW count \in Nat, NEW visible, Names(visible, count), NEW again,
         again.set \/ again.list = <<>>,
         ListsOnce(again.list, Len(Dev!initialize(count, visible)))
  PROVE  Dev!GpusAlignedFor(count, visible, again)
<1> DEFINE polled == Dev!initialize(count, visible)
           m == Len(polled)
           devices == Dev!RuntimeDevices(count, visible, again)
           n == Len(devices)
           gpus == Dev!updateGPU(Dev!addGpu(Dev!getgpu(devices, visible)), polled)
           list == again.list
<1>1. /\ polled \in Seq(0 .. (count - 1)) /\ m \in Nat /\ DOMAIN polled = 1 .. m
      /\ Dev!Visible(visible, Dev!All(count)) = polled
      /\ ~visible.set => visible.list = <<>> /\ \A i \in 1 .. m : polled[i] = i - 1
      /\ visible.set => polled = visible.list
  <2> HIDE DEF polled
  <2>1. polled \in Seq(0 .. (count - 1))
    BY VisibleIsPolled DEF polled
  <2>2. /\ Dev!Visible(visible, Dev!All(count)) = polled
        /\ ~visible.set => m = count /\ \A i \in 1 .. count : polled[i] = i - 1
        /\ visible.set => polled = visible.list
    BY VisibleIsPolled DEF polled
  <2>3. ~visible.set => visible.list = <<>>
    BY DEF Names
  <2> QED BY <2>1, <2>2, <2>3
<1>2. /\ DOMAIN devices = 1 .. n /\ n \in Nat /\ n <= m /\ (~again.set => devices = polled)
  <2>1. devices = IF again.set THEN [i \in DOMAIN list |-> polled[list[i] + 1]] ELSE polled
    <3> HIDE DEF polled
    <3>1. devices = Dev!Visible(again, polled)
      BY <1>1 DEF Dev!RuntimeDevices
    <3> HIDE DEF devices
    <3> QED BY <3>1 DEF Dev!Visible
  <2> HIDE DEF polled, devices
  <2>2. CASE ~again.set
    BY <1>1, <2>1, <2>2
  <2>3. CASE again.set
    <3>1. list \in Seq(0 .. (m - 1)) /\ Len(list) \in Nat /\ Len(list) <= m
      <4>1. ListsOnce(list, m)
        BY DEF polled
      <4> HIDE DEF list
      <4> QED BY <1>1, <4>1, ListFits DEF ListsOnce
    <3> HIDE DEF list
    <3>2. devices = [i \in 1 .. Len(list) |-> polled[list[i] + 1]]
      BY <2>1, <2>3, <3>1
    <3>3. DOMAIN devices = 1 .. Len(list) /\ Len(devices) = Len(list)
      BY <3>1, <3>2
    <3> QED BY <2>3, <3>1, <3>3
  <2> QED BY <2>2, <2>3
<1>3. Dev!RowsAreOwnFor(count, visible, again) <=>
        \A i \in DOMAIN gpus : /\ Dev!Last(gpus[i].polled) = gpus[i].props.bus
                               /\ Dev!Last(gpus[i].polled) = gpus[i].props.GPU_ID
  BY DEF Dev!RowsAreOwnFor
<1> HIDE DEF polled, devices
<1>4. /\ DOMAIN gpus = 1 .. n
      /\ \A i \in 1 .. n :
           /\ gpus[i].props.bus = devices[i]
           /\ gpus[i].props.GPU_ID = IF i <= Len(visible.list) THEN visible.list[i] ELSE i - 1
           /\ Dev!Last(gpus[i].polled) = polled[i]
  <2> DEFINE props == Dev!getgpu(devices, visible)
             added == Dev!addGpu(props)
  <2>1. /\ DOMAIN props = 1 .. n
        /\ \A i \in 1 .. n :
             /\ props[i].bus = devices[i]
             /\ props[i].GPU_ID = IF i <= Len(visible.list) THEN visible.list[i] ELSE i - 1
    BY <1>2 DEF Dev!getgpu
  <2> HIDE DEF props
  <2>2. /\ DOMAIN added = 1 .. n
        /\ \A i \in 1 .. n : added[i] = [id |-> props[i].RT_GPU_ID, props |-> props[i], polled |-> <<>>]
    BY <2>1 DEF Dev!addGpu
  <2> HIDE DEF added
  <2>3. gpus = [i \in 1 .. n |-> [added[i] EXCEPT !.polled = Append(@, polled[i])]]
    BY <2>2 DEF Dev!updateGPU, props, added
  <2> HIDE DEF gpus
  <2>4. DOMAIN gpus = 1 .. n
    BY <2>3
  <2>5. ASSUME NEW i \in 1 .. n
        PROVE  gpus[i].props = props[i] /\ gpus[i].polled = Append(<<>>, polled[i])
    BY <2>2, <2>3
  <2>6. \A x : Dev!Last(Append(<<>>, x)) = x
    BY DEF Dev!Last
  <2> QED BY <2>1, <2>4, <2>5, <2>6
<1> HIDE DEF gpus
<1>5. \A i \in 1 .. n : gpus[i].props.GPU_ID = polled[i]
  <2> TAKE i \in 1 .. n
  <2>1. i \in 1 .. m
    BY <1>1, <1>2
  <2>2. CASE ~visible.set
    <3>1. ~(i <= Len(visible.list))
      BY <1>1, <2>2
    <3> QED BY <1>1, <1>4, <2>1, <2>2, <3>1
  <2>3. CASE visible.set
    <3>1. i <= Len(visible.list) /\ visible.list[i] = polled[i]
      BY <1>1, <2>1, <2>3
    <3> QED BY <1>4, <3>1
  <2> QED BY <2>2, <2>3
<1>6. m >= n
  BY <1>1, <1>2
<1>7. ASSUME ~again.set PROVE Dev!RowsAreOwnFor(count, visible, again)
  BY <1>2, <1>3, <1>4, <1>5, <1>7
<1> QED BY <1>6, <1>7 DEF Dev!GpusAlignedFor, polled, devices

-----------------------------------------------------------------------------
(* The names of the logs.                                                  *)

\* A number's digits, from the one that is worth most.
Digits(n, w) == [i \in 1 .. w |-> (n \div Rk!Worth[w - i + 1]) % 10]

\* What the digits are worth, one after the other.
LEMMA WorthIs ==
  /\ Rk!Worth[1] = 1 /\ Rk!Worth[2] = 10 /\ Rk!Worth[3] = 100 /\ Rk!Worth[4] = 1000
  /\ Rk!Worth[5] = 10000 /\ Rk!Worth[6] = 100000 /\ Rk!Worth[7] = 1000000 /\ Rk!Worth[8] = 10000000
  /\ Rk!Worth[9] = 100000000 /\ Rk!Worth[10] = 1000000000
BY SMT DEF Rk!Worth

\* Powers of ten are positive numbers.
LEMMA WorthTyped == \A k \in 1 .. 10 : Rk!Worth[k] \in Nat \ {0}
<1> TAKE k \in 1 .. 10
<1>1. k \in {1, 2, 3, 4, 5, 6, 7, 8, 9, 10}
  OBVIOUS
<1> QED BY SMT, <1>1, WorthIs

\* A number without its last digits ends in the next one.
LEMMA DigitSplits ==
  ASSUME NEW n \in Nat, NEW k \in 1 .. 9
  PROVE  /\ n \div Rk!Worth[k] \in Nat /\ n \div Rk!Worth[k + 1] \in Nat
         /\ n \div Rk!Worth[k] = 10 * (n \div Rk!Worth[k + 1]) + ((n \div Rk!Worth[k]) % 10)
         /\ (n \div Rk!Worth[k]) % 10 \in 0 .. 9
<1>1. CASE k = 1
  <2>1. n \div 1 \in Nat /\ n \div 10 \in Nat
        /\ n \div 1 = 10 * (n \div 10) + ((n \div 1) % 10)
        /\ (n \div 1) % 10 \in 0 .. 9
    BY SMT
  <2> QED BY SMT, <1>1, <2>1, WorthIs
<1>2. CASE k = 2
  <2>1. n \div 10 \in Nat /\ n \div 100 \in Nat
        /\ n \div 10 = 10 * (n \div 100) + ((n \div 10) % 10)
        /\ (n \div 10) % 10 \in 0 .. 9
    BY SMT
  <2> QED BY SMT, <1>2, <2>1, WorthIs
<1>3. CASE k = 3
  <2>1. n \div 100 \in Nat /\ n \div 1000 \in Nat
        /\ n \div 100 = 10 * (n \div 1000) + ((n \div 100) % 10)
        /\ (n \div 100) % 10 \in 0 .. 9
    BY SMT
  <2> QED BY SMT, <1>3, <2>1, WorthIs
<1>4. CASE k = 4
  <2>1. n \div 1000 \in Nat /\ n \div 10000 \in Nat
        /\ n \div 1000 = 10 * (n \div 10000) + ((n \div 1000) % 10)
        /\ (n \div 1000) % 10 \in 0 .. 9
    BY SMT
  <2> QED BY SMT, <1>4, <2>1, WorthIs
<1>5. CASE k = 5
  <2>1. n \div 10000 \in Nat /\ n \div 100000 \in Nat
        /\ n \div 10000 = 10 * (n \div 100000) + ((n \div 10000) % 10)
        /\ (n \div 10000) % 10 \in 0 .. 9
    BY SMT
  <2> QED BY SMT, <1>5, <2>1, WorthIs
<1>6. CASE k = 6
  <2>1. n \div 100000 \in Nat /\ n \div 1000000 \in Nat
        /\ n \div 100000 = 10 * (n \div 1000000) + ((n \div 100000) % 10)
        /\ (n \div 100000) % 10 \in 0 .. 9
    BY SMT
  <2> QED BY SMT, <1>6, <2>1, WorthIs
<1>7. CASE k = 7
  <2>1. n \div 1000000 \in Nat /\ n \div 10000000 \in Nat
        /\ n \div 1000000 = 10 * (n \div 10000000) + ((n \div 1000000) % 10)
        /\ (n \div 1000000) % 10 \in 0 .. 9
    BY SMT
  <2> QED BY SMT, <1>7, <2>1, WorthIs
<1>8. CASE k = 8
  <2>1. n \div 10000000 \in Nat /\ n \div 100000000 \in Nat
        /\ n \div 10000000 = 10 * (n \div 100000000) + ((n \div 10000000) % 10)
        /\ (n \div 10000000) % 10 \in 0 .. 9
    BY SMT
  <2> QED BY SMT, <1>8, <2>1, WorthIs
<1>9. CASE k = 9
  <2>1. n \div 100000000 \in Nat /\ n \div 1000000000 \in Nat
        /\ n \div 100000000 = 10 * (n \div 1000000000) + ((n \div 100000000) % 10)
        /\ (n \div 100000000) % 10 \in 0 .. 9
    BY SMT
  <2> QED BY SMT, <1>9, <2>1, WorthIs
<1> QED BY <1>1, <1>2, <1>3, <1>4, <1>5, <1>6, <1>7, <1>8, <1>9

\* A smaller number stays the smaller one without the last digits.
LEMMA DigitsMonotone ==
  ASSUME NEW m \in Nat, NEW n \in Nat, m <= n, NEW k \in 1 .. 10
  PROVE  /\ m \div Rk!Worth[k] \in Nat /\ n \div Rk!Worth[k] \in Nat
         /\ m \div Rk!Worth[k] <= n \div Rk!Worth[k]
<1>1. CASE k = 1
  <2>1. m \div 1 \in Nat /\ n \div 1 \in Nat /\ m \div 1 <= n \div 1
    BY SMT
  <2> QED BY SMT, <1>1, <2>1, WorthIs
<1>2. CASE k = 2
  <2>1. m \div 10 \in Nat /\ n \div 10 \in Nat /\ m \div 10 <= n \div 10
    BY SMT
  <2> QED BY SMT, <1>2, <2>1, WorthIs
<1>3. CASE k = 3
  <2>1. m \div 100 \in Nat /\ n \div 100 \in Nat /\ m \div 100 <= n \div 100
    BY SMT
  <2> QED BY SMT, <1>3, <2>1, WorthIs
<1>4. CASE k = 4
  <2>1. m \div 1000 \in Nat /\ n \div 1000 \in Nat /\ m \div 1000 <= n \div 1000
    BY SMT
  <2> QED BY SMT, <1>4, <2>1, WorthIs
<1>5. CASE k = 5
  <2>1. m \div 10000 \in Nat /\ n \div 10000 \in Nat /\ m \div 10000 <= n \div 10000
    BY SMT
  <2> QED BY SMT, <1>5, <2>1, WorthIs
<1>6. CASE k = 6
  <2>1. m \div 100000 \in Nat /\ n \div 100000 \in Nat /\ m \div 100000 <= n \div 100000
    BY SMT
  <2> QED BY SMT, <1>6, <2>1, WorthIs
<1>7. CASE k = 7
  <2>1. m \div 1000000 \in Nat /\ n \div 1000000 \in Nat /\ m \div 1000000 <= n \div 1000000
    BY SMT
  <2> QED BY SMT, <1>7, <2>1, WorthIs
<1>8. CASE k = 8
  <2>1. m \div 10000000 \in Nat /\ n \div 10000000 \in Nat /\ m \div 10000000 <= n \div 10000000
    BY SMT
  <2> QED BY SMT, <1>8, <2>1, WorthIs
<1>9. CASE k = 9
  <2>1. m \div 100000000 \in Nat /\ n \div 100000000 \in Nat /\ m \div 100000000 <= n \div 100000000
    BY SMT
  <2> QED BY SMT, <1>9, <2>1, WorthIs
<1>10. CASE k = 10
  <2>1. m \div 1000000000 \in Nat /\ n \div 1000000000 \in Nat /\ m \div 1000000000 <= n \div 1000000000
    BY SMT
  <2> QED BY SMT, <1>10, <2>1, WorthIs
<1> QED BY <1>1, <1>2, <1>3, <1>4, <1>5, <1>6, <1>7, <1>8, <1>9, <1>10


\* What an int can hold is a number.
LEMMA IntMaxTyped == IntMax \in Nat
BY SMT DEF IntMax

\* Nothing is left of a number that is worth less than the digit.
LEMMA NothingLeft ==
  ASSUME NEW n \in Nat, NEW k \in 1 .. 10
  PROVE  /\ n < Rk!Worth[k] <=> n \div Rk!Worth[k] = 0
         /\ n \in 0 .. IntMax => n \div Rk!Worth[10] \in 0 .. 9
<1>0. n \in 0 .. IntMax => n \div Rk!Worth[10] \in 0 .. 9
  <2>1. n <= IntMax => n \div 1000000000 \in 0 .. 9
    <3>1. n <= 2147483647 => n \div 1000000000 \in 0 .. 9
      BY SMT
    <3> QED BY SMT, <3>1 DEF IntMax
  <2>2. n \in 0 .. IntMax => n <= IntMax
    BY SMT, IntMaxTyped
  <2> QED BY SMT, <2>1, <2>2, WorthIs
<1>1. CASE k = 1
  <2>1. n < 1 <=> n \div 1 = 0
    BY SMT
  <2> QED BY SMT, <1>0, <1>1, <2>1, WorthIs
<1>2. CASE k = 2
  <2>1. n < 10 <=> n \div 10 = 0
    BY SMT
  <2> QED BY SMT, <1>0, <1>2, <2>1, WorthIs
<1>3. CASE k = 3
  <2>1. n < 100 <=> n \div 100 = 0
    BY SMT
  <2> QED BY SMT, <1>0, <1>3, <2>1, WorthIs
<1>4. CASE k = 4
  <2>1. n < 1000 <=> n \div 1000 = 0
    BY SMT
  <2> QED BY SMT, <1>0, <1>4, <2>1, WorthIs
<1>5. CASE k = 5
  <2>1. n < 10000 <=> n \div 10000 = 0
    BY SMT
  <2> QED BY SMT, <1>0, <1>5, <2>1, WorthIs
<1>6. CASE k = 6
  <2>1. n < 100000 <=> n \div 100000 = 0
    BY SMT
  <2> QED BY SMT, <1>0, <1>6, <2>1, WorthIs
<1>7. CASE k = 7
  <2>1. n < 1000000 <=> n \div 1000000 = 0
    BY SMT
  <2> QED BY SMT, <1>0, <1>7, <2>1, WorthIs
<1>8. CASE k = 8
  <2>1. n < 10000000 <=> n \div 10000000 = 0
    BY SMT
  <2> QED BY SMT, <1>0, <1>8, <2>1, WorthIs
<1>9. CASE k = 9
  <2>1. n < 100000000 <=> n \div 100000000 = 0
    BY SMT
  <2> QED BY SMT, <1>0, <1>9, <2>1, WorthIs
<1>10. CASE k = 10
  <2>1. n < 1000000000 <=> n \div 1000000000 = 0
    BY SMT
  <2> QED BY SMT, <1>0, <1>10, <2>1, WorthIs
<1> QED BY <1>1, <1>2, <1>3, <1>4, <1>5, <1>6, <1>7, <1>8, <1>9, <1>10

\* The width of a number: it has no digit before that one.
LEMMA WidthFits ==
  ASSUME NEW n \in 0 .. IntMax
  PROVE  /\ Rk!Width(n) \in 1 .. 10
         /\ n \div Rk!Worth[Rk!Width(n)] \in 0 .. 9
         /\ Rk!Width(n) = 1 \/ n >= Rk!Worth[Rk!Width(n)]
         /\ \A k \in 1 .. 10 : k = 1 \/ n >= Rk!Worth[k] => k <= Rk!Width(n)
<1> DEFINE S == {k \in 1 .. 10 : k = 1 \/ n >= Rk!Worth[k]}
           w == Rk!Width(n)
<1>0. n \in Nat
  BY IntMaxTyped
<1>1. S \in SUBSET (0 .. 10) /\ 1 \in S
  OBVIOUS
<1>2. w = Max(S)
  BY DEF Rk!Width, Rk!Max, Max
<1>3. w \in S /\ \A k \in S : k <= w
  <2> HIDE DEF S, w
  <2>1. S # {} /\ 10 \in Nat
    BY <1>1
  <2> QED BY <1>1, <1>2, <2>1, MinMaxOfNumbers
<1>4. w \in 1 .. 10 /\ (w = 1 \/ n >= Rk!Worth[w])
  BY <1>3
<1> HIDE DEF w
<1>5. \A k \in 1 .. 10 : k = 1 \/ n >= Rk!Worth[k] => k <= w
  BY <1>3
<1> HIDE DEF S
<1>6. n \div Rk!Worth[w] \in 0 .. 9
  <2>1. CASE w = 10
    BY <1>0, <2>1, NothingLeft
  <2>2. CASE w \in 1 .. 9
    <3>1. w + 1 \in 1 .. 10 /\ ~(n >= Rk!Worth[w + 1])
      BY <1>5, <2>2
    <3>2. Rk!Worth[w + 1] \in Nat
      BY <3>1, WorthTyped
    <3>3. n \div Rk!Worth[w + 1] = 0
      BY <1>0, <3>1, <3>2, NothingLeft
    <3>4. /\ n \div Rk!Worth[w] = 10 * (n \div Rk!Worth[w + 1]) + ((n \div Rk!Worth[w]) % 10)
          /\ (n \div Rk!Worth[w]) % 10 \in 0 .. 9
      BY ONLY n \in Nat, <1>0, <2>2, DigitSplits
    <3> QED BY <3>3, <3>4
  <2> QED BY <1>4, <2>1, <2>2
<1> QED BY <1>4, <1>5, <1>6 DEF w


\* Digits of the same width sort as their numbers do.
LEMMA DigitsSort ==
  ASSUME NEW p \in Nat, NEW q \in Nat, p < q, NEW w \in 1 .. 10,
         q \div Rk!Worth[w] \in 0 .. 9
  PROVE  Rk!Before(Digits(p, w), Digits(q, w))
<1> DEFINE P(i) == p \div Rk!Worth[w - i + 1]
           Q(i) == q \div Rk!Worth[w - i + 1]
           Wrong == {i \in 1 .. w : P(i) # Q(i)}
           s == Digits(p, w)
           t == Digits(q, w)
<1>1. \A i \in 1 .. w : w - i + 1 \in 1 .. 10
  OBVIOUS
<1>2. \A i \in 1 .. w : P(i) \in Nat /\ Q(i) \in Nat /\ P(i) <= Q(i)
  <2> TAKE i \in 1 .. w
  <2>1. w - i + 1 \in 1 .. 10 /\ p <= q
    BY <1>1
  <2> DEFINE k == w - i + 1
  <2> HIDE DEF k
  <2>2. k \in 1 .. 10
    BY <2>1 DEF k
  <2>3. /\ p \div Rk!Worth[k] \in Nat /\ q \div Rk!Worth[k] \in Nat
        /\ p \div Rk!Worth[k] <= q \div Rk!Worth[k]
    BY <2>1, <2>2, DigitsMonotone
  <2> QED BY <2>3 DEF k
<1>3. w \in Wrong
  <2>1. w - w + 1 = 1 /\ w \in 1 .. w
    OBVIOUS
  <2>2. Rk!Worth[1] = 1
    BY SMT, WorthIs
  <2>3. p \div 1 = p /\ q \div 1 = q
    OBVIOUS
  <2> QED BY <2>1, <2>2, <2>3
<1>4. PICK i \in Wrong : \A j \in Wrong : i <= j
  <2> HIDE DEF P, Q
  <2>1. Wrong \in SUBSET Nat /\ Wrong # {}
    BY <1>3
  <2> HIDE DEF Wrong
  <2> QED BY <2>1, SmallestNumber
<1>5. i \in 1 .. w /\ P(i) < Q(i)
  <2>1. i \in 1 .. w /\ P(i) # Q(i)
    BY <1>4
  <2> HIDE DEF P, Q, Wrong
  <2> QED BY <1>2, <2>1
<1>6. \A j \in 1 .. (i - 1) : j \in 1 .. w /\ P(j) = Q(j)
  <2> TAKE j \in 1 .. (i - 1)
  <2>1. j \in 1 .. w /\ ~(i <= j)
    BY <1>5
  <2>2. j \notin Wrong
    BY <1>4, <2>1
  <2> QED BY <2>1, <2>2
<1> HIDE DEF Wrong
<1>7. s[i] < t[i]
  <2>1. s[i] = P(i) % 10 /\ t[i] = Q(i) % 10
    BY <1>5 DEF Digits
  <2>2. CASE i = 1
    <3>1. w - i + 1 = w
      BY <2>2
    <3>2. Q(i) \in 0 .. 9
      BY <3>1
    <3> HIDE DEF P, Q
    <3>3. P(i) \in Nat /\ Q(i) \in Nat /\ P(i) < Q(i)
      BY <1>2, <1>5
    <3>4. \A x \in 0 .. 9 : x % 10 = x
      OBVIOUS
    <3>5. P(i) \in 0 .. 9
      BY <3>2, <3>3
    <3> QED BY <2>1, <3>2, <3>3, <3>4, <3>5
  <2>3. CASE i # 1
    <3> DEFINE k == w - i + 1
    <3>1. k \in 1 .. 9 /\ k + 1 = w - (i - 1) + 1 /\ i - 1 \in 1 .. (i - 1)
      BY <1>5, <2>3
    <3>2. P(i - 1) = p \div Rk!Worth[k + 1] /\ Q(i - 1) = q \div Rk!Worth[k + 1]
      BY ONLY <3>1
    <3>3. P(i) = p \div Rk!Worth[k] /\ Q(i) = q \div Rk!Worth[k]
      OBVIOUS
    <3> HIDE DEF k, P, Q
    <3>4. P(i - 1) = Q(i - 1)
      BY <1>6, <3>1
    <3>5. /\ P(i) = 10 * P(i - 1) + (P(i) % 10) /\ P(i) % 10 \in 0 .. 9 /\ P(i - 1) \in Nat
      BY <3>1, <3>2, <3>3, DigitSplits
    <3>6. /\ Q(i) = 10 * Q(i - 1) + (Q(i) % 10) /\ Q(i) % 10 \in 0 .. 9 /\ Q(i - 1) \in Nat
      BY <3>1, <3>2, <3>3, DigitSplits
    <3> DEFINE a == P(i) % 10
               b == Q(i) % 10
               c == P(i - 1)
    <3>7. /\ P(i) = 10 * c + a /\ Q(i) = 10 * c + b
          /\ a \in 0 .. 9 /\ b \in 0 .. 9 /\ c \in Nat
      BY <3>4, <3>5, <3>6
    <3>8. s[i] = a /\ t[i] = b
      BY <2>1
    <3> HIDE DEF a, b, c
    <3> QED BY <1>5, <3>7, <3>8
  <2> QED BY <2>2, <2>3
<1>8. SubSeq(s, 1, i - 1) = SubSeq(t, 1, i - 1)
  <2>1. \A j \in 1 .. (i - 1) : s[j] = t[j]
    <3> TAKE j \in 1 .. (i - 1)
    <3>1. j \in 1 .. w /\ P(j) = Q(j)
      BY <1>6
    <3> QED BY <3>1 DEF Digits
  <2>2. i - 1 \in Nat
    BY <1>5
  <2> HIDE DEF s, t, P, Q
  <2> QED BY <2>1, <2>2
<1>9. i \in DOMAIN s /\ i \in DOMAIN t
  BY <1>5 DEF Digits
<1> QED BY <1>7, <1>8, <1>9 DEF Rk!Before


\* They do so behind the name of a host, too.
LEMMA SortBehind ==
  ASSUME NEW p, NEW q, NEW w \in 1 .. 10, NEW x, Rk!Before(Digits(p, w), Digits(q, w))
  PROVE  Rk!Before(<<x>> \o Digits(p, w), <<x>> \o Digits(q, w))
<1> DEFINE s == Digits(p, w)
           t == Digits(q, w)
           ss == <<x>> \o s
           tt == <<x>> \o t
<1>1. PICK i \in DOMAIN s : /\ SubSeq(s, 1, i - 1) = SubSeq(t, 1, i - 1)
                            /\ i \in DOMAIN t /\ s[i] < t[i]
  BY DEF Rk!Before
<1>2. /\ DOMAIN s = 1 .. w /\ DOMAIN t = 1 .. w /\ Len(s) = w /\ Len(t) = w
      /\ i \in 1 .. w
  BY <1>1 DEF Digits
<1>a. s = [k \in 1 .. w |-> s[k]] /\ t = [k \in 1 .. w |-> t[k]]
  BY DEF Digits
<1> HIDE DEF s, t
<1>3. /\ DOMAIN ss = 1 .. w + 1 /\ DOMAIN tt = 1 .. w + 1 /\ ss[1] = x /\ tt[1] = x
      /\ \A k \in 1 .. w : ss[k + 1] = s[k] /\ tt[k + 1] = t[k]
  <2>1. DOMAIN ss = 1 .. w + 1 /\ ss[1] = x /\ \A k \in 1 .. w : ss[k + 1] = s[k]
    BY <1>2, <1>a
  <2>2. DOMAIN tt = 1 .. w + 1 /\ tt[1] = x /\ \A k \in 1 .. w : tt[k + 1] = t[k]
    BY <1>2, <1>a
  <2> QED BY <2>1, <2>2
<1> HIDE DEF ss, tt
<1>4. \A k \in 1 .. (i - 1) : s[k] = t[k]
  <2> TAKE k \in 1 .. (i - 1)
  <2>1. SubSeq(s, 1, i - 1)[k] = s[k] /\ SubSeq(t, 1, i - 1)[k] = t[k]
    BY <1>2
  <2> QED BY <1>1, <2>1
<1>5. SubSeq(ss, 1, i) = SubSeq(tt, 1, i)
  <2>1. \A k \in 1 .. i : ss[k] = tt[k]
    <3> TAKE k \in 1 .. i
    <3>1. CASE k = 1
      BY <1>3, <3>1
    <3>2. CASE k # 1
      <4>1. k - 1 \in 1 .. w /\ k - 1 \in 1 .. (i - 1) /\ (k - 1) + 1 = k
        BY <1>2, <3>2
      <4>2. ss[(k - 1) + 1] = s[k - 1] /\ tt[(k - 1) + 1] = t[k - 1]
        BY <1>3, <4>1
      <4> QED BY <1>4, <4>1, <4>2
    <3> QED BY <3>1, <3>2
  <2> QED BY <1>2, <2>1
<1>6. i + 1 \in DOMAIN ss /\ i + 1 \in DOMAIN tt /\ ss[i + 1] < tt[i + 1] /\ (i + 1) - 1 = i
  BY <1>1, <1>2, <1>3
<1>7. Rk!Before(ss, tt)
  BY <1>5, <1>6 DEF Rk!Before
<1> QED BY <1>7 DEF ss, tt, s, t


\* The greater of two widths, and that of a number with so many digits at least.
LEMMA WiderOf ==
  ASSUME NEW a \in Int, NEW b \in Int
  PROVE  Rk!Max({a, b}) = IF a >= b THEN a ELSE b
BY DEF Rk!Max

\* A padded number has as many digits as wanted, if it does not need more.
LEMMA PaddedIs ==
  ASSUME NEW n \in 0 .. IntMax, NEW w \in 1 .. 10, Rk!Width(n) <= w
  PROVE  Rk!Padded(n, w) = Digits(n, w) /\ n \div Rk!Worth[w] \in 0 .. 9
<1>0. n \in Nat
  BY IntMaxTyped
<1>1. Rk!Width(n) \in 1 .. 10 /\ n \div Rk!Worth[Rk!Width(n)] \in 0 .. 9
      /\ \A k \in 1 .. 10 : k = 1 \/ n >= Rk!Worth[k] => k <= Rk!Width(n)
  BY WidthFits
<1>2. Rk!Max({w, Rk!Width(n)}) = w
  BY <1>1, WiderOf
<1>3. Rk!Padded(n, w) = Digits(n, w)
  BY <1>2 DEF Rk!Padded, Digits
<1>4. n \div Rk!Worth[w] \in 0 .. 9
  <2>1. CASE Rk!Width(n) = w
    BY <1>1, <2>1
  <2>2. CASE Rk!Width(n) # w
    <3>1. w # 1 /\ ~(w <= Rk!Width(n)) /\ Rk!Worth[w] \in Nat
      BY <1>1, <2>2, WorthTyped
    <3>2. n < Rk!Worth[w]
      BY <1>0, <1>1, <3>1
    <3> QED BY <1>0, <3>1, <3>2, NothingLeft
  <2> QED BY <2>1, <2>2
<1> QED BY <1>3, <1>4

\* A greater number is not less wide.
LEMMA WidthGrows ==
  ASSUME NEW n \in 0 .. IntMax, NEW m \in 0 .. n
  PROVE  m \in 0 .. IntMax /\ Rk!Width(m) <= Rk!Width(n)
<1>1. m \in 0 .. IntMax /\ m \in Nat /\ n \in Nat /\ m <= n
  BY IntMaxTyped
<1> DEFINE k == Rk!Width(m)
<1>2. k \in 1 .. 10 /\ (k = 1 \/ m >= Rk!Worth[k])
  BY <1>1, WidthFits
<1> HIDE DEF k
<1>3. k = 1 \/ n >= Rk!Worth[k]
  BY <1>1, <1>2, WorthTyped
<1>4. k <= Rk!Width(n)
  BY <1>2, <1>3, WidthFits
<1> QED BY <1>1, <1>4 DEF k

\* The logs of a run, of any size that an int holds, sort as their ranks or their ids
\* do, and those that go by ranks have names of one length (utils.cpp 464-485).
THEOREM LogsSort ==
  ASSUME NEW size \in 1 .. IntMax
  PROVE  Rk!NamesSortedFor(size)
<1>0. IntMax \in Nat
  BY IntMaxTyped
<1> DEFINE w == Rk!Width(size - 1)
           v == Rk!Width(size)
<1>1. w \in 1 .. 10 /\ v \in 1 .. 10
  <2>1. size - 1 \in 0 .. IntMax /\ size \in 0 .. IntMax
    BY <1>0
  <2> QED BY <2>1, WidthFits
<1>2. ASSUME NEW r \in 0 .. size - 1
      PROVE  /\ Rk!LogName(size, r) = Digits(r, w)
             /\ r \in Nat /\ r \div Rk!Worth[w] \in 0 .. 9
  <2>1. size - 1 \in 0 .. IntMax /\ r \in Nat
    BY <1>0
  <2>2. r \in 0 .. IntMax /\ Rk!Width(r) <= w
    BY <2>1, WidthGrows
  <2>3. Rk!Padded(r, w) = Digits(r, w) /\ r \div Rk!Worth[w] \in 0 .. 9
    BY <1>1, <2>2, PaddedIs
  <2>4. Rk!LogName(size, r) = Rk!Padded(r, w)
    BY DEF Rk!LogName, Rk!getUniqueFilename
  <2> QED BY <2>1, <2>3, <2>4
<1>3. ASSUME NEW p \in 1 .. size
      PROVE  /\ Rk!getUniqueFilename(<<>>, TRUE, 7, p, size) = <<7>> \o Digits(p, v)
             /\ p \in Nat /\ p \div Rk!Worth[v] \in 0 .. 9
  <2>1. size \in 0 .. IntMax /\ p \in 0 .. size /\ p \in Nat
    BY <1>0
  <2>2. p \in 0 .. IntMax /\ Rk!Width(p) <= v
    BY <2>1, WidthGrows
  <2>3. Rk!Padded(p, v) = Digits(p, v) /\ p \div Rk!Worth[v] \in 0 .. 9
    BY <1>1, <2>2, PaddedIs
  <2>4. Rk!getUniqueFilename(<<>>, TRUE, 7, p, size) = <<7>> \o Rk!Padded(p, v)
    BY DEF Rk!getUniqueFilename
  <2> QED BY <2>1, <2>3, <2>4
<1> HIDE DEF w, v
<1>4. ASSUME NEW r \in 1 .. size - 1
      PROVE  /\ Rk!Before(Rk!LogName(size, r - 1), Rk!LogName(size, r))
             /\ Len(Rk!LogName(size, r - 1)) = Len(Rk!LogName(size, r))
  <2>1. r \in 0 .. size - 1 /\ r - 1 \in 0 .. size - 1 /\ r - 1 < r
    BY <1>0
  <2>2. Rk!LogName(size, r - 1) = Digits(r - 1, w) /\ r - 1 \in Nat
    BY <1>2, <2>1
  <2>3. Rk!LogName(size, r) = Digits(r, w) /\ r \in Nat /\ r \div Rk!Worth[w] \in 0 .. 9
    BY <1>2, <2>1
  <2>4. Rk!Before(Digits(r - 1, w), Digits(r, w))
    BY <1>1, <2>1, <2>2, <2>3, DigitsSort
  <2>5. Len(Digits(r - 1, w)) = w /\ Len(Digits(r, w)) = w
    BY <1>1 DEF Digits
  <2> QED BY <2>2, <2>3, <2>4, <2>5
<1>5. ASSUME NEW p \in 1 .. size - 1
      PROVE  Rk!Before(Rk!getUniqueFilename(<<>>, TRUE, 7, p, size),
                       Rk!getUniqueFilename(<<>>, TRUE, 7, p + 1, size))
  <2>1. p \in 1 .. size /\ p + 1 \in 1 .. size /\ p < p + 1
    BY <1>0
  <2>2. Rk!getUniqueFilename(<<>>, TRUE, 7, p, size) = <<7>> \o Digits(p, v) /\ p \in Nat
    BY <1>3, <2>1
  <2>3. /\ Rk!getUniqueFilename(<<>>, TRUE, 7, p + 1, size) = <<7>> \o Digits(p + 1, v)
        /\ p + 1 \in Nat /\ (p + 1) \div Rk!Worth[v] \in 0 .. 9
    BY <1>3, <2>1
  <2>4. Rk!Before(Digits(p, v), Digits(p + 1, v))
    BY <1>1, <2>1, <2>2, <2>3, DigitsSort
  <2>5. Rk!Before(<<7>> \o Digits(p, v), <<7>> \o Digits(p + 1, v))
    BY <1>1, <2>4, SortBehind
  <2> QED BY <2>2, <2>3, <2>5
<1> QED BY <1>4, <1>5 DEF Rk!NamesSortedFor


\* A number's name has as many digits as wanted or as it needs.
LEMMA PaddedLength ==
  ASSUME NEW n \in 0 .. IntMax, NEW len \in 1 .. 10
  PROVE  Len(Rk!Padded(n, len)) = IF len >= Rk!Width(n) THEN len ELSE Rk!Width(n)
<1> DEFINE w == Rk!Max({len, Rk!Width(n)})
<1>1. Rk!Width(n) \in 1 .. 10
  BY WidthFits
<1>2. w = IF len >= Rk!Width(n) THEN len ELSE Rk!Width(n)
  BY <1>1, WiderOf
<1>3. w \in Nat
  BY <1>1, <1>2
<1>4. Rk!Padded(n, len) = [i \in 1 .. w |-> (n \div Rk!Worth[w - i + 1]) % 10]
  BY DEF Rk!Padded
<1> HIDE DEF w
<1>5. Len(Rk!Padded(n, len)) = w
  BY <1>3, <1>4
<1> QED BY <1>2, <1>5

\* Names in order are not the same.
LEMMA BeforeDiffers ==
  ASSUME NEW v, NEW w, \A i \in DOMAIN v : v[i] \in Int, Rk!Before(v, w)
  PROVE  v # w
<1>1. PICK i \in DOMAIN v : v[i] < w[i]
  BY DEF Rk!Before
<1>2. v[i] \in Int
  BY <1>1
<1> QED BY <1>1, <1>2

\* Two numbers have different digits, however many at least.
LEMMA PaddedDiffers ==
  ASSUME NEW len \in 1 .. 10, NEW p \in 0 .. IntMax, NEW q \in 0 .. IntMax, p < q
  PROVE  Rk!Padded(p, len) # Rk!Padded(q, len)
<1>0. p \in Nat /\ q \in Nat
  BY IntMaxTyped
<1> DEFINE w == IF len >= Rk!Width(q) THEN len ELSE Rk!Width(q)
<1>1. Rk!Width(p) \in 1 .. 10 /\ Rk!Width(q) \in 1 .. 10
  BY WidthFits
<1>2. w \in 1 .. 10 /\ Rk!Width(q) <= w
  BY <1>1
<1>3. Len(Rk!Padded(q, len)) = w
  BY PaddedLength
<1>4. SUFFICES ASSUME Rk!Padded(p, len) = Rk!Padded(q, len) PROVE FALSE
  OBVIOUS
<1>5. Rk!Max({len, Rk!Width(q)}) = w /\ Rk!Max({len, Rk!Width(p)}) = w
  <2>1. Len(Rk!Padded(p, len)) = IF len >= Rk!Width(p) THEN len ELSE Rk!Width(p)
    BY PaddedLength
  <2>2. Rk!Max({len, Rk!Width(p)}) = IF len >= Rk!Width(p) THEN len ELSE Rk!Width(p)
    BY <1>1, WiderOf
  <2>3. Rk!Max({len, Rk!Width(q)}) = w
    BY <1>1, WiderOf
  <2> HIDE DEF w
  <2> QED BY <1>3, <1>4, <2>1, <2>2, <2>3
<1> HIDE DEF w
<1>6. Rk!Padded(p, len) = Digits(p, w) /\ Rk!Padded(q, len) = Digits(q, w)
  BY <1>5 DEF Rk!Padded, Digits
<1>7. q \div Rk!Worth[w] \in 0 .. 9
  BY <1>2, PaddedIs
<1>8. Rk!Before(Digits(p, w), Digits(q, w))
  BY <1>0, <1>2, <1>7, DigitsSort
<1>9. \A i \in DOMAIN Digits(p, w) : Digits(p, w)[i] \in Int
  <2> TAKE i \in DOMAIN Digits(p, w)
  <2>1. i \in 1 .. w /\ Digits(p, w)[i] = (p \div Rk!Worth[w - i + 1]) % 10
    BY DEF Digits
  <2>2. w - i + 1 \in 1 .. 10
    BY <1>2, <2>1
  <2> DEFINE k == w - i + 1
             x == p \div Rk!Worth[k]
  <2>3. k \in 1 .. 10 /\ p \in Nat /\ p <= p
    BY <1>0, <2>2
  <2> HIDE DEF k
  <2>4. x \in Nat
    BY <2>3, DigitsMonotone
  <2>5. Digits(p, w)[i] = x % 10
    BY <2>1 DEF k
  <2> HIDE DEF x
  <2> QED BY <2>4, <2>5
<1>10. Digits(p, w) # Digits(q, w)
  BY <1>8, <1>9, BeforeDiffers
<1> QED BY <1>4, <1>6, <1>10

\* The logs that go by ranks differ, whatever the size is taken for.
LEMMA LogsOfRanksDiffer ==
  ASSUME NEW n \in 1 .. IntMax, NEW p \in 0 .. IntMax, NEW q \in 0 .. IntMax, p # q
  PROVE  Rk!LogName(n, p) # Rk!LogName(n, q)
<1> DEFINE w == Rk!Width(n - 1)
<1>1. w \in 1 .. 10 /\ p \in Nat /\ q \in Nat
  <2>1. n - 1 \in 0 .. IntMax
    BY IntMaxTyped
  <2> QED BY <2>1, IntMaxTyped, WidthFits
<1>2. Rk!LogName(n, p) = Rk!Padded(p, w) /\ Rk!LogName(n, q) = Rk!Padded(q, w)
  BY DEF Rk!LogName, Rk!getUniqueFilename
<1> HIDE DEF w
<1>3. Rk!Padded(p, w) # Rk!Padded(q, w)
  <2>1. p < q \/ q < p
    BY <1>1
  <2> QED BY <1>1, <2>1, PaddedDiffers
<1> QED BY <1>2, <1>3


\* The first variable that is set counts.
LEMMA FirstIs ==
  ASSUME NEW names, NEW env, NEW default, DOMAIN names \in SUBSET Nat,
         NEW i \in DOMAIN names, names[i] \in DOMAIN env,
         \A j \in DOMAIN names : j < i => names[j] \notin DOMAIN env
  PROVE  Rk!FirstSet(names, env, default) = env[names[i]]
<1> DEFINE found == {j \in DOMAIN names : names[j] \in DOMAIN env}
<1>1. i \in found /\ \A j \in found : j \in Nat /\ i <= j
  <2>1. ASSUME NEW j \in found PROVE j \in Nat /\ i <= j
    <3>1. j \in DOMAIN names /\ j \in Nat /\ i \in Nat /\ names[j] \in DOMAIN env
      OBVIOUS
    <3> QED BY <3>1
  <2> QED BY <2>1
<1> HIDE DEF found
<1>2. Rk!Min(found) = i
  BY <1>1 DEF Rk!Min
<1>3. found # {}
  BY <1>1
<1> QED BY <1>2, <1>3 DEF Rk!FirstSet, found

\* The variables in the order in which they are looked for.
RankNames  == <<"PMI_RANK", "ALPS_APP_PE", "PALS_RANKID", "CRAY_PMI_RANK",
                "OMPI_COMM_WORLD_RANK", "PBS_TASKNUM", "PBS_O_TASKNUM",
                "SLURM_PROCID">>
SizeNames  == <<"PMI_SIZE", "CRAY_PMI_SIZE", "PALS_SIZE", "OMPI_COMM_WORLD_SIZE",
                "PBS_NP", "PBS_NUM_NODES", "SLURM_NPROCS", "SLURM_NTASKS",
                "SLURM_JOB_NUM_NODES">>
LocalNames == <<"PMI_LOCAL_RANK", "PALS_LOCAL_RANKID",
                "OMPI_COMM_WORLD_LOCAL_RANK", "SLURM_LOCALID">>
ScriptNames ==
  Rk!Reverse(<<"PMI_RANK", "ALPS_APP_PE", "CRAY_PMI_RANK", "OMPI_COMM_WORLD_RANK",
               "PBS_TASKNUM", "PBS_O_TASKNUM", "SLURM_PROCID", "PMIX_RANK">>)

\* The variables of the environment in the order in which the code looks at them.
LEMMA NamesAre ==
  /\ DOMAIN RankNames = 1 .. 8 /\ DOMAIN SizeNames = 1 .. 9
  /\ DOMAIN LocalNames = 1 .. 4 /\ DOMAIN ScriptNames = 1 .. 8
  /\ RankNames[1] = "PMI_RANK" /\ RankNames[2] = "ALPS_APP_PE"
  /\ RankNames[3] = "PALS_RANKID" /\ RankNames[4] = "CRAY_PMI_RANK"
  /\ RankNames[5] = "OMPI_COMM_WORLD_RANK" /\ RankNames[6] = "PBS_TASKNUM"
  /\ RankNames[7] = "PBS_O_TASKNUM" /\ RankNames[8] = "SLURM_PROCID"
  /\ SizeNames[1] = "PMI_SIZE" /\ SizeNames[2] = "CRAY_PMI_SIZE"
  /\ SizeNames[3] = "PALS_SIZE" /\ SizeNames[4] = "OMPI_COMM_WORLD_SIZE"
  /\ SizeNames[5] = "PBS_NP" /\ SizeNames[6] = "PBS_NUM_NODES"
  /\ SizeNames[7] = "SLURM_NPROCS" /\ SizeNames[8] = "SLURM_NTASKS"
  /\ SizeNames[9] = "SLURM_JOB_NUM_NODES"
  /\ LocalNames[1] = "PMI_LOCAL_RANK" /\ LocalNames[2] = "PALS_LOCAL_RANKID"
  /\ LocalNames[3] = "OMPI_COMM_WORLD_LOCAL_RANK" /\ LocalNames[4] = "SLURM_LOCALID"
  /\ ScriptNames[1] = "PMIX_RANK" /\ ScriptNames[2] = "SLURM_PROCID"
  /\ ScriptNames[3] = "PBS_O_TASKNUM" /\ ScriptNames[4] = "PBS_TASKNUM"
  /\ ScriptNames[5] = "OMPI_COMM_WORLD_RANK" /\ ScriptNames[6] = "CRAY_PMI_RANK"
  /\ ScriptNames[7] = "ALPS_APP_PE" /\ ScriptNames[8] = "PMI_RANK"
<1>1. DOMAIN RankNames = 1 .. 8 
      /\ RankNames[1] = "PMI_RANK" /\ RankNames[2] = "ALPS_APP_PE"
  /\ RankNames[3] = "PALS_RANKID" /\ RankNames[4] = "CRAY_PMI_RANK"
  /\ RankNames[5] = "OMPI_COMM_WORLD_RANK" /\ RankNames[6] = "PBS_TASKNUM"
  /\ RankNames[7] = "PBS_O_TASKNUM" /\ RankNames[8] = "SLURM_PROCID"
  BY DEF RankNames
<1>2. DOMAIN SizeNames = 1 .. 9
  /\ SizeNames[1] = "PMI_SIZE" /\ SizeNames[2] = "CRAY_PMI_SIZE"
  /\ SizeNames[3] = "PALS_SIZE" /\ SizeNames[4] = "OMPI_COMM_WORLD_SIZE"
  /\ SizeNames[5] = "PBS_NP" /\ SizeNames[6] = "PBS_NUM_NODES"
  /\ SizeNames[7] = "SLURM_NPROCS" /\ SizeNames[8] = "SLURM_NTASKS"
  /\ SizeNames[9] = "SLURM_JOB_NUM_NODES"
  BY DEF SizeNames
<1>3. DOMAIN LocalNames = 1 .. 4
  /\ LocalNames[1] = "PMI_LOCAL_RANK" /\ LocalNames[2] = "PALS_LOCAL_RANKID"
  /\ LocalNames[3] = "OMPI_COMM_WORLD_LOCAL_RANK" /\ LocalNames[4] = "SLURM_LOCALID"
  BY DEF LocalNames
<1>4. DOMAIN ScriptNames = 1 .. 8
  /\ ScriptNames[1] = "PMIX_RANK" /\ ScriptNames[2] = "SLURM_PROCID"
  /\ ScriptNames[3] = "PBS_O_TASKNUM" /\ ScriptNames[4] = "PBS_TASKNUM"
  /\ ScriptNames[5] = "OMPI_COMM_WORLD_RANK" /\ ScriptNames[6] = "CRAY_PMI_RANK"
  /\ ScriptNames[7] = "ALPS_APP_PE" /\ ScriptNames[8] = "PMI_RANK"
  BY DEF ScriptNames, Rk!Reverse
<1> QED BY <1>1, <1>2, <1>3, <1>4

SizesOf(env) == Rk!Times(Rk!Times(env, "PBS_NUM_NODES", "PBS_NUM_PPN"),
                         "SLURM_JOB_NUM_NODES", "SLURM_TASKS_PER_NODE")

\* Each of the four is the first of its variables.
LEMMA RankIs ==
  ASSUME NEW env, NEW i \in 1 .. 8, RankNames[i] \in DOMAIN env,
         \A j \in 1 .. (i - 1) : RankNames[j] \notin DOMAIN env
  PROVE  Rk!test_for_MPI_comm_rank(env, 0) = Rk!FromOne(env)[RankNames[i]]
<1>1. DOMAIN Rk!FromOne(env) = DOMAIN env
  BY DEF Rk!FromOne
<1>0. /\ DOMAIN RankNames \in SUBSET Nat /\ i \in DOMAIN RankNames
      /\ \A j \in DOMAIN RankNames : j < i => RankNames[j] \notin DOMAIN env
  <2>1. DOMAIN RankNames = 1 .. 8
    BY NamesAre
  <2> QED BY ONLY <2>1, i \in 1 .. 8,
             \A j \in 1 .. (i - 1) : RankNames[j] \notin DOMAIN env
<1>2. Rk!FirstSet(RankNames, Rk!FromOne(env), 0) = Rk!FromOne(env)[RankNames[i]]
  BY <1>1, <1>0, FirstIs
<1> QED BY <1>2 DEF Rk!test_for_MPI_comm_rank, RankNames

\* The first variable of the list that is set is the size.
LEMMA SizeIs ==
  ASSUME NEW env, NEW i \in 1 .. 9, SizeNames[i] \in DOMAIN SizesOf(env),
         \A j \in 1 .. (i - 1) : SizeNames[j] \notin DOMAIN SizesOf(env)
  PROVE  Rk!test_for_MPI_comm_size(env, 1) = SizesOf(env)[SizeNames[i]]
<1>0. /\ DOMAIN SizeNames \in SUBSET Nat /\ i \in DOMAIN SizeNames
      /\ \A j \in DOMAIN SizeNames : j < i => SizeNames[j] \notin DOMAIN SizesOf(env)
  <2>1. DOMAIN SizeNames = 1 .. 9
    BY NamesAre
  <2> QED BY ONLY <2>1, i \in 1 .. 9,
             \A j \in 1 .. (i - 1) : SizeNames[j] \notin DOMAIN SizesOf(env)
<1>1. Rk!FirstSet(SizeNames, SizesOf(env), 1) = SizesOf(env)[SizeNames[i]]
  BY <1>0, FirstIs
<1> QED BY <1>1 DEF Rk!test_for_MPI_comm_size, SizeNames, SizesOf

\* The first variable of the list that is set is the local rank.
LEMMA LocalIs ==
  ASSUME NEW env, NEW r, NEW i \in 1 .. 4, LocalNames[i] \in DOMAIN env,
         \A j \in 1 .. (i - 1) : LocalNames[j] \notin DOMAIN env
  PROVE  Rk!test_for_MPI_local_rank(env, r) = env[LocalNames[i]]
<1>0. /\ DOMAIN LocalNames \in SUBSET Nat /\ i \in DOMAIN LocalNames
      /\ \A j \in DOMAIN LocalNames : j < i => LocalNames[j] \notin DOMAIN env
  <2>1. DOMAIN LocalNames = 1 .. 4
    BY NamesAre
  <2> QED BY ONLY <2>1, i \in 1 .. 4,
             \A j \in 1 .. (i - 1) : LocalNames[j] \notin DOMAIN env
<1>1. Rk!FirstSet(LocalNames, env, r) = env[LocalNames[i]]
  BY <1>0, FirstIs
<1> QED BY <1>1 DEF Rk!test_for_MPI_local_rank, LocalNames

\* The launcher script's rank is that of its last variable that is set.
LEMMA ScriptIs ==
  ASSUME NEW env, NEW i \in 1 .. 8, ScriptNames[i] \in DOMAIN env,
         \A j \in 1 .. (i - 1) : ScriptNames[j] \notin DOMAIN env
  PROVE  Rk!ScriptRank(env) = env[ScriptNames[i]]
<1>0. /\ DOMAIN ScriptNames \in SUBSET Nat /\ i \in DOMAIN ScriptNames
      /\ \A j \in DOMAIN ScriptNames : j < i => ScriptNames[j] \notin DOMAIN env
  <2>1. DOMAIN ScriptNames = 1 .. 8
    BY NamesAre
  <2> QED BY ONLY <2>1, i \in 1 .. 8,
             \A j \in 1 .. (i - 1) : ScriptNames[j] \notin DOMAIN env
<1>1. Rk!FirstSet(ScriptNames, env, 0) = env[ScriptNames[i]]
  BY <1>0, FirstIs
<1> QED BY <1>1 DEF Rk!ScriptRank, ScriptNames


\* The products change nothing where their variables are not set.
LEMMA SizesKept ==
  ASSUME NEW env, env = [x \in DOMAIN env |-> env[x]],
         DOMAIN env \cap {"PBS_NUM_NODES", "SLURM_JOB_NUM_NODES"} = {}
  PROVE  SizesOf(env) = env
<1>1. Rk!Times(env, "PBS_NUM_NODES", "PBS_NUM_PPN") = env
  BY DEF Rk!Times
<1>2. Rk!Times(env, "SLURM_JOB_NUM_NODES", "SLURM_TASKS_PER_NODE") = env
  BY DEF Rk!Times
<1> QED BY <1>1, <1>2 DEF SizesOf

\* All of the nodes, with as many processes on each.
LEMMA AllNodes ==
  ASSUME NEW size \in Nat, NEW perNode \in Nat \ {0}, size % perNode = 0
  PROVE  (size \div perNode) * perNode = size /\ size \div perNode \in Int
<1>1. size \div perNode \in Int /\ size = perNode * (size \div perNode) + (size % perNode)
  BY Remainder
<1> DEFINE q == size \div perNode
<1> HIDE DEF q
<1>2. q \in Int /\ size = perNode * q + 0
  BY <1>1 DEF q
<1>3. q * perNode = size
  BY <1>2
<1> QED BY <1>2, <1>3 DEF q

\* A launcher that speaks PMI.
LEMMA RankPmi ==
  ASSUME NEW size \in Nat, NEW perNode \in Nat \ {0}, NEW r \in Nat
  PROVE  /\ Rk!RankFoundFor("pmi", size, perNode, r)
         /\ Rk!SameNumberFor("pmi", size, perNode, r)
<1> DEFINE env == Rk!Launched("pmi", size, perNode, r)
           sizes == SizesOf(env)
           ones == Rk!FromOne(env)
<1>1. /\ DOMAIN env = {"PMI_RANK", "PMI_SIZE", "PMI_LOCAL_RANK"}
      /\ env["PMI_RANK"] = r /\ env["PMI_SIZE"] = size
      /\ env["PMI_LOCAL_RANK"] = (r % perNode)
      /\ env = [x \in DOMAIN env |-> env[x]]
  BY DEF Rk!Launched
<1> HIDE DEF env
<1>2. DOMAIN ones = DOMAIN env /\ ones["PMI_RANK"] = r
  BY <1>1 DEF Rk!FromOne
<1>3. DOMAIN sizes = DOMAIN env /\ sizes["PMI_SIZE"] = size
  <2>1. DOMAIN env \cap {"PBS_NUM_NODES", "SLURM_JOB_NUM_NODES"} = {}
    BY <1>1
  <2> QED BY <1>1, <2>1, SizesKept
<1> HIDE DEF sizes, ones
<1>4. Rk!test_for_MPI_comm_rank(env, 0) = r
  <2>1. 1 \in 1 .. 8 /\ RankNames[1] = "PMI_RANK"
    BY NamesAre
  <2>2. \A j \in 1 .. (1 - 1) : RankNames[j] \notin DOMAIN env
    OBVIOUS
  <2> QED BY <1>1, <1>2, <1>3, <2>1, <2>2, RankIs DEF ones
<1>5. Rk!test_for_MPI_comm_size(env, 1) = size
  <2>1. 1 \in 1 .. 9 /\ SizeNames[1] = "PMI_SIZE"
    BY NamesAre
  <2>2. \A j \in 1 .. (1 - 1) : SizeNames[j] \notin DOMAIN sizes
    OBVIOUS
  <2> QED BY <1>1, <1>2, <1>3, <2>1, <2>2, SizeIs DEF sizes
<1>6. Rk!test_for_MPI_local_rank(env, r) = r % perNode
  <2>1. 1 \in 1 .. 4 /\ LocalNames[1] = "PMI_LOCAL_RANK"
    BY NamesAre
  <2>2. \A j \in 1 .. (1 - 1) : LocalNames[j] \notin DOMAIN env
    OBVIOUS
  <2> QED BY <1>1, <1>2, <1>3, <2>1, <2>2, LocalIs
<1>7. Rk!ScriptRank(env) = r
  <2>1. 8 \in 1 .. 8 /\ ScriptNames[8] = "PMI_RANK"
    BY NamesAre
  <2>2. \A j \in 1 .. (8 - 1) : ScriptNames[j] \notin DOMAIN env
    <3> TAKE j \in 1 .. (8 - 1)
    <3>1. j \in {1, 2, 3, 4, 5, 6, 7}
      OBVIOUS
    <3> QED BY <1>1, <1>2, <1>3, <3>1, NamesAre
  <2> QED BY <1>1, <1>2, <1>3, <2>1, <2>2, ScriptIs
<1> QED BY <1>4, <1>5, <1>6, <1>7
        DEF Rk!RankFoundFor, Rk!SameNumberFor, Rk!getMPIinfo, Rk!openLog, Rk!LogName, env

\* PALS, which sets PMI's rank as well.
LEMMA RankPals ==
  ASSUME NEW size \in Nat, NEW perNode \in Nat \ {0}, NEW r \in Nat
  PROVE  /\ Rk!RankFoundFor("pals", size, perNode, r)
         /\ Rk!SameNumberFor("pals", size, perNode, r)
<1> DEFINE env == Rk!Launched("pals", size, perNode, r)
           sizes == SizesOf(env)
           ones == Rk!FromOne(env)
<1>1. /\ DOMAIN env = {"PALS_RANKID", "PALS_SIZE", "PALS_LOCAL_RANKID", "PMI_RANK"}
      /\ env["PALS_RANKID"] = r /\ env["PALS_SIZE"] = size
      /\ env["PALS_LOCAL_RANKID"] = (r % perNode) /\ env["PMI_RANK"] = r
      /\ env = [x \in DOMAIN env |-> env[x]]
  BY DEF Rk!Launched
<1> HIDE DEF env
<1>2. DOMAIN ones = DOMAIN env /\ ones["PMI_RANK"] = r
  BY <1>1 DEF Rk!FromOne
<1>3. DOMAIN sizes = DOMAIN env /\ sizes["PALS_SIZE"] = size
  <2>1. DOMAIN env \cap {"PBS_NUM_NODES", "SLURM_JOB_NUM_NODES"} = {}
    BY <1>1
  <2> QED BY <1>1, <2>1, SizesKept
<1> HIDE DEF sizes, ones
<1>4. Rk!test_for_MPI_comm_rank(env, 0) = r
  <2>1. 1 \in 1 .. 8 /\ RankNames[1] = "PMI_RANK"
    BY NamesAre
  <2>2. \A j \in 1 .. (1 - 1) : RankNames[j] \notin DOMAIN env
    OBVIOUS
  <2> QED BY <1>1, <1>2, <1>3, <2>1, <2>2, RankIs DEF ones
<1>5. Rk!test_for_MPI_comm_size(env, 1) = size
  <2>1. 3 \in 1 .. 9 /\ SizeNames[3] = "PALS_SIZE"
    BY NamesAre
  <2>2. \A j \in 1 .. (3 - 1) : SizeNames[j] \notin DOMAIN sizes
    <3> TAKE j \in 1 .. (3 - 1)
    <3>1. j \in {1, 2}
      OBVIOUS
    <3> QED BY <1>1, <1>2, <1>3, <3>1, NamesAre
  <2> QED BY <1>1, <1>2, <1>3, <2>1, <2>2, SizeIs DEF sizes
<1>6. Rk!test_for_MPI_local_rank(env, r) = r % perNode
  <2>1. 2 \in 1 .. 4 /\ LocalNames[2] = "PALS_LOCAL_RANKID"
    BY NamesAre
  <2>2. \A j \in 1 .. (2 - 1) : LocalNames[j] \notin DOMAIN env
    <3> TAKE j \in 1 .. (2 - 1)
    <3>1. j \in {1}
      OBVIOUS
    <3> QED BY <1>1, <1>2, <1>3, <3>1, NamesAre
  <2> QED BY <1>1, <1>2, <1>3, <2>1, <2>2, LocalIs
<1>7. Rk!ScriptRank(env) = r
  <2>1. 8 \in 1 .. 8 /\ ScriptNames[8] = "PMI_RANK"
    BY NamesAre
  <2>2. \A j \in 1 .. (8 - 1) : ScriptNames[j] \notin DOMAIN env
    <3> TAKE j \in 1 .. (8 - 1)
    <3>1. j \in {1, 2, 3, 4, 5, 6, 7}
      OBVIOUS
    <3> QED BY <1>1, <1>2, <1>3, <3>1, NamesAre
  <2> QED BY <1>1, <1>2, <1>3, <2>1, <2>2, ScriptIs
<1> QED BY <1>4, <1>5, <1>6, <1>7
        DEF Rk!RankFoundFor, Rk!SameNumberFor, Rk!getMPIinfo, Rk!openLog, Rk!LogName, env

\* srun.
LEMMA RankSlurm ==
  ASSUME NEW size \in Nat, NEW perNode \in Nat \ {0}, NEW r \in Nat
  PROVE  /\ Rk!RankFoundFor("slurm", size, perNode, r)
         /\ Rk!SameNumberFor("slurm", size, perNode, r)
<1> DEFINE env == Rk!Launched("slurm", size, perNode, r)
           sizes == SizesOf(env)
           ones == Rk!FromOne(env)
<1>1. /\ DOMAIN env = {"SLURM_PROCID", "SLURM_NTASKS", "SLURM_LOCALID", "PMIX_RANK"}
      /\ env["SLURM_PROCID"] = r /\ env["SLURM_NTASKS"] = size
      /\ env["SLURM_LOCALID"] = (r % perNode) /\ env["PMIX_RANK"] = r
      /\ env = [x \in DOMAIN env |-> env[x]]
  BY DEF Rk!Launched
<1> HIDE DEF env
<1>2. DOMAIN ones = DOMAIN env /\ ones["SLURM_PROCID"] = r
  BY <1>1 DEF Rk!FromOne
<1>3. DOMAIN sizes = DOMAIN env /\ sizes["SLURM_NTASKS"] = size
  <2>1. DOMAIN env \cap {"PBS_NUM_NODES", "SLURM_JOB_NUM_NODES"} = {}
    BY <1>1
  <2> QED BY <1>1, <2>1, SizesKept
<1> HIDE DEF sizes, ones
<1>4. Rk!test_for_MPI_comm_rank(env, 0) = r
  <2>1. 8 \in 1 .. 8 /\ RankNames[8] = "SLURM_PROCID"
    BY NamesAre
  <2>2. \A j \in 1 .. (8 - 1) : RankNames[j] \notin DOMAIN env
    <3> TAKE j \in 1 .. (8 - 1)
    <3>1. j \in {1, 2, 3, 4, 5, 6, 7}
      OBVIOUS
    <3> QED BY <1>1, <1>2, <1>3, <3>1, NamesAre
  <2> QED BY <1>1, <1>2, <1>3, <2>1, <2>2, RankIs DEF ones
<1>5. Rk!test_for_MPI_comm_size(env, 1) = size
  <2>1. 8 \in 1 .. 9 /\ SizeNames[8] = "SLURM_NTASKS"
    BY NamesAre
  <2>2. \A j \in 1 .. (8 - 1) : SizeNames[j] \notin DOMAIN sizes
    <3> TAKE j \in 1 .. (8 - 1)
    <3>1. j \in {1, 2, 3, 4, 5, 6, 7}
      OBVIOUS
    <3> QED BY <1>1, <1>2, <1>3, <3>1, NamesAre
  <2> QED BY <1>1, <1>2, <1>3, <2>1, <2>2, SizeIs DEF sizes
<1>6. Rk!test_for_MPI_local_rank(env, r) = r % perNode
  <2>1. 4 \in 1 .. 4 /\ LocalNames[4] = "SLURM_LOCALID"
    BY NamesAre
  <2>2. \A j \in 1 .. (4 - 1) : LocalNames[j] \notin DOMAIN env
    <3> TAKE j \in 1 .. (4 - 1)
    <3>1. j \in {1, 2, 3}
      OBVIOUS
    <3> QED BY <1>1, <1>2, <1>3, <3>1, NamesAre
  <2> QED BY <1>1, <1>2, <1>3, <2>1, <2>2, LocalIs
<1>7. Rk!ScriptRank(env) = r
  <2>1. 1 \in 1 .. 8 /\ ScriptNames[1] = "PMIX_RANK"
    BY NamesAre
  <2>2. \A j \in 1 .. (1 - 1) : ScriptNames[j] \notin DOMAIN env
    OBVIOUS
  <2> QED BY <1>1, <1>2, <1>3, <2>1, <2>2, ScriptIs
<1> QED BY <1>4, <1>5, <1>6, <1>7
        DEF Rk!RankFoundFor, Rk!SameNumberFor, Rk!getMPIinfo, Rk!openLog, Rk!LogName, env

\* A job of SLURM that tells nodes and tasks.
LEMMA RankNodes ==
  ASSUME NEW size \in Nat, NEW perNode \in Nat \ {0}, NEW r \in Nat,
         size % perNode = 0
  PROVE  /\ Rk!RankFoundFor("nodes", size, perNode, r)
         /\ Rk!SameNumberFor("nodes", size, perNode, r)
<1> DEFINE env == Rk!Launched("nodes", size, perNode, r)
           sizes == SizesOf(env)
           ones == Rk!FromOne(env)
<1>1. /\ DOMAIN env = {"SLURM_PROCID", "SLURM_LOCALID", "SLURM_JOB_NUM_NODES",
                     "SLURM_TASKS_PER_NODE"}
      /\ env["SLURM_PROCID"] = r /\ env["SLURM_LOCALID"] = (r % perNode)
      /\ env["SLURM_JOB_NUM_NODES"] = (size \div perNode)
      /\ env["SLURM_TASKS_PER_NODE"] = perNode
      /\ env = [x \in DOMAIN env |-> env[x]]
  BY DEF Rk!Launched
<1> HIDE DEF env
<1>2. DOMAIN ones = DOMAIN env /\ ones["SLURM_PROCID"] = r
  BY <1>1 DEF Rk!FromOne
<1>3. DOMAIN sizes = DOMAIN env /\ sizes["SLURM_JOB_NUM_NODES"] = size
  <2>1. (size \div perNode) * perNode = size
    BY AllNodes
  <2> DEFINE once == [env EXCEPT !["SLURM_JOB_NUM_NODES"] = @ * env["SLURM_TASKS_PER_NODE"]]
  <2>2. DOMAIN once = DOMAIN env /\ once["SLURM_JOB_NUM_NODES"] = size
    BY <1>1, <2>1
  <2>3. once = [x \in DOMAIN once |-> once[x]]
    BY <1>1
  <2>4. Rk!Times(env, "SLURM_JOB_NUM_NODES", "SLURM_TASKS_PER_NODE") = once
    BY <1>1 DEF Rk!Times
  <2> HIDE DEF once
  <2>5. Rk!Times(env, "PBS_NUM_NODES", "PBS_NUM_PPN") = env
    BY <1>1 DEF Rk!Times
  <2> QED BY <2>2, <2>4, <2>5 DEF SizesOf
<1> HIDE DEF sizes, ones
<1>4. Rk!test_for_MPI_comm_rank(env, 0) = r
  <2>1. 8 \in 1 .. 8 /\ RankNames[8] = "SLURM_PROCID"
    BY NamesAre
  <2>2. \A j \in 1 .. (8 - 1) : RankNames[j] \notin DOMAIN env
    <3> TAKE j \in 1 .. (8 - 1)
    <3>1. j \in {1, 2, 3, 4, 5, 6, 7}
      OBVIOUS
    <3> QED BY <1>1, <1>2, <1>3, <3>1, NamesAre
  <2> QED BY <1>1, <1>2, <1>3, <2>1, <2>2, RankIs DEF ones
<1>5. Rk!test_for_MPI_comm_size(env, 1) = size
  <2>1. 9 \in 1 .. 9 /\ SizeNames[9] = "SLURM_JOB_NUM_NODES"
    BY NamesAre
  <2>2. \A j \in 1 .. (9 - 1) : SizeNames[j] \notin DOMAIN sizes
    <3> TAKE j \in 1 .. (9 - 1)
    <3>1. j \in {1, 2, 3, 4, 5, 6, 7, 8}
      OBVIOUS
    <3> QED BY <1>1, <1>2, <1>3, <3>1, NamesAre
  <2> QED BY <1>1, <1>2, <1>3, <2>1, <2>2, SizeIs DEF sizes
<1>6. Rk!test_for_MPI_local_rank(env, r) = r % perNode
  <2>1. 4 \in 1 .. 4 /\ LocalNames[4] = "SLURM_LOCALID"
    BY NamesAre
  <2>2. \A j \in 1 .. (4 - 1) : LocalNames[j] \notin DOMAIN env
    <3> TAKE j \in 1 .. (4 - 1)
    <3>1. j \in {1, 2, 3}
      OBVIOUS
    <3> QED BY <1>1, <1>2, <1>3, <3>1, NamesAre
  <2> QED BY <1>1, <1>2, <1>3, <2>1, <2>2, LocalIs
<1>7. Rk!ScriptRank(env) = r
  <2>1. 2 \in 1 .. 8 /\ ScriptNames[2] = "SLURM_PROCID"
    BY NamesAre
  <2>2. \A j \in 1 .. (2 - 1) : ScriptNames[j] \notin DOMAIN env
    <3> TAKE j \in 1 .. (2 - 1)
    <3>1. j \in {1}
      OBVIOUS
    <3> QED BY <1>1, <1>2, <1>3, <3>1, NamesAre
  <2> QED BY <1>1, <1>2, <1>3, <2>1, <2>2, ScriptIs
<1> QED BY <1>4, <1>5, <1>6, <1>7
        DEF Rk!RankFoundFor, Rk!SameNumberFor, Rk!getMPIinfo, Rk!openLog, Rk!LogName, env

\* TORQUE, whose numbers start from one.
LEMMA RankTorque ==
  ASSUME NEW size \in Nat, NEW perNode \in Nat \ {0}, NEW r \in Nat,
         size % perNode = 0
  PROVE  /\ Rk!RankFoundFor("torque", size, perNode, r)
         /\ Rk!SameNumberFor("torque", size, perNode, r)
<1> DEFINE env == Rk!Launched("torque", size, perNode, r)
           sizes == SizesOf(env)
           ones == Rk!FromOne(env)
<1>1. /\ DOMAIN env = {"PBS_O_TASKNUM", "PBS_NUM_NODES", "PBS_NUM_PPN"}
      /\ env["PBS_O_TASKNUM"] = r + 1 /\ env["PBS_NUM_NODES"] = (size \div perNode)
      /\ env["PBS_NUM_PPN"] = perNode
      /\ env = [x \in DOMAIN env |-> env[x]]
  BY DEF Rk!Launched
<1> HIDE DEF env
<1>2. DOMAIN ones = DOMAIN env /\ ones["PBS_O_TASKNUM"] = r
  BY <1>1 DEF Rk!FromOne
<1>3. DOMAIN sizes = DOMAIN env /\ sizes["PBS_NUM_NODES"] = size
  <2>1. (size \div perNode) * perNode = size
    BY AllNodes
  <2> DEFINE once == [env EXCEPT !["PBS_NUM_NODES"] = @ * env["PBS_NUM_PPN"]]
  <2>2. DOMAIN once = DOMAIN env /\ once["PBS_NUM_NODES"] = size
    BY <1>1, <2>1
  <2>3. once = [x \in DOMAIN once |-> once[x]]
    BY <1>1
  <2>4. Rk!Times(env, "PBS_NUM_NODES", "PBS_NUM_PPN") = once
    BY <1>1 DEF Rk!Times
  <2> HIDE DEF once
  <2>5. "SLURM_JOB_NUM_NODES" \notin DOMAIN once
    BY <1>1, <2>2
  <2>6. Rk!Times(once, "SLURM_JOB_NUM_NODES", "SLURM_TASKS_PER_NODE") = once
    BY <2>3, <2>5 DEF Rk!Times
  <2> QED BY <2>2, <2>4, <2>6 DEF SizesOf
<1> HIDE DEF sizes, ones
<1>4. Rk!test_for_MPI_comm_rank(env, 0) = r
  <2>1. 7 \in 1 .. 8 /\ RankNames[7] = "PBS_O_TASKNUM"
    BY NamesAre
  <2>2. \A j \in 1 .. (7 - 1) : RankNames[j] \notin DOMAIN env
    <3> TAKE j \in 1 .. (7 - 1)
    <3>1. j \in {1, 2, 3, 4, 5, 6}
      OBVIOUS
    <3> QED BY <1>1, <1>2, <1>3, <3>1, NamesAre
  <2> QED BY <1>1, <1>2, <1>3, <2>1, <2>2, RankIs DEF ones
<1>5. Rk!test_for_MPI_comm_size(env, 1) = size
  <2>1. 6 \in 1 .. 9 /\ SizeNames[6] = "PBS_NUM_NODES"
    BY NamesAre
  <2>2. \A j \in 1 .. (6 - 1) : SizeNames[j] \notin DOMAIN sizes
    <3> TAKE j \in 1 .. (6 - 1)
    <3>1. j \in {1, 2, 3, 4, 5}
      OBVIOUS
    <3> QED BY <1>1, <1>2, <1>3, <3>1, NamesAre
  <2> QED BY <1>1, <1>2, <1>3, <2>1, <2>2, SizeIs DEF sizes
<1>6. Rk!getMPIinfo(env) = [rank |-> r, size |-> size]
  BY <1>4, <1>5 DEF Rk!getMPIinfo
<1>7. Rk!openLog(env) = Rk!LogName(size, r)
  BY <1>6 DEF Rk!openLog, Rk!LogName
<1> QED BY <1>6, <1>7, Zenon DEF Rk!RankFoundFor, Rk!SameNumberFor, env

\* mpirun of Open MPI in a job of SLURM.
LEMMA RankMpirun ==
  ASSUME NEW size \in Nat, NEW perNode \in Nat \ {0}, NEW r \in Nat
  PROVE  /\ Rk!RankFoundFor("mpirun", size, perNode, r)
         /\ Rk!SameNumberFor("mpirun", size, perNode, r)
<1> DEFINE env == Rk!Launched("mpirun", size, perNode, r)
           sizes == SizesOf(env)
           ones == Rk!FromOne(env)
<1>1. /\ DOMAIN env = {"OMPI_COMM_WORLD_RANK", "OMPI_COMM_WORLD_SIZE",
                     "OMPI_COMM_WORLD_LOCAL_RANK", "PMIX_RANK", "SLURM_PROCID",
                     "SLURM_LOCALID", "SLURM_NTASKS"}
      /\ env["OMPI_COMM_WORLD_RANK"] = r /\ env["OMPI_COMM_WORLD_SIZE"] = size
      /\ env["OMPI_COMM_WORLD_LOCAL_RANK"] = (r % perNode) /\ env["PMIX_RANK"] = r
      /\ env["SLURM_PROCID"] = 0 /\ env["SLURM_LOCALID"] = 0 /\ env["SLURM_NTASKS"] = 1
      /\ env = [x \in DOMAIN env |-> env[x]]
  BY DEF Rk!Launched
<1> HIDE DEF env
<1>2. DOMAIN ones = DOMAIN env /\ ones["OMPI_COMM_WORLD_RANK"] = r
  BY <1>1 DEF Rk!FromOne
<1>3. DOMAIN sizes = DOMAIN env /\ sizes["OMPI_COMM_WORLD_SIZE"] = size
  <2>1. DOMAIN env \cap {"PBS_NUM_NODES", "SLURM_JOB_NUM_NODES"} = {}
    BY <1>1
  <2> QED BY <1>1, <2>1, SizesKept
<1> HIDE DEF sizes, ones
<1>4. Rk!test_for_MPI_comm_rank(env, 0) = r
  <2>1. 5 \in 1 .. 8 /\ RankNames[5] = "OMPI_COMM_WORLD_RANK"
    BY NamesAre
  <2>2. \A j \in 1 .. (5 - 1) : RankNames[j] \notin DOMAIN env
    <3> TAKE j \in 1 .. (5 - 1)
    <3>1. j \in {1, 2, 3, 4}
      OBVIOUS
    <3> QED BY <1>1, <1>2, <1>3, <3>1, NamesAre
  <2> QED BY <1>1, <1>2, <1>3, <2>1, <2>2, RankIs DEF ones
<1>5. Rk!test_for_MPI_comm_size(env, 1) = size
  <2>1. 4 \in 1 .. 9 /\ SizeNames[4] = "OMPI_COMM_WORLD_SIZE"
    BY NamesAre
  <2>2. \A j \in 1 .. (4 - 1) : SizeNames[j] \notin DOMAIN sizes
    <3> TAKE j \in 1 .. (4 - 1)
    <3>1. j \in {1, 2, 3}
      OBVIOUS
    <3> QED BY <1>1, <1>2, <1>3, <3>1, NamesAre
  <2> QED BY <1>1, <1>2, <1>3, <2>1, <2>2, SizeIs DEF sizes
<1>6. Rk!test_for_MPI_local_rank(env, r) = r % perNode
  <2>1. 3 \in 1 .. 4 /\ LocalNames[3] = "OMPI_COMM_WORLD_LOCAL_RANK"
    BY NamesAre
  <2>2. \A j \in 1 .. (3 - 1) : LocalNames[j] \notin DOMAIN env
    <3> TAKE j \in 1 .. (3 - 1)
    <3>1. j \in {1, 2}
      OBVIOUS
    <3> QED BY <1>1, <1>2, <1>3, <3>1, NamesAre
  <2> QED BY <1>1, <1>2, <1>3, <2>1, <2>2, LocalIs
<1>7. Rk!ScriptRank(env) = r
  <2>1. 1 \in 1 .. 8 /\ ScriptNames[1] = "PMIX_RANK"
    BY NamesAre
  <2>2. \A j \in 1 .. (1 - 1) : ScriptNames[j] \notin DOMAIN env
    OBVIOUS
  <2> QED BY <1>1, <1>2, <1>3, <2>1, <2>2, ScriptIs
<1> QED BY <1>4, <1>5, <1>6, <1>7
        DEF Rk!RankFoundFor, Rk!SameNumberFor, Rk!getMPIinfo, Rk!openLog, Rk!LogName, env

\* Cray's PMI, which tells no rank on the node.
LEMMA RankCray ==
  ASSUME NEW size \in Nat, NEW perNode \in Nat \ {0}, NEW r \in Nat
  PROVE  /\ Rk!RankFoundFor("cray", size, perNode, r)
         /\ Rk!SameNumberFor("cray", size, perNode, r)
<1> DEFINE env == Rk!Launched("cray", size, perNode, r)
           sizes == SizesOf(env)
           ones == Rk!FromOne(env)
<1>1. /\ DOMAIN env = {"CRAY_PMI_RANK", "CRAY_PMI_SIZE"}
      /\ env["CRAY_PMI_RANK"] = r /\ env["CRAY_PMI_SIZE"] = size
      /\ env = [x \in DOMAIN env |-> env[x]]
  BY DEF Rk!Launched
<1> HIDE DEF env
<1>2. DOMAIN ones = DOMAIN env /\ ones["CRAY_PMI_RANK"] = r
  BY <1>1 DEF Rk!FromOne
<1>3. DOMAIN sizes = DOMAIN env /\ sizes["CRAY_PMI_SIZE"] = size
  <2>1. DOMAIN env \cap {"PBS_NUM_NODES", "SLURM_JOB_NUM_NODES"} = {}
    BY <1>1
  <2> QED BY <1>1, <2>1, SizesKept
<1> HIDE DEF sizes, ones
<1>4. Rk!test_for_MPI_comm_rank(env, 0) = r
  <2>1. 4 \in 1 .. 8 /\ RankNames[4] = "CRAY_PMI_RANK"
    BY NamesAre
  <2>2. \A j \in 1 .. (4 - 1) : RankNames[j] \notin DOMAIN env
    <3> TAKE j \in 1 .. (4 - 1)
    <3>1. j \in {1, 2, 3}
      OBVIOUS
    <3> QED BY <1>1, <3>1, NamesAre
  <2> QED BY <1>1, <1>2, <2>1, <2>2, RankIs DEF ones
<1>5. Rk!test_for_MPI_comm_size(env, 1) = size
  <2>1. 2 \in 1 .. 9 /\ SizeNames[2] = "CRAY_PMI_SIZE"
    BY NamesAre
  <2>2. \A j \in 1 .. (2 - 1) : SizeNames[j] \notin DOMAIN sizes
    <3> TAKE j \in 1 .. (2 - 1)
    <3>1. j \in {1}
      OBVIOUS
    <3> QED BY <1>1, <1>3, <3>1, NamesAre
  <2> QED BY <1>1, <1>3, <2>1, <2>2, SizeIs DEF sizes
<1>6. Rk!ScriptRank(env) = r
  <2>1. 6 \in 1 .. 8 /\ ScriptNames[6] = "CRAY_PMI_RANK"
    BY NamesAre
  <2>2. \A j \in 1 .. (6 - 1) : ScriptNames[j] \notin DOMAIN env
    <3> TAKE j \in 1 .. (6 - 1)
    <3>1. j \in {1, 2, 3, 4, 5}
      OBVIOUS
    <3> QED BY <1>1, <3>1, NamesAre
  <2> QED BY <1>1, <2>1, <2>2, ScriptIs
<1> QED BY <1>4, <1>5, <1>6
        DEF Rk!RankFoundFor, Rk!SameNumberFor, Rk!getMPIinfo, Rk!openLog, Rk!LogName, env

\* ALPS, which tells no size: the code takes it for a run of one.
LEMMA RankAlps ==
  ASSUME NEW size \in Nat, NEW perNode \in Nat \ {0}, NEW r \in Nat
  PROVE  /\ Rk!openLog(Rk!Launched("alps", size, perNode, r)) = Rk!LogName(1, r)
         /\ Rk!SameNumberFor("alps", size, perNode, r)
<1> DEFINE env == Rk!Launched("alps", size, perNode, r)
           sizes == SizesOf(env)
           ones == Rk!FromOne(env)
<1>1. /\ DOMAIN env = {"ALPS_APP_PE"} /\ env["ALPS_APP_PE"] = r
      /\ env = [x \in DOMAIN env |-> env[x]]
  BY DEF Rk!Launched
<1> HIDE DEF env
<1>2. DOMAIN ones = DOMAIN env /\ ones["ALPS_APP_PE"] = r
  BY <1>1 DEF Rk!FromOne
<1>3. sizes = env
  <2>1. DOMAIN env \cap {"PBS_NUM_NODES", "SLURM_JOB_NUM_NODES"} = {}
    BY <1>1
  <2> QED BY <1>1, <2>1, SizesKept
<1> HIDE DEF sizes, ones
<1>4. Rk!test_for_MPI_comm_rank(env, 0) = r
  <2>1. 2 \in 1 .. 8 /\ RankNames[2] = "ALPS_APP_PE" /\ RankNames[1] = "PMI_RANK"
    BY NamesAre
  <2>2. \A j \in 1 .. (2 - 1) : RankNames[j] \notin DOMAIN env
    BY <1>1, <2>1
  <2> QED BY <1>1, <1>2, <2>1, <2>2, RankIs DEF ones
<1>5. Rk!test_for_MPI_comm_size(env, 1) = 1
  <2>1. {j \in DOMAIN SizeNames : SizeNames[j] \in DOMAIN sizes} = {}
    <3> SUFFICES ASSUME NEW j \in DOMAIN SizeNames PROVE SizeNames[j] # "ALPS_APP_PE"
      BY <1>1, <1>3
    <3>1. j \in {1, 2, 3, 4, 5, 6, 7, 8, 9}
      <4>1. DOMAIN SizeNames = 1 .. 9
        BY NamesAre
      <4> QED BY ONLY <4>1, j \in DOMAIN SizeNames
    <3> QED BY <3>1, NamesAre
  <2>2. Rk!FirstSet(SizeNames, sizes, 1) = 1
    BY <2>1 DEF Rk!FirstSet
  <2> QED BY <2>2 DEF Rk!test_for_MPI_comm_size, SizeNames, SizesOf, sizes
<1>6. Rk!ScriptRank(env) = r
  <2>1. 7 \in 1 .. 8 /\ ScriptNames[7] = "ALPS_APP_PE"
    BY NamesAre
  <2>2. \A j \in 1 .. (7 - 1) : ScriptNames[j] \notin DOMAIN env
    <3> TAKE j \in 1 .. (7 - 1)
    <3>1. j \in {1, 2, 3, 4, 5, 6}
      OBVIOUS
    <3> QED BY <1>1, <3>1, NamesAre
  <2> QED BY <1>1, <2>1, <2>2, ScriptIs
<1> QED BY <1>4, <1>5, <1>6
        DEF Rk!SameNumberFor, Rk!getMPIinfo, Rk!openLog, Rk!LogName, env

\* PBS, whose number the code takes for the rank as it is.
LEMMA RankPbs ==
  ASSUME NEW size \in Nat, NEW perNode \in Nat \ {0}, NEW r \in Nat
  PROVE  /\ Rk!openLog(Rk!Launched("pbs", size, perNode, r)) = Rk!LogName(size, r + 1)
         /\ Rk!SameNumberFor("pbs", size, perNode, r)
<1> DEFINE env == Rk!Launched("pbs", size, perNode, r)
           sizes == SizesOf(env)
           ones == Rk!FromOne(env)
<1>1. /\ DOMAIN env = {"PBS_TASKNUM", "PBS_NP"} /\ env["PBS_TASKNUM"] = r + 1
      /\ env["PBS_NP"] = size /\ env = [x \in DOMAIN env |-> env[x]]
  BY DEF Rk!Launched
<1> HIDE DEF env
<1>2. DOMAIN ones = DOMAIN env /\ ones["PBS_TASKNUM"] = r + 1
  BY <1>1 DEF Rk!FromOne
<1>3. DOMAIN sizes = DOMAIN env /\ sizes["PBS_NP"] = size
  <2>1. DOMAIN env \cap {"PBS_NUM_NODES", "SLURM_JOB_NUM_NODES"} = {}
    BY <1>1
  <2> QED BY <1>1, <2>1, SizesKept
<1> HIDE DEF sizes, ones
<1>4. Rk!test_for_MPI_comm_rank(env, 0) = r + 1
  <2>1. 6 \in 1 .. 8 /\ RankNames[6] = "PBS_TASKNUM"
    BY NamesAre
  <2>2. \A j \in 1 .. (6 - 1) : RankNames[j] \notin DOMAIN env
    <3> TAKE j \in 1 .. (6 - 1)
    <3>1. j \in {1, 2, 3, 4, 5}
      OBVIOUS
    <3> QED BY <1>1, <3>1, NamesAre
  <2> QED BY <1>1, <1>2, <2>1, <2>2, RankIs DEF ones
<1>5. Rk!test_for_MPI_comm_size(env, 1) = size
  <2>1. 5 \in 1 .. 9 /\ SizeNames[5] = "PBS_NP"
    BY NamesAre
  <2>2. \A j \in 1 .. (5 - 1) : SizeNames[j] \notin DOMAIN sizes
    <3> TAKE j \in 1 .. (5 - 1)
    <3>1. j \in {1, 2, 3, 4}
      OBVIOUS
    <3> QED BY <1>1, <1>3, <3>1, NamesAre
  <2> QED BY <1>1, <1>3, <2>1, <2>2, SizeIs DEF sizes
<1>6. Rk!ScriptRank(env) = r + 1
  <2>1. 4 \in 1 .. 8 /\ ScriptNames[4] = "PBS_TASKNUM"
    BY NamesAre
  <2>2. \A j \in 1 .. (4 - 1) : ScriptNames[j] \notin DOMAIN env
    <3> TAKE j \in 1 .. (4 - 1)
    <3>1. j \in {1, 2, 3}
      OBVIOUS
    <3> QED BY <1>1, <3>1, NamesAre
  <2> QED BY <1>1, <2>1, <2>2, ScriptIs
<1> QED BY <1>4, <1>5, <1>6
        DEF Rk!SameNumberFor, Rk!getMPIinfo, Rk!openLog, Rk!LogName, env

\* Where rank and size are told, in a run of any size and with any number of processes
\* per node, each process finds both whatever else is set, and names its log after
\* them (utils.cpp 487-650). Where sizes are products, all nodes have as many processes.
THEOREM RanksAreFound ==
  ASSUME NEW by \in Rk!Telling, NEW size \in Nat, NEW perNode \in Nat \ {0},
         by \in {"nodes", "torque"} => size % perNode = 0
  PROVE  \A r \in 0 .. size - 1 : /\ Rk!RankFoundFor(by, size, perNode, r)
                                 /\ Rk!SameNumberFor(by, size, perNode, r)
<1> TAKE r \in 0 .. size - 1
<1>0. r \in Nat
  OBVIOUS
<1>1. CASE by = "pmi"
  BY <1>0, <1>1, RankPmi
<1>2. CASE by = "pals"
  BY <1>0, <1>2, RankPals
<1>3. CASE by = "slurm"
  BY <1>0, <1>3, RankSlurm
<1>4. CASE by = "nodes"
  BY <1>0, <1>4, RankNodes
<1>5. CASE by = "torque"
  BY <1>0, <1>5, RankTorque
<1>6. CASE by = "mpirun"
  BY <1>0, <1>6, RankMpirun
<1>7. CASE by = "cray"
  BY <1>0, <1>7, RankCray
<1> QED BY <1>1, <1>2, <1>3, <1>4, <1>5, <1>6, <1>7 DEF Rk!Telling

\* Together: every launcher has its logs apart and the debugger's log with them; ranks
\* and sizes that are told are found, and give names that sort.
THEOREM FileNamesStaySorted ==
  ASSUME NEW by \in Launchers, NEW size \in 1 .. IntMax, NEW perNode \in Nat \ {0},
         by \in {"nodes", "torque"} => size % perNode = 0
  PROVE  Rk!FileNamesSortedFor(by, size, perNode)
<1> DEFINE log(r) == Rk!openLog(Rk!Launched(by, size, perNode, r))
<1>0. size \in Nat /\ IntMax \in Nat /\ 1 \in 1 .. IntMax
      /\ \A r \in 0 .. size - 1 : r \in Nat /\ r \in 0 .. IntMax /\ r + 1 \in 0 .. IntMax
  BY IntMaxTyped
<1>1. CASE by \in Rk!Telling
  <2>1. \A r \in 0 .. size - 1 : /\ Rk!RankFoundFor(by, size, perNode, r)
                                 /\ Rk!SameNumberFor(by, size, perNode, r)
    BY <1>0, <1>1, RanksAreFound
  <2>2. \A r \in 0 .. size - 1 : log(r) = Rk!LogName(size, r)
    BY <2>1, Zenon DEF Rk!RankFoundFor
  <2>3. \A r, s \in 0 .. size - 1 : r # s => log(r) # log(s)
    BY <1>0, <2>2, LogsOfRanksDiffer
  <2>4. Rk!LogsDifferFor(by, size, perNode)
    BY <2>3 DEF Rk!LogsDifferFor
  <2> QED BY <2>1, <2>4, LogsSort, Zenon DEF Rk!FileNamesSortedFor
<1>2. CASE by = "alps"
  <2>1. \A r \in 0 .. size - 1 : /\ log(r) = Rk!LogName(1, r)
                                 /\ Rk!SameNumberFor(by, size, perNode, r)
    BY <1>0, <1>2, RankAlps
  <2>2. \A r, s \in 0 .. size - 1 : r # s => log(r) # log(s)
    BY <1>0, <2>1, LogsOfRanksDiffer
  <2>3. by \notin Rk!Telling
    BY <1>2 DEF Rk!Telling
  <2>4. Rk!LogsDifferFor(by, size, perNode)
    BY <2>2 DEF Rk!LogsDifferFor
  <2> QED BY <2>1, <2>3, <2>4, Zenon DEF Rk!FileNamesSortedFor
<1>3. CASE by = "pbs"
  <2>1. \A r \in 0 .. size - 1 : /\ log(r) = Rk!LogName(size, r + 1)
                                 /\ Rk!SameNumberFor(by, size, perNode, r)
    BY <1>0, <1>3, RankPbs
  <2>2. \A r, s \in 0 .. size - 1 : r # s => log(r) # log(s)
    <3> TAKE r, s \in 0 .. size - 1
    <3> HAVE r # s
    <3>1. r + 1 \in 0 .. IntMax /\ s + 1 \in 0 .. IntMax /\ r + 1 # s + 1
      BY <1>0
    <3>2. Rk!LogName(size, r + 1) # Rk!LogName(size, s + 1)
      BY <3>1, LogsOfRanksDiffer
    <3> QED BY <2>1, <3>2
  <2>3. by \notin Rk!Telling
    BY <1>3 DEF Rk!Telling
  <2>4. Rk!LogsDifferFor(by, size, perNode)
    BY <2>2 DEF Rk!LogsDifferFor
  <2> QED BY <2>1, <2>3, <2>4, Zenon DEF Rk!FileNamesSortedFor
<1> QED BY <1>1, <1>2, <1>3 DEF Launchers

-----------------------------------------------------------------------------
(* Listings: the CPUs of a node and its memory.                            *)

\* The instance counts as everyone does.
LEMMA PlacementCounts == ASSUME NEW S PROVE Pl!Cardinality(S) = Cardinality(S)
BY DEF Pl!Cardinality, Cardinality, Pl!IsFiniteSet, IsFiniteSet

\* A set's numbers in order are the increasing list of them.
LEMMA OrderedIs ==
  ASSUME NEW s \in Seq(Int), Increasing(s)
  PROVE  Pl!Ordered(Range(s)) = s
<1> DEFINE S == Range(s)
           n == Len(s)
<1>1. /\ n \in Nat /\ DOMAIN s = 1 .. n /\ Pl!Cardinality(S) = n
      /\ \A i \in 1 .. n : s[i] \in S /\ Pl!Cardinality({d \in S : d < s[i]}) = i - 1
  <2>1. n \in Nat /\ DOMAIN s = 1 .. n /\ \A i \in 1 .. n : s[i] \in S
    BY DEF Range
  <2> HIDE DEF S
  <2>2. Cardinality(S) = n /\ \A i \in 1 .. n : Cardinality({d \in S : d < s[i]}) = i - 1
    BY IncreasingCounts DEF S
  <2> QED BY <2>1, <2>2, PlacementCounts
<1>2. ASSUME NEW i \in 1 .. n
      PROVE  (CHOOSE c \in S : Pl!Cardinality({d \in S : d < c}) = i - 1) = s[i]
  <2>1. ASSUME NEW c \in S, Pl!Cardinality({d \in S : d < c}) = i - 1 PROVE c = s[i]
    <3>1. PICK j \in 1 .. n : c = s[j]
      BY <1>1 DEF Range
    <3>2. j - 1 = i - 1
      BY <1>1, <2>1, <3>1
    <3>3. j = i
      BY <1>1, <3>2
    <3> QED BY <3>1, <3>3
  <2> HIDE DEF S
  <2> QED BY <1>1, <2>1
<1>3. Pl!Ordered(S) = [i \in 1 .. n |-> CHOOSE c \in S : Pl!Cardinality({d \in S : d < c}) = i - 1]
  <2> HIDE DEF S, n
  <2> QED BY <1>1 DEF Pl!Ordered
<1>4. s = [i \in 1 .. n |-> s[i]]
  BY <1>1
<1> HIDE DEF S, n
<1>5. [i \in 1 .. n |-> CHOOSE c \in S : Pl!Cardinality({d \in S : d < c}) = i - 1]
      = [i \in 1 .. n |-> s[i]]
  BY <1>2, Zenon
<1> QED BY <1>3, <1>4, <1>5 DEF S

\* A finite set has such a list.
LEMMA OrderedSorts ==
  ASSUME NEW S \in SUBSET Nat, IsFiniteSet(S)
  PROVE  /\ Pl!Ordered(S) \in Seq(Nat) /\ Increasing(Pl!Ordered(S))
         /\ Range(Pl!Ordered(S)) = S
<1>1. PICK s \in Seq(Nat) : Increasing(s) /\ Range(s) = S
  BY OrderExists
<1>2. s \in Seq(Int)
  BY <1>1
<1> QED BY <1>1, <1>2, OrderedIs

\* The CPUs of a list, one after the other.
LEMMA InOrderRuns ==
  ASSUME NEW m \in Nat, NEW cpus
  PROVE  \E r \in [0 .. m -> Seq(Int)] :
           /\ r[0] = <<>>
           /\ \A i \in 1 .. m : r[i] = (IF i - 1 \in cpus THEN Append(r[i - 1], i - 1) ELSE r[i - 1])
           /\ r[m] = InOrder(cpus, m)
<1> DEFINE n == m
           base == <<>>
           seq == [i \in 1 .. m |-> i]
           step == [p \in (1 .. n) \X Seq(Int) |-> (IF p[1] - 1 \in cpus THEN Append(p[2], p[1] - 1) ELSE p[2])]
           Body(g) == [s \in SUBSET DOMAIN seq |->
                         IF s = {} THEN base ELSE (IF seq[Max(s)] - 1 \in cpus THEN Append(g[s \ {Max(s)}], seq[Max(s)] - 1) ELSE g[s \ {Max(s)}])]
           g == CHOOSE g : g = Body(g)
<1>1. n \in Nat /\ DOMAIN seq = 1 .. n
  OBVIOUS
<1>2. base \in Seq(Int)
  OBVIOUS
<1>3. step \in [(1 .. n) \X Seq(Int) -> Seq(Int)]
      /\ \A i \in 1 .. n, v \in Seq(Int) : step[<<i, v>>] = (IF i - 1 \in cpus THEN Append(v, i - 1) ELSE v)
  <2>1. ASSUME NEW i \in 1 .. n, NEW v \in Seq(Int)
        PROVE  (IF i - 1 \in cpus THEN Append(v, i - 1) ELSE v) \in Seq(Int)
    OBVIOUS
  <2> QED BY <2>1
<1>4. PICK h : Folding(h, n, Seq(Int), base, step)
  <2> HIDE DEF step, base
  <2> QED BY <1>1, <1>2, <1>3, FoldExists
<1>5. h = Body(h)
  <2>1. \A s \in SUBSET DOMAIN seq : h[s] = Body(h)[s]
    <3> TAKE s \in SUBSET DOMAIN seq
    <3>1. s = {} => h[s] = base
      BY <1>1, <1>4 DEF Folding, Behind
    <3>2. CASE s # {}
      <4>1. /\ Max(s) \in 1 .. n /\ s \ {Max(s)} \in SUBSET (1 .. n)
        BY <1>1, <3>2, GreatestExists
      <4>2. h[s] = step[<<Max(s), h[s \ {Max(s)}]>>] /\ h[s \ {Max(s)}] \in Seq(Int)
        <5> HIDE DEF step, base, seq
        <5> QED BY <1>1, <1>4, <3>2, <4>1 DEF Folding, Behind
      <4>3. h[s] = (IF Max(s) - 1 \in cpus THEN Append(h[s \ {Max(s)}], Max(s) - 1) ELSE h[s \ {Max(s)}])
        <5> HIDE DEF step, base
        <5> QED BY <1>3, <4>1, <4>2
      <4> HIDE DEF step, base
      <4> QED BY <3>2, <4>1, <4>3
    <3> HIDE DEF step, base
    <3> QED BY <3>1, <3>2
  <2>2. DOMAIN h = SUBSET DOMAIN seq
    <3> HIDE DEF step, base
    <3> QED BY <1>1, <1>4 DEF Folding
  <2>3. h = [s \in DOMAIN h |-> h[s]]
    <3> HIDE DEF step, base
    <3> QED BY <1>4 DEF Folding
  <2> HIDE DEF step, base
  <2> QED BY <2>1, <2>2, <2>3
<1>6. g = Body(g)
  BY <1>5
<1>7. InOrder(cpus, m) = g[1 .. n]
  BY <1>1 DEF InOrder, FoldLeft, MapThenFoldSet
<1>8. g[{}] = base
  <2> HIDE DEF base, g
  <2> QED BY <1>1, <1>6
<1>9. ASSUME NEW s \in SUBSET (1 .. n), s # {}, g[s \ {Max(s)}] \in Seq(Int)
      PROVE  g[s] = step[<<Max(s), g[s \ {Max(s)}]>>]
  <2>0. Max(s) \in 1 .. n
    BY <1>1, <1>9, GreatestExists
  <2>1. g[s] = (IF Max(s) - 1 \in cpus THEN Append(g[s \ {Max(s)}], Max(s) - 1) ELSE g[s \ {Max(s)}])
    <3> HIDE DEF base, g
    <3> QED BY <1>1, <1>6, <1>9, <2>0
  <2> HIDE DEF base, g, step, seq
  <2> QED BY <1>3, <1>9, <2>0, <2>1
<1> DEFINE r == [i \in 0 .. n |-> g[1 .. i]]
<1>10. Running(r, n, Seq(Int), base, step)
  <2> HIDE DEF g, base, step, seq
  <2>1. step \in [(1 .. n) \X Seq(Int) -> Seq(Int)]
    BY <1>3
  <2>2. \A s \in SUBSET (1 .. n) : s # {} /\ g[s \ {Max(s)}] \in Seq(Int)
                                     => g[s] = step[<<Max(s), g[s \ {Max(s)}]>>]
    BY <1>9
  <2>3. n \in Nat
    BY <1>1
  <2> HIDE DEF n
  <2>4. Running([i \in 0 .. n |-> g[1 .. i]], n, Seq(Int), base, step)
    BY <1>2, <1>8, <2>1, <2>2, <2>3, FoldRuns
  <2> QED BY <2>4
<1>11. r \in [0 .. n -> Seq(Int)] /\ r[0] = base /\ r[n] = g[1 .. n]
       /\ \A i \in 1 .. n : r[i] = step[<<i, r[i - 1]>>] /\ i - 1 \in 0 .. n
  <2>1. r[n] = g[1 .. n] /\ \A i \in 1 .. n : i - 1 \in 0 .. n
    BY <1>1
  <2> HIDE DEF r, g, base, step
  <2> QED BY <1>10, <2>1 DEF Running
<1>12. \A i \in 1 .. n : r[i] = (IF i - 1 \in cpus THEN Append(r[i - 1], i - 1) ELSE r[i - 1])
  <2> HIDE DEF r, step
  <2> QED BY <1>3, <1>11
<1> HIDE DEF r, g
<1> QED BY <1>7, <1>11, <1>12

\* The CPUs of a thread, one after the other.
LEMMA AffinityRuns ==
  ASSUME NEW m \in Nat, NEW mask
  PROVE  \E r \in [0 .. m -> Seq(Int)] :
           /\ r[0] = <<>>
           /\ \A i \in 1 .. m : r[i] = Pl!AddIfSet(r[i - 1], i - 1, mask)
           /\ r[m] = Pl!getAffinityList(mask, m)
<1> DEFINE n == m
           base == <<>>
           seq == [i \in 1 .. m |-> i]
           step == [p \in (1 .. n) \X Seq(Int) |-> Pl!AddIfSet(p[2], p[1] - 1, mask)]
           Body(g) == [s \in SUBSET DOMAIN seq |->
                         IF s = {} THEN base ELSE Pl!AddIfSet(g[s \ {Max(s)}], seq[Max(s)] - 1, mask)]
           g == CHOOSE g : g = Body(g)
<1>1. n \in Nat /\ DOMAIN seq = 1 .. n
  OBVIOUS
<1>2. base \in Seq(Int)
  OBVIOUS
<1>3. step \in [(1 .. n) \X Seq(Int) -> Seq(Int)]
      /\ \A i \in 1 .. n, v \in Seq(Int) : step[<<i, v>>] = Pl!AddIfSet(v, i - 1, mask)
  <2>1. ASSUME NEW i \in 1 .. n, NEW v \in Seq(Int)
        PROVE  Pl!AddIfSet(v, i - 1, mask) \in Seq(Int)
    BY DEF Pl!AddIfSet
  <2> QED BY <2>1
<1>4. PICK h : Folding(h, n, Seq(Int), base, step)
  <2> HIDE DEF step, base
  <2> QED BY <1>1, <1>2, <1>3, FoldExists
<1>5. h = Body(h)
  <2>1. \A s \in SUBSET DOMAIN seq : h[s] = Body(h)[s]
    <3> TAKE s \in SUBSET DOMAIN seq
    <3>1. s = {} => h[s] = base
      BY <1>1, <1>4 DEF Folding, Behind
    <3>2. CASE s # {}
      <4>1. /\ Max(s) \in 1 .. n /\ s \ {Max(s)} \in SUBSET (1 .. n)
        BY <1>1, <3>2, GreatestExists
      <4>2. h[s] = step[<<Max(s), h[s \ {Max(s)}]>>] /\ h[s \ {Max(s)}] \in Seq(Int)
        <5> HIDE DEF step, base, seq
        <5> QED BY <1>1, <1>4, <3>2, <4>1 DEF Folding, Behind
      <4>3. h[s] = Pl!AddIfSet(h[s \ {Max(s)}], Max(s) - 1, mask)
        <5> HIDE DEF step, base
        <5> QED BY <1>3, <4>1, <4>2
      <4> HIDE DEF step, base
      <4> QED BY <3>2, <4>1, <4>3
    <3> HIDE DEF step, base
    <3> QED BY <3>1, <3>2
  <2>2. DOMAIN h = SUBSET DOMAIN seq
    <3> HIDE DEF step, base
    <3> QED BY <1>1, <1>4 DEF Folding
  <2>3. h = [s \in DOMAIN h |-> h[s]]
    <3> HIDE DEF step, base
    <3> QED BY <1>4 DEF Folding
  <2> HIDE DEF step, base
  <2> QED BY <2>1, <2>2, <2>3
<1>6. g = Body(g)
  BY <1>5
<1>7. Pl!getAffinityList(mask, m) = g[1 .. n]
  BY <1>1 DEF Pl!getAffinityList, Pl!FoldLeft, Pl!MapThenFoldSet, Pl!Max, Max
<1>8. g[{}] = base
  <2> HIDE DEF base, g
  <2> QED BY <1>1, <1>6
<1>9. ASSUME NEW s \in SUBSET (1 .. n), s # {}, g[s \ {Max(s)}] \in Seq(Int)
      PROVE  g[s] = step[<<Max(s), g[s \ {Max(s)}]>>]
  <2>0. Max(s) \in 1 .. n
    BY <1>1, <1>9, GreatestExists
  <2>1. g[s] = Pl!AddIfSet(g[s \ {Max(s)}], Max(s) - 1, mask)
    <3> HIDE DEF base, g
    <3> QED BY <1>1, <1>6, <1>9, <2>0
  <2> HIDE DEF base, g, step, seq
  <2> QED BY <1>3, <1>9, <2>0, <2>1
<1> DEFINE r == [i \in 0 .. n |-> g[1 .. i]]
<1>10. Running(r, n, Seq(Int), base, step)
  <2> HIDE DEF g, base, step, seq
  <2>1. step \in [(1 .. n) \X Seq(Int) -> Seq(Int)]
    BY <1>3
  <2>2. \A s \in SUBSET (1 .. n) : s # {} /\ g[s \ {Max(s)}] \in Seq(Int)
                                     => g[s] = step[<<Max(s), g[s \ {Max(s)}]>>]
    BY <1>9
  <2>3. n \in Nat
    BY <1>1
  <2> HIDE DEF n
  <2>4. Running([i \in 0 .. n |-> g[1 .. i]], n, Seq(Int), base, step)
    BY <1>2, <1>8, <2>1, <2>2, <2>3, FoldRuns
  <2> QED BY <2>4
<1>11. r \in [0 .. n -> Seq(Int)] /\ r[0] = base /\ r[n] = g[1 .. n]
       /\ \A i \in 1 .. n : r[i] = step[<<i, r[i - 1]>>] /\ i - 1 \in 0 .. n
  <2>1. r[n] = g[1 .. n] /\ \A i \in 1 .. n : i - 1 \in 0 .. n
    BY <1>1
  <2> HIDE DEF r, g, base, step
  <2> QED BY <1>10, <2>1 DEF Running
<1>12. \A i \in 1 .. n : r[i] = Pl!AddIfSet(r[i - 1], i - 1, mask)
  <2> HIDE DEF r, step
  <2> QED BY <1>3, <1>11
<1> HIDE DEF r, g
<1> QED BY <1>7, <1>11, <1>12

\* The lines of the node's summary are the CPUs in order.
LEMMA InOrderLists ==
  ASSUME NEW m \in Nat, NEW cpus
  PROVE  /\ InOrder(cpus, m) \in Seq(Int) /\ Increasing(InOrder(cpus, m))
         /\ Range(InOrder(cpus, m)) = cpus \cap (0 .. (m - 1))
<1>1. PICK r \in [0 .. m -> Seq(Int)] :
        /\ r[0] = <<>>
        /\ \A i \in 1 .. m : r[i] = (IF i - 1 \in cpus THEN Append(r[i - 1], i - 1) ELSE r[i - 1])
        /\ r[m] = InOrder(cpus, m)
  BY InOrderRuns
<1>2. m \in 0 .. m
  OBVIOUS
<1>3. Increasing(r[m]) /\ Range(r[m]) = cpus \cap (0 .. (m - 1))
  <2>1. \A i \in 0 .. m : Increasing(r[i]) /\ Range(r[i]) = cpus \cap (0 .. (i - 1))
    <3>1. r[0] = <<>>
      BY <1>1
    <3>2. \A i \in 1 .. m : r[i] = (IF i - 1 \in cpus THEN Append(r[i - 1], i - 1) ELSE r[i - 1])
      BY <1>1
    <3>3. Taking(r, m, cpus)
      BY <3>1, <3>2 DEF Taking
    <3>4. Taken(r, m, cpus)
      BY <3>3, TakenInOrder
    <3> QED BY <3>4 DEF Taken
  <2> QED BY <1>2, <2>1
<1> QED BY <1>1, <1>2, <1>3

\* With details every CPU of the node has a line.
LEMMA SummaryIsWhole ==
  ASSUME NEW m \in Nat, NEW own
  PROVE  /\ Len(NodegetSummary(m, own, TRUE)) = m
         /\ ToSet(NodegetSummary(m, own, TRUE)) = 0 .. m - 1
<1> DEFINE all == 0 .. (m - 1)
           a == InOrder(own, m)
           b == InOrder(all \ own, m)
<1>1. /\ a \in Seq(Int) /\ Increasing(a) /\ Range(a) = own \cap all
      /\ b \in Seq(Int) /\ Increasing(b) /\ Range(b) = (all \ own) \cap all
  BY InOrderLists
<1>2. Len(a) = Cardinality(own \cap all) /\ Len(b) = Cardinality(all \ own)
  <2>1. (all \ own) \cap all = all \ own
    OBVIOUS
  <2> HIDE DEF a, b, all
  <2> QED BY <1>1, <2>1, IncreasingCounts
<1>3. Cardinality(own \cap all) + Cardinality(all \ own) = m
  <2>1. IsFiniteSet(all) /\ Cardinality(all) = m
    <3>1. m - 1 \in Int
      OBVIOUS
    <3>2. IsFiniteSet(all) /\ Cardinality(all) = IF 0 > m - 1 THEN 0 ELSE m - 1 - 0 + 1
      BY <3>1, FS_Interval
    <3> QED BY <3>2
  <2> HIDE DEF all
  <2>2. /\ IsFiniteSet(own \cap all) /\ IsFiniteSet(all \ own)
        /\ (own \cap all) \cup (all \ own) = all /\ (own \cap all) \cap (all \ own) = {}
    <3>1. own \cap all \in SUBSET all /\ all \ own \in SUBSET all
      OBVIOUS
    <3> QED BY <2>1, <3>1, FS_Subset
  <2>3. Cardinality(all) = Cardinality(own \cap all) + Cardinality(all \ own) - Cardinality({})
    BY <2>2, FS_Union
  <2>4. Cardinality(own \cap all) \in Nat /\ Cardinality(all \ own) \in Nat /\ Cardinality({}) = 0
    BY <2>2, FS_CardinalityType, FS_EmptySet
  <2> QED BY <2>1, <2>3, <2>4
<1>4. NodegetSummary(m, own, TRUE) = a \o b
  BY DEF NodegetSummary
<1>5. Len(a \o b) = m /\ DOMAIN (a \o b) = 1 .. m
  <2> HIDE DEF a, b, all
  <2>1. Len(a \o b) = Len(a) + Len(b) /\ a \o b \in Seq(Int)
    BY <1>1
  <2> QED BY <1>2, <1>3, <2>1
<1>6. ToSet(a \o b) = Range(a) \cup Range(b)
  <2> HIDE DEF a, b, all
  <2>0. /\ Len(a) \in Nat /\ Len(b) \in Nat /\ DOMAIN a = 1 .. Len(a) /\ DOMAIN b = 1 .. Len(b)
        /\ DOMAIN (a \o b) = 1 .. (Len(a) + Len(b))
    BY <1>1
  <2>1. \A i \in 1 .. Len(a) : (a \o b)[i] = a[i] /\ i \in 1 .. (Len(a) + Len(b))
    BY <1>1
  <2>2. \A i \in 1 .. Len(b) : (a \o b)[Len(a) + i] = b[i] /\ Len(a) + i \in 1 .. (Len(a) + Len(b))
    BY <1>1
  <2>3. \A i \in 1 .. (Len(a) + Len(b)) : i \in 1 .. Len(a) \/ \E j \in 1 .. Len(b) : i = Len(a) + j
    <3> TAKE i \in 1 .. (Len(a) + Len(b))
    <3>1. CASE i <= Len(a)
      BY <2>0, <3>1
    <3>2. CASE ~(i <= Len(a))
      <4>1. i - Len(a) \in 1 .. Len(b) /\ i = Len(a) + (i - Len(a))
        BY <2>0, <3>2
      <4> QED BY <4>1
    <3> QED BY <3>1, <3>2
  <2> DEFINE c == a \o b
             k == Len(a)
  <2>4. /\ DOMAIN c = 1 .. (k + Len(b)) /\ \A i \in 1 .. k : c[i] = a[i]
        /\ \A i \in 1 .. Len(b) : c[k + i] = b[i]
    BY <2>0, <2>1, <2>2
  <2> HIDE DEF c, k
  <2>5. ASSUME NEW x \in ToSet(c) PROVE x \in Range(a) \cup Range(b)
    <3>1. PICK i \in 1 .. (k + Len(b)) : x = c[i]
      BY <2>4 DEF ToSet
    <3>2. i \in 1 .. k \/ \E j \in 1 .. Len(b) : i = k + j
      BY <2>3 DEF k
    <3> QED BY <2>0, <2>4, <3>1, <3>2 DEF Range, k
  <2>6. ASSUME NEW x \in Range(a) \cup Range(b) PROVE x \in ToSet(c)
    BY <2>0, <2>1, <2>2, <2>4 DEF ToSet, Range, k
  <2> QED BY <2>5, <2>6 DEF c
<1>7. (own \cap all) \cup ((all \ own) \cap all) = all
  OBVIOUS
<1> HIDE DEF a, b
<1> QED BY <1>1, <1>4, <1>5, <1>6, <1>7

\* What /proc/meminfo says is taken from the first line of a name.
LEMMA MeminfoIsRead ==
  ASSUME Word \in Nat \ {0}, NEW free \in 0 .. (Word - 1)
  PROVE  parseNodeInfo(Meminfo(free)).MemFree = free
<1> DEFINE lines == Meminfo(free)
           mem == {i \in DOMAIN lines : lines[i].starts = "Mem"}
<1>1. mem = {1, 3} /\ lines[1].name = "MemFree" /\ lines[3].name = "MemFree"
      /\ lines[1].value = free
  BY DEF Meminfo
<1> HIDE DEF mem, lines
<1>2. {lines[i].name : i \in mem} = {"MemFree"}
  BY <1>1
<1>3. Min({i \in mem : lines[i].name = "MemFree"}) = 1
  <2>1. {i \in mem : lines[i].name = "MemFree"} = {1, 3}
    BY <1>1
  <2>2. Min({1, 3}) = 1
    BY DEF Min
  <2> QED BY <2>1, <2>2
<1>4. parseNodeInfo(lines) = [n \in {"MemFree"} |->
         AsUnsigned(lines[Min({i \in mem : lines[i].name = n})].value)]
  BY <1>2 DEF parseNodeInfo, mem
<1>5. parseNodeInfo(lines).MemFree = AsUnsigned(free)
  BY <1>1, <1>3, <1>4
<1>6. AsUnsigned(free) = free
  BY UnsignedSmall
<1> QED BY <1>5, <1>6 DEF lines

\* Two lists of one entry make one of two.
LEMMA TwoInARow == \A x, y : <<x>> \o <<y>> = <<x, y>>
<1> TAKE x, y
<1> DEFINE t == <<x>> \o <<y>>
<1>1. <<x>> \in Seq({x, y}) /\ <<y>> \in Seq({x, y}) /\ Len(<<x>>) = 1 /\ Len(<<y>>) = 1
  OBVIOUS
<1>2. t \in Seq({x, y}) /\ Len(t) = 2 /\ t[1] = x /\ t[2] = y
  BY <1>1, ConcatProperties
<1> HIDE DEF t
<1>3. t = <<x, y>>
  BY <1>2
<1> QED BY <1>3 DEF t

\* The heartbeat and the details leave nothing out (hardware.h 339-378, 527-585).
THEOREM ListingsAreWhole ==
  ASSUME Word \in Nat \ {0}, NEW values \in Seq(0 .. (Word - 1)), values # <<>>
  PROVE  ListingsWholeFor(values)
<1> DEFINE read == [i \in DOMAIN values |-> parseNodeInfo(Meminfo(values[i])).MemFree]
           node == [MemFree |-> read]
           device == [VRAM |-> values, other |-> <<>>]
<1>1. read = values
  <2>1. \A i \in DOMAIN values : values[i] \in 0 .. (Word - 1)
    OBVIOUS
  <2>2. \A i \in DOMAIN values : parseNodeInfo(Meminfo(values[i])).MemFree = values[i]
    BY <2>1, MeminfoIsRead
  <2>3. values = [i \in DOMAIN values |-> values[i]]
    OBVIOUS
  <2>4. read = [i \in DOMAIN values |-> values[i]]
    BY <2>2, Zenon
  <2> QED BY <2>3, <2>4
<1> HIDE DEF read
<1>2. reportMemory([MemFree |-> values], <<device>>) = <<[MemFree |-> Last(values)], [VRAM |-> Last(values)]>>
  <2>1. [n \in DOMAIN [MemFree |-> values] |-> Last([MemFree |-> values][n])] = [MemFree |-> Last(values)]
    OBVIOUS
  <2>2. [n \in DOMAIN device \cap {"VRAM", "TotalMem", "FreeMem"} |-> Last(device[n])] = [VRAM |-> Last(values)]
    OBVIOUS
  <2>3. [i \in DOMAIN <<device>> |-> [n \in DOMAIN <<device>>[i] \cap {"VRAM", "TotalMem", "FreeMem"} |->
                            Last(<<device>>[i][n])]] = <<[VRAM |-> Last(values)]>>
    BY <2>2
  <2>4. <<[MemFree |-> Last(values)]>> \o <<[VRAM |-> Last(values)]>>
         = <<[MemFree |-> Last(values)], [VRAM |-> Last(values)]>>
    BY TwoInARow
  <2> HIDE DEF device
  <2> QED BY <2>1, <2>3, <2>4 DEF reportMemory
<1>3. \A own : Len(NodegetSummary(4, own, TRUE)) = 4 /\ ToSet(NodegetSummary(4, own, TRUE)) = 0 .. 3
  <2>1. 4 \in Nat /\ 4 - 1 = 3
    OBVIOUS
  <2> QED BY <2>1, SummaryIsWhole
<1> QED BY <1>1, <1>2, <1>3 DEF ListingsWholeFor, read

-----------------------------------------------------------------------------
(* Placement: the lists of CPUs.                                           *)

\* A flat list is made of the lists, one behind the other.
LEMMA FlattenIs ==
  ASSUME NEW V, NEW lists \in Seq(Seq(V)), lists # <<>>
  PROVE  \E f : /\ \A i \in 1 .. Len(lists) :
                     f[i] = IF i = 1 THEN lists[i] ELSE f[i - 1] \o lists[i]
                /\ Pl!FlattenSeq(lists) = f[Len(lists)]
<1> DEFINE n == Len(lists)
           Body(f) == [i \in 1 .. n |-> IF i = 1 THEN lists[i] ELSE f[i - 1] \o lists[i]]
           f == CHOOSE f : f = Body(f)
<1>1. n \in Nat /\ n # 0
  OBVIOUS
<1>2. PICK h : Flattening(h, n, V, lists)
  BY FlatteningExists DEF Flattens
<1>3. h = Body(h)
  <2> HIDE DEF n
  <2> QED BY <1>2 DEF Flattening
<1>4. f = Body(f)
  BY <1>3
<1>5. Pl!FlattenSeq(lists) = f[n]
  BY <1>1 DEF Pl!FlattenSeq
<1>6. \A i \in 1 .. n : f[i] = IF i = 1 THEN lists[i] ELSE f[i - 1] \o lists[i]
  <2> HIDE DEF f, n
  <2> QED BY <1>4
<1> HIDE DEF f
<1> QED BY <1>5, <1>6

\* The last of some CPUs.
LEMMA LastCpu ==
  ASSUME NEW S \in SUBSET Nat, IsFiniteSet(S), S # {}
  PROVE  Pl!Max(S) \in S /\ \A c \in S : c <= Pl!Max(S)
<1>1. PICK n \in Nat : \A c \in S : c < n
  BY FiniteBounded
<1> DEFINE B == {n - c : c \in S}
<1>2. B \in SUBSET Nat /\ B # {}
  <2>1. \A c \in S : n - c \in Nat
    BY <1>1
  <2> QED BY <2>1
<1>3. PICK b \in B : \A d \in B : b <= d
  <2> HIDE DEF B
  <2> QED BY <1>2, SmallestNumber
<1>4. PICK m \in S : b = n - m
  OBVIOUS
<1>5. ASSUME NEW c \in S PROVE m >= c
  <2>1. n - c \in B
    OBVIOUS
  <2>2. b <= n - c
    BY <1>3, <2>1
  <2> QED BY <1>4, <2>2
<1>6. \A c \in S : c \in Nat
  OBVIOUS
<1> QED BY <1>5, <1>6 DEF Pl!Max

\* The span that a CPU is in goes to where a CPU is missing.
LEMMA SpanEnds ==
  ASSUME NEW S \in SUBSET Nat, IsFiniteSet(S), NEW c \in S
  PROVE  LET e == Pl!EndOf(c, S)
         IN  e \in S /\ c <= e /\ e + 1 \notin S /\ c .. e \subseteq S
<1> DEFINE D == {d \in S : d >= c /\ d + 1 \notin S}
           e == Pl!Min(D)
           m == Pl!Max(S)
<1>1. m \in S /\ \A x \in S : x <= m
  BY LastCpu
<1>2. m \in D
  <2>1. m + 1 \notin S /\ m >= c
    <3> HIDE DEF m
    <3> QED BY <1>1
  <2> HIDE DEF m
  <2> QED BY <1>1, <2>1
<1>3. e \in D /\ \A d \in D : e <= d
  <2>1. D \in SUBSET Nat /\ D # {}
    <3> HIDE DEF m
    <3> QED BY <1>2
  <2> HIDE DEF D
  <2>2. PICK x \in D : \A y \in D : x <= y
    BY <2>1, SmallestNumber
  <2> QED BY <2>2 DEF Pl!Min
<1>4. c .. e \subseteq S
  <2> HIDE DEF e
  <2> DEFINE Bad == {x \in c .. e : x \notin S}
  <2>1. SUFFICES ASSUME Bad # {} PROVE FALSE
    OBVIOUS
  <2>2. PICK x \in Bad : \A y \in Bad : x <= y
    <3>1. Bad \in SUBSET Nat
      BY <1>3
    <3> HIDE DEF Bad
    <3> QED BY <2>1, <3>1, SmallestNumber
  <2>3. x \in Int /\ c \in Int /\ e \in Int /\ c < x /\ x <= e /\ x - 1 \in c .. e /\ x \notin S
    BY <1>3, <2>2
  <2>4. x - 1 \notin Bad
    BY <2>2, <2>3
  <2>5. x - 1 \in S /\ x - 1 >= c /\ (x - 1) + 1 = x
    BY <2>3, <2>4
  <2>6. x - 1 \in D
    BY <2>3, <2>5
  <2>7. e <= x - 1
    BY <1>3, <2>6
  <2> QED BY <2>3, <2>7
<1>5. e \in S /\ c <= e /\ e + 1 \notin S
  <2> HIDE DEF e
  <2>1. c \in Nat /\ e \in Nat
    BY <1>3
  <2> QED BY <1>3, <2>1
<1> QED BY <1>4, <1>5 DEF Pl!EndOf

\* The span that a CPU is in begins where a CPU is missing.
Starts(S) == {c \in S : c - 1 \notin S}
\* Every CPU is in a span that begins where a CPU is missing.
LEMMA SpanBegins ==
  ASSUME NEW S \in SUBSET Nat, NEW x \in S
  PROVE  \E c \in Starts(S) : c <= x /\ c .. x \subseteq S
<1> DEFINE B == {c \in 0 .. x : c .. x \subseteq S}
<1>1. x \in B /\ B \in SUBSET Nat
  BY DEF Starts
<1>2. PICK c \in B : \A d \in B : c <= d
  <2> HIDE DEF B
  <2> QED BY <1>1, SmallestNumber
<1>3. c \in S /\ c <= x /\ c \in Nat
  OBVIOUS
<1>4. c - 1 \notin S
  <2> SUFFICES ASSUME c - 1 \in S PROVE FALSE
    OBVIOUS
  <2>1. c - 1 \in 0 .. x
    BY <1>3
  <2>2. (c - 1) .. x = {c - 1} \cup (c .. x)
    BY <1>3
  <2>3. c - 1 \in B
    BY <2>1, <2>2
  <2>4. c <= c - 1
    BY <1>2, <2>3
  <2> QED BY <1>3, <2>4
<1> QED BY <1>3, <1>4 DEF Starts

\* A span is read as the CPUs from its first to its last one.
LEMMA SpanIs ==
  ASSUME NEW a \in Nat, NEW e \in Nat, a <= e
  PROVE  LET token == IF e = a THEN <<a>> ELSE <<a, e>>
         IN  /\ Pl!Span(token) \in Seq(Nat) /\ Increasing(Pl!Span(token))
             /\ Range(Pl!Span(token)) = a .. e
<1>1. CASE e = a
  <2> DEFINE t == <<a>>
  <2>1. Len(t) = 1 /\ t \in Seq(Nat) /\ DOMAIN t = {1} /\ t[1] = a
    OBVIOUS
  <2>2. a .. e = {a}
    BY <1>1
  <2>3. Pl!Span(t) = t
    <3> HIDE DEF t
    <3> QED BY <2>1 DEF Pl!Span
  <2>4. Increasing(t) /\ Range(t) = {a}
    <3> HIDE DEF t
    <3> QED BY <2>1 DEF Increasing, Range
  <2> HIDE DEF t
  <2>5. Pl!Span(t) \in Seq(Nat) /\ Increasing(Pl!Span(t)) /\ Range(Pl!Span(t)) = a .. e
    BY <2>1, <2>2, <2>3, <2>4
  <2> QED BY <1>1, <2>5 DEF t
<1>2. CASE e # a
  <2> DEFINE t == <<a, e>>
             s == [i \in 1 .. (e - a + 1) |-> a + i - 1]
  <2>1. Len(t) = 2 /\ t[1] = a /\ t[2] = e
    OBVIOUS
  <2>2. Pl!Span(t) = s
    <3> HIDE DEF t
    <3> QED BY <2>1 DEF Pl!Span
  <2>3. e - a + 1 \in Nat /\ \A i \in 1 .. (e - a + 1) : a + i - 1 \in Nat
    OBVIOUS
  <2>4. s \in Seq(Nat) /\ DOMAIN s = 1 .. (e - a + 1)
        /\ \A i \in 1 .. (e - a + 1) : s[i] = a + i - 1
    BY <2>3
  <2> HIDE DEF s
  <2>5. Increasing(s)
    BY <2>4 DEF Increasing
  <2>6. Range(s) = a .. e
    <3>1. ASSUME NEW x \in a .. e PROVE x \in Range(s)
      <4>1. x - a + 1 \in 1 .. (e - a + 1) /\ a + (x - a + 1) - 1 = x
        OBVIOUS
      <4> QED BY <2>4, <4>1 DEF Range
    <3>2. ASSUME NEW x \in Range(s) PROVE x \in a .. e
      <4>1. PICK i \in 1 .. (e - a + 1) : x = a + i - 1
        BY <2>4 DEF Range
      <4> QED BY <4>1
    <3> QED BY <3>1, <3>2
  <2> HIDE DEF t
  <2>7. Pl!Span(t) \in Seq(Nat) /\ Increasing(Pl!Span(t)) /\ Range(Pl!Span(t)) = a .. e
    BY <2>2, <2>4, <2>5, <2>6
  <2> QED BY <1>2, <2>7 DEF t
<1> QED BY <1>1, <1>2

\* What the kernel writes of a set is read as the set, in order (utils.cpp 42-66).
LEMMA KernelListIsRead ==
  ASSUME NEW S \in SUBSET Nat, IsFiniteSet(S), S # {}
  PROVE  /\ Pl!parseDiscreteValues(Pl!KernelList(S)) = Pl!Ordered(S)
         /\ Range(Pl!Ordered(S)) = S
<1> DEFINE from == Pl!Ordered(Starts(S))
           n == Len(from)
           to(i) == Pl!EndOf(from[i], S)
           token(i) == IF to(i) = from[i] THEN <<from[i]>> ELSE <<from[i], to(i)>>
           lists == [i \in 1 .. n |-> Pl!Span(token(i))]
           UpTo(e) == {x \in S : x <= e}
<1>1. /\ from \in Seq(Nat) /\ Increasing(from) /\ Range(from) = Starts(S)
      /\ n \in Nat /\ DOMAIN from = 1 .. n
      /\ \A i \in 1 .. n : from[i] \in Starts(S)
  <2>1. Starts(S) \in SUBSET Nat /\ IsFiniteSet(Starts(S))
    <3>1. Starts(S) \in SUBSET S
      BY DEF Starts
    <3> QED BY <3>1, FS_Subset
  <2> HIDE DEF n
  <2>2. from \in Seq(Nat) /\ Increasing(from) /\ Range(from) = Starts(S)
    BY <2>1, OrderedSorts
  <2> HIDE DEF from
  <2>3. n \in Nat /\ DOMAIN from = 1 .. n
    BY <2>2 DEF n
  <2> QED BY <2>2, <2>3 DEF Range
<1> HIDE DEF from, n
<1>2. \A i \in 1 .. n : /\ from[i] \in S /\ from[i] \in Nat /\ from[i] - 1 \notin S
                       /\ to(i) \in S /\ to(i) \in Nat /\ from[i] <= to(i)
                       /\ to(i) + 1 \notin S /\ from[i] .. to(i) \subseteq S
  <2> TAKE i \in 1 .. n
  <2>1. from[i] \in S /\ from[i] - 1 \notin S
    BY <1>1 DEF Starts
  <2> QED BY <2>1, SpanEnds
<1>2a. \A i, k \in 1 .. n : i <= k => from[i] <= from[k]
  <2> SUFFICES ASSUME NEW i \in 1 .. n, NEW k \in 1 .. n, i < k PROVE from[i] < from[k]
    BY <1>2
  <2> QED BY <1>1 DEF Increasing
<1>3. Pl!KernelList(S) = [i \in 1 .. n |-> token(i)]
  BY <1>1 DEF Pl!KernelList, from, Starts
<1>4. \A i \in 1 .. n : /\ Pl!Span(token(i)) \in Seq(Nat) /\ Increasing(Pl!Span(token(i)))
                       /\ Range(Pl!Span(token(i))) = from[i] .. to(i)
  <2> TAKE i \in 1 .. n
  <2> HIDE DEF to
  <2> QED BY <1>2, SpanIs
<1> HIDE DEF token, to
<1>5. Pl!parseDiscreteValues(Pl!KernelList(S)) = Pl!FlattenSeq(lists)
  BY <1>3 DEF Pl!parseDiscreteValues
<1>6. ASSUME NEW x \in S, NEW i \in 1 .. n, to(i) < x
      PROVE  \E k \in 1 .. n : i < k /\ from[k] <= x
  <2>1. PICK c \in Starts(S) : c <= x /\ c .. x \subseteq S
    BY SpanBegins
  <2>2. PICK k \in 1 .. n : from[k] = c
    BY <1>1 DEF Range
  <2>3. i < k
    <3> SUFFICES ASSUME k <= i PROVE FALSE
      OBVIOUS
    <3>1. from[k] <= from[i]
      BY <1>2a
    <3>2. c \in Nat /\ x \in Nat /\ c <= to(i) /\ to(i) \in Nat
      BY <1>2, <2>2, <3>1
    <3>3. to(i) + 1 \in c .. x
      BY <1>6, <3>2
    <3> QED BY <1>2, <2>1, <3>3
  <2> QED BY <2>1, <2>2, <2>3
<1>7. ASSUME NEW i \in 1 .. n, NEW k \in 1 .. n, i < k PROVE to(i) < from[k]
  <2> SUFFICES ASSUME from[k] <= to(i) PROVE FALSE
    BY <1>2
  <2>1. from[i] < from[k]
    BY <1>1, <1>7 DEF Increasing
  <2>2. from[k] - 1 \in from[i] .. to(i)
    BY <1>2, <2>1
  <2> QED BY <1>2, <2>2
<1>8. n # 0
  <2>1. PICK x \in S : TRUE
    OBVIOUS
  <2>2. PICK c \in Starts(S) : TRUE
    BY <2>1, SpanBegins
  <2> QED BY <1>1, <2>2 DEF Range
<1>9. lists \in Seq(Seq(Nat)) /\ Len(lists) = n /\ lists # <<>>
      /\ \A i \in 1 .. n : lists[i] = Pl!Span(token(i))
  <2>1. lists \in Seq(Seq(Nat)) /\ Len(lists) = n /\ \A i \in 1 .. n : lists[i] = Pl!Span(token(i))
    BY <1>1, <1>4
  <2> QED BY <1>1, <1>8, <2>1
<1> HIDE DEF lists
<1>10. PICK f : /\ \A i \in 1 .. n : f[i] = IF i = 1 THEN lists[i] ELSE f[i - 1] \o lists[i]
                /\ Pl!FlattenSeq(lists) = f[n]
  BY <1>9, FlattenIs
<1> DEFINE Good(i) == f[i] \in Seq(Nat) /\ Increasing(f[i]) /\ Range(f[i]) = UpTo(to(i))
           B == {i \in 0 .. n : i = 0 \/ Good(i)}
<1>11. 0 \in B
  BY <1>1
<1>12. ASSUME NEW i \in 1 .. n, i - 1 \in B PROVE i \in B
  <2>1. /\ lists[i] \in Seq(Nat) /\ Increasing(lists[i]) /\ Range(lists[i]) = from[i] .. to(i)
        /\ i \in 0 .. n
    BY <1>4, <1>9
  <2>2. CASE i = 1
    <3>1. f[i] = lists[i]
      BY <1>10, <2>2
    <3>2. from[i] .. to(i) = UpTo(to(i))
      <4>1. ASSUME NEW x \in UpTo(to(i)) PROVE x \in from[i] .. to(i)
        <5>1. PICK c \in Starts(S) : c <= x /\ c .. x \subseteq S
          BY SpanBegins
        <5>2. PICK k \in 1 .. n : from[k] = c
          BY <1>1 DEF Range
        <5>3. from[i] <= from[k]
          BY <1>1, <1>2a, <2>2
        <5> QED BY <1>2, <5>1, <5>2, <5>3
      <4>2. ASSUME NEW x \in from[i] .. to(i) PROVE x \in UpTo(to(i))
        BY <1>2
      <4> QED BY <4>1, <4>2
    <3>3. Good(i)
      <4> HIDE DEF UpTo
      <4> QED BY <2>1, <3>1, <3>2
    <3> QED BY <2>1, <3>3
  <2>3. CASE i # 1
    <3>1. i - 1 \in 1 .. n /\ i - 1 < i
      BY <1>1, <2>3
    <3>2. Good(i - 1)
      BY <1>12, <3>1
    <3>3. f[i] = f[i - 1] \o lists[i]
      BY <1>10, <2>3
    <3>4. \A x \in Range(f[i - 1]), y \in Range(lists[i]) : x < y
      <4>1. to(i - 1) < from[i] /\ to(i - 1) \in Nat /\ from[i] \in Nat
        BY <1>2, <1>7, <3>1
      <4>2. \A x \in Range(f[i - 1]) : x \in Nat /\ x <= to(i - 1)
        BY <3>2
      <4>3. \A y \in Range(lists[i]) : y \in Nat /\ from[i] <= y
        BY <1>2, <2>1
      <4> QED BY <4>1, <4>2, <4>3
    <3>5. f[i] \in Seq(Nat) /\ Increasing(f[i]) /\ Range(f[i]) = Range(f[i - 1]) \cup Range(lists[i])
      <4>1. Nat \in SUBSET Int
        OBVIOUS
      <4>2. f[i - 1] \in Seq(Nat) /\ Increasing(f[i - 1])
        BY <3>2
      <4>3. lists[i] \in Seq(Nat) /\ Increasing(lists[i])
        BY <2>1
      <4> HIDE DEF Good, UpTo
      <4> QED BY <3>3, <3>4, <4>1, <4>2, <4>3, GreaterBehind
    <3>6. UpTo(to(i - 1)) \cup (from[i] .. to(i)) = UpTo(to(i))
      <4>1. ASSUME NEW x \in UpTo(to(i)), x \notin UpTo(to(i - 1)) PROVE x \in from[i] .. to(i)
        <5>1. x \in S /\ x \in Nat /\ x <= to(i) /\ to(i - 1) < x
          BY <1>2, <3>1, <4>1
        <5>2. PICK k \in 1 .. n : i - 1 < k /\ from[k] <= x
          BY <1>6, <3>1, <5>1
        <5>3. from[i] <= from[k]
          <6>1. i <= k
            BY <1>1, <5>2
          <6> QED BY <1>2a, <6>1
        <5> QED BY <1>2, <5>1, <5>2, <5>3
      <4>2. \A x \in UpTo(to(i - 1)) : x \in UpTo(to(i))
        BY <1>2, <1>7, <3>1
      <4>3. \A x \in from[i] .. to(i) : x \in UpTo(to(i))
        BY <1>2
      <4> QED BY <4>1, <4>2, <4>3
    <3>7. Good(i)
      <4> HIDE DEF UpTo
      <4> QED BY <2>1, <3>2, <3>5, <3>6
    <3> QED BY <2>1, <3>7
  <2> QED BY <2>2, <2>3
<1>13. Good(n)
  <2> HIDE DEF B
  <2>1. \A i \in 0 .. n : i \in B
    BY <1>1, <1>11, <1>12, StepByStep
  <2>2. n \in B
    BY <1>1, <2>1
  <2> QED BY <1>8, <2>2 DEF B
<1>14. UpTo(to(n)) = S
  <2>1. ASSUME NEW x \in S PROVE x <= to(n)
    <3> SUFFICES ASSUME to(n) < x PROVE FALSE
      BY <1>1, <1>2, <1>8
    <3>1. n \in 1 .. n
      BY <1>1, <1>8
    <3>2. PICK k \in 1 .. n : n < k
      BY <1>6, <3>1
    <3> QED BY <1>1, <3>2
  <2> QED BY <2>1
<1>15. f[n] \in Seq(Int) /\ Increasing(f[n]) /\ Range(f[n]) = S
  BY <1>13, <1>14
<1>16. Pl!Ordered(S) = f[n]
  BY <1>15, OrderedIs
<1> QED BY <1>5, <1>10, <1>15, <1>16

\* A process' status gives the CPUs it may use (utils.cpp 391-417).
LEMMA AllowedIs ==
  ASSUME NEW S \in SUBSET Nat, IsFiniteSet(S), S # {}
  PROVE  Pl!allowed(Pl!Status(S)) = S
<1> DEFINE file == Pl!Status(S)
           hits == {i \in DOMAIN file : file[i].key = "Cpus_allowed_list"}
<1>1. hits = {2} /\ file[2].value = Pl!KernelList(S)
  <2> HIDE DEF Pl!KernelList
  <2> QED BY DEF Pl!Status, Pl!Line
<1>2. Pl!Max({2}) = 2
  BY DEF Pl!Max
<1> HIDE DEF file
<1>3. Pl!getCpusAllowed(file) = Pl!KernelList(S)
  BY <1>1, <1>2 DEF Pl!getCpusAllowed
<1>4. Pl!allowed(file) = Pl!ToSet(Pl!Ordered(S))
  BY <1>3, KernelListIsRead DEF Pl!allowed
<1>5. Pl!ToSet(Pl!Ordered(S)) = S
  BY KernelListIsRead DEF Pl!ToSet, Range
<1> QED BY <1>4, <1>5 DEF file

\* A thread's CPUs are listed in order (utils.cpp 69-84).
LEMMA AffinityLists ==
  ASSUME NEW m \in Nat, NEW mask
  PROVE  /\ Pl!getAffinityList(mask, m) \in Seq(Int)
         /\ Increasing(Pl!getAffinityList(mask, m))
         /\ Range(Pl!getAffinityList(mask, m)) = mask \cap (0 .. (m - 1))
<1>1. PICK r \in [0 .. m -> Seq(Int)] :
        /\ r[0] = <<>>
        /\ \A i \in 1 .. m : r[i] = Pl!AddIfSet(r[i - 1], i - 1, mask)
        /\ r[m] = Pl!getAffinityList(mask, m)
  BY AffinityRuns
<1>2. m \in 0 .. m
  OBVIOUS
<1>3. Increasing(r[m]) /\ Range(r[m]) = mask \cap (0 .. (m - 1))
  <2>1. r[0] = <<>>
    BY <1>1
  <2>2. \A i \in 1 .. m : r[i] = (IF i - 1 \in mask THEN Append(r[i - 1], i - 1) ELSE r[i - 1])
    BY <1>1 DEF Pl!AddIfSet
  <2>3. \A i \in 0 .. m : Increasing(r[i]) /\ Range(r[i]) = mask \cap (0 .. (i - 1))
    <3>1. Taking(r, m, mask)
      BY <2>1, <2>2 DEF Taking
    <3>4. Taken(r, m, mask)
      BY <3>1, TakenInOrder
    <3> QED BY <3>4 DEF Taken
  <2> QED BY <1>2, <2>3
<1> QED BY <1>1, <1>2, <1>3

\* These are the CPUs themselves.
LEMMA AffinityIs ==
  ASSUME NEW m \in Nat, NEW mask, \A c \in mask : c \in 0 .. (m - 1)
  PROVE  Pl!getAffinityList(mask, m) = Pl!Ordered(mask)
<1>1. mask \cap (0 .. (m - 1)) = mask
  OBVIOUS
<1> DEFINE s == Pl!getAffinityList(mask, m)
<1>2. s \in Seq(Int) /\ Increasing(s) /\ Range(s) = mask
  BY <1>1, AffinityLists
<1> HIDE DEF s
<1>3. Pl!Ordered(Range(s)) = s
  BY <1>2, OrderedIs
<1> QED BY <1>2, <1>3 DEF s

\* The worker stays inside of the CPUs that the kernel gives its process, whichever
\* these are and whatever ZS_ASYNC_CORE says, and the processes found are those that
\* share one (utils.cpp 42-112, software.h 303-306, zerosum.cpp 86).
THEOREM WorkerStaysPlaced ==
  ASSUME NEW S \in SUBSET Nat, IsFiniteSet(S), S # {}, NEW env \in Seq(Int), NEW entries,
         \A e \in entries : e.pid \in Nat
  PROVE  Pl!WorkerPlacedFor(S, env, entries)
<1> DEFINE mask == Pl!WorkerMask(env, Pl!Status(S), S)
           found == Pl!getOtherProcesses(entries, 1, Pl!allowed(Pl!Status(S)))
           wanted == IF env = Pl!NotSet \/ Pl!Last(env) < 0 THEN {Pl!Max(S)}
                     ELSE IF Pl!Last(env) \in S THEN {Pl!Last(env)} ELSE S
<1>1. Pl!allowed(Pl!Status(S)) = S
  BY AllowedIs
<1>2. Pl!Max(S) \in S /\ \A c \in S : c <= Pl!Max(S)
  BY LastCpu
<1>3. env # Pl!NotSet => Pl!Last(env) \in Int
  BY DEF Pl!NotSet, Pl!Last
<1>4. mask = wanted
  <2>1. CASE env = Pl!NotSet
    BY <1>1, <1>2, <2>1
       DEF Pl!WorkerMask, Pl!parseInt, Pl!getMaxHWT, Pl!setThreadAffinity
  <2>2. CASE env # Pl!NotSet /\ Pl!Last(env) < 0
    <3>1. ~(Pl!Last(env) >= 0)
      BY <1>3, <2>2
    <3> QED BY <1>1, <1>2, <2>2, <3>1
            DEF Pl!WorkerMask, Pl!parseInt, Pl!getMaxHWT, Pl!setThreadAffinity
  <2>3. CASE env # Pl!NotSet /\ ~(Pl!Last(env) < 0)
    <3>1. Pl!Last(env) >= 0
      BY <1>3, <2>3
    <3> QED BY <1>1, <2>3, <3>1 DEF Pl!WorkerMask, Pl!parseInt, Pl!setThreadAffinity
  <2> QED BY <2>1, <2>2, <2>3
<1>5. mask \in SUBSET S
  BY <1>2, <1>4
<1>6. Pl!getAffinityList(mask, Pl!Max(S) + 1) = Pl!Ordered(mask)
  <2> HIDE DEF mask
  <2>1. Pl!Max(S) + 1 \in Nat /\ Pl!Max(S) \in Nat /\ (Pl!Max(S) + 1) - 1 = Pl!Max(S)
    <3>1. Pl!Max(S) \in Nat
      BY <1>2
    <3> QED BY <3>1
  <2>2. \A c \in mask : c \in 0 .. ((Pl!Max(S) + 1) - 1)
    BY <1>2, <1>5, <2>1
  <2> QED BY <2>1, <2>2, AffinityIs
<1>7. found = {e \in entries : e.pid \notin {0, 1} /\ Pl!allowed(e.status) \cap S # {}}
  <2>1. \A e \in entries :
           (/\ e.pid > 0 /\ e.pid # 1 /\ \E c \in Pl!allowed(e.status) : c \in S)
           <=> (e.pid \notin {0, 1} /\ Pl!allowed(e.status) \cap S # {})
    <3> TAKE e \in entries
    <3>1. e.pid \in Nat
      OBVIOUS
    <3> QED BY <3>1
  <2> QED BY <1>1, <2>1 DEF Pl!getOtherProcesses
<1> HIDE DEF mask, found
<1> QED BY <1>4, <1>6, <1>7, KernelListIsRead DEF Pl!WorkerPlacedFor, mask, found

-----------------------------------------------------------------------------
(* Devices: the shares of the engines.                                     *)

\* The map of what was first said of an engine, and the row of a device.
Labels == STRING \X Int
Maps == UNION {[L -> Engine] : L \in SUBSET Labels}
Shown == UNION {[L -> Int \X Int] : L \in SUBSET Labels}
DeviceRead == [map : Maps, row : Shown]
PollRead   == [map : Maps, rows : Seq(Shown)]

\* At first there is nothing.
LEMMA EmptyRow == <<>> \in Maps /\ <<>> \in Shown
<1>1. \A V : <<>> \in [{} -> V]
  OBVIOUS
<1>2. {} \in SUBSET Labels
  OBVIOUS
<1> QED BY <1>1, <1>2 DEF Maps, Shown

\* A label is inserted with a value that is kept if it is there.
LEMMA InsertTyped ==
  ASSUME NEW V, NEW L \in SUBSET Labels, NEW f \in [L -> V], NEW x \in Labels, NEW v \in V
  PROVE  Dev!Insert(f, x, v) \in UNION {[K -> V] : K \in SUBSET Labels}
<1>1. Dev!Insert(f, x, v) \in [L \cup {x} -> V]
  BY DEF Dev!Insert
<1>2. L \cup {x} \in SUBSET Labels
  OBVIOUS
<1> HIDE DEF Labels
<1> QED BY <1>1, <1>2

\* What an engine shows are two numbers.
LEMMA ActivityTyped ==
  ASSUME Word \in Nat \ {0}, NEW e \in Engine, NEW m \in Maps
  PROVE  Dev!Activity(e, m) \in Int \X Int /\ Dev!Label(e) \in Labels
<1>1. e.type \in STRING /\ e.part \in Int /\ e.active \in Nat /\ e.stamp \in Nat
  BY DEF Engine
<1>2. Dev!Label(e) \in Labels
  BY <1>1 DEF Dev!Label, Labels
<1>3. CASE Dev!Label(e) \notin DOMAIN m
  <2>1. Dev!Activity(e, m) = <<0, 1>>
    BY <1>3, Zenon DEF Dev!Activity
  <2> QED BY <1>2, <2>1
<1>4. CASE Dev!Label(e) \in DOMAIN m
  <2> DEFINE last == m[Dev!Label(e)]
  <2>1. last \in Engine
    BY <1>4 DEF Maps
  <2> HIDE DEF last
  <2>2. last.active \in Nat /\ last.stamp \in Nat
    BY <2>1 DEF Engine
  <2>3. (e.stamp - last.stamp) % Word \in Int /\ (e.active - last.active) % Word \in Int
    BY <1>1, <2>2, Remainder
  <2>4. Dev!Activity(e, m) = IF (e.stamp - last.stamp) % Word = 0 THEN <<0, 1>>
                             ELSE <<(e.active - last.active) % Word, (e.stamp - last.stamp) % Word>>
    BY <1>4, Zenon DEF Dev!Activity, last
  <2> QED BY <1>2, <2>3, <2>4
<1> QED BY <1>2, <1>3, <1>4

\* Reading an engine leaves a map and a row.
LEMMA EngineTyped ==
  ASSUME Word \in Nat \ {0}, NEW v \in DeviceRead, NEW e \in Engine
  PROVE  Dev!ReadEngine(v, e) \in DeviceRead
<1>1. v.map \in Maps /\ v.row \in Shown
  BY DEF DeviceRead
<1>2. Dev!Activity(e, v.map) \in Int \X Int /\ Dev!Label(e) \in Labels
  BY <1>1, ActivityTyped
<1>3. Dev!Insert(v.map, Dev!Label(e), e) \in Maps
  <2>1. PICK L \in SUBSET Labels : v.map \in [L -> Engine]
    BY <1>1 DEF Maps
  <2> HIDE DEF Engine, Labels
  <2> QED BY <1>2, <2>1, InsertTyped DEF Maps
<1>4. Dev!Insert(v.row, Dev!Label(e), Dev!Activity(e, v.map)) \in Shown
  <2>1. PICK L \in SUBSET Labels : v.row \in [L -> Int \X Int]
    BY <1>1 DEF Shown
  <2> DEFINE a == Dev!Activity(e, v.map)
             W == Int \X Int
  <2>2. a \in W /\ v.row \in [L -> W] /\ Shown = UNION {[K -> W] : K \in SUBSET Labels}
    BY <1>2, <2>1 DEF Shown
  <2> HIDE DEF a, W, Labels
  <2>3. Dev!Insert(v.row, Dev!Label(e), a) \in UNION {[K -> W] : K \in SUBSET Labels}
    BY <1>2, <2>2, InsertTyped
  <2> QED BY <2>2, <2>3 DEF a
<1> QED BY <1>1, <1>3, <1>4 DEF Dev!ReadEngine, DeviceRead

\* The engines of a device are read one after the other.
LEMMA EngineRuns ==
  ASSUME Word \in Nat \ {0}, NEW E \in Seq(Engine), NEW m0 \in Maps
  PROVE  \E r \in [0 .. Len(E) -> DeviceRead] :
           /\ r[0] = [map |-> m0, row |-> <<>>]
           /\ \A i \in 1 .. Len(E) : r[i] = Dev!ReadEngine(r[i - 1], E[i])
           /\ r[Len(E)] = Dev!FoldLeft(Dev!ReadEngine, [map |-> m0, row |-> <<>>], E)
<1> DEFINE n == Len(E)
           base == [map |-> m0, row |-> <<>>]
           seq == E
           step == [p \in (1 .. n) \X DeviceRead |-> Dev!ReadEngine(p[2], E[p[1]])]
           Body(g) == [s \in SUBSET DOMAIN seq |->
                         IF s = {} THEN base ELSE Dev!ReadEngine(g[s \ {Max(s)}], E[Max(s)])]
           g == CHOOSE g : g = Body(g)
<1>1. n \in Nat /\ DOMAIN seq = 1 .. n
  OBVIOUS
<1>2. base \in DeviceRead
  BY EmptyRow DEF DeviceRead
<1>3. step \in [(1 .. n) \X DeviceRead -> DeviceRead]
      /\ \A i \in 1 .. n, v \in DeviceRead : step[<<i, v>>] = Dev!ReadEngine(v, E[i])
  <2>1. ASSUME NEW i \in 1 .. n, NEW v \in DeviceRead
        PROVE  Dev!ReadEngine(v, E[i]) \in DeviceRead
    <5>1. E[i] \in Engine
      OBVIOUS
    <5> QED BY <5>1, EngineTyped
  <2> QED BY <2>1
<1>4. PICK h : Folding(h, n, DeviceRead, base, step)
  <2> HIDE DEF step, base
  <2> QED BY <1>1, <1>2, <1>3, FoldExists
<1>5. h = Body(h)
  <2>1. \A s \in SUBSET DOMAIN seq : h[s] = Body(h)[s]
    <3> TAKE s \in SUBSET DOMAIN seq
    <3>1. s = {} => h[s] = base
      BY <1>1, <1>4 DEF Folding, Behind
    <3>2. CASE s # {}
      <4>1. /\ Max(s) \in 1 .. n /\ s \ {Max(s)} \in SUBSET (1 .. n)
        BY <1>1, <3>2, GreatestExists
      <4>2. h[s] = step[<<Max(s), h[s \ {Max(s)}]>>] /\ h[s \ {Max(s)}] \in DeviceRead
        <5> HIDE DEF step, base, seq
        <5> QED BY <1>1, <1>4, <3>2, <4>1 DEF Folding, Behind
      <4>3. h[s] = Dev!ReadEngine(h[s \ {Max(s)}], E[Max(s)])
        <5> HIDE DEF step, base
        <5> QED BY <1>3, <4>1, <4>2
      <4> HIDE DEF step, base
      <4> QED BY <3>2, <4>1, <4>3
    <3> HIDE DEF step, base
    <3> QED BY <3>1, <3>2
  <2>2. DOMAIN h = SUBSET DOMAIN seq
    <3> HIDE DEF step, base
    <3> QED BY <1>1, <1>4 DEF Folding
  <2>3. h = [s \in DOMAIN h |-> h[s]]
    <3> HIDE DEF step, base
    <3> QED BY <1>4 DEF Folding
  <2> HIDE DEF step, base
  <2> QED BY <2>1, <2>2, <2>3
<1>6. g = Body(g)
  BY <1>5
<1>7. Dev!FoldLeft(Dev!ReadEngine, [map |-> m0, row |-> <<>>], E) = g[1 .. n]
  BY <1>1 DEF Dev!FoldLeft, Dev!MapThenFoldSet, Dev!Max, Max
<1>8. g[{}] = base
  <2> HIDE DEF base, g
  <2> QED BY <1>1, <1>6
<1>9. ASSUME NEW s \in SUBSET (1 .. n), s # {}, g[s \ {Max(s)}] \in DeviceRead
      PROVE  g[s] = step[<<Max(s), g[s \ {Max(s)}]>>]
  <2>0. Max(s) \in 1 .. n
    BY <1>1, <1>9, GreatestExists
  <2>1. g[s] = Dev!ReadEngine(g[s \ {Max(s)}], E[Max(s)])
    <3> HIDE DEF base, g
    <3> QED BY <1>1, <1>6, <1>9, <2>0
  <2> HIDE DEF base, g, step, seq
  <2> QED BY <1>3, <1>9, <2>0, <2>1
<1> DEFINE r == [i \in 0 .. n |-> g[1 .. i]]
<1>10. Running(r, n, DeviceRead, base, step)
  <2> HIDE DEF g, base, step, seq
  <2>1. step \in [(1 .. n) \X DeviceRead -> DeviceRead]
    BY <1>3
  <2>2. \A s \in SUBSET (1 .. n) : s # {} /\ g[s \ {Max(s)}] \in DeviceRead
                                     => g[s] = step[<<Max(s), g[s \ {Max(s)}]>>]
    BY <1>9
  <2>3. n \in Nat
    BY <1>1
  <2> HIDE DEF n
  <2>4. Running([i \in 0 .. n |-> g[1 .. i]], n, DeviceRead, base, step)
    BY <1>2, <1>8, <2>1, <2>2, <2>3, FoldRuns
  <2> QED BY <2>4
<1>11. r \in [0 .. n -> DeviceRead] /\ r[0] = base /\ r[n] = g[1 .. n]
       /\ \A i \in 1 .. n : r[i] = step[<<i, r[i - 1]>>] /\ i - 1 \in 0 .. n
  <2>1. r[n] = g[1 .. n] /\ \A i \in 1 .. n : i - 1 \in 0 .. n
    BY <1>1
  <2> HIDE DEF r, g, base, step
  <2> QED BY <1>10, <2>1 DEF Running
<1>12. \A i \in 1 .. n : r[i] = Dev!ReadEngine(r[i - 1], E[i])
  <2> HIDE DEF r, step
  <2> QED BY <1>3, <1>11
<1> HIDE DEF r, g
<1> QED BY <1>7, <1>11, <1>12

\* So does reading a device.
LEMMA DeviceTyped ==
  ASSUME Word \in Nat \ {0}, NEW v \in PollRead, NEW E \in Seq(Engine)
  PROVE  Dev!ReadDevice(v, E) \in PollRead
<1>1. v.map \in Maps /\ v.rows \in Seq(Shown)
  BY DEF PollRead
<1> DEFINE done == Dev!FoldLeft(Dev!ReadEngine, [map |-> v.map, row |-> <<>>], E)
<1>2. done \in DeviceRead
  <2>1. PICK r \in [0 .. Len(E) -> DeviceRead] : r[Len(E)] = done
    BY <1>1, EngineRuns
  <2>2. Len(E) \in 0 .. Len(E)
    OBVIOUS
  <2> QED BY <2>1, <2>2
<1> HIDE DEF done
<1>3. done.map \in Maps /\ Append(v.rows, done.row) \in Seq(Shown)
  BY <1>1, <1>2 DEF DeviceRead
<1> QED BY <1>3 DEF Dev!ReadDevice, PollRead, done

\* The devices are read one after the other.
LEMMA PollRuns ==
  ASSUME Word \in Nat \ {0}, NEW D \in Seq(Seq(Engine)), NEW m0 \in Maps
  PROVE  \E r \in [0 .. Len(D) -> PollRead] :
           /\ r[0] = [map |-> m0, rows |-> <<>>]
           /\ \A i \in 1 .. Len(D) : r[i] = Dev!ReadDevice(r[i - 1], D[i])
           /\ r[Len(D)] = Dev!getgpustatus(m0, D)
<1> DEFINE n == Len(D)
           base == [map |-> m0, rows |-> <<>>]
           seq == D
           step == [p \in (1 .. n) \X PollRead |-> Dev!ReadDevice(p[2], D[p[1]])]
           Body(g) == [s \in SUBSET DOMAIN seq |->
                         IF s = {} THEN base ELSE Dev!ReadDevice(g[s \ {Max(s)}], D[Max(s)])]
           g == CHOOSE g : g = Body(g)
<1>1. n \in Nat /\ DOMAIN seq = 1 .. n
  OBVIOUS
<1>2. base \in PollRead
  BY DEF PollRead
<1>3. step \in [(1 .. n) \X PollRead -> PollRead]
      /\ \A i \in 1 .. n, v \in PollRead : step[<<i, v>>] = Dev!ReadDevice(v, D[i])
  <2>1. ASSUME NEW i \in 1 .. n, NEW v \in PollRead
        PROVE  Dev!ReadDevice(v, D[i]) \in PollRead
    <5>1. D[i] \in Seq(Engine)
      OBVIOUS
    <5> QED BY <5>1, DeviceTyped
  <2> QED BY <2>1
<1>4. PICK h : Folding(h, n, PollRead, base, step)
  <2> HIDE DEF step, base
  <2> QED BY <1>1, <1>2, <1>3, FoldExists
<1>5. h = Body(h)
  <2>1. \A s \in SUBSET DOMAIN seq : h[s] = Body(h)[s]
    <3> TAKE s \in SUBSET DOMAIN seq
    <3>1. s = {} => h[s] = base
      BY <1>1, <1>4 DEF Folding, Behind
    <3>2. CASE s # {}
      <4>1. /\ Max(s) \in 1 .. n /\ s \ {Max(s)} \in SUBSET (1 .. n)
        BY <1>1, <3>2, GreatestExists
      <4>2. h[s] = step[<<Max(s), h[s \ {Max(s)}]>>] /\ h[s \ {Max(s)}] \in PollRead
        <5> HIDE DEF step, base, seq
        <5> QED BY <1>1, <1>4, <3>2, <4>1 DEF Folding, Behind
      <4>3. h[s] = Dev!ReadDevice(h[s \ {Max(s)}], D[Max(s)])
        <5> HIDE DEF step, base
        <5> QED BY <1>3, <4>1, <4>2
      <4> HIDE DEF step, base
      <4> QED BY <3>2, <4>1, <4>3
    <3> HIDE DEF step, base
    <3> QED BY <3>1, <3>2
  <2>2. DOMAIN h = SUBSET DOMAIN seq
    <3> HIDE DEF step, base
    <3> QED BY <1>1, <1>4 DEF Folding
  <2>3. h = [s \in DOMAIN h |-> h[s]]
    <3> HIDE DEF step, base
    <3> QED BY <1>4 DEF Folding
  <2> HIDE DEF step, base
  <2> QED BY <2>1, <2>2, <2>3
<1>6. g = Body(g)
  BY <1>5
<1>7. Dev!getgpustatus(m0, D) = g[1 .. n]
  BY <1>1 DEF Dev!getgpustatus, Dev!FoldLeft, Dev!MapThenFoldSet, Dev!Max, Max
<1>8. g[{}] = base
  <2> HIDE DEF base, g
  <2> QED BY <1>1, <1>6
<1>9. ASSUME NEW s \in SUBSET (1 .. n), s # {}, g[s \ {Max(s)}] \in PollRead
      PROVE  g[s] = step[<<Max(s), g[s \ {Max(s)}]>>]
  <2>0. Max(s) \in 1 .. n
    BY <1>1, <1>9, GreatestExists
  <2>1. g[s] = Dev!ReadDevice(g[s \ {Max(s)}], D[Max(s)])
    <3> HIDE DEF base, g
    <3> QED BY <1>1, <1>6, <1>9, <2>0
  <2> HIDE DEF base, g, step, seq
  <2> QED BY <1>3, <1>9, <2>0, <2>1
<1> DEFINE r == [i \in 0 .. n |-> g[1 .. i]]
<1>10. Running(r, n, PollRead, base, step)
  <2> HIDE DEF g, base, step, seq
  <2>1. step \in [(1 .. n) \X PollRead -> PollRead]
    BY <1>3
  <2>2. \A s \in SUBSET (1 .. n) : s # {} /\ g[s \ {Max(s)}] \in PollRead
                                     => g[s] = step[<<Max(s), g[s \ {Max(s)}]>>]
    BY <1>9
  <2>3. n \in Nat
    BY <1>1
  <2> HIDE DEF n
  <2>4. Running([i \in 0 .. n |-> g[1 .. i]], n, PollRead, base, step)
    BY <1>2, <1>8, <2>1, <2>2, <2>3, FoldRuns
  <2> QED BY <2>4
<1>11. r \in [0 .. n -> PollRead] /\ r[0] = base /\ r[n] = g[1 .. n]
       /\ \A i \in 1 .. n : r[i] = step[<<i, r[i - 1]>>] /\ i - 1 \in 0 .. n
  <2>1. r[n] = g[1 .. n] /\ \A i \in 1 .. n : i - 1 \in 0 .. n
    BY <1>1
  <2> HIDE DEF r, g, base, step
  <2> QED BY <1>10, <2>1 DEF Running
<1>12. \A i \in 1 .. n : r[i] = Dev!ReadDevice(r[i - 1], D[i])
  <2> HIDE DEF r, step
  <2> QED BY <1>3, <1>11
<1> HIDE DEF r, g
<1> QED BY <1>7, <1>11, <1>12

\* What inserting does.
LEMMA Inserted ==
  ASSUME NEW f, NEW x, NEW v
  PROVE  LET g == Dev!Insert(f, x, v)
         IN  /\ DOMAIN g = DOMAIN f \cup {x} /\ \A y \in DOMAIN f : g[y] = f[y]
             /\ (x \notin DOMAIN f) => (g[x] = v)
BY DEF Dev!Insert

\* An engine whose type is not known changes nothing.
LEMMA InsertedNothing ==
  ASSUME NEW f \in Maps, NEW x \in DOMAIN f, NEW v
  PROVE  Dev!Insert(f, x, v) = f
<1>1. f = [y \in DOMAIN f |-> f[y]]
  BY DEF Maps
<1>2. DOMAIN f \cup {x} = DOMAIN f
  OBVIOUS
<1>3. Dev!Insert(f, x, v) = [y \in DOMAIN f |-> f[y]]
  BY <1>2 DEF Dev!Insert
<1> QED BY <1>1, <1>3

\* The engines whose types are known.
Shows(e) == e.type \in Dev!Known

\* A row has what some engine of each label shows against a map.
RowOf(w, E, i, m) ==
  /\ \A j \in 1 .. i : Shows(E[j]) => Dev!Label(E[j]) \in DOMAIN w
  /\ \A l \in DOMAIN w : \E j \in 1 .. i : Shows(E[j]) /\ Dev!Label(E[j]) = l
AgainstMap(w, E, i, m) ==
  \A l \in DOMAIN w :
    \E j \in 1 .. i : Dev!Label(E[j]) = l /\ w[l] = Dev!Activity(E[j], m)

\* A map keeps what it had, and gets an engine of each label besides.
KeepsMap(map, E, i, m) ==
  /\ \A l \in DOMAIN m : l \in DOMAIN map /\ map[l] = m[l]
  /\ \A l \in DOMAIN map : l \in DOMAIN m \/ \E j \in 1 .. i : Dev!Label(E[j]) = l /\ map[l] = E[j]
  /\ \A j \in 1 .. i : Shows(E[j]) => Dev!Label(E[j]) \in DOMAIN map

HasAll(m, E) == \A j \in 1 .. Len(E) : Shows(E[j]) => Dev!Label(E[j]) \in DOMAIN m

Told(st, E, i, m) ==
  /\ RowOf(st.row, E, i, m) /\ KeepsMap(st.map, E, i, m)
  /\ HasAll(m, E) => st.map = m /\ AgainstMap(st.row, E, i, m)

\* What the row and the map have after a device.
LEMMA DeviceTold ==
  ASSUME Word \in Nat \ {0}, NEW E \in Seq(Engine), NEW m \in Maps
  PROVE  LET done == Dev!FoldLeft(Dev!ReadEngine, [map |-> m, row |-> <<>>], E)
         IN  done \in DeviceRead /\ Told(done, E, Len(E), m)
<1> DEFINE n == Len(E)
           base == [map |-> m, row |-> <<>>]
           done == Dev!FoldLeft(Dev!ReadEngine, base, E)
<1>1. PICK r \in [0 .. n -> DeviceRead] :
        /\ r[0] = base
        /\ \A i \in 1 .. n : r[i] = Dev!ReadEngine(r[i - 1], E[i])
        /\ r[n] = done
  BY EngineRuns
<1> HIDE DEF done
<1>2. n \in Nat /\ n \in 0 .. n
  OBVIOUS
<1> DEFINE B == {i \in 0 .. n : Told(r[i], E, i, m)}
<1>3. 0 \in B
  <2>1. base.map = m /\ DOMAIN base.row = {} /\ 1 .. 0 = {} /\ 0 \in 0 .. n
    OBVIOUS
  <2> HIDE DEF base
  <2>2. RowOf(base.row, E, 0, m) /\ AgainstMap(base.row, E, 0, m)
    BY <2>1 DEF RowOf, AgainstMap
  <2>3. KeepsMap(base.map, E, 0, m)
    BY <2>1 DEF KeepsMap
  <2>4. Told(base, E, 0, m)
    BY <2>1, <2>2, <2>3 DEF Told
  <2> QED BY <1>1, <2>1, <2>4
<1>4. ASSUME NEW i \in 1 .. n, i - 1 \in B PROVE i \in B
  <2> DEFINE p == r[i - 1]
             q == r[i]
             e == E[i]
             l == Dev!Label(e)
  <2>1. /\ i - 1 \in 0 .. n /\ i \in 0 .. n /\ p \in DeviceRead /\ e \in Engine
        /\ Told(p, E, i - 1, m) /\ q = Dev!ReadEngine(p, e)
        /\ \A j \in 1 .. i : j = i \/ j \in 1 .. (i - 1)
        /\ \A j \in 1 .. (i - 1) : j \in 1 .. i
        /\ i \in 1 .. i
    BY <1>1, <1>4
  <2>2. /\ RowOf(p.row, E, i - 1, m) /\ KeepsMap(p.map, E, i - 1, m)
        /\ HasAll(m, E) => p.map = m /\ AgainstMap(p.row, E, i - 1, m)
    BY <2>1 DEF Told
  <2>3. p.map \in Maps /\ p.row \in Shown
    BY <2>1 DEF DeviceRead
  <2> HIDE DEF p, q, B
  <2>4. CASE ~Shows(e)
    <3>1. q = p
      BY <2>1, <2>4, Zenon DEF Dev!ReadEngine, Shows
    <3>2. RowOf(p.row, E, i, m)
      BY <2>1, <2>2, <2>4 DEF RowOf
    <3>3. KeepsMap(p.map, E, i, m)
      BY <2>1, <2>2, <2>4 DEF KeepsMap
    <3>4. HasAll(m, E) => AgainstMap(p.row, E, i, m)
      BY <2>1, <2>2 DEF AgainstMap
    <3>5. Told(q, E, i, m)
      BY <2>2, <3>1, <3>2, <3>3, <3>4 DEF Told
    <3> QED BY <2>1, <3>5 DEF B, q
  <2>5. CASE Shows(e)
    <3> DEFINE a == Dev!Activity(e, p.map)
               map == Dev!Insert(p.map, l, e)
               row_ == Dev!Insert(p.row, l, a)
    <3>1. q.map = map /\ q.row = row_
      BY <2>1, <2>5 DEF Dev!ReadEngine, Shows
    <3> HIDE DEF l
    <3>2. /\ DOMAIN map = DOMAIN p.map \cup {l} /\ \A y \in DOMAIN p.map : map[y] = p.map[y]
          /\ (l \notin DOMAIN p.map) => (map[l] = e)
      BY Inserted
    <3>3. /\ DOMAIN row_ = DOMAIN p.row \cup {l} /\ \A y \in DOMAIN p.row : row_[y] = p.row[y]
          /\ (l \notin DOMAIN p.row) => (row_[l] = a)
      BY Inserted
    <3> HIDE DEF map, row_
    <3>4. RowOf(row_, E, i, m)
      <4>1. ASSUME NEW j \in 1 .. i, Shows(E[j]) PROVE Dev!Label(E[j]) \in DOMAIN row_
        BY <2>1, <2>2, <3>3, <4>1 DEF RowOf, l
      <4>2. ASSUME NEW k \in DOMAIN row_
            PROVE  \E j \in 1 .. i : Shows(E[j]) /\ Dev!Label(E[j]) = k
        BY <2>1, <2>2, <2>5, <3>3 DEF RowOf, l
      <4> QED BY <4>1, <4>2 DEF RowOf
    <3>5. KeepsMap(map, E, i, m)
      <4>1. ASSUME NEW k \in DOMAIN m PROVE k \in DOMAIN map /\ map[k] = m[k]
        BY <2>2, <3>2 DEF KeepsMap
      <4>2. ASSUME NEW k \in DOMAIN map, k \notin DOMAIN m
            PROVE  \E j \in 1 .. i : Dev!Label(E[j]) = k /\ map[k] = E[j]
        <5>1. CASE k \in DOMAIN p.map
          <6>1. PICK j \in 1 .. (i - 1) : Dev!Label(E[j]) = k /\ p.map[k] = E[j]
            BY <2>2, <4>2, <5>1 DEF KeepsMap
          <6> QED BY <2>1, <3>2, <5>1, <6>1
        <5>2. CASE k \notin DOMAIN p.map
          BY <2>1, <3>2, <5>2 DEF l
        <5> QED BY <5>1, <5>2
      <4>3. ASSUME NEW j \in 1 .. i, Shows(E[j]) PROVE Dev!Label(E[j]) \in DOMAIN map
        BY <2>1, <2>2, <3>2, <4>3 DEF KeepsMap, l
      <4> QED BY <4>1, <4>2, <4>3 DEF KeepsMap
    <3>6. HasAll(m, E) => map = m /\ AgainstMap(row_, E, i, m)
      <4> SUFFICES ASSUME HasAll(m, E) PROVE map = m /\ AgainstMap(row_, E, i, m)
        OBVIOUS
      <4>1. p.map = m /\ AgainstMap(p.row, E, i - 1, m) /\ l \in DOMAIN m
        BY <2>2, <2>5 DEF HasAll, l
      <4>2. map = m
        BY <4>1, InsertedNothing DEF map
      <4>3. ASSUME NEW k \in DOMAIN row_
            PROVE  \E j \in 1 .. i : Dev!Label(E[j]) = k /\ row_[k] = Dev!Activity(E[j], m)
        <5>1. CASE k \in DOMAIN p.row
          <6>1. PICK j \in 1 .. (i - 1) : Dev!Label(E[j]) = k /\ p.row[k] = Dev!Activity(E[j], m)
            BY <4>1, <5>1 DEF AgainstMap
          <6> QED BY <2>1, <3>3, <5>1, <6>1
        <5>2. CASE k \notin DOMAIN p.row
          <6>1. k = l /\ row_[k] = Dev!Activity(E[i], m)
            BY <3>3, <4>1, <5>2
          <6> QED BY <2>1, <6>1 DEF l
        <5> QED BY <5>1, <5>2
      <4> QED BY <4>2, <4>3 DEF AgainstMap
    <3>7. Told(q, E, i, m)
      BY <3>1, <3>4, <3>5, <3>6 DEF Told
    <3> QED BY <2>1, <3>7 DEF B, q
  <2> QED BY <2>4, <2>5
<1>5. n \in B
  <2> HIDE DEF B, n
  <2>1. \A i \in 0 .. n : i \in B
    BY <1>2, <1>3, <1>4, StepByStep
  <2> QED BY <1>2, <2>1
<1>6. done \in DeviceRead
  BY <1>1, <1>2
<1> QED BY <1>1, <1>5, <1>6 DEF done

\* Such an engine, of one of these devices.
FromOne(map, D, d, l) ==
  \E o \in 1 .. d : \E j \in 1 .. Len(D[o]) : Dev!Label(D[o][j]) = l /\ map[l] = D[o][j]

\* The map after some devices has an engine of theirs for each label, and for that of
\* a device an engine of this one or one before.
FromDevices(map, D, d) ==
  /\ \A o \in 1 .. d : HasAll(map, D[o])
  /\ \A l \in DOMAIN map : FromOne(map, D, d, l)
  /\ \A o \in 1 .. d : \A j \in 1 .. Len(D[o]) :
       Shows(D[o][j]) => FromOne(map, D, o, Dev!Label(D[o][j]))

\* After the first poll, the map has snapshots of that poll only.
LEMMA FirstPoll ==
  ASSUME Word \in Nat \ {0}, NEW D \in Seq(Seq(Engine))
  PROVE  LET map == Dev!getgpustatus(<<>>, D).map
         IN  map \in Maps /\ FromDevices(map, D, Len(D))
<1> DEFINE n == Len(D)
           done == Dev!getgpustatus(<<>>, D)
<1>1. PICK r \in [0 .. n -> PollRead] :
        /\ r[0] = [map |-> <<>>, rows |-> <<>>]
        /\ \A i \in 1 .. n : r[i] = Dev!ReadDevice(r[i - 1], D[i])
        /\ r[n] = done
  BY EmptyRow, PollRuns
<1> HIDE DEF done
<1>2. n \in Nat /\ n \in 0 .. n
  OBVIOUS
<1> DEFINE B == {i \in 0 .. n : FromDevices(r[i].map, D, i)}
<1>3. 0 \in B
  <2>1. DOMAIN r[0].map = {} /\ 1 .. 0 = {} /\ 0 \in 0 .. n
    BY <1>1
  <2> QED BY <2>1 DEF FromDevices
<1>4. ASSUME NEW i \in 1 .. n, i - 1 \in B PROVE i \in B
  <2> DEFINE m == r[i - 1].map
             E == D[i]
             st == Dev!FoldLeft(Dev!ReadEngine, [map |-> m, row |-> <<>>], E)
  <2>0. /\ i - 1 \in 0 .. n /\ i \in 0 .. n /\ i \in 1 .. i
        /\ \A j \in 1 .. i : j = i \/ j \in 1 .. (i - 1)
        /\ \A j \in 1 .. (i - 1) : j \in 1 .. i
    BY <1>2
  <2>1. /\ r[i - 1] \in PollRead /\ E \in Seq(Engine)
        /\ FromDevices(m, D, i - 1) /\ r[i] = Dev!ReadDevice(r[i - 1], E)
    <3>1. E \in Seq(Engine)
      OBVIOUS
    <3> HIDE DEF E
    <3>2. r[i] = Dev!ReadDevice(r[i - 1], E)
      BY <1>1 DEF E
    <3>3. r[i - 1] \in PollRead
      BY <2>0
    <3> QED BY <1>4, <3>1, <3>2, <3>3
  <2>2. m \in Maps
    BY <2>1 DEF PollRead
  <2>3. r[i].map = st.map
    BY <2>1 DEF Dev!ReadDevice
  <2> HIDE DEF m
  <2>4. st \in DeviceRead /\ Told(st, E, Len(E), m)
    <3> HIDE DEF E
    <3> QED BY <2>1, <2>2, DeviceTold
  <2> HIDE DEF st
  <2>5. KeepsMap(st.map, E, Len(E), m)
    BY <2>4 DEF Told
  <2>6. ASSUME NEW o \in 1 .. i PROVE HasAll(st.map, D[o])
    <3>1. CASE o = i
      BY <2>5, <3>1 DEF KeepsMap, HasAll
    <3>2. CASE o \in 1 .. (i - 1)
      <4>1. HasAll(m, D[o])
        BY <2>1, <3>2 DEF FromDevices
      <4> QED BY <2>5, <4>1 DEF KeepsMap, HasAll
    <3> QED BY <2>0, <3>1, <3>2
  <2>7. ASSUME NEW l \in DOMAIN st.map PROVE FromOne(st.map, D, i, l)
    <3>1. CASE l \in DOMAIN m
      <4>1. st.map[l] = m[l]
        BY <2>5, <3>1 DEF KeepsMap
      <4>2. PICK o \in 1 .. (i - 1) : \E j \in 1 .. Len(D[o]) :
              Dev!Label(D[o][j]) = l /\ m[l] = D[o][j]
        BY <2>1, <3>1 DEF FromDevices, FromOne
      <4> QED BY <2>0, <4>1, <4>2 DEF FromOne
    <3>2. CASE l \notin DOMAIN m
      <4>1. \E j \in 1 .. Len(E) : Dev!Label(E[j]) = l /\ st.map[l] = E[j]
        BY <2>5, <3>2 DEF KeepsMap
      <4> QED BY <2>0, <2>1, <4>1 DEF FromOne
    <3> QED BY <3>1, <3>2
  <2>8. ASSUME NEW o \in 1 .. i, NEW j \in 1 .. Len(D[o]), Shows(D[o][j])
        PROVE  FromOne(st.map, D, o, Dev!Label(D[o][j]))
    <3> DEFINE l == Dev!Label(D[o][j])
    <3>1. CASE o = i
      <4>1. l \in DOMAIN st.map
        BY <2>6, <2>8 DEF HasAll
      <4> QED BY <2>7, <3>1, <4>1
    <3>2. CASE o \in 1 .. (i - 1)
      <4>1. l \in DOMAIN m /\ FromOne(m, D, o, l)
        BY <2>1, <2>8, <3>2 DEF FromDevices, HasAll
      <4>2. st.map[l] = m[l]
        BY <2>5, <4>1 DEF KeepsMap
      <4> HIDE DEF l
      <4>3. FromOne(st.map, D, o, l)
        BY <4>1, <4>2 DEF FromOne
      <4> QED BY <4>3 DEF l
    <3> QED BY <2>0, <3>1, <3>2
  <2>9. FromDevices(st.map, D, i)
    BY <2>6, <2>7, <2>8 DEF FromDevices
  <2> QED BY <2>0, <2>3, <2>9
<1>5. n \in B
  <2> HIDE DEF B, n
  <2>1. \A i \in 0 .. n : i \in B
    BY <1>2, <1>3, <1>4, StepByStep
  <2> QED BY <1>2, <2>1
<1>6. done \in PollRead
  BY <1>1, <1>2
<1>7. done.map \in Maps
  BY <1>6 DEF PollRead
<1> QED BY <1>1, <1>5, <1>7 DEF done

\* Once every label is in the map, it stays, and every row is shown against it.
LEMMA LaterPoll ==
  ASSUME Word \in Nat \ {0}, NEW D \in Seq(Seq(Engine)), NEW m \in Maps,
         \A o \in 1 .. Len(D) : HasAll(m, D[o])
  PROVE  LET rows_ == Dev!getgpustatus(m, D).rows
         IN  \A d \in 1 .. Len(D) : /\ RowOf(rows_[d], D[d], Len(D[d]), m)
                                   /\ AgainstMap(rows_[d], D[d], Len(D[d]), m)
<1> DEFINE n == Len(D)
           done == Dev!getgpustatus(m, D)
           Row_(w, d) == /\ RowOf(w, D[d], Len(D[d]), m)
                         /\ AgainstMap(w, D[d], Len(D[d]), m)
<1>1. PICK r \in [0 .. n -> PollRead] :
        /\ r[0] = [map |-> m, rows |-> <<>>]
        /\ \A i \in 1 .. n : r[i] = Dev!ReadDevice(r[i - 1], D[i])
        /\ r[n] = done
  BY PollRuns
<1> HIDE DEF done
<1>2. n \in Nat /\ n \in 0 .. n
  OBVIOUS
<1> DEFINE Good(st, i) == st.map = m /\ Len(st.rows) = i /\ \A d \in 1 .. i : Row_(st.rows[d], d)
           B == {i \in 0 .. n : Good(r[i], i)}
<1>3. 0 \in B
  <2>1. r[0].map = m /\ Len(r[0].rows) = 0 /\ 1 .. 0 = {} /\ 0 \in 0 .. n
    BY <1>1
  <2> HIDE DEF Row_
  <2> QED BY <2>1
<1>4. ASSUME NEW i \in 1 .. n, i - 1 \in B PROVE i \in B
  <2> DEFINE E == D[i]
             st == Dev!FoldLeft(Dev!ReadEngine, [map |-> m, row |-> <<>>], E)
             old == r[i - 1].rows
  <2>0. /\ i - 1 \in 0 .. n /\ i \in 0 .. n
        /\ \A j \in 1 .. i : j = i \/ j \in 1 .. (i - 1)
    BY <1>2
  <2>1. /\ r[i - 1] \in PollRead /\ E \in Seq(Engine) /\ r[i] = Dev!ReadDevice(r[i - 1], E)
        /\ r[i - 1].map = m /\ Len(r[i - 1].rows) = i - 1
        /\ \A d \in 1 .. (i - 1) : Row_(r[i - 1].rows[d], d)
    <3> HIDE DEF Row_
    <3>1. E \in Seq(Engine)
      OBVIOUS
    <3> HIDE DEF E
    <3>2. r[i] = Dev!ReadDevice(r[i - 1], E)
      BY <1>1 DEF E
    <3>3. r[i - 1] \in PollRead
      BY <2>0
    <3> QED BY <1>4, <3>1, <3>2, <3>3
  <2>2. old \in Seq(Shown) /\ Len(old) = i - 1 /\ r[i - 1].map = m
    BY <2>1 DEF PollRead
  <2>3. r[i].map = st.map /\ r[i].rows = Append(old, st.row)
    BY <2>1, <2>2 DEF Dev!ReadDevice
  <2>4. st \in DeviceRead /\ Told(st, E, Len(E), m)
    <3> HIDE DEF E
    <3> QED BY <2>1, DeviceTold
  <2> HIDE DEF st, old
  <2>5. st.map = m /\ Row_(st.row, i)
    BY <2>4 DEF Told
  <2>6. st.row \in Shown
    BY <2>4 DEF DeviceRead
  <2>7. /\ Len(Append(old, st.row)) = i /\ Append(old, st.row)[i] = st.row
        /\ \A d \in 1 .. (i - 1) : Append(old, st.row)[d] = old[d]
    BY <2>2, <2>6
  <2>8. \A d \in 1 .. (i - 1) : Row_(old[d], d)
    BY <2>1 DEF old
  <2> HIDE DEF Row_
  <2>9. Good(r[i], i)
    BY <2>0, <2>3, <2>5, <2>7, <2>8
  <2> QED BY <2>0, <2>9
<1>5. n \in B
  <2> HIDE DEF B, n
  <2>1. \A i \in 0 .. n : i \in B
    BY <1>2, <1>3, <1>4, StepByStep
  <2> QED BY <1>2, <2>1
<1> QED BY <1>1, <1>5 DEF done

\* An engine shows its share of the time since its first snapshot unless a device before
\* it has one of the same label (sycl.cpp 156-222).
THEOREM SharesAreShown ==
  ASSUME Word \in Nat \ {0}, NEW first, NEW second, PollsAssumption(first, second)
  PROVE  Dev!SharesShownFor(first, second)
<1> DEFINE m == Dev!getgpustatus(<<>>, first).map
           shown == Dev!Polled(first, second)
           n == Len(second)
<1>1. /\ first \in Seq(Seq(Engine)) /\ second \in Seq(Seq(Engine))
      /\ n \in Nat /\ DOMAIN first = 1 .. n /\ DOMAIN second = 1 .. n /\ Len(first) = n
      /\ \A d \in 1 .. n :
           /\ Len(first[d]) = Len(second[d])
           /\ DOMAIN first[d] = 1 .. Len(second[d]) /\ DOMAIN second[d] = 1 .. Len(second[d])
           /\ \A k \in 1 .. Len(second[d]) : /\ Later(first[d][k], second[d][k])
                                            /\ first[d][k] \in Engine /\ second[d][k] \in Engine
           /\ \A k, l \in 1 .. Len(second[d]) :
                Dev!Label(first[d][k]) = Dev!Label(first[d][l]) => k = l
  <2>1. /\ first \in Seq(Seq(Engine)) /\ second \in Seq(Seq(Engine))
        /\ n \in Nat /\ DOMAIN first = 1 .. n /\ DOMAIN second = 1 .. n /\ Len(first) = n
    BY DEF PollsAssumption
  <2>2. \A d \in 1 .. n :
          /\ first[d] \in Seq(Engine) /\ second[d] \in Seq(Engine)
          /\ Len(first[d]) = Len(second[d])
    <3> SUFFICES ASSUME NEW d \in 1 .. n
                 PROVE  /\ first[d] \in Seq(Engine) /\ second[d] \in Seq(Engine)
                        /\ Len(first[d]) = Len(second[d])
      OBVIOUS
    <3>1. \A c \in DOMAIN first : Len(first[c]) = Len(second[c])
      BY DEF PollsAssumption
    <3> DEFINE S == Seq(Engine)
    <3>2. first \in Seq(S) /\ second \in Seq(S) /\ d \in 1 .. Len(first) /\ d \in 1 .. Len(second)
      BY <2>1
    <3> HIDE DEF n, S
    <3>3. first[d] \in S /\ second[d] \in S
      BY <3>2, ElementOfSeq
    <3> QED BY <2>1, <3>1, <3>3 DEF S
  <2>3. \A d \in 1 .. n :
          /\ \A k \in DOMAIN first[d] : Later(first[d][k], second[d][k])
          /\ \A k, l \in DOMAIN first[d] :
               Dev!Label(first[d][k]) = Dev!Label(first[d][l]) => k = l
    BY <2>1 DEF PollsAssumption
  <2> HIDE DEF n
  <2>4. ASSUME NEW d \in 1 .. n
        PROVE  /\ Len(first[d]) = Len(second[d])
               /\ DOMAIN first[d] = 1 .. Len(second[d]) /\ DOMAIN second[d] = 1 .. Len(second[d])
               /\ \A k \in 1 .. Len(second[d]) : /\ Later(first[d][k], second[d][k])
                                                /\ first[d][k] \in Engine
                                                /\ second[d][k] \in Engine
               /\ \A k, l \in 1 .. Len(second[d]) :
                    Dev!Label(first[d][k]) = Dev!Label(first[d][l]) => k = l
    <3>1. /\ first[d] \in Seq(Engine) /\ second[d] \in Seq(Engine)
          /\ Len(first[d]) = Len(second[d])
      BY <2>2, <2>4
    <3>2. DOMAIN first[d] = 1 .. Len(second[d]) /\ DOMAIN second[d] = 1 .. Len(second[d])
      BY <3>1
    <3>3. \A k \in 1 .. Len(second[d]) : first[d][k] \in Engine /\ second[d][k] \in Engine
      BY <3>1, ElementOfSeq
    <3> QED BY <2>3, <2>4, <3>1, <3>2, <3>3
  <2> QED BY <2>1, <2>4
<1>2. m \in Maps /\ FromDevices(m, first, n)
  BY <1>1, FirstPoll
<1> HIDE DEF m
<1>3. ASSUME NEW e \in Engine, NEW f \in Engine, Dev!Label(e) = Dev!Label(f)
      PROVE  e.type = f.type /\ (Shows(e) <=> Shows(f))
  BY <1>3 DEF Dev!Label, Shows
<1>4. \A d \in 1 .. n : \A k \in 1 .. Len(second[d]) :
        /\ Dev!Label(first[d][k]) = Dev!Label(second[d][k])
        /\ Shows(first[d][k]) <=> Shows(second[d][k])
  BY <1>1, <1>3 DEF Later
<1>5. \A d \in 1 .. n : HasAll(m, second[d])
  BY <1>1, <1>2, <1>4 DEF FromDevices, HasAll
<1>6. \A d \in 1 .. n : /\ RowOf(shown[d], second[d], Len(second[d]), m)
                       /\ AgainstMap(shown[d], second[d], Len(second[d]), m)
  <2> HIDE DEF n
  <2>1. shown = Dev!getgpustatus(m, second).rows
    BY DEF Dev!Polled, m
  <2> HIDE DEF shown
  <2> QED BY <1>1, <1>2, <1>5, <2>1, LaterPoll DEF n
<1> HIDE DEF shown, n
<1> SUFFICES ASSUME NEW d \in 1 .. n, NEW k \in 1 .. Len(second[d])
             PROVE
    LET l == Dev!Label(second[d][k])
    IN  /\ (second[d][k].type \in Dev!Known) <=> (l \in DOMAIN shown[d])
        /\ (/\ second[d][k].type \in Dev!Known
            /\ \A o \in DOMAIN first : o < d => \A j \in DOMAIN first[o] :
                 Dev!Label(first[o][j]) # Dev!Label(first[d][k])) =>
           /\ shown[d][l][2] > 0
           /\ shown[d][l] = <<second[d][k].active - first[d][k].active,
                              second[d][k].stamp - first[d][k].stamp>>
  BY <1>1 DEF Dev!SharesShownFor, Dev!OwnShare, shown
<1> DEFINE e == first[d][k]
           f == second[d][k]
           l == Dev!Label(f)
<1>7. e \in Engine /\ f \in Engine /\ Later(e, f) /\ Dev!Label(e) = l
  BY <1>1, <1>4
<1>8. (f.type \in Dev!Known) <=> (l \in DOMAIN shown[d])
  <2>1. ASSUME l \in DOMAIN shown[d] PROVE Shows(f)
    <3>1. PICK j \in 1 .. Len(second[d]) : Shows(second[d][j]) /\ Dev!Label(second[d][j]) = l
      BY <1>6, <2>1 DEF RowOf
    <3> QED BY <1>1, <1>3, <3>1
  <2>2. ASSUME Shows(f) PROVE l \in DOMAIN shown[d]
    BY <1>6, <2>2 DEF RowOf
  <2> QED BY <2>1, <2>2 DEF Shows
<1>9. ASSUME f.type \in Dev!Known,
             \A o \in DOMAIN first : o < d => \A j \in DOMAIN first[o] :
               Dev!Label(first[o][j]) # Dev!Label(e)
      PROVE  /\ shown[d][l][2] > 0
             /\ shown[d][l] = <<f.active - e.active, f.stamp - e.stamp>>
  <2>1. l \in DOMAIN shown[d] /\ l \in DOMAIN m
    BY <1>5, <1>8, <1>9 DEF HasAll, Shows
  <2>2. PICK j \in 1 .. Len(second[d]) :
          Dev!Label(second[d][j]) = l /\ shown[d][l] = Dev!Activity(second[d][j], m)
    BY <1>6, <2>1 DEF AgainstMap
  <2>3. j = k
    BY <1>1, <1>4, <1>7, <2>2
  <2>4. FromOne(m, first, d, l)
    <3>1. Shows(e)
      BY <1>4, <1>9 DEF Shows
    <3>2. k \in 1 .. Len(first[d]) /\ d \in 1 .. n
      BY <1>1
    <3>3. FromOne(m, first, d, Dev!Label(e))
      BY <1>2, <3>1, <3>2 DEF FromDevices
    <3> QED BY <1>7, <3>3
  <2>5. PICK o \in 1 .. d : \E i \in 1 .. Len(first[o]) :
          Dev!Label(first[o][i]) = l /\ m[l] = first[o][i]
    BY <2>4 DEF FromOne
  <2>a. PICK i \in 1 .. Len(first[o]) : Dev!Label(first[o][i]) = l /\ m[l] = first[o][i]
    BY <2>5
  <2>6. o = d
    <3>1. o \in 1 .. n /\ (o = d \/ o < d)
      BY <1>1
    <3>2. i \in DOMAIN first[o] /\ o \in DOMAIN first
      BY <1>1, <3>1
    <3>3. Dev!Label(first[o][i]) = Dev!Label(e)
      BY <1>7, <2>a
    <3> QED BY <1>9, <3>1, <3>2, <3>3
  <2>7. i = k
    BY <1>1, <1>7, <2>a, <2>6
  <2>8. m[l] = e
    BY <2>a, <2>6, <2>7
  <2>9. /\ f.stamp - e.stamp \in 1 .. (Word - 1) /\ f.active - e.active \in 0 .. (Word - 1)
        /\ e.stamp \in Nat /\ f.stamp \in Nat /\ e.active \in Nat /\ f.active \in Nat
    BY <1>7 DEF Later, Engine
  <2> HIDE DEF e, f, l
  <2>10. /\ (f.stamp - e.stamp) % Word = f.stamp - e.stamp
         /\ (f.active - e.active) % Word = f.active - e.active
    <3>1. ASSUME NEW a \in 0 .. (Word - 1) PROVE a % Word = a
      <4>1. AsUnsigned(a) = a
        BY UnsignedSmall
      <4> QED BY <4>1, Zenon DEF AsUnsigned
    <3>2. f.stamp - e.stamp \in 0 .. (Word - 1)
      BY <2>9
    <3> QED BY <2>9, <3>1, <3>2, Zenon
  <2>11. shown[d][l] = Dev!Activity(f, m) /\ Dev!Label(f) = l
    BY <2>2, <2>3 DEF f, l
  <2>12. Dev!Activity(f, m) = <<(f.active - e.active) % Word, (f.stamp - e.stamp) % Word>>
    <3>1. (f.stamp - e.stamp) % Word # 0
      BY <2>9, <2>10
    <3> QED BY <2>1, <2>8, <2>11, <3>1, Zenon DEF Dev!Activity
  <2>13. shown[d][l] = <<f.active - e.active, f.stamp - e.stamp>> /\ f.stamp - e.stamp > 0
    BY <2>9, <2>10, <2>11, <2>12
  <2> QED BY <2>13
<1> QED BY <1>8, <1>9

-----------------------------------------------------------------------------
(* Call stacks: the tree of the calls and its labels.                      *)

\* What is read of the lines of a file: frames, while the first thread is on.
Reading(V) == [stack : Seq(V), active : BOOLEAN, failed : BOOLEAN]

\* Lines are read one after the other.
LEMMA ReadRuns ==
  ASSUME NEW V, NEW lines \in Seq(St!Lines(V))
  PROVE  \E r \in [0 .. Len(lines) -> Reading(V)] :
           /\ r[0] = [stack |-> <<>>, active |-> FALSE, failed |-> FALSE]
           /\ \A i \in 1 .. Len(lines) : r[i] = St!ReadLine(r[i - 1], lines[i])
           /\ r[Len(lines)] = St!ReadFile(lines)
<1> DEFINE n == Len(lines)
           base == [stack |-> <<>>, active |-> FALSE, failed |-> FALSE]
           seq == lines
           step == [p \in (1 .. n) \X Reading(V) |-> St!ReadLine(p[2], lines[p[1]])]
           Body(g) == [s \in SUBSET DOMAIN seq |->
                         IF s = {} THEN base ELSE St!ReadLine(g[s \ {Max(s)}], lines[Max(s)])]
           g == CHOOSE g : g = Body(g)
<1>1. n \in Nat /\ DOMAIN seq = 1 .. n
  OBVIOUS
<1>2. base \in Reading(V)
  BY DEF Reading
<1>3. step \in [(1 .. n) \X Reading(V) -> Reading(V)]
      /\ \A i \in 1 .. n, v \in Reading(V) : step[<<i, v>>] = St!ReadLine(v, lines[i])
  <2>1. ASSUME NEW i \in 1 .. n, NEW v \in Reading(V)
        PROVE  St!ReadLine(v, lines[i]) \in Reading(V)
    BY DEF Reading, St!ReadLine, St!Lines, St!Header, St!Other, St!Empty, St!Frame
  <2> QED BY <2>1
<1>4. PICK h : Folding(h, n, Reading(V), base, step)
  <2> HIDE DEF step, base
  <2> QED BY <1>1, <1>2, <1>3, FoldExists
<1>5. h = Body(h)
  <2>1. \A s \in SUBSET DOMAIN seq : h[s] = Body(h)[s]
    <3> TAKE s \in SUBSET DOMAIN seq
    <3>1. s = {} => h[s] = base
      BY <1>1, <1>4 DEF Folding, Behind
    <3>2. CASE s # {}
      <4>1. /\ Max(s) \in 1 .. n /\ s \ {Max(s)} \in SUBSET (1 .. n)
        BY <1>1, <3>2, GreatestExists
      <4>2. h[s] = step[<<Max(s), h[s \ {Max(s)}]>>] /\ h[s \ {Max(s)}] \in Reading(V)
        <5> HIDE DEF step, base, seq
        <5> QED BY <1>1, <1>4, <3>2, <4>1 DEF Folding, Behind
      <4>3. h[s] = St!ReadLine(h[s \ {Max(s)}], lines[Max(s)])
        <5> HIDE DEF step, base
        <5> QED BY <1>3, <4>1, <4>2
      <4> HIDE DEF step, base
      <4> QED BY <3>2, <4>1, <4>3
    <3> HIDE DEF step, base
    <3> QED BY <3>1, <3>2
  <2>2. DOMAIN h = SUBSET DOMAIN seq
    <3> HIDE DEF step, base
    <3> QED BY <1>1, <1>4 DEF Folding
  <2>3. h = [s \in DOMAIN h |-> h[s]]
    <3> HIDE DEF step, base
    <3> QED BY <1>4 DEF Folding
  <2> HIDE DEF step, base
  <2> QED BY <2>1, <2>2, <2>3
<1>6. g = Body(g)
  BY <1>5
<1>7. St!ReadFile(lines) = g[1 .. n]
  BY <1>1 DEF St!ReadFile, St!FoldLeft, St!MapThenFoldSet, St!Max, Max
<1>8. g[{}] = base
  <2> HIDE DEF base, g
  <2> QED BY <1>1, <1>6
<1>9. ASSUME NEW s \in SUBSET (1 .. n), s # {}, g[s \ {Max(s)}] \in Reading(V)
      PROVE  g[s] = step[<<Max(s), g[s \ {Max(s)}]>>]
  <2>0. Max(s) \in 1 .. n
    BY <1>1, <1>9, GreatestExists
  <2>1. g[s] = St!ReadLine(g[s \ {Max(s)}], lines[Max(s)])
    <3> HIDE DEF base, g
    <3> QED BY <1>1, <1>6, <1>9, <2>0
  <2> HIDE DEF base, g, step, seq
  <2> QED BY <1>3, <1>9, <2>0, <2>1
<1> DEFINE r == [i \in 0 .. n |-> g[1 .. i]]
<1>10. Running(r, n, Reading(V), base, step)
  <2> HIDE DEF g, base, step, seq
  <2>1. step \in [(1 .. n) \X Reading(V) -> Reading(V)]
    BY <1>3
  <2>2. \A s \in SUBSET (1 .. n) : s # {} /\ g[s \ {Max(s)}] \in Reading(V)
                                     => g[s] = step[<<Max(s), g[s \ {Max(s)}]>>]
    BY <1>9
  <2>3. n \in Nat
    BY <1>1
  <2> HIDE DEF n
  <2>4. Running([i \in 0 .. n |-> g[1 .. i]], n, Reading(V), base, step)
    BY <1>2, <1>8, <2>1, <2>2, <2>3, FoldRuns
  <2> QED BY <2>4
<1>11. r \in [0 .. n -> Reading(V)] /\ r[0] = base /\ r[n] = g[1 .. n]
       /\ \A i \in 1 .. n : r[i] = step[<<i, r[i - 1]>>] /\ i - 1 \in 0 .. n
  <2>1. r[n] = g[1 .. n] /\ \A i \in 1 .. n : i - 1 \in 0 .. n
    BY <1>1
  <2> HIDE DEF r, g, base, step
  <2> QED BY <1>10, <2>1 DEF Running
<1>12. \A i \in 1 .. n : r[i] = St!ReadLine(r[i - 1], lines[i])
  <2> HIDE DEF r, step
  <2> QED BY <1>3, <1>11
<1> HIDE DEF r, g
<1> QED BY <1>7, <1>11, <1>12

\* What the first i lines are read as: frames of the first thread, which is on if the
\* next line is behind them, and an error if an empty line was.
Read(v, lines, i) ==
  /\ v.active => St!OfFirst(lines, i + 1)
  /\ v.failed => \E k \in 1 .. i : St!OfFirst(lines, k) /\ lines[k] = St!Empty
  /\ \A p \in 1 .. Len(v.stack) :
       \E k \in 1 .. i : St!OfFirst(lines, k) /\ lines[k] = St!Frame(v.stack[p])

LEMMA LineRead ==
  ASSUME NEW V, NEW lines \in Seq(St!Lines(V)), NEW i \in 1 .. Len(lines),
         NEW v \in Reading(V), Read(v, lines, i - 1)
  PROVE  Read(St!ReadLine(v, lines[i]), lines, i)
<1> DEFINE line == lines[i]
           new == St!ReadLine(v, line)
<1>1. i \in Nat /\ i >= 1 /\ (i - 1) + 1 = i /\ (i + 1) - 1 = i /\ i \in 1 .. i /\ line \in St!Lines(V)
      /\ \A k \in 1 .. (i - 1) : k \in 1 .. i
  OBVIOUS
<1>2. v.stack \in Seq(V) /\ v.active \in BOOLEAN /\ v.failed \in BOOLEAN
  BY DEF Reading
<1>3. line[1] = "frame" => line = St!Frame(line[2]) /\ line[2] \in V
  BY <1>1 DEF St!Lines, St!Header, St!Other, St!Empty, St!Frame
<1>4. /\ v.active => St!OfFirst(lines, i)
      /\ v.failed => \E k \in 1 .. (i - 1) : St!OfFirst(lines, k) /\ lines[k] = St!Empty
      /\ \A p \in 1 .. Len(v.stack) :
           \E k \in 1 .. (i - 1) : St!OfFirst(lines, k) /\ lines[k] = St!Frame(v.stack[p])
  BY <1>1 DEF Read
<1> HIDE DEF line
<1>5. ASSUME line = St!Header \/ (v.active /\ line[1] = "frame")
      PROVE  St!OfFirst(lines, i + 1)
  <2>1. CASE line = St!Header
    <3>1. i \in 1 .. ((i + 1) - 1) /\ \A k \in (i + 1) .. ((i + 1) - 1) : lines[k][1] = "frame"
      BY <1>1
    <3> QED BY <2>1, <3>1 DEF St!OfFirst, line
  <2>2. CASE v.active /\ line[1] = "frame"
    <3>1. PICK h \in 1 .. (i - 1) :
            lines[h] = St!Header /\ \A k \in (h + 1) .. (i - 1) : lines[k][1] = "frame"
      BY <1>4, <2>2 DEF St!OfFirst
    <3>2. h \in 1 .. ((i + 1) - 1)
      BY <1>1
    <3>3. ASSUME NEW k \in (h + 1) .. ((i + 1) - 1) PROVE lines[k][1] = "frame"
      <4>1. k = i \/ k \in (h + 1) .. (i - 1)
        BY <1>1
      <4> QED BY <2>2, <3>1, <4>1 DEF line
    <3> QED BY <3>1, <3>2, <3>3 DEF St!OfFirst
  <2> QED BY <1>5, <2>1, <2>2
<1>6. /\ new.active = (line = St!Header \/ (v.active /\ line[1] = "frame"))
      /\ new.failed = (v.failed \/ (v.active /\ line = St!Empty))
      /\ new.stack = IF v.active /\ line[1] = "frame" THEN Append(v.stack, line[2]) ELSE v.stack
  BY DEF St!ReadLine
<1> HIDE DEF new
<1>7. new.failed => \E k \in 1 .. i : St!OfFirst(lines, k) /\ lines[k] = St!Empty
  BY <1>1, <1>4, <1>6 DEF line
<1>8. ASSUME NEW p \in 1 .. Len(new.stack)
      PROVE  \E k \in 1 .. i : St!OfFirst(lines, k) /\ lines[k] = St!Frame(new.stack[p])
  <2>1. CASE ~(v.active /\ line[1] = "frame")
    BY <1>1, <1>4, <1>6, <1>8, <2>1
  <2>2. CASE v.active /\ line[1] = "frame"
    <3>1. new.stack = Append(v.stack, line[2]) /\ line = St!Frame(line[2])
      BY <1>3, <1>6, <2>2
    <3>2. \/ p \in 1 .. Len(v.stack) /\ new.stack[p] = v.stack[p]
          \/ p = Len(v.stack) + 1 /\ new.stack[p] = line[2]
      <4> DEFINE w == v.stack
                 x == line[2]
      <4>1. w \in Seq(V) /\ x \in V /\ p \in 1 .. Len(Append(w, x))
        BY <1>2, <1>3, <1>8, <2>2, <3>1
      <4> HIDE DEF w, x
      <4>2. \/ p \in 1 .. Len(w) /\ Append(w, x)[p] = w[p]
            \/ p = Len(w) + 1 /\ Append(w, x)[p] = x
        BY <4>1
      <4>3. new.stack = Append(w, x)
        BY <3>1 DEF w, x
      <4>4. \/ p \in 1 .. Len(w) /\ new.stack[p] = w[p]
            \/ p = Len(w) + 1 /\ new.stack[p] = x
        BY <4>2, <4>3
      <4> QED BY <4>4 DEF w, x
    <3> QED BY <1>1, <1>4, <2>2, <3>1, <3>2 DEF line
  <2> QED BY <2>1, <2>2
<1> QED BY <1>5, <1>6, <1>7, <1>8 DEF Read, new, line

LEMMA FileRead ==
  ASSUME NEW V, NEW lines \in Seq(St!Lines(V))
  PROVE  St!ReadFile(lines) \in Reading(V) /\ Read(St!ReadFile(lines), lines, Len(lines))
<1> DEFINE n == Len(lines)
           none == [stack |-> <<>>, active |-> FALSE, failed |-> FALSE]
<1>1. PICK r \in [0 .. n -> Reading(V)] :
        /\ r[0] = none
        /\ \A i \in 1 .. n : r[i] = St!ReadLine(r[i - 1], lines[i])
        /\ r[n] = St!ReadFile(lines)
  BY ReadRuns
<1>2. n \in Nat /\ n \in 0 .. n /\ 0 \in 0 .. n
  OBVIOUS
<1> DEFINE B == {i \in 0 .. n : Read(r[i], lines, i)}
<1>3. 0 \in B
  <2>1. none.active = FALSE /\ none.failed = FALSE /\ 1 .. Len(none.stack) = {}
    OBVIOUS
  <2> HIDE DEF none
  <2>2. Read(none, lines, 0)
    BY <2>1 DEF Read
  <2> QED BY <1>1, <1>2, <2>2
<1>4. ASSUME NEW i \in 1 .. n, i - 1 \in B PROVE i \in B
  <2>1. /\ i - 1 \in 0 .. n /\ i \in 0 .. n
    BY <1>2
  <2> DEFINE v == r[i - 1]
  <2>2. v \in Reading(V) /\ Read(v, lines, i - 1) /\ r[i] = St!ReadLine(v, lines[i])
    BY <1>1, <1>4, <2>1
  <2> HIDE DEF v, B
  <2>3. Read(r[i], lines, i)
    BY <2>2, LineRead
  <2> QED BY <2>1, <2>3 DEF B
<1>5. n \in B
  <2> HIDE DEF B, n
  <2>1. \A i \in 0 .. n : i \in B
    BY <1>2, <1>3, <1>4, StepByStep
  <2> QED BY <1>2, <2>1
<1> QED BY <1>1, <1>2, <1>5

\* What a file is read as: a stack of the calls of its first thread, from the outermost
\* on; the reading fails only at an empty line right behind them.
LEMMA ParseTyped ==
  ASSUME NEW V, NEW lines \in Seq(St!Lines(V))
  PROVE  /\ St!parseFile(lines) \in Seq(V)
         /\ \A f \in St!ToSet(St!parseFile(lines)) :
              \E k \in DOMAIN lines : St!OfFirst(lines, k) /\ lines[k] = St!Frame(f)
         /\ St!Ended(lines) => ~St!ReadFile(lines).failed
<1> DEFINE done == St!ReadFile(lines)
           s == done.stack
           n == Len(s)
           back == [i \in 1 .. n |-> s[(n - i) + 1]]
<1>1. done \in Reading(V) /\ Read(done, lines, Len(lines)) /\ DOMAIN lines = 1 .. Len(lines)
  BY FileRead
<1> HIDE DEF done
<1>2. s \in Seq(V)
  BY <1>1 DEF Reading
<1>3. /\ done.failed => \E k \in 1 .. Len(lines) : St!OfFirst(lines, k) /\ lines[k] = St!Empty
      /\ \A p \in 1 .. n : \E k \in 1 .. Len(lines) : St!OfFirst(lines, k) /\ lines[k] = St!Frame(s[p])
  BY <1>1 DEF Read
<1> HIDE DEF s
<1>4. /\ n \in Nat /\ \A i \in 1 .. n : s[(n - i) + 1] \in V /\ (n - i) + 1 \in 1 .. n
  BY <1>2
<1>5. back \in Seq(V) /\ St!parseFile(lines) = back /\ DOMAIN back = 1 .. n
  <2>1. St!parseFile(lines) = back
    BY DEF St!parseFile, St!Reverse, s, done
  <2> HIDE DEF n
  <2> QED BY <1>4, <2>1
<1>6. ASSUME NEW f \in St!ToSet(back)
      PROVE  \E k \in DOMAIN lines : St!OfFirst(lines, k) /\ lines[k] = St!Frame(f)
  <2>1. PICK i \in 1 .. n : f = s[(n - i) + 1]
    BY <1>5 DEF St!ToSet
  <2> HIDE DEF n
  <2> QED BY <1>1, <1>3, <1>4, <2>1
<1>7. St!Ended(lines) => ~done.failed
  BY <1>1, <1>3 DEF St!Ended
<1> HIDE DEF back
<1> QED BY <1>5, <1>6, <1>7 DEF done

\* The stacks and who has them; the tree of the calls.
Unique(V) == [stack : Seq(V), ranks : Seq(Nat)]
Uniques(V) == Seq(Unique(V))
Counted == [count : Nat, ranks : Seq(Nat)]
Trees(V) == UNION {[P -> Counted] : P \in SUBSET Seq(V)}

\* The rank of a stack goes to the one that is there, or is the first of a new one.
SeenAgain(u, k, rank) == [u EXCEPT ![k].ranks = Append(u[k].ranks, rank)]
SeenFirst(u, stack, rank) == Append(u, [stack |-> stack, ranks |-> <<rank>>])
\* A stack that was seen gets one more rank, another one is appended.
LEMMA SeenIs ==
  ASSUME NEW V, NEW u \in Uniques(V), NEW stack, NEW rank
  PROVE  \/ \E k \in 1 .. Len(u) : /\ u[k].stack = stack
                                  /\ St!Seen(u, stack, rank) = SeenAgain(u, k, rank)
         \/ /\ \A k \in 1 .. Len(u) : u[k].stack # stack
            /\ St!Seen(u, stack, rank) = SeenFirst(u, stack, rank)
<1> DEFINE at == {k \in DOMAIN u : u[k].stack = stack}
           n == Len(u)
<1>1. n \in Nat /\ at \in SUBSET (1 .. n) /\ DOMAIN u = 1 .. n
  BY DEF Uniques
<1>2. CASE at = {}
  <2>1. St!Seen(u, stack, rank) = SeenFirst(u, stack, rank)
    BY <1>2, Zenon DEF St!Seen, SeenFirst
  <2>2. \A k \in 1 .. Len(u) : u[k].stack # stack
    BY <1>1, <1>2
  <2> QED BY <2>1, <2>2
<1>3. CASE at # {}
  <2> HIDE DEF at
  <2>1. Max(at) \in at
    BY <1>1, <1>3, GreatestExists
  <2>2. St!Max(at) = Max(at)
    BY DEF St!Max, Max
  <2>3. St!Seen(u, stack, rank) = SeenAgain(u, St!Max(at), rank)
    BY <1>3, Zenon DEF St!Seen, SeenAgain, at
  <2>4. Max(at) \in 1 .. Len(u) /\ u[Max(at)].stack = stack
    BY <1>1, <2>1 DEF at
  <2> QED BY <2>2, <2>3, <2>4
<1> QED BY <1>2, <1>3

\* Its list is one of stacks and ranks again.
LEMMA SeenTyped ==
  ASSUME NEW V, NEW u \in Uniques(V), NEW stack \in Seq(V), NEW rank \in Nat
  PROVE  St!Seen(u, stack, rank) \in Uniques(V)
<1>1. ASSUME NEW k \in 1 .. Len(u) PROVE SeenAgain(u, k, rank) \in Uniques(V)
  <2>1. u \in Seq(Unique(V)) /\ k \in DOMAIN u /\ u[k] \in Unique(V)
    BY DEF Uniques
  <2>2. u[k].ranks \in Seq(Nat) /\ u[k].stack \in Seq(V)
    BY <2>1 DEF Unique
  <2> DEFINE a == [u[k] EXCEPT !.ranks = Append(u[k].ranks, rank)]
  <2>3. a \in Unique(V)
    <3>1. Append(u[k].ranks, rank) \in Seq(Nat)
      BY <2>2
    <3> DEFINE longer == Append(u[k].ranks, rank)
    <3> HIDE DEF longer
    <3>2. longer \in Seq(Nat)
      BY <3>1 DEF longer
    <3>3. [u[k] EXCEPT !.ranks = longer] \in Unique(V)
      BY <2>1, <2>2, <3>2 DEF Unique
    <3> QED BY <3>3 DEF longer
  <2>4. SeenAgain(u, k, rank) = [u EXCEPT ![k] = a]
    BY <2>1 DEF SeenAgain
  <2> HIDE DEF a
  <2>5. [u EXCEPT ![k] = a] \in Seq(Unique(V))
    BY <2>1, <2>3
  <2> QED BY <2>4, <2>5 DEF Uniques
<1>2. SeenFirst(u, stack, rank) \in Uniques(V)
  <2>1. [stack |-> stack, ranks |-> <<rank>>] \in Unique(V)
    BY DEF Unique
  <2> QED BY <2>1 DEF SeenFirst, Uniques
<1> QED BY <1>1, <1>2, SeenIs

\* The tree begins with its root.
LEMMA RootTyped ==
  ASSUME NEW V
  PROVE  [p \in {St!Root} |-> St!Node(0, <<>>)] \in Trees(V)
<1>1. St!Node(0, <<>>) \in Counted /\ {St!Root} \in SUBSET Seq(V)
  BY DEF St!Node, St!Root, Counted
<1>2. [p \in {St!Root} |-> St!Node(0, <<>>)] \in [{St!Root} -> Counted]
  BY <1>1
<1> HIDE DEF Counted
<1> QED BY <1>1, <1>2 DEF Trees

\* The paths of a stack are what it begins with.
LEMMA PathsAre ==
  ASSUME NEW V, NEW stack \in Seq(V)
  PROVE  /\ St!Paths(stack) \subseteq Seq(V) /\ St!Root \in St!Paths(stack)
         /\ \A p \in Seq(V) : p \in St!Paths(stack) <=> St!IsPrefix(p, stack)
<1>1. Len(stack) \in Nat
  OBVIOUS
<1>2. ASSUME NEW m \in 0 .. Len(stack)
      PROVE  SubSeq(stack, 1, m) \in Seq(V) /\ Len(SubSeq(stack, 1, m)) = m
             /\ \A i \in 1 .. m : SubSeq(stack, 1, m)[i] = stack[i]
  BY <1>1
<1>3. SubSeq(stack, 1, 0) = <<>> /\ 0 \in 0 .. Len(stack)
  BY <1>1
<1>4. ASSUME NEW p \in Seq(V), p \in St!Paths(stack) PROVE St!IsPrefix(p, stack)
  <2>1. PICK m \in 0 .. Len(stack) : p = SubSeq(stack, 1, m)
    BY <1>4 DEF St!Paths
  <2>2. Len(p) = m /\ Len(p) <= Len(stack)
    BY <1>2, <2>1
  <2>3. SubSeq(p, 1, Len(p)) = p
    OBVIOUS
  <2> QED BY <2>1, <2>2, <2>3 DEF St!IsPrefix
<1>5. ASSUME NEW p \in Seq(V), St!IsPrefix(p, stack) PROVE p \in St!Paths(stack)
  <2>1. SubSeq(p, 1, Len(p)) = p /\ Len(p) \in 0 .. Len(stack)
    BY <1>5 DEF St!IsPrefix
  <2> QED BY <1>5, <2>1 DEF St!IsPrefix, St!Paths
<1> QED BY <1>2, <1>3, <1>4, <1>5 DEF St!Paths, St!Root

\* A node that the walk comes to has the ranks of the stack behind its own.
Visited(w, t, p, u) ==
  /\ w \in Counted
  /\ p \notin DOMAIN t => w.ranks = u.ranks /\ w.count = Len(u.ranks)
  /\ p \in DOMAIN t => /\ t[p] \in Counted /\ w.ranks = t[p].ranks \o u.ranks
                       /\ w.count = t[p].count + Len(u.ranks)

\* Visiting a node adds the ranks of the stack to it, or makes it with these.
LEMMA VisitIs ==
  ASSUME NEW V, NEW t \in Trees(V), NEW u \in Unique(V), NEW p \in St!Paths(u.stack)
  PROVE  Visited(St!Visit(t, p, u), t, p, u)
<1>1. u.ranks \in Seq(Nat) /\ Len(u.ranks) \in Nat
  BY DEF Unique
<1>2. CASE p \notin DOMAIN t
  <2>1. St!Visit(t, p, u) = [count |-> Len(u.ranks), ranks |-> u.ranks]
    BY <1>2, Zenon DEF St!Visit, St!Node
  <2>2. St!Visit(t, p, u).count = Len(u.ranks) /\ St!Visit(t, p, u).ranks = u.ranks
    BY <2>1
  <2>3. St!Visit(t, p, u) \in Counted
    BY <1>1, <2>1 DEF Counted
  <2> QED BY <1>2, <2>2, <2>3 DEF Visited
<1>3. CASE p \in DOMAIN t
  <2>1. St!Visit(t, p, u) = [count |-> t[p].count + Len(u.ranks), ranks |-> t[p].ranks \o u.ranks]
    BY <1>3, Zenon DEF St!Visit, St!Node
  <2>2. t[p] \in Counted
    <3> HIDE DEF Counted
    <3> QED BY <1>3 DEF Trees
  <2>3. t[p].count \in Nat /\ t[p].ranks \in Seq(Nat)
    BY <2>2 DEF Counted
  <2>4. t[p].count + Len(u.ranks) \in Nat /\ t[p].ranks \o u.ranks \in Seq(Nat)
    BY <1>1, <2>3
  <2>5. St!Visit(t, p, u) \in Counted /\ St!Visit(t, p, u).ranks = t[p].ranks \o u.ranks
        /\ St!Visit(t, p, u).count = t[p].count + Len(u.ranks)
    <3> DEFINE c == t[p].count + Len(u.ranks)
               a == t[p].ranks \o u.ranks
    <3>1. St!Visit(t, p, u) = [count |-> c, ranks |-> a] /\ c \in Nat /\ a \in Seq(Nat)
      BY <2>1, <2>4
    <3> HIDE DEF c, a
    <3>2. St!Visit(t, p, u) \in Counted /\ St!Visit(t, p, u).ranks = a /\ St!Visit(t, p, u).count = c
      BY <3>1 DEF Counted
    <3> QED BY <3>2 DEF c, a
  <2> QED BY <1>3, <2>2, <2>5 DEF Visited
<1> QED BY <1>2, <1>3

\* Walking leaves a tree.
LEMMA WalkTyped ==
  ASSUME NEW V, NEW t \in Trees(V), NEW u \in Unique(V)
  PROVE  St!Walk(t, u) \in Trees(V)
<1> DEFINE P == DOMAIN t \cup St!Paths(u.stack)
<1>1. u.stack \in Seq(V)
  BY DEF Unique
<1>2. P \in SUBSET Seq(V)
  BY <1>1, PathsAre DEF Trees
<1>3. ASSUME NEW p \in P
      PROVE  (IF p \in St!Paths(u.stack) THEN St!Visit(t, p, u) ELSE t[p]) \in Counted
  <2> HIDE DEF Counted
  <2>1. CASE p \in St!Paths(u.stack)
    BY <2>1, VisitIs DEF Visited
  <2>2. CASE p \notin St!Paths(u.stack)
    BY <2>2 DEF Trees
  <2> QED BY <2>1, <2>2
<1> HIDE DEF Counted
<1>4. St!Walk(t, u) \in [P -> Counted]
  BY <1>3 DEF St!Walk
<1> HIDE DEF P
<1> QED BY <1>2, <1>4 DEF Trees

\* The spans of a label are lists of two ranks.
LEMMA ExtendTyped ==
  ASSUME NEW s \in Seq(Nat \X Nat), NEW x \in Nat
  PROVE  St!Extend(s, x) \in Seq(Nat \X Nat)
<1>1. <<x, x>> \in Nat \X Nat
  OBVIOUS
<1>2. CASE ~(s # <<>> /\ St!Last(s)[2] = x - 1)
  <2>1. St!Extend(s, x) = Append(s, <<x, x>>)
    BY <1>2, Zenon DEF St!Extend
  <2> QED BY <1>1, <2>1
<1>3. CASE s # <<>> /\ St!Last(s)[2] = x - 1
  <2> DEFINE n == Len(s)
             W == Nat \X Nat
  <2>1. St!Extend(s, x) = [s EXCEPT ![Len(s)] = <<s[Len(s)][1], x>>]
    BY <1>3 DEF St!Extend
  <2>2. n \in Nat /\ n \in 1 .. n /\ DOMAIN s = 1 .. n
    BY <1>3
  <2>3. s[n] \in W
    BY <2>2
  <2>4. <<s[n][1], x>> \in W
    BY <2>3
  <2> DEFINE a == <<s[n][1], x>>
  <2>5. s \in Seq(W) /\ a \in W
    BY <2>4
  <2> HIDE DEF a, W
  <2>6. [s EXCEPT ![n] = a] \in Seq(W)
    BY <2>2, <2>5
  <2> QED BY <2>1, <2>6 DEF a, W
<1> QED BY <1>2, <1>3

\* The stacks of the files, one after the other.
LEMMA FindUniqueRuns ==
  ASSUME NEW V, NEW stacks \in Seq(Seq(V))
  PROVE  \E r \in [0 .. Len(stacks) -> Uniques(V)] :
           /\ r[0] = <<>>
           /\ \A i \in 1 .. Len(stacks) : r[i] = St!Seen(r[i - 1], stacks[i], i - 1)
           /\ r[Len(stacks)] = St!findUnique(stacks)
<1> DEFINE n == Len(stacks)
           base == <<>>
           seq == [i \in DOMAIN stacks |-> i]
           step == [p \in (1 .. n) \X Uniques(V) |-> St!Seen(p[2], stacks[p[1]], p[1] - 1)]
           Body(g) == [s \in SUBSET DOMAIN seq |->
                         IF s = {} THEN base ELSE St!Seen(g[s \ {Max(s)}], stacks[seq[Max(s)]], seq[Max(s)] - 1)]
           g == CHOOSE g : g = Body(g)
<1>1. n \in Nat /\ DOMAIN seq = 1 .. n
  OBVIOUS
<1>2. base \in Uniques(V)
  BY DEF Uniques
<1>3. step \in [(1 .. n) \X Uniques(V) -> Uniques(V)]
      /\ \A i \in 1 .. n, v \in Uniques(V) : step[<<i, v>>] = St!Seen(v, stacks[i], i - 1)
  <2>1. ASSUME NEW i \in 1 .. n, NEW v \in Uniques(V)
        PROVE  St!Seen(v, stacks[i], i - 1) \in Uniques(V)
    <5>1. stacks[i] \in Seq(V) /\ i - 1 \in Nat
      OBVIOUS
    <5> QED BY <5>1, SeenTyped
  <2> QED BY <2>1
<1>4. PICK h : Folding(h, n, Uniques(V), base, step)
  <2> HIDE DEF step, base
  <2> QED BY <1>1, <1>2, <1>3, FoldExists
<1>5. h = Body(h)
  <2>1. \A s \in SUBSET DOMAIN seq : h[s] = Body(h)[s]
    <3> TAKE s \in SUBSET DOMAIN seq
    <3>1. s = {} => h[s] = base
      BY <1>1, <1>4 DEF Folding, Behind
    <3>2. CASE s # {}
      <4>1. /\ Max(s) \in 1 .. n /\ s \ {Max(s)} \in SUBSET (1 .. n)
        BY <1>1, <3>2, GreatestExists
      <4>2. h[s] = step[<<Max(s), h[s \ {Max(s)}]>>] /\ h[s \ {Max(s)}] \in Uniques(V)
        <5> HIDE DEF step, base, seq
        <5> QED BY <1>1, <1>4, <3>2, <4>1 DEF Folding, Behind
      <4>3. h[s] = St!Seen(h[s \ {Max(s)}], stacks[Max(s)], Max(s) - 1)
        <5> HIDE DEF step, base
        <5> QED BY <1>3, <4>1, <4>2
      <4> HIDE DEF step, base
      <4> QED BY <3>2, <4>1, <4>3
    <3> HIDE DEF step, base
    <3> QED BY <3>1, <3>2
  <2>2. DOMAIN h = SUBSET DOMAIN seq
    <3> HIDE DEF step, base
    <3> QED BY <1>1, <1>4 DEF Folding
  <2>3. h = [s \in DOMAIN h |-> h[s]]
    <3> HIDE DEF step, base
    <3> QED BY <1>4 DEF Folding
  <2> HIDE DEF step, base
  <2> QED BY <2>1, <2>2, <2>3
<1>6. g = Body(g)
  BY <1>5
<1>7. St!findUnique(stacks) = g[1 .. n]
  BY <1>1 DEF St!findUnique, St!FoldLeft, St!MapThenFoldSet, St!Max, Max
<1>8. g[{}] = base
  <2> HIDE DEF base, g
  <2> QED BY <1>1, <1>6
<1>9. ASSUME NEW s \in SUBSET (1 .. n), s # {}, g[s \ {Max(s)}] \in Uniques(V)
      PROVE  g[s] = step[<<Max(s), g[s \ {Max(s)}]>>]
  <2>0. Max(s) \in 1 .. n
    BY <1>1, <1>9, GreatestExists
  <2>1. g[s] = St!Seen(g[s \ {Max(s)}], stacks[Max(s)], Max(s) - 1)
    <3> HIDE DEF base, g
    <3> QED BY <1>1, <1>6, <1>9, <2>0
  <2> HIDE DEF base, g, step, seq
  <2> QED BY <1>3, <1>9, <2>0, <2>1
<1> DEFINE r == [i \in 0 .. n |-> g[1 .. i]]
<1>10. Running(r, n, Uniques(V), base, step)
  <2> HIDE DEF g, base, step, seq
  <2>1. step \in [(1 .. n) \X Uniques(V) -> Uniques(V)]
    BY <1>3
  <2>2. \A s \in SUBSET (1 .. n) : s # {} /\ g[s \ {Max(s)}] \in Uniques(V)
                                     => g[s] = step[<<Max(s), g[s \ {Max(s)}]>>]
    BY <1>9
  <2>3. n \in Nat
    BY <1>1
  <2> HIDE DEF n
  <2>4. Running([i \in 0 .. n |-> g[1 .. i]], n, Uniques(V), base, step)
    BY <1>2, <1>8, <2>1, <2>2, <2>3, FoldRuns
  <2> QED BY <2>4
<1>11. r \in [0 .. n -> Uniques(V)] /\ r[0] = base /\ r[n] = g[1 .. n]
       /\ \A i \in 1 .. n : r[i] = step[<<i, r[i - 1]>>] /\ i - 1 \in 0 .. n
  <2>1. r[n] = g[1 .. n] /\ \A i \in 1 .. n : i - 1 \in 0 .. n
    BY <1>1
  <2> HIDE DEF r, g, base, step
  <2> QED BY <1>10, <2>1 DEF Running
<1>12. \A i \in 1 .. n : r[i] = St!Seen(r[i - 1], stacks[i], i - 1)
  <2> HIDE DEF r, step
  <2> QED BY <1>3, <1>11
<1> HIDE DEF r, g
<1> QED BY <1>7, <1>11, <1>12

\* A list that has each of its numbers once, and what it has.
Holds(list, x) == \E j \in 1 .. Len(list) : list[j] = x
Once(list) == \A i, j \in 1 .. Len(list) : list[i] = list[j] => i = j

\* Lists that share no number make one that has each once.
LEMMA OnceBehind ==
  ASSUME NEW a \in Seq(Nat), NEW b \in Seq(Nat), Once(a), Once(b),
         \A x : ~(Holds(a, x) /\ Holds(b, x))
  PROVE  /\ a \o b \in Seq(Nat) /\ Once(a \o b) /\ Len(a \o b) = Len(a) + Len(b)
         /\ \A x : Holds(a \o b, x) <=> Holds(a, x) \/ Holds(b, x)
<1> DEFINE m == Len(a)
           n == Len(b)
           c == a \o b
<1>1. /\ m \in Nat /\ n \in Nat /\ c \in Seq(Nat) /\ Len(c) = m + n
      /\ \A i \in 1 .. m : i \in 1 .. (m + n) /\ c[i] = a[i]
      /\ \A i \in 1 .. n : m + i \in 1 .. (m + n) /\ c[m + i] = b[i]
  OBVIOUS
<1> HIDE DEF c
<1>2. ASSUME NEW i \in 1 .. (m + n)
      PROVE  i \in 1 .. m \/ \E k \in 1 .. n : i = m + k
  <2>1. CASE i <= m
    BY <1>1, <2>1
  <2>2. CASE i > m
    <3>1. i - m \in 1 .. n /\ i = m + (i - m)
      BY <1>1, <2>2
    <3> QED BY <3>1
  <2> QED BY <1>1, <2>1, <2>2
<1>3. ASSUME NEW x PROVE Holds(c, x) <=> Holds(a, x) \/ Holds(b, x)
  <2> HIDE DEF m, n
  <2>1. Holds(c, x) <=> \E j \in 1 .. (m + n) : c[j] = x
    BY <1>1 DEF Holds
  <2>2. (Holds(a, x) <=> \E j \in 1 .. m : a[j] = x) /\ (Holds(b, x) <=> \E j \in 1 .. n : b[j] = x)
    BY DEF Holds, m, n
  <2>3. ASSUME NEW j \in 1 .. (m + n), c[j] = x PROVE Holds(a, x) \/ Holds(b, x)
    <3>1. CASE j \in 1 .. m
      <4>1. a[j] = x
        BY <1>1, <2>3, <3>1
      <4> QED BY <2>2, <3>1, <4>1
    <3>2. CASE \E k \in 1 .. n : j = m + k
      <4>1. PICK k \in 1 .. n : j = m + k
        BY <3>2
      <4>2. b[k] = x
        BY <1>1, <2>3, <4>1
      <4> QED BY <2>2, <4>2
    <3> QED BY <1>2, <3>1, <3>2
  <2>4. ASSUME NEW j \in 1 .. m, a[j] = x PROVE Holds(c, x)
    <3>1. j \in 1 .. (m + n) /\ c[j] = x
      BY <1>1, <2>4
    <3> QED BY <2>1, <3>1
  <2>5. ASSUME NEW k \in 1 .. n, b[k] = x PROVE Holds(c, x)
    <3>1. m + k \in 1 .. (m + n) /\ c[m + k] = x
      BY <1>1, <2>5
    <3> QED BY <2>1, <3>1
  <2> QED BY <2>1, <2>2, <2>3, <2>4, <2>5
<1>4. Once(c)
  <2> SUFFICES ASSUME NEW i \in 1 .. (m + n), NEW j \in 1 .. (m + n), c[i] = c[j] PROVE i = j
    BY <1>1 DEF Once
  <2>1. \A k \in 1 .. m : Holds(a, c[k])
    BY <1>1 DEF Holds
  <2>2. \A k \in 1 .. n : Holds(b, c[m + k])
    BY <1>1 DEF Holds
  <2>3. \A k, l \in 1 .. m : c[k] = c[l] => k = l
    BY <1>1 DEF Once
  <2>4. \A k, l \in 1 .. n : c[m + k] = c[m + l] => k = l
    BY <1>1 DEF Once
  <2> HIDE DEF m, n
  <2>5. CASE i \in 1 .. m /\ j \in 1 .. m
    BY <2>3, <2>5
  <2>6. CASE i \in 1 .. m /\ \E k \in 1 .. n : j = m + k
    BY <2>1, <2>2, <2>6
  <2>7. CASE (\E k \in 1 .. n : i = m + k) /\ j \in 1 .. m
    BY <2>1, <2>2, <2>7
  <2>8. CASE (\E k \in 1 .. n : i = m + k) /\ \E k \in 1 .. n : j = m + k
    BY <2>4, <2>8
  <2> QED BY <1>2, <2>5, <2>6, <2>7, <2>8
<1> QED BY <1>1, <1>3, <1>4 DEF c

\* So does one more number.
LEMMA OnceMore ==
  ASSUME NEW a \in Seq(Nat), Once(a), NEW x \in Nat, ~Holds(a, x)
  PROVE  /\ Append(a, x) \in Seq(Nat) /\ Once(Append(a, x))
         /\ \A y : Holds(Append(a, x), y) <=> Holds(a, y) \/ y = x
<1>1. /\ <<x>> \in Seq(Nat) /\ Len(<<x>>) = 1 /\ <<x>>[1] = x
      /\ Append(a, x) = a \o <<x>> /\ 1 \in 1 .. 1 /\ \A i \in 1 .. 1 : i = 1
  OBVIOUS
<1> DEFINE b == <<x>>
<1>2. /\ b \in Seq(Nat) /\ Len(b) = 1 /\ b[1] = x /\ Append(a, x) = a \o b
  BY <1>1
<1> HIDE DEF b
<1>3. Once(b) /\ \A y : Holds(b, y) <=> y = x
  BY <1>1, <1>2 DEF Once, Holds
<1> QED BY <1>2, <1>3, OnceBehind

\* What there is of the first i files: each stack once, with the ranks that have it.
Found(u, stacks, i) ==
  /\ \A k, l \in 1 .. Len(u) : u[k].stack = u[l].stack => k = l
  /\ \A k \in 1 .. Len(u) :
       /\ Once(u[k].ranks) /\ \E x : Holds(u[k].ranks, x)
       /\ \A x : Holds(u[k].ranks, x) <=> x \in 0 .. (i - 1) /\ stacks[x + 1] = u[k].stack
  /\ \A x \in 0 .. (i - 1) : \E k \in 1 .. Len(u) : u[k].stack = stacks[x + 1]

\* The ranks up to one are those before it, and itself.
LEMMA UpToTheLast ==
  ASSUME NEW i \in Nat, i - 1 \in Nat
  PROVE  /\ \A x : x \in 0 .. (i - 1) <=> x \in 0 .. (i - 1 - 1) \/ x = i - 1
         /\ i - 1 \notin 0 .. (i - 1 - 1) /\ (i - 1) + 1 = i
OBVIOUS

\* A file whose stack is there adds its rank.
LEMMA FoundAgain ==
  ASSUME NEW V, NEW stacks \in Seq(Seq(V)), NEW i \in 1 .. Len(stacks), NEW u \in Uniques(V),
         Found(u, stacks, i - 1), NEW k \in 1 .. Len(u), u[k].stack = stacks[i]
  PROVE  Found(SeenAgain(u, k, i - 1), stacks, i)
<1> DEFINE n == Len(u)
           new == SeenAgain(u, k, i - 1)
           more == Append(u[k].ranks, i - 1)
<1>0. /\ n \in Nat /\ DOMAIN u = 1 .. n /\ i - 1 \in Nat /\ i \in Nat
      /\ \A l \in 1 .. n : u[l] \in Unique(V)
  BY DEF Uniques
<1>1. /\ n \in Nat /\ DOMAIN u = 1 .. n /\ i - 1 \in Nat /\ i \in Nat
      /\ \A l \in 1 .. n : u[l] \in Unique(V)
      /\ \A x : x \in 0 .. (i - 1) <=> x \in 0 .. (i - 1 - 1) \/ x = i - 1
      /\ i - 1 \notin 0 .. (i - 1 - 1) /\ (i - 1) + 1 = i
  BY <1>0, UpToTheLast
<1>2. \A l \in 1 .. n : u[l].ranks \in Seq(Nat)
  BY <1>1 DEF Unique
<1>3. /\ Len(new) = n /\ \A l \in 1 .. n : new[l].stack = u[l].stack
      /\ \A l \in 1 .. n : l # k => new[l].ranks = u[l].ranks
      /\ new[k].ranks = more
  <2> HIDE DEF more
  <2>1. new = [u EXCEPT ![k].ranks = more]
    BY DEF SeenAgain, more
  <2>2. u \in Seq(Unique(V))
    BY DEF Uniques
  <2>3. Len(new) = n
    BY <2>1, <2>2
  <2>4. u[k] \in Unique(V) /\ k \in DOMAIN u
    BY <1>1
  <2>5. new[k] = [u[k] EXCEPT !.ranks = more] /\ \A l \in 1 .. n : l # k => new[l] = u[l]
    BY <1>1, <2>1
  <2>6. new[k].ranks = more /\ new[k].stack = u[k].stack
    BY <2>4, <2>5 DEF Unique
  <2> QED BY <2>3, <2>5, <2>6
<1> HIDE DEF n
<1>4. /\ \A l, o \in 1 .. n : u[l].stack = u[o].stack => l = o
      /\ \A l \in 1 .. n :
           /\ Once(u[l].ranks) /\ \E x : Holds(u[l].ranks, x)
           /\ \A x : Holds(u[l].ranks, x) <=> x \in 0 .. (i - 1 - 1) /\ stacks[x + 1] = u[l].stack
      /\ \A x \in 0 .. (i - 1 - 1) : \E l \in 1 .. n : u[l].stack = stacks[x + 1]
      /\ k \in 1 .. n
  BY DEF Found, n
<1>5. /\ Once(more)
      /\ \A y : Holds(more, y) <=> Holds(u[k].ranks, y) \/ y = i - 1
  <2>1. u[k].ranks \in Seq(Nat) /\ ~Holds(u[k].ranks, i - 1) /\ Once(u[k].ranks)
    BY <1>1, <1>2, <1>4
  <2> QED BY <1>1, <2>1, OnceMore
<1> HIDE DEF more, new
<1>6. ASSUME NEW l \in 1 .. n
      PROVE  /\ Once(new[l].ranks) /\ \E x : Holds(new[l].ranks, x)
             /\ \A x : Holds(new[l].ranks, x) <=> x \in 0 .. (i - 1) /\ stacks[x + 1] = new[l].stack
  <2>1. CASE l = k
    BY <1>1, <1>3, <1>4, <1>5, <2>1
  <2>2. CASE l # k
    <3>1. u[l].stack # stacks[i]
      BY <1>4, <2>2
    <3> QED BY <1>1, <1>3, <1>4, <2>2, <3>1
  <2> QED BY <2>1, <2>2
<1>7. ASSUME NEW x \in 0 .. (i - 1) PROVE \E l \in 1 .. n : new[l].stack = stacks[x + 1]
  <2>1. CASE x = i - 1
    BY <1>1, <1>3, <1>4, <2>1
  <2>2. CASE x \in 0 .. (i - 1 - 1)
    BY <1>3, <1>4, <2>2
  <2> QED BY <1>1, <2>1, <2>2
<1>8. \A l, o \in 1 .. n : new[l].stack = new[o].stack => l = o
  BY <1>3, <1>4
<1>9. Found(new, stacks, i)
  BY <1>3, <1>6, <1>7, <1>8 DEF Found
<1> QED BY <1>9 DEF new

\* A file with a new stack begins it.
LEMMA FoundFirst ==
  ASSUME NEW V, NEW stacks \in Seq(Seq(V)), NEW i \in 1 .. Len(stacks), NEW u \in Uniques(V),
         Found(u, stacks, i - 1), \A k \in 1 .. Len(u) : u[k].stack # stacks[i]
  PROVE  Found(SeenFirst(u, stacks[i], i - 1), stacks, i)
<1> DEFINE n == Len(u)
           one == [stack |-> stacks[i], ranks |-> <<i - 1>>]
           new == SeenFirst(u, stacks[i], i - 1)
<1>0. n \in Nat /\ DOMAIN u = 1 .. n /\ i - 1 \in Nat /\ i \in Nat
  BY DEF Uniques
<1>1. /\ n \in Nat /\ DOMAIN u = 1 .. n /\ i - 1 \in Nat /\ i \in Nat
      /\ \A x : x \in 0 .. (i - 1) <=> x \in 0 .. (i - 1 - 1) \/ x = i - 1
      /\ i - 1 \notin 0 .. (i - 1 - 1) /\ (i - 1) + 1 = i
      /\ \A l : l \in 1 .. (n + 1) <=> l \in 1 .. n \/ l = n + 1
      /\ n + 1 \notin 1 .. n /\ n + 1 \in 1 .. (n + 1)
  <2> HIDE DEF n
  <2>1. /\ \A l : l \in 1 .. (n + 1) <=> l \in 1 .. n \/ l = n + 1
        /\ n + 1 \notin 1 .. n /\ n + 1 \in 1 .. (n + 1)
    BY <1>0
  <2> QED BY <1>0, <2>1, UpToTheLast
<1>2. /\ Len(new) = n + 1 /\ \A l \in 1 .. n : new[l] = u[l]
      /\ new[n + 1].stack = stacks[i] /\ new[n + 1].ranks = <<i - 1>>
  <2>1. one \in Unique(V) /\ u \in Seq(Unique(V)) /\ new = Append(u, one)
    BY <1>1 DEF Unique, Uniques, SeenFirst
  <2>2. Len(Append(u, one)) = n + 1 /\ Append(u, one)[n + 1] = one
        /\ \A l \in 1 .. n : Append(u, one)[l] = u[l]
    <3> HIDE DEF one
    <3> QED BY <2>1
  <2>3. one.stack = stacks[i] /\ one.ranks = <<i - 1>>
    OBVIOUS
  <2> HIDE DEF one
  <2> QED BY <2>1, <2>2, <2>3
<1>3. Once(<<i - 1>>) /\ \A y : Holds(<<i - 1>>, y) <=> y = i - 1
  BY DEF Once, Holds
<1> HIDE DEF n, new
<1>4. /\ \A l, o \in 1 .. n : u[l].stack = u[o].stack => l = o
      /\ \A l \in 1 .. n :
           /\ Once(u[l].ranks) /\ u[l].stack # stacks[i] /\ \E x : Holds(u[l].ranks, x)
           /\ \A x : Holds(u[l].ranks, x) <=> x \in 0 .. (i - 1 - 1) /\ stacks[x + 1] = u[l].stack
      /\ \A x \in 0 .. (i - 1 - 1) : \E l \in 1 .. n : u[l].stack = stacks[x + 1]
  BY DEF Found, n
<1>5. ASSUME NEW x \in 0 .. (i - 1 - 1) PROVE stacks[x + 1] # stacks[i]
  <2>1. PICK l \in 1 .. n : u[l].stack = stacks[x + 1]
    BY <1>4
  <2> QED BY <1>4, <2>1
<1>6. ASSUME NEW l \in 1 .. (n + 1)
      PROVE  /\ Once(new[l].ranks) /\ \E x : Holds(new[l].ranks, x)
             /\ \A x : Holds(new[l].ranks, x) <=> x \in 0 .. (i - 1) /\ stacks[x + 1] = new[l].stack
  <2>1. CASE l = n + 1
    <3>1. \A x : Holds(new[l].ranks, x) <=> x = i - 1
      BY <1>2, <1>3, <2>1
    <3>2. Once(new[l].ranks) /\ new[l].stack = stacks[i]
      BY <1>2, <1>3, <2>1
    <3>3. \A x : x = i - 1 <=> x \in 0 .. (i - 1) /\ stacks[x + 1] = stacks[i]
      BY <1>1, <1>5
    <3> QED BY <3>1, <3>2, <3>3
  <2>2. CASE l \in 1 .. n
    <3>1. new[l] = u[l] /\ u[l].stack # stacks[i]
      BY <1>2, <1>4, <2>2
    <3>2. Once(u[l].ranks) /\ \E x : Holds(u[l].ranks, x)
      BY <1>4, <2>2
    <3>3. \A x : Holds(u[l].ranks, x) <=> x \in 0 .. (i - 1 - 1) /\ stacks[x + 1] = u[l].stack
      BY <1>4, <2>2
    <3> QED BY <1>1, <3>1, <3>2, <3>3
  <2> QED BY <1>1, <2>1, <2>2
<1>7. ASSUME NEW x \in 0 .. (i - 1) PROVE \E l \in 1 .. (n + 1) : new[l].stack = stacks[x + 1]
  <2>1. CASE x = i - 1
    BY <1>1, <1>2, <2>1
  <2>2. CASE x \in 0 .. (i - 1 - 1)
    <3>1. PICK l \in 1 .. n : u[l].stack = stacks[x + 1]
      BY <1>4, <2>2
    <3>2. l \in 1 .. (n + 1) /\ new[l].stack = stacks[x + 1]
      BY <1>1, <1>2, <3>1
    <3> QED BY <3>2
  <2> QED BY <1>1, <2>1, <2>2
<1>8. ASSUME NEW l \in 1 .. (n + 1), NEW o \in 1 .. (n + 1), new[l].stack = new[o].stack
      PROVE  l = o
  <2>1. (l \in 1 .. n \/ l = n + 1) /\ (o \in 1 .. n \/ o = n + 1)
    BY <1>1
  <2>2. \A k \in 1 .. n : new[k].stack = u[k].stack /\ u[k].stack # new[n + 1].stack
    BY <1>2, <1>4
  <2>3. \A k, m \in 1 .. n : u[k].stack = u[m].stack => k = m
    BY <1>4
  <2> QED BY <1>8, <2>1, <2>2, <2>3
<1>9. Found(new, stacks, i)
  BY <1>2, <1>6, <1>7, <1>8 DEF Found
<1> QED BY <1>9 DEF new

\* Each stack is found once, with the ranks that have it (trees.py 79-83).
LEMMA StacksFound ==
  ASSUME NEW V, NEW stacks \in Seq(Seq(V))
  PROVE  St!findUnique(stacks) \in Uniques(V) /\ Found(St!findUnique(stacks), stacks, Len(stacks))
<1> DEFINE n == Len(stacks)
<1>1. PICK r \in [0 .. n -> Uniques(V)] :
        /\ r[0] = <<>>
        /\ \A i \in 1 .. n : r[i] = St!Seen(r[i - 1], stacks[i], i - 1)
        /\ r[n] = St!findUnique(stacks)
  BY FindUniqueRuns
<1>2. n \in Nat /\ n \in 0 .. n
  OBVIOUS
<1> DEFINE B == {i \in 0 .. n : Found(r[i], stacks, i)}
<1>3. 0 \in B
  <2>1. r[0] = <<>> /\ Len(<<>>) = 0 /\ 1 .. 0 = {} /\ 0 .. (0 - 1) = {} /\ 0 \in 0 .. n
    BY <1>1
  <2> QED BY <2>1 DEF Found
<1>4. ASSUME NEW i \in 1 .. n, i - 1 \in B PROVE i \in B
  <2>1. /\ i - 1 \in 0 .. n /\ i \in 0 .. n
    BY <1>2
  <2> DEFINE u == r[i - 1]
  <2>2. u \in Uniques(V) /\ Found(u, stacks, i - 1) /\ r[i] = St!Seen(u, stacks[i], i - 1)
    BY <1>1, <1>4, <2>1
  <2> HIDE DEF u, B
  <2>3. CASE \E k \in 1 .. Len(u) : /\ u[k].stack = stacks[i]
                                   /\ St!Seen(u, stacks[i], i - 1) = SeenAgain(u, k, i - 1)
    <3>1. Found(r[i], stacks, i)
      BY <2>2, <2>3, FoundAgain
    <3> QED BY <2>1, <3>1 DEF B
  <2>4. CASE /\ \A k \in 1 .. Len(u) : u[k].stack # stacks[i]
             /\ St!Seen(u, stacks[i], i - 1) = SeenFirst(u, stacks[i], i - 1)
    <3>1. Found(r[i], stacks, i)
      BY <2>2, <2>4, FoundFirst
    <3> QED BY <2>1, <3>1 DEF B
  <2> QED BY <2>2, <2>3, <2>4, SeenIs
<1>5. n \in B
  <2> HIDE DEF B, n
  <2>1. \A i \in 0 .. n : i \in B
    BY <1>2, <1>3, <1>4, StepByStep
  <2> QED BY <1>2, <2>1
<1> QED BY <1>1, <1>2, <1>5

\* The stacks are walked one after the other.
LEMMA WalkRuns ==
  ASSUME NEW V, NEW uniques \in Uniques(V)
  PROVE  \E r \in [0 .. Len(uniques) -> Trees(V)] :
           /\ r[0] = [p \in {St!Root} |-> St!Node(0, <<>>)]
           /\ \A i \in 1 .. Len(uniques) : r[i] = St!Walk(r[i - 1], uniques[i])
           /\ r[Len(uniques)] = St!dotstacks(uniques)
<1> DEFINE n == Len(uniques)
           base == [p \in {St!Root} |-> St!Node(0, <<>>)]
           seq == uniques
           step == [p \in (1 .. n) \X Trees(V) |-> St!Walk(p[2], uniques[p[1]])]
           Body(g) == [s \in SUBSET DOMAIN seq |->
                         IF s = {} THEN base ELSE St!Walk(g[s \ {Max(s)}], uniques[Max(s)])]
           g == CHOOSE g : g = Body(g)
<1>1. n \in Nat /\ DOMAIN seq = 1 .. n
  OBVIOUS
<1>2. base \in Trees(V)
  BY RootTyped
<1>3. step \in [(1 .. n) \X Trees(V) -> Trees(V)]
      /\ \A i \in 1 .. n, v \in Trees(V) : step[<<i, v>>] = St!Walk(v, uniques[i])
  <2>1. ASSUME NEW i \in 1 .. n, NEW v \in Trees(V)
        PROVE  St!Walk(v, uniques[i]) \in Trees(V)
    <5>1. uniques[i] \in Unique(V)
      BY DEF Uniques
    <5> QED BY <5>1, WalkTyped
  <2> QED BY <2>1
<1>4. PICK h : Folding(h, n, Trees(V), base, step)
  <2> HIDE DEF step, base
  <2> QED BY <1>1, <1>2, <1>3, FoldExists
<1>5. h = Body(h)
  <2>1. \A s \in SUBSET DOMAIN seq : h[s] = Body(h)[s]
    <3> TAKE s \in SUBSET DOMAIN seq
    <3>1. s = {} => h[s] = base
      BY <1>1, <1>4 DEF Folding, Behind
    <3>2. CASE s # {}
      <4>1. /\ Max(s) \in 1 .. n /\ s \ {Max(s)} \in SUBSET (1 .. n)
        BY <1>1, <3>2, GreatestExists
      <4>2. h[s] = step[<<Max(s), h[s \ {Max(s)}]>>] /\ h[s \ {Max(s)}] \in Trees(V)
        <5> HIDE DEF step, base, seq
        <5> QED BY <1>1, <1>4, <3>2, <4>1 DEF Folding, Behind
      <4>3. h[s] = St!Walk(h[s \ {Max(s)}], uniques[Max(s)])
        <5> HIDE DEF step, base
        <5> QED BY <1>3, <4>1, <4>2
      <4> HIDE DEF step, base
      <4> QED BY <3>2, <4>1, <4>3
    <3> HIDE DEF step, base
    <3> QED BY <3>1, <3>2
  <2>2. DOMAIN h = SUBSET DOMAIN seq
    <3> HIDE DEF step, base
    <3> QED BY <1>1, <1>4 DEF Folding
  <2>3. h = [s \in DOMAIN h |-> h[s]]
    <3> HIDE DEF step, base
    <3> QED BY <1>4 DEF Folding
  <2> HIDE DEF step, base
  <2> QED BY <2>1, <2>2, <2>3
<1>6. g = Body(g)
  BY <1>5
<1>7. St!dotstacks(uniques) = g[1 .. n]
  BY <1>1 DEF St!dotstacks, St!FoldLeft, St!MapThenFoldSet, St!Max, Max
<1>8. g[{}] = base
  <2> HIDE DEF base, g
  <2> QED BY <1>1, <1>6
<1>9. ASSUME NEW s \in SUBSET (1 .. n), s # {}, g[s \ {Max(s)}] \in Trees(V)
      PROVE  g[s] = step[<<Max(s), g[s \ {Max(s)}]>>]
  <2>0. Max(s) \in 1 .. n
    BY <1>1, <1>9, GreatestExists
  <2>1. g[s] = St!Walk(g[s \ {Max(s)}], uniques[Max(s)])
    <3> HIDE DEF base, g
    <3> QED BY <1>1, <1>6, <1>9, <2>0
  <2> HIDE DEF base, g, step, seq
  <2> QED BY <1>3, <1>9, <2>0, <2>1
<1> DEFINE r == [i \in 0 .. n |-> g[1 .. i]]
<1>10. Running(r, n, Trees(V), base, step)
  <2> HIDE DEF g, base, step, seq
  <2>1. step \in [(1 .. n) \X Trees(V) -> Trees(V)]
    BY <1>3
  <2>2. \A s \in SUBSET (1 .. n) : s # {} /\ g[s \ {Max(s)}] \in Trees(V)
                                     => g[s] = step[<<Max(s), g[s \ {Max(s)}]>>]
    BY <1>9
  <2>3. n \in Nat
    BY <1>1
  <2> HIDE DEF n
  <2>4. Running([i \in 0 .. n |-> g[1 .. i]], n, Trees(V), base, step)
    BY <1>2, <1>8, <2>1, <2>2, <2>3, FoldRuns
  <2> QED BY <2>4
<1>11. r \in [0 .. n -> Trees(V)] /\ r[0] = base /\ r[n] = g[1 .. n]
       /\ \A i \in 1 .. n : r[i] = step[<<i, r[i - 1]>>] /\ i - 1 \in 0 .. n
  <2>1. r[n] = g[1 .. n] /\ \A i \in 1 .. n : i - 1 \in 0 .. n
    BY <1>1
  <2> HIDE DEF r, g, base, step
  <2> QED BY <1>10, <2>1 DEF Running
<1>12. \A i \in 1 .. n : r[i] = St!Walk(r[i - 1], uniques[i])
  <2> HIDE DEF r, step
  <2> QED BY <1>3, <1>11
<1> HIDE DEF r, g
<1> QED BY <1>7, <1>11, <1>12

\* No rank is in two stacks.
Apart(u) ==
  /\ \A k \in 1 .. Len(u) : Once(u[k].ranks)
  /\ \A k, l \in 1 .. Len(u) : \A x : Holds(u[k].ranks, x) /\ Holds(u[l].ranks, x) => k = l

\* What the tree is after the first i stacks: the root and what is on a path of them, each
\* with the ranks of the stacks whose path it is on, and their number.
On(u, i, p, x) == \E k \in 1 .. i : p \in St!Paths(u[k].stack) /\ Holds(u[k].ranks, x)
Grown(t, u, i) ==
  /\ St!Root \in DOMAIN t
  /\ \A k \in 1 .. i : St!Paths(u[k].stack) \subseteq DOMAIN t
  /\ \A p \in DOMAIN t : p = St!Root \/ \E k \in 1 .. i : p \in St!Paths(u[k].stack)
  /\ \A p \in DOMAIN t : /\ Once(t[p].ranks) /\ t[p].count = Len(t[p].ranks)
                        /\ \A x : Holds(t[p].ranks, x) <=> On(u, i, p, x)

\* Where a walk comes, and where it does not.
LEMMA WalkIs ==
  ASSUME NEW t, NEW v
  PROVE  /\ DOMAIN St!Walk(t, v) = DOMAIN t \cup St!Paths(v.stack)
         /\ \A p \in St!Paths(v.stack) : St!Walk(t, v)[p] = St!Visit(t, p, v)
         /\ \A p \in DOMAIN t : p \notin St!Paths(v.stack) => St!Walk(t, v)[p] = t[p]
BY DEF St!Walk

\* A walk adds the ranks of one stack to its path.
LEMMA WalkGrows ==
  ASSUME NEW V, NEW u \in Uniques(V), Apart(u), NEW i \in 1 .. Len(u), NEW t \in Trees(V),
         Grown(t, u, i - 1)
  PROVE  Grown(St!Walk(t, u[i]), u, i)
<1> DEFINE v == u[i]
           P == St!Paths(v.stack)
           new == St!Walk(t, v)
<1>1. /\ v \in Unique(V) /\ i \in Nat /\ i \in 1 .. i
  BY DEF Uniques
<1>2. \A k : k \in 1 .. i <=> k \in 1 .. (i - 1) \/ k = i
  BY <1>1
<1>3. v.ranks \in Seq(Nat) /\ v.stack \in Seq(V)
  BY <1>1 DEF Unique
<1>4. /\ DOMAIN new = DOMAIN t \cup P
      /\ \A p \in P : new[p] = St!Visit(t, p, v)
      /\ \A p \in DOMAIN t : p \notin P => new[p] = t[p]
  BY WalkIs
<1>5. ASSUME NEW p, NEW x PROVE On(u, i, p, x) <=> On(u, i - 1, p, x) \/ (p \in P /\ Holds(v.ranks, x))
  <2>1. On(u, i, p, x) <=> \E k \in 1 .. i : p \in St!Paths(u[k].stack) /\ Holds(u[k].ranks, x)
    BY DEF On
  <2>2. On(u, i - 1, p, x) <=>
          \E k \in 1 .. (i - 1) : p \in St!Paths(u[k].stack) /\ Holds(u[k].ranks, x)
    BY DEF On
  <2> QED BY <1>2, <2>1, <2>2
<1>6. Once(v.ranks)
  BY DEF Apart
<1>7. ASSUME NEW p, NEW x PROVE ~(On(u, i - 1, p, x) /\ Holds(v.ranks, x))
  <2> SUFFICES ASSUME On(u, i - 1, p, x), Holds(v.ranks, x) PROVE FALSE
    OBVIOUS
  <2>1. PICK k \in 1 .. (i - 1) : Holds(u[k].ranks, x)
    BY DEF On
  <2>2. k \in 1 .. Len(u) /\ k # i
    OBVIOUS
  <2> QED BY <2>1, <2>2 DEF Apart
<1> HIDE DEF new, P, v
<1>8. /\ St!Root \in DOMAIN t
      /\ \A k \in 1 .. (i - 1) : St!Paths(u[k].stack) \subseteq DOMAIN t
      /\ \A p \in DOMAIN t : p = St!Root \/ \E k \in 1 .. (i - 1) : p \in St!Paths(u[k].stack)
      /\ \A p \in DOMAIN t : /\ Once(t[p].ranks) /\ t[p].count = Len(t[p].ranks)
                            /\ \A x : Holds(t[p].ranks, x) <=> On(u, i - 1, p, x)
  BY DEF Grown
<1>9. ASSUME NEW p \in DOMAIN new
      PROVE  /\ Once(new[p].ranks) /\ new[p].count = Len(new[p].ranks)
             /\ \A x : Holds(new[p].ranks, x) <=> On(u, i, p, x)
  <2>1. CASE p \notin P
    BY <1>4, <1>5, <1>8, <1>9, <2>1
  <2>2. CASE p \in P /\ p \notin DOMAIN t
    <3>0. p \in St!Paths(v.stack) /\ p \notin DOMAIN t /\ new[p] = St!Visit(t, p, v)
      BY <1>4, <2>2 DEF P
    <3>1. new[p].ranks = v.ranks /\ new[p].count = Len(v.ranks)
      <4>1. Visited(St!Visit(t, p, v), t, p, v)
        BY <1>1, <3>0, VisitIs
      <4> QED BY <3>0, <4>1 DEF Visited
    <3>2. \A x : ~On(u, i - 1, p, x)
      BY <1>8, <2>2 DEF On
    <3> QED BY <1>5, <1>6, <2>2, <3>1, <3>2
  <2>3. CASE p \in P /\ p \in DOMAIN t
    <3>1. /\ t[p] \in Counted /\ new[p].ranks = t[p].ranks \o v.ranks
          /\ new[p].count = t[p].count + Len(v.ranks)
      <4>1. p \in St!Paths(v.stack) /\ p \in DOMAIN t /\ new[p] = St!Visit(t, p, v)
        BY <1>4, <2>3 DEF P
      <4>2. Visited(St!Visit(t, p, v), t, p, v)
        BY <1>1, <4>1, VisitIs
      <4> QED BY <4>1, <4>2 DEF Visited
    <3>2. t[p].ranks \in Seq(Nat)
      BY <3>1 DEF Counted
    <3> DEFINE a == t[p].ranks
               b == v.ranks
    <3>3. /\ a \in Seq(Nat) /\ b \in Seq(Nat) /\ Once(a) /\ Once(b)
          /\ t[p].count = Len(a) /\ \A x : Holds(a, x) <=> On(u, i - 1, p, x)
      BY <1>3, <1>6, <1>8, <2>3, <3>2
    <3>4. /\ new[p].ranks = a \o b /\ new[p].count = t[p].count + Len(b)
      BY <3>1
    <3>5. \A x : On(u, i, p, x) <=> On(u, i - 1, p, x) \/ Holds(b, x)
      BY <1>5, <2>3
    <3>6. \A x : ~(On(u, i - 1, p, x) /\ Holds(b, x))
      BY <1>7
    <3> HIDE DEF a, b
    <3>7. /\ Once(a \o b) /\ Len(a \o b) = Len(a) + Len(b)
          /\ \A x : Holds(a \o b, x) <=> Holds(a, x) \/ Holds(b, x)
      BY <3>3, <3>6, OnceBehind
    <3> QED BY <3>3, <3>4, <3>5, <3>7
  <2> QED BY <1>4, <1>9, <2>1, <2>2, <2>3
<1>10. /\ St!Root \in DOMAIN new
       /\ \A k \in 1 .. i : St!Paths(u[k].stack) \subseteq DOMAIN new
  BY <1>2, <1>4, <1>8 DEF P, v
<1>11. ASSUME NEW p \in DOMAIN new
       PROVE  p = St!Root \/ \E k \in 1 .. i : p \in St!Paths(u[k].stack)
  <2>1. CASE p \in P
    BY <1>2, <2>1 DEF P, v
  <2>2. CASE p \in DOMAIN t
    BY <1>2, <1>8, <2>2
  <2> QED BY <1>4, <2>1, <2>2
<1>12. Grown(new, u, i)
  BY <1>9, <1>10, <1>11 DEF Grown
<1> QED BY <1>12 DEF new, v

\* The tree is the stacks', with who went where (trees.py 34-66).
LEMMA TreeGrown ==
  ASSUME NEW V, NEW u \in Uniques(V), Apart(u)
  PROVE  St!dotstacks(u) \in Trees(V) /\ Grown(St!dotstacks(u), u, Len(u))
<1> DEFINE n == Len(u)
           base == [p \in {St!Root} |-> St!Node(0, <<>>)]
<1>1. PICK r \in [0 .. n -> Trees(V)] :
        /\ r[0] = base
        /\ \A i \in 1 .. n : r[i] = St!Walk(r[i - 1], u[i])
        /\ r[n] = St!dotstacks(u)
  BY WalkRuns
<1>2. n \in Nat /\ n \in 0 .. n /\ 0 \in 0 .. n
  BY DEF Uniques
<1> DEFINE B == {i \in 0 .. n : Grown(r[i], u, i)}
<1>3. 0 \in B
  <2>1. base[St!Root].ranks = <<>> /\ base[St!Root].count = 0
    BY DEF St!Node
  <2>2. DOMAIN base = {St!Root} /\ Len(<<>>) = 0 /\ 1 .. 0 = {}
    OBVIOUS
  <2>3. Once(<<>>) /\ (\A x : ~Holds(<<>>, x)) /\ \A p, x : ~On(u, 0, p, x)
    BY <2>2 DEF Once, Holds, On
  <2> HIDE DEF base
  <2>4. Grown(base, u, 0)
    BY <2>1, <2>2, <2>3 DEF Grown
  <2> QED BY <1>1, <1>2, <2>4
<1>4. ASSUME NEW i \in 1 .. n, i - 1 \in B PROVE i \in B
  <2>1. /\ i - 1 \in 0 .. n /\ i \in 0 .. n
    BY <1>2
  <2> DEFINE t == r[i - 1]
  <2>2. t \in Trees(V) /\ Grown(t, u, i - 1) /\ r[i] = St!Walk(t, u[i])
    BY <1>1, <1>4, <2>1
  <2> HIDE DEF t, B
  <2>3. Grown(r[i], u, i)
    BY <2>2, WalkGrows
  <2> QED BY <2>1, <2>3 DEF B
<1>5. n \in B
  <2> HIDE DEF B, n
  <2>1. \A i \in 0 .. n : i \in B
    BY <1>2, <1>3, <1>4, StepByStep
  <2> QED BY <1>2, <2>1
<1> QED BY <1>1, <1>2, <1>5

\* The instance counts as everyone does.
LEMMA StacksCount == ASSUME NEW S PROVE St!Cardinality(S) = Cardinality(S)
BY DEF St!Cardinality, Cardinality, St!IsFiniteSet, IsFiniteSet

\* The places of some numbers in a list that has each once are as many as they are.
LEMMA PlacesCount ==
  ASSUME NEW list \in Seq(Nat), Once(list), NEW D \in SUBSET Range(list)
  PROVE  /\ IsFiniteSet(D)
         /\ Cardinality({j \in DOMAIN list : list[j] \in D}) = Cardinality(D)
<1> DEFINE J == {j \in DOMAIN list : list[j] \in D}
           f == [j \in J |-> list[j]]
<1>1. Len(list) \in Nat /\ DOMAIN list = 1 .. Len(list)
  OBVIOUS
<1>2. IsFiniteSet(J)
  <2>1. J \subseteq 1 .. Len(list)
    BY <1>1
  <2>2. IsFiniteSet(1 .. Len(list))
    BY <1>1, FS_Interval
  <2> HIDE DEF J
  <2> QED BY <2>1, <2>2, FS_Subset
<1>3. ExistsBijection(J, D)
  <2>1. f \in [J -> D]
    OBVIOUS
  <2>2. \A i, j \in J : f[i] = f[j] => i = j
    BY <1>1 DEF Once
  <2>3. \A d \in D : \E j \in J : f[j] = d
    BY DEF Range
  <2> HIDE DEF f, J
  <2>4. f \in Bijection(J, D)
    BY <2>1, <2>2, <2>3 DEF Bijection, Injection, Surjection, IsInjective
  <2> QED BY <2>4 DEF ExistsBijection
<1> HIDE DEF f, J
<1>4. IsFiniteSet(D) /\ Cardinality(J) = Cardinality(D)
  BY <1>2, <1>3, FS_Bijection
<1> QED BY <1>4 DEF J

\* A list that has each number once is sorted into the increasing list of them, which is
\* as long as they are many.
LEMMA SortIs ==
  ASSUME NEW list \in Seq(Nat), Once(list)
  PROVE  /\ St!sort(list) \in Seq(Nat) /\ Increasing(St!sort(list))
         /\ Range(St!sort(list)) = Range(list)
         /\ Cardinality(Range(list)) = Len(list)
<1> DEFINE S == Range(list)
           n == Len(list)
           fewer(x) == {j \in DOMAIN list : list[j] < x}
           upto(x) == {j \in DOMAIN list : list[j] <= x}
<1>1. n \in Nat /\ DOMAIN list = 1 .. n /\ S \in SUBSET Nat /\ \A j \in 1 .. n : list[j] \in S
  BY DEF Range
<1>2. IsFiniteSet(S) /\ Cardinality(S) = n
  <2>1. list \in [1 .. n -> S]
    BY <1>1
  <2>2. \A i, j \in 1 .. n : list[i] = list[j] => i = j
    BY DEF Once
  <2>3. \A t \in S : \E i \in 1 .. n : list[i] = t
    BY <1>1 DEF Range
  <2> HIDE DEF S, n
  <2> QED BY <1>1, <2>1, <2>2, <2>3, ListedOnce
<1>3. PICK s \in Seq(Nat) : Increasing(s) /\ Range(s) = S
  <2> HIDE DEF S
  <2> QED BY <1>1, <1>2, OrderExists
<1>4. /\ s \in Seq(Int) /\ Len(s) = n /\ DOMAIN s = 1 .. n
      /\ \A i \in 1 .. n : s[i] \in S /\ Cardinality({d \in S : d < s[i]}) = i - 1
  <2>1. s \in Seq(Int)
    BY <1>3
  <2> HIDE DEF S, n
  <2>2. Len(s) = n /\ \A i \in 1 .. n : Cardinality({d \in S : d < s[i]}) = i - 1
    BY <1>2, <1>3, <2>1, IncreasingCounts
  <2>3. \A i \in 1 .. n : s[i] \in S
    BY <1>3, <2>2 DEF Range
  <2> QED BY <2>1, <2>2, <2>3
<1>5. ASSUME NEW i \in 1 .. n
      PROVE  Cardinality(fewer(s[i])) = i - 1 /\ Cardinality(upto(s[i])) = i
  <2> DEFINE x == s[i]
             D == {d \in S : d < x}
             E == {d \in S : d <= x}
  <2>1. x \in S /\ Cardinality(D) = i - 1 /\ x \in Nat /\ i \in Nat
    BY <1>1, <1>4
  <2> HIDE DEF x
  <2>2. D \in SUBSET Range(list) /\ E \in SUBSET Range(list)
    OBVIOUS
  <2>3. fewer(x) = {j \in DOMAIN list : list[j] \in D} /\ upto(x) = {j \in DOMAIN list : list[j] \in E}
    BY <1>1
  <2>4. E = D \cup {x} /\ x \notin D
    BY <1>1, <2>1
  <2> HIDE DEF D, E
  <2>5. /\ IsFiniteSet(D) /\ Cardinality({j \in DOMAIN list : list[j] \in D}) = Cardinality(D)
        /\ Cardinality({j \in DOMAIN list : list[j] \in E}) = Cardinality(E)
    BY <2>2, PlacesCount
  <2>6. Cardinality(E) = Cardinality(D) + 1
    BY <2>4, <2>5, FS_AddElement
  <2>7. Cardinality(fewer(x)) = i - 1 /\ Cardinality(upto(x)) = i
    <3> HIDE DEF fewer, upto
    <3> QED BY <2>1, <2>3, <2>5, <2>6
  <2> QED BY <2>7 DEF x
<1>6. St!ToSet(list) = S
  BY DEF St!ToSet, Range
<1>7. ASSUME NEW i \in 1 .. n
      PROVE  (CHOOSE x \in S : /\ St!Cardinality({j \in DOMAIN list : list[j] < x}) < i
                               /\ i <= St!Cardinality({j \in DOMAIN list : list[j] <= x})) = s[i]
  <2> DEFINE Is(x) == /\ St!Cardinality({j \in DOMAIN list : list[j] < x}) < i
                      /\ i <= St!Cardinality({j \in DOMAIN list : list[j] <= x})
  <2>0. \A x : Is(x) <=> Cardinality(fewer(x)) < i /\ i <= Cardinality(upto(x))
    BY StacksCount
  <2> HIDE DEF S, n, fewer, upto, Is
  <2>1. i \in Nat /\ i - 1 < i /\ i <= i
    BY <1>1
  <2>2. ASSUME NEW x \in S, Is(x) PROVE x = s[i]
    <3>1. PICK k \in 1 .. n : x = s[k]
      BY <1>3, <1>4 DEF Range
    <3>2. k - 1 < i /\ i <= k
      BY <1>5, <2>0, <2>2, <3>1
    <3>3. k = i
      BY <1>1, <3>2
    <3> QED BY <3>1, <3>3
  <2>3. Is(s[i]) /\ s[i] \in S
    BY <1>4, <1>5, <2>0, <2>1
  <2>4. (CHOOSE x \in S : Is(x)) = s[i]
    BY <2>2, <2>3
  <2> QED BY <2>4 DEF Is
<1> HIDE DEF S, n, fewer, upto
<1>8. St!sort(list) = [i \in 1 .. n |->
        CHOOSE x \in S : /\ St!Cardinality({j \in DOMAIN list : list[j] < x}) < i
                        /\ i <= St!Cardinality({j \in DOMAIN list : list[j] <= x})]
  BY <1>1, <1>6 DEF St!sort
<1>9. s = [i \in 1 .. n |-> s[i]]
  BY <1>4
<1>10. St!sort(list) = [i \in 1 .. n |-> s[i]]
  BY <1>7, <1>8, Zenon
<1> QED BY <1>2, <1>3, <1>9, <1>10 DEF S, n

\* The ranks of a label, one after the other.
LEMMA RangesRun ==
  ASSUME NEW ranks \in Seq(Nat)
  PROVE  \E r \in [0 .. Len(ranks) -> Seq(Nat \X Nat)] :
           /\ r[0] = <<>>
           /\ \A i \in 1 .. Len(ranks) : r[i] = St!Extend(r[i - 1], ranks[i])
           /\ r[Len(ranks)] = St!ranges(ranks)
<1> DEFINE n == Len(ranks)
           base == <<>>
           seq == ranks
           step == [p \in (1 .. n) \X Seq(Nat \X Nat) |-> St!Extend(p[2], ranks[p[1]])]
           Body(g) == [s \in SUBSET DOMAIN seq |->
                         IF s = {} THEN base ELSE St!Extend(g[s \ {Max(s)}], ranks[Max(s)])]
           g == CHOOSE g : g = Body(g)
<1>1. n \in Nat /\ DOMAIN seq = 1 .. n
  OBVIOUS
<1>2. base \in Seq(Nat \X Nat)
  OBVIOUS
<1>3. step \in [(1 .. n) \X Seq(Nat \X Nat) -> Seq(Nat \X Nat)]
      /\ \A i \in 1 .. n, v \in Seq(Nat \X Nat) : step[<<i, v>>] = St!Extend(v, ranks[i])
  <2>1. ASSUME NEW i \in 1 .. n, NEW v \in Seq(Nat \X Nat)
        PROVE  St!Extend(v, ranks[i]) \in Seq(Nat \X Nat)
    <5>1. ranks[i] \in Nat
      OBVIOUS
    <5> QED BY <5>1, ExtendTyped
  <2> QED BY <2>1
<1>4. PICK h : Folding(h, n, Seq(Nat \X Nat), base, step)
  <2> HIDE DEF step, base
  <2> QED BY <1>1, <1>2, <1>3, FoldExists
<1>5. h = Body(h)
  <2>1. \A s \in SUBSET DOMAIN seq : h[s] = Body(h)[s]
    <3> TAKE s \in SUBSET DOMAIN seq
    <3>1. s = {} => h[s] = base
      BY <1>1, <1>4 DEF Folding, Behind
    <3>2. CASE s # {}
      <4>1. /\ Max(s) \in 1 .. n /\ s \ {Max(s)} \in SUBSET (1 .. n)
        BY <1>1, <3>2, GreatestExists
      <4>2. h[s] = step[<<Max(s), h[s \ {Max(s)}]>>] /\ h[s \ {Max(s)}] \in Seq(Nat \X Nat)
        <5> HIDE DEF step, base, seq
        <5> QED BY <1>1, <1>4, <3>2, <4>1 DEF Folding, Behind
      <4>3. h[s] = St!Extend(h[s \ {Max(s)}], ranks[Max(s)])
        <5> HIDE DEF step, base
        <5> QED BY <1>3, <4>1, <4>2
      <4> HIDE DEF step, base
      <4> QED BY <3>2, <4>1, <4>3
    <3> HIDE DEF step, base
    <3> QED BY <3>1, <3>2
  <2>2. DOMAIN h = SUBSET DOMAIN seq
    <3> HIDE DEF step, base
    <3> QED BY <1>1, <1>4 DEF Folding
  <2>3. h = [s \in DOMAIN h |-> h[s]]
    <3> HIDE DEF step, base
    <3> QED BY <1>4 DEF Folding
  <2> HIDE DEF step, base
  <2> QED BY <2>1, <2>2, <2>3
<1>6. g = Body(g)
  BY <1>5
<1>7. St!ranges(ranks) = g[1 .. n]
  BY <1>1 DEF St!ranges, St!FoldLeft, St!MapThenFoldSet, St!Max, Max
<1>8. g[{}] = base
  <2> HIDE DEF base, g
  <2> QED BY <1>1, <1>6
<1>9. ASSUME NEW s \in SUBSET (1 .. n), s # {}, g[s \ {Max(s)}] \in Seq(Nat \X Nat)
      PROVE  g[s] = step[<<Max(s), g[s \ {Max(s)}]>>]
  <2>0. Max(s) \in 1 .. n
    BY <1>1, <1>9, GreatestExists
  <2>1. g[s] = St!Extend(g[s \ {Max(s)}], ranks[Max(s)])
    <3> HIDE DEF base, g
    <3> QED BY <1>1, <1>6, <1>9, <2>0
  <2> HIDE DEF base, g, step, seq
  <2> QED BY <1>3, <1>9, <2>0, <2>1
<1> DEFINE r == [i \in 0 .. n |-> g[1 .. i]]
<1>10. Running(r, n, Seq(Nat \X Nat), base, step)
  <2> HIDE DEF g, base, step, seq
  <2>1. step \in [(1 .. n) \X Seq(Nat \X Nat) -> Seq(Nat \X Nat)]
    BY <1>3
  <2>2. \A s \in SUBSET (1 .. n) : s # {} /\ g[s \ {Max(s)}] \in Seq(Nat \X Nat)
                                     => g[s] = step[<<Max(s), g[s \ {Max(s)}]>>]
    BY <1>9
  <2>3. n \in Nat
    BY <1>1
  <2> HIDE DEF n
  <2>4. Running([i \in 0 .. n |-> g[1 .. i]], n, Seq(Nat \X Nat), base, step)
    BY <1>2, <1>8, <2>1, <2>2, <2>3, FoldRuns
  <2> QED BY <2>4
<1>11. r \in [0 .. n -> Seq(Nat \X Nat)] /\ r[0] = base /\ r[n] = g[1 .. n]
       /\ \A i \in 1 .. n : r[i] = step[<<i, r[i - 1]>>] /\ i - 1 \in 0 .. n
  <2>1. r[n] = g[1 .. n] /\ \A i \in 1 .. n : i - 1 \in 0 .. n
    BY <1>1
  <2> HIDE DEF r, g, base, step
  <2> QED BY <1>10, <2>1 DEF Running
<1>12. \A i \in 1 .. n : r[i] = St!Extend(r[i - 1], ranks[i])
  <2> HIDE DEF r, step
  <2> QED BY <1>3, <1>11
<1> HIDE DEF r, g
<1> QED BY <1>7, <1>11, <1>12

\* The spans that the first i numbers of an increasing list make: they have these numbers
\* and no others, and a number is missing between two of them.
In(sp, x) == \E k \in 1 .. Len(sp) : sp[k][1] <= x /\ x <= sp[k][2]
Spanned(sp, list, i) ==
  /\ \A k \in 1 .. Len(sp) : sp[k][1] <= sp[k][2]
  /\ \A k \in 1 .. (Len(sp) - 1) : sp[k][2] + 1 < sp[k + 1][1]
  /\ \A x \in Nat : In(sp, x) <=> \E j \in 1 .. i : list[j] = x
  /\ i = 0 => sp = <<>>
  /\ i > 0 => sp # <<>> /\ sp[Len(sp)][2] = list[i]

\* A number that comes next makes the last span longer.
LEMMA SpanLonger ==
  ASSUME NEW list \in Seq(Nat), NEW i \in 1 .. Len(list), NEW sp \in Seq(Nat \X Nat),
         Spanned(sp, list, i - 1), sp # <<>>, St!Last(sp)[2] = list[i] - 1
  PROVE  Spanned(St!Extend(sp, list[i]), list, i)
<1> DEFINE n == Len(sp)
           y == list[i]
           a == sp[n][1]
           new == St!Extend(sp, y)
<1>1. /\ n \in Nat /\ n >= 1 /\ y \in Nat /\ i \in Nat /\ i >= 1 /\ DOMAIN sp = 1 .. n
      /\ \A k \in 1 .. n : sp[k][1] \in Nat /\ sp[k][2] \in Nat
      /\ \A j : j \in 1 .. i <=> j \in 1 .. (i - 1) \/ j = i
  <2>1. n \in Nat /\ n >= 1 /\ y \in Nat /\ i \in Nat /\ i >= 1 /\ DOMAIN sp = 1 .. n
    OBVIOUS
  <2>2. \A k \in 1 .. n : sp[k] \in Nat \X Nat
    OBVIOUS
  <2>3. \A k \in 1 .. n : sp[k][1] \in Nat /\ sp[k][2] \in Nat
    <3> HIDE DEF n
    <3> QED BY <2>2
  <2>4. \A j : j \in 1 .. i <=> j \in 1 .. (i - 1) \/ j = i
    BY ONLY <2>1
  <2> QED BY <2>1, <2>3, <2>4
<1>2. new = [sp EXCEPT ![n] = <<a, y>>] /\ sp[n][2] = y - 1
  BY DEF St!Extend, St!Last
<1> HIDE DEF new, y
<1>3. /\ Len(new) = n /\ new[n][1] = a /\ new[n][2] = y /\ new # <<>>
      /\ \A k \in 1 .. n : k # n => new[k] = sp[k]
  <2>1. Len(new) = n
    BY <1>1, <1>2
  <2>2. new[n] = <<a, y>> /\ \A k \in 1 .. n : k # n => new[k] = sp[k]
    BY <1>1, <1>2
  <2>3. Len(<<>>) = 0 /\ n # 0
    BY <1>1
  <2> HIDE DEF n, a
  <2>4. new # <<>>
    BY <2>1, <2>3
  <2>5. new[n][1] = a /\ new[n][2] = y
    BY <2>2
  <2> QED BY <2>1, <2>2, <2>4, <2>5
<1>4. a \in Nat /\ n \in 1 .. n
  BY <1>1
<1>5. /\ \A k \in 1 .. n : sp[k][1] <= sp[k][2]
      /\ \A k \in 1 .. (n - 1) : sp[k][2] + 1 < sp[k + 1][1]
      /\ \A x \in Nat : In(sp, x) <=> \E j \in 1 .. (i - 1) : list[j] = x
  BY DEF Spanned
<1> HIDE DEF n
<1>6. a <= y - 1
  BY <1>2, <1>4, <1>5
<1> HIDE DEF a
<1>7. \A k \in 1 .. n : new[k][1] = sp[k][1]
  BY <1>3 DEF a
<1>8. \A k \in 1 .. n : new[k][1] <= new[k][2]
  <2> TAKE k \in 1 .. n
  <2>1. CASE k = n
    BY <1>1, <1>3, <1>4, <1>6, <2>1
  <2>2. CASE k # n
    BY <1>3, <1>5, <2>2
  <2> QED BY <2>1, <2>2
<1>9. \A k \in 1 .. (n - 1) : new[k][2] + 1 < new[k + 1][1]
  <2> TAKE k \in 1 .. (n - 1)
  <2>1. k \in 1 .. n /\ k + 1 \in 1 .. n /\ k # n
    BY <1>1
  <2> QED BY <1>3, <1>5, <1>7, <2>1
<1>10. ASSUME NEW x \in Nat PROVE In(new, x) <=> \E j \in 1 .. i : list[j] = x
  <2>1. In(new, x) <=> \E k \in 1 .. n : new[k][1] <= x /\ x <= new[k][2]
    BY <1>3 DEF In
  <2>2. In(sp, x) <=> \E k \in 1 .. n : sp[k][1] <= x /\ x <= sp[k][2]
    BY DEF In, n
  <2>3. new[n][1] <= x /\ x <= new[n][2] <=> (sp[n][1] <= x /\ x <= sp[n][2]) \/ x = y
    <3>1. new[n][1] = a /\ new[n][2] = y /\ sp[n][1] = a /\ sp[n][2] = y - 1
      BY <1>2, <1>3 DEF a
    <3>2. a \in Nat /\ y \in Nat
      BY <1>1, <1>4
    <3>3. a <= x /\ x <= y <=> (a <= x /\ x <= y - 1) \/ x = y
      BY <1>6, <3>2
    <3> QED BY <3>1, <3>3
  <2>4. In(new, x) <=> In(sp, x) \/ x = y
    BY <1>3, <1>4, <2>1, <2>2, <2>3
  <2> QED BY <1>1, <1>5, <2>4 DEF y
<1>11. Spanned(new, list, i)
  BY <1>1, <1>3, <1>8, <1>9, <1>10 DEF Spanned, y
<1> QED BY <1>11 DEF new, y

\* Any other one is a span of its own.
LEMMA SpanNew ==
  ASSUME NEW list \in Seq(Nat), Increasing(list), NEW i \in 1 .. Len(list),
         NEW sp \in Seq(Nat \X Nat), Spanned(sp, list, i - 1),
         ~(sp # <<>> /\ St!Last(sp)[2] = list[i] - 1)
  PROVE  Spanned(St!Extend(sp, list[i]), list, i)
<1> DEFINE n == Len(sp)
           y == list[i]
           new == St!Extend(sp, y)
<1>1. /\ n \in Nat /\ y \in Nat /\ i \in Nat /\ i >= 1 /\ DOMAIN sp = 1 .. n
      /\ \A k \in 1 .. n : sp[k][1] \in Nat /\ sp[k][2] \in Nat
      /\ \A j : j \in 1 .. i <=> j \in 1 .. (i - 1) \/ j = i
      /\ \A k : k \in 1 .. (n + 1) <=> k \in 1 .. n \/ k = n + 1
  <2>1. n \in Nat /\ y \in Nat /\ i \in Nat /\ i >= 1 /\ DOMAIN sp = 1 .. n
    OBVIOUS
  <2>2. \A k \in 1 .. n : sp[k] \in Nat \X Nat
    OBVIOUS
  <2>3. \A k \in 1 .. n : sp[k][1] \in Nat /\ sp[k][2] \in Nat
    <3> HIDE DEF n
    <3> QED BY <2>2
  <2>4. \A j : j \in 1 .. i <=> j \in 1 .. (i - 1) \/ j = i
    BY ONLY <2>1
  <2> HIDE DEF n
  <2>5. \A k : k \in 1 .. (n + 1) <=> k \in 1 .. n \/ k = n + 1
    BY <2>1
  <2> QED BY <2>1, <2>3, <2>4, <2>5
<1>2. new = Append(sp, <<y, y>>)
  BY Zenon DEF St!Extend
<1> HIDE DEF new, y
<1>3. /\ Len(new) = n + 1 /\ new[n + 1][1] = y /\ new[n + 1][2] = y /\ new # <<>>
      /\ \A k \in 1 .. n : new[k] = sp[k]
  <2>1. <<y, y>> \in Nat \X Nat
    BY <1>1
  <2>2. /\ Len(Append(sp, <<y, y>>)) = n + 1 /\ Append(sp, <<y, y>>)[n + 1] = <<y, y>>
        /\ \A k \in 1 .. n : Append(sp, <<y, y>>)[k] = sp[k]
    <3> DEFINE W == Nat \X Nat
               s == <<y, y>>
    <3>1. sp \in Seq(W) /\ s \in W
      BY <2>1
    <3> HIDE DEF W, s
    <3>2. /\ Len(Append(sp, s)) = n + 1 /\ Append(sp, s)[n + 1] = s
          /\ \A k \in 1 .. n : Append(sp, s)[k] = sp[k]
      BY <3>1
    <3> QED BY <3>2 DEF s
  <2>3. Len(<<>>) = 0 /\ n + 1 # 0
    BY <1>1
  <2> HIDE DEF n
  <2>4. Len(new) = n + 1 /\ new[n + 1] = <<y, y>> /\ \A k \in 1 .. n : new[k] = sp[k]
    BY <1>2, <2>2
  <2>5. new # <<>> /\ new[n + 1][1] = y /\ new[n + 1][2] = y
    BY <2>3, <2>4
  <2> QED BY <2>4, <2>5
<1>4. /\ \A k \in 1 .. n : sp[k][1] <= sp[k][2]
      /\ \A k \in 1 .. (n - 1) : sp[k][2] + 1 < sp[k + 1][1]
      /\ \A x \in Nat : In(sp, x) <=> \E j \in 1 .. (i - 1) : list[j] = x
      /\ i - 1 = 0 => n = 0
      /\ i - 1 > 0 => sp[n][2] = list[i - 1]
      /\ n > 0 => sp[n][2] # y - 1
  BY DEF Spanned, St!Last, y
<1>5. i - 1 > 0 => list[i - 1] < y /\ list[i - 1] \in Nat
  BY DEF Increasing, y
<1> HIDE DEF n
<1>6. ASSUME n > 0 PROVE sp[n][2] + 1 < y
  <2>1. i - 1 > 0
    BY <1>1, <1>4, <1>6
  <2>2. sp[n][2] = list[i - 1] /\ sp[n][2] # y - 1
    BY <1>4, <1>6, <2>1
  <2>3. sp[n][2] < y /\ sp[n][2] \in Nat
    BY <1>5, <2>1, <2>2
  <2> DEFINE z == sp[n][2]
  <2>4. y \in Nat /\ z < y /\ z \in Nat /\ z # y - 1
    BY <1>1, <2>2, <2>3
  <2> HIDE DEF z
  <2>5. z + 1 < y
    BY ONLY <2>4
  <2> QED BY <2>5 DEF z
<1>7. \A k \in 1 .. (n + 1) : new[k][1] <= new[k][2]
  <2> TAKE k \in 1 .. (n + 1)
  <2>1. CASE k = n + 1
    BY <1>1, <1>3, <2>1
  <2>2. CASE k \in 1 .. n
    BY <1>3, <1>4, <2>2
  <2> QED BY <1>1, <2>1, <2>2
<1>8. \A k \in 1 .. (n + 1 - 1) : new[k][2] + 1 < new[k + 1][1]
  <2> TAKE k \in 1 .. (n + 1 - 1)
  <2>1. k \in 1 .. n
    BY <1>1
  <2>2. CASE k = n
    BY <1>1, <1>3, <1>6, <2>1, <2>2
  <2>3. CASE k # n
    <3>1. k \in 1 .. (n - 1) /\ k + 1 \in 1 .. n
      BY <1>1, <2>1, <2>3
    <3> QED BY <1>3, <1>4, <2>1, <3>1
  <2> QED BY <2>2, <2>3
<1>9. ASSUME NEW x \in Nat PROVE In(new, x) <=> \E j \in 1 .. i : list[j] = x
  <2>1. In(new, x) <=> \E k \in 1 .. (n + 1) : new[k][1] <= x /\ x <= new[k][2]
    BY <1>3 DEF In
  <2>2. In(sp, x) <=> \E k \in 1 .. n : sp[k][1] <= x /\ x <= sp[k][2]
    BY DEF In, n
  <2>3. new[n + 1][1] <= x /\ x <= new[n + 1][2] <=> x = y
    BY <1>1, <1>3
  <2>4. In(new, x) <=> In(sp, x) \/ x = y
    BY <1>1, <1>3, <2>1, <2>2, <2>3
  <2> QED BY <1>1, <1>4, <2>4 DEF y
<1>10. Spanned(new, list, i)
  BY <1>1, <1>3, <1>7, <1>8, <1>9 DEF Spanned, y
<1> QED BY <1>10 DEF new, y

\* A label has the ranks and no others, in as few spans as there can be
\* (trees.py 118-148).
LEMMA RangesAre ==
  ASSUME NEW list \in Seq(Nat), Increasing(list)
  PROVE  St!ranges(list) \in Seq(Nat \X Nat) /\ Spanned(St!ranges(list), list, Len(list))
<1> DEFINE n == Len(list)
<1>1. PICK r \in [0 .. n -> Seq(Nat \X Nat)] :
        /\ r[0] = <<>>
        /\ \A i \in 1 .. n : r[i] = St!Extend(r[i - 1], list[i])
        /\ r[n] = St!ranges(list)
  BY RangesRun
<1>2. n \in Nat /\ n \in 0 .. n /\ 0 \in 0 .. n
  OBVIOUS
<1> DEFINE B == {i \in 0 .. n : Spanned(r[i], list, i)}
<1>3. 0 \in B
  <2>1. Len(<<>>) = 0 /\ 1 .. 0 = {} /\ 1 .. (0 - 1) = {} /\ ~(0 > 0)
    OBVIOUS
  <2>2. Spanned(<<>>, list, 0)
    BY <2>1 DEF Spanned, In
  <2> QED BY <1>1, <1>2, <2>2
<1>4. ASSUME NEW i \in 1 .. n, i - 1 \in B PROVE i \in B
  <2>1. /\ i - 1 \in 0 .. n /\ i \in 0 .. n
    BY <1>2
  <2> DEFINE sp == r[i - 1]
  <2>2. sp \in Seq(Nat \X Nat) /\ Spanned(sp, list, i - 1) /\ r[i] = St!Extend(sp, list[i])
    BY <1>1, <1>4, <2>1
  <2> HIDE DEF sp, B
  <2>3. Spanned(r[i], list, i)
    BY <2>2, SpanLonger, SpanNew
  <2> QED BY <2>1, <2>3 DEF B
<1>5. n \in B
  <2> HIDE DEF B, n
  <2>1. \A i \in 0 .. n : i \in B
    BY <1>2, <1>3, <1>4, StepByStep
  <2> QED BY <1>2, <2>1
<1> QED BY <1>1, <1>2, <1>5

\* The ranks that a path of the tree has are those whose stack begins with it.
LEMMA TreeRead ==
  ASSUME NEW V, NEW stacks \in Seq(Seq(V))
  PROVE  LET t == St!dotstacks(St!findUnique(stacks))
         IN  /\ t \in Trees(V) /\ St!Root \in DOMAIN t
             /\ DOMAIN t = {St!Root} \cup UNION {St!Paths(stacks[i]) : i \in 1 .. Len(stacks)}
             /\ \A p \in DOMAIN t :
                  /\ Once(t[p].ranks) /\ t[p].count = Len(t[p].ranks)
                  /\ \A x : Holds(t[p].ranks, x) <=>
                              x \in 0 .. (Len(stacks) - 1) /\ p \in St!Paths(stacks[x + 1])
<1> DEFINE n == Len(stacks)
           u == St!findUnique(stacks)
           t == St!dotstacks(u)
<1>1. n \in Nat /\ (\A x \in 0 .. (n - 1) : x + 1 \in 1 .. n)
      /\ (\A i \in 1 .. n : i - 1 \in 0 .. (n - 1) /\ (i - 1) + 1 = i)
  OBVIOUS
<1>2. u \in Uniques(V) /\ Found(u, stacks, n)
  BY StacksFound
<1> HIDE DEF u, n
<1>3. /\ \A k, l \in 1 .. Len(u) : u[k].stack = u[l].stack => k = l
      /\ \A k \in 1 .. Len(u) :
           /\ Once(u[k].ranks) /\ \E x : Holds(u[k].ranks, x)
           /\ \A x : Holds(u[k].ranks, x) <=> x \in 0 .. (n - 1) /\ stacks[x + 1] = u[k].stack
      /\ \A x \in 0 .. (n - 1) : \E k \in 1 .. Len(u) : u[k].stack = stacks[x + 1]
  BY <1>2 DEF Found
<1>4. Apart(u)
  <2>1. ASSUME NEW k \in 1 .. Len(u), NEW l \in 1 .. Len(u), NEW x,
               Holds(u[k].ranks, x), Holds(u[l].ranks, x)
        PROVE  k = l
    <3>1. u[k].stack = stacks[x + 1] /\ u[l].stack = stacks[x + 1]
      BY <1>3, <2>1
    <3> QED BY <1>3, <3>1
  <2>2. \A k \in 1 .. Len(u) : Once(u[k].ranks)
    BY <1>3
  <2> QED BY <2>1, <2>2 DEF Apart
<1>5. t \in Trees(V) /\ Grown(t, u, Len(u))
  BY <1>2, <1>4, TreeGrown
<1> HIDE DEF t
<1>6. ASSUME NEW p, NEW x
      PROVE  On(u, Len(u), p, x) <=> x \in 0 .. (n - 1) /\ p \in St!Paths(stacks[x + 1])
  <2>1. ASSUME On(u, Len(u), p, x) PROVE x \in 0 .. (n - 1) /\ p \in St!Paths(stacks[x + 1])
    <3>1. PICK k \in 1 .. Len(u) : p \in St!Paths(u[k].stack) /\ Holds(u[k].ranks, x)
      BY <2>1 DEF On
    <3> QED BY <1>3, <3>1
  <2>2. ASSUME x \in 0 .. (n - 1), p \in St!Paths(stacks[x + 1]) PROVE On(u, Len(u), p, x)
    <3>1. PICK k \in 1 .. Len(u) : u[k].stack = stacks[x + 1]
      BY <1>3, <2>2
    <3>2. Holds(u[k].ranks, x)
      BY <1>3, <2>2, <3>1
    <3> QED BY <2>2, <3>1, <3>2 DEF On
  <2> QED BY <2>1, <2>2
<1>7. /\ St!Root \in DOMAIN t
      /\ \A k \in 1 .. Len(u) : St!Paths(u[k].stack) \subseteq DOMAIN t
      /\ \A p \in DOMAIN t : p = St!Root \/ \E k \in 1 .. Len(u) : p \in St!Paths(u[k].stack)
      /\ \A p \in DOMAIN t : /\ Once(t[p].ranks) /\ t[p].count = Len(t[p].ranks)
                            /\ \A x : Holds(t[p].ranks, x) <=> On(u, Len(u), p, x)
  BY <1>5 DEF Grown
<1>8. DOMAIN t = {St!Root} \cup UNION {St!Paths(stacks[i]) : i \in 1 .. n}
  <2>1. ASSUME NEW i \in 1 .. n PROVE St!Paths(stacks[i]) \subseteq DOMAIN t
    <3>1. PICK k \in 1 .. Len(u) : u[k].stack = stacks[(i - 1) + 1]
      BY <1>1, <1>3
    <3>2. u[k].stack = stacks[i]
      BY <1>1, <3>1
    <3> QED BY <1>7, <3>2
  <2>2. ASSUME NEW p \in DOMAIN t, p # St!Root PROVE \E i \in 1 .. n : p \in St!Paths(stacks[i])
    <3>1. PICK k \in 1 .. Len(u) : p \in St!Paths(u[k].stack)
      BY <1>7, <2>2
    <3>2. PICK x : Holds(u[k].ranks, x)
      BY <1>3
    <3>3. x \in 0 .. (n - 1) /\ stacks[x + 1] = u[k].stack
      BY <1>3, <3>2
    <3> QED BY <1>1, <3>1, <3>3
  <2> QED BY <1>7, <2>1, <2>2
<1>9. \A p \in DOMAIN t :
        /\ Once(t[p].ranks) /\ t[p].count = Len(t[p].ranks)
        /\ \A x : Holds(t[p].ranks, x) <=> x \in 0 .. (n - 1) /\ p \in St!Paths(stacks[x + 1])
  BY <1>6, <1>7
<1> QED BY <1>5, <1>7, <1>8, <1>9 DEF t, u, n

\* The ranks of a node, as a label has them before it is cut.
LEMMA RanksSpanned ==
  ASSUME NEW ranks_ \in Seq(Nat), Once(ranks_), NEW T, \A x : Holds(ranks_, x) <=> x \in T
  PROVE  LET sp == St!ranges(St!sort(ranks_))
         IN  /\ IsFiniteSet(T) /\ Len(ranks_) = Cardinality(T) /\ T \subseteq Nat
             /\ sp \in Seq(Nat \X Nat) /\ \A x \in Nat : In(sp, x) <=> x \in T
             /\ \A k \in 1 .. Len(sp) : sp[k][1] <= sp[k][2]
             /\ \A k \in 1 .. (Len(sp) - 1) : sp[k][2] + 1 < sp[k + 1][1]
<1> DEFINE list == St!sort(ranks_)
           sp == St!ranges(list)
<1>1. Range(ranks_) = T
  <2>1. \A x : x \in Range(ranks_) <=> Holds(ranks_, x)
    BY DEF Range, Holds
  <2> QED BY <2>1
<1>2. /\ list \in Seq(Nat) /\ Increasing(list) /\ Range(list) = T
      /\ Cardinality(T) = Len(ranks_)
  BY <1>1, SortIs
<1>3. IsFiniteSet(T)
  <2>1. T \in SUBSET Range(ranks_)
    BY <1>1
  <2> QED BY <2>1, PlacesCount
<1> HIDE DEF list
<1>4. sp \in Seq(Nat \X Nat) /\ Spanned(sp, list, Len(list))
  BY <1>2, RangesAre
<1> HIDE DEF sp
<1>5. \A x \in Nat : In(sp, x) <=> x \in T
  <2>1. \A x : x \in Range(list) <=> \E j \in 1 .. Len(list) : list[j] = x
    BY <1>2 DEF Range
  <2> QED BY <1>2, <1>4, <2>1 DEF Spanned
<1>6. T \subseteq Nat
  BY <1>2 DEF Range
<1> QED BY <1>2, <1>3, <1>4, <1>5, <1>6 DEF Spanned, sp, list

\* Spans with gaps between them are in order.
LEMMA SpansOrdered ==
  ASSUME NEW sp \in Seq(Nat \X Nat),
         \A k \in 1 .. Len(sp) : sp[k][1] <= sp[k][2],
         \A k \in 1 .. (Len(sp) - 1) : sp[k][2] + 1 < sp[k + 1][1]
  PROVE  \A j, k \in 1 .. Len(sp) : j < k => sp[j][2] + 1 < sp[k][1]
<1> SUFFICES ASSUME NEW j \in 1 .. Len(sp)
             PROVE  \A k \in 1 .. Len(sp) : j < k => sp[j][2] + 1 < sp[k][1]
  OBVIOUS
<1> DEFINE n == Len(sp)
           B == {k \in 0 .. n : j < k => sp[j][2] + 1 < sp[k][1]}
<1>1. n \in Nat /\ \A k \in 1 .. n : sp[k][1] \in Nat /\ sp[k][2] \in Nat
  <2> DEFINE W == Nat \X Nat
  <2>1. n \in Nat /\ sp \in Seq(W)
    OBVIOUS
  <2>2. \A k \in 1 .. n : sp[k] \in W
    <3> HIDE DEF W
    <3> QED BY <2>1, ElementOfSeq
  <2> HIDE DEF n
  <2> QED BY <2>1, <2>2 DEF W
<1>2. /\ \A k \in 1 .. n : sp[k][1] <= sp[k][2]
      /\ \A k \in 1 .. (n - 1) : sp[k][2] + 1 < sp[k + 1][1]
      /\ j \in 1 .. n
  OBVIOUS
<1> HIDE DEF n
<1>3. 0 \in B
  BY <1>1, <1>2
<1>4. ASSUME NEW i \in 1 .. n, i - 1 \in B PROVE i \in B
  <2>1. CASE ~(j < i)
    BY <1>1, <2>1
  <2>2. CASE j < i
    <3>1. i - 1 \in 1 .. (n - 1) /\ i - 1 \in 1 .. n /\ (i - 1) + 1 = i /\ (j = i - 1 \/ j < i - 1)
      BY <1>1, <1>2, <2>2
    <3>2. sp[i - 1][2] + 1 < sp[i][1] /\ sp[i - 1][1] <= sp[i - 1][2]
      BY <1>2, <3>1
    <3>3. j < i - 1 => sp[j][2] + 1 < sp[i - 1][1]
      BY <1>4
    <3> DEFINE a == sp[j][2]
               b == sp[i - 1][1]
               c == sp[i - 1][2]
               d == sp[i][1]
    <3>4. a \in Nat /\ b \in Nat /\ c \in Nat /\ d \in Nat /\ b <= c /\ c + 1 < d
          /\ (a = c \/ a + 1 < b)
      BY <1>1, <1>2, <3>1, <3>2, <3>3
    <3> HIDE DEF a, b, c, d
    <3>5. a + 1 < d
      BY ONLY <3>4
    <3> QED BY <3>5 DEF a, d
  <2> QED BY <2>1, <2>2
<1>5. \A k \in 0 .. n : k \in B
  <2> HIDE DEF B
  <2> QED BY <1>1, <1>3, <1>4, StepByStep
<1> QED BY <1>1, <1>5 DEF n

\* A number has nine digits at most, a span two numbers and a dash.
LEMMA WidthBounded == ASSUME NEW x PROVE St!Width(x) \in 1 .. 9
<1> DEFINE S == {k \in 1 .. 8 : 10^k <= x}
<1>1. S \in SUBSET (1 .. 8)
  OBVIOUS
<1> HIDE DEF S
<1>2. Cardinality(S) \in Nat /\ Cardinality(S) <= 8
  <2>1. ASSUME NEW c \in Nat PROVE IsFiniteSet(1 .. c) /\ Cardinality(1 .. c) = c
    <3>1. 1 \in Int /\ c \in Int /\ (1 > c => c = 0) /\ c - 1 + 1 = c
      OBVIOUS
    <3>2. Cardinality(1 .. c) = IF 1 > c THEN 0 ELSE c - 1 + 1
      BY <3>1, FS_Interval
    <3> QED BY <3>1, <3>2, FS_Interval
  <2>2. ASSUME NEW c \in Nat, NEW Z \in SUBSET (1 .. c)
        PROVE  Cardinality(Z) \in Nat /\ Cardinality(Z) <= c
    <3> DEFINE all == 1 .. c
    <3>1. IsFiniteSet(all) /\ Cardinality(all) = c /\ Z \in SUBSET all
      BY <2>1, <2>2
    <3> HIDE DEF all
    <3>2. IsFiniteSet(Z) /\ Cardinality(Z) <= Cardinality(all)
      BY <3>1, FS_Subset
    <3> QED BY <3>1, <3>2, FS_CardinalityType
  <2> QED BY <1>1, <2>2
<1>3. St!Width(x) = 1 + Cardinality(S)
  BY StacksCount DEF St!Width, S
<1> QED BY <1>2, <1>3

LEMMA SpanWidthBounded == ASSUME NEW s PROVE St!SpanWidth(s) \in 1 .. 19
BY WidthBounded DEF St!SpanWidth

\* The text of one span alone is short enough for both tools.
LEMMA AloneIsShort ==
  ASSUME NEW sp, Len(sp) \in 0 .. 1, DOMAIN sp = 1 .. Len(sp)
  PROVE  St!TextWidth(sp) \in 0 .. 19
<1> DEFINE f == [i \in DOMAIN sp |-> St!SpanWidth(sp[i])]
           n == Len(sp)
<1>1. St!TextWidth(sp) = SumFunctionOnSet(f, 1 .. n) + 0 + 0
  <2>1. St!SumFunctionOnSet(f, 1 .. n) = SumFunctionOnSet(f, 1 .. n)
    BY DEF St!SumFunctionOnSet, SumFunctionOnSet, St!FoldFunctionOnSet, FoldFunctionOnSet,
           St!MapThenFoldSet, MapThenFoldSet
  <2>2. ~(Len(sp) > 1)
    OBVIOUS
  <2> QED BY <2>1, <2>2 DEF St!TextWidth, St!EndOf
<1>2. CASE n = 0
  <2>1. SumFunctionOnSet(f, 1 .. n) = 0
    <3>1. 1 .. n = {}
      BY <1>2
    <3> HIDE DEF f, n
    <3> QED BY <3>1, SumOfEmpty
  <2> QED BY <1>1, <2>1
<1>3. CASE n = 1
  <2>1. f[1] \in 1 .. 19
    BY <1>3, SpanWidthBounded
  <2> HIDE DEF f
  <2>2. SumFunctionOnSet(f, 1 .. (0 + 1)) = SumFunctionOnSet(f, 1 .. 0) + f[0 + 1]
    <3>1. \A i \in 1 .. (0 + 1) : i = 1
      OBVIOUS
    <3>2. \A i \in 1 .. (0 + 1) : f[i] \in Int
      BY <2>1, <3>1
    <3> QED BY <3>2, SumOfPrefix
  <2>3. SumFunctionOnSet(f, 1 .. 0) = 0
    <3>1. 1 .. 0 = {}
      OBVIOUS
    <3>2. SumFunctionOnSet(f, {}) = 0
      BY SumOfEmpty
    <3> QED BY <3>1, <3>2
  <2>4. SumFunctionOnSet(f, 1 .. 1) = f[1]
    <3> DEFINE here == 1 .. (0 + 1)
    <3>1. here = 1 .. 1 /\ f[0 + 1] = f[1]
      OBVIOUS
    <3>2. SumFunctionOnSet(f, here) = 0 + f[0 + 1]
      BY <2>2, <2>3
    <3> HIDE DEF here
    <3>3. SumFunctionOnSet(f, 1 .. 1) = 0 + f[1]
      BY <3>1, <3>2, Zenon
    <3> QED BY <2>1, <3>3
  <2> QED BY <1>1, <1>3, <2>1, <2>4
<1> QED BY <1>2, <1>3

\* A label is the spans up to where it is cut.
LEMMA CutIs ==
  ASSUME NEW sp \in Seq(Nat \X Nat), NEW limit \in {20, 40}
  PROVE  LET l == St!printlist(sp, limit)
         IN  \E m \in 0 .. Len(sp) :
               /\ l.spans \in Seq(Nat \X Nat) /\ Len(l.spans) = m
               /\ \A i \in 1 .. m : l.spans[i] = sp[i]
               /\ l.cut \in BOOLEAN
               /\ ~l.cut => m = Len(sp)
               /\ Len(sp) <= 1 => ~l.cut
<1> DEFINE n == Len(sp)
           W == Nat \X Nat
           l == St!printlist(sp, limit)
<1>1. n \in Nat /\ DOMAIN sp = 1 .. n /\ sp \in Seq(W)
  OBVIOUS
<1>2. CASE St!TextWidth(sp) <= limit
  <2>1. l.spans = sp /\ l.cut = FALSE
    BY <1>2 DEF St!printlist
  <2> HIDE DEF l, n
  <2>2. /\ l.spans \in Seq(W) /\ Len(l.spans) = n /\ n \in 0 .. n
        /\ \A i \in 1 .. n : l.spans[i] = sp[i]
    <3> HIDE DEF W
    <3> QED BY <1>1, <2>1 DEF n
  <2> QED BY <2>1, <2>2 DEF l, n
<1>3. CASE ~(St!TextWidth(sp) <= limit)
  <2> DEFINE S == {k \in DOMAIN sp : St!EndOf(sp, k) <= limit}
             m == Cardinality(S)
  <2>1. l.spans = SubSeq(sp, 1, m) /\ l.cut = TRUE
    BY <1>3, StacksCount DEF St!printlist
  <2>2. m \in 0 .. n
    <3>1. S \in SUBSET (1 .. n)
      BY <1>1
    <3> HIDE DEF S, n
    <3>2. IsFiniteSet(1 .. n) /\ Cardinality(1 .. n) = n
      BY <1>1, FS_Interval
    <3>3. m \in Nat /\ m <= n
      BY <3>1, <3>2, FS_Subset, FS_CardinalityType
    <3> QED BY <1>1, <3>3
  <2> HIDE DEF m, l, W
  <2>3. SubSeq(sp, 1, m) \in Seq(W) /\ Len(SubSeq(sp, 1, m)) = m
        /\ \A i \in 1 .. m : SubSeq(sp, 1, m)[i] = sp[i]
    BY <1>1, <2>2
  <2>4. ~(n <= 1)
    <3>1. CASE n <= 1
      <4>1. n \in 0 .. 1
        BY <1>1, <3>1
      <4>2. St!TextWidth(sp) \in 0 .. 19
        BY <1>1, <4>1, AloneIsShort
      <4> QED BY <1>3, <4>2
    <3> QED BY <3>1
  <2> QED BY <2>1, <2>2, <2>3, <2>4 DEF l, W
<1> QED BY <1>2, <1>3

\* A label says nothing that is not so, and all that there is to say unless it is cut
\* (trees.py 89-113).
LEMMA LabelIsTrue ==
  ASSUME NEW ranks_ \in Seq(Nat), Once(ranks_), NEW T, \A x : Holds(ranks_, x) <=> x \in T,
         NEW limit \in {20, 40}
  PROVE  /\ Len(ranks_) = Cardinality(T)
         /\ St!LabelTrue(St!printlist(St!ranges(St!sort(ranks_)), limit), T)
<1> DEFINE sp == St!ranges(St!sort(ranks_))
           l == St!printlist(sp, limit)
           n == Len(sp)
           shown == UNION {s[1] .. s[2] : s \in St!ToSet(l.spans)}
<1>1. /\ Len(ranks_) = Cardinality(T) /\ T \subseteq Nat
      /\ sp \in Seq(Nat \X Nat) /\ \A x \in Nat : In(sp, x) <=> x \in T
      /\ \A k \in 1 .. n : sp[k][1] <= sp[k][2]
      /\ \A k \in 1 .. (n - 1) : sp[k][2] + 1 < sp[k + 1][1]
  BY RanksSpanned
<1> HIDE DEF sp
<1>2. \A j, k \in 1 .. n : j < k => sp[j][2] + 1 < sp[k][1]
  BY <1>1, SpansOrdered
<1>3. PICK m \in 0 .. n :
        /\ l.spans \in Seq(Nat \X Nat) /\ Len(l.spans) = m
        /\ \A i \in 1 .. m : l.spans[i] = sp[i]
        /\ l.cut \in BOOLEAN
        /\ ~l.cut => m = n
        /\ n <= 1 => ~l.cut
  BY <1>1, CutIs
<1> HIDE DEF l
<1>4. n \in Nat /\ m \in Nat /\ m <= n /\ (\A k \in 1 .. m : k \in 1 .. n)
      /\ DOMAIN l.spans = 1 .. m
      /\ \A k \in 1 .. n : sp[k][1] \in Nat /\ sp[k][2] \in Nat
  <2>1. n \in Nat /\ \A k \in 1 .. n : sp[k] \in Nat \X Nat
    BY <1>1
  <2> HIDE DEF n
  <2>2. \A k \in 1 .. n : sp[k][1] \in Nat /\ sp[k][2] \in Nat
    BY <2>1
  <2> QED BY <1>3, <2>1, <2>2
<1>5. \A x : x \in shown <=> \E k \in 1 .. m : x \in sp[k][1] .. sp[k][2]
  <2>1. \A x : x \in shown <=> \E k \in 1 .. m : x \in l.spans[k][1] .. l.spans[k][2]
    BY <1>4 DEF St!ToSet
  <2> HIDE DEF shown
  <2> QED BY <1>3, <2>1
<1>6. \A x \in Nat : x \in T <=> \E k \in 1 .. n : sp[k][1] <= x /\ x <= sp[k][2]
  BY <1>1 DEF In
<1> HIDE DEF shown, n
<1>7. ASSUME NEW x \in shown PROVE x \in T /\ x \in Nat
  <2>1. PICK k \in 1 .. m : x \in sp[k][1] .. sp[k][2]
    BY <1>5
  <2>2. k \in 1 .. n /\ x \in Nat /\ sp[k][1] <= x /\ x <= sp[k][2]
    BY <1>4, <2>1
  <2> QED BY <1>6, <2>2
<1>8. ASSUME NEW r \in T, NEW x \in shown, r <= x PROVE r \in shown
  <2>1. PICK j \in 1 .. m : x \in sp[j][1] .. sp[j][2]
    BY <1>5
  <2>2. PICK k \in 1 .. n : sp[k][1] <= r /\ r <= sp[k][2]
    BY <1>1, <1>6
  <2>3. r \in Nat /\ x \in Nat /\ j \in 1 .. n /\ sp[j][2] \in Nat /\ sp[k][1] \in Nat
    BY <1>1, <1>4, <1>7
  <2>4. x <= sp[j][2]
    BY <1>4, <2>1, <2>3
  <2>5. ~(j < k)
    <3>1. CASE j < k
      <4>1. sp[j][2] + 1 < sp[k][1]
        BY <1>2, <2>3, <3>1
      <4> DEFINE b == sp[j][2]
                 c == sp[k][1]
      <4>2. r \in Nat /\ x \in Nat /\ b \in Nat /\ c \in Nat /\ r <= x /\ x <= b /\ b + 1 < c /\ c <= r
        BY <1>8, <2>2, <2>3, <2>4, <4>1
      <4> HIDE DEF b, c
      <4> QED BY ONLY <4>2
    <3> QED BY <3>1
  <2>6. k \in 1 .. m
    BY <1>4, <2>1, <2>2, <2>5
  <2>7. r \in sp[k][1] .. sp[k][2]
    BY <1>4, <2>2, <2>3
  <2> QED BY <1>5, <2>6, <2>7
<1>9. ASSUME ~l.cut, NEW r \in T PROVE r \in shown
  <2>1. PICK k \in 1 .. n : sp[k][1] <= r /\ r <= sp[k][2]
    BY <1>1, <1>6
  <2>2. k \in 1 .. m /\ r \in sp[k][1] .. sp[k][2]
    BY <1>1, <1>3, <1>4, <1>9, <2>1
  <2> QED BY <1>5, <2>2
<1>10. \A i \in 1 .. (Len(l.spans) - 1) : l.spans[i][2] + 1 < l.spans[i + 1][1]
  <2> TAKE i \in 1 .. (Len(l.spans) - 1)
  <2>1. i \in 1 .. m /\ i + 1 \in 1 .. m /\ i \in 1 .. (n - 1)
    BY <1>3, <1>4
  <2> QED BY <1>1, <1>3, <2>1 DEF n
<1>11. ASSUME NEW a \in T, NEW b \in T, T = a .. b PROVE ~l.cut
  <2>1. n <= 1
    <3> SUFFICES ASSUME ~(n <= 1) PROVE FALSE
      OBVIOUS
    <3>1. 1 \in 1 .. n /\ 2 \in 1 .. n /\ (\A k \in 1 .. n : k = 1 \/ k = 2 \/ 2 < k)
      BY <1>4
    <3> DEFINE c == sp[1][2]
               d == sp[2][1]
               y == c + 1
    <3>2. c \in Nat /\ d \in Nat /\ y \in Nat /\ y < d /\ a \in Nat /\ b \in Nat
      BY <1>1, <1>2, <1>4, <3>1
    <3>3. c \in T /\ d \in T
      <4>0. sp[1][1] <= sp[1][2] /\ sp[2][1] <= sp[2][2]
        BY <1>1, <3>1
      <4>1. sp[1][1] <= c /\ c <= c /\ d <= d /\ d <= sp[2][2]
        BY <3>2, <4>0
      <4> HIDE DEF c, d
      <4>2. c \in T
        BY <1>6, <3>1, <3>2, <4>1 DEF c
      <4>3. d \in T
        BY <1>6, <3>1, <3>2, <4>1 DEF d
      <4> QED BY <4>2, <4>3
    <3>4. y \in T
      <4> HIDE DEF c, d
      <4>1. a <= c /\ d <= b /\ y = c + 1
        BY <1>11, <3>2, <3>3
      <4> QED BY <1>11, <3>2, <4>1
    <3> HIDE DEF y
    <3>5. PICK k \in 1 .. n : sp[k][1] <= y /\ y <= sp[k][2]
      BY <1>6, <3>2, <3>4
    <3>6. k # 1
      <4>1. c < y
        BY <3>2 DEF y
      <4>2. ~(y <= c)
        BY <3>2, <4>1
      <4> QED BY <3>5, <4>2
    <3>7. k # 2
      BY <3>2, <3>5
    <3>8. 2 < k /\ sp[2][2] + 1 < sp[k][1] /\ d <= sp[2][2]
      BY <1>1, <1>2, <3>1, <3>6, <3>7 DEF n
    <3> DEFINE e == sp[2][2]
               f == sp[k][1]
    <3>9. d \in Nat /\ y \in Nat /\ e \in Nat /\ f \in Nat /\ y < d /\ d <= e /\ e + 1 < f /\ f <= y
      BY <1>4, <3>1, <3>2, <3>5, <3>8
    <3> HIDE DEF d, e, f
    <3> QED BY ONLY <3>9
  <2> QED BY <1>3, <2>1
<1>12. St!LabelTrue(l, T)
  <2>1. shown \subseteq T /\ (\A r \in T : (\E x \in shown : r <= x) => r \in shown)
    BY <1>7, <1>8
  <2>2. ~l.cut => T \subseteq shown
    BY <1>9
  <2>3. (\E a, b \in T : T = a .. b) => ~l.cut
    BY <1>11
  <2> QED BY <1>10, <2>1, <2>2, <2>3 DEF St!LabelTrue, shown
<1> QED BY <1>1, <1>12 DEF l, sp

\* Whichever stacks the processes had, a graph is written if the files are ended, and what
\* is on its edges is true (trees.py 34-66, 79-83, 89-148, 150-208).
THEOREM StacksStayMerged ==
  ASSUME NEW V, NEW dumps \in Seq(Seq(St!Lines(V)))
  PROVE  St!StacksMergedFor(dumps)
<1> DEFINE n == Len(dumps)
           stacks == [i \in DOMAIN dumps |-> St!parseFile(dumps[i])]
           t == St!dotstacks(St!findUnique(stacks))
           Edge(p, limit) == [from |-> St!Front(p), to |-> p, count |-> t[p].count,
                              label |-> St!writeedge(t[p], limit)]
<1>1. n \in Nat /\ DOMAIN dumps = 1 .. n
      /\ \A i \in 1 .. n :
           /\ St!parseFile(dumps[i]) \in Seq(V)
           /\ St!Ended(dumps[i]) => ~St!ReadFile(dumps[i]).failed
           /\ \A f \in St!ToSet(St!parseFile(dumps[i])) :
                \E k \in DOMAIN dumps[i] : St!OfFirst(dumps[i], k) /\ dumps[i][k] = St!Frame(f)
  BY ParseTyped
<1>2. stacks \in Seq(Seq(V)) /\ Len(stacks) = n /\ \A i \in 1 .. n : stacks[i] = St!parseFile(dumps[i])
  <2> HIDE DEF n
  <2> QED BY <1>1
<1> HIDE DEF stacks
<1>3. /\ t \in Trees(V) /\ St!Root \in DOMAIN t
      /\ DOMAIN t = {St!Root} \cup UNION {St!Paths(stacks[i]) : i \in 1 .. n}
      /\ \A p \in DOMAIN t :
           /\ Once(t[p].ranks) /\ t[p].count = Len(t[p].ranks)
           /\ \A x : Holds(t[p].ranks, x) <=> x \in 0 .. (n - 1) /\ p \in St!Paths(stacks[x + 1])
  BY <1>2, TreeRead
<1> HIDE DEF t, n
<1>4. ASSUME NEW p \in DOMAIN t
      PROVE  /\ t[p].ranks \in Seq(Nat) /\ Once(t[p].ranks) /\ t[p].count = Len(t[p].ranks)
             /\ \A x : Holds(t[p].ranks, x) <=> x \in St!Through(dumps, p)
  <2>1. t[p] \in Counted /\ p \in Seq(V)
    <3> HIDE DEF Counted
    <3> QED BY <1>3 DEF Trees
  <2>2. t[p].ranks \in Seq(Nat)
    BY <2>1 DEF Counted
  <2>3. ASSUME NEW x \in 0 .. (n - 1)
        PROVE  p \in St!Paths(stacks[x + 1]) <=> St!IsPrefix(p, St!parseFile(dumps[x + 1]))
    <3>1. x + 1 \in 1 .. n
      BY <1>1
    <3>2. stacks[x + 1] = St!parseFile(dumps[x + 1]) /\ stacks[x + 1] \in Seq(V)
      BY <1>1, <1>2, <3>1
    <3> QED BY <2>1, <3>2, PathsAre
  <2>4. \A x : x \in St!Through(dumps, p) <=> x \in 0 .. (n - 1) /\ p \in St!Paths(stacks[x + 1])
    BY <2>3 DEF St!Through, n
  <2> QED BY <1>3, <2>2, <2>4
<1>5. ASSUME NEW limit \in {20, 40}, NEW edges \in St!Graph(dumps, limit)
      PROVE  \A e : e \in edges <=> \E p \in DOMAIN t \ {St!Root} : e = Edge(p, limit)
  <2>1. edges = St!writegraph(t, limit)
    BY <1>5 DEF St!Graph, t, stacks
  <2> QED BY <2>1 DEF St!writegraph
<1>6. ASSUME NEW limit \in {20, 40}, NEW edges \in St!Graph(dumps, limit)
      PROVE  {e.to : e \in edges} =
               (UNION {St!Paths(St!parseFile(dumps[i])) : i \in DOMAIN dumps}) \ {St!Root}
  <2>1. \A p : p \in {e.to : e \in edges} <=> p \in DOMAIN t \ {St!Root}
    <3>1. ASSUME NEW e \in edges PROVE e.to \in DOMAIN t \ {St!Root}
      <4>1. PICK p \in DOMAIN t \ {St!Root} : e = Edge(p, limit)
        BY <1>5, <1>6
      <4> QED BY <4>1
    <3>2. ASSUME NEW p \in DOMAIN t \ {St!Root} PROVE \E e \in edges : e.to = p
      <4>1. Edge(p, limit).to = p
        OBVIOUS
      <4>2. Edge(p, limit) \in edges
        BY <1>5, <1>6
      <4> QED BY <4>1, <4>2
    <3> QED BY <3>1, <3>2
  <2>2. \A i \in 1 .. n : St!Paths(stacks[i]) = St!Paths(St!parseFile(dumps[i]))
    BY <1>2
  <2>3. \A p : p \in UNION {St!Paths(stacks[i]) : i \in 1 .. n}
               <=> p \in UNION {St!Paths(St!parseFile(dumps[i])) : i \in DOMAIN dumps}
    BY <1>1, <2>2
  <2> DEFINE tos == {e.to : e \in edges}
             read == UNION {St!Paths(stacks[i]) : i \in 1 .. n}
             all == UNION {St!Paths(St!parseFile(dumps[i])) : i \in DOMAIN dumps}
  <2>4. /\ \A p : p \in tos <=> p \in DOMAIN t \ {St!Root}
        /\ \A p : p \in read <=> p \in all
        /\ DOMAIN t = {St!Root} \cup read
    BY <1>3, <2>1, <2>3
  <2> HIDE DEF tos, read, all
  <2>5. tos = all \ {St!Root}
    BY <2>4
  <2> QED BY <2>5 DEF tos, all
<1>7. ASSUME NEW limit \in {20, 40}, NEW edges \in St!Graph(dumps, limit), NEW e \in edges
      PROVE  /\ e.count = St!Cardinality(St!Through(dumps, e.to))
             /\ St!LabelTrue(e.label, St!Through(dumps, e.to))
  <2>1. PICK p \in DOMAIN t \ {St!Root} : e = Edge(p, limit)
    BY <1>5, <1>7
  <2>2. e.to = p /\ e.count = t[p].count /\ e.label = St!writeedge(t[p], limit)
    BY <2>1
  <2> DEFINE list == t[p].ranks
             T == St!Through(dumps, p)
  <2>3. /\ list \in Seq(Nat) /\ Once(list) /\ e.count = Len(list)
        /\ e.label = St!printlist(St!ranges(St!sort(list)), limit)
        /\ \A x : Holds(list, x) <=> x \in T
    BY <1>4, <2>2 DEF St!writeedge
  <2> HIDE DEF list, T
  <2>4. Len(list) = Cardinality(T) /\ St!LabelTrue(e.label, T)
    BY <2>3, LabelIsTrue
  <2>5. St!Cardinality(T) = Cardinality(T)
    BY StacksCount
  <2> QED BY <2>2, <2>3, <2>4, <2>5 DEF T
<1>8. ASSUME NEW limit \in {20, 40}, \A i \in DOMAIN dumps : St!Ended(dumps[i])
      PROVE  St!Graph(dumps, limit) # {}
  <2>1. ~\E i \in DOMAIN dumps : St!ReadFile(dumps[i]).failed
    BY <1>1, <1>8
  <2> QED BY <2>1 DEF St!Graph
<1> QED BY <1>1, <1>6, <1>7, <1>8 DEF St!StacksMergedFor

-----------------------------------------------------------------------------
(* The specification of the run: the power counters, or an input.          *)

\* The inputs are those that the constants give.
InputOK ==
  /\ about = "placement" => input \in Placements
  /\ about = "launch" => input \in Launches
  /\ about = "ticks" => input \in Ticks
  /\ about = "samples" => input \in Samples
  /\ about = "gpus" => input \in Visibilities
  /\ about = "dumps" => input \in Dumps

\* An input is picked from its set, and kept.
LEMMA InputStaysOK == Spec => []InputOK
<1>1. Init => InputOK
  BY DEF Init, InputOK
<1>2. InputOK /\ [Next]_vars => InputOK'
  BY DEF InputOK, Next, RunPower, Pick, Picked, vars
<1> QED BY <1>1, <1>2, PTL DEF Spec

\* Whatever else is read, the power counters are read as they are on their own
\* (zerosum.cpp 98-116).
THEOREM ReadingsReadPower == Spec => PowerSpec
<1>1. Init => PowerInit
  BY DEF Init
<1>2. [Next]_vars => [PowerNext]_power
  BY DEF Next, RunPower, Pick, Picked, vars
<1> QED BY <1>1, <1>2, PTL DEF Spec, PowerSpec

\* The logs of every run differ whichever launcher started it, and sort as the ranks
\* do where the launcher tells rank and size (utils.cpp 464-650, zerosum 250-277).
THEOREM FileNamesSortedHolds == Spec => []FileNamesSorted
<1>1. InputOK => FileNamesSorted
  <2> SUFFICES ASSUME input \in Launches
               PROVE  Rk!FileNamesSortedFor(input[1], input[2], input[3])
    BY DEF InputOK, FileNamesSorted
  <2>1. /\ input[1] \in Launchers /\ input[2] \in 1 .. IntMax /\ input[3] \in Nat \ {0}
        /\ input[1] \in {"nodes", "torque"} => input[2] % input[3] = 0
    BY ReadingsAssumption DEF LaunchesAssumption
  <2> QED BY <2>1, FileNamesStaySorted
<1> QED BY <1>1, InputStaysOK, PTL

\* No row of a CPU is above 100 %, wherever its counters wrap (hardware.h 71-113).
THEOREM PercentagesBoundedHolds == Spec => []PercentagesBounded
<1>1. InputOK => PercentagesBounded
  <2> SUFFICES ASSUME input \in Ticks PROVE PercentagesBoundedFor(input[1], input[2])
    BY DEF InputOK, PercentagesBounded
  <2>1. /\ \A i \in 1 .. 2 : /\ input[i] \in [Columns -> Nat]
                             /\ input[i]["guest"] <= input[i]["user"]
                             /\ input[i]["guest_nice"] <= input[i]["nice"]
        /\ 100 * Elapsed(input[2]) < Word
    BY ReadingsAssumption DEF TicksAssumption
  <2>2. Elapsed(input[2]) = Exact(input[2])["total_time"]
    BY DEF Elapsed, Exact
  <2>3. Word \in Nat \ {0}
    BY ReadingsAssumption
  <2> QED BY <2>1, <2>2, <2>3, PercentagesStayBounded
<1> QED BY <1>1, InputStaysOK, PTL

\* The worker stays on the CPUs of its process (utils.cpp 42-112, zerosum.cpp 86).
THEOREM WorkerPlacedHolds == Spec => []WorkerPlaced
<1>1. InputOK => WorkerPlaced
  <2> SUFFICES ASSUME input \in Placements
               PROVE  Pl!WorkerPlacedFor(input[1], input[2], input[3])
    BY DEF InputOK, WorkerPlaced
  <2>1. /\ input[1] \subseteq Nat /\ IsFiniteSet(input[1]) /\ input[1] # {}
        /\ input[2] \in Seq(Int) /\ \A e \in input[3] : e.pid \in Nat
    BY ReadingsAssumption DEF PlacementsAssumption
  <2> QED BY <2>1, WorkerStaysPlaced
<1> QED BY <1>1, InputStaysOK, PTL

\* A summary stays among the values, and a listing has them all
\* (hardware.h 154-176, 339-378, 527-585).
THEOREM AveragesInRangeHolds == Spec => []AveragesInRange
<1>1. InputOK => AveragesInRange
  <2> SUFFICES ASSUME input \in Samples PROVE AveragesInRangeFor(input[1], input[2])
    BY DEF InputOK, AveragesInRange
  <2>1. Word \in Nat \ {0} /\ input[2] \in Seq(0 .. (Word - 1)) /\ input[2] # <<>>
    BY ReadingsAssumption DEF SamplesAssumption
  <2>2. AveragesWithinFor(input[1], input[2])
    BY <2>1, AveragesStayWithin
  <2>3. ListingsWholeFor(input[2])
    BY <2>1, ListingsAreWhole
  <2> QED BY <2>2, <2>3 DEF AveragesInRangeFor
<1> QED BY <1>1, InputStaysOK, PTL

\* Every GPU has a row, its own if only ZeroSum's variable hides devices, and the first
\* device with an engine of a label shows that engine's share of the time since the
\* first poll (hardware.h 417-421, sycl.cpp 156-222).
THEOREM DevicesAlignedHolds == Spec => []DevicesAligned
<1>1. InputOK => DevicesAligned
  <2> SUFFICES ASSUME input \in Visibilities
               PROVE  Dev!DevicesAlignedFor(input[1], input[2], input[3], input[4], input[5])
    BY DEF InputOK, DevicesAligned
  <2>1. /\ input[1] \in Nat /\ Names(input[2], input[1])
        /\ input[3].set \/ input[3].list = <<>>
        /\ ListsOnce(input[3].list, Len(Dev!initialize(input[1], input[2])))
        /\ PollsAssumption(input[4], input[5]) /\ Word \in Nat \ {0}
    BY ReadingsAssumption DEF VisibilitiesAssumption, Names
  <2>2. Dev!GpusAlignedFor(input[1], input[2], input[3])
    BY <2>1, GpusStayAligned
  <2>3. Dev!SharesShownFor(input[4], input[5])
    BY <2>1, SharesAreShown
  <2> QED BY <2>2, <2>3 DEF Dev!DevicesAlignedFor
<1> QED BY <1>1, InputStaysOK, PTL

\* Whatever the files, a graph is written unless an empty line is right behind a first
\* thread's stack, with the calls of these stacks, how many ranks went through each, and
\* labels that are true up to where they are cut (trees.py 34-66, 79-83, 89-148, 150-208).
THEOREM StacksMergedHolds == Spec => []StacksMerged
<1>1. InputOK => StacksMerged
  <2> SUFFICES ASSUME input \in Dumps PROVE St!StacksMergedFor(input)
    BY DEF InputOK, StacksMerged
  <2>1. input \in Seq(Seq(St!Lines(Calls)))
    BY ReadingsAssumption DEF DumpsAssumption
  <2> QED BY <2>1, StacksStayMerged
<1> QED BY <1>1, InputStaysOK, PTL
=============================================================================
