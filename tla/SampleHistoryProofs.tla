------------------------ MODULE SampleHistoryProofs ------------------------
(***************************************************************************)
(* Proofs about SampleHistory for any threads, sensors and periods: the    *)
(* types, the rows of the threads and the stream of the hardware threads'  *)
(* rows.                                                                   *)
(***************************************************************************)
EXTENDS SampleHistory, FiniteSetTheorems, SequenceTheorems, WellFoundedInduction, TLAPS

-----------------------------------------------------------------------------
(* Sets and sequences.                                                     *)

\* A finite set of thread ids that is not empty has a greatest: a smallest set
\* without one would have one when an element is taken away.
LEMMA MaxOfFinite ==
  ASSUME NEW S \in SUBSET Nat, IsFiniteSet(S), S # {}
  PROVE  Max(S) \in S /\ \A y \in S : y <= Max(S)
<1> DEFINE HasMax(A) == \E x \in A : \A y \in A : x >= y
           Bad == {A \in SUBSET S : A # {} /\ ~HasMax(A)}
           Sizes == {Cardinality(A) : A \in Bad}
<1>1. SUFFICES HasMax(S)
  BY DEF Max
<1>2. SUFFICES ASSUME ~HasMax(S) PROVE FALSE
  OBVIOUS
<1>3. \A A \in SUBSET S : IsFiniteSet(A) /\ Cardinality(A) \in Nat
  BY FS_Subset, FS_CardinalityType
<1>4. Sizes # {} /\ Sizes \subseteq Nat
  BY <1>2, <1>3
<1>5. PICK n \in Sizes : \A m \in Sizes : ~(m < n)
  <2> HIDE DEF Sizes
  <2>1. \E x \in Sizes : \A y \in Sizes : ~(<<y, x>> \in OpToRel(<, Nat))
    BY <1>4, NatLessThanWellFounded, WFMin, Zenon
  <2> QED BY <2>1, <1>4 DEF OpToRel
<1>6. PICK A \in Bad : Cardinality(A) = n
  OBVIOUS
<1>7. PICK x \in A : TRUE
  OBVIOUS
<1> DEFINE B == A \ {x}
<1>8. IsFiniteSet(A) /\ B \in SUBSET S /\ Cardinality(B) = Cardinality(A) - 1
  BY <1>3, <1>7, FS_RemoveElement
<1>9. B \notin Bad
  <2>1. Cardinality(B) \in Nat /\ Cardinality(B) < n
    BY <1>3, <1>6, <1>8
  <2>2. Cardinality(B) \notin Sizes
    BY <1>5, <2>1
  <2> QED BY <2>2
<1>10. CASE B = {}
  <2>1. A = {x}
    BY <1>7, <1>10
  <2> QED BY <2>1, <1>6
<1>11. CASE B # {}
  <2>1. PICK m \in B : \A y \in B : m >= y
    BY <1>8, <1>9, <1>11
  <2>2. \A y \in A : y = x \/ m >= y
    BY <2>1
  <2>3. x \in Nat /\ m \in Nat /\ A \subseteq Nat
    BY <1>8, <1>7
  <2> QED BY <2>2, <2>3, <1>6, <1>7
<1> QED BY <1>10, <1>11

\* A list of one value, whose length may be negative: it is empty then.
LEMMA Repeated ==
  ASSUME NEW T, NEW n \in Int, NEW v \in T
  PROVE  LET s == [i \in 1 .. n |-> v]
         IN  /\ s \in Seq(T) /\ Len(s) = IF n > 0 THEN n ELSE 0
             /\ \A i \in 1 .. Len(s) : s[i] = v
<1> DEFINE m == IF n > 0 THEN n ELSE 0
<1>1. m \in Nat /\ 1 .. m = 1 .. n
  OBVIOUS
<1>2. [i \in 1 .. m |-> v] \in Seq(T) /\ Len([i \in 1 .. m |-> v]) = m
  BY <1>1
<1> QED BY <1>1, <1>2

\* The entries after c up to n.
LEMMA EntriesAfter ==
  ASSUME NEW c \in Nat, NEW n \in Nat
  PROVE  LET s == [i \in 1 .. (n - c) |-> c + i]
         IN  /\ s \in Seq(Nat) /\ Len(s) = IF n > c THEN n - c ELSE 0
             /\ \A i \in 1 .. Len(s) : s[i] = c + i
<1> DEFINE m == IF n > c THEN n - c ELSE 0
<1>1. m \in Nat /\ 1 .. m = 1 .. (n - c)
  OBVIOUS
<1>2. /\ [i \in 1 .. m |-> c + i] \in Seq(Nat)
      /\ Len([i \in 1 .. m |-> c + i]) = m
  BY <1>1
<1> QED BY <1>1, <1>2

-----------------------------------------------------------------------------
(* The history of a thread.                                                *)

\* What a history is: of the right type, and with rows that match.
HistoryOK(h) ==
  /\ h.steps \in Seq(Labels) /\ h.vals \in [Fields -> Seq(Value)]
  /\ \A f \in Fields :
       /\ Len(h.vals[f]) <= Len(h.steps)
       /\ \A i \in 2 .. Len(h.vals[f]) :
            \/ h.vals[f][i] = Absent
            \/ h.vals[f][i].by = "ompt"
            \/ h.vals[f][i].at = h.steps[i]

\* What was read and the label it is stored under go together.
Fits(v, s) == v \in Value /\ s \in Labels /\ (v.by = "ompt" \/ v.at = s)

\* extractFields() fills a field up to the steps there were and stores the
\* value behind, or leaves the field alone.
LEMMA ExtractFills ==
  ASSUME NEW h, HistoryOK(h), NEW fs, NEW v \in Value, NEW f \in Fields
  PROVE  LET old == h.vals[f]
             new == Extract(h, fs, v)[f]
             n   == Len(h.steps)
         IN  /\ new \in Seq(Value) /\ Len(new) \in Nat /\ Len(new) <= n + 1
             /\ \A i \in 1 .. Len(new) :
                  \/ i <= Len(old) /\ new[i] = old[i]
                  \/ new[i] = Absent
                  \/ i = n + 1 /\ new[i] = v
             /\ f \in fs => \E i \in DOMAIN new : new[i] = v
<1> DEFINE old == h.vals[f]
           n   == Len(h.steps)
           pad == [i \in 1 .. (n - Len(old)) |-> Absent]
<1>1. old \in Seq(Value) /\ n \in Nat /\ Len(old) \in Nat /\ Len(old) <= n
  BY DEF HistoryOK
<1>2. Absent \in Value
  BY DEF Value
<1>3. /\ pad \in Seq(Value) /\ Len(pad) = n - Len(old)
      /\ \A i \in 1 .. Len(pad) : pad[i] = Absent
  <2> DEFINE k == n - Len(old)
  <2>1. k \in Int /\ k >= 0
    BY <1>1
  <2> HIDE DEF k
  <2>2. LET s == [i \in 1 .. k |-> Absent]
        IN  /\ s \in Seq(Value) /\ Len(s) = IF k > 0 THEN k ELSE 0
            /\ \A i \in 1 .. Len(s) : s[i] = Absent
    BY <1>2, <2>1, Repeated
  <2> QED BY <2>1, <2>2 DEF k
<1>5. Extract(h, fs, v)[f] = IF f \in fs THEN Append(old \o pad, v) ELSE old
  BY DEF Extract
<1> HIDE DEF pad, old, n
<1>6. /\ old \o pad \in Seq(Value) /\ Len(old \o pad) = n
      /\ \A i \in 1 .. n : (old \o pad)[i] = IF i <= Len(old) THEN old[i] ELSE Absent
  <2>1. /\ old \o pad \in Seq(Value) /\ Len(old \o pad) = n
        /\ \A i \in 1 .. n : (old \o pad)[i]
                             = IF i <= Len(old) THEN old[i] ELSE pad[i - Len(old)]
    BY <1>1, <1>3, ConcatProperties
  <2>2. \A i \in 1 .. n : i > Len(old) => i - Len(old) \in 1 .. Len(pad)
    BY <1>1, <1>3
  <2> QED BY <2>1, <2>2, <1>1, <1>3
<1>7. CASE f \in fs
  <2> DEFINE w == old \o pad
             new == Append(w, v)
  <2>1. /\ new \in Seq(Value) /\ Len(new) = n + 1 /\ new[n + 1] = v
        /\ \A i \in 1 .. n : new[i] = w[i]
    BY <1>6, AppendProperties
  <2>2. \A i \in 1 .. n : new[i] = IF i <= Len(old) THEN old[i] ELSE Absent
    BY <1>6, <2>1
  <2> HIDE DEF new
  <2>3. \A i \in 1 .. Len(new) : i \in 1 .. n \/ i = n + 1
    BY <1>1, <2>1
  <2>4. /\ new \in Seq(Value) /\ Len(new) \in Nat /\ Len(new) <= n + 1
        /\ \A i \in 1 .. Len(new) :
             \/ i <= Len(old) /\ new[i] = old[i]
             \/ new[i] = Absent
             \/ i = n + 1 /\ new[i] = v
    BY <1>1, <2>1, <2>2, <2>3
  <2>5. \E i \in DOMAIN new : new[i] = v
    <3>1. n + 1 \in DOMAIN new
      BY <1>1, <2>1
    <3> QED BY <3>1, <2>1
  <2>6. new = Extract(h, fs, v)[f]
    BY <1>5, <1>7 DEF new
  <2> QED BY <2>4, <2>5, <2>6 DEF n, old
<1>8. CASE f \notin fs
  BY <1>1, <1>5, <1>8 DEF n, old
<1> QED BY <1>7, <1>8

\* So the values it returns have the right type.
LEMMA ExtractType ==
  ASSUME NEW h, HistoryOK(h), NEW fs, NEW v \in Value
  PROVE  Extract(h, fs, v) \in [Fields -> Seq(Value)]
<1> DEFINE e == Extract(h, fs, v)
<1>1. e = [f \in Fields |-> e[f]]
  BY DEF Extract
<1> HIDE DEF e
<1>2. \A f \in Fields : e[f] \in Seq(Value)
  BY ExtractFills DEF e
<1>3. e \in [Fields -> Seq(Value)]
  BY <1>1, <1>2
<1> QED BY <1>3 DEF e

\* Process::add() keeps the histories in line: the one it updates or makes
\* grows by one step, the others stay.
LEMMA AddKeeps ==
  ASSUME NEW t \in Tids, NEW fs, NEW v, NEW s, NEW type \in Labels,
         Fits(v, s), \A u \in DOMAIN lwp : HistoryOK(lwp[u]),
         Add(t, fs, v, s, type)
  PROVE  /\ DOMAIN lwp' = DOMAIN lwp \cup {t}
         /\ \A u \in DOMAIN lwp' : HistoryOK(lwp'[u])
         /\ \A u \in DOMAIN lwp \ {t} : lwp'[u] = lwp[u]
         /\ Len(lwp'[t].steps)
              = IF t \in DOMAIN lwp THEN Len(lwp[t].steps) + 1 ELSE 1
<1>1. v \in Value /\ s \in Labels
  BY DEF Fits
<1>2. CASE t \in DOMAIN lwp
  <2> DEFINE h == lwp[t]
             e == Extract(h, fs, v)
             g == [steps |-> Append(h.steps, s), vals |-> e]
             n == Len(h.steps)
  <2>1. lwp' = [lwp EXCEPT ![t] = g]
    BY <1>2 DEF Add
  <2>2. HistoryOK(h) /\ h.steps \in Seq(Labels) /\ n \in Nat
    BY <1>2 DEF HistoryOK
  <2>3. /\ g.steps \in Seq(Labels) /\ Len(g.steps) = n + 1
        /\ \A i \in 1 .. n : g.steps[i] = h.steps[i]
        /\ g.steps[n + 1] = s
    BY <1>1, <2>2, AppendProperties
  <2>4. HistoryOK(g)
    <3>1. g.vals = e /\ e \in [Fields -> Seq(Value)]
      BY <1>1, <2>2, ExtractType
    <3>2. ASSUME NEW f \in Fields
          PROVE  /\ Len(e[f]) \in Nat /\ Len(e[f]) <= n + 1
                 /\ \A i \in 2 .. Len(e[f]) :
                      e[f][i] = Absent \/ e[f][i].by = "ompt" \/ e[f][i].at = g.steps[i]
      <4>1. /\ Len(e[f]) <= n + 1
            /\ \A i \in 1 .. Len(e[f]) :
                 \/ i <= Len(h.vals[f]) /\ e[f][i] = h.vals[f][i]
                 \/ e[f][i] = Absent
                 \/ i = n + 1 /\ e[f][i] = v
        BY <1>1, <2>2, ExtractFills
      <4>2. /\ h.vals[f] \in Seq(Value) /\ Len(h.vals[f]) <= n
            /\ \A i \in 2 .. Len(h.vals[f]) :
                 \/ h.vals[f][i] = Absent
                 \/ h.vals[f][i].by = "ompt"
                 \/ h.vals[f][i].at = h.steps[i]
        BY <2>2 DEF HistoryOK
      <4>3. Len(e[f]) \in Nat /\ Len(h.vals[f]) \in Nat
        BY <3>1, <4>2
      <4> HIDE DEF e, g, h, n
      <4>4. ASSUME NEW i \in 2 .. Len(e[f])
            PROVE  e[f][i] = Absent \/ e[f][i].by = "ompt" \/ e[f][i].at = g.steps[i]
        <5>1. i \in 1 .. Len(e[f])
          BY <4>3
        <5>2. CASE i <= Len(h.vals[f]) /\ e[f][i] = h.vals[f][i]
          <6>1. i \in 2 .. Len(h.vals[f]) /\ i \in 1 .. n
            BY <2>2, <4>2, <4>3, <5>2
          <6> QED BY <2>3, <4>2, <5>2, <6>1
        <5>3. CASE i = n + 1 /\ e[f][i] = v
          BY <2>3, <5>3 DEF Fits
        <5> QED BY <4>1, <5>1, <5>2, <5>3
      <4> QED BY <4>1, <4>3, <4>4
    <3> HIDE DEF e, n
    <3> QED BY <2>3, <3>1, <3>2 DEF HistoryOK
  <2> HIDE DEF g, h, n
  <2> QED BY <1>2, <2>1, <2>3, <2>4 DEF h, n
<1>3. CASE t \notin DOMAIN lwp
  <2> DEFINE e == Extract(Empty, fs, v)
             g == [steps |-> <<type>>, vals |-> e]
  <2>1. lwp' = [u \in DOMAIN lwp \cup {t} |-> IF u = t THEN g ELSE lwp[u]]
    BY <1>3 DEF Add
  <2>2. /\ Empty.steps = <<>> /\ Len(Empty.steps) = 0
        /\ Empty.vals = [f \in Fields |-> <<>>]
    BY DEF Empty
  <2>3. HistoryOK(Empty)
    BY <2>2 DEF HistoryOK
  <2>4. g.vals = e /\ e \in [Fields -> Seq(Value)]
    BY <1>1, <2>3, ExtractType
  <2>5. ASSUME NEW f \in Fields PROVE Len(e[f]) \in Nat /\ Len(e[f]) <= 1
    <3>1. Len(e[f]) <= Len(Empty.steps) + 1
      BY <1>1, <2>3, ExtractFills
    <3> QED BY <2>2, <2>4, <3>1
  <2>6. g.steps \in Seq(Labels) /\ Len(g.steps) = 1
    OBVIOUS
  <2> HIDE DEF e, g
  <2>7. HistoryOK(g)
    BY <2>4, <2>5, <2>6 DEF HistoryOK
  <2> QED BY <1>3, <2>1, <2>6, <2>7
<1> QED BY <1>2, <1>3

-----------------------------------------------------------------------------
(* The invariant.                                                          *)

\* No thread but the main one has more steps than there were periods; in a scan,
\* one that is still to be visited has fewer.
ThreadsKeepPace ==
  \A t \in DOMAIN lwp \ {Main} :
    /\ Len(lwp[t].steps) <= step
    /\ pc = "scan" /\ (t \in todo \/ ~Visited(t)) => Len(lwp[t].steps) < step

\* ZeroSum's own thread, younger than the main thread, has a history after the
\* first scan.
WorkerIsSeen ==
  /\ Worker \in alive
  /\ pc = "scan" => Worker \in todo \cup DOMAIN lwp
  /\ pc \in {"scanned", "checks"} => Worker \in DOMAIN lwp

\* The cursor is behind what was sent; without OpenMP it is just there.
Stream ==
  /\ \A i \in 1 .. Len(sent) : sent[i] <= cursor
  /\ \A i, j \in 1 .. Len(sent) : i < j => sent[i] < sent[j]
  /\ ~openmp =>
       /\ \A i \in 1 .. Len(sent) : sent[i] = i
       /\ pc # "over" => cursor = Len(sent) /\ cursor <= Len(hwt)
       /\ pc = "over" => Len(sent) = Len(hwt)

\* A step was counted for what a period does, and the hardware threads are
\* sampled once in a period, after the scan.
Counted ==
  /\ pc \in {"scan", "scanned", "checks"} => step >= 1
  /\ pc \in {"once", "idle", "checks"} => Len(hwt) = step
  /\ pc \in {"scan", "scanned"} => Len(hwt) = step - 1

IInv ==
  /\ TypeOK /\ RowsMatchSteps /\ Counted /\ Stream
  /\ ~openmp => ThreadsKeepPace /\ WorkerIsSeen

\* The part of the invariant about each history.
LEMMA HistoriesOK ==
  (\A t \in DOMAIN lwp : HistoryOK(lwp[t])) <=>
    /\ \A t \in DOMAIN lwp :
         lwp[t].steps \in Seq(Labels) /\ lwp[t].vals \in [Fields -> Seq(Value)]
    /\ RowsMatchSteps
BY DEF HistoryOK, RowsMatchSteps

\* The thread with the greatest id is there, and is not the main thread where
\* ZeroSum's is known.
LEMMA LastThread ==
  ASSUME TypeOK
  PROVE  /\ Max(DOMAIN lwp) \in DOMAIN lwp
         /\ Worker \in DOMAIN lwp => Max(DOMAIN lwp) # Main
<1>1. /\ Tids \subseteq Nat /\ Main \in Nat /\ Worker \in Nat /\ Main < Worker
      /\ IsFiniteSet(Tids)
  <2>1. IsFiniteSet({Main}) /\ IsFiniteSet({Worker}) /\ IsFiniteSet(Helpers)
    BY HistoryAssumption, FS_Singleton
  <2>2. IsFiniteSet({Main} \cup {Worker})
    BY <2>1, FS_Union
  <2>3. IsFiniteSet(({Main} \cup {Worker}) \cup Helpers)
    BY <2>1, <2>2, FS_Union
  <2>4. Tids = ({Main} \cup {Worker}) \cup Helpers
    BY DEF Tids
  <2> QED BY <2>3, <2>4, HistoryAssumption DEF Tids
<1>2. DOMAIN lwp \in SUBSET Tids /\ DOMAIN lwp \in SUBSET Nat /\ DOMAIN lwp # {}
  BY <1>1 DEF TypeOK
<1>3. IsFiniteSet(DOMAIN lwp)
  BY <1>1, <1>2, FS_Subset
<1>4. Max(DOMAIN lwp) \in DOMAIN lwp /\ \A y \in DOMAIN lwp : y <= Max(DOMAIN lwp)
  BY <1>2, <1>3, MaxOfFinite
<1> QED BY <1>1, <1>4

-----------------------------------------------------------------------------
(* Initial states and steps.                                               *)

LEMMA InitInv == Init => IInv
<1> SUFFICES ASSUME Init PROVE IInv
  OBVIOUS
<1> USE DEF Init
<1> DEFINE h == [steps |-> <<1>>,
                 vals |-> [Empty.vals EXCEPT !["stat"] = <<[at |-> 0, by |-> "scan"]>>]]
<1>1. DOMAIN lwp = {Main} /\ lwp[Main] = h
  OBVIOUS
<1>2. MaxStep \in Nat /\ Main \in Tids /\ Worker \in Tids /\ Worker # Main
  <2>1. Main \in Tids /\ Worker \in Tids
    BY DEF Tids
  <2>2. Main \in Nat /\ Worker \in Nat /\ Main < Worker /\ MaxStep \in Nat
    BY <2>1, HistoryAssumption
  <2> QED BY <2>1, <2>2
<1>3. HistoryOK(h)
  <2>1. [at |-> 0, by |-> "scan"] \in Value /\ 1 \in Labels
    BY <1>2 DEF Value, Labels
  <2>2. Empty.vals = [f \in Fields |-> <<>>]
    BY DEF Empty
  <2>3. h.steps = <<1>> /\ h.steps \in Seq(Labels) /\ Len(h.steps) = 1
    BY <2>1
  <2>4. h.vals = [f \in Fields |-> IF f = "stat" THEN <<[at |-> 0, by |-> "scan"]>> ELSE <<>>]
    BY <2>2 DEF Fields
  <2> HIDE DEF h
  <2>5. \A f \in Fields : /\ h.vals[f] \in Seq(Value) /\ Len(h.vals[f]) \in {0, 1}
    BY <2>1, <2>4
  <2> QED BY <2>3, <2>4, <2>5 DEF HistoryOK
<1> HIDE DEF h
<1>4. \A t \in DOMAIN lwp : HistoryOK(lwp[t])
  BY <1>1, <1>3
<1>5. TypeOK
  <2>1. /\ \A t \in DOMAIN lwp :
             lwp[t].steps \in Seq(Labels) /\ lwp[t].vals \in [Fields -> Seq(Value)]
        /\ DOMAIN lwp \subseteq Tids /\ Main \in DOMAIN lwp
    BY <1>1, <1>2, <1>4, HistoriesOK
  <2>2. hwt \in Seq(1 .. MaxStep) /\ node.steps \in Seq(0 .. MaxStep)
    OBVIOUS
  <2>3. cursor \in Nat /\ sent \in Seq(Nat)
    OBVIOUS
  <2>4. step \in 0 .. MaxStep /\ alive \subseteq Tids /\ todo \subseteq Tids
    BY <1>2
  <2> QED BY <2>1, <2>2, <2>3, <2>4 DEF TypeOK
<1>6. RowsMatchSteps
  BY <1>4, HistoriesOK
<1>7. Counted /\ Stream
  BY DEF Counted, Stream
<1>8. ThreadsKeepPace /\ WorkerIsSeen
  BY <1>1 DEF ThreadsKeepPace, WorkerIsSeen, Visited, Read
<1> QED BY <1>5, <1>6, <1>7, <1>8 DEF IInv

\* Sending the rows keeps their order; what the last history leaves in the
\* cursor is right as long as no history is ahead of the hardware threads.
LEMMA SendKeeps ==
  ASSUME IInv, Send, pc # "over"
  PROVE  /\ cursor' \in Nat /\ sent' \in Seq(Nat)
         /\ \A i \in 1 .. Len(sent') : sent'[i] <= cursor'
         /\ \A i, j \in 1 .. Len(sent') : i < j => sent'[i] < sent'[j]
         /\ ~openmp => /\ \A i \in 1 .. Len(sent') : sent'[i] = i
                       /\ Len(sent') = Len(hwt)
         /\ ~openmp /\ pc = "checks" => cursor' = Len(hwt)
<1> DEFINE n    == Len(hwt)
           m    == Len(sent)
           new  == [i \in 1 .. (n - cursor) |-> cursor + i]
           last == Len(lwp[Max(DOMAIN lwp)].steps)
<1>1. /\ n \in Nat /\ m \in Nat /\ cursor \in Nat /\ sent \in Seq(Nat) /\ step \in Nat
      /\ Max(DOMAIN lwp) \in DOMAIN lwp /\ last \in Nat
  <2>1. Max(DOMAIN lwp) \in DOMAIN lwp
    BY LastThread DEF IInv
  <2> QED BY <2>1, HistoryAssumption DEF IInv, TypeOK
<1>2. /\ sent' = sent \o new
      /\ cursor' = Max2(Max2(cursor, n), last)
  BY DEF Send
<1>3. /\ new \in Seq(Nat) /\ Len(new) = IF n > cursor THEN n - cursor ELSE 0
      /\ \A i \in 1 .. Len(new) : new[i] = cursor + i
  BY <1>1, EntriesAfter
<1>4. ~openmp /\ pc = "checks" => last <= n
  <2>1. SUFFICES ASSUME ~openmp, pc = "checks" PROVE last <= n
    OBVIOUS
  <2>2. Worker \in DOMAIN lwp /\ Max(DOMAIN lwp) # Main
    BY <2>1, LastThread DEF IInv, WorkerIsSeen
  <2>3. last <= step /\ n = step
    BY <1>1, <2>1, <2>2 DEF IInv, ThreadsKeepPace, Counted
  <2> QED BY <2>3
<1>5. /\ \A i \in 1 .. m : sent[i] \in Nat /\ sent[i] <= cursor
      /\ \A i, j \in 1 .. m : i < j => sent[i] < sent[j]
      /\ ~openmp => /\ \A i \in 1 .. m : sent[i] = i
                    /\ cursor = m /\ cursor <= n
  BY <1>1 DEF IInv, Stream
<1> HIDE DEF n, m, new, last
<1>6. cursor' \in Nat /\ cursor' >= cursor /\ cursor' >= n /\ cursor' >= last
  BY <1>1, <1>2 DEF Max2
<1>7. /\ sent' \in Seq(Nat) /\ Len(sent') = m + Len(new)
      /\ \A i \in 1 .. Len(sent') :
           sent'[i] = IF i <= m THEN sent[i] ELSE cursor + (i - m)
  <2>1. /\ sent' \in Seq(Nat) /\ Len(sent') = m + Len(new)
        /\ \A i \in 1 .. m + Len(new) :
             sent'[i] = IF i <= m THEN sent[i] ELSE new[i - m]
    BY <1>1, <1>2, <1>3, ConcatProperties DEF m
  <2>2. \A i \in 1 .. m + Len(new) : i > m => i - m \in 1 .. Len(new)
    BY <1>1, <1>3
  <2>3. ASSUME NEW i \in 1 .. m + Len(new), i > m
        PROVE  new[i - m] = cursor + (i - m)
    BY <1>3, <2>2, <2>3
  <2>4. ASSUME NEW i \in 1 .. m + Len(new)
        PROVE  sent'[i] = IF i <= m THEN sent[i] ELSE cursor + (i - m)
    <3>1. CASE i <= m
      BY <2>1, <3>1
    <3>2. CASE ~(i <= m)
      <4>1. i > m
        BY <1>1, <3>2
      <4> QED BY <2>1, <2>3, <3>2, <4>1
    <3> QED BY <3>1, <3>2
  <2> QED BY <2>1, <2>4
<1>8. Len(new) \in Nat /\ (Len(new) # 0 => cursor + Len(new) = n)
  BY <1>1, <1>3
<1>9. \A i \in 1 .. Len(sent') : i \in 1 .. m \/ (i > m /\ i - m \in 1 .. Len(new))
  BY <1>1, <1>7, <1>8
<1>10. \A i \in 1 .. Len(sent') : sent'[i] <= cursor'
  <2>1. ASSUME NEW i \in 1 .. Len(sent') PROVE sent'[i] <= cursor'
    <3>1. CASE i \in 1 .. m
      <4>1. sent'[i] = sent[i] /\ sent[i] \in Nat /\ sent[i] <= cursor
        BY <1>5, <1>7, <3>1
      <4> QED BY <1>1, <1>6, <4>1
    <3>2. CASE i > m /\ i - m \in 1 .. Len(new)
      <4>1. sent'[i] = cursor + (i - m) /\ i \in Int
        BY <1>1, <1>7, <3>2
      <4>2. cursor + Len(new) = n /\ i - m <= Len(new)
        BY <1>1, <1>8, <3>2
      <4> QED BY <1>1, <1>6, <1>8, <4>1, <4>2
    <3> QED BY <1>9, <3>1, <3>2
  <2> QED BY <2>1
<1>11. \A i, j \in 1 .. Len(sent') : i < j => sent'[i] < sent'[j]
  <2>1. ASSUME NEW i \in 1 .. Len(sent'), NEW j \in 1 .. Len(sent'), i < j
        PROVE  sent'[i] < sent'[j]
    <3>1. CASE j \in 1 .. m
      <4>1. i \in 1 .. m
        BY <1>1, <2>1, <3>1
      <4>2. sent[i] < sent[j]
        BY <1>5, <2>1, <3>1, <4>1
      <4>3. sent'[i] = sent[i] /\ sent'[j] = sent[j]
        BY <1>1, <1>7, <3>1, <4>1
      <4> QED BY <4>2, <4>3
    <3>2. CASE i \in 1 .. m /\ j > m /\ j - m \in 1 .. Len(new)
      <4>1. sent[i] \in Nat /\ sent[i] <= cursor
        BY <1>5, <3>2
      <4>2. sent'[i] = sent[i] /\ sent'[j] = cursor + (j - m)
        BY <1>1, <1>7, <3>2
      <4> QED BY <1>1, <3>2, <4>1, <4>2
    <3>3. CASE i > m /\ j > m /\ i - m \in 1 .. Len(new) /\ j - m \in 1 .. Len(new)
      BY <1>1, <1>7, <1>8, <2>1, <3>3
    <3> QED BY <1>9, <3>1, <3>2, <3>3
  <2> QED BY <2>1
<1>12. ~openmp => /\ \A i \in 1 .. Len(sent') : sent'[i] = i
                  /\ Len(sent') = n
  BY <1>1, <1>3, <1>5, <1>7, <1>9
<1>13. ~openmp /\ pc = "checks" => cursor' = n
  BY <1>1, <1>2, <1>4, <1>5 DEF Max2
<1> QED BY <1>6, <1>7, <1>10, <1>11, <1>12, <1>13 DEF n

\* Process::add() keeps the types and rows of the histories.
LEMMA AddInv ==
  ASSUME IInv, NEW t \in Tids, NEW fs, NEW v, NEW s, NEW type \in Labels,
         Fits(v, s), Add(t, fs, v, s, type)
  PROVE  /\ DOMAIN lwp' = DOMAIN lwp \cup {t}
         /\ DOMAIN lwp' \subseteq Tids /\ Main \in DOMAIN lwp'
         /\ \A u \in DOMAIN lwp' :
              lwp'[u].steps \in Seq(Labels) /\ lwp'[u].vals \in [Fields -> Seq(Value)]
         /\ RowsMatchSteps'
         /\ \A u \in DOMAIN lwp \ {t} : lwp'[u] = lwp[u]
         /\ Len(lwp'[t].steps)
              = IF t \in DOMAIN lwp THEN Len(lwp[t].steps) + 1 ELSE 1
<1>1. \A u \in DOMAIN lwp : HistoryOK(lwp[u])
  BY HistoriesOK DEF IInv, TypeOK
<1>2. /\ DOMAIN lwp' = DOMAIN lwp \cup {t}
      /\ \A u \in DOMAIN lwp' : HistoryOK(lwp'[u])
      /\ \A u \in DOMAIN lwp \ {t} : lwp'[u] = lwp[u]
      /\ Len(lwp'[t].steps)
           = IF t \in DOMAIN lwp THEN Len(lwp[t].steps) + 1 ELSE 1
  BY <1>1, AddKeeps
<1>3. DOMAIN lwp' \subseteq Tids /\ Main \in DOMAIN lwp'
  BY <1>2 DEF IInv, TypeOK
<1>4. RowsMatchSteps'
  BY <1>2 DEF HistoryOK, RowsMatchSteps
<1>5. \A u \in DOMAIN lwp' :
        lwp'[u].steps \in Seq(Labels) /\ lwp'[u].vals \in [Fields -> Seq(Value)]
  BY <1>2 DEF HistoryOK
<1> QED BY <1>2, <1>3, <1>4, <1>5

\* A thread that a scan has added has been visited by it.
LEMMA AddVisits ==
  ASSUME IInv, NEW t \in Tids, NEW fs, "calls" \in fs, NEW s, NEW type,
         Read("scan") \in Value, Add(t, fs, Read("scan"), s, type), UNCHANGED step
  PROVE  Visited(t)'
<1>1. \A u \in DOMAIN lwp : HistoryOK(lwp[u])
  BY HistoriesOK DEF IInv, TypeOK
<1>2. HistoryOK(Empty)
  BY DEF HistoryOK, Empty
<1>3. PICK h : HistoryOK(h) /\ t \in DOMAIN lwp' /\ lwp'[t].vals = Extract(h, fs, Read("scan"))
  BY <1>1, <1>2 DEF Add
<1>4. \E i \in DOMAIN lwp'[t].vals["calls"] : lwp'[t].vals["calls"][i] = Read("scan")
  BY <1>3, ExtractFills DEF Fields
<1> QED BY <1>3, <1>4 DEF Visited, Read

\* A read fits the step it is stored under; an OMPT callback's fits any.
LEMMA ReadFits ==
  ASSUME TypeOK
  PROVE  /\ Fits(Read("scan"), step) /\ Fits(Read("ompt"), OpenMPType)
         /\ OtherType \in Labels /\ ZeroSumType \in Labels
BY HistoryAssumption DEF TypeOK, Fits, Read, Value, Labels, OpenMPType, OtherType, ZeroSumType

\* A period adds a step of the node for every call.
LEMMA NodeKeeps ==
  ASSUME TypeOK, NEW T, NEW calls \in Seq(T), NodeUpdate(calls)
  PROVE  node'.steps \in Seq(0 .. MaxStep)
<1>1. step \in 0 .. MaxStep /\ node.steps \in Seq(0 .. MaxStep)
  BY DEF TypeOK
<1> DEFINE n == Len(calls)
<1>2. n \in Int /\ DOMAIN calls = 1 .. n
  BY LenProperties
<1> HIDE DEF n
<1>3. [i \in 1 .. n |-> step] \in Seq(0 .. MaxStep)
  BY <1>1, <1>2, Repeated
<1>4. node.steps \o [i \in 1 .. n |-> step] \in Seq(0 .. MaxStep)
  BY <1>1, <1>3, ConcatProperties
<1> QED BY <1>2, <1>4 DEF NodeUpdate

LEMMA NextInv == IInv /\ [Next]_vars => IInv'
<1> SUFFICES ASSUME IInv, [Next]_vars PROVE IInv'
  OBVIOUS
<1> USE DEF records, output
<1>0. /\ TypeOK /\ RowsMatchSteps /\ Counted /\ Stream /\ step \in Nat
      /\ Main \in Nat /\ Worker \in Nat /\ Worker # Main /\ Worker \notin Helpers
      /\ Main \notin Helpers /\ Main \in Tids /\ Worker \in Tids /\ Helpers \subseteq Tids
  <2>1. Main \in Tids /\ Worker \in Tids /\ Helpers \subseteq Tids
    BY DEF Tids
  <2>2. Main \in Nat /\ Worker \in Nat /\ Main < Worker
    BY <2>1, HistoryAssumption
  <2> QED BY <2>1, <2>2, HistoryAssumption DEF IInv, TypeOK
<1>1. ASSUME NEW h \in Helpers, Spawn(h) PROVE IInv'
  <2> USE <1>1 DEF Spawn
  <2>1. TypeOK' /\ RowsMatchSteps'
    BY <1>0 DEF TypeOK, RowsMatchSteps
  <2>2. Counted' /\ Stream'
    BY <1>0 DEF Counted, Stream
  <2>3. ~openmp' => ThreadsKeepPace' /\ WorkerIsSeen'
    BY DEF IInv, ThreadsKeepPace, WorkerIsSeen, Visited, Read
  <2> QED BY <2>1, <2>2, <2>3 DEF IInv
<1>2. ASSUME NEW h \in Helpers, Exit(h) PROVE IInv'
  <2> USE <1>2 DEF Exit
  <2>1. TypeOK' /\ RowsMatchSteps'
    BY <1>0 DEF TypeOK, RowsMatchSteps
  <2>2. Counted' /\ Stream'
    BY <1>0 DEF Counted, Stream
  <2>3. ~openmp' => ThreadsKeepPace' /\ WorkerIsSeen'
    BY <1>0 DEF IInv, ThreadsKeepPace, WorkerIsSeen, Visited, Read
  <2> QED BY <2>1, <2>2, <2>3 DEF IInv
<1>3. ASSUME NEW h \in Tids \ {Worker}, OmpThreadBegin(h) PROVE IInv'
  <2> USE <1>3 DEF OmpThreadBegin
  <2>1. /\ DOMAIN lwp' \subseteq Tids /\ Main \in DOMAIN lwp'
        /\ \A u \in DOMAIN lwp' :
             lwp'[u].steps \in Seq(Labels) /\ lwp'[u].vals \in [Fields -> Seq(Value)]
        /\ RowsMatchSteps'
    BY <1>0, ReadFits, AddInv
  <2>2. TypeOK'
    BY <1>0, <2>1 DEF TypeOK
  <2>3. Counted' /\ Stream'
    BY <1>0 DEF Counted, Stream
  <2> QED BY <2>1, <2>2, <2>3 DEF IInv
<1>4. ASSUME Once PROVE IInv'
  <2> USE <1>4 DEF Once
  <2>1. node'.steps \in Seq(0 .. MaxStep)
    <3>1. <<"meminfo">> \in Seq({"meminfo"})
      OBVIOUS
    <3>2. NodeUpdate(<<"meminfo">>)
      BY Zenon
    <3> QED BY <1>0, <3>1, <3>2, NodeKeeps, Zenon
  <2>2. TypeOK' /\ RowsMatchSteps'
    BY <1>0, <2>1 DEF TypeOK, RowsMatchSteps
  <2>3. Counted' /\ Stream'
    BY <1>0 DEF Counted, Stream
  <2>4. ~openmp' => ThreadsKeepPace' /\ WorkerIsSeen'
    BY DEF IInv, ThreadsKeepPace, WorkerIsSeen, Visited, Read
  <2> QED BY <2>2, <2>3, <2>4 DEF IInv
<1>5. ASSUME BeginPeriod PROVE IInv'
  <2> USE <1>5 DEF BeginPeriod
  <2>1. TypeOK' /\ RowsMatchSteps'
    BY <1>0, HistoryAssumption DEF TypeOK, RowsMatchSteps
  <2>2. Counted' /\ Stream'
    BY <1>0 DEF Counted, Stream
  <2>3. ~openmp' => ThreadsKeepPace' /\ WorkerIsSeen'
    <3>1. \A t \in DOMAIN lwp : Len(lwp[t].steps) \in Nat
      BY <1>0 DEF TypeOK
    <3> QED BY <1>0, <3>1 DEF IInv, ThreadsKeepPace, WorkerIsSeen, Visited, Read
  <2> QED BY <2>1, <2>2, <2>3 DEF IInv
<1>6. ASSUME NEW t \in Tids, ScanThread(t) PROVE IInv'
  <2> USE <1>6 DEF ScanThread
  <2> DEFINE type == IF t = Worker THEN ZeroSumType ELSE OtherType
             fs == IF t \in alive THEN Fields ELSE {"calls"}
  <2>1. type \in Labels /\ Fits(Read("scan"), step) /\ Add(t, fs, Read("scan"), step, type)
    BY <1>0, ReadFits
  <2> HIDE DEF type, fs
  <2>2. /\ DOMAIN lwp' = DOMAIN lwp \cup {t}
        /\ DOMAIN lwp' \subseteq Tids /\ Main \in DOMAIN lwp'
        /\ \A u \in DOMAIN lwp' :
             lwp'[u].steps \in Seq(Labels) /\ lwp'[u].vals \in [Fields -> Seq(Value)]
        /\ RowsMatchSteps'
        /\ \A u \in DOMAIN lwp \ {t} : lwp'[u] = lwp[u]
        /\ Len(lwp'[t].steps)
             = IF t \in DOMAIN lwp THEN Len(lwp[t].steps) + 1 ELSE 1
    BY <2>1, AddInv
  <2>3. TypeOK'
    BY <1>0, <2>2 DEF TypeOK
  <2>4. Counted' /\ Stream'
    BY <1>0 DEF Counted, Stream
  <2>5. ~openmp' => WorkerIsSeen'
    BY <2>2 DEF IInv, WorkerIsSeen
  <2>6. ~openmp' => ThreadsKeepPace'
    <3>1. SUFFICES ASSUME ~openmp', NEW u \in DOMAIN lwp' \ {Main}
                   PROVE  /\ Len(lwp'[u].steps) <= step
                          /\ u \in todo' \/ ~Visited(u)' => Len(lwp'[u].steps) < step
      BY DEF ThreadsKeepPace
    <3>2. step >= 1
      BY <1>0 DEF Counted
    <3>3. CASE u = t
      <4>1. t \notin todo' /\ Visited(t)'
        <5>1. "calls" \in fs
          BY DEF fs, Fields
        <5>2. Read("scan") \in Value
          BY <2>1 DEF Fits
        <5>3. Visited(t)'
          BY <2>1, <5>1, <5>2, AddVisits
        <5> QED BY <5>3
      <4>2. t \in DOMAIN lwp => Len(lwp[t].steps) \in Nat /\ Len(lwp[t].steps) < step
        BY <1>0, <3>1, <3>3 DEF IInv, ThreadsKeepPace, TypeOK
      <4> QED BY <1>0, <2>2, <3>2, <3>3, <4>1, <4>2
    <3>4. CASE u # t
      <4>1. u \in DOMAIN lwp \ {t} /\ lwp'[u] = lwp[u] /\ (u \in todo' => u \in todo)
        BY <2>2, <3>1, <3>4
      <4>2. Visited(u)' = Visited(u)
        BY <2>2, <4>1 DEF Visited, Read
      <4> QED BY <3>1, <4>1, <4>2 DEF IInv, ThreadsKeepPace
    <3> QED BY <3>3, <3>4
  <2> QED BY <2>2, <2>3, <2>4, <2>5, <2>6 DEF IInv
<1>7. ASSUME ScanEnds PROVE IInv'
  <2> USE <1>7 DEF ScanEnds
  <2>1. TypeOK' /\ RowsMatchSteps'
    BY <1>0 DEF TypeOK, RowsMatchSteps
  <2>2. Counted' /\ Stream'
    BY <1>0 DEF Counted, Stream
  <2>3. ~openmp' => ThreadsKeepPace' /\ WorkerIsSeen'
    BY DEF IInv, ThreadsKeepPace, WorkerIsSeen, Visited, Read
  <2> QED BY <2>1, <2>2, <2>3 DEF IInv
<1>8. ASSUME Metrics PROVE IInv'
  <2> USE <1>8 DEF Metrics
  <2>1. node'.steps \in Seq(0 .. MaxStep)
    BY <1>0, HistoryAssumption, NodeKeeps
  <2>2. step \in 1 .. MaxStep
    BY <1>0, HistoryAssumption DEF TypeOK, Counted
  <2>3. hwt' \in Seq(1 .. MaxStep) /\ Len(hwt') = Len(hwt) + 1 /\ Len(hwt) \in Nat
    BY <1>0, <2>2, AppendProperties DEF TypeOK
  <2>4. TypeOK' /\ RowsMatchSteps'
    BY <1>0, <2>1, <2>3 DEF TypeOK, RowsMatchSteps
  <2>5. Counted' /\ Stream'
    BY <1>0, <2>3 DEF Counted, Stream, TypeOK
  <2>6. ~openmp' => ThreadsKeepPace' /\ WorkerIsSeen'
    BY DEF IInv, ThreadsKeepPace, WorkerIsSeen, Visited, Read
  <2> QED BY <2>4, <2>5, <2>6 DEF IInv
<1>9. ASSUME NextPeriod PROVE IInv'
  <2> USE <1>9 DEF NextPeriod
  <2>1. TypeOK' /\ RowsMatchSteps'
    BY <1>0 DEF TypeOK, RowsMatchSteps
  <2>2. Counted' /\ Stream'
    BY <1>0 DEF Counted, Stream
  <2>3. ~openmp' => ThreadsKeepPace' /\ WorkerIsSeen'
    BY DEF IInv, ThreadsKeepPace, WorkerIsSeen, Visited, Read
  <2> QED BY <2>1, <2>2, <2>3 DEF IInv
<1>10. ASSUME Aggregate \/ Finalize PROVE IInv'
  <2>1. /\ Send /\ pc # "over" /\ pc' \in {"idle", "over"}
        /\ pc' = "idle" => pc = "checks"
        /\ UNCHANGED <<openmp, step, alive, todo, lwp, hwt, node>>
    BY <1>10 DEF Aggregate, Finalize
  <2>2. /\ cursor' \in Nat /\ sent' \in Seq(Nat)
        /\ \A i \in 1 .. Len(sent') : sent'[i] <= cursor'
        /\ \A i, j \in 1 .. Len(sent') : i < j => sent'[i] < sent'[j]
        /\ ~openmp => /\ \A i \in 1 .. Len(sent') : sent'[i] = i
                      /\ Len(sent') = Len(hwt)
        /\ ~openmp /\ pc = "checks" => cursor' = Len(hwt)
    BY <2>1, SendKeeps
  <2>3. TypeOK' /\ RowsMatchSteps'
    BY <1>0, <2>1, <2>2 DEF TypeOK, RowsMatchSteps
  <2>4. Counted' /\ Stream'
    BY <1>0, <2>1, <2>2 DEF Counted, Stream
  <2>5. ~openmp' => ThreadsKeepPace' /\ WorkerIsSeen'
    BY <2>1 DEF IInv, ThreadsKeepPace, WorkerIsSeen, Visited, Read
  <2> QED BY <2>3, <2>4, <2>5 DEF IInv
<1>11. ASSUME UNCHANGED vars PROVE IInv'
  BY <1>11 DEF vars, IInv, TypeOK, RowsMatchSteps, Counted, Stream, ThreadsKeepPace, WorkerIsSeen, Visited, Read
<1> QED
  BY <1>1, <1>2, <1>3, <1>4, <1>5, <1>6, <1>7, <1>8, <1>9, <1>10, <1>11
  DEF Next, Application, Periods, Over

-----------------------------------------------------------------------------
(* Theorems.                                                               *)

\* The invariant holds always.
LEMMA Invariance == Spec => []IInv
BY InitInv, NextInv, PTL DEF Spec

\* Every variable stays in its range, with any number of threads, sensors and
\* periods (software.h 120-180, hardware.h 60-120, zerosum.cpp 366-394).
THEOREM TypeCorrect == Spec => []TypeOK
<1>1. IInv => TypeOK
  BY DEF IInv
<1> QED BY <1>1, Invariance, PTL

\* Whatever threads vanish, come back or announce themselves in a scan, the
\* values and steps that LWP::fieldsToCSV and toCSV pair belong together.
THEOREM RowsStayInLine == Spec => []RowsMatchSteps
<1>1. IInv => RowsMatchSteps
  BY DEF IInv
<1> QED BY <1>1, Invariance, PTL

\* The one cursor of computeNode.toCSV() and process.toCSV() sends the rows of
\* the hardware threads at most once, in order, and all without OpenMP.
THEOREM RowsAreSentOnce == Spec => []HwtSentOnce
<1>1. IInv => HwtSentOnce
  BY DEF IInv, Stream, HwtSentOnce
<1> QED BY <1>1, Invariance, PTL

=============================================================================
