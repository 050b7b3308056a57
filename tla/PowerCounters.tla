---------------------------- MODULE PowerCounters ----------------------------
(***************************************************************************)
(* cray_pm_counters: files of the node's controller, which the controller  *)
(* rewrites while they are read one after the other.                       *)
(***************************************************************************)
EXTENDS Integers, Sequences, Functions

CONSTANTS
  Energies,   \* the counters in Joules
  Gauges,     \* the other ones
  MaxFds,     \* how many files a process can have open
  MaxRefresh  \* bound: updates by the controller

Counters == Energies \cup Gauges

ASSUME PowerCountersAssumption ==
  /\ Energies \cap Gauges = {}
  /\ MaxFds \in Nat /\ MaxRefresh \in Nat

VARIABLES
  fresh, generation, value,      \* the files
  previousFreshness, previousGeneration, previous,
  reading,   \* "new" and "newGeneration" in the constructor, "idle" between two
             \* scans, "freshness", "generation" and "values" in one
  todo,      \* counters still to be read in this scan, or by the constructor
  row,       \* the fields of this scan
  rows,      \* ghost: the scans so far
  start,     \* ghost: the energies the constructor read
  fds,       \* files that are open
  crashed    \* getline() was given a null FILE*

power == <<fresh, generation, value, previousFreshness, previousGeneration,
           previous, reading, todo, row, rows, start, fds, crashed>>
files  == <<fresh, generation, value>>

\* The constructor has opened the directory; previous values are not yet there.
PowerInit ==
  /\ fresh = 1 /\ generation = 1 /\ value = [c \in Counters |-> 0]
  /\ previousFreshness = 0 /\ previousGeneration = 0
  /\ previous = [c \in Counters |-> 0] /\ start = previous
  /\ reading = "new" /\ todo = Counters /\ row = <<>> /\ rows = <<>>
  /\ fds = 1 /\ crashed = FALSE

\* The controller updates its files.
Refresh ==
  /\ fresh <= MaxRefresh
  /\ fresh' = fresh + 1
  /\ \E g \in {generation, generation + 1} : generation' = g
  /\ \E e \in {1, 2} : value' = [c \in Counters |-> IF c \in Energies THEN value[c] + e ELSE e]
  /\ UNCHANGED <<previousFreshness, previousGeneration, previous, reading, todo,
                 row, rows, start, fds, crashed>>

\* fopen() fails when no descriptor is left, and nobody looks.
Opens == fds < MaxFds

\* Mutant: get_with_unit() leaves its file open, too.
ClosedAfterwards_No == fds + 1

ClosedAfterwards == fds   \* fclose()
LeftOpen == fds + 1       \* get_unitless() returns from inside its loop

Opening == reading # "idle" /\ (reading = "values" => todo # {})

Crash ==
  /\ Opening /\ ~Opens /\ ~crashed
  /\ crashed' = TRUE
  /\ UNCHANGED <<files, previousFreshness, previousGeneration, previous, reading,
                 todo, row, rows, start, fds>>

\* The constructor reads the counters in the order of the directory, ...
ConstructValue(c) ==
  /\ reading = "new" /\ c \in todo /\ Opens /\ ~crashed
  /\ previous' = [previous EXCEPT ![c] = value[c]]
  /\ start' = [start EXCEPT ![c] = value[c]]
  /\ fds' = ClosedAfterwards
  /\ todo' = todo \ {c}
  /\ UNCHANGED <<files, previousFreshness, previousGeneration, reading, row, rows, crashed>>

\* ... then freshness and generation, and closes the directory.
ConstructFreshness ==
  /\ reading = "new" /\ todo = {} /\ Opens /\ ~crashed
  /\ previousFreshness' = fresh
  /\ fds' = LeftOpen
  /\ reading' = "newGeneration"
  /\ UNCHANGED <<files, previousGeneration, previous, todo, row, rows, start, crashed>>

ConstructGeneration ==
  /\ reading = "newGeneration" /\ Opens /\ ~crashed
  /\ previousGeneration' = generation
  /\ fds' = LeftOpen - 1
  /\ reading' = "idle"
  /\ UNCHANGED <<files, previousFreshness, previous, todo, row, rows, start, crashed>>

\* read_counters(), called by doPeriodic().
StartRead ==
  /\ reading = "idle"
  /\ reading' = "freshness"
  /\ UNCHANGED <<files, previousFreshness, previousGeneration, previous, todo, row,
                 rows, start, fds, crashed>>

Renewed == fresh   \* previous_freshness = new_freshness

ReadFreshness ==
  /\ reading = "freshness" /\ Opens /\ ~crashed
  /\ row' = [valid |-> fresh > previousFreshness]
  /\ previousFreshness' = Renewed
  /\ fds' = LeftOpen
  /\ reading' = "generation"
  /\ UNCHANGED <<files, previousGeneration, previous, todo, rows, start, crashed>>

ReadGeneration ==
  /\ reading = "generation" /\ Opens /\ ~crashed
  /\ row' = [valid |-> row.valid, changed |-> generation > previousGeneration,
             fields |-> <<>>]
  /\ previousGeneration' = generation
  /\ fds' = LeftOpen
  /\ todo' = Counters
  /\ reading' = "values"
  /\ UNCHANGED <<files, previousFreshness, previous, rows, start, crashed>>

\* Mutant: the previous value is kept.
Remember_First(c) == previous

\* std::get<1>(p.second) = tmpint, for counters in Joules.
Remember(c) == IF c \in Energies THEN [previous EXCEPT ![c] = value[c]] ELSE previous

ReadValue(c) ==
  /\ reading = "values" /\ c \in todo /\ Opens /\ ~crashed
  /\ row' = [row EXCEPT !.fields = Append(@, [counter |-> c,
               v |-> IF c \in Energies THEN value[c] - previous[c] ELSE value[c]])]
  /\ previous' = Remember(c)
  /\ fds' = ClosedAfterwards
  /\ todo' = todo \ {c}
  /\ UNCHANGED <<files, previousFreshness, previousGeneration, reading, rows, start,
                 crashed>>

EndRead ==
  /\ reading = "values" /\ todo = {} /\ ~crashed
  /\ reading' = "idle"
  /\ rows' = Append(rows, row) /\ row' = <<>>
  /\ UNCHANGED <<files, previousFreshness, previousGeneration, previous, todo, start,
                 fds, crashed>>

Scan ==
  \/ StartRead \/ ReadFreshness \/ ReadGeneration
  \/ \E c \in Counters : ReadValue(c)
  \/ EndRead

Construct ==
  \/ \E c \in Counters : ConstructValue(c)
  \/ ConstructFreshness \/ ConstructGeneration

Crashed == crashed /\ UNCHANGED power

PowerNext == Refresh \/ Construct \/ Scan \/ Crash \/ Crashed

PowerSpec == PowerInit /\ [][PowerNext]_power

-----------------------------------------------------------------------------
(* Properties.                                                             *)

RowSum(r, c) ==
  SumFunction([i \in DOMAIN r.fields |-> IF r.fields[i].counter = c THEN r.fields[i].v ELSE 0])
Reported(c) == SumFunction([k \in DOMAIN rows |-> RowSum(rows[k], c)])

\* Between two scans the energies that were reported add up to what the counter
\* has gained since the constructor read it, although the controller updates it
\* at any point of a scan, or of the constructor, and whatever the flags say
\* (cray_pm_counters.cpp 74-152).
EnergyOnce ==
  reading = "idle" =>
    \A c \in Energies : Reported(c) = previous[c] - start[c]

\* The two files that every scan leaves open are all that it leaves open: a
\* process with room for n of them completes at least n/2 - 2 scans before
\* getline() meets a null pointer (cray_pm_counters.cpp 37-54, 118-127).
LastsToLimit == crashed => 2 * (Len(rows) + 2) >= MaxFds
=============================================================================
