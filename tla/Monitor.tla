------------------------------- MODULE Monitor -------------------------------
(***************************************************************************)
(* The worker between its clock and the aggregator, and the main thread    *)
(* that shuts it down: the loop of Cadence with the sends of Aggregation   *)
(* in it. Signals, the log file, crashes and the time limit (a year, where *)
(* it is not set) are those of Lifecycle.                                  *)
(***************************************************************************)
EXTENDS Cadence, Aggregation

CONSTANTS
  AggPeriod,  \* ZS_AGGREGATOR_PERIOD
  Durations,  \* bound: how long a piece of work may take
  MaxSteps    \* bound: the samples of a run

ASSUME MonitorAssumption ==
  /\ AggPeriod \in Nat /\ AggPeriod >= Period   \* the defaults are 10 and 1
  /\ Durations \subseteq Nat /\ MaxSteps \in Nat

VARIABLES
  main,         \* "runs", "joins", "sends" or "ended"
  aggregating,  \* ZS_WRITE_TO_AGGREGATOR
  due,          \* then2
  stopFile,     \* ./zerosum.stop is there
  died          \* the process got its own SIGQUIT

control == <<main, aggregating, due, stopFile, died>>
vars    == <<cadence, aggregation, control>>

\* phase has four more values: the worker sends, says farewell, or returned.
WorkerSends == {"send", "farewell"}

TypeOK ==
  /\ {clock, prev, then, step, began, work, excess, due, cursor} \subseteq Nat
  /\ stop \in Int
  /\ phase \in Phases \cup WorkerSends \cup {"left"}
  /\ main \in {"runs", "joins", "sends", "ended"}
  /\ link \in {"idle", "blocked", "handed"}
  /\ {aggregating, stopFile, died, peer} \subseteq BOOLEAN
  /\ {received, batch} \subseteq Seq(Nat) /\ lost \subseteq Nat

Init ==
  /\ CadenceInit /\ AggregationInit
  /\ main = "runs" /\ aggregating \in BOOLEAN /\ due = AggPeriod
  /\ stopFile = FALSE /\ died = FALSE

working == main = "runs"

\* while (working)
Iterate ==
  /\ working /\ step < MaxSteps /\ Top
  /\ UNCHANGED <<aggregation, control>>

Leave ==
  /\ \/ phase = "top" /\ ~working
     \/ phase = "wait" /\ ~working
  /\ phase' = "left"
  /\ UNCHANGED <<clock, prev, then, stop, step, began, work, excess, aggregation, control>>

\* doOnce() is through, or not needed any more.
Initialize ==
  /\ \E d \in IF step = 0 THEN Durations ELSE {0} : Once(d)
  /\ UNCHANGED <<aggregation, control>>

\* Mutant: the loop around doOnce() does not look at working.
Uninitialized_Spins ==
  /\ phase = "once" /\ step = 0 /\ ~working
  /\ UNCHANGED vars

\* The application ends before MPI is there: nothing is sampled.
Uninitialized ==
  /\ phase = "once" /\ step = 0 /\ ~working
  /\ phase' = "wait"
  /\ UNCHANGED <<clock, prev, then, stop, step, began, work, excess, aggregation, control>>

SampleStep ==
  /\ ~stopFile
  /\ Begin /\ \E d \in Durations : Sampled(d)
  /\ UNCHANGED <<aggregation, control>>

\* The sample is taken, then checkForStop() finds the file: finalizeLog() by the
\* worker.
FarewellStep ==
  /\ phase = "sample" /\ stopFile
  /\ Begin /\ \E d \in Durations : Spend(d)
  /\ IF aggregating THEN StartSend(step + 1) ELSE Skip(step + 1)
  /\ phase' = "farewell"
  /\ UNCHANGED <<prev, then, stop, excess, control>>

\* The send took its time; pthread_kill() with a process id: the process dies of it,
\* or nothing happens.
AfterFarewell ==
  /\ phase = "farewell"
  /\ IF aggregating THEN SendEnds ELSE UNCHANGED aggregation
  /\ \E d \in IF aggregating THEN Durations ELSE {0} : Spend(d)
  /\ \/ died' = TRUE  /\ UNCHANGED phase
     \/ died' = FALSE /\ phase' = "wait"
  /\ UNCHANGED <<prev, then, stop, step, began, excess, main, aggregating, due, stopFile>>

TimeOut ==
  /\ working /\ \E late \in {0, 1} : Wake(late)
  /\ UNCHANGED <<aggregation, control>>

Due == aggregating /\ clock > due

NotDue ==
  /\ ~Due /\ Finish(0)
  /\ UNCHANGED <<aggregation, control>>

\* Mutant: the expiration time is not set anew.
Later_Not == due

Later == due + AggPeriod

SendBatch ==
  /\ phase = "after" /\ Due
  /\ StartSend(step)
  /\ due' = Later
  /\ phase' = "send"
  /\ UNCHANGED <<clock, prev, then, stop, step, began, work, excess, main, aggregating,
                 stopFile, died>>

\* The worker returns from the send after the time that it took.
BatchEnds ==
  /\ phase = "send" /\ SendEnds
  /\ \E d \in Durations :
       /\ clock' = clock + d
       /\ excess' = excess + AtLeast0(work + d - Period)
  /\ work' = 0 /\ phase' = "top"
  /\ UNCHANGED <<prev, then, stop, step, began, control>>

SendFindsPeer == Accept /\ UNCHANGED <<cadence, control>>

Worker ==
  \/ Iterate \/ Leave \/ Initialize \/ Uninitialized
  \/ SampleStep \/ FarewellStep \/ AfterFarewell
  \/ TimeOut \/ NotDue \/ SendBatch \/ BatchEnds

\* shutdown(): working is cleared, the worker woken up and joined.
Shutdown ==
  /\ main = "runs" /\ main' = "joins"
  /\ UNCHANGED <<cadence, aggregation, aggregating, due, stopFile, died>>

\* Mutant: nobody joins the worker.
Joinable_Always == main = "joins"

Joinable == main = "joins" /\ phase = "left"

\* finalizeLog() by the main thread.
Joined ==
  /\ Joinable
  /\ IF aggregating
     THEN StartSend(step) /\ main' = "sends"
     ELSE Skip(step) /\ main' = "ended"
  /\ UNCHANGED <<cadence, aggregating, due, stopFile, died>>

Farewelled ==
  /\ main = "sends" /\ SendEnds
  /\ main' = "ended"
  /\ UNCHANGED <<cadence, aggregating, due, stopFile, died>>

Main == Shutdown \/ Joined \/ Farewelled

CreateStopFile ==
  /\ ~stopFile /\ stopFile' = TRUE
  /\ UNCHANGED <<cadence, aggregation, main, aggregating, due, died>>

Aggregator == (PeerGoes \/ PeerComes) /\ UNCHANGED <<cadence, control>>

Ended == (main = "ended" \/ died) /\ UNCHANGED vars

Next ==
  \/ ~died /\ (Worker \/ SendFindsPeer \/ Main \/ CreateStopFile \/ Aggregator)
  \/ Ended

Spec == Init /\ [][Next]_vars

\* The threads run, the application ends, and an aggregator comes (back).
FairSpec ==
  /\ Spec
  /\ WF_vars(~died /\ Leave) /\ WF_vars(~died /\ Uninitialized)
  /\ WF_vars(~died /\ (SampleStep \/ FarewellStep)) /\ WF_vars(~died /\ AfterFarewell)
  /\ WF_vars(~died /\ (NotDue \/ SendBatch)) /\ WF_vars(~died /\ BatchEnds)
  /\ WF_vars(~died /\ step > 0 /\ Initialize)   \* MPI_Init may never come
  /\ WF_vars(~died /\ SendFindsPeer)
  /\ WF_vars(~died /\ Joined) /\ WF_vars(~died /\ Farewelled)
  /\ WF_vars(~died /\ PeerComes /\ UNCHANGED <<cadence, control>>)

-----------------------------------------------------------------------------
(* Properties.                                                             *)

\* The batches are behind by no more than a period and the time by which the
\* iterations overran: then2 moves by whole periods, one batch an iteration, and
\* still catches up after a late start (zerosum.cpp 99, 130-138).
BatchesCatchUp ==
  aggregating /\ phase = "top" => clock - due <= Period + excess

\* The main thread and the worker are never both in a send, and a row is never
\* sent for a step that has not begun (zerosum.cpp 126-140, 343-350, 385-393).
OneSender ==
  /\ main = "sends" => phase = "left"
  /\ link # "idle" => phase \in WorkerSends \/ main = "sends"
  /\ cursor <= step

F == INSTANCE Feed WITH taken <- cursor, pending <- batch, got <- received

\* What the aggregator sees is a feed: rows at most once, in order, batches as a
\* whole (zerosum_zmq.cpp 38-83).
ImplementsFeed == F!FeedSpec

\* shutdown() returns, even from a blocked send or an MPI_Init that never came,
\* if the aggregator stays away no more than finitely often; otherwise the
\* process has ended itself (zerosum.cpp 106-119, 343-367, zerosum_zmq.cpp 68).
ShutdownCompletes == main = "joins" ~> main = "ended" \/ died
=============================================================================
