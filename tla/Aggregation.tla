----------------------------- MODULE Aggregation -----------------------------
(***************************************************************************)
(* writeToLocalAggregator: for every batch of rows a socket of its own,    *)
(* which waits for a peer, hands the message over and lingers in its       *)
(* destructor. A row is that of the hardware threads for a step, where no  *)
(* thread's history is longer than theirs; the other rows, and the cursor  *)
(* where they differ, are those of SampleHistory.                          *)
(***************************************************************************)
EXTENDS Integers, Sequences, FiniteSets

CONSTANTS
  MaxOutages,  \* bound: how often the aggregator goes away
  MaxFails     \* bound: how often libzmq throws, as in a call that a signal interrupts

ASSUME AggregationAssumption == MaxOutages \in Nat /\ MaxFails \in Nat

VARIABLES
  cursor,    \* lastStepWritten
  batch,     \* the rows under way, in order
  link,      \* "idle", "blocked" in send(), "handed" over to libzmq
  peer,      \* is an aggregator there?
  received,  \* what aggregators have received, in order
  lost,      \* rows that no one will send again
  outages, fails

aggregation == <<cursor, batch, link, peer, received, lost, outages, fails>>

\* Mutant: the row under way is taken, too.
Rows_OneMore(from, to) == [i \in 1..(to - from + 1) |-> from + i]

Rows(from, to) == [i \in 1..(to - from) |-> from + i]
Elements(s)    == {s[i] : i \in DOMAIN s}

AggregationInit ==
  /\ cursor = 0 /\ batch = <<>> /\ link = "idle"
  /\ peer \in BOOLEAN
  /\ received = <<>> /\ lost = {} /\ outages = 0 /\ fails = 0

\* Mutants: the cursor stays; rows are taken from the start.
StartSend_KeepsCursor(n) ==
  /\ link = "idle"
  /\ batch' = Rows(cursor, n)
  /\ link' = "blocked"
  /\ UNCHANGED <<cursor, peer, received, lost, outages, fails>>

\* toCSV() takes the rows since the last batch and moves the cursor; then a
\* socket connects (ZMQ_IMMEDIATE: no message before a peer is there).
StartSend(n) ==
  /\ link = "idle"
  /\ batch' = Rows(cursor, n)
  /\ cursor' = n
  /\ link' = "blocked"
  /\ UNCHANGED <<peer, received, lost, outages, fails>>

\* finalizeLog() of a process that does not aggregate: the cursor moves all the same.
Skip(n) ==
  /\ cursor' = n
  /\ lost' = lost \cup (cursor + 1)..n
  /\ UNCHANGED <<batch, link, peer, received, outages, fails>>

\* The blocking send() has found a peer.
Accept ==
  /\ link = "blocked" /\ peer
  /\ link' = "handed"
  /\ UNCHANGED <<cursor, batch, peer, received, lost, outages, fails>>

\* The destructors linger until the message is out, or its peer gone.
Delivered ==
  /\ link = "handed" /\ peer
  /\ received' = received \o batch
  /\ batch' = <<>> /\ link' = "idle"
  /\ UNCHANGED <<cursor, peer, lost, outages, fails>>

Dropped ==
  /\ link = "handed" /\ ~peer
  /\ lost' = lost \cup Elements(batch)
  /\ batch' = <<>> /\ link' = "idle"
  /\ UNCHANGED <<cursor, peer, received, outages, fails>>

\* Mutant: after an error the rows are put back.
Failed_Retries ==
  /\ link = "blocked" /\ fails < MaxFails
  /\ fails' = fails + 1
  /\ cursor' = cursor - Len(batch)
  /\ batch' = <<>> /\ link' = "idle"
  /\ UNCHANGED <<peer, received, lost, outages>>

\* zmq::error_t: the caller ignores the return code, the rows are not kept.
Failed ==
  /\ link = "blocked" /\ fails < MaxFails
  /\ fails' = fails + 1
  /\ lost' = lost \cup Elements(batch)
  /\ batch' = <<>> /\ link' = "idle"
  /\ UNCHANGED <<cursor, peer, received, outages>>

SendEnds == Delivered \/ Dropped \/ Failed

PeerGoes ==
  /\ peer /\ outages < MaxOutages
  /\ peer' = FALSE /\ outages' = outages + 1
  /\ UNCHANGED <<cursor, batch, link, received, lost, fails>>

PeerComes ==
  /\ ~peer /\ peer' = TRUE
  /\ UNCHANGED <<cursor, batch, link, received, lost, outages, fails>>

-----------------------------------------------------------------------------
(* Properties.                                                             *)

\* Every row up to the cursor is in exactly one place: received, under way, or
\* lost with a send that failed or a peer that went (zerosum_zmq.cpp 38-83,
\* zerosum.cpp 126-140, 385-393).
RowsAccounted ==
  /\ Elements(received) \cup Elements(batch) \cup lost = 1..cursor
  /\ Len(received) + Len(batch) + Cardinality(lost) = cursor
=============================================================================
