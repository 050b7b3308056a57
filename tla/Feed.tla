-------------------------------- MODULE Feed --------------------------------
(***************************************************************************)
(* What an aggregator may rely on, whatever the sockets, threads and times *)
(* behind it: rows reach it at most once and in the order of their steps;  *)
(* what does not reach it is a batch as a whole, and never comes later.    *)
(***************************************************************************)
EXTENDS Naturals, Sequences

VARIABLES
  taken,    \* the last row that was taken for a batch
  pending,  \* the batch under way
  got       \* what has arrived

feed == <<taken, pending, got>>

FeedInit == taken = 0 /\ pending = <<>> /\ got = <<>>

Advance == taken' \in Nat /\ taken' > taken

Take ==
  /\ pending = <<>> /\ Advance
  /\ pending' = [i \in 1..(taken' - taken) |-> taken + i]
  /\ UNCHANGED got

\* Rows that nobody asks for are passed over.
Pass ==
  /\ Advance
  /\ UNCHANGED <<pending, got>>

Deliver ==
  /\ got' = got \o pending
  /\ pending' = <<>>
  /\ UNCHANGED taken

Lose ==
  /\ pending' = <<>>
  /\ UNCHANGED <<taken, got>>

FeedNext == Take \/ Pass \/ Deliver \/ Lose

FeedSpec == FeedInit /\ [][FeedNext]_feed
=============================================================================
