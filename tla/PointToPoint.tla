---------------------------- MODULE PointToPoint ----------------------------
(***************************************************************************)
(* The accounting of MPI point-to-point calls.  Every wrapper counts its   *)
(* call and the bytes it asks for under the peer's rank in MPI_COMM_WORLD, *)
(* before it makes the real call.  The peer is named by its rank in some   *)
(* communicator; the translation is remembered for the communicator's      *)
(* handle, and the MPI library may free and reuse handles.                 *)
(*                                                                         *)
(* MPI itself is external: communicators, messages in flight and posted    *)
(* receives.  A blocking call is one that its process waits for, so that   *)
(* blocking and nonblocking calls leave the same records.                  *)
(***************************************************************************)
EXTENDS Sequences, Integers, Functions

CONSTANTS
  N,         \* processes in MPI_COMM_WORLD
  Handles,   \* handles of other communicators
  Groups,    \* their groups: functions from ranks to world ranks
  Reuse,     \* may a freed handle be given out again?
  Sizes,     \* sizes of messages
  Buffers,   \* sizes of receive buffers
  MaxCalls   \* bound on the sends and receives in a run

Ranks     == 0 .. (N - 1)
AnySource == -2
ProcNull  == -1
Peers     == Ranks \cup {AnySource, ProcNull}
World     == "MPI_COMM_WORLD"
Free      == <<>>

ASSUME PointToPointAssumption ==
  /\ N \in Nat \ {0}
  /\ World \notin Handles
  /\ \A g \in Groups : /\ DOMAIN g \subseteq Ranks
                       /\ g \in Injection(DOMAIN g, Ranks)
  /\ Free \notin Groups
  /\ Reuse \in BOOLEAN
  /\ Sizes \subseteq Nat /\ Buffers \subseteq Nat /\ MaxCalls \in Nat

VARIABLES
  comm,      \* the group behind each handle, or Free
  given,     \* handles that were given out so far
  cache,     \* comms in translateRankToWorld(), per process and handle
  sent,      \* sentBytes of each process
  recv,      \* recvBytes of each process
  flight,    \* messages that are not received yet, in the order of their calls
  posted,    \* receives of each process that wait for a message
  told,      \* truth: what each process gave to MPI for each rank
  calls      \* sends and receives so far (a bound)

vars == <<comm, given, cache, sent, recv, flight, posted, told, calls>>

Zero == [calls |-> 0, bytes |-> 0]

Init ==
  /\ comm = [h \in Handles |-> Free] /\ given = {}
  /\ cache = [p \in Ranks |-> [h \in Handles |-> <<>>]]
  /\ sent = [p \in Ranks |-> [q \in Peers |-> Zero]]
  /\ recv = [p \in Ranks |-> [q \in Peers |-> Zero]]
  /\ flight = <<>> /\ posted = [p \in Ranks |-> <<>>]
  /\ told = [p \in Ranks |-> [q \in Ranks |-> Zero]]
  /\ calls = 0

\* k operations of a wrapper: a send, a receive or both.
Ops(k) == calls + k <= MaxCalls /\ calls' = calls + k

-----------------------------------------------------------------------------
(* Ranks and their translation.                                            *)

GroupOf(h) == IF h = World THEN [r \in Ranks |-> r] ELSE comm[h]

\* The communicators that p is a member of, and the ranks it can name there.
Usable(p, h) == p \in Range(GroupOf(h))
Named(h)     == DOMAIN GroupOf(h) \cup {ProcNull}

\* What MPI makes of a rank: the special values stay themselves.
WorldRank(h, r) == IF r \in DOMAIN GroupOf(h) THEN GroupOf(h)[r] ELSE r

\* Mutant: the wildcard is looked up and remembered like a rank.
Direct_NoWildcard(h, r) == h = World

\* The calls that do not look at the remembered ranks.
Direct(h, r) == r = AnySource \/ h = World

\* Mutant: one map of ranks for all communicators.
Translated_OneMap(p, h, r) ==
  IF Direct(h, r) THEN r
  ELSE IF \E k \in Handles : r \in DOMAIN cache[p][k]
       THEN cache[p][CHOOSE k \in Handles : r \in DOMAIN cache[p][k]][r]
       ELSE WorldRank(h, r)

\* translateRankToWorld(): the answer,
Translated(p, h, r) ==
  IF Direct(h, r) THEN r
  ELSE IF r \in DOMAIN cache[p][h] THEN cache[p][h][r]
  ELSE WorldRank(h, r)

\* and what it leaves behind.
Remember(c, p, h, r) ==
  IF Direct(h, r) \/ r \in DOMAIN c[p][h] THEN c
  ELSE [c EXCEPT ![p][h] = [x \in DOMAIN c[p][h] \cup {r} |->
                              IF x = r THEN WorldRank(h, r) ELSE c[p][h][x]]]

-----------------------------------------------------------------------------
(* The wrappers.                                                           *)

\* recordSentBytes() and recordRecvBytes().
Record(table, p, q, s) ==
  [table EXCEPT ![p][q] = [calls |-> @.calls + 1, bytes |-> @.bytes + s]]

\* The external part of a send and of a receive. MPI_PROC_NULL: nothing happens.
Launch(p, h, d, s) ==
  IF d = ProcNull THEN UNCHANGED <<flight, told>>
  ELSE /\ flight' = Append(flight, [comm |-> h, src |-> p, dst |-> WorldRank(h, d), size |-> s])
       /\ told' = Record(told, p, WorldRank(h, d), s)

Post(p, h, r, s) ==
  IF r = ProcNull THEN UNCHANGED posted
  ELSE posted' = [posted EXCEPT ![p] = Append(@, [comm |-> h, from |-> WorldRank(h, r), size |-> s])]

\* MPI_Send, Bsend, Rsend, Ssend, Isend.
Send(p, h, d, s) ==
  /\ Ops(1) /\ Usable(p, h) /\ d \in Named(h)
  /\ sent' = Record(sent, p, Translated(p, h, d), s)
  /\ cache' = Remember(cache, p, h, d)
  /\ Launch(p, h, d, s)
  /\ UNCHANGED <<comm, given, recv, posted>>

\* Mutant: the source's rank is not translated.
Recv_Untranslated(p, h, r, s) ==
  /\ Ops(1) /\ Usable(p, h) /\ r \in Named(h) \cup {AnySource}
  /\ recv' = Record(recv, p, r, s)
  /\ cache' = Remember(cache, p, h, r)
  /\ Post(p, h, r, s)
  /\ UNCHANGED <<comm, given, sent, flight, told>>

\* MPI_Recv, Irecv: the size is that of the buffer.
Recv(p, h, r, s) ==
  /\ Ops(1) /\ Usable(p, h) /\ r \in Named(h) \cup {AnySource}
  /\ recv' = Record(recv, p, Translated(p, h, r), s)
  /\ cache' = Remember(cache, p, h, r)
  /\ Post(p, h, r, s)
  /\ UNCHANGED <<comm, given, sent, flight, told>>

\* MPI_Sendrecv.
Sendrecv(p, h, d, s, r, t) ==
  /\ Ops(2) /\ Usable(p, h) /\ d \in Named(h) /\ r \in Named(h) \cup {AnySource}
  /\ sent' = Record(sent, p, Translated(p, h, d), s)
  /\ recv' = Record(recv, p, Translated(p, h, r), t)
  /\ cache' = Remember(Remember(cache, p, h, d), p, h, r)
  /\ Launch(p, h, d, s) /\ Post(p, h, r, t)
  /\ UNCHANGED <<comm, given>>

-----------------------------------------------------------------------------
(* The MPI library.                                                        *)

\* Receive r of process q can take message m.
Fits(q, r, m) == m.dst = q /\ m.comm = r.comm /\ r.from \in {AnySource, m.src}

\* Message j meets receive i of q: messages of one sender do not overtake each
\* other and a message takes the first receive it fits.
Match(q) ==
  \E i \in DOMAIN posted[q], j \in DOMAIN flight :
    /\ Fits(q, posted[q][i], flight[j]) /\ flight[j].size <= posted[q][i].size
    /\ \A k \in 1 .. (i - 1) : ~Fits(q, posted[q][k], flight[j])
    /\ \A k \in 1 .. (j - 1) :
         ~(flight[k].comm = flight[j].comm /\ flight[k].src = flight[j].src
           /\ flight[k].dst = q)
    /\ posted' = [posted EXCEPT ![q] = SubSeq(@, 1, i - 1) \o SubSeq(@, i + 1, Len(@))]
    /\ flight' = SubSeq(flight, 1, j - 1) \o SubSeq(flight, j + 1, Len(flight))
    /\ UNCHANGED <<comm, given, cache, sent, recv, told, calls>>

\* A collective call of the group's members; they share the handle's name.
CommCreate(h, g) ==
  /\ comm[h] = Free /\ (Reuse \/ h \notin given)
  /\ comm' = [comm EXCEPT ![h] = g] /\ given' = given \cup {h}
  /\ UNCHANGED <<cache, sent, recv, flight, posted, told, calls>>

\* A handle becomes free when no call on it is pending. ZeroSum does not wrap
\* MPI_Comm_free: what it remembers stays.
CommFree(h) ==
  /\ comm[h] # Free
  /\ \A j \in DOMAIN flight : flight[j].comm # h
  /\ \A p \in Ranks : \A i \in DOMAIN posted[p] : posted[p][i].comm # h
  /\ comm' = [comm EXCEPT ![h] = Free]
  /\ UNCHANGED <<given, cache, sent, recv, flight, posted, told, calls>>

-----------------------------------------------------------------------------
Wrapped(p) ==
  \E h \in Handles \cup {World}, s \in Sizes, t \in Buffers, d, r \in Peers :
    \/ Send(p, h, d, s)
    \/ Recv(p, h, r, t)
    \/ Sendrecv(p, h, d, s, r, t)

Library ==
  \/ \E q \in Ranks : Match(q)
  \/ \E h \in Handles : CommFree(h) \/ \E g \in Groups : CommCreate(h, g)

\* The application may stop at any time.
Stop == UNCHANGED vars

Next == (\E p \in Ranks : Wrapped(p)) \/ Library \/ Stop

Spec == Init /\ [][Next]_vars

-----------------------------------------------------------------------------
(* Properties.                                                             *)

Entry   == [calls : Nat, bytes : Nat]
Message == [comm : Handles \cup {World}, src : Ranks, dst : Ranks, size : Nat]
Receive == [comm : Handles \cup {World}, from : Ranks \cup {AnySource}, size : Nat]

\* Every variable stays in its range; only peers are remembered and
\* recorded, and nothing is remembered for the wildcard.
CommTyped == comm \in [Handles -> Groups \cup {Free}] /\ given \subseteq Handles

RankMaps(c) ==
  /\ DOMAIN c = Ranks
  /\ \A p \in Ranks : DOMAIN c[p] = Handles
  /\ \A p \in Ranks, h \in Handles : /\ c[p][h] \in [DOMAIN c[p][h] -> Peers]
                                     /\ AnySource \notin DOMAIN c[p][h]

CacheTyped == RankMaps(cache)

TablesTyped ==
  /\ sent \in [Ranks -> [Peers -> Entry]] /\ recv \in [Ranks -> [Peers -> Entry]]
  /\ told \in [Ranks -> [Ranks -> Entry]]

MessagesTyped ==
  flight \in Seq(Message) /\ posted \in [Ranks -> Seq(Receive)] /\ calls \in 0 .. MaxCalls

TypeOK == CommTyped /\ CacheTyped /\ TablesTyped /\ MessagesTyped

\* What is logged as sent to a rank is what MPI got for that rank, through
\* whichever communicators, in any order and with any remembered ranks, as long
\* as the library does not give a freed handle out again (SentAsLogged).
SentTrue == ~Reuse => \A p, q \in Ranks : sent[p][q] = told[p][q]

\* The logs of two processes agree once nothing is under way to the receiver:
\* it has counted as many calls from each sender as that has counted to it,
\* with at least their bytes, if it never used MPI_ANY_SOURCE, and the totals
\* agree in any case.
Settled(q) == posted[q] = <<>> /\ \A j \in DOMAIN flight : flight[j].dst # q

CallsTo(q)   == SumFunction([p \in Ranks |-> sent[p][q].calls])
CallsFrom(q) == SumFunction([p \in Peers \ {ProcNull} |-> recv[q][p].calls])

Balanced ==
  ~Reuse => \A q \in Ranks : Settled(q) =>
    /\ CallsFrom(q) = CallsTo(q)
    /\ recv[q][AnySource] = Zero =>
         \A p \in Ranks : /\ recv[q][p].calls = sent[p][q].calls
                          /\ recv[q][p].bytes >= sent[p][q].bytes

-----------------------------------------------------------------------------
(* What the log says and the code does not do.                             *)

\* SentTrue whatever handles the library gives out: the log's lines say "Sent
\* ... bytes to rank ... in ... calls".
SentAsLogged == \A p, q \in Ranks : sent[p][q] = told[p][q]

=============================================================================
