-------------------------- MODULE PointToPointProofs --------------------------
(***************************************************************************)
(* Type correctness of PointToPoint, that what is counted as sent is what  *)
(* was sent, and that what is counted as received balances it once every   *)
(* message is matched, for any number of processes, communicators, groups. *)
(***************************************************************************)
EXTENDS PointToPoint, SumTheorems

-----------------------------------------------------------------------------
(* Lemmas about ranks and tables.                                          *)

\* The group of a usable communicator: a rank it knows has a world rank.
LEMMA GroupRanks ==
  ASSUME comm \in [Handles -> Groups \cup {Free}], NEW h \in Handles \cup {World}
  PROVE  /\ DOMAIN GroupOf(h) \subseteq Ranks
         /\ \A r \in DOMAIN GroupOf(h) : GroupOf(h)[r] \in Ranks
<1>1. CASE h = World
  BY <1>1 DEF GroupOf
<1>2. CASE h # World
  <2>1. h \in Handles /\ GroupOf(h) = comm[h]
    BY <1>2 DEF GroupOf
  <2>2. CASE comm[h] = Free
    BY <2>1, <2>2 DEF Free
  <2>3. CASE comm[h] \in Groups
    <3>1. DOMAIN comm[h] \subseteq Ranks /\ comm[h] \in [DOMAIN comm[h] -> Ranks]
      BY <2>3, PointToPointAssumption DEF Injection
    <3> QED
      BY <2>1, <3>1
  <2> QED
    BY <2>1, <2>2, <2>3
<1> QED
  BY <1>1, <1>2

\* The special values are no ranks.
LEMMA SpecialRanks == AnySource \notin Ranks /\ ProcNull \notin Ranks
BY PointToPointAssumption DEF AnySource, ProcNull, Ranks

\* A translated rank, MPI's or ZeroSum's, is a peer.
LEMMA WorldRankIsPeer ==
  ASSUME comm \in [Handles -> Groups \cup {Free}],
         NEW h \in Handles \cup {World}, NEW r \in Peers
  PROVE  /\ WorldRank(h, r) \in Peers
         /\ r \in Named(h) /\ r # ProcNull => WorldRank(h, r) \in Ranks
         /\ r \notin Ranks => WorldRank(h, r) = r
BY GroupRanks, SpecialRanks DEF WorldRank, Named, Peers

\* One more entry in a table leaves it a table.
LEMMA RecordTyped ==
  ASSUME NEW S, NEW table \in [Ranks -> [S -> Entry]],
         NEW p \in Ranks, NEW q \in S, NEW s \in Nat
  PROVE  Record(table, p, q, s) \in [Ranks -> [S -> Entry]]
BY DEF Record, Entry

-----------------------------------------------------------------------------
(* Type correctness.                                                       *)

\* Remembering a rank leaves a map of peers for each handle.
LEMMA RememberTyped ==
  ASSUME CommTyped, NEW c, RankMaps(c),
         NEW p \in Ranks, NEW h \in Handles \cup {World}, NEW r \in Peers
  PROVE  RankMaps(Remember(c, p, h, r))
<1> DEFINE d == Remember(c, p, h, r)
<1>1. CASE Direct(h, r) \/ r \in DOMAIN c[p][h]
  BY <1>1 DEF Remember
<1>2. CASE ~(Direct(h, r) \/ r \in DOMAIN c[p][h])
  <2> DEFINE new == [x \in DOMAIN c[p][h] \cup {r} |->
                       IF x = r THEN WorldRank(h, r) ELSE c[p][h][x]]
  <2>1. h \in Handles /\ r # AnySource
    BY <1>2 DEF Direct
  <2>2. c[p][h] \in [DOMAIN c[p][h] -> Peers] /\ AnySource \notin DOMAIN c[p][h]
    BY <2>1 DEF RankMaps
  <2>3. WorldRank(h, r) \in Peers
    BY WorldRankIsPeer DEF CommTyped
  <2>4. new \in [DOMAIN new -> Peers] /\ AnySource \notin DOMAIN new
    BY <2>1, <2>2, <2>3
  <2>5. d = [c EXCEPT ![p][h] = new]
    BY <1>2 DEF Remember
  <2> HIDE DEF new, d
  <2>6. DOMAIN d = Ranks /\ \A q \in Ranks : DOMAIN d[q] = Handles
    BY <2>5 DEF RankMaps
  <2>7. \A q \in Ranks, k \in Handles :
          d[q][k] = IF q = p /\ k = h THEN new ELSE c[q][k]
    BY <2>1, <2>5 DEF RankMaps
  <2>8. RankMaps(d)
    BY <2>4, <2>6, <2>7 DEF RankMaps
  <2> QED
    BY <2>8 DEF d
<1> QED
  BY <1>1, <1>2

\* What Translated() answers is a peer, too.
LEMMA TranslatedIsPeer ==
  ASSUME CommTyped, CacheTyped,
         NEW p \in Ranks, NEW h \in Handles \cup {World}, NEW r \in Peers
  PROVE  Translated(p, h, r) \in Peers
<1>1. WorldRank(h, r) \in Peers
  BY WorldRankIsPeer DEF CommTyped
<1>2. ~Direct(h, r) => h \in Handles
  BY DEF Direct
<1> QED
  BY <1>1, <1>2 DEF Translated, CacheTyped, RankMaps

\* The external part of the calls keeps messages and truth typed.
LEMMA LaunchTyped ==
  ASSUME TypeOK, NEW p \in Ranks, NEW h \in Handles \cup {World}, NEW d \in Named(h),
         d \in Peers, NEW s \in Nat, Launch(p, h, d, s)
  PROVE  flight' \in Seq(Message) /\ told' \in [Ranks -> [Ranks -> Entry]]
<1>1. CASE d = ProcNull
  BY <1>1 DEF Launch, TypeOK, TablesTyped, MessagesTyped
<1>2. CASE d # ProcNull
  <2>1. WorldRank(h, d) \in Ranks
    BY <1>2, WorldRankIsPeer DEF TypeOK, CommTyped
  <2>2. told' \in [Ranks -> [Ranks -> Entry]]
    <3>1. told' = Record(told, p, WorldRank(h, d), s)
      BY <1>2 DEF Launch
    <3>2. told \in [Ranks -> [Ranks -> Entry]]
      BY DEF TypeOK, TablesTyped
    <3> QED
      BY <2>1, <3>1, <3>2, RecordTyped
  <2>3. flight' \in Seq(Message)
    <3> DEFINE m == [comm |-> h, src |-> p, dst |-> WorldRank(h, d), size |-> s]
    <3>1. m \in Message
      BY <2>1 DEF Message
    <3>2. flight' = Append(flight, m)
      BY <1>2 DEF Launch
    <3> HIDE DEF m
    <3> QED
      BY <3>1, <3>2 DEF TypeOK, MessagesTyped
  <2> QED
    BY <2>2, <2>3
<1> QED
  BY <1>1, <1>2

LEMMA PostTyped ==
  ASSUME TypeOK, NEW p \in Ranks, NEW h \in Handles \cup {World},
         NEW r \in Named(h) \cup {AnySource}, r \in Peers, NEW s \in Nat, Post(p, h, r, s)
  PROVE  posted' \in [Ranks -> Seq(Receive)]
<1>1. CASE r = ProcNull
  BY <1>1 DEF Post, TypeOK, MessagesTyped
<1>2. CASE r # ProcNull
  <2>1. WorldRank(h, r) \in Ranks \cup {AnySource}
    BY <1>2, WorldRankIsPeer, SpecialRanks DEF TypeOK, CommTyped
  <2> DEFINE m == [comm |-> h, from |-> WorldRank(h, r), size |-> s]
  <2>2. m \in Receive
    BY <2>1 DEF Receive
  <2>3. posted' = [posted EXCEPT ![p] = Append(@, m)]
    BY <1>2 DEF Post
  <2> HIDE DEF m
  <2> QED
    BY <2>2, <2>3 DEF TypeOK, MessagesTyped
<1> QED
  BY <1>1, <1>2

\* Removing one element from a sequence.
LEMMA RemovedTyped ==
  ASSUME NEW S, NEW q \in Seq(S), NEW i \in DOMAIN q
  PROVE  SubSeq(q, 1, i - 1) \o SubSeq(q, i + 1, Len(q)) \in Seq(S)
<1>1. i \in 1 .. Len(q)
  OBVIOUS
<1>2. SubSeq(q, 1, i - 1) \in Seq(S) /\ SubSeq(q, i + 1, Len(q)) \in Seq(S)
  BY <1>1, SubSeqProperties
<1> QED
  BY <1>2

LEMMA TypeInit == Init => TypeOK
<1> SUFFICES ASSUME Init PROVE TypeOK
  OBVIOUS
<1>1. CommTyped /\ TablesTyped /\ MessagesTyped
  BY PointToPointAssumption
     DEF Init, CommTyped, TablesTyped, MessagesTyped, Entry, Zero
<1>2. CacheTyped
  BY DEF Init, CacheTyped, RankMaps
<1> QED
  BY <1>1, <1>2 DEF TypeOK

LEMMA TypeStep == TypeOK /\ [Next]_vars => TypeOK'
<1> SUFFICES ASSUME TypeOK, [Next]_vars PROVE TypeOK'
  OBVIOUS
<1> USE PointToPointAssumption
<1>1. ASSUME NEW p \in Ranks, NEW h \in Handles \cup {World}, NEW s \in Sizes, NEW d \in Peers,
             Send(p, h, d, s)
      PROVE  TypeOK'
  <2>1. CommTyped'
    BY <1>1 DEF Send, TypeOK, CommTyped
  <2>2. CacheTyped'
    BY <1>1, RememberTyped DEF Send, TypeOK, CacheTyped, RankMaps
  <2>3. TablesTyped'
    BY <1>1, TranslatedIsPeer, RecordTyped, LaunchTyped DEF Send, TypeOK, TablesTyped
  <2>4. MessagesTyped'
    <3>1. flight' \in Seq(Message)
      BY <1>1, LaunchTyped DEF Send
    <3>2. calls' \in 0 .. MaxCalls /\ UNCHANGED posted
      BY <1>1 DEF Send, Ops, TypeOK, MessagesTyped
    <3> QED
      BY <3>1, <3>2 DEF TypeOK, MessagesTyped
  <2> QED
    BY <2>1, <2>2, <2>3, <2>4 DEF TypeOK
<1>2. ASSUME NEW p \in Ranks, NEW h \in Handles \cup {World}, NEW t \in Buffers, NEW r \in Peers,
             Recv(p, h, r, t)
      PROVE  TypeOK'
  <2>1. CommTyped'
    BY <1>2 DEF Recv, TypeOK, CommTyped
  <2>2. CacheTyped'
    BY <1>2, RememberTyped DEF Recv, TypeOK, CacheTyped, RankMaps
  <2>3. TablesTyped'
    BY <1>2, TranslatedIsPeer, RecordTyped DEF Recv, TypeOK, TablesTyped
  <2>4. MessagesTyped'
    <3>1. posted' \in [Ranks -> Seq(Receive)]
      BY <1>2, PostTyped DEF Recv
    <3>2. calls' \in 0 .. MaxCalls /\ UNCHANGED flight
      BY <1>2 DEF Recv, Ops, TypeOK, MessagesTyped
    <3> QED
      BY <3>1, <3>2 DEF TypeOK, MessagesTyped
  <2> QED
    BY <2>1, <2>2, <2>3, <2>4 DEF TypeOK
<1>3. ASSUME NEW p \in Ranks, NEW h \in Handles \cup {World}, NEW s \in Sizes,
             NEW t \in Buffers, NEW d \in Peers, NEW r \in Peers,
             Sendrecv(p, h, d, s, r, t)
      PROVE  TypeOK'
  <2>1. CommTyped'
    BY <1>3 DEF Sendrecv, TypeOK, CommTyped
  <2>2. CacheTyped'
    <3> DEFINE c == Remember(cache, p, h, d)
    <3>1. RankMaps(c)
      BY RememberTyped DEF TypeOK, CacheTyped
    <3>2. cache' = Remember(c, p, h, r)
      BY <1>3 DEF Sendrecv
    <3> HIDE DEF c
    <3> QED
      BY <3>1, <3>2, RememberTyped DEF TypeOK, CacheTyped, RankMaps
  <2>3. TablesTyped'
    BY <1>3, TranslatedIsPeer, RecordTyped, LaunchTyped DEF Sendrecv, TypeOK, TablesTyped
  <2>4. MessagesTyped'
    <3>1. flight' \in Seq(Message)
      BY <1>3, LaunchTyped DEF Sendrecv
    <3>2. posted' \in [Ranks -> Seq(Receive)]
      BY <1>3, PostTyped DEF Sendrecv
    <3>3. calls' \in 0 .. MaxCalls
      BY <1>3 DEF Sendrecv, Ops, TypeOK, MessagesTyped
    <3> QED
      BY <3>1, <3>2, <3>3 DEF MessagesTyped
  <2> QED
    BY <2>1, <2>2, <2>3, <2>4 DEF TypeOK
<1>4. ASSUME NEW q \in Ranks, Match(q) PROVE TypeOK'
  <2>1. PICK i \in DOMAIN posted[q], j \in DOMAIN flight :
          /\ posted' = [posted EXCEPT ![q] = SubSeq(@, 1, i - 1) \o SubSeq(@, i + 1, Len(@))]
          /\ flight' = SubSeq(flight, 1, j - 1) \o SubSeq(flight, j + 1, Len(flight))
    BY <1>4 DEF Match
  <2>2. flight \in Seq(Message) /\ posted \in [Ranks -> Seq(Receive)]
    BY DEF TypeOK, MessagesTyped
  <2>3. flight' \in Seq(Message)
    BY <2>1, <2>2, RemovedTyped
  <2>4. posted' \in [Ranks -> Seq(Receive)]
    <3>1. posted[q] \in Seq(Receive)
      BY <2>2
    <3> DEFINE rest == SubSeq(posted[q], 1, i - 1) \o SubSeq(posted[q], i + 1, Len(posted[q]))
    <3>2. rest \in Seq(Receive)
      BY <3>1, RemovedTyped
    <3>3. posted' = [posted EXCEPT ![q] = rest]
      BY <2>1
    <3> HIDE DEF rest
    <3> QED
      BY <2>2, <3>2, <3>3
  <2>5. UNCHANGED <<comm, given, cache, sent, recv, told, calls>>
    BY <1>4 DEF Match
  <2>6. CommTyped' /\ CacheTyped' /\ TablesTyped'
    BY <2>5 DEF TypeOK, CommTyped, CacheTyped, RankMaps, TablesTyped
  <2>7. MessagesTyped'
    BY <2>3, <2>4, <2>5 DEF TypeOK, MessagesTyped
  <2> QED
    BY <2>6, <2>7 DEF TypeOK
<1>5. ASSUME NEW h \in Handles, CommFree(h) \/ \E g \in Groups : CommCreate(h, g)
      PROVE  TypeOK'
  <2>1. UNCHANGED <<cache, sent, recv, flight, posted, told, calls>>
    BY <1>5 DEF CommFree, CommCreate
  <2>2. CommTyped'
    BY <1>5 DEF CommFree, CommCreate, TypeOK, CommTyped
  <2> QED
    BY <2>1, <2>2 DEF TypeOK, CacheTyped, RankMaps, TablesTyped, MessagesTyped
<1>6. CASE UNCHANGED vars
  BY <1>6 DEF vars, TypeOK, CommTyped, CacheTyped, RankMaps, TablesTyped, MessagesTyped
<1> QED
  BY <1>1, <1>2, <1>3, <1>4, <1>5, <1>6 DEF Next, Wrapped, Library, Stop

\* Every variable of every reachable state is in its range.
THEOREM TypeCorrect == Spec => []TypeOK
BY TypeInit, TypeStep, PTL DEF Spec

-----------------------------------------------------------------------------
(* What is counted as sent was sent.                                       *)

\* The remembered ranks are right while the communicator lives, and nothing is
\* remembered for a handle that was never given out. Without reuse a handle
\* that is given out now is of that kind.
Right(c) ==
  \A p \in Ranks, h \in Handles :
    /\ h \notin given => comm[h] = Free /\ DOMAIN c[p][h] = {}
    /\ comm[h] # Free => \A r \in DOMAIN c[p][h] : c[p][h][r] = WorldRank(h, r)

SentInv == TypeOK /\ (~Reuse => Right(cache) /\ SentTrue)

\* A process uses only communicators that live.
LEMMA UsableLives ==
  ASSUME NEW p, NEW h \in Handles, World \notin Handles, Usable(p, h)
  PROVE  comm[h] # Free
<1>1. GroupOf(h) = comm[h]
  BY DEF GroupOf
<1>2. p \in Range(comm[h])
  BY <1>1 DEF Usable
<1>3. PICK x \in DOMAIN comm[h] : comm[h][x] = p
  BY <1>2 DEF Range
<1>4. DOMAIN Free = {}
  BY DEF Free
<1> QED
  BY <1>3, <1>4

\* Remembering one more rank keeps them right.
LEMMA RememberRight ==
  ASSUME CommTyped, NEW c, RankMaps(c), Right(c),
         NEW p \in Ranks, NEW h \in Handles \cup {World}, NEW r \in Peers, Usable(p, h)
  PROVE  Right(Remember(c, p, h, r))
<1> DEFINE d == Remember(c, p, h, r)
<1>1. CASE Direct(h, r) \/ r \in DOMAIN c[p][h]
  BY <1>1 DEF Remember
<1>2. CASE ~(Direct(h, r) \/ r \in DOMAIN c[p][h])
  <2> DEFINE new == [x \in DOMAIN c[p][h] \cup {r} |->
                       IF x = r THEN WorldRank(h, r) ELSE c[p][h][x]]
  <2>1. h \in Handles /\ comm[h] # Free
    BY <1>2, UsableLives, PointToPointAssumption DEF Direct
  <2>2. h \in given /\ \A x \in DOMAIN c[p][h] : c[p][h][x] = WorldRank(h, x)
    BY <2>1 DEF Right
  <2>3. \A x \in DOMAIN new : new[x] = WorldRank(h, x)
    BY <2>2
  <2>4. d = [c EXCEPT ![p][h] = new]
    BY <1>2 DEF Remember
  <2> HIDE DEF new, d
  <2>5. \A q \in Ranks, k \in Handles :
          d[q][k] = IF q = p /\ k = h THEN new ELSE c[q][k]
    BY <2>1, <2>4 DEF RankMaps
  <2>6. Right(d)
    BY <2>2, <2>3, <2>5 DEF Right
  <2> QED
    BY <2>6 DEF d
<1> QED
  BY <1>1, <1>2

\* With right memories the translation is MPI's.
LEMMA TranslatedRight ==
  ASSUME CommTyped, Right(cache), NEW p \in Ranks, NEW h \in Handles \cup {World},
         NEW r \in Named(h) \cup {AnySource}, r \in Peers, Usable(p, h)
  PROVE  Translated(p, h, r) = WorldRank(h, r)
<1>1. CASE Direct(h, r)
  BY <1>1, WorldRankIsPeer, SpecialRanks
     DEF Direct, Translated, WorldRank, GroupOf, CommTyped
<1>2. CASE ~Direct(h, r)
  BY <1>2, UsableLives, PointToPointAssumption DEF Direct, Translated, Right
<1> QED
  BY <1>1, <1>2

\* A send counted under its world rank keeps the count true.
LEMMA SendCounted ==
  ASSUME TypeOK, SentTrue, ~Reuse, NEW p \in Ranks, NEW h \in Handles \cup {World},
         NEW d \in Named(h), d \in Peers, NEW s \in Nat,
         sent' = Record(sent, p, WorldRank(h, d), s), Launch(p, h, d, s)
  PROVE  SentTrue'
<1> DEFINE w == WorldRank(h, d)
<1>1. /\ sent \in [Ranks -> [Peers -> Entry]] /\ told \in [Ranks -> [Ranks -> Entry]]
      /\ Ranks \subseteq Peers
      /\ \A a, b \in Ranks : sent[a][b] = told[a][b]
  BY DEF TypeOK, TablesTyped, Peers, SentTrue
<1>2. CASE d = ProcNull
  <2>1. w = ProcNull /\ told' = told /\ w \notin Ranks /\ w \in Peers
    BY <1>2, WorldRankIsPeer, SpecialRanks DEF Launch, TypeOK, CommTyped
  <2> QED
    BY <1>1, <2>1 DEF SentTrue, Record
<1>3. CASE d # ProcNull
  <2>1. w \in Ranks /\ told' = Record(told, p, w, s)
    BY <1>3, WorldRankIsPeer DEF Launch, TypeOK, CommTyped
  <2> HIDE DEF w
  <2>2. sent' = Record(sent, p, w, s)
    BY DEF w
  <2> QED
    BY <1>1, <2>1, <2>2 DEF SentTrue, Record
<1> QED
  BY <1>2, <1>3

LEMMA SentInit == Init => SentInv
<1> SUFFICES ASSUME Init PROVE SentInv
  OBVIOUS
<1>1. TypeOK
  BY TypeInit
<1>2. Right(cache)
  BY DEF Init, Right
<1>3. SentTrue
  BY DEF Init, SentTrue, Peers
<1> QED
  BY <1>1, <1>2, <1>3 DEF SentInv

LEMMA SentStep == SentInv /\ [Next]_vars => SentInv'
<1> SUFFICES ASSUME SentInv, ~Reuse, [Next]_vars PROVE Right(cache)' /\ SentTrue'
  BY TypeStep DEF SentInv
<1> USE PointToPointAssumption
<1>0. TypeOK /\ CommTyped /\ CacheTyped /\ Right(cache) /\ SentTrue
  BY DEF SentInv, TypeOK
<1>1. ASSUME NEW p \in Ranks, NEW h \in Handles \cup {World}, NEW s \in Sizes, NEW d \in Peers,
             Send(p, h, d, s)
      PROVE  Right(cache)' /\ SentTrue'
  <2>1. Right(Remember(cache, p, h, d))
    BY <1>0, <1>1, RememberRight DEF Send, CacheTyped
  <2>2. Right(cache)'
    BY <1>1, <2>1 DEF Send, Right, WorldRank, GroupOf
  <2>3. sent' = Record(sent, p, WorldRank(h, d), s)
    BY <1>0, <1>1, TranslatedRight DEF Send
  <2> QED
    BY <1>0, <1>1, <2>2, <2>3, SendCounted DEF Send
<1>2. ASSUME NEW p \in Ranks, NEW h \in Handles \cup {World}, NEW t \in Buffers, NEW r \in Peers,
             Recv(p, h, r, t)
      PROVE  Right(cache)' /\ SentTrue'
  <2>1. Right(Remember(cache, p, h, r))
    BY <1>0, <1>2, RememberRight DEF Recv, CacheTyped
  <2>2. Right(cache)'
    BY <1>2, <2>1 DEF Recv, Right, WorldRank, GroupOf
  <2> QED
    BY <1>0, <1>2, <2>2 DEF Recv, SentTrue
<1>3. ASSUME NEW p \in Ranks, NEW h \in Handles \cup {World}, NEW s \in Sizes,
             NEW t \in Buffers, NEW d \in Peers, NEW r \in Peers,
             Sendrecv(p, h, d, s, r, t)
      PROVE  Right(cache)' /\ SentTrue'
  <2> DEFINE c == Remember(cache, p, h, d)
  <2>1. Right(c)
    BY <1>0, <1>3, RememberRight DEF Sendrecv, CacheTyped
  <2>2. RankMaps(c)
    BY <1>0, RememberTyped DEF CacheTyped
  <2>3. cache' = Remember(c, p, h, r) /\ Usable(p, h)
    BY <1>3 DEF Sendrecv
  <2> HIDE DEF c
  <2>4. Right(Remember(c, p, h, r))
    BY <1>0, <2>1, <2>2, <2>3, RememberRight
  <2>5. Right(cache)'
    BY <1>3, <2>3, <2>4 DEF Sendrecv, Right, WorldRank, GroupOf
  <2>6. sent' = Record(sent, p, WorldRank(h, d), s)
    BY <1>0, <1>3, TranslatedRight DEF Sendrecv
  <2> QED
    BY <1>0, <1>3, <2>5, <2>6, SendCounted DEF Sendrecv
<1>4. ASSUME NEW q \in Ranks, Match(q) PROVE Right(cache)' /\ SentTrue'
  <2>1. UNCHANGED <<comm, given, cache, sent, told>>
    BY <1>4 DEF Match
  <2>2. Right(cache)'
    BY <1>0, <2>1 DEF Right, WorldRank, GroupOf
  <2> QED
    BY <1>0, <2>1, <2>2 DEF SentTrue
<1>5. ASSUME NEW h \in Handles, CommFree(h) PROVE Right(cache)' /\ SentTrue'
  <2>1. /\ comm' = [comm EXCEPT ![h] = Free] /\ comm[h] # Free
        /\ UNCHANGED <<given, cache, sent, told>>
    BY <1>5 DEF CommFree
  <2>2. \A k \in Handles \ {h} : comm'[k] = comm[k]
    BY <1>0, <2>1 DEF CommTyped
  <2>3. comm'[h] = Free /\ h \in given
    BY <1>0, <2>1 DEF CommTyped, Right, Ranks
  <2>4. Right(cache)'
    BY <1>0, <2>1, <2>2, <2>3 DEF Right, WorldRank, GroupOf
  <2> QED
    BY <1>0, <2>1, <2>4 DEF SentTrue
<1>6. ASSUME NEW h \in Handles, NEW g \in Groups, CommCreate(h, g)
      PROVE  Right(cache)' /\ SentTrue'
  <2>1. /\ comm' = [comm EXCEPT ![h] = g] /\ given' = given \cup {h} /\ h \notin given
        /\ UNCHANGED <<cache, sent, told>>
    BY <1>6 DEF CommCreate
  <2>2. \A k \in Handles \ {h} : comm'[k] = comm[k]
    BY <1>0, <2>1 DEF CommTyped
  <2>3. \A p \in Ranks : DOMAIN cache[p][h] = {}
    BY <1>0, <2>1 DEF Right
  <2>4. Right(cache)'
    BY <1>0, <2>1, <2>2, <2>3 DEF Right, WorldRank, GroupOf
  <2> QED
    BY <1>0, <2>1, <2>4 DEF SentTrue
<1>7. CASE UNCHANGED vars
  <2>1. UNCHANGED <<comm, given, cache, sent, told>>
    BY <1>7 DEF vars
  <2>2. Right(cache)'
    BY <1>0, <2>1 DEF Right, WorldRank, GroupOf
  <2> QED
    BY <1>0, <2>1, <2>2 DEF SentTrue
<1> QED
  BY <1>1, <1>2, <1>3, <1>4, <1>5, <1>6, <1>7 DEF Next, Wrapped, Library, Stop

\* Without reuse of handles every process logs for each rank the messages and
\* bytes that MPI got from it for that rank, however it names the rank.
THEOREM SentTrueHolds == Spec => []SentTrue
<1>1. SentInv => SentTrue
  BY DEF SentInv, SentTrue
<1> QED
  BY SentInit, SentStep, <1>1, PTL DEF Spec

-----------------------------------------------------------------------------
(* The logs of two processes agree.                                        *)

\* Of the messages and of the receives that are not matched yet: those of two
\* processes, counted and with their sizes, and all of a process.
FlightCalls(fl, p, q) ==
  SumFunction([j \in DOMAIN fl |-> IF fl[j].src = p /\ fl[j].dst = q THEN 1 ELSE 0])
FlightBytes(fl, p, q) ==
  SumFunction([j \in DOMAIN fl |-> IF fl[j].src = p /\ fl[j].dst = q THEN fl[j].size ELSE 0])
FlightTo(fl, q) == SumFunction([j \in DOMAIN fl |-> IF fl[j].dst = q THEN 1 ELSE 0])
PostedCalls(po, p) == SumFunction([i \in DOMAIN po |-> IF po[i].from = p THEN 1 ELSE 0])
PostedBytes(po, p) == SumFunction([i \in DOMAIN po |-> IF po[i].from = p THEN po[i].size ELSE 0])

\* What MPI got for q from p and has delivered, and what q has asked for and got.
Delivered(p, q)      == told[p][q].calls - FlightCalls(flight, p, q)
DeliveredBytes(p, q) == told[p][q].bytes - FlightBytes(flight, p, q)
DeliveredTo(q) ==
  SumFunction([p \in Ranks |-> told[p][q].calls]) - FlightTo(flight, q)
Received(q, p)      == recv[q][p].calls - PostedCalls(posted[q], p)
ReceivedBytes(q, p) == recv[q][p].bytes - PostedBytes(posted[q], p)
ReceivedBy(q)       == CallsFrom(q) - Len(posted[q])

\* What was delivered was received, in total, and from each sender as long as no
\* receive names MPI_ANY_SOURCE; no message is larger than the buffer it met.
Matched ==
  \A q \in Ranks :
    /\ DeliveredTo(q) = ReceivedBy(q)
    /\ recv[q][AnySource].calls = 0 =>
         /\ \A i \in DOMAIN posted[q] : posted[q][i].from # AnySource
         /\ \A p \in Ranks : /\ Delivered(p, q) = Received(q, p)
                             /\ DeliveredBytes(p, q) <= ReceivedBytes(q, p)

LEMMA FlightEntries ==
  ASSUME NEW fl \in Seq(Message)
  PROVE  /\ Len(fl) \in Nat /\ DOMAIN fl = 1 .. Len(fl)
         /\ \A j \in DOMAIN fl : fl[j] \in Message /\ fl[j].size \in Int
<1>1. Len(fl) \in Nat /\ DOMAIN fl = 1 .. Len(fl)
  BY LenProperties
<1>2. \A j \in 1 .. Len(fl) : fl[j] \in Message
  BY ElementOfSeq
<1>3. \A m \in Message : m.size \in Int
  BY DEF Message
<1> QED BY <1>1, <1>2, <1>3

LEMMA PostedEntries ==
  ASSUME NEW po \in Seq(Receive)
  PROVE  /\ Len(po) \in Nat /\ DOMAIN po = 1 .. Len(po)
         /\ \A i \in DOMAIN po : po[i] \in Receive /\ po[i].size \in Int
<1>1. Len(po) \in Nat /\ DOMAIN po = 1 .. Len(po)
  BY LenProperties
<1>2. \A i \in 1 .. Len(po) : po[i] \in Receive
  BY ElementOfSeq
<1>3. \A r \in Receive : r.size \in Int
  BY DEF Receive
<1> QED BY <1>1, <1>2, <1>3

\* Whatever is counted of a list of numbers' worth of entries is a number, grows
\* with an entry at its end and shrinks with an entry that is taken out.
LEMMA FlightIsNumber ==
  ASSUME NEW fl \in Seq(Message), NEW p, NEW q
  PROVE  /\ FlightCalls(fl, p, q) \in Int /\ FlightBytes(fl, p, q) \in Int
         /\ FlightTo(fl, q) \in Int
         /\ (\A j \in DOMAIN fl : fl[j].dst # q) =>
              FlightCalls(fl, p, q) = 0 /\ FlightBytes(fl, p, q) = 0 /\ FlightTo(fl, q) = 0
<1> DEFINE n == Len(fl)
           c == [j \in DOMAIN fl |-> IF fl[j].src = p /\ fl[j].dst = q THEN 1 ELSE 0]
           b == [j \in DOMAIN fl |-> IF fl[j].src = p /\ fl[j].dst = q THEN fl[j].size ELSE 0]
           t == [j \in DOMAIN fl |-> IF fl[j].dst = q THEN 1 ELSE 0]
<1>1. n \in Nat /\ DOMAIN fl = 1 .. n /\ \A j \in 1 .. n : fl[j].size \in Int
  BY FlightEntries
<1>2. /\ DOMAIN c = 1 .. n /\ DOMAIN b = 1 .. n /\ DOMAIN t = 1 .. n
      /\ \A j \in 1 .. n : c[j] \in Int /\ b[j] \in Int /\ t[j] \in Int
      /\ (\A j \in DOMAIN fl : fl[j].dst # q) =>
           \A j \in 1 .. n : c[j] = 0 /\ b[j] = 0 /\ t[j] = 0
  BY <1>1
<1> HIDE DEF c, b, t, n
<1>3. SumFunction(c) \in Int /\ SumFunction(b) \in Int /\ SumFunction(t) \in Int
  BY <1>1, <1>2, SumOfList
<1>4. (\A j \in DOMAIN fl : fl[j].dst # q) =>
        SumFunction(c) = 0 /\ SumFunction(b) = 0 /\ SumFunction(t) = 0
  BY <1>1, <1>2, SumOfList
<1>5. /\ FlightCalls(fl, p, q) = SumFunction(c) /\ FlightBytes(fl, p, q) = SumFunction(b)
      /\ FlightTo(fl, q) = SumFunction(t)
  BY DEF FlightCalls, FlightBytes, FlightTo, c, b, t
<1> QED BY <1>3, <1>4, <1>5

LEMMA FlightGrows ==
  ASSUME NEW fl \in Seq(Message), NEW m \in Message, NEW p, NEW q
  PROVE  LET hit == m.src = p /\ m.dst = q
         IN  /\ FlightCalls(Append(fl, m), p, q) = FlightCalls(fl, p, q) + (IF hit THEN 1 ELSE 0)
             /\ FlightBytes(Append(fl, m), p, q)
                  = FlightBytes(fl, p, q) + (IF hit THEN m.size ELSE 0)
             /\ FlightTo(Append(fl, m), q) = FlightTo(fl, q) + (IF m.dst = q THEN 1 ELSE 0)
<1> DEFINE n  == Len(fl)
           gl == Append(fl, m)
           C(l) == [j \in DOMAIN l |-> IF l[j].src = p /\ l[j].dst = q THEN 1 ELSE 0]
           B(l) == [j \in DOMAIN l |-> IF l[j].src = p /\ l[j].dst = q THEN l[j].size ELSE 0]
           T(l) == [j \in DOMAIN l |-> IF l[j].dst = q THEN 1 ELSE 0]
<1>1. /\ n \in Nat /\ DOMAIN fl = 1 .. n /\ DOMAIN gl = 1 .. (n + 1)
      /\ gl[n + 1] = m /\ \A j \in 1 .. n : gl[j] = fl[j] /\ fl[j].size \in Int
      /\ m.size \in Int
  <2>1. gl \in Seq(Message) /\ Len(gl) = n + 1 /\ gl[n + 1] = m /\ \A j \in 1 .. n : gl[j] = fl[j]
    BY AppendProperties
  <2>2. n \in Nat /\ DOMAIN fl = 1 .. n /\ DOMAIN gl = 1 .. (n + 1)
    BY <2>1, LenProperties
  <2>3. \A j \in 1 .. n : fl[j].size \in Int
    BY <2>2, FlightEntries
  <2>4. m.size \in Int
    BY DEF Message
  <2> QED BY <2>1, <2>2, <2>3, <2>4
<1> HIDE DEF n, gl
<1>2. SumFunction(C(gl)) = SumFunction(C(fl)) + C(gl)[n + 1]
  <2> DEFINE f == C(fl)
             g == C(gl)
  <2>1. /\ DOMAIN f = 1 .. n /\ DOMAIN g = 1 .. (n + 1)
        /\ \A j \in 1 .. n : f[j] \in Int /\ g[j] = f[j]
        /\ g[n + 1] \in Int
    BY <1>1
  <2> HIDE DEF f, g
  <2>2. SumFunction(g) = SumFunction(f) + g[n + 1]
    BY <1>1, <2>1, SumOfLonger
  <2> QED BY <2>2 DEF f, g
<1>3. SumFunction(B(gl)) = SumFunction(B(fl)) + B(gl)[n + 1]
  <2> DEFINE f == B(fl)
             g == B(gl)
  <2>1. /\ DOMAIN f = 1 .. n /\ DOMAIN g = 1 .. (n + 1)
        /\ \A j \in 1 .. n : f[j] \in Int /\ g[j] = f[j]
        /\ g[n + 1] \in Int
    BY <1>1
  <2> HIDE DEF f, g
  <2>2. SumFunction(g) = SumFunction(f) + g[n + 1]
    BY <1>1, <2>1, SumOfLonger
  <2> QED BY <2>2 DEF f, g
<1>4. SumFunction(T(gl)) = SumFunction(T(fl)) + T(gl)[n + 1]
  <2> DEFINE f == T(fl)
             g == T(gl)
  <2>1. /\ DOMAIN f = 1 .. n /\ DOMAIN g = 1 .. (n + 1)
        /\ \A j \in 1 .. n : f[j] \in Int /\ g[j] = f[j]
        /\ g[n + 1] \in Int
    BY <1>1
  <2> HIDE DEF f, g
  <2>2. SumFunction(g) = SumFunction(f) + g[n + 1]
    BY <1>1, <2>1, SumOfLonger
  <2> QED BY <2>2 DEF f, g
<1>5. /\ C(gl)[n + 1] = (IF m.src = p /\ m.dst = q THEN 1 ELSE 0)
      /\ B(gl)[n + 1] = (IF m.src = p /\ m.dst = q THEN m.size ELSE 0)
      /\ T(gl)[n + 1] = (IF m.dst = q THEN 1 ELSE 0)
  BY <1>1
<1>6. \A l : /\ FlightCalls(l, p, q) = SumFunction(C(l)) /\ FlightBytes(l, p, q) = SumFunction(B(l))
             /\ FlightTo(l, q) = SumFunction(T(l))
  BY DEF FlightCalls, FlightBytes, FlightTo
<1> HIDE DEF C, B, T
<1> QED BY <1>2, <1>3, <1>4, <1>5, <1>6 DEF gl

LEMMA FlightShrinks ==
  ASSUME NEW fl \in Seq(Message), NEW k \in DOMAIN fl, NEW p, NEW q
  PROVE  LET m  == fl[k]
             gl == SubSeq(fl, 1, k - 1) \o SubSeq(fl, k + 1, Len(fl))
         IN  /\ FlightCalls(gl, p, q)
                  = FlightCalls(fl, p, q) - (IF m.src = p /\ m.dst = q THEN 1 ELSE 0)
             /\ FlightBytes(gl, p, q)
                  = FlightBytes(fl, p, q) - (IF m.src = p /\ m.dst = q THEN m.size ELSE 0)
             /\ FlightTo(gl, q) = FlightTo(fl, q) - (IF m.dst = q THEN 1 ELSE 0)
<1> DEFINE n  == Len(fl)
           m  == fl[k]
           gl == SubSeq(fl, 1, k - 1) \o SubSeq(fl, k + 1, Len(fl))
           C(l) == [j \in DOMAIN l |-> IF l[j].src = p /\ l[j].dst = q THEN 1 ELSE 0]
           B(l) == [j \in DOMAIN l |-> IF l[j].src = p /\ l[j].dst = q THEN l[j].size ELSE 0]
           T(l) == [j \in DOMAIN l |-> IF l[j].dst = q THEN 1 ELSE 0]
<1>1. /\ n \in Nat /\ k \in 1 .. n /\ DOMAIN fl = 1 .. n /\ DOMAIN gl = 1 .. (n - 1)
      /\ \A j \in 1 .. (n - 1) : gl[j] = IF j < k THEN fl[j] ELSE fl[j + 1]
      /\ \A j \in 1 .. n : fl[j].size \in Int
  <2>1. /\ gl \in Seq(Message) /\ Len(gl) = n - 1
        /\ \A j \in 1 .. (n - 1) : gl[j] = IF j < k THEN fl[j] ELSE fl[j + 1]
    BY WithoutEntry
  <2>2. n \in Nat /\ DOMAIN fl = 1 .. n /\ DOMAIN gl = 1 .. (n - 1)
    BY <2>1, LenProperties
  <2> QED BY <2>1, <2>2, FlightEntries
<1> HIDE DEF n, gl
<1>2. SumFunction(C(gl)) = SumFunction(C(fl)) - C(fl)[k]
  <2> DEFINE f == C(fl)
             g == C(gl)
  <2>1. /\ n \in Nat /\ k \in 1 .. n
        /\ DOMAIN f = 1 .. n /\ DOMAIN g = 1 .. (n - 1) /\ \A j \in 1 .. n : f[j] \in Int
        /\ \A j \in 1 .. (n - 1) : g[j] = IF j < k THEN f[j] ELSE f[j + 1]
    BY <1>1
  <2> HIDE DEF f, g
  <2>2. SumFunction(g) = SumFunction(f) - f[k]
    BY ONLY <2>1, SumOfShorter
  <2> QED BY <2>2 DEF f, g
<1>3. SumFunction(B(gl)) = SumFunction(B(fl)) - B(fl)[k]
  <2> DEFINE f == B(fl)
             g == B(gl)
  <2>1. /\ n \in Nat /\ k \in 1 .. n
        /\ DOMAIN f = 1 .. n /\ DOMAIN g = 1 .. (n - 1) /\ \A j \in 1 .. n : f[j] \in Int
        /\ \A j \in 1 .. (n - 1) : g[j] = IF j < k THEN f[j] ELSE f[j + 1]
    BY <1>1
  <2> HIDE DEF f, g
  <2>2. SumFunction(g) = SumFunction(f) - f[k]
    BY ONLY <2>1, SumOfShorter
  <2> QED BY <2>2 DEF f, g
<1>4. SumFunction(T(gl)) = SumFunction(T(fl)) - T(fl)[k]
  <2> DEFINE f == T(fl)
             g == T(gl)
  <2>1. /\ n \in Nat /\ k \in 1 .. n
        /\ DOMAIN f = 1 .. n /\ DOMAIN g = 1 .. (n - 1) /\ \A j \in 1 .. n : f[j] \in Int
        /\ \A j \in 1 .. (n - 1) : g[j] = IF j < k THEN f[j] ELSE f[j + 1]
    BY <1>1
  <2> HIDE DEF f, g
  <2>2. SumFunction(g) = SumFunction(f) - f[k]
    BY ONLY <2>1, SumOfShorter
  <2> QED BY <2>2 DEF f, g
<1>5. /\ C(fl)[k] = (IF m.src = p /\ m.dst = q THEN 1 ELSE 0)
      /\ B(fl)[k] = (IF m.src = p /\ m.dst = q THEN m.size ELSE 0)
      /\ T(fl)[k] = (IF m.dst = q THEN 1 ELSE 0)
  BY <1>1
<1>6. \A l : /\ FlightCalls(l, p, q) = SumFunction(C(l)) /\ FlightBytes(l, p, q) = SumFunction(B(l))
             /\ FlightTo(l, q) = SumFunction(T(l))
  BY DEF FlightCalls, FlightBytes, FlightTo
<1> HIDE DEF C, B, T
<1> QED BY <1>2, <1>3, <1>4, <1>5, <1>6 DEF gl, m

\* The same for receives.
LEMMA PostedIsNumber ==
  ASSUME NEW po \in Seq(Receive), NEW p
  PROVE  /\ PostedCalls(po, p) \in Int /\ PostedBytes(po, p) \in Int
         /\ po = <<>> => PostedCalls(po, p) = 0 /\ PostedBytes(po, p) = 0
<1> DEFINE n == Len(po)
           c == [i \in DOMAIN po |-> IF po[i].from = p THEN 1 ELSE 0]
           b == [i \in DOMAIN po |-> IF po[i].from = p THEN po[i].size ELSE 0]
<1>1. /\ n \in Nat /\ DOMAIN po = 1 .. n /\ (po = <<>> => n = 0)
      /\ \A i \in 1 .. n : po[i].size \in Int
  BY PostedEntries
<1>2. /\ DOMAIN c = 1 .. n /\ DOMAIN b = 1 .. n
      /\ \A i \in 1 .. n : c[i] \in Int /\ b[i] \in Int
      /\ n = 0 => \A i \in 1 .. n : c[i] = 0 /\ b[i] = 0
  BY <1>1
<1> HIDE DEF c, b, n
<1>3. SumFunction(c) \in Int /\ SumFunction(b) \in Int
  BY <1>1, <1>2, SumOfList
<1>4. n = 0 => SumFunction(c) = 0 /\ SumFunction(b) = 0
  BY <1>1, <1>2, SumOfList
<1>5. PostedCalls(po, p) = SumFunction(c) /\ PostedBytes(po, p) = SumFunction(b)
  BY DEF PostedCalls, PostedBytes, c, b
<1> QED BY <1>1, <1>3, <1>4, <1>5

LEMMA PostedGrows ==
  ASSUME NEW po \in Seq(Receive), NEW r \in Receive, NEW p
  PROVE  /\ PostedCalls(Append(po, r), p) = PostedCalls(po, p) + (IF r.from = p THEN 1 ELSE 0)
         /\ PostedBytes(Append(po, r), p) = PostedBytes(po, p) + (IF r.from = p THEN r.size ELSE 0)
<1> DEFINE n  == Len(po)
           gl == Append(po, r)
           C(l) == [j \in DOMAIN l |-> IF l[j].from = p THEN 1 ELSE 0]
           B(l) == [j \in DOMAIN l |-> IF l[j].from = p THEN l[j].size ELSE 0]
<1>1. /\ n \in Nat /\ DOMAIN po = 1 .. n /\ DOMAIN gl = 1 .. (n + 1)
      /\ gl[n + 1] = r /\ \A j \in 1 .. n : gl[j] = po[j] /\ po[j].size \in Int
      /\ r.size \in Int
  <2>1. gl \in Seq(Receive) /\ Len(gl) = n + 1 /\ gl[n + 1] = r /\ \A j \in 1 .. n : gl[j] = po[j]
    BY AppendProperties
  <2>2. n \in Nat /\ DOMAIN po = 1 .. n /\ DOMAIN gl = 1 .. (n + 1)
    BY <2>1, LenProperties
  <2>3. \A j \in 1 .. n : po[j].size \in Int
    BY <2>2, PostedEntries
  <2>4. r.size \in Int
    BY DEF Receive
  <2> QED BY <2>1, <2>2, <2>3, <2>4
<1> HIDE DEF n, gl
<1>2. SumFunction(C(gl)) = SumFunction(C(po)) + C(gl)[n + 1]
  <2> DEFINE f == C(po)
             g == C(gl)
  <2>1. /\ DOMAIN f = 1 .. n /\ DOMAIN g = 1 .. (n + 1)
        /\ \A j \in 1 .. n : f[j] \in Int /\ g[j] = f[j]
        /\ g[n + 1] \in Int
    BY <1>1
  <2> HIDE DEF f, g
  <2>2. SumFunction(g) = SumFunction(f) + g[n + 1]
    BY <1>1, <2>1, SumOfLonger
  <2> QED BY <2>2 DEF f, g
<1>3. SumFunction(B(gl)) = SumFunction(B(po)) + B(gl)[n + 1]
  <2> DEFINE f == B(po)
             g == B(gl)
  <2>1. /\ DOMAIN f = 1 .. n /\ DOMAIN g = 1 .. (n + 1)
        /\ \A j \in 1 .. n : f[j] \in Int /\ g[j] = f[j]
        /\ g[n + 1] \in Int
    BY <1>1
  <2> HIDE DEF f, g
  <2>2. SumFunction(g) = SumFunction(f) + g[n + 1]
    BY <1>1, <2>1, SumOfLonger
  <2> QED BY <2>2 DEF f, g
<1>4. /\ C(gl)[n + 1] = (IF r.from = p THEN 1 ELSE 0)
      /\ B(gl)[n + 1] = (IF r.from = p THEN r.size ELSE 0)
  BY <1>1
<1>5. \A l : PostedCalls(l, p) = SumFunction(C(l)) /\ PostedBytes(l, p) = SumFunction(B(l))
  BY DEF PostedCalls, PostedBytes
<1> HIDE DEF C, B
<1> QED BY <1>2, <1>3, <1>4, <1>5 DEF gl

LEMMA PostedShrinks ==
  ASSUME NEW po \in Seq(Receive), NEW k \in DOMAIN po, NEW p
  PROVE  LET r  == po[k]
             gl == SubSeq(po, 1, k - 1) \o SubSeq(po, k + 1, Len(po))
         IN  /\ PostedCalls(gl, p) = PostedCalls(po, p) - (IF r.from = p THEN 1 ELSE 0)
             /\ PostedBytes(gl, p) = PostedBytes(po, p) - (IF r.from = p THEN r.size ELSE 0)
<1> DEFINE n  == Len(po)
           r  == po[k]
           gl == SubSeq(po, 1, k - 1) \o SubSeq(po, k + 1, Len(po))
           C(l) == [j \in DOMAIN l |-> IF l[j].from = p THEN 1 ELSE 0]
           B(l) == [j \in DOMAIN l |-> IF l[j].from = p THEN l[j].size ELSE 0]
<1>1. /\ n \in Nat /\ k \in 1 .. n /\ DOMAIN po = 1 .. n /\ DOMAIN gl = 1 .. (n - 1)
      /\ \A j \in 1 .. (n - 1) : gl[j] = IF j < k THEN po[j] ELSE po[j + 1]
      /\ \A j \in 1 .. n : po[j].size \in Int
  <2>1. /\ gl \in Seq(Receive) /\ Len(gl) = n - 1
        /\ \A j \in 1 .. (n - 1) : gl[j] = IF j < k THEN po[j] ELSE po[j + 1]
    BY WithoutEntry
  <2>2. n \in Nat /\ DOMAIN po = 1 .. n /\ DOMAIN gl = 1 .. (n - 1)
    BY <2>1, LenProperties
  <2> QED BY <2>1, <2>2, PostedEntries
<1> HIDE DEF n, gl
<1>2. SumFunction(C(gl)) = SumFunction(C(po)) - C(po)[k]
  <2> DEFINE f == C(po)
             g == C(gl)
  <2>1. /\ DOMAIN f = 1 .. n /\ DOMAIN g = 1 .. (n - 1) /\ \A j \in 1 .. n : f[j] \in Int
        /\ \A j \in 1 .. (n - 1) : g[j] = IF j < k THEN f[j] ELSE f[j + 1]
    BY <1>1
  <2> HIDE DEF f, g
  <2>2. SumFunction(g) = SumFunction(f) - f[k]
    BY <1>1, <2>1, SumOfShorter
  <2> QED BY <2>2 DEF f, g
<1>3. SumFunction(B(gl)) = SumFunction(B(po)) - B(po)[k]
  <2> DEFINE f == B(po)
             g == B(gl)
  <2>1. /\ DOMAIN f = 1 .. n /\ DOMAIN g = 1 .. (n - 1) /\ \A j \in 1 .. n : f[j] \in Int
        /\ \A j \in 1 .. (n - 1) : g[j] = IF j < k THEN f[j] ELSE f[j + 1]
    BY <1>1
  <2> HIDE DEF f, g
  <2>2. SumFunction(g) = SumFunction(f) - f[k]
    BY <1>1, <2>1, SumOfShorter
  <2> QED BY <2>2 DEF f, g
<1>4. /\ C(po)[k] = (IF r.from = p THEN 1 ELSE 0)
      /\ B(po)[k] = (IF r.from = p THEN r.size ELSE 0)
  BY <1>1
<1>5. \A l : PostedCalls(l, p) = SumFunction(C(l)) /\ PostedBytes(l, p) = SumFunction(B(l))
  BY DEF PostedCalls, PostedBytes
<1> HIDE DEF C, B
<1> QED BY <1>2, <1>3, <1>4, <1>5 DEF gl, r

\* There are finitely many ranks and peers.
LEMMA PeersFinite ==
  /\ IsFiniteSet(Ranks) /\ IsFiniteSet(Peers \ {ProcNull})
  /\ Ranks \subseteq Peers \ {ProcNull} /\ AnySource \in Peers \ {ProcNull}
<1>1. IsFiniteSet(Ranks)
  BY PointToPointAssumption, FS_Interval DEF Ranks
<1>2. IsFiniteSet(Ranks \cup {AnySource})
  BY <1>1, FS_AddElement
<1>3. Peers \ {ProcNull} = Ranks \cup {AnySource}
  BY SpecialRanks DEF Peers, AnySource, ProcNull
<1> QED BY <1>1, <1>2, <1>3

\* A call that sends counts what it adds to the messages in flight.
LEMMA LaunchKeeps ==
  ASSUME TypeOK, NEW p \in Ranks, NEW h \in Handles \cup {World}, NEW d \in Named(h), d \in Peers,
         NEW s \in Nat, Launch(p, h, d, s), NEW a \in Ranks, NEW b \in Ranks
  PROVE  /\ Delivered(a, b)' = Delivered(a, b)
         /\ DeliveredBytes(a, b)' = DeliveredBytes(a, b)
         /\ DeliveredTo(b)' = DeliveredTo(b)
<1>1. CASE d = ProcNull
  <2>1. flight' = flight /\ told' = told
    BY <1>1 DEF Launch
  <2> QED BY <2>1 DEF Delivered, DeliveredBytes, DeliveredTo
<1>2. CASE d # ProcNull
  <2> DEFINE w == WorldRank(h, d)
             m == [comm |-> h, src |-> p, dst |-> w, size |-> s]
  <2>1. w \in Ranks
    BY <1>2, WorldRankIsPeer DEF TypeOK, CommTyped
  <2>2. flight' = Append(flight, m) /\ told' = Record(told, p, w, s)
    BY <1>2 DEF Launch
  <2>3. flight \in Seq(Message) /\ told \in [Ranks -> [Ranks -> Entry]]
    BY DEF TypeOK, MessagesTyped, TablesTyped
  <2> HIDE DEF w
  <2>4. m \in Message /\ m.src = p /\ m.dst = w /\ m.size = s
    BY <2>1 DEF Message
  <2> HIDE DEF m
  <2>5. /\ FlightCalls(flight', a, b)
             = FlightCalls(flight, a, b) + (IF p = a /\ w = b THEN 1 ELSE 0)
        /\ FlightBytes(flight', a, b)
             = FlightBytes(flight, a, b) + (IF p = a /\ w = b THEN s ELSE 0)
        /\ FlightTo(flight', b) = FlightTo(flight, b) + (IF w = b THEN 1 ELSE 0)
    BY <2>2, <2>3, <2>4, FlightGrows
  <2>6. \A x \in Ranks :
          /\ told'[x][b].calls = told[x][b].calls + (IF p = x /\ w = b THEN 1 ELSE 0)
          /\ told'[x][b].bytes = told[x][b].bytes + (IF p = x /\ w = b THEN s ELSE 0)
          /\ told[x][b].calls \in Int /\ told[x][b].bytes \in Int
    <3> TAKE x \in Ranks
    <3>1. told[x][b] \in Entry
      BY <2>3
    <3>2. told'[x][b] = IF p = x /\ w = b
                        THEN [calls |-> told[x][b].calls + 1, bytes |-> told[x][b].bytes + s]
                        ELSE told[x][b]
      BY <2>1, <2>2, <2>3 DEF Record
    <3> QED BY <3>1, <3>2 DEF Entry
  <2>7. /\ FlightCalls(flight, a, b) \in Int /\ FlightBytes(flight, a, b) \in Int
        /\ FlightTo(flight, b) \in Int
    BY <2>3, FlightIsNumber
  <2>8. /\ SumFunction([x \in Ranks |-> told'[x][b].calls])
             = SumFunction([x \in Ranks |-> told[x][b].calls]) + (IF w = b THEN 1 ELSE 0)
        /\ SumFunction([x \in Ranks |-> told[x][b].calls]) \in Int
    <3> DEFINE f == [x \in Ranks |-> told[x][b].calls]
               g == [x \in Ranks |-> told'[x][b].calls]
    <3>1. /\ DOMAIN f = Ranks /\ DOMAIN g = Ranks
          /\ \A x \in Ranks : f[x] \in Int /\ g[x] \in Int
          /\ \A x \in Ranks \ {p} : g[x] = f[x]
          /\ g[p] - f[p] = (IF w = b THEN 1 ELSE 0)
      BY <2>6
    <3> HIDE DEF f, g
    <3>2. /\ SumFunctionOnSet(g, Ranks) = SumFunctionOnSet(f, Ranks) + (g[p] - f[p])
          /\ SumFunctionOnSet(f, Ranks) \in Int
      BY <3>1, PeersFinite, SumOfChanged, SumType
    <3>3. SumFunction(f) = SumFunctionOnSet(f, Ranks) /\ SumFunction(g) = SumFunctionOnSet(g, Ranks)
      BY <3>1, Zenon DEF SumFunction
    <3> QED BY <3>1, <3>2, <3>3 DEF f, g
  <2>9. /\ told'[a][b].calls - FlightCalls(flight', a, b)
             = told[a][b].calls - FlightCalls(flight, a, b)
        /\ told'[a][b].bytes - FlightBytes(flight', a, b)
             = told[a][b].bytes - FlightBytes(flight, a, b)
    BY <2>5, <2>6, <2>7
  <2>10. SumFunction([x \in Ranks |-> told'[x][b].calls]) - FlightTo(flight', b)
           = SumFunction([x \in Ranks |-> told[x][b].calls]) - FlightTo(flight, b)
    BY <2>5, <2>7, <2>8
  <2> QED BY <2>9, <2>10 DEF Delivered, DeliveredBytes, DeliveredTo
<1> QED BY <1>1, <1>2

\* A call that receives counts what it adds to the receives that wait; one from
\* MPI_ANY_SOURCE is counted under that name for good.
LEMMA PostKeeps ==
  ASSUME TypeOK, NEW p \in Ranks, NEW h \in Handles \cup {World},
         NEW r \in Named(h) \cup {AnySource}, r \in Peers, NEW s \in Nat,
         recv' = Record(recv, p, WorldRank(h, r), s), Post(p, h, r, s), NEW q \in Ranks
  PROVE  /\ ReceivedBy(q)' = ReceivedBy(q)
         /\ \A a \in Ranks : /\ Received(q, a)' = Received(q, a)
                             /\ ReceivedBytes(q, a)' = ReceivedBytes(q, a)
         /\ recv'[q][AnySource].calls = 0 =>
              /\ recv[q][AnySource].calls = 0
              /\ (\A i \in DOMAIN posted[q] : posted[q][i].from # AnySource) =>
                   \A i \in DOMAIN posted'[q] : posted'[q][i].from # AnySource
<1> DEFINE w == WorldRank(h, r)
           P == Peers \ {ProcNull}
<1>1. /\ w \in Peers /\ (r = ProcNull => w = ProcNull)
      /\ (r # ProcNull => w \in Ranks \cup {AnySource} /\ w # ProcNull)
  BY WorldRankIsPeer, SpecialRanks DEF TypeOK, CommTyped, AnySource, ProcNull
<1>2. /\ recv \in [Ranks -> [Peers -> Entry]] /\ posted \in [Ranks -> Seq(Receive)]
      /\ posted[q] \in Seq(Receive) /\ recv' = Record(recv, p, w, s)
  BY DEF TypeOK, MessagesTyped, TablesTyped
<1> DEFINE o == [comm |-> h, from |-> w, size |-> s]
<1>3. r # ProcNull => posted' = [posted EXCEPT ![p] = Append(@, o)]
  BY DEF Post
<1>4. r = ProcNull => posted' = posted
  BY DEF Post
<1> HIDE DEF w
<1>5. \A x \in Peers :
        /\ recv'[q][x].calls = recv[q][x].calls + (IF p = q /\ w = x THEN 1 ELSE 0)
        /\ recv'[q][x].bytes = recv[q][x].bytes + (IF p = q /\ w = x THEN s ELSE 0)
        /\ recv[q][x].calls \in Nat /\ recv[q][x].bytes \in Nat
  <2> TAKE x \in Peers
  <2>1. recv[q][x] \in Entry
    BY <1>2
  <2>2. recv'[q][x] = IF p = q /\ w = x
                      THEN [calls |-> recv[q][x].calls + 1, bytes |-> recv[q][x].bytes + s]
                      ELSE recv[q][x]
    BY <1>1, <1>2 DEF Record
  <2> QED BY <2>1, <2>2 DEF Entry
<1>6. ASSUME r # ProcNull, p = q
      PROVE  /\ Len(posted'[q]) = Len(posted[q]) + 1 /\ Len(posted[q]) \in Nat
             /\ \A a \in Ranks :
                  /\ PostedCalls(posted'[q], a) = PostedCalls(posted[q], a) + (IF w = a THEN 1 ELSE 0)
                  /\ PostedBytes(posted'[q], a) = PostedBytes(posted[q], a) + (IF w = a THEN s ELSE 0)
             /\ \A i \in DOMAIN posted'[q] : posted'[q][i] = o \/ (i \in DOMAIN posted[q] /\ posted'[q][i] = posted[q][i])
  <2>1. o \in Receive /\ o.from = w /\ o.size = s
    BY <1>1, <1>6 DEF Receive
  <2> HIDE DEF o
  <2>2. posted'[q] = Append(posted[q], o)
    BY <1>2, <1>3, <1>6
  <2>3. \A a \in Ranks :
          /\ PostedCalls(posted'[q], a) = PostedCalls(posted[q], a) + (IF w = a THEN 1 ELSE 0)
          /\ PostedBytes(posted'[q], a) = PostedBytes(posted[q], a) + (IF w = a THEN s ELSE 0)
    BY <1>2, <2>1, <2>2, PostedGrows
  <2>4. /\ Len(posted'[q]) = Len(posted[q]) + 1 /\ Len(posted[q]) \in Nat
        /\ \A i \in DOMAIN posted'[q] : posted'[q][i] = o \/ (i \in DOMAIN posted[q] /\ posted'[q][i] = posted[q][i])
    BY <1>2, <2>1, <2>2
  <2> QED BY <2>3, <2>4
<1>7. ASSUME ~(r # ProcNull /\ p = q) PROVE posted'[q] = posted[q]
  BY <1>2, <1>3, <1>4, <1>7
<1>8. CallsFrom(q)' = CallsFrom(q) + (IF r # ProcNull /\ p = q THEN 1 ELSE 0) /\ CallsFrom(q) \in Int
  <2> DEFINE f == [x \in P |-> recv[q][x].calls]
             g == [x \in P |-> recv'[q][x].calls]
             v == IF r = ProcNull THEN AnySource ELSE w
  <2>1. /\ DOMAIN f = P /\ DOMAIN g = P /\ v \in P
        /\ \A x \in P : f[x] \in Int /\ g[x] \in Int
        /\ \A x \in P \ {v} : g[x] = f[x]
        /\ g[v] - f[v] = (IF r # ProcNull /\ p = q THEN 1 ELSE 0)
    BY <1>1, <1>5, PeersFinite, SpecialRanks
  <2> HIDE DEF f, g, v, P
  <2>2. IsFiniteSet(P)
    BY PeersFinite DEF P
  <2>3. /\ SumFunctionOnSet(g, P) = SumFunctionOnSet(f, P) + (g[v] - f[v])
        /\ SumFunctionOnSet(f, P) \in Int
    BY <2>1, <2>2, SumOfChanged, SumType
  <2>4. SumFunction(f) = SumFunctionOnSet(f, P) /\ SumFunction(g) = SumFunctionOnSet(g, P)
    BY <2>1, Zenon DEF SumFunction
  <2>5. CallsFrom(q) = SumFunction(f) /\ CallsFrom(q)' = SumFunction(g)
    BY DEF CallsFrom, f, g, P
  <2> QED BY <2>1, <2>3, <2>4, <2>5
<1>9. ReceivedBy(q)' = ReceivedBy(q)
  <2>1. CASE r # ProcNull /\ p = q
    <3>1. /\ Len(posted'[q]) = Len(posted[q]) + 1 /\ Len(posted[q]) \in Nat
          /\ CallsFrom(q)' = CallsFrom(q) + 1 /\ CallsFrom(q) \in Int
      BY <1>6, <1>8, <2>1
    <3> QED BY <3>1 DEF ReceivedBy
  <2>2. CASE ~(r # ProcNull /\ p = q)
    <3>1. posted'[q] = posted[q] /\ CallsFrom(q)' = CallsFrom(q) + 0 /\ CallsFrom(q) \in Int
      BY <1>7, <1>8, <2>2
    <3> QED BY <3>1 DEF ReceivedBy
  <2> QED BY <2>1, <2>2
<1>10. ASSUME NEW a \in Ranks
       PROVE  Received(q, a)' = Received(q, a) /\ ReceivedBytes(q, a)' = ReceivedBytes(q, a)
  <2>1. /\ PostedCalls(posted[q], a) \in Int /\ PostedBytes(posted[q], a) \in Int
        /\ recv[q][a].calls \in Int /\ recv[q][a].bytes \in Int /\ a \in Peers
    BY <1>2, <1>5, PostedIsNumber DEF Peers
  <2>2. CASE r # ProcNull /\ p = q
    <3>1. /\ recv'[q][a].calls = recv[q][a].calls + (IF w = a THEN 1 ELSE 0)
          /\ recv'[q][a].bytes = recv[q][a].bytes + (IF w = a THEN s ELSE 0)
      BY <1>5, <2>1, <2>2
    <3>2. /\ PostedCalls(posted'[q], a) = PostedCalls(posted[q], a) + (IF w = a THEN 1 ELSE 0)
          /\ PostedBytes(posted'[q], a) = PostedBytes(posted[q], a) + (IF w = a THEN s ELSE 0)
      BY <1>6, <2>2
    <3>3. /\ recv'[q][a].calls - PostedCalls(posted'[q], a) = recv[q][a].calls - PostedCalls(posted[q], a)
          /\ recv'[q][a].bytes - PostedBytes(posted'[q], a) = recv[q][a].bytes - PostedBytes(posted[q], a)
      BY ONLY <2>1, <3>1, <3>2, s \in Nat
    <3> QED BY <3>3 DEF Received, ReceivedBytes
  <2>3. CASE ~(r # ProcNull /\ p = q)
    <3>1. posted'[q] = posted[q] /\ ~(p = q /\ w = a)
      BY <1>1, <1>7, <2>3, SpecialRanks
    <3> QED BY <1>5, <2>1, <3>1 DEF Received, ReceivedBytes
  <2> QED BY <2>2, <2>3
<1>11. ASSUME recv'[q][AnySource].calls = 0
       PROVE  recv[q][AnySource].calls = 0 /\ ~(p = q /\ w = AnySource)
  BY <1>5, <1>11, PeersFinite
<1>12. ASSUME recv'[q][AnySource].calls = 0,
              \A i \in DOMAIN posted[q] : posted[q][i].from # AnySource
       PROVE  \A i \in DOMAIN posted'[q] : posted'[q][i].from # AnySource
  <2>1. CASE r # ProcNull /\ p = q
    BY <1>6, <1>11, <1>12, <2>1
  <2>2. CASE ~(r # ProcNull /\ p = q)
    BY <1>7, <1>12, <2>2
  <2> QED BY <2>1, <2>2
<1> QED BY <1>9, <1>10, <1>11, <1>12

\* A message that meets a receive is delivered and received.
LEMMA MatchKeeps ==
  ASSUME TypeOK, Matched, NEW q \in Ranks, Match(q)
  PROVE  Matched'
<1>1. PICK i \in DOMAIN posted[q], j \in DOMAIN flight :
        /\ Fits(q, posted[q][i], flight[j]) /\ flight[j].size <= posted[q][i].size
        /\ posted' = [posted EXCEPT ![q] = SubSeq(@, 1, i - 1) \o SubSeq(@, i + 1, Len(@))]
        /\ flight' = SubSeq(flight, 1, j - 1) \o SubSeq(flight, j + 1, Len(flight))
        /\ UNCHANGED <<recv, told>>
  BY DEF Match
<1> DEFINE po == posted[q]
           gl == SubSeq(po, 1, i - 1) \o SubSeq(po, i + 1, Len(po))
           m  == flight[j]
           r  == po[i]
<1>2. /\ flight \in Seq(Message) /\ posted \in [Ranks -> Seq(Receive)] /\ po \in Seq(Receive)
      /\ recv \in [Ranks -> [Peers -> Entry]] /\ told \in [Ranks -> [Ranks -> Entry]]
  BY DEF TypeOK, MessagesTyped, TablesTyped
<1>3. m \in Message /\ m.src \in Ranks /\ m.dst = q /\ m.size \in Int
  BY <1>1, <1>2, FlightEntries DEF Fits, Message
<1>4. r \in Receive /\ r.size \in Int /\ m.size <= r.size /\ r.from \in {AnySource, m.src}
  BY <1>1, <1>2, PostedEntries DEF Fits
<1>5. \A x \in Ranks : posted'[x] = IF x = q THEN gl ELSE posted[x]
  BY <1>1, <1>2
<1>6. /\ gl \in Seq(Receive) /\ Len(gl) = Len(po) - 1 /\ Len(po) \in Nat
      /\ DOMAIN gl = 1 .. (Len(po) - 1) /\ DOMAIN po = 1 .. Len(po)
      /\ \A k \in 1 .. (Len(po) - 1) : gl[k] = IF k < i THEN po[k] ELSE po[k + 1]
  <2>1. /\ gl \in Seq(Receive) /\ Len(gl) = Len(po) - 1
        /\ \A k \in 1 .. (Len(po) - 1) : gl[k] = IF k < i THEN po[k] ELSE po[k + 1]
    BY <1>2, WithoutEntry
  <2>2. DOMAIN gl = 1 .. (Len(po) - 1) /\ DOMAIN po = 1 .. Len(po) /\ Len(po) \in Nat
    BY <1>2, <2>1, LenProperties
  <2> QED BY <2>1, <2>2
<1>7. \A a \in Ranks, b \in Ranks :
        /\ FlightCalls(flight', a, b)
             = FlightCalls(flight, a, b) - (IF m.src = a /\ m.dst = b THEN 1 ELSE 0)
        /\ FlightBytes(flight', a, b)
             = FlightBytes(flight, a, b) - (IF m.src = a /\ m.dst = b THEN m.size ELSE 0)
        /\ FlightTo(flight', b) = FlightTo(flight, b) - (IF m.dst = b THEN 1 ELSE 0)
  <2> TAKE a \in Ranks, b \in Ranks
  <2> DEFINE fl == SubSeq(flight, 1, j - 1) \o SubSeq(flight, j + 1, Len(flight))
  <2>1. flight \in Seq(Message) /\ j \in DOMAIN flight
    BY <1>2
  <2>2. FlightCalls(fl, a, b)
          = FlightCalls(flight, a, b) - (IF flight[j].src = a /\ flight[j].dst = b THEN 1 ELSE 0)
    BY ONLY <2>1, FlightShrinks
  <2>3. FlightBytes(fl, a, b) = FlightBytes(flight, a, b)
          - (IF flight[j].src = a /\ flight[j].dst = b THEN flight[j].size ELSE 0)
    BY ONLY <2>1, FlightShrinks
  <2>4. FlightTo(fl, b) = FlightTo(flight, b) - (IF flight[j].dst = b THEN 1 ELSE 0)
    BY ONLY <2>1, FlightShrinks
  <2>5. flight' = fl
    BY <1>1
  <2> HIDE DEF fl
  <2> QED BY <2>2, <2>3, <2>4, <2>5
<1>8. \A a \in Ranks : /\ PostedCalls(gl, a) = PostedCalls(po, a) - (IF r.from = a THEN 1 ELSE 0)
                       /\ PostedBytes(gl, a) = PostedBytes(po, a) - (IF r.from = a THEN r.size ELSE 0)
  BY <1>1, <1>2, PostedShrinks
<1>9. \A a \in Ranks, b \in Ranks :
        /\ FlightCalls(flight, a, b) \in Int /\ FlightBytes(flight, a, b) \in Int
        /\ FlightTo(flight, b) \in Int
        /\ PostedCalls(posted[b], a) \in Int /\ PostedBytes(posted[b], a) \in Int
  BY <1>2, FlightIsNumber, PostedIsNumber
<1>10. \A a \in Ranks, b \in Ranks :
        /\ told[a][b].calls \in Int /\ told[a][b].bytes \in Int
        /\ recv[b][a].calls \in Int /\ recv[b][a].bytes \in Int
  <2> TAKE a \in Ranks, b \in Ranks
  <2>1. told[a][b] \in Entry /\ recv[b][a] \in Entry
    BY <1>2, PeersFinite
  <2> QED BY <2>1 DEF Entry
<1>11. \A b \in Ranks : /\ CallsFrom(b) \in Int /\ CallsFrom(b)' = CallsFrom(b)
                        /\ SumFunction([x \in Ranks |-> told[x][b].calls]) \in Int
  <2> TAKE b \in Ranks
  <2>1. CallsFrom(b)' = CallsFrom(b)
    BY <1>1 DEF CallsFrom
  <2>2. CallsFrom(b) \in Int
    <3> DEFINE P == Peers \ {ProcNull}
               f == [x \in P |-> recv[b][x].calls]
    <3>1. DOMAIN f = P /\ \A x \in P : f[x] \in Int
      BY <1>2 DEF Entry
    <3> HIDE DEF f
    <3>2. SumFunctionOnSet(f, P) \in Int
      BY <3>1, PeersFinite, SumType
    <3>3. SumFunction(f) = SumFunctionOnSet(f, P)
      BY <3>1, Zenon DEF SumFunction
    <3> QED BY <3>2, <3>3 DEF CallsFrom, f
  <2>3. SumFunction([x \in Ranks |-> told[x][b].calls]) \in Int
    <3> DEFINE f == [x \in Ranks |-> told[x][b].calls]
    <3>1. DOMAIN f = Ranks /\ \A x \in Ranks : f[x] \in Int
      BY <1>10
    <3> HIDE DEF f
    <3>2. SumFunctionOnSet(f, Ranks) \in Int
      BY <3>1, PeersFinite, SumType
    <3>3. SumFunction(f) = SumFunctionOnSet(f, Ranks)
      BY <3>1, Zenon DEF SumFunction
    <3> QED BY <3>2, <3>3 DEF f
  <2> QED BY <2>1, <2>2, <2>3
<1>12. told' = told /\ recv' = recv
  BY <1>1
<1> HIDE DEF m, r, gl
<1>13. ASSUME NEW b \in Ranks PROVE DeliveredTo(b)' = ReceivedBy(b)'
  <2>1. DeliveredTo(b) = ReceivedBy(b)
    BY DEF Matched
  <2>2. DeliveredTo(b)' = DeliveredTo(b) + (IF b = q THEN 1 ELSE 0)
    <3> DEFINE t == SumFunction([x \in Ranks |-> told[x][b].calls])
    <3>1. t' = t
      BY <1>12
    <3>2. t \in Int /\ FlightTo(flight, b) \in Int
          /\ FlightTo(flight', b) = FlightTo(flight, b) - (IF b = q THEN 1 ELSE 0)
      BY <1>3, <1>7, <1>9, <1>11
    <3>3. DeliveredTo(b) = t - FlightTo(flight, b) /\ DeliveredTo(b)' = t' - FlightTo(flight', b)
      BY DEF DeliveredTo
    <3> HIDE DEF t
    <3> QED BY <3>1, <3>2, <3>3
  <2>3. Len(posted'[b]) = Len(posted[b]) - (IF b = q THEN 1 ELSE 0) /\ Len(posted[b]) \in Nat
    <3>1. posted[b] \in Seq(Receive) /\ Len(posted[b]) \in Nat
      BY <1>2
    <3>2. CASE b = q
      BY <1>5, <1>6, <3>2
    <3>3. CASE b # q
      BY <1>5, <3>1, <3>3
    <3> QED BY <3>2, <3>3
  <2>4. ReceivedBy(b)' = ReceivedBy(b) + (IF b = q THEN 1 ELSE 0)
    <3>1. CallsFrom(b) \in Int /\ CallsFrom(b)' = CallsFrom(b)
      BY <1>11
    <3>2. CASE b = q
      BY <2>3, <3>1, <3>2 DEF ReceivedBy
    <3>3. CASE b # q
      BY <2>3, <3>1, <3>3 DEF ReceivedBy
    <3> QED BY <3>2, <3>3
  <2> QED BY <2>1, <2>2, <2>4
<1>14. ASSUME NEW b \in Ranks, recv[b][AnySource].calls = 0
       PROVE  \A k \in DOMAIN posted'[b] : posted'[b][k].from # AnySource
  <2>1. \A k \in DOMAIN posted[b] : posted[b][k].from # AnySource
    BY <1>14 DEF Matched
  <2>2. CASE b = q
    <3>1. \A k \in 1 .. (Len(po) - 1) : gl[k].from # AnySource
      <4>1. i \in 1 .. Len(po) /\ \A k \in 1 .. Len(po) : po[k].from # AnySource
        BY <1>6, <2>1, <2>2
      <4> TAKE k \in 1 .. (Len(po) - 1)
      <4>2. k \in 1 .. Len(po) /\ k + 1 \in 1 .. Len(po)
        BY <1>6
      <4> QED BY <1>6, <4>1, <4>2
    <3> QED BY <1>5, <1>6, <2>2, <3>1
  <2>3. CASE b # q
    BY <1>5, <2>1, <2>3
  <2> QED BY <2>2, <2>3
<1>15. ASSUME NEW b \in Ranks, recv[b][AnySource].calls = 0, NEW a \in Ranks
       PROVE  Delivered(a, b)' = Received(b, a)' /\ DeliveredBytes(a, b)' <= ReceivedBytes(b, a)'
  <2>1. Delivered(a, b) = Received(b, a) /\ DeliveredBytes(a, b) <= ReceivedBytes(b, a)
    BY <1>15 DEF Matched
  <2>2. CASE b = q
    <3>1. r.from = m.src
      BY <1>1, <1>4, <1>15, <2>2 DEF Matched, r
    <3>2. posted'[b] = gl /\ posted[b] = po
      BY <1>5, <2>2
    <3> HIDE DEF po
    <3>3. /\ FlightCalls(flight', a, b)
                = FlightCalls(flight, a, b) - (IF m.src = a THEN 1 ELSE 0)
          /\ FlightBytes(flight', a, b)
                = FlightBytes(flight, a, b) - (IF m.src = a THEN m.size ELSE 0)
      BY <1>3, <1>4, <1>7, <2>2
    <3>4. /\ PostedCalls(posted'[b], a)
                = PostedCalls(posted[b], a) - (IF m.src = a THEN 1 ELSE 0)
          /\ PostedBytes(posted'[b], a)
                = PostedBytes(posted[b], a) - (IF m.src = a THEN r.size ELSE 0)
      BY <1>8, <3>1, <3>2
    <3>5. Delivered(a, b)' = Received(b, a)'
      BY <1>9, <1>10, <1>12, <2>1, <3>3, <3>4 DEF Delivered, Received
    <3>6. DeliveredBytes(a, b)' <= ReceivedBytes(b, a)'
      BY <1>3, <1>4, <1>9, <1>10, <1>12, <2>1, <3>3, <3>4 DEF DeliveredBytes, ReceivedBytes
    <3> QED BY <3>5, <3>6
  <2>3. CASE b # q
    BY <1>3, <1>5, <1>7, <1>9, <1>10, <1>12, <2>1, <2>3
    DEF Delivered, DeliveredBytes, Received, ReceivedBytes
  <2> QED BY <2>2, <2>3
<1> QED BY <1>12, <1>13, <1>14, <1>15 DEF Matched

\* As long as no handle is given out again, what is delivered is received.
BalancedInv == SentInv /\ (~Reuse => Matched)

LEMMA BalancedInit == Init => BalancedInv
<1> SUFFICES ASSUME Init PROVE Matched
  BY SentInit DEF BalancedInv
<1>1. /\ flight = <<>> /\ flight \in Seq(Message) /\ DOMAIN flight = {}
      /\ \A q \in Ranks : posted[q] = <<>> /\ posted[q] \in Seq(Receive) /\ Len(posted[q]) = 0
                          /\ DOMAIN posted[q] = {}
      /\ \A p, q \in Ranks : told[p][q].calls = 0 /\ told[p][q].bytes = 0
      /\ \A q \in Ranks, x \in Peers : recv[q][x].calls = 0 /\ recv[q][x].bytes = 0
  BY DEF Init, Zero
<1>2. \A p, q \in Ranks : /\ FlightCalls(flight, p, q) = 0 /\ FlightBytes(flight, p, q) = 0
                          /\ FlightTo(flight, q) = 0
                          /\ PostedCalls(posted[q], p) = 0 /\ PostedBytes(posted[q], p) = 0
  BY <1>1, FlightIsNumber, PostedIsNumber
<1>3. ASSUME NEW q \in Ranks
      PROVE  SumFunction([x \in Ranks |-> told[x][q].calls]) = 0 /\ CallsFrom(q) = 0
  <2> DEFINE P == Peers \ {ProcNull}
             f == [x \in Ranks |-> told[x][q].calls]
             g == [x \in P |-> recv[q][x].calls]
  <2>1. /\ DOMAIN f = Ranks /\ \A x \in Ranks : f[x] = 0
        /\ DOMAIN g = P /\ \A x \in P : g[x] = 0
    BY <1>1
  <2> HIDE DEF f, g
  <2>2. SumFunctionOnSet(f, Ranks) = 0 /\ SumFunctionOnSet(g, P) = 0
    BY <2>1, PeersFinite, SumOfZeros
  <2> HIDE DEF P
  <2>3. SumFunction(f) = 0 /\ SumFunction(g) = 0
    BY <2>1, <2>2, Zenon DEF SumFunction
  <2> QED BY <2>3 DEF CallsFrom, f, g, P
<1>4. ASSUME NEW q \in Ranks PROVE DeliveredTo(q) = ReceivedBy(q)
  <2>1. DeliveredTo(q) = 0 - 0
    BY <1>2, <1>3 DEF DeliveredTo
  <2>2. ReceivedBy(q) = 0 - 0
    BY <1>1, <1>3 DEF ReceivedBy
  <2> QED BY <2>1, <2>2
<1>5. ASSUME NEW q \in Ranks, NEW p \in Ranks
      PROVE  Delivered(p, q) = Received(q, p) /\ DeliveredBytes(p, q) <= ReceivedBytes(q, p)
  <2>1. /\ told[p][q].calls = 0 /\ told[p][q].bytes = 0
        /\ recv[q][p].calls = 0 /\ recv[q][p].bytes = 0
    BY <1>1, PeersFinite
  <2> QED BY <1>2, <2>1 DEF Delivered, DeliveredBytes, Received, ReceivedBytes
<1> QED BY <1>1, <1>4, <1>5 DEF Matched

\* The counts depend on these four variables only.
LEMMA MatchedDepends ==
  ASSUME Matched, UNCHANGED <<recv, flight, posted, told>>
  PROVE  Matched'
<1>1. \A q \in Ranks : DeliveredTo(q)' = DeliveredTo(q) /\ ReceivedBy(q)' = ReceivedBy(q)
  BY DEF DeliveredTo, ReceivedBy, CallsFrom
<1>2. \A p, q \in Ranks :
        /\ Delivered(p, q)' = Delivered(p, q) /\ DeliveredBytes(p, q)' = DeliveredBytes(p, q)
        /\ Received(q, p)' = Received(q, p) /\ ReceivedBytes(q, p)' = ReceivedBytes(q, p)
  BY DEF Delivered, DeliveredBytes, Received, ReceivedBytes
<1> QED BY <1>1, <1>2 DEF Matched

LEMMA BalancedStep == BalancedInv /\ [Next]_vars => BalancedInv'
<1> SUFFICES ASSUME BalancedInv, ~Reuse, [Next]_vars PROVE Matched'
  BY SentStep DEF BalancedInv
<1> USE PointToPointAssumption
<1>0. /\ TypeOK /\ CommTyped /\ Right(cache) /\ Matched
      /\ Sizes \subseteq Nat /\ Buffers \subseteq Nat
  BY DEF BalancedInv, SentInv, TypeOK
<1>1. ASSUME NEW p \in Ranks, NEW h \in Handles \cup {World}, NEW s \in Sizes, NEW d \in Peers,
             Send(p, h, d, s)
      PROVE  Matched'
  <2>1. d \in Named(h) /\ Launch(p, h, d, s) /\ recv' = recv /\ posted' = posted /\ s \in Nat
    BY <1>0, <1>1 DEF Send
  <2>2. \A a, b \in Ranks :
          /\ Delivered(a, b)' = Delivered(a, b) /\ DeliveredBytes(a, b)' = DeliveredBytes(a, b)
          /\ DeliveredTo(b)' = DeliveredTo(b)
    BY <1>0, <2>1, LaunchKeeps
  <2>3. /\ \A b \in Ranks : ReceivedBy(b)' = ReceivedBy(b)
        /\ \A a, b \in Ranks : /\ Received(b, a)' = Received(b, a)
                               /\ ReceivedBytes(b, a)' = ReceivedBytes(b, a)
    BY <2>1 DEF ReceivedBy, CallsFrom, Received, ReceivedBytes
  <2> QED BY <1>0, <2>1, <2>2, <2>3 DEF Matched
<1>2. ASSUME NEW p \in Ranks, NEW h \in Handles \cup {World}, NEW t \in Buffers, NEW r \in Peers,
             Recv(p, h, r, t)
      PROVE  Matched'
  <2>1. /\ r \in Named(h) \cup {AnySource} /\ Usable(p, h) /\ Post(p, h, r, t) /\ t \in Nat
        /\ flight' = flight /\ told' = told /\ recv' = Record(recv, p, WorldRank(h, r), t)
    BY <1>0, <1>2, TranslatedRight DEF Recv
  <2>2. \A q \in Ranks :
         /\ ReceivedBy(q)' = ReceivedBy(q)
         /\ \A a \in Ranks : /\ Received(q, a)' = Received(q, a)
                             /\ ReceivedBytes(q, a)' = ReceivedBytes(q, a)
         /\ recv'[q][AnySource].calls = 0 =>
              /\ recv[q][AnySource].calls = 0
              /\ (\A i \in DOMAIN posted[q] : posted[q][i].from # AnySource) =>
                   \A i \in DOMAIN posted'[q] : posted'[q][i].from # AnySource
    BY <1>0, <2>1, PostKeeps
  <2>3. /\ \A b \in Ranks : DeliveredTo(b)' = DeliveredTo(b)
        /\ \A a, b \in Ranks : /\ Delivered(a, b)' = Delivered(a, b)
                               /\ DeliveredBytes(a, b)' = DeliveredBytes(a, b)
    BY <2>1 DEF DeliveredTo, Delivered, DeliveredBytes
  <2> QED BY <1>0, <2>2, <2>3 DEF Matched
<1>3. ASSUME NEW p \in Ranks, NEW h \in Handles \cup {World}, NEW s \in Sizes,
             NEW t \in Buffers, NEW d \in Peers, NEW r \in Peers,
             Sendrecv(p, h, d, s, r, t)
      PROVE  Matched'
  <2>1. /\ d \in Named(h) /\ r \in Named(h) \cup {AnySource} /\ Usable(p, h) /\ s \in Nat /\ t \in Nat
        /\ Launch(p, h, d, s) /\ Post(p, h, r, t) /\ recv' = Record(recv, p, Translated(p, h, r), t)
    BY <1>0, <1>3 DEF Sendrecv
  <2>2. recv' = Record(recv, p, WorldRank(h, r), t)
    BY <1>0, <2>1, TranslatedRight
  <2>3. \A q \in Ranks :
         /\ ReceivedBy(q)' = ReceivedBy(q)
         /\ \A a \in Ranks : /\ Received(q, a)' = Received(q, a)
                             /\ ReceivedBytes(q, a)' = ReceivedBytes(q, a)
         /\ recv'[q][AnySource].calls = 0 =>
              /\ recv[q][AnySource].calls = 0
              /\ (\A i \in DOMAIN posted[q] : posted[q][i].from # AnySource) =>
                   \A i \in DOMAIN posted'[q] : posted'[q][i].from # AnySource
    BY <1>0, <2>1, <2>2, PostKeeps
  <2>4. \A a, b \in Ranks :
          /\ Delivered(a, b)' = Delivered(a, b) /\ DeliveredBytes(a, b)' = DeliveredBytes(a, b)
          /\ DeliveredTo(b)' = DeliveredTo(b)
    BY <1>0, <2>1, LaunchKeeps
  <2> QED BY <1>0, <2>3, <2>4 DEF Matched
<1>4. ASSUME NEW q \in Ranks, Match(q) PROVE Matched'
  BY <1>0, <1>4, MatchKeeps
<1>5. ASSUME NEW h \in Handles, CommFree(h) PROVE Matched'
  BY <1>0, <1>5, MatchedDepends DEF CommFree
<1>6. ASSUME NEW h \in Handles, NEW g \in Groups, CommCreate(h, g) PROVE Matched'
  BY <1>0, <1>6, MatchedDepends DEF CommCreate
<1>7. CASE UNCHANGED vars
  BY <1>0, <1>7, MatchedDepends DEF vars
<1> QED
  BY <1>1, <1>2, <1>3, <1>4, <1>5, <1>6, <1>7 DEF Next, Wrapped, Library, Stop

\* Where nothing is under way the counts of the logs are those of the messages.
LEMMA MatchedBalances == BalancedInv => Balanced
<1> SUFFICES ASSUME BalancedInv, ~Reuse, NEW q \in Ranks, Settled(q)
             PROVE  /\ CallsFrom(q) = CallsTo(q)
                    /\ recv[q][AnySource] = Zero =>
                         \A p \in Ranks : /\ recv[q][p].calls = sent[p][q].calls
                                          /\ recv[q][p].bytes >= sent[p][q].bytes
  BY DEF Balanced
<1>1. TypeOK /\ Matched /\ \A p \in Ranks : sent[p][q] = told[p][q]
  BY DEF BalancedInv, SentInv, SentTrue
<1>2. /\ flight \in Seq(Message) /\ posted[q] \in Seq(Receive) /\ posted[q] = <<>>
      /\ \A j \in DOMAIN flight : flight[j].dst # q
  BY <1>1 DEF TypeOK, MessagesTyped, Settled
<1>3. \A p \in Ranks : told[p][q] \in Entry /\ recv[q][p] \in Entry
  BY <1>1, PeersFinite DEF TypeOK, TablesTyped
<1>4. \A p \in Ranks : /\ FlightCalls(flight, p, q) = 0 /\ FlightBytes(flight, p, q) = 0
                       /\ FlightTo(flight, q) = 0
                       /\ PostedCalls(posted[q], p) = 0 /\ PostedBytes(posted[q], p) = 0
  BY <1>2, FlightIsNumber, PostedIsNumber
<1>5. CallsFrom(q) = CallsTo(q)
  <2> DEFINE f == [x \in Ranks |-> told[x][q].calls]
             P == Peers \ {ProcNull}
             g == [x \in P |-> recv[q][x].calls]
  <2>1. f = [x \in Ranks |-> sent[x][q].calls]
    BY <1>1
  <2>2. SumFunction(f) \in Int
    <3>1. DOMAIN f = Ranks /\ \A x \in Ranks : f[x] \in Int
      BY <1>3 DEF Entry
    <3> HIDE DEF f
    <3>2. SumFunctionOnSet(f, Ranks) \in Int
      BY <3>1, PeersFinite, SumType
    <3> QED BY <3>1, <3>2, Zenon DEF SumFunction
  <2>3. CallsFrom(q) \in Int
    <3>1. DOMAIN g = P /\ \A x \in P : g[x] \in Int
      BY <1>1 DEF TypeOK, TablesTyped, Entry
    <3> HIDE DEF g
    <3>2. SumFunctionOnSet(g, P) \in Int
      BY <3>1, PeersFinite, SumType
    <3>3. SumFunction(g) \in Int
      BY <3>1, <3>2, Zenon DEF SumFunction
    <3> QED BY <3>3 DEF CallsFrom, g
  <2>4. DeliveredTo(q) = SumFunction(f) - 0
    BY <1>4 DEF DeliveredTo
  <2>5. ReceivedBy(q) = CallsFrom(q) - 0
    BY <1>2 DEF ReceivedBy
  <2>6. CallsTo(q) = SumFunction(f)
    BY <2>1 DEF CallsTo
  <2>7. DeliveredTo(q) = ReceivedBy(q)
    BY <1>1 DEF Matched
  <2> HIDE DEF f
  <2> QED BY <2>2, <2>3, <2>4, <2>5, <2>6, <2>7
<1>6. ASSUME recv[q][AnySource] = Zero, NEW p \in Ranks
      PROVE  recv[q][p].calls = sent[p][q].calls /\ recv[q][p].bytes >= sent[p][q].bytes
  <2>1. Delivered(p, q) = Received(q, p) /\ DeliveredBytes(p, q) <= ReceivedBytes(q, p)
    BY <1>1, <1>6 DEF Matched, Zero
  <2>2. /\ told[p][q].calls \in Int /\ told[p][q].bytes \in Int
        /\ recv[q][p].calls \in Int /\ recv[q][p].bytes \in Int
    BY <1>3 DEF Entry
  <2> QED BY <1>1, <1>4, <2>1, <2>2 DEF Delivered, DeliveredBytes, Received, ReceivedBytes
<1> QED BY <1>5, <1>6

\* Once nothing is under way to a process, it has counted as many calls from
\* each sender as that has counted to it, with at least their bytes, unless it
\* used MPI_ANY_SOURCE, and the totals agree in any case: for any number of
\* processes, communicators, calls and messages under way.
THEOREM BalancedHolds == Spec => []Balanced
BY BalancedInit, BalancedStep, MatchedBalances, PTL DEF Spec

=============================================================================
