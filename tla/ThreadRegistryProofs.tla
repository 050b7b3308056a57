------------------------- MODULE ThreadRegistryProofs -------------------------
(***************************************************************************)
(* The registry of threads for any number of threads and calls: its locks  *)
(* exclude, its depth counts each call once, its reports are kept, and it  *)
(* is one atomic object; logThreads() announces each thread in its order.  *)
(***************************************************************************)
EXTENDS ThreadRegistry, FiniteSetTheorems, SequenceTheorems, TLAPS

-----------------------------------------------------------------------------
(* Sequences of frames, and maps.                                          *)

LEMMA Popped ==
  ASSUME NEW S, NEW s \in Seq(S), s # <<>>
  PROVE  /\ Tail(s) \in Seq(S) /\ Len(Tail(s)) = Len(s) - 1
         /\ Len(s) \in Nat \ {0} /\ Head(s) = s[1] /\ s[1] \in S
         /\ \A i \in 1..(Len(s) - 1) : Tail(s)[i] = s[i + 1]
         /\ Len(s) = 1 => Tail(s) = <<>>
<1>1. /\ Tail(s) \in Seq(S) /\ Len(Tail(s)) = Len(s) - 1 /\ Head(s) \in S
      /\ \A i \in 1..Len(Tail(s)) : Tail(s)[i] = s[i + 1]
  BY HeadTailProperties
<1>2. Len(s) \in Nat \ {0}
  BY EmptySeq, LenProperties
<1>3. Head(s) = s[1]
  OBVIOUS
<1>4. Len(s) = 1 => Tail(s) = <<>>
  <2> DEFINE p == Tail(s)
  <2>1. p \in Seq(S) /\ Len(p) = Len(s) - 1
    BY <1>1
  <2> HIDE DEF p
  <2>2. Len(s) = 1 => p = <<>>
    BY <2>1, EmptySeq
  <2> QED
    BY <2>2 DEF p
<1> QED
  BY <1>1, <1>2, <1>3, <1>4

LEMMA Replaced ==
  ASSUME NEW S, NEW s \in Seq(S), s # <<>>, NEW f \in S
  PROVE  LET p == <<f>> \o Tail(s)
         IN  /\ p \in Seq(S) /\ Len(p) = Len(s) /\ p[1] = f
             /\ \A i \in 2..Len(s) : p[i] = s[i]
<1>1. <<f>> \in Seq(S) /\ Len(<<f>>) = 1 /\ <<f>>[1] = f
  OBVIOUS
<1> QED
  BY <1>1, Popped, ConcatProperties

LEMMA Pushed ==
  ASSUME NEW S, NEW s \in Seq(S), NEW f \in S
  PROVE  LET p == <<f>> \o s
         IN  /\ p \in Seq(S) /\ Len(p) = Len(s) + 1 /\ p[1] = f
             /\ \A i \in 1..Len(s) : p[i + 1] = s[i]
<1>1. <<f>> \in Seq(S) /\ Len(<<f>>) = 1 /\ <<f>>[1] = f
  OBVIOUS
<1> QED
  BY <1>1, ConcatProperties, LenProperties

LEMMA InsertedNew ==
  ASSUME NEW f, NEW x, NEW v, x \notin DOMAIN f, NEW g, g = Inserted(f, x, v)
  PROVE  /\ DOMAIN g = DOMAIN f \cup {x} /\ g[x] = v
         /\ \A y \in DOMAIN f : g[y] = f[y]
BY DEF Inserted

-----------------------------------------------------------------------------
(* The inductive invariant.                                                *)

\* The call of a thread that is outside of all others.
Outer(t) == stack[t][Len(stack[t])]

\* Inside of the outer call there is one more at most, the counting's, and only
\* before the thread has its counters.
StackOk(t) ==
  /\ stack[t] # <<>> <=> pc[t] = "call"
  /\ Len(stack[t]) <= 2
  /\ stack[t] # <<>> /\ Outer(t).m # "app" => Outer(t).op = "locks"
  /\ Len(stack[t]) = 2 => /\ ~mine[t] /\ Outer(t).at = "enter"
                          /\ stack[t][1].m = "map" /\ stack[t][1].op = "locks"

StackInv == \A t \in Threads : StackOk(t)

\* Who holds what, by where he is.
OwnerOk(t) ==
  /\ owner["app"] = t <=> pc[t] = "held"
  /\ owner["threads"] = t <=> pc[t] \in {"test", "store"}
  /\ pc[t] = "lookup" => owner["map"] = t
  /\ owner["map"] = t => \/ pc[t] = "lookup"
                         \/ /\ pc[t] = "call" /\ ~mine[t]
                            /\ Len(stack[t]) = 1 /\ stack[t][1].at = "enter"

OwnerInv == \A t \in Threads : OwnerOk(t)

\* The pointer of a thread leads to counters.
MineInv == \A t \in Threads : mine[t] => t \in DOMAIN counters

\* Whoever looks up or reports has an id to do it for, and what add() has found in
\* the map is still true when it acts on it.
TargetOk(t) ==
  /\ pc[t] \in {"lookup", "report", "test", "store"} => target[t] \in Threads
  /\ stack[t] # <<>> /\ Outer(t).m # "app" => target[t] \in Threads
  /\ pc[t] = "store" => (found[t] <=> target[t] \in DOMAIN threads)

TargetInv == \A t \in Threads : TargetOk(t)

IInv == TypeOK /\ StackInv /\ OwnerInv /\ MineInv /\ TargetInv

\* What the stack of a thread is after each kind of step.
LEMMA StackTop ==
  ASSUME TypeOK, NEW t \in Threads, stack[t] # <<>>
  PROVE  /\ Len(stack[t]) \in Nat \ {0} /\ Top(t) = stack[t][1]
         /\ stack[t][1] \in Frame /\ Outer(t) \in Frame
<1>1. stack[t] \in Seq(Frame)
  BY DEF TypeOK
<1>2. Len(stack[t]) \in Nat \ {0} /\ Head(stack[t]) = stack[t][1] /\ stack[t][1] \in Frame
  BY <1>1, Popped
<1>3. stack[t][Len(stack[t])] \in Frame
  BY <1>1, <1>2, ElementOfSeq
<1> QED
  BY <1>2, <1>3 DEF Top, Outer

LEMMA AfterEnter ==
  ASSUME TypeOK, NEW t \in Threads, NEW m \in Mutexes, NEW op \in Ops, Enter(t, m, op)
  PROVE  /\ stack' \in [Threads -> Seq(Frame)]
         /\ stack'[t] # <<>> /\ Len(stack'[t]) = 1
         /\ stack'[t][1] = [m |-> m, op |-> op, at |-> "enter"]
         /\ \A u \in Threads \ {t} : stack'[u] = stack[u]
<1> DEFINE f == [m |-> m, op |-> op, at |-> "enter"]
<1>1. f \in Frame
  BY DEF Frame
<1> HIDE DEF f
<1>2. stack' = [stack EXCEPT ![t] = <<f>>]
  BY DEF Enter, f
<1>3. <<f>> \in Seq(Frame) /\ Len(<<f>>) = 1 /\ <<f>>[1] = f /\ <<f>> # <<>>
  BY <1>1
<1>4. stack \in [Threads -> Seq(Frame)]
  BY DEF TypeOK
<1> QED
  BY <1>2, <1>3, <1>4 DEF f

LEMMA AfterProceed ==
  ASSUME TypeOK, NEW t \in Threads, stack[t] # <<>>, Proceed(t)
  PROVE  /\ stack' \in [Threads -> Seq(Frame)]
         /\ stack'[t] # <<>> /\ Len(stack'[t]) = Len(stack[t])
         /\ stack'[t][1] = Taking(stack[t][1])
         /\ \A i \in 2..Len(stack[t]) : stack'[t][i] = stack[t][i]
         /\ \A u \in Threads \ {t} : stack'[u] = stack[u]
<1>1. stack \in [Threads -> Seq(Frame)] /\ stack[t][1] \in Frame
  BY StackTop DEF TypeOK
<1> DEFINE f == Taking(stack[t][1])
<1>2. f \in Frame
  BY <1>1 DEF Taking, Frame
<1>3. stack' = [stack EXCEPT ![t] = <<f>> \o Tail(stack[t])]
  BY <1>1, Popped DEF Proceed
<1> HIDE DEF f
<1> DEFINE p == <<f>> \o Tail(stack[t])
<1>4. /\ p \in Seq(Frame) /\ Len(p) = Len(stack[t]) /\ p[1] = f
      /\ \A i \in 2..Len(stack[t]) : p[i] = stack[t][i]
  BY <1>1, <1>2, Replaced
<1>5. p # <<>>
  BY <1>1, <1>4, Popped, EmptySeq
<1> HIDE DEF p
<1>6. stack' = [stack EXCEPT ![t] = p]
  BY <1>3 DEF p
<1> QED
  BY <1>1, <1>4, <1>5, <1>6 DEF f

LEMMA AfterPush ==
  ASSUME TypeOK, NEW t \in Threads, NEW f \in Frame,
         stack' = [stack EXCEPT ![t] = <<f>> \o @]
  PROVE  /\ stack' \in [Threads -> Seq(Frame)]
         /\ stack'[t] # <<>> /\ Len(stack'[t]) = Len(stack[t]) + 1
         /\ stack'[t][1] = f
         /\ \A i \in 1..Len(stack[t]) : stack'[t][i + 1] = stack[t][i]
         /\ \A u \in Threads \ {t} : stack'[u] = stack[u]
<1>1. stack \in [Threads -> Seq(Frame)]
  BY DEF TypeOK
<1> DEFINE p == <<f>> \o stack[t]
<1>2. /\ p \in Seq(Frame) /\ Len(p) = Len(stack[t]) + 1 /\ p[1] = f
      /\ \A i \in 1..Len(stack[t]) : p[i + 1] = stack[t][i]
  BY <1>1, Pushed
<1>3. p # <<>>
  BY <1>1, <1>2, EmptySeq, LenProperties
<1>4. stack' = [stack EXCEPT ![t] = p]
  OBVIOUS
<1> HIDE DEF p
<1> QED
  BY <1>1, <1>2, <1>3, <1>4

LEMMA AfterPop ==
  ASSUME TypeOK, NEW t \in Threads, stack[t] # <<>>, stack' = [stack EXCEPT ![t] = Tail(@)]
  PROVE  /\ stack' \in [Threads -> Seq(Frame)]
         /\ Len(stack'[t]) = Len(stack[t]) - 1
         /\ \A i \in 1..(Len(stack[t]) - 1) : stack'[t][i] = stack[t][i + 1]
         /\ Len(stack[t]) = 1 => stack'[t] = <<>>
         /\ Len(stack[t]) > 1 => stack'[t] # <<>>
         /\ \A u \in Threads \ {t} : stack'[u] = stack[u]
<1>1. stack \in [Threads -> Seq(Frame)]
  BY DEF TypeOK
<1> DEFINE p == Tail(stack[t])
<1>2. /\ p \in Seq(Frame) /\ Len(p) = Len(stack[t]) - 1 /\ Len(stack[t]) \in Nat \ {0}
      /\ \A i \in 1..(Len(stack[t]) - 1) : p[i] = stack[t][i + 1]
      /\ Len(stack[t]) = 1 => p = <<>>
  BY <1>1, Popped
<1>4. stack' = [stack EXCEPT ![t] = p]
  OBVIOUS
<1> HIDE DEF p
<1>3. Len(stack[t]) > 1 => p # <<>>
  BY <1>2, EmptySeq
<1> QED
  BY <1>1, <1>2, <1>3, <1>4

-----------------------------------------------------------------------------
(* One action after the other: the type.                                   *)

LEMMA TypeInit == Init => TypeOK
<1> SUFFICES ASSUME Init PROVE TypeOK
  OBVIOUS
<1>1. Main \in Threads /\ Worker \in Threads
  BY DEF Threads
<1>2. <<>> \in Seq(Frame)
  OBVIOUS
<1>3. DOMAIN counters = {} /\ DOMAIN first = {}
  BY DEF Init
<1>4. stack \in [Threads -> Seq(Frame)]
  BY <1>2 DEF Init
<1>5. \A t \in DOMAIN threads : threads[t] \in Sample1
  BY DEF Init, Sample1, Flags
<1>6. DOMAIN threads \subseteq Threads
  BY <1>1 DEF Init
<1> QED
  BY <1>1, <1>3, <1>4, <1>5, <1>6 DEF Init, TypeOK

LEMMA TypeStep ==
  ASSUME IInv, [Next]_vars
  PROVE  TypeOK'
<1> USE DEF IInv
<1>a. Worker \in Threads /\ Threads \subseteq Nat \ {Nobody} /\ IsFiniteSet(Threads)
  BY ThreadRegistryAssumption DEF Threads
<1>1. CASE UNCHANGED vars \/ Quiet
  BY <1>1 DEF Quiet, vars, counting, logging, TypeOK
<1>2. ASSUME NEW t \in Threads, EnterNested(t) PROVE TypeOK'
  <2>1. stack' \in [Threads -> Seq(Frame)]
    BY <1>2, AfterProceed DEF EnterNested, Entered, InCall
  <2> QED
    BY <1>2, <2>1 DEF EnterNested, TypeOK, counting, logging
<1>3. ASSUME NEW t \in Threads, EnterCounted(t) PROVE TypeOK'
  <2>1. stack' \in [Threads -> Seq(Frame)]
    BY <1>3, AfterProceed DEF EnterCounted, Entered, InCall
  <2>2. Top(t).op \in Ops /\ t \in DOMAIN counters
    BY <1>3, StackTop DEF EnterCounted, Entered, InCall, Frame, MineInv
  <2>3. counters[t] \in [Ops -> Nat]
    BY <2>2 DEF TypeOK
  <2>4. counters[t][Top(t).op] + 1 \in Nat
    BY <2>2, <2>3
  <2>5. /\ DOMAIN counters' = DOMAIN counters
        /\ counters'[t] = [counters[t] EXCEPT ![Top(t).op] = @ + 1]
        /\ \A u \in DOMAIN counters \ {t} : counters'[u] = counters[u]
    BY <1>3, <2>2 DEF EnterCounted
  <2>6. counters'[t] \in [Ops -> Nat]
    BY <2>2, <2>3, <2>4, <2>5
  <2>7. \A u \in DOMAIN counters' : first'[u] \in Nat /\ counters'[u] \in [Ops -> Nat]
    BY <1>3, <2>5, <2>6 DEF EnterCounted, TypeOK
  <2> QED
    BY <1>3, <2>1, <2>5, <2>7 DEF EnterCounted, TypeOK, counting, logging
<1>4. ASSUME NEW t \in Threads, EnterFirst(t) PROVE TypeOK'
  <2>1. [m |-> "map", op |-> "locks", at |-> "enter"] \in Frame
    BY DEF Frame, Mutexes, Ops
  <2>2. stack' \in [Threads -> Seq(Frame)]
    BY <1>4, <2>1, AfterPush DEF EnterFirst
  <2> QED
    BY <1>4, <2>2 DEF EnterFirst, TypeOK, counting, logging
<1>5. ASSUME NEW t \in Threads, Take(t) PROVE TypeOK'
  <2>1. stack' \in [Threads -> Seq(Frame)] /\ Top(t).m \in Mutexes
    BY <1>5, AfterPop, StackTop DEF Take, InCall, Frame
  <2>2. Granted[Top(t).m] \in {"held", "lookup", "test"}
    BY <2>1 DEF Granted, Mutexes
  <2> QED
    BY <1>5, <2>1, <2>2 DEF Take, TypeOK, counting, logging
<1>6. ASSUME NEW t \in Threads, TryFails(t) PROVE TypeOK'
  <2>1. stack' \in [Threads -> Seq(Frame)]
    BY <1>6, AfterPop DEF TryFails, InCall
  <2> QED
    BY <1>6, <2>1 DEF TryFails, TypeOK, counting, logging
<1>7. ASSUME NEW t \in Threads, Lookup(t) PROVE TypeOK'
  <2>1. LookupId(t) \in Threads
    BY <1>7 DEF Lookup, InLookup, LookupId, TargetInv, TargetOk, InCall
  <2>2. /\ DOMAIN counters' \subseteq Threads /\ DOMAIN first' = DOMAIN counters'
        /\ \A u \in DOMAIN counters' : first'[u] \in Nat /\ counters'[u] \in [Ops -> Nat]
    <3>1. CASE LookupId(t) \in DOMAIN counters
      BY <1>7, <3>1 DEF Lookup, TypeOK
    <3>2. CASE LookupId(t) \notin DOMAIN counters
      <4>1. PICK v \in FirstValues : NewCounters(LookupId(t), v)
        BY <1>7, <3>2 DEF Lookup
      <4> DEFINE w == [op \in Ops |-> v]
      <4>7. PICK id \in Threads : id = LookupId(t)
        BY <2>1
      <4>2. v \in Nat /\ w \in [Ops -> Nat]
        BY ThreadRegistryAssumption
      <4>3. counters' = Inserted(counters, id, w) /\ id \notin DOMAIN counters
        BY <3>2, <4>1, <4>7 DEF NewCounters
      <4>8. first' = Inserted(first, id, v) /\ id \notin DOMAIN first
        BY <3>2, <4>1, <4>7 DEF NewCounters, TypeOK
      <4> HIDE DEF w
      <4>4. /\ DOMAIN counters' = DOMAIN counters \cup {id} /\ counters'[id] = w
            /\ \A u \in DOMAIN counters : counters'[u] = counters[u]
        BY <4>3 DEF Inserted
      <4>5. /\ DOMAIN first' = DOMAIN first \cup {id} /\ first'[id] = v
            /\ \A u \in DOMAIN first : first'[u] = first[u]
        BY <4>8 DEF Inserted
      <4>6. /\ DOMAIN counters \subseteq Threads /\ DOMAIN first = DOMAIN counters
            /\ \A u \in DOMAIN counters : first[u] \in Nat /\ counters[u] \in [Ops -> Nat]
        BY DEF TypeOK
      <4> QED
        BY <4>2, <4>4, <4>5, <4>6
    <3> QED
      BY <3>1, <3>2
  <2> QED
    BY <1>7, <2>2 DEF Lookup, TypeOK, logging
<1>8. ASSUME NEW t \in Threads, AppCall(t) PROVE TypeOK'
  <2>1. PICK op \in Ops : Enter(t, "app", op)
    BY <1>8 DEF AppCall
  <2>2. stack' \in [Threads -> Seq(Frame)]
    BY <2>1, AfterEnter DEF Mutexes
  <2> QED
    BY <1>8, <2>1, <2>2 DEF AppCall, Enter, TypeOK, logging
<1>9. ASSUME NEW t \in Threads, AppUnlock(t) \/ Spawn(t) \/ Exit(t) \/ TestAdd(t) PROVE TypeOK'
  <2>1. CASE AppUnlock(t)
    <3>1. owner' \in [Mutexes -> Threads \cup {Nobody}]
      BY <2>1 DEF AppUnlock, TypeOK
    <3> QED
      BY <2>1, <3>1 DEF AppUnlock, TypeOK, counting, logging
  <2>2. CASE Spawn(t)
    BY <2>2 DEF Spawn, TypeOK, counting, logging
  <2>3. CASE Exit(t)
    <3> HIDE DEF IInv
    <3> QED BY <2>3 DEF IInv, Exit, TypeOK, counting, logging
  <2>4. CASE TestAdd(t)
    <3>1. found' \in [Threads -> BOOLEAN]
      <4>1. (target[t] \in DOMAIN threads) \in BOOLEAN
        OBVIOUS
      <4> QED
        BY <2>4, <4>1 DEF TestAdd, TypeOK
    <3> QED
      BY <2>4, <3>1 DEF TestAdd, TypeOK, counting, logging
  <2> QED
    BY <1>9, <2>1, <2>2, <2>3, <2>4
<1>10. ASSUME NEW t \in Threads, CallAdd(t) PROVE TypeOK'
  <2>1. stack' \in [Threads -> Seq(Frame)]
    BY <1>10, AfterEnter DEF CallAdd, Mutexes, Ops
  <2>2. pc' = [pc EXCEPT ![t] = "call"] /\ calls' = [calls EXCEPT ![t]["locks"] = @ + 1]
    BY <1>10 DEF CallAdd, Enter
  <2>3. target' \in [Threads -> Threads \cup {Nobody}]
    BY <1>10 DEF CallAdd, TypeOK
  <2>4. calls' \in [Threads -> [Ops -> Nat]]
    BY <2>2 DEF TypeOK, Ops
  <2>5. UNCHANGED <<owner, mine, counters, first, found, threads, reports, nthreads, view,
                    scans, orderly, lives>>
    BY <1>10 DEF CallAdd, logging
  <2> HIDE DEF IInv
  <2> QED
    BY <2>1, <2>2, <2>3, <2>4, <2>5 DEF IInv, TypeOK
<1>11. ASSUME NEW t \in Threads, StoreAdd(t) PROVE TypeOK'
  <2>1. target[t] \in Threads
    BY <1>11 DEF StoreAdd, TargetInv, TargetOk
  <2>2. /\ DOMAIN threads' \subseteq Threads
        /\ \A u \in DOMAIN threads' : threads'[u] \in Sample1
    <3>1. CASE found[t]
      <4>1. target[t] \in DOMAIN threads
        BY <1>11, <3>1 DEF StoreAdd, TargetInv, TargetOk
      <4>2. threads[target[t]].flags \in SUBSET Flags /\ threads[target[t]].n \in Nat
        BY <4>1 DEF TypeOK, Sample1
      <4>3. [flags |-> threads[target[t]].flags \cup TypeGiven(t),
             n |-> threads[target[t]].n + 1] \in Sample1
        BY <4>2 DEF Sample1, TypeGiven, Flags
      <4> HIDE DEF Sample1
      <4> QED
        BY <1>11, <3>1, <4>1, <4>3 DEF StoreAdd, TypeOK
    <3>2. CASE ~found[t]
      <4>1. target[t] \notin DOMAIN threads
        BY <1>11, <3>2 DEF StoreAdd, TargetInv, TargetOk
      <4>2. [flags |-> {"Other"}, n |-> 1] \in Sample1
        BY DEF Sample1, Flags
      <4>3. threads' = Inserted(threads, target[t], [flags |-> {"Other"}, n |-> 1])
        BY <1>11, <3>2 DEF StoreAdd
      <4> HIDE DEF Sample1
      <4> DEFINE w == [flags |-> {"Other"}, n |-> 1]
      <4>4. threads' = Inserted(threads, target[t], w) /\ w \in Sample1
        BY <4>2, <4>3
      <4> HIDE DEF w
      <4>5. /\ DOMAIN threads' = DOMAIN threads \cup {target[t]} /\ threads'[target[t]] = w
            /\ \A u \in DOMAIN threads : threads'[u] = threads[u]
        BY <4>1, <4>4 DEF Inserted
      <4>6. DOMAIN threads \subseteq Threads /\ \A u \in DOMAIN threads : threads[u] \in Sample1
        BY DEF TypeOK
      <4> QED
        BY <2>1, <4>4, <4>5, <4>6
    <3> QED
      BY <3>1, <3>2
  <2>3. reports' \in [Threads -> Nat]
    BY <1>11, <2>1 DEF StoreAdd, TypeOK
  <2>4. /\ pc' = [pc EXCEPT ![t] = IF t = Worker THEN "scan" ELSE "run"]
        /\ target' = [target EXCEPT ![t] = IF t = Worker THEN @ ELSE Nobody]
        /\ owner' = [owner EXCEPT !["threads"] = Nobody]
        /\ found' = [found EXCEPT ![t] = FALSE]
    BY <1>11 DEF StoreAdd
  <2>5. orderly' \in BOOLEAN
    BY <1>11 DEF StoreAdd
  <2>6. UNCHANGED <<stack, mine, counters, first, calls, nthreads, view, scans, lives>>
    BY <1>11 DEF StoreAdd, counting, logging
  <2>7. owner' \in [Mutexes -> Threads \cup {Nobody}]
    BY <2>4 DEF TypeOK
  <2>8. target' \in [Threads -> Threads \cup {Nobody}] /\ found' \in [Threads -> BOOLEAN]
    BY <2>4 DEF TypeOK
  <2> HIDE DEF IInv
  <2> QED
    BY <2>2, <2>3, <2>4, <2>5, <2>6, <2>7, <2>8 DEF IInv, TypeOK
<1>12. CASE StartScan \/ WalkBegin
  <2>1. CASE StartScan
    <3> HIDE DEF IInv
    <3> QED BY <2>1, <1>a DEF IInv, StartScan, TypeOK, counting
  <2>2. CASE WalkBegin
    <3>1. view' \subseteq Threads
      BY <2>2 DEF WalkBegin, TypeOK
    <3>2. pc' = [pc EXCEPT ![Worker] = "walk"]
      BY <2>2 DEF WalkBegin
    <3>3. UNCHANGED <<stack, owner, mine, counting, target, found, threads, reports,
                      nthreads, scans, orderly, lives>>
      BY <2>2 DEF WalkBegin
    <3>4. TypeOK
      OBVIOUS
    <3> HIDE DEF IInv
    <3> QED
      BY <1>a, <3>1, <3>2, <3>3, <3>4 DEF TypeOK, counting
  <2> QED
    BY <1>12, <2>1, <2>2
<1>13. CASE NextThread
  <2>1. stack' \in [Threads -> Seq(Frame)]
    BY <1>13, <1>a, AfterEnter DEF NextThread, Mutexes, Ops
  <2>2. Later \subseteq Threads
    BY DEF Later, Alive
  <2>3. target' \in [Threads -> Threads \cup {Nobody}]
    BY <1>13, <1>a, <2>2 DEF NextThread, TypeOK
  <2>4. calls' \in [Threads -> [Ops -> Nat]]
    BY <1>13, <1>a DEF NextThread, Enter, TypeOK, Ops
  <2>5. pc' = [pc EXCEPT ![Worker] = "call"]
    BY <1>13 DEF NextThread, Enter
  <2>6. UNCHANGED <<owner, mine, counters, first, found, threads, reports, nthreads, view,
                    scans, orderly, lives>>
    BY <1>13 DEF NextThread, logging
  <2> QED
    BY <1>a, <2>1, <2>3, <2>4, <2>5, <2>6 DEF TypeOK
<1>14. CASE WalkEnd
  <2>1. Cardinality(DOMAIN threads) \in Nat
    BY <1>a, FS_Subset, FS_CardinalityType DEF TypeOK
  <2>2. /\ nthreads' = Cardinality(DOMAIN threads)
        /\ pc' = [pc EXCEPT ![Worker] = "rest"] /\ view' = {}
    BY <1>14 DEF WalkEnd
  <2> QED
    BY <1>14, <1>a, <2>1, <2>2 DEF WalkEnd, TypeOK, counting
<1> QED
  BY <1>1, <1>2, <1>3, <1>4, <1>5, <1>6, <1>7, <1>8, <1>9, <1>10, <1>11, <1>12, <1>13, <1>14
     DEF Next

-----------------------------------------------------------------------------
(* One action after the other: the rest of the invariant.                  *)

\* What the outer call of a thread is after each kind of step.
LEMMA OuterAfter ==
  ASSUME IInv, NEW t \in Threads, stack[t] # <<>>
  PROVE  /\ Len(stack[t]) \in {1, 2}
         /\ Len(stack[t]) = 1 => Outer(t) = stack[t][1]
         /\ Len(stack[t]) = 2 => Outer(t) = stack[t][2]
<1>1. TypeOK /\ Len(stack[t]) <= 2
  BY DEF IInv, StackInv, StackOk
<1>2. Len(stack[t]) \in Nat \ {0}
  BY <1>1, StackTop
<1>3. Len(stack[t]) \in {1, 2}
  <2>1. \A n \in Nat \ {0} : n <= 2 => n \in {1, 2}
    OBVIOUS
  <2> QED
    BY <1>1, <1>2, <2>1
<1>4. /\ Len(stack[t]) = 1 => Outer(t) = stack[t][1]
      /\ Len(stack[t]) = 2 => Outer(t) = stack[t][2]
  BY DEF Outer
<1> QED
  BY <1>3, <1>4

\* What a step leaves alone stays in order.
LEMMA StackElsewhere ==
  ASSUME StackInv, NEW t \in Threads, StackOk(t)',
         \A u \in Threads \ {t} : /\ stack'[u] = stack[u] /\ mine'[u] = mine[u]
                                  /\ pc'[u] = "call" <=> pc[u] = "call"
  PROVE  StackInv'
<1> SUFFICES ASSUME NEW u \in Threads, u # t PROVE StackOk(u)'
  BY DEF StackInv
<1>1. Outer(u)' = Outer(u)
  BY DEF Outer
<1>2. StackOk(u)
  BY DEF StackInv
<1> QED
  BY <1>1, <1>2 DEF StackOk

LEMMA OwnerElsewhere ==
  ASSUME OwnerInv, NEW t \in Threads, OwnerOk(t)',
         \A u \in Threads \ {t} : /\ stack'[u] = stack[u] /\ mine'[u] = mine[u]
                                  /\ pc'[u] = pc[u]
                                  /\ \A m \in Mutexes : owner'[m] = u <=> owner[m] = u
  PROVE  OwnerInv'
<1> SUFFICES ASSUME NEW u \in Threads, u # t PROVE OwnerOk(u)'
  BY DEF OwnerInv
<1>1. OwnerOk(u)
  BY DEF OwnerInv
<1>2. \A m \in {"app", "map", "threads"} : owner'[m] = u <=> owner[m] = u
  BY DEF Mutexes
<1> QED
  BY <1>1, <1>2 DEF OwnerOk

LEMMA TargetElsewhere ==
  ASSUME TargetInv, NEW t \in Threads, TargetOk(t)',
         \A u \in Threads \ {t} : /\ stack'[u] = stack[u] /\ pc'[u] = pc[u]
                                  /\ target'[u] = target[u] /\ found'[u] = found[u],
         \A u \in Threads \ {t} : pc[u] = "store" =>
            (target[u] \in DOMAIN threads' <=> target[u] \in DOMAIN threads)
  PROVE  TargetInv'
<1> SUFFICES ASSUME NEW u \in Threads, u # t PROVE TargetOk(u)'
  BY DEF TargetInv
<1>1. Outer(u)' = Outer(u)
  BY DEF Outer
<1>2. TargetOk(u)
  BY DEF TargetInv
<1> QED
  BY <1>1, <1>2 DEF TargetOk

\* A step that changes nothing the invariant speaks of.
LEMMA RestUnchanged ==
  ASSUME IInv, UNCHANGED <<pc, stack, owner, mine, counters, target, found, threads>>
  PROVE  StackInv' /\ OwnerInv' /\ MineInv' /\ TargetInv'
BY DEF IInv, StackInv, StackOk, OwnerInv, OwnerOk, MineInv, TargetInv, TargetOk, Outer

LEMMA RestProceed ==
  ASSUME IInv, NEW t \in Threads, Entered(t), Proceed(t),
         Len(stack[t]) = 2 \/ mine[t],
         UNCHANGED <<pc, owner, mine, target, found, threads>>,
         DOMAIN counters' = DOMAIN counters
  PROVE  StackInv' /\ OwnerInv' /\ MineInv' /\ TargetInv'
<1>1. stack[t] # <<>> /\ TypeOK
  BY DEF IInv, Entered, InCall
<1>2. /\ stack'[t] # <<>> /\ Len(stack'[t]) = Len(stack[t])
      /\ stack'[t][1] = Taking(stack[t][1])
      /\ \A i \in 2..Len(stack[t]) : stack'[t][i] = stack[t][i]
      /\ \A u \in Threads \ {t} : stack'[u] = stack[u]
  BY <1>1, AfterProceed
<1>3. /\ stack'[t][1].m = stack[t][1].m /\ stack'[t][1].op = stack[t][1].op
      /\ stack'[t][1].at = "take"
  BY <1>2 DEF Taking
<1>4. Len(stack[t]) \in {1, 2} /\ Len(stack'[t]) \in {1, 2}
  BY <1>1, <1>2, OuterAfter
<1>5. /\ Outer(t)'.m = Outer(t).m /\ Outer(t)'.op = Outer(t).op
      /\ Len(stack[t]) = 2 => Outer(t)' = Outer(t)
  <2>1. CASE Len(stack[t]) = 1
    <3>1. Outer(t) = stack[t][1] /\ Outer(t)' = stack'[t][1]
      BY <1>2, <2>1 DEF Outer
    <3> QED
      BY <1>3, <2>1, <3>1
  <2>2. CASE Len(stack[t]) = 2
    <3>1. Outer(t) = stack[t][2] /\ Outer(t)' = stack'[t][2]
      BY <1>2, <2>2 DEF Outer
    <3>2. stack'[t][2] = stack[t][2]
      BY <1>2, <2>2
    <3> QED
      BY <3>1, <3>2
  <2> QED
    BY <1>4, <2>1, <2>2
<1>6. \A u \in Threads \ {t} : Outer(u)' = Outer(u)
  BY <1>2 DEF Outer
<1>7. StackInv'
  <2>1. /\ pc[t] = "call" /\ Len(stack[t]) <= 2
        /\ Outer(t).m # "app" => Outer(t).op = "locks"
        /\ Len(stack[t]) = 2 => /\ ~mine[t] /\ Outer(t).at = "enter"
                                /\ stack[t][1].m = "map" /\ stack[t][1].op = "locks"
    BY <1>1 DEF IInv, StackInv, StackOk
  <2>2. /\ stack'[t] # <<>> /\ pc'[t] = "call" /\ Len(stack'[t]) <= 2
        /\ Outer(t)'.m # "app" => Outer(t)'.op = "locks"
        /\ Len(stack'[t]) = 2 => /\ ~mine'[t] /\ Outer(t)'.at = "enter"
                                 /\ stack'[t][1].m = "map" /\ stack'[t][1].op = "locks"
    BY <1>2, <1>3, <1>5, <2>1
  <2>9. StackOk(t)'
    BY <1>2, <2>2 DEF StackOk
  <2> QED
    BY <1>2, <2>2, <2>9, StackElsewhere DEF IInv
<1>8. OwnerInv'
  <2>1. owner["map"] # t
    BY <1>1, <1>4 DEF IInv, OwnerInv, OwnerOk, StackInv, StackOk, Entered, InLookup, InCall
  <2> QED
    BY <1>2, <2>1 DEF IInv, OwnerInv, OwnerOk
<1>9. MineInv' /\ TargetInv'
  BY <1>1, <1>2, <1>5, <1>6 DEF IInv, MineInv, TargetInv, TargetOk
<1> QED
  BY <1>7, <1>8, <1>9

LEMMA RestEnterFirst ==
  ASSUME IInv, NEW t \in Threads, EnterFirst(t)
  PROVE  StackInv' /\ OwnerInv' /\ MineInv' /\ TargetInv'
<1> DEFINE f == [m |-> "map", op |-> "locks", at |-> "enter"]
<1>1. stack[t] # <<>> /\ Len(stack[t]) = 1 /\ ~mine[t] /\ stack[t][1].at = "enter"
  BY StackTop DEF IInv, EnterFirst, Entered, InCall, Counts
<1>2. /\ stack'[t] # <<>> /\ Len(stack'[t]) = 2 /\ stack'[t][1] = f
      /\ stack'[t][2] = stack[t][1]
      /\ \A u \in Threads \ {t} : stack'[u] = stack[u]
  <2>1. f \in Frame
    BY DEF Frame, Mutexes, Ops
  <2>2. /\ stack'[t] # <<>> /\ Len(stack'[t]) = Len(stack[t]) + 1
        /\ stack'[t][1] = f
        /\ \A i \in 1..Len(stack[t]) : stack'[t][i + 1] = stack[t][i]
        /\ \A u \in Threads \ {t} : stack'[u] = stack[u]
    BY <2>1, AfterPush DEF EnterFirst, IInv
  <2>3. stack'[t][1 + 1] = stack[t][1]
    BY <1>1, <2>2
  <2> QED
    BY <1>1, <2>2, <2>3
<1>3. UNCHANGED <<pc, owner, mine, counters, target, found, threads>>
  BY DEF EnterFirst, counting
<1>4. Outer(t)' = Outer(t) /\ Outer(t) = stack[t][1]
  BY <1>1, <1>2 DEF Outer
<1>5. \A u \in Threads \ {t} : Outer(u)' = Outer(u)
  BY <1>2 DEF Outer
<1>6. StackInv'
  <2>1. pc[t] = "call" /\ (Outer(t).m # "app" => Outer(t).op = "locks")
    BY <1>1 DEF IInv, StackInv, StackOk
  <2>2. /\ stack'[t] # <<>> /\ pc'[t] = "call" /\ Len(stack'[t]) <= 2
        /\ Outer(t)'.m # "app" => Outer(t)'.op = "locks"
        /\ ~mine'[t] /\ Outer(t)'.at = "enter"
        /\ stack'[t][1].m = "map" /\ stack'[t][1].op = "locks"
    BY <1>1, <1>2, <1>3, <1>4, <2>1
  <2>9. StackOk(t)'
    BY <1>2, <1>3, <2>2 DEF StackOk
  <2> QED
    BY <1>2, <1>3, <2>2, <2>9, StackElsewhere DEF IInv
<1>7. OwnerInv'
  <2>1. owner["map"] # t
    BY <1>1 DEF IInv, OwnerInv, OwnerOk, StackInv, StackOk, EnterFirst, Entered, InLookup, InCall
  <2> QED
    BY <1>2, <1>3, <2>1 DEF IInv, OwnerInv, OwnerOk
<1>8. MineInv' /\ TargetInv'
  BY <1>1, <1>2, <1>3, <1>4, <1>5 DEF IInv, MineInv, TargetInv, TargetOk
<1> QED
  BY <1>6, <1>7, <1>8

LEMMA RestTake ==
  ASSUME IInv, NEW t \in Threads, Take(t)
  PROVE  StackInv' /\ OwnerInv' /\ MineInv' /\ TargetInv'
<1>1. /\ stack[t] # <<>> /\ Top(t) = stack[t][1] /\ stack[t][1].at = "take"
      /\ owner[Top(t).m] = Nobody /\ pc[t] = "call" /\ stack[t][1].m \in Mutexes
  BY StackTop DEF IInv, Take, InCall, StackInv, StackOk, Frame
<1>2. /\ Len(stack'[t]) = Len(stack[t]) - 1
      /\ \A i \in 1..(Len(stack[t]) - 1) : stack'[t][i] = stack[t][i + 1]
      /\ Len(stack[t]) = 1 => stack'[t] = <<>>
      /\ Len(stack[t]) > 1 => stack'[t] # <<>>
      /\ \A u \in Threads \ {t} : stack'[u] = stack[u]
  BY <1>1, AfterPop DEF Take, IInv
<1>3. Len(stack[t]) \in {1, 2} /\ stack \in [Threads -> Seq(Frame)]
      /\ DOMAIN pc = Threads /\ owner \in [Mutexes -> Threads \cup {Nobody}]
  <2>1. Len(stack[t]) \in {1, 2}
    BY <1>1, OuterAfter
  <2> QED
    BY <2>1 DEF IInv, TypeOK
<1>4. UNCHANGED <<mine, counters, target, found, threads>>
  BY DEF Take, counting
<1>5. \A u \in Threads \ {t} : Outer(u)' = Outer(u) /\ pc'[u] = pc[u] /\ owner[stack[t][1].m] # u
  <2>1. \A u \in Threads : u # Nobody
    BY ThreadRegistryAssumption
  <2> QED
    BY <1>1, <1>2, <1>3, <2>1 DEF Outer, Take
<1>6. owner'[stack[t][1].m] = t /\ \A m \in Mutexes \ {stack[t][1].m} : owner'[m] = owner[m]
  BY <1>1, <1>3 DEF Take
<1>7. CASE Len(stack[t]) = 2
  <2>1. /\ stack[t][1].m = "map" /\ Outer(t).at = "enter" /\ ~mine[t]
        /\ pc' = pc /\ Outer(t) = stack[t][2]
    <3>1. stack[t][1].m = "map" /\ Outer(t).at = "enter" /\ ~mine[t]
      BY <1>7 DEF IInv, StackInv, StackOk
    <3>2. pc' = [pc EXCEPT ![t] = pc[t]]
      BY <1>7 DEF Take
    <3>3. pc' = pc
      BY <3>2 DEF IInv, TypeOK
    <3> QED
      BY <1>1, <1>7, <3>1, <3>3, OuterAfter
  <2>2. stack'[t] # <<>> /\ Len(stack'[t]) = 1 /\ stack'[t][1] = stack[t][2]
    <3>1. stack'[t][1] = stack[t][1 + 1]
      BY <1>2, <1>7
    <3> QED
      BY <1>2, <1>7, <3>1
  <2>3. Outer(t)' = Outer(t)
    BY <2>1, <2>2 DEF Outer
  <2>4. StackInv'
    <3>1. Outer(t).m # "app" => Outer(t).op = "locks"
      BY <1>1 DEF IInv, StackInv, StackOk
    <3>2. /\ stack'[t] # <<>> /\ pc'[t] = "call" /\ Len(stack'[t]) = 1
          /\ Outer(t)'.m # "app" => Outer(t)'.op = "locks"
      BY <1>1, <2>1, <2>2, <2>3, <3>1
    <3>9. StackOk(t)'
      BY <3>2 DEF StackOk
    <3> QED
      BY <1>2, <1>4, <1>5, <3>2, <3>9, StackElsewhere DEF IInv
  <2>5. OwnerInv'
    <3>1. owner'["app"] = owner["app"] /\ owner'["threads"] = owner["threads"]
          /\ owner'["map"] = t /\ owner["map"] \notin Threads \ {t}
      BY <1>5, <1>6, <2>1 DEF Mutexes
    <3> QED
      BY <1>1, <1>2, <1>4, <1>5, <2>1, <2>2, <3>1 DEF IInv, OwnerInv, OwnerOk
  <2>6. MineInv' /\ TargetInv'
    BY <1>1, <1>2, <1>4, <1>5, <2>1, <2>2, <2>3 DEF IInv, MineInv, TargetInv, TargetOk
  <2> QED
    BY <2>4, <2>5, <2>6
<1>8. CASE Len(stack[t]) = 1
  <2>1. /\ stack'[t] = <<>> /\ Len(stack'[t]) = 0 /\ Outer(t) = stack[t][1]
        /\ pc'[t] = Granted[stack[t][1].m]
    BY <1>1, <1>2, <1>3, <1>8 DEF Outer, Take
  <2>2. /\ stack[t][1].m = "app" => pc'[t] = "held"
        /\ stack[t][1].m = "map" => pc'[t] = "lookup"
        /\ stack[t][1].m = "threads" => pc'[t] = "test"
    BY <2>1 DEF Granted
  <2>3. StackInv'
    <3>1. pc'[t] # "call"
      BY <1>1, <2>2 DEF Mutexes
    <3>9. StackOk(t)'
      BY <1>2, <1>4, <1>5, <2>1, <3>1 DEF StackOk
    <3> QED
      BY <1>2, <1>4, <1>5, <2>1, <3>1, <3>9, StackElsewhere DEF IInv
  <2>4. owner["map"] # t
    BY <1>1, <1>8 DEF IInv, OwnerInv, OwnerOk
  <2>5. OwnerInv'
    <3>1. ASSUME NEW u \in Threads, u # t
          PROVE  /\ owner'["app"] = u <=> owner["app"] = u
                 /\ owner'["map"] = u <=> owner["map"] = u
                 /\ owner'["threads"] = u <=> owner["threads"] = u
      BY <1>1, <1>5, <1>6, <3>1 DEF Mutexes
    <3>2. ASSUME NEW u \in Threads, u # t
          PROVE  /\ owner'["app"] = u <=> pc'[u] = "held"
                 /\ owner'["threads"] = u <=> pc'[u] \in {"test", "store"}
                 /\ pc'[u] = "lookup" => owner'["map"] = u
                 /\ owner'["map"] = u => \/ pc'[u] = "lookup"
                                         \/ /\ pc'[u] = "call" /\ ~mine'[u]
                                            /\ Len(stack'[u]) = 1 /\ stack'[u][1].at = "enter"
      BY <1>2, <1>4, <1>5, <3>1, <3>2 DEF IInv, OwnerInv, OwnerOk
    <3>3. /\ owner'["app"] = t <=> pc'[t] = "held"
          /\ owner'["threads"] = t <=> pc'[t] \in {"test", "store"}
          /\ pc'[t] = "lookup" => owner'["map"] = t
          /\ owner'["map"] = t => pc'[t] = "lookup"
      BY <1>1, <1>6, <2>2, <2>4 DEF IInv, OwnerInv, OwnerOk, Mutexes
    <3> QED
      BY <3>2, <3>3 DEF OwnerInv, OwnerOk
  <2>6. MineInv' /\ TargetInv'
    BY <1>1, <1>2, <1>4, <1>5, <2>1, <2>2 DEF IInv, MineInv, TargetInv, TargetOk, Mutexes
  <2> QED
    BY <2>3, <2>5, <2>6
<1> QED
  BY <1>3, <1>7, <1>8

LEMMA RestTryFails ==
  ASSUME IInv, NEW t \in Threads, TryFails(t)
  PROVE  StackInv' /\ OwnerInv' /\ MineInv' /\ TargetInv'
<1>1. /\ stack[t] # <<>> /\ Top(t) = stack[t][1] /\ stack[t][1].op = "trylocks"
      /\ stack[t][1].at = "take" /\ pc[t] = "call"
  BY StackTop DEF IInv, TryFails, InCall, StackInv, StackOk
<1>2. Len(stack[t]) = 1
  BY <1>1, OuterAfter DEF IInv, StackInv, StackOk
<1>3. stack'[t] = <<>> /\ \A u \in Threads \ {t} : stack'[u] = stack[u]
  BY <1>1, <1>2, AfterPop DEF TryFails, IInv
<1>4. UNCHANGED <<owner, mine, counters, target, found, threads>>
  BY DEF TryFails, counting
<1>5. pc'[t] = "run" /\ \A u \in Threads \ {t} : pc'[u] = pc[u]
  BY DEF TryFails, IInv, TypeOK
<1>6. StackInv'
  <2>1. Len(stack'[t]) = 0
    BY <1>3
  <2>2. StackOk(t)'
    BY <1>3, <1>5, <2>1 DEF StackOk
  <2> QED
    BY <1>3, <1>4, <1>5, <2>2, StackElsewhere DEF IInv
<1>7. OwnerInv'
  <2>1. OwnerOk(t)
    BY DEF IInv, OwnerInv
  <2>2. OwnerOk(t)'
    BY <1>1, <1>4, <1>5, <2>1 DEF OwnerOk
  <2> QED
    BY <1>3, <1>4, <1>5, <2>2, OwnerElsewhere DEF IInv
<1>8. TargetInv'
  <2>1. TargetOk(t)'
    BY <1>3, <1>5 DEF TargetOk
  <2> QED
    BY <1>3, <1>4, <1>5, <2>1, TargetElsewhere DEF IInv
<1>9. MineInv'
  BY <1>4 DEF IInv, MineInv
<1> QED
  BY <1>6, <1>7, <1>8, <1>9

\* The wrapper is entered from outside.
LEMMA RestEnter ==
  ASSUME IInv, NEW t \in Threads, NEW m \in Mutexes, NEW op \in Ops, Enter(t, m, op),
         pc[t] \in {"run", "begin", "report", "scan"},
         m # "app" => op = "locks" /\ target'[t] \in Threads,
         \A u \in Threads \ {t} : target'[u] = target[u],
         UNCHANGED <<owner, mine, counters, found, threads>>
  PROVE  StackInv' /\ OwnerInv' /\ MineInv' /\ TargetInv'
<1> DEFINE f == [m |-> m, op |-> op, at |-> "enter"]
<1>1. /\ stack'[t] # <<>> /\ Len(stack'[t]) = 1 /\ stack'[t][1] = f
      /\ \A u \in Threads \ {t} : stack'[u] = stack[u]
  BY AfterEnter DEF IInv
<1>2. f.m = m /\ f.op = op /\ Outer(t)' = f
  BY <1>1 DEF Outer
<1> HIDE DEF f
<1>3. pc'[t] = "call" /\ \A u \in Threads \ {t} : pc'[u] = pc[u]
  BY DEF Enter, IInv, TypeOK
<1>4. StackInv'
  <2>1. StackOk(t)'
    BY <1>1, <1>2, <1>3 DEF StackOk
  <2> QED
    BY <1>1, <1>3, <2>1, StackElsewhere DEF IInv
<1>5. OwnerInv'
  <2>1. OwnerOk(t)
    BY DEF IInv, OwnerInv
  <2>2. OwnerOk(t)'
    BY <1>3, <2>1 DEF OwnerOk
  <2> QED
    BY <1>1, <1>3, <2>2, OwnerElsewhere DEF IInv
<1>6. TargetInv'
  <2>1. TargetOk(t)'
    BY <1>2, <1>3 DEF TargetOk
  <2> QED
    BY <1>1, <1>3, <2>1, TargetElsewhere DEF IInv
<1>7. MineInv'
  BY DEF IInv, MineInv
<1> QED
  BY <1>4, <1>5, <1>6, <1>7

\* A step outside of the wrappers.
LEMMA RestOutside ==
  ASSUME IInv, NEW t \in Threads, pc[t] # "call", pc'[t] # "call",
         UNCHANGED <<stack, counters>>,
         mine'[t] => mine[t],
         \A u \in Threads \ {t} :
            /\ pc'[u] = pc[u] /\ mine'[u] = mine[u]
            /\ target'[u] = target[u] /\ found'[u] = found[u]
            /\ \A m \in Mutexes : owner'[m] = u <=> owner[m] = u
            /\ pc[u] = "store" => (target[u] \in DOMAIN threads' <=> target[u] \in DOMAIN threads),
         OwnerOk(t)',
         /\ pc'[t] \in {"lookup", "report", "test", "store"} => target'[t] \in Threads
         /\ pc'[t] = "store" => (found'[t] <=> target'[t] \in DOMAIN threads')
  PROVE  StackInv' /\ OwnerInv' /\ MineInv' /\ TargetInv'
<1>1. stack[t] = <<>> /\ Len(stack[t]) = 0
  BY DEF IInv, StackInv, StackOk
<1>2. StackInv'
  <2>1. StackOk(t)'
    BY <1>1 DEF StackOk
  <2> QED
    BY <2>1, StackElsewhere DEF IInv
<1>3. OwnerInv'
  BY OwnerElsewhere DEF IInv
<1>4. TargetInv'
  <2>1. TargetOk(t)'
    BY <1>1 DEF TargetOk
  <2> QED
    BY <2>1, TargetElsewhere DEF IInv
<1>5. MineInv'
  BY DEF IInv, MineInv
<1> QED
  BY <1>2, <1>3, <1>4, <1>5

LEMMA RestLookup ==
  ASSUME IInv, NEW t \in Threads, Lookup(t)
  PROVE  StackInv' /\ OwnerInv' /\ MineInv' /\ TargetInv'
<1>1. /\ DOMAIN counters \subseteq DOMAIN counters' /\ LookupId(t) \in DOMAIN counters'
  <2>1. CASE LookupId(t) \in DOMAIN counters
    BY <2>1 DEF Lookup
  <2>2. CASE LookupId(t) \notin DOMAIN counters
    BY <2>2 DEF Lookup, NewCounters, Inserted
  <2> QED
    BY <2>1, <2>2
<1>2. owner["map"] = t /\ owner \in [Mutexes -> Threads \cup {Nobody}]
      /\ pc[t] \in {"call", "lookup"}
  BY DEF IInv, OwnerInv, OwnerOk, StackInv, StackOk, Lookup, InLookup, InCall, TypeOK
<1>3. /\ owner'["map"] = Nobody /\ owner'["app"] = owner["app"]
      /\ owner'["threads"] = owner["threads"]
  BY <1>2 DEF Lookup, Mutexes
<1>4. UNCHANGED <<stack, target, found, threads>>
  BY DEF Lookup
<1>5. \A u \in Threads : u # Nobody
  BY ThreadRegistryAssumption
<1>6. \A u \in Threads \ {t} : \A m \in Mutexes : owner'[m] = u <=> owner[m] = u
  BY <1>2, <1>3, <1>5 DEF Mutexes
<1>7. OwnerOk(t)
  BY DEF IInv, OwnerInv
<1>8. mine \in [Threads -> BOOLEAN] /\ DOMAIN pc = Threads
  BY DEF IInv, TypeOK
<1>9. CASE stack[t] # <<>>
  <2>1. /\ pc' = pc /\ pc[t] = "call" /\ mine'[t] /\ LookupId(t) = t
        /\ \A u \in Threads \ {t} : mine'[u] = mine[u]
    BY <1>8, <1>9 DEF Lookup, LookupId, InCall, IInv, StackInv, StackOk
  <2>2. StackInv'
    <3>1. Len(stack[t]) = 1 /\ StackOk(t)
      BY <1>2, <1>7, <2>1 DEF OwnerOk, IInv, StackInv
    <3>2. Outer(t)' = Outer(t)
      BY <1>4 DEF Outer
    <3>3. StackOk(t)'
      BY <1>4, <2>1, <3>1, <3>2 DEF StackOk
    <3> QED
      BY <1>4, <2>1, <3>3, StackElsewhere DEF IInv
  <2>3. OwnerInv'
    <3>1. OwnerOk(t)'
      BY <1>3, <1>5, <1>7, <2>1 DEF OwnerOk
    <3> QED
      BY <1>4, <1>6, <2>1, <3>1, OwnerElsewhere DEF IInv
  <2>4. MineInv'
    BY <1>1, <2>1 DEF IInv, MineInv
  <2>5. TargetInv'
    BY <1>4, <2>1 DEF IInv, TargetInv, TargetOk, Outer
  <2> QED
    BY <2>2, <2>3, <2>4, <2>5
<1>10. CASE stack[t] = <<>>
  <2>1. /\ pc[t] = "lookup" /\ pc'[t] = "report" /\ mine' = mine
        /\ \A u \in Threads \ {t} : pc'[u] = pc[u]
    BY <1>8, <1>10 DEF Lookup, InLookup, InCall
  <2>2. StackInv'
    <3>1. Len(stack[t]) = 0
      BY <1>10
    <3>2. StackOk(t)'
      BY <1>4, <1>10, <2>1, <3>1 DEF StackOk
    <3> QED
      BY <1>4, <2>1, <3>2, StackElsewhere DEF IInv
  <2>3. OwnerInv'
    <3>1. OwnerOk(t)'
      BY <1>3, <1>5, <1>7, <2>1 DEF OwnerOk
    <3> QED
      BY <1>4, <1>6, <2>1, <3>1, OwnerElsewhere DEF IInv
  <2>4. MineInv'
    BY <1>1, <2>1 DEF IInv, MineInv
  <2>5. TargetInv'
    <3>1. TargetOk(t)'
      BY <1>4, <1>10, <2>1 DEF IInv, TargetInv, TargetOk
    <3> QED
      BY <1>4, <2>1, <3>1, TargetElsewhere DEF IInv
  <2> QED
    BY <2>2, <2>3, <2>4, <2>5
<1> QED
  BY <1>9, <1>10

LEMMA RestStoreAdd ==
  ASSUME IInv, NEW t \in Threads, StoreAdd(t)
  PROVE  StackInv' /\ OwnerInv' /\ MineInv' /\ TargetInv'
<1>1. /\ pc[t] = "store" /\ pc'[t] \in {"scan", "run"} /\ owner["threads"] = t
      /\ \A u \in Threads \ {t} :
           pc'[u] = pc[u] /\ target'[u] = target[u] /\ found'[u] = found[u]
      /\ UNCHANGED <<stack, mine, counters>>
  BY DEF StoreAdd, counting, IInv, TypeOK, OwnerInv, OwnerOk
<1>2. /\ owner'["map"] = owner["map"] /\ owner'["app"] = owner["app"]
      /\ owner'["threads"] = Nobody
  BY DEF StoreAdd, IInv, TypeOK, Mutexes
<1>3. \A u \in Threads : u # Nobody
  BY ThreadRegistryAssumption
<1>4. \A u \in Threads \ {t} : \A m \in Mutexes : owner'[m] = u <=> owner[m] = u
  BY <1>1, <1>2, <1>3 DEF Mutexes
<1>5. \A u \in Threads \ {t} : pc[u] # "store"
  BY <1>1 DEF IInv, OwnerInv, OwnerOk
<1>6. OwnerOk(t)'
  <2>1. OwnerOk(t)
    BY DEF IInv, OwnerInv
  <2> QED
    BY <1>1, <1>2, <1>3, <2>1 DEF OwnerOk
<1> QED
  BY <1>1, <1>4, <1>5, <1>6, RestOutside

LEMMA RestStep ==
  ASSUME IInv, [Next]_vars
  PROVE  StackInv' /\ OwnerInv' /\ MineInv' /\ TargetInv'
<1> DEFINE Rest == StackInv' /\ OwnerInv' /\ MineInv' /\ TargetInv'
<1>a. Worker \in Threads /\ \A u \in Threads : u # Nobody
  BY ThreadRegistryAssumption DEF Threads
<1>b. \A u \in Threads : OwnerOk(u)
  BY DEF IInv, OwnerInv
<1>c. DOMAIN pc = Threads /\ DOMAIN target = Threads /\ DOMAIN mine = Threads
      /\ DOMAIN found = Threads /\ DOMAIN owner = Mutexes
  BY DEF IInv, TypeOK
<1> HIDE DEF Rest
<1>1. CASE UNCHANGED vars \/ Quiet
  BY <1>1, RestUnchanged DEF Quiet, vars, Rest
<1>2. ASSUME NEW t \in Threads, EnterNested(t) PROVE Rest
  <2>1. stack[t] # <<>> /\ Entered(t) /\ Proceed(t)
    BY <1>2 DEF EnterNested, Entered, InCall
  <2>2. Len(stack[t]) = 2
    BY <1>2, <2>1, OuterAfter DEF EnterNested, Counts
  <2>3. UNCHANGED <<pc, owner, mine, counters, target, found, threads>>
    BY <1>2 DEF EnterNested, counting
  <2> QED
    BY <2>1, <2>2, <2>3, RestProceed DEF Rest
<1>3. ASSUME NEW t \in Threads, EnterCounted(t) PROVE Rest
  <2>1. Entered(t) /\ Proceed(t) /\ mine[t]
        /\ UNCHANGED <<pc, owner, mine, target, found, threads>>
    BY <1>3 DEF EnterCounted
  <2>2. DOMAIN counters' = DOMAIN counters
    BY <1>3 DEF EnterCounted
  <2> QED
    BY <2>1, <2>2, RestProceed DEF Rest
<1>4. ASSUME NEW t \in Threads, EnterFirst(t) \/ Take(t) \/ TryFails(t) \/ Lookup(t) \/ StoreAdd(t)
      PROVE  Rest
  BY <1>4, RestEnterFirst, RestTake, RestTryFails, RestLookup, RestStoreAdd DEF Rest
<1>5. ASSUME NEW t \in Threads, AppCall(t) PROVE Rest
  <2>1. PICK op \in Ops : Enter(t, "app", op)
    BY <1>5 DEF AppCall
  <2>2. /\ pc[t] = "run" /\ UNCHANGED <<owner, mine, counters, target, found, threads>>
    BY <1>5 DEF AppCall
  <2>3. "app" \in Mutexes
    BY DEF Mutexes
  <2> QED
    BY <2>1, <2>2, <2>3, RestEnter DEF Rest
<1>6. ASSUME NEW t \in Threads, CallAdd(t) PROVE Rest
  <2>1. /\ Enter(t, "threads", "locks") /\ pc[t] \in {"begin", "report"}
        /\ UNCHANGED <<owner, mine, counters, found, threads>>
    BY <1>6 DEF CallAdd
  <2>2. target'[t] \in Threads /\ \A u \in Threads \ {t} : target'[u] = target[u]
    BY <1>6, <1>c DEF CallAdd, IInv, TargetInv, TargetOk
  <2>3. "threads" \in Mutexes /\ "locks" \in Ops
    BY DEF Mutexes, Ops
  <2> QED
    BY <2>1, <2>2, <2>3, RestEnter DEF Rest
<1>7. ASSUME NextThread PROVE Rest
  <2>1. /\ Enter(Worker, "map", "locks") /\ pc[Worker] = "scan"
        /\ UNCHANGED <<owner, mine, counters, found, threads>>
    BY <1>7 DEF NextThread
  <2>2. target'[Worker] \in Threads /\ \A u \in Threads \ {Worker} : target'[u] = target[u]
    BY <1>7, <1>a, <1>c DEF NextThread, Later, Alive
  <2>3. "map" \in Mutexes /\ "locks" \in Ops
    BY DEF Mutexes, Ops
  <2> QED
    BY <1>a, <2>1, <2>2, <2>3, RestEnter DEF Rest
<1>8. ASSUME NEW t \in Threads, AppUnlock(t) PROVE Rest
  <2>1. /\ pc[t] = "held" /\ pc'[t] = "run" /\ \A u \in Threads \ {t} : pc'[u] = pc[u]
        /\ UNCHANGED <<stack, mine, counters, target, found, threads>>
    BY <1>8, <1>c DEF AppUnlock, counting
  <2>2. /\ owner["app"] = t /\ owner'["app"] = Nobody /\ owner'["map"] = owner["map"]
        /\ owner'["threads"] = owner["threads"]
    BY <1>8, <1>b, <1>c DEF AppUnlock, OwnerOk, Mutexes
  <2>3. \A u \in Threads \ {t} : \A m \in Mutexes : owner'[m] = u <=> owner[m] = u
    BY <1>a, <2>2 DEF Mutexes
  <2>4. OwnerOk(t)'
    BY <1>a, <1>b, <2>1, <2>2 DEF OwnerOk
  <2> QED
    BY <2>1, <2>3, <2>4, RestOutside DEF Rest
<1>9. ASSUME NEW t \in Threads, Spawn(t) PROVE Rest
  <2>1. /\ pc[t] = "off" /\ pc'[t] \in {"run", "begin"} /\ ~mine'[t]
        /\ \A u \in Threads \ {t} : pc'[u] = pc[u] /\ mine'[u] = mine[u]
        /\ UNCHANGED <<stack, owner, counters, target, found, threads>>
    BY <1>9, <1>c DEF Spawn, counting
  <2>2. OwnerOk(t)'
    BY <1>b, <2>1 DEF OwnerOk
  <2> QED
    BY <2>1, <2>2, RestOutside DEF Rest
<1>10. ASSUME NEW t \in Threads, Exit(t) PROVE Rest
  <2>1. /\ pc[t] = "run" /\ pc'[t] = "off" /\ \A u \in Threads \ {t} : pc'[u] = pc[u]
        /\ UNCHANGED <<stack, owner, mine, counters, target, found, threads>>
    BY <1>10, <1>c DEF Exit, counting
  <2>2. OwnerOk(t)'
    BY <1>b, <2>1 DEF OwnerOk
  <2> QED
    BY <2>1, <2>2, RestOutside DEF Rest
<1>11. ASSUME NEW t \in Threads, TestAdd(t) PROVE Rest
  <2>1. /\ pc[t] = "test" /\ pc'[t] = "store" /\ \A u \in Threads \ {t} : pc'[u] = pc[u]
        /\ UNCHANGED <<stack, owner, mine, counters, target, threads>>
    BY <1>11, <1>c DEF TestAdd, counting
  <2>2. /\ found'[t] <=> target'[t] \in DOMAIN threads'
        /\ \A u \in Threads \ {t} : found'[u] = found[u]
    BY <1>11, <1>c DEF TestAdd
  <2>3. OwnerOk(t)'
    BY <1>b, <2>1 DEF OwnerOk
  <2>4. target'[t] \in Threads
    BY <2>1 DEF IInv, TargetInv, TargetOk
  <2> QED
    BY <2>1, <2>2, <2>3, <2>4, RestOutside DEF Rest
<1>12. ASSUME NEW t \in Threads, t = Worker, StartScan \/ WalkBegin \/ WalkEnd PROVE Rest
  <2>1. /\ pc[t] \in {"rest", "scan", "walk"} /\ pc'[t] \in {"rest", "scan", "walk"}
        /\ \A u \in Threads \ {t} : pc'[u] = pc[u] /\ target'[u] = target[u]
        /\ UNCHANGED <<stack, owner, mine, counters, found, threads>>
    <3>1. CASE StartScan
      BY <3>1, <1>12, <1>c DEF StartScan, counting
    <3>2. CASE WalkBegin
      BY <3>2, <1>12, <1>c DEF WalkBegin, counting
    <3>3. CASE WalkEnd
      <4>1. /\ pc[t] = "walk" /\ pc' = [pc EXCEPT ![t] = "rest"]
            /\ UNCHANGED <<stack, owner, mine, counters, target, found, threads>>
        BY <3>3, <1>12 DEF WalkEnd, counting
      <4> QED
        BY <4>1, <1>c
    <3> QED
      BY <1>12, <3>1, <3>2, <3>3
  <2>2. OwnerOk(t)'
    BY <1>b, <2>1 DEF OwnerOk
  <2>3. /\ pc[t] # "call" /\ pc'[t] # "call" /\ mine' = mine /\ found' = found
        /\ pc'[t] \notin {"lookup", "report", "test", "store"} /\ pc'[t] # "store"
        /\ owner' = owner /\ threads' = threads
        /\ UNCHANGED <<stack, counters>>
        /\ \A u \in Threads \ {t} : pc'[u] = pc[u] /\ target'[u] = target[u]
    BY <2>1
  <2> QED
    BY <2>2, <2>3, RestOutside DEF Rest
<1>13. CASE StartScan \/ WalkBegin \/ WalkEnd
  BY <1>12, <1>13, <1>a DEF Rest
<1>14. ASSUME NEW t \in Threads,
              \/ EnterNested(t) \/ EnterCounted(t) \/ EnterFirst(t)
              \/ Take(t) \/ TryFails(t) \/ Lookup(t)
              \/ AppCall(t) \/ AppUnlock(t) \/ Spawn(t) \/ Exit(t)
              \/ CallAdd(t) \/ TestAdd(t) \/ StoreAdd(t)
       PROVE  Rest
  BY <1>2, <1>3, <1>4, <1>5, <1>6, <1>8, <1>9, <1>10, <1>11, <1>14
<1> QED
  BY <1>1, <1>7, <1>13, <1>14 DEF Next, Rest

LEMMA RestInit == Init => StackInv /\ OwnerInv /\ MineInv /\ TargetInv
<1> SUFFICES ASSUME Init PROVE StackInv /\ OwnerInv /\ MineInv /\ TargetInv
  OBVIOUS
<1> USE DEF Init
<1>1. \A t \in Threads : /\ stack[t] = <<>> /\ pc[t] \in {"run", "rest", "off"} /\ ~mine[t]
                         /\ \A m \in Mutexes : owner[m] # t
  BY ThreadRegistryAssumption
<1>2. "app" \in Mutexes /\ "map" \in Mutexes /\ "threads" \in Mutexes
  BY DEF Mutexes
<1>3. Len(<<>>) = 0
  OBVIOUS
<1> HIDE DEF Init
<1>4. StackInv
  BY <1>1, <1>3 DEF StackInv, StackOk
<1>5. OwnerInv
  BY <1>1, <1>2 DEF OwnerInv, OwnerOk
<1>6. MineInv /\ TargetInv
  BY <1>1 DEF MineInv, TargetInv, TargetOk
<1> QED
  BY <1>4, <1>5, <1>6

LEMMA Invariant == Spec => []IInv
<1>1. Init => IInv
  BY TypeInit, RestInit DEF IInv
<1>2. IInv /\ [Next]_vars => IInv'
  BY TypeStep, RestStep DEF IInv
<1> QED
  BY <1>1, <1>2, PTL DEF Spec

-----------------------------------------------------------------------------
(* What follows from it.                                                   *)

\* The counters, the stacks of wrapper calls and the map of LWPs are always what they
\* are declared to be (zerosum_pthreads.cpp 60-103, software.h 260-288).
THEOREM TypeCorrect == Spec => []TypeOK
<1>1. IInv => TypeOK
  BY DEF IInv
<1> QED
  BY <1>1, Invariant, PTL

\* However many threads call, the counting enters the wrapper once more and no
\* further (zerosum_pthreads.cpp 184-190).
THEOREM DepthIsBounded == Spec => []NoReentry
<1>1. IInv => NoReentry
  BY DEF IInv, StackInv, StackOk, NoReentry
<1> QED
  BY <1>1, Invariant, PTL

\* No thread ever waits for a mutex it holds itself, be it the application's, the
\* map's or the registry's (zerosum_pthreads.cpp 90-98, software.h 272-288).
THEOREM NoThreadBlocksItself == Spec => []NoSelfLock
<1>1. ASSUME IInv PROVE NoSelfLock
  <2> SUFFICES ASSUME NEW t \in Threads, stack[t] # <<>>, Top(t).at = "take"
               PROVE  owner[Top(t).m] # t
    BY DEF NoSelfLock, InCall
  <2>1. Top(t) = stack[t][1] /\ stack[t][1].m \in Mutexes /\ pc[t] = "call" /\ OwnerOk(t)
    BY <1>1, StackTop DEF IInv, Frame, StackInv, StackOk, OwnerInv
  <2> QED
    BY <2>1 DEF OwnerOk, Mutexes
<1> QED
  BY <1>1, Invariant, PTL

-----------------------------------------------------------------------------
(* Counts and reports. Most steps are silent: neither shows them.          *)

Silent ==
  /\ UNCHANGED <<calls, threads, reports>>
  /\ \A u \in Threads : /\ Uncounted(u)' = Uncounted(u)
                        /\ \A op \in Ops : Counted(u, op)' = Counted(u, op)
                        /\ Reporting(u)' <=> Reporting(u)
                        /\ Reporting(u) => target'[u] = target[u]

LEMMA UncountedOuter ==
  ASSUME NEW t \in Threads
  PROVE  Uncounted(t) = IF stack[t] # <<>> /\ Outer(t).at = "enter" THEN Outer(t).op ELSE "none"
BY DEF Uncounted, InCall, Outer

LEMMA ReportingOuter ==
  ASSUME NEW t \in Threads
  PROVE  Reporting(t) <=> \/ pc[t] \in {"test", "store"}
                          \/ pc[t] = "call" /\ Outer(t).m = "threads"
BY DEF Reporting, Outer

LEMMA ShownElsewhere ==
  ASSUME NEW u \in Threads, stack'[u] = stack[u], pc'[u] = pc[u]
  PROVE  Uncounted(u)' = Uncounted(u) /\ (Reporting(u)' <=> Reporting(u))
BY DEF Uncounted, InCall, Reporting

LEMMA CountsKept ==
  ASSUME UNCHANGED <<counters, first>>
  PROVE  \A u \in Threads, op \in Ops : Counted(u, op)' = Counted(u, op)
BY DEF Counted

\* The outer call does not notice what is pushed on top of it.
LEMMA SilentInside ==
  ASSUME IInv, NEW t \in Threads,
         EnterNested(t) \/ EnterFirst(t) \/ (Take(t) /\ Len(stack[t]) = 2)
  PROVE  Silent
<1>1. TypeOK /\ stack[t] # <<>> /\ UNCHANGED <<counters, first, calls, threads, reports, target>>
  BY DEF IInv, EnterNested, EnterFirst, Take, Entered, InCall, counting
<1>2. stack'[t] # <<>> /\ Outer(t)' = Outer(t) /\ \A u \in Threads \ {t} : stack'[u] = stack[u]
  <2>1. CASE EnterNested(t)
    <3>1. Proceed(t) /\ Len(stack[t]) = 2
      BY <1>1, <2>1, OuterAfter DEF EnterNested, Counts
    <3>2. /\ stack'[t] # <<>> /\ Len(stack'[t]) = 2 /\ stack'[t][2] = stack[t][2]
          /\ \A u \in Threads \ {t} : stack'[u] = stack[u]
      BY <1>1, <3>1, AfterProceed
    <3> QED
      BY <3>1, <3>2 DEF Outer
  <2>2. CASE EnterFirst(t)
    <3>1. Len(stack[t]) = 1
      BY <2>2 DEF EnterFirst, Counts
    <3>2. [m |-> "map", op |-> "locks", at |-> "enter"] \in Frame
      BY DEF Frame, Mutexes, Ops
    <3>3. /\ stack'[t] # <<>> /\ Len(stack'[t]) = Len(stack[t]) + 1
          /\ \A i \in 1..Len(stack[t]) : stack'[t][i + 1] = stack[t][i]
          /\ \A u \in Threads \ {t} : stack'[u] = stack[u]
      BY <1>1, <2>2, <3>2, AfterPush DEF EnterFirst
    <3>4. Len(stack'[t]) = 2 /\ stack'[t][1 + 1] = stack[t][1]
      BY <3>1, <3>3
    <3> QED
      BY <3>1, <3>3, <3>4 DEF Outer
  <2>3. CASE Take(t) /\ Len(stack[t]) = 2
    <3>1. /\ Len(stack'[t]) = Len(stack[t]) - 1
          /\ \A i \in 1..(Len(stack[t]) - 1) : stack'[t][i] = stack[t][i + 1]
          /\ Len(stack[t]) > 1 => stack'[t] # <<>>
          /\ \A u \in Threads \ {t} : stack'[u] = stack[u]
      BY <1>1, <2>3, AfterPop DEF Take
    <3>2. stack'[t] # <<>> /\ Len(stack'[t]) = 1 /\ stack'[t][1] = stack[t][1 + 1]
      BY <2>3, <3>1
    <3> QED
      BY <2>3, <3>1, <3>2 DEF Outer
  <2> QED
    BY <2>1, <2>2, <2>3
<1>3. pc' = pc
  <2>1. CASE Take(t) /\ Len(stack[t]) = 2
    <3>1. pc' = [pc EXCEPT ![t] = pc[t]]
      BY <2>1 DEF Take
    <3> QED
      BY <1>1, <3>1 DEF TypeOK
  <2> QED
    BY <2>1 DEF EnterNested, EnterFirst
<1>4. Uncounted(t)' = Uncounted(t) /\ (Reporting(t)' <=> Reporting(t))
  <2>1. Uncounted(t)' = IF stack'[t] # <<>> /\ Outer(t)'.at = "enter" THEN Outer(t)'.op ELSE "none"
    BY DEF Uncounted, InCall, Outer
  <2>2. Reporting(t)' <=> \/ pc'[t] \in {"test", "store"}
                          \/ pc'[t] = "call" /\ Outer(t)'.m = "threads"
    BY DEF Reporting, Outer
  <2> QED
    BY <1>1, <1>2, <1>3, <2>1, <2>2, UncountedOuter, ReportingOuter
<1>5. \A u \in Threads \ {t} : Uncounted(u)' = Uncounted(u) /\ (Reporting(u)' <=> Reporting(u))
  BY <1>2, <1>3, ShownElsewhere
<1> QED
  BY <1>1, <1>4, <1>5, CountsKept DEF Silent

\* A call that has been counted ends in silence.
LEMMA SilentEnd ==
  ASSUME IInv, NEW t \in Threads, (Take(t) /\ Len(stack[t]) = 1) \/ TryFails(t)
  PROVE  Silent
<1>1. /\ TypeOK /\ stack[t] # <<>> /\ UNCHANGED <<counters, first, calls, threads, reports, target>>
      /\ Top(t) = stack[t][1] /\ stack[t][1].at = "take" /\ pc[t] = "call"
      /\ stack[t][1].m \in Mutexes
  BY StackTop DEF IInv, TryFails, Take, InCall, StackInv, StackOk, Frame, counting
<1>2. Len(stack[t]) = 1 /\ (TryFails(t) => stack[t][1].m = "app")
  <2>1. CASE TryFails(t)
    <3>1. stack[t][1].op = "trylocks"
      BY <1>1, <2>1 DEF TryFails
    <3>2. Len(stack[t]) = 1
      BY <1>1, <3>1, OuterAfter DEF IInv, StackInv, StackOk
    <3> QED
      BY <1>1, <3>1, <3>2, OuterAfter DEF IInv, StackInv, StackOk
  <2>2. CASE Take(t) /\ Len(stack[t]) = 1 /\ ~TryFails(t)
    BY <2>2
  <2> QED
    BY <2>1, <2>2
<1>3. stack'[t] = <<>> /\ \A u \in Threads \ {t} : stack'[u] = stack[u]
  BY <1>1, <1>2, AfterPop DEF TryFails, Take
<1>4. Outer(t) = stack[t][1]
  BY <1>2 DEF Outer
<1>5. \A u \in Threads \ {t} : pc'[u] = pc[u]
  BY DEF TryFails, Take, IInv, TypeOK
<1>6. pc'[t] # "call" /\ (pc'[t] \in {"test", "store"} <=> stack[t][1].m = "threads")
  <2>1. CASE Take(t)
    <3>1. pc'[t] = Granted[stack[t][1].m]
      BY <1>1, <1>2, <2>1 DEF Take, TypeOK
    <3> QED
      BY <1>1, <3>1 DEF Granted, Mutexes
  <2>2. CASE TryFails(t)
    BY <1>1, <1>2, <2>2 DEF TryFails, TypeOK
  <2> QED
    BY <2>1, <2>2
<1>7. Uncounted(t)' = "none" /\ Uncounted(t) = "none"
  <2>1. Uncounted(t)' = "none"
    BY <1>3 DEF Uncounted, InCall
  <2> QED
    BY <1>1, <1>4, <2>1, UncountedOuter
<1>8. Reporting(t)' <=> Reporting(t)
  <2>1. Reporting(t)' <=> pc'[t] \in {"test", "store"}
    BY <1>6 DEF Reporting
  <2> QED
    BY <1>1, <1>4, <1>6, <2>1, ReportingOuter
<1>9. \A u \in Threads \ {t} : Uncounted(u)' = Uncounted(u) /\ (Reporting(u)' <=> Reporting(u))
  BY <1>3, <1>5, ShownElsewhere
<1> QED
  BY <1>1, <1>7, <1>8, <1>9, CountsKept DEF Silent

\* New counters start at no call.
LEMMA SilentLookup ==
  ASSUME IInv, NEW t \in Threads, Lookup(t)
  PROVE  Silent
<1>1. UNCHANGED <<stack, calls, target, threads, reports>>
  BY DEF Lookup
<1>2. \A u \in Threads, op \in Ops : Counted(u, op)' = Counted(u, op)
  <2>1. CASE LookupId(t) \in DOMAIN counters
    BY <2>1, CountsKept DEF Lookup
  <2>2. CASE LookupId(t) \notin DOMAIN counters
    <3>1. PICK v \in FirstValues : NewCounters(LookupId(t), v)
      BY <2>2 DEF Lookup
    <3>2. DOMAIN first = DOMAIN counters /\ v \in Nat
      BY ThreadRegistryAssumption DEF IInv, TypeOK
    <3>3. PICK id : id = LookupId(t)
      OBVIOUS
    <3>4. /\ DOMAIN counters' = DOMAIN counters \cup {id}
          /\ counters'[id] = [op \in Ops |-> v]
          /\ \A u \in DOMAIN counters : counters'[u] = counters[u]
      BY <2>2, <3>1, <3>3 DEF NewCounters, Inserted
    <3>5. /\ first'[id] = v /\ \A u \in DOMAIN counters : first'[u] = first[u]
      BY <2>2, <3>1, <3>2, <3>3 DEF NewCounters, Inserted
    <3> SUFFICES ASSUME NEW u \in Threads, NEW op \in Ops
                 PROVE  Counted(u, op)' = Counted(u, op)
      OBVIOUS
    <3>6. CASE u \in DOMAIN counters
      BY <3>4, <3>5, <3>6 DEF Counted
    <3>7. CASE u \notin DOMAIN counters /\ u # id
      BY <3>4, <3>7 DEF Counted
    <3>8. CASE u \notin DOMAIN counters /\ u = id
      <4>1. counters'[u][op] = v /\ first'[u] = v /\ u \in DOMAIN counters'
        BY <3>4, <3>5, <3>8
      <4> QED
        BY <3>2, <3>8, <4>1 DEF Counted
    <3> QED
      BY <3>6, <3>7, <3>8
  <2> QED
    BY <2>1, <2>2
<1>3. \A u \in Threads : Uncounted(u)' = Uncounted(u)
  BY <1>1 DEF Uncounted, InCall
<1>4. \A u \in Threads : Reporting(u)' <=> Reporting(u)
  <2>1. \A u \in Threads \ {t} : pc'[u] = pc[u]
    BY DEF Lookup, IInv, TypeOK
  <2>2. pc'[t] = pc[t] \/ (pc[t] = "lookup" /\ pc'[t] = "report")
    BY DEF Lookup, InLookup, IInv, TypeOK
  <2> QED
    BY <1>1, <2>1, <2>2 DEF Reporting
<1> QED
  BY <1>1, <1>2, <1>3, <1>4 DEF Silent

\* Steps outside of the wrappers that are not about a report.
LEMMA SilentOutside ==
  ASSUME IInv, NEW t \in Threads, UNCHANGED <<stack, counters, first, calls, threads, reports>>,
         \A u \in Threads \ {t} : pc'[u] = pc[u] /\ target'[u] = target[u],
         \/ pc' = pc /\ target' = target
         \/ pc[t] = "test" /\ pc'[t] = "store" /\ target' = target
         \/ pc[t] \notin {"call", "test", "store"} /\ pc'[t] \notin {"call", "test", "store"}
  PROVE  Silent
<1>1. \A u \in Threads : Uncounted(u)' = Uncounted(u)
  BY DEF Uncounted, InCall
<1>2. \A u \in Threads : Reporting(u)' <=> Reporting(u)
  BY DEF Reporting
<1>3. \A u \in Threads : Reporting(u) => target'[u] = target[u]
  BY DEF Reporting
<1> QED
  BY <1>1, <1>2, <1>3, CountsKept DEF Silent

LEMMA SilentStep ==
  ASSUME IInv, NEW t \in Threads,
         \/ EnterNested(t) \/ EnterFirst(t) \/ Take(t) \/ TryFails(t) \/ Lookup(t)
         \/ AppUnlock(t) \/ Spawn(t) \/ Exit(t) \/ TestAdd(t)
         \/ t = Worker /\ (StartScan \/ WalkBegin \/ WalkEnd)
         \/ UNCHANGED vars
  PROVE  Silent
<1>a. DOMAIN pc = Threads /\ DOMAIN target = Threads
  BY DEF IInv, TypeOK
<1>1. CASE EnterNested(t) \/ EnterFirst(t) \/ Take(t) \/ TryFails(t)
  <2>1. Take(t) => Len(stack[t]) \in {1, 2}
    BY OuterAfter DEF Take, InCall
  <2> QED
    BY <1>1, <2>1, SilentInside, SilentEnd
<1>2. CASE Lookup(t)
  BY <1>2, SilentLookup
<1>3. CASE AppUnlock(t)
  BY <1>3, <1>a, SilentOutside DEF AppUnlock, counting
<1>4. CASE Spawn(t)
  BY <1>4, <1>a, SilentOutside DEF Spawn, counting
<1>5. CASE Exit(t)
  BY <1>5, <1>a, SilentOutside DEF Exit, counting
<1>6. CASE TestAdd(t)
  BY <1>6, <1>a, SilentOutside DEF TestAdd, counting
<1>7. CASE t = Worker /\ StartScan
  BY <1>7, <1>a, SilentOutside DEF StartScan, counting
<1>8. CASE t = Worker /\ WalkBegin
  BY <1>8, <1>a, SilentOutside DEF WalkBegin, counting
<1>9. CASE t = Worker /\ WalkEnd
  <2>1. /\ pc[t] = "walk" /\ pc' = [pc EXCEPT ![t] = "rest"]
        /\ UNCHANGED <<stack, counters, first, calls, target, threads, reports>>
    BY <1>9 DEF WalkEnd, counting
  <2> QED
    BY <2>1, <1>a, SilentOutside
<1>10. CASE UNCHANGED vars
  BY <1>10, SilentOutside DEF vars
<1> QED
  BY <1>1, <1>2, <1>3, <1>4, <1>5, <1>6, <1>7, <1>8, <1>9, <1>10

\* A call begins: it is shown, and not counted yet.
LEMMA ShownEnter ==
  ASSUME IInv, NEW t \in Threads, NEW m \in Mutexes, NEW op \in Ops, Enter(t, m, op),
         pc[t] \in {"run", "begin", "report", "scan"}
  PROVE  /\ Uncounted(t) = "none" /\ Uncounted(t)' = op
         /\ ~Reporting(t) /\ (Reporting(t)' <=> m = "threads")
         /\ \A u \in Threads \ {t} : /\ Uncounted(u)' = Uncounted(u)
                                     /\ Reporting(u)' <=> Reporting(u)
         /\ calls' = [calls EXCEPT ![t][op] = @ + 1]
<1> DEFINE f == [m |-> m, op |-> op, at |-> "enter"]
<1>1. /\ stack'[t] # <<>> /\ Len(stack'[t]) = 1 /\ stack'[t][1] = f
      /\ \A u \in Threads \ {t} : stack'[u] = stack[u]
  BY AfterEnter DEF IInv
<1>2. f.m = m /\ f.op = op /\ f.at = "enter" /\ Outer(t)' = f
  BY <1>1 DEF Outer
<1> HIDE DEF f
<1>3. pc'[t] = "call" /\ \A u \in Threads \ {t} : pc'[u] = pc[u]
  BY DEF Enter, IInv, TypeOK
<1>4. stack[t] = <<>>
  BY DEF IInv, StackInv, StackOk
<1>5. Uncounted(t) = "none" /\ ~Reporting(t)
  BY <1>4 DEF Uncounted, InCall, Reporting
<1>6. Uncounted(t)' = op
  <2>1. Uncounted(t)' = IF stack'[t] # <<>> /\ Outer(t)'.at = "enter" THEN Outer(t)'.op ELSE "none"
    BY DEF Uncounted, InCall, Outer
  <2> QED
    BY <1>1, <1>2, <2>1
<1>7. Reporting(t)' <=> m = "threads"
  <2>1. Reporting(t)' <=> \/ pc'[t] \in {"test", "store"}
                          \/ pc'[t] = "call" /\ Outer(t)'.m = "threads"
    BY DEF Reporting, Outer
  <2> QED
    BY <1>2, <1>3, <2>1
<1>8. \A u \in Threads \ {t} : Uncounted(u)' = Uncounted(u) /\ (Reporting(u)' <=> Reporting(u))
  BY <1>1, <1>3, ShownElsewhere
<1>9. calls' = [calls EXCEPT ![t][op] = @ + 1]
  BY DEF Enter
<1> QED
  BY <1>5, <1>6, <1>7, <1>8, <1>9

\* A call is counted.
LEMMA ShownCount ==
  ASSUME IInv, NEW t \in Threads, EnterCounted(t)
  PROVE  /\ Uncounted(t) \in Ops /\ Uncounted(t)' = "none"
         /\ \A u \in Threads \ {t} : Uncounted(u)' = Uncounted(u)
         /\ \A u \in Threads : Reporting(u)' <=> Reporting(u)
         /\ \A op \in Ops : Counted(t, op)' = Counted(t, op) + (IF op = Uncounted(t) THEN 1 ELSE 0)
         /\ \A u \in Threads \ {t}, op \in Ops : Counted(u, op)' = Counted(u, op)
         /\ UNCHANGED <<calls, threads, reports, target>>
<1>1. /\ TypeOK /\ stack[t] # <<>> /\ Len(stack[t]) = 1 /\ Proceed(t) /\ mine[t]
      /\ Top(t).at = "enter" /\ UNCHANGED <<pc, first, calls, threads, reports, target>>
      /\ counters' = [counters EXCEPT ![t][Top(t).op] = @ + 1]
  BY DEF IInv, EnterCounted, Entered, InCall, Counts
<1>2. Top(t) = stack[t][1] /\ Outer(t) = stack[t][1] /\ stack[t][1] \in Frame
  BY <1>1, StackTop DEF Outer
<1>3. /\ stack'[t] # <<>> /\ Len(stack'[t]) = 1 /\ stack'[t][1] = Taking(stack[t][1])
      /\ \A u \in Threads \ {t} : stack'[u] = stack[u]
  BY <1>1, AfterProceed
<1>4. Outer(t)' = Taking(Outer(t))
  BY <1>2, <1>3 DEF Outer
<1>5. Outer(t)'.at = "take" /\ Outer(t)'.m = Outer(t).m
  BY <1>4 DEF Taking
<1>6. Uncounted(t) = Top(t).op /\ Uncounted(t) \in Ops
  BY <1>1, <1>2, UncountedOuter DEF Frame
<1>7. Uncounted(t)' = "none" /\ (Reporting(t)' <=> Reporting(t))
  <2>1. Uncounted(t)' = IF stack'[t] # <<>> /\ Outer(t)'.at = "enter" THEN Outer(t)'.op ELSE "none"
    BY DEF Uncounted, InCall, Outer
  <2>2. Reporting(t)' <=> \/ pc'[t] \in {"test", "store"}
                          \/ pc'[t] = "call" /\ Outer(t)'.m = "threads"
    BY DEF Reporting, Outer
  <2> QED
    BY <1>1, <1>5, <2>1, <2>2, ReportingOuter
<1>8. \A u \in Threads \ {t} : Uncounted(u)' = Uncounted(u) /\ (Reporting(u)' <=> Reporting(u))
  BY <1>1, <1>3, ShownElsewhere
<1>9. /\ t \in DOMAIN counters /\ counters[t] \in [Ops -> Nat] /\ first[t] \in Nat
      /\ DOMAIN counters' = DOMAIN counters
      /\ counters'[t] = [counters[t] EXCEPT ![Uncounted(t)] = @ + 1]
      /\ \A u \in DOMAIN counters \ {t} : counters'[u] = counters[u]
  BY <1>1, <1>6 DEF IInv, MineInv, TypeOK
<1>10. ASSUME NEW op \in Ops
       PROVE  Counted(t, op)' = Counted(t, op) + (IF op = Uncounted(t) THEN 1 ELSE 0)
  <2>1. Counted(t, op) = counters[t][op] - first[t] /\ Counted(t, op)' = counters'[t][op] - first[t]
    BY <1>1, <1>9 DEF Counted
  <2>2. counters'[t][op] = counters[t][op] + (IF op = Uncounted(t) THEN 1 ELSE 0)
    BY <1>6, <1>9
  <2>3. counters[t][op] \in Nat /\ first[t] \in Nat
    BY <1>9
  <2> QED
    BY <2>1, <2>2, <2>3
<1>11. \A u \in Threads \ {t}, op \in Ops : Counted(u, op)' = Counted(u, op)
  BY <1>1, <1>9 DEF Counted
<1> QED
  BY <1>1, <1>6, <1>7, <1>8, <1>10, <1>11

\* A report is stored.
LEMMA ShownStore ==
  ASSUME IInv, NEW t \in Threads, StoreAdd(t)
  PROVE  /\ Uncounted(t) = "none" /\ Reporting(t) /\ ~Reporting(t)' /\ target[t] \in Threads
         /\ \A u \in Threads : Uncounted(u)' = Uncounted(u)
         /\ \A u \in Threads, op \in Ops : Counted(u, op)' = Counted(u, op)
         /\ \A u \in Threads \ {t} : (Reporting(u)' <=> Reporting(u)) /\ target'[u] = target[u]
         /\ Reported' = [Reported EXCEPT ![target[t]] = @ + 1]
         /\ reports' = [reports EXCEPT ![target[t]] = @ + 1]
         /\ UNCHANGED calls
<1>1. /\ pc[t] = "store" /\ pc'[t] \in {"scan", "run"} /\ stack' = stack
      /\ \A u \in Threads \ {t} : pc'[u] = pc[u] /\ target'[u] = target[u]
      /\ UNCHANGED <<counters, first, calls>>
      /\ reports' = [reports EXCEPT ![target[t]] = @ + 1]
  BY DEF StoreAdd, counting, IInv, TypeOK
<1>2. stack[t] = <<>> /\ target[t] \in Threads /\ (found[t] <=> target[t] \in DOMAIN threads)
  BY <1>1 DEF IInv, StackInv, StackOk, TargetInv, TargetOk
<1>3. Uncounted(t) = "none" /\ \A u \in Threads : Uncounted(u)' = Uncounted(u)
  BY <1>1, <1>2 DEF Uncounted, InCall
<1>4. /\ Reporting(t) /\ ~Reporting(t)'
      /\ \A u \in Threads \ {t} : Reporting(u)' <=> Reporting(u)
  BY <1>1 DEF Reporting
<1>5. Reported' = [Reported EXCEPT ![target[t]] = @ + 1]
  <2> DEFINE id == target[t]
             w == [flags |-> {"Other"}, n |-> 1]
  <2>1. CASE found[t]
    <3>1. id \in DOMAIN threads
      BY <1>2, <2>1
    <3>2. threads' = [threads EXCEPT ![id] = [flags |-> @.flags \cup TypeGiven(t), n |-> @.n + 1]]
      BY <2>1 DEF StoreAdd
    <3>3. /\ DOMAIN threads' = DOMAIN threads /\ threads'[id].n = threads[id].n + 1
          /\ \A u \in DOMAIN threads \ {id} : threads'[u] = threads[u]
      BY <3>1, <3>2
    <3> HIDE DEF id
    <3> QED
      BY <1>2, <3>1, <3>3 DEF Reported, id
  <2>2. CASE ~found[t]
    <3>1. id \notin DOMAIN threads
      BY <1>2, <2>2
    <3>2. threads' = Inserted(threads, id, w)
      BY <2>2 DEF StoreAdd
    <3>3. w.n = 1
      OBVIOUS
    <3> HIDE DEF w
    <3>4. /\ DOMAIN threads' = DOMAIN threads \cup {id} /\ threads'[id] = w
          /\ \A u \in DOMAIN threads : threads'[u] = threads[u]
      BY <3>1, <3>2 DEF Inserted
    <3> HIDE DEF id
    <3> QED
      BY <1>2, <3>1, <3>3, <3>4 DEF Reported, id
  <2> QED
    BY <2>1, <2>2
<1> QED
  BY <1>1, <1>2, <1>3, <1>4, <1>5, CountsKept

Pending(t, op) == IF Uncounted(t) = op THEN 1 ELSE 0

LEMMA CallsCountedStep ==
  ASSUME IInv, CallsCounted, [Next]_vars
  PROVE  CallsCounted'
<1> SUFFICES ASSUME NEW u \in Threads, NEW op \in Ops
             PROVE  Counted(u, op)' + Pending(u, op)' = calls'[u][op]
  BY DEF CallsCounted, Pending
<1>a. /\ Counted(u, op) + Pending(u, op) = calls[u][op]
      /\ Counted(u, op) \in Int /\ Pending(u, op) \in {0, 1}
      /\ calls \in [Threads -> [Ops -> Nat]] /\ "none" \notin Ops /\ Worker \in Threads
  BY ThreadRegistryAssumption
     DEF CallsCounted, Pending, Counted, IInv, TypeOK, Ops, Threads
<1>1. ASSUME Silent PROVE Counted(u, op)' + Pending(u, op)' = calls'[u][op]
  BY <1>1, <1>a DEF Silent, Pending
<1>2. ASSUME NEW t \in Threads, NEW m \in Mutexes, NEW o \in Ops, Enter(t, m, o),
             pc[t] \in {"run", "begin", "report", "scan"}, UNCHANGED <<counters, first>>
      PROVE  Counted(u, op)' + Pending(u, op)' = calls'[u][op]
  <2>1. /\ Uncounted(t) = "none" /\ Uncounted(t)' = o
        /\ \A v \in Threads \ {t} : Uncounted(v)' = Uncounted(v)
        /\ calls' = [calls EXCEPT ![t][o] = @ + 1]
    BY <1>2, ShownEnter
  <2>2. Counted(u, op)' = Counted(u, op)
    BY <1>2, CountsKept
  <2>3. CASE u = t /\ op = o
    <3>1. Pending(u, op) = 0 /\ Pending(u, op)' = 1 /\ calls'[u][op] = calls[u][op] + 1
      BY <1>a, <2>1, <2>3 DEF Pending
    <3> QED
      BY <1>a, <2>2, <3>1
  <2>4. CASE u # t \/ op # o
    <3>1. Pending(u, op)' = Pending(u, op) /\ calls'[u][op] = calls[u][op]
      BY <1>a, <2>1, <2>4 DEF Pending
    <3> QED
      BY <1>a, <2>2, <3>1
  <2> QED
    BY <2>3, <2>4
<1>3. ASSUME NEW t \in Threads, EnterCounted(t)
      PROVE  Counted(u, op)' + Pending(u, op)' = calls'[u][op]
  <2>1. /\ Uncounted(t) \in Ops /\ Uncounted(t)' = "none"
        /\ \A v \in Threads \ {t} : Uncounted(v)' = Uncounted(v)
        /\ \A o \in Ops : Counted(t, o)' = Counted(t, o) + (IF o = Uncounted(t) THEN 1 ELSE 0)
        /\ \A v \in Threads \ {t}, o \in Ops : Counted(v, o)' = Counted(v, o)
        /\ calls' = calls
    BY <1>3, ShownCount
  <2>2. CASE u = t
    <3>1. Counted(u, op)' = Counted(u, op) + Pending(u, op) /\ Pending(u, op)' = 0
      BY <1>a, <2>1, <2>2 DEF Pending
    <3> QED
      BY <1>a, <2>1, <3>1
  <2>3. CASE u # t
    BY <1>a, <2>1, <2>3 DEF Pending
  <2> QED
    BY <2>2, <2>3
<1>4. ASSUME NEW t \in Threads, StoreAdd(t)
      PROVE  Counted(u, op)' + Pending(u, op)' = calls'[u][op]
  BY <1>4, <1>a, ShownStore DEF Pending
<1>5. ASSUME NEW t \in Threads, AppCall(t)
      PROVE  Counted(u, op)' + Pending(u, op)' = calls'[u][op]
  <2>1. /\ \E o \in Ops : Enter(t, "app", o)
        /\ pc[t] = "run" /\ UNCHANGED <<counters, first>> /\ "app" \in Mutexes
    BY <1>5 DEF AppCall, Mutexes
  <2> QED
    BY <2>1, <1>2
<1>6. ASSUME NEW t \in Threads, CallAdd(t)
      PROVE  Counted(u, op)' + Pending(u, op)' = calls'[u][op]
  <2>1. /\ Enter(t, "threads", "locks") /\ pc[t] \in {"begin", "report"}
        /\ UNCHANGED <<counters, first>> /\ "threads" \in Mutexes /\ "locks" \in Ops
    BY <1>6 DEF CallAdd, Mutexes, Ops
  <2> QED
    BY <2>1, <1>2
<1>7. ASSUME NextThread
      PROVE  Counted(u, op)' + Pending(u, op)' = calls'[u][op]
  <2>1. /\ Enter(Worker, "map", "locks") /\ pc[Worker] = "scan"
        /\ UNCHANGED <<counters, first>> /\ "map" \in Mutexes /\ "locks" \in Ops
    BY <1>7 DEF NextThread, Mutexes, Ops
  <2> QED
    BY <2>1, <1>2, <1>a
<1>8. ASSUME NEW t \in Threads,
             \/ EnterNested(t) \/ EnterFirst(t) \/ Take(t) \/ TryFails(t) \/ Lookup(t)
             \/ AppUnlock(t) \/ Spawn(t) \/ Exit(t) \/ TestAdd(t)
             \/ t = Worker /\ (StartScan \/ WalkBegin \/ WalkEnd)
             \/ UNCHANGED vars
      PROVE  Counted(u, op)' + Pending(u, op)' = calls'[u][op]
  BY <1>8, <1>1, SilentStep
<1>9. StartScan \/ WalkBegin \/ WalkEnd \/ UNCHANGED vars
        => Counted(u, op)' + Pending(u, op)' = calls'[u][op]
  BY <1>8, <1>a
<1> QED
  BY <1>3, <1>4, <1>5, <1>6, <1>7, <1>8, <1>9 DEF Next, Quiet

LEMMA ReportsKeptStep ==
  ASSUME IInv, ReportsKept, [Next]_vars
  PROVE  ReportsKept'
<1>a. /\ \A u \in Threads : Reported[u] = reports[u]
      /\ reports \in [Threads -> Nat]
  BY DEF ReportsKept, Reported, IInv, TypeOK
<1>b. ASSUME \A u \in Threads : Reported'[u] = reports'[u]
      PROVE  ReportsKept'
  BY <1>b DEF ReportsKept, Reported
<1>1. ASSUME UNCHANGED <<threads, reports>> PROVE ReportsKept'
  BY <1>1 DEF ReportsKept
<1>2. ASSUME NEW t \in Threads, StoreAdd(t) PROVE ReportsKept'
  <2>1. /\ target[t] \in Threads
        /\ Reported' = [Reported EXCEPT ![target[t]] = @ + 1]
        /\ reports' = [reports EXCEPT ![target[t]] = @ + 1]
    BY <1>2, ShownStore
  <2>2. DOMAIN Reported = Threads
    BY DEF Reported
  <2>3. \A u \in Threads : Reported'[u] = reports'[u]
    BY <1>a, <2>1, <2>2
  <2> QED
    BY <1>b, <2>3
<1>3. ASSUME NEW t \in Threads,
             \/ EnterNested(t) \/ EnterCounted(t) \/ EnterFirst(t) \/ Take(t) \/ TryFails(t)
             \/ Lookup(t) \/ AppCall(t) \/ AppUnlock(t) \/ Spawn(t) \/ Exit(t)
             \/ CallAdd(t) \/ TestAdd(t)
      PROVE  UNCHANGED <<threads, reports>>
  BY <1>3 DEF EnterNested, EnterCounted, EnterFirst, Take, TryFails, Lookup, AppCall,
              AppUnlock, Spawn, Exit, CallAdd, TestAdd
<1>4. ASSUME StartScan \/ NextThread \/ WalkBegin \/ WalkEnd \/ Quiet \/ UNCHANGED vars
      PROVE  UNCHANGED <<threads, reports>>
  BY <1>4 DEF StartScan, NextThread, WalkBegin, WalkEnd, Quiet, vars
<1> QED
  BY <1>1, <1>2, <1>3, <1>4 DEF Next

\* Each call that a thread makes outside of the wrappers is counted under its id, once,
\* and the locks of the counting itself are not (zerosum_pthreads.cpp 90-103, 180-206).
THEOREM EveryCallIsCounted == Spec => []CallsCounted
<1>1. Init => CallsCounted
  BY DEF Init, CallsCounted, Counted, Uncounted, InCall, Ops
<1>2. IInv /\ CallsCounted /\ [Next]_vars => CallsCounted'
  BY CallsCountedStep
<1> QED
  BY <1>1, <1>2, Invariant, PTL DEF Spec

\* A thread has one sample for each report of it, though the scan and its own OMPT
\* callback may report it at the same time (software.h 272-288).
THEOREM EveryReportIsKept == Spec => []ReportsKept
<1>1. Init => ReportsKept
  BY DEF Init, ReportsKept
<1>2. IInv /\ ReportsKept /\ [Next]_vars => ReportsKept'
  BY ReportsKeptStep
<1> QED
  BY <1>1, <1>2, Invariant, PTL DEF Spec

-----------------------------------------------------------------------------
(* The registry as one atomic object.                                      *)

Calling   == [t \in Threads |-> Uncounted(t)]
Totals    == [t \in Threads |-> [op \in Ops |-> Counted(t, op)]]
ReportsOf == [t \in Threads |-> IF Reporting(t) THEN target[t] ELSE Nobody]

LEMMA AtomicInit ==
  ASSUME Init
  PROVE  Atomic!RegistryInit
<1>1. /\ \A t \in Threads : Uncounted(t) = "none" /\ ~Reporting(t)
      /\ \A t \in Threads, op \in Ops : Counted(t, op) = 0
  BY DEF Init, Uncounted, InCall, Reporting, Counted
<1>2. Reported \in [Threads -> {0, 1}]
  BY DEF Init, Reported
<1> QED
  BY <1>1, <1>2 DEF Atomic!RegistryInit, Atomic!Nobody, Nobody

\* What is shown is the same when its parts are.
LEMMA SameShown ==
  ASSUME Silent
  PROVE  UNCHANGED <<Calling, Totals, ReportsOf, Reported>>
<1>1. Calling' = Calling
  BY DEF Silent, Calling
<1>2. Totals' = Totals
  BY DEF Silent, Totals
<1>3. ReportsOf' = ReportsOf
  BY DEF Silent, ReportsOf
<1>4. Reported' = Reported
  BY DEF Silent, Reported
<1> QED
  BY <1>1, <1>2, <1>3, <1>4

LEMMA AtomicStep ==
  ASSUME IInv, [Next]_vars
  PROVE  [Atomic!RegistryNext]_(Atomic!rvars)
<1> DEFINE Goal == Atomic!RegistryNext \/ UNCHANGED Atomic!rvars
<1>a. Worker \in Threads /\ (\A t \in Threads : t # Nobody) /\ "none" \notin Ops
      /\ "locks" \in Ops /\ Mutexes = {"app", "map", "threads"}
  BY ThreadRegistryAssumption DEF Threads, Ops, Mutexes
<1>b. ASSUME NEW t \in Threads, NEW op \in Ops,
             \/ Atomic!Call(t, op)
             \/ Atomic!Count(t)
             \/ \E u \in Threads : Atomic!BeginReport(t, u, op)
             \/ Atomic!EndReport(t)
      PROVE  Goal
  BY <1>b DEF Atomic!RegistryNext
<1>1. ASSUME Silent PROVE Goal
  BY <1>1, SameShown DEF Atomic!rvars, Calling, Totals, ReportsOf, Reported
<1> HIDE DEF Goal
\* A call outside of a report.
<1>2. ASSUME NEW t \in Threads, NEW m \in {"app", "map"}, NEW op \in Ops, Enter(t, m, op),
             pc[t] \in {"run", "scan"}, UNCHANGED <<counters, first, threads>>,
             \A u \in Threads \ {t} : target'[u] = target[u]
      PROVE  Goal
  <2>1. /\ Uncounted(t) = "none" /\ Uncounted(t)' = op /\ ~Reporting(t) /\ ~Reporting(t)'
        /\ \A u \in Threads \ {t} : /\ Uncounted(u)' = Uncounted(u)
                                    /\ Reporting(u)' <=> Reporting(u)
    BY <1>2, <1>a, ShownEnter
  <2>2. Calling[t] = "none" /\ Calling' = [Calling EXCEPT ![t] = op]
    BY <2>1 DEF Calling
  <2>3. ReportsOf' = ReportsOf
    BY <1>2, <2>1 DEF ReportsOf
  <2>4. Totals' = Totals /\ Reported' = Reported
    BY <1>2, CountsKept DEF Totals, Reported
  <2>5. Atomic!Call(t, op)
    BY <2>2, <2>3, <2>4 DEF Atomic!Call, Calling, Totals, ReportsOf, Reported
  <2> QED
    BY <1>b, <2>5
<1>3. ASSUME NEW t \in Threads, CallAdd(t) PROVE Goal
  <2>1. /\ Enter(t, "threads", "locks") /\ pc[t] \in {"begin", "report"}
        /\ UNCHANGED <<counters, first, threads>>
    BY <1>3 DEF CallAdd
  <2>2. target'[t] \in Threads /\ \A u \in Threads \ {t} : target'[u] = target[u]
    BY <1>3 DEF CallAdd, IInv, TargetInv, TargetOk, TypeOK
  <2>3. /\ Uncounted(t) = "none" /\ Uncounted(t)' = "locks" /\ ~Reporting(t) /\ Reporting(t)'
        /\ \A u \in Threads \ {t} : /\ Uncounted(u)' = Uncounted(u)
                                    /\ Reporting(u)' <=> Reporting(u)
    BY <1>a, <2>1, ShownEnter
  <2>4. Calling[t] = "none" /\ Calling' = [Calling EXCEPT ![t] = "locks"]
    BY <2>3 DEF Calling
  <2>5. ReportsOf[t] = Nobody /\ ReportsOf' = [ReportsOf EXCEPT ![t] = target'[t]]
    BY <2>2, <2>3 DEF ReportsOf
  <2>6. Totals' = Totals /\ Reported' = Reported
    BY <2>1, CountsKept DEF Totals, Reported
  <2>7. Atomic!BeginReport(t, target'[t], "locks")
    BY <2>4, <2>5, <2>6
       DEF Atomic!BeginReport, Atomic!Nobody, Nobody, Calling, Totals, ReportsOf, Reported
  <2> QED
    BY <1>a, <1>b, <2>2, <2>7
<1>4. ASSUME NEW t \in Threads, EnterCounted(t) PROVE Goal
  <2>1. /\ Uncounted(t) \in Ops /\ Uncounted(t)' = "none"
        /\ \A u \in Threads \ {t} : Uncounted(u)' = Uncounted(u)
        /\ \A u \in Threads : Reporting(u)' <=> Reporting(u)
        /\ \A op \in Ops : Counted(t, op)' = Counted(t, op) + (IF op = Uncounted(t) THEN 1 ELSE 0)
        /\ \A u \in Threads \ {t}, op \in Ops : Counted(u, op)' = Counted(u, op)
        /\ UNCHANGED <<calls, threads, reports, target>>
    BY <1>4, ShownCount
  <2>2. Calling[t] # "none" /\ Calling' = [Calling EXCEPT ![t] = "none"]
    BY <1>a, <2>1 DEF Calling
  <2>3. ReportsOf' = ReportsOf /\ Reported' = Reported
    BY <2>1 DEF ReportsOf, Reported
  <2>4. \A op \in Ops : Counted(t, op) \in Int
    BY DEF Counted, IInv, TypeOK
  <2>5. Totals' = [Totals EXCEPT ![t][Calling[t]] = @ + 1]
    <3>1. \A op \in Ops : Counted(t, op)' = IF op = Uncounted(t) THEN Counted(t, op) + 1
                                                                 ELSE Counted(t, op)
      BY <2>1, <2>4
    <3> QED
      BY <2>1, <3>1 DEF Totals, Calling
  <2>6. Atomic!Count(t)
    BY <2>2, <2>3, <2>5 DEF Atomic!Count, Calling, Totals, ReportsOf, Reported
  <2> QED
    BY <1>a, <1>b, <2>6
<1>5. ASSUME NEW t \in Threads, StoreAdd(t) PROVE Goal
  <2>1. /\ Uncounted(t) = "none" /\ Reporting(t) /\ ~Reporting(t)' /\ target[t] \in Threads
        /\ \A u \in Threads : Uncounted(u)' = Uncounted(u)
        /\ \A u \in Threads, op \in Ops : Counted(u, op)' = Counted(u, op)
        /\ \A u \in Threads \ {t} : (Reporting(u)' <=> Reporting(u)) /\ target'[u] = target[u]
        /\ Reported' = [Reported EXCEPT ![target[t]] = @ + 1]
    BY <1>5, ShownStore
  <2>2. Calling[t] = "none" /\ Calling' = Calling /\ Totals' = Totals
    BY <2>1 DEF Calling, Totals
  <2>3. /\ ReportsOf[t] = target[t] /\ ReportsOf[t] # Nobody
        /\ ReportsOf' = [ReportsOf EXCEPT ![t] = Nobody]
    BY <1>a, <2>1 DEF ReportsOf
  <2>4. Reported' = [Reported EXCEPT ![ReportsOf[t]] = @ + 1]
    BY <2>1, <2>3
  <2>5. Atomic!EndReport(t)
    BY <2>2, <2>3, <2>4
       DEF Atomic!EndReport, Atomic!Nobody, Nobody, Calling, Totals, ReportsOf, Reported
  <2> QED
    BY <1>a, <1>b, <2>5
<1>6. ASSUME NEW t \in Threads, AppCall(t) PROVE Goal
  <2>1. /\ \E op \in Ops : Enter(t, "app", op)
        /\ pc[t] = "run" /\ UNCHANGED <<counters, first, threads, target>>
    BY <1>6 DEF AppCall
  <2> QED
    BY <2>1, <1>2
<1>7. ASSUME NextThread PROVE Goal
  <2>1. /\ Enter(Worker, "map", "locks") /\ pc[Worker] = "scan"
        /\ UNCHANGED <<counters, first, threads>>
    BY <1>7 DEF NextThread
  <2>2. \A u \in Threads \ {Worker} : target'[u] = target[u]
    BY <1>7 DEF NextThread, IInv, TypeOK
  <2> QED
    BY <2>1, <2>2, <1>2, <1>a
<1>8. ASSUME NEW t \in Threads,
             \/ EnterNested(t) \/ EnterFirst(t) \/ Take(t) \/ TryFails(t) \/ Lookup(t)
             \/ AppUnlock(t) \/ Spawn(t) \/ Exit(t) \/ TestAdd(t)
             \/ t = Worker /\ (StartScan \/ WalkBegin \/ WalkEnd)
             \/ UNCHANGED vars
      PROVE  Goal
  BY <1>8, <1>1, SilentStep
<1>9. StartScan \/ WalkBegin \/ WalkEnd \/ UNCHANGED vars => Goal
  BY <1>8, <1>a
<1>10. Goal
  BY <1>3, <1>4, <1>5, <1>6, <1>7, <1>8, <1>9 DEF Next, Quiet
<1> QED
  BY <1>10 DEF Goal

\* The locks, the depth and the wrappers together are one atomic registry: each call is
\* counted and each report is recorded in one step (zerosum_pthreads.cpp 90-206,
\* software.h 260-288).
THEOREM RegistryIsAtomic == Spec => ImplementsRegistry
<1>1. Init => Atomic!RegistryInit
  BY AtomicInit
<1>2. IInv /\ [Next]_vars => [Atomic!RegistryNext]_(Atomic!rvars)
  BY AtomicStep
<1> QED
  BY <1>1, <1>2, Invariant, PTL DEF Spec, ImplementsRegistry, Atomic!RegistrySpec

-----------------------------------------------------------------------------
(* What logThreads() announces.                                            *)

\* How many ids of s come before u.
Rank(s, u) == Cardinality({v \in s : v < u})

\* Ids of different places differ as the places do, and every place is taken.
LEMMA RankOrders ==
  ASSUME NEW s \in SUBSET Nat, IsFiniteSet(s), NEW u \in s, NEW v \in s
  PROVE  /\ Rank(s, u) \in Nat /\ Rank(s, u) < Cardinality(s)
         /\ u < v <=> Rank(s, u) < Rank(s, v)
<1>1. ASSUME NEW x \in s
      PROVE  /\ IsFiniteSet({w \in s : w < x}) /\ Rank(s, x) \in Nat
             /\ Rank(s, x) < Cardinality(s)
  <2> DEFINE b == {w \in s : w < x}
  <2>1. b \in SUBSET s /\ b # s
    OBVIOUS
  <2>2. IsFiniteSet(b) /\ Cardinality(b) <= Cardinality(s) /\ Cardinality(b) # Cardinality(s)
    BY <2>1, FS_Subset
  <2>3. Cardinality(b) \in Nat /\ Cardinality(s) \in Nat
    BY <2>2, FS_CardinalityType
  <2> QED BY <2>2, <2>3 DEF Rank
<1>2. ASSUME NEW x \in s, NEW y \in s, x < y PROVE Rank(s, x) < Rank(s, y)
  <2> DEFINE b == {w \in s : w < x}
             c == {w \in s : w < y}
  <2>1. b \in SUBSET c /\ x \in c /\ x \notin b
    <3>1. x \in Nat /\ y \in Nat /\ \A w \in s : w \in Nat
      OBVIOUS
    <3>2. \A w \in s : w < x => w < y
      BY <1>2, <3>1
    <3>3. ~(x < x)
      BY <3>1
    <3> QED BY <1>2, <3>2, <3>3, Zenon
  <2>2. IsFiniteSet(c) /\ Rank(s, x) \in Nat /\ Rank(s, y) \in Nat
    BY <1>1
  <2>3. Rank(s, x) = Cardinality(b) /\ Rank(s, y) = Cardinality(c)
    BY DEF Rank
  <2> HIDE DEF b, c
  <2>4. Cardinality(b) <= Cardinality(c) /\ (Cardinality(b) = Cardinality(c) => b = c)
    BY <2>1, <2>2, FS_Subset
  <2> QED BY <2>1, <2>2, <2>3, <2>4
<1>3. Rank(s, u) < Rank(s, v) => u < v
  <2> SUFFICES ASSUME ~(u < v) PROVE ~(Rank(s, u) < Rank(s, v))
    OBVIOUS
  <2>1. u = v \/ v < u
    OBVIOUS
  <2>2. Rank(s, u) \in Nat /\ Rank(s, v) \in Nat
    BY <1>1
  <2> QED BY <1>2, <2>1, <2>2
<1> QED BY <1>1, <1>2, <1>3

LEMMA RankExists ==
  ASSUME NEW s \in SUBSET Nat, IsFiniteSet(s), NEW k \in Nat, k < Cardinality(s)
  PROVE  \E u \in s : Rank(s, u) = k
<1> DEFINE n == Cardinality(s)
           R == 0..(n - 1)
           f == [u \in s |-> Rank(s, u)]
<1>1. n \in Nat
  BY FS_CardinalityType
<1>2. IsFiniteSet(R) /\ Cardinality(R) = n
  <2> HIDE DEF n
  <2>1. IsFiniteSet(R) /\ Cardinality(R) = IF 0 > n - 1 THEN 0 ELSE n - 1 - 0 + 1
    BY <1>1, FS_Interval
  <2> HIDE DEF R
  <2> QED BY <1>1, <2>1
<1>3. f \in [s -> R]
  BY <1>1, RankOrders
<1>4. ASSUME NEW u \in s, NEW v \in s, f[u] = f[v] PROVE u = v
  <2>1. u \in Nat /\ v \in Nat /\ Rank(s, u) = Rank(s, v)
    BY <1>4
  <2>2. Rank(s, u) \in Nat /\ ~(u < v) /\ ~(v < u)
    BY <2>1, RankOrders
  <2> QED BY <2>1, <2>2
<1> HIDE DEF R, f
<1>5. f \in Injection(s, R)
  BY <1>3, <1>4 DEF Injection, IsInjective
<1>6. f \in Surjection(s, R)
  BY <1>2, <1>5, FS_Injection
<1>7. k \in R
  BY <1>1 DEF R
<1>8. PICK u \in s : f[u] = k
  BY <1>6, <1>7 DEF Surjection
<1> QED BY <1>8 DEF f

\* An id above all others comes last and moves none.
LEMMA RankAdded ==
  ASSUME NEW s, NEW x \in Nat, \A u \in s : u \in Nat /\ u < x, NEW u \in s
  PROVE  Rank(s \cup {x}, u) = Rank(s, u)
<1>1. {v \in s \cup {x} : v < u} = {v \in s : v < u}
  OBVIOUS
<1> QED BY <1>1 DEF Rank

\* The rest of the map from an index on.
LEMMA FromRest ==
  ASSUME NEW s \in SUBSET Nat, IsFiniteSet(s), NEW n \in Nat, n <= Cardinality(s)
  PROVE  /\ From(s, n) \in Seq(s) /\ Len(From(s, n)) = Cardinality(s) - n
         /\ \A i \in 1..(Cardinality(s) - n) : Rank(s, From(s, n)[i]) = n + i - 1
<1> DEFINE m == Cardinality(s) - n
           f == [i \in 1..m |-> CHOOSE u \in s : Rank(s, u) = n + i - 1]
<1>1. Cardinality(s) \in Nat /\ m \in Nat
  BY FS_CardinalityType
<1>2. Max({0, Cardinality(s) - n}) = m
  <2>1. 0 \in Int /\ m \in Int /\ 0 <= m
    BY <1>1
  <2> HIDE DEF m
  <2>2. Max({0, m}) = m
    BY <2>1 DEF Max
  <2> QED BY <2>2 DEF m
<1>3. From(s, n) = f
  BY <1>2 DEF From, Rank
<1>4. \A i \in 1..m : f[i] \in s /\ Rank(s, f[i]) = n + i - 1
  <2> TAKE i \in 1..m
  <2>1. n + i - 1 \in Nat /\ n + i - 1 < Cardinality(s)
    BY <1>1
  <2>2. \E u \in s : Rank(s, u) = n + i - 1
    BY <2>1, RankExists
  <2> QED BY <2>2
<1> HIDE DEF m
<1>5. f \in [1..m -> s]
  BY <1>4
<1>6. f \in Seq(s) /\ Len(f) = m
  <2> HIDE DEF f
  <2> QED BY <1>1, <1>5
<1> QED BY <1>3, <1>4, <1>6 DEF m

\* As long as ids come in order, the lines are the first ids of the map, in its
\* order, and a walk goes over the map that it started on.
Announced ==
  /\ announced \in Seq(Threads) /\ Len(announced) = nthreads
  /\ nthreads <= Cardinality(DOMAIN threads)
  /\ \A i \in 1..nthreads : /\ announced[i] \in DOMAIN threads
                            /\ Rank(DOMAIN threads, announced[i]) = i - 1
  /\ pc[Worker] = "walk" => view = DOMAIN threads

AnnInv == IInv /\ (orderly => Announced)

LEMMA ThreadIds ==
  ASSUME TypeOK
  PROVE  DOMAIN threads \in SUBSET Nat /\ IsFiniteSet(DOMAIN threads)
         /\ Cardinality(DOMAIN threads) \in Nat
<1>1. DOMAIN threads \subseteq Threads /\ Threads \subseteq Nat /\ IsFiniteSet(Threads)
  BY ThreadRegistryAssumption DEF TypeOK
<1>2. IsFiniteSet(DOMAIN threads)
  BY <1>1, FS_Subset
<1> QED BY <1>1, <1>2, FS_CardinalityType

\* Steps of the rest of the registry.
LEMMA AnnouncedElsewhere ==
  ASSUME Announced, UNCHANGED <<announced, nthreads, view>>, DOMAIN threads' = DOMAIN threads,
         pc'[Worker] = "walk" => pc[Worker] = "walk"
  PROVE  Announced'
BY DEF Announced

LEMMA AnnouncedStore ==
  ASSUME IInv, IInv', Announced, NEW t \in Threads, StoreAdd(t), orderly'
  PROVE  Announced'
<1>1. /\ pc[t] = "store" /\ UNCHANGED <<announced, nthreads, view>>
      /\ pc' = [pc EXCEPT ![t] = IF t = Worker THEN "scan" ELSE "run"]
      /\ orderly' = (orderly /\ (found[t] \/ /\ pc[Worker] # "walk"
                                             /\ \A u \in DOMAIN threads : u < target[t]))
      /\ threads' = IF found[t]
                    THEN [threads EXCEPT ![target[t]] = [flags |-> @.flags \cup TypeGiven(t),
                                                         n     |-> @.n + 1]]
                    ELSE Inserted(threads, target[t], [flags |-> {"Other"}, n |-> 1])
  BY DEF StoreAdd, logging
<1>2. /\ TypeOK /\ TypeOK' /\ target[t] \in Threads /\ target[t] \in Nat
      /\ (found[t] <=> target[t] \in DOMAIN threads)
      /\ pc \in [Threads -> {"off", "run", "rest", "call", "held", "lookup", "begin",
                         "report", "test", "store", "scan", "walk"}]
  BY <1>1, ThreadRegistryAssumption DEF IInv, TargetInv, TargetOk, TypeOK
<1>3. pc'[Worker] = "walk" => pc[Worker] = "walk"
  BY <1>1, <1>2
<1>4. CASE found[t]
  <2>1. DOMAIN threads' = DOMAIN threads
    BY <1>1, <1>4
  <2> QED BY <1>1, <1>3, <2>1, AnnouncedElsewhere
<1>5. CASE ~found[t]
  <2> DEFINE s == DOMAIN threads
             x == target[t]
  <2>1. x \notin s /\ x \in Nat /\ pc'[Worker] # "walk" /\ \A u \in s : u < x
    BY <1>1, <1>2, <1>3, <1>5
  <2>2. DOMAIN threads' = s \cup {x}
    BY <1>1, <1>5 DEF Inserted
  <2>3. s \in SUBSET Nat /\ IsFiniteSet(s) /\ Cardinality(s) \in Nat
    BY <1>2, ThreadIds
  <2> HIDE DEF s, x
  <2>4. Cardinality(s \cup {x}) = Cardinality(s) + 1
    BY <2>1, <2>3, FS_AddElement
  <2>5. \A u \in s : Rank(s \cup {x}, u) = Rank(s, u)
    BY <2>1, <2>3, RankAdded
  <2>6. /\ announced \in Seq(Threads) /\ Len(announced) = nthreads
        /\ nthreads <= Cardinality(s) /\ nthreads \in Nat
        /\ \A i \in 1..nthreads : announced[i] \in s /\ Rank(s, announced[i]) = i - 1
    BY <1>2 DEF Announced, TypeOK, s
  <2>7. nthreads <= Cardinality(s \cup {x})
    BY <2>3, <2>4, <2>6
  <2> QED BY <1>1, <2>1, <2>2, <2>5, <2>6, <2>7 DEF Announced
<1> QED BY <1>4, <1>5

LEMMA AnnouncedWalk ==
  ASSUME IInv, Announced, WalkEnd
  PROVE  Announced'
<1> DEFINE s == DOMAIN threads
<1>1. /\ TypeOK /\ s \in SUBSET Nat /\ s \subseteq Threads /\ IsFiniteSet(s)
      /\ Cardinality(s) \in Nat /\ nthreads \in Nat
  BY ThreadIds DEF IInv, TypeOK
<1>2. view = s /\ Seen = {s} /\ pc[Worker] = "walk"
  BY DEF WalkEnd, Announced, Seen
<1>3. /\ announced' = announced \o From(s, nthreads) /\ nthreads' = Cardinality(s)
      /\ threads' = threads /\ pc' = [pc EXCEPT ![Worker] = "rest"]
  BY <1>2 DEF WalkEnd
<1>4. /\ announced \in Seq(Threads) /\ Len(announced) = nthreads /\ nthreads <= Cardinality(s)
      /\ \A i \in 1..nthreads : announced[i] \in s /\ Rank(s, announced[i]) = i - 1
  BY DEF Announced
<1>5. /\ From(s, nthreads) \in Seq(s) /\ Len(From(s, nthreads)) = Cardinality(s) - nthreads
      /\ \A i \in 1..(Cardinality(s) - nthreads) :
           Rank(s, From(s, nthreads)[i]) = nthreads + i - 1
  BY <1>1, <1>4, FromRest
<1> DEFINE r == From(s, nthreads)
<1>6. /\ r \in Seq(Threads) /\ \A i \in 1..Len(r) : r[i] \in s
      /\ \A i \in 1..(Cardinality(s) - nthreads) : Rank(s, r[i]) = nthreads + i - 1
  <2>1. /\ r \in Seq(s) /\ s \subseteq Threads
        /\ \A i \in 1..(Cardinality(s) - nthreads) : Rank(s, r[i]) = nthreads + i - 1
    BY <1>1, <1>5
  <2> HIDE DEF r, s
  <2>2. Len(r) \in Nat /\ r \in [1..Len(r) -> s]
    BY <2>1
  <2>3. r \in [1..Len(r) -> Threads]
    BY <2>1, <2>2
  <2>4. r \in Seq(Threads)
    BY <2>2, <2>3
  <2> QED BY <2>1, <2>2, <2>4
<1> HIDE DEF s
<1>7. /\ announced' \in Seq(Threads) /\ Len(announced') = Cardinality(s)
      /\ \A i \in 1..nthreads : announced'[i] = announced[i]
      /\ \A i \in (nthreads + 1)..Cardinality(s) : announced'[i] = r[i - nthreads]
  <2>1. r \in Seq(Threads) /\ Len(r) = Cardinality(s) - nthreads /\ announced' = announced \o r
    BY <1>3, <1>5, <1>6
  <2> HIDE DEF r
  <2> QED BY <1>1, <1>4, <2>1
<1>8. ASSUME NEW i \in 1..nthreads' PROVE announced'[i] \in s /\ Rank(s, announced'[i]) = i - 1
  <2>1. CASE i \in 1..nthreads
    BY <1>4, <1>7, <2>1
  <2>2. CASE i \in (nthreads + 1)..Cardinality(s)
    <3> DEFINE j == i - nthreads
    <3>1. j \in 1..(Cardinality(s) - nthreads) /\ nthreads + j - 1 = i - 1
      BY <1>1, <2>2
    <3>2. announced'[i] = r[j]
      BY <1>7, <2>2
    <3> HIDE DEF j, r
    <3>3. Len(r) = Cardinality(s) - nthreads
      BY <1>5 DEF r
    <3>4. r[j] \in s /\ Rank(s, r[j]) = nthreads + j - 1
      BY <1>6, <3>1, <3>3
    <3> QED BY <3>1, <3>2, <3>4
  <2>3. i \in 1..nthreads \/ i \in (nthreads + 1)..Cardinality(s)
    <3>1. nthreads' = Cardinality(s)
      BY <1>3
    <3> QED BY <1>1, <3>1
  <2> QED BY <2>1, <2>2, <2>3
<1>9. pc'[Worker] # "walk"
  BY <1>1, <1>3 DEF TypeOK, Threads
<1>10. DOMAIN threads' = s /\ nthreads' <= Cardinality(s)
  BY <1>1, <1>3 DEF s
<1> QED BY <1>3, <1>7, <1>8, <1>9, <1>10 DEF Announced

LEMMA AnnouncedStep == AnnInv /\ [Next]_vars => AnnInv'
<1> SUFFICES ASSUME AnnInv, [Next]_vars, orderly' PROVE Announced'
  BY TypeStep, RestStep DEF AnnInv, IInv
<1>1. /\ IInv /\ IInv' /\ TypeOK /\ Worker \in Threads
      /\ pc \in [Threads -> {"off", "run", "rest", "call", "held", "lookup", "begin",
                         "report", "test", "store", "scan", "walk"}]
  BY TypeStep, RestStep DEF AnnInv, IInv, TypeOK, Threads
<1>2. ASSUME NEW t \in Threads, StoreAdd(t) PROVE Announced'
  BY <1>1, <1>2, AnnouncedStore DEF AnnInv, StoreAdd
<1>3. CASE WalkEnd
  BY <1>1, <1>3, AnnouncedWalk DEF AnnInv, WalkEnd
<1>4. CASE WalkBegin
  BY <1>1, <1>4 DEF AnnInv, WalkBegin, Announced
<1>5. ASSUME NEW t \in Threads,
             \/ EnterNested(t) \/ EnterCounted(t) \/ EnterFirst(t)
             \/ Take(t) \/ TryFails(t) \/ Lookup(t)
             \/ AppCall(t) \/ AppUnlock(t) \/ Spawn(t) \/ Exit(t)
             \/ CallAdd(t) \/ TestAdd(t)
      PROVE  Announced'
  <2>1. UNCHANGED <<announced, nthreads, view, threads, orderly>>
    BY <1>5 DEF EnterNested, EnterCounted, EnterFirst, Take, TryFails, Lookup, AppCall,
                AppUnlock, Spawn, Exit, CallAdd, TestAdd, logging
  <2>2. pc'[Worker] = "walk" => pc[Worker] = "walk"
    <3>1. CASE Take(t)
      <4>1. Top(t).m \in Mutexes
        BY <1>1, <3>1, StackTop DEF Take, InCall, Frame
      <4>2. Granted[Top(t).m] # "walk"
        BY <4>1 DEF Granted, Mutexes
      <4> QED BY <1>1, <3>1, <4>2 DEF Take
    <3>2. CASE ~Take(t)
      BY <1>1, <1>5, <3>2 DEF EnterNested, EnterCounted, EnterFirst, TryFails, Lookup, AppCall,
                  AppUnlock, Spawn, Exit, CallAdd, TestAdd, Enter
    <3> QED BY <3>1, <3>2
  <2> QED BY <2>1, <2>2, AnnouncedElsewhere DEF AnnInv
<1>6. CASE StartScan \/ NextThread
  <2>1. UNCHANGED <<announced, nthreads, view, threads, orderly>>
    BY <1>6 DEF StartScan, NextThread, logging
  <2>2. pc'[Worker] # "walk"
    BY <1>1, <1>6 DEF StartScan, NextThread, Enter
  <2> QED BY <2>1, <2>2, AnnouncedElsewhere DEF AnnInv
<1>7. CASE UNCHANGED vars
  BY <1>7, AnnouncedElsewhere DEF AnnInv, vars
<1> QED
  BY <1>2, <1>3, <1>4, <1>5, <1>6, <1>7 DEF Next, Quiet

LEMMA AnnouncedInit == Init => AnnInv
<1> SUFFICES ASSUME Init PROVE Announced
  BY TypeInit, RestInit DEF AnnInv, IInv
<1>1. announced = <<>> /\ nthreads = 0 /\ pc[Worker] # "walk"
  BY ThreadRegistryAssumption DEF Init, Threads
<1>2. Cardinality(DOMAIN threads) \in Nat
  BY TypeInit, ThreadIds
<1> QED BY <1>1, <1>2 DEF Announced

\* As long as ids come in ascending order and none comes during a walk, the log
\* names each thread that it counts once, in the order of the ids, for any number
\* of threads (software.h 407-425).
THEOREM ThreadsAnnouncedOnce == Spec => []AnnouncedInOrder
<1>1. AnnInv => AnnouncedInOrder
  <2> SUFFICES ASSUME AnnInv, Announced
               PROVE  /\ Len(announced) = nthreads
                      /\ \A i, j \in DOMAIN announced : i < j => announced[i] < announced[j]
    BY DEF AnnInv, AnnouncedInOrder
  <2>1. /\ announced \in Seq(Threads) /\ Len(announced) = nthreads
        /\ DOMAIN announced = 1..nthreads
        /\ \A i \in 1..nthreads : announced[i] \in DOMAIN threads
                                  /\ Rank(DOMAIN threads, announced[i]) = i - 1
    BY DEF Announced
  <2>2. DOMAIN threads \in SUBSET Nat /\ IsFiniteSet(DOMAIN threads)
    BY ThreadIds DEF AnnInv, IInv
  <2>3. ASSUME NEW i \in 1..nthreads, NEW j \in 1..nthreads, i < j
        PROVE  announced[i] < announced[j]
    <3>1. Rank(DOMAIN threads, announced[i]) < Rank(DOMAIN threads, announced[j])
      BY <2>1, <2>3
    <3> QED BY <2>1, <2>2, <3>1, RankOrders
  <2> QED BY <2>1, <2>3
<1> QED
  BY AnnouncedInit, AnnouncedStep, <1>1, PTL DEF Spec

=============================================================================
