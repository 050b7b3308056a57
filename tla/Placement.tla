------------------------------ MODULE Placement ------------------------------
(***************************************************************************)
(* Which CPUs a process may use, as the kernel writes them and ZeroSum     *)
(* reads them; where the worker is put; which other processes share them.  *)
(***************************************************************************)
EXTENDS Integers, Sequences, SequencesExt, FiniteSetsExt

\* A list of CPUs such as 0-2,5 is a sequence of <<first, last>> and <<cpu>>.
Span(token) ==
  IF Len(token) = 2 THEN [i \in 1..(token[2] - token[1] + 1) |-> token[1] + i - 1]
  ELSE token

\* Mutant: the end of a span is left out.
parseDiscreteValues_Open(tokens) ==
  FlattenSeq([i \in DOMAIN tokens |->
                IF Len(tokens[i]) = 2 THEN Front(Span(tokens[i])) ELSE tokens[i]])

\* The tokens before the last comma, and the one after it.
parseDiscreteValues(tokens) == FlattenSeq([i \in DOMAIN tokens |-> Span(tokens[i])])

\* A status file is a sequence of lines; one that cannot be opened has none.
Gone == <<>>
Line(k, v) == [key |-> k, value |-> v]

\* The last such line counts.
getCpusAllowed(file) ==
  LET hits == {i \in DOMAIN file : file[i].key = "Cpus_allowed_list"}
  IN  IF hits = {} THEN <<>> ELSE file[Max(hits)].value

allowed(file) == ToSet(parseDiscreteValues(getCpusAllowed(file)))

\* A variable of the environment is a sequence: empty, or with its value in it.
NotSet == <<>>

\* atoi(); negative values are not taken.
parseInt(env, default) ==
  IF env # NotSet /\ Last(env) >= 0 THEN Last(env) ELSE default

getMaxHWT(hwthreads) == Max(hwthreads)

\* The calling thread's CPUs afterwards: a core it may not use changes nothing.
setThreadAffinity(core, mask) == IF core \in mask THEN {core} ELSE mask

\* threadedFunction() begins: ZS_ASYNC_CORE, or the last one of the process.
WorkerMask(env, status, mask) ==
  setThreadAffinity(parseInt(env, getMaxHWT(allowed(status))), mask)

\* The CPUs of a thread, as far as the node is known to have them.
AddIfSet(list, cpu, mask) == IF cpu \in mask THEN Append(list, cpu) ELSE list
getAffinityList(mask, ncpus) ==
  FoldLeft(LAMBDA list, i : AddIfSet(list, i - 1, mask), <<>>, [i \in 1..ncpus |-> i])

\* Entries of /proc: those with a number for a name (0: none), our own left out.
getOtherProcesses(entries, self, hwthreads) ==
  {e \in entries : /\ e.pid > 0 /\ e.pid # self
                   /\ \E c \in allowed(e.status) : c \in hwthreads}

-----------------------------------------------------------------------------
(* How the kernel writes a set of CPUs: maximal spans, in order.           *)

\* The numbers of a set, from the least one on.
Ordered(S) ==
  [i \in 1..Cardinality(S) |-> CHOOSE c \in S : Cardinality({d \in S : d < c}) = i - 1]

\* Where the span that a number is in ends.
EndOf(c, S) == Min({d \in S : d >= c /\ d + 1 \notin S})

KernelList(S) ==
  LET from == Ordered({c \in S : c - 1 \notin S})
  IN  [i \in DOMAIN from |-> IF EndOf(from[i], S) = from[i] THEN <<from[i]>>
                             ELSE <<from[i], EndOf(from[i], S)>>]

Status(S) == <<Line("Cpus_allowed", <<>>), Line("Cpus_allowed_list", KernelList(S)),
               Line("Mems_allowed_list", <<<<0>>>>)>>

\* Whatever the kernel allows a process, the worker ends up inside of it: on the
\* core asked for if it is one of them, on the last one if none is asked for, and
\* anywhere else never; and exactly the living processes that share a CPU with it
\* are found (utils.cpp 42-112, 391-417, software.h 303-306, zerosum.cpp 86,
\* zerosum_process.cpp 49-87).
WorkerPlacedFor(S, env, entries) ==
  LET mask  == WorkerMask(env, Status(S), S)
      found == getOtherProcesses(entries, 1, allowed(Status(S)))
  IN  /\ parseDiscreteValues(KernelList(S)) = Ordered(S)
      /\ mask = IF env = NotSet \/ Last(env) < 0 THEN {Max(S)}
                ELSE IF Last(env) \in S THEN {Last(env)} ELSE S
      /\ getAffinityList(mask, Max(S) + 1) = Ordered(mask)
      /\ found = {e \in entries : e.pid \notin {0, 1} /\ allowed(e.status) \cap S # {}}
=============================================================================
