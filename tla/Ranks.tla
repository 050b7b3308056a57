-------------------------------- MODULE Ranks --------------------------------
(***************************************************************************)
(* Which rank a process has in its run, from the variables that launchers  *)
(* leave in the environment, and the name of the log it writes. An         *)
(* environment is a function from the names of the variables that are set  *)
(* to their values.                                                        *)
(***************************************************************************)
EXTENDS Integers, Sequences, SequencesExt, FiniteSetsExt

\* The first of the names that is set.
FirstSet(names, env, default) ==
  LET found == {i \in DOMAIN names : names[i] \in DOMAIN env}
  IN  IF found = {} THEN default ELSE env[names[Min(found)]]

\* The rank of a process on its node.
test_for_MPI_local_rank(env, commrank) ==
  FirstSet(<<"PMI_LOCAL_RANK", "PALS_LOCAL_RANKID", "OMPI_COMM_WORLD_LOCAL_RANK",
             "SLURM_LOCALID">>, env, commrank)

\* PBS_O_TASKNUM counts from one, and is reduced; so does PBS_TASKNUM, which is not.
FromOne(env) ==
  [n \in DOMAIN env |-> IF n = "PBS_O_TASKNUM" THEN env[n] - 1 ELSE env[n]]

\* Mutant: what the batch system says comes before what the launcher says.
test_for_MPI_comm_rank_BatchFirst(env, commrank) ==
  FirstSet(<<"PMI_RANK", "ALPS_APP_PE", "PALS_RANKID", "CRAY_PMI_RANK", "SLURM_PROCID",
             "OMPI_COMM_WORLD_RANK", "PBS_TASKNUM", "PBS_O_TASKNUM">>, FromOne(env), commrank)

\* The rank of a process in the run.
test_for_MPI_comm_rank(env, commrank) ==
  FirstSet(<<"PMI_RANK", "ALPS_APP_PE", "PALS_RANKID", "CRAY_PMI_RANK",
             "OMPI_COMM_WORLD_RANK", "PBS_TASKNUM", "PBS_O_TASKNUM", "SLURM_PROCID">>,
           FromOne(env), commrank)

\* The product of two variables, when both are set, goes by the name of the first.
Times(env, nodes, each) ==
  IF {nodes, each} \subseteq DOMAIN env THEN [env EXCEPT ![nodes] = @ * env[each]]
  ELSE [n \in DOMAIN env \ {nodes} |-> env[n]]

\* The number of processes of the run.
test_for_MPI_comm_size(env, commsize) ==
  FirstSet(<<"PMI_SIZE", "CRAY_PMI_SIZE", "PALS_SIZE", "OMPI_COMM_WORLD_SIZE", "PBS_NP",
             "PBS_NUM_NODES", "SLURM_NPROCS", "SLURM_NTASKS", "SLURM_JOB_NUM_NODES">>,
           Times(Times(env, "PBS_NUM_NODES", "PBS_NUM_PPN"),
                 "SLURM_JOB_NUM_NODES", "SLURM_TASKS_PER_NODE"), commsize)

getMPIinfo(env) == [rank |-> test_for_MPI_comm_rank(env, 0),
                    size |-> test_for_MPI_comm_size(env, 1)]

\* What a digit is worth, from the last one on; an int has ten at most.
Worth == <<1, 10, 100, 1000, 10000, 100000, 1000000, 10000000, 100000000, 1000000000>>

\* The decimal digits of a number, at least so many of them.
Width(n) == Max({k \in 1..10 : k = 1 \/ n >= Worth[k]})
Padded(n, len) ==
  LET w == Max({len, Width(n)}) IN [i \in 1..w |-> (n \div Worth[w - i + 1]) % 10]

\* The part of a log's name that differs between processes: the rank, with as many
\* zeros as needed to sort correctly, or the host and the id of the process.
getUniqueFilename(info, usePid, host, pid, maxPid) ==
  IF usePid THEN <<host>> \o Padded(pid, Width(maxPid))
  ELSE Padded(info.rank, Width(info.size - 1))

openLog(env) == getUniqueFilename(getMPIinfo(env), FALSE, 0, 0, 0)

\* The launcher script: the last variable that is set counts, as it is, and
\* gives the number of the debugger's log.
ScriptRank(env) ==
  FirstSet(Reverse(<<"PMI_RANK", "ALPS_APP_PE", "CRAY_PMI_RANK", "OMPI_COMM_WORLD_RANK",
                     "PBS_TASKNUM", "PBS_O_TASKNUM", "SLURM_PROCID", "PMIX_RANK">>), env, 0)

\* What launchers set for process r of size, perNode of them on a node; mpirun in a
\* job of SLURM finds the variables of the job's step, the same for all processes.
Launched(by, size, perNode, r) ==
  CASE by = "pmi"    -> [PMI_RANK |-> r, PMI_SIZE |-> size, PMI_LOCAL_RANK |-> r % perNode]
    [] by = "pals"   -> [PALS_RANKID |-> r, PALS_SIZE |-> size,
                         PALS_LOCAL_RANKID |-> r % perNode, PMI_RANK |-> r]
    [] by = "slurm"  -> [SLURM_PROCID |-> r, SLURM_NTASKS |-> size,
                         SLURM_LOCALID |-> r % perNode, PMIX_RANK |-> r]
    [] by = "nodes"  -> [SLURM_PROCID |-> r, SLURM_LOCALID |-> r % perNode,
                         SLURM_JOB_NUM_NODES |-> size \div perNode,
                         SLURM_TASKS_PER_NODE |-> perNode]
    [] by = "torque" -> [PBS_O_TASKNUM |-> r + 1, PBS_NUM_NODES |-> size \div perNode,
                         PBS_NUM_PPN |-> perNode]
    [] by = "cray"   -> [CRAY_PMI_RANK |-> r, CRAY_PMI_SIZE |-> size]
    [] by = "alps"   -> [ALPS_APP_PE |-> r]
    [] by = "pbs"    -> [PBS_TASKNUM |-> r + 1, PBS_NP |-> size]
    [] by = "mpirun" -> [OMPI_COMM_WORLD_RANK |-> r, OMPI_COMM_WORLD_SIZE |-> size,
                         OMPI_COMM_WORLD_LOCAL_RANK |-> r % perNode, PMIX_RANK |-> r,
                         SLURM_PROCID |-> 0, SLURM_LOCALID |-> 0, SLURM_NTASKS |-> 1]

Before(s, t) == \E i \in DOMAIN s : /\ SubSeq(s, 1, i - 1) = SubSeq(t, 1, i - 1)
                                    /\ i \in DOMAIN t /\ s[i] < t[i]

\* The log's name of a process that knows its rank and the size.
LogName(size, r) == getUniqueFilename([rank |-> r, size |-> size], FALSE, 0, 0, 0)

\* ALPS tells no size, and of PBS' two numbers that count from one only one is
\* reduced: with these, the code knows neither.
Telling == {"pmi", "pals", "slurm", "nodes", "torque", "cray", "mpirun"}

\* A process finds its rank, the size, and its rank on the node if that is told.
RankFoundFor(by, size, perNode, r) ==
  LET env == Launched(by, size, perNode, r)
  IN  /\ getMPIinfo(env) = [rank |-> r, size |-> size] /\ openLog(env) = LogName(size, r)
      /\ (by \notin {"torque", "cray"}) => (test_for_MPI_local_rank(env, r) = r % perNode)

\* The script, which takes what it finds last, gives the debugger's log the number
\* that ZeroSum takes for the rank, but for PBS_O_TASKNUM, which it does not reduce.
SameNumberFor(by, size, perNode, r) ==
  LET env == Launched(by, size, perNode, r)
  IN  (by # "torque") => (ScriptRank(env) = getMPIinfo(env).rank)

\* No two processes write to the same log.
LogsDifferFor(by, size, perNode) ==
  LET log(r) == openLog(Launched(by, size, perNode, r))
  IN  \A r, s \in 0..size - 1 : r # s => log(r) # log(s)

\* Names that are made of ranks, or of ids, sort as these do. Ranks have equally long
\* ones.
NamesSortedFor(size) ==
  LET named(p) == getUniqueFilename(<<>>, TRUE, 7, p, size)
  IN  /\ \A r \in 1..size - 1 : /\ Before(LogName(size, r - 1), LogName(size, r))
                               /\ Len(LogName(size, r - 1)) = Len(LogName(size, r))
      /\ \A p \in 1..size - 1 : Before(named(p), named(p + 1))

\* Whichever of the variables that the code knows a launcher sets, and whatever a
\* batch system left in the environment, no two processes of a run write to the same
\* log, and the debugger's log has the number of the process' own. Where rank and
\* size are told, and the rank from zero, each process knows both, and the names sort
\* as the ranks do; names that go by ids sort, too (utils.cpp 464-650, zerosum 250-277).
FileNamesSortedFor(by, size, perNode) ==
  /\ LogsDifferFor(by, size, perNode)
  /\ \A r \in 0..size - 1 : SameNumberFor(by, size, perNode, r)
  /\ by \in Telling => /\ \A r \in 0..size - 1 : RankFoundFor(by, size, perNode, r)
                       /\ NamesSortedFor(size)
=============================================================================
