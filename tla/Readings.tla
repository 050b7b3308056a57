------------------------------ MODULE Readings ------------------------------
(***************************************************************************)
(* What ZeroSum makes of what it reads, whatever that is. The power        *)
(* counters are read while their controller writes them (PowerCounters);   *)
(* all else is read at once: a behaviour that picks an input goes no       *)
(* further, and the properties state what is made of it (Placement, Ranks, *)
(* Reports, Devices, Stacks). What is made of trees is stated next to      *)
(* MCReadings' constants, since Topology is recursive.                     *)
(***************************************************************************)
EXTENDS PowerCounters, Reports

CONSTANTS
  Placements,   \* a process' CPUs, ZS_ASYNC_CORE, the entries of /proc
  Launches,     \* a launcher, the size of a run, the processes per node
  Ticks,        \* what a CPU's counters were, and what it spent since
  Samples,      \* a device's field, and its values
  Visibilities, \* a node's GPUs, the two variables that hide some, two polls
  Calls,        \* what gdb names in the frames of a stack
  Dumps,        \* the files that gdb wrote, one of each rank
  Machines,     \* the tree of a node, which of its units are the process'
  Jobs          \* the trees that nodes wrote, the rows of CPUs and of GPUs

Pl  == INSTANCE Placement
Rk  == INSTANCE Ranks
Dev == INSTANCE Devices
St  == INSTANCE Stacks

\* What an int of the code can hold.
IntMax == 2147483647

\* The kernel gives a process some CPUs; a variable is not set or has a value.
PlacementsAssumption ==
  \A p \in Placements :
    /\ p[1] \subseteq Nat /\ IsFiniteSet(p[1]) /\ p[1] # {}
    /\ p[2] \in Seq(Int) /\ \A e \in p[3] : e.pid \in Nat

\* Where the size is a product of two variables, all nodes have as many processes.
Launchers == Rk!Telling \cup {"alps", "pbs"}
LaunchesAssumption ==
  \A l \in Launches :
    /\ l[1] \in Launchers /\ l[2] \in 1..IntMax /\ l[3] \in Nat \ {0}
    /\ l[1] \in {"nodes", "torque"} => l[2] % l[3] = 0

\* All of the time of a CPU, a guest's counted as the user's.
Elapsed(t) == t["user"] + t["nice"] + t["system"] + t["irq"] + t["softirq"] + t["idle"]
              + t["iowait"] + t["steal"]

\* Counters do not fall, a guest's time is in the user's, and a hundred times what is
\* spent between two samples fits into a word.
TicksAssumption ==
  \A t \in Ticks :
    /\ \A i \in 1..2 : /\ t[i] \in [Columns -> Nat]
                        /\ t[i]["guest"] <= t[i]["user"]
                        /\ t[i]["guest_nice"] <= t[i]["nice"]
    /\ 100 * Elapsed(t[2]) < Word

\* A summary is of at least one sample.
SamplesAssumption ==
  \A s \in Samples : s[2] \in Seq(0..(Word - 1)) /\ s[2] # <<>>

\* A variable names devices, none of them twice, or is not set.
Names(v, m) == /\ v \in [set : BOOLEAN, list : Seq(0..(m - 1))]
               /\ v.set \/ v.list = <<>>
ListsOnce(list, m) == /\ list \in Seq(0..(m - 1))
                      /\ \A i, j \in DOMAIN list : list[i] = list[j] => i = j

\* A device has the same engines in both polls, one of each label, and has been polled
\* again after less than a word of ticks.
Later(e, f) == /\ Dev!Label(e) = Dev!Label(f)
               /\ f.stamp - e.stamp \in 1..(Word - 1)
               /\ f.active - e.active \in 0..(Word - 1)
Engine == [type : STRING, part : Int, active : Nat, stamp : Nat]
PollsAssumption(first, second) ==
  /\ first \in Seq(Seq(Engine)) /\ second \in Seq(Seq(Engine))
  /\ Len(first) = Len(second)
  /\ \A d \in DOMAIN first :
       /\ Len(first[d]) = Len(second[d])
       /\ \A k \in DOMAIN first[d] : Later(first[d][k], second[d][k])
       /\ \A k, l \in DOMAIN first[d] :
            Dev!Label(first[d][k]) = Dev!Label(first[d][l]) => k = l
VisibilitiesAssumption ==
  \A v \in Visibilities :
    /\ v[1] \in Nat /\ Names(v[2], v[1])
    /\ Names(v[3], Len(Dev!initialize(v[1], v[2])))
    /\ ListsOnce(v[3].list, Len(Dev!initialize(v[1], v[2])))
    /\ PollsAssumption(v[4], v[5])

DumpsAssumption ==
  \A d \in Dumps : d \in Seq(Seq(St!Lines(Calls)))

ASSUME ReadingsAssumption ==
  /\ Word \in Nat \ {0}
  /\ PlacementsAssumption /\ LaunchesAssumption /\ TicksAssumption
  /\ SamplesAssumption /\ VisibilitiesAssumption /\ DumpsAssumption

VARIABLES about, input

vars == <<power, about, input>>

Init == PowerInit /\ about = "power" /\ input = <<>>

RunPower == about = "power" /\ PowerNext /\ UNCHANGED <<about, input>>

Pick(topic, inputs) ==
  /\ about = "power" /\ reading = "new" /\ todo = Counters /\ fresh = 1
  /\ about' = topic /\ input' \in inputs
  /\ UNCHANGED power

Picked == about # "power" /\ UNCHANGED vars

Next ==
  \/ RunPower
  \/ Pick("placement", Placements)
  \/ Pick("launch", Launches)
  \/ Pick("ticks", Ticks)
  \/ Pick("samples", Samples)
  \/ Pick("gpus", Visibilities)
  \/ Pick("dumps", Dumps)
  \/ Pick("machine", Machines)
  \/ Pick("job", Jobs)
  \/ Picked

Spec == Init /\ [][Next]_vars

-----------------------------------------------------------------------------
(* Properties: what the modules of operators state, for each input.        *)

\* Placement: the worker stays inside the CPUs of its process (zerosum.cpp 86).
WorkerPlaced ==
  about = "placement" => Pl!WorkerPlacedFor(input[1], input[2], input[3])

\* Ranks: the logs of a run differ, and sort where rank and size are known
\* (utils.cpp 464-485).
FileNamesSorted ==
  about = "launch" => Rk!FileNamesSortedFor(input[1], input[2], input[3])

\* Reports: rows of a CPU's time stay within 100 % (hardware.h 71-81).
PercentagesBounded == about = "ticks" => PercentagesBoundedFor(input[1], input[2])

\* Reports: averages lie among the values they are about (hardware.h 154-176).
AveragesInRange == about = "samples" => AveragesInRangeFor(input[1], input[2])

\* Devices: the rows of a GPU are about that GPU (hardware.h 417-421).
DevicesAligned ==
  about = "gpus" => Dev!DevicesAlignedFor(input[1], input[2], input[3], input[4], input[5])

\* Devices: shares are taken between two snapshots of the same engine, says the comment
\* at sycl.cpp 201-203.
SharesAsDocumented ==
  about = "gpus" => Dev!SharesAsDocumentedFor(input[4], input[5])

\* Devices: "If HIP_VISIBLE_DEVICES is set, capture visible GPUs", say the comments at
\* rocmsmi.cpp 49 and zerosum_hip.cpp 50; the rows would be the GPU's whatever hides
\* the others.
GpusAlignedAsDocumented ==
  about = "gpus" => Dev!RowsAreOwnFor(input[1], input[2], input[3])

\* Stacks: the graph has each call of the first threads' stacks, the number of ranks that
\* went through it, and a label that is true up to where it is cut (trees.py 89-192).
StacksMerged == about = "dumps" => St!StacksMergedFor(input)
=============================================================================
