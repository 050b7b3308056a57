------------------------------- MODULE Reports -------------------------------
(***************************************************************************)
(* The arithmetic of the CSV rows and of the final report: what is made of *)
(* the counters that were sampled. Counters are unsigned and wrap at Word. *)
(***************************************************************************)
EXTENDS Integers, Sequences, SequencesExt, FiniteSetsExt, Functions

CONSTANT Word

\* The columns of a line of /proc/stat, which is a function from them to ticks.
Columns == {"user", "nice", "system", "idle", "iowait", "irq", "softirq", "steal",
            "guest", "guest_nice"}
\* Parts of the time of a CPU that do not overlap.
Parts == {"user", "nice", "system_all", "idle_all", "steal", "virt_all_time"}

\* atol() into an unsigned.
AsUnsigned(n) == n % Word

\* Mutant: the time that was stolen is not part of the total.
Whole_NoSteal(f) ==
  AsUnsigned(f.user + f.nice) + f.system_all + f.idle_all + f.virt_all_time
\* The total is a double, which does not wrap; its first sum is of two unsigneds.
Whole(f) ==
  AsUnsigned(f.user + f.nice) + f.system_all + f.idle_all + f.steal + f.virt_all_time

\* One CPU: a guest's time is in the user's time as well, and is taken out.
parseProcStat(ticks) ==
  LET v == [c \in Columns |-> AsUnsigned(ticks[c])]
      f == [user          |-> AsUnsigned(v["user"] - v["guest"]),
            nice          |-> AsUnsigned(v["nice"] - v["guest_nice"]),
            system_all    |-> AsUnsigned(v["system"] + v["irq"] + v["softirq"]),
            idle_all      |-> AsUnsigned(v["idle"] + v["iowait"]),
            steal         |-> v["steal"],
            virt_all_time |-> AsUnsigned(v["guest"] + v["guest_nice"])]
  IN  [k \in DOMAIN f \cup {"total_time"} \cup (Columns \ {"user", "nice", "steal"}) |->
         CASE k \in DOMAIN f -> f[k] [] k = "total_time" -> Whole(f) [] OTHER -> v[k]]

\* A difference of counters is never negative: one that fell counts as none.
strSub(lhs, rhs) == Max({AsUnsigned(lhs) - AsUnsigned(rhs), 0})

strPercentage(value, previous, total, previousTotal) ==
  LET all == strSub(total, previousTotal)
  IN  IF all > 0 THEN AsUnsigned(strSub(value, previous) * 100) \div all ELSE 0

\* A row of every field of a sample that has one before it.
fieldsToCSV(fields, previous) ==
  [k \in DOMAIN fields |-> strPercentage(fields[k], previous[k],
                                         fields["total_time"], previous["total_time"])]

\* The differences of a sequence of values, beginning with that of the first one
\* and itself.
Steps(values) ==
  [i \in DOMAIN values |-> strSub(values[i], values[IF i = 1 THEN 1 ELSE i - 1])]

Sum(values) == SumFunction(values)
\* An average is a sum and what it is divided by.
Average(sum, by) == [sum |-> sum, by |-> Max({1, by})]

\* Mutant: the first difference counts, too.
OverSteps_All(values) == Average(Sum(Steps(values)), Len(values))
\* There is one difference fewer than there are values.
OverSteps(values)  == Average(Sum(Steps(values)), Len(values) - 1)
OverValues(values) == Average(Sum(values), Len(values))

HWTgetFields(values)  == [shown |-> Steps(values), average |-> OverSteps(values)]
HWTgetSummary(values) == OverSteps(values)

\* Fields of a device that are shown as differences.
Cumulative == {"Energy Average (J)", "GFX Activity %", "Memory Activity %"}

GPUgetFields(name, values) ==
  IF name \in Cumulative THEN [shown |-> Steps(values), average |-> OverSteps(values)]
  ELSE [shown |-> values, average |-> OverValues(values)]

GPUgetSummary(name, values) ==
  LET f == GPUgetFields(name, values)
  IN  [min |-> Min(Range(f.shown)), average |-> f.average, max |-> Max(Range(f.shown))]

\* The values of the node are shown as they are, but the average has one too few.
NodegetFields(values) == [shown |-> values, average |-> Average(Sum(values), Len(values) - 1)]

LWPgetFields(name, values) ==
  IF name \in {"state", "processor"} THEN values ELSE Steps(values)

\* Times of a thread are averages since it began, the switches are totals.
LWPgetSummary(stat) ==
  [name \in DOMAIN stat \cap {"utime", "stime", "voluntary_ctxt_switches",
                              "nonvoluntary_ctxt_switches"} |->
     IF name \in {"utime", "stime"} THEN Average(Last(stat[name]), Len(stat[name]) - 1)
     ELSE Average(Last(stat[name]), 1)]

\* The lines of the node's summary: the process' own CPUs, then the others when
\* details are asked for.
InOrder(cpus, ncpus) ==
  FoldLeft(LAMBDA list, i : IF i - 1 \in cpus THEN Append(list, i - 1) ELSE list, <<>>,
           [i \in 1..ncpus |-> i])
NodegetSummary(ncpus, hwthreads, details) ==
  InOrder(hwthreads, ncpus) \o
  (IF details THEN InOrder((0..ncpus - 1) \ hwthreads, ncpus) ELSE <<>>)

\* /proc/meminfo: the lines whose names start with Mem, the first of each name.
parseNodeInfo(lines) ==
  LET mem == {i \in DOMAIN lines : lines[i].starts = "Mem"}
  IN  [n \in {lines[i].name : i \in mem} |->
         AsUnsigned(lines[Min({i \in mem : lines[i].name = n})].value)]

\* The heartbeat: the last value of every field that is about memory.
reportMemory(node, gpus) ==
  <<[n \in DOMAIN node |-> Last(node[n])]>> \o
  [i \in DOMAIN gpus |-> [n \in DOMAIN gpus[i] \cap {"VRAM", "TotalMem", "FreeMem"} |->
                            Last(gpus[i][n])]]

-----------------------------------------------------------------------------
(* Properties.                                                             *)

Within(average, low, high) ==
  low * average.by <= average.sum /\ average.sum <= high * average.by

\* Whatever the counters stand at, be it just before they wrap, and whatever the
\* CPU did since: no row is above 100 %, the parts of a CPU's time are not above
\* 100 % together, and each shows its share of what was spent while nothing wraps
\* (utils.cpp 294-346, hardware.h 71-113). It needs counters that do not fall; a
\* guest's time is in the user's time.
PercentagesBoundedFor(before, spent) ==
  LET after == [c \in Columns |-> before[c] + spent[c]]
      rows  == fieldsToCSV(parseProcStat(after), parseProcStat(before))
      all   == Whole(parseProcStat(spent))
  IN  /\ \A k \in DOMAIN rows : rows[k] <= 100
      /\ SumFunctionOnSet(rows, Parts) <= 100
      /\ (all > 0 /\ SumFunctionOnSet(after, Columns) < Word) =>
           \A p \in Parts : rows[p] = (parseProcStat(spent)[p] * 100) \div all

\* /proc/meminfo when so much memory is free.
Meminfo(free) == <<[starts |-> "Mem", name |-> "MemFree", value |-> free],
                   [starts |-> "Cac", name |-> "Cached", value |-> 0],
                   [starts |-> "Mem", name |-> "MemFree", value |-> 0]>>

\* Whatever was sampled, the average that a report shows lies between the least and
\* the greatest of the values it is about, in the listing and in the summary alike,
\* every sample is listed, and the differences of a counter that never falls add up
\* to what it grew by. Two averages are exceptions: those of the node, which divide
\* by one too few, and those of a thread that ran before it was first seen
\* (hardware.h 114-176, 253-338, 428-457, software.h 119-144, 207-245).
AveragesWithinFor(name, values) ==
  LET grown    == Tail(Steps(values))
      thread   == LWPgetSummary([utime |-> values, voluntary_ctxt_switches |-> values])
      device   == GPUgetSummary(name, values)
      rises    == \A i \in 1..Len(values) - 1 : values[i] <= values[i + 1]
  IN  /\ grown # <<>> => Within(HWTgetSummary(values), Min(Range(grown)), Max(Range(grown)))
      /\ (grown # <<>> /\ rises /\ values[1] = 0) =>
           Within(thread.utime, Min(Range(grown)), Max(Range(grown)))
      /\ thread.voluntary_ctxt_switches = Average(Last(values), 1)
      /\ Within(device.average, device.min, device.max)
      /\ device.average = GPUgetFields(name, values).average
      /\ \A f \in {HWTgetFields(values), GPUgetFields(name, values), NodegetFields(values)} :
           Len(f.shown) = Len(values)
      /\ rises => HWTgetSummary(values).sum = Last(values) - values[1]
      /\ Len(LWPgetFields(name, values)) = Len(values)

\* The heartbeat shows the newest sample of a node and of its devices, and the
\* details have a line for each CPU (hardware.h 339-378, 527-585).
ListingsWholeFor(values) ==
  LET node == [MemFree |-> [i \in DOMAIN values |-> parseNodeInfo(Meminfo(values[i])).MemFree]]
  IN  /\ reportMemory(node, <<[VRAM |-> values, other |-> <<>>]>>) =
           <<[MemFree |-> Last(values)], [VRAM |-> Last(values)]>>
      /\ \A own \in SUBSET Range(values) :
           LET lines == NodegetSummary(4, own, TRUE)
           IN  Len(lines) = 4 /\ ToSet(lines) = 0..3

AveragesInRangeFor(name, values) == AveragesWithinFor(name, values) /\ ListingsWholeFor(values)
=============================================================================
