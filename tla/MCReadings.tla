----------------------------- MODULE MCReadings -----------------------------
(***************************************************************************)
(* The values of the constants of Readings, and what Topology states of    *)
(* the last two. PowerCounters runs with one counter of each kind and room *)
(* for ten files, which is four scans; the controller updates the files    *)
(* twice, at any point of them.                                            *)
(***************************************************************************)
EXTENDS Readings

Tp == INSTANCE Topology

CONSTANTS energy, power_w
MCEnergies == {energy}
MCGauges   == {power_w}

MCWord == 2048

\* Masks of up to six CPUs, with holes; entries of /proc that are not numbers, our
\* own process, one that is gone, and one that shares a CPU or does not.
Entry(p, s) == [pid |-> p, status |-> s]
Masks  == (SUBSET (0..5)) \ {{}}
Envs   == {Pl!NotSet, <<-1>>, <<0>>, <<3>>, <<5>>}
MCPlacements ==
  {<<m, e, {Entry(0, Pl!Gone), Entry(1, Pl!Status(m)), Entry(7, Pl!Status(o)),
            Entry(8, Pl!Gone), Entry(9, Pl!Status({5}))}>> :
     m \in Masks, e \in Envs, o \in {{0}, {1, 2}, {0, 2, 4}}}

MCLaunches == Launchers \X {2, 10, 12, 100, 102} \X {2}

\* Counters at zero, and just before the ones of a part or of the total wrap.
Zero == [c \in Columns |-> 0]
Befores ==
  {Zero} \cup {[Zero EXCEPT !["idle"] = Word - n - 400, !["user"] = 401, !["guest"] = g] :
                 n \in 1..4, g \in {0, 100}}
         \cup {[Zero EXCEPT !["user"] = Word - n, !["guest"] = Word - m] :
                 n \in 1..3, m \in 3..4}
         \cup {[Zero EXCEPT !["idle"] = Word - n, !["steal"] = Word - n - 1] : n \in 1..3}
Busy  == {"user", "guest", "nice", "idle", "iowait", "steal", "softirq"}
Spent ==
  {[c \in Columns |-> IF c \in Busy THEN t[c] ELSE 0] :
     t \in {f \in [Busy -> 0..1] : f["guest"] <= f["user"]}}
  \cup {[Zero EXCEPT !["user"] = u, !["steal"] = s, !["guest"] = g] :
          u \in 2..3, s \in 0..3, g \in 0..2}

MCTicks == Befores \X Spent

MCSamples == {"GFX Activity %", "state", "Temperature (C)"}
             \X UNION {[1..n -> 0..3] : n \in 1..4}

\* Lines of up to four files, with frames of other threads and lines that end the first
\* one's or stop the tool; and of runs whose odd ranks are elsewhere than the even ones,
\* or the first few than the rest: the text of their labels is cut, or just not.
Gdb == {<<St!Frame("f"), St!Header, St!Frame("g"), St!Frame("main"), St!Other, St!Frame("x")>>,
        <<St!Header, St!Frame("main")>>, <<St!Header, St!Frame("h"), St!Frame("g"), St!Frame("main")>>,
        <<St!Header, St!Frame("g"), St!Frame("g"), St!Frame("main"), St!Header, St!Other>>,
        <<St!Other, St!Empty>>, <<St!Header, St!Frame("g"), St!Other, St!Empty, St!Frame("main")>>,
        <<St!Header, St!Frame("g"), St!Frame("main"), St!Empty>>}
In(calls) == <<St!Header>> \o calls \o <<St!Other, St!Empty>>
Run(n, here) ==
  [i \in 1..n |-> In(IF here[i] THEN <<St!Frame("g"), St!Frame("main")>>
                     ELSE <<St!Frame("h"), St!Frame("main")>>)]
MCCalls == {"f", "g", "h", "main", "x"}
MCDumps == UNION {[1..n -> Gdb] : n \in 1..4}
           \cup {Run(n, [i \in 1..n |-> i % 2 = 0]) : n \in {8, 16, 17, 18, 19, 34, 36}}
           \cup {Run(n, [i \in 1..n |-> i % 3 = 0]) : n \in {12, 24, 30}}
           \cup {Run(n, [i \in 1..n |-> i > 10]) : n \in {12, 110}}

\* Three GPUs, any of which are visible in any order, or none; HIP's own variable; one
\* or two devices with engines, polled twice. A second device has the labels of the
\* first, or one of its own.
Orders == {Dev!NotSet} \cup
          {Dev!Names(l) : l \in {<<>>, <<0>>, <<1>>, <<2>>, <<0, 1>>, <<1, 0>>, <<2, 0>>, <<2, 0, 1>>}}
Again  == {Dev!NotSet} \cup {Dev!Names(l) : l \in {<<>>, <<0>>, <<1>>, <<1, 0>>}}
Snapshot(t, p, a, s) == [type |-> t, part |-> p, active |-> a, stamp |-> s]
Device(a, s) ==
  <<Snapshot("all", 0, a, s), Snapshot("media", 0, a, s), Snapshot("all", 1, 2 * a, s)>>
Polls == {<<<<Device(1, 4)>>, <<Device(a, s)>>>> : a \in 1..3, s \in 5..8}
         \cup {<<<<Device(1, 4), Device(2, 9)>>, <<Device(2, 6), Device(3, 12)>>>>,
               <<<<Device(1, 4), <<Snapshot("copy", 0, 2, 9), Snapshot("all", 0, 3, 9)>>>>,
                 <<Device(2, 6), <<Snapshot("copy", 0, 4, 12), Snapshot("all", 0, 5, 12)>>>>>>}
Possible(v, w) ==
  \A i \in DOMAIN w.list : w.list[i] < (IF v.set THEN Len(v.list) ELSE 3)
MCVisibilities ==
  {<<3, v[1], v[2], p[1], p[2]>> : v \in {x \in Orders \X Again : Possible(x[1], x[2])},
                                  p \in Polls}

\* Machines of one or two cores with one or two units, whose operating system counts
\* the units from zero or twelve and the first units of the cores first; the L3 is
\* shared or not there, memory is at it or not, and GPUs are at the package.
Obj(t, os, l, ch) == [type |-> t, os |-> os, logical |-> l, detail |-> <<>>,
                      memory |-> <<>>, children |-> ch, io |-> <<>>, misc |-> <<>>]
A == <<"a">>
B == <<"b">>
Pci(a)     == [Obj("PCIDev", -1, 0, <<>>) EXCEPT !.detail = a]
Bridge(as) == IF as = <<>> THEN <<>> ELSE <<Obj("Bridge", -1, 0, [i \in DOMAIN as |-> Pci(as[i])])>>
Unit(from, cores, units, c, u) ==
  Obj("PU", from + c - 1 + (u - 1) * cores, (c - 1) * units + u - 1, <<>>)
L1(from, cores, units, c) ==
  Obj("L1", -1, c - 1,
      <<Obj("Core", c - 1, c - 1, [u \in 1..units |-> Unit(from, cores, units, c, u)])>>)
Machine(from, cores, units, shared, numa, gpus) ==
  LET l1 == [c \in 1..cores |-> L1(from, cores, units, c)]
      l3 == [Obj("L3", -1, 0, l1) EXCEPT !.memory = IF numa THEN <<Obj("NUMANode", 0, 0, <<>>)>>
                                                   ELSE <<>>]
  IN  Obj("Machine", -1, 0,
          <<[Obj("Package", 0, 0, IF shared THEN <<l3>> ELSE l1) EXCEPT !.io = Bridge(gpus)]>>)
MCMachines ==
  {<<Machine(f, c, u, s, n, g), h>> : f \in {0, 12}, c \in 1..2, u \in 1..2,
     s \in BOOLEAN, n \in BOOLEAN, g \in {<<>>, <<A>>, <<A, B>>}, h \in {1, 2}}
MyUnits(m) == {o.os : o \in {x \in Tp!objects(m[1]) : x.type = "PU" /\ x.logical % m[2] = 0}}

\* Two hosts, whose names begin alike or not, the CPUs that ranks used on each, and
\* what they did on the GPUs: of parts of one and of two, of one that another bus has
\* the address of, of one without use, and one use too many.
Node0 == <<"node0">>
Node1 == <<"node1">>
Node10 == <<"node1", "0">>
Host(name, cores, units, gpus) ==
  Tp!buildJSON(Machine(0, cores, units, TRUE, TRUE, gpus), name, -1)
Hosts(c, u) ==
  {<<Host(Node0, c, u, <<A, B>>), Host(Node1, c, u, <<A>>)>>,
   <<Host(Node1, c, u, <<A, B>>), Host(Node10, c, u, <<A>>)>>,
   <<Host(Node0, c, u, <<A, <<"1">> \o A>>), Host(Node1, c, u, <<>>)>>}
Means(host, used) ==
  {[host |-> host, rank |-> x[1], index |-> x[2], value |-> 12 * x[1] + 60 * x[2]] : x \in used}
Cpus == {{}, {0}, 0..1, 0..3}
Shared == {0} \X (0..1) \cup {1} \X (0..3)
Gpu(host, rank, index, address) ==
  [host |-> host, rank |-> rank, index |-> index, address |-> address]
Use(host, rank, index, part, use) ==
  [host |-> host, rank |-> rank, index |-> index, part |-> part, value |-> use]
Uses(first, second) ==
  {<<<<>>, <<>>>>,
   <<<<Gpu(first, 0, 0, A)>>, <<Use(first, 0, 0, "0", 5)>>>>,
   <<<<Gpu(first, 0, 0, A), Gpu(first, 1, 0, A), Gpu(first, 1, 1, B), Gpu(second, 2, 0, A)>>,
     <<Use(first, 0, 0, "0", 5), Use(first, 1, 0, "1", 7), Use(first, 1, 1, "0", 6),
       Use(second, 2, 0, "0", 9)>>>>,
   <<<<Gpu(first, 0, 0, A), Gpu(first, 1, 0, B)>>, <<Use(first, 0, 0, "0", 5)>>>>,
   <<<<Gpu(first, 0, 0, A)>>, <<Use(first, 0, 0, "0", 5), Use(first, 0, 0, "1", 7)>>>>,
   <<<<Gpu(first, 0, 0, A)>>, <<Use(first, 0, 0, "0", 5), Use(first, 1, 0, "1", 7)>>>>,
   <<<<Gpu(first, 0, 0, A), Gpu(first, 1, 0, A)>>,
     <<Use(first, 0, 0, "0", 5), Use(first, 1, 0, "0", 7)>>>>}
MCJobs ==
  UNION {{<<h, Means(h[1].detail, a) \cup Means(h[2].detail, b), g[1], g[2]>> :
            g \in Uses(h[1].detail, h[2].detail), a \in {Shared} \cup {{0} \X x : x \in Cpus},
            b \in {{2, 3} \X x : x \in Cpus}} :
         h \in UNION {Hosts(c, u) : c \in 1..2, u \in 1..2}}

-----------------------------------------------------------------------------
\* Topology: the tree of a node is whole (hwloc.cpp 280-400).
TopologyCounted == about = "machine" => Tp!TopologyCountedFor(input[1], MyUnits(input))

\* Topology: what the hosts wrote is in the job's tree (hwloc_util.py 141-268).
UtilizationShown == about = "job" => Tp!UtilizationShownFor(input[1], input[2], input[3], input[4])
=============================================================================
