------------------------------ MODULE Topology ------------------------------
(***************************************************************************)
(* The hardware of a node as hwloc knows it, the tree that ZeroSum writes  *)
(* of it for the first process of the node, and what the post-processing   *)
(* puts into that tree. An object of hwloc is a record with the sequences  *)
(* of its memory, normal, I/O and other children.                          *)
(***************************************************************************)
EXTENDS Integers, Sequences, SequencesExt, FiniteSetsExt, Functions

Caches == {"L1", "L2", "L3", "L4", "L5", "L1i", "L2i", "L3i"}

Below(obj) == obj.memory \o obj.children \o obj.io \o obj.misc

RECURSIVE visited(_)
\* The objects in the order in which traverse() comes back from them.
visited(obj) == Append(FlattenSeq([i \in DOMAIN obj.children |-> visited(obj.children[i])]), obj)

\* The first object with an index of the operating system is the one that counts.
KeepFirst(map, obj) ==
  IF obj.os \in DOMAIN map THEN map
  ELSE [o \in DOMAIN map \cup {obj.os} |-> IF o = obj.os THEN obj.logical ELSE map[o]]

\* ZS_MAP_CORES maps processing units, ZS_MAP_PUS cores.
traverse(root, mapCores, mapPUs) ==
  FoldLeft(KeepFirst, <<>>,
    SelectSeq(visited(root), LAMBDA o : \/ mapCores /\ o.type = "PU"
                                        \/ mapPUs /\ o.type = "Core"))

\* The CPUs of the summary: an index that is not in the map stands for 0.
getSummary(hwthreads, map, mapped) ==
  IF mapped THEN {IF t \in DOMAIN map THEN map[t] ELSE 0 : t \in hwthreads} ELSE hwthreads

\* Mutant: memory that is attached to the cache is not looked at.
Skipped_WithMemory(obj) ==
  obj.type \in Caches /\ Len(obj.children) = 1 /\ obj.io = <<>> /\ obj.misc = <<>>

\* A cache of one child only is left out, and its child takes its place.
Skipped(obj) == /\ obj.type \in Caches /\ Len(obj.children) = 1
                /\ obj.memory = <<>> /\ obj.io = <<>> /\ obj.misc = <<>>

getDetailName(obj, host) == IF obj.type = "Machine" THEN host ELSE obj.detail

Node(obj, host, depth, children) ==
  [name |-> obj.type, os |-> obj.os, detail |-> getDetailName(obj, host), depth |-> depth,
   size |-> IF children = <<>> THEN 1 ELSE FoldLeft(LAMBDA n, c : n + c.size, 0, children),
   utilization |-> 0, rank |-> -1, subdevice |-> {}, children |-> children]

RECURSIVE buildJSON(_, _, _)
buildJSON(obj, host, depth) ==
  IF Skipped(obj) THEN buildJSON(Head(obj.children), host, depth)
  ELSE Node(obj, host, depth + 1,
            [i \in DOMAIN Below(obj) |-> buildJSON(Below(obj)[i], host, depth + 1)])

\* Only the first process of a node writes the file.
validate_hwloc(root, host, shmrank) ==
  IF shmrank = 0 THEN {buildJSON(root, host, -1)} ELSE {}

-----------------------------------------------------------------------------
(* hwloc_util.py: a row is the mean use of a CPU, by host and rank. A host  *)
(* is the sequence of the parts of its name, a bus id that of its own.     *)

\* The first row is the one of the lowest rank.
Rows(df, host, os) == {r \in df : r.host = host /\ r.index = os}
First(rows) == CHOOSE r \in rows : \A o \in rows : r.rank <= o.rank

RECURSIVE nodes(_)
nodes(tree) == {tree} \cup UNION {nodes(c) : c \in ToSet(tree.children)}
Named(tree, name) == {n \in nodes(tree) : n.name = name}

\* An index that only another host uses has no first row to take: no tree at all.
NoRow(trees, df) ==
  \E tree \in ToSet(trees), r \in df : \E n \in Named(tree, "PU") :
    n.os = r.index /\ Rows(df, tree.detail, n.os) = {}

Total(children) == FoldLeft(LAMBDA n, c : n + c.utilization, 0, children)
Ranks(children) == {c.rank : c \in ToSet(children)}

\* Mutant: the first of a core's processing units gives it its rank.
Core_First(tree, children) ==
  [tree EXCEPT !.children = children, !.utilization = Total(children) \div Len(children),
               !.rank = Max({Head(children).rank, tree.rank})]

\* A core shows the mean over its processing units, and the highest of their ranks;
\* the use is counted in a unit that makes the division exact.
Core(tree, children) ==
  [tree EXCEPT !.children = children, !.utilization = Total(children) \div Len(children),
               !.rank = Max(Ranks(children) \cup {tree.rank})]

RECURSIVE traverseHWTTree(_, _, _)
traverseHWTTree(tree, inHost, df) ==
  LET host     == IF tree.name = "Machine" THEN tree.detail ELSE inHost
      mine     == Rows(df, host, tree.os)
      children == [i \in DOMAIN tree.children |-> traverseHWTTree(tree.children[i], host, df)]
  IN  CASE tree.name = "PU" /\ mine # {} ->
             [tree EXCEPT !.utilization = First(mine).value, !.rank = First(mine).rank]
        [] tree.name = "Core" /\ children # <<>> -> Core(tree, children)
        [] OTHER -> [tree EXCEPT !.children = children]

\* The address of a rank's GPU is a text; its use makes that a list, with the use and
\* the part of the GPU. The next part of the same GPU makes it a list in a list.
Key(row) == <<row.host, row.rank, row.index>>
UsesOf(gpu, metrics) == SelectSeq(metrics, LAMBDA m : Key(m) = Key(gpu))
Address(gpu, metrics) == [host |-> gpu.host, rank |-> gpu.rank, address |-> gpu.address,
                          uses |-> UsesOf(gpu, metrics)]

\* There are no lists without rows of both kinds, or for a use without an address.
NoKey(properties, metrics) ==
  \/ properties = <<>> \/ metrics = <<>>
  \/ \E m \in ToSet(metrics) : \A gpu \in ToSet(properties) : Key(m) # Key(gpu)
parseGPUData(properties, metrics) ==
  [i \in DOMAIN properties |-> Address(properties[i], metrics)]

\* What is taken for the address, the part and the use: of a text, its characters, and
\* the first of them is in every bus id.
Taken(gpu) ==
  IF gpu.uses = <<>>
  THEN [host |-> gpu.host, rank |-> gpu.rank, address |-> <<>>, part |-> "0", value |-> 0]
  ELSE [host |-> gpu.host, rank |-> gpu.rank, address |-> gpu.address,
        part |-> gpu.uses[1].part, value |-> gpu.uses[1].value]

\* The devices that are looked at are those of the machines whose name begins with the
\* host's. A list is no address, a character has no properties to write.
IsHost(tree, host) == IsPrefix(host, tree.detail)
Stops(job, gpu) ==
  \E tree \in {t \in ToSet(job.children) : IsHost(t, gpu.host)} :
    \E n \in Named(tree, "PCIDev") : \/ Len(gpu.uses) > 1
                                     \/ gpu.uses = <<>> /\ n.subdevice \in {{}, {"0"}}

\* The address is looked for anywhere in the bus id. A device that has another part of
\* the GPU already is kept beside the new one.
IsAt(tree, address) ==
  \E k \in 1..Len(tree.detail) : IsPrefix(address, SubSeq(tree.detail, k, Len(tree.detail)))
Assigned(tree, gpu) ==
  [tree EXCEPT !.utilization = gpu.value, !.rank = gpu.rank, !.subdevice = {gpu.part}]
Kept(tree, gpu) ==
  IF tree.name = "PCIDev" /\ IsAt(tree, gpu.address) /\ tree.subdevice \notin {{}, {gpu.part}}
  THEN <<tree>> ELSE <<>>

RECURSIVE traverseGPUTree(_, _)
traverseGPUTree(tree, gpu) ==
  CASE tree.name = "Machine" /\ ~IsHost(tree, gpu.host) -> tree
    [] tree.name = "PCIDev" -> IF IsAt(tree, gpu.address) THEN Assigned(tree, gpu) ELSE tree
    [] OTHER -> [tree EXCEPT !.children =
                   FlattenSeq([i \in DOMAIN @ |->
                     Kept(@[i], gpu) \o <<traverseGPUTree(@[i], gpu)>>])]

\* One tree for the job, with the files of the hosts under it.
Job(trees) == [name |-> "job", os |-> -1, detail |-> <<"(jobid)">>, depth |-> -1, size |-> 0,
               utilization |-> 0, rank |-> -1, subdevice |-> {}, children |-> trees]

ShowGpu(jobs, gpu) == {traverseGPUTree(job, Taken(gpu)) : job \in {j \in jobs : ~Stops(j, gpu)}}
updateTree(trees, df, properties, metrics) ==
  IF NoRow(trees, df) \/ NoKey(properties, metrics) THEN {}
  ELSE FoldLeft(ShowGpu, {traverseHWTTree(Job(trees), <<>>, df)},
                parseGPUData(properties, metrics))

-----------------------------------------------------------------------------
(* Properties.                                                             *)

RECURSIVE leaves(_)
leaves(tree) == IF tree.children = <<>> THEN <<tree.name>>
                ELSE FlattenSeq([i \in DOMAIN tree.children |-> leaves(tree.children[i])])
RECURSIVE objects(_)
objects(obj) == {obj} \cup UNION {objects(c) : c \in ToSet(Below(obj))}

\* Whatever the shape of the node, its file is one tree, written by one process:
\* no processing unit or device is lost when caches are left out, no cache of one
\* child is in it, every size is the number of leaves beneath, depths grow by one,
\* and mapped CPUs stay as many as they were (hwloc.cpp 44-63, 280-420,
\* software.h 459-473).
TopologyCountedFor(root, hwthreads) ==
  LET files == UNION {validate_hwloc(root, <<"node0">>, r) : r \in 0..2}
      map   == traverse(root, TRUE, FALSE)
  IN  /\ Cardinality(files) = 1
      /\ \A tree \in files :
           /\ tree.depth = 0
           /\ \A n \in nodes(tree) : /\ n.size = Len(leaves(n))
                                    /\ \A c \in ToSet(n.children) : c.depth = n.depth + 1
                                    /\ ~(n.name \in Caches /\ Len(n.children) = 1)
           /\ {<<m.name, m.os>> : m \in {x \in nodes(tree) : x.name \notin Caches}} =
                {<<o.type, o.os>> : o \in {x \in objects(root) : x.type \notin Caches}}
      /\ Cardinality(getSummary(hwthreads, map, TRUE)) = Cardinality(hwthreads)
      /\ getSummary(hwthreads, map, TRUE) =
           {o.logical : o \in {x \in objects(root) : x.type = "PU" /\ x.os \in hwthreads}}

\* Jobs that the tool is made for: a CPU that has rows has them on every host that has
\* the CPU; no host's name begins with another's, no bus id has another GPU's address in
\* it; every rank's GPU has one use, and no other rank uses that part of it.
Regular(trees, df, properties, metrics) ==
  /\ \A tree \in ToSet(trees) : \A n \in Named(tree, "PU") :
       (\E r \in df : r.index = n.os) => \E r \in df : r.index = n.os /\ r.host = tree.detail
  /\ \A s, t \in ToSet(trees) : IsHost(s, t.detail) => s = t
  /\ \A tree \in ToSet(trees) : \A n \in Named(tree, "PCIDev") : \A gpu \in ToSet(properties) :
       IsAt(n, gpu.address) => n.detail = gpu.address
  /\ properties # <<>>
  /\ \A m \in ToSet(metrics) : \E gpu \in ToSet(properties) : Key(m) = Key(gpu)
  /\ \A gpu \in ToSet(properties) : Len(UsesOf(gpu, metrics)) = 1
  /\ \A i, j \in DOMAIN properties : i # j =>
       \/ properties[i].host # properties[j].host
       \/ properties[i].address # properties[j].address
       \/ UsesOf(properties[i], metrics)[1].part # UsesOf(properties[j], metrics)[1].part

\* In any tree that is written, a processing unit shows what the lowest of the ranks that
\* used it wrote on its own host, a core what its units add up to and the highest rank on
\* them; nothing is missing, and only GPUs are there more than once.
HostShown(host, tree, df) ==
  LET mine(n) == {r \in df : r.host = tree.detail /\ r.index = n.os}
  IN  /\ \A n \in Named(host, "PU") :
           \/ mine(n) = {} /\ n.utilization = 0 /\ n.rank = -1
           \/ \E r \in mine(n) : /\ n.utilization = r.value /\ n.rank = r.rank
                                 /\ \A o \in mine(n) : r.rank <= o.rank
      /\ \A n \in Named(host, "Core") :
           /\ n.utilization * Cardinality(Named(n, "PU")) =
                MapThenSumSet(LAMBDA p : p.utilization, Named(n, "PU"))
           /\ n.rank = Max({p.rank : p \in Named(n, "PU")})
      /\ {<<n.name, n.os, n.detail, n.depth>> : n \in nodes(host)} =
           {<<n.name, n.os, n.detail, n.depth>> : n \in nodes(tree)}

\* For a regular job a tree is written, and in it every part of a GPU of a host is there
\* with the rank that used it and its use, and devices that nobody used have no rank.
GpusShown(host, tree, properties, metrics) ==
  LET own    == {g \in ToSet(properties) : g.host = tree.detail}
      use(g) == UsesOf(g, metrics)[1]
  IN  /\ \A g \in own : (\E n \in Named(tree, "PCIDev") : n.detail = g.address) =>
           {<<n.rank, n.utilization>> : n \in {m \in Named(host, "PCIDev") :
              m.detail = g.address /\ m.subdevice = {use(g).part}}} = {<<g.rank, use(g).value>>}
      /\ \A n \in Named(host, "PCIDev") :
           n.rank # -1 => \E g \in own : n.detail = g.address /\ n.rank = g.rank

UtilizationShownFor(trees, df, properties, metrics) ==
  LET written == updateTree(trees, df, properties, metrics)
      regular == Regular(trees, df, properties, metrics)
  IN  /\ regular => written # {}
      /\ \A job \in written : \A i \in DOMAIN trees :
           /\ HostShown(job.children[i], trees[i], df)
           /\ regular => GpusShown(job.children[i], trees[i], properties, metrics)
=============================================================================
