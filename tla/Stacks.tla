------------------------------- MODULE Stacks -------------------------------
(***************************************************************************)
(* trees.py and zs-stacks.py: the call stacks that gdb wrote for every     *)
(* process, merged into one tree. A frame is a value, a stack a sequence   *)
(* from the outermost frame on, a node of the tree the path that leads to  *)
(* it. The two tools differ in where they cut a label.                     *)
(***************************************************************************)
EXTENDS Integers, Sequences, SequencesExt, FiniteSetsExt

\* A line of gdb: "Thread 1 (Thread 0x...", a numbered frame, another one, or nothing,
\* as after the last end of line of a file.
Header   == <<"header">>
Other    == <<"other">>
Empty    == <<"empty">>
Frame(f) == <<"frame", f>>
Lines(calls) == {Header, Other, Empty} \cup {Frame(f) : f \in calls}

\* Frames count while the first thread is on; any other line ends it, but one without
\* a first character is an error; the header is looked for in every line.
ReadLine(state, line) ==
  [stack  |-> IF state.active /\ line[1] = "frame" THEN Append(state.stack, line[2])
              ELSE state.stack,
   active |-> line = Header \/ (state.active /\ line[1] = "frame"),
   failed |-> state.failed \/ (state.active /\ line = Empty)]

ReadFile(lines) ==
  FoldLeft(ReadLine, [stack |-> <<>>, active |-> FALSE, failed |-> FALSE], lines)
parseFile(lines) == Reverse(ReadFile(lines).stack)

\* Each stack once, in the order of the first file that has it, with the numbers
\* of the files, which count as ranks.
Seen(uniques, stack, rank) ==
  LET at == {k \in DOMAIN uniques : uniques[k].stack = stack}
  IN  IF at = {} THEN Append(uniques, [stack |-> stack, ranks |-> <<rank>>])
      ELSE [uniques EXCEPT ![Max(at)].ranks = Append(@, rank)]

findUnique(stacks) ==
  FoldLeft(LAMBDA uniques, i : Seen(uniques, stacks[i], i - 1), <<>>,
           [i \in DOMAIN stacks |-> i])

Node(count, ranks) == [count |-> count, ranks |-> ranks]
Root == <<>>
Paths(stack) == {SubSeq(stack, 1, n) : n \in 0..Len(stack)}

\* Mutant: the count of a node that is there is not increased.
Visit_CountsOnce(tree, path, u) ==
  IF path \in DOMAIN tree
  THEN Node(tree[path].count, tree[path].ranks \o u.ranks)
  ELSE Node(Len(u.ranks), u.ranks)

\* A node that is there gets the ranks of the stack, a new one has them.
Visit(tree, path, u) ==
  IF path \in DOMAIN tree
  THEN Node(tree[path].count + Len(u.ranks), tree[path].ranks \o u.ranks)
  ELSE Node(Len(u.ranks), u.ranks)

\* One walk down from the root for each stack.
Walk(tree, u) == [p \in DOMAIN tree \cup Paths(u.stack) |->
                    IF p \in Paths(u.stack) THEN Visit(tree, p, u) ELSE tree[p]]
dotstacks(uniques) == FoldLeft(Walk, [p \in {Root} |-> Node(0, <<>>)], uniques)

\* The label of an edge: the ranks of the child, sorted, as maximal spans.
Extend(spans, r) ==
  IF spans # <<>> /\ Last(spans)[2] = r - 1
  THEN [spans EXCEPT ![Len(spans)] = <<@[1], r>>]
  ELSE Append(spans, <<r, r>>)
ranges(ranks) == FoldLeft(Extend, <<>>, ranks)

\* The i-th entry in order, where entries may be equal.
sort(list) ==
  [i \in DOMAIN list |->
     CHOOSE x \in ToSet(list) : /\ Cardinality({j \in DOMAIN list : list[j] < x}) < i
                               /\ i <= Cardinality({j \in DOMAIN list : list[j] <= x})]

\* The digits of a number below 10^9; a span is a number, or two with a dash.
Width(n)     == 1 + Cardinality({k \in 1..8 : 10^k <= n})
SpanWidth(s) == IF s[1] = s[2] THEN Width(s[1]) ELSE Width(s[1]) + 1 + Width(s[2])

\* Where the k-th span ends: unless it is alone, a bracket or a comma is before each
\* span, and a bracket behind the last.
EndOf(spans, k) ==
  SumFunctionOnSet([i \in DOMAIN spans |-> SpanWidth(spans[i])], 1..k)
    + (IF Len(spans) > 1 THEN k ELSE 0)
TextWidth(spans) == EndOf(spans, Len(spans)) + (IF Len(spans) > 1 THEN 1 ELSE 0)

\* A text that is too long is cut: the spans that end before the cut are whole.
printlist(spans, limit) ==
  IF TextWidth(spans) <= limit THEN [spans |-> spans, cut |-> FALSE]
  ELSE [spans |-> SubSeq(spans, 1, Cardinality({k \in DOMAIN spans : EndOf(spans, k) <= limit})),
        cut |-> TRUE]

writeedge(child, limit) == printlist(ranges(sort(child.ranks)), limit)

\* Edges lead from a node to the paths that are longer by a frame, with the
\* child's count on them.
writegraph(tree, limit) ==
  {[from |-> Front(p), to |-> p, count |-> tree[p].count, label |-> writeedge(tree[p], limit)]
     : p \in DOMAIN tree \ {Root}}

\* The graph is written when every file could be read.
Graph(files, limit) ==
  IF \E i \in DOMAIN files : ReadFile(files[i]).failed THEN {}
  ELSE {writegraph(dotstacks(findUnique([i \in DOMAIN files |-> parseFile(files[i])])), limit)}

-----------------------------------------------------------------------------
(* Properties.                                                             *)

\* Line k is a frame of the first thread, or right behind them: only frames are between
\* it and a header.
OfFirst(lines, k) ==
  \E h \in 1..(k - 1) : lines[h] = Header /\ \A i \in (h + 1)..(k - 1) : lines[i][1] = "frame"

\* A file whose stack of the first thread is followed by another line.
Ended(lines) == ~\E k \in DOMAIN lines : OfFirst(lines, k) /\ lines[k] = Empty

\* The ranks whose stack goes through a path, straight from the files.
Through(files, path) ==
  {r \in 0..Len(files) - 1 : IsPrefix(path, parseFile(files[r + 1]))}

\* What a label shows are ranks that went through the edge, in maximal spans, up to
\* where it is cut, and all of them otherwise; ranks that follow each other are
\* never cut.
LabelTrue(label, ranks) ==
  LET shown == UNION {s[1]..s[2] : s \in ToSet(label.spans)}
  IN  /\ shown \subseteq ranks
      /\ \A r \in ranks : (\E x \in shown : r <= x) => r \in shown
      /\ ~label.cut => ranks \subseteq shown
      /\ \A i \in 1..Len(label.spans) - 1 : label.spans[i][2] + 1 < label.spans[i + 1][1]
      /\ (\E a, b \in ranks : ranks = a..b) => ~label.cut

\* Whatever stacks the processes had, in whatever order: if no file has an empty line
\* right behind its first thread's stack, a graph is written. An edge is there for
\* every call of these stacks, which are frames of first threads only, and has the
\* number of the ranks that went through it and a true label, in both tools
\* (trees.py 34-66, 79-83, 89-148, 150-208; zs-stacks.py 96-113).
StacksMergedFor(files) ==
  \A limit \in {20, 40} :
    /\ (\A i \in DOMAIN files : Ended(files[i])) => Graph(files, limit) # {}
    /\ \A edges \in Graph(files, limit) :
         /\ {e.to : e \in edges} =
              (UNION {Paths(parseFile(files[i])) : i \in DOMAIN files}) \ {Root}
         /\ \A e \in edges : /\ e.count = Cardinality(Through(files, e.to))
                             /\ LabelTrue(e.label, Through(files, e.to))
    /\ \A i \in DOMAIN files : \A f \in ToSet(parseFile(files[i])) :
         \E k \in DOMAIN files[i] : OfFirst(files[i], k) /\ files[i][k] = Frame(f)
=============================================================================
