----------------------------- MODULE FindCycles -----------------------------
(***************************************************************************)
(* find_cycles() of src/src/analysis/dependencies.cpp: a depth-first       *)
(* search from every node in turn that reports a cycle whenever an edge    *)
(* leads back to a node of the current path.                               *)
(*                                                                         *)
(* The recursion of the lambda dfs() is an explicit stack: path[k] is the  *)
(* node of the k-th active call and scan[k] the edge its loop has reached. *)
(* The graph is given by its size (nodes are 1 .. size) and its edges, a   *)
(* sequence in the order in which they were found.                         *)
(***************************************************************************)
EXTENDS Integers, Sequences, SequencesExt

CONSTANT Graphs   \* the graphs [size, edges] the search is started on

(* Edges carry more than their ends; the search looks at nothing else.     *)
IsGraph(g) ==
  /\ g.size \in Nat
  /\ g.edges \in Seq(Range(g.edges))
  /\ \A k \in DOMAIN g.edges : g.edges[k].from \in 1 .. g.size /\ g.edges[k].to \in 1 .. g.size

ASSUME GraphsAssumption == \A g \in Graphs : IsGraph(g)

VARIABLES
  size, edges,  \* the graph, which the search only reads
  phase,        \* "idle", "search" or "done"
  root,         \* the outer loop's next node
  color,        \* state[]: 0, 1 and 2 are "white", "gray" and "black"
  path, scan,   \* the active calls
  cycles        \* out

graph == <<size, edges>>
search == <<phase, root, color, path, scan, cycles>>

Node == 1 .. size
top == Len(path)

InitSearch ==
  /\ phase = "idle"
  /\ root = 1
  /\ color = <<>>
  /\ path = <<>> /\ scan = <<>>
  /\ cycles = <<>>

Init ==
  /\ \E g \in Graphs : size = g.size /\ edges = g.edges
  /\ InitSearch

Start ==
  /\ phase = "idle"
  /\ phase' = "search"
  /\ color' = [v \in Node |-> "white"]
  /\ UNCHANGED <<graph, root, path, scan, cycles>>

(* The call dfs(v), made with the callers' loops at `callers'. *)
Enter(v, callers) ==
  /\ color' = [color EXCEPT ![v] = "gray"]
  /\ path' = Append(path, v)
  /\ scan' = Append(callers, 1)

(* Mutant: the outer loop goes on without counting. *)
NextRoot_Stuck ==
  /\ phase = "search" /\ path = <<>> /\ root <= size
  /\ IF color[root] = "white"
       THEN root' = root + 1 /\ Enter(root, <<>>)
       ELSE UNCHANGED <<root, color, path, scan>>
  /\ UNCHANGED <<graph, phase, cycles>>

NextRoot ==
  /\ phase = "search" /\ path = <<>> /\ root <= size
  /\ root' = root + 1
  /\ IF color[root] = "white"
       THEN Enter(root, <<>>)
       ELSE UNCHANGED <<color, path, scan>>
  /\ UNCHANGED <<graph, phase, cycles>>

(* The edge that the innermost call looks at. *)
Scanning == phase = "search" /\ path # <<>> /\ scan[top] <= Len(edges)
edge == edges[scan[top]]
mine == edge.from = path[top]
advanced == [scan EXCEPT ![top] = @ + 1]

PassEdge ==
  /\ Scanning
  /\ mine => color[edge.to] = "black"
  /\ scan' = advanced
  /\ UNCHANGED <<graph, phase, root, color, path, cycles>>

Descend ==
  /\ Scanning
  /\ mine
  /\ color[edge.to] = "white"
  /\ Enter(edge.to, advanced)
  /\ UNCHANGED <<graph, phase, root, cycles>>

(* std::find() from the bottom of the stack; nothing is reported if the    *)
(* node is not on it.                                                      *)
FirstOnPath(v) == {k \in DOMAIN path : path[k] = v /\ \A j \in 1 .. (k - 1) : path[j] # v}

(* Mutant: the whole path is reported. *)
Report_WholePath(v) == cycles' = Append(cycles, path)

(* Mutant: a library that needs itself is not a cycle. *)
Report_NoLoop(v) ==
  IF v = path[top] THEN UNCHANGED cycles
  ELSE \E k \in FirstOnPath(v) : cycles' = Append(cycles, SubSeq(path, k, Len(path)))

Report(v) ==
  \/ \E k \in FirstOnPath(v) : cycles' = Append(cycles, SubSeq(path, k, Len(path)))
  \/ FirstOnPath(v) = {} /\ UNCHANGED cycles

CloseCycle ==
  /\ Scanning
  /\ mine
  /\ color[edge.to] = "gray"
  /\ Report(edge.to)
  /\ scan' = advanced
  /\ UNCHANGED <<graph, phase, root, color, path>>

(* Mutant: a node that is done stays gray. *)
Leave_Gray ==
  /\ phase = "search" /\ path # <<>> /\ scan[top] > Len(edges)
  /\ path' = Front(path)
  /\ scan' = Front(scan)
  /\ UNCHANGED <<graph, phase, root, color, cycles>>

Leave ==
  /\ phase = "search" /\ path # <<>> /\ scan[top] > Len(edges)
  /\ color' = [color EXCEPT ![path[top]] = "black"]
  /\ path' = Front(path)
  /\ scan' = Front(scan)
  /\ UNCHANGED <<graph, phase, root, cycles>>

Finish ==
  /\ phase = "search" /\ path = <<>> /\ root > size
  /\ phase' = "done"
  /\ UNCHANGED <<graph, root, color, path, scan, cycles>>

Next == Start \/ NextRoot \/ PassEdge \/ Descend \/ CloseCycle \/ Leave \/ Finish

Spec == Init /\ [][Next]_<<graph, search>>

(***************************************************************************)
(*                              PROPERTIES                                 *)
(***************************************************************************)
TypeOK ==
  /\ IsGraph([size |-> size, edges |-> edges])
  /\ phase \in {"idle", "search", "done"}
  /\ root \in 1 .. (size + 1)
  /\ color \in IF phase = "idle" THEN {<<>>} ELSE [Node -> {"white", "gray", "black"}]
  /\ path \in Seq(Node)
  /\ scan \in Seq(1 .. (Len(edges) + 1))
  /\ Len(scan) = Len(path)
  /\ cycles \in Seq(Seq(Node))

(* The graph has an edge from u to v.                                      *)
Linked(u, v) == \E k \in DOMAIN edges : edges[k].from = u /\ edges[k].to = v

(* The active calls are a path of the graph without a repeated node, and   *)
(* its nodes are exactly the gray ones: the recursion is never deeper than *)
(* the graph has nodes, and meeting gray means meeting the path.           *)
StackIsThePath ==
  /\ \A j, k \in DOMAIN path : path[j] = path[k] => j = k
  /\ \A k \in 1 .. (top - 1) : Linked(path[k], path[k + 1])
  /\ phase # "idle" => \A v \in Node : color[v] = "gray" <=> \E k \in DOMAIN path : path[k] = v

(* What is reported is a cycle: its nodes are distinct, each needs the     *)
(* next and the last needs the first.                                      *)
IsCycle(c) ==
  /\ c # <<>>
  /\ \A j, k \in DOMAIN c : c[j] = c[k] => j = k
  /\ \A k \in 1 .. (Len(c) - 1) : Linked(c[k], c[k + 1])
  /\ Linked(c[Len(c)], c[1])

ReportedCyclesAreReal == \A k \in DOMAIN cycles : IsCycle(cycles[k])

(* <<u, v>> is here if v can be reached from u over at least one edge: it  *)
(* is in every set that holds the nodes u needs and what its nodes need.   *)
Closed(s) == \A u \in s, v \in Node : Linked(u, v) => v \in s

Reaches ==
  {p \in Node \X Node :
     \A s \in SUBSET Node : Closed(s) /\ (\A v \in Node : Linked(p[1], v) => v \in s) => p[2] \in s}

(* A cycle among the nodes that need v and that v needs is in the report.  *)
KnotReported(v) ==
  \E k \in DOMAIN cycles : \A u \in Range(cycles[k]) : {<<u, v>>, <<v, u>>} \subseteq Reaches

(* No part of the graph that goes round in a circle is passed over.  (Not  *)
(* every cycle is in the report: see README.)                              *)
EveryKnotIsReported ==
  phase = "done" => \A v \in Node : <<v, v>> \in Reaches => KnotReported(v)

(* The inductive form: between searches no call is active.                 *)
IInv ==
  /\ TypeOK
  /\ phase # "search" => path = <<>>
  /\ StackIsThePath
  /\ ReportedCyclesAreReal

(* What the search has seen so far: an edge that a loop has passed leads   *)
(* to a node that is done or to the next call, or it closed a cycle; the   *)
(* knot of a node that is done is reported.                                *)
PassedAreSeen ==
  \A k \in DOMAIN path : \A e \in 1 .. (scan[k] - 1) : edges[e].from = path[k] =>
    \/ color[edges[e].to] = "black"
    \/ k < top /\ edges[e].to = path[k + 1]
    \/ KnotReported(path[k])

DoneAreReported ==
  phase # "idle" => \A v \in Node : color[v] = "black" /\ <<v, v>> \in Reaches => KnotReported(v)

RootsAreVisited ==
  /\ phase = "idle" => root = 1
  /\ phase # "idle" => \A v \in 1 .. (root - 1) : color[v] # "white"
  /\ phase = "done" => root = size + 1

KnotInv == PassedAreSeen /\ DoneAreReported /\ RootsAreVisited
=============================================================================
