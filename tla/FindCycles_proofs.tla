-------------------------- MODULE FindCycles_proofs --------------------------
(***************************************************************************)
(* Proofs about find_cycles(), for every graph: the recursion follows a    *)
(* path of the graph that repeats no node, and what is reported is a cycle;*)
(* no knot is missed, since what a finished node needs was seen.           *)
(***************************************************************************)
EXTENDS FindCycles, SequenceTheorems, FiniteSetTheorems, WellFoundedInduction, TLAPS

vars == <<graph, search>>

(* What Front() leaves of a sequence.                                      *)
LEMMA FrontProperties ==
  ASSUME NEW S, NEW s \in Seq(S), s # <<>>
  PROVE  /\ Front(s) \in Seq(S) /\ Len(Front(s)) = Len(s) - 1
         /\ \A k \in 1 .. (Len(s) - 1) : Front(s)[k] = s[k]
<1>1. Len(s) \in Nat \ {0} /\ \A i \in 1 .. (Len(s) - 1) : s[i] \in S
  OBVIOUS
<1> DEFINE n == Len(s) - 1
<1>2. n \in Nat /\ Front(s) = SubSeq(s, 1, n)
  BY <1>1 DEF Front
<1> HIDE DEF n
<1>3. /\ SubSeq(s, 1, n) \in Seq(S) /\ Len(SubSeq(s, 1, n)) = IF 1 <= n THEN n - 1 + 1 ELSE 0
      /\ \A i \in 1 .. n - 1 + 1 : SubSeq(s, 1, n)[i] = s[1 + i - 1]
  <2>1. \A i \in 1 .. n : s[i] \in S
    BY <1>1 DEF n
  <2> QED
    BY <1>2, <2>1, SubSeqProperties
<1>4. Front(s) \in Seq(S) /\ Len(Front(s)) = n /\ \A k \in 1 .. n : Front(s)[k] = s[k]
  BY <1>2, <1>3
<1> QED
  BY <1>4 DEF n

(* The inductive invariant holds at the start, whatever the graph.         *)
LEMMA SearchInit ==
  ASSUME IsGraph([size |-> size, edges |-> edges]), InitSearch
  PROVE  IInv
<1>1. size \in Nat /\ Len(path) = 0 /\ Len(scan) = 0
  BY DEF InitSearch, IsGraph
<1>2. TypeOK
  BY <1>1, EmptySeq DEF InitSearch, TypeOK
<1>3. top = 0 /\ DOMAIN path = {} /\ DOMAIN cycles = {} /\ phase = "idle" /\ 1 .. (top - 1) = {}
  BY DEF InitSearch, top
<1>4. StackIsThePath /\ ReportedCyclesAreReal
  BY <1>3 DEF StackIsThePath, ReportedCyclesAreReal
<1> QED
  BY <1>2, <1>3, <1>4 DEF InitSearch, IInv

LEMMA InitInv == Init => IInv
<1> SUFFICES ASSUME Init PROVE IInv
  OBVIOUS
<1>1. IsGraph([size |-> size, edges |-> edges])
  BY GraphsAssumption DEF Init, IsGraph
<1> QED
  BY <1>1, SearchInit DEF Init

(* The edge under consideration and the innermost call.                    *)
LEMMA ScanFacts ==
  ASSUME IInv, Scanning
  PROVE  /\ top \in Nat \ {0} /\ top \in DOMAIN path /\ path[top] \in Node
         /\ scan[top] \in DOMAIN edges /\ edge.from \in Node /\ edge.to \in Node
         /\ mine => Linked(path[top], edge.to)
<1>1. /\ path \in Seq(Node) /\ path # <<>> /\ scan \in Seq(1 .. (Len(edges) + 1))
      /\ Len(scan) = Len(path) /\ scan[top] <= Len(edges)
  BY DEF IInv, TypeOK, Scanning
<1>2. top \in Nat \ {0} /\ top \in DOMAIN path /\ path[top] \in Node
  BY <1>1 DEF top
<1>3. scan[top] \in 1 .. (Len(edges) + 1)
  BY <1>1, <1>2 DEF top
<1>4. edges \in Seq(Range(edges)) /\ \A k \in DOMAIN edges : edges[k].from \in Node /\ edges[k].to \in Node
  BY DEF IInv, TypeOK, IsGraph, Node
<1>5. scan[top] \in DOMAIN edges
  BY <1>1, <1>3, <1>4
<1>6. edge.from \in Node /\ edge.to \in Node
  BY <1>4, <1>5 DEF edge
<1>7. mine => Linked(path[top], edge.to)
  BY <1>5 DEF mine, Linked, edge
<1> QED
  BY <1>2, <1>5, <1>6, <1>7

(* Moving the innermost loop on.                                           *)
LEMMA AdvanceFacts ==
  ASSUME IInv, Scanning
  PROVE  advanced \in Seq(1 .. (Len(edges) + 1)) /\ Len(advanced) = Len(path)
<1>1. /\ scan \in Seq(1 .. (Len(edges) + 1)) /\ Len(scan) = Len(path) /\ Len(edges) \in Nat
  BY DEF IInv, TypeOK, IsGraph
<1>2. top \in 1 .. Len(scan) /\ scan[top] + 1 \in 1 .. (Len(edges) + 1)
  BY <1>1, ScanFacts DEF top
<1> QED
  BY <1>1, <1>2, ExceptSeq DEF advanced

(* A call on a white node that the innermost call needs, or on any white   *)
(* node when there is no call.                                             *)
LEMMA EnterKeeps ==
  ASSUME IInv, NEW v \in Node, phase = "search", color[v] = "white",
         path # <<>> => Linked(path[top], v),
         NEW callers \in Seq(1 .. (Len(edges) + 1)), Len(callers) = Len(path),
         Enter(v, callers), UNCHANGED <<graph, phase, cycles>>, root' \in 1 .. (size + 1)
  PROVE  IInv'
<1>1. /\ path \in Seq(Node) /\ color \in [Node -> {"white", "gray", "black"}] /\ Len(edges) \in Nat
      /\ Node' = Node
  BY DEF IInv, TypeOK, IsGraph, graph, Node
<1>2. /\ path' \in Seq(Node) /\ Len(path') = top + 1 /\ path'[top + 1] = v /\ top \in Nat
      /\ \A k \in 1 .. top : path'[k] = path[k]
      /\ DOMAIN path = 1 .. top /\ DOMAIN path' = 1 .. (top + 1)
  BY <1>1, AppendProperties DEF Enter, top
<1>3. scan' \in Seq(1 .. (Len(edges) + 1)) /\ Len(scan') = Len(path')
  <2>1. 1 \in 1 .. (Len(edges) + 1)
    BY <1>1
  <2> QED
    BY <1>2, <2>1, AppendProperties DEF Enter, top
<1>4. TypeOK'
  BY <1>1, <1>2, <1>3 DEF IInv, TypeOK, Enter, graph
<1>5. \A k \in 1 .. top : path[k] # v
  BY <1>2 DEF IInv, StackIsThePath
<1>6. \A u, w : Linked(u, w)' <=> Linked(u, w)
  BY DEF Linked, graph
<1>7. StackIsThePath'
  <2>1. \A j, k \in DOMAIN path' : path'[j] = path'[k] => j = k
    BY <1>2, <1>5 DEF IInv, StackIsThePath
  <2>2. \A k \in 1 .. (top' - 1) : Linked(path'[k], path'[k + 1])
    <3> SUFFICES ASSUME NEW k \in 1 .. (top' - 1) PROVE Linked(path'[k], path'[k + 1])
      OBVIOUS
    <3>1. top' = top + 1 /\ k \in 1 .. top
      BY <1>2 DEF top
    <3>2. CASE k = top
      BY <1>2, <3>1, <3>2
    <3>3. CASE k \in 1 .. (top - 1)
      <4>1. k + 1 \in 1 .. top /\ path'[k] = path[k] /\ path'[k + 1] = path[k + 1]
        BY <1>2, <3>1, <3>3
      <4>2. Linked(path[k], path[k + 1])
        BY <3>3 DEF IInv, StackIsThePath
      <4> QED
        BY <4>1, <4>2
    <3> QED
      BY <1>2, <3>1, <3>2, <3>3
  <2>3. \A w \in Node : color'[w] = "gray" <=> \E k \in DOMAIN path' : path'[k] = w
    BY <1>1, <1>2 DEF IInv, StackIsThePath, Enter
  <2> QED
    BY <1>1, <1>6, <2>1, <2>2, <2>3 DEF StackIsThePath
<1>8. ReportedCyclesAreReal'
  BY <1>6 DEF IInv, ReportedCyclesAreReal, IsCycle
<1> QED
  BY <1>4, <1>7, <1>8 DEF IInv

(* What is cut from the path at the node that an edge leads back to.       *)
LEMMA ClosedPathIsCycle ==
  ASSUME IInv, Scanning, mine, NEW k \in FirstOnPath(edge.to)
  PROVE  /\ SubSeq(path, k, Len(path)) \in Seq(Node)
         /\ IsCycle(SubSeq(path, k, Len(path)))
<1> DEFINE n == Len(path)
           c == SubSeq(path, k, n)
<1>1. /\ path \in Seq(Node) /\ n \in Nat \ {0} /\ top = n
      /\ k \in 1 .. n /\ path[k] = edge.to
  BY ScanFacts DEF IInv, TypeOK, FirstOnPath, top
<1>2. Linked(path[n], path[k])
  BY <1>1, ScanFacts
<1>3. /\ c \in Seq(Node) /\ Len(c) = n - k + 1
      /\ \A i \in 1 .. (n - k + 1) : c[i] = path[k + i - 1]
  <2>1. \A i \in k .. n : path[i] \in Node
    BY <1>1
  <2> HIDE DEF n
  <2>2. k \in Int /\ n \in Int /\ k <= n
    BY <1>1
  <2> QED
    BY <2>1, <2>2, SubSeqProperties
<1> HIDE DEF c, n
<1>4. c # <<>> /\ DOMAIN c = 1 .. (n - k + 1)
  BY <1>1, <1>3
<1>5. \A i, j \in DOMAIN c : c[i] = c[j] => i = j
  <2> SUFFICES ASSUME NEW i \in DOMAIN c, NEW j \in DOMAIN c, c[i] = c[j] PROVE i = j
    OBVIOUS
  <2>1. path[k + i - 1] = path[k + j - 1]
    BY <1>3, <1>4
  <2>2. k + i - 1 \in DOMAIN path /\ k + j - 1 \in DOMAIN path
    BY <1>1, <1>4 DEF n
  <2>3. k + i - 1 = k + j - 1
    BY <2>1, <2>2 DEF IInv, StackIsThePath
  <2> QED
    BY <1>1, <1>4, <2>3
<1>6. \A i \in 1 .. (Len(c) - 1) : Linked(c[i], c[i + 1])
  <2> SUFFICES ASSUME NEW i \in 1 .. (Len(c) - 1) PROVE Linked(c[i], c[i + 1])
    OBVIOUS
  <2>1. k + i - 1 \in 1 .. (top - 1) /\ (k + i - 1) + 1 = k + i
    BY <1>1, <1>3
  <2>2. Linked(path[k + i - 1], path[k + i])
    BY <2>1 DEF IInv, StackIsThePath
  <2>3. c[i] = path[k + i - 1] /\ c[i + 1] = path[k + i]
    BY <1>1, <1>3
  <2> QED
    BY <2>2, <2>3
<1>7. c[Len(c)] = path[n] /\ c[1] = path[k]
  BY <1>1, <1>3
<1> QED
  BY <1>2, <1>3, <1>4, <1>5, <1>6, <1>7 DEF IsCycle, c, n

(* A step that only moves a loop on and perhaps adds a cycle to the report.*)
LEMMA ScanKeeps ==
  ASSUME IInv, Scanning, scan' = advanced, UNCHANGED <<graph, phase, root, color, path>>,
         cycles' \in Seq(Seq(Node)),
         \A k \in DOMAIN cycles' : IsCycle(cycles'[k])
  PROVE  IInv'
<1>1. Node' = Node /\ Len(edges') = Len(edges) /\ \A u, w : Linked(u, w)' <=> Linked(u, w)
  BY DEF graph, Node, Linked
<1>2. TypeOK'
  BY <1>1, AdvanceFacts DEF IInv, TypeOK, graph
<1>3. StackIsThePath'
  BY <1>1 DEF IInv, StackIsThePath, top
<1>4. ReportedCyclesAreReal'
  BY <1>1 DEF ReportedCyclesAreReal, IsCycle
<1> QED
  BY <1>2, <1>3, <1>4 DEF IInv

(* A call that returns leaves a path whose nodes are the gray ones.        *)
LEMMA LeaveKeeps == IInv /\ Leave => IInv'
<1> SUFFICES ASSUME IInv, Leave PROVE IInv'
  OBVIOUS
<1>1. /\ path \in Seq(Node) /\ path # <<>> /\ color \in [Node -> {"white", "gray", "black"}]
      /\ scan \in Seq(1 .. (Len(edges) + 1)) /\ scan # <<>> /\ Len(scan) = Len(path)
  BY DEF IInv, TypeOK, Leave
<1>2. /\ path' \in Seq(Node) /\ Len(path') = top - 1 /\ top \in Nat \ {0} /\ path[top] \in Node
      /\ \A k \in 1 .. (top - 1) : path'[k] = path[k]
      /\ DOMAIN path = 1 .. top /\ DOMAIN path' = 1 .. (top - 1)
  BY <1>1, FrontProperties DEF Leave, top
<1>3. scan' \in Seq(1 .. (Len(edges) + 1)) /\ Len(scan') = Len(path')
  BY <1>1, <1>2, FrontProperties DEF Leave, top
<1>4. Node' = Node /\ Len(edges') = Len(edges) /\ \A u, w : Linked(u, w)' <=> Linked(u, w)
  BY DEF Leave, graph, Node, Linked
<1>5. TypeOK'
  BY <1>1, <1>2, <1>3, <1>4 DEF IInv, TypeOK, Leave, graph
<1>6. StackIsThePath'
  <2>1. \A j, k \in DOMAIN path' : path'[j] = path'[k] => j = k
    BY <1>2 DEF IInv, StackIsThePath
  <2>2. \A k \in 1 .. (top' - 1) : Linked(path'[k], path'[k + 1])
    <3> SUFFICES ASSUME NEW k \in 1 .. (top' - 1) PROVE Linked(path'[k], path'[k + 1])
      OBVIOUS
    <3>1. k \in 1 .. (top - 1) /\ k + 1 \in 1 .. (top - 1)
      BY <1>2 DEF top
    <3> QED
      BY <1>2, <3>1 DEF IInv, StackIsThePath
  <2>3. \A w \in Node : color'[w] = "gray" <=> \E k \in DOMAIN path' : path'[k] = w
    <3> SUFFICES ASSUME NEW w \in Node
                 PROVE  color'[w] = "gray" <=> \E k \in DOMAIN path' : path'[k] = w
      OBVIOUS
    <3>1. color'[w] = IF w = path[top] THEN "black" ELSE color[w]
      BY <1>1 DEF Leave
    <3>2. color[w] = "gray" <=> \E k \in DOMAIN path : path[k] = w
      BY DEF IInv, StackIsThePath, Leave
    <3>3. \A k \in 1 .. (top - 1) : path[k] # path[top]
      BY <1>2 DEF IInv, StackIsThePath
    <3> QED
      BY <1>2, <3>1, <3>2, <3>3
  <2> QED
    BY <1>4, <2>1, <2>2, <2>3 DEF StackIsThePath
<1>7. ReportedCyclesAreReal'
  BY <1>4 DEF IInv, ReportedCyclesAreReal, IsCycle, Leave
<1> QED
  BY <1>5, <1>6, <1>7 DEF IInv, Leave

(* Every step keeps the inductive invariant.                               *)
LEMMA StepInv == IInv /\ [Next]_vars => IInv'
<1> SUFFICES ASSUME IInv, [Next]_vars PROVE IInv'
  OBVIOUS
<1>0. size \in Nat /\ Len(edges) \in Nat
  BY DEF IInv, TypeOK, IsGraph
<1>1. CASE Start
  <2>1. /\ path = <<>> /\ path' = <<>> /\ phase' = "search"
        /\ color' = [v \in Node |-> "white"] /\ Node' = Node
        /\ \A u, w : Linked(u, w)' <=> Linked(u, w)
    BY <1>1 DEF Start, IInv, graph, Node, Linked
  <2>2. TypeOK'
    BY <1>1, <2>1 DEF Start, IInv, TypeOK, graph
  <2>3. StackIsThePath'
    BY <2>1 DEF StackIsThePath, top
  <2>4. ReportedCyclesAreReal'
    BY <1>1, <2>1 DEF Start, IInv, ReportedCyclesAreReal, IsCycle
  <2> QED
    BY <2>1, <2>2, <2>3, <2>4 DEF IInv
<1>2. CASE NextRoot /\ color[root] = "white"
  <2>1. /\ root \in Node /\ root' \in 1 .. (size + 1) /\ phase = "search" /\ path = <<>> /\ Len(path) = 0
        /\ Enter(root, <<>>) /\ UNCHANGED <<graph, phase, cycles>>
    BY <1>0, <1>2 DEF NextRoot, IInv, TypeOK, Node
  <2>2. <<>> \in Seq(1 .. (Len(edges) + 1)) /\ Len(<<>>) = 0
    OBVIOUS
  <2> QED
    BY <1>2, <2>1, <2>2, EnterKeeps
<1>3. CASE NextRoot /\ color[root] # "white"
  <2>1. /\ UNCHANGED <<graph, phase, color, path, scan, cycles>> /\ root' \in 1 .. (size + 1)
        /\ Node' = Node /\ \A u, w : Linked(u, w)' <=> Linked(u, w)
    BY <1>0, <1>3 DEF NextRoot, IInv, TypeOK, graph, Node, Linked
  <2> QED
    BY <2>1 DEF IInv, TypeOK, StackIsThePath, ReportedCyclesAreReal, IsCycle, graph, top
<1>4. CASE PassEdge
  <2>1. /\ Scanning /\ scan' = advanced /\ UNCHANGED <<graph, phase, root, color, path>>
        /\ cycles' = cycles
    BY <1>4 DEF PassEdge
  <2>2. cycles' \in Seq(Seq(Node)) /\ \A k \in DOMAIN cycles' : IsCycle(cycles'[k])
    BY <2>1 DEF IInv, TypeOK, ReportedCyclesAreReal
  <2> QED
    BY <2>1, <2>2, ScanKeeps
<1>5. CASE Descend
  <2>1. /\ Scanning /\ mine /\ color[edge.to] = "white" /\ phase = "search"
        /\ Enter(edge.to, advanced) /\ UNCHANGED <<graph, phase, root, cycles>>
    BY <1>5 DEF Descend, Scanning
  <2>2. edge.to \in Node /\ Linked(path[top], edge.to)
    BY <2>1, ScanFacts
  <2>3. root' \in 1 .. (size + 1)
    BY <2>1 DEF IInv, TypeOK
  <2> QED
    BY <2>1, <2>2, <2>3, AdvanceFacts, EnterKeeps
<1>6. CASE CloseCycle
  <2>1. /\ Scanning /\ mine /\ scan' = advanced /\ Report(edge.to)
        /\ UNCHANGED <<graph, phase, root, color, path>>
    BY <1>6 DEF CloseCycle
  <2>2. cycles \in Seq(Seq(Node)) /\ \A k \in DOMAIN cycles : IsCycle(cycles[k])
    BY DEF IInv, TypeOK, ReportedCyclesAreReal
  <2>3. cycles' \in Seq(Seq(Node)) /\ \A k \in DOMAIN cycles' : IsCycle(cycles'[k])
    <3>1. CASE cycles' = cycles
      BY <2>2, <3>1
    <3>2. ASSUME NEW k \in FirstOnPath(edge.to),
                 cycles' = Append(cycles, SubSeq(path, k, Len(path)))
          PROVE  cycles' \in Seq(Seq(Node)) /\ \A j \in DOMAIN cycles' : IsCycle(cycles'[j])
      <4> DEFINE c == SubSeq(path, k, Len(path))
      <4>1. c \in Seq(Node) /\ IsCycle(c)
        BY <2>1, ClosedPathIsCycle
      <4>2. cycles' = Append(cycles, c)
        BY <3>2
      <4> HIDE DEF c
      <4>3. /\ cycles' \in Seq(Seq(Node)) /\ DOMAIN cycles' = 1 .. (Len(cycles) + 1)
            /\ Len(cycles) \in Nat /\ cycles'[Len(cycles) + 1] = c
            /\ \A j \in 1 .. Len(cycles) : cycles'[j] = cycles[j]
        BY <2>2, <4>1, <4>2, AppendProperties
      <4>4. DOMAIN cycles = 1 .. Len(cycles)
        BY <2>2, LenProperties
      <4>5. \A j \in DOMAIN cycles' : j \in DOMAIN cycles \/ j = Len(cycles) + 1
        BY <4>3, <4>4
      <4>6. ASSUME NEW j \in DOMAIN cycles' PROVE IsCycle(cycles'[j])
        <5>1. CASE j = Len(cycles) + 1
          BY <4>1, <4>3, <5>1
        <5>2. CASE j \in DOMAIN cycles
          <6>1. cycles'[j] = cycles[j]
            BY <4>3, <4>4, <5>2
          <6> QED
            BY <2>2, <5>2, <6>1
        <5> QED
          BY <4>5, <5>1, <5>2
      <4> QED
        BY <4>3, <4>6
    <3> QED
      BY <2>1, <3>1, <3>2 DEF Report
  <2> QED
    BY <2>1, <2>3, ScanKeeps
<1>7. CASE Leave
  BY <1>7, LeaveKeeps
<1>8. CASE Finish
  <2>1. /\ UNCHANGED <<graph, root, color, path, scan, cycles>> /\ phase' = "done"
        /\ phase = "search" /\ path = <<>>
        /\ Node' = Node /\ \A u, w : Linked(u, w)' <=> Linked(u, w)
    BY <1>8 DEF Finish, graph, Node, Linked
  <2> QED
    BY <2>1 DEF IInv, TypeOK, StackIsThePath, ReportedCyclesAreReal, IsCycle, graph, top
<1>9. CASE UNCHANGED vars
  <2>1. UNCHANGED <<size, edges, phase, root, color, path, scan, cycles>>
    BY <1>9 DEF vars, graph, search
  <2> QED
    BY <2>1 DEF IInv, TypeOK, StackIsThePath, ReportedCyclesAreReal, IsCycle, Linked, Node, top
<1> QED
  BY <1>1, <1>2, <1>3, <1>4, <1>5, <1>6, <1>7, <1>8, <1>9 DEF Next

(* The inductive invariant holds in every reachable state.                 *)
LEMMA Inductive == Spec => []IInv
  BY InitInv, StepInv, PTL DEF Spec, vars

(* Loop positions and stack entries stay within the graph.                 *)
THEOREM TypeCorrect == Spec => []TypeOK
  BY Inductive, PTL DEF IInv

(* The active calls are a path without a repeated node: dfs() never runs   *)
(* deeper than there are nodes, and gray means on the path.                *)
THEOREM StackCorrect == Spec => []StackIsThePath
  BY Inductive, PTL DEF IInv

(* Whatever the graph and the order of its edges, what is reported is a    *)
(* cycle of it.                                                            *)
THEOREM CyclesCorrect == Spec => []ReportedCyclesAreReal
  BY Inductive, PTL DEF IInv

(***************************************************************************)
(* Every knot is reported                                                  *)
(***************************************************************************)
(* Every set of natural numbers that is not empty has a least element.     *)
LEMMA LeastNumber ==
  ASSUME NEW T, T \subseteq Nat, T # {}
  PROVE  \E x \in T : \A y \in T : x <= y
<1>1. PICK x \in T : \A y \in T : ~(<<y, x>> \in OpToRel(<, Nat))
  BY NatLessThanWellFounded, WFMin
<1>2. \A y \in T : <<y, x>> \in OpToRel(<, Nat) <=> y < x
  BY DEF OpToRel
<1>3. \A y \in T : ~(y < x)
  BY <1>1, <1>2
<1>4. \A y \in T : y \in Int /\ x \in Int
  OBVIOUS
<1> QED
  BY <1>3, <1>4

(* What holds of a number and of the successor of every one that it holds  *)
(* of, up to a bound.                                                      *)
LEMMA Climbing ==
  ASSUME NEW T, NEW a \in Nat, NEW b \in Nat, a \in T, \A m \in a .. (b - 1) : m \in T => m + 1 \in T
  PROVE  a .. b \subseteq T
<1> SUFFICES ASSUME (a .. b) \ T # {} PROVE FALSE
  OBVIOUS
<1>1. PICK x \in (a .. b) \ T : \A y \in (a .. b) \ T : x <= y
  <2>1. (a .. b) \ T \subseteq Nat
    OBVIOUS
  <2> QED
    BY <2>1, LeastNumber
<1>2. x # a /\ x \in a .. b
  BY <1>1
<1>3. x - 1 \in a .. (b - 1) /\ x - 1 \in a .. b /\ x - 1 + 1 = x /\ ~(x <= x - 1)
  BY <1>2
<1>4. x - 1 \in T
  BY <1>1, <1>3
<1>5. x \in T
  BY <1>3, <1>4
<1> QED
  BY <1>1, <1>5

(* A set that holds what u needs and is closed holds what u reaches.       *)
LEMMA ReachesInto ==
  ASSUME NEW s \in SUBSET Node, Closed(s), NEW u, NEW v,
         <<u, v>> \in Reaches, \A w \in Node : Linked(u, w) => w \in s
  PROVE  v \in s
BY DEF Reaches

LEMMA ReachesByEdge ==
  ASSUME NEW u \in Node, NEW v \in Node, Linked(u, v)
  PROVE  <<u, v>> \in Reaches
BY DEF Reaches

LEMMA ReachesTransitive ==
  ASSUME NEW u, NEW v, NEW w, <<u, v>> \in Reaches, <<v, w>> \in Reaches
  PROVE  <<u, w>> \in Reaches
<1>1. u \in Node /\ v \in Node /\ w \in Node
  BY DEF Reaches
<1>2. ASSUME NEW s \in SUBSET Node, Closed(s), \A x \in Node : Linked(u, x) => x \in s
      PROVE  w \in s
  <2>1. v \in s
    BY <1>2, ReachesInto
  <2>2. \A x \in Node : Linked(v, x) => x \in s
    BY <1>2, <2>1 DEF Closed
  <2> QED
    BY <1>2, <2>2, ReachesInto
<1> QED
  BY <1>1, <1>2 DEF Reaches

(* A way from u to v begins with an edge from u. *)
LEMMA ReachesFirstEdge ==
  ASSUME NEW u, NEW v, <<u, v>> \in Reaches
  PROVE  \E w \in Node : Linked(u, w) /\ (w = v \/ <<w, v>> \in Reaches)
<1> DEFINE s == {x \in Node : \E w \in Node : Linked(u, w) /\ (w = x \/ <<w, x>> \in Reaches)}
<1>1. s \in SUBSET Node
  OBVIOUS
<1>2. \A w \in Node : Linked(u, w) => w \in s
  OBVIOUS
<1>3. Closed(s)
  <2> SUFFICES ASSUME NEW x \in s, NEW y \in Node, Linked(x, y) PROVE y \in s
    BY DEF Closed
  <2>1. PICK w \in Node : Linked(u, w) /\ (w = x \/ <<w, x>> \in Reaches)
    OBVIOUS
  <2>2. <<x, y>> \in Reaches
    BY ReachesByEdge
  <2>3. <<w, y>> \in Reaches
    BY <2>1, <2>2, ReachesTransitive
  <2> QED
    BY <2>1, <2>3
<1> HIDE DEF s
<1>4. v \in s
  BY <1>1, <1>2, <1>3, ReachesInto
<1> QED
  BY <1>4 DEF s

(* The nodes of a cycle need each other. *)
LEMMA CycleIsKnot ==
  ASSUME NEW c \in Seq(Node), IsCycle(c), NEW i \in DOMAIN c, NEW j \in DOMAIN c
  PROVE  <<c[i], c[j]>> \in Reaches
<1> DEFINE n == Len(c)
<1>1. n \in Nat /\ DOMAIN c = 1 .. n /\ \A m \in 1 .. n : c[m] \in Node
  OBVIOUS
<1>2. ASSUME NEW s \in SUBSET Node, Closed(s), \A w \in Node : Linked(c[i], w) => w \in s
      PROVE  c[j] \in s
  <2> DEFINE T == {m \in 1 .. n : c[m] \in s}
  <2>1. \A m \in 1 .. (n - 1) : m + 1 \in 1 .. n /\ Linked(c[m], c[m + 1])
    BY <1>1 DEF IsCycle
  <2>2. \A m \in 1 .. (n - 1) : m \in T => m + 1 \in T
    BY <1>1, <1>2, <2>1 DEF Closed
  <2>3. n \in T => 1 \in T
    BY <1>1, <1>2 DEF Closed, IsCycle
  <2>4. n \in T
    <3>1. CASE i = n
      <4>1. 1 \in T
        BY <1>1, <1>2, <3>1 DEF IsCycle
      <4>2. 1 .. n \subseteq T
        <5> HIDE DEF T
        <5> QED
          BY <1>1, <2>2, <4>1, Climbing
      <4> QED
        BY <1>1, <4>2
    <3>2. CASE i # n
      <4>1. i + 1 \in T /\ i + 1 \in Nat /\ i \in 1 .. (n - 1) /\ n \in (i + 1) .. n
        BY <1>1, <1>2, <2>1, <3>2
      <4>2. \A m \in (i + 1) .. (n - 1) : m \in 1 .. (n - 1)
        BY <1>1
      <4>3. (i + 1) .. n \subseteq T
        <5> HIDE DEF T, n
        <5> QED
          BY <1>1, <2>2, <4>1, <4>2, Climbing
      <4> QED
        BY <4>1, <4>3
    <3> QED
      BY <3>1, <3>2
  <2>5. 1 .. n \subseteq T
    <3> HIDE DEF T, n
    <3> QED
      BY <1>1, <2>2, <2>3, <2>4, Climbing
  <2> QED
    BY <1>1, <2>5
<1> QED
  BY <1>1, <1>2 DEF Reaches

(* Reports stay in the list. *)
ReportsStay == \A k \in DOMAIN cycles : k \in DOMAIN cycles' /\ cycles'[k] = cycles[k]

LEMMA KnotsStay ==
  ASSUME UNCHANGED graph, ReportsStay
  PROVE  Reaches' = Reaches /\ \A v : KnotReported(v) => KnotReported(v)'
<1>1. Reaches' = Reaches
  <2>1. size' = size /\ edges' = edges
    BY DEF graph
  <2>2. Node' = Node /\ (\A u, v : Linked(u, v)' <=> Linked(u, v))
    BY <2>1 DEF Node, Linked
  <2>3. \A s : Closed(s)' <=> Closed(s)
    BY <2>2 DEF Closed
  <2> QED
    BY <2>2, <2>3 DEF Reaches
<1>2. ASSUME NEW v, KnotReported(v) PROVE KnotReported(v)'
  BY <1>1, <1>2 DEF KnotReported, ReportsStay
<1> QED
  BY <1>1, <1>2

(* A step that leaves the report alone and makes no node black.            *)
LEMMA KnotsUntouched ==
  ASSUME IInv, KnotInv, UNCHANGED <<graph, cycles>>, phase # "idle",
         \A v \in Node : color'[v] = "black" => color[v] = "black"
  PROVE  DoneAreReported'
<1>1. Node' = Node /\ Reaches' = Reaches /\ \A v : KnotReported(v) => KnotReported(v)'
  <2>1. ReportsStay
    BY DEF ReportsStay
  <2> QED
    BY <2>1, KnotsStay DEF graph, Node
<1> QED
  BY <1>1 DEF KnotInv, DoneAreReported

(* The closed cycle is in the report, and the innermost call is on it.     *)
LEMMA ClosingReports ==
  ASSUME IInv, CloseCycle
  PROVE  ReportsStay /\ KnotReported(path[top])'
<1>1. /\ Scanning /\ mine /\ Report(edge.to) /\ UNCHANGED <<graph, path>>
      /\ color[edge.to] = "gray" /\ phase = "search"
  BY DEF CloseCycle, Scanning
<1>2. /\ path \in Seq(Node) /\ cycles \in Seq(Seq(Node)) /\ top \in DOMAIN path /\ top = Len(path)
      /\ edge.to \in Node
  BY <1>1, ScanFacts DEF IInv, TypeOK, top
<1>3. PICK k \in DOMAIN path : path[k] = edge.to
  BY <1>1, <1>2 DEF IInv, StackIsThePath
<1>4. k \in FirstOnPath(edge.to)
  <2>1. \A j \in 1 .. (k - 1) : j \in DOMAIN path /\ j # k
    BY <1>2
  <2> QED
    BY <1>3, <2>1 DEF FirstOnPath, IInv, StackIsThePath
<1>5. PICK l \in FirstOnPath(edge.to) : cycles' = Append(cycles, SubSeq(path, l, Len(path)))
  BY <1>1, <1>4 DEF Report
<1> DEFINE c == SubSeq(path, l, Len(path))
<1>6. c \in Seq(Node) /\ IsCycle(c)
  BY <1>1, ClosedPathIsCycle
<1>7. \E j \in DOMAIN c : c[j] = path[top]
  <2>1. l \in 1 .. top /\ \A m \in l .. top : path[m] \in Node
    BY <1>2 DEF FirstOnPath
  <2>2. Len(c) = top - l + 1 /\ \A m \in 1 .. (top - l + 1) : c[m] = path[l + m - 1]
    <3>1. l \in Int /\ top \in Int /\ l <= top
      BY <1>2, <2>1
    <3> QED
      BY <1>2, <2>1, <3>1, SubSeqProperties
  <2>3. DOMAIN c = 1 .. Len(c)
    BY <1>6
  <2> HIDE DEF c
  <2>4. top - l + 1 \in DOMAIN c /\ l + (top - l + 1) - 1 = top
    BY <1>2, <2>1, <2>2, <2>3
  <2> QED
    BY <2>2, <2>3, <2>4
<1>8. cycles' = Append(cycles, c)
  BY <1>5
<1> HIDE DEF c
<1>9. /\ \A j \in DOMAIN cycles : j \in DOMAIN cycles' /\ cycles'[j] = cycles[j]
      /\ Len(cycles) + 1 \in DOMAIN cycles' /\ cycles'[Len(cycles) + 1] = c
  BY <1>2, <1>6, <1>8, AppendProperties
<1>10. ReportsStay
  BY <1>9 DEF ReportsStay
<1>11. Reaches' = Reaches /\ path'[top'] = path[top]
  BY <1>1, <1>10, KnotsStay DEF top
<1>12. \A u \in Range(c) : {<<u, path[top]>>, <<path[top], u>>} \subseteq Reaches
  BY <1>6, <1>7, CycleIsKnot DEF Range
<1>13. KnotReported(path[top])'
  BY <1>9, <1>11, <1>12 DEF KnotReported
<1> QED
  BY <1>10, <1>13

(* A node on a cycle is not done before its knot is reported: the cycle's  *)
(* first edge leads back to the path, or to a node that is done.           *)
LEMMA LeavingReports ==
  ASSUME IInv, KnotInv, Leave, <<path[top], path[top]>> \in Reaches
  PROVE  KnotReported(path[top])
<1>1. /\ path \in Seq(Node) /\ path # <<>> /\ top \in DOMAIN path /\ top = Len(path)
      /\ path[top] \in Node /\ phase = "search" /\ scan[top] > Len(edges)
  BY DEF IInv, TypeOK, Leave, top
<1>2. scan[top] = Len(edges) + 1 /\ Len(edges) \in Nat /\ DOMAIN edges = 1 .. Len(edges)
  <2>1. scan[top] \in 1 .. (Len(edges) + 1) /\ Len(edges) \in Nat
    <3>1. scan \in Seq(1 .. (Len(edges) + 1)) /\ Len(scan) = Len(path) /\ Len(edges) \in Nat
      BY DEF IInv, TypeOK, IsGraph
    <3>2. top \in 1 .. Len(scan)
      BY <1>1, <3>1
    <3> QED
      BY <3>1, <3>2
  <2>2. DOMAIN edges = 1 .. Len(edges)
    BY DEF IInv, TypeOK, IsGraph
  <2> QED
    BY <1>1, <2>1, <2>2
<1>3. PICK w \in Node : Linked(path[top], w) /\ (w = path[top] \/ <<w, path[top]>> \in Reaches)
  BY ReachesFirstEdge
<1>4. PICK e \in DOMAIN edges : edges[e].from = path[top] /\ edges[e].to = w
  BY <1>3 DEF Linked
<1>5. color[w] = "black" \/ KnotReported(path[top])
  BY <1>1, <1>2, <1>4 DEF KnotInv, PassedAreSeen
<1>6. CASE color[w] = "black"
  <2>1. color[path[top]] = "gray"
    BY <1>1 DEF IInv, StackIsThePath
  <2>2. <<path[top], w>> \in Reaches /\ <<w, path[top]>> \in Reaches
    BY <1>1, <1>3, <1>6, <2>1, ReachesByEdge
  <2>3. <<w, w>> \in Reaches
    BY <2>2, ReachesTransitive
  <2>4. KnotReported(w)
    BY <1>1, <1>6, <2>3 DEF KnotInv, DoneAreReported
  <2>5. PICK k \in DOMAIN cycles :
          \A u \in Range(cycles[k]) : <<u, w>> \in Reaches /\ <<w, u>> \in Reaches
    BY <2>4 DEF KnotReported
  <2>6. \A u \in Range(cycles[k]) : <<u, path[top]>> \in Reaches /\ <<path[top], u>> \in Reaches
    BY <2>2, <2>5, ReachesTransitive
  <2> QED
    BY <2>6 DEF KnotReported
<1> QED
  BY <1>5, <1>6

(* An edge that a loop has passed leads to a node.                         *)
LEMMA PassedEdges ==
  ASSUME IInv, NEW k \in 1 .. top, NEW e \in 1 .. (scan[k] - 1)
  PROVE  edges[e].to \in Node
<1>1. /\ edges \in Seq(Range(edges)) /\ Len(edges) \in Nat /\ scan \in Seq(1 .. (Len(edges) + 1))
      /\ k \in 1 .. Len(scan) /\ \A i \in DOMAIN edges : edges[i].to \in Node
  BY DEF IInv, TypeOK, IsGraph, Node, top
<1>2. scan[k] \in 1 .. (Len(edges) + 1)
  BY <1>1
<1>3. e \in DOMAIN edges
  BY <1>1, <1>2
<1> QED
  BY <1>1, <1>3

LEMMA LeaveKeepsKnots ==
  ASSUME IInv, KnotInv, Leave
  PROVE  KnotInv'
<1>1. /\ path \in Seq(Node) /\ path # <<>> /\ color \in [Node -> {"white", "gray", "black"}]
      /\ scan \in Seq(1 .. (Len(edges) + 1)) /\ scan # <<>> /\ Len(scan) = Len(path)
      /\ phase = "search" /\ UNCHANGED <<graph, phase, root, cycles>>
  BY DEF IInv, TypeOK, Leave
<1>2. /\ Len(path') = top - 1 /\ top \in Nat \ {0} /\ path[top] \in Node
      /\ \A k \in 1 .. (top - 1) : path'[k] = path[k] /\ scan'[k] = scan[k]
      /\ DOMAIN path = 1 .. top /\ DOMAIN path' = 1 .. (top - 1)
  BY <1>1, FrontProperties DEF Leave, top
<1>3. /\ Node' = Node /\ edges' = edges /\ Reaches' = Reaches
      /\ \A v : KnotReported(v) => KnotReported(v)'
  <2>1. ReportsStay
    BY <1>1 DEF ReportsStay
  <2> QED
    BY <1>1, <2>1, KnotsStay DEF graph, Node
<1>4. \A v \in Node : color'[v] = IF v = path[top] THEN "black" ELSE color[v]
  BY <1>1 DEF Leave
<1>5. PassedAreSeen'
  <2> SUFFICES ASSUME NEW k \in 1 .. (top - 1), NEW e \in 1 .. (scan[k] - 1), edges[e].from = path[k]
               PROVE  \/ color'[edges[e].to] = "black"
                      \/ k < top' /\ edges[e].to = path'[k + 1]
                      \/ KnotReported(path[k])'
    BY <1>2, <1>3 DEF PassedAreSeen
  <2>1. \/ color[edges[e].to] = "black"
        \/ k < top /\ edges[e].to = path[k + 1]
        \/ KnotReported(path[k])
    BY <1>2 DEF KnotInv, PassedAreSeen
  <2>2. CASE color[edges[e].to] = "black"
    <3>1. edges[e].to \in Node
      BY <1>2, PassedEdges
    <3> QED
      BY <1>4, <2>2, <3>1
  <2>3. CASE k < top /\ edges[e].to = path[k + 1]
    <3>1. CASE k + 1 = top
      BY <1>2, <1>4, <2>3, <3>1
    <3>2. CASE k + 1 # top
      <4>1. k + 1 \in 1 .. (top - 1) /\ k < top - 1 /\ top' = top - 1
        BY <1>2, <3>2 DEF top
      <4> QED
        BY <1>2, <2>3, <4>1
    <3> QED
      BY <3>1, <3>2
  <2>4. CASE KnotReported(path[k])
    BY <1>1, <1>2, <1>3, <2>4 DEF KnotReported
  <2> QED
    BY <2>1, <2>2, <2>3, <2>4
<1>6. DoneAreReported'
  <2>1. <<path[top], path[top]>> \in Reaches => KnotReported(path[top])
    BY LeavingReports
  <2> QED
    BY <1>1, <1>3, <1>4, <2>1 DEF KnotInv, DoneAreReported
<1>7. RootsAreVisited'
  <2>1. \A v \in 1 .. (root - 1) : v \in Node
    BY DEF IInv, TypeOK, IsGraph, Node
  <2> QED
    BY <1>1, <1>4, <2>1 DEF KnotInv, RootsAreVisited
<1> QED
  BY <1>5, <1>6, <1>7 DEF KnotInv

(* The edges that a loop has passed when it moves on.                      *)
LEMMA PassedByAdvancing ==
  ASSUME IInv, Scanning, NEW k \in 1 .. top, NEW e \in 1 .. (advanced[k] - 1)
  PROVE  e \in 1 .. (scan[k] - 1) \/ (k = top /\ e = scan[top])
<1>1. scan \in Seq(1 .. (Len(edges) + 1)) /\ Len(scan) = top /\ Len(edges) \in Nat
  BY DEF IInv, TypeOK, IsGraph, top
<1>2. scan[k] \in 1 .. (Len(edges) + 1) /\ top \in 1 .. Len(scan)
  BY <1>1, ScanFacts
<1>3. advanced[k] = IF k = top THEN scan[top] + 1 ELSE scan[k]
  BY <1>1 DEF advanced
<1> QED
  BY <1>2, <1>3

(* A loop that moves on past an edge that leads to a node that is done,    *)
(* that is another node's, or that closed a cycle.                         *)
LEMMA AdvanceKeepsKnots ==
  ASSUME IInv, KnotInv, Scanning, scan' = advanced, UNCHANGED <<graph, phase, root, color, path>>,
         ReportsStay, mine => color[edge.to] = "black" \/ KnotReported(path[top])'
  PROVE  KnotInv'
<1>1. /\ Node' = Node /\ edges' = edges /\ Reaches' = Reaches /\ path' = path /\ color' = color
      /\ \A v : KnotReported(v) => KnotReported(v)'
  BY KnotsStay DEF graph, Node
<1>2. top \in Nat /\ DOMAIN path = 1 .. top
  BY DEF IInv, TypeOK, top
<1>3. PassedAreSeen'
  <2> SUFFICES ASSUME NEW k \in 1 .. top, NEW e \in 1 .. (advanced[k] - 1), edges[e].from = path[k]
               PROVE  \/ color[edges[e].to] = "black"
                      \/ k < top /\ edges[e].to = path[k + 1]
                      \/ KnotReported(path[k])'
    BY <1>1, <1>2 DEF PassedAreSeen, top
  <2>1. CASE e \in 1 .. (scan[k] - 1)
    <3>1. \/ color[edges[e].to] = "black"
          \/ k < top /\ edges[e].to = path[k + 1]
          \/ KnotReported(path[k])
      BY <1>2, <2>1 DEF KnotInv, PassedAreSeen
    <3>2. KnotReported(path[k]) => KnotReported(path[k])'
      BY <1>1 DEF KnotReported, ReportsStay
    <3> QED
      BY <3>1, <3>2
  <2>2. CASE k = top /\ e = scan[top]
    <3>1. color[edges[e].to] = "black" \/ KnotReported(path[top])'
      BY <2>2 DEF mine, edge
    <3>2. path' = path /\ top' = top
      BY <1>1 DEF top
    <3>3. KnotReported(path[top])' => KnotReported(path[k])'
      BY <2>2, <3>2 DEF KnotReported
    <3> QED
      BY <3>1, <3>3
  <2> QED
    BY <2>1, <2>2, PassedByAdvancing
<1>4. DoneAreReported'
  BY <1>1 DEF KnotInv, DoneAreReported
<1>5. RootsAreVisited'
  BY DEF KnotInv, RootsAreVisited, graph
<1> QED
  BY <1>3, <1>4, <1>5 DEF KnotInv

(* A call that starts has passed no edge, and its node is the one that the *)
(* caller's edge leads to.                                                 *)
LEMMA DescendKeepsKnots ==
  ASSUME IInv, KnotInv, Descend
  PROVE  KnotInv'
<1>1. /\ Scanning /\ mine /\ color[edge.to] = "white" /\ edge.to \in Node /\ phase = "search"
      /\ Enter(edge.to, advanced) /\ UNCHANGED <<graph, phase, root, cycles>>
  BY ScanFacts DEF Descend, Scanning
<1>2. /\ path \in Seq(Node) /\ color \in [Node -> {"white", "gray", "black"}]
      /\ advanced \in Seq(1 .. (Len(edges) + 1)) /\ Len(advanced) = top /\ Len(edges) \in Nat
  BY <1>1, AdvanceFacts DEF IInv, TypeOK, IsGraph, top
<1>3. /\ path' = Append(path, edge.to) /\ scan' = Append(advanced, 1)
      /\ \A v \in Node : color'[v] = IF v = edge.to THEN "gray" ELSE color[v]
  BY <1>1, <1>2 DEF Enter
<1>4. /\ Node' = Node /\ edges' = edges /\ Reaches' = Reaches /\ cycles' = cycles
      /\ \A v : KnotReported(v) => KnotReported(v)'
  <2>1. ReportsStay
    BY <1>1 DEF ReportsStay
  <2> QED
    BY <1>1, <2>1, KnotsStay DEF graph, Node
<1>5. /\ top \in Nat \ {0} /\ top' = top + 1 /\ DOMAIN path = 1 .. top /\ DOMAIN path' = 1 .. (top + 1)
      /\ path'[top + 1] = edge.to /\ \A k \in 1 .. top : path'[k] = path[k]
  BY <1>1, <1>2, <1>3, ScanFacts, AppendProperties DEF top
<1>6. scan'[top + 1] = 1 /\ \A k \in 1 .. top : scan'[k] = advanced[k]
  <2>1. 1 \in 1 .. (Len(edges) + 1)
    BY <1>2
  <2> QED
    BY <1>2, <1>3, <2>1, AppendProperties
<1>7. PassedAreSeen'
  <2> SUFFICES ASSUME NEW k \in 1 .. (top + 1), NEW e \in 1 .. (scan'[k] - 1), edges[e].from = path'[k]
               PROVE  \/ color'[edges[e].to] = "black"
                      \/ k < top + 1 /\ edges[e].to = path'[k + 1]
                      \/ KnotReported(path[k])'
    BY <1>4, <1>5 DEF PassedAreSeen
  <2>1. k \in 1 .. top /\ e \in 1 .. (advanced[k] - 1)
    <3>1. k # top + 1
      BY <1>6
    <3>2. k \in 1 .. top
      BY <1>5, <3>1
    <3> QED
      BY <1>6, <3>2
  <2>2. CASE e \in 1 .. (scan[k] - 1)
    <3>1. \/ color[edges[e].to] = "black"
          \/ k < top /\ edges[e].to = path[k + 1]
          \/ KnotReported(path[k])
      BY <1>5, <2>1, <2>2 DEF KnotInv, PassedAreSeen
    <3>2. color[edges[e].to] = "black" => color'[edges[e].to] = "black"
      BY <1>1, <1>3, <2>1, <2>2, PassedEdges
    <3>3. k < top => k + 1 \in 1 .. top /\ path'[k + 1] = path[k + 1]
      BY <1>5, <2>1
    <3>4. KnotReported(path[k]) => KnotReported(path[k])'
      BY <1>4, <1>5, <2>1 DEF KnotReported
    <3> QED
      BY <1>5, <2>1, <3>1, <3>2, <3>3, <3>4
  <2>3. CASE k = top /\ e = scan[top]
    BY <1>5, <2>3 DEF edge
  <2> QED
    BY <1>1, <2>1, <2>2, <2>3, PassedByAdvancing
<1>8. DoneAreReported'
  <2>1. \A v \in Node : color'[v] = "black" => color[v] = "black"
    BY <1>3
  <2> QED
    BY <1>1, <2>1, KnotsUntouched
<1>9. RootsAreVisited'
  <2>1. \A v \in 1 .. (root - 1) : v \in Node
    BY DEF IInv, TypeOK, IsGraph, Node
  <2> QED
    BY <1>1, <1>3, <2>1 DEF KnotInv, RootsAreVisited
<1> QED
  BY <1>7, <1>8, <1>9 DEF KnotInv

(* A search from the next node, or none if it has been visited.            *)
LEMMA NextRootKeepsKnots ==
  ASSUME IInv, KnotInv, NextRoot
  PROVE  KnotInv'
<1>1. /\ phase = "search" /\ path = <<>> /\ root' = root + 1 /\ root \in Node /\ root \in Nat
      /\ UNCHANGED <<graph, phase, cycles>> /\ Node' = Node /\ edges' = edges
      /\ color \in [Node -> {"white", "gray", "black"}]
  BY DEF NextRoot, IInv, TypeOK, IsGraph, Node, graph
<1>2. root \in 1 .. size /\ root' = root + 1 /\ size \in Nat
  BY DEF NextRoot, IInv, TypeOK, IsGraph
<1>3. CASE color[root] = "white"
  <2>1. /\ \A v \in Node : color'[v] = IF v = root THEN "gray" ELSE color[v]
        /\ path' = <<root>> /\ scan' = <<1>>
    BY <1>1, <1>3 DEF NextRoot, Enter
  <2>2. PassedAreSeen'
    BY <2>1 DEF PassedAreSeen
  <2>3. DoneAreReported'
    <3>1. \A v \in Node : color'[v] = "black" => color[v] = "black"
      BY <2>1
    <3> QED
      BY <1>1, <3>1, KnotsUntouched
  <2>4. RootsAreVisited'
    <3>1. \A v \in 1 .. (root' - 1) : v \in 1 .. size /\ (v = root \/ v \in 1 .. (root - 1))
      BY <1>2
    <3>2. \A v \in 1 .. (root' - 1) : color'[v] # "white"
      <4> SUFFICES ASSUME NEW v \in 1 .. (root' - 1) PROVE color'[v] # "white"
        OBVIOUS
      <4>1. v \in Node /\ color'[v] = IF v = root THEN "gray" ELSE color[v]
        BY <2>1, <3>1 DEF Node
      <4>2. CASE v = root
        BY <4>1, <4>2
      <4>3. CASE v # root
        BY <1>1, <3>1, <4>1, <4>3 DEF KnotInv, RootsAreVisited
      <4> QED
        BY <4>2, <4>3
    <3> QED
      BY <1>1, <3>2 DEF RootsAreVisited
  <2> QED
    BY <2>2, <2>3, <2>4 DEF KnotInv
<1>4. CASE color[root] # "white"
  <2>1. UNCHANGED <<color, path, scan>>
    BY <1>1, <1>4 DEF NextRoot
  <2>2. PassedAreSeen'
    BY <1>1, <2>1 DEF PassedAreSeen
  <2>3. DoneAreReported'
    BY <1>1, <2>1, KnotsUntouched
  <2>4. RootsAreVisited'
    <3>1. \A v \in 1 .. (root' - 1) : v = root \/ v \in 1 .. (root - 1)
      BY <1>1
    <3>2. \A v \in 1 .. (root' - 1) : color'[v] # "white"
      BY <1>1, <1>4, <2>1, <3>1 DEF KnotInv, RootsAreVisited
    <3> QED
      BY <1>1, <3>2 DEF RootsAreVisited
  <2> QED
    BY <2>2, <2>3, <2>4 DEF KnotInv
<1> QED
  BY <1>3, <1>4

(* Every step keeps what the search knows of the knots.                    *)
LEMMA KnotStep == IInv /\ KnotInv /\ [Next]_vars => KnotInv'
<1> SUFFICES ASSUME IInv, KnotInv, [Next]_vars PROVE KnotInv'
  OBVIOUS
<1>1. CASE Start
  <2>1. /\ phase = "idle" /\ phase' = "search" /\ color' = [v \in Node |-> "white"]
        /\ path' = <<>> /\ root' = 1 /\ Node' = Node
    BY <1>1 DEF Start, IInv, KnotInv, RootsAreVisited, graph, Node
  <2>2. PassedAreSeen'
    BY <2>1 DEF PassedAreSeen
  <2>3. DoneAreReported'
    BY <2>1 DEF DoneAreReported
  <2>4. RootsAreVisited'
    BY <2>1 DEF RootsAreVisited
  <2> QED
    BY <2>2, <2>3, <2>4 DEF KnotInv
<1>2. CASE NextRoot
  BY <1>2, NextRootKeepsKnots
<1>3. CASE PassEdge
  <2>1. ReportsStay
    BY <1>3 DEF PassEdge, ReportsStay
  <2> QED
    BY <1>3, <2>1, AdvanceKeepsKnots DEF PassEdge
<1>4. CASE Descend
  BY <1>4, DescendKeepsKnots
<1>5. CASE CloseCycle
  BY <1>5, ClosingReports, AdvanceKeepsKnots DEF CloseCycle
<1>6. CASE Leave
  BY <1>6, LeaveKeepsKnots
<1>7. CASE Finish
  <2>1. /\ phase = "search" /\ path' = <<>> /\ phase' = "done" /\ root > size
        /\ UNCHANGED <<graph, root, color, cycles>> /\ size' = size
    BY <1>7 DEF Finish, graph
  <2>2. PassedAreSeen'
    BY <2>1 DEF PassedAreSeen
  <2>3. DoneAreReported'
    BY <2>1, KnotsUntouched
  <2>4. RootsAreVisited'
    BY <2>1 DEF RootsAreVisited, KnotInv, IInv, TypeOK, IsGraph
  <2> QED
    BY <2>2, <2>3, <2>4 DEF KnotInv
<1>8. CASE UNCHANGED vars
  <2>1. UNCHANGED <<size, edges, phase, root, color, path, scan, cycles>>
    BY <1>8 DEF vars, graph, search
  <2>2. ReportsStay
    BY <2>1 DEF ReportsStay
  <2>3. Node' = Node /\ Reaches' = Reaches /\ \A v : KnotReported(v) => KnotReported(v)'
    BY <2>1, <2>2, KnotsStay DEF graph, Node
  <2>4. PassedAreSeen'
    BY <2>1, <2>3 DEF PassedAreSeen, KnotReported, KnotInv, top
  <2>5. DoneAreReported'
    BY <2>1, <2>3 DEF DoneAreReported, KnotInv
  <2>6. RootsAreVisited'
    BY <2>1 DEF RootsAreVisited, KnotInv
  <2> QED
    BY <2>4, <2>5, <2>6 DEF KnotInv
<1> QED
  BY <1>1, <1>2, <1>3, <1>4, <1>5, <1>6, <1>7, <1>8 DEF Next

LEMMA KnotInit == InitSearch => KnotInv
<1> SUFFICES ASSUME InitSearch PROVE KnotInv
  OBVIOUS
<1>1. phase = "idle" /\ root = 1 /\ DOMAIN path = {}
  BY DEF InitSearch
<1> QED
  BY <1>1 DEF KnotInv, PassedAreSeen, DoneAreReported, RootsAreVisited

(* When the search is over every node is done.                             *)
LEMMA KnotsFollow == IInv /\ KnotInv => EveryKnotIsReported
<1> SUFFICES ASSUME IInv, KnotInv, phase = "done", NEW v \in Node, <<v, v>> \in Reaches
             PROVE  KnotReported(v)
  BY DEF EveryKnotIsReported
<1>1. color[v] \in {"white", "gray", "black"} /\ size \in Nat
  BY DEF IInv, TypeOK, IsGraph
<1>2. color[v] # "gray"
  BY DEF IInv, StackIsThePath
<1>3. color[v] # "white"
  BY <1>1 DEF KnotInv, RootsAreVisited, Node
<1> QED
  BY <1>1, <1>2, <1>3 DEF KnotInv, DoneAreReported

(* The report is empty if and only if nothing goes round in a circle.      *)
LEMMA ReportIsExact ==
  ASSUME IInv, KnotInv, phase = "done"
  PROVE  cycles # <<>> <=> \E v \in Node : <<v, v>> \in Reaches
<1>1. cycles \in Seq(Seq(Node))
  BY DEF IInv, TypeOK
<1>2. ASSUME NEW v \in Node, <<v, v>> \in Reaches PROVE cycles # <<>>
  BY <1>2, KnotsFollow DEF EveryKnotIsReported, KnotReported
<1>3. ASSUME cycles # <<>> PROVE \E v \in Node : <<v, v>> \in Reaches
  <2>1. 1 \in DOMAIN cycles /\ cycles[1] \in Seq(Node) /\ IsCycle(cycles[1])
    BY <1>1, <1>3 DEF IInv, ReportedCyclesAreReal
  <2>2. 1 \in DOMAIN cycles[1] /\ cycles[1][1] \in Node
    BY <2>1 DEF IsCycle
  <2>3. <<cycles[1][1], cycles[1][1]>> \in Reaches
    BY <2>1, <2>2, CycleIsKnot
  <2> QED
    BY <2>2, <2>3
<1> QED
  BY <1>2, <1>3

(* Whatever the graph and the order of its edges, no part of it that goes  *)
(* round in a circle is missing from the report.                           *)
THEOREM KnotsCorrect == Spec => []EveryKnotIsReported
<1>1. Init => KnotInv
  BY KnotInit DEF Init
<1> QED
  BY <1>1, InitInv, StepInv, KnotStep, KnotsFollow, PTL DEF Spec, vars

(***************************************************************************)
(* The search cannot go on for ever: what is left to do, the first number  *)
(* counting most.  A node is entered once; a call that returns leaves a    *)
(* shorter path; and a loop only goes forward.                             *)
(***************************************************************************)
Stage == IF phase = "idle" THEN 2 ELSE IF phase = "search" THEN 1 ELSE 0
White == {v \in DOMAIN color : color[v] = "white"}
RootsLeft == size + 1 - root
EdgesLeft == IF path = <<>> THEN 0 ELSE Len(edges) + 1 - scan[top]

LeftIsFinite ==
  /\ Stage \in Nat /\ IsFiniteSet(White) /\ Cardinality(White) \in Nat
  /\ RootsLeft \in Nat /\ Len(path) \in Nat /\ EdgesLeft \in Nat

LessIsLeft ==
  \/ Stage' < Stage
  \/ /\ Stage' = Stage
     /\ \/ Cardinality(White') < Cardinality(White)
        \/ White' = White /\ RootsLeft' < RootsLeft
        \/ White' = White /\ RootsLeft' = RootsLeft /\ Len(path') < Len(path)
        \/ White' = White /\ RootsLeft' = RootsLeft /\ path' = path /\ EdgesLeft' < EdgesLeft

LEMMA LeftFinite ==
  ASSUME IInv
  PROVE  LeftIsFinite
<1>1. size \in Nat /\ Len(edges) \in Nat /\ root \in 1 .. (size + 1) /\ Len(path) \in Nat
  BY DEF IInv, TypeOK, IsGraph
<1>2. IsFiniteSet(White) /\ Cardinality(White) \in Nat
  <2>1. IsFiniteSet(Node)
    <3>1. \A n \in Nat : IsFiniteSet(1 .. n)
      BY FS_Interval
    <3> QED
      BY <1>1, <3>1 DEF Node
  <2>2. White \subseteq Node
    BY DEF IInv, TypeOK, White
  <2> QED
    BY <2>1, <2>2, FS_Subset, FS_CardinalityType
<1>3. EdgesLeft \in Nat
  <2>1. CASE path = <<>>
    BY <2>1 DEF EdgesLeft
  <2>2. CASE path # <<>>
    <3>1. scan \in Seq(1 .. (Len(edges) + 1)) /\ Len(scan) = Len(path) /\ Len(path) \in 1 .. Len(path)
      BY <2>2 DEF IInv, TypeOK
    <3>2. scan[top] \in 1 .. (Len(edges) + 1)
      BY <3>1 DEF top
    <3> QED
      BY <1>1, <2>2, <3>2 DEF EdgesLeft
  <2> QED
    BY <2>1, <2>2
<1>4. Stage \in Nat
  BY DEF Stage
<1> QED
  BY <1>1, <1>2, <1>3, <1>4 DEF LeftIsFinite, RootsLeft

(* A call is made on a white node, which is gray from then on.             *)
LEMMA EnterLeavesLess ==
  ASSUME IInv, phase = "search", NEW v \in Node, color[v] = "white", NEW callers, Enter(v, callers)
  PROVE  Cardinality(White') < Cardinality(White)
<1>1. color \in [Node -> {"white", "gray", "black"}] /\ color' = [color EXCEPT ![v] = "gray"]
  BY DEF IInv, TypeOK, Enter
<1>2. White' = White \ {v} /\ v \in White
  BY <1>1 DEF White
<1>3. IsFiniteSet(White)
  BY LeftFinite DEF LeftIsFinite
<1>4. Cardinality(White \ {v}) = Cardinality(White) - 1 /\ Cardinality(White) \in Nat
  BY <1>2, <1>3, FS_RemoveElement, FS_CardinalityType
<1> QED
  BY <1>2, <1>4

LEMMA LoopLeavesLess ==
  ASSUME IInv, Scanning, scan' = advanced, UNCHANGED <<graph, phase, root, color, path>>
  PROVE  LessIsLeft
<1>1. scan[top] \in Nat /\ Len(edges) \in Nat /\ path # <<>> /\ top \in DOMAIN scan
  BY ScanFacts DEF IInv, TypeOK, IsGraph, Scanning, top
<1>2. scan'[top] = scan[top] + 1
  BY <1>1 DEF advanced
<1>3. EdgesLeft = Len(edges) + 1 - scan[top] /\ EdgesLeft' = Len(edges) + 1 - scan'[top]
  BY <1>1 DEF EdgesLeft, top, graph
<1>4. Stage' = Stage /\ White' = White /\ RootsLeft' = RootsLeft /\ path' = path
  BY DEF Stage, White, RootsLeft, graph
<1> QED
  BY <1>1, <1>2, <1>3, <1>4 DEF LessIsLeft

LEMMA StepLeavesLess ==
  ASSUME IInv, Next
  PROVE  LessIsLeft
<1>1. CASE Start \/ Finish
  BY <1>1 DEF Start, Finish, Stage, LessIsLeft
<1>2. CASE NextRoot
  <2>1. /\ phase = "search" /\ phase' = phase /\ size' = size /\ root' = root + 1 /\ root <= size
        /\ size \in Nat /\ root \in Nat /\ root \in Node
    BY <1>2 DEF NextRoot, graph, IInv, TypeOK, IsGraph, Node
  <2>2. Stage' = Stage /\ RootsLeft' < RootsLeft
    BY <2>1 DEF Stage, RootsLeft
  <2>3. CASE color[root] = "white"
    BY <1>2, <2>1, <2>2, <2>3, EnterLeavesLess DEF NextRoot, LessIsLeft
  <2>4. CASE color[root] # "white"
    <3>1. White' = White
      BY <1>2, <2>4 DEF NextRoot, White
    <3> QED
      BY <2>2, <3>1 DEF LessIsLeft
  <2> QED
    BY <2>3, <2>4
<1>3. CASE PassEdge \/ CloseCycle
  BY <1>3, LoopLeavesLess DEF PassEdge, CloseCycle
<1>4. CASE Descend
  <2>1. phase = "search" /\ phase' = phase /\ edge.to \in Node /\ color[edge.to] = "white"
    BY <1>4, ScanFacts DEF Descend, Scanning
  <2>2. Cardinality(White') < Cardinality(White)
    BY <1>4, <2>1, EnterLeavesLess DEF Descend
  <2> QED
    BY <2>1, <2>2 DEF Stage, LessIsLeft
<1>5. CASE Leave
  <2>1. /\ phase = "search" /\ UNCHANGED <<graph, phase, root>> /\ path # <<>> /\ path \in Seq(Node)
        /\ color' = [color EXCEPT ![path[top]] = "black"] /\ path' = Front(path)
        /\ color \in [Node -> {"white", "gray", "black"}]
    BY <1>5 DEF Leave, IInv, TypeOK
  <2>2. path[top] \in Node /\ top \in DOMAIN path
    BY <2>1 DEF top
  <2>3. color[path[top]] = "gray"
    BY <2>1, <2>2 DEF IInv, StackIsThePath
  <2>4. White' = White
    BY <2>1, <2>2, <2>3 DEF White
  <2>5. Len(path') = Len(path) - 1 /\ Len(path) \in Nat
    BY <2>1, FrontProperties
  <2>6. Stage' = Stage /\ RootsLeft' = RootsLeft
    BY <2>1 DEF Stage, RootsLeft, graph
  <2> QED
    BY <2>4, <2>5, <2>6 DEF LessIsLeft
<1> QED
  BY <1>1, <1>2, <1>3, <1>4, <1>5 DEF Next

(* Every step of the search leaves less to do, and what is left is always  *)
(* given by natural numbers: find_cycles() ends after finitely many steps, *)
(* on every graph.                                                         *)
THEOREM SearchRunsOut == Spec => []LeftIsFinite /\ [][LessIsLeft]_vars
<1>1. IInv => LeftIsFinite
  BY LeftFinite
<1>2. IInv /\ [Next]_vars => [LessIsLeft]_vars
  BY StepLeavesLess
<1> QED
  BY <1>1, <1>2, Inductive, PTL DEF Spec, vars
=============================================================================
