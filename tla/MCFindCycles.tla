---------------------------- MODULE MCFindCycles ----------------------------
(***************************************************************************)
(* Every graph of at most MaxSize nodes with at most MaxEdges edges, in    *)
(* every order, loops and parallel edges included.                         *)
(***************************************************************************)
EXTENDS FindCycles

CONSTANTS MaxSize, MaxEdges

MCGraphs ==
  UNION {{[size |-> n, edges |-> e] :
            e \in UNION {[1 .. m -> [from : 1 .. n, to : 1 .. n]] : m \in 0 .. MaxEdges}}
         : n \in 1 .. MaxSize}
=============================================================================
