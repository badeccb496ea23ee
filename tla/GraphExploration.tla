-------------------------- MODULE GraphExploration --------------------------
(***************************************************************************)
(* What build_dependency_graph() promises, whatever the order of its walk  *)
(* and whatever happens to the files meanwhile: a set of files that grows  *)
(* from the root along dependencies, at most MaxNodes of them, at most one *)
(* link for each name a file lists, and one verdict that is final.         *)
(***************************************************************************)
EXTENDS Integers, FiniteSets

CONSTANTS
  File, Name, MaxNodes,
  RootKeys   \* the names that the first file may go by

VARIABLES
  known,     \* the files in the graph
  links,     \* <<file, name, file>>: the first needs the second by that name
  verdict    \* "none" until the walk has ended

Init == known = {} /\ links = {} /\ verdict = "none"

Discover ==
  /\ verdict = "none" /\ known = {}
  /\ \E root \in RootKeys : known' = {root}
  /\ UNCHANGED <<links, verdict>>

Follow ==
  /\ verdict = "none"
  /\ \E from \in known, name \in Name, to \in File :
       /\ \A other \in File : <<from, name, other>> \notin links
       /\ to \notin known => Cardinality(known) < MaxNodes
       /\ known' = known \cup {to}
       /\ links' = links \cup {<<from, name, to>>}
  /\ UNCHANGED verdict

Fail ==
  /\ verdict = "none" /\ known = {}
  /\ verdict' \in {"FileNotFound", "RootFailed"}
  /\ UNCHANGED <<known, links>>

Overflow ==
  /\ verdict = "none" /\ Cardinality(known) = MaxNodes
  /\ verdict' = "LimitExceeded"
  /\ UNCHANGED <<known, links>>

Complete ==
  /\ verdict = "none" /\ known \cap RootKeys # {}
  /\ verdict' = "Graph"
  /\ UNCHANGED <<known, links>>

Next == Discover \/ Follow \/ Fail \/ Overflow \/ Complete

vars == <<known, links, verdict>>

Safety == Init /\ [][Next]_vars

Spec == Safety /\ WF_vars(Complete \/ Overflow \/ Fail)
=============================================================================
