-------------------------- MODULE DependencyReport --------------------------
(***************************************************************************)
(* The whole of build_dependency_graph(): the walk of DependencyGraph,     *)
(* then the search of FindCycles over the edges it found.  The reference   *)
(* below says which graph a set of files has, by distance from the root;   *)
(* here the files stay as they are, and the report must be exactly that.   *)
(***************************************************************************)
EXTENDS DependencyGraph

VARIABLES phase, root, color, path, scan, cycles

Cycles == INSTANCE FindCycles WITH Graphs <- {}, size <- Len(nodes)

report == <<phase, root, color, path, scan, cycles>>

InitReport == Init /\ Cycles!InitSearch

WalkStep == Step /\ UNCHANGED report

FindCyclesInGraph ==
  /\ outcome = "Graph"
  /\ UNCHANGED vars
  /\ Cycles!Next

Program == WalkStep \/ FindCyclesInGraph

SpecReport == InitReport /\ [][Program]_<<vars, report>> /\ WF_<<vars, report>>(Program)

(***************************************************************************)
(* Reference: what the files on disk d say.                                *)
(***************************************************************************)
TargetsOf(d, file, name) == ResolvesTo(d, Directory(file), Directory(rootFile), name)

NamesIn(d, file) == IF CanOpen(d, file) THEN Range(d[file].needs) ELSE {}

Needs(d, file) == UNION {TargetsOf(d, file, name) : name \in NamesIn(d, file)}

(* One step further from the root, to the files that open.                 *)
Further(d, files) ==
  files \cup {g \in UNION {Needs(d, f) : f \in files} : CanOpen(d, g)}

(* The files within so many steps of the root.                             *)
Within(d) ==
  LET near[k \in 0 .. (MaxDepth + 1)] ==
        IF k = 0 THEN {rootFile} ELSE Further(d, near[k - 1])
  IN  near

ExpandedFiles(d) == Within(d)[MaxDepth]

LinksOfFiles(d) ==
  {l \in ExpandedFiles(d) \X Name \X File :
     l[2] \in NamesIn(d, l[1]) /\ l[3] \in TargetsOf(d, l[1], l[2]) /\ CanOpen(d, l[3])}

(* The files to which these links lead from f, over at least one of them:  *)
(* those in every set that holds where f's links and its own links lead.   *)
Onward(d, f) ==
  LET all == LinksOfFiles(d)
  IN  {g \in File : \A s \in SUBSET File :
                      (\A l \in all : l[1] \in {f} \cup s => l[3] \in s) => g \in s}

(***************************************************************************)
(*                              PROPERTIES                                 *)
(***************************************************************************)
LinksReported == {link(edges[k]) : k \in DOMAIN edges}

(* The graph holds every file within MaxDepth + 1 steps of the root and    *)
(* every dependency between them that the limit lets the walk look at: the *)
(* order of the walk, links to the same file and repeated names lose none. *)
GraphIsComplete ==
  outcome = "Graph" =>
    /\ Range(nodes) = Within(disk)[MaxDepth + 1]
    /\ LinksReported = LinksOfFiles(disk)

(* A name is reported as unresolved if and only if some file the walk      *)
(* looked into needs it and finds nothing.                                 *)
UnresolvedIsExact ==
  outcome = "Graph" =>
    unresolved = {n \in Name : \E f \in ExpandedFiles(disk) :
                                 n \in NamesIn(disk, f) /\ TargetsOf(disk, f, n) = {}}

(* The walk only gives up when there are too many files: those of the      *)
(* graph and one more, which need not even open.                           *)
LimitIsGenuine ==
  outcome = "LimitExceeded" =>
    Cardinality({rootFile} \cup UNION {Needs(disk, f) : f \in ExpandedFiles(disk)}) > MaxNodes

(* Cycles are reported if and only if files need each other in a circle.   *)
CyclesAreExact ==
  phase = "done" => (cycles # <<>> <=> \E f \in File : f \in Onward(disk, f))

(* Once the walk has ended with a graph the cycles are searched, and that  *)
(* search ends as well.                                                    *)
ReportIsMade == <>(outcome \notin {"none", "Graph"} \/ phase = "done")
(***************************************************************************)
(* What the walk keeps true while the files stay as they are, so that the  *)
(* above follows.                                                          *)
(***************************************************************************)
(* What was found is there: depths in the queue are lengths of ways.       *)
FoundIsThere ==
  /\ \A v \in NodeId : CanOpen(disk, nodes[v])
  /\ \A i \in DOMAIN queue : nodes[queue[i].id] \in Within(disk)[queue[i].depth]
  /\ current.id # 0 => /\ current.id \in expanded
                       /\ nodes[current.id] \in Within(disk)[current.depth]
  /\ \A v \in expanded : nodes[v] \in ExpandedFiles(disk)
  /\ LinksReported \subseteq LinksOfFiles(disk)
  /\ \A n \in unresolved : \E f \in ExpandedFiles(disk) :
       n \in NamesIn(disk, f) /\ TargetsOf(disk, f, n) = {}

(* The names at hand are the ones that the current file needs.             *)
NamesAreCurrent ==
  /\ todo # {} => Range(deps) = NamesIn(disk, nodes[current.id])
  /\ pc = "try" => try > 0 /\ \A i \in 1 .. (try - 1) : ~IsRegularFile(disk, candidates[i])
  /\ pc \in {"found", "real"} =>
       IsRegularFile(disk, target) /\ FileOf(target) \in TargetsOf(disk, nodes[current.id], deps[use])
  /\ pc \in {"add", "open"} => target \in TargetsOf(disk, nodes[current.id], deps[use])
  /\ pc = "open" => key = target

(* While the files stay as they are a link is never a key.                 *)
KeysAreFiles ==
  /\ pc \in {"root", "openRoot"} => CanOpen(disk, Root)
  /\ pc = "openRoot" => key = rootFile
  /\ \A v \in NodeId : nodes[v] \in File
  /\ nodes # <<>> => nodes[1] = rootFile

(* What is there is found: every name of a file that was expanded has its  *)
(* link or is unresolved, or is still to come.                             *)
Handled(f, n) ==
  /\ TargetsOf(disk, f, n) = {} => n \in unresolved
  /\ \A g \in TargetsOf(disk, f, n) : CanOpen(disk, g) => <<f, n, g>> \in LinksReported

NamesAreHandled ==
  \A v \in expanded : \A n \in NamesIn(disk, nodes[v]) :
    Handled(nodes[v], n) \/ (v = current.id /\ \E i \in todo : deps[i] = n)

(* The walk goes from level to level: the files of the current one are     *)
(* expanded or in the queue, and above the last one no node is left out.   *)
Queued(v) == \E i \in DOMAIN queue : queue[i].id = v
QueuedAt(v, depth) == \E i \in DOMAIN queue : queue[i].id = v /\ queue[i].depth = depth

LevelsInOrder ==
  nodes # <<>> =>
    /\ \A f \in Within(disk)[current.depth] : \E v \in NodeId :
         nodes[v] = f /\ (v \in expanded \/ QueuedAt(v, current.depth))
    /\ current.depth < MaxDepth => \A v \in NodeId : v \in expanded \/ Queued(v)

EndIsTheEnd == outcome = "Graph" => todo = {} /\ queue = <<>> /\ nodes # <<>> /\ nodes[1] = rootFile

WalkInv ==
  /\ KeysAreFiles /\ FoundIsThere /\ NamesAreCurrent /\ NamesAreHandled
  /\ LevelsInOrder /\ EndIsTheEnd /\ LimitIsGenuine
=============================================================================
