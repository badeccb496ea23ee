--------------------------- MODULE DependencyGraph ---------------------------
(***************************************************************************)
(* build_dependency_graph() of src/src/analysis/dependencies.cpp: the      *)
(* breadth-first walk over the libraries a binary needs, under the limits  *)
(* --max-depth and --max-nodes.                                            *)
(*                                                                         *)
(* The walk looks at the file system over and over: a name is tried with   *)
(* one candidate after the other, the one that is found is made canonical  *)
(* (by two looks), made into a key, opened for its node and opened again   *)
(* when it is expanded.  Other processes may change the Volatile files     *)
(* between any two of these looks, so each look is a step of its own.      *)
(*                                                                         *)
(* Node ids are 1 .. Len(nodes) here and 0 .. nodes.size()-1 in the code.  *)
(***************************************************************************)
EXTENDS PathResolution, FiniteSets

CONSTANTS
  Root,       \* the path given on the command line
  MaxDepth,   \* --max-depth
  MaxNodes,   \* --max-nodes
  Versions,   \* [File -> what the file may be on disk]
  Volatile    \* the files other processes may change while binx runs

ASSUME GraphAssumption ==
  /\ Root \in Path
  /\ MaxDepth \in Nat
  /\ MaxNodes \in Nat \ {0}
  /\ Versions \in [File -> SUBSET FileState]
  /\ Volatile \subseteq File

VARIABLES
  disk,        \* the file system: [File -> FileState]
  pc,          \* where the function is
  nodes,       \* g.nodes: the path of each node, which is its key
  edges,       \* g.edges
  queue,       \* q: ids still to expand, with their depth
  expanded,    \* ids already taken from the queue
  unresolved,  \* names for which no file was found
  current,     \* [id, depth] of the node being expanded
  deps,        \* the names its file listed when it was opened
  todo,        \* positions in deps still to handle
  use,         \* the position being handled
  try,         \* its next candidate
  target,      \* the candidate that was found, then what it was resolved to
  key,         \* the key under which its node is to be made
  outcome      \* "none" until the function returns

hand == <<use, try, target, key>>
walk == <<nodes, edges, queue, expanded, unresolved, current, deps, todo, hand>>
vars == <<disk, pc, walk, outcome>>

rootFile == FileOf(Root)

(* The paths that key_path() may give the root. *)
rootKeys == {rootFile} \cup ({Root} \cap Links)

Init ==
  /\ disk \in {d \in [File -> UNION {Versions[f] : f \in File}] :
                 \A f \in File : d[f] \in Versions[f]}
  /\ pc = "read"
  /\ nodes = <<>> /\ edges = <<>> /\ queue = <<>>
  /\ expanded = {} /\ unresolved = {}
  /\ current = [id |-> 0, depth |-> 0]
  /\ deps = <<>> /\ todo = {}
  /\ use = 0 /\ try = 0 /\ target = <<>> /\ key = <<>>
  /\ outcome = "none"

Return(result) == pc' = "done" /\ outcome' = result

(***************************************************************************)
(* The root.  add_node() makes its key before it opens the file.           *)
(***************************************************************************)
ReadRoot ==
  /\ pc = "read"
  /\ CanOpen(disk, Root)
  /\ pc' = "root"
  /\ UNCHANGED <<disk, walk, outcome>>

ReadRootFails ==
  /\ pc = "read"
  /\ ~CanOpen(disk, Root)
  /\ Return("FileNotFound")
  /\ UNCHANGED <<disk, walk>>

KeyRoot ==
  /\ pc = "root"
  /\ key' = Canonical(disk, Root)
  /\ pc' = "openRoot"
  /\ UNCHANGED <<disk, nodes, edges, queue, expanded, unresolved, current, deps, todo, use, try, target, outcome>>

(* What belonged to the name in hand is gone when the name is. *)
Release == use' = 0 /\ try' = 0 /\ target' = <<>> /\ key' = <<>>

AddRoot ==
  /\ pc = "openRoot"
  /\ CanOpen(disk, Root)
  /\ nodes' = <<key>>
  /\ queue' = <<[id |-> 1, depth |-> 0]>>
  /\ pc' = "expand"
  /\ Release
  /\ UNCHANGED <<disk, edges, expanded, unresolved, current, deps, todo, outcome>>

AddRootFails ==
  /\ pc = "openRoot"
  /\ ~CanOpen(disk, Root)
  /\ Return("RootFailed")
  /\ UNCHANGED <<disk, walk>>

(***************************************************************************)
(* Expanding a node.  unique_dependencies() keeps the first use of a name. *)
(***************************************************************************)
FirstUses(names) == {i \in DOMAIN names : \A j \in 1 .. (i - 1) : names[j] # names[i]}

(* Mutant: the test of `expanded' is missing. *)
AlreadyExpanded_Untested(id) == FALSE

AlreadyExpanded(id) == id \in expanded

Dequeue ==
  /\ pc = "expand" /\ todo = {} /\ queue # <<>>
  /\ queue' = Tail(queue)
  /\ \/ /\ AlreadyExpanded(Head(queue).id)
        /\ UNCHANGED <<expanded, current, deps, todo>>
     \/ /\ ~AlreadyExpanded(Head(queue).id)
        /\ expanded' = expanded \cup {Head(queue).id}
        /\ current' = Head(queue)
        /\ IF Head(queue).depth <= MaxDepth /\ CanOpen(disk, nodes[Head(queue).id])
             THEN deps' = disk[FileOf(nodes[Head(queue).id])].needs
             ELSE deps' = <<>>
        /\ todo' = FirstUses(deps')
  /\ UNCHANGED <<disk, pc, nodes, edges, unresolved, hand, outcome>>

(***************************************************************************)
(* resolve(): is_regular_file() is asked of one candidate after the other. *)
(* Of the first it is true of, weakly_canonical() is the result: it asks   *)
(* again whether the file is there, and then for its real path.            *)
(***************************************************************************)
candidates == Candidates(Directory(nodes[current.id]), Directory(nodes[1]), deps[use])

TakeName ==
  /\ pc = "expand"
  /\ \E i \in todo : (\A j \in todo : i <= j) /\ use' = i
  /\ try' = 1
  /\ pc' = "try"
  /\ UNCHANGED <<disk, nodes, edges, queue, expanded, unresolved, current, deps, todo, target, key, outcome>>

TryNext ==
  /\ pc = "try" /\ try \in DOMAIN candidates
  /\ ~IsRegularFile(disk, candidates[try])
  /\ try' = try + 1
  /\ UNCHANGED <<disk, pc, nodes, edges, queue, expanded, unresolved, current, deps, todo, use, target, key, outcome>>

Found ==
  /\ pc = "try" /\ try \in DOMAIN candidates
  /\ IsRegularFile(disk, candidates[try])
  /\ target' = candidates[try]
  /\ pc' = "found"
  /\ UNCHANGED <<disk, nodes, edges, queue, expanded, unresolved, current, deps, todo, use, try, key, outcome>>

ReportUnresolved ==
  /\ pc = "try" /\ try \notin DOMAIN candidates
  /\ unresolved' = unresolved \cup {deps[use]}
  /\ todo' = todo \ {use}
  /\ pc' = "expand"
  /\ Release
  /\ UNCHANGED <<disk, nodes, edges, queue, expanded, current, deps, outcome>>

(* A file that is gone again keeps its name, but for the dots; a link keeps *)
(* its own.                                                                *)
ResolveGone ==
  /\ pc = "found" /\ ~IsRegularFile(disk, target)
  /\ target' = Canonical(disk, target)
  /\ pc' = "add"
  /\ UNCHANGED <<disk, nodes, edges, queue, expanded, unresolved, current, deps, todo, use, try, key, outcome>>

ResolveThere ==
  /\ pc = "found" /\ IsRegularFile(disk, target)
  /\ pc' = "real"
  /\ UNCHANGED <<disk, walk, outcome>>

(* An error of its second look gives the empty path, which counts as found. *)
Resolve ==
  /\ pc = "real"
  /\ target' = IF IsRegularFile(disk, target) THEN FileOf(target) ELSE <<>>
  /\ pc' = "add"
  /\ UNCHANGED <<disk, nodes, edges, queue, expanded, unresolved, current, deps, todo, use, try, key, outcome>>

(***************************************************************************)
(* add_node() for the file a name resolved to, and the edge to it.  A key  *)
(* that has a node already is neither counted nor opened; the limit is     *)
(* tested before the file is opened, and both after the look that the key  *)
(* takes.                                                                  *)
(***************************************************************************)
(* Mutant: only nodes that were expanded are looked up. *)
Known_Expanded(path) == \E v \in expanded : nodes[v] = path

Known(path) == path \in Range(nodes)

(* Mutant: one node too many. *)
Full_OffByOne == Len(nodes) > MaxNodes

(* Mutant: one node too few. *)
Full_TooEarly == Len(nodes) + 1 >= MaxNodes

Full == Len(nodes) >= MaxNodes

(* Mutant: a stack where the code has a queue. *)
Enqueue_AtFront(q, item) == <<item>> \o q

Enqueue(q, item) == Append(q, item)

(* Mutant: the last level is not expanded. *)
WithinDepth_Strict(depth) == depth < MaxDepth

WithinDepth(depth) == depth <= MaxDepth

Connect(v) ==
  /\ edges' = Append(edges, [from |-> current.id, to |-> v, name |-> deps[use]])
  /\ queue' = IF WithinDepth(current.depth + 1)
                THEN Enqueue(queue, [id |-> v, depth |-> current.depth + 1])
                ELSE queue
  /\ todo' = todo \ {use}
  /\ pc' = "expand"
  /\ Release
  /\ UNCHANGED <<disk, expanded, unresolved, current, deps, outcome>>

LinkKnown ==
  /\ pc = "add"
  /\ Known(Canonical(disk, target))
  /\ \E v \in DOMAIN nodes : nodes[v] = Canonical(disk, target) /\ Connect(v)
  /\ UNCHANGED nodes

LimitExceeded ==
  /\ pc = "add"
  /\ ~Known(Canonical(disk, target))
  /\ Full
  /\ Return("LimitExceeded")
  /\ UNCHANGED <<disk, walk>>

MakeKey ==
  /\ pc = "add"
  /\ ~Known(Canonical(disk, target))
  /\ ~Full
  /\ key' = Canonical(disk, target)
  /\ pc' = "open"
  /\ UNCHANGED <<disk, nodes, edges, queue, expanded, unresolved, current, deps, todo, use, try, target, outcome>>

(* The file that is opened is the one of `target', under whatever key.     *)
LinkNew ==
  /\ pc = "open"
  /\ CanOpen(disk, target)
  /\ nodes' = Append(nodes, key)
  /\ Connect(Len(nodes) + 1)

(* Mutant: the node is made before the file is opened. *)
SkipUnopenable_NodeMade ==
  /\ pc = "open"
  /\ ~CanOpen(disk, target)
  /\ nodes' = Append(nodes, key)
  /\ todo' = todo \ {use}
  /\ pc' = "expand"
  /\ Release
  /\ UNCHANGED <<disk, edges, queue, expanded, unresolved, current, deps, outcome>>

(* Mutant: the name is tried again until its file opens. *)
SkipUnopenable_Retried ==
  /\ pc = "open"
  /\ ~CanOpen(disk, target)
  /\ pc' = "expand"
  /\ Release
  /\ UNCHANGED <<disk, nodes, edges, queue, expanded, unresolved, current, deps, todo, outcome>>

(* The file resolved but does not open: the loop goes on to the next name. *)
SkipUnopenable ==
  /\ pc = "open"
  /\ ~CanOpen(disk, target)
  /\ todo' = todo \ {use}
  /\ pc' = "expand"
  /\ Release
  /\ UNCHANGED <<disk, nodes, edges, queue, expanded, unresolved, current, deps, outcome>>

Finish ==
  /\ pc = "expand" /\ todo = {} /\ queue = <<>>
  /\ Return("Graph")
  /\ UNCHANGED <<disk, walk>>

(***************************************************************************)
(* The rest of the system changes a file while the walk is under way.      *)
(***************************************************************************)
ChangeFile ==
  /\ pc # "done"
  /\ \E f \in Volatile : \E s \in Versions[f] : disk' = [disk EXCEPT ![f] = s]
  /\ UNCHANGED <<pc, walk, outcome>>

Step ==
  \/ ReadRoot \/ ReadRootFails \/ KeyRoot \/ AddRoot \/ AddRootFails
  \/ Dequeue \/ TakeName \/ TryNext \/ Found \/ ReportUnresolved
  \/ ResolveGone \/ ResolveThere \/ Resolve
  \/ LinkKnown \/ LimitExceeded \/ MakeKey \/ LinkNew \/ SkipUnopenable \/ Finish

Next == Step \/ ChangeFile

(* binx is one thread that runs to its end; nothing else need ever happen. *)
Spec == Init /\ [][Next]_vars /\ WF_vars(Step)

(***************************************************************************)
(*                              PROPERTIES                                 *)
(***************************************************************************)
NodeId == 1 .. Len(nodes)
QueueItem == [id : NodeId, depth : 0 .. MaxDepth]

(* Every variable has its type, and every id in an edge, in the queue or   *)
(* in the set of expanded nodes is the id of a node: the ids index g.nodes *)
(* without a test.                                                         *)
TypeOK ==
  /\ disk \in [File -> FileState]
  /\ \A f \in File : disk[f] \in Versions[f]
  /\ pc \in {"read", "root", "openRoot", "expand", "try", "found", "real", "add", "open", "done"}
  /\ nodes \in Seq(Path)
  /\ edges \in Seq([from : NodeId, to : NodeId, name : Name])
  /\ queue \in Seq(QueueItem)
  /\ expanded \subseteq NodeId
  /\ unresolved \subseteq Name
  /\ current \in QueueItem \cup {[id |-> 0, depth |-> 0]}
  /\ deps \in Seq(Name)
  /\ todo \subseteq DOMAIN deps
  /\ use \in Nat /\ try \in Nat
  /\ target \in Path \cup {<<>>} /\ key \in Path \cup {<<>>}
  /\ outcome \in {"none", "FileNotFound", "RootFailed", "LimitExceeded", "Graph"}

(* No file has two nodes, by whatever names and links it was reached: only *)
(* a file that can vanish may have more, of which all but one have the     *)
(* path of a link, which led nowhere when the node was made.               *)
Vanishes(file) == file \in Volatile /\ \E s \in Versions[file] : s.status = "absent"

NodesAreDistinct ==
  \A v, w \in NodeId : v # w /\ FileOf(nodes[v]) = FileOf(nodes[w]) =>
    /\ nodes[v] # nodes[w]
    /\ nodes[v] \in Links \/ nodes[w] \in Links
    /\ Vanishes(FileOf(nodes[v]))

(* Every node but the root is there because a node made before it needs    *)
(* it: a file that could not be opened leaves no node behind.              *)
EveryNodeIsNeeded ==
  \A v \in NodeId \ {1} :
    \E k \in DOMAIN edges : edges[k].to = v /\ edges[k].from < v

(* A name a file lists gives at most one edge, although a node can be in   *)
(* the queue many times and a table can list a name twice.                 *)
NoDependencyTwice ==
  \A j, k \in DOMAIN edges :
    edges[j].from = edges[k].from /\ edges[j].name = edges[k].name => j = k

(* The queue is in order of depth and never holds more than two depths, so *)
(* a node is always expanded from the shortest way to it that was found:   *)
(* with any other order --max-depth would cut off what it should show.     *)
QueueIsByDepth ==
  /\ \A i, j \in DOMAIN queue : i <= j => queue[i].depth <= queue[j].depth
  /\ \A i \in DOMAIN queue :
       queue[i].depth \in {current.depth, current.depth + 1}

(* What else the walk keeps true, so that the above is inductive: where    *)
(* the function is determines which variables are in use.                  *)
ControlOK ==
  /\ pc \in {"read", "root", "openRoot"} => nodes = <<>> /\ queue = <<>>
  /\ pc \in {"expand", "try", "found", "real", "add", "open"} => nodes # <<>>
  /\ nodes = <<>> => edges = <<>> /\ todo = {}
  /\ nodes # <<>> => nodes[1] \in rootKeys
  /\ todo # {} => current \in QueueItem /\ current.id \in expanded
  /\ pc \in {"try", "found", "real", "add", "open"} => use \in todo
  /\ outcome = "none" <=> pc # "done"
  /\ Len(nodes) <= MaxNodes

(* A link is a key only if its file can vanish: what was seen at its end   *)
(* is still there or can.                                                  *)
WasSeen(path) ==
  path \in Links => disk[FileOf(path)].status # "absent" \/ Vanishes(FileOf(path))

IsKey(path) == path \in File \/ (path \in Links /\ Vanishes(FileOf(path)))

KeysAreSound ==
  /\ pc \in {"root", "openRoot"} => WasSeen(Root)
  /\ pc \in {"found", "real"} => target \in Path /\ WasSeen(target)
  /\ pc \in {"add", "open"} => target = <<>> \/ IsKey(target)
  /\ pc = "openRoot" => IsKey(key) /\ key \in rootKeys
  /\ pc = "open" => ~Known(key) /\ ~Full /\ (target = <<>> \/ IsKey(key))
  /\ \A v \in NodeId : IsKey(nodes[v])
  /\ \A v, w \in NodeId : nodes[v] = nodes[w] => v = w

(* The names still to handle have no edge yet.                             *)
TodoIsNew ==
  /\ todo \subseteq FirstUses(deps)
  /\ \A k \in DOMAIN edges : edges[k].from \in expanded
  /\ \A k \in DOMAIN edges : edges[k].from = current.id =>
       \A i \in todo : edges[k].name # deps[i]

IInv ==
  /\ TypeOK /\ ControlOK /\ KeysAreSound
  /\ EveryNodeIsNeeded
  /\ NoDependencyTwice /\ TodoIsNew
  /\ QueueIsByDepth

(* The walk ends, even when the files change under it all the time.        *)
Termination == <>(pc = "done")

(* The walk keeps the promises of GraphExploration, a file being known by  *)
(* the path it has in the graph.                                           *)
link(e) == <<nodes[e.from], e.name, nodes[e.to]>>

Exploration == INSTANCE GraphExploration WITH
  File     <- Path,
  RootKeys <- rootKeys,
  known    <- Range(nodes),
  links    <- {link(edges[k]) : k \in DOMAIN edges},
  verdict  <- outcome

KeepsPromises == Exploration!Spec
=============================================================================
