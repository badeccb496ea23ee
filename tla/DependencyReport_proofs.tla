----------------------- MODULE DependencyReport_proofs -----------------------
(***************************************************************************)
(* Proofs about build_dependency_graph(), for every file system, search    *)
(* path and limit.  First the walk, however the files change during it:    *)
(* a link is only a key where its file can vanish, the names still to be   *)
(* handled have no edge yet, and what is enqueued is one step deeper than  *)
(* the node in hand.  Then the report, while the files stay as they are:   *)
(* the walk goes from level to level, so that it says of the files what    *)
(* the reference says.                                                     *)
(***************************************************************************)
EXTENDS DependencyReport, FiniteSetTheorems, SequenceTheorems, TLAPS

(***************************************************************************)
(* Paths and lookups                                                       *)
(***************************************************************************)
(* Every path leads to a file, and the empty path to none.                 *)
LEMMA PathFacts ==
  /\ Root \in Path /\ rootFile \in File
  /\ \A p \in Path : FileOf(p) \in File /\ p # <<>>
  /\ \A f \in File : FileOf(f) = f /\ f \in Path /\ f \notin Links
  /\ FileOf(<<>>) = <<>> /\ <<>> \notin File /\ <<>> \notin Links
<1>1. <<>> \notin Path
  BY PathAssumption DEF Path
<1>2. \A p \in Path : FileOf(p) \in File
  BY PathAssumption DEF Path, FileOf
<1>3. \A f \in File : FileOf(f) = f /\ f \in Path /\ f \notin Links
  BY PathAssumption DEF Path, FileOf
<1>4. FileOf(<<>>) = <<>> /\ <<>> \notin File /\ <<>> \notin Links
  BY <1>1, PathAssumption DEF Path, FileOf
<1> QED
  BY <1>1, <1>2, <1>3, <1>4, GraphAssumption DEF rootFile

(* What has a path is not lost by making it canonical.                     *)
LEMMA CanonicalFacts ==
  /\ \A p \in Path : Canonical(disk, p) \in {p, FileOf(p)}
  /\ \A f \in File : Canonical(disk, f) = f
  /\ Canonical(disk, <<>>) = <<>>
BY PathFacts DEF Canonical, Dangles

(* The root's canonical path is a file.                                    *)
LEMMA RootIsFile == rootFile \in File
  BY PathFacts

(* What a file on disk needs are dependency names.                         *)
LEMMA NeedsAreNames ==
  ASSUME TypeOK, NEW f \in File
  PROVE  disk[f].needs \in Seq(Name)
  BY DEF TypeOK, FileState

(* The candidates for a name are a list. *)
LEMMA CandidatesAreList ==
  ASSUME NEW parent, NEW executable, NEW n \in Name
  PROVE  \E S : Candidates(parent, executable, n) \in Seq(S)
<1>0. ASSUME NEW x PROVE \E S : <<x>> \in Seq(S)
  <2>1. <<x>> \in Seq({x})
    OBVIOUS
  <2> QED
    BY <2>1
<1>1. ASSUME NEW rest
      PROVE  \E S : Beside(parent, rest) \in Seq(S)
  <2> DEFINE all == <<parent>> \o SearchPath
             S == {all[i] \o rest : i \in DOMAIN all}
  <2>1. all \in Seq({parent} \cup Range(SearchPath))
    <3>1. SearchPath \in Seq({parent} \cup Range(SearchPath))
      BY PathAssumption, SeqMonotonic
    <3> QED
      BY <3>1
  <2>2. DOMAIN all = 1 .. Len(all) /\ Len(all) \in Nat
    BY <2>1
  <2>3. Beside(parent, rest) = [i \in DOMAIN all |-> all[i] \o rest]
    BY DEF Beside
  <2>4. Beside(parent, rest) \in [1 .. Len(all) -> S]
    BY <2>2, <2>3
  <2> HIDE DEF all, S
  <2>5. Beside(parent, rest) \in Seq(S)
    BY <2>2, <2>4
  <2> QED
    BY <2>5
<1>2. CASE n.anchor = "absolute"
  <2>1. Candidates(parent, executable, n) = <<n.rest>>
    BY <1>2, Zenon DEF Candidates
  <2> QED
    BY <1>0, <2>1
<1>3. CASE n.anchor = "loader"
  <2>1. Candidates(parent, executable, n) = <<parent \o n.rest>>
    BY <1>3, Zenon DEF Candidates
  <2> QED
    BY <1>0, <2>1
<1>4. CASE n.anchor = "executable"
  <2>1. Candidates(parent, executable, n) = <<executable \o n.rest>>
    BY <1>4, Zenon DEF Candidates
  <2> QED
    BY <1>0, <2>1
<1>5. CASE n.anchor = "relative"
  <2> DEFINE first == Beside(parent, n.rest)
             more == Beside(parent, Base(n.rest))
  <2>1. Candidates(parent, executable, n) = first \o (IF Len(n.rest) > 1 THEN more ELSE <<>>)
    BY <1>5, Zenon DEF Candidates
  <2>2. PICK S, R : first \in Seq(S) /\ more \in Seq(R)
    BY <1>1
  <2>3. first \in Seq(S \cup R) /\ more \in Seq(S \cup R)
    BY <2>2, SeqMonotonic
  <2> HIDE DEF first, more
  <2>4. Candidates(parent, executable, n) \in Seq(S \cup R)
    BY <2>1, <2>3
  <2> QED
    BY <2>4
<1> QED
  BY <1>2, <1>3, <1>4, <1>5, PathAssumption DEF Anchor

(* The candidates for a name are numbered, and there is an end to them.    *)
LEMMA CandidatesAreNumbered ==
  ASSUME NEW parent, NEW executable, NEW n \in Name
  PROVE  /\ DOMAIN Candidates(parent, executable, n) \subseteq Int
         /\ IsFiniteSet(DOMAIN Candidates(parent, executable, n))
<1> DEFINE c == Candidates(parent, executable, n)
<1>1. PICK S : c \in Seq(S)
  BY CandidatesAreList
<1> HIDE DEF c
<1>2. DOMAIN c = 1 .. Len(c) /\ Len(c) \in Nat
  BY <1>1
<1>3. IsFiniteSet(1 .. Len(c))
  BY <1>2, FS_Interval
<1> QED
  BY <1>2, <1>3 DEF c

(***************************************************************************)
(* Types, control, keys and the node limit                                 *)
(***************************************************************************)
TypeInv == TypeOK /\ ControlOK

(* Ids stay ids when nodes are added.                                      *)
LEMMA IdsStay ==
  ASSUME TypeOK, nodes' \in Seq(Path), Len(nodes) <= Len(nodes')
  PROVE  /\ NodeId \subseteq NodeId'
         /\ QueueItem \subseteq QueueItem'
         /\ edges \in Seq([from : NodeId', to : NodeId', name : Name])
         /\ queue \in Seq(QueueItem')
<1>1. NodeId \subseteq NodeId'
  BY DEF TypeOK, NodeId
<1>2. QueueItem \subseteq QueueItem'
  BY <1>1 DEF QueueItem
<1>3. [from : NodeId, to : NodeId, name : Name] \subseteq [from : NodeId', to : NodeId', name : Name]
  BY <1>1
<1> QED
  BY <1>1, <1>2, <1>3, SeqMonotonic DEF TypeOK

(* The edge to a node and, if the depth allows, its place in the queue.    *)
LEMMA ConnectKeepsTypes ==
  ASSUME TypeInv, pc \in {"add", "open"}, nodes' \in Seq(Path), Len(nodes) <= Len(nodes'),
         Len(nodes') <= MaxNodes, nodes'[1] = nodes[1],
         NEW v \in NodeId', Connect(v)
  PROVE  TypeInv'
<1> USE DEF TypeInv
<1>1. /\ use \in todo /\ current \in QueueItem /\ current.id \in expanded
      /\ nodes # <<>> /\ nodes[1] \in rootKeys
  BY DEF ControlOK
<1>2. /\ current.id \in NodeId' /\ current.depth \in 0 .. MaxDepth /\ deps[use] \in Name
  BY <1>1, IdsStay DEF TypeOK, QueueItem
<1>3. edges' \in Seq([from : NodeId', to : NodeId', name : Name])
  BY <1>2, IdsStay, AppendProperties DEF Connect
<1>4. queue' \in Seq(QueueItem')
  <2>1. current.depth + 1 <= MaxDepth => [id |-> v, depth |-> current.depth + 1] \in QueueItem'
    BY <1>2, GraphAssumption DEF QueueItem
  <2> QED
    BY <2>1, IdsStay, AppendProperties DEF Connect, WithinDepth, Enqueue
<1>5. TypeOK'
  BY <1>2, <1>3, <1>4, IdsStay, GraphAssumption DEF TypeOK, Connect, Release
<1>6. ControlOK'
  <2>1. nodes' # <<>>
    BY <1>1 DEF TypeOK
  <2>2. current' \in QueueItem' /\ current'.id \in expanded'
    BY <1>1, IdsStay DEF Connect
  <2>3. rootKeys' = rootKeys
    BY DEF rootKeys, rootFile
  <2> QED
    BY <1>1, <2>1, <2>2, <2>3 DEF ControlOK, Connect, TypeOK
<1> QED
  BY <1>5, <1>6

(* The walk starts in a well-formed state.                                 *)
LEMMA TypeInit == Init => TypeInv /\ KeysAreSound
<1> SUFFICES ASSUME Init PROVE TypeInv /\ KeysAreSound
  OBVIOUS
<1>1. disk \in [File -> FileState] /\ \A f \in File : disk[f] \in Versions[f]
  BY GraphAssumption DEF Init
<1>2. /\ NodeId = {} /\ QueueItem = {}
      /\ nodes \in Seq(Path) /\ queue \in Seq(QueueItem) /\ deps \in Seq(Name)
      /\ edges \in Seq([from : NodeId, to : NodeId, name : Name])
  BY EmptySeq DEF Init, NodeId, QueueItem
<1>3. TypeOK
  BY <1>1, <1>2 DEF Init, TypeOK
<1>4. ControlOK
  BY <1>2, GraphAssumption DEF Init, ControlOK
<1>5. KeysAreSound
  BY <1>2 DEF Init, KeysAreSound
<1> QED
  BY <1>3, <1>4, <1>5 DEF TypeInv

(* Every step and every change of a file keeps types and control.          *)
LEMMA TypeStep == TypeInv /\ KeysAreSound /\ [Next]_vars => TypeInv'
<1> SUFFICES ASSUME TypeInv, KeysAreSound, [Next]_vars PROVE TypeInv'
  OBVIOUS
<1> USE DEF TypeInv
<1>0. /\ UNCHANGED nodes => NodeId' = NodeId /\ QueueItem' = QueueItem
      /\ rootKeys' = rootKeys
  BY DEF NodeId, QueueItem, rootKeys, rootFile
<1>1. CASE \/ ReadRoot \/ ReadRootFails \/ AddRootFails \/ ResolveThere \/ LimitExceeded \/ Finish
  <2>1. /\ UNCHANGED <<disk, walk>> /\ pc' \in {"root", "real", "done"}
        /\ (outcome' = "none" <=> pc' # "done")
    BY <1>1 DEF ReadRoot, ReadRootFails, AddRootFails, ResolveThere, LimitExceeded, Finish, Return, ControlOK
  <2>2. outcome' \in {"none", "FileNotFound", "RootFailed", "LimitExceeded", "Graph"}
    BY <1>1 DEF ReadRoot, ReadRootFails, AddRootFails, ResolveThere, LimitExceeded, Finish, Return, TypeOK
  <2>3. TypeOK'
    BY <1>0, <2>1, <2>2 DEF TypeOK, walk, hand
  <2>4. (pc' = "root" => pc = "read") /\ (pc' = "real" => pc = "found")
    BY <1>1 DEF ReadRoot, ReadRootFails, AddRootFails, ResolveThere, LimitExceeded, Finish, Return
  <2>5. ControlOK'
    BY <1>0, <2>1, <2>4 DEF ControlOK, walk, hand
  <2> QED
    BY <2>3, <2>5
<1>2. CASE KeyRoot
  <2>1. key' \in Path
    BY <1>2, PathFacts, CanonicalFacts DEF KeyRoot, rootFile
  <2>2. TypeOK'
    BY <1>0, <1>2, <2>1 DEF KeyRoot, TypeOK
  <2>3. ControlOK'
    BY <1>0, <1>2 DEF KeyRoot, ControlOK
  <2> QED
    BY <2>2, <2>3
<1>3. CASE AddRoot
  <2>1. nodes' = <<key>> /\ nodes' \in Seq(Path) /\ Len(nodes') = 1 /\ key \in rootKeys
    <3>1. key \in rootKeys
      BY <1>3 DEF AddRoot, KeysAreSound
    <3>2. key \in Path
      BY <3>1, PathFacts DEF rootKeys
    <3> QED
      BY <1>3, <3>1, <3>2 DEF AddRoot
  <2>2. nodes = <<>> /\ Len(nodes) = 0 /\ edges = <<>> /\ todo = {}
    BY <1>3 DEF AddRoot, ControlOK
  <2>3. [id |-> 1, depth |-> 0] \in QueueItem'
    BY <2>1, GraphAssumption DEF QueueItem, NodeId
  <2>4. queue' \in Seq(QueueItem')
    BY <1>3, <2>3 DEF AddRoot
  <2>5. TypeOK'
    BY <1>3, <2>1, <2>2, <2>4, IdsStay DEF TypeOK, AddRoot, Release
  <2>6. ControlOK'
    BY <1>0, <1>3, <2>1, <2>2, GraphAssumption DEF ControlOK, AddRoot
  <2> QED
    BY <2>5, <2>6
<1>4. CASE Dequeue
  <2>1. Head(queue) \in QueueItem /\ queue' \in Seq(QueueItem)
    BY <1>4, HeadTailProperties DEF Dequeue, TypeOK
  <2>2. Head(queue).id \in NodeId /\ FileOf(nodes[Head(queue).id]) \in File
    BY <2>1, PathFacts DEF QueueItem, NodeId, TypeOK
  <2>3. deps' \in Seq(Name) /\ todo' \subseteq DOMAIN deps'
    BY <1>4, <2>2, NeedsAreNames, EmptySeq DEF Dequeue, FirstUses, TypeOK
  <2>4. current' \in QueueItem \/ UNCHANGED <<current, todo>>
    BY <1>4, <2>1 DEF Dequeue
  <2>5. TypeOK'
    BY <1>0, <1>4, <2>1, <2>2, <2>3, <2>4 DEF Dequeue, TypeOK, hand
  <2>6. todo' # {} => current' \in QueueItem /\ current'.id \in expanded'
    BY <1>4, <2>1 DEF Dequeue
  <2>7. ControlOK'
    BY <1>0, <1>4, <2>6 DEF Dequeue, ControlOK
  <2> QED
    BY <2>5, <2>7
<1>5. CASE TakeName
  <2>1. use' \in todo /\ use' \in Nat
    BY <1>5 DEF TakeName, TypeOK
  <2>2. TypeOK'
    BY <1>0, <1>5, <2>1 DEF TakeName, TypeOK
  <2>3. ControlOK'
    BY <1>0, <1>5, <2>1 DEF TakeName, ControlOK
  <2> QED
    BY <2>2, <2>3
<1>6. CASE TryNext
  <2>1. TypeOK'
    BY <1>0, <1>6 DEF TryNext, TypeOK
  <2>2. ControlOK'
    BY <1>0, <1>6 DEF TryNext, ControlOK
  <2> QED
    BY <2>1, <2>2
<1>7. CASE Found \/ ResolveGone \/ Resolve
  <2>1. target' \in Path \cup {<<>>}
    <3>1. CASE Found
      <4>1. FileOf(target') \in File
        BY <3>1 DEF Found, IsRegularFile
      <4>2. target' \in DOMAIN Alias \/ target' \in File
        BY <4>1 DEF FileOf
      <4> QED
        BY <4>2 DEF Path
    <3>2. CASE ResolveGone
      BY <3>2, PathFacts, CanonicalFacts DEF ResolveGone, KeysAreSound
    <3>3. CASE Resolve
      BY <3>3, PathFacts DEF Resolve, KeysAreSound
    <3> QED
      BY <1>7, <3>1, <3>2, <3>3
  <2>2. TypeOK'
    BY <1>0, <1>7, <2>1 DEF Found, ResolveGone, Resolve, TypeOK
  <2>3. ControlOK'
    BY <1>0, <1>7 DEF Found, ResolveGone, Resolve, ControlOK
  <2> QED
    BY <2>2, <2>3
<1>8. CASE ReportUnresolved
  <2>1. use \in todo /\ deps[use] \in Name
    BY <1>8 DEF ReportUnresolved, ControlOK, TypeOK
  <2>2. TypeOK'
    BY <1>0, <1>8, <2>1 DEF ReportUnresolved, Release, TypeOK
  <2>3. ControlOK'
    BY <1>0, <1>8, <2>1 DEF ReportUnresolved, ControlOK
  <2> QED
    BY <2>2, <2>3
<1>9. CASE MakeKey
  <2>1. key' \in Path \cup {<<>>}
    BY <1>9, PathFacts, CanonicalFacts DEF MakeKey, TypeOK
  <2>2. TypeOK'
    BY <1>0, <1>9, <2>1 DEF MakeKey, TypeOK
  <2>3. ControlOK'
    BY <1>0, <1>9 DEF MakeKey, ControlOK
  <2> QED
    BY <2>2, <2>3
<1>10. CASE LinkKnown
  <2>1. PICK v \in DOMAIN nodes : Connect(v)
    BY <1>10 DEF LinkKnown
  <2>2. nodes' = nodes /\ v \in NodeId'
    BY <1>0, <1>10, <2>1 DEF LinkKnown, NodeId, TypeOK
  <2>3. /\ pc \in {"add", "open"} /\ nodes' \in Seq(Path)
        /\ Len(nodes) <= Len(nodes') /\ Len(nodes') <= MaxNodes
    BY <1>10, <2>2 DEF LinkKnown, TypeOK, ControlOK
  <2> HIDE DEF TypeInv
  <2> QED
    BY <2>1, <2>2, <2>3, ConnectKeepsTypes
<1>11. CASE LinkNew
  <2>1. key \in Path /\ ~Full
    BY <1>11, PathFacts, PathAssumption DEF LinkNew, KeysAreSound, IsKey, CanOpen, Path
  <2>2. /\ nodes' = Append(nodes, key) /\ nodes' \in Seq(Path)
        /\ Len(nodes') = Len(nodes) + 1 /\ nodes # <<>> /\ nodes'[1] = nodes[1]
    BY <1>11, <2>1, AppendProperties DEF LinkNew, TypeOK, ControlOK
  <2>3. Len(nodes') <= MaxNodes /\ Len(nodes) + 1 \in NodeId'
    BY <2>1, <2>2, GraphAssumption DEF Full, NodeId, TypeOK
  <2>4. pc \in {"add", "open"} /\ Connect(Len(nodes) + 1) /\ Len(nodes) <= Len(nodes')
    BY <1>11, <2>2 DEF LinkNew, TypeOK
  <2> HIDE DEF TypeInv
  <2> QED
    BY <2>2, <2>3, <2>4, ConnectKeepsTypes
<1>12. CASE SkipUnopenable
  <2>1. TypeOK'
    BY <1>0, <1>12 DEF SkipUnopenable, Release, TypeOK
  <2>2. ControlOK'
    BY <1>0, <1>12 DEF SkipUnopenable, ControlOK
  <2> QED
    BY <2>1, <2>2
<1>13. CASE ChangeFile
  <2>1. disk' \in [File -> FileState] /\ \A f \in File : disk'[f] \in Versions[f]
    BY <1>13, GraphAssumption DEF ChangeFile, TypeOK
  <2>2. TypeOK'
    BY <1>0, <1>13, <2>1 DEF ChangeFile, TypeOK, walk, hand
  <2>3. ControlOK'
    BY <1>0, <1>13 DEF ChangeFile, ControlOK, walk, hand
  <2> QED
    BY <2>2, <2>3
<1>14. CASE UNCHANGED vars
  BY <1>0, <1>14 DEF TypeOK, ControlOK, vars, walk, hand
<1> QED
  BY <1>1, <1>2, <1>3, <1>4, <1>5, <1>6, <1>7, <1>8, <1>9, <1>10, <1>11, <1>12, <1>13, <1>14
     DEF Next, Step

(* What was once at the end of a link is there or can vanish, so that the  *)
(* canonical path is sound as a key.                                       *)
LEMMA CanonicalIsKey ==
  ASSUME NEW p \in Path, WasSeen(p) \/ IsKey(p)
  PROVE  IsKey(Canonical(disk, p))
<1>1. FileOf(p) \in File
  BY PathFacts
<1>2. CASE Dangles(disk, p)
  <2>1. Canonical(disk, p) = p /\ p \in Links /\ disk[FileOf(p)].status = "absent"
    BY <1>1, <1>2 DEF Canonical, Dangles, IsRegularFile
  <2> QED
    BY <2>1, PathFacts DEF WasSeen, IsKey
<1>3. CASE ~Dangles(disk, p)
  BY <1>1, <1>3 DEF Canonical, IsKey
<1> QED
  BY <1>2, <1>3

(* A file that other processes change was seen before the change as well.  *)
LEMMA SeenStays ==
  ASSUME TypeOK, ChangeFile, NEW p \in Path, WasSeen(p)
  PROVE  p \in Links => disk'[FileOf(p)].status # "absent" \/ Vanishes(FileOf(p))
<1>1. PICK f \in Volatile : \E s \in Versions[f] : disk' = [disk EXCEPT ![f] = s]
  BY DEF ChangeFile
<1>2. FileOf(p) \in File
  BY PathFacts
<1>3. CASE f = FileOf(p)
  BY <1>1, <1>2, <1>3, GraphAssumption DEF WasSeen, Vanishes, TypeOK
<1>4. CASE f # FileOf(p)
  BY <1>1, <1>2, <1>4 DEF WasSeen, TypeOK
<1> QED
  BY <1>3, <1>4

(* A link only becomes a key when it was seen to lead to a file and then   *)
(* not to; and a key has one node.                                         *)
LEMMA KeysStep == TypeInv /\ KeysAreSound /\ [Next]_vars => KeysAreSound'
<1> SUFFICES ASSUME TypeInv, KeysAreSound, [Next]_vars PROVE KeysAreSound'
  OBVIOUS
<1>0. /\ UNCHANGED nodes => NodeId' = NodeId /\ Full' = Full /\ \A k : Known(k)' = Known(k)
      /\ rootKeys' = rootKeys
      /\ UNCHANGED disk => \A p : WasSeen(p)' = WasSeen(p)
      /\ \A p : IsKey(p)' = IsKey(p)
  BY DEF NodeId, Full, Known, rootKeys, rootFile, WasSeen, IsKey, Vanishes
<1>1. CASE /\ UNCHANGED nodes
           /\ \/ UNCHANGED <<disk, pc, target, key>>
              \/ pc' \in {"expand", "try", "done"}
  BY <1>0, <1>1 DEF KeysAreSound
<1>2. CASE ReadRoot
  <2>1. WasSeen(Root)
    BY <1>2, PathFacts DEF ReadRoot, CanOpen, WasSeen
  <2> QED
    BY <1>0, <1>2, <2>1 DEF ReadRoot, walk, KeysAreSound
<1>3. CASE KeyRoot
  <2>1. IsKey(key')
    BY <1>3, PathFacts, CanonicalIsKey DEF KeyRoot, KeysAreSound
  <2>2. key' \in rootKeys
    BY <1>3, PathFacts, CanonicalFacts DEF KeyRoot, rootKeys, rootFile, Canonical, Dangles
  <2> QED
    BY <1>0, <1>3, <2>1, <2>2 DEF KeyRoot, KeysAreSound
<1>4. CASE AddRoot
  <2>1. IsKey(key) /\ nodes' = <<key>> /\ pc' = "expand"
    BY <1>4 DEF AddRoot, KeysAreSound
  <2> QED
    BY <1>0, <2>1 DEF KeysAreSound, NodeId
<1>5. CASE Found
  <2>1. FileOf(target') \in File
    BY <1>5 DEF Found, IsRegularFile
  <2>2. target' \in Path
    BY <2>1 DEF FileOf, Path
  <2>3. WasSeen(target')
    BY <1>5 DEF Found, IsRegularFile, WasSeen
  <2>4. WasSeen(target)'
    BY <1>0, <1>5, <2>3 DEF Found, WasSeen, Vanishes
  <2> QED
    BY <1>0, <1>5, <2>2, <2>4 DEF Found, KeysAreSound
<1>6. CASE ResolveGone
  <2>1. IsKey(target')
    BY <1>6, CanonicalIsKey DEF ResolveGone, KeysAreSound
  <2> QED
    BY <1>0, <1>6, <2>1 DEF ResolveGone, KeysAreSound
<1>7. CASE ResolveThere
  BY <1>0, <1>7 DEF ResolveThere, walk, hand, KeysAreSound, WasSeen
<1>8. CASE Resolve
  <2>1. target' = <<>> \/ IsKey(target')
    BY <1>8, PathFacts DEF Resolve, KeysAreSound, IsKey
  <2> QED
    BY <1>0, <1>8, <2>1 DEF Resolve, KeysAreSound
<1>9. CASE MakeKey
  <2>1. target = <<>> \/ (target \in Path /\ IsKey(target))
    BY <1>9, PathAssumption DEF MakeKey, KeysAreSound, IsKey, Path
  <2>2. target = <<>> \/ IsKey(key')
    BY <1>9, <2>1, CanonicalIsKey DEF MakeKey
  <2>3. ~Known(key') /\ ~Full
    BY <1>9 DEF MakeKey
  <2>4. ~Known(key)' /\ ~Full'
    BY <1>9, <2>3 DEF MakeKey, Known, Full
  <2> QED
    BY <1>0, <1>9, <2>1, <2>2, <2>4 DEF MakeKey, KeysAreSound
<1>10. CASE LinkNew
  <2>1. IsKey(key) /\ key \notin Range(nodes) /\ nodes' = Append(nodes, key) /\ pc' = "expand"
    BY <1>10, PathFacts DEF LinkNew, KeysAreSound, CanOpen, Connect, Known
  <2>2. \A w \in NodeId : nodes'[w] = nodes[w] /\ nodes[w] # key
    BY <2>1, AppendProperties DEF NodeId, Range, TypeInv, TypeOK
  <2>3. NodeId' = NodeId \cup {Len(nodes) + 1} /\ nodes'[Len(nodes) + 1] = key
    BY <2>1, AppendProperties DEF NodeId, TypeInv, TypeOK
  <2>4. \A w \in NodeId' : IsKey(nodes'[w])
    BY <2>1, <2>2, <2>3 DEF KeysAreSound
  <2>5. \A v, w \in NodeId' : nodes'[v] = nodes'[w] => v = w
    BY <2>2, <2>3 DEF KeysAreSound
  <2>6. \A w \in NodeId' : IsKey(nodes[w])'
    BY <1>0, <2>4
  <2> QED
    BY <2>1, <2>5, <2>6 DEF KeysAreSound
<1>11. CASE ChangeFile
  <2>1. UNCHANGED <<pc, nodes, target, key>>
    BY <1>11 DEF ChangeFile, walk, hand
  <2>2. /\ pc \in {"root", "openRoot"} => WasSeen(Root)'
        /\ pc \in {"found", "real"} => WasSeen(target)'
    <3>1. pc \in {"root", "openRoot"} => WasSeen(Root)'
      BY <1>11, PathFacts, SeenStays DEF KeysAreSound, TypeInv, WasSeen, Vanishes
    <3>2. ASSUME pc \in {"found", "real"} PROVE WasSeen(target)'
      <4>1. target \in Path /\ WasSeen(target) /\ target' = target
        BY <2>1, <3>2 DEF KeysAreSound
      <4>2. target \in Links => disk'[FileOf(target)].status # "absent" \/ Vanishes(FileOf(target))
        BY <1>11, <4>1, SeenStays DEF TypeInv
      <4> QED
        BY <4>1, <4>2 DEF WasSeen, Vanishes
    <3> QED
      BY <3>1, <3>2
  <2> QED
    BY <1>0, <2>1, <2>2 DEF KeysAreSound
<1>12. CASE \/ ReadRootFails \/ AddRootFails \/ Dequeue \/ TakeName \/ TryNext \/ ReportUnresolved
            \/ LinkKnown \/ LimitExceeded \/ SkipUnopenable \/ Finish \/ UNCHANGED vars
  BY <1>1, <1>12 DEF ReadRootFails, AddRootFails, Dequeue, TakeName, TryNext, ReportUnresolved, LinkKnown,
                     LimitExceeded, SkipUnopenable, Finish, Return, Connect, vars, walk, hand
<1> QED
  BY <1>2, <1>3, <1>4, <1>5, <1>6, <1>7, <1>8, <1>9, <1>10, <1>11, <1>12 DEF Next, Step

(* The ids that the walk keeps in edges, queue and `expanded' always index *)
(* g.nodes, whatever happens to the files.                                 *)
THEOREM TypeCorrect == Spec => []TypeOK
<1>1. Spec => [](TypeInv /\ KeysAreSound)
  BY TypeInit, TypeStep, KeysStep, PTL DEF Spec
<1> QED
  BY <1>1, PTL DEF TypeInv

(***************************************************************************)
(* Safety                                                                  *)
(***************************************************************************)
(* The two actions that add an edge, in one shape: the edge goes to an old *)
(* node or to the one that is appended.                                    *)
Linking(v) ==
  /\ Connect(v) /\ v \in NodeId' /\ current.id \in NodeId
  /\ pc \in {"add", "open"} /\ use \in todo /\ current.id \in expanded
  /\ \/ nodes' = nodes
     \/ /\ key \in Path /\ key \notin Range(nodes) /\ Len(nodes) < MaxNodes
        /\ nodes' = Append(nodes, key) /\ v = Len(nodes) + 1 /\ nodes'[v] = key

(* Linking a known file and linking a new one are the same kind of step.   *)
LEMMA LinkingSteps ==
  ASSUME TypeInv, KeysAreSound, LinkKnown \/ LinkNew
  PROVE  \E v : Linking(v)
<1>1. use \in todo /\ current \in QueueItem /\ current.id \in expanded /\ pc \in {"add", "open"}
  BY DEF TypeInv, ControlOK, LinkKnown, LinkNew
<1>2. current.id \in NodeId
  BY <1>1 DEF QueueItem
<1>3. CASE LinkKnown
  <2>1. PICK v \in DOMAIN nodes : Connect(v)
    BY <1>3 DEF LinkKnown
  <2>2. nodes' = nodes /\ v \in NodeId'
    BY <1>3, <2>1 DEF LinkKnown, NodeId, TypeInv, TypeOK
  <2> QED
    BY <1>1, <1>2, <2>1, <2>2 DEF Linking
<1>4. CASE LinkNew
  <2>1. nodes' = Append(nodes, key) /\ Connect(Len(nodes) + 1) /\ key \notin Range(nodes)
    BY <1>4 DEF LinkNew, KeysAreSound, Known
  <2>2. key \in Path
    BY <1>4, PathFacts, PathAssumption DEF LinkNew, KeysAreSound, IsKey, CanOpen, Path
  <2>3. nodes'[Len(nodes) + 1] = key /\ Len(nodes) + 1 \in NodeId'
    BY <2>1, AppendProperties DEF NodeId, TypeInv, TypeOK
  <2>4. Len(nodes) < MaxNodes
    BY <1>4, GraphAssumption DEF LinkNew, KeysAreSound, Full, TypeInv, TypeOK
  <2> QED
    BY <1>1, <1>2, <2>1, <2>2, <2>3, <2>4 DEF Linking
<1> QED
  BY <1>3, <1>4

(* The steps between two looks at the disk, which take the walk forward in *)
(* the name at hand and touch nothing else.                                *)
LookStep ==
  KeyRoot \/ TakeName \/ TryNext \/ Found \/ ResolveGone \/ ResolveThere \/ Resolve \/ MakeKey

(* A look changes neither the graph nor what is still to be done.          *)
LEMMA LooksAreIdle ==
  LookStep => UNCHANGED <<disk, nodes, edges, queue, expanded, unresolved, current, deps, todo, outcome>>
BY DEF LookStep, KeyRoot, TakeName, TryNext, Found, ResolveGone, ResolveThere, Resolve, MakeKey, walk, hand

(* Every other step leaves the graph alone, but for the root's node.       *)
Idle == UNCHANGED <<nodes, edges>>

(* A step leaves the graph alone, makes the root's node or links a file.   *)
LEMMA StepKinds ==
  ASSUME TypeInv, KeysAreSound, [Next]_vars
  PROVE  Idle \/ AddRoot \/ \E v : Linking(v)
<1>1. CASE LinkKnown \/ LinkNew
  BY <1>1, LinkingSteps
<1>2. CASE LookStep
  BY <1>2, LooksAreIdle DEF Idle
<1>3. CASE \/ ReadRoot \/ ReadRootFails \/ AddRootFails \/ Dequeue \/ ReportUnresolved
           \/ SkipUnopenable \/ LimitExceeded \/ Finish \/ ChangeFile \/ UNCHANGED vars
  BY <1>3 DEF Idle, ReadRoot, ReadRootFails, AddRootFails, Dequeue, ReportUnresolved,
              SkipUnopenable, LimitExceeded, Finish, ChangeFile, vars, walk
<1> QED
  BY <1>1, <1>2, <1>3 DEF Next, Step, LookStep

(* Sound keys are distinct nodes: of two keys of one file at least one is  *)
(* a link, and then the file vanished before it was made.                  *)
LEMMA DistinctFollows == KeysAreSound => NodesAreDistinct
<1> SUFFICES ASSUME KeysAreSound, NEW v \in NodeId, NEW w \in NodeId, v # w,
                    FileOf(nodes[v]) = FileOf(nodes[w])
             PROVE  /\ nodes[v] # nodes[w]
                    /\ nodes[v] \in Links \/ nodes[w] \in Links
                    /\ Vanishes(FileOf(nodes[v]))
  BY DEF NodesAreDistinct
<1>1. IsKey(nodes[v]) /\ IsKey(nodes[w]) /\ nodes[v] # nodes[w]
  BY DEF KeysAreSound
<1> QED
  BY <1>1, PathFacts DEF IsKey

(* The edge to a new node comes from one that was there before.            *)
LEMMA NeededStep ==
  ASSUME TypeInv, KeysAreSound, EveryNodeIsNeeded, [Next]_vars
  PROVE  EveryNodeIsNeeded'
<1>1. CASE Idle
  BY <1>1 DEF Idle, EveryNodeIsNeeded, NodeId
<1>2. CASE AddRoot
  BY <1>2 DEF AddRoot, EveryNodeIsNeeded, NodeId
<1>3. ASSUME NEW v, Linking(v) PROVE EveryNodeIsNeeded'
  <2>1. \A k \in DOMAIN edges : k \in DOMAIN edges' /\ edges'[k] = edges[k]
    BY <1>3 DEF Linking, Connect, TypeInv, TypeOK
  <2>2. Len(edges) + 1 \in DOMAIN edges'
        /\ edges'[Len(edges) + 1] = [from |-> current.id, to |-> v, name |-> deps[use]]
    BY <1>3 DEF Linking, Connect, TypeInv, TypeOK
  <2>3. ASSUME NEW w \in NodeId' \ {1}, w \in NodeId
        PROVE  \E k \in DOMAIN edges' : edges'[k].to = w /\ edges'[k].from < w
    BY <2>1, <2>3 DEF EveryNodeIsNeeded
  <2>4. ASSUME NEW w \in NodeId', w \notin NodeId PROVE w = v /\ current.id < v
    BY <1>3, <2>4 DEF Linking, NodeId, TypeInv, TypeOK
  <2> QED
    BY <2>2, <2>3, <2>4 DEF EveryNodeIsNeeded
<1> QED
  BY <1>1, <1>2, <1>3, StepKinds

OnceInv == NoDependencyTwice /\ TodoIsNew

(* The name being handled has no edge yet, and none gets a second one.     *)
LEMMA OnceStep ==
  ASSUME TypeInv, KeysAreSound, OnceInv, [Next]_vars
  PROVE  OnceInv'
<1> USE DEF OnceInv
<1>1. CASE UNCHANGED <<edges, expanded, current, deps>> /\ todo' \subseteq todo
  BY <1>1 DEF NoDependencyTwice, TodoIsNew
<1>2. CASE Dequeue
  <2>1. CASE AlreadyExpanded(Head(queue).id)
    BY <1>1, <1>2, <2>1 DEF Dequeue
  <2>2. CASE ~AlreadyExpanded(Head(queue).id)
    <3>1. /\ edges' = edges /\ expanded' = expanded \cup {Head(queue).id}
          /\ current' = Head(queue) /\ todo' = FirstUses(deps')
      BY <1>2, <2>2 DEF Dequeue
    <3>2. \A k \in DOMAIN edges : edges[k].from # current'.id
      BY <2>2, <3>1 DEF AlreadyExpanded, TodoIsNew
    <3> QED
      BY <3>1, <3>2 DEF NoDependencyTwice, TodoIsNew, FirstUses
  <2> QED
    BY <2>1, <2>2
<1>3. ASSUME NEW v, Linking(v) PROVE OnceInv'
  <2> DEFINE new == [from |-> current.id, to |-> v, name |-> deps[use]]
  <2>1. /\ edges' = Append(edges, new) /\ todo' = todo \ {use}
        /\ UNCHANGED <<expanded, current, deps>>
    BY <1>3 DEF Linking, Connect
  <2>2. /\ \A k \in DOMAIN edges : edges'[k] = edges[k]
        /\ DOMAIN edges' = DOMAIN edges \cup {Len(edges) + 1}
        /\ edges'[Len(edges) + 1] = new
    BY <2>1 DEF TypeInv, TypeOK
  <2>3. use \in todo /\ current.id \in expanded
    BY <1>3 DEF Linking
  <2>4. \A k \in DOMAIN edges : ~(edges[k].from = new.from /\ edges[k].name = new.name)
    BY <2>3 DEF TodoIsNew
  <2>5. NoDependencyTwice'
    BY <2>2, <2>4 DEF NoDependencyTwice
  <2>6. \A i \in todo' : deps[i] # deps[use]
    <3> SUFFICES ASSUME NEW i \in todo' PROVE deps[i] # deps[use]
      OBVIOUS
    <3>1. i \in FirstUses(deps) /\ use \in FirstUses(deps) /\ i # use
      BY <2>1, <2>3 DEF TodoIsNew
    <3>2. i \in Nat \ {0} /\ use \in Nat \ {0}
      BY <3>1 DEF FirstUses, TypeInv, TypeOK
    <3>3. i \in 1 .. (use - 1) \/ use \in 1 .. (i - 1)
      BY <3>1, <3>2
    <3> QED
      BY <3>1, <3>3 DEF FirstUses
  <2>7. TodoIsNew'
    BY <2>1, <2>2, <2>3, <2>6 DEF TodoIsNew
  <2> QED
    BY <2>5, <2>7
<1>4. CASE ReportUnresolved \/ SkipUnopenable
  BY <1>1, <1>4 DEF ReportUnresolved, SkipUnopenable
<1>5. CASE LookStep
  BY <1>1, <1>5, LooksAreIdle
<1>6. CASE \/ ReadRoot \/ ReadRootFails \/ AddRoot \/ AddRootFails
           \/ LimitExceeded \/ Finish \/ ChangeFile \/ UNCHANGED vars
  BY <1>1, <1>6 DEF ReadRoot, ReadRootFails, AddRoot, AddRootFails, LimitExceeded,
                    Finish, ChangeFile, vars, walk
<1>7. CASE LinkKnown \/ LinkNew
  BY <1>3, <1>7, LinkingSteps
<1> QED
  BY <1>2, <1>4, <1>5, <1>6, <1>7 DEF Next, Step, LookStep

(* Taking from one end and adding one level at the other keeps the order.  *)
LEMMA DepthStep ==
  ASSUME TypeInv, KeysAreSound, QueueIsByDepth, [Next]_vars
  PROVE  QueueIsByDepth'
<1>1. CASE UNCHANGED <<queue, current>>
  BY <1>1 DEF QueueIsByDepth
<1>2. CASE AddRoot
  <2>1. DOMAIN queue' = {1} /\ queue'[1].depth = 0
    BY <1>2 DEF AddRoot
  <2>2. current' = current /\ current.depth = 0
    BY <1>2 DEF AddRoot, TypeInv, TypeOK, ControlOK, QueueItem, NodeId
  <2> QED
    BY <2>1, <2>2 DEF QueueIsByDepth
<1>3. CASE Dequeue
  <2>1. /\ queue \in Seq(QueueItem) /\ queue # <<>> /\ queue' = Tail(queue)
        /\ current' = current \/ current' = queue[1]
    BY <1>3 DEF Dequeue, TypeInv, TypeOK
  <2>2. /\ DOMAIN queue' = 1 .. (Len(queue) - 1) /\ Len(queue) \in Nat \ {0}
        /\ \A i \in DOMAIN queue' : queue'[i] = queue[i + 1]
    BY <2>1, HeadTailProperties
  <2>3. \A i \in DOMAIN queue : queue[i].depth \in Nat
    <3>1. \A i \in DOMAIN queue : queue[i] \in QueueItem
      BY <2>1
    <3> QED
      BY <3>1, GraphAssumption DEF QueueItem
  <2>4. \A i \in DOMAIN queue' : i + 1 \in DOMAIN queue /\ 1 \in DOMAIN queue /\ i \in Nat
    BY <2>1, <2>2
  <2>5. current.depth \in Nat
    BY GraphAssumption DEF TypeInv, TypeOK, QueueItem
  <2>6. \A i, j \in DOMAIN queue' : i <= j => queue'[i].depth <= queue'[j].depth
    BY <2>2, <2>4 DEF QueueIsByDepth
  <2>7. \A i \in DOMAIN queue' : queue'[i].depth \in {current'.depth, current'.depth + 1}
    <3> SUFFICES ASSUME NEW i \in DOMAIN queue'
                 PROVE  queue'[i].depth \in {current'.depth, current'.depth + 1}
      OBVIOUS
    <3>1. /\ queue'[i] = queue[i + 1] /\ queue[1].depth <= queue[i + 1].depth
          /\ queue[1].depth \in {current.depth, current.depth + 1}
          /\ queue[i + 1].depth \in {current.depth, current.depth + 1}
      BY <2>2, <2>4 DEF QueueIsByDepth
    <3> QED
      BY <2>1, <2>3, <2>4, <2>5, <3>1
  <2> QED
    BY <2>6, <2>7 DEF QueueIsByDepth
<1>4. ASSUME NEW v, Linking(v) PROVE QueueIsByDepth'
  <2>1. current' = current /\ current.depth \in Nat
    BY <1>4, GraphAssumption DEF Linking, Connect, TypeInv, TypeOK, QueueItem
  <2>2. CASE queue' = queue
    BY <1>1, <2>1, <2>2
  <2>3. CASE queue' = Append(queue, [id |-> v, depth |-> current.depth + 1])
    <3>1. /\ DOMAIN queue' = DOMAIN queue \cup {Len(queue) + 1}
          /\ \A i \in DOMAIN queue : queue'[i] = queue[i] /\ i \in Nat /\ i < Len(queue) + 1
          /\ queue'[Len(queue) + 1].depth = current.depth + 1 /\ Len(queue) \in Nat
      BY <2>3 DEF TypeInv, TypeOK
    <3>2. \A i \in DOMAIN queue' : queue'[i].depth \in {current.depth, current.depth + 1}
      BY <3>1 DEF QueueIsByDepth
    <3>3. \A i, j \in DOMAIN queue' : i <= j => queue'[i].depth <= queue'[j].depth
      BY <2>1, <3>1, <3>2 DEF QueueIsByDepth
    <3> QED
      BY <2>1, <3>2, <3>3 DEF QueueIsByDepth
  <2> QED
    BY <1>4, <2>2, <2>3 DEF Linking, Connect, Enqueue
<1>5. CASE LookStep
  BY <1>1, <1>5, LooksAreIdle
<1>6. CASE \/ ReadRoot \/ ReadRootFails \/ AddRootFails \/ ReportUnresolved
           \/ SkipUnopenable \/ LimitExceeded \/ Finish \/ ChangeFile \/ UNCHANGED vars
  BY <1>1, <1>6 DEF ReadRoot, ReadRootFails, AddRootFails, ReportUnresolved,
                    SkipUnopenable, LimitExceeded, Finish, ChangeFile, vars, walk
<1>7. CASE LinkKnown \/ LinkNew
  BY <1>4, <1>7, LinkingSteps
<1> QED
  BY <1>2, <1>3, <1>5, <1>6, <1>7 DEF Next, Step, LookStep

(* The inductive invariant holds at the start.                             *)
LEMMA IInvInit == Init => IInv
<1> SUFFICES ASSUME Init PROVE IInv
  OBVIOUS
<1>1. NodeId = {} /\ DOMAIN edges = {} /\ DOMAIN queue = {} /\ todo = {}
  BY DEF Init, NodeId
<1> QED
  BY <1>1, TypeInit DEF TypeInv, IInv, EveryNodeIsNeeded, NoDependencyTwice,
                        TodoIsNew, QueueIsByDepth

(* Every step keeps the inductive invariant.                               *)
LEMMA IInvStep == IInv /\ [Next]_vars => IInv'
<1> SUFFICES ASSUME IInv, [Next]_vars PROVE IInv'
  OBVIOUS
<1>1. TypeInv /\ KeysAreSound /\ OnceInv
  BY DEF IInv, TypeInv, OnceInv
<1>2. TypeInv' /\ KeysAreSound'
  BY <1>1, TypeStep, KeysStep
<1>3. OnceInv'
  BY <1>1, OnceStep
<1>4. EveryNodeIsNeeded' /\ QueueIsByDepth'
  BY <1>1, NeededStep, DepthStep DEF IInv
<1> QED
  BY <1>2, <1>3, <1>4 DEF IInv, TypeInv, OnceInv

(* The inductive invariant holds in every reachable state.                 *)
LEMMA Inductive == Spec => []IInv
  BY IInvInit, IInvStep, PTL DEF Spec

(* No file that is always there has two nodes, though names, links and     *)
(* search directories lead to it in many ways; and a file that vanishes    *)
(* has more only under the names of links that lead to it.                 *)
THEOREM DistinctCorrect == Spec => []NodesAreDistinct
  BY Inductive, DistinctFollows, PTL DEF IInv

(* A node is only made for the root or for a file that an older node needs *)
(* and that could be opened.                                               *)
THEOREM NeededCorrect == Spec => []EveryNodeIsNeeded
  BY Inductive, PTL DEF IInv

(* However often a node is in the queue and a name in a table, there is    *)
(* one edge for each name.                                                 *)
THEOREM OnceCorrect == Spec => []NoDependencyTwice
  BY Inductive, PTL DEF IInv

(* The walk is breadth first.                                              *)
THEOREM DepthCorrect == Spec => []QueueIsByDepth
  BY Inductive, PTL DEF IInv

(* The graph never has more nodes than --max-nodes.                        *)
THEOREM LimitCorrect == Spec => [](Len(nodes) <= MaxNodes)
  BY Inductive, PTL DEF IInv, ControlOK

(***************************************************************************)
(* The walk cannot go on for ever: what is left to do, as six numbers of   *)
(* which the first counts most.  A node is expanded once, of at most       *)
(* MaxNodes; its names are finitely many; a name is taken from place to    *)
(* place, and from candidate to candidate in the first of these; and the   *)
(* queue only grows when a name is done.                                   *)
(***************************************************************************)
Stage ==
  [read |-> 4, root |-> 3, openRoot |-> 2, expand |-> 1, try |-> 1, found |-> 1, real |-> 1,
   add |-> 1, open |-> 1, done |-> 0][pc]

PlacesLeft ==
  [read |-> 0, root |-> 0, openRoot |-> 0, expand |-> 5, try |-> 4, found |-> 3, real |-> 2,
   add |-> 1, open |-> 0, done |-> 0][pc]

NodesLeft == MaxNodes - Cardinality(expanded)
NamesLeft == Cardinality(todo)
CandidatesLeft == IF pc = "try" THEN Cardinality({i \in DOMAIN candidates : try <= i}) ELSE 0
Work == <<Stage, NodesLeft, NamesLeft, PlacesLeft, CandidatesLeft, Len(queue)>>

Less(a, b) == \E k \in 1 .. 6 : a[k] < b[k] /\ \A j \in 1 .. (k - 1) : a[j] = b[j]

WorkIsFinite ==
  /\ Stage \in Nat /\ NodesLeft \in Nat /\ NamesLeft \in Nat
  /\ PlacesLeft \in Nat /\ CandidatesLeft \in Nat /\ Len(queue) \in Nat

WorkIsDone == (Step => Less(Work', Work)) /\ (ChangeFile => Work' = Work)

LEMMA LessAt ==
  ASSUME NEW x, NEW y, NEW k \in 1 .. 6, x[k] < y[k],
         k > 1 => x[1] = y[1], k > 2 => x[2] = y[2], k > 3 => x[3] = y[3],
         k > 4 => x[4] = y[4], k > 5 => x[5] = y[5]
  PROVE  Less(x, y)
<1>1. \A j \in 1 .. (k - 1) : x[j] = y[j]
  <2> SUFFICES ASSUME NEW j \in 1 .. (k - 1) PROVE x[j] = y[j]
    OBVIOUS
  <2>1. j \in {1, 2, 3, 4, 5} /\ k > j
    OBVIOUS
  <2> QED
    BY <2>1
<1> QED
  BY <1>1 DEF Less

(* The candidates that are still to be tried are finitely many.            *)
LEMMA CandidatesAreFinite ==
  ASSUME TypeInv, pc = "try"
  PROVE  /\ DOMAIN candidates \subseteq Int /\ IsFiniteSet(DOMAIN candidates)
         /\ IsFiniteSet({i \in DOMAIN candidates : try <= i})
         /\ CandidatesLeft \in Nat
<1>1. deps[use] \in Name
  BY DEF TypeInv, TypeOK, ControlOK
<1>2. DOMAIN candidates \subseteq Int /\ IsFiniteSet(DOMAIN candidates)
  BY <1>1, CandidatesAreNumbered DEF candidates
<1>3. IsFiniteSet({i \in DOMAIN candidates : try <= i})
  BY <1>2, FS_Subset
<1> QED
  BY <1>2, <1>3, FS_CardinalityType DEF CandidatesLeft

LEMMA WorkFinite == TypeInv => WorkIsFinite /\ IsFiniteSet(expanded) /\ IsFiniteSet(todo)
<1> SUFFICES ASSUME TypeInv PROVE WorkIsFinite /\ IsFiniteSet(expanded) /\ IsFiniteSet(todo)
  OBVIOUS
<1>1. IsFiniteSet(NodeId) /\ Cardinality(NodeId) = Len(nodes) /\ Len(nodes) \in Nat
  <2>1. Len(nodes) \in Nat
    BY DEF TypeInv, TypeOK
  <2>2. \A n \in Nat : IsFiniteSet(1 .. n) /\ Cardinality(1 .. n) = n
    BY FS_Interval
  <2> QED
    BY <2>1, <2>2 DEF NodeId
<1>2. IsFiniteSet(expanded) /\ Cardinality(expanded) <= Len(nodes) /\ Cardinality(expanded) \in Nat
  BY <1>1, FS_Subset, FS_CardinalityType DEF TypeInv, TypeOK
<1>3. NodesLeft \in Nat
  BY <1>1, <1>2, GraphAssumption DEF NodesLeft, TypeInv, ControlOK
<1>4. IsFiniteSet(todo) /\ NamesLeft \in Nat
  <2>1. IsFiniteSet(1 .. Len(deps)) /\ DOMAIN deps = 1 .. Len(deps)
    BY FS_Interval DEF TypeInv, TypeOK
  <2>2. IsFiniteSet(todo)
    BY <2>1, FS_Subset DEF TypeInv, TypeOK
  <2> QED
    BY <2>2, FS_CardinalityType DEF NamesLeft
<1>5. Stage \in Nat /\ PlacesLeft \in Nat /\ Len(queue) \in Nat
  BY DEF Stage, PlacesLeft, TypeInv, TypeOK
<1>6. CandidatesLeft \in Nat
  BY CandidatesAreFinite DEF CandidatesLeft
<1> QED
  BY <1>2, <1>3, <1>4, <1>5, <1>6 DEF WorkIsFinite

(* One name less is to be handled. *)
LEMMA OneNameLess ==
  ASSUME IsFiniteSet(todo), NEW n \in todo, todo' = todo \ {n}
  PROVE  Cardinality(todo') = Cardinality(todo) - 1 /\ Cardinality(todo) \in Nat
BY FS_RemoveElement, FS_CardinalityType

(* Trying the next candidate leaves one less. *)
LEMMA OneCandidateLess ==
  ASSUME TypeInv, TryNext
  PROVE  CandidatesLeft' < CandidatesLeft
<1> DEFINE left == {i \in DOMAIN candidates : try <= i}
<1>1. pc = "try" /\ pc' = "try" /\ try' = try + 1 /\ try \in DOMAIN candidates
      /\ candidates' = candidates
  BY DEF TryNext, candidates
<1>2. IsFiniteSet(left) /\ DOMAIN candidates \subseteq Int
  BY <1>1, CandidatesAreFinite
<1>3. {i \in DOMAIN candidates : try + 1 <= i} = left \ {try} /\ try \in left
  BY <1>1, <1>2
<1>4. CandidatesLeft = Cardinality(left) /\ CandidatesLeft' = Cardinality(left \ {try})
  BY <1>1, <1>3 DEF CandidatesLeft
<1> HIDE DEF left
<1>5. Cardinality(left \ {try}) = Cardinality(left) - 1 /\ Cardinality(left) \in Nat
  BY <1>2, <1>3, FS_RemoveElement, FS_CardinalityType
<1> QED
  BY <1>4, <1>5

LEMMA WorkDone ==
  ASSUME TypeInv, KeysAreSound, TypeInv', Step
  PROVE  Less(Work', Work)
<1>1. /\ WorkIsFinite /\ WorkIsFinite' /\ IsFiniteSet(expanded) /\ IsFiniteSet(todo)
  <2>1. WorkIsFinite'
    BY WorkFinite, PTL
  <2> QED
    BY <2>1, WorkFinite
<1>2. /\ Work[1] = Stage /\ Work[2] = NodesLeft /\ Work[3] = NamesLeft
      /\ Work[4] = PlacesLeft /\ Work[5] = CandidatesLeft /\ Work[6] = Len(queue)
      /\ Work'[1] = Stage' /\ Work'[2] = NodesLeft' /\ Work'[3] = NamesLeft'
      /\ Work'[4] = PlacesLeft' /\ Work'[5] = CandidatesLeft' /\ Work'[6] = Len(queue')
  BY DEF Work
<1> HIDE DEF Work
<1>3. CASE ReadRoot \/ ReadRootFails \/ KeyRoot \/ AddRoot \/ AddRootFails \/ LimitExceeded \/ Finish
  <2>1. Stage' < Stage
    BY <1>3 DEF Stage, ReadRoot, ReadRootFails, KeyRoot, AddRoot, AddRootFails, LimitExceeded, Finish, Return
  <2> QED
    BY <1>2, <2>1, LessAt
<1>4. CASE Dequeue
  <2>1. Stage' = Stage /\ PlacesLeft' = PlacesLeft /\ CandidatesLeft' = CandidatesLeft
    BY <1>4 DEF Stage, PlacesLeft, CandidatesLeft, Dequeue
  <2>2. CASE Head(queue).id \in expanded
    <3>1. expanded' = expanded /\ todo' = todo /\ queue' = Tail(queue) /\ queue # <<>>
      BY <1>4, <2>2 DEF Dequeue, AlreadyExpanded
    <3>2. NodesLeft' = NodesLeft /\ NamesLeft' = NamesLeft
      BY <3>1 DEF NodesLeft, NamesLeft
    <3>3. Len(queue') < Len(queue)
      <4>1. queue \in Seq(QueueItem)
        BY DEF TypeInv, TypeOK
      <4> QED
        BY <3>1, <4>1
    <3> QED
      BY <1>2, <2>1, <3>2, <3>3, LessAt
  <2>3. CASE Head(queue).id \notin expanded
    <3>1. expanded' = expanded \cup {Head(queue).id}
      BY <1>4, <2>3 DEF Dequeue, AlreadyExpanded
    <3>2. Cardinality(expanded') = Cardinality(expanded) + 1 /\ Cardinality(expanded) \in Nat
      BY <1>1, <2>3, <3>1, FS_AddElement, FS_CardinalityType
    <3>3. NodesLeft' < NodesLeft
      BY <3>2, GraphAssumption DEF NodesLeft
    <3> QED
      BY <1>2, <2>1, <3>3, LessAt
  <2> QED
    BY <2>2, <2>3
<1>5. CASE TakeName \/ Found \/ ResolveGone \/ ResolveThere \/ Resolve \/ MakeKey
  <2>1. NodesLeft' = NodesLeft /\ NamesLeft' = NamesLeft
    BY <1>5, LooksAreIdle DEF LookStep, NodesLeft, NamesLeft
  <2>2. Stage' = Stage /\ PlacesLeft' < PlacesLeft
    BY <1>5 DEF TakeName, Found, ResolveGone, ResolveThere, Resolve, MakeKey, Stage, PlacesLeft
  <2> QED
    BY <1>2, <2>1, <2>2, LessAt
<1>6. CASE TryNext
  <2>1. NodesLeft' = NodesLeft /\ NamesLeft' = NamesLeft
    BY <1>6, LooksAreIdle DEF LookStep, NodesLeft, NamesLeft
  <2>2. Stage' = Stage /\ PlacesLeft' = PlacesLeft
    BY <1>6 DEF TryNext, Stage, PlacesLeft
  <2> QED
    BY <1>2, <1>6, <2>1, <2>2, OneCandidateLess, LessAt
<1>7. ASSUME use \in todo, todo' = todo \ {use}, pc \in {"try", "add", "open"}, pc' = "expand",
             expanded' = expanded
      PROVE  Less(Work', Work)
  <2>1. Stage' = Stage /\ NodesLeft' = NodesLeft
    BY <1>7 DEF Stage, NodesLeft
  <2>2. NamesLeft' < NamesLeft
    BY <1>1, <1>7, OneNameLess DEF NamesLeft
  <2> QED
    BY <1>2, <2>1, <2>2, LessAt
<1>8. CASE ReportUnresolved \/ SkipUnopenable
  <2>1. use \in todo
    BY <1>8 DEF ReportUnresolved, SkipUnopenable, TypeInv, ControlOK
  <2> QED
    BY <1>7, <1>8, <2>1 DEF ReportUnresolved, SkipUnopenable
<1>9. CASE LinkKnown \/ LinkNew
  <2>1. PICK v : Linking(v)
    BY <1>9, LinkingSteps
  <2> QED
    BY <1>7, <2>1 DEF Linking, Connect
<1> QED
  BY <1>3, <1>4, <1>5, <1>6, <1>8, <1>9 DEF Step

LEMMA WorkStays == ChangeFile => Work' = Work
<1> SUFFICES ASSUME ChangeFile PROVE Work' = Work
  OBVIOUS
<1>1. UNCHANGED <<pc, nodes, expanded, current, deps, todo, queue, use, try>>
  BY DEF ChangeFile, walk, hand
<1>2. candidates' = candidates
  BY <1>1 DEF candidates
<1>3. Stage' = Stage /\ PlacesLeft' = PlacesLeft /\ CandidatesLeft' = CandidatesLeft
  BY <1>1, <1>2 DEF Stage, PlacesLeft, CandidatesLeft
<1>4. NodesLeft' = NodesLeft /\ NamesLeft' = NamesLeft
  BY <1>1 DEF NodesLeft, NamesLeft
<1> QED
  BY <1>1, <1>3, <1>4 DEF Work

(* Every step of the walk leaves less to do, and what is left is always    *)
(* given by natural numbers, of which there is no endless descent: however *)
(* often the files change, the walk takes finitely many steps.  With the   *)
(* fairness of Step this is Termination.                                   *)
THEOREM WalkRunsOut == Spec => []WorkIsFinite /\ [][WorkIsDone]_vars
<1>1. IInv => WorkIsFinite
  BY WorkFinite DEF IInv, TypeInv
<1>2. IInv /\ IInv' /\ [Next]_vars => [WorkIsDone]_vars
  <2> SUFFICES ASSUME IInv, IInv', Next PROVE WorkIsDone
    OBVIOUS
  <2>1. TypeInv /\ TypeInv' /\ KeysAreSound
    BY DEF IInv, TypeInv
  <2> QED
    BY <2>1, WorkDone, WorkStays DEF WorkIsDone
<1>3. Spec => []IInv /\ [][Next]_vars
  BY Inductive, PTL DEF Spec
<1> QED
  BY <1>1, <1>2, <1>3, PTL

(***************************************************************************)
(* The walk keeps the promises of GraphExploration: every step is a step   *)
(* of the abstract exploration or none.                                    *)
(***************************************************************************)
known == Range(nodes)
links == {link(edges[k]) : k \in DOMAIN edges}
abstract == <<known, links, outcome>>

(* With distinct keys there are as many of them as nodes.                  *)
LEMMA KnownCardinality ==
  ASSUME TypeInv, KeysAreSound
  PROVE  IsFiniteSet(known) /\ Cardinality(known) = Len(nodes)
<1>1. Len(nodes) \in Nat /\ nodes \in [NodeId -> known]
  BY DEF TypeInv, TypeOK, NodeId, known, Range
<1>2. IsFiniteSet(NodeId) /\ Cardinality(NodeId) = Len(nodes)
  BY <1>1, FS_Interval DEF NodeId
<1>3. nodes \in Bijection(NodeId, known)
  <2>1. nodes \in Injection(NodeId, known)
    BY <1>1 DEF KeysAreSound, Injection, IsInjective
  <2>2. nodes \in Surjection(NodeId, known)
    BY <1>1 DEF known, Range, Surjection
  <2> QED
    BY <2>1, <2>2 DEF Bijection
<1>4. ExistsBijection(NodeId, known)
  BY <1>3 DEF ExistsBijection
<1> QED
  BY <1>2, <1>4, FS_Bijection

(* The ends of an edge are nodes.                                          *)
LEMMA EdgeEnds ==
  ASSUME TypeInv, NEW k \in DOMAIN edges
  PROVE  edges[k].from \in NodeId /\ edges[k].to \in NodeId
<1> DEFINE Edge == [from : NodeId, to : NodeId, name : Name]
<1>1. edges \in Seq(Edge)
  BY DEF TypeInv, TypeOK
<1>2. edges[k] \in Edge
  <2> HIDE DEF Edge
  <2> QED
    BY <1>1
<1> QED
  BY <1>2

(* Adding nodes does not change the links there are.                       *)
LEMMA LinksStay ==
  ASSUME TypeInv, NEW v, Linking(v), NEW k \in DOMAIN edges
  PROVE  /\ edges'[k] = edges[k] /\ k \in DOMAIN edges'
         /\ link(edges[k])' = link(edges[k])
<1>1. edges'[k] = edges[k] /\ k \in DOMAIN edges'
  BY DEF Linking, Connect, TypeInv, TypeOK
<1>2. edges[k].from \in NodeId /\ edges[k].to \in NodeId
  BY EdgeEnds
<1>3. \A w \in NodeId : nodes'[w] = nodes[w]
  <2>1. nodes \in Seq(Path) /\ (nodes' = nodes \/ (nodes' = Append(nodes, key) /\ key \in Path))
    BY DEF Linking, TypeInv, TypeOK
  <2> QED
    BY <2>1, AppendProperties DEF NodeId
<1> QED
  BY <1>1, <1>2, <1>3 DEF link

(* A linking step adds a node's path to the paths and one link to it.      *)
LEMMA LinkingMaps ==
  ASSUME TypeInv, NEW v, Linking(v)
  PROVE  /\ nodes'[v] \in Path /\ known' = known \cup {nodes'[v]}
         /\ links' = links \cup {<<nodes[current.id], deps[use], nodes'[v]>>}
<1>1. nodes'[v] \in Path /\ known' = known \cup {nodes'[v]}
  <2>1. CASE nodes' = nodes
    BY <2>1 DEF Linking, known, Range, NodeId, TypeInv, TypeOK
  <2>2. CASE nodes' = Append(nodes, key) /\ key \in Path /\ nodes'[v] = key
    <3>1. /\ DOMAIN nodes' = DOMAIN nodes \cup {Len(nodes) + 1}
          /\ nodes'[Len(nodes) + 1] = key
          /\ \A w \in DOMAIN nodes : nodes'[w] = nodes[w]
      BY <2>2 DEF TypeInv, TypeOK
    <3> QED
      BY <2>2, <3>1 DEF known, Range
  <2> QED
    BY <2>1, <2>2 DEF Linking
<1>2. /\ DOMAIN edges' = DOMAIN edges \cup {Len(edges) + 1}
      /\ edges'[Len(edges) + 1] = [from |-> current.id, to |-> v, name |-> deps[use]]
  BY DEF Linking, Connect, TypeInv, TypeOK
<1>3. nodes'[current.id] = nodes[current.id]
  BY DEF Linking, NodeId, TypeInv, TypeOK
<1> DEFINE after(k) == <<nodes'[edges'[k].from], edges'[k].name, nodes'[edges'[k].to]>>
<1>4. after(Len(edges) + 1) = <<nodes[current.id], deps[use], nodes'[v]>>
  BY <1>2, <1>3
<1>5. \A k \in DOMAIN edges : after(k) = link(edges[k])
  BY LinksStay DEF link
<1>6. links' = {after(k) : k \in DOMAIN edges'}
  BY DEF links, link
<1>7. links' = {after(k) : k \in DOMAIN edges} \cup {after(Len(edges) + 1)}
  BY <1>2, <1>6
<1>8. {after(k) : k \in DOMAIN edges} = links
  BY <1>5 DEF links
<1> QED
  BY <1>1, <1>4, <1>7, <1>8

(* The cardinality that GraphExploration uses is the usual one.            *)
LEMMA SameCardinality == \A S : Exploration!Cardinality(S) = Cardinality(S)
  BY Zenon DEF Exploration!Cardinality, Cardinality

(* The initial states map to the initial state of the exploration.         *)
LEMMA InitMaps == Init => Exploration!Init
  BY DEF Init, Exploration!Init, Range

(* A linking step maps to Follow.                                          *)
LEMMA FollowMaps ==
  ASSUME IInv, NEW v, Linking(v), UNCHANGED outcome, outcome = "none"
  PROVE  Exploration!Follow
<1>1. TypeInv /\ KeysAreSound
  BY DEF IInv, TypeInv
<1> DEFINE f == nodes[current.id]
           n == deps[use]
           to == nodes'[v]
<1>2. f \in known /\ n \in Name /\ to \in Path
  <2>1. f \in known /\ n \in Name
    BY <1>1 DEF Linking, known, Range, NodeId, TypeInv, TypeOK
  <2> QED
    BY <1>1, <2>1, LinkingMaps
<1>3. \A other \in Path : <<f, n, other>> \notin links
  <2> SUFFICES ASSUME NEW k \in DOMAIN edges, NEW other \in Path,
                      link(edges[k]) = <<f, n, other>>
               PROVE  FALSE
    BY DEF links
  <2>1. nodes[edges[k].from] = f /\ edges[k].name = n
    BY DEF link
  <2>2. edges[k].from \in NodeId /\ current.id \in NodeId
    BY <1>1, EdgeEnds DEF Linking
  <2>3. edges[k].from = current.id
    BY <1>1, <2>1, <2>2 DEF KeysAreSound
  <2> QED
    BY <2>1, <2>3 DEF IInv, TodoIsNew, Linking
<1>4. to \notin known => Exploration!Cardinality(known) < MaxNodes
  <2>1. CASE nodes' = nodes
    BY <1>1, <2>1 DEF Linking, NodeId, known, Range, TypeInv, TypeOK
  <2>2. CASE Len(nodes) < MaxNodes
    BY <1>1, <2>2, KnownCardinality, SameCardinality
  <2> QED
    BY <2>1, <2>2 DEF Linking
<1>5. known' = known \cup {to} /\ links' = links \cup {<<f, n, to>>}
  BY <1>1, LinkingMaps
<1> HIDE DEF f, n, to
<1> QED
  BY <1>2, <1>3, <1>4, <1>5 DEF Exploration!Follow, known, links

(* Every step maps to a step of the exploration or to a stutter.           *)
LEMMA StepMaps == IInv /\ [Next]_vars => [Exploration!Next]_abstract
<1> SUFFICES ASSUME IInv, [Next]_vars PROVE [Exploration!Next]_abstract
  OBVIOUS
<1>1. TypeInv /\ KeysAreSound
  BY DEF IInv, TypeInv
<1>2. CASE UNCHANGED <<nodes, edges, outcome>>
  BY <1>2 DEF abstract, known, links, link
<1>3. CASE LinkKnown \/ LinkNew
  <2>1. PICK v : Linking(v)
    BY <1>1, <1>3, LinkingSteps
  <2>2. UNCHANGED outcome /\ outcome = "none"
    BY <1>1, <2>1 DEF Linking, Connect, TypeInv, ControlOK
  <2> QED
    BY <2>1, <2>2, FollowMaps DEF Exploration!Next
<1>4. CASE AddRoot
  <2>1. nodes = <<>> /\ edges = <<>> /\ outcome = "none"
    BY <1>1, <1>4 DEF AddRoot, TypeInv, ControlOK
  <2>2. Range(nodes) = {} /\ Range(nodes)' = {key} /\ key \in rootKeys
    BY <1>1, <1>4, <2>1 DEF AddRoot, Range, KeysAreSound
  <2>3. {link(edges[k]) : k \in DOMAIN edges}' = {link(edges[k]) : k \in DOMAIN edges}
    BY <1>4, <2>1 DEF AddRoot
  <2> QED
    BY <1>4, <2>1, <2>2, <2>3 DEF AddRoot, Exploration!Next, Exploration!Discover
<1>5. CASE ReadRootFails \/ AddRootFails
  <2>1. /\ UNCHANGED <<nodes, edges>> /\ outcome = "none" /\ nodes = <<>>
        /\ outcome' \in {"FileNotFound", "RootFailed"}
    BY <1>1, <1>5 DEF ReadRootFails, AddRootFails, Return, walk, TypeInv, ControlOK
  <2> QED
    BY <2>1 DEF Exploration!Next, Exploration!Fail, Range, link
<1>6. CASE LimitExceeded
  <2>1. /\ UNCHANGED <<nodes, edges>> /\ outcome = "none" /\ outcome' = "LimitExceeded"
        /\ Len(nodes) = MaxNodes
    BY <1>1, <1>6, GraphAssumption DEF LimitExceeded, Full, Return, walk, TypeInv, TypeOK, ControlOK
  <2>2. Exploration!Cardinality(Range(nodes)) = MaxNodes
    BY <1>1, <2>1, KnownCardinality, SameCardinality DEF IInv, known
  <2> QED
    BY <2>1, <2>2 DEF Exploration!Next, Exploration!Overflow, link
<1>7. CASE Finish
  <2>1. /\ UNCHANGED <<nodes, edges>> /\ outcome = "none" /\ outcome' = "Graph"
        /\ nodes # <<>> /\ nodes[1] \in rootKeys
    BY <1>1, <1>7 DEF Finish, Return, walk, TypeInv, ControlOK
  <2>2. nodes[1] \in Range(nodes)
    BY <1>1, <2>1 DEF Range, TypeInv, TypeOK
  <2> QED
    BY <2>1, <2>2 DEF Exploration!Next, Exploration!Complete, link
<1>8. CASE LookStep
  BY <1>2, <1>8, LooksAreIdle
<1>9. CASE \/ ReadRoot \/ Dequeue \/ ReportUnresolved \/ SkipUnopenable \/ ChangeFile \/ UNCHANGED vars
  BY <1>2, <1>9 DEF ReadRoot, Dequeue, ReportUnresolved, SkipUnopenable, ChangeFile, vars, walk
<1> QED
  BY <1>3, <1>4, <1>5, <1>6, <1>7, <1>8, <1>9 DEF Next, Step, LookStep

(* Whatever happens to the files, the walk behaves like the exploration:   *)
(* files are only ever added along a dependency, at most MaxNodes of them, *)
(* one link for each name, and one verdict.                                *)
THEOREM Refines == Spec => Exploration!Safety
<1>1. IInv /\ [Next]_vars => [Exploration!Next]_(Exploration!vars)
  BY StepMaps DEF abstract, known, links, Exploration!vars
<1> QED
  BY <1>1, InitMaps, Inductive, PTL DEF Spec, Exploration!Safety

Search == INSTANCE FindCycles_proofs WITH Graphs <- {}, size <- Len(nodes)

(***************************************************************************)
(* The reference                                                           *)
(***************************************************************************)
(* A name stands for at most one file. *)
LEMMA OneTarget ==
  ASSUME NEW d, NEW f, NEW n \in Name, NEW g \in TargetsOf(d, f, n), NEW h \in TargetsOf(d, f, n)
  PROVE  g = h
<1> DEFINE c == Candidates(Directory(f), Directory(rootFile), n)
           hits == {i \in DOMAIN c : IsRegularFile(d, c[i])}
<1>1. PICK i \in hits : g = Canonical(d, c[i]) /\ \A k \in hits : i <= k
  BY DEF TargetsOf, ResolvesTo
<1>2. PICK j \in hits : h = Canonical(d, c[j]) /\ \A k \in hits : j <= k
  BY DEF TargetsOf, ResolvesTo
<1>3. i \in Int /\ j \in Int
  BY CandidatesAreNumbered
<1>4. i <= j /\ j <= i
  BY <1>1, <1>2
<1> QED
  BY <1>1, <1>2, <1>3, <1>4

LEMMA TargetsAreFiles == \A d, f, n : TargetsOf(d, f, n) \subseteq File
BY DEF TargetsOf, ResolvesTo, IsRegularFile, Canonical, Dangles

LEMMA NamesAreNames ==
  ASSUME NEW d \in [File -> FileState], NEW f \in File
  PROVE  NamesIn(d, f) \subseteq Name
<1>1. d[f].needs \in Seq(Name)
  BY DEF FileState
<1> QED
  BY <1>1 DEF NamesIn, Range

(* The levels, one after the other. *)
LEMMA Levels ==
  ASSUME NEW d
  PROVE  /\ Within(d)[0] = {rootFile}
         /\ \A k \in 1 .. (MaxDepth + 1) : Within(d)[k] = Further(d, Within(d)[k - 1])
<1> DEFINE lastLevel == MaxDepth + 1
           IsLevels(w, m) ==
             w = [k \in 0 .. m |-> IF k = 0 THEN {rootFile} ELSE Further(d, w[k - 1])]
           T == {m \in Nat : \E w : IsLevels(w, m)}
<1>1. MaxDepth \in Nat /\ lastLevel \in Nat
  BY GraphAssumption
<1>2. 0 \in T
  <2>1. IsLevels([k \in 0 .. 0 |-> {rootFile}], 0)
    OBVIOUS
  <2> QED
    BY <2>1
<1>3. ASSUME NEW m \in Nat, m \in T
      PROVE  m + 1 \in T
  <2>1. PICK w : IsLevels(w, m)
    BY <1>3
  <2> DEFINE more == [k \in 0 .. (m + 1) |-> IF k = m + 1 THEN Further(d, w[m]) ELSE w[k]]
  <2>2. \A k \in 0 .. (m + 1) : more[k] = IF k = 0 THEN {rootFile} ELSE Further(d, more[k - 1])
    <3> SUFFICES ASSUME NEW k \in 0 .. (m + 1)
                 PROVE  more[k] = IF k = 0 THEN {rootFile} ELSE Further(d, more[k - 1])
      OBVIOUS
    <3>1. CASE k = m + 1
      <4>1. more[m] = w[m] /\ more[m + 1] = Further(d, w[m])
        OBVIOUS
      <4>2. k # 0 /\ k - 1 = m
        BY <3>1
      <4> QED
        BY <3>1, <4>1, <4>2
    <3>2. CASE k \in 0 .. m
      <4>1. w[k] = IF k = 0 THEN {rootFile} ELSE Further(d, w[k - 1])
        BY <2>1, <3>2
      <4>2. more[k] = w[k] /\ (k # 0 => more[k - 1] = w[k - 1])
        BY <3>2
      <4> QED
        BY <4>1, <4>2
    <3> QED
      BY <3>1, <3>2
  <2>3. IsLevels(more, m + 1)
    BY <2>2
  <2> HIDE DEF more, IsLevels
  <2> QED
    BY <2>3
<1>4. lastLevel \in T
  <2>1. \A m \in 0 .. (lastLevel - 1) : m \in T => m + 1 \in T
    BY <1>3
  <2> HIDE DEF T, lastLevel
  <2>2. 0 .. lastLevel \subseteq T
    BY <1>1, <1>2, <2>1, Search!Climbing
  <2> QED
    BY <1>1, <2>2
<1>5. PICK w : IsLevels(w, lastLevel)
  BY <1>4
<1>6. Within(d) = CHOOSE w_1 : IsLevels(w_1, lastLevel)
  BY DEF Within
<1>7. IsLevels(Within(d), lastLevel)
  <2> HIDE DEF IsLevels
  <2> QED
    BY <1>5, <1>6
<1>8. /\ \A k \in 0 .. lastLevel : Within(d)[k] = IF k = 0 THEN {rootFile} ELSE Further(d, Within(d)[k - 1])
      /\ 0 \in 0 .. lastLevel /\ \A k \in 1 .. lastLevel : k \in 0 .. lastLevel /\ k # 0
  <2> DEFINE levels == Within(d)
  <2>1. levels = [k \in 0 .. lastLevel |-> IF k = 0 THEN {rootFile} ELSE Further(d, levels[k - 1])]
    BY <1>7
  <2> HIDE DEF levels, lastLevel
  <2>2. \A k \in 0 .. lastLevel : levels[k] = IF k = 0 THEN {rootFile} ELSE Further(d, levels[k - 1])
    BY <2>1, Zenon
  <2>3. 0 \in 0 .. lastLevel /\ \A k \in 1 .. lastLevel : k \in 0 .. lastLevel /\ k # 0
    BY <1>1
  <2> QED
    BY <2>2, <2>3 DEF levels
<1> QED
  BY <1>8

(* From one level to the next. *)
LEMMA NextLevel ==
  ASSUME NEW d, NEW k \in 0 .. MaxDepth
  PROVE  /\ k + 1 \in 0 .. (MaxDepth + 1) /\ k \in 0 .. (MaxDepth + 1)
         /\ Within(d)[k + 1] =
              Within(d)[k] \cup {g \in UNION {Needs(d, f) : f \in Within(d)[k]} : CanOpen(d, g)}
<1>1. MaxDepth \in Nat
  BY GraphAssumption
<1>2. k + 1 \in 1 .. (MaxDepth + 1) /\ (k + 1) - 1 = k /\ k + 1 \in 0 .. (MaxDepth + 1)
      /\ k \in 0 .. (MaxDepth + 1)
  BY <1>1
<1>3. Within(d)[k + 1] = Further(d, Within(d)[(k + 1) - 1])
  BY <1>2, Levels
<1> QED
  BY <1>2, <1>3 DEF Further

(* What holds at the root and goes from level to level holds at them all.  *)
LEMMA LevelByLevel ==
  ASSUME NEW T, NEW j \in 0 .. (MaxDepth + 1), j \in T,
         \A k \in j .. MaxDepth : k \in T => k + 1 \in T
  PROVE  j .. (MaxDepth + 1) \subseteq T
<1> DEFINE lastLevel == MaxDepth + 1
<1>1. MaxDepth \in Nat /\ j \in Nat /\ lastLevel \in Nat /\ MaxDepth = lastLevel - 1
  BY GraphAssumption
<1>2. \A k \in j .. (lastLevel - 1) : k \in T => k + 1 \in T
  BY <1>1
<1> HIDE DEF lastLevel
<1>3. j .. lastLevel \subseteq T
  BY <1>1, <1>2, Search!Climbing
<1> QED
  BY <1>3 DEF lastLevel

LEMMA LevelsGrow ==
  ASSUME NEW d, NEW j \in 0 .. (MaxDepth + 1), NEW k \in j .. (MaxDepth + 1)
  PROVE  Within(d)[j] \subseteq Within(d)[k]
<1> DEFINE T == {m \in Nat : Within(d)[j] \subseteq Within(d)[m]}
<1>1. j \in T
  OBVIOUS
<1>2. ASSUME NEW m \in j .. MaxDepth, m \in T PROVE m + 1 \in T
  <2>1. m \in 0 .. MaxDepth /\ m + 1 \in Nat
    OBVIOUS
  <2>2. Within(d)[m] \subseteq Within(d)[m + 1]
    BY <2>1, NextLevel
  <2> QED
    BY <1>2, <2>1, <2>2
<1>3. j .. (MaxDepth + 1) \subseteq T
  <2> HIDE DEF T
  <2> QED
    BY <1>1, <1>2, LevelByLevel
<1> QED
  BY <1>3

LEMMA LevelsAreFiles ==
  ASSUME NEW d, NEW k \in 0 .. (MaxDepth + 1)
  PROVE  Within(d)[k] \subseteq File
<1> DEFINE T == {m \in Nat : Within(d)[m] \subseteq File}
<1>1. 0 \in T /\ 0 \in 0 .. (MaxDepth + 1)
  BY Levels, RootIsFile, GraphAssumption
<1>2. ASSUME NEW m \in 0 .. MaxDepth, m \in T PROVE m + 1 \in T
  <2>1. \A f : Needs(d, f) \subseteq File
    BY TargetsAreFiles DEF Needs
  <2> QED
    BY <1>2, <2>1, NextLevel
<1>3. 0 .. (MaxDepth + 1) \subseteq T
  <2> HIDE DEF T
  <2> QED
    BY <1>1, <1>2, LevelByLevel
<1> QED
  BY <1>3

(* What a function makes of a finite set is finite. *)
LEMMA FiniteImage ==
  ASSUME NEW S, IsFiniteSet(S), NEW e, DOMAIN e = S, e = [x \in S |-> e[x]]
  PROVE  IsFiniteSet({e[x] : x \in S})
<1> DEFINE T == {e[x] : x \in S}
<1>1. e \in Surjection(S, T)
  BY DEF Surjection
<1> QED
  BY <1>1, FS_Surjection

(* There are finitely many files within reach. *)
LEMMA FiniteNeeds ==
  ASSUME NEW d \in [File -> FileState], NEW f \in File
  PROVE  IsFiniteSet(Needs(d, f))
<1>1. IsFiniteSet(NamesIn(d, f))
  <2> DEFINE needs == d[f].needs
  <2>1. needs \in Seq(Name)
    BY DEF FileState
  <2> HIDE DEF needs
  <2>2. Len(needs) \in Nat /\ DOMAIN needs = 1 .. Len(needs)
    BY <2>1
  <2>3. IsFiniteSet(1 .. Len(needs))
    BY <2>2, FS_Interval
  <2>4. IsFiniteSet({needs[i] : i \in 1 .. Len(needs)})
    BY <2>1, <2>2, <2>3, FiniteImage
  <2>5. IsFiniteSet(Range(needs))
    BY <2>2, <2>4 DEF Range
  <2> QED
    BY <2>5, FS_EmptySet DEF NamesIn, needs
<1>2. ASSUME NEW n \in NamesIn(d, f) PROVE IsFiniteSet(TargetsOf(d, f, n))
  <2>1. n \in Name
    BY NamesAreNames
  <2>2. CASE TargetsOf(d, f, n) = {}
    BY <2>2, FS_EmptySet
  <2>3. CASE TargetsOf(d, f, n) # {}
    <3>1. PICK g : g \in TargetsOf(d, f, n)
      BY <2>3
    <3>2. TargetsOf(d, f, n) = {g}
      BY <2>1, <3>1, OneTarget
    <3> QED
      BY <3>2, FS_Singleton
  <2> QED
    BY <2>2, <2>3
<1>3. IsFiniteSet({TargetsOf(d, f, n) : n \in NamesIn(d, f)})
  <2> DEFINE e == [n \in NamesIn(d, f) |-> TargetsOf(d, f, n)]
  <2>1. IsFiniteSet({e[n] : n \in NamesIn(d, f)})
    <3>1. DOMAIN e = NamesIn(d, f) /\ e = [n \in NamesIn(d, f) |-> e[n]]
      OBVIOUS
    <3> HIDE DEF e
    <3> QED
      BY <1>1, <3>1, FiniteImage
  <2> QED
    BY <2>1
<1>4. \A s \in {TargetsOf(d, f, n) : n \in NamesIn(d, f)} : IsFiniteSet(s)
  BY <1>2
<1> QED
  BY <1>3, <1>4, FS_UNION, Zenon DEF Needs

LEMMA FiniteLevels ==
  ASSUME NEW d \in [File -> FileState], NEW k \in 0 .. (MaxDepth + 1)
  PROVE  IsFiniteSet(Within(d)[k]) /\ IsFiniteSet(UNION {Needs(d, f) : f \in Within(d)[k]})
<1> DEFINE T == {m \in Nat : IsFiniteSet(Within(d)[m])}
<1>1. ASSUME NEW s \in SUBSET File, IsFiniteSet(s)
      PROVE  IsFiniteSet(UNION {Needs(d, f) : f \in s})
  <2>1. IsFiniteSet({Needs(d, f) : f \in s})
    <3> DEFINE e == [f \in s |-> Needs(d, f)]
    <3>1. DOMAIN e = s /\ e = [f \in s |-> e[f]] /\ {e[f] : f \in s} = {Needs(d, f) : f \in s}
      OBVIOUS
    <3> HIDE DEF e
    <3>2. IsFiniteSet({e[f] : f \in s})
      BY <1>1, <3>1, FiniteImage
    <3> QED
      BY <3>1, <3>2
  <2>2. \A t \in {Needs(d, f) : f \in s} : IsFiniteSet(t)
    BY FiniteNeeds
  <2> QED
    BY <2>1, <2>2, FS_UNION, Zenon
<1>2. 0 \in T /\ 0 \in 0 .. (MaxDepth + 1)
  <2>1. IsFiniteSet({rootFile})
    BY FS_Singleton, Zenon
  <2>2. 0 \in Nat /\ 0 \in 0 .. (MaxDepth + 1)
    BY GraphAssumption
  <2>3. IsFiniteSet(Within(d)[0])
    BY <2>1, Levels
  <2> QED
    BY <2>2, <2>3
<1>3. ASSUME NEW m \in 0 .. MaxDepth, m \in T PROVE m + 1 \in T
  <2> DEFINE more == {g \in UNION {Needs(d, f) : f \in Within(d)[m]} : CanOpen(d, g)}
  <2>1. IsFiniteSet(Within(d)[m]) /\ Within(d)[m] \in SUBSET File
    BY <1>3, NextLevel, LevelsAreFiles
  <2>2. IsFiniteSet(UNION {Needs(d, f) : f \in Within(d)[m]})
    BY <1>1, <2>1
  <2>3. IsFiniteSet(more)
    BY <2>2, FS_Subset
  <2>4. Within(d)[m + 1] = Within(d)[m] \cup more
    BY NextLevel
  <2> HIDE DEF more
  <2>5. IsFiniteSet(Within(d)[m + 1])
    <3>1. IsFiniteSet(Within(d)[m] \cup more)
      BY <2>1, <2>3, FS_Union, Zenon
    <3> QED
      BY <2>4, <3>1
  <2> QED
    BY <2>5
<1>4. 0 .. (MaxDepth + 1) \subseteq T
  <2> HIDE DEF T
  <2> QED
    BY <1>2, <1>3, LevelByLevel
<1>5. IsFiniteSet(Within(d)[k]) /\ Within(d)[k] \in SUBSET File
  BY <1>4, LevelsAreFiles
<1> QED
  BY <1>1, <1>5

(***************************************************************************)
(* The walk over files that stay as they are                               *)
(***************************************************************************)
Quiet == IInv /\ WalkInv /\ Step /\ disk' = disk

(* Where the walk is. *)
LEMMA CurrentFacts ==
  ASSUME IInv
  PROVE  /\ TypeInv /\ MaxDepth \in Nat /\ current.depth \in 0 .. MaxDepth /\ expanded \subseteq NodeId
         /\ disk \in [File -> FileState] /\ nodes \in Seq(Path) /\ NodeId = DOMAIN nodes
         /\ KeysAreSound /\ \A v, w \in NodeId : nodes[v] = nodes[w] => v = w
         /\ current.id # 0 => current.id \in NodeId
         /\ todo # {} => current.id \in expanded /\ current.id # 0
         /\ nodes = <<>> => NodeId = {} /\ current.id = 0 /\ current.depth = 0 /\ todo = {}
<1>1. MaxDepth \in Nat
  BY GraphAssumption
<1>2. TypeInv /\ KeysAreSound /\ \A v, w \in NodeId : nodes[v] = nodes[w] => v = w
  BY DEF IInv, TypeInv, KeysAreSound
<1>3. nodes \in Seq(Path) /\ disk \in [File -> FileState] /\ expanded \subseteq NodeId /\ NodeId = DOMAIN nodes
  BY DEF IInv, TypeOK, NodeId
<1>4. current \in QueueItem \/ (current.id = 0 /\ current.depth = 0)
  BY DEF IInv, TypeOK
<1>5. current \in QueueItem => current.id \in NodeId /\ current.id # 0 /\ current.depth \in 0 .. MaxDepth
  BY DEF QueueItem, NodeId
<1>6. todo # {} => current \in QueueItem /\ current.id \in expanded
  BY DEF IInv, ControlOK
<1>7. nodes = <<>> => NodeId = {} /\ todo = {}
  BY <1>3 DEF IInv, ControlOK
<1> QED
  BY <1>1, <1>2, <1>3, <1>4, <1>5, <1>6, <1>7

(* While the files stay as they are no node has the path of a link. *)
LEMMA NodesAreFiles ==
  ASSUME IInv, WalkInv
  PROVE  /\ nodes \in Seq(File) /\ \A v \in NodeId : nodes[v] \in File
         /\ nodes # <<>> => nodes[1] = rootFile
<1>1. nodes \in Seq(Path) /\ NodeId = DOMAIN nodes /\ \A v \in NodeId : nodes[v] \in File
  BY CurrentFacts DEF WalkInv, KeysAreFiles
<1>2. nodes \in [1 .. Len(nodes) -> File] /\ Len(nodes) \in Nat
  BY <1>1
<1> QED
  BY <1>1, <1>2 DEF WalkInv, KeysAreFiles

(* The candidates at hand are those of the name that the current file      *)
(* needs.                                                                  *)
LEMMA CandidatesAtHand ==
  ASSUME IInv, WalkInv, pc = "try"
  PROVE  /\ candidates = Candidates(Directory(nodes[current.id]), Directory(rootFile), deps[use])
         /\ deps[use] \in Name /\ \E m \in Nat : DOMAIN candidates = 1 .. m
<1>1. nodes[1] = rootFile
  BY NodesAreFiles DEF IInv, ControlOK
<1>2. deps[use] \in Name
  BY DEF IInv, ControlOK, TypeOK
<1>3. candidates = Candidates(Directory(nodes[current.id]), Directory(rootFile), deps[use])
  BY <1>1 DEF candidates
<1>4. PICK S : candidates \in Seq(S)
  BY <1>2, <1>3, CandidatesAreList
<1>5. DOMAIN candidates = 1 .. Len(candidates) /\ Len(candidates) \in Nat
  BY <1>4
<1> QED
  BY <1>2, <1>3, <1>5

(* When all candidates were tried in vain, the name stands for nothing.    *)
LEMMA TriedInVain ==
  ASSUME IInv, WalkInv, pc = "try", try \notin DOMAIN candidates
  PROVE  TargetsOf(disk, nodes[current.id], deps[use]) = {}
<1>1. PICK m \in Nat : DOMAIN candidates = 1 .. m
  BY CandidatesAtHand
<1>2. try > 0 /\ try \in Nat /\ \A i \in 1 .. (try - 1) : ~IsRegularFile(disk, candidates[i])
  BY DEF WalkInv, NamesAreCurrent, IInv, TypeOK
<1>3. \A i \in DOMAIN candidates : ~IsRegularFile(disk, candidates[i])
  BY <1>1, <1>2
<1> QED
  BY <1>3, CandidatesAtHand DEF TargetsOf, ResolvesTo

(* The candidate that is found is what the name stands for.                *)
LEMMA FoundIsTheTarget ==
  ASSUME IInv, WalkInv, pc = "try", try \in DOMAIN candidates, IsRegularFile(disk, candidates[try])
  PROVE  FileOf(candidates[try]) \in TargetsOf(disk, nodes[current.id], deps[use])
<1>1. PICK m \in Nat : DOMAIN candidates = 1 .. m
  BY CandidatesAtHand
<1>2. try \in Nat /\ \A i \in 1 .. (try - 1) : ~IsRegularFile(disk, candidates[i])
  BY DEF WalkInv, NamesAreCurrent, IInv, TypeOK
<1> DEFINE hits == {i \in DOMAIN candidates : IsRegularFile(disk, candidates[i])}
<1>3. try \in hits /\ \A k \in hits : try <= k
  <2> SUFFICES ASSUME NEW k \in hits PROVE try <= k
    OBVIOUS
  <2>1. k \in 1 .. m /\ k \notin 1 .. (try - 1)
    BY <1>1, <1>2
  <2> QED
    BY <1>2, <2>1
<1>4. Canonical(disk, candidates[try]) = FileOf(candidates[try])
  BY DEF Canonical, Dangles
<1>5. Canonical(disk, candidates[try])
        \in {Canonical(disk, candidates[i]) : i \in {h \in hits : \A k \in hits : h <= k}}
  BY <1>3
<1> QED
  BY <1>4, <1>5, CandidatesAtHand DEF TargetsOf, ResolvesTo

(* What the queue is after its head was taken. *)
LEMMA DequeueFacts ==
  ASSUME IInv, Dequeue
  PROVE  /\ 1 \in DOMAIN queue /\ Head(queue) = queue[1]
         /\ Head(queue).id \in NodeId /\ Head(queue).depth \in 0 .. MaxDepth
         /\ \A i \in DOMAIN queue' : i + 1 \in DOMAIN queue /\ queue'[i] = queue[i + 1]
         /\ \A i \in DOMAIN queue : i # 1 => i - 1 \in DOMAIN queue' /\ queue'[i - 1] = queue[i]
<1>1. queue \in Seq(QueueItem) /\ queue # <<>> /\ queue' = Tail(queue)
  BY DEF Dequeue, IInv, TypeOK
<1>2. 1 \in DOMAIN queue /\ Head(queue) = queue[1] /\ Head(queue) \in QueueItem
  BY <1>1
<1>3. /\ Len(queue) \in Nat \ {0} /\ DOMAIN queue = 1 .. Len(queue)
      /\ DOMAIN queue' = 1 .. (Len(queue) - 1)
      /\ \A i \in 1 .. (Len(queue) - 1) : queue'[i] = queue[i + 1]
  BY <1>1
<1>4. \A i \in DOMAIN queue' : i + 1 \in DOMAIN queue /\ queue'[i] = queue[i + 1]
  BY <1>3
<1>5. ASSUME NEW i \in DOMAIN queue, i # 1
      PROVE  i - 1 \in DOMAIN queue' /\ queue'[i - 1] = queue[i]
  <2>1. i - 1 \in DOMAIN queue' /\ (i - 1) + 1 = i
    BY <1>3, <1>5
  <2> QED
    BY <1>4, <2>1
<1> QED
  BY <1>2, <1>4, <1>5 DEF QueueItem

(* What a link adds, and what it leaves. *)
LEMMA LinkFacts ==
  ASSUME Quiet, LinkKnown \/ LinkNew
  PROVE  \E v :
    /\ NodeId' = NodeId \cup {v} /\ nodes'[v] = target /\ \A w \in NodeId : nodes'[w] = nodes[w]
    /\ CanOpen(disk, target)
    /\ LinksReported' = LinksReported \cup {<<nodes[current.id], deps[use], target>>}
    /\ \A i \in DOMAIN queue : i \in DOMAIN queue' /\ queue'[i] = queue[i]
    /\ \A i \in DOMAIN queue' :
         \/ i \in DOMAIN queue /\ queue'[i] = queue[i]
         \/ queue'[i].id = v /\ queue'[i].depth = current.depth + 1 /\ current.depth + 1 <= MaxDepth
    /\ current.depth + 1 <= MaxDepth => Queued(v)'
    /\ pc \in {"add", "open"} /\ pc' = "expand" /\ todo' = todo \ {use}
    /\ UNCHANGED <<expanded, unresolved, current, deps, outcome>>
<1>1. TypeInv /\ KeysAreSound /\ nodes \in Seq(File) /\ NodeId = DOMAIN nodes
      /\ pc \in {"add", "open"} /\ target \in File /\ Canonical(disk, target) = target
      /\ (pc = "open" => key = target)
  <2>1. pc \in {"add", "open"} /\ IInv /\ WalkInv
    BY DEF Quiet, LinkKnown, LinkNew
  <2>2. target \in File /\ (pc = "open" => key = target)
    BY <2>1, TargetsAreFiles DEF WalkInv, NamesAreCurrent
  <2> QED
    BY <2>1, <2>2, CurrentFacts, NodesAreFiles, CanonicalFacts
<1>2. PICK v : Linking(v) /\ nodes'[v] = target
  <2>1. CASE LinkKnown
    <3>1. PICK v \in DOMAIN nodes : nodes[v] = target /\ Connect(v)
      BY <1>1, <2>1 DEF LinkKnown
    <3>2. nodes' = nodes /\ v \in NodeId'
      BY <1>1, <2>1 DEF LinkKnown, NodeId
    <3>3. use \in todo /\ current.id \in expanded /\ current.id \in NodeId
      BY <1>1, CurrentFacts DEF Quiet, IInv, ControlOK
    <3> QED
      BY <1>1, <3>1, <3>2, <3>3 DEF Linking
  <2>2. CASE LinkNew
    <3>1. PICK v : Linking(v)
      BY <1>1, LinkingSteps
    <3>2. nodes' = Append(nodes, key) /\ key = target
      BY <1>1, <2>2 DEF LinkNew
    <3>3. Len(nodes') = Len(nodes) + 1 /\ Len(nodes) \in Nat
      BY <1>1, <3>2, AppendProperties
    <3>4. nodes' # nodes
      BY <3>3
    <3> QED
      BY <3>1, <3>2, <3>4 DEF Linking
  <2> QED
    BY <2>1, <2>2
<1>3. /\ NodeId' = NodeId \cup {v} /\ nodes'[v] = target /\ \A w \in NodeId : nodes'[w] = nodes[w]
  <2>1. CASE nodes' = nodes
    BY <1>2, <2>1 DEF Linking, NodeId
  <2>2. CASE nodes' = Append(nodes, key) /\ v = Len(nodes) + 1 /\ key \in Path
    <3>1. nodes \in Seq(Path)
      BY CurrentFacts DEF Quiet
    <3>2. Len(nodes') = Len(nodes) + 1 /\ Len(nodes) \in Nat /\ \A w \in 1 .. Len(nodes) : nodes'[w] = nodes[w]
      BY <2>2, <3>1, AppendProperties
    <3> QED
      BY <1>2, <2>2, <3>2 DEF Linking, NodeId
  <2> QED
    BY <1>2, <2>1, <2>2 DEF Linking
<1>4. CanOpen(disk, target)
  <2>1. CASE LinkKnown
    BY <1>1, <2>1 DEF LinkKnown, Quiet, WalkInv, FoundIsThere
  <2>2. CASE LinkNew
    BY <2>2 DEF LinkNew
  <2> QED
    BY <2>1, <2>2
<1>5. LinksReported' = LinksReported \cup {<<nodes[current.id], deps[use], target>>}
  BY <1>1, <1>2, LinkingMaps DEF LinksReported, links
<1>6. Connect(v) /\ pc \in {"add", "open"}
  BY <1>2 DEF Linking
<1> DEFINE item == [id |-> v, depth |-> current.depth + 1]
<1>7. CASE WithinDepth(current.depth + 1)
  <2>1. queue' = Append(queue, item)
    BY <1>6, <1>7 DEF Connect, Enqueue
  <2>2. queue \in Seq(QueueItem)
    BY DEF Quiet, IInv, TypeOK
  <2>3. item.id = v /\ item.depth = current.depth + 1
    OBVIOUS
  <2> HIDE DEF item
  <2>4. /\ DOMAIN queue' = DOMAIN queue \cup {Len(queue) + 1} /\ queue'[Len(queue) + 1] = item
        /\ \A i \in DOMAIN queue : i \in DOMAIN queue' /\ queue'[i] = queue[i]
    BY <2>1, <2>2
  <2>5. Queued(v)'
    BY <2>3, <2>4 DEF Queued
  <2>6. current.depth + 1 <= MaxDepth
    BY <1>7 DEF WithinDepth
  <2> QED
    BY <1>3, <1>4, <1>5, <1>6, <2>3, <2>4, <2>5, <2>6 DEF Connect
<1>8. CASE ~WithinDepth(current.depth + 1)
  <2>1. queue' = queue /\ ~(current.depth + 1 <= MaxDepth)
    BY <1>6, <1>8 DEF Connect, WithinDepth
  <2> QED
    BY <1>3, <1>4, <1>5, <1>6, <2>1 DEF Connect
<1> QED
  BY <1>7, <1>8

(* The target of the use at hand. *)
LEMMA TargetFacts ==
  ASSUME IInv, WalkInv, pc \in {"add", "open"}
  PROVE  /\ use \in todo /\ current.id \in expanded /\ current.id \in NodeId
         /\ deps[use] \in Name /\ deps[use] \in NamesIn(disk, nodes[current.id])
         /\ target \in TargetsOf(disk, nodes[current.id], deps[use]) /\ target \in File
         /\ nodes[current.id] \in ExpandedFiles(disk)
         /\ nodes[current.id] \in Within(disk)[current.depth]
<1>1. use \in todo /\ todo \subseteq DOMAIN deps /\ deps \in Seq(Name) /\ target \in File
  BY TargetsAreFiles DEF IInv, ControlOK, TypeOK, WalkInv, NamesAreCurrent
<1>2. current.id \in expanded /\ current.id # 0 /\ current.id \in NodeId
  BY <1>1, CurrentFacts
<1>3. deps[use] \in Name /\ deps[use] \in Range(deps)
  BY <1>1 DEF Range
<1> QED
  BY <1>1, <1>2, <1>3 DEF WalkInv, NamesAreCurrent, FoundIsThere

(* A file that opens is a level further than the one that needs it. *)
LEMMA OneFurther ==
  ASSUME NEW d, NEW k \in 0 .. MaxDepth, NEW f \in Within(d)[k], NEW n \in NamesIn(d, f),
         NEW g \in TargetsOf(d, f, n), CanOpen(d, g)
  PROVE  g \in Within(d)[k + 1]
<1>1. g \in Needs(d, f)
  BY DEF Needs
<1> QED
  BY <1>1, NextLevel

(* The steps that neither touch the graph nor the queue. *)
Aside == ReadRoot \/ ReadRootFails \/ AddRootFails \/ LookStep \/ SkipUnopenable \/ LimitExceeded \/ Finish

LEMMA AsideFacts ==
  ASSUME Aside
  PROVE  UNCHANGED <<nodes, edges, queue, expanded, unresolved, current, deps>>
<1>1. CASE LookStep
  BY <1>1, LooksAreIdle
<1> QED
  BY <1>1 DEF Aside, ReadRoot, ReadRootFails, AddRootFails, SkipUnopenable, LimitExceeded, Finish, Return, walk

LEMMA KindsOfSteps ==
  ASSUME Step
  PROVE  Aside \/ AddRoot \/ Dequeue \/ ReportUnresolved \/ LinkKnown \/ LinkNew
BY DEF Step, Aside, LookStep

(* Making the root's node. *)
LEMMA RootFacts ==
  ASSUME Quiet, AddRoot
  PROVE  /\ nodes = <<>> /\ NodeId = {} /\ NodeId' = {1} /\ nodes'[1] = rootFile /\ CanOpen(disk, rootFile)
         /\ queue' = <<[id |-> 1, depth |-> 0]>> /\ current.id = 0 /\ current.depth = 0 /\ expanded = {}
         /\ todo = {} /\ pc' = "expand"
         /\ UNCHANGED <<edges, expanded, unresolved, current, deps, todo, outcome>>
<1>1. nodes = <<>> /\ nodes' = <<rootFile>>
  BY DEF AddRoot, Quiet, IInv, ControlOK, WalkInv, KeysAreFiles
<1>2. NodeId = {} /\ current.id = 0 /\ current.depth = 0 /\ todo = {} /\ expanded = {}
  BY <1>1, CurrentFacts DEF Quiet
<1>3. NodeId' = {1}
  BY <1>1 DEF NodeId
<1>4. CanOpen(disk, rootFile)
  BY PathFacts DEF AddRoot, CanOpen, rootFile
<1> QED
  BY <1>1, <1>2, <1>3, <1>4 DEF AddRoot

(* A file that is there goes by its own path. *)
LEMMA FilesStep == Quiet => KeysAreFiles'
<1> SUFFICES ASSUME Quiet PROVE KeysAreFiles'
  OBVIOUS
<1>1. /\ KeysAreFiles /\ disk' = disk /\ IInv /\ WalkInv /\ rootFile \in File
  BY PathFacts DEF Quiet, WalkInv
<1>2. UNCHANGED nodes => NodeId' = NodeId
  BY DEF NodeId
<1>3. CASE ReadRoot
  BY <1>1, <1>2, <1>3 DEF ReadRoot, walk, KeysAreFiles
<1>4. CASE KeyRoot
  <2>1. CanOpen(disk, Root)
    BY <1>1, <1>4 DEF KeyRoot, KeysAreFiles
  <2>2. ~Dangles(disk, Root)
    BY <2>1 DEF CanOpen, Dangles, IsRegularFile
  <2>3. key' = rootFile
    BY <1>4, <2>2 DEF KeyRoot, Canonical, rootFile
  <2> QED
    BY <1>1, <1>2, <1>4, <2>1, <2>3 DEF KeyRoot, KeysAreFiles
<1>5. CASE AddRoot
  BY <1>1, <1>5, RootFacts DEF KeysAreFiles
<1>6. CASE LinkKnown \/ LinkNew
  <2>1. PICK v :
      /\ NodeId' = NodeId \cup {v} /\ nodes'[v] = target /\ \A w \in NodeId : nodes'[w] = nodes[w]
      /\ pc \in {"add", "open"} /\ pc' = "expand"
    BY <1>6, LinkFacts
  <2>2. target \in File
    BY <1>1, <2>1, TargetFacts
  <2>3. nodes # <<>> /\ nodes[1] = rootFile /\ 1 \in NodeId
    <3>1. nodes # <<>> /\ nodes \in Seq(Path) /\ NodeId = DOMAIN nodes
      BY <1>1, <2>1, CurrentFacts DEF IInv, ControlOK
    <3> QED
      BY <1>1, <3>1, NodesAreFiles
  <2> QED
    BY <1>1, <2>1, <2>2, <2>3 DEF KeysAreFiles
<1>7. CASE \/ ReadRootFails \/ AddRootFails \/ Dequeue \/ TakeName \/ TryNext \/ Found \/ ReportUnresolved
           \/ ResolveGone \/ ResolveThere \/ Resolve \/ LimitExceeded \/ MakeKey \/ SkipUnopenable \/ Finish
  <2>1. UNCHANGED nodes /\ pc' \notin {"root", "openRoot"}
    BY <1>7 DEF ReadRootFails, AddRootFails, Dequeue, TakeName, TryNext, Found, ReportUnresolved, ResolveGone,
                ResolveThere, Resolve, LimitExceeded, MakeKey, SkipUnopenable, Finish, Return, walk
  <2> QED
    BY <1>1, <1>2, <2>1 DEF KeysAreFiles
<1> QED
  BY <1>3, <1>4, <1>5, <1>6, <1>7 DEF Quiet, Step

(* What is found is there. *)
LEMMA FoundStep == Quiet => FoundIsThere'
<1> SUFFICES ASSUME Quiet PROVE FoundIsThere'
  OBVIOUS
<1>1. /\ FoundIsThere /\ disk' = disk /\ IInv /\ WalkInv
      /\ expanded \subseteq NodeId /\ (current.id # 0 => current.id \in NodeId)
      /\ current.depth \in 0 .. MaxDepth
  BY CurrentFacts DEF Quiet, WalkInv
<1>2. queue \in Seq(QueueItem)
  BY <1>1 DEF IInv, TypeOK
<1>3. ASSUME NEW i \in DOMAIN queue PROVE queue[i].id \in NodeId /\ queue[i].depth \in 0 .. MaxDepth
  <2>1. queue[i] \in QueueItem
    BY <1>2
  <2> QED
    BY <2>1 DEF QueueItem
<1>4. CASE Aside
  <2>1. UNCHANGED <<nodes, edges, queue, expanded, unresolved, current, disk>> /\ NodeId' = NodeId
        /\ LinksReported' = LinksReported
    BY <1>1, <1>4, AsideFacts DEF NodeId, LinksReported, link
  <2> QED
    BY <1>1, <2>1 DEF FoundIsThere
<1>5. CASE AddRoot
  <2>1. /\ UNCHANGED <<edges, unresolved>> /\ edges = <<>>
    BY <1>1, <1>5, RootFacts DEF IInv, ControlOK
  <2>2. LinksReported' = {}
    BY <2>1 DEF LinksReported
  <2>3. \A i \in DOMAIN queue' : queue'[i].id = 1 /\ queue'[i].depth = 0
    BY <1>5, RootFacts
  <2>4. rootFile \in Within(disk)[0]
    BY Levels
  <2> QED
    BY <1>1, <1>5, <2>1, <2>2, <2>3, <2>4, RootFacts DEF FoundIsThere
<1>6. CASE Dequeue
  <2>1. UNCHANGED <<nodes, edges, unresolved>> /\ NodeId' = NodeId /\ LinksReported' = LinksReported
    BY <1>6 DEF Dequeue, NodeId, LinksReported, link
  <2>2. \A i \in DOMAIN queue' : nodes'[queue'[i].id] \in Within(disk')[queue'[i].depth]
    BY <1>1, <1>6, <2>1, DequeueFacts DEF FoundIsThere
  <2>3. nodes[Head(queue).id] \in Within(disk)[Head(queue).depth] /\ nodes[Head(queue).id] \in ExpandedFiles(disk)
    <3> DEFINE k == Head(queue).depth
    <3>1. nodes[Head(queue).id] \in Within(disk)[k] /\ k \in 0 .. MaxDepth
      BY <1>1, <1>6, DequeueFacts DEF FoundIsThere
    <3> HIDE DEF k
    <3>2. MaxDepth \in k .. (MaxDepth + 1) /\ k \in 0 .. (MaxDepth + 1)
      BY <3>1, GraphAssumption
    <3>3. Within(disk)[k] \subseteq Within(disk)[MaxDepth]
      BY <3>2, LevelsGrow
    <3> QED
      BY <3>1, <3>3 DEF ExpandedFiles, k
  <2>4. \/ UNCHANGED <<expanded, current>>
        \/ expanded' = expanded \cup {Head(queue).id} /\ current' = Head(queue)
    BY <1>6 DEF Dequeue
  <2>5. /\ current'.id # 0 => current'.id \in expanded' /\ nodes'[current'.id] \in Within(disk')[current'.depth]
        /\ \A v \in expanded' : nodes'[v] \in ExpandedFiles(disk')
    <3>1. CASE UNCHANGED <<expanded, current>>
      BY <1>1, <2>1, <3>1 DEF FoundIsThere
    <3>2. CASE expanded' = expanded \cup {Head(queue).id} /\ current' = Head(queue)
      BY <1>1, <2>1, <2>3, <3>2 DEF FoundIsThere
    <3> QED
      BY <2>4, <3>1, <3>2
  <2> QED
    BY <1>1, <2>1, <2>2, <2>5 DEF FoundIsThere
<1>7. CASE ReportUnresolved
  <2>1. /\ UNCHANGED <<nodes, edges, queue, expanded, current>> /\ NodeId' = NodeId
        /\ LinksReported' = LinksReported /\ pc = "try" /\ try \notin DOMAIN candidates
        /\ unresolved' = unresolved \cup {deps[use]}
    BY <1>7 DEF ReportUnresolved, NodeId, LinksReported, link
  <2>2. use \in todo /\ use \in DOMAIN deps /\ current.id \in expanded
    BY <1>1, <2>1, CurrentFacts DEF IInv, ControlOK, TypeOK
  <2>4. deps[use] \in NamesIn(disk, nodes[current.id])
    BY <1>1, <2>2 DEF WalkInv, NamesAreCurrent, Range
  <2>5. TargetsOf(disk, nodes[current.id], deps[use]) = {}
    BY <1>1, <2>1, TriedInVain
  <2>6. nodes[current.id] \in ExpandedFiles(disk)
    BY <1>1, <2>2 DEF FoundIsThere
  <2>7. \A n \in unresolved' : \E f \in ExpandedFiles(disk) : n \in NamesIn(disk, f) /\ TargetsOf(disk, f, n) = {}
    BY <1>1, <2>1, <2>4, <2>5, <2>6 DEF FoundIsThere
  <2> QED
    BY <1>1, <2>1, <2>7 DEF FoundIsThere
<1>8. CASE LinkKnown \/ LinkNew
  <2>1. PICK v :
      /\ NodeId' = NodeId \cup {v} /\ nodes'[v] = target /\ \A w \in NodeId : nodes'[w] = nodes[w]
      /\ CanOpen(disk, target)
      /\ LinksReported' = LinksReported \cup {<<nodes[current.id], deps[use], target>>}
      /\ \A i \in DOMAIN queue' :
           \/ i \in DOMAIN queue /\ queue'[i] = queue[i]
           \/ queue'[i].id = v /\ queue'[i].depth = current.depth + 1 /\ current.depth + 1 <= MaxDepth
      /\ pc \in {"add", "open"}
      /\ UNCHANGED <<expanded, unresolved, current>>
    BY <1>8, LinkFacts
  <2>2. target \in Within(disk)[current.depth + 1]
    BY <1>1, <2>1, TargetFacts, OneFurther
  <2>3. <<nodes[current.id], deps[use], target>> \in LinksOfFiles(disk)
    BY <1>1, <2>1, TargetFacts DEF LinksOfFiles
  <2>4. \A w \in NodeId' : CanOpen(disk', nodes'[w])
    BY <1>1, <2>1 DEF FoundIsThere
  <2>5. ASSUME NEW i \in DOMAIN queue' PROVE nodes'[queue'[i].id] \in Within(disk')[queue'[i].depth]
    <3>1. CASE i \in DOMAIN queue /\ queue'[i] = queue[i]
      BY <1>1, <1>3, <2>1, <3>1 DEF FoundIsThere
    <3>2. CASE queue'[i].id = v /\ queue'[i].depth = current.depth + 1
      BY <1>1, <2>1, <2>2, <3>2
    <3> QED
      BY <2>1, <3>1, <3>2
  <2>6. LinksReported' \subseteq LinksOfFiles(disk')
    BY <1>1, <2>1, <2>3 DEF FoundIsThere
  <2>7. /\ current'.id # 0 => current'.id \in expanded' /\ nodes'[current'.id] \in Within(disk')[current'.depth]
        /\ \A w \in expanded' : nodes'[w] \in ExpandedFiles(disk')
    BY <1>1, <2>1 DEF FoundIsThere
  <2>8. \A n \in unresolved' : \E f \in ExpandedFiles(disk') : n \in NamesIn(disk', f) /\ TargetsOf(disk', f, n) = {}
    BY <1>1, <2>1 DEF FoundIsThere
  <2> QED
    BY <2>4, <2>5, <2>6, <2>7, <2>8 DEF FoundIsThere
<1> QED
  BY <1>4, <1>5, <1>6, <1>7, <1>8, KindsOfSteps DEF Quiet

(* The node that a dequeued id stands for is expanded with the names it    *)
(* needs, or was expanded before.                                          *)
LEMMA ExpandFacts ==
  ASSUME Quiet, Dequeue
  PROVE  /\ UNCHANGED <<nodes, edges, unresolved, pc, outcome>>
         /\ NodeId' = NodeId /\ LinksReported' = LinksReported /\ pc = "expand" /\ todo = {}
         /\ \/ /\ Head(queue).id \in expanded
               /\ UNCHANGED <<expanded, current, deps, todo>>
            \/ /\ expanded' = expanded \cup {Head(queue).id} /\ current' = Head(queue)
               /\ deps' \in Seq(Name) /\ todo' = FirstUses(deps')
               /\ Range(deps') = NamesIn(disk, nodes[Head(queue).id])
<1>1. /\ UNCHANGED <<nodes, edges, unresolved, pc, outcome>> /\ pc = "expand" /\ todo = {}
      /\ NodeId' = NodeId /\ LinksReported' = LinksReported
  BY DEF Dequeue, NodeId, LinksReported, link
<1> DEFINE f == nodes[Head(queue).id]
<1>2. CASE AlreadyExpanded(Head(queue).id)
  BY <1>1, <1>2 DEF Dequeue, AlreadyExpanded
<1>3. CASE ~AlreadyExpanded(Head(queue).id)
  <2>1. /\ expanded' = expanded \cup {Head(queue).id} /\ current' = Head(queue) /\ todo' = FirstUses(deps')
        /\ deps' = IF Head(queue).depth <= MaxDepth /\ CanOpen(disk, f) THEN disk[f].needs ELSE <<>>
    <3>1. FileOf(f) = f
      BY DequeueFacts, NodesAreFiles, PathFacts DEF Quiet
    <3> QED
      BY <1>3, <3>1 DEF Dequeue
  <2>2. f \in File /\ disk \in [File -> FileState] /\ MaxDepth \in Nat /\ Head(queue).depth \in 0 .. MaxDepth
    BY CurrentFacts, NodesAreFiles, DequeueFacts DEF Quiet
  <2>3. Head(queue).depth <= MaxDepth
    BY <2>2
  <2>4. disk[f].needs \in Seq(Name)
    BY <2>2 DEF FileState
  <2> HIDE DEF f
  <2>5. deps' \in Seq(Name)
    BY <2>1, <2>4
  <2>6. Range(deps') = NamesIn(disk, f)
    BY <2>1, <2>3 DEF NamesIn, Range
  <2> QED
    BY <1>1, <2>1, <2>5, <2>6 DEF f
<1> QED
  BY <1>2, <1>3

(* Every name in a list has a first use. *)
LEMMA FirstUse ==
  ASSUME NEW s \in Seq(Name), NEW n \in Range(s)
  PROVE  \E i \in FirstUses(s) : s[i] = n
<1> DEFINE T == {i \in DOMAIN s : s[i] = n}
<1>1. T \subseteq Nat /\ T # {}
  BY DEF Range
<1>2. PICK i \in T : \A j \in T : i <= j
  BY <1>1, Search!LeastNumber
<1>3. \A j \in 1 .. (i - 1) : j \in DOMAIN s /\ ~(i <= j)
  BY <1>1
<1>4. i \in FirstUses(s)
  BY <1>2, <1>3 DEF FirstUses
<1> QED
  BY <1>4

(* The names at hand are the current file's. *)
LEMMA NamesStep == Quiet => NamesAreCurrent'
<1> SUFFICES ASSUME Quiet PROVE NamesAreCurrent'
  OBVIOUS
<1>1. NamesAreCurrent /\ disk' = disk /\ IInv /\ WalkInv
  BY DEF Quiet, WalkInv
<1>2. CASE ReadRoot \/ ReadRootFails \/ KeyRoot \/ AddRootFails \/ LimitExceeded \/ Finish
  <2>1. UNCHANGED <<todo, deps, nodes, current>> /\ pc' \notin {"try", "found", "real", "add", "open"}
    BY <1>2 DEF ReadRoot, ReadRootFails, KeyRoot, AddRootFails, LimitExceeded, Finish, Return, walk
  <2> QED
    BY <1>1, <2>1 DEF NamesAreCurrent
<1>3. CASE AddRoot
  BY <1>3, RootFacts DEF NamesAreCurrent
<1>4. CASE Dequeue
  BY <1>1, <1>4, ExpandFacts DEF NamesAreCurrent
<1>5. CASE TakeName
  <2>1. UNCHANGED <<todo, deps, nodes, current>> /\ pc' = "try" /\ try' = 1
    BY <1>5 DEF TakeName
  <2> QED
    BY <1>1, <2>1 DEF NamesAreCurrent
<1>6. CASE TryNext
  <2>1. /\ UNCHANGED <<todo, deps, nodes, current, candidates>> /\ pc = "try" /\ pc' = "try" /\ try' = try + 1
        /\ ~IsRegularFile(disk, candidates[try]) /\ try \in Nat
    BY <1>1, <1>6 DEF TryNext, candidates, IInv, TypeOK
  <2>2. \A i \in 1 .. (try' - 1) : i \in 1 .. (try - 1) \/ i = try
    BY <2>1
  <2> QED
    BY <1>1, <2>1, <2>2 DEF NamesAreCurrent
<1>7. CASE Found
  <2>1. /\ UNCHANGED <<todo, deps, nodes, current, use>> /\ pc = "try" /\ pc' = "found"
        /\ target' = candidates[try] /\ try \in DOMAIN candidates /\ IsRegularFile(disk, candidates[try])
    BY <1>7 DEF Found
  <2>2. FileOf(target') \in TargetsOf(disk, nodes[current.id], deps[use])
    BY <1>1, <2>1, FoundIsTheTarget
  <2> QED
    BY <1>1, <2>1, <2>2 DEF NamesAreCurrent
<1>8. CASE ResolveGone
  BY <1>1, <1>8 DEF ResolveGone, NamesAreCurrent
<1>9. CASE ResolveThere
  BY <1>1, <1>9 DEF ResolveThere, walk, hand, NamesAreCurrent
<1>10. CASE Resolve
  <2>1. UNCHANGED <<todo, deps, nodes, current, use>> /\ pc' = "add" /\ target' = FileOf(target)
        /\ FileOf(target) \in TargetsOf(disk, nodes[current.id], deps[use])
    BY <1>1, <1>10 DEF Resolve, NamesAreCurrent
  <2> QED
    BY <1>1, <2>1 DEF NamesAreCurrent
<1>11. CASE MakeKey
  <2>1. UNCHANGED <<todo, deps, nodes, current, use, target>> /\ pc = "add" /\ pc' = "open"
        /\ key' = Canonical(disk, target)
    BY <1>11 DEF MakeKey
  <2>2. key' = target
    BY <1>1, <2>1, TargetFacts, CanonicalFacts
  <2> QED
    BY <1>1, <2>1, <2>2 DEF NamesAreCurrent
<1>12. CASE ReportUnresolved \/ SkipUnopenable
  <2>1. UNCHANGED <<deps, nodes, current>> /\ todo' \subseteq todo /\ pc' = "expand"
    BY <1>12 DEF ReportUnresolved, SkipUnopenable
  <2> QED
    BY <1>1, <2>1 DEF NamesAreCurrent
<1>13. CASE LinkKnown \/ LinkNew
  <2>1. UNCHANGED <<deps, current>> /\ todo' \subseteq todo /\ pc' = "expand"
        /\ \A w \in NodeId : nodes'[w] = nodes[w]
    BY <1>13, LinkFacts
  <2>2. todo # {} => current.id \in NodeId
    BY <1>1, CurrentFacts
  <2> QED
    BY <1>1, <2>1, <2>2 DEF NamesAreCurrent
<1> QED
  BY <1>2, <1>3, <1>4, <1>5, <1>6, <1>7, <1>8, <1>9, <1>10, <1>11, <1>12, <1>13 DEF Quiet, Step

(* No name of a file that was expanded is lost.                            *)
LEMMA HandledStep == Quiet => NamesAreHandled'
<1> SUFFICES ASSUME Quiet PROVE NamesAreHandled'
  OBVIOUS
<1>1. /\ NamesAreHandled /\ disk' = disk /\ IInv /\ WalkInv /\ expanded \subseteq NodeId
  BY CurrentFacts DEF Quiet, WalkInv
<1>2. CASE ReadRoot \/ ReadRootFails \/ AddRootFails \/ LookStep \/ LimitExceeded \/ Finish
  <2>1. UNCHANGED <<nodes, edges, expanded, unresolved, current, deps, todo, disk>>
    BY <1>1, <1>2, LooksAreIdle DEF ReadRoot, ReadRootFails, AddRootFails, LimitExceeded, Finish, Return, walk
  <2>2. LinksReported' = LinksReported
    BY <2>1 DEF LinksReported, link
  <2> QED
    BY <1>1, <2>1, <2>2 DEF NamesAreHandled, Handled
<1>3. CASE AddRoot
  BY <1>3, RootFacts DEF NamesAreHandled
<1>4. CASE Dequeue
  <2>1. UNCHANGED <<nodes, unresolved, disk>> /\ LinksReported' = LinksReported /\ todo = {}
    BY <1>1, <1>4, ExpandFacts
  <2>2. \A v \in expanded : \A n \in NamesIn(disk, nodes[v]) : Handled(nodes[v], n)
    BY <1>1, <2>1 DEF NamesAreHandled
  <2>3. CASE UNCHANGED <<expanded, current, deps, todo>>
    BY <2>1, <2>2, <2>3 DEF NamesAreHandled, Handled
  <2>4. CASE /\ expanded' = expanded \cup {Head(queue).id} /\ current' = Head(queue)
             /\ deps' \in Seq(Name) /\ todo' = FirstUses(deps')
             /\ Range(deps') = NamesIn(disk, nodes[Head(queue).id])
    <3>1. \A n \in NamesIn(disk, nodes[Head(queue).id]) : \E i \in todo' : deps'[i] = n
      BY <2>4, FirstUse
    <3> QED
      BY <2>1, <2>2, <2>4, <3>1 DEF NamesAreHandled, Handled
  <2> QED
    BY <1>4, <2>3, <2>4, ExpandFacts
<1>5. CASE ReportUnresolved
  <2>1. UNCHANGED <<nodes, expanded, current, deps, disk>> /\ LinksReported' = LinksReported
        /\ pc = "try" /\ try \notin DOMAIN candidates
    BY <1>1, <1>5 DEF ReportUnresolved, LinksReported, link
  <2>2. unresolved' = unresolved \cup {deps[use]} /\ todo' = todo \ {use}
    BY <1>5 DEF ReportUnresolved
  <2>4. TargetsOf(disk, nodes[current.id], deps[use]) = {}
    BY <1>1, <2>1, TriedInVain
  <2>5. ASSUME NEW v \in expanded, NEW n \in NamesIn(disk, nodes[v])
        PROVE  \/ /\ TargetsOf(disk, nodes[v], n) = {} => n \in unresolved'
                  /\ \A g \in TargetsOf(disk, nodes[v], n) : CanOpen(disk, g) => <<nodes[v], n, g>> \in LinksReported
               \/ v = current.id /\ \E j \in todo' : deps[j] = n
    <3>1. CASE Handled(nodes[v], n)
      BY <2>2, <3>1 DEF Handled
    <3>2. CASE v = current.id /\ \E j \in todo : deps[j] = n
      BY <2>2, <2>4, <3>2
    <3> QED
      BY <1>1, <3>1, <3>2 DEF NamesAreHandled
  <2> QED
    BY <2>1, <2>5 DEF NamesAreHandled, Handled
<1>6. CASE SkipUnopenable
  <2>1. UNCHANGED <<nodes, expanded, unresolved, current, deps, disk>> /\ LinksReported' = LinksReported /\ pc = "open"
        /\ todo' = todo \ {use} /\ ~CanOpen(disk, target)
    BY <1>1, <1>6 DEF SkipUnopenable, LinksReported, link
  <2>2. /\ target \in TargetsOf(disk, nodes[current.id], deps[use])
        /\ \A g \in TargetsOf(disk, nodes[current.id], deps[use]) : g = target
    BY <1>1, <2>1, TargetFacts, OneTarget
  <2>3. ASSUME NEW v \in expanded, NEW n \in NamesIn(disk, nodes[v])
        PROVE  Handled(nodes[v], n) \/ (v = current.id /\ \E j \in todo' : deps[j] = n)
    <3>1. CASE v = current.id /\ \E j \in todo : deps[j] = n
      BY <2>1, <2>2, <3>1 DEF Handled
    <3> QED
      BY <1>1, <3>1 DEF NamesAreHandled
  <2> QED
    BY <2>1, <2>3 DEF NamesAreHandled, Handled
<1>7. CASE LinkKnown \/ LinkNew
  <2>1. /\ UNCHANGED <<expanded, unresolved, current, deps>> /\ pc \in {"add", "open"} /\ todo' = todo \ {use}
        /\ LinksReported' = LinksReported \cup {<<nodes[current.id], deps[use], target>>}
        /\ \A w \in NodeId : nodes'[w] = nodes[w]
    BY <1>7, LinkFacts
  <2>2. /\ target \in TargetsOf(disk, nodes[current.id], deps[use])
        /\ \A g \in TargetsOf(disk, nodes[current.id], deps[use]) : g = target
    BY <1>1, <2>1, TargetFacts, OneTarget
  <2>3. ASSUME NEW v \in expanded, NEW n \in NamesIn(disk, nodes[v])
        PROVE  \/ /\ TargetsOf(disk, nodes[v], n) = {} => n \in unresolved
                  /\ \A g \in TargetsOf(disk, nodes[v], n) : CanOpen(disk, g) => <<nodes[v], n, g>> \in LinksReported'
               \/ v = current.id /\ \E j \in todo' : deps[j] = n
    <3>1. CASE v = current.id /\ \E j \in todo : deps[j] = n
      BY <2>1, <2>2, <3>1
    <3>2. CASE Handled(nodes[v], n)
      BY <2>1, <3>2 DEF Handled
    <3> QED
      BY <1>1, <3>1, <3>2 DEF NamesAreHandled
  <2>4. \A v \in expanded : nodes'[v] = nodes[v]
    BY <1>1, <2>1
  <2> QED
    BY <1>1, <2>1, <2>3, <2>4 DEF NamesAreHandled, Handled
<1> QED
  BY <1>2, <1>3, <1>4, <1>5, <1>6, <1>7 DEF Quiet, Step, LookStep

(* A reported link leads from one node to another. *)
LEMMA LinkEnds ==
  ASSUME TypeInv, NEW f, NEW n, NEW g, <<f, n, g>> \in LinksReported
  PROVE  \E k \in DOMAIN edges : /\ edges[k].from \in NodeId /\ nodes[edges[k].from] = f
                                /\ edges[k].to \in NodeId /\ nodes[edges[k].to] = g
<1>1. PICK k \in DOMAIN edges : link(edges[k]) = <<f, n, g>>
  BY DEF LinksReported
<1> QED
  BY <1>1, EdgeEnds DEF link

(* An expanded file's dependencies that open are in the graph. *)
LEMMA NeedsAreNodes ==
  ASSUME IInv, WalkInv, todo = {}, NEW v \in expanded, NEW n \in NamesIn(disk, nodes[v]),
         NEW g \in TargetsOf(disk, nodes[v], n), CanOpen(disk, g)
  PROVE  <<nodes[v], n, g>> \in LinksReported /\ \E w \in NodeId : nodes[w] = g
<1>1. <<nodes[v], n, g>> \in LinksReported
  BY DEF WalkInv, NamesAreHandled, Handled
<1> QED
  BY <1>1, LinkEnds, CurrentFacts

(* The next level is in the queue when the head of the queue is of it. *)
LEMMA LevelsDequeue ==
  ASSUME Quiet, Dequeue
  PROVE  LevelsInOrder'
<1>1. /\ IInv /\ WalkInv /\ disk' = disk /\ nodes' = nodes /\ NodeId' = NodeId /\ todo = {} /\ nodes # <<>>
      /\ current.depth \in 0 .. MaxDepth /\ MaxDepth \in Nat /\ expanded \subseteq NodeId
  BY ExpandFacts, CurrentFacts DEF Quiet, IInv, ControlOK
<1> DEFINE c == current.depth
           head == Head(queue)
           Later(v, d) == \E i \in DOMAIN queue' : queue'[i].id = v /\ queue'[i].depth = d
<1>2. /\ \A f \in Within(disk)[c] : \E v \in NodeId : nodes[v] = f /\ (v \in expanded \/ QueuedAt(v, c))
      /\ c < MaxDepth => \A v \in NodeId : v \in expanded \/ Queued(v)
  BY <1>1 DEF WalkInv, LevelsInOrder
<1>3. \A v : Queued(v) => v = head.id \/ Queued(v)'
  BY <1>1, DequeueFacts DEF Queued
<1>4. \A v, d : QueuedAt(v, d) => v = head.id \/ Later(v, d)
  BY <1>1, DequeueFacts DEF QueuedAt
<1>5. CASE head.id \in expanded /\ UNCHANGED <<expanded, current>>
  <2>1. \A f \in Within(disk)[c] : \E v \in NodeId : nodes[v] = f /\ (v \in expanded \/ Later(v, c))
    BY <1>2, <1>4, <1>5
  <2>2. c < MaxDepth => \A v \in NodeId : v \in expanded \/ Queued(v)'
    BY <1>2, <1>3, <1>5
  <2> QED
    BY <1>1, <1>5, <2>1, <2>2 DEF LevelsInOrder, QueuedAt
<1>6. CASE expanded' = expanded \cup {head.id} /\ current' = head
  <2>1. /\ head.depth \in {c, c + 1} /\ head.depth \in 0 .. MaxDepth /\ head.id \in NodeId
        /\ \A i \in DOMAIN queue : head.depth <= queue[i].depth /\ queue[i].depth \in {c, c + 1}
    <3>1. 1 \in DOMAIN queue /\ head = queue[1] /\ \A i \in DOMAIN queue : 1 <= i
      <4>1. queue \in Seq(QueueItem)
        BY <1>1 DEF IInv, TypeOK
      <4> QED
        BY <1>1, <4>1, DequeueFacts
    <3> QED
      BY <1>1, <3>1, DequeueFacts DEF IInv, QueueIsByDepth
  <2>2. \A v \in NodeId : c < MaxDepth => v \in expanded' \/ Queued(v)'
    BY <1>2, <1>3, <1>6
  <2>3. head.depth < MaxDepth => c < MaxDepth
    BY <1>1, <2>1
  <2>4. ASSUME NEW f \in Within(disk)[head.depth]
        PROVE  \E v \in NodeId : nodes[v] = f /\ (v \in expanded' \/ Later(v, head.depth))
    <3>1. CASE head.depth = c
      BY <1>2, <1>4, <1>6, <3>1
    <3>2. CASE head.depth = c + 1
      <4>1. \A v : ~QueuedAt(v, c)
        BY <1>1, <2>1, <3>2 DEF QueuedAt
      <4>2. \A h \in Within(disk)[c] : \E v \in expanded : nodes[v] = h
        BY <1>2, <4>1
      <4>3. CASE f \in Within(disk)[c]
        BY <1>1, <1>6, <4>2, <4>3
      <4>4. CASE f \notin Within(disk)[c]
        <5>1. PICK h \in Within(disk)[c] : f \in Needs(disk, h) /\ CanOpen(disk, f)
          BY <1>1, <3>2, <4>4, NextLevel
        <5>2. PICK v \in expanded : nodes[v] = h
          BY <4>2
        <5>3. PICK n \in NamesIn(disk, h) : f \in TargetsOf(disk, h, n)
          BY <5>1 DEF Needs
        <5>4. PICK w \in NodeId : nodes[w] = f
          BY <1>1, <5>1, <5>2, <5>3, NeedsAreNodes
        <5>5. c < MaxDepth
          BY <1>1, <2>1, <3>2
        <5>6. w \in expanded \/ Queued(w)
          BY <1>2, <5>5
        <5>7. Queued(w) => QueuedAt(w, c + 1)
          <6>1. \A i \in DOMAIN queue : queue[i].depth = c + 1
            BY <1>1, <2>1, <3>2
          <6> QED
            BY <6>1 DEF Queued, QueuedAt
        <5> QED
          BY <1>4, <1>6, <3>2, <5>4, <5>6, <5>7
      <4> QED
        BY <4>3, <4>4
    <3> QED
      BY <2>1, <3>1, <3>2
  <2> QED
    BY <1>1, <1>6, <2>2, <2>3, <2>4 DEF LevelsInOrder, QueuedAt
<1> QED
  BY <1>5, <1>6, ExpandFacts

(* The walk goes from level to level. *)
LEMMA LevelsStep == Quiet => LevelsInOrder'
<1> SUFFICES ASSUME Quiet PROVE LevelsInOrder'
  OBVIOUS
<1>1. LevelsInOrder /\ disk' = disk /\ IInv /\ WalkInv /\ nodes \in Seq(Path) /\ MaxDepth \in Nat
  BY CurrentFacts DEF Quiet, WalkInv
<1>2. CASE Aside \/ ReportUnresolved
  <2>1. UNCHANGED <<nodes, queue, expanded, current, disk>> /\ NodeId' = NodeId
    BY <1>1, <1>2, AsideFacts DEF ReportUnresolved, NodeId
  <2> QED
    BY <1>1, <2>1 DEF LevelsInOrder, Queued, QueuedAt
<1>3. CASE AddRoot
  <2>1. 1 \in DOMAIN queue' /\ queue'[1].id = 1 /\ queue'[1].depth = 0
    BY <1>3, RootFacts
  <2>2. Within(disk)[0] = {rootFile}
    BY Levels
  <2>3. current'.depth = 0 /\ NodeId' = {1} /\ nodes'[1] = rootFile
    BY <1>3, RootFacts
  <2> QED
    BY <1>1, <2>1, <2>2, <2>3 DEF LevelsInOrder, Queued, QueuedAt
<1>4. CASE Dequeue
  BY <1>4, LevelsDequeue
<1>5. CASE LinkKnown \/ LinkNew
  <2>1. PICK v :
      /\ NodeId' = NodeId \cup {v} /\ \A w \in NodeId : nodes'[w] = nodes[w]
      /\ \A i \in DOMAIN queue : i \in DOMAIN queue' /\ queue'[i] = queue[i]
      /\ current.depth + 1 <= MaxDepth => Queued(v)'
      /\ UNCHANGED <<expanded, current>> /\ pc \in {"add", "open"}
    BY <1>5, LinkFacts
  <2>2. nodes # <<>> /\ current.depth \in 0 .. MaxDepth
    BY <1>1, <2>1, CurrentFacts DEF IInv, ControlOK
  <2>3. \A f \in Within(disk)[current.depth] : \E w \in NodeId : nodes'[w] = f /\
          (w \in expanded \/ \E i \in DOMAIN queue' : queue'[i].id = w /\ queue'[i].depth = current.depth)
    BY <1>1, <2>1, <2>2 DEF LevelsInOrder, QueuedAt
  <2>4. current.depth < MaxDepth => \A w \in NodeId' : w \in expanded \/ Queued(w)'
    <3> SUFFICES ASSUME current.depth < MaxDepth, NEW w \in NodeId' PROVE w \in expanded \/ Queued(w)'
      OBVIOUS
    <3>1. CASE w = v
      <4>1. current.depth + 1 <= MaxDepth
        BY <1>1, <2>2
      <4> QED
        BY <2>1, <3>1, <4>1 DEF Queued
    <3>2. CASE w \in NodeId
      BY <1>1, <2>1, <2>2, <3>2 DEF LevelsInOrder, Queued
    <3> QED
      BY <2>1, <3>1, <3>2
  <2> QED
    BY <1>1, <2>1, <2>3, <2>4 DEF LevelsInOrder, QueuedAt
<1> QED
  BY <1>2, <1>3, <1>4, <1>5, KindsOfSteps DEF Quiet

(* The function returns once. *)
LEMMA OnlyOnce == Quiet => outcome = "none" /\ pc # "done"
BY DEF Quiet, IInv, ControlOK, Step, ReadRoot, ReadRootFails, KeyRoot, AddRoot, AddRootFails, Dequeue, TakeName, TryNext, Found,
   ReportUnresolved, ResolveGone, ResolveThere, Resolve, LinkKnown, LimitExceeded, MakeKey,
   LinkNew, SkipUnopenable, Finish

LEMMA OtherOutcomes ==
  ASSUME Quiet, ~Finish, ~LimitExceeded
  PROVE  outcome' \notin {"Graph", "LimitExceeded"}
BY OnlyOnce DEF Quiet, Step, ReadRoot, ReadRootFails, KeyRoot, AddRoot, AddRootFails, Dequeue, TakeName, TryNext, Found,
   ReportUnresolved, ResolveGone, ResolveThere, Resolve, LinkKnown, MakeKey, LinkNew, Connect,
   SkipUnopenable, Return

LEMMA EndStep == Quiet => EndIsTheEnd'
<1> SUFFICES ASSUME Quiet PROVE EndIsTheEnd'
  OBVIOUS
<1>1. CASE Finish
  BY <1>1, NodesAreFiles DEF Finish, walk, EndIsTheEnd, Quiet, IInv, ControlOK
<1>2. CASE LimitExceeded
  BY <1>2 DEF LimitExceeded, Return, EndIsTheEnd
<1> QED
  BY <1>1, <1>2, OtherOutcomes DEF EndIsTheEnd

(* Every node but the root is a file that an expanded file needs. *)
LEMMA NodesAreNeeded ==
  ASSUME IInv, WalkInv, nodes[1] = rootFile, NEW v \in NodeId
  PROVE  \/ nodes[v] = rootFile
         \/ \E f \in ExpandedFiles(disk) : \E n \in NamesIn(disk, f) :
              nodes[v] \in TargetsOf(disk, f, n) /\ CanOpen(disk, nodes[v])
<1>1. CASE v = 1
  BY <1>1
<1>2. CASE v # 1
  <2>1. PICK k \in DOMAIN edges : edges[k].to = v
    BY <1>2 DEF IInv, EveryNodeIsNeeded
  <2>2. link(edges[k]) \in LinksOfFiles(disk)
    BY DEF WalkInv, FoundIsThere, LinksReported
  <2>3. link(edges[k])[3] = nodes[v]
    BY <2>1 DEF link
  <2> QED
    BY <2>2, <2>3 DEF LinksOfFiles
<1> QED
  BY <1>1, <1>2

(* The limit is exceeded by files that are needed. *)
LEMMA LimitStep == Quiet => LimitIsGenuine'
<1> SUFFICES ASSUME Quiet PROVE LimitIsGenuine'
  OBVIOUS
<1>1. CASE ~LimitExceeded
  <2>1. outcome' # "LimitExceeded"
    <3>1. CASE Finish
      BY <3>1 DEF Finish, Return
    <3> QED
      BY <1>1, <3>1, OtherOutcomes
  <2> QED
    BY <2>1 DEF LimitIsGenuine
<1>2. CASE LimitExceeded
  <2> DEFINE S == {rootFile} \cup UNION {Needs(disk, f) : f \in ExpandedFiles(disk)}
             N == Range(nodes)
  <2>1. /\ IInv /\ WalkInv /\ disk' = disk /\ pc = "add" /\ target \notin N /\ Len(nodes) >= MaxNodes
        /\ nodes[1] = rootFile /\ TypeInv /\ KeysAreSound /\ NodeId = DOMAIN nodes /\ disk \in [File -> FileState]
    <3>1. IInv /\ WalkInv /\ disk' = disk /\ pc = "add"
      BY <1>2 DEF Quiet, LimitExceeded
    <3>2. Canonical(disk, target) = target
      BY <3>1, TargetFacts, CanonicalFacts
    <3>3. target \notin N /\ Len(nodes) >= MaxNodes
      BY <1>2, <3>2 DEF LimitExceeded, Known, Full
    <3>4. nodes # <<>>
      BY <3>1 DEF IInv, ControlOK
    <3> QED
      BY <3>1, <3>3, <3>4, CurrentFacts, NodesAreFiles
  <2>2. N \subseteq S
    <3> SUFFICES ASSUME NEW v \in NodeId PROVE nodes[v] \in S
      BY <2>1 DEF Range
    <3> QED
      BY <2>1, NodesAreNeeded DEF Needs
  <2>3. target \in S
    BY <2>1, TargetFacts DEF Needs
  <2>4. IsFiniteSet(N) /\ Cardinality(N) = Len(nodes)
    BY <2>1, KnownCardinality DEF known
  <2>5. IsFiniteSet(S)
    <3>1. MaxDepth \in 0 .. (MaxDepth + 1)
      BY GraphAssumption
    <3>2. IsFiniteSet(UNION {Needs(disk, f) : f \in ExpandedFiles(disk)})
      BY <2>1, <3>1, FiniteLevels DEF ExpandedFiles
    <3>3. IsFiniteSet({rootFile})
      BY FS_Singleton, Zenon
    <3> QED
      BY <3>2, <3>3, FS_Union, Zenon
  <2> HIDE DEF S, N
  <2>6. IsFiniteSet(N \cup {target}) /\ Cardinality(N \cup {target}) = Len(nodes) + 1
    BY <2>1, <2>4, FS_AddElement
  <2>7. Cardinality(N \cup {target}) <= Cardinality(S) /\ Cardinality(S) \in Nat
    <3>1. N \cup {target} \subseteq S
      BY <2>2, <2>3
    <3> QED
      BY <2>5, <3>1, FS_Subset, FS_CardinalityType
  <2>8. Cardinality(S) > MaxNodes
    <3>1. Len(nodes) \in Nat /\ MaxNodes \in Nat
      BY GraphAssumption DEF Quiet, IInv, TypeOK
    <3> QED
      BY <2>1, <2>6, <2>7, <3>1
  <2> QED
    BY <2>1, <2>8 DEF LimitIsGenuine, S
<1> QED
  BY <1>1, <1>2

(* While the files stay as they are, every step of the walk keeps it on    *)
(* its way.                                                                *)
LEMMA WalkStepInv == Quiet => WalkInv'
BY FilesStep, FoundStep, NamesStep, HandledStep, LevelsStep, EndStep, LimitStep DEF WalkInv

(* WalkInv does not look at anything else.                                 *)
LEMMA WalkStutter == WalkInv /\ UNCHANGED vars => WalkInv'
<1> SUFFICES ASSUME WalkInv, UNCHANGED vars PROVE WalkInv'
  OBVIOUS
<1>1. UNCHANGED <<disk, pc, nodes, edges, queue, expanded, unresolved, current, deps, todo, use, try, target, key,
                  outcome>>
  BY DEF vars, walk, hand
<1>2. NodeId' = NodeId /\ LinksReported' = LinksReported
  BY <1>1 DEF NodeId, LinksReported, link
<1>3. FoundIsThere'
  BY <1>1, <1>2 DEF WalkInv, FoundIsThere
<1>4. NamesAreCurrent' /\ EndIsTheEnd' /\ KeysAreFiles'
  <2>1. candidates' = candidates
    BY <1>1 DEF candidates
  <2> QED
    BY <1>1, <1>2, <2>1 DEF WalkInv, NamesAreCurrent, EndIsTheEnd, KeysAreFiles
<1>5. NamesAreHandled'
  BY <1>1, <1>2 DEF WalkInv, NamesAreHandled, Handled
<1>6. LevelsInOrder'
  BY <1>1, <1>2 DEF WalkInv, LevelsInOrder, Queued, QueuedAt
<1>7. LimitIsGenuine'
  BY <1>1 DEF WalkInv, LimitIsGenuine
<1> QED
  BY <1>3, <1>4, <1>5, <1>6, <1>7 DEF WalkInv

LEMMA WalkInit == Init => WalkInv
<1> SUFFICES ASSUME Init PROVE WalkInv
  OBVIOUS
<1>1. /\ nodes = <<>> /\ queue = <<>> /\ edges = <<>> /\ expanded = {} /\ unresolved = {} /\ todo = {}
      /\ current.id = 0 /\ pc = "read" /\ outcome = "none" /\ NodeId = {} /\ DOMAIN queue = {}
  BY DEF Init, NodeId
<1>2. LinksReported = {}
  BY <1>1 DEF LinksReported
<1>3. FoundIsThere
  BY <1>1, <1>2 DEF FoundIsThere
<1> QED
  BY <1>1, <1>3 DEF WalkInv, KeysAreFiles, NamesAreCurrent, NamesAreHandled, LevelsInOrder, EndIsTheEnd, LimitIsGenuine

(***************************************************************************)
(* The report                                                              *)
(***************************************************************************)
(* At the end every file that is to be looked into has been.               *)
LEMMA AllExpanded ==
  ASSUME IInv, WalkInv, outcome = "Graph"
  PROVE  ExpandedFiles(disk) = {nodes[v] : v \in expanded}
<1> DEFINE done == {nodes[v] : v \in expanded}
           T == {k \in Nat : Within(disk)[k] \subseteq done}
<1>1. /\ todo = {} /\ queue = <<>> /\ nodes # <<>> /\ expanded \subseteq NodeId
      /\ current.depth \in 0 .. MaxDepth /\ MaxDepth \in Nat
  BY CurrentFacts DEF WalkInv, EndIsTheEnd
<1>2. \A v, depth : ~Queued(v) /\ ~QueuedAt(v, depth)
  BY <1>1 DEF Queued, QueuedAt
<1>3. Within(disk)[current.depth] \subseteq done
  BY <1>1, <1>2 DEF WalkInv, LevelsInOrder
<1>4. Within(disk)[MaxDepth] \subseteq done
  <2>1. CASE current.depth = MaxDepth
    BY <1>3, <2>1
  <2>2. CASE current.depth # MaxDepth
    <3>1. current.depth < MaxDepth /\ current.depth \in 0 .. (MaxDepth + 1) /\ current.depth \in Nat
          /\ MaxDepth \in current.depth .. (MaxDepth + 1)
      BY <1>1, <2>2
    <3>2. \A v \in NodeId : v \in expanded
      BY <1>1, <1>2, <3>1 DEF WalkInv, LevelsInOrder
    <3>3. ASSUME NEW k \in current.depth .. MaxDepth, k \in T PROVE k + 1 \in T
      <4>1. k \in 0 .. MaxDepth /\ k + 1 \in Nat
        BY <1>1
      <4>2. ASSUME NEW g \in Within(disk)[k + 1], g \notin Within(disk)[k] PROVE g \in done
        <5>1. PICK f \in Within(disk)[k] : g \in Needs(disk, f) /\ CanOpen(disk, g)
          BY <4>1, <4>2, NextLevel
        <5>2. PICK v \in expanded : nodes[v] = f
          BY <3>3
        <5>3. PICK n \in NamesIn(disk, f) : g \in TargetsOf(disk, f, n)
          BY <5>1 DEF Needs
        <5>4. PICK w \in NodeId : nodes[w] = g
          BY <1>1, <5>1, <5>2, <5>3, NeedsAreNodes
        <5> QED
          BY <3>2, <5>4
      <4> QED
        BY <3>3, <4>1, <4>2
    <3>4. current.depth \in T
      BY <1>3, <3>1
    <3>5. current.depth .. (MaxDepth + 1) \subseteq T
      <4> HIDE DEF T
      <4> QED
        BY <3>1, <3>3, <3>4, LevelByLevel
    <3> QED
      BY <3>1, <3>5
  <2> QED
    BY <2>1, <2>2
<1>5. done \subseteq Within(disk)[MaxDepth]
  BY DEF WalkInv, FoundIsThere, ExpandedFiles
<1> QED
  BY <1>4, <1>5 DEF ExpandedFiles

(* The graph is the one that the reference says the files have. *)
LEMMA GraphFollows == IInv /\ WalkInv => GraphIsComplete /\ UnresolvedIsExact
<1> SUFFICES ASSUME IInv, WalkInv, outcome = "Graph"
             PROVE  /\ Range(nodes) = Within(disk)[MaxDepth + 1]
                    /\ LinksReported = LinksOfFiles(disk)
                    /\ unresolved = {n \in Name : \E f \in ExpandedFiles(disk) :
                                                  n \in NamesIn(disk, f) /\ TargetsOf(disk, f, n) = {}}
  BY DEF GraphIsComplete, UnresolvedIsExact
<1>1. /\ todo = {} /\ nodes[1] = rootFile /\ NodeId = DOMAIN nodes /\ unresolved \subseteq Name
      /\ expanded \subseteq NodeId /\ ExpandedFiles(disk) = {nodes[v] : v \in expanded}
  BY CurrentFacts, AllExpanded DEF WalkInv, EndIsTheEnd, IInv, TypeOK
<1>2. MaxDepth \in 0 .. MaxDepth /\ MaxDepth + 1 \in 0 .. (MaxDepth + 1) /\ 0 \in 0 .. (MaxDepth + 1)
  BY GraphAssumption
<1>3. LinksOfFiles(disk) \subseteq LinksReported
  <2> SUFFICES ASSUME NEW l \in LinksOfFiles(disk) PROVE l \in LinksReported
    OBVIOUS
  <2>1. /\ l = <<l[1], l[2], l[3]>> /\ l[1] \in ExpandedFiles(disk) /\ l[2] \in NamesIn(disk, l[1])
        /\ l[3] \in TargetsOf(disk, l[1], l[2]) /\ CanOpen(disk, l[3])
    BY DEF LinksOfFiles
  <2>2. PICK v \in expanded : nodes[v] = l[1]
    BY <1>1, <2>1
  <2>3. <<l[1], l[2], l[3]>> \in LinksReported
    BY <1>1, <2>1, <2>2, NeedsAreNodes
  <2> QED
    BY <2>1, <2>3
<1>4. LinksReported \subseteq LinksOfFiles(disk)
  BY DEF WalkInv, FoundIsThere
<1>5. Range(nodes) \subseteq Within(disk)[MaxDepth + 1]
  <2> SUFFICES ASSUME NEW v \in NodeId PROVE nodes[v] \in Within(disk)[MaxDepth + 1]
    BY <1>1 DEF Range
  <2>1. CASE nodes[v] = rootFile
    <3>1. rootFile \in Within(disk)[0] /\ MaxDepth + 1 \in 0 .. (MaxDepth + 1)
      BY <1>2, Levels
    <3>2. Within(disk)[0] \subseteq Within(disk)[MaxDepth + 1]
      BY <1>2, LevelsGrow
    <3> QED
      BY <2>1, <3>1, <3>2
  <2>2. CASE \E f \in ExpandedFiles(disk) : \E n \in NamesIn(disk, f) :
               nodes[v] \in TargetsOf(disk, f, n) /\ CanOpen(disk, nodes[v])
    BY <1>2, <2>2, OneFurther DEF ExpandedFiles
  <2> QED
    BY <1>1, <2>1, <2>2, NodesAreNeeded
<1>6. Within(disk)[MaxDepth + 1] \subseteq Range(nodes)
  <2> SUFFICES ASSUME NEW g \in Within(disk)[MaxDepth + 1] PROVE g \in Range(nodes)
    OBVIOUS
  <2>1. CASE g \in ExpandedFiles(disk)
    BY <1>1, <2>1 DEF Range
  <2>2. CASE g \notin ExpandedFiles(disk)
    <3>1. PICK f \in ExpandedFiles(disk) : g \in Needs(disk, f) /\ CanOpen(disk, g)
      BY <1>2, <2>2, NextLevel DEF ExpandedFiles
    <3>2. PICK v \in expanded : nodes[v] = f
      BY <1>1
    <3>3. PICK n \in NamesIn(disk, f) : g \in TargetsOf(disk, f, n)
      BY <3>1 DEF Needs
    <3>4. PICK w \in NodeId : nodes[w] = g
      BY <1>1, <3>1, <3>2, <3>3, NeedsAreNodes
    <3> QED
      BY <1>1, <3>4 DEF Range
  <2> QED
    BY <2>1, <2>2
<1>7. ASSUME NEW n \in Name, NEW f \in ExpandedFiles(disk), n \in NamesIn(disk, f), TargetsOf(disk, f, n) = {}
      PROVE  n \in unresolved
  <2>1. PICK v \in expanded : nodes[v] = f
    BY <1>1
  <2> QED
    BY <1>1, <1>7, <2>1 DEF WalkInv, NamesAreHandled, Handled
<1>8. \A n \in unresolved : n \in Name /\ \E f \in ExpandedFiles(disk) :
        n \in NamesIn(disk, f) /\ TargetsOf(disk, f, n) = {}
  BY <1>1 DEF WalkInv, FoundIsThere
<1> QED
  BY <1>3, <1>4, <1>5, <1>6, <1>7, <1>8

(***************************************************************************)
(* The cycles                                                              *)
(***************************************************************************)
(* The edges between nodes are the links between their files.              *)
LEMMA EdgesAreLinks ==
  ASSUME IInv
  PROVE  /\ \A u, v \in NodeId : Search!Linked(u, v) =>
              \E l \in LinksReported : l[1] = nodes[u] /\ l[3] = nodes[v]
         /\ \A l \in LinksReported : \E u, v \in NodeId :
              l[1] = nodes[u] /\ l[3] = nodes[v] /\ Search!Linked(u, v)
<1>1. ASSUME NEW u \in NodeId, NEW v \in NodeId, Search!Linked(u, v)
      PROVE  \E l \in LinksReported : l[1] = nodes[u] /\ l[3] = nodes[v]
  <2>1. PICK k \in DOMAIN edges : edges[k].from = u /\ edges[k].to = v
    BY <1>1 DEF Search!Linked
  <2>2. link(edges[k]) \in LinksReported
    BY DEF LinksReported
  <2> QED
    BY <2>1, <2>2 DEF link
<1>2. ASSUME NEW l \in LinksReported
      PROVE  \E u, v \in NodeId : l[1] = nodes[u] /\ l[3] = nodes[v] /\ Search!Linked(u, v)
  <2>1. PICK k \in DOMAIN edges : l = link(edges[k])
    BY DEF LinksReported
  <2>2. edges[k].from \in NodeId /\ edges[k].to \in NodeId
    BY CurrentFacts, EdgeEnds
  <2>3. Search!Linked(edges[k].from, edges[k].to)
    BY DEF Search!Linked
  <2> QED
    BY <2>1, <2>2, <2>3 DEF link
<1> QED
  BY <1>1, <1>2

(* Nodes go round in a circle if and only if files do. *)
LEMMA CirclesOfFiles ==
  ASSUME IInv, WalkInv, LinksReported = LinksOfFiles(disk)
  PROVE  (\E v \in NodeId : <<v, v>> \in Search!Reaches) <=> \E f \in File : f \in Onward(disk, f)
<1>1. /\ nodes \in Seq(File) /\ NodeId = DOMAIN nodes /\ Search!Node = NodeId
      /\ \A v \in NodeId : nodes[v] \in File
  BY CurrentFacts, NodesAreFiles DEF Search!Node, NodeId
<1>2. \A v, w \in NodeId : nodes[v] = nodes[w] => v = w
  BY CurrentFacts
<1>3. ASSUME NEW v \in NodeId, <<v, v>> \in Search!Reaches
      PROVE  nodes[v] \in Onward(disk, nodes[v])
  <2> SUFFICES ASSUME NEW s \in SUBSET File,
                      \A l \in LinksReported : l[1] \in {nodes[v]} \cup s => l[3] \in s
               PROVE  nodes[v] \in s
    BY <1>1 DEF Onward
  <2> DEFINE t == {w \in NodeId : nodes[w] \in s}
  <2>1. \A w \in NodeId : Search!Linked(v, w) => w \in t
    BY EdgesAreLinks
  <2>2. Search!Closed(t)
    BY <1>1, EdgesAreLinks DEF Search!Closed
  <2> HIDE DEF t
  <2>3. t \in SUBSET NodeId
    BY DEF t
  <2>4. v \in t
    BY <1>1, <1>3, <2>1, <2>2, <2>3, Search!ReachesInto
  <2> QED
    BY <2>4 DEF t
<1>4. ASSUME NEW f \in File, f \in Onward(disk, f)
      PROVE  \E v \in NodeId : <<v, v>> \in Search!Reaches
  <2>1. \A s \in SUBSET File : (\A l \in LinksReported : l[1] \in {f} \cup s => l[3] \in s) => f \in s
    BY <1>4 DEF Onward
  <2>2. \E v \in NodeId : nodes[v] = f
    <3> DEFINE s == {nodes[v] : v \in NodeId}
    <3>1. s \in SUBSET File /\ \A l \in LinksReported : l[3] \in s
      BY <1>1, EdgesAreLinks
    <3> HIDE DEF s
    <3>2. f \in s
      BY <2>1, <3>1
    <3> QED
      BY <3>2 DEF s
  <2>3. PICK v \in NodeId : nodes[v] = f
    BY <2>2
  <2>4. ASSUME NEW t \in SUBSET NodeId, Search!Closed(t), \A w \in NodeId : Search!Linked(v, w) => w \in t
        PROVE  v \in t
    <3> DEFINE s == {nodes[w] : w \in t}
    <3>1. s \in SUBSET File
      BY <1>1
    <3>2. ASSUME NEW l \in LinksReported, l[1] \in {f} \cup s PROVE l[3] \in s
      <4>1. PICK u \in NodeId, w \in NodeId : l[1] = nodes[u] /\ l[3] = nodes[w] /\ Search!Linked(u, w)
        BY EdgesAreLinks
      <4>2. CASE l[1] = f
        BY <1>2, <2>3, <2>4, <4>1, <4>2
      <4>3. CASE l[1] \in s
        <5>1. u \in t
          BY <1>2, <4>1, <4>3
        <5>2. w \in t
          BY <1>1, <2>4, <4>1, <5>1 DEF Search!Closed
        <5> QED
          BY <4>1, <5>2
      <4> QED
        BY <3>2, <4>2, <4>3
    <3>3. f \in s
      <4> HIDE DEF s
      <4> QED
        BY <2>1, <3>1, <3>2
    <3> QED
      BY <1>2, <2>3, <3>3
  <2>5. <<v, v>> \in Search!Reaches
    BY <1>1, <2>4 DEF Search!Reaches
  <2> QED
    BY <2>5
<1> QED
  BY <1>1, <1>3, <1>4

(* The search is the one of FindCycles, on the graph that the walk found.  *)
LEMMA SameSearch ==
  /\ Cycles!InitSearch => Search!InitSearch
  /\ Cycles!Next => Search!Next
<1>1. Cycles!InitSearch => Search!InitSearch
  BY DEF Cycles!InitSearch, Search!InitSearch
<1>2. ASSUME NEW v, NEW callers, Cycles!Enter(v, callers) PROVE Search!Enter(v, callers)
  BY <1>2 DEF Cycles!Enter, Search!Enter
<1> USE DEF Cycles!graph, Search!graph, Cycles!Node, Search!Node, Cycles!top, Search!top, Cycles!edge, Search!edge,
            Cycles!mine, Search!mine, Cycles!advanced, Search!advanced, Cycles!Scanning, Search!Scanning
<1>3. Cycles!Start => Search!Start
  BY DEF Cycles!Start, Search!Start
<1>4. Cycles!NextRoot => Search!NextRoot
  BY <1>2 DEF Cycles!NextRoot, Search!NextRoot
<1>5. Cycles!PassEdge => Search!PassEdge
  BY DEF Cycles!PassEdge, Search!PassEdge
<1>6. Cycles!Descend => Search!Descend
  BY <1>2 DEF Cycles!Descend, Search!Descend
<1>7. Cycles!CloseCycle => Search!CloseCycle
  <2>1. ASSUME NEW v, Cycles!Report(v) PROVE Search!Report(v)
    BY <2>1 DEF Cycles!Report, Search!Report, Cycles!FirstOnPath, Search!FirstOnPath
  <2> QED
    BY <2>1 DEF Cycles!CloseCycle, Search!CloseCycle
<1>8. Cycles!Leave => Search!Leave
  BY DEF Cycles!Leave, Search!Leave, Cycles!Front, Search!Front
<1>9. Cycles!Finish => Search!Finish
  BY DEF Cycles!Finish, Search!Finish
<1> QED
  BY <1>1, <1>3, <1>4, <1>5, <1>6, <1>7, <1>8, <1>9 DEF Cycles!Next, Search!Next

(* What every step of the search leaves behind. *)
LEMMA SearchGoesOn ==
  ASSUME Search!Next
  PROVE  phase' # "idle" /\ (phase = "idle" => Search!Start)
BY DEF Search!Next, Search!Start, Search!NextRoot, Search!PassEdge, Search!Descend, Search!CloseCycle,
       Search!Leave, Search!Finish, Search!Scanning

(* The graph that the walk builds is one that the search takes.            *)
LEMMA GraphIsSearchable ==
  ASSUME IInv
  PROVE  Search!IsGraph([size |-> Len(nodes), edges |-> edges])
<1> DEFINE ends == [from : NodeId, to : NodeId, name : Name]
<1>1. Len(nodes) \in Nat /\ edges \in Seq(ends)
  BY DEF IInv, TypeOK
<1>2. edges \in Seq(Search!Range(edges))
  <2> HIDE DEF ends
  <2> QED
    BY <1>1 DEF Search!Range
<1>3. \A k \in DOMAIN edges : edges[k].from \in 1 .. Len(nodes) /\ edges[k].to \in 1 .. Len(nodes)
  BY CurrentFacts, EdgeEnds DEF NodeId
<1> QED
  BY <1>1, <1>2, <1>3 DEF Search!IsGraph

(* The search starts on the finished graph. *)
SearchInv ==
  /\ phase = "idle" => Search!InitSearch
  /\ phase # "idle" => outcome = "Graph" /\ Search!IInv /\ Search!KnotInv

ReportInv == IInv /\ WalkInv /\ SearchInv

LEMMA ReportInit == InitReport => ReportInv
<1> SUFFICES ASSUME InitReport PROVE ReportInv
  OBVIOUS
<1>1. IInv /\ WalkInv
  BY IInvInit, WalkInit DEF InitReport
<1>2. Search!InitSearch /\ phase = "idle"
  BY SameSearch DEF InitReport, Search!InitSearch
<1> QED
  BY <1>1, <1>2 DEF ReportInv, SearchInv

LEMMA ReportStep == ReportInv /\ [Program]_<<vars, report>> => ReportInv'
<1> SUFFICES ASSUME ReportInv, [Program]_<<vars, report>> PROVE ReportInv'
  OBVIOUS
<1>1. IInv /\ WalkInv /\ SearchInv
  BY DEF ReportInv
<1>2. CASE WalkStep
  <2>1. Step /\ UNCHANGED <<phase, root, color, path, scan, cycles>>
    BY <1>2 DEF WalkStep, report
  <2>2. disk' = disk
    BY <2>1 DEF Step, ReadRoot, ReadRootFails, KeyRoot, AddRoot, AddRootFails, Dequeue, TakeName, TryNext, Found,
       ReportUnresolved, ResolveGone, ResolveThere, Resolve, LinkKnown, LimitExceeded, MakeKey, LinkNew, Connect,
       SkipUnopenable, Finish
  <2>3. IInv' /\ WalkInv' /\ outcome = "none"
    BY <1>1, <2>1, <2>2, IInvStep, WalkStepInv, OnlyOnce DEF Quiet, Next
  <2>4. phase = "idle" /\ Search!InitSearch
    BY <1>1, <2>3 DEF SearchInv
  <2>5. Search!InitSearch' /\ phase' = "idle"
    BY <2>1, <2>4 DEF Search!InitSearch
  <2> QED
    BY <2>3, <2>5 DEF ReportInv, SearchInv
<1>3. CASE FindCyclesInGraph
  <2>1. outcome = "Graph" /\ UNCHANGED vars /\ Search!Next
    BY <1>3, SameSearch DEF FindCyclesInGraph
  <2>2. Search!IInv /\ Search!KnotInv
    <3>1. CASE phase = "idle"
      BY <1>1, <3>1, GraphIsSearchable, Search!SearchInit, Search!KnotInit DEF SearchInv
    <3>2. CASE phase # "idle"
      BY <1>1, <3>2 DEF SearchInv
    <3> QED
      BY <3>1, <3>2
  <2>3. Search!IInv' /\ Search!KnotInv'
    BY <2>1, <2>2, Search!StepInv, Search!KnotStep
  <2>4. phase' # "idle" /\ outcome' = "Graph"
    BY <2>1, SearchGoesOn DEF vars
  <2>5. IInv' /\ WalkInv'
    <3>1. IInv'
      BY <1>1, <2>1, IInvStep
    <3>2. WalkInv'
      BY <1>1, <2>1, WalkStutter
    <3> QED
      BY <3>1, <3>2
  <2> QED
    BY <2>3, <2>4, <2>5 DEF ReportInv, SearchInv
<1>4. CASE UNCHANGED <<vars, report>>
  <2>1. UNCHANGED vars /\ UNCHANGED <<phase, root, color, path, scan, cycles>>
    BY <1>4 DEF report
  <2>2. IInv' /\ WalkInv' /\ UNCHANGED <<nodes, edges, outcome>>
    BY <1>1, <2>1, IInvStep, WalkStutter DEF vars, walk
  <2>3. CASE phase = "idle"
    <3>1. Search!InitSearch'
      BY <1>1, <2>1, <2>3 DEF SearchInv, Search!InitSearch
    <3> QED
      BY <2>1, <2>2, <2>3, <3>1 DEF ReportInv, SearchInv
  <2>4. CASE phase # "idle"
    <3>1. UNCHANGED Search!vars
      BY <2>1, <2>2 DEF Search!vars, Search!graph, Search!search
    <3>2. Search!IInv' /\ Search!KnotInv'
      BY <1>1, <2>4, <3>1, Search!StepInv, Search!KnotStep DEF SearchInv
    <3> QED
      BY <1>1, <2>1, <2>2, <2>4, <3>2 DEF ReportInv, SearchInv
  <2> QED
    BY <2>3, <2>4
<1> QED
  BY <1>2, <1>3, <1>4 DEF Program

LEMMA ReportInductive == SpecReport => []ReportInv
BY ReportInit, ReportStep, PTL DEF SpecReport

(* The graph is complete: for every file system, search path and limits    *)
(* the walk returns the files within reach, each once, and every link.     *)
THEOREM GraphComplete == SpecReport => []GraphIsComplete
<1>1. ReportInv => GraphIsComplete
  BY GraphFollows DEF ReportInv
<1> QED
  BY <1>1, ReportInductive, PTL

(* The names reported as unresolved are the ones that nothing answers to.  *)
THEOREM UnresolvedExact == SpecReport => []UnresolvedIsExact
<1>1. ReportInv => UnresolvedIsExact
  BY GraphFollows DEF ReportInv
<1> QED
  BY <1>1, ReportInductive, PTL

(* --max-nodes only stops the walk when there are more files than that.    *)
THEOREM LimitGenuine == SpecReport => []LimitIsGenuine
<1>1. ReportInv => LimitIsGenuine
  BY DEF ReportInv, WalkInv
<1> QED
  BY <1>1, ReportInductive, PTL

(* Cycles are reported if and only if files need each other in a circle.   *)
THEOREM CyclesExact == SpecReport => []CyclesAreExact
<1>1. ReportInv => CyclesAreExact
  <2> SUFFICES ASSUME ReportInv, phase = "done"
               PROVE  cycles # <<>> <=> \E f \in File : f \in Onward(disk, f)
    BY DEF CyclesAreExact
  <2>1. IInv /\ WalkInv /\ outcome = "Graph" /\ Search!IInv /\ Search!KnotInv
    BY DEF ReportInv, SearchInv
  <2>2. LinksReported = LinksOfFiles(disk)
    BY <2>1, GraphFollows DEF GraphIsComplete
  <2>3. cycles # <<>> <=> \E v \in Search!Node : <<v, v>> \in Search!Reaches
    BY <2>1, Search!ReportIsExact
  <2>4. Search!Node = NodeId
    BY DEF Search!Node, NodeId
  <2> QED
    BY <2>1, <2>2, <2>3, <2>4, CirclesOfFiles
<1> QED
  BY <1>1, ReportInductive, PTL

(* The whole function implements the exploration as the walk alone does:   *)
(* the search of cycles adds no file, no link and no other verdict.        *)
LEMMA ReportWalks == SpecReport => Init /\ [][Next]_vars
<1>1. InitReport => Init
  BY DEF InitReport
<1>2. [Program]_<<vars, report>> => [Next]_vars
  BY DEF Program, WalkStep, FindCyclesInGraph, Next
<1> QED
  BY <1>1, <1>2, PTL DEF SpecReport

(* Each step of the report follows one link of the exploration, completes  *)
(* it, or is none of its steps: the search changes nothing of the graph.   *)
THEOREM ReportExplores == SpecReport => Exploration!Safety
<1>1. IInv /\ [Next]_vars => [Exploration!Next]_(Exploration!vars)
  BY StepMaps DEF abstract, known, links, Exploration!vars
<1>2. Init /\ [][Next]_vars => []IInv
  BY IInvInit, IInvStep, PTL
<1> QED
  BY <1>1, <1>2, InitMaps, ReportWalks, PTL DEF Exploration!Safety

(* What the report calls a cycle is one on disk: each of its files needs   *)
(* the next one and the last one needs the first, by a name that it lists. *)
NeedsOnDisk(u, v) == \E n \in Name : <<nodes[u], n, nodes[v]>> \in LinksOfFiles(disk)

CyclesAreOnDisk ==
  phase = "done" =>
    \A k \in DOMAIN cycles :
      LET c == cycles[k]
      IN  /\ c # <<>> /\ NeedsOnDisk(c[Len(c)], c[1])
          /\ \A m, n \in DOMAIN c : nodes[c[m]] = nodes[c[n]] => m = n
          /\ \A m \in 1 .. (Len(c) - 1) : NeedsOnDisk(c[m], c[m + 1])

LEMMA LinkedIsNeeded ==
  ASSUME IInv, LinksReported = LinksOfFiles(disk), NEW u, NEW v, Search!Linked(u, v)
  PROVE  u \in NodeId /\ v \in NodeId /\ NeedsOnDisk(u, v)
<1>1. PICK e \in DOMAIN edges : edges[e].from = u /\ edges[e].to = v
  BY DEF Search!Linked
<1>2. edges[e] \in [from : NodeId, to : NodeId, name : Name]
  <2> DEFINE ends == [from : NodeId, to : NodeId, name : Name]
  <2>1. edges \in Seq(ends)
    BY DEF IInv, TypeOK
  <2> HIDE DEF ends
  <2>2. edges[e] \in ends
    BY <2>1
  <2> QED
    BY <2>2 DEF ends
<1>3. link(edges[e]) = <<nodes[u], edges[e].name, nodes[v]>>
  BY <1>1 DEF link
<1> QED
  BY <1>1, <1>2, <1>3 DEF LinksReported, NeedsOnDisk

(* A cycle of the report visits no file twice and can be walked on disk.   *)
THEOREM CyclesOnDisk == SpecReport => []CyclesAreOnDisk
<1>1. ReportInv => CyclesAreOnDisk
  <2> SUFFICES ASSUME ReportInv, phase = "done", NEW k \in DOMAIN cycles
               PROVE  LET c == cycles[k]
                      IN  /\ c # <<>> /\ NeedsOnDisk(c[Len(c)], c[1])
                          /\ \A m, n \in DOMAIN c : nodes[c[m]] = nodes[c[n]] => m = n
                          /\ \A m \in 1 .. (Len(c) - 1) : NeedsOnDisk(c[m], c[m + 1])
    BY DEF CyclesAreOnDisk
  <2> DEFINE c == cycles[k]
  <2>1. IInv /\ WalkInv /\ outcome = "Graph" /\ Search!IInv
    BY DEF ReportInv, SearchInv
  <2>2. LinksReported = LinksOfFiles(disk)
    BY <2>1, GraphFollows DEF GraphIsComplete
  <2>3. Search!IsCycle(c)
    BY <2>1 DEF Search!IInv, Search!ReportedCyclesAreReal
  <2>4. NeedsOnDisk(c[Len(c)], c[1])
    BY <2>1, <2>2, <2>3, LinkedIsNeeded DEF Search!IsCycle
  <2>5. \A m \in 1 .. (Len(c) - 1) : NeedsOnDisk(c[m], c[m + 1])
    BY <2>1, <2>2, <2>3, LinkedIsNeeded DEF Search!IsCycle
  <2>6. c # <<>> /\ \A m, n \in DOMAIN c : nodes[c[m]] = nodes[c[n]] => m = n
    <3>1. cycles \in Seq(Seq(Search!Node))
      BY <2>1 DEF Search!IInv, Search!TypeOK
    <3>2. c \in Seq(NodeId)
      <4> DEFINE S == Seq(Search!Node)
      <4>1. cycles \in Seq(S)
        BY <3>1
      <4> HIDE DEF S
      <4>2. cycles[k] \in S
        BY <4>1
      <4> QED
        BY <4>2 DEF S, Search!Node, NodeId
    <3> HIDE DEF c
    <3>3. \A m \in DOMAIN c : c[m] \in NodeId
      BY <3>2
    <3>4. \A u, v \in NodeId : nodes[u] = nodes[v] => u = v
      BY <2>1, CurrentFacts
    <3> QED
      BY <2>3, <3>3, <3>4, Zenon DEF Search!IsCycle
  <2> QED
    BY <2>4, <2>5, <2>6
<1> QED
  BY <1>1, ReportInductive, PTL
=============================================================================
