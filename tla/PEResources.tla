---------------------------- MODULE PEResources ----------------------------
(***************************************************************************)
(* parse_resources() of src/src/formats/pe.cpp: the walk over the resource *)
(* directories, which are found by their offsets from the first one and    *)
(* may nest, share their parts, loop or lie outside of the file.           *)
(*                                                                         *)
(* The lambda `walk' calls itself: `stack' holds the directories of the    *)
(* calls that are in their loop, `call' the arguments of one that has not  *)
(* got so far.  A path is the sequence of the entries that lead to an      *)
(* item; in the code it holds the names read from these.                   *)
(***************************************************************************)
EXTENDS PEData

CONSTANTS
  Images,     \* the files to parse
  MaxDepth,   \* 32: how deep directories may nest
  MaxNodes    \* 100000: how many calls may be made

ASSUME ResourcesAssumption ==
  /\ \A f \in Images : IsImage(f)
  /\ RvaLimit >= 2
  /\ MaxDepth \in Nat /\ MaxNodes \in Nat

VARIABLES
  image,     \* the file, which is only read
  at,        \* where parse_resources() is
  call,      \* [rel, path]: the directory to be visited
  stack,     \* [rel, path, next]: the directories in hand, next: its next entry
  visited,   \* the offsets of the directories met so far
  nodes,     \* how many calls were counted
  items,     \* [path, data]: tree.items
  faults,    \* [code, address]: the diagnostics of the component "resources"
  treeStatus \* resource_status

resourceVars == <<image, at, call, stack, visited, nodes, items, faults, treeStatus>>

InitResources ==
  /\ image \in Images
  /\ at = "start"
  /\ call = [rel |-> 0, path |-> <<>>]
  /\ stack = <<>> /\ visited = {} /\ nodes = 0
  /\ items = <<>> /\ faults = {}
  /\ treeStatus = "NotParsed"

HighBit == RvaLimit \div 2   \* 2^31

root == image.directories["resource"]

fault(code, address) == [code |-> code, address |-> address]

(***************************************************************************)
(* The directory in the file                                               *)
(***************************************************************************)
HeaderAt(rel) ==
  {h \in Window(image, root.rva + rel, 16) : rel + 16 <= root.size}

(* Named entries and entries with a number. *)
Total(header) == Word(image, header + 12) + Word(image, header + 14)

ArrayFits(rel, header) == rel + 16 + Total(header) * 8 <= root.size

(* The word of an entry that says where it leads. *)
Lead(rel, index) ==
  {Word(image, o + 4) : o \in Window(image, root.rva + rel + 16 + index * 8, 8)}

IsDirectory(lead) == lead >= HighBit
Target(lead) == lead % HighBit

DataAt(lead) == Window(image, root.rva + Target(lead), 16)

(***************************************************************************)
(* Before the walk                                                         *)
(***************************************************************************)
End(result) == at' = "done" /\ treeStatus' = result

NoResources ==
  /\ at = "start" /\ ~Present(image, "resource")
  /\ End("NotPresent")
  /\ UNCHANGED <<image, call, stack, visited, nodes, items, faults>>

ResourcesUnmapped ==
  /\ at = "start" /\ Present(image, "resource") /\ ~Mapped(image, "resource")
  /\ faults' = faults \cup {fault("PE_RESOURCE_DIRECTORY_RANGE", root.rva)}
  /\ End("Malformed")
  /\ UNCHANGED <<image, call, stack, visited, nodes, items>>

BeginWalk ==
  /\ at = "start" /\ Present(image, "resource") /\ Mapped(image, "resource")
  /\ call' = [rel |-> 0, path |-> <<>>]
  /\ at' = "visit"
  /\ UNCHANGED <<image, stack, visited, nodes, items, faults, treeStatus>>

(***************************************************************************)
(* A call of `walk': the tests at its head, in their order                 *)
(***************************************************************************)
(* The address is a sum in 32 bits. *)
Address(rel) == (root.rva + rel) % RvaLimit

Complain(code) == faults' = faults \cup {fault(code, Address(call.rel))}

(* Back to the loop of the caller. *)
Return == at' = IF stack = <<>> THEN "walked" ELSE "entries"

TooDeep ==
  /\ at = "visit" /\ Len(stack) > MaxDepth
  /\ Complain("PE_RESOURCE_DEPTH")
  /\ Return
  /\ UNCHANGED <<image, call, stack, visited, nodes, items, treeStatus>>

Counted == at = "visit" /\ Len(stack) <= MaxDepth /\ nodes' = nodes + 1

TooMany ==
  /\ Counted /\ nodes + 1 > MaxNodes
  /\ Complain("PE_RESOURCE_NODE_LIMIT")
  /\ Return
  /\ UNCHANGED <<image, call, stack, visited, items, treeStatus>>

(* Mutant: a repeated directory is passed over without a word. *)
SeenBefore_Silent ==
  /\ Counted /\ nodes + 1 <= MaxNodes
  /\ call.rel \in visited
  /\ Return
  /\ UNCHANGED <<image, call, stack, visited, items, faults, treeStatus>>

SeenBefore ==
  /\ Counted /\ nodes + 1 <= MaxNodes
  /\ call.rel \in visited
  /\ Complain("PE_RESOURCE_CYCLE")
  /\ Return
  /\ UNCHANGED <<image, call, stack, visited, items, treeStatus>>

FirstVisit ==
  /\ Counted /\ nodes + 1 <= MaxNodes
  /\ call.rel \notin visited
  /\ visited' = visited \cup {call.rel}

HeaderMissing ==
  /\ FirstVisit /\ HeaderAt(call.rel) = {}
  /\ Return
  /\ UNCHANGED <<image, call, stack, items, faults, treeStatus>>

(* Mutant: entries that do not fit are left out without a word. *)
ArrayOutside_Silent ==
  /\ FirstVisit
  /\ \E h \in HeaderAt(call.rel) : ~ArrayFits(call.rel, h)
  /\ Return
  /\ UNCHANGED <<image, call, stack, items, faults, treeStatus>>

ArrayOutside ==
  /\ FirstVisit
  /\ \E h \in HeaderAt(call.rel) : ~ArrayFits(call.rel, h)
  /\ Complain("PE_RESOURCE_ENTRY_RANGE")
  /\ Return
  /\ UNCHANGED <<image, call, stack, items, treeStatus>>

OpenDirectory ==
  /\ FirstVisit
  /\ \E h \in HeaderAt(call.rel) : ArrayFits(call.rel, h)
  /\ stack' = Append(stack, [rel |-> call.rel, path |-> call.path, next |-> 0])
  /\ at' = "entries"
  /\ UNCHANGED <<image, call, items, faults, treeStatus>>

(***************************************************************************)
(* The loop over the entries of a directory                                *)
(***************************************************************************)
top == stack[Len(stack)]

(* `next': the path of the caller and the name of the entry in hand. *)
Extended == Append(top.path, [dir |-> top.rel, index |-> top.next])

MoreEntries ==
  /\ at = "entries"
  /\ \E h \in HeaderAt(top.rel) : top.next < Total(h)

Advanced == [stack EXCEPT ![Len(stack)].next = @ + 1]

(* Mutant: what cannot be read is tried again. *)
SkipEntry_Stuck ==
  /\ MoreEntries /\ Lead(top.rel, top.next) = {}
  /\ UNCHANGED resourceVars

SkipEntry ==
  /\ MoreEntries /\ Lead(top.rel, top.next) = {}
  /\ stack' = Advanced
  /\ UNCHANGED <<image, at, call, visited, nodes, items, faults, treeStatus>>

EnterChild ==
  /\ MoreEntries
  /\ \E lead \in Lead(top.rel, top.next) :
       /\ IsDirectory(lead)
       /\ call' = [rel |-> Target(lead), path |-> Extended]
  /\ stack' = Advanced
  /\ at' = "visit"
  /\ UNCHANGED <<image, visited, nodes, items, faults, treeStatus>>

(* Mutant: the directory is left at the first data that is outside. *)
SkipData_Returns ==
  /\ MoreEntries
  /\ \E lead \in Lead(top.rel, top.next) : ~IsDirectory(lead) /\ DataAt(lead) = {}
  /\ stack' = SubSeq(stack, 1, Len(stack) - 1)
  /\ at' = IF Len(stack) = 1 THEN "walked" ELSE "entries"
  /\ UNCHANGED <<image, call, visited, nodes, items, faults, treeStatus>>

SkipData ==
  /\ MoreEntries
  /\ \E lead \in Lead(top.rel, top.next) : ~IsDirectory(lead) /\ DataAt(lead) = {}
  /\ stack' = Advanced
  /\ UNCHANGED <<image, at, call, visited, nodes, items, faults, treeStatus>>

(* Mutant: one path for all entries of a directory, which grows. *)
ReportItem_SharedPath ==
  /\ MoreEntries
  /\ \E lead \in Lead(top.rel, top.next) :
       /\ ~IsDirectory(lead)
       /\ \E data \in DataAt(lead) : items' = Append(items, [path |-> Extended, data |-> data])
  /\ stack' = [Advanced EXCEPT ![Len(stack)].path = Extended]
  /\ UNCHANGED <<image, at, call, visited, nodes, faults, treeStatus>>

ReportItem ==
  /\ MoreEntries
  /\ \E lead \in Lead(top.rel, top.next) :
       /\ ~IsDirectory(lead)
       /\ \E data \in DataAt(lead) : items' = Append(items, [path |-> Extended, data |-> data])
  /\ stack' = Advanced
  /\ UNCHANGED <<image, at, call, visited, nodes, faults, treeStatus>>

(* Mutant: only the directories in hand count as met before. *)
CloseDirectory_Forgets ==
  /\ at = "entries" /\ ~MoreEntries
  /\ stack' = SubSeq(stack, 1, Len(stack) - 1)
  /\ at' = IF Len(stack) = 1 THEN "walked" ELSE "entries"
  /\ visited' = visited \ {top.rel}
  /\ UNCHANGED <<image, call, nodes, items, faults, treeStatus>>

CloseDirectory ==
  /\ at = "entries" /\ ~MoreEntries
  /\ stack' = SubSeq(stack, 1, Len(stack) - 1)
  /\ at' = IF Len(stack) = 1 THEN "walked" ELSE "entries"
  /\ UNCHANGED <<image, call, visited, nodes, items, faults, treeStatus>>

EndWalk ==
  /\ at = "walked"
  /\ End(IF items = <<>> THEN "PartiallyParsed" ELSE "Valid")
  /\ UNCHANGED <<image, call, stack, visited, nodes, items, faults>>

NextResources ==
  \/ NoResources \/ ResourcesUnmapped \/ BeginWalk
  \/ TooDeep \/ TooMany \/ SeenBefore
  \/ HeaderMissing \/ ArrayOutside \/ OpenDirectory
  \/ SkipEntry \/ EnterChild \/ SkipData \/ ReportItem
  \/ CloseDirectory \/ EndWalk

SpecResources == InitResources /\ [][NextResources]_resourceVars

(***************************************************************************)
(* Properties                                                              *)
(***************************************************************************)
(* What the file says: the entries of a directory and where they lead.     *)
Opens(rel) == \E h \in HeaderAt(rel) : ArrayFits(rel, h)

Indices(rel) == UNION {0 .. (Total(h) - 1) : h \in HeaderAt(rel)}

LeadsTo(rel, index, child) ==
  \E lead \in Lead(rel, index) : IsDirectory(lead) /\ Target(lead) = child

HasData(rel, index, data) ==
  \E lead \in Lead(rel, index) : ~IsDirectory(lead) /\ data \in DataAt(lead)

Walked == at = "done" /\ Present(image, "resource") /\ Mapped(image, "resource")

(* The call for the directory was given up at a limit, and that is said.   *)
GivenUp(rel) ==
  \/ fault("PE_RESOURCE_DEPTH", Address(rel)) \in faults
  \/ fault("PE_RESOURCE_NODE_LIMIT", Address(rel)) \in faults

(* Every item lies at the end of a path of entries of the file that begins *)
(* in the first directory: no item is made up, and none has the path of    *)
(* another one, however the calls of walk() nest.                          *)
ItemsAreReal ==
  \A n \in DOMAIN items :
    LET path == items[n].path
        last == path[Len(path)]
    IN  /\ path # <<>>
        /\ path[1].dir = 0
        /\ \A k \in 1 .. (Len(path) - 1) : LeadsTo(path[k].dir, path[k].index, path[k + 1].dir)
        /\ HasData(last.dir, last.index, items[n].data)

(* No entry of the file gives two items, though directories may be shared. *)
EveryEntryOnce ==
  \A m, n \in DOMAIN items :
    m # n => items[m].path[Len(items[m].path)] # items[n].path[Len(items[n].path)]

(* What can be read in the file is not lost: the walk came to each         *)
(* directory that one it opened leads to, or complains that it gave this   *)
(* one up at a limit; it opened each that has a header, or complains that  *)
(* its entries do not fit; and each data of an entry of one it opened is   *)
(* an item.  What cannot be read is passed over in silence: a directory    *)
(* whose header, and an entry or a data that, lies outside of the file.    *)
NothingReadableIsLost ==
  Walked =>
    /\ 0 \in visited \/ GivenUp(0)
    /\ \A rel \in visited :
         /\ HeaderAt(rel) # {} /\ ~Opens(rel) =>
              fault("PE_RESOURCE_ENTRY_RANGE", Address(rel)) \in faults
         /\ Opens(rel) =>
              \A index \in Indices(rel) : \A lead \in Lead(rel, index) :
                IF IsDirectory(lead) THEN Target(lead) \in visited \/ GivenUp(Target(lead))
                ELSE \A data \in DataAt(lead) :
                       \E n \in DOMAIN items :
                         /\ items[n].data = data
                         /\ items[n].path[Len(items[n].path)] = [dir |-> rel, index |-> index]

(* A "cycle" is reported only of directories that more than one entry      *)
(* leads to, the first directory counting as one that is led to: of those  *)
(* in a loop, and also of those that are only shared.  It is reported of   *)
(* all of these but such as were given up at a limit, which is said of     *)
(* them, whatever limits are met elsewhere.                                *)
RepeatsAreReported ==
  Walked =>
    \A rel \in 0 .. (HighBit - 1) :
      LET links == UNION {{<<r, index>> : index \in {x \in Indices(r) : LeadsTo(r, x, rel)}} :
                            r \in {v \in visited : Opens(v)}}
          ways  == links \cup {<<rel, -1>> : x \in {0} \cap {rel}}
          repeated == fault("PE_RESOURCE_CYCLE", Address(rel)) \in faults
      IN  /\ repeated => \E v, w \in ways : v # w
          /\ (\E v, w \in ways : v # w) => repeated \/ GivenUp(rel)

(***************************************************************************)
(* What the proofs rest on                                                 *)
(***************************************************************************)
Rel == 0 .. (HighBit - 1)
Link == [dir : Rel, index : Nat]
FaultCode ==
  {"PE_RESOURCE_DIRECTORY_RANGE", "PE_RESOURCE_DEPTH", "PE_RESOURCE_NODE_LIMIT",
   "PE_RESOURCE_CYCLE", "PE_RESOURCE_ENTRY_RANGE"}
Frame == [rel : Rel, path : Seq(Link), next : Nat]

(* The types of the walk's state. *)
ResourcesTypeOK ==
  /\ IsImage(image)
  /\ at \in {"start", "visit", "entries", "walked", "done"}
  /\ call \in [rel : Rel, path : Seq(Link)]
  /\ stack \in Seq(Frame)
  /\ visited \subseteq Rel /\ nodes \in Nat
  /\ items \in Seq([path : Seq(Link), data : Nat])
  /\ faults \subseteq [code : FaultCode, address : Nat]
  /\ treeStatus \in ParseStatus

(* The loops run while there are directories in hand, and only then.       *)
ControlOK ==
  /\ at \in {"start", "walked", "done"} => stack = <<>>
  /\ at = "entries" => stack # <<>>

(* The path is one of entries of the file, from the first directory on,    *)
(* and leads to this one.                                                  *)
ArrivesAt(path, rel) ==
  IF path = <<>> THEN rel = 0
  ELSE /\ path[1].dir = 0
       /\ \A k \in 1 .. (Len(path) - 1) : LeadsTo(path[k].dir, path[k].index, path[k + 1].dir)
       /\ LeadsTo(path[Len(path)].dir, path[Len(path)].index, rel)

PathsAreReal ==
  /\ at = "visit" => ArrivesAt(call.path, call.rel)
  /\ \A d \in DOMAIN stack : ArrivesAt(stack[d].path, stack[d].rel)

(* Every directory in hand was visited, and there is one call for each.    *)
StackIsOfVisited ==
  \A d \in DOMAIN stack :
    /\ stack[d].rel \in visited
    /\ \A e \in DOMAIN stack : d # e => stack[d].rel # stack[e].rel

(* An entry is behind the loop of its directory.                           *)
Passed(rel, index) ==
  \A d \in DOMAIN stack : stack[d].rel = rel => index < stack[d].next

LastLink(n) == items[n].path[Len(items[n].path)]

ItemsArePassed ==
  \A n \in DOMAIN items :
    LastLink(n).dir \in visited /\ Passed(LastLink(n).dir, LastLink(n).index)

(* What an entry leads to is in the report, was given up, or comes next.   *)
Settled(child) == child \in visited \/ GivenUp(child) \/ (at = "visit" /\ call.rel = child)

IsReported(rel, index, data) ==
  \E n \in DOMAIN items : items[n].data = data /\ LastLink(n) = [dir |-> rel, index |-> index]

PassedAreSettled ==
  \A rel \in visited : Opens(rel) =>
    \A index \in Indices(rel) : Passed(rel, index) =>
      \A lead \in Lead(rel, index) :
        IF IsDirectory(lead) THEN Settled(Target(lead))
        ELSE \A data \in DataAt(lead) : IsReported(rel, index, data)

RootIsSettled ==
  at # "start" /\ Present(image, "resource") /\ Mapped(image, "resource") => Settled(0)

ResourcesInv ==
  /\ ResourcesTypeOK /\ ControlOK
  /\ PathsAreReal /\ ItemsAreReal
  /\ StackIsOfVisited /\ ItemsArePassed /\ EveryEntryOnce
  /\ PassedAreSettled /\ RootIsSettled
=============================================================================
