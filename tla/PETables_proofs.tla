--------------------------- MODULE PETables_proofs ---------------------------
(***************************************************************************)
(* Proofs about the parsers of a PE image's tables, for every file, every  *)
(* width of the addresses and all limits.                                  *)
(*                                                                         *)
(* First the walk over the resource directories by itself.  The argument:  *)
(* an entry that the loop of its directory has passed is settled (its item *)
(* is in the report; its directory was visited, given up or is visited     *)
(* next), and only a directory all of whose entries were passed is closed. *)
(*                                                                         *)
(* Then all parsers, one after the other: the walk is the only one that    *)
(* changes its state, so that what is proved of it alone holds in          *)
(* parse_pe(); every table is judged by itself; the relocation blocks tile *)
(* their directory; imports and exports are those passed so far.           *)
(***************************************************************************)
EXTENDS PETables, FiniteSetTheorems, WellFoundedInduction, TLAPS

(***************************************************************************)
(* Reading the file                                                        *)
(***************************************************************************)
(* An address of 31 bits is a remainder. *)
LEMMA HighBitFacts ==
  /\ HighBit \in Nat \ {0}
  /\ 0 \in Rel /\ Rel \subseteq Nat
  /\ \A lead \in Nat : Target(lead) \in Rel
<1>1. HighBit \in Nat \ {0}
  BY RvaAssumption, ResourcesAssumption DEF HighBit
<1>2. ASSUME NEW lead \in Nat PROVE lead % HighBit \in 0 .. (HighBit - 1)
  BY <1>1
<1> QED
  BY <1>1, <1>2 DEF Rel, Target

(* Of an image everything that is read is a number. *)
LEMMA ImageFacts ==
  ASSUME IsImage(image)
  PROVE  /\ root.rva \in Nat /\ root.size \in Nat
         /\ image.mapper.fileSize \in Nat /\ image.mapper.headers \in Nat
         /\ image.mapper.sections \in Seq(Section)
         /\ \A o : Word(image, o) \in Nat
<1>1. image.directories["resource"] \in Directory /\ image.mapper \in Mapper
  BY DEF IsImage, Table
<1>2. \A o : Word(image, o) \in Nat
  BY DEF IsImage, IsContent, Word
<1> QED
  BY <1>1, <1>2, RvaAssumption DEF root, Directory, Mapper, Rva

(* An address has at most one place in the file, which is a number.        *)
LEMMA WindowFacts ==
  ASSUME IsImage(image), NEW address \in Nat, NEW length
  PROVE  /\ Window(image, address, length) \subseteq Nat
         /\ \A x, y \in Window(image, address, length) : x = y
<1> DEFINE m == image.mapper
           held == {k \in DOMAIN m.sections : HoldsRva(m.sections[k], address)}
<1>1. m.sections \in Seq(Section) /\ m.headers \in Nat
  BY ImageFacts
<1>2. held \subseteq Nat
  BY <1>1
<1> HIDE DEF m
<1>3. \A k, l \in FirstOf(held) : k = l
  BY <1>2 DEF FirstOf
<1>4. FirstOf(held) \subseteq held
  BY DEF FirstOf
<1>5. ASSUME NEW k \in held
      PROVE  \A x \in OffsetIn(m, m.sections[k], address) : x \in Nat
  <2> DEFINE s == m.sections[k]
  <2>1. s \in Section /\ HoldsRva(s, address)
    BY <1>1
  <2> HIDE DEF s
  <2>2. s.rawPointer \in Rva /\ s.virtualAddress \in Rva
    BY <2>1 DEF Section
  <2>3. address - s.virtualAddress \in Nat /\ s.rawPointer \in Nat
    BY <2>1, <2>2, RvaAssumption DEF HoldsRva, Rva
  <2>4. \A x \in OffsetIn(m, s, address) : x \in Nat
    BY <2>3 DEF OffsetIn
  <2> QED
    BY <2>4 DEF s
<1>6. CASE address < m.headers
  BY <1>6 DEF RvaToFileOffset, Window, m
<1>7. CASE ~(address < m.headers)
  <2>1. RvaToFileOffset(m, address) = UNION {OffsetIn(m, m.sections[k], address) : k \in FirstOf(held)}
    BY <1>7 DEF RvaToFileOffset
  <2>2. ASSUME NEW x \in RvaToFileOffset(m, address), NEW y \in RvaToFileOffset(m, address)
        PROVE  x = y /\ x \in Nat
    <3>1. PICK k \in FirstOf(held) : x \in OffsetIn(m, m.sections[k], address)
      BY <2>1
    <3>2. PICK l \in FirstOf(held) : y \in OffsetIn(m, m.sections[l], address)
      BY <2>1
    <3>3. k = l /\ k \in held
      BY <1>3, <1>4
    <3>4. x = y
      BY <3>1, <3>2, <3>3 DEF OffsetIn
    <3> QED
      BY <3>1, <3>3, <3>4, <1>5
  <2> QED
    BY <2>2 DEF Window, m
<1> QED
  BY <1>6, <1>7

(* An entry says at most one thing, in a number; its data is in one place. *)
LEMMA EntryFacts ==
  ASSUME IsImage(image)
  PROVE  /\ \A rel \in Rel : \A h, g \in HeaderAt(rel) : Total(h) \in Nat /\ h = g
         /\ \A rel \in Rel, index \in Nat :
              /\ Lead(rel, index) \subseteq Nat
              /\ \A x, y \in Lead(rel, index) : x = y
         /\ \A lead \in Nat :
              /\ DataAt(lead) \subseteq Nat
              /\ \A x, y \in DataAt(lead) : x = y
<1>0. root.rva \in Nat /\ Rel \subseteq Nat
  BY ImageFacts, HighBitFacts
<1>1. ASSUME NEW rel \in Rel, NEW h \in HeaderAt(rel), NEW g \in HeaderAt(rel)
      PROVE  Total(h) \in Nat /\ h = g
  <2>0. root.rva \in Nat /\ rel \in Nat
    BY <1>0
  <2>1. root.rva + rel \in Nat
    BY <2>0
  <2>2. h \in Window(image, root.rva + rel, 16) /\ g \in Window(image, root.rva + rel, 16)
    BY DEF HeaderAt
  <2>3. Total(h) \in Nat
    BY ImageFacts DEF Total
  <2> QED
    BY <2>1, <2>2, <2>3, WindowFacts
<1>2. ASSUME NEW rel \in Rel, NEW index \in Nat
      PROVE  Lead(rel, index) \subseteq Nat /\ \A x, y \in Lead(rel, index) : x = y
  <2>0. root.rva \in Nat /\ rel \in Nat
    BY <1>0
  <2>1. root.rva + rel + 16 + index * 8 \in Nat
    BY <2>0
  <2> QED
    BY <2>1, ImageFacts, WindowFacts DEF Lead
<1>3. ASSUME NEW lead \in Nat
      PROVE  DataAt(lead) \subseteq Nat /\ \A x, y \in DataAt(lead) : x = y
  <2>1. root.rva \in Nat /\ Target(lead) \in Nat
    BY ImageFacts, HighBitFacts
  <2> QED
    BY <2>1, WindowFacts DEF DataAt
<1> QED
  BY <1>1, <1>2, <1>3

(***************************************************************************)
(* What depends on the file alone stays as it is                           *)
(***************************************************************************)
LEMMA FileStays ==
  ASSUME UNCHANGED image
  PROVE  /\ \A rel : Opens(rel)' <=> Opens(rel)
         /\ \A rel : Indices(rel)' = Indices(rel)
         /\ \A rel, index : Lead(rel, index)' = Lead(rel, index)
         /\ \A lead : DataAt(lead)' = DataAt(lead)
         /\ \A rel : Address(rel)' = Address(rel)
         /\ \A rel, index, child : LeadsTo(rel, index, child)' <=> LeadsTo(rel, index, child)
         /\ \A rel, index, data : HasData(rel, index, data)' <=> HasData(rel, index, data)
<1>1. root' = root /\ image' = image
  BY DEF root
<1> QED
  BY <1>1 DEF Opens, Indices, Lead, DataAt, Address, LeadsTo, HasData, HeaderAt, ArrayFits, Total

(* Whether a table can be parsed is a matter of the file alone. *)
LEMMA UsableStays ==
  ASSUME UNCHANGED image
  PROVE  \A t : (Usable(t)' <=> Usable(t)) /\ (Present(image, t)' <=> Present(image, t))
BY DEF Usable, Present, Mapped, HeaderOf, TooManyExports, FunctionCount, NameCount, TLSHeader, TLSSize, dir

(* Entries have numbers. *)
LEMMA IndicesAreNumbers ==
  ASSUME IsImage(image), NEW rel \in Rel, NEW index \in Indices(rel)
  PROVE  index \in Nat /\ \E h \in HeaderAt(rel) : Total(h) \in Nat /\ index < Total(h)
<1>1. PICK h \in HeaderAt(rel) : index \in 0 .. (Total(h) - 1)
  BY DEF Indices
<1>2. Total(h) \in Nat
  BY EntryFacts
<1> QED
  BY <1>1, <1>2

(* A directory that was settled stays so, once its call has returned.      *)
LEMMA SettledStays ==
  ASSUME UNCHANGED image, visited \subseteq visited', faults \subseteq faults',
         at = "visit" => call' = call /\ Settled(call.rel)'
  PROVE  \A child : Settled(child) => Settled(child)'
<1>1. \A child : GivenUp(child) => GivenUp(child)'
  BY FileStays DEF GivenUp, fault
<1> QED
  BY <1>1 DEF Settled

(***************************************************************************)
(* The first state                                                         *)
(***************************************************************************)
LEMMA InitInv == InitResources => ResourcesInv
<1> SUFFICES ASSUME InitResources PROVE ResourcesInv
  OBVIOUS
<1>1. ResourcesTypeOK
  BY ResourcesAssumption, HighBitFacts DEF InitResources, ResourcesTypeOK, ParseStatus
<1> QED
  BY <1>1 DEF InitResources, ResourcesInv, ControlOK, PathsAreReal, ItemsAreReal, StackIsOfVisited,
     ItemsArePassed, EveryEntryOnce, PassedAreSettled, RootIsSettled

(***************************************************************************)
(* Calls that return at once                                               *)
(***************************************************************************)
Returns ==
  /\ at = "visit" /\ Return
  /\ UNCHANGED <<image, call, stack, items, treeStatus>>
  /\ visited \subseteq visited' /\ visited' \subseteq visited \cup {call.rel}
  /\ Opens(call.rel) => visited' = visited
  /\ faults \subseteq faults' /\ faults' \subseteq [code : FaultCode, address : Nat]
  /\ call.rel \in visited' \/ GivenUp(call.rel)'
  /\ nodes' \in Nat

LEMMA ReturnSteps ==
  ASSUME ResourcesTypeOK,
         TooDeep \/ TooMany \/ SeenBefore \/ HeaderMissing \/ ArrayOutside
  PROVE  Returns
<1>1. Address(call.rel) \in Nat /\ call.rel \in Rel
  <2>1. call.rel \in Rel /\ IsImage(image)
    BY DEF ResourcesTypeOK
  <2>2. root.rva \in Nat /\ call.rel \in Nat
    BY <2>1, ImageFacts, HighBitFacts
  <2> QED
    BY <2>1, <2>2, RvaAssumption DEF Address
<1>2. \A code \in FaultCode : fault(code, Address(call.rel)) \in [code : FaultCode, address : Nat]
  BY <1>1 DEF fault
<1>3. UNCHANGED <<image, call>> => Address(call.rel)' = Address(call.rel)
  BY FileStays
<1>4. nodes \in Nat
  BY DEF ResourcesTypeOK
<1>5. CASE TooDeep
  <2>1. GivenUp(call.rel)'
    BY <1>3, <1>5 DEF TooDeep, Complain, GivenUp
  <2>2. faults \subseteq faults' /\ faults' \subseteq [code : FaultCode, address : Nat]
    BY <1>2, <1>5 DEF TooDeep, Complain, FaultCode, ResourcesTypeOK
  <2> QED
    BY <1>4, <1>5, <2>1, <2>2 DEF TooDeep, Returns
<1>6. CASE TooMany
  <2>1. GivenUp(call.rel)'
    BY <1>3, <1>6 DEF TooMany, Complain, GivenUp
  <2>2. faults \subseteq faults' /\ faults' \subseteq [code : FaultCode, address : Nat]
    BY <1>2, <1>6 DEF TooMany, Complain, FaultCode, ResourcesTypeOK
  <2> QED
    BY <1>4, <1>6, <2>1, <2>2 DEF TooMany, Counted, Returns
<1>7. CASE SeenBefore
  <2>1. faults \subseteq faults' /\ faults' \subseteq [code : FaultCode, address : Nat]
    BY <1>2, <1>7 DEF SeenBefore, Complain, FaultCode, ResourcesTypeOK
  <2>2. visited' = visited /\ call' = call /\ call.rel \in visited'
    BY <1>7 DEF SeenBefore
  <2> QED
    BY <1>4, <1>7, <2>1, <2>2 DEF SeenBefore, Counted, Returns
<1>8. CASE HeaderMissing
  <2>1. ~Opens(call.rel)
    BY <1>8 DEF HeaderMissing, Opens
  <2>2. faults' = faults /\ faults \subseteq [code : FaultCode, address : Nat]
    BY <1>8 DEF HeaderMissing, ResourcesTypeOK
  <2> QED
    BY <1>4, <1>8, <2>1, <2>2 DEF HeaderMissing, FirstVisit, Counted, Returns
<1>9. CASE ArrayOutside
  <2>1. ~Opens(call.rel)
    BY <1>1, <1>9, EntryFacts DEF ArrayOutside, Opens, ResourcesTypeOK
  <2>2. faults \subseteq faults' /\ faults' \subseteq [code : FaultCode, address : Nat]
    BY <1>2, <1>9 DEF ArrayOutside, Complain, FaultCode, ResourcesTypeOK
  <2> QED
    BY <1>4, <1>9, <2>1, <2>2 DEF ArrayOutside, FirstVisit, Counted, Returns
<1> QED
  BY <1>5, <1>6, <1>7, <1>8, <1>9

LEMMA ReturnKeeps ==
  ASSUME ResourcesInv, Returns
  PROVE  ResourcesInv'
<1> USE DEF Returns
<1>1. ResourcesTypeOK'
  BY DEF ResourcesInv, ResourcesTypeOK, Return
<1>2. ControlOK'
  BY DEF Return, ControlOK
<1>3. PathsAreReal'
  BY FileStays DEF ResourcesInv, PathsAreReal, ArrivesAt, Return
<1>4. ItemsAreReal'
  BY FileStays DEF ResourcesInv, ItemsAreReal
<1>5. StackIsOfVisited' /\ ItemsArePassed' /\ EveryEntryOnce'
  BY DEF ResourcesInv, StackIsOfVisited, ItemsArePassed, EveryEntryOnce, Passed, LastLink
<1>6. \A child : Settled(child) => Settled(child)'
  BY SettledStays DEF Settled
<1>7. PassedAreSettled'
  <2> SUFFICES ASSUME NEW rel \in visited', Opens(rel)', NEW index \in Indices(rel)', Passed(rel, index)',
                      NEW lead \in Lead(rel, index)'
               PROVE  (IF IsDirectory(lead) THEN Settled(Target(lead))
                       ELSE \A data \in DataAt(lead) : IsReported(rel, index, data))'
    BY DEF PassedAreSettled
  <2>1. rel \in visited /\ Opens(rel) /\ index \in Indices(rel) /\ lead \in Lead(rel, index)
    BY FileStays
  <2>2. Passed(rel, index)
    BY DEF Passed
  <2>3. IF IsDirectory(lead) THEN Settled(Target(lead))
        ELSE \A data \in DataAt(lead) : IsReported(rel, index, data)
    BY <2>1, <2>2 DEF ResourcesInv, PassedAreSettled
  <2>4. DataAt(lead)' = DataAt(lead) /\ \A data : IsReported(rel, index, data) => IsReported(rel, index, data)'
    BY FileStays DEF IsReported, LastLink
  <2> QED
    BY <2>3, <2>4, <1>6
<1>8. RootIsSettled'
  BY <1>6 DEF ResourcesInv, RootIsSettled
<1> QED
  BY <1>1, <1>2, <1>3, <1>4, <1>5, <1>7, <1>8 DEF ResourcesInv

(***************************************************************************)
(* The loop over the entries                                               *)
(***************************************************************************)
(* The directory in hand is the last of the stack. *)
LEMMA TopFacts ==
  ASSUME ResourcesTypeOK, stack # <<>>
  PROVE  /\ Len(stack) \in DOMAIN stack /\ Len(stack) \in Nat \ {0}
         /\ top \in Frame /\ top.rel \in Rel /\ top.path \in Seq(Link) /\ top.next \in Nat
<1>1. stack \in Seq(Frame)
  BY DEF ResourcesTypeOK
<1>2. Len(stack) \in DOMAIN stack /\ Len(stack) \in Nat \ {0} /\ top \in Frame
  BY <1>1 DEF top
<1> QED
  BY <1>2 DEF Frame

(* The path of the entry in hand ends in it. *)
LEMMA ExtendedFacts ==
  ASSUME ResourcesTypeOK, stack # <<>>
  PROVE  /\ Extended \in Seq(Link) /\ Extended # <<>>
         /\ Len(Extended) = Len(top.path) + 1
         /\ \A k \in 1 .. Len(top.path) : Extended[k] = top.path[k]
         /\ Extended[Len(Extended)] = [dir |-> top.rel, index |-> top.next]
<1> DEFINE path == top.path
           link == [dir |-> top.rel, index |-> top.next]
<1>1. link \in Link /\ path \in Seq(Link)
  BY TopFacts DEF Link
<1>2. Extended = Append(path, link)
  BY DEF Extended
<1> HIDE DEF path, link
<1>3. /\ Extended \in Seq(Link) /\ Extended # <<>> /\ Len(Extended) = Len(path) + 1
      /\ \A k \in 1 .. Len(path) : Extended[k] = path[k]
      /\ Extended[Len(Extended)] = link
  BY <1>1, <1>2
<1> QED
  BY <1>3 DEF path, link

(* It is a path of the file as far as that entry. *)
LEMMA ExtendedIsReal ==
  ASSUME ResourcesTypeOK, stack # <<>>, PathsAreReal
  PROVE  /\ Extended[1].dir = 0
         /\ \A k \in 1 .. (Len(Extended) - 1) :
              LeadsTo(Extended[k].dir, Extended[k].index, Extended[k + 1].dir)
<1>1. ArrivesAt(top.path, top.rel)
  BY TopFacts DEF PathsAreReal, top
<1>2. CASE top.path = <<>>
  <2>1. top.rel = 0
    BY <1>1, <1>2 DEF ArrivesAt
  <2>2. Len(top.path) = 0
    BY <1>2
  <2>3. Len(Extended) = 1 /\ Extended[1] = [dir |-> top.rel, index |-> top.next]
    <3>1. Len(Extended) = Len(top.path) + 1 /\ Extended[Len(Extended)] = [dir |-> top.rel, index |-> top.next]
      BY ExtendedFacts
    <3>2. Len(Extended) = 1
      BY <2>2, <3>1
    <3> QED
      BY <3>1, <3>2
  <2> QED
    BY <2>1, <2>3
<1>3. CASE top.path # <<>>
  <2> DEFINE path == top.path
             l    == Len(path)
  <2>1. path \in Seq(Link) /\ l \in Nat \ {0}
    BY <1>3, TopFacts
  <2>2. /\ path[1].dir = 0
        /\ \A k \in 1 .. (l - 1) : LeadsTo(path[k].dir, path[k].index, path[k + 1].dir)
        /\ LeadsTo(path[l].dir, path[l].index, top.rel)
    BY <1>1, <1>3 DEF ArrivesAt
  <2>3. /\ Len(Extended) = l + 1 /\ \A k \in 1 .. l : Extended[k] = path[k]
        /\ Extended[l + 1].dir = top.rel
    BY ExtendedFacts
  <2> HIDE DEF path, l
  <2>4. Extended[1].dir = 0
    BY <2>1, <2>2, <2>3
  <2>5. ASSUME NEW k \in 1 .. l
        PROVE  LeadsTo(Extended[k].dir, Extended[k].index, Extended[k + 1].dir)
    <3>1. CASE k = l
      BY <2>1, <2>2, <2>3, <3>1
    <3>2. CASE k # l
      <4>1. k \in 1 .. (l - 1) /\ k + 1 \in 1 .. l
        BY <2>1, <2>5, <3>2
      <4> QED
        BY <2>2, <2>3, <4>1
    <3> QED
      BY <3>1, <3>2
  <2> QED
    BY <2>1, <2>3, <2>4, <2>5
<1> QED
  BY <1>2, <1>3

Advances ==
  /\ at = "entries" /\ stack' = Advanced
  /\ UNCHANGED <<image, visited, nodes, faults, treeStatus>>

(* Only the count of the directory in hand changes. *)
LEMMA AdvancedFacts ==
  ASSUME ResourcesTypeOK, stack # <<>>, stack' = Advanced
  PROVE  /\ stack' \in Seq(Frame) /\ stack' # <<>>
         /\ DOMAIN stack' = DOMAIN stack
         /\ \A d \in DOMAIN stack :
              /\ stack'[d].rel = stack[d].rel /\ stack'[d].path = stack[d].path
              /\ stack'[d].next = IF d = Len(stack) THEN stack[d].next + 1 ELSE stack[d].next
<1>1. stack \in Seq(Frame) /\ Len(stack) \in DOMAIN stack
  BY TopFacts DEF ResourcesTypeOK
<1>2. [top EXCEPT !.next = @ + 1] \in Frame
  BY TopFacts DEF Frame
<1>3. stack' = [stack EXCEPT ![Len(stack)] = [top EXCEPT !.next = @ + 1]]
  BY DEF Advanced, top
<1>4. \A d \in DOMAIN stack : stack[d] \in Frame
  BY <1>1
<1> QED
  BY <1>1, <1>2, <1>3, <1>4 DEF Frame, top

(* So that one more entry is passed. *)
LEMMA PassedFacts ==
  ASSUME ResourcesTypeOK, StackIsOfVisited, stack # <<>>, stack' = Advanced
  PROVE  /\ \A rel, index \in Nat : Passed(rel, index) => Passed(rel, index)'
         /\ \A rel, index \in Nat :
              Passed(rel, index)' => Passed(rel, index) \/ (rel = top.rel /\ index = top.next)
         /\ \A rel, index : rel = top.rel /\ index = top.next => Passed(rel, index)'
<1> DEFINE l == Len(stack)
<1>1. /\ \A d \in DOMAIN stack : stack[d].next \in Nat
      /\ l \in DOMAIN stack /\ top = stack[l] /\ top.next \in Nat
  <2>1. \A d \in DOMAIN stack : stack[d] \in Frame
    BY DEF ResourcesTypeOK
  <2> QED
    BY <2>1, TopFacts DEF Frame, top
<1>2. /\ DOMAIN stack' = DOMAIN stack
      /\ \A d \in DOMAIN stack : d # l => stack'[d].next = stack[d].next
      /\ stack'[l].next = stack[l].next + 1
      /\ \A d \in DOMAIN stack : stack'[d].rel = stack[d].rel
  BY <1>1, AdvancedFacts
<1>3. \A d \in DOMAIN stack : stack[d].rel = top.rel => d = l
  BY <1>1 DEF StackIsOfVisited
<1> HIDE DEF l
<1>4. ASSUME NEW rel, NEW index \in Nat, Passed(rel, index) PROVE Passed(rel, index)'
  <2> SUFFICES ASSUME NEW d \in DOMAIN stack, stack[d].rel = rel PROVE index < stack'[d].next
    BY <1>2 DEF Passed
  <2>1. index < stack[d].next
    BY <1>4 DEF Passed
  <2> QED
    BY <1>1, <1>2, <2>1
<1>5. ASSUME NEW rel, NEW index \in Nat, Passed(rel, index)', ~Passed(rel, index)
      PROVE  rel = top.rel /\ index = top.next
  <2>1. PICK d \in DOMAIN stack : stack[d].rel = rel /\ ~(index < stack[d].next)
    BY <1>5 DEF Passed
  <2>2. index < stack'[d].next
    BY <1>2, <1>5, <2>1 DEF Passed
  <2> QED
    BY <1>1, <1>2, <2>1, <2>2
<1>6. ASSUME NEW rel, NEW index, rel = top.rel, index = top.next PROVE Passed(rel, index)'
  <2> SUFFICES ASSUME NEW d \in DOMAIN stack, stack[d].rel = rel PROVE index < stack'[d].next
    BY <1>2 DEF Passed
  <2> QED
    BY <1>1, <1>2, <1>3, <1>6
<1> QED
  BY <1>4, <1>5, <1>6

(* What an entry of the loop leaves as it was, whatever the entry is; `new'*)
(* is what the step does for the entry in hand.                            *)
LEMMA AdvanceKeeps ==
  ASSUME ResourcesInv, Advances,
         \/ items' = items
         \/ \E data \in Nat : items' = Append(items, [path |-> Extended, data |-> data]),
         \A lead \in Lead(top.rel, top.next) :
           \A rel, index : rel = top.rel /\ index = top.next =>
             IF IsDirectory(lead) THEN Settled(Target(lead))'
             ELSE \A data \in DataAt(lead) : IsReported(rel, index, data)'
  PROVE  /\ StackIsOfVisited' /\ ItemsArePassed' /\ EveryEntryOnce'
         /\ PassedAreSettled' /\ RootIsSettled'
         /\ stack' \in Seq(Frame) /\ stack' # <<>>
         /\ items' \in Seq([path : Seq(Link), data : Nat])
<1>1. /\ ResourcesTypeOK /\ stack # <<>> /\ stack' = Advanced /\ StackIsOfVisited
      /\ at = "entries" /\ UNCHANGED <<image, visited, nodes, faults, treeStatus>>
  BY DEF ResourcesInv, ControlOK, Advances
<1>2. StackIsOfVisited'
  BY <1>1, AdvancedFacts DEF StackIsOfVisited
<1>3. /\ items' \in Seq([path : Seq(Link), data : Nat])
      /\ \A n \in DOMAIN items : n \in DOMAIN items' /\ items'[n] = items[n]
      /\ \A n \in DOMAIN items' : n \notin DOMAIN items => items'[n].path = Extended
  <2> DEFINE Item == [path : Seq(Link), data : Nat]
  <2>1. items \in Seq(Item)
    BY <1>1 DEF ResourcesTypeOK
  <2>2. items' = items \/ \E new \in Item : new.path = Extended /\ items' = Append(items, new)
    BY <1>1, ExtendedFacts
  <2> HIDE DEF Item
  <2>3. CASE items' = items
    BY <2>1, <2>3 DEF Item
  <2>4. ASSUME NEW new \in Item, new.path = Extended, items' = Append(items, new)
        PROVE  /\ items' \in Seq(Item)
               /\ \A n \in DOMAIN items : n \in DOMAIN items' /\ items'[n] = items[n]
               /\ \A n \in DOMAIN items' : n \notin DOMAIN items => items'[n] = new
    BY <2>1, <2>4
  <2> QED
    BY <2>2, <2>3, <2>4 DEF Item
<1>4. \A n \in DOMAIN items : n \in DOMAIN items' /\ items'[n] = items[n] /\ LastLink(n)' = LastLink(n)
  BY <1>3 DEF LastLink
<1>5. ASSUME NEW n \in DOMAIN items', n \notin DOMAIN items
      PROVE  n = Len(items) + 1 /\ LastLink(n)' = [dir |-> top.rel, index |-> top.next]
  <2>1. n = Len(items) + 1
    <3>1. PICK data \in Nat : items' = Append(items, [path |-> Extended, data |-> data])
      BY <1>5
    <3>2. items \in Seq([path : Seq(Link), data : Nat])
      BY <1>1 DEF ResourcesTypeOK
    <3> HIDE DEF Extended
    <3>3. DOMAIN items = 1 .. Len(items) /\ DOMAIN items' = 1 .. (Len(items) + 1) /\ Len(items) \in Nat
      BY <3>1, <3>2, <1>3
    <3> QED
      BY <3>3, <1>5
  <2>2. items'[n].path = Extended
    BY <1>3, <1>5
  <2> QED
    BY <1>1, <2>1, <2>2, ExtendedFacts DEF LastLink
<1>6. \A n \in DOMAIN items : LastLink(n).dir \in visited /\ Passed(LastLink(n).dir, LastLink(n).index)
  BY DEF ResourcesInv, ItemsArePassed
<1>7. \A n \in DOMAIN items : LastLink(n).dir \in Nat /\ LastLink(n).index \in Nat
  <2> SUFFICES ASSUME NEW n \in DOMAIN items PROVE LastLink(n) \in Link
    BY HighBitFacts DEF Link
  <2> DEFINE path == items[n].path
  <2>1. items \in Seq([path : Seq(Link), data : Nat])
    BY <1>1 DEF ResourcesTypeOK
  <2>2. path \in Seq(Link)
    <3> DEFINE Item == [path : Seq(Link), data : Nat]
    <3>1. \A item \in Item : item.path \in Seq(Link)
      OBVIOUS
    <3>2. items \in Seq(Item)
      BY <2>1
    <3> HIDE DEF Item
    <3>3. items[n] \in Item
      BY <3>2
    <3> QED
      BY <3>1, <3>3
  <2>3. path # <<>>
    BY DEF ResourcesInv, ItemsAreReal
  <2> HIDE DEF path
  <2>4. path[Len(path)] \in Link
    BY <2>2, <2>3
  <2> QED
    BY <2>4 DEF LastLink, path
<1>8. top.rel \in visited /\ top.rel \in Nat /\ top.next \in Nat /\ ~Passed(top.rel, top.next)
  <2>1. Len(stack) \in DOMAIN stack /\ top.rel \in Rel /\ top.next \in Nat
    BY <1>1, TopFacts
  <2>2. top = stack[Len(stack)]
    BY DEF top
  <2>3. top.rel \in visited
    BY <1>1, <2>1, <2>2 DEF StackIsOfVisited
  <2>4. ASSUME Passed(top.rel, top.next) PROVE FALSE
    <3>1. top.next < stack[Len(stack)].next
      BY <2>1, <2>2, <2>4 DEF Passed
    <3> QED
      BY <2>1, <2>2, <3>1
  <2> QED
    BY <2>1, <2>3, <2>4, HighBitFacts
<1>9. ItemsArePassed'
  <2> SUFFICES ASSUME NEW n \in DOMAIN items'
               PROVE  (LastLink(n).dir \in visited /\ Passed(LastLink(n).dir, LastLink(n).index))'
    BY DEF ItemsArePassed
  <2> DEFINE link == LastLink(n)'
  <2>1. CASE n \in DOMAIN items
    <3>1. link = LastLink(n) /\ link.dir \in visited /\ link.dir \in Nat /\ link.index \in Nat
          /\ Passed(LastLink(n).dir, LastLink(n).index)
      BY <1>4, <1>6, <1>7, <2>1
    <3> QED
      BY <1>1, <3>1, PassedFacts
  <2>2. CASE n \notin DOMAIN items
    <3>1. link = [dir |-> top.rel, index |-> top.next]
      BY <1>5, <2>2
    <3>2. link.dir = top.rel /\ link.index = top.next
      BY <3>1
    <3> QED
      BY <1>1, <1>8, <3>2, PassedFacts
  <2> QED
    BY <2>1, <2>2
<1>10. EveryEntryOnce'
  <2>1. \A m, n \in DOMAIN items : m # n => LastLink(m) # LastLink(n)
    BY DEF ResourcesInv, EveryEntryOnce, LastLink
  <2>2. \A n \in DOMAIN items : LastLink(n) # [dir |-> top.rel, index |-> top.next]
    BY <1>6, <1>8
  <2>3. ASSUME NEW m \in DOMAIN items', NEW n \in DOMAIN items', m # n
        PROVE  LastLink(m)' # LastLink(n)'
    BY <1>4, <1>5, <2>1, <2>2, <2>3
  <2> QED
    BY <2>3 DEF EveryEntryOnce, LastLink
<1>11. \A child : Settled(child) => Settled(child)'
  BY <1>1, SettledStays
<1>12. ASSUME NEW rel, NEW index, NEW data, IsReported(rel, index, data)
       PROVE  IsReported(rel, index, data)'
  BY <1>4, <1>12 DEF IsReported
<1>13. PassedAreSettled'
  <2> SUFFICES ASSUME NEW rel \in visited', Opens(rel)', NEW index \in Indices(rel)', Passed(rel, index)',
                      NEW lead \in Lead(rel, index)'
               PROVE  (IF IsDirectory(lead) THEN Settled(Target(lead))
                       ELSE \A data \in DataAt(lead) : IsReported(rel, index, data))'
    BY DEF PassedAreSettled
  <2>1. rel \in visited /\ Opens(rel) /\ index \in Indices(rel) /\ lead \in Lead(rel, index)
        /\ DataAt(lead)' = DataAt(lead)
    BY <1>1, FileStays
  <2>2. rel \in Nat /\ index \in Nat
    BY <1>1, <2>1, IndicesAreNumbers, HighBitFacts DEF ResourcesTypeOK
  <2>3. CASE Passed(rel, index)
    <3>1. IF IsDirectory(lead) THEN Settled(Target(lead))
          ELSE \A data \in DataAt(lead) : IsReported(rel, index, data)
      BY <2>1, <2>3 DEF ResourcesInv, PassedAreSettled
    <3> QED
      BY <1>11, <1>12, <2>1, <3>1
  <2>4. CASE rel = top.rel /\ index = top.next
    BY <2>1, <2>4
  <2> QED
    BY <1>1, <2>2, <2>3, <2>4, PassedFacts
<1>14. RootIsSettled'
  BY <1>1, <1>11 DEF ResourcesInv, RootIsSettled
<1> QED
  BY <1>1, <1>2, <1>3, <1>9, <1>10, <1>13, <1>14, AdvancedFacts

(* The directories in hand stay at the ends of their paths. *)
LEMMA AdvancePaths ==
  ASSUME ResourcesInv, Advances
  PROVE  \A d \in DOMAIN stack' : ArrivesAt(stack[d].path, stack[d].rel)'
<1>1. ResourcesTypeOK /\ stack # <<>> /\ stack' = Advanced /\ UNCHANGED image
  BY DEF ResourcesInv, ControlOK, Advances
<1> SUFFICES ASSUME NEW d \in DOMAIN stack' PROVE ArrivesAt(stack[d].path, stack[d].rel)'
  OBVIOUS
<1>2. d \in DOMAIN stack /\ stack'[d].rel = stack[d].rel /\ stack'[d].path = stack[d].path
  BY <1>1, AdvancedFacts
<1>3. ArrivesAt(stack[d].path, stack[d].rel)
  BY <1>2 DEF ResourcesInv, PathsAreReal
<1> QED
  BY <1>1, <1>2, <1>3, FileStays DEF ArrivesAt

(* An entry, or its data, that cannot be read. *)
LEMMA SkipKeeps ==
  ASSUME ResourcesInv, SkipEntry \/ SkipData
  PROVE  ResourcesInv'
<1>1. Advances /\ items' = items /\ UNCHANGED <<at, call>> /\ at = "entries"
  BY DEF SkipEntry, SkipData, MoreEntries, Advances
<1>2. ResourcesTypeOK /\ stack # <<>> /\ IsImage(image)
  BY <1>1 DEF ResourcesInv, ControlOK, ResourcesTypeOK
<1>3. ASSUME NEW lead \in Lead(top.rel, top.next)
      PROVE  ~IsDirectory(lead) /\ DataAt(lead) = {}
  <2>1. SkipData
    BY <1>3 DEF SkipEntry
  <2>2. top.rel \in Rel /\ top.next \in Nat
    BY <1>2, TopFacts
  <2> QED
    BY <1>2, <1>3, <2>1, <2>2, EntryFacts DEF SkipData
<1>4. /\ StackIsOfVisited' /\ ItemsArePassed' /\ EveryEntryOnce'
      /\ PassedAreSettled' /\ RootIsSettled'
      /\ stack' \in Seq(Frame) /\ stack' # <<>>
      /\ items' \in Seq([path : Seq(Link), data : Nat])
  BY <1>1, <1>3, AdvanceKeeps
<1>5. ResourcesTypeOK'
  BY <1>1, <1>2, <1>4 DEF ResourcesTypeOK, Advances
<1>6. ControlOK' /\ PathsAreReal'
  BY <1>1, <1>4, AdvancePaths DEF ControlOK, PathsAreReal
<1>7. ItemsAreReal'
  BY <1>1, FileStays DEF ResourcesInv, ItemsAreReal, Advances
<1> QED
  BY <1>4, <1>5, <1>6, <1>7 DEF ResourcesInv

(* The call for a directory that an entry leads to. *)
LEMMA EnterKeeps ==
  ASSUME ResourcesInv, EnterChild
  PROVE  ResourcesInv'
<1>1. Advances /\ items' = items /\ at' = "visit"
  BY DEF EnterChild, MoreEntries, Advances
<1>2. ResourcesTypeOK /\ stack # <<>> /\ IsImage(image) /\ PathsAreReal /\ UNCHANGED image
  BY <1>1 DEF ResourcesInv, ControlOK, ResourcesTypeOK, Advances
<1>3. PICK lead \in Lead(top.rel, top.next) :
        IsDirectory(lead) /\ call' = [rel |-> Target(lead), path |-> Extended]
  BY DEF EnterChild
<1>4. \A other \in Lead(top.rel, top.next) : other = lead
  BY <1>2, <1>3, TopFacts, EntryFacts
<1>5. lead \in Nat /\ Target(lead) \in Rel
  BY <1>2, <1>3, TopFacts, EntryFacts, HighBitFacts
<1>6. \A child : child = Target(lead) => Settled(child)'
  BY <1>1, <1>3 DEF Settled
<1>7. ASSUME NEW other \in Lead(top.rel, top.next)
      PROVE  IsDirectory(other) /\ Settled(Target(other))'
  <2>1. other = lead
    BY <1>4
  <2>2. Target(other)' = Target(other)
    BY DEF Target
  <2> QED
    BY <1>3, <1>6, <2>1, <2>2
<1>8. /\ StackIsOfVisited' /\ ItemsArePassed' /\ EveryEntryOnce'
      /\ PassedAreSettled' /\ RootIsSettled'
      /\ stack' \in Seq(Frame) /\ stack' # <<>>
      /\ items' \in Seq([path : Seq(Link), data : Nat])
  BY <1>1, <1>7, AdvanceKeeps
<1>9. call' \in [rel : Rel, path : Seq(Link)]
  BY <1>2, <1>3, <1>5, ExtendedFacts
<1>10. ResourcesTypeOK'
  BY <1>1, <1>2, <1>8, <1>9 DEF ResourcesTypeOK, Advances
<1>11. ArrivesAt(call.path, call.rel)'
  <2> DEFINE path == Extended
             rel  == Target(lead)
  <2>1. Extended[Len(Extended)] = [dir |-> top.rel, index |-> top.next] /\ Extended # <<>>
    BY <1>2, ExtendedFacts
  <2>2. LeadsTo(top.rel, top.next, rel)
    BY <1>3 DEF LeadsTo
  <2>3. /\ path # <<>> /\ path[1].dir = 0
        /\ \A k \in 1 .. (Len(path) - 1) : LeadsTo(path[k].dir, path[k].index, path[k + 1].dir)
        /\ LeadsTo(path[Len(path)].dir, path[Len(path)].index, rel)
    BY <1>2, <2>1, <2>2, ExtendedIsReal
  <2>4. call'.path = path /\ call'.rel = rel
    BY <1>3
  <2> HIDE DEF path, rel
  <2>5. ArrivesAt(path, rel)
    BY <2>3 DEF ArrivesAt
  <2>6. \A p, r : ArrivesAt(p, r) => ArrivesAt(p, r)'
    BY <1>2, FileStays DEF ArrivesAt
  <2> QED
    BY <2>4, <2>5, <2>6
<1>12. ControlOK' /\ PathsAreReal'
  BY <1>1, <1>8, <1>11, AdvancePaths DEF ControlOK, PathsAreReal
<1>13. ItemsAreReal'
  BY <1>1, <1>2, FileStays DEF ResourcesInv, ItemsAreReal
<1> QED
  BY <1>8, <1>10, <1>12, <1>13 DEF ResourcesInv

(* The item of an entry. *)
LEMMA ReportKeeps ==
  ASSUME ResourcesInv, ReportItem
  PROVE  ResourcesInv'
<1>1. Advances /\ UNCHANGED <<at, call>> /\ at = "entries"
  BY DEF ReportItem, MoreEntries, Advances
<1>2. ResourcesTypeOK /\ stack # <<>> /\ IsImage(image) /\ PathsAreReal /\ UNCHANGED image
  BY <1>1 DEF ResourcesInv, ControlOK, ResourcesTypeOK, Advances
<1>3a. PICK lead \in Lead(top.rel, top.next) :
        /\ ~IsDirectory(lead)
        /\ \E data \in DataAt(lead) : items' = Append(items, [path |-> Extended, data |-> data])
  BY DEF ReportItem
<1>3b. PICK data \in DataAt(lead) : items' = Append(items, [path |-> Extended, data |-> data])
  BY <1>3a
<1>3. ~IsDirectory(lead) /\ items' = Append(items, [path |-> Extended, data |-> data])
  BY <1>3a, <1>3b
<1>4. top.rel \in Rel /\ top.next \in Nat
  BY <1>2, TopFacts
<1>5. \A other \in Lead(top.rel, top.next) : other = lead
  BY <1>2, <1>3, <1>4, EntryFacts
<1>6. lead \in Nat /\ data \in Nat /\ \A d \in DataAt(lead) : d = data
  BY <1>2, <1>3, <1>4, EntryFacts
<1> DEFINE new  == [path |-> Extended, data |-> data]
           last == Len(items) + 1
<1>7. /\ last \in DOMAIN items' /\ items'[last] = new
      /\ \A n \in DOMAIN items' : IF n \in DOMAIN items THEN items'[n] = items[n] ELSE items'[n] = new
  <2> DEFINE Item == [path : Seq(Link), data : Nat]
  <2>1. items \in Seq(Item)
    BY <1>2 DEF ResourcesTypeOK
  <2>2. new \in Item /\ items' = Append(items, new)
    BY <1>2, <1>3, <1>6, ExtendedFacts
  <2> HIDE DEF Item, new
  <2> QED
    BY <2>1, <2>2
<1>8. new.path = Extended /\ new.data = data
  OBVIOUS
<1> HIDE DEF new, last
<1>9. Extended[Len(Extended)] = [dir |-> top.rel, index |-> top.next] /\ Extended # <<>>
  BY <1>2, ExtendedFacts
<1>10. \A rel, index : rel = top.rel /\ index = top.next => IsReported(rel, index, data)'
  <2> SUFFICES ASSUME NEW rel, NEW index, rel = top.rel, index = top.next
               PROVE  \E n \in DOMAIN items' : items'[n].data = data /\ LastLink(n)' = [dir |-> rel, index |-> index]
    BY DEF IsReported
  <2>1. \A n : items'[n] = new => LastLink(n)' = [dir |-> rel, index |-> index]
    BY <1>8, <1>9 DEF LastLink
  <2> QED
    BY <1>7, <1>8, <2>1
<1>11. ASSUME NEW other \in Lead(top.rel, top.next), NEW rel, NEW index, rel = top.rel, index = top.next
       PROVE  IF IsDirectory(other) THEN Settled(Target(other))'
              ELSE \A d \in DataAt(other) : IsReported(rel, index, d)'
  <2>1. other = lead
    BY <1>5
  <2>2. ~IsDirectory(other)
    BY <1>3, <2>1
  <2>3. \A d \in DataAt(other) : d = data
    BY <1>6, <2>1
  <2>4. ASSUME NEW d \in DataAt(other) PROVE IsReported(rel, index, d)'
    BY <1>10, <1>11, <2>3
  <2> QED
    BY <2>2, <2>4
<1>12. \E d \in Nat : items' = Append(items, [path |-> Extended, data |-> d])
  BY <1>3, <1>6
<1>13. /\ StackIsOfVisited' /\ ItemsArePassed' /\ EveryEntryOnce'
       /\ PassedAreSettled' /\ RootIsSettled'
       /\ stack' \in Seq(Frame) /\ stack' # <<>>
       /\ items' \in Seq([path : Seq(Link), data : Nat])
  BY <1>1, <1>11, <1>12, AdvanceKeeps
<1>14. ResourcesTypeOK'
  BY <1>1, <1>2, <1>13 DEF ResourcesTypeOK, Advances
<1>15. ControlOK' /\ PathsAreReal'
  BY <1>1, <1>13, AdvancePaths DEF ControlOK, PathsAreReal
<1>16. ItemsAreReal'
  <2> DEFINE Real(path, d) ==
               /\ path # <<>> /\ path[1].dir = 0
               /\ \A k \in 1 .. (Len(path) - 1) : LeadsTo(path[k].dir, path[k].index, path[k + 1].dir)
               /\ HasData(path[Len(path)].dir, path[Len(path)].index, d)
  <2>1. Real(Extended, data)
    <3>1. HasData(top.rel, top.next, data)
      BY <1>3 DEF HasData
    <3> QED
      BY <1>2, <1>9, <3>1, ExtendedIsReal
  <2>2. \A n \in DOMAIN items : Real(items[n].path, items[n].data)
    BY DEF ResourcesInv, ItemsAreReal
  <2>3. \A n \in DOMAIN items' : Real(items'[n].path, items'[n].data)
    <3> HIDE DEF Real
    <3> QED
      BY <1>7, <1>8, <2>1, <2>2
  <2>4. \A n \in DOMAIN items' : Real(items[n].path, items[n].data)'
    BY <1>2, <2>3, FileStays
  <2> QED
    BY <2>4 DEF ItemsAreReal
<1> QED
  BY <1>13, <1>14, <1>15, <1>16 DEF ResourcesInv

(***************************************************************************)
(* Directories are opened and closed                                       *)
(***************************************************************************)
LEMMA OpenKeeps ==
  ASSUME ResourcesInv, OpenDirectory
  PROVE  ResourcesInv'
<1>1. /\ at = "visit" /\ at' = "entries" /\ call.rel \notin visited
      /\ visited' = visited \cup {call.rel} /\ nodes' = nodes + 1
      /\ UNCHANGED <<image, call, items, faults, treeStatus>>
  BY DEF OpenDirectory, FirstVisit, Counted
<1>2. ResourcesTypeOK
  BY DEF ResourcesInv
<1> DEFINE frame == [rel |-> call.rel, path |-> call.path, next |-> 0]
           last  == Len(stack) + 1
<1>3. /\ frame \in Frame
      /\ frame.rel = call.rel /\ frame.path = call.path /\ frame.next = 0
  BY <1>2 DEF ResourcesTypeOK, Frame
<1>4. stack' = Append(stack, frame) /\ stack \in Seq(Frame)
  BY <1>2 DEF OpenDirectory, ResourcesTypeOK
<1> HIDE DEF frame
<1>5. /\ stack' \in Seq(Frame) /\ stack' # <<>>
      /\ DOMAIN stack \subseteq DOMAIN stack' /\ DOMAIN stack' = DOMAIN stack \cup {last}
      /\ \A d \in DOMAIN stack : stack'[d] = stack[d]
      /\ stack'[last] = frame /\ last \notin DOMAIN stack
  BY <1>3, <1>4
<1> HIDE DEF last
<1>6. ResourcesTypeOK' /\ ControlOK'
  BY <1>1, <1>2, <1>5 DEF ResourcesTypeOK, ControlOK
<1>7. PathsAreReal'
  <2>1. \A p, r : ArrivesAt(p, r) => ArrivesAt(p, r)'
    BY <1>1, FileStays DEF ArrivesAt
  <2>2. \A d \in DOMAIN stack' : ArrivesAt(stack'[d].path, stack'[d].rel)
    BY <1>1, <1>3, <1>5 DEF ResourcesInv, PathsAreReal
  <2>3. \A d \in DOMAIN stack' : ArrivesAt(stack[d].path, stack[d].rel)'
    BY <2>1, <2>2
  <2> QED
    BY <1>1, <2>3 DEF PathsAreReal
<1>8. ItemsAreReal' /\ EveryEntryOnce'
  BY <1>1, FileStays DEF ResourcesInv, ItemsAreReal, EveryEntryOnce
<1>9. StackIsOfVisited'
  <2>1. \A d \in DOMAIN stack : stack[d].rel \in visited /\ stack[d].rel # call.rel
    BY <1>1 DEF ResourcesInv, StackIsOfVisited
  <2>2. \A d, e \in DOMAIN stack : d # e => stack[d].rel # stack[e].rel
    BY DEF ResourcesInv, StackIsOfVisited
  <2> QED
    BY <1>1, <1>3, <1>5, <2>1, <2>2 DEF StackIsOfVisited
<1>10. \A rel, index : rel # call.rel => (Passed(rel, index) <=> Passed(rel, index)')
  BY <1>3, <1>5 DEF Passed
<1>11. ItemsArePassed'
  <2>1. ASSUME NEW n \in DOMAIN items
        PROVE  LastLink(n).dir \in visited /\ Passed(LastLink(n).dir, LastLink(n).index)'
    <3>1. LastLink(n).dir \in visited /\ Passed(LastLink(n).dir, LastLink(n).index)
      BY DEF ResourcesInv, ItemsArePassed
    <3>2. LastLink(n)' = LastLink(n)
      BY <1>1 DEF LastLink
    <3> QED
      BY <1>1, <1>10, <3>1, <3>2
  <2>2. \A n \in DOMAIN items : LastLink(n)' = LastLink(n)
    BY <1>1 DEF LastLink
  <2> QED
    BY <1>1, <2>1, <2>2 DEF ItemsArePassed
<1>12. \A child : Settled(child) => Settled(child)'
  BY <1>1, SettledStays DEF Settled
<1>13. PassedAreSettled'
  <2> SUFFICES ASSUME NEW rel \in visited', Opens(rel)', NEW index \in Indices(rel)', Passed(rel, index)',
                      NEW lead \in Lead(rel, index)'
               PROVE  (IF IsDirectory(lead) THEN Settled(Target(lead))
                       ELSE \A data \in DataAt(lead) : IsReported(rel, index, data))'
    BY DEF PassedAreSettled
  <2>1. /\ Opens(rel) /\ index \in Indices(rel) /\ lead \in Lead(rel, index)
        /\ DataAt(lead)' = DataAt(lead)
        /\ \A data : IsReported(rel, index, data) => IsReported(rel, index, data)'
    BY <1>1, FileStays DEF IsReported, LastLink
  <2>2. rel \in Rel /\ IsImage(image)
    BY <1>1, <1>2, <1>6 DEF ResourcesTypeOK
  <2>3. index \in Nat
    BY <2>1, <2>2, IndicesAreNumbers
  <2>4. rel # call.rel
    <3>1. rel = call.rel => index < 0
      BY <1>3, <1>5 DEF Passed
    <3> QED
      BY <2>3, <3>1
  <2>5. IF IsDirectory(lead) THEN Settled(Target(lead))
        ELSE \A data \in DataAt(lead) : IsReported(rel, index, data)
    BY <1>1, <1>10, <2>1, <2>4 DEF ResourcesInv, PassedAreSettled
  <2> QED
    BY <1>12, <2>1, <2>5
<1>14. RootIsSettled'
  BY <1>1, <1>12 DEF ResourcesInv, RootIsSettled
<1> QED
  BY <1>6, <1>7, <1>8, <1>9, <1>11, <1>13, <1>14 DEF ResourcesInv

LEMMA CloseKeeps ==
  ASSUME ResourcesInv, CloseDirectory
  PROVE  ResourcesInv'
<1>1. /\ at = "entries" /\ ~MoreEntries
      /\ stack' = SubSeq(stack, 1, Len(stack) - 1)
      /\ at' = IF Len(stack) = 1 THEN "walked" ELSE "entries"
      /\ UNCHANGED <<image, call, visited, nodes, items, faults, treeStatus>>
  BY DEF CloseDirectory
<1>2. ResourcesTypeOK /\ stack # <<>>
  BY <1>1 DEF ResourcesInv, ControlOK
<1>3. stack \in Seq(Frame) /\ Len(stack) \in DOMAIN stack
  BY <1>2, TopFacts DEF ResourcesTypeOK
<1>4. /\ stack' \in Seq(Frame)
      /\ DOMAIN stack' = DOMAIN stack \ {Len(stack)}
      /\ \A d \in DOMAIN stack' : stack'[d] = stack[d]
      /\ stack' = <<>> <=> Len(stack) = 1
  <2> DEFINE l == Len(stack)
  <2>1. l \in Nat \ {0} /\ DOMAIN stack = 1 .. l
    BY <1>3
  <2>2. stack' \in Seq(Frame)
    BY <1>1, <1>3, <2>1
  <2>3. Len(stack') = l - 1 /\ \A d \in 1 .. (l - 1) : stack'[d] = stack[d]
    BY <1>1, <1>3, <2>1
  <2>4. DOMAIN stack' = 1 .. (l - 1)
    BY <2>2, <2>3
  <2>5. stack' = <<>> <=> l - 1 = 0
    BY <2>2, <2>3
  <2> QED
    BY <2>1, <2>2, <2>3, <2>4, <2>5
<1>5. ResourcesTypeOK' /\ ControlOK'
  BY <1>1, <1>2, <1>4 DEF ResourcesTypeOK, ControlOK
<1>6. PathsAreReal'
  <2>1. \A p, r : ArrivesAt(p, r) => ArrivesAt(p, r)'
    BY <1>1, FileStays DEF ArrivesAt
  <2>2. \A d \in DOMAIN stack' : ArrivesAt(stack'[d].path, stack'[d].rel)
    BY <1>4 DEF ResourcesInv, PathsAreReal
  <2>3. \A d \in DOMAIN stack' : ArrivesAt(stack[d].path, stack[d].rel)'
    BY <2>1, <2>2
  <2> QED
    BY <1>1, <2>3 DEF PathsAreReal
<1>7. ItemsAreReal' /\ EveryEntryOnce'
  BY <1>1, FileStays DEF ResourcesInv, ItemsAreReal, EveryEntryOnce
<1>8. StackIsOfVisited'
  BY <1>1, <1>4 DEF ResourcesInv, StackIsOfVisited
<1>9. \A rel, index : Passed(rel, index) => Passed(rel, index)'
  BY <1>4 DEF Passed
<1>10. ItemsArePassed'
  <2>1. ASSUME NEW n \in DOMAIN items
        PROVE  LastLink(n).dir \in visited /\ Passed(LastLink(n).dir, LastLink(n).index)'
    <3>1. LastLink(n).dir \in visited /\ Passed(LastLink(n).dir, LastLink(n).index)
      BY DEF ResourcesInv, ItemsArePassed
    <3>2. LastLink(n)' = LastLink(n)
      BY <1>1 DEF LastLink
    <3> QED
      BY <1>9, <3>1, <3>2
  <2>2. \A n \in DOMAIN items : LastLink(n)' = LastLink(n)
    BY <1>1 DEF LastLink
  <2> QED
    BY <1>1, <2>1, <2>2 DEF ItemsArePassed
<1>11. \A child : Settled(child) => Settled(child)'
  BY <1>1, SettledStays
<1>12. PassedAreSettled'
  <2> SUFFICES ASSUME NEW rel \in visited', Opens(rel)', NEW index \in Indices(rel)', Passed(rel, index)',
                      NEW lead \in Lead(rel, index)'
               PROVE  (IF IsDirectory(lead) THEN Settled(Target(lead))
                       ELSE \A data \in DataAt(lead) : IsReported(rel, index, data))'
    BY DEF PassedAreSettled
  <2>1. /\ rel \in visited /\ Opens(rel) /\ index \in Indices(rel) /\ lead \in Lead(rel, index)
        /\ DataAt(lead)' = DataAt(lead)
        /\ \A data : IsReported(rel, index, data) => IsReported(rel, index, data)'
    BY <1>1, FileStays DEF IsReported, LastLink
  <2>2. rel \in Rel /\ IsImage(image)
    BY <1>2, <2>1 DEF ResourcesTypeOK
  <2>3. Passed(rel, index)
    <3> SUFFICES ASSUME NEW d \in DOMAIN stack, stack[d].rel = rel PROVE index < stack[d].next
      BY DEF Passed
    <3>1. CASE d # Len(stack)
      BY <1>4, <3>1 DEF Passed
    <3>2. CASE d = Len(stack)
      <4>1. PICK h \in HeaderAt(rel) : Total(h) \in Nat /\ index < Total(h) /\ index \in Nat
        BY <2>1, <2>2, IndicesAreNumbers
      <4>2. rel = top.rel /\ top.next = stack[d].next /\ top.next \in Nat
        BY <1>2, <3>2, TopFacts DEF top
      <4>3. ~(top.next < Total(h))
        BY <1>1, <4>1, <4>2 DEF MoreEntries
      <4> QED
        BY <4>1, <4>2, <4>3
    <3> QED
      BY <3>1, <3>2
  <2>4. IF IsDirectory(lead) THEN Settled(Target(lead))
        ELSE \A data \in DataAt(lead) : IsReported(rel, index, data)
    BY <2>1, <2>3 DEF ResourcesInv, PassedAreSettled
  <2> QED
    BY <1>11, <2>1, <2>4
<1>13. RootIsSettled'
  BY <1>1, <1>11 DEF ResourcesInv, RootIsSettled
<1> QED
  BY <1>5, <1>6, <1>7, <1>8, <1>10, <1>12, <1>13 DEF ResourcesInv

(***************************************************************************)
(* Before and after the walk                                               *)
(***************************************************************************)
LEMMA OutsideKeeps ==
  ASSUME ResourcesInv,
         NoResources \/ ResourcesUnmapped \/ BeginWalk \/ EndWalk \/ UNCHANGED resourceVars
  PROVE  ResourcesInv'
<1>1. UNCHANGED <<image, stack, visited, items>> /\ nodes' = nodes /\ faults \subseteq faults'
  BY DEF NoResources, ResourcesUnmapped, BeginWalk, EndWalk, resourceVars
<1>2. ResourcesTypeOK
  BY DEF ResourcesInv
<1>3. ASSUME ResourcesUnmapped
      PROVE  faults' \subseteq [code : FaultCode, address : Nat]
  <2>1. root.rva \in Nat
    BY <1>2, ImageFacts DEF ResourcesTypeOK
  <2> QED
    BY <1>2, <1>3, <2>1 DEF ResourcesUnmapped, fault, FaultCode, ResourcesTypeOK
<1>4. ResourcesTypeOK'
  <2>1. CASE ResourcesUnmapped
    BY <1>1, <1>2, <1>3, <2>1 DEF ResourcesUnmapped, End, ResourcesTypeOK, ParseStatus
  <2>2. CASE BeginWalk
    BY <1>1, <1>2, <2>2, HighBitFacts DEF BeginWalk, ResourcesTypeOK
  <2>3. CASE NoResources \/ EndWalk
    BY <1>1, <1>2, <2>3 DEF NoResources, EndWalk, End, ResourcesTypeOK, ParseStatus
  <2>4. CASE UNCHANGED resourceVars
    BY <1>1, <1>2, <2>4 DEF resourceVars, ResourcesTypeOK
  <2> QED
    BY <2>1, <2>2, <2>3, <2>4
<1>5. ControlOK'
  BY <1>1 DEF ResourcesInv, ControlOK, NoResources, ResourcesUnmapped, BeginWalk, EndWalk, End,
     resourceVars
<1>6. PathsAreReal'
  <2>1. \A p, r : ArrivesAt(p, r) => ArrivesAt(p, r)'
    BY <1>1, FileStays DEF ArrivesAt
  <2>2. \A d \in DOMAIN stack' : ArrivesAt(stack'[d].path, stack'[d].rel)
    BY <1>1 DEF ResourcesInv, PathsAreReal
  <2>3. \A d \in DOMAIN stack' : ArrivesAt(stack[d].path, stack[d].rel)'
    BY <2>1, <2>2
  <2>4. at' = "visit" => ArrivesAt(call'.path, call'.rel)
    BY DEF ResourcesInv, PathsAreReal, ArrivesAt, NoResources, ResourcesUnmapped, BeginWalk, EndWalk,
       End, resourceVars
  <2>5. at' = "visit" => ArrivesAt(call.path, call.rel)'
    BY <2>1, <2>4
  <2> QED
    BY <2>3, <2>5 DEF PathsAreReal
<1>7. ItemsAreReal' /\ EveryEntryOnce' /\ StackIsOfVisited'
  BY <1>1, FileStays DEF ResourcesInv, ItemsAreReal, EveryEntryOnce, StackIsOfVisited
<1>8. ItemsArePassed'
  BY <1>1 DEF ResourcesInv, ItemsArePassed, Passed, LastLink
<1>9. \A child : Settled(child) => Settled(child)'
  BY <1>1, SettledStays DEF NoResources, ResourcesUnmapped, BeginWalk, EndWalk, resourceVars, Settled,
     GivenUp, Address, root, fault
<1>10. PassedAreSettled'
  <2> SUFFICES ASSUME NEW rel \in visited', Opens(rel)', NEW index \in Indices(rel)', Passed(rel, index)',
                      NEW lead \in Lead(rel, index)'
               PROVE  (IF IsDirectory(lead) THEN Settled(Target(lead))
                       ELSE \A data \in DataAt(lead) : IsReported(rel, index, data))'
    BY DEF PassedAreSettled
  <2>1. /\ rel \in visited /\ Opens(rel) /\ index \in Indices(rel) /\ lead \in Lead(rel, index)
        /\ DataAt(lead)' = DataAt(lead)
        /\ \A data : IsReported(rel, index, data) => IsReported(rel, index, data)'
    BY <1>1, FileStays DEF IsReported, LastLink
  <2>2. Passed(rel, index)
    BY <1>1 DEF Passed
  <2>3. IF IsDirectory(lead) THEN Settled(Target(lead))
        ELSE \A data \in DataAt(lead) : IsReported(rel, index, data)
    BY <2>1, <2>2 DEF ResourcesInv, PassedAreSettled
  <2> QED
    BY <1>9, <2>1, <2>3
<1>11. RootIsSettled'
  <2>1. CASE BeginWalk
    BY <2>1 DEF BeginWalk, RootIsSettled, Settled
  <2>2. CASE ResourcesUnmapped \/ NoResources
    BY <1>1, <2>2 DEF ResourcesUnmapped, NoResources, RootIsSettled
  <2>3. CASE EndWalk \/ UNCHANGED resourceVars
    BY <1>1, <1>9, <2>3 DEF EndWalk, resourceVars, ResourcesInv, RootIsSettled
  <2> QED
    BY <2>1, <2>2, <2>3 DEF NoResources, ResourcesUnmapped, EndWalk
<1> QED
  BY <1>4, <1>5, <1>6, <1>7, <1>8, <1>10, <1>11 DEF ResourcesInv

(***************************************************************************)
(* Theorems                                                                *)
(***************************************************************************)
LEMMA ResourcesStep == ResourcesInv /\ [NextResources]_resourceVars => ResourcesInv'
<1> SUFFICES ASSUME ResourcesInv, [NextResources]_resourceVars PROVE ResourcesInv'
  OBVIOUS
<1>1. CASE TooDeep \/ TooMany \/ SeenBefore \/ HeaderMissing \/ ArrayOutside
  BY <1>1, ReturnSteps, ReturnKeeps DEF ResourcesInv
<1>2. CASE OpenDirectory
  BY <1>2, OpenKeeps
<1>3. CASE SkipEntry \/ SkipData
  BY <1>3, SkipKeeps
<1>4. CASE EnterChild
  BY <1>4, EnterKeeps
<1>5. CASE ReportItem
  BY <1>5, ReportKeeps
<1>6. CASE CloseDirectory
  BY <1>6, CloseKeeps
<1>7. CASE NoResources \/ ResourcesUnmapped \/ BeginWalk \/ EndWalk \/ UNCHANGED resourceVars
  BY <1>7, OutsideKeeps
<1> QED
  BY <1>1, <1>2, <1>3, <1>4, <1>5, <1>6, <1>7 DEF NextResources

LEMMA ResourcesInductive == SpecResources => []ResourcesInv
BY InitInv, ResourcesStep, PTL DEF SpecResources

(* The walk's variables have their types, whatever the file says. *)
THEOREM ResourcesTypeCorrect == SpecResources => []ResourcesTypeOK
<1>1. ResourcesInv => ResourcesTypeOK
  BY DEF ResourcesInv
<1> QED
  BY <1>1, ResourcesInductive, PTL

(* Every item that parse_resources() reports lies at the end of a path of  *)
(* entries of the file from the first directory on.                        *)
THEOREM ItemsCorrect == SpecResources => []ItemsAreReal
<1>1. ResourcesInv => ItemsAreReal
  BY DEF ResourcesInv
<1> QED
  BY <1>1, ResourcesInductive, PTL

(* No entry gives two items, however the directories of a file are linked. *)
THEOREM OnceCorrect == SpecResources => []EveryEntryOnce
<1>1. ResourcesInv => EveryEntryOnce
  BY DEF ResourcesInv
<1> QED
  BY <1>1, ResourcesInductive, PTL

(* A directory of the walk that has a header, but no room for its entries, *)
(* is complained of.                                                       *)
ArraysAreSaid ==
  \A rel \in visited :
    HeaderAt(rel) # {} /\ ~Opens(rel) => fault("PE_RESOURCE_ENTRY_RANGE", Address(rel)) \in faults

LEMMA ArraysStep ==
  ASSUME ArraysAreSaid, [NextResources]_resourceVars
  PROVE  ArraysAreSaid'
<1>1. image' = image
  BY DEF NextResources, resourceVars, NoResources, ResourcesUnmapped, BeginWalk, TooDeep, TooMany,
     SeenBefore, HeaderMissing, ArrayOutside, OpenDirectory, SkipEntry, EnterChild, SkipData, ReportItem,
     CloseDirectory, EndWalk
<1>2. faults \subseteq faults'
  BY DEF NextResources, resourceVars, NoResources, ResourcesUnmapped, BeginWalk, TooDeep, TooMany,
     SeenBefore, HeaderMissing, ArrayOutside, OpenDirectory, SkipEntry, EnterChild, SkipData, ReportItem,
     CloseDirectory, EndWalk, Complain
<1>3. \/ visited' = visited
      \/ visited' = visited \cup {call.rel} /\ (HeaderMissing \/ ArrayOutside \/ OpenDirectory)
  BY DEF NextResources, resourceVars, NoResources, ResourcesUnmapped, BeginWalk, TooDeep, TooMany,
     SeenBefore, HeaderMissing, ArrayOutside, OpenDirectory, FirstVisit, SkipEntry, EnterChild, SkipData,
     ReportItem, CloseDirectory, EndWalk
<1> SUFFICES ASSUME NEW rel \in visited', HeaderAt(rel) # {}, ~Opens(rel)
             PROVE  fault("PE_RESOURCE_ENTRY_RANGE", Address(rel)) \in faults'
  <2>1. \A r : /\ HeaderAt(r)' = HeaderAt(r) /\ (Opens(r)' <=> Opens(r))
               /\ fault("PE_RESOURCE_ENTRY_RANGE", Address(r))' = fault("PE_RESOURCE_ENTRY_RANGE", Address(r))
    BY <1>1, FileStays DEF HeaderAt, root, fault
  <2> QED
    BY <2>1 DEF ArraysAreSaid
<1>4. CASE rel \in visited
  BY <1>2, <1>4 DEF ArraysAreSaid
<1>5. CASE rel \notin visited
  <2>1. rel = call.rel /\ (HeaderMissing \/ ArrayOutside \/ OpenDirectory)
    BY <1>3, <1>5
  <2>2. ArrayOutside
    BY <2>1 DEF HeaderMissing, OpenDirectory, Opens
  <2> QED
    BY <2>1, <2>2 DEF ArrayOutside, Complain
<1> QED
  BY <1>4, <1>5

LEMMA ArraysInductive == SpecResources => []ArraysAreSaid
<1>1. InitResources => ArraysAreSaid
  BY DEF InitResources, ArraysAreSaid
<1>2. ArraysAreSaid /\ [NextResources]_resourceVars => ArraysAreSaid'
  BY ArraysStep
<1> QED
  BY <1>1, <1>2, PTL DEF SpecResources

(* At the end everything that can be read is in the report, but for the    *)
(* directories of which the walk complains.                                *)
LEMMA NothingLostFollows == ResourcesInv /\ ArraysAreSaid => NothingReadableIsLost
<1> SUFFICES ASSUME ResourcesInv, ArraysAreSaid, Walked PROVE
      /\ 0 \in visited \/ GivenUp(0)
      /\ \A rel \in visited :
           /\ HeaderAt(rel) # {} /\ ~Opens(rel) =>
                fault("PE_RESOURCE_ENTRY_RANGE", Address(rel)) \in faults
           /\ Opens(rel) =>
                \A index \in Indices(rel) : \A lead \in Lead(rel, index) :
                  IF IsDirectory(lead) THEN Target(lead) \in visited \/ GivenUp(Target(lead))
                  ELSE \A data \in DataAt(lead) : IsReported(rel, index, data)
  BY DEF NothingReadableIsLost, IsReported, LastLink
<1>1. at = "done" /\ stack = <<>>
  BY DEF Walked, ResourcesInv, ControlOK
<1>2. \A child : Settled(child) => child \in visited \/ GivenUp(child)
  BY <1>1 DEF Settled
<1>3. \A rel, index : Passed(rel, index)
  BY <1>1 DEF Passed
<1>4. 0 \in visited \/ GivenUp(0)
  BY <1>1, <1>2 DEF Walked, ResourcesInv, RootIsSettled
<1>5. ASSUME NEW rel \in visited, Opens(rel), NEW index \in Indices(rel), NEW lead \in Lead(rel, index)
      PROVE  IF IsDirectory(lead) THEN Target(lead) \in visited \/ GivenUp(Target(lead))
             ELSE \A data \in DataAt(lead) : IsReported(rel, index, data)
  BY <1>2, <1>3, <1>5 DEF ResourcesInv, PassedAreSettled
<1>6. \A rel \in visited : HeaderAt(rel) # {} /\ ~Opens(rel) =>
        fault("PE_RESOURCE_ENTRY_RANGE", Address(rel)) \in faults
  BY DEF ArraysAreSaid
<1> QED
  BY <1>4, <1>5, <1>6

(* Of what can be read in the file, and is reached from the first          *)
(* directory, all is in the report or under a complaint.                   *)
THEOREM NothingLostCorrect == SpecResources => []NothingReadableIsLost
BY NothingLostFollows, ResourcesInductive, ArraysInductive, PTL

(***************************************************************************)
(* Repeated directories                                                    *)
(***************************************************************************)
Begun == at # "start" /\ Present(image, "resource") /\ Mapped(image, "resource")

(* The walk came to `rel' by the entry, or is about to. *)
Taken(r, x, rel) ==
  r \in visited /\ Opens(r) /\ x \in Indices(r) /\ Passed(r, x) /\ LeadsTo(r, x, rel)

(* The ways by which the walk came to a directory: to the first one it     *)
(* comes also by no entry.                                                 *)
EntryWays(rel) ==
  UNION {{<<r, x>> : x \in {y \in Indices(r) : Taken(r, y, rel)}} : r \in visited}
FirstWay(rel) == IF rel = 0 /\ Begun THEN {<<0, -1>>} ELSE {}
Ways(rel) == EntryWays(rel) \cup FirstWay(rel)

(* That of the call that was made last. *)
PendingWay == IF stack = <<>> THEN <<0, -1>> ELSE <<top.rel, top.next - 1>>

Repeated(rel) == fault("PE_RESOURCE_CYCLE", Address(rel)) \in faults

Pending(rel) == at = "visit" /\ call.rel = rel

(* A directory was visited when the walk first came to it; who comes again *)
(* is sent away with a complaint, of this or of a limit.                   *)
RepeatsInv ==
  /\ at = "start" => visited = {}
  /\ \A d \in DOMAIN stack : Opens(stack[d].rel)
  /\ at = "visit" => PendingWay \in Ways(call.rel)
  /\ \A rel \in visited : \E w \in Ways(rel) : Pending(rel) => w # PendingWay
  /\ \A rel \in Rel : Repeated(rel) => \E v, w \in Ways(rel) : v # w
  /\ \A rel \in Rel : (\E v, w \in Ways(rel) : v # w) =>
       Repeated(rel) \/ GivenUp(rel) \/ (Pending(rel) /\ rel \in visited)

(* The sum in 32 bits tells the directories apart, which have 31. *)
LEMMA AddressesDiffer ==
  ASSUME IsImage(image)
  PROVE  \A a, b \in Rel : Address(a) = Address(b) => a = b
<1> DEFINE L == RvaLimit
           H == HighBit
           c == root.rva
<1>1. L \in Nat \ {0} /\ H \in Nat /\ 2 * H <= L
  <2>1. \A l \in Nat : 2 * (l \div 2) <= l /\ l \div 2 \in Nat
    OBVIOUS
  <2> QED
    BY <2>1, RvaAssumption DEF HighBit
<1>2. c \in 0 .. (L - 1)
  <2>1. image.directories["resource"] \in Directory
    BY DEF IsImage, Table
  <2> QED
    BY <2>1 DEF Directory, Rva, root
<1>3. Rel = 0 .. (H - 1) /\ \A rel : Address(rel) = (c + rel) % L
  BY DEF Rel, Address
<1> HIDE DEF L, H, c
<1>4. \A x \in Nat : x < L => x % L = x
  BY <1>1
<1>5. \A x \in Nat : x >= L /\ x < 2 * L => x % L = x - L
  BY <1>1
<1>6. \A x \in Nat : x < 2 * L => x % L = x \/ x % L = x - L
  <2> SUFFICES ASSUME NEW x \in Nat, x < 2 * L PROVE x % L = x \/ x % L = x - L
    OBVIOUS
  <2>1. CASE x < L
    BY <1>4, <2>1
  <2>2. CASE ~(x < L)
    <3>1. x >= L
      BY <1>1, <2>2
    <3> QED
      BY <1>5, <3>1
  <2> QED
    BY <2>1, <2>2
<1>7. ASSUME NEW a \in 0 .. (H - 1), NEW b \in 0 .. (H - 1), (c + a) % L = (c + b) % L
      PROVE  a = b
  <2> DEFINE x == c + a
             y == c + b
             r == x % L
             s == y % L
  <2>0. x \in Nat /\ x < 2 * L /\ y \in Nat /\ y < 2 * L
    BY <1>1, <1>2
  <2>1. (r = x \/ r = x - L) /\ (s = y \/ s = y - L)
    <3> HIDE DEF x, y
    <3> QED
      BY <1>6, <2>0
  <2>2. r = s
    BY <1>7
  <2> HIDE DEF r, s
  <2> QED
    BY <1>1, <1>2, <2>1, <2>2
<1> QED
  BY <1>3, <1>7

WaysAreTaken ==
  \A rel, w : w \in Ways(rel) <=> \/ \E r, x : Taken(r, x, rel) /\ w = <<r, x>>
                                  \/ rel = 0 /\ w = <<0, -1>> /\ Begun

LEMMA WaysFacts == WaysAreTaken
<1> SUFFICES ASSUME NEW rel, NEW w
             PROVE  w \in Ways(rel) <=> \/ \E r, x : Taken(r, x, rel) /\ w = <<r, x>>
                                        \/ rel = 0 /\ w = <<0, -1>> /\ Begun
  BY DEF WaysAreTaken
<1>1. w \in EntryWays(rel) <=> \E r, x : Taken(r, x, rel) /\ w = <<r, x>>
  <2>1. \A r, x : Taken(r, x, rel) => r \in visited /\ x \in Indices(r)
    BY DEF Taken
  <2> QED
    BY <2>1 DEF EntryWays
<1>2. w \in FirstWay(rel) <=> rel = 0 /\ w = <<0, -1>> /\ Begun
  <2>1. CASE rel = 0 /\ Begun
    BY <2>1 DEF FirstWay
  <2>2. CASE ~(rel = 0 /\ Begun)
    BY <2>2 DEF FirstWay
  <2> QED
    BY <2>1, <2>2
<1> QED
  BY <1>1, <1>2 DEF Ways

(* Where no more entries are taken, there are no more ways. *)
LEMMA WaysStay ==
  ASSUME Begun' <=> Begun, \A r, x, rel : Taken(r, x, rel)' <=> Taken(r, x, rel)
  PROVE  \A rel, w : w \in Ways(rel)' <=> w \in Ways(rel)
<1>1. WaysAreTaken'
  BY WaysFacts, PTL
<1> SUFFICES ASSUME NEW rel, NEW w PROVE w \in Ways(rel)' <=> w \in Ways(rel)
  OBVIOUS
<1>2. w \in Ways(rel) <=> \/ \E r, x : Taken(r, x, rel) /\ w = <<r, x>>
                          \/ rel = 0 /\ w = <<0, -1>> /\ Begun
  BY WaysFacts DEF WaysAreTaken
<1>3. w \in Ways(rel)' <=> \/ \E r, x : Taken(r, x, rel)' /\ w = <<r, x>>
                           \/ rel = 0 /\ w = <<0, -1>> /\ Begun'
  BY <1>1 DEF WaysAreTaken
<1> QED
  BY <1>2, <1>3

(* A step to no new way, whose call, if there is one, returns: a complaint *)
(* of a repeated directory is of that of the call.                         *)
LEMMA NoNewWay ==
  ASSUME ResourcesInv, RepeatsInv, UNCHANGED image,
         Begun' <=> Begun, \A r, x, rel : Taken(r, x, rel)' <=> Taken(r, x, rel),
         at' \notin {"start", "visit"},
         \A d \in DOMAIN stack' : Opens(stack'[d].rel),
         visited' \subseteq visited \cup (IF at = "visit" THEN {call.rel} ELSE {}),
         \A rel \in Rel : GivenUp(rel) => GivenUp(rel)',
         \A rel \in Rel : Repeated(rel) => Repeated(rel)',
         \A rel \in Rel : Repeated(rel)' => Repeated(rel) \/ (Pending(rel) /\ rel \in visited),
         \A rel \in Rel : Pending(rel) /\ rel \in visited => Repeated(rel)' \/ GivenUp(rel)'
  PROVE  RepeatsInv'
<1>1. \A rel, w : w \in Ways(rel)' <=> w \in Ways(rel)
  BY WaysStay
<1>2. \A d \in DOMAIN stack' : Opens(stack[d].rel)'
  BY FileStays
<1>3. ASSUME NEW rel \in visited' PROVE \E w \in Ways(rel)' : Pending(rel)' => w # PendingWay'
  <2>1. CASE rel \in visited
    BY <1>1, <2>1 DEF RepeatsInv, Pending
  <2>2. CASE at = "visit" /\ rel = call.rel
    BY <1>1, <2>2 DEF RepeatsInv, Pending
  <2> QED
    BY <2>1, <2>2
<1>4. ASSUME NEW rel \in Rel, Repeated(rel)' PROVE \E v, w \in Ways(rel)' : v # w
  <2>1. CASE Repeated(rel)
    BY <1>1, <2>1 DEF RepeatsInv
  <2>2. CASE Pending(rel) /\ rel \in visited
    BY <1>1, <2>2 DEF RepeatsInv, Pending
  <2> QED
    BY <1>4, <2>1, <2>2
<1>5. ASSUME NEW rel \in Rel, \E v, w \in Ways(rel)' : v # w
      PROVE  Repeated(rel)' \/ GivenUp(rel)'
  <2>1. \E v, w \in Ways(rel) : v # w
    BY <1>1, <1>5
  <2>2. Repeated(rel) \/ GivenUp(rel) \/ (Pending(rel) /\ rel \in visited)
    BY <1>5, <2>1 DEF RepeatsInv
  <2> QED
    BY <1>5, <2>2
<1>6. Rel' = Rel
  BY DEF Rel, HighBit
<1> QED
  BY <1>2, <1>3, <1>4, <1>5, <1>6 DEF RepeatsInv

(* What is complained of, and of which directory. *)
LEMMA ComplaintFacts ==
  ASSUME IsImage(image), UNCHANGED image, call.rel \in Rel,
         NEW code, Complain(code)
  PROVE  /\ \A rel \in Rel : Repeated(rel) => Repeated(rel)'
         /\ code # "PE_RESOURCE_CYCLE" => \A rel \in Rel : Repeated(rel)' => Repeated(rel)
         /\ \A rel \in Rel : Repeated(rel)' => Repeated(rel) \/ rel = call.rel
         /\ code = "PE_RESOURCE_CYCLE" => \A rel : rel = call.rel => Repeated(rel)'
         /\ \A rel \in Rel : GivenUp(rel) => GivenUp(rel)'
         /\ code \in {"PE_RESOURCE_DEPTH", "PE_RESOURCE_NODE_LIMIT"} =>
              \A rel : rel = call.rel => GivenUp(rel)'
<1>1. faults' = faults \cup {fault(code, Address(call.rel))}
  BY DEF Complain
<1>2. \A rel : Repeated(rel)' <=> fault("PE_RESOURCE_CYCLE", Address(rel)) \in faults'
  BY FileStays DEF Repeated, fault
<1>3. \A c, a, b : fault(c, a) = fault(code, b) => c = code /\ a = b
  BY DEF fault
<1>4. \A rel : Repeated(rel)' <=>
        Repeated(rel) \/ fault("PE_RESOURCE_CYCLE", Address(rel)) = fault(code, Address(call.rel))
  BY <1>1, <1>2 DEF Repeated
<1>5. \A rel \in Rel : Repeated(rel)' => Repeated(rel) \/ rel = call.rel
  BY <1>3, <1>4, AddressesDiffer
<1>6. code # "PE_RESOURCE_CYCLE" => \A rel : Repeated(rel)' => Repeated(rel)
  BY <1>3, <1>4
<1>7. code = "PE_RESOURCE_CYCLE" => \A rel : rel = call.rel => Repeated(rel)'
  BY <1>4
<1>8. \A rel : GivenUp(rel)' <=>
        \/ fault("PE_RESOURCE_DEPTH", Address(rel)) \in faults'
        \/ fault("PE_RESOURCE_NODE_LIMIT", Address(rel)) \in faults'
  BY FileStays DEF GivenUp, fault
<1>9. /\ \A rel : GivenUp(rel) => GivenUp(rel)'
      /\ code \in {"PE_RESOURCE_DEPTH", "PE_RESOURCE_NODE_LIMIT"} =>
           \A rel : rel = call.rel => GivenUp(rel)'
  BY <1>1, <1>8 DEF GivenUp
<1> QED
  BY <1>4, <1>5, <1>6, <1>7, <1>9

(* Where the stack and the file stay, so does what was taken. *)
LEMMA TakenStays ==
  ASSUME UNCHANGED <<image, stack>>,
         \A rel : rel \in visited' => rel \in visited \/ ~Opens(rel),
         visited \subseteq visited'
  PROVE  \A r, x, rel : Taken(r, x, rel)' <=> Taken(r, x, rel)
<1>1. \A r, x : Passed(r, x)' <=> Passed(r, x)
  BY DEF Passed
<1> QED
  BY <1>1, FileStays DEF Taken

LEMMA BegunStays ==
  ASSUME UNCHANGED image, at' = "start" <=> at = "start"
  PROVE  Begun' <=> Begun
BY UsableStays DEF Begun

(* A call that is given up, or that meets a directory again. *)
LEMMA ComplainKeepsRepeats ==
  ASSUME ResourcesInv, RepeatsInv, TooDeep \/ TooMany \/ SeenBefore
  PROVE  RepeatsInv'
<1>1. /\ at = "visit" /\ at' \in {"walked", "entries"}
      /\ UNCHANGED <<image, call, stack, visited>>
  BY DEF TooDeep, TooMany, SeenBefore, Counted, Return
<1>2. IsImage(image) /\ call.rel \in Rel
  BY DEF ResourcesInv, ResourcesTypeOK
<1>3. PICK code : /\ Complain(code)
                  /\ \/ code \in {"PE_RESOURCE_DEPTH", "PE_RESOURCE_NODE_LIMIT"}
                     \/ code = "PE_RESOURCE_CYCLE" /\ call.rel \in visited
  BY DEF TooDeep, TooMany, SeenBefore
<1>4. Begun' <=> Begun
  BY <1>1, BegunStays
<1>5. \A r, x, rel : Taken(r, x, rel)' <=> Taken(r, x, rel)
  BY <1>1, TakenStays
<1>6. /\ \A rel \in Rel : Repeated(rel) => Repeated(rel)'
      /\ \A rel \in Rel : Repeated(rel)' => Repeated(rel) \/ (Pending(rel) /\ rel \in visited)
  BY <1>1, <1>2, <1>3, ComplaintFacts DEF Pending
<1>7. /\ \A rel \in Rel : GivenUp(rel) => GivenUp(rel)'
      /\ \A rel \in Rel : Pending(rel) /\ rel \in visited => Repeated(rel)' \/ GivenUp(rel)'
  BY <1>1, <1>2, <1>3, ComplaintFacts DEF Pending
<1>8. \A d \in DOMAIN stack' : Opens(stack'[d].rel)
  BY <1>1 DEF RepeatsInv
<1> QED
  BY <1>1, <1>4, <1>5, <1>6, <1>7, <1>8, NoNewWay

(* A directory of which nothing is read. *)
LEMMA UnreadKeepsRepeats ==
  ASSUME ResourcesInv, RepeatsInv, HeaderMissing \/ ArrayOutside
  PROVE  RepeatsInv'
<1>1. /\ at = "visit" /\ at' \in {"walked", "entries"} /\ call.rel \notin visited
      /\ visited' = visited \cup {call.rel}
      /\ UNCHANGED <<image, call, stack>>
  BY DEF HeaderMissing, ArrayOutside, FirstVisit, Counted, Return
<1>2. IsImage(image) /\ call.rel \in Rel
  BY DEF ResourcesInv, ResourcesTypeOK
<1>3. ~Opens(call.rel)
  <2>1. \A h, g \in HeaderAt(call.rel) : h = g
    BY <1>2, EntryFacts
  <2> QED
    BY <2>1 DEF HeaderMissing, ArrayOutside, Opens
<1>4. Begun' <=> Begun
  BY <1>1, BegunStays
<1>5. \A r, x, rel : Taken(r, x, rel)' <=> Taken(r, x, rel)
  BY <1>1, <1>3, TakenStays
<1>6. /\ \A rel \in Rel : Repeated(rel)' <=> Repeated(rel)
      /\ \A rel \in Rel : GivenUp(rel) => GivenUp(rel)'
  <2>1. CASE HeaderMissing
    BY <1>1, <2>1, FileStays DEF HeaderMissing, Repeated, GivenUp, fault
  <2>2. CASE ArrayOutside
    BY <1>1, <1>2, <2>2, ComplaintFacts DEF ArrayOutside
  <2> QED
    BY <2>1, <2>2
<1>7. \A rel \in Rel : ~(Pending(rel) /\ rel \in visited)
  BY <1>1 DEF Pending
<1>8. \A d \in DOMAIN stack' : Opens(stack'[d].rel)
  BY <1>1 DEF RepeatsInv
<1> QED
  BY <1>1, <1>4, <1>5, <1>6, <1>7, <1>8, NoNewWay

(* The file's entries in hand. *)
LEMMA HandFacts ==
  ASSUME ResourcesInv, RepeatsInv, MoreEntries
  PROVE  /\ ResourcesTypeOK /\ StackIsOfVisited /\ stack # <<>> /\ at = "entries"
         /\ top.rel \in Rel /\ top.rel \in visited /\ Opens(top.rel)
         /\ top.next \in Indices(top.rel) /\ top.next \in Nat
         /\ ~Passed(top.rel, top.next)
<1>1. ResourcesTypeOK /\ StackIsOfVisited /\ stack # <<>> /\ at = "entries"
  BY DEF MoreEntries, ResourcesInv, ControlOK
<1>2. /\ Len(stack) \in DOMAIN stack /\ top = stack[Len(stack)]
      /\ top.rel \in Rel /\ top.next \in Nat
  BY <1>1, TopFacts DEF top
<1>3. top.rel \in visited /\ Opens(top.rel)
  BY <1>1, <1>2 DEF StackIsOfVisited, RepeatsInv
<1>4. top.next \in Indices(top.rel)
  <2>1. PICK h \in HeaderAt(top.rel) : top.next < Total(h)
    BY DEF MoreEntries
  <2>2. Total(h) \in Nat
    BY <1>1, <1>2, EntryFacts DEF ResourcesTypeOK
  <2>3. top.next \in 0 .. (Total(h) - 1)
    BY <1>2, <2>1, <2>2
  <2> QED
    BY <2>3 DEF Indices
<1>5. ~Passed(top.rel, top.next)
  <2>1. ~(top.next < top.next)
    BY <1>2
  <2> QED
    BY <1>2, <2>1 DEF Passed
<1> QED
  BY <1>1, <1>2, <1>3, <1>4, <1>5

(* It is taken next, if it leads to a directory. *)
LEMMA TakenNext ==
  ASSUME ResourcesInv, RepeatsInv, MoreEntries, stack' = Advanced, UNCHANGED <<image, visited>>
  PROVE  \A r, x, rel : Taken(r, x, rel)' <=>
           Taken(r, x, rel) \/ (r = top.rel /\ x = top.next /\ LeadsTo(r, x, rel))
<1> SUFFICES ASSUME NEW r, NEW x, NEW rel
             PROVE  Taken(r, x, rel)' <=>
                      Taken(r, x, rel) \/ (r = top.rel /\ x = top.next /\ LeadsTo(r, x, rel))
  OBVIOUS
<1>1. Taken(r, x, rel) <=>
        r \in visited /\ Opens(r) /\ x \in Indices(r) /\ Passed(r, x) /\ LeadsTo(r, x, rel)
  BY DEF Taken
<1>2. Taken(r, x, rel)' <=>
        r \in visited /\ Opens(r) /\ x \in Indices(r) /\ Passed(r, x)' /\ LeadsTo(r, x, rel)
  BY FileStays DEF Taken
<1>3. r \in visited /\ x \in Indices(r) =>
        (Passed(r, x)' <=> Passed(r, x) \/ (r = top.rel /\ x = top.next))
  <2>1. ASSUME r \in visited, x \in Indices(r) PROVE r \in Nat /\ x \in Nat
    BY <2>1, IndicesAreNumbers, HighBitFacts DEF ResourcesInv, ResourcesTypeOK
  <2>2. /\ \A p, e \in Nat : Passed(p, e) => Passed(p, e)'
        /\ \A p, e \in Nat : Passed(p, e)' => Passed(p, e) \/ (p = top.rel /\ e = top.next)
        /\ \A p, e : p = top.rel /\ e = top.next => Passed(p, e)'
    BY HandFacts, PassedFacts
  <2> QED
    BY <2>1, <2>2
<1>4. top.rel \in visited /\ Opens(top.rel) /\ top.next \in Indices(top.rel)
  BY HandFacts
<1> QED
  BY <1>1, <1>2, <1>3, <1>4

LEMMA PassKeepsRepeats ==
  ASSUME ResourcesInv, RepeatsInv, SkipEntry \/ SkipData \/ ReportItem
  PROVE  RepeatsInv'
<1>1. /\ MoreEntries /\ at = "entries" /\ at' = "entries" /\ stack' = Advanced
      /\ UNCHANGED <<image, visited, faults>>
  BY DEF SkipEntry, SkipData, ReportItem, MoreEntries
<1>2. \A rel : ~LeadsTo(top.rel, top.next, rel)
  <2>1. top.rel \in Rel /\ top.next \in Nat /\ IsImage(image)
    BY <1>1, HandFacts DEF ResourcesTypeOK
  <2>2. \A x, y \in Lead(top.rel, top.next) : x = y
    BY <2>1, EntryFacts
  <2> QED
    BY <2>2 DEF SkipEntry, SkipData, ReportItem, LeadsTo
<1>3. Begun' <=> Begun
  BY <1>1, BegunStays
<1>4. \A r, x, rel : Taken(r, x, rel)' <=> Taken(r, x, rel)
  BY <1>1, <1>2, TakenNext
<1>5. /\ \A rel \in Rel : Repeated(rel)' <=> Repeated(rel)
      /\ \A rel \in Rel : GivenUp(rel) => GivenUp(rel)'
  BY <1>1, FileStays DEF Repeated, GivenUp, fault
<1>6. \A rel \in Rel : ~Pending(rel)
  BY <1>1 DEF Pending
<1>7. \A d \in DOMAIN stack' : Opens(stack'[d].rel)
  BY <1>1, HandFacts, AdvancedFacts DEF RepeatsInv
<1> QED
  BY <1>1, <1>3, <1>4, <1>5, <1>6, <1>7, NoNewWay

LEMMA OpenKeepsRepeats ==
  ASSUME ResourcesInv, RepeatsInv, OpenDirectory
  PROVE  RepeatsInv'
<1>1. /\ at = "visit" /\ at' = "entries" /\ call.rel \notin visited
      /\ visited' = visited \cup {call.rel} /\ Opens(call.rel)
      /\ UNCHANGED <<image, call, faults>>
  BY DEF OpenDirectory, FirstVisit, Counted, Opens
<1>2. IsImage(image) /\ call.rel \in Rel /\ visited \subseteq Rel
  BY DEF ResourcesInv, ResourcesTypeOK
<1> DEFINE frame == [rel |-> call.rel, path |-> call.path, next |-> 0]
           last  == Len(stack) + 1
<1>3. /\ frame \in Frame /\ frame.rel = call.rel /\ frame.next = 0
  BY DEF ResourcesInv, ResourcesTypeOK, Frame
<1>4. stack' = Append(stack, frame) /\ stack \in Seq(Frame)
  BY DEF OpenDirectory, ResourcesInv, ResourcesTypeOK
<1> HIDE DEF frame
<1>5. /\ DOMAIN stack' = DOMAIN stack \cup {last}
      /\ \A d \in DOMAIN stack : stack'[d] = stack[d]
      /\ stack'[last] = frame /\ last \notin DOMAIN stack
  BY <1>3, <1>4
<1> HIDE DEF last
<1>6. \A d \in DOMAIN stack' : Opens(stack'[d].rel)
  BY <1>1, <1>3, <1>5 DEF RepeatsInv
<1>7. \A r, x : r # call.rel => (Passed(r, x)' <=> Passed(r, x))
  BY <1>3, <1>5 DEF Passed
<1>8. \A x \in Indices(call.rel) : \A r : r = call.rel => ~Passed(r, x)'
  <2> SUFFICES ASSUME NEW x \in Indices(call.rel), NEW r, r = call.rel, Passed(r, x)' PROVE FALSE
    OBVIOUS
  <2>1. x \in Nat
    BY <1>2, IndicesAreNumbers
  <2>2. x < 0
    BY <1>3, <1>5 DEF Passed
  <2> QED
    BY <2>1, <2>2
<1>9. \A r, x, rel : Taken(r, x, rel)' <=> Taken(r, x, rel)
  BY <1>1, <1>7, <1>8, FileStays DEF Taken
<1>10. Begun' <=> Begun
  BY <1>1, BegunStays
<1>11. /\ \A rel \in Rel : Repeated(rel)' <=> Repeated(rel)
       /\ \A rel \in Rel : GivenUp(rel) => GivenUp(rel)'
  BY <1>1, FileStays DEF Repeated, GivenUp, fault
<1>12. \A rel \in Rel : ~(Pending(rel) /\ rel \in visited)
  BY <1>1 DEF Pending
<1> QED
  BY <1>1, <1>6, <1>9, <1>10, <1>11, <1>12, NoNewWay

LEMMA CloseKeepsRepeats ==
  ASSUME ResourcesInv, RepeatsInv, CloseDirectory
  PROVE  RepeatsInv'
<1>1. /\ at = "entries" /\ ~MoreEntries
      /\ stack' = SubSeq(stack, 1, Len(stack) - 1)
      /\ at' \in {"walked", "entries"}
      /\ UNCHANGED <<image, call, visited, faults>>
  BY DEF CloseDirectory
<1>2. ResourcesTypeOK /\ stack # <<>> /\ StackIsOfVisited /\ IsImage(image) /\ visited \subseteq Rel
  BY <1>1 DEF ResourcesInv, ControlOK, ResourcesTypeOK
<1> DEFINE l == Len(stack)
<1>3. /\ DOMAIN stack' = DOMAIN stack \ {l}
      /\ \A d \in DOMAIN stack' : stack'[d] = stack[d]
      /\ l \in DOMAIN stack /\ stack[l] = top /\ top.rel \in Rel /\ top.next \in Nat
  <2>1. stack \in Seq(Frame) /\ l \in Nat \ {0} /\ l \in DOMAIN stack
    BY <1>2, TopFacts DEF ResourcesTypeOK
  <2>2. DOMAIN stack = 1 .. l /\ DOMAIN stack' = 1 .. (l - 1)
    BY <1>1, <2>1
  <2>3. \A d \in 1 .. (l - 1) : stack'[d] = stack[d]
    BY <1>1, <2>1
  <2> QED
    BY <1>2, <2>1, <2>2, <2>3, TopFacts DEF top
<1> HIDE DEF l
<1>4. \A d \in DOMAIN stack' : Opens(stack'[d].rel)
  BY <1>3 DEF RepeatsInv
<1>5. \A r \in visited : \A x \in Indices(r) : Passed(r, x)' <=> Passed(r, x)
  <2>1. \A r, x : Passed(r, x) => Passed(r, x)'
    BY <1>3 DEF Passed
  <2>2. ASSUME NEW r \in visited, NEW x \in Indices(r), Passed(r, x)' PROVE Passed(r, x)
    <3> SUFFICES ASSUME NEW d \in DOMAIN stack, stack[d].rel = r PROVE x < stack[d].next
      BY DEF Passed
    <3>1. CASE d # l
      BY <1>3, <2>2, <3>1 DEF Passed
    <3>2. CASE d = l
      <4>1. PICK h \in HeaderAt(r) : Total(h) \in Nat /\ x < Total(h) /\ x \in Nat
        BY <1>2, IndicesAreNumbers
      <4>2. ~(top.next < Total(h))
        BY <1>1, <1>3, <3>2, <4>1 DEF MoreEntries
      <4> QED
        BY <1>3, <3>2, <4>1, <4>2
    <3> QED
      BY <3>1, <3>2
  <2> QED
    BY <2>1, <2>2
<1>6. \A r, x, rel : Taken(r, x, rel)' <=> Taken(r, x, rel)
  BY <1>1, <1>5, FileStays DEF Taken
<1>7. Begun' <=> Begun
  BY <1>1, BegunStays
<1>8. /\ \A rel \in Rel : Repeated(rel)' <=> Repeated(rel)
      /\ \A rel \in Rel : GivenUp(rel) => GivenUp(rel)'
  BY <1>1, FileStays DEF Repeated, GivenUp, fault
<1>9. \A rel \in Rel : ~Pending(rel)
  BY <1>1 DEF Pending
<1> QED
  BY <1>1, <1>4, <1>6, <1>7, <1>8, <1>9, NoNewWay

(* Who was come to by an entry is settled, which the walk does not forget. *)
LEMMA TakenIsSettled ==
  ASSUME ResourcesInv
  PROVE  \A rel : (\E w : w \in Ways(rel)) => Settled(rel)
<1> SUFFICES ASSUME NEW rel, NEW w, w \in Ways(rel) PROVE Settled(rel)
  OBVIOUS
<1>1. CASE \E r, x : Taken(r, x, rel)
  <2>1. PICK r, x : Taken(r, x, rel)
    BY <1>1
  <2>2. PICK lead \in Lead(r, x) : IsDirectory(lead) /\ Target(lead) = rel
    BY <2>1 DEF Taken, LeadsTo
  <2> QED
    BY <2>1, <2>2 DEF Taken, ResourcesInv, PassedAreSettled
<1>2. CASE rel = 0 /\ Begun
  BY <1>2 DEF Begun, ResourcesInv, RootIsSettled
<1> QED
  BY <1>1, <1>2, WaysFacts DEF WaysAreTaken

LEMMA EnterKeepsRepeats ==
  ASSUME ResourcesInv, RepeatsInv, EnterChild
  PROVE  RepeatsInv'
<1> DEFINE way == <<top.rel, top.next>>
           child == call'.rel
<1>1. /\ MoreEntries /\ at = "entries" /\ at' = "visit" /\ stack' = Advanced
      /\ UNCHANGED <<image, visited, faults>>
  BY DEF EnterChild, MoreEntries
<1>2. \A rel : LeadsTo(top.rel, top.next, rel) <=> rel = child
  <2>1. top.rel \in Rel /\ top.next \in Nat /\ IsImage(image)
    BY <1>1, HandFacts DEF ResourcesTypeOK
  <2>2. \A x, y \in Lead(top.rel, top.next) : x = y
    BY <2>1, EntryFacts
  <2>3. PICK lead \in Lead(top.rel, top.next) : IsDirectory(lead) /\ child = Target(lead)
    BY DEF EnterChild
  <2> QED
    BY <2>2, <2>3 DEF LeadsTo
<1> HIDE DEF child
<1>3. Begun' <=> Begun
  BY <1>1, BegunStays
<1>4. \A rel, w : w \in Ways(rel)' <=> w \in Ways(rel) \/ (w = way /\ rel = child)
  <2> SUFFICES ASSUME NEW rel, NEW w
               PROVE  w \in Ways(rel)' <=> w \in Ways(rel) \/ (w = way /\ rel = child)
    OBVIOUS
  <2>1. WaysAreTaken'
    BY WaysFacts, PTL
  <2>2. w \in Ways(rel)' <=> \/ \E r, x : Taken(r, x, rel)' /\ w = <<r, x>>
                             \/ rel = 0 /\ w = <<0, -1>> /\ Begun'
    BY <2>1 DEF WaysAreTaken
  <2>3. w \in Ways(rel) <=> \/ \E r, x : Taken(r, x, rel) /\ w = <<r, x>>
                            \/ rel = 0 /\ w = <<0, -1>> /\ Begun
    BY WaysFacts DEF WaysAreTaken
  <2>4. \A r, x : Taken(r, x, rel)' <=>
          Taken(r, x, rel) \/ (r = top.rel /\ x = top.next /\ rel = child)
    BY <1>1, <1>2, TakenNext
  <2> QED
    BY <1>3, <2>2, <2>3, <2>4
<1>5. \A rel : way \notin Ways(rel)
  <2>1. \A rel : ~Taken(top.rel, top.next, rel)
    BY <1>1, HandFacts DEF Taken
  <2>2. top.next # -1
    <3>1. \A n \in Nat : n # -1
      OBVIOUS
    <3> QED
      BY <1>1, <3>1, HandFacts
  <2> QED
    BY <2>1, <2>2, WaysFacts DEF WaysAreTaken
<1>6. PendingWay' = way
  <2> DEFINE l == Len(stack)
  <2>1. /\ stack' # <<>> /\ DOMAIN stack' = DOMAIN stack
        /\ l \in DOMAIN stack /\ top = stack[l] /\ top.next \in Nat
        /\ stack'[l].rel = top.rel /\ stack'[l].next = top.next + 1
    BY <1>1, HandFacts, AdvancedFacts, TopFacts DEF top
  <2>2. Len(stack') = l
    <3>1. stack \in Seq(Frame) /\ stack' \in Seq(Frame)
      BY <1>1, HandFacts, AdvancedFacts DEF ResourcesTypeOK
    <3> QED
      BY <2>1, <3>1
  <2>3. top' = stack'[l]
    BY <2>2 DEF top
  <2> HIDE DEF l
  <2>4. PendingWay' = <<top'.rel, top'.next - 1>>
    BY <2>1 DEF PendingWay
  <2> QED
    BY <2>1, <2>3, <2>4
<1>7. \A rel : Pending(rel)' <=> rel = child
  BY <1>1 DEF Pending, child
<1>8. /\ \A rel : Repeated(rel)' <=> Repeated(rel)
      /\ \A rel : GivenUp(rel)' <=> GivenUp(rel)
  BY <1>1, FileStays DEF Repeated, GivenUp, fault
<1> HIDE DEF way
<1>9. \A d \in DOMAIN stack' : Opens(stack[d].rel)'
  BY <1>1, HandFacts, AdvancedFacts, FileStays DEF RepeatsInv
<1>10. PendingWay' \in Ways(call.rel)'
  <2>1. \A rel : rel = child => PendingWay' \in Ways(rel)'
    BY <1>4, <1>6
  <2>2. WaysAreTaken'
    BY WaysFacts, PTL
  <2>3. Ways(call.rel)' = Ways(call.rel)'
    OBVIOUS
  <2> QED
    BY <2>1 DEF child, Ways, EntryWays, FirstWay, Taken
<1>11. ASSUME NEW rel \in visited PROVE \E w \in Ways(rel)' : Pending(rel)' => w # PendingWay'
  <2>1. PICK w \in Ways(rel) : TRUE
    BY <1>11 DEF RepeatsInv
  <2> QED
    BY <1>4, <1>5, <1>6, <2>1
<1>12. ASSUME NEW rel \in Rel, Repeated(rel)' PROVE \E v, w \in Ways(rel)' : v # w
  BY <1>4, <1>8, <1>12 DEF RepeatsInv
<1>13. ASSUME NEW rel \in Rel, \E v, w \in Ways(rel)' : v # w
       PROVE  Repeated(rel)' \/ GivenUp(rel)' \/ (Pending(rel)' /\ rel \in visited)
  <2>1. CASE rel # child
    <3>1. \E v, w \in Ways(rel) : v # w
      BY <1>4, <1>13, <2>1
    <3>2. ~Pending(rel)
      BY <1>1 DEF Pending
    <3> QED
      BY <1>8, <1>13, <3>1, <3>2 DEF RepeatsInv
  <2>2. CASE rel = child /\ rel \notin visited
    <3>1. \E w : w \in Ways(rel)
      BY <1>4, <1>13
    <3>2. Settled(rel)
      BY <3>1, TakenIsSettled
    <3> QED
      BY <1>1, <1>8, <2>2, <3>2 DEF Settled
  <2>3. CASE rel = child /\ rel \in visited
    BY <1>7, <2>3
  <2> QED
    BY <2>1, <2>2, <2>3
<1>14. Rel' = Rel
  BY DEF Rel, HighBit
<1> QED
  BY <1>1, <1>9, <1>10, <1>11, <1>12, <1>13, <1>14 DEF RepeatsInv

LEMMA BeginKeepsRepeats ==
  ASSUME ResourcesInv, RepeatsInv, BeginWalk
  PROVE  RepeatsInv'
<1>1. /\ at = "start" /\ at' = "visit" /\ call'.rel = 0 /\ stack = <<>> /\ visited = {}
      /\ UNCHANGED <<image, stack, visited, faults>>
      /\ Present(image, "resource") /\ Mapped(image, "resource")
  BY DEF BeginWalk, RepeatsInv, ResourcesInv, ControlOK
<1>2. Begun' /\ ~Begun
  BY <1>1, UsableStays DEF Begun
<1>3. /\ \A rel : Ways(rel) = {}
      /\ \A rel, w : w \in Ways(rel)' <=> w = <<0, -1>> /\ rel = 0
  <2>1. \A r, x, rel : ~Taken(r, x, rel) /\ ~Taken(r, x, rel)'
    BY <1>1 DEF Taken
  <2>2. WaysAreTaken'
    BY WaysFacts, PTL
  <2> QED
    BY <1>2, <2>1, <2>2, WaysFacts DEF WaysAreTaken
<1>4. \A rel \in Rel : ~Repeated(rel) /\ ~Repeated(rel)'
  BY <1>1, <1>3, FileStays DEF RepeatsInv, Repeated, fault
<1>5. PendingWay' \in Ways(call.rel)'
  <2>1. PendingWay' = <<0, -1>>
    BY <1>1 DEF PendingWay
  <2>2. \A rel : rel = 0 => PendingWay' \in Ways(rel)'
    BY <1>3, <2>1
  <2> QED
    BY <1>1, <2>2 DEF Ways, EntryWays, FirstWay, Taken
<1>6. Rel' = Rel /\ DOMAIN stack' = {}
  BY <1>1 DEF Rel, HighBit
<1> QED
  BY <1>1, <1>3, <1>4, <1>5, <1>6 DEF RepeatsInv

LEMMA OutsideKeepsRepeats ==
  ASSUME ResourcesInv, RepeatsInv, NoResources \/ ResourcesUnmapped \/ EndWalk
  PROVE  RepeatsInv'
<1>1. /\ at' = "done" /\ at \in {"start", "walked"} /\ stack = <<>>
      /\ UNCHANGED <<image, call, stack, visited>>
  BY DEF NoResources, ResourcesUnmapped, EndWalk, End, ResourcesInv, ControlOK
<1>2. Begun' <=> Begun
  BY <1>1, UsableStays DEF Begun, NoResources, ResourcesUnmapped, EndWalk
<1>3. \A r, x, rel : Taken(r, x, rel)' <=> Taken(r, x, rel)
  BY <1>1, TakenStays
<1>4. /\ \A rel \in Rel : Repeated(rel)' <=> Repeated(rel)
      /\ \A rel \in Rel : GivenUp(rel) => GivenUp(rel)'
  <2>1. PICK c, a : /\ c = "PE_RESOURCE_DIRECTORY_RANGE"
                    /\ faults' = faults \/ faults' = faults \cup {fault(c, a)}
    BY DEF NoResources, ResourcesUnmapped, EndWalk
  <2> QED
    BY <1>1, <2>1, FileStays DEF Repeated, GivenUp, fault
<1>5. \A rel \in Rel : ~Pending(rel)
  BY <1>1 DEF Pending
<1>6. DOMAIN stack' = {}
  BY <1>1
<1> QED
  BY <1>1, <1>2, <1>3, <1>4, <1>5, <1>6, NoNewWay

LEMMA StutterKeepsRepeats ==
  ASSUME RepeatsInv, UNCHANGED resourceVars
  PROVE  RepeatsInv'
<1>1. UNCHANGED <<image, at, call, stack, visited, faults>>
  BY DEF resourceVars
<1>2. \A r, x : Passed(r, x)' <=> Passed(r, x)
  BY <1>1 DEF Passed
<1>3. \A r, x, rel : Taken(r, x, rel)' <=> Taken(r, x, rel)
  BY <1>1, <1>2, FileStays DEF Taken
<1>4. Begun' <=> Begun
  BY <1>1, BegunStays
<1>5. \A rel, w : w \in Ways(rel)' <=> w \in Ways(rel)
  BY <1>3, <1>4, WaysStay
<1>6. /\ \A rel : (Opens(rel)' <=> Opens(rel)) /\ (Repeated(rel)' <=> Repeated(rel))
      /\ \A rel : Pending(rel)' <=> Pending(rel)
      /\ (\A rel : GivenUp(rel)' <=> GivenUp(rel)) /\ PendingWay' = PendingWay /\ Rel' = Rel
  BY <1>1, FileStays DEF Repeated, Pending, GivenUp, PendingWay, top, Rel, HighBit, fault
<1>7. Ways(call.rel)' = Ways(call.rel)
  <2>1. Indices(0)' = Indices(0)
    BY <1>1, FileStays
  <2> QED
    BY <1>1, <1>3, <1>4, FileStays DEF Ways, EntryWays, FirstWay
<1>8. \A d \in DOMAIN stack' : Opens(stack[d].rel)'
  BY <1>1, <1>6, FileStays DEF RepeatsInv
<1>9. \A rel \in visited : \E w \in Ways(rel)' : Pending(rel)' => w # PendingWay'
  BY <1>5, <1>6 DEF RepeatsInv
<1>10. \A rel \in Rel : Repeated(rel)' => \E v, w \in Ways(rel)' : v # w
  BY <1>5, <1>6 DEF RepeatsInv
<1>11. \A rel \in Rel : (\E v, w \in Ways(rel)' : v # w) =>
         Repeated(rel)' \/ GivenUp(rel)' \/ (Pending(rel)' /\ rel \in visited)
  BY <1>5, <1>6 DEF RepeatsInv
<1>12. /\ at' = "start" => visited' = {}
       /\ at' = "visit" => PendingWay' \in Ways(call.rel)'
  BY <1>1, <1>6, <1>7 DEF RepeatsInv
<1> QED
  BY <1>1, <1>6, <1>8, <1>9, <1>10, <1>11, <1>12 DEF RepeatsInv

LEMMA RepeatsInductive == SpecResources => []RepeatsInv
<1>1. InitResources => RepeatsInv
  <2> SUFFICES ASSUME InitResources PROVE RepeatsInv
    OBVIOUS
  <2>1. at = "start" /\ visited = {} /\ stack = <<>> /\ faults = {}
    BY DEF InitResources
  <2>2. \A rel : Ways(rel) = {}
    BY <2>1, WaysFacts DEF WaysAreTaken, Taken, Begun
  <2> QED
    BY <2>1, <2>2 DEF RepeatsInv, Repeated
<1>2. ResourcesInv /\ RepeatsInv /\ [NextResources]_resourceVars => RepeatsInv'
  <2> SUFFICES ASSUME ResourcesInv, RepeatsInv, [NextResources]_resourceVars PROVE RepeatsInv'
    OBVIOUS
  <2>1. CASE TooDeep \/ TooMany \/ SeenBefore
    BY <2>1, ComplainKeepsRepeats
  <2>2. CASE HeaderMissing \/ ArrayOutside
    BY <2>2, UnreadKeepsRepeats
  <2>3. CASE OpenDirectory
    BY <2>3, OpenKeepsRepeats
  <2>4. CASE SkipEntry \/ SkipData \/ ReportItem
    BY <2>4, PassKeepsRepeats
  <2>5. CASE EnterChild
    BY <2>5, EnterKeepsRepeats
  <2>6. CASE CloseDirectory
    BY <2>6, CloseKeepsRepeats
  <2>7. CASE BeginWalk
    BY <2>7, BeginKeepsRepeats
  <2>8. CASE NoResources \/ ResourcesUnmapped \/ EndWalk
    BY <2>8, OutsideKeepsRepeats
  <2>9. CASE UNCHANGED resourceVars
    BY <2>9, StutterKeepsRepeats
  <2> QED
    BY <2>1, <2>2, <2>3, <2>4, <2>5, <2>6, <2>7, <2>8, <2>9 DEF NextResources
<1> QED
  BY <1>1, <1>2, ResourcesInductive, PTL DEF SpecResources

LEMMA RepeatsFollow == ResourcesInv /\ RepeatsInv => RepeatsAreReported
<1> SUFFICES ASSUME ResourcesInv, RepeatsInv, Walked, NEW rel \in Rel
             PROVE  LET links == UNION {{<<r, index>> : index \in {x \in Indices(r) : LeadsTo(r, x, rel)}} :
                                          r \in {v \in visited : Opens(v)}}
                        ways  == links \cup {<<rel, -1>> : x \in {0} \cap {rel}}
                    IN  /\ Repeated(rel) => \E v, w \in ways : v # w
                        /\ (\E v, w \in ways : v # w) => Repeated(rel) \/ GivenUp(rel)
  BY DEF RepeatsAreReported, Repeated, Rel
<1> DEFINE links == UNION {{<<r, index>> : index \in {x \in Indices(r) : LeadsTo(r, x, rel)}} :
                             r \in {v \in visited : Opens(v)}}
           first == {<<rel, -1>> : x \in {0} \cap {rel}}
<1>1. stack = <<>> /\ at = "done" /\ Begun
  BY DEF Walked, ResourcesInv, ControlOK, Begun
<1>2. \A r, x : Taken(r, x, rel) <=> r \in visited /\ Opens(r) /\ x \in Indices(r) /\ LeadsTo(r, x, rel)
  BY <1>1 DEF Taken, Passed
<1>3. \A w : w \in links <=> \E r, x : Taken(r, x, rel) /\ w = <<r, x>>
  BY <1>2
<1>4. \A w : w \in first <=> rel = 0 /\ w = <<0, -1>>
  OBVIOUS
<1> HIDE DEF links, first
<1>5. \A w : w \in links \cup first <=> w \in Ways(rel)
  BY <1>1, <1>3, <1>4, WaysFacts DEF WaysAreTaken
<1>6. /\ Repeated(rel) => \E v, w \in Ways(rel) : v # w
      /\ (\E v, w \in Ways(rel) : v # w) => Repeated(rel) \/ GivenUp(rel)
  BY <1>1 DEF RepeatsInv, Pending
<1>7. /\ Repeated(rel) => \E v, w \in links \cup first : v # w
      /\ (\E v, w \in links \cup first : v # w) => Repeated(rel) \/ GivenUp(rel)
  BY <1>5, <1>6
<1> QED
  BY <1>7 DEF links, first

(* A complaint of a "cycle" is made only of directories that the walk      *)
(* comes to by more than one way, and of all of these but those of which   *)
(* it complains that they were given up at a limit.                        *)
THEOREM RepeatsCorrect == SpecResources => []RepeatsAreReported
BY RepeatsFollow, RepeatsInductive, ResourcesInductive, PTL

(***************************************************************************)
(* The walk cannot go on for ever, whatever loops the directories form:    *)
(* what is left to do, the first number counting most.  A directory is     *)
(* entered once; one that is closed leaves fewer in hand; each turn of the *)
(* loop leaves fewer entries; and a call that is sent away just returns.   *)
(***************************************************************************)
WalkStage == [start |-> 3, visit |-> 2, entries |-> 2, walked |-> 1, done |-> 0][at]
Unvisited == Rel \ visited
EntriesLeft == IF stack = <<>> THEN {} ELSE {x \in Indices(top.rel) : x >= top.next}
CallsLeft == IF at = "visit" THEN 1 ELSE 0

WalkIsFinite ==
  /\ WalkStage \in Nat /\ IsFiniteSet(Unvisited) /\ Cardinality(Unvisited) \in Nat
  /\ Len(stack) \in Nat /\ CallsLeft \in Nat
  /\ IsFiniteSet(EntriesLeft) /\ Cardinality(EntriesLeft) \in Nat

LessOfWalk ==
  \/ WalkStage' < WalkStage
  \/ /\ WalkStage' = WalkStage
     /\ \/ Cardinality(Unvisited') < Cardinality(Unvisited)
        \/ /\ Unvisited' = Unvisited
           /\ \/ Len(stack') < Len(stack)
              \/ /\ Len(stack') = Len(stack)
                 /\ \/ Cardinality(EntriesLeft') < Cardinality(EntriesLeft)
                    \/ EntriesLeft' = EntriesLeft /\ CallsLeft' < CallsLeft

(* The stage is a matter of `at'. *)
LEMMA StageFacts ==
  /\ at = "start" => WalkStage = 3
  /\ at \in {"visit", "entries"} => WalkStage = 2
  /\ at = "walked" => WalkStage = 1
  /\ at = "done" => WalkStage = 0
  /\ at' \in {"visit", "entries"} => WalkStage' = 2
  /\ at' = "walked" => WalkStage' = 1
  /\ at' = "done" => WalkStage' = 0
BY DEF WalkStage

LEMMA WalkFinite ==
  ASSUME ResourcesTypeOK
  PROVE  WalkIsFinite
<1>0. IsImage(image) /\ stack \in Seq(Frame)
  BY DEF ResourcesTypeOK
<1>1. \A m, n \in Int : IsFiniteSet(m .. n)
  BY FS_Interval
<1>2. IsFiniteSet(Unvisited)
  <2>1. IsFiniteSet(Rel)
    BY <1>1, HighBitFacts DEF Rel
  <2> QED
    BY <2>1, FS_Subset DEF Unvisited
<1>3. IsFiniteSet(EntriesLeft)
  <2>1. CASE stack = <<>>
    BY <2>1, FS_EmptySet DEF EntriesLeft
  <2>2. CASE stack # <<>>
    <3>1. top.rel \in Rel
      BY <2>2, TopFacts
    <3>2. EntriesLeft \subseteq Indices(top.rel)
      BY <2>2 DEF EntriesLeft
    <3>3. IsFiniteSet(Indices(top.rel))
      <4>1. CASE HeaderAt(top.rel) = {}
        <5>1. Indices(top.rel) = {}
          BY <4>1 DEF Indices
        <5> QED
          BY <5>1, FS_EmptySet
      <4>2. CASE HeaderAt(top.rel) # {}
        <5>1. PICK h \in HeaderAt(top.rel) : TRUE
          BY <4>2
        <5>2. Total(h) \in Nat /\ \A g \in HeaderAt(top.rel) : g = h
          BY <1>0, <3>1, <5>1, EntryFacts
        <5>3. Indices(top.rel) = 0 .. (Total(h) - 1)
          BY <5>1, <5>2 DEF Indices
        <5>4. 0 \in Int /\ Total(h) - 1 \in Int
          BY <5>2
        <5> QED
          BY <1>1, <5>3, <5>4
      <4> QED
        BY <4>1, <4>2
    <3> QED
      BY <3>2, <3>3, FS_Subset
  <2> QED
    BY <2>1, <2>2
<1>4. WalkStage \in Nat /\ CallsLeft \in Nat /\ Len(stack) \in Nat
  BY <1>0, StageFacts DEF ResourcesTypeOK, CallsLeft
<1> QED
  BY <1>2, <1>3, <1>4, FS_CardinalityType DEF WalkIsFinite

(* A first visit is one directory less to be visited. *)
LEMMA VisitIsLess ==
  ASSUME ResourcesTypeOK, FirstVisit
  PROVE  Cardinality(Unvisited') < Cardinality(Unvisited)
<1>1. call.rel \in Unvisited /\ Unvisited' = Unvisited \ {call.rel}
  <2>1. call.rel \in Rel
    BY DEF ResourcesTypeOK
  <2> QED
    BY <2>1 DEF FirstVisit, Unvisited, Rel, HighBit
<1>2. IsFiniteSet(Unvisited)
  BY WalkFinite DEF WalkIsFinite
<1>3. Cardinality(Unvisited \ {call.rel}) = Cardinality(Unvisited) - 1 /\ Cardinality(Unvisited) \in Nat
  BY <1>1, <1>2, FS_RemoveElement, FS_CardinalityType
<1> QED
  BY <1>1, <1>3

(* The loop goes on to the next entry. *)
LEMMA AdvanceIsLess ==
  ASSUME ResourcesTypeOK, ControlOK, MoreEntries, stack' = Advanced,
         at' \in {"visit", "entries"}, UNCHANGED <<image, visited>>
  PROVE  LessOfWalk
<1>1. stack # <<>> /\ at = "entries"
  BY DEF ControlOK, MoreEntries
<1>2. /\ top.rel \in Rel /\ top.next \in Nat /\ Len(stack) \in DOMAIN stack /\ Len(stack) \in Nat
      /\ stack \in Seq(Frame) /\ IsImage(image)
  BY <1>1, TopFacts DEF ResourcesTypeOK
<1>3. /\ stack' # <<>> /\ Len(stack') = Len(stack)
      /\ top' = stack'[Len(stack)]
  <2>1. stack' \in Seq(Frame) /\ stack' # <<>> /\ DOMAIN stack' = DOMAIN stack
    BY <1>1, AdvancedFacts
  <2>2. Len(stack') = Len(stack)
    BY <1>2, <2>1
  <2> QED
    BY <2>1, <2>2 DEF top
<1>4. top'.rel = top.rel /\ top'.next = top.next + 1
  BY <1>1, <1>2, <1>3, AdvancedFacts DEF top
<1>5. Indices(top.rel)' = Indices(top'.rel) /\ Indices(top'.rel) = Indices(top.rel)
  BY <1>4, FileStays DEF Indices, HeaderAt, Total, root
<1>6. \A x \in Indices(top.rel) : x \in Nat
  BY <1>2, IndicesAreNumbers
<1>7. top.next \in Indices(top.rel)
  <2>1. PICK h \in HeaderAt(top.rel) : top.next < Total(h)
    BY DEF MoreEntries
  <2>2. Total(h) \in Nat
    BY <1>2, EntryFacts
  <2> QED
    BY <1>2, <2>1, <2>2 DEF Indices
<1>8. EntriesLeft' = EntriesLeft \ {top.next} /\ top.next \in EntriesLeft
  <2>1. EntriesLeft = {x \in Indices(top.rel) : x >= top.next}
    BY <1>1 DEF EntriesLeft
  <2>2. EntriesLeft' = {x \in Indices(top.rel) : x >= top.next + 1}
    BY <1>3, <1>4, <1>5 DEF EntriesLeft
  <2> QED
    BY <1>2, <1>6, <1>7, <2>1, <2>2
<1>9. Cardinality(EntriesLeft') < Cardinality(EntriesLeft)
  <2>1. IsFiniteSet(EntriesLeft)
    BY WalkFinite DEF WalkIsFinite
  <2>2. /\ Cardinality(EntriesLeft \ {top.next}) = Cardinality(EntriesLeft) - 1
        /\ Cardinality(EntriesLeft) \in Nat
    BY <1>8, <2>1, FS_RemoveElement, FS_CardinalityType
  <2> QED
    BY <1>8, <2>2
<1>10. WalkStage' = WalkStage
  BY <1>1, StageFacts
<1>11. Unvisited' = Unvisited
  BY DEF Unvisited, Rel, HighBit
<1> QED
  BY <1>3, <1>9, <1>10, <1>11 DEF LessOfWalk

LEMMA WalkStepIsLess ==
  ASSUME ResourcesInv, NextResources
  PROVE  LessOfWalk
<1>0. ResourcesTypeOK /\ ControlOK /\ stack \in Seq(Frame)
  BY DEF ResourcesInv, ResourcesTypeOK
<1>1. CASE NoResources \/ ResourcesUnmapped \/ BeginWalk \/ EndWalk
  <2>1. \/ at = "start" /\ (at' = "done" \/ at' = "visit")
        \/ at = "walked" /\ at' = "done"
    BY <1>1 DEF NoResources, ResourcesUnmapped, BeginWalk, EndWalk, End
  <2>2. WalkStage' < WalkStage
    BY <2>1, StageFacts
  <2> QED
    BY <2>2 DEF LessOfWalk
<1>2. CASE HeaderMissing \/ ArrayOutside \/ OpenDirectory
  <2>1. FirstVisit /\ at = "visit" /\ at' \in {"entries", "walked"}
    BY <1>2 DEF HeaderMissing, ArrayOutside, OpenDirectory, FirstVisit, Counted, Return
  <2>2. Cardinality(Unvisited') < Cardinality(Unvisited)
    BY <1>0, <2>1, VisitIsLess
  <2>3. WalkStage' <= WalkStage /\ WalkStage \in Nat /\ WalkStage' \in Nat
    BY <2>1, StageFacts
  <2> QED
    BY <2>2, <2>3 DEF LessOfWalk
<1>3. CASE TooDeep \/ TooMany \/ SeenBefore
  <2>1. /\ at = "visit" /\ UNCHANGED <<image, stack, visited>>
        /\ at' = IF stack = <<>> THEN "walked" ELSE "entries"
    BY <1>3 DEF TooDeep, TooMany, SeenBefore, Counted, Return
  <2>2. CASE stack = <<>>
    <3>1. WalkStage' < WalkStage
      BY <2>1, <2>2, StageFacts
    <3> QED
      BY <3>1 DEF LessOfWalk
  <2>3. CASE stack # <<>>
    <3>1. WalkStage' = WalkStage /\ CallsLeft' < CallsLeft
      BY <2>1, <2>3, StageFacts DEF CallsLeft
    <3>2. Unvisited' = Unvisited /\ Len(stack') = Len(stack)
      BY <2>1 DEF Unvisited, Rel, HighBit
    <3>3. EntriesLeft' = EntriesLeft
      <4>1. top' = top
        BY <2>1 DEF top
      <4>2. \A rel : Indices(rel)' = Indices(rel)
        BY <2>1, FileStays
      <4> QED
        BY <2>1, <4>1, <4>2 DEF EntriesLeft
    <3> QED
      BY <3>1, <3>2, <3>3 DEF LessOfWalk
  <2> QED
    BY <2>2, <2>3
<1>4. CASE SkipEntry \/ EnterChild \/ SkipData \/ ReportItem
  <2>1. MoreEntries /\ at = "entries" /\ stack' = Advanced /\ UNCHANGED <<image, visited>>
    BY <1>4 DEF SkipEntry, EnterChild, SkipData, ReportItem, MoreEntries
  <2>2. at' \in {"visit", "entries"}
    BY <1>4, <2>1 DEF SkipEntry, EnterChild, SkipData, ReportItem
  <2> QED
    BY <1>0, <2>1, <2>2, AdvanceIsLess
<1>5. CASE CloseDirectory
  <2>1. /\ at = "entries" /\ stack # <<>> /\ stack' = SubSeq(stack, 1, Len(stack) - 1)
        /\ at' \in {"walked", "entries"} /\ UNCHANGED <<image, visited>>
    BY <1>0, <1>5 DEF CloseDirectory, ControlOK
  <2>2. Len(stack') < Len(stack)
    <3>1. Len(stack) \in Nat \ {0}
      BY <1>0, <2>1, TopFacts
    <3>2. \A l \in Nat \ {0} : l = Len(stack) => Len(SubSeq(stack, 1, l - 1)) = l - 1
      BY <1>0
    <3> QED
      BY <2>1, <3>1, <3>2
  <2>3. Unvisited' = Unvisited
    BY <2>1 DEF Unvisited, Rel, HighBit
  <2>4. WalkStage' < WalkStage \/ WalkStage' = WalkStage
    BY <2>1, StageFacts
  <2> QED
    BY <2>2, <2>3, <2>4 DEF LessOfWalk
<1> QED
  BY <1>1, <1>2, <1>3, <1>4, <1>5 DEF NextResources

(* Every step of the walk over the resources leaves less to do, and what   *)
(* is left is always given by natural numbers: parse_resources() ends      *)
(* after finitely many steps, however the directories refer to each other. *)
THEOREM ResourcesRunOut == SpecResources => []WalkIsFinite /\ [][LessOfWalk]_resourceVars
<1>1. ResourcesInv => WalkIsFinite
  BY WalkFinite DEF ResourcesInv
<1>2. ResourcesInv /\ [NextResources]_resourceVars => [LessOfWalk]_resourceVars
  BY WalkStepIsLess
<1> QED
  BY <1>1, <1>2, ResourcesInductive, PTL DEF SpecResources

(***************************************************************************)
(* The resources as a part of parse_pe()                                   *)
(***************************************************************************)
(* Every step of parse_pe() is one of the walk or leaves it alone. *)
LEMMA StepOfTheWalk == [Next]_vars => [NextResources]_resourceVars
<1> SUFFICES ASSUME [Next]_vars PROVE [NextResources]_resourceVars
  OBVIOUS
<1> USE DEF Leave, Enter
<1>1. CASE Absent \/ Unmapped
  BY <1>1 DEF Absent, Unmapped
<1>2. CASE EnterImports \/ ReadDescriptor \/ ReadThunk \/ EndThunks \/ EndDescriptors
  BY <1>2 DEF EnterImports, ReadDescriptor, ReadThunk, EndThunks, EndDescriptors
<1>3. CASE \/ ExportsUnreadable \/ ExportsTooMany \/ BeginExports
           \/ ReadFunction \/ EndFunctions \/ ReadName \/ EndNames \/ JoinFunction \/ EndExports
  BY <1>3 DEF ExportsUnreadable, ExportsTooMany, BeginExports, ReadFunction, EndFunctions, ReadName,
     EndNames, JoinFunction, EndExports
<1>4. CASE EnterRelocations \/ BeginBlock \/ ReadEntry \/ EndBlock \/ EndBlocks
  BY <1>4 DEF EnterRelocations, BeginBlock, ReadEntry, EndBlock, EndBlocks
<1>5. CASE ParseResources
  BY <1>5 DEF ParseResources
<1>6. CASE TLSUnreadable \/ NoCallbacks \/ BeginCallbacks \/ ReadCallback \/ EndCallbacks
  BY <1>6 DEF TLSUnreadable, NoCallbacks, BeginCallbacks, ReadCallback, EndCallbacks
<1>7. CASE EnterDebug \/ ReadDebugEntry \/ EndDebug
  BY <1>7 DEF EnterDebug, ReadDebugEntry, EndDebug
<1>8. CASE UNCHANGED vars
  BY <1>8 DEF vars
<1> QED
  BY <1>1, <1>2, <1>3, <1>4, <1>5, <1>6, <1>7, <1>8 DEF Next

(* parse_pe() does to the resources what parse_resources() does alone. *)
THEOREM TablesImplementResources == Spec => SpecResources
<1>1. Init => InitResources
  BY DEF Init
<1> QED
  BY <1>1, StepOfTheWalk, PTL DEF Spec, SpecResources

(* The items that parse_pe() reports lie at the ends of paths of the file. *)
THEOREM ItemsOfTheFile == Spec => []ItemsAreReal
BY TablesImplementResources, ItemsCorrect, PTL

(* It complains of repeated directories where there are some, only of them. *)
THEOREM RepeatsOfTheFile == Spec => []RepeatsAreReported
BY TablesImplementResources, RepeatsCorrect, PTL

(* No entry of a resource directory gives two items. *)
THEOREM ItemsOnce == Spec => []EveryEntryOnce
BY TablesImplementResources, OnceCorrect, PTL

(* What can be read of the resources is in the report or complained of. *)
THEOREM NothingLostOfTheFile == Spec => []NothingReadableIsLost
BY TablesImplementResources, NothingLostCorrect, PTL

(***************************************************************************)
(* The verdicts                                                            *)
(***************************************************************************)
Judged(t) ==
  /\ StatusOf(t) # "NotParsed"
  /\ (StatusOf(t) = "NotPresent") <=> ~Present(image, t)
  /\ (StatusOf(t) \in {"Valid", "PartiallyParsed"}) <=> Usable(t)

(* Where the control is in a parser, and where it is behind it. *)
Loop(t) ==
  CASE t = "import" -> {"descriptors", "thunks"} [] t = "export" -> {"functions", "names", "exports"}
    [] t = "relocation" -> {"blocks", "entries"} [] t = "resource" -> {}
    [] t = "tls" -> {"callbacks"} [] t = "debug" -> {"debug entries"}

PastTLS == {"debug", "debug entries", "done"}
PastResource == {"tls", "callbacks"} \cup PastTLS
PastRelocation == {"resource"} \cup PastResource
PastExport == {"relocation", "blocks", "entries"} \cup PastRelocation
PastImport == {"export", "functions", "names", "exports"} \cup PastExport

Past(t) ==
  CASE t = "import" -> PastImport [] t = "export" -> PastExport [] t = "relocation" -> PastRelocation
    [] t = "resource" -> PastResource [] t = "tls" -> PastTLS [] t = "debug" -> {"done"}

JudgedInv ==
  /\ IsImage(image)
  /\ pc \in {"import", "descriptors", "thunks"} \cup PastImport
  /\ status \in [Table \ {"resource"} -> ParseStatus]
  /\ \A t \in Parser : pc \in Past(t) => Judged(t)
  /\ \A t \in Parser : pc \in Loop(t) => Usable(t)
  /\ at = "done" => Judged("resource")
  /\ at \in {"visit", "entries", "walked"} => Usable("resource")
  /\ at \in {"start", "visit", "entries", "walked", "done"}
  /\ pc \in PastResource => at = "done"

(* A step within a parser does not touch the verdicts. *)
LEMMA StepWithin ==
  ASSUME JudgedInv, UNCHANGED <<resourceVars, status>>,
         pc' \in {"import", "descriptors", "thunks"} \cup PastImport,
         \A t \in Table : pc' \in Past(t) => pc \in Past(t),
         \A t \in Parser : pc' \in Loop(t) => Usable(t)
  PROVE  JudgedInv'
<1>1. UNCHANGED <<image, at, treeStatus, status>>
  BY DEF resourceVars
<1>2. \A t : Judged(t)' <=> Judged(t)
  BY <1>1, UsableStays DEF Judged, StatusOf
<1>3. Loop("tls")' = Loop("tls") /\ \A t : Loop(t)' = Loop(t) /\ Past(t)' = Past(t)
  BY DEF Loop, Past
<1>4. pc' \in PastResource => pc \in PastResource
  BY DEF Past, Table
<1> QED
  BY <1>1, <1>2, <1>3, <1>4, UsableStays DEF JudgedInv, Parser, Table

(* A parser that is left has judged its own table. *)
LEMMA StepOut ==
  ASSUME JudgedInv, NEW t \in Parser, NEW result \in ParseStatus, Leave(t, result),
         pc \in {t} \cup Loop(t),
         result # "NotParsed",
         result = "NotPresent" <=> ~Present(image, t),
         result \in {"Valid", "PartiallyParsed"} <=> Usable(t)
  PROVE  JudgedInv'
<1>1. /\ UNCHANGED <<image, at, treeStatus>> /\ pc' = Following(t)
      /\ status' = [status EXCEPT ![t] = result]
  BY DEF Leave, resourceVars, GoTo
<1>2. t \in Table \ {"resource"} /\ status \in [Table \ {"resource"} -> ParseStatus]
  BY DEF Parser, Table, JudgedInv
<1>3. /\ status' \in [Table \ {"resource"} -> ParseStatus] /\ status'[t] = result
      /\ \A s \in Table \ {"resource"} : s # t => status'[s] = status[s]
  BY <1>1, <1>2
<1>4. \A s \in Parser : s # t => (Judged(s)' <=> Judged(s))
  BY <1>1, <1>3, UsableStays DEF Judged, StatusOf, Parser, Table
<1>5. Judged("resource")' <=> Judged("resource")
  BY <1>1, UsableStays DEF Judged, StatusOf
<1>6. Judged(t)'
  <2>1. \A s : s = t => Judged(s)'
    BY <1>1, <1>3, UsableStays DEF Judged, StatusOf, Parser
  <2> QED
    BY <2>1
<1>7. /\ pc' \in {"import", "descriptors", "thunks"} \cup PastImport
      /\ \A s \in Parser : pc' \notin Loop(s)
      /\ \A s \in Parser : pc' \in Past(s) => pc \in Past(s) \/ s = t
      /\ pc' \in PastResource => pc \in PastResource
  BY <1>1 DEF Parser, Following, Loop, Past, PastImport, PastExport, PastRelocation, PastResource, PastTLS
<1> QED
  BY <1>1, <1>3, <1>4, <1>5, <1>6, <1>7, UsableStays DEF JudgedInv

(* The resources are judged when their walk is over, or cannot begin. *)
LEMMA StepOfResources ==
  ASSUME JudgedInv, ParseResources
  PROVE  JudgedInv'
<1> USE DEF Return, End
<1>1. image' = image /\ status' = status
  BY DEF ParseResources, NextResources, NoResources, ResourcesUnmapped, BeginWalk, TooDeep, TooMany,
     SeenBefore, HeaderMissing, ArrayOutside, OpenDirectory, SkipEntry, EnterChild, SkipData, ReportItem,
     CloseDirectory, EndWalk
<1>2. Usable("resource") <=> Present(image, "resource") /\ Mapped(image, "resource")
  BY DEF Usable
<1>3. \/ /\ at' = "done" /\ treeStatus' \in ParseStatus \ {"NotParsed"}
         /\ treeStatus' = "NotPresent" <=> ~Present(image, "resource")
         /\ treeStatus' \in {"Valid", "PartiallyParsed"} <=> Usable("resource")
      \/ at' \in {"visit", "entries", "walked"} /\ Usable("resource")
  <2>1. CASE NoResources
    BY <1>2, <2>1 DEF NoResources, ParseStatus
  <2>2. CASE ResourcesUnmapped
    BY <1>2, <2>2 DEF ResourcesUnmapped, ParseStatus
  <2>3. CASE BeginWalk
    BY <1>2, <2>3 DEF BeginWalk
  <2>4. CASE EndWalk
    <3>1. Usable("resource") /\ Present(image, "resource")
      BY <1>2, <2>4 DEF EndWalk, JudgedInv
    <3> QED
      BY <2>4, <3>1 DEF EndWalk, ParseStatus
  <2>5. CASE TooDeep \/ TooMany \/ SeenBefore \/ HeaderMissing \/ ArrayOutside \/ OpenDirectory
    BY <2>5 DEF TooDeep, TooMany, SeenBefore, HeaderMissing, ArrayOutside, OpenDirectory, FirstVisit,
       Counted, JudgedInv
  <2>6. CASE SkipEntry \/ EnterChild \/ SkipData \/ ReportItem \/ CloseDirectory
    BY <2>6 DEF SkipEntry, EnterChild, SkipData, ReportItem, CloseDirectory, MoreEntries, JudgedInv
  <2> QED
    BY <2>1, <2>2, <2>3, <2>4, <2>5, <2>6 DEF ParseResources, NextResources
<1>4. at' = "done" => Judged("resource")'
  BY <1>1, <1>3, UsableStays DEF Judged, StatusOf
<1>5. at' \in {"visit", "entries", "walked"} => Usable("resource")'
  BY <1>1, <1>3, UsableStays
<1>6. at' \in {"start", "visit", "entries", "walked", "done"}
  BY <1>3
<1>7. pc = "resource" /\ pc' = IF at' = "done" THEN "tls" ELSE "resource"
  BY DEF ParseResources
<1>8. \A t \in Parser : Judged(t)' <=> Judged(t)
  BY <1>1, UsableStays DEF Judged, StatusOf, Parser
<1>9. /\ \A t \in Parser : pc' \notin Loop(t)
      /\ \A t \in Parser : pc' \in Past(t) => pc \in Past(t)
      /\ pc' \in {"import", "descriptors", "thunks"} \cup PastImport
      /\ pc' \in PastResource => at' = "done"
  BY <1>7 DEF Parser, Loop, Past, PastImport, PastExport, PastRelocation, PastResource, PastTLS
<1> QED
  BY <1>1, <1>4, <1>5, <1>6, <1>8, <1>9 DEF JudgedInv

(* Every step of the parsers but those of the walk over the resources.     *)
LEMMA StepOfImports ==
  ASSUME JudgedInv, Absent \/ Unmapped \/ EnterImports \/ ReadDescriptor \/ ReadThunk \/ EndThunks \/ EndDescriptors
  PROVE  JudgedInv'
<1> USE DEF Parser, Table, Loop, Past, PastImport, PastExport, PastRelocation, PastResource, PastTLS
<1>1. CASE Absent
  <2>1. pc \in Parser /\ ~Present(image, pc) /\ Leave(pc, "NotPresent") /\ ~Usable(pc)
    BY <1>1 DEF Absent, Usable
  <2> QED
    BY <2>1, StepOut DEF ParseStatus
<1>2. CASE Unmapped
  <2>1. pc \in Parser /\ Present(image, pc) /\ Leave(pc, "Malformed") /\ ~Usable(pc)
    BY <1>2 DEF Unmapped, Usable
  <2> QED
    BY <2>1, StepOut DEF ParseStatus
<1>3. CASE EnterImports
  <2>1. /\ pc = "import" /\ pc' = "descriptors" /\ Usable("import")
        /\ UNCHANGED <<resourceVars, status>>
    BY <1>3 DEF EnterImports, Enter, GoTo, Usable
  <2> QED
    BY <2>1, StepWithin
<1>4. CASE ReadDescriptor \/ ReadThunk \/ EndThunks
  <2>1. /\ pc \in {"descriptors", "thunks"} /\ pc' \in {"descriptors", "thunks"}
        /\ UNCHANGED <<resourceVars, status>>
    BY <1>4 DEF ReadDescriptor, ReadThunk, EndThunks
  <2>2. Usable("import")
    BY <2>1 DEF JudgedInv
  <2> QED
    BY <2>1, <2>2, StepWithin
<1>5. CASE EndDescriptors
  <2>1. pc = "descriptors" /\ Leave("import", "Valid")
    BY <1>5 DEF EndDescriptors
  <2>2. Usable("import") /\ Present(image, "import")
    BY <2>1 DEF JudgedInv, Usable
  <2> QED
    BY <2>1, <2>2, StepOut DEF ParseStatus
<1> QED
  BY <1>1, <1>2, <1>3, <1>4, <1>5

LEMMA StepOfExports ==
  ASSUME JudgedInv,
         \/ ExportsUnreadable \/ ExportsTooMany \/ BeginExports \/ ReadFunction \/ EndFunctions
         \/ ReadName \/ EndNames \/ JoinFunction \/ EndExports
  PROVE  JudgedInv'
<1> USE DEF Parser, Table, Loop, Past, PastImport, PastExport, PastRelocation, PastResource, PastTLS
<1>1. CASE ExportsUnreadable \/ ExportsTooMany
  <2>1. pc = "export" /\ Present(image, "export") /\ Leave("export", "Malformed")
    BY <1>1 DEF ExportsUnreadable, ExportsTooMany
  <2>2. ~Usable("export")
    <3>1. CASE ExportsUnreadable
      BY <3>1 DEF ExportsUnreadable, Usable
    <3>2. CASE ExportsTooMany
      <4>0. dir("export").rva \in Nat /\ IsImage(image)
        <5>1. dir("export") \in Directory /\ IsImage(image)
          BY DEF JudgedInv, IsImage, dir
        <5> QED
          BY <5>1, RvaAssumption DEF Directory, Rva
      <4>1. \A o, p \in HeaderOf("export", 40) : o = p
        BY <4>0, WindowFacts DEF HeaderOf
      <4> QED
        BY <3>2, <4>1 DEF ExportsTooMany, Usable
    <3> QED
      BY <1>1, <3>1, <3>2
  <2> QED
    BY <2>1, <2>2, StepOut DEF ParseStatus
<1>2. CASE BeginExports
  <2>1. /\ pc = "export" /\ pc' = "functions" /\ Usable("export")
        /\ UNCHANGED <<resourceVars, status>>
    BY <1>2 DEF BeginExports, GoTo, Usable
  <2> QED
    BY <2>1, StepWithin
<1>3. CASE ReadFunction \/ EndFunctions
  <2>1. /\ pc = "functions" /\ pc' \in {"functions", "names"}
        /\ UNCHANGED <<resourceVars, status>>
    BY <1>3 DEF ReadFunction, EndFunctions, GoTo
  <2>2. Usable("export")
    BY <2>1 DEF JudgedInv
  <2> QED
    BY <2>1, <2>2, StepWithin
<1>4. CASE ReadName \/ EndNames \/ JoinFunction
  <2>1. /\ pc \in {"names", "exports"} /\ pc' \in {"names", "exports"}
        /\ UNCHANGED <<resourceVars, status>>
    BY <1>4 DEF ReadName, EndNames, JoinFunction, GoTo
  <2>2. Usable("export")
    BY <2>1 DEF JudgedInv
  <2> QED
    BY <2>1, <2>2, StepWithin
<1>5. CASE EndExports
  <2>1. pc = "exports" /\ Leave("export", "Valid")
    BY <1>5 DEF EndExports
  <2>2. Usable("export") /\ Present(image, "export")
    BY <2>1 DEF JudgedInv, Usable
  <2> QED
    BY <2>1, <2>2, StepOut DEF ParseStatus
<1> QED
  BY <1>1, <1>2, <1>3, <1>4, <1>5

LEMMA StepOfRelocations ==
  ASSUME JudgedInv, EnterRelocations \/ BeginBlock \/ ReadEntry \/ EndBlock \/ EndBlocks
  PROVE  JudgedInv'
<1> USE DEF Parser, Table, Loop, Past, PastImport, PastExport, PastRelocation, PastResource, PastTLS
<1>1. CASE EnterRelocations
  <2>1. /\ pc = "relocation" /\ pc' = "blocks" /\ Usable("relocation")
        /\ UNCHANGED <<resourceVars, status>>
    BY <1>1 DEF EnterRelocations, Enter, GoTo, Usable
  <2> QED
    BY <2>1, StepWithin
<1>2. CASE BeginBlock \/ ReadEntry \/ EndBlock
  <2>1. /\ pc \in {"blocks", "entries"} /\ pc' \in {"blocks", "entries"}
        /\ UNCHANGED <<resourceVars, status>>
    BY <1>2 DEF BeginBlock, ReadEntry, EndBlock
  <2>2. Usable("relocation")
    BY <2>1 DEF JudgedInv
  <2> QED
    BY <2>1, <2>2, StepWithin
<1>3. CASE EndBlocks
  <2>1. /\ pc = "blocks"
        /\ \E result \in {"Valid", "PartiallyParsed"} : Leave("relocation", result)
    BY <1>3 DEF EndBlocks
  <2>2. Usable("relocation") /\ Present(image, "relocation")
    BY <2>1 DEF JudgedInv, Usable
  <2> QED
    BY <2>1, <2>2, StepOut DEF ParseStatus
<1> QED
  BY <1>1, <1>2, <1>3

LEMMA StepOfTLS ==
  ASSUME JudgedInv, TLSUnreadable \/ NoCallbacks \/ BeginCallbacks \/ ReadCallback \/ EndCallbacks
  PROVE  JudgedInv'
<1> USE DEF Parser, Table, Loop, Past, PastImport, PastExport, PastRelocation, PastResource, PastTLS
<1>1. CASE TLSUnreadable
  <2>1. pc = "tls" /\ Present(image, "tls") /\ Leave("tls", "Malformed") /\ ~Usable("tls")
    BY <1>1 DEF TLSUnreadable, AtTLS, Usable
  <2> QED
    BY <2>1, StepOut DEF ParseStatus
<1>2. CASE NoCallbacks
  <2>1. pc = "tls" /\ Present(image, "tls") /\ Leave("tls", "Valid") /\ Usable("tls")
    BY <1>2 DEF NoCallbacks, AtTLS, Usable
  <2> QED
    BY <2>1, StepOut DEF ParseStatus
<1>3. CASE BeginCallbacks
  <2>1. /\ pc = "tls" /\ pc' = "callbacks" /\ Usable("tls")
        /\ UNCHANGED <<resourceVars, status>>
    BY <1>3 DEF BeginCallbacks, AtTLS, GoTo, Usable
  <2> QED
    BY <2>1, StepWithin
<1>4. CASE ReadCallback
  <2>1. pc = "callbacks" /\ pc' = pc /\ UNCHANGED <<resourceVars, status>>
    BY <1>4 DEF ReadCallback
  <2>2. Usable("tls")
    BY <2>1 DEF JudgedInv
  <2> QED
    BY <2>1, <2>2, StepWithin
<1>5. CASE EndCallbacks
  <2>1. pc = "callbacks" /\ Leave("tls", "Valid")
    BY <1>5 DEF EndCallbacks
  <2>2. Usable("tls") /\ Present(image, "tls")
    BY <2>1 DEF JudgedInv, Usable
  <2> QED
    BY <2>1, <2>2, StepOut DEF ParseStatus
<1> QED
  BY <1>1, <1>2, <1>3, <1>4, <1>5

LEMMA StepOfDebug ==
  ASSUME JudgedInv, EnterDebug \/ ReadDebugEntry \/ EndDebug
  PROVE  JudgedInv'
<1> USE DEF Parser, Table, Loop, Past, PastImport, PastExport, PastRelocation, PastResource, PastTLS
<1>1. CASE EnterDebug
  <2>1. /\ pc = "debug" /\ pc' = "debug entries" /\ Usable("debug")
        /\ UNCHANGED <<resourceVars, status>>
    BY <1>1 DEF EnterDebug, Enter, GoTo, Usable
  <2> QED
    BY <2>1, StepWithin
<1>2. CASE ReadDebugEntry
  <2>1. pc = "debug entries" /\ pc' = pc /\ UNCHANGED <<resourceVars, status>>
    BY <1>2 DEF ReadDebugEntry
  <2>2. Usable("debug")
    BY <2>1 DEF JudgedInv
  <2> QED
    BY <2>1, <2>2, StepWithin
<1>3. CASE EndDebug
  <2>1. /\ pc = "debug entries"
        /\ \E result \in {"Valid", "PartiallyParsed"} : Leave("debug", result)
    BY <1>3 DEF EndDebug
  <2>2. Usable("debug") /\ Present(image, "debug")
    BY <2>1 DEF JudgedInv, Usable
  <2> QED
    BY <2>1, <2>2, StepOut DEF ParseStatus
<1> QED
  BY <1>1, <1>2, <1>3

LEMMA JudgedInductive == Spec => []JudgedInv
<1>1. Init => JudgedInv
  <2> SUFFICES ASSUME Init PROVE JudgedInv
    OBVIOUS
  <2>1. /\ pc = "import" /\ at = "start" /\ IsImage(image)
        /\ status \in [Table \ {"resource"} -> ParseStatus]
    BY ResourcesAssumption DEF Init, InitResources, ParseStatus
  <2> QED
    BY <2>1 DEF JudgedInv, Parser, Loop, Past, PastImport, PastExport, PastRelocation, PastResource, PastTLS
<1>2. JudgedInv /\ [Next]_vars => JudgedInv'
  <2> SUFFICES ASSUME JudgedInv, [Next]_vars PROVE JudgedInv'
    OBVIOUS
  <2>1. CASE UNCHANGED vars
    <3>1. UNCHANGED <<resourceVars, pc, status>>
      BY <2>1 DEF vars
    <3> QED
      BY <3>1, StepWithin DEF JudgedInv
  <2> QED
    BY <2>1, StepOfImports, StepOfExports, StepOfRelocations, StepOfResources, StepOfTLS, StepOfDebug DEF Next
<1> QED
  BY <1>1, <1>2, PTL DEF Spec

(* When parse_pe() is through each table has its verdict, which depends on *)
(* that table alone: one that cannot be used stops no other parser.        *)
THEOREM TablesJudgedCorrect == Spec => []TablesAreJudged
<1>1. JudgedInv => TablesAreJudged
  <2> SUFFICES ASSUME JudgedInv, pc = "done", NEW t \in Table PROVE Judged(t)
    BY DEF TablesAreJudged, Judged
  <2> QED
    BY DEF JudgedInv, Table, Parser, Past, PastImport, PastExport, PastRelocation, PastResource, PastTLS
<1> QED
  BY <1>1, JudgedInductive, PTL

(***************************************************************************)
(* The relocation blocks                                                   *)
(***************************************************************************)
EndOf(k) == IF k = 0 THEN 0 ELSE blocks[k].pos + blocks[k].size

Block == [pos : Nat, size : Nat, entries : Seq([type : Nat, target : Nat])]

BlocksInv ==
  /\ IsImage(image)
  /\ blocks \in Seq(Block) /\ entries \in Seq([type : Nat, target : Nat])
  /\ pc \in {"import", "descriptors", "thunks", "export", "functions", "names", "exports", "relocation"}
       => blocks = <<>>
  /\ \A k \in DOMAIN blocks :
       /\ blocks[k].pos = EndOf(k - 1)
       /\ EndOf(k) <= dir("relocation").size
       /\ 8 + 2 * Len(blocks[k].entries) <= blocks[k].size
  /\ pc \in {"blocks", "entries"} => i = EndOf(Len(blocks))
  /\ pc = "entries" =>
       /\ BlockAt(i) # {} /\ SizeIsValid(BlockSize(BlockHeader))
       /\ j = Len(entries) /\ 8 + 2 * j <= BlockSize(BlockHeader)

(* The bytes of a block and of its header. *)
LEMMA BlockFacts ==
  ASSUME BlocksInv, pc \in {"blocks", "entries"}
  PROVE  /\ i \in Nat /\ dir("relocation").rva \in Nat /\ dir("relocation").size \in Nat
         /\ \A o, p \in BlockAt(i) : o = p
         /\ \A o : BlockSize(o) \in Nat
<1>1. dir("relocation") \in Directory /\ IsImage(image)
  BY DEF BlocksInv, IsImage, dir, Table
<1>2. dir("relocation").rva \in Nat /\ dir("relocation").size \in Nat
  BY <1>1, RvaAssumption DEF Directory, Rva
<1>3. i \in Nat
  <2>1. blocks \in Seq(Block) /\ i = EndOf(Len(blocks))
    BY DEF BlocksInv
  <2>2. \A k \in DOMAIN blocks : blocks[k] \in Block
    BY <2>1
  <2>3. Len(blocks) \in Nat /\ (Len(blocks) = 0 \/ Len(blocks) \in DOMAIN blocks)
    BY <2>1
  <2> QED
    BY <2>1, <2>2, <2>3 DEF EndOf, Block
<1>4. \A o, p \in BlockAt(i) : o = p
  BY <1>1, <1>2, <1>3, WindowFacts DEF BlockAt
<1>5. \A o : BlockSize(o) \in Nat
  BY <1>1, ImageFacts DEF BlockSize
<1> QED
  BY <1>2, <1>3, <1>4, <1>5

(* Steps that leave the blocks alone. *)
LEMMA OtherSteps ==
  ASSUME BlocksInv, UNCHANGED <<image, relocationVars>>,
         pc' \notin {"blocks", "entries"},
         pc' \in {"import", "descriptors", "thunks", "export", "functions", "names", "exports", "relocation"}
           => pc \in {"import", "descriptors", "thunks", "export", "functions", "names", "exports"}
  PROVE  BlocksInv'
BY DEF BlocksInv, relocationVars, EndOf, dir

LEMMA StepOfBlocks ==
  ASSUME BlocksInv, BeginBlock \/ ReadEntry \/ EndBlock
  PROVE  BlocksInv'
<1>1. pc \in {"blocks", "entries"} /\ pc' \in {"blocks", "entries"} /\ image' = image
  BY DEF BeginBlock, ReadEntry, EndBlock, resourceVars
<1>2. /\ i \in Nat /\ dir("relocation").rva \in Nat /\ dir("relocation").size \in Nat
      /\ \A o, p \in BlockAt(i) : o = p
      /\ \A o : BlockSize(o) \in Nat
  BY <1>1, BlockFacts
<1>3. \A k : BlockAt(k)' = BlockAt(k)
  BY <1>1 DEF BlockAt, dir
<1>4. dir("relocation")' = dir("relocation") /\ \A o : BlockSize(o)' = BlockSize(o)
  BY <1>1 DEF dir, BlockSize
<1>5. blocks \in Seq(Block) /\ entries \in Seq([type : Nat, target : Nat])
  BY DEF BlocksInv
<1>6. CASE BeginBlock
  <2>1. /\ i' = i /\ j' = 0 /\ pc' = "entries" /\ entries' = <<>> /\ blocks' = blocks /\ pc = "blocks"
        /\ \E o \in BlockAt(i) : SizeIsValid(BlockSize(o))
    BY <1>6 DEF BeginBlock
  <2>2. BlockAt(i) # {} /\ BlockHeader \in BlockAt(i) /\ SizeIsValid(BlockSize(BlockHeader))
    BY <1>2, <2>1 DEF BlockHeader
  <2>3. BlockAt(i)' = BlockAt(i) /\ BlockHeader' = BlockHeader
    BY <1>1, <2>1 DEF BlockAt, BlockHeader, dir
  <2>4. BlockSize(BlockHeader)' = BlockSize(BlockHeader)
    BY <1>1, <2>3 DEF BlockSize
  <2>5. (SizeIsValid(BlockSize(BlockHeader)))' /\ 8 <= BlockSize(BlockHeader)
    BY <1>4, <2>1, <2>2, <2>4 DEF SizeIsValid
  <2>6. blocks' \in Seq(Block) /\ entries' \in Seq([type : Nat, target : Nat]) /\ Len(entries') = 0
    BY <1>5, <2>1
  <2>7. /\ (BlockAt(i) # {})' /\ (j = Len(entries))' /\ (8 + 2 * j <= BlockSize(BlockHeader))'
    BY <1>2, <2>1, <2>2, <2>3, <2>4, <2>5, <2>6
  <2>8. /\ \A k \in DOMAIN blocks' :
             /\ blocks'[k].pos = EndOf(k - 1)'
             /\ EndOf(k)' <= dir("relocation").size'
             /\ 8 + 2 * Len(blocks'[k].entries) <= blocks'[k].size
        /\ i' = EndOf(Len(blocks))'
    BY <1>1, <1>4, <2>1 DEF BlocksInv, EndOf
  <2> QED
    BY <1>1, <2>1, <2>5, <2>6, <2>7, <2>8 DEF BlocksInv
<1>7. CASE ReadEntry
  <2>1. /\ i' = i /\ j' = j + 1 /\ pc' = "entries" /\ blocks' = blocks /\ pc = "entries"
        /\ \E word \in EntryAt(j) :
             entries' = Append(entries, [type |-> word \div PageSize, target |-> RelocationTarget(word)])
    BY <1>7 DEF ReadEntry
  <2>2. /\ BlockAt(i) # {} /\ SizeIsValid(BlockSize(BlockHeader))
        /\ j = Len(entries) /\ j \in Nat
    BY <1>5, <2>1 DEF BlocksInv
  <2>3. BlockAt(i)' = BlockAt(i) /\ BlockHeader' = BlockHeader
    BY <1>1, <2>1 DEF BlockAt, BlockHeader, dir
  <2>4. BlockSize(BlockHeader)' = BlockSize(BlockHeader) /\ BlockSize(BlockHeader) \in Nat
    BY <1>1, <1>2, <2>3 DEF BlockSize
  <2>5. (SizeIsValid(BlockSize(BlockHeader)))' /\ 8 <= BlockSize(BlockHeader)
    BY <1>4, <2>1, <2>2, <2>4 DEF SizeIsValid
  <2>6. entries' \in Seq([type : Nat, target : Nat]) /\ Len(entries') = j + 1
    <3>1. PICK word \in EntryAt(j) :
            entries' = Append(entries, [type |-> word \div PageSize, target |-> RelocationTarget(word)])
      BY <2>1
    <3>2. word \in Nat
      BY ImageFacts DEF EntryAt, Fetch, BlocksInv
    <3>3. word \div PageSize \in Nat /\ word % PageSize \in Nat
      BY <3>2, TablesAssumption
    <3>4. RelocationTarget(word) \in Nat
      BY <3>3, ImageFacts DEF RelocationTarget, BlocksInv
    <3> DEFINE new == [type |-> word \div PageSize, target |-> RelocationTarget(word)]
               Entry == [type : Nat, target : Nat]
    <3>5. new \in Entry
      BY <3>3, <3>4
    <3> HIDE DEF new, Entry
    <3>6. entries' = Append(entries, new) /\ entries \in Seq(Entry)
      BY <1>5, <3>1 DEF new, Entry
    <3>7. entries' \in Seq(Entry) /\ Len(entries') = Len(entries) + 1
      BY <3>5, <3>6
    <3> QED
      BY <2>2, <3>7 DEF Entry
  <2>7. 8 + 2 * (j + 1) <= BlockSize(BlockHeader)
    <3>1. j < (BlockSize(BlockHeader) - 8) \div 2
      BY <2>1 DEF EntryAt
    <3>2. BlockSize(BlockHeader) - 8 \in Nat
      BY <2>4, <2>5
    <3>3. \A x \in Nat : j < x \div 2 => 2 * (j + 1) <= x
      BY <2>2
    <3> QED
      BY <2>2, <2>4, <3>1, <3>2, <3>3
  <2>8. /\ (BlockAt(i) # {})' /\ (j = Len(entries))' /\ (8 + 2 * j <= BlockSize(BlockHeader))'
    BY <1>2, <2>1, <2>2, <2>3, <2>4, <2>6, <2>7
  <2>9. /\ \A k \in DOMAIN blocks' :
             /\ blocks'[k].pos = EndOf(k - 1)'
             /\ EndOf(k)' <= dir("relocation").size'
             /\ 8 + 2 * Len(blocks'[k].entries) <= blocks'[k].size
        /\ i' = EndOf(Len(blocks))'
    BY <1>1, <1>4, <2>1 DEF BlocksInv, EndOf
  <2> QED
    BY <1>1, <1>5, <2>1, <2>5, <2>6, <2>8, <2>9 DEF BlocksInv
<1>8. CASE EndBlock
  <2> DEFINE size == BlockSize(BlockHeader)
             new  == [pos |-> i, size |-> size, entries |-> entries]
             l    == Len(blocks)
  <2>1. /\ i' = i + size /\ pc' = "blocks" /\ pc = "entries" /\ entries' = entries
        /\ blocks' = Append(blocks, new)
    BY <1>8 DEF EndBlock
  <2>2. SizeIsValid(size) /\ j = Len(entries) /\ 8 + 2 * j <= size /\ size \in Nat /\ i = EndOf(l)
    BY <1>2, <2>1 DEF BlocksInv
  <2>3. i + size <= dir("relocation").size
    BY <1>2, <2>2 DEF SizeIsValid
  <2>4. new \in Block /\ new.pos = i /\ new.size = size /\ new.entries = entries
    BY <1>2, <1>5, <2>2 DEF Block
  <2> HIDE DEF new, size
  <2>5. /\ blocks' \in Seq(Block) /\ l \in Nat /\ Len(blocks') = l + 1
        /\ DOMAIN blocks' = 1 .. (l + 1) /\ DOMAIN blocks = 1 .. l
        /\ blocks'[l + 1] = new /\ \A k \in 1 .. l : blocks'[k] = blocks[k]
    BY <1>5, <2>1, <2>4
  <2> HIDE DEF l
  <2>6. \A k \in 0 .. l : EndOf(k)' = EndOf(k)
    BY <2>5 DEF EndOf
  <2>7. \A k : k = l + 1 => EndOf(k)' = i + size
    BY <2>4, <2>5 DEF EndOf
  <2>8. ASSUME NEW k \in DOMAIN blocks'
        PROVE  /\ blocks'[k].pos = EndOf(k - 1)'
               /\ EndOf(k)' <= dir("relocation").size'
               /\ 8 + 2 * Len(blocks'[k].entries) <= blocks'[k].size
    <3>1. CASE k \in 1 .. l
      <4>1. blocks[k].pos = EndOf(k - 1) /\ EndOf(k) <= dir("relocation").size
            /\ 8 + 2 * Len(blocks[k].entries) <= blocks[k].size
        BY <2>5, <3>1 DEF BlocksInv
      <4>2. k - 1 \in 0 .. l /\ k \in 0 .. l
        BY <2>5, <3>1
      <4>3. EndOf(k - 1)' = EndOf(k - 1) /\ EndOf(k)' = EndOf(k)
        BY <2>6, <4>2
      <4> QED
        BY <1>4, <2>5, <3>1, <4>1, <4>3
    <3>2. CASE k = l + 1
      <4>1. EndOf(k)' = i + size
        BY <2>7, <3>2
      <4>2. \A m : m = l => EndOf(m)' = i
        BY <2>2, <2>5, <2>6 DEF l
      <4>3. k - 1 = l
        BY <2>5, <3>2
      <4> QED
        BY <1>4, <2>2, <2>3, <2>4, <2>5, <3>2, <4>1, <4>2, <4>3
    <3> QED
      BY <2>5, <2>8, <3>1, <3>2
  <2>9. i' = EndOf(Len(blocks))'
    <3>1. \A k : k = Len(blocks') => EndOf(k)' = i + size
      BY <2>5, <2>7
    <3> QED
      BY <2>1, <3>1
  <2> QED
    BY <1>1, <1>5, <2>1, <2>5, <2>8, <2>9 DEF BlocksInv
<1> QED
  BY <1>6, <1>7, <1>8

LEMMA StepsOfBlocksInv ==
  ASSUME BlocksInv, [Next]_vars
  PROVE  BlocksInv'
<1> DEFINE Early == {"import", "descriptors", "thunks", "export", "functions", "names", "exports"}
<1> USE DEF Leave, Enter, GoTo, resourceVars
<1>1. CASE Absent \/ Unmapped
  <2>1. /\ pc \in Parser /\ pc' = Following(pc) /\ UNCHANGED <<image, relocationVars>>
    BY <1>1 DEF Absent, Unmapped, tableVars
  <2>2. pc' \notin {"blocks", "entries"} /\ (pc' \in Early \cup {"relocation"} => pc \in Early)
    BY <2>1 DEF Parser, Following
  <2> QED
    BY <2>1, <2>2, OtherSteps
<1>2. CASE EnterImports \/ ReadDescriptor \/ ReadThunk \/ EndThunks \/ EndDescriptors
  <2>1. /\ pc \in Early /\ pc' \in Early /\ UNCHANGED <<image, relocationVars>>
    BY <1>2 DEF EnterImports, ReadDescriptor, ReadThunk, EndThunks, EndDescriptors, tableVars, Following
  <2> QED
    BY <2>1, OtherSteps
<1>3. CASE \/ ExportsUnreadable \/ ExportsTooMany \/ BeginExports
           \/ ReadFunction \/ EndFunctions \/ ReadName \/ EndNames \/ JoinFunction \/ EndExports
  <2>1. CASE ExportsUnreadable \/ ExportsTooMany \/ EndExports
    <3>1. pc \in Early /\ pc' = "relocation" /\ UNCHANGED <<image, relocationVars>>
      BY <2>1 DEF ExportsUnreadable, ExportsTooMany, EndExports, tableVars, Following
    <3> QED
      BY <3>1, OtherSteps
  <2>2. CASE BeginExports \/ ReadFunction \/ EndFunctions \/ ReadName \/ EndNames \/ JoinFunction
    <3>1. pc \in Early /\ pc' \in Early /\ UNCHANGED <<image, relocationVars>>
      BY <2>2 DEF BeginExports, ReadFunction, EndFunctions, ReadName, EndNames, JoinFunction, tableVars
    <3> QED
      BY <3>1, OtherSteps
  <2> QED
    BY <1>3, <2>1, <2>2
<1>4. CASE EnterRelocations
  <2>1. /\ pc = "relocation" /\ pc' = "blocks" /\ i' = 0 /\ UNCHANGED <<image, relocationVars>>
    BY <1>4 DEF EnterRelocations, tableVars
  <2>2. blocks = <<>> /\ blocks' = <<>> /\ entries' \in Seq([type : Nat, target : Nat])
    BY <2>1 DEF BlocksInv, relocationVars
  <2> QED
    BY <2>1, <2>2 DEF BlocksInv, EndOf
<1>5. CASE BeginBlock \/ ReadEntry \/ EndBlock
  BY <1>5, StepOfBlocks
<1>6. CASE EndBlocks
  <2>1. pc' = "resource" /\ UNCHANGED <<image, relocationVars>>
    BY <1>6 DEF EndBlocks, tableVars, Following
  <2> QED
    BY <2>1, OtherSteps
<1>7. CASE ParseResources
  <2>1. pc' \in {"resource", "tls"} /\ UNCHANGED relocationVars
    BY <1>7 DEF ParseResources, tableVars
  <2>2. image' = image
    BY <1>7 DEF ParseResources, NextResources, NoResources, ResourcesUnmapped, BeginWalk, TooDeep, TooMany,
       SeenBefore, HeaderMissing, ArrayOutside, OpenDirectory, SkipEntry, EnterChild, SkipData, ReportItem,
       CloseDirectory, EndWalk
  <2> QED
    BY <2>1, <2>2, OtherSteps
<1>8. CASE TLSUnreadable \/ NoCallbacks \/ BeginCallbacks \/ ReadCallback \/ EndCallbacks
  <2>1. pc' \in {"callbacks", "debug"} /\ UNCHANGED <<image, relocationVars>>
    BY <1>8 DEF TLSUnreadable, NoCallbacks, BeginCallbacks, ReadCallback, EndCallbacks, tableVars, Following
  <2> QED
    BY <2>1, OtherSteps
<1>9. CASE EnterDebug \/ ReadDebugEntry \/ EndDebug
  <2>1. pc' \in {"debug entries", "done"} /\ UNCHANGED <<image, relocationVars>>
    BY <1>9 DEF EnterDebug, ReadDebugEntry, EndDebug, tableVars, Following
  <2> QED
    BY <2>1, OtherSteps
<1>10. CASE UNCHANGED vars
  BY <1>10 DEF vars, tableVars, relocationVars, BlocksInv, EndOf, dir, BlockAt, BlockHeader, BlockSize,
     SizeIsValid
<1> QED
  BY <1>1, <1>2, <1>3, <1>4, <1>5, <1>6, <1>7, <1>8, <1>9, <1>10 DEF Next

(* The relocation blocks follow each other without a gap or an overlap, do *)
(* not leave the directory, and have no more entries than they have room.  *)
THEOREM BlocksCorrect == Spec => []BlocksTile
<1>1. Init => BlocksInv
  BY ResourcesAssumption DEF Init, InitResources, BlocksInv, EndOf
<1>2. BlocksInv => BlocksTile
  BY DEF BlocksInv, BlocksTile, EndOf
<1>3. Spec => []BlocksInv
  BY <1>1, StepsOfBlocksInv, PTL DEF Spec
<1> QED
  BY <1>2, <1>3, PTL

(***************************************************************************)
(* The import lists                                                        *)
(***************************************************************************)
ImportSymbol == [lookup : Nat, iat : Nat, byName : BOOLEAN]
Module == [lookup : Nat, iat : Nat, symbols : Seq(ImportSymbol)]

InImports == {"import", "descriptors", "thunks"}

Described(k) == \E o \in DescriptorAt(k) : ~IsTerminator(o)

Ended(list, zero) == zero \/ fault("PE_IMPORT_UNTERMINATED", list) \in diagnostics

(* The symbols of a list begin with its first `count' thunks. *)
SymbolsUpTo(m, count) == \A l \in 0 .. (count - 1) : \E value \in Thunk(m, l) : IsSymbol(value)

ListIsWhole(m) ==
  /\ SymbolsUpTo(m, Len(m.symbols))
  /\ \A value \in Thunk(m, Len(m.symbols)) : ~IsSymbol(value)
  /\ Ended(m.lookup, Thunk(m, Len(m.symbols)) = {0})

(* The libraries in the report are the descriptors the loop has passed,    *)
(* and the symbols of the one in hand the thunks.                          *)
ImportsInv ==
  /\ imports \in Seq(Module) /\ module \in Module
  /\ pc = "import" => imports = <<>>
  /\ pc = "descriptors" => i = Len(imports)
  /\ pc = "thunks" =>
       /\ i = Len(imports) + 1 /\ Described(Len(imports))
       /\ j = Len(module.symbols) /\ SymbolsUpTo(module, j)
  /\ \A k \in 0 .. (Len(imports) - 1) : Described(k)
  /\ \A k \in DOMAIN imports : ListIsWhole(imports[k])
  /\ status["import"] = "Valid" =>
       /\ pc \notin InImports
       /\ ~Described(Len(imports))
       /\ Ended(dir("import").rva, DescriptorAt(Len(imports)) # {})

LEMMA ImportsStay ==
  ASSUME UNCHANGED image
  PROVE  /\ dir("import")' = dir("import") /\ Width' = Width
         /\ \A k : DescriptorAt(k)' = DescriptorAt(k) /\ (Described(k)' <=> Described(k))
         /\ \A m, k : Thunk(m, k)' = Thunk(m, k) /\ (SymbolsUpTo(m, k)' <=> SymbolsUpTo(m, k))
         /\ \A o : IsTerminator(o)' <=> IsTerminator(o)
         /\ \A value : IsSymbol(value)' <=> IsSymbol(value)
BY DEF dir, Width, DescriptorAt, Described, IsTerminator, Thunk, IsSymbol, SymbolsUpTo, NameIsUsable,
   OrdinalFlag

(* A list that is whole stays so. *)
LEMMA WholeStays ==
  ASSUME UNCHANGED image, diagnostics \subseteq diagnostics'
  PROVE  \A m : ListIsWhole(m) => ListIsWhole(m)'
BY ImportsStay DEF ListIsWhole, Ended

(* Steps of the other parsers. *)
LEMMA StepsElsewhere ==
  ASSUME ImportsInv, UNCHANGED <<image, importVars>>, diagnostics \subseteq diagnostics',
         status'["import"] = status["import"], pc \notin InImports, pc' \notin InImports
  PROVE  ImportsInv'
<1>1. \A k : (Described(k)' <=> Described(k)) /\ DescriptorAt(k)' = DescriptorAt(k)
  BY ImportsStay
<1>2. dir("import")' = dir("import")
  BY ImportsStay
<1> QED
  BY <1>1, <1>2, WholeStays DEF ImportsInv, importVars, InImports, Ended

(* The parser is left before it has read anything. *)
LEMMA StepsToNoImports ==
  ASSUME JudgedInv, ImportsInv, Absent \/ Unmapped
  PROVE  ImportsInv'
<1>1. /\ UNCHANGED <<image, importVars>> /\ diagnostics \subseteq diagnostics'
      /\ pc \in Parser /\ pc' = Following(pc)
      /\ \E result \in {"NotPresent", "Malformed"} : status' = [status EXCEPT ![pc] = result]
  BY DEF Absent, Unmapped, Leave, GoTo, Report, resourceVars, tableVars
<1>2. status \in [Table \ {"resource"} -> ParseStatus] /\ "import" \in Table \ {"resource"}
  BY DEF JudgedInv, Table
<1>3. pc' \notin InImports /\ (pc \in InImports => pc = "import")
  BY <1>1 DEF Parser, Following, InImports
<1>4. CASE pc = "import"
  <2>1. imports' = <<>> /\ module' \in Module /\ status'["import"] # "Valid"
    BY <1>1, <1>2, <1>4 DEF ImportsInv, importVars
  <2> QED
    BY <1>3, <2>1 DEF ImportsInv, InImports
<1>5. CASE pc # "import"
  <2>1. status'["import"] = status["import"]
    BY <1>1, <1>2, <1>5
  <2> QED
    BY <1>1, <1>3, <1>5, <2>1, StepsElsewhere
<1> QED
  BY <1>4, <1>5

LEMMA StepEnterImports ==
  ASSUME ImportsInv, EnterImports
  PROVE  ImportsInv'
<1>1. /\ pc = "import" /\ pc' = "descriptors" /\ i' = 0 /\ imports' = imports /\ module' = module
      /\ status' = status
  BY DEF EnterImports, Enter, GoTo, tableVars, importVars
<1>2. imports = <<>> /\ status["import"] # "Valid"
  BY <1>1 DEF ImportsInv, InImports
<1> QED
  BY <1>1, <1>2 DEF ImportsInv

LEMMA StepReadDescriptor ==
  ASSUME IsImage(image), ImportsInv, ReadDescriptor
  PROVE  ImportsInv'
<1>1. /\ pc = "descriptors" /\ pc' = "thunks" /\ i' = i + 1 /\ j' = 0
      /\ imports' = imports /\ status' = status /\ image' = image /\ diagnostics \subseteq diagnostics'
  BY DEF ReadDescriptor, Report, resourceVars
<1>2. PICK o \in DescriptorAt(i) :
        /\ ~IsTerminator(o)
        /\ LET lookup == Word(image, o)
               name   == Word(image, o + 12)
               iat    == Word(image, o + 16)
           IN  module' = [lookup |-> IF lookup # 0 THEN lookup ELSE iat, iat |-> iat, symbols |-> <<>>]
  BY DEF ReadDescriptor
<1>3. module' \in Module /\ module'.symbols = <<>>
  BY <1>2, ImageFacts DEF Module
<1>4. i = Len(imports) /\ status["import"] # "Valid"
  BY <1>1 DEF ImportsInv, InImports
<1>5. \A k : Described(k)' <=> Described(k)
  BY <1>1, ImportsStay
<1>6. Described(Len(imports))
  BY <1>2, <1>4 DEF Described
<1>7. (j = Len(module.symbols))' /\ SymbolsUpTo(module, j)'
  BY <1>1, <1>3 DEF SymbolsUpTo
<1>8. \A k \in DOMAIN imports' : ListIsWhole(imports[k])'
  BY <1>1, WholeStays DEF ImportsInv
<1>9. imports' \in Seq(Module) /\ (\A k \in 0 .. (Len(imports') - 1) : Described(k)') /\ Described(Len(imports))'
  BY <1>1, <1>5, <1>6 DEF ImportsInv
<1> QED
  BY <1>1, <1>3, <1>4, <1>7, <1>8, <1>9 DEF ImportsInv

LEMMA StepReadThunk ==
  ASSUME IsImage(image), ImportsInv, ReadThunk
  PROVE  ImportsInv'
<1>1. /\ pc = "thunks" /\ pc' = "thunks" /\ i' = i /\ j' = j + 1
      /\ imports' = imports /\ status' = status /\ image' = image /\ diagnostics \subseteq diagnostics'
  BY DEF ReadThunk, Report, resourceVars
<1>2. /\ j = Len(module.symbols) /\ SymbolsUpTo(module, j) /\ module \in Module
      /\ i = Len(imports) + 1 /\ Described(Len(imports)) /\ status["import"] # "Valid"
      /\ imports \in Seq(Module)
  BY <1>1 DEF ImportsInv, InImports
<1>3. module.lookup \in Nat /\ module.iat \in Nat /\ module.symbols \in Seq(ImportSymbol) /\ j \in Nat
  BY <1>2 DEF Module
<1>4. PICK value \in Thunk(module, j) :
        /\ IsSymbol(value)
        /\ module' = [module EXCEPT !.symbols = Append(@,
             [lookup |-> module.lookup + j * Width, iat |-> module.iat + j * Width,
              byName |-> value < OrdinalFlag])]
  BY DEF ReadThunk
<1> DEFINE symbol == [lookup |-> module.lookup + j * Width, iat |-> module.iat + j * Width,
                      byName |-> value < OrdinalFlag]
           list   == module.symbols
<1>5. symbol \in ImportSymbol
  <2>1. j * Width \in Nat
    BY <1>3 DEF Width
  <2>2. module.lookup + j * Width \in Nat /\ module.iat + j * Width \in Nat
    BY <1>3, <2>1
  <2> QED
    BY <2>2 DEF ImportSymbol
<1>6. module' = [module EXCEPT !.symbols = Append(list, symbol)]
  BY <1>4
<1>7. list \in Seq(ImportSymbol) /\ j = Len(list)
  BY <1>2, <1>3
<1> HIDE DEF symbol, list
<1>8. Append(list, symbol) \in Seq(ImportSymbol) /\ Len(Append(list, symbol)) = j + 1
  BY <1>5, <1>7
<1>9. /\ module' \in Module /\ module'.lookup = module.lookup /\ module'.iat = module.iat
      /\ Len(module'.symbols) = j + 1
  BY <1>2, <1>6, <1>8 DEF Module
<1>10. \A l : Thunk(module', l) = Thunk(module, l)
  BY <1>9 DEF Thunk
<1>11. \A l \in 0 .. j : \E w \in Thunk(module', l) : IsSymbol(w)
  <2> SUFFICES ASSUME NEW l \in 0 .. j PROVE \E w \in Thunk(module, l) : IsSymbol(w)
    BY <1>10
  <2>1. CASE l = j
    BY <1>4, <2>1
  <2>2. CASE l # j
    <3>1. l \in 0 .. (j - 1)
      BY <1>3, <2>2
    <3> QED
      BY <1>2, <3>1 DEF SymbolsUpTo
  <2> QED
    BY <2>1, <2>2
<1>12. \A m : m = module' => SymbolsUpTo(m, j + 1)
  BY <1>3, <1>11 DEF SymbolsUpTo
<1>13. SymbolsUpTo(module, j)'
  <2>1. \A m, n : SymbolsUpTo(m, n)' <=> SymbolsUpTo(m, n)
    BY <1>1, ImportsStay
  <2> QED
    BY <1>1, <1>12, <2>1
<1>14. \A k : Described(k)' <=> Described(k)
  BY <1>1, ImportsStay
<1>15. \A k \in DOMAIN imports' : ListIsWhole(imports[k])'
  BY <1>1, WholeStays DEF ImportsInv
<1>16. /\ imports' \in Seq(Module) /\ (\A k \in 0 .. (Len(imports') - 1) : Described(k)')
       /\ Described(Len(imports))' /\ i' = Len(imports') + 1 /\ j' = Len(module'.symbols)
  BY <1>1, <1>2, <1>9, <1>14 DEF ImportsInv
<1> QED
  BY <1>1, <1>2, <1>9, <1>13, <1>15, <1>16 DEF ImportsInv

LEMMA StepEndThunks ==
  ASSUME ImportsInv, EndThunks
  PROVE  ImportsInv'
<1>1. /\ pc = "thunks" /\ pc' = "descriptors" /\ i' = i /\ module' = module
      /\ imports' = Append(imports, module) /\ status' = status /\ image' = image
      /\ diagnostics \subseteq diagnostics'
      /\ \A value \in Thunk(module, j) : ~IsSymbol(value)
      /\ Thunk(module, j) # {0} => fault("PE_IMPORT_UNTERMINATED", module.lookup) \in diagnostics'
  BY DEF EndThunks, Report, When, resourceVars
<1>2. /\ j = Len(module.symbols) /\ SymbolsUpTo(module, j) /\ module \in Module
      /\ i = Len(imports) + 1 /\ Described(Len(imports)) /\ status["import"] # "Valid"
      /\ imports \in Seq(Module)
  BY <1>1 DEF ImportsInv, InImports
<1>3. \A m : m = module => ListIsWhole(m)'
  <2>1. \A m : (ListIsWhole(m))' <=>
                 /\ SymbolsUpTo(m, Len(m.symbols))
                 /\ \A value \in Thunk(m, Len(m.symbols)) : ~IsSymbol(value)
                 /\ Thunk(m, Len(m.symbols)) = {0} \/ fault("PE_IMPORT_UNTERMINATED", m.lookup) \in diagnostics'
    BY <1>1, ImportsStay DEF ListIsWhole, Ended, fault
  <2> QED
    BY <1>1, <1>2, <2>1
<1>4. /\ imports' \in Seq(Module) /\ Len(imports') = Len(imports) + 1 /\ Len(imports) \in Nat
      /\ imports'[Len(imports) + 1] = module
      /\ \A k \in DOMAIN imports : imports'[k] = imports[k]
      /\ DOMAIN imports' = 1 .. (Len(imports) + 1) /\ DOMAIN imports = 1 .. Len(imports)
  BY <1>1, <1>2
<1>5. \A k \in DOMAIN imports' : ListIsWhole(imports[k])'
  <2> SUFFICES ASSUME NEW k \in DOMAIN imports' PROVE ListIsWhole(imports[k])'
    OBVIOUS
  <2>1. CASE k \in DOMAIN imports
    <3>1. \A m : m = imports[k] => ListIsWhole(m)'
      BY <1>1, <2>1, WholeStays DEF ImportsInv
    <3> QED
      BY <1>4, <2>1, <3>1
  <2>2. CASE k \notin DOMAIN imports
    <3>1. k = Len(imports) + 1
      BY <1>4, <2>2
    <3> QED
      BY <1>3, <1>4, <3>1
  <2> QED
    BY <2>1, <2>2
<1>6. \A k \in 0 .. (Len(imports') - 1) : Described(k)'
  <2>0. \A k : Described(k)' <=> Described(k)
    BY <1>1, ImportsStay
  <2>1. ASSUME NEW k \in 0 .. (Len(imports') - 1)
        PROVE  Described(k)
    <3>1. \A l \in Nat : \A x \in 0 .. (l + 1 - 1) : x = l \/ x \in 0 .. (l - 1)
      OBVIOUS
    <3>2. Len(imports') = Len(imports) + 1 /\ Len(imports) \in Nat
      BY <1>4
    <3>3. k \in 0 .. (Len(imports) + 1 - 1)
      BY <3>2
    <3>4. k = Len(imports) \/ k \in 0 .. (Len(imports) - 1)
      BY <3>1, <3>2, <3>3
    <3> QED
      BY <1>2, <3>4 DEF ImportsInv
  <2> QED
    BY <2>0, <2>1
<1> QED
  BY <1>1, <1>2, <1>4, <1>5, <1>6 DEF ImportsInv

LEMMA StepEndDescriptors ==
  ASSUME JudgedInv, ImportsInv, EndDescriptors
  PROVE  ImportsInv'
<1>1. /\ pc = "descriptors" /\ pc' = "export" /\ imports' = imports /\ module' = module /\ image' = image
      /\ diagnostics \subseteq diagnostics'
      /\ \A o \in DescriptorAt(i) : IsTerminator(o)
      /\ DescriptorAt(i) = {} => fault("PE_IMPORT_UNTERMINATED", dir("import").rva) \in diagnostics'
  BY DEF EndDescriptors, Report, When, Leave, GoTo, Following, resourceVars, tableVars, importVars
<1>2. i = Len(imports) /\ ~Described(Len(imports))
  BY <1>1 DEF ImportsInv, Described
<1>3. \A k : (Described(k)' <=> Described(k)) /\ DescriptorAt(k)' = DescriptorAt(k)
  BY <1>1, ImportsStay
<1>4. dir("import")' = dir("import")
  BY <1>1, ImportsStay
<1>5. \A k \in DOMAIN imports' : ListIsWhole(imports[k])'
  BY <1>1, WholeStays DEF ImportsInv
<1>6. ~Described(Len(imports))' /\ Ended(dir("import").rva, DescriptorAt(Len(imports)) # {})'
  BY <1>1, <1>2, <1>3, <1>4 DEF Ended, fault
<1> QED
  BY <1>1, <1>3, <1>5, <1>6 DEF ImportsInv, InImports

(* The other parsers leave the imports, their status and the complaints    *)
(* about them as they are.                                                 *)
LEMMA StepsOfOthers ==
  ASSUME JudgedInv, [Next]_vars,
         ~(Absent \/ Unmapped \/ EnterImports \/ ReadDescriptor \/ ReadThunk \/ EndThunks \/ EndDescriptors)
  PROVE  \/ UNCHANGED vars
         \/ /\ UNCHANGED <<image, importVars>> /\ diagnostics \subseteq diagnostics'
            /\ status'["import"] = status["import"] /\ pc \notin InImports /\ pc' \notin InImports
<1> USE DEF Enter, GoTo, resourceVars, InImports, Report
<1>0. ASSUME NEW t \in {"export", "relocation", "tls", "debug"}, NEW result, Leave(t, result)
      PROVE  image' = image /\ status'["import"] = status["import"] /\ pc' = Following(t) /\ pc' \notin InImports
  <2>1. status \in [Table \ {"resource"} -> ParseStatus] /\ "import" \in Table \ {"resource"}
    BY DEF JudgedInv, Table
  <2>2. image' = image /\ status' = [status EXCEPT ![t] = result] /\ pc' = Following(t)
    BY <1>0 DEF Leave
  <2> QED
    BY <2>1, <2>2 DEF Following
<1>1. CASE ExportsUnreadable \/ ExportsTooMany \/ EndExports
  BY <1>0, <1>1 DEF ExportsUnreadable, ExportsTooMany, EndExports, tableVars
<1>2. CASE BeginExports \/ ReadFunction \/ EndFunctions \/ ReadName \/ EndNames \/ JoinFunction
  BY <1>2 DEF BeginExports, ReadFunction, EndFunctions, ReadName, EndNames, JoinFunction, tableVars
<1>3. CASE EndBlocks
  <2>1. /\ pc = "blocks" /\ \E result : Leave("relocation", result)
        /\ diagnostics \subseteq diagnostics' /\ UNCHANGED importVars
    BY <1>3 DEF EndBlocks, tableVars
  <2> QED
    BY <1>0, <2>1
<1>4. CASE EnterRelocations \/ BeginBlock \/ ReadEntry \/ EndBlock
  BY <1>4 DEF EnterRelocations, BeginBlock, ReadEntry, EndBlock, tableVars
<1>5. CASE ParseResources
  <2>1. image' = image
    BY <1>5 DEF ParseResources, NextResources, NoResources, ResourcesUnmapped, BeginWalk, TooDeep, TooMany,
       SeenBefore, HeaderMissing, ArrayOutside, OpenDirectory, SkipEntry, EnterChild, SkipData, ReportItem,
       CloseDirectory, EndWalk
  <2>2. pc = "resource" /\ pc' \in {"resource", "tls"} /\ UNCHANGED <<importVars, diagnostics, status>>
    BY <1>5 DEF ParseResources, tableVars
  <2> QED
    BY <2>1, <2>2
<1>6. CASE TLSUnreadable \/ NoCallbacks \/ EndCallbacks
  BY <1>0, <1>6 DEF TLSUnreadable, NoCallbacks, EndCallbacks, AtTLS, tableVars
<1>7. CASE BeginCallbacks \/ ReadCallback
  BY <1>7 DEF BeginCallbacks, ReadCallback, AtTLS, tableVars
<1>8. CASE EndDebug
  <2>1. /\ pc = "debug entries" /\ \E result : Leave("debug", result)
        /\ diagnostics \subseteq diagnostics' /\ UNCHANGED importVars
    BY <1>8 DEF EndDebug, tableVars
  <2> QED
    BY <1>0, <2>1
<1>9. CASE EnterDebug \/ ReadDebugEntry
  BY <1>9 DEF EnterDebug, ReadDebugEntry, tableVars
<1> QED
  BY <1>1, <1>2, <1>3, <1>4, <1>5, <1>6, <1>7, <1>8, <1>9 DEF Next

LEMMA ImportsInductive == Spec => []ImportsInv
<1>1. Init => ImportsInv
  BY DEF Init, ImportsInv, NoModule, Module, Table
<1>2. JudgedInv /\ ImportsInv /\ [Next]_vars => ImportsInv'
  <2> SUFFICES ASSUME JudgedInv, ImportsInv, [Next]_vars PROVE ImportsInv'
    OBVIOUS
  <2>1. IsImage(image)
    BY DEF JudgedInv
  <2>2. CASE UNCHANGED vars
    <3>1. UNCHANGED <<image, imports, module, pc, i, j, status, diagnostics>>
      BY <2>2 DEF vars, resourceVars, tableVars, importVars
    <3>2. \A k : (Described(k)' <=> Described(k)) /\ DescriptorAt(k)' = DescriptorAt(k)
      BY <3>1, ImportsStay
    <3>3. dir("import")' = dir("import") /\ \A m, k : SymbolsUpTo(m, k)' <=> SymbolsUpTo(m, k)
      BY <3>1, ImportsStay
    <3> QED
      BY <3>1, <3>2, <3>3, WholeStays DEF ImportsInv, Ended
  <2> QED
    BY <2>1, <2>2, StepsToNoImports, StepEnterImports, StepReadDescriptor, StepReadThunk, StepEndThunks,
       StepEndDescriptors, StepsOfOthers, StepsElsewhere
<1> QED
  BY <1>1, <1>2, JudgedInductive, PTL DEF Spec

(* The lists of libraries and symbols end where the file ends them, at a   *)
(* zero, or it is said that they do not, for every file and every limit.   *)
THEOREM ImportsCorrect == Spec => []ImportsEndForAReason
<1>1. ImportsInv => ImportsEndForAReason
  BY DEF ImportsInv, ImportsEndForAReason, ListIsWhole, SymbolsUpTo, Ended, Described
<1> QED
  BY <1>1, ImportsInductive, PTL

(***************************************************************************)
(* The names of the exports                                                *)
(***************************************************************************)
ExportName == [name : Nat, ordinal : Nat]
NoName == [name |-> 0, ordinal |-> 0]
Export == [rva : Nat, name : SUBSET Nat, forwarder : BOOLEAN]

InExports == {"functions", "names", "exports"}

(* So many names were read, the others are as the vectors began.           *)
ReadUpTo(count) ==
  /\ count \in 0 .. Len(names)
  /\ \A k \in 0 .. (count - 1) : NameAt(k) = {names[k + 1]}
  /\ \A n \in (count + 1) .. Len(names) : names[n] = NoName

(* The loop over the names is over. *)
NamesAreRead ==
  \E count \in 0 .. Len(names) : ReadUpTo(count) /\ (count = Len(names) \/ NameAt(count) = {})

ExportsInv ==
  /\ names \in Seq(ExportName) /\ functions \in Seq(Nat) /\ exports \in Seq(Export)
  /\ pc \in InExports \/ exports # <<>> =>
       HeaderOf("export", 40) # {} /\ Len(names) = NameCount(ExportHeader)
  /\ pc \notin {"exports"} \cup PastExport => exports = <<>>
  /\ pc \in {"functions", "names"} => i \in Nat
  /\ pc = "functions" => ReadUpTo(0)
  /\ pc = "names" => ReadUpTo(i)
  /\ pc = "exports" \/ exports # <<>> => NamesAreRead
  /\ pc = "exports" => i = Len(exports)
  /\ \A k \in DOMAIN exports : exports[k].name = NamesOf(k - 1)

LEMMA ExportsStay ==
  ASSUME UNCHANGED image
  PROVE  /\ HeaderOf("export", 40)' = HeaderOf("export", 40) /\ ExportHeader' = ExportHeader
         /\ \A o : NameCount(o)' = NameCount(o)
         /\ \A k : NameAt(k)' = NameAt(k)
<1>1. HeaderOf("export", 40)' = HeaderOf("export", 40)
  BY DEF HeaderOf, dir
<1>2. ExportHeader' = ExportHeader
  BY <1>1 DEF ExportHeader
<1> QED
  BY <1>1, <1>2 DEF NameCount, NameAt

LEMMA NamesStay ==
  ASSUME UNCHANGED <<image, names>>
  PROVE  /\ \A count : ReadUpTo(count)' <=> ReadUpTo(count)
         /\ NamesAreRead' <=> NamesAreRead
         /\ \A index : NamesOf(index)' = NamesOf(index)
<1>1. \A k : NameAt(k)' = NameAt(k)
  BY ExportsStay
<1>2. \A count : ReadUpTo(count)' <=> ReadUpTo(count)
  BY <1>1 DEF ReadUpTo
<1>3. \A index : NamesOf(index)' = NamesOf(index)
  BY DEF NamesOf
<1> QED
  BY <1>1, <1>2, <1>3 DEF NamesAreRead

(* What is read by address is there at most once and is a number. *)
LEMMA FetchFacts ==
  ASSUME IsImage(image), NEW address \in Nat, NEW length
  PROVE  /\ Fetch(image, address, length) \subseteq Nat
         /\ \A x, y \in Fetch(image, address, length) : x = y
BY ImageFacts, WindowFacts DEF Fetch

LEMMA ExportFacts ==
  ASSUME IsImage(image)
  PROVE  /\ \A k \in Nat : FunctionAt(k) \subseteq Nat
         /\ \A k \in Nat : NameAt(k) \subseteq ExportName /\ \A x, y \in NameAt(k) : x = y
<1>0. \A o : Word(image, o) \in Nat
  BY ImageFacts
<1>1. ASSUME NEW k \in Nat
      PROVE  FunctionAt(k) \subseteq Nat
  <2>1. Word(image, ExportHeader + 28) + k * 4 \in Nat
    BY <1>0
  <2> QED
    BY <2>1, FetchFacts DEF FunctionAt
<1>2. ASSUME NEW k \in Nat
      PROVE  NameAt(k) \subseteq ExportName /\ \A x, y \in NameAt(k) : x = y
  <2> DEFINE N == Fetch(image, Word(image, ExportHeader + 32) + k * 4, 4)
             O == Fetch(image, Word(image, ExportHeader + 36) + k * 2, 2)
  <2>1. /\ Word(image, ExportHeader + 32) + k * 4 \in Nat
        /\ Word(image, ExportHeader + 36) + k * 2 \in Nat
    BY <1>0
  <2>2. /\ N \subseteq Nat /\ \A x, y \in N : x = y
        /\ O \subseteq Nat /\ \A x, y \in O : x = y
    BY <2>1, FetchFacts
  <2>3. NameAt(k) = {[name |-> n, ordinal |-> o] : n \in N, o \in O}
    BY DEF NameAt
  <2> HIDE DEF N, O
  <2> QED
    BY <2>2, <2>3 DEF ExportName
<1> QED
  BY <1>1, <1>2

(* Steps that leave the exports alone. *)
LEMMA StepsBesideExports ==
  ASSUME ExportsInv, UNCHANGED <<image, exportVars>>,
         pc' \in InExports => pc' = pc /\ i' = i,
         pc' \notin {"exports"} \cup PastExport => pc \notin {"exports"} \cup PastExport
  PROVE  ExportsInv'
<1>1. names' = names /\ functions' = functions /\ exports' = exports /\ image' = image
  BY DEF exportVars
<1>2. /\ HeaderOf("export", 40)' = HeaderOf("export", 40) /\ ExportHeader' = ExportHeader
      /\ \A o : NameCount(o)' = NameCount(o)
  BY <1>1, ExportsStay
<1>3. /\ \A count : ReadUpTo(count)' <=> ReadUpTo(count)
      /\ NamesAreRead' <=> NamesAreRead
      /\ \A index : NamesOf(index)' = NamesOf(index)
  BY <1>1, NamesStay
<1>4. NameCount(ExportHeader)' = NameCount(ExportHeader)
  BY <1>1, <1>2 DEF NameCount
<1>5. ReadUpTo(0)' <=> ReadUpTo(0)
  BY <1>3
<1>6. pc' = "names" => (ReadUpTo(i)' <=> ReadUpTo(i))
  BY <1>3 DEF InExports
<1>7. pc' = pc /\ i' = i => (ReadUpTo(i)' <=> ReadUpTo(i))
  BY <1>3
<1>8. pc \in InExports \/ exports # <<>> =>
       HeaderOf("export", 40) # {} /\ Len(names) = NameCount(ExportHeader)
  BY DEF ExportsInv
<1> QED
  BY <1>1, <1>2, <1>3, <1>4, <1>5, <1>6, <1>8 DEF ExportsInv, InExports

LEMMA StepBeginExports ==
  ASSUME IsImage(image), ExportsInv, BeginExports
  PROVE  ExportsInv'
<1>1. /\ pc = "export" /\ pc' = "functions" /\ i' = 0 /\ image' = image /\ exports' = exports
  BY DEF BeginExports, GoTo, resourceVars
<1>2. PICK o \in HeaderOf("export", 40) :
        /\ functions' = [k \in 1 .. FunctionCount(o) |-> 0]
        /\ names' = [k \in 1 .. NameCount(o) |-> [name |-> 0, ordinal |-> 0]]
  BY DEF BeginExports
<1>3. exports = <<>>
  BY <1>1 DEF ExportsInv, PastExport, PastRelocation, PastResource, PastTLS
<1>4. o = ExportHeader
  <2>1. dir("export") \in Directory
    BY DEF IsImage, dir, Table
  <2>2. dir("export").rva \in Nat
    BY <2>1, RvaAssumption DEF Directory, Rva
  <2>3. \A x, y \in HeaderOf("export", 40) : x = y
    BY <2>2, WindowFacts DEF HeaderOf
  <2> QED
    BY <2>3 DEF ExportHeader
<1>5. FunctionCount(o) \in Nat /\ NameCount(o) \in Nat
  <2>1. \A x : Word(image, x) \in Nat
    BY ImageFacts
  <2> QED
    BY <2>1 DEF FunctionCount, NameCount
<1>6. functions' \in Seq(Nat) /\ names' \in Seq(ExportName) /\ Len(names') = NameCount(o)
  <2>1. functions' \in Seq(Nat)
    BY <1>2, <1>5
  <2> DEFINE count == NameCount(o)
             none  == [name |-> 0, ordinal |-> 0]
  <2>2. names' = [k \in 1 .. count |-> none] /\ none \in ExportName /\ count \in Nat
    BY <1>2, <1>5 DEF ExportName
  <2> HIDE DEF count, none
  <2>3. names' \in Seq(ExportName) /\ Len(names') = count
    BY <2>2
  <2> QED
    BY <2>1, <2>3 DEF count
<1>7. \A n \in 1 .. NameCount(o) : names'[n] = NoName
  BY <1>2 DEF NoName
<1>8. ReadUpTo(0)'
  BY <1>5, <1>6, <1>7 DEF ReadUpTo
<1>9. (HeaderOf("export", 40) # {} /\ Len(names) = NameCount(ExportHeader))'
  <2>1. ExportHeader' = ExportHeader /\ HeaderOf("export", 40)' = HeaderOf("export", 40)
    BY <1>1, ExportsStay
  <2>2. NameCount(ExportHeader)' = NameCount(ExportHeader)
    BY <1>1, <2>1 DEF NameCount
  <2> QED
    BY <1>2, <1>4, <1>6, <2>1, <2>2
<1>10. exports' = <<>> /\ exports' \in Seq(Export)
  BY <1>1, <1>3
<1> QED
  BY <1>1, <1>6, <1>8, <1>9, <1>10 DEF ExportsInv

LEMMA StepReadFunction ==
  ASSUME IsImage(image), ExportsInv, ReadFunction
  PROVE  ExportsInv'
<1>1. /\ pc = "functions" /\ pc' = "functions" /\ i' = i + 1 /\ image' = image /\ names' = names
      /\ exports' = exports /\ i < Len(functions)
  BY DEF ReadFunction, resourceVars
<1>2. i \in Nat /\ functions \in Seq(Nat)
  BY <1>1 DEF ExportsInv
<1>3. PICK rva \in FunctionAt(i) : functions' = [functions EXCEPT ![i + 1] = rva]
  BY DEF ReadFunction
<1>4. functions' \in Seq(Nat)
  <2>1. rva \in Nat
    BY <1>2, ExportFacts
  <2> QED
    BY <1>1, <1>2, <1>3, <2>1
<1>5. /\ HeaderOf("export", 40)' = HeaderOf("export", 40) /\ ExportHeader' = ExportHeader
      /\ \A o : NameCount(o)' = NameCount(o)
  BY <1>1, ExportsStay
<1>6. NameCount(ExportHeader)' = NameCount(ExportHeader)
  BY <1>1, <1>5 DEF NameCount
<1>7. /\ \A count : ReadUpTo(count)' <=> ReadUpTo(count)
      /\ NamesAreRead' <=> NamesAreRead
      /\ \A index : NamesOf(index)' = NamesOf(index)
  BY <1>1, NamesStay
<1>8. ReadUpTo(0)'
  BY <1>1, <1>7 DEF ExportsInv
<1>9. i' \in Nat
  BY <1>1, <1>2
<1>10. exports = <<>>
  BY <1>1 DEF ExportsInv, PastExport, PastRelocation, PastResource, PastTLS
<1>11. HeaderOf("export", 40) # {} /\ Len(names) = NameCount(ExportHeader)
  BY <1>1 DEF ExportsInv, InExports
<1> QED
  BY <1>1, <1>4, <1>5, <1>6, <1>8, <1>9, <1>10, <1>11 DEF ExportsInv

LEMMA StepEndFunctions ==
  ASSUME ExportsInv, EndFunctions
  PROVE  ExportsInv'
<1>1. /\ pc = "functions" /\ pc' = "names" /\ i' = 0 /\ image' = image /\ names' = names
      /\ exports' = exports /\ functions' = functions
  BY DEF EndFunctions, GoTo, resourceVars, tableVars, exportVars
<1>2. /\ HeaderOf("export", 40)' = HeaderOf("export", 40) /\ ExportHeader' = ExportHeader
      /\ \A o : NameCount(o)' = NameCount(o)
  BY <1>1, ExportsStay
<1>3. NameCount(ExportHeader)' = NameCount(ExportHeader)
  BY <1>1, <1>2 DEF NameCount
<1>4. \A count : ReadUpTo(count)' <=> ReadUpTo(count)
  BY <1>1, NamesStay
<1>5. \A count : count = 0 => ReadUpTo(count)'
  BY <1>1, <1>4 DEF ExportsInv
<1>6. ReadUpTo(i)'
  BY <1>1, <1>5
<1>7. exports = <<>>
  BY <1>1 DEF ExportsInv, PastExport, PastRelocation, PastResource, PastTLS
<1>8. HeaderOf("export", 40) # {} /\ Len(names) = NameCount(ExportHeader)
  BY <1>1 DEF ExportsInv, InExports
<1> QED
  BY <1>1, <1>2, <1>3, <1>6, <1>7, <1>8 DEF ExportsInv

LEMMA StepReadName ==
  ASSUME IsImage(image), ExportsInv, ReadName
  PROVE  ExportsInv'
<1>1. /\ pc = "names" /\ pc' = "names" /\ i' = i + 1 /\ image' = image /\ functions' = functions
      /\ exports' = exports /\ i < Len(names)
  BY DEF ReadName, resourceVars
<1>2. i \in Nat /\ names \in Seq(ExportName) /\ ReadUpTo(i)
  BY <1>1 DEF ExportsInv
<1>3. PICK entry \in NameAt(i) : names' = [names EXCEPT ![i + 1] = entry]
  BY DEF ReadName
<1>4. NameAt(i) = {entry} /\ entry \in ExportName
  BY <1>2, <1>3, ExportFacts
<1>5. /\ names' \in Seq(ExportName) /\ Len(names') = Len(names) /\ Len(names) \in Nat
      /\ \A n \in 1 .. Len(names) : names'[n] = IF n = i + 1 THEN entry ELSE names[n]
  BY <1>1, <1>2, <1>3, <1>4
<1>6. \A count : count = i + 1 => ReadUpTo(count)'
  <2>1. i + 1 \in 0 .. Len(names')
    BY <1>1, <1>2, <1>5
  <2>2. ASSUME NEW k \in 0 .. i
        PROVE  NameAt(k) = {names'[k + 1]}
    <3>2. k + 1 \in 1 .. Len(names)
      BY <1>1, <1>2, <1>5
    <3>3. CASE k = i
      BY <1>4, <1>5, <3>2, <3>3
    <3>4. CASE k # i
      <4>1. k \in 0 .. (i - 1) /\ k + 1 # i + 1
        BY <1>2, <3>4
      <4>2. NameAt(k) = {names[k + 1]}
        BY <1>2, <4>1 DEF ReadUpTo
      <4> QED
        BY <1>5, <3>2, <4>1, <4>2
    <3> QED
      BY <3>3, <3>4
  <2>3. ASSUME NEW n \in (i + 2) .. Len(names)
        PROVE  names'[n] = NoName
    <3>1. n \in (i + 1) .. Len(names) /\ n \in 1 .. Len(names) /\ n # i + 1
      BY <1>2, <1>5
    <3> QED
      BY <1>2, <1>5, <3>1 DEF ReadUpTo
  <2>4. i + 1 - 1 = i /\ i + 1 + 1 = i + 2
    BY <1>2
  <2>6. \A n \in (i + 1 + 1) .. Len(names') : names'[n] = NoName
    BY <1>5, <2>3, <2>4
  <2>7. ASSUME NEW count, count = i + 1
        PROVE  ReadUpTo(count)'
    <3>1. count \in 0 .. Len(names')
      BY <2>1, <2>7
    <3>2. \A k \in 0 .. (count - 1) : NameAt(k) = {names'[k + 1]}
      <4>1. count - 1 = i
        BY <1>2, <2>7
      <4> QED
        BY <2>2, <4>1, Zenon
    <3>3. \A n \in (count + 1) .. Len(names') : names'[n] = NoName
      BY <2>6, <2>7, Zenon
    <3>4. \A k : NameAt(k)' = NameAt(k)
      BY <1>1, ExportsStay
    <3> QED
      BY <3>1, <3>2, <3>3, <3>4 DEF ReadUpTo
  <2> QED
    BY <2>7
<1>8. ReadUpTo(i)'
  BY <1>1, <1>6
<1>9. /\ HeaderOf("export", 40)' = HeaderOf("export", 40) /\ ExportHeader' = ExportHeader
      /\ \A o : NameCount(o)' = NameCount(o)
  BY <1>1, ExportsStay
<1>10. NameCount(ExportHeader)' = NameCount(ExportHeader)
  BY <1>1, <1>9 DEF NameCount
<1>11. exports = <<>>
  BY <1>1 DEF ExportsInv, PastExport, PastRelocation, PastResource, PastTLS
<1>12. HeaderOf("export", 40) # {} /\ Len(names) = NameCount(ExportHeader)
  BY <1>1 DEF ExportsInv, InExports
<1>13. i' \in Nat
  BY <1>1, <1>2
<1> QED
  BY <1>1, <1>5, <1>8, <1>9, <1>10, <1>11, <1>12, <1>13 DEF ExportsInv

LEMMA StepEndNames ==
  ASSUME ExportsInv, EndNames
  PROVE  ExportsInv'
<1>1. /\ pc = "names" /\ pc' = "exports" /\ i' = 0 /\ image' = image /\ names' = names
      /\ exports' = exports /\ functions' = functions /\ (i = Len(names) \/ NameAt(i) = {})
  BY DEF EndNames, GoTo, resourceVars, tableVars, exportVars
<1>2. /\ HeaderOf("export", 40)' = HeaderOf("export", 40) /\ ExportHeader' = ExportHeader
      /\ \A o : NameCount(o)' = NameCount(o)
  BY <1>1, ExportsStay
<1>3. NameCount(ExportHeader)' = NameCount(ExportHeader)
  BY <1>1, <1>2 DEF NameCount
<1>4. NamesAreRead
  BY <1>1 DEF ExportsInv, NamesAreRead, ReadUpTo
<1>5. NamesAreRead'
  BY <1>1, <1>4, NamesStay
<1>6. exports = <<>>
  BY <1>1 DEF ExportsInv, PastExport, PastRelocation, PastResource, PastTLS
<1>7. HeaderOf("export", 40) # {} /\ Len(names) = NameCount(ExportHeader)
  BY <1>1 DEF ExportsInv, InExports
<1> QED
  BY <1>1, <1>2, <1>3, <1>5, <1>6, <1>7 DEF ExportsInv

LEMMA StepJoinFunction ==
  ASSUME ExportsInv, JoinFunction
  PROVE  ExportsInv'
<1> DEFINE new == [rva |-> functions[i + 1], name |-> NamesOf(i), forwarder |-> IsForwarder(functions[i + 1])]
<1>1. /\ pc = "exports" /\ pc' = "exports" /\ i' = i + 1 /\ image' = image /\ names' = names
      /\ functions' = functions /\ i < Len(functions) /\ exports' = Append(exports, new)
  BY DEF JoinFunction, resourceVars
<1>2. /\ names \in Seq(ExportName) /\ functions \in Seq(Nat) /\ exports \in Seq(Export) /\ i = Len(exports)
      /\ HeaderOf("export", 40) # {} /\ Len(names) = NameCount(ExportHeader) /\ NamesAreRead
      /\ \A k \in DOMAIN exports : exports[k].name = NamesOf(k - 1)
  BY <1>1 DEF ExportsInv, InExports
<1>3. i \in Nat /\ functions[i + 1] \in Nat
  <2>1. i \in Nat
    BY <1>2
  <2>2. functions \in Seq(Nat)
    BY <1>2
  <2>3. i < Len(functions)
    BY <1>1
  <2> QED
    BY <2>1, <2>2, <2>3
<1>4. NamesOf(i) \subseteq Nat
  <2>0. \A n \in DOMAIN names : names[n] \in ExportName
    BY <1>2
  <2>1. \A n \in DOMAIN names : names[n].name \in Nat
    BY <2>0 DEF ExportName
  <2>2. \A S : FirstOf(S) \subseteq S
    BY DEF FirstOf
  <2> QED
    BY <2>1, <2>2 DEF NamesOf
<1>5. IsForwarder(functions[i + 1]) \in BOOLEAN
  BY DEF IsForwarder
<1>6. new \in Export /\ new.name = NamesOf(i)
  BY <1>3, <1>4, <1>5 DEF Export
<1> HIDE DEF new
<1>7. /\ exports' \in Seq(Export) /\ Len(exports') = i + 1
      /\ exports'[i + 1] = new /\ \A k \in 1 .. i : exports'[k] = exports[k]
      /\ DOMAIN exports' = 1 .. (i + 1) /\ DOMAIN exports = 1 .. i
  BY <1>1, <1>2, <1>6
<1>8. /\ NamesAreRead' /\ \A index : NamesOf(index)' = NamesOf(index)
  BY <1>1, <1>2, NamesStay
<1>9. \A k \in DOMAIN exports' : exports'[k].name = NamesOf(k - 1)'
  <2>1. ASSUME NEW k \in DOMAIN exports'
        PROVE  exports'[k].name = NamesOf(k - 1)
    <3>1. CASE k \in 1 .. i
      BY <1>2, <1>7, <3>1
    <3>2. CASE k \notin 1 .. i
      <4>1. k = i + 1 /\ k - 1 = i
        BY <1>3, <1>7, <3>2
      <4> QED
        BY <1>6, <1>7, <4>1
    <3> QED
      BY <3>1, <3>2
  <2> QED
    BY <1>8, <2>1
<1>10. /\ HeaderOf("export", 40)' = HeaderOf("export", 40) /\ ExportHeader' = ExportHeader
       /\ \A o : NameCount(o)' = NameCount(o)
  BY <1>1, ExportsStay
<1>11. NameCount(ExportHeader)' = NameCount(ExportHeader)
  BY <1>1, <1>10 DEF NameCount
<1> QED
  BY <1>1, <1>2, <1>7, <1>8, <1>9, <1>10, <1>11 DEF ExportsInv

(* The other parsers leave the exports as they are. *)
LEMMA StepsOfOtherParsers ==
  ASSUME [Next]_vars,
         ~(BeginExports \/ ReadFunction \/ EndFunctions \/ ReadName \/ EndNames \/ JoinFunction)
  PROVE  /\ UNCHANGED <<image, exportVars>>
         /\ pc' \in InExports => pc' = pc /\ i' = i
         /\ pc' \notin {"exports"} \cup PastExport => pc \notin {"exports"} \cup PastExport
<1> USE DEF Leave, Enter, GoTo, resourceVars, InExports, PastExport, PastRelocation, PastResource, PastTLS
<1>1. CASE Absent \/ Unmapped
  <2>1. /\ pc \in Parser /\ pc' = Following(pc) /\ UNCHANGED <<image, exportVars>>
    BY <1>1 DEF Absent, Unmapped, tableVars
  <2> QED
    BY <2>1 DEF Parser, Following
<1>2. CASE EnterImports \/ ReadDescriptor \/ ReadThunk \/ EndThunks \/ EndDescriptors
  <2>1. /\ UNCHANGED <<image, exportVars>> /\ pc \in {"import", "descriptors", "thunks"}
        /\ pc' \in {"descriptors", "thunks", "export"}
    BY <1>2 DEF EnterImports, ReadDescriptor, ReadThunk, EndThunks, EndDescriptors, tableVars, Following
  <2> QED
    BY <2>1
<1>3. CASE ExportsUnreadable \/ ExportsTooMany \/ EndExports
  <2>1. UNCHANGED <<image, exportVars>> /\ pc' = "relocation"
    BY <1>3 DEF ExportsUnreadable, ExportsTooMany, EndExports, tableVars, Following
  <2> QED
    BY <2>1
<1>4. CASE EnterRelocations \/ BeginBlock \/ ReadEntry \/ EndBlock \/ EndBlocks
  <2>1. UNCHANGED <<image, exportVars>> /\ pc' \in {"blocks", "entries", "resource"}
    BY <1>4 DEF EnterRelocations, BeginBlock, ReadEntry, EndBlock, EndBlocks, tableVars, Following
  <2> QED
    BY <2>1
<1>5. CASE ParseResources
  <2>1. pc' \in {"resource", "tls"} /\ UNCHANGED exportVars
    BY <1>5 DEF ParseResources, tableVars
  <2>2. image' = image
    BY <1>5 DEF ParseResources, NextResources, NoResources, ResourcesUnmapped, BeginWalk, TooDeep, TooMany,
       SeenBefore, HeaderMissing, ArrayOutside, OpenDirectory, SkipEntry, EnterChild, SkipData, ReportItem,
       CloseDirectory, EndWalk
  <2> QED
    BY <2>1, <2>2
<1>6. CASE TLSUnreadable \/ NoCallbacks \/ BeginCallbacks \/ ReadCallback \/ EndCallbacks
  <2>1. pc' \in {"callbacks", "debug"} /\ UNCHANGED <<image, exportVars>>
    BY <1>6 DEF TLSUnreadable, NoCallbacks, BeginCallbacks, ReadCallback, EndCallbacks, tableVars, Following
  <2> QED
    BY <2>1
<1>7. CASE EnterDebug \/ ReadDebugEntry \/ EndDebug
  <2>1. pc' \in {"debug entries", "done"} /\ UNCHANGED <<image, exportVars>>
    BY <1>7 DEF EnterDebug, ReadDebugEntry, EndDebug, tableVars, Following
  <2> QED
    BY <2>1
<1>8. CASE UNCHANGED vars
  BY <1>8 DEF vars, tableVars
<1> QED
  BY <1>1, <1>2, <1>3, <1>4, <1>5, <1>6, <1>7, <1>8 DEF Next

LEMMA ExportsInductive == Spec => []ExportsInv
<1>1. Init => ExportsInv
  BY DEF Init, ExportsInv, InExports
<1>2. JudgedInv /\ ExportsInv /\ [Next]_vars => ExportsInv'
  <2> SUFFICES ASSUME JudgedInv, ExportsInv, [Next]_vars PROVE ExportsInv'
    OBVIOUS
  <2>1. IsImage(image)
    BY DEF JudgedInv
  <2> QED
    BY <2>1, StepBeginExports, StepReadFunction, StepEndFunctions, StepReadName, StepEndNames,
       StepJoinFunction, StepsOfOtherParsers, StepsBesideExports
<1> QED
  BY <1>1, <1>2, JudgedInductive, PTL DEF Spec

(* Every set of natural numbers that is not empty has a least element. *)
LEMMA LeastNumber ==
  ASSUME NEW T, T \subseteq Nat, T # {}
  PROVE  \E x \in T : \A y \in T : x <= y
<1>1. PICK x \in T : \A y \in T : ~(<<y, x>> \in OpToRel(<, Nat))
  BY NatLessThanWellFounded, WFMin
<1>2. \A y \in T : <<y, x>> \in OpToRel(<, Nat) <=> y < x
  BY DEF OpToRel
<1>3. \A y \in T : ~(y < x)
  BY <1>1, <1>2
<1>4. \A y \in T : y \in Int /\ x \in Int
  OBVIOUS
<1> QED
  BY <1>3, <1>4

LEMMA FirstFacts ==
  /\ \A S : FirstOf(S) \subseteq S
  /\ \A S \in SUBSET Nat : S # {} => FirstOf(S) # {}
  /\ \A S \in SUBSET Nat : \A x \in S : (\A y \in S : x <= y) => FirstOf(S) = {x}
<1>1. ASSUME NEW S \in SUBSET Nat, S # {}
      PROVE  FirstOf(S) # {}
  BY <1>1, LeastNumber DEF FirstOf
<1>2. ASSUME NEW S \in SUBSET Nat, NEW x \in S, \A y \in S : x <= y
      PROVE  FirstOf(S) = {x}
  <2>1. x \in FirstOf(S)
    BY <1>2 DEF FirstOf
  <2>2. \A y \in FirstOf(S) : y \in Nat /\ x \in Nat /\ y <= x /\ x <= y
    BY <1>2 DEF FirstOf
  <2>3. \A y \in FirstOf(S) : y = x
    BY <2>2
  <2> QED
    BY <2>1, <2>3
<1> QED
  BY <1>1, <1>2 DEF FirstOf

(* The name of an exported function is the one that the file declares      *)
(* first for it, of the names before the first one that cannot be read.    *)
LEMMA NamesFollow ==
  ASSUME IsImage(image), ExportsInv
  PROVE  ExportNamesAreDeclared
<1> SUFFICES ASSUME NEW k \in DOMAIN exports
    PROVE
      LET readable == {n \in 0 .. (NameCount(ExportHeader) - 1) : \A l \in 0 .. n : NameAt(l) # {}}
          mine     == FirstOf({n \in readable : \E e \in NameAt(n) : e.ordinal = k - 1})
          declared == UNION {{e.name : e \in NameAt(n)} : n \in mine}
          missing  == k = 1 /\ mine = {} /\ Cardinality(readable) < NameCount(ExportHeader)
      IN  exports[k].name = {a \in IF missing THEN {0} ELSE declared : HasText(image, a)}
  BY DEF ExportNamesAreDeclared
<1> DEFINE N        == NameCount(ExportHeader)
           index    == k - 1
           readable == {n \in 0 .. (N - 1) : \A l \in 0 .. n : NameAt(l) # {}}
           A        == {n \in readable : \E e \in NameAt(n) : e.ordinal = index}
           mine     == FirstOf(A)
           declared == UNION {{e.name : e \in NameAt(n)} : n \in mine}
           missing  == k = 1 /\ mine = {} /\ Cardinality(readable) < N
           L        == {l \in DOMAIN names : names[l].ordinal = index}
<1>1. /\ exports \in Seq(Export) /\ names \in Seq(ExportName) /\ exports # <<>>
      /\ Len(names) = N /\ NamesAreRead /\ exports[k].name = NamesOf(index)
  BY DEF ExportsInv
<1>2. k \in Nat \ {0} /\ index \in Nat /\ (index = 0 <=> k = 1)
  BY <1>1
<1>3. N \in Nat /\ DOMAIN names = 1 .. N
  BY <1>1
<1>4. PICK R \in 0 .. N : ReadUpTo(R) /\ (R = N \/ NameAt(R) = {})
  BY <1>1 DEF NamesAreRead
<1>5. /\ \A n \in 0 .. (R - 1) : NameAt(n) = {names[n + 1]}
      /\ \A n \in (R + 1) .. N : names[n] = NoName
  BY <1>1, <1>4 DEF ReadUpTo
<1> HIDE DEF N, index
<1>6. readable = 0 .. (R - 1)
  <2>1. ASSUME NEW n \in readable
        PROVE  n \in 0 .. (R - 1)
    <3>1. n \in 0 .. (N - 1) /\ \A l \in 0 .. n : NameAt(l) # {}
      OBVIOUS
    <3>2. ASSUME ~(n \in 0 .. (R - 1))
          PROVE  FALSE
      <4>1. R \in 0 .. n /\ R # N
        BY <1>3, <3>1, <3>2
      <4> QED
        BY <1>4, <3>1, <4>1
    <3> QED
      BY <3>2
  <2>2. ASSUME NEW n \in 0 .. (R - 1)
        PROVE  n \in readable
    <3>1. n \in 0 .. (N - 1) /\ \A l \in 0 .. n : l \in 0 .. (R - 1)
      BY <1>3
    <3> QED
      BY <1>5, <3>1
  <2> QED
    BY <2>1, <2>2
<1> HIDE DEF readable
<1>7. \A n \in 0 .. (R - 1) : n \in A <=> names[n + 1].ordinal = index
  BY <1>5, <1>6
<1>8. A \subseteq 0 .. (R - 1)
  BY <1>6
<1>9. /\ \A l \in 1 .. N : l \in L <=> names[l].ordinal = index
      /\ L \subseteq 1 .. N
  BY <1>3
<1>10. NamesOf(index) = {names[n].name : n \in {m \in FirstOf(L) : HasText(image, names[m].name)}}
  BY DEF NamesOf
<1> HIDE DEF A, L
<1>11. \A n \in A : n + 1 \in L /\ n + 1 <= R
  <2> SUFFICES ASSUME NEW n \in A PROVE n + 1 \in L /\ n + 1 <= R
    OBVIOUS
  <2>1. n \in 0 .. (R - 1) /\ n + 1 \in 1 .. N /\ n + 1 <= R
    BY <1>3, <1>8
  <2> QED
    BY <1>7, <1>9, <2>1
<1>12. \A l \in L : l <= R => l - 1 \in A
  <2> SUFFICES ASSUME NEW l \in L, l <= R PROVE l - 1 \in A
    OBVIOUS
  <2>1. l \in 1 .. N /\ l - 1 \in 0 .. (R - 1) /\ l - 1 + 1 = l
    BY <1>3, <1>9
  <2> QED
    BY <1>7, <1>9, <2>1
<1>13. \A l \in (R + 1) .. N : l \in L <=> k = 1
  <2> SUFFICES ASSUME NEW l \in (R + 1) .. N PROVE l \in L <=> k = 1
    OBVIOUS
  <2>1. l \in 1 .. N
    BY <1>3
  <2>2. names[l].ordinal = 0
    BY <1>5 DEF NoName
  <2> QED
    BY <1>2, <1>9, <2>1, <2>2
<1>14. A \in SUBSET Nat /\ L \in SUBSET Nat
  BY <1>8, <1>9
<1>15. CASE A # {}
  <2>1. PICK a \in A : \A y \in A : a <= y
    BY <1>14, <1>15, LeastNumber
  <2>2. mine = {a}
    BY <1>14, <2>1, FirstFacts
  <2>3. \A l \in L : a + 1 <= l
    <3> SUFFICES ASSUME NEW l \in L PROVE a + 1 <= l
      OBVIOUS
    <3>1. l \in Nat /\ a \in Nat /\ a + 1 <= R
      BY <1>11, <1>14, <2>1
    <3>2. CASE l <= R
      <4>1. a <= l - 1
        BY <1>12, <2>1, <3>2
      <4> QED
        BY <3>1, <4>1
    <3>3. CASE ~(l <= R)
      BY <3>1, <3>3
    <3> QED
      BY <3>2, <3>3
  <2>4. FirstOf(L) = {a + 1}
    BY <1>11, <1>14, <2>1, <2>3, FirstFacts
  <2>5. NameAt(a) = {names[a + 1]}
    BY <1>5, <1>8, <2>1
  <2>6. ~missing
    BY <2>2
  <2>7. declared = {names[a + 1].name}
    BY <2>2, <2>5
  <2>8. NamesOf(index) = {x \in {names[a + 1].name} : HasText(image, x)}
    BY <1>10, <2>4
  <2> QED
    BY <1>1, <2>6, <2>7, <2>8 DEF A, readable, N, index
<1>16. CASE A = {}
  <2>1. mine = {}
    BY <1>16, FirstFacts
  <2>2. Cardinality(readable) = R
    <3>1. R \in Int /\ R - 1 \in Int
      OBVIOUS
    <3>2. Cardinality(0 .. (R - 1)) = IF 0 > R - 1 THEN 0 ELSE R - 1 - 0 + 1
      BY <3>1, FS_Interval
    <3> QED
      BY <1>6, <3>1, <3>2
  <2>3. declared = {}
    BY <2>1
  <2>4. CASE k = 1 /\ R < N
    <3>1. missing
      BY <2>1, <2>2, <2>4
    <3>2. R + 1 \in (R + 1) .. N
      BY <1>3, <2>4
    <3>3. R + 1 \in L /\ names[R + 1].name = 0
      BY <1>5, <1>13, <2>4, <3>2 DEF NoName
    <3>4. \A l \in L : R + 1 <= l
      <4> SUFFICES ASSUME NEW l \in L PROVE R + 1 <= l
        OBVIOUS
      <4>1. ~(l <= R) /\ l \in Nat
        BY <1>12, <1>14, <1>16
      <4> QED
        BY <4>1
    <3>5. FirstOf(L) = {R + 1}
      BY <1>14, <3>3, <3>4, FirstFacts
    <3>6. NamesOf(index) = {x \in {0} : HasText(image, x)}
      BY <1>10, <3>3, <3>5
    <3> QED
      BY <1>1, <3>1, <3>6 DEF A, readable, N, index
  <2>5. CASE ~(k = 1 /\ R < N)
    <3>1. ~missing
      BY <2>2, <2>5
    <3>2. L = {}
      <4> SUFFICES ASSUME NEW l \in L PROVE FALSE
        OBVIOUS
      <4>1. ~(l <= R) /\ l \in 1 .. N
        BY <1>9, <1>12, <1>16
      <4>2. l \in (R + 1) .. N /\ R < N
        BY <1>3, <4>1
      <4> QED
        BY <1>13, <2>5, <4>2
    <3>3. NamesOf(index) = {}
      BY <1>10, <3>2, FirstFacts
    <3> QED
      BY <1>1, <2>3, <3>1, <3>3 DEF A, readable, N, index
  <2> QED
    BY <2>4, <2>5
<1> QED
  BY <1>15, <1>16

(* An exported function has the name that the file declares first for it,  *)
(* for every file, however many names there are and can be read.           *)
THEOREM ExportsCorrect == Spec => []ExportNamesAreDeclared
<1>1. JudgedInv /\ ExportsInv => ExportNamesAreDeclared
  BY NamesFollow DEF JudgedInv
<1> QED
  BY <1>1, JudgedInductive, ExportsInductive, PTL
=============================================================================
