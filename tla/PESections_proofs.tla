-------------------------- MODULE PESections_proofs --------------------------
(***************************************************************************)
(* Proofs about the section table and the address mapper, for every file,  *)
(* every table and every width of the addresses.                           *)
(***************************************************************************)
EXTENDS PESections, TLAPS

(***************************************************************************)
(* The mapper                                                              *)
(***************************************************************************)
(* The numbers of a section are naturals, and so is its span.              *)
LEMMA SectionFacts ==
  ASSUME NEW s \in Section
  PROVE  /\ s.virtualAddress \in Nat /\ s.virtualAddress < RvaLimit
         /\ s.virtualSize \in Nat /\ s.rawPointer \in Nat
         /\ s.rawSize \in Nat /\ Span(s) \in Nat
         /\ s.rawSize <= Span(s)
<1>1. /\ s.virtualAddress \in Rva /\ s.virtualSize \in Rva
      /\ s.rawPointer \in Rva /\ s.rawSize \in Rva
  BY DEF Section
<1> QED
  BY <1>1, RvaAssumption DEF Rva, Span

(* RVAs are naturals below the limit.                                      *)
LEMMA RvaFacts == RvaLimit \in Nat /\ Rva \subseteq Nat /\ \A a \in Rva : a < RvaLimit
  BY RvaAssumption DEF Rva

(* What is mapped lies in the file or just behind it.                      *)
LEMMA OffsetsAreBounded ==
  ASSUME NEW m, m.fileSize \in Nat, m.headers \in Nat, m.sections \in Seq(Section),
         NEW rva \in Nat
  PROVE  RvaToFileOffset(m, rva) \subseteq 0 .. m.fileSize
<1>1. ASSUME NEW o \in RvaToFileOffset(m, rva) PROVE o \in 0 .. m.fileSize
  <2>1. CASE rva < m.headers
    BY <1>1, <2>1 DEF RvaToFileOffset
  <2>2. CASE ~(rva < m.headers)
    <3>1. PICK k \in DOMAIN m.sections :
            HoldsRva(m.sections[k], rva) /\ o \in OffsetIn(m, m.sections[k], rva)
      BY <1>1, <2>2 DEF RvaToFileOffset, FirstOf
    <3> DEFINE s == m.sections[k]
    <3>2. s \in Section
      OBVIOUS
    <3> HIDE DEF s
    <3>3. HoldsRva(s, rva) /\ o \in OffsetIn(m, s, rva)
      BY <3>1 DEF s
    <3> QED
      BY <3>2, <3>3, SectionFacts DEF HoldsRva, OffsetIn
  <2> QED
    BY <2>1, <2>2
<1> QED
  BY <1>1

(* The only section that holds an address is the one that is found.        *)
LEMMA OnlyHolderIsFound ==
  ASSUME NEW m, m.headers \in Nat, m.sections \in Seq(Section),
         NEW rva \in Nat, rva >= m.headers,
         NEW k \in DOMAIN m.sections, HoldsRva(m.sections[k], rva),
         \A j \in DOMAIN m.sections : HoldsRva(m.sections[j], rva) => j = k
  PROVE  RvaToFileOffset(m, rva) = OffsetIn(m, m.sections[k], rva)
<1>1. FirstOf({j \in DOMAIN m.sections : HoldsRva(m.sections[j], rva)}) = {k}
  BY DEF FirstOf
<1>2. ~(rva < m.headers)
  OBVIOUS
<1>3. UNION {OffsetIn(m, m.sections[j], rva) : j \in {k}} = OffsetIn(m, m.sections[k], rva)
  OBVIOUS
<1> QED
  BY <1>1, <1>2, <1>3, Zenon DEF RvaToFileOffset

(* The only section that has a byte of the file is the one that is found.  *)
LEMMA OnlyOwnerIsFound ==
  ASSUME NEW m, m.headers \in Nat, m.fileSize \in Nat, m.sections \in Seq(Section),
         NEW offset \in Nat, ~(offset < m.headers /\ offset < m.fileSize),
         NEW k \in DOMAIN m.sections, HoldsOffset(m.sections[k], offset),
         \A j \in DOMAIN m.sections : HoldsOffset(m.sections[j], offset) => j = k,
         m.sections[k].virtualAddress + (offset - m.sections[k].rawPointer) < RvaLimit
  PROVE  FileOffsetToRva(m, offset)
           = {m.sections[k].virtualAddress + (offset - m.sections[k].rawPointer)}
<1>1. FirstOf({j \in DOMAIN m.sections : HoldsOffset(m.sections[j], offset)}) = {k}
  BY DEF FirstOf
<1> QED
  BY <1>1 DEF FileOffsetToRva

(* Sections that do not overlap have no address and no byte in common.     *)
LEMMA NoCommonRva ==
  ASSUME NEW a \in Section, NEW b \in Section, NEW rva \in Nat,
         HoldsRva(a, rva), HoldsRva(b, rva)
  PROVE  VirtualOverlap(a, b)
  BY SectionFacts DEF HoldsRva, VirtualOverlap

(* The same for the bytes of the file.                                     *)
LEMMA NoCommonOffset ==
  ASSUME NEW a \in Section, NEW b \in Section, NEW offset \in Nat,
         HoldsOffset(a, offset), HoldsOffset(b, offset)
  PROVE  RawOverlap(a, b)
  BY SectionFacts DEF HoldsOffset, RawOverlap

(***************************************************************************)
(* Types                                                                   *)
(***************************************************************************)
ImageType ==
  /\ image.fileSize \in Nat /\ image.headers \in Rva /\ image.entry \in Rva
  /\ image.table \in Seq(Section) /\ image.directories \in Seq(Directory)

(* The types of what the headers say, taken apart.                         *)
LEMMA ImageFacts == TypeOK => ImageType
  BY DEF TypeOK, Image, ImageType

(* The inductive invariant holds at the start.                             *)
LEMMA InitInv == Init => IInv
<1> SUFFICES ASSUME Init PROVE IInv
  OBVIOUS
<1>1. image \in Image
  BY ImagesAssumption DEF Init
<1>2. image.table \in Seq(Section) /\ Len(image.table) \in Nat
  BY <1>1 DEF Image
<1>3. TypeOK
  BY <1>1 DEF Init, TypeOK
<1>4. DOMAIN sections = {} /\ Len(sections) = 0
  BY DEF Init
<1>5. RangesAreRecorded /\ PairsAreRecorded /\ RawOverlapsAreReal /\ EntryIsLookedUp
  BY <1>4 DEF Init, RangesAreRecorded, PairsAreRecorded, RawOverlapsAreReal, EntryIsLookedUp
<1> QED
  BY <1>2, <1>3, <1>4, <1>5 DEF Init, IInv

(* A conditional diagnostic is a set of diagnostics.                       *)
LEMMA WhenType ==
  ASSUME TypeOK, NEW condition, NEW code \in Code, NEW at \in SUBSET (DOMAIN image.table)
  PROVE  When(condition, code, at) \subseteq [code : Code, at : SUBSET (DOMAIN image.table)]
  BY DEF When, diag

(* What the entry point maps to is an offset.                              *)
LEMMA EntryMaps ==
  ASSUME TypeOK
  PROVE  RvaToFileOffset(mapper, image.entry) \subseteq Nat
<1>1. /\ mapper.fileSize \in Nat /\ mapper.headers \in Nat /\ mapper.sections \in Seq(Section)
      /\ image.entry \in Nat
  BY ImageFacts, RvaFacts DEF mapper, ImageType, TypeOK
<1> QED
  BY <1>1, OffsetsAreBounded

(* Adding diagnostics to diagnostics.                                      *)
LEMMA DiagnosticsType ==
  ASSUME TypeOK, NEW more, more \subseteq [code : Code, at : SUBSET (DOMAIN image.table)],
         diagnostics' = diagnostics \cup more, image' = image
  PROVE  diagnostics' \subseteq [code : Code, at : SUBSET (DOMAIN image'.table)]
  BY DEF TypeOK

Bounds ==
  /\ Len(sections) <= Len(image.table)
  /\ pc = "read" => Len(sections) = i - 1

(* Every step keeps types and the loops' bounds.                           *)
LEMMA TypeInv == TypeOK /\ Bounds /\ [Next]_vars => TypeOK' /\ Bounds'
<1> SUFFICES ASSUME TypeOK, Bounds, [Next]_vars PROVE TypeOK' /\ Bounds'
  OBVIOUS
<1> DEFINE D == [code : Code, at : SUBSET (DOMAIN image.table)]
<1>1. /\ Len(sections) \in Nat /\ Len(image.table) \in Nat /\ i \in Nat \ {0}
      /\ DOMAIN sections = 1 .. Len(sections) /\ DOMAIN image.table = 1 .. Len(image.table)
      /\ DOMAIN sections \subseteq DOMAIN image.table
  BY ImageFacts DEF TypeOK, ImageType, Bounds
<1>2. CASE ReadSection
  <2>1. image.table[i] \in Section
    BY <1>1, <1>2, ImageFacts DEF ReadSection, ImageType
  <2>2. sections' \in Seq(Section) /\ Len(sections') = i /\ DOMAIN sections' = 1 .. i
    BY <1>1, <1>2, <2>1 DEF ReadSection, TypeOK, Bounds
  <2>3. entrySection \subseteq DOMAIN sections'
    BY <1>1, <1>2, <2>2 DEF TypeOK, ReadSection, Bounds
  <2>4. Bounds'
    BY <1>1, <1>2, <2>2 DEF ReadSection, Bounds
  <2> QED
    BY <1>1, <1>2, <2>2, <2>3, <2>4 DEF ReadSection, TypeOK
<1>3. CASE EndOfTable
  <2>1. When(Len(image.table) # image.declared, "PE_SECTION_TABLE_TRUNCATED", {}) \subseteq D
    BY WhenType DEF Code
  <2>2. diagnostics' \subseteq [code : Code, at : SUBSET (DOMAIN image'.table)]
    BY <1>3, <2>1, DiagnosticsType DEF EndOfTable
  <2> QED
    BY <1>3, <2>2 DEF EndOfTable, GoTo, TypeOK, Bounds
<1>4. CASE CheckRanges
  <2>1. PICK c1, c2, c3 :
          diagnostics' = diagnostics \cup When(c1, "PE_SECTION_RAW_RANGE", {i})
                           \cup When(c2, "PE_SECTION_VA_OVERFLOW", {i})
                           \cup When(c3, "PE_SECTION_IMAGE_RANGE", {i})
    BY <1>4 DEF CheckRanges
  <2>2. {i} \in SUBSET (DOMAIN image.table)
    BY <1>1, <1>4 DEF CheckRanges
  <2>3. When(c1, "PE_SECTION_RAW_RANGE", {i}) \cup When(c2, "PE_SECTION_VA_OVERFLOW", {i})
          \cup When(c3, "PE_SECTION_IMAGE_RANGE", {i}) \subseteq D
    BY <2>2, WhenType DEF Code
  <2>4. diagnostics' \subseteq [code : Code, at : SUBSET (DOMAIN image'.table)]
    BY <1>4, <2>1, <2>3 DEF CheckRanges, TypeOK
  <2>5. /\ i' = i + 1 /\ pc = "ranges" /\ pc' = pc
        /\ UNCHANGED <<image, sections, status, entryOffset, entrySection, mapped>>
    BY <1>4 DEF CheckRanges
  <2> QED
    BY <1>1, <2>4, <2>5 DEF TypeOK, Bounds
<1>5. CASE EndOfRanges
  BY <1>5 DEF EndOfRanges, GoTo, TypeOK, Bounds
<1>6. CASE CheckOverlaps
  <2>1. \A j \in (i + 1) .. Len(sections) :
          /\ diag("PE_SECTION_VIRTUAL_OVERLAP", {i, j}) \in D
          /\ diag("PE_SECTION_RAW_OVERLAP", {i, j}) \in D
    BY <1>1, <1>6 DEF CheckOverlaps, diag, Code
  <2>2. diagnostics' \subseteq D
    BY <1>6, <2>1 DEF CheckOverlaps, TypeOK
  <2>3. /\ i' = i + 1 /\ pc = "overlaps" /\ pc' = pc
        /\ UNCHANGED <<image, sections, status, entryOffset, entrySection, mapped>>
    BY <1>6 DEF CheckOverlaps
  <2> QED
    BY <1>1, <2>2, <2>3 DEF TypeOK, Bounds
<1>7. CASE EndOfOverlaps
  BY <1>7 DEF EndOfOverlaps, GoTo, TypeOK, Bounds
<1>8. CASE CheckHeaders
  <2>1. PICK c1, c2 :
          diagnostics' = diagnostics \cup When(c1, "PE_HEADERS_SIZE_RANGE", {})
                           \cup When(c2, "PE_SIZE_OF_IMAGE_MISMATCH", {})
    BY <1>8 DEF CheckHeaders
  <2>2. When(c1, "PE_HEADERS_SIZE_RANGE", {})
          \cup When(c2, "PE_SIZE_OF_IMAGE_MISMATCH", {}) \subseteq D
    BY WhenType DEF Code
  <2>3. diagnostics' \subseteq [code : Code, at : SUBSET (DOMAIN image'.table)]
    BY <1>8, <2>1, <2>2 DEF CheckHeaders, TypeOK
  <2>4. /\ i' = 1 /\ pc' = "entry"
        /\ UNCHANGED <<image, sections, status, entryOffset, entrySection, mapped>>
    BY <1>8 DEF CheckHeaders, GoTo
  <2> QED
    BY <2>3, <2>4 DEF TypeOK, Bounds
<1>9. CASE MapEntryPoint
  <2>1. entryOffset' \subseteq Nat
    BY <1>9, EntryMaps DEF MapEntryPoint
  <2>2. entrySection' \subseteq DOMAIN sections'
    BY <1>9 DEF MapEntryPoint, EntrySections, FirstOf
  <2>3. When(entryOffset' = {}, "PE_ENTRYPOINT_UNMAPPED", {}) \subseteq D
    BY WhenType DEF Code
  <2>4. diagnostics' \subseteq [code : Code, at : SUBSET (DOMAIN image'.table)]
    BY <1>9, <2>3 DEF MapEntryPoint, TypeOK
  <2> QED
    BY <1>9, <2>1, <2>2, <2>4 DEF MapEntryPoint, GoTo, TypeOK, Bounds
<1>10. CASE MapDirectory
  <2>1. i \in DOMAIN image.directories
    BY <1>1, <1>10, ImageFacts DEF MapDirectory, ImageType
  <2> QED
    BY <1>1, <1>10, <2>1 DEF MapDirectory, TypeOK, Bounds
<1>11. CASE Parsed
  BY <1>11 DEF Parsed, GoTo, TypeOK, Bounds
<1>12. CASE UNCHANGED vars
  BY <1>12 DEF vars, TypeOK, Bounds
<1> QED
  BY <1>2, <1>3, <1>4, <1>5, <1>6, <1>7, <1>8, <1>9, <1>10, <1>11, <1>12 DEF Next

(***************************************************************************)
(* The invariant                                                           *)
(***************************************************************************)
(* No step takes a diagnostic back, and only ReadSection adds a section.   *)
LEMMA NothingIsLost ==
  ASSUME [Next]_vars
  PROVE  /\ diagnostics \subseteq diagnostics'
         /\ image' = image
         /\ pc # "read" => sections' = sections /\ pc' # "read"
         /\ pc = "read" /\ pc' # "read" => sections' = sections /\ pc' = "ranges" /\ i' = 1
  BY DEF Next, vars, ReadSection, EndOfTable, CheckRanges, EndOfRanges, CheckOverlaps,
         EndOfOverlaps, CheckHeaders, MapEntryPoint, MapDirectory, Parsed, GoTo

(* Where a step leads when it is not one of the checks.                    *)
Later == {"headers", "entry", "directories", "done"}

(* Which step leads to which part of the parser.                           *)
LEMMA ControlFlow ==
  ASSUME [Next]_vars, pc # "read", ~CheckRanges, ~CheckOverlaps
  PROVE  \/ pc' = pc /\ i' = i
         \/ pc = "ranges" /\ i > Len(sections) /\ pc' = "overlaps" /\ i' = 1
         \/ pc = "overlaps" /\ i > Len(sections) /\ pc' = "headers"
         \/ pc \in Later /\ pc' \in Later
  BY DEF Next, vars, ReadSection, EndOfTable, EndOfRanges, EndOfOverlaps, CheckHeaders,
         MapEntryPoint, MapDirectory, Parsed, GoTo, Later

(* CheckRanges leaves no section behind whose data is outside the file.    *)
LEMMA RangesInv ==
  ASSUME TypeOK, RangesAreRecorded, [Next]_vars
  PROVE  RangesAreRecorded'
<1> USE NothingIsLost
<1>1. CASE pc' = "read"
  BY <1>1 DEF RangesAreRecorded, RangeChecked
<1>2. CASE pc = "read" /\ pc' # "read"
  <2>1. \A k \in DOMAIN sections' : ~RangeChecked(k)'
    BY <1>2 DEF RangeChecked, TypeOK
  <2> QED
    BY <2>1 DEF RangesAreRecorded
<1>3. CASE pc # "read" /\ ~CheckRanges
  <2>1. \A k \in DOMAIN sections : k \in Int /\ Len(sections) \in Nat /\ k <= Len(sections)
    BY DEF TypeOK
  <2>2. CASE CheckOverlaps
    BY <2>2 DEF CheckOverlaps, RangesAreRecorded, RangeChecked
  <2>3. CASE ~CheckOverlaps
    <3>1. \A k \in DOMAIN sections : RangeChecked(k)' => RangeChecked(k)
      BY <1>3, <2>1, <2>3, ControlFlow DEF RangeChecked, TypeOK, Later
    <3> QED
      BY <1>3, <3>1 DEF RangesAreRecorded
  <2> QED
    BY <2>2, <2>3
<1>4. CASE CheckRanges
  <2> SUFFICES ASSUME NEW k \in DOMAIN sections, RangeChecked(k)',
                      sections[k].rawPointer + sections[k].rawSize > image.fileSize
               PROVE  diag("PE_SECTION_RAW_RANGE", {k}) \in diagnostics'
    BY <1>4 DEF CheckRanges, RangesAreRecorded
  <2>1. RangeChecked(k) \/ k = i
    BY <1>4 DEF CheckRanges, RangeChecked, TypeOK
  <2>2. CASE k = i
    <3>1. When(sections[i].rawPointer + sections[i].rawSize > image.fileSize,
               "PE_SECTION_RAW_RANGE", {i}) \subseteq diagnostics'
      BY <1>4 DEF CheckRanges
    <3> QED
      BY <2>2, <3>1 DEF When
  <2> QED
    BY <2>1, <2>2 DEF RangesAreRecorded
<1> QED
  BY <1>1, <1>2, <1>3, <1>4

(* CheckOverlaps leaves no pair of sections behind.                        *)
LEMMA PairsInv ==
  ASSUME TypeOK, PairsAreRecorded, [Next]_vars
  PROVE  PairsAreRecorded'
<1> USE NothingIsLost
<1>1. CASE pc' = "read" \/ (pc = "read" /\ pc' # "read")
  BY <1>1 DEF PairsAreRecorded, PairsChecked
<1>2. CASE pc # "read" /\ ~CheckOverlaps
  <2>1. \A k \in DOMAIN sections : k \in Int /\ Len(sections) \in Nat /\ 1 <= k /\ k <= Len(sections)
    BY DEF TypeOK
  <2>2. CASE CheckRanges
    BY <2>2 DEF CheckRanges, PairsAreRecorded, PairsChecked
  <2>3. CASE ~CheckRanges
    <3>1. \A k \in DOMAIN sections : PairsChecked(k)' => PairsChecked(k)
      BY <1>2, <2>1, <2>3, ControlFlow DEF PairsChecked, TypeOK, Later
    <3> QED
      BY <1>2, <3>1 DEF PairsAreRecorded
  <2> QED
    BY <2>2, <2>3
<1>3. CASE CheckOverlaps
  <2> SUFFICES ASSUME NEW j \in DOMAIN sections, NEW k \in DOMAIN sections,
                      j < k, PairsChecked(j)'
               PROVE  /\ VirtualOverlap(sections[j], sections[k]) =>
                           diag("PE_SECTION_VIRTUAL_OVERLAP", {j, k}) \in diagnostics'
                      /\ RawOverlap(sections[j], sections[k]) =>
                           diag("PE_SECTION_RAW_OVERLAP", {j, k}) \in diagnostics'
    BY <1>3 DEF CheckOverlaps, PairsAreRecorded
  <2>1. PairsChecked(j) \/ j = i
    BY <1>3 DEF CheckOverlaps, PairsChecked, TypeOK
  <2>2. CASE j = i
    <3>1. k \in (i + 1) .. Len(sections)
      BY <2>2 DEF TypeOK
    <3> QED
      BY <1>3, <2>2, <3>1 DEF CheckOverlaps
  <2> QED
    BY <2>1, <2>2 DEF PairsAreRecorded
<1> QED
  BY <1>1, <1>2, <1>3

(* A raw overlap that was reported is one.                                 *)
LEMMA RealInv ==
  ASSUME TypeOK, RawOverlapsAreReal, [Next]_vars
  PROVE  RawOverlapsAreReal'
<1> USE NothingIsLost
<1>1. ASSUME NEW d \in diagnostics', d.code = "PE_SECTION_RAW_OVERLAP"
      PROVE  d \in diagnostics \/ CheckOverlaps
  BY <1>1 DEF Next, vars, ReadSection, EndOfTable, CheckRanges, EndOfRanges,
     EndOfOverlaps, CheckHeaders, MapEntryPoint, MapDirectory, Parsed, When, diag
<1>2. CASE ~CheckOverlaps
  BY <1>1, <1>2 DEF RawOverlapsAreReal
<1>3. CASE CheckOverlaps
  <2>1. ASSUME NEW d \in diagnostics', d.code = "PE_SECTION_RAW_OVERLAP", d \notin diagnostics
        PROVE  \E j, k \in DOMAIN sections : d.at = {j, k} /\ RawOverlap(sections[j], sections[k])
    <3>1. PICK k \in (i + 1) .. Len(sections) :
            d = diag("PE_SECTION_RAW_OVERLAP", {i, k}) /\ RawOverlap(sections[i], sections[k])
      BY <1>3, <2>1 DEF CheckOverlaps, diag
    <3>2. i \in DOMAIN sections /\ k \in DOMAIN sections
      BY <1>3 DEF CheckOverlaps, TypeOK
    <3> QED
      BY <3>1, <3>2 DEF diag
  <2>2. pc = "overlaps" /\ pc' = "overlaps" /\ sections' = sections
    BY <1>3 DEF CheckOverlaps
  <2> QED
    BY <2>1, <2>2 DEF RawOverlapsAreReal
<1> QED
  BY <1>2, <1>3

(* The entry point's offset and section are those of the two searches.     *)
LEMMA EntryInv ==
  ASSUME TypeOK, EntryIsLookedUp, [Next]_vars
  PROVE  EntryIsLookedUp'
<1>1. CASE MapEntryPoint
  <2>1. /\ image' = image /\ sections' = sections /\ pc' = "directories"
        /\ entryOffset' = RvaToFileOffset(mapper, image.entry)
        /\ entryOffset' # {} => entrySection' = EntrySections
    BY <1>1 DEF MapEntryPoint, GoTo
  <2>2. mapper' = mapper /\ EntrySections' = EntrySections
    BY <2>1 DEF mapper, EntrySections
  <2> QED
    BY <2>1, <2>2 DEF EntryIsLookedUp
<1>2. CASE ~MapEntryPoint
  <2>1. entryOffset' = entryOffset /\ entrySection' = entrySection /\ image' = image
    BY <1>2 DEF Next, vars, ReadSection, EndOfTable, CheckRanges, EndOfRanges, CheckOverlaps,
       EndOfOverlaps, CheckHeaders, MapDirectory, Parsed
  <2>2. pc \in {"directories", "done"} => pc' \in {"directories", "done"} /\ sections' = sections
    BY <1>2 DEF Next, vars, ReadSection, EndOfTable, CheckRanges, EndOfRanges, CheckOverlaps,
       EndOfOverlaps, CheckHeaders, MapDirectory, Parsed, GoTo
  <2>3. sections' = sections => mapper' = mapper /\ EntrySections' = EntrySections
    BY <2>1 DEF mapper, EntrySections
  <2> QED
    BY <2>1, <2>2, <2>3 DEF EntryIsLookedUp
<1> QED
  BY <1>1, <1>2

(* Every step keeps the inductive invariant.                               *)
THEOREM Inductive == IInv /\ [Next]_vars => IInv'
<1> SUFFICES ASSUME IInv, [Next]_vars PROVE IInv'
  OBVIOUS
<1>1. TypeOK /\ Bounds /\ TypeOK' /\ Bounds'
  BY TypeInv DEF IInv, Bounds
<1>2. RangesAreRecorded' /\ PairsAreRecorded' /\ RawOverlapsAreReal' /\ EntryIsLookedUp'
  BY RangesInv, PairsInv, RealInv, EntryInv DEF IInv
<1> QED
  BY <1>1, <1>2 DEF IInv, Bounds

(* The inductive invariant holds in every reachable state.                 *)
THEOREM IInvCorrect == Spec => []IInv
  BY InitInv, Inductive, PTL DEF Spec

(* Every variable has its type in every reachable state.                   *)
THEOREM TypeCorrect == Spec => []TypeOK
<1>1. IInv => TypeOK
  BY DEF IInv
<1> QED
  BY <1>1, IInvCorrect, PTL

(***************************************************************************)
(* The properties                                                          *)
(***************************************************************************)
(* What a table without the diagnostics is like.                           *)
LEMMA CleanTable ==
  ASSUME IInv, pc = "done", Clean
  PROVE  /\ \A j, k \in DOMAIN sections : j # k =>
              ~VirtualOverlap(sections[j], sections[k]) /\ ~RawOverlap(sections[j], sections[k])
         /\ \A k \in DOMAIN sections :
              sections[k].rawPointer + sections[k].rawSize <= image.fileSize
<1>1. TypeOK /\ RangesAreRecorded /\ PairsAreRecorded
  BY DEF IInv
<1>2. \A k \in DOMAIN sections :
        ~(sections[k].rawPointer + sections[k].rawSize > image.fileSize)
  BY <1>1 DEF Clean, NoneReported, RangesAreRecorded, RangeChecked, diag
<1>3. \A j, k \in DOMAIN sections : j < k =>
        ~VirtualOverlap(sections[j], sections[k]) /\ ~RawOverlap(sections[j], sections[k])
  BY <1>1 DEF Clean, NoneReported, PairsAreRecorded, PairsChecked, diag
<1>4. \A a, b : /\ VirtualOverlap(a, b) => VirtualOverlap(b, a)
                /\ RawOverlap(a, b) => RawOverlap(b, a)
  BY DEF VirtualOverlap, RawOverlap
<1>5. \A j, k \in DOMAIN sections : j # k => j < k \/ k < j
  BY <1>1 DEF TypeOK
<1>6. \A k \in DOMAIN sections :
        sections[k].rawPointer + sections[k].rawSize <= image.fileSize
  <2> SUFFICES ASSUME NEW k \in DOMAIN sections
               PROVE  sections[k].rawPointer + sections[k].rawSize <= image.fileSize
    OBVIOUS
  <2>1. sections[k] \in Section
    BY <1>1 DEF TypeOK
  <2> QED
    BY <1>1, <1>2, <2>1, SectionFacts, ImageFacts DEF ImageType
<1> QED
  BY <1>3, <1>4, <1>5, <1>6

(* The parser's mapper is a mapper.                                        *)
LEMMA MapperFacts ==
  ASSUME TypeOK
  PROVE  /\ mapper.fileSize = image.fileSize /\ mapper.fileSize \in Nat
         /\ mapper.headers = image.headers /\ mapper.headers \in Nat
         /\ mapper.sections = sections /\ mapper.sections \in Seq(Section)
  BY ImageFacts, RvaFacts DEF mapper, ImageType, TypeOK

(* From the file to memory and back. *)
LEMMA BackToTheOffset ==
  ASSUME IInv, pc = "done", Clean,
         NEW offset \in 0 .. image.fileSize, NEW rva \in FileOffsetToRva(mapper, offset)
  PROVE  RvaToFileOffset(mapper, rva) = {offset}
<1>1. TypeOK
  BY DEF IInv
<1>2. CASE offset < image.headers /\ offset < image.fileSize
  <2>1. rva = offset
    BY <1>1, <1>2, MapperFacts DEF FileOffsetToRva
  <2> QED
    BY <1>1, <1>2, <2>1, MapperFacts DEF RvaToFileOffset
<1>3. CASE ~(offset < image.headers /\ offset < image.fileSize)
  <2>1. PICK k \in DOMAIN sections :
          /\ HoldsOffset(sections[k], offset)
          /\ rva = sections[k].virtualAddress + (offset - sections[k].rawPointer)
    BY <1>1, <1>3, MapperFacts DEF FileOffsetToRva, FirstOf
  <2> DEFINE s == sections[k]
  <2>2. s \in Section /\ image.headers <= s.virtualAddress
    BY <1>1 DEF TypeOK, Clean
  <2>3. offset \in Nat /\ image.headers \in Nat /\ image.fileSize \in Nat /\ offset <= image.fileSize
    BY <1>1, MapperFacts
  <2>4. /\ rva \in Nat /\ rva >= image.headers /\ HoldsRva(s, rva)
        /\ OffsetIn(mapper, s, rva) = {offset}
    <3> HIDE DEF s
    <3>1. HoldsOffset(s, offset) /\ rva = s.virtualAddress + (offset - s.rawPointer)
      BY <2>1 DEF s
    <3>2. rva - s.virtualAddress = offset - s.rawPointer /\ rva \in Nat /\ rva >= image.headers
      BY <2>2, <2>3, <3>1, SectionFacts DEF HoldsOffset
    <3>3. HoldsRva(s, rva)
      BY <2>2, <2>3, <3>1, <3>2, SectionFacts DEF HoldsOffset, HoldsRva
    <3>4. s.rawPointer + (rva - s.virtualAddress) = offset /\ rva - s.virtualAddress < s.rawSize
      BY <2>2, <2>3, <3>1, <3>2, SectionFacts DEF HoldsOffset
    <3>5. OffsetIn(mapper, s, rva) = {offset}
      BY <1>1, <2>3, <3>4, MapperFacts DEF OffsetIn
    <3> QED
      BY <3>2, <3>3, <3>5
  <2>5. \A j \in DOMAIN sections : HoldsRva(sections[j], rva) => j = k
    <3> SUFFICES ASSUME NEW j \in DOMAIN sections, HoldsRva(sections[j], rva), j # k PROVE FALSE
      OBVIOUS
    <3>1. sections[j] \in Section
      BY <1>1 DEF TypeOK
    <3>2. VirtualOverlap(sections[j], sections[k])
      BY <2>2, <2>4, <3>1, NoCommonRva
    <3> QED
      BY <3>2, CleanTable
  <2>6. RvaToFileOffset(mapper, rva) = OffsetIn(mapper, mapper.sections[k], rva)
    BY <1>1, <2>4, <2>5, MapperFacts, OnlyHolderIsFound
  <2> QED
    BY <1>1, <2>4, <2>6, MapperFacts
<1> QED
  BY <1>2, <1>3

(* From memory to the file and back. *)
LEMMA BackToTheRva ==
  ASSUME IInv, pc = "done", Clean,
         NEW rva \in Rva, NEW offset \in RvaToFileOffset(mapper, rva)
  PROVE  FileOffsetToRva(mapper, offset) = {rva}
<1>1. TypeOK
  BY DEF IInv
<1>2. CASE rva < image.headers
  BY <1>1, <1>2, MapperFacts DEF RvaToFileOffset, FileOffsetToRva
<1>3. CASE ~(rva < image.headers)
  <2>1. PICK k \in DOMAIN sections :
          HoldsRva(sections[k], rva) /\ offset \in OffsetIn(mapper, sections[k], rva)
    BY <1>1, <1>3, MapperFacts DEF RvaToFileOffset, FirstOf
  <2> DEFINE s == sections[k]
  <2>2. s \in Section /\ (s.rawSize # 0 => image.headers <= s.rawPointer)
    BY <1>1 DEF TypeOK, Clean
  <2>3. rva \in Nat /\ rva < RvaLimit /\ image.headers \in Nat
    BY <1>1, MapperFacts, RvaFacts
  <2>4. /\ offset \in Nat /\ offset >= image.headers /\ HoldsOffset(s, offset)
        /\ s.virtualAddress + (offset - s.rawPointer) = rva
    <3> HIDE DEF s
    <3>1. HoldsRva(s, rva) /\ offset = s.rawPointer + (rva - s.virtualAddress)
          /\ rva - s.virtualAddress < s.rawSize
      BY <2>1 DEF s, OffsetIn
    <3> QED
      BY <2>2, <2>3, <3>1, SectionFacts DEF HoldsRva, HoldsOffset
  <2>5. \A j \in DOMAIN sections : HoldsOffset(sections[j], offset) => j = k
    <3> SUFFICES ASSUME NEW j \in DOMAIN sections, HoldsOffset(sections[j], offset), j # k PROVE FALSE
      OBVIOUS
    <3>1. sections[j] \in Section
      BY <1>1 DEF TypeOK
    <3>2. RawOverlap(sections[j], sections[k])
      BY <2>2, <2>4, <3>1, NoCommonOffset
    <3> QED
      BY <3>2, CleanTable
  <2>6. ~(offset < mapper.headers /\ offset < mapper.fileSize)
    BY <1>1, <2>3, <2>4, MapperFacts
  <2>7. FileOffsetToRva(mapper, offset)
          = {mapper.sections[k].virtualAddress + (offset - mapper.sections[k].rawPointer)}
    BY <1>1, <2>3, <2>4, <2>5, <2>6, MapperFacts, OnlyOwnerIsFound
  <2> QED
    BY <1>1, <2>4, <2>7, MapperFacts
<1> QED
  BY <1>2, <1>3

(* With a clean table, addresses and file offsets determine each other.    *)
THEOREM MappingCorrect == Spec => []MappingIsReversible
<1>1. IInv => MappingIsReversible
  BY BackToTheOffset, BackToTheRva DEF MappingIsReversible, ThereAndBack
<1> QED
  BY <1>1, IInvCorrect, PTL

(* Sections that share an address or a byte of the file are reported, and  *)
(* no others as sharing bytes.                                             *)
THEOREM OverlapsCorrect == Spec => []OverlapsAreReported
<1>1. ASSUME IInv, pc = "done",
             NEW j \in DOMAIN sections, NEW k \in DOMAIN sections, j # k
      PROVE  /\ CommonRva(sections[j], sections[k]) =>
                  diag("PE_SECTION_VIRTUAL_OVERLAP", {j, k}) \in diagnostics
             /\ CommonOffset(sections[j], sections[k]) <=>
                  diag("PE_SECTION_RAW_OVERLAP", {j, k}) \in diagnostics
  <2>1. TypeOK /\ PairsAreRecorded /\ RawOverlapsAreReal
    BY <1>1 DEF IInv
  <2>2. \A v, w \in DOMAIN sections : sections[v] \in Section /\ v \in Int /\ (v # w => v < w \/ w < v)
    BY <2>1 DEF TypeOK
  <2>3. \A a, b : /\ VirtualOverlap(a, b) => VirtualOverlap(b, a)
                  /\ RawOverlap(a, b) => RawOverlap(b, a)
    BY DEF VirtualOverlap, RawOverlap
  <2>4. {j, k} = {k, j}
    OBVIOUS
  <2>5. /\ VirtualOverlap(sections[j], sections[k]) =>
             diag("PE_SECTION_VIRTUAL_OVERLAP", {j, k}) \in diagnostics
        /\ RawOverlap(sections[j], sections[k]) =>
             diag("PE_SECTION_RAW_OVERLAP", {j, k}) \in diagnostics
    BY <1>1, <2>1, <2>2, <2>3, <2>4 DEF PairsAreRecorded, PairsChecked
  <2>6. 0 .. (2 * RvaLimit) \subseteq Nat
    BY RvaFacts
  <2>7. CommonRva(sections[j], sections[k]) => VirtualOverlap(sections[j], sections[k])
    BY <2>2, <2>6, NoCommonRva DEF CommonRva
  <2>8. CommonOffset(sections[j], sections[k]) => RawOverlap(sections[j], sections[k])
    BY <2>2, <2>6, NoCommonOffset DEF CommonOffset
  <2>9. RawOverlap(sections[j], sections[k]) => CommonOffset(sections[j], sections[k])
    <3> SUFFICES ASSUME NEW a \in Section, NEW b \in Section, RawOverlap(a, b)
                 PROVE  CommonOffset(a, b)
      BY <2>2
    <3>1. /\ a.rawPointer \in Nat /\ a.rawPointer < RvaLimit
          /\ b.rawPointer \in Nat /\ b.rawPointer < RvaLimit
      BY RvaFacts DEF Section
    <3>2. CASE a.rawPointer <= b.rawPointer
      <4>1. HoldsOffset(a, b.rawPointer) /\ HoldsOffset(b, b.rawPointer)
        BY <3>1, <3>2, SectionFacts DEF RawOverlap, HoldsOffset
      <4> QED
        BY <3>1, <4>1, RvaFacts DEF CommonOffset
    <3>3. CASE b.rawPointer <= a.rawPointer
      <4>1. HoldsOffset(a, a.rawPointer) /\ HoldsOffset(b, a.rawPointer)
        BY <3>1, <3>3, SectionFacts DEF RawOverlap, HoldsOffset
      <4> QED
        BY <3>1, <4>1, RvaFacts DEF CommonOffset
    <3> QED
      BY <3>1, <3>2, <3>3
  <2>10. ASSUME diag("PE_SECTION_RAW_OVERLAP", {j, k}) \in diagnostics
         PROVE  RawOverlap(sections[j], sections[k])
    <3>1. PICK v, w \in DOMAIN sections :
            {j, k} = {v, w} /\ RawOverlap(sections[v], sections[w])
      BY <2>1, <2>10 DEF RawOverlapsAreReal, diag
    <3>2. (j = v /\ k = w) \/ (j = w /\ k = v)
      BY <1>1, <3>1
    <3> QED
      BY <2>3, <3>1, <3>2
  <2> QED
    BY <2>5, <2>7, <2>8, <2>9, <2>10
<1>2. IInv => OverlapsAreReported
  BY <1>1 DEF OverlapsAreReported
<1> QED
  BY <1>2, IInvCorrect, PTL

(* The entry point's offset lies in the data of the section that is named. *)
THEOREM EntryCorrect == Spec => []EntryIsInItsSection
<1>1. ASSUME IInv, NEW offset \in entryOffset, image.entry >= image.headers
      PROVE  \E k \in entrySection :
               /\ HoldsOffset(sections[k], offset)
               /\ offset - sections[k].rawPointer = image.entry - sections[k].virtualAddress
  <2>1. /\ TypeOK /\ offset \in RvaToFileOffset(mapper, image.entry)
        /\ entrySection = EntrySections
    BY <1>1 DEF IInv, EntryIsLookedUp
  <2>2. image.entry \in Nat /\ image.headers \in Nat /\ ~(image.entry < image.headers)
    <3>1. image.entry \in Nat /\ image.headers \in Nat
      BY <2>1, ImageFacts, RvaFacts DEF ImageType
    <3> QED
      BY <1>1, <3>1
  <2>3. PICK k \in EntrySections : offset \in OffsetIn(mapper, sections[k], image.entry)
    BY <2>1, <2>2, MapperFacts DEF RvaToFileOffset, EntrySections
  <2>4. sections[k] \in Section /\ HoldsRva(sections[k], image.entry)
    BY <2>1, <2>3 DEF EntrySections, FirstOf, TypeOK
  <2> DEFINE s == sections[k]
  <2>5. HoldsOffset(s, offset) /\ offset - s.rawPointer = image.entry - s.virtualAddress
    <3>1. s \in Section /\ HoldsRva(s, image.entry) /\ offset \in OffsetIn(mapper, s, image.entry)
      BY <2>3, <2>4
    <3> HIDE DEF s
    <3> QED
      BY <2>2, <3>1, SectionFacts DEF HoldsRva, HoldsOffset, OffsetIn
  <2> QED
    BY <2>1, <2>3, <2>5
<1>2. IInv => EntryIsInItsSection
  BY <1>1 DEF EntryIsInItsSection
<1> QED
  BY <1>2, IInvCorrect, PTL
=============================================================================
