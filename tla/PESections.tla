------------------------------ MODULE PESections ------------------------------
(***************************************************************************)
(* The middle of parse_pe() of src/src/formats/pe.cpp, from the section    *)
(* table to the directories: parse_sections() with the diagnostics of a    *)
(* damaged table, the address mapper made from it, the entry point and the *)
(* ranges of the data directories.                                         *)
(*                                                                         *)
(* `image' is what the headers say: the sizes, the sections of the table   *)
(* that fit into the file (`table'), how many it should have (`declared'), *)
(* the entry point and the directories that are present.  parse_pe() has   *)
(* checked before that the table starts inside the file.                   *)
(***************************************************************************)
EXTENDS RVAMapper

CONSTANT Images     \* the headers to parse

Directory == [rva : Rva, size : Rva]

Image == [fileSize : Nat, headers : Rva, sizeOfImage : Rva, declared : Nat,
          table : Seq(Section), entry : Rva, directories : Seq(Directory)]

ASSUME ImagesAssumption == Images \subseteq Image

OffsetLimit == RvaLimit * RvaLimit   \* 2^64

VARIABLES
  image,        \* the headers, which are only read
  pc,           \* which part of parse_pe() is next
  i,            \* its loop counter
  sections,     \* image.sections
  status,       \* section_status
  diagnostics,  \* [code, at]: at holds the sections (or directory) concerned
  entryOffset,  \* entry_point_file_offset: a set of at most one
  entrySection, \* entry_point_section: likewise
  mapped        \* the directories marked as mapped

vars == <<image, pc, i, sections, status, diagnostics, entryOffset, entrySection, mapped>>

Init ==
  /\ image \in Images
  /\ pc = "read" /\ i = 1
  /\ sections = <<>> /\ status = "NotParsed"
  /\ diagnostics = {}
  /\ entryOffset = {} /\ entrySection = {}
  /\ mapped = {}

diag(code, at) == [code |-> code, at |-> at]

(* The diagnostic, if the condition holds. *)
When(condition, code, at) == {d \in {diag(code, at)} : condition}

GoTo(part) == pc' = part /\ i' = 1

(***************************************************************************)
(* parse_sections()                                                        *)
(***************************************************************************)
ReadSection ==
  /\ pc = "read" /\ i <= Len(image.table)
  /\ sections' = Append(sections, image.table[i])
  /\ i' = i + 1
  /\ UNCHANGED <<image, pc, status, diagnostics, entryOffset, entrySection, mapped>>

EndOfTable ==
  /\ pc = "read" /\ i > Len(image.table)
  /\ status' = IF Len(image.table) = image.declared THEN "Valid" ELSE "PartiallyParsed"
  /\ diagnostics' = diagnostics \cup
       When(Len(image.table) # image.declared, "PE_SECTION_TABLE_TRUNCATED", {})
  /\ GoTo("ranges")
  /\ UNCHANGED <<image, sections, entryOffset, entrySection, mapped>>

(* add_u64() on an RVA and a size. *)
AddOverflows(a, b) == a > OffsetLimit - 1 - b

CheckRanges ==
  /\ pc = "ranges" /\ i <= Len(sections)
  /\ LET s        == sections[i]
         end      == s.virtualAddress + Span(s)
         overflow == AddOverflows(s.virtualAddress, Span(s))
     IN  diagnostics' = diagnostics
           \cup When(s.rawPointer + s.rawSize > image.fileSize, "PE_SECTION_RAW_RANGE", {i})
           \cup When(overflow, "PE_SECTION_VA_OVERFLOW", {i})
           \cup When(~overflow /\ image.sizeOfImage # 0 /\ end > image.sizeOfImage,
                     "PE_SECTION_IMAGE_RANGE", {i})
  /\ i' = i + 1
  /\ UNCHANGED <<image, pc, sections, status, entryOffset, entrySection, mapped>>

EndOfRanges ==
  /\ pc = "ranges" /\ i > Len(sections)
  /\ GoTo("overlaps")
  /\ UNCHANGED <<image, sections, status, diagnostics, entryOffset, entrySection, mapped>>

VirtualOverlap(a, b) ==
  /\ a.virtualAddress < b.virtualAddress + Span(b)
  /\ b.virtualAddress < a.virtualAddress + Span(a)

(* Mutant: only a section that starts inside the other one. *)
RawOverlap_OneWay(a, b) ==
  /\ a.rawSize # 0 /\ b.rawSize # 0
  /\ a.rawPointer <= b.rawPointer
  /\ b.rawPointer < a.rawPointer + a.rawSize

RawOverlap(a, b) ==
  /\ a.rawSize # 0 /\ b.rawSize # 0
  /\ a.rawPointer < b.rawPointer + b.rawSize
  /\ b.rawPointer < a.rawPointer + a.rawSize

(* The section is compared with all that follow it. *)
CheckOverlaps ==
  /\ pc = "overlaps" /\ i <= Len(sections)
  /\ diagnostics' = diagnostics
       \cup {diag("PE_SECTION_VIRTUAL_OVERLAP", {i, j}) :
               j \in {k \in (i + 1) .. Len(sections) : VirtualOverlap(sections[i], sections[k])}}
       \cup {diag("PE_SECTION_RAW_OVERLAP", {i, j}) :
               j \in {k \in (i + 1) .. Len(sections) : RawOverlap(sections[i], sections[k])}}
  /\ i' = i + 1
  /\ UNCHANGED <<image, pc, sections, status, entryOffset, entrySection, mapped>>

EndOfOverlaps ==
  /\ pc = "overlaps" /\ i > Len(sections)
  /\ GoTo("headers")
  /\ UNCHANGED <<image, sections, status, diagnostics, entryOffset, entrySection, mapped>>

(***************************************************************************)
(* parse_pe() once the sections are known                                  *)
(***************************************************************************)
mapper == [fileSize |-> image.fileSize, headers |-> image.headers, sections |-> sections]

CheckHeaders ==
  /\ pc = "headers"
  /\ diagnostics' = diagnostics
       \cup When(image.headers > image.fileSize, "PE_HEADERS_SIZE_RANGE", {})
       \cup When(/\ image.sizeOfImage # 0
                 /\ \E k \in DOMAIN sections :
                      sections[k].virtualAddress + Span(sections[k]) > image.sizeOfImage,
                 "PE_SIZE_OF_IMAGE_MISMATCH", {})
  /\ GoTo("entry")
  /\ UNCHANGED <<image, sections, status, entryOffset, entrySection, mapped>>

(* Mutant: the search for the section does not stop at the first one. *)
EntrySections_Last ==
  LET holders == {k \in DOMAIN sections : HoldsRva(sections[k], image.entry)}
  IN  {k \in holders : \A j \in holders : j <= k}

EntrySections ==
  FirstOf({k \in DOMAIN sections : HoldsRva(sections[k], image.entry)})

MapEntryPoint ==
  /\ pc = "entry"
  /\ entryOffset' = RvaToFileOffset(mapper, image.entry)
  /\ entrySection' = IF entryOffset' # {} THEN EntrySections ELSE {}
  /\ diagnostics' = diagnostics \cup When(entryOffset' = {}, "PE_ENTRYPOINT_UNMAPPED", {})
  /\ GoTo("directories")
  /\ UNCHANGED <<image, sections, status, mapped>>

MapDirectory ==
  /\ pc = "directories" /\ i <= Len(image.directories)
  /\ LET d == image.directories[i]
     IN  mapped' = IF d.size # 0 /\ MapRvaRange(mapper, d.rva, d.size) # {}
                     THEN mapped \cup {i} ELSE mapped
  /\ i' = i + 1
  /\ UNCHANGED <<image, pc, sections, status, diagnostics, entryOffset, entrySection>>

Parsed ==
  /\ pc = "directories" /\ i > Len(image.directories)
  /\ GoTo("done")
  /\ UNCHANGED <<image, sections, status, diagnostics, entryOffset, entrySection, mapped>>

Next ==
  \/ ReadSection \/ EndOfTable \/ CheckRanges \/ EndOfRanges
  \/ CheckOverlaps \/ EndOfOverlaps \/ CheckHeaders
  \/ MapEntryPoint \/ MapDirectory \/ Parsed

Spec == Init /\ [][Next]_vars

(***************************************************************************)
(*                              PROPERTIES                                 *)
(***************************************************************************)
Code == {"PE_SECTION_TABLE_TRUNCATED", "PE_SECTION_RAW_RANGE", "PE_SECTION_VA_OVERFLOW",
         "PE_SECTION_IMAGE_RANGE", "PE_SECTION_VIRTUAL_OVERLAP", "PE_SECTION_RAW_OVERLAP",
         "PE_HEADERS_SIZE_RANGE", "PE_SIZE_OF_IMAGE_MISMATCH", "PE_ENTRYPOINT_UNMAPPED"}

TypeOK ==
  /\ image \in Image
  /\ pc \in {"read", "ranges", "overlaps", "headers", "entry", "directories", "done"}
  /\ i \in Nat \ {0}
  /\ sections \in Seq(Section)
  /\ status \in {"NotParsed", "Valid", "PartiallyParsed"}
  /\ diagnostics \subseteq [code : Code, at : SUBSET (DOMAIN image.table)]
  /\ entryOffset \subseteq Nat
  /\ entrySection \subseteq DOMAIN sections
  /\ mapped \subseteq DOMAIN image.directories

(* A table in which the checks found neither an overlap nor data outside   *)
(* the file, and no section in the way of the headers, which is the one    *)
(* thing parse_sections() does not look for.                               *)
NoneReported(code) == \A d \in diagnostics : d.code # code

Clean ==
  /\ NoneReported("PE_SECTION_RAW_RANGE")
  /\ NoneReported("PE_SECTION_VIRTUAL_OVERLAP")
  /\ NoneReported("PE_SECTION_RAW_OVERLAP")
  /\ \A k \in DOMAIN sections :
       /\ image.headers <= sections[k].virtualAddress
       /\ sections[k].rawSize # 0 => image.headers <= sections[k].rawPointer
       /\ sections[k].virtualAddress + Span(sections[k]) <= RvaLimit

(* In a clean table RVAs and file offsets determine each other: there and  *)
(* back, whichever way, is where one started.  (TODO.md: "Verify           *)
(* RVA/file-offset mapping on boundary and overlapping sections.")         *)
ThereAndBack ==
  /\ \A offset \in 0 .. image.fileSize :
       \A rva \in FileOffsetToRva(mapper, offset) : RvaToFileOffset(mapper, rva) = {offset}
  /\ \A rva \in Rva :
       \A offset \in RvaToFileOffset(mapper, rva) : FileOffsetToRva(mapper, offset) = {rva}

MappingIsReversible == pc = "done" /\ Clean => ThereAndBack

(* Two sections with an address in common are reported, and two that have  *)
(* a byte of the file in common are if and only if they do.                *)
CommonRva(a, b) == \E rva \in 0 .. (2 * RvaLimit) : HoldsRva(a, rva) /\ HoldsRva(b, rva)
CommonOffset(a, b) == \E offset \in 0 .. (2 * RvaLimit) : HoldsOffset(a, offset) /\ HoldsOffset(b, offset)

OverlapsAreReported ==
  pc = "done" =>
    \A j, k \in DOMAIN sections : j # k =>
      /\ CommonRva(sections[j], sections[k]) =>
           diag("PE_SECTION_VIRTUAL_OVERLAP", {j, k}) \in diagnostics
      /\ CommonOffset(sections[j], sections[k]) <=>
           diag("PE_SECTION_RAW_OVERLAP", {j, k}) \in diagnostics

(* The entry point's section and its file offset, found by two searches,   *)
(* agree: beyond the headers the offset lies in the section's data.        *)
EntryIsInItsSection ==
  \A offset \in entryOffset : image.entry >= image.headers =>
    \E k \in entrySection :
      /\ HoldsOffset(sections[k], offset)
      /\ offset - sections[k].rawPointer = image.entry - sections[k].virtualAddress

(* What is true in between, so that the above is inductive: the checks that *)
(* have been made have left their diagnostics and no others, and the entry *)
(* point was looked up in the sections as they are.                        *)
RangeChecked(k) ==
  \/ pc \notin {"read", "ranges"}
  \/ pc = "ranges" /\ k < i

PairsChecked(j) ==
  \/ pc \in {"headers", "entry", "directories", "done"}
  \/ pc = "overlaps" /\ j < i

RangesAreRecorded ==
  \A k \in DOMAIN sections :
    RangeChecked(k) /\ sections[k].rawPointer + sections[k].rawSize > image.fileSize =>
      diag("PE_SECTION_RAW_RANGE", {k}) \in diagnostics

PairsAreRecorded ==
  \A j, k \in DOMAIN sections : j < k /\ PairsChecked(j) =>
    /\ VirtualOverlap(sections[j], sections[k]) =>
         diag("PE_SECTION_VIRTUAL_OVERLAP", {j, k}) \in diagnostics
    /\ RawOverlap(sections[j], sections[k]) =>
         diag("PE_SECTION_RAW_OVERLAP", {j, k}) \in diagnostics

RawOverlapsAreReal ==
  \A d \in diagnostics : d.code = "PE_SECTION_RAW_OVERLAP" =>
    /\ pc # "read"
    /\ \E j, k \in DOMAIN sections : d.at = {j, k} /\ RawOverlap(sections[j], sections[k])

EntryIsLookedUp ==
  \/ entryOffset = {}
  \/ /\ pc \in {"directories", "done"}
     /\ entryOffset = RvaToFileOffset(mapper, image.entry)
     /\ entrySection = EntrySections

IInv ==
  /\ TypeOK
  /\ Len(sections) <= Len(image.table)
  /\ pc = "read" => Len(sections) = i - 1
  /\ RangesAreRecorded /\ PairsAreRecorded /\ RawOverlapsAreReal
  /\ EntryIsLookedUp
=============================================================================
