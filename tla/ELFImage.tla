------------------------------ MODULE ELFImage ------------------------------
(***************************************************************************)
(* parse_elf_image() of src/src/formats/elf.cpp.  Everything behind the    *)
(* identification stands in one try block: what cannot be read throws, the *)
(* tables behind it are not parsed, and the image is returned as it is.    *)
(*                                                                         *)
(* An image holds the fields of the headers and tables that decide what is *)
(* done; `words' are the numbers at other offsets of the file, everything  *)
(* else being zero, and `texts' the offsets at which a text begins that is *)
(* not empty.  A relocation's word of information is the symbol's number.  *)
(* Sums of 64 bits are taken not to overflow.                              *)
(***************************************************************************)
EXTENDS Integers, Sequences

CONSTANTS
  Images,      \* the files to parse
  MaxSymbols,  \* 1000000: the most symbols a table may declare
  WordLimit    \* 2^32: the sizes of a note are computed below it

Segment == [type : Nat, offset : Nat, size : Nat]
Section == [type : Nat, offset : Nat, size : Nat, link : Nat, entsize : Nat, name : Nat]

(* A header table: where it is, and its entries, were they all in the file.*)
TableOf(Entry) == [offset : Nat, entsize : Nat, entries : Seq(Entry)]

IsImage(f) ==
  /\ f.size \in Nat /\ f.elf64 \in BOOLEAN
  /\ f.segments \in TableOf(Segment)
  /\ f.sections \in TableOf(Section) /\ f.nameSection \in Nat
  /\ \A o \in DOMAIN f.words : f.words[o] \in Nat
  /\ f.texts \subseteq Nat

ASSUME ELFAssumption ==
  /\ \A f \in Images : IsImage(f)
  /\ MaxSymbols \in Nat
  /\ WordLimit \in Nat \ {0} /\ WordLimit % 4 = 0

VARIABLES
  image,        \* the file, which is only read
  pc,           \* what is parsed next
  n, k,         \* the section in hand, and its next entry or, of notes, its next offset
  segments,
  interpreter,  \* where the path begins, if there is one
  sections,
  sectionNames, \* where they begin, once they are known
  symbols,      \* [table, index, name]
  dynamic,      \* [table, index, tag]
  relocations,  \* [table, index, symbol, name]
  notes,        \* [table, at]
  diagnostics,
  status

headerVars == <<segments, interpreter, sections, sectionNames>>
vars == <<image, pc, n, k, headerVars, symbols, dynamic, relocations, notes, diagnostics, status>>

Part == {"header", "segments", "sections", "symbols", "dynamic", "relocations", "notes"}

Init ==
  /\ image \in Images
  /\ pc = "header" /\ n = 1 /\ k = 0
  /\ segments = <<>> /\ interpreter = {}
  /\ sections = <<>> /\ sectionNames = <<>>
  /\ symbols = <<>> /\ dynamic = <<>> /\ relocations = <<>> /\ notes = <<>>
  /\ diagnostics = {}
  /\ status = [part \in Part |-> "NotParsed"]

(***************************************************************************)
(* The file                                                                *)
(***************************************************************************)
Word(offset) == IF offset \in DOMAIN image.words THEN image.words[offset] ELSE 0

Holds(offset, size) == offset + size <= image.size

By(for64, for32) == IF image.elf64 THEN for64 ELSE for32

(* strtab(): a text that is not empty, within a string table.              *)
Text(table, index) ==
  {o \in {table.offset + index} : index < table.size /\ Holds(o, 1) /\ o \in image.texts}

Report(code) == diagnostics' = diagnostics \cup {code}

Judge(part, result) == status' = [status EXCEPT ![part] = result]

GoTo(part) == pc' = part /\ n' = 1 /\ k' = 0

(* The one handler of exceptions. *)
Throw ==
  /\ Report("ELF_PARSE_EXCEPTION")
  /\ pc' = "done"
  /\ UNCHANGED <<image, n, k, headerVars, symbols, dynamic, relocations, notes, status>>

(***************************************************************************)
(* The header and the tables it leads to                                   *)
(***************************************************************************)
HeaderTruncated ==
  /\ pc = "header" /\ ~Holds(0, By(64, 52))
  /\ Report("ELF_HEADER_TRUNCATED") /\ Judge("header", "Malformed")
  /\ GoTo("done")
  /\ UNCHANGED <<image, headerVars, symbols, dynamic, relocations, notes>>

ReadHeader ==
  /\ pc = "header" /\ Holds(0, By(64, 52))
  /\ Judge("header", "Valid")
  /\ GoTo("segments")
  /\ UNCHANGED <<image, headerVars, symbols, dynamic, relocations, notes, diagnostics>>

(* An empty table is never in the way. *)
IsOutside(table, minimum) ==
  /\ table.entries # <<>>
  /\ table.entsize < minimum \/ ~Holds(table.offset, Len(table.entries) * table.entsize)

SegmentsOutside ==
  /\ pc = "segments" /\ IsOutside(image.segments, By(56, 32))
  /\ Report("ELF_PHDR_RANGE") /\ Judge("segments", "Malformed")
  /\ GoTo("sections")
  /\ UNCHANGED <<image, headerVars, symbols, dynamic, relocations, notes>>

(* PT_INTERP is 3; the last one that lies in the file counts. *)
InterpreterOf(table) ==
  LET named == {m \in DOMAIN table : table[m].type = 3 /\ Holds(table[m].offset, table[m].size)}
  IN  {table[m].offset : m \in {l \in named : \A o \in named : o <= l}}

ReadSegments ==
  /\ pc = "segments" /\ ~IsOutside(image.segments, By(56, 32))
  /\ segments' = image.segments.entries
  /\ interpreter' = InterpreterOf(segments')
  /\ Judge("segments", "Valid")
  /\ GoTo("sections")
  /\ UNCHANGED <<image, sections, sectionNames, symbols, dynamic, relocations, notes, diagnostics>>

SectionsOutside ==
  /\ pc = "sections" /\ IsOutside(image.sections, By(64, 40))
  /\ Report("ELF_SHDR_RANGE") /\ Judge("sections", "Malformed")
  /\ GoTo("symbols")
  /\ UNCHANGED <<image, headerVars, symbols, dynamic, relocations, notes>>

NOBITS == 8

ReadSections ==
  /\ pc = "sections" /\ ~IsOutside(image.sections, By(64, 40))
  /\ sections' = image.sections.entries
  /\ LET named == image.nameSection < Len(sections')
     IN  /\ sectionNames' = IF named
               THEN [m \in DOMAIN sections' |-> Text(sections'[image.nameSection + 1], sections'[m].name)]
               ELSE [m \in DOMAIN sections' |-> {}]
         /\ diagnostics' = diagnostics
               \cup {c \in {"ELF_SECTION_RANGE"} : \E m \in DOMAIN sections' :
                       sections'[m].type # NOBITS /\ ~Holds(sections'[m].offset, sections'[m].size)}
               \cup {c \in {"ELF_SHSTRNDX"} : ~named /\ sections' # <<>>}
  /\ Judge("sections", "Valid")
  /\ GoTo("symbols")
  /\ UNCHANGED <<image, segments, interpreter, symbols, dynamic, relocations, notes>>

(***************************************************************************)
(* What all loops over the sections share.  `hand' is the section in hand. *)
(***************************************************************************)
hand == sections[n]

Types(part) ==
  CASE part = "symbols" -> {2, 11} [] part = "dynamic" -> {6}
    [] part = "relocations" -> {4, 9} [] part = "notes" -> {7}

InHand(part) == pc = part /\ n <= Len(sections) /\ hand.type \in Types(part)

Count(table) == table.size \div table.entsize

EntryOffset(table, index) == table.offset + index * table.entsize

(* The loops over entries end at the first one that is not in the file.    *)
EntryFits(table, index) ==
  index < Count(table) /\ Holds(EntryOffset(table, index), table.entsize)

NextSection == n' = n + 1 /\ k' = 0

OtherSection ==
  /\ pc \in {"symbols", "dynamic", "relocations", "notes"}
  /\ n <= Len(sections)
  /\ hand.type \notin Types(pc) \/ (pc # "notes" /\ hand.entsize = 0)
  /\ NextSection
  /\ UNCHANGED <<image, pc, headerVars, symbols, dynamic, relocations, notes, diagnostics, status>>

(***************************************************************************)
(* Symbols                                                                 *)
(***************************************************************************)
SymbolTable == InHand("symbols") /\ hand.entsize # 0

(* Mutant: a table over the limit is passed over like one without names. *)
TooManySymbols_Silent ==
  /\ SymbolTable /\ Count(hand) > MaxSymbols
  /\ NextSection
  /\ UNCHANGED <<image, pc, headerVars, symbols, dynamic, relocations, notes, diagnostics, status>>

TooManySymbols ==
  /\ SymbolTable /\ Count(hand) > MaxSymbols
  /\ Report("ELF_SYMBOL_LIMIT")
  /\ NextSection
  /\ UNCHANGED <<image, pc, headerVars, symbols, dynamic, relocations, notes, status>>

IsUsable(table) == Count(table) <= MaxSymbols /\ table.link < Len(sections)

SymbolsWithoutNames ==
  /\ SymbolTable /\ Count(hand) <= MaxSymbols /\ hand.link >= Len(sections)
  /\ NextSection
  /\ UNCHANGED <<image, pc, headerVars, symbols, dynamic, relocations, notes, diagnostics, status>>

(* An entry may be declared shorter than what is read of it.               *)
SymbolSize == By(24, 16)

SymbolInHand ==
  [table |-> n, index |-> k,
   name |-> Text(sections[hand.link + 1], Word(EntryOffset(hand, k)))]

(* Mutant: a symbol without a name is left out. *)
ReadSymbol_Named ==
  /\ SymbolTable /\ IsUsable(hand) /\ EntryFits(hand, k)
  /\ Holds(EntryOffset(hand, k), SymbolSize)
  /\ symbols' = IF SymbolInHand.name = {} THEN symbols ELSE Append(symbols, SymbolInHand)
  /\ k' = k + 1
  /\ UNCHANGED <<image, pc, n, headerVars, dynamic, relocations, notes, diagnostics, status>>

ReadSymbol ==
  /\ SymbolTable /\ IsUsable(hand) /\ EntryFits(hand, k)
  /\ Holds(EntryOffset(hand, k), SymbolSize)
  /\ symbols' = Append(symbols, SymbolInHand)
  /\ k' = k + 1
  /\ UNCHANGED <<image, pc, n, headerVars, dynamic, relocations, notes, diagnostics, status>>

(* Two single bytes are read without a test, before the next read throws.  *)
SymbolTruncated ==
  /\ SymbolTable /\ IsUsable(hand) /\ EntryFits(hand, k)
  /\ ~Holds(EntryOffset(hand, k), SymbolSize)
  /\ Throw

EndSymbolTable ==
  /\ SymbolTable /\ IsUsable(hand) /\ ~EntryFits(hand, k)
  /\ NextSection
  /\ UNCHANGED <<image, pc, headerVars, symbols, dynamic, relocations, notes, diagnostics, status>>

EndSymbols ==
  /\ pc = "symbols" /\ n > Len(sections)
  /\ Judge("symbols", "Valid")
  /\ GoTo("dynamic")
  /\ UNCHANGED <<image, headerVars, symbols, dynamic, relocations, notes, diagnostics>>

(***************************************************************************)
(* Dynamic entries: those of the first such section, up to a zero tag; one *)
(* outside of the file throws.                                             *)
(***************************************************************************)
DynamicTable == InHand("dynamic") /\ hand.entsize # 0

MoreDynamic == k < Count(hand) /\ \A j \in DOMAIN dynamic : dynamic[j].tag # 0

(* Mutant: the status is set before the entries are read. *)
ReadDynamic_Early ==
  /\ DynamicTable /\ MoreDynamic /\ Holds(EntryOffset(hand, k), By(16, 8))
  /\ dynamic' = Append(dynamic, [table |-> n, index |-> k, tag |-> Word(EntryOffset(hand, k))])
  /\ k' = k + 1
  /\ Judge("dynamic", "Valid")
  /\ UNCHANGED <<image, pc, n, headerVars, symbols, relocations, notes, diagnostics>>

ReadDynamic ==
  /\ DynamicTable /\ MoreDynamic /\ Holds(EntryOffset(hand, k), By(16, 8))
  /\ dynamic' = Append(dynamic, [table |-> n, index |-> k, tag |-> Word(EntryOffset(hand, k))])
  /\ k' = k + 1
  /\ UNCHANGED <<image, pc, n, headerVars, symbols, relocations, notes, diagnostics, status>>

DynamicOutside ==
  /\ DynamicTable /\ MoreDynamic /\ ~Holds(EntryOffset(hand, k), By(16, 8))
  /\ Throw

EndDynamic ==
  /\ DynamicTable /\ ~MoreDynamic
  /\ Judge("dynamic", "Valid")
  /\ GoTo("relocations")
  /\ UNCHANGED <<image, headerVars, symbols, dynamic, relocations, notes, diagnostics>>

NoDynamic ==
  /\ pc = "dynamic" /\ n > Len(sections)
  /\ GoTo("relocations")
  /\ UNCHANGED <<image, headerVars, symbols, dynamic, relocations, notes, diagnostics, status>>

(***************************************************************************)
(* Relocations: the symbol's number counts in the symbols of all tables.   *)
(***************************************************************************)
RelocationTable == InHand("relocations") /\ hand.entsize # 0

RELA == 4

RelocationSize(table) == IF table.type = RELA THEN By(24, 12) ELSE By(16, 8)

ReadRelocation ==
  /\ RelocationTable /\ EntryFits(hand, k)
  /\ Holds(EntryOffset(hand, k), RelocationSize(hand))
  /\ LET symbol == Word(EntryOffset(hand, k) + By(8, 4))
     IN  relocations' = Append(relocations,
           [table |-> n, index |-> k, symbol |-> symbol,
            name |-> IF symbol < Len(symbols) THEN symbols[symbol + 1].name ELSE {}])
  /\ k' = k + 1
  /\ UNCHANGED <<image, pc, n, headerVars, symbols, dynamic, notes, diagnostics, status>>

RelocationTruncated ==
  /\ RelocationTable /\ EntryFits(hand, k)
  /\ ~Holds(EntryOffset(hand, k), RelocationSize(hand))
  /\ Throw

EndRelocationTable ==
  /\ RelocationTable /\ ~EntryFits(hand, k)
  /\ Judge("relocations", "Valid")
  /\ NextSection
  /\ UNCHANGED <<image, pc, headerVars, symbols, dynamic, relocations, notes, diagnostics>>

EndRelocations ==
  /\ pc = "relocations" /\ n > Len(sections)
  /\ GoTo("notes")
  /\ UNCHANGED <<image, headerVars, symbols, dynamic, relocations, notes, diagnostics, status>>

(***************************************************************************)
(* Notes: twelve bytes, a name and a descriptor, each padded to four bytes *)
(* by a computation in 32 bits.  `k' counts from the section's offset.     *)
(***************************************************************************)
(* Mutant: sizes are taken as they are. *)
Padded_Not(size) == size

Padded(size) == (((size + 3) % WordLimit) \div 4) * 4

NameSize(at) == Word(at)
DescSize(at) == Word(at + 4)

(* What the sizes of a note take behind its first twelve bytes.            *)
BodySize(at) == Padded(NameSize(at)) + Padded(DescSize(at))

here == hand.offset + k

MoreNotes == k + 12 <= hand.size /\ Holds(here, 12)

NoteFits == k + 12 + BodySize(here) <= hand.size

DescAt(at) == at + 12 + Padded(NameSize(at))

ReadNote ==
  /\ InHand("notes") /\ MoreNotes /\ NoteFits
  /\ notes' = Append(notes, [table |-> n, at |-> here])
  /\ k' = k + 12 + BodySize(here)
  /\ UNCHANGED <<image, pc, n, headerVars, symbols, dynamic, relocations, diagnostics, status>>

(* The descriptor is copied without a look at the end of the file: beyond  *)
(* it the copy may give anything (the note is added as if it were there),  *)
(* fail in the allocation or end the run.                                  *)
DescriptorBeyond ==
  /\ InHand("notes") /\ MoreNotes /\ NoteFits
  /\ ~Holds(DescAt(here), DescSize(here))
  /\ \/ Throw
     \/ /\ pc' = "aborted"
        /\ UNCHANGED <<image, n, k, headerVars, symbols, dynamic, relocations, notes, diagnostics, status>>

EndNoteTable ==
  /\ InHand("notes") /\ ~(MoreNotes /\ NoteFits)
  /\ Judge("notes", "Valid")
  /\ NextSection
  /\ UNCHANGED <<image, pc, headerVars, symbols, dynamic, relocations, notes, diagnostics>>

EndNotes ==
  /\ pc = "notes" /\ n > Len(sections)
  /\ GoTo("done")
  /\ UNCHANGED <<image, headerVars, symbols, dynamic, relocations, notes, diagnostics, status>>

Next ==
  \/ HeaderTruncated \/ ReadHeader
  \/ SegmentsOutside \/ ReadSegments \/ SectionsOutside \/ ReadSections
  \/ OtherSection
  \/ TooManySymbols \/ SymbolsWithoutNames \/ ReadSymbol \/ SymbolTruncated \/ EndSymbolTable \/ EndSymbols
  \/ ReadDynamic \/ DynamicOutside \/ EndDynamic \/ NoDynamic
  \/ ReadRelocation \/ RelocationTruncated \/ EndRelocationTable \/ EndRelocations
  \/ ReadNote \/ DescriptorBeyond \/ EndNoteTable \/ EndNotes

Spec == Init /\ [][Next]_vars

(***************************************************************************)
(* Properties                                                              *)
(***************************************************************************)
SectionsOf(part) ==
  {m \in DOMAIN sections : sections[m].type \in Types(part) /\ sections[m].entsize # 0}

Read(list, m, index) == \E j \in DOMAIN list : list[j].table = m /\ list[j].index = index

SymbolsAreWhole ==
  \A m \in SectionsOf("symbols") : IsUsable(sections[m]) =>
    \A index \in 0 .. (Count(sections[m]) - 1) : EntryFits(sections[m], index) => Read(symbols, m, index)

DynamicIsWhole ==
  \A m \in SectionsOf("dynamic") : (\A l \in SectionsOf("dynamic") : m <= l) =>
    \A index \in 0 .. (Count(sections[m]) - 1) :
      (\A l \in 0 .. (index - 1) : Word(EntryOffset(sections[m], l)) # 0) => Read(dynamic, m, index)

RelocationsAreWhole ==
  \A m \in SectionsOf("relocations") :
    \A index \in 0 .. (Count(sections[m]) - 1) : EntryFits(sections[m], index) => Read(relocations, m, index)

Interrupted == "ELF_PARSE_EXCEPTION" \in diagnostics

(* A list has the entries of usable tables in the file, each once, in the  *)
(* order of the tables and of their entries.                               *)
Precedes(a, b) == a.table < b.table \/ (a.table = b.table /\ a.index < b.index)

InOrder(list) == \A i, j \in DOMAIN list : i < j => Precedes(list[i], list[j])

AreEntries(list, part) ==
  \A j \in DOMAIN list :
    list[j].table \in SectionsOf(part) /\ EntryFits(sections[list[j].table], list[j].index)

SymbolsAreUsable == \A j \in DOMAIN symbols : IsUsable(sections[symbols[j].table])

LargeTablesAreReported ==
  \A m \in SectionsOf("symbols") : Count(sections[m]) > MaxSymbols => "ELF_SYMBOL_LIMIT" \in diagnostics

CutTablesAreReported ==
  \A m \in SectionsOf("symbols") \cup SectionsOf("relocations") :
    \A index \in 0 .. (Count(sections[m]) - 1) :
      EntryFits(sections[m], index) \/ "ELF_SECTION_RANGE" \in diagnostics

(* The lists are exactly what the loops promise.  Nothing is in them twice,*)
(* out of order or from another table, and once a part is called valid, no *)
(* entry that is in the file is missing.  What is missing is announced:    *)
(* tables over the limit, entries behind the end of the file, what an      *)
(* exception cuts off.  "Valid" does not promise more: a table whose       *)
(* entries have size 0 and a table of symbols that is linked to no section *)
(* are left out and no diagnostic says so (`SectionsOf', `IsUsable').      *)
(* Relocations are valid from the end of their first table on.             *)
TablesAreListed ==
  /\ AreEntries(symbols, "symbols") /\ SymbolsAreUsable /\ InOrder(symbols)
  /\ AreEntries(relocations, "relocations") /\ InOrder(relocations)
  /\ status["symbols"] = "Valid" => SymbolsAreWhole /\ LargeTablesAreReported
  /\ status["dynamic"] = "Valid" => DynamicIsWhole
  /\ pc = "done" /\ ~Interrupted => RelocationsAreWhole
  /\ CutTablesAreReported
  /\ pc = "done" => \A part \in {"symbols", "dynamic", "relocations"} :
       status[part] = "Valid" \/ SectionsOf(part) = {} \/ Interrupted

(* With one table of symbols, a relocation has the name of the entry with  *)
(* its symbol's number, or none if there is no such entry: the numbers are *)
(* those of the list of the symbols read, so none may be left out of it.   *)
RelocationsNameSymbols ==
  \A m \in SectionsOf("symbols") : SectionsOf("symbols") = {m} /\ IsUsable(sections[m]) =>
    \A j \in DOMAIN relocations :
      LET symbol == relocations[j].symbol
      IN  relocations[j].name =
            IF EntryFits(sections[m], symbol)
              THEN Text(sections[sections[m].link + 1], Word(EntryOffset(sections[m], symbol)))
              ELSE {}

TruePadded(size) == ((size + 3) \div 4) * 4

WrapsAround(at) == NameSize(at) + 3 >= WordLimit \/ DescSize(at) + 3 >= WordLimit

NoteEnd(at) == at + 12 + TruePadded(NameSize(at)) + TruePadded(DescSize(at))

(* The notes of a section follow each other from its first byte on and end *)
(* within the section, all but for sizes that wrap around.  That they end  *)
(* within the file is not promised: nothing tests where a descriptor ends  *)
(* before it is copied (`DescriptorBeyond').                               *)
NotesTile ==
  \A j \in DOMAIN notes :
    LET section == sections[notes[j].table]
        at      == notes[j].at
    IN  /\ j = 1 \/ notes[j - 1].table # notes[j].table => at = section.offset
        /\ j > 1 /\ notes[j - 1].table = notes[j].table /\ ~WrapsAround(notes[j - 1].at)
             => at = NoteEnd(notes[j - 1].at)
        /\ ~WrapsAround(at) => NoteEnd(at) <= section.offset + section.size

(* "resolved symbol name" (docs/v0.3.md): a relocation's name is that of   *)
(* the symbol it has in the table that its own section is linked to.       *)
RelocationsNameTheirOwn ==
  \A j \in DOMAIN relocations :
    LET own == sections[relocations[j].table].link + 1
    IN  own \in SectionsOf("symbols") /\ relocations[j].name # {} =>
          \E l \in DOMAIN symbols :
            /\ symbols[l].table = own /\ symbols[l].index = relocations[j].symbol
            /\ symbols[l].name = relocations[j].name
=============================================================================
