--------------------------- MODULE ELFImage_proofs ---------------------------
(***************************************************************************)
(* Proofs about parse_elf_image(), for every file and every limit.  The    *)
(* argument: an entry that the loops over sections and entries have passed *)
(* is in its list; a single table of symbols is read without a gap, so     *)
(* that places in the list are numbers; the cursor of a section's notes is *)
(* at the end of the last one; and the parts follow each other, so that a  *)
(* list has all of its entries when its status is set.                     *)
(***************************************************************************)
EXTENDS ELFImage, TLAPS

(***************************************************************************)
(* What every step keeps true, so that the above follows.                  *)
(***************************************************************************)
Codes ==
  {"ELF_PARSE_EXCEPTION", "ELF_HEADER_TRUNCATED", "ELF_PHDR_RANGE", "ELF_SHDR_RANGE", "ELF_SECTION_RANGE",
   "ELF_SHSTRNDX", "ELF_SYMBOL_LIMIT"}

TypeOK ==
  /\ IsImage(image)
  /\ pc \in Part \cup {"done", "aborted"}
  /\ n \in Nat \ {0} /\ k \in Nat
  /\ sections \in Seq(Section)
  /\ symbols \in Seq([table : Nat, index : Nat, name : SUBSET Nat])
  /\ dynamic \in Seq([table : Nat, index : Nat, tag : Nat])
  /\ relocations \in Seq([table : Nat, index : Nat, symbol : Nat, name : SUBSET Nat])
  /\ notes \in Seq([table : Nat, at : Nat])
  /\ diagnostics \in SUBSET Codes
  /\ status \in [Part -> {"NotParsed", "Valid", "Malformed"}]

(* The parts follow each other, and each table of sections gets a verdict  *)
(* when its part is over.                                                  *)
Late == {"dynamic", "relocations", "notes", "done", "aborted"}

PartsInOrder ==
  /\ pc \in Part => ~Interrupted
  /\ pc \in {"header", "segments", "sections"} =>
       /\ sections = <<>> /\ symbols = <<>> /\ dynamic = <<>> /\ relocations = <<>> /\ notes = <<>>
       /\ \A part \in {"symbols", "dynamic", "relocations"} : status[part] # "Valid"
  /\ pc = "symbols" => dynamic = <<>> /\ status["symbols"] # "Valid" /\ status["dynamic"] # "Valid"
  /\ pc = "dynamic" => status["dynamic"] # "Valid"
  /\ pc \in {"symbols", "dynamic"} => relocations = <<>>
  /\ pc \in Part \ {"notes"} => notes = <<>>
  /\ pc \in Late /\ ~Interrupted => status["symbols"] = "Valid" \/ sections = <<>>
  /\ pc \in Late \ {"dynamic"} /\ ~Interrupted =>
       status["dynamic"] = "Valid" \/ SectionsOf("dynamic") = {}
  /\ pc \in {"notes", "done", "aborted"} /\ ~Interrupted =>
       status["relocations"] = "Valid" \/ SectionsOf("relocations") = {}

(* An entry that the loops have passed is in its list.                     *)
Behind(part, m, index) == pc = part /\ (m < n \/ (m = n /\ index < k))

SymbolsSoFar ==
  \A m \in SectionsOf("symbols") : IsUsable(sections[m]) =>
    \A index \in 0 .. (Count(sections[m]) - 1) :
      EntryFits(sections[m], index) /\ (Behind("symbols", m, index) \/ status["symbols"] = "Valid")
        => Read(symbols, m, index)

DynamicSoFar ==
  /\ status["dynamic"] = "Valid" => DynamicIsWhole
  /\ pc = "dynamic" =>
       /\ Len(dynamic) = k
       /\ k > 0 => n \in SectionsOf("dynamic")
       /\ \A m \in SectionsOf("dynamic") : n <= m
       /\ \A j \in DOMAIN dynamic :
            dynamic[j] = [table |-> n, index |-> j - 1, tag |-> Word(EntryOffset(sections[n], j - 1))]

RelocationsSoFar ==
  /\ \A m \in SectionsOf("relocations") : \A index \in 0 .. (Count(sections[m]) - 1) :
       /\ EntryFits(sections[m], index)
       /\ Behind("relocations", m, index) \/ (pc \in {"notes", "done", "aborted"} /\ ~Interrupted)
       => Read(relocations, m, index)
  /\ pc = "relocations" /\ status["relocations"] # "Valid" =>
       \A m \in SectionsOf("relocations") : n <= m

(* A single table of symbols is read from its first entry on to the last   *)
(* one that is in the file, so that places in the list are numbers.        *)
SymbolsByNumber ==
  \A m \in SectionsOf("symbols") : SectionsOf("symbols") = {m} /\ IsUsable(sections[m]) =>
    /\ \A j \in DOMAIN symbols :
         /\ EntryFits(sections[m], j - 1)
         /\ symbols[j].name = Text(sections[sections[m].link + 1], Word(EntryOffset(sections[m], j - 1)))
    /\ pc = "symbols" /\ n < m => Len(symbols) = 0
    /\ pc = "symbols" /\ n = m => Len(symbols) = k
    /\ (pc = "symbols" /\ n > m) \/ status["symbols"] = "Valid" => ~EntryFits(sections[m], Len(symbols))

(* The cursor of a section's notes is at the end of the last one.          *)
NotesSoFar ==
  /\ \A j \in DOMAIN notes : notes[j].table \in DOMAIN sections /\ (pc = "notes" => notes[j].table <= n)
  /\ pc = "notes" =>
       IF notes # <<>> /\ notes[Len(notes)].table = n
         THEN hand.offset + k = notes[Len(notes)].at + 12 + BodySize(notes[Len(notes)].at)
         ELSE k = 0

(* Both lists are in the order of the loops, and behind their cursor.      *)
cursor == [table |-> n, index |-> k]

SymbolsListed ==
  /\ AreEntries(symbols, "symbols") /\ SymbolsAreUsable /\ InOrder(symbols)
  /\ pc = "symbols" => \A j \in DOMAIN symbols : Precedes(symbols[j], cursor)

RelocationsListed ==
  /\ AreEntries(relocations, "relocations") /\ InOrder(relocations)
  /\ pc = "relocations" => \A j \in DOMAIN relocations : Precedes(relocations[j], cursor)

(* What the loop over the symbols left out for its size has been reported. *)
LargeSoFar ==
  \A m \in SectionsOf("symbols") :
    Count(sections[m]) > MaxSymbols /\ ((pc = "symbols" /\ m < n) \/ status["symbols"] = "Valid")
      => "ELF_SYMBOL_LIMIT" \in diagnostics

(* Sections that leave the file are reported when they are read. *)
RangesReported ==
  \A m \in DOMAIN sections :
    sections[m].type # NOBITS /\ ~Holds(sections[m].offset, sections[m].size)
      => "ELF_SECTION_RANGE" \in diagnostics

ELFInv ==
  /\ TypeOK /\ PartsInOrder
  /\ SymbolsSoFar /\ DynamicSoFar /\ RelocationsSoFar
  /\ SymbolsListed /\ RelocationsListed /\ LargeSoFar /\ RangesReported
  /\ SymbolsByNumber /\ RelocationsNameSymbols
  /\ NotesSoFar /\ NotesTile

(***************************************************************************)
(* Reading the file                                                        *)
(***************************************************************************)
(* The parser only reads the file, and the sections come all at once.      *)
LEMMA FileStays == [Next]_vars => image' = image
BY DEF Next, vars, Throw, HeaderTruncated, ReadHeader, SegmentsOutside, ReadSegments, SectionsOutside,
   ReadSections, OtherSection, TooManySymbols, SymbolsWithoutNames, ReadSymbol, SymbolTruncated,
   EndSymbolTable, EndSymbols, ReadDynamic, DynamicOutside, EndDynamic, NoDynamic, ReadRelocation,
   RelocationTruncated, EndRelocationTable, EndRelocations, ReadNote, DescriptorBeyond, EndNoteTable, EndNotes

LEMMA SameFile ==
  ASSUME image' = image
  PROVE  /\ \A o : Word(o)' = Word(o)
         /\ \A o, size : Holds(o, size)' <=> Holds(o, size)
         /\ \A table, index : Text(table, index)' = Text(table, index)
         /\ \A table, index : EntryFits(table, index)' <=> EntryFits(table, index)
         /\ \A at : /\ BodySize(at)' = BodySize(at) /\ DescAt(at)' = DescAt(at) /\ DescSize(at)' = DescSize(at)
                    /\ NoteEnd(at)' = NoteEnd(at) /\ (WrapsAround(at)' <=> WrapsAround(at))
         /\ sections' = sections =>
              /\ \A table : IsUsable(table)' <=> IsUsable(table)
              /\ \A part : SectionsOf(part)' = SectionsOf(part)
<1>1. /\ \A o : Word(o)' = Word(o)
      /\ \A o, size : Holds(o, size)' <=> Holds(o, size)
  BY DEF Word, Holds
<1> QED
  BY <1>1 DEF Text, EntryFits, BodySize, DescAt, DescSize, NameSize, NoteEnd, WrapsAround, IsUsable, SectionsOf

LEMMA WordFacts ==
  ASSUME IsImage(image)
  PROVE  image.size \in Nat /\ \A o : Word(o) \in Nat
BY DEF IsImage, Word

LEMMA SectionFacts ==
  ASSUME TypeOK
  PROVE  /\ Len(sections) \in Nat /\ DOMAIN sections = 1 .. Len(sections)
         /\ \A m \in DOMAIN sections :
              /\ sections[m].type \in Nat /\ sections[m].offset \in Nat /\ sections[m].size \in Nat
              /\ sections[m].link \in Nat /\ sections[m].entsize \in Nat /\ sections[m].name \in Nat
<1>1. sections \in Seq(Section)
  BY DEF TypeOK
<1>2. Len(sections) \in Nat /\ DOMAIN sections = 1 .. Len(sections) /\ \A m \in DOMAIN sections : sections[m] \in Section
  BY <1>1
<1> QED
  BY <1>2 DEF Section

(* Entries of some size can be counted, and the earlier ones fit as well.  *)
LEMMA EntryFacts ==
  ASSUME IsImage(image), NEW table,
         table.offset \in Nat, table.size \in Nat, table.entsize \in Nat \ {0}
  PROVE  /\ Count(table) \in Nat
         /\ \A index \in Nat : EntryOffset(table, index) \in Nat
         /\ \A a, b \in Nat : a <= b /\ EntryFits(table, b) => EntryFits(table, a)
<1>1. Count(table) \in Nat
  BY DEF Count
<1>2. \A e, a \in Nat : a * e \in Nat
  OBVIOUS
<1>3. \A index \in Nat : EntryOffset(table, index) \in Nat
  BY <1>2 DEF EntryOffset
<1>4. ASSUME NEW a \in Nat, NEW b \in Nat, a <= b, EntryFits(table, b) PROVE EntryFits(table, a)
  <2>1. \A e, i, j \in Nat : i <= j => i * e <= j * e
    OBVIOUS
  <2>2. a * table.entsize <= b * table.entsize /\ a * table.entsize \in Nat /\ b * table.entsize \in Nat
    BY <2>1, <1>2, <1>4
  <2>3. image.size \in Nat
    BY WordFacts
  <2>4. EntryOffset(table, a) <= EntryOffset(table, b) /\ EntryOffset(table, a) \in Nat /\ EntryOffset(table, b) \in Nat
    BY <2>2 DEF EntryOffset
  <2> QED
    BY <1>1, <1>4, <2>3, <2>4 DEF EntryFits, Holds
<1> QED
  BY <1>1, <1>3, <1>4

LEMMA PaddedFacts ==
  \A size \in Nat :
    /\ Padded(size) \in Nat /\ TruePadded(size) \in Nat /\ size <= TruePadded(size)
    /\ size + 3 < WordLimit => Padded(size) = TruePadded(size)
<1> SUFFICES ASSUME NEW size \in Nat
             PROVE  /\ Padded(size) \in Nat /\ TruePadded(size) \in Nat /\ size <= TruePadded(size)
                    /\ size + 3 < WordLimit => Padded(size) = TruePadded(size)
  OBVIOUS
<1>1. WordLimit \in Nat \ {0}
  BY ELFAssumption
<1>2. (size + 3) % WordLimit \in Nat
  BY <1>1
<1>3. \A a, w \in Nat : w # 0 /\ a < w => a % w = a
  OBVIOUS
<1>4. size + 3 < WordLimit => (size + 3) % WordLimit = size + 3
  BY <1>1, <1>3
<1> QED
  BY <1>1, <1>2, <1>4 DEF Padded, TruePadded

(* What the sizes of a note are; without a wrap they are the true ones.    *)
LEMMA NoteFacts ==
  ASSUME IsImage(image), NEW at \in Nat
  PROVE  /\ BodySize(at) \in Nat /\ NoteEnd(at) \in Nat /\ DescAt(at) \in Nat /\ DescSize(at) \in Nat
         /\ ~WrapsAround(at) => /\ NoteEnd(at) = at + 12 + BodySize(at)
                                /\ DescAt(at) + DescSize(at) <= NoteEnd(at)
<1>1. NameSize(at) \in Nat /\ DescSize(at) \in Nat /\ WordLimit \in Nat
  BY WordFacts, ELFAssumption DEF NameSize, DescSize
<1>2. /\ Padded(NameSize(at)) \in Nat /\ Padded(DescSize(at)) \in Nat
      /\ TruePadded(NameSize(at)) \in Nat /\ TruePadded(DescSize(at)) \in Nat /\ DescSize(at) <= TruePadded(DescSize(at))
  BY <1>1, PaddedFacts
<1>3. ~WrapsAround(at) => /\ Padded(NameSize(at)) = TruePadded(NameSize(at))
                          /\ Padded(DescSize(at)) = TruePadded(DescSize(at))
  BY <1>1, PaddedFacts DEF WrapsAround
<1> QED
  BY <1>1, <1>2, <1>3 DEF BodySize, NoteEnd, DescAt

LEMMA TextType == \A table, index : table.offset \in Nat /\ index \in Nat => Text(table, index) \in SUBSET Nat
BY DEF Text

(***************************************************************************)
(* Types and order                                                         *)
(***************************************************************************)
LEMMA InitInv == Init => ELFInv
<1> SUFFICES ASSUME Init PROVE ELFInv
  OBVIOUS
<1>1. TypeOK
  BY ELFAssumption DEF Init, TypeOK, Part
<1>2. /\ sections = <<>> /\ symbols = <<>> /\ dynamic = <<>> /\ relocations = <<>> /\ notes = <<>>
      /\ pc = "header" /\ status = [part \in Part |-> "NotParsed"] /\ ~Interrupted
  BY DEF Init, Interrupted
<1>3. \A part : SectionsOf(part) = {}
  BY <1>2 DEF SectionsOf
<1>4. SymbolsListed /\ RelocationsListed /\ LargeSoFar /\ RangesReported
  BY <1>2, <1>3 DEF SymbolsListed, RelocationsListed, LargeSoFar, RangesReported, AreEntries, SymbolsAreUsable, InOrder
<1> QED
  BY <1>1, <1>2, <1>3, <1>4 DEF ELFInv, PartsInOrder, SymbolsSoFar, DynamicSoFar, RelocationsSoFar, SymbolsByNumber,
     RelocationsNameSymbols, NotesSoFar, NotesTile, Part, Late

LEMMA TypeKeeps == TypeOK /\ [Next]_vars => TypeOK'
<1> SUFFICES ASSUME TypeOK, [Next]_vars PROVE TypeOK'
  OBVIOUS
<1>1. image' = image /\ IsImage(image)' /\ IsImage(image)
  BY FileStays DEF TypeOK, IsImage
<1>2. /\ pc \in Part \cup {"done", "aborted"} /\ n \in Nat \ {0} /\ k \in Nat
      /\ sections \in Seq(Section) /\ diagnostics \in SUBSET Codes
      /\ symbols \in Seq([table : Nat, index : Nat, name : SUBSET Nat])
      /\ dynamic \in Seq([table : Nat, index : Nat, tag : Nat])
      /\ relocations \in Seq([table : Nat, index : Nat, symbol : Nat, name : SUBSET Nat])
      /\ notes \in Seq([table : Nat, at : Nat])
      /\ status \in [Part -> {"NotParsed", "Valid", "Malformed"}]
  BY DEF TypeOK
<1>3. /\ "symbols" \in Part /\ "dynamic" \in Part /\ "relocations" \in Part /\ "notes" \in Part
      /\ "segments" \in Part /\ "sections" \in Part /\ "header" \in Part
      /\ 1 \in Nat \ {0} /\ 0 \in Nat /\ n + 1 \in Nat \ {0} /\ k + 1 \in Nat
  BY <1>2 DEF Part
<1>4. \A part \in Part : \A result \in {"Valid", "Malformed"} :
        [status EXCEPT ![part] = result] \in [Part -> {"NotParsed", "Valid", "Malformed"}]
  BY <1>2
<1>5. \A code \in Codes : diagnostics \cup {code} \in SUBSET Codes
  BY <1>2
<1>16. {"ELF_PARSE_EXCEPTION", "ELF_HEADER_TRUNCATED", "ELF_PHDR_RANGE", "ELF_SHDR_RANGE", "ELF_SECTION_RANGE",
       "ELF_SHSTRNDX", "ELF_SYMBOL_LIMIT"} \subseteq Codes
  BY DEF Codes
<1> USE DEF Judge, GoTo, Report
<1>6. CASE HeaderTruncated \/ ReadHeader \/ SegmentsOutside \/ ReadSegments \/ SectionsOutside
  <2>1. /\ pc' \in Part \cup {"done"} /\ n' = 1 /\ k' = 0
        /\ UNCHANGED <<sections, symbols, dynamic, relocations, notes>>
    BY <1>6 DEF HeaderTruncated, ReadHeader, SegmentsOutside, ReadSegments, SectionsOutside, headerVars, Part
  <2>2. \/ diagnostics' = diagnostics
        \/ \E code \in Codes : diagnostics' = diagnostics \cup {code}
    BY <1>6, <1>16 DEF HeaderTruncated, ReadHeader, SegmentsOutside, ReadSegments, SectionsOutside
  <2>3. \E part \in Part : \E result \in {"Valid", "Malformed"} : status' = [status EXCEPT ![part] = result]
    BY <1>6, <1>3 DEF HeaderTruncated, ReadHeader, SegmentsOutside, ReadSegments, SectionsOutside
  <2>4. diagnostics' \in SUBSET Codes
    BY <2>2, <1>2, <1>5, <1>16
  <2>5. status' \in [Part -> {"NotParsed", "Valid", "Malformed"}]
    BY <2>3, <1>4
  <2> QED
    BY <2>1, <2>4, <2>5, <1>1, <1>2, <1>3 DEF TypeOK
<1>7. CASE ReadSections
  <2>1. /\ pc' = "symbols" /\ n' = 1 /\ k' = 0
        /\ UNCHANGED <<symbols, dynamic, relocations, notes>>
        /\ sections' = image.sections.entries
        /\ status' = [status EXCEPT !["sections"] = "Valid"]
        /\ diagnostics' \subseteq diagnostics \cup {"ELF_SECTION_RANGE", "ELF_SHSTRNDX"}
    BY <1>7 DEF ReadSections
  <2>2. sections' \in Seq(Section)
    BY <2>1, <1>1 DEF IsImage, TableOf
  <2>3. diagnostics' \in SUBSET Codes
    BY <2>1, <1>2, <1>16
  <2>4. status' \in [Part -> {"NotParsed", "Valid", "Malformed"}]
    BY <2>1, <1>3, <1>4
  <2> QED
    BY <2>1, <2>2, <2>3, <2>4, <1>1, <1>2, <1>3 DEF TypeOK
<1>8. CASE OtherSection \/ TooManySymbols \/ SymbolsWithoutNames \/ EndSymbolTable \/ EndRelocationTable \/ EndNoteTable
  <2>1. /\ UNCHANGED <<pc, sections, symbols, dynamic, relocations, notes>>
        /\ n' = n + 1 /\ k' = 0
    BY <1>8 DEF OtherSection, TooManySymbols, SymbolsWithoutNames, EndSymbolTable, EndRelocationTable, EndNoteTable,
       headerVars, NextSection
  <2>2. diagnostics' = diagnostics \/ diagnostics' = diagnostics \cup {"ELF_SYMBOL_LIMIT"}
    BY <1>8 DEF OtherSection, TooManySymbols, SymbolsWithoutNames, EndSymbolTable, EndRelocationTable, EndNoteTable
  <2>3. status' = status \/ \E part \in Part : status' = [status EXCEPT ![part] = "Valid"]
    BY <1>8, <1>3 DEF OtherSection, TooManySymbols, SymbolsWithoutNames, EndSymbolTable, EndRelocationTable, EndNoteTable
  <2>4. diagnostics' \in SUBSET Codes
    BY <2>2, <1>2, <1>5, <1>16
  <2>5. status' \in [Part -> {"NotParsed", "Valid", "Malformed"}]
    BY <2>3, <1>2, <1>4
  <2> QED
    BY <2>1, <2>4, <2>5, <1>1, <1>2, <1>3 DEF TypeOK
<1>9. CASE EndSymbols \/ EndDynamic \/ NoDynamic \/ EndRelocations \/ EndNotes
  <2>1. /\ UNCHANGED <<sections, symbols, dynamic, relocations, notes, diagnostics>>
        /\ n' = 1 /\ k' = 0 /\ pc' \in Part \cup {"done"}
    BY <1>9 DEF EndSymbols, EndDynamic, NoDynamic, EndRelocations, EndNotes, headerVars, Part
  <2>2. status' = status \/ \E part \in Part : status' = [status EXCEPT ![part] = "Valid"]
    BY <1>9, <1>3 DEF EndSymbols, EndDynamic, NoDynamic, EndRelocations, EndNotes
  <2>3. status' \in [Part -> {"NotParsed", "Valid", "Malformed"}]
    BY <2>2, <1>2, <1>4
  <2> QED
    BY <2>1, <2>3, <1>1, <1>2, <1>3 DEF TypeOK
<1>10. CASE SymbolTruncated \/ DynamicOutside \/ RelocationTruncated \/ DescriptorBeyond
  <2>1. /\ UNCHANGED <<n, k, sections, symbols, dynamic, relocations, notes, status>>
        /\ pc' \in {"done", "aborted"}
        /\ diagnostics' = diagnostics \/ diagnostics' = diagnostics \cup {"ELF_PARSE_EXCEPTION"}
    BY <1>10 DEF SymbolTruncated, DynamicOutside, RelocationTruncated, DescriptorBeyond, Throw, headerVars
  <2>2. diagnostics' \in SUBSET Codes
    BY <2>1, <1>2, <1>5, <1>16
  <2> QED
    BY <2>1, <2>2, <1>1, <1>2, <1>3 DEF TypeOK
<1>11. CASE ReadSymbol
  <2>1. /\ symbols' = Append(symbols, SymbolInHand) /\ k' = k + 1
        /\ UNCHANGED <<pc, n, sections, dynamic, relocations, notes, diagnostics, status>>
        /\ hand.link < Len(sections) /\ n <= Len(sections)
    BY <1>11 DEF ReadSymbol, headerVars, IsUsable, SymbolTable, InHand
  <2>6. n \in DOMAIN sections
    BY <2>1, <1>2, SectionFacts
  <2>2. hand.link \in Nat
    BY <2>6, SectionFacts DEF hand
  <2>5. hand.link + 1 \in DOMAIN sections
    BY <2>1, <2>2, SectionFacts
  <2>3. SymbolInHand.name \in SUBSET Nat
    BY <2>2, <2>5, <1>1, SectionFacts, TextType, WordFacts DEF SymbolInHand
  <2>4. SymbolInHand \in [table : Nat, index : Nat, name : SUBSET Nat]
    BY <2>3, <1>2 DEF SymbolInHand
  <2> QED
    BY <2>1, <2>4, <1>1, <1>2, <1>3 DEF TypeOK
<1>12. CASE ReadDynamic
  <2>1. /\ dynamic' = Append(dynamic, [table |-> n, index |-> k, tag |-> Word(EntryOffset(hand, k))]) /\ k' = k + 1
        /\ UNCHANGED <<pc, n, sections, symbols, relocations, notes, diagnostics, status>>
    BY <1>12 DEF ReadDynamic, headerVars
  <2>2. [table |-> n, index |-> k, tag |-> Word(EntryOffset(hand, k))] \in [table : Nat, index : Nat, tag : Nat]
    BY <1>1, <1>2, WordFacts
  <2> QED
    BY <2>1, <2>2, <1>1, <1>2, <1>3 DEF TypeOK
<1>13. CASE ReadRelocation
  <2> DEFINE symbol == Word(EntryOffset(hand, k) + By(8, 4))
             name == IF symbol < Len(symbols) THEN symbols[symbol + 1].name ELSE {}
  <2>1. relocations' = Append(relocations, [table |-> n, index |-> k, symbol |-> symbol, name |-> name])
    BY <1>13 DEF ReadRelocation
  <2>2. /\ k' = k + 1
        /\ UNCHANGED <<pc, n, sections, symbols, dynamic, notes, diagnostics, status>>
    BY <1>13 DEF ReadRelocation, headerVars
  <2>3. symbol \in Nat
    BY <1>1, WordFacts
  <2>4. symbols \in Seq([table : Nat, index : Nat, name : SUBSET Nat])
    BY <1>2
  <2> HIDE DEF symbol
  <2>7. Len(symbols) \in Nat /\ \A j \in 1 .. Len(symbols) : symbols[j].name \in SUBSET Nat
    <3>1. Len(symbols) \in Nat /\ \A j \in 1 .. Len(symbols) : symbols[j] \in [table : Nat, index : Nat, name : SUBSET Nat]
      <4> DEFINE Symbol == [table : Nat, index : Nat, name : SUBSET Nat]
      <4>1. symbols \in Seq(Symbol)
        BY <2>4
      <4> HIDE DEF Symbol
      <4>2. Len(symbols) \in Nat /\ \A j \in 1 .. Len(symbols) : symbols[j] \in Symbol
        BY <4>1
      <4> QED
        BY <4>2 DEF Symbol
    <3> QED
      BY <3>1
  <2>5. name \in SUBSET Nat
    <3>1. CASE symbol < Len(symbols)
      <4>1. symbol + 1 \in 1 .. Len(symbols)
        BY <2>3, <2>7, <3>1
      <4> QED
        BY <4>1, <2>7, <3>1
    <3>2. CASE ~(symbol < Len(symbols))
      BY <3>2
    <3> QED
      BY <3>1, <3>2
  <2> HIDE DEF name
  <2>6. [table |-> n, index |-> k, symbol |-> symbol, name |-> name] \in [table : Nat, index : Nat, symbol : Nat, name : SUBSET Nat]
    BY <2>3, <2>5, <1>2
  <2> QED
    BY <2>1, <2>2, <2>6, <1>1, <1>2, <1>3 DEF TypeOK
<1>14. CASE ReadNote
  <2>1. /\ notes' = Append(notes, [table |-> n, at |-> here])
        /\ k' = k + 12 + BodySize(here)
        /\ UNCHANGED <<pc, n, sections, symbols, dynamic, relocations, diagnostics, status>>
        /\ n <= Len(sections)
    BY <1>14 DEF ReadNote, headerVars, InHand
  <2>5. n \in DOMAIN sections
    BY <2>1, <1>2, SectionFacts
  <2>2. here \in Nat
    BY <2>5, <1>2, SectionFacts DEF here, hand
  <2>3. BodySize(here) \in Nat
    BY <2>2, <1>1, NoteFacts
  <2>4. [table |-> n, at |-> here] \in [table : Nat, at : Nat]
    BY <2>2, <1>2
  <2> QED
    BY <2>1, <2>3, <2>4, <1>1, <1>2 DEF TypeOK
<1>15. CASE UNCHANGED vars
  BY <1>15, <1>1, <1>2 DEF vars, headerVars, TypeOK
<1> QED
  BY <1>6, <1>7, <1>8, <1>9, <1>10, <1>11, <1>12, <1>13, <1>14, <1>15 DEF Next

(* What a step does to the part in hand and to the verdicts. *)
LEMMA PartsKeep == TypeOK /\ PartsInOrder /\ DynamicSoFar /\ RelocationsSoFar /\ [Next]_vars => PartsInOrder'
<1> SUFFICES ASSUME TypeOK, PartsInOrder, DynamicSoFar, RelocationsSoFar, [Next]_vars PROVE PartsInOrder'
  OBVIOUS
<1> DEFINE lists == <<sections, symbols, dynamic, relocations, notes>>
<1>1. /\ status \in [Part -> {"NotParsed", "Valid", "Malformed"}]
      /\ "symbols" \in Part /\ "dynamic" \in Part /\ "relocations" \in Part
      /\ Len(sections) \in Nat /\ DOMAIN sections = 1 .. Len(sections) /\ n \in Nat
  BY SectionFacts DEF TypeOK, Part
<1>2. sections' = sections => \A part : SectionsOf(part)' = SectionsOf(part)
  BY DEF SectionsOf
<1> USE DEF Judge, GoTo, Report
<1>3. CASE HeaderTruncated \/ ReadHeader \/ SegmentsOutside \/ ReadSegments \/ SectionsOutside
  <2>1. /\ pc \in {"header", "segments", "sections"} /\ pc' \in {"segments", "sections", "symbols", "done"}
        /\ UNCHANGED lists
        /\ \E part \in {"header", "segments", "sections"} : \E result : status' = [status EXCEPT ![part] = result]
    BY <1>3 DEF HeaderTruncated, ReadHeader, SegmentsOutside, ReadSegments, SectionsOutside, headerVars
  <2>2. \A part \in {"symbols", "dynamic", "relocations"} : status'[part] = status[part]
    BY <2>1, <1>1
  <2>3. \A part : SectionsOf(part)' = {}
    BY <2>1 DEF PartsInOrder, SectionsOf
  <2>4. ~Interrupted'
    BY <1>3 DEF HeaderTruncated, ReadHeader, SegmentsOutside, ReadSegments, SectionsOutside, PartsInOrder, Part, Interrupted
  <2> QED
    BY <2>1, <2>2, <2>3, <2>4 DEF PartsInOrder, Part, Late
<1>4. CASE ReadSections
  <2>1. /\ pc = "sections" /\ pc' = "symbols" /\ UNCHANGED <<symbols, dynamic, relocations, notes>>
        /\ status' = [status EXCEPT !["sections"] = "Valid"]
    BY <1>4 DEF ReadSections
  <2>2. \A part \in {"symbols", "dynamic", "relocations"} : status'[part] = status[part]
    BY <2>1, <1>1
  <2>3. ~Interrupted'
    BY <1>4 DEF ReadSections, PartsInOrder, Part, Interrupted
  <2> QED
    BY <2>1, <2>2, <2>3 DEF PartsInOrder, Part, Late
<1>5. CASE OtherSection \/ TooManySymbols \/ SymbolsWithoutNames \/ EndSymbolTable
  <2>1. pc \in {"symbols", "dynamic", "relocations", "notes"} /\ UNCHANGED <<pc, lists, status>>
    BY <1>5 DEF OtherSection, TooManySymbols, SymbolsWithoutNames, EndSymbolTable, SymbolTable, InHand, headerVars
  <2>2. diagnostics \subseteq diagnostics'
    BY <1>5 DEF OtherSection, TooManySymbols, SymbolsWithoutNames, EndSymbolTable
  <2>3. SectionsOf("dynamic")' = SectionsOf("dynamic") /\ SectionsOf("relocations")' = SectionsOf("relocations")
    BY <2>1, <1>2
  <2>4. /\ pc' = pc /\ sections' = sections /\ symbols' = symbols /\ dynamic' = dynamic
        /\ relocations' = relocations /\ notes' = notes /\ status' = status
    BY <2>1
  <2>5. Interrupted' => Interrupted
    BY <1>5 DEF OtherSection, TooManySymbols, SymbolsWithoutNames, EndSymbolTable, Interrupted
  <2>6. (pc \in Part => ~Interrupted)'
    BY <2>4, <2>5 DEF PartsInOrder
  <2> QED
    BY <2>2, <2>3, <2>4, <2>6 DEF PartsInOrder, Interrupted
<1>6. CASE EndRelocationTable \/ EndNoteTable
  <2>1. /\ pc \in {"relocations", "notes"} /\ UNCHANGED <<pc, lists, diagnostics>>
        /\ status' = [status EXCEPT ![pc] = "Valid"]
    BY <1>6 DEF EndRelocationTable, EndNoteTable, RelocationTable, InHand, headerVars
  <2>2. /\ \A part \in {"symbols", "dynamic"} : status'[part] = status[part]
        /\ status["relocations"] = "Valid" => status'["relocations"] = "Valid"
    BY <2>1, <1>1
  <2>3. pc = "notes" => status'["relocations"] = status["relocations"]
    BY <2>1, <1>1
  <2> QED
    BY <2>1, <2>2, <2>3, <1>2 DEF PartsInOrder, Part, Late, Interrupted
<1>7. CASE EndSymbols
  <2>1. /\ pc = "symbols" /\ pc' = "dynamic" /\ UNCHANGED lists
        /\ status' = [status EXCEPT !["symbols"] = "Valid"]
    BY <1>7 DEF EndSymbols, headerVars
  <2>2. status'["symbols"] = "Valid" /\ status'["dynamic"] = status["dynamic"]
    BY <2>1, <1>1
  <2>3. ~Interrupted'
    BY <1>7 DEF EndSymbols, PartsInOrder, Part, Interrupted
  <2> QED
    BY <2>1, <2>2, <2>3 DEF PartsInOrder, Part, Late
<1>8. CASE EndDynamic
  <2>1. /\ pc = "dynamic" /\ pc' = "relocations" /\ UNCHANGED <<lists, diagnostics>>
        /\ status' = [status EXCEPT !["dynamic"] = "Valid"]
    BY <1>8 DEF EndDynamic, DynamicTable, InHand, headerVars
  <2>2. status'["dynamic"] = "Valid" /\ status'["symbols"] = status["symbols"]
    BY <2>1, <1>1
  <2> QED
    BY <2>1, <2>2 DEF PartsInOrder, Part, Late, Interrupted
<1>9. CASE NoDynamic
  <2>1. pc = "dynamic" /\ pc' = "relocations" /\ UNCHANGED <<lists, diagnostics, status>> /\ n > Len(sections)
    BY <1>9 DEF NoDynamic, headerVars
  <2>2. SectionsOf("dynamic") = {}
    BY <2>1, <1>1 DEF DynamicSoFar, SectionsOf
  <2> QED
    BY <2>1, <2>2, <1>2 DEF PartsInOrder, Part, Late, Interrupted
<1>10. CASE EndRelocations
  <2>1. pc = "relocations" /\ pc' = "notes" /\ UNCHANGED <<lists, diagnostics, status>> /\ n > Len(sections)
    BY <1>10 DEF EndRelocations, headerVars
  <2>2. status["relocations"] = "Valid" \/ SectionsOf("relocations") = {}
    BY <2>1, <1>1 DEF RelocationsSoFar, SectionsOf
  <2>3. notes = <<>>
    BY <2>1, <1>1 DEF PartsInOrder, Part
  <2> QED
    BY <2>1, <2>2, <2>3, <1>2 DEF PartsInOrder, Part, Late, Interrupted
<1>11. CASE EndNotes
  <2>1. pc = "notes" /\ pc' = "done" /\ UNCHANGED <<lists, diagnostics, status>>
    BY <1>11 DEF EndNotes, headerVars
  <2> QED
    BY <2>1, <1>2 DEF PartsInOrder, Part, Late, Interrupted
<1>12. CASE SymbolTruncated \/ DynamicOutside \/ RelocationTruncated \/ DescriptorBeyond
  <2>1. /\ pc \in {"symbols", "dynamic", "relocations", "notes"} /\ UNCHANGED <<lists, status>>
        /\ \/ pc' = "done" /\ Interrupted'
           \/ pc = "notes" /\ pc' = "aborted" /\ UNCHANGED diagnostics
    BY <1>12 DEF SymbolTruncated, DynamicOutside, RelocationTruncated, DescriptorBeyond, Throw, headerVars, SymbolTable,
       DynamicTable, RelocationTable, InHand, Interrupted
  <2> QED
    BY <2>1, <1>2 DEF PartsInOrder, Part, Late, Interrupted
<1>13. CASE ReadSymbol
  <2>1. pc = "symbols" /\ UNCHANGED <<pc, sections, dynamic, relocations, notes, status>>
    BY <1>13 DEF ReadSymbol, SymbolTable, InHand, headerVars
  <2>2. ~Interrupted'
    BY <1>13, <2>1 DEF ReadSymbol, PartsInOrder, Part, Interrupted
  <2> QED
    BY <2>1, <2>2 DEF PartsInOrder, Part, Late
<1>14. CASE ReadDynamic
  <2>1. pc = "dynamic" /\ UNCHANGED <<pc, sections, symbols, relocations, notes, status, diagnostics>>
    BY <1>14 DEF ReadDynamic, DynamicTable, InHand, headerVars
  <2> QED
    BY <2>1 DEF PartsInOrder, Part, Late, Interrupted
<1>15. CASE ReadRelocation
  <2>1. pc = "relocations" /\ UNCHANGED <<pc, sections, symbols, dynamic, notes, status, diagnostics>>
    BY <1>15 DEF ReadRelocation, RelocationTable, InHand, headerVars
  <2> QED
    BY <2>1, <1>2 DEF PartsInOrder, Part, Late, Interrupted
<1>16. CASE ReadNote
  <2>1. pc = "notes" /\ UNCHANGED <<pc, sections, symbols, dynamic, relocations, status, diagnostics>>
    BY <1>16 DEF ReadNote, InHand, headerVars
  <2> QED
    BY <2>1, <1>2 DEF PartsInOrder, Part, Late, Interrupted
<1>17. CASE UNCHANGED vars
  BY <1>17, <1>2 DEF vars, headerVars, PartsInOrder, Interrupted
<1> QED
  BY <1>3, <1>4, <1>5, <1>6, <1>7, <1>8, <1>9, <1>10, <1>11, <1>12, <1>13, <1>14, <1>15, <1>16, <1>17 DEF Next

(***************************************************************************)
(* Symbols                                                                 *)
(***************************************************************************)
LEMMA ReadAppend ==
  ASSUME NEW S, NEW list \in Seq(S), NEW e \in S
  PROVE  /\ \A m, index : Read(list, m, index) => Read(Append(list, e), m, index)
         /\ Read(Append(list, e), e.table, e.index)
<1>1. /\ Len(list) \in Nat /\ DOMAIN list = 1 .. Len(list)
      /\ DOMAIN Append(list, e) = 1 .. (Len(list) + 1)
      /\ \A j \in 1 .. Len(list) : Append(list, e)[j] = list[j]
      /\ Append(list, e)[Len(list) + 1] = e
  OBVIOUS
<1>2. Len(list) + 1 \in DOMAIN Append(list, e) /\ DOMAIN list \subseteq DOMAIN Append(list, e)
  BY <1>1
<1> QED
  BY <1>1, <1>2 DEF Read

(* Steps outside of the loop over the symbols leave them alone. *)
LEMMA SymbolsRest ==
  ASSUME TypeOK, PartsInOrder, [Next]_vars
  PROVE  \/ pc \in {"header", "segments", "sections"} /\ symbols' = <<>> /\ status'["symbols"] # "Valid"
              /\ (pc' = "symbols" => n' = 1 /\ k' = 0)
         \/ pc = "symbols"
         \/ pc \notin {"header", "segments", "sections", "symbols"} /\ pc' \notin {"header", "segments", "sections", "symbols"}
              /\ UNCHANGED <<sections, symbols>> /\ status'["symbols"] = status["symbols"]
<1>1. status \in [Part -> {"NotParsed", "Valid", "Malformed"}] /\ "symbols" \in Part
  BY DEF TypeOK, Part
<1> USE DEF Judge, GoTo, Report, headerVars
<1>2. CASE HeaderTruncated \/ ReadHeader \/ SegmentsOutside \/ ReadSegments \/ SectionsOutside \/ ReadSections
  <2>1. /\ pc \in {"header", "segments", "sections"} /\ symbols' = symbols
        /\ \E part \in {"header", "segments", "sections"} : \E result : status' = [status EXCEPT ![part] = result]
        /\ n' = 1 /\ k' = 0
    BY <1>2 DEF HeaderTruncated, ReadHeader, SegmentsOutside, ReadSegments, SectionsOutside, ReadSections
  <2>2. status'["symbols"] = status["symbols"]
    BY <2>1, <1>1
  <2> QED
    BY <2>1, <2>2 DEF PartsInOrder
<1>3. CASE OtherSection \/ TooManySymbols \/ SymbolsWithoutNames \/ ReadSymbol \/ SymbolTruncated \/ EndSymbolTable \/ EndSymbols
  BY <1>3 DEF OtherSection, TooManySymbols, SymbolsWithoutNames, ReadSymbol, SymbolTruncated, EndSymbolTable, EndSymbols,
     SymbolTable, InHand
<1>4. CASE ReadDynamic \/ DynamicOutside \/ NoDynamic \/ ReadRelocation \/ RelocationTruncated \/ EndRelocations
           \/ ReadNote \/ DescriptorBeyond \/ EndNotes
  BY <1>4 DEF ReadDynamic, DynamicOutside, NoDynamic, ReadRelocation, RelocationTruncated, EndRelocations, ReadNote,
     DescriptorBeyond, EndNotes, DynamicTable, RelocationTable, InHand, Throw
<1>5. CASE EndDynamic \/ EndRelocationTable \/ EndNoteTable
  <2>1. /\ pc \in {"dynamic", "relocations", "notes"} /\ pc' \in {"dynamic", "relocations", "notes"}
        /\ UNCHANGED <<sections, symbols>> /\ status' = [status EXCEPT ![pc] = "Valid"]
    BY <1>5 DEF EndDynamic, EndRelocationTable, EndNoteTable, DynamicTable, RelocationTable, InHand
  <2>2. status'["symbols"] = status["symbols"]
    BY <2>1, <1>1
  <2> QED
    BY <2>1, <2>2
<1>6. CASE UNCHANGED vars
  BY <1>6 DEF vars, PartsInOrder, TypeOK, Part
<1> QED
  BY <1>2, <1>3, <1>4, <1>5, <1>6 DEF Next

LEMMA SectionsOfFacts ==
  ASSUME TypeOK, NEW part
  PROVE  \A m \in SectionsOf(part) :
           /\ m \in 1 .. Len(sections) /\ m \in Nat
           /\ Count(sections[m]) \in Nat
           /\ \A index \in Nat : EntryOffset(sections[m], index) \in Nat
           /\ \A a, b \in Nat : a <= b /\ EntryFits(sections[m], b) => EntryFits(sections[m], a)
<1> SUFFICES ASSUME NEW m \in SectionsOf(part)
             PROVE  /\ m \in 1 .. Len(sections) /\ m \in Nat
                    /\ Count(sections[m]) \in Nat
                    /\ \A index \in Nat : EntryOffset(sections[m], index) \in Nat
                    /\ \A a, b \in Nat : a <= b /\ EntryFits(sections[m], b) => EntryFits(sections[m], a)
  OBVIOUS
<1>1. m \in DOMAIN sections /\ sections[m].entsize # 0
  BY DEF SectionsOf
<1>2. sections[m].offset \in Nat /\ sections[m].size \in Nat /\ sections[m].entsize \in Nat \ {0}
  BY <1>1, SectionFacts
<1>3. IsImage(image)
  BY DEF TypeOK
<1>4. /\ Count(sections[m]) \in Nat
      /\ \A index \in Nat : EntryOffset(sections[m], index) \in Nat
      /\ \A a, b \in Nat : a <= b /\ EntryFits(sections[m], b) => EntryFits(sections[m], a)
  BY <1>2, <1>3, EntryFacts
<1>5. m \in 1 .. Len(sections) /\ m \in Nat
  BY <1>1, SectionFacts
<1> QED
  BY <1>4, <1>5

(* What the steps of the loop over the symbols do to them. *)
Skipped ==
  /\ n <= Len(sections) /\ n' = n + 1 /\ k' = 0
  /\ UNCHANGED <<pc, sections, symbols, status>>
  /\ n \in SectionsOf("symbols") /\ IsUsable(sections[n]) => ~EntryFits(sections[n], k)
  /\ n \in SectionsOf("symbols") /\ Count(sections[n]) > MaxSymbols => "ELF_SYMBOL_LIMIT" \in diagnostics'

OneRead ==
  /\ n \in SectionsOf("symbols") /\ IsUsable(sections[n]) /\ EntryFits(sections[n], k)
  /\ symbols' = Append(symbols, SymbolInHand) /\ k' = k + 1
  /\ UNCHANGED <<pc, n, sections, status>>

LEMMA SymbolSteps ==
  ASSUME TypeOK, PartsInOrder, [Next]_vars, pc = "symbols"
  PROVE  \/ Skipped
         \/ OneRead
         \/ n > Len(sections) /\ pc' = "dynamic" /\ UNCHANGED <<sections, symbols>>
         \/ pc' = "done" /\ UNCHANGED <<sections, symbols, status>>
         \/ UNCHANGED vars
<1>1. Len(sections) \in Nat /\ DOMAIN sections = 1 .. Len(sections) /\ n \in Nat \ {0}
  BY SectionFacts DEF TypeOK
<1> USE DEF Judge, GoTo, Report, headerVars, NextSection
<1>2. CASE OtherSection
  <2>1. hand.type \notin Types("symbols") \/ hand.entsize = 0
    BY <1>2 DEF OtherSection
  <2> QED
    BY <1>2, <2>1 DEF OtherSection, Skipped, SectionsOf, hand
<1>3. CASE TooManySymbols
  <2>1. Count(hand) > MaxSymbols /\ hand.entsize # 0 /\ hand.type \in Types("symbols")
    BY <1>3 DEF TooManySymbols, SymbolTable, InHand
  <2>4. n \in DOMAIN sections
    BY <1>1, <1>3 DEF TooManySymbols, SymbolTable, InHand
  <2>5. sections[n].offset \in Nat /\ sections[n].size \in Nat /\ sections[n].entsize \in Nat \ {0}
    BY <2>1, <2>4, SectionFacts DEF hand
  <2>2. Count(sections[n]) \in Nat /\ MaxSymbols \in Nat
    BY <2>5, ELFAssumption DEF Count
  <2>3. ~IsUsable(sections[n])
    BY <2>1, <2>2 DEF IsUsable, hand
  <2> QED
    BY <1>3, <2>3 DEF TooManySymbols, Skipped, SymbolTable, InHand
<1> DEFINE Large == n \in SectionsOf("symbols") /\ Count(sections[n]) > MaxSymbols
<1>11. n \in SectionsOf("symbols") /\ Count(sections[n]) <= MaxSymbols => ~Large
  <2>1. n \in SectionsOf("symbols") => Count(sections[n]) \in Nat /\ MaxSymbols \in Nat
    BY SectionsOfFacts, ELFAssumption
  <2> QED
    BY <2>1
<1> HIDE DEF Large
<1>4. CASE SymbolsWithoutNames
  <2>1. n \in DOMAIN sections /\ sections[n].link \in Nat /\ sections[n].link >= Len(sections)
    BY <1>1, <1>4, SectionFacts DEF SymbolsWithoutNames, SymbolTable, InHand, hand
  <2>2. ~IsUsable(sections[n])
    BY <1>1, <2>1 DEF IsUsable
  <2>3. n \in SectionsOf("symbols") /\ Count(sections[n]) <= MaxSymbols
    BY <1>4, <2>1 DEF SymbolsWithoutNames, SymbolTable, InHand, hand, SectionsOf
  <2> QED
    BY <1>4, <1>11, <2>2, <2>3 DEF SymbolsWithoutNames, Skipped, SymbolTable, InHand, Large
<1>5. CASE ReadSymbol
  BY <1>1, <1>5 DEF ReadSymbol, OneRead, SymbolTable, InHand, hand, SectionsOf
<1>6. CASE SymbolTruncated
  BY <1>6 DEF SymbolTruncated, Throw
<1>7. CASE EndSymbolTable
  <2>1. n \in SectionsOf("symbols") /\ Count(sections[n]) <= MaxSymbols
    BY <1>1, <1>7 DEF EndSymbolTable, SymbolTable, InHand, hand, SectionsOf, IsUsable
  <2> QED
    BY <1>7, <1>11, <2>1 DEF EndSymbolTable, Skipped, SymbolTable, InHand, hand, Large
<1>8. CASE EndSymbols
  BY <1>8 DEF EndSymbols
<1>9. CASE HeaderTruncated \/ ReadHeader \/ SegmentsOutside \/ ReadSegments \/ SectionsOutside \/ ReadSections
  BY <1>9 DEF HeaderTruncated, ReadHeader, SegmentsOutside, ReadSegments, SectionsOutside, ReadSections
<1>10. CASE ReadDynamic \/ DynamicOutside \/ EndDynamic \/ NoDynamic \/ ReadRelocation \/ RelocationTruncated
            \/ EndRelocationTable \/ EndRelocations \/ ReadNote \/ DescriptorBeyond \/ EndNoteTable \/ EndNotes
  BY <1>10 DEF ReadDynamic, DynamicOutside, EndDynamic, NoDynamic, ReadRelocation, RelocationTruncated,
     EndRelocationTable, EndRelocations, ReadNote, DescriptorBeyond, EndNoteTable, EndNotes, DynamicTable,
     RelocationTable, InHand
<1> QED
  BY <1>2, <1>3, <1>4, <1>5, <1>6, <1>7, <1>8, <1>9, <1>10 DEF Next

(* The same for the next state. *)
LEMMA PrimedSection ==
  ASSUME TypeOK', NEW part, NEW m \in SectionsOf(part)'
  PROVE  m \in Nat \ {0} /\ \A index \in 0 .. (Count(sections'[m]) - 1) : index \in Nat
<1>1. m \in DOMAIN sections' /\ sections'[m].entsize # 0
  BY DEF SectionsOf
<1>2. sections' \in Seq(Section)
  BY DEF TypeOK
<1>3. m \in Nat \ {0} /\ sections'[m] \in Section
  BY <1>1, <1>2
<1>4. sections'[m].entsize \in Nat \ {0} /\ sections'[m].size \in Nat
  BY <1>1, <1>3 DEF Section
<1>5. Count(sections'[m]) \in Nat
  BY <1>4 DEF Count
<1> QED
  BY <1>3, <1>5

LEMMA SymbolsKeep == TypeOK /\ PartsInOrder /\ SymbolsSoFar /\ [Next]_vars => SymbolsSoFar'
<1> SUFFICES ASSUME TypeOK, PartsInOrder, SymbolsSoFar, [Next]_vars,
                    NEW m \in SectionsOf("symbols")', IsUsable(sections[m])',
                    NEW index \in 0 .. (Count(sections'[m]) - 1),
                    EntryFits(sections[m], index)',
                    Behind("symbols", m, index)' \/ status'["symbols"] = "Valid"
             PROVE  Read(symbols', m, index)
  BY DEF SymbolsSoFar
<1>0. m \in Nat \ {0} /\ index \in Nat
  BY TypeKeeps, PrimedSection
<1>1. image' = image
  BY FileStays
<1>2. CASE pc \in {"header", "segments", "sections"} /\ status'["symbols"] # "Valid" /\ (pc' = "symbols" => n' = 1 /\ k' = 0)
  <2> QED
    BY <1>0, <1>2 DEF Behind
<1>3. ASSUME sections' = sections
      PROVE  /\ m \in SectionsOf("symbols") /\ IsUsable(sections[m]) /\ EntryFits(sections[m], index)
             /\ index \in 0 .. (Count(sections[m]) - 1) /\ index \in Nat
             /\ Behind("symbols", m, index) \/ status["symbols"] = "Valid" => Read(symbols, m, index)
  <2>1. m \in SectionsOf("symbols") /\ IsUsable(sections[m]) /\ EntryFits(sections[m], index)
    BY <1>1, <1>3, SameFile
  <2> QED
    BY <2>1, <1>3, SectionsOfFacts DEF SymbolsSoFar
<1>4. CASE /\ pc \notin {"header", "segments", "sections", "symbols"} /\ pc' \notin {"header", "segments", "sections", "symbols"}
           /\ UNCHANGED <<sections, symbols>> /\ status'["symbols"] = status["symbols"]
  BY <1>3, <1>4 DEF Behind
<1>5. CASE pc = "symbols"
  <2>1. status["symbols"] # "Valid"
    BY <1>5 DEF PartsInOrder
  <2>2. m \in Nat /\ n \in Nat /\ k \in Nat /\ Len(sections) \in Nat
    BY <1>0, SectionFacts DEF TypeOK
  <2>3. CASE Skipped
    <3>1. m < n + 1 \/ (m = n + 1 /\ index < 0)
      BY <2>1, <2>3 DEF Skipped, Behind
    <3>2. m < n \/ m = n
      BY <3>1, <2>2
    <3>3. m = n => ~(k <= index)
      BY <2>2, <2>3, <1>3, SectionsOfFacts DEF Skipped
    <3>4. Behind("symbols", m, index)
      BY <1>5, <1>3, <2>2, <2>3, <3>2, <3>3 DEF Behind, Skipped
    <3> QED
      BY <3>4, <1>3, <2>3 DEF Skipped
  <2>4. CASE OneRead
    <3>1. m < n \/ (m = n /\ index < k + 1)
      BY <2>1, <2>4 DEF OneRead, Behind
    <3>2. /\ \A l, i : Read(symbols, l, i) => Read(symbols', l, i)
          /\ Read(symbols', n, k)
      <4> DEFINE Symbol == [table : Nat, index : Nat, name : SUBSET Nat]
      <4>1. symbols \in Seq(Symbol) /\ symbols' \in Seq(Symbol)
        BY TypeKeeps DEF TypeOK
      <4>2. symbols' = Append(symbols, SymbolInHand)
        BY <2>4 DEF OneRead
      <4>3. SymbolInHand.table = n /\ SymbolInHand.index = k
        BY DEF SymbolInHand
      <4> HIDE DEF Symbol
      <4>4. SymbolInHand \in Symbol
        <5>1. /\ Len(symbols) \in Nat /\ Len(symbols') = Len(symbols) + 1 /\ symbols'[Len(symbols) + 1] = SymbolInHand
          BY <4>1, <4>2
        <5> QED
          BY <4>1, <5>1
      <4> QED
        BY <4>1, <4>2, <4>3, <4>4, ReadAppend
    <3>3. CASE m < n \/ (m = n /\ index < k)
      BY <3>2, <3>3, <1>3, <1>5, <2>4 DEF OneRead, Behind
    <3>4. CASE m = n /\ ~(index < k)
      <4>1. index = k
        BY <3>1, <3>4, <2>2, <1>3, <2>4 DEF OneRead
      <4> QED
        BY <4>1, <3>2, <3>4
    <3> QED
      BY <3>1, <3>3, <3>4
  <2>5. CASE n > Len(sections) /\ pc' = "dynamic" /\ UNCHANGED <<sections, symbols>>
    <3>1. m < n
      BY <2>2, <2>5, <1>3, SectionsOfFacts
    <3> QED
      BY <3>1, <2>5, <1>3, <1>5 DEF Behind
  <2>6. CASE pc' = "done" /\ UNCHANGED <<sections, symbols, status>>
    BY <2>1, <2>6 DEF Behind
  <2>7. CASE UNCHANGED vars
    BY <2>7, <1>3 DEF vars, headerVars, Behind
  <2> QED
    BY <1>5, <2>3, <2>4, <2>5, <2>6, <2>7, SymbolSteps
<1> QED
  BY <1>2, <1>4, <1>5, SymbolsRest

(* The place in the list is the number of the symbol. *)
LEMMA NumbersKeep == TypeOK /\ PartsInOrder /\ SymbolsByNumber /\ [Next]_vars => SymbolsByNumber'
<1> DEFINE Named(list, m) ==
      \A j \in DOMAIN list :
        /\ EntryFits(sections[m], j - 1)
        /\ list[j].name = Text(sections[sections[m].link + 1], Word(EntryOffset(sections[m], j - 1)))
<1> SUFFICES ASSUME TypeOK, PartsInOrder, SymbolsByNumber, [Next]_vars,
                    NEW m \in SectionsOf("symbols")', SectionsOf("symbols")' = {m}, IsUsable(sections[m])'
             PROVE  /\ \A j \in DOMAIN symbols' :
                         /\ EntryFits(sections[m], j - 1)'
                         /\ symbols'[j].name = Text(sections[sections[m].link + 1], Word(EntryOffset(sections[m], j - 1)))'
                    /\ pc' = "symbols" /\ n' < m => Len(symbols') = 0
                    /\ pc' = "symbols" /\ n' = m => Len(symbols') = k'
                    /\ (pc' = "symbols" /\ n' > m) \/ status'["symbols"] = "Valid" => ~EntryFits(sections[m], Len(symbols))'
  BY DEF SymbolsByNumber
<1>1. image' = image
  BY FileStays
<1>2. m \in Nat \ {0} /\ n \in Nat \ {0} /\ k \in Nat /\ Len(sections) \in Nat
  BY TypeKeeps, PrimedSection, SectionFacts DEF TypeOK
<1>3. CASE /\ symbols' = <<>> /\ status'["symbols"] # "Valid" /\ (pc' = "symbols" => n' = 1 /\ k' = 0)
  BY <1>2, <1>3
<1>4. ASSUME sections' = sections
      PROVE  /\ m \in SectionsOf("symbols") /\ SectionsOf("symbols") = {m} /\ IsUsable(sections[m])
             /\ Named(symbols, m)
             /\ pc = "symbols" /\ n < m => Len(symbols) = 0
             /\ pc = "symbols" /\ n = m => Len(symbols) = k
             /\ (pc = "symbols" /\ n > m) \/ status["symbols"] = "Valid" => ~EntryFits(sections[m], Len(symbols))
             /\ symbols' = symbols => \A j \in DOMAIN symbols' :
                  /\ EntryFits(sections[m], j - 1)'
                  /\ symbols'[j].name = Text(sections[sections[m].link + 1], Word(EntryOffset(sections[m], j - 1)))'
             /\ symbols' = symbols => (EntryFits(sections[m], Len(symbols))' <=> EntryFits(sections[m], Len(symbols)))
  <2>1. m \in SectionsOf("symbols") /\ SectionsOf("symbols") = {m} /\ IsUsable(sections[m])
    BY <1>1, <1>4, SameFile
  <2>2. /\ Named(symbols, m)
        /\ pc = "symbols" /\ n < m => Len(symbols) = 0
        /\ pc = "symbols" /\ n = m => Len(symbols) = k
        /\ (pc = "symbols" /\ n > m) \/ status["symbols"] = "Valid" => ~EntryFits(sections[m], Len(symbols))
    BY <2>1 DEF SymbolsByNumber
  <2>3. ASSUME symbols' = symbols
        PROVE  /\ \A j \in DOMAIN symbols' :
                    /\ EntryFits(sections[m], j - 1)'
                    /\ symbols'[j].name = Text(sections[sections[m].link + 1], Word(EntryOffset(sections[m], j - 1)))'
               /\ EntryFits(sections[m], Len(symbols))' <=> EntryFits(sections[m], Len(symbols))
    BY <1>1, <1>4, <2>2, <2>3, SameFile DEF EntryOffset
  <2> QED
    BY <2>1, <2>2, <2>3
<1>5. CASE /\ pc \notin {"header", "segments", "sections", "symbols"} /\ pc' \notin {"header", "segments", "sections", "symbols"}
           /\ UNCHANGED <<sections, symbols>> /\ status'["symbols"] = status["symbols"]
  BY <1>4, <1>5
<1>6. CASE pc = "symbols"
  <2>1. status["symbols"] # "Valid"
    BY <1>6 DEF PartsInOrder
  <2>2. CASE Skipped
    <3>1. n' = n + 1 /\ k' = 0 /\ pc' = pc /\ sections' = sections /\ symbols' = symbols /\ status' = status
      BY <2>2 DEF Skipped
    <3>2. n' < m => n < m
      BY <3>1, <1>2
    <3>3. n' = m => n < m
      BY <3>1, <1>2
    <3>4. n' > m => n > m \/ n = m
      BY <3>1, <1>2
    <3>5. n = m => ~EntryFits(sections[m], Len(symbols))
      BY <1>4, <1>6, <2>2, <3>1 DEF Skipped
    <3> QED
      BY <1>4, <1>6, <2>1, <3>1, <3>2, <3>3, <3>4, <3>5
  <2>3. CASE OneRead
    <3>1. /\ n' = n /\ k' = k + 1 /\ pc' = pc /\ sections' = sections /\ status' = status
          /\ symbols' = Append(symbols, SymbolInHand) /\ n \in SectionsOf("symbols") /\ EntryFits(sections[n], k)
      BY <2>3 DEF OneRead
    <3>2. n = m /\ Len(symbols) = k
      BY <1>4, <1>6, <3>1
    <3>3. /\ Len(symbols') = k + 1 /\ DOMAIN symbols' = 1 .. (k + 1) /\ DOMAIN symbols = 1 .. k
          /\ \A j \in 1 .. k : symbols'[j] = symbols[j]
          /\ symbols'[k + 1] = SymbolInHand
      <4> DEFINE Symbol == [table : Nat, index : Nat, name : SUBSET Nat]
      <4>1. symbols \in Seq(Symbol)
        BY DEF TypeOK
      <4> HIDE DEF Symbol
      <4> QED
        BY <4>1, <3>1, <3>2
    <3>4. /\ EntryFits(sections[m], (k + 1) - 1)
          /\ SymbolInHand.name = Text(sections[sections[m].link + 1], Word(EntryOffset(sections[m], (k + 1) - 1)))
      <4>1. (k + 1) - 1 = k
        BY <1>2
      <4> QED
        BY <3>1, <3>2, <4>1 DEF SymbolInHand, hand
    <3>5. \A j \in 1 .. (k + 1) : j \in 1 .. k \/ j = k + 1
      BY <1>2
    <3>6. Named(symbols', m)
      BY <1>4, <3>1, <3>3, <3>4, <3>5
    <3>7. \A j \in DOMAIN symbols' :
            /\ EntryFits(sections[m], j - 1)'
            /\ symbols'[j].name = Text(sections[sections[m].link + 1], Word(EntryOffset(sections[m], j - 1)))'
      BY <1>1, <3>1, <3>6, SameFile DEF EntryOffset
    <3> QED
      BY <1>2, <2>1, <3>1, <3>2, <3>3, <3>7
  <2>4. CASE n > Len(sections) /\ pc' = "dynamic" /\ UNCHANGED <<sections, symbols>>
    <3>1. m \in 1 .. Len(sections)
      BY <2>4, <1>4, SectionsOfFacts
    <3>2. n > m
      BY <1>2, <2>4, <3>1
    <3> QED
      BY <1>4, <1>6, <2>4, <3>2
  <2>5. CASE pc' = "done" /\ UNCHANGED <<sections, symbols, status>>
    BY <1>4, <2>1, <2>5
  <2>6. CASE UNCHANGED vars
    <3>1. UNCHANGED <<sections, symbols, status, pc, n, k>>
      BY <2>6 DEF vars, headerVars
    <3> QED
      BY <1>4, <3>1
  <2> QED
    BY <1>6, <2>2, <2>3, <2>4, <2>5, <2>6, SymbolSteps
<1> QED
  BY <1>3, <1>5, <1>6, SymbolsRest

(* With all of the table read, the list decides which numbers have names.  *)
LEMMA NumberFits ==
  ASSUME TypeOK, SymbolsByNumber, status["symbols"] = "Valid", NEW m \in SectionsOf("symbols"),
         SectionsOf("symbols") = {m}, IsUsable(sections[m]), NEW symbol \in Nat
  PROVE  (IF symbol < Len(symbols) THEN symbols[symbol + 1].name ELSE {})
           = IF EntryFits(sections[m], symbol)
               THEN Text(sections[sections[m].link + 1], Word(EntryOffset(sections[m], symbol)))
               ELSE {}
<1>1. /\ \A j \in DOMAIN symbols :
           /\ EntryFits(sections[m], j - 1)
           /\ symbols[j].name = Text(sections[sections[m].link + 1], Word(EntryOffset(sections[m], j - 1)))
      /\ ~EntryFits(sections[m], Len(symbols))
  BY DEF SymbolsByNumber
<1>2. Len(symbols) \in Nat /\ DOMAIN symbols = 1 .. Len(symbols)
  BY DEF TypeOK
<1>3. CASE symbol < Len(symbols)
  <2>1. symbol + 1 \in DOMAIN symbols /\ (symbol + 1) - 1 = symbol
    BY <1>2, <1>3
  <2> QED
    BY <1>1, <1>3, <2>1
<1>4. CASE ~(symbol < Len(symbols))
  <2>1. ~EntryFits(sections[m], symbol)
    BY <1>1, <1>2, <1>4, SectionsOfFacts
  <2> QED
    BY <1>4, <2>1
<1> QED
  BY <1>3, <1>4

(***************************************************************************)
(* Relocations                                                             *)
(***************************************************************************)
RelocationInHand ==
  LET symbol == Word(EntryOffset(hand, k) + By(8, 4))
  IN  [table |-> n, index |-> k, symbol |-> symbol,
       name |-> IF symbol < Len(symbols) THEN symbols[symbol + 1].name ELSE {}]

TablePassed ==
  /\ n <= Len(sections) /\ n' = n + 1 /\ k' = 0
  /\ UNCHANGED <<pc, sections, symbols, relocations>>
  /\ n \in SectionsOf("relocations") => ~EntryFits(sections[n], k) /\ status'["relocations"] = "Valid"
  /\ status'["relocations"] = "Valid" \/ status' = status

OneRelocation ==
  /\ n \in SectionsOf("relocations") /\ EntryFits(sections[n], k)
  /\ relocations' = Append(relocations, RelocationInHand) /\ k' = k + 1
  /\ UNCHANGED <<pc, n, sections, symbols, status>>

LEMMA RelocationSteps ==
  ASSUME TypeOK, PartsInOrder, [Next]_vars, pc = "relocations"
  PROVE  \/ TablePassed
         \/ OneRelocation
         \/ n > Len(sections) /\ pc' = "notes" /\ UNCHANGED <<sections, relocations, diagnostics>>
         \/ pc' = "done" /\ Interrupted' /\ UNCHANGED <<sections, relocations>>
         \/ UNCHANGED vars
<1>1. /\ Len(sections) \in Nat /\ DOMAIN sections = 1 .. Len(sections) /\ n \in Nat \ {0}
      /\ status \in [Part -> {"NotParsed", "Valid", "Malformed"}] /\ "relocations" \in Part
  BY SectionFacts DEF TypeOK, Part
<1> USE DEF Judge, GoTo, Report, headerVars, NextSection
<1>2. CASE OtherSection
  <2>1. hand.type \notin Types("relocations") \/ hand.entsize = 0
    BY <1>2 DEF OtherSection
  <2> QED
    BY <1>2, <2>1 DEF OtherSection, TablePassed, SectionsOf, hand
<1>3. CASE ReadRelocation
  <2>1. relocations' = Append(relocations, RelocationInHand)
    BY <1>3 DEF ReadRelocation, RelocationInHand
  <2> QED
    BY <1>1, <1>3, <2>1 DEF ReadRelocation, OneRelocation, RelocationTable, InHand, hand, SectionsOf
<1>4. CASE RelocationTruncated
  BY <1>4 DEF RelocationTruncated, Throw, Interrupted
<1>5. CASE EndRelocationTable
  <2>1. status'["relocations"] = "Valid"
    BY <1>1, <1>5 DEF EndRelocationTable
  <2> QED
    BY <1>5, <2>1 DEF EndRelocationTable, TablePassed, RelocationTable, InHand, hand
<1>6. CASE EndRelocations
  BY <1>6 DEF EndRelocations
<1>7. CASE HeaderTruncated \/ ReadHeader \/ SegmentsOutside \/ ReadSegments \/ SectionsOutside \/ ReadSections
  BY <1>7 DEF HeaderTruncated, ReadHeader, SegmentsOutside, ReadSegments, SectionsOutside, ReadSections
<1>8. CASE TooManySymbols \/ SymbolsWithoutNames \/ ReadSymbol \/ SymbolTruncated \/ EndSymbolTable \/ EndSymbols
           \/ ReadDynamic \/ DynamicOutside \/ EndDynamic \/ NoDynamic
           \/ ReadNote \/ DescriptorBeyond \/ EndNoteTable \/ EndNotes
  BY <1>8 DEF TooManySymbols, SymbolsWithoutNames, ReadSymbol, SymbolTruncated, EndSymbolTable, EndSymbols,
     ReadDynamic, DynamicOutside, EndDynamic, NoDynamic, ReadNote, DescriptorBeyond, EndNoteTable, EndNotes,
     SymbolTable, DynamicTable, InHand
<1> QED
  BY <1>2, <1>3, <1>4, <1>5, <1>6, <1>7, <1>8 DEF Next

(* Steps outside of that loop. *)
LEMMA RelocationsRest ==
  ASSUME TypeOK, PartsInOrder, [Next]_vars, pc # "relocations"
  PROVE  \/ /\ relocations' = <<>>
            /\ \/ pc' \in {"header", "segments", "sections", "symbols", "dynamic"}
               \/ pc' = "relocations" /\ n' = 1 /\ k' = 0
               \/ pc' = "done" /\ (Interrupted' \/ sections' = <<>>)
         \/ /\ pc \in {"notes", "done", "aborted"} /\ pc' \in {"notes", "done", "aborted"}
            /\ UNCHANGED <<sections, relocations>> /\ (Interrupted => Interrupted')
<1> USE DEF Judge, GoTo, Report, headerVars
<1>1. pc \in {"header", "segments", "sections", "symbols", "dynamic"} => relocations = <<>>
  BY DEF PartsInOrder
<1>2. CASE HeaderTruncated
  BY <1>1, <1>2 DEF HeaderTruncated, PartsInOrder
<1>3. CASE ReadHeader \/ SegmentsOutside \/ ReadSegments \/ SectionsOutside \/ ReadSections \/ TooManySymbols
           \/ SymbolsWithoutNames \/ ReadSymbol \/ EndSymbolTable \/ EndSymbols
  BY <1>1, <1>3 DEF ReadHeader, SegmentsOutside, ReadSegments, SectionsOutside, ReadSections, TooManySymbols,
     SymbolsWithoutNames, ReadSymbol, EndSymbolTable, EndSymbols, SymbolTable, InHand
<1>4. CASE SymbolTruncated \/ DynamicOutside
  BY <1>1, <1>4 DEF SymbolTruncated, DynamicOutside, SymbolTable, DynamicTable, InHand, Throw, Interrupted
<1>5. CASE ReadDynamic \/ EndDynamic \/ NoDynamic
  BY <1>1, <1>5 DEF ReadDynamic, EndDynamic, NoDynamic, DynamicTable, InHand
<1>6. CASE OtherSection
  BY <1>1, <1>6 DEF OtherSection, Interrupted
<1>7. CASE ReadRelocation \/ RelocationTruncated \/ EndRelocationTable \/ EndRelocations
  BY <1>7 DEF ReadRelocation, RelocationTruncated, EndRelocationTable, EndRelocations, RelocationTable, InHand
<1>8. CASE ReadNote \/ DescriptorBeyond \/ EndNoteTable \/ EndNotes
  BY <1>8 DEF ReadNote, DescriptorBeyond, EndNoteTable, EndNotes, InHand, Throw, Interrupted
<1>9. CASE UNCHANGED vars
  BY <1>1, <1>9 DEF vars, TypeOK, Part, Interrupted
<1> QED
  BY <1>2, <1>3, <1>4, <1>5, <1>6, <1>7, <1>8, <1>9 DEF Next

RelocationType == [table : Nat, index : Nat, symbol : Nat, name : SUBSET Nat]

LEMMA Appended ==
  ASSUME TypeOK, [Next]_vars, relocations' = Append(relocations, RelocationInHand)
  PROVE  /\ Len(relocations) \in Nat /\ DOMAIN relocations = 1 .. Len(relocations)
         /\ DOMAIN relocations' = 1 .. (Len(relocations) + 1)
         /\ \A j \in DOMAIN relocations : relocations'[j] = relocations[j]
         /\ relocations'[Len(relocations) + 1] = RelocationInHand
         /\ \A l, i : Read(relocations, l, i) => Read(relocations', l, i)
         /\ Read(relocations', n, k)
<1>1. relocations \in Seq(RelocationType) /\ relocations' \in Seq(RelocationType)
  BY TypeKeeps DEF TypeOK, RelocationType
<1>2. /\ Len(relocations) \in Nat /\ DOMAIN relocations = 1 .. Len(relocations)
      /\ DOMAIN relocations' = 1 .. (Len(relocations) + 1)
      /\ \A j \in DOMAIN relocations : relocations'[j] = relocations[j]
      /\ relocations'[Len(relocations) + 1] = RelocationInHand
  BY <1>1
<1>3. RelocationInHand \in RelocationType
  <2>1. Len(relocations) + 1 \in DOMAIN relocations'
    BY <1>2
  <2> QED
    BY <1>1, <1>2, <2>1
<1>4. RelocationInHand.table = n /\ RelocationInHand.index = k
  BY DEF RelocationInHand
<1> QED
  BY <1>1, <1>2, <1>3, <1>4, ReadAppend

LEMMA RelocationsKeep == TypeOK /\ PartsInOrder /\ RelocationsSoFar /\ [Next]_vars => RelocationsSoFar'
<1> DEFINE Over == pc \in {"notes", "done", "aborted"} /\ ~Interrupted
<1> SUFFICES ASSUME TypeOK, PartsInOrder, RelocationsSoFar, [Next]_vars, NEW m \in SectionsOf("relocations")'
             PROVE  /\ pc' = "relocations" /\ status'["relocations"] # "Valid" => n' <= m
                    /\ \A index \in 0 .. (Count(sections'[m]) - 1) :
                         /\ EntryFits(sections[m], index)'
                         /\ Behind("relocations", m, index)' \/ Over'
                         => Read(relocations', m, index)
  BY DEF RelocationsSoFar
<1>1. image' = image
  BY FileStays
<1>2. m \in Nat \ {0} /\ n \in Nat \ {0} /\ k \in Nat /\ Len(sections) \in Nat
  BY TypeKeeps, PrimedSection, SectionFacts DEF TypeOK
<1>3. \A index \in 0 .. (Count(sections'[m]) - 1) : index \in Nat
  BY TypeKeeps, PrimedSection
<1>4. ASSUME sections' = sections
      PROVE  /\ m \in SectionsOf("relocations")
             /\ \A index : EntryFits(sections[m], index)' <=> EntryFits(sections[m], index)
             /\ \A index \in 0 .. (Count(sections'[m]) - 1) :
                  EntryFits(sections[m], index) /\ (Behind("relocations", m, index) \/ Over) => Read(relocations, m, index)
             /\ pc = "relocations" /\ status["relocations"] # "Valid" => n <= m
  <2>1. m \in SectionsOf("relocations")
    BY <1>1, <1>4, SameFile
  <2> QED
    BY <2>1, <1>1, <1>4, SameFile DEF RelocationsSoFar
<1>5. CASE pc # "relocations"
  <2>1. CASE relocations' = <<>> /\ pc' \in {"header", "segments", "sections", "symbols", "dynamic"}
    BY <2>1 DEF Behind
  <2>2. CASE pc' = "relocations" /\ n' = 1 /\ k' = 0
    <3>1. 1 <= m /\ ~(m < 1) /\ \A index \in 0 .. (Count(sections'[m]) - 1) : ~(index < 0)
      BY <1>2, <1>3
    <3> QED
      BY <2>2, <3>1 DEF Behind
  <2>3. CASE pc' = "done" /\ (Interrupted' \/ sections' = <<>>)
    <3>1. sections' # <<>>
      BY <1>2 DEF SectionsOf
    <3> QED
      BY <2>3, <3>1 DEF Behind
  <2>4. CASE /\ pc \in {"notes", "done", "aborted"} /\ pc' \in {"notes", "done", "aborted"}
             /\ UNCHANGED <<sections, relocations>> /\ (Interrupted => Interrupted')
    <3>1. Over' => Over
      BY <2>4
    <3> HIDE DEF Over
    <3> QED
      BY <2>4, <1>4, <3>1 DEF Behind
  <2> QED
    BY <1>5, <2>1, <2>2, <2>3, <2>4, RelocationsRest
<1>6. CASE pc = "relocations"
  <2>1. CASE TablePassed
    <3>1. n' = n + 1 /\ k' = 0 /\ pc' = pc /\ sections' = sections /\ relocations' = relocations
      BY <2>1 DEF TablePassed
    <3>2. status'["relocations"] # "Valid" => n' <= m
      <4>1. ASSUME status'["relocations"] # "Valid" PROVE n <= m /\ n # m
        BY <1>4, <1>6, <2>1, <3>1, <4>1 DEF TablePassed
      <4> QED
        BY <1>2, <3>1, <4>1
    <3>3. ASSUME NEW index \in 0 .. (Count(sections'[m]) - 1), EntryFits(sections[m], index), m < n + 1 \/ (m = n + 1 /\ index < 0)
          PROVE  Behind("relocations", m, index)
      <4>1. m < n \/ m = n
        BY <1>2, <1>3, <3>3
      <4>2. m = n => ~(k <= index)
        BY <1>2, <1>3, <1>4, <2>1, <3>1, <3>3, SectionsOfFacts DEF TablePassed
      <4> QED
        BY <1>2, <1>3, <1>6, <4>1, <4>2 DEF Behind
    <3> QED
      BY <1>4, <1>6, <3>1, <3>2, <3>3 DEF Behind
  <2>2. CASE OneRelocation
    <3>1. /\ n' = n /\ k' = k + 1 /\ pc' = pc /\ sections' = sections /\ status' = status
          /\ relocations' = Append(relocations, RelocationInHand)
      BY <2>2 DEF OneRelocation
    <3>2. /\ \A l, i : Read(relocations, l, i) => Read(relocations', l, i)
          /\ Read(relocations', n, k)
      BY <3>1, Appended
    <3>3. ASSUME NEW index \in 0 .. (Count(sections'[m]) - 1), m < n \/ (m = n /\ index < k + 1)
          PROVE  Behind("relocations", m, index) \/ (m = n /\ index = k)
      BY <1>2, <1>3, <1>6, <3>3 DEF Behind
    <3> QED
      BY <1>4, <1>6, <3>1, <3>2, <3>3 DEF Behind
  <2>3. CASE n > Len(sections) /\ pc' = "notes" /\ UNCHANGED <<sections, relocations, diagnostics>>
    <3>1. m \in 1 .. Len(sections)
      BY <2>3, <1>4, SectionsOfFacts
    <3>2. m < n
      BY <1>2, <2>3, <3>1
    <3> QED
      BY <1>4, <1>6, <2>3, <3>2 DEF Behind
  <2>4. CASE pc' = "done" /\ Interrupted' /\ UNCHANGED <<sections, relocations>>
    BY <2>4 DEF Behind
  <2>5. CASE UNCHANGED vars
    <3>1. UNCHANGED <<sections, relocations, status, pc, n, k, diagnostics>>
      BY <2>5 DEF vars, headerVars
    <3> QED
      BY <1>4, <1>6, <3>1 DEF Behind
  <2> QED
    BY <1>6, <2>1, <2>2, <2>3, <2>4, <2>5, RelocationSteps
<1> QED
  BY <1>5, <1>6

(* A relocation gets the name of its number. *)
LEMMA NamesKeep == TypeOK /\ PartsInOrder /\ SymbolsByNumber /\ RelocationsNameSymbols /\ [Next]_vars => RelocationsNameSymbols'
<1> DEFINE Of(m, symbol) ==
      IF EntryFits(sections[m], symbol)
        THEN Text(sections[sections[m].link + 1], Word(EntryOffset(sections[m], symbol)))
        ELSE {}
<1> SUFFICES ASSUME TypeOK, PartsInOrder, SymbolsByNumber, RelocationsNameSymbols, [Next]_vars,
                    NEW m \in SectionsOf("symbols")', SectionsOf("symbols")' = {m}, IsUsable(sections[m])',
                    NEW j \in DOMAIN relocations'
             PROVE  relocations'[j].name = Of(m, relocations[j].symbol)'
  BY DEF RelocationsNameSymbols
<1>1. image' = image
  BY FileStays
<1>2. ASSUME sections' = sections
      PROVE  /\ m \in SectionsOf("symbols") /\ SectionsOf("symbols") = {m} /\ IsUsable(sections[m])
             /\ \A i \in DOMAIN relocations : relocations[i].name = Of(m, relocations[i].symbol)
             /\ Of(m, relocations[j].symbol)' = Of(m, relocations'[j].symbol)
  <2>1. m \in SectionsOf("symbols") /\ SectionsOf("symbols") = {m} /\ IsUsable(sections[m])
    BY <1>1, <1>2, SameFile
  <2> QED
    BY <2>1, <1>1, <1>2, SameFile DEF RelocationsNameSymbols, EntryOffset
<1>3. CASE relocations' = <<>>
  BY <1>3
<1>4. CASE UNCHANGED <<sections, relocations>>
  BY <1>2, <1>4
<1>5. CASE pc = "relocations" /\ OneRelocation
  <2>1. /\ sections' = sections /\ relocations' = Append(relocations, RelocationInHand)
        /\ n \in SectionsOf("relocations")
    BY <1>5 DEF OneRelocation
  <2>2. CASE j \in DOMAIN relocations
    BY <1>2, <2>1, <2>2, Appended
  <2>3. CASE j = Len(relocations) + 1
    <3>1. relocations'[j] = RelocationInHand
      BY <2>1, <2>3, Appended
    <3>2. RelocationInHand.symbol \in Nat
      BY WordFacts DEF RelocationInHand, TypeOK
    <3>3. RelocationInHand.name = IF RelocationInHand.symbol < Len(symbols) THEN symbols[RelocationInHand.symbol + 1].name ELSE {}
      BY DEF RelocationInHand
    <3>4. sections # <<>>
      BY <2>1, SectionsOfFacts
    <3>5. status["symbols"] = "Valid"
      BY <1>5, <3>4 DEF PartsInOrder, Part, Late
    <3>6. RelocationInHand.name = Of(m, RelocationInHand.symbol)
      BY <1>2, <2>1, <3>2, <3>3, <3>5, NumberFits
    <3> QED
      BY <1>2, <2>1, <3>1, <3>6
  <2>4. j \in DOMAIN relocations \/ j = Len(relocations) + 1
    BY <2>1, Appended
  <2> QED
    BY <2>2, <2>3, <2>4
<1>6. pc = "relocations" => UNCHANGED <<sections, relocations>> \/ OneRelocation
  <2> SUFFICES ASSUME pc = "relocations" PROVE UNCHANGED <<sections, relocations>> \/ OneRelocation
    OBVIOUS
  <2> QED
    BY RelocationSteps DEF TablePassed, vars, headerVars
<1> QED
  BY <1>3, <1>4, <1>5, <1>6, RelocationsRest

(***************************************************************************)
(* The lists                                                               *)
(***************************************************************************)
LEMMA DiagnosticsGrow == [Next]_vars => diagnostics \subseteq diagnostics'
BY DEF Next, vars, headerVars, Report, Throw, HeaderTruncated, ReadHeader, SegmentsOutside, ReadSegments, SectionsOutside,
   ReadSections, OtherSection, TooManySymbols, SymbolsWithoutNames, ReadSymbol, SymbolTruncated,
   EndSymbolTable, EndSymbols, ReadDynamic, DynamicOutside, EndDynamic, NoDynamic, ReadRelocation,
   RelocationTruncated, EndRelocationTable, EndRelocations, ReadNote, DescriptorBeyond, EndNoteTable, EndNotes

LEMMA RangesKeep == TypeOK /\ RangesReported /\ [Next]_vars => RangesReported'
<1> SUFFICES ASSUME TypeOK, RangesReported, [Next]_vars PROVE RangesReported'
  OBVIOUS
<1>1. image' = image
  BY FileStays
<1> USE DEF Report, Judge, headerVars
<1>2. CASE ReadSections
  <2>1. {c \in {"ELF_SECTION_RANGE"} : \E m \in DOMAIN sections' :
           sections'[m].type # NOBITS /\ ~Holds(sections'[m].offset, sections'[m].size)} \subseteq diagnostics'
    BY <1>2 DEF ReadSections
  <2>2. \A m : Holds(sections[m].offset, sections[m].size)' <=> Holds(sections'[m].offset, sections'[m].size)
    BY <1>1 DEF Holds
  <2> QED
    BY <2>1, <2>2 DEF RangesReported
<1>3. CASE sections' = sections /\ diagnostics \subseteq diagnostics'
  BY <1>1, <1>3, SameFile DEF RangesReported
<1>4. CASE HeaderTruncated \/ ReadHeader \/ SegmentsOutside \/ ReadSegments \/ SectionsOutside \/ OtherSection
  BY <1>3, <1>4 DEF HeaderTruncated, ReadHeader, SegmentsOutside, ReadSegments, SectionsOutside, OtherSection
<1>5. CASE TooManySymbols \/ SymbolsWithoutNames \/ ReadSymbol \/ SymbolTruncated \/ EndSymbolTable \/ EndSymbols
  BY <1>3, <1>5 DEF TooManySymbols, SymbolsWithoutNames, ReadSymbol, SymbolTruncated, EndSymbolTable, EndSymbols, Throw
<1>6. CASE ReadDynamic \/ DynamicOutside \/ EndDynamic \/ NoDynamic
  BY <1>3, <1>6 DEF ReadDynamic, DynamicOutside, EndDynamic, NoDynamic, Throw
<1>7. CASE ReadRelocation \/ RelocationTruncated \/ EndRelocationTable \/ EndRelocations
  BY <1>3, <1>7 DEF ReadRelocation, RelocationTruncated, EndRelocationTable, EndRelocations, Throw
<1>8. CASE ReadNote \/ DescriptorBeyond \/ EndNoteTable \/ EndNotes
  BY <1>3, <1>8 DEF ReadNote, DescriptorBeyond, EndNoteTable, EndNotes, Throw
<1>9. CASE UNCHANGED vars
  BY <1>3, <1>9 DEF vars
<1> QED
  BY <1>2, <1>4, <1>5, <1>6, <1>7, <1>8, <1>9 DEF Next

(* A list stays in order when what is appended comes behind all of it. *)
LEMMA InOrderAppend ==
  ASSUME NEW S, NEW list \in Seq(S), NEW e \in S, InOrder(list), \A j \in DOMAIN list : Precedes(list[j], e)
  PROVE  InOrder(Append(list, e))
<1>1. /\ Len(list) \in Nat /\ DOMAIN list = 1 .. Len(list)
      /\ DOMAIN Append(list, e) = 1 .. (Len(list) + 1)
      /\ \A j \in 1 .. Len(list) : Append(list, e)[j] = list[j]
      /\ Append(list, e)[Len(list) + 1] = e
  OBVIOUS
<1> SUFFICES ASSUME NEW i \in DOMAIN Append(list, e), NEW j \in DOMAIN Append(list, e), i < j
             PROVE  Precedes(Append(list, e)[i], Append(list, e)[j])
  BY DEF InOrder
<1>2. i \in DOMAIN list /\ Append(list, e)[i] = list[i]
  BY <1>1
<1>3. CASE j = Len(list) + 1
  BY <1>1, <1>2, <1>3
<1>4. CASE j \in DOMAIN list
  BY <1>1, <1>2, <1>4 DEF InOrder
<1> QED
  BY <1>1, <1>3, <1>4

LEMMA EntriesAppend ==
  ASSUME NEW part, NEW S, NEW list \in Seq(S), NEW e \in S, AreEntries(list, part),
         e.table \in SectionsOf(part), EntryFits(sections[e.table], e.index)
  PROVE  AreEntries(Append(list, e), part)
<1>1. /\ Len(list) \in Nat /\ DOMAIN list = 1 .. Len(list)
      /\ DOMAIN Append(list, e) = 1 .. (Len(list) + 1)
      /\ \A j \in 1 .. Len(list) : Append(list, e)[j] = list[j]
      /\ Append(list, e)[Len(list) + 1] = e
  OBVIOUS
<1>2. \A j \in 1 .. (Len(list) + 1) : j \in 1 .. Len(list) \/ j = Len(list) + 1
  BY <1>1
<1> QED
  BY <1>1, <1>2 DEF AreEntries

SymbolType == [table : Nat, index : Nat, name : SUBSET Nat]

LEMMA SymbolFacts ==
  ASSUME TypeOK
  PROVE  /\ symbols \in Seq(SymbolType)
         /\ \A j \in DOMAIN symbols : symbols[j].table \in Nat /\ symbols[j].index \in Nat
<1>1. symbols \in Seq(SymbolType)
  BY DEF TypeOK, SymbolType
<1>2. \A j \in DOMAIN symbols : symbols[j] \in SymbolType
  <2> HIDE DEF SymbolType
  <2> QED
    BY <1>1
<1> QED
  BY <1>1, <1>2 DEF SymbolType

LEMMA SymbolsStayListed == TypeOK /\ PartsInOrder /\ SymbolsListed /\ [Next]_vars => SymbolsListed'
<1> SUFFICES ASSUME TypeOK, PartsInOrder, SymbolsListed, [Next]_vars PROVE SymbolsListed'
  OBVIOUS
<1>1. image' = image
  BY FileStays
<1>2. n \in Nat /\ k \in Nat
  BY DEF TypeOK
<1>3. CASE symbols' = <<>>
  BY <1>3 DEF SymbolsListed, AreEntries, SymbolsAreUsable, InOrder
<1>4. ASSUME sections' = sections
      PROVE  /\ AreEntries(symbols, "symbols")' <=> AreEntries(symbols', "symbols")
             /\ SymbolsAreUsable' <=> \A j \in DOMAIN symbols' : IsUsable(sections[symbols'[j].table])
  BY <1>1, <1>4, SameFile DEF AreEntries, SymbolsAreUsable
<1>5. CASE UNCHANGED <<sections, symbols>> /\ (pc' = "symbols" => UNCHANGED <<pc, n, k>>)
  <2>1. AreEntries(symbols, "symbols")' /\ SymbolsAreUsable' /\ InOrder(symbols)'
    BY <1>4, <1>5 DEF SymbolsListed, SymbolsAreUsable, InOrder
  <2>2. pc' = "symbols" => \A j \in DOMAIN symbols' : Precedes(symbols'[j], cursor')
    BY <1>5 DEF SymbolsListed, cursor
  <2> QED
    BY <2>1, <2>2 DEF SymbolsListed
<1>6. CASE pc = "symbols"
  <2>1. CASE Skipped
    <3>1. n' = n + 1 /\ k' = 0 /\ UNCHANGED <<pc, sections, symbols>>
      BY <2>1 DEF Skipped
    <3>2. AreEntries(symbols, "symbols")' /\ SymbolsAreUsable' /\ InOrder(symbols)'
      BY <1>4, <3>1 DEF SymbolsListed, SymbolsAreUsable, InOrder
    <3>3. ASSUME NEW j \in DOMAIN symbols PROVE Precedes(symbols[j], cursor')
      <4>1. Precedes(symbols[j], [table |-> n, index |-> k]) /\ symbols[j].table \in Nat /\ symbols[j].index \in Nat
        BY <1>6, SymbolFacts DEF SymbolsListed, cursor
      <4>2. n < n'
        BY <1>2, <3>1
      <4> QED
        BY <1>2, <3>1, <4>1, <4>2 DEF Precedes, cursor
    <3> QED
      BY <3>1, <3>2, <3>3 DEF SymbolsListed
  <2>2. CASE OneRead
    <3>1. /\ symbols' = Append(symbols, SymbolInHand) /\ n' = n /\ k' = k + 1 /\ UNCHANGED <<pc, sections>>
          /\ n \in SectionsOf("symbols") /\ IsUsable(sections[n]) /\ EntryFits(sections[n], k)
      BY <2>2 DEF OneRead
    <3>2. symbols \in Seq(SymbolType) /\ symbols' \in Seq(SymbolType)
      BY TypeKeeps DEF TypeOK, SymbolType
    <3>3. /\ Len(symbols) \in Nat /\ DOMAIN symbols = 1 .. Len(symbols)
          /\ DOMAIN symbols' = 1 .. (Len(symbols) + 1)
          /\ \A j \in 1 .. Len(symbols) : symbols'[j] = symbols[j]
          /\ symbols'[Len(symbols) + 1] = SymbolInHand /\ SymbolInHand \in SymbolType
      <4> HIDE DEF SymbolType
      <4>1. /\ Len(symbols) \in Nat /\ DOMAIN symbols = 1 .. Len(symbols)
            /\ DOMAIN symbols' = 1 .. (Len(symbols) + 1)
            /\ \A j \in 1 .. Len(symbols) : symbols'[j] = symbols[j]
            /\ symbols'[Len(symbols) + 1] = SymbolInHand
        BY <3>1, <3>2
      <4>2. Len(symbols) + 1 \in DOMAIN symbols'
        BY <4>1
      <4> QED
        BY <3>2, <4>1, <4>2
    <3>4. SymbolInHand.table = n /\ SymbolInHand.index = k
      BY DEF SymbolInHand
    <3>5. AreEntries(symbols', "symbols")
      <4> HIDE DEF SymbolType
      <4> QED
        BY <3>1, <3>2, <3>3, <3>4, EntriesAppend DEF SymbolsListed
    <3>6. InOrder(symbols')
      <4>1. \A j \in DOMAIN symbols : Precedes(symbols[j], SymbolInHand)
        BY <1>6, <3>4 DEF SymbolsListed, Precedes, cursor
      <4> HIDE DEF SymbolType
      <4> QED
        BY <3>1, <3>2, <3>3, <4>1, InOrderAppend DEF SymbolsListed
    <3>7. \A j \in DOMAIN symbols' : j \in DOMAIN symbols \/ j = Len(symbols) + 1
      BY <3>3
    <3>8. \A j \in DOMAIN symbols' : IsUsable(sections[symbols'[j].table])
      BY <3>1, <3>3, <3>4, <3>7 DEF SymbolsListed, SymbolsAreUsable
    <3>9. ASSUME NEW j \in DOMAIN symbols' PROVE Precedes(symbols'[j], cursor')
      <4>1. CASE j \in DOMAIN symbols
        <5>1. Precedes(symbols[j], [table |-> n, index |-> k]) /\ symbols[j].table \in Nat /\ symbols[j].index \in Nat
          BY <1>6, <4>1, SymbolFacts DEF SymbolsListed, cursor
        <5> QED
          BY <1>2, <3>1, <3>3, <4>1, <5>1 DEF Precedes, cursor
      <4>2. CASE j = Len(symbols) + 1
        BY <1>2, <3>1, <3>3, <3>4, <4>2 DEF Precedes, cursor
      <4> QED
        BY <3>7, <4>1, <4>2
    <3> QED
      BY <1>4, <3>1, <3>5, <3>6, <3>8, <3>9 DEF SymbolsListed, InOrder
  <2>3. CASE n > Len(sections) /\ pc' = "dynamic" /\ UNCHANGED <<sections, symbols>>
    BY <1>5, <2>3
  <2>4. CASE pc' = "done" /\ UNCHANGED <<sections, symbols, status>>
    BY <1>5, <2>4
  <2>5. CASE UNCHANGED vars
    BY <1>5, <2>5 DEF vars, headerVars
  <2> QED
    BY <1>6, <2>1, <2>2, <2>3, <2>4, <2>5, SymbolSteps
<1>7. CASE pc' \notin {"header", "segments", "sections", "symbols"} /\ UNCHANGED <<sections, symbols>>
  BY <1>5, <1>7
<1> QED
  BY <1>3, <1>6, <1>7, SymbolsRest

LEMMA LargeKeeps == TypeOK /\ PartsInOrder /\ LargeSoFar /\ [Next]_vars => LargeSoFar'
<1> SUFFICES ASSUME TypeOK, PartsInOrder, LargeSoFar, [Next]_vars, NEW m \in SectionsOf("symbols")',
                    Count(sections'[m]) > MaxSymbols, (pc' = "symbols" /\ m < n') \/ status'["symbols"] = "Valid"
             PROVE  "ELF_SYMBOL_LIMIT" \in diagnostics'
  BY DEF LargeSoFar, Count
<1>1. image' = image /\ diagnostics \subseteq diagnostics'
  BY FileStays, DiagnosticsGrow
<1>2. m \in Nat \ {0} /\ n \in Nat /\ ~(m < 1)
  BY TypeKeeps, PrimedSection DEF TypeOK
<1>3. ASSUME sections' = sections, (pc = "symbols" /\ m < n) \/ status["symbols"] = "Valid"
      PROVE  "ELF_SYMBOL_LIMIT" \in diagnostics'
  <2>1. m \in SectionsOf("symbols")
    BY <1>1, <1>3, SameFile
  <2> QED
    BY <1>1, <1>3, <2>1 DEF LargeSoFar
<1>4. CASE status'["symbols"] # "Valid" /\ (pc' = "symbols" => n' = 1)
  BY <1>2, <1>4
<1>5. CASE pc = "symbols"
  <2>1. status["symbols"] # "Valid"
    BY <1>5 DEF PartsInOrder
  <2>2. CASE Skipped
    <3>1. m < n \/ m = n
      BY <1>2, <2>1, <2>2 DEF Skipped
    <3>2. sections' = sections
      BY <2>2 DEF Skipped
    <3>3. m \in SectionsOf("symbols")
      BY <1>1, <3>2, SameFile
    <3> QED
      BY <1>3, <1>5, <2>2, <3>1, <3>2, <3>3 DEF Skipped
  <2>3. CASE OneRead
    BY <1>3, <1>5, <2>1, <2>3 DEF OneRead
  <2>4. CASE n > Len(sections) /\ pc' = "dynamic" /\ UNCHANGED <<sections, symbols>>
    <3>1. m \in 1 .. Len(sections) /\ Len(sections) \in Nat
      <4>1. m \in SectionsOf("symbols")
        BY <1>1, <2>4, SameFile
      <4> QED
        BY <4>1, SectionsOfFacts, SectionFacts
    <3>2. m < n
      BY <1>2, <2>4, <3>1
    <3> QED
      BY <1>3, <1>5, <2>4, <3>2
  <2>5. CASE pc' = "done" /\ UNCHANGED <<sections, symbols, status>>
    BY <2>1, <2>5
  <2>6. CASE UNCHANGED vars
    BY <1>3, <2>6 DEF vars, headerVars
  <2> QED
    BY <1>5, <2>2, <2>3, <2>4, <2>5, <2>6, SymbolSteps
<1>6. CASE /\ pc' \notin {"header", "segments", "sections", "symbols"}
           /\ UNCHANGED <<sections, symbols>> /\ status'["symbols"] = status["symbols"]
  BY <1>3, <1>6
<1> QED
  BY <1>4, <1>5, <1>6, SymbolsRest

LEMMA RelocationFacts ==
  ASSUME TypeOK
  PROVE  /\ relocations \in Seq(RelocationType)
         /\ \A j \in DOMAIN relocations : relocations[j].table \in Nat /\ relocations[j].index \in Nat
<1>1. relocations \in Seq(RelocationType)
  BY DEF TypeOK, RelocationType
<1>2. \A j \in DOMAIN relocations : relocations[j] \in RelocationType
  <2> HIDE DEF RelocationType
  <2> QED
    BY <1>1
<1> QED
  BY <1>1, <1>2 DEF RelocationType

LEMMA RelocationsStayListed == TypeOK /\ PartsInOrder /\ RelocationsListed /\ [Next]_vars => RelocationsListed'
<1> SUFFICES ASSUME TypeOK, PartsInOrder, RelocationsListed, [Next]_vars PROVE RelocationsListed'
  OBVIOUS
<1>1. image' = image
  BY FileStays
<1>2. n \in Nat /\ k \in Nat
  BY DEF TypeOK
<1>3. CASE relocations' = <<>>
  BY <1>3 DEF RelocationsListed, AreEntries, InOrder
<1>4. ASSUME sections' = sections
      PROVE  AreEntries(relocations, "relocations")' <=> AreEntries(relocations', "relocations")
  BY <1>1, <1>4, SameFile DEF AreEntries
<1>5. CASE UNCHANGED <<sections, relocations>> /\ (pc' = "relocations" => UNCHANGED <<pc, n, k>>)
  <2>1. AreEntries(relocations, "relocations")' /\ InOrder(relocations)'
    BY <1>4, <1>5 DEF RelocationsListed, InOrder
  <2>2. pc' = "relocations" => \A j \in DOMAIN relocations' : Precedes(relocations'[j], cursor')
    BY <1>5 DEF RelocationsListed, cursor
  <2> QED
    BY <2>1, <2>2 DEF RelocationsListed
<1>6. CASE pc = "relocations"
  <2>1. CASE TablePassed
    <3>1. n' = n + 1 /\ k' = 0 /\ UNCHANGED <<pc, sections, relocations>>
      BY <2>1 DEF TablePassed
    <3>2. AreEntries(relocations, "relocations")' /\ InOrder(relocations)'
      BY <1>4, <3>1 DEF RelocationsListed, InOrder
    <3>3. ASSUME NEW j \in DOMAIN relocations PROVE Precedes(relocations[j], cursor')
      <4>1. /\ Precedes(relocations[j], [table |-> n, index |-> k])
            /\ relocations[j].table \in Nat /\ relocations[j].index \in Nat
        BY <1>6, RelocationFacts DEF RelocationsListed, cursor
      <4>2. n < n'
        BY <1>2, <3>1
      <4> QED
        BY <1>2, <3>1, <4>1, <4>2 DEF Precedes, cursor
    <3> QED
      BY <3>1, <3>2, <3>3 DEF RelocationsListed
  <2>2. CASE OneRelocation
    <3>1. /\ relocations' = Append(relocations, RelocationInHand) /\ n' = n /\ k' = k + 1 /\ UNCHANGED <<pc, sections>>
          /\ n \in SectionsOf("relocations") /\ EntryFits(sections[n], k)
      BY <2>2 DEF OneRelocation
    <3>2. relocations \in Seq(RelocationType) /\ relocations' \in Seq(RelocationType)
      BY TypeKeeps DEF TypeOK, RelocationType
    <3>3. /\ Len(relocations) \in Nat /\ DOMAIN relocations = 1 .. Len(relocations)
          /\ DOMAIN relocations' = 1 .. (Len(relocations) + 1)
          /\ \A j \in 1 .. Len(relocations) : relocations'[j] = relocations[j]
          /\ relocations'[Len(relocations) + 1] = RelocationInHand /\ RelocationInHand \in RelocationType
      <4> HIDE DEF RelocationType
      <4>1. /\ Len(relocations) \in Nat /\ DOMAIN relocations = 1 .. Len(relocations)
            /\ DOMAIN relocations' = 1 .. (Len(relocations) + 1)
            /\ \A j \in 1 .. Len(relocations) : relocations'[j] = relocations[j]
            /\ relocations'[Len(relocations) + 1] = RelocationInHand
        BY <3>1, <3>2
      <4>2. Len(relocations) + 1 \in DOMAIN relocations'
        BY <4>1
      <4> QED
        BY <3>2, <4>1, <4>2
    <3>4. RelocationInHand.table = n /\ RelocationInHand.index = k
      BY DEF RelocationInHand
    <3>5. AreEntries(relocations', "relocations")
      <4> HIDE DEF RelocationType
      <4> QED
        BY <3>1, <3>2, <3>3, <3>4, EntriesAppend DEF RelocationsListed
    <3>6. InOrder(relocations')
      <4>1. \A j \in DOMAIN relocations : Precedes(relocations[j], RelocationInHand)
        BY <1>6, <3>4 DEF RelocationsListed, Precedes, cursor
      <4> HIDE DEF RelocationType
      <4> QED
        BY <3>1, <3>2, <3>3, <4>1, InOrderAppend DEF RelocationsListed
    <3>7. \A j \in DOMAIN relocations' : j \in DOMAIN relocations \/ j = Len(relocations) + 1
      BY <3>3
    <3>8. ASSUME NEW j \in DOMAIN relocations' PROVE Precedes(relocations'[j], cursor')
      <4>1. CASE j \in DOMAIN relocations
        <5>1. /\ Precedes(relocations[j], [table |-> n, index |-> k])
              /\ relocations[j].table \in Nat /\ relocations[j].index \in Nat
          BY <1>6, <4>1, RelocationFacts DEF RelocationsListed, cursor
        <5> QED
          BY <1>2, <3>1, <3>3, <4>1, <5>1 DEF Precedes, cursor
      <4>2. CASE j = Len(relocations) + 1
        BY <1>2, <3>1, <3>3, <3>4, <4>2 DEF Precedes, cursor
      <4> QED
        BY <3>7, <4>1, <4>2
    <3> QED
      BY <1>4, <3>1, <3>5, <3>6, <3>8 DEF RelocationsListed, InOrder
  <2>3. CASE n > Len(sections) /\ pc' = "notes" /\ UNCHANGED <<sections, relocations, diagnostics>>
    BY <1>5, <2>3
  <2>4. CASE pc' = "done" /\ Interrupted' /\ UNCHANGED <<sections, relocations>>
    BY <1>5, <2>4
  <2>5. CASE UNCHANGED vars
    BY <1>5, <2>5 DEF vars, headerVars
  <2> QED
    BY <1>6, <2>1, <2>2, <2>3, <2>4, <2>5, RelocationSteps
<1>7. CASE pc' \in {"notes", "done", "aborted"} /\ UNCHANGED <<sections, relocations>>
  BY <1>5, <1>7
<1> QED
  BY <1>3, <1>6, <1>7, RelocationsRest

(* An entry that does not fit lies behind the end of the file, and so does *)
(* the end of its section.                                                 *)
LEMMA CutIsRange ==
  ASSUME TypeOK, RangesReported, NEW part \in {"symbols", "relocations"}, NEW m \in SectionsOf(part),
         NEW index \in 0 .. (Count(sections[m]) - 1), ~EntryFits(sections[m], index)
  PROVE  "ELF_SECTION_RANGE" \in diagnostics
<1>1. m \in DOMAIN sections /\ sections[m].type \in Types(part) /\ sections[m].entsize # 0
  BY DEF SectionsOf
<1>2. sections[m].type # NOBITS
  <2>1. Types("symbols") = {2, 11} /\ Types("relocations") = {4, 9}
    BY ZenonT(30) DEF Types
  <2> QED
    BY <1>1, <2>1 DEF NOBITS
<1>3. sections[m].offset \in Nat /\ sections[m].size \in Nat /\ sections[m].entsize \in Nat \ {0} /\ image.size \in Nat
  BY <1>1, SectionFacts, WordFacts DEF TypeOK
<1>4. Count(sections[m]) \in Nat /\ Count(sections[m]) * sections[m].entsize <= sections[m].size
  <2>1. \A s \in Nat, e \in Nat \ {0} : s \div e \in Nat /\ (s \div e) * e <= s
    OBVIOUS
  <2> QED
    BY <1>3, <2>1 DEF Count
<1>5. index \in Nat /\ index < Count(sections[m]) /\ index + 1 <= Count(sections[m])
  BY <1>4
<1>6. index * sections[m].entsize + sections[m].entsize <= sections[m].size
  <2>1. \A i, c, e \in Nat : i + 1 <= c => i * e + e <= c * e
    OBVIOUS
  <2>2. \A i, e \in Nat : i * e \in Nat
    OBVIOUS
  <2>3. \A a, b, c \in Nat : a <= b /\ b <= c => a <= c
    OBVIOUS
  <2>4. index * sections[m].entsize + sections[m].entsize <= Count(sections[m]) * sections[m].entsize
    BY <1>3, <1>4, <1>5, <2>1
  <2>5. /\ index * sections[m].entsize + sections[m].entsize \in Nat
        /\ Count(sections[m]) * sections[m].entsize \in Nat
    BY <1>3, <1>4, <1>5, <2>2
  <2> QED
    BY <1>3, <1>4, <2>3, <2>4, <2>5
<1>7. ~Holds(EntryOffset(sections[m], index), sections[m].entsize)
  BY <1>5 DEF EntryFits
<1>8. ~Holds(sections[m].offset, sections[m].size)
  <2>1. \A o, p, e, s, f \in Nat : p + e <= s /\ ~(o + p + e <= f) => ~(o + s <= f)
    OBVIOUS
  <2>2. index * sections[m].entsize \in Nat
    <3>1. \A i, e \in Nat : i * e \in Nat
      OBVIOUS
    <3> QED
      BY <1>3, <1>5, <3>1
  <2> QED
    BY <1>3, <1>6, <1>7, <2>1, <2>2 DEF Holds, EntryOffset
<1> QED
  BY <1>1, <1>2, <1>8 DEF RangesReported

(***************************************************************************)
(* Dynamic entries                                                         *)
(***************************************************************************)
LEMMA DynamicRest ==
  ASSUME TypeOK, PartsInOrder, [Next]_vars, pc # "dynamic"
  PROVE  \/ /\ status'["dynamic"] # "Valid" /\ dynamic' = <<>>
            /\ pc' # "dynamic" \/ (pc' = "dynamic" /\ n' = 1 /\ k' = 0)
         \/ pc' # "dynamic" /\ status'["dynamic"] = status["dynamic"] /\ UNCHANGED <<sections, dynamic>>
<1>1. status \in [Part -> {"NotParsed", "Valid", "Malformed"}] /\ "dynamic" \in Part
  BY DEF TypeOK, Part
<1> USE DEF Judge, GoTo, Report, headerVars
<1>2. CASE \/ HeaderTruncated \/ ReadHeader \/ SegmentsOutside \/ ReadSegments \/ SectionsOutside \/ ReadSections
  <2>1. /\ pc \in {"header", "segments", "sections"} /\ pc' # "dynamic" /\ dynamic' = dynamic
        /\ \E part \in {"header", "segments", "sections"} : \E result : status' = [status EXCEPT ![part] = result]
    BY <1>2 DEF HeaderTruncated, ReadHeader, SegmentsOutside, ReadSegments, SectionsOutside, ReadSections
  <2>2. status'["dynamic"] = status["dynamic"]
    BY <2>1, <1>1
  <2> QED
    BY <2>1, <2>2 DEF PartsInOrder
<1>3. CASE EndSymbols
  <2>1. /\ pc = "symbols" /\ pc' = "dynamic" /\ n' = 1 /\ k' = 0 /\ dynamic' = dynamic
        /\ status' = [status EXCEPT !["symbols"] = "Valid"]
    BY <1>3 DEF EndSymbols
  <2>2. status'["dynamic"] = status["dynamic"]
    BY <2>1, <1>1
  <2> QED
    BY <2>1, <2>2 DEF PartsInOrder
<1>4. CASE EndRelocationTable \/ EndNoteTable
  <2>1. /\ pc \in {"relocations", "notes"} /\ pc' = pc /\ UNCHANGED <<sections, dynamic>>
        /\ status' = [status EXCEPT ![pc] = "Valid"]
    BY <1>4 DEF EndRelocationTable, EndNoteTable, RelocationTable, InHand
  <2>2. status'["dynamic"] = status["dynamic"]
    BY <2>1, <1>1
  <2> QED
    BY <2>1, <2>2
<1>5. CASE OtherSection \/ TooManySymbols \/ SymbolsWithoutNames \/ ReadSymbol \/ SymbolTruncated \/ EndSymbolTable
  BY <1>5 DEF OtherSection, TooManySymbols, SymbolsWithoutNames, ReadSymbol, SymbolTruncated, EndSymbolTable, Throw,
     SymbolTable, InHand
<1>6. CASE ReadDynamic \/ DynamicOutside \/ EndDynamic \/ NoDynamic
  BY <1>6 DEF ReadDynamic, DynamicOutside, EndDynamic, NoDynamic, DynamicTable, InHand
<1>7. CASE ReadRelocation \/ RelocationTruncated \/ EndRelocations \/ ReadNote \/ DescriptorBeyond \/ EndNotes
  BY <1>7 DEF ReadRelocation, RelocationTruncated, EndRelocations, ReadNote, DescriptorBeyond, EndNotes, Throw,
     RelocationTable, InHand
<1>8. CASE UNCHANGED vars
  BY <1>8 DEF vars
<1> QED
  BY <1>2, <1>3, <1>4, <1>5, <1>6, <1>7, <1>8 DEF Next

(* What follows a zero tag is no entry. *)
LEMMA EndOfDynamic ==
  ASSUME TypeOK, DynamicSoFar, pc = "dynamic", DynamicTable, ~MoreDynamic
  PROVE  DynamicIsWhole
<1> SUFFICES ASSUME NEW m \in SectionsOf("dynamic"), \A l \in SectionsOf("dynamic") : m <= l,
                    NEW index \in 0 .. (Count(sections[m]) - 1),
                    \A l \in 0 .. (index - 1) : Word(EntryOffset(sections[m], l)) # 0
             PROVE  Read(dynamic, m, index)
  BY DEF DynamicIsWhole
<1>1. /\ n \in Nat \ {0} /\ k \in Nat /\ Len(sections) \in Nat /\ DOMAIN sections = 1 .. Len(sections)
      /\ m \in Nat /\ Count(sections[m]) \in Nat /\ index \in Nat
  BY SectionFacts, SectionsOfFacts DEF TypeOK
<1>2. n \in SectionsOf("dynamic")
  BY <1>1 DEF DynamicTable, InHand, hand, SectionsOf
<1>3. n <= m /\ m <= n
  BY <1>2 DEF DynamicSoFar
<1>4. m = n
  BY <1>1, <1>3
<1>5. /\ Len(dynamic) = k
      /\ \A j \in DOMAIN dynamic :
           dynamic[j] = [table |-> n, index |-> j - 1, tag |-> Word(EntryOffset(sections[n], j - 1))]
  BY DEF DynamicSoFar
<1>6. DOMAIN dynamic = 1 .. k
  BY <1>5 DEF TypeOK
<1>7. index < k
  <2>1. CASE ~(k < Count(hand))
    BY <1>1, <1>4, <2>1 DEF hand
  <2>2. ASSUME NEW j \in DOMAIN dynamic, dynamic[j].tag = 0 PROVE index < k
    <3>1. Word(EntryOffset(sections[m], j - 1)) = 0
      BY <1>4, <1>5, <2>2
    <3>2. j \in 1 .. k
      BY <1>6
    <3>3. ~(j - 1 \in 0 .. (index - 1))
      BY <3>1
    <3> QED
      BY <1>1, <3>2, <3>3
  <2> QED
    BY <2>1, <2>2 DEF MoreDynamic
<1>8. index + 1 \in DOMAIN dynamic /\ (index + 1) - 1 = index
  BY <1>1, <1>6, <1>7
<1>9. dynamic[index + 1].table = m /\ dynamic[index + 1].index = index
  BY <1>4, <1>5, <1>8
<1> QED
  BY <1>8, <1>9 DEF Read

LEMMA DynamicKeeps == TypeOK /\ PartsInOrder /\ DynamicSoFar /\ [Next]_vars => DynamicSoFar'
<1> SUFFICES ASSUME TypeOK, PartsInOrder, DynamicSoFar, [Next]_vars PROVE DynamicSoFar'
  OBVIOUS
<1>1. image' = image
  BY FileStays
<1>2. sections' = sections /\ dynamic' = dynamic => (DynamicIsWhole' <=> DynamicIsWhole)
  BY <1>1, SameFile DEF DynamicIsWhole, Count, EntryOffset, Read
<1>3. CASE pc # "dynamic"
  <2>1. CASE status'["dynamic"] # "Valid" /\ dynamic' = <<>> /\ pc' = "dynamic" /\ n' = 1 /\ k' = 0
    <3>1. \A m \in SectionsOf("dynamic")' : 1 <= m
      BY TypeKeeps, PrimedSection
    <3> QED
      BY <2>1, <3>1 DEF DynamicSoFar
  <2>2. CASE status'["dynamic"] # "Valid" /\ pc' # "dynamic"
    BY <2>2 DEF DynamicSoFar
  <2>3. CASE pc' # "dynamic" /\ status'["dynamic"] = status["dynamic"] /\ UNCHANGED <<sections, dynamic>>
    BY <1>2, <2>3 DEF DynamicSoFar
  <2> QED
    BY <1>3, <2>1, <2>2, <2>3, DynamicRest
<1>4. CASE pc = "dynamic"
  <2>1. /\ status["dynamic"] # "Valid" /\ n \in Nat \ {0} /\ k \in Nat
        /\ Len(dynamic) = k /\ DOMAIN dynamic = 1 .. k
        /\ k > 0 => n \in SectionsOf("dynamic")
        /\ \A m \in SectionsOf("dynamic") : n <= m /\ m \in Nat
        /\ \A j \in DOMAIN dynamic :
             dynamic[j] = [table |-> n, index |-> j - 1, tag |-> Word(EntryOffset(sections[n], j - 1))]
        /\ Len(sections) \in Nat /\ DOMAIN sections = 1 .. Len(sections)
        /\ status \in [Part -> {"NotParsed", "Valid", "Malformed"}] /\ "dynamic" \in Part
    <3>1. Len(dynamic) = k /\ DOMAIN dynamic = 1 .. Len(dynamic)
      BY <1>4 DEF DynamicSoFar, TypeOK
    <3> QED
      BY <1>4, <3>1, SectionFacts, SectionsOfFacts DEF PartsInOrder, DynamicSoFar, TypeOK, Part
  <2> USE DEF Judge, GoTo, Report, headerVars, NextSection
  <2>2. CASE OtherSection
    <3>1. n' = n + 1 /\ k' = 0 /\ UNCHANGED <<pc, sections, dynamic, status>>
      BY <2>2 DEF OtherSection
    <3>2. n \notin SectionsOf("dynamic")
      BY <1>4, <2>2 DEF OtherSection, SectionsOf, hand
    <3>3. k = 0
      BY <2>1, <3>2
    <3>4. dynamic' = <<>> /\ Len(dynamic') = 0
      BY <2>1, <3>1, <3>3
    <3>5. \A m \in SectionsOf("dynamic") : n + 1 <= m
      BY <2>1, <3>2
    <3>6. SectionsOf("dynamic")' = SectionsOf("dynamic")
      BY <1>1, <3>1, SameFile
    <3>7. status'["dynamic"] # "Valid"
      BY <2>1, <3>1
    <3> QED
      BY <3>1, <3>4, <3>5, <3>6, <3>7 DEF DynamicSoFar
  <2>3. CASE ReadDynamic
    <3> DEFINE Tag == Word(EntryOffset(sections[n], k))
    <3>1. /\ n' = n /\ k' = k + 1 /\ UNCHANGED <<pc, sections, status>>
          /\ dynamic' = Append(dynamic, [table |-> n, index |-> k, tag |-> Tag])
      BY <2>3 DEF ReadDynamic, hand
    <3>2. n \in SectionsOf("dynamic")
      BY <2>1, <2>3 DEF ReadDynamic, DynamicTable, InHand, hand, SectionsOf
    <3>3. /\ Len(dynamic') = k + 1 /\ DOMAIN dynamic' = 1 .. (k + 1)
          /\ \A j \in 1 .. k : dynamic'[j] = dynamic[j]
          /\ dynamic'[k + 1] = [table |-> n, index |-> k, tag |-> Tag]
      <4> DEFINE Entry == [table : Nat, index : Nat, tag : Nat]
                 one == [table |-> n, index |-> k, tag |-> Tag]
      <4>1. dynamic \in Seq(Entry)
        BY DEF TypeOK
      <4> HIDE DEF Entry, one
      <4>2. dynamic' = Append(dynamic, one)
        BY <3>1 DEF one
      <4>3. /\ Len(dynamic') = k + 1 /\ DOMAIN dynamic' = 1 .. (k + 1)
            /\ \A j \in 1 .. k : dynamic'[j] = dynamic[j]
            /\ dynamic'[k + 1] = one
        BY <4>1, <4>2, <2>1
      <4> QED
        BY <4>3 DEF one
    <3>4. (k + 1) - 1 = k /\ k + 1 > 0 /\ \A j \in 1 .. (k + 1) : j \in 1 .. k \/ j = k + 1
      BY <2>1
    <3>5. \A j \in DOMAIN dynamic' :
            dynamic'[j] = [table |-> n, index |-> j - 1, tag |-> Word(EntryOffset(sections[n], j - 1))]
      BY <2>1, <3>3, <3>4
    <3>6. \A j : Word(EntryOffset(sections[n], j - 1))' = Word(EntryOffset(sections[n], j - 1))
      BY <1>1, <3>1, SameFile DEF EntryOffset
    <3>7. SectionsOf("dynamic")' = SectionsOf("dynamic")
      BY <1>1, <3>1, SameFile
    <3>8. \A j \in DOMAIN dynamic' :
            dynamic'[j] = [table |-> n', index |-> j - 1, tag |-> Word(EntryOffset(sections[n], j - 1))']
      BY <3>1, <3>5, <3>6
    <3>9. status'["dynamic"] # "Valid" /\ \A m \in SectionsOf("dynamic") : n' <= m
      BY <2>1, <3>1
    <3> HIDE DEF Tag
    <3> QED
      BY <3>1, <3>2, <3>3, <3>7, <3>8, <3>9 DEF DynamicSoFar
  <2>4. CASE DynamicOutside
    <3>1. pc' = "done" /\ status' = status
      BY <2>4 DEF DynamicOutside, Throw
    <3> QED
      BY <2>1, <3>1 DEF DynamicSoFar
  <2>5. CASE EndDynamic
    <3>1. pc' = "relocations" /\ UNCHANGED <<sections, dynamic>>
      BY <2>5 DEF EndDynamic
    <3>2. DynamicIsWhole
      BY <1>4, <2>5, EndOfDynamic DEF EndDynamic
    <3> QED
      BY <1>2, <3>1, <3>2 DEF DynamicSoFar
  <2>6. CASE NoDynamic
    <3>1. pc' = "relocations" /\ status' = status
      BY <2>6 DEF NoDynamic
    <3> QED
      BY <2>1, <3>1 DEF DynamicSoFar
  <2>7. CASE UNCHANGED vars
    <3>1. UNCHANGED <<pc, n, k, sections, dynamic, status>>
      BY <2>7 DEF vars
    <3>2. SectionsOf("dynamic")' = SectionsOf("dynamic")
      BY <1>1, <3>1, SameFile
    <3>3. \A j : Word(EntryOffset(sections[n], j - 1))' = Word(EntryOffset(sections[n], j - 1))
      BY <1>1, <3>1, SameFile DEF EntryOffset
    <3> QED
      BY <2>1, <3>1, <3>2, <3>3 DEF DynamicSoFar
  <2>8. CASE \/ HeaderTruncated \/ ReadHeader \/ SegmentsOutside \/ ReadSegments \/ SectionsOutside \/ ReadSections
             \/ TooManySymbols \/ SymbolsWithoutNames \/ ReadSymbol \/ SymbolTruncated \/ EndSymbolTable \/ EndSymbols
             \/ ReadRelocation \/ RelocationTruncated \/ EndRelocationTable \/ EndRelocations
             \/ ReadNote \/ DescriptorBeyond \/ EndNoteTable \/ EndNotes
    BY <1>4, <2>8 DEF HeaderTruncated, ReadHeader, SegmentsOutside, ReadSegments, SectionsOutside, ReadSections,
       TooManySymbols, SymbolsWithoutNames, ReadSymbol, SymbolTruncated, EndSymbolTable, EndSymbols, ReadRelocation,
       RelocationTruncated, EndRelocationTable, EndRelocations, ReadNote, DescriptorBeyond, EndNoteTable, EndNotes,
       SymbolTable, RelocationTable, InHand
  <2> QED
    BY <2>2, <2>3, <2>4, <2>5, <2>6, <2>7, <2>8 DEF Next
<1> QED
  BY <1>3, <1>4

(***************************************************************************)
(* Notes                                                                   *)
(***************************************************************************)
(* What the steps do to the notes and to their cursor. *)
LEMMA NoteSteps ==
  ASSUME TypeOK, PartsInOrder, [Next]_vars
  PROVE  \/ notes' = <<>> /\ (pc' = "notes" => n' = 1 /\ k' = 0)
         \/ UNCHANGED <<sections, notes>> /\ diagnostics \subseteq diagnostics' /\ pc' # "notes"
         \/ pc = "notes" /\ UNCHANGED <<pc, sections, notes, diagnostics>> /\ n' = n + 1 /\ k' = 0
         \/ ReadNote
         \/ UNCHANGED <<pc, n, k, sections, notes, diagnostics>>
<1>1. pc \in Part \ {"notes"} => notes = <<>>
  BY DEF PartsInOrder
<1> USE DEF Report, Judge, GoTo, NextSection, headerVars
<1>2. CASE HeaderTruncated \/ ReadHeader \/ SegmentsOutside \/ ReadSegments \/ SectionsOutside \/ ReadSections
  BY <1>1, <1>2 DEF HeaderTruncated, ReadHeader, SegmentsOutside, ReadSegments, SectionsOutside, ReadSections, Part
<1>3. CASE TooManySymbols \/ SymbolsWithoutNames \/ ReadSymbol \/ EndSymbolTable \/ EndSymbols
  BY <1>1, <1>3 DEF TooManySymbols, SymbolsWithoutNames, ReadSymbol, EndSymbolTable, EndSymbols, SymbolTable, InHand, Part
<1>4. CASE ReadDynamic \/ EndDynamic \/ NoDynamic \/ ReadRelocation \/ EndRelocationTable \/ EndRelocations
  BY <1>1, <1>4 DEF ReadDynamic, EndDynamic, NoDynamic, ReadRelocation, EndRelocationTable, EndRelocations, DynamicTable,
     RelocationTable, InHand, Part
<1>5. CASE SymbolTruncated \/ DynamicOutside \/ RelocationTruncated \/ DescriptorBeyond \/ EndNotes
  BY <1>5 DEF SymbolTruncated, DynamicOutside, RelocationTruncated, DescriptorBeyond, EndNotes, Throw
<1>6. CASE OtherSection
  BY <1>1, <1>6 DEF OtherSection, Part
<1>7. CASE EndNoteTable
  BY <1>7 DEF EndNoteTable, InHand
<1>8. CASE UNCHANGED vars
  BY <1>8 DEF vars
<1> QED
  BY <1>2, <1>3, <1>4, <1>5, <1>6, <1>7, <1>8 DEF Next

(* One more note: where it is and where the next one would be. *)
LEMMA OneMoreNote ==
  ASSUME TypeOK, [Next]_vars, ReadNote
  PROVE  /\ Len(notes) \in Nat /\ DOMAIN notes = 1 .. Len(notes)
         /\ DOMAIN notes' = 1 .. (Len(notes) + 1) /\ Len(notes') = Len(notes) + 1
         /\ \A j \in 1 .. Len(notes) : notes'[j] = notes[j]
         /\ notes'[Len(notes) + 1].table = n
         /\ notes'[Len(notes) + 1].at = here
         /\ n \in DOMAIN sections /\ hand.type = 7 /\ here = hand.offset + k /\ here \in Nat
         /\ hand.offset \in Nat /\ hand.size \in Nat /\ k \in Nat
         /\ hand.offset + k' = here + 12 + BodySize(here)
         /\ here + 12 + BodySize(here) <= hand.offset + hand.size
         /\ UNCHANGED <<pc, n, sections, diagnostics>> /\ pc = "notes"
<1> DEFINE note == [table |-> n, at |-> here]
           Note == [table : Nat, at : Nat]
<1>1. notes' = Append(notes, note) /\ notes \in Seq(Note)
  BY DEF ReadNote, TypeOK
<1>2. note.table = n /\ note.at = here
  OBVIOUS
<1>3. /\ Len(notes) \in Nat /\ DOMAIN notes = 1 .. Len(notes)
      /\ DOMAIN notes' = 1 .. (Len(notes) + 1) /\ Len(notes') = Len(notes) + 1
      /\ \A j \in 1 .. Len(notes) : notes'[j] = notes[j]
      /\ notes'[Len(notes) + 1] = note
  <2> HIDE DEF note, Note
  <2> QED
    BY <1>1
<1>4. /\ n <= Len(sections) /\ hand.type \in Types("notes") /\ pc = "notes"
      /\ k + 12 + BodySize(here) <= hand.size /\ k' = k + 12 + BodySize(here)
      /\ UNCHANGED <<pc, n, sections, diagnostics>>
  BY DEF ReadNote, InHand, NoteFits, headerVars
<1>5. Types("notes") = {7}
  BY ZenonT(30) DEF Types
<1>6. n \in DOMAIN sections /\ k \in Nat
  BY <1>4, SectionFacts DEF TypeOK
<1>7. hand.offset \in Nat /\ hand.size \in Nat
  BY <1>6, SectionFacts DEF hand
<1>8. here = hand.offset + k /\ here \in Nat
  BY <1>6, <1>7 DEF here
<1>9. BodySize(here) \in Nat
  BY <1>8, NoteFacts DEF TypeOK
<1>10. /\ hand.offset + k' = here + 12 + BodySize(here)
       /\ here + 12 + BodySize(here) <= hand.offset + hand.size
  <2>1. \A at, body, offset, size, from \in Nat : at = offset + from /\ from + 12 + body <= size =>
          /\ offset + (from + 12 + body) = at + 12 + body
          /\ at + 12 + body <= offset + size
    OBVIOUS
  <2> QED
    BY <1>4, <1>6, <1>7, <1>8, <1>9, <2>1
<1> HIDE DEF note
<1> QED
  BY <1>2, <1>3, <1>4, <1>5, <1>6, <1>7, <1>8, <1>10

LEMMA CursorKeeps == TypeOK /\ PartsInOrder /\ NotesSoFar /\ [Next]_vars => NotesSoFar'
<1> SUFFICES ASSUME TypeOK, PartsInOrder, NotesSoFar, [Next]_vars PROVE NotesSoFar'
  OBVIOUS
<1>1. image' = image
  BY FileStays
<1>3. SUFFICES /\ \A j \in DOMAIN notes' : notes'[j].table \in DOMAIN sections' /\ (pc' = "notes" => notes'[j].table <= n')
               /\ pc' = "notes" =>
                    IF notes' # <<>> /\ notes'[Len(notes')].table = n'
                      THEN sections'[n'].offset + k'
                             = notes'[Len(notes')].at + 12 + BodySize(notes[Len(notes)].at)'
                      ELSE k' = 0
  BY DEF NotesSoFar, hand
<1>4. /\ \A j \in DOMAIN notes : notes[j].table \in DOMAIN sections /\ (pc = "notes" => notes[j].table <= n)
      /\ pc = "notes" =>
           IF notes # <<>> /\ notes[Len(notes)].table = n
             THEN sections[n].offset + k = notes[Len(notes)].at + 12 + BodySize(notes[Len(notes)].at)
             ELSE k = 0
      /\ n \in Nat /\ Len(notes) \in Nat /\ DOMAIN notes = 1 .. Len(notes) /\ Len(sections) \in Nat
      /\ DOMAIN sections = 1 .. Len(sections)
  BY SectionFacts DEF NotesSoFar, hand, TypeOK
<1>5. CASE notes' = <<>> /\ (pc' = "notes" => n' = 1 /\ k' = 0)
  BY <1>5
<1>6. CASE UNCHANGED <<sections, notes>> /\ diagnostics \subseteq diagnostics' /\ pc' # "notes"
  BY <1>4, <1>6
<1>7. CASE pc = "notes" /\ UNCHANGED <<pc, sections, notes, diagnostics>> /\ n' = n + 1 /\ k' = 0
  <2>1. \A j \in DOMAIN notes : notes[j].table <= n' /\ notes[j].table # n'
    BY <1>4, <1>7
  <2>2. notes # <<>> => Len(notes) \in DOMAIN notes
    BY <1>4
  <2> QED
    BY <1>4, <1>7, <2>1, <2>2
<1>8. CASE ReadNote
  <2>1. /\ DOMAIN notes' = 1 .. (Len(notes) + 1) /\ Len(notes') = Len(notes) + 1
        /\ \A j \in 1 .. Len(notes) : notes'[j] = notes[j]
        /\ notes'[Len(notes) + 1].table = n /\ notes'[Len(notes) + 1].at = here
        /\ hand.offset + k' = here + 12 + BodySize(here) /\ n \in DOMAIN sections
        /\ UNCHANGED <<pc, n, sections, diagnostics>> /\ pc = "notes"
    BY <1>8, OneMoreNote
  <2>2. \A j \in DOMAIN notes' : notes'[j].table \in DOMAIN sections /\ notes'[j].table <= n
    <3>1. \A j \in 1 .. (Len(notes) + 1) : j \in 1 .. Len(notes) \/ j = Len(notes) + 1
      BY <1>4
    <3> QED
      BY <1>4, <2>1, <3>1
  <2>3. notes' # <<>>
    BY <1>4, <2>1
  <2>4. BodySize(notes[Len(notes)].at)' = BodySize(here)
    BY <1>1, <2>1, SameFile
  <2> QED
    BY <2>1, <2>2, <2>3, <2>4 DEF hand
<1>9. CASE UNCHANGED <<pc, n, k, sections, notes, diagnostics>>
  <2>1. BodySize(notes[Len(notes)].at)' = BodySize(notes[Len(notes)].at)
    BY <1>1, <1>9, SameFile
  <2> QED
    BY <1>4, <1>9, <2>1
<1> QED
  BY <1>5, <1>6, <1>7, <1>8, <1>9, NoteSteps

(* One note is where it should be. *)
NoteInPlace(j) ==
  LET section == sections[notes[j].table]
      at      == notes[j].at
  IN  /\ j = 1 \/ notes[j - 1].table # notes[j].table => at = section.offset
      /\ j > 1 /\ notes[j - 1].table = notes[j].table /\ ~WrapsAround(notes[j - 1].at)
           => at = NoteEnd(notes[j - 1].at)
      /\ ~WrapsAround(at) => NoteEnd(at) <= section.offset + section.size

LEMMA NotesKeep == TypeOK /\ PartsInOrder /\ NotesSoFar /\ NotesTile /\ [Next]_vars => NotesTile'
<1> SUFFICES ASSUME TypeOK, PartsInOrder, NotesSoFar, NotesTile, [Next]_vars, NEW j \in DOMAIN notes'
             PROVE  NoteInPlace(j)'
  BY DEF NotesTile, NoteInPlace
<1>1. image' = image
  BY FileStays
<1>2. ASSUME j \in DOMAIN notes, sections' = sections, diagnostics \subseteq diagnostics',
             notes'[j] = notes[j], j > 1 => notes'[j - 1] = notes[j - 1]
      PROVE  NoteInPlace(j)'
  <2>1. NoteInPlace(j)
    BY <1>2 DEF NotesTile, NoteInPlace
  <2>2. j \in Nat /\ j >= 1
    <3>1. notes \in Seq([table : Nat, at : Nat])
      BY DEF TypeOK
    <3>2. DOMAIN notes = 1 .. Len(notes) /\ Len(notes) \in Nat
      BY <3>1
    <3> QED
      BY <1>2, <3>2
  <2>5. /\ NoteEnd(notes[j].at)' = NoteEnd(notes[j].at)
        /\ WrapsAround(notes[j].at)' <=> WrapsAround(notes[j].at)
    BY <1>1, <1>2, SameFile
  <2>3. CASE j = 1
    <3>1. ~(j > 1)
      BY <2>3
    <3> QED
      BY <1>2, <2>1, <2>3, <2>5, <3>1 DEF NoteInPlace
  <2>4. CASE j > 1
    <3>1. /\ NoteEnd(notes[j - 1].at)' = NoteEnd(notes[j - 1].at)
          /\ WrapsAround(notes[j - 1].at)' <=> WrapsAround(notes[j - 1].at)
      BY <1>1, <1>2, <2>4, SameFile
    <3> QED
      BY <1>2, <2>1, <2>4, <2>5, <3>1 DEF NoteInPlace
  <2> QED
    BY <2>2, <2>3, <2>4
<1>3. CASE notes' = <<>>
  BY <1>3
<1>4. CASE UNCHANGED <<sections, notes>> /\ diagnostics \subseteq diagnostics'
  BY <1>2, <1>4
<1>5. CASE ReadNote
  <2>1. /\ Len(notes) \in Nat /\ DOMAIN notes = 1 .. Len(notes)
        /\ DOMAIN notes' = 1 .. (Len(notes) + 1) /\ Len(notes') = Len(notes) + 1
        /\ \A i \in 1 .. Len(notes) : notes'[i] = notes[i]
        /\ notes'[Len(notes) + 1].table = n
        /\ notes'[Len(notes) + 1].at = here
        /\ n \in DOMAIN sections /\ hand.type = 7 /\ here = hand.offset + k /\ here \in Nat
        /\ hand.offset \in Nat /\ hand.size \in Nat /\ k \in Nat
        /\ here + 12 + BodySize(here) <= hand.offset + hand.size
        /\ UNCHANGED <<pc, n, sections, diagnostics>> /\ pc = "notes"
    BY <1>5, OneMoreNote
  <2>2. CASE j \in DOMAIN notes
    <3>1. j > 1 => j - 1 \in 1 .. Len(notes)
      BY <2>1, <2>2
    <3> QED
      BY <1>2, <2>1, <2>2, <3>1
  <2>3. CASE j = Len(notes) + 1
    <3>1. /\ BodySize(here) \in Nat /\ NoteEnd(here) \in Nat /\ DescAt(here) \in Nat /\ DescSize(here) \in Nat
          /\ ~WrapsAround(here) => /\ NoteEnd(here) = here + 12 + BodySize(here)
                                   /\ DescAt(here) + DescSize(here) <= NoteEnd(here)
      BY <2>1, NoteFacts DEF TypeOK
    <3>2. ~WrapsAround(here) => NoteEnd(here) <= hand.offset + hand.size
      BY <2>1, <3>1
    <3>4. ASSUME j = 1 \/ notes'[j - 1].table # n PROVE here = hand.offset
      <4>1. notes = <<>> \/ notes[Len(notes)].table # n
        <5>1. CASE j = 1
          BY <2>1, <2>3, <5>1 DEF TypeOK
        <5>2. CASE j # 1
          <6>1. j - 1 = Len(notes) /\ Len(notes) \in 1 .. Len(notes)
            BY <2>1, <2>3, <5>2
          <6> QED
            BY <2>1, <3>4, <5>2, <6>1
        <5> QED
          BY <5>1, <5>2
      <4>2. k = 0
        BY <2>1, <4>1 DEF NotesSoFar
      <4> QED
        BY <2>1, <4>2
    <3>5. ASSUME j > 1, notes'[j - 1].table = n, ~WrapsAround(notes'[j - 1].at)
          PROVE  here = NoteEnd(notes'[j - 1].at)
      <4>1. j - 1 = Len(notes) /\ Len(notes) \in 1 .. Len(notes) /\ notes'[j - 1] = notes[Len(notes)]
        BY <2>1, <2>3, <3>5
      <4>2. notes[Len(notes)].at \in Nat
        <5> DEFINE Note == [table : Nat, at : Nat]
        <5>1. notes \in Seq(Note)
          BY DEF TypeOK
        <5>2. notes[Len(notes)] \in Note
          <6> HIDE DEF Note
          <6> QED
            BY <4>1, <5>1
        <5> QED
          BY <5>2
      <4>3. notes # <<>> /\ notes[Len(notes)].table = n
        BY <2>1, <3>5, <4>1
      <4>4. hand.offset + k = notes[Len(notes)].at + 12 + BodySize(notes[Len(notes)].at)
        BY <2>1, <4>3 DEF NotesSoFar
      <4>5. NoteEnd(notes[Len(notes)].at) = notes[Len(notes)].at + 12 + BodySize(notes[Len(notes)].at)
        BY <3>5, <4>1, <4>2, NoteFacts DEF TypeOK
      <4> QED
        BY <2>1, <4>1, <4>4, <4>5
    <3>6. /\ notes'[j].table = n /\ notes'[j].at = here /\ sections'[n] = hand /\ diagnostics' = diagnostics
          /\ \A at : NoteEnd(at)' = NoteEnd(at) /\ (WrapsAround(at)' <=> WrapsAround(at))
      BY <1>1, <2>1, <2>3, SameFile DEF hand
    <3>7. /\ NoteEnd(notes[j].at)' = NoteEnd(here)
          /\ NoteEnd(notes[j - 1].at)' = NoteEnd(notes'[j - 1].at)
          /\ WrapsAround(notes[j].at)' <=> WrapsAround(here)
          /\ WrapsAround(notes[j - 1].at)' <=> WrapsAround(notes'[j - 1].at)
      BY <3>6
    <3> QED
      BY <3>2, <3>4, <3>5, <3>6, <3>7 DEF NoteInPlace
  <2>4. j \in DOMAIN notes \/ j = Len(notes) + 1
    BY <2>1
  <2> QED
    BY <2>2, <2>3, <2>4
<1> QED
  BY <1>3, <1>4, <1>5, NoteSteps

(***************************************************************************)
(* The theorems                                                            *)
(***************************************************************************)
LEMMA ELFInductive == Spec => []ELFInv
<1>1. ELFInv /\ [Next]_vars => ELFInv'
  BY TypeKeeps, PartsKeep, SymbolsKeep, DynamicKeeps, RelocationsKeep, NumbersKeep, NamesKeep, CursorKeeps, NotesKeep,
     SymbolsStayListed, RelocationsStayListed, LargeKeeps, RangesKeep DEF ELFInv
<1> QED
  BY InitInv, <1>1, PTL DEF Spec

(* The state keeps its types, whatever the file holds. *)
THEOREM TypeCorrect == Spec => []TypeOK
<1>1. ELFInv => TypeOK
  BY DEF ELFInv
<1> QED
  BY ELFInductive, <1>1, PTL

(* The lists of symbols and relocations have the entries of their tables   *)
(* that are in the file, each once and in order, and once a part is called *)
(* valid, or the parser is done without an exception, what is missing of   *)
(* tables that have entries and a link to a section has been reported.     *)
THEOREM ListedCorrect == Spec => []TablesAreListed
<1>1. ELFInv => TablesAreListed
  <2> SUFFICES ASSUME ELFInv PROVE TablesAreListed
    OBVIOUS
  <2>1. /\ TypeOK /\ PartsInOrder /\ SymbolsSoFar /\ DynamicSoFar /\ RelocationsSoFar
        /\ SymbolsListed /\ RelocationsListed /\ LargeSoFar /\ RangesReported
    BY DEF ELFInv
  <2>2. status["symbols"] = "Valid" => SymbolsAreWhole /\ LargeTablesAreReported
    BY <2>1 DEF SymbolsSoFar, SymbolsAreWhole, LargeSoFar, LargeTablesAreReported
  <2>3. status["dynamic"] = "Valid" => DynamicIsWhole
    BY <2>1 DEF DynamicSoFar
  <2>4. pc = "done" /\ ~Interrupted => RelocationsAreWhole
    BY <2>1 DEF RelocationsSoFar, RelocationsAreWhole
  <2>5. pc = "done" => \A part \in {"symbols", "dynamic", "relocations"} :
          status[part] = "Valid" \/ SectionsOf(part) = {} \/ Interrupted
    <3>1. sections = <<>> => \A part : SectionsOf(part) = {}
      BY DEF SectionsOf
    <3> QED
      BY <2>1, <3>1 DEF PartsInOrder, Late
  <2>6. CutTablesAreReported
    BY <2>1, CutIsRange DEF CutTablesAreReported
  <2>7. /\ AreEntries(symbols, "symbols") /\ SymbolsAreUsable /\ InOrder(symbols)
        /\ AreEntries(relocations, "relocations") /\ InOrder(relocations)
    BY <2>1 DEF SymbolsListed, RelocationsListed
  <2> QED
    BY <2>2, <2>3, <2>4, <2>5, <2>6, <2>7 DEF TablesAreListed
<1> QED
  BY ELFInductive, <1>1, PTL

(* With one table of symbols, relocations have the names of their numbers. *)
THEOREM NamesCorrect == Spec => []RelocationsNameSymbols
<1>1. ELFInv => RelocationsNameSymbols
  BY DEF ELFInv
<1> QED
  BY ELFInductive, <1>1, PTL

(* The notes of a section follow each other and end within it. *)
THEOREM NotesCorrect == Spec => []NotesTile
<1>1. ELFInv => NotesTile
  BY DEF ELFInv
<1> QED
  BY ELFInductive, <1>1, PTL
=============================================================================
