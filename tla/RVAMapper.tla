------------------------------ MODULE RVAMapper ------------------------------
(***************************************************************************)
(* RVAMapper of src/src/formats/pe.cpp: from an address of the loaded      *)
(* image (an RVA, 32 bits) to an offset in the file (64 bits), and back.   *)
(*                                                                         *)
(* A mapper is [fileSize, headers, sections]; every operator returns the   *)
(* set of its results: one value, or none where the code returns an Error. *)
(* A sum of two RVAs or of an offset and a size is below 2^64, so only the *)
(* way back to 32 bits can overflow.                                       *)
(***************************************************************************)
EXTENDS Integers, Sequences

CONSTANT RvaLimit   \* 2^32

ASSUME RvaAssumption == RvaLimit \in Nat \ {0}

Rva == 0 .. (RvaLimit - 1)

Section == [virtualAddress : Rva, virtualSize : Rva, rawPointer : Rva, rawSize : Rva]

Mapper == [fileSize : Nat, headers : Rva, sections : Seq(Section)]

(* Mutant: what the section has in the file but not in memory is left out. *)
Span_Virtual(s) == s.virtualSize

Span(s) == IF s.virtualSize >= s.rawSize THEN s.virtualSize ELSE s.rawSize

HoldsRva(s, rva) ==
  s.virtualAddress <= rva /\ rva - s.virtualAddress < Span(s)

HoldsOffset(s, offset) ==
  s.rawPointer <= offset /\ offset - s.rawPointer < s.rawSize

(* The sections are tried in the order of the table. *)
FirstOf(indices) == {k \in indices : \A j \in indices : k <= j}

(* Where a section that holds the address has it in the file: nowhere in   *)
(* its virtual tail.  An offset equal to the size of the file passes.      *)
OffsetIn(m, s, rva) ==
  {o \in {s.rawPointer + (rva - s.virtualAddress)} :
     rva - s.virtualAddress < s.rawSize /\ o <= m.fileSize}

RvaToFileOffset(m, rva) ==
  IF rva < m.headers THEN {o \in {rva} : o < m.fileSize}
  ELSE UNION {OffsetIn(m, m.sections[k], rva) :
                k \in FirstOf({i \in DOMAIN m.sections : HoldsRva(m.sections[i], rva)})}

FileOffsetToRva(m, offset) ==
  IF offset < m.headers /\ offset < m.fileSize THEN {offset}
  ELSE {r \in {m.sections[k].virtualAddress + (offset - m.sections[k].rawPointer) :
                 k \in FirstOf({i \in DOMAIN m.sections : HoldsOffset(m.sections[i], offset)})} :
          r < RvaLimit}

(* map_rva_range(): only the first address is looked up. *)
MapRvaRange(m, rva, size) ==
  {range \in {[start |-> o, size |-> size] : o \in RvaToFileOffset(m, rva)} :
     size = 0 \/ range.start + size <= m.fileSize}
=============================================================================
