------------------------------- MODULE PEData -------------------------------
(***************************************************************************)
(* What the parsers of a PE image's tables share (src/src/formats/pe.cpp): *)
(* directories, the mapper, and numbers and texts read by address.         *)
(*                                                                         *)
(* An image is its mapper, the directories of the tables the program knows *)
(* (size 0: not present), `words', the numbers stored at the offsets    *)
(* that matter, in the width with which they are read, everything else     *)
(* being zero, and `texts', the offsets at which a printable text begins   *)
(* that is not empty.  Operators that may fail return the set of their     *)
(* results, which has at most one element.                                 *)
(***************************************************************************)
EXTENDS RVAMapper

Table == {"import", "export", "relocation", "resource", "tls", "debug"}

ParseStatus == {"NotParsed", "NotPresent", "Valid", "PartiallyParsed", "Malformed"}

Directory == [rva : Rva, size : Rva]

(* The sparse contents of a file. *)
IsContent(f) ==
  /\ DOMAIN f.words \subseteq Nat
  /\ \A o \in DOMAIN f.words : f.words[o] \in Nat
  /\ f.texts \subseteq Nat

IsImage(f) ==
  /\ f.mapper \in Mapper
  /\ f.directories \in [Table -> Directory]
  /\ f.pe64 \in BOOLEAN /\ f.imageBase \in Nat
  /\ IsContent(f)

Word(f, offset) == IF offset \in DOMAIN f.words THEN f.words[offset] ELSE 0

(* The code forms addresses in 64 bits and gives up, in one way, on those  *)
(* beyond 32 bits and those with fewer than `length' bytes in the file.    *)
Window(f, address, length) ==
  {o \in IF address < RvaLimit THEN RvaToFileOffset(f.mapper, address) ELSE {} :
     o + length <= f.mapper.fileSize}

Fetch(f, address, length) == {Word(f, o) : o \in Window(f, address, length)}

(* ascii_rva(): whether a text that is not empty begins at the address. *)
HasText(f, rva) == rva \in Rva /\ RvaToFileOffset(f.mapper, rva) \cap f.texts # {}

(* dir_present() and map_directory(). *)
Present(f, t) == f.directories[t].size # 0

Mapped(f, t) == MapRvaRange(f.mapper, f.directories[t].rva, f.directories[t].size) # {}
=============================================================================
