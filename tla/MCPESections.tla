---------------------------- MODULE MCPESections ----------------------------
(***************************************************************************)
(* Section tables of up to three sections over eight addresses, in every   *)
(* order: text and data as a linker lays them out, a section with a        *)
(* virtual tail and one that only has a tail, one with more in the file    *)
(* than in memory, an empty one, and ones that collide with these in       *)
(* memory, in the file, with the headers, with the end of the file or with *)
(* the end of the addresses.                                               *)
(***************************************************************************)
EXTENDS PESections

section(va, vsize, raw, rawSize) ==
  [virtualAddress |-> va, virtualSize |-> vsize, rawPointer |-> raw, rawSize |-> rawSize]

MCSections ==
  {section(2, 2, 1, 2), section(4, 2, 3, 1), section(6, 1, 0, 0), section(4, 1, 3, 2),
   section(3, 3, 2, 2), section(1, 1, 4, 1), section(6, 3, 4, 1), section(5, 0, 1, 0)}

MCTables == UNION {[1 .. n -> MCSections] : n \in 0 .. 3}

MCDirectories == {<<[rva |-> 2, size |-> 2], [rva |-> 4, size |-> 0]>>, <<[rva |-> 4, size |-> 2]>>}

MCImages ==
  {[fileSize |-> size, headers |-> headers, sizeOfImage |-> imageSize,
    declared |-> Len(table) + missing, table |-> table,
    entry |-> entry, directories |-> directories] :
     size \in {4, 5}, headers \in {1, 2}, imageSize \in {0, 6}, missing \in {0, 1},
     table \in MCTables, entry \in {0, 4, 5}, directories \in MCDirectories}
=============================================================================
