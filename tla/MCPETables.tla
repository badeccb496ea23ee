----------------------------- MODULE MCPETables -----------------------------
(***************************************************************************)
(* Small files, of up to 160 bytes, with one table each, which lies at the *)
(* address 16; addresses have eight bits and thunks of eight bytes sixteen.*)
(* The file is mapped as it is, or with a hole of eight addresses.         *)
(***************************************************************************)
EXTENDS PETables, TLC

flat(size) == [fileSize |-> size, headers |-> 200, sections |-> <<>>]

(* The addresses 32 to 39 are not in the file.                             *)
holed ==
  [fileSize |-> 128, headers |-> 32,
   sections |-> <<[virtualAddress |-> 32, virtualSize |-> 8, rawPointer |-> 0, rawSize |-> 0],
                  [virtualAddress |-> 40, virtualSize |-> 88, rawPointer |-> 40, rawSize |-> 88]>>]

file(mapper, t, rva, size, pe64, words, texts) ==
  [mapper |-> mapper,
   directories |-> [u \in Table |-> IF u = t THEN [rva |-> rva, size |-> size] ELSE [rva |-> 0, size |-> 0]],
   pe64 |-> pe64, imageBase |-> 64, words |-> words, texts |-> texts]

(* Every table outside of the file, and no table.                          *)
MCOutside ==
  {file(flat(160), t, rva, size, FALSE, <<>>, {}) : t \in Table, rva \in {140, 250}, size \in {20, 40}}
  \cup {file(flat(160), "debug", 16, 0, FALSE, <<>>, {})}

(* Three directories with two, two and one entries, which lead to each     *)
(* other, to data, to data that is cut off or to a directory that is; the  *)
(* last one may claim more entries than there is room for.                 *)
MCResources ==
  LET first == {128 + 32, 128 + 64, 96, 104}
      inner == {128, 128 + 64, 96}
      leaf == {128, 128 + 32, 128 + 64, 128 + 120, 96}
  IN  {file(mapper, "resource", 16, 112, FALSE,
            (28 :> 1 @@ 30 :> 1 @@ 36 :> a @@ 44 :> b @@ 62 :> 2 @@ 68 :> c @@ 76 :> d
             @@ 94 :> n @@ 100 :> e), {}) :
         mapper \in {flat(128), holed}, a \in first, b \in first, c \in inner, d \in inner,
         n \in {1, 9}, e \in leaf}

(* Two libraries, the second one perhaps missing, and their thunks; the    *)
(* directory may end before the zero descriptor.                           *)
MCImports ==
  {file(flat(size), "import", 16, room, pe64,
        (16 :> oft @@ 28 :> 110 @@ 32 :> 80 @@ 48 :> second @@ 52 :> second
         @@ 80 :> a @@ (IF pe64 THEN 88 ELSE 84) :> b), {102, 112}) :
     size \in {112, 160}, room \in {20, 40, 60}, pe64 \in BOOLEAN, oft \in {0, 80, 252}, second \in {0, 84},
     a \in {0, 100, 104, 300}, b \in {0, 128, 40000, 250}}

MCExports ==
  {file(flat(160), "export", rva, 40, FALSE,
        (36 :> count @@ 40 :> 2 @@ 44 :> table @@ 48 :> 72 @@ 52 :> ordinals
         @@ 64 :> f @@ 68 :> 100 @@ 72 :> m @@ 76 :> n @@ 88 :> a @@ 90 :> b @@ 158 :> 1), texts) :
     rva \in {16, 120}, count \in {0, 2, 3}, table \in {64, 156}, ordinals \in {88, 158, 160},
     f \in {20, 100}, m \in {110, 114}, n \in {110, 112}, a \in {0, 1}, b \in {0, 1},
     texts \in {{0, 20, 110, 112}, {110, 112}}}

MCRelocations ==
  {file(flat(size), "relocation", 16, room, FALSE,
        (16 :> page @@ 20 :> first @@ 24 :> 53 @@ 28 :> second @@ 32 :> second @@ 36 :> second), {}) :
     size \in {48, 160}, room \in {7, 20, 24}, page \in {32, 252}, first \in {0, 4, 8, 11, 12, 16, 40},
     second \in {0, 4, 8, 12}}

MCTLS ==
  {file(flat(160), "tls", 16, size, pe64,
        (28 :> array @@ 40 :> array @@ 80 :> a @@ (IF pe64 THEN 88 ELSE 84) :> b), {}) :
     size \in {20, 24, 40}, pe64 \in BOOLEAN, array \in {7, 64 + 80, 64 + 150, 64 + 250, 400},
     a \in {0, 7, 164}, b \in {0, 165}}

MCDebug ==
  {file(flat(120), "debug", rva, size, FALSE,
        (28 :> 2 @@ 32 :> length @@ 36 :> address @@ 40 :> pointer @@ 80 :> 83 @@ 116 :> 83), {}) :
     rva \in {16, 64}, size \in {20, 28, 56}, length \in {20, 24, 30}, address \in {80, 200},
     pointer \in {60, 80, 116}}

MCImages ==
  MCOutside \cup MCResources \cup MCImports \cup MCExports \cup MCRelocations \cup MCTLS \cup MCDebug
=============================================================================
