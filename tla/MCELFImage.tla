----------------------------- MODULE MCELFImage -----------------------------
(***************************************************************************)
(* Files of up to 600 bytes with up to five sections: a string table, two  *)
(* tables of symbols, relocations, dynamic entries or notes, each in every *)
(* state of damage; the sizes of notes have eight bits.                    *)
(***************************************************************************)
EXTENDS ELFImage, TLC

section(type, offset, size, link, entsize) ==
  [type |-> type, offset |-> offset, size |-> size, link |-> link, entsize |-> entsize, name |-> 1]

headers(offset, entsize, entries) == [offset |-> offset, entsize |-> entsize, entries |-> entries]

strings == section(3, 448, 16, 0, 0)

file(size, elf64, sections_, words) ==
  [size |-> size, elf64 |-> elf64, segments |-> headers(0, 0, <<>>),
   sections |-> headers(100, 64, sections_), nameSection |-> 0,
   words |-> words, texts |-> {449, 453}]

(* Header tables within, at the end of and outside of the file.            *)
MCHeaders ==
  {[size |-> size, elf64 |-> elf64,
    segments |-> headers(64, entsize, [m \in 1 .. many |-> [type |-> 3, offset |-> 300, size |-> length]]),
    sections |-> headers(200, shentsize, <<strings, section(8, 900, 16, 0, 0)>>), nameSection |-> names,
    words |-> <<>>, texts |-> {449}] :
     size \in {40, 60, 200, 320, 600}, elf64 \in BOOLEAN, entsize \in {0, 32, 56}, many \in 0 .. 2,
     length \in {8, 80}, shentsize \in {40, 64}, names \in {0, 5}}

(* The relocations refer to symbols of the first or the second table.      *)
MCSymbols ==
  {file(600, elf64,
        <<strings, section(2, offset, 48, link, entsize), section(other, 520, 24, 0, 24),
          section(type, rel, 24, own, relsize)>>,
        (464 :> first @@ 488 :> 5 @@ 520 :> 5 @@ 548 :> symbol @@ 552 :> symbol @@ 584 :> symbol)) :
     elf64 \in BOOLEAN, offset \in {464, 590}, link \in {0, 9}, entsize \in {0, 4, 8, 24}, other \in {1, 11},
     type \in {4, 9}, rel \in {544, 576, 590}, relsize \in {8, 24}, first \in {0, 1}, symbol \in {1, 2}, own \in {1, 2}}

MCDynamic ==
  {file(600, elf64,
        <<strings, section(6, offset, size, 0, entsize), section(6, 560, 16, 0, 16), section(9, rel, 8, 0, 8)>>,
        (464 :> a @@ 472 :> b @@ 480 :> b @@ 590 :> a @@ 592 :> b)) :
     elf64 \in BOOLEAN, offset \in {464, 584, 592}, size \in {16, 32}, entsize \in {0, 8, 16},
     rel \in {540, 590, 700}, a \in {0, 1}, b \in {0, 1}}

MCNotes ==
  {file(600, TRUE,
        <<strings, section(7, offset, size, 0, 0), section(7, 560, 16, 0, 0)>>,
        (offset :> name @@ (offset + 4) :> desc @@ (offset + 16) :> next @@ (offset + 20) :> next @@ 560 :> 4)) :
     offset \in {464, 576}, size \in {8, 16, 24, 40, 60}, name \in {0, 1, 4, 254}, desc \in {0, 3, 8, 254},
     next \in {0, 8}}

(* Two whole tables of symbols; the relocations refer to the second one.   *)
MCTwoTables ==
  {file(600, elf64,
        <<strings, section(11, 464, 48, 0, 24), section(2, 520, 24, 0, 24), section(type, 544, 24, 2, 24)>>,
        (464 :> 1 @@ 488 :> 1 @@ 520 :> 5 @@ 548 :> symbol @@ 552 :> symbol)) :
     elf64 \in BOOLEAN, type \in {4, 9}, symbol \in {0, 1}}

MCImages == MCHeaders \cup MCSymbols \cup MCDynamic \cup MCNotes
=============================================================================
