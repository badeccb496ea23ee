--------------------------- MODULE MCFileAnalysis ---------------------------
(***************************************************************************)
(* All files of up to MaxSize bytes out of a zero, a line feed, a letter   *)
(* and a byte that is never text, with small options of every command on   *)
(* bytes; code of three instructions out of twelve, cut off anywhere, in   *)
(* parts that lie in, across and behind the end of the file; and all pairs *)
(* of short files out of two bytes.                                        *)
(***************************************************************************)
EXTENDS FileAnalysis

CONSTANT MaxSize

MCFiles == UNION {[1 .. n -> {0, 10, 65, 200}] : n \in 0 .. MaxSize}

MCByteRequests ==
  {[task |-> "strings", encodings |-> e, min |-> min, max |-> max] :
     e \in {<<"utf8">>, <<"ascii", "utf16le", "utf16be">>}, min \in 0 .. 2, max \in 0 .. 2}
  \cup {[task |-> "search", pattern |-> p, max |-> max] :
          p \in {<<65>>, <<65, 65>>, <<0, Any, 65>>, <<Any>>}, max \in 0 .. 2}
  \cup {[task |-> "regions", min |-> min] : min \in 1 .. 2}
  \cup {[task |-> "hexdump", offset |-> offset, length |-> length, width |-> width] :
          offset \in {0, 1, 6}, length \in {0, 3, 9}, width \in {1, 2, 16}}

(* nop, push with two prefixes, a prefix alone, call, short jump, near and *)
(* unknown 0F, syscall, both lengths of mov, ret with a number, xor of     *)
(* registers and of memory.                                                *)
MCCode ==
  {<<144>>, <<65, 72, 80>>, <<73>>, <<232, 2, 0, 0, 0>>, <<235, 1>>, <<15, 132, 1, 0, 0, 0>>,
   <<15, 65>>, <<15, 5>>, <<184, 144, 0, 0, 0>>, <<72, 184, 1, 2, 3, 4, 5, 6, 7, 8>>,
   <<194, 8, 0>>, <<49, 192>>, <<72, 137, 8>>}

MCPrograms ==
  LET whole == {a \o b \o c : a, b \in MCCode, c \in {<<144>>, <<232, 2, 0, 0, 0>>, <<195>>}}
  IN  {SubSeq(w, 1, Least(n, Len(w))) : w \in whole, n \in {1, 4, 6, 9, 16}}

part(offsets, address, size) == [offsets |-> offsets, address |-> address, size |-> size]

MCParts ==
  {<<part({0}, 4, 16)>>, <<part({0}, 4, 3), part({}, 9, 2), part({2}, 8, 9)>>,
   <<part({1}, 2, 5), part({0}, 6, 0), part({40}, 1, 4)>>}

MCDisassemblyRequests ==
  {[task |-> "disasm", format |-> "raw", offset |-> offset, entry |-> {},
    fromEntry |-> entered, count |-> count, maxBytes |-> max] :
     offset \in {0, 3, 9}, entered \in BOOLEAN, count \in {1, 9}, max \in {0, 4}}
  \cup {[task |-> "disasm", format |-> format, parts |-> parts, base |-> base, entry |-> entry,
         fromEntry |-> entered, count |-> count, maxBytes |-> max] :
          <<format, base>> \in {<<"PE", 0>>, <<"PE", 3>>, <<"ELF", 0>>}, parts \in MCParts, entry \in {{}, {9}},
          entered \in BOOLEAN, count \in {2, 9}, max \in {0, 4}}

MCPairs == UNION {[1 .. n -> {0, 65}] : n \in 0 .. 4} \cup {<<0, 65, 65, 0, 65, 0>>}

named(name, offset, size) == [name |-> name, offset |-> offset, size |-> size]

MCSections ==
  {<<>>, <<named(".text", 0, 2), named(".data", 2, 2)>>,
   <<named(".text", 0, 2), named(".bss", 3, 2), named(".text", 1, 1)>>}

MCInputs ==
  (MCFiles \X MCByteRequests)
    \cup (MCPrograms \X MCDisassemblyRequests)
    \cup (MCPairs \X [task : {"diff"}, other : MCPairs, old : MCSections, new : MCSections])
=============================================================================
