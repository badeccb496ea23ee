----------------------------- MODULE Disassembly -----------------------------
(***************************************************************************)
(* The command "disasm": src/src/analysis/disassembly.cpp.  Of an          *)
(* instruction its place, its length and whether it is known matter here;  *)
(* operands and targets of branches are left out.                          *)
(*                                                                         *)
(* A part is what a parser says of an executable section: the offsets the  *)
(* mapper gives it (at most one), its address and size.  For PE, addresses *)
(* of sections and the entry point are RVAs, and `base' is the image base; *)
(* for ELF they are addresses, and `base' is 0.  A raw file has no entry.  *)
(* Sums of addresses and sizes stay below 2^64.                            *)
(***************************************************************************)
EXTENDS ByteAnalysis, FiniteSets

AtMostOne == {s \in SUBSET Nat : \A a, b \in s : a = b}

Part == [offsets : AtMostOne, address : Nat, size : Nat]

DisassemblyRequest ==
  [task : {"disasm"}, format : {"PE", "ELF"}, parts : Seq(Part), base : Nat, entry : AtMostOne,
   fromEntry : BOOLEAN, count : Nat \ {0}, maxBytes : Nat]
    \cup [task : {"disasm"}, format : {"raw"}, offset : Nat, entry : {{}},
          fromEntry : BOOLEAN, count : Nat \ {0}, maxBytes : Nat]

(***************************************************************************)
(* decode() of what lies at the start of the bytes                         *)
(***************************************************************************)
Rex == 64 .. 79

Prefixes(d) ==
  CHOOSE n \in 0 .. Len(d) :
    (\A j \in 1 .. n : d[j] \in Rex) /\ (n < Len(d) => d[n + 1] \notin Rex)

Wide(d, n) == n > 0 /\ (d[n] \div 8) % 2 = 1    \* REX.W of the last prefix

(* What follows the opcode: how many bytes in all, and whether they have   *)
(* to be there for the opcode to be taken for what it is.                  *)
Operands(d, n) ==
  LET op == d[n + 1]
      second == IF n + 1 < Len(d) THEN d[n + 2] ELSE Any
  IN  CASE op \in {144, 195, 204, 201, 244} \cup (80 .. 95) -> 0
        [] op = 15 /\ second = 5 -> 1
        [] op = 15 /\ second \in 128 .. 143 -> 5
        [] op \in {232, 233} -> 4
        [] op \in {235, 49, 137, 139} \cup (112 .. 127) -> 1
        [] op \in 184 .. 191 -> IF Wide(d, n) THEN 8 ELSE 4
        [] op = 194 -> 2
        [] OTHER -> Any

Unknown(length) == [length |-> length, known |-> FALSE, named |-> TRUE]

(* A mov of which the number is cut off is neither a "db" nor has a name.  *)
WithOperands(d, n, fits) ==
  LET op == d[n + 1]
      length == n + 1 + Operands(d, n)
  IN  IF Operands(d, n) = Any THEN Unknown(n + 1)
      ELSE IF ~fits
        THEN [Unknown(n + 1) EXCEPT !.known = op \in 184 .. 191, !.named = op \notin 184 .. 191]
      ELSE [length |-> length, named |-> TRUE,
            known |-> op \in {49, 137, 139} => d[n + 2] >= 192]   \* registers only

(* Mutant: a call is taken for one although its target is cut off. *)
Decode_Unbounded(d) ==
  LET n == Prefixes(d)
  IN  IF n = Len(d) THEN Unknown(1)
      ELSE IF d[n + 1] = 232 THEN [WithOperands(d, n, TRUE) EXCEPT !.length = Least(@, Len(d))]
      ELSE WithOperands(d, n, n + 1 + Operands(d, n) <= Len(d))

Decode(d) ==
  LET n == Prefixes(d)
  IN  IF n = Len(d) THEN Unknown(1) ELSE WithOperands(d, n, n + 1 + Operands(d, n) <= Len(d))

(***************************************************************************)
(* disassemble_x86(): `count' instructions at most                         *)
(***************************************************************************)
Bytes(offset, size) == SubSeq(data, offset + 1, offset + size)

InstructionAt(at, end) ==
  LET x == Decode(Bytes(at, end - at))
  IN  [at |-> at, length |-> x.length, known |-> x.known, named |-> x.named]

(* Where the instructions end that were read so far. *)
EndOf(list, offset) == IF list = <<>> THEN offset ELSE list[Len(list)].at + list[Len(list)].length

Instructions(offset, size) ==
  LET read[n \in 0 .. request.count] ==
        IF n = 0 THEN <<>>
        ELSE LET at == EndOf(read[n - 1], offset)
             IN  IF at < offset + size THEN Append(read[n - 1], InstructionAt(at, offset + size)) ELSE read[n - 1]
  IN  read[request.count]

Block(offset, address, size) ==
  [at |-> offset, address |-> address, size |-> size, instructions |-> Instructions(offset, size)]

(***************************************************************************)
(* disassemble_file()                                                      *)
(***************************************************************************)
Parts ==
  IF request.format = "raw"
    THEN <<[offsets |-> {request.offset}, address |-> request.offset, size |-> Size - request.offset]>>
    ELSE request.parts

Disassembling == Doing("disasm") /\ pass <= Len(Parts)

Within(part) == {o \in part.offsets : o < Size /\ part.size # 0}

SkipPart ==
  /\ Disassembling /\ Within(Parts[pass]) = {}
  /\ pass' = pass + 1
  /\ UNCHANGED <<data, request, i, start, found, result, outcome>>

Extent(part, offset) ==
  LET size == Least(part.size, Size - offset)
  IN  IF request.maxBytes = 0 THEN size ELSE Least(size, request.maxBytes)

Base == IF request.format = "PE" THEN request.base ELSE 0

AddPart ==
  /\ Disassembling
  /\ \E offset \in Within(Parts[pass]) :
       result' = Append(result, Block(offset, Base + Parts[pass].address, Extent(Parts[pass], offset)))
  /\ pass' = pass + 1
  /\ UNCHANGED <<data, request, i, start, found, outcome>>

Holds(block, address) == block.address <= address /\ address < block.address + block.size

(* With --from-entry the blocks that hold the entry point are shown from   *)
(* there on.  Blocks start at base + RVA and the entry point of a PE image *)
(* is an RVA.                                                              *)
FromEntry(b, entry) == Block(b.at + (entry - b.address), entry, b.size - (entry - b.address))

Entering == Doing("disasm") /\ pass > Len(Parts) /\ request.fromEntry /\ i < Len(result)

Entered(b) == {entry \in request.entry : Holds(b, entry)}

SkipBlock ==
  /\ Entering /\ Entered(result[i + 1]) = {}
  /\ i' = i + 1
  /\ UNCHANGED <<data, request, pass, start, found, result, outcome>>

EnterBlock ==
  /\ Entering
  /\ \E entry \in Entered(result[i + 1]) : found' = Append(found, FromEntry(result[i + 1], entry))
  /\ i' = i + 1
  /\ UNCHANGED <<data, request, pass, start, result, outcome>>

EndDisassembly ==
  /\ Doing("disasm") /\ pass > Len(Parts)
  /\ request.fromEntry => i = Len(result)
  /\ Finish(IF request.fromEntry THEN found ELSE result)

DisassemblyNext == SkipPart \/ AddPart \/ SkipBlock \/ EnterBlock \/ EndDisassembly

(***************************************************************************)
(* Properties                                                              *)
(***************************************************************************)
(* The bytes of a part up to the limits.                                   *)
Shown(part, offset) ==
  {b \in offset .. (Size - 1) :
     b < offset + part.size /\ (request.maxBytes # 0 => b < offset + request.maxBytes)}

(* The instructions of a block follow each other without a gap from its    *)
(* start on, to its end unless they are `count'.  Where the block ends     *)
(* changes nothing of what is known: the same bytes in the whole file are  *)
(* the same instruction.                                                   *)
IsExact(block) ==
  LET x == block.instructions
  IN  /\ \A k \in DOMAIN x :
           /\ x[k].at = IF k = 1 THEN block.at ELSE x[k - 1].at + x[k - 1].length
           /\ x[k].known /\ x[k].named =>
                LET alone == Decode(Bytes(x[k].at, Size - x[k].at))
                IN  alone.known /\ alone.length = x[k].length
      /\ Len(x) <= request.count
      /\ \/ Len(x) = request.count
         \/ x # <<>> /\ x[Len(x)].at + x[Len(x)].length = block.at + block.size

(* There is a block for every part in the file, in order; with --from-entry*)
(* each shows the end of such a part.                                      *)
InFile == {p \in DOMAIN Parts : Within(Parts[p]) # {}}

BytesOfBlock(b) == b.at .. (b.at + b.size - 1)

ShowsEnd(b, part) ==
  \E o \in Within(part) : \E entry \in request.entry :
    /\ b.address = entry
    /\ BytesOfBlock(b) = {x \in Shown(part, o) : Base + part.address + (x - o) >= entry}

Contains(part) ==
  \E o \in Within(part) : \E entry \in request.entry : \E x \in Shown(part, o) :
    Base + part.address + (x - o) = entry

BlocksAreExact ==
  /\ \A k \in DOMAIN result : IsExact(result[k])
  /\ IF request.fromEntry
       THEN /\ \A k \in DOMAIN result : \E p \in InFile : ShowsEnd(result[k], Parts[p])
            /\ \A p \in InFile : Contains(Parts[p]) => \E k \in DOMAIN result : ShowsEnd(result[k], Parts[p])
       ELSE /\ Len(result) = Cardinality(InFile)
            /\ \A p \in InFile : \A o \in Within(Parts[p]) :
                 BytesOfBlock(result[Cardinality({q \in InFile : q <= p})]) = Shown(Parts[p], o)

(* --from-entry starts to decode at the entry point, if it is in a part    *)
(* that lies in the file (docs/v0.6.md:20).                                *)
EntryIsDisassembled ==
  (outcome = "Success" /\ request.task = "disasm" /\ request.format = "PE" /\ request.fromEntry) =>
    \A e \in request.entry : \A p \in DOMAIN Parts : \A o \in Within(Parts[p]) :
      LET place == o + (e - Parts[p].address)
      IN  Parts[p].address <= e /\ place \in Shown(Parts[p], o) =>
            \E k \in DOMAIN result : result[k].at = place
=============================================================================
