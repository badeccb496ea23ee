------------------------------ MODULE PETables ------------------------------
(***************************************************************************)
(* The last line of parse_pe() of src/src/formats/pe.cpp: the parsers of   *)
(* the imports, exports, base relocations, resources (PEResources), thread *)
(* local storage and debug entries, one after the other.                   *)
(*                                                                         *)
(* `pc' is the name of the table whose parser is called next, or the name  *)
(* of the loop the parser is in.                                           *)
(***************************************************************************)
EXTENDS PEResources, FiniteSets

CONSTANTS
  MaxThunks,     \* 1000000: the most symbols of one imported library
  MaxExports,    \* 1000000: the most functions, and the most names
  MaxCallbacks,  \* 4096
  PageSize,      \* 4096: a relocation is a type and an offset in a page
  RSDS           \* the signature of a CodeView record

ASSUME TablesAssumption ==
  /\ MaxThunks \in Nat /\ MaxExports \in Nat /\ MaxCallbacks \in Nat
  /\ PageSize \in Nat \ {0} /\ RSDS \in Nat \ {0}

VARIABLES
  pc,
  i, j,          \* loop counters
  status,        \* the status of each table but the resources
  diagnostics,   \* [code, address], those of the resources excepted
  imports,       \* [lookup, iat, symbols]: imports.modules
  module,        \* the one in hand
  functions,     \* funcs
  names,         \* [name, ordinal]: the vectors names and ords
  exports,       \* [rva, name, forwarder]: exports.functions
  blocks,        \* [address, size, entries]: relocations.blocks
  entries,       \* b.entries of the block in hand
  callbacks,     \* tls.callbacks
  debug          \* [entry, raw]: debug_entries, raw: where the CodeView record is

importVars == <<imports, module>>
exportVars == <<functions, names, exports>>
relocationVars == <<blocks, entries>>
tableVars == <<importVars, exportVars, relocationVars, callbacks, debug>>
vars == <<resourceVars, pc, i, j, status, diagnostics, tableVars>>

NoModule == [lookup |-> 0, iat |-> 0, symbols |-> <<>>]

Init ==
  /\ InitResources
  /\ pc = "import" /\ i = 0 /\ j = 0
  /\ status = [t \in Table \ {"resource"} |-> "NotParsed"]
  /\ diagnostics = {}
  /\ imports = <<>> /\ module = NoModule
  /\ functions = <<>> /\ names = <<>> /\ exports = <<>>
  /\ blocks = <<>> /\ entries = <<>>
  /\ callbacks = <<>> /\ debug = <<>>

dir(t) == image.directories[t]

Report(complaints) == diagnostics' = diagnostics \cup complaints

When(condition, code, address) == {f \in {fault(code, address)} : condition}

(***************************************************************************)
(* Entering and leaving a parser                                           *)
(***************************************************************************)
Parser == {"import", "export", "relocation", "tls", "debug"}

Following(t) ==
  CASE t = "import" -> "export" [] t = "export" -> "relocation"
    [] t = "relocation" -> "resource" [] t = "tls" -> "debug" [] t = "debug" -> "done"

RangeCode(t) ==
  CASE t = "import" -> "PE_IMPORT_DIRECTORY_RANGE" [] t = "export" -> "PE_EXPORT_DIRECTORY_RANGE"
    [] t = "relocation" -> "PE_RELOC_DIRECTORY_RANGE" [] t = "tls" -> "PE_TLS_DIRECTORY_RANGE"
    [] t = "debug" -> "PE_DEBUG_DIRECTORY_RANGE"

GoTo(loop) == pc' = loop /\ i' = 0 /\ j' = 0

(* Mutant: an unusable table ends parse_pe() and not only its own parser. *)
Leave_All(t, result) ==
  /\ status' = [status EXCEPT ![t] = result]
  /\ GoTo(IF result = "Malformed" THEN "done" ELSE Following(t))
  /\ UNCHANGED resourceVars

Leave(t, result) ==
  /\ status' = [status EXCEPT ![t] = result]
  /\ GoTo(Following(t))
  /\ UNCHANGED resourceVars

Enter(t, loop) ==
  /\ pc = t /\ Present(image, t) /\ Mapped(image, t)
  /\ GoTo(loop)
  /\ UNCHANGED <<resourceVars, status, diagnostics, tableVars>>

Absent ==
  /\ pc \in Parser /\ ~Present(image, pc)
  /\ Leave(pc, "NotPresent")
  /\ UNCHANGED <<diagnostics, tableVars>>

Unmapped ==
  /\ pc \in Parser /\ Present(image, pc) /\ ~Mapped(image, pc)
  /\ Report({fault(RangeCode(pc), dir(pc).rva)})
  /\ Leave(pc, "Malformed")
  /\ UNCHANGED tableVars

(***************************************************************************)
(* parse_imports(): descriptors of twenty bytes, each with a list of       *)
(* thunks; both lists should end with a zero one.                          *)
(***************************************************************************)
EnterImports == Enter("import", "descriptors")

DescriptorAt(k) ==
  IF k < dir("import").size \div 20 THEN Window(image, dir("import").rva + k * 20, 20) ELSE {}

IsTerminator(o) == \A field \in {0, 4, 8, 12, 16} : Word(image, o + field) = 0

ReadDescriptor ==
  /\ pc = "descriptors"
  /\ \E o \in DescriptorAt(i) :
       /\ ~IsTerminator(o)
       /\ LET lookup == Word(image, o)
              name   == Word(image, o + 12)
              iat    == Word(image, o + 16)
          IN  /\ module' = [lookup |-> IF lookup # 0 THEN lookup ELSE iat, iat |-> iat, symbols |-> <<>>]
              /\ Report(When(~HasText(image, name), "PE_IMPORT_NAME", name))
  /\ i' = i + 1 /\ j' = 0 /\ pc' = "thunks"
  /\ UNCHANGED <<resourceVars, status, imports, exportVars, relocationVars, callbacks, debug>>

EndDescriptors ==
  /\ pc = "descriptors"
  /\ \A o \in DescriptorAt(i) : IsTerminator(o)
  /\ Report(When(DescriptorAt(i) = {}, "PE_IMPORT_UNTERMINATED", dir("import").rva))
  /\ Leave("import", "Valid")
  /\ UNCHANGED tableVars

Width == IF image.pe64 THEN 8 ELSE 4

OrdinalFlag == IF image.pe64 THEN (RvaLimit * RvaLimit) \div 2 ELSE HighBit

Thunk(m, k) ==
  IF k < MaxThunks /\ m.iat + k * Width < RvaLimit
    THEN Fetch(image, m.lookup + k * Width, Width) ELSE {}

(* The name follows its two bytes of hint. *)
NameIsUsable(value) ==
  /\ value < RvaLimit
  /\ Window(image, value, 2) # {}
  /\ value <= RvaLimit - 3

IsSymbol(value) == value # 0 /\ (value >= OrdinalFlag \/ NameIsUsable(value))

ReadThunk ==
  /\ pc = "thunks"
  /\ \E value \in Thunk(module, j) :
       /\ IsSymbol(value)
       /\ module' = [module EXCEPT !.symbols = Append(@,
            [lookup |-> module.lookup + j * Width, iat |-> module.iat + j * Width,
             byName |-> value < OrdinalFlag])]
       /\ Report(When(value < OrdinalFlag /\ ~HasText(image, value + 2), "PE_IMPORT_NAME", value))
  /\ j' = j + 1
  /\ UNCHANGED <<resourceVars, pc, i, status, imports, exportVars, relocationVars, callbacks, debug>>

(* Mutant: only a list that ends at something unreadable is reported. *)
EndThunks_NameForgotten ==
  /\ pc = "thunks"
  /\ \A value \in Thunk(module, j) : ~IsSymbol(value)
  /\ Report(When(Thunk(module, j) = {}, "PE_IMPORT_UNTERMINATED", module.lookup))
  /\ imports' = Append(imports, module)
  /\ pc' = "descriptors"
  /\ UNCHANGED <<resourceVars, i, j, status, module, exportVars, relocationVars, callbacks, debug>>

EndThunks ==
  /\ pc = "thunks"
  /\ \A value \in Thunk(module, j) : ~IsSymbol(value)
  /\ Report(When(Thunk(module, j) # {0}, "PE_IMPORT_UNTERMINATED", module.lookup)
            \cup UNION {When(value # 0 /\ (value >= RvaLimit \/ Window(image, value, 2) = {}),
                             "PE_IMPORT_NAME_RVA", value) : value \in Thunk(module, j)})
  /\ imports' = Append(imports, module)
  /\ pc' = "descriptors"
  /\ UNCHANGED <<resourceVars, i, j, status, module, exportVars, relocationVars, callbacks, debug>>

(***************************************************************************)
(* parse_exports(): the addresses of the functions; the names, each with   *)
(* the index of its function; then both are joined.  The vectors have      *)
(* their full length, filled with zeros, before anything is read.          *)
(***************************************************************************)
HeaderOf(t, length) == Window(image, dir(t).rva, length)

FunctionCount(o) == Word(image, o + 20)
NameCount(o) == Word(image, o + 24)

ExportsUnreadable ==
  /\ pc = "export" /\ Present(image, pc) /\ Mapped(image, pc)
  /\ HeaderOf("export", 40) = {}
  /\ Report({fault("PE_EXPORT_HEADER", dir("export").rva)})
  /\ Leave("export", "Malformed")
  /\ UNCHANGED tableVars

TooManyExports(o) == FunctionCount(o) > MaxExports \/ NameCount(o) > MaxExports

ExportsTooMany ==
  /\ pc = "export" /\ Present(image, pc) /\ Mapped(image, pc)
  /\ \E o \in HeaderOf("export", 40) : TooManyExports(o)
  /\ Report({fault("PE_EXPORT_COUNT", dir("export").rva)})
  /\ Leave("export", "Malformed")
  /\ UNCHANGED tableVars

BeginExports ==
  /\ pc = "export" /\ Present(image, pc) /\ Mapped(image, pc)
  /\ \E o \in HeaderOf("export", 40) :
       /\ ~TooManyExports(o)
       /\ functions' = [k \in 1 .. FunctionCount(o) |-> 0]
       /\ names' = [k \in 1 .. NameCount(o) |-> [name |-> 0, ordinal |-> 0]]
  /\ GoTo("functions")
  /\ UNCHANGED <<resourceVars, status, diagnostics, importVars, exports, relocationVars, callbacks, debug>>

ExportHeader == CHOOSE o \in HeaderOf("export", 40) : TRUE

FunctionAt(k) == Fetch(image, Word(image, ExportHeader + 28) + k * 4, 4)

ReadFunction ==
  /\ pc = "functions" /\ i < Len(functions)
  /\ \E rva \in FunctionAt(i) : functions' = [functions EXCEPT ![i + 1] = rva]
  /\ i' = i + 1
  /\ UNCHANGED <<resourceVars, pc, j, status, diagnostics, importVars, names, exports, relocationVars,
                 callbacks, debug>>

EndFunctions ==
  /\ pc = "functions"
  /\ i = Len(functions) \/ FunctionAt(i) = {}
  /\ Report(When(i < Len(functions), "PE_EXPORT_FUNCTION_RANGE", dir("export").rva))
  /\ GoTo("names")
  /\ UNCHANGED <<resourceVars, status, tableVars>>

NameAt(k) ==
  {[name |-> n, ordinal |-> o] : n \in Fetch(image, Word(image, ExportHeader + 32) + k * 4, 4),
                                 o \in Fetch(image, Word(image, ExportHeader + 36) + k * 2, 2)}

ReadName ==
  /\ pc = "names" /\ i < Len(names)
  /\ \E entry \in NameAt(i) : names' = [names EXCEPT ![i + 1] = entry]
  /\ i' = i + 1
  /\ UNCHANGED <<resourceVars, pc, j, status, diagnostics, importVars, functions, exports, relocationVars,
                 callbacks, debug>>

(* Nothing tells that there should have been more. *)
EndNames ==
  /\ pc = "names"
  /\ i = Len(names) \/ NameAt(i) = {}
  /\ GoTo("exports")
  /\ UNCHANGED <<resourceVars, status, diagnostics, tableVars>>

(* Mutant: the last name of a function is taken. *)
NamesOf_Last(index) ==
  LET mine == {n \in DOMAIN names : names[n].ordinal = index}
  IN  {names[n].name : n \in {k \in mine : (\A l \in mine : l <= k) /\ HasText(image, names[k].name)}}

(* The first name with the function's index, if it can be read. *)
NamesOf(index) ==
  {names[n].name : n \in {k \in FirstOf({l \in DOMAIN names : names[l].ordinal = index}) :
                            HasText(image, names[k].name)}}

IsForwarder(rva) ==
  /\ rva >= dir("export").rva /\ rva < dir("export").rva + dir("export").size
  /\ HasText(image, rva)

JoinFunction ==
  /\ pc = "exports" /\ i < Len(functions)
  /\ exports' = Append(exports, [rva |-> functions[i + 1], name |-> NamesOf(i),
                                 forwarder |-> IsForwarder(functions[i + 1])])
  /\ i' = i + 1
  /\ UNCHANGED <<resourceVars, pc, j, status, diagnostics, importVars, functions, names, relocationVars,
                 callbacks, debug>>

EndExports ==
  /\ pc = "exports" /\ i = Len(functions)
  /\ Leave("export", "Valid")
  /\ UNCHANGED <<diagnostics, tableVars>>

(***************************************************************************)
(* parse_relocations(): blocks of a page address, a size and entries of    *)
(* two bytes.  `i' is how far the blocks have been read.                   *)
(***************************************************************************)
EnterRelocations == Enter("relocation", "blocks")

BlockAt(pos) ==
  IF pos + 8 <= dir("relocation").size THEN Window(image, dir("relocation").rva + pos, 8) ELSE {}

BlockSize(o) == Word(image, o + 4)

SizeIsValid(size) == size >= 8 /\ size <= dir("relocation").size - i

BeginBlock ==
  /\ pc = "blocks"
  /\ \E o \in BlockAt(i) : SizeIsValid(BlockSize(o))
  /\ entries' = <<>>
  /\ pc' = "entries" /\ j' = 0
  /\ UNCHANGED <<resourceVars, i, status, diagnostics, importVars, exportVars, blocks, callbacks, debug>>

BlockHeader == CHOOSE o \in BlockAt(i) : TRUE

(* The entry's bytes, where there still is an entry in the block. *)
EntryAt(k) ==
  IF k < (BlockSize(BlockHeader) - 8) \div 2
    THEN Fetch(image, dir("relocation").rva + i + 8 + k * 2, 2) ELSE {}

RelocationTarget(word) ==
  LET target == Word(image, BlockHeader) + (word % PageSize)
  IN  IF target < RvaLimit THEN target ELSE 0

ReadEntry ==
  /\ pc = "entries"
  /\ \E word \in EntryAt(j) :
       entries' = Append(entries, [type |-> word \div PageSize, target |-> RelocationTarget(word)])
  /\ j' = j + 1
  /\ UNCHANGED <<resourceVars, pc, i, status, diagnostics, importVars, exportVars, blocks, callbacks, debug>>

(* Mutant: the next block is sought behind the entries that were read. *)
EndBlock_AfterEntries ==
  /\ pc = "entries" /\ EntryAt(j) = {}
  /\ blocks' = Append(blocks, [pos |-> i, size |-> BlockSize(BlockHeader), entries |-> entries])
  /\ i' = i + 8 + Len(entries) * 2
  /\ pc' = "blocks"
  /\ UNCHANGED <<resourceVars, j, status, diagnostics, importVars, exportVars, entries, callbacks, debug>>

EndBlock ==
  /\ pc = "entries" /\ EntryAt(j) = {}
  /\ blocks' = Append(blocks, [pos |-> i, size |-> BlockSize(BlockHeader), entries |-> entries])
  /\ i' = i + BlockSize(BlockHeader)
  /\ pc' = "blocks"
  /\ UNCHANGED <<resourceVars, j, status, diagnostics, importVars, exportVars, entries, callbacks, debug>>

EndBlocks ==
  /\ pc = "blocks"
  /\ \A o \in BlockAt(i) : ~SizeIsValid(BlockSize(o))
  /\ Report(When(BlockAt(i) # {}, "PE_RELOC_INVALID_BLOCK", dir("relocation").rva + i))
  /\ Leave("relocation", IF blocks = <<>> THEN "PartiallyParsed" ELSE "Valid")
  /\ UNCHANGED tableVars

(***************************************************************************)
(* parse_resources()                                                       *)
(***************************************************************************)
ParseResources ==
  /\ pc = "resource"
  /\ NextResources
  /\ pc' = IF at' = "done" THEN "tls" ELSE pc
  /\ UNCHANGED <<i, j, status, diagnostics, tableVars>>

(***************************************************************************)
(* parse_tls(): the callbacks, by their virtual addresses up to a zero.    *)
(***************************************************************************)
TLSSize == IF image.pe64 THEN 40 ELSE 24

TLSHeader == IF dir("tls").size < TLSSize THEN {} ELSE HeaderOf("tls", TLSSize)

VaToRva(va) == {r \in {va - image.imageBase} : r \in Rva}

(* The address of the array of callbacks. *)
CallbackArray(o) == VaToRva(Word(image, o + IF image.pe64 THEN 24 ELSE 12))

AtTLS == pc = "tls" /\ Present(image, pc) /\ Mapped(image, pc)

TLSUnreadable ==
  /\ AtTLS /\ TLSHeader = {}
  /\ Report({fault("PE_TLS_HEADER", dir("tls").rva)})
  /\ Leave("tls", "Malformed")
  /\ UNCHANGED tableVars

NoCallbacks ==
  /\ AtTLS
  /\ \E o \in TLSHeader : CallbackArray(o) = {}
  /\ Report({fault("PE_TLS_CALLBACKS_UNMAPPED", dir("tls").rva)})
  /\ Leave("tls", "Valid")
  /\ UNCHANGED tableVars

BeginCallbacks ==
  /\ AtTLS
  /\ \E o \in TLSHeader : CallbackArray(o) # {}
  /\ GoTo("callbacks")
  /\ UNCHANGED <<resourceVars, status, diagnostics, tableVars>>

(* The callbacks that can be read and are not zero: one at most. *)
CallbackAt(k) ==
  {va \in UNION {Fetch(image, array + k * Width, Width) :
                   array \in UNION {CallbackArray(o) : o \in TLSHeader}} :
     k < MaxCallbacks /\ va # 0}

ReadCallback ==
  /\ pc = "callbacks"
  /\ \E va \in CallbackAt(i) : callbacks' = Append(callbacks, [va |-> va, rva |-> VaToRva(va)])
  /\ i' = i + 1
  /\ UNCHANGED <<resourceVars, pc, j, status, diagnostics, importVars, exportVars, relocationVars, debug>>

EndCallbacks ==
  /\ pc = "callbacks" /\ CallbackAt(i) = {}
  /\ Leave("tls", "Valid")
  /\ UNCHANGED <<diagnostics, tableVars>>

(***************************************************************************)
(* parse_debug(): entries of 28 bytes; those of type 2 should lead to a    *)
(* CodeView record, by an offset or, where this one is no use, an address. *)
(***************************************************************************)
EnterDebug == Enter("debug", "debug entries")

DebugAt(k) ==
  IF k < dir("debug").size \div 28 THEN Window(image, dir("debug").rva + k * 28, 28) ELSE {}

IsCodeView(o) == Word(image, o + 12) = 2 /\ Word(image, o + 16) >= 24

RawData(o) ==
  LET size == Word(image, o + 16)
      InFile(offsets) == {r \in offsets : r + size <= image.mapper.fileSize}
      pointer == InFile({Word(image, o + 24)})
  IN  IF pointer # {} THEN pointer
      ELSE InFile(RvaToFileOffset(image.mapper, Word(image, o + 20)))

CodeView(o) == {r \in RawData(o) : IsCodeView(o) /\ Word(image, r) = RSDS}

ReadDebugEntry ==
  /\ pc = "debug entries"
  /\ \E o \in DebugAt(i) :
       /\ debug' = Append(debug, [entry |-> i, raw |-> CodeView(o)])
       /\ Report(When(IsCodeView(o) /\ CodeView(o) = {}, "PE_DEBUG_CODEVIEW", dir("debug").rva + i * 28))
  /\ i' = i + 1
  /\ UNCHANGED <<resourceVars, pc, j, status, importVars, exportVars, relocationVars, callbacks>>

EndDebug ==
  /\ pc = "debug entries" /\ DebugAt(i) = {}
  /\ Leave("debug", IF debug = <<>> THEN "PartiallyParsed" ELSE "Valid")
  /\ UNCHANGED <<diagnostics, tableVars>>

Next ==
  \/ Absent \/ Unmapped
  \/ EnterImports \/ ReadDescriptor \/ ReadThunk \/ EndThunks \/ EndDescriptors
  \/ ExportsUnreadable \/ ExportsTooMany \/ BeginExports
  \/ ReadFunction \/ EndFunctions \/ ReadName \/ EndNames \/ JoinFunction \/ EndExports
  \/ EnterRelocations \/ BeginBlock \/ ReadEntry \/ EndBlock \/ EndBlocks
  \/ ParseResources
  \/ TLSUnreadable \/ NoCallbacks \/ BeginCallbacks \/ ReadCallback \/ EndCallbacks
  \/ EnterDebug \/ ReadDebugEntry \/ EndDebug

(* The program computes until it is through. *)
Spec == Init /\ [][Next]_vars /\ WF_vars(Next)

(***************************************************************************)
(* Properties                                                              *)
(***************************************************************************)
StatusOf(t) == IF t = "resource" THEN treeStatus ELSE status[t]

Usable(t) ==
  /\ Present(image, t) /\ Mapped(image, t)
  /\ t = "export" => \E o \in HeaderOf(t, 40) : ~TooManyExports(o)
  /\ t = "tls" => TLSHeader # {}

(* Each table is judged, and by its own directory and header alone: what   *)
(* is wrong with one stops its own parser and no other ("Fatal failures    *)
(* should stop only the affected analysis component", docs/v0.2.md).       *)
TablesAreJudged ==
  pc = "done" => \A t \in Table :
    /\ StatusOf(t) # "NotParsed"
    /\ (StatusOf(t) = "NotPresent") <=> ~Present(image, t)
    /\ (StatusOf(t) \in {"Valid", "PartiallyParsed"}) <=> Usable(t)

(* The import lists end where the file ends them, at a zero, or it is said *)
(* that they do not: no library and no symbol is lost in silence, and none *)
(* is read beyond the end.                                                 *)
ImportsEndForAReason ==
  status["import"] = "Valid" =>
    LET described(k) == \E o \in DescriptorAt(k) : ~IsTerminator(o)
        ended(list, zero) ==
          zero \/ fault("PE_IMPORT_UNTERMINATED", list) \in diagnostics
    IN  /\ \A k \in 0 .. (Len(imports) - 1) : described(k)
        /\ ~described(Len(imports))
        /\ ended(dir("import").rva, DescriptorAt(Len(imports)) # {})
        /\ \A k \in DOMAIN imports :
             LET m == imports[k]
                 n == Len(m.symbols)
             IN  /\ \A l \in 0 .. (n - 1) : \E value \in Thunk(m, l) : IsSymbol(value)
                 /\ \A value \in Thunk(m, n) : ~IsSymbol(value)
                 /\ ended(m.lookup, Thunk(m, n) = {0})

(* An exported function has the name that the file declares first for it,  *)
(* counting the names before the first one that cannot be read.  Only to   *)
(* the function 0 the entries that are missing give the text at address 0. *)
ExportNamesAreDeclared ==
  \A k \in DOMAIN exports :
    LET readable == {n \in 0 .. (NameCount(ExportHeader) - 1) : \A l \in 0 .. n : NameAt(l) # {}}
        mine     == FirstOf({n \in readable : \E e \in NameAt(n) : e.ordinal = k - 1})
        declared == UNION {{e.name : e \in NameAt(n)} : n \in mine}
        missing  == k = 1 /\ mine = {} /\ Cardinality(readable) < NameCount(ExportHeader)
    IN  exports[k].name = {a \in IF missing THEN {0} ELSE declared : HasText(image, a)}

(* The relocation blocks follow each other without a gap or an overlap and *)
(* stay within the directory, with no more entries than their sizes allow. *)
BlocksTile ==
  LET end(k) == IF k = 0 THEN 0 ELSE blocks[k].pos + blocks[k].size
  IN  /\ \A k \in DOMAIN blocks :
           /\ blocks[k].pos = end(k - 1)
           /\ end(k) <= dir("relocation").size
           /\ 8 + 2 * Len(blocks[k].entries) <= blocks[k].size
      /\ pc \in {"blocks", "entries"} => i = end(Len(blocks))

(* Parsing ends, whatever the tables say: lists without an end, blocks of  *)
(* any size and directories that lead to each other.                       *)
TablesEnd == <>(pc = "done")
=============================================================================
