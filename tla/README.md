# A formal model of binx

`binx` is a command line program that inspects executables: it reads one file (two
for `diff`), parses it as PE, ELF, Mach-O or a crash dump, and prints what it found.
It is one process with one thread. What makes it hard is not concurrency inside it but

* the **file system**, which other processes change while `binx` reads it again and
  again (the dependency walk looks for, resolves and opens every library, and opens it
  once more);
* **damaged input**: tables that are cut off, overlap, repeat or lie about their size,
  where the code goes on with what it has;
* **limits** (`--depth`, `--max-nodes`, `--max-results`, list sizes) that must cut off
  exactly what they say;
* **partial failure**: an input that opens when the other does not, a table that is
  unusable when the next is not, an exception that ends one parser after half of its
  tables, an output that fails after it looked good.

All paths below are relative to the repository; lines are those of the commit that is
modelled. The modules and configurations are in this directory; `PROJECT.json` lists
for every definition the lines of code it stands for, and for every property a mutant
of the code that it catches.

## 1. Inventory

| part | state | operations | interacts with | correct if |
|---|---|---|---|---|
| options (`src/cli/options.cpp`, `commands.cpp`) | `Options`, positional arguments, loop index | one per option, positional argument, checks after the loop | called by `main` | values and options stay in step, the last of repeated options counts, what is accepted is usable |
| runner, output (`src/cli/runner.cpp`, `io.cpp`, `main.cpp`) | loaded files, text, output stream, exit code | open inputs, analyze, write, exit | everything | exit code, output and report agree |
| file reading (`src/core/binary.cpp`) | bytes, metadata | `BinaryFile::open` | runner, dependency walk | every failure is an error code |
| dependency walk (`src/analysis/dependencies.cpp:60-67`) | nodes, ids by path, edges, queue, expanded, unresolved | `add_node`, expand, resolve, limits | file system, resolution, cycle search | the graph is what is on disk, within the limits |
| path resolution (`dependencies.cpp:47-54`) | none | `resolve`, `key_path` | file system | one file is one node |
| cycle search (`dependencies.cpp:55`) | colours, stack, cycles | `dfs` | the graph | reports are cycles, no knot is passed over |
| dependency names (`dependencies.cpp:27-46`) | none | PE, ELF, Mach-O tables | parsers | first uses of each name |
| RVA mapper (`src/formats/pe.cpp:157-160`) | sections, sizes | two conversions and a range | every PE table | there and back is the identity where tables are sound |
| PE sections, entry point (`pe.cpp:51-75, 177-182`) | sections, diagnostics | parse, check ranges, check pairs, map | mapper | damage shows in the diagnostics |
| PE tables (`pe.cpp:76-155`) | imports, exports, relocations, resources, TLS, debug, a status each | one parser each, called in turn | mapper | what is listed is in the file, what can be read is listed or complained of, one bad table spoils no other |
| ELF parser (`src/formats/elf.cpp`) | header, segments, sections, symbols, dynamic, relocations, notes, statuses | one phase each, one `try` around all | detection, runner | what the exception cuts off is not called valid |
| Mach-O, detection (`macho.cpp`, `detect.cpp`) | metadata | header tests | `BinaryFile::open` | one format per file |
| crash dumps (`src/analysis/crash.cpp`) | stream or segment reached, cursor, report | one per stream type, notes | runner | the report is wholly from the file, lists and counts agree |
| byte analysis (`src/analysis/byte_analysis.cpp`) | position, run so far, results | strings, search, regions, hexdump | runner | results are those of the definitions, up to the limit |
| disassembly (`src/analysis/disassembly.cpp`) | part reached, blocks | `decode`, one block for each executable part, `--from-entry` | parsers, mapper | instructions follow each other without a gap |
| diff (`src/analysis/diff.cpp`) | offset, hunks, counts | one hunk at a time, sections by name | runner | hunks are the longest runs of differing bytes |
| size, symbols, debug, report, hashing, text output, byte reader | none | copying, formatting, hashing | runner | - |

The hazards (`PROJECT.json`, `hazards`) say for each of these where in the code it
bites and which property covers it.

## 2. Modules

| module | what it is |
|---|---|
| `PathResolution` | a file system of files, aliases and names; `resolve()`, `key_path()`, `BinaryFile::open()` on it |
| `DependencyGraph` | `build_dependency_graph()` up to the cycle search; EXTENDS `PathResolution` |
| `GraphExploration` | the abstract specification of the walk |
| `FindCycles` | `find_cycles()` |
| `DependencyReport` | the walk, then the cycle search on the walk's graph: the whole function, on files that do not change. EXTENDS `DependencyGraph`, INSTANCEs `FindCycles` |
| `RVAMapper` | class `RVAMapper` as operators |
| `PESections` | `parse_sections()` and the rest of `parse_pe()` up to the tables; EXTENDS `RVAMapper` |
| `PEData` | how the tables see a file: directories, words and texts through the mapper |
| `PEResources` | `parse_resources()`: the walk over the resource directories; EXTENDS `PEData` |
| `PETables` | the six parsers that `parse_pe()` calls in its last line; EXTENDS `PEResources` |
| `ELFImage` | `parse_elf_image()` |
| `ByteAnalysis` | `extract_strings()`, `search_bytes()`, `classify_regions()`, `make_hexdump()` |
| `Disassembly` | `decode()`, `disassemble_x86()`, `disassemble_file()`; EXTENDS `ByteAnalysis` |
| `BinaryDiff` | `compare_binaries()`; EXTENDS `ByteAnalysis` |
| `FileAnalysis` | the commands on bytes, of which `run_command()` takes one; composes the three |
| `Options` | `parse_options()` and the command predicates |
| `Runner` | `main()`, `run_command()`, `write_command_output()`; EXTENDS `Options` |
| `CrashDump` | `analyze_crash_dump()` |
| `MC*` | the small instances for TLC |
| `*_proofs` | the theorems about the module of that name |

A definition named `<Action>_<Something>` below the comment "Mutant" is no part of the
model: it is the same definition with a plausible bug, and the run that checks the
property named with it in `PROJECT.json` fails when it takes the place of the original.

### The dependency walk

`disk` is the file system: every file is absent, unreadable or readable with the list
of names it needs. `ChangeFile` lets another process replace any `Volatile` file by one
of its `Versions` between any two steps. A step of the model is therefore one look at the
disk and what follows from it up to the next (lines of `dependencies.cpp`):

| action | look |
|---|---|
| `ReadRoot`, `ReadRootFails` | the root is read (61) |
| `KeyRoot` | `key_path()` of the root (47, called at 64) |
| `AddRoot`, `AddRootFails` | the root is opened for its node (64) |
| `Dequeue` | the next node is opened and its names are listed (65); one that does not open has none |
| `TakeName` | none: the next name of the node in hand |
| `TryNext`, `Found`, `ReportUnresolved` | `is_regular_file()` of one candidate of `resolve()` (52); `ReportUnresolved` when there is none left |
| `ResolveThere`, `ResolveGone` | `weakly_canonical()` of the candidate that was found, its first look: is it there? (52) |
| `Resolve` | its second look: the real path |
| `LinkKnown`, `LimitExceeded`, `MakeKey` | `key_path()` of the result (47, called at 63): it has a node, it needs one and there is no room, or its node is to be made |
| `LinkNew`, `SkipUnopenable` | the file is opened for its node (63) |

`Finish` ends the loop. A link is followed only while there is a file at its end
(`Canonical`, `Dangles`): whoever asks for the real path while the file is away gets the
path of the link. A file that is taken away and put back can thus have a node under its
own path and one under that of a link to it, which is why `NodesAreDistinct` says of a
file with two nodes that it can vanish and that one of the two is a link's. The links
themselves and the directories do not change while `binx` runs. Node ids start at 1 here
and at 0 in the code. Names of one file are unique by name (all of one file have one
kind).

`GraphExploration` says what remains when order, queue and file system are forgotten:
the graph grows from the root, one link per name and file, at most `MaxNodes` files, and
one final verdict. `KeepsPromises` is that `DependencyGraph` implements it, with
`known` the set of node paths and `links` the set of edges as triples.

### The cycle search

`Start` takes a graph, `Enter` is the call of `dfs` for the next white node of the outer
loop, `PassEdge`, `Descend`, `CloseCycle` and `Leave` are the body of `dfs` on one edge
or at its end; the recursion is the pair of sequences `path` (the nodes of the active
calls, which is also the variable `stack` of the code) and `scan` (each call's position
in the edge list).

### PE sections

`image` is what the headers said. `ReadSection`/`EndOfTable` read the table,
`CheckRanges` and `CheckOverlaps` are the two loops of checks (an iteration of the outer
loop is one step), then `CheckHeaders`, `MapEntryPoint`, `MapDirectory`. `RvaLimit` is
2^32 in the code; the 64-bit sums of the code are modelled with their width
(`OffsetLimit`).

### PE tables

An image is its directories, its mapper and its content: `words` gives the numbers that
matter by their file offset, in the width in which they are read, all others are zero;
`texts` are the offsets at which a terminated text stands. `Fetch` and `Window` are the
reads through the mapper, with a set of at most one result as the `optional` of the code.

The lambda `walk` of `parse_resources()` calls itself. `stack` holds the active calls
that are in their loop, each with the number of its next entry; `call` is a call that
has been made and has not got there: it is refused (`TooDeep`, `TooMany`, `SeenBefore`,
`HeaderMissing`, `ArrayOutside`, one action for each early return, in the order of the
code) or becomes the top of the stack (`OpenDirectory`). `visited` is never shortened, in
the code as in the model, so a directory is walked once. A path is the sequence of the
entries that lead to an item.

In `PETables`, `pc` is the table whose parser is called next, or the loop it is in;
`i` and `j` are the loop counters. Each parser is entered, finds its directory absent or
unmapped, or runs its loop with one action per iteration and outcome; `Leave` sets the
status and calls the next parser. The resources are the actions of `PEResources`, run
at their place (`ParseResources`).

### ELF

The phases of `parse_elf_image()` are the values of `pc`. Each loop has an action for an
iteration and one for its end; `n` and `k` are the outer and inner counters. A read
outside of the file is `Throw`, which records `ELF_PARSE_EXCEPTION` and ends everything,
as the one handler around all phases does; reads that the code guards have their
diagnostics instead. The statuses are set where the code sets them, which is before the
end of some loops. `WordLimit` (2^32) is where the padded size of a note wraps around.

### Commands on bytes

`data` is the file and `request` the command with its options. `pass` is the encoding,
the part or the only pass there is; `i` the position, `start` and `found` the run that
is being collected, `result` what was found and `outcome` what the handler returned. One
action is one iteration of a loop with one outcome. `decode()` is an operator: the
length of the instruction at the start of some bytes, whether it is known, and whether
it has a mnemonic. What the parsers say of executable sections is part of the request
(`parts`), with the sections' addresses as the parsers give them. With `--from-entry`, `i`
then counts the blocks of `result` looked at and `found` holds those that are shown.

### Options and runner

`Options` takes one argument per step. Numbers are a table from texts to values; the
text itself is a string that nothing looks into, and `Dashed` is the set of those that
begin with a dash. `Runner` composes it with the rest, from the command line to the exit
code: `OpenInput` and its failures for each input in order, `Analyze` / `AnalysisFails`
for the command's analysis, whose possible results depend on command and kind of file
(`Outcomes`), `OpenOutput`, `Write`, `Flush` and the exit. An input that was opened for
writing (`--output` naming it) is empty from then on. A short text stays in the stream's
buffer until `Flush`, whose failure the code does not see; a long one reaches the device
in `Write` or fails there (`WriteFails`), which the code does see.

### Crash dumps

A dump is a magic number, a size and the numbers at the offsets that matter, everything
else being zero. `AtStream` actions are one turn of the stream loop; a list is read
record by record. `AtSegment` and the note actions are the two loops of
`parse_elf_core()`. A record of the report is represented by the offset it was copied
from, so that "the report is from the file" can be said.

## 3. What the runs show

| run | instance | states | question |
|---|---|---|---|
| `races` | 4 files, 6 names, 3 aliases, all files volatile, two links, depth 2, 3 nodes | 165 864 | does the graph stay sound under changing files, and does the walk end? |
| `cycles` | all graphs of at most 3 nodes and 4 edges | 157 161 | what is reported as a cycle |
| `report` | 5 files in all combinations of their versions, depth 2, 4 nodes | 7 080 | is the report exactly what is on disk? |
| `sections` | all tables of at most 3 of 8 section shapes, addresses below 8 | 958 896 | mapping, overlaps, entry point |
| `tables` | one table per file, in many states of damage, mapped flat or with a hole | 86 312 | is what is listed in the file, and what is lost but can be read announced? |
| `elf` | up to five sections within, across and behind the end of the file | 165 582 | what does the exception leave behind? |
| `elf_names` | files with two whole symbol tables | - | finding 2 |
| `runner` | every command on 7 kinds of file and 3 failures to open, every command line of a small vocabulary on one file, and repeated `--search-path`, `--syntax` and `--json`; 5 outputs, full and free device | 1 022 674 | are options, exit code, output and report in agreement? |
| `runner_lost` | same | - | finding 1 |
| `crash` | all directories of up to 3 of 10 streams, all sequences of up to 3 of 6 notes in two segments, several sizes | 96 305 | is the report from the file, are lists and counts right? |
| `files` | all files of up to 5 bytes of 4 kinds, code of three instructions cut off anywhere, all pairs of files of up to 4 bytes | 1 123 894 | do the commands on bytes compute what they are defined to? |
| `files_entry` | same | - | finding 3 |

The properties, by what they are about:

* `NodesAreDistinct`, `EveryNodeIsNeeded`, `NoDependencyTwice`, `QueueIsByDepth`: the
  graph under races. No file that stays where it is has two nodes, by whatever links and
  names it was reached, although each node's key is made by looks at other moments than
  those that found and opened its file. `GraphIsComplete`, `UnresolvedIsExact`, `LimitIsGenuine`,
  `CyclesAreExact`: the whole report compared with reachability on disk, when the disk
  stays as it is. The first two are false of a walk in any other order, since the depth
  limit would then be applied on a longer way than the shortest: that is what
  `QueueIsByDepth` is for.
* `StackIsThePath`, `ReportedCyclesAreReal`, `EveryKnotIsReported`. The code does not
  report every cycle: of two cycles through the same nodes one can be missing when the
  node at which they part was finished before. What it does guarantee is that each
  strongly connected part with a cycle shows at least one.
* `MappingIsReversible`: where the checks found nothing (`Clean`), an RVA and its file
  offset determine each other. `OverlapsAreReported` gives `Clean` its meaning.
  `EntryIsInItsSection` relates two searches that the code makes with different
  conditions.
* `ItemsAreReal`, `EveryEntryOnce`, `NothingReadableIsLost`, `RepeatsAreReported`: the
  resource walk against its paths in the file. A directory that has a header was walked
  or is complained of, because it was given up at a limit or because its entries do not
  fit; of each that was walked, the directories that can be reached were come to and the
  data that can be read are in the report. What cannot be read is passed over in silence,
  and nothing is promised of it: see section 5. A "cycle" is reported exactly of the
  directories that more than one entry leads to, but for those that were given up.
  `TablesAreJudged`: each status follows from its own table. `ImportsEndForAReason`,
  `ExportNamesAreDeclared`, `BlocksTile`: where a loop stops early, something in the
  file or a limit made it stop; a relocation block begins where the last one ended.
* `TablesAreListed`: the lists of an ELF file have the entries of its tables, none twice,
  out of order or from elsewhere; once a part is called valid, no entry of a usable table
  that lies in the file is missing; tables over the limit and entries behind the end of
  the file are announced, and what is not valid is absent or cut off by an announced
  exception. Usable is a table with an entry size and, for symbols, a link to a section:
  others are left out of a valid part and no diagnostic says so, which is an item of
  section 5 and no promise of the property. `RelocationsNameSymbols` relates numbers in
  one table to places in another. `NotesTile`: each note begins where the last one ended
  and ends within its section, but for sizes that wrap around; that it ends within the
  file is not true (section 5).
* `ResultsAreExact`: strings, matches, regions, lines, blocks and hunks, each against a
  definition by quantifiers: order, longest runs, no gap, no overlap, the limit used up
  by the first ones.
* `AcceptedOptionsAreUsable` lists what the rest of the program relies on;
  `LastOneCounts` compares the parser with a definition that does not run through the
  arguments, for flags, texts, numbers, `--syntax`, and the values and the order of the
  search paths, which is the order in which `resolve()` tries them. `OutputAgreesWithExit`, `ReportIsOfTheInputs`, `DamageIsNoSuccess`: the
  program as a whole.
* `ReportIsFromTheFile`, `ListsAreOfTheLastStreams`, `ThreadsAreCounted`,
  `VerdictIsJustified`: the crash report against its definition from the bytes.

### Bounds

The limits of the program are small values, so that each is met and exceeded: `MaxDepth`
and `MaxNodes` of the dependency walk (8 and 256 by default) are 2 and 3 or 4, with chains
of files longer than `MaxDepth + 1` and more files than `MaxNodes`; `MaxEntries` of the
crash dumps (4096) is 3, `MaxDepth` and `MaxNodes` of the resources (32 and 100000) are 2
and 4 with three directories that lead to each other, `MaxThunks`, `MaxExports` and
`MaxCallbacks` are 2, `MaxSymbols` is 6, `MaxHunks` (256) is 1.

`RvaLimit` is 2^32 in the code. It is 8 in `sections`: three sections of one to three
addresses in eight can be apart, touch, overlap, nest and run over the end. It is 256 in
`tables`, with files of up to 160 bytes, so that sums of an address and a size reach it;
`PageSize` is 16. `WordLimit`, the width in which the sizes of ELF notes are padded, is
256. `MaxSize` and `MaxEdges` bound the graphs: three nodes and four edges contain loops,
parallel edges, two cycles sharing a node or an edge, and cycles that are reached late.
`MaxAny` and `MaxFrequent` bound command lines: four arguments are two options with
values, or an option that swallows another one as its value twice. `MaxRepeated` lets
three search paths and choices of a syntax follow each other, with an option's name among
the values. `MaxSize` of
`files` bounds the bytes: five are two characters of two bytes and one left over, two
overlapping matches, or three regions. Code has longer instructions and so files of its
own.

Sums of 64-bit file offsets, addresses and sizes are taken not to overflow in
`ELFImage`, `Disassembly` and `BinaryDiff` (the comments there say which). No counter is
cut off.

### Fairness

`DependencyGraph`, `DependencyReport`, `PETables` and `Runner` assume weak fairness of
the program's own next step and nothing else; `GraphExploration` assumes it of ending.
`binx` is one thread that never waits for anything but the operating system, so it takes
its next step as long as it has one. No fairness is assumed of `ChangeFile`: other
processes may change files for ever or never. Liveness is that the loops end:
`Termination`, `ReportIsMade`, `TablesEnd`, `Exits`. `Termination` holds although files
change all the time because nodes are never expanded twice and never more than
`MaxNodes`; `TablesEnd` holds although directories loop because none is walked twice.
The other modules have no liveness property and no fairness. Deadlock is not checked
since the program really stops.

## 4. What is proved

By TLAPS, for every value of the constants that satisfies the modules' `ASSUME`s (any
files, names and aliases, any limits, any set of graphs, images or dumps):

* `DependencyReport_proofs`, first for the walk however the files change meanwhile:
  `[]TypeOK`, `[]NodesAreDistinct`, `[]EveryNodeIsNeeded`, `[]NoDependencyTwice`,
  `[]QueueIsByDepth`, and that there are never more than `MaxNodes` nodes.
  Most of these are not inductive alone. `IInv` adds `ControlOK` (which variables are in
  use at which `pc`: an empty graph has no edges and no work, the node in hand is
  expanded), `KeysAreSound` (what may be in hand as a target or a key between two looks:
  a link only if the file at its end was seen and can vanish, and a key that is about to
  be made is not in the graph) and `TodoIsNew`: the names of the current node that are still to be handled
  are first uses and have no edge yet, and edges only leave expanded nodes. Without it a
  second expansion, or a name listed twice, could not be excluded. `QueueIsByDepth` is
  kept because only `current.depth + 1` is ever enqueued, at the end.
  `Refines` is `Spec => Exploration!Safety`: each step of the walk maps to a step of the
  abstract exploration or to none: `LinkNew` and `LinkKnown` to `Follow`, `Finish` to
  `Complete`. It rests on `IInv`; that a followed name has no link yet is `TodoIsNew`
  together with the distinct keys of `KeysAreSound`, since links are by key and edges by id.
  Then for the report, while the files stay as they are: `[]GraphIsComplete`,
  `[]UnresolvedIsExact`, `[]LimitIsGenuine`, `[]CyclesAreExact`. `WalkInv` relates the
  graph to the reference: every name of an expanded file has its link, is in `unresolved`
  or is still to come (`NamesAreHandled`); depths in the queue are lengths of ways
  (`FoundIsThere`); and the walk goes from level to level, so that all files within the
  current distance are expanded or waiting (`LevelsInOrder`). The
  reference `Within` is a recursive function; that it is the function its equation
  describes is shown first (`Levels`). `CyclesAreExact` carries the theorems about
  `FindCycles` over to the graph the walk made: an instance of that module's proofs for
  the nodes and edges in hand. Through the graph, `CyclesOnDisk` says the same of the files: a
  reported cycle visits no file twice, and on disk each of its files needs the next.
  `ReportExplores` is the refinement for the whole report: the search, too, is no step of
  the exploration.
  `WalkRunsOut`: at each step of the walk a measure of six numbers descends
  lexicographically (the stage, the nodes there is still room for, the names left of the
  node in hand, the looks left of the name in hand, its candidates left, the queue), and a
  change on disk leaves it alone; so no walk goes on for ever, whatever the files do.
* `FindCycles_proofs`: `[]TypeOK`, `[]StackIsThePath`, `[]ReportedCyclesAreReal`,
  `[]EveryKnotIsReported`. Cycles are real because what is cut out of the stack is a path,
  its nodes are distinct and the edge in hand closes it; for this the gray nodes must be
  exactly those of the stack. No knot is missed (`KnotInv`): an edge that a loop has
  passed leads to a finished node or to the next call, or it closed a cycle
  (`PassedAreSeen`); so when a node on a cycle is left, the first edge of that cycle leads
  to a finished node of the same knot, which is reported (`LeavingReports`). `Reaches` is
  said by closed sets: n reaches m if every set that holds what n needs, and all that its
  members need, holds m. `SearchRunsOut`: each step makes the measure smaller (the white
  nodes, the roots left, the path, the edges left of its last node).
* `PESections_proofs`: `[]TypeOK`, `[]OverlapsAreReported`, `[]EntryIsInItsSection` and
  `[]MappingIsReversible`, for any number of sections and any `RvaLimit`. `IInv` records
  what the checks have established so far: `RangesAreRecorded` and `PairsAreRecorded`
  (each section and pair already passed has its diagnostic), `RawOverlapsAreReal` (no
  other raw overlap is reported), `EntryIsLookedUp` (both results are those of the final
  mapper). The mapping is then a lemma on ranges: in a clean table at most one section
  holds an address or an offset, so the first that does is the same both ways.
* `PETables_proofs` has the walk over the resources first, for directories linked in any
  way: types, `[]ItemsAreReal`, `[]EveryEntryOnce`, `[]NothingReadableIsLost`,
  `[]RepeatsAreReported`. The key is that an entry its loop has passed is settled
  (`PassedAreSettled`): its item is in the report, its directory is visited, being
  entered or active, or there is a complaint. `ControlOK` and `StackIsOfVisited` tie the
  active calls to `visited`, `PathsAreReal` says that each path in the state is one of
  the file, `ItemsArePassed` that an item's last entry is one its loop has passed, and
  since a directory is entered only once, an entry is passed only once. When the stack is
  empty every entry of every visited directory is passed; with `ArraysAreSaid` (a visited
  directory whose entries do not fit has its complaint) this is `NothingReadableIsLost`.
  `RepeatsInv` counts the ways the walk has come to a directory (`Ways`): a visited one
  has one, but for the way in hand; if there is a complaint it has two, and if it has
  two there is a complaint or it was given up at a limit.
  Addresses of complaints tell directories apart because offsets have 31 bits and the sum
  has 32. `ResourcesRunOut` is the measure of the walk: the stage, the directories not yet
  visited, those in hand, the entries left of the one in hand, the call that is open.
  Then `Spec => SpecResources` (each step of the parsers is a step of the walk or leaves
  its variables alone), and with it those theorems for `parse_pe()`;
  `[]TablesAreJudged`, from an invariant that says of each table whether its parser has
  been called and what its status may be at each `pc`; `[]BlocksTile`, from the place of
  the block in hand; `[]ImportsEndForAReason` (`ImportsInv`: libraries and symbols
  correspond one to one to descriptors and thunks passed, and a list that is left has
  ended at a zero or has its complaint); `[]ExportNamesAreDeclared` (`ExportsInv`: the
  names read so far have the first declared name, the others still none).
* `ELFImage_proofs`: types, `[]TablesAreListed`, `[]RelocationsNameSymbols`,
  `[]NotesTile`. An entry that the loops over sections and entries have passed is in its
  list (`SymbolsSoFar`, `DynamicSoFar`, `RelocationsSoFar`), and the parts follow each
  other (`PartsInOrder`), so that a list is complete when its status is set. What is in a
  list is an entry of a usable table, in order and before the cursor of the loops
  (`SymbolsListed`, `RelocationsListed`), so that nothing comes twice. Tables passed that
  are over the limit are reported (`LargeSoFar`), and a section that leaves the file was
  reported when it was read (`RangesReported`), before any table is looked at. With one
  table of symbols, read without a gap, the place in the list is the symbol's number
  (`SymbolsByNumber`). The note cursor is where the last note of the section ends
  (`NotesSoFar`), unless the 64-bit sum has wrapped around.
* `Runner_proofs`: `[]OutputAgreesWithExit`, `[]ReportIsOfTheInputs`,
  `[]DamageIsNoSuccess`, for every command line and every input. `RunInv` says what is
  the case at each stage; above all that nothing is opened for writing before the
  analysis is over and that the options do not change after the parser's verdict. This
  is why `--output` may name an input. `[]AcceptedOptionsAreUsable`, from the stronger
  fact that each number with a limit is within it at all times, not only once the
  options are accepted (`Limits`): no later argument can spoil what an earlier one set.
  `[]LastOneCounts`: the loop never stands at a value (`LoopInv`), and each option is the
  one last given before `index`, or its default; a search path stands at the place its
  option has among those given. Which words are values is a recursive
  function of the line; that it exists is `ValuesExist`.
* `CrashDump_proofs`: types, `[]ReportIsFromTheFile`, `[]ListsAreOfTheLastStreams`,
  `[]VerdictIsJustified`, `[]ThreadsAreCounted`. While a list is read, what is in hand and
  what is left add up to what its stream declares, and the cursor is where the next record would be
  (`InHand`); a list of a type that is not in hand is that of the last stream before
  `entry` (`ListsOK`); something was seen exactly if there is something to be seen up to
  `entry` (`SawOK`). That a list ends for want of file exactly at its reference length is
  `WholeList`. For the threads, the cursor is at one of the places where notes of the
  segment begin, and no note that begins before it ends behind it (`NotesOK`); so there
  is none between a note and the next (`Between`), and each step passes one note. The
  count is the number of thread notes passed (`ThreadsOK`). The reference steps at most
  size / 12 times, which reaches all notes because none is shorter than 12
  (`StartsFacts`).

* `FileAnalysis_proofs`: `[]ResultsAreExact`, for every file and every option of six
  commands. The invariant says of each command that what its loop has found is, at every
  step, what is there by definition up to the place it has reached: matches at places
  passed, in order and up to the limit (`SearchInv`); lines that fill the dump so far
  (`HexdumpInv`); maximal runs of one kind and the run being collected (`RegionsInv`);
  for strings both the encoding in hand (`ScanOK`: all strings that begin before the
  place, none of which goes on behind it) and those done (`PassedOK`), whose results stand in
  the list in their order until it is full; for `diff` the maximal runs passed, counted
  also when there is no room for them (`HunksOK`), and of the sections one entry for each
  name that both sides or one of them has (`DiffReported`); for `disasm` one block for
  each part passed (`AddedOK`) and then those the entry point lies in (`EnteredOK`).
  That the instructions of a block follow each other without a gap is kept by each step
  of the recursion (`OneMoreOK`, `ReadIsOK`). That a block's end changes nothing of what
  is known (`DecodedAlone`) is a fact about `decode()`: it looks at no byte behind an
  instruction that it knows and has a name for, and where its second byte is cut off it
  knows none. `EntryCorrect` (`[]EntryIsShown`) is the other side of finding 3: while the
  image base is 0, a file that is disassembled from its entry point shows the instruction
  there; the base is all that stands in the way.

Where a reference is recursive, the proofs show that the function exists and use it
through sets: of the numbers for which it were not defined one would be the least
(`LeastNumber`, from the well-foundedness of the natural numbers), and what holds at the
start and is kept by a step holds all the way (`Climbing`).

The assumptions are those of the modules: limits are numbers, `SearchPath` is a sequence
of directories, `Graphs` are successor lists over their own nodes, numbers read from a
file are natural and of their width. None bounds the size of an instance.

Only model-checked: all liveness (`Termination`, `ReportIsMade`, `TablesEnd`, `Exits`),
and with it the fairness part of `KeepsPromises`, since it needs ENABLED and the temporal
prover knows nothing of it. For the dependency walk, the search and the walk over the
resources the measures above are proved for all constants; what TLC adds is that a step is
taken as long as one is possible. Every invariant that a passing run checks is also the
statement of a theorem. The properties of the runs that expect a violation are false and
have none.

## 5. Where code and documents disagree

1. **`runner_lost`**: output that is lost in the final flush (`io.cpp:14`, `io.cpp:26`)
   leaves exit code 0; `docs/v0.1.md:49,53` give 4 to output failures.
   `binx version --output /dev/full` shows it.
2. **`elf_names`**: symbols of all tables form one list, and a relocation's symbol number
   indexes it whatever table the relocation's section is linked to (`elf.cpp:47`).
   `docs/v0.3.md:37` promises the resolved name. In the run both symbol tables are whole,
   and a relocation linked to the second one gets the name of a symbol of the first.
3. **`files_entry`**: `disassemble_file()` compares the entry point, an RVA in a PE image,
   with addresses that include the image base (`disassembly.cpp:46`). `docs/v0.6.md:20`:
   `--from-entry` takes the region that contains the entry point and starts to decode at
   that address. In the run the base is 3, the entry point 9 and the code begins at
   RVA 4: the block, at addresses 7 to 13, holds 9, so the code at file offset 2, whose
   RVA is 6, is shown as address 9, while the entry point is at offset 5. With the usual
   bases, which are larger than any RVA of the image, no block holds the entry point and
   nothing is shown.

Seen while reading, without a run of their own:

* a library that exists and cannot be opened is neither a node nor an unresolved name
  (`dependencies.cpp:65`), although `CHANGELOG.md:70` announces "unresolved-dependency
  reporting";
* one file can become two nodes: a link whose target is away for the moment in which
  `weakly_canonical()` asks for it (`dependencies.cpp:47`, `52`) keeps its own path as its
  key, and the same file gets another node under its real path later
  (`NodesAreDistinct` excludes it for files that cannot vanish);
* `PE_SECTION_VA_OVERFLOW` (`pe.cpp:68`) cannot be emitted: the sum of two 32-bit numbers
  is computed and tested in 64 bits. `docs/v0.2.md:201` lists the check;
* `map_rva_range` (`pe.cpp:160`) maps a range by its first address, so that a directory
  that runs into a section's virtual tail is taken to be the bytes that follow in the
  file. `docs/v0.2.md:163` excludes this;
* what becomes of a directory given as input depends on the file system: one that reports
  the largest size ends the program with an uncaught exception (`binary.cpp:23`), one that
  reports none or a small size is an empty file or an error (`OpenInputAborts`,
  `OpenInput`, `OpenInputFails` in `Runner`);
* `inspect` of a file that begins with `MZ` but is no PE image exits with 0 where
  `sections` exits with 5 (the exception in `DamageIsNoSuccess`);
* headers that overlap sections are not diagnosed (the condition on `image.headers` in
  `Clean`), and empty sections can be reported as overlapping in memory, which is why
  `OverlapsAreReported` is an equivalence only for the raw ranges;
* the mapper accepts an offset equal to the file size;
* parts of the resources that cannot be read are lost without a diagnostic: a child
  directory whose header is outside of the file (`pe.cpp:131`), entries that
  are (133), data that is (135); `NothingReadableIsLost` is silent about them;
* a resource directory shared by two entries is reported as a cycle (`pe.cpp:130`), and
  the limit on nodes skips directories without ending the walk;
* when entries of the name table cannot be read, the first exported function can get the
  text at RVA 0 as its name (`pe.cpp:112-113`);
* in 32-bit ELF files the value of a symbol and the address of a section are read from
  the places of other fields, and the flag W of a section is shown as X;
* the ELF statuses: symbols are valid although the section table could not be read,
  relocations from the end of their first table on. A symbol table whose entry size is 0
  or which is linked to no section is skipped; the status is valid and no diagnostic tells of it
  (`elf.cpp:42`), where `docs/v0.3.md:19` says that invalid structures generate
  diagnostics; a note that crosses its section's end is skipped likewise;
* the place where a note's descriptor ends is tested against the section and not against
  the file before it is copied (`elf.cpp:49`); `docs/v0.3.md:19` excludes reads that are
  out of bounds. In the model it is the exception `DescriptorBeyond`;
* a dynamic entry outside the file makes the ELF parser skip relocations and notes
  (`elf.cpp:45`, `50`);
* `strings` finds UTF-16 text at even offsets only, and its limit is used up by the first
  encoding;
* a `mov` whose number is cut off is listed as a valid instruction without a mnemonic
  instead of `db` (`disassembly.cpp:27`, `docs/v0.6.md:26`); `--max-bytes` can cut off the
  entry point that `--from-entry` looks for;
* `symbols` never reaches the ELF table command; `inspect --verbose` prints nothing;
* `--help` after `--output` or `--quiet` obeys them;
* a minidump's lists are not bounded by the size of their stream, and any ELF note of
  type 1 counts as a thread, whatever its name.

## 6. Not modelled

* Mach-O and format detection: sequences of header tests without state; their outcome is
  a kind of file in `Runner`. The header fields of PE images likewise.
* Which bytes of a file hold the names of its dependencies (`pe_deps`, `elf_deps`,
  `macho_deps`); the walk is given a file's list of names.
* Operands, mnemonics and branch targets of instructions: tables without control.
* `analyze_size()`, the similarity of `diff`, symbols, debug information and report:
  copies and quotients of what the parsers found.
* Hashing, text and JSON output, and the byte reader, which no parser uses.
* Files larger than the build can hold, and exceptions from memory exhaustion other than
  the one a directory causes.

## 7. Plan

Done: the dependency analysis with its abstract specification; PE sections, mapper and
tables; ELF; crash dumps; the commands on bytes; options and runner as one program.

What could follow, in this order: descending measures for the other parsers, as they are
there for the two walks and the search; the names of dependencies taken from `PETables`
and `ELFImage`, so that the walk and the parsers are one model; `analyze_size()`
against the sections it sums.
