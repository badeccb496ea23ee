------------------------------- MODULE Options -------------------------------
(***************************************************************************)
(* parse_options() of src/src/cli/options.cpp: the loop over the command   *)
(* line and the checks that follow it.                                     *)
(*                                                                         *)
(* argv[1] is the command; the program's own name is left out.  Numbers    *)
(* are given by the table NumberOf: a text is a number if and only if      *)
(* parse_number() accepts it.                                              *)
(***************************************************************************)
EXTENDS Integers, Sequences, SequencesExt, TLC

CONSTANTS
  Text,          \* the arguments that may be given
  Dashed,        \* those that begin with '-'
  NumberOf,      \* function: those that are numbers -> their value
  CommandLines   \* the command lines to parse

ASSUME TextAssumption ==
  /\ NumberOf \in [DOMAIN NumberOf -> Nat]
  /\ DOMAIN NumberOf \subseteq Text
  /\ CommandLines \subseteq Seq(Text)

VARIABLES
  argv, index,   \* the command line and the loop's position in it
  options,       \* the Options
  positional,    \* the arguments that are no options
  verdict        \* "none" until parse_options() returns

optionVars == <<argv, index, options, positional, verdict>>

(***************************************************************************)
(* The commands, as commands.cpp classifies them                           *)
(***************************************************************************)
PECommand == {"inspect", "sections", "imports", "exports", "resources", "relocations"}
ELFCommand ==
  {"inspect", "sections", "segments", "symbols", "dynamic", "notes", "relocations"}
PEOnlyCommand == {"imports", "exports", "resources"}
ELFOnlyCommand == {"segments", "dynamic", "notes"}
AnalysisCommand == {"strings", "hexdump", "search", "regions", "size"}
DiffCommand == {"diff", "compare"}
DependencyCommand == {"deps", "dependencies", "graph"}
DisassemblyCommand == {"disasm", "disassemble"}
SymbolsCommand == {"symbols", "sym"}
DebugCommand == {"debug", "debug-info"}
CrashCommand == {"crash", "crash-analysis"}
ReportCommand == {"report", "analyze"}

SupportedCommand ==
  {"help", "version", "info", "inspect", "hash"} \cup AnalysisCommand \cup DiffCommand
    \cup DependencyCommand \cup DisassemblyCommand \cup SymbolsCommand \cup DebugCommand
    \cup CrashCommand \cup ReportCommand \cup PECommand \cup ELFCommand

(***************************************************************************)
(* The options                                                             *)
(***************************************************************************)
Flag ==
  [a \in {"--json", "--quiet", "--verbose", "--dot", "--recursive", "--from-entry"} |->
     CASE a = "--json" -> "json" [] a = "--quiet" -> "quiet" [] a = "--verbose" -> "verbose"
       [] a = "--dot" -> "dot" [] a = "--recursive" -> "recursive" [] OTHER -> "from_entry"]

TextOption ==
  [a \in {"--output", "-o", "--encoding", "--pattern", "--hex", "--text"} |->
     CASE a \in {"--output", "-o"} -> "output" [] a \in {"--pattern", "--hex"} -> "pattern"
       [] a = "--encoding" -> "encoding" [] OTHER -> "text"]

NumberOption ==
  [a \in {"--min-length", "--max-results", "--offset", "--length", "--width", "--region-min",
          "--depth", "--max-nodes", "--count", "--max-bytes"} |->
     CASE a = "--min-length" -> "min_length" [] a = "--max-results" -> "max_results"
       [] a = "--offset" -> "offset" [] a = "--length" -> "length" [] a = "--width" -> "width"
       [] a = "--region-min" -> "region_min" [] a = "--depth" -> "depth"
       [] a = "--max-nodes" -> "max_nodes" [] a = "--count" -> "count" [] OTHER -> "max_bytes"]

HelpOption == {"--help", "-h"}

ListOption == {"--search-path"}

ChoiceOption == {"--syntax"}

(* The most that --max-nodes can ask for. *)
NodeLimit == 100000

(* Mutant: zero is a width like any other. *)
InRange_ZeroWidth(field, n) ==
  CASE field = "width"      -> n <= 256
    [] field = "region_min" -> n >= 1
    [] field = "depth"      -> n <= 64
    [] field = "max_nodes"  -> 1 <= n /\ n <= NodeLimit
    [] field = "count"      -> n >= 1
    [] OTHER                -> TRUE

InRange(field, n) ==
  CASE field = "width"      -> 1 <= n /\ n <= 256
    [] field = "region_min" -> n >= 1
    [] field = "depth"      -> n <= 64
    [] field = "max_nodes"  -> 1 <= n /\ n <= NodeLimit
    [] field = "count"      -> n >= 1
    [] OTHER                -> TRUE

Encoding == {"ascii", "utf8", "utf16le", "utf16be", "all"}

Syntax == {"intel", "att"}

(* "" is the empty path, text or pattern. *)
Defaults ==
  [command |-> "", input |-> "", second_input |-> "", output |-> "",
   json |-> FALSE, quiet |-> FALSE, verbose |-> FALSE, dot |-> FALSE,
   recursive |-> FALSE, from_entry |-> FALSE, has_output |-> FALSE,
   encoding |-> "ascii", pattern |-> "", text |-> "", syntax |-> "intel",
   search_paths |-> <<>>, offset |-> 0, length |-> 0, width |-> 16, min_length |-> 4,
   max_results |-> 0, region_min |-> 16, depth |-> 8, max_nodes |-> 256,
   count |-> 100, max_bytes |-> 0]

InitOptions ==
  /\ argv \in CommandLines
  /\ index = 1
  /\ options = Defaults
  /\ positional = <<>>
  /\ verdict = "none"

Reject == verdict' = "InvalidArguments" /\ UNCHANGED <<argv, index, options, positional>>

MissingCommand ==
  /\ verdict = "none"
  /\ argv = <<>>
  /\ Reject

(* "--help" and "--version" in the place of the command.                   *)
ReadCommand ==
  /\ verdict = "none"
  /\ argv # <<>> /\ index = 1
  /\ index' = 2
  /\ LET c == argv[1]
     IN  IF c \in HelpOption \cup {"--version"}
           THEN /\ options' = [options EXCEPT !.command = IF c = "--version" THEN "version" ELSE "help"]
                /\ verdict' = "accepted"
           ELSE /\ options' = [options EXCEPT !.command = c]
                /\ UNCHANGED verdict
  /\ UNCHANGED <<argv, positional>>

(***************************************************************************)
(* The loop                                                                *)
(***************************************************************************)
Looping == verdict = "none" /\ 2 <= index /\ index <= Len(argv)
arg == argv[index]
HasValue == index + 1 <= Len(argv)
value == argv[index + 1]

Set(field, v) == options' = [options EXCEPT ![field] = v]

SetFlag ==
  /\ Looping
  /\ arg \in DOMAIN Flag
  /\ Set(Flag[arg], TRUE)
  /\ index' = index + 1
  /\ UNCHANGED <<argv, positional, verdict>>

AskForHelp ==
  /\ Looping
  /\ arg \in HelpOption
  /\ Set("command", "help")
  /\ verdict' = "accepted"
  /\ UNCHANGED <<argv, index, positional>>

SetText ==
  /\ Looping
  /\ arg \in DOMAIN TextOption
  /\ HasValue
  /\ options' = [options EXCEPT ![TextOption[arg]] = value,
                                !.has_output = @ \/ TextOption[arg] = "output"]
  /\ index' = index + 2
  /\ UNCHANGED <<argv, positional, verdict>>

(* Mutant: the last path given is the first to be searched. *)
AddSearchPath_InFront ==
  /\ Looping
  /\ arg \in ListOption
  /\ HasValue
  /\ Set("search_paths", <<value>> \o options.search_paths)
  /\ index' = index + 2
  /\ UNCHANGED <<argv, positional, verdict>>

AddSearchPath ==
  /\ Looping
  /\ arg \in ListOption
  /\ HasValue
  /\ Set("search_paths", Append(options.search_paths, value))
  /\ index' = index + 2
  /\ UNCHANGED <<argv, positional, verdict>>

SetSyntax ==
  /\ Looping
  /\ arg \in ChoiceOption
  /\ HasValue /\ value \in Syntax
  /\ Set("syntax", value)
  /\ index' = index + 2
  /\ UNCHANGED <<argv, positional, verdict>>

IsNumber(field) ==
  HasValue /\ value \in DOMAIN NumberOf /\ InRange(field, NumberOf[value])

(* Mutant: the loop stays where it is. *)
SetNumber_Stuck ==
  /\ Looping
  /\ arg \in DOMAIN NumberOption
  /\ IsNumber(NumberOption[arg])
  /\ Set(NumberOption[arg], NumberOf[value])
  /\ UNCHANGED <<argv, index, positional, verdict>>

SetNumber ==
  /\ Looping
  /\ arg \in DOMAIN NumberOption
  /\ IsNumber(NumberOption[arg])
  /\ Set(NumberOption[arg], NumberOf[value])
  /\ index' = index + 2
  /\ UNCHANGED <<argv, positional, verdict>>

BadValue ==
  /\ Looping
  /\ \/ arg \in DOMAIN TextOption \cup ListOption /\ ~HasValue
     \/ arg \in ChoiceOption /\ ~(HasValue /\ value \in Syntax)
     \/ arg \in DOMAIN NumberOption /\ ~IsNumber(NumberOption[arg])
  /\ Reject

KnownOption ==
  DOMAIN Flag \cup DOMAIN TextOption \cup DOMAIN NumberOption \cup HelpOption
    \cup ListOption \cup ChoiceOption

UnknownOption ==
  /\ Looping
  /\ arg \notin KnownOption /\ arg \in Dashed
  /\ Reject

AddPositional ==
  /\ Looping
  /\ arg \notin KnownOption /\ arg \notin Dashed
  /\ positional' = Append(positional, arg)
  /\ index' = index + 1
  /\ UNCHANGED <<argv, options, verdict>>

(***************************************************************************)
(* After the loop                                                          *)
(***************************************************************************)
AtEnd == verdict = "none" /\ 2 <= index /\ index > Len(argv)

Informational == {"help", "version"}

(* What the command needs is there. *)
Complete ==
  \/ options.command \in Informational
  \/ /\ Len(positional) = IF options.command \in DiffCommand THEN 2 ELSE 1
     /\ options.command = "strings" => options.encoding \in Encoding
     /\ options.command = "search" => options.pattern # "" \/ options.text # ""

WithInputs(o) ==
  IF o.command \in Informational THEN o
  ELSE [o EXCEPT !.input = positional[1],
                 !.second_input = IF o.command \in DiffCommand THEN positional[2] ELSE @,
                 !.json = @ /\ ~(o.command = "graph" /\ o.dot)]

Accept ==
  /\ AtEnd
  /\ Complete
  /\ options' = WithInputs(options)
  /\ verdict' = "accepted"
  /\ UNCHANGED <<argv, index, positional>>

Incomplete ==
  /\ AtEnd
  /\ ~Complete
  /\ Reject

Parse ==
  \/ MissingCommand \/ ReadCommand
  \/ SetFlag \/ AskForHelp \/ SetText \/ AddSearchPath \/ SetSyntax \/ SetNumber
  \/ BadValue \/ UnknownOption \/ AddPositional
  \/ Accept \/ Incomplete

(***************************************************************************)
(*                              PROPERTIES                                 *)
(***************************************************************************)
Option ==
  [command : Text \cup Informational \cup {""},
   input : Text \cup {""}, second_input : Text \cup {""}, output : Text \cup {""},
   json : BOOLEAN, quiet : BOOLEAN, verbose : BOOLEAN, dot : BOOLEAN,
   recursive : BOOLEAN, from_entry : BOOLEAN, has_output : BOOLEAN,
   encoding : Text \cup {"ascii"}, pattern : Text \cup {""}, text : Text \cup {""},
   syntax : Syntax, search_paths : Seq(Text), offset : Nat, length : Nat, width : Nat,
   min_length : Nat, max_results : Nat, region_min : Nat, depth : Nat, max_nodes : Nat,
   count : Nat, max_bytes : Nat]

OptionsTypeOK ==
  /\ argv \in Seq(Text)
  /\ index \in 1 .. (Len(argv) + 1)
  /\ options \in Option
  /\ positional \in Seq(Text)
  /\ verdict \in {"none", "accepted", "InvalidArguments"}

(* What the rest of the program takes for granted of accepted options,     *)
(* whatever the order in which they were given: it divides by the width,   *)
(* makes the root before it looks at max_nodes, opens the inputs and       *)
(* compares with one of pattern and text.                                  *)
AcceptedOptionsAreUsable ==
  verdict = "accepted" =>
    /\ options.width \in 1 .. 256
    /\ options.region_min >= 1 /\ options.count >= 1
    /\ options.depth <= 64
    /\ options.max_nodes \in 1 .. NodeLimit
    /\ options.command \notin Informational =>
         /\ positional # <<>> /\ options.input = positional[1]
         /\ options.command \in DiffCommand => Len(positional) = 2 /\ options.second_input = positional[2]
         /\ options.command = "strings" => options.encoding \in Encoding
         /\ options.command = "search" => options.pattern # "" \/ options.text # ""

(* Reference: which arguments are options and which are values of the      *)
(* option before them, without regard to what the options are for.         *)
TakesValue == DOMAIN TextOption \cup DOMAIN NumberOption \cup ListOption \cup ChoiceOption

IsValue(line) ==
  LET taken[k \in 1 .. Len(line)] == k > 2 /\ ~taken[k - 1] /\ line[k - 1] \in TakesValue
  IN  taken

Given(names) ==
  LET values == IsValue(argv) IN {k \in 2 .. Len(argv) : ~values[k] /\ argv[k] \in names}

LastGiven(names) == {k \in Given(names) : \A j \in Given(names) : j <= k}

Naming(table, field) == {a \in DOMAIN table : table[a] = field}

(* Reference: the place, among the search paths, of the one given at k.    *)
Place(k) == Cardinality({j \in Given(ListOption) : j <= k})

(* Each option has the value it was last given, by whichever of its names, *)
(* and its default if it was not given; only --dot on "graph" overrules    *)
(* --json.  The search paths are all that were given, in the order in      *)
(* which they were given, which is the order resolve() tries them in.  An  *)
(* option's value is never read as an option of its own.                   *)
LastOneCounts ==
  verdict = "accepted" /\ options.command \notin Informational =>
    /\ \A a \in DOMAIN Flag :
         options[Flag[a]] <=>
           /\ Given({a}) # {}
           /\ ~(a = "--json" /\ options.command = "graph" /\ Given({"--dot"}) # {})
    /\ \A field \in Range(TextOption) :
         LET last == LastGiven(Naming(TextOption, field))
         IN  IF last = {} THEN options[field] = Defaults[field]
             ELSE \A k \in last : options[field] = argv[k + 1]
    /\ \A field \in Range(NumberOption) :
         LET last == LastGiven(Naming(NumberOption, field))
         IN  IF last = {} THEN options[field] = Defaults[field]
             ELSE \A k \in last : options[field] = NumberOf[argv[k + 1]]
    /\ options.has_output = (Given({"--output", "-o"}) # {})
    /\ LET last == LastGiven(ChoiceOption)
       IN  IF last = {} THEN options.syntax = Defaults.syntax
           ELSE \A k \in last : options.syntax = argv[k + 1]
    /\ Len(options.search_paths) = Cardinality(Given(ListOption))
    /\ \A k \in Given(ListOption) : options.search_paths[Place(k)] = argv[k + 1]
=============================================================================
