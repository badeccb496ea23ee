------------------------------ MODULE MCRunner ------------------------------
(***************************************************************************)
(* Command lines of two sorts.  Those of MCRuns meet files of every kind:  *)
(* each command (one of each group of aliases), and outputs to nowhere, to *)
(* a new file, to an input and to a path that does not open.  Those of     *)
(* MCParses meet one readable file, and have options of every kind, values *)
(* that are options themselves, and numbers at and beyond the limits: all  *)
(* of up to MaxAny arguments after the command, those of up to MaxFrequent *)
(* arguments from a smaller set, and an input with up to MaxRepeated       *)
(* options that may be given again and again.                              *)
(***************************************************************************)
EXTENDS Runner

CONSTANTS MaxAny, MaxFrequent, MaxRepeated

MCNumberOf == ("0" :> 0) @@ ("9" :> 9) @@ ("64" :> 64) @@ ("0x101" :> 257)

MCCommand == (SupportedCommand \ {"compare", "dependencies", "disassemble", "sym", "debug-info",
                                  "crash-analysis", "analyze"}) \cup {"bogus"}

MCParsed == {"diff", "graph", "strings", "search", "--help", "help"}

MCFrequent ==
  {"--json", "--dot", "--output", "-o", "--encoding", "--width", "--search-path", "0", "64", "utf8"}

MCArgument ==
  MCFrequent \cup {"--quiet", "--hex", "--depth", "--syntax", "--max-nodes", "-h", "-x", "0x101", "att", "f"}

MCText ==
  MCCommand \cup MCParsed \cup MCArgument
    \cup {"g", "o", "dir/o", "90", "9", "zz", "intel", "--recursive", "--offset", "--text", "--bad"}

MCDashed == (KnownOption \cap MCText) \cup {"-x", "--bad"}

Options0 == {<<>>, <<"--quiet">>, <<"--output", "o">>, <<"--output", "f">>, <<"--output", "dir/o">>}
Options1 == {<<>>, <<"--recursive">>, <<"--offset", "9">>, <<"--hex", "90">>, <<"--hex", "zz">>,
             <<"--text", "zz">>, <<"--bad">>}

MCRuns ==
  {<<c>> \o inputs \o a \o b : c \in MCCommand, inputs \in {<<"f">>, <<"f", "g">>},
                              a \in Options0, b \in Options1}

Lists(arguments, length) == UNION {[1 .. n -> arguments] : n \in 0 .. length}

MCRepeated ==
  {<<o, v>> : o \in {"--search-path", "--syntax"}, v \in {"intel", "att", "--syntax"}} \cup {<<"--json">>}

MCParses ==
  {<<>>} \cup {<<c>> \o rest : c \in MCParsed, rest \in Lists(MCArgument, MaxAny)}
    \cup {<<c>> \o rest : c \in MCParsed \ {"--help", "help"}, rest \in Lists(MCFrequent, MaxFrequent)}
    \cup {<<"graph", "f">> \o FlattenSeq(given) : given \in Lists(MCRepeated, MaxRepeated)}

MCCommandLines == MCRuns \cup MCParses

content(kind, size) == [status |-> "readable", kind |-> kind, size |-> size]
absent == [status |-> "absent", kind |-> "Raw", size |-> 0]
locked == [status |-> "unreadable", kind |-> "Raw", size |-> 0]
directory == [status |-> "directory", kind |-> "Raw", size |-> 0]

fileSystem(f, g) == [t \in MCText |-> CASE t = "f" -> f [] t = "g" -> g [] OTHER -> absent]

MCWorlds(line) ==
  {[files |-> fileSystem(content("ELF", 12), absent), device |-> "free"]} \cup
  {[files |-> fileSystem(f, g), device |-> d] :
     f \in {content(k, 12) : k \in {x \in Kind : line \in MCRuns}}
            \cup {x \in {content("Raw", 5), absent, locked, directory} : line \in MCRuns},
     g \in {content("ELF", 12), absent}, d \in Device}

MCHexPattern == {"90"}
MCCreatable == {"f", "g", "o"}
=============================================================================
