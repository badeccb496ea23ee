-------------------------------- MODULE Runner --------------------------------
(***************************************************************************)
(* main(): parse_options(), then run_command() of src/src/cli/runner.cpp   *)
(* with BinaryFile::open() and write_command_output(), up to the exit      *)
(* code.  An analysis is what it may return for the kind of file at hand;  *)
(* what it reports is abstracted to the files it is about.                 *)
(*                                                                         *)
(* A written text first goes to a stream's buffer.  A short one stays      *)
(* there until the stream is destroyed (std::cout when the process exits), *)
(* and nothing looks at the result of the flush that happens then.         *)
(***************************************************************************)
EXTENDS Options

CONSTANTS
  Worlds(_),     \* what a command line may meet: the files, a function from
                 \* Text to Content, and whether the output can take data
  HexPattern,    \* the patterns parse_hex_pattern() accepts
  Creatable      \* the paths at which an output file can be opened

(* "MZ" is a file that begins like a PE image but is not recognised as one,*)
(* "BadPE" one that is recognised although its headers are cut short.      *)
Kind == {"PE", "BadPE", "MZ", "ELF", "Mach-O", "Minidump", "Raw"}

Content ==
  [status : {"absent", "unreadable", "directory", "readable"}, kind : Kind, size : Nat]

Device == {"free", "full"}

ASSUME RunnerAssumption ==
  /\ \A line \in CommandLines : Worlds(line) \subseteq [files : [Text -> Content], device : Device]
  /\ HexPattern \subseteq Text
  /\ Creatable \subseteq Text

VARIABLES
  files,      \* the files as they were when binx was started
  device,     \* "full": the output can take no data
  stage,      \* what run_command() does next
  loaded,     \* the files that were read
  report,     \* the files the text is about: a set of at most one sequence
  truncated,  \* the paths opened for writing
  output,     \* what has become of the text
  exitCode    \* -1 while binx runs

runVars == <<files, device, stage, loaded, report, truncated, output, exitCode>>
vars == <<optionVars, runVars>>

ErrorCode ==
  [Ok |-> 0, General |-> 1, InvalidArguments |-> 2, FileNotFound |-> 3, FileAccess |-> 4,
   InvalidBinary |-> 5, UnsupportedFormat |-> 6, Analysis |-> 7]

(* What the shell sees of a process that an exception nobody caught ended. *)
Aborted == 134

Init ==
  /\ InitOptions
  /\ \E world \in Worlds(argv) : files = world.files /\ device = world.device
  /\ stage = "start"
  /\ loaded = <<>> /\ report = {}
  /\ truncated = {} /\ output = "untouched"
  /\ exitCode = -1

Exit(code) == stage' = "exit" /\ exitCode' = ErrorCode[code]

(***************************************************************************)
(* Opening the inputs                                                      *)
(***************************************************************************)
Empty == [status |-> "readable", kind |-> "Raw", size |-> 0]

ContentOf(path) == IF path \in truncated THEN Empty ELSE files[path]

OpenError(path) == IF ContentOf(path).status = "absent" THEN "FileNotFound" ELSE "FileAccess"

ArgumentsRejected ==
  /\ stage = "start" /\ verdict = "InvalidArguments"
  /\ Exit("InvalidArguments")
  /\ UNCHANGED <<optionVars, files, device, loaded, report, truncated, output>>

UnknownCommand ==
  /\ stage = "start" /\ verdict = "accepted"
  /\ options.command \notin SupportedCommand
  /\ Exit("InvalidArguments")
  /\ UNCHANGED <<optionVars, files, device, loaded, report, truncated, output>>

(* The text of "help" and "version" is about no file. *)
Inform ==
  /\ stage = "start" /\ verdict = "accepted"
  /\ options.command \in Informational
  /\ report' = {<<>>}
  /\ stage' = "emit"
  /\ UNCHANGED <<optionVars, files, device, loaded, truncated, output, exitCode>>

(* Mutant: the output is opened first, to see early that it cannot be.     *)
StartCommand_OutputFirst ==
  /\ stage = "start" /\ verdict = "accepted"
  /\ options.command \in SupportedCommand \ Informational
  /\ stage' = "open"
  /\ truncated' = IF options.has_output /\ options.output \in Creatable
                    THEN {options.output} ELSE {}
  /\ UNCHANGED <<optionVars, files, device, loaded, report, output, exitCode>>

StartCommand ==
  /\ stage = "start" /\ verdict = "accepted"
  /\ options.command \in SupportedCommand \ Informational
  /\ stage' = "open"
  /\ UNCHANGED <<optionVars, files, device, loaded, report, truncated, output, exitCode>>

Inputs ==
  IF options.command \in DiffCommand THEN <<options.input, options.second_input>>
  ELSE <<options.input>>

NextInput == Inputs[Len(loaded) + 1]

(* A directory opens too.  What it says of its size is up to the file      *)
(* system: no number, a number of bytes that cannot be read, none at all,  *)
(* so that it is read like an empty file, or the largest number there is.  *)
OpenInput ==
  /\ stage = "open" /\ Len(loaded) < Len(Inputs)
  /\ \/ ContentOf(NextInput).status = "readable"
     \/ ContentOf(NextInput) = [Empty EXCEPT !.status = "directory"]
  /\ loaded' = Append(loaded, ContentOf(NextInput))
  /\ stage' = IF Len(loaded') = Len(Inputs) THEN "analyze" ELSE "open"
  /\ UNCHANGED <<optionVars, files, device, report, truncated, output, exitCode>>

OpenInputFails ==
  /\ stage = "open" /\ Len(loaded) < Len(Inputs)
  /\ ContentOf(NextInput).status \in {"absent", "unreadable", "directory"}
  /\ Exit(OpenError(NextInput))
  /\ UNCHANGED <<optionVars, files, device, loaded, report, truncated, output>>

(* No storage can be had for a directory of the largest size, and the      *)
(* exception is not caught.                                                *)
OpenInputAborts ==
  /\ stage = "open" /\ Len(loaded) < Len(Inputs)
  /\ ContentOf(NextInput).status = "directory"
  /\ stage' = "exit" /\ exitCode' = Aborted
  /\ UNCHANGED <<optionVars, files, device, loaded, report, truncated, output>>

(***************************************************************************)
(* The analyses: what each command may return.  A file recognised as PE or *)
(* ELF is never refused by the parser of its format.                       *)
(***************************************************************************)
file == loaded[1]
IsPE == file.kind \in {"PE", "BadPE"}
IsELF == file.kind = "ELF"
HeaderDamaged == file.kind \in {"BadPE", "MZ"}

(* Commands that show the tables of one format; parse_pe() takes what is   *)
(* neither ELF nor refused before.                                         *)
FormatSpecific ==
  CASE options.command \in PEOnlyCommand  -> IF IsPE THEN {"Ok"} ELSE {"UnsupportedFormat"}
    [] options.command \in ELFOnlyCommand -> IF IsELF THEN {"Ok"} ELSE {"UnsupportedFormat"}
    [] options.command \in {"sections", "relocations"} ->
         IF IsELF \/ IsPE \/ file.kind = "MZ" THEN {"Ok"} ELSE {"UnsupportedFormat"}
    [] OTHER -> {"Ok"}   \* info, inspect

Outcomes ==
  LET c == options.command
  IN  CASE c = "graph" \/ (c \in DependencyCommand /\ options.recursive) ->
             {"Ok", "Analysis", "FileNotFound"}
        [] c = "hexdump" -> IF options.offset > file.size THEN {"InvalidArguments"} ELSE {"Ok"}
        [] c = "search" ->
             IF options.pattern # "" /\ options.pattern \notin HexPattern
               THEN {"InvalidArguments"} ELSE {"Ok"}
        [] c \in CrashCommand ->
             IF file.kind \in {"ELF", "Minidump"} THEN {"Ok", "InvalidBinary"}
             ELSE {"UnsupportedFormat"}
        [] c \in SymbolsCommand \cup DebugCommand ->
             IF IsPE \/ IsELF THEN {"Ok"} ELSE {"UnsupportedFormat"}
        [] c = "hash" -> {"Ok", "Analysis"}
        [] c \in (PECommand \cup ELFCommand \cup {"info"}) \ SymbolsCommand -> FormatSpecific
        [] OTHER -> {"Ok"}   \* report, diff, deps, strings, regions, size, disasm

Analyze ==
  /\ stage = "analyze"
  /\ "Ok" \in Outcomes
  /\ report' = {loaded}
  /\ stage' = "emit"
  /\ UNCHANGED <<optionVars, files, device, loaded, truncated, output, exitCode>>

(* Mutant: the text has been written when the failure shows. *)
AnalysisFails_Late ==
  /\ stage = "analyze"
  /\ \E code \in Outcomes \ {"Ok"} : Exit(code)
  /\ output' = "written"
  /\ UNCHANGED <<optionVars, files, device, loaded, report, truncated>>

AnalysisFails ==
  /\ stage = "analyze"
  /\ \E code \in Outcomes \ {"Ok"} : Exit(code)
  /\ UNCHANGED <<optionVars, files, device, loaded, report, truncated, output>>

(***************************************************************************)
(* write_command_output()                                                  *)
(***************************************************************************)
StayQuiet ==
  /\ stage = "emit" /\ options.quiet
  /\ stage' = "written"
  /\ UNCHANGED <<optionVars, files, device, loaded, report, truncated, output, exitCode>>

OpenOutput ==
  /\ stage = "emit" /\ ~options.quiet
  /\ options.has_output => options.output \in Creatable
  /\ IF options.has_output
       THEN truncated' = truncated \cup {options.output} /\ output' = "truncated"
       ELSE UNCHANGED <<truncated, output>>
  /\ stage' = "write"
  /\ UNCHANGED <<optionVars, files, device, loaded, report, exitCode>>

OpenOutputFails ==
  /\ stage = "emit" /\ ~options.quiet
  /\ options.has_output /\ options.output \notin Creatable
  /\ Exit("FileAccess")
  /\ UNCHANGED <<optionVars, files, device, loaded, report, truncated, output>>

(* The text fits into the buffer, or the device takes it. *)
Write ==
  /\ stage = "write"
  /\ \/ output' = "buffered"
     \/ device = "free" /\ output' = "written"
  /\ stage' = "flush"
  /\ UNCHANGED <<optionVars, files, device, loaded, report, truncated, exitCode>>

WriteFails ==
  /\ stage = "write"
  /\ device = "full"
  /\ output' = "lost"
  /\ Exit("FileAccess")
  /\ UNCHANGED <<optionVars, files, device, loaded, report, truncated>>

Flush ==
  /\ stage = "flush"
  /\ output' = IF output = "written" \/ device = "free" THEN "written" ELSE "lost"
  /\ stage' = "written"
  /\ UNCHANGED <<optionVars, files, device, loaded, report, truncated, exitCode>>

(* The text of a PE command is out before its header is judged.            *)
ParsedAsPE ==
  /\ options.command \in PECommand \cup ELFCommand
  /\ options.command \notin SymbolsCommand
  /\ IsPE \/ (options.command # "inspect" /\ ~IsELF)

(* Mutant: once the text is out the command has succeeded. *)
Return_Always ==
  /\ stage = "written"
  /\ Exit("Ok")
  /\ UNCHANGED <<optionVars, files, device, loaded, report, truncated, output>>

Return ==
  /\ stage = "written"
  /\ IF options.command \notin Informational /\ ParsedAsPE /\ HeaderDamaged
       THEN Exit("InvalidBinary") ELSE Exit("Ok")
  /\ UNCHANGED <<optionVars, files, device, loaded, report, truncated, output>>

Run ==
  \/ ArgumentsRejected \/ UnknownCommand \/ Inform \/ StartCommand
  \/ OpenInput \/ OpenInputFails \/ OpenInputAborts \/ Analyze \/ AnalysisFails
  \/ StayQuiet \/ OpenOutput \/ OpenOutputFails \/ Write \/ WriteFails \/ Flush \/ Return

ParseArguments == Parse /\ UNCHANGED runVars

Next == ParseArguments \/ Run

(* One thread runs from main() to its return. *)
Spec == Init /\ [][Next]_vars /\ WF_vars(Next)

(***************************************************************************)
(*                              PROPERTIES                                 *)
(***************************************************************************)
TypeOK ==
  /\ OptionsTypeOK
  /\ files \in [Text -> Content]
  /\ device \in Device
  /\ stage \in {"start", "open", "analyze", "emit", "write", "flush", "written", "exit"}
  /\ loaded \in Seq(Content)
  /\ report \subseteq Seq(Content)
  /\ truncated \subseteq Text
  /\ output \in {"untouched", "truncated", "buffered", "written", "lost"}
  /\ exitCode \in {-1, Aborted} \cup {ErrorCode[c] : c \in DOMAIN ErrorCode}

(* What happens to the output agrees with the exit code: a wrong command   *)
(* line, a missing input, a wrong format, a failed analysis and an abort   *)
(* leave the output alone, and success means that the text went to the     *)
(* stream unless --quiet was given.                                        *)
OutputAgreesWithExit ==
  /\ exitCode \in {2, 3, 6, 7, Aborted} => output = "untouched" /\ truncated = {}
  /\ exitCode = 0 => (output = "untouched" <=> options.quiet)
  /\ exitCode # -1 /\ device = "free" => output \in {"untouched", "written"}

(* The report is about the inputs as they were before, even when --output  *)
(* names one of them.                                                      *)
ReportIsOfTheInputs ==
  \A r \in report : r # <<>> =>
    /\ Len(r) = Len(Inputs)
    /\ \A k \in DOMAIN r : r[k] = files[Inputs[k]]

(* A PE image with damaged headers is no success for the commands that     *)
(* show its tables, although they print what they found ("inspect" of a    *)
(* file it does not recognise describes the file instead).                 *)
DamageIsNoSuccess ==
  exitCode = 0 /\ loaded # <<>> /\ options.command \in PECommand /\ HeaderDamaged =>
    options.command = "inspect" /\ file.kind = "MZ"

(* docs/v0.1.md: "0 success", "4 file access/output failure".  Success     *)
(* means that nothing of the text was lost.                                *)
SuccessMeansWritten == exitCode = 0 => output # "lost"

(* binx comes to an end. *)
Exits == <>(stage = "exit")
=============================================================================
