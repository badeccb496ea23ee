----------------------------- MODULE FileAnalysis -----------------------------
(***************************************************************************)
(* The commands whose result is a function of the bytes of one or two      *)
(* files: run_command() of src/src/cli/runner.cpp takes one of them.       *)
(***************************************************************************)
EXTENDS Disassembly, BinaryDiff

ASSUME InputsAssumption ==
  Inputs \subseteq Seq(Byte) \X (ByteRequest \cup DisassemblyRequest \cup DiffRequest)

allVars == <<vars, changed>>

FileInit == Init /\ changed = 0

Next == ((BytesNext \/ DisassemblyNext) /\ UNCHANGED changed) \/ DiffNext

Spec == FileInit /\ [][Next]_allVars

(* Each command reports what is in the file by its definition, in order:   *)
(* nothing is lost at the ends of the file, of a string, of a block or of  *)
(* a limit, and nothing overlaps.  The limit of "strings" holds for all    *)
(* encodings together and is used up by the first ones.                    *)
ResultsAreExact ==
  outcome = "Success" =>
    CASE request.task = "strings" -> StringsAreExact
      [] request.task = "search"  -> MatchesAreExact
      [] request.task = "regions" -> RegionsAreExact
      [] request.task = "hexdump" -> LinesAreExact
      [] request.task = "disasm"  -> BlocksAreExact
      [] request.task = "diff"    -> DiffIsExact
=============================================================================
