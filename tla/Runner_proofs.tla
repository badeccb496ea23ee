---------------------------- MODULE Runner_proofs ----------------------------
(***************************************************************************)
(* Proofs about binx from the command line to the exit code, for every     *)
(* command line and whatever files and output device it meets.  The        *)
(* argument: nothing is opened for writing before the analysis is over,    *)
(* and the options do not change once they are accepted.  Of the options   *)
(* it is shown that every number with a limit is within it at all times,   *)
(* and that each is the one last given before the argument in hand.        *)
(***************************************************************************)
EXTENDS Runner, SequenceTheorems, FiniteSetTheorems, WellFoundedInduction, TLAPS

(* What is the case at each stage. *)
ProgressOK ==
  /\ stage \in {"start", "open", "analyze", "emit", "write", "flush", "written", "exit"}
  /\ stage # "start" => verdict # "none"
  /\ stage # "exit" => exitCode = -1
  /\ stage \in {"start", "open", "analyze"} => report = {}
  /\ stage \in {"start", "open", "analyze", "emit"} => output = "untouched" /\ truncated = {}
  /\ stage \in {"write", "flush"} => ~options.quiet
  /\ stage = "write" => output \in {"untouched", "truncated"}
  /\ stage = "flush" => output \in {"buffered", "written"}
  /\ stage = "written" =>
       /\ output = "untouched" <=> options.quiet
       /\ output \in {"untouched", "written"} \/ (output = "lost" /\ device # "free")

(* The files read so far, and those of the report, are the inputs.         *)
InputsOK ==
  /\ \E S : loaded \in Seq(S)
  /\ stage = "start" => loaded = <<>>
  /\ Len(loaded) <= Len(Inputs)
  /\ stage = "open" => Len(loaded) < Len(Inputs)
  /\ stage = "analyze" => Len(loaded) = Len(Inputs)
  /\ \A k \in DOMAIN loaded : loaded[k] = files[Inputs[k]]
  /\ files \in [Text -> Content]

RunInv == ProgressOK /\ InputsOK /\ OutputAgreesWithExit /\ ReportIsOfTheInputs /\ DamageIsNoSuccess

(* There are one or two inputs. *)
LEMMA InputsFacts == Len(Inputs) \in {1, 2} /\ (options' = options => Inputs' = Inputs)
<1>1. \A a, b : Len(<<a, b>>) = 2 /\ Len(<<a>>) = 1
  OBVIOUS
<1> QED
  BY <1>1 DEF Inputs

(* parse_options() changes nothing else, and only before its verdict.      *)
LEMMA ParseOnly == Parse => verdict = "none"
BY DEF Parse, MissingCommand, ReadCommand, SetFlag, AskForHelp, SetText, AddSearchPath, SetSyntax, SetNumber,
   BadValue, UnknownOption, AddPositional, Accept, Incomplete, Looping, AtEnd

LEMMA RunInit == Init => RunInv
<1> SUFFICES ASSUME Init PROVE RunInv
  OBVIOUS
<1>1. files \in [Text -> Content]
  BY RunnerAssumption DEF Init, InitOptions
<1>2. Len(loaded) = 0 /\ loaded \in Seq(Nat) /\ DOMAIN loaded = {}
  BY DEF Init
<1>3. ProgressOK /\ OutputAgreesWithExit /\ ReportIsOfTheInputs /\ DamageIsNoSuccess
  BY DEF Init, ProgressOK, OutputAgreesWithExit, ReportIsOfTheInputs, DamageIsNoSuccess, Aborted
<1>4. InputsOK
  BY <1>1, <1>2, InputsFacts DEF InputsOK, Init
<1> QED
  BY <1>3, <1>4 DEF RunInv

LEMMA ParseKeeps ==
  ASSUME RunInv, ParseArguments
  PROVE  RunInv'
<1>1. verdict = "none" /\ UNCHANGED runVars
  BY ParseOnly DEF ParseArguments
<1>2. stage = "start" /\ stage' = "start" /\ exitCode' = -1 /\ report' = {} /\ loaded' = <<>>
      /\ output' = "untouched" /\ truncated' = {} /\ files' \in [Text -> Content]
  BY <1>1 DEF RunInv, ProgressOK, InputsOK, runVars
<1>3. ProgressOK' /\ OutputAgreesWithExit' /\ ReportIsOfTheInputs' /\ DamageIsNoSuccess'
  BY <1>2 DEF ProgressOK, OutputAgreesWithExit, ReportIsOfTheInputs, DamageIsNoSuccess, Aborted
<1>4. Len(loaded') = 0 /\ loaded' \in Seq(Nat) /\ DOMAIN loaded' = {}
  BY <1>2
<1>5. Len(Inputs)' \in {1, 2}
  <2>1. \A a, b : Len(<<a, b>>) = 2 /\ Len(<<a>>) = 1
    OBVIOUS
  <2> QED
    BY <2>1 DEF Inputs
<1>6. InputsOK'
  BY <1>2, <1>4, <1>5 DEF InputsOK
<1> QED
  BY <1>3, <1>6 DEF RunInv

(* A sequence of anything, and one more. *)
LEMMA AppendFacts ==
  ASSUME NEW S, NEW s \in Seq(S), NEW x
  PROVE  /\ Len(s) \in Nat /\ DOMAIN s = 1 .. Len(s)
         /\ Append(s, x) \in Seq(S \cup {x}) /\ Len(Append(s, x)) = Len(s) + 1
         /\ DOMAIN Append(s, x) = 1 .. (Len(s) + 1)
         /\ Append(s, x)[Len(s) + 1] = x /\ \A k \in 1 .. Len(s) : Append(s, x)[k] = s[k]
<1> DEFINE T == S \cup {x}
<1>1. s \in Seq(T)
  BY SeqMonotonic
<1>2. x \in T
  OBVIOUS
<1> HIDE DEF T
<1>3. /\ Len(s) \in Nat /\ DOMAIN s = 1 .. Len(s)
      /\ Append(s, x) \in Seq(T) /\ Len(Append(s, x)) = Len(s) + 1
      /\ DOMAIN Append(s, x) = 1 .. (Len(s) + 1)
      /\ Append(s, x)[Len(s) + 1] = x /\ \A k \in 1 .. Len(s) : Append(s, x)[k] = s[k]
  BY <1>1, <1>2
<1> QED
  BY <1>3 DEF T

(* The steps that open the inputs. *)
LEMMA OpenKeeps ==
  ASSUME RunInv, StartCommand \/ OpenInput
  PROVE  RunInv'
<1> DEFINE l == Len(loaded)
<1>1. /\ UNCHANGED <<optionVars, files, device, report, truncated, output, exitCode>>
      /\ stage \in {"start", "open"} /\ verdict # "none"
  BY DEF StartCommand, OpenInput, RunInv, ProgressOK
<1>2. options' = options /\ verdict' = verdict
  BY <1>1 DEF optionVars
<1>3. exitCode' = -1 /\ report' = {} /\ output' = "untouched" /\ truncated' = {}
  BY <1>1 DEF RunInv, ProgressOK
<1>4. Inputs' = Inputs /\ Len(Inputs) \in {1, 2}
  BY <1>2, InputsFacts
<1>5. PICK S : loaded \in Seq(S)
  BY DEF RunInv, InputsOK
<1>6. CASE StartCommand
  <2>1. stage' = "open" /\ loaded' = loaded /\ loaded = <<>>
    BY <1>6 DEF StartCommand, RunInv, InputsOK
  <2>2. Len(loaded) = 0 /\ DOMAIN loaded = {}
    BY <2>1
  <2>3. InputsOK'
    BY <1>1, <1>4, <1>5, <2>1, <2>2 DEF InputsOK, RunInv
  <2>4. ProgressOK' /\ OutputAgreesWithExit' /\ ReportIsOfTheInputs' /\ DamageIsNoSuccess'
    BY <1>1, <1>2, <1>3, <2>1 DEF ProgressOK, OutputAgreesWithExit, ReportIsOfTheInputs, DamageIsNoSuccess,
       Aborted
  <2> QED
    BY <2>3, <2>4 DEF RunInv
<1>7. CASE OpenInput
  <2> DEFINE new == ContentOf(NextInput)
  <2>1. /\ stage = "open" /\ l < Len(Inputs)
        /\ loaded' = Append(loaded, new)
        /\ stage' = IF Len(loaded') = Len(Inputs) THEN "analyze" ELSE "open"
    BY <1>4, <1>7 DEF OpenInput
  <2>2. new = files[Inputs[l + 1]]
    BY <2>1 DEF ContentOf, NextInput, RunInv, ProgressOK
  <2>3. /\ l \in Nat /\ DOMAIN loaded = 1 .. l
        /\ loaded' \in Seq(S \cup {new}) /\ Len(loaded') = l + 1 /\ DOMAIN loaded' = 1 .. (l + 1)
        /\ loaded'[l + 1] = new /\ \A k \in 1 .. l : loaded'[k] = loaded[k]
    <3> HIDE DEF new
    <3> QED
      BY <1>5, <2>1, AppendFacts
  <2>4. \A k \in DOMAIN loaded' : loaded'[k] = files[Inputs[k]]
    <3>1. \A k \in 1 .. l : loaded[k] = files[Inputs[k]]
      BY <1>5 DEF RunInv, InputsOK
    <3> HIDE DEF new, l
    <3>2. ASSUME NEW k \in 1 .. (l + 1) PROVE loaded'[k] = files[Inputs[k]]
      <4>1. CASE k = l + 1
        BY <2>2, <2>3, <4>1
      <4>2. CASE k \in 1 .. l
        BY <2>3, <3>1, <4>2
      <4> QED
        BY <2>3, <3>2, <4>1, <4>2
    <3> QED
      BY <2>3, <3>2
  <2>5. \A k \in DOMAIN loaded' : loaded'[k] = files'[Inputs'[k]]
    BY <1>1, <1>4, <2>4
  <2>6. /\ stage' \in {"open", "analyze"}
        /\ stage' = "open" => Len(loaded') < Len(Inputs)
        /\ stage' = "analyze" => Len(loaded') = Len(Inputs)
        /\ Len(loaded') <= Len(Inputs)
    BY <1>4, <2>1, <2>3
  <2>7. \E T : loaded' \in Seq(T)
    BY <2>3
  <2>8. InputsOK'
    <3>1. files' \in [Text -> Content] /\ Len(Inputs)' = Len(Inputs)
      BY <1>1, <1>4 DEF RunInv, InputsOK
    <3> QED
      BY <2>5, <2>6, <2>7, <3>1 DEF InputsOK
  <2>9. ProgressOK' /\ OutputAgreesWithExit' /\ ReportIsOfTheInputs' /\ DamageIsNoSuccess'
    BY <1>1, <1>2, <1>3, <2>6 DEF ProgressOK, OutputAgreesWithExit, ReportIsOfTheInputs, DamageIsNoSuccess,
       Aborted
  <2> QED
    BY <2>8, <2>9 DEF RunInv
<1> QED
  BY <1>1, <1>6, <1>7

(* No analysis fails for lack of access, and none with success.            *)
LEMMA OutcomeFacts ==
  \A code \in Outcomes \ {"Ok"} : ErrorCode[code] \in {2, 3, 5, 6, 7}
<1>1. FormatSpecific \subseteq {"Ok", "UnsupportedFormat"}
  BY DEF FormatSpecific
<1>2. Outcomes \subseteq {"Ok", "InvalidArguments", "FileNotFound", "Analysis", "InvalidBinary", "UnsupportedFormat"}
  BY <1>1 DEF Outcomes
<1> QED
  BY <1>2 DEF ErrorCode

(* What is known once all inputs were read. *)
LEMMA LaterInputs ==
  ASSUME RunInv, UNCHANGED <<optionVars, files, loaded>>, stage' \notin {"start", "open", "analyze"}
  PROVE  InputsOK' /\ Inputs' = Inputs /\ options' = options /\ verdict' = verdict
<1>1. options' = options /\ verdict' = verdict
  BY DEF optionVars
<1>2. Inputs' = Inputs
  BY <1>1, InputsFacts
<1> QED
  BY <1>1, <1>2 DEF RunInv, InputsOK

(* The steps that end the run before anything was written. *)
LEMMA FailureKeeps ==
  ASSUME RunInv,
         \/ ArgumentsRejected \/ UnknownCommand \/ OpenInputFails \/ OpenInputAborts
         \/ AnalysisFails \/ OpenOutputFails
  PROVE  RunInv'
<1>1. /\ UNCHANGED <<optionVars, files, device, loaded, report, truncated, output>>
      /\ stage' = "exit" /\ verdict # "none" /\ stage \in {"start", "open", "analyze", "emit"}
      /\ exitCode' \in {2, 3, 4, 5, 6, 7, Aborted}
  <2>1. CASE ArgumentsRejected \/ UnknownCommand
    BY <2>1 DEF ArgumentsRejected, UnknownCommand, Exit, ErrorCode
  <2>2. CASE OpenInputFails
    BY <2>2 DEF OpenInputFails, OpenError, Exit, ErrorCode, RunInv, ProgressOK
  <2>3. CASE OpenInputAborts
    BY <2>3 DEF OpenInputAborts, RunInv, ProgressOK
  <2>4. CASE AnalysisFails
    BY <2>4, OutcomeFacts DEF AnalysisFails, Exit, RunInv, ProgressOK
  <2>5. CASE OpenOutputFails
    BY <2>5 DEF OpenOutputFails, Exit, ErrorCode, RunInv, ProgressOK
  <2> QED
    BY <2>1, <2>2, <2>3, <2>4, <2>5
<1>2. InputsOK' /\ Inputs' = Inputs /\ options' = options /\ verdict' = verdict
  BY <1>1, LaterInputs
<1>3. output' = "untouched" /\ truncated' = {}
  BY <1>1 DEF RunInv, ProgressOK
<1>4. ProgressOK' /\ OutputAgreesWithExit' /\ DamageIsNoSuccess'
  BY <1>1, <1>2, <1>3 DEF ProgressOK, OutputAgreesWithExit, DamageIsNoSuccess, Aborted
<1>5. ReportIsOfTheInputs'
  BY <1>1, <1>2 DEF RunInv, ReportIsOfTheInputs
<1> QED
  BY <1>2, <1>4, <1>5 DEF RunInv

(* The text is made. *)
LEMMA ReportKeeps ==
  ASSUME RunInv, Inform \/ Analyze
  PROVE  RunInv'
<1>1. /\ UNCHANGED <<optionVars, files, device, loaded, truncated, output, exitCode>>
      /\ stage' = "emit" /\ verdict # "none" /\ stage \in {"start", "analyze"}
      /\ report' = {<<>>} \/ (stage = "analyze" /\ report' = {loaded})
  BY DEF Inform, Analyze, RunInv, ProgressOK
<1>2. InputsOK' /\ Inputs' = Inputs /\ options' = options /\ verdict' = verdict
  BY <1>1, LaterInputs
<1>3. output' = "untouched" /\ truncated' = {} /\ exitCode' = -1
  BY <1>1 DEF RunInv, ProgressOK
<1>4. ProgressOK' /\ OutputAgreesWithExit' /\ DamageIsNoSuccess'
  BY <1>1, <1>2, <1>3 DEF ProgressOK, OutputAgreesWithExit, DamageIsNoSuccess, Aborted
<1>5. ReportIsOfTheInputs'
  BY <1>1, <1>2 DEF RunInv, InputsOK, ReportIsOfTheInputs
<1> QED
  BY <1>2, <1>4, <1>5 DEF RunInv

(* The text is written, and the command returns. *)
LEMMA WriteKeeps ==
  ASSUME RunInv, StayQuiet \/ OpenOutput \/ Write \/ WriteFails \/ Flush
  PROVE  RunInv'
<1>1. /\ UNCHANGED <<optionVars, files, device, loaded, report>>
      /\ stage' \in {"write", "flush", "written", "exit"} /\ verdict # "none"
  BY DEF StayQuiet, OpenOutput, Write, WriteFails, Flush, Exit, RunInv, ProgressOK
<1>2. InputsOK' /\ Inputs' = Inputs /\ options' = options /\ verdict' = verdict
  BY <1>1, LaterInputs
<1>3. ReportIsOfTheInputs'
  BY <1>1, <1>2 DEF RunInv, ReportIsOfTheInputs
<1>4. CASE WriteFails
  <2>1. stage' = "exit" /\ exitCode' = 4 /\ device' # "free"
    BY <1>1, <1>4 DEF WriteFails, Exit, ErrorCode
  <2>2. ProgressOK' /\ OutputAgreesWithExit' /\ DamageIsNoSuccess'
    BY <1>1, <1>2, <2>1 DEF ProgressOK, OutputAgreesWithExit, DamageIsNoSuccess, Aborted
  <2> QED
    BY <1>2, <1>3, <2>2 DEF RunInv
<1>5. CASE StayQuiet \/ OpenOutput \/ Write \/ Flush
  <2>1. exitCode' = -1 /\ stage' # "exit"
    BY <1>5 DEF StayQuiet, OpenOutput, Write, Flush, RunInv, ProgressOK
  <2>2. ProgressOK'
    BY <1>1, <1>2, <1>5, <2>1 DEF StayQuiet, OpenOutput, Write, Flush, RunInv, ProgressOK
  <2>3. OutputAgreesWithExit' /\ DamageIsNoSuccess'
    BY <2>1 DEF OutputAgreesWithExit, DamageIsNoSuccess, Aborted
  <2> QED
    BY <1>2, <1>3, <2>2, <2>3 DEF RunInv
<1> QED
  BY <1>4, <1>5

LEMMA ReturnKeeps ==
  ASSUME RunInv, Return
  PROVE  RunInv'
<1>1. /\ UNCHANGED <<optionVars, files, device, loaded, report, truncated, output>>
      /\ stage = "written" /\ stage' = "exit" /\ verdict # "none"
      /\ exitCode' = IF options.command \notin Informational /\ ParsedAsPE /\ HeaderDamaged THEN 5 ELSE 0
  BY DEF Return, Exit, ErrorCode, RunInv, ProgressOK
<1>2. InputsOK' /\ Inputs' = Inputs /\ options' = options /\ verdict' = verdict
  BY <1>1, LaterInputs
<1>3. ReportIsOfTheInputs'
  BY <1>1, <1>2 DEF RunInv, ReportIsOfTheInputs
<1>4. ProgressOK' /\ OutputAgreesWithExit'
  BY <1>1, <1>2 DEF RunInv, ProgressOK, OutputAgreesWithExit, Aborted
<1>5. DamageIsNoSuccess'
  <2> SUFFICES ASSUME exitCode' = 0, options.command \in PECommand, HeaderDamaged
               PROVE  options.command = "inspect" /\ file.kind = "MZ"
    BY <1>1, <1>2 DEF DamageIsNoSuccess, HeaderDamaged, file
  <2>1. ~ParsedAsPE
    BY <1>1 DEF Informational, PECommand
  <2>2. ~IsPE /\ (options.command = "inspect" \/ IsELF)
    BY <2>1 DEF ParsedAsPE, PECommand, SymbolsCommand
  <2> QED
    BY <2>2 DEF HeaderDamaged, IsPE, IsELF
<1> QED
  BY <1>2, <1>3, <1>4, <1>5 DEF RunInv

LEMMA RunInductive == Spec => []RunInv
<1>1. RunInv /\ [Next]_vars => RunInv'
  <2> SUFFICES ASSUME RunInv, [Next]_vars PROVE RunInv'
    OBVIOUS
  <2>1. CASE UNCHANGED vars
    <3>1. UNCHANGED <<options, verdict, runVars>> /\ Inputs' = Inputs
      BY <2>1, InputsFacts DEF vars, optionVars
    <3>2. ProgressOK' /\ InputsOK'
      BY <3>1 DEF runVars, RunInv, ProgressOK, InputsOK
    <3>3. OutputAgreesWithExit' /\ ReportIsOfTheInputs'
      BY <3>1 DEF runVars, RunInv, OutputAgreesWithExit, ReportIsOfTheInputs
    <3>4. DamageIsNoSuccess'
      BY <3>1 DEF runVars, RunInv, DamageIsNoSuccess, HeaderDamaged, file
    <3> QED
      BY <3>2, <3>3, <3>4 DEF RunInv
  <2> QED
    BY <2>1, ParseKeeps, OpenKeeps, FailureKeeps, ReportKeeps, WriteKeeps, ReturnKeeps DEF Next, Run
<1> QED
  BY <1>1, RunInit, PTL DEF Spec

(* The output is what the exit code says, for all of main(). *)
THEOREM OutputCorrect == Spec => []OutputAgreesWithExit
<1>1. RunInv => OutputAgreesWithExit
  BY DEF RunInv
<1> QED
  BY <1>1, RunInductive, PTL

(* A report is about the inputs as they were, whatever --output names. *)
THEOREM ReportCorrect == Spec => []ReportIsOfTheInputs
<1>1. RunInv => ReportIsOfTheInputs
  BY DEF RunInv
<1> QED
  BY <1>1, RunInductive, PTL

(* Damaged headers of a PE image are no success for the commands on it.    *)
THEOREM DamageCorrect == Spec => []DamageIsNoSuccess
<1>1. RunInv => DamageIsNoSuccess
  BY DEF RunInv
<1> QED
  BY <1>1, RunInductive, PTL

(***************************************************************************)
(* The options                                                             *)
(***************************************************************************)
Limited == {"width", "region_min", "count", "depth", "max_nodes"}

(* The numbers that an option with a limit may have. *)
Allowed(field) == {n \in Nat : InRange(field, n)}

(* The limits hold all the time, not only for accepted options.            *)
Limits(o) ==
  /\ o = [field \in DOMAIN Defaults |-> o[field]]
  /\ \A field \in Limited : o[field] \in Allowed(field)

OptionsInv == Limits(options) /\ AcceptedOptionsAreUsable

LEMMA NodeLimitFacts == NodeLimit \in Nat /\ 256 <= NodeLimit
BY DEF NodeLimit

LEMMA AllowedFacts ==
  /\ Allowed("width") = 1 .. 256
  /\ Allowed("region_min") = Nat \ {0}
  /\ Allowed("count") = Nat \ {0}
  /\ Allowed("depth") = 0 .. 64
  /\ Allowed("max_nodes") = 1 .. NodeLimit
<1>1. Allowed("width") = 1 .. 256
  BY DEF Allowed, InRange
<1>2. Allowed("region_min") = Nat \ {0}
  BY DEF Allowed, InRange
<1>3. Allowed("count") = Nat \ {0}
  BY DEF Allowed, InRange
<1>4. Allowed("depth") = 0 .. 64
  BY DEF Allowed, InRange
<1>5. Allowed("max_nodes") = 1 .. NodeLimit
  BY NodeLimitFacts DEF Allowed, InRange
<1> QED
  BY <1>1, <1>2, <1>3, <1>4, <1>5

(* No flag and no text is one of the numbers with a limit. *)
LEMMA TableFacts ==
  /\ \A a \in DOMAIN Flag : Flag[a] \notin Limited
  /\ \A a \in DOMAIN TextOption : TextOption[a] \notin Limited
  /\ Limited \subseteq DOMAIN Defaults
<1>1. \A a \in DOMAIN Flag : Flag[a] \notin Limited
  BY DEF Flag, Limited
<1>2. \A a \in DOMAIN TextOption : TextOption[a] \notin Limited
  BY DEF TextOption, Limited
<1>3. Limited \subseteq DOMAIN Defaults
  BY DEF Limited, Defaults
<1> QED
  BY <1>1, <1>2, <1>3

LEMMA DefaultsOK == InitOptions => OptionsInv
<1> SUFFICES ASSUME InitOptions PROVE OptionsInv
  OBVIOUS
<1>1. options = Defaults /\ verdict = "none"
  BY DEF InitOptions
<1>2. Defaults = [field \in DOMAIN Defaults |-> Defaults[field]]
  BY DEF Defaults
<1>3. /\ Defaults["width"] = 16 /\ Defaults["region_min"] = 16 /\ Defaults["count"] = 100
      /\ Defaults["depth"] = 8 /\ Defaults["max_nodes"] = 256
  BY DEF Defaults
<1>4. /\ 16 \in Allowed("width") /\ 16 \in Allowed("region_min") /\ 100 \in Allowed("count")
      /\ 8 \in Allowed("depth") /\ 256 \in Allowed("max_nodes")
  BY AllowedFacts, NodeLimitFacts
<1>5. \A field \in Limited : Defaults[field] \in Allowed(field)
  BY <1>3, <1>4 DEF Limited
<1> QED
  BY <1>1, <1>2, <1>5 DEF OptionsInv, Limits, AcceptedOptionsAreUsable

(* A field is set that has no limit, or to a number within its limit. *)
LEMMA SettingKeeps ==
  ASSUME NEW o, Limits(o), NEW field, NEW v, field \in Limited => v \in Allowed(field)
  PROVE  Limits([o EXCEPT ![field] = v])
<1> DEFINE n == [o EXCEPT ![field] = v]
<1>1. DOMAIN o = DOMAIN Defaults
  BY DEF Limits
<1>2. n = [f \in DOMAIN o |-> IF f = field THEN v ELSE o[f]]
  OBVIOUS
<1>3. n = [f \in DOMAIN Defaults |-> IF f = field THEN v ELSE o[f]]
  BY <1>1, <1>2
<1> HIDE DEF n
<1>4. n = [f \in DOMAIN Defaults |-> n[f]]
  BY <1>3
<1>5. \A f \in Limited : n[f] = IF f = field THEN v ELSE o[f]
  BY <1>3, TableFacts
<1>6. \A f \in Limited : n[f] \in Allowed(f)
  BY <1>5 DEF Limits
<1>7. Limits(n)
  BY <1>4, <1>6 DEF Limits
<1> QED
  BY <1>7 DEF n

(* The limits are those that the rest of the program relies on. *)
LEMMA LimitsSuffice ==
  ASSUME NEW o, Limits(o)
  PROVE  /\ o.width \in 1 .. 256
         /\ o.region_min >= 1 /\ o.count >= 1
         /\ o.depth <= 64
         /\ o.max_nodes \in 1 .. NodeLimit
<1>1. /\ o["width"] \in Allowed("width") /\ o["region_min"] \in Allowed("region_min")
      /\ o["count"] \in Allowed("count") /\ o["depth"] \in Allowed("depth")
      /\ o["max_nodes"] \in Allowed("max_nodes")
  BY DEF Limits, Limited
<1>2. o["width"] \in 1 .. 256
  BY <1>1, AllowedFacts
<1>3. o["region_min"] \in Nat \ {0} /\ o["count"] \in Nat \ {0}
  BY <1>1, AllowedFacts
<1>4. o["depth"] \in 0 .. 64
  BY <1>1, AllowedFacts
<1>5. o["max_nodes"] \in 1 .. NodeLimit
  <2>1. Allowed("max_nodes") = 1 .. NodeLimit /\ o["max_nodes"] \in Allowed("max_nodes")
    BY <1>1, AllowedFacts
  <2> QED
    BY <2>1
<1>6. \A n \in Nat \ {0} : n >= 1
  OBVIOUS
<1>7. \A n \in 0 .. 64 : n <= 64
  OBVIOUS
<1>8. o["region_min"] >= 1 /\ o["count"] >= 1
  BY <1>3, <1>6
<1>9. o["depth"] <= 64
  BY <1>4, <1>7
<1> QED
  BY <1>2, <1>5, <1>8, <1>9

(* Whatever an argument sets, the limits hold.                             *)
LEMMA SettersKeepLimits ==
  ASSUME Limits(options), SetFlag \/ SetText \/ AddSearchPath \/ SetSyntax \/ SetNumber
  PROVE  Limits(options')
<1>1. /\ \A f \in {"command", "has_output", "search_paths", "syntax"} : f \notin Limited
  BY DEF Limited
<1>2. CASE SetFlag
  BY <1>2, TableFacts, SettingKeeps DEF SetFlag, Set
<1>3. CASE SetText
  <2> DEFINE o == [options EXCEPT ![TextOption[arg]] = value]
  <2>1. TextOption[arg] \notin Limited
    BY <1>3, TableFacts DEF SetText
  <2>2. Limits(o)
    BY <2>1, SettingKeeps
  <2>3. PICK v : options' = [o EXCEPT !["has_output"] = v]
    BY <1>3 DEF SetText
  <2> HIDE DEF o
  <2> QED
    BY <1>1, <2>2, <2>3, SettingKeeps
<1>4. CASE AddSearchPath
  BY <1>1, <1>4, SettingKeeps DEF AddSearchPath, Set
<1>5. CASE SetSyntax
  BY <1>1, <1>5, SettingKeeps DEF SetSyntax, Set
<1>6. CASE SetNumber
  <2>1. /\ value \in DOMAIN NumberOf /\ InRange(NumberOption[arg], NumberOf[value])
        /\ options' = [options EXCEPT ![NumberOption[arg]] = NumberOf[value]]
    BY <1>6 DEF SetNumber, IsNumber, Set
  <2>2. NumberOf[value] \in Allowed(NumberOption[arg])
    BY <2>1, TextAssumption DEF Allowed
  <2> QED
    BY <2>1, <2>2, SettingKeeps
<1> QED
  BY <1>2, <1>3, <1>4, <1>5, <1>6

(* The inputs are filled in, and the rest of the options stays.            *)
LEMMA InputsFilledIn ==
  ASSUME Limits(options), Accept
  PROVE  /\ Limits(options') /\ positional' = positional
         /\ options'.command = options.command /\ options'.encoding = options.encoding
         /\ options'.pattern = options.pattern /\ options'.text = options.text
         /\ options.command \notin Informational =>
              /\ options'.input = positional[1]
              /\ options.command \in DiffCommand => options'.second_input = positional[2]
<1>1. DOMAIN options = DOMAIN Defaults
  BY DEF Limits
<1>2. {"command", "encoding", "pattern", "text", "input", "second_input", "json"} \subseteq DOMAIN options
  BY <1>1 DEF Defaults
<1>3. options' = WithInputs(options) /\ positional' = positional
  BY DEF Accept
<1>4. CASE options.command \in Informational
  BY <1>3, <1>4 DEF WithInputs
<1>5. CASE options.command \notin Informational
  <2> DEFINE o == [options EXCEPT !["input"] = positional[1]]
             second == IF options.command \in DiffCommand THEN positional[2] ELSE options["second_input"]
             p == [o EXCEPT !["second_input"] = second]
  <2>1. PICK v : options' = [p EXCEPT !["json"] = v]
    BY <1>3, <1>5 DEF WithInputs
  <2>2. Limits(o)
    BY SettingKeeps DEF Limited
  <2>3. Limits(p)
    <3> HIDE DEF o, second
    <3> QED
      BY <2>2, SettingKeeps DEF Limited
  <2>4. Limits(options')
    <3> HIDE DEF p
    <3> QED
      BY <2>1, <2>3, SettingKeeps DEF Limited
  <2>5. \A f \in DOMAIN options \ {"input", "second_input", "json"} : options'[f] = options[f]
    BY <2>1
  <2>6. options'["input"] = positional[1] /\ options'["second_input"] = second
    BY <1>2, <2>1
  <2> QED
    BY <1>2, <1>3, <1>5, <2>4, <2>5, <2>6
<1> QED
  BY <1>4, <1>5

LEMMA ParseKeepsOptions ==
  ASSUME OptionsInv, Parse
  PROVE  OptionsInv'
<1>1. Limits(options)
  BY DEF OptionsInv
<1>2. CASE verdict' = "InvalidArguments" /\ options' = options
  BY <1>1, <1>2 DEF OptionsInv, AcceptedOptionsAreUsable
<1>3. CASE verdict' = "none" /\ Limits(options')
  BY <1>3 DEF OptionsInv, AcceptedOptionsAreUsable
<1>4. CASE /\ verdict' = "none" \/ (verdict' = "accepted" /\ options'.command \in Informational)
           /\ Limits(options')
  BY <1>4, LimitsSuffice DEF OptionsInv, AcceptedOptionsAreUsable
<1>5. ASSUME NEW c PROVE Limits([options EXCEPT !["command"] = c])
                         /\ [options EXCEPT !["command"] = c].command = c
  <2>1. "command" \in DOMAIN options
    BY <1>1 DEF Limits, Defaults
  <2> QED
    BY <1>1, <2>1, SettingKeeps DEF Limited
<1>6. CASE MissingCommand \/ BadValue \/ UnknownOption \/ Incomplete
  BY <1>2, <1>6 DEF MissingCommand, BadValue, UnknownOption, Incomplete, Reject
<1>7. CASE SetFlag \/ SetText \/ AddSearchPath \/ SetSyntax \/ SetNumber
  <2>1. verdict' = "none"
    BY <1>7 DEF SetFlag, SetText, AddSearchPath, SetSyntax, SetNumber, Looping
  <2> QED
    BY <1>1, <1>3, <1>7, <2>1, SettersKeepLimits
<1>8. CASE AddPositional
  BY <1>1, <1>3, <1>8 DEF AddPositional, Looping
<1>9. CASE AskForHelp
  BY <1>4, <1>5, <1>9 DEF AskForHelp, Set, Informational
<1>10. CASE ReadCommand
  <2>1. CASE argv[1] \in HelpOption \cup {"--version"}
    <3> DEFINE c == IF argv[1] = "--version" THEN "version" ELSE "help"
    <3>1. options' = [options EXCEPT !["command"] = c] /\ verdict' = "accepted"
      BY <1>10, <2>1 DEF ReadCommand
    <3>2. c \in Informational
      BY DEF Informational
    <3> HIDE DEF c
    <3> QED
      BY <1>4, <1>5, <3>1, <3>2
  <2>2. CASE argv[1] \notin HelpOption \cup {"--version"}
    <3>1. options' = [options EXCEPT !["command"] = argv[1]] /\ verdict' = "none"
      BY <1>10, <2>2 DEF ReadCommand
    <3> QED
      BY <1>3, <1>5, <3>1
  <2> QED
    BY <2>1, <2>2
<1>11. CASE Accept
  <2>1. verdict' = "accepted" /\ Complete
    BY <1>11 DEF Accept
  <2>2. positional = <<>> => Len(positional) = 0
    OBVIOUS
  <2>3. options.command \notin Informational =>
          Len(positional) = IF options.command \in DiffCommand THEN 2 ELSE 1
    BY <2>1 DEF Complete
  <2>4. options.command \notin Informational =>
          /\ positional # <<>>
          /\ options.command \in DiffCommand => Len(positional) = 2
    BY <2>2, <2>3
  <2>5. Limits(options')
    BY <1>1, <1>11, InputsFilledIn
  <2>6. options.command \notin Informational =>
          /\ options.command = "strings" => options.encoding \in Encoding
          /\ options.command = "search" => options.pattern # "" \/ options.text # ""
    BY <2>1 DEF Complete
  <2>7. /\ options'.width \in 1 .. 256 /\ options'.region_min >= 1 /\ options'.count >= 1
        /\ options'.depth <= 64 /\ options'.max_nodes \in 1 .. NodeLimit
    BY <2>5, LimitsSuffice
  <2>8. AcceptedOptionsAreUsable'
    BY <1>1, <1>11, <2>4, <2>6, <2>7, InputsFilledIn DEF AcceptedOptionsAreUsable
  <2> QED
    BY <2>5, <2>8 DEF OptionsInv
<1> QED
  BY <1>6, <1>7, <1>8, <1>9, <1>10, <1>11 DEF Parse

(* Accepted options are within the limits the program relies on, and the   *)
(* command has what it needs, in whatever order the arguments came.        *)
THEOREM OptionsCorrect == Spec => []AcceptedOptionsAreUsable
<1>1. Init => OptionsInv
  BY DefaultsOK DEF Init
<1>2. OptionsInv /\ [Next]_vars => OptionsInv'
  <2> SUFFICES ASSUME OptionsInv, [Next]_vars PROVE OptionsInv'
    OBVIOUS
  <2>1. CASE Parse
    BY <2>1, ParseKeepsOptions
  <2>2. CASE UNCHANGED optionVars
    BY <2>2 DEF optionVars, OptionsInv, AcceptedOptionsAreUsable
  <2>3. Run \/ UNCHANGED vars => UNCHANGED optionVars
    BY DEF vars, Run, ArgumentsRejected, UnknownCommand, Inform, StartCommand, OpenInput, OpenInputFails,
       OpenInputAborts, Analyze, AnalysisFails, StayQuiet, OpenOutput, OpenOutputFails, Write, WriteFails,
       Flush, Return, Exit
  <2> QED
    BY <2>1, <2>2, <2>3 DEF Next, ParseArguments
<1>3. OptionsInv => AcceptedOptionsAreUsable
  BY DEF OptionsInv
<1> QED
  BY <1>1, <1>2, <1>3, PTL DEF Spec

(***************************************************************************)
(* The values of the options                                               *)
(***************************************************************************)
(* Of the numbers of a set one is the least. *)
LEMMA LeastNumber ==
  ASSUME NEW S, S \subseteq Nat, S # {}
  PROVE  \E x \in S : \A y \in S : x <= y
<1>1. PICK x \in S : \A y \in S : ~(<<y, x>> \in OpToRel(<, Nat))
  BY NatLessThanWellFounded, WFMin
<1>2. \A y \in S : <<y, x>> \in OpToRel(<, Nat) <=> y < x
  BY DEF OpToRel
<1>3. \A y \in S : ~(y < x)
  BY <1>1, <1>2
<1>4. \A y \in S : y \in Int /\ x \in Int
  OBVIOUS
<1> QED
  BY <1>3, <1>4

ValuesOf(line, n) ==
  {f \in [1 .. n -> BOOLEAN] :
     \A k \in 1 .. n : f[k] <=> k > 2 /\ ~f[k - 1] /\ line[k - 1] \in TakesValue}

(* Which arguments are values can be said, one after the other.            *)
LEMMA ValuesExist ==
  ASSUME NEW line, NEW n \in Nat
  PROVE  ValuesOf(line, n) # {}
<1> DEFINE S == {m \in Nat : ValuesOf(line, m) = {}}
<1> SUFFICES ASSUME S # {} PROVE FALSE
  OBVIOUS
<1>1. PICK m \in S : \A y \in S : m <= y
  BY LeastNumber
<1>2. m \in Nat /\ ValuesOf(line, m) = {}
  BY <1>1
<1>3. CASE m = 0
  <2> DEFINE none == [k \in 1 .. 0 |-> TRUE]
  <2>1. none \in ValuesOf(line, 0)
    BY DEF ValuesOf
  <2> QED
    BY <1>2, <1>3, <2>1
<1>4. CASE m # 0
  <2>1. m - 1 \in Nat /\ m - 1 \notin S
    <3>1. m - 1 \in Nat /\ ~(m <= m - 1)
      BY <1>2, <1>4
    <3> QED
      BY <1>1, <3>1
  <2>2. PICK f : f \in ValuesOf(line, m - 1)
    BY <2>1
  <2> DEFINE last == m > 2 /\ ~f[m - 1] /\ line[m - 1] \in TakesValue
             g == [k \in 1 .. m |-> IF k = m THEN last ELSE f[k]]
  <2>3. g \in [1 .. m -> BOOLEAN]
    <3>1. last \in BOOLEAN
      OBVIOUS
    <3>2. \A k \in 1 .. m : k # m => k \in 1 .. (m - 1)
      BY <1>2
    <3>3. \A k \in 1 .. (m - 1) : f[k] \in BOOLEAN
      BY <2>2 DEF ValuesOf
    <3> HIDE DEF last
    <3> QED
      BY <3>1, <3>2, <3>3
  <2>4. ASSUME NEW k \in 1 .. m
        PROVE  g[k] <=> k > 2 /\ ~g[k - 1] /\ line[k - 1] \in TakesValue
    <3>1. k > 2 => k - 1 \in 1 .. m /\ k - 1 # m
      BY <1>2
    <3>2. k > 2 => g[k - 1] = f[k - 1]
      <4> HIDE DEF last
      <4> QED
        BY <3>1
    <3>3. CASE k = m
      <4>1. g[k] = last
        BY <3>3
      <4>2. k > 2 => (g[k - 1] <=> f[m - 1])
        BY <3>2, <3>3
      <4>3. last <=> k > 2 /\ ~f[m - 1] /\ line[k - 1] \in TakesValue
        BY <3>3
      <4> HIDE DEF last, g
      <4> QED
        BY <4>1, <4>2, <4>3
    <3>4. CASE k # m
      <4>1. k \in 1 .. (m - 1)
        BY <1>2, <3>4
      <4>2. g[k] = f[k]
        BY <3>4
      <4>3. f[k] <=> k > 2 /\ ~f[k - 1] /\ line[k - 1] \in TakesValue
        BY <2>2, <4>1 DEF ValuesOf
      <4> HIDE DEF g
      <4> QED
        BY <3>2, <4>2, <4>3
    <3> QED
      BY <3>3, <3>4
  <2>5. g \in ValuesOf(line, m)
    <3> HIDE DEF g
    <3> QED
      BY <2>3, <2>4 DEF ValuesOf
  <2> QED
    BY <1>2, <2>5
<1> QED
  BY <1>3, <1>4

(* So the reference does what its definition says. *)
LEMMA ValuesFacts ==
  ASSUME NEW line, Len(line) \in Nat
  PROVE  \A k \in 1 .. Len(line) :
           IsValue(line)[k] <=> k > 2 /\ ~IsValue(line)[k - 1] /\ line[k - 1] \in TakesValue
<1> DEFINE Is(f) == f = [k \in 1 .. Len(line) |-> k > 2 /\ ~f[k - 1] /\ line[k - 1] \in TakesValue]
<1>1. PICK f : f \in ValuesOf(line, Len(line))
  BY ValuesExist
<1>2. Is(f)
  <2>1. /\ f = [k \in 1 .. Len(line) |-> f[k]]
        /\ \A k \in 1 .. Len(line) : f[k] \in BOOLEAN
        /\ \A k \in 1 .. Len(line) : f[k] <=> k > 2 /\ ~f[k - 1] /\ line[k - 1] \in TakesValue
    BY <1>1 DEF ValuesOf
  <2>2. \A k \in 1 .. Len(line) : f[k] = (k > 2 /\ ~f[k - 1] /\ line[k - 1] \in TakesValue)
    BY <2>1
  <2> QED
    BY <2>1, <2>2
<1>3. IsValue(line) = CHOOSE f_1 : Is(f_1)
  BY DEF IsValue
<1>4. Is(IsValue(line))
  <2> HIDE DEF Is
  <2> QED
    BY <1>2, <1>3
<1> DEFINE v == IsValue(line)
<1>5. v = [k \in 1 .. Len(line) |-> k > 2 /\ ~v[k - 1] /\ line[k - 1] \in TakesValue]
  BY <1>4
<1> HIDE DEF v
<1>6. \A k \in 1 .. Len(line) : v[k] = (k > 2 /\ ~v[k - 1] /\ line[k - 1] \in TakesValue)
  BY <1>5, Zenon
<1> QED
  BY <1>6 DEF v
(* The tables: which arguments they hold, and which fields these set.      *)
FlagField == {"json", "quiet", "verbose", "dot", "recursive", "from_entry"}
TextField == {"output", "encoding", "pattern", "text"}
NumberField ==
  {"min_length", "max_results", "offset", "length", "width", "region_min", "depth", "max_nodes",
   "count", "max_bytes"}

LEMMA FlagFacts ==
  /\ \A a \in DOMAIN Flag : Flag[a] \in FlagField
  /\ \A a, b \in DOMAIN Flag : Flag[a] = Flag[b] => a = b
  /\ "--json" \in DOMAIN Flag /\ Flag["--json"] = "json"
  /\ "--dot" \in DOMAIN Flag /\ Flag["--dot"] = "dot"
<1>1. DOMAIN Flag = {"--json", "--quiet", "--verbose", "--dot", "--recursive", "--from-entry"}
  BY DEF Flag
<1>2. Flag["--json"] = "json" /\ Flag["--quiet"] = "quiet" /\ Flag["--verbose"] = "verbose"
  BY DEF Flag
<1>3. Flag["--dot"] = "dot" /\ Flag["--recursive"] = "recursive"
  BY DEF Flag
<1>4. Flag["--from-entry"] = "from_entry"
  BY DEF Flag
<1> QED
  BY <1>1, <1>2, <1>3, <1>4 DEF FlagField

LEMMA TextFacts ==
  /\ \A a \in DOMAIN TextOption : TextOption[a] \in TextField
  /\ \A a \in DOMAIN TextOption : TextOption[a] = "output" <=> a \in {"--output", "-o"}
<1>1. DOMAIN TextOption = {"--output", "-o", "--encoding", "--pattern", "--hex", "--text"}
  BY DEF TextOption
<1>2. TextOption["--output"] = "output" /\ TextOption["-o"] = "output"
  BY DEF TextOption
<1>3. TextOption["--pattern"] = "pattern" /\ TextOption["--hex"] = "pattern"
  BY DEF TextOption
<1>4. TextOption["--encoding"] = "encoding" /\ TextOption["--text"] = "text"
  BY DEF TextOption
<1> QED
  BY <1>1, <1>2, <1>3, <1>4 DEF TextField

LEMMA NumberFacts == \A a \in DOMAIN NumberOption : NumberOption[a] \in NumberField
BY DEF NumberOption, NumberField

LEMMA FieldFacts ==
  /\ FlagField \subseteq DOMAIN Defaults
  /\ TextField \subseteq DOMAIN Defaults
  /\ NumberField \subseteq DOMAIN Defaults
  /\ {"command", "input", "second_input", "has_output", "search_paths", "syntax"} \subseteq DOMAIN Defaults
  /\ \A f \in FlagField : f \notin TextField /\ f \notin NumberField
  /\ \A f \in TextField : f \notin NumberField
  /\ \A f \in {"command", "input", "second_input", "has_output", "search_paths", "syntax"} :
       f \notin FlagField /\ f \notin TextField /\ f \notin NumberField
<1>1. /\ FlagField \subseteq DOMAIN Defaults /\ TextField \subseteq DOMAIN Defaults
      /\ NumberField \subseteq DOMAIN Defaults
      /\ {"command", "input", "second_input", "has_output", "search_paths", "syntax"} \subseteq DOMAIN Defaults
  BY DEF Defaults, FlagField, TextField, NumberField
<1>2. \A f \in FlagField : f \notin TextField /\ f \notin NumberField
  BY DEF FlagField, TextField, NumberField
<1>3. \A f \in TextField : f \notin NumberField
  BY DEF TextField, NumberField
<1>4. \A f \in {"command", "input", "second_input", "has_output", "search_paths", "syntax"} :
        f \notin FlagField /\ f \notin TextField /\ f \notin NumberField
  BY DEF FlagField, TextField, NumberField
<1> QED
  BY <1>1, <1>2, <1>3, <1>4

LEMMA ArgumentFacts ==
  /\ \A a \in DOMAIN Flag : a \notin TakesValue
  /\ \A a \in DOMAIN TextOption : a \notin DOMAIN NumberOption /\ a \notin ListOption
  /\ \A a \in ListOption : a \notin DOMAIN NumberOption /\ a \notin ChoiceOption
  /\ \A a \in ChoiceOption : a \notin DOMAIN NumberOption /\ a \notin DOMAIN TextOption
  /\ \A a \in {"--output", "-o"} : a \in DOMAIN TextOption
<1>1. /\ DOMAIN Flag = {"--json", "--quiet", "--verbose", "--dot", "--recursive", "--from-entry"}
      /\ DOMAIN TextOption = {"--output", "-o", "--encoding", "--pattern", "--hex", "--text"}
      /\ DOMAIN NumberOption =
           {"--min-length", "--max-results", "--offset", "--length", "--width", "--region-min",
            "--depth", "--max-nodes", "--count", "--max-bytes"}
      /\ ListOption = {"--search-path"} /\ ChoiceOption = {"--syntax"}
  BY DEF Flag, TextOption, NumberOption, ListOption, ChoiceOption
<1>2. \A a \in DOMAIN Flag : a \notin TakesValue
  BY <1>1 DEF TakesValue
<1>3. \A a \in DOMAIN TextOption : a \notin DOMAIN NumberOption /\ a \notin ListOption
  BY <1>1
<1>4. \A a \in ListOption : a \notin DOMAIN NumberOption /\ a \notin ChoiceOption
  BY <1>1
<1>5. \A a \in ChoiceOption : a \notin DOMAIN NumberOption /\ a \notin DOMAIN TextOption
  BY <1>1
<1>6. \A a \in {"--output", "-o"} : a \in DOMAIN TextOption
  BY <1>1
<1> QED
  BY <1>2, <1>3, <1>4, <1>5, <1>6

(* What the loop has seen so far of that which was given. *)
Seen(names) == {k \in Given(names) : k < index}
LastSeen(names) == {k \in Seen(names) : \A j \in Seen(names) : j <= k}

FlagsRead == \A a \in DOMAIN Flag : options[Flag[a]] = (Seen({a}) # {})

TextsRead ==
  \A field \in TextField :
    LET last == LastSeen(Naming(TextOption, field))
    IN  IF last = {} THEN options[field] = Defaults[field]
        ELSE \A k \in last : options[field] = argv[k + 1]

NumbersRead ==
  \A field \in NumberField :
    LET last == LastSeen(Naming(NumberOption, field))
    IN  IF last = {} THEN options[field] = Defaults[field]
        ELSE \A k \in last : options[field] = NumberOf[argv[k + 1]]

OutputRead == options["has_output"] = (Seen({"--output", "-o"}) # {})

SyntaxRead ==
  LET last == LastSeen(ChoiceOption)
  IN  IF last = {} THEN options["syntax"] = Defaults["syntax"]
      ELSE \A k \in last : options["syntax"] = argv[k + 1]

PathsRead ==
  /\ options["search_paths"] \in Seq(Text)
  /\ Len(options["search_paths"]) = Cardinality(Seen(ListOption))
  /\ \A k \in Seen(ListOption) : options["search_paths"][Place(k)] = argv[k + 1]

(* The loop is at an option or behind the last argument, never at a value, *)
(* and the options have the values that were last given before.            *)
LoopInv ==
  /\ argv \in Seq(Text) /\ index \in 1 .. (Len(argv) + 1)
  /\ DOMAIN options = DOMAIN Defaults
  /\ verdict = "none" /\ index \in 2 .. Len(argv) => ~IsValue(argv)[index]
  /\ verdict = "none" => FlagsRead /\ TextsRead /\ NumbersRead /\ OutputRead /\ SyntaxRead /\ PathsRead
  /\ LastOneCounts

(* An argument that is read is one more that was seen, and the last one.   *)
LEMMA OneMoreSeen ==
  ASSUME LoopInv, Looping, argv' = argv,
         index' = index + (IF arg \in TakesValue THEN 2 ELSE 1),
         index' <= Len(argv) + 1
  PROVE  /\ \A names : Seen(names)' = Seen(names) \cup {k \in {index} : arg \in names}
         /\ \A names : LastSeen(names)' = IF arg \in names THEN {index} ELSE LastSeen(names)
         /\ index' \in 1 .. (Len(argv') + 1)
         /\ index' \in 2 .. Len(argv') => ~IsValue(argv')[index']
<1>1. /\ Len(argv) \in Nat /\ index \in Nat /\ index' \in Nat /\ 2 <= index /\ index <= Len(argv)
      /\ index \in 2 .. Len(argv) /\ index' \in 3 .. (Len(argv) + 1)
  BY DEF LoopInv, Looping
<1> DEFINE v == IsValue(argv)
<1>2. \A k \in 1 .. Len(argv) : v[k] <=> k > 2 /\ ~v[k - 1] /\ argv[k - 1] \in TakesValue
  BY <1>1, ValuesFacts
<1>3. ~v[index]
  BY <1>1 DEF LoopInv, Looping
<1>4. index + 1 <= Len(argv) => (v[index + 1] <=> arg \in TakesValue)
  <2>1. index + 1 <= Len(argv) => index + 1 \in 1 .. Len(argv) /\ index + 1 > 2 /\ (index + 1) - 1 = index
    BY <1>1
  <2> HIDE DEF v
  <2> QED
    BY <1>2, <1>3, <2>1 DEF arg
<1>5. index + 2 <= Len(argv) /\ arg \in TakesValue => ~v[index + 2]
  <2>1. index + 2 <= Len(argv) =>
          /\ index + 2 \in 1 .. Len(argv) /\ (index + 2) - 1 = index + 1 /\ index + 1 <= Len(argv)
    BY <1>1
  <2> HIDE DEF v
  <2> QED
    BY <1>2, <1>4, <2>1
<1>6. \A names : Given(names) = {k \in 2 .. Len(argv) : ~v[k] /\ argv[k] \in names}
  BY DEF Given
<1>7. \A names : Given(names)' = Given(names)
  BY DEF Given
<1> HIDE DEF v
<1>8. \A k \in 2 .. Len(argv) : ~v[k] =>
        (k < index' <=> k < index \/ k = index)
  <2> SUFFICES ASSUME NEW k \in 2 .. Len(argv), ~v[k] PROVE k < index' <=> k < index \/ k = index
    OBVIOUS
  <2>1. CASE arg \in TakesValue
    <3>1. k # index + 1
      BY <1>4, <2>1
    <3> QED
      BY <1>1, <2>1, <3>1
  <2>2. CASE arg \notin TakesValue
    BY <1>1, <2>2
  <2> QED
    BY <2>1, <2>2
<1>9. ASSUME NEW names PROVE Seen(names)' = Seen(names) \cup {k \in {index} : arg \in names}
  <2>1. \A k : k \in Seen(names)' <=> k \in 2 .. Len(argv) /\ ~v[k] /\ argv[k] \in names /\ k < index'
    BY <1>6, <1>7 DEF Seen
  <2>2. \A k : k \in Seen(names) <=> k \in 2 .. Len(argv) /\ ~v[k] /\ argv[k] \in names /\ k < index
    BY <1>6 DEF Seen
  <2> QED
    BY <1>1, <1>3, <1>8, <2>1, <2>2 DEF arg
<1>10. ASSUME NEW names
       PROVE  LastSeen(names)' = IF arg \in names THEN {index} ELSE LastSeen(names)
  <2>1. LastSeen(names)' = {k \in Seen(names)' : \A j \in Seen(names)' : j <= k}
    BY DEF LastSeen
  <2>2. CASE arg \notin names
    BY <1>9, <2>1, <2>2 DEF LastSeen
  <2>3. CASE arg \in names
    <3>1. Seen(names)' = Seen(names) \cup {index}
      BY <1>9, <2>3
    <3>2. \A k \in Seen(names) : k \in Nat /\ k < index
      BY <1>6 DEF Seen
    <3>3. \A k \in Seen(names) : k <= index /\ ~(index <= k)
      BY <1>1, <3>2
    <3>4. index <= index
      BY <1>1
    <3> QED
      BY <2>1, <2>3, <3>1, <3>3, <3>4
  <2> QED
    BY <2>2, <2>3
<1>11. index' \in 2 .. Len(argv) => ~v[index']
  <2>1. CASE arg \in TakesValue
    <3>1. index' = index + 2
      BY <2>1
    <3> QED
      BY <1>1, <1>5, <2>1, <3>1
  <2>2. CASE arg \notin TakesValue
    <3>1. index' = index + 1
      BY <2>2
    <3> QED
      BY <1>1, <1>4, <2>2, <3>1
  <2> QED
    BY <2>1, <2>2
<1> QED
  BY <1>1, <1>9, <1>10, <1>11 DEF v
(* What the arguments that are read mean for each sort of options, given   *)
(* that those of the other sorts do not touch them.                        *)
LEMMA ReadKeeps ==
  ASSUME LoopInv, Looping, argv' = argv,
         index' = index + (IF arg \in TakesValue THEN 2 ELSE 1),
         index' <= Len(argv) + 1
  PROVE  /\ arg \notin DOMAIN Flag /\ (\A f \in FlagField : options'[f] = options[f]) => FlagsRead'
         /\ arg \notin DOMAIN TextOption /\ (\A f \in TextField : options'[f] = options[f]) => TextsRead'
         /\ arg \notin DOMAIN NumberOption /\ (\A f \in NumberField : options'[f] = options[f]) =>
              NumbersRead'
         /\ arg \notin {"--output", "-o"} /\ options'["has_output"] = options["has_output"] => OutputRead'
         /\ arg \notin ChoiceOption /\ options'["syntax"] = options["syntax"] => SyntaxRead'
         /\ arg \notin ListOption /\ options'["search_paths"] = options["search_paths"] => PathsRead'
<1>1. /\ \A names : Seen(names)' = Seen(names) \cup {k \in {index} : arg \in names}
      /\ \A names : LastSeen(names)' = IF arg \in names THEN {index} ELSE LastSeen(names)
  BY OneMoreSeen
<1>2. FlagsRead /\ TextsRead /\ NumbersRead /\ OutputRead /\ SyntaxRead /\ PathsRead
  BY DEF LoopInv, Looping
<1>3. \A names : arg \notin names => Seen(names)' = Seen(names) /\ LastSeen(names)' = LastSeen(names)
  BY <1>1
<1>4. ASSUME arg \notin DOMAIN Flag, \A f \in FlagField : options'[f] = options[f]
      PROVE  FlagsRead'
  <2> SUFFICES ASSUME NEW a \in DOMAIN Flag PROVE options'[Flag[a]] = (Seen({a})' # {})
    BY DEF FlagsRead
  <2>1. Seen({a})' = Seen({a})
    BY <1>3, <1>4
  <2>2. options'[Flag[a]] = options[Flag[a]]
    BY <1>4, FlagFacts
  <2>3. options[Flag[a]] = (Seen({a}) # {})
    BY <1>2 DEF FlagsRead
  <2> QED
    BY <2>1, <2>2, <2>3
<1>5. ASSUME arg \notin DOMAIN TextOption, \A f \in TextField : options'[f] = options[f]
      PROVE  TextsRead'
  <2> SUFFICES ASSUME NEW f \in TextField
               PROVE  LET last == LastSeen(Naming(TextOption, f))'
                      IN  IF last = {} THEN options'[f] = Defaults[f]
                          ELSE \A k \in last : options'[f] = argv'[k + 1]
    BY DEF TextsRead
  <2>1. arg \notin Naming(TextOption, f)
    BY <1>5 DEF Naming
  <2>2. LastSeen(Naming(TextOption, f))' = LastSeen(Naming(TextOption, f))
    BY <1>3, <2>1
  <2>3. LET last == LastSeen(Naming(TextOption, f))
        IN  IF last = {} THEN options[f] = Defaults[f] ELSE \A k \in last : options[f] = argv[k + 1]
    BY <1>2 DEF TextsRead
  <2> QED
    BY <1>5, <2>2, <2>3
<1>6. ASSUME arg \notin DOMAIN NumberOption, \A f \in NumberField : options'[f] = options[f]
      PROVE  NumbersRead'
  <2> SUFFICES ASSUME NEW f \in NumberField
               PROVE  LET last == LastSeen(Naming(NumberOption, f))'
                      IN  IF last = {} THEN options'[f] = Defaults[f]
                          ELSE \A k \in last : options'[f] = NumberOf[argv'[k + 1]]
    BY DEF NumbersRead
  <2>1. arg \notin Naming(NumberOption, f)
    BY <1>6 DEF Naming
  <2>2. LastSeen(Naming(NumberOption, f))' = LastSeen(Naming(NumberOption, f))
    BY <1>3, <2>1
  <2>3. LET last == LastSeen(Naming(NumberOption, f))
        IN  IF last = {} THEN options[f] = Defaults[f]
            ELSE \A k \in last : options[f] = NumberOf[argv[k + 1]]
    BY <1>2 DEF NumbersRead
  <2> QED
    BY <1>6, <2>2, <2>3
<1>7. arg \notin {"--output", "-o"} /\ options'["has_output"] = options["has_output"] => OutputRead'
  BY <1>2, <1>3 DEF OutputRead
<1>8. arg \notin ListOption /\ options'["search_paths"] = options["search_paths"] => PathsRead'
  <2>1. \A k : Place(k)' = Place(k)
    BY DEF Place, Given
  <2> QED
    BY <1>2, <1>3, <2>1 DEF PathsRead
<1>9. arg \notin ChoiceOption /\ options'["syntax"] = options["syntax"] => SyntaxRead'
  BY <1>2, <1>3 DEF SyntaxRead
<1> QED
  BY <1>4, <1>5, <1>6, <1>7, <1>8, <1>9

(* An argument that sets a flag. *)
LEMMA FlagIsRead ==
  ASSUME LoopInv, SetFlag
  PROVE  LoopInv'
<1>1. /\ Looping /\ arg \in DOMAIN Flag /\ argv' = argv /\ verdict' = "none" /\ index' = index + 1
      /\ options' = [options EXCEPT ![Flag[arg]] = TRUE]
  BY DEF SetFlag, Set, Looping
<1>2. /\ arg \notin TakesValue /\ arg \notin DOMAIN TextOption /\ arg \notin DOMAIN NumberOption
      /\ arg \notin ListOption /\ arg \notin ChoiceOption /\ arg \notin {"--output", "-o"}
  BY <1>1, ArgumentFacts DEF TakesValue
<1>3. /\ argv \in Seq(Text) /\ index \in Nat /\ index <= Len(argv) /\ Len(argv) \in Nat
      /\ DOMAIN options = DOMAIN Defaults
  BY <1>1 DEF LoopInv, Looping
<1>4. index' = index + (IF arg \in TakesValue THEN 2 ELSE 1) /\ index' <= Len(argv) + 1
  BY <1>1, <1>2, <1>3
<1>5. /\ DOMAIN options' = DOMAIN Defaults
      /\ Flag[arg] \in FlagField /\ Flag[arg] \in DOMAIN options
      /\ \A f : f # Flag[arg] /\ f \in DOMAIN options => options'[f] = options[f]
      /\ options'[Flag[arg]] = TRUE
  BY <1>1, <1>3, FlagFacts, FieldFacts
<1>6. /\ \A f \in TextField \cup NumberField : options'[f] = options[f]
      /\ options'["has_output"] = options["has_output"]
      /\ options'["search_paths"] = options["search_paths"] /\ options'["syntax"] = options["syntax"]
  BY <1>3, <1>5, FieldFacts
<1>7. TextsRead' /\ NumbersRead' /\ OutputRead' /\ SyntaxRead' /\ PathsRead'
  BY <1>1, <1>2, <1>4, <1>6, ReadKeeps
<1>8. FlagsRead'
  <2> SUFFICES ASSUME NEW a \in DOMAIN Flag PROVE options'[Flag[a]] = (Seen({a})' # {})
    BY DEF FlagsRead
  <2>1. Seen({a})' = Seen({a}) \cup {k \in {index} : arg \in {a}}
    BY <1>1, <1>4, OneMoreSeen
  <2>2. CASE a = arg
    BY <1>5, <2>1, <2>2
  <2>3. CASE a # arg
    <3>1. Seen({a})' = Seen({a})
      BY <2>1, <2>3
    <3>2. options'[Flag[a]] = options[Flag[a]]
      BY <1>1, <1>3, <1>5, <2>3, FlagFacts, FieldFacts
    <3>3. options[Flag[a]] = (Seen({a}) # {})
      BY <1>1 DEF LoopInv, Looping, FlagsRead
    <3> QED
      BY <3>1, <3>2, <3>3
  <2> QED
    BY <2>2, <2>3
<1>9. index' \in 1 .. (Len(argv') + 1) /\ (index' \in 2 .. Len(argv') => ~IsValue(argv')[index'])
  BY <1>1, <1>4, OneMoreSeen
<1> QED
  BY <1>1, <1>3, <1>5, <1>7, <1>8, <1>9 DEF LoopInv, LastOneCounts

(* One that has a text. *)
LEMMA TextIsRead ==
  ASSUME LoopInv, SetText
  PROVE  LoopInv'
<1> DEFINE F == TextOption[arg]
<1>1. /\ Looping /\ arg \in DOMAIN TextOption /\ argv' = argv /\ verdict' = "none"
      /\ index' = index + 2 /\ index + 1 <= Len(argv)
      /\ options' = [[options EXCEPT ![F] = value] EXCEPT
                       !["has_output"] = options["has_output"] \/ F = "output"]
  <2>1. F # "has_output"
    BY TextFacts, FieldFacts DEF SetText
  <2>2. options' = [options EXCEPT ![F] = value, !["has_output"] = @ \/ F = "output"]
    BY DEF SetText
  <2>3. [options EXCEPT ![F] = value]["has_output"] = options["has_output"]
    <3>1. DOMAIN options = DOMAIN Defaults /\ "has_output" \in DOMAIN Defaults
      BY FieldFacts DEF LoopInv
    <3> HIDE DEF F
    <3> QED
      BY <2>1, <3>1
  <2> HIDE DEF F
  <2> QED
    BY <2>2, <2>3 DEF SetText, Looping, HasValue
<1>2. /\ arg \in TakesValue /\ arg \notin DOMAIN Flag /\ arg \notin DOMAIN NumberOption
      /\ arg \notin ListOption /\ arg \notin ChoiceOption
  BY <1>1, ArgumentFacts DEF TakesValue
<1>3. /\ argv \in Seq(Text) /\ index \in Nat /\ Len(argv) \in Nat
      /\ DOMAIN options = DOMAIN Defaults
  BY DEF LoopInv
<1>4. index' = index + (IF arg \in TakesValue THEN 2 ELSE 1) /\ index' <= Len(argv) + 1
  BY <1>1, <1>2, <1>3
<1>5. F \in TextField /\ F \in DOMAIN options /\ "has_output" \in DOMAIN options /\ F # "has_output"
  BY <1>1, <1>3, TextFacts, FieldFacts
<1>6. F = "output" <=> arg \in {"--output", "-o"}
  BY <1>1, TextFacts
<1>7. /\ DOMAIN options' = DOMAIN Defaults
      /\ \A f \in DOMAIN options \ {F, "has_output"} : options'[f] = options[f]
      /\ options'[F] = value
      /\ options'["has_output"] = (options["has_output"] \/ F = "output")
  <2> HIDE DEF F
  <2> QED
    BY <1>1, <1>3, <1>5
<1>8. \A field : arg \in Naming(TextOption, field) <=> field = F
  BY <1>1 DEF Naming
<1> HIDE DEF F
<1>9. /\ \A f \in FlagField \cup NumberField : options'[f] = options[f]
      /\ options'["search_paths"] = options["search_paths"] /\ options'["syntax"] = options["syntax"]
  BY <1>3, <1>5, <1>7, FieldFacts
<1>10. FlagsRead' /\ NumbersRead' /\ SyntaxRead' /\ PathsRead'
  BY <1>1, <1>2, <1>4, <1>9, ReadKeeps
<1>11. /\ \A names : Seen(names)' = Seen(names) \cup {k \in {index} : arg \in names}
       /\ \A names : LastSeen(names)' = IF arg \in names THEN {index} ELSE LastSeen(names)
  BY <1>1, <1>4, OneMoreSeen
<1>12. OutputRead'
  <2>1. options["has_output"] = (Seen({"--output", "-o"}) # {})
    BY <1>1 DEF LoopInv, Looping, OutputRead
  <2>2. Seen({"--output", "-o"})' # {} <=> Seen({"--output", "-o"}) # {} \/ arg \in {"--output", "-o"}
    BY <1>11
  <2> QED
    BY <1>6, <1>7, <2>1, <2>2 DEF OutputRead
<1>13. TextsRead'
  <2> SUFFICES ASSUME NEW f \in TextField
               PROVE  LET last == LastSeen(Naming(TextOption, f))'
                      IN  IF last = {} THEN options'[f] = Defaults[f]
                          ELSE \A k \in last : options'[f] = argv'[k + 1]
    BY DEF TextsRead
  <2>1. CASE f = F
    <3>1. LastSeen(Naming(TextOption, f))' = {index}
      BY <1>8, <1>11, <2>1
    <3> QED
      BY <1>1, <1>7, <2>1, <3>1 DEF value
  <2>2. CASE f # F
    <3>1. LastSeen(Naming(TextOption, f))' = LastSeen(Naming(TextOption, f))
      BY <1>8, <1>11, <2>2
    <3>2. options'[f] = options[f]
      BY <1>3, <1>7, <2>2, FieldFacts
    <3>3. LET last == LastSeen(Naming(TextOption, f))
          IN  IF last = {} THEN options[f] = Defaults[f] ELSE \A k \in last : options[f] = argv[k + 1]
      BY <1>1 DEF LoopInv, Looping, TextsRead
    <3> QED
      BY <1>1, <3>1, <3>2, <3>3
  <2> QED
    BY <2>1, <2>2
<1>14. index' \in 1 .. (Len(argv') + 1) /\ (index' \in 2 .. Len(argv') => ~IsValue(argv')[index'])
  BY <1>1, <1>4, OneMoreSeen
<1> QED
  BY <1>1, <1>3, <1>7, <1>10, <1>12, <1>13, <1>14 DEF LoopInv, LastOneCounts

(* One that has a number. *)
LEMMA NumberIsRead ==
  ASSUME LoopInv, SetNumber
  PROVE  LoopInv'
<1> DEFINE F == NumberOption[arg]
<1>1. /\ Looping /\ arg \in DOMAIN NumberOption /\ argv' = argv /\ verdict' = "none"
      /\ index' = index + 2 /\ index + 1 <= Len(argv)
      /\ options' = [options EXCEPT ![F] = NumberOf[value]]
  BY DEF SetNumber, Set, IsNumber, Looping, HasValue
<1>2. /\ arg \in TakesValue /\ arg \notin DOMAIN Flag /\ arg \notin DOMAIN TextOption /\ arg \notin ListOption
      /\ arg \notin ChoiceOption /\ arg \notin {"--output", "-o"}
  BY <1>1, ArgumentFacts DEF TakesValue
<1>3. /\ argv \in Seq(Text) /\ index \in Nat /\ Len(argv) \in Nat
      /\ DOMAIN options = DOMAIN Defaults
  BY DEF LoopInv
<1>4. index' = index + (IF arg \in TakesValue THEN 2 ELSE 1) /\ index' <= Len(argv) + 1
  BY <1>1, <1>2, <1>3
<1>5. F \in NumberField /\ F \in DOMAIN options
  BY <1>1, <1>3, NumberFacts, FieldFacts
<1>6. \A field : arg \in Naming(NumberOption, field) <=> field = F
  BY <1>1 DEF Naming
<1> HIDE DEF F
<1>7. /\ DOMAIN options' = DOMAIN Defaults
      /\ \A f \in DOMAIN options \ {F} : options'[f] = options[f]
      /\ options'[F] = NumberOf[value]
  BY <1>1, <1>3, <1>5
<1>8. /\ \A f \in FlagField \cup TextField : options'[f] = options[f]
      /\ options'["has_output"] = options["has_output"]
      /\ options'["search_paths"] = options["search_paths"] /\ options'["syntax"] = options["syntax"]
  BY <1>3, <1>5, <1>7, FieldFacts
<1>9. FlagsRead' /\ TextsRead' /\ OutputRead' /\ SyntaxRead' /\ PathsRead'
  BY <1>1, <1>2, <1>4, <1>8, ReadKeeps
<1>10. \A names : LastSeen(names)' = IF arg \in names THEN {index} ELSE LastSeen(names)
  BY <1>1, <1>4, OneMoreSeen
<1>11. NumbersRead'
  <2> SUFFICES ASSUME NEW f \in NumberField
               PROVE  LET last == LastSeen(Naming(NumberOption, f))'
                      IN  IF last = {} THEN options'[f] = Defaults[f]
                          ELSE \A k \in last : options'[f] = NumberOf[argv'[k + 1]]
    BY DEF NumbersRead
  <2>1. CASE f = F
    <3>1. LastSeen(Naming(NumberOption, f))' = {index}
      BY <1>6, <1>10, <2>1
    <3> QED
      BY <1>1, <1>7, <2>1, <3>1 DEF value
  <2>2. CASE f # F
    <3>1. LastSeen(Naming(NumberOption, f))' = LastSeen(Naming(NumberOption, f))
      BY <1>6, <1>10, <2>2
    <3>2. options'[f] = options[f]
      BY <1>3, <1>7, <2>2, FieldFacts
    <3>3. LET last == LastSeen(Naming(NumberOption, f))
          IN  IF last = {} THEN options[f] = Defaults[f]
              ELSE \A k \in last : options[f] = NumberOf[argv[k + 1]]
      BY <1>1 DEF LoopInv, Looping, NumbersRead
    <3> QED
      BY <1>1, <3>1, <3>2, <3>3
  <2> QED
    BY <2>1, <2>2
<1>12. index' \in 1 .. (Len(argv') + 1) /\ (index' \in 2 .. Len(argv') => ~IsValue(argv')[index'])
  BY <1>1, <1>4, OneMoreSeen
<1> QED
  BY <1>1, <1>3, <1>7, <1>9, <1>11, <1>12 DEF LoopInv, LastOneCounts
(* One more directory to search. *)
LEMMA PathIsRead ==
  ASSUME LoopInv, AddSearchPath
  PROVE  LoopInv'
<1> DEFINE paths == options["search_paths"]
<1>1. /\ Looping /\ arg \in ListOption /\ argv' = argv /\ verdict' = "none"
      /\ index' = index + 2 /\ index + 1 <= Len(argv)
      /\ options' = [options EXCEPT !["search_paths"] = Append(paths, value)]
  BY DEF AddSearchPath, Set, Looping, HasValue
<1>2. /\ arg \in TakesValue /\ arg \notin DOMAIN Flag /\ arg \notin DOMAIN NumberOption
      /\ arg \notin DOMAIN TextOption /\ arg \notin ChoiceOption /\ arg \notin {"--output", "-o"}
  BY <1>1, ArgumentFacts DEF TakesValue
<1>3. /\ argv \in Seq(Text) /\ index \in Nat /\ Len(argv) \in Nat
      /\ DOMAIN options = DOMAIN Defaults
  BY DEF LoopInv
<1>4. index' = index + (IF arg \in TakesValue THEN 2 ELSE 1) /\ index' <= Len(argv) + 1
  BY <1>1, <1>2, <1>3
<1>5. /\ DOMAIN options' = DOMAIN Defaults
      /\ \A f \in DOMAIN options \ {"search_paths"} : options'[f] = options[f]
      /\ options'["search_paths"] = Append(paths, value)
  BY <1>1, <1>3, FieldFacts
<1>6. /\ \A f \in FlagField \cup TextField \cup NumberField : options'[f] = options[f]
      /\ options'["has_output"] = options["has_output"] /\ options'["syntax"] = options["syntax"]
  BY <1>3, <1>5, FieldFacts
<1>7. FlagsRead' /\ TextsRead' /\ NumbersRead' /\ OutputRead' /\ SyntaxRead'
  BY <1>1, <1>2, <1>4, <1>6, ReadKeeps
<1>8. PathsRead'
  <2>1. /\ paths \in Seq(Text) /\ Len(paths) = Cardinality(Seen(ListOption))
        /\ \A k \in Seen(ListOption) : paths[Place(k)] = argv[k + 1]
    BY <1>1 DEF LoopInv, Looping, PathsRead
  <2>2. value \in Text
    <3>1. index + 1 \in 1 .. Len(argv)
      BY <1>1, <1>3
    <3> QED
      BY <1>3, <3>1 DEF value
  <2> HIDE DEF paths
  <2>3. /\ Append(paths, value) \in Seq(Text) /\ Len(Append(paths, value)) = Len(paths) + 1
        /\ Append(paths, value)[Len(paths) + 1] = value
        /\ \A n \in 1 .. Len(paths) : Append(paths, value)[n] = paths[n]
    BY <2>1, <2>2
  <2>4. Seen(ListOption)' = Seen(ListOption) \cup {index}
    BY <1>1, <1>4, OneMoreSeen
  <2>5. index \notin Seen(ListOption) /\ Seen(ListOption) \subseteq 2 .. Len(argv)
    <3>1. ~(index < index)
      BY <1>3
    <3>2. \A names : Given(names) \subseteq 2 .. Len(argv)
      BY DEF Given
    <3> QED
      BY <3>1, <3>2 DEF Seen
  <2>6. IsFiniteSet(Seen(ListOption))
    <3>1. IsFiniteSet(2 .. Len(argv))
      BY <1>3, FS_Interval
    <3> QED
      BY <2>5, <3>1, FS_Subset
  <2>7. Cardinality(Seen(ListOption) \cup {index}) = Cardinality(Seen(ListOption)) + 1
    BY <2>5, <2>6, FS_AddElement
  <2>8. \A k : Place(k)' = Place(k)
    BY <1>1 DEF Place, Given
  <2>9. Given(ListOption) \subseteq 2 .. Len(argv) /\ index \in Given(ListOption)
    <3>1. 2 <= index /\ index <= Len(argv) /\ ~IsValue(argv)[index]
      BY <1>1 DEF LoopInv, Looping
    <3>2. argv[index] \in ListOption
      BY <1>1 DEF arg
    <3> QED
      BY <1>3, <3>1, <3>2 DEF Given
  <2>10. Place(index) = Len(paths) + 1
    <3>1. {j \in Given(ListOption) : j <= index} = Seen(ListOption) \cup {index}
      BY <1>3, <2>9 DEF Seen
    <3> QED
      BY <2>1, <2>7, <3>1 DEF Place
  <2>11. ASSUME NEW k \in Seen(ListOption) PROVE Place(k) \in 1 .. Len(paths)
    <3> DEFINE S == {j \in Given(ListOption) : j <= k}
    <3>1. k \in Given(ListOption) /\ k < index /\ k \in Nat
      BY <2>9 DEF Seen
    <3>2. S \subseteq Seen(ListOption) /\ k \in S
      BY <1>3, <2>9, <3>1 DEF Seen
    <3>3. IsFiniteSet(S) /\ Cardinality(S) <= Cardinality(Seen(ListOption))
      BY <2>6, <3>2, FS_Subset
    <3>4. Cardinality(S) # 0 /\ Cardinality(S) \in Nat
      BY <3>2, <3>3, FS_EmptySet, FS_CardinalityType
    <3>5. Cardinality(S) \in 1 .. Len(paths)
      <4> HIDE DEF S
      <4> QED
        BY <2>1, <3>3, <3>4
    <3> QED
      BY <3>5 DEF Place
  <2>12. \A k \in Seen(ListOption) \cup {index} : Append(paths, value)[Place(k)] = argv[k + 1]
    <3>1. Append(paths, value)[Place(index)] = argv[index + 1]
      BY <2>3, <2>10 DEF value
    <3>2. \A k \in Seen(ListOption) : Append(paths, value)[Place(k)] = argv[k + 1]
      BY <2>1, <2>3, <2>11
    <3> QED
      BY <3>1, <3>2
  <2> QED
    BY <1>1, <1>5, <2>1, <2>3, <2>4, <2>7, <2>8, <2>12 DEF PathsRead
<1>9. index' \in 1 .. (Len(argv') + 1) /\ (index' \in 2 .. Len(argv') => ~IsValue(argv')[index'])
  BY <1>1, <1>4, OneMoreSeen
<1> QED
  BY <1>1, <1>3, <1>5, <1>7, <1>8, <1>9 DEF LoopInv, LastOneCounts

(* The syntax, and what is no option. *)
LEMMA RestIsRead ==
  ASSUME LoopInv, SetSyntax \/ AddPositional
  PROVE  LoopInv'
<1>1. /\ Looping /\ argv' = argv /\ verdict' = "none" /\ index' \in {index + 1, index + 2}
      /\ index' = index + 2 => index + 1 <= Len(argv)
      /\ (arg \in ChoiceOption /\ index' = index + 2) \/ (arg \notin KnownOption /\ index' = index + 1)
      /\ IF arg \in ChoiceOption THEN options' = [options EXCEPT !["syntax"] = value]
         ELSE options' = options
  <2>1. CASE SetSyntax
    BY <2>1 DEF SetSyntax, Set, Looping, HasValue
  <2>2. CASE AddPositional
    <3>1. index + 1 # index + 2
      BY DEF LoopInv
    <3>2. arg \notin KnownOption => arg \notin ChoiceOption
      BY DEF KnownOption
    <3> QED
      BY <2>2, <3>1, <3>2 DEF AddPositional, Looping
  <2> QED
    BY <2>1, <2>2
<1>2. /\ argv \in Seq(Text) /\ index \in Nat /\ Len(argv) \in Nat /\ index <= Len(argv)
      /\ DOMAIN options = DOMAIN Defaults
  BY <1>1 DEF LoopInv, Looping
<1>3. /\ arg \notin DOMAIN Flag /\ arg \notin DOMAIN NumberOption
      /\ arg \notin DOMAIN TextOption /\ arg \notin {"--output", "-o"} /\ arg \notin ListOption
  BY <1>1, ArgumentFacts DEF KnownOption, TakesValue
<1>4. arg \in TakesValue <=> arg \in ChoiceOption
  BY <1>3 DEF TakesValue
<1>5. arg \in ChoiceOption => arg \in KnownOption
  BY DEF KnownOption
<1>6. index' = index + (IF arg \in TakesValue THEN 2 ELSE 1) /\ index' <= Len(argv) + 1
  BY <1>1, <1>2, <1>4, <1>5
<1>7. /\ DOMAIN options' = DOMAIN Defaults
      /\ \A f \in DOMAIN options \ {"syntax"} : options'[f] = options[f]
      /\ options'["syntax"] = IF arg \in ChoiceOption THEN value ELSE options["syntax"]
  BY <1>1, <1>2, FieldFacts
<1>8. /\ \A f \in FlagField \cup TextField \cup NumberField : options'[f] = options[f]
      /\ options'["has_output"] = options["has_output"]
      /\ options'["search_paths"] = options["search_paths"]
  BY <1>2, <1>7, FieldFacts
<1>9. FlagsRead' /\ TextsRead' /\ NumbersRead' /\ OutputRead' /\ PathsRead'
  BY <1>1, <1>3, <1>6, <1>8, ReadKeeps
<1>11. SyntaxRead'
  <2>1. LastSeen(ChoiceOption)' = IF arg \in ChoiceOption THEN {index} ELSE LastSeen(ChoiceOption)
    BY <1>1, <1>6, OneMoreSeen
  <2>2. SyntaxRead
    BY <1>1 DEF LoopInv, Looping
  <2>3. CASE arg \in ChoiceOption
    BY <1>1, <1>7, <2>1, <2>3 DEF SyntaxRead, value
  <2>4. CASE arg \notin ChoiceOption
    BY <1>1, <1>7, <2>1, <2>2, <2>4 DEF SyntaxRead
  <2> QED
    BY <2>3, <2>4
<1>10. index' \in 1 .. (Len(argv') + 1) /\ (index' \in 2 .. Len(argv') => ~IsValue(argv')[index'])
  BY <1>1, <1>6, OneMoreSeen
<1> QED
  BY <1>1, <1>2, <1>7, <1>9, <1>10, <1>11 DEF LoopInv, LastOneCounts

(* At the end all that was given has been seen. *)
LEMMA AcceptIsExact ==
  ASSUME LoopInv, Accept
  PROVE  LoopInv'
<1>1. /\ verdict = "none" /\ 2 <= index /\ index > Len(argv) /\ verdict' = "accepted"
      /\ argv' = argv /\ index' = index /\ options' = WithInputs(options)
  BY DEF Accept, AtEnd
<1>2. argv \in Seq(Text) /\ Len(argv) \in Nat /\ index \in Nat /\ DOMAIN options = DOMAIN Defaults
  BY DEF LoopInv
<1>3. \A names : Seen(names) = Given(names) /\ Given(names)' = Given(names)
  <2>1. \A k \in 2 .. Len(argv) : k < index
    BY <1>1, <1>2
  <2>2. \A names : Given(names) \subseteq 2 .. Len(argv)
    BY DEF Given
  <2> QED
    BY <1>1, <2>1, <2>2 DEF Seen, Given
<1>4. /\ \A names : LastSeen(names) = LastGiven(names) /\ LastGiven(names)' = LastGiven(names)
      /\ \A k : Place(k)' = Place(k)
  BY <1>3 DEF LastSeen, LastGiven, Place
<1>5. FlagsRead /\ TextsRead /\ NumbersRead /\ OutputRead /\ SyntaxRead /\ PathsRead
  BY <1>1 DEF LoopInv
<1>6. CASE options.command \in Informational
  <2>1. options' = options
    BY <1>1, <1>6 DEF WithInputs
  <2> QED
    BY <1>1, <1>2, <1>6, <2>1 DEF LoopInv, LastOneCounts
<1>7. CASE options.command \notin Informational
  <2> DEFINE o == [options EXCEPT !["input"] = positional[1]]
             second == IF options.command \in DiffCommand THEN positional[2] ELSE options["second_input"]
             p == [o EXCEPT !["second_input"] = second]
             j == options["json"] /\ ~(options.command = "graph" /\ options.dot)
  <2>1. options' = [p EXCEPT !["json"] = j]
    BY <1>1, <1>7 DEF WithInputs
  <2>2. {"json", "command", "dot"} \subseteq DOMAIN options
    BY <1>2 DEF Defaults
  <2> HIDE DEF second, j
  <2>3. /\ \A f \in DOMAIN options \ {"input", "second_input", "json"} : options'[f] = options[f]
        /\ options'["json"] = j /\ DOMAIN options' = DOMAIN Defaults
    BY <1>2, <2>1, <2>2
  <2>4. /\ \A f \in TextField \cup NumberField : options'[f] = options[f]
        /\ options'["has_output"] = options["has_output"]
        /\ options'["search_paths"] = options["search_paths"] /\ options'["syntax"] = options["syntax"]
        /\ options'.command = options.command
    <3>1. "json" \notin TextField \cup NumberField
      BY DEF TextField, NumberField
    <3> QED
      BY <1>2, <2>2, <2>3, <3>1, FieldFacts
  <2>5. ASSUME NEW a \in DOMAIN Flag
        PROVE  options'[Flag[a]] <=>
                 /\ Given({a}) # {}
                 /\ ~(a = "--json" /\ options'.command = "graph" /\ Given({"--dot"}) # {})
    <3>1. \A b \in DOMAIN Flag : options[Flag[b]] = (Given({b}) # {})
      BY <1>3, <1>5 DEF FlagsRead
    <3>2. CASE a = "--json"
      <4>1. options["json"] = (Given({a}) # {}) /\ options["dot"] = (Given({"--dot"}) # {})
        BY <3>1, <3>2, FlagFacts
      <4>2. options'[Flag[a]] = j
        BY <2>3, <3>2, FlagFacts
      <4> QED
        BY <2>4, <3>2, <4>1, <4>2 DEF j
    <3>3. CASE a # "--json"
      <4>1. Flag[a] # "json" /\ Flag[a] \in FlagField
        BY <3>3, FlagFacts
      <4>2. Flag[a] \in DOMAIN options \ {"input", "second_input", "json"}
        BY <1>2, <4>1, FieldFacts
      <4> QED
        BY <2>3, <3>1, <3>3, <4>2
    <3> QED
      BY <3>2, <3>3
  <2>6. ASSUME NEW f \in Range(TextOption)
        PROVE  LET last == LastGiven(Naming(TextOption, f))
               IN  IF last = {} THEN options'[f] = Defaults[f]
                   ELSE \A k \in last : options'[f] = argv[k + 1]
    <3>1. f \in TextField
      BY TextFacts DEF Range
    <3> QED
      BY <1>4, <1>5, <2>4, <3>1 DEF TextsRead
  <2>7. ASSUME NEW f \in Range(NumberOption)
        PROVE  LET last == LastGiven(Naming(NumberOption, f))
               IN  IF last = {} THEN options'[f] = Defaults[f]
                   ELSE \A k \in last : options'[f] = NumberOf[argv[k + 1]]
    <3>1. f \in NumberField
      BY NumberFacts DEF Range
    <3> QED
      BY <1>4, <1>5, <2>4, <3>1 DEF NumbersRead
  <2>8. /\ options'["has_output"] = (Given({"--output", "-o"}) # {})
        /\ Len(options'["search_paths"]) = Cardinality(Given(ListOption))
        /\ \A k \in Given(ListOption) : options'["search_paths"][Place(k)] = argv[k + 1]
        /\ LET last == LastGiven(ChoiceOption)
           IN  IF last = {} THEN options'["syntax"] = Defaults["syntax"]
               ELSE \A k \in last : options'["syntax"] = argv[k + 1]
    BY <1>3, <1>4, <1>5, <2>4 DEF OutputRead, SyntaxRead, PathsRead
  <2>9. LastOneCounts'
    BY <1>1, <1>3, <1>4, <2>5, <2>6, <2>7, <2>8 DEF LastOneCounts
  <2> QED
    BY <1>1, <1>2, <2>3, <2>9 DEF LoopInv
<1> QED
  BY <1>6, <1>7

LEMMA ParseKeepsLoop ==
  ASSUME LoopInv, Parse
  PROVE  LoopInv'
<1>1. CASE MissingCommand \/ BadValue \/ UnknownOption \/ Incomplete
  BY <1>1 DEF MissingCommand, BadValue, UnknownOption, Incomplete, Reject, LoopInv, LastOneCounts
<1>2. CASE ReadCommand
  <2>1. /\ verdict = "none" /\ argv' = argv /\ argv # <<>> /\ index = 1 /\ index' = 2
        /\ argv \in Seq(Text) /\ Len(argv) \in Nat /\ DOMAIN options = DOMAIN Defaults
    BY <1>2 DEF ReadCommand, LoopInv
  <2>2. Len(argv) # 0 /\ 2 \in 1 .. (Len(argv) + 1)
    BY <2>1
  <2>3. /\ \E c : /\ options' = [options EXCEPT !["command"] = c]
                  /\ verdict' = "accepted" => c \in Informational
        /\ verdict' \in {"none", "accepted"}
    BY <1>2, <2>1 DEF ReadCommand, Informational
  <2>4. /\ DOMAIN options' = DOMAIN Defaults
        /\ \A f \in DOMAIN options \ {"command"} : options'[f] = options[f]
        /\ verdict' = "accepted" => options'.command \in Informational
    <3>1. "command" \in DOMAIN options
      BY <2>1, FieldFacts
    <3> QED
      BY <2>1, <2>3, <3>1
  <2>5. \A names : /\ Seen(names) = {} /\ Seen(names)' = {}
                   /\ LastSeen(names) = {} /\ LastSeen(names)' = {}
    <3>1. \A k \in 2 .. Len(argv) : ~(k < 1) /\ ~(k < 2)
      BY <2>1
    <3>2. \A names : Given(names) \subseteq 2 .. Len(argv) /\ Given(names)' \subseteq 2 .. Len(argv)
      BY <2>1 DEF Given
    <3>3. \A names : Seen(names) = {} /\ Seen(names)' = {}
      BY <2>1, <3>1, <3>2 DEF Seen
    <3> QED
      BY <3>3 DEF LastSeen
  <2>6. FlagsRead /\ TextsRead /\ NumbersRead /\ OutputRead /\ SyntaxRead /\ PathsRead
    BY <2>1 DEF LoopInv
  <2>7. /\ \A f \in FlagField \cup TextField \cup NumberField : options'[f] = options[f]
        /\ options'["has_output"] = options["has_output"]
        /\ options'["search_paths"] = options["search_paths"] /\ options'["syntax"] = options["syntax"]
    BY <2>1, <2>4, FieldFacts
  <2>8. FlagsRead' /\ OutputRead' /\ SyntaxRead' /\ PathsRead'
    BY <2>5, <2>6, <2>7, FlagFacts DEF FlagsRead, OutputRead, SyntaxRead, PathsRead
  <2>9. TextsRead' /\ NumbersRead'
    BY <2>5, <2>6, <2>7 DEF TextsRead, NumbersRead
  <2>10. 2 \in 2 .. Len(argv) => ~IsValue(argv)[2]
    <3>1. ~(2 > 2) /\ (2 \in 2 .. Len(argv) => 2 \in 1 .. Len(argv))
      OBVIOUS
    <3> QED
      BY <2>1, <3>1, ValuesFacts
  <2> QED
    BY <2>1, <2>2, <2>4, <2>8, <2>9, <2>10 DEF LoopInv, LastOneCounts
<1>3. CASE AskForHelp
  <2>1. /\ options' = [options EXCEPT !["command"] = "help"] /\ verdict' = "accepted"
        /\ UNCHANGED <<argv, index>>
    BY <1>3 DEF AskForHelp, Set
  <2>2. DOMAIN options = DOMAIN Defaults /\ "command" \in DOMAIN options
    BY FieldFacts DEF LoopInv
  <2>3. DOMAIN options' = DOMAIN Defaults /\ options'.command \in Informational
    BY <2>1, <2>2 DEF Informational
  <2> QED
    BY <2>1, <2>3 DEF LoopInv, LastOneCounts
<1> QED
  BY <1>1, <1>2, <1>3, FlagIsRead, TextIsRead, NumberIsRead, PathIsRead, RestIsRead, AcceptIsExact DEF Parse

LEMMA LoopBegins == InitOptions => LoopInv
<1> SUFFICES ASSUME InitOptions PROVE LoopInv
  OBVIOUS
<1>1. argv \in Seq(Text) /\ index = 1 /\ options = Defaults /\ verdict = "none"
  BY TextAssumption DEF InitOptions
<1>2. Len(argv) \in Nat /\ 1 \in 1 .. (Len(argv) + 1) /\ 1 \notin 2 .. Len(argv)
  BY <1>1
<1>3. \A names : Seen(names) = {} /\ LastSeen(names) = {}
  <2>1. \A k \in 2 .. Len(argv) : ~(k < 1)
    BY <1>2
  <2>2. \A names : Seen(names) = {}
    BY <1>1, <2>1 DEF Seen, Given
  <2> QED
    BY <2>2 DEF LastSeen
<1>4. FlagsRead
  <2>1. /\ Defaults["json"] = FALSE /\ Defaults["quiet"] = FALSE /\ Defaults["verbose"] = FALSE
        /\ Defaults["dot"] = FALSE /\ Defaults["recursive"] = FALSE /\ Defaults["from_entry"] = FALSE
    BY DEF Defaults
  <2>2. \A f \in FlagField : Defaults[f] = FALSE
    BY <2>1 DEF FlagField
  <2> QED
    BY <1>1, <1>3, <2>2, FlagFacts DEF FlagsRead
<1>5. TextsRead /\ NumbersRead
  BY <1>1, <1>3 DEF TextsRead, NumbersRead
<1>6. OutputRead /\ SyntaxRead /\ PathsRead
  <2>1. Defaults["has_output"] = FALSE /\ Defaults["search_paths"] = <<>>
    BY DEF Defaults
  <2>2. <<>> \in Seq(Text) /\ Len(<<>>) = 0
    OBVIOUS
  <2>3. Cardinality({}) = 0
    BY FS_EmptySet
  <2> QED
    BY <1>1, <1>3, <2>1, <2>2, <2>3 DEF OutputRead, SyntaxRead, PathsRead
<1> QED
  BY <1>1, <1>2, <1>4, <1>5, <1>6 DEF LoopInv, LastOneCounts

(* Every option of an accepted command line has the value it was last      *)
(* given, or its default, whatever else was given before or after it; and  *)
(* the search paths are all that were given, in their order.               *)
THEOREM LastOneCorrect == Spec => []LastOneCounts
<1>1. Init => LoopInv
  BY LoopBegins DEF Init
<1>2. LoopInv /\ [Next]_vars => LoopInv'
  <2> SUFFICES ASSUME LoopInv, [Next]_vars PROVE LoopInv'
    OBVIOUS
  <2>1. CASE Parse
    BY <2>1, ParseKeepsLoop
  <2>2. CASE UNCHANGED optionVars
    <3>1. UNCHANGED <<argv, index, options, verdict>>
      BY <2>2 DEF optionVars
    <3>2. \A names : Given(names)' = Given(names)
      BY <3>1 DEF Given
    <3>3. \A names : Seen(names)' = Seen(names) /\ LastGiven(names)' = LastGiven(names)
      BY <3>1, <3>2 DEF Seen, LastGiven
    <3>4. /\ \A names : LastSeen(names)' = LastSeen(names)
          /\ \A k : Place(k)' = Place(k)
      BY <3>2, <3>3 DEF LastSeen, Place
    <3>5. /\ FlagsRead' <=> FlagsRead
          /\ TextsRead' <=> TextsRead
          /\ NumbersRead' <=> NumbersRead
          /\ OutputRead' <=> OutputRead
          /\ SyntaxRead' <=> SyntaxRead
          /\ PathsRead' <=> PathsRead
      BY <3>1, <3>3, <3>4 DEF FlagsRead, TextsRead, NumbersRead, OutputRead, SyntaxRead, PathsRead
    <3>6. LastOneCounts' <=> LastOneCounts
      BY <3>1, <3>2, <3>3, <3>4 DEF LastOneCounts
    <3> QED
      BY <3>1, <3>5, <3>6 DEF LoopInv
  <2>3. Run \/ UNCHANGED vars => UNCHANGED optionVars
    BY DEF vars, Run, ArgumentsRejected, UnknownCommand, Inform, StartCommand, OpenInput, OpenInputFails,
       OpenInputAborts, Analyze, AnalysisFails, StayQuiet, OpenOutput, OpenOutputFails, Write, WriteFails,
       Flush, Return, Exit
  <2> QED
    BY <2>1, <2>2, <2>3 DEF Next, ParseArguments
<1>3. LoopInv => LastOneCounts
  BY DEF LoopInv
<1> QED
  BY <1>1, <1>2, <1>3, PTL DEF Spec

=============================================================================
