---------------------------- MODULE ByteAnalysis ----------------------------
(***************************************************************************)
(* The commands that look at bytes without regard to the format:           *)
(* src/src/analysis/byte_analysis.cpp and the handlers of "strings",       *)
(* "search", "regions" and "hexdump" in src/src/cli/runner.cpp.  Offsets   *)
(* count from zero, as in the code.                                        *)
(***************************************************************************)
EXTENDS Integers, Sequences

CONSTANT Inputs   \* pairs of the bytes of a file and the options of a command

Byte == 0 .. 255
Any == -1    \* "??" in a pattern

(* No encoding is asked for twice: it is a single one or "all".            *)
EncodingList ==
  {list \in Seq({"ascii", "utf8", "utf16le", "utf16be"}) :
     \A p, q \in DOMAIN list : list[p] = list[q] => p = q}

ByteRequest ==
  [task : {"strings"}, encodings : EncodingList, min : Nat, max : Nat]
    \cup [task : {"search"}, pattern : Seq(Byte \cup {Any}), max : Nat]
    \cup [task : {"regions"}, min : Nat \ {0}]
    \cup [task : {"hexdump"}, offset : Nat, length : Nat, width : 1 .. 256]

VARIABLES
  data, request,  \* which are only read
  pass,           \* the encoding in hand, by its place in request.encodings
  i,              \* how far the data has been gone through
  start,          \* where the region in hand begins
  found,          \* what the loop in hand has found
  result,         \* what the handler has collected
  outcome

vars == <<data, request, pass, i, start, found, result, outcome>>

Init ==
  /\ \E input \in Inputs : data = input[1] /\ request = input[2]
  /\ pass = 1 /\ start = 0
  /\ i = IF request.task = "hexdump" THEN request.offset ELSE 0
  /\ found = <<>> /\ result = <<>>
  /\ outcome = "none"

Size == Len(data)
At(offset) == data[offset + 1]

Printable(byte) == byte \in 32 .. 126

Doing(task) == outcome = "none" /\ request.task = task

(* Limits of zero are no limits. *)
Full(list) == request.max # 0 /\ Len(list) >= request.max

Finish(found_) ==
  /\ result' = found_
  /\ outcome' = "Success"
  /\ UNCHANGED <<data, request, pass, i, start, found>>

(***************************************************************************)
(* strings: extract_strings() for one encoding after the other             *)
(***************************************************************************)
Encoding == request.encodings[pass]

Unit(e) == IF e \in {"ascii", "utf8"} THEN 1 ELSE 2

Character(e, offset) ==
  CASE e = "utf16le" -> At(offset) + 256 * At(offset + 1)
    [] e = "utf16be" -> At(offset + 1) + 256 * At(offset)
    [] OTHER -> At(offset)

Legible(e, offset) == offset >= 0 /\ offset + Unit(e) <= Size /\ Printable(Character(e, offset))

(* The first offset behind the string, in steps of a character.            *)
EndOfString(e, from) ==
  CHOOSE end \in from .. Size :
    /\ (end - from) % Unit(e) = 0 /\ ~Legible(e, end)
    /\ \A o \in from .. (end - 1) : (o - from) % Unit(e) = 0 => Legible(e, o)

Extracting == Doing("strings") /\ pass <= Len(request.encodings)

MoreText == i + Unit(Encoding) <= Size /\ ~Full(found)

SkipCharacter ==
  /\ Extracting /\ MoreText /\ ~Legible(Encoding, i)
  /\ i' = i + Unit(Encoding)
  /\ UNCHANGED <<data, request, pass, start, found, result, outcome>>

(* Mutant: a string that the end of the file cuts off is left out. *)
TakeString_Terminated ==
  /\ Extracting /\ MoreText /\ Legible(Encoding, i)
  /\ i' = EndOfString(Encoding, i)
  /\ found' = IF (i' - i) \div Unit(Encoding) >= request.min /\ i' < Size
                THEN Append(found, [at |-> i, end |-> i', as |-> Encoding]) ELSE found
  /\ UNCHANGED <<data, request, pass, start, result, outcome>>

TakeString ==
  /\ Extracting /\ MoreText /\ Legible(Encoding, i)
  /\ i' = EndOfString(Encoding, i)
  /\ found' = IF (i' - i) \div Unit(Encoding) >= request.min
                THEN Append(found, [at |-> i, end |-> i', as |-> Encoding]) ELSE found
  /\ UNCHANGED <<data, request, pass, start, result, outcome>>

EndEncoding ==
  /\ Extracting /\ ~MoreText
  /\ result' = result \o found
  /\ pass' = pass + 1 /\ i' = 0 /\ found' = <<>>
  /\ UNCHANGED <<data, request, start, outcome>>

EndStrings ==
  /\ Doing("strings") /\ pass > Len(request.encodings)
  /\ Finish(IF Full(result) THEN SubSeq(result, 1, request.max) ELSE result)

(***************************************************************************)
(* search: by bytes with gaps, or by the bytes of a text                   *)
(***************************************************************************)
MatchesAt(offset) ==
  \A j \in DOMAIN request.pattern : request.pattern[j] \in {Any, At(offset + j - 1)}

MorePlaces == i + Len(request.pattern) <= Size /\ ~Full(found)

TryPlace ==
  /\ Doing("search") /\ MorePlaces
  /\ found' = IF MatchesAt(i) THEN Append(found, i) ELSE found
  /\ i' = i + 1
  /\ UNCHANGED <<data, request, pass, start, result, outcome>>

EndSearch == Doing("search") /\ ~MorePlaces /\ Finish(found)

(***************************************************************************)
(* regions: classify_regions()                                             *)
(***************************************************************************)
KindOf(byte) ==
  IF byte = 0 THEN "zero"
  ELSE IF Printable(byte) \/ byte \in {9, 10, 13} THEN "printable" ELSE "binary"

(* A region that is long enough, and ends before `end'.                    *)
WithRegion(end) ==
  IF end - start >= request.min
    THEN Append(found, [at |-> start, end |-> end, kind |-> KindOf(At(start))]) ELSE found

NextByte ==
  /\ Doing("regions") /\ i < Size
  /\ IF KindOf(At(i)) = KindOf(At(start))
       THEN UNCHANGED <<start, found>>
       ELSE found' = WithRegion(i) /\ start' = i
  /\ i' = i + 1
  /\ UNCHANGED <<data, request, pass, result, outcome>>

EndRegions ==
  /\ Doing("regions") /\ i = Size
  /\ Finish(IF data = <<>> THEN <<>> ELSE WithRegion(Size))

(***************************************************************************)
(* hexdump: make_hexdump()                                                 *)
(***************************************************************************)
OffsetBeyond ==
  /\ Doing("hexdump") /\ request.offset > Size
  /\ outcome' = "InvalidArguments"
  /\ UNCHANGED <<data, request, pass, i, start, found, result>>

Least(a, b) == IF a <= b THEN a ELSE b

(* A length of zero asks for all that is left. *)
EndOfDump ==
  LET left == Size - request.offset
  IN  request.offset + IF request.length = 0 THEN left ELSE Least(request.length, left)

Dumping == Doing("hexdump") /\ request.offset <= Size

AddLine ==
  /\ Dumping /\ i < EndOfDump
  /\ found' = Append(found, [at |-> i, end |-> i + Least(request.width, EndOfDump - i)])
  /\ i' = i + request.width
  /\ UNCHANGED <<data, request, pass, start, result, outcome>>

EndHexdump == Dumping /\ i >= EndOfDump /\ Finish(found)

BytesNext ==
  \/ SkipCharacter \/ TakeString \/ EndEncoding \/ EndStrings
  \/ TryPlace \/ EndSearch
  \/ NextByte \/ EndRegions
  \/ OffsetBeyond \/ AddLine \/ EndHexdump

(***************************************************************************)
(* Properties                                                              *)
(***************************************************************************)
Sorted(list) == \A m, n \in DOMAIN list : m < n => list[m].at < list[n].at

(* The strings of an encoding by definition: the longest runs of printable *)
(* characters from an even offset on where characters have two bytes.      *)
StringsOf(e) ==
  {x \in [at : 0 .. Size, end : 0 .. Size, as : {e}] :
     /\ x.at % Unit(e) = 0 /\ x.end % Unit(e) = 0
     /\ x.at < x.end /\ (x.end - x.at) \div Unit(e) >= request.min
     /\ \A o \in x.at .. (x.end - 1) : o % Unit(e) = 0 => Legible(e, o)
     /\ ~Legible(e, x.at - Unit(e)) /\ ~Legible(e, x.end)}

RegionsByDefinition ==
  {x \in [at : 0 .. (Size - 1), end : 1 .. Size, kind : {"zero", "printable", "binary"}] :
     /\ x.end - x.at >= request.min
     /\ \A o \in x.at .. (x.end - 1) : KindOf(At(o)) = x.kind
     /\ x.at > 0 => KindOf(At(x.at - 1)) # x.kind
     /\ x.end < Size => KindOf(At(x.end)) # x.kind}

(* What each command reports when it is through.                           *)
Elements(list) == {list[m] : m \in DOMAIN list}

(* The order of the report: by encoding, then by place in the file.        *)
Place(e) == CHOOSE p \in DOMAIN request.encodings : request.encodings[p] = e

Precedes(x, y) == Place(x.as) < Place(y.as) \/ (x.as = y.as /\ x.at < y.at)

(* What is not in the report comes behind as many strings as the limit is. *)
StringsAreExact ==
  /\ request.max # 0 => Len(result) <= request.max
  /\ \A m, n \in DOMAIN result : m < n => Precedes(result[m], result[n])
  /\ \A x \in Elements(result) : \E p \in DOMAIN request.encodings : x \in StringsOf(request.encodings[p])
  /\ \A p \in DOMAIN request.encodings : \A x \in StringsOf(request.encodings[p]) :
       x \in Elements(result) \/ (Full(result) /\ \A y \in Elements(result) : Precedes(y, x))

MatchesAreExact ==
  /\ \A m, n \in DOMAIN result : m < n => result[m] < result[n]
  /\ \A m \in DOMAIN result : MatchesAt(result[m])
  /\ \A o \in 0 .. (Size - Len(request.pattern)) : MatchesAt(o) =>
       \/ o \in Elements(result)
       \/ Full(result) /\ \A m \in DOMAIN result : result[m] < o

RegionsAreExact ==
  Sorted(result) /\ Elements(result) = RegionsByDefinition

LinesAreExact ==
  /\ UNION {result[m].at .. (result[m].end - 1) : m \in DOMAIN result}
       = {o \in request.offset .. (Size - 1) : request.length = 0 \/ o < request.offset + request.length}
  /\ request.offset <= Size
  /\ \A m \in DOMAIN result : result[m].end - result[m].at = request.width \/ m = Len(result)
  /\ Sorted(result)
=============================================================================
