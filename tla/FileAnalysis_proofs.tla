------------------------- MODULE FileAnalysis_proofs -------------------------
(***************************************************************************)
(* Proofs about the commands on bytes, for all files and options: what a   *)
(* loop has found is, at every step, what is there by definition up to the *)
(* place it has reached.                                                   *)
(***************************************************************************)
EXTENDS FileAnalysis, SequenceTheorems, FiniteSetTheorems, WellFoundedInduction, TLAPS

(***************************************************************************)
(* All commands                                                            *)
(***************************************************************************)
TypeOK ==
  /\ data \in Seq(Byte) /\ request \in ByteRequest \cup DisassemblyRequest \cup DiffRequest
  /\ i \in Nat /\ start \in Nat /\ pass \in Nat \ {0}
  /\ outcome \in {"none", "Success", "InvalidArguments"}

LEMMA Options ==
  ASSUME TypeOK
  PROVE  /\ Size \in Nat /\ \A o \in 0 .. (Size - 1) : At(o) \in Byte
         /\ request.task = "strings" =>
              request.encodings \in EncodingList /\ request.min \in Nat /\ request.max \in Nat
         /\ request.task = "search" => request.pattern \in Seq(Byte \cup {Any}) /\ request.max \in Nat
         /\ request.task = "regions" => request.min \in Nat \ {0}
         /\ request.task = "hexdump" =>
              request.offset \in Nat /\ request.length \in Nat /\ request.width \in 1 .. 256
         /\ request.task = "disasm" => request \in DisassemblyRequest
         /\ request.task = "diff" => request \in DiffRequest
         /\ request.task \in {"strings", "search", "regions", "hexdump", "disasm", "diff"}
<1>1. data \in Seq(Byte) /\ request \in ByteRequest \cup DisassemblyRequest \cup DiffRequest
  BY DEF TypeOK
<1>2. Size \in Nat /\ \A o \in 0 .. (Size - 1) : At(o) \in Byte
  <2>1. Len(data) \in Nat /\ \A k \in 1 .. Len(data) : data[k] \in Byte
    BY <1>1
  <2>2. \A o \in 0 .. (Len(data) - 1) : o + 1 \in 1 .. Len(data)
    BY <2>1
  <2> QED
    BY <2>1, <2>2 DEF Size, At
<1>3. CASE request \in ByteRequest
  BY <1>2, <1>3 DEF ByteRequest
<1>4. CASE request \in DisassemblyRequest
  BY <1>2, <1>4 DEF DisassemblyRequest
<1>5. CASE request \in DiffRequest
  BY <1>2, <1>5 DEF DiffRequest
<1> QED
  BY <1>1, <1>3, <1>4, <1>5

(* Each command takes its own steps, and none changes the file. *)
LEMMA Steps ==
  ASSUME [Next]_allVars
  PROVE  /\ data' = data /\ request' = request
         /\ request.task = "strings" =>
              SkipCharacter \/ TakeString \/ EndEncoding \/ EndStrings \/ UNCHANGED allVars
         /\ request.task = "search" => TryPlace \/ EndSearch \/ UNCHANGED allVars
         /\ request.task = "regions" => NextByte \/ EndRegions \/ UNCHANGED allVars
         /\ request.task = "hexdump" => OffsetBeyond \/ AddLine \/ EndHexdump \/ UNCHANGED allVars
         /\ request.task = "disasm" =>
              SkipPart \/ AddPart \/ SkipBlock \/ EnterBlock \/ EndDisassembly \/ UNCHANGED allVars
         /\ request.task = "diff" => SkipEqual \/ TakeHunk \/ EndDiff \/ UNCHANGED allVars
<1>1. CASE SkipCharacter \/ TakeString \/ EndEncoding \/ EndStrings
  BY <1>1 DEF SkipCharacter, TakeString, EndEncoding, EndStrings, Extracting, Doing, Finish
<1>2. CASE TryPlace \/ EndSearch \/ NextByte \/ EndRegions
  BY <1>2 DEF TryPlace, EndSearch, NextByte, EndRegions, Doing, Finish
<1>3. CASE OffsetBeyond \/ AddLine \/ EndHexdump
  BY <1>3 DEF OffsetBeyond, AddLine, EndHexdump, Dumping, Doing, Finish
<1>4. CASE SkipPart \/ AddPart \/ SkipBlock \/ EnterBlock \/ EndDisassembly
  BY <1>4 DEF SkipPart, AddPart, SkipBlock, EnterBlock, EndDisassembly, Disassembling, Entering, Doing, Finish
<1>5. CASE SkipEqual \/ TakeHunk \/ EndDiff
  BY <1>5 DEF SkipEqual, TakeHunk, EndDiff, Doing, Finish
<1>6. CASE UNCHANGED allVars
  BY <1>6 DEF allVars, vars
<1> QED
  BY <1>1, <1>2, <1>3, <1>4, <1>5, <1>6 DEF Next, BytesNext, DisassemblyNext, DiffNext

LEMMA Appended ==
  ASSUME NEW S, NEW list \in Seq(S), NEW x \in S
  PROVE  /\ Append(list, x) \in Seq(S)
         /\ DOMAIN Append(list, x) = 1 .. (Len(list) + 1) /\ Len(Append(list, x)) = Len(list) + 1
         /\ DOMAIN list = 1 .. Len(list) /\ Len(list) \in Nat
         /\ \A m \in DOMAIN list : Append(list, x)[m] = list[m]
         /\ Append(list, x)[Len(list) + 1] = x
         /\ Elements(Append(list, x)) = Elements(list) \cup {x}
<1>1. /\ Append(list, x) \in Seq(S)
      /\ DOMAIN Append(list, x) = 1 .. (Len(list) + 1) /\ Len(Append(list, x)) = Len(list) + 1
      /\ DOMAIN list = 1 .. Len(list) /\ Len(list) \in Nat
      /\ \A m \in DOMAIN list : Append(list, x)[m] = list[m]
      /\ Append(list, x)[Len(list) + 1] = x
  OBVIOUS
<1> DEFINE longer == Append(list, x)
<1> HIDE DEF longer
<1>2. \A m : m \in DOMAIN longer <=> m \in DOMAIN list \/ m = Len(list) + 1
  BY <1>1 DEF longer
<1>3. \A m \in DOMAIN list : longer[m] = list[m]
  BY <1>1 DEF longer
<1>4. longer[Len(list) + 1] = x
  BY <1>1 DEF longer
<1>5. Elements(longer) = Elements(list) \cup {x}
  BY <1>2, <1>3, <1>4 DEF Elements
<1> QED
  BY <1>1, <1>5 DEF longer

(***************************************************************************)
(* search                                                                  *)
(***************************************************************************)
SearchInv ==
  request.task = "search" =>
    /\ found \in Seq(Nat)
    /\ \A m \in DOMAIN found : found[m] < i /\ MatchesAt(found[m])
    /\ \A m, n \in DOMAIN found : m < n => found[m] < found[n]
    /\ \A o \in Nat : o < i /\ MatchesAt(o) => o \in Elements(found)
    /\ outcome = "Success" => result = found /\ ~MorePlaces

LEMMA SearchKeeps ==
  ASSUME TypeOK, SearchInv, [Next]_allVars
  PROVE  SearchInv'
<1> SUFFICES ASSUME request.task = "search"
             PROVE  SearchInv'
  BY Steps DEF SearchInv
<1>1. data' = data /\ request' = request /\ i \in Nat
  BY Steps DEF TypeOK
<1>2. \A o : MatchesAt(o)' <=> MatchesAt(o)
  BY <1>1 DEF MatchesAt, At
<1>3. /\ found \in Seq(Nat)
      /\ \A m \in DOMAIN found : found[m] < i /\ MatchesAt(found[m])
      /\ \A m, n \in DOMAIN found : m < n => found[m] < found[n]
      /\ \A o \in Nat : o < i /\ MatchesAt(o) => o \in Elements(found)
      /\ outcome = "Success" => result = found /\ ~MorePlaces
  BY DEF SearchInv
<1>4. ASSUME /\ found' \in Seq(Nat)
             /\ \A m \in DOMAIN found' : found'[m] < i' /\ MatchesAt(found'[m])
             /\ \A m, n \in DOMAIN found' : m < n => found'[m] < found'[n]
             /\ \A o \in Nat : o < i' /\ MatchesAt(o) => o \in Elements(found')
             /\ outcome' = "Success" => result' = found' /\ ~MorePlaces'
      PROVE  SearchInv'
  <2>1. \A x : x = found' => Elements(found)' = Elements(x)
    BY DEF Elements
  <2>2. \A m \in DOMAIN found' : MatchesAt(found[m])' <=> MatchesAt(found'[m])
    BY <1>1 DEF MatchesAt, At
  <2> QED
    BY <1>2, <1>4, <2>1, <2>2 DEF SearchInv
<1>5. CASE TryPlace
  <2>1. i' = i + 1 /\ outcome' = "none" /\ found' = IF MatchesAt(i) THEN Append(found, i) ELSE found
    BY <1>5 DEF TryPlace, Doing
  <2>2. \A o \in Nat : o < i' <=> o < i \/ o = i
    BY <1>1, <2>1
  <2>3. CASE MatchesAt(i)
    <3>1. found' = Append(found, i)
      BY <2>1, <2>3
    <3>2. /\ found' \in Seq(Nat) /\ Len(found) \in Nat
          /\ \A m : m \in DOMAIN found' <=> m \in DOMAIN found \/ m = Len(found) + 1
          /\ \A m \in DOMAIN found : found'[m] = found[m] /\ m < Len(found) + 1 /\ ~(Len(found) + 1 < m)
          /\ found'[Len(found) + 1] = i
          /\ Elements(found') = Elements(found) \cup {i}
      BY <1>1, <1>3, <3>1, Appended
    <3>3. \A m \in DOMAIN found : found[m] \in Nat
      BY <1>3
    <3>4. \A m \in DOMAIN found' : found'[m] < i' /\ MatchesAt(found'[m])
      BY <1>1, <1>3, <2>1, <2>3, <3>2, <3>3
    <3>5. \A m, n \in DOMAIN found' : m < n => found'[m] < found'[n]
      BY <1>3, <3>2, SMTT(30)
    <3> QED
      BY <1>3, <1>4, <2>1, <2>2, <3>2, <3>4, <3>5
  <2>4. CASE ~MatchesAt(i)
    <3>1. found' = found /\ \A m \in DOMAIN found : found[m] \in Nat
      BY <1>3, <2>1, <2>4
    <3>2. \A m \in DOMAIN found : found[m] < i'
      BY <1>1, <1>3, <2>1, <3>1
    <3> QED
      BY <1>3, <1>4, <2>1, <2>2, <2>4, <3>1, <3>2
  <2> QED
    BY <2>3, <2>4
<1>6. CASE EndSearch
  <2>1. i' = i /\ found' = found /\ result' = found /\ ~MorePlaces
    BY <1>6 DEF EndSearch, Finish
  <2>2. ~MorePlaces'
    BY <1>1, <2>1 DEF MorePlaces, Full, Size
  <2> QED
    BY <1>3, <1>4, <2>1, <2>2
<1>7. CASE UNCHANGED allVars
  <2>1. i' = i /\ found' = found /\ result' = result /\ outcome' = outcome
    BY <1>7 DEF allVars, vars
  <2>2. MorePlaces' <=> MorePlaces
    BY <1>1, <2>1 DEF MorePlaces, Full, Size
  <2> QED
    BY <1>3, <1>4, <2>1, <2>2
<1> QED
  BY <1>5, <1>6, <1>7, Steps

LEMMA SearchExact ==
  ASSUME TypeOK, SearchInv, outcome = "Success", request.task = "search"
  PROVE  MatchesAreExact
<1>1. /\ result \in Seq(Nat) /\ result = found /\ i \in Nat
      /\ \A m \in DOMAIN result : result[m] < i /\ MatchesAt(result[m])
      /\ \A m, n \in DOMAIN result : m < n => result[m] < result[n]
      /\ \A o \in Nat : o < i /\ MatchesAt(o) => o \in Elements(result)
      /\ ~MorePlaces
  BY DEF SearchInv, TypeOK
<1>2. Size \in Nat /\ Len(request.pattern) \in Nat
  BY Options
<1>3. ASSUME NEW o \in 0 .. (Size - Len(request.pattern)), MatchesAt(o), o \notin Elements(result)
      PROVE  Full(result) /\ \A m \in DOMAIN result : result[m] < o
  <2>1. o \in Nat /\ i <= o
    BY <1>1, <1>3
  <2>2. i + Len(request.pattern) <= Size
    BY <1>1, <1>2, <2>1
  <2>3. \A m \in DOMAIN result : result[m] < o
    <3>1. \A m \in DOMAIN result : result[m] \in Nat
      BY <1>1
    <3> QED
      BY <1>1, <2>1, <3>1
  <2> QED
    BY <1>1, <2>2, <2>3 DEF MorePlaces
<1> QED
  BY <1>1, <1>3 DEF MatchesAreExact

(***************************************************************************)
(* hexdump                                                                 *)
(***************************************************************************)
Line == [at : Nat, end : Nat]

HexdumpInv ==
  request.task = "hexdump" =>
    /\ found \in Seq(Line)
    /\ request.offset <= i
    /\ \A m \in DOMAIN found :
         /\ found[m].at < i
         /\ found[m].end - found[m].at = request.width \/ (EndOfDump <= i /\ m = Len(found))
    /\ Sorted(found)
    /\ request.offset <= Size => \A o \in Nat :
         (\E m \in DOMAIN found : o \in found[m].at .. (found[m].end - 1))
           <=> request.offset <= o /\ o < i /\ o < EndOfDump
    /\ outcome = "Success" => result = found /\ request.offset <= Size /\ EndOfDump <= i

LEMMA DumpEnds ==
  ASSUME TypeOK, request.task = "hexdump", request.offset <= Size
  PROVE  /\ EndOfDump \in Nat /\ request.offset <= EndOfDump /\ EndOfDump <= Size
         /\ \A o \in Nat : o < EndOfDump
              <=> o < Size /\ (request.length = 0 \/ o < request.offset + request.length)
<1>1. Size \in Nat /\ request.offset \in Nat /\ request.length \in Nat
  BY Options
<1> QED
  BY <1>1 DEF EndOfDump, Least

LEMMA HexdumpKeeps ==
  ASSUME TypeOK, HexdumpInv, [Next]_allVars
  PROVE  HexdumpInv'
<1> SUFFICES ASSUME request.task = "hexdump"
             PROVE  HexdumpInv'
  BY Steps DEF HexdumpInv
<1>1. data' = data /\ request' = request /\ i \in Nat /\ Size' = Size /\ EndOfDump' = EndOfDump
  BY Steps DEF TypeOK, Size, EndOfDump
<1>2. Size \in Nat /\ request.offset \in Nat /\ request.length \in Nat /\ request.width \in Nat /\ 1 <= request.width
  BY Options
<1>3. /\ found \in Seq(Line)
      /\ request.offset <= i
      /\ \A m \in DOMAIN found :
           /\ found[m].at < i
           /\ found[m].end - found[m].at = request.width \/ (EndOfDump <= i /\ m = Len(found))
      /\ \A m, n \in DOMAIN found : m < n => found[m].at < found[n].at
      /\ request.offset <= Size => \A o \in Nat :
           (\E m \in DOMAIN found : o \in found[m].at .. (found[m].end - 1))
             <=> request.offset <= o /\ o < i /\ o < EndOfDump
      /\ outcome = "Success" => result = found /\ request.offset <= Size /\ EndOfDump <= i
  BY DEF HexdumpInv, Sorted
<1>4. CASE AddLine
  <2> DEFINE line == [at |-> i, end |-> i + Least(request.width, EndOfDump - i)]
  <2>1. /\ request.offset <= Size /\ i < EndOfDump /\ i' = i + request.width /\ outcome' = "none"
        /\ found' = Append(found, line)
    BY <1>4 DEF AddLine, Dumping, Doing
  <2>2. EndOfDump \in Nat
    BY <2>1, DumpEnds
  <2>3. /\ line \in Line /\ line.at = i
        /\ line.end - i = request.width \/ EndOfDump <= i'
        /\ \A o \in Nat : o \in line.at .. (line.end - 1) <=> i <= o /\ o < i' /\ o < EndOfDump
    BY <1>1, <1>2, <2>1, <2>2 DEF Line, Least
  <2> HIDE DEF line
  <2>4. /\ found' \in Seq(Line) /\ Len(found) \in Nat /\ Len(found') = Len(found) + 1
        /\ \A m : m \in DOMAIN found' <=> m \in DOMAIN found \/ m = Len(found) + 1
        /\ \A m \in DOMAIN found : found'[m] = found[m] /\ m < Len(found) + 1 /\ ~(Len(found) + 1 < m)
        /\ found'[Len(found) + 1] = line
    BY <1>3, <2>1, <2>3, Appended
  <2>5. \A m \in DOMAIN found : found[m].at \in Nat /\ found[m].end \in Nat
    <3>1. \A m \in DOMAIN found : found[m] \in Line
      BY <1>3
    <3> QED
      BY <3>1 DEF Line
  <2>6. request.offset <= i'
    BY <1>1, <1>2, <1>3, <2>1
  <2>7. ASSUME NEW m \in DOMAIN found'
        PROVE  /\ found'[m].at < i'
               /\ found'[m].end - found'[m].at = request.width \/ (EndOfDump <= i' /\ m = Len(found'))
    <3>1. CASE m \in DOMAIN found
      BY <1>1, <1>2, <1>3, <2>1, <2>2, <2>4, <2>5, <3>1
    <3>2. CASE m = Len(found) + 1
      BY <1>1, <1>2, <2>1, <2>3, <2>4, <3>2
    <3> QED
      BY <2>4, <3>1, <3>2
  <2>8. \A m, n \in DOMAIN found' : m < n => found'[m].at < found'[n].at
    BY <1>3, <2>3, <2>4
  <2>9. ASSUME NEW o \in Nat
        PROVE  (\E m \in DOMAIN found' : o \in found'[m].at .. (found'[m].end - 1))
                 <=> request.offset <= o /\ o < i' /\ o < EndOfDump
    <3>1. (\E m \in DOMAIN found' : o \in found'[m].at .. (found'[m].end - 1))
            <=> (\E m \in DOMAIN found : o \in found[m].at .. (found[m].end - 1)) \/ o \in line.at .. (line.end - 1)
      BY <2>4
    <3>2. @ <=> (request.offset <= o /\ o < i /\ o < EndOfDump) \/ (i <= o /\ o < i' /\ o < EndOfDump)
      BY <1>3, <2>1, <2>3
    <3>3. @ <=> request.offset <= o /\ o < i' /\ o < EndOfDump
      BY <1>1, <1>2, <1>3, <2>1, <2>2
    <3> QED
      BY <3>1, <3>2, <3>3
  <2> QED
    BY <1>1, <2>1, <2>4, <2>6, <2>7, <2>8, <2>9 DEF HexdumpInv, Sorted
<1>5. CASE EndHexdump
  <2>1. /\ i' = i /\ found' = found /\ result' = found
        /\ request.offset <= Size /\ EndOfDump <= i
    <3>1. EndOfDump \in Nat /\ request.offset <= Size /\ i >= EndOfDump
      BY <1>5, DumpEnds DEF EndHexdump, Dumping
    <3> QED
      BY <1>1, <1>5, <3>1 DEF EndHexdump, Finish
  <2> QED
    BY <1>1, <1>3, <2>1 DEF HexdumpInv, Sorted
<1>6. CASE OffsetBeyond \/ UNCHANGED allVars
  <2>1. i' = i /\ found' = found /\ result' = result /\ (outcome' = outcome \/ outcome' = "InvalidArguments")
    BY <1>6 DEF OffsetBeyond, allVars, vars
  <2> QED
    BY <1>1, <1>3, <2>1 DEF HexdumpInv, Sorted
<1> QED
  BY <1>4, <1>5, <1>6, Steps

LEMMA HexdumpExact ==
  ASSUME TypeOK, HexdumpInv, outcome = "Success", request.task = "hexdump"
  PROVE  LinesAreExact
<1>1. /\ result \in Seq(Line) /\ request.offset <= Size /\ EndOfDump <= i
      /\ \A m \in DOMAIN result : result[m].end - result[m].at = request.width \/ m = Len(result)
      /\ Sorted(result)
      /\ \A o \in Nat : (\E m \in DOMAIN result : o \in result[m].at .. (result[m].end - 1))
           <=> request.offset <= o /\ o < i /\ o < EndOfDump
  BY DEF HexdumpInv
<1>2. /\ EndOfDump \in Nat
      /\ \A o \in Nat : o < EndOfDump
           <=> o < Size /\ (request.length = 0 \/ o < request.offset + request.length)
  BY <1>1, DumpEnds
<1>3. Size \in Nat /\ request.offset \in Nat /\ i \in Nat
  BY Options DEF TypeOK
<1>4. \A m \in DOMAIN result : \A o \in result[m].at .. (result[m].end - 1) : o \in Nat
  <2>1. \A m \in DOMAIN result : result[m] \in Line
    BY <1>1
  <2>2. \A m \in DOMAIN result : result[m].at \in Nat /\ result[m].end \in Nat
    BY <2>1 DEF Line
  <2> QED
    BY <2>2
<1>5. \A o \in Nat : o < EndOfDump => o < i
  BY <1>1, <1>2, <1>3
<1>6. ASSUME NEW o
      PROVE  o \in UNION {result[m].at .. (result[m].end - 1) : m \in DOMAIN result}
               <=> o \in {x \in request.offset .. (Size - 1) : request.length = 0 \/ x < request.offset + request.length}
  <2>1. o \in UNION {result[m].at .. (result[m].end - 1) : m \in DOMAIN result}
          <=> \E m \in DOMAIN result : o \in result[m].at .. (result[m].end - 1)
    OBVIOUS
  <2>2. @ <=> o \in Nat /\ request.offset <= o /\ o < EndOfDump
    BY <1>1, <1>4, <1>5
  <2>3. @ <=> o \in Nat /\ request.offset <= o /\ o < Size /\ (request.length = 0 \/ o < request.offset + request.length)
    BY <1>2
  <2>4. o \in request.offset .. (Size - 1) <=> o \in Nat /\ request.offset <= o /\ o < Size
    BY <1>3
  <2> QED
    BY <2>1, <2>2, <2>3, <2>4
<1> QED
  BY <1>1, <1>6 DEF LinesAreExact

(***************************************************************************)
(* regions                                                                 *)
(***************************************************************************)
Region == [at : Nat, end : Nat, kind : {"zero", "printable", "binary"}]

RegionsInv ==
  request.task = "regions" =>
    /\ found \in Seq(Region)
    /\ start <= i /\ i <= Size /\ (start = i => i = 0)
    /\ \A o \in start .. (i - 1) : KindOf(At(o)) = KindOf(At(start))
    /\ start > 0 => KindOf(At(start - 1)) # KindOf(At(start))
    /\ \A m \in DOMAIN found : found[m] \in RegionsByDefinition /\ found[m].at < start
    /\ Sorted(found)
    /\ \A x \in RegionsByDefinition : x.at < start => x \in Elements(found)
    /\ outcome = "Success" => Sorted(result) /\ Elements(result) = RegionsByDefinition

(* A region that ends at `end' is the one that begins at `start'.          *)
LEMMA RegionAt ==
  ASSUME TypeOK, request.task = "regions", NEW end \in Nat, start < end, end <= Size,
         \A o \in start .. (end - 1) : KindOf(At(o)) = KindOf(At(start)),
         start > 0 => KindOf(At(start - 1)) # KindOf(At(start)),
         end < Size => KindOf(At(end)) # KindOf(At(start))
  PROVE  LET region == [at |-> start, end |-> end, kind |-> KindOf(At(start))]
         IN  /\ region \in Region
             /\ end - start >= request.min => region \in RegionsByDefinition
             /\ \A x \in RegionsByDefinition : start <= x.at /\ x.at < end => x = region /\ end - start >= request.min
<1> DEFINE region == [at |-> start, end |-> end, kind |-> KindOf(At(start))]
           Kinds == {"zero", "printable", "binary"}
<1>1. Size \in Nat /\ start \in Nat /\ request.min \in Nat /\ request.min >= 1
  BY Options DEF TypeOK
<1>2. \A o : KindOf(At(o)) \in Kinds
  BY DEF KindOf
<1>3. region \in Region
  BY <1>1, <1>2 DEF Region
<1>4. ASSUME end - start >= request.min
      PROVE  region \in RegionsByDefinition
  <2>1. region \in [at : 0 .. (Size - 1), end : 1 .. Size, kind : Kinds]
    BY <1>1, <1>2
  <2> QED
    BY <1>4, <2>1 DEF RegionsByDefinition
<1>5. ASSUME NEW x \in RegionsByDefinition, start <= x.at, x.at < end
      PROVE  x = region /\ end - start >= request.min
  <2>1. /\ x \in [at : 0 .. (Size - 1), end : 1 .. Size, kind : Kinds]
        /\ x.end - x.at >= request.min
        /\ \A o \in x.at .. (x.end - 1) : KindOf(At(o)) = x.kind
        /\ x.at > 0 => KindOf(At(x.at - 1)) # x.kind
        /\ x.end < Size => KindOf(At(x.end)) # x.kind
    BY DEF RegionsByDefinition
  <2>2. x.at \in Nat /\ x.end \in Nat /\ x.at < x.end /\ x.end <= Size
    BY <1>1, <2>1
  <2>3. x.kind = KindOf(At(start))
    <3>1. x.at \in start .. (end - 1) /\ x.at \in x.at .. (x.end - 1)
      BY <1>1, <1>5, <2>2
    <3> QED
      BY <2>1, <3>1
  <2>4. x.at = start
    <3>1. SUFFICES ASSUME x.at # start PROVE FALSE
      OBVIOUS
    <3>2. x.at > 0 /\ x.at - 1 \in start .. (end - 1)
      BY <1>1, <1>5, <2>2, <3>1
    <3> QED
      BY <2>1, <2>3, <3>2
  <2>5. ~(x.end < end)
    <3>1. SUFFICES ASSUME x.end < end PROVE FALSE
      OBVIOUS
    <3>2. x.end \in start .. (end - 1) /\ x.end < Size
      BY <1>1, <2>2, <2>4, <3>1
    <3> QED
      BY <2>1, <2>3, <3>2
  <2>6. ~(end < x.end)
    <3>1. SUFFICES ASSUME end < x.end PROVE FALSE
      OBVIOUS
    <3>2. end \in x.at .. (x.end - 1) /\ end < Size
      BY <1>1, <1>5, <2>2, <3>1
    <3> QED
      BY <2>1, <2>3, <3>2
  <2>7. x.end = end
    BY <2>2, <2>5, <2>6
  <2>8. x = [at |-> x.at, end |-> x.end, kind |-> x.kind]
    BY <2>1
  <2> QED
    BY <2>1, <2>3, <2>4, <2>7, <2>8
<1> QED
  BY <1>3, <1>4, <1>5

(* What is found up to a region's end.                                     *)
LEMMA FoundWithRegion ==
  ASSUME TypeOK, RegionsInv, request.task = "regions", NEW end \in Nat, start < end, end <= Size,
         \A o \in start .. (end - 1) : KindOf(At(o)) = KindOf(At(start)),
         end < Size => KindOf(At(end)) # KindOf(At(start))
  PROVE  LET list == WithRegion(end)
         IN  /\ list \in Seq(Region) /\ Sorted(list)
             /\ \A m \in DOMAIN list : list[m] \in RegionsByDefinition /\ list[m].at < end
             /\ \A x \in RegionsByDefinition : x.at < end => x \in Elements(list)
<1> DEFINE region == [at |-> start, end |-> end, kind |-> KindOf(At(start))]
           list == WithRegion(end)
<1>1. start \in Nat /\ request.min \in Nat
  BY Options DEF TypeOK
<1>2. /\ found \in Seq(Region)
      /\ start > 0 => KindOf(At(start - 1)) # KindOf(At(start))
      /\ \A m \in DOMAIN found : found[m] \in RegionsByDefinition /\ found[m].at < start
      /\ \A m, n \in DOMAIN found : m < n => found[m].at < found[n].at
      /\ \A x \in RegionsByDefinition : x.at < start => x \in Elements(found)
  BY DEF RegionsInv, Sorted
<1>3. /\ region \in Region
      /\ end - start >= request.min => region \in RegionsByDefinition
      /\ \A x \in RegionsByDefinition : start <= x.at /\ x.at < end => x = region /\ end - start >= request.min
  BY <1>2, RegionAt
<1>4. list = IF end - start >= request.min THEN Append(found, region) ELSE found
  BY DEF WithRegion
<1>5. region.at = start
  OBVIOUS
<1>6. \A x \in RegionsByDefinition : x.at \in Nat
  BY Options DEF RegionsByDefinition
<1>7. \A m \in DOMAIN found : found[m].at \in Nat /\ found[m].at < end
  BY <1>1, <1>2, <1>6
<1> HIDE DEF region, list
<1>8. CASE end - start >= request.min
  <2>1. list = Append(found, region)
    BY <1>4, <1>8
  <2>2. /\ list \in Seq(Region) /\ Len(found) \in Nat /\ Len(list) = Len(found) + 1
        /\ \A m : m \in DOMAIN list <=> m \in DOMAIN found \/ m = Len(found) + 1
        /\ \A m \in DOMAIN found : list[m] = found[m] /\ m < Len(found) + 1 /\ ~(Len(found) + 1 < m)
        /\ list[Len(found) + 1] = region
        /\ Elements(list) = Elements(found) \cup {region}
    BY <1>2, <1>3, <2>1, Appended
  <2>3. \A m \in DOMAIN list : list[m] \in RegionsByDefinition /\ list[m].at < end
    BY <1>2, <1>3, <1>5, <1>7, <1>8, <2>2
  <2>4. Sorted(list)
    BY <1>2, <1>5, <2>2 DEF Sorted
  <2>5. ASSUME NEW x \in RegionsByDefinition, x.at < end PROVE x \in Elements(list)
    <3>1. x.at < start \/ start <= x.at
      BY <1>1, <1>6
    <3> QED
      BY <1>2, <1>3, <2>2, <2>5, <3>1
  <2> QED
    BY <2>2, <2>3, <2>4, <2>5 DEF list
<1>9. CASE ~(end - start >= request.min)
  <2>1. list = found
    BY <1>4, <1>9
  <2>2. ASSUME NEW x \in RegionsByDefinition, x.at < end PROVE x \in Elements(list)
    <3>1. x.at < start
      BY <1>1, <1>3, <1>6, <1>9, <2>2
    <3> QED
      BY <1>2, <2>1, <3>1
  <2> QED
    BY <1>2, <1>7, <2>1, <2>2 DEF list, Sorted
<1> QED
  BY <1>8, <1>9

LEMMA RegionsKeep ==
  ASSUME TypeOK, RegionsInv, [Next]_allVars
  PROVE  RegionsInv'
<1> SUFFICES ASSUME request.task = "regions"
             PROVE  RegionsInv'
  BY Steps DEF RegionsInv
<1>1. data' = data /\ request' = request /\ i \in Nat /\ start \in Nat /\ Size \in Nat /\ Size' = Size
  BY Steps, Options DEF TypeOK, Size
<1>2. \A o : KindOf(At(o))' = KindOf(At(o))
  BY <1>1 DEF KindOf, At
<1>3. RegionsByDefinition' = RegionsByDefinition
  BY <1>1 DEF RegionsByDefinition, At
<1>4. /\ found \in Seq(Region)
      /\ start <= i /\ i <= Size /\ (start = i => i = 0)
      /\ \A o \in start .. (i - 1) : KindOf(At(o)) = KindOf(At(start))
      /\ start > 0 => KindOf(At(start - 1)) # KindOf(At(start))
      /\ \A m \in DOMAIN found : found[m] \in RegionsByDefinition /\ found[m].at < start
      /\ Sorted(found)
      /\ \A x \in RegionsByDefinition : x.at < start => x \in Elements(found)
      /\ outcome = "Success" => Sorted(result) /\ Elements(result) = RegionsByDefinition
  BY DEF RegionsInv
<1>5. ASSUME /\ found' \in Seq(Region)
             /\ start' <= i' /\ i' <= Size /\ (start' = i' => i' = 0)
             /\ \A o \in start' .. (i' - 1) : KindOf(At(o)) = KindOf(At(start'))
             /\ start' > 0 => KindOf(At(start' - 1)) # KindOf(At(start'))
             /\ \A m \in DOMAIN found' : found'[m] \in RegionsByDefinition /\ found'[m].at < start'
             /\ Sorted(found')
             /\ \A x \in RegionsByDefinition : x.at < start' => x \in Elements(found')
             /\ outcome' = "Success" => Sorted(result') /\ Elements(result') = RegionsByDefinition
      PROVE  RegionsInv'
  <2>1. \A s : s = start' => KindOf(At(start))' = KindOf(At(s)) /\ KindOf(At(start - 1))' = KindOf(At(s - 1))
    BY <1>1 DEF KindOf, At
  <2>2. /\ \A x : x = found' => Elements(found)' = Elements(x) /\ Sorted(found)' = Sorted(x)
        /\ \A x : x = result' => Elements(result)' = Elements(x) /\ Sorted(result)' = Sorted(x)
    BY DEF Elements, Sorted
  <2> QED
    BY <1>1, <1>2, <1>3, <1>5, <2>1, <2>2 DEF RegionsInv
<1>6. CASE NextByte
  <2>1. i < Size /\ i' = i + 1 /\ outcome' = "none"
    BY <1>6 DEF NextByte, Doing
  <2>2. CASE KindOf(At(i)) = KindOf(At(start))
    <3>1. start' = start /\ found' = found
      BY <1>6, <2>2 DEF NextByte
    <3>2. \A o \in start .. (i' - 1) : o \in start .. (i - 1) \/ o = i
      BY <1>1, <2>1
    <3>3. start <= i' /\ i' <= Size /\ start # i'
      BY <1>1, <1>4, <2>1
    <3> QED
      BY <1>4, <1>5, <2>1, <2>2, <3>1, <3>2, <3>3
  <2>3. CASE KindOf(At(i)) # KindOf(At(start))
    <3>1. start' = i /\ found' = WithRegion(i)
      BY <1>6, <2>3 DEF NextByte
    <3>2. start < i
      BY <1>1, <1>4, <2>3
    <3> DEFINE list == WithRegion(i)
    <3>3. /\ list \in Seq(Region) /\ Sorted(list)
          /\ \A m \in DOMAIN list : list[m] \in RegionsByDefinition /\ list[m].at < i
          /\ \A x \in RegionsByDefinition : x.at < i => x \in Elements(list)
      BY <1>1, <1>4, <2>3, <3>2, FoundWithRegion
    <3> HIDE DEF list
    <3>4. \A o \in i .. (i' - 1) : o = i
      BY <1>1, <2>1
    <3>5. i <= i' /\ i' <= Size /\ i # i'
      BY <1>1, <2>1
    <3>6. KindOf(At(i - 1)) # KindOf(At(i))
      <4>1. i - 1 \in start .. (i - 1)
        BY <1>1, <3>2
      <4> QED
        BY <1>4, <2>3, <4>1
    <3> QED
      BY <1>5, <2>1, <3>1, <3>3, <3>4, <3>5, <3>6 DEF list
  <2> QED
    BY <2>2, <2>3
<1>7. CASE EndRegions
  <2>1. /\ i = Size /\ i' = i /\ start' = start /\ found' = found
        /\ result' = IF data = <<>> THEN <<>> ELSE WithRegion(Size)
    BY <1>7 DEF EndRegions, Finish
  <2>2. CASE data = <<>>
    <3>1. Size = 0 /\ result' = <<>>
      BY <2>1, <2>2 DEF Size
    <3>2. RegionsByDefinition = {}
      BY <3>1 DEF RegionsByDefinition
    <3>3. Sorted(<<>>) /\ Elements(<<>>) = {}
      BY DEF Sorted, Elements
    <3> QED
      BY <1>4, <1>5, <2>1, <3>1, <3>2, <3>3
  <2>3. CASE data # <<>>
    <3>1. Size > 0 /\ result' = WithRegion(Size)
      <4>1. Len(data) \in Nat /\ Len(data) # 0
        BY <2>3 DEF TypeOK
      <4> QED
        BY <2>1, <2>3, <4>1 DEF Size
    <3>2. start < Size
      BY <1>1, <1>4, <2>1, <3>1
    <3> DEFINE list == WithRegion(Size)
    <3>3. /\ list \in Seq(Region) /\ Sorted(list)
          /\ \A m \in DOMAIN list : list[m] \in RegionsByDefinition /\ list[m].at < Size
          /\ \A x \in RegionsByDefinition : x.at < Size => x \in Elements(list)
      BY <1>1, <1>4, <2>1, <3>2, FoundWithRegion
    <3>4. \A x \in RegionsByDefinition : x.at < Size
      BY <1>1 DEF RegionsByDefinition
    <3> HIDE DEF list
    <3>5. Elements(list) = RegionsByDefinition
      BY <3>3, <3>4 DEF Elements
    <3> QED
      BY <1>4, <1>5, <2>1, <3>1, <3>3, <3>5 DEF list
  <2> QED
    BY <2>2, <2>3
<1>8. CASE UNCHANGED allVars
  <2>1. i' = i /\ start' = start /\ found' = found /\ result' = result /\ outcome' = outcome
    BY <1>8 DEF allVars, vars
  <2> QED
    BY <1>4, <1>5, <2>1
<1> QED
  BY <1>6, <1>7, <1>8, Steps

(***************************************************************************)
(* strings                                                                 *)
(***************************************************************************)
LEMMA LeastNumber ==
  ASSUME NEW S, S \subseteq Nat, S # {}
  PROVE  \E x \in S : \A y \in S : x <= y
<1>1. PICK x \in S : \A y \in S : ~(<<y, x>> \in OpToRel(<, Nat))
  BY NatLessThanWellFounded, WFMin
<1>2. \A y \in S : <<y, x>> \in OpToRel(<, Nat) <=> y < x
  BY DEF OpToRel
<1>3. \A y \in S : ~(y < x)
  BY <1>1, <1>2
<1>4. \A y \in S : y \in Int /\ x \in Int
  OBVIOUS
<1> QED
  BY <1>3, <1>4

Text == [at : Nat, end : Nat, as : {"ascii", "utf8", "utf16le", "utf16be"}]

(* Multiples of the size of a character. *)
LEMMA Multiples ==
  ASSUME NEW e, NEW a \in Nat, NEW b \in Nat, a % Unit(e) = 0
  PROVE  /\ Unit(e) \in Nat /\ Unit(e) >= 1
         /\ (a + Unit(e)) % Unit(e) = 0 /\ 0 % Unit(e) = 0
         /\ a <= b => ((b - a) % Unit(e) = 0 <=> b % Unit(e) = 0)
         /\ b % Unit(e) = 0 /\ a < b =>
              b - Unit(e) \in Nat /\ a <= b - Unit(e) /\ (b - Unit(e)) % Unit(e) = 0
<1>1. Unit(e) = 1 \/ Unit(e) = 2
  BY DEF Unit
<1>2. CASE Unit(e) = 1
  BY <1>2
<1>3. CASE Unit(e) = 2
  BY <1>3
<1> QED
  BY <1>1, <1>2, <1>3

(* Every string ends. *)
LEMMA StringEnds ==
  ASSUME TypeOK, NEW e, NEW from \in Nat, from % Unit(e) = 0, Legible(e, from)
  PROVE  LET end == EndOfString(e, from)
         IN  /\ end \in Nat /\ from < end /\ end <= Size
             /\ end % Unit(e) = 0 /\ ~Legible(e, end)
             /\ \A o \in from .. (end - 1) : o % Unit(e) = 0 => Legible(e, o)
<1> DEFINE S == {x \in from .. Size : x % Unit(e) = 0 /\ ~Legible(e, x)}
<1>1. Size \in Nat /\ from + Unit(e) <= Size
  BY Options DEF Legible
<1>2. Unit(e) = 1 \/ Unit(e) = 2
  BY DEF Unit
<1>3. S # {}
  <2>1. \A x \in Nat : x + Unit(e) > Size => ~Legible(e, x)
    <3>1. \A x \in Nat : x + Unit(e) > Size => ~(x + Unit(e) <= Size)
      BY <1>1, <1>2
    <3> QED
      BY <3>1 DEF Legible
  <2>2. CASE Unit(e) = 1
    <3>1. Size \in from .. Size /\ Size % Unit(e) = 0 /\ Size + Unit(e) > Size
      BY <1>1, <2>2
    <3> QED
      BY <1>1, <2>1, <3>1
  <2>3. CASE Unit(e) = 2
    <3>1. \E x \in from .. Size : x \in Nat /\ x % 2 = 0 /\ x + 2 > Size
      <4>1. CASE Size % 2 = 0
        BY <1>1, <2>3, <4>1
      <4>2. CASE Size % 2 # 0
        <5>1. Size - 1 \in from .. Size /\ Size - 1 \in Nat /\ (Size - 1) % 2 = 0 /\ Size - 1 + 2 > Size
          BY <1>1, <2>3, <4>2
        <5> QED
          BY <5>1
      <4> QED
        BY <4>1, <4>2
    <3> QED
      BY <2>1, <2>3, <3>1
  <2> QED
    BY <1>2, <2>2, <2>3
<1>4. PICK x \in S : \A y \in S : x <= y
  <2>1. S \subseteq Nat
    BY <1>1
  <2> HIDE DEF S
  <2> QED
    BY <1>3, <2>1, LeastNumber
<1>5. \A o \in from .. Size : (o - from) % Unit(e) = 0 <=> o % Unit(e) = 0
  <2>1. \A o \in from .. Size : o \in Nat /\ from <= o
    BY <1>1
  <2> QED
    BY <2>1, Multiples
<1>6. x \in from .. Size /\ (x - from) % Unit(e) = 0 /\ ~Legible(e, x)
  BY <1>4, <1>5
<1>7. \A o \in from .. (x - 1) : (o - from) % Unit(e) = 0 => Legible(e, o)
  <2>1. \A o \in from .. (x - 1) : o \in from .. Size /\ ~(x <= o)
    BY <1>1, <1>6
  <2> QED
    BY <1>4, <1>5, <2>1
<1> DEFINE end == EndOfString(e, from)
<1>8. /\ end \in from .. Size
      /\ (end - from) % Unit(e) = 0 /\ ~Legible(e, end)
      /\ \A o \in from .. (end - 1) : (o - from) % Unit(e) = 0 => Legible(e, o)
  BY <1>6, <1>7 DEF EndOfString
<1> HIDE DEF end
<1>9. \A o \in from .. (end - 1) : o \in from .. Size
  BY <1>1, <1>8
<1>10. end \in Nat /\ from <= end /\ end <= Size /\ end # from
  BY <1>1, <1>8
<1> QED
  BY <1>5, <1>8, <1>9, <1>10 DEF end

(* A string that is taken is the only one that begins where it was found.  *)
LEMMA StringAt ==
  ASSUME TypeOK, request.task = "strings", NEW e, NEW at \in Nat, NEW end \in Nat,
         at < end, end <= Size, at % Unit(e) = 0, end % Unit(e) = 0,
         ~Legible(e, end), \A o \in at .. (end - 1) : o % Unit(e) = 0 => Legible(e, o)
  PROVE  LET text == [at |-> at, end |-> end, as |-> e]
         IN  /\ ~Legible(e, at - Unit(e)) /\ (end - at) \div Unit(e) >= request.min => text \in StringsOf(e)
             /\ \A x \in StringsOf(e) : at <= x.at /\ x.at < end =>
                  x = text /\ (end - at) \div Unit(e) >= request.min
<1> DEFINE text == [at |-> at, end |-> end, as |-> e]
<1>1. Size \in Nat
  BY Options
<1>2. ASSUME ~Legible(e, at - Unit(e)), (end - at) \div Unit(e) >= request.min
      PROVE  text \in StringsOf(e)
  <2>1. text \in [at : 0 .. Size, end : 0 .. Size, as : {e}]
    BY <1>1
  <2> QED
    BY <1>2, <2>1 DEF StringsOf
<1>3. ASSUME NEW x \in StringsOf(e), at <= x.at, x.at < end
      PROVE  x = text /\ (end - at) \div Unit(e) >= request.min
  <2>1. /\ x \in [at : 0 .. Size, end : 0 .. Size, as : {e}]
        /\ x.at % Unit(e) = 0 /\ x.end % Unit(e) = 0
        /\ x.at < x.end /\ (x.end - x.at) \div Unit(e) >= request.min
        /\ \A o \in x.at .. (x.end - 1) : o % Unit(e) = 0 => Legible(e, o)
        /\ ~Legible(e, x.at - Unit(e)) /\ ~Legible(e, x.end)
    BY DEF StringsOf
  <2>2. x.at \in Nat /\ x.end \in Nat /\ x.as = e
    BY <1>1, <2>1
  <2>3. x.at = at
    <3>1. SUFFICES ASSUME at < x.at PROVE FALSE
      BY <1>3, <2>2
    <3>2. /\ x.at - Unit(e) \in Nat /\ at <= x.at - Unit(e) /\ (x.at - Unit(e)) % Unit(e) = 0
          /\ Unit(e) \in Nat /\ Unit(e) >= 1
      BY <2>1, <2>2, <3>1, Multiples
    <3>3. x.at - Unit(e) \in at .. (end - 1)
      BY <1>3, <2>2, <3>2
    <3> QED
      BY <2>1, <3>2, <3>3
  <2>4. ~(x.end < end)
    <3>1. SUFFICES ASSUME x.end < end PROVE FALSE
      OBVIOUS
    <3>2. x.end \in at .. (end - 1)
      BY <2>1, <2>2, <2>3, <3>1
    <3> QED
      BY <2>1, <3>2
  <2>5. ~(end < x.end)
    <3>1. SUFFICES ASSUME end < x.end PROVE FALSE
      OBVIOUS
    <3>2. end \in x.at .. (x.end - 1)
      BY <2>1, <2>2, <2>3, <3>1
    <3> QED
      BY <2>1, <3>2
  <2>6. x.end = end
    BY <2>2, <2>4, <2>5
  <2>7. x = [at |-> x.at, end |-> x.end, as |-> x.as]
    BY <2>1
  <2> QED
    BY <2>1, <2>2, <2>3, <2>6, <2>7
<1> QED
  BY <1>2, <1>3

(* The encoding in hand: what was found up to `i'. *)
ScanOK ==
  /\ i % Unit(Encoding) = 0
  /\ i = 0 \/ ~Legible(Encoding, i - Unit(Encoding)) \/ ~Legible(Encoding, i)
  /\ \A m \in DOMAIN found : found[m] \in StringsOf(Encoding) /\ found[m].at < i
  /\ Sorted(found)
  /\ \A x \in StringsOf(Encoding) : x.at < i => x \in Elements(found)

(* The encodings before: a string that is missing comes behind a limit of  *)
(* strings.                                                                *)
PassedOK ==
  /\ \A m, n \in DOMAIN result : m < n => Precedes(result[m], result[n])
  /\ \A m \in DOMAIN result : \E p \in 1 .. (pass - 1) : result[m] \in StringsOf(request.encodings[p])
  /\ \A p \in 1 .. (pass - 1) : \A x \in StringsOf(request.encodings[p]) :
       \/ x \in Elements(result)
       \/ request.max # 0 /\ \E n \in DOMAIN result :
            n >= request.max /\ \A m \in 1 .. n : Precedes(result[m], x)

StringsInv ==
  request.task = "strings" =>
    /\ found \in Seq(Text) /\ result \in Seq(Text)
    /\ pass <= Len(request.encodings) + 1
    /\ outcome = "none" /\ pass <= Len(request.encodings) => ScanOK
    /\ outcome = "none" => PassedOK
    /\ outcome = "Success" => StringsAreExact

LEMMA StringFacts ==
  ASSUME TypeOK, request.task = "strings"
  PROVE  /\ DOMAIN request.encodings = 1 .. Len(request.encodings) /\ Len(request.encodings) \in Nat
         /\ \A p \in DOMAIN request.encodings : Place(request.encodings[p]) = p
         /\ \A p \in DOMAIN request.encodings : StringsOf(request.encodings[p]) \subseteq Text
         /\ \A e : \A x \in StringsOf(e) : x.as = e /\ x.at \in Nat
<1>1. /\ request.encodings \in Seq({"ascii", "utf8", "utf16le", "utf16be"})
      /\ \A p, q \in DOMAIN request.encodings : request.encodings[p] = request.encodings[q] => p = q
  BY Options DEF EncodingList
<1>2. \A p \in DOMAIN request.encodings : Place(request.encodings[p]) = p
  BY <1>1 DEF Place
<1>3. ASSUME NEW e PROVE StringsOf(e) \subseteq [at : Nat, end : Nat, as : {e}]
  <2>1. 0 .. Size \subseteq Nat
    BY Options
  <2> QED
    BY <2>1 DEF StringsOf
<1>4. \A p \in DOMAIN request.encodings : request.encodings[p] \in {"ascii", "utf8", "utf16le", "utf16be"}
  BY <1>1
<1>5. \A p \in DOMAIN request.encodings : StringsOf(request.encodings[p]) \subseteq Text
  BY <1>3, <1>4 DEF Text
<1>6. \A e : \A x \in StringsOf(e) : x.as = e /\ x.at \in Nat
  BY <1>3
<1>7. DOMAIN request.encodings = 1 .. Len(request.encodings) /\ Len(request.encodings) \in Nat
  BY <1>1
<1> QED
  BY <1>2, <1>5, <1>6, <1>7

LEMMA SameStrings ==
  ASSUME data' = data, request' = request
  PROVE  /\ \A e, o : Legible(e, o)' <=> Legible(e, o)
         /\ \A e : StringsOf(e)' = StringsOf(e)
         /\ \A x, y : Precedes(x, y)' <=> Precedes(x, y)
<1>1. \A e, o : Legible(e, o)' <=> Legible(e, o)
  BY DEF Legible, Character, At, Size
<1>2. \A e : StringsOf(e)' = StringsOf(e)
  BY <1>1 DEF StringsOf, Size
<1>3. \A e : Place(e)' = Place(e)
  BY DEF Place
<1>4. \A x, y : Precedes(x, y)' <=> Precedes(x, y)
  BY <1>3 DEF Precedes
<1> QED
  BY <1>1, <1>2, <1>4

LEMMA ScanKeeps ==
  ASSUME TypeOK, StringsInv, request.task = "strings", SkipCharacter \/ TakeString
  PROVE  found' \in Seq(Text) /\ ScanOK'
<1> DEFINE e == Encoding
<1>0. /\ data' = data /\ request' = request /\ pass' = pass
      /\ outcome = "none" /\ pass \in DOMAIN request.encodings
      /\ i \in Nat /\ Size \in Nat
  <2>1. /\ data' = data /\ request' = request /\ pass' = pass
        /\ outcome = "none" /\ pass <= Len(request.encodings)
    BY DEF SkipCharacter, TakeString, Extracting, Doing
  <2>2. /\ DOMAIN request.encodings = 1 .. Len(request.encodings) /\ Len(request.encodings) \in Nat
        /\ pass \in Nat \ {0} /\ i \in Nat /\ Size \in Nat
    BY StringFacts, Options DEF TypeOK
  <2> QED
    BY <2>1, <2>2
<1>1. /\ StringsOf(e) \subseteq Text
      /\ \A x \in StringsOf(e) : x.as = e /\ x.at \in Nat
  BY <1>0, StringFacts DEF Encoding
<1>2. found \in Seq(Text) /\ ScanOK
  BY <1>0, StringFacts DEF StringsInv, TypeOK
<1>3. /\ i % Unit(e) = 0
      /\ i = 0 \/ ~Legible(e, i - Unit(e)) \/ ~Legible(e, i)
      /\ \A m \in DOMAIN found : found[m] \in StringsOf(e) /\ found[m].at < i
      /\ \A m, n \in DOMAIN found : m < n => found[m].at < found[n].at
      /\ \A x \in StringsOf(e) : x.at < i => x \in Elements(found)
  BY <1>2 DEF ScanOK, Sorted
<1>4. ASSUME /\ i' % Unit(e) = 0
             /\ i' = 0 \/ ~Legible(e, i' - Unit(e)) \/ ~Legible(e, i')
             /\ \A m \in DOMAIN found' : found'[m] \in StringsOf(e) /\ found'[m].at < i'
             /\ \A m, n \in DOMAIN found' : m < n => found'[m].at < found'[n].at
             /\ \A x \in StringsOf(e) : x.at < i' => x \in Elements(found')
      PROVE  ScanOK'
  <2>1. Encoding' = e
    BY <1>0 DEF Encoding
  <2>2. \A d, o : d = e => (Legible(d, o)' <=> Legible(e, o))
    BY <1>0, SameStrings
  <2>3. \A d : d = e => StringsOf(d)' = StringsOf(e)
    BY <1>0, SameStrings
  <2>4. /\ Legible(Encoding, i)' <=> Legible(e, i')
        /\ Legible(Encoding, i - Unit(Encoding))' <=> Legible(e, i' - Unit(e))
        /\ StringsOf(Encoding)' = StringsOf(e)
        /\ Unit(Encoding)' = Unit(e)
    BY <1>0, <2>1 DEF Legible, Character, At, Size, Unit, StringsOf
  <2>5. Elements(found)' = Elements(found') /\ Sorted(found)' = Sorted(found')
    BY DEF Elements, Sorted
  <2> HIDE DEF e
  <2> QED
    BY <1>4, <2>1, <2>4, <2>5 DEF ScanOK, Sorted
<1> HIDE DEF e
<1>5. CASE SkipCharacter
  <2>1. i' = i + Unit(e) /\ ~Legible(e, i) /\ found' = found
    BY <1>5 DEF SkipCharacter, e
  <2>2. Unit(e) \in Nat /\ Unit(e) >= 1 /\ (i + Unit(e)) % Unit(e) = 0
    BY <1>0, <1>3, Multiples
  <2>3. i' - Unit(e) = i /\ i < i'
    BY <1>0, <2>1, <2>2
  <2>4. \A m \in DOMAIN found : found[m].at < i'
    BY <1>0, <1>1, <1>3, <2>1, <2>2
  <2>5. ASSUME NEW x \in StringsOf(e), x.at < i', ~(x.at < i) PROVE FALSE
    <3>1. x.at \in Nat /\ x.end \in Nat /\ x.at % Unit(e) = 0 /\ x.at < x.end
          /\ \A o \in x.at .. (x.end - 1) : o % Unit(e) = 0 => Legible(e, o)
      BY <1>0 DEF StringsOf
    <3>2. x.at = i
      <4>1. SUFFICES ASSUME i < x.at PROVE FALSE
        BY <1>0, <2>5, <3>1
      <4>2. i <= x.at - Unit(e)
        BY <1>0, <1>3, <3>1, <4>1, Multiples
      <4> QED
        BY <1>0, <2>1, <2>2, <2>5, <3>1, <4>2
    <3>3. x.at \in x.at .. (x.end - 1)
      BY <3>1
    <3> QED
      BY <2>1, <3>1, <3>2, <3>3
  <2> QED
    BY <1>2, <1>3, <1>4, <2>1, <2>2, <2>3, <2>4, <2>5
<1>6. CASE TakeString
  <2> DEFINE text == [at |-> i, end |-> i', as |-> e]
  <2>1. /\ Legible(e, i) /\ i' = EndOfString(e, i)
        /\ found' = IF (i' - i) \div Unit(e) >= request.min THEN Append(found, text) ELSE found
    BY <1>6 DEF TakeString, e
  <2>2. /\ i' \in Nat /\ i < i' /\ i' <= Size
        /\ i' % Unit(e) = 0 /\ ~Legible(e, i')
        /\ \A o \in i .. (i' - 1) : o % Unit(e) = 0 => Legible(e, o)
    BY <1>0, <1>3, <2>1, StringEnds
  <2>3. ~Legible(e, i - Unit(e))
    <3>1. CASE i = 0
      <4>1. ~(i - Unit(e) >= 0)
        BY <1>0, <1>3, <3>1, Multiples
      <4> QED
        BY <4>1 DEF Legible
    <3> QED
      BY <1>3, <2>1, <3>1
  <2>4. /\ (i' - i) \div Unit(e) >= request.min => text \in StringsOf(e)
        /\ \A x \in StringsOf(e) : i <= x.at /\ x.at < i' => x = text /\ (i' - i) \div Unit(e) >= request.min
    BY <1>0, <1>3, <2>2, <2>3, StringAt
  <2>5. text.at = i
    OBVIOUS
  <2> HIDE DEF text
  <2>6. \A m \in DOMAIN found : found[m].at \in Nat /\ found[m].at < i'
    BY <1>0, <1>1, <1>3, <2>2
  <2>7. CASE (i' - i) \div Unit(e) >= request.min
    <3>1. found' = Append(found, text) /\ text \in StringsOf(e) /\ text \in Text
      BY <1>1, <2>1, <2>4, <2>7
    <3>2. /\ found' \in Seq(Text) /\ Len(found) \in Nat
          /\ \A m : m \in DOMAIN found' <=> m \in DOMAIN found \/ m = Len(found) + 1
          /\ \A m \in DOMAIN found : found'[m] = found[m] /\ m < Len(found) + 1 /\ ~(Len(found) + 1 < m)
          /\ found'[Len(found) + 1] = text
          /\ Elements(found') = Elements(found) \cup {text}
      BY <1>2, <3>1, Appended
    <3>3. \A m \in DOMAIN found' : found'[m] \in StringsOf(e) /\ found'[m].at < i'
      BY <1>3, <2>2, <2>5, <2>6, <3>1, <3>2
    <3>4. \A m, n \in DOMAIN found' : m < n => found'[m].at < found'[n].at
      BY <1>3, <2>5, <3>2
    <3>5. ASSUME NEW x \in StringsOf(e), x.at < i' PROVE x \in Elements(found')
      <4>1. x.at < i \/ i <= x.at
        BY <1>0, <1>1
      <4> QED
        BY <1>3, <2>4, <3>2, <3>5, <4>1
    <3> QED
      BY <1>4, <2>2, <3>2, <3>3, <3>4, <3>5
  <2>8. CASE ~((i' - i) \div Unit(e) >= request.min)
    <3>1. found' = found
      BY <2>1, <2>8
    <3>2. ASSUME NEW x \in StringsOf(e), x.at < i' PROVE x \in Elements(found)
      <4>1. x.at < i \/ i <= x.at
        BY <1>0, <1>1
      <4> QED
        BY <1>3, <2>4, <2>8, <3>2, <4>1
    <3> QED
      BY <1>2, <1>3, <1>4, <2>2, <2>6, <3>1, <3>2
  <2> QED
    BY <2>7, <2>8
<1> QED
  BY <1>5, <1>6

LEMMA PassedKeeps ==
  ASSUME TypeOK, StringsInv, request.task = "strings", EndEncoding
  PROVE  result' \in Seq(Text) /\ PassedOK'
<1> DEFINE e == Encoding
           r == Len(result)
<1>0. /\ data' = data /\ request' = request /\ pass' = pass + 1 /\ result' = result \o found
      /\ outcome = "none" /\ pass \in DOMAIN request.encodings
      /\ i \in Nat /\ Size \in Nat /\ pass \in Nat /\ pass >= 1 /\ request.max \in Nat
      /\ ~MoreText
  <2>1. /\ data' = data /\ request' = request /\ pass' = pass + 1 /\ result' = result \o found
        /\ outcome = "none" /\ pass <= Len(request.encodings) /\ ~MoreText
    BY DEF EndEncoding, Extracting, Doing
  <2>2. /\ DOMAIN request.encodings = 1 .. Len(request.encodings) /\ Len(request.encodings) \in Nat
        /\ pass \in Nat \ {0} /\ i \in Nat /\ Size \in Nat /\ request.max \in Nat
    BY StringFacts, Options DEF TypeOK
  <2> QED
    BY <2>1, <2>2
<1>1. /\ \A p \in DOMAIN request.encodings : Place(request.encodings[p]) = p
      /\ \A d : \A x \in StringsOf(d) : x.as = d /\ x.at \in Nat
      /\ e = request.encodings[pass] /\ Place(e) = pass
      /\ \A p \in 1 .. (pass - 1) : p \in DOMAIN request.encodings /\ p < pass
      /\ \A p \in 1 .. (pass' - 1) : p \in 1 .. (pass - 1) \/ p = pass
      /\ pass \in 1 .. (pass' - 1) /\ \A p \in 1 .. (pass - 1) : p \in 1 .. (pass' - 1)
  <2>1. DOMAIN request.encodings = 1 .. Len(request.encodings) /\ Len(request.encodings) \in Nat
    BY StringFacts
  <2>2. \A p \in 1 .. (pass - 1) : p \in DOMAIN request.encodings /\ p < pass
    BY <1>0, <2>1
  <2>3. /\ \A p \in 1 .. (pass' - 1) : p \in 1 .. (pass - 1) \/ p = pass
        /\ pass \in 1 .. (pass' - 1) /\ \A p \in 1 .. (pass - 1) : p \in 1 .. (pass' - 1)
    BY <1>0
  <2> QED
    BY <1>0, <2>2, <2>3, StringFacts DEF Encoding
<1>2. /\ found \in Seq(Text) /\ result \in Seq(Text) /\ ScanOK /\ PassedOK
  BY <1>0, StringFacts DEF StringsInv, TypeOK
<1>3. /\ \A m \in DOMAIN found : found[m] \in StringsOf(e) /\ found[m].at < i
      /\ \A m, n \in DOMAIN found : m < n => found[m].at < found[n].at
      /\ \A x \in StringsOf(e) : x.at < i => x \in Elements(found)
  BY <1>2 DEF ScanOK, Sorted
<1>4. /\ \A m, n \in DOMAIN result : m < n => Precedes(result[m], result[n])
      /\ \A m \in DOMAIN result : \E p \in 1 .. (pass - 1) : result[m] \in StringsOf(request.encodings[p])
      /\ \A p \in 1 .. (pass - 1) : \A x \in StringsOf(request.encodings[p]) :
           \/ x \in Elements(result)
           \/ request.max # 0 /\ \E n \in DOMAIN result :
                n >= request.max /\ \A m \in 1 .. n : Precedes(result[m], x)
  BY <1>2 DEF PassedOK
<1>5. ASSUME /\ \A m, n \in DOMAIN result' : m < n => Precedes(result'[m], result'[n])
             /\ \A m \in DOMAIN result' : \E p \in 1 .. (pass' - 1) : result'[m] \in StringsOf(request.encodings[p])
             /\ \A p \in 1 .. (pass' - 1) : \A x \in StringsOf(request.encodings[p]) :
                  \/ x \in Elements(result')
                  \/ request.max # 0 /\ \E n \in DOMAIN result' :
                       n >= request.max /\ \A m \in 1 .. n : Precedes(result'[m], x)
      PROVE  PassedOK'
  <2>1. \A k : StringsOf(request.encodings[k])' = StringsOf(request.encodings[k])
    <3>1. \A d, k : d = request.encodings[k] => StringsOf(d)' = StringsOf(d)
      BY <1>0, SameStrings
    <3> QED
      BY <1>0, <3>1 DEF StringsOf, Size, Legible, Character, At
  <2>2. \A m, n : Precedes(result[m], result[n])' <=> Precedes(result'[m], result'[n])
    BY <1>0 DEF Precedes, Place
  <2>3. \A m, x : Precedes(result[m], x)' <=> Precedes(result'[m], x)
    BY <1>0 DEF Precedes, Place
  <2>4. Elements(result)' = Elements(result') /\ request.max' = request.max
    BY <1>0 DEF Elements
  <2>5. (\A m, n \in DOMAIN result : m < n => Precedes(result[m], result[n]))'
    BY <1>5, <2>2
  <2>6. (\A m \in DOMAIN result : \E p \in 1 .. (pass - 1) : result[m] \in StringsOf(request.encodings[p]))'
    BY <1>5, <2>1
  <2>7. (\A p \in 1 .. (pass - 1) : \A x \in StringsOf(request.encodings[p]) :
           \/ x \in Elements(result)
           \/ request.max # 0 /\ \E n \in DOMAIN result :
                n >= request.max /\ \A m \in 1 .. n : Precedes(result[m], x))'
    <3>1. request' = request
      BY <1>0
    <3>2. \A p \in 1 .. (pass' - 1) : \A x \in StringsOf(request.encodings[p])' : x \in StringsOf(request.encodings[p])
      BY <2>1
    <3> QED
      BY <1>5, <2>3, <2>4, <3>1, <3>2
  <2> QED
    BY <2>5, <2>6, <2>7 DEF PassedOK
<1> DEFINE list == result \o found
<1>6. /\ list \in Seq(Text) /\ r \in Nat /\ Len(found) \in Nat /\ Len(list) = r + Len(found)
      /\ DOMAIN list = 1 .. (r + Len(found)) /\ DOMAIN result = 1 .. r /\ DOMAIN found = 1 .. Len(found)
      /\ \A m \in 1 .. r : list[m] = result[m]
      /\ \A m \in 1 .. Len(found) : list[r + m] = found[m]
  <2>1. list \in Seq(Text) /\ Len(list) = Len(result) + Len(found)
    BY <1>2, ConcatProperties
  <2>2. \A m \in 1 .. Len(found) : list[r + m] = found[m]
    <3>1. \A m \in 1 .. Len(found) : r + m \in 1 .. (r + Len(found)) /\ ~(r + m <= r) /\ r + m - r = m
      BY <1>2
    <3> QED
      BY <1>2, <3>1, ConcatProperties
  <2>3. \A m \in 1 .. r : list[m] = result[m]
    <3>1. \A m \in 1 .. r : m \in 1 .. (r + Len(found)) /\ m <= r
      BY <1>2
    <3> QED
      BY <1>2, <3>1, ConcatProperties
  <2> QED
    BY <1>2, <2>1, <2>2, <2>3
<1> HIDE DEF e, r, list
<1>7. ASSUME NEW m \in DOMAIN list
      PROVE  \/ m \in DOMAIN result /\ list[m] = result[m]
             \/ m \notin DOMAIN result /\ m - r \in DOMAIN found /\ list[m] = found[m - r]
  <2>1. m \in 1 .. r \/ (m \notin 1 .. r /\ m - r \in 1 .. Len(found) /\ m = r + (m - r))
    BY <1>6
  <2> QED
    BY <1>6, <2>1
<1>8. ASSUME NEW m \in DOMAIN result, NEW x, x.as = e
      PROVE  Precedes(result[m], x)
  <2>1. PICK p \in 1 .. (pass - 1) : result[m] \in StringsOf(request.encodings[p])
    BY <1>4
  <2>2. Place(result[m].as) = p /\ p < pass
    BY <1>1, <2>1
  <2> QED
    BY <1>1, <1>8, <2>2 DEF Precedes
<1>9. \A m \in DOMAIN found : found[m].as = e
  BY <1>1, <1>3
<1>10. ASSUME NEW m \in DOMAIN list, NEW n \in DOMAIN list, m < n
       PROVE  Precedes(list[m], list[n])
  <2>1. CASE n \in DOMAIN result
    <3>1. m \in DOMAIN result
      BY <1>6, <1>10, <2>1
    <3> QED
      BY <1>4, <1>7, <1>10, <2>1, <3>1
  <2>2. CASE n \notin DOMAIN result /\ m \in DOMAIN result
    BY <1>7, <1>8, <1>9, <2>2
  <2>3. CASE n \notin DOMAIN result /\ m \notin DOMAIN result
    <3>1. /\ m - r \in DOMAIN found /\ list[m] = found[m - r]
          /\ n - r \in DOMAIN found /\ list[n] = found[n - r]
      BY <1>7, <2>3
    <3>2. m - r < n - r
      BY <1>6, <1>10
    <3>3. found[m - r].at < found[n - r].at
      BY <1>3, <3>1, <3>2
    <3> QED
      BY <1>9, <3>1, <3>3 DEF Precedes
  <2> QED
    BY <2>1, <2>2, <2>3
<1>11. ASSUME NEW m \in DOMAIN list
       PROVE  \E p \in 1 .. (pass' - 1) : list[m] \in StringsOf(request.encodings[p])
  <2>1. CASE m \in DOMAIN result
    BY <1>1, <1>4, <1>7, <2>1
  <2>2. CASE m \notin DOMAIN result
    <3>1. list[m] \in StringsOf(e)
      BY <1>3, <1>7, <2>2
    <3> QED
      BY <1>1, <3>1
  <2> QED
    BY <2>1, <2>2
<1>12. /\ \A x \in Elements(result) : x \in Elements(list)
       /\ \A x \in Elements(found) : x \in Elements(list)
  <2>1. \A m \in DOMAIN result : m \in DOMAIN list /\ list[m] = result[m]
    BY <1>6
  <2>2. \A m \in DOMAIN found : r + m \in DOMAIN list /\ list[r + m] = found[m]
    BY <1>6
  <2> QED
    BY <2>1, <2>2 DEF Elements
<1>13. ASSUME NEW p \in 1 .. (pass' - 1), NEW x \in StringsOf(request.encodings[p]), x \notin Elements(list)
       PROVE  request.max # 0 /\ \E n \in DOMAIN list :
                n >= request.max /\ \A m \in 1 .. n : Precedes(list[m], x)
  <2>1. CASE p \in 1 .. (pass - 1)
    <3>1. request.max # 0
      BY <1>4, <1>12, <1>13, <2>1
    <3>2. PICK n \in DOMAIN result : n >= request.max /\ \A m \in 1 .. n : Precedes(result[m], x)
      BY <1>4, <1>12, <1>13, <2>1
    <3>3. n \in DOMAIN list /\ \A m \in 1 .. n : list[m] = result[m]
      BY <1>6
    <3> QED
      BY <3>1, <3>2, <3>3
  <2>2. CASE p = pass
    <3>1. x \in StringsOf(e) /\ x.as = e /\ x.at \in Nat /\ i <= x.at
      BY <1>0, <1>1, <1>3, <1>12, <1>13, <2>2
    <3>2. i + Unit(e) <= Size
      <4>1. x.at % Unit(e) = 0 /\ x.at < x.end /\ x.end \in Nat
            /\ \A o \in x.at .. (x.end - 1) : o % Unit(e) = 0 => Legible(e, o)
        BY <1>0, <3>1 DEF StringsOf
      <4>2. x.at \in x.at .. (x.end - 1)
        BY <3>1, <4>1
      <4>3. x.at + Unit(e) <= Size
        BY <4>1, <4>2 DEF Legible
      <4>4. Unit(e) \in Nat
        BY DEF Unit
      <4> QED
        BY <1>0, <3>1, <4>3, <4>4
    <3>3. request.max # 0 /\ Len(found) >= request.max
      BY <1>0, <3>2 DEF MoreText, Full, e
    <3>4. ASSUME NEW m \in DOMAIN list PROVE Precedes(list[m], x)
      <4>1. CASE m \in DOMAIN result
        BY <1>7, <1>8, <3>1, <4>1
      <4>2. CASE m \notin DOMAIN result
        <5>1. m - r \in DOMAIN found /\ list[m] = found[m - r]
          BY <1>7, <4>2
        <5>2. found[m - r].at < i /\ found[m - r].at \in Nat
          BY <1>1, <1>3, <5>1
        <5>3. found[m - r].at < x.at
          BY <1>0, <3>1, <5>2
        <5> QED
          BY <1>9, <3>1, <5>1, <5>3 DEF Precedes
      <4> QED
        BY <4>1, <4>2
    <3>5. r + Len(found) \in DOMAIN list /\ r + Len(found) >= request.max /\ 1 .. (r + Len(found)) = DOMAIN list
      BY <1>0, <1>6, <3>3
    <3> QED
      BY <3>3, <3>4, <3>5
  <2> QED
    BY <1>1, <2>1, <2>2
<1>14. result' = list
  BY <1>0 DEF list
<1> QED
  BY <1>5, <1>6, <1>10, <1>11, <1>13, <1>14

LEMMA Reported ==
  ASSUME TypeOK, StringsInv, request.task = "strings", EndStrings
  PROVE  result' \in Seq(Text) /\ StringsAreExact'
<1>0. /\ data' = data /\ request' = request /\ pass' = pass
      /\ outcome = "none" /\ request.max \in Nat
      /\ result' = IF Full(result) THEN SubSeq(result, 1, request.max) ELSE result
      /\ result \in Seq(Text) /\ 1 .. (pass - 1) = DOMAIN request.encodings
  <2>1. /\ data' = data /\ request' = request /\ pass' = pass
        /\ outcome = "none" /\ pass > Len(request.encodings)
        /\ result' = IF Full(result) THEN SubSeq(result, 1, request.max) ELSE result
    BY DEF EndStrings, Finish, Doing
  <2>2. /\ pass <= Len(request.encodings) + 1 /\ result \in Seq(Text)
        /\ Len(request.encodings) \in Nat /\ pass \in Nat /\ request.max \in Nat
        /\ DOMAIN request.encodings = 1 .. Len(request.encodings)
    BY StringFacts, Options DEF StringsInv, TypeOK
  <2>3. pass - 1 = Len(request.encodings)
    BY <2>1, <2>2
  <2> QED
    BY <2>1, <2>2, <2>3
<1>1. /\ \A m, n \in DOMAIN result : m < n => Precedes(result[m], result[n])
      /\ \A m \in DOMAIN result : \E p \in DOMAIN request.encodings : result[m] \in StringsOf(request.encodings[p])
      /\ \A p \in DOMAIN request.encodings : \A x \in StringsOf(request.encodings[p]) :
           \/ x \in Elements(result)
           \/ request.max # 0 /\ \E n \in DOMAIN result :
                n >= request.max /\ \A m \in 1 .. n : Precedes(result[m], x)
  BY <1>0 DEF StringsInv, PassedOK
<1> DEFINE list == result'
<1>2. ASSUME /\ request.max # 0 => Len(list) <= request.max
             /\ \A m, n \in DOMAIN list : m < n => Precedes(list[m], list[n])
             /\ \A m \in DOMAIN list : \E p \in DOMAIN request.encodings : list[m] \in StringsOf(request.encodings[p])
             /\ \A p \in DOMAIN request.encodings : \A x \in StringsOf(request.encodings[p]) :
                  \/ x \in Elements(list)
                  \/ Full(list) /\ \A m \in DOMAIN list : Precedes(list[m], x)
      PROVE  StringsAreExact'
  <2>1. \A k : StringsOf(request.encodings[k])' = StringsOf(request.encodings[k])
    BY <1>0 DEF StringsOf, Size, Legible, Character, At
  <2>2. \A m, n : Precedes(result[m], result[n])' <=> Precedes(list[m], list[n])
    BY <1>0 DEF Precedes, Place
  <2>3. /\ Elements(result)' = Elements(list) /\ (Full(result)' <=> Full(list)) /\ request.max' = request.max
        /\ (DOMAIN request.encodings)' = DOMAIN request.encodings
    BY <1>0 DEF Elements, Full
  <2>4. \A y, x : Precedes(y, x)' <=> Precedes(y, x)
    BY <1>0, SameStrings
  <2>5. \A y \in Elements(list) : \E m \in DOMAIN list : y = list[m]
    BY DEF Elements
  <2>6. (request.max # 0 => Len(result) <= request.max)'
    BY <1>2, <2>3
  <2>7. (\A m, n \in DOMAIN result : m < n => Precedes(result[m], result[n]))'
    BY <1>2, <2>2
  <2>8. (\A x \in Elements(result) : \E p \in DOMAIN request.encodings : x \in StringsOf(request.encodings[p]))'
    BY <1>2, <2>1, <2>3, <2>5
  <2>9. (\A p \in DOMAIN request.encodings : \A x \in StringsOf(request.encodings[p]) :
           x \in Elements(result) \/ (Full(result) /\ \A y \in Elements(result) : Precedes(y, x)))'
    <3>1. \A p \in DOMAIN request.encodings : \A x \in StringsOf(request.encodings[p]) :
            x \in Elements(list) \/ (Full(list) /\ \A y \in Elements(list) : Precedes(y, x))
      BY <1>2, <2>5
    <3> HIDE DEF list
    <3> QED
      BY <3>1, <2>1, <2>3, <2>4
  <2> QED
    BY <2>6, <2>7, <2>8, <2>9 DEF StringsAreExact
<1>3. DOMAIN result = 1 .. Len(result) /\ Len(result) \in Nat
  BY <1>0
<1>4. CASE ~Full(result)
  <2>1. list = result /\ (request.max # 0 => Len(result) < request.max)
    BY <1>0, <1>3, <1>4 DEF Full
  <2>2. \A n \in DOMAIN result : request.max # 0 => ~(n >= request.max)
    BY <1>0, <1>3, <2>1
  <2>3. request.max # 0 => Len(result) <= request.max
    BY <1>0, <1>3, <2>1
  <2> HIDE DEF list
  <2>4. \A p \in DOMAIN request.encodings : \A x \in StringsOf(request.encodings[p]) : x \in Elements(list)
    BY <1>1, <2>1, <2>2
  <2> QED
    BY <1>0, <1>1, <1>2, <2>1, <2>3, <2>4 DEF list
<1>5. CASE Full(result)
  <2>1. /\ list = SubSeq(result, 1, request.max) /\ request.max \in Nat \ {0} /\ request.max <= Len(result)
    BY <1>0, <1>3, <1>5 DEF Full
  <2>2. /\ list \in Seq(Text) /\ Len(list) = request.max /\ DOMAIN list = 1 .. request.max
        /\ \A m \in 1 .. request.max : list[m] = result[m] /\ m \in DOMAIN result
    <3>1. \A m \in 1 .. request.max : m \in 1 .. Len(result)
      BY <1>3, <2>1
    <3>2. \A m \in 1 .. request.max : result[m] \in Text
      BY <1>0, <1>3, <3>1
    <3> DEFINE cut == [m \in 1 .. request.max |-> result[m]]
    <3>3. SubSeq(result, 1, request.max) = cut
      BY <1>0, <1>3, <2>1
    <3>4. cut \in Seq(Text) /\ Len(cut) = request.max
      BY <2>1, <3>2
    <3> QED
      BY <1>3, <2>1, <3>1, <3>3, <3>4
  <2> HIDE DEF list
  <2>3. Full(list)
    BY <1>0, <2>1, <2>2 DEF Full
  <2>4. ASSUME NEW p \in DOMAIN request.encodings, NEW x \in StringsOf(request.encodings[p]), x \notin Elements(list)
        PROVE  \A m \in DOMAIN list : Precedes(list[m], x)
    <3>1. CASE x \in Elements(result)
      <4>1. PICK k \in DOMAIN result : x = result[k]
        BY <3>1 DEF Elements
      <4>2. k \notin 1 .. request.max
        BY <2>2, <2>4, <4>1 DEF Elements
      <4>3. \A m \in 1 .. request.max : m < k
        BY <1>3, <2>1, <4>2
      <4> QED
        BY <1>1, <2>2, <4>1, <4>3
    <3>2. CASE x \notin Elements(result)
      <4>1. PICK n \in DOMAIN result : n >= request.max /\ \A m \in 1 .. n : Precedes(result[m], x)
        BY <1>1, <3>2
      <4>2. \A m \in 1 .. request.max : m \in 1 .. n
        BY <1>3, <2>1, <4>1
      <4> QED
        BY <2>2, <4>1, <4>2
    <3> QED
      BY <3>1, <3>2
  <2>5. request.max # 0 => Len(list) <= request.max
    BY <2>1, <2>2
  <2>6. \A m, n \in DOMAIN list : m < n => Precedes(list[m], list[n])
    BY <1>1, <2>2
  <2>7. \A m \in DOMAIN list : \E p \in DOMAIN request.encodings : list[m] \in StringsOf(request.encodings[p])
    BY <1>1, <2>2
  <2> QED
    BY <1>2, <2>2, <2>3, <2>4, <2>5, <2>6, <2>7 DEF list
<1> QED
  BY <1>4, <1>5

LEMMA StringsKeep ==
  ASSUME TypeOK, StringsInv, [Next]_allVars
  PROVE  StringsInv'
<1> SUFFICES ASSUME request.task = "strings"
             PROVE  StringsInv'
  BY Steps DEF StringsInv
<1>1. /\ data' = data /\ request' = request
      /\ found \in Seq(Text) /\ result \in Seq(Text)
      /\ pass \in Nat \ {0} /\ pass <= Len(request.encodings) + 1 /\ Len(request.encodings) \in Nat
      /\ outcome = "none" /\ pass <= Len(request.encodings) => ScanOK
      /\ outcome = "none" => PassedOK
      /\ outcome = "Success" => StringsAreExact
  BY Steps, StringFacts DEF StringsInv, TypeOK
<1>2. CASE SkipCharacter \/ TakeString
  <2>1. result' = result /\ pass' = pass /\ outcome' = "none" /\ outcome = "none"
    BY <1>2 DEF SkipCharacter, TakeString, Extracting, Doing
  <2>2. PassedOK'
    <3>1. PassedOK
      BY <1>1, <2>1
    <3>2. \A k : StringsOf(request.encodings[k])' = StringsOf(request.encodings[k])
      BY <1>1 DEF StringsOf, Size, Legible, Character, At
    <3>3. \A m, n : Precedes(result[m], result[n])' <=> Precedes(result[m], result[n])
      BY <1>1, <2>1 DEF Precedes, Place
    <3>4. \A m, x : Precedes(result[m], x)' <=> Precedes(result[m], x)
      BY <1>1, <2>1 DEF Precedes, Place
    <3>5. Elements(result)' = Elements(result)
      BY <2>1 DEF Elements
    <3>6. (\A m, n \in DOMAIN result : m < n => Precedes(result[m], result[n]))'
      BY <2>1, <3>1, <3>3 DEF PassedOK
    <3>7. (\A m \in DOMAIN result : \E p \in 1 .. (pass - 1) : result[m] \in StringsOf(request.encodings[p]))'
      BY <2>1, <3>1, <3>2 DEF PassedOK
    <3>8. (\A p \in 1 .. (pass - 1) : \A x \in StringsOf(request.encodings[p]) :
             \/ x \in Elements(result)
             \/ request.max # 0 /\ \E n \in DOMAIN result :
                  n >= request.max /\ \A m \in 1 .. n : Precedes(result[m], x))'
      <4>1. \A p \in 1 .. (pass - 1) : \A x \in StringsOf(request.encodings[p]) :
               \/ x \in Elements(result)
               \/ request.max # 0 /\ \E n \in DOMAIN result :
                    n >= request.max /\ \A m \in 1 .. n : Precedes(result[m], x)
        BY <3>1 DEF PassedOK
      <4>2. \A p \in 1 .. (pass' - 1) : \A x \in StringsOf(request.encodings[p])' :
              p \in 1 .. (pass - 1) /\ x \in StringsOf(request.encodings[p])
        BY <2>1, <3>2
      <4> QED
        BY <1>1, <2>1, <3>4, <3>5, <4>1, <4>2
    <3> QED
      BY <3>6, <3>7, <3>8 DEF PassedOK
  <2>3. found' \in Seq(Text) /\ ScanOK'
    BY <1>2, ScanKeeps
  <2> QED
    BY <1>1, <2>1, <2>2, <2>3 DEF StringsInv
<1>3. CASE EndEncoding
  <2>1. /\ outcome = "none" /\ outcome' = "none" /\ pass <= Len(request.encodings)
        /\ pass' = pass + 1 /\ i' = 0 /\ found' = <<>>
    BY <1>3 DEF EndEncoding, Extracting, Doing
  <2>2. result' \in Seq(Text) /\ PassedOK'
    BY <1>3, PassedKeeps
  <2>3. pass' <= Len(request.encodings) + 1
    BY <1>1, <2>1
  <2>4. ASSUME pass' <= Len(request.encodings) PROVE ScanOK'
    <3> DEFINE e == request.encodings[pass']
    <3>1. Unit(e) \in Nat /\ 0 % Unit(e) = 0
      BY DEF Unit
    <3>2. \A x \in StringsOf(e) : ~(x.at < 0)
      BY Options DEF StringsOf
    <3>3. Encoding' = e /\ Unit(Encoding)' = Unit(e) /\ StringsOf(Encoding)' = StringsOf(e)
      BY <1>1 DEF Encoding, Unit, StringsOf, Legible, Character, At, Size
    <3> HIDE DEF e
    <3>4. (i % Unit(Encoding) = 0)' /\ (i = 0)'
      BY <2>1, <3>1, <3>3
    <3>5. (\A m \in DOMAIN found : found[m] \in StringsOf(Encoding) /\ found[m].at < i)' /\ Sorted(found)'
      BY <2>1 DEF Sorted
    <3>6. (\A x \in StringsOf(Encoding) : x.at < i => x \in Elements(found))'
      BY <2>1, <3>2, <3>3
    <3> QED
      BY <3>4, <3>5, <3>6 DEF ScanOK
  <2>5. found' \in Seq(Text)
    BY <2>1
  <2> QED
    BY <1>1, <2>1, <2>2, <2>3, <2>4, <2>5 DEF StringsInv
<1>4. CASE EndStrings
  <2>1. found' = found /\ pass' = pass /\ outcome' = "Success"
    BY <1>4 DEF EndStrings, Finish
  <2>2. result' \in Seq(Text) /\ StringsAreExact'
    BY <1>4, Reported
  <2> QED
    BY <1>1, <2>1, <2>2 DEF StringsInv
<1>5. CASE UNCHANGED allVars
  <2>1. /\ data' = data /\ request' = request /\ pass' = pass /\ i' = i /\ found' = found
        /\ result' = result /\ outcome' = outcome
    BY <1>5 DEF allVars, vars
  <2>2. ScanOK' <=> ScanOK
    BY <2>1 DEF ScanOK, Encoding, Unit, Legible, Character, At, Size, StringsOf, Sorted, Elements
  <2>3. PassedOK' <=> PassedOK
    BY <2>1 DEF PassedOK, Precedes, Place, StringsOf, Legible, Character, At, Size, Elements
  <2>4. StringsAreExact' <=> StringsAreExact
    BY <2>1 DEF StringsAreExact, Precedes, Place, StringsOf, Legible, Character, At, Size, Elements, Full
  <2> QED
    BY <1>1, <2>1, <2>2, <2>3, <2>4 DEF StringsInv
<1> QED
  BY <1>2, <1>3, <1>4, <1>5, Steps

(***************************************************************************)
(* diff                                                                    *)
(***************************************************************************)
LEMMA SameCount ==
  ASSUME NEW S, NEW T, IsFiniteSet(S), NEW f \in [S -> T],
         \A x, y \in S : f[x] = f[y] => x = y, \A z \in T : \E x \in S : f[x] = z
  PROVE  IsFiniteSet(T) /\ Cardinality(T) = Cardinality(S)
<1>1. f \in Bijection(S, T)
  BY DEF Bijection, Injection, Surjection, IsInjective
<1>2. ExistsBijection(S, T)
  BY <1>1 DEF ExistsBijection
<1> QED
  BY <1>2, FS_Bijection

Hunk == [at : Nat, end : Nat]

(* The hunks found up to `i': no byte of a run is left behind, and what is *)
(* missing comes behind the limit.                                         *)
HunksOK ==
  /\ i <= Common /\ (i - 1 \notin Differing \/ i \notin Differing)
  /\ Len(found) <= MaxHunks
  /\ \A k \in DOMAIN found :
       /\ found[k].at < found[k].end /\ found[k].end <= i
       /\ found[k].at - 1 \notin Differing /\ found[k].end \notin Differing
  /\ Sorted(found)
  /\ BytesOf(found) \subseteq Differing
  /\ \A o \in Differing \ BytesOf(found) : o < i =>
       Len(found) = MaxHunks /\ \A b \in BytesOf(found) : b < o

DiffInv ==
  request.task = "diff" =>
    /\ found \in Seq(Hunk) /\ changed = Cardinality({o \in Differing : o < i})
    /\ HunksOK
    /\ outcome = "Success" => DiffIsExact

LEMMA DiffFacts ==
  ASSUME TypeOK, request.task = "diff"
  PROVE  /\ Common \in Nat /\ Common <= Size /\ Common <= Len(request.other)
         /\ Size \in Nat /\ Len(request.other) \in Nat /\ i \in Nat
         /\ Common = Size \/ Common = Len(request.other)
         /\ \A o : o \in Differing <=> o \in Nat /\ o < Common /\ ~Same(o)
         /\ request.old \in Seq(NamedSection) /\ request.new \in Seq(NamedSection)
<1>1. /\ request.other \in Seq(Byte)
      /\ request.old \in Seq(NamedSection) /\ request.new \in Seq(NamedSection)
  BY Options DEF DiffRequest
<1>2. Size \in Nat /\ Len(request.other) \in Nat /\ i \in Nat
  BY <1>1, Options DEF TypeOK
<1>3. /\ Common \in Nat /\ Common <= Size /\ Common <= Len(request.other)
      /\ Common = Size \/ Common = Len(request.other)
  BY <1>2 DEF Common, Least
<1>4. \A o : o \in Differing <=> o \in Nat /\ o < Common /\ ~Same(o)
  <2>1. \A o : o \in 0 .. (Common - 1) <=> o \in Nat /\ o < Common
    BY <1>3
  <2> QED
    BY <2>1 DEF Differing
<1> QED
  BY <1>1, <1>2, <1>3, <1>4

(* Every hunk ends. *)
LEMMA HunkEnds ==
  ASSUME TypeOK, request.task = "diff", NEW from \in Nat, from \in Differing
  PROVE  LET end == EndOfHunk(from)
         IN  /\ end \in Nat /\ from < end /\ end <= Common /\ end \notin Differing
             /\ \A o \in from .. (end - 1) : o \in Differing
<1> DEFINE S == {x \in from .. Common : x \notin Differing}
<1>1. /\ Common \in Nat /\ from < Common
      /\ \A o : o \in Differing <=> o \in Nat /\ o < Common /\ ~Same(o)
  BY DiffFacts
<1>2. Common \in S /\ S \subseteq Nat
  BY <1>1
<1>3. PICK x \in S : \A y \in S : x <= y
  <2> HIDE DEF S
  <2> QED
    BY <1>2, LeastNumber
<1>4. x \in from .. Common /\ x \in Nat /\ (x < Common => Same(x))
  BY <1>1, <1>3
<1>5. \A o \in from .. (x - 1) : ~Same(o)
  <2>1. \A o \in from .. (x - 1) : o \in from .. Common /\ ~(x <= o)
    BY <1>1, <1>4
  <2> QED
    BY <1>1, <1>3, <2>1
<1> DEFINE end == EndOfHunk(from)
<1>6. end \in from .. Common /\ (\A o \in from .. (end - 1) : ~Same(o)) /\ (end < Common => Same(end))
  BY <1>4, <1>5 DEF EndOfHunk
<1> HIDE DEF end
<1>7. end \in Nat /\ from <= end /\ end <= Common /\ end \notin Differing
  BY <1>1, <1>6
<1>8. \A o \in from .. (end - 1) : o \in Differing
  <2>1. \A o \in from .. (end - 1) : o \in Nat /\ o < Common
    BY <1>1, <1>7
  <2> QED
    BY <1>1, <1>6, <2>1
<1>9. from # end
  BY <1>7
<1> QED
  BY <1>7, <1>8, <1>9 DEF end

LEMMA BytesAppended ==
  ASSUME NEW list \in Seq(Hunk), NEW hunk \in Hunk
  PROVE  \A o : o \in BytesOf(Append(list, hunk)) <=> o \in BytesOf(list) \/ o \in hunk.at .. (hunk.end - 1)
<1> DEFINE longer == Append(list, hunk)
<1>1. /\ \A m : m \in DOMAIN longer <=> m \in DOMAIN list \/ m = Len(list) + 1
      /\ \A m \in DOMAIN list : longer[m] = list[m]
      /\ longer[Len(list) + 1] = hunk
  BY Appended
<1> HIDE DEF longer
<1>2. /\ \A o : o \in BytesOf(longer) <=> \E m \in DOMAIN longer : o \in longer[m].at .. (longer[m].end - 1)
      /\ \A o : o \in BytesOf(list) <=> \E m \in DOMAIN list : o \in list[m].at .. (list[m].end - 1)
  BY DEF BytesOf
<1>3. \A o : o \in BytesOf(longer) <=> o \in BytesOf(list) \/ o \in hunk.at .. (hunk.end - 1)
  BY <1>1, <1>2
<1> QED
  BY <1>3 DEF longer

LEMMA SameDiffering ==
  ASSUME data' = data, request' = request
  PROVE  Differing' = Differing /\ Common' = Common
BY DEF Differing, Common, Same, At, Size

(* The bytes that differ are counted up to the end of a hunk. *)
LEMMA Counted ==
  ASSUME NEW D, D \subseteq Nat, NEW from \in Nat, NEW end \in Nat, from <= end,
         \A o \in from .. (end - 1) : o \in D
  PROVE  Cardinality({o \in D : o < end}) = Cardinality({o \in D : o < from}) + (end - from)
<1> DEFINE A == {o \in D : o < from}
           B == from .. (end - 1)
<1>1. IsFiniteSet(A)
  <2>1. ASSUME NEW o \in A PROVE o \in 0 .. from
    <3>1. o \in Nat /\ o < from
      OBVIOUS
    <3> QED
      BY <3>1
  <2>2. A \in SUBSET (0 .. from)
    BY <2>1
  <2>3. IsFiniteSet(0 .. from)
    BY FS_Interval
  <2> HIDE DEF A
  <2> QED
    BY <2>2, <2>3, FS_Subset
<1>2. IsFiniteSet(B) /\ Cardinality(B) = end - from
  <2>1. from \in Int /\ end - 1 \in Int
    OBVIOUS
  <2>2. IsFiniteSet(B) /\ Cardinality(B) = IF from > end - 1 THEN 0 ELSE (end - 1) - from + 1
    BY <2>1, FS_Interval
  <2> HIDE DEF B
  <2> QED
    BY <2>2
<1>3. A \cap B = {}
  OBVIOUS
<1>4. {o \in D : o < end} = A \cup B
  <2>1. ASSUME NEW o \in D PROVE o < end <=> o < from \/ o \in B
    OBVIOUS
  <2>2. \A o \in B : o \in D /\ o < end
    OBVIOUS
  <2> QED
    BY <2>1, <2>2
<1>5. Cardinality(A \cup B) = Cardinality(A) + Cardinality(B) - Cardinality(A \cap B)
  BY <1>1, <1>2, FS_Union
<1>6. Cardinality(A \cap B) = 0
  BY <1>3, FS_EmptySet
<1>7. Cardinality(A) \in Nat
  BY <1>1, FS_CardinalityType
<1> HIDE DEF A, B
<1>8. Cardinality(A \cup B) = Cardinality(A) + (end - from)
  BY <1>2, <1>5, <1>6, <1>7
<1> QED
  BY <1>4, <1>8 DEF A

LEMMA HunksKeep ==
  ASSUME TypeOK, DiffInv, request.task = "diff", SkipEqual \/ TakeHunk
  PROVE  /\ found' \in Seq(Hunk) /\ HunksOK' /\ i' \in Nat
         /\ changed' = Cardinality({o \in Differing : o < i'})
<1>1. /\ data' = data /\ request' = request /\ i < Common
      /\ Differing' = Differing /\ Common' = Common
  BY SameDiffering DEF SkipEqual, TakeHunk
<1>2. /\ i \in Nat /\ Common \in Nat /\ MaxHunks \in Nat
      /\ \A o : o \in Differing <=> o \in Nat /\ o < Common /\ ~Same(o)
  BY DiffFacts, HunksAssumption
<1>3. /\ found \in Seq(Hunk) /\ changed = Cardinality({o \in Differing : o < i})
      /\ i - 1 \notin Differing \/ i \notin Differing
      /\ Len(found) <= MaxHunks
      /\ \A k \in DOMAIN found :
           /\ found[k].at < found[k].end /\ found[k].end <= i
           /\ found[k].at - 1 \notin Differing /\ found[k].end \notin Differing
      /\ \A m, n \in DOMAIN found : m < n => found[m].at < found[n].at
      /\ BytesOf(found) \subseteq Differing
      /\ \A o \in Differing \ BytesOf(found) : o < i =>
           Len(found) = MaxHunks /\ \A b \in BytesOf(found) : b < o
  BY DEF DiffInv, HunksOK, Sorted
<1>4. /\ \A k \in DOMAIN found : found[k].at \in Nat /\ found[k].end \in Nat /\ found[k].at < i
      /\ \A b \in BytesOf(found) : b \in Nat /\ b < i
  <2>1. \A k \in DOMAIN found : found[k] \in Hunk
    BY <1>3
  <2>2. \A k \in DOMAIN found : found[k].at \in Nat /\ found[k].end \in Nat /\ found[k].end <= i /\ found[k].at < i
    BY <1>2, <1>3, <2>1 DEF Hunk
  <2>3. \A k \in DOMAIN found : \A b \in found[k].at .. (found[k].end - 1) : b \in Nat /\ b < i
    BY <1>2, <2>2
  <2> QED
    BY <2>2, <2>3 DEF BytesOf
<1>5. ASSUME /\ i' \in Nat /\ i' <= Common /\ (i' - 1 \notin Differing \/ i' \notin Differing)
             /\ found' \in Seq(Hunk) /\ Len(found') <= MaxHunks
             /\ \A k \in DOMAIN found' :
                  /\ found'[k].at < found'[k].end /\ found'[k].end <= i'
                  /\ found'[k].at - 1 \notin Differing /\ found'[k].end \notin Differing
             /\ \A m, n \in DOMAIN found' : m < n => found'[m].at < found'[n].at
             /\ BytesOf(found') \subseteq Differing
             /\ \A o \in Differing \ BytesOf(found') : o < i' =>
                  Len(found') = MaxHunks /\ \A b \in BytesOf(found') : b < o
      PROVE  HunksOK'
  <2>1. \A x : x = found' => BytesOf(found)' = BytesOf(x)
    BY DEF BytesOf
  <2> QED
    BY <1>1, <1>5, <2>1 DEF HunksOK, Sorted
<1>6. CASE SkipEqual
  <2>1. i' = i + 1 /\ found' = found /\ changed' = changed /\ i \notin Differing
    BY <1>2, <1>6 DEF SkipEqual
  <2>2. \A o \in Differing : o < i' <=> o < i
    <3>1. \A o \in Nat : o < i' <=> o < i \/ o = i
      BY <1>2, <2>1
    <3> QED
      BY <1>2, <2>1, <3>1
  <2>3. {o \in Differing : o < i'} = {o \in Differing : o < i}
    BY <2>2
  <2>4. i' \in Nat /\ i' <= Common /\ i' - 1 = i
    BY <1>1, <1>2, <2>1
  <2>5. \A k \in DOMAIN found : found[k].end <= i'
    BY <1>2, <1>3, <1>4, <2>1
  <2>6. HunksOK'
    BY <1>3, <1>5, <2>1, <2>2, <2>4, <2>5
  <2> QED
    BY <1>3, <2>1, <2>3, <2>4, <2>6
<1>7. CASE TakeHunk
  <2> DEFINE hunk == [at |-> i, end |-> i']
  <2>1. /\ i' = EndOfHunk(i) /\ changed' = changed + (i' - i) /\ i \in Differing
        /\ found' = IF Len(found) < MaxHunks THEN Append(found, hunk) ELSE found
    BY <1>1, <1>2, <1>7 DEF TakeHunk
  <2>2. /\ i' \in Nat /\ i < i' /\ i' <= Common /\ i' \notin Differing
        /\ \A o \in i .. (i' - 1) : o \in Differing
    BY <1>2, <2>1, HunkEnds
  <2>3. changed' = Cardinality({o \in Differing : o < i'})
    <3>1. Differing \subseteq Nat /\ i <= i'
      BY <1>2, <2>2
    <3>2. Cardinality({o \in Differing : o < i'}) = Cardinality({o \in Differing : o < i}) + (i' - i)
      BY <1>2, <2>2, <3>1, Counted
    <3> QED
      BY <1>3, <2>1, <3>2
  <2>4. \A o \in Differing : o < i' <=> o < i \/ o \in i .. (i' - 1)
    BY <1>2, <2>2
  <2>5. \A k \in DOMAIN found : found[k].end <= i'
    BY <1>2, <1>3, <1>4, <2>2
  <2>6. CASE Len(found) < MaxHunks
    <3>1. hunk \in Hunk /\ hunk.at = i /\ hunk.end = i'
      BY <1>2, <2>2 DEF Hunk
    <3> HIDE DEF hunk
    <3>2. found' = Append(found, hunk)
      BY <2>1, <2>6
    <3>3. /\ found' \in Seq(Hunk) /\ Len(found) \in Nat /\ Len(found') = Len(found) + 1
          /\ \A m : m \in DOMAIN found' <=> m \in DOMAIN found \/ m = Len(found) + 1
          /\ \A m \in DOMAIN found : found'[m] = found[m] /\ m < Len(found) + 1 /\ ~(Len(found) + 1 < m)
          /\ found'[Len(found) + 1] = hunk
      BY <1>3, <3>1, <3>2, Appended
    <3>4. \A o : o \in BytesOf(found') <=> o \in BytesOf(found) \/ o \in i .. (i' - 1)
      BY <1>3, <3>1, <3>2, BytesAppended
    <3>5. Len(found') <= MaxHunks
      BY <1>2, <2>6, <3>3
    <3>6. \A k \in DOMAIN found' :
            /\ found'[k].at < found'[k].end /\ found'[k].end <= i'
            /\ found'[k].at - 1 \notin Differing /\ found'[k].end \notin Differing
      <4>1. \A k \in DOMAIN found :
              /\ found'[k].at < found'[k].end /\ found'[k].end <= i'
              /\ found'[k].at - 1 \notin Differing /\ found'[k].end \notin Differing
        BY <1>3, <2>5, <3>3
      <4>2. hunk.at < hunk.end /\ hunk.end <= i' /\ hunk.at - 1 \notin Differing /\ hunk.end \notin Differing
        BY <1>3, <2>1, <2>2, <3>1
      <4> QED
        BY <3>3, <4>1, <4>2
    <3>7. \A m, n \in DOMAIN found' : m < n => found'[m].at < found'[n].at
      BY <1>3, <1>4, <3>1, <3>3
    <3>8. BytesOf(found') \subseteq Differing
      BY <1>3, <2>2, <3>4
    <3>9. \A o \in Differing \ BytesOf(found') : o < i' => FALSE
      <4>1. \A o \in Differing \ BytesOf(found') : o < i' => o \in Differing \ BytesOf(found) /\ o < i
        BY <2>4, <3>4
      <4>2. Len(found) # MaxHunks
        BY <1>2, <2>6, <3>3
      <4> QED
        BY <1>3, <4>1, <4>2
    <3>10. HunksOK'
      BY <1>5, <2>2, <3>3, <3>5, <3>6, <3>7, <3>8, <3>9
    <3> QED
      BY <2>2, <2>3, <3>3, <3>10
  <2>7. CASE ~(Len(found) < MaxHunks)
    <3>1. found' = found /\ Len(found) = MaxHunks
      <4>1. Len(found) \in Nat
        BY <1>3
      <4> QED
        BY <1>2, <1>3, <2>1, <2>7, <4>1
    <3>2. \A o \in Differing \ BytesOf(found) : o < i' => \A b \in BytesOf(found) : b < o
      <4>1. \A o \in i .. (i' - 1) : \A b \in BytesOf(found) : b < o
        BY <1>2, <1>4, <2>2
      <4> QED
        BY <1>3, <2>4, <4>1
    <3>3. HunksOK'
      BY <1>3, <1>5, <2>2, <2>5, <3>1, <3>2
    <3> QED
      BY <1>3, <2>2, <2>3, <3>1, <3>3
  <2> QED
    BY <2>6, <2>7
<1> QED
  BY <1>6, <1>7

(* Sections are named: the first one of a name is one of the list. *)
LEMMA FirstOfName ==
  ASSUME NEW sections \in Seq(NamedSection), NEW name \in Names(sections)
  PROVE  Named(sections, name) \in NamedSection
<1> DEFINE S == {k \in DOMAIN sections : sections[k].name = name}
<1>1. DOMAIN sections = 1 .. Len(sections) /\ Len(sections) \in Nat
  OBVIOUS
<1>2. S # {}
  BY DEF Names
<1>3. PICK k \in S : \A j \in S : k <= j
  <2>1. S \subseteq Nat
    BY <1>1
  <2> HIDE DEF S
  <2> QED
    BY <1>2, <2>1, LeastNumber
<1>4. \A j \in 1 .. (k - 1) : sections[j].name # name
  <2>1. \A j \in 1 .. (k - 1) : j \in DOMAIN sections /\ ~(k <= j)
    BY <1>1
  <2> QED
    BY <1>3, <2>1
<1>5. \E j \in DOMAIN sections : Named(sections, name) = sections[j]
  BY <1>3, <1>4 DEF Named
<1>6. \A j \in DOMAIN sections : sections[j] \in NamedSection
  OBVIOUS
<1> QED
  BY <1>5, <1>6

LEMMA NamesAreFinite ==
  ASSUME NEW sections \in Seq(NamedSection)
  PROVE  IsFiniteSet(Names(sections))
<1> DEFINE S == 1 .. Len(sections)
           f == [k \in S |-> sections[k].name]
<1>1. Len(sections) \in Nat /\ DOMAIN sections = S
  OBVIOUS
<1>2. IsFiniteSet(S)
  BY <1>1, FS_Interval
<1>3. f \in Surjection(S, Names(sections))
  <2>1. Names(sections) = {sections[k].name : k \in S}
    BY <1>1 DEF Names
  <2> QED
    BY <2>1 DEF Surjection
<1> HIDE DEF f
<1> QED
  BY <1>2, <1>3, FS_Surjection

LEMMA OneOfEachName ==
  ASSUME NEW names, IsFiniteSet(names)
  PROVE  Cardinality({SectionDiff(n) : n \in names}) = Cardinality(names)
<1> DEFINE f == [n \in names |-> SectionDiff(n)]
           T == {SectionDiff(n) : n \in names}
<1>1. \A n : SectionDiff(n).name = n
  BY DEF SectionDiff
<1>2. \A x, y \in names : f[x] = f[y] => x = y
  BY <1>1
<1>3. f \in [names -> T] /\ \A z \in T : \E x \in names : f[x] = z
  OBVIOUS
<1> HIDE DEF f, T
<1>4. Cardinality(T) = Cardinality(names)
  BY <1>2, <1>3, SameCount
<1> QED
  BY <1>4 DEF T

(* A section that has not moved: the bytes that differ in its range.       *)
LEMMA ChangedInPlace ==
  ASSUME TypeOK, request.task = "diff", NEW s \in NamedSection, s.offset + s.size <= Common
  PROVE  ChangedIn(s, s) = Cardinality(Differing \cap (s.offset .. (s.offset + s.size - 1)))
<1> DEFINE S == {j \in 0 .. (s.size - 1) : At(s.offset + j) # request.other[s.offset + j + 1]}
           T == Differing \cap (s.offset .. (s.offset + s.size - 1))
           f == [j \in S |-> s.offset + j]
<1>1. s.offset \in Nat /\ s.size \in Nat
  BY DEF NamedSection
<1>2. /\ Common \in Nat /\ s.offset + s.size <= Size /\ s.offset + s.size <= Len(request.other)
      /\ \A o : o \in Differing <=> o \in Nat /\ o < Common /\ ~Same(o)
  BY <1>1, DiffFacts
<1>3. ChangedIn(s, s) = Cardinality(S)
  <2>1. Least(s.size, s.size) = s.size
    BY DEF Least
  <2> QED
    BY <1>2, <2>1 DEF ChangedIn
<1>4. IsFiniteSet(S)
  <2>1. S \in SUBSET (0 .. (s.size - 1))
    OBVIOUS
  <2>2. IsFiniteSet(0 .. (s.size - 1))
    BY <1>1, FS_Interval
  <2> HIDE DEF S
  <2> QED
    BY <2>1, <2>2, FS_Subset
<1>5. \A j \in 0 .. (s.size - 1) :
        s.offset + j \in Nat /\ s.offset + j < Common /\ s.offset + j \in s.offset .. (s.offset + s.size - 1)
  BY <1>1, <1>2
<1>6. \A j \in S : s.offset + j \in T
  BY <1>2, <1>5 DEF Same
<1>7. ASSUME NEW z \in T PROVE \E j \in S : s.offset + j = z
  <2>1. z - s.offset \in 0 .. (s.size - 1) /\ s.offset + (z - s.offset) = z /\ ~Same(z)
    BY <1>1, <1>2
  <2> QED
    BY <2>1 DEF Same
<1>8. \A x, y \in S : s.offset + x = s.offset + y => x = y
  BY <1>1
<1>9. f \in [S -> T] /\ (\A x, y \in S : f[x] = f[y] => x = y) /\ \A z \in T : \E x \in S : f[x] = z
  BY <1>6, <1>7, <1>8
<1> HIDE DEF S, T, f
<1>10. Cardinality(T) = Cardinality(S)
  BY <1>4, <1>9, SameCount
<1> QED
  BY <1>3, <1>10 DEF T

LEMMA DiffReported ==
  ASSUME TypeOK, DiffInv, request.task = "diff", EndDiff
  PROVE  DiffIsExact'
<1>1. /\ data' = data /\ request' = request /\ i >= Common
      /\ Differing' = Differing /\ Common' = Common
  BY SameDiffering DEF EndDiff, Finish
<1>2. /\ Common \in Nat /\ Common <= Size /\ Common <= Len(request.other)
      /\ Size \in Nat /\ Len(request.other) \in Nat /\ i \in Nat
      /\ request.old \in Seq(NamedSection) /\ request.new \in Seq(NamedSection)
      /\ \A o : o \in Differing <=> o \in Nat /\ o < Common /\ ~Same(o)
  BY DiffFacts
<1>3. /\ found \in Seq(Hunk) /\ changed = Cardinality({o \in Differing : o < i})
      /\ \A k \in DOMAIN found :
           /\ found[k].at < found[k].end
           /\ found[k].at - 1 \notin Differing /\ found[k].end \notin Differing
      /\ Sorted(found)
      /\ BytesOf(found) \subseteq Differing
      /\ \A o \in Differing \ BytesOf(found) : o < i =>
           Len(found) = MaxHunks /\ \A b \in BytesOf(found) : b < o
  BY DEF DiffInv, HunksOK
<1>4. \A o \in Differing : o < i
  BY <1>1, <1>2
<1> DEFINE names == Names(request.old) \cup Names(request.new)
           sections == {SectionDiff(n) : n \in names}
           added == Excess(Len(request.other), Common)
           removed == Excess(Size, Common)
<1>5. result' = [hunks |-> found, changed |-> changed, added |-> added, removed |-> removed, sections |-> sections]
  BY DEF EndDiff, Finish
<1>6. changed = Cardinality(Differing)
  <2>1. {o \in Differing : o < i} = Differing
    BY <1>4
  <2> QED
    BY <1>3, <2>1
<1>7. Size - removed = Len(request.other) - added
  <2>1. \A n \in Nat : Common <= n => n - Excess(n, Common) = Common
    BY <1>2 DEF Excess
  <2> QED
    BY <1>2, <2>1
<1>8. Cardinality(sections) = Cardinality(names)
  <2>1. IsFiniteSet(names)
    BY <1>2, NamesAreFinite, FS_Union
  <2> HIDE DEF names
  <2> QED
    BY <2>1, OneOfEachName
<1>9. ASSUME NEW x \in sections, x.in = "both", Named(request.old, x.name) = Named(request.new, x.name),
             Named(request.old, x.name).offset + Named(request.old, x.name).size <= Common
      PROVE  LET s == Named(request.old, x.name)
             IN  x.changed = Cardinality(Differing \cap (s.offset .. (s.offset + s.size - 1)))
  <2>1. PICK n \in names : x = SectionDiff(n)
    OBVIOUS
  <2>2. x.name = n /\ n \in Names(request.old) /\ n \in Names(request.new)
    BY <1>9, <2>1 DEF SectionDiff
  <2>3. x.changed = ChangedIn(Named(request.old, n), Named(request.new, n))
    BY <2>1, <2>2 DEF SectionDiff
  <2>4. Named(request.old, n) \in NamedSection
    BY <1>2, <2>2, FirstOfName
  <2> QED
    BY <1>9, <2>2, <2>3, <2>4, ChangedInPlace
<1>10. /\ BytesOf(found) = Differing
          \/ (Len(found) = MaxHunks /\ \A o \in Differing \ BytesOf(found), b \in BytesOf(found) : b < o)
  BY <1>3, <1>4
<1> HIDE DEF names, sections, added, removed
<1>11. /\ result'.hunks = found /\ result'.changed = changed /\ result'.added = added
       /\ result'.removed = removed /\ result'.sections = sections
  BY <1>5
<1>12. Size' = Size /\ names = (Names(request.old) \cup Names(request.new))'
  BY <1>1 DEF Size, names, Names
<1>13. \A h : h = found => BytesOf(result.hunks)' = BytesOf(h) /\ Sorted(result.hunks)' = Sorted(h)
  BY <1>11 DEF BytesOf, Sorted
<1>14. \A n : Named(request.old, n)' = Named(request.old, n) /\ Named(request.new, n)' = Named(request.new, n)
  BY <1>1 DEF Named
<1>15. (\A x \in result.sections :
          LET s == Named(request.old, x.name)
              t == Named(request.new, x.name)
          IN  x.in = "both" /\ s = t /\ s.offset + s.size <= Common =>
                x.changed = Cardinality(Differing \cap (s.offset .. (s.offset + s.size - 1))))'
  <2>1. \A x \in sections :
          LET s == Named(request.old, x.name)
              t == Named(request.new, x.name)
          IN  x.in = "both" /\ s = t /\ s.offset + s.size <= Common =>
                x.changed = Cardinality(Differing \cap (s.offset .. (s.offset + s.size - 1)))
    BY <1>9
  <2> QED
    BY <1>1, <1>11, <2>1 DEF Named
<1>16. (LET hunks == result.hunks
        IN  /\ Sorted(hunks)
            /\ \A k \in DOMAIN hunks :
                 /\ hunks[k].at < hunks[k].end
                 /\ hunks[k].at - 1 \notin Differing /\ hunks[k].end \notin Differing
            /\ BytesOf(hunks) \subseteq Differing
            /\ \/ BytesOf(hunks) = Differing
               \/ Len(hunks) = MaxHunks /\ \A o \in Differing \ BytesOf(hunks), b \in BytesOf(hunks) : b < o
            /\ result.changed = Cardinality(Differing))'
  BY <1>1, <1>3, <1>6, <1>10, <1>11, <1>13
<1>17. (Size - result.removed = Len(request.other) - result.added)'
  BY <1>1, <1>7, <1>11, <1>12
<1>18. (Cardinality(result.sections) = Cardinality(Names(request.old) \cup Names(request.new)))'
  BY <1>8, <1>11, <1>12
<1> QED
  BY <1>15, <1>16, <1>17, <1>18 DEF DiffIsExact

LEMMA DiffKeeps ==
  ASSUME TypeOK, DiffInv, [Next]_allVars
  PROVE  DiffInv'
<1> SUFFICES ASSUME request.task = "diff"
             PROVE  DiffInv'
  BY Steps DEF DiffInv
<1>1. data' = data /\ request' = request /\ Differing' = Differing /\ Common' = Common
  BY Steps, SameDiffering
<1>2. CASE SkipEqual \/ TakeHunk
  <2>1. outcome' = "none"
    BY <1>2 DEF SkipEqual, TakeHunk, Doing
  <2> QED
    BY <1>1, <1>2, <2>1, HunksKeep DEF DiffInv
<1>3. CASE EndDiff
  <2>1. found' = found /\ i' = i /\ changed' = changed
    BY <1>3 DEF EndDiff, Finish
  <2>2. HunksOK' <=> HunksOK
    BY <1>1, <2>1 DEF HunksOK, Sorted, BytesOf
  <2>3. DiffIsExact'
    BY <1>3, DiffReported
  <2> QED
    BY <1>1, <2>1, <2>2, <2>3 DEF DiffInv
<1>4. CASE UNCHANGED allVars
  <2>1. found' = found /\ i' = i /\ changed' = changed /\ result' = result /\ outcome' = outcome
    BY <1>4 DEF allVars, vars
  <2>2. HunksOK' <=> HunksOK
    BY <1>1, <2>1 DEF HunksOK, Sorted, BytesOf
  <2>3. DiffIsExact' <=> DiffIsExact
    BY <1>1, <2>1 DEF DiffIsExact, Sorted, BytesOf, Named, Names, Size
  <2> QED
    BY <1>1, <2>1, <2>2, <2>3 DEF DiffInv
<1> QED
  BY <1>2, <1>3, <1>4, Steps

(***************************************************************************)
(* disasm: one instruction                                                 *)
(***************************************************************************)
LEMMA OperandsValue ==
  ASSUME NEW d, NEW n
  PROVE  Operands(d, n) \in {0, 1, 2, 4, 5, 8, Any}
BY Zenon DEF Operands

LEMMA SameOperands ==
  ASSUME NEW d, NEW w, NEW n, d[n + 1] = w[n + 1], d[n + 1] # 15, Wide(d, n) <=> Wide(w, n)
  PROVE  Operands(d, n) = Operands(w, n)
BY ZenonT(30) DEF Operands

(* Nothing but these three numbers says how many bytes follow.             *)
FollowedBy(op, second, immediate) ==
  CASE op \in {144, 195, 204, 201, 244} \cup (80 .. 95) -> 0
    [] op = 15 /\ second = 5 -> 1
    [] op = 15 /\ second \in 128 .. 143 -> 5
    [] op \in {232, 233} -> 4
    [] op \in {235, 49, 137, 139} \cup (112 .. 127) -> 1
    [] op \in 184 .. 191 -> immediate
    [] op = 194 -> 2
    [] OTHER -> Any

LEMMA SameSecondByte ==
  ASSUME NEW d, NEW w, NEW n, d[n + 1] = w[n + 1], Wide(d, n) <=> Wide(w, n),
         n + 1 < Len(d), n + 1 < Len(w), d[n + 2] = w[n + 2]
  PROVE  Operands(d, n) = Operands(w, n)
<1> DEFINE second(b) == IF n + 1 < Len(b) THEN b[n + 2] ELSE Any
           immediate(b) == IF Wide(b, n) THEN 8 ELSE 4
<1>1. Operands(d, n) = FollowedBy(d[n + 1], second(d), immediate(d))
  BY Zenon DEF Operands, FollowedBy
<1>2. Operands(w, n) = FollowedBy(w[n + 1], second(w), immediate(w))
  BY Zenon DEF Operands, FollowedBy
<1>3. second(d) = second(w) /\ immediate(d) = immediate(w)
  OBVIOUS
<1> HIDE DEF second, immediate
<1> QED
  BY <1>1, <1>2, <1>3

(* Where the second byte of an opcode is missing there is no instruction.  *)
LEMMA SecondByte ==
  ASSUME NEW d, NEW n, d[n + 1] = 15, ~(n + 1 < Len(d))
  PROVE  Operands(d, n) = Any
<1>1. d[n + 1] \notin {144, 195, 204, 201, 244} /\ d[n + 1] \notin 80 .. 95 /\ d[n + 1] \notin {232, 233}
      /\ d[n + 1] \notin {235, 49, 137, 139} /\ d[n + 1] \notin 112 .. 127 /\ d[n + 1] \notin 184 .. 191
      /\ d[n + 1] # 194
  OBVIOUS
<1>2. Any # 5 /\ Any \notin 128 .. 143
  BY DEF Any
<1> QED
  BY <1>1, <1>2, Zenon DEF Operands

LEMMA RegisterOperands ==
  ASSUME NEW d, NEW n, d[n + 1] \in {49, 137, 139}
  PROVE  Operands(d, n) = 1
<1>1. d[n + 1] \notin {144, 195, 204, 201, 244} /\ d[n + 1] \notin 80 .. 95 /\ d[n + 1] \notin {232, 233}
      /\ d[n + 1] # 15 /\ d[n + 1] \notin 184 .. 191 /\ d[n + 1] # 194 /\ d[n + 1] \in {235, 49, 137, 139}
  OBVIOUS
<1> QED
  BY <1>1, Zenon DEF Operands

LEMMA PrefixesEnd ==
  ASSUME NEW d \in Seq(Byte)
  PROVE  /\ Prefixes(d) \in 0 .. Len(d) /\ Len(d) \in Nat
         /\ \A j \in 1 .. Prefixes(d) : d[j] \in Rex
         /\ Prefixes(d) < Len(d) => d[Prefixes(d) + 1] \notin Rex
<1> DEFINE S == {n \in 0 .. Len(d) : n < Len(d) => d[n + 1] \notin Rex}
<1>1. Len(d) \in Nat
  OBVIOUS
<1>2. Len(d) \in S
  BY <1>1
<1>3. PICK n \in S : \A y \in S : n <= y
  <2>1. S \subseteq Nat
    BY <1>1
  <2> HIDE DEF S
  <2> QED
    BY <1>2, <2>1, LeastNumber
<1>4. n \in 0 .. Len(d) /\ (n < Len(d) => d[n + 1] \notin Rex)
  BY <1>3
<1>5. \A j \in 1 .. n : d[j] \in Rex
  <2>1. \A j \in 1 .. n : j - 1 \in 0 .. Len(d) /\ j - 1 < Len(d) /\ (j - 1) + 1 = j /\ ~(n <= j - 1)
    BY <1>1, <1>4
  <2> HIDE DEF S
  <2>2. \A j \in 1 .. n : j - 1 \notin S
    BY <1>3, <2>1
  <2> QED
    BY <2>1, <2>2 DEF S
<1> DEFINE m == Prefixes(d)
<1>6. m \in 0 .. Len(d) /\ (\A j \in 1 .. m : d[j] \in Rex) /\ (m < Len(d) => d[m + 1] \notin Rex)
  BY <1>4, <1>5 DEF Prefixes
<1> QED
  BY <1>1, <1>6

(* An instruction has a byte at least, and none that is not there.         *)
LEMMA Decoded ==
  ASSUME NEW d \in Seq(Byte), Len(d) >= 1
  PROVE  Decode(d).length \in 1 .. Len(d)
<1> DEFINE n == Prefixes(d)
<1>1. n \in 0 .. Len(d) /\ Len(d) \in Nat
  BY PrefixesEnd
<1> HIDE DEF n
<1>2. CASE n = Len(d)
  <2>1. Decode(d) = Unknown(1)
    BY <1>2 DEF Decode, n
  <2> QED
    BY <1>1, <2>1 DEF Unknown
<1>3. CASE n # Len(d)
  <2> DEFINE more == Operands(d, n)
             fits == n + 1 + more <= Len(d)
  <2>1. Decode(d) = WithOperands(d, n, fits)
    BY <1>3 DEF Decode, n
  <2>2. n + 1 \in 1 .. Len(d)
    BY <1>1, <1>3
  <2>3. Unknown(n + 1).length = n + 1
    BY DEF Unknown
  <2>4. CASE more = Any
    <3>1. Decode(d) = Unknown(n + 1)
      BY <2>1, <2>4 DEF WithOperands
    <3> QED
      BY <2>2, <2>3, <3>1
  <2>5. CASE more # Any /\ ~fits
    <3>1. Decode(d).length = Unknown(n + 1).length
      BY <2>1, <2>5 DEF WithOperands, Unknown
    <3> QED
      BY <2>2, <2>3, <3>1
  <2>6. CASE more # Any /\ fits
    <3>1. Decode(d).length = n + 1 + more
      BY <2>1, <2>6 DEF WithOperands
    <3>2. more \in Nat
      BY <2>6, OperandsValue
    <3> HIDE DEF more
    <3>3. n + 1 + more \in 1 .. Len(d)
      BY <1>1, <2>6, <3>2
    <3> QED
      BY <3>1, <3>3
  <2> QED
    BY <2>4, <2>5, <2>6
<1> QED
  BY <1>2, <1>3

(* What is known of the first bytes holds for all bytes.                   *)
LEMMA DecodedAlone ==
  ASSUME NEW d \in Seq(Byte), NEW w \in Seq(Byte), Len(d) >= 1, Len(d) <= Len(w),
         \A j \in 1 .. Len(d) : d[j] = w[j], Decode(d).known, Decode(d).named
  PROVE  Decode(w).known /\ Decode(w).length = Decode(d).length
<1> DEFINE n == Prefixes(d)
           op == d[n + 1]
           more == Operands(d, n)
<1>1. /\ n \in 0 .. Len(d) /\ Len(d) \in Nat /\ Len(w) \in Nat
      /\ \A j \in 1 .. n : d[j] \in Rex
      /\ n < Len(d) => op \notin Rex
  BY PrefixesEnd
<1> HIDE DEF n
<1>2. n # Len(d)
  <2>1. n = Len(d) => Decode(d) = Unknown(1)
    BY DEF Decode, n
  <2> QED
    BY <2>1 DEF Unknown
<1>3. Decode(d) = WithOperands(d, n, n + 1 + more <= Len(d))
  BY <1>2 DEF Decode, n
<1>4. more # Any /\ n + 1 + more <= Len(d)
  <2>1. more = Any => Decode(d) = Unknown(n + 1)
    BY <1>3 DEF WithOperands
  <2>2. more # Any /\ ~(n + 1 + more <= Len(d)) =>
          Decode(d) = [Unknown(n + 1) EXCEPT !.known = op \in 184 .. 191, !.named = op \notin 184 .. 191]
    BY <1>3 DEF WithOperands
  <2>3. more # Any /\ ~(n + 1 + more <= Len(d)) => ~(Decode(d).known /\ Decode(d).named)
    BY <2>2 DEF Unknown
  <2> QED
    BY <2>1, <2>3 DEF Unknown
<1>5. Decode(d) = [length |-> n + 1 + more, named |-> TRUE, known |-> op \in {49, 137, 139} => d[n + 2] >= 192]
  BY <1>3, <1>4 DEF WithOperands
<1>6. more \in Nat
  BY <1>4, OperandsValue
<1>7. n + 1 \in 1 .. Len(d) /\ w[n + 1] = op /\ n < Len(w) /\ n < Len(d)
  BY <1>1, <1>2
<1>8. Prefixes(w) = n
  <2> DEFINE m == Prefixes(w)
  <2>1. m \in 0 .. Len(w) /\ (\A j \in 1 .. m : w[j] \in Rex) /\ (m < Len(w) => w[m + 1] \notin Rex)
    BY PrefixesEnd
  <2> HIDE DEF m
  <2>2. ~(m < n)
    <3>1. SUFFICES ASSUME m < n PROVE FALSE
      OBVIOUS
    <3>2. m + 1 \in 1 .. n /\ m + 1 \in 1 .. Len(d) /\ m < Len(w)
      BY <1>1, <1>7, <2>1, <3>1
    <3> QED
      BY <1>1, <2>1, <3>2
  <2>3. ~(n < m)
    <3>1. SUFFICES ASSUME n < m PROVE FALSE
      OBVIOUS
    <3>2. n + 1 \in 1 .. m
      BY <1>1, <2>1, <3>1
    <3> QED
      BY <1>1, <1>7, <2>1, <3>2
  <2>4. m = n
    BY <1>1, <2>1, <2>2, <2>3
  <2> QED
    BY <2>4 DEF m
<1>9. Wide(d, n) <=> Wide(w, n)
  <2>1. n > 0 => n \in 1 .. Len(d)
    BY <1>1
  <2>2. n > 0 => d[n] = w[n]
    BY <2>1
  <2> QED
    BY <2>2 DEF Wide
<1>10. ASSUME n + 1 < Len(d) PROVE n + 1 < Len(w) /\ d[n + 2] = w[n + 2]
  <2>1. n + 2 \in 1 .. Len(d) /\ n + 1 < Len(w)
    BY <1>1, <1>10
  <2> QED
    BY <2>1
<1>11. Operands(w, n) = more
  <2>1. op = 15 => n + 1 < Len(d)
    BY <1>4, SecondByte
  <2> QED
    BY <1>7, <1>9, <1>10, <2>1, SameOperands, SameSecondByte
<1>12. n + 1 + more <= Len(w) /\ n # Len(w)
  BY <1>1, <1>4, <1>6, <1>7
<1>13. Decode(w) = WithOperands(w, n, n + 1 + more <= Len(w))
  BY <1>8, <1>11, <1>12 DEF Decode
<1>14. Decode(w) = [length |-> n + 1 + more, named |-> TRUE, known |-> op \in {49, 137, 139} => w[n + 2] >= 192]
  BY <1>4, <1>7, <1>11, <1>12, <1>13 DEF WithOperands
<1>15. ASSUME op \in {49, 137, 139} PROVE d[n + 2] = w[n + 2]
  <2>1. more = 1
    BY <1>15, RegisterOperands
  <2>2. n + 1 < Len(d)
    BY <1>1, <1>4, <2>1
  <2> QED
    BY <1>10, <2>2
<1> DEFINE here == op \in {49, 137, 139} => d[n + 2] >= 192
           there == op \in {49, 137, 139} => w[n + 2] >= 192
<1>16. /\ Decode(d) = [length |-> n + 1 + more, named |-> TRUE, known |-> here]
       /\ Decode(w) = [length |-> n + 1 + more, named |-> TRUE, known |-> there]
  BY <1>5, <1>14
<1>17. here
  <2> HIDE DEF here, there
  <2> QED
    BY <1>16
<1>18. there => Decode(w).known
  <2> HIDE DEF here, there
  <2> QED
    BY <1>16
<1>19. Decode(w).length = Decode(d).length
  BY <1>5, <1>14
<1> QED
  BY <1>15, <1>17, <1>18, <1>19, Zenon

LEMMA Cut ==
  ASSUME NEW T, NEW s \in Seq(T), NEW a \in Nat, NEW b \in Nat, a < b, b <= Len(s)
  PROVE  LET c == SubSeq(s, a + 1, b)
         IN  c \in Seq(T) /\ Len(c) = b - a /\ \A j \in 1 .. (b - a) : c[j] = s[a + j]
<1> DEFINE f == [j \in 1 .. (b - a) |-> s[a + j]]
<1>1. SubSeq(s, a + 1, b) = f
  OBVIOUS
<1>2. \A j \in 1 .. (b - a) : s[a + j] \in T
  OBVIOUS
<1>3. f \in Seq(T) /\ Len(f) = b - a
  BY <1>2
<1> QED
  BY <1>1, <1>3

LEMMA InstructionFacts ==
  ASSUME TypeOK, NEW at \in Nat, NEW end \in Nat, at < end, end <= Size
  PROVE  LET x == InstructionAt(at, end)
             alone == Decode(Bytes(at, Size - at))
         IN  /\ x.at = at /\ x.length \in Nat /\ at < at + x.length /\ at + x.length <= end
             /\ x.known /\ x.named => alone.known /\ alone.length = x.length
<1> DEFINE here == Bytes(at, end - at)
           alone == Bytes(at, Size - at)
<1>1. data \in Seq(Byte) /\ Size = Len(data) /\ Size \in Nat
  BY Options DEF TypeOK, Size
<1>2. here = SubSeq(data, at + 1, end) /\ alone = SubSeq(data, at + 1, Size)
  <2>1. at + (end - at) = end /\ at + (Size - at) = Size
    BY <1>1
  <2> QED
    BY <2>1 DEF Bytes
<1>3. /\ here \in Seq(Byte) /\ alone \in Seq(Byte)
      /\ Len(here) = end - at /\ Len(alone) = Size - at
      /\ \A j \in 1 .. Len(here) : here[j] = alone[j]
  <2>1. \A b \in Nat : at < b /\ b <= Size =>
          LET c == SubSeq(data, at + 1, b)
          IN  c \in Seq(Byte) /\ Len(c) = b - at /\ \A j \in 1 .. (b - at) : c[j] = data[at + j]
    BY <1>1, Cut
  <2>2. /\ here \in Seq(Byte) /\ Len(here) = end - at
        /\ \A j \in 1 .. (end - at) : here[j] = data[at + j]
    <3> HIDE DEF here
    <3> QED
      BY <1>2, <2>1
  <2>3. /\ alone \in Seq(Byte) /\ Len(alone) = Size - at
        /\ \A j \in 1 .. (Size - at) : alone[j] = data[at + j]
    <3>1. at < Size /\ Size <= Size /\ Size \in Nat
      BY <1>1
    <3> HIDE DEF alone
    <3> QED
      BY <1>2, <2>1, <3>1
  <2>4. \A j \in 1 .. (end - at) : j \in 1 .. (Size - at)
    BY <1>1
  <2> HIDE DEF here, alone
  <2> QED
    BY <2>2, <2>3, <2>4
<1> HIDE DEF here, alone
<1>4. Len(here) >= 1 /\ Len(here) <= Len(alone)
  BY <1>1, <1>3
<1>5. Decode(here).length \in 1 .. Len(here)
  BY <1>3, <1>4, Decoded
<1> DEFINE x == InstructionAt(at, end)
<1>6. x = [at |-> at, length |-> Decode(here).length, known |-> Decode(here).known, named |-> Decode(here).named]
  BY DEF InstructionAt, here
<1>7. x.at = at /\ x.length = Decode(here).length
  BY <1>6
<1>8. x.known = Decode(here).known /\ x.named = Decode(here).named
  BY <1>6
<1> HIDE DEF x
<1>9. x.length \in Nat /\ at < at + x.length /\ at + x.length <= end
  BY <1>3, <1>5, <1>7
<1>10. ASSUME x.known, x.named PROVE Decode(alone).known /\ Decode(alone).length = x.length
  <2>1. Decode(here).known /\ Decode(here).named
    BY <1>8, <1>10, Zenon
  <2> QED
    BY <1>3, <1>4, <1>7, <2>1, DecodedAlone
<1> QED
  BY <1>7, <1>9, <1>10 DEF x, alone

(***************************************************************************)
(* disasm: the instructions of a block                                     *)
(***************************************************************************)
OneMore(list, offset, size) ==
  LET at == EndOf(list, offset)
  IN  IF at < offset + size THEN Append(list, InstructionAt(at, offset + size)) ELSE list

IsRead(read, offset, size, m) ==
  read = [n \in 0 .. m |-> IF n = 0 THEN <<>> ELSE OneMore(read[n - 1], offset, size)]

LEMMA ReadExists ==
  ASSUME NEW offset, NEW size, NEW count \in Nat
  PROVE  \E r : IsRead(r, offset, size, count)
<1> DEFINE S == {m \in Nat : ~ \E r : IsRead(r, offset, size, m)}
<1> SUFFICES ASSUME S # {} PROVE FALSE
  OBVIOUS
<1>1. PICK m \in S : \A y \in S : m <= y
  BY LeastNumber
<1>2. m \in Nat /\ ~ \E r : IsRead(r, offset, size, m)
  BY <1>1
<1>3. CASE m = 0
  <2> DEFINE r == [k \in 0 .. 0 |-> <<>>]
  <2>1. IsRead(r, offset, size, 0)
    BY DEF IsRead
  <2> QED
    BY <1>2, <1>3, <2>1
<1>4. CASE m # 0
  <2>1. m - 1 \in Nat /\ m - 1 \notin S
    <3>1. m - 1 \in Nat /\ ~(m <= m - 1)
      BY <1>2, <1>4
    <3> QED
      BY <1>1, <3>1
  <2>2. PICK r : IsRead(r, offset, size, m - 1)
    BY <2>1
  <2> DEFINE last == OneMore(r[m - 1], offset, size)
             g == [k \in 0 .. m |-> IF k = m THEN last ELSE r[k]]
  <2>3. \A k \in 0 .. (m - 1) : r[k] = IF k = 0 THEN <<>> ELSE OneMore(r[k - 1], offset, size)
    BY <2>2 DEF IsRead
  <2>4. ASSUME NEW k \in 0 .. m
        PROVE  g[k] = IF k = 0 THEN <<>> ELSE OneMore(g[k - 1], offset, size)
    <3> HIDE DEF last
    <3>1. k # 0 => k - 1 \in 0 .. m /\ k - 1 # m
      BY <1>2
    <3>2. k # 0 => g[k - 1] = r[k - 1]
      BY <3>1
    <3>3. CASE k = m
      <4>1. g[k] = last /\ last = OneMore(r[k - 1], offset, size)
        BY <3>3 DEF last
      <4> QED
        BY <1>4, <3>2, <3>3, <4>1
    <3>4. CASE k # m
      <4>1. k \in 0 .. (m - 1)
        BY <1>2, <3>4
      <4>2. g[k] = r[k]
        BY <3>4
      <4> HIDE DEF g
      <4> QED
        BY <2>3, <3>2, <4>1, <4>2
    <3> QED
      BY <3>3, <3>4
  <2>5. g = [k \in 0 .. m |-> g[k]]
    OBVIOUS
  <2> HIDE DEF g
  <2>6. IsRead(g, offset, size, m)
    <3>1. [k \in 0 .. m |-> g[k]] = [k \in 0 .. m |-> IF k = 0 THEN <<>> ELSE OneMore(g[k - 1], offset, size)]
      BY <2>4
    <3> QED
      BY <2>5, <3>1 DEF IsRead
  <2> QED
    BY <1>2, <2>6
<1> QED
  BY <1>3, <1>4

LEMMA ReadFacts ==
  ASSUME NEW offset, NEW size, request.count \in Nat
  PROVE  \E r : IsRead(r, offset, size, request.count) /\ Instructions(offset, size) = r[request.count]
<1> DEFINE r == CHOOSE r_1 : IsRead(r_1, offset, size, request.count)
<1>1. IsRead(r, offset, size, request.count)
  BY ReadExists
<1>2. Instructions(offset, size) = r[request.count]
  BY Zenon DEF Instructions, IsRead, OneMore
<1> QED
  BY <1>1, <1>2

(* What holds for zero and goes from each number to the next holds up to b.*)
LEMMA Climbing ==
  ASSUME NEW T, NEW b \in Nat, 0 \in T, \A m \in 0 .. (b - 1) : m \in T => m + 1 \in T
  PROVE  b \in T
<1> SUFFICES ASSUME (0 .. b) \ T # {} PROVE FALSE
  OBVIOUS
<1>1. PICK x \in (0 .. b) \ T : \A y \in (0 .. b) \ T : x <= y
  <2>1. (0 .. b) \ T \subseteq Nat
    OBVIOUS
  <2> QED
    BY <2>1, LeastNumber
<1>2. x # 0 /\ x \in 0 .. b
  BY <1>1
<1>3. x - 1 \in 0 .. (b - 1) /\ x - 1 \in 0 .. b /\ x - 1 + 1 = x /\ ~(x <= x - 1)
  BY <1>2
<1>4. x - 1 \in T
  BY <1>1, <1>3
<1>5. x \in T
  BY <1>3, <1>4
<1> QED
  BY <1>1, <1>5

Decodable(offset, size) == {InstructionAt(at, offset + size) : at \in offset .. (offset + size - 1)}

(* What `n' rounds have read. *)
ReadOK(list, offset, size, n) ==
  /\ list \in Seq(Decodable(offset, size))
  /\ EndOf(list, offset) \in offset .. (offset + size)
  /\ \A k \in DOMAIN list : list[k].at = IF k = 1 THEN offset ELSE list[k - 1].at + list[k - 1].length
  /\ Len(list) <= n /\ (Len(list) = n \/ EndOf(list, offset) = offset + size)
  /\ n > 0 => list # <<>>

LEMMA OneMoreOK ==
  ASSUME TypeOK, NEW offset \in Nat, NEW size \in Nat \ {0}, offset + size <= Size,
         NEW n \in Nat, NEW list, ReadOK(list, offset, size, n)
  PROVE  ReadOK(OneMore(list, offset, size), offset, size, n + 1)
<1> DEFINE at == EndOf(list, offset)
           D == Decodable(offset, size)
<1>1. /\ list \in Seq(D) /\ Len(list) \in Nat
      /\ at \in offset .. (offset + size)
      /\ \A k \in DOMAIN list : list[k].at = IF k = 1 THEN offset ELSE list[k - 1].at + list[k - 1].length
      /\ Len(list) <= n /\ (Len(list) = n \/ at = offset + size)
      /\ n > 0 => list # <<>>
  BY DEF ReadOK
<1>2. list = <<>> => at = offset
  BY DEF EndOf
<1>3. CASE ~(at < offset + size)
  <2>1. OneMore(list, offset, size) = list
    BY <1>3 DEF OneMore
  <2>2. at = offset + size
    BY <1>1, <1>3
  <2>3. list # <<>>
    BY <1>2, <2>2
  <2>4. Len(list) <= n + 1
    BY <1>1
  <2> QED
    BY <1>1, <2>1, <2>2, <2>3, <2>4 DEF ReadOK
<1>4. CASE at < offset + size
  <2> DEFINE x == InstructionAt(at, offset + size)
             longer == Append(list, x)
  <2>1. OneMore(list, offset, size) = longer
    BY <1>4 DEF OneMore
  <2>2. at \in offset .. (offset + size - 1) /\ at \in Nat /\ offset + size \in Nat
    BY <1>1, <1>4
  <2>3. x.at = at /\ x.length \in Nat /\ at < at + x.length /\ at + x.length <= offset + size
    BY <1>4, <2>2, InstructionFacts
  <2>4. x \in D
    BY <2>2 DEF Decodable
  <2> HIDE DEF x, D
  <2>5. /\ longer \in Seq(D) /\ Len(longer) = Len(list) + 1
        /\ DOMAIN longer = 1 .. (Len(list) + 1) /\ DOMAIN list = 1 .. Len(list)
        /\ \A m \in DOMAIN list : longer[m] = list[m]
        /\ longer[Len(list) + 1] = x
    BY <1>1, <2>4, Appended
  <2> HIDE DEF longer
  <2>6. list # <<>> => at = list[Len(list)].at + list[Len(list)].length
    BY DEF EndOf
  <2>13. /\ \A k : k \in DOMAIN longer => k \in DOMAIN list \/ k = Len(list) + 1
         /\ \A k \in DOMAIN list : k # 1 => k - 1 \in DOMAIN list
         /\ list # <<>> => Len(list) \in DOMAIN list /\ Len(list) >= 1
         /\ list = <<>> => Len(list) = 0
    <3>1. (list # <<>> => Len(list) # 0) /\ (list = <<>> => Len(list) = 0)
      BY <1>1
    <3>2. DOMAIN list = 1 .. Len(list) /\ DOMAIN longer = 1 .. (Len(list) + 1) /\ Len(list) \in Nat
      BY <1>1, <2>5
    <3>3. \A k : k \in 1 .. (Len(list) + 1) => k \in 1 .. Len(list) \/ k = Len(list) + 1
      BY <3>2
    <3>4. \A k \in 1 .. Len(list) : k # 1 => k - 1 \in 1 .. Len(list)
      BY <3>2
    <3>5. Len(list) # 0 => Len(list) \in 1 .. Len(list) /\ Len(list) >= 1
      BY <3>2
    <3> QED
      BY <3>1, <3>2, <3>3, <3>4, <3>5, Zenon
  <2>7. longer # <<>> /\ Len(longer) >= 1
    <3>1. Len(list) \in Nat /\ Len(longer) = Len(list) + 1
      BY <1>1, <2>5, Zenon
    <3>2. Len(longer) >= 1 /\ Len(longer) # 0
      <4> DEFINE m == Len(longer)
                 l == Len(list)
      <4>1. l \in Nat /\ m = l + 1
        BY <3>1
      <4> HIDE DEF m, l
      <4>2. m >= 1 /\ m # 0
        BY <4>1
      <4> QED
        BY <4>2 DEF m
    <3>3. Len(<<>>) = 0
      OBVIOUS
    <3> QED
      BY <3>2, <3>3, Zenon
  <2>8. EndOf(longer, offset) = at + x.length
    BY <2>3, <2>5, <2>7 DEF EndOf
  <2>9. EndOf(longer, offset) \in offset .. (offset + size)
    <3> HIDE DEF at
    <3> QED
      BY <2>2, <2>3, <2>8
  <2>10. ASSUME NEW k \in DOMAIN longer
         PROVE  longer[k].at = IF k = 1 THEN offset ELSE longer[k - 1].at + longer[k - 1].length
    <3>1. CASE k \in DOMAIN list
      <4>1. k # 1 => k - 1 \in DOMAIN list
        BY <2>13, <3>1
      <4>2. longer[k].at = list[k].at /\ (k # 1 => longer[k - 1] = list[k - 1])
        BY <2>5, <3>1, <4>1
      <4> QED
        BY <1>1, <3>1, <4>2
    <3>2. CASE k = Len(list) + 1
      <4>1. CASE list = <<>>
        <5>1. k = 1
          BY <2>13, <3>2, <4>1
        <5> QED
          BY <1>2, <2>3, <2>5, <3>2, <4>1, <5>1
      <4>2. CASE list # <<>>
        <5>1. k - 1 = Len(list) /\ k # 1
          BY <1>1, <2>13, <3>2, <4>2
        <5> HIDE DEF at
        <5> QED
          BY <2>3, <2>5, <2>6, <2>13, <3>2, <4>2, <5>1
      <4> QED
        BY <4>1, <4>2
    <3> QED
      BY <2>13, <3>1, <3>2
  <2>11. Len(list) = n
    BY <1>1, <1>4
  <2>12. Len(longer) = n + 1 /\ Len(longer) <= n + 1
    BY <1>1, <2>5, <2>11
  <2> QED
    BY <2>1, <2>5, <2>7, <2>9, <2>10, <2>12 DEF ReadOK, D
<1> QED
  BY <1>3, <1>4

LEMMA ReadIsOK ==
  ASSUME TypeOK, request.count \in Nat,
         NEW offset \in Nat, NEW size \in Nat \ {0}, offset + size <= Size
  PROVE  ReadOK(Instructions(offset, size), offset, size, request.count)
<1>0. PICK r : IsRead(r, offset, size, request.count) /\ Instructions(offset, size) = r[request.count]
  BY ReadFacts
<1>1. /\ Instructions(offset, size) = r[request.count]
      /\ r[0] = <<>>
      /\ \A k \in 1 .. request.count : r[k] = OneMore(r[k - 1], offset, size)
  <2>1. \A k \in 0 .. request.count : r[k] = IF k = 0 THEN <<>> ELSE OneMore(r[k - 1], offset, size)
    BY <1>0, Zenon DEF IsRead
  <2>2. 0 \in 0 .. request.count /\ \A k \in 1 .. request.count : k \in 0 .. request.count /\ k # 0
    OBVIOUS
  <2> QED
    BY <1>0, <2>1, <2>2
<1> DEFINE T == {n \in Nat : ReadOK(r[n], offset, size, n)}
<1>2. 0 \in T
  <2>1. <<>> \in Seq(Decodable(offset, size)) /\ Len(<<>>) = 0 /\ DOMAIN <<>> = {}
    OBVIOUS
  <2>2. EndOf(<<>>, offset) = offset
    BY DEF EndOf
  <2>3. offset \in offset .. (offset + size)
    OBVIOUS
  <2>4. ReadOK(<<>>, offset, size, 0)
    BY <2>1, <2>2, <2>3 DEF ReadOK
  <2> QED
    BY <1>1, <2>4
<1>3. ASSUME NEW n \in 0 .. (request.count - 1), n \in T PROVE n + 1 \in T
  <2>1. n \in Nat /\ n + 1 \in 1 .. request.count /\ n + 1 - 1 = n /\ n + 1 \in Nat
    OBVIOUS
  <2>2. r[n + 1] = OneMore(r[n], offset, size)
    BY <1>1, <2>1
  <2>3. ReadOK(r[n], offset, size, n)
    BY <1>3
  <2>4. ReadOK(r[n + 1], offset, size, n + 1)
    BY <2>1, <2>2, <2>3, OneMoreOK
  <2> QED
    BY <2>1, <2>4
<1>4. request.count \in T
  <2> HIDE DEF T
  <2> QED
    BY <1>2, <1>3, Climbing
<1> QED
  BY <1>1, <1>4

LEMMA BlockExact ==
  ASSUME TypeOK, request.task = "disasm",
         NEW offset \in Nat, NEW address, NEW size \in Nat \ {0}, offset + size <= Size
  PROVE  IsExact(Block(offset, address, size))
<1> DEFINE x == Instructions(offset, size)
           block == Block(offset, address, size)
<1>1. request.count \in Nat \ {0}
  BY Options DEF DisassemblyRequest
<1>2. /\ x \in Seq(Decodable(offset, size))
      /\ EndOf(x, offset) \in offset .. (offset + size)
      /\ \A k \in DOMAIN x : x[k].at = IF k = 1 THEN offset ELSE x[k - 1].at + x[k - 1].length
      /\ Len(x) <= request.count /\ (Len(x) = request.count \/ EndOf(x, offset) = offset + size)
      /\ x # <<>>
  <2>1. ReadOK(x, offset, size, request.count) /\ request.count > 0
    BY <1>1, ReadIsOK
  <2> HIDE DEF x
  <2> QED
    BY <2>1 DEF ReadOK
<1>3. block.instructions = x /\ block.at = offset /\ block.size = size
  BY DEF Block
<1> HIDE DEF x, block
<1>4. ASSUME NEW k \in DOMAIN x, x[k].known, x[k].named
      PROVE  LET alone == Decode(Bytes(x[k].at, Size - x[k].at))
             IN  alone.known /\ alone.length = x[k].length
  <2>1. x[k] \in Decodable(offset, size)
    BY <1>2
  <2>2. PICK at \in offset .. (offset + size - 1) : x[k] = InstructionAt(at, offset + size)
    BY <2>1 DEF Decodable
  <2>3. at \in Nat /\ offset + size \in Nat /\ at < offset + size
    OBVIOUS
  <2> QED
    BY <1>4, <2>2, <2>3, InstructionFacts
<1>5. Len(x) = request.count \/ x[Len(x)].at + x[Len(x)].length = offset + size
  BY <1>2 DEF EndOf
<1>6. IsExact(block)
  BY <1>2, <1>3, <1>4, <1>5 DEF IsExact
<1> QED
  BY <1>6 DEF block

(***************************************************************************)
(* disasm: the parts                                                       *)
(***************************************************************************)
LEMMA DisassemblyOptions ==
  ASSUME TypeOK, request.task = "disasm"
  PROVE  /\ Size \in Nat /\ Base \in Nat /\ Len(Parts) \in Nat /\ DOMAIN Parts = 1 .. Len(Parts)
         /\ request.maxBytes \in Nat /\ request.count \in Nat \ {0}
         /\ request.entry \in AtMostOne /\ request.entry \subseteq Nat /\ request.fromEntry \in BOOLEAN
         /\ \A p \in DOMAIN Parts :
              /\ Parts[p].offsets \in AtMostOne /\ Parts[p].address \in Nat
              /\ \A o \in Within(Parts[p]) : Parts[p].size \in Nat \ {0}
<1>1. Size \in Nat /\ request \in DisassemblyRequest
  BY Options
<1>2. CASE request.format = "raw"
  <2>1. /\ request.offset \in Nat /\ request.maxBytes \in Nat /\ request.count \in Nat \ {0}
        /\ request.entry = {} /\ request.fromEntry \in BOOLEAN
    BY <1>1, <1>2 DEF DisassemblyRequest
  <2> DEFINE part == [offsets |-> {request.offset}, address |-> request.offset, size |-> Size - request.offset]
  <2>2. Parts = <<part>>
    BY <1>2 DEF Parts
  <2>3. DOMAIN Parts = 1 .. 1 /\ Len(Parts) = 1 /\ Parts[1] = part
    BY <2>2
  <2>4. part.offsets = {request.offset} /\ part.address = request.offset /\ part.size = Size - request.offset
    OBVIOUS
  <2> HIDE DEF part
  <2>5. part.offsets \in AtMostOne /\ part.address \in Nat
    BY <2>1, <2>4 DEF AtMostOne
  <2>6. \A o \in Within(part) : part.size \in Nat \ {0}
    <3>1. \A o \in Within(part) : o = request.offset /\ o < Size
      BY <2>4 DEF Within
    <3> QED
      BY <1>1, <2>1, <2>4, <3>1
  <2>7. \A p \in DOMAIN Parts : Parts[p] = part
    BY <2>3
  <2>8. Base \in Nat /\ request.entry \in AtMostOne
    BY <1>2, <2>1 DEF Base, AtMostOne
  <2> QED
    BY <1>1, <2>1, <2>3, <2>5, <2>6, <2>7, <2>8
<1>3. CASE request.format # "raw"
  <2>1. /\ request.parts \in Seq(Part) /\ request.base \in Nat /\ request.maxBytes \in Nat /\ request.count \in Nat \ {0}
        /\ request.entry \in AtMostOne /\ request.fromEntry \in BOOLEAN
    BY <1>1, <1>3 DEF DisassemblyRequest
  <2>2. Parts = request.parts
    BY <1>3 DEF Parts
  <2>3. Len(Parts) \in Nat /\ DOMAIN Parts = 1 .. Len(Parts) /\ \A p \in DOMAIN Parts : Parts[p] \in Part
    BY <2>1, <2>2
  <2>4. \A x \in Part : x.offsets \in AtMostOne /\ x.address \in Nat /\ x.size \in Nat
    BY DEF Part
  <2>5. \A x \in Part : \A o \in Within(x) : x.size # 0
    BY DEF Within
  <2>6. Base \in Nat
    BY <2>1 DEF Base
  <2>7. request.entry \subseteq Nat
    BY <2>1 DEF AtMostOne
  <2> QED
    BY <1>1, <2>1, <2>3, <2>4, <2>5, <2>6, <2>7
<1> QED
  BY <1>2, <1>3

LEMMA PartFacts ==
  ASSUME TypeOK, request.task = "disasm", NEW p \in DOMAIN Parts, NEW o \in Within(Parts[p])
  PROVE  LET size == Extent(Parts[p], o)
         IN  /\ o \in Nat /\ size \in Nat \ {0} /\ o + size <= Size
             /\ Shown(Parts[p], o) = o .. (o + size - 1)
             /\ \A a \in Within(Parts[p]) : a = o
<1> DEFINE part == Parts[p]
           size == Extent(part, o)
           max == request.maxBytes
<1>1. /\ Size \in Nat /\ max \in Nat /\ part.offsets \in AtMostOne /\ part.size \in Nat \ {0}
  BY DisassemblyOptions
<1>2. o \in part.offsets /\ o < Size /\ \A a \in Within(part) : a \in part.offsets
  BY DEF Within
<1>3. o \in Nat /\ \A a \in Within(part) : a = o
  BY <1>1, <1>2 DEF AtMostOne
<1> DEFINE n == part.size
           shorter == IF n <= Size - o THEN n ELSE Size - o
<1>4. size = IF max = 0 THEN shorter ELSE IF shorter <= max THEN shorter ELSE max
  BY DEF Extent, Least
<1>5. \A b : b \in Shown(part, o) <=> b \in o .. (Size - 1) /\ b < o + n /\ (max # 0 => b < o + max)
  BY DEF Shown
<1> HIDE DEF n, size, max, part
<1>6. n \in Nat \ {0}
  BY <1>1 DEF n
<1>7. size \in Nat \ {0} /\ o + size <= Size
  BY <1>1, <1>2, <1>3, <1>4, <1>6
<1>8. \A b : b \in o .. (Size - 1) /\ b < o + n /\ (max # 0 => b < o + max) <=> b \in o .. (o + size - 1)
  BY <1>1, <1>2, <1>3, <1>4, <1>6
<1>9. Shown(part, o) = o .. (o + size - 1)
  BY <1>5, <1>8
<1> QED
  BY <1>3, <1>7, <1>9 DEF size, part

LEMMA CountFacts ==
  ASSUME TypeOK, request.task = "disasm", NEW n \in Nat \ {0}
  PROVE  LET before == {q \in InFile : q < n}
         IN  /\ IsFiniteSet(before) /\ Cardinality(before) \in Nat
             /\ n \in InFile => Cardinality({q \in InFile : q < n + 1}) = Cardinality(before) + 1
             /\ n \notin InFile => {q \in InFile : q < n + 1} = before
             /\ \A p \in InFile : {q \in InFile : q <= p} = {q \in InFile : q < p + 1}
             /\ \A p \in InFile : p < n => Cardinality({q \in InFile : q <= p}) \in 1 .. Cardinality(before)
<1> DEFINE before == {q \in InFile : q < n}
<1>1. InFile \subseteq 1 .. Len(Parts) /\ Len(Parts) \in Nat
  BY DisassemblyOptions DEF InFile
<1>2. \A q \in InFile : q \in Nat
  BY <1>1
<1>3. IsFiniteSet(InFile)
  <2>1. IsFiniteSet(1 .. Len(Parts)) /\ InFile \in SUBSET (1 .. Len(Parts))
    BY <1>1, FS_Interval
  <2> QED
    BY <2>1, FS_Subset
<1>4. IsFiniteSet(before) /\ Cardinality(before) \in Nat
  BY <1>3, FS_Subset, FS_CardinalityType
<1>5. \A q \in InFile : q < n + 1 <=> (q < n \/ q = n)
  BY <1>2
<1>6. ASSUME n \in InFile PROVE {q \in InFile : q < n + 1} = before \cup {n} /\ n \notin before
  <2>1. ~(n < n)
    OBVIOUS
  <2>2. \A q : q \in {x \in InFile : x < n + 1} <=> q \in before \cup {n}
    BY <1>5, <1>6
  <2> QED
    BY <2>1, <2>2
<1>7. n \in InFile => Cardinality({q \in InFile : q < n + 1}) = Cardinality(before) + 1
  BY <1>4, <1>6, FS_AddElement
<1>8. n \notin InFile => {q \in InFile : q < n + 1} = before
  BY <1>5
<1>9. \A p \in InFile : {q \in InFile : q <= p} = {q \in InFile : q < p + 1}
  BY <1>2
<1>10. ASSUME NEW p \in InFile, p < n
       PROVE  Cardinality({q \in InFile : q <= p}) \in 1 .. Cardinality(before)
  <2> DEFINE upto == {q \in InFile : q <= p}
  <2>1. upto \in SUBSET before /\ p \in upto
    BY <1>2, <1>10
  <2> HIDE DEF upto, before
  <2>2. IsFiniteSet(upto) /\ Cardinality(upto) <= Cardinality(before) /\ Cardinality(upto) \in Nat
    BY <1>4, <2>1, FS_Subset, FS_CardinalityType
  <2>3. Cardinality(upto) # 0
    BY <2>1, <2>2, FS_EmptySet
  <2> QED
    BY <1>4, <2>2, <2>3 DEF upto
<1> QED
  BY <1>4, <1>7, <1>8, <1>9, <1>10

IsLonger(longer, list, x) ==
  /\ longer \in Seq(Elements(longer))
  /\ Len(longer) = Len(list) + 1 /\ Len(list) \in Nat
  /\ DOMAIN longer = 1 .. (Len(list) + 1) /\ DOMAIN list = 1 .. Len(list)
  /\ \A m \in DOMAIN list : longer[m] = list[m]
  /\ longer[Len(list) + 1] = x
  /\ Elements(longer) = Elements(list) \cup {x}

LEMMA AppendedToAny ==
  ASSUME NEW list, list \in Seq(Elements(list)), NEW x
  PROVE  IsLonger(Append(list, x), list, x)
<1> DEFINE S == Elements(list) \cup {x}
<1>1. DOMAIN list = 1 .. Len(list) /\ Len(list) \in Nat /\ \A m \in DOMAIN list : list[m] \in S
  BY DEF Elements
<1>2. list \in Seq(S) /\ x \in S
  <2> HIDE DEF S
  <2>1. list \in Seq(S)
    BY <1>1
  <2> QED
    BY <2>1 DEF S
<1> HIDE DEF S
<1>3. /\ Append(list, x) \in Seq(S)
      /\ DOMAIN Append(list, x) = 1 .. (Len(list) + 1) /\ Len(Append(list, x)) = Len(list) + 1
      /\ \A m \in DOMAIN list : Append(list, x)[m] = list[m]
      /\ Append(list, x)[Len(list) + 1] = x
      /\ Elements(Append(list, x)) = Elements(list) \cup {x}
  BY <1>2, Appended
<1> QED
  BY <1>1, <1>3, Zenon DEF S, IsLonger

TheBlock(p, o) == Block(o, Base + Parts[p].address, Extent(Parts[p], o))

IsPlaced(b) == b.at \in Nat /\ b.size \in Nat

(* A block from the entry point on.                                        *)
LEMMA EnteredShows ==
  ASSUME TypeOK, request.task = "disasm", NEW p \in DOMAIN Parts, NEW o \in Within(Parts[p]),
         NEW entry \in Entered(TheBlock(p, o))
  PROVE  LET b == FromEntry(TheBlock(p, o), entry)
         IN  IsExact(b) /\ ShowsEnd(b, Parts[p]) /\ IsPlaced(b)
<1> DEFINE size == Extent(Parts[p], o)
           a == Base + Parts[p].address
           b == FromEntry(TheBlock(p, o), entry)
           later == o + (entry - a)
           less == size - (entry - a)
<1>1. /\ o \in Nat /\ size \in Nat \ {0} /\ o + size <= Size /\ Size \in Nat
      /\ Shown(Parts[p], o) = o .. (o + size - 1)
  BY PartFacts, DisassemblyOptions
<1>2. a \in Nat /\ entry \in Nat /\ entry \in request.entry
  <2>1. Base \in Nat /\ Parts[p].address \in Nat /\ request.entry \subseteq Nat
    BY DisassemblyOptions
  <2> QED
    BY <2>1 DEF Entered
<1>3. TheBlock(p, o).at = o /\ TheBlock(p, o).address = a /\ TheBlock(p, o).size = size
  BY DEF TheBlock, Block
<1>4. a <= entry /\ entry < a + size
  BY <1>3 DEF Entered, Holds
<1>5. b = Block(later, entry, less)
  BY <1>3 DEF FromEntry
<1>6. b.at = later /\ b.address = entry /\ b.size = less
  BY <1>5 DEF Block
<1> HIDE DEF b, size, a
<1>7. later \in Nat /\ less \in Nat \ {0} /\ later + less <= Size
  BY <1>1, <1>2, <1>4
<1>8. IsExact(b)
  <2> HIDE DEF later, less
  <2> QED
    BY <1>5, <1>7, BlockExact
<1>9. BytesOfBlock(b) = {x \in Shown(Parts[p], o) : a + (x - o) >= entry}
  <2>1. \A x : x \in later .. (later + less - 1) <=> x \in o .. (o + size - 1) /\ a + (x - o) >= entry
    BY <1>1, <1>2, <1>4
  <2>2. BytesOfBlock(b) = later .. (later + less - 1)
    BY <1>6 DEF BytesOfBlock
  <2> HIDE DEF later, less
  <2> QED
    BY <1>1, <2>1, <2>2
<1>10. ShowsEnd(b, Parts[p])
  BY <1>2, <1>6, <1>9 DEF ShowsEnd, a
<1>11. IsPlaced(b)
  BY <1>6, <1>7 DEF IsPlaced
<1> QED
  BY <1>8, <1>10, <1>11 DEF b

(* The blocks of the parts gone through.                                   *)
AddedOK ==
  /\ result \in Seq(Elements(result))
  /\ Len(result) = Cardinality({q \in InFile : q < pass})
  /\ \A k \in DOMAIN result : \E p \in InFile : \E o \in Within(Parts[p]) : result[k] = TheBlock(p, o)
  /\ \A p \in InFile : p < pass =>
       \A o \in Within(Parts[p]) : result[Cardinality({q \in InFile : q <= p})] = TheBlock(p, o)

(* The blocks gone through for the entry point.                            *)
EnteredOK ==
  /\ found \in Seq(Elements(found)) /\ i <= Len(result)
  /\ pass <= Len(Parts) => i = 0 /\ found = <<>>
  /\ \A m \in DOMAIN found : \E k \in DOMAIN result : \E entry \in Entered(result[k]) :
       found[m] = FromEntry(result[k], entry)
  /\ \A k \in 1 .. i : \A entry \in Entered(result[k]) : FromEntry(result[k], entry) \in Elements(found)

DisassemblyInv ==
  request.task = "disasm" =>
    /\ outcome = "none" => AddedOK /\ EnteredOK
    /\ outcome = "Success" => BlocksAreExact /\ \A k \in DOMAIN result : IsPlaced(result[k])

LEMMA AddKeeps ==
  ASSUME TypeOK, DisassemblyInv, request.task = "disasm", SkipPart \/ AddPart
  PROVE  AddedOK' /\ EnteredOK'
<1>1. /\ data' = data /\ request' = request /\ pass' = pass + 1 /\ i' = i /\ found' = found
      /\ outcome = "none" /\ pass <= Len(Parts)
  BY DEF SkipPart, AddPart, Disassembling, Doing
<1>2. /\ Parts' = Parts /\ Base' = Base
      /\ \A part : Within(part)' = Within(part)
      /\ \A part, o : Extent(part, o)' = Extent(part, o)
  BY <1>1 DEF Parts, Base, Within, Extent, Size
<1>3. InFile' = InFile
  BY <1>1, <1>2 DEF InFile, Within, Size
<1>4. pass \in Nat \ {0} /\ Len(Parts) \in Nat /\ DOMAIN Parts = 1 .. Len(Parts) /\ pass \in DOMAIN Parts
  BY <1>1, DisassemblyOptions DEF TypeOK
<1> DEFINE before == {q \in InFile : q < pass}
           through == {q \in InFile : q < pass + 1}
           Count(p) == Cardinality({q \in InFile : q <= p})
<1>5. /\ AddedOK /\ EnteredOK
      /\ result \in Seq(Elements(result)) /\ Len(result) = Cardinality(before)
      /\ \A k \in DOMAIN result : \E p \in InFile : \E o \in Within(Parts[p]) : result[k] = TheBlock(p, o)
      /\ \A p \in InFile : p < pass => \A o \in Within(Parts[p]) : result[Count(p)] = TheBlock(p, o)
  BY <1>1 DEF DisassemblyInv, AddedOK
<1>6. i = 0 /\ found = <<>>
  BY <1>1, <1>5 DEF EnteredOK
<1>7. /\ Cardinality(before) \in Nat
      /\ pass \in InFile => Cardinality(through) = Cardinality(before) + 1
      /\ pass \notin InFile => through = before
      /\ \A p \in InFile : {q \in InFile : q <= p} = {q \in InFile : q < p + 1}
      /\ \A p \in InFile : p < pass => Count(p) \in 1 .. Cardinality(before)
  BY <1>4, CountFacts
<1>8. \A p \in InFile : p < pass + 1 => p < pass \/ p = pass
  BY <1>4 DEF InFile
<1>9. ASSUME /\ result' \in Seq(Elements(result')) /\ Len(result') = Cardinality(through)
             /\ \A k \in DOMAIN result' : \E p \in InFile : \E o \in Within(Parts[p]) : result'[k] = TheBlock(p, o)
             /\ \A p \in InFile : p < pass + 1 => \A o \in Within(Parts[p]) : result'[Count(p)] = TheBlock(p, o)
      PROVE  AddedOK'
  <2>1. \A p : Within(Parts[p])' = Within(Parts[p])
    BY <1>1, <1>2 DEF Within, Size
  <2>2. \A p, o : TheBlock(p, o)' = TheBlock(p, o)
    BY <1>1, <1>2 DEF TheBlock, Block, Instructions, InstructionAt, Bytes, Extent, Size, EndOf
  <2>3. \A x : x = result' => Elements(result)' = Elements(x)
    BY DEF Elements
  <2> QED
    BY <1>1, <1>3, <1>9, <2>1, <2>2, <2>3 DEF AddedOK
<1>10. ASSUME result' \in Seq(Elements(result')) PROVE EnteredOK'
  <2>1. Len(result') \in Nat
    BY <1>10
  <2>2. \A x : x = found' => Elements(found)' = Elements(x)
    BY DEF Elements
  <2>3. found' \in Seq(Elements(found'))
    BY <1>1, <1>5 DEF EnteredOK
  <2>4. 1 .. i' = {} /\ DOMAIN found' = {}
    BY <1>1, <1>6
  <2> QED
    BY <1>1, <1>6, <2>1, <2>2, <2>3, <2>4 DEF EnteredOK
<1>11. CASE SkipPart
  <2>1. result' = result /\ pass \notin InFile
    BY <1>11 DEF SkipPart, InFile
  <2>2. \A p \in InFile : p < pass + 1 => p < pass
    BY <1>8, <2>1
  <2> QED
    BY <1>5, <1>7, <1>9, <1>10, <2>1, <2>2
<1>12. CASE AddPart
  <2>1. PICK a \in Within(Parts[pass]) : result' = Append(result, TheBlock(pass, a))
    BY <1>12 DEF AddPart, TheBlock
  <2>2. pass \in InFile /\ \A o \in Within(Parts[pass]) : o = a
    <3>1. \A o \in Within(Parts[pass]) : o = a
      BY <1>4, PartFacts
    <3> QED
      BY <1>4, <2>1, <3>1 DEF InFile
  <2> DEFINE x == TheBlock(pass, a)
             longer == Append(result, x)
  <2>8. result' = longer
    BY <2>1
  <2> HIDE DEF x
  <2>9. /\ longer \in Seq(Elements(longer)) /\ Len(longer) = Len(result) + 1 /\ Len(result) \in Nat
        /\ DOMAIN longer = 1 .. (Len(result) + 1) /\ DOMAIN result = 1 .. Len(result)
        /\ \A m \in DOMAIN result : longer[m] = result[m]
        /\ longer[Len(result) + 1] = x
    <3>1. result \in Seq(Elements(result))
      BY <1>5
    <3>2. IsLonger(Append(result, x), result, x)
      BY <3>1, AppendedToAny, Zenon
    <3>3. IsLonger(longer, result, x)
      BY <3>2
    <3> HIDE DEF longer
    <3> QED
      BY <3>3, Zenon DEF IsLonger
  <2> HIDE DEF longer
  <2>3. /\ result' \in Seq(Elements(result')) /\ Len(result') = Len(result) + 1 /\ Len(result) \in Nat
        /\ DOMAIN result' = 1 .. (Len(result) + 1) /\ DOMAIN result = 1 .. Len(result)
        /\ \A m \in DOMAIN result : result'[m] = result[m]
        /\ result'[Len(result) + 1] = x
    BY <2>8, <2>9
  <2>4. \A k \in DOMAIN result' : k \in DOMAIN result \/ k = Len(result) + 1
    BY <2>3
  <2>5. \A k \in DOMAIN result' : \E p \in InFile : \E o \in Within(Parts[p]) : result'[k] = TheBlock(p, o)
    BY <1>5, <2>1, <2>2, <2>3, <2>4 DEF x
  <2>6. Count(pass) = Len(result) + 1
    BY <1>5, <1>7, <2>2
  <2>7. ASSUME NEW p \in InFile, p < pass + 1, NEW o \in Within(Parts[p])
        PROVE  result'[Count(p)] = TheBlock(p, o)
    <3>1. CASE p < pass
      <4>1. Count(p) \in DOMAIN result
        BY <1>5, <1>7, <2>3, <3>1
      <4> QED
        BY <1>5, <2>3, <3>1, <4>1
    <3>2. CASE p = pass
      BY <2>2, <2>3, <2>6, <3>2 DEF x
    <3> QED
      BY <1>8, <2>7, <3>1, <3>2
  <2> QED
    BY <1>5, <1>7, <1>9, <1>10, <2>2, <2>3, <2>5, <2>7
<1> QED
  BY <1>11, <1>12

LEMMA EnterKeeps ==
  ASSUME TypeOK, DisassemblyInv, request.task = "disasm", SkipBlock \/ EnterBlock
  PROVE  AddedOK' /\ EnteredOK'
<1>1. /\ data' = data /\ request' = request /\ pass' = pass /\ i' = i + 1 /\ result' = result
      /\ outcome = "none" /\ pass > Len(Parts) /\ i < Len(result)
  BY DEF SkipBlock, EnterBlock, Entering, Doing
<1>2. AddedOK'
  <2>1. AddedOK
    BY <1>1 DEF DisassemblyInv
  <2>2. AddedOK' <=> AddedOK
    BY <1>1 DEF AddedOK, Elements, Parts, InFile, Within, Size, TheBlock, Block, Instructions, InstructionAt,
      Bytes, Extent, EndOf, Base
  <2> QED
    BY <2>1, <2>2
<1>3. /\ found \in Seq(Elements(found)) /\ result \in Seq(Elements(result))
      /\ \A m \in DOMAIN found : \E k \in DOMAIN result : \E entry \in Entered(result[k]) :
           found[m] = FromEntry(result[k], entry)
      /\ \A k \in 1 .. i : \A entry \in Entered(result[k]) : FromEntry(result[k], entry) \in Elements(found)
  BY <1>1 DEF DisassemblyInv, EnteredOK, AddedOK
<1>4. /\ i \in Nat /\ Len(Parts) \in Nat /\ pass \in Nat /\ Len(result) \in Nat /\ DOMAIN result = 1 .. Len(result)
      /\ i + 1 \in DOMAIN result /\ i + 1 <= Len(result) /\ ~(pass <= Len(Parts))
      /\ \A k \in 1 .. (i + 1) : k \in 1 .. i \/ k = i + 1
  <2>1. /\ i \in Nat /\ Len(Parts) \in Nat /\ pass \in Nat /\ Len(result) \in Nat /\ DOMAIN result = 1 .. Len(result)
    BY <1>3, DisassemblyOptions DEF TypeOK
  <2> QED
    BY <1>1, <2>1
<1>5. ASSUME /\ found' \in Seq(Elements(found'))
             /\ \A m \in DOMAIN found' : \E k \in DOMAIN result : \E entry \in Entered(result[k]) :
                  found'[m] = FromEntry(result[k], entry)
             /\ \A k \in 1 .. (i + 1) : \A entry \in Entered(result[k]) :
                  FromEntry(result[k], entry) \in Elements(found')
      PROVE  EnteredOK'
  <2>1. Len(Parts)' = Len(Parts)
    BY <1>1 DEF Parts, Size
  <2>2. \A k : Entered(result[k])' = Entered(result[k])
    BY <1>1 DEF Entered, Holds
  <2>3. \A k, entry : FromEntry(result[k], entry)' = FromEntry(result[k], entry)
    BY <1>1 DEF FromEntry, Block, Instructions, InstructionAt, Bytes, EndOf
  <2>4. \A x : x = found' => Elements(found)' = Elements(x)
    BY DEF Elements
  <2>5. (found \in Seq(Elements(found)) /\ i <= Len(result))'
    BY <1>1, <1>4, <1>5, <2>4
  <2>6. (pass <= Len(Parts) => i = 0 /\ found = <<>>)'
    BY <1>1, <1>4, <2>1
  <2>7. (\A m \in DOMAIN found : \E k \in DOMAIN result : \E entry \in Entered(result[k]) :
           found[m] = FromEntry(result[k], entry))'
    <3> SUFFICES ASSUME NEW m \in DOMAIN found'
                 PROVE  \E k \in DOMAIN result' : \E entry \in Entered(result[k])' : found'[m] = FromEntry(result[k], entry)'
      OBVIOUS
    <3>1. PICK k \in DOMAIN result : \E entry \in Entered(result[k]) : found'[m] = FromEntry(result[k], entry)
      BY <1>5
    <3>2. PICK entry \in Entered(result[k]) : found'[m] = FromEntry(result[k], entry)
      BY <3>1
    <3>3. k \in DOMAIN result' /\ entry \in Entered(result[k])' /\ found'[m] = FromEntry(result[k], entry)'
      BY <1>1, <2>2, <2>3, <3>2
    <3> QED
      BY <3>3
  <2>8. (\A k \in 1 .. i : \A entry \in Entered(result[k]) : FromEntry(result[k], entry) \in Elements(found))'
    <3> SUFFICES ASSUME NEW k \in 1 .. i', NEW entry \in Entered(result[k])'
                 PROVE  FromEntry(result[k], entry)' \in Elements(found)'
      OBVIOUS
    <3>1. k \in 1 .. (i + 1) /\ entry \in Entered(result[k])
      BY <1>1, <2>2
    <3>2. FromEntry(result[k], entry) \in Elements(found')
      BY <1>5, <3>1
    <3> QED
      BY <2>3, <2>4, <3>2
  <2> QED
    BY <2>5, <2>6, <2>7, <2>8 DEF EnteredOK
<1>6. CASE SkipBlock
  <2>1. found' = found /\ Entered(result[i + 1]) = {}
    BY <1>6 DEF SkipBlock
  <2>2. \A k \in 1 .. (i + 1) : \A entry \in Entered(result[k]) : FromEntry(result[k], entry) \in Elements(found)
    BY <1>3, <1>4, <2>1
  <2> QED
    BY <1>2, <1>3, <1>5, <2>1, <2>2
<1>7. CASE EnterBlock
  <2>1. PICK e \in Entered(result[i + 1]) : found' = Append(found, FromEntry(result[i + 1], e))
    BY <1>7 DEF EnterBlock
  <2>2. \A entry \in Entered(result[i + 1]) : entry = e
    BY DisassemblyOptions DEF Entered, AtMostOne
  <2> DEFINE x == FromEntry(result[i + 1], e)
             longer == Append(found, x)
  <2>3. found' = longer
    BY <2>1
  <2> HIDE DEF x
  <2>4. /\ longer \in Seq(Elements(longer)) /\ Len(longer) = Len(found) + 1 /\ Len(found) \in Nat
        /\ DOMAIN longer = 1 .. (Len(found) + 1) /\ DOMAIN found = 1 .. Len(found)
        /\ \A m \in DOMAIN found : longer[m] = found[m]
        /\ longer[Len(found) + 1] = x
        /\ Elements(longer) = Elements(found) \cup {x}
    <3>1. found \in Seq(Elements(found))
      BY <1>3
    <3>2. IsLonger(Append(found, x), found, x)
      BY <3>1, AppendedToAny, Zenon
    <3>3. IsLonger(longer, found, x)
      BY <3>2
    <3> HIDE DEF longer
    <3> QED
      BY <3>3, Zenon DEF IsLonger
  <2> HIDE DEF longer
  <2>5. \A m \in DOMAIN longer : m \in DOMAIN found \/ m = Len(found) + 1
    BY <2>4
  <2>6. \A m \in DOMAIN longer : \E k \in DOMAIN result : \E entry \in Entered(result[k]) :
          longer[m] = FromEntry(result[k], entry)
    BY <1>3, <1>4, <2>1, <2>4, <2>5 DEF x
  <2>7. \A k \in 1 .. (i + 1) : \A entry \in Entered(result[k]) : FromEntry(result[k], entry) \in Elements(longer)
    BY <1>3, <1>4, <2>2, <2>4 DEF x
  <2> QED
    BY <1>2, <1>5, <2>3, <2>4, <2>6, <2>7
<1> QED
  BY <1>6, <1>7

LEMMA BlocksReported ==
  ASSUME TypeOK, DisassemblyInv, request.task = "disasm", EndDisassembly
  PROVE  BlocksAreExact' /\ (\A k \in DOMAIN result : IsPlaced(result[k]))'
<1>1. /\ data' = data /\ request' = request /\ pass' = pass
      /\ outcome = "none" /\ pass > Len(Parts) /\ (request.fromEntry => i = Len(result))
      /\ result' = IF request.fromEntry THEN found ELSE result
  BY DEF EndDisassembly, Doing, Finish
<1>2. AddedOK /\ EnteredOK
  BY <1>1 DEF DisassemblyInv
<1>3. /\ InFile \subseteq DOMAIN Parts
      /\ \A p \in DOMAIN Parts : \A o \in Within(Parts[p]) : p \in InFile /\ p < pass
  <2>1. Len(Parts) \in Nat /\ DOMAIN Parts = 1 .. Len(Parts) /\ pass \in Nat
    BY DisassemblyOptions DEF TypeOK
  <2>2. \A p \in DOMAIN Parts : p < pass
    BY <1>1, <2>1
  <2> QED
    BY <2>2 DEF InFile
<1>4. /\ \A k \in DOMAIN result : \E p \in InFile : \E o \in Within(Parts[p]) : result[k] = TheBlock(p, o)
      /\ \A p \in InFile : \A o \in Within(Parts[p]) : result[Cardinality({q \in InFile : q <= p})] = TheBlock(p, o)
      /\ Len(result) = Cardinality(InFile)
  <2>1. {q \in InFile : q < pass} = InFile /\ \A p \in InFile : p < pass
    BY <1>3 DEF InFile
  <2> QED
    BY <1>2, <2>1 DEF AddedOK
<1>5. ASSUME NEW p \in DOMAIN Parts, NEW o \in Within(Parts[p])
      PROVE  IsExact(TheBlock(p, o)) /\ BytesOfBlock(TheBlock(p, o)) = Shown(Parts[p], o) /\ IsPlaced(TheBlock(p, o))
  <2> DEFINE size == Extent(Parts[p], o)
  <2>1. o \in Nat /\ size \in Nat \ {0} /\ o + size <= Size /\ Shown(Parts[p], o) = o .. (o + size - 1)
    BY PartFacts
  <2>2. TheBlock(p, o) = Block(o, Base + Parts[p].address, size)
    BY DEF TheBlock
  <2> HIDE DEF size
  <2>3. IsExact(TheBlock(p, o))
    BY <2>1, <2>2, BlockExact
  <2>4. TheBlock(p, o).at = o /\ TheBlock(p, o).size = size
    BY <2>2 DEF Block
  <2> QED
    BY <2>1, <2>3, <2>4 DEF BytesOfBlock, IsPlaced
<1> DEFINE list == result'
<1>6. ASSUME /\ \A k \in DOMAIN list : IsExact(list[k]) /\ IsPlaced(list[k])
             /\ IF request.fromEntry
                  THEN /\ \A k \in DOMAIN list : \E p \in InFile : ShowsEnd(list[k], Parts[p])
                       /\ \A p \in InFile : Contains(Parts[p]) => \E k \in DOMAIN list : ShowsEnd(list[k], Parts[p])
                  ELSE /\ Len(list) = Cardinality(InFile)
                       /\ \A p \in InFile : \A o \in Within(Parts[p]) :
                            BytesOfBlock(list[Cardinality({q \in InFile : q <= p})]) = Shown(Parts[p], o)
      PROVE  BlocksAreExact' /\ (\A k \in DOMAIN result : IsPlaced(result[k]))'
  <2>7. (\A k \in DOMAIN result : IsPlaced(result[k]))'
    BY <1>6 DEF IsPlaced
  <2>1. \A k : IsExact(result[k])' <=> IsExact(list[k])
    BY <1>1 DEF IsExact, Bytes, Size
  <2>2. /\ Parts' = Parts /\ InFile' = InFile
        /\ \A p : Within(Parts[p])' = Within(Parts[p]) /\ (Contains(Parts[p])' <=> Contains(Parts[p]))
        /\ \A p, o : Shown(Parts[p], o)' = Shown(Parts[p], o)
        /\ \A k, p : ShowsEnd(result[k], Parts[p])' <=> ShowsEnd(list[k], Parts[p])
    BY <1>1 DEF Parts, InFile, Within, Size, Contains, Shown, Base, ShowsEnd, BytesOfBlock
  <2>4. (\A k \in DOMAIN result : IsExact(result[k]))'
    BY <1>6, <2>1
  <2>5. CASE request.fromEntry
    <3>1. (\A k \in DOMAIN result : \E p \in InFile : ShowsEnd(result[k], Parts[p]))'
      BY <1>6, <2>2, <2>5
    <3>2. (\A p \in InFile : Contains(Parts[p]) => \E k \in DOMAIN result : ShowsEnd(result[k], Parts[p]))'
      BY <1>6, <2>2, <2>5
    <3> QED
      BY <1>1, <2>4, <2>5, <2>7, <3>1, <3>2 DEF BlocksAreExact
  <2>6. CASE ~request.fromEntry
    <3>1. (Len(result) = Cardinality(InFile))'
      BY <1>6, <2>2, <2>6
    <3>2. (\A p \in InFile : \A o \in Within(Parts[p]) :
             BytesOfBlock(result[Cardinality({q \in InFile : q <= p})]) = Shown(Parts[p], o))'
      <4>1. \A p : BytesOfBlock(result[Cardinality({q \in InFile : q <= p})])'
                     = BytesOfBlock(list[Cardinality({q \in InFile : q <= p})])
        BY <2>2 DEF BytesOfBlock
      <4> SUFFICES ASSUME NEW p \in InFile', NEW o \in Within(Parts[p])'
                   PROVE  BytesOfBlock(result[Cardinality({q \in InFile : q <= p})])' = Shown(Parts[p], o)'
        OBVIOUS
      <4>2. p \in InFile /\ o \in Within(Parts[p])
        BY <2>2
      <4> QED
        BY <1>6, <2>2, <2>6, <4>1, <4>2
    <3> QED
      BY <1>1, <2>4, <2>6, <2>7, <3>1, <3>2 DEF BlocksAreExact
  <2> QED
    BY <2>5, <2>6, <2>7
<1>7. CASE ~request.fromEntry
  <2>1. list = result
    BY <1>1, <1>7
  <2>2. \A k \in DOMAIN list : IsExact(list[k]) /\ IsPlaced(list[k])
    BY <1>3, <1>4, <1>5, <2>1
  <2>3. \A p \in InFile : \A o \in Within(Parts[p]) :
          BytesOfBlock(list[Cardinality({q \in InFile : q <= p})]) = Shown(Parts[p], o)
    BY <1>3, <1>4, <1>5, <2>1
  <2> HIDE DEF list
  <2> QED
    BY <1>4, <1>6, <1>7, <2>1, <2>2, <2>3 DEF list
<1>8. CASE request.fromEntry
  <2>1. /\ list = found
        /\ \A m \in DOMAIN found : \E k \in DOMAIN result : \E entry \in Entered(result[k]) :
             found[m] = FromEntry(result[k], entry)
        /\ \A k \in 1 .. Len(result) : \A entry \in Entered(result[k]) : FromEntry(result[k], entry) \in Elements(found)
    BY <1>1, <1>2, <1>8 DEF EnteredOK
  <2>2. ASSUME NEW m \in DOMAIN list
        PROVE  IsExact(list[m]) /\ IsPlaced(list[m]) /\ \E p \in InFile : ShowsEnd(list[m], Parts[p])
    <3>1. PICK k \in DOMAIN result : \E entry \in Entered(result[k]) : list[m] = FromEntry(result[k], entry)
      BY <2>1
    <3>2. PICK p \in InFile : \E o \in Within(Parts[p]) : result[k] = TheBlock(p, o)
      BY <1>4
    <3>3. PICK o \in Within(Parts[p]) : result[k] = TheBlock(p, o)
      BY <3>2
    <3>4. PICK entry \in Entered(TheBlock(p, o)) : list[m] = FromEntry(TheBlock(p, o), entry)
      BY <3>1, <3>3
    <3>5. IsExact(list[m]) /\ ShowsEnd(list[m], Parts[p]) /\ IsPlaced(list[m])
      BY <1>3, <3>4, EnteredShows
    <3> QED
      BY <3>5
  <2>3. ASSUME NEW p \in InFile, Contains(Parts[p])
        PROVE  \E m \in DOMAIN list : ShowsEnd(list[m], Parts[p])
    <3>1. PICK o \in Within(Parts[p]) : \E entry \in request.entry : \E x \in Shown(Parts[p], o) :
            Base + Parts[p].address + (x - o) = entry
      BY <2>3 DEF Contains
    <3>2. PICK entry \in request.entry : \E x \in Shown(Parts[p], o) : Base + Parts[p].address + (x - o) = entry
      BY <3>1
    <3> DEFINE k == Cardinality({q \in InFile : q <= p})
    <3>3. result[k] = TheBlock(p, o) /\ k \in 1 .. Len(result)
      <4>1. result[k] = TheBlock(p, o)
        BY <1>4
      <4>2. pass \in Nat \ {0} /\ p < pass /\ Len(result) = Cardinality({q \in InFile : q < pass})
        BY <1>2, <1>3, <3>1 DEF TypeOK, AddedOK
      <4> QED
        BY <4>1, <4>2, CountFacts
    <3>4. entry \in Entered(TheBlock(p, o))
      <4> DEFINE a == Base + Parts[p].address
                 size == Extent(Parts[p], o)
      <4>1. /\ o \in Nat /\ size \in Nat \ {0} /\ Shown(Parts[p], o) = o .. (o + size - 1)
        BY <1>3, PartFacts
      <4>2. a \in Nat
        <5>1. Base \in Nat /\ Parts[p].address \in Nat
          BY <1>3, DisassemblyOptions
        <5> QED
          BY <5>1
      <4>3. TheBlock(p, o).address = a /\ TheBlock(p, o).size = size
        BY DEF TheBlock, Block
      <4>4. PICK x \in o .. (o + size - 1) : a + (x - o) = entry
        BY <3>2, <4>1
      <4> HIDE DEF a, size
      <4>5. a <= entry /\ entry < a + size
        BY <4>1, <4>2, <4>4
      <4> QED
        BY <4>3, <4>5 DEF Entered, Holds
    <3> HIDE DEF k
    <3>5. FromEntry(TheBlock(p, o), entry) \in Elements(found)
      BY <2>1, <3>3, <3>4
    <3>6. PICK m \in DOMAIN list : list[m] = FromEntry(TheBlock(p, o), entry)
      BY <2>1, <3>5 DEF Elements
    <3>7. ShowsEnd(list[m], Parts[p])
      BY <1>3, <3>4, <3>6, EnteredShows
    <3> QED
      BY <3>7
  <2> HIDE DEF list
  <2> QED
    BY <1>6, <1>8, <2>2, <2>3 DEF list
<1> QED
  BY <1>7, <1>8

LEMMA DisassemblyKeeps ==
  ASSUME TypeOK, DisassemblyInv, [Next]_allVars
  PROVE  DisassemblyInv'
<1> SUFFICES ASSUME request.task = "disasm"
             PROVE  DisassemblyInv'
  BY Steps DEF DisassemblyInv
<1>1. CASE SkipPart \/ AddPart
  <2>1. outcome' = "none"
    BY <1>1 DEF SkipPart, AddPart, Disassembling, Doing
  <2> QED
    BY <1>1, <2>1, AddKeeps DEF DisassemblyInv
<1>2. CASE SkipBlock \/ EnterBlock
  <2>1. outcome' = "none"
    BY <1>2 DEF SkipBlock, EnterBlock, Entering, Doing
  <2> QED
    BY <1>2, <2>1, EnterKeeps DEF DisassemblyInv
<1>3. CASE EndDisassembly
  <2>1. outcome' = "Success"
    BY <1>3 DEF EndDisassembly, Finish
  <2> QED
    BY <1>3, <2>1, BlocksReported DEF DisassemblyInv
<1>4. CASE UNCHANGED allVars
  <2>1. /\ data' = data /\ request' = request /\ pass' = pass /\ i' = i /\ found' = found
        /\ result' = result /\ outcome' = outcome
    BY <1>4 DEF allVars, vars
  <2>2. AddedOK' <=> AddedOK
    BY <2>1 DEF AddedOK, Elements, Parts, InFile, Within, Size, TheBlock, Block, Instructions, InstructionAt,
      Bytes, Extent, EndOf, Base
  <2>3. EnteredOK' <=> EnteredOK
    BY <2>1 DEF EnteredOK, Elements, Entered, Holds, FromEntry, Parts, Size, Block, Instructions, InstructionAt,
      Bytes, EndOf
  <2>4. BlocksAreExact' <=> BlocksAreExact
    BY <2>1 DEF BlocksAreExact, IsExact, Bytes, Size, Parts, InFile, Within, Contains, Shown, Base, ShowsEnd,
      BytesOfBlock
  <2>5. (\A k \in DOMAIN result : IsPlaced(result[k]))' <=> \A k \in DOMAIN result : IsPlaced(result[k])
    BY <2>1
  <2> QED
    BY <2>1, <2>2, <2>3, <2>4, <2>5 DEF DisassemblyInv
<1> QED
  BY <1>1, <1>2, <1>3, <1>4, Steps

(***************************************************************************)
(* The theorems                                                            *)
(***************************************************************************)
Inv ==
  /\ TypeOK
  /\ StringsInv /\ SearchInv /\ RegionsInv /\ HexdumpInv /\ DisassemblyInv /\ DiffInv

LEMMA InvInit ==
  ASSUME FileInit
  PROVE  Inv
<1>1. /\ pass = 1 /\ start = 0 /\ found = <<>> /\ result = <<>> /\ outcome = "none" /\ changed = 0
      /\ i = IF request.task = "hexdump" THEN request.offset ELSE 0
  BY DEF FileInit, Init
<1>2. data \in Seq(Byte) /\ request \in ByteRequest \cup DisassemblyRequest \cup DiffRequest
  <2>1. PICK input \in Inputs : data = input[1] /\ request = input[2]
    BY DEF FileInit, Init
  <2>2. input \in Seq(Byte) \X (ByteRequest \cup DisassemblyRequest \cup DiffRequest)
    BY InputsAssumption
  <2> QED
    BY <2>1, <2>2
<1>3. request.task = "hexdump" => request.offset \in Nat
  BY <1>2 DEF ByteRequest, DisassemblyRequest, DiffRequest
<1>4. TypeOK
  BY <1>1, <1>2, <1>3 DEF TypeOK
<1>5. /\ found \in Seq({}) /\ DOMAIN found = {} /\ Elements(found) = {} /\ Sorted(found)
      /\ found \in Seq(Text) /\ found \in Seq(Nat) /\ found \in Seq(Region) /\ found \in Seq(Line) /\ found \in Seq(Hunk)
      /\ Len(found) = 0 /\ found = result
  BY <1>1 DEF Elements, Sorted
<1>6. i \in Nat /\ (request.task # "hexdump" => i = 0)
  BY <1>1, <1>3
<1>7. StringsInv
  <2> SUFFICES ASSUME request.task = "strings" PROVE StringsInv
    BY DEF StringsInv
  <2>1. i = 0 /\ Len(request.encodings) \in Nat
    BY <1>4, <1>6, StringFacts
  <2>2. ScanOK
    <3>1. \A x \in StringsOf(Encoding) : ~(x.at < 0)
      BY <1>4, StringFacts
    <3>2. 0 % Unit(Encoding) = 0
      BY DEF Unit
    <3> QED
      BY <1>5, <2>1, <3>1, <3>2 DEF ScanOK
  <2>3. PassedOK
    <3>1. 1 .. (pass - 1) = {}
      BY <1>1
    <3> QED
      BY <1>5, <3>1 DEF PassedOK
  <2>4. pass <= Len(request.encodings) + 1
    BY <1>1, <2>1
  <2> QED
    BY <1>1, <1>5, <2>2, <2>3, <2>4 DEF StringsInv
<1>8. SearchInv
  <2>1. \A o \in Nat : ~(o < 0)
    OBVIOUS
  <2> QED
    BY <1>1, <1>5, <1>6, <2>1 DEF SearchInv
<1>9. RegionsInv
  <2>1. \A x \in RegionsByDefinition : ~(x.at < 0)
    <3>1. Size \in Nat
      BY <1>4, Options
    <3> QED
      BY <3>1 DEF RegionsByDefinition
  <2>2. Size \in Nat /\ 0 <= Size /\ 0 .. (0 - 1) = {}
    BY <1>4, Options
  <2> QED
    BY <1>1, <1>5, <1>6, <2>1, <2>2 DEF RegionsInv
<1>10. HexdumpInv
  <2> SUFFICES ASSUME request.task = "hexdump" PROVE HexdumpInv
    BY DEF HexdumpInv
  <2>1. i = request.offset /\ i \in Nat
    BY <1>1, <1>6
  <2>2. \A o \in Nat : ~(request.offset <= o /\ o < i)
    BY <2>1
  <2>3. request.offset <= i
    BY <2>1
  <2> QED
    BY <1>1, <1>5, <2>2, <2>3 DEF HexdumpInv
<1>11. DisassemblyInv
  <2> SUFFICES ASSUME request.task = "disasm" PROVE DisassemblyInv
    BY DEF DisassemblyInv
  <2>1. i = 0 /\ Len(result) = 0 /\ DOMAIN result = {} /\ 1 .. 0 = {}
    BY <1>5, <1>6
  <2>2. {q \in InFile : q < pass} = {} /\ \A p \in InFile : ~(p < pass)
    <3>1. \A p \in InFile : p \in 1 .. Len(Parts) /\ Len(Parts) \in Nat
      BY <1>4, DisassemblyOptions DEF InFile
    <3> QED
      BY <1>1, <3>1
  <2>3. Cardinality({q \in InFile : q < pass}) = 0
    BY <2>2, FS_EmptySet
  <2>4. found \in Seq(Elements(found)) /\ result \in Seq(Elements(result))
    BY <1>5
  <2>5. AddedOK
    BY <2>1, <2>2, <2>3, <2>4 DEF AddedOK
  <2>6. EnteredOK
    BY <1>1, <1>5, <2>1, <2>4 DEF EnteredOK
  <2> QED
    BY <1>1, <2>5, <2>6 DEF DisassemblyInv
<1>12. DiffInv
  <2> SUFFICES ASSUME request.task = "diff" PROVE DiffInv
    BY DEF DiffInv
  <2>1. i = 0 /\ 0 <= Common /\ MaxHunks >= 0
    BY <1>4, <1>6, DiffFacts, HunksAssumption
  <2>2. (\A o \in Differing : ~(o < 0)) /\ -1 \notin Differing
    BY <1>4, DiffFacts
  <2>3. Cardinality({o \in Differing : o < i}) = 0
    <3>1. {o \in Differing : o < i} = {}
      BY <2>1, <2>2
    <3> QED
      BY <3>1, FS_EmptySet
  <2>4. BytesOf(found) = {}
    BY <1>5 DEF BytesOf
  <2>5. i - 1 = -1
    BY <2>1
  <2>6. HunksOK
    BY <1>5, <2>1, <2>2, <2>4, <2>5 DEF HunksOK
  <2> QED
    BY <1>1, <1>5, <2>3, <2>6 DEF DiffInv
<1> QED
  BY <1>4, <1>7, <1>8, <1>9, <1>10, <1>11, <1>12 DEF Inv

LEMMA TypeKeeps ==
  ASSUME Inv, [Next]_allVars
  PROVE  TypeOK'
<1>1. /\ TypeOK /\ data' = data /\ request' = request
      /\ i \in Nat /\ start \in Nat /\ pass \in Nat \ {0}
      /\ outcome \in {"none", "Success", "InvalidArguments"}
  BY Steps DEF Inv, TypeOK
<1>2. SUFFICES /\ i' \in Nat /\ start' \in Nat /\ pass' \in Nat \ {0}
               /\ outcome' \in {"none", "Success", "InvalidArguments"}
  BY <1>1 DEF TypeOK
<1>3. CASE request.task = "strings"
  <2>1. CASE SkipCharacter
    <3>1. Unit(Encoding) \in Nat
      BY DEF Unit
    <3> QED
      BY <1>1, <2>1, <3>1 DEF SkipCharacter
  <2>2. CASE TakeString
    <3>1. /\ Legible(Encoding, i) /\ i' = EndOfString(Encoding, i)
          /\ outcome = "none" /\ pass <= Len(request.encodings)
          /\ pass' = pass /\ start' = start /\ outcome' = outcome
      BY <2>2 DEF TakeString, Extracting, Doing
    <3>2. i % Unit(Encoding) = 0
      BY <1>3, <3>1 DEF Inv, StringsInv, ScanOK
    <3> QED
      BY <1>1, <3>1, <3>2, StringEnds
  <2>3. CASE EndEncoding
    BY <1>1, <2>3 DEF EndEncoding
  <2>4. CASE EndStrings
    BY <1>1, <2>4 DEF EndStrings, Finish
  <2>5. CASE UNCHANGED allVars
    BY <1>1, <2>5 DEF allVars, vars
  <2> QED
    BY <1>3, <2>1, <2>2, <2>3, <2>4, <2>5, Steps
<1>4. CASE request.task \in {"search", "regions"}
  <2>1. CASE TryPlace
    BY <1>1, <2>1 DEF TryPlace
  <2>2. CASE EndSearch
    BY <1>1, <2>2 DEF EndSearch, Finish
  <2>3. CASE NextByte
    <3>1. i' = i + 1 /\ start' \in {i, start} /\ pass' = pass /\ outcome' = outcome
      BY <2>3 DEF NextByte
    <3> QED
      BY <1>1, <3>1
  <2>4. CASE EndRegions
    BY <1>1, <2>4 DEF EndRegions, Finish
  <2>5. CASE UNCHANGED allVars
    BY <1>1, <2>5 DEF allVars, vars
  <2> QED
    BY <1>4, <2>1, <2>2, <2>3, <2>4, <2>5, Steps
<1>5. CASE request.task = "hexdump"
  <2>1. CASE OffsetBeyond
    BY <1>1, <2>1 DEF OffsetBeyond
  <2>2. CASE AddLine
    <3>1. request.width \in Nat
      BY <1>1, <1>5, Options
    <3> QED
      BY <1>1, <2>2, <3>1 DEF AddLine
  <2>3. CASE EndHexdump
    BY <1>1, <2>3 DEF EndHexdump, Finish
  <2>4. CASE UNCHANGED allVars
    BY <1>1, <2>4 DEF allVars, vars
  <2> QED
    BY <1>5, <2>1, <2>2, <2>3, <2>4, Steps
<1>6. CASE request.task = "disasm"
  <2>1. CASE SkipPart \/ AddPart
    BY <1>1, <2>1 DEF SkipPart, AddPart
  <2>2. CASE SkipBlock \/ EnterBlock
    BY <1>1, <2>2 DEF SkipBlock, EnterBlock
  <2>3. CASE EndDisassembly
    BY <1>1, <2>3 DEF EndDisassembly, Finish
  <2>4. CASE UNCHANGED allVars
    BY <1>1, <2>4 DEF allVars, vars
  <2> QED
    BY <1>6, <2>1, <2>2, <2>3, <2>4, Steps
<1>7. CASE request.task = "diff"
  <2>1. CASE SkipEqual \/ TakeHunk
    <3>1. i' \in Nat
      BY <1>1, <1>7, <2>1, HunksKeep DEF Inv
    <3> QED
      BY <1>1, <2>1, <3>1 DEF SkipEqual, TakeHunk
  <2>2. CASE EndDiff
    BY <1>1, <2>2 DEF EndDiff, Finish
  <2>3. CASE UNCHANGED allVars
    BY <1>1, <2>3 DEF allVars, vars
  <2> QED
    BY <1>7, <2>1, <2>2, <2>3, Steps
<1> QED
  BY <1>1, <1>3, <1>4, <1>5, <1>6, <1>7, Options

LEMMA InvHolds == Spec => []Inv
<1>1. FileInit => Inv
  BY InvInit
<1>2. Inv /\ [Next]_allVars => Inv'
  BY TypeKeeps, StringsKeep, SearchKeeps, RegionsKeep, HexdumpKeeps, DisassemblyKeeps, DiffKeeps DEF Inv
<1> QED
  BY <1>1, <1>2, PTL DEF Spec

(* Whatever the file and the options are, a command that is through has    *)
(* reported exactly what is in the file by definition: run_command() of    *)
(* src/src/cli/runner.cpp with byte_analysis.cpp, disassembly.cpp and      *)
(* diff.cpp.                                                               *)
THEOREM ResultsCorrect == Spec => []ResultsAreExact
<1>1. ASSUME Inv, outcome = "Success"
      PROVE  /\ request.task = "strings" => StringsAreExact
             /\ request.task = "search" => MatchesAreExact
             /\ request.task = "regions" => RegionsAreExact
             /\ request.task = "hexdump" => LinesAreExact
             /\ request.task = "disasm" => BlocksAreExact
             /\ request.task = "diff" => DiffIsExact
  <2>1. request.task = "strings" => StringsAreExact
    BY <1>1 DEF Inv, StringsInv
  <2>2. request.task = "regions" => RegionsAreExact
    BY <1>1 DEF Inv, RegionsInv, RegionsAreExact
  <2>3. /\ request.task = "disasm" => BlocksAreExact
        /\ request.task = "diff" => DiffIsExact
    BY <1>1 DEF Inv, DisassemblyInv, DiffInv
  <2>4. /\ request.task = "search" => MatchesAreExact
        /\ request.task = "hexdump" => LinesAreExact
    BY <1>1, SearchExact, HexdumpExact DEF Inv
  <2> QED
    BY <2>1, <2>2, <2>3, <2>4
<1>2. Inv => request.task \in {"strings", "search", "regions", "hexdump", "disasm", "diff"}
  BY Options DEF Inv
<1>3. Inv => ResultsAreExact
  BY <1>1, <1>2, Zenon DEF ResultsAreExact
<1> QED
  BY <1>3, InvHolds, PTL

(* --from-entry starts to decode at the entry point wherever addresses are *)
(* counted as the entry point is: in ELF files, and in PE images with the  *)
(* base 0.  Where EntryIsDisassembled fails, the base is the only reason.  *)
EntryIsShown ==
  (outcome = "Success" /\ request.task = "disasm" /\ request.fromEntry /\ Base = 0) =>
    \A e \in request.entry : \A p \in DOMAIN Parts : \A o \in Within(Parts[p]) :
      LET place == o + (e - Parts[p].address)
      IN  Parts[p].address <= e /\ place \in Shown(Parts[p], o) =>
            \E k \in DOMAIN result : result[k].at = place

LEMMA EntryOfBlock ==
  ASSUME TypeOK, request.task = "disasm", Base = 0, NEW e \in request.entry,
         NEW p \in DOMAIN Parts, NEW o \in Within(Parts[p]), NEW b, IsPlaced(b), ShowsEnd(b, Parts[p]),
         Parts[p].address <= e, o + (e - Parts[p].address) \in Shown(Parts[p], o)
  PROVE  b.at = o + (e - Parts[p].address)
<1> DEFINE a == Parts[p].address
           size == Extent(Parts[p], o)
           place == o + (e - a)
<1>1. /\ o \in Nat /\ size \in Nat \ {0} /\ Shown(Parts[p], o) = o .. (o + size - 1)
      /\ \A other \in Within(Parts[p]) : other = o
  BY PartFacts
<1>2. a \in Nat /\ e \in Nat /\ \A entry \in request.entry : entry = e
  BY DisassemblyOptions DEF AtMostOne
<1>3. BytesOfBlock(b) = {x \in Shown(Parts[p], o) : Base + a + (x - o) >= e}
  BY <1>1, <1>2 DEF ShowsEnd
<1>4. place \in o .. (o + size - 1) /\ a <= e
  BY <1>1
<1>5. b.at \in Nat /\ b.size \in Nat
  BY DEF IsPlaced
<1> HIDE DEF a, size
<1>6. \A x : x \in BytesOfBlock(b) <=> x \in o .. (o + size - 1) /\ a + (x - o) >= e
  BY <1>1, <1>2, <1>3
<1>7. \A x : x \in b.at .. (b.at + b.size - 1) <=> x \in o .. (o + size - 1) /\ a + (x - o) >= e
  BY <1>6 DEF BytesOfBlock
<1>8. place \in b.at .. (b.at + b.size - 1)
  BY <1>1, <1>2, <1>4, <1>7
<1>9. b.at \in b.at .. (b.at + b.size - 1)
  BY <1>5, <1>8
<1>10. b.at >= place
  BY <1>1, <1>2, <1>5, <1>7, <1>9
<1> QED
  BY <1>5, <1>8, <1>10 DEF a

(* Where the base is 0, disassemble_file() shows the entry point's          *)
(* instruction whenever the sections shown go that far, for every file.    *)
THEOREM EntryCorrect == Spec => []EntryIsShown
<1>1. Inv => EntryIsShown
  <2> SUFFICES ASSUME Inv, outcome = "Success", request.task = "disasm", request.fromEntry, Base = 0,
                      NEW e \in request.entry, NEW p \in DOMAIN Parts, NEW o \in Within(Parts[p]),
                      Parts[p].address <= e, o + (e - Parts[p].address) \in Shown(Parts[p], o)
               PROVE  \E k \in DOMAIN result : result[k].at = o + (e - Parts[p].address)
    BY DEF EntryIsShown
  <2>1. TypeOK /\ BlocksAreExact /\ \A k \in DOMAIN result : IsPlaced(result[k])
    BY DEF Inv, DisassemblyInv
  <2>2. p \in InFile
    BY DEF InFile
  <2>3. Contains(Parts[p])
    <3> DEFINE place == o + (e - Parts[p].address)
    <3>1. o \in Nat /\ e \in Nat /\ Parts[p].address \in Nat
      BY <2>1, PartFacts, DisassemblyOptions
    <3>2. Base + Parts[p].address + (place - o) = e
      BY <3>1
    <3> QED
      BY <3>2 DEF Contains
  <2>4. PICK k \in DOMAIN result : ShowsEnd(result[k], Parts[p])
    BY <2>1, <2>2, <2>3 DEF BlocksAreExact
  <2>5. result[k].at = o + (e - Parts[p].address)
    BY <2>1, <2>4, EntryOfBlock
  <2> QED
    BY <2>5
<1> QED
  BY <1>1, InvHolds, PTL
=============================================================================
