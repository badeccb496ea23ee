-------------------------- MODULE CrashDump_proofs --------------------------
(***************************************************************************)
(* Proofs about the crash dump analysis, for every file and every limit.   *)
(* The argument: a list in hand and what is left of it make up what its    *)
(* stream declares, and the cursor stands where the next record would be;  *)
(* a list of a type not in hand is that of the last stream of the type     *)
(* before `entry'.  Of the notes: there is none between one and the next,  *)
(* so the count is that of the thread notes passed.                        *)
(***************************************************************************)
EXTENDS CrashDump, SequenceTheorems, FiniteSetTheorems, WellFoundedInduction, TLAPS

Minidump == IsMinidump /\ DirectoryIsValid
Core == ~IsMinidump /\ IsELF /\ IsCore

(* What is the case at each stage. *)
ControlOK ==
  /\ pc = "start" => entry = 0 /\ report = EmptyReport /\ ~saw
  /\ pc \in {"streams", "records"} => Minidump /\ entry <= StreamCount
  /\ pc = "records" => entry < StreamCount /\ Usable(stream) /\ stream.type \in ListTypes
  /\ pc \in {"segments", "notes"} => Core /\ entry <= HeaderCount
  /\ pc = "notes" =>
       /\ entry < HeaderCount /\ HasNotes(segment)
       /\ end = segment.offset + segment.size
       /\ segment.offset <= cursor /\ cursor <= end
  /\ pc = "done" =>
       /\ Minidump => entry = StreamCount
       /\ Core => entry = HeaderCount
       /\ verdict = "Ok" <=> (saw /\ (Minidump \/ Core))

(* What was read of the list in hand. *)
InHand(s, list, rest, at) ==
  /\ Len(list) + rest = Smaller(U32(s.rva), MaxEntries)
  /\ at = s.rva + 4 + Len(list) * RecordSize[s.type]
  /\ at <= dump.size
  /\ \A n \in DOMAIN list : list[n].at = s.rva + 4 + (n - 1) * RecordSize[s.type]

InHandOK == pc = "records" => InHand(stream, report[ListField[stream.type]], left, cursor)

(* What is in the report is in the file. *)
InFile(type, list) ==
  /\ Len(list) <= MaxEntries
  /\ \A k \in DOMAIN list :
       /\ RangeValid(list[k].at, RecordSize[type])
       /\ \A name \in list[k].name : RangeValid(name.at, name.length)

RecordsOK ==
  /\ \A type \in ListTypes : InFile(type, report[ListField[type]])
  /\ \A at \in report.exception : RangeValid(at, 168)

(* The list is that of the last one of these streams. *)
IsListOf(type, list, count, streams) ==
  /\ count = Len(list)
  /\ streams = {} => list = <<>>
  /\ \A k \in streams : (\A j \in streams : j <= k) =>
       /\ Len(list) = ListLength(StreamAt(k))
       /\ \A n \in DOMAIN list : list[n].at = StreamAt(k).rva + 4 + (n - 1) * RecordSize[type]

Before(type, n) == {k \in StreamsOf(type) : k < n}

ListsOK ==
  pc \in {"streams", "records"} \/ (pc = "done" /\ Minidump) =>
    \A type \in ListTypes :
      \/ pc = "records" /\ stream.type = type
      \/ IsListOf(type, report[ListField[type]], report[CountField[type]], Before(type, entry))

(* Something was seen if and only if there is something up to `entry'.     *)
SawOK ==
  /\ pc \in {"streams", "records"} \/ (pc = "done" /\ Minidump) =>
       (saw <=> \E type \in DOMAIN LeastSize : Before(type, entry) # {})
  /\ pc \in {"segments", "notes"} \/ (pc = "done" /\ Core) =>
       (saw <=> \/ \E k \in NoteSegments : k < entry /\ FirstNoteFits(SegmentAt(k))
                \/ pc = "notes" /\ cursor # segment.offset)
  /\ pc = "notes" /\ cursor # segment.offset => FirstNoteFits(segment)

(* Where the cursor may come to in a segment of notes. *)
Starts(s) == Reached(s.offset, NoteAfter(s), s.size \div 12)

(* No note of the segment that begins before the cursor ends behind it. *)
NotesOK ==
  pc = "notes" =>
    /\ cursor \in Starts(segment)
    /\ \A at \in Starts(segment) : at < cursor /\ NoteFits(at, end) => AfterNote(at) <= cursor

(* The thread notes up to a position in a segment. *)
Passed(k, at) == {w \in ThreadNotes : w[1] < k \/ (w[1] = k /\ w[2] < at)}

ThreadsOK ==
  /\ pc = "segments" => report.threadCount = Cardinality(Passed(entry, 0))
  /\ pc = "notes" => report.threadCount = Cardinality(Passed(entry, cursor))
  /\ pc = "done" /\ Core => report.threadCount = Cardinality(ThreadNotes)

IInv == TypeOK /\ ControlOK /\ InHandOK /\ RecordsOK /\ ListsOK /\ SawOK /\ NotesOK /\ ThreadsOK

(***************************************************************************)
(* Types                                                                   *)
(***************************************************************************)
LEMMA DumpFacts ==
  ASSUME dump \in Dumps
  PROVE  /\ dump.size \in Nat
         /\ \A o \in DOMAIN dump.words : o \in Nat /\ dump.words[o] \in Nat
BY DumpAssumption

LEMMA ReadFacts ==
  ASSUME dump \in Dumps
  PROVE  \A o : U16(o) \in Nat /\ U32(o) \in Nat /\ U64(o) \in Nat
BY DumpFacts DEF U16, U32, U64, Read

LEMMA StreamFacts ==
  ASSUME dump \in Dumps
  PROVE  /\ StreamCount \in Nat
         /\ \A k : StreamAt(k).type \in Nat /\ StreamAt(k).size \in Nat /\ StreamAt(k).rva \in Nat
BY ReadFacts DEF StreamCount, StreamAt

LEMMA SegmentFacts ==
  ASSUME dump \in Dumps
  PROVE  /\ HeaderCount \in Nat
         /\ \A k : SegmentAt(k).offset \in Nat /\ SegmentAt(k).size \in Nat
BY ReadFacts DEF HeaderCount, SegmentAt

(* The analysis only reads the file. *)
LEMMA DumpStays == [Next]_vars => dump' = dump
BY DEF Next, vars, Return, Unsupported, RejectMinidump, BeginMinidump, SkipStream, BeginList, ReadRecord,
   EndList, ReadException, ReadSystemInfo, EndMinidump, RejectCore, BeginCore, SkipSegment, BeginNotes,
   ReadNote, EndNotes, EndCore

LEMMA SameFile ==
  ASSUME dump' = dump
  PROVE  /\ StreamCount' = StreamCount /\ HeaderCount' = HeaderCount
         /\ Minidump' <=> Minidump
         /\ Core' <=> Core
         /\ \A o : U32(o)' = U32(o)
         /\ \A o, l : RangeValid(o, l)' <=> RangeValid(o, l)
         /\ \A k : StreamAt(k)' = StreamAt(k) /\ SegmentAt(k)' = SegmentAt(k)
         /\ \A s : (Usable(s)' <=> Usable(s)) /\ (HasNotes(s)' <=> HasNotes(s))
         /\ \A s : ListLength(s)' = ListLength(s) /\ (FirstNoteFits(s)' <=> FirstNoteFits(s))
         /\ \A type : StreamsOf(type)' = StreamsOf(type)
         /\ NoteSegments' = NoteSegments
         /\ stream' = StreamAt(entry') /\ segment' = SegmentAt(entry')
<1>1. \A o, l : RangeValid(o, l)' <=> RangeValid(o, l)
  BY DEF RangeValid
<1>2. \A o : U32(o)' = U32(o) /\ U16(o)' = U16(o) /\ U64(o)' = U64(o)
  BY DEF U32, U16, U64, Read, RangeValid
<1>3. /\ StreamCount' = StreamCount /\ HeaderCount' = HeaderCount
      /\ HeaderSize' = HeaderSize /\ ProgramHeaders' = ProgramHeaders /\ Is64' = Is64
  BY <1>2 DEF StreamCount, HeaderCount, HeaderSize, ProgramHeaders, Is64
<1>4. Minidump' <=> Minidump
  BY <1>1, <1>2, <1>3 DEF Minidump, IsMinidump, DirectoryIsValid
<1>5. Core' <=> Core
  BY <1>1, <1>2, <1>3 DEF Core, IsMinidump, IsELF, IsCore
<1>6. \A k : StreamAt(k)' = StreamAt(k) /\ SegmentAt(k)' = SegmentAt(k)
  BY <1>2, <1>3 DEF StreamAt, SegmentAt
<1>7. \A s : (Usable(s)' <=> Usable(s)) /\ (HasNotes(s)' <=> HasNotes(s))
  BY <1>1 DEF Usable, HasNotes
<1>8. \A s : ListLength(s)' = ListLength(s)
  BY <1>2 DEF ListLength
<1>9. \A s : FirstNoteFits(s)' <=> FirstNoteFits(s)
  BY <1>2 DEF FirstNoteFits, NoteFits, NoteAt
<1>10. \A type : StreamsOf(type)' = StreamsOf(type)
  BY <1>3, <1>6, <1>7 DEF StreamsOf
<1>12. NoteSegments' = NoteSegments
  BY <1>3, <1>6, <1>7 DEF NoteSegments
<1>13. stream' = StreamAt(entry') /\ segment' = SegmentAt(entry')
  BY <1>2, <1>3 DEF stream, segment, StreamAt, SegmentAt, U32, U64, Read, RangeValid
<1> QED
  BY <1>1, <1>2, <1>3, <1>4, <1>5, <1>6, <1>7, <1>8, <1>9, <1>10, <1>12, <1>13

LEMMA FieldFacts ==
  /\ ListTypes = {3, 4}
  /\ ListField[3] = "threads" /\ CountField[3] = "threadCount" /\ RecordSize[3] = 48
  /\ ListField[4] = "modules" /\ CountField[4] = "moduleCount" /\ RecordSize[4] = 108
BY DEF ListTypes, ListField, CountField, RecordSize

Lists == Seq(Record)
WithList(r, type, list) == [r EXCEPT ![ListField[type]] = list]
WithCount(r, type, n) == [r EXCEPT ![CountField[type]] = n]

(* A list, or its count, is replaced; the rest of the report stays. *)
LEMMA SetList ==
  ASSUME NEW r \in Report, NEW type \in ListTypes, NEW list \in Lists
  PROVE  /\ WithList(r, type, list) \in Report
         /\ WithList(r, type, list)[ListField[type]] = list
         /\ \A t \in ListTypes \ {type} : WithList(r, type, list)[ListField[t]] = r[ListField[t]]
         /\ \A t \in ListTypes : WithList(r, type, list)[CountField[t]] = r[CountField[t]]
         /\ WithList(r, type, list).exception = r.exception
<1> DEFINE s == WithList(r, type, list)
<1>0. Report = [architecture : {"Unknown", "X86", "X86_64", "ARM", "ARM64", "RISCV64"},
                modules : Lists, threads : Lists, moduleCount : Nat, threadCount : Nat,
                exception : SUBSET Nat, signal : Nat]
  BY DEF Report, Lists
<1>a. s = [r EXCEPT ![ListField[type]] = list]
  BY DEF WithList
<1> HIDE DEF s
<1>1. CASE type = 3
  <2>1. s = [r EXCEPT !.threads = list]
    BY <1>1, <1>a, FieldFacts
  <2>2. s \in Report
    BY <1>0, <2>1
  <2> QED
    BY <1>0, <1>1, <2>1, <2>2, FieldFacts DEF s
<1>2. CASE type = 4
  <2>1. s = [r EXCEPT !.modules = list]
    BY <1>2, <1>a, FieldFacts
  <2>2. s \in Report
    BY <1>0, <2>1
  <2> QED
    BY <1>0, <1>2, <2>1, <2>2, FieldFacts DEF s
<1> QED
  BY <1>1, <1>2, FieldFacts

LEMMA SetCount ==
  ASSUME NEW r \in Report, NEW type \in ListTypes, NEW n \in Nat
  PROVE  /\ WithCount(r, type, n) \in Report
         /\ WithCount(r, type, n)[CountField[type]] = n
         /\ \A t \in ListTypes \ {type} : WithCount(r, type, n)[CountField[t]] = r[CountField[t]]
         /\ \A t \in ListTypes : WithCount(r, type, n)[ListField[t]] = r[ListField[t]]
         /\ WithCount(r, type, n).exception = r.exception
<1> DEFINE s == WithCount(r, type, n)
<1>a. s = [r EXCEPT ![CountField[type]] = n]
  BY DEF WithCount
<1> HIDE DEF s
<1>1. CASE type = 3
  <2>1. s = [r EXCEPT !.threadCount = n]
    BY <1>1, <1>a, FieldFacts
  <2> QED
    BY <1>1, <2>1, FieldFacts DEF Report, s
<1>2. CASE type = 4
  <2>1. s = [r EXCEPT !.moduleCount = n]
    BY <1>2, <1>a, FieldFacts
  <2> QED
    BY <1>2, <2>1, FieldFacts DEF Report, s
<1> QED
  BY <1>1, <1>2, FieldFacts

LEMMA ListsOfReport ==
  ASSUME NEW r \in Report, NEW type \in ListTypes
  PROVE  r[ListField[type]] \in Seq(Record) /\ r[CountField[type]] \in Nat
BY FieldFacts DEF Report

LEMMA RecordType ==
  ASSUME dump \in Dumps, NEW at \in Nat, NEW type \in ListTypes
  PROVE  /\ RecordAt(type, at) \in Record /\ RecordAt(type, at).at = at
         /\ \A name \in RecordAt(type, at).name : RangeValid(name.at, name.length)
<1>1. \A rva \in Nat : NameAt(rva) \subseteq [at : Nat, length : Nat]
  BY ReadFacts DEF NameAt
<1>2. U32(at + 20) \in Nat
  BY ReadFacts
<1>3. \A rva : \A name \in NameAt(rva) : RangeValid(name.at, name.length)
  BY DEF NameAt
<1> QED
  BY <1>1, <1>2, <1>3 DEF RecordAt, Record

LEMMA InitInv == Init => IInv
<1> SUFFICES ASSUME Init PROVE IInv
  OBVIOUS
<1>1. report \in Report /\ \A type \in ListTypes : report[ListField[type]] = <<>>
  BY FieldFacts DEF Init, EmptyReport, Report
<1>2. TypeOK
  BY <1>1 DEF Init, TypeOK
<1>3. RecordsOK
  <2>1. \A type : InFile(type, <<>>)
    BY DumpAssumption DEF InFile
  <2> QED
    BY <1>1, <2>1 DEF RecordsOK, Init, EmptyReport
<1>4. ControlOK /\ InHandOK /\ ListsOK /\ SawOK /\ NotesOK /\ ThreadsOK
  BY DEF Init, ControlOK, InHandOK, ListsOK, SawOK, NotesOK, ThreadsOK
<1> QED
  BY <1>2, <1>3, <1>4 DEF IInv

(***************************************************************************)
(* The steps, with what they leave                                         *)
(***************************************************************************)
LEMMA SmallerType == \A a, b \in Nat : Smaller(a, b) \in Nat /\ Smaller(a, b) <= a /\ Smaller(a, b) <= b
BY DEF Smaller

LEMMA PaddedType == \A n \in Nat : Padded(n) \in Nat
<1> SUFFICES ASSUME NEW n \in Nat PROVE Padded(n) \in Nat
  OBVIOUS
<1>1. (n + 3) \div 4 \in Nat
  OBVIOUS
<1> QED
  BY <1>1 DEF Padded

LEMMA TypeKeeps ==
  ASSUME TypeOK, ControlOK, [Next]_vars
  PROVE  TypeOK'
<1> USE DEF TypeOK
<1>0. dump' \in Dumps /\ MaxEntries \in Nat
  BY DumpStays, DumpAssumption
<1>1. CASE UNCHANGED vars
  BY <1>1 DEF vars
<1>2. CASE Unsupported \/ RejectMinidump \/ BeginMinidump \/ SkipStream \/ EndMinidump
           \/ RejectCore \/ SkipSegment \/ EndNotes \/ EndCore
  BY <1>0, <1>2 DEF Unsupported, RejectMinidump, BeginMinidump, SkipStream, EndMinidump, RejectCore,
     SkipSegment, EndNotes, EndCore, Return
<1>3. CASE BeginList
  <2>1. stream.rva \in Nat /\ U32(stream.rva) \in Nat
    BY ReadFacts, StreamFacts DEF stream
  <2>2. left' \in Nat /\ cursor' \in Nat
    <3>1. left' = Smaller(U32(stream.rva), MaxEntries) /\ cursor' = stream.rva + 4
      BY <1>3 DEF BeginList
    <3>2. Smaller(U32(stream.rva), MaxEntries) \in Nat
      BY <1>0, <2>1, SmallerType
    <3>3. stream.rva + 4 \in Nat
      BY <2>1
    <3> QED
      BY <3>1, <3>2, <3>3
  <2>3. <<>> \in Seq(Record) /\ stream.type \in ListTypes
    BY <1>3 DEF BeginList
  <2>4. report' = WithList(report, stream.type, <<>>) /\ report \in Report
    BY <1>3 DEF BeginList, WithList
  <2>5. report' \in Report
    BY <2>3, <2>4, SetList DEF Lists
  <2> QED
    BY <1>0, <1>3, <2>2, <2>5 DEF BeginList
<1>4. CASE ReadRecord
  <2>1. stream.type \in ListTypes
    BY <1>4 DEF ControlOK, ReadRecord
  <2>2. RecordAt(stream.type, cursor) \in Record
    BY <2>1, RecordType
  <2> DEFINE list == Append(report[ListField[stream.type]], RecordAt(stream.type, cursor))
  <2>3. list \in Lists
    BY <2>1, <2>2, ListsOfReport DEF Lists
  <2>4. report' = WithList(report, stream.type, list)
    BY <1>4 DEF ReadRecord, WithList
  <2>6. report' \in Report
    <3> HIDE DEF list
    <3> QED
      BY <2>1, <2>3, <2>4, SetList
  <2>5. cursor' \in Nat /\ left' \in Nat
    BY <1>4, <2>1, FieldFacts DEF ReadRecord, MoreRecords
  <2> QED
    BY <1>0, <1>4, <2>5, <2>6 DEF ReadRecord
<1>5. CASE EndList
  <2>1. stream.type \in ListTypes
    BY <1>5 DEF ControlOK, EndList
  <2>2. Len(report[ListField[stream.type]]) \in Nat
    BY <2>1, ListsOfReport
  <2>3. report' = WithCount(report, stream.type, Len(report[ListField[stream.type]]))
    BY <1>5 DEF EndList, WithCount
  <2>4. report' \in Report
    BY <2>1, <2>2, <2>3, SetCount
  <2> QED
    BY <1>0, <1>5, <2>4 DEF EndList
<1>6. CASE ReadException
  <2>1. stream.rva \in Nat
    BY StreamFacts DEF stream
  <2>2. report' \in Report
    BY <1>6, <2>1 DEF ReadException, Report
  <2> QED
    BY <1>0, <1>6, <2>2 DEF ReadException
<1>7. CASE ReadSystemInfo
  <2>1. \A c : MinidumpArchitecture(c) \in {"Unknown", "X86", "X86_64", "ARM", "ARM64"}
    BY DEF MinidumpArchitecture
  <2>2. report' \in Report
    BY <1>7, <2>1 DEF ReadSystemInfo, Report
  <2> QED
    BY <1>0, <1>7, <2>2 DEF ReadSystemInfo
<1>8. CASE BeginCore
  <2>1. \A c : ELFArchitecture(c) \in {"Unknown", "X86", "X86_64", "ARM", "ARM64", "RISCV64"}
    BY DEF ELFArchitecture
  <2>2. report' \in Report
    BY <1>8, <2>1 DEF BeginCore, Report
  <2> QED
    BY <1>0, <1>8, <2>2 DEF BeginCore
<1>9. CASE BeginNotes
  <2>1. segment.offset \in Nat /\ segment.size \in Nat
    BY SegmentFacts DEF segment
  <2> QED
    BY <1>0, <1>9, <2>1 DEF BeginNotes
<1>10. CASE ReadNote
  <2>1. \A o : U32(o) \in Nat
    BY ReadFacts
  <2> DEFINE n == NoteAt(cursor)
             threads == IF n.type = PRSTATUS THEN report.threadCount + 1 ELSE report.threadCount
             signal == IF n.type = SIGINFO /\ n.descSize >= 4
                         THEN U32(cursor + 12 + Padded(n.nameSize)) ELSE report.signal
  <2>2. report' \in Report
    <3>1. threads \in Nat /\ signal \in Nat
      BY <2>1 DEF Report
    <3>2. report' = [report EXCEPT !.threadCount = threads, !.signal = signal]
      BY <1>10 DEF ReadNote
    <3> HIDE DEF threads, signal
    <3> QED
      BY <3>1, <3>2 DEF Report
  <2>4. NoteAt(cursor).nameSize \in Nat /\ NoteAt(cursor).descSize \in Nat
    BY <2>1 DEF NoteAt
  <2>5. Padded(NoteAt(cursor).nameSize) \in Nat /\ Padded(NoteAt(cursor).descSize) \in Nat
    BY <2>4, PaddedType
  <2>6. cursor' = cursor + 12 + Padded(NoteAt(cursor).nameSize) + Padded(NoteAt(cursor).descSize)
    BY <1>10 DEF ReadNote, AfterNote
  <2>7. cursor' \in Nat
    BY <2>5, <2>6
  <2> QED
    BY <1>0, <1>10, <2>2, <2>7 DEF ReadNote
<1> QED
  BY <1>1, <1>2, <1>3, <1>4, <1>5, <1>6, <1>7, <1>8, <1>9, <1>10 DEF Next

(* The next note is behind this one and within its bounds. *)
LEMMA NoteFacts ==
  ASSUME dump \in Dumps, NEW at \in Nat, NEW limit \in Nat, NoteFits(at, limit)
  PROVE  /\ AfterNote(at) <= limit /\ at + 12 <= AfterNote(at) /\ AfterNote(at) \in Nat
         /\ at + 12 <= limit
<1>1. NoteAt(at).nameSize \in Nat /\ NoteAt(at).descSize \in Nat
  BY ReadFacts DEF NoteAt
<1> DEFINE a == Padded(NoteAt(at).nameSize)
           b == Padded(NoteAt(at).descSize)
<1>2. a \in Nat /\ b \in Nat
  BY <1>1, PaddedType
<1>3. a + b <= limit - at - 12 /\ AfterNote(at) = at + 12 + a + b
  BY DEF NoteFits, AfterNote
<1> HIDE DEF a, b
<1> QED
  BY <1>2, <1>3

LEMMA ControlKeeps ==
  ASSUME TypeOK, ControlOK, [Next]_vars
  PROVE  ControlOK'
<1>0. dump' = dump /\ dump \in Dumps
  BY DumpStays DEF TypeOK
<1>1. /\ StreamCount' = StreamCount /\ HeaderCount' = HeaderCount
      /\ (Minidump' <=> Minidump) /\ (Core' <=> Core)
      /\ stream' = StreamAt(entry') /\ segment' = SegmentAt(entry')
      /\ \A s : (Usable(s)' <=> Usable(s)) /\ (HasNotes(s)' <=> HasNotes(s))
  BY <1>0, SameFile
<1>2. StreamCount \in Nat /\ HeaderCount \in Nat /\ entry \in Nat
  BY <1>0, StreamFacts, SegmentFacts DEF TypeOK
<1>3. ~(Minidump /\ Core)
  BY DEF Minidump, Core
<1>4. CASE UNCHANGED vars
  BY <1>1, <1>4 DEF ControlOK, vars, stream, segment
<1>5. CASE Unsupported \/ RejectMinidump \/ RejectCore
  <2>1. pc' = "done" /\ verdict' # "Ok" /\ ~Minidump /\ ~Core
    BY <1>5 DEF Unsupported, RejectMinidump, RejectCore, Return, Minidump, Core
  <2> QED
    BY <1>1, <2>1 DEF ControlOK
<1>6. CASE BeginMinidump
  <2>1. pc' = "streams" /\ Minidump /\ entry' = 0
    BY <1>6 DEF BeginMinidump, ControlOK, Minidump
  <2> QED
    BY <1>1, <1>2, <2>1 DEF ControlOK
<1>7. CASE SkipStream \/ ReadException \/ ReadSystemInfo
  <2>1. pc' = "streams" /\ Minidump /\ entry' = entry + 1 /\ entry < StreamCount
    BY <1>7 DEF SkipStream, ReadException, ReadSystemInfo, AtStream, ControlOK
  <2> QED
    BY <1>1, <1>2, <2>1 DEF ControlOK
<1>8. CASE BeginList
  <2>1. pc' = "records" /\ Minidump /\ entry' = entry /\ entry < StreamCount
        /\ Usable(stream) /\ stream.type \in ListTypes
    BY <1>8 DEF BeginList, AtStream, ControlOK
  <2>2. stream' = stream
    BY <1>1, <2>1 DEF stream
  <2> QED
    BY <1>1, <1>2, <2>1, <2>2 DEF ControlOK
<1>9. CASE ReadRecord
  <2>1. pc' = "records" /\ pc = "records" /\ entry' = entry
    BY <1>9 DEF ReadRecord
  <2>2. stream' = stream
    BY <1>1, <2>1 DEF stream
  <2> QED
    BY <1>1, <2>1, <2>2 DEF ControlOK
<1>10. CASE EndList
  <2>1. pc' = "streams" /\ Minidump /\ entry' = entry + 1 /\ entry < StreamCount
    BY <1>10 DEF EndList, ControlOK
  <2> QED
    BY <1>1, <1>2, <2>1 DEF ControlOK
<1>11. CASE EndMinidump
  <2>1. pc' = "done" /\ Minidump /\ entry' = entry /\ entry = StreamCount /\ saw' = saw
        /\ (verdict' = "Ok" <=> saw)
    BY <1>11 DEF EndMinidump, Return, ControlOK
  <2> QED
    BY <1>1, <1>3, <2>1 DEF ControlOK
<1>12. CASE BeginCore
  <2>1. pc' = "segments" /\ Core /\ entry' = 0
    BY <1>12 DEF BeginCore, ControlOK, Core
  <2> QED
    BY <1>1, <1>2, <2>1 DEF ControlOK
<1>13. CASE SkipSegment \/ EndNotes
  <2>1. pc' = "segments" /\ Core /\ entry' = entry + 1 /\ entry < HeaderCount
    BY <1>13 DEF SkipSegment, EndNotes, AtSegment, ControlOK
  <2> QED
    BY <1>1, <1>2, <2>1 DEF ControlOK
<1>14. CASE BeginNotes
  <2>1. /\ pc' = "notes" /\ Core /\ entry' = entry /\ entry < HeaderCount /\ HasNotes(segment)
        /\ cursor' = segment.offset /\ end' = segment.offset + segment.size
    BY <1>14 DEF BeginNotes, AtSegment, ControlOK
  <2>2. segment' = segment
    BY <1>1, <2>1 DEF segment
  <2>3. segment.offset \in Nat /\ segment.size \in Nat
    BY <1>0, SegmentFacts DEF segment
  <2>4. cursor' <= end' /\ segment.offset <= cursor'
    BY <2>1, <2>3
  <2> QED
    BY <1>1, <1>2, <2>1, <2>2, <2>4 DEF ControlOK
<1>15. CASE ReadNote
  <2>1. /\ pc' = "notes" /\ pc = "notes" /\ entry' = entry /\ end' = end
        /\ NoteFits(cursor, end) /\ cursor' = AfterNote(cursor)
    BY <1>15 DEF ReadNote
  <2>2. segment' = segment
    BY <1>1, <2>1 DEF segment
  <2>3. cursor' <= end /\ cursor + 12 <= cursor'
    BY <1>0, <2>1, NoteFacts DEF TypeOK
  <2>4. segment.offset <= cursor'
    <3>1. segment.offset <= cursor /\ segment.offset \in Nat /\ cursor \in Nat /\ cursor' \in Nat
      BY <1>0, <2>1, SegmentFacts, TypeKeeps DEF ControlOK, segment, TypeOK
    <3> QED
      BY <2>3, <3>1
  <2> QED
    BY <1>1, <2>1, <2>2, <2>3, <2>4 DEF ControlOK
<1>16. CASE EndCore
  <2>1. pc' = "done" /\ Core /\ entry' = entry /\ entry = HeaderCount /\ saw' = saw
        /\ (verdict' = "Ok" <=> saw)
    BY <1>16 DEF EndCore, Return, ControlOK
  <2> QED
    BY <1>1, <1>3, <2>1 DEF ControlOK
<1> QED
  BY <1>4, <1>5, <1>6, <1>7, <1>8, <1>9, <1>10, <1>11, <1>12, <1>13, <1>14, <1>15, <1>16 DEF Next

(* What a step on a list in hand does. *)
LEMMA ReadRecordFacts ==
  ASSUME TypeOK, ControlOK, ReadRecord
  PROVE  /\ stream' = stream /\ pc = "records" /\ pc' = "records" /\ entry' = entry /\ saw' = saw
         /\ stream.type \in ListTypes
         /\ left > 0 /\ RangeValid(cursor, RecordSize[stream.type])
         /\ left' = left - 1 /\ cursor' = cursor + RecordSize[stream.type]
         /\ report'[ListField[stream.type]] = Append(report[ListField[stream.type]], RecordAt(stream.type, cursor))
         /\ \A t \in ListTypes \ {stream.type} : report'[ListField[t]] = report[ListField[t]]
         /\ \A t \in ListTypes : report'[CountField[t]] = report[CountField[t]]
         /\ report'.exception = report.exception
<1>1. /\ pc = "records" /\ pc' = "records" /\ entry' = entry /\ dump' = dump /\ saw' = saw
      /\ left > 0 /\ RangeValid(cursor, RecordSize[stream.type])
      /\ left' = left - 1 /\ cursor' = cursor + RecordSize[stream.type]
      /\ report' = [report EXCEPT ![ListField[stream.type]] =
                      Append(report[ListField[stream.type]], RecordAt(stream.type, cursor))]
  BY DEF ReadRecord, MoreRecords
<1>2. stream' = stream
  BY <1>1, SameFile DEF stream
<1>3. stream.type \in ListTypes
  BY <1>1 DEF ControlOK
<1> DEFINE list == Append(report[ListField[stream.type]], RecordAt(stream.type, cursor))
<1>4. list \in Lists
  BY <1>3, RecordType, ListsOfReport DEF TypeOK, Lists
<1>5. report' = WithList(report, stream.type, list) /\ report \in Report
  BY <1>1 DEF TypeOK, WithList
<1>6. /\ report'[ListField[stream.type]] = list
      /\ \A t \in ListTypes \ {stream.type} : report'[ListField[t]] = report[ListField[t]]
      /\ \A t \in ListTypes : report'[CountField[t]] = report[CountField[t]]
      /\ report'.exception = report.exception
  <2> HIDE DEF list
  <2> QED
    BY <1>3, <1>4, <1>5, SetList
<1> QED
  BY <1>1, <1>2, <1>3, <1>6, Zenon

LEMMA BeginListFacts ==
  ASSUME TypeOK, ControlOK, BeginList
  PROVE  /\ stream' = stream /\ pc = "streams" /\ pc' = "records" /\ entry' = entry /\ saw' = saw
         /\ stream.type \in ListTypes /\ Usable(stream) /\ entry < StreamCount
         /\ left' = Smaller(U32(stream.rva), MaxEntries) /\ cursor' = stream.rva + 4
         /\ report'[ListField[stream.type]] = <<>>
         /\ \A t \in ListTypes \ {stream.type} : report'[ListField[t]] = report[ListField[t]]
         /\ \A t \in ListTypes : report'[CountField[t]] = report[CountField[t]]
         /\ report'.exception = report.exception
<1>1. /\ pc = "streams" /\ pc' = "records" /\ entry' = entry /\ dump' = dump /\ saw' = saw
      /\ stream.type \in ListTypes /\ Usable(stream) /\ entry < StreamCount
      /\ left' = Smaller(U32(stream.rva), MaxEntries) /\ cursor' = stream.rva + 4
      /\ report' = [report EXCEPT ![ListField[stream.type]] = <<>>]
  BY DEF BeginList, AtStream
<1>2. stream' = stream
  BY <1>1, SameFile DEF stream
<1> DEFINE list == <<>>
<1>3. report' = WithList(report, stream.type, list) /\ report \in Report /\ list \in Lists
  BY <1>1 DEF TypeOK, WithList, Lists
<1>4. /\ report'[ListField[stream.type]] = list
      /\ \A t \in ListTypes \ {stream.type} : report'[ListField[t]] = report[ListField[t]]
      /\ \A t \in ListTypes : report'[CountField[t]] = report[CountField[t]]
      /\ report'.exception = report.exception
  <2>1. stream.type \in ListTypes
    BY <1>1
  <2> HIDE DEF list
  <2> QED
    BY <1>3, <2>1, SetList
<1> QED
  BY <1>1, <1>2, <1>4, Zenon

LEMMA EndListFacts ==
  ASSUME TypeOK, ControlOK, EndList
  PROVE  /\ pc = "records" /\ pc' = "streams" /\ entry' = entry + 1 /\ saw'
         /\ stream.type \in ListTypes /\ Usable(stream) /\ entry < StreamCount
         /\ left = 0 \/ ~RangeValid(cursor, RecordSize[stream.type])
         /\ report'[CountField[stream.type]] = Len(report[ListField[stream.type]])
         /\ \A t \in ListTypes : report'[ListField[t]] = report[ListField[t]]
         /\ \A t \in ListTypes \ {stream.type} : report'[CountField[t]] = report[CountField[t]]
         /\ report'.exception = report.exception
<1>1. /\ pc = "records" /\ pc' = "streams" /\ entry' = entry + 1 /\ saw'
      /\ ~(left > 0 /\ RangeValid(cursor, RecordSize[stream.type]))
      /\ report' = [report EXCEPT ![CountField[stream.type]] = Len(report[ListField[stream.type]])]
  BY DEF EndList, MoreRecords
<1>2. stream.type \in ListTypes /\ Usable(stream) /\ entry < StreamCount
  BY <1>1 DEF ControlOK
<1>3. left = 0 \/ ~RangeValid(cursor, RecordSize[stream.type])
  BY <1>1 DEF TypeOK
<1> DEFINE n == Len(report[ListField[stream.type]])
<1>4. report \in Report /\ n \in Nat
  BY <1>2, ListsOfReport DEF TypeOK
<1>5. report' = WithCount(report, stream.type, n)
  BY <1>1 DEF WithCount
<1>6. /\ report'[CountField[stream.type]] = n
      /\ \A t \in ListTypes : report'[ListField[t]] = report[ListField[t]]
      /\ \A t \in ListTypes \ {stream.type} : report'[CountField[t]] = report[CountField[t]]
      /\ report'.exception = report.exception
  <2> HIDE DEF n
  <2> QED
    BY <1>2, <1>4, <1>5, SetCount
<1> QED
  BY <1>1, <1>2, <1>3, <1>6, Zenon

(* The steps that leave all lists alone. *)
LEMMA OtherFacts ==
  ASSUME TypeOK, ControlOK, [Next]_vars, ~BeginList, ~ReadRecord, ~EndList
  PROVE  /\ \A t \in ListTypes : /\ report'[ListField[t]] = report[ListField[t]]
                                 /\ Minidump => report'[CountField[t]] = report[CountField[t]]
         /\ pc' # "records" \/ UNCHANGED vars
         /\ report'.exception = report.exception \/ ReadException
<1>0. report \in Report
  BY DEF TypeOK
<1>1. CASE UNCHANGED vars
  BY <1>1 DEF vars
<1>2. CASE ReadException
  <2>1. report' = [report EXCEPT !.exception = {stream.rva}] /\ pc' = "streams"
    BY <1>2 DEF ReadException, AtStream
  <2> QED
    BY <1>0, <1>2, <2>1, FieldFacts DEF Report
<1>3. CASE ReadSystemInfo
  <2>1. report' = [report EXCEPT !.architecture = MinidumpArchitecture(U16(stream.rva))] /\ pc' = "streams"
    BY <1>3 DEF ReadSystemInfo, AtStream
  <2> QED
    BY <1>0, <2>1, FieldFacts DEF Report
<1>4. CASE BeginCore
  <2>1. report' = [report EXCEPT !.architecture = ELFArchitecture(U16(18))] /\ pc' = "segments"
    BY <1>4 DEF BeginCore
  <2> QED
    BY <1>0, <2>1, FieldFacts DEF Report
<1>5. CASE ReadNote
  <2>1. /\ report'.modules = report.modules /\ report'.threads = report.threads
        /\ report'.exception = report.exception /\ pc' = "notes" /\ pc = "notes"
    BY <1>0, <1>5 DEF ReadNote, Report
  <2>2. ~Minidump
    BY <1>5, <2>1 DEF ControlOK, Core, Minidump
  <2> QED
    BY <2>1, <2>2, FieldFacts
<1>6. CASE \/ Unsupported \/ RejectMinidump \/ BeginMinidump \/ SkipStream \/ EndMinidump
           \/ RejectCore \/ SkipSegment \/ BeginNotes \/ EndNotes \/ EndCore
  <2>1. report' = report /\ pc' # "records"
    BY <1>6 DEF Unsupported, RejectMinidump, BeginMinidump, SkipStream, EndMinidump, RejectCore, SkipSegment,
       BeginNotes, EndNotes, EndCore, Return, AtStream, AtSegment
  <2> QED
    BY <2>1
<1> QED
  BY <1>1, <1>2, <1>3, <1>4, <1>5, <1>6 DEF Next
LEMMA NoneInHand ==
  ASSUME dump \in Dumps, stream.type \in ListTypes, Usable(stream)
  PROVE  InHand(stream, <<>>, Smaller(U32(stream.rva), MaxEntries), stream.rva + 4)
<1>1. /\ stream.rva \in Nat /\ stream.size \in Nat /\ dump.size \in Nat
      /\ Smaller(U32(stream.rva), MaxEntries) \in Nat
  BY DumpFacts, ReadFacts, StreamFacts, SmallerType, DumpAssumption DEF stream
<1>2. stream.rva + 4 <= dump.size
  <2>1. LeastSize[stream.type] = 4
    BY FieldFacts DEF LeastSize
  <2>2. 4 <= stream.size /\ stream.rva <= dump.size /\ stream.size <= dump.size - stream.rva
    BY <2>1 DEF Usable, RangeValid
  <2> QED
    BY <1>1, <2>2
<1>3. RecordSize[stream.type] \in Nat
  BY FieldFacts
<1> QED
  BY <1>1, <1>2, <1>3 DEF InHand

LEMMA OneMoreInHand ==
  ASSUME dump \in Dumps, NEW s, s.type \in ListTypes, s.rva \in Nat,
         NEW list \in Seq(Record), NEW rest \in Nat \ {0}, NEW at \in Nat, NEW record \in Record,
         record.at = at, InHand(s, list, rest, at), RangeValid(at, RecordSize[s.type])
  PROVE  InHand(s, Append(list, record), rest - 1, at + RecordSize[s.type])
<1> DEFINE longer == Append(list, record)
           size == RecordSize[s.type]
<1>1. /\ Len(list) \in Nat /\ Len(longer) = Len(list) + 1 /\ DOMAIN list = 1 .. Len(list)
      /\ DOMAIN longer = 1 .. (Len(list) + 1)
      /\ longer[Len(list) + 1] = record /\ \A n \in 1 .. Len(list) : longer[n] = list[n]
  BY AppendProperties
<1>2. size \in {48, 108} /\ dump.size \in Nat
  BY FieldFacts, DumpFacts
<1>3. at = s.rva + 4 + Len(list) * size
  BY DEF InHand
<1>4. at + size = s.rva + 4 + (Len(list) + 1) * size
  <2>1. CASE size = 48
    BY <1>1, <1>3, <2>1
  <2>2. CASE size = 108
    BY <1>1, <1>3, <2>2
  <2> QED
    BY <1>2, <2>1, <2>2
<1>5. at + size <= dump.size
  BY <1>2 DEF RangeValid
<1>6. Len(longer) + (rest - 1) = Smaller(U32(s.rva), MaxEntries)
  BY <1>1 DEF InHand
<1>7. ASSUME NEW n \in DOMAIN longer
      PROVE  longer[n].at = s.rva + 4 + (n - 1) * size
  <2>1. CASE n = Len(list) + 1
    <3>1. n - 1 = Len(list)
      BY <1>1, <2>1
    <3> QED
      BY <1>1, <1>3, <2>1, <3>1
  <2>2. CASE n \in 1 .. Len(list)
    BY <1>1, <2>2 DEF InHand
  <2> QED
    BY <1>1, <1>7, <2>1, <2>2
<1> HIDE DEF longer, size
<1>8. InHand(s, longer, rest - 1, at + size)
  BY <1>1, <1>4, <1>5, <1>6, <1>7 DEF InHand, size
<1> QED
  BY <1>8 DEF longer, size

LEMMA InHandKeeps ==
  ASSUME TypeOK, ControlOK, InHandOK, [Next]_vars
  PROVE  InHandOK'
<1>0. dump' = dump /\ dump \in Dumps
  BY DumpStays DEF TypeOK
<1>1. InHandOK' <=>
        (pc' = "records" => InHand(stream', report'[ListField[stream'.type]], left', cursor'))
  BY <1>0, SameFile DEF InHandOK, InHand
<1>2. CASE BeginList
  <2>1. InHand(stream, <<>>, Smaller(U32(stream.rva), MaxEntries), stream.rva + 4)
    BY <1>0, <1>2, BeginListFacts, NoneInHand
  <2> QED
    BY <1>1, <1>2, <2>1, BeginListFacts
<1>3. CASE ReadRecord
  <2> DEFINE list == report[ListField[stream.type]]
             record == RecordAt(stream.type, cursor)
  <2>1. /\ list \in Seq(Record) /\ record \in Record /\ record.at = cursor /\ cursor \in Nat
        /\ left \in Nat \ {0} /\ stream.rva \in Nat /\ stream.type \in ListTypes
    BY <1>0, <1>3, ReadRecordFacts, ListsOfReport, RecordType, StreamFacts DEF TypeOK, stream
  <2>2. InHand(stream, list, left, cursor)
    BY <1>3, ReadRecordFacts DEF InHandOK
  <2>3. RangeValid(cursor, RecordSize[stream.type])
    BY <1>3, ReadRecordFacts
  <2> HIDE DEF list, record
  <2>4. InHand(stream, Append(list, record), left - 1, cursor + RecordSize[stream.type])
    BY <1>0, <2>1, <2>2, <2>3, OneMoreInHand
  <2> QED
    BY <1>1, <1>3, <2>4, ReadRecordFacts DEF list, record
<1>4. CASE EndList
  BY <1>1, <1>4, EndListFacts
<1>5. CASE UNCHANGED vars
  <2>1. /\ pc' = pc /\ report' = report /\ left' = left /\ cursor' = cursor
        /\ stream' = stream
    BY <1>0, <1>5, SameFile DEF vars, stream
  <2> QED
    BY <1>1, <2>1 DEF InHandOK
<1>6. CASE ~BeginList /\ ~ReadRecord /\ ~EndList /\ ~UNCHANGED vars
  BY <1>1, <1>6, OtherFacts
<1> QED
  BY <1>2, <1>3, <1>4, <1>5, <1>6

(***************************************************************************)
(* What is in the report is in the file                                    *)
(***************************************************************************)
LEMMA RecordsKeep ==
  ASSUME TypeOK, ControlOK, InHandOK, RecordsOK, [Next]_vars
  PROVE  RecordsOK'
<1>0. dump' = dump /\ dump \in Dumps /\ MaxEntries \in Nat
  BY DumpStays, DumpAssumption DEF TypeOK
<1>1. RecordsOK' <=> /\ \A type \in ListTypes : InFile(type, report'[ListField[type]])
                     /\ \A at \in report'.exception : RangeValid(at, 168)
  BY <1>0 DEF RecordsOK, InFile, RangeValid
<1>2. /\ \A type \in ListTypes : InFile(type, report[ListField[type]])
      /\ \A at \in report.exception : RangeValid(at, 168)
  BY DEF RecordsOK
<1>3. CASE BeginList
  <2>1. InFile(stream.type, <<>>)
    BY <1>0 DEF InFile
  <2> QED
    BY <1>1, <1>2, <1>3, <2>1, BeginListFacts
<1>4. CASE ReadRecord
  <2> DEFINE list == report[ListField[stream.type]]
             record == RecordAt(stream.type, cursor)
  <2>1. /\ list \in Seq(Record) /\ record \in Record /\ record.at = cursor
        /\ \A name \in record.name : RangeValid(name.at, name.length)
        /\ stream.type \in ListTypes /\ left \in Nat /\ left > 0
        /\ RangeValid(cursor, RecordSize[stream.type])
    BY <1>0, <1>4, ReadRecordFacts, ListsOfReport, RecordType DEF TypeOK
  <2>2. Len(list) + left = Smaller(U32(stream.rva), MaxEntries)
    BY <1>4, ReadRecordFacts DEF InHandOK, InHand
  <2>3. Smaller(U32(stream.rva), MaxEntries) <= MaxEntries
    BY <1>0, ReadFacts, SmallerType
  <2>4. InFile(stream.type, list)
    BY <1>2, <2>1
  <2> HIDE DEF list, record
  <2>5. InFile(stream.type, Append(list, record))
    <3>1. Len(list) \in Nat /\ Len(list) + 1 <= MaxEntries
      <4>1. Len(list) \in Nat /\ Len(list) + left <= MaxEntries
        BY <2>1, <2>2, <2>3
      <4> QED
        BY <1>0, <2>1, <4>1
    <3>2. /\ Len(Append(list, record)) = Len(list) + 1
          /\ DOMAIN Append(list, record) = 1 .. (Len(list) + 1) /\ DOMAIN list = 1 .. Len(list)
          /\ Append(list, record)[Len(list) + 1] = record
          /\ \A n \in 1 .. Len(list) : Append(list, record)[n] = list[n]
      BY <2>1, AppendProperties
    <3> DEFINE longer == Append(list, record)
    <3>3. ASSUME NEW k \in DOMAIN longer
          PROVE  (k \in DOMAIN list /\ longer[k] = list[k]) \/ longer[k] = record
      BY <3>1, <3>2
    <3>4. Len(longer) <= MaxEntries
      BY <3>1, <3>2
    <3> HIDE DEF longer
    <3>5. InFile(stream.type, longer)
      BY <2>1, <2>4, <3>3, <3>4 DEF InFile
    <3> QED
      BY <3>5 DEF longer
  <2>6. report'[ListField[stream.type]] = Append(list, record)
    BY <1>4, ReadRecordFacts DEF list, record
  <2>7. /\ \A t \in ListTypes \ {stream.type} : report'[ListField[t]] = report[ListField[t]]
        /\ report'.exception = report.exception
    BY <1>4, ReadRecordFacts
  <2> QED
    BY <1>1, <1>2, <2>5, <2>6, <2>7
<1>5. CASE EndList
  BY <1>1, <1>2, <1>5, EndListFacts
<1>6. CASE ReadException
  <2>1. report'.exception = {stream.rva} /\ Usable(stream) /\ stream.type = 6
    BY <1>6 DEF ReadException, TypeOK, Report
  <2>2. LeastSize[6] = 168
    BY DEF LeastSize, ListTypes
  <2>3. RangeValid(stream.rva, 168)
    <3>1. stream.rva \in Nat /\ stream.size \in Nat /\ dump.size \in Nat
      BY <1>0, StreamFacts, DumpFacts DEF stream
    <3>2. stream.size >= 168
      BY <2>1, <2>2 DEF Usable
    <3> QED
      BY <2>1, <3>1, <3>2 DEF Usable, RangeValid
  <2>4. \A t \in ListTypes : report'[ListField[t]] = report[ListField[t]]
    <3>1. ~BeginList /\ ~ReadRecord /\ ~EndList
      BY <1>6 DEF ReadException, BeginList, ReadRecord, EndList, AtStream, ListTypes
    <3> QED
      BY <3>1, OtherFacts
  <2> QED
    BY <1>1, <1>2, <2>1, <2>3, <2>4
<1>7. CASE ~BeginList /\ ~ReadRecord /\ ~EndList /\ ~ReadException
  BY <1>1, <1>2, <1>7, OtherFacts
<1> QED
  BY <1>3, <1>4, <1>5, <1>6, <1>7

(***************************************************************************)
(* The lists are those of the last streams                                 *)
(***************************************************************************)
LEMMA Quotient ==
  ASSUME NEW a \in Nat, NEW n \in Nat, NEW size \in {48, 108}
  PROVE  /\ a \div size \in Nat
         /\ n * size <= a => n <= a \div size
         /\ a < (n + 1) * size => a \div size <= n
<1>1. CASE size = 48
  BY <1>1
<1>2. CASE size = 108
  BY <1>2
<1> QED
  BY <1>1, <1>2

(* A list ends where its declared length, the limit or the file ends it. *)
LEMMA WholeList ==
  ASSUME dump \in Dumps, stream.type \in ListTypes, Usable(stream),
         NEW list \in Seq(Record), left \in Nat, cursor \in Nat, InHand(stream, list, left, cursor),
         left = 0 \/ ~RangeValid(cursor, RecordSize[stream.type])
  PROVE  Len(list) = ListLength(stream)
<1> DEFINE size == RecordSize[stream.type]
           count == Smaller(U32(stream.rva), MaxEntries)
           room == dump.size - stream.rva - 4
           n == Len(list)
<1>a. size \in {48, 108}
  BY FieldFacts
<1>b. count \in Nat /\ n \in Nat
  <2>1. U32(stream.rva) \in Nat /\ MaxEntries \in Nat
    BY ReadFacts, DumpAssumption
  <2>2. n \in Nat
    OBVIOUS
  <2> HIDE DEF n
  <2> QED
    BY <2>1, <2>2, SmallerType
<1>1. size \in {48, 108} /\ n \in Nat /\ count \in Nat /\ dump.size \in Nat /\ stream.rva \in Nat
  BY <1>a, <1>b, DumpFacts, StreamFacts DEF stream
<1> DEFINE used == n * size
<1>2. n + left = count /\ cursor = stream.rva + 4 + used /\ cursor <= dump.size
  BY DEF InHand
<1>3. left = 0 \/ dump.size - cursor < size
  BY <1>1, <1>2 DEF RangeValid
<1>4. ListLength(stream) = Smaller(count, room \div size)
  BY DEF ListLength
<1>5. used \in Nat /\ (n + 1) * size = used + size
  <2>1. CASE size = 48
    BY <1>1, <2>1
  <2>2. CASE size = 108
    BY <1>1, <2>2
  <2> QED
    BY <1>1, <2>1, <2>2
<1> HIDE DEF size, count, n, used
<1>6. room \in Nat /\ used <= room /\ (left # 0 => room < used + size)
  <2>1. dump.size - cursor \in Nat
    BY <1>1, <1>2
  <2>2. room = used + (dump.size - cursor)
    BY <1>1, <1>2, <1>5
  <2> HIDE DEF room
  <2> QED
    BY <1>a, <1>3, <1>5, <2>1, <2>2
<1> HIDE DEF room
<1>7. /\ room \div size \in Nat /\ n <= room \div size
      /\ left # 0 => room \div size <= n
  <2>1. n * size <= room /\ (left # 0 => room < (n + 1) * size)
    BY <1>5, <1>6 DEF used
  <2> QED
    BY <1>1, <1>6, <2>1, Quotient
<1>8. n = Smaller(count, room \div size)
  BY <1>1, <1>2, <1>7 DEF Smaller
<1> QED
  BY <1>4, <1>8 DEF n

(* The stream that `entry' goes past is of one type, or of none. *)
LEMMA BeforeNext ==
  ASSUME dump \in Dumps, entry \in Nat, entry < StreamCount, NEW type
  PROVE  Before(type, entry + 1) =
           IF Usable(stream) /\ stream.type = type THEN Before(type, entry) \cup {entry} ELSE Before(type, entry)
<1>1. StreamCount \in Nat /\ stream = StreamAt(entry)
  BY StreamFacts DEF stream
<1>2. entry \in StreamsOf(type) <=> Usable(stream) /\ stream.type = type
  BY <1>1 DEF StreamsOf
<1>3. \A k \in StreamsOf(type) : k \in Nat
  BY <1>1 DEF StreamsOf
<1>4. \A k \in StreamsOf(type) : k < entry + 1 <=> k < entry \/ k = entry
  BY <1>3
<1> QED
  BY <1>2, <1>4 DEF Before

LEMMA ListsKeep ==
  ASSUME TypeOK, ControlOK, InHandOK, ListsOK, [Next]_vars
  PROVE  ListsOK'
<1> DEFINE Current(type) == IsListOf(type, report[ListField[type]], report[CountField[type]], Before(type, entry))
           Then(type) == IsListOf(type, report'[ListField[type]], report'[CountField[type]], Before(type, entry'))
<1>0. dump' = dump /\ dump \in Dumps /\ entry \in Nat
  BY DumpStays DEF TypeOK
<1>1. ASSUME pc' \in {"streams", "records"} \/ (pc' = "done" /\ Minidump) =>
               \A type \in ListTypes : (pc' = "records" /\ stream'.type = type) \/ Then(type)
      PROVE  ListsOK'
  <2>1. Minidump' <=> Minidump
    BY <1>0, SameFile
  <2>2. \A type : Before(type, entry)' = Before(type, entry')
    BY <1>0, SameFile DEF Before
  <2>3. ASSUME NEW type \in ListTypes
        PROVE  IsListOf(type, report[ListField[type]], report[CountField[type]], Before(type, entry))'
                 <=> Then(type)
    BY <1>0, <2>2, SameFile DEF IsListOf
  <2> HIDE DEF Then
  <2> QED
    BY <1>1, <2>1, <2>3 DEF ListsOK
<1>2. pc \in {"streams", "records"} \/ (pc = "done" /\ Minidump) =>
        \A type \in ListTypes : (pc = "records" /\ stream.type = type) \/ Current(type)
  BY DEF ListsOK
<1>3. \A type : Then(type) <=> IsListOf(type, report'[ListField[type]], report'[CountField[type]], Before(type, entry'))
  OBVIOUS
<1>4. \A type : Current(type) <=> IsListOf(type, report[ListField[type]], report[CountField[type]], Before(type, entry))
  OBVIOUS
<1> HIDE DEF Then, Current
<1>5. CASE BeginMinidump
  <2>1. entry' = 0 /\ report' = EmptyReport /\ pc' = "streams"
    BY <1>5 DEF BeginMinidump, ControlOK
  <2>2. \A type : Before(type, 0) = {}
    BY DEF Before, StreamsOf
  <2>3. ASSUME NEW type \in ListTypes
        PROVE  Then(type)
    <3>1. EmptyReport[ListField[type]] = <<>> /\ EmptyReport[CountField[type]] = 0
      BY FieldFacts DEF EmptyReport
    <3> QED
      BY <1>3, <2>1, <2>2, <3>1 DEF IsListOf
  <2> QED
    BY <1>1, <2>1, <2>3
<1>6. CASE SkipStream \/ ReadException \/ ReadSystemInfo
  <2>1. /\ pc = "streams" /\ pc' = "streams" /\ entry' = entry + 1 /\ entry < StreamCount
        /\ ~(Usable(stream) /\ stream.type \in ListTypes)
    BY <1>6, FieldFacts DEF SkipStream, ReadException, ReadSystemInfo, AtStream
  <2>2. \A type \in ListTypes : Before(type, entry') = Before(type, entry)
    BY <1>0, <2>1, BeforeNext
  <2>3. ~BeginList /\ ~ReadRecord /\ ~EndList /\ Minidump
    BY <2>1 DEF BeginList, ReadRecord, EndList, ControlOK
  <2>4. \A type \in ListTypes : /\ report'[ListField[type]] = report[ListField[type]]
                                /\ report'[CountField[type]] = report[CountField[type]]
    BY <2>3, OtherFacts
  <2> QED
    BY <1>1, <1>2, <1>3, <1>4, <2>1, <2>2, <2>4
<1>7. CASE BeginList
  <2>1. /\ pc = "streams" /\ pc' = "records" /\ entry' = entry /\ stream' = stream
        /\ \A t \in ListTypes \ {stream.type} : report'[ListField[t]] = report[ListField[t]]
        /\ \A t \in ListTypes : report'[CountField[t]] = report[CountField[t]]
    BY <1>7, BeginListFacts
  <2> QED
    BY <1>1, <1>2, <1>3, <1>4, <2>1
<1>8. CASE ReadRecord
  <2>1. /\ pc = "records" /\ pc' = "records" /\ entry' = entry /\ stream' = stream
        /\ \A t \in ListTypes \ {stream.type} : report'[ListField[t]] = report[ListField[t]]
        /\ \A t \in ListTypes : report'[CountField[t]] = report[CountField[t]]
    BY <1>8, ReadRecordFacts
  <2> QED
    BY <1>1, <1>2, <1>3, <1>4, <2>1
<1>9. CASE EndList
  <2>1. /\ pc = "records" /\ pc' = "streams" /\ entry' = entry + 1
        /\ stream.type \in ListTypes /\ Usable(stream) /\ entry < StreamCount
        /\ left = 0 \/ ~RangeValid(cursor, RecordSize[stream.type])
        /\ report'[CountField[stream.type]] = Len(report[ListField[stream.type]])
        /\ \A t \in ListTypes : report'[ListField[t]] = report[ListField[t]]
        /\ \A t \in ListTypes \ {stream.type} : report'[CountField[t]] = report[CountField[t]]
    BY <1>9, EndListFacts
  <2>2. \A type \in ListTypes \ {stream.type} : Before(type, entry') = Before(type, entry)
    BY <1>0, <2>1, BeforeNext
  <2>3. Then(stream.type)
    <3> DEFINE type == stream.type
               list == report[ListField[type]]
    <3>1. Before(type, entry') = Before(type, entry) \cup {entry}
      BY <1>0, <2>1, BeforeNext
    <3>2. InHand(stream, list, left, cursor) /\ list \in Seq(Record)
      BY <2>1, ListsOfReport DEF InHandOK, TypeOK
    <3>3. Len(list) = ListLength(stream)
      BY <1>0, <2>1, <3>2, WholeList DEF TypeOK
    <3>4. \A n \in DOMAIN list : list[n].at = stream.rva + 4 + (n - 1) * RecordSize[type]
      BY <3>2 DEF InHand
    <3>5. \A k \in Before(type, entry) : k < entry /\ k \in Nat
      BY <1>0, StreamFacts DEF Before, StreamsOf
    <3>6. ASSUME NEW k \in Before(type, entry'), \A j \in Before(type, entry') : j <= k
          PROVE  StreamAt(k) = stream
      <4>1. k = entry
        BY <1>0, <3>1, <3>5, <3>6
      <4> QED
        BY <4>1 DEF stream
    <3> HIDE DEF list
    <3>7. IsListOf(type, list, Len(list), Before(type, entry'))
      BY <3>1, <3>3, <3>4, <3>6 DEF IsListOf
    <3> QED
      BY <1>3, <2>1, <3>7 DEF list
  <2> QED
    BY <1>1, <1>2, <1>3, <1>4, <2>1, <2>2, <2>3
<1>10. CASE EndMinidump
  <2>1. pc = "streams" /\ entry' = entry /\ report' = report /\ pc' = "done"
    BY <1>10 DEF EndMinidump, Return
  <2> QED
    BY <1>1, <1>2, <1>3, <1>4, <2>1
<1>11. CASE UNCHANGED vars
  <2>1. pc' = pc /\ entry' = entry /\ report' = report /\ stream' = stream
    BY <1>0, <1>11, SameFile DEF vars, stream
  <2> QED
    BY <1>1, <1>2, <1>3, <1>4, <2>1
<1>12. CASE Unsupported \/ RejectMinidump \/ RejectCore
  <2>1. pc' = "done" /\ ~Minidump
    BY <1>12 DEF Unsupported, RejectMinidump, RejectCore, Return, Minidump
  <2> QED
    BY <1>1, <2>1
<1>13. CASE BeginCore \/ SkipSegment \/ BeginNotes \/ ReadNote \/ EndNotes \/ EndCore
  <2>1. pc' \notin {"streams", "records"} /\ ~Minidump
    BY <1>13 DEF BeginCore, SkipSegment, BeginNotes, ReadNote, EndNotes, EndCore, Return, Minidump, ControlOK, Core,
       AtSegment
  <2> QED
    BY <1>1, <2>1
<1> QED
  BY <1>5, <1>6, <1>7, <1>8, <1>9, <1>10, <1>11, <1>12, <1>13 DEF Next

(***************************************************************************)
(* The verdict                                                             *)
(***************************************************************************)
LEMMA SegmentNext ==
  ASSUME dump \in Dumps, entry \in Nat, entry < HeaderCount
  PROVE  (\E k \in NoteSegments : k < entry + 1 /\ FirstNoteFits(SegmentAt(k)))
           <=> \/ \E k \in NoteSegments : k < entry /\ FirstNoteFits(SegmentAt(k))
               \/ HasNotes(segment) /\ FirstNoteFits(segment)
<1>1. HeaderCount \in Nat /\ segment = SegmentAt(entry)
  BY SegmentFacts DEF segment
<1>2. entry \in NoteSegments <=> HasNotes(segment)
  BY <1>1 DEF NoteSegments
<1>3. \A k \in NoteSegments : k < entry + 1 <=> k < entry \/ k = entry
  BY <1>1 DEF NoteSegments
<1> QED
  BY <1>1, <1>2, <1>3

LEMMA SawKeeps ==
  ASSUME TypeOK, ControlOK, SawOK, [Next]_vars
  PROVE  SawOK'
<1> DEFINE Seen(n) == \E type \in DOMAIN LeastSize : Before(type, n) # {}
           Noted(n) == \E k \in NoteSegments : k < n /\ FirstNoteFits(SegmentAt(k))
<1>0. dump' = dump /\ dump \in Dumps /\ entry \in Nat
  BY DumpStays DEF TypeOK
<1>1. /\ Minidump' <=> Minidump
      /\ Core' <=> Core
      /\ stream' = StreamAt(entry') /\ segment' = SegmentAt(entry')
      /\ ~(Minidump /\ Core)
  BY <1>0, SameFile DEF Minidump, Core
<1>2. ASSUME /\ pc' \in {"streams", "records"} \/ (pc' = "done" /\ Minidump) => (saw' <=> Seen(entry'))
             /\ pc' \in {"segments", "notes"} \/ (pc' = "done" /\ Core) =>
                  (saw' <=> Noted(entry') \/ (pc' = "notes" /\ cursor' # segment'.offset))
             /\ pc' = "notes" /\ cursor' # segment'.offset => FirstNoteFits(segment')
      PROVE  SawOK'
  <2>1. \A type : Before(type, entry)' = Before(type, entry')
    BY <1>0, SameFile DEF Before
  <2>2. (\E type \in DOMAIN LeastSize : Before(type, entry) # {})' <=> Seen(entry')
    BY <2>1
  <2>3. (\E k \in NoteSegments : k < entry /\ FirstNoteFits(SegmentAt(k)))' <=> Noted(entry')
    BY <1>0, SameFile DEF FirstNoteFits, NoteFits, NoteAt
  <2>4. FirstNoteFits(segment)' <=> FirstNoteFits(segment')
    BY <1>0, SameFile DEF FirstNoteFits, NoteFits, NoteAt
  <2> HIDE DEF Seen, Noted
  <2> QED
    BY <1>1, <1>2, <2>2, <2>3, <2>4 DEF SawOK
<1>3. /\ pc \in {"streams", "records"} \/ (pc = "done" /\ Minidump) => (saw <=> Seen(entry))
      /\ pc \in {"segments", "notes"} \/ (pc = "done" /\ Core) =>
           (saw <=> Noted(entry) \/ (pc = "notes" /\ cursor # segment.offset))
      /\ pc = "notes" /\ cursor # segment.offset => FirstNoteFits(segment)
  BY DEF SawOK
<1>4. entry < StreamCount => (Seen(entry + 1) <=> Seen(entry) \/ Usable(stream))
  <2>1. Usable(stream) => stream.type \in DOMAIN LeastSize
    BY DEF Usable
  <2> QED
    BY <1>0, <2>1, BeforeNext
<1>5. entry < HeaderCount => (Noted(entry + 1) <=> Noted(entry) \/ (HasNotes(segment) /\ FirstNoteFits(segment)))
  BY <1>0, SegmentNext
<1>6. ~Seen(0) /\ ~Noted(0)
  BY <1>0, SegmentFacts DEF Before, StreamsOf, NoteSegments
<1> HIDE DEF Seen, Noted
<1>7. CASE Unsupported \/ RejectMinidump \/ RejectCore
  <2>1. pc' = "done" /\ ~Minidump /\ ~Core
    BY <1>7 DEF Unsupported, RejectMinidump, RejectCore, Return, Minidump, Core
  <2> QED
    BY <1>2, <2>1
<1>8. CASE BeginMinidump
  <2>1. pc' = "streams" /\ entry' = 0 /\ saw' = FALSE
    BY <1>8 DEF BeginMinidump, ControlOK, TypeOK
  <2> QED
    BY <1>2, <1>6, <2>1
<1>9. CASE SkipStream
  <2>1. /\ pc = "streams" /\ pc' = "streams" /\ entry' = entry + 1 /\ entry < StreamCount
        /\ ~Usable(stream) /\ saw' = saw
    BY <1>9 DEF SkipStream, AtStream
  <2> QED
    BY <1>2, <1>3, <1>4, <2>1
<1>10. CASE ReadException \/ ReadSystemInfo
  <2>1. /\ pc' = "streams" /\ entry' = entry + 1 /\ entry < StreamCount /\ Usable(stream) /\ saw' = TRUE
    BY <1>10 DEF ReadException, ReadSystemInfo, AtStream
  <2> QED
    BY <1>2, <1>4, <2>1
<1>11. CASE BeginList
  <2>1. pc = "streams" /\ pc' = "records" /\ entry' = entry /\ saw' = saw
    BY <1>11 DEF BeginList, AtStream
  <2> QED
    BY <1>2, <1>3, <2>1
<1>12. CASE ReadRecord
  <2>1. pc = "records" /\ pc' = "records" /\ entry' = entry /\ saw' = saw
    BY <1>12 DEF ReadRecord
  <2> QED
    BY <1>2, <1>3, <2>1
<1>13. CASE EndList
  <2>1. pc' = "streams" /\ entry' = entry + 1 /\ entry < StreamCount /\ Usable(stream) /\ saw' = TRUE
    BY <1>13 DEF EndList, ControlOK
  <2> QED
    BY <1>2, <1>4, <2>1
<1>14. CASE EndMinidump
  <2>1. pc = "streams" /\ pc' = "done" /\ entry' = entry /\ saw' = saw /\ Minidump
    BY <1>14 DEF EndMinidump, Return, ControlOK
  <2> QED
    BY <1>1, <1>2, <1>3, <2>1
<1>15. CASE BeginCore
  <2>1. pc' = "segments" /\ entry' = 0 /\ saw' = FALSE
    BY <1>15 DEF BeginCore, ControlOK, TypeOK
  <2> QED
    BY <1>2, <1>6, <2>1
<1>16. CASE SkipSegment
  <2>1. /\ pc = "segments" /\ pc' = "segments" /\ entry' = entry + 1 /\ entry < HeaderCount
        /\ ~HasNotes(segment) /\ saw' = saw
    BY <1>16 DEF SkipSegment, AtSegment
  <2> QED
    BY <1>2, <1>3, <1>5, <2>1
<1>17. CASE BeginNotes
  <2>1. /\ pc = "segments" /\ pc' = "notes" /\ entry' = entry /\ cursor' = segment.offset /\ saw' = saw
    BY <1>17 DEF BeginNotes, AtSegment
  <2>2. segment' = segment
    BY <1>1, <2>1 DEF segment
  <2> QED
    BY <1>2, <1>3, <2>1, <2>2
<1>18. CASE ReadNote
  <2>1. /\ pc = "notes" /\ pc' = "notes" /\ entry' = entry /\ saw' = TRUE
        /\ NoteFits(cursor, end) /\ cursor' = AfterNote(cursor)
    BY <1>18 DEF ReadNote
  <2>2. segment' = segment
    BY <1>1, <2>1 DEF segment
  <2>3. segment.offset <= cursor /\ end = segment.offset + segment.size
    BY <2>1 DEF ControlOK
  <2>4. cursor + 12 <= cursor' /\ cursor' \in Nat /\ cursor \in Nat /\ segment.offset \in Nat
    BY <1>0, <2>1, NoteFacts, SegmentFacts DEF TypeOK, segment
  <2>5. cursor' # segment'.offset
    BY <2>2, <2>3, <2>4
  <2>6. FirstNoteFits(segment)
    <3>1. CASE cursor # segment.offset
      BY <1>3, <2>1, <3>1
    <3>2. CASE cursor = segment.offset
      BY <2>1, <2>3, <3>2 DEF FirstNoteFits
    <3> QED
      BY <3>1, <3>2
  <2> QED
    BY <1>2, <2>1, <2>2, <2>5, <2>6
<1>19. CASE EndNotes
  <2>1. /\ pc = "notes" /\ pc' = "segments" /\ entry' = entry + 1 /\ saw' = saw
        /\ ~NoteFits(cursor, end)
    BY <1>19 DEF EndNotes
  <2>2. /\ entry < HeaderCount /\ HasNotes(segment) /\ end = segment.offset + segment.size
    BY <2>1 DEF ControlOK
  <2>3. cursor = segment.offset => ~FirstNoteFits(segment)
    BY <2>1, <2>2 DEF FirstNoteFits
  <2> QED
    BY <1>2, <1>3, <1>5, <2>1, <2>2, <2>3
<1>20. CASE EndCore
  <2>1. pc = "segments" /\ pc' = "done" /\ entry' = entry /\ saw' = saw /\ Core
    BY <1>20 DEF EndCore, Return, ControlOK
  <2> QED
    BY <1>1, <1>2, <1>3, <2>1
<1>21. CASE UNCHANGED vars
  <2>1. pc' = pc /\ entry' = entry /\ saw' = saw /\ cursor' = cursor /\ segment' = segment
    BY <1>1, <1>21 DEF vars, segment
  <2> QED
    BY <1>2, <1>3, <2>1
<1> QED
  BY <1>7, <1>8, <1>9, <1>10, <1>11, <1>12, <1>13, <1>14, <1>15, <1>16, <1>17, <1>18, <1>19, <1>20, <1>21
     DEF Next

(***************************************************************************)
(* The notes of a segment                                                  *)
(***************************************************************************)
(* Of the numbers of a set one is the least. *)
LEMMA LeastNumber ==
  ASSUME NEW S, S \subseteq Nat, S # {}
  PROVE  \E x \in S : \A y \in S : x <= y
<1>1. PICK x \in S : \A y \in S : ~(<<y, x>> \in OpToRel(<, Nat))
  BY NatLessThanWellFounded, WFMin
<1>2. \A y \in S : <<y, x>> \in OpToRel(<, Nat) <=> y < x
  BY DEF OpToRel
<1>3. \A y \in S : ~(y < x)
  BY <1>1, <1>2
<1>4. \A y \in S : y \in Int /\ x \in Int
  OBVIOUS
<1> QED
  BY <1>3, <1>4

Onward(set, after) == set \cup UNION {after[at] : at \in set}

IsReach(r, first, after, m) ==
  r = [n \in 0 .. m |-> IF n = 0 THEN {first} ELSE Onward(r[n - 1], after)]

(* The positions are reached step by step, so that the reference is what   *)
(* its definition says.                                                    *)
LEMMA ReachExists ==
  ASSUME NEW first, NEW after, NEW n \in Nat
  PROVE  \E r : IsReach(r, first, after, n)
<1> DEFINE S == {m \in Nat : ~ \E r : IsReach(r, first, after, m)}
<1> SUFFICES ASSUME S # {} PROVE FALSE
  OBVIOUS
<1>1. PICK m \in S : \A y \in S : m <= y
  BY LeastNumber
<1>2. m \in Nat /\ ~ \E r : IsReach(r, first, after, m)
  BY <1>1
<1>3. CASE m = 0
  <2> DEFINE r == [k \in 0 .. 0 |-> {first}]
  <2>1. IsReach(r, first, after, 0)
    BY DEF IsReach
  <2> QED
    BY <1>2, <1>3, <2>1
<1>4. CASE m # 0
  <2>1. m - 1 \in Nat /\ m - 1 \notin S
    <3>1. m - 1 \in Nat /\ ~(m <= m - 1)
      BY <1>2, <1>4
    <3> QED
      BY <1>1, <3>1
  <2>2. PICK r : IsReach(r, first, after, m - 1)
    BY <2>1
  <2> DEFINE last == Onward(r[m - 1], after)
             g == [k \in 0 .. m |-> IF k = m THEN last ELSE r[k]]
  <2>3. \A k \in 0 .. (m - 1) : r[k] = IF k = 0 THEN {first} ELSE Onward(r[k - 1], after)
    BY <2>2 DEF IsReach
  <2>4. ASSUME NEW k \in 0 .. m
        PROVE  g[k] = IF k = 0 THEN {first} ELSE Onward(g[k - 1], after)
    <3> HIDE DEF last
    <3>1. k # 0 => k - 1 \in 0 .. m /\ k - 1 # m
      BY <1>2
    <3>2. k # 0 => g[k - 1] = r[k - 1]
      BY <3>1
    <3>3. CASE k = m
      <4>1. g[k] = last /\ last = Onward(r[k - 1], after)
        BY <3>3 DEF last
      <4> QED
        BY <1>4, <3>2, <3>3, <4>1
    <3>4. CASE k # m
      <4>1. k \in 0 .. (m - 1)
        BY <1>2, <3>4
      <4>2. g[k] = r[k]
        BY <3>4
      <4> HIDE DEF g
      <4> QED
        BY <2>3, <3>2, <4>1, <4>2
    <3> QED
      BY <3>3, <3>4
  <2>5. g = [k \in 0 .. m |-> g[k]]
    OBVIOUS
  <2> HIDE DEF g
  <2>6. IsReach(g, first, after, m)
    <3>1. [k \in 0 .. m |-> g[k]] = [k \in 0 .. m |-> IF k = 0 THEN {first} ELSE Onward(g[k - 1], after)]
      BY <2>4
    <3> QED
      BY <2>5, <3>1 DEF IsReach
  <2> QED
    BY <1>2, <2>6
<1> QED
  BY <1>3, <1>4

LEMMA ReachFacts ==
  ASSUME NEW first, NEW after, NEW n \in Nat
  PROVE  \E r : /\ Reached(first, after, n) = r[n]
                /\ r[0] = {first}
                /\ \A k \in 1 .. n : r[k] = Onward(r[k - 1], after)
<1> DEFINE r == CHOOSE r_1 : IsReach(r_1, first, after, n)
<1>1. IsReach(r, first, after, n)
  BY ReachExists
<1>2. Reached(first, after, n) = r[n]
  BY Zenon DEF Reached, IsReach, Onward
<1> HIDE DEF r
<1>3. \A k \in 0 .. n : r[k] = IF k = 0 THEN {first} ELSE Onward(r[k - 1], after)
  BY <1>1, Zenon DEF IsReach
<1>4. 0 \in 0 .. n /\ \A k \in 1 .. n : k \in 0 .. n /\ k # 0
  OBVIOUS
<1> QED
  BY <1>2, <1>3, <1>4

(* What holds for a number and goes from each to the next holds up to b.   *)
LEMMA Climbing ==
  ASSUME NEW T, NEW a \in Nat, NEW b \in Nat, a \in T, \A m \in a .. (b - 1) : m \in T => m + 1 \in T
  PROVE  a .. b \subseteq T
<1> SUFFICES ASSUME (a .. b) \ T # {} PROVE FALSE
  OBVIOUS
<1>1. PICK x \in (a .. b) \ T : \A y \in (a .. b) \ T : x <= y
  <2>1. (a .. b) \ T \subseteq Nat
    OBVIOUS
  <2> QED
    BY <2>1, LeastNumber
<1>2. x # a /\ x \in a .. b
  BY <1>1
<1>3. x - 1 \in a .. (b - 1) /\ x - 1 \in a .. b /\ x - 1 + 1 = x /\ ~(x <= x - 1)
  BY <1>2
<1>4. x - 1 \in T
  BY <1>1, <1>3
<1>5. x \in T
  BY <1>3, <1>4
<1> QED
  BY <1>1, <1>5

(* What is reached lies in every set that holds the first and is closed.   *)
LEMMA ReachInto ==
  ASSUME NEW first, NEW after, NEW n \in Nat, NEW T, first \in T, \A at \in T : after[at] \subseteq T
  PROVE  Reached(first, after, n) \subseteq T
<1>1. PICK r : /\ Reached(first, after, n) = r[n]
               /\ r[0] = {first}
               /\ \A k \in 1 .. n : r[k] = Onward(r[k - 1], after)
  BY ReachFacts
<1> DEFINE S == {k \in 0 .. n : r[k] \subseteq T}
<1>2. 0 \in S
  BY <1>1
<1>3. ASSUME NEW k \in 0 .. (n - 1), k \in S PROVE k + 1 \in S
  <2>1. k + 1 \in 1 .. n /\ (k + 1) - 1 = k /\ k + 1 \in 0 .. n
    OBVIOUS
  <2>2. r[k + 1] = Onward(r[k], after)
    BY <1>1, <2>1
  <2>3. r[k] \subseteq T
    BY <1>3
  <2> QED
    BY <2>1, <2>2, <2>3 DEF Onward
<1>4. 0 .. n \subseteq S
  <2> HIDE DEF S
  <2> QED
    BY <1>2, <1>3, Climbing
<1> QED
  BY <1>1, <1>4

LEMMA StartsInto ==
  ASSUME dump \in Dumps, NEW s, s.offset \in Nat, s.size \in Nat,
         NEW T, T \subseteq s.offset .. (s.offset + s.size), s.offset \in T,
         \A at \in T : NoteFits(at, s.offset + s.size) => AfterNote(at) \in T
  PROVE  Starts(s) \subseteq T
<1>1. s.size \div 12 \in Nat
  <2>1. \A x \in Nat : x \div 12 \in Nat
    OBVIOUS
  <2> QED
    BY <2>1
<1> DEFINE n == s.size \div 12
           after == NoteAfter(s)
           first == s.offset
           limit == s.offset + s.size
<1>2. \A at \in T : after[at] \subseteq T
  <2>1. \A at \in first .. limit : after[at] = IF NoteFits(at, limit) THEN {AfterNote(at)} ELSE {}
    BY DEF NoteAfter
  <2>2. T \subseteq first .. limit /\ \A at \in T : NoteFits(at, limit) => AfterNote(at) \in T
    OBVIOUS
  <2> HIDE DEF after, first, limit
  <2> QED
    BY <2>1, <2>2
<1>3. Starts(s) = Reached(first, after, n) /\ first \in T /\ n \in Nat
  BY <1>1 DEF Starts
<1> HIDE DEF n, after, first, limit
<1>4. Reached(first, after, n) \subseteq T
  BY <1>2, <1>3, ReachInto, Zenon
<1> QED
  BY <1>3, <1>4

(* Notes of 12 bytes and more: as many steps as there may be notes reach   *)
(* them all.                                                               *)
LEMMA StartsFacts ==
  ASSUME dump \in Dumps, NEW s, s.offset \in Nat, s.size \in Nat
  PROVE  /\ Starts(s) \subseteq s.offset .. (s.offset + s.size)
         /\ s.offset \in Starts(s)
         /\ \A at \in Starts(s) : NoteFits(at, s.offset + s.size) => AfterNote(at) \in Starts(s)
<1> DEFINE first == s.offset
           limit == s.offset + s.size
           n == s.size \div 12
           after == NoteAfter(s)
<1>1. n \in Nat /\ first \in Nat /\ limit \in Nat /\ first <= limit
  <2>1. \A x \in Nat : x \div 12 \in Nat
    OBVIOUS
  <2> QED
    BY <2>1
<1>2. \A at \in first .. limit : after[at] = IF NoteFits(at, limit) THEN {AfterNote(at)} ELSE {}
  BY DEF NoteAfter
<1>3. \A m \in Nat : first + 12 * m + 12 <= limit => m + 1 \in 1 .. n
  <2>1. \A x, m \in Nat : 12 * m + 12 <= x => m + 1 <= x \div 12
    OBVIOUS
  <2> QED
    BY <2>1
<1>0. Starts(s) = Reached(first, after, n)
  BY DEF Starts
<1>15. limit = s.offset + s.size /\ first = s.offset
  OBVIOUS
<1> HIDE DEF first, limit, n, after
<1>4. PICK r : /\ Starts(s) = r[n]
               /\ r[0] = {first}
               /\ \A k \in 1 .. n : r[k] = Onward(r[k - 1], after)
  BY <1>0, <1>1, ReachFacts
<1>5. \A k \in 0 .. (n - 1) : k + 1 \in 1 .. n /\ (k + 1) - 1 = k
  BY <1>1
<1>6. \A k \in 0 .. (n - 1) : r[k + 1] = Onward(r[k], after)
  BY <1>4, <1>5
<1>7. ASSUME NEW m \in 0 .. n PROVE r[m] \subseteq r[n]
  <2> DEFINE S == {k \in m .. n : r[m] \subseteq r[k]}
  <2>1. m \in S /\ m \in Nat
    BY <1>1
  <2>2. ASSUME NEW k \in m .. (n - 1), k \in S PROVE k + 1 \in S
    <3>1. k \in 0 .. (n - 1) /\ k + 1 \in m .. n
      BY <1>1
    <3> QED
      BY <1>6, <2>2, <3>1 DEF Onward
  <2>3. m .. n \subseteq S
    <3> HIDE DEF S
    <3> QED
      BY <1>1, <2>1, <2>2, Climbing
  <2>4. n \in m .. n
    BY <1>1
  <2> QED
    BY <2>3, <2>4
<1> DEFINE Far(at, m) == at \in r[m] /\ at \in first .. limit /\ first + 12 * m <= at
           S == {k \in 0 .. n : \A at \in r[k] : \E m \in 0 .. k : Far(at, m)}
<1>8. 0 \in S
  <2>1. Far(first, 0) /\ 0 \in 0 .. n /\ 0 \in 0 .. 0
    BY <1>1, <1>4
  <2> QED
    BY <1>4, <2>1
<1>9. ASSUME NEW k \in 0 .. (n - 1), k \in S PROVE k + 1 \in S
  <2>1. k + 1 \in 0 .. n /\ k \in 0 .. n /\ \A m \in 0 .. k : m \in 0 .. (k + 1) /\ m + 1 \in 0 .. (k + 1)
    BY <1>1
  <2> SUFFICES ASSUME NEW at \in r[k + 1] PROVE \E m \in 0 .. (k + 1) : Far(at, m)
    BY <2>1
  <2>2. at \in r[k] \/ \E b \in r[k] : at \in after[b]
    BY <1>6 DEF Onward
  <2>3. CASE at \in r[k]
    <3>1. \E m \in 0 .. k : Far(at, m)
      BY <1>9, <2>3
    <3> HIDE DEF Far
    <3> QED
      BY <2>1, <3>1
  <2>4. CASE \E b \in r[k] : at \in after[b]
    <3>1. PICK b \in r[k] : at \in after[b]
      BY <2>4
    <3>2. PICK m \in 0 .. k : Far(b, m)
      BY <1>9
    <3>3. b \in first .. limit /\ b \in Nat
      BY <1>1, <3>2
    <3>4. NoteFits(b, limit) /\ at = AfterNote(b)
      <4>1. after[b] = IF NoteFits(b, limit) THEN {AfterNote(b)} ELSE {}
        BY <1>2, <3>3
      <4> QED
        BY <3>1, <4>1
    <3>5. at <= limit /\ b + 12 <= at /\ at \in Nat
      BY <1>1, <3>3, <3>4, NoteFacts
    <3>6. m \in Nat /\ m \in 0 .. (n - 1)
      BY <1>1
    <3>7. at \in first .. limit /\ first + 12 * (m + 1) <= at
      BY <1>1, <3>2, <3>3, <3>5, <3>6
    <3>8. at \in r[m + 1]
      BY <1>6, <3>1, <3>2, <3>6 DEF Onward
    <3> QED
      BY <2>1, <3>7, <3>8
  <2> QED
    BY <2>2, <2>3, <2>4
<1>10. 0 .. n \subseteq S
  <2> HIDE DEF S
  <2> QED
    BY <1>1, <1>8, <1>9, Climbing
<1>11. \A at \in r[n] : \E m \in 0 .. n : Far(at, m)
  <2>1. n \in 0 .. n
    BY <1>1
  <2> HIDE DEF Far
  <2> QED
    BY <1>10, <2>1
<1>12. ASSUME NEW at \in Starts(s), NoteFits(at, limit) PROVE AfterNote(at) \in Starts(s)
  <2>1. PICK m \in 0 .. n : Far(at, m)
    BY <1>4, <1>11
  <2>2. m \in Nat /\ at \in first .. limit /\ at \in Nat
    BY <1>1, <2>1
  <2>3. at + 12 <= limit
    BY <1>1, <1>12, <2>2, NoteFacts
  <2>4. first + 12 * m + 12 <= limit
    BY <1>1, <2>1, <2>2, <2>3
  <2>5. m + 1 \in 1 .. n /\ m \in 0 .. (n - 1) /\ m + 1 \in 0 .. n
    BY <1>1, <1>3, <2>2, <2>4
  <2>6. after[at] = {AfterNote(at)}
    BY <1>2, <1>12, <2>2
  <2>7. AfterNote(at) \in r[m + 1]
    BY <1>6, <2>1, <2>5, <2>6 DEF Onward
  <2> QED
    BY <1>4, <1>7, <2>5, <2>7
<1>13. Starts(s) \subseteq first .. limit
  BY <1>4, <1>11
<1>14. first \in Starts(s)
  <2>1. 0 \in 0 .. n
    BY <1>1
  <2> QED
    BY <1>4, <1>7, <2>1
<1> QED
  BY <1>12, <1>13, <1>14, <1>15

(* No note begins between one and the next. *)
LEMMA Between ==
  ASSUME dump \in Dumps, NEW s, s.offset \in Nat, s.size \in Nat, NEW c \in Starts(s),
         \A at \in Starts(s) : at < c /\ NoteFits(at, s.offset + s.size) => AfterNote(at) <= c
  PROVE  \A b \in Starts(s) : b <= c \/ (NoteFits(c, s.offset + s.size) /\ AfterNote(c) <= b)
<1> DEFINE limit == s.offset + s.size
           T == {b \in Starts(s) : b <= c \/ (NoteFits(c, limit) /\ AfterNote(c) <= b)}
<1>1. /\ Starts(s) \subseteq s.offset .. limit
      /\ s.offset \in Starts(s)
      /\ \A at \in Starts(s) : NoteFits(at, limit) => AfterNote(at) \in Starts(s)
  BY StartsFacts
<1>2. s.offset \in T
  BY <1>1
<1>3. \A b \in Starts(s) : b \in Nat /\ b <= limit
  BY <1>1
<1>4. ASSUME NEW b \in T, NoteFits(b, limit) PROVE AfterNote(b) \in T
  <2>1. b + 12 <= AfterNote(b) /\ AfterNote(b) \in Nat /\ b \in Nat /\ AfterNote(b) \in Starts(s) /\ c \in Nat
    <3>1. limit \in Nat
      OBVIOUS
    <3> QED
      BY <1>1, <1>3, <1>4, <3>1, NoteFacts
  <2>2. CASE b < c
    BY <1>4, <2>1, <2>2
  <2>3. CASE b = c
    BY <1>4, <2>1, <2>3
  <2>4. CASE b > c
    <3>1. NoteFits(c, limit) /\ AfterNote(c) <= b
      BY <1>4, <2>1, <2>4
    <3>2. AfterNote(c) \in Nat
      <4>1. limit \in Nat /\ c \in Nat
        BY <2>1
      <4> QED
        BY <3>1, <4>1, NoteFacts
    <3>3. AfterNote(c) <= AfterNote(b)
      BY <2>1, <3>1, <3>2
    <3> QED
      BY <2>1, <3>1, <3>3
  <2> QED
    BY <2>1, <2>2, <2>3, <2>4
<1>5. T \subseteq s.offset .. limit
  BY <1>1
<1>6. Starts(s) \subseteq T
  <2> HIDE DEF T
  <2> QED
    BY <1>2, <1>4, <1>5, StartsInto
<1> QED
  BY <1>6

LEMMA SameNotes ==
  ASSUME dump' = dump
  PROVE  /\ \A at : NoteAt(at)' = NoteAt(at) /\ AfterNote(at)' = AfterNote(at)
         /\ \A at, l : NoteFits(at, l)' <=> NoteFits(at, l)
         /\ \A s : Starts(s)' = Starts(s)
         /\ \A s : NotesOf(s)' = NotesOf(s)
         /\ ThreadNotes' = ThreadNotes
<1>1. \A at : NoteAt(at)' = NoteAt(at)
  BY SameFile DEF NoteAt
<1>2. \A at : AfterNote(at)' = AfterNote(at)
  BY <1>1 DEF AfterNote
<1>3. \A at, l : NoteFits(at, l)' <=> NoteFits(at, l)
  BY <1>1 DEF NoteFits
<1>4. \A s : NoteAfter(s)' = NoteAfter(s)
  BY <1>2, <1>3 DEF NoteAfter
<1>5. \A s : Starts(s)' = Starts(s)
  BY <1>4 DEF Starts
<1>6. \A s : NotesOf(s)' = NotesOf(s)
  BY <1>3, <1>5 DEF NotesOf, Starts
<1>7. \A k : \A s : s = SegmentAt(k) => NotesOf(SegmentAt(k))' = NotesOf(s)
  BY <1>6, SameFile
<1>8. NoteSegments' = NoteSegments
  BY SameFile
<1>9. ThreadNotes' = ThreadNotes
  BY <1>1, <1>7, <1>8 DEF ThreadNotes
<1> QED
  BY <1>1, <1>2, <1>3, <1>5, <1>6, <1>9

(* The thread notes are finitely many. *)
LEMMA ThreadNotesFacts ==
  ASSUME dump \in Dumps
  PROVE  /\ IsFiniteSet(ThreadNotes)
         /\ \A w \in ThreadNotes :
              /\ w[1] \in NoteSegments /\ w[2] \in NotesOf(SegmentAt(w[1])) /\ w[2] \in Nat
              /\ w = <<w[1], w[2]>>
         /\ \A k, at : <<k, at>> \in ThreadNotes
                         <=> k \in NoteSegments /\ at \in NotesOf(SegmentAt(k)) /\ NoteAt(at).type = PRSTATUS
<1>1. ASSUME NEW k \in NoteSegments
      PROVE  k \in 0 .. (HeaderCount - 1) /\ NotesOf(SegmentAt(k)) \subseteq 0 .. dump.size
  <2> DEFINE s == SegmentAt(k)
  <2>1. s.offset \in Nat /\ s.size \in Nat /\ HasNotes(s) /\ k \in 0 .. (HeaderCount - 1)
    BY SegmentFacts DEF NoteSegments
  <2>2. NotesOf(s) \subseteq s.offset .. (s.offset + s.size)
    BY <2>1, StartsFacts DEF NotesOf, Starts
  <2>3. s.offset <= dump.size /\ s.size <= dump.size - s.offset /\ dump.size \in Nat
    BY <2>1, DumpFacts DEF HasNotes, RangeValid
  <2> HIDE DEF s
  <2>4. s.offset .. (s.offset + s.size) \subseteq 0 .. dump.size
    BY <2>1, <2>3
  <2>5. NotesOf(s) \subseteq 0 .. dump.size
    BY <2>2, <2>4
  <2> QED
    BY <2>1, <2>5 DEF s
<1>2. \A w : w \in ThreadNotes
               <=> \E k \in NoteSegments : \E at \in NotesOf(SegmentAt(k)) : NoteAt(at).type = PRSTATUS /\ w = <<k, at>>
  BY DEF ThreadNotes
<1>3. ThreadNotes \subseteq (0 .. (HeaderCount - 1)) \X (0 .. dump.size)
  BY <1>1, <1>2
<1>4. IsFiniteSet((0 .. (HeaderCount - 1)) \X (0 .. dump.size))
  <2>1. HeaderCount - 1 \in Int /\ dump.size \in Int /\ 0 \in Int
    BY SegmentFacts, DumpFacts
  <2>2. IsFiniteSet(0 .. (HeaderCount - 1)) /\ IsFiniteSet(0 .. dump.size)
    BY <2>1, FS_Interval
  <2> QED
    BY <2>2, FS_Product
<1>5. IsFiniteSet(ThreadNotes)
  BY <1>3, <1>4, FS_Subset
<1>6. \A k, at : <<k, at>> \in ThreadNotes
                   <=> k \in NoteSegments /\ at \in NotesOf(SegmentAt(k)) /\ NoteAt(at).type = PRSTATUS
  BY <1>2
<1>7. ASSUME NEW w \in ThreadNotes
      PROVE  /\ w[1] \in NoteSegments /\ w[2] \in NotesOf(SegmentAt(w[1])) /\ w[2] \in Nat
             /\ w = <<w[1], w[2]>>
  <2>1. PICK k \in NoteSegments : \E at \in NotesOf(SegmentAt(k)) : w = <<k, at>>
    BY <1>2
  <2>2. PICK at \in NotesOf(SegmentAt(k)) : w = <<k, at>>
    BY <2>1
  <2>3. at \in Nat
    <3>1. at \in 0 .. dump.size
      BY <1>1
    <3> QED
      BY <3>1, DumpFacts
  <2> QED
    BY <2>2, <2>3
<1> QED
  BY <1>5, <1>6, <1>7

LEMMA NotesKeep ==
  ASSUME TypeOK, ControlOK, NotesOK, [Next]_vars
  PROVE  NotesOK'
<1>0. dump' = dump /\ dump \in Dumps /\ segment' = SegmentAt(entry')
  BY DumpStays, SameFile DEF TypeOK
<1>1. ASSUME pc' = "notes", entry' = entry,
             cursor' \in Starts(segment),
             \A at \in Starts(segment) : at < cursor' /\ NoteFits(at, end') => AfterNote(at) <= cursor'
      PROVE  NotesOK'
  <2>1. segment' = segment
    BY <1>0, <1>1 DEF segment
  <2>2. \A s : s = segment' => Starts(segment)' = Starts(s)
    BY <1>0, SameNotes
  <2>3. \A at, l : l = end' => (NoteFits(at, end)' <=> NoteFits(at, l))
    BY <1>0, SameNotes
  <2>4. \A at : AfterNote(at)' = AfterNote(at)
    BY <1>0, SameNotes
  <2> QED
    BY <1>1, <2>1, <2>2, <2>3, <2>4 DEF NotesOK
<1>2. CASE BeginNotes
  <2>1. /\ pc' = "notes" /\ entry' = entry /\ cursor' = segment.offset
        /\ segment.offset \in Nat /\ segment.size \in Nat
    BY <1>0, <1>2, SegmentFacts DEF BeginNotes, segment
  <2>2. segment.offset \in Starts(segment) /\ \A at \in Starts(segment) : ~(at < segment.offset)
    <3>1. \A at \in segment.offset .. (segment.offset + segment.size) : ~(at < segment.offset)
      BY <2>1
    <3> QED
      BY <1>0, <2>1, <3>1, StartsFacts
  <2> QED
    BY <1>1, <2>1, <2>2
<1>3. CASE ReadNote
  <2>1. /\ pc = "notes" /\ pc' = "notes" /\ entry' = entry /\ end' = end
        /\ NoteFits(cursor, end) /\ cursor' = AfterNote(cursor)
        /\ end = segment.offset + segment.size
        /\ segment.offset \in Nat /\ segment.size \in Nat
        /\ cursor \in Nat /\ end \in Nat
    BY <1>0, <1>3, SegmentFacts DEF ReadNote, segment, ControlOK, TypeOK
  <2>2. /\ cursor \in Starts(segment)
        /\ \A at \in Starts(segment) : at < cursor /\ NoteFits(at, end) => AfterNote(at) <= cursor
    BY <2>1 DEF NotesOK
  <2>3. /\ AfterNote(cursor) \in Starts(segment)
        /\ \A at \in Starts(segment) : at \in Nat
    BY <1>0, <2>1, <2>2, StartsFacts
  <2>4. cursor + 12 <= AfterNote(cursor) /\ AfterNote(cursor) \in Nat
    BY <1>0, <2>1, NoteFacts
  <2>5. \A at \in Starts(segment) : at <= cursor \/ AfterNote(cursor) <= at
    BY <1>0, <2>1, <2>2, Between
  <2>6. ASSUME NEW at \in Starts(segment), at < AfterNote(cursor), NoteFits(at, end)
        PROVE  AfterNote(at) <= AfterNote(cursor)
    <3>1. at < cursor \/ at = cursor
      BY <2>1, <2>3, <2>4, <2>5, <2>6
    <3>2. CASE at < cursor
      <4>1. AfterNote(at) <= cursor /\ AfterNote(at) \in Nat
        BY <1>0, <2>1, <2>2, <2>3, <2>6, <3>2, NoteFacts
      <4> QED
        BY <2>1, <2>4, <4>1
    <3>3. CASE at = cursor
      BY <2>4, <3>3
    <3> QED
      BY <3>1, <3>2, <3>3
  <2> QED
    BY <1>1, <2>1, <2>3, <2>6
<1>4. CASE UNCHANGED vars
  <2>1. pc' = pc /\ entry' = entry /\ cursor' = cursor /\ end' = end
    BY <1>4 DEF vars
  <2>2. CASE pc = "notes"
    BY <1>1, <2>1, <2>2 DEF NotesOK
  <2> QED
    BY <2>1, <2>2 DEF NotesOK
<1>5. CASE ~(BeginNotes \/ ReadNote \/ UNCHANGED vars)
  <2>1. pc' # "notes"
    BY <1>5 DEF Next, Return, Unsupported, RejectMinidump, BeginMinidump, SkipStream, BeginList, ReadRecord,
       EndList, ReadException, ReadSystemInfo, EndMinidump, RejectCore, BeginCore, SkipSegment,
       EndNotes, EndCore, AtStream, AtSegment
  <2> QED
    BY <2>1 DEF NotesOK
<1> QED
  BY <1>2, <1>3, <1>4, <1>5

(* The thread notes passed grow by a note of a thread, and by nothing else. *)
LEMMA PassedFacts ==
  ASSUME TypeOK, ControlOK, NotesOK
  PROVE  /\ IsFiniteSet(Passed(entry, 0)) /\ IsFiniteSet(Passed(entry, cursor))
         /\ Cardinality(Passed(0, 0)) = 0
         /\ Passed(HeaderCount, 0) = ThreadNotes
         /\ entry \notin NoteSegments => Passed(entry + 1, 0) = Passed(entry, 0)
         /\ HasNotes(segment) => Passed(entry, segment.offset) = Passed(entry, 0)
         /\ pc = "notes" =>
              /\ ~NoteFits(cursor, end) => Passed(entry + 1, 0) = Passed(entry, cursor)
              /\ NoteFits(cursor, end) =>
                   /\ <<entry, cursor>> \notin Passed(entry, cursor)
                   /\ Passed(entry, AfterNote(cursor)) =
                        Passed(entry, cursor) \cup IF NoteAt(cursor).type = PRSTATUS THEN {<<entry, cursor>>} ELSE {}
<1>0. dump \in Dumps /\ entry \in Nat /\ cursor \in Nat
  BY DEF TypeOK
<1>1. /\ IsFiniteSet(ThreadNotes)
      /\ \A w \in ThreadNotes :
           /\ w[1] \in NoteSegments /\ w[2] \in NotesOf(SegmentAt(w[1])) /\ w[2] \in Nat
           /\ w = <<w[1], w[2]>>
      /\ \A k, at : <<k, at>> \in ThreadNotes
                      <=> k \in NoteSegments /\ at \in NotesOf(SegmentAt(k)) /\ NoteAt(at).type = PRSTATUS
  BY <1>0, ThreadNotesFacts
<1>2. HeaderCount \in Nat /\ \A k \in NoteSegments : k \in Nat /\ k < HeaderCount
  BY <1>0, SegmentFacts DEF NoteSegments
<1>3. \A k, at : \A w : w \in Passed(k, at) <=> w \in ThreadNotes /\ (w[1] < k \/ (w[1] = k /\ w[2] < at))
  BY DEF Passed
<1>4. ASSUME NEW k, NEW at PROVE IsFiniteSet(Passed(k, at))
  BY <1>1, FS_Subset DEF Passed
<1>5. Cardinality(Passed(0, 0)) = 0
  <2>1. Passed(0, 0) = {}
    BY <1>1, <1>2, <1>3
  <2> QED
    BY <2>1, FS_EmptySet
<1>6. Passed(HeaderCount, 0) = ThreadNotes
  <2>1. \A w \in ThreadNotes : w[1] < HeaderCount
    BY <1>1, <1>2
  <2> QED
    BY <2>1 DEF Passed
<1>7. ASSUME entry \notin NoteSegments PROVE Passed(entry + 1, 0) = Passed(entry, 0)
  <2>1. \A k \in NoteSegments, b \in Nat : k < entry + 1 \/ (k = entry + 1 /\ b < 0) <=> k < entry \/ (k = entry /\ b < 0)
    BY <1>0, <1>2, <1>7
  <2>2. \A w \in ThreadNotes :
          w[1] < entry + 1 \/ (w[1] = entry + 1 /\ w[2] < 0) <=> w[1] < entry \/ (w[1] = entry /\ w[2] < 0)
    BY <1>1, <2>1
  <2> QED
    BY <2>2 DEF Passed
<1>8. ASSUME HasNotes(segment) PROVE Passed(entry, segment.offset) = Passed(entry, 0)
  <2>1. segment.offset \in Nat /\ segment.size \in Nat /\ segment = SegmentAt(entry)
    BY <1>0, SegmentFacts DEF segment
  <2>2. \A b \in NotesOf(segment) : b \in Starts(segment)
    BY DEF NotesOf, Starts
  <2>3. \A b \in NotesOf(segment) : ~(b < segment.offset)
    <3>1. \A b \in segment.offset .. (segment.offset + segment.size) : ~(b < segment.offset)
      BY <2>1
    <3> QED
      BY <1>0, <2>1, <2>2, <3>1, StartsFacts
  <2>4. ASSUME NEW w \in ThreadNotes, w[1] = entry PROVE ~(w[2] < segment.offset) /\ ~(w[2] < 0)
    BY <1>1, <2>1, <2>3, <2>4
  <2>5. \A w \in ThreadNotes :
          w[1] < entry \/ (w[1] = entry /\ w[2] < segment.offset) <=> w[1] < entry \/ (w[1] = entry /\ w[2] < 0)
    BY <2>4
  <2> QED
    BY <2>5 DEF Passed
<1>9. ASSUME pc = "notes"
      PROVE  /\ ~NoteFits(cursor, end) => Passed(entry + 1, 0) = Passed(entry, cursor)
             /\ NoteFits(cursor, end) =>
                  /\ <<entry, cursor>> \notin Passed(entry, cursor)
                  /\ Passed(entry, AfterNote(cursor)) =
                       Passed(entry, cursor) \cup IF NoteAt(cursor).type = PRSTATUS THEN {<<entry, cursor>>} ELSE {}
  <2>1. /\ end = segment.offset + segment.size
        /\ segment.offset \in Nat /\ segment.size \in Nat /\ end \in Nat
        /\ segment = SegmentAt(entry) /\ entry \in NoteSegments
    BY <1>0, <1>9, SegmentFacts DEF segment, ControlOK, TypeOK, NoteSegments
  <2>2. /\ cursor \in Starts(segment)
        /\ \A at \in Starts(segment) : at < cursor /\ NoteFits(at, end) => AfterNote(at) <= cursor
    BY <1>9 DEF NotesOK
  <2>3. \A b \in Starts(segment) : b <= cursor \/ (NoteFits(cursor, end) /\ AfterNote(cursor) <= b)
    BY <1>0, <2>1, <2>2, Between
  <2>4. \A b : b \in NotesOf(segment) <=> b \in Starts(segment) /\ NoteFits(b, end)
    BY <2>1 DEF NotesOf, Starts
  <2>5. ASSUME ~NoteFits(cursor, end) PROVE Passed(entry + 1, 0) = Passed(entry, cursor)
    <3>1. ASSUME NEW w \in ThreadNotes, w[1] = entry PROVE w[2] < cursor
      <4>1. w[2] <= cursor /\ w[2] # cursor /\ w[2] \in Nat
        BY <1>1, <2>1, <2>3, <2>4, <2>5, <3>1
      <4> QED
        BY <1>0, <4>1
    <3>2. \A k \in NoteSegments, b \in Nat : k < entry + 1 \/ (k = entry + 1 /\ b < 0) <=> k < entry \/ k = entry
      BY <1>0, <1>2
    <3>3. \A w \in ThreadNotes :
            w[1] < entry + 1 \/ (w[1] = entry + 1 /\ w[2] < 0) <=> w[1] < entry \/ (w[1] = entry /\ w[2] < cursor)
      BY <1>1, <3>1, <3>2
    <3> QED
      BY <3>3 DEF Passed
  <2>6. ASSUME NoteFits(cursor, end)
        PROVE  Passed(entry, AfterNote(cursor)) =
                 Passed(entry, cursor) \cup IF NoteAt(cursor).type = PRSTATUS THEN {<<entry, cursor>>} ELSE {}
    <3>1. cursor + 12 <= AfterNote(cursor) /\ AfterNote(cursor) \in Nat
      BY <1>0, <2>1, <2>6, NoteFacts
    <3>2. ASSUME NEW w \in ThreadNotes, w[1] = entry
          PROVE  w[2] < AfterNote(cursor) <=> w[2] < cursor \/ w[2] = cursor
      <4>1. w[2] \in Nat /\ (w[2] <= cursor \/ AfterNote(cursor) <= w[2])
        BY <1>1, <2>1, <2>3, <2>4, <3>2
      <4> QED
        BY <1>0, <3>1, <4>1
    <3>3. \A w : w \in Passed(entry, AfterNote(cursor))
                   <=> w \in Passed(entry, cursor) \/ (w \in ThreadNotes /\ w[1] = entry /\ w[2] = cursor)
      BY <1>3, <3>2
    <3>4. \A w : w \in ThreadNotes /\ w[1] = entry /\ w[2] = cursor
                   <=> w = <<entry, cursor>> /\ <<entry, cursor>> \in ThreadNotes
      BY <1>1
    <3>5. <<entry, cursor>> \in ThreadNotes <=> NoteAt(cursor).type = PRSTATUS
      BY <1>1, <2>1, <2>2, <2>4, <2>6
    <3> QED
      BY <3>3, <3>4, <3>5
  <2>7. <<entry, cursor>> \notin Passed(entry, cursor)
    <3>1. ~(entry < entry) /\ ~(cursor < cursor)
      BY <1>0
    <3> QED
      BY <1>3, <3>1
  <2> QED
    BY <2>5, <2>6, <2>7
<1> QED
  BY <1>4, <1>5, <1>6, <1>7, <1>8, <1>9

LEMMA ThreadsKeep ==
  ASSUME TypeOK, ControlOK, NotesOK, ThreadsOK, [Next]_vars
  PROVE  ThreadsOK'
<1> DEFINE Count(k, at) == Cardinality(Passed(k, at))
<1>0. /\ dump' = dump /\ dump \in Dumps /\ (Core' <=> Core)
      /\ entry \in Nat /\ cursor \in Nat /\ report.threadCount \in Nat
  BY DumpStays, SameFile DEF TypeOK, Report
<1>1. ASSUME /\ pc' = "segments" => report'.threadCount = Count(entry', 0)
             /\ pc' = "notes" => report'.threadCount = Count(entry', cursor')
             /\ pc' = "done" /\ Core => report'.threadCount = Cardinality(ThreadNotes)
      PROVE  ThreadsOK'
  <2>1. ThreadNotes' = ThreadNotes
    BY <1>0, SameNotes
  <2>2. Passed(entry, 0)' = Passed(entry', 0) /\ Passed(entry, cursor)' = Passed(entry', cursor')
    BY <2>1 DEF Passed
  <2> QED
    BY <1>0, <1>1, <2>1, <2>2 DEF ThreadsOK
<1>2. /\ pc = "segments" => report.threadCount = Count(entry, 0)
      /\ pc = "notes" => report.threadCount = Count(entry, cursor)
      /\ pc = "done" /\ Core => report.threadCount = Cardinality(ThreadNotes)
  BY DEF ThreadsOK
<1>3. ~(Minidump /\ Core)
  BY DEF Minidump, Core
<1> HIDE DEF Count
<1>4. CASE UNCHANGED vars
  BY <1>1, <1>2, <1>4 DEF vars
<1>5. CASE Unsupported \/ RejectMinidump \/ RejectCore \/ EndMinidump
  <2>1. pc' = "done" /\ ~Core
    BY <1>3, <1>5 DEF Unsupported, RejectMinidump, RejectCore, EndMinidump, Return, Core, ControlOK
  <2> QED
    BY <1>1, <2>1
<1>6. CASE BeginMinidump \/ SkipStream \/ ReadException \/ ReadSystemInfo \/ BeginList \/ ReadRecord \/ EndList
  <2>1. pc' \in {"streams", "records"}
    BY <1>6 DEF BeginMinidump, SkipStream, ReadException, ReadSystemInfo, BeginList, ReadRecord, EndList, AtStream
  <2> QED
    BY <1>1, <2>1
<1>7. CASE BeginCore
  <2>1. pc' = "segments" /\ entry' = 0 /\ report'.threadCount = 0
    BY <1>7 DEF BeginCore, ControlOK, EmptyReport
  <2> QED
    BY <1>1, <2>1, PassedFacts DEF Count
<1>8. CASE SkipSegment
  <2>1. /\ pc = "segments" /\ pc' = "segments" /\ entry' = entry + 1 /\ report' = report
        /\ ~HasNotes(SegmentAt(entry))
    BY <1>8 DEF SkipSegment, AtSegment, segment
  <2>2. entry \notin NoteSegments
    BY <2>1 DEF NoteSegments
  <2> QED
    BY <1>1, <1>2, <2>1, <2>2, PassedFacts DEF Count
<1>9. CASE BeginNotes
  <2>1. /\ pc = "segments" /\ pc' = "notes" /\ entry' = entry /\ cursor' = segment.offset /\ report' = report
        /\ HasNotes(segment)
    BY <1>9 DEF BeginNotes, AtSegment
  <2> QED
    BY <1>1, <1>2, <2>1, PassedFacts DEF Count
<1>10. CASE ReadNote
  <2>1. /\ pc = "notes" /\ pc' = "notes" /\ entry' = entry
        /\ NoteFits(cursor, end) /\ cursor' = AfterNote(cursor)
    BY <1>10 DEF ReadNote
  <2>2. report'.threadCount = IF NoteAt(cursor).type = PRSTATUS THEN report.threadCount + 1 ELSE report.threadCount
    BY <1>10 DEF ReadNote, TypeOK, Report
  <2>3. /\ <<entry, cursor>> \notin Passed(entry, cursor)
        /\ IsFiniteSet(Passed(entry, cursor))
        /\ Passed(entry, AfterNote(cursor)) =
             Passed(entry, cursor) \cup IF NoteAt(cursor).type = PRSTATUS THEN {<<entry, cursor>>} ELSE {}
    BY <2>1, PassedFacts
  <2>4. Count(entry, AfterNote(cursor)) =
          IF NoteAt(cursor).type = PRSTATUS THEN Count(entry, cursor) + 1 ELSE Count(entry, cursor)
    BY <2>3, FS_AddElement DEF Count
  <2> QED
    BY <1>1, <1>2, <2>1, <2>2, <2>4
<1>11. CASE EndNotes
  <2>1. /\ pc = "notes" /\ pc' = "segments" /\ entry' = entry + 1 /\ report' = report
        /\ ~NoteFits(cursor, end)
    BY <1>11 DEF EndNotes
  <2> QED
    BY <1>1, <1>2, <2>1, PassedFacts DEF Count
<1>12. CASE EndCore
  <2>1. pc = "segments" /\ pc' = "done" /\ entry = HeaderCount /\ report' = report
    BY <1>12 DEF EndCore, Return
  <2> QED
    BY <1>1, <1>2, <2>1, PassedFacts DEF Count
<1> QED
  BY <1>4, <1>5, <1>6, <1>7, <1>8, <1>9, <1>10, <1>11, <1>12 DEF Next

(***************************************************************************)
(*                              THEOREMS                                   *)
(***************************************************************************)
LEMMA Invariance == Spec => []IInv
<1>1. Init => IInv
  BY InitInv
<1>2. IInv /\ [Next]_vars => IInv'
  BY TypeKeeps, ControlKeeps, InHandKeeps, RecordsKeep, ListsKeep, SawKeeps, NotesKeep, ThreadsKeep DEF IInv
<1> QED
  BY <1>1, <1>2, PTL DEF Spec

(* The loops of analyze_crash_dump() keep their types, the report included. *)
THEOREM TypeCorrect == Spec => []TypeOK
<1>1. IInv => TypeOK
  BY DEF IInv
<1> QED
  BY <1>1, Invariance, PTL

(* Whatever the file, analyze_crash_dump() reports only what is wholly in  *)
(* it: no record, name or exception reaches past its end, no list is       *)
(* longer than the limit.                                                  *)
THEOREM ReportCorrect == Spec => []ReportIsFromTheFile
<1>1. IInv => ReportIsFromTheFile
  <2> SUFFICES ASSUME IInv PROVE ReportIsFromTheFile
    OBVIOUS
  <2>1. dump \in Dumps
    BY DEF IInv, TypeOK
  <2>2. pc = "notes" => cursor <= end /\ end <= dump.size
    <3> SUFFICES ASSUME pc = "notes" PROVE cursor <= end /\ end <= dump.size
      OBVIOUS
    <3>1. cursor <= end /\ end = segment.offset + segment.size /\ HasNotes(segment)
      BY DEF IInv, ControlOK
    <3>2. segment.offset \in Nat /\ segment.size \in Nat /\ dump.size \in Nat
      BY <2>1, SegmentFacts, DumpFacts DEF segment
    <3> QED
      BY <3>1, <3>2 DEF HasNotes, RangeValid
  <2> QED
    BY <2>2 DEF IInv, RecordsOK, InFile, ReportIsFromTheFile
<1> QED
  BY <1>1, Invariance, PTL

(* When parse_minidump() is done, the lists of threads and modules are     *)
(* those of the last usable stream of each type, whole but for the limit   *)
(* and the end of the file, and their counts are their lengths.            *)
THEOREM ListsCorrect == Spec => []ListsAreOfTheLastStreams
<1>1. IInv => ListsAreOfTheLastStreams
  <2> SUFFICES ASSUME IInv, pc = "done", Minidump, NEW type \in ListTypes
               PROVE  LET list == report[ListField[type]]
                      IN  /\ report[CountField[type]] = Len(list)
                          /\ StreamsOf(type) = {} => list = <<>>
                          /\ \A k \in LastStream(type) :
                               LET s == StreamAt(k)
                               IN  /\ Len(list) = ListLength(s)
                                   /\ \A n \in DOMAIN list : list[n].at = s.rva + 4 + (n - 1) * RecordSize[type]
    BY DEF ListsAreOfTheLastStreams, Minidump
  <2>1. entry = StreamCount /\ dump \in Dumps
    BY DEF IInv, ControlOK, TypeOK
  <2>2. Before(type, entry) = StreamsOf(type)
    BY <2>1, StreamFacts DEF Before, StreamsOf
  <2>3. IsListOf(type, report[ListField[type]], report[CountField[type]], StreamsOf(type))
    BY <2>2 DEF IInv, ListsOK
  <2> QED
    BY <2>3 DEF IsListOf, LastStream
<1> QED
  BY <1>1, Invariance, PTL

(* analyze_crash_dump() accepts a file if and only if it holds a usable    *)
(* stream of a known type, or a segment whose first note is whole.         *)
THEOREM VerdictCorrect == Spec => []VerdictIsJustified
<1>1. IInv => VerdictIsJustified
  <2> SUFFICES ASSUME IInv, pc = "done"
               PROVE  verdict = "Ok" <=>
                        \/ Minidump /\ \E type \in DOMAIN LeastSize : StreamsOf(type) # {}
                        \/ Core /\ \E k \in NoteSegments : FirstNoteFits(SegmentAt(k))
    BY DEF VerdictIsJustified, Minidump, Core
  <2>1. /\ verdict = "Ok" <=> (saw /\ (Minidump \/ Core))
        /\ Minidump => entry = StreamCount
        /\ Core => entry = HeaderCount
    BY DEF IInv, ControlOK
  <2>2. ASSUME Minidump
        PROVE  saw <=> \E type \in DOMAIN LeastSize : StreamsOf(type) # {}
    <3>1. \A type : Before(type, entry) = StreamsOf(type)
      BY <2>1, <2>2, StreamFacts DEF Before, StreamsOf, IInv, TypeOK
    <3> QED
      BY <2>2, <3>1 DEF IInv, SawOK
  <2>3. ASSUME Core
        PROVE  saw <=> \E k \in NoteSegments : FirstNoteFits(SegmentAt(k))
    <3>1. \A k \in NoteSegments : k < entry
      BY <2>1, <2>3, SegmentFacts DEF NoteSegments, IInv, TypeOK
    <3> QED
      BY <2>3, <3>1 DEF IInv, SawOK
  <2>4. ~(Minidump /\ Core)
    BY DEF Minidump, Core
  <2> QED
    BY <2>1, <2>2, <2>3, <2>4
<1> QED
  BY <1>1, Invariance, PTL

(* The threads of a core dump are its thread notes, each counted once:     *)
(* those of every segment of notes, up to the first that is cut short.     *)
THEOREM ThreadsCorrect == Spec => []ThreadsAreCounted
<1>1. IInv => ThreadsAreCounted
  <2>1. ASSUME IsELF PROVE ~IsMinidump
    BY <2>1 DEF IsELF, IsMinidump
  <2> QED
    BY <2>1 DEF IInv, ThreadsOK, ThreadsAreCounted, Core
<1> QED
  BY <1>1, Invariance, PTL

=============================================================================
