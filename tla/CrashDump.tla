------------------------------ MODULE CrashDump ------------------------------
(***************************************************************************)
(* analyze_crash_dump() of src/src/analysis/crash.cpp: the stream          *)
(* directory of a Windows minidump, and the notes of an ELF core dump.     *)
(*                                                                         *)
(* A dump is its magic number, its size, the ELF class and byte order, and *)
(* `words': the numbers stored at the offsets that matter, in the width    *)
(* with which they are read; everything else is zero.  A record that the   *)
(* code copies into its report is represented by the offset it is copied   *)
(* from.                                                                   *)
(***************************************************************************)
EXTENDS Integers, Sequences, FiniteSets

CONSTANTS
  Dumps,       \* the files to analyze
  MaxEntries   \* 4096: the most streams, program headers or list entries

ASSUME DumpAssumption ==
  /\ MaxEntries \in Nat
  /\ \A d \in Dumps :
       /\ d.magic \in {"MDMP", "ELF", "other"} /\ d.size \in Nat
       /\ d.class \in 0 .. 3 /\ d.order \in 0 .. 3
       /\ \A o \in DOMAIN d.words : o \in Nat /\ d.words[o] \in Nat

VARIABLES
  dump,      \* the file, which is only read
  pc,        \* where the analysis is
  entry,     \* the stream or program header it has reached, from 0
  cursor,    \* where it reads inside of that one
  left,      \* list entries still to read
  end,       \* where the notes end
  report,    \* the CrashReport
  saw,       \* saw_stream, saw_note
  verdict    \* "none" until it returns

vars == <<dump, pc, entry, cursor, left, end, report, saw, verdict>>

RangeValid(offset, length) == offset <= dump.size /\ length <= dump.size - offset

(* read_u16(), read_u32() and read_u64(): zero outside the file. *)
Read(offset, width) ==
  IF RangeValid(offset, width) /\ offset \in DOMAIN dump.words THEN dump.words[offset] ELSE 0

U16(offset) == Read(offset, 2)
U32(offset) == Read(offset, 4)
U64(offset) == Read(offset, 8)

EmptyReport ==
  [architecture |-> "Unknown", modules |-> <<>>, threads |-> <<>>,
   moduleCount |-> 0, threadCount |-> 0, exception |-> {}, signal |-> 0]

Init ==
  /\ dump \in Dumps
  /\ pc = "start"
  /\ entry = 0 /\ cursor = 0 /\ left = 0 /\ end = 0
  /\ report = EmptyReport
  /\ saw = FALSE /\ verdict = "none"

Return(result) ==
  /\ pc' = "done" /\ verdict' = result
  /\ UNCHANGED <<dump, entry, cursor, left, end, report, saw>>

IsMinidump == dump.magic = "MDMP" /\ dump.size >= 4
IsELF == dump.magic = "ELF" /\ dump.size >= 20 /\ dump.class \in {1, 2}

Unsupported ==
  /\ pc = "start"
  /\ ~IsMinidump /\ ~IsELF
  /\ Return("UnsupportedFormat")

(***************************************************************************)
(* parse_minidump()                                                        *)
(***************************************************************************)
StreamCount == U32(8)

DirectoryIsValid ==
  /\ dump.size >= 32
  /\ StreamCount <= MaxEntries
  /\ RangeValid(U32(12), StreamCount * 12)

StreamAt(k) ==
  LET at == U32(12) + k * 12
  IN  [type |-> U32(at), size |-> U32(at + 4), rva |-> U32(at + 8)]

ListTypes == {3, 4}    \* threads and modules

ListField == [type \in ListTypes |-> IF type = 4 THEN "modules" ELSE "threads"]
CountField == [type \in ListTypes |-> IF type = 4 THEN "moduleCount" ELSE "threadCount"]
RecordSize == [type \in ListTypes |-> IF type = 4 THEN 108 ELSE 48]
LeastSize ==
  [type \in ListTypes \cup {6, 7} |-> IF type = 6 THEN 168 ELSE IF type = 7 THEN 2 ELSE 4]

Usable(s) ==
  /\ RangeValid(s.rva, s.size)
  /\ s.type \in DOMAIN LeastSize /\ s.size >= LeastSize[s.type]

stream == StreamAt(entry)
AtStream == pc = "streams" /\ entry < StreamCount

RejectMinidump ==
  /\ pc = "start" /\ IsMinidump
  /\ ~DirectoryIsValid
  /\ Return("InvalidBinary")

BeginMinidump ==
  /\ pc = "start" /\ IsMinidump
  /\ DirectoryIsValid
  /\ pc' = "streams"
  /\ UNCHANGED <<dump, entry, cursor, left, end, report, saw, verdict>>

SkipStream ==
  /\ AtStream
  /\ ~Usable(stream)
  /\ entry' = entry + 1
  /\ UNCHANGED <<dump, pc, cursor, left, end, report, saw, verdict>>

Smaller(a, b) == IF a <= b THEN a ELSE b

(* Mutant: a second list is added to the first. *)
BeginList_Appends ==
  /\ AtStream
  /\ Usable(stream) /\ stream.type \in ListTypes
  /\ left' = Smaller(U32(stream.rva), MaxEntries)
  /\ cursor' = stream.rva + 4
  /\ pc' = "records"
  /\ UNCHANGED <<dump, entry, end, report, saw, verdict>>

(* A list replaces the one of an earlier stream of its type. *)
BeginList ==
  /\ AtStream
  /\ Usable(stream) /\ stream.type \in ListTypes
  /\ left' = Smaller(U32(stream.rva), MaxEntries)
  /\ cursor' = stream.rva + 4
  /\ report' = [report EXCEPT ![ListField[stream.type]] = <<>>]
  /\ pc' = "records"
  /\ UNCHANGED <<dump, entry, end, saw, verdict>>

(* minidump_string(): where the name is, if all of it is in the file. *)
NameAt(rva) ==
  {name \in {[at |-> rva + 4, length |-> 2 * U32(rva)]} :
     RangeValid(rva, 4) /\ RangeValid(name.at, name.length)}

RecordAt(type, at) ==
  [at |-> at, name |-> IF type = 4 THEN NameAt(U32(at + 20)) ELSE {}]

(* Mutant: only the count ends the list. *)
MoreRecords_Counted == left > 0

(* The end of the file ends the list, the end of its stream does not. *)
MoreRecords == left > 0 /\ RangeValid(cursor, RecordSize[stream.type])

ReadRecord ==
  /\ pc = "records"
  /\ MoreRecords
  /\ report' = [report EXCEPT ![ListField[stream.type]] = Append(@, RecordAt(stream.type, cursor))]
  /\ cursor' = cursor + RecordSize[stream.type]
  /\ left' = left - 1
  /\ UNCHANGED <<dump, pc, entry, end, saw, verdict>>

(* Mutant: a list without entries does not count. *)
EndList_Unseen ==
  /\ pc = "records"
  /\ ~MoreRecords
  /\ report' = [report EXCEPT ![CountField[stream.type]] = Len(report[ListField[stream.type]])]
  /\ saw' = (saw \/ report[ListField[stream.type]] # <<>>)
  /\ entry' = entry + 1
  /\ pc' = "streams"
  /\ UNCHANGED <<dump, cursor, left, end, verdict>>

EndList ==
  /\ pc = "records"
  /\ ~MoreRecords
  /\ report' = [report EXCEPT ![CountField[stream.type]] = Len(report[ListField[stream.type]])]
  /\ saw' = TRUE
  /\ entry' = entry + 1
  /\ pc' = "streams"
  /\ UNCHANGED <<dump, cursor, left, end, verdict>>

MinidumpArchitecture(code) ==
  CASE code = 0 -> "X86" [] code = 9 -> "X86_64" [] code = 5 -> "ARM" [] code = 12 -> "ARM64"
    [] OTHER -> "Unknown"

ReadException ==
  /\ AtStream
  /\ Usable(stream) /\ stream.type = 6
  /\ report' = [report EXCEPT !.exception = {stream.rva}]
  /\ saw' = TRUE
  /\ entry' = entry + 1
  /\ UNCHANGED <<dump, pc, cursor, left, end, verdict>>

ReadSystemInfo ==
  /\ AtStream
  /\ Usable(stream) /\ stream.type = 7
  /\ report' = [report EXCEPT !.architecture = MinidumpArchitecture(U16(stream.rva))]
  /\ saw' = TRUE
  /\ entry' = entry + 1
  /\ UNCHANGED <<dump, pc, cursor, left, end, verdict>>

EndMinidump ==
  /\ pc = "streams" /\ entry = StreamCount
  /\ Return(IF saw THEN "Ok" ELSE "InvalidBinary")

(***************************************************************************)
(* parse_elf_core()                                                        *)
(***************************************************************************)
Is64 == dump.class = 2
ProgramHeaders == IF Is64 THEN U64(32) ELSE U32(28)
HeaderSize == IF Is64 THEN U16(54) ELSE U16(42)
HeaderCount == IF Is64 THEN U16(56) ELSE U16(44)

IsCore ==
  /\ dump.order \in {1, 2}
  /\ U16(16) = 4
  /\ HeaderCount <= MaxEntries
  /\ HeaderSize >= IF Is64 THEN 56 ELSE 32
  /\ RangeValid(ProgramHeaders, HeaderSize * HeaderCount)

SegmentAt(k) ==
  LET at == ProgramHeaders + k * HeaderSize
  IN  [type |-> U32(at),
       offset |-> IF Is64 THEN U64(at + 8) ELSE U32(at + 4),
       size |-> IF Is64 THEN U64(at + 32) ELSE U32(at + 16)]

HasNotes(s) == s.type = 4 /\ s.size >= 12 /\ RangeValid(s.offset, s.size)

ELFArchitecture(code) ==
  CASE code = 3 -> "X86" [] code = 62 -> "X86_64" [] code = 40 -> "ARM" [] code = 183 -> "ARM64"
    [] code = 243 -> "RISCV64" [] OTHER -> "Unknown"

segment == SegmentAt(entry)
AtSegment == pc = "segments" /\ entry < HeaderCount

RejectCore ==
  /\ pc = "start" /\ ~IsMinidump /\ IsELF
  /\ ~IsCore
  /\ Return("InvalidBinary")

BeginCore ==
  /\ pc = "start" /\ ~IsMinidump /\ IsELF
  /\ IsCore
  /\ report' = [report EXCEPT !.architecture = ELFArchitecture(U16(18))]
  /\ pc' = "segments"
  /\ UNCHANGED <<dump, entry, cursor, left, end, saw, verdict>>

SkipSegment ==
  /\ AtSegment
  /\ ~HasNotes(segment)
  /\ entry' = entry + 1
  /\ UNCHANGED <<dump, pc, cursor, left, end, report, saw, verdict>>

(* Mutant: the cursor stays where the last segment ended. *)
BeginNotes_NoReset ==
  /\ AtSegment
  /\ HasNotes(segment)
  /\ end' = segment.offset + segment.size
  /\ pc' = "notes"
  /\ UNCHANGED <<dump, entry, cursor, left, report, saw, verdict>>

BeginNotes ==
  /\ AtSegment
  /\ HasNotes(segment)
  /\ cursor' = segment.offset
  /\ end' = segment.offset + segment.size
  /\ pc' = "notes"
  /\ UNCHANGED <<dump, entry, left, report, saw, verdict>>

NoteAt(at) == [nameSize |-> U32(at), descSize |-> U32(at + 4), type |-> U32(at + 8)]

(* Names and descriptors begin at multiples of four. *)
Padded(n) == ((n + 3) \div 4) * 4

Longest == 268435456   \* 0x10000000

(* A note that is cut short ends the segment's notes. *)
NoteFits(at, limit) ==
  LET n == NoteAt(at)
  IN  /\ limit - at >= 12
      /\ n.nameSize <= Longest /\ n.descSize <= Longest
      /\ Padded(n.nameSize) + Padded(n.descSize) <= limit - at - 12

AfterNote(at) == at + 12 + Padded(NoteAt(at).nameSize) + Padded(NoteAt(at).descSize)

PRSTATUS == 1
SIGINFO == 1397311305   \* 0x53494749

ReadNote ==
  /\ pc = "notes"
  /\ NoteFits(cursor, end)
  /\ LET n == NoteAt(cursor)
     IN  report' = [report EXCEPT
           !.threadCount = IF n.type = PRSTATUS THEN @ + 1 ELSE @,
           !.signal = IF n.type = SIGINFO /\ n.descSize >= 4
                        THEN U32(cursor + 12 + Padded(n.nameSize)) ELSE @]
  /\ saw' = TRUE
  /\ cursor' = AfterNote(cursor)
  /\ UNCHANGED <<dump, pc, entry, left, end, verdict>>

EndNotes ==
  /\ pc = "notes"
  /\ ~NoteFits(cursor, end)
  /\ entry' = entry + 1
  /\ pc' = "segments"
  /\ UNCHANGED <<dump, cursor, left, end, report, saw, verdict>>

EndCore ==
  /\ pc = "segments" /\ entry = HeaderCount
  /\ Return(IF saw THEN "Ok" ELSE "InvalidBinary")

Next ==
  \/ Unsupported
  \/ RejectMinidump \/ BeginMinidump \/ SkipStream
  \/ BeginList \/ ReadRecord \/ EndList
  \/ ReadException \/ ReadSystemInfo \/ EndMinidump
  \/ RejectCore \/ BeginCore \/ SkipSegment
  \/ BeginNotes \/ ReadNote \/ EndNotes \/ EndCore

Spec == Init /\ [][Next]_vars

(***************************************************************************)
(*                              PROPERTIES                                 *)
(***************************************************************************)
Record == [at : Nat, name : SUBSET [at : Nat, length : Nat]]

Report ==
  [architecture : {"Unknown", "X86", "X86_64", "ARM", "ARM64", "RISCV64"},
   modules : Seq(Record), threads : Seq(Record), moduleCount : Nat, threadCount : Nat,
   exception : SUBSET Nat, signal : Nat]

TypeOK ==
  /\ dump \in Dumps
  /\ pc \in {"start", "streams", "records", "segments", "notes", "done"}
  /\ entry \in Nat /\ cursor \in Nat /\ left \in Nat /\ end \in Nat
  /\ report \in Report
  /\ saw \in BOOLEAN
  /\ verdict \in {"none", "Ok", "InvalidBinary", "UnsupportedFormat"}

(* Nothing is ever in the report that is not wholly in the file: records,  *)
(* names, the exception; no list is longer than the limit; the notes being *)
(* read lie in their segment.                                              *)
ReportIsFromTheFile ==
  /\ \A type \in ListTypes :
       LET list == report[ListField[type]]
       IN  /\ Len(list) <= MaxEntries
           /\ \A k \in DOMAIN list :
                /\ RangeValid(list[k].at, RecordSize[type])
                /\ \A name \in list[k].name : RangeValid(name.at, name.length)
  /\ \A at \in report.exception : RangeValid(at, 168)
  /\ pc = "notes" => cursor <= end /\ end <= dump.size

(* Reference: the stream of a type that counts is the last usable one, and *)
(* its list is as long as it says unless the limit or the file ends it.    *)
StreamsOf(type) == {k \in 0 .. (StreamCount - 1) : Usable(StreamAt(k)) /\ StreamAt(k).type = type}

LastStream(type) == {k \in StreamsOf(type) : \A j \in StreamsOf(type) : j <= k}

ListLength(s) ==
  Smaller(Smaller(U32(s.rva), MaxEntries), (dump.size - s.rva - 4) \div RecordSize[s.type])

(* Each list is that of the last stream of its type, and its count is its  *)
(* length, whatever the order of the streams and whatever is between them. *)
ListsAreOfTheLastStreams ==
  pc = "done" /\ IsMinidump /\ DirectoryIsValid =>
    \A type \in ListTypes :
      LET list == report[ListField[type]]
      IN  /\ report[CountField[type]] = Len(list)
          /\ StreamsOf(type) = {} => list = <<>>
          /\ \A k \in LastStream(type) :
               LET s == StreamAt(k)
               IN  /\ Len(list) = ListLength(s)
                   /\ \A n \in DOMAIN list : list[n].at = s.rva + 4 + (n - 1) * RecordSize[type]

(* Reference: where the notes of a segment begin.                          *)
NoteAfter(s) ==
  LET limit == s.offset + s.size
  IN  [at \in s.offset .. limit |-> IF NoteFits(at, limit) THEN {AfterNote(at)} ELSE {}]

Reached(first, after, steps) ==
  LET reached[n \in 0 .. steps] ==
        IF n = 0 THEN {first} ELSE reached[n - 1] \cup UNION {after[at] : at \in reached[n - 1]}
  IN  reached[steps]

NotesOf(s) ==
  {at \in Reached(s.offset, NoteAfter(s), s.size \div 12) : NoteFits(at, s.offset + s.size)}

NoteSegments == {k \in 0 .. (HeaderCount - 1) : HasNotes(SegmentAt(k))}

ThreadNotes ==
  UNION {{<<k, at>> : at \in {a \in NotesOf(SegmentAt(k)) : NoteAt(a).type = PRSTATUS}} : k \in NoteSegments}

(* A thread is counted for every thread note of every segment of notes, up *)
(* to the first note of the segment that is cut short.                     *)
ThreadsAreCounted ==
  pc = "done" /\ IsELF /\ IsCore => report.threadCount = Cardinality(ThreadNotes)

FirstNoteFits(s) == NoteFits(s.offset, s.offset + s.size)

(* A dump is accepted if and only if something in it could be read: a      *)
(* stream of a known type, or the first note of some segment.              *)
VerdictIsJustified ==
  pc = "done" =>
    (verdict = "Ok" <=>
       \/ IsMinidump /\ DirectoryIsValid /\ \E type \in DOMAIN LeastSize : StreamsOf(type) # {}
       \/ ~IsMinidump /\ IsELF /\ IsCore /\ \E k \in NoteSegments : FirstNoteFits(SegmentAt(k)))
=============================================================================
