----------------------------- MODULE MCCrashDump -----------------------------
(***************************************************************************)
(* Minidumps with every directory of up to three streams from a pool of    *)
(* ten, and core dumps with every sequence of up to three notes from a     *)
(* pool of six, in one or two segments, cut off at several places.         *)
(***************************************************************************)
EXTENDS CrashDump, TLC

(* Two modules at 84 and 192 and two threads at 84 and 132, by the count   *)
(* at 80; more than the limit and more than the file has from 300 on; the  *)
(* first name is in the file, the second is not.  The list at 88 is empty. *)
MinidumpWords ==
  (80 :> 2) @@ (300 :> 5) @@ (104 :> 480) @@ (212 :> 500) @@ (480 :> 10) @@ (500 :> 20)
    @@ (72 :> 9) @@ (76 :> 33)

s(type, size, rva) == [type |-> type, size |-> size, rva |-> rva]

Streams ==
  {s(4, 220, 80), s(4, 4, 300), s(3, 100, 80), s(3, 3, 300), s(3, 4, 300),
   s(4, 4, 88), s(6, 168, 320), s(6, 100, 320), s(7, 2, 72), s(7, 2, 76)}

DirectoryWords(list, at) ==
  [o \in {at + 4 * n : n \in 0 .. (3 * Len(list) - 1)} |->
     LET k == (o - at) \div 12 + 1
     IN  CASE (o - at) % 12 = 0 -> list[k].type
           [] (o - at) % 12 = 4 -> list[k].size
           [] OTHER             -> list[k].rva]

minidump(list, count, at, size) ==
  [magic |-> "MDMP", size |-> size, class |-> 0, order |-> 0,
   words |-> (8 :> count) @@ (12 :> at) @@ DirectoryWords(list, at) @@ MinidumpWords]

MCMinidumps ==
  {minidump(list, Len(list), 32, 520) : list \in UNION {[1 .. n -> Streams] : n \in 0 .. 3}}
    \cup {minidump(<<st>>, count, at, size) :
            st \in Streams, count \in {1, 4}, at \in {32, 20}, size \in {3, 31, 40, 90, 300, 460}}

note(name, desc, type) == [name |-> name, desc |-> desc, type |-> type]

Notes ==
  {note(0, 0, PRSTATUS), note(5, 3, PRSTATUS), note(4, 4, SIGINFO), note(0, 2, SIGINFO),
   note(0, Longest + 1, PRSTATUS), note(3, 0, 7)}

NoteWords(list, at) ==
  LET length(n) == IF n.desc > Longest THEN 12 ELSE 12 + Padded(n.name) + Padded(n.desc)
      start[k \in 1 .. Len(list)] == IF k = 1 THEN at ELSE start[k - 1] + length(list[k - 1])
      words[k \in 0 .. Len(list)] ==
        IF k = 0 THEN <<>>
        ELSE (start[k] :> list[k].name) @@ (start[k] + 4 :> list[k].desc)
               @@ (start[k] + 8 :> list[k].type)
               @@ (start[k] + 12 + Padded(list[k].name) :> 11) @@ words[k - 1]
  IN  words[Len(list)]

SegmentWords(class, at, seg) ==
  (at :> seg.type)
    @@ (IF class = 2 THEN (at + 8 :> seg.offset) @@ (at + 32 :> seg.size)
        ELSE (at + 4 :> seg.offset) @@ (at + 16 :> seg.size))

seg(type, offset, size) == [type |-> type, offset |-> offset, size |-> size]

core(class, order, type, count, headerSize, first, second, list) ==
  [magic |-> "ELF", size |-> 260, class |-> class, order |-> order,
   words |-> (16 :> type) @@ (18 :> 62)
     @@ (IF class = 2 THEN (32 :> 64) @@ (54 :> headerSize) @@ (56 :> count)
         ELSE (28 :> 64) @@ (42 :> headerSize) @@ (44 :> count))
     @@ SegmentWords(class, 64, first) @@ SegmentWords(class, 64 + headerSize, second)
     @@ NoteWords(list, 200)]

MCCores ==
  {core(class, 1, 4, count, 56, seg(4, 200, size), second, list) :
     class \in {1, 2}, count \in {1, 2}, size \in {11, 24, 40, 60},
     second \in {seg(4, 200, 36), seg(1, 200, 24), seg(4, 250, 12)},
     list \in UNION {[1 .. n -> Notes] : n \in 0 .. 3}}
  \cup
  {core(class, order, type, count, headerSize, seg(4, 200, 24), seg(4, 212, 12), <<note(0, 0, PRSTATUS)>>) :
     class \in {0, 1, 2}, order \in {0, 2}, type \in {2, 4}, count \in {0, 2, 3, 4},
     headerSize \in {32, 56, 80}}

other == [magic |-> "other", size |-> 100, class |-> 0, order |-> 0, words |-> <<>>]

MCDumps ==
  MCMinidumps \cup MCCores \cup {other, [other EXCEPT !.magic = "ELF", !.class = 2, !.size = 19]}
=============================================================================
