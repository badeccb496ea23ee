------------------------------ MODULE BinaryDiff ------------------------------
(***************************************************************************)
(* The command "diff": compare_binaries() of src/src/analysis/diff.cpp.    *)
(* `data' is the old file and request.other the new one; the sections are  *)
(* those a parser found in each.  The similarity is a quotient of numbers  *)
(* that are kept.  Offset and size of a section add up to less than 2^64.  *)
(***************************************************************************)
EXTENDS ByteAnalysis, FiniteSets

CONSTANT MaxHunks    \* 256

ASSUME HunksAssumption == MaxHunks \in Nat

VARIABLE changed     \* changed_bytes

NamedSection == [name : STRING, offset : Nat, size : Nat]

DiffRequest ==
  [task : {"diff"}, other : Seq(Byte), old : Seq(NamedSection), new : Seq(NamedSection)]

Common == Least(Size, Len(request.other))

Same(offset) == At(offset) = request.other[offset + 1]

SkipEqual ==
  /\ Doing("diff") /\ i < Common /\ Same(i)
  /\ i' = i + 1
  /\ UNCHANGED <<data, request, pass, start, found, result, outcome, changed>>

EndOfHunk(from) ==
  CHOOSE e \in from .. Common :
    (\A o \in from .. (e - 1) : ~Same(o)) /\ (e < Common => Same(e))

(* Mutant: bytes are only counted as long as hunks are kept. *)
TakeHunk_Uncounted ==
  /\ Doing("diff") /\ i < Common /\ ~Same(i)
  /\ i' = EndOfHunk(i)
  /\ changed' = IF Len(found) < MaxHunks THEN changed + (i' - i) ELSE changed
  /\ found' = IF Len(found) < MaxHunks THEN Append(found, [at |-> i, end |-> i']) ELSE found
  /\ UNCHANGED <<data, request, pass, start, result, outcome>>

TakeHunk ==
  /\ Doing("diff") /\ i < Common /\ ~Same(i)
  /\ i' = EndOfHunk(i)
  /\ changed' = changed + (i' - i)
  /\ found' = IF Len(found) < MaxHunks THEN Append(found, [at |-> i, end |-> i']) ELSE found
  /\ UNCHANGED <<data, request, pass, start, result, outcome>>

Excess(a, b) == IF a > b THEN a - b ELSE 0

Names(sections) == {sections[k].name : k \in DOMAIN sections}

(* Of sections with one name the first one counts. *)
Named(sections, name) ==
  sections[CHOOSE k \in DOMAIN sections :
             sections[k].name = name /\ \A j \in 1 .. (k - 1) : sections[j].name # name]

(* Bytes are compared only if both sections lie in their files. *)
ChangedIn(s, t) ==
  IF s.offset + s.size <= Size /\ t.offset + t.size <= Len(request.other)
    THEN Cardinality({j \in 0 .. (Least(s.size, t.size) - 1) :
                        At(s.offset + j) # request.other[t.offset + j + 1]})
    ELSE 0

SectionDiff(name) ==
  LET s == Named(request.old, name)
      t == Named(request.new, name)
  IN  IF name \notin Names(request.new)
        THEN [name |-> name, delta |-> -s.size, changed |-> 0, in |-> "old"]
      ELSE IF name \notin Names(request.old)
        THEN [name |-> name, delta |-> t.size, changed |-> 0, in |-> "new"]
      ELSE [name |-> name, delta |-> t.size - s.size, changed |-> ChangedIn(s, t), in |-> "both"]

EndDiff ==
  /\ Doing("diff") /\ i >= Common
  /\ Finish([hunks |-> found, changed |-> changed,
             added |-> Excess(Len(request.other), Common), removed |-> Excess(Size, Common),
             sections |-> {SectionDiff(n) : n \in Names(request.old) \cup Names(request.new)}])
  /\ UNCHANGED changed

DiffNext == SkipEqual \/ TakeHunk \/ EndDiff

(***************************************************************************)
(* Properties                                                              *)
(***************************************************************************)
Differing == {o \in 0 .. (Common - 1) : ~Same(o)}

BytesOf(hunks) == UNION {hunks[k].at .. (hunks[k].end - 1) : k \in DOMAIN hunks}

(* The hunks are the longest runs of differing bytes, from the first one   *)
(* on; all bytes are counted, those of hunks that are left out too.  The   *)
(* sizes add up, and sections and hunks agree: a section that neither file *)
(* has moved shows the bytes that differ in its range.                     *)
DiffIsExact ==
  LET hunks == result.hunks
  IN  /\ Sorted(hunks)
      /\ \A k \in DOMAIN hunks :
           /\ hunks[k].at < hunks[k].end
           /\ hunks[k].at - 1 \notin Differing /\ hunks[k].end \notin Differing
      /\ BytesOf(hunks) \subseteq Differing
      /\ \/ BytesOf(hunks) = Differing
         \/ Len(hunks) = MaxHunks /\ \A o \in Differing \ BytesOf(hunks), b \in BytesOf(hunks) : b < o
      /\ result.changed = Cardinality(Differing)
      /\ Size - result.removed = Len(request.other) - result.added
      /\ \A x \in result.sections :
           LET s == Named(request.old, x.name)
               t == Named(request.new, x.name)
           IN  x.in = "both" /\ s = t /\ s.offset + s.size <= Common =>
                 x.changed = Cardinality(Differing \cap (s.offset .. (s.offset + s.size - 1)))
      /\ Cardinality(result.sections) = Cardinality(Names(request.old) \cup Names(request.new))
=============================================================================
