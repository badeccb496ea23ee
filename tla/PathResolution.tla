--------------------------- MODULE PathResolution ---------------------------
(***************************************************************************)
(* How binx finds the file a dependency name stands for: resolve() and     *)
(* key_path() of src/src/analysis/dependencies.cpp.                        *)
(*                                                                         *)
(* A path is a sequence of components.  A name read from a binary is a     *)
(* record: `anchor' says how the text begins ("@loader_path/", "$ORIGIN/"  *)
(* and "$ORIGIN\" are all "loader", "@executable_path/" is "executable", a *)
(* leading root is "absolute"), `rest' is the path that follows.           *)
(***************************************************************************)
EXTENDS Integers, Sequences, SequencesExt

CONSTANTS
  File,        \* canonical paths at which a regular file may exist
  Alias,       \* function: a path that is a link (or holds "..") -> its file
  Links,       \* those of these paths that are symbolic links, without dots
  Name,        \* the dependency names that occur in binaries
  SearchPath   \* the directories given with --search-path, in order

Anchor == {"absolute", "loader", "executable", "relative"}

ASSUME PathAssumption ==
  /\ Alias \in [DOMAIN Alias -> File]
  /\ DOMAIN Alias \cap File = {} /\ Links \subseteq DOMAIN Alias
  /\ \A p \in File \cup DOMAIN Alias : Len(p) > 0
  /\ SearchPath \in Seq(Range(SearchPath))
  /\ \A n \in Name : n.anchor \in Anchor /\ Len(n.rest) > 0

(* What binx can see of a file: `unreadable' is a regular file that cannot *)
(* be opened; `needs' are the names its import or dynamic table lists.     *)
FileState == [status : {"absent", "unreadable", "readable"}, needs : Seq(Name)]

(***************************************************************************)
(* Paths                                                                   *)
(***************************************************************************)
Directory(path) == Front(path)

Base(path) == <<Last(path)>>

Path == File \cup DOMAIN Alias

(* The file that is read under a path, if it is there. *)
FileOf(path) == IF path \in DOMAIN Alias THEN Alias[path] ELSE path

IsRegularFile(disk, path) ==
  /\ FileOf(path) \in File
  /\ disk[FileOf(path)].status # "absent"

(* BinaryFile::open() and read_file() succeed. *)
CanOpen(disk, path) ==
  /\ FileOf(path) \in File
  /\ disk[FileOf(path)].status = "readable"

(* weakly_canonical(): dots are always removed, but a link is followed     *)
(* only while there is a file at its end.                                  *)
Dangles(disk, path) == path \in Links /\ ~IsRegularFile(disk, path)

Canonical(disk, path) == IF Dangles(disk, path) THEN path ELSE FileOf(path)

(***************************************************************************)
(* resolve(): the candidates in the order they are tried.  A name that is  *)
(* not anchored is looked up beside the file that needs it, then in the    *)
(* search path; one with a directory part is looked up again without it.   *)
(***************************************************************************)
Beside(parent, rest) ==
  LET directories == <<parent>> \o SearchPath
  IN  [i \in DOMAIN directories |-> directories[i] \o rest]

Candidates(parent, executableParent, name) ==
  CASE name.anchor = "absolute"   -> <<name.rest>>
    [] name.anchor = "loader"     -> <<parent \o name.rest>>
    [] name.anchor = "executable" -> <<executableParent \o name.rest>>
    [] name.anchor = "relative"   ->
         Beside(parent, name.rest)
           \o (IF Len(name.rest) > 1 THEN Beside(parent, Base(name.rest)) ELSE <<>>)

(* What a lookup returns on a disk that stays as it is: the first candidate *)
(* that is a regular file, by its canonical path, if there is one.         *)
ResolvesTo(disk, parent, executableParent, name) ==
  LET c    == Candidates(parent, executableParent, name)
      hits == {i \in DOMAIN c : IsRegularFile(disk, c[i])}
  IN  {Canonical(disk, c[i]) : i \in {h \in hits : \A k \in hits : h <= k}}
=============================================================================
