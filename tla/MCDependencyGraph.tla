-------------------------- MODULE MCDependencyGraph --------------------------
(***************************************************************************)
(* A small file system for DependencyGraph: a program in bin/ that needs   *)
(* libraries of bin/ and lib/, one of them through a link.                 *)
(***************************************************************************)
EXTENDS DependencyGraph

app == <<"bin", "app">>
a   == <<"bin", "a">>
b   == <<"lib", "b">>
c   == <<"lib", "c">>

MCFile == {app, a, b, c}

(* bin/b and lib/../bin/a are other names of lib/b and bin/a.              *)
MCAlias == (<<"bin", "b">> :> b) @@ (<<"lib", "..", "bin", "a">> :> a) @@ (<<"app">> :> app)

MCLinks == {<<"bin", "b">>, <<"app">>}
MCRoot == <<"app">>
MCSearchPath == << <<"lib">> >>

nameA  == [anchor |-> "executable", rest |-> <<"a">>]
nameUp == [anchor |-> "loader", rest |-> <<"..", "bin", "a">>]
nameB  == [anchor |-> "relative", rest |-> <<"b">>]
nameSB == [anchor |-> "relative", rest |-> <<"sub", "b">>]
nameC  == [anchor |-> "relative", rest |-> <<"c">>]
nameX  == [anchor |-> "absolute", rest |-> <<"opt", "x">>]

MCName == {nameA, nameUp, nameB, nameSB, nameC, nameX}

absent == [status |-> "absent", needs |-> <<>>]
unreadable == [status |-> "unreadable", needs |-> <<>>]
needing(names) == [status |-> "readable", needs |-> names]

(* Every file may be there or not; app is also rebuilt.                    *)
MCVersions ==
  (app :> {needing(<<nameA, nameX, nameB, nameA>>), needing(<<nameSB, nameB, nameC>>), absent})
    @@ (a :> {needing(<<nameC, nameB>>), unreadable})
    @@ (b :> {needing(<<nameUp, nameB>>), unreadable, absent})
    @@ (c :> {needing(<<nameSB>>), absent})
=============================================================================
