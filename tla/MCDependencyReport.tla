------------------------- MODULE MCDependencyReport -------------------------
(***************************************************************************)
(* File systems for DependencyReport: a program and four libraries, each   *)
(* with a few versions, so that there are chains longer than MaxDepth,     *)
(* short and long ways to one file, circles, a library that needs itself,  *)
(* names that resolve to nothing and files that do not open.               *)
(***************************************************************************)
EXTENDS DependencyReport

app == <<"bin", "app">>
a   == <<"bin", "a">>
b   == <<"lib", "b">>
c   == <<"lib", "c">>
d   == <<"lib", "d">>

MCFile == {app, a, b, c, d}
MCAlias == (<<"bin", "b">> :> b) @@ (<<"lib", "..", "bin", "a">> :> a) @@ (<<"app">> :> app)
MCLinks == {<<"bin", "b">>, <<"app">>}
MCRoot == <<"app">>
MCSearchPath == << <<"lib">> >>

plain(anchor, file) == [anchor |-> anchor, rest |-> <<file>>]

nameA  == plain("executable", "a")
nameB  == plain("relative", "b")
nameC  == plain("relative", "c")
nameD  == plain("loader", "d")
nameUp == [anchor |-> "loader", rest |-> <<"..", "bin", "a">>]
nameSB == [anchor |-> "relative", rest |-> <<"sub", "b">>]
nameX  == [anchor |-> "absolute", rest |-> <<"opt", "x">>]

MCName == {nameA, nameB, nameC, nameD, nameUp, nameSB, nameX}

absent == [status |-> "absent", needs |-> <<>>]
unreadable == [status |-> "unreadable", needs |-> <<>>]
needing(names) == [status |-> "readable", needs |-> names]

MCVersions ==
  (app :> {needing(<<nameA, nameX, nameB, nameA>>), needing(<<nameC, nameA>>), needing(<<nameA>>)})
    @@ (a :> {needing(<<nameC, nameB>>), needing(<<nameA, nameSB>>), unreadable})
    @@ (b :> {needing(<<nameUp, nameB>>), needing(<<nameC>>), absent})
    @@ (c :> {needing(<<nameD>>), absent, unreadable})
    @@ (d :> {needing(<<nameSB, nameX>>), unreadable})
=============================================================================
