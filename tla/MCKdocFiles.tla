---------------------------- MODULE MCKdocFiles -----------------------------
(* A header and a source file; directives with and without export files.    *)
EXTENDS KdocFiles

L(id) == TextLine(id, 0, FALSE)
Opens(id) == TextLine(id, 0, TRUE)
In(id) == TextLine(id, 2, FALSE)
Deep(id) == TextLine(id, 4, TRUE)

\* Literal blocks after a blank line, with a blank line and an opening line
\* inside, two in a row, at the end, one inside an indented paragraph.
Blocks == <<L("a"), Opens("b"), BlankLine, In("c"), BlankLine, Deep("d"), In("e"),
            BlankLine, Opens("f"), In("g"), L("h")>>
Nested == <<BlankLine, In("i"), TextLine("j", 2, TRUE), BlankLine, TextLine("k", 4, FALSE),
            In("l"), Opens("m"), In("n"), BlankLine>>

Foo == Item("function", "function", "foo", 1, <<L("p")>>,
            <<Parameter("x", FALSE, TRUE, Nested), Parameter("y", FALSE, FALSE, <<>>)>>,
            <<Section("Return", <<L("r")>>)>>)
Bar == Item("struct", "", "bar", 0, <<L("q")>>,
            <<Parameter("m", FALSE, TRUE, <<L("s")>>), Parameter("n", FALSE, FALSE, <<>>)>>,
            <<Section("Description", Blocks)>>)
Intro == Item("doc", "", "intro", 0, <<>>, <<>>, <<Section("intro", Blocks)>>)
Color == Item("enum", "", "color", 0, <<L("t")>>,
              <<Parameter("RED", FALSE, TRUE, <<L("u")>>), Parameter("BLUE", FALSE, FALSE, <<>>)>>,
              <<Section("Note", <<L("v")>>)>>)
Count == Item("var", "initialised", "count", 0, <<L("w")>>, <<>>, <<>>)
Handle == Item("typedef", "", "handle", 0, <<L("x")>>, <<>>, <<Section("Note", <<L("y")>>)>>)
Loop == Item("function", "macro", "loop", 0, <<>>, <<>>, <<>>)
Callback == Item("function", "typedef", "callback", 0, <<L("z")>>, <<>>, <<>>)
Hook == Item("function", "function", "hook", 1, <<L("p")>>,
             <<Parameter("f", TRUE, FALSE, <<>>)>>, <<>>)   \* int hook(int (*)(void))

MCContents ==
  [f \in {"x.h", "y.c"} |->
     IF f = "x.h"
       THEN {Source(<<Intro, Foo, Bar>>, {"foo"}),
             Source(<<Color, Count, Handle, Loop>>, {"count"}),
             Source(<<Count, Hook>>, {}), Crashing, Absent}
       ELSE {Source(<<Loop, Callback>>, {"loop"}), Absent, Unreadable}]

MCDirectives ==
  {Directive("x.h", mode, {}, {}, {}) : mode \in {"all", "export", "internal", "identifiers"}}
  \cup {Directive("x.h", "identifiers", {}, {"foo", "intro"}, {}),
        Directive("x.h", "all", {}, {}, {"foo"}),
        Directive("x.h", "internal", {"y.c"}, {}, {}),
        Directive("y.c", "all", {}, {}, {})}
=============================================================================
