---------------------------- MODULE MCKernelDoc -----------------------------
(* Files about one symbol foo with one parameter or member a.               *)
EXTENDS KernelDoc

Foo == <<"foo">>
IntA == <<Name("int"), Name("a")>>

MCLaterLines ==
  {SectLine(Param(<<"a">>)), SectLine(Section("Return")), Closing(SectLine(Param(<<"a">>))),
   Prose, Indented, Blank, Stray, Bare, Tight, EndLine}

MCFirstLines ==
  {DeclLine(type, Foo, TRUE) : type \in {"function", "struct", "enum", "typedef", "var"}}
  \cup {DeclLine("struct", <<>>, FALSE), Closing(DeclLine("function", Foo, TRUE)), DocLine}
  \cup {Statement} \cup (MCLaterLines \ {Indented})

MCMemberLines ==
  {CodeLine(Append(IntA, Semicolon)), CodeLine(<<End("}"), Semicolon>>),
   InlineLine(<<"a">>), OpenLine}

MCCodeLines ==
  {CodeLine(<<Name("int"), Name("foo"), Begin("(")>> \o IntA \o <<End(")"), Semicolon>>),
   CodeLine(<<Name("int"), Op("*"), Name("foo"), Begin("("), Name("a"), End(")"), Begin("{")>>),
   CodeLine(<<Struct, Name("foo"), Begin("{")>>),
   CodeLine(Append(IntA, Semicolon)),
   CodeLine(<<Enum, Name("foo"), Begin("{"), Name("a"), End("}"), Semicolon>>),
   CodeLine(<<Typedef, Struct, Name("s"), Name("foo"), Semicolon>>),
   Continued(CodeLine(<<Cpp("define"), Name("foo"), Begin("("), Name("a"), End(")")>>)),
   ExportLine("foo"), InlineLine(<<"a">>), OpenLine}
=============================================================================
