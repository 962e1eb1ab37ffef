------------------------------ MODULE KernelDoc ------------------------------
(***************************************************************************)
(* The line-by-line state machine of kdoc/kdoc_parser.py (class KernelDoc) *)
(* that extracts documentation comments from a C file.                     *)
(*                                                                         *)
(* The environment writes the file: in a C comment any of FirstLines, then *)
(* LaterLines, outside one any of CodeLines, or of MemberLines in a struct.*)
(* p is the parser object; out and logged are what the last line made it   *)
(* append to self.entries and to the log. The ghost doc follows the file   *)
(* as a C compiler and a reader would; of the parser it only uses whether  *)
(* it is ready for a comment.                                              *)
(***************************************************************************)
EXTENDS KdocDecl

CONSTANTS FirstLines, LaterLines,    \* the lines a comment may be made of
          MemberLines,               \* the lines between the braces of a declaration
          CodeLines,                 \* the other lines of a file
          MaxLines,                  \* bound on the length of the file
          MaxOdd,                    \* bound on its ill-formed comment lines
          WShortDesc                 \* config.wshort_desc

VARIABLES p,               \* the parser: state, entry, out, logged, crashed
          ln,              \* number of lines read
          prev, prev_ln,   \* a prototype line that continues ("\")
          exports,         \* export_table of parse_kdoc()
          ended,           \* the file has been read
          doc              \* ghost: the comment and declaration being read

vars == <<p, ln, prev, prev_ln, exports, ended, doc>>

-----------------------------------------------------------------------------
(* Lines. A line is what the regular expressions of the parser can tell of *)
(* it. Every line of a comment is written with words unless it is "blank". *)

Line(kind) == [kind |-> kind, type |-> "", name |-> <<>>, purpose |-> FALSE,
               closes |-> FALSE, cont |-> FALSE, toks |-> <<>>]

\* " * struct foo - purpose", " * foo() - purpose", " * foo - purpose */"
DeclLine(type, name, purpose) ==
  [Line("decl") EXCEPT !.type = type, !.name = name, !.purpose = purpose]
DocLine == [Line("doc") EXCEPT !.name = <<"Overview">>]      \* " * DOC: Overview"
\* " * @name: words" and " * Return: words"
SectLine(title) ==
  [Line("sect") EXCEPT !.type = IF title.param THEN "param" ELSE "plain",
                       !.name = title.name]
Closing(l)    == [l EXCEPT !.closes = TRUE]                 \* ends with "*/"
Prose         == Line("prose")       \* " * several words"
Indented      == Line("indented")    \* " *   several words"
Statement     == Line("statement")   \* " * several words;"
Blank         == Line("blank")       \* " *"
Stray         == Line("stray")       \* "several words *", in a comment
Bare          == Line("bare")        \* "several words", in a comment
Tight         == Closing(Line("tight"))                     \* " * word*/"
EndLine       == Closing(Line("end"))                       \* " */"
OpenLine      == Line("open")                               \* "/**"
\* "/** @name: words */"
InlineLine(name) ==
  Closing([Line("inline") EXCEPT !.type = "param", !.name = name])
CodeLine(toks) == [Line("code") EXCEPT !.toks = toks]
Continued(l)   == [l EXCEPT !.cont = TRUE]                  \* ends with "\"
ExportLine(name) ==                                         \* EXPORT_SYMBOL(name);
  [CodeLine(<<Name("EXPORT_SYMBOL"), Begin("("), Name(name), End(")"), Semicolon>>)
     EXCEPT !.kind = "export", !.name = <<name>>]

Cpp(what) == Tok("CPP", what)                               \* "#what"

\* Lines of a file. A comment names what the parser knows (doc_begin_data), and
\* only code is continued.
TokenLists == Seq([kind : STRING, value : Seq(STRING), level : Seq(Nat)])
AnyLine == [kind : STRING, type : STRING, name : Seq(STRING), purpose : BOOLEAN,
            closes : BOOLEAN, cont : BOOLEAN, toks : TokenLists]
Declarations == {"function", "struct", "union", "enum", "typedef", "var"}

ASSUME CommentLinesAssumption ==
  \A l \in FirstLines \cup LaterLines :
    /\ l \in AnyLine
    /\ l.kind \notin {"code", "export"}
    /\ l.kind = "decl" => l.type \in Declarations
    /\ l.kind = "end" => l.closes

ASSUME CodeLinesAssumption ==
  \A l \in MemberLines \cup CodeLines :
    /\ l \in AnyLine
    /\ l.kind \in {"code", "export", "inline", "open"}
    /\ l.kind \in {"code", "export"} => l.toks # <<>>
    /\ l.cont => l.kind \in {"code", "export"}

-----------------------------------------------------------------------------
(* The regular expressions, as predicates on lines.                        *)

IsCode(l) == l.kind \in {"code", "export"}
IsWord(t) == t.kind \in {"NAME", "STRUCT", "UNION", "ENUM", "TYPEDEF"}

doc_end(l) == l.closes
doc_sect(l) == l.kind \in {"sect", "inline"}
\* "* ?(.*)" is looked for anywhere in the line.
doc_content(l) ==
  l.kind # "bare" /\ (IsCode(l) => \E i \in DOMAIN l.toks : Is(l.toks[i], "*"))
Content(l, n) == IF l.kind \in {"blank", "stray"} THEN <<>> ELSE <<n>>

\* A "*" followed by a word, anywhere in the line.
StarWord(toks, i) == i < Len(toks) /\ Is(toks[i], "*") /\ IsWord(toks[i + 1])
doc_decl(l) ==
  \/ l.kind \in {"decl", "prose", "indented", "statement", "tight"}
  \/ l.kind = "sect" /\ l.type = "plain"
  \/ IsCode(l) /\ \E i \in DOMAIN l.toks : StarWord(l.toks, i)
doc_begin_data(l) ==
  \/ l.kind = "decl" /\ l.type # "function"
  \/ IsCode(l) /\ l.toks[1].kind \in {"STRUCT", "UNION", "ENUM", "TYPEDEF"}
\* A word with nothing after it but "(word)" or a purpose. Code that ends so
\* after a "*" is taken for one too; the words of prose are not.
FuncWord(toks, i) ==
  /\ StarWord(toks, i)
  /\ \/ i + 1 = Len(toks)
     \/ toks[i + 2].value \in {<<"-">>, <<":">>}
     \/ i + 4 = Len(toks) /\ Is(toks[i + 2], "(") /\ IsWord(toks[i + 3])
        /\ Is(toks[i + 4], ")")
doc_begin_func(l) ==
  \/ l.kind \in {"decl", "sect"}
  \/ IsCode(l) /\ \E i \in DOMAIN l.toks : FuncWord(l.toks, i)
DeclType(l) == CASE ~doc_begin_data(l) -> "function"
                 [] IsCode(l) -> l.toks[1].value[1]
                 [] OTHER -> l.type
DeclName(l) ==
  IF ~IsCode(l) THEN l.name
  ELSE IF doc_begin_data(l) THEN IF IsWord(l.toks[2]) THEN l.toks[2].value ELSE <<>>
  ELSE l.toks[1 + CHOOSE i \in DOMAIN l.toks : FuncWord(l.toks, i)].value
HasPurpose(l) ==
  CASE l.kind = "decl" -> l.purpose
    [] IsCode(l) -> \E i \in DOMAIN l.toks : l.toks[i].value \in {<<"-">>, <<":">>}
    [] OTHER -> TRUE

\* The name a section line gives to its section.
Title(l) == [param |-> l.type = "param", name |-> l.name]
Special == {<<"Context">>, <<"Return">>}

-----------------------------------------------------------------------------
(* The methods of KernelDoc: from the parser to the parser.                *)

Warn(q, n, what) == [q EXCEPT !.entry = emit_msg(@, n, what, <<>>)]
GoTo(q, s) == [q EXCEPT !.state = s]
AddText(q, text) == [q EXCEPT !.entry = add_text(@, text)]
DumpSection(q) == [q EXCEPT !.entry = dump_section(@)]
BeginSection(q, n, title) == [q EXCEPT !.entry = begin_section(@, n, title)]

\* The entry is never one of self.entries, which holds items: the warnings of
\* every entry are logged, those of an entry that produced an item as well.
emit_unused_warnings(q) == [q EXCEPT !.logged = @ \o q.entry.warnings]

\* Mutant of reset_state: the warnings of the old entry go with it.
reset_stateMutant(q, n) == [q EXCEPT !.entry = KernelEntry(n), !.state = "NORMAL"]

reset_state(q, n) ==
  [emit_unused_warnings(q) EXCEPT !.entry = KernelEntry(n), !.state = "NORMAL"]

Store(q, dumped) ==
  With(dumped, LAMBDA d : [q EXCEPT !.entry = d.entry, !.out = d.item])

\* The last branch calls a method that does not exist.
dump_declaration(q, n) ==
  LET e == q.entry
      proto == e.prototype
  IN CASE e.decl_type = "enum" -> Store(q, dump_enum(e, n, proto))
       [] e.decl_type = "typedef" -> Store(q, dump_typedef(e, n, proto))
       [] e.decl_type \in {"struct", "union"} -> Store(q, dump_struct(e, n, proto))
       [] e.decl_type = "var" -> Store(q, dump_var(e, n, proto))
       [] OTHER -> [q EXCEPT !.crashed = TRUE]

process_normal(q, n, l) ==
  IF l.kind = "open" THEN GoTo(reset_state(q, n), "NAME") ELSE q

process_name(q, n, l) ==
  LET purpose == HasPurpose(l)
      e == [begin_section(q.entry, n + 1, SECTION_DEFAULT) EXCEPT
              !.identifier = DeclName(l), !.decl_type = DeclType(l),
              !.declaration_purpose = IF purpose THEN <<n>> ELSE <<>>]
      q1 == [q EXCEPT !.entry = e, !.state = IF purpose THEN "DECLARATION" ELSE "BODY"]
      q2 == IF ~purpose /\ WShortDesc THEN Warn(q1, n, "missing description") ELSE q1
      nameless == e.identifier = <<>> /\ e.decl_type # "enum"
  IN IF l.kind = "doc" THEN
            GoTo(BeginSection([q EXCEPT !.entry.identifier = l.name], n,
                              Section(l.name[1])), "DOCBLOCK")
     ELSE IF ~doc_decl(l) THEN Warn(q, n, "cannot find identifier")
     ELSE IF ~doc_begin_data(l) /\ ~doc_begin_func(l) THEN
            GoTo(Warn(q, n, "not a kernel-doc comment"), "NORMAL")
     ELSE IF nameless THEN GoTo(Warn(q2, n, "wrong identifier"), "NORMAL")
     ELSE q2

\* A section line begins a new section even when it ends the comment.
is_new_section(q, n, l) ==
  LET title == Title(l)
      special == title.param \/ title.name \in Special
      q1 == BeginSection(DumpSection(q), n, title)
  IN AddText([q1 EXCEPT !.entry.leading_space = -1,
                        !.state = IF special THEN "SPECIAL_SECTION" ELSE "BODY"], <<n>>)

\* The words of the line that ends the comment are dropped.
is_comment_end(q, n, l) ==
  LET q1 == DumpSection(q)
      q2 == IF l.kind = "tight" THEN Warn(q1, n, "suspicious ending line") ELSE q1
  IN [q2 EXCEPT !.entry.prototype = <<>>, !.state = "PROTO"]

\* What DECLARATION, SPECIAL_SECTION and BODY have in common.
SectionEndOr(q, n, l, otherwise) ==
  IF doc_sect(l) THEN is_new_section(q, n, l)
  ELSE IF doc_end(l) THEN is_comment_end(q, n, l)
  ELSE IF ~doc_content(l) THEN Warn(q, n, "bad line")
  ELSE otherwise

process_decl(q, n, l) ==
  LET cont == Content(l, n) IN
  SectionEndOr(q, n, l, IF cont = <<>> THEN GoTo(q, "BODY")
                        ELSE [q EXCEPT !.entry.declaration_purpose = @ \o cont])

\* Mutant of EndsSpecial: a blank line is a line of the section.
EndsSpecialMutant(l) == FALSE

\* A blank line ends a special section.
EndsSpecial(l) == l.kind = "blank"

\* leading_space (-1: None) is the indentation that the second line of the
\* section had; a line with no text at all has no character to look at.
process_special(q, n, l) ==
  LET cont == Content(l, n)
      found == IF q.entry.leading_space # -1 THEN q.entry.leading_space
               ELSE IF l.kind = "indented" THEN 1 ELSE 0
      trimmed == IF l.kind = "indented" THEN found ELSE 0
  IN IF EndsSpecial(l)
       THEN GoTo(BeginSection(DumpSection(q), n, SECTION_DEFAULT), "BODY")
       ELSE SectionEndOr(q, n, l,
              IF found > 0 /\ cont = <<>> THEN [q EXCEPT !.crashed = TRUE]
              ELSE AddText([q EXCEPT !.entry.leading_space = trimmed], cont))

process_body(q, n, l) == SectionEndOr(q, n, l, AddText(q, Content(l, n)))

\* The text of a line as part of a prototype: the words of a comment are
\* dropped by the tokenizer, but a ";" among them is seen before that.
ProtoToks(l) ==
  CASE IsCode(l) -> l.toks
    [] l.kind = "statement" -> <<Comment("words"), Semicolon>>
    [] OTHER -> <<Comment("words")>>

\* The parser q, and whether the prototype it has gathered is whole.
Gathering(q)       == [q |-> q, whole |-> "no"]
WholeType(q)       == [q |-> q, whole |-> "type"]
WholeFunction(q)   == [q |-> q, whole |-> "function"]

\* Accumulate tokens until a semicolon outside braces.
Chunk(g, t) ==
  LET brcount == g.q.entry.brcount + (IF IsOpen(t) THEN 1 ELSE 0)
                                   - (IF IsClose(t) THEN 1 ELSE 0)
      q1 == [g.q EXCEPT !.entry.prototype = Append(@, t), !.entry.brcount = brcount]
  IN IF g.whole # "no" THEN g
     ELSE IF IsSemicolon(t) /\ brcount <= 0 THEN WholeType(q1)
     ELSE Gathering(q1)

process_proto_type(q, n, toks) ==
  FoldLeft(Chunk, Gathering(q), IF toks[1].kind = "CPP" THEN Append(toks, Semicolon) ELSE toks)

\* "type (*name)(args)" becomes "type name(args)".
PointerProto(toks) ==
  IF /\ Len(toks) > 5 /\ Is(toks[2], "(") /\ Is(toks[3], "*") /\ Is(toks[5], ")")
    THEN <<toks[1], toks[4]>> \o SubSeq(toks, 6, Len(toks)) ELSE toks

NoComments(toks) == SelectSeq(toks, LAMBDA t : t.kind # "COMMENT")

\* A function's prototype ends at "{", at ";" or with a #define.
process_proto_function(q, n, toks) ==
  LET define == toks[1] = Cpp("define")
      brace == FirstBrace(toks)
      upto == IF brace = 0 THEN toks ELSE SubSeq(toks, 1, brace - 1)
      proto == IF define THEN toks
               ELSE IF toks[1].kind = "CPP" THEN q.entry.prototype
               ELSE q.entry.prototype \o upto
      whole == define \/ \E i \in DOMAIN toks : IsOpen(toks[i]) \/ IsSemicolon(toks[i])
  IN IF whole THEN WholeFunction([q EXCEPT !.entry.prototype = PointerProto(NoComments(proto))])
     ELSE Gathering([q EXCEPT !.entry.prototype = proto])

process_proto(q, n, l) ==
  IF l.kind = "inline" THEN
         Gathering(DumpSection(AddText(BeginSection(q, n, Title(l)), <<n>>)))
  ELSE IF l.kind = "open" THEN Gathering(GoTo(q, "INLINE_NAME"))
  ELSE IF q.entry.decl_type = "function" THEN process_proto_function(q, n, ProtoToks(l))
  ELSE process_proto_type(q, n, ProtoToks(l))

\* The words of a comment that names no member go to process_proto_type(),
\* whatever is being documented.
process_inline_name(q, n, l) ==
  IF doc_sect(l) /\ l.type = "param" THEN
         Gathering(GoTo(AddText(BeginSection(q, n, Title(l)), <<n>>), "INLINE_TEXT"))
  ELSE IF l.kind = "end" THEN Gathering(GoTo(DumpSection(q), "PROTO"))
  ELSE IF doc_content(l) THEN
         process_proto_type(GoTo(Warn(q, n, "incorrect use"), "PROTO"), n,
                            <<Comment("/**")>> \o ProtoToks(l))
  ELSE Gathering(q)

\* What process_proto_type() and process_proto_function() do in the end.
Finish(g, n) ==
  CASE g.whole = "type" ->
         With(dump_declaration(g.q, n),
              LAMBDA q : IF q.crashed THEN q ELSE reset_state(q, n))
    [] g.whole = "function" ->
         With(Store(g.q, dump_function(g.q.entry, n, g.q.entry.prototype)),
              LAMBDA q : reset_state(q, n))
    [] OTHER -> g.q

\* Mutant of process_inline_text: the declaration around the comment is forgotten.
process_inline_textMutant(q, n, l) ==
  IF l.kind = "end" THEN GoTo(DumpSection(q), "NORMAL")
  ELSE IF doc_content(l) THEN AddText(q, Content(l, n))
  ELSE q

process_inline_text(q, n, l) ==
  IF l.kind = "end" THEN GoTo(DumpSection(q), "PROTO")
  ELSE IF doc_content(l) THEN AddText(q, Content(l, n))
  ELSE q

process_docblock(q, n, l) ==
  LET q1 == DumpSection(q) IN
  IF doc_end(l) THEN
         reset_state(Store(q1, output_declaration(q1.entry, n, "doc", q.entry.identifier)), n)
  ELSE IF doc_content(l) THEN AddText(q, Content(l, n))
  ELSE q

-----------------------------------------------------------------------------
(* The ghost: what a reader makes of the file.                             *)

Purpose == Section("")               \* where the short description goes

NoDoc == [phase |-> "code",          \* code, or the first or a later comment line
          pending |-> FALSE,         \* a comment still waits for its declaration
          inside |-> FALSE,          \* reading a comment inside a declaration
          type |-> "none",           \* what is documented
          depth |-> 0,               \* open braces
          wf |-> TRUE,               \* its comments have the documented form
          where |-> SECTION_DEFAULT, \* the section that text belongs to
          text |-> <<>>,             \* the text read: [line, where]
          odd |-> 0,                 \* ill-formed lines so far
          exports |-> {}]            \* exports outside documented declarations

Write(d, title, n) == [d EXCEPT !.text = Append(@, [line |-> n, where |-> title])]

Without(text, title) == SelectSeq(text, LAMBDA x : x.where # title)

\* A new description of a parameter replaces the one it has.
Rewrite(d, title, n) ==
  Write([d EXCEPT !.text = IF title.param THEN Without(@, title) ELSE @,
                  !.where = title], title, n)

\* Words with no " * " before them, or before the "*/" that ends a comment.
Odd(l) == l.kind \in {"stray", "bare"} \/ (l.closes /\ l.kind \notin {"end", "inline"})

Words(l) == l.kind \in {"decl", "doc", "prose", "indented", "statement"}

\* The first line names what is documented, or the member.
FirstLine(d, n, l) ==
  CASE d.inside /\ l.kind = "sect" /\ l.type = "param" -> Rewrite(d, Title(l), n)
    [] ~d.inside /\ l.kind = "decl" /\ (l.name # <<>> \/ l.type = "enum") ->
         LET d1 == [d EXCEPT !.type = l.type,
                             !.where = IF l.purpose THEN Purpose ELSE SECTION_DEFAULT]
         IN IF l.purpose THEN Write(d1, Purpose, n) ELSE d1
    [] ~d.inside /\ l.kind = "doc" ->
         [d EXCEPT !.type = "doc", !.where = Section(l.name[1])]
    [] OTHER -> [d EXCEPT !.wf = FALSE]

\* Later lines; a blank one ends the sections that describe one thing.
LaterLine(d, n, l) ==
  IF d.type = "doc" /\ l.kind = "sect" THEN Write(d, d.where, n)
  ELSE IF ~d.inside /\ l.kind = "sect" THEN Rewrite(d, Title(l), n)
  ELSE IF ~d.inside /\ l.kind = "blank" /\ d.type # "doc" THEN
         IF d.where.param \/ d.where = Purpose \/ d.where.name \in Special
           THEN [d EXCEPT !.where = SECTION_DEFAULT] ELSE d
  ELSE IF Words(l) THEN Write(d, d.where, n)
  ELSE IF l.kind \in {"blank", "end"} THEN d
  ELSE [d EXCEPT !.wf = FALSE]

CommentRead(d, n, l) ==
  LET d1 == IF d.phase = "first" THEN FirstLine(d, n, l) ELSE LaterLine(d, n, l)
  IN [d1 EXCEPT !.phase = IF l.closes THEN "code" ELSE "later",
                !.wf = @ /\ ~Odd(l),
                !.odd = IF Odd(l) THEN @ + 1 ELSE @,
                !.pending = IF l.closes THEN d1.type # "doc" ELSE @]

\* The braces open after the first k tokens of a line.
Depth(d, toks, k) ==
  d.depth + Cardinality({i \in 1..k : IsOpen(toks[i])})
          - Cardinality({i \in 1..k : IsClose(toks[i])})

\* A declaration ends at a ";" outside braces, or with the line of a preprocessor
\* directive; a function's at any ";", at the "{" of its body, or with a #define.
Over(d, toks) ==
  IF d.type = "function"
    THEN \/ toks[1] = Cpp("define")
         \/ \E k \in DOMAIN toks : IsSemicolon(toks[k]) \/ IsOpen(toks[k])
    ELSE \E k \in DOMAIN toks :
           /\ IsSemicolon(toks[k]) \/ (k = Len(toks) /\ toks[1].kind = "CPP")
           /\ Depth(d, toks, k) <= 0

CodeRead(d, l, toks) ==
  IF ~d.pending THEN [NoDoc EXCEPT !.wf = d.wf, !.odd = d.odd, !.exports = d.exports \cup
                        (IF d.wf /\ l.kind = "export" THEN {l.name} ELSE {})]
  ELSE IF l.cont THEN d
  ELSE IF Over(d, toks) THEN [d EXCEPT !.pending = FALSE, !.depth = 0]
  ELSE [d EXCEPT !.depth = Depth(d, toks, Len(toks))]

\* The comment of something new begins a new account, provided that the parser
\* is not still busy with an ill-formed comment.
Opened(d) ==
  IF d.pending THEN [d EXCEPT !.phase = "first", !.inside = TRUE]
  ELSE [NoDoc EXCEPT !.phase = "first", !.wf = p.state = "NORMAL",
                     !.odd = d.odd, !.exports = d.exports]

Observed(d, n, l, toks) ==
  IF d.phase # "code" THEN CommentRead(d, n, l)
  ELSE IF l.kind = "open" THEN Opened(d)
  ELSE IF l.kind = "inline" THEN IF d.pending THEN Rewrite(d, Title(l), n) ELSE d
  ELSE CodeRead(d, l, toks)

-----------------------------------------------------------------------------
(* parse_kdoc(): one line at a time.                                       *)

NoLine == -1

Init ==
  /\ p = [state |-> "NORMAL", entry |-> KernelEntry(0), out |-> NoItem,
          logged |-> <<>>, crashed |-> FALSE]
  /\ ln = 0
  /\ prev = <<>>
  /\ prev_ln = NoLine
  /\ exports = {}
  /\ ended = FALSE
  /\ doc = NoDoc

Quiet == [p EXCEPT !.out = NoItem, !.logged = <<>>]

\* The next line of the file. A continued prototype goes on with code.
ReadLine(l) ==
  /\ ~ended /\ ~p.crashed
  /\ ln < MaxLines
  /\ prev # <<>> => IsCode(l)
  /\ Odd(l) => doc.odd < MaxOdd
  /\ ln' = ln + 1
  /\ doc' = Observed(doc, ln, l, prev \o l.toks)
  /\ UNCHANGED ended

\* A line in a state whose handler looks at nothing but the entry.
Handle(l, state) ==
  /\ p.state = state
  /\ ReadLine(l)
  /\ UNCHANGED <<prev, prev_ln, exports>>

\* The handlers that may find the prototype whole.
Gather(n, gathered) == \E g \in {gathered} : p' = Finish(g, n)

Normal(l) ==
  /\ l.kind # "export"
  /\ Handle(l, "NORMAL") /\ p' = process_normal(Quiet, ln, l)

process_export(table, l) == table \cup {l.name}

\* process_export() is only asked in state NORMAL.
Export(l) ==
  /\ l.kind = "export"
  /\ p.state = "NORMAL"
  /\ ReadLine(l)
  /\ p' = Quiet
  /\ exports' = process_export(exports, l)
  /\ UNCHANGED <<prev, prev_ln>>

SeekName(l)    == Handle(l, "NAME") /\ p' = process_name(Quiet, ln, l)
Declaration(l) == Handle(l, "DECLARATION") /\ p' = process_decl(Quiet, ln, l)
SpecialSect(l) == Handle(l, "SPECIAL_SECTION") /\ p' = process_special(Quiet, ln, l)
Body(l)        == Handle(l, "BODY") /\ p' = process_body(Quiet, ln, l)
InlineText(l)  == Handle(l, "INLINE_TEXT") /\ p' = process_inline_text(Quiet, ln, l)
DocBlock(l)    == Handle(l, "DOCBLOCK") /\ p' = process_docblock(Quiet, ln, l)

InlineName(l) ==
  /\ Handle(l, "INLINE_NAME")
  /\ Gather(ln, process_inline_name(Quiet, ln, l))

\* Continuation lines are gathered; the prototype has the number of the first.
Continue(l) ==
  /\ p.state = "PROTO"
  /\ l.cont
  /\ ReadLine(l)
  /\ p' = Quiet
  /\ prev' = prev \o l.toks
  /\ prev_ln' = IF prev_ln \in {NoLine, 0} THEN ln ELSE prev_ln
  /\ UNCHANGED exports

ForgetContinuation == prev' = <<>> /\ prev_ln' = NoLine

Proto(l) ==
  /\ p.state = "PROTO"
  /\ ~l.cont
  /\ ReadLine(l)
  /\ LET first == IF prev = <<>> THEN ln ELSE prev_ln
         full == IF prev = <<>> THEN l ELSE CodeLine(prev \o l.toks)
     IN Gather(first, process_proto(Quiet, first, full))
  /\ ForgetContinuation
  /\ UNCHANGED exports

EndOfFile ==
  /\ ~ended /\ ~p.crashed
  /\ doc.phase = "code"
  /\ ended' = TRUE
  /\ p' = emit_unused_warnings(Quiet)
  /\ UNCHANGED <<ln, prev, prev_ln, exports, doc>>

Lines == CASE doc.phase = "code" -> IF doc.depth > 0 THEN MemberLines ELSE CodeLines
           [] doc.phase = "first" -> FirstLines
           [] doc.phase = "later" -> LaterLines

Next ==
  \/ \E l \in Lines :
       \/ Normal(l) \/ Export(l) \/ SeekName(l) \/ Declaration(l) \/ SpecialSect(l)
       \/ Body(l) \/ InlineName(l) \/ InlineText(l) \/ DocBlock(l)
       \/ Continue(l) \/ Proto(l)
  \/ EndOfFile

Spec == Init /\ [][Next]_vars

-----------------------------------------------------------------------------
\* The parser and a C compiler agree on what is comment and what is code: while
\* comments have the documented form the parser leaves a comment at its "*/" and
\* not before, and a declaration where C ends it. (A comment that ends on the
\* line of its name, of a section or of a member's text is read on beyond it.)
\* So parse_kdoc() finds every export that is outside documented declarations and
\* not after an ill-formed comment.
CommentSync ==
  /\ doc.wf /\ ~p.crashed =>
       /\ (doc.phase # "code") = (p.state \notin {"NORMAL", "PROTO"})
       /\ doc.phase = "code" => doc.pending = (p.state = "PROTO")
  /\ doc.exports \subseteq exports

\* The lines written for a title, in order.
LinesOf(title) ==
  LET own == SelectSeq(doc.text, LAMBDA x : x.where = title)
  IN [k \in DOMAIN own |-> own[k].line]

Titles == {doc.text[k].where : k \in DOMAIN doc.text}

\* An item carries all the text of its own comments, each line in the section
\* it was written under and in order, and no text of any other comment.
TextPlaced ==
  p.out # NoItem /\ doc.wf =>
    /\ p.out.purpose = LinesOf(Purpose)
    /\ {t.name : t \in {x \in Titles : ~x.param /\ x # Purpose}} \subseteq DOMAIN p.out.sections
    /\ \A s \in DOMAIN p.out.sections :
         p.out.sections[s] = LinesOf([param |-> FALSE, name |-> s])
    /\ LET user == {d \in DOMAIN p.out.parameterdescs : p.out.parameterdescs[d].auto = ""} IN
         /\ user = {t.name : t \in {x \in Titles : x.param}}
         /\ \A d \in user : p.out.parameterdescs[d].text = LinesOf(Param(d))

\* Nothing goes wrong silently: a declaration that has been read produced an
\* item or a message in the log, and no warning vanishes with its entry, be it
\* replaced by the next or the last of the file: it is logged or goes out with
\* the item.
NothingSilent ==
  [][/\ p.state = "PROTO" /\ p'.state = "NORMAL" => p'.out # NoItem \/ p'.logged # <<>>
     /\ \A w \in ToSet(p.entry.warnings) :
          \/ w \in ToSet(p'.logged)
          \/ p'.out # NoItem /\ w \in ToSet(p'.out.warnings)
          \/ w \in ToSet(p'.entry.warnings) /\ ~ended']_vars

\* No comment of the documented form makes the parser raise an exception.
CrashOnlyIllFormed == p.crashed => ~doc.wf
=============================================================================
