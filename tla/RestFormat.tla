------------------------------ MODULE RestFormat ------------------------------
(***************************************************************************)
(* The ReST writer (RestFormat in kdoc/kdoc_output.py). Every method is an *)
(* operator from the writer to the writer: lineprefix is the indentation   *)
(* it is at, data the lines written for the current page. A line is how    *)
(* far it is indented, what it is and the name or text it carries; wording *)
(* and the markup put around names are left out, and so are the LINENO     *)
(* comments, which parse_msg() takes out again. A line of text is marked   *)
(* "literal" when it is passed on as it is, "text" when highlight_block()  *)
(* has been applied to it.                                                 *)
(***************************************************************************)
EXTENDS Integers, Sequences, SequencesExt

\* A line of a description: opens is whether "::" ends it or a code-block starts.
TextLine(id, indent, opens) ==
  [id |-> id, indent |-> indent, opens |-> opens, blank |-> FALSE]
BlankLine == [id |-> "", indent |-> 0, opens |-> FALSE, blank |-> TRUE]

\* An item as the parser hands it over. form tells functions apart ("function",
\* "macro" when it has no type, "typedef") and variables ("initialised" or not).
\* A parameter is unnamed when its type is a pointer to a function that has no
\* name, "(*)". Sections are in the order of the file.
Item(type, form, name, warnings, purpose, parameters, sections) ==
  [type |-> type, form |-> form, name |-> name, warnings |-> warnings,
   purpose |-> purpose, parameters |-> parameters, sections |-> sections]
Parameter(name, unnamed, described, text) ==
  [name |-> name, unnamed |-> unnamed, described |-> described, text |-> text]
Section(name, text) == [name |-> name, text |-> text]

Texts == Seq([id : STRING, indent : Nat, opens : BOOLEAN, blank : BOOLEAN])
Items == [type : STRING, form : STRING, name : STRING, warnings : Nat, purpose : Texts,
          parameters : Seq([name : STRING, unnamed : BOOLEAN, described : BOOLEAN,
                            text : Texts]),
          sections : Seq([name : STRING, text : Texts])]

\* The writer for one call of msg(), with what remains of earlier ones.
Writer(lineprefix, nosymbol, mode) ==
  [lineprefix |-> lineprefix, nosymbol |-> nosymbol, mode |-> mode, data |-> <<>>]

-----------------------------------------------------------------------------
Line(at, what, of) == [at |-> at, what |-> what, of |-> of]
Blank == Line(0, "blank", "")

Prefix(w, n) == [w EXCEPT !.lineprefix = n]
Write(w, lines) == [w EXCEPT !.data = @ \o lines]

\* strip("\n").split("\n"): the lines without the blank ones at both ends, and
\* one empty line when there are no others.
Strip(text) ==
  LET full == {k \in DOMAIN text : ~text[k].blank}
  IN IF full = {} THEN <<BlankLine>> ELSE SubSeq(text, Min(full), Max(full))

NoPrefix == -1

Literal(l) == [line |-> l, what |-> "literal"]
highlight_block(block) == [k \in DOMAIN block |-> [line |-> block[k], what |-> "text"]]

\* Mutant of InLiteral: a blank line ends the literal block.
InLiteralMutant(acc, l) ==
  acc.in_literal /\ ~l.blank /\ (acc.litprefix = NoPrefix \/ l.indent >= acc.litprefix)

\* A literal block goes on over blank lines, and as long as lines are indented
\* like its first one.
InLiteral(acc, l) ==
  acc.in_literal /\ (l.blank \/ acc.litprefix = NoPrefix \/ l.indent >= acc.litprefix)

Highlight(acc, l) ==
  IF InLiteral(acc, l)
    THEN [acc EXCEPT !.output = Append(@, Literal(l)),
                     !.litprefix = IF @ = NoPrefix /\ ~l.blank THEN l.indent ELSE @]
  ELSE IF l.opens
    THEN [in_literal |-> TRUE, litprefix |-> NoPrefix, block |-> <<>>,
          output |-> acc.output \o highlight_block(Append(acc.block, l))]
  ELSE [acc EXCEPT !.in_literal = FALSE, !.block = Append(@, l)]

output_highlight(w, text) ==
  LET start == [in_literal |-> FALSE, litprefix |-> NoPrefix, block |-> <<>>, output |-> <<>>]
      end == FoldLeft(Highlight, start, Strip(text))
      output == end.output \o highlight_block(end.block)
      Placed(o) == IF o.line.blank THEN Blank
                   ELSE Line(w.lineprefix + o.line.indent, o.what, o.line.id)
  IN Write(w, [k \in DOMAIN output |-> Placed(output[k])])

-----------------------------------------------------------------------------
Heading(w, name) == Write(w, <<Line(w.lineprefix, "heading", name), Blank>>)

\* One section under its header, unless it is to be left out.
WriteSection(w, s, header) ==
  IF s.name \in w.nosymbol THEN w
  ELSE Write(output_highlight(header, s.text), <<Blank>>)

DocSection(w, s) ==
  WriteSection(w, s, IF w.mode = "include" THEN w
                     ELSE Heading(Write(w, <<Line(0, "label", s.name), Blank>>), s.name))
PlainSection(w, s) == WriteSection(w, s, Heading(w, s.name))

out_section(w, i, out_docblock) ==
  Write(IF out_docblock THEN FoldLeft(DocSection, w, i.sections)
        ELSE FoldLeft(PlainSection, w, i.sections), <<Blank>>)

out_doc(w, i) == out_section(w, i, TRUE)

\* The directive that the lines after it describe is always at column 0.
Declares(w, kind, name) == Write(w, <<Line(0, kind, name), Blank>>)
Starts(w, kind, name) == Declares(Write(w, <<Blank, Blank>>), kind, name)
Container(w) == Write(w, <<Line(0, "container", ""), Blank>>)

\* "**Typedef**: " and the first line of the text are one line.
TypedefPurpose(w, i) ==
  LET text == output_highlight(Prefix(w, 0), i.purpose)
  IN Write([text EXCEPT !.data[Len(w.data) + 1] =
              [@ EXCEPT !.at = 3, !.what = IF @ = "blank" THEN "heading" ELSE @]],
           <<Blank, Blank, Line(0, "heading", "Syntax"), Blank,
             Line(2, "signature", i.name), Blank>>)

Described(w, p) ==
  LET named == Prefix(Write(w, <<Line(w.lineprefix, "name", p.name)>>), 4)
  IN Prefix(IF p.described
              THEN Write(output_highlight(named, p.text), <<Blank>>)
              ELSE Write(named, <<Line(4, "undescribed", p.name), Blank>>), 2)

\* The signature comes first: for an unnamed function pointer it takes the third
\* group of function_pointer, which has two, an IndexError.
Raises(i) ==
  i.type = "function" /\ \E k \in DOMAIN i.parameters : i.parameters[k].unnamed

\* Of an item that does not raise.
out_function(w, i) ==
  LET head == IF i.form = "typedef" THEN TypedefPurpose(Declares(w, "c:macro", i.name), i)
              ELSE IF i.form = "macro"
                THEN Write(Declares(w, "c:macro", i.name), <<Line(0, "signature", i.name), Blank>>)
              ELSE Declares(w, "c:function", i.name)
      purpose == IF i.form = "typedef" THEN head
                 ELSE Write(output_highlight(Prefix(head, 3), i.purpose), <<Blank>>)
      list == IF i.parameters = <<>> THEN Prefix(purpose, 2)
              ELSE Heading(Container(Prefix(purpose, 2)), "Parameters")
  IN Prefix(out_section(FoldLeft(Described, list, i.parameters), i, FALSE), w.lineprefix)

Constant(w, p) ==
  LET named == Write(w, <<Line(4, "name", p.name)>>)
  IN Write(IF p.described THEN output_highlight(named, p.text)
           ELSE Write(named, <<Line(w.lineprefix, "undescribed", p.name), Blank>>), <<Blank>>)

out_enum(w, i) ==
  LET purpose == output_highlight(Prefix(Starts(w, "c:enum", i.name), 2), i.purpose)
      head == Heading(Prefix(Container(Write(purpose, <<Blank>>)), 4), "Constants")
  IN out_section(Prefix(FoldLeft(Constant, Prefix(head, 6), i.parameters), w.lineprefix),
                 i, FALSE)

\* The prefix is saved and never restored: after a variable every item is
\* written with the indentation it left.
out_var(w, i) ==
  LET head == Write(Prefix(Starts(w, "c:macro", i.name), 2),
                    <<Line(2, "signature", i.name), Blank>>)
      purpose == Write(output_highlight(head, i.purpose), <<Blank>>)
      value == IF i.form # "initialised" THEN purpose
               ELSE Write(Heading(purpose, "Initialization"), <<Line(2, "default", i.name)>>)
  IN out_section(value, i, FALSE)

out_typedef(w, i) ==
  LET purpose == output_highlight(Prefix(Starts(w, "c:type", i.name), 3), i.purpose)
  IN out_section(Prefix(Write(purpose, <<Blank>>), w.lineprefix), i, FALSE)

Member(w, p) ==
  IF ~p.described \/ p.name = "#" THEN w
  ELSE Write(Prefix(output_highlight(Prefix(Write(w, <<Line(2, "name", p.name)>>), 4),
                                     p.text), 2), <<Blank>>)

\* Mutant of StructBody: the prefix is not put back.
StructBodyMutant(w, i, oldprefix) ==
  Write(FoldLeft(Member, Heading(Prefix(w, 2), "Members"), i.parameters), <<Blank>>)

\* The members; oldprefix is put back after them.
StructBody(w, i, oldprefix) ==
  Prefix(Write(FoldLeft(Member, Heading(Prefix(w, 2), "Members"), i.parameters), <<Blank>>),
         oldprefix)

out_struct(w, i) ==
  LET purpose == output_highlight(Prefix(Starts(w, i.type, i.name), w.lineprefix + 2),
                                  i.purpose)
      head == Heading(Container(Write(purpose, <<Blank>>)), "Definition")
      definition == Write(head, <<Line(w.lineprefix + 4, "definition", i.name),
                                  Line(w.lineprefix + 4, "definition end", i.name), Blank>>)
  IN out_section(StructBody(definition, i, w.lineprefix), i, FALSE)

\* The method for the kind of item.
Output(w, i) ==
  CASE i.type = "doc" -> out_doc(w, i)
    [] i.type = "function" -> out_function(w, i)
    [] i.type = "enum" -> out_enum(w, i)
    [] i.type = "var" -> out_var(w, i)
    [] i.type = "typedef" -> out_typedef(w, i)
    [] OTHER -> out_struct(w, i)

\* The items up to the first that raises, with it and without it.
Raising(items) == {k \in DOMAIN items : Raises(items[k])}
Reached(items) ==
  IF Raising(items) = {} THEN items ELSE SubSeq(items, 1, Min(Raising(items)))
Written(items) ==
  IF Raising(items) = {} THEN items ELSE SubSeq(items, 1, Min(Raising(items)) - 1)

\* The writer after the items that come to be written.
output_symbols(w, items) == FoldLeft(Output, w, Written(items))
=============================================================================
