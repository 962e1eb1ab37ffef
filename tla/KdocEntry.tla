------------------------------ MODULE KdocEntry ------------------------------
(***************************************************************************)
(* KernelEntry of kdoc/kdoc_parser.py, the documentation entry that the    *)
(* parser is gathering, and the parameter bookkeeping of KernelDoc on it.  *)
(* Each operator is a method: it takes the entry and returns the new one.  *)
(*                                                                         *)
(* Text is the sequence of the numbers of the source lines it came from.   *)
(* Names are sequences of strings (CLex). A section title is a record that *)
(* says whether it is a parameter ("@name") or a plain section.            *)
(***************************************************************************)
EXTENDS CLex, TLC

Nothing == [x \in {} |-> <<>>]          \* an empty dict
Put(dict, key, val) == (key :> val) @@ dict

Section(str) == [param |-> FALSE, name |-> <<str>>]
Param(path)  == [param |-> TRUE, name |-> path]
SECTION_DEFAULT == Section("Description")

\* A description written by the user, or one of the fixed texts
\* ("-- undescribed --", "no arguments", "anonymous", "variable arguments").
User(text)  == [auto |-> "", text |-> text]
Fixed(which) == [auto |-> which, text |-> <<>>]

KernelEntry(ln) ==
  [declaration_start_line |-> ln + 1,
   identifier |-> <<>>, decl_type |-> "", declaration_purpose |-> <<>>,
   section |-> SECTION_DEFAULT, new_start_line |-> 0, contents |-> <<>>,
   prototype |-> <<>>, brcount |-> 0, leading_space |-> -1,
   parameterlist |-> <<>>, parameterdescs |-> Nothing, sections |-> Nothing,
   anon_struct_union |-> FALSE, warnings |-> <<>>]

emit_msg(e, ln, what, about) ==
  [e EXCEPT !.warnings = Append(@, [ln |-> ln, what |-> what, about |-> about])]

add_text(e, text) == [e EXCEPT !.contents = @ \o text]

\* Mutant of StartDefault: the gathered text is not cleared.
StartDefaultMutant(e) == [e EXCEPT !.section = SECTION_DEFAULT]

StartDefault(e) == [e EXCEPT !.section = SECTION_DEFAULT, !.contents = <<>>]

\* Store what the current section has gathered, and start the default one.
\* A parameter's text replaces an earlier one; a section's is appended to it.
dump_section(e) ==
  LET sect == e.section
      name == sect.name
      repeated == name \in DOMAIN e.sections /\ sect # SECTION_DEFAULT
      w == IF repeated
           THEN emit_msg(e, e.new_start_line, "duplicate section name", name) ELSE e
      old == IF name \in DOMAIN e.sections THEN e.sections[name] ELSE <<>>
  IN IF sect = SECTION_DEFAULT /\ e.contents = <<>> THEN e
     ELSE IF sect.param THEN
            StartDefault([e EXCEPT !.parameterdescs = Put(@, name, User(e.contents))])
     ELSE
            StartDefault([w EXCEPT !.sections = Put(@, name, old \o e.contents)])

begin_section(e, line_no, title) ==
  [e EXCEPT !.section = title, !.new_start_line = line_no]

-----------------------------------------------------------------------------
Void     == <<"void">>
Variadic == <<"...">>
Directive == <<"#">>                    \* a preprocessor line among members
Unnamed(kind) == <<"unnamed", kind>>

\* A declarator as create_parameter_list() hands it on: the name, whether a
\* type came with it, and whether the name is followed by "..." of its own.
Declarator(name, typed, named_variadic) ==
  [name |-> name, typed |-> typed, variadic |-> named_variadic]

\* The user may have documented "name..." with or without its dots; the text
\* moves to the plain name.
UndotVariadic(descs, name) ==
  LET dotted == Append(name, "...") IN
  IF dotted \notin DOMAIN descs THEN descs
  ELSE LET rest == [p \in DOMAIN descs \ {dotted} |-> descs[p]] IN
       IF name \in DOMAIN rest THEN rest ELSE Put(rest, name, descs[dotted])

\* A parameter without a description gets a fixed text; "void" and the unnamed
\* overwrite what the user wrote for them.
Described(descs, param, auto) ==
  IF \/ param = Directive
     \/ param \in DOMAIN descs /\ auto \notin {"no arguments", "anonymous"}
    THEN descs ELSE Put(descs, param, Fixed(auto))

\* Add one parameter. Names that describe themselves get a fixed text; any
\* other without a description gets "-- undescribed --" and a warning, unless
\* it is a member of a nested struct (a dotted name).
push_parameter(e, ln, decl_type, d) ==
  LET named == d.variadic /\ ~d.typed
      anon == ~d.typed /\ d.name \in {<<"struct">>, <<"union">>}
      param == IF anon THEN Unnamed(d.name[1]) ELSE d.name
      descs == IF named THEN UndotVariadic(e.parameterdescs, d.name)
               ELSE e.parameterdescs
      undescribed == param \notin DOMAIN descs
      auto == IF named \/ (d.name = Variadic /\ ~d.typed) THEN "variable arguments"
              ELSE IF d.name = Void /\ ~d.typed THEN "no arguments"
              ELSE IF anon THEN "anonymous"
              ELSE "undescribed"
      warn == /\ undescribed
              /\ \/ auto = "undescribed" /\ Len(param) = 1 /\ param # Directive
                 \/ named /\ decl_type = "function"
      descs2 == Described(descs, param, auto)
      e1 == [e EXCEPT !.anon_struct_union = anon, !.parameterdescs = descs2]
      e2 == IF warn THEN emit_msg(e1, ln, "not described", param) ELSE e1
  IN IF e.anon_struct_union /\ ~d.typed /\ d.name = <<"}">> THEN e
     ELSE [e2 EXCEPT !.parameterlist = Append(@, param)]

\* Split a token list at the separators sep that are outside parentheses (the
\* commas of a function pointer's own arguments are masked).
SplitAt(toks, sep) ==
  LET Step(acc, t) ==
        LET inner == CASE t.kind = "BEGIN" /\ Is(t, "(") -> acc.inner + 1
                       [] t.kind = "END" /\ Is(t, ")") -> acc.inner - 1
                       [] OTHER -> acc.inner
        IN IF Is(t, sep) /\ inner = 0
             THEN [inner |-> 0, parts |-> Append(acc.parts, <<>>)]
             ELSE [inner |-> inner,
                   parts |-> [acc.parts EXCEPT ![Len(acc.parts)] = Append(@, t)]]
  IN FoldLeft(Step, [inner |-> 0, parts |-> << <<>> >>], toks).parts

IsSemicolon(t) == t.kind = "ENDSTMT"

NoStars(toks) == SelectSeq(toks, LAMBDA t : ~Is(t, "*"))

\* "(*name)(": the position of the name of a pointer to function, or 0.
FunctionPointer(arg) ==
  LET open == SelectInSeq(arg, LAMBDA t : Is(t, "("))
  IN IF open > 1 /\ open + 2 < Len(arg) /\ Is(arg[open + 1], "*")
       THEN open + 2 ELSE 0

\* The declarators of one argument or member: "type a, *b", "type (*f)(...)",
\* "type a:3" (":" begins a bit-field; an unnamed one is skipped), a lone word.
Declarators(arg) ==
  LET parts == SplitAt(arg, ",")
      head == NoStars(parts[1])
      colon(p) == SelectInSeq(p, LAMBDA t : Is(t, ":"))
      bare(p) == IF colon(p) = 0 THEN p ELSE SubSeq(p, 1, colon(p) - 1)
      first == bare(head)
      typed == Len(head) > 1
      One(p) == IF p = <<>> THEN <<>>
                ELSE << Declarator(IF Is(Last(p), ")") THEN <<"">> ELSE Last(p).value,
                                   typed, FALSE) >>
      rest == [k \in 2..Len(parts) |-> bare(NoStars(parts[k]))]
  IN IF arg = <<>> THEN <<>>
     ELSE IF arg[1].kind = "CPP" THEN << Declarator(Directive, FALSE, FALSE) >>
     ELSE IF FunctionPointer(arg) # 0 THEN
            << Declarator(arg[FunctionPointer(arg)].value, TRUE, FALSE) >>
     ELSE
            (IF colon(head) # 0 /\ Len(first) < 2 THEN <<>>
             ELSE IF Is(Last(first), "...") /\ Len(first) = 2
               THEN << Declarator(first[1].value, FALSE, TRUE) >>
             ELSE One(first))
            \o FlattenSeq([k \in 1..Len(parts) - 1 |-> One(rest[k + 1])])

create_parameter_list(e, ln, decl_type, args, splitter) ==
  LET All(parts) == FlattenSeq([k \in DOMAIN parts |-> Declarators(parts[k])])
  IN FoldLeft(LAMBDA x, d : push_parameter(x, ln, decl_type, d), e,
              With(SplitAt(args, splitter), All))

\* Mutant of Excess: only the last part of a dotted name is compared.
ExcessMutant(e, p) ==
  /\ e.parameterdescs[p].auto = ""
  /\ Last(p) \notin {Last(q) : q \in ToSet(e.parameterlist)}

Excess(e, p) ==
  /\ e.parameterdescs[p].auto = ""
  /\ p \notin ToSet(e.parameterlist)

\* Warn of every description that belongs to no parameter. (A plain section is
\* one of the known section names, so the first loop of the code finds nothing.)
check_sections(e, ln) ==
  With(e, LAMBDA x :
    FoldLeft(LAMBDA y, p : emit_msg(y, ln, "excess description", p), x,
             SetToSeq({p \in DOMAIN x.parameterdescs : Excess(x, p)})))

\* A function that returns something and has no Return section.
check_return_section(e, ln, wreturn, returns) ==
  IF wreturn /\ returns /\ <<"Return">> \notin DOMAIN e.sections
    THEN emit_msg(e, ln, "no return", e.identifier) ELSE e
=============================================================================
