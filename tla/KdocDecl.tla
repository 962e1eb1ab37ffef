------------------------------ MODULE KdocDecl ------------------------------
(***************************************************************************)
(* The dump_* methods of KernelDoc (kdoc/kdoc_parser.py): from the tokens  *)
(* of a prototype to the parameters, the warnings and the output item of   *)
(* an entry. Each returns the entry and the item, or no item when the      *)
(* prototype cannot be understood or is that of another symbol.            *)
(***************************************************************************)
EXTENDS KdocEntry

CONSTANT WReturn                     \* config.wreturn: warn of a missing Return

NoItem == [type |-> "none"]

Failed(e, ln, what) ==
  [entry |-> emit_msg(e, ln, what, e.identifier), item |-> NoItem]

\* KdocItem and output_declaration(): what the output side gets. Empty
\* Description and Return sections are dropped.
output_declaration(entry, ln, type, name) ==
  With(entry, LAMBDA e :
    LET full == {s \in DOMAIN e.sections :
                   s \notin {<<"Description">>, <<"Return">>} \/ e.sections[s] # <<>>}
    IN
     [entry |-> e,
      item |-> [type |-> type, name |-> name,
                declaration_start_line |-> e.declaration_start_line, last |-> ln,
                sections |-> [s \in full |-> e.sections[s]],
                parameterlist |-> e.parameterlist,
                parameterdescs |-> e.parameterdescs,
                purpose |-> e.declaration_purpose,
                warnings |-> e.warnings]])

-----------------------------------------------------------------------------
(* struct and union                                                        *)

IsBrace(t) == IsOpen(t) \/ IsClose(t)
OpensBlock(toks, i) == toks[i].kind \in {"STRUCT", "UNION"}

\* Last brace of toks, "}" of a whole declaration.
LastBrace(toks) == SelectLastInSeq(toks, LAMBDA t : IsClose(t))
FirstBrace(toks) == SelectInSeq(toks, LAMBDA t : IsOpen(t))

NoParts == [ok |-> FALSE, type |-> "", name |-> <<>>, members |-> <<>>]

\* "struct name { members }" or "typedef struct { members } name;".
split_struct_proto(toks) ==
  LET z == LastBrace(toks)
      Plain(b) == /\ 2 < b /\ b < z /\ IsOpen(toks[b])
                  /\ OpensBlock(toks, b - 2) /\ toks[b - 1].kind = "NAME"
      Typedefed(b) == /\ 2 < b /\ b < z /\ IsOpen(toks[b])
                      /\ toks[b - 2].kind = "TYPEDEF" /\ OpensBlock(toks, b - 1)
                      /\ z + 2 <= Len(toks) /\ toks[z + 1].kind = "NAME"
      First(Form(_)) == CHOOSE b \in DOMAIN toks :
                          Form(b) /\ \A c \in 1..b - 1 : ~Form(c)
      Parts(b, t, name) == [ok |-> TRUE, type |-> toks[t].value[1], name |-> name,
                            members |-> SubSeq(toks, b + 1, z - 1)]
  IN IF \E b \in DOMAIN toks : Plain(b)
       THEN LET b == First(Plain) IN Parts(b, b - 2, toks[b - 1].value)
     ELSE IF \E b \in DOMAIN toks : Typedefed(b)
       THEN LET b == First(Typedefed) IN Parts(b, b - 1, toks[z + 1].value)
     ELSE NoParts

\* The first block "struct {contents without braces} names;": the positions
\* of its keyword, braces and semicolon; none is <<>>.
InnerBlock(toks) ==
  LET Stops(t) == IsBrace(t) \/ IsSemicolon(t)
      NextStop(i) == SelectInSubSeq(toks, i + 1, Len(toks), Stops)
      NextBrace(i) == SelectInSubSeq(toks, i + 1, Len(toks), IsBrace)
      Keyword(b, k) == OpensBlock(toks, k) /\ \A m \in k + 1..b - 1 : ~Stops(toks[m])
      starts == {b \in DOMAIN toks :
                   /\ IsOpen(toks[b])
                   /\ \E k \in 1..b - 1 : Keyword(b, k)
                   /\ LET z == NextBrace(b) IN
                        z # 0 /\ IsClose(toks[z]) /\ NextStop(z) # 0 /\ IsSemicolon(toks[NextStop(z)])}
      Block(b) == <<CHOOSE k \in 1..b - 1 : Keyword(b, k), b, NextBrace(b), NextStop(NextBrace(b))>>
  IN With(starts, LAMBDA found :
       IF found = {} THEN <<>> ELSE Block(CHOOSE b \in found : \A c \in found : b <= c))

\* Mutant of Qualified: names qualified before lose the inner block.
QualifiedMutant(t, s_id) == [t EXCEPT !.value = s_id \o <<Last(@)>>]

Qualified(t, s_id) == [t EXCEPT !.value = s_id \o @]

\* One member of a block, with its names under the name of the block:
\* "type a, b" becomes "type s.a; type s.b;". The block may be anonymous.
QualifyMember(arg, s_id) ==
  LET f == FunctionPointer(arg)
      parts == SplitAt(arg, ",")
      head == NoStars(parts[1])
      type == Front(head)
      named == [k \in DOMAIN parts |->
                  type \o << Qualified(Last(NoStars(parts[k])), s_id), Semicolon >>]
  IN IF arg = <<>> THEN <<Semicolon>>
     ELSE IF f # 0 THEN ReplaceAt(arg, f, Qualified(arg[f], s_id)) \o <<Semicolon>>
     ELSE IF Len(head) = 1 THEN Append(arg, Semicolon)
     ELSE FlattenSeq(named)

\* Bit-field widths disappear from the members of a block.
NoWidths(arg) ==
  LET Width(i) == Is(arg[i], ":") \/ (i > 1 /\ Is(arg[i - 1], ":"))
  IN FoldLeftDomain(LAMBDA out, i : IF Width(i) THEN out ELSE Append(out, arg[i]), <<>>, arg)

RewriteBlock(toks, pos) ==
  LET dtype == toks[pos[1]]
      content == SplitAt(SubSeq(toks, pos[2] + 1, pos[3] - 1), ";")
      rest == SplitAt(SubSeq(toks, pos[3] + 1, pos[4] - 1), ",")
      Member(s) == LET bare == NoStars(s)
                       s_id == IF bare = <<>> THEN <<>> ELSE bare[1].value
                   IN <<dtype>> \o s \o <<Semicolon>>
                      \o FlattenSeq([k \in DOMAIN content |->
                                       QualifyMember(NoWidths(content[k]), s_id)])
  IN SubSeq(toks, 1, pos[1] - 1)
     \o FlattenSeq([k \in DOMAIN rest |-> Member(rest[k])])
     \o SubSeq(toks, pos[4] + 1, Len(toks))

\* From the most deeply nested block outward; each round removes a block.
rewrite_struct_members(members) ==
  FoldLeft(LAMBDA toks, t :
             With(IF IsOpen(t) THEN InnerBlock(toks) ELSE <<>>,
                  LAMBDA pos : IF pos = <<>> THEN toks ELSE RewriteBlock(toks, pos)),
           members, members)

\* The braces that remain, innermost only: those of enums.
DropBraces(toks) ==
  LET NextBrace(i) == SelectInSubSeq(toks, i + 1, Len(toks), IsBrace)
      gone == UNION {b..NextBrace(b) : b \in {i \in DOMAIN toks :
                       /\ IsOpen(toks[i])
                       /\ NextBrace(i) # 0 /\ IsClose(toks[NextBrace(i)])}}
  IN FoldLeftDomain(LAMBDA out, i : IF i \in gone THEN out ELSE Append(out, toks[i]),
                    <<>>, toks)

Attribute   == "__attribute__"
StructGroup == "struct_group"

\* CTransforms.apply("struct", ...), for one macro of each kind: those that
\* are dropped with their arguments and those that are replaced by them.
apply_struct(toks) ==
  LET NoAttribute(t) == sub(Attribute, <<>>, 0, FALSE, t)
      OpenGroup(t) == sub(StructGroup, <<Struct, Begin("{"), Backref(2), End("}"), Semicolon>>,
                          2, TRUE, t)
  IN With(With(With(tokenize(toks), NoAttribute), OpenGroup), ToStr)

dump_struct(e, ln, proto) ==
  LET Members(parts) ==
        With(With(apply_struct(parts.members), rewrite_struct_members), DropBraces)
      Listed(parts) ==
        create_parameter_list(e, ln, parts.type, Members(parts), ";")
  IN With(With(ToStr(proto), split_struct_proto), LAMBDA parts :
       IF ~parts.ok THEN Failed(e, ln, "cannot parse struct")
       ELSE IF parts.name # e.identifier THEN Failed(e, ln, "expecting prototype")
       ELSE output_declaration(check_sections(Listed(parts), ln), ln,
                                        parts.type, parts.name))

-----------------------------------------------------------------------------
(* enum, typedef, variable, function                                       *)

\* Preprocessor lines, up to the ";" that process_proto_type() put after them.
DropDirectives(toks) ==
  FoldLeft(LAMBDA s, t :
             IF t.kind = "CPP" THEN [s EXCEPT !.cpp = TRUE]
             ELSE IF s.cpp THEN [s EXCEPT !.cpp = ~IsSemicolon(t)]
             ELSE [s EXCEPT !.out = Append(@, t)],
           [cpp |-> FALSE, out |-> <<>>], toks).out

\* "enum name { a, b }" or "typedef enum { a, b } name;". Values are dropped.
EnumParts(first, toks) ==
  LET b == FirstBrace(toks)
      z == LastBrace(toks)
      typedef == b > 2 /\ toks[b - 2].kind = "TYPEDEF"
      word == toks[IF typedef THEN z + 1 ELSE b - 1]
      parts == SelectSeq(SplitAt(SubSeq(toks, b + 1, z - 1), ","),
                         LAMBDA part : part # <<>>)
  IN IF b > 1 /\ z > b /\ (IF typedef THEN toks[b - 1] ELSE first).kind = "ENUM"
       THEN [ok |-> TRUE, name |-> IF word.kind = "NAME" THEN word.value ELSE <<>>,
             values |-> [k \in DOMAIN parts |-> parts[k][1].value]]
       ELSE [ok |-> FALSE]

dump_enum(e, ln, proto) ==
  LET Add(x, v) ==
        LET x1 == [x EXCEPT !.parameterlist = Append(@, v)] IN
        IF v \in DOMAIN x.parameterdescs THEN x1
        ELSE emit_msg([x1 EXCEPT !.parameterdescs = Put(@, v, Fixed("undescribed"))],
                      ln, "not described", v)
      Checked(x) ==
        FoldLeft(LAMBDA y, p : emit_msg(y, ln, "excess description", p), x,
                 SetToSeq(DOMAIN x.parameterdescs \ ToSet(x.parameterlist)))
      Parts(toks) == EnumParts(proto[1], toks)
  IN With(With(DropDirectives(ToStr(proto)), Parts), LAMBDA parts :
       IF ~parts.ok THEN Failed(e, ln, "cannot parse enum")
       ELSE IF parts.name # e.identifier THEN Failed(e, ln, "expecting prototype")
       ELSE output_declaration(With(FoldLeft(Add, e, parts.values), Checked), ln,
                                        "enum", parts.name))

\* The last of the words the prototype begins with, at least two (one after a
\* comment, which leaves a space); what follows them is not looked at, and the
\* name is not compared with the comment's.
dump_var(e, ln, proto) ==
  LET Word(t) == t.kind \in {"NAME", "STRUCT", "UNION", "ENUM", "TYPEDEF"} \/ Is(t, "*")
      code == ToStr(proto)
      stop == SelectInSeq(Append(code, Semicolon), LAMBDA t : ~Word(t))
      words == NoStars(SubSeq(code, 1, stop - 1))
      found == Len(words) > (IF proto[1].kind = "COMMENT" THEN 0 ELSE 1)
  IN IF found THEN output_declaration(e, ln, "var", Last(words).value)
     ELSE Failed(e, ln, "cannot parse variable")

\* The first "name (arguments)" of a prototype: the positions of the name and
\* of the brackets; <<>> when there is none. What follows arguments without
\* parentheses of their own (an attribute) is not part of them.
CallShape(toks, from) ==
  LET open == SelectInSubSeq(toks, from, Len(toks), LAMBDA t : Is(t, "("))
      inner == SelectInSubSeq(toks, open + 1, Len(toks), LAMBDA t : Is(t, "("))
      flat == SelectLastInSubSeq(toks, open + 1, IF inner = 0 THEN Len(toks) ELSE inner,
                                 LAMBDA t : Is(t, ")"))
      close == IF flat # 0 THEN flat ELSE SelectLastInSeq(toks, LAMBDA t : Is(t, ")"))
  IN IF open > from /\ toks[open - 1].kind = "NAME" /\ close > open
       THEN <<open - 1, open, close>> ELSE <<>>

\* A pointer to function, a function, or anything else, whose name must stand
\* alone: "typedef struct s *name;" is not understood.
TypedefParts(proto) ==
  LET ptr == FunctionPointer(proto)
      close == SelectLastInSeq(proto, LAMBDA t : Is(t, ")"))
      n == Len(proto)
      simple == n > 2 /\ IsSemicolon(proto[n]) /\ proto[n - 1].kind = "NAME"
                /\ ~Is(proto[n - 2], "*")
      Function(at, from) == [type |-> "function", name |-> proto[at].value,
                             args |-> SubSeq(proto, from, close - 1)]
  IN With(CallShape(proto, 2), LAMBDA shape :
       IF proto[1].kind # "TYPEDEF" THEN [type |-> ""]
       ELSE IF ptr # 0 THEN Function(ptr, ptr + 3)
       ELSE IF shape # <<>> THEN Function(shape[1], shape[2] + 1)
       ELSE IF simple THEN
              [type |-> "typedef", name |-> proto[n - 1].value]
       ELSE [type |-> ""])

\* A function typedef is an item of type function; it is not checked for
\* excess descriptions, unlike a function.
dump_typedef(e, ln, proto) ==
  With(TypedefParts(proto), LAMBDA parts :
    IF parts.type = "" THEN Failed(e, ln, "cannot parse typedef")
    ELSE IF parts.name # e.identifier THEN Failed(e, ln, "expecting prototype")
    ELSE output_declaration(
                    IF parts.type = "typedef" THEN e
                    ELSE create_parameter_list(e, ln, "function", parts.args, ","),
                    ln, parts.type, parts.name))

\* A function, a macro with arguments, or a macro without ("#define A B").
FunctionParts(prototype) ==
  LET macro == prototype # <<>> /\ prototype[1].kind = "CPP"
      toks == IF macro THEN Tail(prototype) ELSE prototype
  IN With(CallShape(toks, 1), LAMBDA shape :
       IF macro /\ Len(toks) > 1 /\ ~Is(toks[2], "(") THEN
              [ok |-> TRUE, name |-> toks[1].value, args |-> <<>>, returns |-> FALSE]
       ELSE IF shape # <<>> THEN
              [ok |-> TRUE, name |-> toks[shape[1]].value,
               args |-> SubSeq(toks, shape[2] + 1, shape[3] - 1),
               returns |-> shape[1] > 1 /\ toks[shape[1] - 1].value # Void]
       ELSE [ok |-> FALSE])

\* Parameters are pushed, and warned of, before the name is compared.
dump_function(e, ln, prototype) ==
  LET Listed(parts) == create_parameter_list(e, ln, "function", parts.args, ",")
      Checked(parts) == check_return_section(check_sections(Listed(parts), ln), ln, WReturn,
                                             parts.returns)
  IN With(FunctionParts(prototype), LAMBDA parts :
       IF ~parts.ok THEN Failed(e, ln, "cannot understand function prototype")
       ELSE IF parts.name # e.identifier THEN
              Failed(Listed(parts), ln, "expecting prototype")
       ELSE output_declaration(Checked(parts), ln, "function", parts.name))
=============================================================================
