--------------------------- MODULE KernelDocProofs ---------------------------
(***************************************************************************)
(* Proofs that the parser of documentation comments and a C compiler agree *)
(* on what is comment and what is code, and that no comment of the         *)
(* documented form makes the parser raise, for files of any length made of *)
(* any lines, and any number of ill-formed comments before.                *)
(***************************************************************************)
EXTENDS KernelDoc, FiniteSetTheorems, TLAPS

-----------------------------------------------------------------------------
(* What the methods leave of the parser. *)

EntryFields ==
  {"declaration_start_line", "identifier", "decl_type", "declaration_purpose", "section",
   "new_start_line", "contents", "prototype", "brcount", "leading_space", "parameterlist",
   "parameterdescs", "sections", "anon_struct_union", "warnings"}
ParserFields == {"state", "entry", "out", "logged", "crashed"}

IsParser(q) == DOMAIN q = ParserFields /\ DOMAIN q.entry = EntryFields

\* f is the entry e with other text: of the same kind, with as many open braces.
SameEntry(e, f) ==
  /\ DOMAIN f = EntryFields
  /\ f.decl_type = e.decl_type
  /\ f.brcount = e.brcount

\* x is the parser q with other text in its entry, in state s.
Same(q, x, s) ==
  /\ DOMAIN x = ParserFields
  /\ x.state = s
  /\ x.crashed = q.crashed
  /\ SameEntry(q.entry, x.entry)

LEMMA EntryMethods ==
  ASSUME NEW e, NEW f, SameEntry(e, f), NEW n, NEW what, NEW about
  PROVE  /\ SameEntry(e, emit_msg(f, n, what, about))
         /\ SameEntry(e, add_text(f, what))
         /\ SameEntry(e, begin_section(f, n, what))
         /\ SameEntry(e, StartDefault(f))
BY DEF SameEntry, EntryFields, emit_msg, add_text, begin_section, StartDefault

LEMMA DumpSectionSame ==
  ASSUME NEW e, NEW f, SameEntry(e, f)
  PROVE  SameEntry(e, dump_section(f))
<1>1. \A x, descs : SameEntry(e, x) => SameEntry(e, [x EXCEPT !.parameterdescs = descs])
  BY DEF SameEntry, EntryFields
<1>2. \A x, sects : SameEntry(e, x) => SameEntry(e, [x EXCEPT !.sections = sects])
  BY DEF SameEntry, EntryFields
<1>3. \E descs, x, sects :
        /\ SameEntry(e, x)
        /\ dump_section(f) \in {f, StartDefault([f EXCEPT !.parameterdescs = descs]),
                                StartDefault([x EXCEPT !.sections = sects])}
  <2> DEFINE name == f.section.name
             repeated == name \in DOMAIN f.sections /\ f.section # SECTION_DEFAULT
             w == IF repeated
                  THEN emit_msg(f, f.new_start_line, "duplicate section name", name) ELSE f
             old == IF name \in DOMAIN f.sections THEN f.sections[name] ELSE <<>>
             descs == Put(f.parameterdescs, name, User(f.contents))
             sects == Put(w.sections, name, old \o f.contents)
  <2>1. SameEntry(e, w)
    BY EntryMethods
  <2>2. dump_section(f) = IF f.section = SECTION_DEFAULT /\ f.contents = <<>> THEN f
          ELSE IF f.section.param THEN StartDefault([f EXCEPT !.parameterdescs = descs])
          ELSE StartDefault([w EXCEPT !.sections = sects])
    BY Zenon DEF dump_section
  <2> HIDE DEF w, descs, sects
  <2>3. dump_section(f) \in {f, StartDefault([f EXCEPT !.parameterdescs = descs]),
                             StartDefault([w EXCEPT !.sections = sects])}
    BY <2>2
  <2> QED BY <2>1, <2>3, Zenon
<1> QED BY <1>1, <1>2, <1>3, EntryMethods

LEMMA ParserMethods ==
  ASSUME NEW q, NEW x, NEW s, Same(q, x, s), NEW n, NEW what, NEW t
  PROVE  /\ Same(q, Warn(x, n, what), s)
         /\ Same(q, AddText(x, what), s)
         /\ Same(q, DumpSection(x), s)
         /\ Same(q, BeginSection(x, n, what), s)
         /\ Same(q, GoTo(x, t), t)
<1>1. \A e : SameEntry(q.entry, e) => Same(q, [x EXCEPT !.entry = e], s)
  BY DEF Same, ParserFields
<1>2. SameEntry(q.entry, x.entry)
  BY DEF Same
<1>3. Same(q, GoTo(x, t), t)
  BY DEF Same, ParserFields, GoTo
<1>4. /\ Same(q, Warn(x, n, what), s)
      /\ Same(q, AddText(x, what), s)
      /\ Same(q, BeginSection(x, n, what), s)
  BY <1>1, <1>2, EntryMethods DEF Warn, AddText, BeginSection
<1>5. Same(q, DumpSection(x), s)
  BY <1>1, <1>2, DumpSectionSame DEF DumpSection
<1> QED BY <1>3, <1>4, <1>5

\* A change of some other field of the entry.
LEMMA FieldSame ==
  ASSUME NEW q, NEW x, NEW s, Same(q, x, s), NEW v, NEW t
  PROVE  /\ Same(q, [x EXCEPT !.entry.identifier = v], s)
         /\ Same(q, [x EXCEPT !.entry.leading_space = v], s)
         /\ Same(q, [x EXCEPT !.entry.declaration_purpose = v], s)
         /\ Same(q, [x EXCEPT !.entry.leading_space = v, !.state = t], t)
         /\ Same(q, [x EXCEPT !.entry.prototype = v, !.state = t], t)
         /\ Same(q, [x EXCEPT !.entry.prototype = v], s)
BY DEF Same, SameEntry, ParserFields, EntryFields

LEMMA SameSelf ==
  ASSUME NEW q, IsParser(q)
  PROVE  Same(q, q, q.state)
BY DEF IsParser, Same, SameEntry

LEMMA ResetNormal ==
  ASSUME NEW q, DOMAIN q = ParserFields, NEW n
  PROVE  /\ IsParser(reset_state(q, n))
         /\ reset_state(q, n).state = "NORMAL"
         /\ reset_state(q, n).crashed = q.crashed
         /\ reset_state(q, n).entry.brcount = 0
<1>1. DOMAIN KernelEntry(n) = EntryFields /\ KernelEntry(n).brcount = 0
  BY DEF KernelEntry, EntryFields
<1>2. /\ DOMAIN reset_state(q, n) = ParserFields
      /\ reset_state(q, n).state = "NORMAL"
      /\ reset_state(q, n).crashed = q.crashed
      /\ reset_state(q, n).entry = KernelEntry(n)
  BY DEF reset_state, emit_unused_warnings, ParserFields
<1> QED BY <1>1, <1>2 DEF IsParser

\* With(v, F) is F(v), for the functions it is used with here.
LEMMA StoreFields ==
  ASSUME NEW q, DOMAIN q = ParserFields, NEW dumped
  PROVE  /\ DOMAIN Store(q, dumped) = ParserFields
         /\ Store(q, dumped).state = q.state
         /\ Store(q, dumped).crashed = q.crashed
<1> DEFINE r == [q EXCEPT !.entry = dumped.entry, !.out = dumped.item]
<1>1. Store(q, dumped) = r
  BY Zenon DEF Store, With
<1>2. DOMAIN r = ParserFields /\ r.state = q.state /\ r.crashed = q.crashed
  BY DEF ParserFields
<1> QED BY <1>1, <1>2

-----------------------------------------------------------------------------
(* The handlers of the lines of a comment. *)

LEMMA NameMethod ==
  ASSUME NEW q, IsParser(q), NEW n, NEW l, NEW r, r = process_name(q, n, l)
  PROVE  /\ IsParser(r)
         /\ r.crashed = q.crashed
         /\ l.kind = "doc" => Same(q, r, "DOCBLOCK")
         /\ l.kind = "decl" /\ (l.name # <<>> \/ l.type = "enum") =>
              /\ r.state \in {"DECLARATION", "BODY"}
              /\ r.entry.decl_type = l.type
              /\ r.entry.brcount = q.entry.brcount
<1> DEFINE purpose == HasPurpose(l)
           e == [begin_section(q.entry, n + 1, SECTION_DEFAULT) EXCEPT
                   !.identifier = DeclName(l), !.decl_type = DeclType(l),
                   !.declaration_purpose = IF purpose THEN <<n>> ELSE <<>>]
           q1 == [q EXCEPT !.entry = e, !.state = IF purpose THEN "DECLARATION" ELSE "BODY"]
           q2 == IF ~purpose /\ WShortDesc THEN Warn(q1, n, "missing description") ELSE q1
           nameless == e.identifier = <<>> /\ e.decl_type # "enum"
           doc1 == GoTo(BeginSection([q EXCEPT !.entry.identifier = l.name], n,
                                     Section(l.name[1])), "DOCBLOCK")
<1>1. r = IF l.kind = "doc" THEN doc1
          ELSE IF ~doc_decl(l) THEN Warn(q, n, "cannot find identifier")
          ELSE IF ~doc_begin_data(l) /\ ~doc_begin_func(l) THEN
                 GoTo(Warn(q, n, "not a kernel-doc comment"), "NORMAL")
          ELSE IF nameless THEN GoTo(Warn(q2, n, "wrong identifier"), "NORMAL")
          ELSE q2
  BY Zenon DEF process_name
<1>2. Same(q, q, q.state)
  BY SameSelf
<1>3. Same(q, doc1, "DOCBLOCK")
  <2> DEFINE named == [q EXCEPT !.entry.identifier = l.name]
  <2>1. Same(q, named, q.state)
    BY <1>2, FieldSame
  <2> HIDE DEF named
  <2>2. Same(q, GoTo(BeginSection(named, n, Section(l.name[1])), "DOCBLOCK"), "DOCBLOCK")
    BY <2>1, ParserMethods
  <2> QED BY <2>2 DEF named
<1>4. /\ DOMAIN e = EntryFields
      /\ e.decl_type = DeclType(l)
      /\ e.identifier = DeclName(l)
      /\ e.brcount = q.entry.brcount
  BY DEF IsParser, EntryFields, begin_section
<1> HIDE DEF e
<1>5. /\ IsParser(q1)
      /\ q1.state \in {"DECLARATION", "BODY"}
      /\ q1.crashed = q.crashed
      /\ q1.entry = e
  BY <1>4 DEF IsParser, ParserFields
<1> HIDE DEF q1
<1>6. Same(q1, q1, q1.state)
  BY <1>5, SameSelf
<1>7. Same(q1, q2, q1.state)
  BY <1>6, ParserMethods
<1> HIDE DEF q2
<1>8. Same(q1, GoTo(Warn(q2, n, "wrong identifier"), "NORMAL"), "NORMAL")
  BY <1>7, ParserMethods
<1>9. /\ Same(q, Warn(q, n, "cannot find identifier"), q.state)
      /\ Same(q, GoTo(Warn(q, n, "not a kernel-doc comment"), "NORMAL"), "NORMAL")
  BY <1>2, ParserMethods
<1>10. \A a, x, s : Same(a, x, s) => IsParser(x) /\ x.crashed = a.crashed
  BY DEF Same, SameEntry, IsParser
<1> HIDE DEF doc1
<1>11. IsParser(r) /\ r.crashed = q.crashed
  <2>1. \/ r = doc1
        \/ r = Warn(q, n, "cannot find identifier")
        \/ r = GoTo(Warn(q, n, "not a kernel-doc comment"), "NORMAL")
        \/ r = GoTo(Warn(q2, n, "wrong identifier"), "NORMAL")
        \/ r = q2
    BY <1>1, Zenon
  <2>2. \/ Same(q, r, "DOCBLOCK") \/ Same(q, r, q.state) \/ Same(q, r, "NORMAL")
        \/ Same(q1, r, "NORMAL") \/ Same(q1, r, q1.state)
    BY <1>3, <1>7, <1>8, <1>9, <2>1, Zenon
  <2> QED BY <1>5, <1>10, <2>2
<1>12. l.kind = "doc" => Same(q, r, "DOCBLOCK")
  BY <1>1, <1>3
<1>13. ASSUME l.kind = "decl", l.name # <<>> \/ l.type = "enum"
       PROVE  /\ r.state \in {"DECLARATION", "BODY"}
              /\ r.entry.decl_type = l.type
              /\ r.entry.brcount = q.entry.brcount
  <2>1. doc_decl(l) /\ doc_begin_func(l) /\ ~IsCode(l) /\ l.kind # "doc"
    BY <1>13 DEF doc_decl, doc_begin_func, IsCode
  <2>2. DeclName(l) = l.name /\ DeclType(l) = l.type
    BY <1>13, <2>1 DEF DeclName, DeclType, doc_begin_data
  <2>3. r = q2
    BY <1>1, <1>4, <1>13, <2>1, <2>2
  <2> QED BY <1>4, <1>5, <1>7, <2>2, <2>3 DEF Same, SameEntry
<1> QED BY <1>11, <1>12, <1>13

\* The states of the comment of a declaration, after its first line.
BodyStates == {"DECLARATION", "SPECIAL_SECTION", "BODY"}
InBody(q, r) == \E s \in BodyStates : Same(q, r, s)

\* What a line of such a comment does to the parser. Only a stray line may raise.
BodyStep(q, l, r) ==
  /\ IsParser(r)
  /\ l.kind # "stray" =>
       /\ l.kind = "end" /\ l.closes => Same(q, r, "PROTO")
       /\ ~l.closes => InBody(q, r)

LEMMA SameShape ==
  ASSUME NEW q, NEW r, NEW s, Same(q, r, s)
  PROVE  IsParser(r) /\ r.crashed = q.crashed /\ r.state = s
BY DEF Same, SameEntry, IsParser

LEMMA SectionEnds ==
  ASSUME NEW q, IsParser(q), q.state \in BodyStates, NEW n, NEW l,
         NEW o, IsParser(o), l.kind # "stray" => InBody(q, o)
  PROVE  BodyStep(q, l, SectionEndOr(q, n, l, o))
<1>1. Same(q, q, q.state)
  BY SameSelf
<1>2. InBody(q, is_new_section(q, n, l))
  <2> DEFINE q1 == BeginSection(DumpSection(q), n, Title(l))
             special == Title(l).param \/ Title(l).name \in Special
             s == IF special THEN "SPECIAL_SECTION" ELSE "BODY"
             q3 == [q1 EXCEPT !.entry.leading_space = -1, !.state = s]
  <2>1. Same(q, q1, q.state)
    BY <1>1, ParserMethods
  <2>2. s \in BodyStates
    BY DEF BodyStates
  <2> HIDE DEF q1, s
  <2>3. Same(q, q3, s)
    BY <2>1, FieldSame
  <2> HIDE DEF q3
  <2>4. Same(q, AddText(q3, <<n>>), s)
    BY <2>3, ParserMethods
  <2>5. is_new_section(q, n, l) = AddText(q3, <<n>>)
    BY Zenon DEF is_new_section, q1, q3, s
  <2> QED BY <2>2, <2>4, <2>5 DEF InBody
<1>3. Same(q, is_comment_end(q, n, l), "PROTO")
  <2> DEFINE q1 == DumpSection(q)
             q2 == IF l.kind = "tight" THEN Warn(q1, n, "suspicious ending line") ELSE q1
  <2>1. Same(q, q1, q.state)
    BY <1>1, ParserMethods
  <2> HIDE DEF q1
  <2>2. Same(q, q2, q.state)
    BY <2>1, ParserMethods
  <2> HIDE DEF q2
  <2>3. Same(q, [q2 EXCEPT !.entry.prototype = <<>>, !.state = "PROTO"], "PROTO")
    BY <2>2, FieldSame
  <2> QED BY <2>3, Zenon DEF is_comment_end, q1, q2
<1>4. InBody(q, Warn(q, n, "bad line"))
  BY <1>1, ParserMethods DEF InBody
<1>5. l.kind = "end" /\ l.closes => SectionEndOr(q, n, l, o) = is_comment_end(q, n, l)
  BY DEF SectionEndOr, doc_sect, doc_end
<1>6. ~l.closes => SectionEndOr(q, n, l, o) \in {is_new_section(q, n, l), Warn(q, n, "bad line"), o}
  BY DEF SectionEndOr, doc_end
<1>7. SectionEndOr(q, n, l, o) \in {is_new_section(q, n, l), is_comment_end(q, n, l),
                                    Warn(q, n, "bad line"), o}
  BY DEF SectionEndOr
<1>8. \A r : InBody(q, r) => IsParser(r)
  BY SameShape DEF InBody
<1>9. IsParser(SectionEndOr(q, n, l, o))
  BY <1>2, <1>3, <1>4, <1>7, <1>8, SameShape
<1> QED BY <1>2, <1>3, <1>4, <1>5, <1>6, <1>9 DEF BodyStep

LEMMA DeclMethod ==
  ASSUME NEW q, IsParser(q), q.state \in BodyStates, NEW n, NEW l
  PROVE  BodyStep(q, l, process_decl(q, n, l))
<1> DEFINE cont == Content(l, n)
           purpose == q.entry.declaration_purpose \o cont
           more == [q EXCEPT !.entry.declaration_purpose = purpose]
           o == IF cont = <<>> THEN GoTo(q, "BODY") ELSE more
<1>1. Same(q, q, q.state)
  BY SameSelf
<1>2. Same(q, GoTo(q, "BODY"), "BODY")
  BY <1>1, ParserMethods
<1>3. Same(q, more, q.state)
  <2> HIDE DEF purpose
  <2> QED BY <1>1, FieldSame
<1>4. InBody(q, o)
  <2> HIDE DEF more
  <2> QED BY <1>2, <1>3 DEF InBody, BodyStates
<1>5. process_decl(q, n, l) = SectionEndOr(q, n, l, o)
  BY Zenon DEF process_decl
<1> HIDE DEF o
<1>6. IsParser(o)
  BY <1>4, SameShape DEF InBody
<1> QED BY <1>4, <1>5, <1>6, SectionEnds

LEMMA SpecialMethod ==
  ASSUME NEW q, IsParser(q), q.state \in BodyStates, NEW n, NEW l
  PROVE  BodyStep(q, l, process_special(q, n, l))
<1> DEFINE cont == Content(l, n)
           found == IF q.entry.leading_space # -1 THEN q.entry.leading_space
                    ELSE IF l.kind = "indented" THEN 1 ELSE 0
           trimmed == IF l.kind = "indented" THEN found ELSE 0
           raised == [q EXCEPT !.crashed = TRUE]
           added == AddText([q EXCEPT !.entry.leading_space = trimmed], cont)
           o == IF found > 0 /\ cont = <<>> THEN raised ELSE added
           ends == GoTo(BeginSection(DumpSection(q), n, SECTION_DEFAULT), "BODY")
<1>1. process_special(q, n, l) = IF EndsSpecial(l) THEN ends ELSE SectionEndOr(q, n, l, o)
  BY Zenon DEF process_special
<1>2. Same(q, q, q.state)
  BY SameSelf
<1>3. Same(q, ends, "BODY")
  BY <1>2, ParserMethods
<1>4. Same(q, added, q.state)
  <2> HIDE DEF trimmed, cont
  <2> QED BY <1>2, FieldSame, ParserMethods
<1>5. IsParser(raised)
  BY DEF IsParser, ParserFields
<1> HIDE DEF ends, added, raised
<1>6. CASE EndsSpecial(l)
  <2>1. l.kind = "blank" /\ process_special(q, n, l) = ends
    BY <1>1, <1>6 DEF EndsSpecial
  <2>2. InBody(q, ends) /\ IsParser(ends)
    BY <1>3, SameShape DEF InBody, BodyStates
  <2> QED BY <2>1, <2>2 DEF BodyStep
<1>7. CASE ~EndsSpecial(l)
  <2>1. l.kind # "stray" => o = added
    <3>1. l.kind # "stray" => cont # <<>>
      BY <1>7 DEF Content, EndsSpecial
    <3> HIDE DEF cont, found
    <3> QED BY <3>1
  <2>2. o = raised \/ o = added
    OBVIOUS
  <2> HIDE DEF o
  <2>3. IsParser(o) /\ (l.kind # "stray" => InBody(q, o))
    BY <1>4, <1>5, <2>1, <2>2, SameShape DEF InBody
  <2> QED BY <1>1, <1>7, <2>3, SectionEnds
<1> QED BY <1>6, <1>7

LEMMA BodyMethod ==
  ASSUME NEW q, IsParser(q), q.state \in BodyStates, NEW n, NEW l
  PROVE  BodyStep(q, l, process_body(q, n, l))
<1>1. Same(q, AddText(q, Content(l, n)), q.state)
  BY SameSelf, ParserMethods
<1>2. IsParser(AddText(q, Content(l, n))) /\ InBody(q, AddText(q, Content(l, n)))
  BY <1>1, SameShape DEF InBody
<1> QED BY <1>2, SectionEnds DEF process_body

LEMMA InlineTextMethod ==
  ASSUME NEW q, IsParser(q), NEW n, NEW l
  PROVE  Same(q, process_inline_text(q, n, l), IF l.kind = "end" THEN "PROTO" ELSE q.state)
BY SameSelf, ParserMethods DEF process_inline_text

LEMMA DocBlockMethod ==
  ASSUME NEW q, IsParser(q), NEW n, NEW l, NEW r, r = process_docblock(q, n, l)
  PROVE  /\ IsParser(r)
         /\ r.crashed = q.crashed
         /\ l.closes => r.state = "NORMAL"
         /\ ~l.closes => Same(q, r, q.state)
<1> DEFINE q1 == DumpSection(q)
           item == output_declaration(q1.entry, n, "doc", q.entry.identifier)
<1>1. Same(q, q, q.state) /\ Same(q, q1, q.state)
  BY SameSelf, ParserMethods
<1>2. CASE doc_end(l)
  <2>1. r = reset_state(Store(q1, item), n)
    BY <1>2, Zenon DEF process_docblock
  <2> HIDE DEF q1, item
  <2>2. DOMAIN Store(q1, item) = ParserFields /\ Store(q1, item).crashed = q1.crashed
    BY <1>1, StoreFields DEF Same
  <2> QED BY <1>1, <1>2, <2>1, <2>2, ResetNormal DEF Same, doc_end
<1>3. CASE ~doc_end(l)
  <2>1. r = AddText(q, Content(l, n)) \/ r = q
    BY <1>3 DEF process_docblock
  <2>2. Same(q, r, q.state)
    BY <1>1, <2>1, ParserMethods
  <2> QED BY <1>3, <2>2, SameShape DEF doc_end
<1> QED BY <1>2, <1>3

-----------------------------------------------------------------------------
(* The prototype *)

\* The braces that the first k tokens leave open.
Opens(toks, k) == Cardinality({i \in 1 .. k : IsOpen(toks[i])})
Closes(toks, k) == Cardinality({i \in 1 .. k : IsClose(toks[i])})
Braces(toks, k) == Opens(toks, k) - Closes(toks, k)

LEMMA CountStep ==
  ASSUME NEW k \in Nat, NEW A
  PROVE  /\ Cardinality(A \cap (1 .. k)) \in Nat
         /\ Cardinality(A \cap (1 .. (k + 1)))
              = Cardinality(A \cap (1 .. k)) + IF k + 1 \in A THEN 1 ELSE 0
<1> DEFINE S == A \cap (1 .. k)
<1>1. IsFiniteSet(S)
  <2>1. IsFiniteSet(1 .. k)
    BY FS_Interval
  <2> QED BY <2>1, FS_Subset
<1>2. A \cap (1 .. (k + 1)) = IF k + 1 \in A THEN S \cup {k + 1} ELSE S
  <2>1. 1 .. (k + 1) = (1 .. k) \cup {k + 1}
    OBVIOUS
  <2> QED BY <2>1
<1>3. k + 1 \notin S
  OBVIOUS
<1> HIDE DEF S
<1>4. Cardinality(S) \in Nat
  BY <1>1, FS_CardinalityType
<1>5. Cardinality(S \cup {k + 1}) = Cardinality(S) + 1
  BY <1>1, <1>3, FS_AddElement
<1>6. Cardinality(A \cap (1 .. (k + 1))) = Cardinality(S) + IF k + 1 \in A THEN 1 ELSE 0
  BY <1>2, <1>4, <1>5
<1> QED BY <1>4, <1>6 DEF S

LEMMA BracesStep ==
  ASSUME NEW toks, NEW k \in Nat
  PROVE  /\ Braces(toks, k) \in Int
         /\ Braces(toks, k + 1) = Braces(toks, k) + (IF IsOpen(toks[k + 1]) THEN 1 ELSE 0)
                                                 - (IF IsClose(toks[k + 1]) THEN 1 ELSE 0)
<1> DEFINE O == {i \in Nat : IsOpen(toks[i])}
           C == {i \in Nat : IsClose(toks[i])}
<1>1. ASSUME NEW j \in Nat
      PROVE  /\ Opens(toks, j) = Cardinality(O \cap (1 .. j))
             /\ Closes(toks, j) = Cardinality(C \cap (1 .. j))
  <2>1. /\ O \cap (1 .. j) = {i \in 1 .. j : IsOpen(toks[i])}
        /\ C \cap (1 .. j) = {i \in 1 .. j : IsClose(toks[i])}
    OBVIOUS
  <2> QED BY <2>1 DEF Opens, Closes
<1>2. /\ k + 1 \in Nat
      /\ k + 1 \in O <=> IsOpen(toks[k + 1])
      /\ k + 1 \in C <=> IsClose(toks[k + 1])
  OBVIOUS
<1> HIDE DEF O, C
<1>3. /\ Opens(toks, k) \in Nat
      /\ Opens(toks, k + 1) = Opens(toks, k) + IF IsOpen(toks[k + 1]) THEN 1 ELSE 0
  <2>1. /\ Cardinality(O \cap (1 .. k)) \in Nat
        /\ Cardinality(O \cap (1 .. (k + 1)))
             = Cardinality(O \cap (1 .. k)) + IF k + 1 \in O THEN 1 ELSE 0
    BY CountStep
  <2> QED BY <1>1, <1>2, <2>1
<1>4. /\ Closes(toks, k) \in Nat
      /\ Closes(toks, k + 1) = Closes(toks, k) + IF IsClose(toks[k + 1]) THEN 1 ELSE 0
  <2>1. /\ Cardinality(C \cap (1 .. k)) \in Nat
        /\ Cardinality(C \cap (1 .. (k + 1)))
             = Cardinality(C \cap (1 .. k)) + IF k + 1 \in C THEN 1 ELSE 0
    BY CountStep
  <2> QED BY <1>1, <1>2, <2>1
<1> QED BY <1>3, <1>4 DEF Braces

LEMMA BracesZero ==
  ASSUME NEW toks
  PROVE  Braces(toks, 0) = 0
<1>1. {i \in 1 .. 0 : IsOpen(toks[i])} = {} /\ {i \in 1 .. 0 : IsClose(toks[i])} = {}
  OBVIOUS
<1>2. Opens(toks, 0) = 0 /\ Closes(toks, 0) = 0
  BY <1>1, FS_EmptySet DEF Opens, Closes
<1> QED BY <1>2 DEF Braces

LEMMA SemicolonToken ==
  /\ IsSemicolon(Semicolon)
  /\ ~IsOpen(Semicolon)
  /\ ~IsClose(Semicolon)
<1>1. \A kind, str : /\ Tok(kind, str).kind = kind
                    /\ \A other : other # str => ~Is(Tok(kind, str), other)
  BY DEF Tok, Is
<1>2. "{" # ";" /\ "}" # ";"
  BY Zenon
<1> QED BY <1>1, <1>2, Zenon DEF Semicolon, IsSemicolon, IsOpen, IsClose

\* Where a declaration with c open braces ends among the first k tokens.
Ends(c, toks, k) == \E j \in 1 .. k : IsSemicolon(toks[j]) /\ c + Braces(toks, j) <= 0

\* After k tokens of process_proto_type().
Chunked(b, s, k, g) ==
  /\ DOMAIN g = {"q", "whole"}
  /\ g.whole \in {"no", "type"}
  /\ DOMAIN g.q = ParserFields
  /\ DOMAIN g.q.entry = EntryFields
  /\ g.q.state = b.q.state
  /\ g.q.crashed = b.q.crashed
  /\ g.q.entry.decl_type = b.q.entry.decl_type
  /\ b.q.entry.brcount \in Int =>
       /\ (g.whole = "type") <=> Ends(b.q.entry.brcount, s, k)
       /\ g.whole = "no" => g.q.entry.brcount = b.q.entry.brcount + Braces(s, k)
Chunks == INSTANCE FoldTheorems WITH Op <- Chunk, Rel <- Chunked

LEMMA ChunkStep ==
  ASSUME NEW b, NEW s, NEW k \in Nat, NEW g, Chunked(b, s, k, g)
  PROVE  Chunked(b, s, k + 1, Chunk(g, s[k + 1]))
<1> DEFINE t == s[k + 1]
           brcount == g.q.entry.brcount + (IF IsOpen(t) THEN 1 ELSE 0)
                                        - (IF IsClose(t) THEN 1 ELSE 0)
           prototype == Append(g.q.entry.prototype, t)
           q1 == [g.q EXCEPT !.entry.prototype = prototype, !.entry.brcount = brcount]
           c == b.q.entry.brcount
<1>1. Chunk(g, t) = IF g.whole # "no" THEN g
                    ELSE IF IsSemicolon(t) /\ brcount <= 0 THEN [q |-> q1, whole |-> "type"]
                    ELSE [q |-> q1, whole |-> "no"]
  BY Zenon DEF Chunk, WholeType, Gathering
<1>2. /\ DOMAIN q1 = ParserFields
      /\ DOMAIN q1.entry = EntryFields
      /\ q1.state = g.q.state
      /\ q1.crashed = g.q.crashed
      /\ q1.entry.decl_type = g.q.entry.decl_type
      /\ q1.entry.brcount = brcount
  <2> HIDE DEF brcount, prototype
  <2> QED BY DEF Chunked, ParserFields, EntryFields
<1>3. Braces(s, k) \in Int /\ Braces(s, k + 1) = Braces(s, k)
        + (IF IsOpen(t) THEN 1 ELSE 0) - (IF IsClose(t) THEN 1 ELSE 0)
  BY BracesStep
<1>4. c \in Int =>
        (Ends(c, s, k + 1) <=> Ends(c, s, k) \/ (IsSemicolon(t) /\ c + Braces(s, k + 1) <= 0))
  <2>1. 1 .. (k + 1) = (1 .. k) \cup {k + 1}
    OBVIOUS
  <2> QED BY <2>1, Zenon DEF Ends
<1> HIDE DEF q1
<1>5. CASE g.whole # "no"
  BY <1>1, <1>4, <1>5 DEF Chunked
<1>6. CASE g.whole = "no"
  <2>1. c \in Int => brcount = c + Braces(s, k + 1)
    BY <1>3, <1>6 DEF Chunked
  <2>2. c \in Int => ~Ends(c, s, k)
    BY <1>6 DEF Chunked
  <2> HIDE DEF brcount, c, t
  <2>3. CASE IsSemicolon(t) /\ brcount <= 0
    <3>1. Chunk(g, t) = [q |-> q1, whole |-> "type"]
      BY <1>1, <1>6, <2>3
    <3>2. c \in Int => Ends(c, s, k + 1)
      BY <1>4, <2>1, <2>3
    <3> QED BY <1>2, <3>1, <3>2 DEF Chunked, c, t
  <2>4. CASE ~(IsSemicolon(t) /\ brcount <= 0)
    <3>1. Chunk(g, t) = [q |-> q1, whole |-> "no"]
      BY <1>1, <1>6, <2>4
    <3>2. c \in Int => ~Ends(c, s, k + 1)
      BY <1>4, <2>1, <2>2, <2>4
    <3> QED BY <1>2, <2>1, <3>1, <3>2 DEF Chunked, c, t
  <2> QED BY <2>3, <2>4
<1> QED BY <1>5, <1>6 DEF Chunked

\* process_proto_type() on the tokens of a line.
LEMMA ProtoTypeMethod ==
  ASSUME NEW q, IsParser(q), NEW n, NEW E, NEW toks \in Seq(E), toks # <<>>,
         NEW g, g = process_proto_type(q, n, toks)
  PROVE  /\ DOMAIN g = {"q", "whole"}
         /\ g.whole \in {"no", "type"}
         /\ IsParser(g.q)
         /\ g.q.state = q.state
         /\ g.q.crashed = q.crashed
         /\ g.q.entry.decl_type = q.entry.decl_type
         /\ q.entry.brcount \in Int =>
              /\ (g.whole = "type") <=>
                   \E k \in DOMAIN toks :
                     /\ IsSemicolon(toks[k]) \/ (k = Len(toks) /\ toks[1].kind = "CPP")
                     /\ q.entry.brcount + Braces(toks, k) <= 0
              /\ g.whole = "no" => g.q.entry.brcount = q.entry.brcount + Braces(toks, Len(toks))
<1> DEFINE b == Gathering(q)
           s == IF toks[1].kind = "CPP" THEN Append(toks, Semicolon) ELSE toks
           c == q.entry.brcount
<1>1. s \in Seq(E \cup {Semicolon})
  OBVIOUS
<1>2. g = Chunks!Folded(b, s)
  <2> HIDE DEF b, s
  <2>1. FoldLeft(Chunk, b, s) = Chunks!Folded(b, s)
    BY Zenon DEF Chunks!Folded, FoldLeft, Chunks!FoldLeft, MapThenFoldSet,
                 Chunks!MapThenFoldSet, Max, Chunks!Max
  <2> QED BY <2>1 DEF process_proto_type, b, s
<1>3. b.q = q /\ b.whole = "no" /\ DOMAIN b = {"q", "whole"}
  BY DEF Gathering
<1>4. Chunked(b, s, 0, b)
  <2> HIDE DEF b, s
  <2>1. Braces(s, 0) = 0
    BY BracesZero
  <2>2. ~Ends(c, s, 0)
    BY DEF Ends
  <2> QED BY <1>3, <2>1, <2>2 DEF Chunked, IsParser
<1>5. Chunked(b, s, Len(s), g)
  <2> HIDE DEF b, s
  <2> QED BY <1>1, <1>2, <1>4, ChunkStep, Chunks!FoldKeeps
<1>6. ASSUME c \in Int
      PROVE  /\ Ends(c, s, Len(s)) <=>
                  \E k \in DOMAIN toks :
                     /\ IsSemicolon(toks[k]) \/ (k = Len(toks) /\ toks[1].kind = "CPP")
                     /\ c + Braces(toks, k) <= 0
             /\ Braces(s, Len(s)) = Braces(toks, Len(toks))
  <2>1. DOMAIN toks = 1 .. Len(toks) /\ Len(toks) \in Nat /\ Len(toks) >= 1
    OBVIOUS
  <2>2. CASE toks[1].kind # "CPP"
    <3>1. s = toks
      BY <2>2
    <3> QED BY <2>1, <2>2, <3>1 DEF Ends
  <2>3. CASE toks[1].kind = "CPP"
    <3> DEFINE m == Len(toks)
    <3>1. s = Append(toks, Semicolon)
      BY <2>3
    <3>2. /\ Len(s) = m + 1
          /\ s[m + 1] = Semicolon
          /\ \A i \in 1 .. m : s[i] = toks[i]
      <4> HIDE DEF s
      <4> QED BY <2>1, <3>1
    <3> HIDE DEF s
    <3>3. ASSUME NEW k \in 1 .. m PROVE Braces(s, k) = Braces(toks, k)
      <4>1. \A i \in 1 .. k : s[i] = toks[i]
        BY <2>1, <3>2
      <4>2. /\ {i \in 1 .. k : IsOpen(s[i])} = {i \in 1 .. k : IsOpen(toks[i])}
            /\ {i \in 1 .. k : IsClose(s[i])} = {i \in 1 .. k : IsClose(toks[i])}
        BY <4>1
      <4> QED BY <4>2 DEF Braces, Opens, Closes
    <3>4. IsSemicolon(s[m + 1]) /\ ~IsOpen(s[m + 1]) /\ ~IsClose(s[m + 1])
      BY <3>2, SemicolonToken
    <3>5. Braces(s, m + 1) = Braces(toks, m)
      <4>1. Braces(s, m) = Braces(toks, m)
        BY <2>1, <3>3
      <4>2. Braces(s, m) \in Int /\ Braces(s, m + 1) = Braces(s, m)
              + (IF IsOpen(s[m + 1]) THEN 1 ELSE 0) - (IF IsClose(s[m + 1]) THEN 1 ELSE 0)
        BY <2>1, BracesStep
      <4> QED BY <3>4, <4>1, <4>2
    <3>6. Ends(c, s, m + 1) <=> Ends(c, toks, m) \/ c + Braces(toks, m) <= 0
      <4>1. 1 .. (m + 1) = (1 .. m) \cup {m + 1}
        BY <2>1
      <4>2. Ends(c, s, m + 1) <=> Ends(c, s, m) \/ c + Braces(s, m + 1) <= 0
        BY <3>4, <4>1, Zenon DEF Ends
      <4>3. Ends(c, s, m) <=> Ends(c, toks, m)
        BY <3>2, <3>3 DEF Ends
      <4> QED BY <3>5, <4>2, <4>3
    <3>7. (\E k \in 1 .. m :
             /\ IsSemicolon(toks[k]) \/ (k = m /\ toks[1].kind = "CPP")
             /\ c + Braces(toks, k) <= 0)
          <=> Ends(c, toks, m) \/ c + Braces(toks, m) <= 0
      <4>1. m \in 1 .. m
        BY <2>1
      <4> QED BY <2>3, <4>1, Zenon DEF Ends
    <3> QED BY <2>1, <3>2, <3>5, <3>6, <3>7
  <2> QED BY <2>2, <2>3
<1> HIDE DEF b, s, c
<1> QED BY <1>3, <1>5, <1>6 DEF Chunked, IsParser, c

LEMMA ProtoFunctionMethod ==
  ASSUME NEW q, IsParser(q), NEW n, NEW toks, NEW g, g = process_proto_function(q, n, toks)
  PROVE  /\ DOMAIN g = {"q", "whole"}
         /\ Same(q, g.q, q.state)
         /\ g.whole = IF \/ toks[1] = Cpp("define")
                         \/ \E k \in DOMAIN toks : IsSemicolon(toks[k]) \/ IsOpen(toks[k])
                      THEN "function" ELSE "no"
<1> DEFINE define == toks[1] = Cpp("define")
           brace == FirstBrace(toks)
           upto == IF brace = 0 THEN toks ELSE SubSeq(toks, 1, brace - 1)
           proto == IF define THEN toks
                    ELSE IF toks[1].kind = "CPP" THEN q.entry.prototype
                    ELSE q.entry.prototype \o upto
           whole == define \/ \E i \in DOMAIN toks : IsOpen(toks[i]) \/ IsSemicolon(toks[i])
           code == PointerProto(NoComments(proto))
<1>1. g = IF whole THEN [q |-> [q EXCEPT !.entry.prototype = code], whole |-> "function"]
          ELSE [q |-> [q EXCEPT !.entry.prototype = proto], whole |-> "no"]
  BY Zenon DEF process_proto_function, WholeFunction, Gathering
<1>2. whole <=> \/ toks[1] = Cpp("define")
                \/ \E k \in DOMAIN toks : IsSemicolon(toks[k]) \/ IsOpen(toks[k])
  BY Zenon
<1> HIDE DEF proto, code, whole
<1>3. /\ Same(q, [q EXCEPT !.entry.prototype = code], q.state)
      /\ Same(q, [q EXCEPT !.entry.prototype = proto], q.state)
  BY SameSelf, FieldSame
<1>4. CASE whole
  <2>1. g = [q |-> [q EXCEPT !.entry.prototype = code], whole |-> "function"]
    BY <1>1, <1>4
  <2>2. DOMAIN g = {"q", "whole"} /\ g.q = [q EXCEPT !.entry.prototype = code]
          /\ g.whole = "function"
    BY <2>1
  <2> QED BY <1>2, <1>3, <1>4, <2>2
<1>5. CASE ~whole
  <2>1. g = [q |-> [q EXCEPT !.entry.prototype = proto], whole |-> "no"]
    BY <1>1, <1>5
  <2>2. DOMAIN g = {"q", "whole"} /\ g.q = [q EXCEPT !.entry.prototype = proto]
          /\ g.whole = "no"
    BY <2>1
  <2> QED BY <1>2, <1>3, <1>5, <2>2
<1> QED BY <1>4, <1>5

\* What a handler of prototype lines hands to Finish.
IsGathered(g) == /\ g.whole \in {"no", "type", "function"}
                 /\ IsParser(g.q)
                 /\ ~g.q.crashed

LEMMA FinishMethod ==
  ASSUME NEW g, IsGathered(g), NEW n, NEW r, r = Finish(g, n)
  PROVE  /\ IsParser(r)
         /\ g.whole = "no" => r = g.q
         /\ g.whole = "function" \/ (g.whole = "type" /\ g.q.entry.decl_type \in Declarations
                                                      /\ g.q.entry.decl_type # "function")
              => r.state = "NORMAL" /\ ~r.crashed
<1> DEFINE reset(q) == IF q.crashed THEN q ELSE reset_state(q, n)
           dumped == dump_declaration(g.q, n)
           stored == Store(g.q, dump_function(g.q.entry, n, g.q.entry.prototype))
<1>1. g.whole = "type" => r = reset(dumped)
  <2>1. g.whole = "type" => r = CHOOSE y \in {reset(x) : x \in {dumped}} : TRUE
    BY Zenon DEF Finish, With
  <2> HIDE DEF reset, dumped
  <2>2. {reset(x) : x \in {dumped}} = {reset(dumped)}
    OBVIOUS
  <2> QED BY <2>1, <2>2, Zenon
<1>2. g.whole = "function" => r = reset_state(stored, n)
  BY Zenon DEF Finish, With
<1>3. g.whole = "no" => r = g.q
  BY DEF Finish
<1>4. DOMAIN g.q = ParserFields /\ ~g.q.crashed /\ g.whole \in {"no", "type", "function"}
        /\ IsParser(g.q)
  BY DEF IsGathered, IsParser
<1>5. DOMAIN stored = ParserFields /\ ~stored.crashed
  BY <1>4, StoreFields
<1>6. \/ \E d : dumped = Store(g.q, d)
      \/ /\ dumped = [g.q EXCEPT !.crashed = TRUE]
         /\ ~(g.q.entry.decl_type \in Declarations /\ g.q.entry.decl_type # "function")
  BY Zenon DEF dump_declaration, Declarations
<1> HIDE DEF stored, dumped
<1>7. CASE \E d : dumped = Store(g.q, d)
  <2>1. DOMAIN dumped = ParserFields /\ ~dumped.crashed
    BY <1>4, <1>7, StoreFields
  <2>2. reset(dumped) = reset_state(dumped, n)
    BY <2>1
  <2> HIDE DEF reset
  <2> QED BY <1>1, <1>2, <1>3, <1>4, <1>5, <2>1, <2>2, ResetNormal
<1>8. CASE /\ dumped = [g.q EXCEPT !.crashed = TRUE]
           /\ ~(g.q.entry.decl_type \in Declarations /\ g.q.entry.decl_type # "function")
  <2>1. IsParser(dumped) /\ dumped.crashed
    BY <1>4, <1>8 DEF IsParser, ParserFields
  <2>2. reset(dumped) = dumped
    BY <2>1
  <2> HIDE DEF reset
  <2> QED BY <1>1, <1>2, <1>3, <1>4, <1>5, <1>8, <2>1, <2>2, ResetNormal
<1> QED BY <1>6, <1>7, <1>8

LEMMA ProtoToksSeq ==
  ASSUME NEW l, IsCode(l) => l.toks \in TokenLists /\ l.toks # <<>>
  PROVE  /\ \E E : ProtoToks(l) \in Seq(E) /\ ProtoToks(l) # <<>>
         /\ \E E : <<Comment("/**")>> \o ProtoToks(l) \in Seq(E)
                  /\ <<Comment("/**")>> \o ProtoToks(l) # <<>>
<1> DEFINE words == Comment("words")
           begins == Comment("/**")
<1>1. \E E : ProtoToks(l) \in Seq(E) /\ ProtoToks(l) # <<>>
  <2>1. CASE IsCode(l)
    <3>1. ProtoToks(l) = l.toks
      BY <2>1, Zenon DEF ProtoToks, IsCode
    <3>2. \E E : l.toks \in Seq(E)
      BY <2>1 DEF TokenLists
    <3> QED BY <2>1, <3>1, <3>2
  <2>2. CASE ~IsCode(l)
    <3>1. ProtoToks(l) \in {<<words, Semicolon>>, <<words>>}
      BY <2>2, Zenon DEF ProtoToks
    <3> HIDE DEF words
    <3>2. /\ <<words, Semicolon>> \in Seq({words, Semicolon})
          /\ <<words>> \in Seq({words, Semicolon})
          /\ <<words, Semicolon>> # <<>>
          /\ <<words>> # <<>>
      OBVIOUS
    <3>3. ProtoToks(l) \in Seq({words, Semicolon}) /\ ProtoToks(l) # <<>>
      BY <3>1, <3>2, Zenon
    <3> QED BY <3>3
  <2> QED BY <2>1, <2>2
<1>2. PICK E : ProtoToks(l) \in Seq(E)
  BY <1>1
<1> HIDE DEF begins
<1>3. <<begins>> \o ProtoToks(l) \in Seq(E \cup {begins}) /\ <<begins>> \o ProtoToks(l) # <<>>
  BY <1>2
<1>4. \E F : <<begins>> \o ProtoToks(l) \in Seq(F) /\ <<begins>> \o ProtoToks(l) # <<>>
  BY <1>3
<1> QED BY <1>1, <1>4, Zenon DEF begins

-----------------------------------------------------------------------------
(* The inductive invariant *)

DocFields == {"phase", "pending", "inside", "type", "depth", "wf", "where", "text", "odd",
              "exports"}

IsDoc(d) ==
  /\ DOMAIN d = DocFields
  /\ d.phase \in {"code", "first", "later"}
  /\ d.wf \in BOOLEAN
  /\ d.pending \in BOOLEAN
  /\ d.inside \in BOOLEAN
  /\ d.depth \in Int

\* The state of the parser for a phase of the file.
InStep(d, q) ==
  /\ d.phase = "code" => q.state = IF d.pending THEN "PROTO" ELSE "NORMAL"
  /\ d.phase = "first" => q.state = IF d.inside THEN "INLINE_NAME" ELSE "NAME"
  /\ d.phase = "later" => IF d.inside THEN q.state = "INLINE_TEXT"
                          ELSE IF d.type = "doc" THEN q.state = "DOCBLOCK"
                          ELSE q.state \in BodyStates

\* What is documented, and how many of its braces are open.
Documents(d, q) ==
  /\ d.phase # "code" => d.inside = d.pending
  /\ d.pending \/ (d.phase = "later" /\ d.type # "doc") =>
       /\ d.type \in Declarations
       /\ q.entry.decl_type = d.type
  /\ \/ d.pending /\ d.type # "function"
     \/ ~d.pending /\ d.phase # "code"
     => q.entry.brcount = d.depth

Sync(d, q) == d.wf => ~q.crashed /\ InStep(d, q) /\ Documents(d, q)

IInv ==
  /\ IsParser(p)
  /\ IsDoc(doc)
  /\ prev \in TokenLists
  /\ Sync(doc, p)
  /\ doc.exports \subseteq exports

-----------------------------------------------------------------------------
(* The reader *)

\* x is d with other text.
SameDoc(d, x) ==
  /\ DOMAIN x = DocFields
  /\ x.phase = d.phase /\ x.pending = d.pending /\ x.inside = d.inside
  /\ x.type = d.type /\ x.depth = d.depth /\ x.wf = d.wf /\ x.exports = d.exports

LEMMA WriteSame ==
  ASSUME NEW d, DOMAIN d = DocFields, NEW title, NEW n
  PROVE  SameDoc(d, Write(d, title, n)) /\ SameDoc(d, Rewrite(d, title, n))
<1>1. ASSUME NEW x, SameDoc(d, x) PROVE SameDoc(d, Write(x, title, n))
  BY <1>1 DEF SameDoc, DocFields, Write
<1>2. SameDoc(d, d)
  BY DEF SameDoc
<1>3. \A text : SameDoc(d, [d EXCEPT !.text = text, !.where = title])
  BY DEF SameDoc, DocFields
<1>4. SameDoc(d, Rewrite(d, title, n))
  <2> DEFINE text == IF title.param THEN Without(d.text, title) ELSE d.text
             x == [d EXCEPT !.text = text, !.where = title]
  <2>1. Rewrite(d, title, n) = Write(x, title, n)
    BY Zenon DEF Rewrite
  <2> HIDE DEF text
  <2>2. SameDoc(d, x)
    BY <1>3
  <2> HIDE DEF x
  <2> QED BY <1>1, <2>1, <2>2
<1> QED BY <1>1, <1>2, <1>4

\* The first line of a comment of the documented form.
Names(d, l, type) ==
  \/ d.inside /\ l.kind = "sect" /\ l.type = "param" /\ type = d.type
  \/ ~d.inside /\ l.kind = "decl" /\ (l.name # <<>> \/ l.type = "enum") /\ type = l.type
  \/ ~d.inside /\ l.kind = "doc" /\ type = "doc"

LEMMA FirstLineDoc ==
  ASSUME NEW d, IsDoc(d), NEW n, NEW l, NEW x, x = FirstLine(d, n, l)
  PROVE  /\ DOMAIN x = DocFields
         /\ x.pending = d.pending /\ x.inside = d.inside /\ x.depth = d.depth
         /\ x.exports = d.exports
         /\ x.wf \in BOOLEAN
         /\ x.wf => d.wf /\ Names(d, l, x.type)
<1>1. CASE d.inside /\ l.kind = "sect" /\ l.type = "param"
  <2>1. x = Rewrite(d, Title(l), n)
    BY <1>1 DEF FirstLine
  <2>2. SameDoc(d, x)
    BY <2>1, WriteSame DEF IsDoc
  <2> QED BY <1>1, <2>2 DEF SameDoc, IsDoc, Names
<1>2. CASE ~d.inside /\ l.kind = "decl" /\ (l.name # <<>> \/ l.type = "enum")
  <2> DEFINE where == IF l.purpose THEN Purpose ELSE SECTION_DEFAULT
             d1 == [d EXCEPT !.type = l.type, !.where = where]
  <2>1. x = IF l.purpose THEN Write(d1, Purpose, n) ELSE d1
    BY <1>2, Zenon DEF FirstLine
  <2> HIDE DEF where
  <2>2. /\ DOMAIN d1 = DocFields /\ d1.type = l.type /\ d1.wf = d.wf
        /\ d1.pending = d.pending /\ d1.inside = d.inside /\ d1.depth = d.depth
        /\ d1.exports = d.exports
    BY DEF IsDoc, DocFields
  <2> HIDE DEF d1
  <2>3. SameDoc(d1, x)
    <3>1. SameDoc(d1, d1)
      BY <2>2 DEF SameDoc
    <3> QED BY <2>1, <2>2, <3>1, WriteSame
  <2> QED BY <1>2, <2>2, <2>3 DEF SameDoc, IsDoc, Names
<1>3. CASE ~d.inside /\ l.kind = "doc"
  <2> DEFINE where == Section(l.name[1])
  <2>1. x = [d EXCEPT !.type = "doc", !.where = where]
    BY <1>3 DEF FirstLine
  <2> HIDE DEF where
  <2> QED BY <1>3, <2>1 DEF IsDoc, DocFields, Names
<1>4. CASE /\ ~(d.inside /\ l.kind = "sect" /\ l.type = "param")
           /\ ~(~d.inside /\ l.kind = "decl" /\ (l.name # <<>> \/ l.type = "enum"))
           /\ ~(~d.inside /\ l.kind = "doc")
  <2>1. x = [d EXCEPT !.wf = FALSE]
    BY <1>4, Zenon DEF FirstLine
  <2> QED BY <2>1 DEF IsDoc, DocFields
<1> QED BY <1>1, <1>2, <1>3, <1>4

\* A later line of a comment of the documented form.
Continues(d, l) ==
  \/ l.kind = "sect" /\ (d.type = "doc" \/ ~d.inside)
  \/ Words(l)
  \/ l.kind \in {"blank", "end"}

LEMMA LaterLineDoc ==
  ASSUME NEW d, IsDoc(d), NEW n, NEW l, NEW x, x = LaterLine(d, n, l)
  PROVE  /\ DOMAIN x = DocFields
         /\ x.pending = d.pending /\ x.inside = d.inside /\ x.depth = d.depth
         /\ x.exports = d.exports
         /\ x.wf \in BOOLEAN
         /\ x.type = d.type
         /\ x.wf => d.wf /\ Continues(d, l)
<1>1. SameDoc(d, d) /\ SameDoc(d, [d EXCEPT !.where = SECTION_DEFAULT])
  BY DEF SameDoc, IsDoc, DocFields
<1>2. CASE Continues(d, l)
  <2>1. \/ x = d
        \/ x = [d EXCEPT !.where = SECTION_DEFAULT]
        \/ \E title : x = Write(d, title, n) \/ x = Rewrite(d, title, n)
    BY <1>2, Zenon DEF LaterLine, Continues
  <2>2. SameDoc(d, x)
    BY <1>1, <2>1, WriteSame DEF IsDoc
  <2> QED BY <1>2, <2>2 DEF SameDoc, IsDoc
<1>3. CASE ~Continues(d, l)
  <2>1. x = [d EXCEPT !.wf = FALSE]
    BY <1>3, Zenon DEF LaterLine, Continues
  <2> QED BY <2>1 DEF IsDoc, DocFields
<1> QED BY <1>2, <1>3

LEMMA CommentReadDoc ==
  ASSUME NEW d, IsDoc(d), d.phase # "code", NEW n, NEW l \in AnyLine,
         NEW x, x = CommentRead(d, n, l)
  PROVE  /\ IsDoc(x)
         /\ x.exports = d.exports
         /\ x.inside = d.inside
         /\ x.depth = d.depth
         /\ x.phase = IF l.closes THEN "code" ELSE "later"
         /\ x.pending = IF l.closes THEN x.type # "doc" ELSE d.pending
         /\ x.wf => /\ d.wf
                    /\ ~Odd(l)
                    /\ d.phase = "first" => Names(d, l, x.type)
                    /\ d.phase = "later" => Continues(d, l) /\ x.type = d.type
<1> DEFINE d1 == IF d.phase = "first" THEN FirstLine(d, n, l) ELSE LaterLine(d, n, l)
           odd == IF Odd(l) THEN d1.odd + 1 ELSE d1.odd
           pending == IF l.closes THEN d1.type # "doc" ELSE d1.pending
           phase == IF l.closes THEN "code" ELSE "later"
<1>1. x = [d1 EXCEPT !.phase = phase, !.wf = @ /\ ~Odd(l), !.odd = odd, !.pending = pending]
  BY Zenon DEF CommentRead
<1>2. /\ DOMAIN d1 = DocFields
      /\ d1.pending = d.pending /\ d1.inside = d.inside /\ d1.depth = d.depth
      /\ d1.exports = d.exports
      /\ d1.wf \in BOOLEAN
      /\ d1.wf => /\ d.wf
                  /\ d.phase = "first" => Names(d, l, d1.type)
                  /\ d.phase = "later" => Continues(d, l) /\ d1.type = d.type
  BY FirstLineDoc, LaterLineDoc DEF IsDoc
<1> HIDE DEF d1, odd
<1>3. /\ DOMAIN x = DocFields /\ x.phase = phase /\ x.pending = pending
      /\ x.wf = (d1.wf /\ ~Odd(l))
      /\ x.inside = d1.inside /\ x.depth = d1.depth /\ x.type = d1.type
      /\ x.exports = d1.exports
  BY <1>1, <1>2, Zenon DEF DocFields
<1>4. x.pending = IF l.closes THEN x.type # "doc" ELSE d.pending
  BY <1>2, <1>3
<1>5. x.wf \in BOOLEAN /\ x.pending \in BOOLEAN
  BY <1>2, <1>3, <1>4 DEF IsDoc
<1> QED BY <1>2, <1>3, <1>4, <1>5 DEF IsDoc

LEMMA DepthBraces ==
  ASSUME NEW d, d.depth \in Int, NEW toks, NEW k \in Nat
  PROVE  /\ Depth(d, toks, k) = d.depth + Braces(toks, k)
         /\ Depth(d, toks, k) \in Int
<1>1. Opens(toks, k) \in Int /\ Closes(toks, k) \in Int
  <2>1. IsFiniteSet(1 .. k)
    BY FS_Interval
  <2>2. /\ IsFiniteSet({i \in 1 .. k : IsOpen(toks[i])})
        /\ IsFiniteSet({i \in 1 .. k : IsClose(toks[i])})
    BY <2>1, FS_Subset
  <2> QED BY <2>2, FS_CardinalityType DEF Opens, Closes
<1>2. Depth(d, toks, k) = d.depth + Opens(toks, k) - Closes(toks, k)
  BY Zenon DEF Depth, Opens, Closes
<1> QED BY <1>1, <1>2 DEF Braces

LEMMA CodeReadDoc ==
  ASSUME NEW d, IsDoc(d), d.phase = "code", NEW l, NEW E, NEW toks \in Seq(E),
         NEW x, x = CodeRead(d, l, toks)
  PROVE  /\ IsDoc(x)
         /\ x.phase = "code"
         /\ x.wf = d.wf
         /\ x.exports \subseteq d.exports \cup (IF d.wf /\ ~d.pending /\ l.kind = "export"
                                                THEN {l.name} ELSE {})
         /\ ~d.pending => ~x.pending
         /\ d.pending /\ l.cont => x = d
         /\ d.pending /\ ~l.cont =>
              /\ x.type = d.type
              /\ x.pending <=> ~Over(d, toks)
              /\ x.pending => x.depth = d.depth + Braces(toks, Len(toks))
<1> DEFINE more == IF d.wf /\ l.kind = "export" THEN {l.name} ELSE {}
<1>1. CASE ~d.pending
  <2> DEFINE ex == d.exports \cup more
  <2>1. x = [NoDoc EXCEPT !.wf = d.wf, !.odd = d.odd, !.exports = ex]
    BY <1>1, Zenon DEF CodeRead
  <2>2. /\ DOMAIN NoDoc = DocFields /\ NoDoc.phase = "code"
        /\ NoDoc.pending = FALSE /\ NoDoc.inside = FALSE /\ NoDoc.depth = 0
    BY DEF NoDoc, DocFields
  <2> HIDE DEF ex
  <2>3. /\ DOMAIN x = DocFields /\ x.phase = "code" /\ x.pending = FALSE
        /\ x.inside = FALSE /\ x.depth = 0 /\ x.wf = d.wf /\ x.exports = ex
    BY <2>1, <2>2 DEF DocFields
  <2>4. IsDoc(x)
    <3>1. x.depth \in Int
      BY <2>3
    <3> QED BY <2>3, <3>1, Zenon DEF IsDoc
  <2>5. ex \subseteq d.exports \cup (IF d.wf /\ ~d.pending /\ l.kind = "export"
                                   THEN {l.name} ELSE {})
    BY <1>1 DEF ex
  <2> QED BY <1>1, <2>3, <2>4, <2>5
<1>2. CASE d.pending /\ l.cont
  BY <1>2 DEF CodeRead
<1>3. CASE d.pending /\ ~l.cont
  <2> DEFINE depth == Depth(d, toks, Len(toks))
  <2>1. depth = d.depth + Braces(toks, Len(toks)) /\ depth \in Int
    <3>1. Len(toks) \in Nat /\ d.depth \in Int
      BY DEF IsDoc
    <3> QED BY <3>1, DepthBraces
  <2>2. x = IF Over(d, toks) THEN [d EXCEPT !.pending = FALSE, !.depth = 0]
            ELSE [d EXCEPT !.depth = depth]
    BY <1>3 DEF CodeRead
  <2> HIDE DEF depth
  <2>3. CASE Over(d, toks)
    BY <1>3, <2>2, <2>3 DEF IsDoc, DocFields
  <2>4. CASE ~Over(d, toks)
    BY <1>3, <2>1, <2>2, <2>4 DEF IsDoc, DocFields
  <2> QED BY <2>3, <2>4
<1> QED BY <1>1, <1>2, <1>3 DEF IsDoc

LEMMA OpenedDoc ==
  ASSUME NEW d, IsDoc(d), NEW x, x = Opened(d)
  PROVE  /\ IsDoc(x)
         /\ x.exports = d.exports
         /\ x.phase = "first"
         /\ x.inside = d.pending
         /\ x.pending = d.pending
         /\ d.pending => x.wf = d.wf /\ x.type = d.type /\ x.depth = d.depth
         /\ ~d.pending => x.wf = (p.state = "NORMAL") /\ x.depth = 0
<1>1. CASE d.pending
  <2>1. x = [d EXCEPT !.phase = "first", !.inside = TRUE]
    BY <1>1 DEF Opened
  <2> QED BY <1>1, <2>1 DEF IsDoc, DocFields
<1>2. CASE ~d.pending
  <2> DEFINE wf == p.state = "NORMAL"
  <2>1. x = [NoDoc EXCEPT !.phase = "first", !.wf = wf, !.odd = d.odd, !.exports = d.exports]
    BY <1>2 DEF Opened
  <2>2. /\ DOMAIN NoDoc = DocFields /\ NoDoc.phase = "code"
        /\ NoDoc.pending = FALSE /\ NoDoc.inside = FALSE /\ NoDoc.depth = 0
    BY DEF NoDoc, DocFields
  <2>3. wf \in BOOLEAN
    OBVIOUS
  <2> HIDE DEF wf
  <2>4. /\ DOMAIN x = DocFields /\ x.phase = "first" /\ x.pending = FALSE
        /\ x.inside = FALSE /\ x.depth = 0 /\ x.wf = wf /\ x.exports = d.exports
    BY <2>1, <2>2 DEF DocFields
  <2>5. IsDoc(x)
    <3>1. x.depth \in Int
      BY <2>4
    <3> QED BY <2>3, <2>4, <3>1, Zenon DEF IsDoc
  <2>6. d.pending = FALSE
    BY <1>2 DEF IsDoc
  <2>7. x.wf = (p.state = "NORMAL")
    BY <2>4 DEF wf
  <2> QED BY <2>4, <2>5, <2>6, <2>7
<1> QED BY <1>1, <1>2

-----------------------------------------------------------------------------
(* One line of the file *)

LEMMA LineFacts ==
  ASSUME NEW l \in Lines, IInv
  PROVE  /\ l \in AnyLine
         /\ l.kind \in {"code", "export"} => l.toks # <<>>
         /\ doc.phase = "code" =>
              /\ l.kind \in {"code", "export", "inline", "open"}
              /\ l.cont => l.kind \in {"code", "export"}
         /\ doc.phase # "code" =>
              /\ l.kind = "decl" => l.type \in Declarations
              /\ l.kind = "end" => l.closes
<1>1. doc.phase \in {"code", "first", "later"}
  BY DEF IInv, IsDoc
<1>2. CASE doc.phase = "code"
  <2>1. l \in MemberLines \cup CodeLines
    BY <1>2 DEF Lines
  <2> QED BY <1>2, <2>1, CodeLinesAssumption
<1>3. CASE doc.phase # "code"
  <2>1. l \in FirstLines \cup LaterLines
    BY <1>1, <1>3 DEF Lines
  <2> QED BY <1>3, <2>1, CommentLinesAssumption
<1> QED BY <1>2, <1>3

\* What the reader makes of a line, whatever the parser does.
LEMMA ReadDoc ==
  ASSUME IInv, NEW l \in Lines, ReadLine(l)
  PROVE  /\ IsDoc(doc')
         /\ doc'.exports \subseteq doc.exports \cup
              (IF doc.wf /\ doc.phase = "code" /\ ~doc.pending /\ l.kind = "export"
                 THEN {l.name} ELSE {})
         /\ doc'.wf => doc.wf \/ p.state = "NORMAL"
<1> DEFINE toks == prev \o l.toks
<1>1. IsDoc(doc) /\ l \in AnyLine
  BY LineFacts DEF IInv
<1>2. doc' = Observed(doc, ln, l, toks)
  BY DEF ReadLine
<1>3. toks \in TokenLists
  BY <1>1 DEF IInv, AnyLine, TokenLists
<1> HIDE DEF toks
<1>4. CASE doc.phase # "code"
  <2>1. doc' = CommentRead(doc, ln, l)
    BY <1>2, <1>4 DEF Observed
  <2> QED BY <1>1, <1>4, <2>1, CommentReadDoc
<1>5. CASE doc.phase = "code" /\ l.kind = "open"
  <2>1. doc' = Opened(doc)
    BY <1>2, <1>5 DEF Observed
  <2> QED BY <1>1, <2>1, OpenedDoc
<1>6. CASE doc.phase = "code" /\ l.kind = "inline"
  <2>1. doc' = doc \/ doc' = Rewrite(doc, Title(l), ln)
    BY <1>2, <1>6 DEF Observed
  <2>2. SameDoc(doc, doc')
    BY <1>1, <2>1, WriteSame DEF IsDoc, SameDoc
  <2> QED BY <1>1, <2>2 DEF SameDoc, IsDoc
<1>7. CASE doc.phase = "code" /\ l.kind \notin {"open", "inline"}
  <2>1. doc' = CodeRead(doc, l, toks)
    BY <1>2, <1>7 DEF Observed
  <2> QED BY <1>1, <1>3, <1>7, <2>1, CodeReadDoc DEF TokenLists
<1> QED BY <1>4, <1>5, <1>6, <1>7

\* The parser is then in step with the reader when it is after the line.
LEMMA LineInv ==
  ASSUME IInv, NEW l \in Lines, ReadLine(l),
         IsParser(p'), prev' \in TokenLists,
         exports \subseteq exports',
         l.kind = "export" /\ p.state = "NORMAL" => l.name \in exports',
         doc'.wf => Sync(doc', p')
  PROVE  IInv'
<1>1. IsDoc(doc')
  BY ReadDoc
<1>2. doc'.exports \subseteq exports'
  <2>1. doc.wf /\ doc.phase = "code" /\ ~doc.pending => p.state = "NORMAL"
    BY DEF IInv, Sync, InStep
  <2> QED BY <2>1, ReadDoc DEF IInv
<1>3. Sync(doc', p')
  BY DEF Sync
<1> QED BY <1>1, <1>2, <1>3 DEF IInv

LEMMA QuietParser ==
  ASSUME IInv, ~p.crashed
  PROVE  /\ IsParser(Quiet)
         /\ Quiet.state = p.state
         /\ Quiet.entry = p.entry
         /\ ~Quiet.crashed
BY DEF IInv, IsParser, ParserFields, Quiet

\* A line read in one of the states of a comment.
LEMMA CommentLine ==
  ASSUME IInv, NEW l \in Lines, ReadLine(l), p.state \notin {"NORMAL", "PROTO"}, doc'.wf
  PROVE  /\ doc.wf /\ doc.phase \in {"first", "later"}
         /\ InStep(doc, p) /\ Documents(doc, p)
         /\ ~Odd(l)
         /\ doc'.inside = doc.inside
         /\ doc'.depth = doc.depth
         /\ doc'.phase = IF l.closes THEN "code" ELSE "later"
         /\ doc'.pending = IF l.closes THEN doc'.type # "doc" ELSE doc.pending
         /\ doc.phase = "first" => Names(doc, l, doc'.type)
         /\ doc.phase = "later" => Continues(doc, l) /\ doc'.type = doc.type
<1>1. doc.wf
  BY ReadDoc
<1>2. InStep(doc, p) /\ Documents(doc, p) /\ IsDoc(doc)
  BY <1>1 DEF IInv, Sync
<1>3. doc.phase \in {"first", "later"}
  BY <1>2 DEF InStep, IsDoc
<1>4. doc' = CommentRead(doc, ln, l)
  BY <1>3 DEF ReadLine, Observed
<1>5. l \in AnyLine
  BY LineFacts
<1> QED BY <1>1, <1>2, <1>3, <1>4, <1>5, CommentReadDoc

\* A line that closes a comment of the documented form is "*/" alone.
LEMMA ClosingLine ==
  ASSUME NEW d, NEW l, ~Odd(l), NEW type,
         \/ Names(d, l, type)
         \/ Continues(d, l)
  PROVE  /\ l.kind # "stray"
         /\ l.closes => l.kind = "end" /\ Continues(d, l) /\ ~Names(d, l, type)
BY DEF Odd, Names, Continues, Words

LEMMA QuietSync ==
  ASSUME IInv, ~p.crashed, NEW d, d.wf, Sync(d, p)
  PROVE  Sync(d, Quiet)
BY QuietParser DEF Sync, InStep, Documents

\* A line read in one of the states of code.
LEMMA CodeLineRead ==
  ASSUME IInv, NEW l \in Lines, ReadLine(l), p.state \in {"NORMAL", "PROTO"}, doc'.wf
  PROVE  /\ doc.phase = "code"
         /\ doc.pending <=> p.state = "PROTO"
         /\ l.kind # "open" \/ doc.pending => doc.wf /\ Sync(doc, p)
         /\ l.kind = "open" => doc' = Opened(doc)
         /\ l.kind = "inline" => SameDoc(doc, doc')
         /\ l.kind \in {"code", "export"} => doc' = CodeRead(doc, l, prev \o l.toks)
<1>1. IsDoc(doc) /\ l \in AnyLine /\ Sync(doc, p) /\ doc.pending \in BOOLEAN
  BY LineFacts DEF IInv, IsDoc
<1>2. doc.wf => /\ doc.phase = "code"
                /\ doc.pending <=> p.state = "PROTO"
  BY <1>1 DEF Sync, InStep, IsDoc, BodyStates
<1>3. doc.phase = "code"
  <2>1. SUFFICES ASSUME doc.phase # "code" PROVE FALSE
    OBVIOUS
  <2>2. doc' = CommentRead(doc, ln, l)
    BY <2>1 DEF ReadLine, Observed
  <2>3. doc.wf
    BY <1>1, <2>1, <2>2, CommentReadDoc
  <2> QED BY <1>2, <2>1, <2>3
<1>4. l.kind = "open" => doc' = Opened(doc)
  BY <1>3 DEF ReadLine, Observed
<1>5. l.kind = "inline" => SameDoc(doc, doc')
  <2>1. l.kind = "inline" => doc' = doc \/ doc' = Rewrite(doc, Title(l), ln)
    BY <1>3 DEF ReadLine, Observed
  <2>2. SameDoc(doc, doc)
    BY <1>1 DEF IsDoc, SameDoc
  <2>3. SameDoc(doc, Rewrite(doc, Title(l), ln))
    BY <1>1, WriteSame DEF IsDoc
  <2> QED BY <2>1, <2>2, <2>3
<1>6. l.kind \in {"code", "export"} => doc' = CodeRead(doc, l, prev \o l.toks)
  BY <1>3 DEF ReadLine, Observed
<1>7. l.kind # "open" \/ doc.pending => doc.wf
  <2>1. CASE l.kind = "open"
    BY <1>1, <1>4, <2>1, OpenedDoc
  <2>2. CASE l.kind = "inline"
    BY <1>5, <2>2 DEF SameDoc
  <2>3. CASE l.kind \in {"code", "export"}
    <3> DEFINE toks == prev \o l.toks
    <3>1. toks \in TokenLists
      BY <1>1 DEF IInv, AnyLine, TokenLists
    <3>2. doc' = CodeRead(doc, l, toks)
      BY <1>6, <2>3
    <3> HIDE DEF toks
    <3> QED BY <1>1, <1>3, <3>1, <3>2, CodeReadDoc DEF TokenLists
  <2> QED BY <1>3, <2>1, <2>2, <2>3, LineFacts
<1>8. l.kind = "open" /\ ~doc.pending => p.state = "NORMAL"
  BY <1>1, <1>4, OpenedDoc
<1> QED BY <1>1, <1>2, <1>3, <1>4, <1>5, <1>6, <1>7, <1>8

-----------------------------------------------------------------------------
(* Every action keeps the parser in step with the reader. *)

\* The reader goes on with a comment of the documented form, the parser with it.
LEMMA StillInComment ==
  ASSUME IInv, NEW l \in Lines, ReadLine(l), p.state \notin {"NORMAL", "PROTO"}, doc'.wf,
         NEW s, Same(Quiet, p', s), ~l.closes, doc.phase = "later",
         s = p.state \/ {s, p.state} \subseteq BodyStates
  PROVE  Sync(doc', p')
<1>1. /\ doc.wf /\ InStep(doc, p) /\ Documents(doc, p)
      /\ doc'.inside = doc.inside /\ doc'.depth = doc.depth
      /\ doc'.phase = "later"
      /\ doc'.pending = doc.pending
      /\ doc'.type = doc.type
  BY CommentLine
<1>2. /\ ~p'.crashed /\ p'.state = s
      /\ p'.entry.decl_type = p.entry.decl_type
      /\ p'.entry.brcount = p.entry.brcount
  BY QuietParser DEF Same, SameEntry, ReadLine
<1>3. InStep(doc', p')
  BY <1>1, <1>2 DEF InStep, BodyStates
<1> QED BY <1>1, <1>2, <1>3 DEF Sync, Documents

\* "*/" ends the comment of a declaration, or of a member.
LEMMA CommentEnds ==
  ASSUME IInv, NEW l \in Lines, ReadLine(l), p.state \notin {"NORMAL", "PROTO"}, doc'.wf,
         Same(Quiet, p', "PROTO"), l.closes, doc.phase = "later", doc.type # "doc"
  PROVE  Sync(doc', p')
<1>1. /\ doc.wf /\ InStep(doc, p) /\ Documents(doc, p)
      /\ doc'.depth = doc.depth
      /\ doc'.phase = "code"
      /\ doc'.pending = (doc'.type # "doc")
      /\ doc'.type = doc.type
  BY CommentLine
<1>2. /\ ~p'.crashed /\ p'.state = "PROTO"
      /\ p'.entry.decl_type = p.entry.decl_type
      /\ p'.entry.brcount = p.entry.brcount
  BY QuietParser DEF Same, SameEntry, ReadLine
<1>3. doc'.pending = TRUE
  BY <1>1
<1> QED BY <1>1, <1>2, <1>3 DEF Sync, InStep, Documents

LEMMA BodyLine ==
  ASSUME IInv, NEW l \in Lines, ReadLine(l), p.state \in BodyStates,
         BodyStep(Quiet, l, p'), UNCHANGED <<prev, exports>>
  PROVE  IInv'
<1>1. p.state \notin {"NORMAL", "PROTO"}
  BY DEF BodyStates
<1>2. ASSUME doc'.wf PROVE Sync(doc', p')
  <2>1. /\ ~Odd(l) /\ InStep(doc, p) /\ doc.phase \in {"first", "later"}
        /\ doc.phase = "later" => Continues(doc, l)
    BY <1>1, <1>2, CommentLine
  <2>2. doc.phase = "later" /\ doc.type # "doc"
    BY <2>1 DEF InStep, BodyStates
  <2>3. l.kind # "stray" /\ (l.closes => l.kind = "end")
    BY <2>1, <2>2, ClosingLine
  <2>4. CASE l.closes
    BY <1>1, <1>2, <2>2, <2>3, <2>4, CommentEnds DEF BodyStep
  <2>5. CASE ~l.closes
    <3>1. PICK s \in BodyStates : Same(Quiet, p', s)
      BY <2>3, <2>5 DEF BodyStep, InBody
    <3> QED BY <1>1, <1>2, <2>2, <2>5, <3>1, StillInComment
  <2> QED BY <2>4, <2>5
<1>3. IsParser(p')
  BY DEF BodyStep
<1>4. p.state # "NORMAL" /\ exports \subseteq exports' /\ prev' \in TokenLists
  BY <1>1 DEF IInv
<1> QED BY <1>2, <1>3, <1>4, LineInv

LEMMA BodyActions ==
  ASSUME IInv, NEW l \in Lines, Declaration(l) \/ SpecialSect(l) \/ Body(l)
  PROVE  IInv'
<1>1. ReadLine(l) /\ p.state \in BodyStates /\ ~p.crashed /\ UNCHANGED <<prev, exports>>
  BY DEF Declaration, SpecialSect, Body, Handle, ReadLine, BodyStates
<1>2. IsParser(Quiet) /\ Quiet.state \in BodyStates
  BY <1>1, QuietParser
<1>3. BodyStep(Quiet, l, p')
  BY <1>2, DeclMethod, SpecialMethod, BodyMethod DEF Declaration, SpecialSect, Body
<1> QED BY <1>1, <1>3, BodyLine

LEMMA SeekNameInv ==
  ASSUME IInv, NEW l \in Lines, SeekName(l)
  PROVE  IInv'
<1>1. /\ ReadLine(l) /\ p.state = "NAME" /\ ~p.crashed /\ UNCHANGED <<prev, exports>>
      /\ p' = process_name(Quiet, ln, l)
  BY DEF SeekName, Handle, ReadLine
<1>2. /\ IsParser(Quiet) /\ ~Quiet.crashed /\ Quiet.entry = p.entry
  BY <1>1, QuietParser
<1>3. /\ IsParser(p')
      /\ p'.crashed = Quiet.crashed
      /\ l.kind = "doc" => Same(Quiet, p', "DOCBLOCK")
      /\ l.kind = "decl" /\ (l.name # <<>> \/ l.type = "enum") =>
           /\ p'.state \in {"DECLARATION", "BODY"}
           /\ p'.entry.decl_type = l.type
           /\ p'.entry.brcount = p.entry.brcount
  BY <1>1, <1>2, NameMethod
<1>4. ASSUME doc'.wf PROVE Sync(doc', p')
  <2>1. /\ doc.phase \in {"first", "later"}
        /\ InStep(doc, p) /\ Documents(doc, p)
        /\ ~Odd(l)
        /\ doc'.inside = doc.inside
        /\ doc'.depth = doc.depth
        /\ doc'.phase = IF l.closes THEN "code" ELSE "later"
        /\ doc'.pending = IF l.closes THEN doc'.type # "doc" ELSE doc.pending
        /\ doc.phase = "first" => Names(doc, l, doc'.type)
    BY <1>1, <1>4, CommentLine
  <2>2. doc.phase = "first" /\ ~doc.inside /\ ~doc.pending
    BY <1>1, <2>1 DEF InStep, Documents, BodyStates
  <2>3. ~l.closes
    BY <2>1, <2>2, ClosingLine
  <2>4. \/ l.kind = "decl" /\ (l.name # <<>> \/ l.type = "enum") /\ doc'.type = l.type
        \/ l.kind = "doc" /\ doc'.type = "doc"
    BY <2>1, <2>2 DEF Names
  <2>5. p.entry.brcount = doc.depth
    BY <2>1, <2>2 DEF Documents
  <2>6. /\ doc'.phase = "later" /\ ~doc'.pending /\ ~doc'.inside /\ doc'.depth = doc.depth
        /\ doc'.inside = doc'.pending
    BY <2>1, <2>2, <2>3 DEF Documents
  <2>7. CASE l.kind = "decl"
    <3>1. l.type \in Declarations
      BY <2>2, <2>7, LineFacts
    <3>2. l.type # "doc"
      BY <3>1 DEF Declarations
    <3> QED BY <1>2, <1>3, <2>4, <2>5, <2>6, <2>7, <3>1, <3>2
            DEF Sync, InStep, Documents, BodyStates
  <2>8. CASE l.kind = "doc"
    BY <1>2, <1>3, <2>4, <2>5, <2>6, <2>8 DEF Sync, InStep, Documents, Same, SameEntry
  <2> QED BY <2>4, <2>7, <2>8
<1>5. p.state # "NORMAL" /\ exports \subseteq exports' /\ prev' \in TokenLists
  BY <1>1 DEF IInv
<1> QED BY <1>1, <1>3, <1>4, <1>5, LineInv

LEMMA InlineTextInv ==
  ASSUME IInv, NEW l \in Lines, InlineText(l)
  PROVE  IInv'
<1>1. /\ ReadLine(l) /\ p.state = "INLINE_TEXT" /\ ~p.crashed /\ UNCHANGED <<prev, exports>>
      /\ p' = process_inline_text(Quiet, ln, l)
  BY DEF InlineText, Handle, ReadLine
<1>2. IsParser(Quiet) /\ Quiet.state = p.state
  BY <1>1, QuietParser
<1>3. Same(Quiet, p', IF l.kind = "end" THEN "PROTO" ELSE p.state)
  BY <1>1, <1>2, InlineTextMethod
<1>4. ASSUME doc'.wf PROVE Sync(doc', p')
  <2>1. /\ ~Odd(l) /\ InStep(doc, p) /\ Documents(doc, p) /\ doc.phase \in {"first", "later"}
        /\ doc.phase = "later" => Continues(doc, l)
    BY <1>1, <1>4, CommentLine
  <2>2. doc.phase = "later" /\ doc.inside
    BY <1>1, <2>1 DEF InStep, BodyStates
  <2>3. doc.type # "doc"
    BY <2>1, <2>2 DEF Documents, Declarations
  <2>4. l.closes <=> l.kind = "end"
    BY <2>1, <2>2, ClosingLine, LineFacts
  <2>5. CASE l.closes
    BY <1>1, <1>3, <1>4, <2>2, <2>3, <2>4, <2>5, CommentEnds
  <2>6. CASE ~l.closes
    BY <1>1, <1>3, <1>4, <2>2, <2>4, <2>6, StillInComment
  <2> QED BY <2>5, <2>6
<1>5. p.state # "NORMAL" /\ exports \subseteq exports' /\ prev' \in TokenLists
  BY <1>1 DEF IInv
<1>6. IsParser(p')
  BY <1>3, SameShape
<1> QED BY <1>1, <1>4, <1>5, <1>6, LineInv

LEMMA DocBlockInv ==
  ASSUME IInv, NEW l \in Lines, DocBlock(l)
  PROVE  IInv'
<1>1. /\ ReadLine(l) /\ p.state = "DOCBLOCK" /\ ~p.crashed /\ UNCHANGED <<prev, exports>>
      /\ p' = process_docblock(Quiet, ln, l)
  BY DEF DocBlock, Handle, ReadLine
<1>2. IsParser(Quiet) /\ Quiet.state = p.state /\ ~Quiet.crashed
  BY <1>1, QuietParser
<1>3. /\ IsParser(p') /\ p'.crashed = Quiet.crashed
      /\ l.closes => p'.state = "NORMAL"
      /\ ~l.closes => Same(Quiet, p', p.state)
  BY <1>1, <1>2, DocBlockMethod
<1>4. ASSUME doc'.wf PROVE Sync(doc', p')
  <2>1. /\ InStep(doc, p) /\ doc.phase \in {"first", "later"}
        /\ doc'.phase = IF l.closes THEN "code" ELSE "later"
        /\ doc'.pending = IF l.closes THEN doc'.type # "doc" ELSE doc.pending
        /\ doc.phase = "later" => doc'.type = doc.type
    BY <1>1, <1>4, CommentLine
  <2>2. doc.phase = "later" /\ doc.type = "doc"
    BY <1>1, <2>1 DEF InStep, BodyStates
  <2>3. CASE l.closes
    <3>1. doc'.phase = "code" /\ doc'.pending = FALSE
      BY <2>1, <2>2, <2>3
    <3> QED BY <1>2, <1>3, <2>3, <3>1 DEF Sync, InStep, Documents
  <2>4. CASE ~l.closes
    BY <1>1, <1>3, <1>4, <2>2, <2>4, StillInComment
  <2> QED BY <2>3, <2>4
<1>5. p.state # "NORMAL" /\ exports \subseteq exports' /\ prev' \in TokenLists
  BY <1>1 DEF IInv
<1> QED BY <1>1, <1>3, <1>4, <1>5, LineInv

\* The words of a comment that names no member are taken for code.
LEMMA InlineNameMethod ==
  ASSUME NEW q, IsParser(q), ~q.crashed, NEW n, NEW l,
         IsCode(l) => l.toks \in TokenLists /\ l.toks # <<>>,
         NEW g, g = process_inline_name(q, n, l)
  PROVE  /\ IsGathered(g)
         /\ l.kind = "sect" /\ l.type = "param" => g.whole = "no" /\ Same(q, g.q, "INLINE_TEXT")
<1>1. Same(q, q, q.state)
  BY SameSelf
<1>2. \A x, s : Same(q, x, s) => /\ Gathering(x).q = x
                                 /\ Gathering(x).whole = "no"
                                 /\ IsGathered(Gathering(x))
  BY SameShape DEF Gathering, IsGathered
<1>3. CASE doc_sect(l) /\ l.type = "param"
  <2> DEFINE x == GoTo(AddText(BeginSection(q, n, Title(l)), <<n>>), "INLINE_TEXT")
  <2>1. g = Gathering(x)
    BY <1>3 DEF process_inline_name
  <2>2. Same(q, x, "INLINE_TEXT")
    BY <1>1, ParserMethods
  <2> HIDE DEF x
  <2> QED BY <1>2, <2>1, <2>2
<1>4. CASE ~(doc_sect(l) /\ l.type = "param")
  <2>1. ~(l.kind = "sect" /\ l.type = "param")
    BY <1>4 DEF doc_sect
  <2> DEFINE warned == GoTo(Warn(q, n, "incorrect use"), "PROTO")
             toks == <<Comment("/**")>> \o ProtoToks(l)
  <2>2. \/ g = Gathering(GoTo(DumpSection(q), "PROTO"))
        \/ g = Gathering(q)
        \/ g = process_proto_type(warned, n, toks)
    BY <1>4, Zenon DEF process_inline_name
  <2>3. Same(q, GoTo(DumpSection(q), "PROTO"), "PROTO") /\ Same(q, warned, "PROTO")
    BY <1>1, ParserMethods
  <2>4. \E E : toks \in Seq(E) /\ toks # <<>>
    BY ProtoToksSeq, Zenon
  <2> HIDE DEF warned, toks
  <2>5. g = process_proto_type(warned, n, toks) => IsGathered(g)
    <3>1. IsParser(warned) /\ ~warned.crashed
      BY <2>3, SameShape
    <3> QED BY <2>4, <3>1, ProtoTypeMethod DEF IsGathered
  <2> QED BY <1>1, <1>2, <2>1, <2>2, <2>3, <2>5
<1> QED BY <1>3, <1>4

LEMMA InlineNameInv ==
  ASSUME IInv, NEW l \in Lines, InlineName(l)
  PROVE  IInv'
<1> DEFINE g == process_inline_name(Quiet, ln, l)
<1>1. /\ ReadLine(l) /\ p.state = "INLINE_NAME" /\ ~p.crashed /\ UNCHANGED <<prev, exports>>
      /\ p' = Finish(g, ln)
  BY DEF InlineName, Handle, ReadLine, Gather
<1>2. IsParser(Quiet) /\ ~Quiet.crashed /\ Quiet.entry = p.entry
  BY <1>1, QuietParser
<1>3. IsCode(l) => l.toks \in TokenLists /\ l.toks # <<>>
  BY LineFacts DEF IsCode, AnyLine
<1>4. /\ IsGathered(g)
      /\ l.kind = "sect" /\ l.type = "param" => g.whole = "no" /\ Same(Quiet, g.q, "INLINE_TEXT")
  BY <1>2, <1>3, InlineNameMethod
<1> HIDE DEF g
<1>5. IsParser(p') /\ (g.whole = "no" => p' = g.q)
  BY <1>1, <1>4, FinishMethod
<1>6. ASSUME doc'.wf PROVE Sync(doc', p')
  <2>1. /\ doc.phase \in {"first", "later"}
        /\ InStep(doc, p) /\ Documents(doc, p)
        /\ ~Odd(l)
        /\ doc'.inside = doc.inside
        /\ doc'.depth = doc.depth
        /\ doc'.phase = IF l.closes THEN "code" ELSE "later"
        /\ doc'.pending = IF l.closes THEN doc'.type # "doc" ELSE doc.pending
        /\ doc.phase = "first" => Names(doc, l, doc'.type)
    BY <1>1, <1>6, CommentLine
  <2>2. doc.phase = "first" /\ doc.inside /\ doc.pending
    BY <1>1, <2>1 DEF InStep, Documents, BodyStates
  <2>3. ~l.closes
    BY <2>1, <2>2, ClosingLine
  <2>4. l.kind = "sect" /\ l.type = "param" /\ doc'.type = doc.type
    BY <2>1, <2>2 DEF Names
  <2>5. /\ doc'.phase = "later" /\ doc'.pending /\ doc'.inside /\ doc'.depth = doc.depth
        /\ doc'.inside = doc'.pending
    BY <2>1, <2>2, <2>3 DEF Documents
  <2>6. Same(Quiet, p', "INLINE_TEXT")
    BY <1>4, <1>5, <2>4
  <2> QED BY <1>2, <2>1, <2>2, <2>4, <2>5, <2>6 DEF Sync, InStep, Documents, Same, SameEntry
<1>7. p.state # "NORMAL" /\ exports \subseteq exports' /\ prev' \in TokenLists
  BY <1>1 DEF IInv
<1> QED BY <1>1, <1>5, <1>6, <1>7, LineInv

LEMMA NormalInv ==
  ASSUME IInv, NEW l \in Lines, Normal(l)
  PROVE  IInv'
<1>1. /\ ReadLine(l) /\ p.state = "NORMAL" /\ ~p.crashed /\ UNCHANGED <<prev, exports>>
      /\ l.kind # "export"
      /\ p' = process_normal(Quiet, ln, l)
  BY DEF Normal, Handle, ReadLine
<1>2. IsParser(Quiet) /\ ~Quiet.crashed /\ Quiet.state = "NORMAL"
  BY <1>1, QuietParser
<1>3. l.kind = "open" => /\ IsParser(p') /\ ~p'.crashed /\ p'.state = "NAME"
                         /\ p'.entry.brcount = 0
  <2> DEFINE r == reset_state(Quiet, ln)
  <2>1. IsParser(r) /\ ~r.crashed /\ r.entry.brcount = 0
    BY <1>2, ResetNormal DEF IsParser
  <2> HIDE DEF r
  <2>2. IsParser(GoTo(r, "NAME")) /\ ~GoTo(r, "NAME").crashed
          /\ GoTo(r, "NAME").state = "NAME" /\ GoTo(r, "NAME").entry.brcount = 0
    BY <2>1 DEF GoTo, IsParser, ParserFields
  <2>3. l.kind = "open" => p' = GoTo(r, "NAME")
    BY <1>1 DEF process_normal, r
  <2> QED BY <2>2, <2>3
<1>4. l.kind # "open" => p' = Quiet
  BY <1>1 DEF process_normal
<1>5. ASSUME doc'.wf PROVE Sync(doc', p')
  <2>1. /\ doc.phase = "code" /\ ~doc.pending
        /\ l.kind = "open" => doc' = Opened(doc)
        /\ l.kind = "inline" => SameDoc(doc, doc')
        /\ l.kind \in {"code", "export"} => doc' = CodeRead(doc, l, prev \o l.toks)
    BY <1>1, <1>5, CodeLineRead
  <2>2. IsDoc(doc)
    BY DEF IInv
  <2>3. CASE l.kind = "open"
    <3>1. doc'.phase = "first" /\ doc'.inside = doc.pending /\ doc'.pending = doc.pending
            /\ doc'.depth = 0
      BY <2>1, <2>2, <2>3, OpenedDoc
    <3> QED BY <1>3, <2>1, <2>3, <3>1 DEF Sync, InStep, Documents
  <2>4. CASE l.kind # "open"
    <3>1. doc'.phase = "code" /\ ~doc'.pending
      <4>1. CASE l.kind = "inline"
        BY <2>1, <4>1 DEF SameDoc
      <4>2. CASE l.kind \in {"code", "export"}
        <5> DEFINE toks == prev \o l.toks
        <5>1. toks \in TokenLists
          BY LineFacts DEF IInv, AnyLine, TokenLists
        <5>2. doc' = CodeRead(doc, l, toks)
          BY <2>1, <4>2
        <5> HIDE DEF toks
        <5> QED BY <2>1, <2>2, <5>1, <5>2, CodeReadDoc DEF TokenLists
      <4> QED BY <2>1, <2>4, <4>1, <4>2, LineFacts
    <3> QED BY <1>2, <1>4, <2>4, <3>1 DEF Sync, InStep, Documents
  <2> QED BY <2>3, <2>4
<1>6. exports \subseteq exports' /\ prev' \in TokenLists /\ IsParser(p')
  BY <1>1, <1>2, <1>3, <1>4 DEF IInv
<1> QED BY <1>1, <1>5, <1>6, LineInv

LEMMA ExportInv ==
  ASSUME IInv, NEW l \in Lines, Export(l)
  PROVE  IInv'
<1>1. /\ ReadLine(l) /\ p.state = "NORMAL" /\ ~p.crashed /\ prev' = prev
      /\ l.kind = "export"
      /\ p' = Quiet
      /\ exports' = exports \cup {l.name}
  BY DEF Export, ReadLine, process_export
<1>2. IsParser(Quiet) /\ ~Quiet.crashed /\ Quiet.state = "NORMAL"
  BY <1>1, QuietParser
<1>3. ASSUME doc'.wf PROVE Sync(doc', p')
  <2>1. /\ doc.phase = "code" /\ ~doc.pending
        /\ doc' = CodeRead(doc, l, prev \o l.toks)
    BY <1>1, <1>3, CodeLineRead
  <2> DEFINE toks == prev \o l.toks
  <2>2. toks \in TokenLists /\ IsDoc(doc)
    BY LineFacts DEF IInv, AnyLine, TokenLists
  <2>3. doc' = CodeRead(doc, l, toks)
    BY <2>1
  <2> HIDE DEF toks
  <2>4. doc'.phase = "code" /\ ~doc'.pending
    BY <2>1, <2>2, <2>3, CodeReadDoc DEF TokenLists
  <2> QED BY <1>1, <1>2, <2>4 DEF Sync, InStep, Documents
<1>4. exports \subseteq exports' /\ l.name \in exports' /\ prev' \in TokenLists
  BY <1>1 DEF IInv
<1> QED BY <1>1, <1>2, <1>3, <1>4, LineInv

LEMMA ContinueInv ==
  ASSUME IInv, NEW l \in Lines, Continue(l)
  PROVE  IInv'
<1>1. /\ ReadLine(l) /\ p.state = "PROTO" /\ ~p.crashed /\ l.cont
      /\ p' = Quiet
      /\ prev' = prev \o l.toks
      /\ exports' = exports
  BY DEF Continue, ReadLine
<1>2. IsParser(Quiet)
  BY <1>1, QuietParser
<1>3. prev' \in TokenLists
  BY <1>1, LineFacts DEF IInv, AnyLine, TokenLists
<1>4. ASSUME doc'.wf PROVE Sync(doc', p')
  <2>1. /\ doc.phase = "code" /\ doc.pending /\ doc.wf /\ Sync(doc, p)
        /\ l.kind \in {"code", "export"} => doc' = CodeRead(doc, l, prev \o l.toks)
    BY <1>1, <1>4, CodeLineRead
  <2>2. l.kind \in {"code", "export"}
    BY <1>1, <2>1, LineFacts
  <2>3. doc' = doc
    BY <1>1, <2>1, <2>2 DEF CodeRead
  <2> QED BY <1>1, <2>1, <2>3, QuietSync
<1> QED BY <1>1, <1>2, <1>3, <1>4, LineInv

\* process_proto() on a line that is not continued.
LEMMA ProtoMethod ==
  ASSUME NEW q, IsParser(q), ~q.crashed, NEW n, NEW l,
         IsCode(l) => l.toks \in TokenLists /\ l.toks # <<>>,
         NEW g, g = process_proto(q, n, l)
  PROVE  /\ IsGathered(g)
         /\ l.kind = "inline" => g.whole = "no" /\ Same(q, g.q, q.state)
         /\ l.kind = "open" => g.whole = "no" /\ Same(q, g.q, "INLINE_NAME")
         /\ IsCode(l) => \/ /\ q.entry.decl_type = "function"
                            /\ g = process_proto_function(q, n, l.toks)
                         \/ /\ q.entry.decl_type # "function"
                            /\ g = process_proto_type(q, n, l.toks)
<1>1. Same(q, q, q.state)
  BY SameSelf
<1>2. \A x, s : Same(q, x, s) => /\ Gathering(x).q = x
                                 /\ Gathering(x).whole = "no"
                                 /\ IsGathered(Gathering(x))
  BY SameShape DEF Gathering, IsGathered
<1>3. CASE l.kind = "inline"
  <2> DEFINE x == DumpSection(AddText(BeginSection(q, n, Title(l)), <<n>>))
  <2>1. g = Gathering(x)
    BY <1>3 DEF process_proto
  <2>2. Same(q, x, q.state)
    BY <1>1, ParserMethods
  <2> HIDE DEF x
  <2> QED BY <1>2, <1>3, <2>1, <2>2 DEF IsCode
<1>4. CASE l.kind = "open"
  <2>1. g = Gathering(GoTo(q, "INLINE_NAME"))
    BY <1>4 DEF process_proto
  <2>2. Same(q, GoTo(q, "INLINE_NAME"), "INLINE_NAME")
    BY <1>1, ParserMethods
  <2> QED BY <1>2, <1>4, <2>1, <2>2 DEF IsCode
<1>5. CASE l.kind \notin {"inline", "open"}
  <2> DEFINE toks == ProtoToks(l)
  <2>1. \/ /\ q.entry.decl_type = "function"
           /\ g = process_proto_function(q, n, toks)
        \/ /\ q.entry.decl_type # "function"
           /\ g = process_proto_type(q, n, toks)
    BY <1>5 DEF process_proto
  <2>2. \E E : toks \in Seq(E) /\ toks # <<>>
    BY ProtoToksSeq, Zenon
  <2>3. IsCode(l) => toks = l.toks
    BY Zenon DEF ProtoToks, IsCode
  <2> HIDE DEF toks
  <2>4. IsGathered(g)
    <3>1. CASE g = process_proto_function(q, n, toks)
      BY <3>1, ProtoFunctionMethod, SameShape DEF IsGathered
    <3>2. CASE g = process_proto_type(q, n, toks)
      BY <2>2, <3>2, ProtoTypeMethod DEF IsGathered
    <3> QED BY <2>1, <3>1, <3>2
  <2> QED BY <1>5, <2>1, <2>3, <2>4
<1> QED BY <1>3, <1>4, <1>5

LEMMA CodeLineToks ==
  ASSUME NEW toks
  PROVE  CodeLine(toks).kind = "code" /\ CodeLine(toks).toks = toks
BY Zenon DEF CodeLine, Line

\* The reader has read the tokens of a declaration, and is d no more but x.
IsRead(d, toks, x) ==
  /\ x.phase = "code" /\ x.wf = d.wf
  /\ x.type = d.type
  /\ x.pending <=> ~Over(d, toks)
  /\ x.pending => x.depth = d.depth + Braces(toks, Len(toks))

LEMMA DeclarationRead ==
  ASSUME NEW d, IsDoc(d), d.phase = "code", d.pending, NEW l, ~l.cont,
         NEW toks \in TokenLists, NEW x, x = CodeRead(d, l, toks)
  PROVE  IsRead(d, toks, x)
<1>1. PICK E : toks \in Seq(E)
  BY DEF TokenLists
<1> QED BY <1>1, CodeReadDoc DEF IsRead

\* The parser ends a declaration where the reader does.
LEMMA CodeInStep ==
  ASSUME NEW d, IsDoc(d), d.phase = "code", d.pending, d.wf,
         NEW q, IsParser(q), ~q.crashed, q.state = "PROTO", Documents(d, q),
         NEW toks \in TokenLists, toks # <<>>, NEW x, IsRead(d, toks, x), NEW n, NEW g, IsGathered(g),
         \/ q.entry.decl_type = "function" /\ g = process_proto_function(q, n, toks)
         \/ q.entry.decl_type # "function" /\ g = process_proto_type(q, n, toks),
         NEW r, r = Finish(g, n)
  PROVE  Sync(x, r)
<1>1. /\ x.phase = "code" /\ x.wf = d.wf
      /\ x.type = d.type
      /\ x.pending <=> ~Over(d, toks)
      /\ x.pending => x.depth = d.depth + Braces(toks, Len(toks))
  BY DEF IsRead
<1>2. d.type \in Declarations /\ q.entry.decl_type = d.type
        /\ (d.type # "function" => q.entry.brcount = d.depth) /\ d.depth \in Int
  BY DEF Documents, IsDoc
<1>3. CASE d.type = "function"
  <2>1. /\ Same(q, g.q, "PROTO")
        /\ g.whole = IF Over(d, toks) THEN "function" ELSE "no"
    <3>1. g = process_proto_function(q, n, toks)
      BY <1>2, <1>3
    <3> QED BY <1>3, <3>1, ProtoFunctionMethod DEF Over
  <2>2. CASE Over(d, toks)
    <3>1. r.state = "NORMAL" /\ ~r.crashed
      BY <2>1, <2>2, FinishMethod
    <3> QED BY <1>1, <2>2, <3>1 DEF Sync, InStep, Documents
  <2>3. CASE ~Over(d, toks)
    <3>1. r = g.q
      BY <2>1, <2>3, FinishMethod
    <3> QED BY <1>1, <1>2, <1>3, <2>1, <2>3, <3>1 DEF Sync, InStep, Documents, Same, SameEntry
  <2> QED BY <2>2, <2>3
<1>4. CASE d.type # "function"
  <2>1. g = process_proto_type(q, n, toks)
    BY <1>2, <1>4
  <2>2. /\ g.whole \in {"no", "type"}
        /\ g.q.state = "PROTO"
        /\ ~g.q.crashed
        /\ g.q.entry.decl_type = d.type
        /\ (g.whole = "type") <=>
              \E k \in DOMAIN toks :
                /\ IsSemicolon(toks[k]) \/ (k = Len(toks) /\ toks[1].kind = "CPP")
                /\ d.depth + Braces(toks, k) <= 0
        /\ g.whole = "no" => g.q.entry.brcount = d.depth + Braces(toks, Len(toks))
    BY <1>2, <1>4, <2>1, ProtoTypeMethod DEF TokenLists
  <2>3. \A k \in DOMAIN toks : Depth(d, toks, k) = d.depth + Braces(toks, k)
    <3>1. \A k \in DOMAIN toks : k \in Nat
      BY DEF TokenLists
    <3> QED BY <1>2, <3>1, DepthBraces
  <2>4. (g.whole = "type") <=> Over(d, toks)
    BY <1>4, <2>2, <2>3 DEF Over
  <2>5. CASE Over(d, toks)
    <3>1. r.state = "NORMAL" /\ ~r.crashed
      BY <1>2, <1>4, <2>2, <2>4, <2>5, FinishMethod
    <3> QED BY <1>1, <2>5, <3>1 DEF Sync, InStep, Documents
  <2>6. CASE ~Over(d, toks)
    <3>1. g.whole = "no" /\ r = g.q
      BY <2>2, <2>4, <2>6, FinishMethod
    <3> QED BY <1>1, <1>2, <1>4, <2>2, <2>6, <3>1 DEF Sync, InStep, Documents
  <2> QED BY <2>5, <2>6
<1> QED BY <1>3, <1>4

LEMMA ProtoInv ==
  ASSUME IInv, NEW l \in Lines, Proto(l)
  PROVE  IInv'
<1> DEFINE first == IF prev = <<>> THEN ln ELSE prev_ln
           full == IF prev = <<>> THEN l ELSE CodeLine(prev \o l.toks)
           g == process_proto(Quiet, first, full)
           toks == prev \o l.toks
<1>1. /\ ReadLine(l) /\ p.state = "PROTO" /\ ~p.crashed /\ ~l.cont
      /\ p' = Finish(g, first)
      /\ prev' = <<>>
      /\ exports' = exports
      /\ prev # <<>> => IsCode(l)
  BY DEF Proto, ReadLine, Gather, ForgetContinuation
<1>2. IsParser(Quiet) /\ ~Quiet.crashed /\ Quiet.entry = p.entry /\ Quiet.state = "PROTO"
  BY <1>1, QuietParser
<1>3. /\ l \in AnyLine /\ prev \in TokenLists
      /\ IsCode(l) => l.toks # <<>>
  BY LineFacts DEF IInv, IsCode
<1>4. toks \in TokenLists /\ (IsCode(l) => toks # <<>>)
  BY <1>3 DEF AnyLine, TokenLists
<1>5. /\ IsCode(full) => toks = full.toks
      /\ IsCode(l) => IsCode(full)
      /\ ~IsCode(l) => full = l
      /\ IsCode(full) => IsCode(l)
  <2>1. CASE prev = <<>>
    <3>1. toks = l.toks
      BY <1>3, <2>1 DEF AnyLine, TokenLists
    <3> QED BY <2>1, <3>1
  <2>2. CASE prev # <<>>
    <3>1. full = CodeLine(toks) /\ IsCode(l)
      BY <1>1, <2>2
    <3> HIDE DEF toks, full
    <3> QED BY <3>1, CodeLineToks DEF IsCode
  <2> QED BY <2>1, <2>2
<1> HIDE DEF full, first, toks
<1>6. /\ IsGathered(g)
      /\ full.kind = "inline" => g.whole = "no" /\ Same(Quiet, g.q, "PROTO")
      /\ full.kind = "open" => g.whole = "no" /\ Same(Quiet, g.q, "INLINE_NAME")
      /\ IsCode(full) => \/ /\ p.entry.decl_type = "function"
                            /\ g = process_proto_function(Quiet, first, toks)
                         \/ /\ p.entry.decl_type # "function"
                            /\ g = process_proto_type(Quiet, first, toks)
  BY <1>2, <1>4, <1>5, ProtoMethod
<1> HIDE DEF g
<1>7. IsParser(p') /\ (g.whole = "no" => p' = g.q)
  BY <1>1, <1>6, FinishMethod
<1>8. ASSUME doc'.wf PROVE Sync(doc', p')
  <2>1. /\ doc.phase = "code" /\ doc.pending /\ doc.wf /\ Sync(doc, p)
        /\ l.kind = "open" => doc' = Opened(doc)
        /\ l.kind = "inline" => SameDoc(doc, doc')
        /\ l.kind \in {"code", "export"} => doc' = CodeRead(doc, l, toks)
    BY <1>1, <1>8, CodeLineRead DEF toks
  <2>2. IsDoc(doc) /\ Documents(doc, p)
    BY <2>1 DEF IInv, Sync
  <2>3. CASE l.kind = "inline"
    <3>1. Same(Quiet, p', "PROTO")
      BY <1>5, <1>6, <1>7, <2>3 DEF IsCode
    <3> QED BY <1>2, <2>1, <2>2, <2>3, <3>1 DEF SameDoc, Same, SameEntry, Sync, InStep, Documents
  <2>4. CASE l.kind = "open"
    <3>1. Same(Quiet, p', "INLINE_NAME")
      BY <1>5, <1>6, <1>7, <2>4 DEF IsCode
    <3>2. /\ doc'.phase = "first" /\ doc'.inside = doc.pending /\ doc'.pending = doc.pending
          /\ doc'.type = doc.type /\ doc'.depth = doc.depth
      <4>1. doc' = Opened(doc)
        BY <2>1, <2>4
      <4>2. /\ doc'.phase = "first" /\ doc'.inside = doc.pending /\ doc'.pending = doc.pending
            /\ doc.pending => doc'.type = doc.type /\ doc'.depth = doc.depth
        BY <2>2, <4>1, OpenedDoc
      <4> QED BY <2>1, <4>2
    <3> QED BY <1>2, <2>1, <2>2, <3>1, <3>2 DEF Same, SameEntry, Sync, InStep, Documents
  <2>5. CASE l.kind \in {"code", "export"}
    <3>1. IsCode(full) /\ toks # <<>>
      BY <1>4, <1>5, <2>5 DEF IsCode
    <3>2. IsRead(doc, toks, doc')
      BY <1>1, <1>4, <2>1, <2>2, <2>5, DeclarationRead
    <3>3. Documents(doc, Quiet)
      BY <1>2, <2>2 DEF Documents
    <3> QED BY <1>1, <1>2, <1>4, <1>6, <2>1, <2>2, <3>1, <3>2, <3>3, CodeInStep
  <2> QED BY <2>1, <2>3, <2>4, <2>5, LineFacts
<1>9. prev' \in TokenLists
  BY <1>1 DEF TokenLists
<1> QED BY <1>1, <1>7, <1>8, <1>9, LineInv

LEMMA EndOfFileInv ==
  ASSUME IInv, EndOfFile
  PROVE  IInv'
<1>1. /\ ~p.crashed
      /\ p' = emit_unused_warnings(Quiet)
      /\ UNCHANGED <<prev, exports, doc>>
  BY DEF EndOfFile
<1>2. /\ IsParser(p')
      /\ p'.state = p.state /\ p'.entry = p.entry /\ ~p'.crashed
  <2>1. DOMAIN Quiet = ParserFields /\ DOMAIN Quiet.entry = EntryFields /\ Quiet.state = p.state
          /\ Quiet.entry = p.entry /\ ~Quiet.crashed
    BY <1>1, QuietParser DEF IsParser
  <2> DEFINE logged == Quiet.logged \o Quiet.entry.warnings
  <2>2. p' = [Quiet EXCEPT !.logged = logged]
    BY <1>1, Zenon DEF emit_unused_warnings
  <2> HIDE DEF logged
  <2> QED BY <2>1, <2>2 DEF IsParser, ParserFields
<1>3. Sync(doc', p')
  BY <1>1, <1>2 DEF IInv, Sync, InStep, Documents
<1> QED BY <1>1, <1>2, <1>3 DEF IInv

-----------------------------------------------------------------------------
LEMMA InitInv == Init => IInv
<1> SUFFICES ASSUME Init PROVE IInv
  OBVIOUS
<1> DEFINE e == KernelEntry(0)
<1>1. DOMAIN e = EntryFields
  BY DEF KernelEntry, EntryFields
<1> HIDE DEF e
<1>2. p = [state |-> "NORMAL", entry |-> e, out |-> NoItem, logged |-> <<>>, crashed |-> FALSE]
  BY DEF Init, e
<1>3. IsParser(p) /\ p.state = "NORMAL" /\ ~p.crashed
  BY <1>1, <1>2 DEF IsParser, ParserFields
<1>4. /\ DOMAIN doc = DocFields /\ doc.phase = "code" /\ doc.pending = FALSE
      /\ doc.inside = FALSE /\ doc.depth = 0 /\ doc.wf = TRUE /\ doc.exports = {}
  BY DEF Init, NoDoc, DocFields
<1>5. IsDoc(doc) /\ Sync(doc, p)
  <2>1. doc.depth \in Int
    BY <1>4
  <2>2. IsDoc(doc)
    BY <1>4, <2>1, Zenon DEF IsDoc
  <2> QED BY <1>3, <1>4, <2>2 DEF Sync, InStep, Documents
<1>6. prev \in TokenLists
  BY DEF Init, TokenLists
<1> QED BY <1>3, <1>4, <1>5, <1>6 DEF IInv

LEMMA NextInv == IInv /\ [Next]_vars => IInv'
<1> SUFFICES ASSUME IInv, [Next]_vars PROVE IInv'
  OBVIOUS
<1>1. CASE \E l \in Lines : Normal(l)
  BY <1>1, NormalInv
<1>2. CASE \E l \in Lines : Export(l)
  BY <1>2, ExportInv
<1>3. CASE \E l \in Lines : SeekName(l)
  BY <1>3, SeekNameInv
<1>4. CASE \E l \in Lines : Declaration(l) \/ SpecialSect(l) \/ Body(l)
  BY <1>4, BodyActions
<1>5. CASE \E l \in Lines : InlineName(l)
  BY <1>5, InlineNameInv
<1>6. CASE \E l \in Lines : InlineText(l)
  BY <1>6, InlineTextInv
<1>7. CASE \E l \in Lines : DocBlock(l)
  BY <1>7, DocBlockInv
<1>8. CASE \E l \in Lines : Continue(l)
  BY <1>8, ContinueInv
<1>9. CASE \E l \in Lines : Proto(l)
  BY <1>9, ProtoInv
<1>10. CASE EndOfFile
  BY <1>10, EndOfFileInv
<1>11. CASE UNCHANGED vars
  BY <1>11 DEF vars, IInv
<1> QED BY <1>1, <1>2, <1>3, <1>4, <1>5, <1>6, <1>7, <1>8, <1>9, <1>10, <1>11 DEF Next

\* The parser is in step with a reader of the file for as long as the comments
\* have the documented form: it is in the state for the part of the comment or of
\* the declaration that is being read, documents the same kind of thing, and has
\* counted the same open braces.
THEOREM Invariance == Spec => []IInv
BY InitInv, NextInv, PTL DEF Spec

\* The parser leaves every comment of the documented form at its "*/" and every
\* declaration where C ends it, and finds every export outside documented
\* declarations that follows no ill-formed comment.
THEOREM InSync == Spec => []CommentSync
<1>1. IInv => CommentSync
  <2> SUFFICES ASSUME IInv PROVE CommentSync
    OBVIOUS
  <2>1. doc.wf => /\ (doc.phase # "code") <=> (p.state \notin {"NORMAL", "PROTO"})
                  /\ doc.phase = "code" => (doc.pending <=> p.state = "PROTO")
    BY DEF IInv, Sync, InStep, IsDoc, BodyStates
  <2>2. doc.pending \in BOOLEAN /\ doc.exports \subseteq exports
    BY DEF IInv, IsDoc
  <2> QED BY <2>1, <2>2 DEF CommentSync
<1> QED BY <1>1, Invariance, PTL

\* No comment of the documented form makes a method of the parser raise: neither
\* process_special(), which looks at the first character of a line, nor
\* dump_declaration(), whose last branch calls a method that does not exist.
THEOREM NoCrash == Spec => []CrashOnlyIllFormed
<1>1. IInv => CrashOnlyIllFormed
  BY DEF IInv, Sync, CrashOnlyIllFormed
<1> QED BY <1>1, Invariance, PTL
=============================================================================
