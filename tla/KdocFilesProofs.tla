--------------------------- MODULE KdocFilesProofs ---------------------------
(***************************************************************************)
(* Proofs that the caches of a documentation build belong together, that   *)
(* a directive shows the items it asks for and that the pages of one build *)
(* agree, for every set of files, contents and directives and any number   *)
(* of directives and edits.                                                *)
(*                                                                         *)
(* The first part is about the ReST writer: the only thing that an item    *)
(* leaves behind for the next is the indentation, and only a variable does *)
(* not put it back. Each loop of the writer is an instance of FoldTheorems.*)
(***************************************************************************)
EXTENDS KdocFiles, FiniteSetTheorems, MinTheorems, TLAPS

-----------------------------------------------------------------------------
(* The writer *)

IsWriter(w) == DOMAIN w = {"lineprefix", "nosymbol", "mode", "data"}

\* x is the writer w with more data, at indentation n.
At(w, x, n) ==
  /\ IsWriter(x)
  /\ x.lineprefix = n
  /\ x.nosymbol = w.nosymbol
  /\ x.mode = w.mode

\* x is w with more data, at the same or at some indentation.
SameAt(w, s, k, x) == At(w, x, w.lineprefix)
Somewhere(w, s, k, x) == \E n : At(w, x, n)

LEMMA PrefixAt ==
  ASSUME NEW w, NEW x, NEW m, At(w, x, m), NEW n
  PROVE  At(w, Prefix(x, n), n)
BY DEF At, IsWriter, Prefix

LEMMA WriteAt ==
  ASSUME NEW w, NEW x, NEW n, At(w, x, n), NEW lines
  PROVE  At(w, Write(x, lines), n)
BY DEF At, IsWriter, Write

LEMMA HighlightAt ==
  ASSUME NEW w, NEW x, NEW n, At(w, x, n), NEW text
  PROVE  At(w, output_highlight(x, text), n)
<1>1. \E lines : output_highlight(x, text) = Write(x, lines)
  BY Zenon DEF output_highlight
<1> QED BY <1>1, WriteAt

LEMMA HeadingAt ==
  ASSUME NEW w, NEW x, NEW n, At(w, x, n), NEW name
  PROVE  At(w, Heading(x, name), n)
BY WriteAt DEF Heading

LEMMA SectionAt ==
  ASSUME NEW w, NEW x, NEW n, At(w, x, n), NEW s, NEW h, At(w, h, n)
  PROVE  At(w, WriteSection(x, s, h), n)
<1>1. At(w, Write(output_highlight(h, s.text), <<Blank>>), n)
  BY HighlightAt, WriteAt
<1> QED BY <1>1 DEF WriteSection

DocSections == INSTANCE FoldTheorems WITH Op <- DocSection, Rel <- SameAt
PlainSections == INSTANCE FoldTheorems WITH Op <- PlainSection, Rel <- SameAt
Parameters == INSTANCE FoldTheorems WITH Op <- Described, Rel <- Somewhere
Constants == INSTANCE FoldTheorems WITH Op <- Constant, Rel <- Somewhere
Members == INSTANCE FoldTheorems WITH Op <- Member, Rel <- Somewhere

\* The sections of an item leave the indentation as it is.
LEMMA SectionsAt ==
  ASSUME NEW w, NEW x, NEW n, At(w, x, n), NEW i \in Items, NEW out_docblock \in BOOLEAN
  PROVE  At(w, out_section(x, i, out_docblock), n)
<1> DEFINE doc == FoldLeft(DocSection, x, i.sections)
           plain == FoldLeft(PlainSection, x, i.sections)
           E == [name : STRING, text : Texts]
<1>1. i.sections \in Seq(E)
  BY DEF Items
<1>2. At(x, x, x.lineprefix)
  BY DEF At
<1>3. ASSUME NEW y, At(x, y, x.lineprefix), NEW s
      PROVE  /\ At(x, DocSection(y, s), x.lineprefix)
             /\ At(x, PlainSection(y, s), x.lineprefix)
  BY <1>3, WriteAt, HeadingAt, SectionAt DEF DocSection, PlainSection
<1>4. At(x, doc, x.lineprefix)
  <2>1. SameAt(x, i.sections, Len(i.sections), DocSections!Folded(x, i.sections))
    BY <1>1, <1>2, <1>3, DocSections!FoldKeeps DEF SameAt
  <2>2. doc = DocSections!Folded(x, i.sections)
    BY Zenon DEF DocSections!Folded, FoldLeft, DocSections!FoldLeft, MapThenFoldSet,
                 DocSections!MapThenFoldSet, Max, DocSections!Max
  <2> QED BY <2>1, <2>2 DEF SameAt
<1>5. At(x, plain, x.lineprefix)
  <2>1. SameAt(x, i.sections, Len(i.sections), PlainSections!Folded(x, i.sections))
    BY <1>1, <1>2, <1>3, PlainSections!FoldKeeps DEF SameAt
  <2>2. plain = PlainSections!Folded(x, i.sections)
    BY Zenon DEF PlainSections!Folded, FoldLeft, PlainSections!FoldLeft, MapThenFoldSet,
                 PlainSections!MapThenFoldSet, Max, PlainSections!Max
  <2> QED BY <2>1, <2>2 DEF SameAt
<1> HIDE DEF doc, plain
<1>6. At(w, doc, n) /\ At(w, plain, n)
  BY <1>4, <1>5 DEF At
<1>7. At(w, IF out_docblock THEN doc ELSE plain, n)
  BY <1>6
<1> QED BY <1>7, WriteAt DEF out_section, doc, plain

\* One parameter, constant or member; the caller puts the indentation back.
LEMMA ParameterAt ==
  ASSUME NEW w, NEW x, NEW n, At(w, x, n), NEW p
  PROVE  /\ Somewhere(w, <<>>, 0, Described(x, p))
         /\ Somewhere(w, <<>>, 0, Constant(x, p))
         /\ Somewhere(w, <<>>, 0, Member(x, p))
<1>1. At(w, Described(x, p), 2)
  <2> DEFINE named == Prefix(Write(x, <<Line(x.lineprefix, "name", p.name)>>), 4)
  <2>1. At(w, named, 4)
    BY WriteAt, PrefixAt
  <2> HIDE DEF named
  <2>2. At(w, Write(output_highlight(named, p.text), <<Blank>>), 4)
    BY <2>1, HighlightAt, WriteAt
  <2>3. At(w, Write(named, <<Line(4, "undescribed", p.name), Blank>>), 4)
    BY <2>1, WriteAt
  <2>4. At(w, IF p.described THEN Write(output_highlight(named, p.text), <<Blank>>)
              ELSE Write(named, <<Line(4, "undescribed", p.name), Blank>>), 4)
    BY <2>2, <2>3
  <2> QED BY <2>4, PrefixAt DEF Described, named
<1>2. At(w, Constant(x, p), n)
  <2> DEFINE named == Write(x, <<Line(4, "name", p.name)>>)
  <2>1. At(w, named, n)
    BY WriteAt
  <2> HIDE DEF named
  <2>2. At(w, output_highlight(named, p.text), n)
    BY <2>1, HighlightAt
  <2>3. At(w, Write(named, <<Line(x.lineprefix, "undescribed", p.name), Blank>>), n)
    BY <2>1, WriteAt
  <2>4. At(w, IF p.described THEN output_highlight(named, p.text)
              ELSE Write(named, <<Line(x.lineprefix, "undescribed", p.name), Blank>>), n)
    BY <2>2, <2>3
  <2> QED BY <2>4, WriteAt DEF Constant, named
<1>3. At(w, Member(x, p), n) \/ At(w, Member(x, p), 2)
  <2> DEFINE named == Prefix(Write(x, <<Line(2, "name", p.name)>>), 4)
  <2>1. At(w, named, 4)
    BY WriteAt, PrefixAt
  <2> HIDE DEF named
  <2>2. At(w, Write(Prefix(output_highlight(named, p.text), 2), <<Blank>>), 2)
    BY <2>1, HighlightAt, PrefixAt, WriteAt
  <2> QED BY <2>2 DEF Member, named
<1> QED BY <1>1, <1>2, <1>3, Zenon DEF Somewhere

\* The loops over them.
LEMMA ParametersAt ==
  ASSUME NEW w, NEW x, NEW n, At(w, x, n), NEW i \in Items
  PROVE  /\ Somewhere(w, <<>>, 0, FoldLeft(Described, x, i.parameters))
         /\ Somewhere(w, <<>>, 0, FoldLeft(Constant, x, i.parameters))
         /\ Somewhere(w, <<>>, 0, FoldLeft(Member, x, i.parameters))
<1> DEFINE s == i.parameters
           E == [name : STRING, unnamed : BOOLEAN, described : BOOLEAN, text : Texts]
<1>1. s \in Seq(E)
  BY DEF Items
<1> HIDE DEF s, E
<1>2. Somewhere(x, s, 0, x)
  <2>1. At(x, x, x.lineprefix)
    BY DEF At
  <2> QED BY <2>1, Zenon DEF Somewhere
<1>3. ASSUME NEW k \in Nat, NEW y, Somewhere(x, s, k, y), NEW p
      PROVE  /\ Somewhere(x, s, k + 1, Described(y, p))
             /\ Somewhere(x, s, k + 1, Constant(y, p))
             /\ Somewhere(x, s, k + 1, Member(y, p))
  BY <1>3, ParameterAt, Zenon DEF Somewhere
<1>4. ASSUME NEW y, Somewhere(x, s, Len(s), y)
      PROVE  Somewhere(w, <<>>, 0, y)
  <2>1. PICK m : At(x, y, m)
    BY <1>4, Zenon DEF Somewhere
  <2>2. At(w, y, m)
    BY <2>1 DEF At
  <2> QED BY <2>2, Zenon DEF Somewhere
<1>5. Somewhere(w, <<>>, 0, FoldLeft(Described, x, s))
  <2>1. Somewhere(x, s, Len(s), Parameters!Folded(x, s))
    BY <1>1, <1>2, <1>3, Parameters!FoldKeeps
  <2>2. FoldLeft(Described, x, s) = Parameters!Folded(x, s)
    BY Zenon DEF Parameters!Folded, FoldLeft, Parameters!FoldLeft, MapThenFoldSet,
                 Parameters!MapThenFoldSet, Max, Parameters!Max
  <2> QED BY <1>4, <2>1, <2>2
<1>6. Somewhere(w, <<>>, 0, FoldLeft(Constant, x, s))
  <2>1. Somewhere(x, s, Len(s), Constants!Folded(x, s))
    BY <1>1, <1>2, <1>3, Constants!FoldKeeps
  <2>2. FoldLeft(Constant, x, s) = Constants!Folded(x, s)
    BY Zenon DEF Constants!Folded, FoldLeft, Constants!FoldLeft, MapThenFoldSet,
                 Constants!MapThenFoldSet, Max, Constants!Max
  <2> QED BY <1>4, <2>1, <2>2
<1>7. Somewhere(w, <<>>, 0, FoldLeft(Member, x, s))
  <2>1. Somewhere(x, s, Len(s), Members!Folded(x, s))
    BY <1>1, <1>2, <1>3, Members!FoldKeeps
  <2>2. FoldLeft(Member, x, s) = Members!Folded(x, s)
    BY Zenon DEF Members!Folded, FoldLeft, Members!FoldLeft, MapThenFoldSet,
                 Members!MapThenFoldSet, Max, Members!Max
  <2> QED BY <1>4, <2>1, <2>2
<1> QED BY <1>5, <1>6, <1>7 DEF s

LEMMA HeadsAt ==
  ASSUME NEW w, NEW x, NEW n, At(w, x, n), NEW kind, NEW name
  PROVE  /\ At(w, Declares(x, kind, name), n)
         /\ At(w, Starts(x, kind, name), n)
         /\ At(w, Container(x), n)
BY WriteAt DEF Declares, Starts, Container

LEMMA TypedefPurposeAt ==
  ASSUME NEW w, NEW x, NEW n, At(w, x, n), NEW i
  PROVE  At(w, TypedefPurpose(x, i), 0)
<1> DEFINE text == output_highlight(Prefix(x, 0), i.purpose)
           joined == [text EXCEPT !.data[Len(x.data) + 1] =
                        [@ EXCEPT !.at = 3, !.what = IF @ = "blank" THEN "heading" ELSE @]]
<1>1. At(w, text, 0)
  BY PrefixAt, HighlightAt
<1> HIDE DEF text
<1>2. At(w, joined, 0)
  BY <1>1 DEF At, IsWriter
<1> HIDE DEF joined
<1> QED BY <1>2, WriteAt DEF TypedefPurpose, text, joined

\* Every method but out_var() leaves the indentation as it was.
LEMMA FunctionAt ==
  ASSUME NEW w, NEW x, NEW n, At(w, x, n), NEW i \in Items
  PROVE  At(w, out_function(x, i), n)
<1> DEFINE head == IF i.form = "typedef"
                     THEN TypedefPurpose(Declares(x, "c:macro", i.name), i)
                   ELSE IF i.form = "macro"
                     THEN Write(Declares(x, "c:macro", i.name),
                                <<Line(0, "signature", i.name), Blank>>)
                   ELSE Declares(x, "c:function", i.name)
           purpose == IF i.form = "typedef" THEN head
                      ELSE Write(output_highlight(Prefix(head, 3), i.purpose), <<Blank>>)
           list == IF i.parameters = <<>> THEN Prefix(purpose, 2)
                   ELSE Heading(Container(Prefix(purpose, 2)), "Parameters")
           described == FoldLeft(Described, list, i.parameters)
<1>1. \E m : At(w, head, m)
  BY HeadsAt, WriteAt, TypedefPurposeAt
<1> HIDE DEF head
<1>2. \E m : At(w, purpose, m)
  <2>1. At(w, Write(output_highlight(Prefix(head, 3), i.purpose), <<Blank>>), 3)
    BY <1>1, PrefixAt, HighlightAt, WriteAt
  <2> QED BY <1>1, <2>1
<1> HIDE DEF purpose
<1>3. At(w, list, 2)
  <2>1. At(w, Prefix(purpose, 2), 2)
    BY <1>2, PrefixAt
  <2>2. At(w, Heading(Container(Prefix(purpose, 2)), "Parameters"), 2)
    BY <2>1, HeadsAt, HeadingAt
  <2> QED BY <2>1, <2>2
<1> HIDE DEF list
<1>4. \E m : At(w, described, m)
  BY <1>3, ParametersAt, Zenon DEF Somewhere
<1> HIDE DEF described
<1>5. \E m : At(w, out_section(described, i, FALSE), m)
  BY <1>4, SectionsAt
<1>6. x.lineprefix = n
  BY DEF At
<1>7. At(w, Prefix(out_section(described, i, FALSE), x.lineprefix), n)
  BY <1>5, <1>6, PrefixAt
<1> QED BY <1>7, Zenon DEF out_function, head, purpose, list, described

LEMMA EnumAt ==
  ASSUME NEW w, NEW x, NEW n, At(w, x, n), NEW i \in Items
  PROVE  At(w, out_enum(x, i), n)
<1> DEFINE purpose == output_highlight(Prefix(Starts(x, "c:enum", i.name), 2), i.purpose)
           head == Heading(Prefix(Container(Write(purpose, <<Blank>>)), 4), "Constants")
           listed == FoldLeft(Constant, Prefix(head, 6), i.parameters)
<1>1. At(w, purpose, 2)
  BY HeadsAt, PrefixAt, HighlightAt
<1> HIDE DEF purpose
<1>2. At(w, head, 4)
  BY <1>1, WriteAt, HeadsAt, PrefixAt, HeadingAt
<1> HIDE DEF head
<1>3. At(w, Prefix(head, 6), 6)
  BY <1>2, PrefixAt
<1>4. \E m : At(w, listed, m)
  BY <1>3, ParametersAt, Zenon DEF Somewhere
<1> HIDE DEF listed
<1>5. x.lineprefix = n
  BY DEF At
<1>6. At(w, Prefix(listed, x.lineprefix), n)
  BY <1>4, <1>5, PrefixAt
<1>7. At(w, out_section(Prefix(listed, x.lineprefix), i, FALSE), n)
  BY <1>6, SectionsAt
<1> QED BY <1>7, Zenon DEF out_enum, purpose, head, listed

LEMMA TypedefAt ==
  ASSUME NEW w, NEW x, NEW n, At(w, x, n), NEW i \in Items
  PROVE  At(w, out_typedef(x, i), n)
<1> DEFINE purpose == output_highlight(Prefix(Starts(x, "c:type", i.name), 3), i.purpose)
<1>1. At(w, purpose, 3)
  BY HeadsAt, PrefixAt, HighlightAt
<1> HIDE DEF purpose
<1>2. x.lineprefix = n
  BY DEF At
<1>3. At(w, Prefix(Write(purpose, <<Blank>>), x.lineprefix), n)
  BY <1>1, <1>2, WriteAt, PrefixAt
<1>4. At(w, out_section(Prefix(Write(purpose, <<Blank>>), x.lineprefix), i, FALSE), n)
  BY <1>3, SectionsAt
<1> QED BY <1>4, Zenon DEF out_typedef, purpose

LEMMA StructAt ==
  ASSUME NEW w, NEW x, NEW n, At(w, x, n), NEW i \in Items
  PROVE  At(w, out_struct(x, i), n)
<1> DEFINE purpose == output_highlight(Prefix(Starts(x, i.type, i.name), x.lineprefix + 2),
                                       i.purpose)
           head == Heading(Container(Write(purpose, <<Blank>>)), "Definition")
           definition == Write(head, <<Line(x.lineprefix + 4, "definition", i.name),
                                       Line(x.lineprefix + 4, "definition end", i.name), Blank>>)
           members == FoldLeft(Member, Heading(Prefix(definition, 2), "Members"), i.parameters)
<1>1. \E m : At(w, purpose, m)
  BY HeadsAt, PrefixAt, HighlightAt
<1> HIDE DEF purpose
<1>2. \E m : At(w, head, m)
  BY <1>1, WriteAt, HeadsAt, HeadingAt
<1> HIDE DEF head
<1>3. \E m : At(w, definition, m)
  BY <1>2, WriteAt
<1> HIDE DEF definition
<1>4. At(w, Heading(Prefix(definition, 2), "Members"), 2)
  BY <1>3, PrefixAt, HeadingAt
<1>5. \E m : At(w, members, m)
  BY <1>4, ParametersAt, Zenon DEF Somewhere
<1> HIDE DEF members
<1>6. x.lineprefix = n
  BY DEF At
<1>7. At(w, Prefix(Write(members, <<Blank>>), x.lineprefix), n)
  BY <1>5, <1>6, WriteAt, PrefixAt
<1>8. At(w, StructBody(definition, i, x.lineprefix), n)
  BY <1>7 DEF StructBody, members
<1>9. At(w, out_section(StructBody(definition, i, x.lineprefix), i, FALSE), n)
  BY <1>8, SectionsAt
<1> QED BY <1>9, Zenon DEF out_struct, purpose, head, definition

LEMMA VarAt ==
  ASSUME NEW w, NEW x, NEW n, At(w, x, n), NEW i \in Items
  PROVE  At(w, out_var(x, i), 2)
<1> DEFINE head == Write(Prefix(Starts(x, "c:macro", i.name), 2),
                         <<Line(2, "signature", i.name), Blank>>)
           purpose == Write(output_highlight(head, i.purpose), <<Blank>>)
           value == IF i.form # "initialised" THEN purpose
                    ELSE Write(Heading(purpose, "Initialization"), <<Line(2, "default", i.name)>>)
<1>1. At(w, head, 2)
  BY HeadsAt, PrefixAt, WriteAt
<1> HIDE DEF head
<1>2. At(w, purpose, 2)
  BY <1>1, HighlightAt, WriteAt
<1> HIDE DEF purpose
<1>3. At(w, value, 2)
  BY <1>2, HeadingAt, WriteAt
<1> HIDE DEF value
<1>4. At(w, out_section(value, i, FALSE), 2)
  BY <1>3, SectionsAt
<1> QED BY <1>4, Zenon DEF out_var, head, purpose, value

LEMMA OutputAt ==
  ASSUME NEW w, NEW x, NEW n, At(w, x, n), NEW i \in Items
  PROVE  At(w, Output(x, i), IF i.type = "var" THEN 2 ELSE n)
<1>1. At(w, out_doc(x, i), n)
  BY SectionsAt DEF out_doc
<1> QED BY <1>1, FunctionAt, EnumAt, TypedefAt, StructAt, VarAt, Zenon DEF Output

-----------------------------------------------------------------------------
(* The loops of a directive *)

\* After k items: the indentation is 2 from the first variable on.
Indented(w, s, k, x) ==
  At(w, x, IF \E j \in 1 .. k : s[j].type = "var" THEN 2 ELSE w.lineprefix)
Pages == INSTANCE FoldTheorems WITH Op <- Output, Rel <- Indented

\* The loop over items of which none raises.
LEMMA OutputAllAt ==
  ASSUME NEW w, IsWriter(w), NEW s \in Seq(Items)
  PROVE  FoldLeft(Output, w, s).lineprefix =
           IF \E j \in DOMAIN s : s[j].type = "var" THEN 2 ELSE w.lineprefix
<1>1. Indented(w, s, 0, w)
  BY DEF Indented, At
<1>2. ASSUME NEW k \in Nat, NEW x, k + 1 <= Len(s), Indented(w, s, k, x)
      PROVE  Indented(w, s, k + 1, Output(x, s[k + 1]))
  <2>1. s[k + 1] \in Items
    BY <1>2
  <2> DEFINE n == IF \E j \in 1 .. k : s[j].type = "var" THEN 2 ELSE w.lineprefix
             m == IF \E j \in 1 .. (k + 1) : s[j].type = "var" THEN 2 ELSE w.lineprefix
  <2>2. At(w, x, n)
    BY <1>2 DEF Indented
  <2>3. m = IF s[k + 1].type = "var" THEN 2 ELSE n
    OBVIOUS
  <2> HIDE DEF n, m
  <2>4. At(w, Output(x, s[k + 1]), m)
    BY <2>1, <2>2, <2>3, OutputAt
  <2> QED BY <2>4 DEF Indented, m
<1>3. Indented(w, s, Len(s), Pages!Folded(w, s))
  BY <1>1, <1>2, Pages!FoldKeeps
<1>4. FoldLeft(Output, w, s) = Pages!Folded(w, s)
  BY Zenon DEF Pages!Folded, FoldLeft, Pages!FoldLeft, MapThenFoldSet,
               Pages!MapThenFoldSet, Max, Pages!Max
<1>5. DOMAIN s = 1 .. Len(s)
  OBVIOUS
<1> QED BY <1>3, <1>4, <1>5 DEF Indented, At

\* The items up to the first that raises are items, in their places.
LEMMA WrittenItems ==
  ASSUME NEW s \in Seq(Items)
  PROVE  /\ Reached(s) \in Seq(Items)
         /\ Written(s) \in Seq(Items)
         /\ \A k \in DOMAIN Written(s) : Written(s)[k] = s[k]
<1>1. CASE Raising(s) = {}
  BY <1>1 DEF Reached, Written
<1>2. CASE Raising(s) # {}
  <2> DEFINE m == Min(Raising(s))
  <2>1. Raising(s) \subseteq 1 .. Len(s)
    BY DEF Raising
  <2>2. m \in Raising(s)
    BY <1>2, <2>1, MinIsLeast
  <2> HIDE DEF m
  <2>3. m \in 1 .. Len(s)
    BY <2>1, <2>2
  <2>4. SubSeq(s, 1, m) \in Seq(Items) /\ SubSeq(s, 1, m - 1) \in Seq(Items)
    BY <2>3
  <2>5. \A k \in DOMAIN SubSeq(s, 1, m - 1) : SubSeq(s, 1, m - 1)[k] = s[k]
    BY <2>3
  <2>6. Reached(s) = SubSeq(s, 1, m) /\ Written(s) = SubSeq(s, 1, m - 1)
    BY <1>2 DEF Reached, Written, m
  <2> QED BY <2>4, <2>5, <2>6
<1> QED BY <1>1, <1>2

LEMMA OutputsAt ==
  ASSUME NEW w, IsWriter(w), NEW s \in Seq(Items)
  PROVE  output_symbols(w, s).lineprefix =
           IF \E j \in DOMAIN Written(s) : s[j].type = "var" THEN 2 ELSE w.lineprefix
<1> DEFINE t == Written(s)
<1>1. t \in Seq(Items) /\ \A k \in DOMAIN t : t[k] = s[k]
  BY WrittenItems
<1>2. output_symbols(w, s) = FoldLeft(Output, w, t)
  BY DEF output_symbols
<1> HIDE DEF t
<1>3. FoldLeft(Output, w, t).lineprefix =
        IF \E j \in DOMAIN t : t[j].type = "var" THEN 2 ELSE w.lineprefix
  BY <1>1, OutputAllAt
<1>4. (\E j \in DOMAIN t : t[j].type = "var") <=> \E j \in DOMAIN t : s[j].type = "var"
  BY <1>1
<1> QED BY <1>2, <1>3, <1>4 DEF t

\* Warnings are counted.
Counted(b, s, k, n) == n \in Nat
Count == INSTANCE FoldTheorems WITH Op <- Counts, Rel <- Counted

LEMMA WarningsNat ==
  ASSUME NEW s \in Seq(Items)
  PROVE  Warnings(s) \in Nat
<1>1. ASSUME NEW k \in Nat, NEW n, k + 1 <= Len(s), Counted(0, s, k, n)
      PROVE  Counted(0, s, k + 1, Counts(n, s[k + 1]))
  <2>1. s[k + 1] \in Items
    BY <1>1
  <2>2. s[k + 1].warnings \in Nat
    BY <2>1 DEF Items
  <2> QED BY <1>1, <2>2 DEF Counted, Counts
<1>2. Counted(0, s, Len(s), Count!Folded(0, s))
  BY <1>1, Count!FoldKeeps DEF Counted
<1>3. Warnings(s) = Count!Folded(0, s)
  BY Zenon DEF Warnings, Count!Folded, FoldLeft, Count!FoldLeft, MapThenFoldSet,
               Count!MapThenFoldSet, Max, Count!Max
<1> QED BY <1>2, <1>3 DEF Counted

\* Picking keeps what it is looking for, and yields the items that are wanted.
Picked(b, s, k, x) ==
  /\ DOMAIN x = {"wanted", "out"}
  /\ x.wanted = b.wanted
  /\ x.out \in Seq(Items)
  /\ \A i : i \in ToSet(x.out) <=> i \in b.wanted /\ \E j \in 1 .. k : s[j] = i
Picks == INSTANCE FoldTheorems WITH Op <- Pick, Rel <- Picked

LEMMA KeptItems ==
  ASSUME NEW s \in Seq(Items), NEW wanted
  PROVE  /\ Kept(s, wanted) \in Seq(Items)
         /\ \A i \in ToSet(s) : i \in ToSet(Kept(s, wanted)) <=> i \in wanted
<1> DEFINE b == [wanted |-> wanted, out |-> <<>>]
<1>1. Picked(b, s, 0, b)
  BY DEF Picked, ToSet
<1>2. ASSUME NEW k \in Nat, NEW x, k + 1 <= Len(s), Picked(b, s, k, x)
      PROVE  Picked(b, s, k + 1, Pick(x, s[k + 1]))
  <2> DEFINE e == s[k + 1]
             o == Append(x.out, e)
  <2>1. e \in Items
    BY <1>2
  <2>2. /\ DOMAIN x = {"wanted", "out"} /\ x.wanted = b.wanted
        /\ x.out \in Seq(Items)
        /\ \A i : i \in ToSet(x.out) <=> i \in b.wanted /\ \E j \in 1 .. k : s[j] = i
    BY <1>2 DEF Picked
  <2>3. o \in Seq(Items) /\ \A i : i \in ToSet(o) <=> i \in ToSet(x.out) \/ i = e
    <3> HIDE DEF e
    <3>1. /\ o \in Seq(Items) /\ Len(o) = Len(x.out) + 1 /\ Len(x.out) \in Nat
          /\ \A j \in 1 .. Len(x.out) : o[j] = x.out[j]
          /\ o[Len(x.out) + 1] = e
      BY <2>1, <2>2
    <3>2. DOMAIN o = 1 .. Len(o) /\ DOMAIN x.out = 1 .. Len(x.out)
      BY <2>2, <3>1
    <3> HIDE DEF o
    <3> QED BY <3>1, <3>2 DEF ToSet
  <2>4. \A i : (\E j \in 1 .. (k + 1) : s[j] = i) <=> (\E j \in 1 .. k : s[j] = i) \/ i = e
    BY <1>2
  <2> HIDE DEF b, e, o
  <2>5. CASE e \in x.wanted
    <3>1. Pick(x, e) = [x EXCEPT !.out = o]
      BY <2>5 DEF Pick, o
    <3>2. /\ DOMAIN Pick(x, e) = {"wanted", "out"}
          /\ Pick(x, e).wanted = b.wanted /\ Pick(x, e).out = o
      BY <2>2, <3>1
    <3> QED BY <2>2, <2>3, <2>4, <2>5, <3>2 DEF Picked, e
  <2>6. CASE e \notin x.wanted
    <3>1. Pick(x, e) = x
      BY <2>6 DEF Pick
    <3> QED BY <2>2, <2>4, <2>6, <3>1 DEF Picked, e
  <2> QED BY <2>5, <2>6
<1>3. b.wanted = wanted
  OBVIOUS
<1> HIDE DEF b
<1>4. Picked(b, s, Len(s), Picks!Folded(b, s))
  BY <1>1, <1>2, Picks!FoldKeeps
<1>5. FoldLeft(Pick, b, s) = Picks!Folded(b, s)
  BY Zenon DEF Picks!Folded, FoldLeft, Picks!FoldLeft, MapThenFoldSet,
               Picks!MapThenFoldSet, Max, Picks!Max
<1>6. \A i \in ToSet(s) : \E j \in 1 .. Len(s) : s[j] = i
  BY DEF ToSet
<1>7. Kept(s, wanted) = Picks!Folded(b, s).out
  BY <1>5 DEF Kept, b
<1> QED BY <1>3, <1>4, <1>6, <1>7 DEF Picked

-----------------------------------------------------------------------------
(* The inductive invariant *)

DiskInv ==
  /\ DOMAIN disk = Files
  /\ \A f \in Files : disk[f] \in Contents[f]

CurInv ==
  \/ cur = Idle
  \/ /\ DOMAIN cur = {"phase", "d", "export_file"}
     /\ cur.phase \in {"parse", "exports", "msg"}
     /\ cur.d \in Directives
     /\ cur.export_file \subseteq cur.d.patterns

\* What is cached of a file is what was read of it.
CacheInv ==
  /\ DOMAIN kf = {"files", "results", "export_table", "errors"}
  /\ DOMAIN ghost = {"read", "hidden", "var", "answers"}
  /\ kf.errors \in Nat
  /\ kf.files \subseteq Files
  /\ DOMAIN kf.results = kf.files
  /\ DOMAIN kf.export_table = kf.files
  /\ DOMAIN ghost.read = kf.files
  /\ \A f \in kf.files : /\ ghost.read[f] \in Contents[f]
                         /\ kf.results[f] = Entries(ghost.read[f])
                         /\ kf.export_table[f] = Exports(ghost.read[f])

\* The indentation that is left is 2 once a variable has been written.
Left(var) == IF var THEN 2 ELSE 0

\* What earlier directives have left in the writer.
StyleInv ==
  /\ DOMAIN style = {"nosymbol", "lineprefix"}
  /\ ghost.hidden \in BOOLEAN
  /\ ghost.var \in BOOLEAN
  /\ ~ghost.hidden => style.nosymbol = {}
  /\ style.lineprefix = Left(ghost.var)

\* The items and the page of a directive on a writer that hides no other names.
OwnFilter(d) == [nosymbol |-> d.nosymbol]
Selected(d, table, items) ==
  Kept(items, {i \in ToSet(items) : Shows(OwnFilter(d), d, table, i)})
Page(d, var, shown) == output_symbols(Writer(Left(var), d.nosymbol, out_mode(d)), shown).data

\* The exports that msg() looks up.
LookedUp(a) ==
  IF a.d.mode \notin {"export", "internal"} THEN a.d.identifiers
  ELSE IF a.given # {} THEN a.elsewhere
  ELSE IF a.here THEN Exports(a.content) ELSE {}

\* An answer is a function of the directive, the exports looked up, the content
\* that was read and whether a variable had been written.
Answered(a) ==
  /\ a.d \in Directives
  /\ a.d.file \in kf.files
  /\ a.content = ghost.read[a.d.file]
  /\ a.hidden \in BOOLEAN
  /\ a.var \in BOOLEAN
  /\ a.table = LookedUp(a)
  /\ a.given = {} => a.elsewhere = {}
  /\ ~a.hidden => /\ a.shown = Selected(a.d, a.table, Entries(a.content))
                  /\ a.data = Page(a.d, a.var, a.shown)
AnswersInv == \A a \in ghost.answers : Answered(a)

IInv == DiskInv /\ CurInv /\ CacheInv /\ StyleInv /\ AnswersInv

LEMMA InitInv == Init => IInv
<1> SUFFICES ASSUME Init PROVE IInv
  OBVIOUS
<1>1. DiskInv /\ CurInv
  BY DEF Init, DiskInv, CurInv
<1>2. CacheInv
  BY DEF Init, CacheInv, NewKernelFiles, NewGhost, Empty
<1>3. StyleInv /\ AnswersInv
  BY DEF Init, StyleInv, AnswersInv, NewOutputFormat, NewGhost, Left
<1> QED BY <1>1, <1>2, <1>3 DEF IInv

\* What was read of a file yields items.
LEMMA EntriesItems ==
  ASSUME NEW f \in Files, NEW c \in Contents[f]
  PROVE  Entries(c) \in Seq(Items)
BY ContentsAssumption DEF Entries

\* The answers stay what they are while the caches they rest on do.
LEMMA AnswersKept ==
  ASSUME IInv, UNCHANGED ghost, kf.files \subseteq kf'.files
  PROVE  AnswersInv'
BY DEF IInv, AnswersInv, Answered

LEMMA SetupInv ==
  ASSUME IInv, setup_kfiles
  PROVE  IInv'
<1>1. DiskInv' /\ CurInv'
  BY DEF IInv, setup_kfiles, DiskInv, CurInv
<1>2. CacheInv'
  BY DEF setup_kfiles, CacheInv, NewKernelFiles, NewGhost, Empty
<1>3. StyleInv' /\ AnswersInv'
  BY DEF setup_kfiles, StyleInv, AnswersInv, NewOutputFormat, NewGhost, Left
<1> QED BY <1>1, <1>2, <1>3 DEF IInv

LEMMA EditInv ==
  ASSUME IInv, NEW f \in Files, NEW c \in Contents[f], Edit(f, c)
  PROVE  IInv'
<1>1. DiskInv'
  BY DEF IInv, Edit, DiskInv
<1>2. CurInv' /\ CacheInv' /\ StyleInv'
  BY DEF IInv, Edit, CurInv, CacheInv, StyleInv
<1>3. AnswersInv'
  BY AnswersKept DEF Edit
<1> QED BY <1>1, <1>2, <1>3 DEF IInv

LEMMA HandleInv ==
  ASSUME IInv, NEW d \in Directives, handle_args(d)
  PROVE  IInv'
<1>1. CurInv'
  BY DEF handle_args, CurInv
<1>2. DiskInv' /\ CacheInv' /\ StyleInv'
  BY DEF IInv, handle_args, DiskInv, CacheInv, StyleInv
<1>3. AnswersInv'
  BY AnswersKept DEF handle_args
<1> QED BY <1>1, <1>2, <1>3 DEF IInv

\* A directive that fails leaves the caches as they are, but for the errors.
LEMMA FailInv ==
  ASSUME IInv, Fail, NEW n \in Nat, kf' = [kf EXCEPT !.errors = @ + n]
  PROVE  IInv'
<1>1. DiskInv' /\ CurInv' /\ StyleInv'
  BY DEF IInv, Fail, run_fails, DiskInv, CurInv, StyleInv
<1>2. CacheInv'
  BY DEF IInv, Fail, CacheInv
<1>3. AnswersInv'
  BY AnswersKept DEF IInv, CacheInv, Fail
<1> QED BY <1>1, <1>2, <1>3 DEF IInv

\* The directive in progress.
LEMMA CurDirective ==
  ASSUME IInv, cur.phase # "idle"
  PROVE  /\ DOMAIN cur = {"phase", "d", "export_file"}
         /\ cur.d \in Directives
         /\ cur.d.file \in Files
         /\ cur.export_file \subseteq cur.d.patterns
         /\ IsFiniteSet(cur.export_file)
<1>1. cur # Idle
  BY DEF Idle
<1>2. cur.d \in Directives /\ cur.export_file \subseteq cur.d.patterns
  BY <1>1 DEF IInv, CurInv
<1>3. IsFiniteSet(cur.d.patterns) /\ cur.d.file \in Files
  BY <1>2, DirectivesAssumption
<1>4. IsFiniteSet(cur.export_file)
  BY <1>2, <1>3, FS_Subset
<1> QED BY <1>1, <1>2, <1>3, <1>4 DEF IInv, CurInv

LEMMA ParseInv ==
  ASSUME IInv, parse_file
  PROVE  IInv'
<1> DEFINE f == cur.d.file
           fresh == IsFile(f) /\ NotParsed(f)
<1>1. /\ DOMAIN cur = {"phase", "d", "export_file"}
      /\ cur.d \in Directives
      /\ f \in Files
      /\ cur.export_file \subseteq cur.d.patterns
  BY CurDirective DEF parse_file
<1>2. CASE /\ \E n \in 0..1 : kf' = [Uncached(kf, f) EXCEPT !.errors = @ + n]
           /\ Fail
  BY <1>2, FailInv DEF Uncached
<1>3. CASE /\ kf' = CASE ~IsFile(f) -> [kf EXCEPT !.errors = @ + 1]
                      [] fresh -> [Cached(kf, f, disk[f]) EXCEPT !.errors = @ + Logged(disk[f])]
                      [] OTHER -> kf
           /\ ghost' = [ghost EXCEPT !.read = IF fresh THEN Put(@, f, disk[f]) ELSE @]
           /\ cur' = [cur EXCEPT !.phase = "exports"]
           /\ UNCHANGED <<disk, style, last, count, edits>>
  <2>1. disk[f] \in Contents[f]
    BY <1>1 DEF IInv, DiskInv
  <2>2. Logged(disk[f]) \in Nat
    BY <1>1, <2>1, EntriesItems, WarningsNat DEF Logged
  <2>3. DiskInv' /\ CurInv'
    BY <1>1, <1>3 DEF IInv, DiskInv, CurInv
  <2>4. StyleInv'
    BY <1>3 DEF IInv, StyleInv, CacheInv
  <2>5. CacheInv' /\ kf.files \subseteq kf'.files
    <3>1. CASE fresh
      <4>1. /\ kf' = [Cached(kf, f, disk[f]) EXCEPT !.errors = @ + Logged(disk[f])]
            /\ ghost' = [ghost EXCEPT !.read = Put(@, f, disk[f])]
        BY <1>3, <3>1
      <4>2. /\ kf'.files = kf.files \cup {f}
            /\ kf'.results = Put(kf.results, f, Entries(disk[f]))
            /\ kf'.export_table = Put(kf.export_table, f, Exports(disk[f]))
            /\ kf'.errors = kf.errors + Logged(disk[f])
            /\ DOMAIN kf' = DOMAIN kf
        BY <4>1 DEF Cached, IInv, CacheInv
      <4>3. /\ ghost'.read = Put(ghost.read, f, disk[f])
            /\ DOMAIN ghost' = DOMAIN ghost
        BY <4>1 DEF IInv, CacheInv
      <4>4. \A g \in kf'.files : /\ ghost'.read[g] \in Contents[g]
                                /\ kf'.results[g] = Entries(ghost'.read[g])
                                /\ kf'.export_table[g] = Exports(ghost'.read[g])
        BY <2>1, <4>2, <4>3 DEF IInv, CacheInv, Put
      <4>5. /\ DOMAIN kf'.results = kf'.files
            /\ DOMAIN kf'.export_table = kf'.files
            /\ DOMAIN ghost'.read = kf'.files
        BY <4>2, <4>3 DEF IInv, CacheInv, Put
      <4>6. kf'.errors \in Nat /\ kf'.files \subseteq Files
        BY <1>1, <2>2, <4>2 DEF IInv, CacheInv
      <4> QED BY <4>2, <4>3, <4>4, <4>5, <4>6 DEF IInv, CacheInv
    <3>2. CASE ~fresh
      <4>1. kf' = [kf EXCEPT !.errors = @ + 1] \/ kf' = kf
        BY <1>3, <3>2
      <4>2. /\ ghost'.read = ghost.read
            /\ DOMAIN ghost' = DOMAIN ghost
        BY <1>3, <3>2 DEF IInv, CacheInv
      <4> QED BY <4>1, <4>2 DEF IInv, CacheInv
    <3> QED BY <3>1, <3>2
  <2>6. AnswersInv'
    <3>1. ASSUME NEW g \in kf.files PROVE ghost'.read[g] = ghost.read[g]
      BY <1>3, <3>1 DEF IInv, CacheInv, Put, NotParsed
    <3>2. ghost'.answers = ghost.answers
      BY <1>3 DEF IInv, CacheInv
    <3>3. ASSUME NEW a, Answered(a) PROVE Answered(a)'
      <4>1. a.content = ghost'.read[a.d.file] /\ a.d.file \in kf'.files
        BY <2>5, <3>1, <3>3 DEF Answered
      <4> QED BY <3>3, <4>1 DEF Answered
    <3> QED BY <3>2, <3>3 DEF IInv, AnswersInv
  <2> QED BY <2>3, <2>4, <2>5, <2>6 DEF IInv
<1> QED BY <1>2, <1>3 DEF parse_file

LEMMA ExportInv ==
  ASSUME IInv, process_export_file
  PROVE  IInv'
<1> DEFINE missing == {g \in cur.export_file : ~IsFile(g)}
<1>1. /\ DOMAIN cur = {"phase", "d", "export_file"}
      /\ cur.d \in Directives
      /\ cur.export_file \subseteq cur.d.patterns
      /\ IsFiniteSet(cur.export_file)
  BY CurDirective DEF process_export_file
<1>2. Cardinality(missing) \in Nat
  BY <1>1, FS_Subset, FS_CardinalityType
<1>3. CASE /\ \E n \in 0..Cardinality(missing) : kf' = [kf EXCEPT !.errors = @ + n]
           /\ Fail
  <2>1. PICK n \in 0..Cardinality(missing) : kf' = [kf EXCEPT !.errors = @ + n]
    BY <1>3
  <2>2. n \in Nat
    BY <1>2
  <2> QED BY <1>3, <2>1, <2>2, FailInv
<1>4. CASE /\ kf' = [kf EXCEPT !.errors = @ + Cardinality(missing)]
           /\ cur' = [cur EXCEPT !.phase = "msg"]
           /\ UNCHANGED <<disk, style, last, count, edits, ghost>>
  <2> HIDE DEF missing
  <2>1. DiskInv' /\ CurInv' /\ StyleInv'
    BY <1>1, <1>4 DEF IInv, DiskInv, CurInv, StyleInv
  <2>2. CacheInv'
    BY <1>2, <1>4 DEF IInv, CacheInv
  <2>3. AnswersInv'
    BY <1>4, AnswersKept DEF IInv, CacheInv
  <2> QED BY <2>1, <2>2, <2>3 DEF IInv
<1> QED BY <1>3, <1>4 DEF process_export_file

\* When no names are left from earlier directives, the filter is the directive's.
LEMMA FilterOwn ==
  ASSUME NEW s, DOMAIN s = {"nosymbol", "lineprefix"}, s.nosymbol = {}, NEW d, NEW table
  PROVE  /\ set_filter(s, d.nosymbol).nosymbol = d.nosymbol
         /\ \A i : Shows(set_filter(s, d.nosymbol), d, table, i)
                    <=> Shows(OwnFilter(d), d, table, i)
<1> DEFINE s1 == set_filter(s, d.nosymbol)
<1>1. s1.nosymbol = d.nosymbol
  BY DEF set_filter
<1>2. OwnFilter(d).nosymbol = d.nosymbol
  BY DEF OwnFilter
<1> HIDE DEF s1
<1>3. \A i : Shows(s1, d, table, i) <=> Shows(OwnFilter(d), d, table, i)
  BY <1>1, <1>2 DEF Shows, check_doc, check_declaration
<1> QED BY <1>1, <1>3 DEF s1

\* msg() in a state where the file has its items cached: what it leaves behind,
\* whether or not some item raises.
Writes(table, lost, style1, items, shown, page, again, used) ==
  /\ cur.d.file \in DOMAIN kf.results
  /\ style1 = set_filter(style, cur.d.nosymbol)
  /\ items = kf.results[cur.d.file]
  /\ shown = Kept(items, {i \in ToSet(items) : Shows(style1, cur.d, table, i)})
  /\ page = output_symbols(Writer(style.lineprefix, style1.nosymbol, out_mode(cur.d)), shown)
  /\ again = Kept(Reached(shown), {i \in ToSet(shown) : CountsAgain(cur.d, i)})
  /\ used = [ghost EXCEPT
       !.hidden = @ \/ cur.d.nosymbol # {},
       !.var = @ \/ \E k \in DOMAIN Written(shown) : shown[k].type = "var"]
  /\ kf' = [kf EXCEPT !.errors = @ + lost + Warnings(again)]
  /\ style' = [style1 EXCEPT !.lineprefix = page.lineprefix]

NewAnswer(table, shown, page) ==
  [d |-> cur.d, table |-> table, hidden |-> ghost.hidden,
   var |-> ghost.var, content |-> ghost.read[cur.d.file],
   here |-> IsFile(cur.d.file), given |-> cur.export_file,
   elsewhere |-> UNION {Exports(ghost.read[g]) :
                          g \in {g \in cur.export_file : IsFile(g) /\ g \in DOMAIN ghost.read}},
   shown |-> shown, data |-> page.data]

LEMMA WritesInv ==
  ASSUME IInv, cur.phase = "msg", NEW table, NEW lost \in Nat, NEW style1, NEW items,
         NEW shown, NEW page, NEW again, NEW used, NEW more,
         Writes(table, lost, style1, items, shown, page, again, used),
         table = LookedUp(NewAnswer(table, shown, page)),
         more \subseteq {NewAnswer(table, shown, page)},
         \/ ghost' = used /\ more = {}
         \/ ghost' = [used EXCEPT !.answers = @ \cup more],
         cur' = Idle, disk' = disk
  PROVE  IInv'
<1> DEFINE d == cur.d
           hasVar == \E k \in DOMAIN Written(shown) : shown[k].type = "var"
           new == NewAnswer(table, shown, page)
<1>1. d \in Directives /\ d.file \in Files
  BY CurDirective
<1>2. /\ d.file \in kf.files
      /\ items = Entries(ghost.read[d.file])
      /\ items \in Seq(Items)
  <2>1. d.file \in kf.files /\ items = kf.results[d.file]
    BY DEF Writes, IInv, CacheInv
  <2>2. /\ items = Entries(ghost.read[d.file])
        /\ ghost.read[d.file] \in Contents[d.file]
    BY <2>1 DEF IInv, CacheInv
  <2> QED BY <1>1, <2>1, <2>2, EntriesItems
<1>3. shown \in Seq(Items)
  BY <1>2, KeptItems DEF Writes
<1>4. Warnings(again) \in Nat
  <2>1. Reached(shown) \in Seq(Items)
    BY <1>3, WrittenItems
  <2> QED BY <2>1, KeptItems, WarningsNat DEF Writes
<1>5. page.lineprefix = Left(ghost.var \/ hasVar)
  <2> DEFINE w == Writer(style.lineprefix, style1.nosymbol, out_mode(d))
  <2>1. IsWriter(w) /\ w.lineprefix = style.lineprefix
    BY DEF Writer, IsWriter
  <2>2. page = output_symbols(w, shown)
    BY DEF Writes
  <2> HIDE DEF w
  <2>3. page.lineprefix = IF hasVar THEN 2 ELSE w.lineprefix
    BY <1>3, <2>1, <2>2, OutputsAt
  <2>4. style.lineprefix = Left(ghost.var)
    BY DEF IInv, StyleInv
  <2> QED BY <2>1, <2>3, <2>4 DEF Left
<1>6. /\ ghost'.hidden = (ghost.hidden \/ d.nosymbol # {})
      /\ ghost'.var = (ghost.var \/ hasVar)
      /\ ghost'.answers = ghost.answers \cup more
      /\ ghost'.read = ghost.read
      /\ DOMAIN ghost' = DOMAIN ghost
  <2>1. /\ used.hidden = (ghost.hidden \/ d.nosymbol # {})
        /\ used.var = (ghost.var \/ hasVar)
        /\ used.answers = ghost.answers
        /\ used.read = ghost.read
        /\ DOMAIN used = DOMAIN ghost
    BY Zenon DEF IInv, CacheInv, Writes
  <2>2. DOMAIN ghost = {"read", "hidden", "var", "answers"}
    BY DEF IInv, CacheInv
  <2>3. used.answers \cup {} = used.answers
    OBVIOUS
  <2> HIDE DEF hasVar
  <2> QED BY <2>1, <2>2, <2>3, Zenon
<1>7. /\ kf'.errors = kf.errors + lost + Warnings(again)
      /\ kf'.files = kf.files
      /\ kf'.results = kf.results
      /\ kf'.export_table = kf.export_table
      /\ DOMAIN kf' = DOMAIN kf
  BY DEF IInv, CacheInv, Writes
<1>8. DiskInv' /\ CurInv'
  BY DEF IInv, DiskInv, CurInv
<1>9. CacheInv'
  BY <1>4, <1>6, <1>7 DEF IInv, CacheInv
<1>10. StyleInv'
  <2>1. /\ DOMAIN style1 = {"nosymbol", "lineprefix"}
        /\ style1.nosymbol = IF d.nosymbol # {} THEN d.nosymbol ELSE style.nosymbol
    BY DEF IInv, StyleInv, set_filter, Writes
  <2>2. /\ DOMAIN style' = {"nosymbol", "lineprefix"}
        /\ style'.nosymbol = style1.nosymbol
        /\ style'.lineprefix = page.lineprefix
    BY <2>1 DEF Writes
  <2>3. ghost'.hidden \in BOOLEAN /\ ghost'.var \in BOOLEAN
    <3> HIDE DEF hasVar
    <3> QED BY <1>6, Zenon
  <2>4. ~ghost'.hidden => style'.nosymbol = {}
    BY <1>6, <2>1, <2>2 DEF IInv, StyleInv
  <2>5. style'.lineprefix = Left(ghost'.var)
    BY <1>5, <1>6, <2>2
  <2> QED BY <2>2, <2>3, <2>4, <2>5 DEF StyleInv
<1>11. AnswersInv'
  <2>1. ASSUME NEW a, Answered(a) PROVE Answered(a)'
    BY <1>6, <1>7, <2>1 DEF Answered
  <2>2. ghost.hidden \in BOOLEAN /\ ghost.var \in BOOLEAN
    BY DEF IInv, StyleInv
  <2>3. ASSUME ~ghost.hidden
        PROVE  /\ shown = Selected(d, table, Entries(ghost.read[d.file]))
               /\ page.data = Page(d, ghost.var, shown)
    <3>1. style.nosymbol = {} /\ DOMAIN style = {"nosymbol", "lineprefix"}
      BY <2>3 DEF IInv, StyleInv
    <3>2. /\ style1.nosymbol = d.nosymbol
          /\ \A i : Shows(style1, d, table, i) <=> Shows(OwnFilter(d), d, table, i)
      BY <3>1, FilterOwn DEF Writes
    <3>3. {i \in ToSet(items) : Shows(style1, d, table, i)}
            = {i \in ToSet(items) : Shows(OwnFilter(d), d, table, i)}
      BY <3>2
    <3>4. shown = Selected(d, table, items)
      BY <3>3, Zenon DEF Selected, Writes
    <3>5. style.lineprefix = Left(ghost.var)
      BY DEF IInv, StyleInv
    <3>6. page.data = Page(d, ghost.var, shown)
      BY <3>2, <3>5 DEF Page, Writes
    <3> QED BY <1>2, <3>4, <3>6
  <2>4. ASSUME NEW a, a = new PROVE Answered(a)'
    <3>1. /\ a.d = d /\ a.table = table /\ a.hidden = ghost.hidden
          /\ a.var = ghost.var /\ a.content = ghost.read[d.file]
          /\ a.shown = shown /\ a.data = page.data
      BY <2>4 DEF NewAnswer
    <3>2. a.table = LookedUp(a) /\ (a.given = {} => a.elsewhere = {})
      BY <2>4, <3>1 DEF NewAnswer
    <3> HIDE DEF new
    <3>3. Answered(a)
      BY <1>1, <1>2, <2>2, <2>3, <3>1, <3>2 DEF Answered
    <3> QED BY <2>1, <3>3
  <2> HIDE DEF new
  <2>5. ASSUME NEW a \in ghost'.answers PROVE Answered(a)'
    <3>1. a \in ghost.answers \/ a = new
      BY <1>6, <2>5 DEF new
    <3> QED BY <2>1, <2>4, <3>1 DEF IInv, AnswersInv
  <2> QED BY <2>5 DEF AnswersInv
<1> QED BY <1>8, <1>9, <1>10, <1>11 DEF IInv

LEMMA MsgInv ==
  ASSUME IInv, msg
  PROVE  IInv'
<1> DEFINE d == cur.d
           wanted == ExportFiles(d, cur.export_file)
           present == {g \in wanted : IsFile(g)}
           lost == Cardinality(wanted \ present)
           table == d.identifiers \cup UNION {kf.export_table[g] : g \in present}
           style1 == set_filter(style, d.nosymbol)
           items == kf.results[d.file]
           shown == Kept(items, {i \in ToSet(items) : Shows(style1, d, table, i)})
           page == output_symbols(Writer(style.lineprefix, style1.nosymbol, out_mode(d)), shown)
           again == Kept(Reached(shown), {i \in ToSet(shown) : CountsAgain(d, i)})
           used == [ghost EXCEPT
                      !.hidden = @ \/ d.nosymbol # {},
                      !.var = @ \/ \E k \in DOMAIN Written(shown) : shown[k].type = "var"]
<1>1. cur.phase = "msg"
  BY DEF msg
<1>2. /\ d \in Directives
      /\ d.mode # "identifiers" => d.identifiers = {}
      /\ IsFiniteSet(cur.export_file)
  BY <1>1, CurDirective, DirectivesAssumption
<1>3. lost \in Nat
  <2>1. IsFiniteSet({}) /\ IsFiniteSet({d.file})
    BY FS_EmptySet, FS_Singleton
  <2>2. IsFiniteSet(wanted)
    BY <1>2, <2>1 DEF ExportFiles
  <2> HIDE DEF wanted
  <2> QED BY <2>2, FS_Subset, FS_CardinalityType
<1>4. ASSUME present \subseteq DOMAIN kf.export_table, d.file \in DOMAIN kf.results,
             NEW x, NEW y
      PROVE  table = LookedUp(NewAnswer(table, x, y))
  <2> DEFINE a == NewAnswer(table, x, y)
             consulted == {g \in cur.export_file : IsFile(g) /\ g \in DOMAIN ghost.read}
  <2>1. /\ a.d = d /\ a.content = ghost.read[d.file] /\ a.given = cur.export_file
        /\ a.here = IsFile(d.file)
        /\ a.elsewhere = UNION {Exports(ghost.read[g]) : g \in consulted}
    BY Zenon DEF NewAnswer
  <2>2. /\ DOMAIN kf.export_table = DOMAIN ghost.read
        /\ \A g \in DOMAIN ghost.read : kf.export_table[g] = Exports(ghost.read[g])
        /\ d.file \in DOMAIN ghost.read
    BY <1>4 DEF IInv, CacheInv
  <2> HIDE DEF a, table
  <2>3. CASE d.mode \notin {"export", "internal"}
    <3>1. present = {}
      BY <2>3 DEF ExportFiles
    <3>2. table = d.identifiers
      <4> HIDE DEF present
      <4> QED BY <3>1 DEF table
    <3> QED BY <2>1, <2>3, <3>2 DEF LookedUp, a
  <2>4. CASE d.mode \in {"export", "internal"}
    <3>1. d.identifiers = {}
      BY <1>2, <2>4
    <3>2. CASE cur.export_file # {}
      <4>1. present = consulted
        BY <1>4, <2>2, <2>4, <3>2 DEF ExportFiles
      <4> HIDE DEF present, consulted
      <4>2. \A g \in present : kf.export_table[g] = Exports(ghost.read[g])
        BY <1>4, <2>2
      <4>3. table = UNION {Exports(ghost.read[g]) : g \in present}
        BY <3>1, <4>2 DEF table
      <4> QED BY <2>1, <2>4, <3>2, <4>1, <4>3 DEF LookedUp, a
    <3>3. CASE cur.export_file = {}
      <4>1. present = IF IsFile(d.file) THEN {d.file} ELSE {}
        BY <2>4, <3>3 DEF ExportFiles
      <4> HIDE DEF present
      <4>2. table = IF IsFile(d.file) THEN Exports(ghost.read[d.file]) ELSE {}
        BY <2>2, <3>1, <4>1 DEF table
      <4> QED BY <2>1, <2>4, <3>3, <4>2 DEF LookedUp, a
    <3> QED BY <3>2, <3>3
  <2> QED BY <2>3, <2>4
<1>5. CASE /\ \E n \in 0..lost : kf' = [kf EXCEPT !.errors = @ + n]
           /\ Fail
  <2> HIDE DEF lost
  <2>1. PICK n \in 0..lost : kf' = [kf EXCEPT !.errors = @ + n]
    BY <1>5
  <2>2. n \in Nat
    BY <1>3
  <2> QED BY <1>5, <2>1, <2>2, FailInv
<1>6. CASE /\ kf' = [kf EXCEPT !.errors = @ + lost]
           /\ cur' = Idle
           /\ UNCHANGED <<disk, count, edits>>
           /\ UNCHANGED <<style, ghost>>
  <2> HIDE DEF lost
  <2>1. DiskInv' /\ CurInv' /\ StyleInv'
    BY <1>6 DEF IInv, DiskInv, CurInv, StyleInv
  <2>2. CacheInv'
    BY <1>3, <1>6 DEF IInv, CacheInv
  <2>3. AnswersInv'
    BY <1>6, AnswersKept DEF IInv, CacheInv
  <2> QED BY <2>1, <2>2, <2>3 DEF IInv
<1>7. ASSUME /\ present \subseteq DOMAIN kf.export_table
             /\ d.file \in DOMAIN kf.results
             /\ kf' = [kf EXCEPT !.errors = @ + lost + Warnings(again)]
             /\ style' = [style1 EXCEPT !.lineprefix = page.lineprefix]
             /\ cur' = Idle
             /\ disk' = disk,
             \/ ghost' = used
             \/ ghost' = [used EXCEPT !.answers = @ \cup {NewAnswer(table, shown, page)}]
      PROVE  IInv'
  <2>1. Writes(table, lost, style1, items, shown, page, again, used)
    BY <1>7, Zenon DEF Writes
  <2>2. disk' = disk /\ cur' = Idle
    BY <1>7
  <2>3. table = LookedUp(NewAnswer(table, shown, page))
    BY <1>4, <1>7
  <2> HIDE DEF lost, table, style1, items, shown, page, again, used
  <2>4. \E more : /\ more \subseteq {NewAnswer(table, shown, page)}
                  /\ \/ ghost' = used /\ more = {}
                     \/ ghost' = [used EXCEPT !.answers = @ \cup more]
    BY <1>7
  <2> QED BY <1>1, <1>3, <2>1, <2>2, <2>3, <2>4, WritesInv
<1>8. CASE /\ present \subseteq DOMAIN kf.export_table
           /\ d.file \in DOMAIN kf.results
           /\ kf' = [kf EXCEPT !.errors = @ + lost + Warnings(again)]
           /\ style' = [style1 EXCEPT !.lineprefix = page.lineprefix]
           /\ run_fails
           /\ ghost' = used
  <2>1. cur' = Idle /\ disk' = disk
    BY <1>8 DEF run_fails
  <2> QED BY <1>7, <1>8, <2>1, Zenon
<1>9. CASE /\ present \subseteq DOMAIN kf.export_table
           /\ d.file \in DOMAIN kf.results
           /\ kf' = [kf EXCEPT !.errors = @ + lost + Warnings(again)]
           /\ style' = [style1 EXCEPT !.lineprefix = page.lineprefix]
           /\ cur' = Idle
           /\ UNCHANGED <<disk, count, edits>>
           /\ ghost' = [used EXCEPT !.answers = @ \cup {NewAnswer(table, shown, page)}]
  <2>1. disk' = disk
    BY <1>9, Zenon
  <2> QED BY <1>7, <1>9, <2>1, Zenon
<1> QED BY <1>5, <1>6, <1>8, <1>9, Zenon DEF msg, NewAnswer

LEMMA NextInv ==
  ASSUME IInv, [Next]_vars
  PROVE  IInv'
<1>1. CASE UNCHANGED vars
  <2>1. DiskInv' /\ CurInv' /\ CacheInv' /\ StyleInv'
    BY <1>1 DEF IInv, DiskInv, CurInv, CacheInv, StyleInv, vars
  <2>2. AnswersInv'
    BY <1>1, AnswersKept DEF vars
  <2> QED BY <2>1, <2>2 DEF IInv
<1>2. CASE Next
  BY <1>2, SetupInv, EditInv, HandleInv, ParseInv, ExportInv, MsgInv DEF Next
<1> QED BY <1>1, <1>2

THEOREM Invariance == Spec => []IInv
BY InitInv, NextInv, PTL DEF Spec

-----------------------------------------------------------------------------
(* The results *)

\* The caches of a build belong together, whatever failed before: a file that is
\* noted as parsed has its items and its exports (parse_file(), process_export_file()).
THEOREM TypeCorrect == Spec => []TypeOK
<1>1. IInv => TypeOK
  BY DEF IInv, DiskInv, CurInv, CacheInv, TypeOK, Idle
<1> QED BY <1>1, Invariance, PTL

\* Where the filter does not depart, it picks what the options ask for.
LEMMA ShowsAsked ==
  ASSUME NEW a, a.d \in Directives, a.table = LookedUp(a),
         a.given = {} => a.elsewhere = {}, NEW i, ~Departs(a, i)
  PROVE  Shows(OwnFilter(a.d), a.d, a.table, i) <=> AskedFor(a, i)
<1>1. a.d.mode \in {"all", "export", "internal", "identifiers"}
  BY DirectivesAssumption
<1>2. OwnFilter(a.d).nosymbol = a.d.nosymbol
  BY DEF OwnFilter
<1>3. CASE i.type = "doc"
  BY <1>1, <1>2, <1>3 DEF Shows, check_doc, AskedFor, out_mode, no_doc_sections, LookedUp
<1>4. CASE i.type # "doc" /\ a.d.mode \notin {"export", "internal"}
  BY <1>1, <1>2, <1>4
     DEF Shows, check_declaration, AskedFor, out_mode, no_doc_sections, LookedUp
<1>5. CASE i.type # "doc" /\ a.d.mode \in {"export", "internal"}
  <2>1. i.name \notin Overlooked(a)
    BY <1>5 DEF Departs
  <2>2. i.name \in a.table <=> i.name \in Exported(a)
    BY <1>5, <2>1 DEF LookedUp, Overlooked, Exported
  <2>3. CASE a.d.mode = "export"
    BY <1>2, <1>5, <2>2, <2>3 DEF Shows, check_declaration, AskedFor, out_mode
  <2>4. CASE a.d.mode = "internal"
    <3>1. i.type # "function" => i.name \notin Exported(a)
      BY <2>4 DEF Departs
    <3> QED BY <1>2, <1>5, <2>2, <2>4, <3>1
            DEF Shows, check_declaration, AskedFor, out_mode
  <2> QED BY <1>5, <2>3, <2>4
<1> QED BY <1>3, <1>4, <1>5

\* A directive shows exactly the items that its own options ask for of the file as
\* it was read, in their order, as long as no earlier directive of the build had a
\* no-identifiers option (msg(), check_doc(), check_declaration()). Export and
\* internal mean what kernel-doc's help says, but for the two departures of
\* Departs: the file's own exports when export files are given, and exported
\* symbols that are no functions under internal.
THEOREM ItemsShown == Spec => [](\A a \in ghost.answers : ~a.hidden => ItemsAsked(a))
<1>1. IInv => \A a \in ghost.answers : ~a.hidden => ItemsAsked(a)
  <2> SUFFICES ASSUME IInv, NEW a \in ghost.answers, ~a.hidden
               PROVE  ItemsAsked(a)
    OBVIOUS
  <2> DEFINE items == Entries(a.content)
             S == {i \in ToSet(items) : Shows(OwnFilter(a.d), a.d, a.table, i)}
             Wanted(i) == IF Departs(a, i) THEN i \in ToSet(a.shown) ELSE AskedFor(a, i)
  <2>1. /\ a.d \in Directives
        /\ a.table = LookedUp(a) /\ (a.given = {} => a.elsewhere = {})
        /\ a.shown = Kept(items, S)
        /\ a.content = ghost.read[a.d.file] /\ a.d.file \in kf.files
    BY DEF IInv, AnswersInv, Answered, Selected
  <2>2. items \in Seq(Items)
    <3>1. a.d.file \in Files /\ a.content \in Contents[a.d.file]
      BY <2>1 DEF IInv, CacheInv
    <3> QED BY <3>1, EntriesItems
  <2> HIDE DEF items
  <2>3. \A i \in ToSet(items) : i \in ToSet(a.shown) <=> i \in S
    BY <2>1, <2>2, KeptItems
  <2>4. \A i : ~Departs(a, i)
               => (Shows(OwnFilter(a.d), a.d, a.table, i) <=> AskedFor(a, i))
    BY <2>1, ShowsAsked
  <2>5. S = {i \in ToSet(items) : Wanted(i)}
    BY <2>3, <2>4
  <2>6. a.shown = Kept(items, {i \in ToSet(items) : Wanted(i)})
    BY <2>1, <2>5, Zenon
  <2> QED BY <2>6, Zenon DEF ItemsAsked, items
<1> QED BY <1>1, Invariance, PTL

\* Two directives of one build with the same options that looked up the same exports
\* write the same page, however often the file was edited between them and whatever
\* was written in between: the parse is cached and the writer puts its indentation
\* back after every item but a variable (output_symbols(), out_var()). That is as
\* long as no directive before them had a no-identifiers option (set_filter()).
THEOREM PagesAgreeAlways == Spec => []PagesAgree
<1>1. IInv => PagesAgree
  <2> SUFFICES ASSUME IInv, NEW a \in ghost.answers, NEW b \in ghost.answers,
                      a.d = b.d, a.table = b.table, ~a.hidden, ~b.hidden, a.var = b.var
               PROVE  a.data = b.data
    BY DEF PagesAgree
  <2>1. Answered(a) /\ Answered(b)
    BY DEF IInv, AnswersInv
  <2>2. a.content = b.content
    BY <2>1 DEF Answered
  <2>3. a.shown = b.shown
    BY <2>1, <2>2 DEF Answered
  <2> QED BY <2>1, <2>3 DEF Answered
<1> QED BY <1>1, Invariance, PTL
=============================================================================
