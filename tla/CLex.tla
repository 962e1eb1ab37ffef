-------------------------------- MODULE CLex --------------------------------
(***************************************************************************)
(* The C tokenizer of kernel-doc (kdoc/c_lex.py): the nesting levels that  *)
(* _tokenize() attaches to tokens, the text a token list stands for once   *)
(* comments and private parts are dropped (CTokenizer.__str__), the search *)
(* for a macro with its parenthesised arguments (CMatch._search) and its   *)
(* replacement (CMatch.sub, CTokenArgs).                                   *)
(*                                                                         *)
(* A token is a record of its kind, its value (a sequence of strings: one  *)
(* string for C text, several for a dotted member name built later) and    *)
(* its level <<bracket, paren, brace>>. White space is layout and is left  *)
(* out. Indices count from 1; Python's 0 is 1 here.                        *)
(***************************************************************************)
EXTENDS Integers, Sequences, SequencesExt

\* F(v) with v evaluated once: a step of a computation whose result is used
\* several times in the next.
With(v, F(_)) == CHOOSE y \in {F(x) : x \in {v}} : TRUE

Tok(kind, str) == [kind |-> kind, value |-> <<str>>, level |-> <<0, 0, 0>>]

Name(str)    == Tok("NAME", str)
Begin(str)   == Tok("BEGIN", str)
End(str)     == Tok("END", str)
Comment(str) == Tok("COMMENT", str)
Punc(str)    == Tok("PUNC", str)
Op(str)      == Tok("OP", str)
Semicolon    == Tok("ENDSTMT", ";")
Struct       == Tok("STRUCT", "struct")
Union        == Tok("UNION", "union")
Enum         == Tok("ENUM", "enum")
Typedef      == Tok("TYPEDEF", "typedef")

\* Whether token t is the punctuation or bracket str.
Is(t, str) == t.value = <<str>>
IsOpen(t) == Is(t, "{")
IsClose(t) == Is(t, "}")

-----------------------------------------------------------------------------
\* The levels after reading token t. A closing parenthesis or bracket that
\* has nothing to close falls through to the braces.
Relevel(level, t) ==
  CASE t.kind = "BEGIN" ->
         (CASE Is(t, "(") -> [level EXCEPT ![2] = @ + 1]
            [] Is(t, "[") -> [level EXCEPT ![1] = @ + 1]
            [] OTHER      -> [level EXCEPT ![3] = @ + 1])
    [] t.kind = "END" ->
         (IF Is(t, ")") /\ level[2] > 0 THEN [level EXCEPT ![2] = @ - 1]
          ELSE IF Is(t, "]") /\ level[1] > 0 THEN [level EXCEPT ![1] = @ - 1]
          ELSE IF level[3] > 0               THEN [level EXCEPT ![3] = @ - 1]
          ELSE level)
    [] OTHER -> level

tokenize(source) ==
  FoldLeft(LAMBDA acc, t :
             LET level == Relevel(acc.level, t) IN
               [level |-> level, toks |-> Append(acc.toks, [t EXCEPT !.level = level])],
           [level |-> <<0, 0, 0>>, toks |-> <<>>], source).toks

\* A closing bracket restores what the block around it shows.
PopShow(stack) == IF Len(stack) > 1 THEN Front(stack) ELSE stack

\* What str() keeps of a token list: no comments, and nothing between a
\* "private:" comment and the "public:" comment or the closing bracket that
\* ends it. The stack has one flag per open bracket; its last is the current.
\* A bracket that closes a hidden part of a visible block is kept.
ToStr(toks) ==
  LET Step(acc, i) ==
        LET t == toks[i]
            stack == CASE t.kind = "BEGIN" -> Append(acc.stack, Last(acc.stack))
                       [] t.kind = "END" -> PopShow(acc.stack)
                       [] t.kind = "COMMENT" /\ Is(t, "private:") ->
                            ReplaceAt(acc.stack, Len(acc.stack), FALSE)
                       [] t.kind = "COMMENT" /\ Is(t, "public:") ->
                            ReplaceAt(acc.stack, Len(acc.stack), TRUE)
                       [] OTHER -> acc.stack
            doubled == /\ t.kind = "ENDSTMT"
                       /\ i < Len(toks)
                       /\ toks[i + 1].kind = "ENDSTMT"
        IN [stack |-> stack,
            out |-> IF t.kind # "COMMENT" /\ Last(stack) /\ ~doubled
                      THEN Append(acc.out, t) ELSE acc.out]
  IN FoldLeftDomain(Step, [stack |-> <<TRUE>>, out |-> <<>>], toks).out

-----------------------------------------------------------------------------
NoStart == 0

\* Mutant of EndsBlock: any closing bracket ends the block.
EndsBlockMutant(t, level) == t.kind = "END"

\* The bracket that brings a block back to the level of its name.
EndsBlock(t, level) == t.kind = "END" /\ t.level = level

\* The blocks <<first, last>> that _search() yields for a macro name: the name
\* with the brackets that follow it, or the name alone. A name that ends a
\* block without brackets stays on the stack, and the token after it is not
\* looked at as the beginning of another block; a bracket that closes a block
\* right after a name alone is not counted into that block.
search(macro, delim, toks) ==
  LET Step(s, i) ==
        LET t == toks[i] IN
        IF s.start = NoStart
          THEN IF t.kind = "NAME" /\ Is(t, macro)
                 THEN [s EXCEPT !.start = i, !.started = FALSE,
                                !.stack = Append(@, <<i, t.level>>)]
                 ELSE s
          ELSE IF ~s.started /\ t.kind = "BEGIN" /\ Is(t, delim)
                 THEN [s EXCEPT !.started = TRUE]
                 ELSE LET alone == ~s.started
                          at == IF alone THEN i - 1 ELSE i
                          r == IF alone
                                 THEN [s EXCEPT !.start = NoStart,
                                                !.found = Append(@, <<s.start, at>>)]
                                 ELSE s
                      IN IF EndsBlock(t, Last(r.stack)[2])
                           THEN [r EXCEPT !.start = NoStart,
                                          !.stack = Front(@),
                                          !.found = Append(@, <<Last(r.stack)[1], at>>)]
                           ELSE r
      \* an unfinished block reaches to the end, unless it begins the text:
      \* the position 0 of its first token counts as no position
      Found(end) ==
        IF end.start \notin {NoStart, 1} /\ end.stack # <<>>
          THEN Append(end.found, <<end.start, Len(toks)>>)
          ELSE end.found
  IN With(FoldLeftDomain(Step, [start |-> NoStart, started |-> FALSE,
                                stack |-> <<>>, found |-> <<>>], toks), Found)

\* The arguments \1 .. \max of a block, separated by "," in parentheses and by
\* ";" in braces; when greedy the last one takes everything that remains. A name
\* alone has one, which is empty.
groups(block, max, greedy) ==
  LET first == SelectInSeq(block, LAMBDA t : t.kind = "BEGIN")
      delim == IF IsOpen(block[first]) THEN ";" ELSE ","
      Step(g, t) ==
        LET inner == CASE t.kind = "BEGIN" -> g.inner + 1
                       [] t.kind = "END" -> g.inner - 1
                       [] OTHER -> g.inner
            cut == t.kind \in {"PUNC", "ENDSTMT"} /\ Is(t, delim)
            pos == Len(g.args)
        IN IF g.over \/ inner < 0 THEN [g EXCEPT !.over = TRUE]
           ELSE IF cut /\ ~(greedy /\ pos = max) THEN
                  [g EXCEPT !.inner = inner, !.over = pos = max,
                            !.args = Append(@, <<>>)]
           ELSE
                  [g EXCEPT !.inner = inner, !.args[pos] = Append(@, t)]
  IN IF max = 0 THEN <<>>
     ELSE IF first = 0 THEN << <<>> >>
     ELSE FoldLeft(Step, [inner |-> 0, over |-> FALSE, args |-> << <<>> >>],
                   SubSeq(block, first + 1, Len(block))).args

\* A replacement is a token list in which Backref(n) stands for argument n.
Backref(n) == [kind |-> "BACKREF", value |-> <<n>>, level |-> <<0, 0, 0>>]

\* The tokens that replace a block; argument tokens keep their level above
\* the level of the opening bracket. A reference beyond the arguments raises an
\* IndexError that leaves the parser: here it has no value, and the macros of an
\* instance must be given the arguments their replacements refer to.
replacement(block, subst, max, greedy) ==
  LET first == SelectInSeq(block, LAMBDA t : t.kind = "BEGIN")
      Shift(t) == [t EXCEPT !.level =
                     [k \in 1..3 |-> @[k] + block[first].level[k]]]
      Expand(args, t) ==
        IF t.kind # "BACKREF" THEN <<t>>
        ELSE [k \in DOMAIN args[t.value[1]] |-> Shift(args[t.value[1]][k])]
  IN With(groups(block, max, greedy), LAMBDA args :
       FlattenSeq([k \in DOMAIN subst |-> Expand(args, subst[k])]))

sub(macro, subst, max, greedy, toks) ==
  LET New(block) == replacement(block, subst, max, greedy)
      Step(acc, b) ==
        [out |-> acc.out \o SubSeq(toks, acc.pos, b[1] - 1)
                         \o With(SubSeq(toks, b[1], b[2]), New),
         pos |-> b[2] + 1]
  IN With(FoldLeft(Step, [out |-> <<>>, pos |-> 1], search(macro, "(", toks)),
          LAMBDA r : r.out \o SubSeq(toks, r.pos, Len(toks)))

-----------------------------------------------------------------------------
(* Reference definitions, for the properties.                              *)

\* The number of brackets open after each token.
Depths(toks) ==
  FoldLeft(LAMBDA ds, t :
             LET n == IF ds = <<>> THEN 0 ELSE ds[Len(ds)]
             IN Append(ds, CASE t.kind = "BEGIN" -> n + 1
                             [] t.kind = "END" -> n - 1
                             [] OTHER -> n),
           <<>>, toks)

=============================================================================
