----------------------------- MODULE KdocStruct -----------------------------
(***************************************************************************)
(* A documented struct is written member by member, and kernel-doc reads   *)
(* it as a whole (KdocDecl!dump_struct): comments and private members are  *)
(* dropped, macros expanded, nested blocks flattened from the innermost    *)
(* outward, and the members compared with the documented names.            *)
(*                                                                         *)
(* The specification keeps, next to the text, what a reader would say the  *)
(* members are (one level of a stack per open block). The properties       *)
(* compare this with the outcome of the batch algorithm.                   *)
(***************************************************************************)
EXTENDS KdocDecl

CONSTANTS MaxPieces,                 \* bound on the members, marks and blocks written
          Names, Seconds,            \* names for the members of the k-th piece
          MaxBlocks,                 \* bound on the blocks among them
          Kinds,                     \* "struct" or "union": the blocks at each depth
          Documented                 \* sets of names the comment may describe

VARIABLES text,       \* the tokens between the braces of the struct
          levels,     \* stack of open blocks: what a reader says they declare
          blocks,     \* number of blocks opened
          pieces,     \* number of members, marks and blocks written
          enumInside, \* an enum was defined inside a nested block
          documented, \* the names the comment describes, once it is read
          parsed      \* what dump_struct() made of it

vars == <<text, levels, blocks, pieces, enumInside, documented, parsed>>

Unread == [entry |-> KernelEntry(0), item |-> NoItem]

Root == [names |-> <<>>, show |-> TRUE, outer |-> TRUE, kind |-> "struct"]
Top == Last(levels)

Id == <<"foo">>

Init ==
  /\ text = <<>>
  /\ levels = <<Root>>
  /\ blocks = 0
  /\ pieces = 0
  /\ enumInside = FALSE
  /\ documented = {}
  /\ parsed = Unread

Piece ==
  /\ pieces < MaxPieces
  /\ pieces' = pieces + 1

\* Write tokens toks, which declare names at the current level.
Declare(toks, names) ==
  /\ Piece
  /\ text' = text \o toks
  /\ levels' = ReplaceAt(levels, Len(levels),
                 [Top EXCEPT !.names = IF Top.show THEN @ \o names ELSE @])
  /\ enumInside' = (enumInside \/ (toks[1] = Enum /\ Len(levels) > 1))
  /\ UNCHANGED blocks

IntType == Name("int")
One == Names[pieces + 1]
Two == Seconds[pieces + 1]

Pair     == Declare(<<IntType, Name(One), Op(":"), Tok("NUMBER", "3"), Punc(","),
                      Op("*"), Name(Two), Semicolon>>, << <<One>>, <<Two>> >>)
Callback == Declare(<<IntType, Begin("("), Op("*"), Name(One), End(")"), Begin("("),
                      IntType, Name("x"), Punc(","), IntType, Name("y"), End(")"),
                      Semicolon>>, << <<One>> >>)
Member   == Declare(<<IntType, Name(One), Name(Attribute), Begin("("), Begin("("),
                      Name("aligned"), End(")"), End(")"), Semicolon>>, << <<One>> >>)
Group    == Declare(<<Name(StructGroup), Begin("("), Name("g"), Punc(","),
                      IntType, Name(One), Semicolon, IntType, Name(Two), Semicolon,
                      End(")"), Semicolon>>,
                    << Unnamed("struct"), <<One>>, <<Two>> >>)
InlineEnum == Declare(<<Enum, Begin("{"), Name("E0"), Punc(","), Name("E1"), End("}"),
                        Name(One), Semicolon>>, << <<One>> >>)

Mark(show) ==
  /\ Piece
  /\ text' = Append(text, Comment(IF show THEN "public:" ELSE "private:"))
  /\ levels' = ReplaceAt(levels, Len(levels), [Top EXCEPT !.show = show])
  /\ UNCHANGED <<blocks, enumInside>>

Open ==
  /\ blocks < MaxBlocks
  /\ Piece
  /\ blocks' = blocks + 1
  /\ LET kind == Kinds[Len(levels)] IN
       /\ text' = text \o <<IF kind = "struct" THEN Struct ELSE Union, Begin("{")>>
       /\ levels' = Append(levels, [names |-> <<>>, show |-> Top.show,
                                    outer |-> Top.show, kind |-> kind])
  /\ UNCHANGED enumInside

\* "} name;" or "};". The members of a block whose braces are hidden count for
\* the block around it.
Close(id) ==
  /\ Len(levels) > 1
  /\ text' = text \o <<End("}")>> \o (IF id = <<>> THEN <<>> ELSE <<Name(id[1])>>)
                  \o <<Semicolon>>
  /\ LET inside == [k \in DOMAIN Top.names |->
                      IF Top.names[k][1] = "unnamed" THEN Top.names[k]
                      ELSE id \o Top.names[k]]
         around == levels[Len(levels) - 1]
         more == IF ~Top.outer THEN Top.names
                 ELSE IF id = <<>> THEN <<Unnamed(Top.kind)>> \o Top.names
                 ELSE <<id>> \o inside
     IN levels' = Append(SubSeq(levels, 1, Len(levels) - 2),
                         [around EXCEPT !.names = @ \o more])
  /\ UNCHANGED <<blocks, pieces, enumInside>>

Write ==
  \/ Member \/ Pair \/ Callback \/ Group \/ InlineEnum
  \/ \E show \in BOOLEAN : Mark(show)
  \/ Open
  \/ Close(<<Names[pieces]>>)
  \/ Close(<<>>)

-----------------------------------------------------------------------------
Prototype == <<Struct, Name("foo"), Begin("{")>> \o text \o <<End("}"), Semicolon>>

Entry(names) == [KernelEntry(0) EXCEPT !.identifier = Id, !.decl_type = "struct",
                   !.parameterdescs = [p \in names |-> User(<<1>>)]]

\* kernel-doc reads the whole declaration.
Read(names) ==
  /\ Len(levels) = 1
  /\ documented' = names
  /\ parsed' = dump_struct(Entry(names), 9, Prototype)
  /\ UNCHANGED <<text, levels, blocks, pieces, enumInside>>

Next ==
  /\ parsed = Unread
  /\ \/ /\ Write
        /\ UNCHANGED <<documented, parsed>>
     \/ \E names \in Documented : Read(names)

Spec == Init /\ [][Next]_vars

-----------------------------------------------------------------------------
IsRead == parsed # Unread

Warned(what) == {parsed.entry.warnings[k].about :
                   k \in {i \in DOMAIN parsed.entry.warnings :
                            parsed.entry.warnings[i].what = what}}

\* The parameters of a struct are its visible members, in order, nested ones
\* under the names of their blocks: private/public marks, macros and blocks at
\* any depth do not disturb one another. An enum defined inside a nested block
\* is the exception: rewrite_struct_members() does not find the block. Each
\* parameter has an entry in parameterdescs, as the output side expects.
MembersAsDeclared ==
  IsRead => /\ ~enumInside => parsed.item.parameterlist = Top.names
            /\ ToSet(parsed.item.parameterlist) \subseteq DOMAIN parsed.item.parameterdescs

\* Every visible member that is neither described nor nested is warned of,
\* every description of something that is not a member too, and nothing else.
WarningsExact ==
  IsRead /\ ~enumInside =>
    /\ Warned("not described") = {p \in ToSet(Top.names) : Len(p) = 1} \ documented
    /\ Warned("excess description") = documented \ ToSet(Top.names)

\* CMatch finds each use of a macro together with all of its arguments, however
\* deeply they are nested, and nothing else: the block ends at the first token
\* after which no more brackets are open than before it.
MacrosFound ==
  IsRead =>
    LET toks == tokenize(text)
        depth == Depths(toks)
        BlockEnd(i) ==
          IF ~Is(toks[i + 1], "(") THEN i
          ELSE CHOOSE j \in i + 2..Len(toks) :
                 /\ depth[j] = depth[i]
                 /\ \A m \in i + 1..j - 1 : depth[m] > depth[i]
    IN \A macro \in {Attribute, StructGroup} :
         ToSet(search(macro, "(", toks)) =
           {<<i, BlockEnd(i)>> : i \in {k \in DOMAIN toks : Is(toks[k], macro)}}
=============================================================================
