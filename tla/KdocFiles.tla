------------------------------ MODULE KdocFiles ------------------------------
(***************************************************************************)
(* A documentation build: the kernel-doc directives of the .rst files      *)
(* (sphinx/kerneldoc.py) run one after the other on one KernelFiles object *)
(* (kdoc/kdoc_files.py), which caches what it has parsed, and on one       *)
(* RestFormat (kdoc/kdoc_output.py), which filters and writes it. Files    *)
(* may appear, change and vanish meanwhile, and a directive may fail half  *)
(* way: run() catches every exception and goes on with the next directive. *)
(*                                                                         *)
(* What the parser makes of a file (KernelDoc) is given by its content:    *)
(* the items, the exported symbols, and whether the parser raises.         *)
(***************************************************************************)
EXTENDS Integers, Sequences, FiniteSets, SequencesExt, RestFormat

CONSTANTS Files,                     \* paths of C files
          Contents,                  \* what each of them may hold, or be
          Directives,                \* the directives that may occur
          MaxDirectives, MaxEdits    \* bounds

Absent     == [kind |-> "absent"]
Unreadable == [kind |-> "unreadable"]

\* A file with the given items; one on which the parser raises an exception.
Source(items, exports) == [kind |-> "source", items |-> items, exports |-> exports]
Crashing == [kind |-> "crashing"]

\* ".. kernel-doc:: file" and its options. mode is "all", "export", "internal"
\* or "identifiers" (which with no identifier means no DOC sections).
Directive(file, mode, patterns, identifiers, nosymbol) ==
  [file |-> file, mode |-> mode, patterns |-> patterns,
   identifiers |-> identifiers, nosymbol |-> nosymbol]

\* Files hold what the parser returns, and the directives name files; export and
\* internal take precedence over identifiers (handle_args()).
ASSUME ContentsAssumption ==
  \A f \in Files : \A c \in Contents[f] : c.kind = "source" => c.items \in Seq(Items)

ASSUME DirectivesAssumption ==
  \A d \in Directives :
    /\ d.file \in Files
    /\ d.mode \in {"all", "export", "internal", "identifiers"}
    /\ d.patterns \subseteq Files
    /\ IsFiniteSet(d.patterns)
    /\ d.mode # "identifiers" => d.identifiers = {}

VARIABLES disk,     \* the files as they are now
          kf,       \* KernelFiles: files, results, export_table, errors
          style,    \* RestFormat: nosymbol, lineprefix
          cur,      \* the directive being processed
          last,     \* the outcome of the last one
          count, edits,
          ghost     \* per build: what was read, hidden and shown

vars == <<disk, kf, style, cur, last, count, edits, ghost>>

Idle == [phase |-> "idle"]
NoOutcome == [outcome |-> "none yet"]

Empty == [f \in {} |-> <<>>]
Put(dict, f, v) == [g \in DOMAIN dict \cup {f} |-> IF g = f THEN v ELSE dict[g]]

\* setup_kfiles(): new objects for every build. The set export_files is the
\* domain of export_table.
NewKernelFiles == [files |-> {}, results |-> Empty, export_table |-> Empty, errors |-> 0]
NewOutputFormat == [nosymbol |-> {}, lineprefix |-> 0]
NewGhost == [read |-> Empty,         \* the content a file had when it was parsed
             hidden |-> FALSE,       \* some directive had a no-identifiers option
             var |-> FALSE,          \* some variable has been written
             answers |-> {}]         \* what was asked and shown

Init ==
  /\ disk \in [Files -> UNION {Contents[f] : f \in Files}]
  /\ \A f \in Files : disk[f] \in Contents[f]
  /\ kf = NewKernelFiles
  /\ style = NewOutputFormat
  /\ cur = Idle
  /\ last = NoOutcome
  /\ count = 0
  /\ edits = 0
  /\ ghost = NewGhost

setup_kfiles ==
  /\ cur = Idle
  /\ last # NoOutcome
  /\ kf' = NewKernelFiles
  /\ style' = NewOutputFormat
  /\ last' = NoOutcome
  /\ ghost' = NewGhost
  /\ UNCHANGED <<disk, cur, count, edits>>

\* Somebody edits, removes or restores a file.
Edit(f, c) ==
  /\ edits < MaxEdits
  /\ disk[f] # c
  /\ disk' = [disk EXCEPT ![f] = c]
  /\ edits' = edits + 1
  /\ UNCHANGED <<kf, style, cur, last, count, ghost>>

IsFile(f) == disk[f] # Absent

\* The export patterns match the files that exist now.
handle_args(d) ==
  /\ cur = Idle
  /\ count < MaxDirectives
  /\ count' = count + 1
  /\ cur' = [phase |-> "parse", d |-> d,
             export_file |-> {g \in d.patterns : IsFile(g)}]
  /\ last' = NoOutcome
  /\ UNCHANGED <<disk, kf, style, edits, ghost>>

\* run(): the exception is logged, the page gets an error node.
run_fails ==
  /\ cur' = Idle
  /\ last' = [outcome |-> "failed", d |-> cur.d, export_file |-> cur.export_file]
  /\ UNCHANGED <<disk, count, edits>>

\* The exception comes before the writer is called.
Fail == run_fails /\ UNCHANGED <<style, ghost>>

Counts(n, i) == n + i.warnings
Warnings(items) == FoldLeft(Counts, 0, items)

\* A file that cannot be opened is logged and cached like an empty one. The
\* parser logs, and counts, the warnings of every entry.
Entries(c) == IF c.kind = "source" THEN c.items ELSE <<>>

Logged(c) == Warnings(Entries(c))

Exports(c) == IF c.kind = "source" THEN c.exports ELSE {}

Cached(k, f, c) ==
  [k EXCEPT !.files = @ \cup {f},
            !.results = Put(@, f, Entries(c)),
            !.export_table = Put(@, f, Exports(c))]

\* Mutant of Uncached: the file is noted as parsed before the parser runs.
UncachedMutant(k, f) == [k EXCEPT !.files = @ \cup {f}]

\* The parser has raised: nothing is stored for the file.
Uncached(k, f) == k

\* Mutant of NotParsed: the cache is not looked at.
NotParsedMutant(f) == TRUE

NotParsed(f) == f \notin kf.files

\* parse() of the one file of the directive. What the parser logged before it
\* raised stays counted.
parse_file ==
  /\ cur.phase = "parse"
  /\ LET f == cur.d.file
         fresh == IsFile(f) /\ NotParsed(f)
     IN \/ /\ fresh /\ disk[f] = Crashing
           /\ \E n \in 0..1 : kf' = [Uncached(kf, f) EXCEPT !.errors = @ + n]
           /\ Fail
        \/ /\ ~(fresh /\ disk[f] = Crashing)
           /\ kf' = CASE ~IsFile(f) -> [kf EXCEPT !.errors = @ + 1]
                      [] fresh -> [Cached(kf, f, disk[f]) EXCEPT !.errors = @ + Logged(disk[f])]
                      [] OTHER -> kf
           /\ ghost' = [ghost EXCEPT !.read = IF fresh THEN Put(@, f, disk[f]) ELSE @]
           /\ cur' = [cur EXCEPT !.phase = "exports"]
           /\ UNCHANGED <<disk, style, last, count, edits>>

\* parse() of the export files: one that has not been parsed before raises a
\* TypeError, because KernelDoc() is called without its third argument.
process_export_file ==
  /\ cur.phase = "exports"
  /\ LET missing == {g \in cur.export_file : ~IsFile(g)}
         unparsed == {g \in cur.export_file \ missing : g \notin DOMAIN kf.export_table}
     IN \/ /\ unparsed # {}
           /\ \E n \in 0..Cardinality(missing) :              \* those before it
                kf' = [kf EXCEPT !.errors = @ + n]
           /\ Fail
        \/ /\ unparsed = {}
           /\ kf' = [kf EXCEPT !.errors = @ + Cardinality(missing)]
           /\ cur' = [cur EXCEPT !.phase = "msg"]
           /\ UNCHANGED <<disk, style, last, count, edits, ghost>>

\* The mode: identifiers come first, then export and internal.
out_mode(d) ==
  IF d.mode = "identifiers"
    THEN IF d.identifiers # {} THEN "include" ELSE "all"
    ELSE d.mode
no_doc_sections(d) == d.mode = "identifiers" /\ d.identifiers = {}

\* An option that is not given leaves the names of an earlier directive.
set_filter(s, nosymbol) ==
  [s EXCEPT !.nosymbol = IF nosymbol # {} THEN nosymbol ELSE @]

check_doc(s, d, table, i) ==
  /\ ~no_doc_sections(d)
  /\ i.name \notin s.nosymbol
  /\ \/ out_mode(d) = "all"
     \/ out_mode(d) = "include" /\ i.name \in table

\* Mutant of check_declaration: names to leave out are not looked at.
check_declarationMutant(s, d, table, i) ==
  CASE out_mode(d) = "all" -> TRUE
    [] out_mode(d) \in {"include", "export"} -> i.name \in table
    [] OTHER -> i.type # "function" \/ i.name \notin table

check_declaration(s, d, table, i) ==
  /\ i.name \notin s.nosymbol
  /\ CASE out_mode(d) = "all" -> TRUE
       [] out_mode(d) \in {"include", "export"} -> i.name \in table
       [] OTHER -> i.type # "function" \/ i.name \notin table

Shows(s, d, table, i) ==
  IF i.type = "doc" THEN check_doc(s, d, table, i) ELSE check_declaration(s, d, table, i)

\* out_warnings() counts once more, but not for declarations picked by name.
CountsAgain(d, i) == i.type = "doc" \/ out_mode(d) \in {"all", "internal"}

\* Mutant of ExportFiles: the export files given are not looked at.
ExportFilesMutant(d, export_file) ==
  IF d.mode \notin {"export", "internal"} THEN {} ELSE {d.file}

\* Where the exports are looked up: without export files, in the file itself.
ExportFiles(d, export_file) ==
  IF d.mode \notin {"export", "internal"} THEN {}
  ELSE IF export_file = {} THEN {d.file} ELSE export_file

\* The items of a list that are wanted, in their order.
Pick(acc, i) == IF i \in acc.wanted THEN [acc EXCEPT !.out = Append(@, i)] ELSE acc
Kept(items, wanted) == FoldLeft(Pick, [wanted |-> wanted, out |-> <<>>], items).out

\* KernelFiles.msg() and OutputFormat.output_symbols().
msg ==
  /\ cur.phase = "msg"
  /\ LET d == cur.d
         wanted == ExportFiles(d, cur.export_file)
         present == {g \in wanted : IsFile(g)}
         lost == Cardinality(wanted \ present)
         table == d.identifiers \cup UNION {kf.export_table[g] : g \in present}
         style1 == set_filter(style, d.nosymbol)
         items == kf.results[d.file]
         shown == Kept(items, {i \in ToSet(items) : Shows(style1, d, table, i)})
         page == output_symbols(Writer(style.lineprefix, style1.nosymbol, out_mode(d)), shown)
         again == Kept(Reached(shown), {i \in ToSet(shown) : CountsAgain(d, i)})
         used == [ghost EXCEPT
                    !.hidden = @ \/ d.nosymbol # {},
                    !.var = @ \/ \E k \in DOMAIN Written(shown) : shown[k].type = "var"]
         Consulted == {g \in cur.export_file : IsFile(g) /\ g \in DOMAIN ghost.read}
         Ends(outcome, what) ==
           /\ cur' = Idle
           /\ last' = [outcome |-> outcome, d |-> d, export_file |-> cur.export_file,
                       table |-> table, shown |-> what]
           /\ UNCHANGED <<disk, count, edits>>
     IN \/ /\ ~(present \subseteq DOMAIN kf.export_table)       \* KeyError
           /\ \E n \in 0..lost : kf' = [kf EXCEPT !.errors = @ + n]
           /\ Fail
        \/ /\ present \subseteq DOMAIN kf.export_table
           /\ d.file \notin DOMAIN kf.results                   \* "No kernel-doc"
           /\ kf' = [kf EXCEPT !.errors = @ + lost]
           /\ Ends("nothing", <<>>)
           /\ UNCHANGED <<style, ghost>>
        \/ /\ present \subseteq DOMAIN kf.export_table
           /\ d.file \in DOMAIN kf.results
           /\ kf' = [kf EXCEPT !.errors = @ + lost + Warnings(again)]
           /\ style' = [style1 EXCEPT !.lineprefix = page.lineprefix]
           /\ \/ /\ Raising(shown) # {}                         \* the page is lost
                 /\ run_fails
                 /\ ghost' = used
              \/ /\ Raising(shown) = {}
                 /\ Ends("shown", shown)
                 /\ ghost' = [used EXCEPT !.answers = @ \cup
                      {[d |-> d, table |-> table, hidden |-> ghost.hidden,
                        var |-> ghost.var, content |-> ghost.read[d.file],
                        here |-> IsFile(d.file), given |-> cur.export_file,
                        elsewhere |-> UNION {Exports(ghost.read[g]) : g \in Consulted},
                        shown |-> shown, data |-> page.data]}]

Next ==
  \/ setup_kfiles
  \/ \E f \in Files : \E c \in Contents[f] : Edit(f, c)
  \/ \E d \in Directives : handle_args(d)
  \/ parse_file
  \/ process_export_file
  \/ msg

Spec == Init /\ [][Next]_vars

-----------------------------------------------------------------------------
\* Type invariant, and the caches belong together: a file that is noted as parsed
\* has its items and its exports cached, whatever failed before. A parse that
\* raised is not remembered: the next directive tries the file again, instead of
\* reporting that it has no kernel-doc.
TypeOK ==
  /\ \A f \in Files : disk[f] \in Contents[f]
  /\ DOMAIN kf.results = DOMAIN ghost.read
  /\ DOMAIN kf.results = kf.files
  /\ DOMAIN kf.results = DOMAIN kf.export_table
  /\ kf.errors \in Nat
  /\ cur.phase \in {"idle", "parse", "exports", "msg"}

\* The symbols "exported using EXPORT_SYMBOL() and related macros in any input FILE
\* or -export-file FILE" (EXPORT_DESC, tools/docs/kernel-doc): in the file of the
\* directive as it was read, and in the export files it gives.
Exported(a) == Exports(a.content) \cup a.elsewhere

\* What the options of a directive ask for, in the words of kernel-doc: by name, the
\* exported symbols, the symbols that are not, or everything.
AskedFor(a, i) ==
  /\ i.name \notin a.d.nosymbol
  /\ CASE a.d.mode = "identifiers" /\ a.d.identifiers # {} -> i.name \in a.d.identifiers
       [] a.d.mode = "identifiers" /\ a.d.identifiers = {} -> i.type # "doc"
       [] a.d.mode = "export" -> i.type # "doc" /\ i.name \in Exported(a)
       [] a.d.mode = "internal" -> i.type # "doc" /\ i.name \notin Exported(a)
       [] OTHER -> TRUE

\* Exports that msg() overlooks: those of the file itself when export files are
\* given, or when the file has vanished since it was read.
Overlooked(a) ==
  IF a.given = {} /\ a.here THEN {} ELSE Exports(a.content) \ a.elsewhere

\* Where the filter departs from those words: for an overlooked export, and under
\* internal, which hides no exported symbol but functions (check_declaration()).
Departs(a, i) ==
  \/ a.d.mode \in {"export", "internal"} /\ i.name \in Overlooked(a)
  \/ a.d.mode = "internal" /\ i.type # "function" /\ i.name \in Exported(a)

\* The lines of a text that a reader of ReST takes as literal: those of an indented
\* block after a line that opens one, up to the next line not indented more than
\* the opening line.
IsLiteral(text) ==
  LET lit[k \in 0..Len(text)] ==
        /\ k > 0
        /\ \E j \in 1..(k - 1) :
             /\ text[j].opens /\ ~lit[j]
             /\ \A m \in (j + 1)..k : text[m].blank \/ text[m].indent > text[j].indent
  IN lit

Words(text) ==
  LET lit == IsLiteral(text)
      marked == [k \in DOMAIN text |-> <<text[k].id, IF lit[k] THEN "literal" ELSE "text">>]
  IN SelectSeq(marked, LAMBDA m : m[1] # "")

\* All that the parser found to say about an item, but for the sections left out.
Documented(i, nosymbol) ==
  Words(i.purpose)
  \o FlattenSeq([k \in DOMAIN i.parameters |->
                   IF i.parameters[k].described THEN Words(i.parameters[k].text) ELSE <<>>])
  \o FlattenSeq([k \in DOMAIN i.sections |->
                   IF i.sections[k].name \in nosymbol THEN <<>> ELSE Words(i.sections[k].text)])

WordsWritten(data) ==
  LET lines == SelectSeq(data, LAMBDA l : l.what \in {"text", "literal"})
  IN [k \in DOMAIN lines |-> <<lines[k].of, lines[k].what>>]

\* The items asked for are shown, in the order of the file, and of the others at
\* most those where the filter departs.
ItemsAsked(a) ==
  LET items == Entries(a.content)
      Wanted(i) == IF Departs(a, i) THEN i \in ToSet(a.shown) ELSE AskedFor(a, i)
  IN a.shown = Kept(items, {i \in ToSet(items) : Wanted(i)})

\* Their text is written, but for the sections left out.
TextWritten(a) ==
  WordsWritten(a.data) =
    FlattenSeq([k \in DOMAIN a.shown |-> Documented(a.shown[k], a.d.nosymbol)])

\* A directive shows exactly what its own options ask for of the file as it was
\* read, however often files changed and directives failed since: the items, and
\* of each the whole text, with literal blocks as they are and the rest marked up.
\* What export and internal ask for is what kernel-doc's help says of them; the two
\* departures are named in Departs and left open. That is as long as no directive
\* before it in the build had a no-identifiers option (set_filter() keeps those
\* names for the directives that follow).
ShowsWhatIsAsked ==
  \A a \in ghost.answers : ~a.hidden => ItemsAsked(a) /\ TextWritten(a)

\* Pages of one build agree: two directives with the same options that looked
\* up the same exports write the same lines with the same indentation, although
\* the file may have been edited between them, and whatever other items were
\* written. There are two exceptions: a variable (out_var() leaves its lineprefix
\* behind) and a no-identifiers option of a directive before (set_filter() keeps
\* its names).
PagesAgree ==
  \A a, b \in ghost.answers :
    a.d = b.d /\ a.table = b.table /\ ~a.hidden /\ ~b.hidden /\ a.var = b.var
      => a.data = b.data

\* "Only output documentation for symbols that have NOT been exported using
\* EXPORT_SYMBOL() and related macros in any input FILE or -export-file FILE"
\* (INTERNAL_DESC, tools/docs/kernel-doc; "Output non-exported symbols" in
\* kdoc_output.py), and EXPORT_DESC likewise, with no departure.
ShowsAsDocumented ==
  \A a \in ghost.answers :
    ~a.hidden => \A i \in ToSet(Entries(a.content)) :
                   i \in ToSet(a.shown) <=> AskedFor(a, i)

=============================================================================
