--------------------------- MODULE PythonImports ---------------------------
(***************************************************************************)
(* What a program imports according to the Python language, as far as      *)
(* ImportPolicy undertakes to see it: a reference for the scanner of       *)
(* import_policy.rs, written from the lexical structure of Python and not  *)
(* from that scanner.                                                      *)
(*                                                                         *)
(* Python reads logical lines: a comment is not part of one, a newline     *)
(* inside brackets does not end one, and a backslash protects the symbol   *)
(* after it in every kind of string.  A program is Valid if it is made of  *)
(* import statements and of statements without keywords and closes what it *)
(* opens.  Continuation lines, and imports after a colon, are left out.    *)
(***************************************************************************)
EXTENDS ImportPolicy, FiniteSets

Keywords == {<<"import">>, <<"from">>, <<"as">>}

----------------------------------------------------------------------------
(* Logical lines *)

\* open: the delimiter of the string the reader is in, or <<>>; lines: the
\* statements so far, the last one unfinished, with "s" for a string; next:
\* symbols before it have been read; plain: see Plain.
Start == [open |-> <<>>, comment |-> FALSE, depth |-> 0, lines |-> <<<<>>>>, next |-> 1,
          valid |-> TRUE, plain |-> TRUE]

Put(r, symbol) == [r EXCEPT !.lines[Len(r.lines)] = Append(@, symbol)]
EndLine(r) == IF r.depth = 0 THEN [r EXCEPT !.lines = Append(@, <<>>)] ELSE Put(r, " ")
InImport(r) == LET line == TrimStart(Last(r.lines)) IN line # <<>> /\ Head(line) = "import"

Opens(code, i) == IF IsTripleQuote(code, i, code[i]) THEN SubSeq(code, i, i + 2) ELSE <<code[i]>>

ReadString(code, i, r) ==
  LET end == i + Len(r.open)
  IN IF code[i] = "\\" THEN [r EXCEPT !.next = i + 2, !.plain = @ /\ Len(r.open) = 1]
     ELSE IF SubSeq(code, i, Min({end - 1, Len(code)})) = r.open
     THEN [r EXCEPT !.next = end, !.open = <<>>]
     ELSE [r EXCEPT !.valid = @ /\ (code[i] # "\n" \/ Len(r.open) = 3)]

ReadComment(code, i, r) ==
  IF code[i] = "\n" THEN EndLine([r EXCEPT !.comment = FALSE])
  ELSE [r EXCEPT !.plain = @ /\ ~(code[i] = "," /\ InImport(r))]

ReadCode(code, i, r) ==
  CASE code[i] \in Quotes ->
         LET open == Opens(code, i) IN [Put(r, "s") EXCEPT !.open = open, !.next = i + Len(open)]
    [] code[i] = "#"  -> [r EXCEPT !.comment = TRUE]
    [] code[i] = "("  -> [Put(r, "(") EXCEPT !.depth = @ + 1]
    [] code[i] = ")"  -> [Put(r, ")") EXCEPT !.depth = Max({@ - 1, 0}), !.valid = @ /\ r.depth > 0]
    [] code[i] = "\n" -> EndLine(r)
    [] code[i] = ";"  -> [EndLine(r) EXCEPT !.valid = @ /\ r.depth = 0]
    [] code[i] = "\\" -> [r EXCEPT !.valid = FALSE]
    [] OTHER          -> Put(r, code[i])

Read(code, i, r) ==
  IF i < r.next THEN r
  ELSE IF r.open # <<>> THEN ReadString(code, i, r)
  ELSE IF r.comment THEN ReadComment(code, i, r) ELSE ReadCode(code, i, r)

StateAfter(code) ==
  LET after[i \in 0..Len(code)] == IF i = 0 THEN Start ELSE Read(code, i, after[i - 1])
  IN after

Lexed(code) == StateAfter(code)[Len(code)]

----------------------------------------------------------------------------
(* Statements *)

NameSymbols == WordSymbols \cup {"."}

\* A token is a run of name symbols or any other symbol but a space.
TokenStarts(line) ==
  LET inName(i) == line[i] \in NameSymbols
  IN {i \in 1..Len(line) : line[i] # " " /\ ~(i > 1 /\ inName(i) /\ inName(i - 1))}
TokenAt(line, i) ==
  IF line[i] \in NameSymbols THEN Span(SubSeq(line, i, Len(line)), NameSymbols) ELSE <<line[i]>>
Tokens(line) ==
  LET starts == TokenStarts(line)
  IN [n \in 1..Cardinality(starts) |->
        TokenAt(line, CHOOSE i \in starts : Cardinality(starts \cap 1..i) = n)]

IsName(token) ==
  /\ token \notin Keywords
  /\ \A part \in Split(token, {i \in DOMAIN token : token[i] = "."}) : part # <<>> /\ part \in Seq(WordSymbols)
  /\ \A i \in DOMAIN token : token[i] \in NameSymbols
IsIdentifier(token) == IsName(token) /\ "." \notin Range(token)

\* name {"," name}, each with an optional "as" identifier
Clauses(tokens) == Split(tokens, {i \in DOMAIN tokens : tokens[i] = <<",">>})
IsClause(c) ==
  /\ c # <<>> /\ IsName(c[1])
  /\ Len(c) = 1 \/ (Len(c) = 3 /\ c[2] = <<"as">> /\ IsIdentifier(c[3]))

IsImport(t) == Len(t) > 1 /\ t[1] = <<"import">> /\ \A c \in Clauses(Tail(t)) : IsClause(c)
\* What follows the import of a from statement names attributes, not modules.
IsFrom(t) ==
  /\ Len(t) > 2 /\ t[1] = <<"from">>
  /\ \/ Head(t[2]) = "."
     \/ IsName(t[2]) /\ Len(t) > 3 /\ t[3] = <<"import">>
  /\ \A i \in 4..Len(t) : t[i] \notin {<<"import">>, <<"from">>}
IsOther(t) == Range(t) \cap Keywords = {}

Statements(code) == {Tokens(line) : line \in Range(Lexed(code).lines)}
IsStatement(t) == IsImport(t) \/ IsFrom(t) \/ IsOther(t)

Valid(code) ==
  LET r == Lexed(code)
  IN /\ r.valid /\ r.open = <<>> /\ r.depth = 0
     /\ \A line \in Range(r.lines) : IsStatement(Tokens(line))

\* Nothing that follows can make the program valid.
Hopeless(code) ==
  LET r == Lexed(code)
  IN ~r.valid \/ \E n \in 1..Len(r.lines) - 1 : ~IsStatement(Tokens(r.lines[n]))

PythonImports(code) ==
  {t[2] : t \in {t \in Statements(code) : IsFrom(t) /\ Head(t[2]) # "."}}
  \cup UNION {{Head(c) : c \in Clauses(Tail(t))} : t \in {t \in Statements(code) : IsImport(t)}}

\* Neither has an import statement a comment with a comma on its line, nor a
\* triple-quoted string a backslash.
Plain(code) == Lexed(code).plain

\* The module itself and the packages it is in.
Packages(module) == {SubSeq(module, 1, i) : i \in {i \in 1..Len(module) : i = Len(module) \/ module[i + 1] = "."}}
=============================================================================
