--------------------------- MODULE ImportPolicy ---------------------------
(***************************************************************************)
(* The check of SandboxConfig.allowed_modules before a run:                *)
(* src/agentbox-core/src/import_policy.rs.                                 *)
(*                                                                         *)
(* The code cuts a program into statements with a scanner for strings and  *)
(* comments, takes the statements that begin with import or from, and      *)
(* reads module names off them.  A program is a sequence of symbols: a     *)
(* symbol is a character or, since words matter only as a whole, a word.   *)
(***************************************************************************)
EXTENDS Naturals, Sequences, FiniteSetsExt, SequencesExt

WordSymbols == {"import", "from", "as", "a", "b"}     \* '_' and the alphanumerics
Whitespace == {" ", "\n"}
Quotes == {"'", "\""}

----------------------------------------------------------------------------
(* Helpers on sequences of symbols *)

\* The longest prefix of s whose symbols are all in S: take_while.
Span(s, S) == SubSeq(s, 1, Min({i \in 1..Len(s) : s[i] \notin S} \cup {Len(s) + 1}) - 1)
Beyond(s, S) == SubSeq(s, Len(Span(s, S)) + 1, Len(s))
TrimStart(s) == Beyond(s, Whitespace)
\* split_whitespace().next()
FirstWord(s) == Span(TrimStart(s), {s[i] : i \in 1..Len(s)} \ Whitespace)

\* The parts of s between the positions in cuts.
Split(s, cuts) ==
  {SubSeq(s, from + 1, Min({to \in cuts \cup {Len(s) + 1} : to > from}) - 1) : from \in cuts \cup {0}}

----------------------------------------------------------------------------
(* split_statements *)

\* What the loop knows before it looks at a symbol: StringState, in_comment
\* and escaped; skip counts the symbols of a triple quote it has passed over.
Outside == [in |-> "code", quote |-> "", triple |-> FALSE, escaped |-> FALSE, skip |-> 0]

IsTripleQuote(code, i, quote) == i + 2 <= Len(code) /\ \A k \in i..i + 2 : code[k] = quote

\* Mutant of InString: a backslash does not protect the quote that follows.
InStringUnescaped(code, i, s) ==
  IF s.triple /\ IsTripleQuote(code, i, s.quote) THEN [Outside EXCEPT !.skip = 2]
  ELSE IF ~s.triple /\ code[i] = s.quote THEN Outside ELSE s

\* Backslashes count in short strings only.
InString(code, i, s) ==
  IF s.triple THEN IF IsTripleQuote(code, i, s.quote) THEN [Outside EXCEPT !.skip = 2] ELSE s
  ELSE IF s.escaped THEN [s EXCEPT !.escaped = FALSE]
  ELSE IF code[i] = s.quote THEN Outside ELSE [s EXCEPT !.escaped = (code[i] = "\\")]

InCode(code, i, s) ==
  CASE code[i] = "#"       -> [s EXCEPT !.in = "comment"]
    [] code[i] \in Quotes  -> LET triple == IsTripleQuote(code, i, code[i])
                              IN [s EXCEPT !.in = "string", !.quote = code[i], !.triple = triple,
                                           !.skip = IF triple THEN 2 ELSE 0]
    [] OTHER               -> s

NextState(code, i, s) ==
  IF s.skip > 0 THEN [s EXCEPT !.skip = @ - 1]
  ELSE CASE s.in = "comment" -> IF code[i] = "\n" THEN Outside ELSE s
         [] s.in = "code"    -> InCode(code, i, s)
         [] s.in = "string"  -> InString(code, i, s)

StateBefore(code) ==
  LET before[i \in 1..Len(code) + 1] == IF i = 1 THEN Outside ELSE NextState(code, i - 1, before[i - 1])
  IN before

SplitStatements(code) ==
  LET before == StateBefore(code)
  IN Split(code, {i \in 1..Len(code) :
                    /\ before[i].skip = 0
                    /\ \/ before[i].in = "code" /\ code[i] \in {";", "\n"}
                       \/ before[i].in = "comment" /\ code[i] = "\n"})

----------------------------------------------------------------------------
(* collect_imported_modules *)

StripsKeyword(statement, keyword) ==
  Len(statement) > 1 /\ Head(statement) = keyword /\ statement[2] \in Whitespace

\* extract_module_name: the name at the start of raw, if there is one.
ExtractModuleName(raw) == {Span(TrimStart(raw), WordSymbols \cup {"."})} \ {<<>>}

ParseImportClause(rest) ==
  UNION {ExtractModuleName(raw) : raw \in Split(rest, {i \in 1..Len(rest) : rest[i] = ","})}

\* Relative imports name nothing outside the program.
ParseFromImportClause(rest) ==
  LET modulePart == FirstWord(rest)
      keyword == FirstWord(Beyond(TrimStart(rest), {rest[i] : i \in 1..Len(rest)} \ Whitespace))
  IN IF modulePart # <<>> /\ Head(modulePart) # "." /\ keyword # <<>> /\ Head(keyword) = "import"
     THEN ExtractModuleName(modulePart) ELSE {}

ImportsOf(statement) ==
  CASE StripsKeyword(statement, "import") -> ParseImportClause(Tail(statement))
    [] StripsKeyword(statement, "from")   -> ParseFromImportClause(Tail(statement))
    [] OTHER                              -> {}

CollectImportedModules(code) ==
  UNION {ImportsOf(TrimStart(statement)) : statement \in SplitStatements(code)}

----------------------------------------------------------------------------
(* enforce_allowed_modules *)

Trim(s) == Reverse(TrimStart(Reverse(TrimStart(s))))
NormalizeAllowedModules(allowed) == {Trim(module) : module \in allowed} \ {<<>>}

\* A package that is allowed brings its submodules along.
IsModuleAllowed(module, allowed) == \E a \in allowed : module = a \/ IsPrefix(Append(a, "."), module)

Blocked(code, allowed) ==
  {module \in CollectImportedModules(code) :
     ~IsModuleAllowed(module, NormalizeAllowedModules(allowed))}
=============================================================================
