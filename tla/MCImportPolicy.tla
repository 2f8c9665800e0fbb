--------------------------- MODULE MCImportPolicy ---------------------------
(***************************************************************************)
(* Compares the import policy with the Python language on every program    *)
(* that can be written with a few pieces of text.                          *)
(***************************************************************************)
EXTENDS PythonImports

CONSTANT MaxPieces
VARIABLES
  code,                    \* the program
  pieces                   \* how many it has been written with

Pieces ==
  {<<"import", " ", "a">>, <<";", " ", "import", " ", "a", "a", " ", "as", " ", "b">>,
   <<"from", " ", "a", ".", "b", " ", "import">>, <<"from", " ", ".", "a", " ", "import">>,
   <<" ", "a">>, <<",", "b">>, <<"\n">>, <<"#">>, <<"'">>, <<"'", "'", "'">>,
   <<"\"">>, <<"\\">>, <<"(">>, <<")">>}

\* Values of SandboxConfig.allowed_modules.
AllowLists == {{}, {<<"a">>}, {<<" ", "a", ".", "b", " ">>, <<" ">>}}

Init == code = <<>> /\ pieces = 0
\* Programs that can no longer become valid are not continued.
Write(piece) ==
  /\ pieces < MaxPieces
  /\ ~Hopeless(code)
  /\ code' = code \o piece
  /\ pieces' = pieces + 1
Next == \E piece \in Pieces : Write(piece)
vars == <<code, pieces>>
Spec == Init /\ [][Next]_vars

\* A program is refused exactly if Python would import a module from it that
\* is neither allowed nor part of an allowed package: nothing is read into
\* strings, comments, names that contain a keyword or relative imports, and
\* no import statement among them is overlooked (import_policy.rs:26).
PolicyExact ==
  Valid(code) /\ Plain(code) =>
    /\ CollectImportedModules(code) = PythonImports(code)
    /\ \A allowed \in AllowLists :
         Blocked(code, allowed) =
           {m \in PythonImports(code) : Packages(m) \cap {Trim(a) : a \in allowed} = {}}

\* Text in a comment or in a string is not an import: what the tests
\* ignores_comment_only_import_text_after_hash and
\* ignores_import_text_inside_multiline_triple_quoted_strings
\* (import_policy.rs:337 and 344) show for one program each.
OnlyImportsRefused == Valid(code) => CollectImportedModules(code) \subseteq PythonImports(code)
=============================================================================
