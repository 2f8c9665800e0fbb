------------------------- MODULE ImportPolicyProofs -------------------------
(***************************************************************************)
(* The import policy refuses exactly what it should, for every program and *)
(* every allow list.                                                       *)
(*                                                                         *)
(* The scanner of import_policy.rs and the reader of PythonImports go      *)
(* through the program side by side: they agree on what is string, comment *)
(* and code (Synchronised), so the scanner cuts where lines end            *)
(* (CutsAreEnds).  The piece after a cut and the line that starts there    *)
(* have a head in common, up to a string or a comment (PieceOfLine); the   *)
(* tokens of the line are found in the piece (TokenInPiece), and with them *)
(* the modules (StatementImports).  A piece that starts inside brackets    *)
(* holds no import, for no statement of Python has a keyword there         *)
(* (PieceInBrackets, BracketsHideKeywords).                                *)
(***************************************************************************)
EXTENDS MCImportPolicy, FiniteSetTheorems, SequenceTheorems, WellFoundedInduction, TLAPS

\* A set of natural numbers has a smallest element.
LEMMA MinOfNats ==
  ASSUME NEW T \in SUBSET Nat, T # {}
  PROVE  Min(T) \in T /\ \A k \in T : Min(T) <= k
<1> DEFINE R == OpToRel(<, Nat)
<1>1. \A x, y \in T : y < x => <<y, x>> \in R
  BY DEF OpToRel
<1>2. IsWellFoundedOn(R, Nat)
  BY NatLessThanWellFounded
<1> HIDE DEF R
<1>3. PICK m \in T : \A k \in T : ~(<<k, m>> \in R)
  BY <1>2, WFMin
<1>4. ASSUME NEW k \in T PROVE m <= k
  <2>1. ~(k < m) BY <1>1, <1>3, Zenon
  <2> QED BY <2>1
<1> QED BY <1>4 DEF Min

\* Induction over an interval, as a fact about sets.
LEMMA Induction ==
  ASSUME NEW m \in Nat, NEW n \in Nat, NEW T, m \in T,
         \A i \in Nat : m <= i /\ i < n /\ i \in T => i + 1 \in T
  PROVE  m..n \subseteq T
<1> SUFFICES ASSUME ~(m..n \subseteq T) PROVE FALSE OBVIOUS
<1> DEFINE Bad == {i \in m..n : i \notin T}
<1>1. Bad \in SUBSET Nat /\ Bad # {} OBVIOUS
<1>2. PICK i \in Bad : \A k \in Bad : i <= k BY <1>1, MinOfNats
<1>3. i # m /\ i - 1 \in Nat /\ i - 1 \in m..n BY <1>2
<1>4. i - 1 \notin Bad BY <1>2, <1>3
<1>5. i - 1 \in T BY <1>3, <1>4
<1> QED BY <1>2, <1>3, <1>5

----------------------------------------------------------------------------
(* Helpers on sequences *)

\* What of a sequence lies between two of its positions.
LEMMA Between ==
  ASSUME NEW S, NEW s \in Seq(S), NEW i \in 1..Len(s) + 1, NEW j \in 0..Len(s)
  PROVE  /\ SubSeq(s, i, j) \in Seq(S)
         /\ Len(SubSeq(s, i, j)) = IF i <= j THEN j - i + 1 ELSE 0
         /\ \A k \in 1..j - i + 1 : SubSeq(s, i, j)[k] = s[i + k - 1]
<1>1. \A k \in i..j : s[k] \in S BY ElementOfSeq
<1>2. i \in Int /\ j \in Int OBVIOUS
<1> QED BY <1>1, <1>2, SubSeqProperties

\* How far a sequence consists of symbols of C.
Run(s, C) == Len(Span(s, C))

\* The symbols of C end where Run says.
LEMMA RunFacts ==
  ASSUME NEW S, NEW s \in Seq(S), NEW C
  PROVE  /\ Run(s, C) \in 0..Len(s)
         /\ \A i \in 1..Run(s, C) : s[i] \in C
         /\ Run(s, C) < Len(s) => s[Run(s, C) + 1] \notin C
         /\ Span(s, C) = SubSeq(s, 1, Run(s, C))
         /\ Beyond(s, C) = SubSeq(s, Run(s, C) + 1, Len(s))
<1> DEFINE T == {i \in 1..Len(s) : s[i] \notin C} \cup {Len(s) + 1}
           m == Min(T)
<1>1. Len(s) \in Nat OBVIOUS
<1>2. T \in SUBSET Nat /\ T # {} BY <1>1
<1>3. m \in T /\ \A k \in T : m <= k BY <1>2, MinOfNats
<1>4. Span(s, C) = SubSeq(s, 1, m - 1) BY DEF Span
<1> HIDE DEF m
<1>5. m \in 1..Len(s) + 1 BY <1>1, <1>3
<1>6. Len(SubSeq(s, 1, m - 1)) = m - 1 BY <1>1, <1>5, Between
<1>7. Run(s, C) = m - 1 BY <1>4, <1>6 DEF Run
<1>8. \A i \in 1..m - 1 : s[i] \in C BY <1>1, <1>3, <1>5
<1>9. m - 1 < Len(s) => s[m] \notin C BY <1>1, <1>3, <1>5
<1> QED BY <1>1, <1>4, <1>5, <1>7, <1>8, <1>9 DEF Beyond, Run

\* And only there.
LEMMA RunIs ==
  ASSUME NEW S, NEW s \in Seq(S), NEW C, NEW k \in 0..Len(s),
         \A i \in 1..k : s[i] \in C, k < Len(s) => s[k + 1] \notin C
  PROVE  Run(s, C) = k
<1>1. Len(s) \in Nat OBVIOUS
<1>2. Run(s, C) \in 0..Len(s) /\ (\A i \in 1..Run(s, C) : s[i] \in C)
      /\ (Run(s, C) < Len(s) => s[Run(s, C) + 1] \notin C)
  BY RunFacts
<1>3. ~(k < Run(s, C)) BY <1>1, <1>2
<1>4. ~(Run(s, C) < k) BY <1>1, <1>2
<1> QED BY <1>1, <1>2, <1>3, <1>4

\* Where the part of s after one of its cuts ends.
NextCut(s, cuts, from) == Min({to \in cuts \cup {Len(s) + 1} : to > from})

\* There is no cut between from and NextCut.
LEMMA NextCutFacts ==
  ASSUME NEW S, NEW s \in Seq(S), NEW cuts \in SUBSET (1..Len(s)), NEW from \in 0..Len(s)
  PROVE  /\ NextCut(s, cuts, from) \in cuts \cup {Len(s) + 1}
         /\ NextCut(s, cuts, from) \in from + 1..Len(s) + 1
         /\ \A i \in from + 1..NextCut(s, cuts, from) - 1 : i \notin cuts
<1> DEFINE T == {to \in cuts \cup {Len(s) + 1} : to > from}
<1>1. Len(s) \in Nat OBVIOUS
<1>2. T \in SUBSET Nat /\ Len(s) + 1 \in T
  <2>1. cuts \subseteq Nat BY <1>1
  <2>2. Len(s) + 1 > from /\ Len(s) + 1 \in Nat BY <1>1
  <2> QED BY <2>1, <2>2
<1>3. Min(T) \in T /\ \A k \in T : Min(T) <= k BY <1>2, MinOfNats
<1>4. NextCut(s, cuts, from) = Min(T) BY DEF NextCut
<1> HIDE DEF NextCut
<1>5. \A i \in from + 1..Min(T) - 1 : i \notin cuts BY <1>1, <1>2, <1>3
<1> QED BY <1>1, <1>2, <1>3, <1>4, <1>5

\* And only there.
LEMMA NextCutIs ==
  ASSUME NEW S, NEW s \in Seq(S), NEW cuts \in SUBSET (1..Len(s)), NEW from \in 0..Len(s),
         NEW to \in cuts \cup {Len(s) + 1}, to > from, \A i \in from + 1..to - 1 : i \notin cuts
  PROVE  NextCut(s, cuts, from) = to
<1>1. Len(s) \in Nat OBVIOUS
<1>2. /\ NextCut(s, cuts, from) \in cuts \cup {Len(s) + 1}
      /\ NextCut(s, cuts, from) \in from + 1..Len(s) + 1
      /\ \A i \in from + 1..NextCut(s, cuts, from) - 1 : i \notin cuts
  BY NextCutFacts
<1>3. to \in from + 1..Len(s) + 1 BY <1>1
<1>4. ~(to < NextCut(s, cuts, from)) BY <1>1, <1>2, <1>3
<1>5. ~(NextCut(s, cuts, from) < to) BY <1>1, <1>2, <1>3
<1> QED BY <1>1, <1>2, <1>3, <1>4, <1>5

----------------------------------------------------------------------------
(* The two scanners, step by step *)

\* The scanner of split_statements, step by step.
LEMMA ScannerSteps ==
  ASSUME NEW S, NEW text \in Seq(S)
  PROVE  /\ StateBefore(text)[1] = Outside
         /\ \A i \in 1..Len(text) : StateBefore(text)[i + 1] = NextState(text, i, StateBefore(text)[i])
<1> DEFINE Fits(g, m) == /\ g[1] = Outside
                         /\ \A i \in 1..m : g[i + 1] = NextState(text, i, g[i])
           T == {m \in Nat : \E g : Fits(g, m)}
<1>1. Len(text) \in Nat OBVIOUS
<1>2. 0 \in T
  <2>1. Fits([i \in {1} |-> Outside], 0) OBVIOUS
  <2> QED BY <2>1
<1>3. ASSUME NEW m \in Nat, m \in T PROVE m + 1 \in T
  <2>1. PICK g : Fits(g, m) BY <1>3
  <2> DEFINE h == [i \in 1..m + 2 |-> IF i = m + 2 THEN NextState(text, m + 1, g[m + 1]) ELSE g[i]]
  <2>2. h[1] = Outside BY <2>1
  <2>3. \A i \in 1..m : h[i + 1] = NextState(text, i, h[i]) BY <2>1
  <2>4. h[m + 2] = NextState(text, m + 1, h[m + 1]) OBVIOUS
  <2> HIDE DEF h
  <2>5. ASSUME NEW i \in 1..m + 1 PROVE h[i + 1] = NextState(text, i, h[i])
    <3>1. i \in 1..m \/ i = m + 1 OBVIOUS
    <3> QED BY <2>3, <2>4, <3>1
  <2> QED BY <2>2, <2>5
<1> HIDE DEF T
<1>4. 0..Len(text) \subseteq T BY <1>1, <1>2, <1>3, Induction
<1>5. PICK g : Fits(g, Len(text)) BY <1>1, <1>4 DEF T
<1> DEFINE h == [i \in 1..Len(text) + 1 |-> g[i]]
           Steps(b) == [i \in 1..Len(text) + 1 |->
                          IF i = 1 THEN Outside ELSE NextState(text, i - 1, b[i - 1])]
<1>6. h = Steps(h)
  <2>1. ASSUME NEW i \in 1..Len(text) + 1 PROVE h[i] = Steps(h)[i] BY <1>1, <1>5
  <2> QED BY <2>1
<1>7. StateBefore(text) = Steps(StateBefore(text))
  <2>1. StateBefore(text) = CHOOSE b : b = Steps(b) BY DEF StateBefore
  <2> QED BY <1>6, <2>1
<1> DEFINE b == StateBefore(text)
<1> HIDE DEF b
<1>8. b = Steps(b) BY <1>7 DEF b
<1>9. b[1] = Outside BY <1>1, <1>8
<1>10. ASSUME NEW i \in 1..Len(text) PROVE b[i + 1] = NextState(text, i, b[i]) BY <1>1, <1>8
<1> QED BY <1>9, <1>10 DEF b

\* The reader of Python's lines, step by step.
LEMMA ReaderSteps ==
  ASSUME NEW S, NEW text \in Seq(S)
  PROVE  /\ StateAfter(text)[0] = Start
         /\ \A i \in 1..Len(text) : StateAfter(text)[i] = Read(text, i, StateAfter(text)[i - 1])
<1> DEFINE Fits(g, m) == /\ g[0] = Start
                         /\ \A i \in 1..m : g[i] = Read(text, i, g[i - 1])
           T == {m \in Nat : \E g : Fits(g, m)}
<1>1. Len(text) \in Nat OBVIOUS
<1>2. 0 \in T
  <2>1. Fits([i \in {0} |-> Start], 0) OBVIOUS
  <2> QED BY <2>1
<1>3. ASSUME NEW m \in Nat, m \in T PROVE m + 1 \in T
  <2>1. PICK g : Fits(g, m) BY <1>3
  <2> DEFINE h == [i \in 0..m + 1 |-> IF i = m + 1 THEN Read(text, m + 1, g[m]) ELSE g[i]]
  <2>2. h[0] = Start BY <2>1
  <2>3. \A i \in 1..m : h[i] = Read(text, i, h[i - 1]) BY <2>1
  <2>4. h[m + 1] = Read(text, m + 1, h[m]) OBVIOUS
  <2> HIDE DEF h
  <2>5. ASSUME NEW i \in 1..m + 1 PROVE h[i] = Read(text, i, h[i - 1])
    <3>1. i \in 1..m \/ i = m + 1 OBVIOUS
    <3> QED BY <2>3, <2>4, <3>1
  <2> QED BY <2>2, <2>5
<1> HIDE DEF T
<1>4. 0..Len(text) \subseteq T BY <1>1, <1>2, <1>3, Induction
<1>5. PICK g : Fits(g, Len(text)) BY <1>1, <1>4 DEF T
<1> DEFINE h == [i \in 0..Len(text) |-> g[i]]
           Steps(r) == [i \in 0..Len(text) |-> IF i = 0 THEN Start ELSE Read(text, i, r[i - 1])]
<1>6. h = Steps(h)
  <2>1. ASSUME NEW i \in 0..Len(text) PROVE h[i] = Steps(h)[i] BY <1>1, <1>5
  <2> QED BY <2>1
<1>7. StateAfter(text) = Steps(StateAfter(text))
  <2>1. StateAfter(text) = CHOOSE r : r = Steps(r) BY DEF StateAfter
  <2> QED BY <1>6, <2>1
<1> DEFINE r == StateAfter(text)
<1> HIDE DEF r
<1>8. r = Steps(r) BY <1>7 DEF r
<1>9. r[0] = Start BY <1>1, <1>8
<1>10. ASSUME NEW i \in 1..Len(text) PROVE r[i] = Read(text, i, r[i - 1]) BY <1>1, <1>8
<1> QED BY <1>9, <1>10 DEF r

----------------------------------------------------------------------------
(* The reader's states *)

\* The symbols a program of symbols of S is read as.
LineSymbols(S) == S \cup {"s", " "}

ReaderStates(S) ==
  [open : Seq(S), comment : BOOLEAN, depth : Nat, lines : Seq(Seq(LineSymbols(S))) \ {<<>>},
   next : Nat, valid : BOOLEAN, plain : BOOLEAN]

\* What two states of the reader share whose lines may differ.
SameButLines(r, t) ==
  /\ r.open = t.open /\ r.comment = t.comment /\ r.depth = t.depth
  /\ r.next = t.next /\ r.valid = t.valid /\ r.plain = t.plain

\* Nothing changes but that the last line gets one more symbol.
Grows(r, t, symbol) ==
  /\ Len(t.lines) = Len(r.lines)
  /\ \A k \in 1..Len(r.lines) - 1 : t.lines[k] = r.lines[k]
  /\ Last(t.lines) = Append(Last(r.lines), symbol)

\* What Put does to the lines.
LEMMA PutFacts ==
  ASSUME NEW S, NEW r \in ReaderStates(S), NEW symbol \in LineSymbols(S)
  PROVE  /\ Put(r, symbol) \in ReaderStates(S)
         /\ SameButLines(r, Put(r, symbol))
         /\ Grows(r, Put(r, symbol), symbol)
<1> DEFINE L == Seq(LineSymbols(S))
           m == Len(r.lines)
           line == Append(r.lines[m], symbol)
           new == [r.lines EXCEPT ![m] = line]
<1>1. r.lines \in Seq(L) /\ m \in Nat \ {0} BY EmptySeq DEF ReaderStates
<1>2. r.lines[m] \in L BY <1>1, ElementOfSeq
<1>3. line \in L BY <1>2, AppendProperties
<1>4. new \in Seq(L) /\ Len(new) = m /\ \A k \in 1..m : new[k] = IF k = m THEN line ELSE r.lines[k]
  BY <1>1, <1>3, ExceptSeq
<1>5. new # <<>> BY <1>1, <1>4
<1>6. Put(r, symbol) = [r EXCEPT !.lines = new] BY DEF Put
<1>7. Put(r, symbol).lines = new BY <1>6 DEF ReaderStates
<1>8. SameButLines(r, Put(r, symbol)) BY <1>6 DEF ReaderStates, SameButLines
<1>9. Put(r, symbol) \in ReaderStates(S)
  <2> HIDE DEF new
  <2> QED BY <1>4, <1>5, <1>6 DEF ReaderStates
<1>10. Grows(r, Put(r, symbol), symbol)
  <2>1. line = Append(Last(r.lines), symbol) BY DEF Last
  <2>5. m = Len(r.lines) OBVIOUS
  <2> HIDE DEF new, line, m
  <2>2. new[Len(new)] = line BY <1>1, <1>4
  <2>3. Last(Put(r, symbol).lines) = line BY <1>7, <2>2 DEF Last
  <2>4. \A k \in 1..m - 1 : new[k] = r.lines[k] BY <1>1, <1>4
  <2> QED BY <1>4, <1>7, <2>1, <2>3, <2>4, <2>5 DEF Grows
<1> QED BY <1>8, <1>9, <1>10

\* A line is ended, or the reader is in brackets.
Ended(r, t) ==
  IF r.depth = 0
  THEN /\ Len(t.lines) = Len(r.lines) + 1
       /\ \A k \in 1..Len(r.lines) : t.lines[k] = r.lines[k]
       /\ Last(t.lines) = <<>>
  ELSE Grows(r, t, " ")

\* What EndLine does to the lines.
LEMMA EndLineFacts ==
  ASSUME NEW S, NEW r \in ReaderStates(S)
  PROVE  /\ EndLine(r) \in ReaderStates(S)
         /\ SameButLines(r, EndLine(r))
         /\ Ended(r, EndLine(r))
<1>1. CASE r.depth # 0
  <2>1. " " \in LineSymbols(S) BY DEF LineSymbols
  <2> QED BY <1>1, <2>1, PutFacts DEF EndLine, Ended
<1>2. CASE r.depth = 0
  <2> DEFINE L == Seq(LineSymbols(S))
             new == Append(r.lines, <<>>)
  <2>1. r.lines \in Seq(L) /\ <<>> \in L BY EmptySeq DEF ReaderStates
  <2>2. /\ new \in Seq(L) /\ new # <<>> /\ Len(new) = Len(r.lines) + 1
        /\ \A k \in 1..Len(r.lines) : new[k] = r.lines[k]
        /\ new[Len(r.lines) + 1] = <<>>
    BY <2>1, AppendProperties
  <2>3. EndLine(r) = [r EXCEPT !.lines = new] BY <1>2 DEF EndLine
  <2> HIDE DEF new
  <2>4. EndLine(r).lines = new BY <2>3 DEF ReaderStates
  <2>5. EndLine(r) \in ReaderStates(S) /\ SameButLines(r, EndLine(r))
    BY <2>2, <2>3 DEF ReaderStates, SameButLines
  <2> QED BY <1>2, <2>2, <2>4, <2>5 DEF Ended, Last
<1> QED BY <1>1, <1>2

----------------------------------------------------------------------------
(* The cases of Read *)

\* Inside a string.
StringStep(text, i, r, t) ==
  /\ r.next <= i /\ r.open # <<>>
  /\ t.lines = r.lines /\ t.depth = r.depth /\ t.comment = r.comment
  /\ \/ /\ text[i] = "\\"
        /\ t.open = r.open /\ t.next = i + 2 /\ t.valid = r.valid
        /\ t.plain = (r.plain /\ Len(r.open) = 1)
     \/ /\ text[i] # "\\" /\ SubSeq(text, i, Min({(i + Len(r.open)) - 1, Len(text)})) = r.open
        /\ t.open = <<>> /\ t.next = i + Len(r.open) /\ t.valid = r.valid /\ t.plain = r.plain
     \/ /\ text[i] # "\\" /\ SubSeq(text, i, Min({(i + Len(r.open)) - 1, Len(text)})) # r.open
        /\ t.open = r.open /\ t.next = r.next /\ t.plain = r.plain
        /\ t.valid = (r.valid /\ (text[i] # "\n" \/ Len(r.open) = 3))

\* Inside a comment.
CommentStep(text, i, r, t) ==
  /\ r.next <= i /\ r.open = <<>> /\ r.comment
  /\ t.open = r.open /\ t.depth = r.depth /\ t.next = r.next /\ t.valid = r.valid
  /\ \/ text[i] = "\n" /\ ~t.comment /\ t.plain = r.plain /\ Ended(r, t)
     \/ /\ text[i] # "\n" /\ t.comment /\ t.lines = r.lines
        /\ t.plain = (r.plain /\ ~(text[i] = "," /\ InImport(r)))

\* The symbols of code that do not become part of the line as they are.
Special == Quotes \cup {"#", "\n", ";", "\\"}

\* Outside strings and comments: a string begins, a comment begins, a line
\* ends, and the line grows by a symbol of the program.
StringOpens(text, i, r, t) ==
  /\ text[i] \in Quotes
  /\ t.open = Opens(text, i) /\ t.next = i + Len(t.open) /\ ~t.comment
  /\ t.depth = r.depth /\ t.valid = r.valid /\ Grows(r, t, "s")
CommentOpens(text, i, r, t) ==
  /\ text[i] = "#" /\ t.comment
  /\ t.open = r.open /\ t.next = r.next
  /\ t.depth = r.depth /\ t.valid = r.valid /\ t.lines = r.lines
LineEnds(text, i, r, t) ==
  /\ text[i] \in {"\n", ";"}
  /\ t.open = r.open /\ t.next = r.next /\ ~t.comment /\ t.depth = r.depth
  /\ t.valid = (r.valid /\ (text[i] = ";" => r.depth = 0)) /\ Ended(r, t)
LineGrows(text, i, r, t) ==
  /\ text[i] \notin Special
  /\ t.open = r.open /\ t.next = r.next /\ ~t.comment /\ Grows(r, t, text[i])
  /\ t.valid = (r.valid /\ (text[i] = ")" => r.depth > 0))
  /\ t.depth = IF text[i] = "(" THEN r.depth + 1
               ELSE IF text[i] = ")" /\ r.depth > 0 THEN r.depth - 1 ELSE r.depth
CodeStep(text, i, r, t) ==
  /\ r.next <= i /\ r.open = <<>> /\ ~r.comment
  /\ t.plain = r.plain
  /\ \/ StringOpens(text, i, r, t) \/ CommentOpens(text, i, r, t)
     \/ LineEnds(text, i, r, t) \/ LineGrows(text, i, r, t)
     \/ text[i] = "\\" /\ ~t.valid

\* The reader in a string.
LEMMA StringCase ==
  ASSUME NEW S, NEW text \in Seq(S), NEW i \in 1..Len(text), NEW r \in ReaderStates(S),
         r.next <= i, r.open # <<>>
  PROVE  /\ Read(text, i, r) \in ReaderStates(S)
         /\ StringStep(text, i, r, Read(text, i, r))
<1> DEFINE m == Len(r.open)
           w == SubSeq(text, i, Min({(i + m) - 1, Len(text)}))
<1>1. r.open \in Seq(S) /\ m \in Nat /\ i \in Nat BY DEF ReaderStates
<1>2. <<>> \in Seq(S) BY EmptySeq
<1>3. Read(text, i, r) = ReadString(text, i, r)
  <2>1. ~(i < r.next) BY <1>1 DEF ReaderStates
  <2> QED BY <2>1 DEF Read
<1>4. CASE text[i] = "\\"
  <2>1. Read(text, i, r) = [r EXCEPT !.next = i + 2, !.plain = @ /\ m = 1]
    BY <1>3, <1>4, Zenon DEF ReadString
  <2>2. Read(text, i, r).plain = (r.plain /\ m = 1) BY <2>1 DEF ReaderStates
  <2>4. i + 2 \in Nat /\ (r.plain /\ m = 1) \in BOOLEAN BY <1>1
  <2>3. Read(text, i, r) \in ReaderStates(S) BY <2>1, <2>4 DEF ReaderStates
  <2> QED BY <1>1, <1>4, <2>1, <2>2, <2>3 DEF ReaderStates, StringStep
<1>5. CASE text[i] # "\\" /\ w = r.open
  <2>1. Read(text, i, r) = [r EXCEPT !.next = i + m, !.open = <<>>]
    BY <1>3, <1>5, Zenon DEF ReadString
  <2>4. i + m \in Nat BY <1>1
  <2>2. Read(text, i, r) \in ReaderStates(S) BY <1>2, <2>1, <2>4 DEF ReaderStates
  <2> HIDE DEF w
  <2>3. /\ Read(text, i, r).open = <<>> /\ Read(text, i, r).next = i + m
        /\ Read(text, i, r).lines = r.lines /\ Read(text, i, r).depth = r.depth
        /\ Read(text, i, r).comment = r.comment
        /\ Read(text, i, r).valid = r.valid /\ Read(text, i, r).plain = r.plain
    BY <2>1 DEF ReaderStates
  <2> QED BY <1>5, <2>2, <2>3, Zenon DEF StringStep, w
<1>6. CASE text[i] # "\\" /\ w # r.open
  <2>1. Read(text, i, r) = [r EXCEPT !.valid = @ /\ (text[i] # "\n" \/ m = 3)]
    BY <1>3, <1>6, Zenon DEF ReadString
  <2> HIDE DEF w
  <2> QED BY <1>1, <1>6, <2>1 DEF ReaderStates, StringStep, w
<1> QED BY <1>4, <1>5, <1>6

\* The reader in a comment.
LEMMA CommentCase ==
  ASSUME NEW S, NEW text \in Seq(S), NEW i \in 1..Len(text), NEW r \in ReaderStates(S),
         r.next <= i, r.open = <<>>, r.comment
  PROVE  /\ Read(text, i, r) \in ReaderStates(S)
         /\ CommentStep(text, i, r, Read(text, i, r))
<1>1. Read(text, i, r) = ReadComment(text, i, r)
  <2>1. ~(i < r.next) BY DEF ReaderStates
  <2> QED BY <2>1 DEF Read
<1>2. CASE text[i] = "\n"
  <2> DEFINE u == [r EXCEPT !.comment = FALSE]
  <2>1. u \in ReaderStates(S) BY DEF ReaderStates
  <2>2. /\ u.lines = r.lines /\ u.open = r.open /\ u.depth = r.depth /\ u.next = r.next
        /\ u.valid = r.valid /\ u.plain = r.plain /\ ~u.comment
    BY DEF ReaderStates
  <2>3. Read(text, i, r) = EndLine(u) BY <1>1, <1>2 DEF ReadComment
  <2> HIDE DEF u
  <2>4. /\ EndLine(u) \in ReaderStates(S)
        /\ SameButLines(u, EndLine(u))
        /\ Ended(u, EndLine(u))
    BY <2>1, EndLineFacts
  <2>5. Ended(r, EndLine(u)) BY <2>2, <2>4 DEF Ended, Grows
  <2> QED BY <1>2, <2>2, <2>3, <2>4, <2>5 DEF SameButLines, CommentStep
<1>3. CASE text[i] # "\n"
  <2>1. Read(text, i, r) = [r EXCEPT !.plain = @ /\ ~(text[i] = "," /\ InImport(r))]
    BY <1>1, <1>3, Zenon DEF ReadComment
  <2>2. Read(text, i, r) \in ReaderStates(S) BY <2>1 DEF ReaderStates
  <2> QED BY <1>3, <2>1, <2>2 DEF ReaderStates, CommentStep
<1> QED BY <1>2, <1>3

\* A string is opened by one quote or by three.
LEMMA OpensFacts ==
  ASSUME NEW S, NEW text \in Seq(S), NEW i \in 1..Len(text)
  PROVE  /\ Opens(text, i) \in Seq(S)
         /\ IF IsTripleQuote(text, i, text[i])
            THEN Opens(text, i) = <<text[i], text[i], text[i]>> ELSE Opens(text, i) = <<text[i]>>
<1>1. text[i] \in S /\ Len(text) \in Nat BY ElementOfSeq
<1>2. CASE IsTripleQuote(text, i, text[i])
  <2>1. i + 2 <= Len(text) /\ \A k \in i..i + 2 : text[k] = text[i] BY <1>2 DEF IsTripleQuote
  <2> DEFINE w == SubSeq(text, i, i + 2)
             t == <<text[i], text[i], text[i]>>
  <2>2. w \in Seq(S) /\ Len(w) = 3 /\ \A k \in 1..3 : w[k] = text[i + k - 1]
    BY <1>1, <2>1, Between
  <2>3. t \in Seq(S) /\ Len(t) = 3 /\ \A k \in 1..3 : t[k] = text[i] BY <1>1
  <2>4. \A k \in 1..3 : text[i + k - 1] = text[i] BY <1>1, <2>1
  <2> HIDE DEF w, t
  <2>5. w = t BY <2>2, <2>3, <2>4, SeqEqual
  <2> QED BY <1>2, <2>2, <2>5 DEF Opens, w, t
<1>3. CASE ~IsTripleQuote(text, i, text[i])
  BY <1>1, <1>3 DEF Opens
<1> QED BY <1>2, <1>3

\* The reader in code.
LEMMA CodeCase ==
  ASSUME NEW S, NEW text \in Seq(S), NEW i \in 1..Len(text), NEW r \in ReaderStates(S),
         r.next <= i, r.open = <<>>, ~r.comment
  PROVE  /\ Read(text, i, r) \in ReaderStates(S)
         /\ CodeStep(text, i, r, Read(text, i, r))
<1> SUFFICES ASSUME NEW t, t = ReadCode(text, i, r)
             PROVE  t \in ReaderStates(S) /\ CodeStep(text, i, r, t)
  <2>1. ~(i < r.next) BY DEF ReaderStates
  <2> QED BY <2>1 DEF Read
<1>1. /\ text[i] \in LineSymbols(S) /\ "s" \in LineSymbols(S)
      /\ i \in Nat /\ r.next \in Nat /\ r.depth \in Nat
  <2>1. text[i] \in S BY ElementOfSeq
  <2>2. text[i] \in LineSymbols(S) /\ "s" \in LineSymbols(S) BY <2>1 DEF LineSymbols
  <2>3. i \in Nat /\ r.next \in Nat /\ r.depth \in Nat BY DEF ReaderStates
  <2> QED BY <2>2, <2>3
<1>2. SUFFICES /\ t \in ReaderStates(S) /\ t.plain = r.plain
               /\ \/ StringOpens(text, i, r, t) \/ CommentOpens(text, i, r, t)
                  \/ LineEnds(text, i, r, t) \/ LineGrows(text, i, r, t)
                  \/ text[i] = "\\" /\ ~t.valid
  BY DEF CodeStep
<1> USE DEF Quotes, Special
<1>3. CASE text[i] \in Quotes
  <2> DEFINE u == Put(r, "s")
             open == Opens(text, i)
  <2>1. u \in ReaderStates(S) /\ SameButLines(r, u) /\ Grows(r, u, "s") BY <1>1, PutFacts
  <2>2. open \in Seq(S) /\ Len(open) \in Nat BY OpensFacts, LenProperties
  <2>3. t = [u EXCEPT !.open = open, !.next = i + Len(open)] BY <1>3, Zenon DEF ReadCode
  <2> HIDE DEF u, open
  <2>4. i + Len(open) \in Nat BY <1>1, <2>2
  <2>5. /\ t \in ReaderStates(S) /\ t.open = open /\ t.next = i + Len(open)
        /\ t.lines = u.lines /\ t.comment = u.comment /\ t.depth = u.depth
        /\ t.valid = u.valid /\ t.plain = u.plain
    BY <2>1, <2>2, <2>3, <2>4 DEF ReaderStates
  <2>6. Grows(r, t, "s") BY <2>1, <2>5 DEF Grows
  <2> QED BY <1>3, <2>1, <2>5, <2>6 DEF SameButLines, StringOpens, open
<1>4. CASE text[i] = "#"
  <2>1. t = [r EXCEPT !.comment = TRUE] BY <1>4 DEF ReadCode
  <2> QED BY <1>4, <2>1 DEF ReaderStates, CommentOpens
<1>5. CASE text[i] = "("
  <2> DEFINE u == Put(r, "(")
  <2>1. u \in ReaderStates(S) /\ SameButLines(r, u) /\ Grows(r, u, text[i])
    BY <1>1, <1>5, PutFacts
  <2>2. t = [u EXCEPT !.depth = u.depth + 1] BY <1>5 DEF ReadCode
  <2> HIDE DEF u
  <2>3. u.depth \in Nat BY <2>1 DEF ReaderStates
  <2>4. u.depth + 1 \in Nat BY <2>3
  <2>5. /\ t \in ReaderStates(S) /\ t.depth = u.depth + 1
        /\ t.lines = u.lines /\ t.comment = u.comment /\ t.open = u.open /\ t.next = u.next
        /\ t.valid = u.valid /\ t.plain = u.plain
    BY <2>1, <2>2, <2>4 DEF ReaderStates
  <2>6. Grows(r, t, text[i]) BY <2>1, <2>5 DEF Grows
  <2>7. t.valid = (r.valid /\ (text[i] = ")" => r.depth > 0))
    BY <1>5, <2>1, <2>5 DEF SameButLines, ReaderStates
  <2> QED BY <1>5, <2>1, <2>5, <2>6, <2>7 DEF SameButLines, LineGrows
<1>6. CASE text[i] = ")"
  <2> DEFINE u == Put(r, ")")
             d == Max({u.depth - 1, 0})
  <2>1. u \in ReaderStates(S) /\ SameButLines(r, u) /\ Grows(r, u, text[i])
    BY <1>1, <1>6, PutFacts
  <2>2. t = [u EXCEPT !.depth = d, !.valid = @ /\ r.depth > 0] BY <1>6, Zenon DEF ReadCode
  <2> HIDE DEF u
  <2>3. u.depth \in Nat BY <2>1 DEF ReaderStates
  <2>4. d = IF u.depth > 0 THEN u.depth - 1 ELSE 0 BY <2>3 DEF Max
  <2> HIDE DEF d
  <2>5. d \in Nat BY <2>3, <2>4
  <2>6. (u.valid /\ r.depth > 0) \in BOOLEAN OBVIOUS
  <2>7. /\ t \in ReaderStates(S) /\ t.depth = d /\ t.valid = (u.valid /\ r.depth > 0)
        /\ t.lines = u.lines /\ t.comment = u.comment /\ t.open = u.open /\ t.next = u.next
        /\ t.plain = u.plain
    BY <2>1, <2>2, <2>5, <2>6 DEF ReaderStates
  <2>8. Grows(r, t, text[i]) BY <2>1, <2>7 DEF Grows
  <2>9. t.depth = IF r.depth > 0 THEN r.depth - 1 ELSE r.depth
    BY <1>1, <2>1, <2>4, <2>7 DEF SameButLines
  <2> QED BY <1>6, <2>1, <2>7, <2>8, <2>9 DEF SameButLines, LineGrows
<1>7. CASE text[i] = "\n"
  <2>1. t = EndLine(r) BY <1>7 DEF ReadCode
  <2>2. t \in ReaderStates(S) /\ SameButLines(r, t) /\ Ended(r, t) BY <2>1, EndLineFacts
  <2>3. t.valid = (r.valid /\ (text[i] = ";" => r.depth = 0)) BY <1>7, <2>2 DEF SameButLines, ReaderStates
  <2> QED BY <1>7, <2>2, <2>3 DEF SameButLines, LineEnds
<1>8. CASE text[i] = ";"
  <2> DEFINE u == EndLine(r)
  <2>1. u \in ReaderStates(S) /\ SameButLines(r, u) /\ Ended(r, u) BY EndLineFacts
  <2>2. t = [u EXCEPT !.valid = @ /\ r.depth = 0] BY <1>8 DEF ReadCode
  <2> HIDE DEF u
  <2>3. /\ t \in ReaderStates(S) /\ t.valid = (u.valid /\ r.depth = 0)
        /\ t.lines = u.lines /\ t.comment = u.comment /\ t.open = u.open /\ t.next = u.next
        /\ t.plain = u.plain /\ t.depth = u.depth
    BY <2>1, <2>2 DEF ReaderStates
  <2>4. Ended(r, t) BY <2>1, <2>3 DEF Ended, Grows
  <2> QED BY <1>8, <2>1, <2>3, <2>4 DEF SameButLines, LineEnds
<1>9. CASE text[i] = "\\"
  <2>1. t = [r EXCEPT !.valid = FALSE] BY <1>9 DEF ReadCode
  <2> QED BY <1>9, <2>1 DEF ReaderStates
<1>10. CASE text[i] \notin Special /\ text[i] \notin {"(", ")"}
  <2>1. t = Put(r, text[i]) BY <1>10 DEF ReadCode
  <2>2. t \in ReaderStates(S) /\ SameButLines(r, t) /\ Grows(r, t, text[i])
    BY <1>1, <2>1, PutFacts
  <2>3. t.valid = (r.valid /\ (text[i] = ")" => r.depth > 0))
    BY <1>10, <2>2 DEF SameButLines, ReaderStates
  <2> QED BY <1>10, <2>2, <2>3 DEF SameButLines, LineGrows
<1> QED BY <1>3, <1>4, <1>5, <1>6, <1>7, <1>8, <1>9, <1>10

\* Reading one symbol.
ReadStep(text, i, r, t) ==
  \/ i < r.next /\ t = r
  \/ StringStep(text, i, r, t)
  \/ CommentStep(text, i, r, t)
  \/ CodeStep(text, i, r, t)

\* The states of the reader are well-formed and it takes the steps above.
LEMMA Reading ==
  ASSUME NEW S, NEW text \in Seq(S)
  PROVE  /\ \A i \in 0..Len(text) : StateAfter(text)[i] \in ReaderStates(S)
         /\ \A i \in 1..Len(text) : ReadStep(text, i, StateAfter(text)[i - 1], StateAfter(text)[i])
<1> DEFINE R == StateAfter(text)
           T == {i \in Nat : R[i] \in ReaderStates(S)}
<1>1. R[0] = Start /\ \A i \in 1..Len(text) : R[i] = Read(text, i, R[i - 1]) BY ReaderSteps
<1> HIDE DEF R
<1>2. Len(text) \in Nat OBVIOUS
<1>3. 0 \in T
  <2>1. <<>> \in Seq(S) /\ <<>> \in Seq(LineSymbols(S)) BY EmptySeq
  <2>2. <<<<>>>> \in Seq(Seq(LineSymbols(S))) /\ <<<<>>>> # <<>> BY <2>1
  <2>3. Start \in ReaderStates(S) BY <2>1, <2>2 DEF Start, ReaderStates
  <2> QED BY <1>1, <2>3
<1>4. ASSUME NEW i \in 1..Len(text), R[i - 1] \in ReaderStates(S)
      PROVE  R[i] \in ReaderStates(S) /\ ReadStep(text, i, R[i - 1], R[i])
  <2> DEFINE r == R[i - 1]
  <2>1. R[i] = Read(text, i, r) /\ r \in ReaderStates(S) BY <1>1, <1>4
  <2>2. r.next \in Nat /\ i \in Nat BY <1>4 DEF ReaderStates
  <2> HIDE DEF r
  <2>3. CASE i < r.next BY <2>1, <2>3 DEF Read, ReadStep, r
  <2>4. CASE r.next <= i /\ r.open # <<>> BY <2>1, <2>4, StringCase DEF ReadStep, r
  <2>5. CASE r.next <= i /\ r.open = <<>> /\ r.comment BY <2>1, <2>5, CommentCase DEF ReadStep, r
  <2>6. CASE r.next <= i /\ r.open = <<>> /\ ~r.comment BY <2>1, <2>6, CodeCase DEF ReadStep, r
  <2> QED BY <2>2, <2>3, <2>4, <2>5, <2>6
<1>5. ASSUME NEW i \in Nat, 0 <= i, i < Len(text), i \in T PROVE i + 1 \in T
  <2>1. i + 1 \in 1..Len(text) /\ (i + 1) - 1 = i BY <1>2, <1>5
  <2> QED BY <1>4, <1>5, <2>1
<1> HIDE DEF T
<1>6. 0..Len(text) \subseteq T BY <1>2, <1>3, <1>5, Induction
<1>7. \A i \in 0..Len(text) : R[i] \in ReaderStates(S) BY <1>6 DEF T
<1>8. ASSUME NEW i \in 1..Len(text) PROVE ReadStep(text, i, R[i - 1], R[i])
  <2>1. i - 1 \in 0..Len(text) BY <1>2
  <2> QED BY <1>4, <1>7, <2>1
<1> QED BY <1>7, <1>8 DEF R

\* What made the program not valid or not plain is not undone.
LEMMA NoReturn ==
  ASSUME NEW S, NEW text \in Seq(S), NEW i \in 0..Len(text), NEW j \in i..Len(text)
  PROVE  /\ StateAfter(text)[j].valid => StateAfter(text)[i].valid
         /\ StateAfter(text)[j].plain => StateAfter(text)[i].plain
<1> DEFINE R == StateAfter(text)
           T == {k \in Nat : (R[k].valid => R[i].valid) /\ (R[k].plain => R[i].plain)}
<1>1. /\ \A k \in 0..Len(text) : R[k] \in ReaderStates(S)
      /\ \A k \in 1..Len(text) : ReadStep(text, k, R[k - 1], R[k])
  BY Reading
<1> HIDE DEF R
<1>2. Len(text) \in Nat /\ i \in T /\ i \in Nat OBVIOUS
<1>3. ASSUME NEW k \in Nat, i <= k, k < Len(text), k \in T PROVE k + 1 \in T
  <2>1. /\ k + 1 \in 1..Len(text) /\ (k + 1) - 1 = k
        /\ k \in 0..Len(text) /\ k + 1 \in 0..Len(text)
    BY <1>2, <1>3
  <2>2. R[k] \in ReaderStates(S) /\ R[k + 1] \in ReaderStates(S) /\ ReadStep(text, k + 1, R[k], R[k + 1])
    BY <1>1, <2>1
  <2>3. (R[k + 1].valid => R[k].valid) /\ (R[k + 1].plain => R[k].plain)
    BY <2>2 DEF ReadStep, StringStep, CommentStep, CodeStep, StringOpens, CommentOpens, LineEnds, LineGrows,
                ReaderStates
  <2> QED BY <1>3, <2>3
<1> HIDE DEF T
<1>4. i..Len(text) \subseteq T BY <1>2, <1>3, Induction
<1> QED BY <1>4 DEF T, R

\* A step is the one that the state calls for.
LEMMA StepOf ==
  ASSUME NEW S, NEW text, NEW i \in Nat, NEW r \in ReaderStates(S), NEW t, ReadStep(text, i, r, t)
  PROVE  /\ i < r.next => t = r
         /\ r.next <= i /\ r.open # <<>> => StringStep(text, i, r, t)
         /\ r.next <= i /\ r.open = <<>> /\ r.comment => CommentStep(text, i, r, t)
         /\ r.next <= i /\ r.open = <<>> /\ ~r.comment => CodeStep(text, i, r, t)
<1>1. StringStep(text, i, r, t) => r.next <= i /\ r.open # <<>> BY Zenon DEF StringStep
<1>2. CommentStep(text, i, r, t) => r.next <= i /\ r.open = <<>> /\ r.comment BY Zenon DEF CommentStep
<1>3. CodeStep(text, i, r, t) => r.next <= i /\ r.open = <<>> /\ ~r.comment BY Zenon DEF CodeStep
<1>4. r.next \in Nat BY DEF ReaderStates
<1> QED BY <1>1, <1>2, <1>3, <1>4 DEF ReadStep

----------------------------------------------------------------------------
(* The scanner keeps in step with the reader *)

ScannerStates(S) ==
  [in : {"code", "comment", "string"}, quote : S \cup {""}, triple : BOOLEAN, escaped : BOOLEAN, skip : Nat]

\* The scanner still passes over what the reader has read ahead.
Waits(i, b, r) == b.skip = IF r.next > i + 1 THEN r.next - (i + 1) ELSE 0

\* What the scanner knows before it looks at symbol i + 1 and what the reader
\* knows after i symbols.
AgreeInCode(i, b, r) ==
  b.in = "code" /\ r.open = <<>> /\ ~r.comment /\ ~b.escaped /\ Waits(i, b, r)
AgreeInComment(i, b, r) ==
  b.in = "comment" /\ r.open = <<>> /\ r.comment /\ b.skip = 0 /\ r.next <= i + 1
AgreeInShort(i, b, r) ==
  /\ b.in = "string" /\ b.quote \in Quotes /\ ~b.triple
  /\ r.open = <<b.quote>> /\ ~r.comment /\ b.skip = 0
  /\ IF b.escaped THEN r.next = i + 2 ELSE r.next <= i + 1
AgreeInTriple(i, b, r) ==
  /\ b.in = "string" /\ b.quote \in Quotes /\ b.triple /\ ~b.escaped
  /\ r.open = <<b.quote, b.quote, b.quote>> /\ ~r.comment /\ Waits(i, b, r)
Agree(i, b, r) ==
  \/ AgreeInCode(i, b, r) \/ AgreeInComment(i, b, r)
  \/ AgreeInShort(i, b, r) \/ AgreeInTriple(i, b, r)

\* The states of the scanner and of the reader that agree are of four kinds.
LEMMA AgreeCases ==
  ASSUME NEW i, NEW b, NEW r, Agree(i, b, r)
  PROVE  /\ b.in = "code" => AgreeInCode(i, b, r)
         /\ b.in = "comment" => AgreeInComment(i, b, r)
         /\ b.in = "string" /\ ~b.triple => AgreeInShort(i, b, r)
         /\ b.in = "string" /\ b.triple => AgreeInTriple(i, b, r)
BY DEF Agree, AgreeInCode, AgreeInComment, AgreeInShort, AgreeInTriple

\* Inside a triple quote that opens or closes, both only pass on.
LEMMA Skips ==
  ASSUME NEW S, NEW text, NEW i \in Nat \ {0}, NEW b \in ScannerStates(S),
         NEW r \in ReaderStates(S), NEW t, ReadStep(text, i, r, t), Agree(i - 1, b, r), b.skip > 0
  PROVE  /\ NextState(text, i, b) \in ScannerStates(S)
         /\ Agree(i, NextState(text, i, b), t)
         /\ t = r /\ i < r.next
<1>1. r.next \in Nat /\ b.skip \in Nat BY DEF ReaderStates, ScannerStates
<1>2. b.skip > 0 /\ Waits(i - 1, b, r) => b.skip = r.next - i /\ r.next > i BY <1>1 DEF Waits
<1>3. AgreeInCode(i - 1, b, r) \/ AgreeInTriple(i - 1, b, r)
  BY DEF Agree, AgreeInComment, AgreeInShort
<1>4. i < r.next /\ b.skip = r.next - i BY <1>1, <1>2, <1>3 DEF AgreeInCode, AgreeInTriple
<1>5. t = r BY <1>4, StepOf
<1>6. NextState(text, i, b) = [b EXCEPT !.skip = b.skip - 1] BY DEF NextState
<1>7. b.skip - 1 \in Nat BY <1>1
<1> DEFINE c == NextState(text, i, b)
<1> HIDE DEF c
<1>8. /\ c \in ScannerStates(S) /\ c.skip = b.skip - 1 /\ c.in = b.in
      /\ c.quote = b.quote /\ c.triple = b.triple /\ c.escaped = b.escaped
  BY <1>6, <1>7 DEF ScannerStates, c
<1>9. Waits(i, c, r) BY <1>1, <1>4, <1>8 DEF Waits
<1>10. AgreeInCode(i, c, r) \/ AgreeInTriple(i, c, r)
  BY <1>3, <1>8, <1>9 DEF AgreeInCode, AgreeInTriple
<1> QED BY <1>4, <1>5, <1>8, <1>10 DEF Agree, AgreeInCode, AgreeInComment, AgreeInShort, AgreeInTriple, c

\* If scanner and reader agree before a symbol, they agree after it.
LEMMA InStep ==
  ASSUME NEW S, NEW text \in Seq(S), NEW i \in 1..Len(text), NEW b \in ScannerStates(S),
         NEW r \in ReaderStates(S), NEW t \in ReaderStates(S), ReadStep(text, i, r, t),
         Agree(i - 1, b, r), t.valid, t.plain
  PROVE  /\ NextState(text, i, b) \in ScannerStates(S)
         /\ Agree(i, NextState(text, i, b), t)
<1> DEFINE c == NextState(text, i, b)
<1>1. i \in Nat \ {0} /\ r.next \in Nat /\ Len(text) \in Nat /\ text[i] \in S
  BY ElementOfSeq, SMTT(30) DEF ReaderStates
<1>2. Outside \in ScannerStates(S) BY DEF Outside, ScannerStates
<1>3. CASE b.skip > 0 BY <1>1, <1>3, Skips
<1>4. CASE b.skip = 0 /\ b.in = "code"
  <2>1. r.next <= i /\ r.open = <<>> /\ ~r.comment /\ ~b.escaped
    BY <1>1, <1>4, AgreeCases DEF AgreeInCode, Waits
  <2>2. CodeStep(text, i, r, t) BY <1>1, <2>1, StepOf
  <2>3. c = InCode(text, i, b) BY <1>4 DEF NextState
  <2> HIDE DEF c
  <2>4. CASE text[i] \in Quotes
    <3> DEFINE triple == IsTripleQuote(text, i, text[i])
    <3>1. /\ text[i] # "#" /\ text[i] \notin {"\n", ";", "\\"} /\ text[i] \in Special
      BY <2>4 DEF Quotes, Special
    <3>2. StringOpens(text, i, r, t)
      BY <2>2, <3>1 DEF CodeStep, CommentOpens, LineEnds, LineGrows
    <3>3. c = [b EXCEPT !.in = "string", !.quote = text[i], !.triple = triple,
                        !.skip = IF triple THEN 2 ELSE 0]
      BY <2>3, <2>4, <3>1, Zenon DEF InCode
    <3>4. triple \in BOOLEAN BY DEF IsTripleQuote
    <3>5. IF triple THEN t.open = <<text[i], text[i], text[i]>> ELSE t.open = <<text[i]>>
      BY <3>2, OpensFacts DEF StringOpens
    <3>6. t.next = i + (IF triple THEN 3 ELSE 1) BY <3>2, <3>5 DEF StringOpens
    <3>7. ~t.comment BY <3>2 DEF StringOpens
    <3> HIDE DEF triple
    <3>8. /\ c \in ScannerStates(S) /\ c.in = "string" /\ c.quote = text[i] /\ c.triple = triple
          /\ c.skip = (IF triple THEN 2 ELSE 0) /\ c.escaped = b.escaped
      BY <1>1, <3>3, <3>4 DEF ScannerStates
    <3>9. CASE triple
      <4>1. Waits(i, c, t) BY <1>1, <3>6, <3>8, <3>9 DEF Waits
      <4> QED BY <2>1, <2>4, <3>5, <3>7, <3>8, <3>9, <4>1
          DEF Agree, AgreeInCode, AgreeInComment, AgreeInShort, AgreeInTriple, c
    <3>10. CASE ~triple
      <4>1. c.skip = 0 /\ t.next <= i + 1 BY <1>1, <3>6, <3>8, <3>10
      <4> QED BY <2>1, <2>4, <3>5, <3>7, <3>8, <3>10, <4>1
          DEF Agree, AgreeInCode, AgreeInComment, AgreeInShort, AgreeInTriple, c
    <3> QED BY <3>9, <3>10
  <2>5. CASE text[i] = "#"
    <3>1. text[i] \notin Quotes /\ text[i] \notin {"\n", ";", "\\"} /\ text[i] \in Special
      BY <2>5 DEF Quotes, Special
    <3>2. CommentOpens(text, i, r, t)
      BY <2>2, <3>1 DEF CodeStep, StringOpens, LineEnds, LineGrows
    <3>3. c = [b EXCEPT !.in = "comment"] BY <2>3, <2>5, <3>1 DEF InCode
    <3>4. c \in ScannerStates(S) /\ c.in = "comment" /\ c.skip = 0
      BY <1>4, <3>3 DEF ScannerStates
    <3> QED BY <1>1, <2>1, <3>2, <3>4 DEF Agree, AgreeInComment, CommentOpens, c
  <2>6. CASE text[i] \notin Quotes /\ text[i] # "#"
    <3>1. c = b BY <2>3, <2>6 DEF InCode
    <3>2. LineEnds(text, i, r, t) \/ LineGrows(text, i, r, t)
      BY <2>2, <2>6 DEF CodeStep, StringOpens, CommentOpens
    <3>4. t.open = r.open /\ t.next = r.next /\ ~t.comment
      BY <3>2, Zenon DEF LineEnds, LineGrows
    <3>3. Waits(i, b, t) BY <1>1, <1>4, <2>1, <3>4 DEF Waits
    <3> QED BY <1>4, <2>1, <3>1, <3>4, <3>3 DEF Agree, AgreeInCode, c
  <2> QED BY <2>4, <2>5, <2>6
<1>5. CASE b.skip = 0 /\ b.in = "comment"
  <2>1. r.next <= i /\ r.open = <<>> /\ r.comment BY <1>1, <1>5, AgreeCases DEF AgreeInComment
  <2>2. CommentStep(text, i, r, t) BY <1>1, <2>1, StepOf
  <2>3. c = IF text[i] = "\n" THEN Outside ELSE b BY <1>5 DEF NextState
  <2>4. c \in ScannerStates(S) BY <1>2, <2>3
  <2>5. t.open = <<>> /\ t.next <= i BY <2>1, <2>2 DEF CommentStep
  <2>6. CASE text[i] = "\n"
    <3>1. c = Outside /\ ~t.comment BY <2>2, <2>3, <2>6 DEF CommentStep
    <3> HIDE DEF c
    <3>2. c.in = "code" /\ ~c.escaped /\ c.skip = 0 BY <3>1 DEF Outside
    <3> QED BY <1>1, <2>4, <2>5, <3>1, <3>2 DEF Agree, AgreeInCode, Waits, c, ReaderStates
  <2>7. CASE text[i] # "\n"
    <3>1. c = b /\ t.comment BY <2>2, <2>3, <2>7 DEF CommentStep
    <3> HIDE DEF c
    <3> QED BY <1>1, <1>5, <2>4, <2>5, <3>1 DEF Agree, AgreeInComment, c, ReaderStates
  <2> QED BY <2>6, <2>7
<1>6. CASE b.skip = 0 /\ b.in = "string" /\ ~b.triple
  <2>1. /\ r.open = <<b.quote>> /\ ~r.comment /\ b.quote \in Quotes /\ Len(r.open) = 1 /\ r.open # <<>>
        /\ IF b.escaped THEN r.next = i + 1 ELSE r.next <= i
    <3>1. AgreeInShort(i - 1, b, r) BY <1>6, AgreeCases
    <3>2. (i - 1) + 1 = i /\ (i - 1) + 2 = i + 1 BY <1>1
    <3>3. /\ r.open = <<b.quote>> /\ ~r.comment /\ b.quote \in Quotes
          /\ IF b.escaped THEN r.next = i + 1 ELSE r.next <= i
      BY <3>1, <3>2, Zenon DEF AgreeInShort
    <3>4. Len(<<b.quote>>) = 1 OBVIOUS
    <3>5. r.open # <<>> /\ Len(r.open) = 1 BY <3>3, <3>4
    <3> QED BY <3>3, <3>5
  <2>2. c = InString(text, i, b) BY <1>6 DEF NextState
  <2>3. CASE b.escaped
    <3>1. t = r BY <1>1, <2>1, <2>3, StepOf
    <3>2. c = [b EXCEPT !.escaped = FALSE] BY <1>6, <2>2, <2>3 DEF InString
    <3> HIDE DEF c
    <3>3. /\ c \in ScannerStates(S) /\ ~c.escaped /\ c.in = "string" /\ c.quote = b.quote
          /\ ~c.triple /\ c.skip = 0
      BY <1>6, <3>2 DEF ScannerStates
    <3> QED BY <1>1, <2>1, <2>3, <3>1, <3>3
        DEF Agree, AgreeInCode, AgreeInComment, AgreeInShort, AgreeInTriple, c
  <2>4. CASE ~b.escaped
    <3>1. StringStep(text, i, r, t)
      BY <1>1, <2>1, <2>4, StepOf
    <3>2. SubSeq(text, i, Min({(i + Len(r.open)) - 1, Len(text)})) = <<text[i]>>
      <4>1. (i + Len(r.open)) - 1 = i BY <1>1, <2>1
      <4>2. Min({i, Len(text)}) = i BY <1>1 DEF Min
      <4>3. SubSeq(text, i, i) \in Seq(S) /\ Len(SubSeq(text, i, i)) = 1 /\ SubSeq(text, i, i)[1] = text[i]
        BY <1>1, Between
      <4>5. <<text[i]>> \in Seq(S) /\ Len(<<text[i]>>) = 1 /\ <<text[i]>>[1] = text[i] BY <1>1
      <4>4. SubSeq(text, i, i) = <<text[i]>>
        <5> DEFINE w == SubSeq(text, i, i)
                   v == <<text[i]>>
        <5>1. w \in Seq(S) /\ v \in Seq(S) /\ Len(w) = 1 /\ Len(v) = 1 /\ w[1] = v[1] BY <4>3, <4>5
        <5> HIDE DEF w, v
        <5>2. \A k \in 1..Len(w) : w[k] = v[k] BY <5>1
        <5>3. w = v BY <5>1, <5>2, SeqEqual
        <5> QED BY <5>3 DEF w, v
      <4> QED BY <4>1, <4>2, <4>4
    <3>3. (<<text[i]>> = r.open) <=> text[i] = b.quote BY <2>1
    <3>4. b.quote # "\\" BY <2>1 DEF Quotes
    <3>5. c = IF text[i] = b.quote THEN Outside ELSE [b EXCEPT !.escaped = (text[i] = "\\")]
      BY <1>6, <2>2, <2>4, Zenon DEF InString
    <3> HIDE DEF c
    <3>6. CASE text[i] = b.quote
      <4>1. c = Outside BY <3>5, <3>6
      <4>2. c.in = "code" /\ ~c.escaped /\ c.skip = 0 BY <4>1 DEF Outside
      <4>3. t.open = <<>> /\ ~t.comment /\ t.next = i + 1
        BY <2>1, <3>1, <3>2, <3>3, <3>4, <3>6 DEF StringStep
      <4>4. Waits(i, c, t) BY <1>1, <4>2, <4>3 DEF Waits
      <4> QED BY <1>2, <4>1, <4>2, <4>3, <4>4
          DEF Agree, AgreeInCode, AgreeInComment, AgreeInShort, AgreeInTriple, c
    <3>7. CASE text[i] # b.quote
      <4>1. c = [b EXCEPT !.escaped = (text[i] = "\\")] BY <3>5, <3>7
      <4>2. (text[i] = "\\") \in BOOLEAN OBVIOUS
      <4>3. /\ c \in ScannerStates(S) /\ c.escaped = (text[i] = "\\") /\ c.in = "string"
            /\ c.quote = b.quote /\ ~c.triple /\ c.skip = 0
        BY <1>6, <4>1, <4>2 DEF ScannerStates
      <4>4. /\ t.open = r.open /\ ~t.comment
            /\ t.next = IF text[i] = "\\" THEN i + 2 ELSE r.next
        BY <2>1, <3>1, <3>2, <3>3, <3>7 DEF StringStep
      <4>6. c.escaped <=> text[i] = "\\" BY <4>3
      <4>7. r.next <= i + 1 BY <1>1, <2>1, <2>4
      <4>5. IF c.escaped THEN t.next = i + 2 ELSE t.next <= i + 1 BY <4>4, <4>6, <4>7, Zenon
      <4> QED BY <2>1, <4>3, <4>4, <4>5 DEF Agree, AgreeInCode, AgreeInComment, AgreeInShort, AgreeInTriple, c
    <3> QED BY <3>6, <3>7
  <2> QED BY <2>3, <2>4
<1>7. CASE b.skip = 0 /\ b.in = "string" /\ b.triple
  <2> DEFINE q == b.quote
  <2>1. /\ r.open = <<q, q, q>> /\ ~r.comment /\ q \in Quotes /\ Len(r.open) = 3 /\ r.open # <<>>
        /\ r.next <= i /\ ~b.escaped
    <3>1. AgreeInTriple(i - 1, b, r) BY <1>7, AgreeCases
    <3>2. /\ r.open = <<q, q, q>> /\ ~r.comment /\ q \in Quotes /\ ~b.escaped
          /\ Waits(i - 1, b, r)
      BY <3>1, Zenon DEF AgreeInTriple
    <3>3. Len(<<q, q, q>>) = 3 OBVIOUS
    <3>4. r.open # <<>> /\ Len(r.open) = 3 BY <3>2, <3>3
    <3>5. r.next <= i BY <1>1, <1>7, <3>2 DEF Waits
    <3> QED BY <3>2, <3>4, <3>5
  <2>2. c = IF IsTripleQuote(text, i, q) THEN [Outside EXCEPT !.skip = 2] ELSE b
    <3>1. c = InString(text, i, b) BY <1>7 DEF NextState
    <3> QED BY <1>7, <3>1 DEF InString
  <2>3. StringStep(text, i, r, t) BY <1>1, <2>1, StepOf
  <2>4. text[i] # "\\"
    <3>1. text[i] = "\\" => t.plain = (r.plain /\ Len(r.open) = 1) BY <2>3, Zenon DEF StringStep
    <3>2. Len(r.open) # 1 BY <2>1
    <3> QED BY <3>1, <3>2
  <2>5. (SubSeq(text, i, Min({(i + Len(r.open)) - 1, Len(text)})) = r.open) <=> IsTripleQuote(text, i, q)
    <3> DEFINE m == Min({i + 2, Len(text)})
               w == SubSeq(text, i, m)
    <3>1. (i + Len(r.open)) - 1 = i + 2 BY <1>1, <2>1
    <3>2. m = IF i + 2 <= Len(text) THEN i + 2 ELSE Len(text) BY <1>1 DEF Min
    <3>3. m \in 0..Len(text) /\ m >= i BY <1>1, <3>2
    <3> HIDE DEF m
    <3>4. w \in Seq(S) /\ Len(w) = (m - i) + 1 /\ \A k \in 1..(m - i) + 1 : w[k] = text[(i + k) - 1]
      <4>1. i \in 1..Len(text) + 1 BY <1>1
      <4> QED BY <1>1, <3>3, <4>1, Between
    <3> HIDE DEF w
    <3>5. CASE i + 2 <= Len(text)
      <4>1. m = i + 2 BY <3>2, <3>5
      <4>2. /\ Len(w) = 3 /\ w[1] = text[i] /\ w[2] = text[i + 1] /\ w[3] = text[i + 2]
        BY <1>1, <3>4, <4>1, SMTT(30)
      <4>3. IsTripleQuote(text, i, q) <=> text[i] = q /\ text[i + 1] = q /\ text[i + 2] = q
        <5>1. i..i + 2 = {i, i + 1, i + 2} BY <1>1
        <5> QED BY <3>5, <5>1 DEF IsTripleQuote
      <4>4. w = r.open <=> \A k \in 1..3 : w[k] = r.open[k]
        <5>1. w \in Seq(S) /\ r.open \in Seq(S) BY <3>4 DEF ReaderStates
        <5>2. Len(w) = Len(r.open) /\ Len(w) = 3 BY <2>1, <4>2
        <5>3. ASSUME \A k \in 1..3 : w[k] = r.open[k] PROVE w = r.open
          <6>1. \A k \in 1..Len(w) : w[k] = r.open[k] BY <5>2, <5>3
          <6> QED BY <5>1, <5>2, <6>1, SeqEqual
        <5> QED BY <5>3
      <4>5. (\A k \in 1..3 : w[k] = r.open[k]) <=> w[1] = q /\ w[2] = q /\ w[3] = q
        <5>1. 1..3 = {1, 2, 3} OBVIOUS
        <5> QED BY <2>1, <5>1
      <4> QED BY <3>1, <4>2, <4>3, <4>4, <4>5 DEF w, m
    <3>6. CASE ~(i + 2 <= Len(text))
      <4>1. Len(w) # 3 BY <1>1, <3>2, <3>4, <3>6
      <4>2. w # r.open BY <2>1, <4>1
      <4> QED BY <3>1, <3>6, <4>2 DEF IsTripleQuote, w, m
    <3> QED BY <3>5, <3>6
  <2> HIDE DEF c
  <2>6. CASE IsTripleQuote(text, i, q)
    <3>1. c = [Outside EXCEPT !.skip = 2] BY <2>2, <2>6
    <3>2. c \in ScannerStates(S) /\ c.in = "code" /\ ~c.escaped /\ c.skip = 2
      BY <3>1 DEF Outside, ScannerStates
    <3>3. t.open = <<>> /\ ~t.comment /\ t.next = i + 3
      BY <2>1, <2>3, <2>4, <2>5, <2>6 DEF StringStep
    <3>4. Waits(i, c, t) BY <1>1, <3>2, <3>3 DEF Waits
    <3> QED BY <3>2, <3>3, <3>4 DEF Agree, AgreeInCode, AgreeInComment, AgreeInShort, AgreeInTriple, c
  <2>7. CASE ~IsTripleQuote(text, i, q)
    <3>1. c = b BY <2>2, <2>7
    <3>2. t.open = r.open /\ ~t.comment /\ t.next = r.next
      BY <2>1, <2>3, <2>4, <2>5, <2>7 DEF StringStep
    <3>3. Waits(i, c, t) BY <1>1, <1>7, <2>1, <3>1, <3>2 DEF Waits
    <3> QED BY <1>7, <2>1, <3>1, <3>2, <3>3
        DEF Agree, AgreeInCode, AgreeInComment, AgreeInShort, AgreeInTriple, c
  <2> QED BY <2>6, <2>7
<1>8. b.skip \in Nat /\ b.in \in {"code", "comment", "string"} BY DEF ScannerStates
<1>9. b.skip > 0 \/ b.skip = 0 BY <1>8
<1> QED BY <1>3, <1>4, <1>5, <1>6, <1>7, <1>8, <1>9, Zenon

\* The program closes nothing it should not have, and is plain.
Sound(text) == Lexed(text).valid /\ Lexed(text).plain

\* A program that is sound at its end has been sound all along.
LEMMA SoundAlways ==
  ASSUME NEW S, NEW text \in Seq(S), Sound(text)
  PROVE  \A i \in 0..Len(text) : StateAfter(text)[i].valid /\ StateAfter(text)[i].plain
<1> SUFFICES ASSUME NEW i \in 0..Len(text)
             PROVE  StateAfter(text)[i].valid /\ StateAfter(text)[i].plain
  OBVIOUS
<1>1. Len(text) \in Nat /\ Len(text) \in i..Len(text) OBVIOUS
<1> QED BY <1>1, NoReturn DEF Sound, Lexed

\* Scanner and reader agree everywhere in a sound program.
LEMMA Synchronised ==
  ASSUME NEW S, NEW text \in Seq(S), Sound(text)
  PROVE  \A i \in 0..Len(text) :
           /\ StateBefore(text)[i + 1] \in ScannerStates(S)
           /\ Agree(i, StateBefore(text)[i + 1], StateAfter(text)[i])
<1> DEFINE R == StateAfter(text)
           B == StateBefore(text)
           T == {i \in Nat : B[i + 1] \in ScannerStates(S) /\ Agree(i, B[i + 1], R[i])}
<1>1. Len(text) \in Nat OBVIOUS
<1>2. 0 \in T
  <2>1. R[0] = Start /\ B[0 + 1] = Outside BY ReaderSteps, ScannerSteps
  <2>2. Outside \in ScannerStates(S) BY DEF Outside, ScannerStates
  <2>3. Agree(0, Outside, Start) BY DEF Agree, AgreeInCode, Waits, Outside, Start
  <2> HIDE DEF R, B
  <2> QED BY <2>1, <2>2, <2>3
<1>3. ASSUME NEW i \in Nat, 0 <= i, i < Len(text), i \in T PROVE i + 1 \in T
  <2> DEFINE j == i + 1
  <2>1. j \in 1..Len(text) /\ j - 1 = i /\ j \in 0..Len(text) /\ i \in 0..Len(text) BY <1>1, <1>3
  <2>2. R[i] \in ReaderStates(S) /\ R[j] \in ReaderStates(S) BY <2>1, Reading
  <2>3. ReadStep(text, j, R[j - 1], R[j]) BY <2>1, Reading
  <2>4. R[j].valid /\ R[j].plain BY <2>1, SoundAlways
  <2>5. B[j + 1] = NextState(text, j, B[j]) BY <2>1, ScannerSteps
  <2>6. B[j] \in ScannerStates(S) /\ Agree(j - 1, B[j], R[i]) BY <1>3, <2>1
  <2> HIDE DEF R, B, j
  <2>7. /\ NextState(text, j, B[j]) \in ScannerStates(S)
        /\ Agree(j, NextState(text, j, B[j]), R[j])
    BY <2>1, <2>2, <2>3, <2>4, <2>6, InStep
  <2> QED BY <2>1, <2>5, <2>7 DEF j
<1> HIDE DEF T
<1>4. 0..Len(text) \subseteq T BY <1>1, <1>2, <1>3, Induction
<1> QED BY <1>4 DEF T

\* Where the scanner ends a statement.
Cuts(text) ==
  {i \in 1..Len(text) :
     /\ StateBefore(text)[i].skip = 0
     /\ \/ StateBefore(text)[i].in = "code" /\ text[i] \in {";", "\n"}
        \/ StateBefore(text)[i].in = "comment" /\ text[i] = "\n"}

\* It is where the reader ends a line, if it is not in brackets.
LEMMA CutsAreEnds ==
  ASSUME NEW S, NEW text \in Seq(S), Sound(text), NEW i \in 1..Len(text)
  PROVE  LET r == StateAfter(text)[i - 1]
         IN i \in Cuts(text) <=>
              r.next <= i /\ r.open = <<>> /\ (text[i] = "\n" \/ (~r.comment /\ text[i] = ";"))
<1> DEFINE r == StateAfter(text)[i - 1]
           b == StateBefore(text)[i]
<1>1. i - 1 \in 0..Len(text) /\ (i - 1) + 1 = i /\ i \in Nat OBVIOUS
<1>2. b \in ScannerStates(S) /\ Agree(i - 1, b, r) BY <1>1, Synchronised
<1>3. r \in ReaderStates(S) BY <1>1, Reading
<1>4. i \in Cuts(text) <=> /\ b.skip = 0
                           /\ \/ b.in = "code" /\ text[i] \in {";", "\n"}
                              \/ b.in = "comment" /\ text[i] = "\n"
  BY DEF Cuts
<1> HIDE DEF r, b
<1>5. r.next \in Nat BY <1>3 DEF ReaderStates
<1>6. CASE b.in = "code"
  <2>1. r.open = <<>> /\ ~r.comment /\ Waits(i - 1, b, r) BY <1>2, <1>6, AgreeCases DEF AgreeInCode
  <2>2. b.skip = 0 <=> r.next <= i BY <1>1, <1>5, <2>1 DEF Waits
  <2>3. i \in Cuts(text) <=> r.next <= i /\ r.open = <<>> /\ (text[i] = "\n" \/ (~r.comment /\ text[i] = ";"))
    BY <1>4, <1>6, <2>1, <2>2
  <2> QED BY <2>3 DEF r
<1>7. CASE b.in = "comment"
  <2>1. r.open = <<>> /\ r.comment /\ b.skip = 0 /\ r.next <= i
    BY <1>1, <1>2, <1>7, AgreeCases DEF AgreeInComment
  <2>2. i \in Cuts(text) <=> r.next <= i /\ r.open = <<>> /\ (text[i] = "\n" \/ (~r.comment /\ text[i] = ";"))
    BY <1>4, <1>7, <2>1
  <2> QED BY <2>2 DEF r
<1>8. CASE b.in = "string"
  <2>1. r.open = <<b.quote>> \/ r.open = <<b.quote, b.quote, b.quote>>
    BY <1>2, <1>8 DEF Agree, AgreeInCode, AgreeInComment, AgreeInShort, AgreeInTriple
  <2>2. r.open # <<>>
    <3>1. <<b.quote>> # <<>> OBVIOUS
    <3>2. <<b.quote, b.quote, b.quote>> # <<>> OBVIOUS
    <3> QED BY <2>1, <3>1, <3>2, Zenon
  <2>3. i \in Cuts(text) <=> r.next <= i /\ r.open = <<>> /\ (text[i] = "\n" \/ (~r.comment /\ text[i] = ";"))
    BY <1>4, <1>8, <2>2
  <2> QED BY <2>3 DEF r
<1> QED BY <1>2, <1>6, <1>7, <1>8 DEF ScannerStates

----------------------------------------------------------------------------
(* How the lines of a program come about *)

Begins(s, t) == Len(s) <= Len(t) /\ \A p \in 1..Len(s) : t[p] = s[p]

\* Lines are only added, and only the last one changes.
Extends(r, t) ==
  /\ Len(r.lines) <= Len(t.lines)
  /\ \A n \in 1..Len(r.lines) : Begins(r.lines[n], t.lines[n])
  /\ \A n \in 1..Len(r.lines) - 1 : t.lines[n] = r.lines[n]

\* At a cut the reader ends a line or adds a space to it, elsewhere it leaves
\* the number of lines alone.
LEMMA CutStep ==
  ASSUME NEW S, NEW text \in Seq(S), Sound(text), NEW i \in Cuts(text)
  PROVE  LET r == StateAfter(text)[i - 1]
             t == StateAfter(text)[i]
         IN /\ t.open = <<>> /\ ~t.comment /\ t.next <= i + 1 /\ t.depth = r.depth
            /\ Ended(r, t)
            /\ text[i] \in {"\n", ";"} /\ (text[i] = ";" => r.depth = 0)
<1> SUFFICES ASSUME NEW r, r = StateAfter(text)[i - 1], NEW t, t = StateAfter(text)[i]
             PROVE  /\ t.open = <<>> /\ ~t.comment /\ t.next <= i + 1 /\ t.depth = r.depth
                    /\ Ended(r, t)
                    /\ text[i] \in {"\n", ";"} /\ (text[i] = ";" => r.depth = 0)
  OBVIOUS
<1>1. i \in 1..Len(text) BY DEF Cuts
<1>2. i \in Nat /\ i - 1 \in 0..Len(text) /\ i \in 0..Len(text) BY <1>1
<1>3. r \in ReaderStates(S) /\ t \in ReaderStates(S) /\ ReadStep(text, i, r, t) BY <1>1, <1>2, Reading
<1>4. r.next <= i /\ r.open = <<>> /\ (text[i] = "\n" \/ (~r.comment /\ text[i] = ";"))
  BY <1>1, CutsAreEnds
<1>5. t.valid BY <1>2, SoundAlways
<1>6. r.next \in Nat /\ t.next \in Nat BY <1>3 DEF ReaderStates
<1>7. CASE r.comment
  <2>1. CommentStep(text, i, r, t) BY <1>2, <1>3, <1>4, <1>7, StepOf
  <2>2. text[i] = "\n" BY <1>4, <1>7
  <2> QED BY <1>2, <1>4, <1>6, <2>1, <2>2 DEF CommentStep
<1>8. CASE ~r.comment
  <2>1. CodeStep(text, i, r, t)
    <3>1. r.next <= i /\ r.open = <<>> BY <1>4
    <3> QED BY <1>2, <1>3, <1>8, <3>1, StepOf
  <2>2. text[i] \in Special /\ text[i] \notin Quotes /\ text[i] # "#" /\ text[i] # "\\"
    BY <1>4 DEF Special, Quotes
  <2>3. LineEnds(text, i, r, t) BY <2>1, <2>2 DEF CodeStep, StringOpens, CommentOpens, LineGrows
  <2>4. text[i] = ";" => r.depth = 0 BY <1>5, <2>3, Zenon DEF LineEnds
  <2>5. /\ t.open = r.open /\ t.next = r.next /\ ~t.comment /\ t.depth = r.depth /\ Ended(r, t)
        /\ text[i] \in {"\n", ";"}
    BY <2>3, Zenon DEF LineEnds
  <2>6. t.next <= i + 1
    <3>1. t.next = r.next /\ r.next <= i BY <1>4, <2>5, Zenon
    <3> QED BY <1>2, <1>6, <3>1
  <2> QED BY <1>4, <2>4, <2>5, <2>6, Zenon
<1> QED BY <1>7, <1>8

\* What the reader does with a symbol at which there is no cut.
LEMMA OtherStep ==
  ASSUME NEW S, NEW text \in Seq(S), Sound(text), NEW i \in 1..Len(text), i \notin Cuts(text)
  PROVE  LET r == StateAfter(text)[i - 1]
             t == StateAfter(text)[i]
         IN \/ t.lines = r.lines /\ t.depth = r.depth
            \/ \E symbol \in S \cup {"s"} :
                 Grows(r, t, symbol) /\ (t.depth > 0 => r.depth > 0 \/ symbol = "(")
<1> SUFFICES ASSUME NEW r, r = StateAfter(text)[i - 1], NEW t, t = StateAfter(text)[i]
             PROVE  \/ t.lines = r.lines /\ t.depth = r.depth
                    \/ \E symbol \in S \cup {"s"} :
                         Grows(r, t, symbol) /\ (t.depth > 0 => r.depth > 0 \/ symbol = "(")
  OBVIOUS
<1>2. i \in Nat /\ i - 1 \in 0..Len(text) /\ i \in 0..Len(text) OBVIOUS
<1>3. r \in ReaderStates(S) /\ t \in ReaderStates(S) /\ ReadStep(text, i, r, t) BY <1>2, Reading
<1>4. ~(r.next <= i /\ r.open = <<>> /\ (text[i] = "\n" \/ (~r.comment /\ text[i] = ";")))
  BY CutsAreEnds
<1>5. t.valid BY <1>2, SoundAlways
<1>6. text[i] \in S BY ElementOfSeq
<1>7. CASE i < r.next /\ t = r BY <1>7
<1>8. CASE StringStep(text, i, r, t) BY <1>8, Zenon DEF StringStep
<1>9. CASE CommentStep(text, i, r, t)
  <2>1. text[i] # "\n" BY <1>4, <1>9, Zenon DEF CommentStep
  <2> QED BY <1>9, <2>1, Zenon DEF CommentStep
<1>10. CASE CodeStep(text, i, r, t)
  <2>1. r.next <= i /\ r.open = <<>> /\ ~r.comment BY <1>10, Zenon DEF CodeStep
  <2>2. ~LineEnds(text, i, r, t) BY <1>4, <2>1 DEF LineEnds
  <2>3. StringOpens(text, i, r, t) \/ CommentOpens(text, i, r, t) \/ LineGrows(text, i, r, t)
    BY <1>5, <1>10, <2>2, Zenon DEF CodeStep
  <2>4. StringOpens(text, i, r, t) => Grows(r, t, "s") /\ t.depth = r.depth BY Zenon DEF StringOpens
  <2>5. CommentOpens(text, i, r, t) => t.lines = r.lines /\ t.depth = r.depth BY Zenon DEF CommentOpens
  <2>6. LineGrows(text, i, r, t) =>
          Grows(r, t, text[i]) /\ (t.depth > 0 => r.depth > 0 \/ text[i] = "(")
    BY Zenon DEF LineGrows
  <2> QED BY <1>6, <2>3, <2>4, <2>5, <2>6
<1> QED BY <1>3, <1>7, <1>8, <1>9, <1>10 DEF ReadStep

\* A line that grows extends the lines.
LEMMA GrowsExtends ==
  ASSUME NEW S, NEW r \in ReaderStates(S), NEW t \in ReaderStates(S), NEW symbol,
         Grows(r, t, symbol)
  PROVE  Extends(r, t)
<1> DEFINE m == Len(r.lines)
<1>1. m \in Nat \ {0} /\ r.lines \in Seq(Seq(LineSymbols(S))) BY EmptySeq DEF ReaderStates
<1>2. Last(r.lines) = r.lines[m] /\ Last(t.lines) = t.lines[m] /\ Len(t.lines) = m BY DEF Grows, Last
<1>3. r.lines[m] \in Seq(LineSymbols(S)) BY <1>1, ElementOfSeq
<1>4. t.lines[m] = Append(r.lines[m], symbol) BY <1>2 DEF Grows
<1>5. Begins(r.lines[m], t.lines[m]) BY <1>3, <1>4 DEF Begins
<1>6. ASSUME NEW n \in 1..m PROVE Begins(r.lines[n], t.lines[n])
  <2>1. CASE n = m BY <1>5, <2>1
  <2>2. CASE n # m
    <3>1. n \in 1..m - 1 BY <1>1, <2>2
    <3>2. t.lines[n] = r.lines[n] BY <3>1 DEF Grows
    <3>3. r.lines[n] \in Seq(LineSymbols(S)) BY <1>1, ElementOfSeq
    <3> QED BY <3>2, <3>3 DEF Begins
  <2> QED BY <2>1, <2>2
<1> QED BY <1>1, <1>2, <1>6 DEF Extends, Grows

\* Every step extends the lines.
LEMMA StepExtends ==
  ASSUME NEW S, NEW text \in Seq(S), Sound(text), NEW i \in 1..Len(text)
  PROVE  Extends(StateAfter(text)[i - 1], StateAfter(text)[i])
<1> SUFFICES ASSUME NEW r, r = StateAfter(text)[i - 1], NEW t, t = StateAfter(text)[i]
             PROVE  Extends(r, t)
  OBVIOUS
<1>1. i - 1 \in 0..Len(text) /\ i \in 0..Len(text) OBVIOUS
<1>2. r \in ReaderStates(S) /\ t \in ReaderStates(S) BY <1>1, Reading
<1>3. r.lines \in Seq(Seq(LineSymbols(S))) /\ Len(r.lines) \in Nat BY <1>2 DEF ReaderStates
<1>4. \A n \in 1..Len(r.lines) : Begins(r.lines[n], r.lines[n])
  <2> SUFFICES ASSUME NEW n \in 1..Len(r.lines) PROVE Begins(r.lines[n], r.lines[n]) OBVIOUS
  <2>1. r.lines[n] \in Seq(LineSymbols(S)) BY <1>3, ElementOfSeq
  <2> QED BY <2>1 DEF Begins
<1>5. CASE t.lines = r.lines BY <1>3, <1>4, <1>5 DEF Extends
<1>6. CASE Ended(r, t) /\ r.depth = 0
  <2>1. Len(t.lines) = Len(r.lines) + 1 /\ \A k \in 1..Len(r.lines) : t.lines[k] = r.lines[k]
    BY <1>6 DEF Ended
  <2> QED BY <1>3, <1>4, <2>1, SMTT(30) DEF Extends
<1>7. CASE Ended(r, t) /\ r.depth # 0
  <2>1. Grows(r, t, " ") BY <1>7 DEF Ended
  <2> QED BY <1>2, <2>1, GrowsExtends
<1>8. CASE \E symbol \in S \cup {"s"} : Grows(r, t, symbol) BY <1>2, <1>8, GrowsExtends
<1>9. CASE i \in Cuts(text)
  <2>1. Ended(r, t) BY <1>9, CutStep
  <2> QED BY <1>6, <1>7, <2>1
<1>10. CASE i \notin Cuts(text) BY <1>5, <1>8, <1>10, OtherStep
<1> QED BY <1>9, <1>10

\* So do two in a row.
LEMMA ExtendsTransitive ==
  ASSUME NEW S, NEW r \in ReaderStates(S), NEW u \in ReaderStates(S), NEW t \in ReaderStates(S),
         Extends(r, u), Extends(u, t)
  PROVE  Extends(r, t)
<1> DEFINE L == Seq(LineSymbols(S))
<1>1. /\ r.lines \in Seq(L) /\ u.lines \in Seq(L) /\ t.lines \in Seq(L)
      /\ Len(r.lines) \in Nat /\ Len(u.lines) \in Nat /\ Len(t.lines) \in Nat
  BY SMTT(30) DEF ReaderStates
<1> HIDE DEF L
<1>2. Len(r.lines) <= Len(u.lines) /\ Len(u.lines) <= Len(t.lines) BY DEF Extends
<1>3. ASSUME NEW n \in 1..Len(r.lines) PROVE Begins(r.lines[n], t.lines[n])
  <2>1. n \in 1..Len(u.lines) /\ n \in 1..Len(t.lines) BY <1>1, <1>2
  <2>2. r.lines[n] \in L /\ u.lines[n] \in L /\ t.lines[n] \in L BY <1>1, <2>1, ElementOfSeq
  <2>3. Begins(r.lines[n], u.lines[n]) /\ Begins(u.lines[n], t.lines[n]) BY <2>1 DEF Extends
  <2>4. Len(r.lines[n]) \in Nat /\ Len(u.lines[n]) \in Nat /\ Len(t.lines[n]) \in Nat
    BY <2>2, SMTT(30) DEF L
  <2> QED BY <2>3, <2>4, SMTT(30) DEF Begins
<1>4. ASSUME NEW n \in 1..Len(r.lines) - 1 PROVE t.lines[n] = r.lines[n]
  <2>1. n \in 1..Len(u.lines) - 1 BY <1>1, <1>2
  <2> QED BY <2>1 DEF Extends
<1> QED BY <1>1, <1>2, <1>3, <1>4 DEF Extends

\* And any number of them.
LEMMA LinesExtend ==
  ASSUME NEW S, NEW text \in Seq(S), Sound(text), NEW i \in 0..Len(text), NEW j \in i..Len(text)
  PROVE  Extends(StateAfter(text)[i], StateAfter(text)[j])
<1> DEFINE R == StateAfter(text)
           T == {k \in Nat : k <= Len(text) /\ Extends(R[i], R[k])}
<1>1. Len(text) \in Nat /\ i \in Nat /\ i <= Len(text) /\ j \in Nat OBVIOUS
<1>2. \A k \in 0..Len(text) : R[k] \in ReaderStates(S) BY Reading
<1>3. i \in T
  <2>1. R[i] \in ReaderStates(S) BY <1>2
  <2> HIDE DEF R
  <2>2. R[i].lines \in Seq(Seq(LineSymbols(S))) BY <2>1 DEF ReaderStates
  <2>3. \A n \in 1..Len(R[i].lines) : Begins(R[i].lines[n], R[i].lines[n])
    <3> SUFFICES ASSUME NEW n \in 1..Len(R[i].lines) PROVE Begins(R[i].lines[n], R[i].lines[n]) OBVIOUS
    <3>1. R[i].lines[n] \in Seq(LineSymbols(S)) BY <2>2, ElementOfSeq
    <3> QED BY <3>1 DEF Begins
  <2>4. Extends(R[i], R[i]) BY <2>2, <2>3 DEF Extends
  <2> QED BY <1>1, <2>4
<1>4. ASSUME NEW k \in Nat, i <= k, k < Len(text), k \in T PROVE k + 1 \in T
  <2>1. k + 1 \in 1..Len(text) /\ (k + 1) - 1 = k BY <1>1, <1>4
  <2>2. Extends(R[k], R[k + 1]) BY <2>1, StepExtends
  <2>3. R[i] \in ReaderStates(S) /\ R[k] \in ReaderStates(S) /\ R[k + 1] \in ReaderStates(S)
    <3>1. k \in 0..Len(text) /\ k + 1 \in 0..Len(text) BY <1>1, <1>4
    <3> QED BY <1>2, <3>1
  <2> HIDE DEF R
  <2>4. Extends(R[i], R[k + 1]) BY <1>4, <2>2, <2>3, ExtendsTransitive
  <2> QED BY <1>1, <1>4, <2>4
<1> HIDE DEF T
<1>5. i..Len(text) \subseteq T BY <1>1, <1>3, <1>4, Induction
<1> QED BY <1>5 DEF T

HasBracket(line) == \E p \in 1..Len(line) : line[p] = "("

\* There always is a last line.
LEMMA LastLine ==
  ASSUME NEW S, NEW r \in ReaderStates(S)
  PROVE  /\ Len(r.lines) \in Nat \ {0}
         /\ Last(r.lines) \in Seq(LineSymbols(S))
         /\ Last(r.lines) = r.lines[Len(r.lines)]
<1>1. r.lines \in Seq(Seq(LineSymbols(S))) /\ r.lines # <<>> BY DEF ReaderStates
<1>2. Len(r.lines) \in Nat \ {0} BY <1>1, EmptySeq
<1>3. r.lines[Len(r.lines)] \in Seq(LineSymbols(S)) BY <1>1, <1>2, ElementOfSeq
<1> QED BY <1>2, <1>3 DEF Last

\* A line keeps its brackets.
LEMMA GrowsKeepsBracket ==
  ASSUME NEW S, NEW r \in ReaderStates(S), NEW t, NEW symbol, Grows(r, t, symbol),
         HasBracket(Last(r.lines)) \/ symbol = "("
  PROVE  HasBracket(Last(t.lines))
<1> DEFINE l == Last(r.lines)
           m == Last(t.lines)
<1>1. l \in Seq(LineSymbols(S)) BY LastLine
<1>2. m = Append(l, symbol) BY DEF Grows
<1> HIDE DEF l, m
<1>3. Len(l) \in Nat /\ Len(m) = Len(l) + 1 /\ m[Len(l) + 1] = symbol
      /\ \A p \in 1..Len(l) : m[p] = l[p]
  BY <1>1, <1>2
<1>4. CASE HasBracket(l)
  <2>1. PICK p \in 1..Len(l) : l[p] = "(" BY <1>4 DEF HasBracket
  <2>2. p \in 1..Len(m) /\ m[p] = "(" BY <1>3, <2>1
  <2> QED BY <2>2 DEF HasBracket, m
<1>5. CASE symbol = "("
  <2>1. Len(l) + 1 \in 1..Len(m) /\ m[Len(l) + 1] = "(" BY <1>3, <1>5
  <2> QED BY <2>1 DEF HasBracket, m
<1> QED BY <1>4, <1>5 DEF l

\* The line the reader is in has the bracket that is open.
LEMMA Bracketed ==
  ASSUME NEW S, NEW text \in Seq(S), Sound(text)
  PROVE  \A i \in 0..Len(text) :
           StateAfter(text)[i].depth > 0 => HasBracket(Last(StateAfter(text)[i].lines))
<1> DEFINE R == StateAfter(text)
           T == {i \in Nat : R[i].depth > 0 => HasBracket(Last(R[i].lines))}
<1>1. Len(text) \in Nat OBVIOUS
<1>2. 0 \in T
  <2>1. R[0] = Start BY ReaderSteps
  <2>2. ~(Start.depth > 0) BY DEF Start
  <2> HIDE DEF R
  <2> QED BY <2>1, <2>2
<1>3. ASSUME NEW k \in Nat, 0 <= k, k < Len(text), k \in T PROVE k + 1 \in T
  <2>1. /\ k + 1 \in 1..Len(text) /\ (k + 1) - 1 = k
        /\ k \in 0..Len(text) /\ k + 1 \in 0..Len(text)
    BY <1>1, <1>3
  <2> DEFINE r == R[k]
             t == R[k + 1]
  <2>2. r \in ReaderStates(S) /\ t \in ReaderStates(S) BY <2>1, Reading
  <2>3. r.depth > 0 => HasBracket(Last(r.lines)) BY <1>3
  <2>4. SUFFICES ASSUME t.depth > 0 PROVE HasBracket(Last(t.lines)) OBVIOUS
  <2>5. CASE k + 1 \in Cuts(text)
    <3>1. t.depth = r.depth /\ Ended(r, t) BY <2>1, <2>5, CutStep
    <3> HIDE DEF r, t
    <3>2. r.depth > 0 /\ r.depth # 0 BY <2>2, <2>4, <3>1 DEF ReaderStates
    <3>3. Grows(r, t, " ") BY <3>1, <3>2 DEF Ended
    <3> QED BY <2>2, <2>3, <3>2, <3>3, GrowsKeepsBracket
  <2>6. CASE k + 1 \notin Cuts(text)
    <3>1. \/ t.lines = r.lines /\ t.depth = r.depth
          \/ \E symbol \in S \cup {"s"} :
               Grows(r, t, symbol) /\ (t.depth > 0 => r.depth > 0 \/ symbol = "(")
      BY <2>1, <2>6, OtherStep
    <3> HIDE DEF r, t
    <3>2. CASE t.lines = r.lines /\ t.depth = r.depth BY <2>3, <2>4, <3>2
    <3>3. ASSUME NEW symbol \in S \cup {"s"}, Grows(r, t, symbol), r.depth > 0 \/ symbol = "("
          PROVE  HasBracket(Last(t.lines))
      BY <2>2, <2>3, <3>3, GrowsKeepsBracket
    <3> QED BY <2>4, <3>1, <3>2, <3>3
  <2> QED BY <2>5, <2>6
<1> HIDE DEF T
<1>4. 0..Len(text) \subseteq T BY <1>1, <1>2, <1>3, Induction
<1> QED BY <1>4 DEF T

----------------------------------------------------------------------------
(* Where a line begins *)

LineStart(text, f) == f = 0 \/ (f \in Cuts(text) /\ StateAfter(text)[f].depth = 0)

\* What the reader knows where a line starts.
LEMMA AtLineStart ==
  ASSUME NEW S, NEW text \in Seq(S), Sound(text), NEW f \in 0..Len(text), LineStart(text, f)
  PROVE  LET r == StateAfter(text)[f]
         IN r.open = <<>> /\ ~r.comment /\ r.next <= f + 1 /\ r.depth = 0 /\ Last(r.lines) = <<>>
<1>1. CASE f = 0
  <2>1. StateAfter(text)[0] = Start BY ReaderSteps
  <2>2. Last(Start.lines) = <<>> BY DEF Start, Last
  <2>3. Start.open = <<>> /\ ~Start.comment /\ Start.next = 1 /\ Start.depth = 0 BY DEF Start
  <2> QED BY <1>1, <2>1, <2>2, <2>3
<1>2. CASE f \in Cuts(text) /\ StateAfter(text)[f].depth = 0
  <2> DEFINE r == StateAfter(text)[f - 1]
             t == StateAfter(text)[f]
  <2>1. t.open = <<>> /\ ~t.comment /\ t.next <= f + 1 /\ t.depth = r.depth /\ Ended(r, t)
    BY <1>2, CutStep
  <2>2. t.depth = 0 BY <1>2
  <2> HIDE DEF r, t
  <2>3. Last(t.lines) = <<>> BY <2>1, <2>2 DEF Ended
  <2> QED BY <2>1, <2>2, <2>3 DEF t
<1> QED BY <1>1, <1>2 DEF LineStart

\* Every line of the program starts somewhere.
LEMMA EveryLineStarts ==
  ASSUME NEW S, NEW text \in Seq(S), Sound(text), NEW n \in 1..Len(Lexed(text).lines)
  PROVE  \E f \in 0..Len(text) : LineStart(text, f) /\ Len(StateAfter(text)[f].lines) = n
<1> DEFINE R == StateAfter(text)
           Started(k, m) == \E f \in 0..k : LineStart(text, f) /\ Len(R[f].lines) = m
           T == {k \in Nat : \A m \in 1..Len(R[k].lines) : Started(k, m)}
<1>1. Len(text) \in Nat OBVIOUS
<1>2. 0 \in T
  <2>1. R[0] = Start BY ReaderSteps
  <2>2. Len(Start.lines) = 1 BY DEF Start
  <2>3. LineStart(text, 0) BY DEF LineStart
  <2> HIDE DEF R
  <2>4. Len(R[0].lines) = 1 BY <2>1, <2>2
  <2>5. ASSUME NEW m \in 1..Len(R[0].lines) PROVE Started(0, m)
    <3>1. m = 1 BY <2>4, <2>5
    <3> QED BY <2>3, <2>4, <3>1
  <2> QED BY <2>5
<1>3. ASSUME NEW k \in Nat, 0 <= k, k < Len(text), k \in T PROVE k + 1 \in T
  <2>1. /\ k + 1 \in 1..Len(text) /\ (k + 1) - 1 = k
        /\ k \in 0..Len(text) /\ k + 1 \in 0..Len(text)
    BY <1>1, <1>3
  <2>2. R[k] \in ReaderStates(S) /\ R[k + 1] \in ReaderStates(S) BY <2>1, Reading
  <2>3. Len(R[k].lines) \in Nat /\ Len(R[k + 1].lines) \in Nat
    BY <2>2, LastLine
  <2>4. SUFFICES ASSUME NEW m \in 1..Len(R[k + 1].lines) PROVE Started(k + 1, m)
    BY <1>3
  <2>5. CASE m \in 1..Len(R[k].lines)
    <3>1. PICK f \in 0..k : LineStart(text, f) /\ Len(R[f].lines) = m BY <1>3, <2>5
    <3>2. f \in 0..k + 1 BY <1>3
    <3> QED BY <3>1, <3>2
  <2>6. CASE Len(R[k + 1].lines) = Len(R[k].lines) BY <2>5, <2>6
  <2>10. k + 1 \in Cuts(text) => R[k + 1].depth = R[k].depth /\ Ended(R[k], R[k + 1])
    <3> SUFFICES ASSUME k + 1 \in Cuts(text)
                 PROVE  R[k + 1].depth = R[k].depth /\ Ended(R[k], R[k + 1])
      OBVIOUS
    <3> QED BY <2>1, CutStep
  <2>7. CASE k + 1 \in Cuts(text) /\ R[k + 1].depth = 0
    <3>1. R[k + 1].depth = R[k].depth /\ Ended(R[k], R[k + 1]) BY <2>10, <2>7
    <3>2. LineStart(text, k + 1) BY <2>7 DEF LineStart
    <3> HIDE DEF R
    <3>3. Len(R[k + 1].lines) = Len(R[k].lines) + 1 BY <2>7, <3>1 DEF Ended
    <3>4. m \in 1..Len(R[k].lines) \/ m = Len(R[k + 1].lines) BY <2>3, <3>3, SMTT(30)
    <3>5. k + 1 \in 0..k + 1 BY <1>3
    <3> QED BY <2>5, <3>2, <3>4, <3>5
  <2>8. CASE k + 1 \in Cuts(text) /\ R[k + 1].depth # 0
    <3>1. R[k + 1].depth = R[k].depth /\ Ended(R[k], R[k + 1]) BY <2>10, <2>8
    <3> HIDE DEF R
    <3>2. Len(R[k + 1].lines) = Len(R[k].lines) BY <2>8, <3>1 DEF Ended, Grows
    <3> QED BY <2>6, <3>2
  <2>9. CASE k + 1 \notin Cuts(text)
    <3>1. \/ R[k + 1].lines = R[k].lines
          \/ \E symbol \in S \cup {"s"} : Grows(R[k], R[k + 1], symbol)
      BY <2>1, <2>9, OtherStep
    <3> HIDE DEF R
    <3>2. Len(R[k + 1].lines) = Len(R[k].lines) BY <3>1 DEF Grows
    <3> QED BY <2>6, <3>2
  <2> QED BY <2>7, <2>8, <2>9
<1> HIDE DEF T
<1>4. 0..Len(text) \subseteq T BY <1>1, <1>2, <1>3, Induction
<1>5. Len(text) \in T BY <1>1, <1>4
<1> QED BY <1>1, <1>5 DEF T, Lexed

\* A line that has become the new one with the symbols f + 1 to i of text.
GrownBy(line, new, text, f, i) ==
  /\ Len(new) = Len(line) + (i - f)
  /\ \A p \in 1..Len(line) : new[p] = line[p]
  /\ \A p \in 1..i - f : new[Len(line) + p] = text[f + p]

\* As long as no symbol is special the line grows by what the program has.
LEMMA CodeRun ==
  ASSUME NEW S, NEW text \in Seq(S), Sound(text), NEW f \in 0..Len(text), NEW i \in f..Len(text),
         StateAfter(text)[f].open = <<>>, ~StateAfter(text)[f].comment,
         StateAfter(text)[f].next <= f + 1, \A p \in f + 1..i : text[p] \notin Special
  PROVE  LET r == StateAfter(text)[i]
         IN /\ r.open = <<>> /\ ~r.comment /\ r.next <= i + 1
            /\ Len(r.lines) = Len(StateAfter(text)[f].lines)
            /\ GrownBy(Last(StateAfter(text)[f].lines), Last(r.lines), text, f, i)
<1> DEFINE R == StateAfter(text)
           line == Last(R[f].lines)
           m == Len(line)
           Grown(l, d) == /\ Len(l) = m + d
                          /\ \A p \in 1..m : l[p] = line[p]
                          /\ \A p \in 1..d : l[m + p] = text[f + p]
           Holds(k) == /\ R[k].open = <<>> /\ ~R[k].comment /\ R[k].next <= k + 1
                       /\ Len(R[k].lines) = Len(R[f].lines)
                       /\ Grown(Last(R[k].lines), k - f)
           T == {k \in Nat : Holds(k)}
<1>1. Len(text) \in Nat /\ f \in Nat /\ i \in Nat /\ f <= i /\ i <= Len(text) OBVIOUS
<1>2. m \in Nat
  <2>1. R[f] \in ReaderStates(S) BY <1>1, Reading
  <2> HIDE DEF R
  <2>2. line \in Seq(LineSymbols(S)) BY <2>1, LastLine
  <2> QED BY <2>2
<1>3. f \in T
  <2>1. Grown(line, 0) BY <1>2
  <2>2. f - f = 0 BY <1>1
  <2> HIDE DEF Grown
  <2> QED BY <1>1, <2>1, <2>2
<1>4. ASSUME NEW k \in Nat, f <= k, k < i, k \in T PROVE k + 1 \in T
  <2> DEFINE r == R[k]
             t == R[k + 1]
             x == text[k + 1]
  <2>1. /\ k + 1 \in 1..Len(text) /\ (k + 1) - 1 = k /\ k + 1 \in f + 1..i
        /\ k \in 0..Len(text) /\ k + 1 \in 0..Len(text)
    BY <1>1, <1>4, SMTT(30)
  <2>2. r \in ReaderStates(S) /\ t \in ReaderStates(S) /\ ReadStep(text, k + 1, r, t) BY <2>1, Reading
  <2>3. /\ r.open = <<>> /\ ~r.comment /\ r.next <= k + 1
        /\ Len(r.lines) = Len(R[f].lines) /\ Grown(Last(r.lines), k - f)
    BY <1>4
  <2>4. x \notin Special BY <2>1
  <2>5. t.valid BY <2>1, SoundAlways
  <2> HIDE DEF r, t
  <2>6. CodeStep(text, k + 1, r, t) BY <2>2, <2>3, StepOf
  <2>7. x \notin Quotes /\ x # "#" /\ x \notin {"\n", ";"} BY <2>4 DEF Special
  <2>8. LineGrows(text, k + 1, r, t)
    BY <2>5, <2>6, <2>7, Zenon DEF CodeStep, StringOpens, CommentOpens, LineEnds
  <2>9. t.open = r.open /\ t.next = r.next /\ ~t.comment /\ Grows(r, t, x)
    BY <2>8, Zenon DEF LineGrows
  <2>10. Len(t.lines) = Len(r.lines) /\ Last(t.lines) = Append(Last(r.lines), x)
    BY <2>9 DEF Grows
  <2>11. Grown(Last(t.lines), (k + 1) - f)
    <3> DEFINE l == Last(r.lines)
               w == Last(t.lines)
    <3>1. l \in Seq(LineSymbols(S)) BY <2>2, LastLine
    <3>2. w = Append(l, x) BY <2>10
    <3> HIDE DEF l, w, line, m, x
    <3>3. Len(w) = Len(l) + 1 /\ w[Len(l) + 1] = x /\ \A p \in 1..Len(l) : w[p] = l[p]
      BY <3>1, <3>2
    <3>4. k - f \in Nat /\ (k + 1) - f = (k - f) + 1 /\ f + ((k - f) + 1) = k + 1 BY <1>1, <1>4
    <3>5. /\ Len(l) = m + (k - f)
          /\ \A p \in 1..m : l[p] = line[p]
          /\ \A p \in 1..k - f : l[m + p] = text[f + p]
      BY <2>3 DEF l
    <3> DEFINE d == k - f
    <3> HIDE DEF d
    <3>6. d \in Nat /\ Len(l) = m + d BY <3>4, <3>5 DEF d
    <3>7. Len(w) = m + (d + 1) BY <1>2, <3>3, <3>6
    <3>8. ASSUME NEW p \in 1..m PROVE w[p] = line[p]
      <4>1. p \in 1..Len(l) BY <1>2, <3>6
      <4> QED BY <3>3, <3>5, <4>1
    <3>9. ASSUME NEW p \in 1..d + 1 PROVE w[m + p] = text[f + p]
      <4>1. CASE p \in 1..d
        <5>1. m + p \in 1..Len(l) BY <1>2, <3>6, <4>1
        <5>2. l[m + p] = text[f + p] BY <3>5, <4>1 DEF d
        <5> QED BY <3>3, <5>1, <5>2
      <4>2. CASE p = d + 1
        <5>1. m + p = Len(l) + 1 BY <1>2, <3>6, <4>2
        <5>2. f + p = k + 1 BY <3>4, <4>2 DEF d
        <5> QED BY <3>3, <5>1, <5>2 DEF x
      <4> QED BY <3>6, <4>1, <4>2
    <3>10. Grown(w, d + 1) BY <3>7, <3>8, <3>9
    <3> QED BY <3>4, <3>10 DEF w, d
  <2>12. t.next <= (k + 1) + 1
    <3>1. r.next \in Nat BY <2>2 DEF ReaderStates
    <3>2. t.next = r.next /\ r.next <= k + 1 BY <2>3, <2>9, Zenon
    <3> QED BY <1>4, <3>1, <3>2
  <2>13. Holds(k + 1)
    <3> HIDE DEF Grown
    <3> QED BY <2>3, <2>9, <2>10, <2>11, <2>12 DEF t
  <2> QED BY <2>13, SMTT(30)
<1> HIDE DEF T
<1>5. f..i \subseteq T BY <1>1, <1>3, <1>4, Induction
<1>6. i \in T BY <1>1, <1>5
<1>7. Holds(i) BY <1>6 DEF T
<1>8. GrownBy(line, Last(R[i].lines), text, f, i) BY <1>7 DEF GrownBy
<1> HIDE DEF Grown
<1> QED BY <1>7, <1>8

\* Up to the first symbol that is special the line is the program.
LEMMA LineHead ==
  ASSUME NEW S, NEW text \in Seq(S), Sound(text), NEW f \in 0..Len(text), LineStart(text, f),
         NEW i \in f..Len(text), \A p \in f + 1..i : text[p] \notin Special
  PROVE  LET r == StateAfter(text)[i]
         IN /\ r.open = <<>> /\ ~r.comment /\ r.next <= i + 1
            /\ Len(r.lines) = Len(StateAfter(text)[f].lines)
            /\ Last(r.lines) = SubSeq(text, f + 1, i)
<1> DEFINE R == StateAfter(text)
           l == Last(R[i].lines)
           u == SubSeq(text, f + 1, i)
<1>1. Len(text) \in Nat /\ f \in Nat /\ i \in Nat /\ f <= i /\ i <= Len(text) OBVIOUS
<1>2. R[f].open = <<>> /\ ~R[f].comment /\ R[f].next <= f + 1 /\ Last(R[f].lines) = <<>>
  BY AtLineStart
<1>3. /\ R[i].open = <<>> /\ ~R[i].comment /\ R[i].next <= i + 1
      /\ Len(R[i].lines) = Len(R[f].lines)
      /\ GrownBy(Last(R[f].lines), l, text, f, i)
  <2>1. R[f].open = <<>> /\ ~R[f].comment /\ R[f].next <= f + 1 BY <1>2
  <2> QED BY <2>1, CodeRun
<1>4. l \in Seq(LineSymbols(S))
  <2>1. R[i] \in ReaderStates(S) BY <1>1, Reading
  <2> QED BY <2>1, LastLine
<1>5. Len(l) = i - f /\ \A p \in 1..i - f : l[p] = text[f + p]
  <2>1. Len(<<>>) = 0 OBVIOUS
  <2> HIDE DEF l, R
  <2>2. Len(l) = 0 + (i - f) /\ \A p \in 1..i - f : l[0 + p] = text[f + p]
    BY <1>2, <1>3, <2>1 DEF GrownBy
  <2> QED BY <1>1, <2>2
<1>6. u \in Seq(S) /\ Len(u) = i - f /\ \A p \in 1..i - f : u[p] = text[f + p]
  <2>1. f + 1 \in 1..Len(text) + 1 /\ i \in 0..Len(text) BY <1>1
  <2>2. /\ u \in Seq(S)
        /\ Len(u) = IF f + 1 <= i THEN (i - (f + 1)) + 1 ELSE 0
        /\ \A p \in 1..(i - (f + 1)) + 1 : u[p] = text[((f + 1) + p) - 1]
    BY <2>1, Between
  <2>3. (i - (f + 1)) + 1 = i - f /\ (~(f + 1 <= i) => i - f = 0) BY <1>1
  <2>4. \A p \in 1..i - f : ((f + 1) + p) - 1 = f + p BY <1>1
  <2> HIDE DEF u
  <2> QED BY <2>2, <2>3, <2>4
<1>7. l = u
  <2>1. u \in Seq(LineSymbols(S)) BY <1>6, SeqMonotonic DEF LineSymbols
  <2> HIDE DEF l, u
  <2> QED BY <1>4, <1>5, <1>6, <2>1, SeqEqual
<1> QED BY <1>3, <1>7

ImportLine(line) == TrimStart(line) # <<>> /\ Head(TrimStart(line)) = "import"

\* A comment adds nothing to the line and, in a plain program, has no comma
\* if the line is an import statement.
LEMMA CommentRun ==
  ASSUME NEW S, NEW text \in Seq(S), Sound(text), NEW q \in 0..Len(text), NEW i \in q..Len(text),
         StateAfter(text)[q].comment, StateAfter(text)[q].open = <<>>,
         StateAfter(text)[q].next <= q + 1, \A p \in q + 1..i : p \notin Cuts(text)
  PROVE  /\ StateAfter(text)[i].lines = StateAfter(text)[q].lines
         /\ \A p \in q + 1..i : ~(text[p] = "," /\ ImportLine(Last(StateAfter(text)[q].lines)))
<1> DEFINE R == StateAfter(text)
           line == Last(R[q].lines)
           Holds(k) == /\ R[k].comment /\ R[k].open = <<>> /\ R[k].next <= k + 1
                       /\ R[k].lines = R[q].lines
           Quiet(k) == \A p \in q + 1..k : ~(text[p] = "," /\ ImportLine(line))
           T == {k \in Nat : Holds(k) /\ Quiet(k)}
<1>1. Len(text) \in Nat /\ q \in Nat /\ i \in Nat /\ q <= i /\ i <= Len(text) OBVIOUS
<1>2. q \in T
  <2>1. Quiet(q)
    <3>1. q + 1..q = {} BY <1>1
    <3> QED BY <3>1
  <2>2. Holds(q) OBVIOUS
  <2> QED BY <1>1, <2>1, <2>2
<1>3. ASSUME NEW k \in Nat, q <= k, k < i, k \in T PROVE k + 1 \in T
  <2> DEFINE r == R[k]
             t == R[k + 1]
  <2>14. Holds(k) /\ Quiet(k) BY <1>3
  <2> HIDE DEF T, Quiet
  <2>1. /\ k + 1 \in 1..Len(text) /\ (k + 1) - 1 = k /\ k + 1 \in q + 1..i
        /\ k \in 0..Len(text) /\ k + 1 \in 0..Len(text)
    BY <1>1, <1>3
  <2>2. r \in ReaderStates(S) /\ t \in ReaderStates(S) /\ ReadStep(text, k + 1, r, t) BY <2>1, Reading
  <2>3. r.comment /\ r.open = <<>> /\ r.next <= k + 1 /\ r.lines = R[q].lines BY <2>14
  <2>4. k + 1 \in Cuts(text) <=>
          r.next <= k + 1 /\ r.open = <<>> /\ (text[k + 1] = "\n" \/ (~r.comment /\ text[k + 1] = ";"))
    <3> DEFINE j == k + 1
    <3>1. j \in 1..Len(text) /\ j - 1 = k BY <2>1
    <3> HIDE DEF j, R
    <3>2. j \in Cuts(text) <=>
            /\ R[j - 1].next <= j /\ R[j - 1].open = <<>>
            /\ text[j] = "\n" \/ (~R[j - 1].comment /\ text[j] = ";")
      BY <3>1, CutsAreEnds DEF R
    <3> QED BY <3>1, <3>2 DEF j
  <2>5. text[k + 1] # "\n" BY <2>1, <2>3, <2>4
  <2>6. t.plain BY <2>1, SoundAlways
  <2>7. InImport(r) <=> ImportLine(line) BY <2>3 DEF InImport, ImportLine
  <2> HIDE DEF r, t, line
  <2>8. CommentStep(text, k + 1, r, t) BY <2>2, <2>3, StepOf
  <2>9. /\ t.open = r.open /\ t.next = r.next /\ t.comment /\ t.lines = r.lines
        /\ t.plain = (r.plain /\ ~(text[k + 1] = "," /\ InImport(r)))
    BY <2>5, <2>8, Zenon DEF CommentStep
  <2>10. ~(text[k + 1] = "," /\ ImportLine(line)) BY <2>6, <2>7, <2>9, Zenon
  <2>11. t.next <= (k + 1) + 1
    <3>1. r.next \in Nat BY <2>2 DEF ReaderStates
    <3>2. t.next <= k + 1 /\ k \in Nat BY <2>1, <2>3, <2>9, <3>1
    <3>3. t.next \in Nat BY <2>9, <3>1, Zenon
    <3> QED BY <3>2, <3>3
  <2>12. Holds(k + 1) BY <2>3, <2>9, <2>11 DEF t
  <2>13. Quiet(k + 1)
    <3>1. ASSUME NEW p \in q + 1..k + 1 PROVE ~(text[p] = "," /\ ImportLine(line))
      <4>1. p \in q + 1..k \/ p = k + 1 BY <1>1
      <4> QED BY <2>10, <2>14, <4>1 DEF Quiet, line
    <3> QED BY <3>1 DEF Quiet, line
  <2> QED BY <2>12, <2>13 DEF T
<1> HIDE DEF T
<1>4. q..i \subseteq T BY <1>1, <1>2, <1>3, Induction
<1>5. i \in T BY <1>1, <1>4
<1> QED BY <1>5 DEF T

\* What of a statement and of its line follows their common head.
Heads(P, F, h) ==
  /\ Begins(h, P) /\ Begins(h, F)
  /\ \A p \in 1..Len(h) : h[p] \notin Special
  /\ Len(P) > Len(h) => P[Len(h) + 1] \in Quotes \cup {"#"}
  /\ \/ F = h /\ (ImportLine(h) => \A p \in Len(h) + 1..Len(P) : P[p] # ",")
     \/ Len(F) > Len(h) /\ F[Len(h) + 1] = "s"
     \/ HasBracket(h)

\* The piece of the program that the scanner takes after f.
Piece(text, f) == SubSeq(text, f + 1, NextCut(text, Cuts(text), f) - 1)

\* A line that a cut ends stays as it is, unless it goes on in brackets.
LEMMA LineAtCut ==
  ASSUME NEW S, NEW text \in Seq(S), Sound(text), NEW e \in Cuts(text)
  PROVE  LET r == StateAfter(text)[e - 1]
             F == Lexed(text).lines[Len(r.lines)]
         IN Begins(Last(r.lines), F) /\ (F = Last(r.lines) \/ HasBracket(Last(r.lines)))
<1>1. Len(text) \in Nat /\ e \in 1..Len(text)
  <2>1. e \in 1..Len(text) BY DEF Cuts
  <2> QED BY <2>1
<1> DEFINE R == StateAfter(text)
           r == R[e - 1]
           t == R[e]
           n == Len(r.lines)
           F == R[Len(text)].lines[n]
<1>2. e - 1 \in 0..Len(text) /\ e \in 0..Len(text) /\ Len(text) \in e - 1..Len(text)
      /\ Len(text) \in e..Len(text)
  BY <1>1
<1>3. Extends(r, R[Len(text)]) /\ Extends(t, R[Len(text)]) BY <1>2, LinesExtend
<1>4. r \in ReaderStates(S) BY <1>2, Reading
<1>5. n \in Nat \ {0} /\ Last(r.lines) = r.lines[n] BY <1>4, LastLine
<1>6. Begins(Last(r.lines), F) BY <1>3, <1>5 DEF Extends
<1>7. t.depth = r.depth /\ Ended(r, t) BY CutStep
<1>8. CASE r.depth = 0
  <2> HIDE DEF r, t
  <2>1. Len(t.lines) = n + 1 /\ t.lines[n] = r.lines[n] BY <1>5, <1>7, <1>8 DEF Ended
  <2>2. n \in 1..Len(t.lines) - 1 BY <1>5, <2>1
  <2>3. F = r.lines[n] BY <1>3, <2>1, <2>2 DEF Extends
  <2> QED BY <1>5, <1>6, <2>3 DEF Lexed, r
<1>9. CASE r.depth # 0
  <2>1. r.depth > 0 BY <1>4, <1>9 DEF ReaderStates
  <2>2. HasBracket(Last(r.lines)) BY <1>2, <2>1, Bracketed
  <2> QED BY <1>6, <2>2 DEF Lexed
<1> QED BY <1>8, <1>9

\* The piece that starts with a line has a head in common with it.
LEMMA PieceOfLine ==
  ASSUME NEW S, NEW text \in Seq(S), Sound(text), NEW f \in 0..Len(text), LineStart(text, f)
  PROVE  \E h \in Seq(S) :
           Heads(Piece(text, f), Lexed(text).lines[Len(StateAfter(text)[f].lines)], h)
<1> DEFINE R == StateAfter(text)
           n == Len(R[f].lines)
           F == Lexed(text).lines[n]
           P == Piece(text, f)
           u == SubSeq(text, f + 1, Len(text))
           C == S \ Special
           k == Run(u, C)
           q == f + 1 + k
           h == SubSeq(text, f + 1, f + k)
           e == NextCut(text, Cuts(text), f)
<1>1. Len(text) \in Nat /\ f \in Nat /\ f <= Len(text) OBVIOUS
<1>2. u \in Seq(S) /\ Len(u) = Len(text) - f /\ \A p \in 1..Len(text) - f : u[p] = text[f + p]
  <2>1. f + 1 \in 1..Len(text) + 1 /\ Len(text) \in 0..Len(text) BY <1>1
  <2> QED BY <1>1, <2>1, Between
<1> HIDE DEF u
<1>3. /\ k \in 0..Len(u) /\ \A i \in 1..k : u[i] \in C
      /\ k < Len(u) => u[k + 1] \notin C
  BY <1>2, RunFacts
<1> HIDE DEF k
<1>4. k \in Nat /\ f + k <= Len(text) /\ q \in Nat BY <1>1, <1>2, <1>3
<1>5. ASSUME NEW p \in f + 1..f + k PROVE text[p] \notin Special
  <2>1. p - f \in 1..k /\ p - f \in 1..Len(text) - f /\ f + (p - f) = p BY <1>1, <1>4
  <2>2. u[p - f] = text[p] /\ u[p - f] \in C BY <1>2, <1>3, <2>1
  <2> QED BY <2>2
<1>6. q <= Len(text) => text[q] \in Special
  <2> SUFFICES ASSUME q <= Len(text) PROVE text[q] \in Special OBVIOUS
  <2>1. k + 1 \in 1..Len(text) - f /\ k < Len(u) /\ f + (k + 1) = q /\ q \in 1..Len(text) BY <1>1, <1>2, <1>4
  <2>2. u[k + 1] = text[q] /\ u[k + 1] \notin C BY <1>2, <1>3, <2>1
  <2>3. text[q] \in S BY <2>1, ElementOfSeq
  <2> QED BY <2>2, <2>3
<1>7. h \in Seq(S) /\ Len(h) = k /\ \A p \in 1..k : h[p] = text[f + p]
  <2>1. f + 1 \in 1..Len(text) + 1 /\ f + k \in 0..Len(text) BY <1>1, <1>4
  <2>2. /\ SubSeq(text, f + 1, f + k) \in Seq(S)
        /\ Len(SubSeq(text, f + 1, f + k)) =
             IF f + 1 <= f + k THEN ((f + k) - (f + 1)) + 1 ELSE 0
        /\ \A p \in 1..((f + k) - (f + 1)) + 1 : SubSeq(text, f + 1, f + k)[p] = text[((f + 1) + p) - 1]
    BY <2>1, Between
  <2>3. ((f + k) - (f + 1)) + 1 = k /\ (~(f + 1 <= f + k) => k = 0) BY <1>1, <1>4
  <2>4. \A p \in 1..k : ((f + 1) + p) - 1 = f + p BY <1>1
  <2> QED BY <1>4, <2>2, <2>3, <2>4
<1>8. Cuts(text) \in SUBSET (1..Len(text)) BY DEF Cuts
<1>9. /\ e \in Cuts(text) \cup {Len(text) + 1} /\ e \in f + 1..Len(text) + 1
      /\ \A i \in f + 1..e - 1 : i \notin Cuts(text)
  BY <1>8, NextCutFacts
<1>10. \A i \in Cuts(text) : text[i] \in {"\n", ";"} BY CutStep
<1>11. /\ P \in Seq(S) /\ Len(P) = (e - 1) - f
       /\ \A p \in 1..(e - 1) - f : P[p] = text[f + p]
  <2>1. f + 1 \in 1..Len(text) + 1 /\ e - 1 \in 0..Len(text) BY <1>1, <1>9
  <2>2. /\ SubSeq(text, f + 1, e - 1) \in Seq(S)
        /\ Len(SubSeq(text, f + 1, e - 1)) =
             IF f + 1 <= e - 1 THEN ((e - 1) - (f + 1)) + 1 ELSE 0
        /\ \A p \in 1..((e - 1) - (f + 1)) + 1 : SubSeq(text, f + 1, e - 1)[p] = text[((f + 1) + p) - 1]
    BY <2>1, Between
  <2> HIDE DEF e
  <2>3. e \in Int /\ ((e - 1) - (f + 1)) + 1 = (e - 1) - f /\ (~(f + 1 <= e - 1) => (e - 1) - f = 0)
    BY <1>1, <1>9
  <2>4. \A p \in 1..(e - 1) - f : ((f + 1) + p) - 1 = f + p BY <1>1, <2>3
  <2> QED BY <2>2, <2>3, <2>4 DEF Piece, e
<1> HIDE DEF P, e, F, h
<1>12. q <= e
  <2> SUFFICES ASSUME e < q PROVE FALSE BY <1>4, <1>9
  <2>1. e \in f + 1..f + k /\ e # Len(text) + 1 BY <1>1, <1>4, <1>9
  <2>2. text[e] \in {"\n", ";"} BY <1>9, <1>10, <2>1
  <2> QED BY <1>5, <2>1, <2>2 DEF Special
<1>13. Len(P) >= k /\ Begins(h, P) BY <1>1, <1>4, <1>7, <1>9, <1>11, <1>12, SMTT(30) DEF Begins
<1>14. \A p \in 1..Len(h) : h[p] \notin Special
  <2> SUFFICES ASSUME NEW p \in 1..k PROVE h[p] \notin Special BY <1>7
  <2>1. f + p \in f + 1..f + k BY <1>1, <1>4
  <2> QED BY <1>5, <1>7, <2>1
<1>15. e > q => q \notin Cuts(text) /\ q <= Len(text) /\ Len(P) > k /\ P[k + 1] = text[q]
  <2> SUFFICES ASSUME e > q
               PROVE  q \notin Cuts(text) /\ q <= Len(text) /\ Len(P) > k /\ P[k + 1] = text[q]
    OBVIOUS
  <2>1. q \in f + 1..e - 1 /\ k + 1 \in 1..(e - 1) - f /\ f + (k + 1) = q BY <1>1, <1>4, <1>9
  <2> QED BY <1>4, <1>9, <1>11, <2>1
<1>16. Len(P) > k => e > q BY <1>1, <1>4, <1>9, <1>11
\* what the reader knows before q
<1> DEFINE r == R[q - 1]
<1>17. /\ r.open = <<>> /\ ~r.comment /\ r.next <= q
       /\ Len(r.lines) = n /\ Last(r.lines) = h
  <2>1. f + k \in f..Len(text) /\ q - 1 = f + k /\ (f + k) + 1 = q BY <1>1, <1>4
  <2> QED BY <1>5, <2>1, LineHead DEF h
<1>18. q - 1 \in 0..Len(text) /\ (q - 1) + 1 = q BY <1>1, <1>4
<1>19. SUFFICES /\ Begins(h, F)
                /\ Len(P) > k => P[k + 1] \in Quotes \cup {"#"}
                /\ \/ F = h /\ (ImportLine(h) => \A p \in k + 1..Len(P) : P[p] # ",")
                   \/ Len(F) > k /\ F[k + 1] = "s"
                   \/ HasBracket(h)
  BY <1>7, <1>13, <1>14 DEF Heads, F, P
<1>20. CASE q > Len(text)
  <2>1. q = Len(text) + 1 /\ q - 1 = Len(text) /\ ~(Len(P) > k) BY <1>1, <1>4, <1>15, <1>16, <1>20
  <2>2. r \in ReaderStates(S) BY <1>18, Reading
  <2>3. F = h
    <3>1. Last(r.lines) = r.lines[n] BY <1>17, <2>2, LastLine
    <3> QED BY <1>17, <2>1, <3>1 DEF F, Lexed
  <2>4. Begins(h, F) /\ \A p \in k + 1..Len(P) : P[p] # ","
    <3>1. Begins(h, h) BY <1>7 DEF Begins
    <3>2. Len(P) \in Nat BY <1>11
    <3>3. k + 1..Len(P) = {} BY <1>4, <2>1, <3>2
    <3> QED BY <2>3, <3>1, <3>3
  <2> QED BY <2>1, <2>3, <2>4
<1>21. ASSUME q <= Len(text), text[q] \in {"\n", ";"} PROVE q = e /\ q \in Cuts(text)
  <2>1. q \in 1..Len(text)
    <3>1. q >= 1 BY <1>1, <1>4
    <3>2. q \in Nat /\ q <= Len(text) BY <1>4, <1>21
    <3> HIDE DEF q
    <3> QED BY <1>1, <3>1, <3>2
  <2>2. q \in Cuts(text) BY <1>17, <1>21, <2>1, CutsAreEnds
  <2> QED BY <1>12, <1>15, <2>2, <1>4, <1>9
<1>22. CASE q <= Len(text) /\ text[q] \in {"\n", ";"}
  <2>1. q = e /\ q \in Cuts(text) /\ ~(Len(P) > k)
    <3>1. q = e /\ q \in Cuts(text) BY <1>21, <1>22
    <3> HIDE DEF q
    <3> QED BY <1>4, <1>16, <3>1
  <2>2. Begins(h, F) /\ (F = h \/ HasBracket(h)) BY <1>17, <2>1, LineAtCut DEF F
  <2>3. \A p \in k + 1..Len(P) : P[p] # ","
    <3>1. Len(P) \in Nat BY <1>11
    <3>2. k + 1..Len(P) = {} BY <1>4, <2>1, <3>1
    <3> QED BY <3>2
  <2> QED BY <2>1, <2>2, <2>3
<1> DEFINE t == R[q]
<1>23. ASSUME q <= Len(text)
       PROVE  /\ r \in ReaderStates(S) /\ t \in ReaderStates(S) /\ CodeStep(text, q, r, t)
              /\ t.valid /\ q \in 1..Len(text) /\ q \in 0..Len(text)
  <2>1. q \in 1..Len(text) /\ q \in 0..Len(text) BY <1>1, <1>4, <1>23
  <2>2. r \in ReaderStates(S) /\ t \in ReaderStates(S) /\ ReadStep(text, q, r, t) BY <1>18, <2>1, Reading
  <2>3. t.valid BY <2>1, SoundAlways
  <2> HIDE DEF r, t
  <2>4. CodeStep(text, q, r, t) BY <1>4, <1>17, <2>2, StepOf
  <2> QED BY <2>1, <2>2, <2>3, <2>4
<1>24. CASE q <= Len(text) /\ text[q] \in Quotes
  <2>1. q \notin Cuts(text) BY <1>10, <1>24 DEF Quotes
  <2>2. Len(P) > k => P[k + 1] \in Quotes BY <1>15, <1>16, <1>24
  <2>3. text[q] # "#" /\ text[q] \notin {"\n", ";"} /\ text[q] # "\\" /\ text[q] \in Special
    BY <1>24 DEF Quotes, Special
  <2> HIDE DEF r, t
  <2>4. StringOpens(text, q, r, t)
    BY <1>23, <1>24, <2>3, Zenon DEF CodeStep, CommentOpens, LineEnds, LineGrows
  <2>5. Grows(r, t, "s") BY <2>4, Zenon DEF StringOpens
  <2>6. Len(t.lines) = n /\ Last(t.lines) = Append(h, "s") BY <1>17, <2>5 DEF Grows
  <2>7. n \in Nat \ {0} /\ Last(t.lines) = t.lines[n] BY <1>23, <1>24, <2>6, LastLine
  <2>8. Begins(t.lines[n], F)
    <3>1. Len(text) \in q..Len(text) BY <1>1, <1>4, <1>24
    <3>2. Extends(t, R[Len(text)]) BY <1>23, <1>24, <3>1, LinesExtend DEF t
    <3>3. n \in 1..Len(t.lines) BY <2>6, <2>7
    <3> QED BY <3>2, <3>3 DEF Extends, F, Lexed
  <2> DEFINE w == Append(h, "s")
  <2>9. Len(w) = k + 1 /\ w[k + 1] = "s" /\ \A p \in 1..k : w[p] = h[p] BY <1>7
  <2>10. Begins(w, F) BY <2>6, <2>7, <2>8
  <2> HIDE DEF w
  <2>11. Len(F) >= k + 1 /\ F[k + 1] = "s" /\ \A p \in 1..k : F[p] = h[p]
    BY <1>4, <2>9, <2>10 DEF Begins
  <2>12. Len(F) > k /\ Begins(h, F)
    <3>1. Len(F) \in Nat
      <4>1. Len(text) \in 0..Len(text) BY <1>1
      <4>2. R[Len(text)] \in ReaderStates(S) BY <4>1, Reading
      <4>3. n \in 1..Len(R[Len(text)].lines)
        <5>1. Len(text) \in q..Len(text) BY <1>1, <1>4, <1>24
        <5>2. Extends(t, R[Len(text)]) BY <1>23, <1>24, <5>1, LinesExtend DEF t
        <5>3. Len(R[Len(text)].lines) \in Nat BY <4>2, LastLine
        <5> QED BY <2>6, <2>7, <5>2, <5>3 DEF Extends
      <4>4. R[Len(text)].lines \in Seq(Seq(LineSymbols(S))) BY <4>2 DEF ReaderStates
      <4>5. R[Len(text)].lines[n] \in Seq(LineSymbols(S)) BY <4>3, <4>4, ElementOfSeq
      <4>6. F \in Seq(LineSymbols(S)) BY <4>5, Zenon DEF F, Lexed
      <4> QED BY <4>6
    <3> QED BY <1>4, <1>7, <2>11, <3>1 DEF Begins
  <2> QED BY <2>2, <2>11, <2>12
<1>25. CASE q <= Len(text) /\ text[q] = "#"
  <2>1. q \notin Cuts(text) BY <1>10, <1>25
  <2>2. Len(P) > k => P[k + 1] = "#" BY <1>15, <1>16, <1>25
  <2>3. text[q] \notin Quotes /\ text[q] \notin {"\n", ";"} /\ text[q] # "\\" /\ text[q] \in Special
    BY <1>25 DEF Quotes, Special
  <2>4. CommentOpens(text, q, r, t)
    <3> HIDE DEF r, t
    <3> QED BY <1>23, <1>25, <2>3, Zenon DEF CodeStep, StringOpens, LineEnds, LineGrows
  <2>5. t.comment /\ t.open = r.open /\ t.next = r.next /\ t.lines = r.lines
    <3> HIDE DEF r, t
    <3> QED BY <2>4, Zenon DEF CommentOpens
  <2>6. t.next <= q + 1
    <3> HIDE DEF r, t
    <3>1. r.next \in Nat BY <1>23, <1>25 DEF ReaderStates
    <3> QED BY <1>4, <1>17, <2>5, <3>1
  <2>7. q < e BY <1>4, <1>9, <1>12, <1>25, <2>1
  <2>8. e - 1 \in q..Len(text) /\ \A p \in q + 1..e - 1 : p \notin Cuts(text)
    BY <1>1, <1>4, <1>9, <2>7
  <2>9. /\ R[e - 1].lines = t.lines
        /\ \A p \in q + 1..e - 1 : ~(text[p] = "," /\ ImportLine(Last(t.lines)))
    BY <1>17, <1>23, <1>25, <2>5, <2>6, <2>8, CommentRun, ZenonT(60)
  <2>10. Last(R[e - 1].lines) = h /\ Len(R[e - 1].lines) = n BY <1>17, <2>5, <2>9
  <2>11. Begins(h, F) /\ (F = h \/ HasBracket(h))
    <3>1. CASE e \in Cuts(text) BY <2>10, <3>1, LineAtCut DEF F
    <3>2. CASE e = Len(text) + 1
      <4>1. Len(text) \in 0..Len(text) /\ e - 1 = Len(text) BY <1>1, <3>2
      <4>2. R[e - 1] \in ReaderStates(S) BY <4>1, Reading
      <4>3. Last(R[e - 1].lines) = R[e - 1].lines[n] BY <2>10, <4>2, LastLine
      <4>4. F = h BY <2>10, <4>1, <4>3 DEF F, Lexed
      <4>5. Begins(h, h) BY <1>7 DEF Begins
      <4> QED BY <4>4, <4>5
    <3> QED BY <1>9, <3>1, <3>2
  <2>12. ASSUME ImportLine(h), NEW p \in k + 1..Len(P) PROVE P[p] # ","
    <3>1. p \in 1..(e - 1) - f /\ (f + p = q \/ f + p \in q + 1..e - 1) BY <1>1, <1>4, <1>9, <1>11
    <3>2. P[p] = text[f + p] BY <1>11, <3>1
    <3>3. Last(t.lines) = h BY <1>17, <2>5
    <3>4. CASE f + p = q BY <1>25, <3>2, <3>4
    <3>5. CASE f + p \in q + 1..e - 1 BY <2>9, <2>12, <3>2, <3>3, <3>5
    <3> QED BY <3>1, <3>4, <3>5
  <2> QED BY <2>2, <2>11, <2>12
<1>26. CASE q <= Len(text) /\ text[q] = "\\"
  <2>1. text[q] \notin Quotes /\ text[q] \notin {"\n", ";"} /\ text[q] # "#" /\ text[q] \in Special
    BY <1>26 DEF Quotes, Special
  <2> HIDE DEF r, t
  <2> QED BY <1>23, <1>26, <2>1, Zenon DEF CodeStep, StringOpens, CommentOpens, LineEnds, LineGrows
<1> QED
  <2>1. q <= Len(text) \/ q > Len(text) BY <1>1, <1>4
  <2> QED BY <1>6, <1>20, <1>22, <1>24, <1>25, <1>26, <2>1 DEF Special

\* The prover for arithmetic cannot read these as literals.
Space == " "
Comma == ","

\* What the proofs need to know of single symbols.
LEMMA SymbolFacts ==
  /\ Space \in Whitespace /\ Space \notin NameSymbols /\ Space \notin Special /\ Space # Comma
  /\ Comma \notin Whitespace /\ Comma \notin NameSymbols
  /\ \A x \in Whitespace : x \notin NameSymbols
  /\ \A x \in Whitespace : x \notin Special => x = Space
  /\ \A x \in Whitespace : x \in Special => x = "\n"
  /\ \A x \in Whitespace : x # "." /\ x # "import" /\ x # "from" /\ x # "#" /\ x # "("
  /\ \A x \in Quotes \cup {"#"} : x \notin Whitespace /\ x \notin NameSymbols /\ x # Comma /\ x \in Special
  /\ \A x \in NameSymbols : x \notin Special
  /\ \A x \in {"import", "from", "as", "."} : x \in NameSymbols
  /\ "s" \notin NameSymbols /\ "(" \notin NameSymbols /\ "s" # Space /\ "(" # Space
  /\ "s" # Comma /\ "(" # Comma
BY Zenon DEF Space, Comma, Whitespace, NameSymbols, WordSymbols, Special, Quotes

\* The symbols of a piece.
LEMMA PieceFacts ==
  ASSUME NEW S, NEW text \in Seq(S), NEW f \in 0..Len(text)
  PROVE  LET e == NextCut(text, Cuts(text), f)
         IN /\ e \in Cuts(text) \cup {Len(text) + 1} /\ e \in f + 1..Len(text) + 1
            /\ \A i \in f + 1..e - 1 : i \notin Cuts(text)
            /\ Piece(text, f) \in Seq(S) /\ Len(Piece(text, f)) = (e - 1) - f
            /\ \A p \in 1..(e - 1) - f : Piece(text, f)[p] = text[f + p]
<1> DEFINE e == NextCut(text, Cuts(text), f)
           P == Piece(text, f)
<1>1. Len(text) \in Nat /\ f \in Nat /\ f <= Len(text) OBVIOUS
<1>2. Cuts(text) \in SUBSET (1..Len(text)) BY DEF Cuts
<1>3. /\ e \in Cuts(text) \cup {Len(text) + 1} /\ e \in f + 1..Len(text) + 1
      /\ \A i \in f + 1..e - 1 : i \notin Cuts(text)
  BY <1>2, NextCutFacts
<1>4. P = SubSeq(text, f + 1, e - 1) BY DEF Piece
<1> HIDE DEF e, P
<1>5. f + 1 \in 1..Len(text) + 1 /\ e - 1 \in 0..Len(text) BY <1>1, <1>3
<1>6. /\ P \in Seq(S)
      /\ Len(P) = IF f + 1 <= e - 1 THEN ((e - 1) - (f + 1)) + 1 ELSE 0
      /\ \A p \in 1..((e - 1) - (f + 1)) + 1 : P[p] = text[((f + 1) + p) - 1]
  BY <1>4, <1>5, Between
<1>7. e \in Int /\ ((e - 1) - (f + 1)) + 1 = (e - 1) - f /\ (~(f + 1 <= e - 1) => (e - 1) - f = 0)
  BY <1>1, <1>3
<1>8. \A p \in 1..(e - 1) - f : ((f + 1) + p) - 1 = f + p BY <1>1, <1>7
<1>9. Len(P) = (e - 1) - f /\ \A p \in 1..(e - 1) - f : P[p] = text[f + p] BY <1>6, <1>7, <1>8
<1> QED BY <1>3, <1>6, <1>9 DEF e, P

\* What it takes for a statement to begin with a keyword.
LEMMA StripsAt ==
  ASSUME NEW S, NEW s \in Seq(S), NEW kw
  PROVE  LET u == Run(s, Whitespace)
         IN StripsKeyword(TrimStart(s), kw) <=>
              u + 2 <= Len(s) /\ s[u + 1] = kw /\ s[u + 2] \in Whitespace
<1> DEFINE u == Run(s, Whitespace)
           t == TrimStart(s)
<1>1. Len(s) \in Nat /\ u \in 0..Len(s) /\ t = SubSeq(s, u + 1, Len(s)) BY RunFacts DEF TrimStart
<1> HIDE DEF u, t
<1>2. /\ t \in Seq(S)
      /\ Len(t) = IF u + 1 <= Len(s) THEN (Len(s) - (u + 1)) + 1 ELSE 0
      /\ \A k \in 1..(Len(s) - (u + 1)) + 1 : t[k] = s[((u + 1) + k) - 1]
  BY <1>1, Between
<1>3. Len(t) > 1 <=> u + 2 <= Len(s) BY <1>1, <1>2
<1>4. Len(t) > 1 => Head(t) = s[u + 1] /\ t[2] = s[u + 2]
  <2> SUFFICES ASSUME Len(t) > 1 PROVE Head(t) = s[u + 1] /\ t[2] = s[u + 2] OBVIOUS
  <2>1. 1 \in 1..(Len(s) - (u + 1)) + 1 /\ 2 \in 1..(Len(s) - (u + 1)) + 1
        /\ ((u + 1) + 1) - 1 = u + 1 /\ ((u + 1) + 2) - 1 = u + 2
    BY <1>1, <1>3
  <2>2. t[1] = s[u + 1] /\ t[2] = s[u + 2] BY <1>2, <2>1
  <2> QED BY <2>2
<1> QED BY <1>3, <1>4 DEF StripsKeyword, u, t

\* A keyword between spaces, or at the start of the line and before a space.
KeywordAt(line, j) ==
  /\ j \in 1..Len(line) - 1 /\ line[j] \in {"import", "from"} /\ line[j + 1] = Space
  /\ j = 1 \/ line[j - 1] = Space
KeywordInBrackets(line) == \E j \in 1..Len(line) - 1 : KeywordAt(line, j) /\ \E p \in 1..j - 1 : line[p] = "("

\* If the piece after a line break in brackets begins with a keyword, so does
\* the part of the line that is in the brackets.
LEMMA PieceInBrackets ==
  ASSUME NEW S, NEW text \in Seq(S), Sound(text), NEW f \in Cuts(text), ~LineStart(text, f),
         NEW kw, kw = "import" \/ kw = "from", StripsKeyword(TrimStart(Piece(text, f)), kw)
  PROVE  \E n \in 1..Len(Lexed(text).lines) : KeywordInBrackets(Lexed(text).lines[n])
<1> DEFINE R == StateAfter(text)
           P == Piece(text, f)
           e == NextCut(text, Cuts(text), f)
           u == Run(P, Whitespace)
           line == Last(R[f].lines)
           m == Len(line)
<1>1. f \in 1..Len(text) BY DEF Cuts
<1>2. Len(text) \in Nat /\ f \in Nat /\ f - 1 \in 0..Len(text) /\ f \in 0..Len(text) BY <1>1
<1>3. /\ e \in f + 1..Len(text) + 1
      /\ \A i \in f + 1..e - 1 : i \notin Cuts(text)
      /\ P \in Seq(S) /\ Len(P) = (e - 1) - f
      /\ \A p \in 1..(e - 1) - f : P[p] = text[f + p]
  BY <1>2, PieceFacts
<1>4. u \in Nat /\ \A i \in 1..u : P[i] \in Whitespace BY <1>3, RunFacts
<1>5. u + 2 <= Len(P) /\ P[u + 1] = kw /\ P[u + 2] \in Whitespace BY <1>3, StripsAt
<1>6. /\ R[f].open = <<>> /\ ~R[f].comment /\ R[f].next <= f + 1 /\ R[f].depth = R[f - 1].depth
      /\ Ended(R[f - 1], R[f])
  BY CutStep
<1>7. R[f].depth # 0 BY DEF LineStart
<1>8. R[f] \in ReaderStates(S) /\ R[f - 1] \in ReaderStates(S) BY <1>2, Reading
<1>9. m \in Nat /\ m >= 1 /\ Last(line) = Space /\ HasBracket(line)
  <2> DEFINE r == R[f - 1]
             t == R[f]
  <2>1. Last(r.lines) \in Seq(LineSymbols(S)) BY <1>8, LastLine
  <2>2. t.depth > 0
    <3> HIDE DEF t
    <3> QED BY <1>7, <1>8 DEF ReaderStates, t
  <2>3. HasBracket(line) BY <1>2, <2>2, Bracketed
  <2> HIDE DEF r
  <2>4. Grows(r, t, Space) BY <1>6, <1>7, Zenon DEF Ended, r, Space
  <2>5. line = Append(Last(r.lines), Space) BY <2>4 DEF Grows
  <2>6. Space \in LineSymbols(S) BY Zenon DEF LineSymbols, Space
  <2> HIDE DEF line
  <2>7. line \in Seq(LineSymbols(S)) /\ Len(line) = Len(Last(r.lines)) + 1
        /\ line[Len(Last(r.lines)) + 1] = Space
    BY <2>1, <2>5, <2>6, AppendProperties
  <2>8. m \in Nat /\ m >= 1 BY <2>1, <2>7
  <2>9. Last(line) = Space BY <2>1, <2>7 DEF Last
  <2> QED BY <2>3, <2>8, <2>9
<1> HIDE DEF P, e, u, line, m
<1>10. ASSUME NEW p \in 1..u + 2 PROVE P[p] = text[f + p] /\ P[p] \in Whitespace \cup {kw}
  <2>1. p \in 1..(e - 1) - f BY <1>3, <1>4, <1>5
  <2>2. p \in 1..u \/ p = u + 1 \/ p = u + 2 BY <1>4
  <2> QED BY <1>3, <1>4, <1>5, <2>1, <2>2
<1>11. \A p \in 1..u + 2 : P[p] \notin Special
  <2> DEFINE X == {p \in 1..u + 2 : P[p] \in Special}
  <2> SUFFICES ASSUME X # {} PROVE FALSE OBVIOUS
  <2>1. X \in SUBSET Nat BY <1>4
  <2>2. PICK x \in X : \A y \in X : x <= y BY <2>1, MinOfNats
  <2>3. x \in 1..u + 2 /\ P[x] \in Special /\ \A p \in 1..x - 1 : P[p] \notin Special
    BY <1>4, <2>2
  <2> HIDE DEF X
  <2>4. text[f + x] = "\n"
    <3>1. P[x] = text[f + x] /\ P[x] \in Whitespace \cup {kw} BY <1>10, <2>3
    <3>2. kw \in NameSymbols /\ kw \notin Special BY SymbolFacts
    <3> QED BY <2>3, <3>1, <3>2, SymbolFacts
  <2>5. (f + x) - 1 \in f..Len(text) /\ f + x \in 1..Len(text) /\ f + x \in f + 1..e - 1
        /\ ((f + x) - 1) + 1 = f + x /\ (f + x) - 1 \in 0..Len(text)
    BY <1>2, <1>3, <1>4, <1>5, <2>3
  <2>6. \A p \in f + 1..(f + x) - 1 : text[p] \notin Special
    <3> SUFFICES ASSUME NEW p \in f + 1..(f + x) - 1 PROVE text[p] \notin Special OBVIOUS
    <3>1. p - f \in 1..x - 1 /\ p - f \in 1..u + 2 /\ f + (p - f) = p BY <1>2, <1>4, <2>3
    <3> QED BY <1>10, <2>3, <3>1
  <2> DEFINE i == (f + x) - 1
  <2>7. R[i].open = <<>> /\ ~R[i].comment /\ R[i].next <= f + x
    BY <1>2, <1>6, <2>5, <2>6, CodeRun, ZenonT(60)
  <2>8. f + x \in Cuts(text) BY <2>4, <2>5, <2>7, CutsAreEnds
  <2> QED BY <1>3, <2>5, <2>8
<1> DEFINE i == f + (u + 2)
           l == Last(R[i].lines)
           n == Len(R[i].lines)
           F == Lexed(text).lines[n]
           j == m + (u + 1)
<1>12. i \in f..Len(text) /\ i \in 0..Len(text) /\ i - f = u + 2 BY <1>2, <1>3, <1>4, <1>5
<1>13. \A p \in f + 1..i : text[p] \notin Special
  <2> SUFFICES ASSUME NEW p \in f + 1..i PROVE text[p] \notin Special OBVIOUS
  <2>1. p - f \in 1..u + 2 /\ f + (p - f) = p BY <1>2, <1>4
  <2> QED BY <1>10, <1>11, <2>1
<1>14. GrownBy(line, l, text, f, i)
  <2> HIDE DEF i
  <2> QED BY <1>2, <1>6, <1>12, <1>13, CodeRun DEF line
<1>15. /\ Len(l) = m + (u + 2)
       /\ \A p \in 1..m : l[p] = line[p]
       /\ l[m] = Space
       /\ \A p \in 1..u + 2 : l[m + p] = P[p]
  <2> HIDE DEF l, i
  <2>1. /\ Len(l) = Len(line) + (i - f)
        /\ \A p \in 1..Len(line) : l[p] = line[p]
        /\ \A p \in 1..i - f : l[Len(line) + p] = text[f + p]
    BY <1>14 DEF GrownBy
  <2>2. \A p \in 1..u + 2 : l[m + p] = text[f + p] BY <1>12, <2>1 DEF m
  <2>3. m \in 1..m /\ line[m] = Space
    <3>1. line[m] = Last(line) BY DEF m, Last
    <3> QED BY <1>9, <3>1
  <2> QED BY <1>10, <1>12, <2>1, <2>2, <2>3 DEF m
<1>16. Len(F) \in Nat /\ n \in 1..Len(Lexed(text).lines)
       /\ Len(l) <= Len(F) /\ \A p \in 1..Len(l) : F[p] = l[p]
  <2>1. Len(text) \in i..Len(text) /\ Len(text) \in 0..Len(text) BY <1>12
  <2>2. R[i] \in ReaderStates(S) /\ R[Len(text)] \in ReaderStates(S) BY <1>12, <2>1, Reading
  <2>3. Extends(R[i], R[Len(text)]) BY <1>12, <2>1, LinesExtend
  <2>4. n \in Nat \ {0} /\ l = R[i].lines[n] /\ Len(R[Len(text)].lines) \in Nat BY <2>2, LastLine
  <2>5. n \in 1..Len(R[Len(text)].lines) /\ Begins(l, R[Len(text)].lines[n])
    BY <2>3, <2>4 DEF Extends
  <2>6. R[Len(text)].lines \in Seq(Seq(LineSymbols(S))) BY <2>2 DEF ReaderStates
  <2>7. R[Len(text)].lines[n] \in Seq(LineSymbols(S)) BY <2>5, <2>6, ElementOfSeq
  <2>8. F \in Seq(LineSymbols(S)) /\ Begins(l, F) /\ n \in 1..Len(Lexed(text).lines)
    BY <2>5, <2>7, Zenon DEF F, Lexed
  <2> HIDE DEF F, l, n
  <2> QED BY <2>8 DEF Begins
<1> HIDE DEF F, l, n
<1>17. /\ j \in 1..Len(F) - 1 /\ F[j] = kw /\ F[j + 1] = P[u + 2]
       /\ F[j - 1] = IF u = 0 THEN Space ELSE P[u]
  <2>1. j \in 1..Len(l) /\ j + 1 \in 1..Len(l) /\ j - 1 \in 1..Len(l) BY <1>4, <1>9, <1>15
  <2>2. F[j] = l[m + (u + 1)] /\ F[j + 1] = l[j + 1] /\ F[j - 1] = l[j - 1] BY <1>16, <2>1
  <2>3. l[m + (u + 1)] = P[u + 1] /\ l[m + (u + 2)] = P[u + 2] /\ (u # 0 => l[m + u] = P[u])
    <3>1. u + 1 \in 1..u + 2 /\ u + 2 \in 1..u + 2 /\ (u # 0 => u \in 1..u + 2) BY <1>4
    <3> QED BY <1>15, <3>1
  <2>4. l[m] = Space BY <1>15
  <2>5. j + 1 = m + (u + 2) /\ j - 1 = m + u BY <1>4, <1>9
  <2>6. u = 0 => m + u = m BY <1>9
  <2>7. j \in 1..Len(F) - 1 BY <1>16, <2>1
  <2> QED BY <1>5, <2>2, <2>3, <2>4, <2>5, <2>6, <2>7
<1>19. P[u + 2] = Space /\ (u # 0 => P[u] = Space)
  <2>1. u + 2 \in 1..u + 2 /\ (u # 0 => u \in 1..u + 2 /\ u \in 1..u) BY <1>4
  <2> QED BY <1>4, <1>5, <1>11, <2>1, SymbolFacts
<1>20. KeywordAt(F, j)
  <2> HIDE DEF j
  <2> QED BY <1>9, <1>17, <1>19 DEF KeywordAt
<1>21. \E p \in 1..j - 1 : F[p] = "("
  <2>1. PICK p \in 1..m : line[p] = "(" BY <1>9 DEF HasBracket, m
  <2>2. p \in 1..j - 1 /\ p \in 1..Len(l) BY <1>4, <1>9, <1>15
  <2>3. F[p] = "(" BY <1>15, <1>16, <2>1, <2>2
  <2> QED BY <2>2, <2>3
<1> QED BY <1>16, <1>17, <1>20, <1>21 DEF KeywordInBrackets, F

----------------------------------------------------------------------------
(* Tokens by their positions *)

\* Where tokens start.
LEMMA StartFacts ==
  ASSUME NEW line
  PROVE  \A i : i \in TokenStarts(line) <=>
           /\ i \in 1..Len(line) /\ line[i] # Space
           /\ ~(i > 1 /\ line[i] \in NameSymbols /\ line[i - 1] \in NameSymbols)
BY Zenon DEF TokenStarts, Space

\* How many tokens start at p or before.
Count(line, p) == Cardinality(TokenStarts(line) \cap 1..p)

\* The number of tokens grows by one where a token starts.
LEMMA CountFacts ==
  ASSUME NEW S, NEW line \in Seq(S)
  PROVE  /\ Count(line, 0) = 0
         /\ Count(line, Len(line)) = Cardinality(TokenStarts(line))
         /\ \A p \in Nat : Count(line, p) \in Nat
         /\ \A p \in Nat : Count(line, p + 1) =
              Count(line, p) + (IF p + 1 \in TokenStarts(line) THEN 1 ELSE 0)
         /\ \A p, q \in Nat : p <= q => Count(line, p) <= Count(line, q)
<1> DEFINE T == TokenStarts(line)
           U(p) == T \cap 1..p
<1>1. Len(line) \in Nat /\ T \subseteq 1..Len(line) BY StartFacts
<1> HIDE DEF T
<1>2. ASSUME NEW p \in Nat PROVE IsFiniteSet(U(p)) /\ Cardinality(U(p)) \in Nat
  <2>1. IsFiniteSet(1..p) BY FS_Interval
  <2>2. U(p) \subseteq 1..p OBVIOUS
  <2> HIDE DEF U
  <2>3. IsFiniteSet(U(p)) BY <2>1, <2>2, FS_Subset
  <2> QED BY <2>3, FS_CardinalityType
<1>3. Cardinality(U(0)) = 0
  <2>1. U(0) = {} OBVIOUS
  <2> QED BY <2>1, FS_EmptySet
<1>4. U(Len(line)) = T BY <1>1
<1>5. ASSUME NEW p \in Nat
      PROVE  Cardinality(U(p + 1)) = Cardinality(U(p)) + (IF p + 1 \in T THEN 1 ELSE 0)
  <2>1. CASE p + 1 \in T
    <3>1. U(p + 1) = U(p) \cup {p + 1} /\ p + 1 \notin U(p) BY <2>1
    <3>2. IsFiniteSet(U(p)) BY <1>2
    <3> HIDE DEF U
    <3>3. Cardinality(U(p) \cup {p + 1}) = Cardinality(U(p)) + 1 BY <3>1, <3>2, FS_AddElement
    <3> QED BY <2>1, <3>1, <3>3
  <2>2. CASE p + 1 \notin T
    <3>1. U(p + 1) = U(p) BY <2>2
    <3>2. Cardinality(U(p)) \in Nat BY <1>2
    <3> HIDE DEF U
    <3> QED BY <2>2, <3>1, <3>2
  <2> QED BY <2>1, <2>2
<1>6. ASSUME NEW p \in Nat, NEW q \in Nat, p <= q PROVE Cardinality(U(p)) <= Cardinality(U(q))
  <2>1. U(p) \subseteq U(q) BY <1>6
  <2>2. IsFiniteSet(U(q)) BY <1>2
  <2> HIDE DEF U
  <2> QED BY <2>1, <2>2, FS_Subset
<1> QED BY <1>2, <1>3, <1>4, <1>5, <1>6 DEF Count, T

\* Where the tokens start, in their order.
Positions(line) ==
  [n \in 1..Cardinality(TokenStarts(line)) |-> CHOOSE i \in TokenStarts(line) : Count(line, i) = n]

\* The tokens of a line are those at its positions, in order.
LEMMA PositionFacts ==
  ASSUME NEW S, NEW line \in Seq(S)
  PROVE  LET t == Tokens(line)
             pos == Positions(line)
         IN /\ Len(t) \in Nat /\ DOMAIN t = 1..Len(t)
            /\ \A n \in 1..Len(t) : pos[n] \in TokenStarts(line) /\ t[n] = TokenAt(line, pos[n])
            /\ \A m, n \in 1..Len(t) : m < n => pos[m] < pos[n]
            /\ \A p \in TokenStarts(line) : \E n \in 1..Len(t) : pos[n] = p
<1> DEFINE T == TokenStarts(line)
           c(p) == Count(line, p)
           N == Cardinality(T)
           pos == Positions(line)
           t == Tokens(line)
<1>1. Len(line) \in Nat /\ T \subseteq 1..Len(line) BY StartFacts
<1>2. /\ c(0) = 0 /\ c(Len(line)) = N
      /\ \A p \in Nat : c(p) \in Nat
      /\ \A p \in Nat : c(p + 1) = c(p) + (IF p + 1 \in T THEN 1 ELSE 0)
      /\ \A p, q \in Nat : p <= q => c(p) <= c(q)
  BY CountFacts
<1>3. N \in Nat BY <1>1, <1>2
<1>4. t = [n \in 1..N |-> TokenAt(line, CHOOSE i \in T : c(i) = n)] BY DEF Tokens, Count
<1>5. pos = [n \in 1..N |-> CHOOSE i \in T : c(i) = n] BY DEF Positions
<1> HIDE DEF T, c, N, pos, t
<1>6. ASSUME NEW n \in 1..N PROVE \E i \in T : c(i) = n
  <2> DEFINE X == {p \in Nat : c(p) >= n}
  <2>1. Len(line) \in X BY <1>1, <1>2, <1>3
  <2>2. X \in SUBSET Nat /\ X # {} BY <2>1
  <2>3. PICK x \in X : \A y \in X : x <= y BY <2>2, MinOfNats
  <2>4. x \in Nat /\ c(x) >= n BY <2>3
  <2>5. x # 0 BY <1>2, <1>3, <2>4
  <2>6. x - 1 \in Nat /\ (x - 1) + 1 = x BY <2>4, <2>5
  <2>7. x - 1 \notin X BY <2>3, <2>4, <2>6
  <2>8. c(x - 1) < n
    <3>1. c(x - 1) \in Nat BY <1>2, <2>6
    <3>2. ~(c(x - 1) >= n) BY <2>6, <2>7
    <3>3. n \in Nat BY <1>3
    <3> HIDE DEF X
    <3> QED BY <3>1, <3>2, <3>3
  <2>9. c(x) = c(x - 1) + (IF x \in T THEN 1 ELSE 0) /\ c(x - 1) \in Nat BY <1>2, <2>6
  <2> QED BY <1>3, <2>4, <2>8, <2>9
<1>7. ASSUME NEW p \in T, NEW q \in T, p < q PROVE c(p) < c(q)
  <2>1. p \in Nat /\ q \in Nat /\ q - 1 \in Nat /\ p <= q - 1 /\ (q - 1) + 1 = q BY <1>1, <1>7
  <2>2. c(p) <= c(q - 1) /\ c(q) = c(q - 1) + 1 /\ c(p) \in Nat /\ c(q - 1) \in Nat BY <1>2, <2>1
  <2> QED BY <2>2
<1>8. ASSUME NEW p \in T PROVE c(p) \in 1..N
  <2>1. p \in 1..Len(line) /\ p - 1 \in Nat /\ (p - 1) + 1 = p /\ p \in Nat BY <1>1
  <2>2. c(p) = c(p - 1) + 1 /\ c(p - 1) \in Nat BY <1>2, <2>1
  <2>3. c(p) <= N BY <1>1, <1>2, <2>1
  <2> QED BY <1>3, <2>2, <2>3
<1>14. \A p \in T : p \in Nat BY <1>1
<1>9. Len(t) = N /\ DOMAIN t = 1..N BY <1>3, <1>4
<1>10. ASSUME NEW n \in 1..N PROVE pos[n] \in T /\ c(pos[n]) = n /\ t[n] = TokenAt(line, pos[n])
  <2>1. pos[n] = CHOOSE i \in T : c(i) = n BY <1>5
  <2>2. pos[n] \in T /\ c(pos[n]) = n BY <1>6, <2>1
  <2>3. t[n] = TokenAt(line, CHOOSE i \in T : c(i) = n) BY <1>4
  <2> QED BY <2>1, <2>2, <2>3
<1>11. ASSUME NEW m \in 1..N, NEW n \in 1..N, m < n PROVE pos[m] < pos[n]
  <2>1. pos[m] \in T /\ pos[n] \in T /\ c(pos[m]) = m /\ c(pos[n]) = n BY <1>10
  <2>2. pos[m] \in Nat /\ pos[n] \in Nat BY <1>14, <2>1, Zenon
  <2>3. pos[m] # pos[n] BY <1>3, <1>11, <2>1
  <2>4. ~(pos[n] < pos[m]) BY <1>3, <1>7, <1>11, <2>1
  <2> QED BY <2>2, <2>3, <2>4
<1>12. ASSUME NEW p \in T PROVE \E n \in 1..N : pos[n] = p
  <2>1. c(p) \in 1..N BY <1>8
  <2> DEFINE n == c(p)
  <2>2. pos[n] \in T /\ c(pos[n]) = n BY <1>10, <2>1
  <2>3. ~(pos[n] < p) /\ ~(p < pos[n]) BY <1>3, <1>7, <2>1, <2>2
  <2>4. pos[n] \in Nat /\ p \in Nat BY <1>14, <2>2, Zenon
  <2>5. pos[n] = p BY <2>3, <2>4
  <2> QED BY <2>1, <2>5
<1>13. /\ \A n \in 1..Len(t) : pos[n] \in T /\ t[n] = TokenAt(line, pos[n])
       /\ \A m, n \in 1..Len(t) : m < n => pos[m] < pos[n]
       /\ \A p \in T : \E n \in 1..Len(t) : pos[n] = p
  BY <1>9, <1>10, <1>11, <1>12
<1> QED BY <1>3, <1>9, <1>13 DEF pos, t, T

\* A token is a run of name symbols that cannot be extended, or one symbol.
LEMMA TokenShape ==
  ASSUME NEW S, NEW line \in Seq(S), NEW p \in TokenStarts(line)
  PROVE  LET x == TokenAt(line, p)
             w == Len(x)
         IN /\ x \in Seq(S) /\ w \in Nat /\ w >= 1 /\ (p + w) - 1 <= Len(line)
            /\ \A k \in 1..w : x[k] = line[(p + k) - 1]
            /\ IF line[p] \in NameSymbols
               THEN /\ \A i \in p..(p + w) - 1 : line[i] \in NameSymbols
                    /\ p + w <= Len(line) => line[p + w] \notin NameSymbols
               ELSE w = 1
<1>1. p \in 1..Len(line) /\ Len(line) \in Nat BY StartFacts
<1>2. line[p] \in S BY <1>1, ElementOfSeq
<1>3. CASE line[p] \notin NameSymbols
  <2>1. TokenAt(line, p) = <<line[p]>> BY <1>3 DEF TokenAt
  <2>2. \A k \in 1..1 : <<line[p]>>[k] = line[(p + k) - 1]
    <3>1. (p + 1) - 1 = p BY <1>1
    <3>2. \A k \in 1..1 : k = 1 OBVIOUS
    <3> QED BY <3>1, <3>2
  <2>3. <<line[p]>> \in Seq(S) /\ Len(<<line[p]>>) = 1 BY <1>2
  <2> QED BY <1>1, <1>3, <2>1, <2>2, <2>3
<1>4. CASE line[p] \in NameSymbols
  <2> DEFINE s == SubSeq(line, p, Len(line))
             x == Span(s, NameSymbols)
             w == Len(x)
  <2>1. s \in Seq(S) /\ Len(s) = (Len(line) - p) + 1
        /\ \A k \in 1..(Len(line) - p) + 1 : s[k] = line[(p + k) - 1]
    <3>1. p \in 1..Len(line) + 1 /\ Len(line) \in 0..Len(line) BY <1>1
    <3> QED BY <1>1, <3>1, Between
  <2>2. TokenAt(line, p) = x BY <1>4 DEF TokenAt
  <2> HIDE DEF s
  <2>3. /\ w \in 0..Len(s) /\ \A i \in 1..w : s[i] \in NameSymbols
        /\ w < Len(s) => s[w + 1] \notin NameSymbols
        /\ x = SubSeq(s, 1, w)
    BY <2>1, RunFacts DEF Run
  <2>4. /\ x \in Seq(S) /\ \A k \in 1..w : x[k] = s[k]
    <3> HIDE DEF x
    <3>1. 1 \in 1..Len(s) + 1 /\ w \in 0..Len(s) BY <2>1, <2>3
    <3>2. /\ SubSeq(s, 1, w) \in Seq(S)
          /\ \A k \in 1..(w - 1) + 1 : SubSeq(s, 1, w)[k] = s[(1 + k) - 1]
      BY <2>1, <3>1, Between
    <3>3. (w - 1) + 1 = w /\ \A k \in 1..w : (1 + k) - 1 = k BY <2>1, <2>3
    <3> QED BY <2>3, <3>2, <3>3
  <2> HIDE DEF x
  <2>5. w \in Nat /\ w <= Len(s) BY <2>1, <2>3
  <2>6. w >= 1
    <3> SUFFICES ASSUME w = 0 PROVE FALSE BY <2>5
    <3>1. s[1] \notin NameSymbols BY <1>1, <2>1, <2>3
    <3>2. s[1] = line[p]
      <4>1. (p + 1) - 1 = p /\ 1 \in 1..(Len(line) - p) + 1 BY <1>1
      <4> QED BY <2>1, <4>1
    <3> QED BY <1>4, <3>1, <3>2
  <2>7. (p + w) - 1 <= Len(line) BY <1>1, <2>1, <2>5
  <2>8. ASSUME NEW k \in 1..w PROVE x[k] = line[(p + k) - 1]
    <3>1. k \in 1..(Len(line) - p) + 1 BY <1>1, <2>1, <2>5
    <3> QED BY <2>1, <2>4, <3>1
  <2>9. ASSUME NEW i \in p..(p + w) - 1 PROVE line[i] \in NameSymbols
    <3>1. (i - p) + 1 \in 1..w /\ (i - p) + 1 \in 1..(Len(line) - p) + 1
          /\ (p + ((i - p) + 1)) - 1 = i
      BY <1>1, <2>1, <2>5
    <3> QED BY <2>1, <2>3, <3>1
  <2>10. p + w <= Len(line) => line[p + w] \notin NameSymbols
    <3> SUFFICES ASSUME p + w <= Len(line) PROVE line[p + w] \notin NameSymbols OBVIOUS
    <3>1. w < Len(s) /\ w + 1 \in 1..(Len(line) - p) + 1 /\ (p + (w + 1)) - 1 = p + w
      BY <1>1, <2>1, <2>5
    <3> QED BY <2>1, <2>3, <3>1
  <2>11. x \in Seq(S) BY <2>4
  <2> HIDE DEF w
  <2>12. /\ x \in Seq(S) /\ w \in Nat /\ w >= 1 /\ (p + w) - 1 <= Len(line)
         /\ \A k \in 1..w : x[k] = line[(p + k) - 1]
         /\ \A i \in p..(p + w) - 1 : line[i] \in NameSymbols
         /\ p + w <= Len(line) => line[p + w] \notin NameSymbols
    BY <2>5, <2>6, <2>7, <2>8, <2>9, <2>10, <2>11
  <2> QED BY <1>4, <2>2, <2>12 DEF w
<1> QED BY <1>3, <1>4

\* Between tokens there are spaces.
LEMMA Gap ==
  ASSUME NEW S, NEW line \in Seq(S), NEW z \in Nat, 1 <= z, NEW x \in z..Len(line) + 1,
         \/ z = 1 \/ line[z - 1] \notin NameSymbols \/ (z <= Len(line) => line[z] \notin NameSymbols),
         \A i \in z..x - 1 : i \notin TokenStarts(line)
  PROVE  \A i \in z..x - 1 : line[i] = Space
<1> DEFINE T == {i \in Nat : \A k \in z..i - 1 : line[k] = Space}
<1>1. Len(line) \in Nat /\ x \in Nat /\ z <= x BY DEF Space
<1>2. z \in T
  <2>1. z..z - 1 = {} OBVIOUS
  <2> QED BY <2>1
<1>3. ASSUME NEW i \in Nat, z <= i, i < x, i \in T PROVE i + 1 \in T
  <2>1. i \in z..x - 1 /\ i \in 1..Len(line) /\ (i + 1) - 1 = i BY <1>1, <1>3
  <2>2. i \notin TokenStarts(line) BY <2>1
  <2>3. line[i] = Space \/ (i > 1 /\ line[i] \in NameSymbols /\ line[i - 1] \in NameSymbols)
    BY <2>1, <2>2, StartFacts
  <2>4. line[i] = Space
    <3>1. CASE i = z BY <2>1, <2>3, <3>1
    <3>2. CASE i > z
      <4>1. i - 1 \in z..i - 1 BY <1>1, <3>2
      <4>2. line[i - 1] = Space BY <1>3, <4>1
      <4> QED BY <2>3, <4>2, SymbolFacts
    <3> QED BY <1>3, <3>1, <3>2
  <2>5. \A k \in z..i : k \in z..i - 1 \/ k = i OBVIOUS
  <2>6. \A k \in z..i : line[k] = Space BY <1>3, <2>4, <2>5
  <2> QED BY <2>1, <2>6
<1> HIDE DEF T
<1>4. z..x \subseteq T BY <1>1, <1>2, <1>3, Induction
<1>5. x \in T BY <1>1, <1>4
<1> QED BY <1>5 DEF T

\* Tokens are nonempty sequences within the line.
LEMMA TokensAreNatural ==
  ASSUME NEW S, NEW line \in Seq(S)
  PROVE  /\ Tokens(line) \in Seq(Seq(S))
         /\ \A n \in 1..Len(Tokens(line)) :
              LET p == Positions(line)[n]
                  w == Len(Tokens(line)[n])
              IN /\ p \in 1..Len(line) /\ p \in Nat /\ w \in Nat /\ w >= 1 /\ (p + w) - 1 <= Len(line)
                 /\ Tokens(line)[n][1] = line[p]
<1> DEFINE t == Tokens(line)
           pos == Positions(line)
<1>1. /\ Len(t) \in Nat /\ DOMAIN t = 1..Len(t)
      /\ \A n \in 1..Len(t) : pos[n] \in TokenStarts(line) /\ t[n] = TokenAt(line, pos[n])
  BY PositionFacts
<1>2. ASSUME NEW n \in 1..Len(t)
      PROVE  /\ t[n] \in Seq(S)
             /\ pos[n] \in 1..Len(line) /\ pos[n] \in Nat /\ Len(t[n]) \in Nat /\ Len(t[n]) >= 1
             /\ (pos[n] + Len(t[n])) - 1 <= Len(line) /\ t[n][1] = line[pos[n]]
  <2> DEFINE p == pos[n]
             x == t[n]
  <2>1. p \in TokenStarts(line) /\ x = TokenAt(line, p) BY <1>1
  <2> HIDE DEF p, x
  <2>2. p \in 1..Len(line) BY <2>1, StartFacts
  <2>3. /\ x \in Seq(S) /\ Len(x) \in Nat /\ Len(x) >= 1 /\ (p + Len(x)) - 1 <= Len(line)
        /\ \A k \in 1..Len(x) : x[k] = line[(p + k) - 1]
    BY <2>1, TokenShape
  <2>4. x[1] = line[p]
    <3>1. 1 \in 1..Len(x) /\ (p + 1) - 1 = p BY <2>2, <2>3
    <3> QED BY <2>3, <3>1
  <2> QED BY <2>2, <2>3, <2>4 DEF p, x
<1>3. t \in Seq(Seq(S))
  <2>1. t = [n \in 1..Len(t) |-> t[n]]
    <3>1. t = [n \in 1..Cardinality(TokenStarts(line)) |->
                 TokenAt(line, CHOOSE i \in TokenStarts(line) : Cardinality(TokenStarts(line) \cap 1..i) = n)]
      BY DEF Tokens
    <3> HIDE DEF t
    <3> QED BY <1>1, <3>1
  <2> HIDE DEF t
  <2>2. t \in [1..Len(t) -> Seq(S)] BY <1>2, <2>1
  <2> QED BY <1>1, <2>2
<1> QED BY <1>2, <1>3

\* There are spaces between two tokens, and at least one between two names.
LEMMA TokenGaps ==
  ASSUME NEW S, NEW line \in Seq(S)
  PROVE  LET t == Tokens(line)
             pos == Positions(line)
         IN /\ Len(t) > 0 => \A i \in 1..pos[1] - 1 : line[i] = Space
            /\ \A n \in 1..Len(t) - 1 :
                 /\ pos[n] + Len(t[n]) <= pos[n + 1]
                 /\ \A i \in pos[n] + Len(t[n])..pos[n + 1] - 1 : line[i] = Space
                 /\ line[pos[n]] \in NameSymbols /\ line[pos[n + 1]] \in NameSymbols =>
                      pos[n] + Len(t[n]) < pos[n + 1]
<1> DEFINE t == Tokens(line)
           pos == Positions(line)
           T == TokenStarts(line)
<1>1. /\ Len(t) \in Nat
      /\ \A n \in 1..Len(t) : pos[n] \in T /\ t[n] = TokenAt(line, pos[n])
      /\ \A m, n \in 1..Len(t) : m < n => pos[m] < pos[n]
      /\ \A p \in T : \E n \in 1..Len(t) : pos[n] = p
  BY PositionFacts
<1>2. Len(line) \in Nat /\ \A p \in T : p \in 1..Len(line) /\ p \in Nat BY StartFacts
<1> HIDE DEF t, pos, T
<1>3. ASSUME Len(t) > 0 PROVE \A i \in 1..pos[1] - 1 : line[i] = Space
  <2>1. 1 \in 1..Len(t) BY <1>1, <1>3
  <2> DEFINE q == pos[1]
  <2>2. q \in T BY <1>1, <2>1
  <2>3. q \in 1..Len(line) + 1 BY <1>2, <2>2
  <2>4. ASSUME NEW i \in 1..q - 1 PROVE i \notin T
    <3> SUFFICES ASSUME i \in T PROVE FALSE OBVIOUS
    <3>1. PICK m \in 1..Len(t) : pos[m] = i BY <1>1
    <3>2. m = 1 \/ 1 < m BY <1>1
    <3>3. m = 1 \/ q < i BY <1>1, <2>1, <3>1, <3>2
    <3> QED BY <2>3, <2>4, <3>1, <3>3
  <2> HIDE DEF q
  <2>5. \A i \in 1..q - 1 : line[i] = Space BY <2>3, <2>4, Gap DEF T
  <2> QED BY <2>5 DEF q
<1>4. ASSUME NEW n \in 1..Len(t) - 1
      PROVE  /\ pos[n] + Len(t[n]) <= pos[n + 1]
             /\ \A i \in pos[n] + Len(t[n])..pos[n + 1] - 1 : line[i] = Space
             /\ line[pos[n]] \in NameSymbols /\ line[pos[n + 1]] \in NameSymbols =>
                  pos[n] + Len(t[n]) < pos[n + 1]
  <2> DEFINE p == pos[n]
             q == pos[n + 1]
             w == Len(t[n])
  <2>1. n \in 1..Len(t) /\ n + 1 \in 1..Len(t) /\ n < n + 1 /\ n \in Nat BY <1>1
  <2>2. p \in T /\ q \in T /\ t[n] = TokenAt(line, p) /\ p < q BY <1>1, <2>1
  <2>3. p \in 1..Len(line) /\ q \in 1..Len(line) /\ p \in Nat /\ q \in Nat BY <1>2, <2>2
  <2>4. ASSUME NEW i \in p + 1..q - 1 PROVE i \notin T
    <3> SUFFICES ASSUME i \in T PROVE FALSE OBVIOUS
    <3>1. PICK m \in 1..Len(t) : pos[m] = i BY <1>1
    <3>2. m < n \/ m = n \/ m = n + 1 \/ n + 1 < m BY <1>1, <2>1
    <3>3. i < p \/ i = p \/ i = q \/ q < i BY <1>1, <2>1, <3>1, <3>2
    <3> QED BY <2>3, <2>4, <3>3
  <2> HIDE DEF p, q
  <2>5. /\ w \in Nat /\ w >= 1 /\ (p + w) - 1 <= Len(line)
        /\ IF line[p] \in NameSymbols
           THEN /\ \A i \in p..(p + w) - 1 : line[i] \in NameSymbols
                /\ p + w <= Len(line) => line[p + w] \notin NameSymbols
           ELSE w = 1
    BY <2>2, TokenShape DEF T
  <2> HIDE DEF w
  <2>6. p + w <= q
    <3> SUFFICES ASSUME q < p + w PROVE FALSE BY <2>3, <2>5
    <3>1. w # 1 /\ q > 1 /\ q \in p..(p + w) - 1 /\ q - 1 \in p..(p + w) - 1 BY <2>2, <2>3, <2>5
    <3>2. line[q] \in NameSymbols /\ line[q - 1] \in NameSymbols BY <2>5, <3>1
    <3> QED BY <2>2, <3>1, <3>2, StartFacts DEF T
  <2>7. \A i \in p + w..q - 1 : line[i] = Space
    <3> DEFINE z == p + w
    <3>1. z \in Nat /\ 1 <= z /\ q \in z..Len(line) + 1 BY <2>3, <2>5, <2>6
    <3>2. line[z - 1] \notin NameSymbols \/ (z <= Len(line) => line[z] \notin NameSymbols)
      <4>1. w = 1 => z - 1 = p BY <2>3
      <4> QED BY <2>5, <4>1
    <3>3. \A i \in z..q - 1 : i \notin T BY <2>3, <2>4, <2>5
    <3> HIDE DEF z
    <3>4. \A i \in z..q - 1 : line[i] = Space BY <3>1, <3>2, <3>3, Gap DEF T
    <3> QED BY <3>4 DEF z
  <2>8. line[p] \in NameSymbols /\ line[q] \in NameSymbols => p + w < q
    <3> SUFFICES ASSUME line[p] \in NameSymbols, line[q] \in NameSymbols, p + w = q PROVE FALSE
      BY <2>3, <2>5, <2>6
    <3>1. p + w <= Len(line) BY <2>3
    <3> QED BY <2>5, <3>1
  <2> QED BY <2>6, <2>7, <2>8 DEF p, q, w
<1> QED BY <1>3, <1>4 DEF t, pos

\* A name begins with a name symbol.
LEMMA NameBegins ==
  ASSUME NEW x, IsName(x), NEW S, x \in Seq(S), Len(x) >= 1
  PROVE  x[1] \in NameSymbols
<1>1. \A i \in DOMAIN x : x[i] \in NameSymbols BY Zenon DEF IsName
<1>2. 1 \in DOMAIN x OBVIOUS
<1> QED BY <1>1, <1>2

\* The name that text begins with after some white space.
LEMMA FirstName ==
  ASSUME NEW S, NEW s \in Seq(S), NEW u \in Nat, NEW w \in Nat, w >= 1, u + w <= Len(s),
         \A i \in 1..u : s[i] \in Whitespace,
         \A i \in u + 1..u + w : s[i] \in NameSymbols,
         u + w < Len(s) => s[(u + w) + 1] \notin NameSymbols
  PROVE  /\ TrimStart(s) = SubSeq(s, u + 1, Len(s))
         /\ ExtractModuleName(s) = {SubSeq(s, u + 1, u + w)}
<1> DEFINE v == SubSeq(s, u + 1, Len(s))
<1>1. Len(s) \in Nat /\ u + 1 \in u + 1..u + w /\ u < Len(s) /\ u \in 0..Len(s) BY DEF Space
<1>2. s[u + 1] \in NameSymbols BY <1>1
<1>3. s[u + 1] \notin Whitespace BY <1>2, SymbolFacts
<1>4. Run(s, Whitespace) = u BY <1>1, <1>3, RunIs
<1>5. TrimStart(s) = v BY <1>4, RunFacts DEF TrimStart
<1>6. v \in Seq(S) /\ Len(v) = Len(s) - u /\ \A k \in 1..Len(s) - u : v[k] = s[u + k]
  <2>1. u + 1 \in 1..Len(s) + 1 /\ Len(s) \in 0..Len(s) BY <1>1
  <2>2. /\ v \in Seq(S)
        /\ Len(v) = IF u + 1 <= Len(s) THEN (Len(s) - (u + 1)) + 1 ELSE 0
        /\ \A k \in 1..(Len(s) - (u + 1)) + 1 : v[k] = s[((u + 1) + k) - 1]
    BY <2>1, Between
  <2>3. (Len(s) - (u + 1)) + 1 = Len(s) - u /\ u + 1 <= Len(s) BY <1>1
  <2>4. \A k \in 1..Len(s) - u : ((u + 1) + k) - 1 = u + k BY <1>1
  <2> HIDE DEF v
  <2> QED BY <2>2, <2>3, <2>4
<1> HIDE DEF v
<1>7. Run(v, NameSymbols) = w
  <2>1. w \in 0..Len(v) BY <1>1, <1>6
  <2>2. \A k \in 1..w : v[k] \in NameSymbols
    <3> SUFFICES ASSUME NEW k \in 1..w PROVE v[k] \in NameSymbols OBVIOUS
    <3>1. k \in 1..Len(s) - u /\ u + k \in u + 1..u + w BY <1>1
    <3> QED BY <1>6, <3>1
  <2>3. w < Len(v) => v[w + 1] \notin NameSymbols
    <3> SUFFICES ASSUME w < Len(v) PROVE v[w + 1] \notin NameSymbols OBVIOUS
    <3>1. w + 1 \in 1..Len(s) - u /\ u + w < Len(s) /\ u + (w + 1) = (u + w) + 1 BY <1>1, <1>6
    <3> QED BY <1>6, <3>1
  <2> QED BY <1>6, <2>1, <2>2, <2>3, RunIs
<1>8. Span(v, NameSymbols) = SubSeq(v, 1, w) BY <1>6, <1>7, RunFacts
<1>9. SubSeq(v, 1, w) = SubSeq(s, u + 1, u + w)
  <2> DEFINE a == SubSeq(v, 1, w)
             b == SubSeq(s, u + 1, u + w)
  <2>1. a \in Seq(S) /\ Len(a) = w /\ \A k \in 1..w : a[k] = v[k]
    <3>1. 1 \in 1..Len(v) + 1 /\ w \in 0..Len(v) BY <1>1, <1>6
    <3>2. /\ a \in Seq(S) /\ Len(a) = IF 1 <= w THEN (w - 1) + 1 ELSE 0
          /\ \A k \in 1..(w - 1) + 1 : a[k] = v[(1 + k) - 1]
      BY <1>6, <3>1, Between
    <3>3. (w - 1) + 1 = w /\ \A k \in 1..w : (1 + k) - 1 = k OBVIOUS
    <3> HIDE DEF a
    <3> QED BY <3>2, <3>3
  <2>2. b \in Seq(S) /\ Len(b) = w /\ \A k \in 1..w : b[k] = s[u + k]
    <3>1. u + 1 \in 1..Len(s) + 1 /\ u + w \in 0..Len(s) BY <1>1
    <3>2. /\ b \in Seq(S) /\ Len(b) = IF u + 1 <= u + w THEN ((u + w) - (u + 1)) + 1 ELSE 0
          /\ \A k \in 1..((u + w) - (u + 1)) + 1 : b[k] = s[((u + 1) + k) - 1]
      BY <3>1, Between
    <3>3. ((u + w) - (u + 1)) + 1 = w /\ u + 1 <= u + w /\ \A k \in 1..w : ((u + 1) + k) - 1 = u + k
      OBVIOUS
    <3> HIDE DEF b
    <3> QED BY <3>2, <3>3
  <2> HIDE DEF a, b
  <2>3. \A k \in 1..w : k \in 1..Len(s) - u BY <1>1
  <2>4. \A k \in 1..Len(a) : a[k] = b[k] BY <1>6, <2>1, <2>2, <2>3
  <2>5. a = b BY <2>1, <2>2, <2>4, SeqEqual
  <2> QED BY <2>5 DEF a, b
<1>10. Len(SubSeq(v, 1, w)) = w
  <2>1. 1 \in 1..Len(v) + 1 /\ w \in 0..Len(v) BY <1>1, <1>6
  <2>2. Len(SubSeq(v, 1, w)) = IF 1 <= w THEN (w - 1) + 1 ELSE 0 BY <1>6, <2>1, Between
  <2> QED BY <2>2
<1>11. SubSeq(v, 1, w) # <<>>
  <2> DEFINE a == SubSeq(v, 1, w)
  <2>1. Len(a) >= 1 BY <1>10
  <2> HIDE DEF a
  <2>2. Len(<<>>) = 0 OBVIOUS
  <2>3. a # <<>> BY <2>1, <2>2
  <2> QED BY <2>3 DEF a
<1>12. ExtractModuleName(s) = {Span(v, NameSymbols)} \ {<<>>}
  BY <1>5, Zenon DEF ExtractModuleName, NameSymbols
<1> DEFINE x == SubSeq(v, 1, w)
<1>13. Span(v, NameSymbols) = x /\ x # <<>> BY <1>8, <1>11, Zenon
<1>14. x = SubSeq(s, u + 1, u + w) BY <1>9, Zenon
<1> HIDE DEF x
<1>15. ExtractModuleName(s) = {x} \ {<<>>} BY <1>12, <1>13, Zenon
<1>16. ExtractModuleName(s) = {x} BY <1>13, <1>15, Zenon
<1>17. TrimStart(s) = SubSeq(s, u + 1, Len(s)) BY <1>5, Zenon DEF v
<1> QED BY <1>14, <1>16, <1>17, Zenon

----------------------------------------------------------------------------
(* The clauses of an import statement *)

\* The tokens of an import statement before its module names.
Before(t) == {1} \cup {n \in 1..Len(t) : t[n] = <<Comma>>}

\* An import statement names a module after import and after each comma.
LEMMA ImportTokens ==
  ASSUME NEW S, NEW t \in Seq(Seq(S)), IsImport(t)
  PROVE  /\ Len(t) > 1 /\ t[1] = <<"import">>
         /\ \A n \in Before(t) : n \in 1..Len(t) /\ n + 1 \in 1..Len(t) /\ IsName(t[n + 1])
         /\ {Head(c) : c \in Clauses(Tail(t))} = {t[n + 1] : n \in Before(t)}
         /\ \A n \in 2..Len(t) : t[n] = <<Comma>> \/ t[n] = <<"as">> \/ IsName(t[n])
<1> DEFINE v == Tail(t)
           K == {i \in DOMAIN v : v[i] = <<Comma>>}
           Part(k) == SubSeq(v, k + 1, NextCut(v, K, k) - 1)
<1>1. Len(t) > 1 /\ t[1] = <<"import">> /\ \A c \in Clauses(v) : IsClause(c) BY Zenon DEF IsImport
<1>2. v \in Seq(Seq(S)) /\ Len(v) = Len(t) - 1 /\ Len(t) \in Nat /\ \A k \in 1..Len(v) : v[k] = t[k + 1]
  BY <1>1
<1>3. K \in SUBSET (1..Len(v)) BY <1>2
<1>4. Clauses(v) = {Part(k) : k \in K \cup {0}} BY Zenon DEF Clauses, Split, NextCut, Comma
<1> HIDE DEF v
<1>5. \A k \in 1..Len(v) : k \in K <=> v[k] = <<Comma>> BY <1>2, SMTT(30)
<1> HIDE DEF K
<1>6. ASSUME NEW k \in K \cup {0}
      PROVE  LET e == NextCut(v, K, k)
                 c == Part(k)
             IN /\ k \in 0..Len(v) /\ e \in k + 1..Len(v) + 1 /\ e \in K \cup {Len(v) + 1}
                /\ Len(c) = (e - 1) - k /\ Len(c) \in Nat /\ \A i \in 1..Len(c) : c[i] = v[k + i]
                /\ IsClause(c)
  <2> DEFINE e == NextCut(v, K, k)
             c == Part(k)
  <2>1. Len(v) \in Nat /\ k \in 0..Len(v) BY <1>2, <1>3
  <2>2. e \in k + 1..Len(v) + 1 /\ e \in K \cup {Len(v) + 1} BY <1>2, <1>3, <2>1, NextCutFacts
  <2>3. IsClause(c) BY <1>1, <1>4
  <2>4. c = SubSeq(v, k + 1, e - 1) OBVIOUS
  <2> HIDE DEF e, c
  <2>5. k + 1 \in 1..Len(v) + 1 /\ e - 1 \in 0..Len(v) /\ k \in Nat /\ e \in Nat BY <2>1, <2>2
  <2>6. /\ Len(c) = IF k + 1 <= e - 1 THEN ((e - 1) - (k + 1)) + 1 ELSE 0
        /\ \A i \in 1..((e - 1) - (k + 1)) + 1 : c[i] = v[((k + 1) + i) - 1]
    BY <1>2, <2>4, <2>5, Between
  <2>7. Len(c) = (e - 1) - k /\ ((e - 1) - (k + 1)) + 1 = (e - 1) - k BY <2>2, <2>5, <2>6
  <2>8. \A i \in 1..Len(c) : ((k + 1) + i) - 1 = k + i /\ i \in 1..((e - 1) - (k + 1)) + 1 BY <2>5, <2>7
  <2>9. Len(c) \in Nat BY <2>2, <2>5, <2>7
  <2>10. \A i \in 1..Len(c) : c[i] = v[k + i] BY <2>6, <2>8
  <2> QED BY <2>1, <2>2, <2>3, <2>7, <2>9, <2>10 DEF e, c
<1>7. ASSUME NEW k \in K \cup {0}
      PROVE  k + 1 \in 1..Len(v) /\ IsName(v[k + 1]) /\ Head(Part(k)) = v[k + 1]
  <2> DEFINE e == NextCut(v, K, k)
             c == Part(k)
  <2>1. /\ k \in 0..Len(v) /\ e \in k + 1..Len(v) + 1
        /\ Len(c) = (e - 1) - k /\ Len(c) \in Nat /\ \A i \in 1..Len(c) : c[i] = v[k + i]
        /\ IsClause(c)
    BY <1>6
  <2> HIDE DEF e, c
  <2>2. IsName(c[1]) /\ (Len(c) = 1 \/ Len(c) = 3) BY <2>1, Zenon DEF IsClause
  <2>3. 1 \in 1..Len(c) /\ k + 1 \in 1..Len(v) BY <1>2, <2>1, <2>2
  <2>4. c[1] = v[k + 1] BY <2>1, <2>3
  <2>5. Head(c) = c[1] OBVIOUS
  <2> QED BY <2>2, <2>3, <2>4, <2>5 DEF c
<1> HIDE DEF Part
<1>8. \A n : n \in Before(t) <=> (n - 1 \in K \cup {0} /\ n \in 1..Len(t))
  <2>1. \A n : n \in Before(t) <=> (n = 1 \/ (n \in 1..Len(t) /\ t[n] = <<Comma>>)) BY DEF Before
  <2>2. t[1] # <<Comma>>
    <3>1. "import" # Comma BY Zenon DEF Comma
    <3> QED BY <1>1, <3>1
  <2>3. ASSUME NEW n \in 2..Len(t) PROVE t[n] = <<Comma>> <=> n - 1 \in K
    <3>1. n - 1 \in 1..Len(v) /\ (n - 1) + 1 = n BY <1>2
    <3> QED BY <1>2, <1>5, <3>1
  <2> SUFFICES ASSUME NEW n PROVE n \in Before(t) <=> (n - 1 \in K \cup {0} /\ n \in 1..Len(t)) OBVIOUS
  <2>4. CASE n \in 1..Len(t)
    <3>1. n = 1 \/ n \in 2..Len(t) BY <1>2, <2>4
    <3>2. n \in 2..Len(t) => n - 1 # 0 BY <1>2
    <3>3. n = 1 => n - 1 = 0 OBVIOUS
    <3> QED BY <2>1, <2>3, <2>4, <3>1, <3>2, <3>3
  <2>5. CASE n \notin 1..Len(t)
    <3>1. 1 \in 1..Len(t) BY <1>1, <1>2
    <3> QED BY <2>1, <2>5, <3>1
  <2> QED BY <2>4, <2>5
<1>9. ASSUME NEW n \in Before(t)
      PROVE  n \in 1..Len(t) /\ n + 1 \in 1..Len(t) /\ IsName(t[n + 1])
             /\ n - 1 \in K \cup {0} /\ Head(Part(n - 1)) = t[n + 1]
  <2>1. n - 1 \in K \cup {0} /\ n \in 1..Len(t) BY <1>8
  <2>2. (n - 1) + 1 = n /\ n \in Nat BY <1>2, <2>1
  <2>3. n \in 1..Len(v) /\ IsName(v[n]) /\ Head(Part(n - 1)) = v[n] BY <1>7, <2>1, <2>2
  <2>4. v[n] = t[n + 1] BY <1>2, <2>3
  <2>5. n + 1 \in 1..Len(t) BY <1>2, <2>2, <2>3
  <2> QED BY <2>1, <2>3, <2>4, <2>5
<1>10. {Head(c) : c \in Clauses(v)} = {t[n + 1] : n \in Before(t)}
  <2>1. ASSUME NEW x \in {Head(c) : c \in Clauses(v)} PROVE x \in {t[n + 1] : n \in Before(t)}
    <3>1. PICK c \in Clauses(v) : x = Head(c) BY <2>1
    <3>2. PICK k \in K \cup {0} : c = Part(k) BY <1>4, <3>1
    <3>3. k \in 0..Len(v) BY <1>6
    <3>4. k + 1 \in 1..Len(t) /\ (k + 1) - 1 = k BY <1>2, <3>3, SMTT(30)
    <3>5. k + 1 \in Before(t) BY <1>8, <3>4
    <3>6. x = t[(k + 1) + 1] BY <1>9, <3>1, <3>2, <3>4, <3>5
    <3> QED BY <3>5, <3>6
  <2>2. ASSUME NEW x \in {t[n + 1] : n \in Before(t)} PROVE x \in {Head(c) : c \in Clauses(v)}
    <3>1. PICK n \in Before(t) : x = t[n + 1] BY <2>2
    <3>2. n - 1 \in K \cup {0} /\ Head(Part(n - 1)) = x BY <1>9, <3>1
    <3>3. Part(n - 1) \in Clauses(v) BY <1>4, <3>2
    <3> QED BY <3>2, <3>3
  <2> QED BY <2>1, <2>2
<1>11. ASSUME NEW k \in 1..Len(v) PROVE v[k] = <<Comma>> \/ v[k] = <<"as">> \/ IsName(v[k])
  <2> SUFFICES ASSUME k \notin K PROVE v[k] = <<"as">> \/ IsName(v[k]) BY <1>5
  <2> DEFINE X == {d \in Nat : d >= 1 /\ k - d \in K \cup {0}}
  <2>1. k \in X /\ X \in SUBSET Nat BY <1>2
  <2>2. PICK d \in X : \A y \in X : d <= y BY <2>1, MinOfNats
  <2>3. d \in Nat /\ d >= 1 /\ k - d \in K \cup {0} BY <2>2
  <2> DEFINE f == k - d
             e == NextCut(v, K, f)
             c == Part(f)
  <2>4. /\ f \in 0..Len(v) /\ e \in f + 1..Len(v) + 1 /\ e \in K \cup {Len(v) + 1}
        /\ Len(c) = (e - 1) - f /\ Len(c) \in Nat /\ \A i \in 1..Len(c) : c[i] = v[f + i]
        /\ IsClause(c)
    BY <1>6, <2>3 DEF Part
  <2>5. k < e
    <3> SUFFICES ASSUME e <= k PROVE FALSE BY <1>2, <2>4
    <3>1. e # k /\ e < k /\ e \in K
      <4>1. e # Len(v) + 1 BY <1>2, <2>4
      <4>2. e \in K BY <2>4, <4>1
      <4>3. e # k BY <4>2
      <4>4. e \in Int BY <2>4
      <4> QED BY <4>2, <4>3, <4>4
    <3>2. k - e \in X /\ k - e < d
      <4>1. e \in Int /\ f < e /\ d \in Nat BY <1>2, <2>3, <2>4
      <4>2. k - e \in Nat /\ k - e >= 1 /\ k - e < d /\ k - (k - e) = e BY <3>1, <4>1
      <4> QED BY <3>1, <4>2
    <3>3. d <= k - e BY <2>2, <3>2
    <3>4. e \in Int BY <2>4
    <3> QED BY <2>3, <3>2, <3>3, <3>4
  <2>6. d \in 1..Len(c) /\ f + d = k BY <1>2, <2>3, <2>4, <2>5
  <2>7. c[d] = v[k] BY <2>4, <2>6
  <2>8. IsClause(c) /\ Len(c) \in Nat BY <2>4
  <2> HIDE DEF c, f, e, X
  <2>9. IsName(c[1]) /\ (Len(c) = 1 \/ (Len(c) = 3 /\ c[2] = <<"as">> /\ IsName(c[3])))
    BY <2>8, Zenon DEF IsClause, IsIdentifier
  <2>11. Len(c) = 1 \/ Len(c) = 3 BY <2>9, Zenon
  <2>12. d \in 1..Len(c) BY <2>6, Zenon
  <2>10. d = 1 \/ (Len(c) = 3 /\ (d = 2 \/ d = 3))
    <3>1. \A i \in 1..1 : i = 1 OBVIOUS
    <3>2. \A i \in 1..3 : i = 1 \/ i = 2 \/ i = 3 OBVIOUS
    <3>3. CASE Len(c) = 1
      <4>1. d \in 1..1 BY <2>12, <3>3, Zenon
      <4> QED BY <3>1, <4>1, Zenon
    <3>4. CASE Len(c) = 3
      <4>1. d \in 1..3 BY <2>12, <3>4, Zenon
      <4> QED BY <3>2, <3>4, <4>1, Zenon
    <3> QED BY <2>11, <3>3, <3>4, Zenon
  <2> QED BY <2>7, <2>9, <2>10
<1>12. ASSUME NEW n \in 2..Len(t) PROVE t[n] = <<Comma>> \/ t[n] = <<"as">> \/ IsName(t[n])
  <2>1. n - 1 \in 1..Len(v) /\ (n - 1) + 1 = n BY <1>2
  <2> QED BY <1>2, <1>11, <2>1
<1> QED BY <1>1, <1>9, <1>10, <1>12 DEF v

----------------------------------------------------------------------------
(* A line and the statement that begins like it *)

\* A symbol that no name reaches is a token.
LEMMA SymbolToken ==
  ASSUME NEW S, NEW line \in Seq(S), NEW j \in 1..Len(line), line[j] # Space,
         line[j] \in NameSymbols =>
           /\ j = 1 \/ line[j - 1] \notin NameSymbols
           /\ j = Len(line) \/ line[j + 1] \notin NameSymbols
  PROVE  \E m \in 1..Len(Tokens(line)) : Positions(line)[m] = j /\ Tokens(line)[m] = <<line[j]>>
<1> DEFINE t == Tokens(line)
           pos == Positions(line)
<1>1. Len(line) \in Nat /\ j \in Nat OBVIOUS
<1>2. j \in TokenStarts(line) BY <1>1, StartFacts
<1>3. PICK m \in 1..Len(t) : pos[m] = j BY <1>2, PositionFacts
<1>4. t[m] = TokenAt(line, j) BY <1>3, PositionFacts
<1> HIDE DEF t, pos
<1> DEFINE x == TokenAt(line, j)
<1>5. /\ x \in Seq(S) /\ Len(x) \in Nat /\ Len(x) >= 1 /\ (j + Len(x)) - 1 <= Len(line)
      /\ \A k \in 1..Len(x) : x[k] = line[(j + k) - 1]
      /\ IF line[j] \in NameSymbols
         THEN \A i \in j..(j + Len(x)) - 1 : line[i] \in NameSymbols
         ELSE Len(x) = 1
  BY <1>2, TokenShape
<1> HIDE DEF x
<1>6. Len(x) = 1
  <2> SUFFICES ASSUME Len(x) # 1 PROVE FALSE OBVIOUS
  <2>1. line[j] \in NameSymbols BY <1>5
  <2>3. Len(x) \in Nat /\ Len(x) >= 1 /\ (j + Len(x)) - 1 <= Len(line) BY <1>5
  <2>4. \A w, l \in Nat : w # 1 /\ w >= 1 /\ (j + w) - 1 <= l =>
                            j # l /\ j + 1 \in j..(j + w) - 1
    BY <1>1
  <2>2. j # Len(line) /\ j + 1 \in j..(j + Len(x)) - 1 BY <1>1, <2>3, <2>4, Zenon
  <2> QED BY <1>5, <2>1, <2>2
<1>7. x[1] = line[j]
  <2>1. 1 \in 1..Len(x) /\ (j + 1) - 1 = j BY <1>1, <1>6
  <2> QED BY <1>5, <2>1
<1>8. x = <<line[j]>> BY <1>5, <1>6, <1>7
<1> QED BY <1>3, <1>4, <1>8 DEF t, pos, x

\* Tokens do not overlap.
LEMMA TokensInOrder ==
  ASSUME NEW S, NEW line \in Seq(S),
         NEW m \in 1..Len(Tokens(line)), NEW n \in 1..Len(Tokens(line)), m < n
  PROVE  Positions(line)[m] + Len(Tokens(line)[m]) <= Positions(line)[n]
<1> DEFINE t == Tokens(line)
           pos == Positions(line)
<1>1. /\ Len(t) \in Nat
      /\ \A i \in 1..Len(t) : pos[i] \in Nat /\ Len(t[i]) \in Nat
      /\ \A i \in 1..Len(t) - 1 : pos[i] + Len(t[i]) <= pos[i + 1]
      /\ \A i, j \in 1..Len(t) : i < j => pos[i] < pos[j]
  <2>1. Len(t) \in Nat /\ \A i, j \in 1..Len(t) : i < j => pos[i] < pos[j] BY PositionFacts
  <2>2. \A i \in 1..Len(t) : pos[i] \in Nat /\ Len(t[i]) \in Nat BY TokensAreNatural
  <2>3. \A i \in 1..Len(t) - 1 : pos[i] + Len(t[i]) <= pos[i + 1] BY TokenGaps
  <2> QED BY <2>1, <2>2, <2>3
<1> HIDE DEF t, pos
<1>2. m \in 1..Len(t) /\ n \in 1..Len(t) BY DEF t
<1>3. m \in 1..Len(t) - 1 /\ m + 1 \in 1..Len(t) /\ (m + 1 = n \/ m + 1 < n) BY <1>1, <1>2
<1>4. pos[m] + Len(t[m]) <= pos[m + 1] BY <1>1, <1>3
<1>5. m + 1 = n \/ pos[m + 1] < pos[n] BY <1>1, <1>2, <1>3
<1>6. pos[m] + Len(t[m]) \in Nat /\ pos[m + 1] \in Nat /\ pos[n] \in Nat BY <1>1, <1>2, <1>3
<1>7. pos[m] + Len(t[m]) <= pos[n] BY <1>4, <1>5, <1>6
<1> QED BY <1>7 DEF t, pos

\* Tokens other than strings and brackets, and before the first of these, are
\* in the common head of the line and the statement.
LEMMA InHead ==
  ASSUME NEW S, NEW P \in Seq(S), NEW F \in Seq(S), NEW h \in Seq(S), Heads(P, F, h),
         NEW n \in 1..Len(Tokens(F)),
         \A m \in 1..n : Tokens(F)[m] # <<"s">> /\ Tokens(F)[m] # <<"(">>
  PROVE  (Positions(F)[n] + Len(Tokens(F)[n])) - 1 <= Len(h)
<1> DEFINE t == Tokens(F)
           pos == Positions(F)
<1>1. Len(h) \in Nat /\ Len(h) <= Len(F) /\ Len(F) \in Nat /\ \A p \in 1..Len(h) : F[p] = h[p]
  <2>1. Begins(h, F) BY Zenon DEF Heads
  <2> QED BY <2>1 DEF Begins
<1>2. pos[n] \in Nat /\ Len(t[n]) \in Nat /\ (pos[n] + Len(t[n])) - 1 <= Len(F) BY TokensAreNatural
<1>3. \A m \in 1..n : t[m] # <<"s">> /\ t[m] # <<"(">> OBVIOUS
<1>4. ASSUME NEW p \in 1..Len(F), F[p] = "s" \/ F[p] = "(" PROVE pos[n] + Len(t[n]) <= p
  <2>1. F[p] # Space /\ F[p] \notin NameSymbols BY <1>4, SymbolFacts
  <2>2. PICK m \in 1..Len(t) : pos[m] = p /\ t[m] = <<F[p]>> BY <2>1, SymbolToken
  <2>3. t[m] = <<"s">> \/ t[m] = <<"(">> BY <1>4, <2>2
  <2>4. m \notin 1..n BY <1>3, <2>3
  <2>5. n < m BY <2>4
  <2> QED BY <2>2, <2>5, TokensInOrder
<1> HIDE DEF t, pos
<1>5. F = h \/ (Len(F) > Len(h) /\ F[Len(h) + 1] = "s") \/ HasBracket(h) BY Zenon DEF Heads
<1>6. CASE F = h BY <1>2, <1>6 DEF t, pos
<1>7. CASE Len(F) > Len(h) /\ F[Len(h) + 1] = "s"
  <2>1. Len(h) + 1 \in 1..Len(F) BY <1>1, <1>7
  <2>2. pos[n] + Len(t[n]) <= Len(h) + 1 BY <1>4, <1>7, <2>1
  <2> QED BY <1>1, <1>2, <2>2 DEF t, pos
<1>8. CASE HasBracket(h)
  <2>1. PICK p \in 1..Len(h) : h[p] = "(" BY <1>8 DEF HasBracket
  <2>2. p \in 1..Len(F) /\ F[p] = "(" BY <1>1, <2>1
  <2>3. pos[n] + Len(t[n]) <= p BY <1>4, <2>2
  <2> QED BY <1>1, <1>2, <2>3 DEF t, pos
<1> QED BY <1>5, <1>6, <1>7, <1>8

\* What the statement P has in the place of the nth token of the line F.
InPiece(P, F, n) ==
  LET q == Positions(F)[n]
      w == Len(Tokens(F)[n])
  IN /\ q \in 1..Len(F) /\ q \in 1..Len(P) /\ q \in Nat /\ w \in Nat /\ w >= 1
     /\ (q + w) - 1 <= Len(P) /\ (q + w) - 1 <= Len(F)
     /\ \A i \in 1..(q + w) - 1 : P[i] = F[i]
     /\ \A k \in 1..w : Tokens(F)[n][k] = P[(q + k) - 1]
     /\ P[q] \in NameSymbols =>
          /\ \A i \in q..(q + w) - 1 : P[i] \in NameSymbols
          /\ q + w <= Len(P) => P[q + w] \notin NameSymbols

\* As far as the common head, the statement has the tokens of the line.
LEMMA TokenInPiece ==
  ASSUME NEW S, NEW P \in Seq(S), NEW F \in Seq(S), NEW h \in Seq(S), Heads(P, F, h),
         NEW n \in 1..Len(Tokens(F)),
         \A m \in 1..n : Tokens(F)[m] # <<"s">> /\ Tokens(F)[m] # <<"(">>
  PROVE  InPiece(P, F, n)
<1> DEFINE t == Tokens(F)
           q == Positions(F)[n]
           x == t[n]
           w == Len(x)
<1>1. Len(h) \in Nat /\ Len(h) <= Len(F) /\ Len(F) \in Nat /\ (\A p \in 1..Len(h) : F[p] = h[p])
      /\ Len(h) <= Len(P) /\ Len(P) \in Nat /\ \A p \in 1..Len(h) : P[p] = h[p]
  <2>1. Begins(h, F) /\ Begins(h, P) BY Zenon DEF Heads
  <2> QED BY <2>1 DEF Begins
<1>2. (q + w) - 1 <= Len(h) BY InHead
<1>3. q \in TokenStarts(F) /\ x = TokenAt(F, q) BY PositionFacts
<1> HIDE DEF q, x
<1>4. q \in 1..Len(F) /\ q \in Nat BY <1>1, <1>3, StartFacts
<1>5. /\ w \in Nat /\ w >= 1
      /\ \A k \in 1..w : x[k] = F[(q + k) - 1]
      /\ F[q] \in NameSymbols =>
           /\ \A i \in q..(q + w) - 1 : F[i] \in NameSymbols
           /\ q + w <= Len(F) => F[q + w] \notin NameSymbols
  BY <1>3, TokenShape
<1>6. Len(P) > Len(h) => P[Len(h) + 1] \in Quotes \cup {"#"} BY Zenon DEF Heads
<1> HIDE DEF w
<1>7. \A i \in 1..(q + w) - 1 : P[i] = F[i]
  <2>1. \A i \in 1..(q + w) - 1 : i \in 1..Len(h) BY <1>1, <1>2, <1>4, <1>5
  <2> QED BY <1>1, <2>1
<1>8. \A k \in 1..w : x[k] = P[(q + k) - 1]
  <2>1. \A k \in 1..w : (q + k) - 1 \in 1..(q + w) - 1 BY <1>4, <1>5
  <2> QED BY <1>5, <1>7, <2>1
<1>9. ASSUME P[q] \in NameSymbols
      PROVE  /\ \A i \in q..(q + w) - 1 : P[i] \in NameSymbols
             /\ q + w <= Len(P) => P[q + w] \notin NameSymbols
  <2>1. q \in 1..(q + w) - 1 BY <1>4, <1>5
  <2>2. F[q] \in NameSymbols BY <1>7, <1>9, <2>1
  <2>3. \A i \in q..(q + w) - 1 : i \in 1..(q + w) - 1 BY <1>4, <1>5
  <2>4. \A i \in q..(q + w) - 1 : P[i] \in NameSymbols BY <1>5, <1>7, <2>2, <2>3
  <2>5. ASSUME q + w <= Len(P) PROVE P[q + w] \notin NameSymbols
    <3>1. CASE q + w <= Len(h)
      <4>1. q + w \in 1..Len(h) /\ q + w <= Len(F) BY <1>1, <1>4, <1>5, <3>1
      <4> QED BY <1>1, <1>5, <2>2, <4>1
    <3>2. CASE ~(q + w <= Len(h))
      <4>0. w \in Nat /\ q \in Nat /\ Len(h) \in Nat /\ Len(P) \in Nat BY <1>1, <1>4, <1>5
      <4>1. q + w = Len(h) + 1 /\ Len(P) > Len(h) BY <1>2, <2>5, <3>2, <4>0 DEF w, q, x
      <4>2. P[q + w] \in Quotes \cup {"#"} BY <1>6, <4>1
      <4> QED BY <4>2, SymbolFacts
    <3> QED BY <3>1, <3>2
  <2> QED BY <2>4, <2>5
<1>10. (q + w) - 1 <= Len(P) /\ (q + w) - 1 <= Len(F) /\ q \in 1..Len(P) BY <1>1, <1>2, <1>4, <1>5
<1> QED BY <1>4, <1>5, <1>7, <1>8, <1>9, <1>10 DEF InPiece, q, w, x

\* Tokens that are not names.
LEMMA NotNames ==
  /\ ~IsName(<<"s">>) /\ ~IsName(<<"(">>) /\ ~IsName(<<Comma>>)
  /\ ~IsName(<<"import">>) /\ ~IsName(<<"from">>) /\ ~IsName(<<"as">>)
<1>1. ASSUME NEW x, x \notin NameSymbols PROVE ~IsName(<<x>>)
  <2> SUFFICES ASSUME IsName(<<x>>) PROVE FALSE OBVIOUS
  <2> DEFINE t == <<x>>
  <2>1. t \in Seq({x}) /\ Len(t) >= 1 /\ t[1] = x OBVIOUS
  <2>2. IsName(t) OBVIOUS
  <2> HIDE DEF t
  <2>3. t[1] \in NameSymbols BY <2>1, <2>2, NameBegins
  <2> QED BY <1>1, <2>1, <2>3
<1>2. "s" \notin NameSymbols /\ "(" \notin NameSymbols /\ Comma \notin NameSymbols BY SymbolFacts
<1>3. \A x \in Keywords : ~IsName(x) BY Zenon DEF IsName
<1>4. <<"import">> \in Keywords /\ <<"from">> \in Keywords /\ <<"as">> \in Keywords
  BY Zenon DEF Keywords
<1> QED BY <1>1, <1>2, <1>3, <1>4, Zenon

\* An import statement has neither strings nor brackets.
LEMMA ImportIsBare ==
  ASSUME NEW S, NEW t \in Seq(Seq(S)), IsImport(t), NEW n \in 1..Len(t)
  PROVE  t[n] # <<"s">> /\ t[n] # <<"(">>
<1>1. t[1] = <<"import">> /\ \A m \in 2..Len(t) : t[m] = <<Comma>> \/ t[m] = <<"as">> \/ IsName(t[m])
  BY ImportTokens
<1>2. n = 1 \/ n \in 2..Len(t) OBVIOUS
<1>3. t[n] = <<"import">> \/ t[n] = <<Comma>> \/ t[n] = <<"as">> \/ IsName(t[n]) BY <1>1, <1>2
<1>4. Comma # "s" /\ Comma # "(" BY SymbolFacts
<1>5. <<Comma>> # <<"s">> /\ <<Comma>> # <<"(">> BY <1>4
<1> QED BY <1>3, <1>5, NotNames, SMTT(30)

\* No statement has a keyword in brackets.
LEMMA BracketsHideKeywords ==
  ASSUME NEW S, NEW line \in Seq(S), KeywordInBrackets(line)
  PROVE  ~IsStatement(Tokens(line))
<1> DEFINE t == Tokens(line)
           pos == Positions(line)
<1>1. t \in Seq(Seq(S)) /\ Len(t) \in Nat
  <2>1. t \in Seq(Seq(S)) BY TokensAreNatural
  <2> HIDE DEF t
  <2> QED BY <2>1
<1>2. PICK j \in 1..Len(line) - 1 : KeywordAt(line, j) /\ \E p \in 1..j - 1 : line[p] = "("
  BY DEF KeywordInBrackets
<1>3. PICK p \in 1..j - 1 : line[p] = "(" BY <1>2
<1>4. /\ j \in 1..Len(line) - 1 /\ line[j] \in {"import", "from"} /\ line[j + 1] = Space
      /\ j = 1 \/ line[j - 1] = Space
  BY <1>2 DEF KeywordAt
<1>5. Len(line) \in Nat /\ j \in 1..Len(line) /\ p \in 1..Len(line) /\ p < j BY <1>3, <1>4
<1>6. line[j] \in NameSymbols /\ line[j] # Space /\ line[p] \notin NameSymbols /\ line[p] # Space
  BY <1>3, <1>4, SymbolFacts
<1>7. PICK m \in 1..Len(t) : pos[m] = j /\ t[m] = <<line[j]>>
  <2>1. j = 1 \/ line[j - 1] \notin NameSymbols BY <1>4, SymbolFacts
  <2>2. line[j + 1] \notin NameSymbols BY <1>4, SymbolFacts
  <2> QED BY <1>5, <1>6, <2>1, <2>2, SymbolToken
<1>8. PICK k \in 1..Len(t) : pos[k] = p /\ t[k] = <<line[p]>> BY <1>5, <1>6, SymbolToken
<1>9. k < m
  <2> SUFFICES ASSUME m <= k PROVE FALSE BY <1>1
  <2>1. m = k \/ m < k BY <1>1
  <2>2. j <= p
    <3>1. CASE m = k BY <1>5, <1>7, <1>8, <3>1
    <3>2. CASE m < k
      <4>1. pos[m] < pos[k] BY <3>2, PositionFacts
      <4> QED BY <1>7, <1>8, <1>5, <4>1
    <3> QED BY <2>1, <3>1, <3>2
  <2> QED BY <1>5, <2>2
<1>10. t[k] = <<"(">> /\ (t[m] = <<"import">> \/ t[m] = <<"from">>) BY <1>3, <1>4, <1>7, <1>8
<1> HIDE DEF t, pos
<1>11. ~IsImport(t)
  <2> SUFFICES ASSUME IsImport(t) PROVE FALSE OBVIOUS
  <2>1. t[k] # <<"(">> BY <1>1, ImportIsBare
  <2> QED BY <1>10, <2>1
<1>12. ~IsFrom(t)
  <2> SUFFICES ASSUME IsFrom(t) PROVE FALSE OBVIOUS
  <2>1. /\ t[1] = <<"from">> /\ (t[2][1] = "." \/ IsName(t[2]))
        /\ \A i \in 4..Len(t) : t[i] # <<"import">> /\ t[i] # <<"from">>
    <3>1. t[1] = <<"from">> /\ (Head(t[2]) = "." \/ IsName(t[2]))
          /\ \A i \in 4..Len(t) : t[i] \notin {<<"import">>, <<"from">>}
      BY Zenon DEF IsFrom
    <3>2. Head(t[2]) = t[2][1] OBVIOUS
    <3>3. \A i \in 4..Len(t) : t[i] # <<"import">> /\ t[i] # <<"from">> BY <3>1, Zenon
    <3> QED BY <3>1, <3>2, <3>3, Zenon
  <2>2. m \notin 4..Len(t) BY <1>10, <2>1
  <2>3. k # 1 BY <1>10, <2>1
  <2>4. m = 3 /\ k = 2 BY <1>1, <1>9, <2>2, <2>3
  <2>5. t[2] = <<"(">> BY <1>10, <2>4
  <2>6. t[2][1] # "." BY <2>5
  <2> QED BY <2>1, <2>5, <2>6, NotNames
<1>13. ~IsOther(t)
  <2>1. t[m] \in Range(t) /\ t[m] \in Keywords
    <3>1. m \in DOMAIN t BY <1>1
    <3>2. t[m] \in Range(t) BY <3>1, Zenon DEF Range
    <3>3. t[m] \in Keywords BY <1>10, Zenon DEF Keywords
    <3> QED BY <3>2, <3>3
  <2> QED BY <2>1, Zenon DEF IsOther
<1> QED BY <1>11, <1>12, <1>13, Zenon DEF IsStatement, t

\* TrimStart drops the white space before q.
LEMMA WhiteRun ==
  ASSUME NEW S, NEW s \in Seq(S), NEW q \in 1..Len(s),
         \A i \in 1..q - 1 : s[i] \in Whitespace, s[q] \notin Whitespace
  PROVE  /\ Run(s, Whitespace) = q - 1
         /\ TrimStart(s) \in Seq(S) /\ Len(TrimStart(s)) = (Len(s) - q) + 1
         /\ \A k \in 1..(Len(s) - q) + 1 : TrimStart(s)[k] = s[(q + k) - 1]
<1>1. Len(s) \in Nat /\ q \in Nat /\ q - 1 \in 0..Len(s) /\ (q - 1) + 1 = q OBVIOUS
<1>2. Run(s, Whitespace) = q - 1 BY <1>1, RunIs
<1>3. TrimStart(s) = SubSeq(s, q, Len(s)) BY <1>1, <1>2, RunFacts DEF TrimStart
<1>4. q \in 1..Len(s) + 1 /\ Len(s) \in 0..Len(s) /\ q <= Len(s) BY <1>1
<1>5. /\ SubSeq(s, q, Len(s)) \in Seq(S)
      /\ Len(SubSeq(s, q, Len(s))) = IF q <= Len(s) THEN (Len(s) - q) + 1 ELSE 0
      /\ \A k \in 1..(Len(s) - q) + 1 : SubSeq(s, q, Len(s))[k] = s[(q + k) - 1]
  BY <1>4, Between
<1> QED BY <1>2, <1>3, <1>4, <1>5

\* Spaces are white space.
LEMMA SpacesAreWhite ==
  ASSUME NEW s, NEW X, \A i \in X : s[i] = Space
  PROVE  \A i \in X : s[i] \in Whitespace
BY SymbolFacts

\* What follows the keyword of a line F and of a statement P that begin alike.
KeywordStart(P, F, kw) ==
  LET g == Positions(F)[1]
      q == Positions(F)[2]
      rest == Tail(TrimStart(P))
  IN /\ StripsKeyword(TrimStart(P), kw)
     /\ g \in Nat /\ q \in Nat /\ 1 <= g /\ g + 1 < q /\ q <= Len(P) /\ q <= Len(F)
     /\ Len(rest) = Len(P) - g
     /\ \A k \in 1..Len(P) - g : rest[k] = P[g + k]
     /\ \A i \in g + 1..q - 1 : P[i] = Space
     /\ P[q] = Tokens(F)[2][1]
     /\ \A i \in 1..g - 1 : F[i] \in Whitespace
     /\ F[g] = kw

\* A line that begins with a keyword and a name is found by the check.
LEMMA KeywordStarts ==
  ASSUME NEW S, NEW P \in Seq(S), NEW F \in Seq(S), NEW h \in Seq(S), Heads(P, F, h),
         NEW kw, kw = "import" \/ kw = "from",
         Len(Tokens(F)) > 1, Tokens(F)[1] = <<kw>>, Tokens(F)[2][1] \in NameSymbols
  PROVE  KeywordStart(P, F, kw) /\ Tail(TrimStart(P)) \in Seq(S)
<1> DEFINE t == Tokens(F)
           pos == Positions(F)
           g == pos[1]
           q == pos[2]
<1>1. 1 \in 1..Len(t) /\ 2 \in 1..Len(t) /\ 1 \in 1..Len(t) - 1 /\ Len(t) \in Nat
  <2>1. Len(t) \in Nat BY PositionFacts
  <2> QED BY <2>1
<1>2. \A m \in 1..2 : t[m] # <<"s">> /\ t[m] # <<"(">>
  <2>1. t[1] = <<kw>> /\ t[2][1] \in NameSymbols OBVIOUS
  <2> HIDE DEF t
  <2>2. t[1] # <<"s">> /\ t[1] # <<"(">> BY <2>1
  <2>3. t[2] # <<"s">> /\ t[2] # <<"(">> BY <2>1, SymbolFacts
  <2>4. \A m \in 1..2 : m = 1 \/ m = 2 OBVIOUS
  <2> QED BY <2>2, <2>3, <2>4
<1>3. \A m \in 1..1 : t[m] # <<"s">> /\ t[m] # <<"(">>
  <2>1. \A m \in 1..1 : m \in 1..2 OBVIOUS
  <2> QED BY <1>2, <2>1
<1>4. /\ q \in 1..Len(F) /\ q \in 1..Len(P) /\ q \in Nat /\ Len(t[2]) \in Nat /\ Len(t[2]) >= 1
      /\ \A i \in 1..(q + Len(t[2])) - 1 : P[i] = F[i]
  <2>1. InPiece(P, F, 2) BY <1>1, <1>2, TokenInPiece
  <2> QED BY <2>1 DEF InPiece
<1>5. g \in 1..Len(P) /\ g \in Nat /\ F[g] = kw /\ F[q] = t[2][1] /\ F[g] \in NameSymbols
  <2>1. g \in 1..Len(P) /\ g \in Nat
    <3>1. InPiece(P, F, 1) BY <1>1, <1>3, TokenInPiece
    <3> QED BY <3>1 DEF InPiece
  <2>2. F[g] = t[1][1] /\ F[q] = t[2][1] BY <1>1, TokensAreNatural
  <2>3. t[1][1] = kw
    <3>1. t[1] = <<kw>> OBVIOUS
    <3> HIDE DEF t
    <3> QED BY <3>1
  <2>4. kw \in NameSymbols BY SymbolFacts
  <2> QED BY <2>1, <2>2, <2>3, <2>4
<1>6. /\ \A i \in 1..g - 1 : F[i] = Space
      /\ g + Len(t[1]) <= q
      /\ \A i \in g + Len(t[1])..q - 1 : F[i] = Space
      /\ g + Len(t[1]) < q
  <2>1. \A i \in 1..g - 1 : F[i] = Space BY <1>1, TokenGaps
  <2>2. /\ pos[1] + Len(t[1]) <= pos[1 + 1]
        /\ \A i \in pos[1] + Len(t[1])..pos[1 + 1] - 1 : F[i] = Space
        /\ F[pos[1]] \in NameSymbols /\ F[pos[1 + 1]] \in NameSymbols =>
             pos[1] + Len(t[1]) < pos[1 + 1]
    BY <1>1, TokenGaps
  <2>3. 1 + 1 = 2 /\ F[q] \in NameSymbols BY <1>5
  <2> QED BY <1>5, <2>1, <2>2, <2>3
<1>7. Len(t[1]) = 1
  <2>1. t[1] = <<kw>> OBVIOUS
  <2> HIDE DEF t
  <2> QED BY <2>1
<1>8. q <= Len(F) /\ Len(F) \in Nat /\ Len(P) \in Nat BY <1>4
<1> HIDE DEF g, q, t, pos
<1>9. \A i \in 1..q : P[i] = F[i]
  <2>1. \A i \in 1..q : i \in 1..(q + Len(t[2])) - 1 BY <1>4
  <2> QED BY <1>4, <2>1
<1>10. /\ 1 <= g /\ g + 1 < q /\ q <= Len(P)
       /\ g \in 1..q /\ q \in 1..q /\ g + 1 \in 1..q /\ g + 1 \in g + 1..q - 1
       /\ \A i \in 1..g - 1 : i \in 1..q
       /\ \A i \in g + 1..q - 1 : i \in 1..q
  BY <1>4, <1>5, <1>6, <1>7
<1>11. \A i \in g + 1..q - 1 : P[i] = Space BY <1>6, <1>7, <1>9, <1>10
<1>12. (\A i \in 1..g - 1 : P[i] \in Whitespace) /\ \A i \in 1..g - 1 : F[i] \in Whitespace
  BY <1>6, <1>9, <1>10, SymbolFacts, SMTT(30)
<1>13. P[g] = kw /\ P[g] \notin Whitespace
  <2>1. P[g] = kw BY <1>5, <1>9, <1>10
  <2> QED BY <1>5, <2>1, SymbolFacts
<1> DEFINE v == TrimStart(P)
<1>14. /\ Run(P, Whitespace) = g - 1
       /\ v \in Seq(S) /\ Len(v) = (Len(P) - g) + 1
       /\ \A k \in 1..(Len(P) - g) + 1 : v[k] = P[(g + k) - 1]
  BY <1>5, <1>12, <1>13, WhiteRun
<1>15. StripsKeyword(v, kw)
  <2> DEFINE u == Run(P, Whitespace)
  <2>1. u + 2 = g + 1 /\ u + 1 = g BY <1>5, <1>14
  <2>2. u + 2 <= Len(P) /\ P[u + 1] = kw /\ P[u + 2] \in Whitespace
    <3>1. g + 1 <= Len(P) BY <1>5, <1>8, <1>10, <1>4
    <3>2. P[g + 1] \in Whitespace BY <1>10, <1>11, SymbolFacts
    <3> QED BY <1>13, <2>1, <3>1, <3>2
  <2> HIDE DEF u
  <2> QED BY <2>2, StripsAt DEF u
<1> DEFINE rest == Tail(v)
<1>16. rest \in Seq(S) /\ Len(rest) = Len(P) - g /\ \A k \in 1..Len(P) - g : rest[k] = P[g + k]
  <2> HIDE DEF v
  <2>1. Len(v) >= 1 BY <1>8, <1>5, <1>14
  <2>2. rest \in Seq(S) /\ Len(rest) = Len(v) - 1 /\ \A k \in 1..Len(v) - 1 : rest[k] = v[k + 1]
    BY <1>14, <2>1
  <2>3. Len(v) - 1 = Len(P) - g BY <1>5, <1>8, <1>14
  <2>4. \A k \in 1..Len(P) - g : k + 1 \in 1..(Len(P) - g) + 1 /\ (g + (k + 1)) - 1 = g + k
    BY <1>5, <1>8
  <2> HIDE DEF rest
  <2> QED BY <1>14, <2>2, <2>3, <2>4
<1> HIDE DEF rest, v
<1>17. P[q] = t[2][1] BY <1>5, <1>9, <1>10
<1> QED BY <1>4, <1>5, <1>8, <1>10, <1>11, <1>12, <1>15, <1>16, <1>17
    DEF KeywordStart, rest, v, g, q, t, pos

\* The l symbols after a.
LEMMA Stretch ==
  ASSUME NEW S, NEW s \in Seq(S), NEW a \in Nat, NEW l \in Nat, a + l <= Len(s)
  PROVE  /\ SubSeq(s, a + 1, a + l) \in Seq(S) /\ Len(SubSeq(s, a + 1, a + l)) = l
         /\ \A k \in 1..l : SubSeq(s, a + 1, a + l)[k] = s[a + k]
<1> DEFINE x == SubSeq(s, a + 1, a + l)
<1>1. Len(s) \in Nat /\ a + 1 \in 1..Len(s) + 1 /\ a + l \in 0..Len(s) OBVIOUS
<1>2. /\ x \in Seq(S) /\ Len(x) = IF a + 1 <= a + l THEN ((a + l) - (a + 1)) + 1 ELSE 0
      /\ \A k \in 1..((a + l) - (a + 1)) + 1 : x[k] = s[((a + 1) + k) - 1]
  BY <1>1, Between
<1>3. ((a + l) - (a + 1)) + 1 = l /\ (~(a + 1 <= a + l) => l = 0)
      /\ \A k \in 1..l : ((a + 1) + k) - 1 = a + k
  OBVIOUS
<1> HIDE DEF x
<1>4. x \in Seq(S) /\ Len(x) = l /\ \A k \in 1..l : x[k] = s[a + k] BY <1>2, <1>3
<1> QED BY <1>4 DEF x

\* The nth token of F is what the part raw of P that begins after g begins with.
BeginsWith(P, F, n, g, raw) ==
  /\ g \in Nat /\ g < Positions(F)[n]
  /\ \A i \in g + 1..Positions(F)[n] - 1 : P[i] \in Whitespace
  /\ g + Len(raw) <= Len(P) /\ \A k \in 1..Len(raw) : raw[k] = P[g + k]
  /\ (Positions(F)[n] + Len(Tokens(F)[n])) - 1 <= g + Len(raw)

\* A name is read off any part of the statement that begins with it.
LEMMA NameAfter ==
  ASSUME NEW S, NEW P \in Seq(S), NEW F \in Seq(S), NEW n \in 1..Len(Tokens(F)), InPiece(P, F, n),
         IsName(Tokens(F)[n]), NEW g, NEW raw \in Seq(S), BeginsWith(P, F, n, g, raw)
  PROVE  ExtractModuleName(raw) = {Tokens(F)[n]}
<1> DEFINE q == Positions(F)[n]
           x == Tokens(F)[n]
           w == Len(x)
           u == (q - g) - 1
<1>1. /\ q \in Nat /\ w \in Nat /\ w >= 1
      /\ \A k \in 1..w : x[k] = P[(q + k) - 1]
      /\ P[q] \in NameSymbols =>
           /\ \A i \in q..(q + w) - 1 : P[i] \in NameSymbols
           /\ q + w <= Len(P) => P[q + w] \notin NameSymbols
  BY DEF InPiece
<1>2. x \in Seq(S)
  <2>1. Tokens(F) \in Seq(Seq(S)) BY TokensAreNatural
  <2> QED BY <2>1, ElementOfSeq
<1>3. IsName(x) OBVIOUS
<1>4. /\ g \in Nat /\ g < q /\ (\A i \in g + 1..q - 1 : P[i] \in Whitespace)
      /\ (q + w) - 1 <= g + Len(raw) /\ g + Len(raw) <= Len(P)
      /\ \A k \in 1..Len(raw) : raw[k] = P[g + k]
  BY DEF BeginsWith
<1> HIDE DEF x, q
<1>5. P[q] \in NameSymbols
  <2>1. x[1] \in NameSymbols BY <1>1, <1>2, <1>3, NameBegins
  <2>2. 1 \in 1..w /\ (q + 1) - 1 = q BY <1>1
  <2> QED BY <1>1, <2>1, <2>2
<1> HIDE DEF w
<1>6. Len(raw) \in Nat /\ Len(P) \in Nat /\ u \in Nat /\ u + w <= Len(raw) BY <1>1, <1>4
<1>7. \A i \in 1..u : raw[i] \in Whitespace
  <2> SUFFICES ASSUME NEW i \in 1..u PROVE raw[i] \in Whitespace OBVIOUS
  <2>1. i \in 1..Len(raw) /\ g + i \in g + 1..q - 1 BY <1>1, <1>4, <1>6
  <2> QED BY <1>4, <2>1
<1>8. \A i \in u + 1..u + w : raw[i] \in NameSymbols
  <2> SUFFICES ASSUME NEW i \in u + 1..u + w PROVE raw[i] \in NameSymbols OBVIOUS
  <2>1. i \in 1..Len(raw) /\ g + i \in q..(q + w) - 1 BY <1>1, <1>4, <1>6
  <2> QED BY <1>1, <1>4, <1>5, <2>1
<1>9. u + w < Len(raw) => raw[(u + w) + 1] \notin NameSymbols
  <2> SUFFICES ASSUME u + w < Len(raw) PROVE raw[(u + w) + 1] \notin NameSymbols OBVIOUS
  <2>1. (u + w) + 1 \in 1..Len(raw) /\ g + ((u + w) + 1) = q + w /\ q + w <= Len(P) BY <1>1, <1>4, <1>6
  <2> QED BY <1>1, <1>4, <1>5, <2>1
<1> HIDE DEF u
<1>10. ExtractModuleName(raw) = {SubSeq(raw, u + 1, u + w)}
  <2>1. u \in Nat /\ w \in Nat /\ w >= 1 /\ u + w <= Len(raw) BY <1>1, <1>6
  <2> QED BY <1>7, <1>8, <1>9, <2>1, FirstName, Zenon
<1> DEFINE y == SubSeq(raw, u + 1, u + w)
<1>11. y \in Seq(S) /\ Len(y) = w /\ \A k \in 1..w : y[k] = raw[u + k]
  <2>1. u \in Nat /\ w \in Nat /\ u + w <= Len(raw) BY <1>1, <1>6
  <2> QED BY <2>1, Stretch, Zenon
<1> HIDE DEF y
<1>12. \A k \in 1..w : y[k] = x[k]
  <2> SUFFICES ASSUME NEW k \in 1..w PROVE y[k] = x[k] OBVIOUS
  <2>1. u + k \in 1..Len(raw) /\ g + (u + k) = (q + k) - 1
    <3>1. w \in Nat /\ q \in Nat /\ g \in Nat /\ Len(raw) \in Nat /\ u \in Nat /\ u + w <= Len(raw)
      BY <1>1, <1>4, <1>6
    <3>2. k \in 1..w /\ u = (q - g) - 1 BY DEF u
    <3> QED BY <3>1, <3>2
  <2>2. y[k] = raw[u + k] BY <1>11
  <2>3. raw[u + k] = P[g + (u + k)] BY <1>4, <2>1
  <2>4. x[k] = P[(q + k) - 1] BY <1>1
  <2> QED BY <2>1, <2>2, <2>3, <2>4
<1>13. x = y
  <2>1. Len(x) = Len(y) /\ \A k \in 1..Len(x) : x[k] = y[k] BY <1>11, <1>12 DEF w
  <2> QED BY <1>2, <1>11, <2>1, SeqEqual
<1> QED BY <1>10, <1>13, Zenon DEF x, y

\* A line without strings and brackets is the head itself.
LEMMA HeadsWhenEqual ==
  ASSUME NEW P, NEW F, NEW h, Heads(P, F, h),
         ~(Len(F) > Len(h) /\ F[Len(h) + 1] = "s"), ~HasBracket(h)
  PROVE  F = h /\ (ImportLine(h) => \A p \in Len(h) + 1..Len(P) : P[p] # ",")
BY Zenon DEF Heads

\* parse_import_clause finds the modules of an import statement.
LEMMA ImportStatement ==
  ASSUME NEW S, NEW P \in Seq(S), NEW F \in Seq(S), NEW h \in Seq(S), Heads(P, F, h),
         IsImport(Tokens(F))
  PROVE  ImportsOf(TrimStart(P)) = {Tokens(F)[n + 1] : n \in Before(Tokens(F))}
<1> DEFINE t == Tokens(F)
           pos == Positions(F)
           g == pos[1]
           v == TrimStart(P)
           rest == Tail(v)
           D == {i \in 1..Len(rest) : rest[i] = Comma}
           Part(d) == SubSeq(rest, d + 1, NextCut(rest, D, d) - 1)
<1>1. t \in Seq(Seq(S)) /\ \A n \in 1..Len(t) : Len(t[n]) \in Nat /\ pos[n] \in Nat BY TokensAreNatural
<1>2. IsImport(t) OBVIOUS
<1>3. \A i, j \in 1..Len(t) : i < j => pos[i] < pos[j] BY PositionFacts
<1>4. \A n \in 1..Len(t) - 1 : \A i \in pos[n] + Len(t[n])..pos[n + 1] - 1 : F[i] = Space
  BY TokenGaps
<1>5. /\ Len(t) > 1 /\ t[1] = <<"import">>
      /\ \A n \in Before(t) : n \in 1..Len(t) /\ n + 1 \in 1..Len(t) /\ IsName(t[n + 1])
  BY <1>1, <1>2, ImportTokens
<1>6. ASSUME NEW n \in 1..Len(t) PROVE InPiece(P, F, n)
  <2>1. ASSUME NEW m \in 1..n PROVE t[m] # <<"s">> /\ t[m] # <<"(">>
    <3>1. m \in 1..Len(t) BY <1>1
    <3> QED BY <1>1, <1>2, <3>1, ImportIsBare
  <2> QED BY <2>1, TokenInPiece
<1>7. 1 \in Before(t) /\ 2 \in 1..Len(t) /\ 1 \in 1..Len(t) /\ Len(t) \in Nat
  <2> HIDE DEF t
  <2> QED BY <1>1, <1>5 DEF Before
<1>8. t[2][1] \in NameSymbols
  <2> HIDE DEF t
  <2>1. t[2] \in Seq(S) BY <1>1, <1>7, ElementOfSeq
  <2>2. IsName(t[1 + 1]) BY <1>5, <1>7
  <2>3. 1 + 1 = 2 OBVIOUS
  <2>4. IsName(t[2]) BY <2>2, <2>3
  <2>5. InPiece(P, F, 2) BY <1>6, <1>7
  <2>6. Len(t[2]) >= 1 BY <2>5 DEF InPiece, t
  <2> QED BY <2>1, <2>4, <2>6, NameBegins
<1>9. /\ StripsKeyword(v, "import")
      /\ g \in Nat /\ 1 <= g
      /\ rest \in Seq(S) /\ Len(rest) = Len(P) - g /\ \A k \in 1..Len(P) - g : rest[k] = P[g + k]
      /\ g <= Len(P) /\ g <= Len(F) /\ (\A i \in 1..g - 1 : F[i] \in Whitespace) /\ F[g] = "import"
  <2> DEFINE kw == "import"
             q == pos[2]
  <2>1. kw = "import" \/ kw = "from" OBVIOUS
  <2>2. Len(t) > 1 /\ t[1] = <<kw>> /\ t[2][1] \in NameSymbols BY <1>5, <1>8
  <2> HIDE DEF kw
  <2>5. KeywordStart(P, F, kw) /\ rest \in Seq(S) BY <2>1, <2>2, KeywordStarts
  <2>3. /\ StripsKeyword(v, kw)
        /\ g \in Nat /\ q \in Nat /\ 1 <= g /\ g + 1 < q /\ q <= Len(P) /\ q <= Len(F)
        /\ rest \in Seq(S) /\ Len(rest) = Len(P) - g /\ \A k \in 1..Len(P) - g : rest[k] = P[g + k]
        /\ (\A i \in 1..g - 1 : F[i] \in Whitespace) /\ F[g] = kw
    BY <2>5, Zenon DEF KeywordStart
  <2> HIDE DEF g, q, rest, v
  <2>4. g <= Len(P) /\ g <= Len(F) BY <2>3
  <2> QED BY <2>3, <2>4 DEF kw
\* The statement goes on after the line without a comma.
<1>10. F = h /\ ~(Len(F) > Len(h) /\ F[Len(h) + 1] = "s") /\ ~HasBracket(h)
  <2>1. F = h \/ (Len(F) > Len(h) /\ F[Len(h) + 1] = "s") \/ HasBracket(h) BY Zenon DEF Heads
  <2>2. ASSUME NEW p \in 1..Len(F), F[p] = "s" \/ F[p] = "(" PROVE FALSE
    <3>1. F[p] # Space /\ F[p] \notin NameSymbols BY <2>2, SymbolFacts
    <3>2. PICK m \in 1..Len(t) : pos[m] = p /\ t[m] = <<F[p]>> BY <3>1, SymbolToken
    <3>3. t[m] = <<"s">> \/ t[m] = <<"(">> BY <2>2, <3>2
    <3> QED BY <1>1, <1>2, <3>3, ImportIsBare
  <2>3. Len(h) \in Nat /\ Len(h) <= Len(F) /\ Len(F) \in Nat /\ \A p \in 1..Len(h) : F[p] = h[p]
    <3>1. Begins(h, F) BY Zenon DEF Heads
    <3> QED BY <3>1 DEF Begins
  <2>4. ~(Len(F) > Len(h) /\ F[Len(h) + 1] = "s")
    <3> SUFFICES ASSUME Len(F) > Len(h), F[Len(h) + 1] = "s" PROVE FALSE OBVIOUS
    <3>1. Len(h) + 1 \in 1..Len(F) BY <2>3
    <3> QED BY <2>2, <3>1
  <2>5. ~HasBracket(h)
    <3> SUFFICES ASSUME NEW p \in 1..Len(h), h[p] = "(" PROVE FALSE BY DEF HasBracket
    <3>1. p \in 1..Len(F) /\ F[p] = "(" BY <2>3
    <3> QED BY <2>2, <3>1
  <2> QED BY <2>1, <2>4, <2>5
<1>11. ImportLine(h)
  <2>1. g \in 1..Len(F) BY <1>9
  <2>2. F[g] \notin Whitespace BY <1>9, SymbolFacts
  <2> HIDE DEF g
  <2>3. /\ TrimStart(F) \in Seq(S) /\ Len(TrimStart(F)) = (Len(F) - g) + 1
        /\ \A k \in 1..(Len(F) - g) + 1 : TrimStart(F)[k] = F[(g + k) - 1]
    BY <1>9, <2>1, <2>2, WhiteRun
  <2>4. Len(TrimStart(F)) >= 1 /\ 1 \in 1..(Len(F) - g) + 1 /\ (g + 1) - 1 = g BY <2>1, <2>3
  <2>5. TrimStart(F)[1] = "import" BY <1>9, <2>3, <2>4
  <2>6. TrimStart(F) # <<>> /\ Head(TrimStart(F)) = TrimStart(F)[1] BY <2>4
  <2> QED BY <1>10, <2>5, <2>6 DEF ImportLine
<1>12. \A p \in Len(F) + 1..Len(P) : P[p] # Comma
  <2>1. F = h /\ (ImportLine(h) => \A p \in Len(h) + 1..Len(P) : P[p] # ",")
    BY HeadsWhenEqual, <1>10
  <2>2. \A p \in Len(h) + 1..Len(P) : P[p] # Comma BY <1>11, <2>1, Zenon DEF Comma
  <2> QED BY <1>10, <2>2, Zenon
<1>13. Len(F) \in Nat /\ Len(P) \in Nat /\ Len(F) <= Len(P) /\ \A p \in 1..Len(F) : P[p] = F[p]
  <2>1. Begins(h, P) BY Zenon DEF Heads
  <2> QED BY <1>10, <2>1 DEF Begins
<1>14. /\ Len(t) \in Nat
       /\ Before(t) = {1} \cup {n \in 1..Len(t) : t[n] = <<Comma>>}
       /\ \A n \in 1..Len(t) : pos[n] \in 1..Len(F) /\ F[pos[n]] = t[n][1] /\ Len(t[n]) >= 1
                              /\ (pos[n] + Len(t[n])) - 1 <= Len(F)
  <2>1. Len(t) \in Nat BY <1>7
  <2>2. Before(t) = {1} \cup {n \in 1..Len(t) : t[n] = <<Comma>>} BY DEF Before
  <2>3. \A n \in 1..Len(t) : pos[n] \in 1..Len(F) /\ t[n][1] = F[pos[n]] /\ Len(t[n]) >= 1
                              /\ (pos[n] + Len(t[n])) - 1 <= Len(F)
    BY TokensAreNatural
  <2> QED BY <2>1, <2>2, <2>3
\* The commas of the statement are the commas of the line.
<1>15. ASSUME NEW d \in D \cup {0} PROVE \E n \in Before(t) : pos[n] = g + d
  <2>1. CASE d = 0
    <3>1. pos[1] = g + d BY <1>9, <2>1
    <3> QED BY <1>7, <3>1
  <2>2. CASE d \in D
    <3>1. d \in 1..Len(P) - g /\ P[g + d] = Comma BY <1>9, <2>2
    <3> HIDE DEF D, rest, v, g
    <3>2. g + d \in 1..Len(F)
      <4>1. g + d \in 1..Len(P) BY <1>9, <1>13, <3>1
      <4>2. ~(g + d \in Len(F) + 1..Len(P)) BY <1>12, <3>1
      <4> QED BY <1>13, <4>1, <4>2
    <3>3. F[g + d] = Comma BY <1>13, <3>1, <3>2
    <3>4. F[g + d] # Space /\ F[g + d] \notin NameSymbols BY <3>3, SymbolFacts
    <3>5. PICK m \in 1..Len(t) : pos[m] = g + d /\ t[m] = <<F[g + d]>> BY <3>2, <3>4, SymbolToken
    <3>6. m \in Before(t) BY <1>14, <3>3, <3>5
    <3> QED BY <3>5, <3>6
  <2> QED BY <2>1, <2>2
<1>16. ASSUME NEW n \in Before(t)
       PROVE  pos[n] - g \in D \cup {0} /\ Len(t[n]) = 1
  <2>1. n = 1 \/ (n \in 1..Len(t) /\ t[n] = <<Comma>>) BY <1>14
  <2>2. CASE n = 1
    <3>1. pos[n] - g = 0 BY <1>9, <2>2
    <3>2. t[n] = <<"import">> BY <1>5, <2>2
    <3> HIDE DEF t
    <3> QED BY <3>1, <3>2
  <2>3. CASE n \in 1..Len(t) /\ t[n] = <<Comma>>
    <3>1. pos[n] \in 1..Len(F) /\ F[pos[n]] = t[n][1] BY <1>14, <2>3
    <3> HIDE DEF t
    <3>2. t[n][1] = Comma /\ Len(t[n]) = 1 BY <2>3
    <3>3. n # 1
      <4>1. "import" # Comma BY Zenon DEF Comma
      <4> QED BY <1>5, <2>3, <4>1
    <3>4. 1 < n BY <2>3, <3>3
    <3>5. g < pos[n] BY <1>3, <1>7, <2>3, <3>4
    <3> HIDE DEF rest, v, g
    <3>6. pos[n] - g \in 1..Len(rest) /\ pos[n] - g \in 1..Len(P) - g /\ g + (pos[n] - g) = pos[n]
      <4>1. \A p, a, f, l \in Nat : p \in 1..f /\ f <= l /\ a < p =>
              p - a \in 1..l - a /\ a + (p - a) = p
        OBVIOUS
      <4>2. pos[n] \in Nat /\ g \in Nat /\ Len(rest) = Len(P) - g BY <1>9, <3>1
      <4> QED BY <1>13, <3>1, <3>5, <4>1, <4>2
    <3>7. rest[pos[n] - g] = P[pos[n]] BY <1>9, <3>6
    <3>8. P[pos[n]] = Comma BY <1>13, <3>1, <3>2
    <3> QED BY <3>2, <3>6, <3>7, <3>8
  <2> QED BY <2>1, <2>2, <2>3
<1> HIDE DEF t
<1>17. ASSUME NEW n \in Before(t) PROVE ExtractModuleName(Part(pos[n] - g)) = {t[n + 1]}
  <2> DEFINE d == pos[n] - g
             e == NextCut(rest, D, d)
             raw == Part(d)
             q == pos[n + 1]
             w == Len(t[n + 1])
  <2>1. n \in 1..Len(t) /\ n + 1 \in 1..Len(t) /\ IsName(t[n + 1]) /\ n \in 1..Len(t) - 1
    <3>1. n \in 1..Len(t) /\ n + 1 \in 1..Len(t) /\ IsName(t[n + 1]) BY <1>5
    <3> QED BY <1>7, <3>1
  <2>2. d \in D \cup {0} /\ Len(t[n]) = 1 BY <1>16
  <2>3. /\ q \in Nat /\ w \in Nat /\ w >= 1 /\ (q + w) - 1 <= Len(P) /\ pos[n] \in Nat /\ pos[n] < q
        /\ q >= 1
    <3>1. n < n + 1 BY <2>1
    <3> QED BY <1>1, <1>3, <1>13, <1>14, <2>1, <3>1
  <2>4. \A i \in pos[n] + 1..q - 1 : F[i] = Space BY <1>4, <2>1, <2>2
  <2>5. InPiece(P, F, n + 1) BY <1>6, <2>1
  <2>6. t[n + 1][1] \in NameSymbols /\ P[q] \in NameSymbols
    <3>1. t[n + 1] \in Seq(S) BY <1>1, <2>1, ElementOfSeq
    <3>2. t[n + 1][1] \in NameSymbols BY <2>1, <2>3, <3>1, NameBegins
    <3>3. q \in 1..Len(F) /\ F[q] = t[n + 1][1] BY <1>14, <2>1
    <3> QED BY <1>13, <3>2, <3>3
  <2>7. \A i \in q..(q + w) - 1 : P[i] \in NameSymbols BY <2>5, <2>6 DEF InPiece, t
  <2>8. \A i \in pos[n] + 1..q - 1 : P[i] = Space
    <3>1. \A i \in pos[n] + 1..q - 1 : i \in 1..Len(F)
      <4>1. q \in 1..Len(F) BY <1>14, <2>1
      <4> QED BY <1>13, <2>3, <4>1
    <3> QED BY <1>13, <2>4, <3>1
  <2>9. D \in SUBSET (1..Len(rest)) OBVIOUS
  <2>10. \A i \in 1..Len(rest) : i \in D <=> rest[i] = Comma OBVIOUS
  <2> HIDE DEF D
  <2>11. d \in 0..Len(rest) /\ d \in Nat /\ g + d = pos[n]
    <3> HIDE DEF rest, v, d
    <3>3. Len(rest) \in Nat BY <1>9
    <3>1. d \in 0..Len(rest) BY <2>2, <2>9, <3>3
    <3>2. d \in Nat BY <3>1
    <3>4. d = pos[n] - g BY DEF d
    <3> HIDE DEF g, pos
    <3> QED BY <1>9, <2>3, <3>1, <3>2, <3>4
  <2>12. e \in D \cup {Len(rest) + 1} /\ e \in d + 1..Len(rest) + 1
    <3>1. rest \in Seq(S) BY <1>9
    <3> HIDE DEF rest, d
    <3>2. /\ NextCut(rest, D, d) \in D \cup {Len(rest) + 1}
          /\ NextCut(rest, D, d) \in d + 1..Len(rest) + 1
      BY <2>9, <2>11, <3>1, NextCutFacts, Zenon
    <3> QED BY <3>2
  <2>13. raw = SubSeq(rest, d + 1, e - 1) OBVIOUS
  <2> HIDE DEF raw, e, d, q, w, v, rest, g, pos
  <2>14. (q + w) - 1 < g + e
    <3>1. CASE e = Len(rest) + 1 BY <1>9, <1>13, <2>3, <3>1
    <3>2. CASE e \in D
      <4>1. e \in 1..Len(P) - g /\ rest[e] = Comma BY <1>9, <2>9, <2>10, <3>2
      <4>2. P[g + e] = Comma BY <1>9, <4>1
      <4>3. P[g + e] # Space /\ P[g + e] \notin NameSymbols BY <4>2, SymbolFacts
      <4>4. g + e \notin pos[n] + 1..q - 1 /\ g + e \notin q..(q + w) - 1 BY <2>7, <2>8, <4>3
      <4>5. pos[n] + 1 <= g + e /\ g + e \in Nat
        <5>1. e \in Nat /\ d + 1 <= e BY <2>11, <2>12
        <5> QED BY <1>9, <2>11, <5>1
      <4> QED BY <2>3, <4>4, <4>5
    <3> QED BY <2>12, <3>1, <3>2
  <2>15. /\ raw \in Seq(S) /\ Len(raw) = (e - 1) - d
         /\ \A k \in 1..Len(raw) : raw[k] = P[pos[n] + k]
    <3> DEFINE l == (e - 1) - d
    <3>1. l \in Nat /\ d + l = e - 1 /\ d + l <= Len(rest) BY <1>9, <2>11, <2>12
    <3>2. raw = SubSeq(rest, d + 1, d + l) BY <2>13, <3>1
    <3>3. rest \in Seq(S) /\ d \in Nat BY <1>9, <2>11
    <3>6. Len(raw) = l /\ l = (e - 1) - d /\ raw \in Seq(S)
      <4> HIDE DEF l
      <4>1. raw \in Seq(S) /\ Len(raw) = l BY <3>1, <3>2, <3>3, Stretch, Zenon
      <4> QED BY <4>1 DEF l
    <3> HIDE DEF l
    <3>4. \A k \in 1..l : raw[k] = rest[d + k] BY <3>1, <3>2, <3>3, Stretch, Zenon
    <3>5. \A k \in 1..l : d + k \in 1..Len(P) - g /\ g + (d + k) = pos[n] + k
      BY <1>9, <2>3, <2>11, <3>1
    <3> QED BY <1>9, <3>4, <3>5, <3>6
  <2>16. /\ pos[n] + Len(raw) <= Len(P) /\ (q + w) - 1 <= pos[n] + Len(raw)
    <3>1. e \in Nat /\ e <= (Len(P) - g) + 1 BY <1>9, <1>13, <2>11, <2>12
    <3> QED BY <1>9, <1>13, <2>3, <2>11, <2>14, <2>15, <3>1, SMTT(30)
  <2>17. \A i \in pos[n] + 1..q - 1 : P[i] \in Whitespace BY <2>8, SymbolFacts
  <2>18. ExtractModuleName(raw) = {Tokens(F)[n + 1]}
    <3> DEFINE k == n + 1
               a == pos[n]
    <3>1. k \in 1..Len(Tokens(F)) /\ IsName(Tokens(F)[k]) /\ InPiece(P, F, k) BY <2>1, <2>5 DEF t
    <3>2. BeginsWith(P, F, k, a, raw) BY <2>3, <2>15, <2>16, <2>17 DEF BeginsWith, t, q, w, pos
    <3>3. raw \in Seq(S) BY <2>15
    <3> HIDE DEF k, a
    <3>4. ExtractModuleName(raw) = {Tokens(F)[k]} BY <3>1, <3>2, <3>3, NameAfter
    <3> QED BY <3>4 DEF k
  <2> QED BY <2>18 DEF raw, d, t
<1>18. ParseImportClause(rest) = UNION {ExtractModuleName(Part(d)) : d \in D \cup {0}}
  <2>1. ParseImportClause(rest) = UNION {ExtractModuleName(raw) : raw \in Split(rest, D)}
    BY Zenon DEF ParseImportClause, Comma
  <2>2. Split(rest, D) = {Part(d) : d \in D \cup {0}} BY Zenon DEF Split, NextCut
  <2> QED BY <2>1, <2>2, ZenonT(60)
<1>19. ImportsOf(v) = ParseImportClause(rest)
  <2> HIDE DEF v
  <2>1. ~StripsKeyword(v, "from")
    <3>1. Head(v) = "import" BY <1>9 DEF StripsKeyword
    <3> QED BY <3>1 DEF StripsKeyword
  <2> QED BY <1>9, <2>1, Zenon DEF ImportsOf, rest
<1> HIDE DEF Part, D, rest, g, v, pos
<1>20. \A d \in D \cup {0} : \E n \in Before(t) : d = pos[n] - g
  <2> SUFFICES ASSUME NEW d \in D \cup {0} PROVE \E n \in Before(t) : d = pos[n] - g OBVIOUS
  <2>1. PICK n \in Before(t) : pos[n] = g + d BY <1>15
  <2>2. d \in Nat BY <1>9, <1>13 DEF D
  <2>3. d = pos[n] - g BY <1>9, <2>1, <2>2
  <2> QED BY <2>3
<1>21. UNION {ExtractModuleName(Part(d)) : d \in D \cup {0}} = {t[n + 1] : n \in Before(t)}
  <2>1. ASSUME NEW x \in UNION {ExtractModuleName(Part(d)) : d \in D \cup {0}}
        PROVE  x \in {t[n + 1] : n \in Before(t)}
    <3>1. PICK d \in D \cup {0} : x \in ExtractModuleName(Part(d)) BY <2>1
    <3>2. PICK n \in Before(t) : d = pos[n] - g BY <1>20
    <3>3. x \in {t[n + 1]} BY <1>17, <3>1, <3>2
    <3> QED BY <3>3
  <2>2. ASSUME NEW n \in Before(t)
        PROVE  t[n + 1] \in UNION {ExtractModuleName(Part(d)) : d \in D \cup {0}}
    <3>1. t[n + 1] \in ExtractModuleName(Part(pos[n] - g)) BY <1>17
    <3>2. pos[n] - g \in D \cup {0} BY <1>16
    <3> QED BY <3>1, <3>2
  <2> QED BY <2>1, <2>2
<1> QED BY <1>18, <1>19, <1>21 DEF t, v

NonWhite(s) == {s[i] : i \in 1..Len(s)} \ Whitespace
AfterWord(s) == Beyond(TrimStart(s), NonWhite(s))

\* The first word of s begins at q.
LEMMA FirstWordAt ==
  ASSUME NEW S, NEW s \in Seq(S), NEW q \in 1..Len(s),
         \A i \in 1..q - 1 : s[i] \in Whitespace, s[q] \notin Whitespace
  PROVE  FirstWord(s) \in Seq(S) /\ FirstWord(s) # <<>> /\ Head(FirstWord(s)) = s[q]
<1> DEFINE v == TrimStart(s)
           m == Run(v, NonWhite(s))
           x == FirstWord(s)
<1>1. v \in Seq(S) /\ Len(v) = (Len(s) - q) + 1 /\ \A k \in 1..(Len(s) - q) + 1 : v[k] = s[(q + k) - 1]
  BY WhiteRun
<1>2. x = Span(v, NonWhite(s)) BY Zenon DEF FirstWord, NonWhite
<1> HIDE DEF v, x
<1>3. /\ m \in 0..Len(v) /\ (m < Len(v) => v[m + 1] \notin NonWhite(s)) /\ x = SubSeq(v, 1, m)
  BY <1>1, <1>2, RunFacts
<1>4. Len(v) >= 1 /\ v[1] = s[q] /\ v[1] \in NonWhite(s)
  <2>1. 1 \in 1..(Len(s) - q) + 1 /\ (q + 1) - 1 = q OBVIOUS
  <2>2. v[1] = s[q] BY <1>1, <2>1
  <2>3. v[1] \in NonWhite(s) BY <2>2 DEF NonWhite
  <2> QED BY <1>1, <2>1, <2>2, <2>3
<1>5. m \in Nat /\ m <= Len(v) /\ Len(v) \in Nat BY <1>1, <1>3
<1> HIDE DEF m
<1>6. m >= 1
  <2> SUFFICES ASSUME m = 0 PROVE FALSE BY <1>5
  <2>1. v[1] \notin NonWhite(s) BY <1>3, <1>4
  <2> QED BY <1>4, <2>1
<1>7. x \in Seq(S) /\ Len(x) = m /\ x[1] = v[1]
  <2> DEFINE a == 0
  <2>1. a \in Nat /\ m \in Nat /\ a + m <= Len(v) /\ a + 1 = 1 /\ a + m = m BY <1>5
  <2> HIDE DEF a
  <2>2. /\ SubSeq(v, a + 1, a + m) \in Seq(S) /\ Len(SubSeq(v, a + 1, a + m)) = m
        /\ \A k \in 1..m : SubSeq(v, a + 1, a + m)[k] = v[a + k]
    BY <1>1, <2>1, Stretch
  <2>3. x = SubSeq(v, a + 1, a + m) BY <1>3, <2>1
  <2>4. 1 \in 1..m /\ a + 1 = 1 BY <1>5, <1>6, <2>1
  <2> QED BY <2>2, <2>3, <2>4
<1>8. x # <<>> /\ Head(x) = x[1] BY <1>6, <1>7
<1> QED BY <1>4, <1>7, <1>8 DEF x

\* The first word of s are the w symbols after a.
WordAt(s, a, w) ==
  /\ Len(FirstWord(s)) = w /\ \A k \in 1..w : FirstWord(s)[k] = s[a + k]
  /\ Len(AfterWord(s)) = (Len(s) - a) - w
  /\ \A k \in 1..(Len(s) - a) - w : AfterWord(s)[k] = s[(a + w) + k]

\* It ends where the next white space is.
LEMMA FirstWordIs ==
  ASSUME NEW S, NEW s \in Seq(S), NEW a \in Nat, NEW w \in Nat, a + w < Len(s),
         \A i \in 1..a : s[i] \in Whitespace, w >= 1,
         \A k \in 1..w : s[a + k] \notin Whitespace, s[(a + w) + 1] \in Whitespace
  PROVE  WordAt(s, a, w) /\ FirstWord(s) \in Seq(S) /\ AfterWord(s) \in Seq(S)
<1> DEFINE v == TrimStart(s)
           x == FirstWord(s)
           y == AfterWord(s)
           l == (Len(s) - a) - w
<1>1. /\ v \in Seq(S) /\ Len(v) = Len(s) - a /\ \A k \in 1..Len(s) - a : v[k] = s[a + k]
  <2> DEFINE q == a + 1
  <2>1. q \in 1..Len(s) /\ q - 1 = a /\ (Len(s) - q) + 1 = Len(s) - a /\ 1 \in 1..w /\ Len(s) \in Nat
    OBVIOUS
  <2>2. (\A i \in 1..q - 1 : s[i] \in Whitespace) /\ s[q] \notin Whitespace BY <2>1
  <2>3. \A k \in 1..Len(s) - a : (q + k) - 1 = a + k BY <2>1
  <2> HIDE DEF q
  <2>5. q \in 1..Len(s) BY <2>1
  <2>6. TrimStart(s) \in Seq(S) /\ Len(TrimStart(s)) = (Len(s) - q) + 1
        /\ \A k \in 1..(Len(s) - q) + 1 : TrimStart(s)[k] = s[(q + k) - 1]
    BY <2>2, <2>5, WhiteRun
  <2>4. v \in Seq(S) /\ Len(v) = (Len(s) - q) + 1 /\ \A k \in 1..(Len(s) - q) + 1 : v[k] = s[(q + k) - 1]
    BY <2>6
  <2> HIDE DEF v
  <2> QED BY <2>1, <2>3, <2>4
<1>2. x = Span(v, NonWhite(s)) /\ y = Beyond(v, NonWhite(s)) BY Zenon DEF FirstWord, NonWhite, AfterWord
<1> HIDE DEF v, x, y
<1>3. Len(s) \in Nat /\ w <= Len(v) /\ w < Len(v) /\ l \in Nat /\ w + l = Len(v) /\ Len(v) \in Nat
  BY <1>1
<1>4. Run(v, NonWhite(s)) = w
  <2>1. \A k \in 1..w : v[k] \in NonWhite(s)
    <3> SUFFICES ASSUME NEW k \in 1..w PROVE v[k] \in NonWhite(s) OBVIOUS
    <3>1. k \in 1..Len(s) - a /\ a + k \in 1..Len(s) BY <1>3
    <3> QED BY <1>1, <3>1 DEF NonWhite
  <2>2. v[w + 1] \notin NonWhite(s)
    <3>1. w + 1 \in 1..Len(s) - a /\ a + (w + 1) = (a + w) + 1 BY <1>3
    <3>2. v[w + 1] \in Whitespace BY <1>1, <3>1
    <3> QED BY <3>2 DEF NonWhite
  <2>3. w \in 0..Len(v) BY <1>3
  <2> QED BY <1>1, <2>1, <2>2, <2>3, RunIs
<1>5. x = SubSeq(v, 1, w) /\ y = SubSeq(v, w + 1, Len(v)) BY <1>1, <1>2, <1>4, RunFacts
<1>6. x \in Seq(S) /\ Len(x) = w /\ \A k \in 1..w : x[k] = v[k]
  <2> DEFINE z == 0
  <2>1. z \in Nat /\ z + w <= Len(v) /\ z + 1 = 1 /\ z + w = w /\ \A k \in 1..w : z + k = k BY <1>3
  <2> HIDE DEF z
  <2>2. /\ SubSeq(v, z + 1, z + w) \in Seq(S) /\ Len(SubSeq(v, z + 1, z + w)) = w
        /\ \A k \in 1..w : SubSeq(v, z + 1, z + w)[k] = v[z + k]
    BY <1>1, <2>1, Stretch
  <2>3. x = SubSeq(v, z + 1, z + w) BY <1>5, <2>1
  <2> QED BY <2>1, <2>2, <2>3
<1> HIDE DEF l
<1>7. y \in Seq(S) /\ Len(y) = l /\ \A k \in 1..l : y[k] = v[w + k]
  <2>1. y = SubSeq(v, w + 1, w + l) BY <1>3, <1>5
  <2>2. w + l <= Len(v) BY <1>3
  <2> QED BY <1>1, <1>3, <2>1, <2>2, Stretch
<1>8. \A k \in 1..w : x[k] = s[a + k]
  <2>1. \A k \in 1..w : k \in 1..Len(s) - a BY <1>1, <1>3
  <2> QED BY <1>1, <1>6, <2>1
<1>9. \A k \in 1..l : y[k] = s[(a + w) + k]
  <2>1. \A k \in 1..l : w + k \in 1..Len(s) - a /\ a + (w + k) = (a + w) + k BY <1>1, <1>3
  <2> QED BY <1>1, <1>7, <2>1
<1> QED BY <1>6, <1>7, <1>8, <1>9 DEF WordAt, x, y, l

\* A name alone is the module it names.
LEMMA NameItself ==
  ASSUME NEW S, NEW x \in Seq(S), Len(x) >= 1, IsName(x)
  PROVE  ExtractModuleName(x) = {x}
<1> DEFINE u == 0
           w == Len(x)
<1>1. \A i \in DOMAIN x : x[i] \in NameSymbols BY Zenon DEF IsName
<1>2. u \in Nat /\ w \in Nat /\ w >= 1 /\ u + w <= Len(x) /\ ~(u + w < Len(x)) /\ u + w = w /\ u + 1 = 1
      /\ (\A i \in u + 1..u + w : i \in DOMAIN x) /\ (\A i \in 1..u : x[i] \in Whitespace)
  OBVIOUS
<1>3. \A i \in u + 1..u + w : x[i] \in NameSymbols BY <1>1, <1>2
<1> HIDE DEF u, w
<1>4. u + w < Len(x) => x[(u + w) + 1] \notin NameSymbols BY <1>2
<1>5. ExtractModuleName(x) = {SubSeq(x, u + 1, u + w)} BY <1>2, <1>3, <1>4, FirstName, Zenon
<1>6. SubSeq(x, u + 1, u + w) = x
  <2> DEFINE y == SubSeq(x, u + 1, u + w)
  <2>1. y \in Seq(S) /\ Len(y) = w /\ \A k \in 1..w : y[k] = x[u + k] BY <1>2, Stretch, Zenon
  <2> HIDE DEF y
  <2>2. \A k \in 1..Len(x) : u + k = k BY <1>2 DEF u
  <2>3. Len(x) = Len(y) /\ \A k \in 1..Len(x) : x[k] = y[k] BY <2>1, <2>2 DEF w
  <2>4. x = y BY <2>1, <2>3, SeqEqual
  <2> QED BY <2>4 DEF y
<1> QED BY <1>5, <1>6, Zenon

\* parse_from_import_clause by words.
LEMMA FromClause ==
  ASSUME NEW rest,
         FirstWord(rest) # <<>>
  PROVE  ParseFromImportClause(rest) =
           IF Head(FirstWord(rest)) # "." /\ FirstWord(AfterWord(rest)) # <<>>
              /\ Head(FirstWord(AfterWord(rest))) = "import"
           THEN ExtractModuleName(FirstWord(rest)) ELSE {}
BY Zenon DEF ParseFromImportClause, AfterWord, NonWhite

\* parse_from_import_clause finds the module of a from statement.
LEMMA FromStatement ==
  ASSUME NEW S, NEW P \in Seq(S), NEW F \in Seq(S), NEW h \in Seq(S), Heads(P, F, h),
         IsFrom(Tokens(F))
  PROVE  ImportsOf(TrimStart(P)) =
           IF Head(Tokens(F)[2]) = "." THEN {} ELSE {Tokens(F)[2]}
<1> DEFINE t == Tokens(F)
           pos == Positions(F)
           g == pos[1]
           q == pos[2]
           v == TrimStart(P)
           rest == Tail(v)
<1>1. t \in Seq(Seq(S)) /\ \A n \in 1..Len(t) : Len(t[n]) \in Nat /\ Len(t[n]) >= 1 BY TokensAreNatural
<1>2. /\ Len(t) > 2 /\ t[1] = <<"from">>
      /\ Head(t[2]) = "." \/ (IsName(t[2]) /\ Len(t) > 3 /\ t[3] = <<"import">>)
  BY Zenon DEF IsFrom
<1> HIDE DEF t
<1>3. Len(t) \in Nat /\ 2 \in 1..Len(t) /\ 1 \in 1..Len(t) /\ Len(t) > 1 BY <1>1, <1>2
<1>4. t[2] \in Seq(S) /\ Len(t[2]) \in Nat /\ Len(t[2]) >= 1 /\ Head(t[2]) = t[2][1]
  <2>1. t[2] \in Seq(S) BY <1>1, <1>3, ElementOfSeq
  <2> QED BY <1>1, <1>3, <2>1
<1>5. t[2][1] \in NameSymbols
  <2>1. CASE t[2][1] = "." BY <2>1, SymbolFacts
  <2>2. CASE IsName(t[2]) BY <1>4, <2>2, NameBegins
  <2> QED BY <1>2, <1>4, <2>1, <2>2
<1>6. KeywordStart(P, F, "from") /\ rest \in Seq(S)
  <2> DEFINE kw == "from"
  <2>1. (kw = "import" \/ kw = "from") /\ t[1] = <<kw>> BY <1>2
  <2> HIDE DEF kw
  <2>2. KeywordStart(P, F, kw) /\ rest \in Seq(S) BY <1>3, <1>5, <2>1, KeywordStarts DEF t
  <2> QED BY <2>2 DEF kw
<1>7. /\ StripsKeyword(v, "from")
      /\ g \in Nat /\ q \in Nat /\ 1 <= g /\ g + 1 < q /\ q <= Len(P) /\ q <= Len(F)
      /\ Len(rest) = Len(P) - g /\ (\A k \in 1..Len(P) - g : rest[k] = P[g + k])
      /\ (\A i \in g + 1..q - 1 : P[i] = Space) /\ P[q] = t[2][1]
  BY <1>6, Zenon DEF KeywordStart, t
<1>8. ImportsOf(v) = ParseFromImportClause(rest)
  <2> HIDE DEF v
  <2>1. ~StripsKeyword(v, "import")
    <3>1. Head(v) = "from" BY <1>7 DEF StripsKeyword
    <3> QED BY <3>1 DEF StripsKeyword
  <2> QED BY <1>7, <2>1, Zenon DEF ImportsOf, rest
<1> HIDE DEF g, q, v, rest, pos
<1> DEFINE a == (q - g) - 1
<1>9. /\ a \in Nat /\ g + a = q - 1 /\ Len(P) \in Nat /\ a + 1 <= Len(rest) /\ Len(rest) \in Nat
  BY <1>7
<1>10. \A i \in 1..a : rest[i] \in Whitespace
  <2>1. \A i \in 1..a : i \in 1..Len(P) - g /\ g + i \in g + 1..q - 1 BY <1>7, <1>9
  <2>2. \A i \in 1..a : rest[i] = Space BY <1>7, <2>1
  <2> QED BY <2>2, SymbolFacts
<1>11. a + 1 \in 1..Len(rest) /\ (a + 1) - 1 = a /\ rest[a + 1] = P[q]
  <2>1. a + 1 \in 1..Len(P) - g /\ g + (a + 1) = q BY <1>7, <1>9
  <2> QED BY <1>7, <1>9, <2>1
<1>12. P[q] \notin Whitespace BY <1>5, <1>7, SymbolFacts
<1> HIDE DEF a
<1>13. FirstWord(rest) # <<>> /\ Head(FirstWord(rest)) = t[2][1]
  <2> DEFINE b == a + 1
  <2>1. b \in 1..Len(rest) /\ (\A i \in 1..b - 1 : rest[i] \in Whitespace) /\ rest[b] \notin Whitespace
    BY <1>10, <1>11, <1>12
  <2>2. rest[b] = t[2][1] BY <1>7, <1>11
  <2> HIDE DEF b
  <2> QED BY <1>6, <2>1, <2>2, FirstWordAt
<1>14. CASE t[2][1] = "."
  <2>1. ParseFromImportClause(rest) = {} BY <1>13, <1>14, FromClause
  <2> QED BY <1>4, <1>8, <1>14, <2>1 DEF t, v
<1>15. CASE t[2][1] # "."
  <2>1. IsName(t[2]) /\ Len(t) > 3 /\ t[3] = <<"import">> BY <1>2, <1>4, <1>15
  <2> DEFINE w == Len(t[2])
             r == pos[3]
  <2>2. 3 \in 1..Len(t) /\ 2 \in 1..Len(t) - 1 BY <1>3, <2>1
  <2>3. \A m \in 1..3 : t[m] # <<"s">> /\ t[m] # <<"(">>
    <3>1. t[2] # <<"s">> /\ t[2] # <<"(">> BY <1>5, SymbolFacts
    <3>2. t[1] # <<"s">> /\ t[1] # <<"(">> BY <1>2
    <3>3. t[3] # <<"s">> /\ t[3] # <<"(">> BY <2>1
    <3>4. \A m \in 1..3 : m = 1 \/ m = 2 \/ m = 3 OBVIOUS
    <3> QED BY <3>1, <3>2, <3>3, <3>4
  <2>4. InPiece(P, F, 2)
    <3>1. \A m \in 1..2 : m \in 1..3 OBVIOUS
    <3>2. \A m \in 1..2 : t[m] # <<"s">> /\ t[m] # <<"(">> BY <2>3, <3>1
    <3> QED BY <1>3, <3>2, TokenInPiece DEF t
  <2>5. InPiece(P, F, 3) BY <2>2, <2>3, TokenInPiece DEF t
  <2>6. /\ w \in Nat /\ w >= 1
        /\ \A k \in 1..w : t[2][k] = P[(q + k) - 1]
        /\ \A i \in q..(q + w) - 1 : P[i] \in NameSymbols
    BY <1>5, <1>7, <2>4 DEF InPiece, t, q, pos
  <2>7. /\ r \in 1..Len(P) /\ r \in Nat /\ r \in 1..Len(F)
        /\ Len(t[3]) \in Nat /\ Len(t[3]) >= 1
        /\ \A i \in 1..(r + Len(t[3])) - 1 : P[i] = F[i]
    BY <2>5 DEF InPiece, t, pos
  <2>8. F[q] = t[2][1] /\ F[r] = t[3][1] /\ t[3][1] = "import"
    <3>1. F[q] = t[2][1] BY <1>3, TokensAreNatural DEF t, q, pos
    <3>2. F[r] = t[3][1] BY <2>2, TokensAreNatural DEF t, pos
    <3> QED BY <2>1, <3>1, <3>2
  <2>9. q + w < r /\ \A i \in q + w..r - 1 : F[i] = Space
    <3>1. /\ \A i \in pos[2] + Len(t[2])..pos[2 + 1] - 1 : F[i] = Space
          /\ F[pos[2]] \in NameSymbols /\ F[pos[2 + 1]] \in NameSymbols =>
               pos[2] + Len(t[2]) < pos[2 + 1]
      BY <2>2, TokenGaps DEF t, pos
    <3>2. 2 + 1 = 3 OBVIOUS
    <3>3. F[q] \in NameSymbols /\ F[r] \in NameSymbols BY <1>5, <2>8, SymbolFacts
    <3> QED BY <3>1, <3>2, <3>3 DEF q
  <2> HIDE DEF w, r
  <2>10. (\A i \in q + w..r - 1 : P[i] = Space) /\ P[r] = "import"
    <3>1. \A i \in q + w..r : i \in 1..(r + Len(t[3])) - 1 BY <1>7, <2>6, <2>7
    <3>2. r \in q + w..r /\ \A i \in q + w..r - 1 : i \in q + w..r BY <1>7, <2>6, <2>7, <2>9
    <3> QED BY <2>7, <2>8, <2>9, <3>1, <3>2
  <2>19. /\ a \in Nat /\ g \in Nat /\ q \in Nat /\ w \in Nat /\ r \in Nat /\ Len(P) \in Nat
         /\ g + a = q - 1 /\ q + w < r /\ r <= Len(P) /\ w >= 1 /\ Len(rest) = Len(P) - g
         /\ Len(rest) \in Nat
    BY <1>7, <1>9, <2>6, <2>7, <2>9
  <2>20. \A k \in 1..Len(P) - g : rest[k] = P[g + k] BY <1>7
  <2>11. /\ FirstWord(rest) \in Seq(S) /\ Len(FirstWord(rest)) = w
         /\ \A k \in 1..w : FirstWord(rest)[k] = rest[a + k]
         /\ AfterWord(rest) \in Seq(S) /\ Len(AfterWord(rest)) = (Len(rest) - a) - w
         /\ \A k \in 1..(Len(rest) - a) - w : AfterWord(rest)[k] = rest[(a + w) + k]
    <3>1. a + w < Len(rest) BY <2>19
    <3>2. \A k \in 1..w : rest[a + k] \notin Whitespace
      <4> SUFFICES ASSUME NEW k \in 1..w PROVE rest[a + k] \notin Whitespace OBVIOUS
      <4>1. a + k \in 1..Len(P) - g /\ g + (a + k) \in q..(q + w) - 1 BY <2>19, <3>1
      <4>2. rest[a + k] \in NameSymbols BY <2>6, <2>20, <4>1
      <4> QED BY <4>2, SymbolFacts
    <3>3. rest[(a + w) + 1] \in Whitespace
      <4>1. (a + w) + 1 \in 1..Len(P) - g /\ g + ((a + w) + 1) = q + w /\ q + w \in q + w..r - 1
        BY <2>19
      <4>2. rest[(a + w) + 1] = P[q + w] BY <2>20, <4>1
      <4>3. P[q + w] = Space BY <2>10, <4>1
      <4> QED BY <4>2, <4>3, SymbolFacts
    <3>4. rest \in Seq(S) /\ a \in Nat /\ w \in Nat /\ w >= 1 BY <1>6, <2>19
    <3>5. WordAt(rest, a, w) /\ FirstWord(rest) \in Seq(S) /\ AfterWord(rest) \in Seq(S)
      BY <1>10, <3>1, <3>2, <3>3, <3>4, FirstWordIs
    <3> QED BY <3>5 DEF WordAt
  <2> DEFINE y == AfterWord(rest)
  <2>21. /\ y \in Seq(S) /\ Len(y) = (Len(rest) - a) - w
         /\ \A k \in 1..(Len(rest) - a) - w : y[k] = rest[(a + w) + k]
    BY <2>11
  <2> HIDE DEF y
  <2>12. \A k \in 1..Len(y) : y[k] = P[((q + w) - 1) + k]
    <3> SUFFICES ASSUME NEW k \in 1..Len(y) PROVE y[k] = P[((q + w) - 1) + k] OBVIOUS
    <3>1. k \in 1..(Len(rest) - a) - w /\ k \in Nat /\ k <= (Len(rest) - a) - w BY <2>19, <2>21
    <3>2. (a + w) + k \in 1..Len(P) - g /\ g + ((a + w) + k) = ((q + w) - 1) + k BY <2>19, <3>1
    <3>3. y[k] = rest[(a + w) + k] BY <2>21, <3>1
    <3>4. rest[(a + w) + k] = P[g + ((a + w) + k)] BY <2>20, <3>2
    <3> QED BY <3>2, <3>3, <3>4
  <2>13. FirstWord(y) # <<>> /\ Head(FirstWord(y)) = "import"
    <3> DEFINE b == (r - (q + w)) + 1
    <3>1. b \in 1..Len(y) /\ ((q + w) - 1) + b = r
      <4>1. Len(y) = (Len(rest) - a) - w BY <2>21
      <4> QED BY <2>19, <4>1
    <3>2. \A i \in 1..b - 1 : y[i] \in Whitespace
      <4> SUFFICES ASSUME NEW i \in 1..b - 1 PROVE y[i] \in Whitespace OBVIOUS
      <4>1. i \in 1..Len(y) /\ ((q + w) - 1) + i \in q + w..r - 1
        <5>1. Len(y) = (Len(rest) - a) - w BY <2>21
        <5> QED BY <2>19, <5>1
      <4>2. y[i] = Space BY <2>10, <2>12, <4>1
      <4> QED BY <4>2, SymbolFacts
    <3>3. y[b] = "import" BY <2>10, <2>12, <3>1
    <3>4. y[b] \notin Whitespace BY <3>3, SymbolFacts
    <3> HIDE DEF b
    <3> QED BY <2>21, <3>1, <3>2, <3>3, <3>4, FirstWordAt
  <2>14. FirstWord(rest) = t[2]
    <3> DEFINE x == FirstWord(rest)
    <3>1. x \in Seq(S) /\ Len(x) = w /\ \A k \in 1..w : x[k] = rest[a + k] BY <2>11
    <3> HIDE DEF x
    <3>2. \A k \in 1..w : x[k] = t[2][k]
      <4> SUFFICES ASSUME NEW k \in 1..w PROVE x[k] = t[2][k] OBVIOUS
      <4>1. a + k \in 1..Len(P) - g /\ g + (a + k) = (q + k) - 1 BY <2>19
      <4>2. x[k] = rest[a + k] BY <3>1
      <4>3. rest[a + k] = P[g + (a + k)] BY <2>20, <4>1
      <4>4. t[2][k] = P[(q + k) - 1] BY <2>6
      <4> QED BY <4>1, <4>2, <4>3, <4>4
    <3>3. Len(x) = Len(t[2]) /\ \A k \in 1..Len(x) : x[k] = t[2][k] BY <3>1, <3>2 DEF w
    <3>4. x = t[2] BY <1>4, <3>1, <3>3, SeqEqual
    <3> QED BY <3>4 DEF x
  <2>15. ExtractModuleName(t[2]) = {t[2]} BY <1>4, <2>1, NameItself
  <2>16. ParseFromImportClause(rest) = {t[2]}
    BY <1>13, <1>15, <2>13, <2>14, <2>15, FromClause, Zenon DEF y
  <2>17. ImportsOf(v) = {t[2]} BY <1>8, <2>16
  <2>18. Head(t[2]) # "." BY <1>4, <1>15
  <2> QED BY <2>17, <2>18, Zenon DEF t, v
<1> QED BY <1>14, <1>15

\* The check finds nothing in a statement without keywords.
LEMMA OtherStatement ==
  ASSUME NEW S, NEW P \in Seq(S), NEW F \in Seq(S), NEW h \in Seq(S), Heads(P, F, h),
         IsOther(Tokens(F))
  PROVE  ImportsOf(TrimStart(P)) = {}
<1>1. ASSUME NEW kw, kw = "import" \/ kw = "from", StripsKeyword(TrimStart(P), kw) PROVE FALSE
  <2> DEFINE u == Run(P, Whitespace)
             t == Tokens(F)
  <2>1. u + 2 <= Len(P) /\ P[u + 1] = kw /\ P[u + 2] \in Whitespace BY <1>1, StripsAt
  <2>2. u \in 0..Len(P) /\ \A i \in 1..u : P[i] \in Whitespace BY RunFacts
  <2> HIDE DEF u, t
  <2>3. /\ Len(h) \in Nat /\ Len(F) \in Nat /\ Len(P) \in Nat /\ Len(h) <= Len(P) /\ Len(h) <= Len(F)
        /\ \A p \in 1..Len(h) : P[p] = h[p] /\ F[p] = h[p]
    <3>1. Begins(h, P) /\ Begins(h, F) BY Zenon DEF Heads
    <3> QED BY <3>1 DEF Begins
  <2>4. Len(P) > Len(h) => P[Len(h) + 1] \in Quotes \cup {"#"} BY Zenon DEF Heads
  <2>5. kw \in NameSymbols BY <1>1, SymbolFacts
  <2>6. u + 2 <= Len(h)
    <3> SUFFICES ASSUME Len(h) < u + 2 PROVE FALSE BY <2>2, <2>3
    <3>1. Len(h) + 1 \in 1..u \/ Len(h) + 1 = u + 1 \/ Len(h) + 1 = u + 2 BY <2>2, <2>3
    <3>2. P[Len(h) + 1] \in Whitespace \/ P[Len(h) + 1] = kw BY <2>1, <2>2, <3>1
    <3>3. Len(P) > Len(h) BY <2>1, <2>2, <2>3
    <3>4. P[Len(h) + 1] \in Quotes \cup {"#"} BY <2>4, <3>3
    <3> QED BY <2>5, <3>2, <3>4, SymbolFacts
  <2>7. u + 1 \in 1..Len(F) /\ u + 1 \in 1..Len(h) /\ u + 2 \in 1..Len(h) /\ (u # 0 => u \in 1..Len(h))
        /\ (u # 0 => u \in 1..u) /\ (u + 1) + 1 = u + 2 /\ (u + 1) - 1 = u
    BY <2>2, <2>3, <2>6
  <2>8. F[u + 1] = kw /\ F[u + 2] \in Whitespace /\ (u # 0 => F[u] \in Whitespace)
    BY <2>1, <2>2, <2>3, <2>7
  <2> DEFINE j == u + 1
  <2>9. j \in 1..Len(F) /\ F[j] = kw /\ F[j] # Space /\ F[j + 1] \notin NameSymbols
        /\ (j = 1 \/ F[j - 1] \notin NameSymbols)
    BY <2>5, <2>7, <2>8, SymbolFacts
  <2> HIDE DEF j
  <2>10. PICK m \in 1..Len(t) : t[m] = <<F[j]>> BY <2>9, SymbolToken DEF t
  <2>11. t[m] = <<"import">> \/ t[m] = <<"from">> BY <1>1, <2>9, <2>10
  <2>12. m \in DOMAIN t
    <3>1. DOMAIN t = 1..Len(t) BY PositionFacts DEF t
    <3> QED BY <3>1
  <2>13. t[m] \in Range(t) BY <2>12, Zenon DEF Range
  <2>14. t[m] \in Keywords BY <2>11, Zenon DEF Keywords
  <2>15. Range(t) \cap Keywords = {} BY Zenon DEF IsOther, t
  <2> QED BY <2>13, <2>14, <2>15
<1>2. ~StripsKeyword(TrimStart(P), "import") /\ ~StripsKeyword(TrimStart(P), "from")
  <2> DEFINE a == "import"
             b == "from"
  <2>1. (a = "import" \/ a = "from") /\ (b = "import" \/ b = "from") OBVIOUS
  <2> HIDE DEF a, b
  <2>2. ~StripsKeyword(TrimStart(P), a) /\ ~StripsKeyword(TrimStart(P), b) BY <1>1, <2>1
  <2> QED BY <2>2 DEF a, b
<1> QED BY <1>2, Zenon DEF ImportsOf

\* What Python imports by a line.
LineImports(line) ==
  {x \in {Head(c) : c \in Clauses(Tail(Tokens(line)))} : IsImport(Tokens(line))}
  \cup {x \in {Tokens(line)[2]} : IsFrom(Tokens(line)) /\ Head(Tokens(line)[2]) # "."}

\* What the check reads off a statement is what Python imports by its line.
LEMMA StatementImports ==
  ASSUME NEW S, NEW P \in Seq(S), NEW F \in Seq(S), NEW h \in Seq(S), Heads(P, F, h),
         IsStatement(Tokens(F))
  PROVE  ImportsOf(TrimStart(P)) = LineImports(F)
<1> DEFINE t == Tokens(F)
           X == {Head(c) : c \in Clauses(Tail(t))}
           L == {x \in X : IsImport(t)} \cup {x \in {t[2]} : IsFrom(t) /\ Head(t[2]) # "."}
<1>1. L = LineImports(F) BY Zenon DEF LineImports
<1>2. t \in Seq(Seq(S)) BY TokensAreNatural
<1>3. ~(IsImport(t) /\ IsFrom(t))
  <2> SUFFICES ASSUME IsImport(t), IsFrom(t) PROVE FALSE OBVIOUS
  <2> HIDE DEF t
  <2>1. t[1] = <<"import">> BY Zenon DEF IsImport
  <2>2. t[1] = <<"from">> BY Zenon DEF IsFrom
  <2> QED BY <2>1, <2>2
<1>4. IsOther(t) => ~IsImport(t) /\ ~IsFrom(t)
  <2> SUFFICES ASSUME IsOther(t), IsImport(t) \/ IsFrom(t) PROVE FALSE OBVIOUS
  <2>6. t \in Seq(Seq(S)) BY <1>2
  <2>7. Range(t) \cap Keywords = {} BY Zenon DEF IsOther
  <2> HIDE DEF t
  <2>1. Len(t) > 1 /\ (t[1] = <<"import">> \/ t[1] = <<"from">>)
    <3>1. CASE IsImport(t)
      <4>1. Len(t) > 1 /\ t[1] = <<"import">> BY <3>1, Zenon DEF IsImport
      <4> QED BY <4>1
    <3>2. CASE IsFrom(t)
      <4>1. Len(t) > 2 /\ t[1] = <<"from">> BY <3>2, Zenon DEF IsFrom
      <4> QED BY <2>6, <4>1
    <3> QED BY <3>1, <3>2
  <2>2. 1 \in DOMAIN t BY <2>1, <2>6
  <2>3. t[1] \in Range(t) BY <2>2, Zenon DEF Range
  <2>4. t[1] \in Keywords BY <2>1, Zenon DEF Keywords
  <2> QED BY <2>3, <2>4, <2>7
<1>5. CASE IsImport(t)
  <2>1. ImportsOf(TrimStart(P)) = {t[n + 1] : n \in Before(t)} BY <1>5, ImportStatement
  <2>2. X = {t[n + 1] : n \in Before(t)} BY <1>2, <1>5, ImportTokens
  <2> HIDE DEF X, t
  <2>3. L = X BY <1>3, <1>5, Zenon
  <2> QED BY <1>1, <2>1, <2>2, <2>3
<1>6. CASE IsFrom(t)
  <2>1. ImportsOf(TrimStart(P)) = IF Head(t[2]) = "." THEN {} ELSE {t[2]} BY <1>6, FromStatement
  <2> HIDE DEF X, t
  <2>2. L = {x \in {t[2]} : Head(t[2]) # "."} BY <1>3, <1>6, Zenon
  <2>3. CASE Head(t[2]) = "."
    <3>1. L = {} BY <2>2, <2>3, Zenon
    <3> QED BY <1>1, <2>1, <2>3, <3>1, Zenon
  <2>4. CASE Head(t[2]) # "."
    <3>1. L = {t[2]} BY <2>2, <2>4, Zenon
    <3> QED BY <1>1, <2>1, <2>4, <3>1, Zenon
  <2> QED BY <2>3, <2>4
<1>7. CASE IsOther(t)
  <2>1. ImportsOf(TrimStart(P)) = {} BY <1>7, OtherStatement
  <2>2. L = {} BY <1>4, <1>7, Zenon
  <2> QED BY <1>1, <2>1, <2>2, Zenon
<1>8. IsImport(t) \/ IsFrom(t) \/ IsOther(t) BY Zenon DEF IsStatement
<1> QED BY <1>5, <1>6, <1>7, <1>8

----------------------------------------------------------------------------
(* The whole program *)

\* collect_imported_modules, piece by piece.
LEMMA Collected ==
  ASSUME NEW text
  PROVE  CollectImportedModules(text) =
           UNION {ImportsOf(TrimStart(Piece(text, f))) : f \in Cuts(text) \cup {0}}
<1>1. SplitStatements(text) = {Piece(text, f) : f \in Cuts(text) \cup {0}}
  BY Zenon DEF SplitStatements, Split, Cuts, Piece, NextCut
<1>2. CollectImportedModules(text) =
        UNION {ImportsOf(TrimStart(P)) : P \in {Piece(text, f) : f \in Cuts(text) \cup {0}}}
  BY <1>1, Zenon DEF CollectImportedModules
<1> QED BY <1>2

\* What Python imports, line by line.
LEMMA PythonsOwn ==
  ASSUME NEW text
  PROVE  PythonImports(text) = UNION {LineImports(line) : line \in Range(Lexed(text).lines)}
<1> DEFINE Ts == Statements(text)
           Ls == Range(Lexed(text).lines)
<1>1. Ts = {Tokens(line) : line \in Ls} BY Zenon DEF Statements
<1>2. PythonImports(text) =
        {t[2] : t \in {t \in Ts : IsFrom(t) /\ Head(t[2]) # "."}}
        \cup UNION {{Head(c) : c \in Clauses(Tail(t))} : t \in {t \in Ts : IsImport(t)}}
  BY Zenon DEF PythonImports
<1> HIDE DEF Ts, Ls
<1>3. ASSUME NEW x \in PythonImports(text) PROVE \E line \in Ls : x \in LineImports(line)
  <2>1. \/ \E t \in Ts : IsImport(t) /\ x \in {Head(c) : c \in Clauses(Tail(t))}
        \/ \E t \in Ts : IsFrom(t) /\ Head(t[2]) # "." /\ x = t[2]
    BY <1>2
  <2>2. \/ \E line \in Ls : IsImport(Tokens(line)) /\ x \in {Head(c) : c \in Clauses(Tail(Tokens(line)))}
        \/ \E line \in Ls : IsFrom(Tokens(line)) /\ Head(Tokens(line)[2]) # "." /\ x = Tokens(line)[2]
    BY <1>1, <2>1, Zenon
  <2> QED BY <2>2, Zenon DEF LineImports
<1>4. ASSUME NEW line \in Ls, NEW x \in LineImports(line) PROVE x \in PythonImports(text)
  <2> DEFINE t == Tokens(line)
             X == {Head(c) : c \in Clauses(Tail(t))}
  <2>1. \/ IsImport(t) /\ x \in X
        \/ IsFrom(t) /\ Head(t[2]) # "." /\ x = t[2]
    BY Zenon DEF LineImports
  <2>2. t \in Ts BY <1>1
  <2>3. IsImport(t) => X \in {{Head(c) : c \in Clauses(Tail(s))} : s \in {s \in Ts : IsImport(s)}}
    BY <2>2
  <2>4. IsFrom(t) /\ Head(t[2]) # "." => t[2] \in {s[2] : s \in {s \in Ts : IsFrom(s) /\ Head(s[2]) # "."}}
    BY <2>2
  <2> HIDE DEF t, X
  <2> QED BY <1>2, <2>1, <2>3, <2>4
<1> QED BY <1>3, <1>4 DEF Ls

\* What the check finds in a program is what Python imports by it.
LEMMA ImportsAreFound ==
  ASSUME NEW S, NEW text \in Seq(S), Valid(text), Plain(text)
  PROVE  CollectImportedModules(text) = PythonImports(text)
<1> DEFINE R == StateAfter(text)
           lines == Lexed(text).lines
           LS == LineSymbols(S)
<1>1. Sound(text) /\ \A line \in Range(lines) : IsStatement(Tokens(line))
  BY Zenon DEF Sound, Valid, Plain
<1>2. Len(text) \in Nat /\ Len(text) \in 0..Len(text) OBVIOUS
<1>3. lines \in Seq(Seq(LS)) /\ lines = R[Len(text)].lines
  <2>1. R[Len(text)] \in ReaderStates(S) BY <1>2, Reading
  <2>2. R[Len(text)].lines \in Seq(Seq(LS)) BY <2>1 DEF ReaderStates
  <2> QED BY <2>2, Zenon DEF Lexed
<1> HIDE DEF lines
<1>4. Len(lines) \in Nat /\ Range(lines) = {lines[n] : n \in 1..Len(lines)}
      /\ \A n \in 1..Len(lines) : lines[n] \in Seq(LS) /\ IsStatement(Tokens(lines[n]))
  <2>1. Len(lines) \in Nat /\ DOMAIN lines = 1..Len(lines) /\ \A n \in 1..Len(lines) : lines[n] \in Seq(LS)
    BY <1>3
  <2>2. Range(lines) = {lines[n] : n \in 1..Len(lines)} BY <2>1, Zenon DEF Range
  <2> HIDE DEF LS
  <2>3. \A n \in 1..Len(lines) : lines[n] \in Range(lines) BY <2>2
  <2> QED BY <1>1, <2>1, <2>2, <2>3 DEF lines
<1>5. ASSUME NEW s \in Seq(S) PROVE s \in Seq(LS)
  <2>1. S \subseteq LS BY Zenon DEF LineSymbols
  <2> HIDE DEF LS
  <2> QED BY <2>1
<1> HIDE DEF R, LS
<1>6. ASSUME NEW f \in 0..Len(text), LineStart(text, f)
      PROVE  /\ Len(R[f].lines) \in 1..Len(lines)
             /\ ImportsOf(TrimStart(Piece(text, f))) = LineImports(lines[Len(R[f].lines)])
  <2> DEFINE n == Len(R[f].lines)
             P == Piece(text, f)
             F == lines[n]
  <2>1. n \in 1..Len(lines)
    <3>1. R[f] \in ReaderStates(S) BY Reading DEF R
    <3>2. n \in Nat \ {0} BY <3>1, LastLine
    <3>3. Len(text) \in f..Len(text) BY <1>2
    <3>4. Extends(R[f], R[Len(text)]) BY <1>1, <3>3, LinesExtend DEF R
    <3>5. n <= Len(lines) BY <1>3, <3>4 DEF Extends
    <3> QED BY <1>4, <3>2, <3>5
  <2>2. PICK h \in Seq(S) : Heads(P, F, h) BY <1>1, <1>6, PieceOfLine DEF R, lines
  <2>3. P \in Seq(S) BY PieceFacts
  <2>4. F \in Seq(LS) /\ IsStatement(Tokens(F)) BY <1>4, <2>1
  <2>5. P \in Seq(LS) /\ h \in Seq(LS) BY <1>5, <2>3
  <2> HIDE DEF P, F, n
  <2>6. ImportsOf(TrimStart(P)) = LineImports(F) BY <2>2, <2>4, <2>5, StatementImports
  <2> QED BY <2>1, <2>6 DEF P, F, n
<1>7. ASSUME NEW f \in Cuts(text), ~LineStart(text, f)
      PROVE  ImportsOf(TrimStart(Piece(text, f))) = {}
  <2>1. ASSUME NEW kw, kw = "import" \/ kw = "from", StripsKeyword(TrimStart(Piece(text, f)), kw)
        PROVE  FALSE
    <3>1. PICK n \in 1..Len(lines) : KeywordInBrackets(lines[n])
      BY <1>1, <1>7, <2>1, PieceInBrackets DEF lines
    <3>2. lines[n] \in Seq(LS) /\ IsStatement(Tokens(lines[n])) BY <1>4
    <3> QED BY <3>1, <3>2, BracketsHideKeywords
  <2>2. ~StripsKeyword(TrimStart(Piece(text, f)), "import")
        /\ ~StripsKeyword(TrimStart(Piece(text, f)), "from")
    <3> DEFINE a == "import"
               b == "from"
    <3>1. (a = "import" \/ a = "from") /\ (b = "import" \/ b = "from") OBVIOUS
    <3> HIDE DEF a, b
    <3>2. ~StripsKeyword(TrimStart(Piece(text, f)), a) /\ ~StripsKeyword(TrimStart(Piece(text, f)), b)
      BY <2>1, <3>1
    <3> QED BY <3>2 DEF a, b
  <2> QED BY <2>2, Zenon DEF ImportsOf
<1>8. ASSUME NEW x \in CollectImportedModules(text) PROVE x \in PythonImports(text)
  <2>1. PICK f \in Cuts(text) \cup {0} : x \in ImportsOf(TrimStart(Piece(text, f))) BY Collected
  <2>2. CASE LineStart(text, f)
    <3>1. f \in 0..Len(text)
      <4>1. Cuts(text) \subseteq 1..Len(text) BY DEF Cuts
      <4> QED BY <1>2, <4>1
    <3> DEFINE n == Len(R[f].lines)
    <3>2. n \in 1..Len(lines) /\ x \in LineImports(lines[n]) BY <1>6, <2>1, <2>2, <3>1
    <3> HIDE DEF n
    <3>3. lines[n] \in Range(lines) BY <1>4, <3>2
    <3>4. x \in UNION {LineImports(line) : line \in Range(lines)} BY <3>2, <3>3
    <3> QED BY <3>4, PythonsOwn DEF lines
  <2>3. CASE ~LineStart(text, f)
    <3>1. f # 0 BY <2>3 DEF LineStart
    <3>2. f \in Cuts(text) BY <3>1
    <3> QED BY <1>7, <2>1, <2>3, <3>2
  <2> QED BY <2>2, <2>3
<1>9. ASSUME NEW x \in PythonImports(text) PROVE x \in CollectImportedModules(text)
  <2>1. x \in UNION {LineImports(line) : line \in Range(lines)} BY PythonsOwn DEF lines
  <2>2. PICK n \in 1..Len(lines) : x \in LineImports(lines[n]) BY <1>4, <2>1
  <2>3. PICK f \in 0..Len(text) : LineStart(text, f) /\ Len(R[f].lines) = n
    BY <1>1, EveryLineStarts DEF R, lines
  <2>4. x \in ImportsOf(TrimStart(Piece(text, f))) BY <1>6, <2>2, <2>3
  <2>5. f \in Cuts(text) \cup {0} BY <2>3 DEF LineStart
  <2> QED BY <2>4, <2>5, Collected
<1> QED BY <1>8, <1>9

----------------------------------------------------------------------------
(* The allow list *)

\* Trimming yields a sequence.
LEMMA TrimStartType ==
  ASSUME NEW S, NEW s \in Seq(S)
  PROVE  TrimStart(s) \in Seq(S)
<1> DEFINE u == Run(s, Whitespace)
<1>1. u \in 0..Len(s) /\ TrimStart(s) = SubSeq(s, u + 1, Len(s)) BY RunFacts DEF TrimStart
<1> HIDE DEF u
<1>2. u + 1 \in 1..Len(s) + 1 /\ Len(s) \in 0..Len(s) BY <1>1
<1> QED BY <1>1, <1>2, Between

\* So does Reverse.
LEMMA ReverseType ==
  ASSUME NEW S, NEW s \in Seq(S)
  PROVE  Reverse(s) \in Seq(S)
<1>1. \A i \in 1..Len(s) : (Len(s) - i) + 1 \in 1..Len(s) OBVIOUS
<1>2. \A i \in 1..Len(s) : s[(Len(s) - i) + 1] \in S BY <1>1, ElementOfSeq
<1> QED BY <1>2 DEF Reverse

\* And Trim.
LEMMA TrimType ==
  ASSUME NEW S, NEW s \in Seq(S)
  PROVE  Trim(s) \in Seq(S)
BY TrimStartType, ReverseType DEF Trim

\* A prefix followed by a dot is a package of the module.
LEMMA PackageOf ==
  ASSUME NEW S, NEW m \in Seq(S), NEW a \in Seq(S), a # <<>>
  PROVE  a \in Packages(m) <=> m = a \/ IsPrefix(Append(a, "."), m)
<1>1. Len(m) \in Nat /\ Len(a) \in Nat /\ Len(a) >= 1 BY EmptySeq
<1>2. a \in Packages(m) <=>
        \E i \in 1..Len(m) : (i = Len(m) \/ m[i + 1] = ".") /\ a = SubSeq(m, 1, i)
  BY Zenon DEF Packages
<1>3. ASSUME NEW i \in 0..Len(m)
      PROVE  SubSeq(m, 1, i) \in Seq(S) /\ Len(SubSeq(m, 1, i)) = i
             /\ \A k \in 1..i : SubSeq(m, 1, i)[k] = m[k]
  <2> DEFINE z == 0
  <2>1. z \in Nat /\ i \in Nat /\ z + i <= Len(m) /\ z + 1 = 1 /\ z + i = i /\ \A k \in 1..i : z + k = k
    BY <1>1
  <2> HIDE DEF z
  <2>2. /\ SubSeq(m, z + 1, z + i) \in Seq(S) /\ Len(SubSeq(m, z + 1, z + i)) = i
        /\ \A k \in 1..i : SubSeq(m, z + 1, z + i)[k] = m[z + k]
    BY <2>1, Stretch
  <2> QED BY <2>1, <2>2
<1>4. SubSeq(m, 1, Len(m)) = m
  <2> DEFINE x == SubSeq(m, 1, Len(m))
  <2>1. Len(m) \in 0..Len(m) BY <1>1
  <2>2. x \in Seq(S) /\ Len(x) = Len(m) /\ \A k \in 1..Len(m) : x[k] = m[k] BY <1>3, <2>1
  <2> HIDE DEF x
  <2>3. x = m BY <2>2, SeqEqual
  <2> QED BY <2>3 DEF x
<1> DEFINE b == Append(a, ".")
           T == S \cup {"."}
<1>5. b \in Seq(T) /\ Len(b) = Len(a) + 1 /\ b[Len(a) + 1] = "." /\ \A k \in 1..Len(a) : b[k] = a[k]
  <2>1. a \in Seq(T) OBVIOUS
  <2> QED BY <2>1, AppendProperties
<1> HIDE DEF b
<1>6. SubSeq(b, 1, Len(b)) = b
  <2> DEFINE x == SubSeq(b, 1, Len(b))
             l == Len(b)
             z == 0
  <2>1. z \in Nat /\ l \in Nat /\ z + l <= Len(b) /\ z + 1 = 1 /\ z + l = l /\ \A k \in 1..l : z + k = k
    BY <1>5
  <2> HIDE DEF z, l
  <2>2. /\ SubSeq(b, z + 1, z + l) \in Seq(T) /\ Len(SubSeq(b, z + 1, z + l)) = l
        /\ \A k \in 1..l : SubSeq(b, z + 1, z + l)[k] = b[z + k]
    BY <1>5, <2>1, Stretch
  <2>3. x = SubSeq(b, z + 1, z + l) BY <2>1 DEF l
  <2> HIDE DEF x
  <2>4. x \in Seq(T) /\ Len(x) = Len(b) /\ \A k \in 1..Len(b) : x[k] = b[k] BY <2>1, <2>2, <2>3 DEF l
  <2>5. x = b BY <1>5, <2>4, SeqEqual
  <2> QED BY <2>5 DEF x
<1>7. IsPrefix(b, m) <=> Len(b) <= Len(m) /\ b = SubSeq(m, 1, Len(b)) BY <1>6 DEF IsPrefix
<1>8. ASSUME m = a PROVE a \in Packages(m)
  <2>1. Len(m) \in 1..Len(m) BY <1>1, <1>8
  <2> QED BY <1>2, <1>4, <1>8, <2>1
<1>9. ASSUME IsPrefix(b, m) PROVE a \in Packages(m)
  <2>1. Len(a) + 1 <= Len(m) /\ b = SubSeq(m, 1, Len(a) + 1) BY <1>5, <1>7, <1>9
  <2>2. Len(a) \in 0..Len(m) /\ Len(a) \in 1..Len(m) /\ Len(a) + 1 \in 0..Len(m)
        /\ Len(a) + 1 \in 1..Len(a) + 1 /\ \A k \in 1..Len(a) : k \in 1..Len(a) + 1
    BY <1>1, <2>1
  <2>3. \A k \in 1..Len(a) + 1 : b[k] = m[k] BY <1>3, <2>1, <2>2
  <2>4. m[Len(a) + 1] = "." /\ \A k \in 1..Len(a) : m[k] = a[k] BY <1>5, <2>2, <2>3
  <2> DEFINE x == SubSeq(m, 1, Len(a))
  <2>5. x \in Seq(S) /\ Len(x) = Len(a) /\ \A k \in 1..Len(a) : x[k] = m[k] BY <1>3, <2>2
  <2> HIDE DEF x
  <2>6. \A k \in 1..Len(a) : x[k] = a[k] BY <2>4, <2>5
  <2>7. a = x BY <2>5, <2>6, SeqEqual
  <2> QED BY <1>2, <2>2, <2>4, <2>7 DEF x
<1>10. ASSUME a \in Packages(m) PROVE m = a \/ IsPrefix(b, m)
  <2>1. PICK i \in 1..Len(m) : (i = Len(m) \/ m[i + 1] = ".") /\ a = SubSeq(m, 1, i) BY <1>2, <1>10
  <2>2. CASE i = Len(m) BY <1>4, <2>1, <2>2
  <2>3. CASE i # Len(m) /\ m[i + 1] = "."
    <3>1. i \in 0..Len(m) /\ i + 1 \in 0..Len(m) /\ i + 1 <= Len(m) /\ i \in Nat BY <1>1, <2>3
    <3>2. Len(a) = i /\ \A k \in 1..i : a[k] = m[k] BY <1>3, <2>1, <3>1
    <3> DEFINE x == SubSeq(m, 1, i + 1)
    <3>3. x \in Seq(S) /\ Len(x) = i + 1 /\ \A k \in 1..i + 1 : x[k] = m[k] BY <1>3, <3>1
    <3> HIDE DEF x
    <3>4. \A k \in 1..i + 1 : k \in 1..i \/ k = i + 1 BY <3>1
    <3>5. Len(b) = i + 1 /\ \A k \in 1..i + 1 : b[k] = m[k] BY <1>5, <2>3, <3>2, <3>4
    <3>6. x \in Seq(T) BY <3>3
    <3>7. \A k \in 1..i + 1 : b[k] = x[k] BY <3>3, <3>5
    <3> HIDE DEF T
    <3>8. b = x BY <1>5, <3>3, <3>5, <3>6, <3>7, SeqEqual
    <3> QED BY <1>7, <3>1, <3>5, <3>8 DEF x
  <2> QED BY <2>1, <2>2, <2>3
<1> QED BY <1>8, <1>9, <1>10 DEF b

\* A module is allowed if it or a package it is in is on the list.
LEMMA AllowedByPackage ==
  ASSUME NEW S, NEW m \in Seq(S), NEW allowed \in SUBSET Seq(S)
  PROVE  IsModuleAllowed(m, NormalizeAllowedModules(allowed)) <=>
           Packages(m) \cap {Trim(a) : a \in allowed} # {}
<1> DEFINE As == {Trim(a) : a \in allowed}
<1>1. As \subseteq Seq(S) BY TrimType
<1>2. NormalizeAllowedModules(allowed) = As \ {<<>>} BY DEF NormalizeAllowedModules
<1>3. <<>> \notin Packages(m)
  <2> SUFFICES ASSUME <<>> \in Packages(m) PROVE FALSE OBVIOUS
  <2>1. PICK i \in 1..Len(m) : <<>> = SubSeq(m, 1, i) BY Zenon DEF Packages
  <2>2. 1 \in 1..Len(m) + 1 /\ i \in 0..Len(m) /\ i \in Nat /\ i >= 1 OBVIOUS
  <2>3. Len(SubSeq(m, 1, i)) = IF 1 <= i THEN (i - 1) + 1 ELSE 0 BY <2>2, Between
  <2> QED BY <2>1, <2>2, <2>3
<1> HIDE DEF As
<1>4. \A a \in As : a # <<>> => (a \in Packages(m) <=> m = a \/ IsPrefix(Append(a, "."), m))
  BY <1>1, PackageOf
<1>5. IsModuleAllowed(m, As \ {<<>>}) <=> \E a \in As \ {<<>>} : m = a \/ IsPrefix(Append(a, "."), m)
  BY Zenon DEF IsModuleAllowed
<1>6. IsModuleAllowed(m, As \ {<<>>}) <=> \E a \in As \ {<<>>} : a \in Packages(m) BY <1>4, <1>5
<1>7. (\E a \in As \ {<<>>} : a \in Packages(m)) <=> Packages(m) \cap As # {} BY <1>3
<1> QED BY <1>2, <1>6, <1>7 DEF As

\* The modules a line imports are sequences of its symbols.
LEMMA ImportsAreSequences ==
  ASSUME NEW S, NEW line \in Seq(S), NEW m \in LineImports(line)
  PROVE  m \in Seq(S)
<1> DEFINE t == Tokens(line)
<1>1. t \in Seq(Seq(S)) BY TokensAreNatural
<1>2. \/ IsImport(t) /\ m \in {Head(c) : c \in Clauses(Tail(t))}
      \/ IsFrom(t) /\ m = t[2]
  BY Zenon DEF LineImports
<1> HIDE DEF t
<1>3. CASE IsImport(t) /\ m \in {Head(c) : c \in Clauses(Tail(t))}
  <2>1. m \in {t[n + 1] : n \in Before(t)} /\ \A n \in Before(t) : n + 1 \in 1..Len(t)
    BY <1>1, <1>3, ImportTokens
  <2>2. PICK n \in Before(t) : m = t[n + 1] BY <2>1
  <2>3. n + 1 \in 1..Len(t) BY <2>1
  <2> QED BY <1>1, <2>2, <2>3, ElementOfSeq
<1>4. CASE IsFrom(t) /\ m = t[2]
  <2>1. Len(t) > 2 BY <1>4, Zenon DEF IsFrom
  <2>2. 2 \in 1..Len(t) BY <1>1, <2>1
  <2> QED BY <1>1, <1>4, <2>2, ElementOfSeq
<1> QED BY <1>2, <1>3, <1>4

\* The check refuses exactly the imports that the allow list does not cover,
\* in every program of import statements and statements without keywords,
\* over any symbols and for any allow list (enforce_allowed_modules).
THEOREM EveryProgramChecked ==
  ASSUME NEW S, NEW text \in Seq(S), NEW allowed \in SUBSET Seq(S), Valid(text), Plain(text)
  PROVE  /\ CollectImportedModules(text) = PythonImports(text)
         /\ Blocked(text, allowed) =
              {m \in PythonImports(text) : Packages(m) \cap {Trim(a) : a \in allowed} = {}}
<1> DEFINE LS == LineSymbols(S)
           N == NormalizeAllowedModules(allowed)
           As == {Trim(a) : a \in allowed}
<1>1. CollectImportedModules(text) = PythonImports(text) BY ImportsAreFound
<1>2. allowed \in SUBSET Seq(LS)
  <2>1. S \subseteq LS BY Zenon DEF LineSymbols
  <2> HIDE DEF LS
  <2> QED BY <2>1
<1>3. ASSUME NEW m \in PythonImports(text) PROVE m \in Seq(LS)
  <2> DEFINE lines == Lexed(text).lines
  <2>1. lines \in Seq(Seq(LS))
    <3>1. Len(text) \in 0..Len(text) OBVIOUS
    <3>2. StateAfter(text)[Len(text)] \in ReaderStates(S) BY <3>1, Reading
    <3>3. StateAfter(text)[Len(text)].lines \in Seq(Seq(LS)) BY <3>2 DEF ReaderStates
    <3> QED BY <3>3, Zenon DEF Lexed
  <2>2. PICK line \in Range(lines) : m \in LineImports(line) BY PythonsOwn
  <2> HIDE DEF lines, LS
  <2>3. PICK n \in DOMAIN lines : line = lines[n] BY <2>2 DEF Range
  <2>4. line \in Seq(LS) BY <2>1, <2>3, ElementOfSeq
  <2> QED BY <2>2, <2>4, ImportsAreSequences
<1> HIDE DEF LS
<1>4. ASSUME NEW m \in PythonImports(text)
      PROVE  IsModuleAllowed(m, N) <=> Packages(m) \cap As # {}
  <2>1. m \in Seq(LS) BY <1>3
  <2> QED BY <1>2, <2>1, AllowedByPackage
<1>5. Blocked(text, allowed) = {m \in PythonImports(text) : ~IsModuleAllowed(m, N)}
  BY <1>1, Zenon DEF Blocked
<1> HIDE DEF N, As
<1>6. Blocked(text, allowed) = {m \in PythonImports(text) : Packages(m) \cap As = {}}
  BY <1>4, <1>5
<1> QED BY <1>1, <1>6 DEF As

\* What the prover for arithmetic cannot read as literals.
Semicolon == ";"
DoubleQuote == "\""

\* What programs are written with.
Symbols == {"import", "from", "as", "a", "b", ".", Space, Comma, Semicolon, DoubleQuote,
            "\n", "#", "'", "\\", "(", ")"}

\* The pieces are written with these symbols.
LEMMA PiecesType == Pieces \subseteq Seq(Symbols)
<1>1. Pieces =
        {<<"import", Space, "a">>, <<Semicolon, Space, "import", Space, "a", "a", Space, "as", Space, "b">>,
         <<"from", Space, "a", ".", "b", Space, "import">>, <<"from", Space, ".", "a", Space, "import">>,
         <<Space, "a">>, <<Comma, "b">>, <<"\n">>, <<"#">>, <<"'">>, <<"'", "'", "'">>,
         <<DoubleQuote>>, <<"\\">>, <<"(">>, <<")">>}
  BY Zenon DEF Pieces, Space, Comma, Semicolon, DoubleQuote
<1>2. <<"import", Space, "a">> \in Seq(Symbols)
      /\ <<Semicolon, Space, "import", Space, "a", "a", Space, "as", Space, "b">> \in Seq(Symbols)
  BY DEF Symbols
<1>3. <<"from", Space, "a", ".", "b", Space, "import">> \in Seq(Symbols)
      /\ <<"from", Space, ".", "a", Space, "import">> \in Seq(Symbols)
  BY DEF Symbols
<1>4. \A x \in Symbols : <<x>> \in Seq(Symbols) OBVIOUS
<1>5. <<Space, "a">> \in Seq(Symbols) /\ <<Comma, "b">> \in Seq(Symbols)
      /\ <<"'", "'", "'">> \in Seq(Symbols)
  BY DEF Symbols
<1>6. {"\n", "#", "'", DoubleQuote, "\\", "(", ")"} \subseteq Symbols BY DEF Symbols
<1> QED BY <1>1, <1>2, <1>3, <1>4, <1>5, <1>6

\* So are the allow lists.
LEMMA AllowListsType == \A allowed \in AllowLists : allowed \in SUBSET Seq(Symbols)
<1>1. AllowLists = {{}, {<<"a">>}, {<<Space, "a", ".", "b", Space>>, <<Space>>}}
  BY Zenon DEF AllowLists, Space
<1>2. <<"a">> \in Seq(Symbols) /\ <<Space, "a", ".", "b", Space>> \in Seq(Symbols)
      /\ <<Space>> \in Seq(Symbols)
  BY DEF Symbols
<1> QED BY <1>1, <1>2

\* The run's invariant, whatever the number of pieces of text: of a program
\* that is written with any number of them, the check refuses exactly the
\* imports that the allow list does not cover (import_policy.rs:26).
THEOREM PolicyAlwaysExact == Spec => []PolicyExact
<1> DEFINE Typed == code \in Seq(Symbols)
<1>1. Init => Typed BY DEF Init
<1>2. Typed /\ [Next]_vars => Typed'
  <2> SUFFICES ASSUME Typed, [Next]_vars PROVE Typed' OBVIOUS
  <2>1. CASE Next
    <3>1. PICK piece \in Pieces : Write(piece) BY <2>1 DEF Next
    <3>2. piece \in Seq(Symbols) BY PiecesType
    <3>3. code' = code \o piece BY <3>1 DEF Write
    <3> QED BY <3>2, <3>3
  <2>2. CASE UNCHANGED vars BY <2>2 DEF vars
  <2> QED BY <2>1, <2>2
<1>3. Typed => PolicyExact
  <2> SUFFICES ASSUME Typed, Valid(code), Plain(code)
               PROVE  /\ CollectImportedModules(code) = PythonImports(code)
                      /\ \A allowed \in AllowLists :
                           Blocked(code, allowed) =
                             {m \in PythonImports(code) : Packages(m) \cap {Trim(a) : a \in allowed} = {}}
    BY DEF PolicyExact
  <2>1. code \in Seq(Symbols) OBVIOUS
  <2>2. CollectImportedModules(code) = PythonImports(code) BY <2>1, ImportsAreFound
  <2>3. ASSUME NEW allowed \in AllowLists
        PROVE  Blocked(code, allowed) =
                 {m \in PythonImports(code) : Packages(m) \cap {Trim(a) : a \in allowed} = {}}
    <3>1. allowed \in SUBSET Seq(Symbols) BY AllowListsType
    <3> QED BY <2>1, <3>1, EveryProgramChecked
  <2> QED BY <2>2, <2>3
<1> QED BY <1>1, <1>2, <1>3, PTL DEF Spec
=============================================================================
