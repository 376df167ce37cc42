-------------------------------- MODULE Split --------------------------------
(***************************************************************************)
(* The statement splitter of pgc migrate (src/internal/migrate/split.go)   *)
(* and what checkFile makes of its result, against the way the server      *)
(* reads the same text (Lexer).                                            *)
(***************************************************************************)
EXTENDS Lexer

CONSTANT Texts  \* bound: the scripts that are split

\* Bound: no text has a digit or a letter beyond ASCII, in which isIdentByte
\* and isIdentStart differ.
ASSUME TextsAssumption ==
  \A text \in Texts : text \in Seq(STRING) /\ \A k \in DOMAIN text : text[k] \notin {"0"} \cup Parameters

VARIABLES
  sql,
  i,      \* the position of the scan
  start,  \* where the current statement began
  words,  \* its first identifiers
  depth,  \* BEGIN/CASE ... END nesting inside a routine
  stmts   \* the statements so far, as [from, to)

vars == <<sql, i, start, words, depth, stmts>>

IsIdentByte(c) == Letter(c)
InWord(c)      == IsIdentByte(c) \/ c = "$"

End(text) == Len(text) + 1
Here == sql[i]

\* The first of some positions, or the end of the text.
FirstOf(text, ks) == IF ks = {} THEN End(text) ELSE CHOOSE k \in ks : \A l \in ks : k <= l

-----------------------------------------------------------------------------
\* Mutant: any E before the quote will do.
EndsInE(text, at) == at > 1 /\ text[at - 1] = "e"

IsEString(text, at) ==
  /\ at > 1 /\ text[at - 1] = "e"
  /\ at = 2 \/ ~IsIdentByte(text[at - 2])

\* A doubled quote is an escape, and so is a backslash in an E string.
SkipQuoted(text, at, q, escapes) ==
  LET skip[j \in 1..(End(text) + 1)] ==
        IF j >= End(text) THEN End(text)
        ELSE IF escapes /\ text[j] = "\\" THEN skip[j + 2]
        ELSE IF text[j] # q THEN skip[j + 1]
        ELSE IF j < Len(text) /\ text[j + 1] = q THEN skip[j + 2] ELSE j + 1
  IN  skip[at + 1]

SkipLine(text, at) ==
  LET j == FirstOf(text, {k \in at..Len(text) : text[k] = "\n"})
  IN  IF j = End(text) THEN j ELSE j + 1

\* Block comments nest: from a position, with so many open.
SkipBlockComment(text, at) ==
  LET skip[p \in (1..End(text)) \X Int] ==
        LET j == p[1]
            open == p[2]
        IN  IF j = End(text) THEN j
            ELSE IF text[j] = "/*" THEN skip[<<j + 1, open + 1>>]
            ELSE IF text[j] # "*/" THEN skip[<<j + 1, open>>]
            ELSE IF open = 1 THEN j + 1 ELSE skip[<<j + 1, open - 1>>]
  IN  skip[<<at, 0>>]

\* $tag$ ... $tag$; a $ that opens none is a plain character.
SkipDollarQuoted(text, at) ==
  LET close == FirstOf(text, {k \in (at + 1)..Len(text) : ~IsIdentByte(text[k])})
      tag   == SubSeq(text, at, close)
      last  == End(text) - Len(tag)
      again == FirstOf(text, {k \in (close + 1)..last : SubSeq(text, k, k + Len(tag) - 1) = tag})
  IN  IF close = End(text) \/ text[close] # "$" THEN at + 1
      ELSE IF again = End(text) THEN again ELSE again + Len(tag)

WordEnd(text, at) == FirstOf(text, {k \in at..Len(text) : ~InWord(text[k])})

\* CREATE FUNCTION or CREATE PROCEDURE, OR REPLACE or not.
RoutineBody(ws) ==
  \/ Len(ws) >= 2 /\ ws[1] = <<"create">> /\ ws[2] = <<"function">>
  \/ /\ Len(ws) >= 4 /\ ws[1] = <<"create">> /\ ws[2] = <<"or">>
     /\ ws[3] = <<"replace">> /\ ws[4] = <<"function">>

-----------------------------------------------------------------------------
Init ==
  /\ sql \in Texts
  /\ i = 1 /\ start = 1 /\ words = <<>> /\ depth = 0 /\ stmts = <<>>

Scanning == i < End(sql)

\* A statement of nothing but blanks is dropped.
Flushed(from, to) ==
  IF Solid(sql, from, to) THEN Append(stmts, <<from, to>>) ELSE stmts

SkipTo(j) == i' = j /\ UNCHANGED <<sql, start, words, depth, stmts>>

\* Quotes, comments and dollar quotes are skipped whole, ...
Quote ==
  /\ Scanning /\ Here \in {"'", "\""}
  /\ SkipTo(SkipQuoted(sql, i, Here, Here = "'" /\ IsEString(sql, i)))

Comment ==
  /\ Scanning
  /\ \/ Here = "--" /\ SkipTo(SkipLine(sql, i))
     \/ Here = "/*" /\ SkipTo(SkipBlockComment(sql, i))

DollarQuote == Scanning /\ Here = "$" /\ SkipTo(SkipDollarQuoted(sql, i))

\* ... a semicolon cuts, unless it is inside the body of a routine, ...
Semicolon ==
  /\ Scanning /\ Here = ";"
  /\ i' = i + 1
  /\ IF depth > 0
     THEN UNCHANGED <<start, words, depth, stmts>>
     ELSE stmts' = Flushed(start, i) /\ start' = i + 1 /\ words' = <<>> /\ depth' = 0
  /\ UNCHANGED sql

\* ... which identifiers tell, ...
Word ==
  /\ Scanning /\ IsIdentByte(Here)
  /\ LET j    == WordEnd(sql, i)
         word == SubSeq(sql, i, j - 1)
         seen == IF Len(words) < 4 THEN Append(words, word) ELSE words
     IN  /\ i' = j /\ words' = seen
         /\ depth' = IF word \in {<<"begin">>, <<"case">>} /\ RoutineBody(seen) THEN depth + 1
                     ELSE IF word = <<"end">> /\ depth > 0 THEN depth - 1 ELSE depth
  /\ UNCHANGED <<sql, start, stmts>>

\* ... and everything else is passed over.
Other ==
  /\ Scanning
  /\ Here \in Blank \cup (Signs \ {"'", "\"", "--", "/*", "$", ";"})
  /\ SkipTo(i + 1)

\* At the end the last statement is flushed.
Finish ==
  /\ i = End(sql) /\ start <= End(sql)
  /\ stmts' = Flushed(start, End(sql)) /\ start' = End(sql) + 1
  /\ UNCHANGED <<sql, i, words, depth>>

Done == start = End(sql) + 1

Next ==
  \/ Quote \/ Comment \/ DollarQuote \/ Semicolon \/ Word \/ Other \/ Finish
  \/ Done /\ UNCHANGED vars

Spec == Init /\ [][Next]_vars

-----------------------------------------------------------------------------
\* Mutant: comments before the first word are not skipped.
LeadingWordsAtOnce(text, from, to) ==
  LET first == FirstOf(text, {k \in from..Len(text) : text[k] \notin Blank})
      j     == WordEnd(text, first)
      next  == FirstOf(text, {k \in j..Len(text) : text[k] \notin Blank})
  IN  <<IF first < to /\ IsIdentByte(text[first]) THEN SubSeq(text, first, j - 1) ELSE <<>>,
        IF next < to THEN SubSeq(text, next, WordEnd(text, next) - 1) ELSE <<>> >>

\* The first two words of a statement, past comments; punctuation ends them.
LeadingWords(text, from, to) ==
  LET cut(j) == IF j > to THEN to ELSE j
      lead[p \in (from..to) \X (0..2)] ==
        LET j == p[1]
            n == p[2]
        IN  IF j = to \/ n = 2 THEN <<>>
            ELSE IF text[j] \in Blank THEN lead[<<j + 1, n>>]
            ELSE IF text[j] = "--" THEN lead[<<cut(SkipLine(text, j)), n>>]
            ELSE IF text[j] = "/*" THEN lead[<<cut(SkipBlockComment(text, j)), n>>]
            ELSE IF IsIdentByte(text[j])
                 THEN <<SubSeq(text, j, cut(WordEnd(text, j)) - 1)>> \o lead[<<cut(WordEnd(text, j)), n + 1>>]
            ELSE <<>>
  IN  lead[<<from, 0>>] \o <<<<>>, <<>> >>

TransactionControl(text, stmt) ==
  LET ws == LeadingWords(text, stmt[1], stmt[2])
  IN  \/ ws[1] \in {<<"begin">>, <<"commit">>, <<"end">>, <<"abort">>}
      \/ ws[1] \in {<<"start">>, <<"prepare">>} /\ ws[2] = <<"transaction">>
      \/ ws[1] = <<"rollback">> /\ ws[2] # <<"to">>

\* checkFile refuses the file.
Refused == \E k \in DOMAIN stmts : TransactionControl(sql, stmts[k])

-----------------------------------------------------------------------------
(* Safety. *)

Read == Server(sql)

\* A script is cut where PostgreSQL would cut it: a semicolon in a string,
\* an identifier, a dollar quote, a comment or a routine is none, and every
\* other one is.  Apart are the texts in which splitStatements and the server
\* do part: a string right after an identifier that ends in $e; a semicolon
\* inside parentheses; and what is no SQL, a semicolon inside a CASE outside
\* any BEGIN, an END inside parentheses that nothing there opened, and an
\* escape string before the FUNCTION that CREATE creates.
SplitsAsServer == Done => Read.apart \/ stmts = Read.stmts

\* No comment, string or dollar quote hides from checkFile a statement that
\* would end the transaction of a migration under pgc's feet.
NoHiddenControl == Done => (Read.control => Read.apart \/ Refused)
=============================================================================
