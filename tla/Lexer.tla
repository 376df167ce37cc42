-------------------------------- MODULE Lexer --------------------------------
(***************************************************************************)
(* How PostgreSQL reads a script, the reference Split is checked against:  *)
(* the rules of its lexer (scan.l) that tell strings, identifiers and      *)
(* comments apart, and psql's rule (psqlscan.l) for the semicolons inside  *)
(* the body of a routine.  A text is a sequence of atoms: a word is a run  *)
(* of identifier bytes, "--", "/*", "*/", "::", "[]" and a parameter are   *)
(* one atom, every other atom is one byte.  One atom is read at a time.    *)
(***************************************************************************)
EXTENDS Integers, Sequences, SequencesExt

Blank == {" ", "\n"}
Operators == {"@", "<", "-", "+", "*", "="}
Parameters == {"$1", "$2", "$3", "$4"}
Signs == {"'", "\"", "\\", "$", ";", "--", "/*", "*/", "0", "(", ")", ",", "::", "[]", "."}
         \cup Operators \cup Parameters
Letter(c) == c \notin Blank \cup Signs
Solid(text, from, to) == \E k \in from..(to - 1) : text[k] \notin Blank

\* CREATE [OR REPLACE] FUNCTION or PROCEDURE, of what is no word nothing counts.
CreatesRoutine(words) ==
  \E head \in {<<"create", "function">>, <<"create", "or", "replace", "function">>} :
     Len(head) <= Len(words) /\ \A k \in DOMAIN head : words[k] = <<head[k]>>

\* The commands that end or start the transaction they run in.
Controls(tokens) ==
  LET nth(k) == IF k \in DOMAIN tokens THEN tokens[k] ELSE <<>>
  IN  \/ nth(1) \in {<<"begin">>, <<"commit">>, <<"end">>, <<"abort">>}
      \/ nth(1) \in {<<"start">>, <<"prepare">>} /\ nth(2) = <<"transaction">>
      \/ nth(1) = <<"rollback">> /\ nth(2) # <<"to">>

-----------------------------------------------------------------------------
\* mode: what is being read; seen: its text, where that matters; delim: what
\* closes it; tokens: the first two of the statement, <<>> for one that is no
\* word; words: its first four identifiers; begins: the BEGINs of a routine
\* (with the CASEs inside them) that are open; cases: what else of it an END
\* would close; parens: the parentheses that are open; string: an escape
\* string has come before those words; stmts: the statements, as [from, to);
\* control: one of them controls the transaction; apart: see
\* Split!SplitsAsServer.
Start ==
  [mode |-> "plain", seen |-> <<>>, delim |-> <<>>, open |-> 0, tokens |-> <<>>, words |-> <<>>,
   begins |-> 0, cases |-> 0, parens |-> 0, string |-> FALSE, from |-> 1, at |-> 1, stmts |-> <<>>,
   control |-> FALSE, apart |-> FALSE]

Token(r, word) == [r EXCEPT !.tokens = IF Len(@) < 2 THEN Append(@, word) ELSE @]

\* Inside parentheses no BEGIN counts, and before a BEGIN no CASE.
Identifier(r, word) ==
  LET words  == IF Len(r.words) < 4 THEN Append(r.words, word) ELSE r.words
      body   == CreatesRoutine(words)
      opens  == body /\ word \in {<<"begin">>, <<"case">>}
      closes == body /\ word = <<"end">>
      counts == r.parens = 0 /\ (r.begins > 0 \/ word = <<"begin">>)
  IN  [Token(r, word) EXCEPT
         !.words  = words,
         !.begins = IF opens /\ counts THEN @ + 1 ELSE IF closes /\ counts THEN @ - 1 ELSE @,
         !.cases  = IF opens /\ ~counts THEN @ + 1 ELSE IF closes /\ ~counts /\ @ > 0 THEN @ - 1 ELSE @,
         !.apart  = @ \/ (body /\ r.string) \/ (closes /\ ~counts /\ r.cases = 0 /\ r.begins > 0)]

Cut(text, r) ==
  [r EXCEPT !.stmts = IF Solid(text, r.from, r.at) THEN Append(@, <<r.from, r.at>>) ELSE @,
            !.from = r.at + 1, !.control = @ \/ Controls(r.tokens), !.apart = @ \/ r.cases > 0,
            !.tokens = <<>>, !.words = <<>>, !.begins = 0, !.cases = 0, !.string = FALSE]

Opens(r, mode, delim) == [Token(r, <<>>) EXCEPT !.mode = mode, !.delim = <<delim>>]

\* Neither in a BEGIN nor in parentheses does a semicolon cut.
Semi(text, r) ==
  IF r.begins > 0 \/ r.parens > 0 THEN [r EXCEPT !.apart = @ \/ r.begins + r.cases = 0]
  ELSE Cut(text, r)

Plain(text, before, c) ==
  LET r == [before EXCEPT !.mode = "plain"]
  IN  CASE c \in Blank        -> r
        [] Letter(c)          -> [r EXCEPT !.mode = "word", !.seen = <<c>>]
        [] c \in {"'", "\""}  -> Opens(r, "quoted", c)
        [] c = "$"            -> [Token(r, <<>>) EXCEPT !.mode = "tag", !.seen = <<"$">>]
        [] c = "--"           -> [r EXCEPT !.mode = "line"]
        [] c = "/*"           -> [r EXCEPT !.mode = "block", !.open = 1]
        [] c = ";"            -> Semi(text, r)
        [] c = "("            -> [Token(r, <<>>) EXCEPT !.parens = @ + 1]
        [] c = ")"            -> [Token(r, <<>>) EXCEPT !.parens = IF @ > 0 THEN @ - 1 ELSE @]
        [] OTHER              -> Token(r, <<>>)

\* An e right before a quote makes it an escape string, and is no identifier.
AfterWord(text, r, c) ==
  IF r.seen = <<>> THEN Plain(text, r, c)
  ELSE IF r.seen = <<"e">> /\ c = "'"
       THEN [Opens(r, "escapes", c) EXCEPT !.string = @ \/ ~CreatesRoutine(r.words)]
  ELSE LET read == Plain(text, Identifier(r, r.seen), c)
       IN  [read EXCEPT !.apart = @ \/ (c = "'" /\ IsSuffix(<<"$", "e">>, r.seen))]

\* A tag that is none leaves a plain $ and a word.
Tag(text, r, c) ==
  IF Letter(c) THEN [r EXCEPT !.seen = Append(@, c)]
  ELSE IF c = "$" THEN [r EXCEPT !.mode = "dollar", !.delim = Append(r.seen, c), !.seen = <<>>]
  ELSE AfterWord(text, [r EXCEPT !.seen = Tail(@)], c)

Quoted(r, c) ==
  IF <<c>> = r.delim THEN [r EXCEPT !.mode = IF @ = "quoted" THEN "quote" ELSE "quoteE"]
  ELSE IF r.mode = "escapes" /\ c = "\\" THEN [r EXCEPT !.mode = "escaped"] ELSE r

Block(r, c) ==
  LET open == IF c = "/*" THEN r.open + 1 ELSE IF c = "*/" THEN r.open - 1 ELSE r.open
  IN  [r EXCEPT !.open = open, !.mode = IF open = 0 THEN "plain" ELSE @]

Dollar(r, c) ==
  LET seen == Append(r.seen, c)
  IN  [r EXCEPT !.seen = seen, !.mode = IF IsSuffix(r.delim, seen) THEN "plain" ELSE @]

Reads(text, r, c) ==
  CASE r.mode = "plain"               -> Plain(text, r, c)
    [] r.mode = "word"                -> IF Letter(c) \/ c \in {"$", "0"} \cup Parameters THEN [r EXCEPT !.seen = Append(@, c)]
                                         ELSE AfterWord(text, r, c)
    [] r.mode = "tag"                 -> Tag(text, r, c)
    [] r.mode \in {"quoted", "escapes"} -> Quoted(r, c)
    [] r.mode = "escaped"             -> [r EXCEPT !.mode = "escapes"]
    [] r.mode = "quote"               -> IF <<c>> = r.delim THEN [r EXCEPT !.mode = "quoted"]
                                         ELSE Plain(text, r, c)
    [] r.mode = "quoteE"              -> IF <<c>> = r.delim THEN [r EXCEPT !.mode = "escapes"]
                                         ELSE Plain(text, r, c)
    [] r.mode = "line"                -> IF c = "\n" THEN [r EXCEPT !.mode = "plain"] ELSE r
    [] r.mode = "block"               -> Block(r, c)
    [] r.mode = "dollar"              -> Dollar(r, c)

\* What has been read when n atoms have been; the line break ends the last word.
Reading(text) ==
  LET all == Append(text, "\n")
      read[n \in 0..Len(all)] ==
        IF n = 0 THEN Start ELSE [Reads(text, read[n - 1], all[n]) EXCEPT !.at = n + 1]
  IN  read

\* What the server makes of a text.
Server(text) == Cut(text, [Reading(text)[Len(text) + 1] EXCEPT !.at = Len(text) + 1])
=============================================================================
