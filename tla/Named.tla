-------------------------------- MODULE Named --------------------------------
(***************************************************************************)
(* The lexer of the query files (src/internal/queryfile/named.go): where   *)
(* SQL is literal, and how @name placeholders become the $N the server     *)
(* understands.  A text is a sequence of atoms, as in Lexer, whose reading *)
(* of it is the reference.                                                 *)
(***************************************************************************)
EXTENDS Lexer, FiniteSets

NameStart(c) == Letter(c)
NameChar(c)  == Letter(c) \/ c = "0"

\* The first position from one on with an atom of some kind, or the end.
NextOf(text, from, kind) ==
  LET ks == {k \in from..Len(text) : text[k] \in kind}
  IN  IF ks = {} THEN Len(text) + 1 ELSE CHOOSE k \in ks : \A l \in ks : k <= l

NameEnd(text, from) ==
  LET ks == {k \in from..Len(text) : ~NameChar(text[k])}
  IN  IF ks = {} THEN Len(text) + 1 ELSE CHOOSE k \in ks : \A l \in ks : k <= l

\* The E must be a token of its own.
Escaping(text, i) ==
  /\ i > 1 /\ text[i - 1] = "e"
  /\ i = 2 \/ ~NameChar(text[i - 2])

\* The end of a string: a doubled quote does not end it, nor does one after
\* a backslash in an E string.
QuotedRun(text, i, q, backslash) ==
  LET end == Len(text) + 1
      run[j \in 1..(end + 1)] ==
        IF j >= end THEN end
        ELSE IF backslash /\ text[j] = "\\" THEN run[j + 2]
        ELSE IF text[j] # q THEN run[j + 1]
        ELSE IF j + 1 < end /\ text[j + 1] = q THEN run[j + 2] ELSE j + 1
  IN  run[i + 1]

\* Comments nest.
BlockComment(text, i) ==
  LET end == Len(text) + 1
      run[j \in 1..end, depth \in 0..end] ==
        IF j = end THEN end
        ELSE IF text[j] = "/*" THEN run[j + 1, depth + 1]
        ELSE IF text[j] # "*/" THEN run[j + 1, depth]
        ELSE IF depth = 1 THEN j + 1 ELSE run[j + 1, depth - 1]
  IN  run[i, 0]

\* A $tag$ that is never closed opens nothing.
DollarQuoted(text, i) ==
  LET opens(close) == /\ text[close] = "$" /\ text[i + 1] # "0"
                      /\ \A k \in (i + 1)..(close - 1) : NameChar(text[k])
      ends == {end \in (i + 4)..(Len(text) + 1) :
                 \E close \in {close \in (i + 1)..Len(text) : opens(close)} :
                   /\ end - 1 > close + close - i
                   /\ SubSeq(text, end - 1 - (close - i), end - 1) = SubSeq(text, i, close)}
  IN  IF ends = {} THEN i ELSE CHOOSE end \in ends : \A other \in ends : end <= other

\* The end of what must be copied untouched, or i where nothing literal starts;
\* the line break after a line comment is left to the caller.
LiteralRun(text, i) ==
  CASE text[i] = "'"  -> QuotedRun(text, i, "'", Escaping(text, i))
    [] text[i] = "\"" -> QuotedRun(text, i, "\"", FALSE)
    [] text[i] = "--" -> NextOf(text, i, {"\n"})
    [] text[i] = "/*" -> BlockComment(text, i)
    [] text[i] = "$"  -> DollarQuoted(text, i)
    [] OTHER          -> i

\* What the scan makes of a text, piece by piece; a parameter written as $1
\* is copied too, and makes the text mixed.
Pieces(text) ==
  LET copy(from, to) == [kind |-> "copy", from |-> from, to |-> to]
      scan[i \in 1..(Len(text) + 1)] ==
        IF i > Len(text) THEN <<>>
        ELSE LET skip == LiteralRun(text, i)
             IN  IF skip > i THEN <<copy(i, skip)>> \o scan[skip]
                 ELSE IF text[i] \in Parameters THEN <<[copy(i, i + 1) EXCEPT !.kind = "number"]>> \o scan[i + 1]
                 ELSE IF text[i] = "@" /\ i < Len(text) /\ NameStart(text[i + 1])
                      THEN LET j == NameEnd(text, i + 1)
                           IN  <<[copy(i, j) EXCEPT !.kind = "name"]>> \o scan[j]
                 ELSE <<copy(i, i + 1)>> \o scan[i + 1]
  IN  scan[1]

NameIn(text, piece) == SubSeq(text, piece.from + 1, piece.to - 1)

\* Mutant: every placeholder gets a number of its own.
EveryName(names, name) == Append(names, name)

\* A repeated name keeps its number.
AddName(names, name) == IF Contains(names, name) THEN names ELSE Append(names, name)

Numbered == <<"$1", "$2", "$3", "$4">>

\* The text for the server and the names in the order of their numbers; a
\* text that mixes the two styles is refused.
RewriteNamed(text) ==
  LET pieces == Pieces(text)
      named  == SelectSeq(pieces, LAMBDA p : p.kind = "name")
      names  == FoldLeft(LAMBDA seen, p : AddName(seen, NameIn(text, p)), <<>>, named)
      number(p) == CHOOSE n \in DOMAIN names : names[n] = NameIn(text, p)
      out(p) == IF p.kind = "name" THEN <<Numbered[number(p)]>>
                ELSE SubSeq(text, p.from, p.to - 1)
  IN  [refused |-> names # <<>> /\ \E k \in DOMAIN pieces : pieces[k].kind = "number",
       text |-> FoldLeft(LAMBDA sql, p : sql \o out(p), <<>>, pieces),
       names |-> names]

-----------------------------------------------------------------------------
\* The server's lexer at each atom, and after the last.
ReaderAt(text) ==
  FoldLeft(LAMBDA rs, c : Append(rs, Reads(text, rs[Len(rs)], c)), <<Start>>, text)

InCode(r) == r.mode \in {"plain", "word", "tag", "quote", "quoteE"}

\* What the rewriting should come to: every @name of the code, and nothing
\* else, becomes the number its name has by first appearance.
Placeholders(text) ==
  LET rs == ReaderAt(text)
  IN  {k \in 1..(Len(text) - 1) : text[k] = "@" /\ InCode(rs[k]) /\ Letter(text[k + 1])}

Expected(text) ==
  LET at      == Placeholders(text)
      name(k) == SubSeq(text, k + 1, NameEnd(text, k + 1) - 1)
      first   == {k \in at : \A l \in at : name(l) = name(k) => k <= l}
      number(k) == Cardinality({l \in first : \E f \in first : name(f) = name(k) /\ l <= f})
      inName(j) == \E k \in at : j \in (k + 1)..(NameEnd(text, k + 1) - 1)
      out(j)  == IF j \in at THEN <<Numbered[number(j)]>> ELSE IF inName(j) THEN <<>> ELSE <<text[j]>>
  IN  FoldLeft(LAMBDA sql, j : sql \o out(j), <<>>, [j \in DOMAIN text |-> j])

\* The texts rewriteNamed reads otherwise than the server: a name right after
\* an operator that ends in @ (x <@y) or right after a word (limit@n, which
\* becomes limit$1), and $ in the middle of an identifier.
ReadApart(text) ==
  LET rs == ReaderAt(text)
  IN  \/ \E k \in DOMAIN text : text[k] = "$" /\ rs[k].mode = "word"
      \/ \E k \in Placeholders(text) :
            rs[k].mode = "word" \/ (k > 1 /\ InCode(rs[k - 1]) /\ text[k - 1] \in Operators)

\* A text that ends inside a string or a comment, which the server refuses.
Unfinished(text) ==
  LET rs == ReaderAt(text)
  IN  rs[Len(rs)].mode \in {"quoted", "escapes", "escaped", "block", "dollar"}
=============================================================================
