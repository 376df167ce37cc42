------------------------------- MODULE Params -------------------------------
(***************************************************************************)
(* The names of the parameters nobody named                                *)
(* (src/internal/queryfile/params.go): a scan of the statement's tokens    *)
(* for the column a parameter is compared with or inserted into.           *)
(***************************************************************************)
EXTENDS NotNull

KeyWords ==
  {<<w>> : w \in {"select", "from", "where", "and", "or", "not", "insert", "into", "values", "set", "limit", "offset",
                  "returning", "join", "on", "left", "as", "in", "between", "any", "all"}}

-----------------------------------------------------------------------------
(* Tokens. *)

\* An identifier has its atoms as value, whether it is quoted or not; a
\* parameter and a sign are their atom.
Tok(kind, val) == [kind |-> kind, val |-> val]
OtherTok == Tok("other", <<>>)

\* $tag$ ... $tag$, or all the rest where it is not closed.
SkipDollar(text, i) ==
  LET close == NextOf(text, i + 1, {"$"})
      tag   == SubSeq(text, i, close)
      again == {k \in (close + 1)..Len(text) : SubSeq(text, k, k + Len(tag) - 1) = tag}
  IN  IF again = {} THEN Len(text) + 1 ELSE Min(again) + Len(tag)

\* The end of a run of operator characters, which a comment may start with too.
OperatorEnd(text, i) ==
  LET ks == {k \in i..Len(text) : text[k] \notin Operators \cup {"--", "/*", "*/"}}
  IN  IF ks = {} THEN Len(text) + 1 ELSE Min(ks)

Quotation(text, i) == QuotedRun(text, i, text[i], FALSE)

Tokenize(text) ==
  LET scan[i \in 1..(Len(text) + 1)] ==
        IF i > Len(text) THEN <<>>
        ELSE CASE text[i] \in Blank  -> scan[i + 1]
               [] text[i] = "--"     -> scan[IF NextOf(text, i, {"\n"}) > Len(text) THEN Len(text) + 1
                                             ELSE NextOf(text, i, {"\n"}) + 1]
               [] text[i] = "/*"     -> scan[IF NextOf(text, i, {"*/"}) > Len(text) THEN Len(text) + 1
                                             ELSE NextOf(text, i, {"*/"}) + 1]
               [] text[i] = "'"      -> <<OtherTok>> \o scan[Quotation(text, i)]
               [] text[i] = "\""     -> <<Tok("ident", SubSeq(text, i + 1, Quotation(text, i) - 2))>>
                                        \o scan[Quotation(text, i)]
               [] text[i] \in Parameters -> <<Tok("param", <<text[i]>>)>> \o scan[i + 1]
               [] text[i] = "$"      -> <<OtherTok>> \o scan[SkipDollar(text, i)]
               [] Letter(text[i])    -> <<Tok("ident", <<text[i]>>)>> \o scan[i + 1]
               [] text[i] = "0"      -> <<OtherTok>> \o scan[i + 1]
               [] text[i] \in Operators -> <<Tok("op", SubSeq(text, i, OperatorEnd(text, i) - 1))>>
                                           \o scan[OperatorEnd(text, i)]
               [] OTHER              -> <<Tok("sign", <<text[i]>>)>> \o scan[i + 1]
  IN  scan[1]

TokAt(toks, i) == IF i \in DOMAIN toks THEN toks[i] ELSE OtherTok

IsCompare(t) ==
  \/ t.kind = "ident" /\ t.val \in {<<"like">>, <<"ilike">>}
  \/ t.kind = "op" /\ t.val \in {<<"=">>, <<"<">>, <<"<", "=">>}

-----------------------------------------------------------------------------
(* The column. *)

\* Where the column stands, from the parameter: a comparison in either
\* direction, a list, an array.
Neighbor(toks, i) ==
  LET sign(k, val) == TokAt(toks, i + k).val = <<val>>
      array(k)     == sign(k, "any") \/ sign(k, "all")
      places == <<IF IsCompare(TokAt(toks, i - 1)) THEN -2 ELSE 0,
                  IF IsCompare(TokAt(toks, i + 1)) THEN 2 ELSE 0,
                  IF sign(-1, "(") /\ sign(-2, "in") THEN -3 ELSE 0,
                  IF sign(-1, "(") /\ array(-2) /\ IsCompare(TokAt(toks, i - 3)) THEN -4 ELSE 0,
                  IF IsCompare(TokAt(toks, i + 1)) /\ array(2) /\ sign(3, "(") THEN 4 ELSE 0>>
      names(k) == k # 0 /\ TokAt(toks, i + k).kind = "ident" /\ TokAt(toks, i + k).val \notin KeyWords
      found == SelectSeq(places, names)
  IN  IF TokAt(toks, i - 1).kind = "ident" /\ TokAt(toks, i - 1).val \in {<<"limit">>, <<"offset">>}
      THEN TokAt(toks, i - 1).val
      ELSE IF found = <<>> THEN <<>> ELSE TokAt(toks, i + found[1]).val

\* How deep in parentheses a token of a list is.
TokDepth(toks, k) ==
  Cardinality({j \in 1..k : toks[j].val = <<"(">>}) - Cardinality({j \in 1..k : toks[j].val = <<")">>})

\* Mutant: a comma of a call separates two values.
AnyComma(toks) == {k \in DOMAIN toks : toks[k].val = <<",">>}

ValueCommas(toks) == {k \in DOMAIN toks : toks[k].val = <<",">> /\ TokDepth(toks, k) = 0}

TokFrom(toks, from, val) ==
  LET ks == {k \in from..Len(toks) : toks[k].val = <<val>>}
  IN  IF ks = {} THEN Len(toks) + 1 ELSE Min(ks)

\* INSERT INTO t (a, b) VALUES ($1, $2): the pairs of a parameter that is a
\* whole value of the first row, and the column at its position.
InsertValues(toks) ==
  LET inserts == {k \in DOMAIN toks : toks[k].val = <<"insert">> /\ TokAt(toks, k + 1).val = <<"into">>}
      table   == {k \in (Min(inserts) + 2)..Len(toks) : toks[k].kind # "ident" /\ toks[k].val # <<".">>}
      open    == IF table = {} THEN Len(toks) + 1 ELSE Min(table)
      close   == TokFrom(toks, open, ")")
      columns == SelectSeq(SubSeq(toks, open + 1, close - 1), LAMBDA t : t.kind = "ident")
      values  == TokFrom(toks, close, "values")
      rest    == SubSeq(toks, values + 2, Len(toks))
      ends    == {k \in DOMAIN rest : TokDepth(rest, k) < 0}
      tuple   == SubSeq(rest, 1, Min(ends) - 1)
      items   == CutAt(tuple, ValueCommas(tuple))
      whole   == {n \in DOMAIN items : Len(items[n]) = 1 /\ items[n][1].kind = "param" /\ n <= Len(columns)}
  IN  IF \/ inserts = {} \/ TokAt(toks, open).val # <<"(">>
         \/ TokAt(toks, values + 1).val # <<"(">> \/ ends = {}
      THEN <<>>
      ELSE [n \in 1..Cardinality(whole) |->
              LET m == SetToSortSeq(whole, <)[n] IN <<items[m][1].val[1], columns[m].val>>]

Arg(n) == <<<<"arg1", "arg2", "arg3", "arg4">>[n]>>

\* An annotation first, then the row that is inserted, then what the parameter
\* is compared with where it is used first; argN for the others.
InferParamNames(text, names, count) ==
  LET toks == Tokenize(text)
      inserted(n) == SelectSeq(InsertValues(toks), LAMBDA pair : pair[1] = Numbered[n])
      uses(n) == {k \in DOMAIN toks : toks[k].val = <<Numbered[n]>> /\ Neighbor(toks, k) # <<>>}
      name(n) == IF n \in DOMAIN names THEN names[n]
                 ELSE IF inserted(n) # <<>> THEN Head(inserted(n))[2]
                 ELSE IF uses(n) # {} THEN Neighbor(toks, Min(uses(n)))
                 ELSE Arg(n)
  IN  [n \in 1..count |-> name(n)]
=============================================================================
