------------------------------- MODULE NotNull -------------------------------
(***************************************************************************)
(* Which expressions of a statement's output list pgc takes for never NULL *)
(* (src/internal/compile/notnull.go), and how it finds that list in the    *)
(* text (src/internal/queryfile/selectlist.go).  Nothing here is a parser: *)
(* texts are the sequences of atoms of Named, a word and a number being    *)
(* one atom each.                                                          *)
(***************************************************************************)
EXTENDS Named

Word(c) == Letter(c) \/ c = "0"
Starts(text) == IF text = <<>> THEN "" ELSE text[1]
Ends(text)   == IF text = <<>> THEN "" ELSE text[Len(text)]

\* Blanks around a text.
Trim(text) ==
  LET solid == {k \in DOMAIN text : text[k] \notin Blank}
  IN  IF solid = {} THEN <<>> ELSE SubSeq(text, Min(solid), Max(solid))

\* How many of some positions' parentheses are open before a position.
DepthBefore(text, ks, i) ==
  Cardinality({k \in ks : k < i /\ text[k] = "("}) - Cardinality({k \in ks : k < i /\ text[k] = ")"})

\* The parts of a text between some of its positions.
CutAt(text, ks) ==
  LET cuts == SetToSortSeq(ks, <)
      from(n) == IF n = 1 THEN 1 ELSE cuts[n - 1] + 1
      to(n)   == IF n > Len(cuts) THEN Len(text) ELSE cuts[n] - 1
  IN  [n \in 1..(Len(cuts) + 1) |-> SubSeq(text, from(n), to(n))]

-----------------------------------------------------------------------------
(* The output list. *)

\* The position of the first word from one on that is read as code, or 0.
FirstWord(text, from) ==
  LET scan[i \in 1..(Len(text) + 1)] ==
        IF i > Len(text) THEN 0
        ELSE LET skip == LiteralRun(text, i)
             IN  IF skip > i THEN scan[skip] ELSE IF NameStart(text[i]) THEN i ELSE scan[i + 1]
  IN  scan[from]

Nests(c) == CASE c = "(" -> 1 [] c = ")" -> -1 [] OTHER -> 0

\* The positions outside parentheses, strings and comments.
TopLevel(text) ==
  LET scan[i \in 1..(Len(text) + 1), depth \in (-Len(text))..Len(text)] ==
        IF i > Len(text) THEN {}
        ELSE LET skip == LiteralRun(text, i)
             IN  IF skip > i THEN scan[skip, depth]
                 ELSE (IF depth = 0 THEN {i} ELSE {}) \cup scan[i + 1, depth + Nests(text[i])]
  IN  scan[1, 0]

\* The position of the first such word, or 0.
TopLevelWord(text, word) ==
  LET at == {k \in TopLevel(text) : text[k] = word} IN IF at = {} THEN 0 ELSE Min(at)

WordAt(text, k) == IF k = 0 THEN "" ELSE text[k]

\* DISTINCT is passed over, DISTINCT ON is refused.
AfterSelect(text, select, next) ==
  IF WordAt(text, next) # "distinct" THEN {select}
  ELSE IF WordAt(text, FirstWord(text, next + 1)) = "on" THEN {} ELSE {next}

StartFrom(text, first) ==
  CASE WordAt(text, first) = "select" ->
         UNION {AfterSelect(text, first, next) : next \in {FirstWord(text, first + 1)}}
    [] WordAt(text, first) \in {"insert", "update", "delete"} ->
         {TopLevelWord(text, "returning")} \ {0}
    [] OTHER -> {}

\* The position before the list, none where the statement is no plain SELECT
\* and has no RETURNING.
ListStart(text) == UNION {StartFrom(text, first) : first \in {FirstWord(text, 1)}}

\* The columns are then those of the combined result.
SetOperation(rest) == \E op \in {"union", "intersect", "except"} : TopLevelWord(rest, op) > 0

SplitTopLevel(text) ==
  LET items == CutAt(text, {k \in TopLevel(text) : text[k] = ","})
  IN  IF Len(items) = 1 /\ Trim(items[1]) = <<>> THEN <<>> ELSE items

\* The text of the list, of what begins with it; none for a set operation.
ListEnd(rest) ==
  IF SetOperation(rest) THEN {}
  ELSE {IF from = 0 THEN rest ELSE SubSeq(rest, 1, from - 1) : from \in {TopLevelWord(rest, "from")}}

\* A star, or nothing at all, in the place of an expression.
Hides(item) == Trim(item) \in {<<>>, <<"*">>} \/ IsSuffix(<<".", "*">>, Trim(item))

\* The expressions between SELECT or RETURNING and FROM, one to a column: one
\* list of them, none where it cannot be trusted.
SelectList(text) ==
  LET rests == {SubSeq(text, start + 1, Len(text)) : start \in ListStart(text)}
      lists == UNION {ListEnd(rest) : rest \in rests}
  IN  {items \in {SplitTopLevel(list) : list \in lists} :
         items # <<>> /\ \A n \in DOMAIN items : ~Hides(items[n])}

-----------------------------------------------------------------------------
(* The expression. *)

\* The expression ends before a top-level AS, whatever it stands in, ...
AliasKeyword(e) ==
  {k \in 2..Len(e) : /\ e[k] = "as" /\ e[k - 1] \in Blank
                     /\ k = Len(e) \/ e[k + 1] \in Blank
                     /\ DepthBefore(e, DOMAIN e, k) = 0}

\* ... or before a word that follows the end of an expression.
StripAlias(text) ==
  LET e    == Trim(text)
      bare == Trim(SubSeq(e, 1, Len(e) - 1))
  IN  IF AliasKeyword(e) # {} THEN SubSeq(e, 1, Min(AliasKeyword(e)) - 2)
      ELSE IF /\ Word(Ends(e)) /\ Len(bare) < Len(e) - 1
              /\ Ends(bare) \in {")", "'", "0"}
           THEN bare ELSE e

\* The positions of a text outside its quotes, which know no escapes.
Unquoted(text) ==
  LET scan[i \in 1..(Len(text) + 1), quote \in {"", "'", "\""}] ==
        IF i > Len(text) THEN {}
        ELSE IF quote # "" THEN scan[i + 1, IF text[i] = quote THEN "" ELSE quote]
        ELSE IF text[i] \in {"'", "\""} THEN scan[i + 1, text[i]]
        ELSE {i} \cup scan[i + 1, ""]
  IN  scan[1, ""]

\* The expression is a call of the function and nothing more.
IsCall(e, name) ==
  LET rest == Trim(Tail(e))
      ks   == Unquoted(rest)
  IN  /\ e # <<>> /\ e[1] = name
      /\ Starts(rest) = "(" /\ Ends(rest) = ")" /\ Len(rest) \in ks
      /\ \A i \in ks \ {1} : DepthBefore(rest, ks, i) > 0
      /\ DepthBefore(rest, ks, Len(rest)) = 1
      /\ Trim(SubSeq(rest, 2, Len(rest) - 1)) # <<>>

CallArgs(e) ==
  LET rest  == Trim(Tail(e))
      inner == Trim(SubSeq(rest, 2, Len(rest) - 1))
      ks    == Unquoted(inner)
  IN  CutAt(inner, {k \in ks : inner[k] = "," /\ DepthBefore(inner, ks, k) = 0})

BuiltinTypes == {"int", "text", "date"}

\* A length and [] are passed over; the first word carries the identity.
BuiltinType(cast) ==
  LET name == Trim(cast)
      par  == NextOf(name, 1, {"("})
      bare == SubSeq(name, 1, par - 1)
      base == Trim(IF Ends(bare) = "[]" THEN Front(bare) ELSE bare)
  IN  /\ par <= Len(name) => Ends(name) = ")"
      /\ SubSeq(base, 1, NextOf(base, 1, Blank) - 1) \in {<<t>> : t \in BuiltinTypes}

\* A constant, optionally cast to built-in types.  (A lone quote, which
\* StripAlias leaves of ' as x', makes the code slice from 1 to 0 and panic.)
IsLiteral(text) ==
  LET casts == {k \in DOMAIN text : text[k] = "::"}
      parts == CutAt(text, casts)
      e     == Trim(parts[1])
  IN  /\ \A n \in 2..Len(parts) : BuiltinType(parts[n])
      /\ e # <<>>
      /\ \/ e[1] = "'" /\ Len(e) > 1 /\ {k \in DOMAIN e : e[k] = "'"} = {1, Len(e)}
         \/ e \in {<<"true">>, <<"false">>}
         \/ \A k \in DOMAIN e : e[k] \in {"0", "."} \/ (k = 1 /\ e[k] \in {"-", "+"})

NeverNull(text) ==
  LET e == Trim(StripAlias(text))
  IN  IF IsCall(e, "count") THEN TRUE
      ELSE IF IsCall(e, "coalesce") THEN IsLiteral(Last(CallArgs(e)))
      ELSE IsLiteral(e)

\* The result column at an index is an expression that is never NULL.
ExpressionNotNull(text, index, columns) ==
  \E items \in SelectList(text) : Len(items) = columns /\ NeverNull(items[index])
=============================================================================
