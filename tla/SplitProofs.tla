---------------------------- MODULE SplitProofs ----------------------------
(***************************************************************************)
(* A migration is cut where the server would cut it: proved for every text *)
(* without digits, by following both readings of it atom by atom, and with *)
(* it that checkFile sees every command that would end the transaction.    *)
(***************************************************************************)
EXTENDS Split, SequenceTheorems, WellFoundedInduction, TLAPS

-----------------------------------------------------------------------------
(* Recursion over positions. *)

LEMMA LeastIn ==
  ASSUME NEW N, N \subseteq Nat, N # {}
  PROVE  \E n \in N : \A m \in N : n <= m
<1> DEFINE R == {ss \in Nat \X Nat : ss[1] < ss[2]}
<1>1. IsWellFoundedOn(R, Nat)
  BY NatLessThanWellFounded DEF OpToRel
<1> HIDE DEF R
<1>2. PICK n \in N : \A m \in N : ~(<<m, n>> \in R)
  BY <1>1, WFMin
<1>3. ASSUME NEW m \in N PROVE n <= m
  <2>1. m \in Nat /\ n \in Nat /\ ~(<<m, n>> \in R)
    BY <1>2
  <2> QED
    BY <2>1 DEF R
<1> QED
  BY <1>3

\* What holds of a position and goes from each to the next holds of all.
LEMMA Onward ==
  ASSUME NEW a \in Nat, NEW b \in Nat, NEW Good, a \in Good,
         \A n \in a..b : n # b /\ n \in Good => n + 1 \in Good
  PROVE  \A n \in a..b : n \in Good
<1> DEFINE Bad == {n \in a..b : n \notin Good}
<1>1. SUFFICES ASSUME Bad # {} PROVE FALSE
  OBVIOUS
<1>2. PICK n \in Bad : \A m \in Bad : n <= m
  <2>1. Bad \subseteq Nat
    OBVIOUS
  <2> QED
    BY <1>1, <2>1, LeastIn
<1>3. n # a
  BY <1>2
<1>4. n - 1 \in a..b /\ n - 1 \notin Bad /\ n - 1 # b
  <2>1. n \in a..b /\ n > a /\ n - 1 \in a..b /\ n - 1 # b /\ ~(n <= n - 1)
    BY <1>2, <1>3
  <2> QED
    BY <1>2, <2>1
<1> QED
  BY <1>2, <1>4

\* A function that makes its value of its own value further on is well defined
\* where it comes to an end.
Descends(D, Stop, next, rank, N) ==
  /\ N \in Nat /\ rank \in [D -> 0..N]
  /\ \A d \in D : d \notin Stop => next[d] \in D /\ rank[next[d]] < rank[d]

Recurs(D, V, Stop, val, next, op, f) ==
  f \in [D -> V] /\ \A d \in D : f[d] = IF d \in Stop THEN val[d] ELSE op[d][f[next[d]]]

LEMMA Descent ==
  ASSUME NEW D, NEW V, NEW Stop, NEW val, NEW next, NEW op, NEW N, NEW rank,
         val \in [D -> V], op \in [D -> [V -> V]], Descends(D, Stop, next, rank, N)
  PROVE  \E f : Recurs(D, V, Stop, val, next, op, f)
<1>0. N \in Nat /\ rank \in [D -> 0..N] /\ \A d \in D : d \notin Stop => next[d] \in D /\ rank[next[d]] < rank[d]
  BY DEF Descends
<1> DEFINE
      Part(f, d) == IF d \in Stop THEN val[d] ELSE op[d][f[next[d]]]
      Below(n) == {d \in D : rank[d] < n}
      Upto(n) == \E f \in [Below(n) -> V] : f = [d \in Below(n) |-> Part(f, d)]
      Reached == {n \in Nat : Upto(n)}
<1>1. Upto(0)
  <2> DEFINE none == [d \in {} |-> 0]
  <2>1. Below(0) = {}
    BY <1>0
  <2>2. none \in [Below(0) -> V] /\ none = [d \in Below(0) |-> Part(none, d)]
    BY <2>1
  <2> QED
    BY <2>2
<1>2. ASSUME NEW n \in Nat, Upto(n) PROVE Upto(n + 1)
  <2>1. PICK f \in [Below(n) -> V] : f = [d \in Below(n) |-> Part(f, d)]
    BY <1>2
  <2> DEFINE g == [d \in Below(n + 1) |-> Part(f, d)]
  <2>2. ASSUME NEW d \in Below(n + 1) PROVE Part(f, d) = Part(g, d) /\ Part(f, d) \in V
    <3>1. CASE d \in Stop
      BY <3>1
    <3>2. CASE d \notin Stop
      <4>1. next[d] \in Below(n) /\ next[d] \in Below(n + 1) /\ d \in D
        BY <1>0, <3>2
      <4>2. f[next[d]] = Part(f, next[d]) /\ g[next[d]] = Part(f, next[d])
        <5> HIDE DEF Part, Below
        <5> QED
          BY <2>1, <4>1
      <4>3. f[next[d]] \in V /\ op[d] \in [V -> V]
        BY <4>1
      <4>4. op[d][f[next[d]]] \in V
        BY <4>3
      <4>5. Part(f, d) = op[d][f[next[d]]] /\ Part(g, d) = op[d][g[next[d]]]
        BY <3>2
      <4> HIDE DEF Part, g
      <4> QED
        BY <4>2, <4>4, <4>5
    <3> HIDE DEF g
    <3> QED
      BY <3>1, <3>2
  <2>3. g \in [Below(n + 1) -> V] /\ g = [d \in Below(n + 1) |-> Part(g, d)]
    <3> HIDE DEF Part
    <3> QED
      BY <2>2
  <2> HIDE DEF g
  <2> QED
    BY <2>3
<1>3. Upto(N + 1)
  <2> HIDE DEF Upto
  <2>1. 0 \in Reached /\ \A n \in 0..N + 1 : n # N + 1 /\ n \in Reached => n + 1 \in Reached
    BY <1>1, <1>2
  <2> HIDE DEF Reached
  <2>2. PICK M \in Nat : M = N + 1 /\ M \in 0..M
    BY <1>0
  <2>3. \A n \in 0..M : n \in Reached
    BY <2>1, <2>2, Onward
  <2> QED
    BY <2>2, <2>3 DEF Reached
<1>4. Below(N + 1) = D
  BY <1>0
<1>5. PICK f \in [D -> V] : f = [d \in D |-> Part(f, d)]
  <2> HIDE DEF Part
  <2> QED
    BY <1>3, <1>4
<1>6. \A d \in D : f[d] = Part(f, d)
  <2> HIDE DEF Part
  <2> QED
    BY <1>5
<1> QED
  BY <1>5, <1>6 DEF Recurs

-----------------------------------------------------------------------------
(* Kinds of atoms. *)

Quotes == {"'", "\""}
Cutter == ";"
Parens == {"(", ")"}

\* What an atom does where nothing is being read.
Kind(c) ==
  IF c \in Blank THEN "blank" ELSE IF Letter(c) THEN "letter" ELSE IF c \in Quotes THEN "quote"
  ELSE IF c = "$" THEN "dollar" ELSE IF c = "--" THEN "line" ELSE IF c = "/*" THEN "block"
  ELSE IF c = Cutter THEN "semicolon" ELSE IF c \in Parens THEN "paren" ELSE "other"

\* No atom is of two kinds.
LEMMA KindIs ==
  \A c : /\ Kind(c) = "blank" <=> c \in Blank
         /\ Kind(c) = "letter" <=> Letter(c)
         /\ Kind(c) = "quote" <=> c \in Quotes
         /\ Kind(c) = "dollar" <=> c = "$"
         /\ Kind(c) = "line" <=> c = "--"
         /\ Kind(c) = "block" <=> c = "/*"
         /\ Kind(c) = "semicolon" <=> c = Cutter
         /\ Kind(c) = "paren" <=> c \in Parens
         /\ Kind(c) = "other" <=> c \in Signs \ (Quotes \cup Parens \cup {"$", "--", "/*", Cutter})
<1>1. \A c : c \in Signs => c \notin Blank /\ ~Letter(c)
  BY Zenon DEF Signs, Operators, Parameters, Letter, Blank
<1>2. \A c : c \in Quotes => c \in Signs
  BY Zenon DEF Signs, Quotes
<1>3. {"$", "--", "/*", Cutter} \subseteq Signs /\ Parens \subseteq Signs
  BY Zenon DEF Signs, Cutter, Parens
<1>4. \A c \in Quotes \cup Parens : c # "$" /\ c # "--" /\ c # "/*" /\ c # Cutter
  BY Zenon DEF Quotes, Parens, Cutter
<1>5. \A c \in Quotes : c \notin Parens
  BY Zenon DEF Quotes, Parens
<1>6. Cutter # "$" /\ Cutter # "--" /\ Cutter # "/*"
  BY Zenon DEF Cutter
<1>7. \A c : Letter(c) <=> c \notin Blank /\ c \notin Signs
  BY Zenon DEF Letter
<1> QED
  BY <1>1, <1>2, <1>3, <1>4, <1>5, <1>6, <1>7 DEF Kind

-----------------------------------------------------------------------------
(* The server's reading. *)

Atom(text, n) == Append(text, "\n")[n]

\* One atom after the other is read.
LEMMA ReadingIs ==
  ASSUME NEW text \in Seq(STRING)
  PROVE  /\ Reading(text)[0] = Start
         /\ \A n \in 1..Len(text) + 1 :
              Reading(text)[n] = [Reads(text, Reading(text)[n - 1], Atom(text, n)) EXCEPT !.at = n + 1]
<1> DEFINE
      all == Append(text, "\n")
      Next1(r, n) == [Reads(text, r, all[n]) EXCEPT !.at = n + 1]
      Part(f, n) == IF n = 0 THEN Start ELSE Next1(f[n - 1], n)
      Upto(n) == \E f : f = [m \in 0..n |-> Part(f, m)]
      Reached == {n \in Nat : Upto(n)}
<1>0. PICK N \in Nat : N = Len(text) /\ Len(all) = N + 1
  OBVIOUS
<1> HIDE DEF Next1
<1>1. Upto(0)
  <2> DEFINE first == [m \in 0..0 |-> Start]
  <2>1. first = [m \in 0..0 |-> Part(first, m)]
    OBVIOUS
  <2> QED
    BY <2>1
<1>2. ASSUME NEW n \in Nat, Upto(n) PROVE Upto(n + 1)
  <2>1. PICK f : f = [m \in 0..n |-> Part(f, m)]
    BY <1>2
  <2> DEFINE g == [m \in 0..n + 1 |-> Part(f, m)]
  <2>2. ASSUME NEW m \in 0..n + 1 PROVE Part(f, m) = Part(g, m)
    <3>1. CASE m = 0
      BY <3>1
    <3>2. CASE m # 0
      <4>1. m - 1 \in 0..n /\ m - 1 \in 0..n + 1
        BY <3>2
      <4>2. f[m - 1] = Part(f, m - 1) /\ g[m - 1] = Part(f, m - 1)
        BY <2>1, <4>1
      <4> QED
        BY <3>2, <4>2
    <3> QED
      BY <3>1, <3>2
  <2>3. g = [m \in 0..n + 1 |-> Part(g, m)]
    <3> HIDE DEF Part
    <3> QED
      BY <2>2
  <2> QED
    BY <2>3
<1>3. Upto(N + 1)
  <2> HIDE DEF Upto
  <2>1. 0 \in Reached /\ \A n \in 0..N + 1 : n # N + 1 /\ n \in Reached => n + 1 \in Reached
    BY <1>1, <1>2
  <2>2. 0 \in Nat /\ N + 1 \in Nat /\ N + 1 \in 0..N + 1
    OBVIOUS
  <2> HIDE DEF Reached
  <2>3. \A n \in 0..N + 1 : n \in Reached
    BY <2>1, <2>2, Onward, Zenon
  <2> QED
    BY <2>2, <2>3 DEF Reached
<1> DEFINE Whole(f) == f = [n \in 0..Len(all) |-> IF n = 0 THEN Start ELSE [Reads(text, f[n - 1], all[n]) EXCEPT !.at = n + 1]]
           read == CHOOSE f : Whole(f)
<1>4. Whole(read)
  <2>1. \E f : Whole(f)
    BY <1>3, <1>0 DEF Next1
  <2> QED
    BY <2>1
<1>5. Reading(text) = read
  BY DEF Reading
<1> HIDE DEF read
<1>6. \A n \in 0..N + 1 : read[n] = Part(read, n)
  BY <1>4, <1>0 DEF Next1
<1>7. Reading(text)[0] = Start
  BY <1>5, <1>6
<1>8. ASSUME NEW n \in 1..N + 1 PROVE Reading(text)[n] = Next1(Reading(text)[n - 1], n)
  BY <1>5, <1>6
<1>9. \A n \in 1..N + 1 : Reading(text)[n] = [Reads(text, Reading(text)[n - 1], Atom(text, n)) EXCEPT !.at = n + 1]
  BY <1>8, Zenon DEF Next1, Atom
<1> QED
  BY <1>0, <1>7, <1>9

Modes == {"plain", "word", "quoted", "escapes", "escaped", "quote", "quoteE", "tag", "line", "block", "dollar"}

\* (The provers do not know of a literal that it is a string.)
Atoms == STRING \cup {"$", "\n"}
Spelling == Seq(Atoms)
Reader ==
  [mode : Modes, seen : Spelling, delim : Spelling, open : Int, tokens : Seq(Spelling), words : Seq(Spelling),
   begins : Nat, cases : Nat, parens : Nat, string : BOOLEAN, from : Nat, at : Nat, stmts : Seq(Nat \X Nat),
   control : BOOLEAN, apart : BOOLEAN]

\* Only a routine nests, and one whose head has a string in it is apart.
Sound(r) ==
  /\ r \in Reader
  /\ r.mode = "tag" => r.seen # <<>>
  /\ CreatesRoutine(r.words) \/ (r.begins = 0 /\ r.cases = 0)
  /\ r.string /\ CreatesRoutine(r.words) => r.apart

\* What the reader has made of the text, whatever it is reading just now.
Gist(r) == <<r.tokens, r.words, r.begins, r.cases, r.parens, r.string, r.from, r.stmts, r.control, r.apart>>

\* The head of a routine stays its head.
LEMMA HeadStays ==
  ASSUME NEW ws \in Seq(Spelling), NEW w \in Spelling, CreatesRoutine(ws) PROVE CreatesRoutine(Append(ws, w))
<1>1. PICK head \in {<<"create", "function">>, <<"create", "or", "replace", "function">>} :
        Len(head) <= Len(ws) /\ \A k \in DOMAIN head : ws[k] = <<head[k]>>
  BY DEF CreatesRoutine
<1>2. Len(Append(ws, w)) = Len(ws) + 1 /\ \A k \in 1..Len(ws) : Append(ws, w)[k] = ws[k]
  OBVIOUS
<1>3. Len(head) \in Nat /\ DOMAIN head = 1..Len(head)
  OBVIOUS
<1>4. \A k \in DOMAIN head : Append(ws, w)[k] = <<head[k]>>
  BY <1>1, <1>2, <1>3
<1>5. Len(head) <= Len(Append(ws, w))
  BY <1>1, <1>2, <1>3
<1> QED
  BY <1>1, <1>4, <1>5, Zenon DEF CreatesRoutine

LEMMA NoHead == ~CreatesRoutine(<<>>)
BY DEF CreatesRoutine

LEMMA Single == \A S : \A x \in S : <<x>> \in Seq(S)
OBVIOUS

LEMMA Appends == \A S : \A s \in Seq(S) : \A x \in S : Append(s, x) \in Seq(S)
OBVIOUS

LEMMA NoSpelling == <<>> \in Spelling
BY DEF Spelling

LEMMA TokenIs ==
  ASSUME NEW r, Sound(r), NEW w \in Spelling
  PROVE  /\ Sound(Token(r, w))
         /\ \E ts \in Seq(Spelling) : Token(r, w) = [r EXCEPT !.tokens = ts]
<1> DEFINE ts == IF Len(r.tokens) < 2 THEN Append(r.tokens, w) ELSE r.tokens
<1>0. r \in Reader
  BY DEF Sound
<1>1. ts \in Seq(Spelling)
  <2>1. r.tokens \in Seq(Spelling)
    BY <1>0, Zenon DEF Reader
  <2> QED
    BY <2>1, Appends
<1>2. Token(r, w) = [r EXCEPT !.tokens = ts]
  BY DEF Token
<1> HIDE DEF ts
<1>3. [r EXCEPT !.tokens = ts] \in Reader
  BY <1>0, <1>1, Zenon DEF Reader
<1>4. Sound([r EXCEPT !.tokens = ts])
  BY <1>3 DEF Sound, Reader
<1> QED
  BY <1>1, <1>2, <1>4

LEMMA IdentifierSound ==
  ASSUME NEW r, Sound(r), NEW w \in Spelling PROVE Sound(Identifier(r, w))
<1> DEFINE ws == IF Len(r.words) < 4 THEN Append(r.words, w) ELSE r.words
           body == CreatesRoutine(ws)
           opens == body /\ w \in {<<"begin">>, <<"case">>}
           closes == body /\ w = <<"end">>
           counts == r.parens = 0 /\ (r.begins > 0 \/ w = <<"begin">>)
           bs == IF opens /\ counts THEN r.begins + 1 ELSE IF closes /\ counts THEN r.begins - 1 ELSE r.begins
           cs == IF opens /\ ~counts THEN r.cases + 1 ELSE IF closes /\ ~counts /\ r.cases > 0 THEN r.cases - 1 ELSE r.cases
           apart == r.apart \/ (body /\ r.string) \/ (closes /\ ~counts /\ r.cases = 0 /\ r.begins > 0)
<1>0. /\ r \in Reader
      /\ r.words \in Seq(Spelling) /\ r.begins \in Nat /\ r.cases \in Nat /\ r.parens \in Nat
      /\ r.apart \in BOOLEAN /\ r.string \in BOOLEAN
  BY Zenon DEF Sound, Reader
<1>1. ws \in Seq(Spelling) /\ (CreatesRoutine(r.words) => CreatesRoutine(ws)) /\ body \in BOOLEAN
  BY <1>0, HeadStays, Appends DEF CreatesRoutine
<1>2. PICK ts \in Seq(Spelling) : Token(r, w) = [r EXCEPT !.tokens = ts]
  BY TokenIs
<1>3. bs \in Nat
  <2> HIDE DEF opens, body
  <2> QED
    BY <1>0 
<1>4. cs \in Nat
  <2> HIDE DEF opens, closes, counts
  <2> QED
    BY <1>0
<1>5. Identifier(r, w) = [r EXCEPT !.tokens = ts, !.words = ws, !.begins = bs, !.cases = cs, !.apart = apart]
  BY <1>0, <1>2, Zenon DEF Identifier, Reader
<1>6. ~body => bs = r.begins /\ cs = r.cases
  OBVIOUS
<1>7. (r.apart => apart) /\ (body /\ r.string => apart) /\ apart \in BOOLEAN
  OBVIOUS
<1> HIDE DEF ws, bs, cs, apart
<1>8. Identifier(r, w) \in Reader
  BY <1>0, <1>1, <1>2, <1>3, <1>4, <1>5, <1>7, ZenonT(40) DEF Reader
<1>9. \A t : t = Identifier(r, w) =>
        t.mode = r.mode /\ t.seen = r.seen /\ t.words = ws /\ t.begins = bs /\ t.cases = cs /\ t.apart = apart /\ t.string = r.string
  BY <1>0, <1>5 DEF Reader
<1> QED
  BY <1>1, <1>6, <1>7, <1>8, <1>9 DEF Sound

LEMMA CutSound ==
  ASSUME NEW text, NEW r, Sound(r) PROVE Sound(Cut(text, r))
<1> DEFINE out == IF Solid(text, r.from, r.at) THEN Append(r.stmts, <<r.from, r.at>>) ELSE r.stmts
           control == r.control \/ Controls(r.tokens)
           apart == r.apart \/ r.cases > 0
<1>0. r \in Reader /\ r.from \in Nat /\ r.at \in Nat /\ r.stmts \in Seq(Nat \X Nat) /\ r.control \in BOOLEAN
  BY Zenon DEF Sound, Reader
<1>1. out \in Seq(Nat \X Nat)
  BY <1>0, Appends
<1>2. control \in BOOLEAN /\ apart \in BOOLEAN
  OBVIOUS
<1>3. r.at + 1 \in Nat /\ <<>> \in Seq(Spelling) /\ 0 \in Nat
  BY <1>0
<1>4. Cut(text, r) = [r EXCEPT !.stmts = out, !.from = r.at + 1, !.control = control, !.apart = apart,
                               !.tokens = <<>>, !.words = <<>>, !.begins = 0, !.cases = 0, !.string = FALSE]
  BY <1>0, Zenon DEF Cut, Reader
<1> HIDE DEF out, control, apart
<1>5. Cut(text, r) \in Reader
  BY <1>0, <1>1, <1>2, <1>3, <1>4, ZenonT(40) DEF Reader
<1>6. \A t : t = Cut(text, r) => t.mode = r.mode /\ t.seen = r.seen /\ t.begins = 0 /\ t.cases = 0 /\ t.words = <<>>
  BY <1>0, <1>4 DEF Reader
<1> QED
  BY <1>5, <1>6, NoHead DEF Sound

LEMMA PlainSound ==
  ASSUME NEW text, NEW r, Sound(r), NEW c \in Atoms PROVE Sound(Plain(text, r, c))
<1> DEFINE p == [r EXCEPT !.mode = "plain"]
           t == Token(p, <<>>)
<1>0. r \in Reader
  BY DEF Sound
<1>1. Sound(p)
  <2>1. p \in Reader
    BY <1>0, Zenon DEF Reader, Modes
  <2> QED
    BY <1>0, <2>1 DEF Sound, Reader
<1>2. Sound(t)
  BY <1>1, TokenIs, NoSpelling
<1>3. Sound(Cut(text, p))
  BY <1>1, CutSound
<1> HIDE DEF p
<1>4. Sound(Semi(text, p))
  <2>1. CASE p.begins > 0 \/ p.parens > 0
    <3> DEFINE apart == p.apart \/ p.begins + p.cases = 0
    <3>1. p \in Reader /\ apart \in BOOLEAN
      BY <1>1 DEF Sound
    <3>2. Semi(text, p) = [p EXCEPT !.apart = apart] /\ (p.apart => apart)
      BY <2>1, <3>1, Zenon DEF Semi, Reader
    <3> HIDE DEF apart
    <3>3. [p EXCEPT !.apart = apart] \in Reader
      BY <3>1, Zenon DEF Reader
    <3> QED
      BY <1>1, <3>1, <3>2, <3>3 DEF Sound, Reader
  <2>2. CASE ~(p.begins > 0 \/ p.parens > 0)
    BY <1>3, <2>2, Zenon DEF Semi
  <2> QED
    BY <2>1, <2>2
<1>5. Sound([p EXCEPT !.mode = "word", !.seen = <<c>>])
  <2>1. <<c>> \in Spelling /\ p \in Reader
    BY <1>1, Single DEF Spelling, Sound
  <2>2. [p EXCEPT !.mode = "word", !.seen = <<c>>] \in Reader
    BY <2>1, Zenon DEF Reader, Modes
  <2> QED
    BY <1>1, <2>1, <2>2 DEF Sound, Reader
<1>6. Sound([p EXCEPT !.mode = "line"]) /\ Sound([p EXCEPT !.mode = "block", !.open = 1])
  <2>1. 1 \in Int /\ p \in Reader
    BY <1>1 DEF Sound
  <2>2. [p EXCEPT !.mode = "line"] \in Reader /\ [p EXCEPT !.mode = "block", !.open = 1] \in Reader
    BY <2>1, Zenon DEF Reader, Modes
  <2> QED
    BY <1>1, <2>1, <2>2 DEF Sound, Reader
<1> HIDE DEF t
<1>7. Sound([t EXCEPT !.mode = "quoted", !.delim = <<c>>])
  <2>1. <<c>> \in Spelling /\ t \in Reader
    BY <1>2, Single DEF Spelling, Sound
  <2>2. [t EXCEPT !.mode = "quoted", !.delim = <<c>>] \in Reader
    BY <2>1, Zenon DEF Reader, Modes
  <2> QED
    BY <1>2, <2>1, <2>2 DEF Sound, Reader
<1>8. Sound([t EXCEPT !.mode = "tag", !.seen = <<"$">>])
  <2>1. <<"$">> \in Spelling /\ t \in Reader
    <3>1. "$" \in Atoms
      BY DEF Atoms
    <3> QED
      BY <1>2, <3>1, Single, Zenon DEF Spelling, Sound
  <2>2. [t EXCEPT !.mode = "tag", !.seen = <<"$">>] \in Reader
    BY <2>1, Zenon DEF Reader, Modes
  <2> QED
    BY <1>2, <2>1, <2>2 DEF Sound, Reader
<1>9. \A n \in Nat : Sound([t EXCEPT !.parens = n])
  <2>1. ASSUME NEW n \in Nat PROVE [t EXCEPT !.parens = n] \in Reader
    BY <1>2, Zenon DEF Reader, Sound
  <2> QED
    BY <1>2, <2>1 DEF Sound, Reader
<1>10. t \in Reader /\ t.parens \in Nat
  BY <1>2, Zenon DEF Reader, Sound
<1>11. Sound([t EXCEPT !.parens = @ + 1]) /\ Sound([t EXCEPT !.parens = IF @ > 0 THEN @ - 1 ELSE @])
  <2>1. t.parens + 1 \in Nat /\ (IF t.parens > 0 THEN t.parens - 1 ELSE t.parens) \in Nat
    BY <1>10
  <2>2. Sound([t EXCEPT !.parens = t.parens + 1]) /\ Sound([t EXCEPT !.parens = IF t.parens > 0 THEN t.parens - 1 ELSE t.parens])
    BY <1>9, <2>1, Zenon
  <2> QED
    BY <2>2, <1>10
<1> QED
  BY <1>1, <1>2, <1>4, <1>5, <1>6, <1>7, <1>8, <1>11, Zenon DEF Plain, Opens, p, t


\* The part of the reader that lexes, and nothing else, is set.
Lexed(r, m, s, d, o) == [r EXCEPT !.mode = m, !.seen = s, !.delim = d, !.open = o]

LEMMA LexedIs ==
  ASSUME NEW r \in Reader, NEW m, NEW s, NEW d, NEW o
  PROVE  /\ Gist(Lexed(r, m, s, d, o)) = Gist(r)
         /\ Lexed(r, m, s, d, o).at = r.at
         /\ Lexed(r, m, s, d, o).mode = m
         /\ Lexed(r, m, s, d, o).seen = s
         /\ Lexed(r, m, s, d, o).delim = d
         /\ Lexed(r, m, s, d, o).open = o
<1>1. \A t : t = Lexed(r, m, s, d, o) =>
        /\ t.mode = m /\ t.seen = s /\ t.delim = d /\ t.open = o /\ t.at = r.at
        /\ t.tokens = r.tokens /\ t.words = r.words /\ t.begins = r.begins /\ t.cases = r.cases /\ t.parens = r.parens
        /\ t.string = r.string /\ t.from = r.from /\ t.stmts = r.stmts /\ t.control = r.control /\ t.apart = r.apart
  BY DEF Lexed, Reader
<1> QED
  BY <1>1, Zenon DEF Gist

LEMMA LexedSound ==
  ASSUME NEW r, Sound(r), NEW m \in Modes, NEW s \in Spelling, NEW d \in Spelling, NEW o \in Int, m = "tag" => s # <<>>
  PROVE  Sound(Lexed(r, m, s, d, o))
<1>1. r \in Reader
  BY DEF Sound
<1>2. Lexed(r, m, s, d, o) \in Reader
  BY <1>1, Zenon DEF Lexed, Reader
<1>3. \A t : t = Lexed(r, m, s, d, o) =>
        /\ t.mode = m /\ t.seen = s /\ t.words = r.words /\ t.begins = r.begins /\ t.cases = r.cases
        /\ t.string = r.string /\ t.apart = r.apart
  BY <1>1 DEF Lexed, Reader
<1> QED
  BY <1>2, <1>3, Zenon DEF Sound

\* What is set to what it was is not set.
LEMMA LexedForms ==
  ASSUME NEW r \in Reader, NEW m, NEW s
  PROVE  /\ [r EXCEPT !.mode = m] = Lexed(r, m, r.seen, r.delim, r.open)
         /\ [r EXCEPT !.seen = s] = Lexed(r, r.mode, s, r.delim, r.open)
         /\ [r EXCEPT !.seen = s, !.mode = m] = Lexed(r, m, s, r.delim, r.open)
BY Zenon DEF Lexed, Reader

\* How the reader goes on has changed, and nothing it has made of the text.
Turned(r, t, m, s, d, o) == Gist(t) = Gist(r) /\ t.mode = m /\ t.seen = s /\ t.delim = d /\ t.open = o

Moved(r, n) == [r EXCEPT !.at = n]

LEMMA MovedIs ==
  ASSUME NEW r, Sound(r), NEW n \in Nat
  PROVE  Sound(Moved(r, n)) /\ Moved(r, n).at = n /\ Turned(r, Moved(r, n), r.mode, r.seen, r.delim, r.open)
<1>1. r \in Reader
  BY DEF Sound
<1>2. Moved(r, n) \in Reader
  BY <1>1, Zenon DEF Moved, Reader
<1>3. \A t : t = Moved(r, n) =>
        /\ t.mode = r.mode /\ t.seen = r.seen /\ t.delim = r.delim /\ t.open = r.open /\ t.at = n
        /\ t.tokens = r.tokens /\ t.words = r.words /\ t.begins = r.begins /\ t.cases = r.cases /\ t.parens = r.parens
        /\ t.string = r.string /\ t.from = r.from /\ t.stmts = r.stmts /\ t.control = r.control /\ t.apart = r.apart
  BY <1>1 DEF Moved, Reader
<1> QED
  BY <1>2, <1>3, Zenon DEF Sound, Gist, Turned

LEMMA OpensSound ==
  ASSUME NEW r, Sound(r), NEW m \in Modes \ {"tag"}, NEW c \in Atoms PROVE Sound(Opens(r, m, c))
<1> DEFINE t == Token(r, <<>>)
<1>1. Sound(t) /\ t \in Reader
  BY TokenIs, NoSpelling DEF Sound
<1>2. <<c>> \in Spelling
  BY Single DEF Spelling
<1>3. Opens(r, m, c) = [t EXCEPT !.mode = m, !.delim = <<c>>]
  BY DEF Opens
<1> HIDE DEF t
<1>4. [t EXCEPT !.mode = m, !.delim = <<c>>] \in Reader
  BY <1>1, <1>2, Zenon DEF Reader
<1> QED
  BY <1>1, <1>3, <1>4 DEF Sound, Reader

LEMMA AfterWordSound ==
  ASSUME NEW text, NEW r, Sound(r), NEW c \in Atoms PROVE Sound(AfterWord(text, r, c))
<1>0. r \in Reader /\ r.seen \in Spelling
  BY Zenon DEF Sound, Reader
<1>1. CASE r.seen = <<>>
  BY <1>1, PlainSound DEF AfterWord
<1>2. CASE r.seen # <<>> /\ r.seen = <<"e">> /\ c = "'"
  <2> DEFINE t == Opens(r, "escapes", c)
             string == t.string \/ ~CreatesRoutine(r.words)
  <2>1. Sound(t) /\ t \in Reader
    BY OpensSound DEF Modes, Sound
  <2>2. string \in BOOLEAN
    OBVIOUS
  <2>3. t.words = r.words
    <3>1. PICK ts \in Seq(Spelling) : Token(r, <<>>) = [r EXCEPT !.tokens = ts]
      BY TokenIs, NoSpelling
    <3> QED
      BY <1>0, <3>1 DEF Opens, Reader
  <2>4. AfterWord(text, r, c) = [t EXCEPT !.string = string]
    BY <1>2, <2>1, Zenon DEF AfterWord, Reader
  <2>5. string /\ CreatesRoutine(r.words) => t.string
    OBVIOUS
  <2> HIDE DEF t, string
  <2>6. [t EXCEPT !.string = string] \in Reader
    BY <2>1, <2>2, Zenon DEF Reader
  <2> QED
    BY <2>1, <2>3, <2>4, <2>5, <2>6 DEF Sound, Reader
<1>3. CASE r.seen # <<>> /\ ~(r.seen = <<"e">> /\ c = "'")
  <2> DEFINE t == Plain(text, Identifier(r, r.seen), c)
             apart == t.apart \/ (c = "'" /\ IsSuffix(<<"$", "e">>, r.seen))
  <2>1. Sound(t) /\ t \in Reader
    BY <1>0, IdentifierSound, PlainSound DEF Sound
  <2>2. apart \in BOOLEAN /\ (t.apart => apart)
    OBVIOUS
  <2>3. AfterWord(text, r, c) = [t EXCEPT !.apart = apart]
    BY <1>3, <2>1, Zenon DEF AfterWord, Reader
  <2> HIDE DEF t, apart
  <2>4. [t EXCEPT !.apart = apart] \in Reader
    BY <2>1, <2>2, Zenon DEF Reader
  <2> QED
    BY <2>1, <2>2, <2>3, <2>4 DEF Sound, Reader
<1> QED
  BY <1>1, <1>2, <1>3

\* The modes that read on.
LEMMA OnwardForms ==
  ASSUME NEW text, NEW r, Sound(r), NEW c \in Atoms
  PROVE  /\ r.mode \in {"quoted", "escapes"} => \E m \in Modes \ {"tag"} : Quoted(r, c) = Lexed(r, m, r.seen, r.delim, r.open)
         /\ r.mode = "block" => \E m \in {"plain", "block"}, o \in Int : Block(r, c) = Lexed(r, m, r.seen, r.delim, o)
         /\ r.mode = "dollar" => \E m \in {"plain", "dollar"} : Dollar(r, c) = Lexed(r, m, Append(r.seen, c), r.delim, r.open)
<1>0. r \in Reader /\ r.open \in Int
  BY Zenon DEF Sound, Reader
<1>1. ASSUME r.mode \in {"quoted", "escapes"}
      PROVE  \E m \in Modes \ {"tag"} : Quoted(r, c) = Lexed(r, m, r.seen, r.delim, r.open)
  <2>1. \A m : [r EXCEPT !.mode = m] = Lexed(r, m, r.seen, r.delim, r.open)
    BY <1>0, LexedForms, Zenon
  <2>2. r = [r EXCEPT !.mode = r.mode]
    BY <1>0, Zenon DEF Reader
  <2>3. {"quote", "quoteE", "escaped", r.mode} \subseteq Modes \ {"tag"}
    BY <1>1 DEF Modes
  <2>4. \E m \in {"quote", "quoteE", "escaped", r.mode} : Quoted(r, c) = [r EXCEPT !.mode = m]
    <3>1. CASE <<c>> = r.delim
      <4>1. Quoted(r, c) = [r EXCEPT !.mode = IF r.mode = "quoted" THEN "quote" ELSE "quoteE"]
        BY <1>0, <3>1, Zenon DEF Quoted, Reader
      <4> QED
        BY <4>1
    <3>2. CASE <<c>> # r.delim
      BY <2>2, <3>2 DEF Quoted
    <3> QED
      BY <3>1, <3>2
  <2> QED
    BY <2>1, <2>3, <2>4
<1>2. ASSUME r.mode = "block"
      PROVE  \E m \in {"plain", "block"}, o \in Int : Block(r, c) = Lexed(r, m, r.seen, r.delim, o)
  <2> DEFINE open == IF c = "/*" THEN r.open + 1 ELSE IF c = "*/" THEN r.open - 1 ELSE r.open
             m == IF open = 0 THEN "plain" ELSE r.mode
  <2>1. open \in Int /\ m \in {"plain", "block"}
    BY <1>0, <1>2
  <2>2. Block(r, c) = [r EXCEPT !.open = open, !.mode = m]
    BY <1>0, Zenon DEF Block, Reader
  <2> HIDE DEF open, m
  <2>3. [r EXCEPT !.open = open, !.mode = m] = Lexed(r, m, r.seen, r.delim, open)
    BY <1>0, Zenon DEF Lexed, Reader
  <2> QED
    BY <2>1, <2>2, <2>3
<1>3. ASSUME r.mode = "dollar"
      PROVE  \E m \in {"plain", "dollar"} : Dollar(r, c) = Lexed(r, m, Append(r.seen, c), r.delim, r.open)
  <2> DEFINE seen == Append(r.seen, c)
             m == IF IsSuffix(r.delim, seen) THEN "plain" ELSE r.mode
  <2>1. m \in {"plain", "dollar"}
    BY <1>3
  <2>2. Dollar(r, c) = [r EXCEPT !.seen = seen, !.mode = m]
    BY <1>0, Zenon DEF Dollar, Reader
  <2> HIDE DEF m, seen
  <2>3. [r EXCEPT !.seen = seen, !.mode = m] = Lexed(r, m, seen, r.delim, r.open)
    BY <1>0, LexedForms, Zenon
  <2> QED
    BY <2>1, <2>2, <2>3 DEF seen
<1> QED
  BY <1>1, <1>2, <1>3

LEMMA ReadsSound ==
  ASSUME NEW text, NEW r, Sound(r), NEW c \in Atoms PROVE Sound(Reads(text, r, c))
<1>0. /\ r \in Reader /\ r.seen \in Spelling /\ r.delim \in Spelling /\ r.open \in Int /\ r.mode \in Modes
      /\ Append(r.seen, c) \in Spelling /\ Append(r.seen, c) # <<>>
  <2>1. r \in Reader /\ r.seen \in Spelling /\ r.delim \in Spelling /\ r.open \in Int /\ r.mode \in Modes
    BY Zenon DEF Sound, Reader
  <2>2. Append(r.seen, c) \in Spelling /\ Append(r.seen, c) # <<>>
    BY <2>1 DEF Spelling
  <2> QED
    BY <2>1, <2>2
<1>1. CASE r.mode = "plain"
  BY <1>1, PlainSound DEF Reads
<1>2. CASE r.mode \in {"word", "tag"}
  <2> DEFINE seen == Append(r.seen, c)
  <2>1. [r EXCEPT !.seen = seen] = Lexed(r, r.mode, seen, r.delim, r.open)
    BY <1>0, LexedForms, Zenon
  <2>2. Sound([r EXCEPT !.seen = seen])
    <3>1. seen \in Spelling /\ seen # <<>>
      BY <1>0
    <3> HIDE DEF seen
    <3> QED
      BY <1>0, <2>1, <3>1, LexedSound
  <2>3. [r EXCEPT !.seen = Append(@, c)] = [r EXCEPT !.seen = seen]
    BY <1>0, Zenon DEF Reader
  <2>4. CASE r.mode = "word"
    BY <2>2, <2>3, <2>4, AfterWordSound DEF Reads
  <2>5. CASE r.mode = "tag"
    <3>1. [r EXCEPT !.mode = "dollar", !.delim = seen, !.seen = <<>>] = Lexed(r, "dollar", <<>>, seen, r.open)
      BY <1>0, Zenon DEF Lexed, Reader
    <3>2. Sound([r EXCEPT !.mode = "dollar", !.delim = seen, !.seen = <<>>])
      <4>1. "dollar" \in Modes /\ "dollar" # "tag"
        BY DEF Modes
      <4>2. Sound(Lexed(r, "dollar", <<>>, seen, r.open))
        BY <1>0, <4>1, NoSpelling, LexedSound
      <4> QED
        BY <3>1, <4>2
    <3>3. Sound(AfterWord(text, [r EXCEPT !.seen = Tail(@)], c))
      <4> DEFINE rest == Tail(r.seen)
                 t == [r EXCEPT !.seen = rest]
      <4>1. rest \in Spelling
        BY <1>0, <2>5 DEF Sound, Spelling
      <4>2. [r EXCEPT !.seen = Tail(@)] = t
        BY <1>0, Zenon DEF Reader
      <4> HIDE DEF rest
      <4>3. CASE rest # <<>>
        <5>1. t = Lexed(r, r.mode, rest, r.delim, r.open)
          BY <1>0, LexedForms, Zenon
        <5>2. Sound(t)
          BY <1>0, <4>1, <4>3, <5>1, LexedSound
        <5> QED
          BY <4>2, <5>2, AfterWordSound
      <4>4. CASE rest = <<>>
        <5> DEFINE u == Lexed(r, "plain", rest, r.delim, r.open)
        <5>1. "plain" \in Modes /\ "plain" # "tag"
          BY DEF Modes
        <5>2. Sound(u)
          BY <1>0, <4>1, <5>1, LexedSound
        <5>3. t.seen = <<>> /\ [t EXCEPT !.mode = "plain"] = u /\ [u EXCEPT !.mode = "plain"] = u
          BY <1>0, <4>4, Zenon DEF Lexed, Reader
        <5> HIDE DEF t, u
        <5>4. Plain(text, t, c) = Plain(text, u, c)
          BY <5>3, Zenon DEF Plain
        <5>5. AfterWord(text, t, c) = Plain(text, t, c)
          BY <5>3, Zenon DEF AfterWord
        <5> QED
          BY <4>2, <5>2, <5>4, <5>5, PlainSound, Zenon
      <4> QED
        BY <4>3, <4>4
    <3>4. Tag(text, r, c) \in {[r EXCEPT !.seen = Append(@, c)], [r EXCEPT !.mode = "dollar", !.delim = seen, !.seen = <<>>],
                               AfterWord(text, [r EXCEPT !.seen = Tail(@)], c)}
      BY Zenon DEF Tag
    <3> HIDE DEF seen
    <3>5. Sound(Tag(text, r, c))
      BY <2>2, <2>3, <3>2, <3>3, <3>4, Zenon
    <3> QED
      BY <2>5, <3>5 DEF Reads
  <2> QED
    BY <1>2, <2>4, <2>5
<1>3. CASE r.mode \in {"quoted", "escapes"}
  <2>1. Sound(Quoted(r, c))
    BY <1>0, <1>3, OnwardForms, LexedSound
  <2> QED
    BY <1>3, <2>1 DEF Reads
<1>4. CASE r.mode \in {"escaped", "quote", "quoteE", "line"}
  <2>1. ASSUME NEW m \in {"escapes", "quoted", "plain"} PROVE Sound([r EXCEPT !.mode = m])
    <3>1. [r EXCEPT !.mode = m] = Lexed(r, m, r.seen, r.delim, r.open)
      BY <1>0, LexedForms, Zenon
    <3>2. m \in Modes /\ m # "tag"
      BY DEF Modes
    <3> QED
      BY <1>0, <3>1, <3>2, LexedSound
  <2>2. Sound(Plain(text, r, c))
    BY PlainSound
  <2> QED
    BY <1>4, <2>1, <2>2 DEF Reads
<1>5. CASE r.mode = "block"
  <2>1. {"plain", "block"} \subseteq Modes
    BY DEF Modes
  <2>2. Sound(Block(r, c))
    BY <1>0, <1>5, <2>1, OnwardForms, LexedSound
  <2> QED
    BY <1>5, <2>2 DEF Reads
<1>6. CASE r.mode = "dollar"
  <2>1. {"plain", "dollar"} \subseteq Modes
    BY DEF Modes
  <2>2. Sound(Dollar(r, c))
    BY <1>0, <1>6, <2>1, OnwardForms, LexedSound
  <2> QED
    BY <1>6, <2>2 DEF Reads
<1> QED
  BY <1>0, <1>1, <1>2, <1>3, <1>4, <1>5, <1>6 DEF Modes


-----------------------------------------------------------------------------
(* One atom of what is skipped. *)

LEMMA TurnsOn ==
  ASSUME NEW text, NEW r, Sound(r), NEW c \in Atoms, NEW n \in Nat, NEW t, t = Moved(Reads(text, r, c), n),
         NEW m, NEW s, NEW d, NEW o, Reads(text, r, c) = Lexed(r, m, s, d, o)
  PROVE  Turned(r, t, m, s, d, o)
<1>1. Sound(Reads(text, r, c)) /\ r \in Reader
  BY ReadsSound DEF Sound
<1> DEFINE u == Lexed(r, m, s, d, o)
<1>2. Gist(u) = Gist(r) /\ u.mode = m /\ u.seen = s /\ u.delim = d /\ u.open = o
  BY <1>1, LexedIs
<1>3. t = Moved(u, n) /\ Sound(u)
  BY <1>1
<1> HIDE DEF u
<1>4. Turned(u, t, u.mode, u.seen, u.delim, u.open)
  BY <1>3, MovedIs
<1> QED
  BY <1>2, <1>4 DEF Turned

LEMMA LineTurn ==
  ASSUME NEW text, NEW r, Sound(r), NEW c \in Atoms, NEW n \in Nat, NEW t, t = Moved(Reads(text, r, c), n), r.mode = "line"
  PROVE  Turned(r, t, IF c = "\n" THEN "plain" ELSE "line", r.seen, r.delim, r.open)
<1> DEFINE m == IF c = "\n" THEN "plain" ELSE "line"
<1>1. r \in Reader
  BY DEF Sound
<1>2. Reads(text, r, c) = Lexed(r, m, r.seen, r.delim, r.open)
  <2>1. Reads(text, r, c) = [r EXCEPT !.mode = m]
    <3>1. [r EXCEPT !.mode = r.mode] = r
      BY <1>1, Zenon DEF Reader
    <3> QED
      BY <3>1 DEF Reads
  <2> QED
    BY <1>1, <2>1, Zenon DEF Lexed, Reader
<1> HIDE DEF m
<1>3. Turned(r, t, m, r.seen, r.delim, r.open)
  BY <1>2, TurnsOn
<1> QED
  BY <1>3 DEF m

Opened(r, c) == IF c = "/*" THEN r.open + 1 ELSE IF c = "*/" THEN r.open - 1 ELSE r.open

LEMMA BlockTurn ==
  ASSUME NEW text, NEW r, Sound(r), NEW c \in Atoms, NEW n \in Nat, NEW t, t = Moved(Reads(text, r, c), n), r.mode = "block"
  PROVE  Turned(r, t, IF Opened(r, c) = 0 THEN "plain" ELSE "block", r.seen, r.delim, Opened(r, c))
<1> DEFINE m == IF Opened(r, c) = 0 THEN "plain" ELSE "block"
<1>1. r \in Reader
  BY DEF Sound
<1>2. Reads(text, r, c) = Lexed(r, m, r.seen, r.delim, Opened(r, c))
  <2>1. Reads(text, r, c) = [r EXCEPT !.open = Opened(r, c), !.mode = m]
    <3>1. Reads(text, r, c) = Block(r, c)
      BY DEF Reads
    <3> QED
      BY <1>1, <3>1, Zenon DEF Block, Opened, Reader
  <2> QED
    BY <1>1, <2>1, Zenon DEF Lexed, Reader
<1> HIDE DEF m
<1>3. Turned(r, t, m, r.seen, r.delim, Opened(r, c))
  BY <1>2, TurnsOn
<1> QED
  BY <1>3 DEF m

LEMMA DollarTurn ==
  ASSUME NEW text, NEW r, Sound(r), NEW c \in Atoms, NEW n \in Nat, NEW t, t = Moved(Reads(text, r, c), n), r.mode = "dollar"
  PROVE  Turned(r, t, IF IsSuffix(r.delim, Append(r.seen, c)) THEN "plain" ELSE "dollar",
                Append(r.seen, c), r.delim, r.open)
<1> DEFINE m == IF IsSuffix(r.delim, Append(r.seen, c)) THEN "plain" ELSE "dollar"
<1>1. r \in Reader
  BY DEF Sound
<1>2. Reads(text, r, c) = Lexed(r, m, Append(r.seen, c), r.delim, r.open)
  <2>1. Reads(text, r, c) = [r EXCEPT !.seen = Append(r.seen, c), !.mode = m]
    <3>1. Reads(text, r, c) = Dollar(r, c)
      BY DEF Reads
    <3> QED
      BY <1>1, <3>1, Zenon DEF Dollar, Reader
  <2> QED
    BY <1>1, <2>1, Zenon DEF Lexed, Reader
<1> HIDE DEF m
<1>3. Turned(r, t, m, Append(r.seen, c), r.delim, r.open)
  BY <1>2, TurnsOn
<1> QED
  BY <1>3 DEF m

\* In a string, and right behind a quote that may have ended it.
AfterQuoted(r, c) ==
  CASE r.mode \in {"quoted", "quote"}   -> IF <<c>> = r.delim THEN (IF r.mode = "quoted" THEN "quote" ELSE "quoted") ELSE r.mode
    [] r.mode \in {"escapes", "quoteE"} -> IF <<c>> = r.delim THEN (IF r.mode = "escapes" THEN "quoteE" ELSE "escapes")
                                           ELSE IF c = "\\" THEN "escaped" ELSE r.mode
    [] OTHER                            -> "escapes"

LEMMA QuotedTurn ==
  ASSUME NEW text, NEW r, Sound(r), NEW c \in Atoms, NEW n \in Nat, NEW t, t = Moved(Reads(text, r, c), n),
         r.mode \in {"quoted", "escapes", "escaped"} \/ (r.mode \in {"quote", "quoteE"} /\ <<c>> = r.delim)
  PROVE  Turned(r, t, AfterQuoted(r, c), r.seen, r.delim, r.open)
<1> DEFINE m == AfterQuoted(r, c)
<1>1. r \in Reader
  BY DEF Sound
<1>2. Reads(text, r, c) = Lexed(r, m, r.seen, r.delim, r.open)
  <2>1. Reads(text, r, c) = [r EXCEPT !.mode = m]
    <3>1. [r EXCEPT !.mode = r.mode] = r
      BY <1>1, Zenon DEF Reader
    <3>2. CASE r.mode \in {"quoted", "escapes"}
      <4>1. Reads(text, r, c) = Quoted(r, c)
        BY <3>2 DEF Reads
      <4>2. CASE <<c>> = r.delim
        <5>1. Quoted(r, c) = [r EXCEPT !.mode = IF r.mode = "quoted" THEN "quote" ELSE "quoteE"]
          BY <1>1, <4>2, Zenon DEF Quoted, Reader
        <5>2. m = IF r.mode = "quoted" THEN "quote" ELSE "quoteE"
          BY <3>2, <4>2 DEF AfterQuoted
        <5> QED
          BY <4>1, <5>1, <5>2, Zenon
      <4>3. CASE <<c>> # r.delim
        <5>1. m = IF r.mode = "escapes" /\ c = "\\" THEN "escaped" ELSE r.mode
          BY <3>2, <4>3 DEF AfterQuoted
        <5>2. Quoted(r, c) = IF r.mode = "escapes" /\ c = "\\" THEN [r EXCEPT !.mode = "escaped"] ELSE r
          BY <4>3, Zenon DEF Quoted
        <5> HIDE DEF m
        <5> QED
          BY <3>1, <4>1, <5>1, <5>2
      <4> QED
        BY <4>2, <4>3
    <3>3. CASE r.mode \in {"escaped", "quote", "quoteE"}
      BY <3>3 DEF Reads, AfterQuoted
    <3> QED
      BY <3>2, <3>3
  <2> QED
    BY <1>1, <2>1, Zenon DEF Lexed, Reader
<1> HIDE DEF m
<1>3. Turned(r, t, m, r.seen, r.delim, r.open)
  BY <1>2, TurnsOn
<1> QED
  BY <1>3 DEF m

LEMMA WordTurn ==
  ASSUME NEW text, NEW r, Sound(r), NEW c \in Atoms, NEW n \in Nat, NEW t, t = Moved(Reads(text, r, c), n),
         r.mode \in {"word", "tag"}, Letter(c) \/ (r.mode = "word" /\ c = "$")
  PROVE  Turned(r, t, r.mode, Append(r.seen, c), r.delim, r.open)
<1>1. r \in Reader
  BY DEF Sound
<1>2. Reads(text, r, c) = Lexed(r, r.mode, Append(r.seen, c), r.delim, r.open)
  <2>1. Reads(text, r, c) = [r EXCEPT !.seen = Append(r.seen, c)]
    <3>1. [r EXCEPT !.seen = Append(@, c)] = [r EXCEPT !.seen = Append(r.seen, c)]
      BY <1>1, Zenon DEF Reader
    <3>2. CASE r.mode = "word"
      BY <3>1, <3>2 DEF Reads
    <3>3. CASE r.mode = "tag"
      <4>1. Reads(text, r, c) = Tag(text, r, c)
        BY <3>3 DEF Reads
      <4> QED
        BY <3>1, <3>3, <4>1 DEF Tag
    <3> QED
      BY <3>2, <3>3
  <2> QED
    BY <1>1, <2>1, Zenon DEF Lexed, Reader
<1> QED
  BY <1>2, TurnsOn

\* The second $ of a tag opens the string.
LEMMA TagTurn ==
  ASSUME NEW text, NEW r, Sound(r), NEW c \in Atoms, NEW n \in Nat, NEW t, t = Moved(Reads(text, r, c), n),
         r.mode = "tag", c = "$"
  PROVE  Turned(r, t, "dollar", <<>>, Append(r.seen, c), r.open)
<1>1. r \in Reader
  BY DEF Sound
<1>2. Reads(text, r, c) = Lexed(r, "dollar", <<>>, Append(r.seen, c), r.open)
  <2>1. Reads(text, r, c) = [r EXCEPT !.mode = "dollar", !.delim = Append(r.seen, c), !.seen = <<>>]
    <3>1. Reads(text, r, c) = Tag(text, r, c) /\ ~Letter(c)
      BY DEF Reads, Letter, Signs
    <3> QED
      BY <3>1 DEF Tag
  <2> QED
    BY <1>1, <2>1, Zenon DEF Lexed, Reader
<1> QED
  BY <1>2, TurnsOn

-----------------------------------------------------------------------------
(* One atom read from scratch. *)

\* Parentheses are counted, and a semicolon may cut; all else is a token or
\* opens what is then read.
Passed(text, r, c, t) ==
  /\ Kind(c) = "blank" => Turned(r, t, "plain", r.seen, r.delim, r.open)
  /\ Kind(c) = "letter" => Turned(r, t, "word", <<c>>, r.delim, r.open)
  /\ Kind(c) = "quote" => Turned(Token(r, <<>>), t, "quoted", r.seen, <<c>>, r.open)
  /\ Kind(c) = "dollar" => Turned(Token(r, <<>>), t, "tag", <<"$">>, r.delim, r.open)
  /\ Kind(c) = "line" => Turned(r, t, "line", r.seen, r.delim, r.open)
  /\ Kind(c) = "block" => Turned(r, t, "block", r.seen, r.delim, 1)
  /\ Kind(c) = "semicolon" => t = Semi(text, Lexed(r, "plain", r.seen, r.delim, r.open))
  /\ Kind(c) = "paren" => \E n \in Nat :
       t = Lexed([Token(r, <<>>) EXCEPT !.parens = n], "plain", r.seen, r.delim, r.open)
  /\ Kind(c) = "other" => Turned(Token(r, <<>>), t, "plain", r.seen, r.delim, r.open)

LEMMA PlainTurns ==
  ASSUME NEW text, NEW r, Sound(r), NEW c \in Atoms, NEW t, t = Plain(text, r, c)
  PROVE  Passed(text, r, c, t)
<1> DEFINE p == [r EXCEPT !.mode = "plain"]
           b == Token(r, <<>>)
           q == Token(p, <<>>)
<1>0. r \in Reader
  BY DEF Sound
<1>1. b \in Reader /\ b.seen = r.seen /\ b.delim = r.delim /\ b.open = r.open /\ b.parens \in Nat
  <2>1. PICK ts \in Seq(Spelling) : b = [r EXCEPT !.tokens = ts]
    BY TokenIs, NoSpelling
  <2>2. b \in Reader
    BY TokenIs, NoSpelling DEF Sound
  <2>3. b.parens \in Nat
    BY <2>2, Zenon DEF Reader
  <2> HIDE DEF b
  <2>4. b.seen = r.seen /\ b.delim = r.delim /\ b.open = r.open
    BY <1>0, <2>1 DEF Reader
  <2> QED
    BY <2>2, <2>3, <2>4
<1>2. p = Lexed(r, "plain", r.seen, r.delim, r.open)
  BY <1>0, Zenon DEF Lexed, Reader
<1>3. q = [b EXCEPT !.mode = "plain"]
  <2> DEFINE ts == IF Len(r.tokens) < 2 THEN Append(r.tokens, <<>>) ELSE r.tokens
  <2>1. p.tokens = r.tokens
    BY <1>0 DEF Reader
  <2>2. q = [p EXCEPT !.tokens = ts]
    BY <2>1, Zenon DEF Token
  <2>3. b = [r EXCEPT !.tokens = ts]
    BY Zenon DEF Token
  <2> HIDE DEF ts
  <2> QED
    BY <1>0, <2>2, <2>3, Zenon DEF Reader
<1> HIDE DEF p, b, q
<1>4. \A s \in Reader : \A m, e, d, o : Turned(s, Lexed(s, m, e, d, o), m, e, d, o)
  BY LexedIs DEF Turned
<1>5. /\ [p EXCEPT !.mode = "word", !.seen = <<c>>] = Lexed(r, "word", <<c>>, r.delim, r.open)
      /\ [p EXCEPT !.mode = "line"] = Lexed(r, "line", r.seen, r.delim, r.open)
      /\ [p EXCEPT !.mode = "block", !.open = 1] = Lexed(r, "block", r.seen, r.delim, 1)
  BY <1>0, Zenon DEF Lexed, Reader, p
<1>6. /\ Opens(p, "quoted", c) = Lexed(b, "quoted", b.seen, <<c>>, b.open)
      /\ [q EXCEPT !.mode = "tag", !.seen = <<"$">>] = Lexed(b, "tag", <<"$">>, b.delim, b.open)
      /\ q = Lexed(b, "plain", b.seen, b.delim, b.open)
  <2>1. Opens(p, "quoted", c) = [q EXCEPT !.mode = "quoted", !.delim = <<c>>]
    BY Zenon DEF Opens, q
  <2>2. [q EXCEPT !.mode = "quoted", !.delim = <<c>>] = Lexed(b, "quoted", b.seen, <<c>>, b.open)
    BY <1>1, <1>3, Zenon DEF Lexed, Reader
  <2>3. [q EXCEPT !.mode = "tag", !.seen = <<"$">>] = Lexed(b, "tag", <<"$">>, b.delim, b.open)
    BY <1>1, <1>3, Zenon DEF Lexed, Reader
  <2>4. q = Lexed(b, "plain", b.seen, b.delim, b.open)
    BY <1>1, <1>3, Zenon DEF Lexed, Reader
  <2> QED
    BY <2>1, <2>2, <2>3, <2>4
<1>7. ASSUME NEW n \in Nat
      PROVE  [q EXCEPT !.parens = n] = Lexed([b EXCEPT !.parens = n], "plain", r.seen, r.delim, r.open)
  <2>1. [q EXCEPT !.parens = n] = Lexed([b EXCEPT !.parens = n], "plain", b.seen, b.delim, b.open)
    BY <1>1, <1>3, Zenon DEF Lexed, Reader
  <2> QED
    BY <1>1, <2>1
<1>8. /\ Kind(c) = "blank" => t = p
      /\ Kind(c) = "letter" => t = [p EXCEPT !.mode = "word", !.seen = <<c>>]
      /\ Kind(c) = "quote" => t = Opens(p, "quoted", c)
      /\ Kind(c) = "dollar" => t = [q EXCEPT !.mode = "tag", !.seen = <<"$">>]
      /\ Kind(c) = "line" => t = [p EXCEPT !.mode = "line"]
      /\ Kind(c) = "block" => t = [p EXCEPT !.mode = "block", !.open = 1]
      /\ Kind(c) = "semicolon" => t = Semi(text, p)
      /\ Kind(c) = "paren" => t = [q EXCEPT !.parens = IF c = "(" THEN @ + 1 ELSE IF @ > 0 THEN @ - 1 ELSE @]
      /\ Kind(c) = "other" => t = q
  <2>1. t = CASE c \in Blank  -> p
              [] Letter(c)    -> [p EXCEPT !.mode = "word", !.seen = <<c>>]
              [] c \in Quotes -> Opens(p, "quoted", c)
              [] c = "$"      -> [q EXCEPT !.mode = "tag", !.seen = <<"$">>]
              [] c = "--"     -> [p EXCEPT !.mode = "line"]
              [] c = "/*"     -> [p EXCEPT !.mode = "block", !.open = 1]
              [] c = Cutter   -> Semi(text, p)
              [] c = "("      -> [q EXCEPT !.parens = @ + 1]
              [] c = ")"      -> [q EXCEPT !.parens = IF @ > 0 THEN @ - 1 ELSE @]
              [] OTHER        -> q
    BY Zenon DEF Plain, Quotes, Cutter, p, q
  <2>2. "(" \in Signs /\ ")" \in Signs
    BY Zenon DEF Signs
  <2>3. /\ Kind(c) = "blank" => c \in Blank /\ ~Letter(c) /\ c \notin Quotes /\ c \notin {"$", "--", "/*", Cutter, "(", ")"}
        /\ Kind(c) = "letter" => c \notin Blank /\ Letter(c) /\ c \notin Quotes /\ c \notin {"$", "--", "/*", Cutter, "(", ")"}
        /\ Kind(c) = "quote" => c \notin Blank /\ ~Letter(c) /\ c \in Quotes /\ c \notin {"$", "--", "/*", Cutter, "(", ")"}
        /\ Kind(c) = "dollar" => c \notin Blank /\ ~Letter(c) /\ c \notin Quotes /\ c \notin {"--", "/*", Cutter, "(", ")"}
        /\ Kind(c) = "line" => c \notin Blank /\ ~Letter(c) /\ c \notin Quotes /\ c \notin {"$", "/*", Cutter, "(", ")"}
        /\ Kind(c) = "block" => c \notin Blank /\ ~Letter(c) /\ c \notin Quotes /\ c \notin {"$", "--", Cutter, "(", ")"}
        /\ Kind(c) = "semicolon" => c \notin Blank /\ ~Letter(c) /\ c \notin Quotes /\ c \notin {"$", "--", "/*", "(", ")"}
        /\ Kind(c) = "paren" => c \notin Blank /\ ~Letter(c) /\ c \notin Quotes /\ c \notin {"$", "--", "/*", Cutter}
        /\ Kind(c) = "other" => c \notin Blank /\ ~Letter(c) /\ c \notin Quotes /\ c \notin {"$", "--", "/*", Cutter, "(", ")"}
    BY KindIs DEF Parens
  <2>4. Kind(c) = "paren" => c = "(" \/ (c = ")" /\ c # "(")
    BY KindIs DEF Parens
  <2> HIDE DEF p, q
  <2> QED
    BY <2>1, <2>3, <2>4, KindIs
<1>9. Kind(c) = "paren" => \E n \in Nat : t = [q EXCEPT !.parens = n]
  <2> DEFINE n == IF c = "(" THEN q.parens + 1 ELSE IF q.parens > 0 THEN q.parens - 1 ELSE q.parens
  <2>1. q.parens \in Nat
    BY <1>1, <1>3 DEF Reader
  <2>2. n \in Nat
    BY <2>1
  <2>3. q \in Reader
    BY <1>1, <1>3, Zenon DEF Reader, Modes
  <2>4. Kind(c) = "paren" => t = [q EXCEPT !.parens = n]
    BY <1>8, <2>3, Zenon DEF Reader
  <2> QED
    BY <2>2, <2>4
<1> QED
  <2>1. Kind(c) = "quote" => Turned(b, t, "quoted", r.seen, <<c>>, r.open)
    BY <1>1, <1>4, <1>6, <1>8
  <2>2. Kind(c) = "dollar" => Turned(b, t, "tag", <<"$">>, r.delim, r.open)
    BY <1>1, <1>4, <1>6, <1>8
  <2>3. Kind(c) = "other" => Turned(b, t, "plain", r.seen, r.delim, r.open)
    BY <1>1, <1>4, <1>6, <1>8
  <2>4. /\ Kind(c) = "blank" => Turned(r, t, "plain", r.seen, r.delim, r.open)
        /\ Kind(c) = "letter" => Turned(r, t, "word", <<c>>, r.delim, r.open)
        /\ Kind(c) = "line" => Turned(r, t, "line", r.seen, r.delim, r.open)
        /\ Kind(c) = "block" => Turned(r, t, "block", r.seen, r.delim, 1)
    BY <1>0, <1>2, <1>4, <1>5, <1>8
  <2>5. Kind(c) = "semicolon" => t = Semi(text, Lexed(r, "plain", r.seen, r.delim, r.open))
    BY <1>2, <1>8
  <2>6. Kind(c) = "paren" => \E n \in Nat : t = Lexed([b EXCEPT !.parens = n], "plain", r.seen, r.delim, r.open)
    BY <1>7, <1>9
  <2> QED
    BY <2>1, <2>2, <2>3, <2>4, <2>5, <2>6 DEF Passed, b

-----------------------------------------------------------------------------
(* What a token, a word and a semicolon make of the text so far. *)

Next4(ws, w) == IF Len(ws) < 4 THEN Append(ws, w) ELSE ws

Tokened(r, w, t) ==
  /\ t.mode = r.mode /\ t.seen = r.seen /\ t.delim = r.delim /\ t.open = r.open /\ t.at = r.at
  /\ t.words = r.words /\ t.begins = r.begins /\ t.cases = r.cases /\ t.parens = r.parens
  /\ t.string = r.string /\ t.from = r.from /\ t.stmts = r.stmts /\ t.control = r.control /\ t.apart = r.apart
  /\ t.tokens = IF Len(r.tokens) < 2 THEN Append(r.tokens, w) ELSE r.tokens

LEMMA TokenKeeps ==
  ASSUME NEW r, Sound(r), NEW w \in Spelling, NEW t, t = Token(r, w)
  PROVE  Tokened(r, w, t)
<1>1. r \in Reader
  BY DEF Sound
<1> QED
  BY <1>1 DEF Tokened, Token, Reader

\* A word goes one level up or down, if it does at all.
Named(r, w, t) ==
  /\ t.mode = r.mode /\ t.seen = r.seen /\ t.delim = r.delim /\ t.open = r.open /\ t.at = r.at
  /\ t.parens = r.parens /\ t.string = r.string /\ t.from = r.from /\ t.stmts = r.stmts /\ t.control = r.control
  /\ t.tokens = IF Len(r.tokens) < 2 THEN Append(r.tokens, w) ELSE r.tokens
  /\ t.words = Next4(r.words, w)
  /\ r.apart => t.apart
  /\ ~t.apart =>
       /\ CreatesRoutine(t.words) => ~r.string
       /\ t.begins + t.cases =
            IF w \in {<<"begin">>, <<"case">>} /\ CreatesRoutine(t.words) THEN r.begins + r.cases + 1
            ELSE IF w = <<"end">> /\ r.begins + r.cases > 0 THEN r.begins + r.cases - 1
            ELSE r.begins + r.cases

LEMMA IdentifierIs ==
  ASSUME NEW r, Sound(r), NEW w \in Spelling, NEW t, t = Identifier(r, w)
  PROVE  Named(r, w, t)
<1> DEFINE ws == Next4(r.words, w)
           body == CreatesRoutine(ws)
           opens == body /\ w \in {<<"begin">>, <<"case">>}
           closes == body /\ w = <<"end">>
           counts == r.parens = 0 /\ (r.begins > 0 \/ w = <<"begin">>)
           bs == IF opens /\ counts THEN r.begins + 1 ELSE IF closes /\ counts THEN r.begins - 1 ELSE r.begins
           cs == IF opens /\ ~counts THEN r.cases + 1 ELSE IF closes /\ ~counts /\ r.cases > 0 THEN r.cases - 1 ELSE r.cases
           apart == r.apart \/ (body /\ r.string) \/ (closes /\ ~counts /\ r.cases = 0 /\ r.begins > 0)
           ts == IF Len(r.tokens) < 2 THEN Append(r.tokens, w) ELSE r.tokens
<1>0. /\ r \in Reader
      /\ r.words \in Seq(Spelling) /\ r.begins \in Nat /\ r.cases \in Nat /\ r.parens \in Nat
      /\ r.apart \in BOOLEAN /\ r.string \in BOOLEAN
  BY Zenon DEF Sound, Reader
<1>1. CreatesRoutine(r.words) => body
  BY <1>0, HeadStays DEF Next4
<1>2. Token(r, w) = [r EXCEPT !.tokens = ts]
  BY DEF Token
<1>3. Identifier(r, w) = [r EXCEPT !.tokens = ts, !.words = ws, !.begins = bs, !.cases = cs, !.apart = apart]
  BY <1>0, <1>2, ZenonT(40) DEF Identifier, Next4, Reader
<1>4. ~CreatesRoutine(r.words) => r.begins = 0 /\ r.cases = 0
  BY DEF Sound
<1>5. <<"end">> # <<"begin">> /\ <<"end">> # <<"case">>
  OBVIOUS
<1>6. ~apart => bs + cs = IF w \in {<<"begin">>, <<"case">>} /\ body THEN r.begins + r.cases + 1
                          ELSE IF w = <<"end">> /\ r.begins + r.cases > 0 THEN r.begins + r.cases - 1
                          ELSE r.begins + r.cases
  <2> HIDE DEF body
  <2>1. CASE w \in {<<"begin">>, <<"case">>}
    <3>1. w # <<"end">> /\ ~closes
      BY <1>5, <2>1
    <3>2. opens <=> body
      BY <2>1
    <3> HIDE DEF opens, closes, counts
    <3> QED
      BY <1>0, <2>1, <3>1, <3>2
  <2>2. CASE w = <<"end">>
    <3>1. CASE body
      BY <1>0, <1>5, <2>2, <3>1
    <3>2. CASE ~body
      BY <1>0, <1>1, <1>4, <1>5, <2>2, <3>2
    <3> QED
      BY <3>1, <3>2
  <2>3. CASE w \notin {<<"begin">>, <<"case">>, <<"end">>}
    BY <1>0, <2>3
  <2> QED
    BY <2>1, <2>2, <2>3
<1>7. (r.apart => apart) /\ (~apart => (body => ~r.string))
  BY <1>0
<1> HIDE DEF ws, bs, cs, apart, ts
<1>8. /\ t.mode = r.mode /\ t.seen = r.seen /\ t.delim = r.delim /\ t.open = r.open /\ t.at = r.at
      /\ t.parens = r.parens /\ t.string = r.string /\ t.from = r.from /\ t.stmts = r.stmts /\ t.control = r.control
      /\ t.tokens = ts /\ t.words = ws /\ t.begins = bs /\ t.cases = cs /\ t.apart = apart
  BY <1>0, <1>3 DEF Reader
<1> QED
  BY <1>6, <1>7, <1>8, Zenon DEF Named, ts, ws

Closed(text, r, t) ==
  /\ t.mode = r.mode /\ t.parens = r.parens
  /\ t.stmts = IF Solid(text, r.from, r.at) THEN Append(r.stmts, <<r.from, r.at>>) ELSE r.stmts
  /\ t.from = r.at + 1
  /\ t.control => r.control \/ Controls(r.tokens)
  /\ r.apart \/ r.cases > 0 => t.apart
  /\ t.tokens = <<>> /\ t.words = <<>> /\ t.begins = 0 /\ t.cases = 0 /\ t.string = FALSE

LEMMA CutIs ==
  ASSUME NEW text, NEW r, Sound(r), NEW t, t = Cut(text, r)
  PROVE  Closed(text, r, t)
<1> DEFINE out == IF Solid(text, r.from, r.at) THEN Append(r.stmts, <<r.from, r.at>>) ELSE r.stmts
           control == r.control \/ Controls(r.tokens)
           apart == r.apart \/ r.cases > 0
<1>1. r \in Reader
  BY DEF Sound
<1>2. t = [r EXCEPT !.stmts = out, !.from = r.at + 1, !.control = control, !.apart = apart,
                    !.tokens = <<>>, !.words = <<>>, !.begins = 0, !.cases = 0, !.string = FALSE]
  BY <1>1, Zenon DEF Cut, Reader
<1> HIDE DEF out, control, apart
<1>3. /\ t.mode = r.mode /\ t.parens = r.parens /\ t.stmts = out /\ t.from = r.at + 1 /\ t.control = control
      /\ t.apart = apart /\ t.tokens = <<>> /\ t.words = <<>> /\ t.begins = 0 /\ t.cases = 0 /\ t.string = FALSE
  BY <1>1, <1>2 DEF Reader
<1> QED
  BY <1>3 DEF Closed, out, control, apart

\* A semicolon that cuts finds nothing open, one that does not finds a body.
Ended(text, r, t) ==
  /\ t.mode = r.mode
  /\ r.apart => t.apart
  /\ ~t.apart => \/ r.begins + r.cases > 0 /\ Gist(t) = Gist(r)
                 \/ r.begins + r.cases = 0 /\ t = Cut(text, r)

LEMMA SemiIs ==
  ASSUME NEW text, NEW r, Sound(r), NEW t, t = Semi(text, r)
  PROVE  Ended(text, r, t)
<1>0. /\ r \in Reader /\ r.begins \in Nat /\ r.cases \in Nat /\ r.parens \in Nat /\ r.apart \in BOOLEAN
  BY Zenon DEF Sound, Reader
<1>1. CASE r.begins > 0 \/ r.parens > 0
  <2> DEFINE apart == r.apart \/ r.begins + r.cases = 0
  <2>1. t = [r EXCEPT !.apart = apart] /\ (r.apart => apart) /\ (~apart => r.begins + r.cases > 0)
    <3>1. t = [r EXCEPT !.apart = apart]
      BY <1>0, <1>1, Zenon DEF Semi, Reader
    <3>2. (r.apart => apart) /\ (~apart => r.begins + r.cases > 0)
      BY <1>0
    <3> QED
      BY <3>1, <3>2
  <2>2. apart \in BOOLEAN
    OBVIOUS
  <2> HIDE DEF apart
  <2>3. /\ t.mode = r.mode /\ t.apart = apart
        /\ t.tokens = r.tokens /\ t.words = r.words /\ t.begins = r.begins /\ t.cases = r.cases /\ t.parens = r.parens
        /\ t.string = r.string /\ t.from = r.from /\ t.stmts = r.stmts /\ t.control = r.control
    BY <1>0, <2>1 DEF Reader
  <2>4. ~apart => apart = r.apart
    BY <1>0, <2>1, <2>2
  <2>5. ~apart => Gist(t) = Gist(r)
    BY <2>3, <2>4, Zenon DEF Gist
  <2> QED
    BY <2>1, <2>3, <2>5 DEF Ended
<1>2. CASE ~(r.begins > 0 \/ r.parens > 0)
  <2>1. t = Cut(text, r)
    BY <1>2, Zenon DEF Semi
  <2>2. Closed(text, r, t)
    BY <2>1, CutIs
  <2>3. t.mode = r.mode /\ (r.apart \/ r.cases > 0 => t.apart)
    BY <2>2 DEF Closed
  <2> QED
    BY <1>0, <1>2, <2>1, <2>3 DEF Ended
<1> QED
  BY <1>1, <1>2 DEF Ended

\* Apart is for good.
LEMMA PlainApart ==
  ASSUME NEW text, NEW r, Sound(r), NEW c \in Atoms, r.apart PROVE Plain(text, r, c).apart
<1> DEFINE b == Token(r, <<>>)
<1>1. PICK t : t = Plain(text, r, c)
  OBVIOUS
<1>2. Passed(text, r, c, t)
  BY <1>1, PlainTurns
<1>3. Sound(b) /\ b \in Reader /\ b.apart = r.apart
  <2>1. Sound(b) /\ Tokened(r, <<>>, b)
    BY TokenIs, TokenKeeps, NoSpelling
  <2> QED
    BY <2>1 DEF Tokened, Sound
<1> HIDE DEF b
<1>4. \A u, m, s, d, o : Turned(r, u, m, s, d, o) => u.apart = r.apart
  BY DEF Turned, Gist
<1>5. \A u, m, s, d, o : Turned(b, u, m, s, d, o) => u.apart = r.apart
  BY <1>3 DEF Turned, Gist
<1>6. CASE Kind(c) = "semicolon"
  <2> DEFINE p == Lexed(r, "plain", r.seen, r.delim, r.open)
  <2>1. Sound(p) /\ p.apart = r.apart
    <3>1. r \in Reader /\ r.seen \in Spelling /\ r.delim \in Spelling /\ r.open \in Int /\ "plain" \in Modes
      BY Zenon DEF Sound, Reader, Modes
    <3>2. Gist(p) = Gist(r)
      BY <3>1, LexedIs
    <3> QED
      BY <3>1, <3>2, LexedSound DEF Gist
  <2>2. t = Semi(text, p)
    BY <1>2, <1>6 DEF Passed
  <2> HIDE DEF p
  <2>3. Ended(text, p, t)
    BY <2>1, <2>2, SemiIs
  <2> QED
    BY <1>1, <2>1, <2>3 DEF Ended
<1>7. CASE Kind(c) = "paren"
  <2>1. PICK n \in Nat : t = Lexed([b EXCEPT !.parens = n], "plain", r.seen, r.delim, r.open)
    BY <1>2, <1>7 DEF Passed, b
  <2>2. t.apart = b.apart
    BY <1>3, <2>1 DEF Lexed, Reader
  <2> QED
    BY <1>1, <1>3, <2>2
<1>8. CASE Kind(c) \in {"blank", "letter", "quote", "dollar", "line", "block", "other"}
  <2>1. CASE Kind(c) \in {"blank", "letter", "line", "block"}
    <3>1. \E m, s, d, o : Turned(r, t, m, s, d, o)
      BY <1>2, <2>1 DEF Passed
    <3> QED
      BY <1>1, <1>4, <3>1
  <2>2. CASE Kind(c) \in {"quote", "dollar", "other"}
    <3>1. \E m, s, d, o : Turned(b, t, m, s, d, o)
      BY <1>2, <2>2 DEF Passed, b
    <3> QED
      BY <1>1, <1>5, <3>1
  <2> QED
    BY <1>8, <2>1, <2>2
<1> QED
  BY <1>6, <1>7, <1>8 DEF Kind

-----------------------------------------------------------------------------
(* The word that is being read. *)

Spelt(r) == IF r.mode = "word" THEN r.seen ELSE IF r.mode = "tag" THEN Tail(r.seen) ELSE <<>>
Rest(r) == Lexed(r, "plain", IF r.mode = "tag" THEN Tail(r.seen) ELSE r.seen, r.delim, r.open)

\* What will have been read when the word ends.
Pending(r) == IF Spelt(r) = <<>> THEN Rest(r) ELSE Identifier(Rest(r), Spelt(r))

LEMMA RestIs ==
  ASSUME NEW r, Sound(r)
  PROVE  Sound(Rest(r)) /\ Gist(Rest(r)) = Gist(r) /\ Rest(r).at = r.at /\ Spelt(r) \in Spelling
<1>1. r \in Reader /\ r.seen \in Spelling /\ r.delim \in Spelling /\ r.open \in Int /\ "plain" \in Modes /\ "plain" # "tag"
  BY Zenon DEF Sound, Reader, Modes
<1> DEFINE s == IF r.mode = "tag" THEN Tail(r.seen) ELSE r.seen
<1>2. s \in Spelling /\ Spelt(r) \in Spelling
  <2>1. r.mode = "tag" => Tail(r.seen) \in Spelling
    BY <1>1 DEF Sound, Spelling
  <2> QED
    BY <1>1, <2>1, NoSpelling DEF Spelt
<1>3. Rest(r) = Lexed(r, "plain", s, r.delim, r.open)
  BY DEF Rest
<1> HIDE DEF s
<1> QED
  BY <1>1, <1>2, <1>3, LexedSound, LexedIs

LEMMA IdentifierLexed ==
  ASSUME NEW r, Sound(r), NEW w \in Spelling, NEW m, NEW s, NEW d, NEW o
  PROVE  Identifier(Lexed(r, m, s, d, o), w) = Lexed(Identifier(r, w), m, s, d, o)
<1> DEFINE ws == Next4(r.words, w)
           body == CreatesRoutine(ws)
           opens == body /\ w \in {<<"begin">>, <<"case">>}
           closes == body /\ w = <<"end">>
           counts == r.parens = 0 /\ (r.begins > 0 \/ w = <<"begin">>)
           bs == IF opens /\ counts THEN r.begins + 1 ELSE IF closes /\ counts THEN r.begins - 1 ELSE r.begins
           cs == IF opens /\ ~counts THEN r.cases + 1 ELSE IF closes /\ ~counts /\ r.cases > 0 THEN r.cases - 1 ELSE r.cases
           apart == r.apart \/ (body /\ r.string) \/ (closes /\ ~counts /\ r.cases = 0 /\ r.begins > 0)
           ts == IF Len(r.tokens) < 2 THEN Append(r.tokens, w) ELSE r.tokens
           q == Lexed(r, m, s, d, o)
<1>0. r \in Reader
  BY DEF Sound
<1>1. Token(r, w) = [r EXCEPT !.tokens = ts]
  BY DEF Token
<1>2. Identifier(r, w) = [r EXCEPT !.tokens = ts, !.words = ws, !.begins = bs, !.cases = cs, !.apart = apart]
  BY <1>0, <1>1, ZenonT(40) DEF Identifier, Next4, Reader
<1>3. /\ q.tokens = r.tokens /\ q.words = r.words /\ q.begins = r.begins /\ q.cases = r.cases
      /\ q.parens = r.parens /\ q.string = r.string /\ q.apart = r.apart
  BY <1>0 DEF Lexed, Reader
<1>4. DOMAIN q = DOMAIN r /\ {"tokens", "words", "begins", "cases", "apart"} \subseteq DOMAIN r
  BY <1>0 DEF Lexed, Reader
<1> HIDE DEF q
<1>5. Token(q, w) = [q EXCEPT !.tokens = ts]
  BY <1>3, Zenon DEF Token
<1>6. /\ [q EXCEPT !.tokens = ts].begins = r.begins /\ [q EXCEPT !.tokens = ts].cases = r.cases
      /\ [q EXCEPT !.tokens = ts].apart = r.apart
  BY <1>0, <1>3, <1>4
<1>7. Identifier(q, w) = [q EXCEPT !.tokens = ts, !.words = ws, !.begins = bs, !.cases = cs, !.apart = apart]
  BY <1>0, <1>3, <1>4, <1>5, <1>6, ZenonT(40) DEF Identifier, Next4
<1> HIDE DEF ws, bs, cs, apart, ts
<1> QED
  BY <1>0, <1>2, <1>7, ZenonT(40) DEF Lexed, Reader, q

LEMMA PendingIs ==
  ASSUME NEW r, Sound(r)
  PROVE  /\ Sound(Pending(r))
         /\ Pending(r).at = r.at
         /\ Spelt(r) = <<>> => Gist(Pending(r)) = Gist(r)
         /\ Spelt(r) # <<>> => Named(Rest(r), Spelt(r), Pending(r))
<1>1. CASE Spelt(r) = <<>>
  BY <1>1, RestIs DEF Pending
<1>2. CASE Spelt(r) # <<>>
  <2>1. Pending(r) = Identifier(Rest(r), Spelt(r))
    BY <1>2 DEF Pending
  <2>2. Named(Rest(r), Spelt(r), Pending(r)) /\ Sound(Pending(r))
    BY <2>1, RestIs, IdentifierIs, IdentifierSound
  <2>3. Pending(r).at = Rest(r).at
    BY <2>2 DEF Named
  <2> QED
    BY <1>2, <2>2, <2>3, RestIs
<1> QED
  BY <1>1, <1>2

\* Only its mode, its text and what it makes of it set two readers apart.
LEMMA PlainAgain ==
  ASSUME NEW text, NEW r, Sound(r), NEW c, NEW s
  PROVE  Plain(text, [r EXCEPT !.seen = s], c) = Plain(text, Lexed(r, "plain", s, r.delim, r.open), c)
<1>1. r \in Reader
  BY DEF Sound
<1> DEFINE p == [r EXCEPT !.seen = s]
           q == Lexed(r, "plain", s, r.delim, r.open)
<1>2. [p EXCEPT !.mode = "plain"] = q /\ [q EXCEPT !.mode = "plain"] = q
  BY <1>1, Zenon DEF Lexed, Reader
<1> HIDE DEF p, q
<1>3. Plain(text, p, c) = Plain(text, q, c)
  BY <1>2, Zenon DEF Plain
<1> QED
  BY <1>3 DEF p, q

\* What can follow a word, a quote or nothing.
Follows(r, c) ==
  \/ r.mode = "plain"
  \/ r.mode \in {"quote", "quoteE"} /\ <<c>> # r.delim
  \/ r.mode = "word" /\ r.seen # <<>> /\ ~InWord(c)
  \/ r.mode = "tag" /\ ~InWord(c)

Chars == Atoms \ ({"0"} \cup Parameters)

\* The text that was read ends, and the atom is read from scratch.
Met(r, u, t, c) ==
  /\ u.apart => t.apart
  /\ Spelt(r) # <<>> /\ c = "'" /\ IsSuffix(<<"$", "e">>, Spelt(r)) => t.apart
  /\ ~t.apart => Turned(u, t, u.mode, u.seen, u.delim, u.open)

LEMMA MetAs ==
  ASSUME NEW u, Sound(u), NEW n \in Nat, NEW x, NEW t, t = Moved([u EXCEPT !.apart = @ \/ x], n)
  PROVE  (u.apart => t.apart) /\ (x => t.apart) /\ (~t.apart => Turned(u, t, u.mode, u.seen, u.delim, u.open))
<1> DEFINE apart == u.apart \/ x
           v == [u EXCEPT !.apart = apart]
<1>1. u \in Reader /\ u.apart \in BOOLEAN /\ apart \in BOOLEAN
  BY Zenon DEF Sound, Reader
<1>2. t = Moved(v, n)
  BY <1>1, Zenon DEF Reader
<1> HIDE DEF apart
<1>3. /\ t.mode = u.mode /\ t.seen = u.seen /\ t.delim = u.delim /\ t.open = u.open /\ t.apart = apart
      /\ t.tokens = u.tokens /\ t.words = u.words /\ t.begins = u.begins /\ t.cases = u.cases /\ t.parens = u.parens
      /\ t.string = u.string /\ t.from = u.from /\ t.stmts = u.stmts /\ t.control = u.control
  BY <1>1, <1>2 DEF Moved, Reader
<1>4. (u.apart => apart) /\ (x => apart) /\ (~apart => apart = u.apart)
  BY <1>1 DEF apart
<1> QED
  BY <1>3, <1>4 DEF Turned, Gist

LEMMA MetPlainly ==
  ASSUME NEW u, Sound(u), NEW n \in Nat, NEW t, t = Moved(u, n)
  PROVE  (u.apart => t.apart) /\ Turned(u, t, u.mode, u.seen, u.delim, u.open)
<1>1. Turned(u, t, u.mode, u.seen, u.delim, u.open)
  BY MovedIs
<1> QED
  BY <1>1 DEF Turned, Gist

\* A word that ends, in the text or behind a $.
LEMMA WordMet ==
  ASSUME NEW text, NEW r, Sound(r), NEW c \in Chars, NEW n \in Nat, NEW p, NEW w, NEW t,
         p = [r EXCEPT !.seen = w], r.mode \in {"word", "tag"}, w = Spelt(r), w # <<>>,
         t = Moved(AfterWord(text, p, c), n), ~(w = <<"e">> /\ c = "'")
  PROVE  Met(r, Plain(text, Pending(r), c), t, c)
<1>1. r \in Reader /\ w \in Spelling /\ c \in Atoms /\ r.mode \in Modes
  BY RestIs, Zenon DEF Sound, Reader, Chars
<1>2. p.seen = w
  BY <1>1 DEF Reader
<1>3. p = Lexed(r, r.mode, w, r.delim, r.open) /\ Rest(r) = Lexed(r, "plain", w, r.delim, r.open)
  <2>1. p = Lexed(r, r.mode, w, r.delim, r.open)
    BY <1>1, LexedForms, Zenon
  <2>2. w = IF r.mode = "tag" THEN Tail(r.seen) ELSE r.seen
    BY DEF Spelt
  <2> QED
    BY <2>1, <2>2 DEF Rest
<1>4. Sound(Identifier(r, w)) /\ Sound(Pending(r))
  BY <1>1, IdentifierSound, PendingIs
<1> DEFINE v == Identifier(r, w)
           u == Plain(text, Pending(r), c)
           x == c = "'" /\ IsSuffix(<<"$", "e">>, w)
<1>5. Identifier(p, w) = Lexed(v, r.mode, w, r.delim, r.open)
  BY <1>1, <1>3, IdentifierLexed
<1>6. Pending(r) = Lexed(v, "plain", w, r.delim, r.open)
  BY <1>1, <1>3, IdentifierLexed DEF Pending
<1>7. Plain(text, Identifier(p, w), c) = u
  <2>1. v \in Reader
    BY <1>4 DEF Sound
  <2> HIDE DEF v
  <2> DEFINE a == Lexed(v, r.mode, w, r.delim, r.open)
             b == Lexed(v, "plain", w, r.delim, r.open)
  <2>2. [a EXCEPT !.mode = "plain"] = b /\ [b EXCEPT !.mode = "plain"] = b
    BY <2>1, Zenon DEF Lexed, Reader
  <2> HIDE DEF a, b
  <2>3. Plain(text, a, c) = Plain(text, b, c)
    BY <2>2, Zenon DEF Plain
  <2> QED
    BY <1>5, <1>6, <2>3 DEF a, b
<1>8. AfterWord(text, p, c) = [u EXCEPT !.apart = @ \/ x]
  BY <1>2, <1>7, Zenon DEF AfterWord
<1>9. Sound(u)
  BY <1>1, <1>4, PlainSound
<1> HIDE DEF u, x
<1>10. (u.apart => t.apart) /\ (x => t.apart) /\ (~t.apart => Turned(u, t, u.mode, u.seen, u.delim, u.open))
  BY <1>8, <1>9, MetAs
<1> QED
  BY <1>10 DEF Met, u, x

LEMMA Meets ==
  ASSUME NEW text, NEW r, Sound(r), NEW c \in Chars, NEW n \in Nat, NEW t, t = Moved(Reads(text, r, c), n),
         Follows(r, c), ~(Spelt(r) = <<"e">> /\ c = "'")
  PROVE  Met(r, Plain(text, Pending(r), c), t, c)
<1>1. /\ r \in Reader /\ r.seen \in Spelling /\ c \in Atoms /\ ~(c \in {"0"} \cup Parameters)
      /\ Spelt(r) \in Spelling /\ Sound(Pending(r))
  BY RestIs, PendingIs, Zenon DEF Sound, Reader, Chars
<1> DEFINE u == Plain(text, Pending(r), c)
<1>2. Sound(u)
  BY <1>1, PlainSound
<1>7. \A s : Plain(text, [r EXCEPT !.seen = s], c) = Plain(text, Lexed(r, "plain", s, r.delim, r.open), c)
  BY PlainAgain
<1>3. ASSUME Spelt(r) = <<>>, t = Moved(u, n) PROVE Met(r, u, t, c)
  <2> HIDE DEF u
  <2> QED
    BY <1>2, <1>3, MetPlainly DEF Met
<1>4. CASE r.mode \in {"plain", "quote", "quoteE"}
  <2>1. Spelt(r) = <<>> /\ Rest(r) = Lexed(r, "plain", r.seen, r.delim, r.open)
    BY <1>4 DEF Spelt, Rest
  <2>2. Plain(text, r, c) = u
    <3>1. r = [r EXCEPT !.seen = r.seen]
      BY <1>1, Zenon DEF Reader
    <3>2. Plain(text, [r EXCEPT !.seen = r.seen], c) = Plain(text, Rest(r), c)
      BY <1>7, <2>1, Zenon
    <3>3. Pending(r) = Rest(r)
      BY <2>1 DEF Pending
    <3> QED
      BY <3>1, <3>2, <3>3
  <2>3. Reads(text, r, c) = Plain(text, r, c)
    BY <1>4 DEF Reads, Follows
  <2> QED
    BY <1>3, <2>1, <2>2, <2>3
<1>5. CASE r.mode = "word"
  <2>1. Spelt(r) = r.seen /\ r.seen # <<>> /\ ~InWord(c)
    BY <1>5 DEF Spelt, Follows
  <2>2. Reads(text, r, c) = AfterWord(text, r, c)
    BY <1>1, <1>5, <2>1 DEF Reads, InWord, IsIdentByte
  <2>3. r = [r EXCEPT !.seen = r.seen]
    BY <1>1, Zenon DEF Reader
  <2> QED
    BY <1>5, <2>1, <2>2, <2>3, WordMet
<1>6. CASE r.mode = "tag"
  <2> DEFINE w == Tail(r.seen)
             p == [r EXCEPT !.seen = w]
  <2>1. Spelt(r) = w /\ ~Letter(c) /\ c # "$"
    BY <1>6 DEF Spelt, Follows, InWord, IsIdentByte
  <2>2. Reads(text, r, c) = AfterWord(text, p, c)
    <3>1. [r EXCEPT !.seen = Tail(@)] = p
      BY <1>1, Zenon DEF Reader
    <3>2. Reads(text, r, c) = Tag(text, r, c)
      BY <1>6 DEF Reads
    <3> HIDE DEF p
    <3> QED
      BY <2>1, <3>1, <3>2, Zenon DEF Tag
  <2>3. CASE w # <<>>
    BY <1>6, <2>1, <2>2, <2>3, WordMet
  <2>4. CASE w = <<>>
    <3>1. p.seen = w
      BY <1>1 DEF Reader
    <3>2. AfterWord(text, p, c) = Plain(text, p, c)
      BY <2>4, <3>1, Zenon DEF AfterWord
    <3>3. Plain(text, p, c) = Plain(text, Rest(r), c)
      <4>1. Rest(r) = Lexed(r, "plain", w, r.delim, r.open)
        BY <1>6 DEF Rest
      <4> QED
        BY <1>7, <4>1, Zenon
    <3>4. Pending(r) = Rest(r)
      BY <2>1, <2>4 DEF Pending
    <3> QED
      BY <1>3, <2>1, <2>2, <2>4, <3>2, <3>3, <3>4
  <2> QED
    BY <2>3, <2>4
<1> QED
  BY <1>4, <1>5, <1>6 DEF Follows

\* An e right before a quote is no word.
Escaped(r, t) ==
  /\ t.mode = "escapes" /\ t.delim = <<"'">>
  /\ t.words = r.words /\ t.begins = r.begins /\ t.cases = r.cases /\ t.parens = r.parens
  /\ t.from = r.from /\ t.stmts = r.stmts /\ t.control = r.control /\ t.apart = r.apart
  /\ r.string \/ ~CreatesRoutine(r.words) => t.string
  /\ t.tokens = IF Len(r.tokens) < 2 THEN Append(r.tokens, <<>>) ELSE r.tokens

LEMMA Escapes ==
  ASSUME NEW text, NEW r, Sound(r), NEW c \in Chars, NEW n \in Nat, NEW t, t = Moved(Reads(text, r, c), n),
         r.mode \in {"word", "tag"}, Spelt(r) = <<"e">>, c = "'"
  PROVE  Escaped(r, t)
<1>1. r \in Reader /\ r.seen \in Spelling /\ ~(c \in {"0"} \cup Parameters) /\ c \in Atoms /\ r.mode \in Modes
  BY Zenon DEF Sound, Reader, Chars
<1>2. c # "$" /\ ~Letter(c)
  <2>1. "'" \in Signs
    BY Zenon DEF Signs
  <2> QED
    BY <2>1, Zenon DEF Letter
<1> DEFINE p == [r EXCEPT !.seen = <<"e">>]
<1>3. Reads(text, r, c) = AfterWord(text, p, c)
  <2>1. CASE r.mode = "word"
    <3>1. r.seen = <<"e">>
      BY <2>1 DEF Spelt
    <3>2. r = p
      BY <1>1, <3>1, Zenon DEF Reader
    <3>3. Reads(text, r, c) = AfterWord(text, r, c)
      BY <1>1, <1>2, <2>1 DEF Reads
    <3> QED
      BY <3>2, <3>3
  <2>2. CASE r.mode = "tag"
    <3>1. Tail(r.seen) = <<"e">>
      BY <2>2 DEF Spelt
    <3>2. [r EXCEPT !.seen = Tail(@)] = p
      BY <1>1, <3>1, Zenon DEF Reader
    <3>3. Reads(text, r, c) = Tag(text, r, c)
      BY <2>2 DEF Reads
    <3> HIDE DEF p
    <3> QED
      BY <1>2, <3>2, <3>3, Zenon DEF Tag
  <2> QED
    BY <2>1, <2>2
<1>4. p.seen = <<"e">> /\ p.words = r.words /\ p \in Reader /\ p.tokens = r.tokens
  <2>1. p = Lexed(r, r.mode, <<"e">>, r.delim, r.open)
    BY <1>1, LexedForms, Zenon
  <2>2. \A q : q = p => q.seen = <<"e">> /\ q.words = r.words /\ q.tokens = r.tokens
    BY <1>1 DEF Reader
  <2>3. <<"e">> \in Spelling
    BY RestIs
  <2>4. p \in Reader
    BY <1>1, <2>3, Zenon DEF Reader
  <2> QED
    BY <2>2, <2>4
<1> DEFINE ts == IF Len(r.tokens) < 2 THEN Append(r.tokens, <<>>) ELSE r.tokens
           b == [p EXCEPT !.tokens = ts, !.mode = "escapes", !.delim = <<c>>]
           string == b.string \/ ~CreatesRoutine(r.words)
<1>5. Opens(p, "escapes", c) = b
  <2>1. Token(p, <<>>) = [p EXCEPT !.tokens = ts]
    BY <1>4, Zenon DEF Token
  <2> HIDE DEF p, ts
  <2> QED
    BY <1>4, <2>1, Zenon DEF Opens, Reader
<1>6. AfterWord(text, p, c) = [b EXCEPT !.string = string]
  <2> HIDE DEF p
  <2>0. <<"e">> # <<>>
    OBVIOUS
  <2>1. AfterWord(text, p, c) = [b EXCEPT !.string = @ \/ ~CreatesRoutine(r.words)]
    BY <1>4, <1>5, <2>0, Zenon DEF AfterWord
  <2>2. "string" \in DOMAIN b
    BY <1>4 DEF Reader
  <2> HIDE DEF b
  <2> QED
    BY <2>1, <2>2, Zenon
<1>7. b.string = r.string
  BY <1>1 DEF Reader
<1>8. r.string \/ ~CreatesRoutine(r.words) => string
  BY <1>7
<1> HIDE DEF string, ts
<1>9. t = Moved([b EXCEPT !.string = string], n)
  BY <1>3, <1>6
<1>10. /\ t.mode = "escapes" /\ t.delim = <<c>> /\ t.tokens = ts
       /\ t.words = r.words /\ t.begins = r.begins /\ t.cases = r.cases /\ t.parens = r.parens /\ t.string = string
       /\ t.from = r.from /\ t.stmts = r.stmts /\ t.control = r.control /\ t.apart = r.apart
  BY <1>1, <1>9, ZenonT(40) DEF Moved, Reader
<1> QED
  BY <1>8, <1>10 DEF Escaped, ts

LEMMA ApartStays ==
  ASSUME NEW text, NEW r, Sound(r), NEW c \in Chars, NEW n \in Nat, NEW t, t = Moved(Reads(text, r, c), n), r.apart
  PROVE  t.apart
<1>1. r \in Reader /\ r.seen \in Spelling /\ r.mode \in Modes /\ c \in Atoms /\ ~(c \in {"0"} \cup Parameters)
  BY Zenon DEF Sound, Reader, Chars
<1>2. \A m, s, d, o : Turned(r, t, m, s, d, o) => t.apart
  BY DEF Turned, Gist
<1>3. CASE Follows(r, c) /\ Spelt(r) = <<"e">> /\ c = "'"
  <2>1. r.mode \in {"word", "tag"}
    <3>1. <<"e">> # <<>>
      OBVIOUS
    <3> QED
      BY <1>3, <3>1 DEF Follows, Spelt
  <2>2. Escaped(r, t)
    BY <1>3, <2>1, Escapes
  <2> QED
    BY <2>2 DEF Escaped
<1>4. CASE Follows(r, c) /\ ~(Spelt(r) = <<"e">> /\ c = "'")
  <2> DEFINE s == Pending(r)
             u == Plain(text, s, c)
  <2>1. Met(r, u, t, c)
    BY <1>4, Meets
  <2>2. Sound(s) /\ s.apart
    <3>1. Sound(Rest(r)) /\ Rest(r).apart
      BY RestIs DEF Gist
    <3>2. CASE Spelt(r) = <<>>
      BY <3>2, PendingIs DEF Gist
    <3>3. CASE Spelt(r) # <<>>
      <4>1. Named(Rest(r), Spelt(r), s)
        BY <3>3, PendingIs
      <4> HIDE DEF s
      <4>2. s.apart
        BY <3>1, <4>1 DEF Named
      <4> QED
        BY <4>2, PendingIs DEF s
    <3> QED
      BY <3>2, <3>3
  <2> HIDE DEF s
  <2>3. u.apart
    BY <1>1, <2>2, PlainApart
  <2> HIDE DEF u
  <2> QED
    BY <2>1, <2>3 DEF Met
<1>5. CASE ~Follows(r, c)
  <2>1. CASE r.mode = "line"
    BY <1>1, <1>2, <2>1, LineTurn
  <2>2. CASE r.mode = "block"
    BY <1>1, <1>2, <2>2, BlockTurn
  <2>3. CASE r.mode = "dollar"
    BY <1>1, <1>2, <2>3, DollarTurn
  <2>4. CASE r.mode \in {"quoted", "escapes", "escaped", "quote", "quoteE"}
    <3>1. r.mode \in {"quoted", "escapes", "escaped"} \/ (r.mode \in {"quote", "quoteE"} /\ <<c>> = r.delim)
      BY <1>5, <2>4 DEF Follows
    <3> QED
      BY <1>1, <1>2, <3>1, QuotedTurn
  <2>5. CASE r.mode = "word" /\ r.seen = <<>>
    <3>1. CASE Letter(c) \/ c = "$"
      BY <1>1, <1>2, <2>5, <3>1, WordTurn
    <3>2. CASE ~(Letter(c) \/ c = "$")
      <4> DEFINE u == Plain(text, r, c)
      <4>1. Reads(text, r, c) = u
        BY <1>1, <2>5, <3>2 DEF Reads, AfterWord
      <4>2. Sound(u) /\ u.apart
        BY <1>1, PlainSound, PlainApart
      <4> HIDE DEF u
      <4> QED
        BY <4>1, <4>2, MetPlainly
    <3> QED
      BY <3>1, <3>2
  <2>6. CASE r.mode = "word" /\ r.seen # <<>>
    <3>1. Letter(c) \/ c = "$"
      BY <1>5, <2>6 DEF Follows, InWord, IsIdentByte
    <3> QED
      BY <1>1, <1>2, <2>6, <3>1, WordTurn
  <2>7. CASE r.mode = "tag"
    <3>1. Letter(c) \/ c = "$"
      BY <1>5, <2>7 DEF Follows, InWord, IsIdentByte
    <3> QED
      BY <1>1, <1>2, <2>7, <3>1, WordTurn, TagTurn
  <2>8. r.mode # "plain"
    BY <1>5 DEF Follows
  <2> QED
    BY <1>1, <2>1, <2>2, <2>3, <2>4, <2>5, <2>6, <2>7, <2>8 DEF Modes
<1> QED
  BY <1>3, <1>4, <1>5

-----------------------------------------------------------------------------
(* The reader at each position of a text. *)

Script(text) == text \in Seq(STRING) /\ \A k \in DOMAIN text : text[k] \notin {"0"} \cup Parameters

\* The reader that is about to read this atom.
At(text, j) == Reading(text)[j - 1]

LEMMA StartSound == Sound(Start)
<1>1. Start \in Reader
  <2>1. <<>> \in Seq(Nat \X Nat) /\ <<>> \in Seq(Spelling)
    OBVIOUS
  <2>2. "plain" \in Modes /\ 0 \in Int /\ 0 \in Nat /\ 1 \in Nat
    BY DEF Modes
  <2> QED
    BY <2>1, <2>2, NoSpelling DEF Start, Reader
<1>2. \A t : t = Start => t.mode = "plain" /\ t.begins = 0 /\ t.cases = 0 /\ t.string = FALSE
  BY DEF Start
<1> QED
  BY <1>1, <1>2 DEF Sound

LEMMA AtomIs ==
  ASSUME NEW text, Script(text)
  PROVE  /\ \A j \in 1..Len(text) : Atom(text, j) = text[j]
         /\ Atom(text, Len(text) + 1) = "\n"
         /\ \A j \in 1..Len(text) + 1 : Atom(text, j) \in Chars
<1>1. text \in Seq(STRING)
  BY DEF Script
<1>2. /\ \A j \in 1..Len(text) : Atom(text, j) = text[j]
      /\ Atom(text, Len(text) + 1) = "\n"
  BY <1>1 DEF Atom
<1>3. "\n" \in Chars
  BY DEF Chars, Atoms, Parameters
<1>4. \A j \in 1..Len(text) : text[j] \in Chars
  <2>1. \A j \in 1..Len(text) : text[j] \in STRING /\ j \in DOMAIN text
    BY <1>1
  <2> QED
    BY <2>1 DEF Script, Chars, Atoms
<1>5. Len(text) \in Nat
  BY <1>1
<1> QED
  BY <1>2, <1>3, <1>4, <1>5

LEMMA AtIs ==
  ASSUME NEW text, Script(text)
  PROVE  /\ At(text, 1) = Start
         /\ \A j \in 1..Len(text) + 1 : At(text, j + 1) = Moved(Reads(text, At(text, j), Atom(text, j)), j + 1)
         /\ \A j \in 1..Len(text) + 2 : Sound(At(text, j)) /\ At(text, j).at = j
<1>1. text \in Seq(STRING) /\ Len(text) \in Nat
  BY DEF Script
<1>2. At(text, 1) = Start
  BY <1>1, ReadingIs DEF At
<1>3. \A j \in 1..Len(text) + 1 : At(text, j + 1) = Moved(Reads(text, At(text, j), Atom(text, j)), j + 1)
  <2>1. \A n \in 1..Len(text) + 1 : Reading(text)[n] = Moved(Reads(text, Reading(text)[n - 1], Atom(text, n)), n + 1)
    BY <1>1, ReadingIs, Zenon DEF Moved
  <2>2. \A j \in 1..Len(text) + 1 : (j + 1) - 1 = j
    BY <1>1
  <2> QED
    BY <2>1, <2>2 DEF At
<1> DEFINE Good == {j \in Nat : Sound(At(text, j)) /\ At(text, j).at = j}
<1>4. 1 \in Good
  <2>1. \A t : t = Start => t.at = 1
    BY DEF Start
  <2> QED
    BY <1>2, <2>1, StartSound
<1>5. ASSUME NEW j \in 1..Len(text) + 2, j # Len(text) + 2, j \in Good PROVE j + 1 \in Good
  <2>1. j \in 1..Len(text) + 1 /\ j + 1 \in Nat
    BY <1>1, <1>5
  <2> DEFINE u == Reads(text, At(text, j), Atom(text, j))
  <2>2. Sound(u)
    <3>1. Atom(text, j) \in Atoms
      BY <2>1, AtomIs DEF Chars
    <3> QED
      BY <1>5, <3>1, ReadsSound
  <2>3. At(text, j + 1) = Moved(u, j + 1)
    BY <1>3, <2>1
  <2> HIDE DEF u
  <2>4. Sound(At(text, j + 1)) /\ At(text, j + 1).at = j + 1
    BY <2>1, <2>2, <2>3, MovedIs
  <2> QED
    BY <2>1, <2>4
<1> HIDE DEF Good
<1>6. \A j \in 1..Len(text) + 2 : j \in Good
  BY <1>1, <1>4, <1>5, Onward, SMTT(40)
<1> QED
  BY <1>2, <1>3, <1>6 DEF Good

\* A text that is not apart is apart nowhere.
LEMMA NeverApart ==
  ASSUME NEW text, Script(text), ~Server(text).apart
  PROVE  \A j \in 1..Len(text) + 2 : ~At(text, j).apart
<1>1. text \in Seq(STRING) /\ Len(text) \in Nat
  BY DEF Script
<1>2. ASSUME NEW j \in 1..Len(text) + 2, At(text, j).apart PROVE FALSE
  <2> DEFINE Good == {k \in Nat : At(text, k).apart}
             b == Len(text) + 2
  <2>1. j \in Good
    BY <1>2
  <2>2. ASSUME NEW k \in j..b, k # b, k \in Good PROVE k + 1 \in Good
    <3>1. k \in 1..Len(text) + 1 /\ k + 1 \in Nat /\ k \in 1..Len(text) + 2
      BY <1>1, <2>2
    <3> QED
      BY <2>2, <3>1, AtIs, AtomIs, ApartStays
  <2> HIDE DEF Good
  <2>3. b \in Nat /\ b \in j..b /\ j \in Nat
    BY <1>1
  <2>4. \A k \in j..b : k \in Good
    <3> HIDE DEF b
    <3> QED
      BY <2>1, <2>2, <2>3, Onward
  <2>5. At(text, b).apart /\ Sound(At(text, b))
    BY <1>1, <2>3, <2>4, AtIs DEF Good
  <2> DEFINE e == Moved(At(text, b), Len(text) + 1)
  <2>6. Sound(e) /\ e.apart
    <3>1. Len(text) + 1 \in Nat
      BY <1>1
    <3> QED
      BY <2>5, <3>1, MovedIs, MetPlainly, ZenonT(40)
  <2>7. Server(text) = Cut(text, e)
    <3>1. b - 1 = Len(text) + 1
      BY <1>1
    <3> QED
      BY <3>1, Zenon DEF Server, At, Moved
  <2> HIDE DEF e
  <2>8. Closed(text, e, Server(text))
    BY <2>6, <2>7, CutIs
  <2> QED
    BY <2>6, <2>8 DEF Closed
<1> QED
  BY <1>2

-----------------------------------------------------------------------------
(* Stretches of a text. *)

LEMMA FirstOfIs ==
  ASSUME NEW text \in Seq(STRING), NEW ks, ks \subseteq 1..Len(text)
  PROVE  /\ FirstOf(text, ks) \in ks \cup {End(text)}
         /\ ks # {} => FirstOf(text, ks) \in ks
         /\ \A l \in ks : FirstOf(text, ks) <= l
<1>1. CASE ks = {}
  BY <1>1 DEF FirstOf
<1>2. CASE ks # {}
  <2>1. ks \subseteq Nat
    OBVIOUS
  <2>2. \E k \in ks : \A l \in ks : k <= l
    BY <1>2, <2>1, LeastIn
  <2> QED
    BY <1>2, <2>2 DEF FirstOf
<1> QED
  BY <1>1, <1>2

LEMMA SubSeqGrows ==
  ASSUME NEW text \in Seq(STRING), NEW p \in 1..Len(text), NEW j \in p..Len(text)
  PROVE  /\ SubSeq(text, p, p) = <<text[p]>>
         /\ Append(SubSeq(text, p, j - 1), text[j]) = SubSeq(text, p, j)
         /\ SubSeq(text, p, p - 1) = <<>>
<1>0. text[p] \in STRING /\ p \in Int /\ p - 1 \in Int /\ p + 1 \in Int /\ p \in p..Len(text)
  OBVIOUS
<1>1. SubSeq(text, p, p) = <<text[p]>> /\ SubSeq(text, p, p - 1) = <<>>
  <2>1. SubSeq(text, p, p - 1) = <<>> /\ SubSeq(text, p + 1, p) = <<>>
    BY <1>0, SubSeqEmpty
  <2>2. SubSeq(text, p, p) = <<text[p]>> \o SubSeq(text, p + 1, p)
    BY <1>0, SubSeqRecursiveFirst
  <2>3. <<text[p]>> \in Seq(STRING)
    BY <1>0
  <2> QED
    BY <2>1, <2>2, <2>3, ConcatEmptySeq
<1>2. Append(SubSeq(text, p, j - 1), text[j]) = SubSeq(text, p, j)
  BY SubSeqRecursiveSecond
<1> QED
  BY <1>1, <1>2

LEMMA Step ==
  ASSUME NEW text, Script(text), NEW k \in 1..Len(text)
  PROVE  /\ Sound(At(text, k)) /\ At(text, k).at = k
         /\ text[k] \in Chars /\ text[k] \in Atoms /\ k + 1 \in Nat
         /\ At(text, k + 1) = Moved(Reads(text, At(text, k), text[k]), k + 1)
<1>1. Len(text) \in Nat
  BY DEF Script
<1>2. k \in 1..Len(text) + 1 /\ k \in 1..Len(text) + 2 /\ k + 1 \in Nat
  BY <1>1
<1>3. Atom(text, k) = text[k] /\ Atom(text, k) \in Chars
  BY <1>2, AtomIs
<1>4. Sound(At(text, k)) /\ At(text, k).at = k /\ At(text, k + 1) = Moved(Reads(text, At(text, k), Atom(text, k)), k + 1)
  BY <1>2, AtIs
<1>5. text[k] \in Chars /\ text[k] \in Atoms
  BY <1>3 DEF Chars
<1> QED
  BY <1>2, <1>3, <1>4, <1>5

\* A line comment is read to the end of the line.
LEMMA LineStretch ==
  ASSUME NEW text, Script(text), NEW at \in 1..Len(text), At(text, at + 1).mode = "line", text[at] # "\n",
         NEW j, j = SkipLine(text, at)
  PROVE  /\ j \in (at + 1)..Len(text) + 1
         /\ Gist(At(text, j)) = Gist(At(text, at + 1))
         /\ \/ j = Len(text) + 1 /\ At(text, j).mode = "line"
            \/ At(text, j).mode = "plain" /\ text[j - 1] = "\n"
<1> DEFINE breaks == {k \in at..Len(text) : text[k] = "\n"}
           e == FirstOf(text, breaks)
           G == Gist(At(text, at + 1))
           Good == {k \in Nat : At(text, k).mode = "line" /\ Gist(At(text, k)) = G}
<1>1. text \in Seq(STRING) /\ Len(text) \in Nat /\ at \in Nat
  BY DEF Script
<1>2. /\ e \in breaks \cup {Len(text) + 1}
      /\ \A l \in breaks : e <= l
  <2>1. breaks \subseteq 1..Len(text)
    BY <1>1
  <2> HIDE DEF breaks
  <2> QED
    BY <1>1, <2>1, FirstOfIs DEF End
<1>4. j = IF e = Len(text) + 1 THEN e ELSE e + 1
  BY DEF SkipLine, End
<1> HIDE DEF e
<1>3. e \in at + 1..Len(text) + 1 /\ (\A k \in at..Len(text) : k < e => text[k] # "\n")
  BY <1>1, <1>2
<1>5. \A k \in at + 1..e : k \in Good
  <2>1. at + 1 \in Good /\ at + 1 \in Nat /\ e \in Nat
    BY <1>1, <1>3
  <2>2. ASSUME NEW k \in at + 1..e, k # e, k \in Good PROVE k + 1 \in Good
    <3>1. k \in at..Len(text) /\ k < e /\ k \in 1..Len(text) /\ k \in 1..Len(text) + 1 /\ k \in 1..Len(text) + 2 /\ k + 1 \in Nat
      BY <1>1, <1>3, <2>2
    <3>2. Atom(text, k) # "\n" /\ Atom(text, k) \in Atoms
      BY <1>3, <3>1, AtomIs DEF Chars
    <3>3. Turned(At(text, k), At(text, k + 1), IF Atom(text, k) = "\n" THEN "plain" ELSE "line",
                 At(text, k).seen, At(text, k).delim, At(text, k).open)
      BY <2>2, <3>1, <3>2, AtIs, LineTurn
    <3> QED
      BY <2>2, <3>1, <3>2, <3>3 DEF Turned
  <2> HIDE DEF Good
  <2> QED
    BY <2>1, <2>2, Onward
<1>6. e \in Good
  BY <1>1, <1>3, <1>5
<1>7. CASE e = Len(text) + 1
  BY <1>3, <1>4, <1>6, <1>7
<1>8. CASE e # Len(text) + 1
  <2>1. e \in breaks /\ e \in 1..Len(text) /\ text[e] = "\n" /\ e \in 1..Len(text) + 1 /\ e \in 1..Len(text) + 2
    BY <1>1, <1>2, <1>8
  <2>2. Atom(text, e) = "\n" /\ Atom(text, e) \in Atoms
    BY <2>1, AtomIs DEF Chars
  <2>3. Turned(At(text, e), At(text, e + 1), IF Atom(text, e) = "\n" THEN "plain" ELSE "line",
               At(text, e).seen, At(text, e).delim, At(text, e).open)
    BY <1>6, <2>1, <2>2, AtIs, LineTurn
  <2>4. At(text, e + 1).mode = "plain" /\ Gist(At(text, e + 1)) = G
    BY <1>6, <2>2, <2>3 DEF Turned
  <2>5. j = e + 1 /\ j - 1 = e /\ j \in at + 1..Len(text) + 1
    BY <1>1, <1>3, <1>4, <1>8, <2>1
  <2> QED
    BY <2>1, <2>4, <2>5
<1> QED
  BY <1>7, <1>8

\* The comment that opens here: what is skipped from a position, with so many open.
LEMMA BlockSkips ==
  ASSUME NEW text \in Seq(STRING), NEW at \in 1..Len(text)
  PROVE  \E f : /\ SkipBlockComment(text, at) = f[<<at, 0>>]
                /\ \A j \in 1..Len(text) + 1, open \in Int :
                     f[<<j, open>>] = IF j = Len(text) + 1 THEN j
                                      ELSE IF text[j] = "/*" THEN f[<<j + 1, open + 1>>]
                                      ELSE IF text[j] # "*/" THEN f[<<j + 1, open>>]
                                      ELSE IF open = 1 THEN j + 1 ELSE f[<<j + 1, open - 1>>]
<1> DEFINE
      N == Len(text)
      D == (1..N + 1) \X Int
      Skips(f, p) == IF p[1] = N + 1 THEN p[1]
                     ELSE IF text[p[1]] = "/*" THEN f[<<p[1] + 1, p[2] + 1>>]
                     ELSE IF text[p[1]] # "*/" THEN f[<<p[1] + 1, p[2]>>]
                     ELSE IF p[2] = 1 THEN p[1] + 1 ELSE f[<<p[1] + 1, p[2] - 1>>]
      Whole(f) == f = [p \in D |-> Skips(f, p)]
      skip == CHOOSE f : Whole(f)
<1>1. SkipBlockComment(text, at) = skip[<<at, 0>>]
  BY DEF SkipBlockComment, End
<1>2. text \in [1..N -> STRING] /\ N \in Nat
  OBVIOUS
<1>3. \E f : Whole(f)
  <2> DEFINE Stop == {p \in D : p[1] = N + 1 \/ (text[p[1]] = "*/" /\ p[2] = 1)}
             val == [p \in D |-> IF p[1] = N + 1 THEN p[1] ELSE p[1] + 1]
             next == [p \in D |-> IF text[p[1]] = "/*" THEN <<p[1] + 1, p[2] + 1>>
                                  ELSE IF text[p[1]] # "*/" THEN <<p[1] + 1, p[2]>> ELSE <<p[1] + 1, p[2] - 1>>]
             op == [p \in D |-> [x \in Nat |-> x]]
             rank == [p \in D |-> N + 1 - p[1]]
  <2>1. val \in [D -> Nat] /\ op \in [D -> [Nat -> Nat]] /\ rank \in [D -> 0..N]
    BY <1>2
  <2>2. ASSUME NEW p \in D, p \notin Stop PROVE next[p] \in D /\ rank[next[p]] < rank[p]
    <3>1. p[1] \in 1..N /\ p[2] \in Int
      BY <2>2
    <3>2. next[p] \in D /\ next[p][1] = p[1] + 1
      BY <3>1
    <3>3. rank[next[p]] = N + 1 - (p[1] + 1) /\ rank[p] = N + 1 - p[1]
      <4> HIDE DEF next
      <4> QED
        BY <3>2
    <3> HIDE DEF next, rank, D
    <3> QED
      BY <1>2, <3>1, <3>2, <3>3
  <2>3. \E f : Recurs(D, Nat, Stop, val, next, op, f)
    <3>1. \A p \in D : p \notin Stop => next[p] \in D /\ rank[next[p]] < rank[p]
      BY <2>2
    <3> HIDE DEF D, Stop, val, next, op, rank
    <3>2. Descends(D, Stop, next, rank, N)
      BY <1>2, <2>1, <3>1 DEF Descends
    <3> HIDE DEF N
    <3> QED
      BY <2>1, <3>2, Descent
  <2>4. PICK f : Recurs(D, Nat, Stop, val, next, op, f)
    BY <2>3
  <2>7. f \in [D -> Nat] /\ \A p \in D : f[p] = IF p \in Stop THEN val[p] ELSE op[p][f[next[p]]]
    <3> HIDE DEF Stop, val, next, op, D
    <3> QED
      BY <2>4 DEF Recurs
  <2>5. ASSUME NEW p \in D PROVE f[p] = Skips(f, p)
    <3>1. CASE p \in Stop
      <4>1. "*/" # "/*"
        OBVIOUS
      <4> QED
        BY <2>7, <3>1, <4>1
    <3>2. CASE p \notin Stop
      <4>1. next[p] \in D
        BY <2>2, <3>2
      <4>2. op[p][f[next[p]]] = f[next[p]]
        <5>1. f[next[p]] \in Nat
          BY <2>7, <4>1
        <5> QED
          BY <5>1
      <4> QED
        BY <2>7, <3>2, <4>2
    <3> QED
      BY <3>1, <3>2
  <2>6. Whole(f)
    <3> HIDE DEF Skips, Stop, val, next, op, D
    <3> QED
      BY <2>5, <2>7
  <2> QED
    BY <2>6
<1>4. Whole(skip)
  <2> HIDE DEF Whole
  <2> QED
    BY <1>3
<1> HIDE DEF skip
<1>5. ASSUME NEW j \in 1..N + 1, NEW open \in Int PROVE skip[<<j, open>>] = Skips(skip, <<j, open>>)
  <2>1. <<j, open>> \in D
    OBVIOUS
  <2> HIDE DEF Skips, D
  <2> QED
    BY <1>4, <2>1
<1> QED
  BY <1>1, <1>5

\* A block comment is read to the end of the outermost one.
LEMMA BlockStretch ==
  ASSUME NEW text, Script(text), NEW at \in 1..Len(text), text[at] = "/*",
         At(text, at + 1).mode = "block", At(text, at + 1).open = 1,
         NEW j, j = SkipBlockComment(text, at)
  PROVE  /\ j \in (at + 1)..Len(text) + 1
         /\ Gist(At(text, j)) = Gist(At(text, at + 1))
         /\ \/ j = Len(text) + 1 /\ At(text, j).mode = "block"
            \/ At(text, j).mode = "plain" /\ text[j - 1] = "*/"
<1> DEFINE N == Len(text)
           G == Gist(At(text, at + 1))
<1>1. text \in Seq(STRING) /\ N \in Nat /\ at \in Nat /\ at + 1 \in Nat
  BY DEF Script
<1>2. PICK f : /\ SkipBlockComment(text, at) = f[<<at, 0>>]
               /\ \A k \in 1..N + 1, open \in Int :
                    f[<<k, open>>] = IF k = N + 1 THEN k
                                     ELSE IF text[k] = "/*" THEN f[<<k + 1, open + 1>>]
                                     ELSE IF text[k] # "*/" THEN f[<<k + 1, open>>]
                                     ELSE IF open = 1 THEN k + 1 ELSE f[<<k + 1, open - 1>>]
  BY <1>1, BlockSkips
<1> DEFINE Open(k) == /\ At(text, k).mode = "block" /\ At(text, k).open \in Nat \ {0}
                      /\ Gist(At(text, k)) = G /\ f[<<k, At(text, k).open>>] = j
           Shut(k) == /\ j \in (at + 1)..k /\ At(text, j).mode = "plain"
                      /\ Gist(At(text, j)) = G /\ text[j - 1] = "*/"
           Good == {k \in Nat : Open(k) \/ Shut(k)}
<1>3. at + 1 \in Good
  <2>1. at \in 1..N + 1 /\ at # N + 1 /\ 0 \in Int
    BY <1>1
  <2>2. f[<<at, 0>>] = f[<<at + 1, 0 + 1>>]
    BY <1>2, <2>1
  <2>3. f[<<at + 1, 1>>] = j
    BY <1>2, <2>2
  <2> QED
    BY <1>1, <2>3
<1>4. ASSUME NEW k \in at + 1..N + 1, k # N + 1, k \in Good PROVE k + 1 \in Good
  <2>1. k \in 1..N /\ k \in 1..N + 1 /\ k + 1 \in Nat
    BY <1>1, <1>4
  <2>2. CASE Shut(k)
    BY <2>1, <2>2
  <2>3. CASE Open(k)
    <3> DEFINE r == At(text, k)
               t == At(text, k + 1)
               c == text[k]
    <3>1. Turned(r, t, IF Opened(r, c) = 0 THEN "plain" ELSE "block", r.seen, r.delim, Opened(r, c))
      BY <2>1, <2>3, Step, BlockTurn
    <3>2. Gist(t) = G /\ t.open = Opened(r, c) /\ t.mode = IF Opened(r, c) = 0 THEN "plain" ELSE "block"
      BY <2>3, <3>1 DEF Turned
    <3>3. f[<<k, r.open>>] = IF c = "/*" THEN f[<<k + 1, r.open + 1>>]
                             ELSE IF c # "*/" THEN f[<<k + 1, r.open>>]
                             ELSE IF r.open = 1 THEN k + 1 ELSE f[<<k + 1, r.open - 1>>]
      BY <1>2, <1>4, <2>1, <2>3, SMTT(40)
    <3>4. "/*" # "*/" /\ r.open \in Nat \ {0} /\ f[<<k, r.open>>] = j
      BY <2>3
    <3> HIDE DEF r, t, c
    <3>5. CASE c = "/*"
      <4>1. t.open = r.open + 1 /\ t.mode = "block" /\ f[<<k + 1, t.open>>] = j
        BY <3>2, <3>3, <3>4, <3>5 DEF Opened
      <4> QED
        BY <2>1, <3>2, <3>4, <4>1 DEF t
    <3>6. CASE c = "*/" /\ r.open = 1
      <4>1. t.mode = "plain" /\ j = k + 1
        BY <3>2, <3>3, <3>4, <3>6 DEF Opened
      <4>2. j \in at + 1..k + 1 /\ j - 1 = k
        BY <1>1, <1>4, <4>1
      <4> QED
        BY <2>1, <3>2, <3>6, <4>1, <4>2 DEF t, c
    <3>7. CASE c = "*/" /\ r.open # 1
      <4>1. t.open = r.open - 1 /\ t.mode = "block" /\ f[<<k + 1, t.open>>] = j
        BY <3>2, <3>3, <3>4, <3>7 DEF Opened
      <4> QED
        BY <2>1, <3>2, <3>4, <3>7, <4>1 DEF t
    <3>8. CASE c \notin {"/*", "*/"}
      <4>1. t.open = r.open /\ t.mode = "block" /\ f[<<k + 1, t.open>>] = j
        BY <3>2, <3>3, <3>4, <3>8 DEF Opened
      <4> QED
        BY <2>1, <3>2, <3>4, <4>1 DEF t
    <3> QED
      BY <3>5, <3>6, <3>7, <3>8
  <2> QED
    BY <1>4, <2>2, <2>3
<1> HIDE DEF Good
<1>5. PICK b \in Nat : b = N + 1 /\ b \in at + 1..b
  BY <1>1
<1>6. b \in Good
  BY <1>1, <1>3, <1>4, <1>5, Onward
<1>7. CASE Shut(b)
  BY <1>5, <1>7
<1>8. CASE Open(b)
  <2>1. b \in 1..N + 1 /\ At(text, b).open \in Int
    BY <1>1, <1>5, <1>8
  <2>2. f[<<b, At(text, b).open>>] = b
    BY <1>2, <1>5, <2>1
  <2> QED
    BY <1>5, <1>8, <2>2
<1> QED
  BY <1>6, <1>7, <1>8 DEF Good

\* The string that opens here: what is skipped from a position.
Skipping(text, q, escapes, f) ==
  \A k \in 1..Len(text) + 2 :
    f[k] = IF k >= Len(text) + 1 THEN Len(text) + 1
           ELSE IF escapes /\ text[k] = "\\" THEN f[k + 2]
           ELSE IF text[k] # q THEN f[k + 1]
           ELSE IF k < Len(text) /\ text[k + 1] = q THEN f[k + 2] ELSE k + 1

LEMMA QuotedSkips ==
  ASSUME NEW text \in Seq(STRING), NEW at \in 1..Len(text), NEW q, NEW escapes
  PROVE  \E f : SkipQuoted(text, at, q, escapes) = f[at + 1] /\ Skipping(text, q, escapes, f)
<1> DEFINE
      N == Len(text)
      D == 1..N + 2
      Skips(f, k) == IF k >= N + 1 THEN N + 1
                     ELSE IF escapes /\ text[k] = "\\" THEN f[k + 2]
                     ELSE IF text[k] # q THEN f[k + 1]
                     ELSE IF k < N /\ text[k + 1] = q THEN f[k + 2] ELSE k + 1
      Whole(f) == f = [k \in D |-> Skips(f, k)]
      skip == CHOOSE f : Whole(f)
<1>0. text \in [1..N -> STRING] /\ N \in Nat /\ (N + 1) + 1 = N + 2
  OBVIOUS
<1>1. SkipQuoted(text, at, q, escapes) = skip[at + 1]
  BY <1>0 DEF SkipQuoted, End
<1>3. \E f : Whole(f)
  <2> DEFINE Stop == {k \in D : k >= N + 1 \/ (text[k] = q /\ ~(escapes /\ text[k] = "\\") /\ ~(k < N /\ text[k + 1] = q))}
             val == [k \in D |-> IF k >= N + 1 THEN N + 1 ELSE k + 1]
             next == [k \in D |-> IF (escapes /\ text[k] = "\\") \/ text[k] = q THEN k + 2 ELSE k + 1]
             op == [k \in D |-> [x \in Nat |-> x]]
             rank == [k \in D |-> N + 2 - k]
  <2>1. val \in [D -> Nat] /\ op \in [D -> [Nat -> Nat]] /\ rank \in [D -> 0..N + 2] /\ N + 2 \in Nat
    BY <1>0
  <2>2. ASSUME NEW k \in D, k \notin Stop PROVE next[k] \in D /\ rank[next[k]] < rank[k]
    <3>1. k \in 1..N
      BY <1>0, <2>2
    <3>2. next[k] \in {k + 1, k + 2}
      OBVIOUS
    <3>3. next[k] \in D /\ next[k] > k
      <4> HIDE DEF next
      <4> QED
        BY <1>0, <3>1, <3>2
    <3>4. rank[next[k]] = N + 2 - next[k] /\ rank[k] = N + 2 - k
      <4> HIDE DEF next
      <4> QED
        BY <3>3
    <3> HIDE DEF next, rank
    <3> QED
      BY <1>0, <3>1, <3>3, <3>4
  <2>3. \E f : Recurs(D, Nat, Stop, val, next, op, f)
    <3>1. \A k \in D : k \notin Stop => next[k] \in D /\ rank[next[k]] < rank[k]
      BY <2>2
    <3> HIDE DEF D, Stop, val, next, op, rank
    <3>2. Descends(D, Stop, next, rank, N + 2)
      BY <2>1, <3>1 DEF Descends
    <3> QED
      BY <2>1, <3>2, Descent
  <2>4. PICK f : Recurs(D, Nat, Stop, val, next, op, f)
    BY <2>3
  <2>5. f \in [D -> Nat] /\ \A k \in D : f[k] = IF k \in Stop THEN val[k] ELSE op[k][f[next[k]]]
    <3> HIDE DEF Stop, val, next, op, D
    <3> QED
      BY <2>4 DEF Recurs
  <2>6. ASSUME NEW k \in D PROVE f[k] = Skips(f, k)
    <3>1. CASE k \in Stop
      BY <2>5, <3>1
    <3>2. CASE k \notin Stop
      <4>1. next[k] \in D
        BY <2>2, <3>2
      <4>2. op[k][f[next[k]]] = f[next[k]]
        <5>1. f[next[k]] \in Nat
          BY <2>5, <4>1
        <5> QED
          BY <5>1
      <4>3. f[k] = f[next[k]]
        BY <2>5, <3>2, <4>2
      <4> QED
        BY <3>2, <4>3
    <3> QED
      BY <3>1, <3>2
  <2>7. Whole(f)
    <3> HIDE DEF Skips, Stop, val, next, op, D
    <3> QED
      BY <2>5, <2>6
  <2> QED
    BY <2>7
<1>4. Whole(skip)
  <2> HIDE DEF Whole
  <2> QED
    BY <1>3
<1> HIDE DEF skip
<1>5. ASSUME NEW k \in 1..N + 2 PROVE skip[k] = Skips(skip, k)
  <2> HIDE DEF Skips
  <2> QED
    BY <1>4
<1>6. Skipping(text, q, escapes, skip)
  BY <1>5 DEF Skipping
<1> QED
  BY <1>1, <1>6

\* A string is read to the quote that ends it.
Shuts(text, q, j) ==
  /\ At(text, j).mode \in {"quote", "quoteE"} /\ At(text, j).delim = <<q>>
  /\ text[j - 1] = q /\ Atom(text, j) # q

LEMMA QuotedStretch ==
  ASSUME NEW text, Script(text), NEW at \in 1..Len(text), NEW q \in Quotes, NEW escapes \in BOOLEAN,
         At(text, at + 1).mode = IF escapes THEN "escapes" ELSE "quoted", At(text, at + 1).delim = <<q>>,
         NEW j, j = SkipQuoted(text, at, q, escapes)
  PROVE  /\ j \in (at + 1)..Len(text) + 1
         /\ Gist(At(text, j)) = Gist(At(text, at + 1))
         /\ \/ j = Len(text) + 1 /\ At(text, j).mode \in {"quoted", "escapes", "escaped"}
            \/ Shuts(text, q, j)
<1> DEFINE N == Len(text)
           G == Gist(At(text, at + 1))
<1>1. text \in Seq(STRING) /\ N \in Nat /\ at \in Nat /\ at + 1 \in Nat
  BY DEF Script
<1>0. q # "\\" /\ q # "\n"
  BY Zenon DEF Quotes
<1>2. PICK f : SkipQuoted(text, at, q, escapes) = f[at + 1] /\ Skipping(text, q, escapes, f)
  BY <1>1, QuotedSkips
<1> DEFINE Same(k) == At(text, k).delim = <<q>> /\ Gist(At(text, k)) = G
           Within(k) == Same(k) /\ At(text, k).mode = (IF escapes THEN "escapes" ELSE "quoted") /\ f[k] = j
           Behind(k) == /\ Same(k) /\ At(text, k).mode = (IF escapes THEN "quoteE" ELSE "quote") /\ text[k - 1] = q
                        /\ j = IF Atom(text, k) = q THEN f[k + 1] ELSE k
           Slashed(k) == Same(k) /\ At(text, k).mode = "escaped" /\ escapes /\ f[k + 1] = j
           Shut(k) == j \in (at + 1)..k /\ Gist(At(text, j)) = G /\ Shuts(text, q, j)
           Good == {k \in Nat : Within(k) \/ Behind(k) \/ Slashed(k) \/ Shut(k)}
<1>3. at + 1 \in Good
  BY <1>1, <1>2
<1>4. ASSUME NEW k \in at + 1..N + 1, k # N + 1, k \in Good PROVE k + 1 \in Good
  <2>1. k \in 1..N /\ k \in 1..N + 2 /\ k + 1 \in Nat /\ k \in Nat /\ k + 1 - 1 = k /\ (k + 1) + 1 = k + 2 /\ k \in at + 1..k + 1
    BY <1>1, <1>4
  <2> DEFINE r == At(text, k)
             t == At(text, k + 1)
             c == text[k]
  <2>2. Sound(r) /\ c \in Atoms /\ t = Moved(Reads(text, r, c), k + 1) /\ Atom(text, k) = c
    <3>1. k \in 1..N + 1
      BY <1>1, <2>1
    <3> QED
      BY <2>1, <3>1, Step, AtomIs
  <2>3. f[k] = IF escapes /\ c = "\\" THEN f[k + 2] ELSE IF c # q THEN f[k + 1]
               ELSE IF Atom(text, k + 1) = q THEN f[k + 2] ELSE k + 1
    <3>1. Atom(text, k + 1) = IF k < N THEN text[k + 1] ELSE "\n"
      <4>1. k + 1 \in 1..N \/ k + 1 = N + 1
        BY <1>1, <2>1
      <4> QED
        BY <1>1, <2>1, <4>1, AtomIs
    <3>2. ~(k >= N + 1) /\ (Atom(text, k + 1) = q <=> k < N /\ text[k + 1] = q)
      BY <1>0, <1>1, <2>1, <3>1
    <3> QED
      BY <1>2, <2>1, <3>2 DEF Skipping
  <2> HIDE DEF r, t, c
  <2>4. CASE Shut(k)
    <3>1. j \in at + 1..k + 1
      BY <1>1, <2>1, <2>4
    <3> QED
      BY <2>1, <2>4, <3>1
  <2>5. CASE Within(k)
    <3>1. Turned(r, t, AfterQuoted(r, c), r.seen, r.delim, r.open)
      BY <2>1, <2>2, <2>5, QuotedTurn DEF r
    <3>2. Same(k + 1) /\ t.mode = AfterQuoted(r, c)
      BY <2>5, <3>1 DEF Turned, r, t
    <3>3. r.mode = (IF escapes THEN "escapes" ELSE "quoted") /\ r.delim = <<q>> /\ f[k] = j /\ (<<c>> = <<q>> <=> c = q)
      BY <2>5 DEF r
    <3>4. CASE escapes /\ c = "\\"
      <4>1. t.mode = "escaped"
        BY <1>0, <3>2, <3>3, <3>4 DEF AfterQuoted
      <4> QED
        BY <2>1, <2>3, <3>2, <3>3, <3>4, <4>1 DEF t
    <3>5. CASE ~(escapes /\ c = "\\") /\ c # q
      <4>1. t.mode = r.mode
        BY <3>2, <3>3, <3>5 DEF AfterQuoted
      <4> QED
        BY <2>1, <2>3, <3>2, <3>3, <3>5, <4>1 DEF t
    <3>6. CASE ~(escapes /\ c = "\\") /\ c = q
      <4>1. t.mode = IF escapes THEN "quoteE" ELSE "quote"
        BY <3>2, <3>3, <3>6 DEF AfterQuoted
      <4>2. j = IF Atom(text, k + 1) = q THEN f[k + 2] ELSE k + 1
        BY <2>3, <3>3, <3>6
      <4>3. Behind(k + 1)
        BY <2>1, <3>2, <3>6, <4>1, <4>2 DEF t, c
      <4> QED
        BY <2>1, <4>3
    <3> QED
      BY <3>4, <3>5, <3>6
  <2>6. CASE Slashed(k)
    <3>1. Turned(r, t, AfterQuoted(r, c), r.seen, r.delim, r.open)
      BY <2>1, <2>2, <2>6, QuotedTurn DEF r
    <3>2. Same(k + 1) /\ t.mode = "escapes"
      BY <2>6, <3>1 DEF Turned, r, t, AfterQuoted
    <3> QED
      BY <2>1, <2>6, <3>2 DEF t
  <2>7. CASE Behind(k) /\ c = q
    <3>0. r.delim = <<q>> /\ <<c>> = <<q>> /\ r.mode = IF escapes THEN "quoteE" ELSE "quote"
      BY <2>7 DEF r
    <3>1. Turned(r, t, AfterQuoted(r, c), r.seen, r.delim, r.open)
      BY <2>1, <2>2, <3>0, QuotedTurn
    <3>2. t.mode = IF escapes THEN "escapes" ELSE "quoted"
      BY <3>0, <3>1 DEF Turned, AfterQuoted
    <3>3. Same(k + 1)
      BY <2>7, <3>1 DEF Turned, r, t
    <3> QED
      BY <2>1, <2>2, <2>7, <3>2, <3>3 DEF t
  <2>8. CASE Behind(k) /\ c # q
    <3>1. j = k
      BY <2>2, <2>8
    <3>2. Shuts(text, q, k) /\ Gist(At(text, k)) = G
      BY <2>2, <2>8 DEF Shuts
    <3> QED
      BY <2>1, <3>1, <3>2
  <2> QED
    BY <1>4, <2>4, <2>5, <2>6, <2>7, <2>8
<1> HIDE DEF Good
<1>5. PICK b \in Nat : b = N + 1 /\ b \in at + 1..b
  BY <1>1
<1>6. b \in Good
  <2>1. \A k \in at + 1..b : k # b /\ k \in Good => k + 1 \in Good
    BY <1>4, <1>5
  <2> QED
    BY <1>1, <1>3, <1>5, <2>1, Onward
<1>7. CASE Shut(b)
  BY <1>5, <1>7
<1>8. CASE Within(b) \/ Slashed(b)
  <2>1. b \in 1..N + 2 /\ b + 1 \in 1..N + 2 /\ b >= N + 1 /\ b + 1 >= N + 1
    BY <1>1, <1>5
  <2>2. f[b] = b /\ f[b + 1] = b
    BY <1>2, <1>5, <2>1 DEF Skipping
  <2> QED
    BY <1>5, <1>8, <2>2
<1>9. CASE Behind(b)
  <2>1. Atom(text, b) = "\n"
    BY <1>5, AtomIs
  <2>2. j = b
    BY <1>0, <1>9, <2>1
  <2> QED
    BY <1>0, <1>5, <1>9, <2>1, <2>2 DEF Shuts
<1> QED
  BY <1>6, <1>7, <1>8, <1>9 DEF Good

LEMMA SliceIs ==
  ASSUME NEW S, NEW s \in Seq(S), NEW p \in 1..Len(s) + 1, NEW e \in (p - 1)..Len(s)
  PROVE  /\ SubSeq(s, p, e) \in Seq(S)
         /\ Len(SubSeq(s, p, e)) = e - p + 1
         /\ \A m \in 1..e - p + 1 : SubSeq(s, p, e)[m] = s[p + m - 1]
<1>1. Len(s) \in Nat /\ p \in Int /\ e \in Int /\ \A m \in p..e : s[m] \in S
  OBVIOUS
<1>2. /\ SubSeq(s, p, e) \in Seq(S)
      /\ Len(SubSeq(s, p, e)) = IF p <= e THEN e - p + 1 ELSE 0
      /\ \A m \in 1..e - p + 1 : SubSeq(s, p, e)[m] = s[p + m - 1]
  BY <1>1, SubSeqProperties
<1>3. (IF p <= e THEN e - p + 1 ELSE 0) = e - p + 1
  BY <1>1
<1> QED
  BY <1>2, <1>3

\* Sequences of one length that agree everywhere are one.
LEMMA SameSeq ==
  ASSUME NEW S, NEW s \in Seq(S), NEW t \in Seq(S), Len(s) = Len(t), \A m \in 1..Len(s) : s[m] = t[m]
  PROVE  s = t
OBVIOUS

LEMMA SuffixIs ==
  ASSUME NEW S, NEW s \in Seq(S), NEW t \in Seq(S)
  PROVE  IsSuffix(s, t) <=> Len(s) <= Len(t) /\ \A m \in 1..Len(s) : s[m] = t[Len(t) - Len(s) + m]
<1> DEFINE a == Reverse(s)
           b == Reverse(t)
           L == Len(s)
           T == Len(t)
<1>1. L \in Nat /\ T \in Nat
  OBVIOUS
<1>2. a \in Seq(S) /\ Len(a) = L /\ \A m \in 1..L : a[m] = s[L - m + 1]
  BY <1>1 DEF Reverse
<1>3. b \in Seq(S) /\ Len(b) = T /\ \A m \in 1..T : b[m] = t[T - m + 1]
  BY <1>1 DEF Reverse
<1>4. IsSuffix(s, t) <=> L <= T /\ SubSeq(a, 1, L) = SubSeq(b, 1, L)
  <2> HIDE DEF a, b
  <2>1. Len(a) = L /\ Len(b) = T
    BY <1>2, <1>3
  <2> QED
    BY <2>1 DEF IsSuffix, IsPrefix, a, b
<1> HIDE DEF a, b
<1>5. SUFFICES ASSUME L <= T
               PROVE  SubSeq(a, 1, L) = SubSeq(b, 1, L) <=> \A m \in 1..L : s[m] = t[T - L + m]
  BY <1>4
<1>6. SubSeq(a, 1, L) \in Seq(S) /\ Len(SubSeq(a, 1, L)) = L /\ \A m \in 1..L : SubSeq(a, 1, L)[m] = a[m]
  <2>1. 1 \in 1..Len(a) + 1 /\ L \in (1 - 1)..Len(a) /\ L - 1 + 1 = L /\ \A m \in 1..L : 1 + m - 1 = m
    BY <1>1, <1>2
  <2> QED
    BY <1>2, <2>1, SliceIs
<1>7. SubSeq(b, 1, L) \in Seq(S) /\ Len(SubSeq(b, 1, L)) = L /\ \A m \in 1..L : SubSeq(b, 1, L)[m] = b[m]
  <2>1. 1 \in 1..Len(b) + 1 /\ L \in (1 - 1)..Len(b) /\ L - 1 + 1 = L /\ \A m \in 1..L : 1 + m - 1 = m
    BY <1>1, <1>3, <1>5
  <2> QED
    BY <1>3, <2>1, SliceIs
<1>8. ASSUME SubSeq(a, 1, L) = SubSeq(b, 1, L), NEW m \in 1..L PROVE s[m] = t[T - L + m]
  <2>1. L - m + 1 \in 1..L /\ L - m + 1 \in 1..T /\ L - (L - m + 1) + 1 = m /\ T - (L - m + 1) + 1 = T - L + m
    BY <1>1, <1>5
  <2>2. a[L - m + 1] = b[L - m + 1]
    BY <1>6, <1>7, <1>8, <2>1
  <2>3. a[L - m + 1] = s[m] /\ b[L - m + 1] = t[T - L + m]
    BY <1>2, <1>3, <2>1
  <2> QED
    BY <2>2, <2>3
<1>9. ASSUME \A m \in 1..L : s[m] = t[T - L + m] PROVE SubSeq(a, 1, L) = SubSeq(b, 1, L)
  <2>1. ASSUME NEW m \in 1..L PROVE a[m] = b[m]
    <3>1. L - m + 1 \in 1..L /\ m \in 1..T /\ T - L + (L - m + 1) = T - m + 1
      BY <1>1, <1>5
    <3>2. s[L - m + 1] = t[T - m + 1]
      BY <1>9, <3>1
    <3> QED
      BY <1>2, <1>3, <3>1, <3>2
  <2> QED
    BY <1>6, <1>7, <2>1, SameSeq
<1> QED
  BY <1>8, <1>9

\* A slice ends in a word where that word stands before its end.
LEMMA SuffixOfSlice ==
  ASSUME NEW S, NEW text \in Seq(S), NEW tag \in Seq(S), tag # <<>>, NEW p \in 1..Len(text), NEW k \in p..Len(text)
  PROVE  IsSuffix(tag, SubSeq(text, p, k)) <=>
           p <= k - Len(tag) + 1 /\ SubSeq(text, k - Len(tag) + 1, k) = tag
<1> DEFINE L == Len(tag)
           t == SubSeq(text, p, k)
           b == k - L + 1
<1>1. L \in Nat \ {0} /\ Len(text) \in Nat /\ p \in Nat /\ k \in Nat /\ b \in Int
  OBVIOUS
<1>2. t \in Seq(S) /\ Len(t) = k - p + 1 /\ \A m \in 1..k - p + 1 : t[m] = text[p + m - 1]
  <2>1. p \in 1..Len(text) + 1 /\ k \in (p - 1)..Len(text)
    BY <1>1
  <2> QED
    BY <2>1, SliceIs
<1> HIDE DEF t
<1>3. IsSuffix(tag, t) <=> L <= k - p + 1 /\ \A m \in 1..L : tag[m] = t[k - p + 1 - L + m]
  <2>1. IsSuffix(tag, t) <=> L <= Len(t) /\ \A m \in 1..L : tag[m] = t[Len(t) - L + m]
    BY <1>2, SuffixIs
  <2> QED
    BY <1>2, <2>1
<1>4. SUFFICES ASSUME L <= k - p + 1
               PROVE  (\A m \in 1..L : tag[m] = t[k - p + 1 - L + m]) <=> SubSeq(text, b, k) = tag
  <2>1. L <= k - p + 1 <=> p <= b
    BY <1>1
  <2> QED
    BY <1>3, <2>1 DEF t
<1>5. SubSeq(text, b, k) \in Seq(S) /\ Len(SubSeq(text, b, k)) = L /\ \A m \in 1..L : SubSeq(text, b, k)[m] = text[k - L + m]
  <2>1. b \in 1..Len(text) + 1 /\ k \in (b - 1)..Len(text) /\ k - b + 1 = L /\ \A m \in 1..L : b + m - 1 = k - L + m
    BY <1>1, <1>4
  <2> HIDE DEF b
  <2> QED
    BY <2>1, SliceIs
<1>6. \A m \in 1..L : t[k - p + 1 - L + m] = text[k - L + m]
  <2>1. ASSUME NEW m \in 1..L PROVE t[k - p + 1 - L + m] = text[k - L + m]
    <3>1. k - p + 1 - L + m \in 1..k - p + 1 /\ p + (k - p + 1 - L + m) - 1 = k - L + m
      BY <1>1, <1>4
    <3> QED
      BY <1>2, <3>1
  <2> QED
    BY <2>1
<1>7. ASSUME \A m \in 1..L : tag[m] = t[k - p + 1 - L + m] PROVE SubSeq(text, b, k) = tag
  <2>1. \A m \in 1..L : SubSeq(text, b, k)[m] = tag[m]
    BY <1>5, <1>6, <1>7
  <2> HIDE DEF b
  <2> QED
    BY <1>5, <2>1, SameSeq
<1>8. ASSUME SubSeq(text, b, k) = tag PROVE \A m \in 1..L : tag[m] = t[k - p + 1 - L + m]
  BY <1>5, <1>6, <1>8
<1> QED
  BY <1>7, <1>8

\* A $ that opens no string: before the next one something else than letters stands.
Tagless(text, at) ==
  \A k \in at + 1..Len(text) : text[k] = "$" => \E l \in at + 1..k - 1 : ~Letter(text[l])

\* The letters of a tag are read, ...
LEMMA TagStretch ==
  ASSUME NEW text, Script(text), NEW at \in 1..Len(text), text[at] = "$",
         At(text, at + 1).mode = "tag", At(text, at + 1).seen = <<"$">>,
         NEW e \in at + 1..Len(text) + 1, \A k \in at + 1..e - 1 : Letter(text[k])
  PROVE  /\ At(text, e).mode = "tag" /\ At(text, e).seen = SubSeq(text, at, e - 1)
         /\ Gist(At(text, e)) = Gist(At(text, at + 1))
<1> DEFINE N == Len(text)
           G == Gist(At(text, at + 1))
           Good == {k \in Nat : /\ At(text, k).mode = "tag" /\ At(text, k).seen = SubSeq(text, at, k - 1)
                                /\ Gist(At(text, k)) = G}
<1>1. text \in Seq(STRING) /\ N \in Nat /\ at \in Nat /\ at + 1 \in Nat /\ (at + 1) - 1 = at /\ e \in Nat
  BY DEF Script
<1>2. at + 1 \in Good
  <2>1. SubSeq(text, at, at) = <<text[at]>>
    <3>1. at \in at..Len(text)
      BY <1>1
    <3> QED
      BY <1>1, <3>1, SubSeqGrows
  <2> QED
    BY <1>1, <2>1
<1>3. ASSUME NEW k \in at + 1..e, k # e, k \in Good PROVE k + 1 \in Good
  <2>1. k \in 1..N /\ k \in at..N /\ k + 1 \in Nat /\ (k + 1) - 1 = k /\ k \in at + 1..e - 1
    <3>1. k # e
      BY <1>3
    <3> HIDE DEF Good
    <3> QED
      BY <1>1, <3>1
  <2>2. Turned(At(text, k), At(text, k + 1), At(text, k).mode, Append(At(text, k).seen, text[k]), At(text, k).delim, At(text, k).open)
    BY <1>3, <2>1, Step, WordTurn
  <2>3. Append(SubSeq(text, at, k - 1), text[k]) = SubSeq(text, at, k)
    BY <1>1, <2>1, SubSeqGrows
  <2> QED
    BY <1>3, <2>1, <2>2, <2>3 DEF Turned
<1> HIDE DEF Good
<1>4. \A k \in at + 1..e : k \in Good
  BY <1>1, <1>2, <1>3, Onward
<1>5. e \in Good
  BY <1>1, <1>4
<1> QED
  BY <1>5 DEF Good

LEMMA Short == \A a, b, c \in Nat : a <= b + c - 1 /\ b # a - c + 1 => a + 1 <= b + c - 1
OBVIOUS

LEMMA Later == \A n \in Nat : n + 1 \in Nat /\ \A a \in Nat : \A b \in a + 1..n : b \in 1..n
  OBVIOUS

LEMMA Filled == \A s : Len(s) > 0 => s # <<>>
  OBVIOUS

\* ... then the string, to where the tag stands again, ...
StandsAt(text, tag, m) == SubSeq(text, m, m + Len(tag) - 1) = tag

StandsNext(text, close, tag, again) ==
  /\ again # Len(text) + 1 => close < again /\ again <= Len(text) + 1 - Len(tag) /\ StandsAt(text, tag, again)
  /\ \A m \in close + 1..Len(text) + 1 - Len(tag) : StandsAt(text, tag, m) => again <= m

\* In the string that the tag opened, this much of it read.
InDollar(r, seen, tag) == r.mode = "dollar" /\ r.seen = seen /\ r.delim = tag
Tagged(tag) == tag \in Seq(STRING) /\ Len(tag) >= 2 /\ tag[Len(tag)] = "$"

LEMMA TagAgain ==
  ASSUME NEW text, Script(text), NEW close \in 1..Len(text), NEW tag, Tagged(tag),
         InDollar(At(text, close + 1), <<>>, tag),
         NEW again \in 1..Len(text) + 1, StandsNext(text, close, tag, again),
         NEW j \in Nat, j = IF again = Len(text) + 1 THEN again ELSE again + Len(tag)
  PROVE  /\ j \in (close + 1)..Len(text) + 1
         /\ Gist(At(text, j)) = Gist(At(text, close + 1))
         /\ \/ j = Len(text) + 1 /\ At(text, j).mode = "dollar"
            \/ At(text, j).mode = "plain" /\ text[j - 1] = "$"
<1>0. PICK L \in Nat : L = Len(tag) /\ L >= 2
  BY DEF Tagged
<1> DEFINE
      N == Len(text)
      G == Gist(At(text, close + 1))
      Before(k) == again = N + 1 \/ k <= again + L - 1
      Within(k) == InDollar(At(text, k), SubSeq(text, close + 1, k - 1), tag) /\ Gist(At(text, k)) = G
      Shut(k) == /\ again # N + 1 /\ j \in (close + 1)..k
                 /\ At(text, j).mode = "plain" /\ Gist(At(text, j)) = G /\ text[j - 1] = "$"
      Good == {k \in Nat : (Within(k) /\ Before(k)) \/ Shut(k)}
<1>1. text \in Seq(STRING) /\ N \in Nat /\ close \in Nat /\ close + 1 \in Nat /\ again \in Nat
  BY DEF Script
<1>2. close + 1 \in Good
  <2>1. SubSeq(text, close + 1, (close + 1) - 1) = <<>>
    <3>1. (close + 1) - 1 < close + 1 /\ close + 1 \in Int /\ (close + 1) - 1 \in Int
      BY <1>1
    <3> QED
      BY <3>1, SubSeqEmpty
  <2>2. Before(close + 1)
    BY <1>0, <1>1 DEF StandsNext
  <2> QED
    BY <1>1, <2>1, <2>2
<1>3. ASSUME NEW k \in close + 1..N + 1, k # N + 1, k \in Good PROVE k + 1 \in Good
  <2>1. k \in 1..N /\ k + 1 \in Nat /\ (k + 1) - 1 = k /\ k \in close + 1..N /\ close + 1 \in 1..N /\ k \in Nat /\ k \in close + 1..k + 1
    BY <1>1, <1>3
  <2>2. CASE Shut(k)
    <3>1. j \in close + 1..k + 1
      BY <1>1, <2>1, <2>2
    <3> QED
      BY <2>1, <2>2, <3>1
  <2>3. CASE Within(k) /\ Before(k)
    <3> DEFINE r == At(text, k)
               t == At(text, k + 1)
               c == text[k]
               seen == SubSeq(text, close + 1, k)
    <3>1. Append(r.seen, c) = seen
      BY <1>1, <2>1, <2>3, SubSeqGrows DEF InDollar
    <3>2. Sound(r) /\ c \in Atoms /\ t = Moved(Reads(text, r, c), k + 1) /\ r.mode = "dollar" /\ r.delim = tag /\ Gist(r) = G
      BY <2>1, <2>3, Step DEF InDollar
    <3>7. PICK m \in Int : m = k - L + 1 /\ m + L - 1 = k
      <4>1. k - L + 1 \in Int /\ (k - L + 1) + L - 1 = k
        BY <1>0, <2>1
      <4> QED
        BY <4>1
    <3>3. IsSuffix(tag, seen) <=> close + 1 <= m /\ StandsAt(text, tag, m)
      <4>1. tag \in Seq(STRING) /\ tag # <<>> /\ close + 1 \in 1..Len(text) /\ k \in close + 1..Len(text)
        BY <1>1, <2>1 DEF Tagged
      <4>2. IsSuffix(tag, seen) <=> close + 1 <= k - Len(tag) + 1 /\ SubSeq(text, k - Len(tag) + 1, k) = tag
        BY <1>1, <4>1, SuffixOfSlice
      <4> HIDE DEF seen
      <4> QED
        BY <1>0, <3>7, <4>2 DEF StandsAt
    <3>4. Before(k)
      BY <2>3
    <3> HIDE DEF r, t, c, seen
    <3>5. Turned(r, t, IF IsSuffix(tag, seen) THEN "plain" ELSE "dollar", seen, tag, r.open)
      BY <2>1, <3>1, <3>2, DollarTurn
    <3>6. t.seen = seen /\ t.delim = tag /\ Gist(t) = G /\ t.mode = IF IsSuffix(tag, seen) THEN "plain" ELSE "dollar"
      BY <3>2, <3>5 DEF Turned
    <3>8. CASE IsSuffix(tag, seen)
      <4>1. m \in close + 1..N + 1 - L /\ StandsAt(text, tag, m)
        BY <1>0, <1>1, <2>1, <3>3, <3>7, <3>8
      <4>2. again <= m
        BY <1>0, <4>1 DEF StandsNext
      <4>3. again = m /\ again # N + 1
        BY <1>0, <1>1, <2>1, <3>4, <3>7, <4>2
      <4>4. j = k + 1
        BY <1>0, <3>7, <4>3
      <4>5. c = "$"
        <5>1. m \in 1..N + 1 /\ k \in (m - 1)..N /\ k - m + 1 = L /\ L \in 1..L
          BY <1>0, <1>1, <2>1, <3>7, <4>1
        <5>2. \A l \in 1..k - m + 1 : SubSeq(text, m, k)[l] = text[m + l - 1]
          BY <1>1, <5>1, SliceIs
        <5>3. SubSeq(text, m, k)[L] = text[k] /\ SubSeq(text, m, k) = tag
          BY <1>0, <3>7, <4>1, <5>1, <5>2 DEF StandsAt
        <5> QED
          BY <1>0, <5>3 DEF c, Tagged
      <4>6. Shut(k + 1)
        BY <1>1, <2>1, <3>6, <3>8, <4>3, <4>4, <4>5 DEF t, c
      <4> QED
        BY <2>1, <4>6
    <3>9. CASE ~IsSuffix(tag, seen)
      <4>1. Before(k + 1)
        <5>1. CASE again = N + 1
          BY <5>1
        <5>2. CASE again # N + 1
          <6>1. again # m
            BY <1>1, <3>3, <3>9, <5>2 DEF StandsNext
          <6>2. k <= again + L - 1
            BY <3>4, <5>2
          <6>3. again # k - L + 1
            BY <3>7, <6>1
          <6>4. k + 1 <= again + L - 1
            BY <1>0, <1>1, <2>1, <6>2, <6>3, Short
          <6> QED
            BY <6>4
        <5> QED
          BY <5>1, <5>2
      <4>2. Within(k + 1)
        BY <2>1, <3>6, <3>9 DEF t, seen, InDollar
      <4> QED
        BY <2>1, <4>1, <4>2
    <3> QED
      BY <3>8, <3>9
  <2> QED
    BY <1>3, <2>2, <2>3
<1> HIDE DEF Good
<1>4. PICK b \in Nat : b = N + 1 /\ b \in close + 1..b
  BY <1>1
<1>5. b \in Good
  <2>1. \A k \in close + 1..b : k # b /\ k \in Good => k + 1 \in Good
    BY <1>3, <1>4
  <2> QED
    BY <1>1, <1>2, <1>4, <2>1, Onward
<1>6. CASE Shut(b)
  BY <1>4, <1>6
<1>7. CASE Within(b) /\ Before(b)
  <2>1. again = N + 1
    BY <1>0, <1>1, <1>4, <1>7 DEF StandsNext
  <2>2. j = b
    BY <1>4, <2>1
  <2> QED
    BY <1>4, <1>7, <2>2 DEF InDollar
<1> QED
  BY <1>5, <1>6, <1>7 DEF Good

\* ... unless the $ opens none.
LEMMA DollarStretch ==
  ASSUME NEW text, Script(text), NEW at \in 1..Len(text), text[at] = "$",
         At(text, at + 1).mode = "tag", At(text, at + 1).seen = <<"$">>,
         NEW j, j = SkipDollarQuoted(text, at)
  PROVE  \/ j = at + 1 /\ Tagless(text, at)
         \/ /\ j \in (at + 1)..Len(text) + 1
            /\ Gist(At(text, j)) = Gist(At(text, at + 1))
            /\ \/ j = Len(text) + 1 /\ At(text, j).mode = "dollar"
               \/ At(text, j).mode = "plain" /\ text[j - 1] = "$"
<1> DEFINE N == Len(text)
           G == Gist(At(text, at + 1))
           ends == {k \in (at + 1)..Len(text) : ~IsIdentByte(text[k])}
           close == FirstOf(text, ends)
           tag == SubSeq(text, at, close)
           L == Len(tag)
           matches == {k \in (close + 1)..(End(text) - L) : SubSeq(text, k, k + L - 1) = tag}
           again == FirstOf(text, matches)
<1>1. text \in Seq(STRING) /\ N \in Nat /\ at \in Nat
  BY DEF Script
<1>2. j = IF close = End(text) \/ text[close] # "$" THEN at + 1 ELSE IF again = End(text) THEN again ELSE again + L
  BY Zenon DEF SkipDollarQuoted
<1>3. /\ close \in at + 1..N + 1
      /\ \A k \in at + 1..close - 1 : Letter(text[k])
  <2>1. ends \subseteq 1..N
    BY <1>1
  <2>2. close \in ends \cup {N + 1} /\ \A l \in ends : close <= l
    <3> HIDE DEF ends
    <3> QED
      BY <1>1, <2>1, FirstOfIs DEF End
  <2>3. \A k \in at + 1..N : ~Letter(text[k]) => close <= k
    BY <2>2 DEF IsIdentByte
  <2>4. close \in at + 1..N + 1
    BY <1>1, <2>2
  <2> HIDE DEF close, ends
  <2> QED
    BY <1>1, <2>3, <2>4
<1> HIDE DEF close
<1>4. CASE close = N + 1 \/ text[close] # "$"
  <2>1. j = at + 1
    BY <1>2, <1>4 DEF End
  <2>2. ASSUME NEW k \in at + 1..N, text[k] = "$" PROVE \E l \in at + 1..k - 1 : ~Letter(text[l])
    <3>1. ~Letter("$")
      BY Zenon DEF Letter, Signs
    <3>2. ~(k \in at + 1..close - 1)
      BY <1>3, <2>2, <3>1
    <3>3. close <= k
      BY <1>1, <1>3, <3>2
    <3>4. close # N + 1 /\ text[close] # "$" /\ close # k
      BY <1>1, <1>3, <1>4, <2>2, <3>3
    <3>5. close \in at + 1..k - 1 /\ close \in at + 1..N
      BY <1>1, <1>3, <3>3, <3>4
    <3>6. ~Letter(text[close])
      <4>1. close \in ends
        <5>1. ends \subseteq 1..N
          BY <1>1
        <5>2. close \in ends \cup {End(text)}
          <6> HIDE DEF ends
          <6> QED
            BY <1>1, <5>1, FirstOfIs DEF close
        <5> HIDE DEF ends
        <5> QED
          BY <3>4, <5>2 DEF End
      <4> QED
        BY <4>1 DEF IsIdentByte
    <3> QED
      BY <3>5, <3>6
  <2> QED
    BY <2>1, <2>2 DEF Tagless
<1>5. CASE close # N + 1 /\ text[close] = "$"
  <2>1. close \in 1..N /\ close \in at..N /\ at \in 1..N + 1 /\ close \in (at - 1)..N /\ close + 1 \in Nat /\ close + 1 > at + 1
    BY <1>1, <1>3, <1>5
  <2>2. tag \in Seq(STRING) /\ L = close - at + 1 /\ \A m \in 1..close - at + 1 : tag[m] = text[at + m - 1]
    BY <1>1, <2>1, SliceIs
  <2>3. PICK l \in Nat : l = L /\ l >= 2 /\ at + l - 1 = close /\ l \in 1..close - at + 1
    <3> HIDE DEF tag
    <3> QED
      BY <1>1, <1>3, <2>1, <2>2
  <2> HIDE DEF tag
  <2>4. tag[l] = "$" /\ tag \in Seq(STRING) /\ l = Len(tag)
    BY <1>5, <2>2, <2>3
  <2>5. /\ matches \subseteq 1..N
        /\ again \in matches \cup {N + 1} /\ \A m \in matches : again <= m
    <3>1. \A k \in (close + 1)..(End(text) - L) : k \in 1..N
      BY <1>1, <2>1, <2>3 DEF End
    <3>2. matches \subseteq (close + 1)..(End(text) - L)
      OBVIOUS
    <3>3. matches \subseteq 1..N
      <4> HIDE DEF matches
      <4> QED
        BY <3>1, <3>2
    <3> HIDE DEF matches
    <3> QED
      BY <1>1, <3>3, FirstOfIs DEF End
  <2>6. again \in 1..N + 1
    <3> HIDE DEF matches, again
    <3> QED
      BY <1>1, <2>5
  <2> HIDE DEF again
  <2>7. \A m \in Int : m \in matches <=> m \in close + 1..N + 1 - l /\ StandsAt(text, tag, m)
    BY <2>3 DEF End, StandsAt
  <2>8. StandsNext(text, close, tag, again)
    <3> HIDE DEF matches
    <3>1. again # N + 1 => close < again /\ again <= N + 1 - l /\ StandsAt(text, tag, again)
      BY <1>1, <2>1, <2>3, <2>5, <2>6, <2>7
    <3>2. \A m \in close + 1..N + 1 - l : StandsAt(text, tag, m) => again <= m
      BY <2>5, <2>7
    <3> QED
      BY <2>3, <3>1, <3>2 DEF StandsNext
  <2>9. j = IF again = N + 1 THEN again ELSE again + l
    BY <1>2, <1>5, <2>3 DEF End
  <2> HIDE DEF matches
  <2>10. At(text, close).mode = "tag" /\ At(text, close).seen = SubSeq(text, at, close - 1) /\ Gist(At(text, close)) = G
    BY <1>3, TagStretch
  <2>11. Append(SubSeq(text, at, close - 1), text[close]) = tag
    BY <1>1, <2>1, SubSeqGrows DEF tag
  <2>12. /\ At(text, close + 1).mode = "dollar" /\ At(text, close + 1).seen = <<>>
         /\ At(text, close + 1).delim = tag /\ Gist(At(text, close + 1)) = G
    <3> DEFINE r == At(text, close)
               t == At(text, close + 1)
               c == text[close]
    <3>1. /\ Sound(r) /\ c \in Atoms /\ t = Moved(Reads(text, r, c), close + 1) /\ r.mode = "tag" /\ c = "$"
          /\ Append(r.seen, c) = tag /\ Gist(r) = G
      BY <1>5, <2>1, <2>10, <2>11, Step
    <3> HIDE DEF r, t, c
    <3>2. Turned(r, t, "dollar", <<>>, tag, r.open)
      BY <2>1, <3>1, TagTurn
    <3> QED
      BY <3>1, <3>2 DEF Turned, t
  <2>13. /\ j \in (close + 1)..N + 1
         /\ Gist(At(text, j)) = Gist(At(text, close + 1))
         /\ \/ j = N + 1 /\ At(text, j).mode = "dollar"
            \/ At(text, j).mode = "plain" /\ text[j - 1] = "$"
    <3>1. Tagged(tag) /\ InDollar(At(text, close + 1), <<>>, tag) /\ j = IF again = Len(text) + 1 THEN again ELSE again + Len(tag)
      BY <2>3, <2>4, <2>9, <2>12 DEF Tagged, InDollar
    <3>2. j \in Nat
      BY <1>1, <2>3, <2>6, <2>9
    <3> QED
      BY <2>1, <2>6, <2>8, <3>1, <3>2, TagAgain
  <2> QED
    BY <1>1, <2>1, <2>12, <2>13
<1> QED
  BY <1>4, <1>5

LEMMA WordEndIs ==
  ASSUME NEW text, Script(text), NEW at \in 1..Len(text), Letter(text[at]), NEW e, e = WordEnd(text, at)
  PROVE  /\ e \in at + 1..Len(text) + 1
         /\ \A k \in at..e - 1 : InWord(text[k])
         /\ ~InWord(Atom(text, e))
<1> DEFINE N == Len(text)
           ends == {k \in at..Len(text) : ~InWord(text[k])}
<1>1. text \in Seq(STRING) /\ N \in Nat /\ at \in Nat
  BY DEF Script
<1>2. e = FirstOf(text, ends)
  BY DEF WordEnd
<1>3. ends \subseteq 1..N
  <2>1. \A k \in at..Len(text) : k \in 1..N
    BY <1>1
  <2> QED
    BY <2>1
<1>4. \A k \in at..N : k \in ends <=> ~InWord(text[k])
  OBVIOUS
<1>5. \A k \in ends : k \in at..N
  OBVIOUS
<1> HIDE DEF ends
<1>6. e \in ends \cup {N + 1} /\ \A l \in ends : e <= l
  <2>1. FirstOf(text, ends) \in ends \cup {End(text)} /\ \A l \in ends : FirstOf(text, ends) <= l
    BY <1>1, <1>3, FirstOfIs
  <2> QED
    BY <1>2, <2>1 DEF End
<1>7. at \notin ends
  BY <1>1, <1>4 DEF InWord, IsIdentByte
<1>8. e \in at + 1..N + 1
  <2>1. CASE e \in ends
    <3>1. e \in at..N /\ e # at
      BY <1>5, <1>7, <2>1
    <3> QED
      BY <1>1, <3>1
  <2>2. CASE e = N + 1
    BY <1>1, <2>2
  <2> QED
    BY <1>6, <2>1, <2>2
<1>9. ASSUME NEW k \in at..e - 1 PROVE InWord(text[k])
  <2>1. k \in at..N /\ ~(e <= k)
    BY <1>1, <1>8
  <2> QED
    BY <1>4, <1>6, <2>1
<1>10. ~InWord(Atom(text, e))
  <2>1. CASE e \in ends
    <3>1. e \in 1..N /\ e \in at..N
      BY <1>3, <1>5, <2>1
    <3> QED
      BY <1>4, <2>1, <3>1, AtomIs
  <2>2. CASE e = N + 1
    <3>1. Atom(text, e) = "\n"
      BY <2>2, AtomIs
    <3>2. ~Letter("\n") /\ "\n" # "$"
      BY Zenon DEF Letter, Blank
    <3> QED
      BY <3>1, <3>2 DEF InWord, IsIdentByte
  <2> QED
    BY <1>6, <2>1, <2>2
<1> QED
  BY <1>8, <1>9, <1>10

\* A word is read to its end, ...
LEMMA WordStretch ==
  ASSUME NEW text, Script(text), NEW at \in 1..Len(text), Letter(text[at]), NEW e, e = WordEnd(text, at),
         At(text, at + 1).mode = "word", At(text, at + 1).seen = <<text[at]>>
  PROVE  /\ At(text, e).mode = "word" /\ At(text, e).seen = SubSeq(text, at, e - 1)
         /\ Gist(At(text, e)) = Gist(At(text, at + 1))
<1> DEFINE N == Len(text)
           G == Gist(At(text, at + 1))
           Good == {k \in Nat : /\ At(text, k).mode = "word" /\ At(text, k).seen = SubSeq(text, at, k - 1)
                                /\ Gist(At(text, k)) = G}
<1>1. text \in Seq(STRING) /\ N \in Nat /\ at \in Nat /\ at + 1 \in Nat /\ (at + 1) - 1 = at
  BY DEF Script
<1>0. e \in at + 1..N + 1 /\ e \in Nat /\ \A k \in at..e - 1 : InWord(text[k])
  <2>1. e \in at + 1..N + 1 /\ \A k \in at..e - 1 : InWord(text[k])
    BY WordEndIs
  <2> QED
    BY <1>1, <2>1
<1>2. at + 1 \in Good
  <2>1. SubSeq(text, at, at) = <<text[at]>>
    <3>1. at \in at..Len(text)
      BY <1>1
    <3> QED
      BY <1>1, <3>1, SubSeqGrows
  <2> QED
    BY <1>1, <2>1
<1>3. ASSUME NEW k \in at + 1..e, k # e, k \in Good PROVE k + 1 \in Good
  <2>1. k \in 1..N /\ k \in at..N /\ k + 1 \in Nat /\ (k + 1) - 1 = k /\ k \in at..e - 1
    <3>1. k # e
      BY <1>3
    <3> HIDE DEF Good
    <3> QED
      BY <1>0, <1>1, <3>1
  <2>2. Turned(At(text, k), At(text, k + 1), At(text, k).mode, Append(At(text, k).seen, text[k]), At(text, k).delim, At(text, k).open)
    <3>1. Letter(text[k]) \/ text[k] = "$"
      BY <1>0, <2>1 DEF InWord, IsIdentByte
    <3> QED
      BY <1>3, <2>1, <3>1, Step, WordTurn
  <2>3. Append(SubSeq(text, at, k - 1), text[k]) = SubSeq(text, at, k)
    BY <1>1, <2>1, SubSeqGrows
  <2> QED
    BY <1>3, <2>1, <2>2, <2>3 DEF Turned
<1> HIDE DEF Good
<1>4. \A k \in at + 1..e : k \in Good
  BY <1>0, <1>1, <1>2, <1>3, Onward
<1>5. e \in Good
  BY <1>0, <1>1, <1>4
<1> QED
  BY <1>5 DEF Good

\* ... and so is one behind a $ that opens nothing.
LEMMA TagWordStretch ==
  ASSUME NEW text, Script(text), NEW d \in 1..Len(text), text[d] = "$", Tagless(text, d), d + 1 \in 1..Len(text),
         Letter(text[d + 1]), NEW e, e = WordEnd(text, d + 1),
         At(text, d + 1).mode = "tag", At(text, d + 1).seen = <<"$">>
  PROVE  /\ At(text, e).mode = "tag" /\ Tail(At(text, e).seen) = SubSeq(text, d + 1, e - 1)
         /\ Gist(At(text, e)) = Gist(At(text, d + 1))
<1>1. text \in Seq(STRING) /\ Len(text) \in Nat /\ d \in Nat /\ d + 1 \in Nat
  BY DEF Script
<1>2. e \in (d + 1) + 1..Len(text) + 1 /\ \A k \in d + 1..e - 1 : InWord(text[k])
  BY WordEndIs
<1>3. ASSUME NEW k \in d + 1..e - 1 PROVE Letter(text[k])
  <2> DEFINE signs == {l \in d + 1..e - 1 : ~Letter(text[l])}
  <2>1. SUFFICES ASSUME signs # {} PROVE FALSE
    OBVIOUS
  <2>2. signs \subseteq Nat
    BY <1>1, <1>2
  <2>3. PICK l \in signs : \A m \in signs : l <= m
    <3> HIDE DEF signs
    <3> QED
      BY <2>1, <2>2, LeastIn
  <2>4. l \in d + 1..e - 1 /\ ~Letter(text[l]) /\ \A m \in d + 1..e - 1 : ~Letter(text[m]) => l <= m
    BY <2>3
  <2> HIDE DEF signs
  <2>5. text[l] = "$" /\ l \in d + 1..Len(text)
    <3>1. text[l] = "$"
      BY <1>2, <2>4 DEF InWord, IsIdentByte
    <3>2. l \in d + 1..Len(text)
      BY <1>1, <1>2, <2>4
    <3> QED
      BY <3>1, <3>2
  <2>6. PICK m \in d + 1..l - 1 : ~Letter(text[m])
    BY <2>5 DEF Tagless
  <2>7. m \in d + 1..e - 1 /\ ~(l <= m)
    <3>1. e \in Int /\ l \in d + 1..e - 1 /\ m \in d + 1..l - 1
      BY <1>1, <1>2, <2>4, <2>6
    <3> QED
      BY <1>1, <3>1
  <2> QED
    BY <2>4, <2>6, <2>7
<1>4. e \in d + 1..Len(text) + 1
  BY <1>1, <1>2
<1>5. At(text, e).mode = "tag" /\ At(text, e).seen = SubSeq(text, d, e - 1) /\ Gist(At(text, e)) = Gist(At(text, d + 1))
  BY <1>3, <1>4, TagStretch
<1>6. Tail(SubSeq(text, d, e - 1)) = SubSeq(text, d + 1, e - 1)
  <2>1. e - 1 \in d..Len(text)
    BY <1>1, <1>2
  <2> QED
    BY <1>1, <2>1, HeadTailOfSubSeq
<1> QED
  BY <1>5, <1>6

-----------------------------------------------------------------------------
(* Routines, and the strings that could hide one. *)

LEMMA RoutineIs ==
  ASSUME NEW ws \in Seq(Spelling) PROVE RoutineBody(ws) <=> CreatesRoutine(ws)
<1> DEFINE short == <<"create", "function">>
           long == <<"create", "or", "replace", "function">>
           Heads(head) == Len(head) <= Len(ws) /\ \A k \in DOMAIN head : ws[k] = <<head[k]>>
<1>1. CreatesRoutine(ws) <=> Heads(short) \/ Heads(long)
  BY DEF CreatesRoutine
<1>2. Heads(short) <=> Len(ws) >= 2 /\ ws[1] = <<"create">> /\ ws[2] = <<"function">>
  <2>1. Len(short) = 2 /\ DOMAIN short = {1, 2} /\ short[1] = "create" /\ short[2] = "function"
    OBVIOUS
  <2> HIDE DEF short
  <2> QED
    BY <2>1
<1>3. Heads(long) <=> /\ Len(ws) >= 4 /\ ws[1] = <<"create">> /\ ws[2] = <<"or">>
                      /\ ws[3] = <<"replace">> /\ ws[4] = <<"function">>
  <2>1. /\ Len(long) = 4 /\ DOMAIN long = {1, 2, 3, 4}
        /\ long[1] = "create" /\ long[2] = "or" /\ long[3] = "replace" /\ long[4] = "function"
    OBVIOUS
  <2> HIDE DEF long
  <2> QED
    BY <2>1
<1> HIDE DEF Heads
<1> QED
  BY <1>1, <1>2, <1>3 DEF RoutineBody

\* An e completes no head.
LEMMA NoHeadByE ==
  ASSUME NEW ws \in Seq(Spelling), <<"e">> \in Spelling, CreatesRoutine(Append(ws, <<"e">>))
  PROVE  CreatesRoutine(ws)
<1> DEFINE e == <<"e">>
           us == Append(ws, e)
<1>1. us \in Seq(Spelling)
  BY Appends
<1>2. Len(us) = Len(ws) + 1 /\ us[Len(ws) + 1] = e /\ \A k \in 1..Len(ws) : us[k] = ws[k]
  OBVIOUS
<1>3. e # <<"function">> /\ Len(ws) \in Nat
  OBVIOUS
<1> HIDE DEF us, e
<1>4. RoutineBody(us)
  BY <1>1, RoutineIs DEF us, e
<1>5. RoutineBody(ws)
  <2>1. CASE Len(us) >= 2 /\ us[1] = <<"create">> /\ us[2] = <<"function">>
    <3>1. Len(ws) # 1
      BY <1>2, <1>3, <2>1
    <3>2. Len(ws) >= 2 /\ 1 \in 1..Len(ws) /\ 2 \in 1..Len(ws)
      BY <1>2, <1>3, <2>1, <3>1
    <3>3. us[1] = ws[1] /\ us[2] = ws[2]
      BY <1>2, <3>2
    <3> QED
      BY <2>1, <3>2, <3>3 DEF RoutineBody
  <2>2. CASE Len(us) >= 4 /\ us[1] = <<"create">> /\ us[2] = <<"or">> /\ us[3] = <<"replace">> /\ us[4] = <<"function">>
    <3>1. Len(ws) # 3
      BY <1>2, <1>3, <2>2
    <3>2. Len(ws) >= 4 /\ 1 \in 1..Len(ws) /\ 2 \in 1..Len(ws) /\ 3 \in 1..Len(ws) /\ 4 \in 1..Len(ws)
      BY <1>2, <1>3, <2>2, <3>1
    <3>3. us[1] = ws[1] /\ us[2] = ws[2] /\ us[3] = ws[3] /\ us[4] = ws[4]
      BY <1>2, <3>2
    <3> QED
      BY <2>2, <3>2, <3>3 DEF RoutineBody
  <2> QED
    BY <1>4, <2>1, <2>2 DEF RoutineBody
<1> QED
  BY <1>5, RoutineIs

LEMMA Next4Is ==
  ASSUME NEW ws \in Seq(Spelling), NEW w \in Spelling
  PROVE  /\ Next4(ws, w) \in Seq(Spelling)
         /\ CreatesRoutine(ws) => CreatesRoutine(Next4(ws, w))
         /\ w = <<"e">> => (CreatesRoutine(Next4(ws, w)) <=> CreatesRoutine(ws))
<1>1. Append(ws, w) \in Seq(Spelling)
  BY Appends
<1> QED
  BY <1>1, HeadStays, NoHeadByE DEF Next4

LEMMA IdentifierE ==
  ASSUME NEW r, Sound(r), <<"e">> \in Spelling, NEW t, t = Identifier(r, <<"e">>)
  PROVE  t.begins = r.begins /\ t.cases = r.cases /\ t.apart = r.apart
<1> DEFINE w == <<"e">>
           ws == Next4(r.words, w)
           ts == IF Len(r.tokens) < 2 THEN Append(r.tokens, w) ELSE r.tokens
           body == CreatesRoutine(ws)
           counts == r.parens = 0 /\ (r.begins > 0 \/ w = <<"begin">>)
           opens == body /\ w \in {<<"begin">>, <<"case">>}
           closes == body /\ w = <<"end">>
           bs == IF opens /\ counts THEN r.begins + 1 ELSE IF closes /\ counts THEN r.begins - 1 ELSE r.begins
           cs == IF opens /\ ~counts THEN r.cases + 1 ELSE IF closes /\ ~counts /\ r.cases > 0 THEN r.cases - 1 ELSE r.cases
           apart == r.apart \/ (body /\ r.string) \/ (closes /\ ~counts /\ r.cases = 0 /\ r.begins > 0)
<1>0. r \in Reader /\ r.words \in Seq(Spelling) /\ r.apart \in BOOLEAN /\ r.string \in BOOLEAN /\ w \in Spelling
  BY Zenon DEF Sound, Reader
<1>1. Token(r, w) = [r EXCEPT !.tokens = ts]
  BY DEF Token
<1>2. t = [r EXCEPT !.tokens = ts, !.words = ws, !.begins = bs, !.cases = cs, !.apart = apart]
  BY <1>0, <1>1, Zenon DEF Identifier, Next4, Reader
<1>3. ~opens /\ ~closes
  OBVIOUS
<1>4. bs = r.begins /\ cs = r.cases
  <2> HIDE DEF opens, closes, counts
  <2> QED
    BY <1>3
<1>5. body <=> CreatesRoutine(r.words)
  BY <1>0, Next4Is
<1>6. body /\ r.string => r.apart
  BY <1>5 DEF Sound
<1>7. apart = r.apart
  <2> HIDE DEF body, closes, counts
  <2> QED
    BY <1>0, <1>3, <1>6
<1> HIDE DEF ts, ws, bs, cs, apart
<1> QED
  BY <1>0, <1>2, <1>4, <1>7 DEF Reader

-----------------------------------------------------------------------------
(* Where the splitter stands, and what the reader is doing there. *)

Behind(text, j) == j = 1 \/ ~Letter(text[j - 1])

\* Nothing is being read, ...
Free(text, j) ==
  /\ Behind(text, j)
  /\ \/ At(text, j).mode = "plain"
     \/ At(text, j).mode \in {"quote", "quoteE"} /\ <<Atom(text, j)>> # At(text, j).delim
     \/ /\ At(text, j).mode = "tag" /\ At(text, j).seen = <<"$">>
        /\ j > 1 /\ text[j - 1] = "$" /\ Tagless(text, j - 1)

\* ... or a word that began here has ended, ...
Worded(text, j, p) ==
  /\ p \in 1..j - 1 /\ Behind(text, p) /\ \A k \in p..j - 1 : InWord(text[k])
  /\ At(text, j).mode \in {"word", "tag"} /\ Spelt(At(text, j)) = SubSeq(text, p, j - 1)
  /\ ~InWord(Atom(text, j))

\* ... or the text has, in what it never closed.
Unfinished(text, j) ==
  j = Len(text) + 1 /\ At(text, j).mode \in {"quoted", "escapes", "escaped", "line", "block", "dollar"}

Poised(text, j) == Free(text, j) \/ (\E p \in Nat : Worded(text, j, p)) \/ Unfinished(text, j)

LEMMA StepAtom ==
  ASSUME NEW text, Script(text), NEW j \in 1..Len(text) + 1
  PROVE  /\ Sound(At(text, j)) /\ At(text, j).at = j /\ j \in Nat
         /\ Atom(text, j) \in Chars /\ Atom(text, j) \in Atoms /\ j + 1 \in Nat
         /\ At(text, j + 1) = Moved(Reads(text, At(text, j), Atom(text, j)), j + 1)
<1>1. Len(text) \in Nat
  BY DEF Script
<1>2. j \in 1..Len(text) + 2 /\ j + 1 \in Nat /\ j \in Nat
  BY <1>1
<1>3. Atom(text, j) \in Chars
  BY AtomIs
<1>4. Sound(At(text, j)) /\ At(text, j).at = j /\ At(text, j + 1) = Moved(Reads(text, At(text, j), Atom(text, j)), j + 1)
  BY <1>2, AtIs
<1>5. Atom(text, j) \in Atoms
  BY <1>3 DEF Chars
<1> QED
  BY <1>2, <1>3, <1>4, <1>5

LEMMA FreeFollows ==
  ASSUME NEW text, Script(text), NEW j \in 1..Len(text) + 1, Free(text, j)
  PROVE  /\ Spelt(At(text, j)) = <<>>
         /\ \/ Follows(At(text, j), Atom(text, j))
            \/ At(text, j).mode = "tag" /\ Letter(Atom(text, j))
<1> DEFINE r == At(text, j)
           c == Atom(text, j)
<1>1. r.mode \in {"plain", "quote", "quoteE", "tag"}
  BY DEF Free
<1>2. CASE r.mode # "tag"
  <2>1. Spelt(r) = <<>>
    BY <1>1, <1>2 DEF Spelt
  <2>2. Follows(r, c)
    BY <1>1, <1>2 DEF Free, Follows
  <2> QED
    BY <2>1, <2>2
<1>3. CASE r.mode = "tag"
  <2>1. r.seen = <<"$">> /\ Tail(<<"$">>) = <<>>
    BY <1>3 DEF Free
  <2>2. Spelt(r) = <<>>
    BY <1>3, <2>1 DEF Spelt
  <2>3. c # "$"
    <3>1. CASE j = Len(text) + 1
      BY <3>1, AtomIs
    <3>2. CASE j # Len(text) + 1
      <4>0. Len(text) \in Nat
        BY DEF Script
      <4>1. j \in 1..Len(text) /\ j \in (j - 1) + 1..Len(text) /\ j > 1
        BY <1>3, <3>2, <4>0 DEF Free
      <4>2. c = text[j]
        BY <4>1, AtomIs
      <4>3. ~\E l \in (j - 1) + 1..j - 1 : ~Letter(text[l])
        BY <4>1
      <4>4. Tagless(text, j - 1)
        BY <1>3 DEF Free
      <4> QED
        BY <4>1, <4>2, <4>3, <4>4 DEF Tagless
    <3> QED
      BY <3>1, <3>2
  <2>4. Letter(c) \/ ~InWord(c)
    BY <2>3 DEF InWord, IsIdentByte
  <2> QED
    BY <1>3, <2>2, <2>4 DEF Follows
<1> QED
  BY <1>2, <1>3

LEMMA WordedFollows ==
  ASSUME NEW text, Script(text), NEW j \in 1..Len(text) + 1, NEW p \in Nat, Worded(text, j, p)
  PROVE  /\ Follows(At(text, j), Atom(text, j))
         /\ Spelt(At(text, j)) # <<>> /\ At(text, j).mode \in {"word", "tag"}
<1>1. text \in Seq(STRING) /\ Len(text) \in Nat
  BY DEF Script
<1>2. p \in 1..j - 1 /\ p \in 1..Len(text) + 1 /\ j - 1 \in (p - 1)..Len(text) /\ (j - 1) - p + 1 # 0
  BY <1>1 DEF Worded
<1>3. SubSeq(text, p, j - 1) # <<>>
  <2>1. Len(SubSeq(text, p, j - 1)) = (j - 1) - p + 1
    BY <1>1, <1>2, SliceIs
  <2> QED
    BY <1>2, <2>1
<1>4. Spelt(At(text, j)) # <<>> /\ At(text, j).mode \in {"word", "tag"} /\ ~InWord(Atom(text, j))
  BY <1>3 DEF Worded
<1>5. At(text, j).mode = "word" => At(text, j).seen # <<>>
  BY <1>4 DEF Spelt
<1> QED
  BY <1>4, <1>5 DEF Follows

LEMMA PoisedApart ==
  ASSUME NEW text, Script(text), ~Server(text).apart, NEW j \in 1..Len(text) + 1, Poised(text, j)
  PROVE  ~Pending(At(text, j)).apart
<1> DEFINE r == At(text, j)
           c == Atom(text, j)
           s == Pending(r)
           t == At(text, j + 1)
<1>1. Sound(r) /\ c \in Chars /\ c \in Atoms /\ j + 1 \in Nat /\ t = Moved(Reads(text, r, c), j + 1)
  BY StepAtom
<1>2. ~r.apart /\ ~t.apart
  <2>1. Len(text) \in Nat
    BY DEF Script
  <2>2. j \in 1..Len(text) + 2 /\ j + 1 \in 1..Len(text) + 2
    BY <2>1
  <2> QED
    BY <2>2, NeverApart
<1>3. CASE Spelt(r) = <<>>
  <2>1. Gist(s) = Gist(r)
    BY <1>1, <1>3, PendingIs
  <2> HIDE DEF s, r
  <2> QED
    BY <1>2, <2>1 DEF Gist, s, r
<1>4. CASE Spelt(r) # <<>>
  <2>1. \E p \in Nat : Worded(text, j, p)
    <3>1. ~Free(text, j)
      BY <1>4, FreeFollows
    <3>2. ~Unfinished(text, j)
      BY <1>4 DEF Unfinished, Spelt
    <3> QED
      BY <3>1, <3>2 DEF Poised
  <2>2. Follows(r, c) /\ r.mode \in {"word", "tag"}
    BY <2>1, WordedFollows
  <2>3. CASE Spelt(r) = <<"e">> /\ c = "'"
    <3>1. s = Identifier(Rest(r), <<"e">>)
      BY <1>4, <2>3 DEF Pending
    <3>2. Sound(Rest(r)) /\ <<"e">> \in Spelling /\ Gist(Rest(r)) = Gist(r)
      BY <1>1, <2>3, RestIs
    <3> HIDE DEF s, r
    <3>3. s.apart = Rest(r).apart
      BY <3>1, <3>2, IdentifierE
    <3>4. Rest(r).apart = r.apart
      BY <3>2 DEF Gist
    <3> QED
      BY <1>2, <3>3, <3>4 DEF s, r
  <2>4. CASE ~(Spelt(r) = <<"e">> /\ c = "'")
    <3> HIDE DEF r, c, t, s
    <3>1. Met(r, Plain(text, Pending(r), c), t, c)
      BY <1>1, <2>2, <2>4, Meets
    <3>2. Sound(Pending(r))
      BY <1>1, PendingIs
    <3>3. ~Plain(text, Pending(r), c).apart
      BY <1>2, <3>1 DEF Met
    <3>4. ~Pending(r).apart
      BY <1>1, <3>2, <3>3, PlainApart
    <3> QED
      BY <3>4 DEF r
  <2> QED
    BY <2>3, <2>4
<1> QED
  BY <1>3, <1>4

-----------------------------------------------------------------------------
(* From one position of the splitter to the next. *)

Next2(ts, w) == IF Len(ts) < 2 THEN Append(ts, w) ELSE ts

\* Of what the reader has made only the tokens have changed, and parentheses.
Kept(s, t, ts) ==
  /\ t.words = s.words /\ t.begins = s.begins /\ t.cases = s.cases /\ t.string = s.string
  /\ t.from = s.from /\ t.stmts = s.stmts /\ t.control = s.control
  /\ t.tokens = ts

LEMMA KeptByGist ==
  ASSUME NEW s, NEW t, NEW u, NEW ts, Kept(s, t, ts), Gist(u) = Gist(t)
  PROVE  Kept(s, u, ts)
BY DEF Kept, Gist

LEMMA KeptGist ==
  ASSUME NEW s, NEW t, Gist(t) = Gist(s)
  PROVE  Kept(s, t, s.tokens)
BY DEF Kept, Gist

LEMMA KeptToken ==
  ASSUME NEW s, Sound(s), NEW t, Gist(t) = Gist(Token(s, <<>>))
  PROVE  Kept(s, t, Next2(s.tokens, <<>>))
<1> DEFINE u == Token(s, <<>>)
<1>1. Tokened(s, <<>>, u)
  BY TokenKeeps, NoSpelling
<1> HIDE DEF u
<1>2. Kept(s, u, Next2(s.tokens, <<>>))
  BY <1>1 DEF Tokened, Kept, Next2
<1> QED
  BY <1>2, KeptByGist DEF u

\* A statement ends before this position.
Restarted(text, s, t, j) ==
  /\ t.stmts = IF Solid(text, s.from, j) THEN Append(s.stmts, <<s.from, j>>) ELSE s.stmts
  /\ t.from = j + 1 /\ (t.control => s.control \/ Controls(s.tokens))
  /\ t.tokens = <<>> /\ t.words = <<>> /\ t.begins = 0 /\ t.cases = 0 /\ t.string = FALSE

\* Where nothing or a word was being read, the atom is read as it stands.
Reached(text, s, t, c, j) ==
  /\ Kind(c) = "blank" => t.mode = "plain" /\ Kept(s, t, s.tokens)
  /\ Kind(c) = "letter" => t.mode = "word" /\ t.seen = <<c>> /\ Kept(s, t, s.tokens)
  /\ Kind(c) = "quote" => t.mode = "quoted" /\ t.delim = <<c>> /\ Kept(s, t, Next2(s.tokens, <<>>))
  /\ Kind(c) = "dollar" => t.mode = "tag" /\ t.seen = <<"$">> /\ Kept(s, t, Next2(s.tokens, <<>>))
  /\ Kind(c) = "line" => t.mode = "line" /\ Kept(s, t, s.tokens)
  /\ Kind(c) = "block" => t.mode = "block" /\ t.open = 1 /\ Kept(s, t, s.tokens)
  /\ Kind(c) \in {"paren", "other"} => t.mode = "plain" /\ Kept(s, t, Next2(s.tokens, <<>>))
  /\ Kind(c) = "semicolon" =>
       /\ t.mode = "plain"
       /\ s.begins + s.cases > 0 => Kept(s, t, s.tokens)
       /\ s.begins + s.cases = 0 => Restarted(text, s, t, j)

LEMMA ParenKept ==
  ASSUME NEW s, Sound(s), NEW n \in Nat, NEW t, NEW m, NEW se, NEW d, NEW o,
         t = Lexed([Token(s, <<>>) EXCEPT !.parens = n], m, se, d, o)
  PROVE  t.mode = m /\ Kept(s, t, Next2(s.tokens, <<>>))
<1> DEFINE u == Token(s, <<>>)
<1>1. Tokened(s, <<>>, u) /\ Sound(u)
  BY TokenKeeps, TokenIs, NoSpelling
<1>2. u \in Reader
  BY <1>1 DEF Sound
<1>3. t = Lexed([u EXCEPT !.parens = n], m, se, d, o)
  OBVIOUS
<1> HIDE DEF u
<1>4. /\ t.mode = m
      /\ t.words = u.words /\ t.begins = u.begins /\ t.cases = u.cases /\ t.string = u.string
      /\ t.from = u.from /\ t.stmts = u.stmts /\ t.control = u.control /\ t.tokens = u.tokens
  BY <1>2, <1>3 DEF Lexed, Reader
<1> QED
  BY <1>1, <1>4 DEF Kept, Tokened, Next2

LEMMA SemiReached ==
  ASSUME NEW text, NEW s, Sound(s), NEW j, s.at = j, NEW u, NEW p, p = Lexed(s, "plain", s.seen, s.delim, s.open),
         u = Semi(text, p), ~u.apart, NEW t, Gist(t) = Gist(u), t.mode = u.mode
  PROVE  Kind(Cutter) = "semicolon" => Reached(text, s, t, Cutter, j)
<1>1. Sound(p) /\ Gist(p) = Gist(s) /\ p.at = j /\ p.mode = "plain"
  <2>1. "plain" \in Modes /\ "plain" # "tag" /\ s.seen \in Spelling /\ s.delim \in Spelling /\ s.open \in Int /\ s \in Reader
    BY Zenon DEF Modes, Sound, Reader
  <2> QED
    BY <2>1, LexedSound, LexedIs
<1>2. Ended(text, p, u)
  BY <1>1, SemiIs
<1>3. t.mode = "plain"
  BY <1>1, <1>2 DEF Ended
<1>4. p.begins + p.cases = s.begins + s.cases /\ p.from = s.from /\ p.stmts = s.stmts /\ p.control = s.control /\ p.tokens = s.tokens
  BY <1>1 DEF Gist
<1>5. ASSUME s.begins + s.cases > 0 PROVE Kept(s, t, s.tokens)
  <2>1. Gist(u) = Gist(p)
    BY <1>1, <1>2, <1>4, <1>5 DEF Ended
  <2>2. Gist(t) = Gist(s)
    BY <1>1, <2>1
  <2> QED
    BY <2>2, KeptGist
<1>6. ASSUME s.begins + s.cases = 0 PROVE Restarted(text, s, t, j)
  <2>1. u = Cut(text, p)
    <3>1. ~(p.begins + p.cases > 0)
      BY <1>4, <1>6
    <3> QED
      BY <1>2, <3>1 DEF Ended
  <2>2. Closed(text, p, u)
    BY <1>1, <2>1, CutIs
  <2>3. /\ u.stmts = IF Solid(text, s.from, j) THEN Append(s.stmts, <<s.from, j>>) ELSE s.stmts
        /\ u.from = j + 1 /\ (u.control => s.control \/ Controls(s.tokens))
        /\ u.tokens = <<>> /\ u.words = <<>> /\ u.begins = 0 /\ u.cases = 0 /\ u.string = FALSE
    BY <1>1, <1>4, <2>2 DEF Closed
  <2>4. /\ t.stmts = u.stmts /\ t.from = u.from /\ t.control = u.control /\ t.tokens = u.tokens
        /\ t.words = u.words /\ t.begins = u.begins /\ t.cases = u.cases /\ t.string = u.string
    BY DEF Gist
  <2> QED
    BY <2>3, <2>4, Zenon DEF Restarted
<1> QED
  BY <1>3, <1>5, <1>6 DEF Reached

LEMMA Reaches ==
  ASSUME NEW text, Script(text), ~Server(text).apart, NEW j \in 1..Len(text) + 1, Follows(At(text, j), Atom(text, j)),
         ~(Spelt(At(text, j)) = <<"e">> /\ Atom(text, j) = "'")
  PROVE  /\ Reached(text, Pending(At(text, j)), At(text, j + 1), Atom(text, j), j)
         /\ Spelt(At(text, j)) # <<>> /\ Atom(text, j) = "'" => ~IsSuffix(<<"$", "e">>, Spelt(At(text, j)))
<1> DEFINE r == At(text, j)
           c == Atom(text, j)
           s == Pending(r)
           t == At(text, j + 1)
           u == Plain(text, s, c)
<1>1. Sound(r) /\ r.at = j /\ c \in Chars /\ c \in Atoms /\ j + 1 \in Nat /\ t = Moved(Reads(text, r, c), j + 1)
  BY StepAtom
<1>2. ~t.apart
  <2>1. Len(text) \in Nat
    BY DEF Script
  <2>2. j + 1 \in 1..Len(text) + 2
    BY <2>1
  <2> QED
    BY <2>2, NeverApart
<1>3. Sound(s) /\ s.at = j
  BY <1>1, PendingIs
<1>4. Met(r, u, t, c)
  BY <1>1, Meets
<1> HIDE DEF s
<1>5. Passed(text, s, c, u)
  BY <1>1, <1>3, PlainTurns
<1> HIDE DEF r, c, t, u
<1>6. Gist(t) = Gist(u) /\ t.mode = u.mode /\ t.seen = u.seen /\ t.delim = u.delim /\ t.open = u.open /\ ~u.apart
  BY <1>2, <1>4 DEF Met, Turned
<1>7. Spelt(r) # <<>> /\ c = "'" => ~IsSuffix(<<"$", "e">>, Spelt(r))
  BY <1>2, <1>4 DEF Met
<1>8. Reached(text, s, t, c, j)
  <2>1. CASE Kind(c) = "blank"
    <3>1. Gist(t) = Gist(s) /\ t.mode = "plain"
      BY <1>5, <1>6, <2>1 DEF Passed, Turned
    <3> QED
      BY <2>1, <3>1, KeptGist DEF Reached
  <2>2. CASE Kind(c) = "letter"
    <3>1. Gist(t) = Gist(s) /\ t.mode = "word" /\ t.seen = <<c>>
      BY <1>5, <1>6, <2>2 DEF Passed, Turned
    <3> QED
      BY <2>2, <3>1, KeptGist DEF Reached
  <2>3. CASE Kind(c) = "quote"
    <3>1. Gist(t) = Gist(Token(s, <<>>)) /\ t.mode = "quoted" /\ t.delim = <<c>>
      BY <1>5, <1>6, <2>3 DEF Passed, Turned
    <3> QED
      BY <1>3, <2>3, <3>1, KeptToken DEF Reached
  <2>4. CASE Kind(c) = "dollar"
    <3>1. Gist(t) = Gist(Token(s, <<>>)) /\ t.mode = "tag" /\ t.seen = <<"$">>
      BY <1>5, <1>6, <2>4 DEF Passed, Turned
    <3> QED
      BY <1>3, <2>4, <3>1, KeptToken DEF Reached
  <2>5. CASE Kind(c) = "line"
    <3>1. Gist(t) = Gist(s) /\ t.mode = "line"
      BY <1>5, <1>6, <2>5 DEF Passed, Turned
    <3> QED
      BY <2>5, <3>1, KeptGist DEF Reached
  <2>6. CASE Kind(c) = "block"
    <3>1. Gist(t) = Gist(s) /\ t.mode = "block" /\ t.open = 1
      BY <1>5, <1>6, <2>6 DEF Passed, Turned
    <3> QED
      BY <2>6, <3>1, KeptGist DEF Reached
  <2>7. CASE Kind(c) = "semicolon"
    <3>1. u = Semi(text, Lexed(s, "plain", s.seen, s.delim, s.open)) /\ c = Cutter
      BY <1>5, <2>7, KindIs DEF Passed
    <3> QED
      BY <1>3, <1>6, <2>7, <3>1, SemiReached
  <2>8. CASE Kind(c) = "paren"
    <3>1. PICK n \in Nat : u = Lexed([Token(s, <<>>) EXCEPT !.parens = n], "plain", s.seen, s.delim, s.open)
      BY <1>5, <2>8 DEF Passed
    <3>2. u.mode = "plain" /\ Kept(s, u, Next2(s.tokens, <<>>))
      BY <1>3, <3>1, ParenKept
    <3>3. Kept(s, t, Next2(s.tokens, <<>>))
      BY <1>6, <3>2, KeptByGist
    <3> QED
      BY <1>6, <2>8, <3>2, <3>3 DEF Reached
  <2>9. CASE Kind(c) = "other"
    <3>1. Gist(t) = Gist(Token(s, <<>>)) /\ t.mode = "plain"
      BY <1>5, <1>6, <2>9 DEF Passed, Turned
    <3> QED
      BY <1>3, <2>9, <3>1, KeptToken DEF Reached
  <2> QED
    BY <2>1, <2>2, <2>3, <2>4, <2>5, <2>6, <2>7, <2>8, <2>9 DEF Reached
<1> QED
  BY <1>7, <1>8 DEF r, c, t, s

LEMMA NoLetters == ~Letter("\n") /\ ~Letter("*/") /\ ~Letter("$") /\ \A q \in Quotes : ~Letter(q)
BY Zenon DEF Letter, Signs, Blank, Quotes

LEMMA PlainKinds ==
  ASSUME NEW c
  PROVE  /\ Kind(c) # "quote" => c # "'"
         /\ Kind(c) # "letter" => ~Letter(c)
<1>1. "'" \in Quotes
  BY Zenon DEF Quotes
<1> QED
  BY <1>1, KindIs

LEMMA PoisedFollows ==
  ASSUME NEW text, Script(text), NEW j \in 1..Len(text), Poised(text, j), ~Letter(text[j])
  PROVE  j \in 1..Len(text) + 1 /\ Atom(text, j) = text[j] /\ Follows(At(text, j), text[j])
<1>1. Len(text) \in Nat
  BY DEF Script
<1>2. j \in 1..Len(text) + 1 /\ j # Len(text) + 1
  BY <1>1
<1>3. Atom(text, j) = text[j]
  BY AtomIs
<1>4. CASE Free(text, j)
  BY <1>2, <1>3, <1>4, FreeFollows
<1>5. CASE \E p \in Nat : Worded(text, j, p)
  BY <1>2, <1>3, <1>5, WordedFollows
<1> QED
  BY <1>2, <1>3, <1>4, <1>5 DEF Poised, Unfinished

\* The splitter went from one position to the next, and the reader with it.
Went(text, j, k, ts) ==
  k \in j + 1..Len(text) + 1 /\ Poised(text, k) /\ Kept(Pending(At(text, j)), Pending(At(text, k)), ts)

LEMMA Lands ==
  ASSUME NEW text, Script(text), NEW j, NEW k \in j + 1..Len(text) + 1, NEW j0 \in Nat, j = j0, NEW ts,
         Free(text, k) \/ Unfinished(text, k), Kept(Pending(At(text, j)), At(text, k), ts)
  PROVE  Went(text, j, k, ts)
<1>1. Len(text) \in Nat
  BY DEF Script
<1>2. k \in 1..Len(text) + 1
  BY <1>1
<1>3. Sound(At(text, k))
  BY <1>2, StepAtom
<1>4. Spelt(At(text, k)) = <<>>
  <2>1. CASE Free(text, k)
    BY <1>2, <2>1, FreeFollows
  <2>2. CASE Unfinished(text, k)
    BY <2>2 DEF Unfinished, Spelt
  <2> QED
    BY <2>1, <2>2
<1>5. Gist(Pending(At(text, k))) = Gist(At(text, k))
  BY <1>3, <1>4, PendingIs
<1>6. Kept(Pending(At(text, j)), Pending(At(text, k)), ts)
  BY <1>5, KeptByGist
<1> QED
  BY <1>6 DEF Went, Poised

LEMMA LineStep ==
  ASSUME NEW text, Script(text), ~Server(text).apart, NEW j \in 1..Len(text), Poised(text, j), text[j] = "--",
         NEW k, k = SkipLine(text, j)
  PROVE  Went(text, j, k, Pending(At(text, j)).tokens)
<1> DEFINE s == Pending(At(text, j))
<1>1. Kind(text[j]) = "line" /\ ~Letter(text[j]) /\ text[j] # "'" /\ text[j] # "\n" /\ j \in Nat
  <2>1. Kind(text[j]) = "line"
    BY KindIs
  <2>2. "line" # "letter" /\ "line" # "quote"
    OBVIOUS
  <2>3. ~Letter(text[j]) /\ text[j] # "'"
    BY <2>1, <2>2, PlainKinds
  <2>4. text[j] # "\n"
    OBVIOUS
  <2> QED
    BY <2>1, <2>3, <2>4
<1>2. j \in 1..Len(text) + 1 /\ Atom(text, j) = text[j] /\ Follows(At(text, j), text[j])
  BY <1>1, PoisedFollows
<1>3. Reached(text, s, At(text, j + 1), text[j], j)
  BY <1>1, <1>2, Reaches
<1> HIDE DEF s
<1>4. At(text, j + 1).mode = "line" /\ Kept(s, At(text, j + 1), s.tokens)
  BY <1>1, <1>3 DEF Reached
<1>5. /\ k \in j + 1..Len(text) + 1
      /\ Gist(At(text, k)) = Gist(At(text, j + 1))
      /\ \/ k = Len(text) + 1 /\ At(text, k).mode = "line"
         \/ At(text, k).mode = "plain" /\ text[k - 1] = "\n"
  BY <1>1, <1>4, LineStretch
<1>6. Kept(s, At(text, k), s.tokens)
  BY <1>4, <1>5, KeptByGist
<1>7. Free(text, k) \/ Unfinished(text, k)
  BY <1>5, NoLetters DEF Free, Behind, Unfinished
<1> QED
  BY <1>1, <1>5, <1>6, <1>7, Lands DEF s

LEMMA BlockStep ==
  ASSUME NEW text, Script(text), ~Server(text).apart, NEW j \in 1..Len(text), Poised(text, j), text[j] = "/*",
         NEW k, k = SkipBlockComment(text, j)
  PROVE  Went(text, j, k, Pending(At(text, j)).tokens)
<1> DEFINE s == Pending(At(text, j))
<1>1. Kind(text[j]) = "block" /\ ~Letter(text[j]) /\ text[j] # "'" /\ j \in Nat
  <2>1. Kind(text[j]) = "block"
    BY KindIs
  <2>2. "block" # "letter" /\ "block" # "quote"
    OBVIOUS
  <2>3. ~Letter(text[j]) /\ text[j] # "'"
    BY <2>1, <2>2, PlainKinds
  <2> QED
    BY <2>1, <2>3
<1>2. j \in 1..Len(text) + 1 /\ Atom(text, j) = text[j] /\ Follows(At(text, j), text[j])
  BY <1>1, PoisedFollows
<1>3. Reached(text, s, At(text, j + 1), text[j], j)
  BY <1>1, <1>2, Reaches
<1> HIDE DEF s
<1>4. At(text, j + 1).mode = "block" /\ At(text, j + 1).open = 1 /\ Kept(s, At(text, j + 1), s.tokens)
  BY <1>1, <1>3 DEF Reached
<1>5. /\ k \in j + 1..Len(text) + 1
      /\ Gist(At(text, k)) = Gist(At(text, j + 1))
      /\ \/ k = Len(text) + 1 /\ At(text, k).mode = "block"
         \/ At(text, k).mode = "plain" /\ text[k - 1] = "*/"
  BY <1>1, <1>4, BlockStretch
<1>6. Kept(s, At(text, k), s.tokens)
  BY <1>4, <1>5, KeptByGist
<1>7. Free(text, k) \/ Unfinished(text, k)
  BY <1>5, NoLetters DEF Free, Behind, Unfinished
<1> QED
  BY <1>1, <1>5, <1>6, <1>7, Lands DEF s

LEMMA DollarStep ==
  ASSUME NEW text, Script(text), ~Server(text).apart, NEW j \in 1..Len(text), Poised(text, j), text[j] = "$",
         NEW k, k = SkipDollarQuoted(text, j)
  PROVE  Went(text, j, k, Next2(Pending(At(text, j)).tokens, <<>>))
<1> DEFINE s == Pending(At(text, j))
           ts == Next2(s.tokens, <<>>)
<1>1. Kind(text[j]) = "dollar" /\ ~Letter(text[j]) /\ text[j] # "'" /\ j \in Nat
  <2>1. Kind(text[j]) = "dollar"
    BY KindIs
  <2>2. "dollar" # "letter" /\ "dollar" # "quote"
    OBVIOUS
  <2>3. ~Letter(text[j]) /\ text[j] # "'"
    BY <2>1, <2>2, PlainKinds
  <2> QED
    BY <2>1, <2>3
<1>2. j \in 1..Len(text) + 1 /\ Atom(text, j) = text[j] /\ Follows(At(text, j), text[j])
  BY <1>1, PoisedFollows
<1>3. Reached(text, s, At(text, j + 1), text[j], j)
  BY <1>1, <1>2, Reaches
<1> HIDE DEF s
<1>4. At(text, j + 1).mode = "tag" /\ At(text, j + 1).seen = <<"$">> /\ Kept(s, At(text, j + 1), ts)
  BY <1>1, <1>3 DEF Reached
<1> HIDE DEF ts
<1>5. \/ k = j + 1 /\ Tagless(text, j)
      \/ /\ k \in (j + 1)..Len(text) + 1
         /\ Gist(At(text, k)) = Gist(At(text, j + 1))
         /\ \/ k = Len(text) + 1 /\ At(text, k).mode = "dollar"
            \/ At(text, k).mode = "plain" /\ text[k - 1] = "$"
  BY <1>4, DollarStretch
<1>6. k \in j + 1..Len(text) + 1 /\ Kept(s, At(text, k), ts)
  <2>1. Len(text) \in Nat
    BY DEF Script
  <2>2. j + 1 \in j + 1..Len(text) + 1
    BY <2>1
  <2> QED
    BY <1>4, <1>5, <2>2, KeptByGist
<1>7. Free(text, k) \/ Unfinished(text, k)
  <2>1. CASE k = j + 1 /\ Tagless(text, j)
    <3>1. k > 1 /\ k - 1 = j
      BY <1>1, <2>1
    <3> QED
      BY <1>4, <2>1, <3>1, NoLetters DEF Free, Behind
  <2>2. CASE ~(k = j + 1 /\ Tagless(text, j))
    BY <1>5, <2>2, NoLetters DEF Free, Behind, Unfinished
  <2> QED
    BY <2>1, <2>2
<1> QED
  BY <1>1, <1>6, <1>7, Lands DEF s, ts

LEMMA OtherStep ==
  ASSUME NEW text, Script(text), ~Server(text).apart, NEW j \in 1..Len(text), Poised(text, j),
         Kind(text[j]) \in {"blank", "paren", "other"}
  PROVE  Went(text, j, j + 1, IF Kind(text[j]) = "blank" THEN Pending(At(text, j)).tokens
                              ELSE Next2(Pending(At(text, j)).tokens, <<>>))
<1> DEFINE s == Pending(At(text, j))
           ts == IF Kind(text[j]) = "blank" THEN s.tokens ELSE Next2(s.tokens, <<>>)
<1>1. ~Letter(text[j]) /\ text[j] # "'" /\ j \in Nat /\ j + 1 \in j + 1..Len(text) + 1 /\ (j + 1) - 1 = j
  <2>1. Len(text) \in Nat
    BY DEF Script
  <2>2. Kind(text[j]) # "letter" /\ Kind(text[j]) # "quote"
    OBVIOUS
  <2>3. ~Letter(text[j]) /\ text[j] # "'"
    BY <2>2, PlainKinds
  <2> QED
    BY <2>1, <2>3
<1>2. j \in 1..Len(text) + 1 /\ Atom(text, j) = text[j] /\ Follows(At(text, j), text[j])
  BY <1>1, PoisedFollows
<1>3. Reached(text, s, At(text, j + 1), text[j], j)
  BY <1>1, <1>2, Reaches
<1> HIDE DEF s
<1>4. At(text, j + 1).mode = "plain" /\ Kept(s, At(text, j + 1), ts)
  BY <1>3 DEF Reached
<1>5. Free(text, j + 1)
  BY <1>1, <1>4 DEF Free, Behind
<1> HIDE DEF ts
<1> QED
  BY <1>1, <1>4, <1>5, Lands DEF s, ts

\* What the splitter takes for an escape string the reader does.
LEMMA EStringIs ==
  ASSUME NEW text, Script(text), ~Server(text).apart, NEW j \in 1..Len(text), Poised(text, j), text[j] = "'"
  PROVE  IsEString(text, j) <=> Spelt(At(text, j)) = <<"e">>
<1> DEFINE r == At(text, j)
<1>1. text \in Seq(STRING) /\ Len(text) \in Nat /\ j \in Nat
  BY DEF Script
<1>2. ~Letter(text[j]) /\ Letter("e")
  <2>1. "'" \in Quotes /\ Letter("e")
    BY Zenon DEF Quotes, Letter, Signs, Operators, Parameters, Blank
  <2> QED
    BY <2>1, NoLetters
<1>3. j \in 1..Len(text) + 1 /\ Atom(text, j) = text[j] /\ Follows(r, text[j])
  BY <1>2, PoisedFollows
<1>4. CASE Free(text, j)
  <2>0. <<>> # <<"e">>
    OBVIOUS
  <2>1. Spelt(r) = <<>>
    BY <1>3, <1>4, FreeFollows
  <2>2. ~IsEString(text, j)
    BY <1>2, <1>4 DEF Free, Behind, IsEString
  <2> QED
    BY <2>0, <2>1, <2>2
<1>5. ASSUME NEW p \in Nat, Worded(text, j, p) PROVE IsEString(text, j) <=> Spelt(r) = <<"e">>
  <2> DEFINE w == SubSeq(text, p, j - 1)
  <2>1. /\ p \in 1..j - 1 /\ p \in 1..Len(text) /\ p \in 1..Len(text) + 1 /\ j - 1 \in (p - 1)..Len(text) /\ j - 1 \in p..Len(text)
        /\ Spelt(r) = w /\ Behind(text, p) /\ \A k \in p..j - 1 : InWord(text[k])
    BY <1>1, <1>5 DEF Worded
  <2>2. w \in Seq(STRING) /\ Len(w) = (j - 1) - p + 1 /\ \A m \in 1..(j - 1) - p + 1 : w[m] = text[p + m - 1]
    BY <1>1, <2>1, SliceIs
  <2> HIDE DEF w
  <2>3. ASSUME w = <<"e">> PROVE IsEString(text, j)
    <3>1. Len(w) = 1 /\ w[1] = "e"
      BY <2>3
    <3>2. p = j - 1 /\ 1 \in 1..(j - 1) - p + 1 /\ p + 1 - 1 = p
      <4>1. 1 = (j - 1) - p + 1
        BY <2>2, <3>1
      <4> QED
        BY <1>1, <4>1
    <3>3. text[j - 1] = "e" /\ j > 1
      BY <1>1, <2>1, <2>2, <3>1, <3>2
    <3>4. j = 2 \/ ~Letter(text[j - 2])
      <4>1. p = 1 => j = 2
        BY <1>1, <3>2
      <4>2. p - 1 = j - 2
        BY <1>1, <3>2
      <4> QED
        BY <2>1, <4>1, <4>2 DEF Behind
    <3> QED
      BY <3>3, <3>4 DEF IsEString, IsIdentByte
  <2>4. ASSUME IsEString(text, j), w # <<"e">> PROVE FALSE
    <3>1. text[j - 1] = "e" /\ (j = 2 \/ ~Letter(text[j - 2]))
      BY <2>4 DEF IsEString, IsIdentByte
    <3>2. p # j - 1
      <4>1. SUFFICES ASSUME p = j - 1 PROVE FALSE
        OBVIOUS
      <4>2. SubSeq(text, p, p) = <<text[p]>>
        <5>1. p \in p..Len(text)
          BY <1>1, <2>1
        <5> QED
          BY <1>1, <2>1, <5>1, SubSeqGrows
      <4> QED
        BY <2>4, <3>1, <4>1, <4>2 DEF w
    <3>3. /\ p <= j - 2 /\ j - 2 \in p..j - 1 /\ j # 2 /\ j - 1 \in 1..Len(text)
          /\ j - 2 \in 1..Len(text) + 1 /\ j - 1 \in (j - 2) - 1..Len(text) /\ (j - 1) - (j - 2) + 1 = 2 /\ (j - 1) - 2 + 1 = j - 2
          /\ (j - 2) + 1 - 1 = j - 2 /\ (j - 2) + 2 - 1 = j - 1
      BY <1>1, <2>1, <3>2
    <3>4. text[j - 2] = "$"
      <4>1. InWord(text[j - 2]) /\ ~Letter(text[j - 2])
        BY <2>1, <3>1, <3>3
      <4> QED
        BY <4>1 DEF InWord, IsIdentByte
    <3> DEFINE tag == <<text[j - 2], text[j - 1]>>
    <3>5. tag \in Seq(STRING) /\ Len(tag) = 2 /\ tag # <<>> /\ tag[1] = text[j - 2] /\ tag[2] = text[j - 1]
      <4>1. j - 2 \in 1..Len(text) /\ j - 1 \in 1..Len(text)
        BY <1>1, <2>1, <3>3
      <4>2. text[j - 2] \in STRING /\ text[j - 1] \in STRING
        BY <1>1, <4>1
      <4> QED
        BY <4>2
    <3>6. tag = <<"$", "e">>
      BY <3>1, <3>4
    <3> HIDE DEF tag
    <3>7. SubSeq(text, j - 2, j - 1) = tag
      <4>1. SubSeq(text, j - 2, j - 1) \in Seq(STRING) /\ Len(SubSeq(text, j - 2, j - 1)) = 2
            /\ \A m \in 1..2 : SubSeq(text, j - 2, j - 1)[m] = text[(j - 2) + m - 1]
        <5>1. /\ SubSeq(text, j - 2, j - 1) \in Seq(STRING)
              /\ Len(SubSeq(text, j - 2, j - 1)) = (j - 1) - (j - 2) + 1
              /\ \A m \in 1..(j - 1) - (j - 2) + 1 : SubSeq(text, j - 2, j - 1)[m] = text[(j - 2) + m - 1]
          BY <1>1, <3>3, SliceIs
        <5> QED
          BY <3>3, <5>1
      <4>2. \A m \in 1..2 : SubSeq(text, j - 2, j - 1)[m] = tag[m]
        <5>1. SubSeq(text, j - 2, j - 1)[1] = tag[1] /\ SubSeq(text, j - 2, j - 1)[2] = tag[2]
          BY <3>3, <3>5, <4>1
        <5>2. \A m \in 1..2 : m = 1 \/ m = 2
          OBVIOUS
        <5> QED
          BY <5>1, <5>2
      <4> QED
        BY <3>5, <4>1, <4>2, SameSeq
    <3>8. IsSuffix(tag, w)
      <4>1. IsSuffix(tag, SubSeq(text, p, j - 1)) <=>
              p <= (j - 1) - Len(tag) + 1 /\ SubSeq(text, (j - 1) - Len(tag) + 1, j - 1) = tag
        BY <1>1, <2>1, <3>5, SuffixOfSlice
      <4> QED
        BY <3>3, <3>5, <3>7, <4>1 DEF w
    <3>9. Spelt(r) # <<>>
      BY <1>3, <1>5, WordedFollows
    <3>10. ~(Spelt(r) = <<"e">> /\ text[j] = "'")
      BY <2>1, <2>4
    <3> QED
      BY <1>3, <2>1, <3>6, <3>8, <3>9, <3>10, Reaches
  <2> QED
    BY <2>1, <2>3, <2>4
<1>6. ~Unfinished(text, j)
  BY <1>1 DEF Unfinished
<1> QED
  BY <1>4, <1>5, <1>6 DEF Poised

\* A quoted name or a string without escapes, ...
LEMMA QuoteStep ==
  ASSUME NEW text, Script(text), ~Server(text).apart, NEW j \in 1..Len(text), Poised(text, j), text[j] \in Quotes,
         ~(text[j] = "'" /\ IsEString(text, j)), NEW k, k = SkipQuoted(text, j, text[j], FALSE)
  PROVE  Went(text, j, k, Next2(Pending(At(text, j)).tokens, <<>>))
<1> DEFINE s == Pending(At(text, j))
           ts == Next2(s.tokens, <<>>)
           q == text[j]
<1>1. Kind(q) = "quote" /\ ~Letter(q) /\ j \in Nat
  BY KindIs, NoLetters
<1>2. j \in 1..Len(text) + 1 /\ Atom(text, j) = q /\ Follows(At(text, j), q)
  BY <1>1, PoisedFollows
<1>3. ~(Spelt(At(text, j)) = <<"e">> /\ q = "'")
  BY EStringIs
<1>4. Reached(text, s, At(text, j + 1), q, j)
  BY <1>2, <1>3, Reaches
<1> HIDE DEF s
<1>5. At(text, j + 1).mode = "quoted" /\ At(text, j + 1).delim = <<q>> /\ Kept(s, At(text, j + 1), ts)
  BY <1>1, <1>4 DEF Reached
<1> HIDE DEF ts
<1>6. /\ k \in (j + 1)..Len(text) + 1
      /\ Gist(At(text, k)) = Gist(At(text, j + 1))
      /\ \/ k = Len(text) + 1 /\ At(text, k).mode \in {"quoted", "escapes", "escaped"}
         \/ Shuts(text, q, k)
  <2>1. q \in Quotes
    OBVIOUS
  <2> HIDE DEF q
  <2>2. k = SkipQuoted(text, j, q, FALSE)
    BY DEF q
  <2>3. At(text, j + 1).mode = IF FALSE THEN "escapes" ELSE "quoted"
    BY <1>5
  <2>4. FALSE \in BOOLEAN
    OBVIOUS
  <2> QED
    BY <1>5, <2>1, <2>2, <2>3, <2>4, QuotedStretch
<1>7. Kept(s, At(text, k), ts)
  BY <1>5, <1>6, KeptByGist
<1>8. Free(text, k) \/ Unfinished(text, k)
  <2>1. CASE Shuts(text, q, k)
    <3>1. <<Atom(text, k)>> # <<q>>
      BY <2>1 DEF Shuts
    <3>2. Behind(text, k)
      BY <1>1, <2>1 DEF Shuts, Behind
    <3> QED
      BY <2>1, <3>1, <3>2 DEF Shuts, Free
  <2>2. CASE ~Shuts(text, q, k)
    BY <1>6, <2>2 DEF Unfinished
  <2> QED
    BY <2>1, <2>2
<1> QED
  BY <1>1, <1>6, <1>7, <1>8, Lands DEF s, ts

\* ... an escape string, whose e the splitter has taken for a word, ...
Dropped(r, s, t) ==
  /\ r.words \in Seq(Spelling) /\ r.tokens \in Seq(Spelling) /\ <<"e">> \in Spelling
  /\ s.words = Next4(r.words, <<"e">>) /\ t.words = r.words
  /\ s.tokens = Next2(r.tokens, <<"e">>) /\ t.tokens = Next2(r.tokens, <<>>)
  /\ t.begins = s.begins /\ t.cases = s.cases /\ t.from = s.from /\ t.stmts = s.stmts /\ t.control = s.control
  /\ s.string \/ ~CreatesRoutine(r.words) => t.string

LEMMA EscapesStep ==
  ASSUME NEW text, Script(text), ~Server(text).apart, NEW j \in 1..Len(text), Poised(text, j), text[j] = "'",
         IsEString(text, j), NEW k, k = SkipQuoted(text, j, text[j], TRUE)
  PROVE  k \in j + 1..Len(text) + 1 /\ Poised(text, k) /\ Dropped(At(text, j), Pending(At(text, j)), Pending(At(text, k)))
<1> DEFINE r == At(text, j)
           s == Pending(r)
           q == text[j]
           t == At(text, j + 1)
<1>0. Len(text) \in Nat
  BY DEF Script
<1>1. q \in Quotes /\ ~Letter(q) /\ j \in Nat /\ j \in 1..Len(text) + 1
  <2>1. "'" \in Quotes
    BY Zenon DEF Quotes
  <2> QED
    BY <1>0, <2>1, NoLetters
<1>2. Spelt(r) = <<"e">> /\ <<"e">> # <<>>
  BY EStringIs
<1>3. r.mode \in {"word", "tag"}
  BY <1>2 DEF Spelt
<1>4. Sound(r) /\ q \in Chars /\ j + 1 \in Nat /\ t = Moved(Reads(text, r, q), j + 1)
  BY Step
<1>5. Sound(Rest(r)) /\ <<"e">> \in Spelling /\ Gist(Rest(r)) = Gist(r) /\ r.words \in Seq(Spelling) /\ r.tokens \in Seq(Spelling)
  <2>1. r.words \in Seq(Spelling) /\ r.tokens \in Seq(Spelling)
    BY <1>4, Zenon DEF Sound, Reader
  <2> QED
    BY <1>2, <1>4, <2>1, RestIs
<1>6. s = Identifier(Rest(r), <<"e">>)
  BY <1>2 DEF Pending
<1> HIDE DEF r, s, t
<1>7. Escaped(r, t)
  <2>1. Escaped(r, Moved(Reads(text, r, q), j + 1))
    BY <1>2, <1>3, <1>4, Escapes
  <2> QED
    BY <1>4, <2>1
<1>8. Named(Rest(r), <<"e">>, s) /\ s.begins = Rest(r).begins /\ s.cases = Rest(r).cases
  BY <1>5, <1>6, IdentifierIs, IdentifierE
<1>9. /\ s.words = Next4(r.words, <<"e">>) /\ s.tokens = Next2(r.tokens, <<"e">>) /\ s.begins = r.begins /\ s.cases = r.cases
      /\ s.from = r.from /\ s.stmts = r.stmts /\ s.control = r.control /\ s.string = r.string
  <2>1. /\ Rest(r).words = r.words /\ Rest(r).tokens = r.tokens /\ Rest(r).begins = r.begins /\ Rest(r).cases = r.cases
        /\ Rest(r).from = r.from /\ Rest(r).stmts = r.stmts /\ Rest(r).control = r.control /\ Rest(r).string = r.string
    BY <1>5 DEF Gist
  <2> QED
    BY <1>8, <2>1 DEF Named, Next2
<1>10. Dropped(r, s, t)
  BY <1>5, <1>7, <1>9 DEF Dropped, Escaped, Next2
<1>11. /\ k \in (j + 1)..Len(text) + 1
       /\ Gist(At(text, k)) = Gist(t)
       /\ \/ k = Len(text) + 1 /\ At(text, k).mode \in {"quoted", "escapes", "escaped"}
          \/ Shuts(text, q, k)
  <2>1. t.mode = (IF TRUE THEN "escapes" ELSE "quoted") /\ t.delim = <<q>> /\ TRUE \in BOOLEAN
    BY <1>7 DEF Escaped
  <2>2. k = SkipQuoted(text, j, q, TRUE)
    OBVIOUS
  <2> HIDE DEF q
  <2> QED
    BY <1>1, <2>1, <2>2, QuotedStretch DEF t
<1>12. Free(text, k) \/ Unfinished(text, k)
  <2>1. CASE Shuts(text, q, k)
    <3>1. <<Atom(text, k)>> # <<q>>
      BY <2>1 DEF Shuts
    <3>2. Behind(text, k)
      BY <1>1, <2>1 DEF Shuts, Behind
    <3> QED
      BY <2>1, <3>1, <3>2 DEF Shuts, Free
  <2>2. CASE ~Shuts(text, q, k)
    BY <1>11, <2>2 DEF Unfinished
  <2> QED
    BY <2>1, <2>2
<1>13. Gist(Pending(At(text, k))) = Gist(t)
  <2>1. k \in 1..Len(text) + 1
    <3>1. k \in (j + 1)..Len(text) + 1 /\ j \in Nat
      BY <1>1, <1>11
    <3>2. Len(text) + 1 \in Nat
      BY <1>0, Later
    <3> QED
      BY <3>1, <3>2, Later
  <2>2. Sound(At(text, k))
    BY <2>1, StepAtom
  <2>3. Spelt(At(text, k)) = <<>>
    <3>1. CASE Free(text, k)
      BY <2>1, <3>1, FreeFollows
    <3>2. CASE Unfinished(text, k)
      BY <3>2 DEF Unfinished, Spelt
    <3> QED
      BY <1>12, <3>1, <3>2
  <2> QED
    BY <1>11, <2>2, <2>3, PendingIs
<1>14. Dropped(r, s, Pending(At(text, k)))
  <2> DEFINE u == Pending(At(text, k))
  <2>1. /\ u.words = t.words /\ u.tokens = t.tokens /\ u.begins = t.begins /\ u.cases = t.cases
        /\ u.from = t.from /\ u.stmts = t.stmts /\ u.control = t.control /\ u.string = t.string
    <3> HIDE DEF u
    <3> QED
      BY <1>13 DEF Gist, u
  <2> HIDE DEF u
  <2> QED
    BY <1>10, <2>1 DEF Dropped, u
<1> QED
  BY <1>11, <1>12, <1>14 DEF Poised, r, s

\* ... a semicolon, ...
LEMMA SemicolonStep ==
  ASSUME NEW text, Script(text), ~Server(text).apart, NEW j \in 1..Len(text), Poised(text, j), text[j] = Cutter,
         NEW s, s = Pending(At(text, j)), NEW t, t = Pending(At(text, j + 1))
  PROVE  /\ Poised(text, j + 1)
         /\ s.begins + s.cases > 0 => Kept(s, t, s.tokens)
         /\ s.begins + s.cases = 0 => Restarted(text, s, t, j)
<1> DEFINE r == At(text, j + 1)
<1>1. /\ Kind(text[j]) = "semicolon" /\ ~Letter(text[j]) /\ text[j] # "'" /\ j \in Nat
      /\ j + 1 \in 1..Len(text) + 1 /\ (j + 1) - 1 = j
  <2>1. Len(text) \in Nat
    BY DEF Script
  <2>2. Kind(text[j]) = "semicolon"
    BY KindIs
  <2>3. "semicolon" # "letter" /\ "semicolon" # "quote"
    OBVIOUS
  <2>4. ~Letter(text[j]) /\ text[j] # "'"
    BY <2>2, <2>3, PlainKinds
  <2> QED
    BY <2>1, <2>2, <2>4
<1>2. j \in 1..Len(text) + 1 /\ Atom(text, j) = text[j] /\ Follows(At(text, j), text[j])
  BY <1>1, PoisedFollows
<1>3. Reached(text, s, r, text[j], j)
  BY <1>1, <1>2, Reaches
<1>4. /\ r.mode = "plain"
      /\ s.begins + s.cases > 0 => Kept(s, r, s.tokens)
      /\ s.begins + s.cases = 0 => Restarted(text, s, r, j)
  BY <1>1, <1>3 DEF Reached
<1>5. Free(text, j + 1)
  BY <1>1, <1>4 DEF Free, Behind
<1>6. Gist(t) = Gist(r)
  <2>1. Sound(r)
    BY <1>1, StepAtom
  <2>2. Spelt(r) = <<>>
    BY <1>1, <1>5, FreeFollows
  <2> QED
    BY <2>1, <2>2, PendingIs
<1> HIDE DEF r
<1>7. Restarted(text, s, r, j) => Restarted(text, s, t, j)
  BY <1>6 DEF Restarted, Gist
<1> QED
  BY <1>4, <1>5, <1>6, <1>7, KeptByGist DEF Poised

\* ... and a word.
Spelled(s, w, t) ==
  /\ t.string = s.string /\ t.from = s.from /\ t.stmts = s.stmts /\ t.control = s.control
  /\ t.tokens = Next2(s.tokens, w) /\ t.words = Next4(s.words, w)
  /\ CreatesRoutine(t.words) => ~s.string
  /\ t.begins + t.cases =
       IF w \in {<<"begin">>, <<"case">>} /\ CreatesRoutine(t.words) THEN s.begins + s.cases + 1
       ELSE IF w = <<"end">> /\ s.begins + s.cases > 0 THEN s.begins + s.cases - 1
       ELSE s.begins + s.cases

LEMMA SpelledAs ==
  ASSUME NEW s, NEW r, Sound(r), Kept(s, r, s.tokens), Spelt(r) # <<>>, ~Pending(r).apart
  PROVE  Spelled(s, Spelt(r), Pending(r))
<1> DEFINE w == Spelt(r)
           t == Pending(r)
           q == Rest(r)
<1>1. Named(q, w, t) /\ Gist(q) = Gist(r)
  BY PendingIs, RestIs
<1> HIDE DEF w, t, q
<1>2. /\ q.words = s.words /\ q.begins = s.begins /\ q.cases = s.cases /\ q.string = s.string
      /\ q.from = s.from /\ q.stmts = s.stmts /\ q.control = s.control /\ q.tokens = s.tokens
  BY <1>1 DEF Gist, Kept
<1>3. ~t.apart
  BY DEF t
<1>4. Spelled(s, w, t)
  BY <1>1, <1>2, <1>3 DEF Named, Spelled, Next2
<1> QED
  BY <1>4 DEF w, t

LEMMA FreeAtLetter ==
  ASSUME NEW text, Script(text), NEW j \in 1..Len(text), Poised(text, j), Letter(text[j])
  PROVE  Free(text, j) /\ j \in 1..Len(text) + 1 /\ Atom(text, j) = text[j]
<1>1. Len(text) \in Nat
  BY DEF Script
<1>2. j \in 1..Len(text) + 1 /\ Atom(text, j) = text[j]
  BY <1>1, AtomIs
<1>3. ~Unfinished(text, j)
  BY <1>1 DEF Unfinished
<1>4. \A p \in Nat : ~Worded(text, j, p)
  BY <1>2 DEF Worded, InWord, IsIdentByte
<1> QED
  BY <1>2, <1>3, <1>4 DEF Poised

\* The word has been read, in the text or behind a $ that opens nothing.
LEMMA WordRead ==
  ASSUME NEW text, Script(text), ~Server(text).apart, NEW j \in 1..Len(text), Poised(text, j), Letter(text[j]),
         NEW k, k = WordEnd(text, j)
  PROVE  /\ At(text, k).mode \in {"word", "tag"} /\ Spelt(At(text, k)) = SubSeq(text, j, k - 1)
         /\ Kept(Pending(At(text, j)), At(text, k), Pending(At(text, j)).tokens)
<1> DEFINE r == At(text, j)
           s == Pending(r)
           u == At(text, j + 1)
           v == At(text, k)
           c == text[j]
           w == SubSeq(text, j, k - 1)
<1>1. Free(text, j) /\ j \in 1..Len(text) + 1 /\ Atom(text, j) = c
  BY FreeAtLetter
<1>2. Spelt(r) = <<>> /\ (Follows(r, c) \/ (r.mode = "tag" /\ Letter(c)))
  BY <1>1, FreeFollows
<1>3. CASE Follows(r, c)
  <2>1. Kind(c) = "letter"
    BY KindIs
  <2>2. Reached(text, s, u, c, j)
    <3>1. ~(Spelt(r) = <<"e">> /\ c = "'")
      BY <1>2
    <3> QED
      BY <1>1, <1>3, <3>1, Reaches
  <2> HIDE DEF s
  <2>3. u.mode = "word" /\ u.seen = <<c>> /\ Kept(s, u, s.tokens)
    BY <2>1, <2>2 DEF Reached
  <2>4. v.mode = "word" /\ v.seen = w /\ Gist(v) = Gist(u)
    BY <2>3, WordStretch
  <2> HIDE DEF u, v, w
  <2>5. Kept(s, v, s.tokens)
    BY <2>3, <2>4, KeptByGist
  <2> QED
    BY <2>4, <2>5 DEF s, v, w, Spelt
<1>4. CASE ~Follows(r, c)
  <2>1. /\ r.mode = "tag" /\ r.seen = <<"$">>
        /\ j > 1 /\ text[j - 1] = "$" /\ Tagless(text, j - 1)
    BY <1>1, <1>2, <1>4 DEF Free, Follows
  <2>2. PICK d \in 1..Len(text) : d = j - 1 /\ d + 1 = j
    <3>1. Len(text) \in Nat
      BY DEF Script
    <3>2. j > 1 /\ j \in 1..Len(text)
      BY <2>1
    <3> QED
      BY <3>1, <3>2
  <2>3. /\ text[d] = "$" /\ Tagless(text, d) /\ d + 1 \in 1..Len(text) /\ Letter(text[d + 1]) /\ k = WordEnd(text, d + 1)
        /\ At(text, d + 1).mode = "tag" /\ At(text, d + 1).seen = <<"$">>
    BY <2>1, <2>2
  <2>4. v.mode = "tag" /\ Tail(v.seen) = SubSeq(text, d + 1, k - 1) /\ Gist(v) = Gist(At(text, d + 1))
    BY <2>3, TagWordStretch
  <2>5. v.mode = "tag" /\ Tail(v.seen) = w /\ Gist(v) = Gist(r)
    BY <2>2, <2>4
  <2>6. Gist(s) = Gist(r)
    BY <1>1, <1>2, StepAtom, PendingIs
  <2> HIDE DEF s, v, w, r
  <2>7. Kept(s, v, s.tokens)
    BY <2>5, <2>6, KeptGist
  <2> QED
    BY <2>5, <2>7 DEF s, v, w, r, Spelt
<1> QED
  BY <1>3, <1>4

LEMMA WordStep ==
  ASSUME NEW text, Script(text), ~Server(text).apart, NEW j \in 1..Len(text), Poised(text, j), Letter(text[j]),
         NEW k, k = WordEnd(text, j), NEW w, w = SubSeq(text, j, k - 1)
  PROVE  /\ k \in j + 1..Len(text) + 1 /\ Poised(text, k) /\ w \in Spelling /\ w # <<>>
         /\ Spelled(Pending(At(text, j)), w, Pending(At(text, k)))
<1> DEFINE s == Pending(At(text, j))
           v == At(text, k)
<1>1. /\ k \in j + 1..Len(text) + 1
      /\ \A m \in j..k - 1 : InWord(text[m])
      /\ ~InWord(Atom(text, k))
  BY WordEndIs
<1>2. Len(text) \in Nat /\ j \in Nat /\ text \in Seq(STRING)
  BY DEF Script
<1>3. k \in 1..Len(text) + 1 /\ j \in 1..k - 1 /\ k - 1 \in (j - 1)..Len(text) /\ k - 1 - j + 1 > 0
  <2>1. k \in j + 1..Len(text) + 1 /\ j \in Nat /\ Len(text) \in Nat
    BY <1>1, <1>2
  <2> QED
    BY <2>1
<1>4. Free(text, j)
  BY FreeAtLetter
<1>5. v.mode \in {"word", "tag"} /\ Spelt(v) = w /\ Kept(s, v, s.tokens)
  BY WordRead
<1>6. Worded(text, k, j)
  BY <1>1, <1>3, <1>4, <1>5 DEF Worded, Free
<1>7. Poised(text, k)
  BY <1>2, <1>6 DEF Poised
<1>8. Sound(v) /\ ~Pending(v).apart
  BY <1>3, <1>7, StepAtom, PoisedApart
<1>9. w \in Spelling /\ w # <<>>
  <2>1. j \in 1..Len(text) + 1
    BY <1>2
  <2>2. Len(w) = k - 1 - j + 1
    BY <1>2, <1>3, <2>1, SliceIs
  <2>3. w # <<>>
    <3>1. Len(w) > 0
      BY <1>3, <2>2
    <3> QED
      BY <3>1, Filled
  <2>4. w \in Spelling
    BY <1>5, <1>8, RestIs
  <2> QED
    BY <2>3, <2>4
<1> HIDE DEF s, v
<1>10. Spelled(s, w, Pending(v))
  BY <1>5, <1>8, <1>9, SpelledAs
<1> QED
  BY <1>1, <1>7, <1>9, <1>10 DEF s, v

\* At the end the line break ends what it can, and the last statement is cut.
LEMMA ServerIs ==
  ASSUME NEW text, Script(text)
  PROVE  Server(text) = Cut(text, Moved(At(text, Len(text) + 2), Len(text) + 1))
<1>1. Len(text) \in Nat
  BY DEF Script
<1>2. (Len(text) + 2) - 1 = Len(text) + 1
  BY <1>1
<1> QED
  BY <1>2 DEF Server, At, Moved

LEMMA BreakTurns ==
  ASSUME NEW text, Script(text), ~Server(text).apart, NEW j \in Nat, j = Len(text) + 1, Poised(text, j)
  PROVE  Kept(Pending(At(text, j)), At(text, j + 1), Pending(At(text, j)).tokens)
<1> DEFINE r == At(text, j)
           s == Pending(r)
           t == At(text, j + 1)
<1>1. Len(text) \in Nat /\ j \in 1..Len(text) + 1
  <2>1. Len(text) \in Nat
    BY DEF Script
  <2> QED
    BY <2>1
<1>2. Atom(text, j) = "\n"
  BY AtomIs
<1>3. /\ Sound(r) /\ "\n" \in Chars /\ "\n" \in Atoms /\ j + 1 \in Nat /\ t = Moved(Reads(text, r, "\n"), j + 1)
  BY <1>1, <1>2, StepAtom
<1>4. CASE Follows(r, "\n")
  <2>1. Kind("\n") = "blank" /\ "\n" # "'"
    <3>1. "\n" \in Blank
      BY DEF Blank
    <3>2. Kind("\n") = "blank"
      BY <3>1, KindIs
    <3> QED
      BY <3>2, PlainKinds
  <2>2. Reached(text, s, t, "\n", j)
    BY <1>1, <1>2, <1>4, <2>1, Reaches
  <2> HIDE DEF s, t
  <2>3. Kept(s, t, s.tokens)
    BY <2>1, <2>2 DEF Reached
  <2> QED
    BY <2>3 DEF s, t
<1>5. CASE Unfinished(text, j)
  <2>1. r.mode \in {"quoted", "escapes", "escaped", "line", "block", "dollar"}
    BY <1>5 DEF Unfinished
  <2>2. Spelt(r) = <<>>
    BY <2>1 DEF Spelt
  <2>3. Gist(s) = Gist(r)
    BY <1>3, <2>2, PendingIs
  <2>4. Gist(t) = Gist(r)
    <3>1. CASE r.mode = "line"
      BY <1>3, <3>1, LineTurn DEF Turned
    <3>2. CASE r.mode = "block"
      BY <1>3, <3>2, BlockTurn DEF Turned
    <3>3. CASE r.mode = "dollar"
      <4>1. Turned(r, t, IF IsSuffix(r.delim, Append(r.seen, "\n")) THEN "plain" ELSE "dollar",
                   Append(r.seen, "\n"), r.delim, r.open)
        BY <1>3, <3>3, DollarTurn
      <4> QED
        BY <4>1, Zenon DEF Turned
    <3>4. CASE r.mode \in {"quoted", "escapes", "escaped"}
      BY <1>3, <3>4, QuotedTurn DEF Turned
    <3> QED
      BY <2>1, <3>1, <3>2, <3>3, <3>4
  <2> HIDE DEF r, s, t
  <2>5. Kept(s, t, s.tokens)
    BY <2>3, <2>4, KeptGist
  <2> QED
    BY <2>5 DEF r, s, t
<1>6. CASE Free(text, j)
  BY <1>1, <1>2, <1>4, <1>6, FreeFollows, NoLetters
<1>7. CASE \E p \in Nat : Worded(text, j, p)
  BY <1>1, <1>2, <1>4, <1>7, WordedFollows
<1> QED
  BY <1>5, <1>6, <1>7 DEF Poised

Finished(text, s, t) ==
  /\ t.stmts = IF Solid(text, s.from, Len(text) + 1) THEN Append(s.stmts, <<s.from, Len(text) + 1>>) ELSE s.stmts
  /\ t.control => s.control \/ Controls(s.tokens)

LEMMA FinishStep ==
  ASSUME NEW text, Script(text), ~Server(text).apart, NEW j \in Nat, j = Len(text) + 1, Poised(text, j)
  PROVE  Finished(text, Pending(At(text, j)), Server(text))
<1> DEFINE s == Pending(At(text, j))
           t == At(text, j + 1)
           v == Moved(t, j)
<1>1. Kept(s, t, s.tokens)
  BY BreakTurns
<1>2. Len(text) \in Nat /\ j + 1 = Len(text) + 2 /\ j + 1 \in 1..Len(text) + 2
  <2>1. Len(text) \in Nat
    BY DEF Script
  <2> QED
    BY <2>1
<1>3. Server(text) = Cut(text, v)
  BY <1>2, ServerIs
<1>4. Sound(t)
  BY <1>2, AtIs
<1>5. Sound(v) /\ v.at = j /\ Gist(v) = Gist(t)
  BY <1>4, MovedIs DEF Turned
<1> HIDE DEF v, t, s
<1>6. Closed(text, v, Server(text))
  BY <1>3, <1>5, CutIs
<1>7. Kept(s, v, s.tokens)
  BY <1>1, <1>5, KeptByGist
<1>8. Finished(text, s, Server(text))
  BY <1>5, <1>6, <1>7 DEF Closed, Kept, Finished
<1> QED
  BY <1>8 DEF s

-----------------------------------------------------------------------------
(* The two readings of a text, side by side. *)

\* An e that the reader has not taken for a word, where no head can follow it.
Lost(ws) == ~CreatesRoutine(ws) /\ \E k \in DOMAIN ws : ws[k] = <<"e">>

\* The splitter has the same statement open, as deep, and sees a routine in it
\* when the reader does: the words that tell are the same, or they have told,
\* or a string has come between that keeps them from telling.
SameWords(s, ws) ==
  \/ ws = s.words
  \/ CreatesRoutine(ws) /\ CreatesRoutine(s.words)
  \/ s.string /\ Lost(ws) /\ ~CreatesRoutine(s.words)

Agrees(s, from, ws, d, cut) ==
  s.from = from /\ s.stmts = cut /\ d = s.begins + s.cases /\ SameWords(s, ws)

\* The splitter is under way, ...
Along(text, j, from, ws, d, cut) ==
  /\ j \in 1..Len(text) + 1 /\ from <= j /\ ws \in Seq(Spelling)
  /\ Poised(text, j) /\ Agrees(Pending(At(text, j)), from, ws, d, cut)

\* ... or it has finished.
Over(text, j, from, cut) ==
  j = Len(text) + 1 /\ from = Len(text) + 2 /\ cut = Server(text).stmts

\* The inductive invariant: the server reads the text, atom by atom, to where
\* the splitter stands, and has made the same of it.
InStep ==
  sql \in Texts /\ (Read.apart \/ Over(sql, i, start, stmts) \/ Along(sql, i, start, words, depth, stmts))

LEMMA LostStays ==
  ASSUME NEW ws \in Seq(Spelling), NEW w \in Spelling, Lost(ws)
  PROVE  Lost(Next4(ws, w))
<1>1. PICK k \in 1..Len(ws) : ws[k] = <<"e">>
  BY DEF Lost
<1>2. CASE Len(ws) < 4
  <2> DEFINE vs == Append(ws, w)
  <2>1. Len(vs) = Len(ws) + 1 /\ \A n \in 1..Len(ws) : vs[n] = ws[n]
    OBVIOUS
  <2>2. k \in DOMAIN vs /\ vs[k] = <<"e">>
    BY <1>1, <2>1
  <2>3. ~CreatesRoutine(vs)
    <3>1. SUFFICES ASSUME NEW head \in {<<"create", "function">>, <<"create", "or", "replace", "function">>},
                          Len(head) <= Len(vs), \A n \in DOMAIN head : vs[n] = <<head[n]>>
                   PROVE  FALSE
      BY DEF CreatesRoutine
    <3> HIDE DEF vs
    <3>2. CASE Len(head) <= Len(ws)
      <4>1. \A n \in DOMAIN head : ws[n] = <<head[n]>>
        BY <2>1, <3>1, <3>2
      <4> QED
        BY <3>2, <4>1 DEF Lost, CreatesRoutine
    <3>3. CASE Len(head) > Len(ws)
      <4>1. k \in DOMAIN head
        BY <1>1, <3>3
      <4>2. <<"e">> = <<head[k]>>
        BY <1>1, <2>1, <3>1, <4>1
      <4>3. head[k] # "e"
        BY <4>1
      <4> QED
        BY <4>2, <4>3
    <3> QED
      BY <3>2, <3>3
  <2> QED
    BY <1>2, <2>2, <2>3 DEF Lost, Next4
<1>3. CASE ~(Len(ws) < 4)
  BY <1>3 DEF Next4
<1> QED
  BY <1>2, <1>3

\* A word is one more of both, ...
LEMMA SameByWord ==
  ASSUME NEW s, NEW t, NEW w \in Spelling, NEW ws \in Seq(Spelling), s.words \in Seq(Spelling),
         Spelled(s, w, t), SameWords(s, ws)
  PROVE  /\ SameWords(t, Next4(ws, w))
         /\ CreatesRoutine(Next4(ws, w)) <=> CreatesRoutine(t.words)
<1>1. t.words = Next4(s.words, w) /\ t.string = s.string /\ (CreatesRoutine(t.words) => ~s.string)
  BY DEF Spelled
<1>2. CASE ws = s.words
  BY <1>1, <1>2 DEF SameWords
<1>3. CASE CreatesRoutine(ws) /\ CreatesRoutine(s.words)
  BY <1>1, <1>3, Next4Is DEF SameWords
<1>4. CASE s.string /\ Lost(ws) /\ ~CreatesRoutine(s.words)
  <2>1. Lost(Next4(ws, w))
    BY <1>4, LostStays
  <2>2. ~CreatesRoutine(Next4(ws, w))
    BY <2>1 DEF Lost
  <2> QED
    BY <1>1, <1>4, <2>1, <2>2 DEF SameWords
<1> QED
  BY <1>2, <1>3, <1>4 DEF SameWords

\* ... and an e that is dropped makes no difference that tells.
LEMMA SameByDrop ==
  ASSUME NEW r, NEW s, NEW t, NEW ws, Dropped(r, s, t), SameWords(s, ws)
  PROVE  SameWords(t, ws)
<1> DEFINE e == <<"e">>
<1>1. /\ r.words \in Seq(Spelling) /\ e \in Spelling /\ s.words = Next4(r.words, e) /\ t.words = r.words
      /\ s.string \/ ~CreatesRoutine(r.words) => t.string
  BY DEF Dropped
<1>2. CreatesRoutine(s.words) <=> CreatesRoutine(t.words)
  BY <1>1, Next4Is
<1>3. CASE ws = s.words /\ ~CreatesRoutine(t.words) /\ Len(r.words) < 4
  <2>1. ws = Append(r.words, e)
    BY <1>1, <1>3 DEF Next4
  <2>2. Len(r.words) + 1 \in DOMAIN ws /\ ws[Len(r.words) + 1] = e
    BY <1>1, <2>1
  <2>3. Lost(ws)
    BY <1>2, <1>3, <2>2 DEF Lost
  <2> QED
    BY <1>1, <1>3, <2>3 DEF SameWords
<1>4. CASE ws = s.words /\ ~CreatesRoutine(t.words) /\ ~(Len(r.words) < 4)
  BY <1>1, <1>4 DEF SameWords, Next4
<1>5. CASE ws = s.words /\ CreatesRoutine(t.words)
  BY <1>2, <1>5 DEF SameWords
<1>6. CASE CreatesRoutine(ws) /\ CreatesRoutine(s.words)
  BY <1>2, <1>6 DEF SameWords
<1>7. CASE s.string /\ Lost(ws) /\ ~CreatesRoutine(s.words)
  BY <1>1, <1>2, <1>7 DEF SameWords
<1> QED
  BY <1>3, <1>4, <1>5, <1>6, <1>7 DEF SameWords

LEMMA AgreesKept ==
  ASSUME NEW s, NEW t, NEW ts, Kept(s, t, ts), NEW from, NEW ws, NEW d, NEW cut, Agrees(s, from, ws, d, cut)
  PROVE  Agrees(t, from, ws, d, cut)
<1>1. SameWords(s, ws) => SameWords(t, ws)
  BY DEF Kept, SameWords
<1> QED
  BY <1>1 DEF Kept, Agrees

LEMMA AgreesDropped ==
  ASSUME NEW r, NEW s, NEW t, Dropped(r, s, t), NEW from, NEW ws, NEW d, NEW cut, Agrees(s, from, ws, d, cut)
  PROVE  Agrees(t, from, ws, d, cut)
<1>1. SameWords(t, ws)
  BY SameByDrop DEF Agrees
<1> QED
  BY <1>1 DEF Agrees, Dropped

LEMMA AlongIs ==
  ASSUME NEW text, Script(text), NEW j, NEW from, NEW ws, NEW d, NEW cut, Along(text, j, from, ws, d, cut),
         NEW s, s = Pending(At(text, j))
  PROVE  /\ s.words \in Seq(Spelling) /\ s.from \in Nat /\ s.begins \in Nat /\ s.cases \in Nat /\ s.at = j
         /\ from \in Nat /\ d \in Nat /\ j \in Nat /\ Len(text) \in Nat
<1>1. j \in 1..Len(text) + 1 /\ Agrees(s, from, ws, d, cut)
  BY DEF Along
<1>2. Sound(s) /\ s.at = j /\ j \in Nat
  BY <1>1, StepAtom, PendingIs
<1>3. s.words \in Seq(Spelling) /\ s.from \in Nat /\ s.begins \in Nat /\ s.cases \in Nat
  BY <1>2, Zenon DEF Sound, Reader
<1>4. Len(text) \in Nat
  BY DEF Script
<1>5. from = s.from /\ d = s.begins + s.cases
  BY <1>1 DEF Agrees
<1> QED
  BY <1>2, <1>3, <1>4, <1>5

\* The text goes on while it is scanned.
LEMMA Scans ==
  ASSUME NEW text, Script(text), NEW j, NEW from, NEW ws, NEW d, NEW cut, Along(text, j, from, ws, d, cut),
         j < End(text)
  PROVE  j \in 1..Len(text) /\ Poised(text, j) /\ text[j] \in Chars /\ Agrees(Pending(At(text, j)), from, ws, d, cut)
<1>1. j \in 1..Len(text) + 1 /\ Poised(text, j) /\ Agrees(Pending(At(text, j)), from, ws, d, cut)
  BY DEF Along
<1>2. Len(text) \in Nat
  BY DEF Script
<1>3. j \in 1..Len(text)
  BY <1>1, <1>2 DEF End
<1> QED
  BY <1>1, <1>3, Step

LEMMA AlongFrom ==
  ASSUME NEW text, Script(text), NEW j, NEW from, NEW ws, NEW d, NEW cut, Along(text, j, from, ws, d, cut),
         NEW k \in j + 1..Len(text) + 1
  PROVE  k \in 1..Len(text) + 1 /\ from <= k
<1>1. from <= j /\ j \in Nat /\ from \in Nat /\ Len(text) \in Nat /\ j >= 1
  BY AlongIs DEF Along
<1> QED
  BY <1>1

LEMMA AlongWent ==
  ASSUME NEW text, Script(text), NEW j, NEW from, NEW ws, NEW d, NEW cut, Along(text, j, from, ws, d, cut),
         NEW k, NEW ts, Went(text, j, k, ts)
  PROVE  Along(text, k, from, ws, d, cut)
<1>1. k \in 1..Len(text) + 1 /\ from <= k
  <2>1. k \in j + 1..Len(text) + 1
    BY DEF Went
  <2> QED
    BY <2>1, AlongFrom
<1>2. Poised(text, k) /\ Kept(Pending(At(text, j)), Pending(At(text, k)), ts)
  BY DEF Went
<1>3. Agrees(Pending(At(text, j)), from, ws, d, cut) /\ ws \in Seq(Spelling)
  BY DEF Along
<1>4. Agrees(Pending(At(text, k)), from, ws, d, cut)
  BY <1>2, <1>3, AgreesKept
<1> QED
  BY <1>1, <1>2, <1>3, <1>4 DEF Along

LEMMA AlongEscapes ==
  ASSUME NEW text, Script(text), ~Server(text).apart, NEW j, NEW from, NEW ws, NEW d, NEW cut,
         Along(text, j, from, ws, d, cut), j < End(text), text[j] = "'", IsEString(text, j),
         NEW k, k = SkipQuoted(text, j, text[j], TRUE)
  PROVE  Along(text, k, from, ws, d, cut)
<1>1. j \in 1..Len(text) /\ Poised(text, j) /\ Agrees(Pending(At(text, j)), from, ws, d, cut)
  BY Scans
<1>2. /\ k \in j + 1..Len(text) + 1 /\ Poised(text, k)
      /\ Dropped(At(text, j), Pending(At(text, j)), Pending(At(text, k)))
  BY <1>1, EscapesStep
<1>3. Agrees(Pending(At(text, k)), from, ws, d, cut)
  BY <1>1, <1>2, AgreesDropped
<1>4. k \in 1..Len(text) + 1 /\ from <= k
  BY <1>2, AlongFrom
<1> QED
  BY <1>2, <1>3, <1>4 DEF Along

LEMMA AlongSemicolon ==
  ASSUME NEW text, Script(text), ~Server(text).apart, NEW j, NEW from, NEW ws, NEW d, NEW cut,
         Along(text, j, from, ws, d, cut), j < End(text), text[j] = Cutter
  PROVE  /\ d > 0 => Along(text, j + 1, from, ws, d, cut)
         /\ ~(d > 0) => Along(text, j + 1, j + 1, <<>>, 0,
                              IF Solid(text, from, j) THEN Append(cut, <<from, j>>) ELSE cut)
<1> DEFINE s == Pending(At(text, j))
           t == Pending(At(text, j + 1))
<1>1. j \in 1..Len(text) /\ Poised(text, j) /\ Agrees(s, from, ws, d, cut)
  BY Scans
<1>2. /\ Poised(text, j + 1)
      /\ s.begins + s.cases > 0 => Kept(s, t, s.tokens)
      /\ s.begins + s.cases = 0 => Restarted(text, s, t, j)
  BY <1>1, SemicolonStep
<1>3. s.begins \in Nat /\ s.cases \in Nat /\ j \in Nat /\ Len(text) \in Nat /\ d \in Nat
  BY AlongIs
<1>4. j + 1 \in j + 1..Len(text) + 1 /\ j + 1 \in 1..Len(text) + 1 /\ j + 1 <= j + 1
  BY <1>1, <1>3
<1>5. from <= j + 1 /\ ws \in Seq(Spelling)
  BY <1>4, AlongFrom DEF Along
<1> HIDE DEF s, t
<1>6. d = s.begins + s.cases /\ s.from = from /\ s.stmts = cut
  BY <1>1 DEF Agrees
<1>7. CASE d > 0
  <2>1. Agrees(t, from, ws, d, cut)
    BY <1>1, <1>2, <1>6, <1>7, AgreesKept
  <2> QED
    BY <1>2, <1>4, <1>5, <1>7, <2>1 DEF Along, t
<1>8. CASE ~(d > 0)
  <2> DEFINE now == IF Solid(text, from, j) THEN Append(cut, <<from, j>>) ELSE cut
  <2>1. s.begins + s.cases = 0
    BY <1>3, <1>6, <1>8
  <2>2. Restarted(text, s, t, j)
    BY <1>2, <2>1
  <2>3. t.stmts = now /\ t.from = j + 1 /\ t.words = <<>> /\ t.begins = 0 /\ t.cases = 0
    BY <1>6, <2>2 DEF Restarted
  <2> HIDE DEF now
  <2>4. Agrees(t, j + 1, <<>>, 0, now)
    BY <2>3 DEF Agrees, SameWords
  <2>5. <<>> \in Seq(Spelling)
    BY NoSpelling
  <2>6. Along(text, j + 1, j + 1, <<>>, 0, now)
    BY <1>2, <1>4, <2>4, <2>5 DEF Along, t
  <2> QED
    BY <1>8, <2>6 DEF now
<1> QED
  BY <1>7, <1>8

Deeper(w, seen, d) ==
  IF w \in {<<"begin">>, <<"case">>} /\ RoutineBody(seen) THEN d + 1 ELSE IF w = <<"end">> /\ d > 0 THEN d - 1 ELSE d

Told(seen, t) == RoutineBody(seen) <=> CreatesRoutine(t.words)

LEMMA DeepAs ==
  ASSUME NEW s, NEW w, NEW t, Spelled(s, w, t), s.begins \in Nat, s.cases \in Nat, NEW seen, Told(seen, t)
  PROVE  t.begins + t.cases = Deeper(w, seen, s.begins + s.cases) /\ t.from = s.from /\ t.stmts = s.stmts
  BY DEF Spelled, Deeper, Told

LEMMA AlongWord ==
  ASSUME NEW text, Script(text), ~Server(text).apart, NEW j, NEW from, NEW ws, NEW d, NEW cut,
         Along(text, j, from, ws, d, cut), j < End(text), Letter(text[j]),
         NEW k, k = WordEnd(text, j), NEW w, w = SubSeq(text, j, k - 1), NEW seen, seen = Next4(ws, w)
  PROVE  Along(text, k, from, seen, Deeper(w, seen, d), cut)
<1> DEFINE s == Pending(At(text, j))
           t == Pending(At(text, k))
           deep == Deeper(w, seen, d)
<1>1. j \in 1..Len(text) /\ Poised(text, j) /\ Agrees(s, from, ws, d, cut)
  BY Scans
<1>2. k \in j + 1..Len(text) + 1 /\ Poised(text, k) /\ w \in Spelling /\ Spelled(s, w, t)
  BY <1>1, WordStep
<1>3. s.words \in Seq(Spelling) /\ ws \in Seq(Spelling) /\ s.begins \in Nat /\ s.cases \in Nat
  BY AlongIs DEF Along
<1>4. k \in 1..Len(text) + 1 /\ from <= k
  BY <1>2, AlongFrom
<1> HIDE DEF s, t
<1>5. SameWords(t, seen) /\ (CreatesRoutine(seen) <=> CreatesRoutine(t.words))
  <2>1. SameWords(s, ws)
    BY <1>1 DEF Agrees
  <2> QED
    BY <1>2, <1>3, <2>1, SameByWord
<1>6. seen \in Seq(Spelling) /\ (RoutineBody(seen) <=> CreatesRoutine(seen))
  BY <1>2, <1>3, Next4Is, RoutineIs
<1>7. d = s.begins + s.cases /\ s.from = from /\ s.stmts = cut
  BY <1>1 DEF Agrees
<1>8. t.begins + t.cases = deep /\ t.from = from /\ t.stmts = cut
  <2>1. Spelled(s, w, t) /\ Told(seen, t)
    BY <1>2, <1>5, <1>6 DEF Told
  <2>2. t.begins + t.cases = Deeper(w, seen, s.begins + s.cases) /\ t.from = s.from /\ t.stmts = s.stmts
    BY <1>3, <2>1, DeepAs, Zenon
  <2> QED
    BY <1>7, <2>2
<1> HIDE DEF deep
<1>9. Agrees(t, from, seen, deep, cut)
  BY <1>5, <1>8 DEF Agrees
<1>10. Along(text, k, from, seen, deep, cut)
  BY <1>2, <1>4, <1>6, <1>9 DEF Along, t
<1> QED
  BY <1>10 DEF deep

LEMMA AlongFinish ==
  ASSUME NEW text, Script(text), ~Server(text).apart, NEW j, NEW from, NEW ws, NEW d, NEW cut,
         Along(text, j, from, ws, d, cut), j = End(text)
  PROVE  Server(text).stmts = IF Solid(text, from, End(text)) THEN Append(cut, <<from, End(text)>>) ELSE cut
<1> DEFINE s == Pending(At(text, j))
<1>1. Poised(text, j) /\ s.from = from /\ s.stmts = cut /\ j \in Nat /\ j = Len(text) + 1
  BY AlongIs DEF Along, Agrees, End
<1>2. Finished(text, s, Server(text))
  BY <1>1, FinishStep
<1> QED
  BY <1>1, <1>2 DEF Finished, End

-----------------------------------------------------------------------------
(* The invariant. *)

LEMMA TextIsScript == ASSUME NEW text \in Texts PROVE Script(text)
  BY TextsAssumption DEF Script

LEMMA PassedOver ==
  ASSUME NEW c, c \in Blank \/ (c \in Signs /\ c \notin Quotes /\ c # "--" /\ c # "/*" /\ c # "$" /\ c # Cutter)
  PROVE  Kind(c) \in {"blank", "paren", "other"}
<1>1. Kind(c) \notin {"quote", "dollar", "line", "block", "semicolon"}
  <2>1. CASE c \in Blank
    BY <2>1, KindIs
  <2>2. CASE c \notin Blank
    BY <2>2, KindIs
  <2> QED
    BY <2>1, <2>2
<1>2. Kind(c) # "letter"
  <2>1. ~Letter(c)
    BY Zenon DEF Letter
  <2> QED
    BY <2>1, KindIs
<1> QED
  BY <1>1, <1>2, Zenon DEF Kind

LEMMA OtherKinds ==
  \A c : c \in Blank \cup (Signs \ {"'", "\"", "--", "/*", "$", ";"}) => Kind(c) \in {"blank", "paren", "other"}
<1>1. \A c : c \in Blank \cup (Signs \ {"'", "\"", "--", "/*", "$", ";"})
             => c \in Blank \/ (c \in Signs /\ c \notin Quotes /\ c # "--" /\ c # "/*" /\ c # "$" /\ c # Cutter)
  BY Zenon DEF Quotes, Cutter
<1> QED
  BY <1>1, PassedOver, Zenon

\* The splitter is under way in a text that is not apart.
LEMMA Underway ==
  ASSUME InStep, ~Read.apart, ~Over(sql, i, start, stmts)
  PROVE  /\ sql \in Texts /\ Script(sql) /\ ~Server(sql).apart
         /\ Along(sql, i, start, words, depth, stmts)
BY TextIsScript DEF InStep, Read

LEMMA QuoteGoes ==
  ASSUME Script(sql), ~Server(sql).apart, Along(sql, i, start, words, depth, stmts), Quote
  PROVE  Along(sql', i', start', words', depth', stmts')
<1> DEFINE k == SkipQuoted(sql, i, sql[i], sql[i] = "'" /\ IsEString(sql, i))
<1>1. i < End(sql) /\ sql[i] \in Quotes
  BY Zenon DEF Quote, Scanning, Here, Quotes
<1>2. i' = k /\ UNCHANGED <<sql, start, words, depth, stmts>>
  BY Zenon DEF Quote, SkipTo, Here
<1>3. Along(sql, k, start, words, depth, stmts)
  <2>1. i \in 1..Len(sql) /\ Poised(sql, i)
    BY <1>1, Scans
  <2>2. CASE sql[i] = "'" /\ IsEString(sql, i)
    <3>1. k = SkipQuoted(sql, i, sql[i], TRUE)
      BY <2>2, Zenon
    <3> HIDE DEF k
    <3> QED
      BY <1>1, <2>2, <3>1, AlongEscapes
  <2>3. CASE ~(sql[i] = "'" /\ IsEString(sql, i))
    <3>1. k = SkipQuoted(sql, i, sql[i], FALSE)
      <4>1. (sql[i] = "'" /\ IsEString(sql, i)) = FALSE
        BY <2>3, Zenon
      <4> QED
        BY <4>1, Zenon
    <3> HIDE DEF k
    <3>2. Went(sql, i, k, Next2(Pending(At(sql, i)).tokens, <<>>))
      BY <1>1, <2>1, <2>3, <3>1, QuoteStep
    <3> QED
      BY <3>2, AlongWent
  <2> QED
    BY <2>2, <2>3
<1> HIDE DEF k
<1> QED
  BY <1>2, <1>3, Zenon

LEMMA CommentGoes ==
  ASSUME Script(sql), ~Server(sql).apart, Along(sql, i, start, words, depth, stmts), Comment
  PROVE  Along(sql', i', start', words', depth', stmts')
<1>1. i \in 1..Len(sql) /\ Poised(sql, i)
  BY Scans DEF Comment, Scanning
<1>2. CASE sql[i] = "--" /\ SkipTo(SkipLine(sql, i))
  <2>1. Along(sql, SkipLine(sql, i), start, words, depth, stmts)
    BY <1>1, <1>2, LineStep, AlongWent
  <2> QED
    BY <1>2, <2>1, Zenon DEF SkipTo
<1>3. CASE sql[i] = "/*" /\ SkipTo(SkipBlockComment(sql, i))
  <2>1. Along(sql, SkipBlockComment(sql, i), start, words, depth, stmts)
    BY <1>1, <1>3, BlockStep, AlongWent
  <2> QED
    BY <1>3, <2>1, Zenon DEF SkipTo
<1> QED
  BY <1>2, <1>3, Zenon DEF Comment, Here

LEMMA DollarQuoteGoes ==
  ASSUME Script(sql), ~Server(sql).apart, Along(sql, i, start, words, depth, stmts), DollarQuote
  PROVE  Along(sql', i', start', words', depth', stmts')
<1>1. i \in 1..Len(sql) /\ Poised(sql, i) /\ sql[i] = "$"
  BY Scans DEF DollarQuote, Scanning, Here
<1>2. Along(sql, SkipDollarQuoted(sql, i), start, words, depth, stmts)
  BY <1>1, DollarStep, AlongWent
<1> QED
  BY <1>2, Zenon DEF DollarQuote, SkipTo

LEMMA SemicolonGoes ==
  ASSUME Script(sql), ~Server(sql).apart, Along(sql, i, start, words, depth, stmts), Semicolon
  PROVE  Along(sql', i', start', words', depth', stmts')
<1>1. i < End(sql) /\ sql[i] = Cutter
  BY Zenon DEF Semicolon, Scanning, Here, Cutter
<1>2. CASE depth > 0
  BY <1>1, <1>2, AlongSemicolon, Zenon DEF Semicolon
<1>3. CASE ~(depth > 0)
  <2>1. /\ sql' = sql /\ i' = i + 1 /\ start' = i + 1 /\ words' = <<>> /\ depth' = 0
        /\ stmts' = IF Solid(sql, start, i) THEN Append(stmts, <<start, i>>) ELSE stmts
    BY <1>3, Zenon DEF Semicolon, Flushed
  <2> QED
    BY <1>1, <1>3, <2>1, AlongSemicolon, Zenon
<1> QED
  BY <1>2, <1>3

LEMMA WordGoes ==
  ASSUME Script(sql), ~Server(sql).apart, Along(sql, i, start, words, depth, stmts), Word
  PROVE  Along(sql', i', start', words', depth', stmts')
<1> DEFINE k == WordEnd(sql, i)
           w == SubSeq(sql, i, k - 1)
           seen == Next4(words, w)
           deep == Deeper(w, seen, depth)
<1>1. i < End(sql) /\ Letter(sql[i])
  BY Zenon DEF Word, Scanning, Here, IsIdentByte
<1>2. sql' = sql /\ i' = k /\ start' = start /\ words' = seen /\ depth' = deep /\ stmts' = stmts
  BY Zenon DEF Word, Next4, Deeper
<1>3. Along(sql, k, start, seen, deep, stmts)
  BY <1>1, AlongWord
<1> HIDE DEF deep, seen, w, k
<1> QED
  BY <1>2, <1>3, Zenon

LEMMA OtherGoes ==
  ASSUME Script(sql), ~Server(sql).apart, Along(sql, i, start, words, depth, stmts), Other
  PROVE  Along(sql', i', start', words', depth', stmts')
<1>1. i \in 1..Len(sql) /\ Poised(sql, i)
  <2>1. i < End(sql)
    BY Zenon DEF Other, Scanning
  <2> QED
    BY <2>1, Scans
<1>2. Kind(sql[i]) \in {"blank", "paren", "other"}
  BY OtherKinds, Zenon DEF Other, Here
<1>3. Along(sql, i + 1, start, words, depth, stmts)
  BY <1>1, <1>2, OtherStep, AlongWent
<1> QED
  BY <1>3, Zenon DEF Other, SkipTo

LEMMA FinishGoes ==
  ASSUME Script(sql), ~Server(sql).apart, Along(sql, i, start, words, depth, stmts), Finish
  PROVE  Over(sql', i', start', stmts')
<1>1. Len(sql) \in Nat
  BY DEF Script
<1>2. /\ sql' = sql /\ i' = i /\ i = End(sql) /\ start' = End(sql) + 1
      /\ stmts' = IF Solid(sql, start, End(sql)) THEN Append(stmts, <<start, End(sql)>>) ELSE stmts
  BY Zenon DEF Finish, Flushed
<1>3. Server(sql).stmts = stmts'
  BY <1>2, AlongFinish
<1>4. End(sql) = Len(sql) + 1 /\ End(sql) + 1 = Len(sql) + 2
  BY <1>1 DEF End
<1> QED
  BY <1>2, <1>3, <1>4, Zenon DEF Over

LEMMA InitInStep == Init => InStep
<1> SUFFICES ASSUME Init PROVE InStep
  OBVIOUS
<1> DEFINE r == At(sql, 1)
           s == Pending(r)
<1>1. sql \in Texts /\ i = 1 /\ start = 1 /\ words = <<>> /\ depth = 0 /\ stmts = <<>>
  BY DEF Init
<1>2. Script(sql)
  BY <1>1, TextIsScript
<1>3. Len(sql) \in Nat /\ 1 \in 1..Len(sql) + 1
  <2>1. Len(sql) \in Nat
    BY <1>2 DEF Script
  <2> QED
    BY <2>1
<1>4. r = Start /\ Sound(r)
  BY <1>2, AtIs, StartSound
<1>5. Spelt(r) = <<>> /\ r.mode = "plain"
  BY <1>4 DEF Start, Spelt
<1>6. Gist(s) = Gist(Start)
  BY <1>4, <1>5, PendingIs
<1> HIDE DEF s, r
<1>7. s.words = <<>> /\ s.from = 1 /\ s.stmts = <<>> /\ s.begins = 0 /\ s.cases = 0
  BY <1>6 DEF Gist, Start
<1>8. Agrees(s, 1, <<>>, 0, <<>>)
  BY <1>7 DEF Agrees, SameWords
<1>9. Poised(sql, 1)
  BY <1>5 DEF Poised, Free, Behind, r
<1>10. <<>> \in Seq(Spelling) /\ 1 <= 1
  BY NoSpelling
<1>11. Along(sql, 1, 1, <<>>, 0, <<>>)
  BY <1>3, <1>8, <1>9, <1>10 DEF Along, s, r
<1> QED
  BY <1>1, <1>11, Zenon DEF InStep

LEMMA StepInStep == InStep /\ [Next]_vars => InStep'
<1> SUFFICES ASSUME InStep, [Next]_vars PROVE InStep'
  OBVIOUS
<1>0. sql' = sql /\ sql \in Texts
  <2>1. CASE UNCHANGED vars
    BY <2>1 DEF InStep, vars
  <2>2. CASE Next
    BY <2>2, Zenon DEF InStep, Next, Quote, Comment, DollarQuote, Semicolon, Word, Other, Finish, SkipTo, vars
  <2> QED
    BY <2>1, <2>2
<1>1. CASE Read.apart
  BY <1>0, <1>1 DEF InStep, Read
<1>2. CASE UNCHANGED vars
  BY <1>2 DEF InStep, Read, vars
<1>3. CASE Over(sql, i, start, stmts) /\ Next
  <2>1. i = End(sql) /\ start = End(sql) + 1 /\ Len(sql) \in Nat
    BY <1>0, <1>3, TextIsScript DEF Over, End, Script
  <2>2. ~(i < End(sql)) /\ ~(start <= End(sql))
    BY <2>1 DEF End
  <2>3. UNCHANGED vars
    BY <1>3, <2>2, Zenon DEF Next, Quote, Comment, DollarQuote, Semicolon, Word, Other, Finish, Scanning
  <2> QED
    BY <1>2, <2>3
<1>4. CASE ~Read.apart /\ ~Over(sql, i, start, stmts) /\ Next
  <2>1. Script(sql) /\ ~Server(sql).apart /\ Along(sql, i, start, words, depth, stmts)
    BY <1>4, Underway
  <2>2. Along(sql', i', start', words', depth', stmts') \/ Over(sql', i', start', stmts')
    <3>1. CASE Quote
      BY <2>1, <3>1, QuoteGoes
    <3>2. CASE Comment
      BY <2>1, <3>2, CommentGoes
    <3>3. CASE DollarQuote
      BY <2>1, <3>3, DollarQuoteGoes
    <3>4. CASE Semicolon
      BY <2>1, <3>4, SemicolonGoes
    <3>5. CASE Word
      BY <2>1, <3>5, WordGoes
    <3>6. CASE Other
      BY <2>1, <3>6, OtherGoes
    <3>7. CASE Finish
      BY <2>1, <3>7, FinishGoes
    <3>8. CASE Done /\ UNCHANGED vars
      BY <2>1, <3>8 DEF vars
    <3> QED
      BY <1>4, <3>1, <3>2, <3>3, <3>4, <3>5, <3>6, <3>7, <3>8, Zenon DEF Next
  <2> QED
    BY <1>0, <2>2, Zenon DEF InStep
<1> QED
  BY <1>1, <1>2, <1>3, <1>4

\* What splitStatements returns (src/internal/migrate/split.go) are, wherever
\* the two do not part for one of the named reasons, the statements PostgreSQL
\* would read: no text of any length makes the splitter lose count of a quote,
\* a comment, a dollar quote or the body of a routine.
THEOREM MigrationsAreCutAsTheServerCutsThem == Spec => []SplitsAsServer
<1>1. InStep => SplitsAsServer
  <2> SUFFICES ASSUME InStep, Done, ~Read.apart PROVE stmts = Read.stmts
    BY DEF SplitsAsServer
  <2>1. CASE Over(sql, i, start, stmts)
    BY <2>1 DEF Over, Read
  <2>2. CASE ~Over(sql, i, start, stmts)
    <3>1. Script(sql) /\ Along(sql, i, start, words, depth, stmts)
      BY <2>2, Underway
    <3>2. i \in 1..Len(sql) + 1 /\ start <= i /\ start = Len(sql) + 1 + 1 /\ Len(sql) \in Nat
      BY <3>1 DEF Along, Done, End, Script
    <3> QED
      BY <3>2
  <2> QED
    BY <2>1, <2>2
<1> QED
  BY <1>1, InitInStep, StepInStep, PTL DEF Spec

-----------------------------------------------------------------------------
(* What checkFile reads of a statement. *)

\* A comment that is skipped ends further on.
LEMMA LineFurther ==
  ASSUME NEW text, Script(text), NEW at \in 1..Len(text), NEW j, j = SkipLine(text, at)
  PROVE  j \in at + 1..Len(text) + 1
<1> DEFINE breaks == {k \in at..Len(text) : text[k] = "\n"}
           e == FirstOf(text, breaks)
<1>1. text \in Seq(STRING) /\ Len(text) \in Nat /\ at \in Nat
  BY DEF Script
<1>2. e \in breaks \cup {Len(text) + 1}
  <2>1. breaks \subseteq 1..Len(text)
    BY <1>1
  <2> HIDE DEF breaks
  <2> QED
    BY <1>1, <2>1, FirstOfIs DEF End
<1>3. j = IF e = Len(text) + 1 THEN e ELSE e + 1
  BY DEF SkipLine, End
<1> HIDE DEF e
<1> QED
  BY <1>1, <1>2, <1>3

LEMMA BlockFurther ==
  ASSUME NEW text, Script(text), NEW at \in 1..Len(text), text[at] = "/*", NEW j, j = SkipBlockComment(text, at)
  PROVE  j \in at + 1..Len(text) + 1
<1> DEFINE N == Len(text)
<1>1. text \in Seq(STRING) /\ N \in Nat /\ at \in Nat /\ at + 1 \in Nat
  BY DEF Script
<1>2. PICK f : /\ SkipBlockComment(text, at) = f[<<at, 0>>]
               /\ \A k \in 1..N + 1, open \in Int :
                    f[<<k, open>>] = IF k = N + 1 THEN k
                                     ELSE IF text[k] = "/*" THEN f[<<k + 1, open + 1>>]
                                     ELSE IF text[k] # "*/" THEN f[<<k + 1, open>>]
                                     ELSE IF open = 1 THEN k + 1 ELSE f[<<k + 1, open - 1>>]
  BY <1>1, BlockSkips
<1> DEFINE In(k) == k \in at + 1..N + 1 /\ \E open \in Int : f[<<k, open>>] = j
           Out == j \in at + 1..N + 1
           Good == {k \in Nat : In(k) \/ Out}
<1>3. at + 1 \in Good
  <2>1. at \in 1..N + 1 /\ at # N + 1 /\ 0 \in Int /\ 0 + 1 \in Int
    BY <1>1
  <2>2. f[<<at, 0>>] = f[<<at + 1, 0 + 1>>]
    BY <1>2, <2>1
  <2>3. f[<<at + 1, 0 + 1>>] = j /\ at + 1 \in at + 1..N + 1
    BY <1>1, <1>2, <2>2
  <2> QED
    BY <1>1, <2>1, <2>3
<1>4. ASSUME NEW k \in at + 1..N + 1, k # N + 1, k \in Good PROVE k + 1 \in Good
  <2>1. k \in 1..N /\ k \in 1..N + 1 /\ k + 1 \in Nat /\ k + 1 \in at + 1..N + 1
    BY <1>1, <1>4
  <2>2. CASE Out
    BY <2>1, <2>2
  <2>3. CASE In(k)
    <3>1. PICK open \in Int : f[<<k, open>>] = j
      BY <2>3
    <3>2. f[<<k, open>>] = IF text[k] = "/*" THEN f[<<k + 1, open + 1>>]
                           ELSE IF text[k] # "*/" THEN f[<<k + 1, open>>]
                           ELSE IF open = 1 THEN k + 1 ELSE f[<<k + 1, open - 1>>]
      BY <1>2, <1>4, <2>1
    <3>3. open + 1 \in Int /\ open - 1 \in Int
      OBVIOUS
    <3>4. \/ \E o \in Int : f[<<k + 1, o>>] = j
          \/ j = k + 1
      BY <3>1, <3>2, <3>3
    <3> QED
      BY <2>1, <3>4
  <2> QED
    BY <1>4, <2>2, <2>3
<1> HIDE DEF Good
<1>5. PICK b \in Nat : b = N + 1 /\ b \in at + 1..b
  BY <1>1
<1>6. b \in Good
  BY <1>1, <1>3, <1>4, <1>5, Onward
<1>7. CASE Out
  BY <1>7
<1>8. CASE In(b)
  <2>1. PICK open \in Int : f[<<b, open>>] = j
    BY <1>8
  <2>2. b \in 1..N + 1
    BY <1>1, <1>5
  <2>3. f[<<b, open>>] = b
    BY <1>2, <1>5, <2>2
  <2> QED
    BY <1>5, <2>1, <2>3
<1> QED
  BY <1>6, <1>7, <1>8 DEF Good

Upto(j, to) == IF j > to THEN to ELSE j

\* Where the words go on behind what stands at a position.
Past(text, j) ==
  IF text[j] \in Blank THEN j + 1
  ELSE IF text[j] = "--" THEN SkipLine(text, j)
  ELSE IF text[j] = "/*" THEN SkipBlockComment(text, j)
  ELSE WordEnd(text, j)

Passes(c) == c \in Blank \/ c \in {"--", "/*"} \/ Letter(c)

\* The words that lead from a position, so many read before it.
Lead(text, to, f, j, n) ==
  IF j = to \/ n = 2 THEN <<>>
  ELSE IF text[j] \in Blank \/ text[j] \in {"--", "/*"} THEN f[<<Upto(Past(text, j), to), n>>]
  ELSE IF Letter(text[j]) THEN <<SubSeq(text, j, Upto(Past(text, j), to) - 1)>> \o f[<<Upto(Past(text, j), to), n + 1>>]
  ELSE <<>>

Leading(text, from, to, f) ==
  /\ f \in [(from..to) \X (0..2) -> Seq(Spelling)]
  /\ \A j \in from..to, n \in 0..2 : f[<<j, n>>] = Lead(text, to, f, j, n)

LEMMA NoOther == "--" \notin Blank /\ "/*" \notin Blank /\ ~Letter("--") /\ ~Letter("/*")
  BY Zenon DEF Blank, Letter, Signs

LEMMA PastFurther ==
  ASSUME NEW text, Script(text), NEW j \in 1..Len(text), Passes(text[j])
  PROVE  Past(text, j) \in j + 1..Len(text) + 1
<1>1. Len(text) \in Nat
  BY DEF Script
<1>2. CASE text[j] \in Blank
  BY <1>1, <1>2 DEF Past
<1>3. CASE text[j] = "--"
  BY <1>3, LineFurther, NoOther DEF Past
<1>4. CASE text[j] = "/*"
  BY <1>4, BlockFurther, NoOther DEF Past
<1>5. CASE Letter(text[j])
  <2>1. text[j] \notin Blank /\ text[j] # "--" /\ text[j] # "/*"
    BY <1>5, NoOther DEF Letter
  <2> QED
    BY <1>5, <2>1, WordEndIs DEF Past
<1> QED
  BY <1>2, <1>3, <1>4, <1>5 DEF Passes

LEMMA UptoIs ==
  ASSUME NEW j \in Nat, NEW k \in Nat, k > j, NEW to \in Nat, j < to
  PROVE  Upto(k, to) \in j + 1..to /\ Upto(k, to) \in Nat /\ Upto(k, to) - 1 \in j..to - 1
BY DEF Upto

LEMMA StringsSpell == \A s \in Seq(STRING) : s \in Spelling
<1>1. STRING \subseteq Atoms
  BY DEF Atoms
<1>2. \A S, T : S \subseteq T => \A s \in Seq(S) : s \in Seq(T)
  OBVIOUS
<1> QED
  BY <1>1, <1>2 DEF Spelling

\* A word that is cut short where the statement ends.
LEMMA WordSpells ==
  ASSUME NEW text, Script(text), NEW j \in 1..Len(text), NEW e \in j..Len(text)
  PROVE  SubSeq(text, j, e) \in Spelling
<1>1. text \in Seq(STRING) /\ Len(text) \in Nat
  BY DEF Script
<1>2. j \in 1..Len(text) + 1 /\ e \in (j - 1)..Len(text)
  BY <1>1
<1>3. SubSeq(text, j, e) \in Seq(STRING)
  BY <1>1, <1>2, SliceIs
<1> QED
  BY <1>3, StringsSpell

LEMMA Within ==
  ASSUME NEW text, Script(text), NEW from \in Nat, from >= 1, NEW to \in from..Len(text) + 1, NEW j \in from..to, j # to
  PROVE  j \in 1..Len(text) /\ j \in Nat /\ to \in Nat /\ j < to
<1>1. Len(text) \in Nat
  BY DEF Script
<1> QED
  BY <1>1

LEMMA NextLead ==
  ASSUME NEW text, Script(text), NEW from \in Nat, from >= 1, NEW to \in from..Len(text) + 1, NEW j \in from..to, j # to,
         Passes(text[j]), NEW k, k = Upto(Past(text, j), to)
  PROVE  k \in from..to /\ k > j /\ k \in Nat /\ SubSeq(text, j, k - 1) \in Spelling
<1>1. j \in 1..Len(text) /\ j \in Nat /\ to \in Nat /\ j < to /\ Len(text) \in Nat
  BY Within DEF Script
<1>2. PICK p \in Nat : p = Past(text, j) /\ p > j
  <2>1. Past(text, j) \in j + 1..Len(text) + 1
    BY <1>1, PastFurther
  <2> QED
    BY <1>1, <2>1
<1>3. k \in j + 1..to /\ k \in Nat /\ k - 1 \in j..to - 1
  BY <1>1, <1>2, UptoIs
<1>4. k - 1 \in j..Len(text)
  BY <1>1, <1>3
<1>5. SubSeq(text, j, k - 1) \in Spelling
  BY <1>1, <1>4, WordSpells
<1>6. k \in from..to /\ k > j
  BY <1>1, <1>3
<1> QED
  BY <1>3, <1>5, <1>6

\* What is made of its own values further on is made in one way only.
LEMMA Alone ==
  ASSUME NEW D, NEW rank \in [D -> Nat], NEW f, NEW g,
         \A d \in D : (\A e \in D : rank[e] < rank[d] => f[e] = g[e]) => f[d] = g[d]
  PROVE  \A d \in D : f[d] = g[d]
<1> DEFINE Bad == {d \in D : f[d] # g[d]}
<1>1. SUFFICES ASSUME Bad # {} PROVE FALSE
  OBVIOUS
<1>2. PICK n \in {rank[d] : d \in Bad} : \A m \in {rank[d] : d \in Bad} : n <= m
  <2>1. {rank[d] : d \in Bad} \subseteq Nat /\ {rank[d] : d \in Bad} # {}
    BY <1>1
  <2> QED
    BY <2>1, LeastIn
<1>3. PICK d \in Bad : rank[d] = n
  BY <1>2
<1>4. ASSUME NEW e \in D, rank[e] < rank[d] PROVE f[e] = g[e]
  <2>1. rank[d] \in Nat /\ rank[e] \in Nat /\ ~(rank[d] <= rank[e])
    BY <1>3, <1>4
  <2> QED
    BY <1>2, <1>3, <2>1
<1> QED
  BY <1>3, <1>4

LEMMA LeadIs ==
  ASSUME NEW text, Script(text), NEW from \in Nat, from >= 1, NEW to \in from..Len(text) + 1
  PROVE  \E f : Leading(text, from, to, f) /\ LeadingWords(text, from, to) = f[<<from, 0>>] \o <<<<>>, <<>>>>
<1> DEFINE
      V == Seq(Spelling)
      D == (from..to) \X (0..2)
      Leads(f, p) == Lead(text, to, f, p[1], p[2])
      Cut1(j) == IF j > to THEN to ELSE j
      Code(f, p) == IF p[1] = to \/ p[2] = 2 THEN <<>>
                    ELSE IF text[p[1]] \in Blank THEN f[<<p[1] + 1, p[2]>>]
                    ELSE IF text[p[1]] = "--" THEN f[<<Cut1(SkipLine(text, p[1])), p[2]>>]
                    ELSE IF text[p[1]] = "/*" THEN f[<<Cut1(SkipBlockComment(text, p[1])), p[2]>>]
                    ELSE IF IsIdentByte(text[p[1]])
                         THEN <<SubSeq(text, p[1], Cut1(WordEnd(text, p[1])) - 1)>> \o f[<<Cut1(WordEnd(text, p[1])), p[2] + 1>>]
                    ELSE <<>>
      Whole(f) == f = [p \in D |-> Code(f, p)]
      lead == CHOOSE f : Whole(f)
      On(p) == Upto(Past(text, p[1]), to)
<1>1. to \in Nat /\ Len(text) \in Nat
  BY DEF Script
<1>2. ASSUME NEW p \in D, p[1] # to, Passes(text[p[1]])
      PROVE  On(p) \in from..to /\ On(p) > p[1] /\ On(p) \in Nat /\ SubSeq(text, p[1], On(p) - 1) \in Spelling
  <2>1. p[1] \in from..to
    OBVIOUS
  <2> QED
    BY <1>2, <2>1, NextLead
<1>3. \E f : f \in [D -> V] /\ \A p \in D : f[p] = Leads(f, p)
  <2> DEFINE Stop == {p \in D : p[1] = to \/ p[2] = 2 \/ ~Passes(text[p[1]])}
             val == [p \in D |-> <<>>]
             next == [p \in D |-> IF Letter(text[p[1]]) THEN <<On(p), p[2] + 1>> ELSE <<On(p), p[2]>>]
             op == [p \in D |-> [v \in V |-> IF p \notin Stop /\ Letter(text[p[1]])
                                             THEN <<SubSeq(text, p[1], On(p) - 1)>> \o v ELSE v]]
             rank == [p \in D |-> to - p[1]]
  <2> HIDE DEF On
  <2>1. ASSUME NEW p \in D, p \notin Stop
        PROVE  /\ p[1] \in from..to /\ p[2] \in 0..1 /\ On(p) \in from..to /\ On(p) > p[1] /\ On(p) \in Nat
               /\ SubSeq(text, p[1], On(p) - 1) \in Spelling
    BY <1>2, <2>1
  <2>2. val \in [D -> V]
    BY NoSpelling
  <2>3. op \in [D -> [V -> V]]
    <3>1. ASSUME NEW p \in D, NEW v \in V, p \notin Stop PROVE <<SubSeq(text, p[1], On(p) - 1)>> \o v \in V
      <4>1. SubSeq(text, p[1], On(p) - 1) \in Spelling
        BY <2>1, <3>1
      <4>2. \A S : \A x \in S : \A s \in Seq(S) : <<x>> \o s \in Seq(S)
        OBVIOUS
      <4> QED
        BY <4>1, <4>2
    <3> HIDE DEF Stop, D, V
    <3> QED
      BY <3>1
  <2>4. rank \in [D -> 0..to]
    BY <1>1
  <2>5. ASSUME NEW p \in D, p \notin Stop PROVE next[p] \in D /\ rank[next[p]] < rank[p]
    <3>1. /\ p[1] \in from..to /\ p[2] \in 0..1 /\ On(p) \in from..to /\ On(p) > p[1] /\ On(p) \in Nat
      BY <2>1, <2>5
    <3>2. next[p] \in D /\ next[p][1] = On(p)
      BY <3>1
    <3>3. rank[next[p]] = to - On(p) /\ rank[p] = to - p[1]
      <4> HIDE DEF next
      <4> QED
        BY <3>2
    <3> HIDE DEF next, rank, D
    <3> QED
      BY <1>1, <3>1, <3>2, <3>3
  <2>6. \E f : Recurs(D, V, Stop, val, next, op, f)
    <3>1. \A p \in D : p \notin Stop => next[p] \in D /\ rank[next[p]] < rank[p]
      BY <2>5
    <3> HIDE DEF D, V, Stop, val, next, op, rank
    <3>2. Descends(D, Stop, next, rank, to)
      BY <1>1, <2>4, <3>1 DEF Descends
    <3> QED
      BY <1>1, <2>2, <2>3, <3>2, Descent
  <2>7. PICK f : Recurs(D, V, Stop, val, next, op, f)
    BY <2>6
  <2>8. f \in [D -> V] /\ \A p \in D : f[p] = IF p \in Stop THEN val[p] ELSE op[p][f[next[p]]]
    <3> HIDE DEF Stop, val, next, op, D, V
    <3> QED
      BY <2>7 DEF Recurs
  <2>9. ASSUME NEW p \in D PROVE f[p] = Leads(f, p)
    <3>1. CASE p \in Stop
      <4>1. f[p] = <<>>
        BY <2>8, <3>1
      <4>2. p[1] = to \/ p[2] = 2 \/ ~Passes(text[p[1]])
        BY <3>1
      <4> QED
        BY <4>1, <4>2 DEF Lead, Passes
    <3>2. CASE p \notin Stop
      <4>1. next[p] \in D
        BY <2>5, <3>2
      <4>2. f[p] = op[p][f[next[p]]] /\ f[next[p]] \in V
        BY <2>8, <3>2, <4>1
      <4>3. p[1] # to /\ p[2] # 2 /\ Passes(text[p[1]])
        BY <3>2
      <4>4. CASE Letter(text[p[1]])
        <5>1. next[p] = <<On(p), p[2] + 1>>
          BY <4>4
        <5>2. op[p][f[next[p]]] = <<SubSeq(text, p[1], On(p) - 1)>> \o f[next[p]]
          <6> HIDE DEF Stop, next, D, V
          <6> QED
            BY <3>2, <4>2, <4>4
        <5>3. ~(text[p[1]] \in Blank \/ text[p[1]] \in {"--", "/*"})
          BY <4>4, NoOther DEF Letter
        <5> HIDE DEF Stop, next, D, V, op
        <5> QED
          BY <4>2, <4>3, <4>4, <5>1, <5>2, <5>3, Zenon DEF Lead, On
      <4>5. CASE ~Letter(text[p[1]])
        <5>1. next[p] = <<On(p), p[2]>>
          BY <4>5
        <5>2. op[p][f[next[p]]] = f[next[p]]
          <6> HIDE DEF Stop, next, D, V
          <6> QED
            BY <4>2, <4>5
        <5>3. text[p[1]] \in Blank \/ text[p[1]] \in {"--", "/*"}
          BY <4>3, <4>5 DEF Passes
        <5> HIDE DEF Stop, next, D, V, op
        <5> QED
          BY <4>2, <4>3, <5>1, <5>2, <5>3, Zenon DEF Lead, On
      <4> QED
        BY <4>4, <4>5
    <3> QED
      BY <3>1, <3>2
  <2> QED
    BY <2>8, <2>9
<1>4. LeadingWords(text, from, to) = lead[<<from, 0>>] \o <<<<>>, <<>>>>
  BY Zenon DEF LeadingWords
<1>5. ASSUME NEW f, NEW p \in D PROVE Code(f, p) = Leads(f, p)
  <2> DEFINE j == p[1]
             c == text[j]
  <2>1. CASE j = to \/ p[2] = 2
    BY <2>1 DEF Lead
  <2>2. CASE ~(j = to \/ p[2] = 2) /\ c \in Blank
    <3>1. Past(text, j) = j + 1
      BY <2>2 DEF Past
    <3>2. Upto(j + 1, to) = j + 1
      <4>1. j \in from..to /\ j # to
        BY <2>2
      <4> HIDE DEF j
      <4> QED
        BY <1>1, <4>1 DEF Upto
    <3> QED
      BY <2>2, <3>1, <3>2, Zenon DEF Lead
  <2>3. CASE ~(j = to \/ p[2] = 2) /\ c = "--"
    <3>1. Past(text, j) = SkipLine(text, j) /\ c \notin Blank
      BY <2>3, NoOther DEF Past
    <3> QED
      BY <2>3, <3>1, Zenon DEF Lead, Upto
  <2>4. CASE ~(j = to \/ p[2] = 2) /\ c = "/*"
    <3>1. Past(text, j) = SkipBlockComment(text, j) /\ c \notin Blank /\ c # "--"
      BY <2>4, NoOther DEF Past
    <3> QED
      BY <2>4, <3>1, Zenon DEF Lead, Upto
  <2>5. CASE ~(j = to \/ p[2] = 2) /\ c \notin Blank /\ c # "--" /\ c # "/*"
    <3>1. Past(text, j) = WordEnd(text, j) /\ ~(c \in Blank \/ c \in {"--", "/*"})
      BY <2>5 DEF Past
    <3> QED
      BY <2>5, <3>1, Zenon DEF Lead, Upto, IsIdentByte
  <2> QED
    BY <2>1, <2>2, <2>3, <2>4, <2>5, Zenon
<1>6. ASSUME NEW f, f \in [D -> V], \A p \in D : f[p] = Leads(f, p) PROVE Whole(f)
  <2> HIDE DEF Code, Leads, D, V
  <2> QED
    BY <1>5, <1>6
<1>7. Whole(lead)
  <2> HIDE DEF Whole, V, D, Leads
  <2>1. \E f : Whole(f)
    BY <1>3, <1>6
  <2> QED
    BY <2>1
<1>8. PICK f : f \in [D -> V] /\ \A p \in D : f[p] = Leads(f, p)
  BY <1>3
<1>9. \A p \in D : lead[p] = f[p]
  <2> DEFINE rank == [p \in D |-> to - p[1]]
  <2>1. rank \in [D -> Nat]
    BY <1>1
  <2>2. ASSUME NEW p \in D, \A e \in D : rank[e] < rank[p] => lead[e] = f[e] PROVE lead[p] = f[p]
    <3>1. lead[p] = Leads(lead, p) /\ f[p] = Leads(f, p)
      <4> HIDE DEF Leads, D, lead, Code
      <4> QED
        BY <1>5, <1>7, <1>8, SMTT(40)
    <3>2. CASE p[1] = to \/ p[2] = 2 \/ ~Passes(text[p[1]])
      <4>1. Leads(lead, p) = <<>> /\ Leads(f, p) = <<>>
        <5> HIDE DEF lead
        <5> QED
          BY <3>2 DEF Lead, Passes
      <4> QED
        BY <3>1, <4>1, ZenonT(40)
    <3>3. CASE ~(p[1] = to \/ p[2] = 2 \/ ~Passes(text[p[1]]))
      <4>1. p[1] \in from..to /\ p[2] \in 0..1 /\ On(p) \in from..to /\ On(p) > p[1] /\ On(p) \in Nat
        BY <1>2, <3>3
      <4> HIDE DEF On, lead
      <4>2. ASSUME NEW n \in {p[2], p[2] + 1} PROVE lead[<<On(p), n>>] = f[<<On(p), n>>]
        <5>1. <<On(p), n>> \in D
          BY <4>1
        <5>2. rank[<<On(p), n>>] = to - On(p) /\ rank[p] = to - p[1]
          BY <5>1
        <5>3. rank[<<On(p), n>>] < rank[p]
          <6> HIDE DEF rank, D
          <6> QED
            BY <1>1, <4>1, <5>2
        <5> HIDE DEF rank, D
        <5> QED
          BY <2>2, <5>1, <5>3
      <4>3. Leads(lead, p) = Leads(f, p)
        BY <4>2, Zenon DEF Lead, On
      <4> QED
        BY <3>1, <4>3
    <3> QED
      BY <3>2, <3>3
  <2> HIDE DEF rank, D, lead
  <2> QED
    BY <2>1, <2>2, Alone
<1>10. lead = f
  <2> HIDE DEF lead, Code, D
  <2> QED
    BY <1>7, <1>8, <1>9
<1>11. Leading(text, from, to, f)
  <2>1. ASSUME NEW j \in from..to, NEW n \in 0..2 PROVE f[<<j, n>>] = Lead(text, to, f, j, n)
    <3>1. <<j, n>> \in D /\ <<j, n>>[1] = j /\ <<j, n>>[2] = n
      OBVIOUS
    <3>2. f[<<j, n>>] = Leads(f, <<j, n>>)
      BY <1>8, <3>1
    <3> QED
      BY <3>1, <3>2, Zenon
  <2> QED
    BY <1>8, <2>1 DEF Leading
<1> HIDE DEF lead
<1> QED
  BY <1>4, <1>10, <1>11

-----------------------------------------------------------------------------
(* The commands that end the transaction are seen. *)

Nth(ws, k) == IF k \in DOMAIN ws THEN ws[k] ELSE <<>>

\* These leading words are as telling as these tokens, whatever tokens follow:
\* where an e is no word it stands before a string.
Fits(ws, ts) ==
  /\ Len(ts) >= 1
  /\ \/ ts[1] = <<>>
     \/ /\ Len(ts) >= 2 /\ Nth(ws, 1) = ts[1]
        /\ Nth(ws, 2) = ts[2] \/ (ts[2] = <<>> /\ Nth(ws, 2) = <<"e">>)

\* The leading words have been read to here, and are the tokens, ...
Opening(text, from, j, ts) ==
  /\ Len(ts) <= 1
  /\ \A to \in j..Len(text) + 1 : \A f : Leading(text, from, to, f) => f[<<from, 0>>] = ts \o f[<<j, Len(ts)>>]

\* ... or they have ended, and fit the tokens.
Led(text, from, j, ts) ==
  \E ws \in Seq(Spelling) :
     Fits(ws, ts) /\ \A to \in j..Len(text) + 1 : \A f : Leading(text, from, to, f) => f[<<from, 0>>] = ws

Found(text, cut) == \E k \in DOMAIN cut : TransactionControl(text, cut[k])

\* A statement of the splitter's stands for every one that controls.
Ahead(text, j, from, s, cut) ==
  /\ from >= 1
  /\ Len(s.tokens) >= 2 \/ Len(s.words) <= Len(s.tokens)
  /\ s.tokens # <<>> => Solid(text, from, j)
  /\ Opening(text, from, j, s.tokens) \/ Led(text, from, j, s.tokens)
  /\ s.control => Found(text, cut)

InSight ==
  \/ Read.apart
  \/ Over(sql, i, start, stmts) /\ (Read.control => Found(sql, stmts))
  \/ Along(sql, i, start, words, depth, stmts) /\ Ahead(sql, i, start, Pending(At(sql, i)), stmts)

LEMMA PadIs ==
  ASSUME NEW S, NEW ws \in Seq(S), NEW pad \in Seq(S), Len(pad) = 2, pad[1] = <<>>, pad[2] = <<>>,
         NEW k \in 1..2
  PROVE  (ws \o pad)[k] = Nth(ws, k)
<1>1. /\ Len(ws) \in Nat /\ DOMAIN ws = 1..Len(ws)
      /\ \A n \in 1..Len(ws) + 2 : (ws \o pad)[n] = IF n <= Len(ws) THEN ws[n] ELSE pad[n - Len(ws)]
  <2>1. Len(ws) \in Nat /\ DOMAIN ws = 1..Len(ws)
    OBVIOUS
  <2>2. \A n \in 1..Len(ws) + Len(pad) : (ws \o pad)[n] = IF n <= Len(ws) THEN ws[n] ELSE pad[n - Len(ws)]
    BY ConcatProperties, Zenon
  <2> QED
    BY <2>1, <2>2
<1>2. CASE k <= Len(ws)
  BY <1>1, <1>2 DEF Nth
<1>3. CASE ~(k <= Len(ws))
  <2>1. k - Len(ws) \in 1..2 /\ k \in 1..Len(ws) + 2
    BY <1>1, <1>3
  <2>2. k - Len(ws) = 1 \/ k - Len(ws) = 2
    BY <2>1
  <2>3. pad[k - Len(ws)] = <<>>
    BY <2>2
  <2>4. (ws \o pad)[k] = <<>>
    BY <1>1, <1>3, <2>1, <2>3
  <2>5. k \notin DOMAIN ws
    BY <1>1, <1>3
  <2> QED
    BY <2>4, <2>5, Zenon DEF Nth
<1> QED
  BY <1>2, <1>3

LEMMA CommandIs ==
  ASSUME NEW text, NEW from, NEW to, NEW ws \in Seq(Spelling), LeadingWords(text, from, to) = ws \o <<<<>>, <<>>>>
  PROVE  Controls(ws) => TransactionControl(text, <<from, to>>)
<1> DEFINE pad == <<<<>>, <<>>>>
           vs == ws \o pad
<1>1. vs[1] = Nth(ws, 1) /\ vs[2] = Nth(ws, 2)
  <2>1. Len(pad) = 2 /\ pad[1] = <<>> /\ pad[2] = <<>> /\ pad \in Seq(Spelling)
    BY NoSpelling
  <2> HIDE DEF pad
  <2>2. 1 \in 1..2 /\ 2 \in 1..2
    OBVIOUS
  <2> QED
    BY <2>1, <2>2, PadIs
<1>2. <<from, to>>[1] = from /\ <<from, to>>[2] = to
  OBVIOUS
<1> HIDE DEF vs
<1>3. TransactionControl(text, <<from, to>>) <=>
        \/ vs[1] \in {<<"begin">>, <<"commit">>, <<"end">>, <<"abort">>}
        \/ vs[1] \in {<<"start">>, <<"prepare">>} /\ vs[2] = <<"transaction">>
        \/ vs[1] = <<"rollback">> /\ vs[2] # <<"to">>
  BY <1>2, Zenon DEF TransactionControl, vs
<1>4. Controls(ws) <=>
        \/ Nth(ws, 1) \in {<<"begin">>, <<"commit">>, <<"end">>, <<"abort">>}
        \/ Nth(ws, 1) \in {<<"start">>, <<"prepare">>} /\ Nth(ws, 2) = <<"transaction">>
        \/ Nth(ws, 1) = <<"rollback">> /\ Nth(ws, 2) # <<"to">>
  BY Zenon DEF Controls, Nth
<1> QED
  BY <1>1, <1>3, <1>4, Zenon

LEMMA FitControls ==
  ASSUME NEW ws, NEW ts \in Seq(Spelling), Fits(ws, ts), Controls(ts)
  PROVE  Controls(ws)
<1>1. Nth(ts, 1) = ts[1] /\ (Len(ts) >= 2 => Nth(ts, 2) = ts[2])
  BY DEF Nth, Fits
<1>2. \A vs : Controls(vs) <=>
        \/ Nth(vs, 1) \in {<<"begin">>, <<"commit">>, <<"end">>, <<"abort">>}
        \/ Nth(vs, 1) \in {<<"start">>, <<"prepare">>} /\ Nth(vs, 2) = <<"transaction">>
        \/ Nth(vs, 1) = <<"rollback">> /\ Nth(vs, 2) # <<"to">>
  BY Zenon DEF Controls, Nth
<1>3. ts[1] # <<>>
  <2>1. <<>> \notin {<<"begin">>, <<"commit">>, <<"end">>, <<"abort">>} /\ <<>> \notin {<<"start">>, <<"prepare">>} /\ <<>> # <<"rollback">>
    OBVIOUS
  <2> QED
    BY <1>1, <1>2, <2>1, Zenon
<1>4. Nth(ws, 1) = Nth(ts, 1) /\ (Nth(ws, 2) = Nth(ts, 2) \/ (Nth(ts, 2) = <<>> /\ Nth(ws, 2) = <<"e">>))
  BY <1>1, <1>3 DEF Fits
<1>5. <<>> # <<"transaction">> /\ <<"e">> # <<"to">>
  <2>1. "e" # "to"
    OBVIOUS
  <2> QED
    BY <2>1
<1> QED
  BY <1>2, <1>4, <1>5, Zenon

LEMMA FitsOn ==
  ASSUME NEW ws, NEW ts \in Seq(Spelling), Fits(ws, ts), NEW w \in Spelling
  PROVE  Fits(ws, Next2(ts, w))
<1>1. CASE Len(ts) < 2
  <2>1. ts[1] = <<>> /\ Append(ts, w)[1] = ts[1] /\ Len(Append(ts, w)) >= 1
    BY <1>1 DEF Fits
  <2> QED
    BY <1>1, <2>1 DEF Fits, Next2
<1>2. CASE ~(Len(ts) < 2)
  BY <1>2 DEF Next2
<1> QED
  BY <1>1, <1>2

LEMMA LedOn ==
  ASSUME NEW text, NEW from, NEW j \in Nat, NEW k \in Nat, j <= k, NEW ts \in Seq(Spelling), Led(text, from, j, ts),
         Len(text) \in Nat, NEW w \in Spelling
  PROVE  Led(text, from, k, ts) /\ Led(text, from, k, Next2(ts, w))
<1>1. PICK ws \in Seq(Spelling) :
        Fits(ws, ts) /\ \A to \in j..Len(text) + 1 : \A f : Leading(text, from, to, f) => f[<<from, 0>>] = ws
  BY DEF Led
<1>2. \A to \in k..Len(text) + 1 : \A f : Leading(text, from, to, f) => f[<<from, 0>>] = ws
  <2>1. \A to \in k..Len(text) + 1 : to \in j..Len(text) + 1
    OBVIOUS
  <2> QED
    BY <1>1, <2>1
<1>3. Fits(ws, Next2(ts, w))
  BY <1>1, FitsOn
<1> QED
  BY <1>1, <1>2, <1>3 DEF Led

\* What the words that lead from a position are, when the statement goes on.
LeadOn(text, f, j, k, n) ==
  /\ text[j] \in Blank \/ text[j] \in {"--", "/*"} => (Past(text, j) = k => f[<<j, n>>] = f[<<k, n>>])
  /\ Letter(text[j]) => (WordEnd(text, j) = k => f[<<j, n>>] = <<SubSeq(text, j, k - 1)>> \o f[<<k, n + 1>>])
  /\ ~Passes(text[j]) => f[<<j, n>>] = <<>>
  /\ f[<<k, 2>>] = <<>> /\ f[<<k, n + 1>>] \in Seq(Spelling)

LEMMA LeadAt ==
  ASSUME NEW text, Script(text), NEW from \in Nat, from >= 1, NEW j \in 1..Len(text), from <= j,
         NEW k \in j + 1..Len(text) + 1, NEW to \in k..Len(text) + 1, NEW f, Leading(text, from, to, f), NEW n \in 0..1
  PROVE  LeadOn(text, f, j, k, n)
<1>1. Len(text) \in Nat /\ j \in Nat /\ k \in Nat /\ to \in Nat
  BY DEF Script
<1>2. j \in from..to /\ k \in from..to /\ j # to /\ n # 2 /\ ~(k > to) /\ n \in 0..2 /\ n + 1 \in 0..2 /\ 2 \in 0..2
  <2>1. j + 1 <= k /\ k <= to /\ from <= j
    BY <1>1
  <2> QED
    BY <1>1, <2>1
<1>3. f[<<j, n>>] = Lead(text, to, f, j, n) /\ f[<<k, 2>>] = Lead(text, to, f, k, 2) /\ f \in [(from..to) \X (0..2) -> Seq(Spelling)]
  BY <1>2, Zenon DEF Leading
<1>4. f[<<k, 2>>] = <<>>
  BY <1>3, Zenon DEF Lead
<1>5. f[<<k, n + 1>>] \in Seq(Spelling)
  BY <1>2, <1>3
<1>6. Upto(k, to) = k
  BY <1>2 DEF Upto
<1>7. ASSUME text[j] \in Blank \/ text[j] \in {"--", "/*"}, Past(text, j) = k PROVE f[<<j, n>>] = f[<<k, n>>]
  BY <1>2, <1>3, <1>6, <1>7, Zenon DEF Lead
<1>8. ASSUME Letter(text[j]), WordEnd(text, j) = k PROVE f[<<j, n>>] = <<SubSeq(text, j, k - 1)>> \o f[<<k, n + 1>>]
  <2>1. ~(text[j] \in Blank \/ text[j] \in {"--", "/*"})
    BY <1>8, NoOther DEF Letter
  <2>2. Past(text, j) = k
    BY <1>8, <2>1 DEF Past
  <2> QED
    BY <1>2, <1>3, <1>6, <1>8, <2>1, <2>2, Zenon DEF Lead
<1>9. ASSUME ~Passes(text[j]) PROVE f[<<j, n>>] = <<>>
  BY <1>2, <1>3, <1>9, Zenon DEF Lead, Passes
<1> QED
  BY <1>4, <1>5, <1>7, <1>8, <1>9, Zenon DEF LeadOn

\* What appending to at most one word makes.
TwoIs(S, ts, w, vs) ==
  /\ Next2(ts, w) = vs /\ vs \in Seq(S) /\ Len(vs) = Len(ts) + 1 /\ Len(vs) >= 1
  /\ Len(ts) = 0 => vs[1] = w
  /\ Len(ts) = 1 => /\ vs[1] = ts[1] /\ vs[2] = w /\ Len(vs) >= 2
                    /\ Nth(ts, 1) = ts[1] /\ Nth(ts, 2) = <<>> /\ Nth(vs, 1) = vs[1] /\ Nth(vs, 2) = vs[2]

LEMMA NextTwo ==
  ASSUME NEW S, NEW ts \in Seq(S), Len(ts) \in {0, 1}, NEW w \in S
  PROVE  TwoIs(S, ts, w, Append(ts, w))
<1> DEFINE vs == Append(ts, w)
<1>1. /\ vs \in Seq(S) /\ Len(vs) = Len(ts) + 1 /\ DOMAIN vs = 1..Len(ts) + 1 /\ DOMAIN ts = 1..Len(ts)
      /\ \A n \in 1..Len(ts) : vs[n] = ts[n]
      /\ vs[Len(ts) + 1] = w
  OBVIOUS
<1>2. Next2(ts, w) = vs
  <2>1. Len(ts) < 2
    OBVIOUS
  <2> QED
    BY <2>1, Zenon DEF Next2
<1> HIDE DEF vs
<1>3. CASE Len(ts) = 0
  <2>1. Len(vs) >= 1 /\ vs[1] = w /\ ~(Len(ts) = 1)
    BY <1>1, <1>3
  <2> QED
    BY <1>1, <1>2, <2>1, Zenon DEF TwoIs, vs
<1>4. CASE Len(ts) = 1
  <2>1. /\ Len(vs) >= 1 /\ Len(vs) >= 2 /\ vs[1] = ts[1] /\ vs[2] = w /\ ~(Len(ts) = 0)
        /\ 1 \in DOMAIN ts /\ ~(2 \in DOMAIN ts) /\ 1 \in DOMAIN vs /\ 2 \in DOMAIN vs
    BY <1>1, <1>4
  <2>2. Nth(ts, 1) = ts[1] /\ Nth(ts, 2) = <<>> /\ Nth(vs, 1) = vs[1] /\ Nth(vs, 2) = vs[2]
    BY <2>1, Zenon DEF Nth
  <2> QED
    BY <1>1, <1>2, <2>1, <2>2, Zenon DEF TwoIs, vs
<1> QED
  BY <1>3, <1>4

LEMMA OpeningShort ==
  ASSUME NEW text, NEW from, NEW j, NEW ts \in Seq(Spelling), Opening(text, from, j, ts)
  PROVE  Len(ts) \in {0, 1} /\ Len(ts) \in 0..1
<1>1. \A n \in Nat : n <= 1 => n \in {0, 1} /\ n \in 0..1
  OBVIOUS
<1>2. Len(ts) \in Nat
  BY LenProperties, Zenon
<1>3. Len(ts) <= 1
  BY Zenon DEF Opening
<1> HIDE DEF Opening
<1> QED
  BY <1>1, <1>2, <1>3, Zenon

LEMMA OpeningAt ==
  ASSUME NEW text, Script(text), NEW from \in Nat, from >= 1, NEW j \in 1..Len(text), from <= j,
         NEW ts \in Seq(Spelling), Opening(text, from, j, ts), NEW k \in j + 1..Len(text) + 1,
         NEW to \in k..Len(text) + 1, NEW f, Leading(text, from, to, f)
  PROVE  f[<<from, 0>>] = ts \o f[<<j, Len(ts)>>] /\ LeadOn(text, f, j, k, Len(ts))
<1>1. Len(ts) \in 0..1
  BY OpeningShort, Zenon
<1>2. Len(text) \in Nat /\ j \in Nat
  BY DEF Script
<1>3. to \in j..Len(text) + 1
  BY <1>2
<1>4. f[<<from, 0>>] = ts \o f[<<j, Len(ts)>>]
  BY <1>3, Zenon DEF Opening
<1>5. LeadOn(text, f, j, k, Len(ts))
  BY <1>1, LeadAt, Zenon
<1> QED
  BY <1>4, <1>5

\* A blank or a comment leads to what follows it, ...
LEMMA OpeningPassed ==
  ASSUME NEW text, Script(text), NEW from \in Nat, from >= 1, NEW j \in 1..Len(text), from <= j,
         NEW ts \in Seq(Spelling), Opening(text, from, j, ts),
         text[j] \in Blank \/ text[j] \in {"--", "/*"}, NEW k \in j + 1..Len(text) + 1, k = Past(text, j)
  PROVE  Opening(text, from, k, ts)
<1>1. Len(ts) <= 1
  BY Zenon DEF Opening
<1>2. ASSUME NEW to \in k..Len(text) + 1, NEW f, Leading(text, from, to, f) PROVE f[<<from, 0>>] = ts \o f[<<k, Len(ts)>>]
  <2>1. f[<<from, 0>>] = ts \o f[<<j, Len(ts)>>] /\ LeadOn(text, f, j, k, Len(ts))
    BY <1>2, OpeningAt, ZenonT(40)
  <2>2. f[<<j, Len(ts)>>] = f[<<k, Len(ts)>>]
    BY <2>1, Zenon DEF LeadOn
  <2> QED
    BY <2>1, <2>2, Zenon
<1> QED
  BY <1>1, <1>2, Zenon DEF Opening

\* ... what is no word ends them, ...
LEMMA OpeningStopped ==
  ASSUME NEW text, Script(text), NEW from \in Nat, from >= 1, NEW j \in 1..Len(text), from <= j,
         NEW ts \in Seq(Spelling), Opening(text, from, j, ts), ~Passes(text[j]), NEW k \in j + 1..Len(text) + 1
  PROVE  \A to \in k..Len(text) + 1 : \A f : Leading(text, from, to, f) => f[<<from, 0>>] = ts
<1>1. ts \o <<>> = ts
  BY ConcatEmptySeq, Zenon
<1>2. ASSUME NEW to \in k..Len(text) + 1, NEW f, Leading(text, from, to, f) PROVE f[<<from, 0>>] = ts
  <2>1. f[<<from, 0>>] = ts \o f[<<j, Len(ts)>>] /\ LeadOn(text, f, j, k, Len(ts))
    BY <1>2, OpeningAt, Zenon
  <2>2. f[<<j, Len(ts)>>] = <<>>
    BY <2>1, Zenon DEF LeadOn
  <2> QED
    BY <1>1, <2>1, <2>2, Zenon
<1> QED
  BY <1>2

LEMMA LedByToken ==
  ASSUME NEW text, Script(text), NEW from \in Nat, from >= 1, NEW j \in 1..Len(text), from <= j,
         NEW ts \in Seq(Spelling), Opening(text, from, j, ts), ~Passes(text[j]), NEW k \in j + 1..Len(text) + 1
  PROVE  Led(text, from, k, Next2(ts, <<>>))
<1> DEFINE vs == Append(ts, <<>>)
<1>1. Len(ts) \in {0, 1}
  BY OpeningShort, Zenon
<1>2. /\ Next2(ts, <<>>) = vs /\ vs \in Seq(Spelling) /\ Len(vs) = Len(ts) + 1 /\ Len(vs) >= 1
      /\ Len(ts) = 0 => vs[1] = <<>>
      /\ Len(ts) = 1 => /\ vs[1] = ts[1] /\ vs[2] = <<>> /\ Len(vs) >= 2
                        /\ Nth(ts, 1) = ts[1] /\ Nth(ts, 2) = <<>>
  BY <1>1, NoSpelling, NextTwo, ZenonT(40) DEF TwoIs
<1> HIDE DEF vs
<1>3. Fits(ts, vs)
  <2>1. CASE Len(ts) = 0
    BY <1>2, <2>1, Zenon DEF Fits
  <2>2. CASE Len(ts) = 1
    BY <1>2, <2>2, Zenon DEF Fits
  <2> QED
    BY <1>1, <2>1, <2>2, Zenon
<1>4. \A to \in k..Len(text) + 1 : \A f : Leading(text, from, to, f) => f[<<from, 0>>] = ts
  BY OpeningStopped, Zenon
<1> QED
  BY <1>2, <1>3, <1>4, Zenon DEF Led

\* ... an e that was none of them does not tell, ...
LEMMA LedByDrop ==
  ASSUME NEW text, Script(text), NEW from \in Nat, from >= 1, NEW j \in 1..Len(text), from <= j,
         NEW ts \in Seq(Spelling), <<"e">> \in Spelling, ~Passes(text[j]), NEW k \in j + 1..Len(text) + 1,
         Opening(text, from, j, Next2(ts, <<"e">>)) \/ Led(text, from, j, Next2(ts, <<"e">>))
  PROVE  Led(text, from, k, Next2(ts, <<>>))
<1> DEFINE es == Next2(ts, <<"e">>)
           ns == Next2(ts, <<>>)
<1>0. Len(text) \in Nat /\ j \in Nat /\ k \in Nat /\ j <= k
  BY DEF Script
<1>1. \A to \in k..Len(text) + 1 : to \in j..Len(text) + 1
  BY <1>0
<1>2. ASSUME Len(ts) \in {0, 1}
      PROVE  /\ es \in Seq(Spelling) /\ Len(ns) >= 1 /\ (Len(es) = Len(ts) + 1)
             /\ Len(ts) = 0 => ns[1] = <<>>
             /\ Len(ts) = 1 => es[1] = ts[1] /\ es[2] = <<"e">> /\ ns[1] = ts[1] /\ ns[2] = <<>> /\ Len(ns) >= 2
  <2> DEFINE as == Append(ts, <<"e">>)
             bs == Append(ts, <<>>)
  <2>1. es = as /\ as \in Seq(Spelling) /\ Len(as) = Len(ts) + 1 /\ (Len(ts) = 1 => as[1] = ts[1] /\ as[2] = <<"e">>)
    BY <1>2, NextTwo, Zenon DEF TwoIs
  <2>2. ns = bs /\ Len(bs) >= 1 /\ (Len(ts) = 0 => bs[1] = <<>>) /\ (Len(ts) = 1 => bs[1] = ts[1] /\ bs[2] = <<>> /\ Len(bs) >= 2)
    BY <1>2, NoSpelling, NextTwo, ZenonT(40) DEF TwoIs
  <2> HIDE DEF as, bs, es, ns
  <2> QED
    BY <2>1, <2>2, Zenon
<1>3. CASE Len(ts) = 0
  <2>1. es \in Seq(Spelling) /\ Len(ns) >= 1 /\ ns[1] = <<>>
    BY <1>2, <1>3
  <2> HIDE DEF es, ns
  <2>2. CASE Opening(text, from, j, es)
    <3>1. \A to \in k..Len(text) + 1 : \A f : Leading(text, from, to, f) => f[<<from, 0>>] = es
      BY <2>1, <2>2, OpeningStopped, Zenon
    <3>2. Fits(es, ns)
      BY <2>1, Zenon DEF Fits
    <3>3. Led(text, from, k, ns)
      BY <2>1, <3>1, <3>2, Zenon DEF Led
    <3> QED
      BY <3>3 DEF ns
  <2>3. CASE Led(text, from, j, es)
    <3>1. PICK ws \in Seq(Spelling) :
            Fits(ws, es) /\ \A to \in j..Len(text) + 1 : \A f : Leading(text, from, to, f) => f[<<from, 0>>] = ws
      BY <2>3, Zenon DEF Led
    <3>2. Fits(ws, ns)
      BY <2>1, Zenon DEF Fits
    <3>3. Led(text, from, k, ns)
      BY <1>1, <3>1, <3>2, Zenon DEF Led
    <3> QED
      BY <3>3 DEF ns
  <2> QED
    BY <2>2, <2>3 DEF es
<1>4. CASE Len(ts) = 1
  <2>1. /\ es[1] = ts[1] /\ es[2] = <<"e">> /\ Len(es) = 2
        /\ ns[1] = ts[1] /\ ns[2] = <<>> /\ Len(ns) >= 1 /\ Len(ns) >= 2
    <3> HIDE DEF es, ns
    <3> QED
      BY <1>2, <1>4
  <2>2. Led(text, from, j, es)
    <3>1. ~(Len(es) <= 1)
      <4> HIDE DEF es
      <4> QED
        BY <2>1
    <3> QED
      BY <3>1, Zenon DEF Opening
  <2>3. PICK ws \in Seq(Spelling) :
          Fits(ws, es) /\ \A to \in j..Len(text) + 1 : \A f : Leading(text, from, to, f) => f[<<from, 0>>] = ws
    BY <2>2, Zenon DEF Led
  <2>4. <<"e">> # <<>>
    OBVIOUS
  <2> HIDE DEF es, ns
  <2>5. Fits(ws, ns)
    BY <2>1, <2>3, <2>4, Zenon DEF Fits
  <2>6. Led(text, from, k, ns)
    BY <1>1, <2>3, <2>5, Zenon DEF Led
  <2> QED
    BY <2>6 DEF ns
<1>5. CASE Len(ts) >= 2
  <2>1. es = ts /\ ns = ts
    <3>1. ~(Len(ts) < 2)
      BY <1>5
    <3> QED
      BY <3>1, Zenon DEF Next2
  <2>2. ~Opening(text, from, j, ts)
    <3>1. ~(Len(ts) <= 1)
      BY <1>5
    <3> QED
      BY <3>1, Zenon DEF Opening
  <2> HIDE DEF es, ns
  <2>3. Led(text, from, j, ts)
    BY <2>1, <2>2 DEF es
  <2>4. Led(text, from, k, ts)
    BY <1>0, <2>3, NoSpelling, LedOn, Zenon
  <2>5. Led(text, from, k, ns)
    BY <2>1, <2>4
  <2> QED
    BY <2>5 DEF ns
<1>6. Len(ts) \in Nat
  OBVIOUS
<1> HIDE DEF es, ns
<1>7. Len(ts) = 0 \/ Len(ts) = 1 \/ Len(ts) >= 2
  BY <1>6
<1> QED
  BY <1>3, <1>4, <1>5, <1>7 DEF ns

Grouped(S, ts, w) == \A u \in Seq(S) : ts \o (<<w>> \o u) = Append(ts, w) \o u

LEMMA Regroup ==
  ASSUME NEW S, NEW ts \in Seq(S), NEW w \in S
  PROVE  Grouped(S, ts, w)
<1> SUFFICES ASSUME NEW u \in Seq(S) PROVE ts \o (<<w>> \o u) = Append(ts, w) \o u
  BY DEF Grouped
<1> DEFINE one == <<w>>
<1>1. one \in Seq(S)
  OBVIOUS
<1>2. Append(ts, w) = ts \o one
  BY AppendIsConcat
<1> HIDE DEF one
<1>3. (ts \o one) \o u = ts \o (one \o u)
  BY <1>1, ConcatAssociative
<1> QED
  BY <1>2, <1>3 DEF one

\* ... and a word is one more.
LEMMA LedByWord ==
  ASSUME NEW text, Script(text), NEW from \in Nat, from >= 1, NEW j \in 1..Len(text), from <= j,
         NEW ts \in Seq(Spelling), Opening(text, from, j, ts), Letter(text[j]), NEW k \in j + 1..Len(text) + 1,
         k = WordEnd(text, j), NEW w \in Spelling, w = SubSeq(text, j, k - 1)
  PROVE  Opening(text, from, k, Next2(ts, w)) \/ Led(text, from, k, Next2(ts, w))
<1> DEFINE vs == Append(ts, w)
<1>1. Len(ts) \in {0, 1}
  BY OpeningShort, Zenon
<1>2. /\ Next2(ts, w) = vs /\ vs \in Seq(Spelling) /\ Len(vs) = Len(ts) + 1 /\ Len(vs) >= 1
      /\ Len(ts) = 1 => Len(vs) >= 2 /\ Nth(vs, 1) = vs[1] /\ Nth(vs, 2) = vs[2]
  <2> HIDE DEF vs
  <2>1. TwoIs(Spelling, ts, w, Append(ts, w))
    BY <1>1, NextTwo, Zenon
  <2>2. TwoIs(Spelling, ts, w, vs)
    BY <2>1 DEF vs
  <2> QED
    BY <2>2, Zenon DEF TwoIs
<1>3. \A u \in Seq(Spelling) : ts \o (<<w>> \o u) = vs \o u
  <2>1. Grouped(Spelling, ts, w)
    BY Regroup, Zenon
  <2> QED
    BY <2>1, Zenon DEF Grouped
<1> HIDE DEF vs
<1>4. ASSUME NEW to \in k..Len(text) + 1, NEW f, Leading(text, from, to, f)
      PROVE  f[<<from, 0>>] = vs \o f[<<k, Len(vs)>>] /\ f[<<k, 2>>] = <<>>
  <2>1. f[<<from, 0>>] = ts \o f[<<j, Len(ts)>>] /\ LeadOn(text, f, j, k, Len(ts))
    BY <1>4, OpeningAt, ZenonT(40)
  <2>2. f[<<j, Len(ts)>>] = <<w>> \o f[<<k, Len(ts) + 1>>] /\ f[<<k, Len(ts) + 1>>] \in Seq(Spelling) /\ f[<<k, 2>>] = <<>>
    BY <2>1, Zenon DEF LeadOn
  <2>3. ts \o (<<w>> \o f[<<k, Len(ts) + 1>>]) = vs \o f[<<k, Len(ts) + 1>>]
    BY <1>3, <2>2, Zenon
  <2> QED
    BY <1>2, <2>1, <2>2, <2>3, Zenon
<1>5. CASE Len(ts) = 0
  <2>1. Len(vs) <= 1
    BY <1>2, <1>5
  <2>2. \A to \in k..Len(text) + 1 : \A f : Leading(text, from, to, f) => f[<<from, 0>>] = vs \o f[<<k, Len(vs)>>]
    BY <1>4, Zenon
  <2> QED
    BY <1>2, <2>1, <2>2, Zenon DEF Opening
<1>6. CASE Len(ts) = 1
  <2>1. Len(vs) = 2
    BY <1>2, <1>6
  <2>2. Fits(vs, vs)
    BY <1>2, <1>6, Zenon DEF Fits
  <2>3. vs \o <<>> = vs
    BY <1>2, ConcatEmptySeq, Zenon
  <2>4. \A to \in k..Len(text) + 1 : \A f : Leading(text, from, to, f) => f[<<from, 0>>] = vs
    BY <1>4, <2>1, <2>3, Zenon
  <2> QED
    BY <1>2, <2>2, <2>4, Zenon DEF Led
<1> QED
  BY <1>1, <1>5, <1>6

-----------------------------------------------------------------------------
(* From one position to the next nothing that controls is lost. *)

LEMMA SolidOn ==
  ASSUME NEW text, NEW from, NEW j \in Nat, NEW k \in Nat, j <= k, Solid(text, from, j)
  PROVE  Solid(text, from, k)
<1>1. PICK n \in from..(j - 1) : text[n] \notin Blank
  BY DEF Solid
<1>2. n \in from..(k - 1)
  BY <1>1
<1> QED
  BY <1>1, <1>2 DEF Solid

LEMMA SolidAt ==
  ASSUME NEW text, NEW from \in Nat, NEW j \in Nat, NEW k \in Nat, from <= j, j < k, text[j] \notin Blank
  PROVE  Solid(text, from, k)
<1>1. j \in from..(k - 1)
  OBVIOUS
<1> QED
  BY <1>1 DEF Solid

\* The first two tokens have been read, or no word has come that is none of them.
Ample(ts, ws) == Len(ts) >= 2 \/ Len(ws) <= Len(ts)

\* How many one more makes, of at most so many.
Upon(n, m, max) == m = IF n < max THEN n + 1 ELSE n

LEMMA MoreOf ==
  ASSUME NEW S, NEW ts \in Seq(S), NEW w \in S
  PROVE  /\ Len(ts) \in Nat /\ Len(Next2(ts, w)) \in Nat /\ Len(Next4(ts, w)) \in Nat
         /\ Upon(Len(ts), Len(Next2(ts, w)), 2) /\ Upon(Len(ts), Len(Next4(ts, w)), 4)
<1>1. Len(ts) \in Nat /\ Len(Append(ts, w)) = Len(ts) + 1
  OBVIOUS
<1>2. CASE Len(ts) < 2
  BY <1>1, <1>2 DEF Next2, Next4, Upon
<1>3. CASE ~(Len(ts) < 2)
  BY <1>1, <1>3 DEF Next2, Next4, Upon
<1> QED
  BY <1>2, <1>3

LEMMA AmpleByToken ==
  ASSUME NEW ts \in Seq(Spelling), NEW ws \in Seq(Spelling), NEW w \in Spelling, Ample(ts, ws)
  PROVE  Ample(Next2(ts, w), ws) /\ Ample(Next2(ts, w), Next4(ws, w))
<1> DEFINE n == Len(ts)
           m == Len(ws)
           n2 == Len(Next2(ts, w))
           m4 == Len(Next4(ws, w))
<1>1. n \in Nat /\ m \in Nat /\ n2 \in Nat /\ m4 \in Nat /\ Upon(n, n2, 2) /\ Upon(m, m4, 4)
  BY MoreOf, Zenon
<1>2. n >= 2 \/ m <= n
  BY DEF Ample
<1> HIDE DEF n, m, n2, m4
<1>3. (n2 >= 2 \/ m <= n2) /\ (n2 >= 2 \/ m4 <= n2)
  BY <1>1, <1>2 DEF Upon
<1> QED
  BY <1>3 DEF n2, m, m4, Ample

LEMMA AmpleByDrop ==
  ASSUME NEW ts \in Seq(Spelling), NEW ws \in Seq(Spelling), <<"e">> \in Spelling,
         Ample(Next2(ts, <<"e">>), Next4(ws, <<"e">>))
  PROVE  Ample(Next2(ts, <<>>), ws)
<1> DEFINE n == Len(ts)
           m == Len(ws)
           ne == Len(Next2(ts, <<"e">>))
           n2 == Len(Next2(ts, <<>>))
           me == Len(Next4(ws, <<"e">>))
<1>1. n \in Nat /\ m \in Nat /\ ne \in Nat /\ me \in Nat /\ Upon(n, ne, 2) /\ Upon(m, me, 4)
  BY MoreOf, Zenon
<1>2. n2 \in Nat /\ Upon(n, n2, 2)
  BY MoreOf, NoSpelling, Zenon
<1>3. ne >= 2 \/ me <= ne
  BY DEF Ample
<1> HIDE DEF n, m, n2, ne, me
<1>4. n2 >= 2 \/ m <= n2
  BY <1>1, <1>2, <1>3 DEF Upon
<1> QED
  BY <1>4 DEF n2, m, Ample

\* What the reader has of the statement that is open is of its kind.
Typed(s) ==
  /\ s.tokens \in Seq(Spelling) /\ s.words \in Seq(Spelling) /\ s.stmts \in Seq(Nat \X Nat)
  /\ CreatesRoutine(s.words) \/ s.begins + s.cases = 0

LEMMA SoundTyped == ASSUME NEW s, Sound(s) PROVE Typed(s)
<1>1. s.tokens \in Seq(Spelling) /\ s.words \in Seq(Spelling) /\ s.stmts \in Seq(Nat \X Nat)
  BY Zenon DEF Sound, Reader
<1>2. CreatesRoutine(s.words) \/ s.begins + s.cases = 0
  BY DEF Sound
<1> QED
  BY <1>1, <1>2 DEF Typed

LEMMA AheadIs ==
  ASSUME NEW text, NEW j, NEW from, NEW s, NEW cut
  PROVE  Ahead(text, j, from, s, cut) <=>
           /\ from >= 1 /\ Ample(s.tokens, s.words)
           /\ s.tokens # <<>> => Solid(text, from, j)
           /\ Opening(text, from, j, s.tokens) \/ Led(text, from, j, s.tokens)
           /\ s.control => Found(text, cut)
  BY Zenon DEF Ahead, Ample

\* Blanks and comments, ...
LEMMA AheadPassed ==
  ASSUME NEW text, Script(text), NEW from \in Nat, NEW j \in 1..Len(text), from <= j,
         NEW k \in j + 1..Len(text) + 1, k = Past(text, j), text[j] \in Blank \/ text[j] \in {"--", "/*"},
         NEW s, NEW t, NEW cut, Typed(s), Kept(s, t, s.tokens), Ahead(text, j, from, s, cut)
  PROVE  Ahead(text, k, from, t, cut)
<1>1. Len(text) \in Nat /\ j \in Nat /\ k \in Nat /\ j <= k
  BY DEF Script
<1>2. /\ from >= 1 /\ Ample(s.tokens, s.words)
      /\ s.tokens # <<>> => Solid(text, from, j)
      /\ Opening(text, from, j, s.tokens) \/ Led(text, from, j, s.tokens)
      /\ s.control => Found(text, cut)
  BY AheadIs, Zenon
<1>3. t.tokens = s.tokens /\ t.words = s.words /\ t.control = s.control
  BY DEF Kept
<1>4. s.tokens \in Seq(Spelling)
  BY DEF Typed
<1>5. s.tokens # <<>> => Solid(text, from, k)
  BY <1>1, <1>2, SolidOn
<1>6. Opening(text, from, k, s.tokens) \/ Led(text, from, k, s.tokens)
  <2>1. CASE Opening(text, from, j, s.tokens)
    BY <1>2, <1>4, <2>1, OpeningPassed, Zenon
  <2>2. CASE Led(text, from, j, s.tokens)
    BY <1>1, <1>4, <2>2, NoSpelling, LedOn, Zenon
  <2> QED
    BY <1>2, <2>1, <2>2
<1>7. Ample(t.tokens, t.words) /\ (t.tokens # <<>> => Solid(text, from, k)) /\ (t.control => Found(text, cut))
  BY <1>2, <1>3, <1>5, Zenon
<1>8. Opening(text, from, k, t.tokens) \/ Led(text, from, k, t.tokens)
  BY <1>3, <1>6, Zenon
<1> QED
  BY <1>2, <1>7, <1>8, AheadIs, Zenon

\* ... strings, names and signs, ...
LEMMA AheadToken ==
  ASSUME NEW text, Script(text), NEW from \in Nat, NEW j \in 1..Len(text), from <= j,
         NEW k \in j + 1..Len(text) + 1, ~Passes(text[j]),
         NEW s, NEW t, NEW cut, Typed(s), Kept(s, t, Next2(s.tokens, <<>>)), Ahead(text, j, from, s, cut)
  PROVE  Ahead(text, k, from, t, cut)
<1>1. Len(text) \in Nat /\ j \in Nat /\ k \in Nat /\ j <= k /\ j < k
  BY DEF Script
<1>2. /\ from >= 1 /\ Ample(s.tokens, s.words)
      /\ Opening(text, from, j, s.tokens) \/ Led(text, from, j, s.tokens)
      /\ s.control => Found(text, cut)
  BY AheadIs, Zenon
<1>3. t.tokens = Next2(s.tokens, <<>>) /\ t.words = s.words /\ t.control = s.control
  BY DEF Kept
<1>4. s.tokens \in Seq(Spelling) /\ s.words \in Seq(Spelling)
  BY DEF Typed
<1>5. Solid(text, from, k)
  <2>1. text[j] \notin Blank
    BY DEF Passes
  <2> QED
    BY <1>1, <2>1, SolidAt, Zenon
<1>6. Led(text, from, k, t.tokens)
  <2>1. CASE Opening(text, from, j, s.tokens)
    BY <1>2, <1>3, <1>4, <2>1, LedByToken, Zenon
  <2>2. CASE Led(text, from, j, s.tokens)
    BY <1>1, <1>3, <1>4, <2>2, NoSpelling, LedOn, Zenon
  <2> QED
    BY <1>2, <2>1, <2>2
<1>7. Ample(t.tokens, t.words)
  BY <1>2, <1>3, <1>4, NoSpelling, AmpleByToken, Zenon
<1>8. t.control => Found(text, cut)
  BY <1>2, <1>3, Zenon
<1> QED
  BY <1>2, <1>5, <1>6, <1>7, <1>8, AheadIs, Zenon

\* ... escape strings, ...
LEMMA AheadDropped ==
  ASSUME NEW text, Script(text), NEW from \in Nat, NEW j \in 1..Len(text), from <= j,
         NEW k \in j + 1..Len(text) + 1, ~Passes(text[j]),
         NEW r, NEW s, NEW t, NEW cut, Dropped(r, s, t), Ahead(text, j, from, s, cut)
  PROVE  Ahead(text, k, from, t, cut)
<1>1. Len(text) \in Nat /\ j \in Nat /\ k \in Nat /\ j < k
  BY DEF Script
<1>2. /\ from >= 1 /\ Ample(s.tokens, s.words)
      /\ Opening(text, from, j, s.tokens) \/ Led(text, from, j, s.tokens)
      /\ s.control => Found(text, cut)
  BY AheadIs, Zenon
<1>3. /\ r.words \in Seq(Spelling) /\ r.tokens \in Seq(Spelling) /\ <<"e">> \in Spelling
      /\ s.words = Next4(r.words, <<"e">>) /\ t.words = r.words
      /\ s.tokens = Next2(r.tokens, <<"e">>) /\ t.tokens = Next2(r.tokens, <<>>)
      /\ t.control = s.control
  BY Zenon DEF Dropped
<1>5. Solid(text, from, k)
  <2>1. text[j] \notin Blank
    BY DEF Passes
  <2> QED
    BY <1>1, <2>1, SolidAt, Zenon
<1>6. Led(text, from, k, t.tokens)
  <2>1. Opening(text, from, j, Next2(r.tokens, <<"e">>)) \/ Led(text, from, j, Next2(r.tokens, <<"e">>))
    BY <1>2, <1>3, Zenon
  <2> QED
    BY <1>2, <1>3, <2>1, LedByDrop, Zenon
<1>7. Ample(t.tokens, t.words)
  <2>1. Ample(Next2(r.tokens, <<"e">>), Next4(r.words, <<"e">>))
    BY <1>2, <1>3, Zenon
  <2> QED
    BY <1>3, <2>1, AmpleByDrop, Zenon
<1>8. t.control => Found(text, cut)
  BY <1>2, <1>3, Zenon
<1> QED
  BY <1>2, <1>5, <1>6, <1>7, <1>8, AheadIs, Zenon

\* ... words, ...
LEMMA AheadSpelled ==
  ASSUME NEW text, Script(text), NEW from \in Nat, NEW j \in 1..Len(text), from <= j,
         NEW k \in j + 1..Len(text) + 1, Letter(text[j]), k = WordEnd(text, j),
         NEW w \in Spelling, w = SubSeq(text, j, k - 1),
         NEW s, NEW t, NEW cut, Typed(s), Spelled(s, w, t), Ahead(text, j, from, s, cut)
  PROVE  Ahead(text, k, from, t, cut)
<1>1. Len(text) \in Nat /\ j \in Nat /\ k \in Nat /\ j < k /\ j <= k
  BY DEF Script
<1>2. /\ from >= 1 /\ Ample(s.tokens, s.words)
      /\ Opening(text, from, j, s.tokens) \/ Led(text, from, j, s.tokens)
      /\ s.control => Found(text, cut)
  BY AheadIs, Zenon
<1>3. t.tokens = Next2(s.tokens, w) /\ t.words = Next4(s.words, w) /\ t.control = s.control
  BY Zenon DEF Spelled
<1>4. s.tokens \in Seq(Spelling) /\ s.words \in Seq(Spelling)
  BY DEF Typed
<1>5. Solid(text, from, k)
  <2>1. text[j] \notin Blank
    BY Zenon DEF Letter
  <2> QED
    BY <1>1, <2>1, SolidAt, Zenon
<1>6. Opening(text, from, k, t.tokens) \/ Led(text, from, k, t.tokens)
  <2>1. CASE Opening(text, from, j, s.tokens)
    BY <1>2, <1>3, <1>4, <2>1, LedByWord, Zenon
  <2>2. CASE Led(text, from, j, s.tokens)
    BY <1>1, <1>3, <1>4, <2>2, LedOn, ZenonT(40)
  <2> QED
    BY <1>2, <2>1, <2>2
<1>7. Ample(t.tokens, t.words)
  BY <1>2, <1>3, <1>4, AmpleByToken, Zenon
<1>8. t.control => Found(text, cut)
  BY <1>2, <1>3, Zenon
<1> QED
  BY <1>2, <1>5, <1>6, <1>7, <1>8, AheadIs, Zenon

LEMMA HeadsLong ==
  \A h \in {<<"create", "function">>, <<"create", "or", "replace", "function">>} : Len(h) \in Nat /\ Len(h) >= 2
<1>1. \A a, b : Len(<<a, b>>) \in Nat /\ Len(<<a, b>>) >= 2
  OBVIOUS
<1>2. \A a, b, c, d : Len(<<a, b, c, d>>) \in Nat /\ Len(<<a, b, c, d>>) >= 2
  OBVIOUS
<1> QED
  BY <1>1, <1>2, Zenon

\* ... and the semicolons of a routine, whose words have told already.
LEMMA AheadInside ==
  ASSUME NEW text, Script(text), NEW from \in Nat, NEW j \in 1..Len(text), from <= j,
         NEW s, NEW t, NEW cut, Typed(s), s.begins + s.cases # 0, Kept(s, t, s.tokens), Ahead(text, j, from, s, cut)
  PROVE  Ahead(text, j + 1, from, t, cut)
<1>1. Len(text) \in Nat /\ j \in Nat /\ j + 1 \in Nat /\ j <= j + 1
  BY DEF Script
<1>2. /\ from >= 1 /\ Ample(s.tokens, s.words)
      /\ s.tokens # <<>> => Solid(text, from, j)
      /\ Opening(text, from, j, s.tokens) \/ Led(text, from, j, s.tokens)
      /\ s.control => Found(text, cut)
  BY AheadIs, Zenon
<1>3. t.tokens = s.tokens /\ t.words = s.words /\ t.control = s.control
  BY DEF Kept
<1>4. s.tokens \in Seq(Spelling) /\ CreatesRoutine(s.words) /\ Len(s.words) \in Nat /\ Len(s.tokens) \in Nat
  BY DEF Typed
<1>5. Len(s.words) >= 2
  <2>1. \A h \in {<<"create", "function">>, <<"create", "or", "replace", "function">>} : Len(h) \in Nat /\ Len(h) >= 2
    BY HeadsLong, Zenon
  <2>2. PICK h \in {<<"create", "function">>, <<"create", "or", "replace", "function">>} : Len(h) <= Len(s.words)
    BY <1>4, Zenon DEF CreatesRoutine
  <2>3. Len(h) \in Nat /\ Len(h) >= 2
    BY <2>1, <2>2, Zenon
  <2>4. \A a, b \in Nat : a >= 2 /\ a <= b => b >= 2
    OBVIOUS
  <2> QED
    BY <1>4, <2>2, <2>3, <2>4, Zenon
<1>6. Len(s.tokens) >= 2
  BY <1>2, <1>4, <1>5 DEF Ample
<1>7. Led(text, from, j, s.tokens)
  <2>1. ~(Len(s.tokens) <= 1)
    BY <1>4, <1>6
  <2> QED
    BY <1>2, <2>1, Zenon DEF Opening
<1>8. Led(text, from, j + 1, t.tokens)
  BY <1>1, <1>3, <1>4, <1>7, NoSpelling, LedOn, Zenon
<1>9. s.tokens # <<>> => Solid(text, from, j + 1)
  BY <1>1, <1>2, SolidOn, Zenon
<1>10. Ample(t.tokens, t.words) /\ (t.tokens # <<>> => Solid(text, from, j + 1)) /\ (t.control => Found(text, cut))
  BY <1>2, <1>3, <1>9, Zenon
<1> QED
  BY <1>2, <1>8, <1>10, AheadIs, Zenon

\* Where a statement that controls is cut, checkFile sees that it does, ...
LEMMA SeenAt ==
  ASSUME NEW text, Script(text), NEW from \in Nat, NEW to \in from..Len(text) + 1, NEW s, NEW cut, Typed(s),
         Ahead(text, to, from, s, cut), Controls(s.tokens)
  PROVE  Solid(text, from, to) /\ TransactionControl(text, <<from, to>>)
<1> DEFINE ts == s.tokens
<1>1. /\ from >= 1 /\ (ts # <<>> => Solid(text, from, to)) /\ (Opening(text, from, to, ts) \/ Led(text, from, to, ts))
      /\ ts \in Seq(Spelling) /\ Controls(ts)
  BY AheadIs, Zenon DEF Typed
<1> HIDE DEF ts
<1>2. ts # <<>>
  <2>1. Nth(<<>>, 1) = <<>> /\ Nth(<<>>, 2) = <<>>
    BY DEF Nth
  <2>2. <<>> \notin {<<"begin">>, <<"commit">>, <<"end">>, <<"abort">>} /\ <<>> \notin {<<"start">>, <<"prepare">>} /\ <<>> # <<"rollback">>
    OBVIOUS
  <2>3. ~Controls(<<>>)
    BY <2>1, <2>2, Zenon DEF Controls, Nth
  <2> QED
    BY <1>1, <2>3
<1>3. Len(text) \in Nat /\ to \in Nat /\ to \in to..Len(text) + 1 /\ from \in from..to /\ to \in from..to
  BY DEF Script
<1>4. PICK f : Leading(text, from, to, f) /\ LeadingWords(text, from, to) = f[<<from, 0>>] \o <<<<>>, <<>>>>
  BY <1>1, LeadIs, Zenon
<1>5. \E ws \in Seq(Spelling) : f[<<from, 0>>] = ws /\ Controls(ws)
  <2>1. CASE Opening(text, from, to, ts)
    <3>1. Len(ts) \in 0..1
      BY <1>1, <2>1, OpeningShort, Zenon
    <3>2. Len(ts) \in 0..2
      BY <3>1
    <3>3. f[<<to, Len(ts)>>] = Lead(text, to, f, to, Len(ts))
      BY <1>3, <1>4, <3>2, Zenon DEF Leading
    <3>4. f[<<to, Len(ts)>>] = <<>>
      BY <3>3, Zenon DEF Lead
    <3>5. f[<<from, 0>>] = ts \o f[<<to, Len(ts)>>]
      BY <1>3, <1>4, <2>1, Zenon DEF Opening
    <3>6. ts \o <<>> = ts
      BY <1>1, ConcatEmptySeq, Zenon
    <3> QED
      BY <1>1, <3>4, <3>5, <3>6, Zenon
  <2>2. CASE Led(text, from, to, ts)
    <3>1. PICK ws \in Seq(Spelling) :
            Fits(ws, ts) /\ \A at \in to..Len(text) + 1 : \A g : Leading(text, from, at, g) => g[<<from, 0>>] = ws
      BY <2>2, Zenon DEF Led
    <3>2. f[<<from, 0>>] = ws
      BY <1>3, <1>4, <3>1, Zenon
    <3>3. Controls(ws)
      BY <1>1, <3>1, FitControls, Zenon
    <3> QED
      BY <3>2, <3>3
  <2> QED
    BY <1>1, <2>1, <2>2
<1>6. TransactionControl(text, <<from, to>>)
  <2>1. PICK ws \in Seq(Spelling) : f[<<from, 0>>] = ws /\ Controls(ws)
    BY <1>5
  <2>2. LeadingWords(text, from, to) = ws \o <<<<>>, <<>>>>
    BY <1>4, <2>1
  <2> QED
    BY <2>1, <2>2, CommandIs, Zenon
<1> QED
  BY <1>1, <1>2, <1>6

LEMMA Longer ==
  ASSUME NEW S, NEW q \in Seq(S), NEW x \in S
  PROVE  /\ DOMAIN q \subseteq DOMAIN Append(q, x) /\ \A n \in DOMAIN q : Append(q, x)[n] = q[n]
         /\ Len(q) + 1 \in DOMAIN Append(q, x) /\ Append(q, x)[Len(q) + 1] = x
<1>1. DOMAIN q = 1..Len(q) /\ DOMAIN Append(q, x) = 1..Len(q) + 1 /\ Len(q) \in Nat
  OBVIOUS
<1>2. (\A n \in 1..Len(q) : Append(q, x)[n] = q[n]) /\ Append(q, x)[Len(q) + 1] = x
  OBVIOUS
<1>3. 1..Len(q) \subseteq 1..Len(q) + 1 /\ Len(q) + 1 \in 1..Len(q) + 1
  BY <1>1
<1> QED
  BY <1>1, <1>2, <1>3, Zenon

\* ... and what it has seen it does not forget.
LEMMA FoundOn ==
  ASSUME NEW text, NEW cut \in Seq(Nat \X Nat), NEW a \in Nat, NEW b \in Nat
  PROVE  /\ Found(text, cut) => Found(text, Append(cut, <<a, b>>))
         /\ TransactionControl(text, <<a, b>>) => Found(text, Append(cut, <<a, b>>))
<1> DEFINE one == <<a, b>>
           more == Append(cut, one)
<1>1. one \in Nat \X Nat
  OBVIOUS
<1> HIDE DEF one
<1>2. /\ DOMAIN cut \subseteq DOMAIN more /\ \A n \in DOMAIN cut : more[n] = cut[n]
      /\ Len(cut) + 1 \in DOMAIN more /\ more[Len(cut) + 1] = one
  BY <1>1, Longer
<1> HIDE DEF more
<1>3. Found(text, cut) => Found(text, more)
  BY <1>2, Zenon DEF Found
<1>4. TransactionControl(text, one) => Found(text, more)
  BY <1>2, Zenon DEF Found
<1> QED
  BY <1>3, <1>4 DEF more, one

LEMMA FoundByCut ==
  ASSUME NEW text, Script(text), NEW from \in Nat, NEW to \in from..Len(text) + 1, NEW s, NEW cut \in Seq(Nat \X Nat), Typed(s),
         Ahead(text, to, from, s, cut), s.control \/ Controls(s.tokens)
  PROVE  Found(text, IF Solid(text, from, to) THEN Append(cut, <<from, to>>) ELSE cut)
<1>1. to \in Nat
  BY DEF Script
<1>2. s.control => Found(text, cut)
  BY AheadIs, Zenon
<1>3. Controls(s.tokens) => Solid(text, from, to) /\ TransactionControl(text, <<from, to>>)
  BY SeenAt, Zenon
<1>4. /\ Found(text, cut) => Found(text, Append(cut, <<from, to>>))
      /\ TransactionControl(text, <<from, to>>) => Found(text, Append(cut, <<from, to>>))
  BY <1>1, FoundOn, Zenon
<1>5. CASE Solid(text, from, to)
  <2>1. Found(text, Append(cut, <<from, to>>))
    BY <1>2, <1>3, <1>4, Zenon
  <2> QED
    BY <1>5, <2>1, Zenon
<1>6. CASE ~Solid(text, from, to)
  BY <1>2, <1>3, <1>6, Zenon
<1> QED
  BY <1>5, <1>6

\* A statement begins.
LEMMA AheadAfresh ==
  ASSUME NEW text, Script(text), NEW from \in 1..Len(text) + 1, NEW t, NEW cut, t.tokens = <<>>, t.words = <<>>,
         t.control => Found(text, cut)
  PROVE  Ahead(text, from, from, t, cut)
<1>1. Len(text) \in Nat /\ from \in Nat /\ from >= 1
  BY DEF Script
<1>2. Ample(<<>>, <<>>) /\ Len(<<>>) <= 1 /\ Len(<<>>) = 0
  BY DEF Ample
<1>3. Opening(text, from, from, <<>>)
  <2>1. ASSUME NEW to \in from..Len(text) + 1, NEW f, Leading(text, from, to, f)
        PROVE  f[<<from, 0>>] = <<>> \o f[<<from, 0>>]
    <3>1. from \in from..to /\ 0 \in 0..2
      BY <1>1
    <3>2. f[<<from, 0>>] \in Seq(Spelling)
      BY <2>1, <3>1 DEF Leading
    <3> QED
      BY <3>2, ConcatEmptySeq, Zenon
  <2> QED
    BY <1>2, <2>1, Zenon DEF Opening
<1>4. Ample(t.tokens, t.words) /\ ~(t.tokens # <<>>)
  BY <1>2
<1>5. Opening(text, from, from, t.tokens)
  BY <1>3
<1> QED
  BY <1>1, <1>4, <1>5, AheadIs, Zenon

LEMMA AheadRestarted ==
  ASSUME NEW text, Script(text), NEW from \in Nat, NEW j \in 1..Len(text), from <= j,
         NEW s, NEW t, NEW cut \in Seq(Nat \X Nat), Typed(s), s.from = from, s.stmts = cut, Restarted(text, s, t, j),
         Ahead(text, j, from, s, cut)
  PROVE  Ahead(text, j + 1, j + 1, t, IF Solid(text, from, j) THEN Append(cut, <<from, j>>) ELSE cut)
<1> DEFINE now == IF Solid(text, from, j) THEN Append(cut, <<from, j>>) ELSE cut
<1>1. j \in from..Len(text) + 1 /\ j + 1 \in 1..Len(text) + 1
  BY DEF Script
<1>2. t.tokens = <<>> /\ t.words = <<>> /\ (t.control => s.control \/ Controls(s.tokens))
  BY DEF Restarted
<1>3. s.control \/ Controls(s.tokens) => Found(text, now)
  BY <1>1, FoundByCut, Zenon
<1> HIDE DEF now
<1>4. t.control => Found(text, now)
  BY <1>2, <1>3
<1>5. Ahead(text, j + 1, j + 1, t, now)
  BY <1>1, <1>2, <1>4, AheadAfresh, Zenon
<1> QED
  BY <1>5 DEF now

-----------------------------------------------------------------------------
(* The second invariant. *)

\* Where the splitter stands, in the text it is in.
Stands(text, j, from, s, cut) ==
  /\ Script(text) /\ from \in Nat /\ j \in Nat /\ j \in 1..Len(text) + 1 /\ from <= j
  /\ Typed(s) /\ s.from = from /\ s.stmts = cut /\ cut \in Seq(Nat \X Nat)

LEMMA StandsAlong ==
  ASSUME NEW text, Script(text), NEW j, NEW from, NEW ws, NEW d, NEW cut, Along(text, j, from, ws, d, cut)
  PROVE  Stands(text, j, from, Pending(At(text, j)), cut)
<1> DEFINE s == Pending(At(text, j))
<1>1. j \in 1..Len(text) + 1 /\ from <= j /\ s.from = from /\ s.stmts = cut /\ from \in Nat /\ j \in Nat
  BY AlongIs DEF Along, Agrees
<1>2. Sound(s)
  BY <1>1, StepAtom, PendingIs
<1> HIDE DEF s
<1>3. Typed(s)
  BY <1>2, SoundTyped
<1>4. cut \in Seq(Nat \X Nat)
  BY <1>1, <1>3 DEF Typed
<1> QED
  BY <1>1, <1>3, <1>4, Zenon DEF Stands, s

LEMMA NotPassed == \A c : Kind(c) \in {"quote", "dollar", "paren", "other"} => ~Passes(c)
<1> SUFFICES ASSUME NEW c, Kind(c) \in {"quote", "dollar", "paren", "other"} PROVE ~Passes(c)
  OBVIOUS
<1>1. Kind(c) # "blank" /\ Kind(c) # "letter" /\ Kind(c) # "line" /\ Kind(c) # "block"
  OBVIOUS
<1>2. c \notin Blank /\ ~Letter(c) /\ c # "--" /\ c # "/*"
  BY <1>1, KindIs, Zenon
<1> QED
  BY <1>2, Zenon DEF Passes

LEMMA TokenSeen ==
  ASSUME NEW text, NEW j \in 1..Len(text), NEW from, NEW cut, NEW k,
         Stands(text, j, from, Pending(At(text, j)), cut), Ahead(text, j, from, Pending(At(text, j)), cut),
         ~Passes(text[j]), Went(text, j, k, Next2(Pending(At(text, j)).tokens, <<>>))
  PROVE  Ahead(text, k, from, Pending(At(text, k)), cut)
<1> DEFINE s == Pending(At(text, j))
           t == Pending(At(text, k))
<1>1. k \in j + 1..Len(text) + 1 /\ Kept(s, t, Next2(s.tokens, <<>>))
  BY Zenon DEF Went
<1>2. Script(text) /\ from \in Nat /\ from <= j /\ Typed(s) /\ Ahead(text, j, from, s, cut)
  BY Zenon DEF Stands
<1> HIDE DEF s, t
<1>3. Ahead(text, k, from, t, cut)
  BY <1>1, <1>2, AheadToken, Zenon
<1> QED
  BY <1>3 DEF t

LEMMA PassedSeen ==
  ASSUME NEW text, NEW j \in 1..Len(text), NEW from, NEW cut, NEW k, k = Past(text, j),
         Stands(text, j, from, Pending(At(text, j)), cut), Ahead(text, j, from, Pending(At(text, j)), cut),
         text[j] \in Blank \/ text[j] \in {"--", "/*"}, Went(text, j, k, Pending(At(text, j)).tokens)
  PROVE  Ahead(text, k, from, Pending(At(text, k)), cut)
<1> DEFINE s == Pending(At(text, j))
           t == Pending(At(text, k))
<1>1. k \in j + 1..Len(text) + 1 /\ Kept(s, t, s.tokens)
  BY Zenon DEF Went
<1>2. Script(text) /\ from \in Nat /\ from <= j /\ Typed(s) /\ Ahead(text, j, from, s, cut)
  BY Zenon DEF Stands
<1> HIDE DEF s, t
<1>3. Ahead(text, k, from, t, cut)
  BY <1>1, <1>2, AheadPassed, Zenon
<1> QED
  BY <1>3 DEF t

LEMMA QuoteSees ==
  ASSUME Script(sql), ~Server(sql).apart, Along(sql, i, start, words, depth, stmts),
         Ahead(sql, i, start, Pending(At(sql, i)), stmts), Quote
  PROVE  Ahead(sql', i', start', Pending(At(sql', i')), stmts')
<1> DEFINE k == SkipQuoted(sql, i, sql[i], sql[i] = "'" /\ IsEString(sql, i))
<1>1. i < End(sql) /\ sql[i] \in Quotes
  BY Zenon DEF Quote, Scanning, Here, Quotes
<1>2. i' = k /\ UNCHANGED <<sql, start, words, depth, stmts>>
  BY Zenon DEF Quote, SkipTo, Here
<1>3. i \in 1..Len(sql) /\ Poised(sql, i) /\ Stands(sql, i, start, Pending(At(sql, i)), stmts)
  BY <1>1, Scans, StandsAlong
<1>4. ~Passes(sql[i])
  <2>1. Kind(sql[i]) = "quote"
    BY <1>1, KindIs, Zenon
  <2>2. Kind(sql[i]) \in {"quote", "dollar", "paren", "other"}
    BY <2>1
  <2> QED
    BY <2>2, NotPassed
<1>5. CASE sql[i] = "'" /\ IsEString(sql, i)
  <2>1. k = SkipQuoted(sql, i, sql[i], TRUE)
    BY <1>5, Zenon
  <2> HIDE DEF k
  <2>2. k \in i + 1..Len(sql) + 1 /\ Dropped(At(sql, i), Pending(At(sql, i)), Pending(At(sql, k)))
    BY <1>3, <1>5, <2>1, EscapesStep
  <2>3. start \in Nat /\ start <= i
    BY <1>3, Zenon DEF Stands
  <2>4. Ahead(sql, k, start, Pending(At(sql, k)), stmts)
    BY <1>3, <1>4, <2>2, <2>3, AheadDropped, Zenon
  <2> QED
    BY <1>2, <2>4, Zenon
<1>6. CASE ~(sql[i] = "'" /\ IsEString(sql, i))
  <2>1. k = SkipQuoted(sql, i, sql[i], FALSE)
    <3>1. (sql[i] = "'" /\ IsEString(sql, i)) = FALSE
      BY <1>6, Zenon
    <3> QED
      BY <3>1, Zenon
  <2> HIDE DEF k
  <2>2. Went(sql, i, k, Next2(Pending(At(sql, i)).tokens, <<>>))
    BY <1>1, <1>3, <1>6, <2>1, QuoteStep
  <2>3. Ahead(sql, k, start, Pending(At(sql, k)), stmts)
    BY <1>3, <1>4, <2>2, TokenSeen, Zenon
  <2> QED
    BY <1>2, <2>3, Zenon
<1> QED
  BY <1>5, <1>6

LEMMA CommentSees ==
  ASSUME Script(sql), ~Server(sql).apart, Along(sql, i, start, words, depth, stmts),
         Ahead(sql, i, start, Pending(At(sql, i)), stmts), Comment
  PROVE  Ahead(sql', i', start', Pending(At(sql', i')), stmts')
<1>1. i \in 1..Len(sql) /\ Poised(sql, i) /\ Stands(sql, i, start, Pending(At(sql, i)), stmts)
  BY Scans, StandsAlong DEF Comment, Scanning
<1>2. CASE sql[i] = "--" /\ SkipTo(SkipLine(sql, i))
  <2> DEFINE k == SkipLine(sql, i)
  <2>1. k = Past(sql, i) /\ sql[i] \in {"--", "/*"}
    BY <1>2, NoOther, Zenon DEF Past
  <2>2. Went(sql, i, k, Pending(At(sql, i)).tokens)
    BY <1>1, <1>2, LineStep
  <2> HIDE DEF k
  <2>3. Ahead(sql, k, start, Pending(At(sql, k)), stmts)
    BY <1>1, <2>1, <2>2, PassedSeen, Zenon
  <2> QED
    BY <1>2, <2>3, Zenon DEF SkipTo, k
<1>3. CASE sql[i] = "/*" /\ SkipTo(SkipBlockComment(sql, i))
  <2> DEFINE k == SkipBlockComment(sql, i)
  <2>1. k = Past(sql, i) /\ sql[i] \in {"--", "/*"}
    BY <1>3, NoOther, Zenon DEF Past
  <2>2. Went(sql, i, k, Pending(At(sql, i)).tokens)
    BY <1>1, <1>3, BlockStep
  <2> HIDE DEF k
  <2>3. Ahead(sql, k, start, Pending(At(sql, k)), stmts)
    BY <1>1, <2>1, <2>2, PassedSeen, Zenon
  <2> QED
    BY <1>3, <2>3, Zenon DEF SkipTo, k
<1> QED
  BY <1>2, <1>3, Zenon DEF Comment, Here

LEMMA DollarQuoteSees ==
  ASSUME Script(sql), ~Server(sql).apart, Along(sql, i, start, words, depth, stmts),
         Ahead(sql, i, start, Pending(At(sql, i)), stmts), DollarQuote
  PROVE  Ahead(sql', i', start', Pending(At(sql', i')), stmts')
<1>1. i \in 1..Len(sql) /\ Poised(sql, i) /\ sql[i] = "$" /\ Stands(sql, i, start, Pending(At(sql, i)), stmts)
  BY Scans, StandsAlong DEF DollarQuote, Scanning, Here
<1>2. ~Passes(sql[i])
  <2>1. Kind(sql[i]) = "dollar"
    BY <1>1, KindIs, Zenon
  <2>2. Kind(sql[i]) \in {"quote", "dollar", "paren", "other"}
    BY <2>1
  <2> QED
    BY <2>2, NotPassed
<1> DEFINE k == SkipDollarQuoted(sql, i)
<1>3. Went(sql, i, k, Next2(Pending(At(sql, i)).tokens, <<>>))
  BY <1>1, DollarStep
<1> HIDE DEF k
<1>4. Ahead(sql, k, start, Pending(At(sql, k)), stmts)
  BY <1>1, <1>2, <1>3, TokenSeen, Zenon
<1> QED
  BY <1>4, Zenon DEF DollarQuote, SkipTo, k

LEMMA OtherSees ==
  ASSUME Script(sql), ~Server(sql).apart, Along(sql, i, start, words, depth, stmts),
         Ahead(sql, i, start, Pending(At(sql, i)), stmts), Other
  PROVE  Ahead(sql', i', start', Pending(At(sql', i')), stmts')
<1>1. i \in 1..Len(sql) /\ Poised(sql, i) /\ Stands(sql, i, start, Pending(At(sql, i)), stmts)
  <2>1. i < End(sql)
    BY Zenon DEF Other, Scanning
  <2> QED
    BY <2>1, Scans, StandsAlong
<1>2. Kind(sql[i]) \in {"blank", "paren", "other"}
  BY OtherKinds, Zenon DEF Other, Here
<1> DEFINE ts == Pending(At(sql, i)).tokens
<1>3. Went(sql, i, i + 1, IF Kind(sql[i]) = "blank" THEN ts ELSE Next2(ts, <<>>))
  BY <1>1, <1>2, OtherStep
<1>4. CASE Kind(sql[i]) = "blank"
  <2>1. Went(sql, i, i + 1, ts) /\ sql[i] \in Blank
    BY <1>3, <1>4, KindIs, Zenon
  <2>2. i + 1 = Past(sql, i)
    BY <2>1, Zenon DEF Past
  <2>3. Ahead(sql, i + 1, start, Pending(At(sql, i + 1)), stmts)
    BY <1>1, <2>1, <2>2, PassedSeen, Zenon
  <2> QED
    BY <2>3, Zenon DEF Other, SkipTo
<1>5. CASE Kind(sql[i]) # "blank"
  <2>1. Went(sql, i, i + 1, Next2(ts, <<>>))
    BY <1>3, <1>5, Zenon
  <2>2. Kind(sql[i]) \in {"quote", "dollar", "paren", "other"}
    BY <1>2, <1>5
  <2>3. ~Passes(sql[i])
    BY <2>2, NotPassed
  <2>4. Ahead(sql, i + 1, start, Pending(At(sql, i + 1)), stmts)
    BY <1>1, <2>1, <2>3, TokenSeen, Zenon
  <2> QED
    BY <2>4, Zenon DEF Other, SkipTo
<1> QED
  BY <1>4, <1>5

LEMMA SemicolonSees ==
  ASSUME Script(sql), ~Server(sql).apart, Along(sql, i, start, words, depth, stmts),
         Ahead(sql, i, start, Pending(At(sql, i)), stmts), Semicolon
  PROVE  Ahead(sql', i', start', Pending(At(sql', i')), stmts')
<1> DEFINE s == Pending(At(sql, i))
           t == Pending(At(sql, i + 1))
<1>1. i < End(sql) /\ sql[i] = Cutter
  BY Zenon DEF Semicolon, Scanning, Here, Cutter
<1>2. i \in 1..Len(sql) /\ Poised(sql, i) /\ Stands(sql, i, start, s, stmts) /\ depth = s.begins + s.cases /\ depth \in Nat
  BY <1>1, Scans, StandsAlong, AlongIs DEF Agrees
<1>3. /\ s.begins + s.cases > 0 => Kept(s, t, s.tokens)
      /\ s.begins + s.cases = 0 => Restarted(sql, s, t, i)
  BY <1>1, <1>2, SemicolonStep
<1>4. Ahead(sql, i, start, s, stmts)
  OBVIOUS
<1> HIDE DEF s, t
<1>5. start \in Nat /\ start <= i /\ Typed(s) /\ s.from = start /\ s.stmts = stmts /\ stmts \in Seq(Nat \X Nat)
  BY <1>2, Zenon DEF Stands
<1>6. CASE depth > 0
  <2>1. s.begins + s.cases # 0 /\ Kept(s, t, s.tokens)
    BY <1>2, <1>3, <1>6
  <2>2. Ahead(sql, i + 1, start, t, stmts)
    BY <1>2, <1>4, <1>5, <2>1, AheadInside, Zenon
  <2>3. sql' = sql /\ i' = i + 1 /\ start' = start /\ stmts' = stmts
    BY <1>6, Zenon DEF Semicolon
  <2> QED
    BY <2>2, <2>3, Zenon DEF t
<1>7. CASE ~(depth > 0)
  <2>1. Restarted(sql, s, t, i)
    BY <1>2, <1>3, <1>7
  <2> DEFINE now == IF Solid(sql, start, i) THEN Append(stmts, <<start, i>>) ELSE stmts
  <2>2. Ahead(sql, i + 1, i + 1, t, now)
    BY <1>2, <1>4, <1>5, <2>1, AheadRestarted, Zenon
  <2>3. sql' = sql /\ i' = i + 1 /\ start' = i + 1 /\ stmts' = now
    BY <1>7, Zenon DEF Semicolon, Flushed
  <2> HIDE DEF now
  <2> QED
    BY <2>2, <2>3, Zenon DEF t
<1> QED
  BY <1>6, <1>7

LEMMA WordSees ==
  ASSUME Script(sql), ~Server(sql).apart, Along(sql, i, start, words, depth, stmts),
         Ahead(sql, i, start, Pending(At(sql, i)), stmts), Word
  PROVE  Ahead(sql', i', start', Pending(At(sql', i')), stmts')
<1> DEFINE k == WordEnd(sql, i)
           w == SubSeq(sql, i, k - 1)
           s == Pending(At(sql, i))
           t == Pending(At(sql, k))
<1>1. i < End(sql) /\ Letter(sql[i])
  BY Zenon DEF Word, Scanning, Here, IsIdentByte
<1>2. i \in 1..Len(sql) /\ Poised(sql, i) /\ Stands(sql, i, start, s, stmts)
  BY <1>1, Scans, StandsAlong
<1>3. k \in i + 1..Len(sql) + 1 /\ w \in Spelling /\ Spelled(s, w, t)
  BY <1>1, <1>2, WordStep
<1>4. w = SubSeq(sql, i, k - 1) /\ k = WordEnd(sql, i) /\ Ahead(sql, i, start, s, stmts)
  OBVIOUS
<1>5. sql' = sql /\ i' = k /\ start' = start /\ stmts' = stmts
  BY Zenon DEF Word
<1> HIDE DEF s, t, w, k
<1>6. start \in Nat /\ start <= i /\ Typed(s)
  BY <1>2, Zenon DEF Stands
<1>7. Ahead(sql, k, start, t, stmts)
  BY <1>1, <1>2, <1>3, <1>4, <1>6, AheadSpelled, Zenon
<1> QED
  BY <1>5, <1>7, Zenon DEF t

LEMMA FinishSees ==
  ASSUME Script(sql), ~Server(sql).apart, Along(sql, i, start, words, depth, stmts),
         Ahead(sql, i, start, Pending(At(sql, i)), stmts), Finish
  PROVE  Server(sql').control => Found(sql', stmts')
<1> DEFINE s == Pending(At(sql, i))
<1>1. Len(sql) \in Nat
  BY DEF Script
<1>2. sql' = sql /\ i = End(sql) /\ stmts' = IF Solid(sql, start, End(sql)) THEN Append(stmts, <<start, End(sql)>>) ELSE stmts
  BY Zenon DEF Finish, Flushed
<1>3. i \in Nat /\ i = Len(sql) + 1 /\ Poised(sql, i) /\ Stands(sql, i, start, s, stmts)
  BY <1>1, <1>2, StandsAlong DEF Along, End
<1>4. Finished(sql, s, Server(sql))
  BY <1>3, FinishStep
<1>5. Ahead(sql, i, start, s, stmts)
  OBVIOUS
<1> HIDE DEF s
<1>6. Server(sql).control => s.control \/ Controls(s.tokens)
  BY <1>4 DEF Finished
<1>7. start \in Nat /\ start <= i /\ Typed(s) /\ stmts \in Seq(Nat \X Nat)
  BY <1>3, Zenon DEF Stands
<1>8. i \in start..Len(sql) + 1
  BY <1>1, <1>3, <1>7
<1>9. s.control \/ Controls(s.tokens) => Found(sql, IF Solid(sql, start, i) THEN Append(stmts, <<start, i>>) ELSE stmts)
  BY <1>5, <1>7, <1>8, FoundByCut, Zenon
<1> QED
  BY <1>2, <1>6, <1>9, Zenon

LEMMA InitInSight == Init => InSight
<1> SUFFICES ASSUME Init PROVE InSight
  OBVIOUS
<1> DEFINE r == At(sql, 1)
           s == Pending(r)
<1>1. sql \in Texts /\ i = 1 /\ start = 1 /\ words = <<>> /\ depth = 0 /\ stmts = <<>>
  BY DEF Init
<1>2. Script(sql)
  BY <1>1, TextIsScript
<1>3. Len(sql) \in Nat /\ 1 \in 1..Len(sql) + 1
  <2>1. Len(sql) \in Nat
    BY <1>2 DEF Script
  <2> QED
    BY <2>1
<1>4. r = Start /\ Sound(r)
  BY <1>2, AtIs, StartSound
<1>5. Spelt(r) = <<>>
  BY <1>4 DEF Start, Spelt
<1>6. Gist(s) = Gist(Start)
  BY <1>4, <1>5, PendingIs
<1> HIDE DEF s, r
<1>7. s.tokens = <<>> /\ s.words = <<>> /\ s.control = FALSE
  BY <1>6 DEF Gist, Start
<1>8. Ahead(sql, 1, 1, s, stmts)
  BY <1>2, <1>3, <1>7, AheadAfresh, Zenon
<1>9. CASE Read.apart
  BY <1>9 DEF InSight
<1>10. CASE ~Read.apart
  <2>1. InStep /\ ~Over(sql, i, start, stmts)
    <3>1. start # Len(sql) + 2
      BY <1>1, <1>3
    <3> QED
      BY <3>1, InitInStep DEF Over
  <2>2. Along(sql, i, start, words, depth, stmts)
    BY <1>10, <2>1, Underway
  <2>3. Ahead(sql, i, start, Pending(At(sql, i)), stmts)
    BY <1>1, <1>8 DEF s, r
  <2> QED
    BY <2>2, <2>3, Zenon DEF InSight
<1> QED
  BY <1>9, <1>10

LEMMA StepInSight == InStep /\ InSight /\ [Next]_vars => InSight'
<1> SUFFICES ASSUME InStep, InSight, [Next]_vars PROVE InSight'
  OBVIOUS
<1>0. sql' = sql /\ sql \in Texts
  <2>1. CASE UNCHANGED vars
    BY <2>1 DEF InStep, vars
  <2>2. CASE Next
    BY <2>2, Zenon DEF InStep, Next, Quote, Comment, DollarQuote, Semicolon, Word, Other, Finish, SkipTo, vars
  <2> QED
    BY <2>1, <2>2
<1>1. CASE Read.apart
  BY <1>0, <1>1 DEF InSight, Read
<1>2. CASE UNCHANGED vars
  BY <1>2 DEF InSight, Read, vars
<1>3. CASE Over(sql, i, start, stmts) /\ Next
  <2>1. i = End(sql) /\ start = End(sql) + 1 /\ Len(sql) \in Nat
    BY <1>0, <1>3, TextIsScript DEF Over, End, Script
  <2>2. ~(i < End(sql)) /\ ~(start <= End(sql))
    BY <2>1 DEF End
  <2>3. UNCHANGED vars
    BY <1>3, <2>2, Zenon DEF Next, Quote, Comment, DollarQuote, Semicolon, Word, Other, Finish, Scanning
  <2> QED
    BY <1>2, <2>3
<1>4. CASE ~Read.apart /\ ~Over(sql, i, start, stmts) /\ Next
  <2>1. Script(sql) /\ ~Server(sql).apart /\ Along(sql, i, start, words, depth, stmts)
    BY <1>4, Underway
  <2>2. Ahead(sql, i, start, Pending(At(sql, i)), stmts)
    BY <1>4 DEF InSight
  <2>3. CASE Finish
    <3>1. Over(sql', i', start', stmts')
      BY <2>1, <2>3, FinishGoes
    <3>2. Server(sql').control => Found(sql', stmts')
      BY <2>1, <2>2, <2>3, FinishSees
    <3> QED
      BY <3>1, <3>2, Zenon DEF InSight, Read
  <2>4. CASE Done /\ UNCHANGED vars
    BY <1>2, <2>4
  <2>5. CASE Quote \/ Comment \/ DollarQuote \/ Semicolon \/ Word \/ Other
    <3>1. Along(sql', i', start', words', depth', stmts')
      BY <2>1, <2>5, QuoteGoes, CommentGoes, DollarQuoteGoes, SemicolonGoes, WordGoes, OtherGoes
    <3>2. Ahead(sql', i', start', Pending(At(sql', i')), stmts')
      BY <2>1, <2>2, <2>5, QuoteSees, CommentSees, DollarQuoteSees, SemicolonSees, WordSees, OtherSees
    <3> QED
      BY <3>1, <3>2, Zenon DEF InSight
  <2> QED
    BY <1>4, <2>3, <2>4, <2>5, Zenon DEF Next
<1> QED
  BY <1>1, <1>2, <1>3, <1>4

\* What checkFile refuses (src/internal/migrate/split.go, leadingWords): wherever
\* the two readings do not part, a BEGIN, COMMIT, ROLLBACK, START or PREPARE
\* TRANSACTION that the server would obey leads a statement of the splitter's,
\* and checkFile reads it there behind any blanks and comments, so that it
\* cannot end the transaction in which a migration and its record are one.
THEOREM NoControlIsHidden == Spec => []NoHiddenControl
<1>1. InStep /\ InSight => NoHiddenControl
  <2> SUFFICES ASSUME InStep, InSight, Done, Read.control, ~Read.apart PROVE Refused
    BY DEF NoHiddenControl
  <2>1. CASE Over(sql, i, start, stmts) /\ (Read.control => Found(sql, stmts))
    BY <2>1, Zenon DEF Refused, Found
  <2>2. CASE ~Over(sql, i, start, stmts)
    <3>1. Script(sql) /\ Along(sql, i, start, words, depth, stmts)
      BY <2>2, Underway
    <3>2. i \in 1..Len(sql) + 1 /\ start <= i /\ start = Len(sql) + 1 + 1 /\ Len(sql) \in Nat
      BY <3>1 DEF Along, Done, End, Script
    <3> QED
      BY <3>2
  <2>3. CASE Along(sql, i, start, words, depth, stmts)
    <3>1. Script(sql)
      BY TextIsScript DEF InStep
    <3>2. i \in 1..Len(sql) + 1 /\ start <= i /\ start = Len(sql) + 1 + 1 /\ Len(sql) \in Nat
      BY <2>3, <3>1 DEF Along, Done, End, Script
    <3> QED
      BY <3>2
  <2> QED
    BY <2>1, <2>2, <2>3 DEF InSight
<1>2. Init => InStep /\ InSight
  BY InitInStep, InitInSight
<1>3. InStep /\ InSight /\ [Next]_vars => InStep' /\ InSight'
  BY StepInStep, StepInSight
<1> QED
  BY <1>1, <1>2, <1>3, PTL DEF Spec

=============================================================================
