----------------------------- MODULE LexerProofs ------------------------------
(***************************************************************************)
(* Proofs about Lexer: whatever the file and the order of peek() and       *)
(* next(), it is a TokenStream, it reports what it cannot read once, and   *)
(* every token is the longest lexeme at its place.                         *)
(***************************************************************************)
EXTENDS Lexer, FiniteSetTheorems, SequenceTheorems, WellFoundedInduction, TLAPS

-----------------------------------------------------------------------------
(* Induction over positions, by least counterexample, and functions that   *)
(* are defined by recursion towards the end of an interval.                *)
LEMMA LeastOf ==
  ASSUME NEW T, T \subseteq Nat, T # {}
  PROVE  \E m \in T : \A k \in T : m <= k
  <1>1. PICK x \in T : \A y \in T : ~(<<y, x>> \in OpToRel(<, Nat))
    BY WFMin, NatLessThanWellFounded, Zenon
  <1>2. \A y \in T : ~(y < x)
    BY <1>1, Zenon DEF OpToRel
  <1> QED BY <1>2

LEMMA Induction ==
  ASSUME NEW n \in Nat, NEW T, 0 \in T, \A k \in 0..(n - 1) : k \in T => k + 1 \in T
  PROVE  \A k \in 0..n : k \in T
  <1> SUFFICES ASSUME NEW j \in 0..n, j \notin T PROVE FALSE
    OBVIOUS
  <1> DEFINE F == {k \in 0..n : k \notin T}
  <1>1. F \subseteq Nat /\ F # {}
    OBVIOUS
  <1>2. PICK m \in F : \A k \in F : m <= k
    <2> HIDE DEF F
    <2> QED BY <1>1, LeastOf
  <1>3. m # 0 /\ m - 1 \in 0..(n - 1) /\ m - 1 \notin F
    BY <1>2
  <1>4. m - 1 \in T /\ (m - 1) + 1 = m
    BY <1>2, <1>3
  <1> QED BY <1>2, <1>3, <1>4

LEMMA FromTheEnd ==
  ASSUME NEW n \in Nat, NEW T, \A p \in 0..n : (\A q \in (p + 1)..n : q \in T) => p \in T
  PROVE  \A p \in 0..n : p \in T
  <1> SUFFICES ASSUME NEW j \in 0..n, j \notin T PROVE FALSE
    OBVIOUS
  <1> DEFINE F == {k \in 0..n : n - k \notin T}
  <1>1. F \subseteq Nat /\ n - j \in F
    OBVIOUS
  <1>2. PICK m \in F : \A k \in F : m <= k
    <2> HIDE DEF F
    <2> QED BY <1>1, LeastOf
  <1>3. ASSUME NEW q \in ((n - m) + 1)..n
        PROVE  q \in T
    <2>1. n - q \in 0..n /\ n - q < m /\ n - (n - q) = q
      BY <1>2
    <2> QED BY <1>2, <2>1
  <1> QED BY <1>2, <1>3

(* g goes on with what it is at a later position, or stops.                *)
Solves(g, lo, n, stop, base, step, nxt) ==
  \A p \in lo..n : g[p] = IF p \in stop THEN base[p] ELSE step[p][g[nxt[p]]]

LEMMA RecursionDefines ==
  ASSUME NEW n \in Nat, NEW lo \in 0..n, NEW V, NEW stop,
         NEW base \in [lo..n -> V], NEW step \in [lo..n -> [V -> V]],
         NEW nxt \in [lo..n -> lo..n],
         \A p \in lo..n : p \notin stop => nxt[p] > p
  PROVE  \E g \in [lo..n -> V] : Solves(g, lo, n, stop, base, step, nxt)
  <1> DEFINE T == {k \in 0..(n - lo) :
                     \E g \in [(n - k)..n -> V] : Solves(g, n - k, n, stop, base, step, nxt)}
  <1>1. 0 \in T
    <2>1. n \in stop
      <3>1. n \in lo..n /\ nxt[n] \in lo..n
        OBVIOUS
      <3> QED BY <3>1
    <2> DEFINE g == [p \in n..n |-> base[p]]
    <2>2. g \in [n..n -> V] /\ Solves(g, n, n, stop, base, step, nxt)
      BY <2>1 DEF Solves
    <2>3. n - 0 = n /\ 0 \in 0..(n - lo)
      OBVIOUS
    <2> HIDE DEF g
    <2> QED BY <2>2, <2>3
  <1>2. ASSUME NEW k \in 0..((n - lo) - 1), k \in T
        PROVE  k + 1 \in T
    <2>1. PICK g \in [(n - k)..n -> V] : Solves(g, n - k, n, stop, base, step, nxt)
      BY <1>2
    <2> DEFINE m == n - (k + 1)
               v == IF m \in stop THEN base[m] ELSE step[m][g[nxt[m]]]
               h == [p \in m..n |-> IF p = m THEN v ELSE g[p]]
    <2>2. m \in lo..n /\ m + 1 = n - k /\ m < n /\ k + 1 \in 0..(n - lo)
      OBVIOUS
    <2>3. \A p \in lo..n : p >= m /\ p \notin stop => nxt[p] \in (m + 1)..n
      BY <2>2
    <2>4. v \in V
      <3>1. CASE m \in stop
        BY <2>2, <3>1
      <3>2. CASE m \notin stop
        <4>1. g[nxt[m]] \in V
          BY <2>2, <2>3, <3>2
        <4> QED BY <2>2, <3>2, <4>1
      <3> QED BY <3>1, <3>2
    <2>5. h \in [m..n -> V]
      <3> HIDE DEF v
      <3>1. \A p \in m..n : p # m => p \in (n - k)..n
        BY <2>2
      <3> HIDE DEF m
      <3> QED BY <2>4, <3>1
    <2>6. Solves(h, m, n, stop, base, step, nxt)
      <3> SUFFICES ASSUME NEW p \in m..n
                   PROVE  h[p] = IF p \in stop THEN base[p] ELSE step[p][h[nxt[p]]]
        BY DEF Solves
      <3>1. p \in lo..n /\ p >= m
        BY <2>2
      <3>2. p \notin stop => h[nxt[p]] = g[nxt[p]]
        <4>1. p \notin stop => nxt[p] \in m..n /\ nxt[p] # m
          <5>1. m \in Int
            BY <2>2
          <5>2. p \notin stop => nxt[p] \in (m + 1)..n
            BY <2>3, <3>1
          <5>3. \A a, b \in Int : \A c \in (a + 1)..b : c \in a..b /\ c # a
            OBVIOUS
          <5>4. n \in Int
            OBVIOUS
          <5> HIDE DEF m, v, h, T
          <5> QED BY ONLY <5>1, <5>2, <5>3, <5>4
        <4>2. \A q \in m..n : q # m => h[q] = g[q]
          OBVIOUS
        <4> HIDE DEF v, m, h
        <4> QED BY <4>1, <4>2
      <3>3. CASE p = m
        <4>1. h[p] = IF p \in stop THEN base[p] ELSE step[p][g[nxt[p]]]
          BY <3>3
        <4> HIDE DEF h
        <4> QED BY <3>2, <4>1
      <3>4. CASE p # m
        <4>1. p \in (n - k)..n
          BY <2>2, <3>4
        <4>2. h[p] = g[p]
          BY <3>4
        <4>3. g[p] = IF p \in stop THEN base[p] ELSE step[p][g[nxt[p]]]
          BY <2>1, <4>1 DEF Solves
        <4> HIDE DEF h
        <4> QED BY <3>2, <4>2, <4>3
      <3> QED BY <3>3, <3>4
    <2> HIDE DEF h, v
    <2> QED BY <2>2, <2>5, <2>6
  <1>3. n - lo \in T
    <2>1. n - lo \in Nat /\ n - lo \in 0..(n - lo)
      OBVIOUS
    <2> HIDE DEF T
    <2> QED BY <1>1, <1>2, <2>1, Induction
  <1>4. n - (n - lo) = lo
    OBVIOUS
  <1> QED BY <1>3, <1>4

-----------------------------------------------------------------------------
(* Where the scans end.                                                    *)
LEMMA RunFound ==
  ASSUME NEW n \in Nat, NEW p \in 0..n, NEW In
  PROVE  \E q \in p..n : /\ q >= n \/ q \notin In
                         /\ \A r \in p..(q - 1) : r \in In
  <1> DEFINE T == {q \in p..n : q >= n \/ q \notin In}
  <1>1. T \subseteq Nat /\ n \in T
    OBVIOUS
  <1>2. PICK q \in T : \A k \in T : q <= k
    <2> HIDE DEF T
    <2> QED BY <1>1, LeastOf
  <1>3. \A r \in p..(q - 1) : r \in p..n /\ r < n /\ r < q
    BY <1>2
  <1>4. \A r \in p..(q - 1) : r \in In
    BY <1>2, <1>3
  <1> QED BY <1>2, <1>4

RunOf(p, S) == RunEnd(p, LAMBDA c : c \in S)
LineFrom(p) == RunEnd(p, LAMBDA c : c # "\n")

LEMMA RunBounds ==
  ASSUME source \in Seq(STRING), NEW p \in 0..Len(source), NEW S
  PROVE  LET q == RunOf(p, S)
         IN  /\ q \in p..Len(source)
             /\ isAtEnd(q) \/ charAt(q) \notin S
             /\ \A r \in p..(q - 1) : charAt(r) \in S
  <1> DEFINE In == {r \in Nat : charAt(r) \in S}
             Ends(q) == /\ isAtEnd(q) \/ ~(charAt(q) \in S)
                        /\ \A r \in p..(q - 1) : charAt(r) \in S
  <1>1. Len(source) \in Nat
    BY LenProperties
  <1>2. PICK q \in p..Len(source) : /\ q >= Len(source) \/ q \notin In
                                    /\ \A r \in p..(q - 1) : r \in In
    <2> HIDE DEF In
    <2> QED BY <1>1, RunFound
  <1>3. q \in Nat /\ \A r \in p..(q - 1) : r \in Nat
    BY <1>1, <1>2
  <1>4. Ends(q)
    BY <1>2, <1>3 DEF isAtEnd
  <1>5. RunOf(p, S) = CHOOSE x \in p..Len(source) : Ends(x)
    BY DEF RunOf, RunEnd
  <1> HIDE DEF Ends
  <1>6. RunOf(p, S) \in p..Len(source) /\ Ends(RunOf(p, S))
    BY <1>4, <1>5
  <1> QED BY <1>6 DEF Ends

(* The same for a comment up to the end of its line.                       *)
LEMMA LineRunBounds ==
  ASSUME source \in Seq(STRING), NEW p \in 0..Len(source)
  PROVE  /\ LineFrom(p) \in p..Len(source)
         /\ p < Len(source) /\ charAt(p) # "\n" => LineFrom(p) > p
  <1> DEFINE In == {r \in Nat : charAt(r) # "\n"}
             Ends(q) == /\ isAtEnd(q) \/ ~(charAt(q) # "\n")
                        /\ \A r \in p..(q - 1) : charAt(r) # "\n"
  <1>1. Len(source) \in Nat
    BY LenProperties
  <1>2. PICK q \in p..Len(source) : /\ q >= Len(source) \/ q \notin In
                                    /\ \A r \in p..(q - 1) : r \in In
    <2> HIDE DEF In
    <2> QED BY <1>1, RunFound
  <1>3. q \in Nat /\ \A r \in p..(q - 1) : r \in Nat
    BY <1>1, <1>2
  <1>4. Ends(q)
    BY <1>2, <1>3 DEF isAtEnd
  <1>5. LineFrom(p) = CHOOSE x \in p..Len(source) : Ends(x)
    BY DEF LineFrom, RunEnd
  <1> DEFINE e == LineFrom(p)
  <1>6. e \in p..Len(source) /\ Ends(e)
    <2> HIDE DEF Ends
    <2> QED BY <1>4, <1>5
  <1>7. isAtEnd(e) \/ charAt(e) = "\n"
    BY <1>6
  <1>8. p < Len(source) /\ charAt(p) # "\n" => e # p
    BY <1>7 DEF isAtEnd
  <1> HIDE DEF Ends, e
  <1>9. e \in p..Len(source) /\ (p < Len(source) /\ charAt(p) # "\n" => e > p)
    BY <1>1, <1>6, <1>8
  <1> QED BY <1>9 DEF e

LEMMA CommentBounds ==
  ASSUME source \in Seq(STRING), NEW p \in Nat
  PROVE  /\ CommentEnd(p) \in Nat
         /\ CommentEnd(p) <= Len(source)
         /\ CommentEnd(p) = Len(source) \/ CommentEnd(p) >= p + 2
  <1> DEFINE closes == {q \in p..Len(source) : Begins(q, "*", "/")}
  <1>1. Len(source) \in Nat
    BY LenProperties
  <1>2. CASE closes = {}
    BY <1>1, <1>2 DEF CommentEnd
  <1>3. CASE closes # {}
    <2>1. closes \subseteq Nat
      OBVIOUS
    <2>2. \E m \in closes : \A k \in closes : m <= k
      <3> HIDE DEF closes
      <3> QED BY <1>3, <2>1, LeastOf
    <2>3. Min(closes) \in closes
      <3> HIDE DEF closes
      <3> QED BY <2>2 DEF Min
    <2>4. Min(closes) >= p /\ Min(closes) + 1 < Len(source) /\ Min(closes) \in Nat
      BY <2>3 DEF Begins
    <2>5. CommentEnd(p) = 2 + Min(closes)
      BY <1>3 DEF CommentEnd
    <2> HIDE DEF closes
    <2> QED BY <1>1, <2>4, <2>5
  <1> QED BY <1>2, <1>3

(* Blanks and comments: what skipWhitespaceAndComments is equal to, and    *)
(* that it goes forward up to the end at most.                             *)
Skips(p) ==
  CASE Holds(p, Spaces) -> p + 1
    [] Begins(p, "/", "/") -> LineFrom(p)
    [] Begins(p, "/", "*") -> CommentEnd(p + 2)
    [] OTHER -> p

Stays == {p \in Nat : ~Holds(p, Spaces) /\ ~Begins(p, "/", "/") /\ ~Begins(p, "/", "*")}

LEMMA SkipsForward ==
  ASSUME source \in Seq(STRING), NEW p \in 0..Len(source)
  PROVE  Skips(p) \in p..Len(source) /\ (p \notin Stays => Skips(p) > p)
  <1>1. Len(source) \in Nat
    BY LenProperties
  <1> ~(Holds(p, Spaces) /\ charAt(p) = "/")
    BY ClassesAssumption DEF Holds, Punctuators
  <1>2. CASE Holds(p, Spaces)
    <2>1. Skips(p) = p + 1
      BY <1>2 DEF Skips, Begins
    <2> QED BY <1>1, <1>2, <2>1 DEF Holds, isAtEnd
  <1>3. CASE ~Holds(p, Spaces) /\ Begins(p, "/", "/")
    <2>1. p < Len(source) /\ charAt(p) # "\n"
      BY <1>1, <1>3 DEF Begins
    <2>2. Skips(p) = LineFrom(p)
      BY <1>3 DEF Skips, Begins
    <2> QED BY <1>1, <2>1, <2>2, LineRunBounds
  <1>4. CASE ~Holds(p, Spaces) /\ ~Begins(p, "/", "/") /\ Begins(p, "/", "*")
    <2>1. p + 1 < Len(source) /\ p + 2 \in Nat
      BY <1>1, <1>4 DEF Begins
    <2>2. Skips(p) = CommentEnd(p + 2)
      BY <1>4 DEF Skips, Begins
    <2>3. /\ CommentEnd(p + 2) \in Nat /\ CommentEnd(p + 2) <= Len(source)
          /\ CommentEnd(p + 2) = Len(source) \/ CommentEnd(p + 2) >= (p + 2) + 2
      BY ONLY <2>1, source \in Seq(STRING), CommentBounds
    <2> QED BY ONLY <1>1, <2>1, <2>2, <2>3, p \in 0..Len(source)
  <1>5. CASE ~Holds(p, Spaces) /\ ~Begins(p, "/", "/") /\ ~Begins(p, "/", "*")
    BY <1>1, <1>5 DEF Skips, Stays
  <1> QED BY <1>2, <1>3, <1>4, <1>5

LEMMA SkipEquation ==
  ASSUME source \in Seq(STRING)
  PROVE  \A p \in 0..Len(source) :
           skipWhitespaceAndComments[p] =
             IF p \in Stays THEN p ELSE skipWhitespaceAndComments[Skips(p)]
  <1>1. Len(source) \in Nat
    BY LenProperties
  <1> DEFINE n == Len(source)
             base == [p \in 0..n |-> p]
             step == [p \in 0..n |-> [q \in 0..n |-> q]]
             nxt == [p \in 0..n |-> Skips(p)]
             F(g) == [p \in 0..n |-> CASE Holds(p, Spaces) -> g[p + 1]
                                       [] Begins(p, "/", "/") -> g[LineFrom(p)]
                                       [] Begins(p, "/", "*") -> g[CommentEnd(p + 2)]
                                       [] OTHER -> p]
  <1>2. n \in Nat /\ 0 \in 0..n
    BY <1>1
  <1>3. /\ base \in [0..n -> 0..n] /\ step \in [0..n -> [0..n -> 0..n]]
    OBVIOUS
  <1>4. /\ nxt \in [0..n -> 0..n] /\ \A p \in 0..n : p \notin Stays => nxt[p] > p
    BY SkipsForward
  <1>5. PICK g \in [0..n -> 0..n] : Solves(g, 0, n, Stays, base, step, nxt)
    <2> HIDE DEF n, base, step, nxt
    <2> QED BY <1>2, <1>3, <1>4, RecursionDefines
  <1>6. \A p \in 0..n : g[p] = IF p \in Stays THEN p ELSE g[Skips(p)]
    BY <1>4, <1>5 DEF Solves
  <1>7. ASSUME NEW h, NEW p \in 0..n
        PROVE  F(h)[p] = IF p \in Stays THEN p ELSE h[Skips(p)]
    <2>1. ~(Holds(p, Spaces) /\ charAt(p) = "/")
      BY ClassesAssumption DEF Holds, Punctuators
    <2>2. CASE Holds(p, Spaces)
      BY <2>1, <2>2 DEF Skips, Stays, Begins
    <2>3. CASE ~Holds(p, Spaces) /\ Begins(p, "/", "/")
      BY <2>1, <2>3 DEF Skips, Stays, Begins
    <2>4. CASE ~Holds(p, Spaces) /\ ~Begins(p, "/", "/") /\ Begins(p, "/", "*")
      BY <2>1, <2>4 DEF Skips, Stays, Begins
    <2>5. CASE ~Holds(p, Spaces) /\ ~Begins(p, "/", "/") /\ ~Begins(p, "/", "*")
      BY <2>5 DEF Skips, Stays
    <2> QED BY <2>2, <2>3, <2>4, <2>5
  <1>8. g = F(g)
    <2>1. \A p \in 0..n : g[p] = F(g)[p]
      BY <1>6, <1>7
    <2>2. g = [p \in 0..n |-> g[p]]
      BY <1>5
    <2>3. F(g) = [p \in 0..n |-> F(g)[p]]
      OBVIOUS
    <2> HIDE DEF F
    <2> QED BY <2>1, <2>2, <2>3
  <1>9. skipWhitespaceAndComments = CHOOSE h : h = F(h)
    BY DEF skipWhitespaceAndComments, LineFrom
  <1>10. skipWhitespaceAndComments = F(skipWhitespaceAndComments)
    <2> HIDE DEF F
    <2> QED BY <1>8, <1>9
  <1>11. \A p \in 0..n : skipWhitespaceAndComments[p] =
                           IF p \in Stays THEN p ELSE skipWhitespaceAndComments[Skips(p)]
    <2>1. \A p \in 0..n : F(skipWhitespaceAndComments)[p] =
                           IF p \in Stays THEN p ELSE skipWhitespaceAndComments[Skips(p)]
      BY <1>7
    <2> HIDE DEF F
    <2> QED BY <1>10, <2>1
  <1> QED BY <1>11

LEMMA SkipBounds ==
  ASSUME source \in Seq(STRING), NEW o \in 0..Len(source)
  PROVE  skipWhitespaceAndComments[o] \in o..Len(source) \cap Stays
  <1> DEFINE T == {p \in 0..Len(source) :
                     skipWhitespaceAndComments[p] \in p..Len(source) \cap Stays}
  <1>1. Len(source) \in Nat
    BY LenProperties
  <1>2. ASSUME NEW p \in 0..Len(source), \A q \in (p + 1)..Len(source) : q \in T
        PROVE  p \in T
    <2>1. skipWhitespaceAndComments[p] =
            IF p \in Stays THEN p ELSE skipWhitespaceAndComments[Skips(p)]
      BY SkipEquation
    <2>2. p \notin Stays => Skips(p) \in (p + 1)..Len(source)
      BY <1>1, SkipsForward
    <2>3. p \notin Stays => skipWhitespaceAndComments[Skips(p)]
                              \in Skips(p)..Len(source) \cap Stays
      BY <1>2, <2>2
    <2> QED BY <1>1, <2>1, <2>2, <2>3
  <1>3. \A p \in 0..Len(source) : p \in T
    <2> HIDE DEF T
    <2> QED BY <1>1, <1>2, FromTheEnd
  <1> QED BY <1>3

(* The end of a literal is the end of the file or of the line, or a quote. *)
LEMMA LiteralBounds ==
  ASSUME source \in Seq(STRING), NEW lo \in 0..Len(source), NEW quote, quote # "\\"
  PROVE  LiteralEnd(lo, quote) \in lo..Len(source)
  <1>1. Len(source) \in Nat
    BY LenProperties
  <1> DEFINE n == Len(source)
             stop == {q \in Nat : isAtEnd(q) \/ Holds(q, {quote, "\n"})}
             base == [q \in lo..n |-> q]
             step == [q \in lo..n |-> [r \in lo..n |-> r]]
             After(q) == IF q \in stop THEN q
                         ELSE IF Holds(q, {"\\"}) /\ ~isAtEnd(q + 1) THEN q + 2 ELSE q + 1
             nxt == [q \in lo..n |-> After(q)]
             F(g) == [q \in lo..n |->
                        CASE isAtEnd(q) \/ Holds(q, {quote, "\n"}) -> q
                          [] Holds(q, {"\\"}) /\ ~isAtEnd(q + 1) -> g[q + 2]
                          [] OTHER -> g[q + 1]]
  <1>2. n \in Nat /\ lo \in 0..n /\ lo..n \subseteq Nat
    BY <1>1
  <1>3. /\ base \in [lo..n -> lo..n] /\ step \in [lo..n -> [lo..n -> lo..n]]
    OBVIOUS
  <1>4. \A q \in lo..n : After(q) \in lo..n /\ (q \notin stop => After(q) > q)
    BY <1>2 DEF isAtEnd
  <1>5. nxt \in [lo..n -> lo..n] /\ \A q \in lo..n : q \notin stop => nxt[q] > q
    <2> HIDE DEF After
    <2> QED BY <1>4
  <1>6. PICK g \in [lo..n -> lo..n] : Solves(g, lo, n, stop, base, step, nxt)
    <2> HIDE DEF n, base, step, nxt, stop
    <2> QED BY <1>2, <1>3, <1>5, RecursionDefines
  <1>7. \A q \in lo..n : g[q] = IF q \in stop THEN q ELSE g[After(q)]
    <2> HIDE DEF After
    <2> QED BY <1>4, <1>6 DEF Solves
  <1>8. ASSUME NEW h, NEW q \in lo..n
        PROVE  F(h)[q] = IF q \in stop THEN q ELSE h[After(q)]
    <2>1. q \in Nat
      BY <1>2
    <2>2. CASE q \in stop
      <3>1. isAtEnd(q) \/ Holds(q, {quote, "\n"})
        BY <2>2
      <3>2. ~(Holds(q, {"\\"}) /\ ~isAtEnd(q + 1))
        BY <3>1, <2>1, <1>1 DEF Holds, isAtEnd
      <3> QED BY <2>2, <3>1, <3>2
    <2>3. CASE q \notin stop
      <3>1. ~(isAtEnd(q) \/ Holds(q, {quote, "\n"}))
        BY <2>1, <2>3
      <3> QED BY <2>3, <3>1
    <2> QED BY <2>2, <2>3
  <1>9. g = F(g)
    <2>1. \A q \in lo..n : g[q] = F(g)[q]
      <3> HIDE DEF After, F, stop
      <3> QED BY <1>7, <1>8
    <2>2. g = [q \in lo..n |-> g[q]]
      BY <1>6
    <2>3. F(g) = [q \in lo..n |-> F(g)[q]]
      OBVIOUS
    <2> HIDE DEF F
    <2> QED BY <2>1, <2>2, <2>3
  <1> DEFINE end == CHOOSE h : h = F(h)
  <1>10. LiteralEnd(lo, quote) = end[lo]
    BY DEF LiteralEnd
  <1>11. end = F(end)
    <2> HIDE DEF F
    <2> QED BY <1>9
  <1> HIDE DEF end
  <1>12. \A q \in lo..n : end[q] = IF q \in stop THEN q ELSE end[After(q)]
    <2>1. \A q \in lo..n : F(end)[q] = IF q \in stop THEN q ELSE end[After(q)]
      <3> HIDE DEF F, stop, After
      <3> QED BY <1>8
    <2> HIDE DEF F, stop, After
    <2> QED BY <1>11, <2>1
  <1> DEFINE T == {q \in 0..n : q >= lo => end[q] \in q..n}
  <1>13. ASSUME NEW q \in 0..n, \A r \in (q + 1)..n : r \in T
         PROVE  q \in T
    <2>1. SUFFICES ASSUME q >= lo PROVE end[q] \in q..n
      OBVIOUS
    <2>2. q \in lo..n
      BY <1>2, <2>1
    <2>3. end[q] = IF q \in stop THEN q ELSE end[After(q)]
      BY <1>12, <2>2
    <2>4. CASE q \in stop
      BY <1>2, <2>3, <2>4
    <2>5. CASE q \notin stop
      <3>1. After(q) \in (q + 1)..n /\ After(q) >= lo
        <4> HIDE DEF After, stop
        <4> QED BY <1>2, <1>4, <2>2, <2>5
      <3>2. end[After(q)] \in After(q)..n
        <4> HIDE DEF After
        <4> QED BY <1>13, <3>1
      <3> HIDE DEF After
      <3> QED BY <1>2, <2>3, <2>5, <3>1, <3>2
    <2> QED BY <2>4, <2>5
  <1>14. \A q \in 0..n : q \in T
    <2> HIDE DEF T, n
    <2> QED BY <1>2, <1>13, FromTheEnd
  <1>15. lo \in T
    BY <1>2, <1>14
  <1> QED BY <1>2, <1>10, <1>15

-----------------------------------------------------------------------------
(* What advanceToken makes of the characters from offset o on.             *)
TokenKinds == {"EndOfFile", "Unknown", "Keyword", "Identifier", "IntegerLiteral",
               "FloatLiteral", "Punctuator", "StringLiteral", "CharLiteral"}

(* A lexeme that begins at p or behind it, takes something, and is placed  *)
(* where its caret belongs.                                                *)
Taken(x, p) ==
  /\ StandsAt(x.place, x.kind, x.text)
  /\ x \in [kind : TokenKinds \ {"EndOfFile"}, place : Nat, text : Seq(STRING), past : Nat]
  /\ p <= x.place /\ x.place <= x.past /\ p < x.past /\ x.past <= Len(source)

LEMMA LexemeTaken ==
  ASSUME NEW kind \in TokenKinds \ {"EndOfFile"}, NEW text \in Seq(STRING),
         NEW place \in Nat, NEW past \in Nat, NEW p \in Nat,
         p <= place, place <= past, p < past, past <= Len(source),
         StandsAt(place, kind, text)
  PROVE  Taken(Lexeme(kind, place, text, past), p)
  BY DEF Taken, Lexeme

LEMMA LexemeParts ==
  \A kind, place, text, past :
    /\ Lexeme(kind, place, text, past).kind = kind
    /\ Lexeme(kind, place, text, past).place = place
    /\ Lexeme(kind, place, text, past).text = text
    /\ Lexeme(kind, place, text, past).past = past
  BY DEF Lexeme

LEMMA SpelledType ==
  ASSUME source \in Seq(STRING), NEW p \in 0..Len(source), NEW q \in 0..Len(source)
  PROVE  Spelled(p, q) \in Seq(STRING)
  <1>1. Len(source) \in Nat
    BY LenProperties
  <1>2. p + 1 \in 1..(Len(source) + 1) /\ q \in 0..Len(source)
    BY <1>1
  <1>3. \A k \in (p + 1)..q : k \in 1..Len(source)
    BY <1>1, <1>2
  <1> QED BY <1>1, <1>2, <1>3, SubSeqProperties DEF Spelled

(* The caret of a token with a text is below the text's first character.   *)
LEMMA SpelledStands ==
  ASSUME source \in Seq(STRING), NEW p \in 0..Len(source), NEW q \in 0..Len(source), p < q,
         NEW kind \in {"Keyword", "Identifier", "IntegerLiteral", "FloatLiteral", "Punctuator"}
  PROVE  StandsAt(p, kind, Spelled(p, q))
  <1>1. Len(source) \in Nat
    BY LenProperties
  <1>2. p + 1 \in 1..(Len(source) + 1) /\ q \in Int /\ p + 1 <= q + 1
    BY <1>1
  <1>3. \A k \in (p + 1)..q : source[k] \in STRING
    <2>1. \A k \in (p + 1)..q : k \in 1..Len(source)
      BY <1>1
    <2> QED BY <2>1, ElementOfSeq
  <1>4. Len(Spelled(p, q)) = q - (p + 1) + 1
    BY <1>2, <1>3, SubSeqProperties DEF Spelled
  <1>5. p + Len(Spelled(p, q)) = q /\ Len(Spelled(p, q)) # 0
    BY <1>1, <1>4
  <1>6. Spelled(p, q) # << >>
    <2>1. Len(<< >>) = 0
      BY EmptySeq
    <2> QED BY <1>5, <2>1
  <1> QED BY <1>5, <1>6 DEF StandsAt

LEMMA IdentifierTaken ==
  ASSUME source \in Seq(STRING), NEW p \in 0..Len(source), Holds(p, Letters)
  PROVE  Taken(identifierOrKeyword(p), p)
  <1>1. Len(source) \in Nat /\ p < Len(source) /\ charAt(p) \in Letters \cup Digits
    BY LenProperties DEF Holds, isAtEnd
  <1> DEFINE q == RunOf(p, Letters \cup Digits)
  <1>2. /\ q \in p..Len(source)
        /\ isAtEnd(q) \/ charAt(q) \notin Letters \cup Digits
    BY RunBounds
  <1>3. q # p
    BY <1>1, <1>2 DEF isAtEnd
  <1>4. identifierOrKeyword(p) =
          Lexeme(IF Spelled(p, q) \in Keywords THEN "Keyword" ELSE "Identifier",
                 p, Spelled(p, q), q)
    BY DEF identifierOrKeyword, RunOf
  <1> HIDE DEF q
  <1>5. Spelled(p, q) \in Seq(STRING) /\ q \in 0..Len(source) /\ p < q
    BY <1>1, <1>2, <1>3, SpelledType
  <1> DEFINE kind == IF Spelled(p, q) \in Keywords THEN "Keyword" ELSE "Identifier"
  <1>6. kind \in TokenKinds \ {"EndOfFile"} /\ kind \in {"Keyword", "Identifier"}
    BY DEF TokenKinds
  <1> HIDE DEF kind
  <1>7. StandsAt(p, kind, Spelled(p, q))
    BY <1>5, <1>6, SpelledStands
  <1>8. identifierOrKeyword(p) = Lexeme(kind, p, Spelled(p, q), q)
    BY <1>4 DEF kind
  <1>9. p \in Nat /\ q \in Nat /\ p <= p /\ p <= q /\ p < q /\ q <= Len(source)
    BY <1>1, <1>5
  <1>10. Taken(Lexeme(kind, p, Spelled(p, q), q), p)
    BY ONLY <1>5, <1>6, <1>7, <1>9, LexemeTaken
  <1> QED BY <1>8, <1>10

LEMMA NumberTaken ==
  ASSUME source \in Seq(STRING), NEW p \in 0..Len(source), Holds(p, Digits)
  PROVE  Taken(number(p), p)
  <1>1. Len(source) \in Nat /\ p < Len(source) /\ charAt(p) \in Digits
    BY LenProperties DEF Holds, isAtEnd
  <1> DEFINE q == RunOf(p, Digits)
             r == IF Holds(q, {"."}) /\ Holds(q + 1, Digits) THEN RunOf(q + 1, Digits) ELSE q
  <1>2. /\ q \in p..Len(source)
        /\ isAtEnd(q) \/ charAt(q) \notin Digits
    BY RunBounds
  <1>3. q # p
    BY <1>1, <1>2 DEF isAtEnd
  <1>4. number(p) = Lexeme(IF r = q THEN "IntegerLiteral" ELSE "FloatLiteral",
                           p, Spelled(p, r), r)
    BY DEF number, RunOf
  <1> HIDE DEF q
  <1>5. r \in q..Len(source)
    <2>1. CASE Holds(q, {"."}) /\ Holds(q + 1, Digits)
      <3>1. q + 1 \in 0..Len(source)
        BY <1>1, <1>2, <2>1 DEF Holds, isAtEnd
      <3>2. RunOf(q + 1, Digits) \in (q + 1)..Len(source)
        BY <3>1, RunBounds
      <3> QED BY <1>1, <1>2, <2>1, <3>2
    <2>2. CASE ~(Holds(q, {"."}) /\ Holds(q + 1, Digits))
      BY <1>1, <1>2, <2>2
    <2> QED BY <2>1, <2>2
  <1> HIDE DEF r
  <1>6. r \in 0..Len(source) /\ p < r
    BY <1>1, <1>2, <1>3, <1>5
  <1>7. Spelled(p, r) \in Seq(STRING)
    BY <1>6, SpelledType
  <1> DEFINE kind == IF r = q THEN "IntegerLiteral" ELSE "FloatLiteral"
  <1>8. kind \in TokenKinds \ {"EndOfFile"} /\ kind \in {"IntegerLiteral", "FloatLiteral"}
    BY DEF TokenKinds
  <1>9. number(p) = Lexeme(kind, p, Spelled(p, r), r)
    BY <1>4
  <1> HIDE DEF kind
  <1>10. StandsAt(p, kind, Spelled(p, r))
    BY <1>6, <1>8, SpelledStands
  <1>11. p \in Nat /\ r \in Nat /\ p <= p /\ p <= r /\ p < r /\ r <= Len(source)
    BY <1>1, <1>6
  <1>12. Taken(Lexeme(kind, p, Spelled(p, r), r), p)
    BY ONLY <1>7, <1>8, <1>10, <1>11, LexemeTaken
  <1> QED BY <1>9, <1>12

LEMMA PunctuatorTaken ==
  ASSUME source \in Seq(STRING), NEW p \in 0..Len(source), ~isAtEnd(p)
  PROVE  Taken(punctuator(p), p)
  <1>1. Len(source) \in Nat /\ p < Len(source)
    BY LenProperties DEF isAtEnd
  <1> DEFINE q == IF Holds(p + 1, Second(charAt(p))) THEN p + 2 ELSE p + 1
  <1>2. q \in 0..Len(source) /\ p < q
    BY <1>1 DEF Holds, isAtEnd
  <1>3. punctuator(p) = Lexeme("Punctuator", p, Spelled(p, q), q)
    BY DEF punctuator
  <1> HIDE DEF q
  <1>4. Spelled(p, q) \in Seq(STRING)
    BY <1>2, SpelledType
  <1>5. "Punctuator" \in TokenKinds \ {"EndOfFile"}
    BY DEF TokenKinds
  <1>6. StandsAt(p, "Punctuator", Spelled(p, q))
    BY <1>2, SpelledStands
  <1>7. p \in Nat /\ q \in Nat /\ p <= p /\ p <= q /\ p < q /\ q <= Len(source)
    BY <1>1, <1>2
  <1>8. Taken(Lexeme("Punctuator", p, Spelled(p, q), q), p)
    BY ONLY <1>4, <1>5, <1>6, <1>7, LexemeTaken
  <1> QED BY <1>3, <1>8

LEMMA LiteralTaken ==
  ASSUME source \in Seq(STRING), NEW p \in 0..Len(source), ~isAtEnd(p), NEW quote, quote # "\\",
         NEW kind \in {"StringLiteral", "CharLiteral"},
         charAt(p) \in Quotes, \A text : StandsAt(p + 1, kind, text)
  PROVE  Taken(literal(p + 1, quote, kind), p)
  <1>1. Len(source) \in Nat /\ p < Len(source)
    BY LenProperties DEF isAtEnd
  <1> DEFINE begin == IF isAtEnd(p + 1) THEN p + 1 ELSE (p + 1) + 1
             q == LiteralEnd(begin, quote)
  <1>2. begin \in 0..Len(source) /\ begin >= p + 1
    BY <1>1 DEF isAtEnd
  <1> HIDE DEF begin
  <1>3. q \in begin..Len(source)
    BY <1>2, LiteralBounds
  <1> HIDE DEF q
  <1>4. literal(p + 1, quote, kind) =
          IF isAtEnd(q) \/ Holds(q, {"\n"}) THEN errorToken(q)
          ELSE Lexeme(kind, p + 1, Spelled(begin, q), q + 1)
    BY DEF literal, begin, q
  <1>5. q \in 0..Len(source) /\ q >= p + 1
    BY <1>1, <1>2, <1>3
  <1>6. Spelled(begin, q) \in Seq(STRING)
    BY <1>2, <1>5, SpelledType
  <1>7. CASE isAtEnd(q) \/ Holds(q, {"\n"})
    <2>1. literal(p + 1, quote, kind) = Lexeme("Unknown", q, << >>, q)
      BY <1>4, <1>7 DEF errorToken
    <2>2. << >> \in Seq(STRING) /\ "Unknown" \in TokenKinds \ {"EndOfFile"}
      BY DEF TokenKinds
    <2>3. q \in Nat /\ p \in Nat /\ p <= q /\ p < q /\ q <= Len(source) /\ q <= q
      BY <1>1, <1>5
    <2>4. StandsAt(q, "Unknown", << >>)
      <3>1. isAtEnd(q) \/ charAt(q) = "\n"
        BY <1>7 DEF Holds
      <3>2. p \in 0..(q - 1) /\ charAt(p) \in Quotes
        BY <1>1, <1>5
      <3> QED BY <3>1, <3>2 DEF StandsAt, BreaksOff
    <2>5. Taken(Lexeme("Unknown", q, << >>, q), p)
      BY ONLY <2>2, <2>3, <2>4, LexemeTaken
    <2> QED BY <2>1, <2>5
  <1>8. CASE ~(isAtEnd(q) \/ Holds(q, {"\n"}))
    <2>1. q < Len(source)
      BY <1>1, <1>5, <1>8 DEF isAtEnd
    <2>2. StandsAt(p + 1, kind, Spelled(begin, q))
      OBVIOUS
    <2>3. kind \in TokenKinds \ {"EndOfFile"}
      BY DEF TokenKinds
    <2>4. /\ p + 1 \in Nat /\ q + 1 \in Nat /\ p \in Nat /\ p <= p + 1 /\ p + 1 <= q + 1
          /\ p < q + 1 /\ q + 1 <= Len(source)
      BY <1>1, <1>5, <2>1
    <2>5. Taken(Lexeme(kind, p + 1, Spelled(begin, q), q + 1), p)
      BY ONLY <1>6, <2>2, <2>3, <2>4, LexemeTaken
    <2> QED BY <1>4, <1>8, <2>5
  <1> QED BY <1>7, <1>8

LEMMA AdvanceTakes ==
  ASSUME source \in Seq(STRING), NEW o \in 0..Len(source)
  PROVE  \/ Taken(advanceToken(o), o)
         \/ advanceToken(o) = Lexeme("EndOfFile", Len(source), << >>, Len(source))
  <1> DEFINE p == skipWhitespaceAndComments[o]
             x == advanceToken(o)
  <1>1. Len(source) \in Nat
    BY LenProperties
  <1>2. p \in o..Len(source) /\ p \in 0..Len(source)
    BY <1>1, SkipBounds
  <1>3. x = CASE isAtEnd(p) -> Lexeme("EndOfFile", p, << >>, p)
              [] Holds(p, Letters) -> identifierOrKeyword(p)
              [] Holds(p, Digits) -> number(p)
              [] Holds(p, Punctuators) -> punctuator(p)
              [] Holds(p, {"\""}) -> literal(p + 1, "\"", "StringLiteral")
              [] Holds(p, {"'"}) -> literal(p + 1, "'", "CharLiteral")
              [] OTHER -> errorToken(p + 1)
    BY DEF advanceToken
  <1> HIDE DEF p, x
  <1>6. p + 1 > 0 /\ (p + 1) - 1 = p
    BY <1>1, <1>2
  <1>4. CASE isAtEnd(p)
    <2>1. p = Len(source) /\ \A S : ~Holds(p, S)
      BY <1>1, <1>2, <1>4 DEF isAtEnd, Holds
    <2>2. x = Lexeme("EndOfFile", p, << >>, p)
      BY <1>3, <1>4, <2>1
    <2> QED BY <2>1, <2>2 DEF x
  <1>5. CASE ~isAtEnd(p)
    <2>1. p < Len(source) /\ \A S : Holds(p, S) <=> charAt(p) \in S
      BY <1>1, <1>2, <1>5 DEF isAtEnd, Holds
    <2>2. Taken(x, p)
      <3>1. CASE charAt(p) \in Letters
        <4>1. /\ charAt(p) \notin Digits /\ charAt(p) \notin Punctuators
              /\ charAt(p) \notin {"\""} /\ charAt(p) \notin {"'"}
          BY <3>1, ClassesAssumption
        <4>2. x = identifierOrKeyword(p)
          BY <1>3, <1>5, <2>1, <3>1, <4>1
        <4> QED BY <1>2, <2>1, <3>1, <4>2, IdentifierTaken
      <3>2. CASE charAt(p) \in Digits
        <4>1. /\ charAt(p) \notin Letters /\ charAt(p) \notin Punctuators
              /\ charAt(p) \notin {"\""} /\ charAt(p) \notin {"'"}
          BY <3>2, ClassesAssumption
        <4>2. x = number(p)
          BY <1>3, <1>5, <2>1, <3>2, <4>1
        <4> QED BY <1>2, <2>1, <3>2, <4>2, NumberTaken
      <3>3. CASE charAt(p) \in Punctuators
        <4>1. /\ charAt(p) \notin Letters /\ charAt(p) \notin Digits
              /\ charAt(p) \notin {"\""} /\ charAt(p) \notin {"'"}
          BY <3>3, ClassesAssumption DEF Punctuators
        <4>2. x = punctuator(p)
          BY <1>3, <1>5, <2>1, <3>3, <4>1
        <4> QED BY <1>2, <1>5, <4>2, PunctuatorTaken
      <3>4. CASE charAt(p) = "\""
        <4>1. /\ charAt(p) \notin Letters /\ charAt(p) \notin Digits
              /\ charAt(p) \notin Punctuators /\ charAt(p) \notin {"'"}
          BY <3>4, ClassesAssumption DEF Punctuators
        <4>3. charAt(p) \in Quotes
          BY <3>4 DEF Quotes
        <4>5. \A text : StandsAt(p + 1, "StringLiteral", text)
          BY <1>6, <3>4, Zenon DEF StandsAt
        <4>2. x = literal(p + 1, "\"", "StringLiteral")
          BY <1>3, <1>5, <2>1, <3>4, <4>1
        <4>4. "\"" # "\\"
          OBVIOUS
        <4> QED BY <1>2, <1>5, <4>2, <4>3, <4>4, <4>5, LiteralTaken
      <3>5. CASE charAt(p) = "'"
        <4>1. /\ charAt(p) \notin Letters /\ charAt(p) \notin Digits
              /\ charAt(p) \notin Punctuators /\ charAt(p) \notin {"\""}
          BY <3>5, ClassesAssumption DEF Punctuators
        <4>3. charAt(p) \in Quotes
          BY <3>5 DEF Quotes
        <4>5. \A text : StandsAt(p + 1, "CharLiteral", text)
          BY <1>6, <3>5, Zenon DEF StandsAt
        <4>2. x = literal(p + 1, "'", "CharLiteral")
          BY <1>3, <1>5, <2>1, <3>5, <4>1
        <4>4. "'" # "\\"
          OBVIOUS
        <4> QED BY <1>2, <1>5, <4>2, <4>3, <4>4, <4>5, LiteralTaken
      <3>6. CASE charAt(p) \notin Letters \cup Digits \cup Punctuators \cup {"\"", "'"}
        <4>1. x = Lexeme("Unknown", p + 1, << >>, p + 1)
          BY <1>3, <1>5, <2>1, <3>6 DEF errorToken
        <4>2. charAt(p) \notin Spaces
          <5>1. ~Holds(p, Spaces)
            BY <1>1, <1>2, SkipBounds DEF p, Stays
          <5> QED BY <1>5, <5>1 DEF Holds
        <4>3. Meaningless(charAt(p))
          BY <3>6, <4>2 DEF Meaningless, Quotes
        <4>5. StandsAt(p + 1, "Unknown", << >>)
          BY <1>6, <4>3, Zenon DEF StandsAt
        <4>6. << >> \in Seq(STRING) /\ "Unknown" \in TokenKinds \ {"EndOfFile"}
          BY DEF TokenKinds
        <4>7. /\ p \in Nat /\ p + 1 \in Nat /\ p <= p + 1 /\ p + 1 <= p + 1 /\ p < p + 1
              /\ p + 1 <= Len(source)
          BY <1>1, <1>2, <2>1
        <4>8. Taken(Lexeme("Unknown", p + 1, << >>, p + 1), p)
          BY ONLY <4>5, <4>6, <4>7, LexemeTaken
        <4> QED BY <4>1, <4>8
      <3> QED BY <3>1, <3>2, <3>3, <3>4, <3>5, <3>6
    <2>3. Taken(x, o)
      BY <1>1, <1>2, <2>2 DEF Taken
    <2> QED BY <2>3 DEF x
  <1> QED BY <1>4, <1>5

(* At the end of the file there is nothing else than the end.              *)
LEMMA EndStays ==
  ASSUME source \in Seq(STRING)
  PROVE  advanceToken(Len(source)) = Lexeme("EndOfFile", Len(source), << >>, Len(source))
  <1>1. Len(source) \in Nat
    BY LenProperties
  <1>2. Len(source) \in 0..Len(source) /\ ~Taken(advanceToken(Len(source)), Len(source))
    BY <1>1 DEF Taken
  <1> QED BY <1>2, AdvanceTakes

-----------------------------------------------------------------------------
(* TokensFrom is what advanceToken makes of the source, call after call.   *)
PlainTokens == TokenKinds \X Seq(STRING) \X Nat
PlainAt(p) == <<advanceToken(p).kind, advanceToken(p).text, advanceToken(p).place>>

LEMMA PlainIn ==
  ASSUME NEW kind \in TokenKinds, NEW text \in Seq(STRING), NEW place \in Nat
  PROVE  <<kind, text, place>> \in PlainTokens
  BY DEF PlainTokens

LEMMA PlainType ==
  ASSUME source \in Seq(STRING), NEW p \in 0..Len(source)
  PROVE  PlainAt(p) \in PlainTokens
  <1>1. Len(source) \in Nat /\ << >> \in Seq(STRING) /\ "EndOfFile" \in TokenKinds
    BY LenProperties DEF TokenKinds
  <1>2. CASE Taken(advanceToken(p), p)
    BY <1>2 DEF Taken, PlainAt, PlainTokens
  <1>3. CASE advanceToken(p) = Lexeme("EndOfFile", Len(source), << >>, Len(source))
    <2>1. PlainAt(p) = <<"EndOfFile", << >>, Len(source)>>
      <3>1. /\ advanceToken(p).kind = "EndOfFile" /\ advanceToken(p).text = << >>
            /\ advanceToken(p).place = Len(source)
        BY <1>3, LexemeParts
      <3> QED BY <3>1, Zenon DEF PlainAt
    <2> QED BY <1>1, <2>1, PlainIn, Zenon
  <1> QED BY <1>2, <1>3, AdvanceTakes

LEMMA TokensUnfold ==
  ASSUME source \in Seq(STRING)
  PROVE  \A p \in 0..Len(source) :
           TokensFrom[p] = <<PlainAt(p)>> \o
             (IF advanceToken(p).kind = "EndOfFile" THEN << >>
              ELSE TokensFrom[advanceToken(p).past])
  <1>1. Len(source) \in Nat
    BY LenProperties
  <1> DEFINE n == Len(source)
             V == Seq(PlainTokens)
             stop == {p \in Nat : advanceToken(p).kind = "EndOfFile"}
             After(p) == IF p \in stop THEN p ELSE advanceToken(p).past
             base == [p \in 0..n |-> <<PlainAt(p)>> \o << >>]
             step == [p \in 0..n |-> [t \in V |-> <<PlainAt(p)>> \o t]]
             nxt == [p \in 0..n |-> After(p)]
             F(g) == [p \in 0..n |-> <<PlainAt(p)>> \o
                        (IF advanceToken(p).kind = "EndOfFile" THEN << >>
                         ELSE g[advanceToken(p).past])]
  <1>2. n \in Nat /\ 0 \in 0..n /\ 0..n \subseteq Nat
    BY <1>1
  <1>3. ASSUME NEW p \in 0..n
        PROVE  /\ <<PlainAt(p)>> \o << >> \in V
               /\ \A t \in V : <<PlainAt(p)>> \o t \in V
    <2>1. <<PlainAt(p)>> \in V /\ << >> \in V
      BY PlainType
    <2> HIDE DEF V
    <2>2. \A t \in V : <<PlainAt(p)>> \o t \in V
      BY <2>1, ConcatProperties DEF V
    <2> QED BY <2>1, <2>2
  <1>4. /\ base \in [0..n -> V] /\ step \in [0..n -> [V -> V]]
    <2> HIDE DEF V, n
    <2> QED BY <1>3
  <1>5. \A p \in 0..n : After(p) \in 0..n /\ (p \notin stop => After(p) > p)
    <2> SUFFICES ASSUME NEW p \in 0..n, p \notin stop
                 PROVE  advanceToken(p).past \in 0..n /\ advanceToken(p).past > p
      BY <1>2
    <2>1. Taken(advanceToken(p), p)
      BY <1>2, AdvanceTakes DEF Lexeme
    <2> QED BY <1>2, <2>1 DEF Taken
  <1>6. nxt \in [0..n -> 0..n] /\ \A p \in 0..n : p \notin stop => nxt[p] > p
    <2> HIDE DEF After
    <2> QED BY <1>5
  <1>7. PICK g \in [0..n -> V] : Solves(g, 0, n, stop, base, step, nxt)
    <2> HIDE DEF n, base, step, nxt, stop, V
    <2> QED BY <1>2, <1>4, <1>6, RecursionDefines
  <1>8. ASSUME NEW p \in 0..n
        PROVE  g[p] = F(g)[p]
    <2>1. g[p] = IF p \in stop THEN base[p] ELSE step[p][g[nxt[p]]]
      BY <1>7 DEF Solves
    <2>2. p \in Nat /\ (p \in stop <=> advanceToken(p).kind = "EndOfFile")
      BY <1>2
    <2>3. CASE p \in stop
      BY <2>1, <2>2, <2>3
    <2>4. CASE p \notin stop
      <3>1. nxt[p] = advanceToken(p).past /\ nxt[p] \in 0..n
        BY <1>6, <2>4
      <3>2. g[nxt[p]] \in V
        BY <1>7, <3>1
      <3>3. step[p][g[nxt[p]]] = <<PlainAt(p)>> \o g[nxt[p]]
        <4> HIDE DEF V, nxt
        <4> QED BY <3>2
      <3> HIDE DEF step, nxt, V, stop
      <3> QED BY <2>1, <2>2, <2>4, <3>1, <3>3
    <2> QED BY <2>3, <2>4
  <1>9. g = F(g)
    <2>1. \A p \in 0..n : g[p] = F(g)[p]
      BY <1>8
    <2>2. g = [p \in 0..n |-> g[p]]
      BY <1>7
    <2>3. F(g) = [p \in 0..n |-> F(g)[p]]
      OBVIOUS
    <2> HIDE DEF F
    <2> QED BY <2>1, <2>2, <2>3
  <1>10. TokensFrom = CHOOSE h : h = F(h)
    BY DEF TokensFrom, PlainAt, Plain, Token, Location
  <1>11. TokensFrom = F(TokensFrom)
    <2> HIDE DEF F
    <2> QED BY <1>9, <1>10
  <1> QED BY <1>11

LEMMA TokensFromType ==
  ASSUME source \in Seq(STRING), NEW p \in 0..Len(source)
  PROVE  TokensFrom[p] \in Seq(PlainTokens)
  <1>1. Len(source) \in Nat
    BY LenProperties
  <1> DEFINE V == Seq(PlainTokens)
             T == {q \in 0..Len(source) : TokensFrom[q] \in V}
  <1>2. ASSUME NEW q \in 0..Len(source), \A r \in (q + 1)..Len(source) : r \in T
        PROVE  q \in T
    <2>1. <<PlainAt(q)>> \in V /\ << >> \in V
      BY PlainType
    <2>2. CASE advanceToken(q).kind = "EndOfFile"
      <3>1. TokensFrom[q] = <<PlainAt(q)>> \o << >>
        BY <2>2, TokensUnfold
      <3> QED BY <2>1, <3>1, ConcatProperties
    <2>3. CASE advanceToken(q).kind # "EndOfFile"
      <3>1. advanceToken(q).past \in (q + 1)..Len(source)
        BY <1>1, <2>3, AdvanceTakes DEF Taken, Lexeme
      <3>2. TokensFrom[advanceToken(q).past] \in V
        BY <1>2, <3>1
      <3>3. TokensFrom[q] = <<PlainAt(q)>> \o TokensFrom[advanceToken(q).past]
        BY <2>3, TokensUnfold
      <3>4. <<PlainAt(q)>> \o TokensFrom[advanceToken(q).past] \in V
        BY ONLY <2>1, <3>2, ConcatProperties
      <3> QED BY <3>3, <3>4
    <2> QED BY <2>2, <2>3
  <1>3. \A q \in 0..Len(source) : q \in T
    <2> HIDE DEF T
    <2> QED BY <1>1, <1>2, FromTheEnd
  <1> QED BY <1>3

-----------------------------------------------------------------------------
(* Lines and columns: what nextChar() counts is a function of the offset.  *)
LineStartAt(o) ==
  IF NewlinesBefore(source, o) = {} THEN 0 ELSE Max(NewlinesBefore(source, o))
PlaceAt(o) ==
  Location(1 + Cardinality(NewlinesBefore(source, o)), (o - LineStartAt(o)) + 1, o)
Places == {PlaceAt(o) : o \in 0..Len(source)}

LEMMA GreatestOf ==
  ASSUME NEW n \in Nat, NEW T, T \subseteq 0..n, T # {}
  PROVE  Max(T) \in T /\ \A k \in T : k <= Max(T)
  <1> DEFINE F == {k \in 0..n : n - k \in T}
  <1>1. F \subseteq Nat /\ F # {}
    <2>1. PICK t \in T : TRUE
      OBVIOUS
    <2>2. n - t \in 0..n /\ n - (n - t) = t
      BY <2>1
    <2> QED BY <2>1, <2>2
  <1>2. PICK m \in F : \A k \in F : m <= k
    <2> HIDE DEF F
    <2> QED BY <1>1, LeastOf
  <1>3. n - m \in T /\ \A k \in T : n - m >= k
    <2> SUFFICES ASSUME NEW k \in T PROVE n - m >= k
      BY <1>2
    <2>1. k \in 0..n /\ n - k \in 0..n /\ n - (n - k) = k
      OBVIOUS
    <2>2. n - k \in F
      BY <2>1
    <2>3. m <= n - k /\ m \in Nat
      BY <1>2, <2>2
    <2> QED BY ONLY <2>1, <2>3, n \in Nat
  <1>4. Max(T) \in T /\ \A k \in T : Max(T) >= k
    BY <1>3, Zenon DEF Max
  <1> QED BY <1>4

LEMMA NewlinesFinite ==
  ASSUME source \in Seq(STRING), NEW o \in 0..Len(source)
  PROVE  /\ IsFiniteSet(NewlinesBefore(source, o))
         /\ Cardinality(NewlinesBefore(source, o)) \in Nat
         /\ NewlinesBefore(source, o) \subseteq 1..o
  <1>1. o \in Nat /\ IsFiniteSet(1..o)
    BY LenProperties, FS_Interval
  <1>2. NewlinesBefore(source, o) \in SUBSET (1..o)
    BY DEF NewlinesBefore
  <1>3. IsFiniteSet(NewlinesBefore(source, o))
    BY <1>1, <1>2, FS_Subset
  <1> QED BY <1>2, <1>3, FS_CardinalityType

LEMMA LineStartBounds ==
  ASSUME source \in Seq(STRING), NEW o \in 0..Len(source)
  PROVE  /\ LineStartAt(o) \in 0..o
         /\ \A j \in NewlinesBefore(source, o) : j <= LineStartAt(o)
         /\ LineStartAt(o) # 0 => LineStartAt(o) \in NewlinesBefore(source, o)
  <1>1. o \in Nat
    BY LenProperties
  <1>2. CASE NewlinesBefore(source, o) = {}
    BY <1>1, <1>2 DEF LineStartAt
  <1>3. CASE NewlinesBefore(source, o) # {}
    <2>1. NewlinesBefore(source, o) \subseteq 0..o
      BY <1>1, NewlinesFinite
    <2>2. /\ Max(NewlinesBefore(source, o)) \in NewlinesBefore(source, o)
          /\ \A k \in NewlinesBefore(source, o) : k <= Max(NewlinesBefore(source, o))
      BY <1>1, <1>3, <2>1, GreatestOf
    <2>3. LineStartAt(o) = Max(NewlinesBefore(source, o))
      BY <1>3 DEF LineStartAt
    <2> QED BY <1>1, <2>1, <2>2, <2>3
  <1> QED BY <1>2, <1>3

LEMMA PlaceParts ==
  ASSUME source \in Seq(STRING), NEW o \in 0..Len(source)
  PROVE  /\ PlaceAt(o).offset = o
         /\ PlaceAt(o).line = 1 + Cardinality(NewlinesBefore(source, o))
         /\ PlaceAt(o).column = (o - LineStartAt(o)) + 1
  BY DEF PlaceAt, Location

LEMMA AdvancePlaces ==
  ASSUME source \in Seq(STRING), NEW o \in 0..Len(source), NEW p \in o..Len(source)
  PROVE  AdvanceTo(PlaceAt(o), p) = PlaceAt(p)
  <1> DEFINE old == NewlinesBefore(source, o)
             new == {k \in (o + 1)..p : source[k] = "\n"}
             all == NewlinesBefore(source, p)
  <1>1. o \in Nat /\ p \in Nat /\ o <= p /\ p \in 0..Len(source)
    BY LenProperties
  <1>2. all = old \cup new /\ old \cap new = {}
    BY <1>1 DEF NewlinesBefore
  <1>3. IsFiniteSet(old) /\ IsFiniteSet(all) /\ Cardinality(old) \in Nat
    BY <1>1, NewlinesFinite
  <1>4. IsFiniteSet(new) /\ Cardinality(new) \in Nat
    <2>1. new \in SUBSET all
      BY <1>2
    <2> HIDE DEF new, all
    <2> QED BY <1>3, <2>1, FS_Subset, FS_CardinalityType
  <1>5. Cardinality(all) = Cardinality(old) + Cardinality(new)
    <2> HIDE DEF old, new, all
    <2>1. Cardinality(old \cap new) = 0
      BY <1>2, FS_EmptySet
    <2>2. Cardinality(old \cup new) =
            Cardinality(old) + Cardinality(new) - Cardinality(old \cap new)
      BY <1>3, <1>4, FS_Union
    <2> QED BY <1>2, <1>3, <1>4, <2>1, <2>2
  <1>6. /\ PlaceAt(o).offset = o /\ PlaceAt(o).line = 1 + Cardinality(old)
        /\ PlaceAt(o).column = (o - LineStartAt(o)) + 1 /\ LineStartAt(o) \in Nat
    BY <1>1, PlaceParts, LineStartBounds
  <1>7. AdvanceTo(PlaceAt(o), p) =
          IF new = {} THEN Location(PlaceAt(o).line, PlaceAt(o).column + p - o, p)
          ELSE Location(PlaceAt(o).line + Cardinality(new), p - Max(new) + 1, p)
    BY <1>6 DEF AdvanceTo
  <1>8. CASE new = {}
    <2>1. all = old
      BY <1>2, <1>8
    <2>2. LineStartAt(p) = LineStartAt(o)
      BY <2>1 DEF LineStartAt
    <2>3. PlaceAt(o).column + p - o = (p - LineStartAt(p)) + 1
      BY <1>1, <1>6, <2>2
    <2>4. AdvanceTo(PlaceAt(o), p) = Location(1 + Cardinality(all), (p - LineStartAt(p)) + 1, p)
      BY <1>6, <1>7, <1>8, <2>1, <2>3
    <2> QED BY <2>4 DEF PlaceAt
  <1>9. CASE new # {}
    <2>1. new \subseteq 0..p /\ all # {} /\ all \subseteq 0..p
      BY <1>1, <1>2, <1>9 DEF NewlinesBefore
    <2>2. Max(new) \in new /\ \A k \in new : k <= Max(new)
      <3> HIDE DEF new
      <3> QED BY <1>1, <1>9, <2>1, GreatestOf
    <2>3. Max(all) \in all /\ \A k \in all : k <= Max(all)
      <3> HIDE DEF all
      <3> QED BY <1>1, <2>1, GreatestOf
    <2>4. Max(all) = Max(new)
      <3>1. Max(new) \in all
        BY <1>2, <2>2
      <3>2. Max(all) >= Max(new) /\ Max(new) > o
        BY <2>2, <2>3, <3>1
      <3>3. \A k \in old : k <= o
        BY DEF NewlinesBefore
      <3>4. Max(all) \in new
        <4>1. Max(all) \in Nat /\ Max(new) \in Nat
          BY <2>1, <2>2, <2>3
        <4>2. ~(Max(all) <= o)
          BY <1>1, <3>2, <4>1
        <4> HIDE DEF all, new, old
        <4> QED BY <1>2, <2>3, <3>3, <4>2
      <3>5. Max(all) <= Max(new)
        BY <2>2, <3>4
      <3>6. Max(all) \in Nat /\ Max(new) \in Nat
        BY <2>1, <2>2, <2>3
      <3> QED BY <3>2, <3>5, <3>6
    <2>5. LineStartAt(p) = Max(new) /\ Max(new) \in Nat
      BY <2>1, <2>2, <2>4 DEF LineStartAt
    <2>6. PlaceAt(o).line + Cardinality(new) = 1 + Cardinality(all)
      BY <1>3, <1>4, <1>5, <1>6
    <2>7. AdvanceTo(PlaceAt(o), p) = Location(1 + Cardinality(all), (p - LineStartAt(p)) + 1, p)
      BY <1>7, <1>9, <2>5, <2>6
    <2> QED BY <2>7 DEF PlaceAt
  <1> QED BY <1>8, <1>9

-----------------------------------------------------------------------------
(* The invariant: what next() has returned, what peek() has shown and what *)
(* the rest of the source holds are the tokens of the file.                *)
TokenSet == [kind : TokenKinds, text : Seq(STRING), loc : Places]

TypesOfLexer ==
  /\ source \in Seq(STRING)
  /\ at \in Places
  /\ currentToken \in TokenSet /\ hasPeeked \in BOOLEAN
  /\ delivered \in Seq(TokenSet)
  /\ diagnostics \in Seq([level : {"error"}, loc : Places])

Plains(ts) == [k \in 1..Len(ts) |-> Plain(ts[k])]
EndToken == <<"EndOfFile", << >>, Len(source)>>

RestAfter(token, rest) ==
  <<Plain(token)>> \o (IF token.kind = "EndOfFile" THEN << >> ELSE rest)

Coming ==
  IF AtEnd THEN << >>
  ELSE IF hasPeeked THEN RestAfter(currentToken, TokensFrom[at.offset])
  ELSE TokensFrom[at.offset]

InStream == tokens = Plains(delivered) \o Coming

(* Behind the end of the file there is only the end of the file.           *)
EndKnown ==
  /\ AtEnd \/ (hasPeeked /\ currentToken.kind = "EndOfFile") => at.offset = Len(source)
  /\ AtEnd => Plain(Last(delivered)) = EndToken
  /\ hasPeeked /\ (AtEnd \/ currentToken.kind = "EndOfFile") =>
       currentToken.kind = "EndOfFile" /\ Plain(currentToken) = EndToken

IInv == TypesOfLexer /\ InStream /\ EndKnown /\ ReportedOnce

(* What a scan makes, from the place where the lexer stands.               *)
Scanned == Token(advanceToken(at.offset).kind, advanceToken(at.offset).text,
                 AdvanceTo(at, advanceToken(at.offset).place))

(* Its caret is where it belongs.                                          *)
Stands(t) == StandsAt(t.loc.offset, t.kind, t.text)

LEMMA TokenIn ==
  ASSUME NEW kind \in TokenKinds, NEW text \in Seq(STRING), NEW loc \in Places
  PROVE  Token(kind, text, loc) \in TokenSet
  BY DEF Token, TokenSet

LEMMA TokenParts ==
  \A kind, text, loc :
    /\ Token(kind, text, loc).kind = kind /\ Token(kind, text, loc).text = text
    /\ Token(kind, text, loc).loc = loc
  BY DEF Token

LEMMA AtPlace ==
  ASSUME source \in Seq(STRING), NEW loc \in Places
  PROVE  loc.offset \in 0..Len(source) /\ loc = PlaceAt(loc.offset)
  <1>1. PICK o \in 0..Len(source) : loc = PlaceAt(o)
    BY DEF Places
  <1> QED BY <1>1, PlaceParts

LEMMA ScanMakes ==
  ASSUME TypesOfLexer
  PROVE  LET x == advanceToken(at.offset)
         IN  /\ Scanned \in TokenSet /\ Scanned.kind = x.kind
             /\ Scanned.loc = AdvanceTo(at, x.place) /\ Scanned.loc \in Places
             /\ Plain(Scanned) = PlainAt(at.offset)
             /\ Stands(Scanned)
             /\ x.past \in 0..Len(source) /\ AdvanceTo(at, x.past) = PlaceAt(x.past)
             /\ x.kind = "EndOfFile" => x.past = Len(source) /\ Plain(Scanned) = EndToken
             /\ at.offset = Len(source) => x.kind = "EndOfFile"
             /\ TokensFrom[at.offset] = RestAfter(Scanned, TokensFrom[x.past])
  <1> DEFINE x == advanceToken(at.offset)
             o == at.offset
  <1>1. /\ source \in Seq(STRING) /\ o \in 0..Len(source) /\ at = PlaceAt(o)
        /\ Len(source) \in Nat
    BY LenProperties, AtPlace DEF TypesOfLexer
  <1>2. \/ Taken(x, o)
        \/ x = Lexeme("EndOfFile", Len(source), << >>, Len(source))
    BY <1>1, AdvanceTakes
  <1>3. /\ x.kind \in TokenKinds /\ x.text \in Seq(STRING)
        /\ x.place \in o..Len(source) /\ x.past \in o..Len(source)
        /\ x.kind = "EndOfFile" =>
             x.past = Len(source) /\ x.place = Len(source) /\ x.text = << >>
    <2>1. CASE Taken(x, o)
      BY <1>1, <2>1 DEF Taken
    <2>2. CASE x = Lexeme("EndOfFile", Len(source), << >>, Len(source))
      <3>1. /\ x.kind = "EndOfFile" /\ x.text = << >>
            /\ x.place = Len(source) /\ x.past = Len(source)
        BY <2>2, LexemeParts
      <3>2. x.kind \in TokenKinds /\ x.text \in Seq(STRING)
        BY <3>1 DEF TokenKinds
      <3> QED BY <1>1, <3>1, <3>2
    <2> QED BY <1>2, <2>1, <2>2
  <1> HIDE DEF x
  <1>4. AdvanceTo(at, x.place) = PlaceAt(x.place) /\ AdvanceTo(at, x.past) = PlaceAt(x.past)
    BY <1>1, <1>3, AdvancePlaces
  <1>5. x.place \in 0..Len(source) /\ x.past \in 0..Len(source)
    BY <1>1, <1>3
  <1>6. PlaceAt(x.place) \in Places /\ PlaceAt(x.place).offset = x.place
    BY <1>1, <1>5, PlaceParts DEF Places
  <1>7. Scanned = Token(x.kind, x.text, PlaceAt(x.place))
    BY <1>4 DEF Scanned, x
  <1>8. /\ Scanned \in TokenSet /\ Scanned.kind = x.kind /\ Scanned.text = x.text
        /\ Scanned.loc = PlaceAt(x.place)
    BY <1>3, <1>6, <1>7, TokenIn, TokenParts
  <1>14. StandsAt(x.place, x.kind, x.text)
    <2>1. CASE Taken(x, o)
      BY <2>1 DEF Taken
    <2>2. CASE x = Lexeme("EndOfFile", Len(source), << >>, Len(source))
      <3>1. x.kind = "EndOfFile" /\ x.place = Len(source)
        BY <2>2, LexemeParts
      <3> QED BY <3>1 DEF StandsAt
    <2> QED BY <1>2, <2>1, <2>2 DEF x
  <1>15. Stands(Scanned)
    BY <1>6, <1>8, <1>14 DEF Stands
  <1>9. Plain(Scanned) = <<x.kind, x.text, x.place>>
    BY <1>6, <1>8, Zenon DEF Plain
  <1>10. Plain(Scanned) = PlainAt(o)
    BY <1>9 DEF PlainAt, x
  <1>11. x.kind = "EndOfFile" => Plain(Scanned) = EndToken
    BY <1>3, <1>9, Zenon DEF EndToken
  <1>12. o = Len(source) => x.kind = "EndOfFile"
    <2>1. o = Len(source) => x = Lexeme("EndOfFile", Len(source), << >>, Len(source))
      BY <1>1, EndStays, Zenon DEF x
    <2> QED BY <2>1, LexemeParts
  <1>13. TokensFrom[o] = RestAfter(Scanned, TokensFrom[x.past])
    <2>1. TokensFrom[o] = <<PlainAt(o)>> \o
            (IF x.kind = "EndOfFile" THEN << >> ELSE TokensFrom[x.past])
      BY <1>1, TokensUnfold DEF x
    <2> QED BY <1>8, <1>10, <2>1, Zenon DEF RestAfter
  <1> QED BY <1>3, <1>4, <1>5, <1>6, <1>8, <1>10, <1>11, <1>12, <1>13, <1>15 DEF x

LEMMA PlainOfToken ==
  ASSUME source \in Seq(STRING), NEW t \in TokenSet
  PROVE  Plain(t) \in PlainTokens
  <1>1. PICK o \in 0..Len(source) : t.loc = PlaceAt(o)
    BY DEF TokenSet, Places
  <1>2. t.loc.offset = o /\ o \in Nat
    BY <1>1, PlaceParts, LenProperties
  <1>3. t.kind \in TokenKinds /\ t.text \in Seq(STRING)
    BY DEF TokenSet
  <1>4. <<t.kind, t.text, t.loc.offset>> \in PlainTokens
    BY <1>2, <1>3, PlainIn
  <1> QED BY <1>4 DEF Plain

LEMMA ComingType ==
  ASSUME TypesOfLexer
  PROVE  /\ Coming \in Seq(PlainTokens) /\ (Coming = << >> <=> AtEnd)
         /\ Plains(delivered) \in Seq(PlainTokens)
         /\ Len(Plains(delivered)) = Len(delivered) /\ Len(delivered) \in Nat
         /\ \A token \in TokenSet, rest \in Seq(PlainTokens) :
              /\ RestAfter(token, rest) \in Seq(PlainTokens)
              /\ RestAfter(token, rest) # << >> /\ RestAfter(token, rest)[1] = Plain(token)
  <1>1. /\ source \in Seq(STRING) /\ at.offset \in 0..Len(source)
        /\ currentToken \in TokenSet /\ delivered \in Seq(TokenSet)
    BY AtPlace DEF TypesOfLexer
  <1>2. TokensFrom[at.offset] \in Seq(PlainTokens)
    BY <1>1, TokensFromType
  <1>3. ASSUME NEW token \in TokenSet, NEW rest \in Seq(PlainTokens)
        PROVE  /\ RestAfter(token, rest) \in Seq(PlainTokens)
               /\ RestAfter(token, rest) # << >> /\ RestAfter(token, rest)[1] = Plain(token)
    <2> DEFINE first == <<Plain(token)>>
               more == IF token.kind = "EndOfFile" THEN << >> ELSE rest
    <2>1. first \in Seq(PlainTokens) /\ Len(first) = 1 /\ first[1] = Plain(token)
      BY <1>1, PlainOfToken
    <2>2. more \in Seq(PlainTokens) /\ Len(more) \in Nat
      <3>1. more \in Seq(PlainTokens)
        OBVIOUS
      <3> HIDE DEF more
      <3> QED BY <3>1, LenProperties
    <2> HIDE DEF first, more
    <2>3. /\ first \o more \in Seq(PlainTokens) /\ Len(first \o more) = Len(first) + Len(more)
          /\ (first \o more)[1] = first[1]
      <3>1. /\ first \o more \in Seq(PlainTokens)
            /\ Len(first \o more) = Len(first) + Len(more)
            /\ \A i \in 1..Len(first) + Len(more) :
                 (first \o more)[i] = IF i <= Len(first) THEN first[i] ELSE more[i - Len(first)]
        BY ONLY <2>1, <2>2, ConcatProperties
      <3>2. 1 \in 1..Len(first) + Len(more) /\ 1 <= Len(first)
        BY <2>1, <2>2
      <3> QED BY <3>1, <3>2
    <2>4. first \o more # << >>
      BY <2>1, <2>2, <2>3
    <2>5. RestAfter(token, rest) = first \o more
      BY DEF RestAfter, first, more
    <2> QED BY <2>1, <2>3, <2>4, <2>5
  <1>4. TokensFrom[at.offset] # << >>
    <2>1. /\ Scanned \in TokenSet /\ advanceToken(at.offset).past \in 0..Len(source)
          /\ TokensFrom[at.offset] = RestAfter(Scanned, TokensFrom[advanceToken(at.offset).past])
      BY ScanMakes
    <2>2. TokensFrom[advanceToken(at.offset).past] \in Seq(PlainTokens)
      BY <1>1, <2>1, TokensFromType
    <2> QED BY <1>3, <2>1, <2>2
  <1>5. Coming \in Seq(PlainTokens) /\ (Coming = << >> <=> AtEnd)
    BY <1>1, <1>2, <1>3, <1>4 DEF Coming
  <1>6. Len(delivered) \in Nat /\ \A k \in 1..Len(delivered) : delivered[k] \in TokenSet
    BY <1>1, LenProperties, ElementOfSeq
  <1>7. \A k \in 1..Len(delivered) : Plain(delivered[k]) \in PlainTokens
    BY <1>1, <1>6, PlainOfToken
  <1>8. Plains(delivered) \in Seq(PlainTokens) /\ Len(Plains(delivered)) = Len(delivered)
    BY <1>6, <1>7, IsASeq DEF Plains
  <1> QED BY <1>3, <1>5, <1>6, <1>8

-----------------------------------------------------------------------------
(* The steps.                                                              *)
LEMMA SourceFrame ==
  ASSUME source' = source
  PROVE  /\ Places' = Places /\ TokenSet' = TokenSet /\ EndToken' = EndToken
         /\ TokensFrom' = TokensFrom /\ Len(source)' = Len(source)
  <1>1. skipWhitespaceAndComments' = skipWhitespaceAndComments
    BY DEF skipWhitespaceAndComments, Holds, Begins, isAtEnd, charAt, RunEnd, CommentEnd, Min
  <1>2. ASSUME NEW p, NEW q, NEW k
        PROVE  literal(p, q, k)' = literal(p, q, k)
    <2>1. LiteralEnd(p, q)' = LiteralEnd(p, q)
      BY DEF LiteralEnd, Holds, isAtEnd, charAt
    <2> QED BY DEF literal, LiteralEnd, Holds, isAtEnd, charAt, Spelled, errorToken
  <1>3. ASSUME NEW p
        PROVE  advanceToken(p)' = advanceToken(p)
    <2>1. punctuator(p)' = punctuator(p)
      BY DEF punctuator, Holds, isAtEnd, charAt, Spelled
    <2>2. number(p)' = number(p)
      BY DEF number, Holds, isAtEnd, charAt, Spelled, RunEnd
    <2>3. identifierOrKeyword(p)' = identifierOrKeyword(p)
      BY DEF identifierOrKeyword, Holds, isAtEnd, charAt, Spelled, RunEnd
    <2> QED BY <1>1, <1>2, <2>1, <2>2, <2>3
            DEF advanceToken, Holds, isAtEnd, charAt, identifierOrKeyword, number, punctuator,
                literal, LiteralEnd, Spelled, RunEnd
  <1>4. TokensFrom' = TokensFrom
    BY <1>3, Zenon DEF TokensFrom
  <1>5. Places' = Places
    BY DEF Places, PlaceAt, LineStartAt
  <1>6. TokenSet' = TokenSet
    BY <1>5 DEF TokenSet
  <1> QED BY <1>4, <1>5, <1>6 DEF EndToken

LEMMA PlainsAppend ==
  ASSUME TypesOfLexer, NEW t \in TokenSet, NEW rest \in Seq(PlainTokens)
  PROVE  Plains(Append(delivered, t)) \o (IF t.kind = "EndOfFile" THEN << >> ELSE rest)
           = Plains(delivered) \o RestAfter(t, rest)
  <1> DEFINE more == IF t.kind = "EndOfFile" THEN << >> ELSE rest
             ps == Plains(delivered)
             n == Len(delivered)
  <1>1. /\ ps \in Seq(PlainTokens) /\ Len(ps) = n /\ n \in Nat
        /\ delivered \in Seq(TokenSet) /\ source \in Seq(STRING)
    BY ComingType DEF TypesOfLexer
  <1>2. Plain(t) \in PlainTokens
    BY <1>1, PlainOfToken
  <1>3. more \in Seq(PlainTokens) /\ <<Plain(t)>> \in Seq(PlainTokens)
    BY <1>2
  <1>4. Plains(Append(delivered, t)) = Append(ps, Plain(t))
    <2> DEFINE d == Append(delivered, t)
    <2>1. /\ d \in Seq(TokenSet) /\ Len(d) = n + 1
          /\ \A k \in 1..n : d[k] = delivered[k]
          /\ d[n + 1] = t
      BY <1>1, AppendProperties
    <2>2. \A k \in 1..n : ps[k] = Plain(delivered[k])
      BY DEF Plains
    <2>3. /\ Append(ps, Plain(t)) \in Seq(PlainTokens) /\ Len(Append(ps, Plain(t))) = n + 1
          /\ \A k \in 1..n : Append(ps, Plain(t))[k] = ps[k]
          /\ Append(ps, Plain(t))[n + 1] = Plain(t)
      BY <1>1, <1>2, AppendProperties
    <2> HIDE DEF d, ps, n
    <2>4. Plains(d) = [k \in 1..(n + 1) |-> Plain(d[k])]
      BY <2>1 DEF Plains
    <2>5. \A k \in 1..(n + 1) : Plain(d[k]) = Append(ps, Plain(t))[k]
      BY <1>1, <2>1, <2>2, <2>3
    <2>6. Append(ps, Plain(t)) = [k \in 1..(n + 1) |-> Append(ps, Plain(t))[k]]
      <3> DEFINE e == Append(ps, Plain(t))
      <3>1. e \in Seq(PlainTokens) /\ Len(e) = n + 1
        BY <2>3
      <3> HIDE DEF e
      <3>2. e \in [1..(n + 1) -> PlainTokens]
        BY <3>1, LenProperties
      <3>3. e = [k \in 1..(n + 1) |-> e[k]]
        BY <3>2
      <3> QED BY <3>3 DEF e
    <2>7. Plains(d) = Append(ps, Plain(t))
      BY <2>4, <2>5, <2>6
    <2> QED BY <2>7 DEF d
  <1>5. Append(ps, Plain(t)) = ps \o <<Plain(t)>>
    BY <1>1, <1>2, AppendIsConcat
  <1>6. (ps \o <<Plain(t)>>) \o more = ps \o (<<Plain(t)>> \o more)
    <2> HIDE DEF ps, more
    <2> QED BY <1>1, <1>3, ConcatAssociative
  <1>7. RestAfter(t, rest) = <<Plain(t)>> \o more
    BY DEF RestAfter
  <1> HIDE DEF ps, more
  <1>8. Plains(Append(delivered, t)) \o more = ps \o RestAfter(t, rest)
    BY <1>4, <1>5, <1>6, <1>7, Zenon
  <1> QED BY <1>8 DEF ps, more

(* A call of next() that returns t: what peek() left, or a new token.      *)
LEMMA TakingKeeps ==
  ASSUME IInv, NEW t \in TokenSet,
         source' = source, tokens' = tokens, at' \in Places, hasPeeked' = FALSE,
         delivered' = IF ~AtEnd THEN Append(delivered, t) ELSE delivered,
         ~AtEnd => Coming = RestAfter(t, TokensFrom[at'.offset]),
         t.kind = "EndOfFile" => at'.offset = Len(source) /\ Plain(t) = EndToken,
         AtEnd => at'.offset = Len(source)
  PROVE  InStream' /\ EndKnown' /\ delivered' \in Seq(TokenSet)
  <1>1. /\ TypesOfLexer /\ source \in Seq(STRING) /\ delivered \in Seq(TokenSet)
        /\ at'.offset \in 0..Len(source) /\ Len(delivered) \in Nat
    BY AtPlace, LenProperties DEF IInv, TypesOfLexer
  <1>2. TokensFrom[at'.offset] \in Seq(PlainTokens)
    BY <1>1, TokensFromType
  <1>3. /\ TokensFrom' = TokensFrom /\ EndToken' = EndToken /\ Len(source)' = Len(source)
    BY SourceFrame
  <1>4. CASE AtEnd
    <2>1. AtEnd' /\ delivered' = delivered
      BY <1>4 DEF AtEnd
    <2>2. Coming' = << >> /\ Coming = << >>
      BY <1>4, <2>1 DEF Coming
    <2>3. InStream'
      BY <2>1, <2>2 DEF IInv, InStream, Plains
    <2>4. EndKnown'
      BY <1>3, <1>4, <2>1 DEF IInv, EndKnown, Last
    <2> QED BY <1>1, <2>1, <2>3, <2>4
  <1>5. CASE ~AtEnd
    <2>1. /\ delivered' = Append(delivered, t) /\ delivered' \in Seq(TokenSet)
          /\ delivered' # << >> /\ Last(delivered') = t
      <3>1. delivered' = Append(delivered, t)
        BY <1>5
      <3>2. /\ Append(delivered, t) \in Seq(TokenSet) /\ Append(delivered, t) # << >>
            /\ Len(Append(delivered, t)) = Len(delivered) + 1
            /\ Append(delivered, t)[Len(delivered) + 1] = t
        BY <1>1, AppendProperties
      <3> QED BY <3>1, <3>2 DEF Last
    <2>2. AtEnd' <=> t.kind = "EndOfFile"
      BY <2>1 DEF AtEnd
    <2>3. Coming' = IF t.kind = "EndOfFile" THEN << >> ELSE TokensFrom[at'.offset]
      BY <1>3, <2>2 DEF Coming
    <2>4. Plains(delivered') \o Coming' = Plains(delivered) \o Coming
      BY <1>1, <1>2, <1>5, <2>1, <2>3, PlainsAppend
    <2>5. InStream'
      BY <2>4 DEF IInv, InStream, Plains
    <2>6. EndKnown'
      BY <1>3, <2>1, <2>2 DEF EndKnown
    <2> QED BY <2>1, <2>5, <2>6
  <1> QED BY <1>4, <1>5

(* How many of the tokens belong to no lexeme.                             *)
UnknownIn(d) == {k \in DOMAIN d : d[k].kind = "Unknown"}

LEMMA UnknownCount ==
  ASSUME source \in Seq(STRING), NEW d \in Seq(TokenSet), NEW t \in TokenSet
  PROVE  /\ Cardinality(UnknownIn(d)) \in Nat
         /\ Cardinality(UnknownIn(Append(d, t))) =
              Cardinality(UnknownIn(d)) + (IF t.kind = "Unknown" THEN 1 ELSE 0)
  <1> DEFINE n == Len(d)
             e == Append(d, t)
  <1>1. n \in Nat /\ DOMAIN d = 1..n
    BY LenProperties
  <1>2. /\ e \in Seq(TokenSet) /\ Len(e) = n + 1
        /\ \A k \in 1..n : e[k] = d[k]
        /\ e[n + 1] = t
    BY AppendProperties
  <1> HIDE DEF e
  <1>3. DOMAIN e = 1..(n + 1)
    BY <1>2, LenProperties
  <1>4. IsFiniteSet(UnknownIn(d)) /\ Cardinality(UnknownIn(d)) \in Nat
    <2>1. UnknownIn(d) \in SUBSET (1..n) /\ IsFiniteSet(1..n)
      BY <1>1, FS_Interval DEF UnknownIn
    <2> QED BY <2>1, FS_Subset, FS_CardinalityType
  <1>5. CASE t.kind = "Unknown"
    <2>1. UnknownIn(e) = UnknownIn(d) \cup {n + 1}
      <3> HIDE DEF n
      <3> QED BY <1>1, <1>2, <1>3, <1>5 DEF UnknownIn
    <2>2. n + 1 \notin UnknownIn(d)
      BY <1>1 DEF UnknownIn
    <2>3. Cardinality(UnknownIn(d) \cup {n + 1}) = Cardinality(UnknownIn(d)) + 1
      BY <1>4, <2>2, FS_AddElement
    <2> QED BY <1>4, <1>5, <2>1, <2>3 DEF e
  <1>6. CASE t.kind # "Unknown"
    <2>1. UnknownIn(e) = UnknownIn(d)
      <3> HIDE DEF n
      <3> QED BY <1>1, <1>2, <1>3, <1>6 DEF UnknownIn
    <2> QED BY <1>4, <1>6, <2>1 DEF e
  <1> QED BY <1>5, <1>6

LEMMA ReportedAs ==
  /\ ReportedOnce <=> Len(diagnostics) = Cardinality(UnknownIn(delivered)) +
                        (IF hasPeeked /\ currentToken.kind = "Unknown" THEN 1 ELSE 0)
  /\ ReportedOnce' <=> Len(diagnostics') = Cardinality(UnknownIn(delivered')) +
                        (IF hasPeeked' /\ currentToken'.kind = "Unknown" THEN 1 ELSE 0)
  BY DEF ReportedOnce, UnknownIn

LEMMA ScanStep ==
  ASSUME IInv, NEW call, Scan(call)
  PROVE  /\ source' = source /\ tokens' = tokens /\ at' \in Places
         /\ at'.offset = advanceToken(at.offset).past
         /\ answer' = <<call, Scanned>>
         /\ delivered' = IF call = "next" /\ ~AtEnd THEN Append(delivered, Scanned)
                         ELSE delivered
         /\ diagnostics' \in Seq([level : {"error"}, loc : Places])
         /\ Len(diagnostics') = Len(diagnostics) + (IF Scanned.kind = "Unknown" THEN 1 ELSE 0)
         /\ \A loc : loc \in {diagnostics'[k].loc : k \in DOMAIN diagnostics'} =>
              loc \in Reported \cup {Scanned.loc}
  <1> DEFINE x == advanceToken(at.offset)
             E == [level : {"error"}, loc : Places]
  <1>1. /\ TypesOfLexer /\ source \in Seq(STRING) /\ diagnostics \in Seq(E)
        /\ Len(diagnostics) \in Nat /\ DOMAIN diagnostics = 1..Len(diagnostics)
    BY LenProperties DEF IInv, TypesOfLexer
  <1>2. /\ x.past \in 0..Len(source) /\ AdvanceTo(at, x.past) = PlaceAt(x.past)
        /\ Scanned.kind = x.kind /\ Scanned.loc = AdvanceTo(at, x.place)
        /\ Scanned.loc \in Places
    BY <1>1, ScanMakes
  <1> HIDE DEF x
  <1>3. /\ at' = AdvanceTo(at, x.past)
        /\ diagnostics' = IF x.kind # "Unknown" THEN diagnostics
                          ELSE report(diagnostics, "error", AdvanceTo(at, x.place))
        /\ Answer(call, Token(x.kind, x.text, AdvanceTo(at, x.place)))
    BY DEF Scan, x
  <1>4. Token(x.kind, x.text, AdvanceTo(at, x.place)) = Scanned
    BY DEF Scanned, x
  <1>5. /\ source' = source /\ tokens' = tokens /\ answer' = <<call, Scanned>>
        /\ delivered' = IF call = "next" /\ ~AtEnd THEN Append(delivered, Scanned)
                        ELSE delivered
    BY <1>3, <1>4 DEF Answer
  <1>6. at' \in Places /\ at'.offset = x.past
    BY <1>1, <1>2, <1>3, PlaceParts DEF Places
  <1>7. CASE x.kind # "Unknown"
    BY <1>1, <1>2, <1>3, <1>5, <1>6, <1>7 DEF Reported, x
  <1>8. CASE x.kind = "Unknown"
    <2> DEFINE r == Diagnostic("error", Scanned.loc)
    <2>1. diagnostics' = Append(diagnostics, r)
      BY <1>2, <1>3, <1>8 DEF report
    <2>2. r \in E /\ r.loc = Scanned.loc
      BY <1>2 DEF Diagnostic
    <2> HIDE DEF r, E
    <2>3. /\ Append(diagnostics, r) \in Seq(E)
          /\ Len(Append(diagnostics, r)) = Len(diagnostics) + 1
          /\ \A k \in 1..Len(diagnostics) : Append(diagnostics, r)[k] = diagnostics[k]
          /\ Append(diagnostics, r)[Len(diagnostics) + 1] = r
      BY <1>1, <2>2, AppendProperties
    <2>4. DOMAIN diagnostics' = 1..(Len(diagnostics) + 1)
      BY <2>1, <2>3, LenProperties
    <2>5. ASSUME NEW k \in DOMAIN diagnostics'
          PROVE  diagnostics'[k].loc \in Reported \cup {Scanned.loc}
      <3>1. k \in 1..Len(diagnostics) \/ k = Len(diagnostics) + 1
        BY <1>1, <2>4
      <3>2. CASE k \in 1..Len(diagnostics)
        BY <1>1, <2>1, <2>3, <3>2 DEF Reported
      <3>3. CASE k = Len(diagnostics) + 1
        BY <2>1, <2>2, <2>3, <3>3
      <3> QED BY <3>1, <3>2, <3>3
    <2>6. Scanned.kind = "Unknown"
      BY <1>2, <1>8
    <2>7. diagnostics' \in Seq(E) /\ Len(diagnostics') = Len(diagnostics) + 1
      BY <2>1, <2>3
    <2> QED BY <1>5, <1>6, <2>5, <2>6, <2>7 DEF E, x
  <1> QED BY <1>7, <1>8

LEMMA NextKeeps ==
  ASSUME IInv, next
  PROVE  IInv'
  <1>1. /\ TypesOfLexer /\ source \in Seq(STRING) /\ delivered \in Seq(TokenSet)
        /\ currentToken \in TokenSet /\ EndKnown /\ ReportedOnce
        /\ Len(diagnostics) \in Nat /\ at \in Places
    BY LenProperties DEF IInv, TypesOfLexer
  <1>2. CASE hasPeeked
    <2>1. /\ hasPeeked' = FALSE /\ source' = source /\ tokens' = tokens
          /\ at' = at /\ currentToken' = currentToken /\ diagnostics' = diagnostics
          /\ delivered' = IF ~AtEnd THEN Append(delivered, currentToken) ELSE delivered
      BY <1>2 DEF next, Answer
    <2>2. ~AtEnd => Coming = RestAfter(currentToken, TokensFrom[at'.offset])
      BY <1>2, <2>1 DEF Coming
    <2>3. /\ currentToken.kind = "EndOfFile" =>
               at'.offset = Len(source) /\ Plain(currentToken) = EndToken
          /\ AtEnd => at'.offset = Len(source)
      BY <1>1, <1>2, <2>1 DEF EndKnown
    <2>4. InStream' /\ EndKnown' /\ delivered' \in Seq(TokenSet)
      BY <1>1, <2>1, <2>2, <2>3, TakingKeeps
    <2>5. TypesOfLexer'
      BY <1>1, <2>1, <2>4, SourceFrame DEF TypesOfLexer
    <2>6. ReportedOnce'
      <3>1. AtEnd => currentToken.kind # "Unknown"
        BY <1>1, <1>2 DEF EndKnown
      <3>2. Cardinality(UnknownIn(delivered')) = Cardinality(UnknownIn(delivered)) +
              (IF currentToken.kind = "Unknown" THEN 1 ELSE 0)
            /\ Cardinality(UnknownIn(delivered)) \in Nat
        BY <1>1, <2>1, <3>1, UnknownCount
      <3>3. Len(diagnostics) = Cardinality(UnknownIn(delivered)) +
              (IF currentToken.kind = "Unknown" THEN 1 ELSE 0)
        BY <1>1, <1>2 DEF ReportedOnce, UnknownIn
      <3>4. Len(diagnostics') = Cardinality(UnknownIn(delivered'))
        BY <2>1, <3>2, <3>3
      <3>5. Cardinality(UnknownIn(delivered')) \in Nat
        BY <3>2
      <3> QED BY <2>1, <3>4, <3>5, ReportedAs
    <2> QED BY <2>4, <2>5, <2>6 DEF IInv
  <1>3. CASE ~hasPeeked
    <2>1. Scan("next") /\ currentToken' = currentToken /\ hasPeeked' = hasPeeked
      BY <1>3 DEF next
    <2>2. /\ source' = source /\ tokens' = tokens /\ at' \in Places
          /\ at'.offset = advanceToken(at.offset).past
          /\ delivered' = IF ~AtEnd THEN Append(delivered, Scanned) ELSE delivered
          /\ diagnostics' \in Seq([level : {"error"}, loc : Places])
          /\ Len(diagnostics') = Len(diagnostics) + (IF Scanned.kind = "Unknown" THEN 1 ELSE 0)
      BY <2>1, ScanStep
    <2>3. /\ Scanned \in TokenSet /\ Scanned.kind = advanceToken(at.offset).kind
          /\ Scanned.kind = "EndOfFile" =>
               at'.offset = Len(source) /\ Plain(Scanned) = EndToken
          /\ at.offset = Len(source) => Scanned.kind = "EndOfFile"
          /\ TokensFrom[at.offset] = RestAfter(Scanned, TokensFrom[at'.offset])
      BY <1>1, <2>2, ScanMakes
    <2>4. ~AtEnd => Coming = RestAfter(Scanned, TokensFrom[at'.offset])
      BY <1>3, <2>3 DEF Coming
    <2>5. AtEnd => Scanned.kind = "EndOfFile" /\ at'.offset = Len(source)
      BY <1>1, <2>3 DEF EndKnown
    <2>9. hasPeeked' = FALSE
      BY <1>1, <1>3, <2>1 DEF TypesOfLexer
    <2>6. InStream' /\ EndKnown' /\ delivered' \in Seq(TokenSet)
      BY <2>9, <2>2, <2>3, <2>4, <2>5, TakingKeeps
    <2>7. TypesOfLexer'
      BY <1>1, <2>1, <2>2, <2>6, SourceFrame DEF TypesOfLexer
    <2>8. ReportedOnce'
      <3>1. Cardinality(UnknownIn(delivered')) = Cardinality(UnknownIn(delivered)) +
              (IF Scanned.kind = "Unknown" THEN 1 ELSE 0)
            /\ Cardinality(UnknownIn(delivered)) \in Nat
        BY <1>1, <2>2, <2>3, <2>5, UnknownCount
      <3>2. Len(diagnostics) = Cardinality(UnknownIn(delivered))
        BY <1>1, <1>3, <3>1 DEF ReportedOnce, UnknownIn
      <3>3. Len(diagnostics') = Cardinality(UnknownIn(delivered'))
        BY <2>2, <3>1, <3>2
      <3>4. Cardinality(UnknownIn(delivered')) \in Nat
        BY <3>1
      <3> QED BY <1>3, <2>1, <3>3, <3>4, ReportedAs
    <2> QED BY <2>6, <2>7, <2>8 DEF IInv
  <1> QED BY <1>2, <1>3

LEMMA PeekKeeps ==
  ASSUME IInv, peek
  PROVE  IInv'
  <1>1. /\ TypesOfLexer /\ source \in Seq(STRING) /\ delivered \in Seq(TokenSet)
        /\ currentToken \in TokenSet /\ InStream /\ EndKnown /\ ReportedOnce
        /\ Len(diagnostics) \in Nat /\ at \in Places
    BY LenProperties DEF IInv, TypesOfLexer
  <1>2. CASE hasPeeked
    <2>1. /\ hasPeeked' = hasPeeked /\ source' = source /\ tokens' = tokens
          /\ at' = at /\ currentToken' = currentToken /\ diagnostics' = diagnostics
          /\ delivered' = delivered
      BY <1>2 DEF peek, Answer
    <2>2. /\ TokensFrom' = TokensFrom /\ EndToken' = EndToken /\ AtEnd' = AtEnd
          /\ Places' = Places /\ TokenSet' = TokenSet
      BY <2>1, SourceFrame DEF AtEnd
    <2>3. InStream'
      BY <1>1, <2>1, <2>2 DEF InStream, Coming, Plains, RestAfter
    <2>4. EndKnown' /\ TypesOfLexer'
      BY <1>1, <2>1, <2>2 DEF EndKnown, TypesOfLexer
    <2>5. ReportedOnce'
      BY <1>1, <2>1, ReportedAs
    <2> QED BY <2>3, <2>4, <2>5 DEF IInv
  <1>3. CASE ~hasPeeked
    <2>1. Scan("peek") /\ currentToken' = answer'[2] /\ hasPeeked' = TRUE
      BY <1>3 DEF peek
    <2>2. /\ source' = source /\ tokens' = tokens /\ at' \in Places
          /\ at'.offset = advanceToken(at.offset).past
          /\ answer' = <<"peek", Scanned>> /\ delivered' = delivered
          /\ diagnostics' \in Seq([level : {"error"}, loc : Places])
          /\ Len(diagnostics') = Len(diagnostics) + (IF Scanned.kind = "Unknown" THEN 1 ELSE 0)
      <3>1. delivered' = IF "peek" = "next" /\ ~AtEnd THEN Append(delivered, Scanned)
                         ELSE delivered
        BY <2>1, ScanStep
      <3>2. delivered' = delivered
        BY <3>1
      <3>3. /\ source' = source /\ tokens' = tokens /\ at' \in Places
            /\ at'.offset = advanceToken(at.offset).past
            /\ answer' = <<"peek", Scanned>>
        BY <2>1, ScanStep
      <3>4. /\ diagnostics' \in Seq([level : {"error"}, loc : Places])
            /\ Len(diagnostics') = Len(diagnostics) + (IF Scanned.kind = "Unknown" THEN 1 ELSE 0)
        BY <2>1, ScanStep
      <3> QED BY <3>2, <3>3, <3>4
    <2>3. /\ Scanned \in TokenSet /\ Scanned.kind = advanceToken(at.offset).kind
          /\ Scanned.kind = "EndOfFile" =>
               at'.offset = Len(source) /\ Plain(Scanned) = EndToken
          /\ at.offset = Len(source) => Scanned.kind = "EndOfFile"
          /\ TokensFrom[at.offset] = RestAfter(Scanned, TokensFrom[at'.offset])
      BY <1>1, <2>2, ScanMakes
    <2>4. currentToken' = Scanned
      BY <2>1, <2>2
    <2>5. /\ TokensFrom' = TokensFrom /\ EndToken' = EndToken /\ (AtEnd' <=> AtEnd)
          /\ Places' = Places /\ TokenSet' = TokenSet
      BY <2>2, SourceFrame DEF AtEnd
    <2>6. Coming' = Coming
      <3>1. CASE AtEnd
        BY <2>5, <3>1 DEF Coming
      <3>2. CASE ~AtEnd
        <4>1. Coming = TokensFrom[at.offset]
          BY <1>3, <3>2 DEF Coming
        <4>2. Coming' = RestAfter(Scanned, TokensFrom[at'.offset])
          BY <2>1, <2>4, <2>5, <3>2 DEF Coming, RestAfter
        <4> QED BY <2>3, <4>1, <4>2
      <3> QED BY <3>1, <3>2
    <2>7. InStream'
      BY <1>1, <2>2, <2>6 DEF InStream, Plains
    <2>8. EndKnown'
      <3>1. AtEnd => Scanned.kind = "EndOfFile"
        BY <1>1, <2>3 DEF EndKnown
      <3>2. Len(source)' = Len(source) /\ Last(delivered)' = Last(delivered)
        BY <2>2, SourceFrame DEF Last
      <3>3. Plain(Scanned) = EndToken => Plain(currentToken)' = EndToken
        BY <2>4 DEF Plain
      <3>4. AtEnd => Plain(Last(delivered))' = EndToken
        BY <1>1, <3>2 DEF EndKnown, Plain
      <3> QED BY <2>3, <2>4, <2>5, <3>1, <3>2, <3>3, <3>4 DEF EndKnown
    <2>9. TypesOfLexer'
      BY <1>1, <2>1, <2>2, <2>3, <2>4, <2>5 DEF TypesOfLexer
    <2>10. ReportedOnce'
      <3>1. Cardinality(UnknownIn(delivered)) \in Nat
        BY <1>1, UnknownCount
      <3>2. Len(diagnostics) = Cardinality(UnknownIn(delivered))
        BY <1>1, <1>3, <3>1, ReportedAs
      <3>3. UnknownIn(delivered') = UnknownIn(delivered)
        BY <2>2
      <3> QED BY <2>1, <2>2, <2>4, <3>1, <3>2, <3>3, ReportedAs
    <2> QED BY <2>7, <2>8, <2>9, <2>10 DEF IInv
  <1> QED BY <1>2, <1>3

LEMMA StutterKeeps ==
  ASSUME IInv, UNCHANGED lexVars
  PROVE  IInv'
  <1>1. UNCHANGED <<source, at, currentToken, hasPeeked, diagnostics, answer, delivered, tokens>>
    BY DEF lexVars
  <1>2. /\ TokensFrom' = TokensFrom /\ EndToken' = EndToken
        /\ Places' = Places /\ TokenSet' = TokenSet
    BY <1>1, SourceFrame
  <1>3. InStream'
    BY <1>1, <1>2 DEF IInv, InStream, Coming, Plains, RestAfter, AtEnd
  <1>4. EndKnown' /\ TypesOfLexer'
    BY <1>1, <1>2 DEF IInv, EndKnown, TypesOfLexer, AtEnd
  <1>5. ReportedOnce'
    BY <1>1, ReportedAs DEF IInv
  <1> QED BY <1>3, <1>4, <1>5 DEF IInv

LEMMA InitInv == Init => IInv
  <1> SUFFICES ASSUME Init PROVE IInv
    OBVIOUS
  <1>1. /\ source \in Seq(STRING) /\ at = Location(1, 1, 0) /\ currentToken = NoToken
        /\ hasPeeked = FALSE /\ diagnostics = << >> /\ delivered = << >>
        /\ tokens = TokensFrom[0] /\ ~AtEnd
    BY SourcesAssumption DEF Init, AtEnd
  <1>2. Len(source) \in Nat /\ 0 \in 0..Len(source)
    BY <1>1, LenProperties
  <1>3. PlaceAt(0) = Location(1, 1, 0)
    <2>1. NewlinesBefore(source, 0) = {}
      BY DEF NewlinesBefore
    <2>2. Cardinality(NewlinesBefore(source, 0)) = 0 /\ LineStartAt(0) = 0
      BY <2>1, FS_EmptySet DEF LineStartAt
    <2> QED BY <2>2 DEF PlaceAt
  <1>4. Location(1, 1, 0) \in Places
    BY <1>2, <1>3 DEF Places
  <1>5. NoToken \in TokenSet
    <2>1. "Unknown" \in TokenKinds /\ << >> \in Seq(STRING)
      BY DEF TokenKinds
    <2> QED BY <1>4, <2>1, TokenIn DEF NoToken
  <1>6. TypesOfLexer
    <2>1. delivered \in Seq(TokenSet) /\ hasPeeked \in BOOLEAN
      BY <1>1, EmptySeq
    <2>2. diagnostics \in Seq([level : {"error"}, loc : Places])
      BY <1>1, EmptySeq
    <2>3. at \in Places /\ currentToken \in TokenSet
      BY <1>1, <1>4, <1>5
    <2> QED BY <1>1, <2>1, <2>2, <2>3 DEF TypesOfLexer
  <1>7. Coming = TokensFrom[0] /\ Plains(delivered) = << >>
    BY <1>1 DEF Coming, Location, Plains
  <1>8. InStream
    <2>1. TokensFrom[0] \in Seq(PlainTokens)
      BY <1>1, <1>2, TokensFromType
    <2>2. << >> \o TokensFrom[0] = TokensFrom[0]
      BY <2>1, ConcatEmptySeq
    <2> QED BY <1>1, <1>7, <2>2 DEF InStream
  <1>9. EndKnown
    BY <1>1 DEF EndKnown
  <1>10. ReportedOnce
    <2>1. UnknownIn(delivered) = {}
      BY <1>1 DEF UnknownIn
    <2>2. Cardinality(UnknownIn(delivered)) = 0
      BY <2>1, FS_EmptySet
    <2> QED BY <1>1, <2>2, ReportedAs
  <1> QED BY <1>6, <1>8, <1>9, <1>10 DEF IInv

LEMMA Inductive == Spec => []IInv
  <1>1. IInv /\ [Next]_lexVars => IInv'
    BY NextKeeps, PeekKeeps, StutterKeeps DEF Next
  <1> QED BY <1>1, InitInv, PTL DEF Spec

(* Whatever belongs to no lexeme is reported once, whatever the file and   *)
(* however often it is peeked at before it is taken.                       *)
THEOREM UnknownsReportedOnce == Spec => []ReportedOnce
  <1>1. IInv => ReportedOnce
    BY DEF IInv
  <1> QED BY <1>1, Inductive, PTL

-----------------------------------------------------------------------------
(* Lexer implements TokenStream.                                           *)

(* The token that a call answers is the one that the stream has next.      *)
LEMMA AnswerIsComing ==
  ASSUME IInv, NEW t \in TokenSet,
         AtEnd => Plain(t) = EndToken,
         ~AtEnd => Coming[1] = Plain(t)
  PROVE  /\ Plain(t) = tokens[IF Len(delivered) = Len(tokens) THEN Len(delivered)
                              ELSE Len(delivered) + 1]
         /\ Len(delivered) = Len(tokens) <=> AtEnd
  <1> DEFINE ps == Plains(delivered)
             n == Len(delivered)
  <1>1. /\ TypesOfLexer /\ InStream /\ EndKnown
    BY DEF IInv
  <1>2. /\ ps \in Seq(PlainTokens) /\ Len(ps) = n /\ n \in Nat
        /\ Coming \in Seq(PlainTokens) /\ (Coming = << >> <=> AtEnd)
    BY <1>1, ComingType
  <1>3. /\ Len(Coming) \in Nat /\ (Len(Coming) = 0 <=> AtEnd)
    BY <1>2, LenProperties, EmptySeq
  <1>4. tokens = ps \o Coming
    BY <1>1 DEF InStream
  <1> HIDE DEF ps
  <1>5. /\ Len(tokens) = n + Len(Coming)
        /\ \A i \in 1..n + Len(Coming) :
             tokens[i] = IF i <= n THEN ps[i] ELSE Coming[i - n]
    <2>1. /\ Len(ps \o Coming) = Len(ps) + Len(Coming)
          /\ \A i \in 1..Len(ps) + Len(Coming) :
               (ps \o Coming)[i] = IF i <= Len(ps) THEN ps[i] ELSE Coming[i - Len(ps)]
      BY ONLY <1>2, ConcatProperties
    <2> QED BY <1>2, <1>4, <2>1
  <1>6. n = Len(tokens) <=> AtEnd
    BY <1>2, <1>3, <1>5
  <1>7. CASE AtEnd
    <2>1. n # 0 /\ n \in 1..n
      <3>1. delivered # << >> /\ delivered \in Seq(TokenSet)
        BY <1>1, <1>7 DEF AtEnd, TypesOfLexer
      <3> QED BY <1>2, <3>1, EmptySeq
    <2>2. Plain(delivered[n]) = EndToken
      BY <1>1, <1>7 DEF EndKnown, Last
    <2>3. ps[n] = Plain(delivered[n])
      BY <2>1 DEF ps, Plains
    <2>4. tokens[n] = ps[n]
      BY <1>2, <1>3, <1>5, <1>7, <2>1
    <2> QED BY <1>6, <1>7, <2>2, <2>3, <2>4
  <1>8. CASE ~AtEnd
    <2>1. Len(Coming) >= 1 /\ n + 1 \in 1..n + Len(Coming) /\ ~(n + 1 <= n) /\ (n + 1) - n = 1
      BY <1>2, <1>3, <1>8
    <2>2. tokens[n + 1] = Coming[1]
      BY <1>5, <2>1
    <2> QED BY <1>6, <1>8, <2>2
  <1> QED BY <1>7, <1>8

(* A call of either kind answers with the token that comes next.           *)
LEMMA NextAnswers ==
  ASSUME IInv, next
  PROVE  \E t \in TokenSet :
           /\ answer' = <<"next", t>> /\ tokens' = tokens
           /\ Len(delivered') = IF AtEnd THEN Len(delivered) ELSE Len(delivered) + 1
           /\ AtEnd => Plain(t) = EndToken
           /\ ~AtEnd => Coming[1] = Plain(t)
  <1>1. /\ TypesOfLexer /\ source \in Seq(STRING) /\ delivered \in Seq(TokenSet)
        /\ currentToken \in TokenSet /\ EndKnown /\ at \in Places /\ Len(delivered) \in Nat
        /\ TokensFrom[at.offset] \in Seq(PlainTokens)
    BY LenProperties, AtPlace, TokensFromType DEF IInv, TypesOfLexer
  <1>2. CASE hasPeeked
    <2>1. /\ answer' = <<"next", currentToken>> /\ tokens' = tokens
          /\ delivered' = IF ~AtEnd THEN Append(delivered, currentToken) ELSE delivered
      BY <1>2 DEF next, Answer
    <2>2. Len(delivered') = IF AtEnd THEN Len(delivered) ELSE Len(delivered) + 1
      BY <1>1, <2>1, AppendProperties
    <2>3. AtEnd => Plain(currentToken) = EndToken
      BY <1>1, <1>2 DEF EndKnown
    <2>4. ~AtEnd => Coming[1] = Plain(currentToken)
      BY <1>1, <1>2, ComingType DEF Coming
    <2> QED BY <1>1, <2>1, <2>2, <2>3, <2>4
  <1>3. CASE ~hasPeeked
    <2>1. Scan("next")
      BY <1>3 DEF next
    <2>2. /\ answer' = <<"next", Scanned>> /\ tokens' = tokens
          /\ delivered' = IF ~AtEnd THEN Append(delivered, Scanned) ELSE delivered
      BY <2>1, ScanStep
    <2>3. /\ Scanned \in TokenSet /\ Scanned.kind = advanceToken(at.offset).kind
          /\ Scanned.kind = "EndOfFile" => Plain(Scanned) = EndToken
          /\ at.offset = Len(source) => Scanned.kind = "EndOfFile"
          /\ advanceToken(at.offset).past \in 0..Len(source)
          /\ TokensFrom[at.offset] = RestAfter(Scanned, TokensFrom[advanceToken(at.offset).past])
      BY <1>1, ScanMakes
    <2>4. Len(delivered') = IF AtEnd THEN Len(delivered) ELSE Len(delivered) + 1
      BY <1>1, <2>2, <2>3, AppendProperties
    <2>5. AtEnd => Plain(Scanned) = EndToken
      BY <1>1, <2>3 DEF EndKnown
    <2>6. ~AtEnd => Coming[1] = Plain(Scanned)
      <3>1. TokensFrom[advanceToken(at.offset).past] \in Seq(PlainTokens)
        BY <1>1, <2>3, TokensFromType
      <3> QED BY <1>1, <1>3, <2>3, <3>1, ComingType DEF Coming
    <2> QED BY <2>2, <2>3, <2>4, <2>5, <2>6
  <1> QED BY <1>2, <1>3

LEMMA PeekAnswers ==
  ASSUME IInv, peek
  PROVE  \E t \in TokenSet :
           /\ answer' = <<"peek", t>> /\ tokens' = tokens /\ delivered' = delivered
           /\ AtEnd => Plain(t) = EndToken
           /\ ~AtEnd => Coming[1] = Plain(t)
  <1>1. /\ TypesOfLexer /\ source \in Seq(STRING) /\ delivered \in Seq(TokenSet)
        /\ currentToken \in TokenSet /\ EndKnown /\ at \in Places
        /\ TokensFrom[at.offset] \in Seq(PlainTokens)
    BY AtPlace, TokensFromType DEF IInv, TypesOfLexer
  <1>2. CASE hasPeeked
    <2>1. answer' = <<"peek", currentToken>> /\ tokens' = tokens /\ delivered' = delivered
      BY <1>2 DEF peek, Answer
    <2>2. AtEnd => Plain(currentToken) = EndToken
      BY <1>1, <1>2 DEF EndKnown
    <2>3. ~AtEnd => Coming[1] = Plain(currentToken)
      BY <1>1, <1>2, ComingType DEF Coming
    <2> QED BY <1>1, <2>1, <2>2, <2>3
  <1>3. CASE ~hasPeeked
    <2>1. Scan("peek")
      BY <1>3 DEF peek
    <2>2. answer' = <<"peek", Scanned>> /\ tokens' = tokens
      BY <2>1, ScanStep
    <2>3. delivered' = delivered
      BY <2>1 DEF Scan, Answer
    <2>4. /\ Scanned \in TokenSet /\ Scanned.kind = advanceToken(at.offset).kind
          /\ Scanned.kind = "EndOfFile" => Plain(Scanned) = EndToken
          /\ at.offset = Len(source) => Scanned.kind = "EndOfFile"
          /\ advanceToken(at.offset).past \in 0..Len(source)
          /\ TokensFrom[at.offset] = RestAfter(Scanned, TokensFrom[advanceToken(at.offset).past])
      BY <1>1, ScanMakes
    <2>5. AtEnd => Plain(Scanned) = EndToken
      BY <1>1, <2>4 DEF EndKnown
    <2>6. ~AtEnd => Coming[1] = Plain(Scanned)
      <3>1. TokensFrom[advanceToken(at.offset).past] \in Seq(PlainTokens)
        BY <1>1, <2>4, TokensFromType
      <3> QED BY <1>1, <1>3, <2>4, <3>1, ComingType DEF Coming
    <2> QED BY <2>2, <2>3, <2>4, <2>5, <2>6
  <1> QED BY <1>2, <1>3

Seen(a) == IF a = << >> THEN << >> ELSE <<a[1], Plain(a[2])>>

LEMMA SeenPair ==
  ASSUME NEW call, NEW t
  PROVE  Seen(<<call, t>>) = <<call, Plain(t)>>
  BY DEF Seen

(* Every step of the lexer is a step of the stream.                        *)
LEMMA StepsOfStream ==
  ASSUME IInv, [Next]_lexVars
  PROVE  [Stream!Next \/ Stream!Peek]_<<tokens, Len(delivered), Seen(answer)>>
  <1>1. CASE next
    <2>1. PICK t \in TokenSet :
           /\ answer' = <<"next", t>> /\ tokens' = tokens
           /\ Len(delivered') = IF AtEnd THEN Len(delivered) ELSE Len(delivered) + 1
           /\ AtEnd => Plain(t) = EndToken
           /\ ~AtEnd => Coming[1] = Plain(t)
      BY <1>1, NextAnswers
    <2>2. /\ Plain(t) = tokens[IF Len(delivered) = Len(tokens) THEN Len(delivered)
                               ELSE Len(delivered) + 1]
          /\ Len(delivered) = Len(tokens) <=> AtEnd
      BY <2>1, AnswerIsComing
    <2>3. Seen(answer') = <<"next", Plain(t)>>
      BY <2>1, SeenPair
    <2>4. Stream!Next
      BY <2>1, <2>2, <2>3 DEF Stream!Next, Stream!Coming, Seen
    <2> QED BY <2>4
  <1>2. CASE peek
    <2>1. PICK t \in TokenSet :
           /\ answer' = <<"peek", t>> /\ tokens' = tokens /\ delivered' = delivered
           /\ AtEnd => Plain(t) = EndToken
           /\ ~AtEnd => Coming[1] = Plain(t)
      BY <1>2, PeekAnswers
    <2>2. /\ Plain(t) = tokens[IF Len(delivered) = Len(tokens) THEN Len(delivered)
                               ELSE Len(delivered) + 1]
      BY <2>1, AnswerIsComing
    <2>3. Seen(answer') = <<"peek", Plain(t)>>
      BY <2>1, SeenPair
    <2>4. Stream!Peek
      BY <2>1, <2>2, <2>3 DEF Stream!Peek, Stream!Coming, Seen
    <2> QED BY <2>4
  <1>3. CASE UNCHANGED lexVars
    BY <1>3 DEF lexVars, Seen
  <1> QED BY <1>1, <1>2, <1>3 DEF Next

(* Lookahead is invisible: the lexer implements the promise of TokenStream *)
(* for every file and every order of peek() and next().                    *)
THEOREM LookaheadInvisible == Spec => StreamKept
  <1>1. Init => Stream!Start
    BY DEF Init, Stream!Start
  <1>2. IInv /\ [Next]_lexVars =>
          [Stream!Next \/ Stream!Peek]_<<tokens, Len(delivered), Seen(answer)>>
    BY StepsOfStream
  <1>3. IInv /\ [Next]_lexVars =>
          [Stream!Next \/ Stream!Peek]_<<tokens, Len(delivered),
             IF answer = << >> THEN << >> ELSE <<answer[1], Plain(answer[2])>>>>
    BY <1>2 DEF Seen
  <1> QED BY <1>1, <1>3, Inductive, PTL DEF Spec, StreamKept, Stream!Promise
-----------------------------------------------------------------------------
(* The carets: printSourceLine, which counts the lines of the file anew,   *)
(* comes to the line and the column that nextChar() has counted.           *)

(* A place on a line that has characters: all but the end of such files.   *)
Shown(o) == o < Len(source) \/ (source # << >> /\ Last(source) # "\n")

LEMMA LineStartShown ==
  ASSUME source \in Seq(STRING), NEW o \in 0..Len(source), Shown(o)
  PROVE  LineStartAt(o) \in 0..(Len(source) - 1)
  <1>1. Len(source) \in Nat /\ LineStartAt(o) \in 0..o
    BY LenProperties, LineStartBounds
  <1>2. CASE o < Len(source)
    BY <1>1, <1>2
  <1>3. CASE o = Len(source)
    <2>1. source # << >> /\ source[Len(source)] # "\n"
      BY <1>1, <1>3 DEF Shown, Last
    <2>2. Len(source) # 0
      BY <2>1, EmptySeq
    <2>3. LineStartAt(o) # Len(source)
      <3>1. Len(source) \notin NewlinesBefore(source, o)
        BY <2>1 DEF NewlinesBefore
      <3> QED BY <2>2, <3>1, LineStartBounds
    <2> QED BY <1>1, <1>3, <2>3
  <1> QED BY <1>1, <1>2, <1>3

LEMMA LineFound ==
  ASSUME source \in Seq(STRING), NEW o \in 0..Len(source), Shown(o)
  PROVE  lineStart(source, PlaceAt(o).line) = LineStartAt(o)
  <1> DEFINE count(i) == 1 + Cardinality(NewlinesBefore(source, i))
             offsets == {i \in 0..(Len(source) - 1) : count(i) = PlaceAt(o).line}
             s == LineStartAt(o)
  <1>1. /\ Len(source) \in Nat /\ s \in 0..(Len(source) - 1) /\ s \in 0..o /\ o \in Nat
        /\ s \in 0..Len(source)
    BY LenProperties, LineStartShown, LineStartBounds
  <1>2. PlaceAt(o).line = count(o)
    BY PlaceParts
  <1>3. s \in offsets
    <2>1. NewlinesBefore(source, s) = NewlinesBefore(source, o)
      <3>1. \A j \in 1..o : source[j] = "\n" => j <= s
        BY LineStartBounds DEF NewlinesBefore
      <3>2. \A j : j \in 1..o /\ source[j] = "\n" <=> j \in 1..s /\ source[j] = "\n"
        BY <1>1, <3>1
      <3> QED BY <3>2 DEF NewlinesBefore
    <2> QED BY <1>1, <1>2, <2>1
  <1>4. ASSUME NEW i \in offsets, i < s
        PROVE  FALSE
    <2>1. i \in 0..Len(source) /\ i \in Nat /\ s \in NewlinesBefore(source, o)
      BY <1>1, <1>4, LineStartBounds
    <2>2. s \notin NewlinesBefore(source, i)
      BY <1>4, <2>1, <1>1 DEF NewlinesBefore
    <2>3. NewlinesBefore(source, i) \in SUBSET NewlinesBefore(source, o)
      BY <1>1, <1>4, <2>1 DEF NewlinesBefore
    <2>4. IsFiniteSet(NewlinesBefore(source, o))
      BY NewlinesFinite
    <2>5. /\ Cardinality(NewlinesBefore(source, i)) \in Nat
          /\ Cardinality(NewlinesBefore(source, o)) \in Nat
      BY <2>1, NewlinesFinite
    <2>6. Cardinality(NewlinesBefore(source, i)) # Cardinality(NewlinesBefore(source, o))
      BY <2>1, <2>2, <2>3, <2>4, FS_Subset
    <2>7. count(i) = count(o)
      BY <1>2
    <2> QED BY <2>5, <2>6, <2>7
  <1>5. \A i \in offsets : s <= i
    BY <1>1, <1>4
  <1>6. lineStart(source, PlaceAt(o).line)
          = IF offsets = {} THEN 0 ELSE CHOOSE i \in offsets : \A j \in offsets : i <= j
    BY DEF lineStart
  <1>7. offsets \subseteq Nat
    BY <1>1
  <1> HIDE DEF offsets, s
  <1>8. \A i \in offsets : (\A j \in offsets : i <= j) => i = s
    BY <1>3, <1>5, <1>7
  <1>9. \E i \in offsets : \A j \in offsets : i <= j
    BY <1>3, <1>5
  <1>10. offsets # {}
    BY <1>3
  <1>11. (CHOOSE i \in offsets : \A j \in offsets : i <= j) = s
    BY <1>8, <1>9, Zenon
  <1> QED BY <1>6, <1>10, <1>11 DEF s

LEMMA LineReaches ==
  ASSUME source \in Seq(STRING), NEW o \in 0..Len(source)
  PROVE  o <= lineEnd(source, LineStartAt(o))
  <1> DEFINE s == LineStartAt(o)
             newlines == {i \in s..(Len(source) - 1) : source[i + 1] = "\n"}
  <1>1. Len(source) \in Nat /\ s \in 0..o /\ o \in Nat /\ s \in Nat
    BY LenProperties, LineStartBounds
  <1>2. ASSUME NEW i \in newlines
        PROVE  o <= i
    <2>1. i \in Nat /\ s <= i /\ source[i + 1] = "\n"
      BY <1>1
    <2>2. ASSUME i + 1 <= o
          PROVE  FALSE
      <3>1. i + 1 \in NewlinesBefore(source, o)
        BY <1>1, <2>1, <2>2 DEF NewlinesBefore
      <3>2. i + 1 <= s
        BY <3>1, LineStartBounds
      <3> QED BY <1>1, <2>1, <3>2
    <2> QED BY <1>1, <2>1, <2>2
  <1>3. lineEnd(source, s) =
          IF newlines = {} THEN Len(source)
          ELSE CHOOSE i \in newlines : \A j \in newlines : i <= j
    BY DEF lineEnd
  <1>4. CASE newlines = {}
    BY <1>1, <1>3, <1>4
  <1>5. CASE newlines # {}
    <2>1. newlines \subseteq Nat
      BY <1>1
    <2>2. \E i \in newlines : \A j \in newlines : i <= j
      <3> HIDE DEF newlines
      <3> QED BY <1>5, <2>1, LeastOf
    <2>3. (CHOOSE i \in newlines : \A j \in newlines : i <= j) \in newlines
      <3> HIDE DEF newlines
      <3> QED BY <2>2, Zenon
    <2> QED BY <1>2, <1>3, <1>5, <2>3
  <1> QED BY <1>4, <1>5

LEMMA AllElements ==
  ASSUME NEW S, NEW q \in Seq(S)
  PROVE  \A k \in DOMAIN q : q[k] \in S
  <1>1. DOMAIN q = 1..Len(q) /\ q \in [1..Len(q) -> S]
    BY LenProperties
  <1> QED BY <1>1

LEMMA CaretAtPlace ==
  ASSUME source \in Seq(STRING), NEW o \in 0..Len(source), Shown(o)
  PROVE  CaretBelow(PlaceAt(o))
  <1>1. lineStart(source, PlaceAt(o).line) = LineStartAt(o)
    BY LineFound
  <1>2. PlaceAt(o).offset = o /\ PlaceAt(o).column = (o - LineStartAt(o)) + 1
    BY PlaceParts
  <1>3. LineStartAt(o) \in Nat /\ o \in Nat
    BY LenProperties, LineStartBounds
  <1>4. caret(source, PlaceAt(o)) = o
    BY <1>1, <1>2, <1>3 DEF caret
  <1>5. o <= lineEnd(source, LineStartAt(o))
    BY LineReaches
  <1> QED BY <1>1, <1>2, <1>4, <1>5 DEF CaretBelow

(* Every token that was made, and every report, is where it belongs.       *)
Standing ==
  /\ \A t \in ToSet(delivered) : Stands(t)
  /\ hasPeeked => Stands(currentToken)
  /\ \A loc \in Reported : StandsAt(loc.offset, "Unknown", << >>)

LEMMA StandsOn ==
  ASSUME source' = source
  PROVE  /\ \A p, kind, text : StandsAt(p, kind, text)' <=> StandsAt(p, kind, text)
         /\ \A t : Stands(t)' <=> Stands(t)
  <1>1. /\ \A p : isAtEnd(p)' <=> isAtEnd(p)
        /\ \A p : charAt(p)' = charAt(p)
        /\ \A p, q : Spelled(p, q)' = Spelled(p, q)
    BY DEF isAtEnd, charAt, Spelled
  <1>3. /\ \A p : BreaksOff(p)' <=> BreaksOff(p)
        /\ \A c : Meaningless(c)' <=> Meaningless(c)
    BY <1>1 DEF BreaksOff, Meaningless
  <1>2. ASSUME NEW p, NEW kind, NEW text
        PROVE  StandsAt(p, kind, text)' <=> StandsAt(p, kind, text)
    BY <1>1, <1>3, Zenon DEF StandsAt
  <1> QED BY <1>2 DEF Stands

LEMMA ToldAsUnknown ==
  ASSUME NEW t, Stands(t), t.kind = "Unknown"
  PROVE  StandsAt(t.loc.offset, "Unknown", << >>)
  BY DEF Stands, StandsAt

(* A call that scans.                                                      *)
LEMMA ScanStands ==
  ASSUME IInv, Standing, NEW call, Scan(call)
  PROVE  /\ Stands(Scanned)
         /\ \A loc : loc \in Reported' => StandsAt(loc.offset, "Unknown", << >>)
  <1>1. TypesOfLexer
    BY DEF IInv
  <1>2. Stands(Scanned) /\ Scanned.kind = advanceToken(at.offset).kind
    BY <1>1, ScanMakes
  <1>3. \A loc : loc \in Reported' => loc \in Reported \cup {Scanned.loc}
    BY ScanStep DEF Reported
  <1>4. CASE Scanned.kind = "Unknown"
    BY <1>2, <1>3, <1>4, ToldAsUnknown DEF Standing
  <1>5. CASE Scanned.kind # "Unknown"
    <2>1. diagnostics' = diagnostics
      BY <1>2, <1>5 DEF Scan
    <2> QED BY <1>2, <2>1 DEF Standing, Reported
  <1> QED BY <1>4, <1>5

LEMMA StandingKept ==
  ASSUME IInv, Standing, [Next]_lexVars
  PROVE  Standing'
  <1>1. delivered \in Seq(TokenSet) /\ currentToken \in TokenSet /\ TypesOfLexer
    BY DEF IInv, TypesOfLexer
  <1>2. source' = source
    BY DEF Next, next, peek, Scan, Answer, lexVars
  <1>3. \A t \in TokenSet : ToSet(Append(delivered, t)) \subseteq ToSet(delivered) \cup {t}
    <2> TAKE t \in TokenSet
    <2>1. /\ Append(delivered, t) \in Seq(TokenSet)
          /\ Len(Append(delivered, t)) = Len(delivered) + 1 /\ Len(delivered) \in Nat
          /\ \A k \in 1..Len(delivered) : Append(delivered, t)[k] = delivered[k]
          /\ Append(delivered, t)[Len(delivered) + 1] = t
          /\ DOMAIN delivered = 1..Len(delivered)
      BY <1>1, AppendProperties, LenProperties
    <2>2. DOMAIN Append(delivered, t) = 1..(Len(delivered) + 1)
      BY <2>1, LenProperties
    <2>3. ASSUME NEW k \in DOMAIN Append(delivered, t)
          PROVE  Append(delivered, t)[k] \in ToSet(delivered) \cup {t}
      <3>1. k \in 1..Len(delivered) \/ k = Len(delivered) + 1
        BY <2>1, <2>2
      <3> QED BY <2>1, <3>1 DEF ToSet
    <2> QED BY <2>3 DEF ToSet
  <1>4. CASE next /\ hasPeeked
    <2>1. /\ diagnostics' = diagnostics /\ hasPeeked' = FALSE
          /\ delivered' = IF ~AtEnd THEN Append(delivered, currentToken) ELSE delivered
      BY <1>4 DEF next, Answer
    <2>2. \A t \in ToSet(delivered') : Stands(t)
      BY <1>1, <1>3, <1>4, <2>1 DEF Standing
    <2>3. \A loc \in Reported' : StandsAt(loc.offset, "Unknown", << >>)
      BY <2>1 DEF Standing, Reported
    <2> QED BY <1>2, <2>1, <2>2, <2>3, StandsOn DEF Standing
  <1>5. CASE next /\ ~hasPeeked
    <2>1. Scan("next") /\ hasPeeked' = hasPeeked
      BY <1>5 DEF next
    <2>2. /\ Stands(Scanned) /\ \A loc : loc \in Reported' => StandsAt(loc.offset, "Unknown", << >>)
      BY <2>1, ScanStands
    <2>3. delivered' = IF ~AtEnd THEN Append(delivered, Scanned) ELSE delivered
      BY <2>1, ScanStep
    <2>4. Scanned \in TokenSet
      BY <1>1, ScanMakes
    <2>5. \A t \in ToSet(delivered') : Stands(t)
      BY <1>3, <2>2, <2>3, <2>4 DEF Standing
    <2> QED BY <1>2, <1>5, <2>1, <2>2, <2>5, StandsOn DEF Standing
  <1>6. CASE peek /\ hasPeeked
    <2>1. /\ diagnostics' = diagnostics /\ currentToken' = currentToken /\ delivered' = delivered
          /\ hasPeeked' = hasPeeked
      BY <1>6 DEF peek, Answer
    <2> QED BY <1>2, <2>1, StandsOn DEF Standing, Reported
  <1>7. CASE peek /\ ~hasPeeked
    <2>1. Scan("peek") /\ currentToken' = answer'[2] /\ hasPeeked' = TRUE
      BY <1>7 DEF peek
    <2>2. /\ Stands(Scanned) /\ \A loc : loc \in Reported' => StandsAt(loc.offset, "Unknown", << >>)
      BY <2>1, ScanStands
    <2>3. delivered' = IF "peek" = "next" /\ ~AtEnd THEN Append(delivered, Scanned)
                       ELSE delivered
      BY <2>1, ScanStep
    <2>4. answer' = <<"peek", Scanned>>
      BY <2>1, ScanStep
    <2>5. currentToken' = Scanned /\ delivered' = delivered
      BY <2>1, <2>3, <2>4
    <2> QED BY <1>2, <2>2, <2>5, StandsOn DEF Standing
  <1>8. CASE UNCHANGED lexVars
    <2>1. UNCHANGED <<source, currentToken, hasPeeked, diagnostics, delivered>>
      BY <1>8 DEF lexVars
    <2> QED BY <2>1, StandsOn DEF Standing, Reported
  <1> QED BY <1>4, <1>5, <1>6, <1>7, <1>8 DEF Next

(* Every report that is printed, and every place that a token brings to    *)
(* the passes behind, has its caret where StandsAt says: below the first   *)
(* character of a token with a text, one behind the quote of a literal or  *)
(* behind an unexpected character, or where a literal breaks off.  The     *)
(* empty last line of a file that ends with a newline is left out.         *)
THEOREM CaretsStandBelow == Spec => []CaretsPoint
  <1>1. ASSUME IInv, Standing
        PROVE  CaretsPoint
    <2>1. /\ source \in Seq(STRING) /\ delivered \in Seq(TokenSet)
          /\ diagnostics \in Seq([level : {"error"}, loc : Places])
      BY <1>1 DEF IInv, TypesOfLexer
    <2>2. Reported \subseteq Places
      <3>1. \A k \in DOMAIN diagnostics : diagnostics[k] \in [level : {"error"}, loc : Places]
        BY <2>1, AllElements
      <3> QED BY <3>1 DEF Reported
    <2>3. \A k \in DOMAIN delivered : delivered[k].loc \in Places
      <3>1. \A k \in DOMAIN delivered : delivered[k] \in TokenSet
        BY <2>1, AllElements
      <3> QED BY <3>1 DEF TokenSet
    <2>4. ASSUME NEW loc \in Places, Printed(loc)
          PROVE  CaretBelow(loc) /\ caret(source, loc) = loc.offset
      <3>1. loc.offset \in 0..Len(source) /\ loc = PlaceAt(loc.offset)
        BY <2>1, AtPlace
      <3>2. Shown(loc.offset)
        BY <2>4 DEF Shown, Printed
      <3>3. CaretBelow(PlaceAt(loc.offset))
        BY <2>1, <3>1, <3>2, CaretAtPlace
      <3> QED BY <3>1, <3>3 DEF CaretBelow
    <2>5. ASSUME NEW loc \in Reported, Printed(loc)
          PROVE  CaretBelow(loc) /\ StandsAt(caret(source, loc), "Unknown", << >>)
      BY <1>1, <2>2, <2>4, <2>5 DEF Standing
    <2>6. ASSUME NEW k \in DOMAIN delivered, Printed(delivered[k].loc)
          PROVE  /\ CaretBelow(delivered[k].loc)
                 /\ StandsAt(caret(source, delivered[k].loc), delivered[k].kind, delivered[k].text)
      <3>1. Stands(delivered[k])
        BY <1>1 DEF Standing, ToSet
      <3> QED BY <2>3, <2>4, <2>6, <3>1 DEF Stands
    <2> QED BY <2>5, <2>6 DEF CaretsPoint
  <1>2. Init => Standing
    BY DEF Init, Standing, Reported, ToSet
  <1>3. IInv /\ Standing /\ [Next]_lexVars => Standing'
    BY StandingKept
  <1> QED BY <1>1, <1>2, <1>3, Inductive, PTL DEF Spec

-----------------------------------------------------------------------------
(* Longest lexemes.                                                        *)

(* A part of the source and its characters.                                *)
LEMMA Indexed ==
  ASSUME source \in Seq(STRING), NEW p \in Nat, NEW e \in Nat,
         p < e, e <= Len(source)
  PROVE  LET s == SubSeq(source, p + 1, e)
         IN  /\ s \in Seq(STRING) /\ Len(s) = e - p /\ DOMAIN s = 1..(e - p)
             /\ \A k \in 1..(e - p) : s[k] = charAt(p + k - 1)
             /\ \A r \in p..(e - 1) : r - p + 1 \in 1..(e - p) /\ s[r - p + 1] = charAt(r)
  <1> DEFINE s == SubSeq(source, p + 1, e)
  <1>1. Len(source) \in Nat /\ \A k \in (p + 1)..e : source[k] \in STRING
    <2>1. Len(source) \in Nat
      BY LenProperties
    <2>2. \A k \in (p + 1)..e : k \in 1..Len(source)
      BY <2>1
    <2> QED BY <2>1, <2>2, ElementOfSeq
  <1>2. /\ s \in Seq(STRING) /\ Len(s) = e - (p + 1) + 1
        /\ \A k \in 1..(e - (p + 1) + 1) : s[k] = source[(p + 1) + k - 1]
    <2>1. p + 1 \in Int /\ e \in Int /\ p + 1 <= e
      OBVIOUS
    <2> QED BY <1>1, <2>1, SubSeqProperties
  <1>3. e - (p + 1) + 1 = e - p /\ \A k \in 1..(e - p) : (p + 1) + k - 1 = (p + k - 1) + 1
    OBVIOUS
  <1>4. DOMAIN s = 1..Len(s)
    BY <1>2, LenProperties
  <1> HIDE DEF s
  <1>5. \A k \in 1..(e - p) : s[k] = charAt(p + k - 1)
    BY <1>2, <1>3 DEF charAt
  <1>6. ASSUME NEW r \in p..(e - 1)
        PROVE  r - p + 1 \in 1..(e - p) /\ s[r - p + 1] = charAt(r)
    <2>1. r - p + 1 \in 1..(e - p) /\ p + (r - p + 1) - 1 = r
      OBVIOUS
    <2> QED BY <1>5, <2>1
  <1> QED BY <1>2, <1>3, <1>4, <1>5, <1>6 DEF s

LEMMA FewDots ==
  ASSUME NEW n \in Nat, NEW D \in SUBSET (1..n)
  PROVE  Cardinality(D) <= 1 <=> \A j, k \in D : j = k
  <1>1. IsFiniteSet(D) /\ Cardinality(D) \in Nat
    <2>1. IsFiniteSet(1..n)
      BY FS_Interval
    <2> QED BY <2>1, FS_Subset, FS_CardinalityType
  <1>2. ASSUME \A j, k \in D : j = k
        PROVE  Cardinality(D) <= 1
    <2>1. CASE D = {}
      BY <2>1, FS_EmptySet
    <2>2. CASE D # {}
      <3>1. PICK d \in D : TRUE
        BY <2>2
      <3>2. D = {d}
        BY <1>2, <3>1
      <3>3. Cardinality({d}) = 1
        BY FS_Singleton
      <3> QED BY <3>2, <3>3
    <2> QED BY <2>1, <2>2
  <1>3. ASSUME Cardinality(D) <= 1, NEW j \in D, NEW k \in D
        PROVE  j = k
    <2>1. Cardinality(D) # 0
      BY <1>1, FS_EmptySet
    <2>2. Cardinality(D) = 1
      BY <1>1, <1>3, <2>1
    <2>3. \E x : D = {x}
      BY <1>1, <2>2, FS_Singleton
    <2> QED BY <2>3
  <1> QED BY <1>2, <1>3

(* What makes the characters from p to e - 1 a lexeme.                     *)
Name(p, e) ==
  charAt(p) \in Letters /\ \A r \in p..(e - 1) : charAt(r) \in Letters \cup Digits
Number(p, e) ==
  /\ charAt(p) \in Digits /\ charAt(e - 1) \in Digits
  /\ \A r \in p..(e - 1) : charAt(r) \in Digits \cup {"."}
  /\ \A r, t \in p..(e - 1) : charAt(r) = "." /\ charAt(t) = "." => r = t
Operator(p, e) ==
  \/ e = p + 1 /\ charAt(p) \in Punctuators
  \/ e = p + 2 /\ charAt(p + 1) \in Second(charAt(p))

LEMMA PairsOfCharacters ==
  ASSUME NEW a, NEW b
  PROVE  <<a, b>> \in Operators <=> b \in Second(a)
  <1>1. <<a, b>> \in Operators <=>
          <<a, b>> \in {<<"+", "+">>, <<"-", "-">>, <<"+", "=">>, <<"-", "=">>, <<"*", "=">>,
            <<"/", "=">>, <<"=", "=">>, <<"!", "=">>, <<"<", "=">>, <<">", "=">>, <<"<", "<">>,
            <<">", ">">>, <<"&", "&">>, <<"|", "|">>, <<"-", ">">>, <<":", ":">>}
    <2>1. \A c : <<a, b>> # <<c>>
      OBVIOUS
    <2> QED BY <2>1 DEF Operators
  <1> QED BY <1>1 DEF Second

LEMMA OperatorAt ==
  ASSUME source \in Seq(STRING), NEW p \in Nat, NEW e \in Nat,
         p < e, e <= Len(source)
  PROVE  SubSeq(source, p + 1, e) \in Operators <=> Operator(p, e)
  <1> DEFINE s == SubSeq(source, p + 1, e)
  <1>1. /\ s \in Seq(STRING) /\ Len(s) = e - p
        /\ \A k \in 1..(e - p) : s[k] = charAt(p + k - 1)
    BY Indexed
  <1> HIDE DEF s
  <1>2. CASE e = p + 1
    <2>1. Len(s) = 1 /\ s[1] = charAt(p)
      BY <1>1, <1>2
    <2>2. s = <<charAt(p)>>
      BY <1>1, <2>1
    <2>3. <<charAt(p)>> \in Operators <=> charAt(p) \in Punctuators
      <3>1. \A a, b : <<charAt(p)>> # <<a, b>>
        OBVIOUS
      <3> QED BY <3>1 DEF Operators
    <2>4. Operator(p, e) <=> charAt(p) \in Punctuators
      BY <1>2 DEF Operator
    <2> QED BY <2>2, <2>3, <2>4 DEF s
  <1>3. CASE e = p + 2
    <2>1. Len(s) = 2 /\ s[1] = charAt(p) /\ s[2] = charAt(p + 1)
      BY <1>1, <1>3
    <2>2. s = <<charAt(p), charAt(p + 1)>>
      BY <1>1, <2>1
    <2>3. Operator(p, e) <=> charAt(p + 1) \in Second(charAt(p))
      BY <1>3 DEF Operator
    <2> QED BY <2>2, <2>3, PairsOfCharacters DEF s
  <1>4. CASE e > p + 2
    <2>1. Len(s) # 1 /\ Len(s) # 2
      BY <1>1, <1>4
    <2>2. \A o \in Operators : Len(o) = 1 \/ Len(o) = 2
      BY DEF Operators
    <2>3. ~Operator(p, e)
      BY <1>4 DEF Operator
    <2> QED BY <2>1, <2>2, <2>3 DEF s
  <1> QED BY <1>2, <1>3, <1>4

LEMMA LexemeAt ==
  ASSUME source \in Seq(STRING), NEW p \in Nat, NEW e \in Nat,
         p < e, e <= Len(source)
  PROVE  IsLexeme(SubSeq(source, p + 1, e)) <=>
           Operator(p, e) \/ Name(p, e) \/ Number(p, e)
  <1> DEFINE s == SubSeq(source, p + 1, e)
             dots == {k \in DOMAIN s : s[k] = "."}
  <1>1. /\ s \in Seq(STRING) /\ Len(s) = e - p /\ DOMAIN s = 1..(e - p)
        /\ \A k \in 1..(e - p) : s[k] = charAt(p + k - 1)
        /\ \A r \in p..(e - 1) : r - p + 1 \in 1..(e - p) /\ s[r - p + 1] = charAt(r)
    BY Indexed
  <1>2. s \in Operators <=> Operator(p, e)
    BY OperatorAt
  <1>3. Last(s) = s[e - p]
    BY <1>1 DEF Last
  <1> HIDE DEF s
  <1>4. s[1] = charAt(p) /\ s[e - p] = charAt(e - 1)
    <2>1. 1 \in 1..(e - p) /\ e - p \in 1..(e - p) /\ p + 1 - 1 = p /\ p + (e - p) - 1 = e - 1
      OBVIOUS
    <2> QED BY <1>1, <2>1
  <1>5. ASSUME NEW S
        PROVE  (\A k \in DOMAIN s : s[k] \in S) <=> (\A r \in p..(e - 1) : charAt(r) \in S)
    <2>1. \A k \in 1..(e - p) : p + k - 1 \in p..(e - 1)
      OBVIOUS
    <2> QED BY <1>1, <2>1
  <1>6. Cardinality(dots) <= 1 <=>
          \A r, t \in p..(e - 1) : charAt(r) = "." /\ charAt(t) = "." => r = t
    <2>1. Cardinality(dots) <= 1 <=> \A j, k \in dots : j = k
      <3>1. e - p \in Nat /\ dots \in SUBSET (1..(e - p))
        BY <1>1
      <3> HIDE DEF dots
      <3> QED BY <3>1, FewDots
    <2>2. ASSUME \A j, k \in dots : j = k, NEW r \in p..(e - 1), NEW t \in p..(e - 1),
                 charAt(r) = ".", charAt(t) = "."
          PROVE  r = t
      <3>1. r - p + 1 \in dots /\ t - p + 1 \in dots
        BY <1>1, <2>2
      <3>2. r - p + 1 = t - p + 1
        BY <2>2, <3>1
      <3> QED BY <3>2
    <2>3. ASSUME \A r, t \in p..(e - 1) : charAt(r) = "." /\ charAt(t) = "." => r = t,
                 NEW j \in dots, NEW k \in dots
          PROVE  j = k
      <3>1. /\ j \in 1..(e - p) /\ k \in 1..(e - p)
            /\ charAt(p + j - 1) = "." /\ charAt(p + k - 1) = "."
        BY <1>1
      <3>2. p + j - 1 \in p..(e - 1) /\ p + k - 1 \in p..(e - 1)
        BY <3>1
      <3>3. p + j - 1 = p + k - 1
        BY <2>3, <3>1, <3>2
      <3> QED BY <3>1, <3>3
    <2> QED BY <2>1, <2>2, <2>3
  <1>7. IsLexeme(s) <=>
          \/ s \in Operators
          \/ s[1] \in Letters /\ \A k \in DOMAIN s : s[k] \in Letters \cup Digits
          \/ /\ s[1] \in Digits /\ Last(s) \in Digits
             /\ \A k \in DOMAIN s : s[k] \in Digits \cup {"."}
             /\ Cardinality(dots) <= 1
    BY DEF IsLexeme
  <1>8. (\A k \in DOMAIN s : s[k] \in Letters \cup Digits) <=>
          \A r \in p..(e - 1) : charAt(r) \in Letters \cup Digits
    BY <1>5
  <1>9. (\A k \in DOMAIN s : s[k] \in Digits \cup {"."}) <=>
          \A r \in p..(e - 1) : charAt(r) \in Digits \cup {"."}
    BY <1>5
  <1> HIDE DEF dots
  <1> QED BY <1>2, <1>3, <1>4, <1>6, <1>7, <1>8, <1>9 DEF s, Name, Number

(* The end of the longest one.                                             *)
LEMMA LongestIs ==
  ASSUME NEW n \in Nat, NEW p \in Nat, NEW ends, ends \subseteq (p + 1)..n,
         NEW q \in ends, \A r \in ends : r <= q
  PROVE  (IF ends = {} THEN p ELSE CHOOSE x \in ends : \A r \in ends : r <= x) = q
  <1>1. \A x \in ends : (\A r \in ends : r <= x) => x = q
    <2> SUFFICES ASSUME NEW x \in ends, \A r \in ends : r <= x PROVE x = q
      OBVIOUS
    <2>1. x <= q /\ q <= x /\ x \in Int /\ q \in Int
      OBVIOUS
    <2> QED BY <2>1
  <1>2. ends # {}
    OBVIOUS
  <1> QED BY <1>1, <1>2

LexemeEnds(p) == {q \in (p + 1)..Len(source) : IsLexeme(SubSeq(source, p + 1, q))}

LEMMA LongestLexeme ==
  ASSUME source \in Seq(STRING), NEW p \in 0..Len(source)
  PROVE  /\ LexemeEnds(p) = {q \in (p + 1)..Len(source) :
                               Operator(p, q) \/ Name(p, q) \/ Number(p, q)}
         /\ LexemeEnds(p) = {} => Longest(p, IsLexeme) = p
         /\ \A q \in LexemeEnds(p) :
              (\A r \in LexemeEnds(p) : r <= q) => Longest(p, IsLexeme) = q
  <1>1. Len(source) \in Nat /\ p \in Nat
    BY LenProperties
  <1>2. ASSUME NEW q \in (p + 1)..Len(source)
        PROVE  IsLexeme(SubSeq(source, p + 1, q)) <=>
                 Operator(p, q) \/ Name(p, q) \/ Number(p, q)
    <2>1. q \in Nat /\ p < q /\ q <= Len(source)
      BY <1>1
    <2> QED BY <1>1, <2>1, LexemeAt
  <1>3. Longest(p, IsLexeme) = IF LexemeEnds(p) = {} THEN p
          ELSE CHOOSE x \in LexemeEnds(p) : \A r \in LexemeEnds(p) : r <= x
    BY DEF Longest, LexemeEnds
  <1>4. LexemeEnds(p) \subseteq (p + 1)..Len(source)
    BY DEF LexemeEnds
  <1>5. ASSUME NEW q \in LexemeEnds(p), \A r \in LexemeEnds(p) : r <= q
        PROVE  Longest(p, IsLexeme) = q
    BY ONLY <1>1, <1>3, <1>4, <1>5, LongestIs
  <1>6. LexemeEnds(p) = {} => Longest(p, IsLexeme) = p
    BY <1>3
  <1>7. LexemeEnds(p) = {q \in (p + 1)..Len(source) :
                               Operator(p, q) \/ Name(p, q) \/ Number(p, q)}
    BY <1>2 DEF LexemeEnds
  <1> QED BY <1>5, <1>6, <1>7

-----------------------------------------------------------------------------
(* advanceToken takes the longest lexeme.                                  *)

(* x is the lexeme from p to the place behind its last character.          *)
LexemeOf(x, p) ==
  /\ x.kind \notin {"EndOfFile", "Unknown"} /\ x.place = p
  /\ x.past \in (p + 1)..Len(source)
  /\ x.text = SubSeq(source, p + 1, x.past)
  /\ Longest(p, IsLexeme) = x.past

LEMMA NamesAreLongest ==
  ASSUME source \in Seq(STRING), NEW p \in 0..Len(source), Holds(p, Letters)
  PROVE  LexemeOf(identifierOrKeyword(p), p)
  <1>1. Len(source) \in Nat /\ p < Len(source) /\ charAt(p) \in Letters /\ p \in Nat
    BY LenProperties DEF Holds, isAtEnd
  <1> DEFINE q == RunOf(p, Letters \cup Digits)
  <1>2. /\ q \in p..Len(source)
        /\ isAtEnd(q) \/ charAt(q) \notin Letters \cup Digits
        /\ \A r \in p..(q - 1) : charAt(r) \in Letters \cup Digits
    BY RunBounds
  <1>3. q # p
    BY <1>1, <1>2 DEF isAtEnd
  <1>4. identifierOrKeyword(p) =
          Lexeme(IF Spelled(p, q) \in Keywords THEN "Keyword" ELSE "Identifier",
                 p, Spelled(p, q), q)
    BY DEF identifierOrKeyword, RunOf
  <1> HIDE DEF q
  <1>5. q \in (p + 1)..Len(source)
    BY <1>1, <1>2, <1>3
  <1>6. q \in LexemeEnds(p)
    BY <1>1, <1>2, <1>5, LongestLexeme DEF Name
  <1>7. ASSUME NEW e \in LexemeEnds(p)
        PROVE  e <= q
    <2>1. /\ e \in (p + 1)..Len(source)
          /\ Operator(p, e) \/ Name(p, e) \/ Number(p, e)
      BY <1>7, LongestLexeme
    <2>2. charAt(p) \notin Punctuators /\ charAt(p) \notin Digits
      BY <1>1, ClassesAssumption
    <2>3. charAt(p) \in {"+", "-", "*", "/", "=", "!", "<", ">", "&", "|", ":"}
            \/ Second(charAt(p)) = {}
      BY DEF Second
    <2>4. Name(p, e)
      BY <2>1, <2>2, <2>3 DEF Operator, Number, Punctuators
    <2>5. q \in p..(e - 1) => charAt(q) \in Letters \cup Digits
      BY <2>4 DEF Name
    <2> QED BY <1>1, <1>2, <1>5, <2>1, <2>5 DEF isAtEnd
  <1>8. Longest(p, IsLexeme) = q
    BY <1>6, <1>7, LongestLexeme
  <1> QED BY <1>4, <1>5, <1>8 DEF LexemeOf, Lexeme, Spelled

LEMMA NumbersAreLongest ==
  ASSUME source \in Seq(STRING), NEW p \in 0..Len(source), Holds(p, Digits)
  PROVE  LexemeOf(number(p), p)
  <1>1. Len(source) \in Nat /\ p < Len(source) /\ charAt(p) \in Digits /\ p \in Nat
    BY LenProperties DEF Holds, isAtEnd
  <1>2. "." \notin Digits
    BY ClassesAssumption DEF Punctuators
  <1> DEFINE q == RunOf(p, Digits)
             more == Holds(q, {"."}) /\ Holds(q + 1, Digits)
             r == IF more THEN RunOf(q + 1, Digits) ELSE q
  <1>3. /\ q \in p..Len(source)
        /\ isAtEnd(q) \/ charAt(q) \notin Digits
        /\ \A j \in p..(q - 1) : charAt(j) \in Digits
    BY RunBounds
  <1>4. q # p
    BY <1>1, <1>3 DEF isAtEnd
  <1>5. number(p) = Lexeme(IF r = q THEN "IntegerLiteral" ELSE "FloatLiteral",
                           p, Spelled(p, r), r)
    BY DEF number, RunOf
  <1>6. more => /\ RunOf(q + 1, Digits) \in (q + 1)..Len(source)
                /\ RunOf(q + 1, Digits) # q + 1
                /\ \/ isAtEnd(RunOf(q + 1, Digits))
                   \/ charAt(RunOf(q + 1, Digits)) \notin Digits
                /\ \A j \in (q + 1)..(RunOf(q + 1, Digits) - 1) : charAt(j) \in Digits
    <2> SUFFICES ASSUME more
                 PROVE  /\ RunOf(q + 1, Digits) \in (q + 1)..Len(source)
                        /\ RunOf(q + 1, Digits) # q + 1
                        /\ \/ isAtEnd(RunOf(q + 1, Digits))
                           \/ charAt(RunOf(q + 1, Digits)) \notin Digits
                        /\ \A j \in (q + 1)..(RunOf(q + 1, Digits) - 1) : charAt(j) \in Digits
      OBVIOUS
    <2>1. q + 1 \in 0..Len(source) /\ ~isAtEnd(q + 1) /\ charAt(q + 1) \in Digits
      BY <1>1, <1>3 DEF Holds, isAtEnd
    <2> HIDE DEF q
    <2>2. /\ RunOf(q + 1, Digits) \in (q + 1)..Len(source)
          /\ \/ isAtEnd(RunOf(q + 1, Digits))
             \/ charAt(RunOf(q + 1, Digits)) \notin Digits
          /\ \A j \in (q + 1)..(RunOf(q + 1, Digits) - 1) : charAt(j) \in Digits
      BY <2>1, RunBounds
    <2> QED BY <2>1, <2>2
  <1> HIDE DEF q
  <1>7. more => /\ r \in (q + 1)..Len(source) /\ r > q + 1
                /\ isAtEnd(r) \/ charAt(r) \notin Digits
                /\ \A j \in (q + 1)..(r - 1) : charAt(j) \in Digits
                /\ charAt(q) = "." /\ charAt(q + 1) \in Digits
    <2> SUFFICES ASSUME more
                 PROVE  /\ r \in (q + 1)..Len(source) /\ r > q + 1
                        /\ isAtEnd(r) \/ charAt(r) \notin Digits
                        /\ \A j \in (q + 1)..(r - 1) : charAt(j) \in Digits
                        /\ charAt(q) = "." /\ charAt(q + 1) \in Digits
      OBVIOUS
    <2>1. r = RunOf(q + 1, Digits) /\ charAt(q) = "." /\ charAt(q + 1) \in Digits
      BY DEF Holds
    <2> HIDE DEF r
    <2> QED BY <1>1, <1>3, <1>6, <2>1
  <1>8. ~more => r = q
    OBVIOUS
  <1> HIDE DEF r, more
  <1>9. r \in (p + 1)..Len(source) /\ r >= q
    BY <1>1, <1>3, <1>4, <1>7, <1>8
  <1>10. Number(p, r)
    <2>1. CASE ~more
      BY <1>1, <1>2, <1>3, <1>8, <1>9, <2>1 DEF Number
    <2>2. CASE more
      <3>1. \A j \in p..(r - 1) : j = q \/ charAt(j) \in Digits
        <4> SUFFICES ASSUME NEW j \in p..(r - 1), j # q PROVE charAt(j) \in Digits
          OBVIOUS
        <4>1. j \in p..(q - 1) \/ j \in (q + 1)..(r - 1)
          BY <1>3, <1>9
        <4> QED BY <1>3, <1>7, <2>2, <4>1
      <3>2. r - 1 \in p..(r - 1) /\ r - 1 # q
        BY <1>1, <1>3, <1>7, <1>9, <2>2
      <3> QED BY <1>1, <1>2, <1>7, <2>2, <3>1, <3>2 DEF Number
    <2> QED BY <2>1, <2>2
  <1>11. r \in LexemeEnds(p)
    BY <1>9, <1>10, LongestLexeme
  <1>12. ASSUME NEW e \in LexemeEnds(p)
         PROVE  e <= r
    <2>1. /\ e \in (p + 1)..Len(source)
          /\ Operator(p, e) \/ Name(p, e) \/ Number(p, e)
      BY <1>12, LongestLexeme
    <2>2. charAt(p) \notin Punctuators /\ charAt(p) \notin Letters
      BY <1>1, ClassesAssumption
    <2>3. charAt(p) \in {"+", "-", "*", "/", "=", "!", "<", ">", "&", "|", ":"}
            \/ Second(charAt(p)) = {}
      BY DEF Second
    <2>4. Number(p, e)
      BY <2>1, <2>2, <2>3 DEF Operator, Name, Punctuators
    <2> SUFFICES ASSUME e > r PROVE FALSE
      BY <1>9, <2>1
    <2>5. /\ q \in p..(e - 1) /\ r \in p..(e - 1) /\ q < Len(source) /\ r < Len(source)
          /\ e - 1 \in p..(e - 1)
      BY <1>1, <1>3, <1>9, <2>1
    <2>6. charAt(q) = "." /\ charAt(q) \notin Digits
      BY <1>3, <2>4, <2>5 DEF Number, isAtEnd
    <2>7. \A j \in p..(e - 1) : j # q => charAt(j) \in Digits
      BY <2>4, <2>5, <2>6 DEF Number
    <2>8. CASE more
      BY <1>1, <1>3, <1>7, <2>5, <2>7, <2>8 DEF isAtEnd
    <2>9. CASE ~more
      <3>1. e - 1 # q
        BY <2>4, <2>6 DEF Number
      <3>2. q + 1 \in p..(e - 1) /\ q + 1 < Len(source)
        BY <1>1, <1>3, <2>1, <2>5, <3>1
      <3>3. charAt(q + 1) \in Digits
        BY <1>3, <2>7, <3>2
      <3> QED BY <1>1, <1>3, <2>5, <2>6, <2>9, <3>2, <3>3 DEF more, Holds, isAtEnd
    <2> QED BY <2>8, <2>9
  <1>13. Longest(p, IsLexeme) = r
    BY <1>11, <1>12, LongestLexeme
  <1> QED BY <1>5, <1>9, <1>13 DEF LexemeOf, Lexeme, Spelled

LEMMA PunctuatorsAreLongest ==
  ASSUME source \in Seq(STRING), NEW p \in 0..Len(source), Holds(p, Punctuators)
  PROVE  LexemeOf(punctuator(p), p)
  <1>1. Len(source) \in Nat /\ p < Len(source) /\ charAt(p) \in Punctuators /\ p \in Nat
    BY LenProperties DEF Holds, isAtEnd
  <1> DEFINE two == Holds(p + 1, Second(charAt(p)))
             q == IF two THEN p + 2 ELSE p + 1
  <1>2. punctuator(p) = Lexeme("Punctuator", p, Spelled(p, q), q)
    BY DEF punctuator
  <1>3. two <=> p + 2 <= Len(source) /\ charAt(p + 1) \in Second(charAt(p))
    BY <1>1 DEF Holds, isAtEnd
  <1>4. two => q = p + 2
    OBVIOUS
  <1>5. ~two => q = p + 1
    OBVIOUS
  <1> HIDE DEF two, q
  <1>6. q \in (p + 1)..Len(source) /\ Operator(p, q)
    <2>1. CASE two
      BY <1>1, <1>3, <1>4, <2>1 DEF Operator
    <2>2. CASE ~two
      BY <1>1, <1>5, <2>2 DEF Operator
    <2> QED BY <2>1, <2>2
  <1>7. q \in LexemeEnds(p)
    BY <1>6, LongestLexeme
  <1>8. ASSUME NEW e \in LexemeEnds(p)
        PROVE  e <= q
    <2>1. /\ e \in (p + 1)..Len(source)
          /\ Operator(p, e) \/ Name(p, e) \/ Number(p, e)
      BY <1>8, LongestLexeme
    <2>2. charAt(p) \notin Digits /\ charAt(p) \notin Letters
      BY <1>1, ClassesAssumption
    <2>3. Operator(p, e)
      BY <2>1, <2>2 DEF Name, Number
    <2>4. CASE e = p + 1
      BY <1>1, <1>6, <2>4
    <2>5. CASE e = p + 2 /\ charAt(p + 1) \in Second(charAt(p))
      <3>1. two
        BY <1>1, <1>3, <2>1, <2>5
      <3> QED BY <1>1, <1>4, <2>5, <3>1
    <2> QED BY <2>3, <2>4, <2>5 DEF Operator
  <1>9. Longest(p, IsLexeme) = q
    BY <1>7, <1>8, LongestLexeme
  <1> QED BY <1>2, <1>6, <1>9 DEF LexemeOf, Lexeme, Spelled

(* Other characters begin no lexeme.                                       *)
LEMMA NothingBegins ==
  ASSUME source \in Seq(STRING), NEW p \in 0..Len(source),
         charAt(p) \notin Letters \cup Digits \cup Punctuators
  PROVE  Longest(p, IsLexeme) = p
  <1>1. ASSUME NEW e \in LexemeEnds(p)
        PROVE  FALSE
    <2>1. Operator(p, e) \/ Name(p, e) \/ Number(p, e)
      BY <1>1, LongestLexeme
    <2>2. charAt(p) \in {"+", "-", "*", "/", "=", "!", "<", ">", "&", "|", ":"}
            \/ Second(charAt(p)) = {}
      BY DEF Second
    <2> QED BY <2>1, <2>2 DEF Operator, Name, Number, Punctuators
  <1>2. LexemeEnds(p) = {}
    BY <1>1
  <1> QED BY <1>2, LongestLexeme

-----------------------------------------------------------------------------
(* Blanks and comments are skipped, and nothing else.                      *)

(* What makes the characters from p to e - 1 a comment.                    *)
LineComment(p, e) ==
  /\ p + 2 <= e /\ charAt(p) = "/" /\ charAt(p + 1) = "/"
  /\ \A r \in p..(e - 1) : charAt(r) # "\n"
Closes(r) == charAt(r) = "*" /\ charAt(r + 1) = "/"
BlockComment(p, e) ==
  /\ p + 4 <= e /\ charAt(p) = "/" /\ charAt(p + 1) = "*"
  /\ Closes(e - 2) /\ \A r \in (p + 2)..(e - 2) : Closes(r) => r = e - 2

LEMMA CommentAt ==
  ASSUME source \in Seq(STRING), NEW p \in Nat, NEW e \in Nat,
         p < e, e <= Len(source)
  PROVE  IsComment(SubSeq(source, p + 1, e)) <=> LineComment(p, e) \/ BlockComment(p, e)
  <1> DEFINE s == SubSeq(source, p + 1, e)
             closes == {k \in 3..(Len(s) - 1) : s[k] = "*" /\ s[k + 1] = "/"}
  <1>1. /\ s \in Seq(STRING) /\ Len(s) = e - p /\ DOMAIN s = 1..(e - p)
        /\ \A k \in 1..(e - p) : s[k] = charAt(p + k - 1)
        /\ \A r \in p..(e - 1) : r - p + 1 \in 1..(e - p) /\ s[r - p + 1] = charAt(r)
    BY Indexed
  <1> HIDE DEF s
  <1>2. ASSUME e >= p + 2, NEW a, NEW b
        PROVE  SubSeq(s, 1, 2) = <<a, b>> <=> charAt(p) = a /\ charAt(p + 1) = b
    <2>1. 1 \in 1..(e - p) /\ 2 \in 1..(e - p) /\ p + 1 - 1 = p /\ p + 2 - 1 = p + 1
      BY <1>2
    <2>2. s[1] = charAt(p) /\ s[2] = charAt(p + 1)
      BY <1>1, <2>1
    <2>3. \A i \in 1..2 : s[i] \in STRING
      <3>1. \A i \in 1..2 : i \in 1..Len(s)
        BY <1>1, <1>2
      <3> QED BY <1>1, <3>1, ElementOfSeq
    <2>4. /\ SubSeq(s, 1, 2) \in Seq(STRING) /\ Len(SubSeq(s, 1, 2)) = 2
          /\ SubSeq(s, 1, 2)[1] = s[1] /\ SubSeq(s, 1, 2)[2] = s[2]
      <3>1. 2 - 1 + 1 = 2
        OBVIOUS
      <3>2. /\ SubSeq(s, 1, 2) \in Seq(STRING)
            /\ Len(SubSeq(s, 1, 2)) = IF 1 <= 2 THEN 2 - 1 + 1 ELSE 0
            /\ \A i \in 1..(2 - 1 + 1) : SubSeq(s, 1, 2)[i] = s[1 + i - 1]
        BY <2>3, SubSeqProperties
      <3> QED BY <3>1, <3>2
    <2>5. SubSeq(s, 1, 2) = <<s[1], s[2]>>
      <3> DEFINE t == SubSeq(s, 1, 2)
      <3>1. t \in Seq(STRING) /\ Len(t) = 2 /\ t[1] = s[1] /\ t[2] = s[2]
        BY <2>4
      <3> HIDE DEF t
      <3>2. t = <<s[1], s[2]>>
        BY <3>1
      <3> QED BY <3>2 DEF t
    <2> QED BY <2>2, <2>5
  <1>3. (\A k \in DOMAIN s : s[k] # "\n") <=> \A r \in p..(e - 1) : charAt(r) # "\n"
    <2>1. \A k \in 1..(e - p) : p + k - 1 \in p..(e - 1) /\ s[k] = charAt(p + k - 1)
      BY <1>1
    <2>2. ASSUME \A k \in DOMAIN s : s[k] # "\n", NEW r \in p..(e - 1)
          PROVE  charAt(r) # "\n"
      <3>1. s[r - p + 1] # "\n" /\ s[r - p + 1] = charAt(r)
        BY <1>1, <2>2
      <3> QED BY <3>1
    <2>3. ASSUME \A r \in p..(e - 1) : charAt(r) # "\n", NEW k \in DOMAIN s
          PROVE  s[k] # "\n"
      BY <1>1, <2>1, <2>3
    <2> QED BY <2>2, <2>3
  <1>4. ASSUME NEW k \in 3..(Len(s) - 1)
        PROVE  k \in closes <=> Closes(p + k - 1)
    <2>1. k \in 1..(e - p) /\ k + 1 \in 1..(e - p) /\ p + (k + 1) - 1 = (p + k - 1) + 1
      BY <1>1
    <2> QED BY <1>1, <2>1 DEF Closes
  <1>5. ASSUME e >= p + 4
        PROVE  closes = {Len(s) - 1} <=>
                 Closes(e - 2) /\ \A r \in (p + 2)..(e - 2) : Closes(r) => r = e - 2
    <2>1. /\ Len(s) - 1 = e - p - 1 /\ e - p - 1 \in 3..(Len(s) - 1)
          /\ p + (e - p - 1) - 1 = e - 2
          /\ \A r \in (p + 2)..(e - 2) : /\ r - p + 1 \in 3..(Len(s) - 1)
                                         /\ p + (r - p + 1) - 1 = r
          /\ \A k \in 3..(Len(s) - 1) : /\ p + k - 1 \in (p + 2)..(e - 2)
                                        /\ p + k - 1 = e - 2 => k = e - p - 1
      BY <1>1, <1>5
    <2>2. closes \subseteq 3..(Len(s) - 1)
      OBVIOUS
    <2> HIDE DEF closes
    <2>3. ASSUME closes = {Len(s) - 1}
          PROVE  Closes(e - 2) /\ \A r \in (p + 2)..(e - 2) : Closes(r) => r = e - 2
      <3>1. e - p - 1 \in closes
        BY <2>1, <2>3
      <3>2. Closes(e - 2)
        BY <1>4, <2>1, <3>1
      <3>3. ASSUME NEW r \in (p + 2)..(e - 2), Closes(r)
            PROVE  r = e - 2
        <4>1. r - p + 1 \in closes
          BY <1>4, <2>1, <3>3
        <4>2. r - p + 1 = e - p - 1
          BY <2>1, <2>3, <4>1
        <4> QED BY <4>2
      <3> QED BY <3>2, <3>3
    <2>4. ASSUME Closes(e - 2), \A r \in (p + 2)..(e - 2) : Closes(r) => r = e - 2
          PROVE  closes = {Len(s) - 1}
      <3>1. e - p - 1 \in closes
        BY <1>4, <2>1, <2>4
      <3>2. \A k \in closes : k = e - p - 1
        BY <1>4, <2>1, <2>2, <2>4
      <3> QED BY <2>1, <3>1, <3>2
    <2> QED BY <2>3, <2>4
  <1>6. IsComment(s) <=>
          \/ Len(s) >= 2 /\ SubSeq(s, 1, 2) = <<"/", "/">> /\ \A k \in DOMAIN s : s[k] # "\n"
          \/ Len(s) >= 4 /\ SubSeq(s, 1, 2) = <<"/", "*">> /\ closes = {Len(s) - 1}
    BY DEF IsComment
  <1>7. (Len(s) >= 2 <=> p + 2 <= e) /\ (Len(s) >= 4 <=> p + 4 <= e)
    BY <1>1
  <1> HIDE DEF closes
  <1>8. LineComment(p, e) <=>
          Len(s) >= 2 /\ SubSeq(s, 1, 2) = <<"/", "/">> /\ \A k \in DOMAIN s : s[k] # "\n"
    BY <1>2, <1>3, <1>7 DEF LineComment
  <1>9. BlockComment(p, e) <=>
          Len(s) >= 4 /\ SubSeq(s, 1, 2) = <<"/", "*">> /\ closes = {Len(s) - 1}
    <2>1. p + 4 <= e => e >= p + 2
      OBVIOUS
    <2> QED BY <1>2, <1>5, <1>7, <2>1 DEF BlockComment
  <1> QED BY <1>6, <1>8, <1>9 DEF s

CommentEnds(p) == {q \in (p + 1)..Len(source) : IsComment(SubSeq(source, p + 1, q))}

LEMMA LongestComment ==
  ASSUME source \in Seq(STRING), NEW p \in 0..Len(source)
  PROVE  /\ CommentEnds(p) = {q \in (p + 1)..Len(source) :
                                LineComment(p, q) \/ BlockComment(p, q)}
         /\ CommentEnds(p) = {} => Longest(p, IsComment) = p
         /\ \A q \in CommentEnds(p) :
              (\A r \in CommentEnds(p) : r <= q) => Longest(p, IsComment) = q
  <1>1. Len(source) \in Nat /\ p \in Nat
    BY LenProperties
  <1>2. ASSUME NEW q \in (p + 1)..Len(source)
        PROVE  IsComment(SubSeq(source, p + 1, q)) <=> LineComment(p, q) \/ BlockComment(p, q)
    <2>1. q \in Nat /\ p < q /\ q <= Len(source)
      BY <1>1
    <2> QED BY <1>1, <2>1, CommentAt
  <1>3. Longest(p, IsComment) = IF CommentEnds(p) = {} THEN p
          ELSE CHOOSE x \in CommentEnds(p) : \A r \in CommentEnds(p) : r <= x
    BY DEF Longest, CommentEnds
  <1>4. CommentEnds(p) \subseteq (p + 1)..Len(source)
    BY DEF CommentEnds
  <1>5. ASSUME NEW q \in CommentEnds(p), \A r \in CommentEnds(p) : r <= q
        PROVE  Longest(p, IsComment) = q
    BY ONLY <1>1, <1>3, <1>4, <1>5, LongestIs
  <1>6. CommentEnds(p) = {} => Longest(p, IsComment) = p
    BY <1>3
  <1>7. CommentEnds(p) = {q \in (p + 1)..Len(source) :
                            LineComment(p, q) \/ BlockComment(p, q)}
    BY <1>2 DEF CommentEnds
  <1> QED BY <1>5, <1>6, <1>7

LEMMA NoComment ==
  ASSUME source \in Seq(STRING), NEW p \in 0..Len(source),
         ~Begins(p, "/", "/"), ~Begins(p, "/", "*")
  PROVE  Longest(p, IsComment) = p
  <1>1. ASSUME NEW e \in CommentEnds(p)
        PROVE  FALSE
    <2>1. /\ e \in (p + 1)..Len(source)
          /\ LineComment(p, e) \/ BlockComment(p, e)
      BY <1>1, LongestComment
    <2>2. p + 1 < Len(source)
      BY <2>1, LenProperties DEF LineComment, BlockComment
    <2> QED BY <2>1, <2>2 DEF LineComment, BlockComment, Begins
  <1>2. CommentEnds(p) = {}
    BY <1>1
  <1> QED BY <1>2, LongestComment

LEMMA LineCommentsSkipped ==
  ASSUME source \in Seq(STRING), NEW p \in 0..Len(source), Begins(p, "/", "/")
  PROVE  Longest(p, IsComment) = LineFrom(p)
  <1> DEFINE q == LineFrom(p)
             Ends(x) == /\ isAtEnd(x) \/ ~(charAt(x) # "\n")
                        /\ \A r \in p..(x - 1) : charAt(r) # "\n"
  <1>1. /\ Len(source) \in Nat /\ p + 1 < Len(source) /\ p \in Nat
        /\ charAt(p) = "/" /\ charAt(p + 1) = "/"
    BY LenProperties DEF Begins
  <1>2. q \in p..Len(source) /\ Ends(q)
    <2> DEFINE In == {r \in Nat : charAt(r) # "\n"}
    <2>1. PICK x \in p..Len(source) : /\ x >= Len(source) \/ x \notin In
                                      /\ \A r \in p..(x - 1) : r \in In
      <3> HIDE DEF In
      <3> QED BY <1>1, RunFound
    <2>2. x \in Nat /\ \A r \in p..(x - 1) : r \in Nat
      BY <1>1, <2>1
    <2>3. Ends(x)
      BY <2>1, <2>2 DEF isAtEnd
    <2>4. q = CHOOSE y \in p..Len(source) : Ends(y)
      BY DEF LineFrom, RunEnd
    <2> HIDE DEF Ends, q
    <2> QED BY <2>3, <2>4
  <1>3. /\ isAtEnd(q) \/ charAt(q) = "\n"
        /\ \A r \in p..(q - 1) : charAt(r) # "\n"
    BY <1>2
  <1> HIDE DEF q, Ends
  <1>4. q # p /\ q # p + 1
    BY <1>1, <1>3 DEF isAtEnd
  <1>5. q \in (p + 1)..Len(source) /\ p + 2 <= q
    BY <1>1, <1>2, <1>4
  <1>6. q \in CommentEnds(p)
    BY <1>1, <1>3, <1>5, LongestComment DEF LineComment
  <1>7. ASSUME NEW e \in CommentEnds(p)
        PROVE  e <= q
    <2>1. e \in (p + 1)..Len(source) /\ LineComment(p, e)
      BY <1>1, <1>7, LongestComment DEF BlockComment
    <2>2. q \in p..(e - 1) => charAt(q) # "\n"
      BY <2>1 DEF LineComment
    <2> QED BY <1>1, <1>3, <1>5, <2>1, <2>2 DEF isAtEnd
  <1> QED BY <1>6, <1>7, LongestComment DEF q

LEMMA BlockCommentsSkipped ==
  ASSUME source \in Seq(STRING), NEW p \in 0..Len(source), Begins(p, "/", "*")
  PROVE  Longest(p, IsComment) \in {p, CommentEnd(p + 2)}
  <1> DEFINE closes == {q \in (p + 2)..Len(source) : Begins(q, "*", "/")}
  <1>1. /\ Len(source) \in Nat /\ p + 1 < Len(source) /\ p \in Nat
        /\ charAt(p) = "/" /\ charAt(p + 1) = "*"
    BY LenProperties DEF Begins
  <1>2. \A e \in CommentEnds(p) :
          e \in (p + 1)..Len(source) /\ BlockComment(p, e)
    BY <1>1, LongestComment DEF LineComment
  <1>3. ASSUME NEW r \in (p + 2)..Len(source)
        PROVE  r \in closes <=> r + 1 < Len(source) /\ Closes(r)
    BY DEF Begins, Closes
  <1>4. CASE closes = {}
    <2>1. ASSUME NEW e \in CommentEnds(p)
          PROVE  FALSE
      <3>1. e - 2 \in (p + 2)..Len(source) /\ e - 2 + 1 < Len(source) /\ Closes(e - 2)
        BY <1>1, <1>2 DEF BlockComment
      <3> QED BY <1>3, <1>4, <3>1
    <2> QED BY <2>1, LongestComment
  <1>5. CASE closes # {}
    <2>1. closes \subseteq Nat
      BY <1>1
    <2>2. \E m \in closes : \A k \in closes : m <= k
      <3> HIDE DEF closes
      <3> QED BY <1>5, <2>1, LeastOf
    <2> DEFINE m == Min(closes)
    <2>3. m \in closes /\ \A k \in closes : m <= k
      <3> HIDE DEF closes
      <3> QED BY <2>2 DEF Min
    <2>4. CommentEnd(p + 2) = 2 + m
      BY <1>5 DEF CommentEnd
    <2>5. m \in (p + 2)..Len(source)
      BY <2>3
    <2> HIDE DEF closes, m
    <2>6. m + 1 < Len(source) /\ Closes(m) /\ 2 + m \in (p + 1)..Len(source)
      BY <1>1, <1>3, <2>3, <2>5
    <2>7. BlockComment(p, 2 + m)
      <3>1. p + 4 <= 2 + m /\ (2 + m) - 2 = m
        BY <1>1, <2>5
      <3>2. ASSUME NEW r \in (p + 2)..m, Closes(r)
            PROVE  r = m
        <4>1. r \in (p + 2)..Len(source) /\ r + 1 < Len(source)
          BY <1>1, <2>5, <2>6
        <4>2. m <= r
          BY <1>3, <2>3, <3>2, <4>1
        <4> QED BY <1>1, <2>5, <4>2
      <3> QED BY <1>1, <2>6, <3>1, <3>2 DEF BlockComment
    <2>8. 2 + m \in CommentEnds(p)
      BY <2>6, <2>7, LongestComment
    <2>9. ASSUME NEW e \in CommentEnds(p)
          PROVE  e <= 2 + m
      <3>1. e \in (p + 1)..Len(source) /\ BlockComment(p, e)
        BY <1>2
      <3>2. m \in (p + 2)..(e - 2) => m = e - 2
        BY <2>6, <3>1 DEF BlockComment
      <3> QED BY <1>1, <2>5, <3>1, <3>2
    <2>10. Longest(p, IsComment) = 2 + m
      BY <2>8, <2>9, LongestComment
    <2> QED BY <2>4, <2>10
  <1> QED BY <1>4, <1>5

Blanks(p) == IF Holds(p, Spaces) THEN p + 1 ELSE Longest(p, IsComment)
BlankStays == {p \in Nat : ~Holds(p, Spaces) /\ Longest(p, IsComment) = p}

LEMMA BlanksForward ==
  ASSUME source \in Seq(STRING), NEW p \in 0..Len(source)
  PROVE  Blanks(p) \in p..Len(source) /\ (p \notin BlankStays => Blanks(p) > p)
  <1>1. Len(source) \in Nat
    BY LenProperties
  <1>2. Longest(p, IsComment) \in p..Len(source)
    <2>1. CASE Begins(p, "/", "/")
      BY <2>1, LineCommentsSkipped, LineRunBounds
    <2>2. CASE Begins(p, "/", "*")
      <3>1. p + 2 \in Nat /\ p + 2 <= Len(source)
        BY <1>1, <2>2 DEF Begins
      <3>2. /\ CommentEnd(p + 2) \in Nat /\ CommentEnd(p + 2) <= Len(source)
            /\ CommentEnd(p + 2) = Len(source) \/ CommentEnd(p + 2) >= (p + 2) + 2
        BY ONLY <3>1, source \in Seq(STRING), CommentBounds
      <3>3. CommentEnd(p + 2) \in p..Len(source)
        BY <1>1, <3>1, <3>2
      <3> QED BY <1>1, <2>2, <3>3, BlockCommentsSkipped
    <2>3. CASE ~Begins(p, "/", "/") /\ ~Begins(p, "/", "*")
      BY <1>1, <2>3, NoComment
    <2> QED BY <2>1, <2>2, <2>3
  <1>3. Holds(p, Spaces) => p + 1 \in p..Len(source)
    BY <1>1 DEF Holds, isAtEnd
  <1> QED BY <1>1, <1>2, <1>3 DEF Blanks, BlankStays

LEMMA BlankEquation ==
  ASSUME source \in Seq(STRING)
  PROVE  \A p \in 0..Len(source) :
           Blank[p] = IF p \in BlankStays THEN p ELSE Blank[Blanks(p)]
  <1>1. Len(source) \in Nat
    BY LenProperties
  <1> DEFINE n == Len(source)
             base == [p \in 0..n |-> p]
             step == [p \in 0..n |-> [q \in 0..n |-> q]]
             nxt == [p \in 0..n |-> Blanks(p)]
             F(g) == [p \in 0..n |->
                        IF Holds(p, Spaces) THEN g[p + 1]
                        ELSE IF Longest(p, IsComment) = p THEN p
                        ELSE g[Longest(p, IsComment)]]
  <1>2. n \in Nat /\ 0 \in 0..n
    BY <1>1
  <1>3. /\ base \in [0..n -> 0..n] /\ step \in [0..n -> [0..n -> 0..n]]
    OBVIOUS
  <1>4. /\ nxt \in [0..n -> 0..n] /\ \A p \in 0..n : p \notin BlankStays => nxt[p] > p
    BY BlanksForward
  <1>5. PICK g \in [0..n -> 0..n] : Solves(g, 0, n, BlankStays, base, step, nxt)
    <2> HIDE DEF n, base, step, nxt
    <2> QED BY <1>2, <1>3, <1>4, RecursionDefines
  <1>6. \A p \in 0..n : g[p] = IF p \in BlankStays THEN p ELSE g[Blanks(p)]
    BY <1>4, <1>5 DEF Solves
  <1>7. ASSUME NEW h, NEW p \in 0..n
        PROVE  F(h)[p] = IF p \in BlankStays THEN p ELSE h[Blanks(p)]
    BY DEF BlankStays, Blanks
  <1>8. g = F(g)
    <2>1. \A p \in 0..n : g[p] = F(g)[p]
      BY <1>6, <1>7
    <2>2. g = [p \in 0..n |-> g[p]]
      BY <1>5
    <2>3. F(g) = [p \in 0..n |-> F(g)[p]]
      OBVIOUS
    <2> HIDE DEF F
    <2> QED BY <2>1, <2>2, <2>3
  <1>9. Blank = CHOOSE h : h = F(h)
    BY DEF Blank
  <1>10. Blank = F(Blank)
    <2> HIDE DEF F
    <2> QED BY <1>8, <1>9
  <1>11. \A p \in 0..n : F(Blank)[p] = IF p \in BlankStays THEN p ELSE Blank[Blanks(p)]
    BY <1>7
  <1> HIDE DEF F
  <1> QED BY <1>10, <1>11

(* Where comments end, the lexer skips what is blank.                      *)
LEMMA BlanksSkipped ==
  ASSUME source \in Seq(STRING), CommentsEnd
  PROVE  \A p \in 0..Len(source) : Blank[p] = skipWhitespaceAndComments[p]
  <1> DEFINE T == {p \in 0..Len(source) : Blank[p] = skipWhitespaceAndComments[p]}
  <1>1. Len(source) \in Nat
    BY LenProperties
  <1>2. ASSUME NEW p \in 0..Len(source), \A q \in (p + 1)..Len(source) : q \in T
        PROVE  p \in T
    <2>1. /\ Blank[p] = IF p \in BlankStays THEN p ELSE Blank[Blanks(p)]
          /\ skipWhitespaceAndComments[p] =
               IF p \in Stays THEN p ELSE skipWhitespaceAndComments[Skips(p)]
      BY BlankEquation, SkipEquation
    <2>2. p \notin BlankStays => Blanks(p) \in (p + 1)..Len(source)
      BY <1>1, BlanksForward
    <2>3. p \in BlankStays <=> p \in Stays
      <3>1. ~Begins(p, "/", "/") /\ ~Begins(p, "/", "*") => Longest(p, IsComment) = p
        BY NoComment
      <3>2. Begins(p, "/", "/") => Longest(p, IsComment) # p
        <4> SUFFICES ASSUME Begins(p, "/", "/") PROVE LineFrom(p) # p
          BY LineCommentsSkipped
        <4>1. p < Len(source) /\ charAt(p) # "\n"
          BY <1>1 DEF Begins
        <4> QED BY <1>1, <4>1, LineRunBounds
      <3>3. ASSUME Begins(p, "/", "*"), Longest(p, IsComment) = p, p \in BlankStays
            PROVE  FALSE
        <4>1. Blank[p] = p
          BY <2>1, <3>3
        <4> QED BY <3>3, <4>1 DEF CommentsEnd
      <3>4. p \in Nat
        OBVIOUS
      <3>5. p \in BlankStays <=> ~Holds(p, Spaces) /\ Longest(p, IsComment) = p
        BY <3>4 DEF BlankStays
      <3>6. p \in Stays <=>
              ~Holds(p, Spaces) /\ ~Begins(p, "/", "/") /\ ~Begins(p, "/", "*")
        BY <3>4 DEF Stays
      <3> QED BY <3>1, <3>2, <3>3, <3>5, <3>6
    <2>4. CASE p \in Stays
      BY <2>1, <2>3, <2>4
    <2>5. CASE p \notin Stays
      <3>1. ~(Holds(p, Spaces) /\ charAt(p) = "/")
        BY ClassesAssumption DEF Holds, Punctuators
      <3>2. CASE Holds(p, Spaces)
        <4>1. Blanks(p) = p + 1 /\ Skips(p) = p + 1
          BY <3>1, <3>2 DEF Blanks, Skips, Begins
        <4> QED BY <1>2, <2>1, <2>2, <2>3, <2>5, <4>1
      <3>3. CASE ~Holds(p, Spaces) /\ Begins(p, "/", "/")
        <4>1. Blanks(p) = LineFrom(p) /\ Skips(p) = LineFrom(p)
          BY <3>3, LineCommentsSkipped DEF Blanks, Skips, Begins
        <4> QED BY <1>2, <2>1, <2>2, <2>3, <2>5, <4>1
      <3>4. CASE ~Holds(p, Spaces) /\ ~Begins(p, "/", "/") /\ Begins(p, "/", "*")
        <4>1. Blanks(p) = Longest(p, IsComment) /\ Skips(p) = CommentEnd(p + 2)
          BY <3>4 DEF Blanks, Skips, Begins
        <4>2. Blanks(p) # p
          BY <1>1, <2>2, <2>3, <2>5
        <4>3. Blanks(p) = Skips(p)
          BY <3>4, <4>1, <4>2, BlockCommentsSkipped
        <4> QED BY <1>2, <2>1, <2>2, <2>3, <2>5, <4>3
      <3>5. p \in Nat
        OBVIOUS
      <3> QED BY <2>5, <3>2, <3>3, <3>4, <3>5 DEF Stays
    <2> QED BY <2>4, <2>5
  <1>3. \A p \in 0..Len(source) : p \in T
    <2> HIDE DEF T
    <2> QED BY <1>1, <1>2, FromTheEnd
  <1> QED BY <1>3

-----------------------------------------------------------------------------
(* Token after token.                                                      *)

(* What MaximalMunch asks of the plain token t when the one before it ends *)
(* at begin.                                                               *)
Munched(begin, t) ==
  LET p == Blank[begin]
      q == Longest(p, IsLexeme)
  IN CASE isAtEnd(p) -> t[1] = "EndOfFile"
       [] ~isAtEnd(p) /\ q = p -> t[1] = "Unknown" /\ t[3] = p + 1
       [] OTHER -> /\ t[1] \notin {"EndOfFile", "Unknown"}
                   /\ t[3] = p /\ t[2] = SubSeq(source, p + 1, q)

LEMMA AdvanceMunches ==
  ASSUME source \in Seq(STRING), Unquoted, CommentsEnd, NEW o \in 0..Len(source)
  PROVE  /\ Munched(o, PlainAt(o))
         /\ advanceToken(o).kind # "EndOfFile" =>
              advanceToken(o).past = advanceToken(o).place + Len(advanceToken(o).text)
  <1> DEFINE p == skipWhitespaceAndComments[o]
             x == advanceToken(o)
  <1>1. Len(source) \in Nat
    BY LenProperties
  <1>2. p \in o..Len(source) /\ p \in 0..Len(source) /\ Blank[o] = p /\ p \in Nat
    BY <1>1, SkipBounds, BlanksSkipped
  <1>3. x = CASE isAtEnd(p) -> Lexeme("EndOfFile", p, << >>, p)
              [] Holds(p, Letters) -> identifierOrKeyword(p)
              [] Holds(p, Digits) -> number(p)
              [] Holds(p, Punctuators) -> punctuator(p)
              [] Holds(p, {"\""}) -> literal(p + 1, "\"", "StringLiteral")
              [] Holds(p, {"'"}) -> literal(p + 1, "'", "CharLiteral")
              [] OTHER -> errorToken(p + 1)
    BY DEF advanceToken
  <1>4. PlainAt(o)[1] = x.kind /\ PlainAt(o)[2] = x.text /\ PlainAt(o)[3] = x.place
    BY DEF PlainAt
  <1> HIDE DEF p, x
  <1>5. CASE isAtEnd(p)
    <2>1. \A S : ~Holds(p, S)
      BY <1>5 DEF Holds
    <2>2. x = Lexeme("EndOfFile", p, << >>, p)
      BY <1>3, <1>5, <2>1
    <2>3. x.kind = "EndOfFile"
      BY <2>2, LexemeParts
    <2>4. Munched(o, PlainAt(o))
      BY <1>2, <1>4, <1>5, <2>3 DEF Munched
    <2> QED BY <2>3, <2>4 DEF x
  <1>6. CASE ~isAtEnd(p)
    <2>1. p < Len(source) /\ \A S : Holds(p, S) <=> charAt(p) \in S
      BY <1>1, <1>2, <1>6 DEF isAtEnd, Holds
    <2>2. charAt(p) \notin {"\"", "'"}
      <3>1. p + 1 \in DOMAIN source
        BY <1>1, <1>2, <2>1, LenProperties
      <3>2. source[p + 1] \in ToSet(source)
        BY <3>1 DEF ToSet
      <3> QED BY <3>2 DEF Unquoted, Quotes, charAt
    <2>3. CASE charAt(p) \in Letters \cup Digits \cup Punctuators
      <3>1. LexemeOf(x, p)
        <4>1. CASE charAt(p) \in Letters
          <5>1. x = identifierOrKeyword(p)
            BY <1>3, <1>6, <2>1, <2>2, <4>1, ClassesAssumption
          <5> QED BY <1>2, <2>1, <4>1, <5>1, NamesAreLongest
        <4>2. CASE charAt(p) \in Digits
          <5>1. charAt(p) \notin Letters /\ charAt(p) \notin Punctuators
            BY <4>2, ClassesAssumption
          <5>2. x = number(p)
            BY <1>3, <1>6, <2>1, <2>2, <4>2, <5>1
          <5> QED BY <1>2, <2>1, <4>2, <5>2, NumbersAreLongest
        <4>3. CASE charAt(p) \in Punctuators
          <5>1. charAt(p) \notin Letters /\ charAt(p) \notin Digits
            BY <4>3, ClassesAssumption
          <5>2. x = punctuator(p)
            BY <1>3, <1>6, <2>1, <2>2, <4>3, <5>1
          <5> QED BY <1>2, <2>1, <4>3, <5>2, PunctuatorsAreLongest
        <4> QED BY <2>3, <4>1, <4>2, <4>3
      <3>2. /\ x.kind \notin {"EndOfFile", "Unknown"} /\ x.place = p
            /\ x.past \in (p + 1)..Len(source)
            /\ x.text = SubSeq(source, p + 1, x.past)
            /\ Longest(p, IsLexeme) = x.past
        BY <3>1 DEF LexemeOf
      <3>3. x.past \in Nat /\ p < x.past /\ x.past <= Len(source)
        BY <1>1, <1>2, <3>2
      <3>4. Len(x.text) = x.past - p
        BY <1>2, <3>2, <3>3, Indexed
      <3>5. Longest(p, IsLexeme) # p
        BY <1>2, <3>2, <3>3
      <3>6. Munched(o, PlainAt(o))
        <4>1. /\ PlainAt(o)[1] \notin {"EndOfFile", "Unknown"}
              /\ PlainAt(o)[3] = p
              /\ PlainAt(o)[2] = SubSeq(source, p + 1, Longest(p, IsLexeme))
          BY <1>4, <3>2
        <4> QED BY ONLY <1>2, <1>6, <3>5, <4>1 DEF Munched
      <3>7. x.past = x.place + Len(x.text)
        BY <1>2, <3>2, <3>3, <3>4
      <3> QED BY <3>6, <3>7 DEF x
    <2>4. CASE charAt(p) \notin Letters \cup Digits \cup Punctuators
      <3>1. x = errorToken(p + 1)
        BY <1>3, <1>6, <2>1, <2>2, <2>4
      <3>2. /\ x.kind = "Unknown" /\ x.place = p + 1 /\ x.text = << >>
            /\ x.past = p + 1
        BY <3>1, LexemeParts DEF errorToken
      <3>3. Longest(p, IsLexeme) = p
        BY <1>2, <2>4, NothingBegins
      <3>4. Munched(o, PlainAt(o))
        <4>1. PlainAt(o)[1] = "Unknown" /\ PlainAt(o)[3] = p + 1
          BY <1>4, <3>2
        <4> QED BY ONLY <1>2, <1>6, <3>3, <4>1 DEF Munched
      <3>5. x.past = x.place + Len(x.text)
        BY <1>2, <3>2
      <3> QED BY <3>4, <3>5 DEF x
    <2> QED BY <2>3, <2>4
  <1> QED BY <1>5, <1>6

(* Where the token before the k-th of ts ends, when o is where ts begins.  *)
Before(ts, o, k) == IF k = 1 THEN o ELSE ts[k - 1][3] + Len(ts[k - 1][2])

AllMunched(ts, o) == \A k \in 1..Len(ts) : Munched(Before(ts, o, k), ts[k])

LEMMA TokensMunched ==
  ASSUME source \in Seq(STRING), Unquoted, CommentsEnd
  PROVE  \A o \in 0..Len(source) : AllMunched(TokensFrom[o], o)
  <1> DEFINE T == {o \in 0..Len(source) : AllMunched(TokensFrom[o], o)}
  <1>1. Len(source) \in Nat
    BY LenProperties
  <1>2. ASSUME NEW o \in 0..Len(source), \A q \in (o + 1)..Len(source) : q \in T
        PROVE  o \in T
    <2> DEFINE x == advanceToken(o)
               one == <<PlainAt(o)>>
               rest == IF x.kind = "EndOfFile" THEN << >> ELSE TokensFrom[x.past]
               ts == one \o rest
    <2>1. TokensFrom[o] = ts
      BY TokensUnfold
    <2>2. /\ Munched(o, PlainAt(o))
          /\ x.kind # "EndOfFile" => x.past = x.place + Len(x.text)
      BY AdvanceMunches
    <2>3. x.kind # "EndOfFile" => x.past \in (o + 1)..Len(source)
      BY <1>1, AdvanceTakes DEF Taken, Lexeme
    <2>4. one \in Seq(PlainTokens) /\ Len(one) = 1 /\ one[1] = PlainAt(o)
      BY PlainType
    <2>5. PlainAt(o)[2] = x.text /\ PlainAt(o)[3] = x.place
      BY DEF PlainAt
    <2> HIDE DEF x
    <2>6. rest \in Seq(PlainTokens) /\ (x.kind # "EndOfFile" => AllMunched(rest, x.past))
          /\ (x.kind = "EndOfFile" => rest = << >>)
      <3>1. CASE x.kind = "EndOfFile"
        BY <3>1
      <3>2. CASE x.kind # "EndOfFile"
        <4>1. x.past \in 0..Len(source)
          BY <1>1, <2>3, <3>2
        <4>2. AllMunched(TokensFrom[x.past], x.past)
          BY <1>2, <2>3, <3>2
        <4> QED BY <3>2, <4>1, <4>2, TokensFromType
      <3> QED BY <3>1, <3>2
    <2> HIDE DEF one, rest
    <2>7. /\ Len(ts) = 1 + Len(rest) /\ Len(rest) \in Nat /\ ts[1] = PlainAt(o)
          /\ \A k \in 2..Len(ts) : k - 1 \in 1..Len(rest) /\ ts[k] = rest[k - 1]
      <3>1. /\ Len(ts) = Len(one) + Len(rest)
            /\ \A k \in 1..Len(one) + Len(rest) :
                 ts[k] = IF k <= Len(one) THEN one[k] ELSE rest[k - Len(one)]
        BY <2>4, <2>6, ConcatProperties
      <3>2. Len(rest) \in Nat
        BY <2>6, LenProperties
      <3> HIDE DEF ts
      <3>3. 1 \in 1..Len(one) + Len(rest)
        BY <2>4, <3>2
      <3>4. ts[1] = PlainAt(o)
        BY <2>4, <3>1, <3>3
      <3>5. ASSUME NEW k \in 2..Len(ts)
            PROVE  k - 1 \in 1..Len(rest) /\ ts[k] = rest[k - 1]
        <4>1. k \in 1..Len(one) + Len(rest) /\ ~(k <= Len(one)) /\ k - 1 \in 1..Len(rest)
          BY <2>4, <3>1, <3>2
        <4> QED BY <2>4, <3>1, <4>1
      <3> QED BY <2>4, <3>1, <3>2, <3>4, <3>5
    <2> HIDE DEF ts
    <2>8. ASSUME NEW k \in 1..Len(ts)
          PROVE  Munched(Before(ts, o, k), ts[k])
      <3>1. CASE k = 1
        BY <2>2, <2>7, <3>1 DEF Before
      <3>2. CASE k # 1
        <4>1. k \in 2..Len(ts) /\ Len(rest) > 0
          BY <2>7, <3>2
        <4>2. k - 1 \in 1..Len(rest) /\ ts[k] = rest[k - 1]
          BY <2>7, <4>1
        <4>3. x.kind # "EndOfFile"
          BY <2>6, <4>1
        <4>4. Munched(Before(rest, x.past, k - 1), rest[k - 1])
          BY <2>6, <4>2, <4>3 DEF AllMunched
        <4>5. Before(ts, o, k) = Before(rest, x.past, k - 1)
          <5>1. CASE k = 2
            <6>1. Before(ts, o, k) = ts[1][3] + Len(ts[1][2])
              BY <5>1 DEF Before
            <6>2. Before(rest, x.past, k - 1) = x.past
              BY <5>1 DEF Before
            <6> QED BY <2>2, <2>5, <2>7, <4>3, <6>1, <6>2
          <5>2. CASE k # 2
            <6>1. k - 1 \in 2..Len(ts) /\ k - 1 # 1 /\ k - 2 = k - 1 - 1
              BY <2>7, <4>1, <5>2
            <6>2. ts[k - 1] = rest[k - 1 - 1]
              BY <2>7, <6>1
            <6> QED BY <3>2, <6>1, <6>2 DEF Before
          <5> QED BY <5>1, <5>2
        <4> QED BY <4>2, <4>4, <4>5
      <3> QED BY <3>1, <3>2
    <2> QED BY <2>1, <2>8 DEF AllMunched
  <1>3. \A o \in 0..Len(source) : o \in T
    <2> HIDE DEF T
    <2> QED BY <1>1, <1>2, FromTheEnd
  <1> QED BY <1>3

(* Every token is the longest lexeme at its place: what advanceToken skips *)
(* is blank or a comment, and identifierOrKeyword, number and punctuator   *)
(* stop where no longer lexeme would go on, in every file without quotes   *)
(* whose comments end and for every choice of letters, digits and spaces.  *)
THEOREM TokensAreLongest == Spec => []MaximalMunch
  <1>1. IInv /\ tokens = TokensFrom[0] => MaximalMunch
    <2> SUFFICES ASSUME IInv, tokens = TokensFrom[0], delivered # << >>,
                        Unquoted, CommentsEnd
                 PROVE  MaximalMunch
      BY DEF MaximalMunch
    <2> DEFINE ps == Plains(delivered)
               k == Len(delivered)
               t == delivered[k]
               begin == IF k = 1 THEN 0
                        ELSE delivered[k - 1].loc.offset + Len(delivered[k - 1].text)
    <2>1. /\ source \in Seq(STRING) /\ delivered \in Seq(TokenSet) /\ TypesOfLexer
          /\ tokens = ps \o Coming
      BY DEF IInv, TypesOfLexer, InStream
    <2>2. k \in Nat \ {0}
      BY <2>1, LenProperties
    <2>3. AllMunched(tokens, 0)
      <3>1. 0 \in 0..Len(source)
        BY <2>1, LenProperties
      <3> QED BY <2>1, <3>1, TokensMunched
    <2>4. \A i \in 1..k : i \in 1..Len(tokens) /\ tokens[i] = Plain(delivered[i])
      <3>1. /\ ps \in Seq(PlainTokens) /\ Coming \in Seq(PlainTokens) /\ Len(ps) = k
        BY <2>1, ComingType
      <3>2. \A i \in 1..k : ps[i] = Plain(delivered[i])
        BY DEF Plains
      <3> HIDE DEF ps
      <3>3. /\ Len(ps \o Coming) = Len(ps) + Len(Coming) /\ Len(Coming) \in Nat
            /\ \A i \in 1..Len(ps) + Len(Coming) :
                 (ps \o Coming)[i] = IF i <= Len(ps) THEN ps[i] ELSE Coming[i - Len(ps)]
        BY <3>1, ConcatProperties, LenProperties
      <3> HIDE DEF k
      <3> QED BY <2>1, <2>2, <3>1, <3>2, <3>3
    <2>5. \A i \in 1..k : /\ tokens[i][1] = delivered[i].kind
                          /\ tokens[i][2] = delivered[i].text
                          /\ tokens[i][3] = delivered[i].loc.offset
      BY <2>4 DEF Plain
    <2>6. k \in 1..k /\ (k # 1 => k - 1 \in 1..k)
      <3> HIDE DEF k
      <3> QED BY <2>2
    <2>7. Before(tokens, 0, k) = begin
      BY <2>5, <2>6 DEF Before
    <2>8. Munched(begin, tokens[k])
      BY <2>3, <2>4, <2>6, <2>7 DEF AllMunched
    <2>9. tokens[k][1] = t.kind /\ tokens[k][2] = t.text /\ tokens[k][3] = t.loc.offset
      BY <2>5, <2>6
    <2> QED BY <2>8, <2>9 DEF Munched, MaximalMunch
  <1>2. Init => IInv /\ tokens = TokensFrom[0]
    BY InitInv DEF Init
  <1>3. [Next]_lexVars /\ tokens = TokensFrom[0] => (tokens = TokensFrom[0])'
    <2> SUFFICES ASSUME [Next]_lexVars, tokens = TokensFrom[0]
                 PROVE  tokens' = TokensFrom'[0]
      OBVIOUS
    <2>1. source' = source /\ tokens' = tokens
      BY DEF Next, next, peek, Scan, Answer, lexVars
    <2> QED BY <2>1, SourceFrame
  <1>4. Spec => []IInv
    BY Inductive
  <1> QED BY <1>1, <1>2, <1>3, <1>4, PTL DEF Spec
=============================================================================
