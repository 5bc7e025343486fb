---------------------------- MODULE ParserProofs ------------------------------
(***************************************************************************)
(* Proofs about Parser: whatever the tokens, what it builds is made of     *)
(* trees; of what it accepts nothing is lost, and expressions are grouped  *)
(* by precedence; and it takes no more steps than its tokens pay for.      *)
(***************************************************************************)
EXTENDS Parser, FiniteSetTheorems, SequenceTheorems, WellFoundedInduction, TLAPS

-----------------------------------------------------------------------------
(* The tasks that go on with what a call has returned; those that keep     *)
(* nodes between two calls; and those of an expression.                    *)
Conditionals == {"condition", "else", "endIf", "endWhile"}
Readers == {"addDeclaration", "initializer", "endFunction", "endMethod",
            "addStatement", "endReturn", "endDeclStatement", "endExprStatement",
            "parenthesis", "operators", "operand"} \cup Conditionals
Keepers == {"parse", "addDeclaration", "member", "endMethod", "statements",
            "addStatement", "else", "endIf", "endWhile", "operand",
            "parameter", "functionBody", "endFunction"}
ExprTasks == {"helper", "operators", "operand"}
Dos == Readers \cup Keepers \cup
         {"helper", "primary", "declaration", "declarator", "parameter", "functionBody",
          "record", "block", "statement"}
NodeKinds == {"unit", "vardecl", "function", "record", "field", "method", "compound",
              "return", "declstmt", "exprstmt", "leaf", "member", "if", "while", "binary",
              "parameter"}

Positions == 1..Len(tokens)
Streams == [pos : Positions, errors : SUBSET Positions]

(* The nodes that a task holds; the operand on the right has none but the  *)
(* one on the left.                                                        *)
Holds(t) == IF t.do = "operand" THEN {t.left} ELSE ToSet(t.kids)

Tasks == [do : Dos, at : 0..Len(tokens), prec : 0..121, left : Nat, kids : Seq(Nat)]
NodeSet == [kind : NodeKinds, at : 0..Len(tokens), from : 0..Len(tokens),
            to : 0..Len(tokens), kids : Seq(Nat)]

TaskOK(t) ==
  /\ t.do \notin Keepers => t.kids = << >>
  /\ t.do \in Conditionals => t.at # 0 /\ tokens[t.at] \in {"if", "while"}
  /\ t.do \in {"operators", "operand"} => t.at # 0
  /\ t.do = "endMethod" => t.left \in Positions
  /\ t.do = "operand" =>
       Len(t.kids) = 1 /\ t.kids[1] \in Positions /\ tokens[t.kids[1]] \in Operators

Reading == tasks = << >> \/ top.do \in Readers
Hand == (IF tasks = << >> THEN {} ELSE Holds(top)) \cup (IF Reading THEN {ret} \ {Null} ELSE {})

Typed ==
  /\ tokens \in Inputs
  /\ stream \in Streams
  /\ tasks \in Seq(Tasks)
  /\ nodes \in Seq(NodeSet)
  /\ ret \in 0..Len(nodes)
  /\ \A i \in DOMAIN tasks : TaskOK(tasks[i]) /\ Holds(tasks[i]) \subseteq 1..Len(nodes)
  /\ \A n \in DOMAIN nodes : ToSet(nodes[n].kids) \subseteq 1..(n - 1)

(* Below a task there are only tasks that read what it returns; the last   *)
(* one is that of parse().                                                 *)
Line ==
  /\ \A i \in DOMAIN tasks : i # 1 => tasks[i].do \in Readers
  /\ tasks # << >> => tasks[Len(tasks)].do \in {"parse", "addDeclaration"}
  /\ tasks = << >> => stream.pos = Len(tokens) /\ ret = Len(nodes)
  /\ stream.errors = {} /\ Reading => ret # Null
  /\ tasks # << >> /\ top.do = "record" => cur(stream) \in RecordKeys

(* Each node is the child of one other, or held by one task, or what was   *)
(* just returned.                                                          *)
Shares(ks, hand, hs) ==
  /\ \A n \in DOMAIN ks :
       \/ \E p \in DOMAIN ks : n \in ks[p]
       \/ n \in hand
       \/ \E i \in DOMAIN hs : n \in hs[i]
  /\ \A p, q \in DOMAIN ks : p # q => ks[p] \cap ks[q] = {}
  /\ \A p \in DOMAIN ks : ks[p] \cap hand = {}
  /\ \A p \in DOMAIN ks, i \in DOMAIN hs : ks[p] \cap hs[i] = {}
  /\ \A i \in DOMAIN hs : hand \cap hs[i] = {}
  /\ \A i, j \in DOMAIN hs : i # j => hs[i] \cap hs[j] = {}
KidsOf == [n \in DOMAIN nodes |-> ToSet(nodes[n].kids)]
Below == [h \in 1..(Len(tasks) - 1) |-> Holds(tasks[Len(tasks) + 1 - h])]
Owned ==
  /\ Shares(KidsOf, Hand, Below)
  /\ tasks # << >> /\ Reading => ret \notin Holds(top)

Word(q) == tokens[q] \in Literals \cup {"id"}
NoClose(from, to) == \A k \in from..to : tokens[k] # ")"
InTree(q) ==
  \E n \in DOMAIN nodes :
    \/ nodes[n].at = q
    \/ nodes[n].kind = "method" /\ nodes[n].at < q /\ NoClose(nodes[n].at, q)
InTask(t, q) ==
  \/ t.do \in {"member", "endMethod", "declarator", "initializer", "parameter",
              "functionBody", "endFunction"} /\ t.at = q
  \/ t.do = "endMethod" /\ (t.left = q \/ (t.left < q /\ NoClose(t.left, q)))
Words ==
  stream.errors = {} =>
    \A q \in 1..(stream.pos - 1) :
      Word(q) => InTree(q) \/ \E i \in DOMAIN tasks : InTask(tasks[i], q)

Prec(q) == getPrecedence(tokens[q])
Outer(from, to) == {q \in from..to : tokens[q] \in Operators /\ Depth(from, q) = 0}
Closed(from, to) ==
  from <= to /\ Depth(from, to) = 0 /\ \A q \in from..to : Depth(from, q) >= 0
Phrase(from, to, p) ==
  Closed(from, to) /\ \A q \in Outer(from, to) : Prec(q) >= p

(* A task of an expression has read from where it began up to here; below  *)
(* it are the tasks that its call came from.                               *)
Begin(t, pos) == IF t.do = "helper" THEN pos ELSE t.at
Above(a, b, pos) ==
  /\ b.do = "operators" =>
       a.do \in {"primary", "parenthesis"} /\ (a.do = "primary" => b.at = pos)
  /\ b.do = "operand" =>
       /\ a.do \in ExprTasks
       /\ a.prec = Prec(b.kids[1]) + 1 /\ Begin(a, pos) = b.kids[1] + 1
  /\ b.do = "parenthesis" => a.do \in ExprTasks
  /\ a.do \in {"primary", "parenthesis"} => b.do = "operators"
  /\ a.do = "parenthesis" => tokens[b.at] = "("
Behind(a, b, c, pos) == b.do = "parenthesis" => Begin(a, pos) = c.at + 1
Stacked ==
  /\ \A i \in 1..(Len(tasks) - 1) : Above(tasks[i], tasks[i + 1], stream.pos)
  /\ \A i \in 1..(Len(tasks) - 2) : Behind(tasks[i], tasks[i + 1], tasks[i + 2], stream.pos)

(* The operators outside of parentheses in what was read bind no weaker    *)
(* than asked for, and no weaker than the operator that comes next.        *)
Waits(t) ==
  t.do = "operand" =>
    Phrase(t.at, t.kids[1] - 1, Prec(t.kids[1])) /\ Prec(t.kids[1]) >= t.prec
Back(t, next, pos) ==
  /\ t.do = "operators" =>
       Phrase(t.at, pos - 1, t.prec) /\ Phrase(t.at, pos - 1, Prec(pos))
  /\ t.do = "operand" =>
       /\ Phrase(t.kids[1] + 1, pos - 1, Prec(t.kids[1]) + 1)
       /\ Prec(pos) <= Prec(t.kids[1])
  /\ t.do = "parenthesis" => Closed(next.at + 1, pos - 1)
RootOf(n) ==
  n.kind = "binary" =>
    /\ n.at \in OuterOperators(n)
    /\ \A q \in OuterOperators(n) :
         /\ getPrecedence(tokens[n.at]) <= getPrecedence(tokens[q])
         /\ getPrecedence(tokens[n.at]) = getPrecedence(tokens[q]) => q <= n.at
Grouped ==
  stream.errors = {} =>
    /\ \A n \in DOMAIN nodes : RootOf(nodes[n])
    /\ \A i \in DOMAIN tasks : Waits(tasks[i])
    /\ tasks # << >> => Back(top, tasks[2], stream.pos)

-----------------------------------------------------------------------------
(* Sequences, and the list of tasks when its first one is replaced.        *)
LEMMA AllElements ==
  ASSUME NEW S, NEW s \in Seq(S)
  PROVE  /\ Len(s) \in Nat /\ DOMAIN s = 1..Len(s)
         /\ \A i \in 1..Len(s) : s[i] \in S
         /\ s # << >> <=> Len(s) > 0
  OBVIOUS

LEMMA Elements ==
  ASSUME NEW S, NEW s \in Seq(S)
  PROVE  ToSet(s) = {s[i] : i \in 1..Len(s)} /\ ToSet(s) \subseteq S
  <1>1. DOMAIN s = 1..Len(s) /\ \A i \in 1..Len(s) : s[i] \in S
    BY AllElements
  <1> QED BY <1>1 DEF ToSet

LEMMA Extended ==
  ASSUME NEW S, NEW s \in Seq(S), NEW e \in S
  PROVE  /\ Append(s, e) \in Seq(S) /\ Len(Append(s, e)) = Len(s) + 1
         /\ Append(s, e)[Len(s) + 1] = e
         /\ \A i \in 1..Len(s) : Append(s, e)[i] = s[i]
         /\ ToSet(Append(s, e)) = ToSet(s) \cup {e}
  <1>1. /\ Append(s, e) \in Seq(S) /\ Len(Append(s, e)) = Len(s) + 1
        /\ Append(s, e)[Len(s) + 1] = e
        /\ \A i \in 1..Len(s) : Append(s, e)[i] = s[i]
    OBVIOUS
  <1>2. ToSet(Append(s, e)) = {Append(s, e)[i] : i \in 1..(Len(s) + 1)}
    BY <1>1, Elements
  <1>3. ToSet(s) = {s[i] : i \in 1..Len(s)} /\ Len(s) \in Nat
    BY Elements
  <1>4. 1..(Len(s) + 1) = 1..Len(s) \cup {Len(s) + 1}
    BY <1>3
  <1> QED BY <1>1, <1>2, <1>3, <1>4

LEMMA NoElements == ToSet(<< >>) = {}
  BY DEF ToSet

LEMMA OneElement == \A e : ToSet(<<e>>) = {e}
  BY DEF ToSet

LEMMA TwoElements == \A a, b : ToSet(<<a, b>>) = {a, b}
  BY DEF ToSet

LEMMA Withs ==
  ASSUME NEW kids \in Seq(Nat), NEW child \in Nat
  PROVE  /\ With(kids, child) \in Seq(Nat)
         /\ ToSet(With(kids, child)) = ToSet(kids) \cup ({child} \ {Null})
  <1>1. CASE child = Null
    BY <1>1 DEF With, Null
  <1>2. CASE child # Null
    BY <1>2, Extended DEF With, Null
  <1> QED BY <1>1, <1>2

LEMMA Popped ==
  ASSUME NEW S, NEW s \in Seq(S), s # << >>, NEW u, u = << >> \o Tail(s)
  PROVE  /\ u \in Seq(S) /\ Len(u) = Len(s) - 1
         /\ \A i \in 1..Len(u) : u[i] = s[i + 1]
         /\ Head(s) = s[1]
  <1>1. /\ Tail(s) \in Seq(S) /\ Len(Tail(s)) = Len(s) - 1
        /\ \A i \in 1..Len(Tail(s)) : Tail(s)[i] = s[i + 1]
    BY HeadTailProperties
  <1>2. u = Tail(s)
    BY <1>1, ConcatEmptySeq
  <1> QED BY <1>1, <1>2

LEMMA Swapped ==
  ASSUME NEW S, NEW s \in Seq(S), s # << >>, NEW a \in S, NEW u, u = <<a>> \o Tail(s)
  PROVE  /\ u \in Seq(S) /\ Len(u) = Len(s) /\ u[1] = a /\ u # << >> /\ Head(u) = a
         /\ \A i \in 2..Len(u) : u[i] = s[i]
         /\ Head(s) = s[1]
  <1>1. /\ Tail(s) \in Seq(S) /\ Len(Tail(s)) = Len(s) - 1
        /\ \A i \in 1..Len(Tail(s)) : Tail(s)[i] = s[i + 1]
    BY HeadTailProperties
  <1>2. <<a>> \in Seq(S) /\ Len(<<a>>) = 1 /\ <<a>>[1] = a /\ Len(s) \in Nat \ {0}
    OBVIOUS
  <1>3. /\ u \in Seq(S) /\ Len(u) = 1 + Len(Tail(s))
        /\ \A i \in 1..(1 + Len(Tail(s))) : u[i] = IF i <= 1 THEN <<a>>[i] ELSE Tail(s)[i - 1]
    <2> DEFINE one == <<a>>
    <2>1. one \in Seq(S) /\ Len(one) = 1 /\ one[1] = a /\ u = one \o Tail(s)
      BY <1>2
    <2>2. \A i \in 1..(1 + Len(Tail(s))) : i <= 1 => i = 1
      BY <1>1
    <2> HIDE DEF one
    <2>3. /\ u \in Seq(S) /\ Len(u) = Len(one) + Len(Tail(s))
          /\ \A i \in 1..(Len(one) + Len(Tail(s))) : u[i] = IF i <= Len(one) THEN one[i] ELSE Tail(s)[i - Len(one)]
      BY <1>1, <2>1, ConcatProperties
    <2>4. \A i \in 1..(1 + Len(Tail(s))) : u[i] = IF i <= 1 THEN one[i] ELSE Tail(s)[i - 1]
      BY <2>1, <2>3
    <2> USE DEF one
    <2> QED BY <1>1, <2>1, <2>3, <2>4
  <1>4. u[1] = a /\ Len(u) = Len(s) /\ u # << >> /\ \A i \in 2..Len(u) : u[i] = Tail(s)[i - 1]
    BY <1>1, <1>2, <1>3
  <1>5. \A i \in 2..Len(u) : i - 1 \in 1..Len(Tail(s)) /\ (i - 1) + 1 = i
    BY <1>1, <1>2, <1>4
  <1> QED BY <1>1, <1>2, <1>3, <1>4, <1>5

LEMMA Pushed ==
  ASSUME NEW S, NEW s \in Seq(S), s # << >>, NEW a \in S, NEW b \in S,
         NEW u, u = <<a, b>> \o Tail(s)
  PROVE  /\ u \in Seq(S) /\ Len(u) = Len(s) + 1 /\ u[1] = a /\ u[2] = b
         /\ u # << >> /\ Head(u) = a
         /\ \A i \in 3..Len(u) : u[i] = s[i - 1]
         /\ Head(s) = s[1]
  <1>1. /\ Tail(s) \in Seq(S) /\ Len(Tail(s)) = Len(s) - 1
        /\ \A i \in 1..Len(Tail(s)) : Tail(s)[i] = s[i + 1]
    BY HeadTailProperties
  <1> DEFINE two == <<a, b>>
  <1>2. two \in Seq(S) /\ Len(two) = 2 /\ two[1] = a /\ two[2] = b
    OBVIOUS
  <1>3. u = two \o Tail(s) /\ Len(s) \in Nat \ {0}
    OBVIOUS
  <1> HIDE DEF two
  <1>4. /\ u \in Seq(S) /\ Len(u) = Len(two) + Len(Tail(s))
        /\ \A i \in 1..(Len(two) + Len(Tail(s))) : u[i] = IF i <= Len(two) THEN two[i] ELSE Tail(s)[i - Len(two)]
    BY <1>1, <1>2, <1>3, ConcatProperties
  <1>5. u[1] = a /\ u[2] = b /\ Len(u) = Len(s) + 1 /\ \A i \in 3..Len(u) : u[i] = Tail(s)[i - 2]
    BY <1>1, <1>2, <1>3, <1>4
  <1>6. \A i \in 3..Len(u) : i - 2 \in 1..Len(Tail(s)) /\ (i - 2) + 1 = i - 1
    BY <1>1, <1>3, <1>5
  <1>7. u # << >> /\ Head(u) = u[1] /\ Head(s) = s[1]
    BY <1>3, <1>4, <1>5
  <1> QED BY <1>1, <1>4, <1>5, <1>6, <1>7

-----------------------------------------------------------------------------
(* The stream.                                                             *)
LEMMA TokensShape ==
  ASSUME tokens \in Inputs
  PROVE  /\ Len(tokens) \in Nat \ {0} /\ DOMAIN tokens = 1..Len(tokens)
         /\ \A k \in 1..Len(tokens) : tokens[k] \in Kinds \cup {"eof"}
         /\ \A k \in 1..Len(tokens) : tokens[k] = "eof" <=> k = Len(tokens)
  <1>1. /\ tokens \in Seq(Kinds \cup {"eof"}) /\ tokens # << >>
        /\ \A k \in DOMAIN tokens : tokens[k] = "eof" <=> k = Len(tokens)
    BY InputsAssumption
  <1> HIDE DEF Kinds
  <1>2. /\ Len(tokens) \in Nat /\ DOMAIN tokens = 1..Len(tokens) /\ Len(tokens) > 0
        /\ \A k \in 1..Len(tokens) : tokens[k] \in Kinds \cup {"eof"}
    <2> DEFINE S == Kinds \cup {"eof"}
    <2>1. tokens \in Seq(S) /\ tokens # << >>
      BY <1>1
    <2> HIDE DEF S
    <2>2. /\ Len(tokens) \in Nat /\ DOMAIN tokens = 1..Len(tokens) /\ Len(tokens) > 0
          /\ \A k \in 1..Len(tokens) : tokens[k] \in S
      BY ONLY <2>1, AllElements
    <2> QED BY <2>2 DEF S
  <1>3. \A k \in 1..Len(tokens) : tokens[k] = "eof" <=> k = Len(tokens)
    BY <1>1, <1>2
  <1>4. Len(tokens) \in Nat \ {0}
    BY <1>2
  <1> QED BY <1>2, <1>3, <1>4

(* Nothing that has to be in the tree stands between the two, unless an    *)
(* error was reported.                                                     *)
Quiet(s, u) ==
  /\ u \in Streams /\ s.pos <= u.pos /\ s.errors \subseteq u.errors
  /\ u.errors = {} => \A q \in s.pos..(u.pos - 1) : ~Word(q)

LEMMA QuietSelf ==
  ASSUME NEW s \in Streams
  PROVE  Quiet(s, s)
  BY DEF Quiet, Streams, Positions

LEMMA QuietTwice ==
  ASSUME NEW s \in Streams, NEW u \in Streams, NEW v, Quiet(s, u), Quiet(u, v)
  PROVE  Quiet(s, v)
  <1>1. s.pos \in Int /\ u.pos \in Int /\ v.pos \in Int /\ v \in Streams
    BY TokensShape DEF Quiet, Streams, Positions
  <1>2. ASSUME v.errors = {}, NEW q \in s.pos..(v.pos - 1), Word(q)
        PROVE  FALSE
    <2>1. u.errors = {}
      BY <1>2 DEF Quiet
    <2>2. CASE q < u.pos
      BY <1>1, <1>2, <2>1, <2>2 DEF Quiet
    <2>3. CASE q >= u.pos
      BY <1>1, <1>2, <2>3 DEF Quiet
    <2> QED BY <1>1, <2>2, <2>3
  <1> QED BY <1>1, <1>2 DEF Quiet

LEMMA QuietAfterError ==
  ASSUME NEW s \in Streams, NEW u \in Streams, s.pos <= u.pos, s.errors \subseteq u.errors,
         u.errors # {}
  PROVE  Quiet(s, u)
  BY DEF Quiet

LEMMA Errors ==
  ASSUME NEW s \in Streams
  PROVE  /\ error(s) \in Streams /\ error(s).pos = s.pos /\ error(s).errors # {}
         /\ s.errors \subseteq error(s).errors /\ Quiet(s, error(s))
  <1>1. /\ error(s) \in Streams /\ error(s).pos = s.pos /\ error(s).errors # {}
        /\ s.errors \subseteq error(s).errors
    BY DEF error, Streams, Positions
  <1>2. s.pos \in Int
    BY DEF Streams, Positions
  <1> QED BY <1>1, <1>2, QuietAfterError

LEMMA Advances ==
  ASSUME tokens \in Inputs, NEW s \in Streams
  PROVE  /\ advance(s) \in Streams /\ advance(s).errors = s.errors
         /\ s.pos <= advance(s).pos
         /\ cur(s) = "eof" => advance(s) = s
         /\ cur(s) # "eof" => advance(s).pos = s.pos + 1
         /\ ~Word(s.pos) => Quiet(s, advance(s))
  <1>1. /\ s.pos \in 1..Len(tokens) /\ Len(tokens) \in Nat \ {0}
        /\ cur(s) = "eof" <=> s.pos = Len(tokens)
    BY TokensShape DEF Streams, Positions, cur
  <1>2. CASE s.pos = Len(tokens)
    <2>1. advance(s) = s
      BY <1>2 DEF advance, Streams
    <2> QED BY <1>1, <1>2, <2>1, QuietSelf
  <1>3. CASE s.pos # Len(tokens)
    <2>1. /\ advance(s) \in Streams /\ advance(s).errors = s.errors
          /\ advance(s).pos = s.pos + 1
      BY <1>1, <1>3 DEF advance, Streams, Positions
    <2>2. ~Word(s.pos) => Quiet(s, advance(s))
      <3>1. \A q \in s.pos..((s.pos + 1) - 1) : q = s.pos
        BY <1>1
      <3> QED BY <1>1, <2>1, <3>1 DEF Quiet
    <2> QED BY <1>1, <1>3, <2>1, <2>2
  <1> QED BY <1>2, <1>3

LEMMA Expects ==
  ASSUME tokens \in Inputs, NEW s \in Streams, NEW kind, kind \notin Literals \cup {"id"}
  PROVE  /\ expect(s, kind) \in Streams /\ Quiet(s, expect(s, kind))
         /\ s.pos <= expect(s, kind).pos
         /\ expect(s, kind).errors = {} => cur(s) = kind /\ expect(s, kind) = advance(s)
  <1>1. CASE cur(s) = kind
    <2>1. ~Word(s.pos) /\ expect(s, kind) = advance(s)
      BY <1>1 DEF Word, cur, expect
    <2> QED BY <1>1, <2>1, Advances
  <1>2. CASE cur(s) # kind
    <2>1. expect(s, kind) = error(s)
      BY <1>2 DEF expect
    <2>2. s.pos <= s.pos
      BY DEF Streams, Positions
    <2> QED BY <1>2, <2>1, <2>2, Errors
  <1> QED BY <1>1, <1>2

LEMMA LeastOf ==
  ASSUME NEW T, T \subseteq Nat, T # {}
  PROVE  \E m \in T : \A k \in T : m <= k
  <1>1. PICK x \in T : \A y \in T : ~(<<y, x>> \in OpToRel(<, Nat))
    BY WFMin, NatLessThanWellFounded, Zenon
  <1>2. \A y \in T : ~(y < x)
    BY <1>1, Zenon DEF OpToRel
  <1> QED BY <1>2

LEMMA Finds ==
  ASSUME tokens \in Inputs, NEW s \in Streams, NEW kinds
  PROVE  /\ FirstOf(s, kinds) \in Streams /\ FirstOf(s, kinds).errors = s.errors
         /\ s.pos <= FirstOf(s, kinds).pos
         /\ cur(FirstOf(s, kinds)) \in kinds \cup {"eof"}
         /\ \A q \in s.pos..(FirstOf(s, kinds).pos - 1) : tokens[q] \notin kinds
  <1>1. /\ s.pos \in 1..Len(tokens) /\ Len(tokens) \in Nat \ {0}
        /\ tokens[Len(tokens)] = "eof"
    <2>1. \A n \in Nat \ {0} : n \in 1..n
      OBVIOUS
    <2> QED BY <2>1, TokensShape DEF Streams, Positions
  <1> DEFINE T == {p \in s.pos..Len(tokens) : tokens[p] \in kinds \cup {"eof"}}
             P(p) == /\ tokens[p] \in kinds \cup {"eof"}
                     /\ \A q \in s.pos..(p - 1) : tokens[q] \notin kinds
             found == CHOOSE p \in s.pos..Len(tokens) : P(p)
  <1>2. PICK m \in T : \A k \in T : m <= k
    <2>1. T \subseteq Nat /\ T # {}
      BY <1>1
    <2> HIDE DEF T
    <2> QED BY <2>1, LeastOf
  <1>3. P(m) /\ m \in s.pos..Len(tokens)
    <2>1. \A q \in s.pos..(m - 1) : q \notin T /\ q \in s.pos..Len(tokens)
      BY <1>1, <1>2
    <2> QED BY <1>2, <2>1
  <1>4. found \in s.pos..Len(tokens) /\ P(found)
    BY <1>3
  <1>5. FirstOf(s, kinds) = [s EXCEPT !.pos = found]
    BY DEF FirstOf
  <1> HIDE DEF found
  <1>6. found \in 1..Len(tokens) /\ s.pos <= found
    BY <1>1, <1>4
  <1>7. /\ FirstOf(s, kinds) \in Streams /\ FirstOf(s, kinds).errors = s.errors
        /\ FirstOf(s, kinds).pos = found
    BY <1>5, <1>6 DEF Streams, Positions
  <1> QED BY <1>4, <1>6, <1>7 DEF cur

LEMMA Synchronizes ==
  ASSUME tokens \in Inputs, NEW s \in Streams, s.errors # {}, NEW isGlobal
  PROVE  Quiet(s, synchronize(s, isGlobal))
  <1> DEFINE found == FirstOf(advance(s), Boundaries(isGlobal))
  <1>1. advance(s) \in Streams /\ advance(s).errors = s.errors /\ s.pos <= advance(s).pos
    BY Advances
  <1>2. found \in Streams /\ found.errors = s.errors /\ advance(s).pos <= found.pos
    BY <1>1, Finds
  <1>3. /\ synchronize(s, isGlobal) \in {found, advance(found)}
    BY DEF synchronize
  <1> HIDE DEF found
  <1>4. advance(found) \in Streams /\ advance(found).errors = s.errors
          /\ found.pos <= advance(found).pos
    BY <1>2, Advances
  <1>5. s.pos \in Int /\ advance(s).pos \in Int /\ found.pos \in Int /\ advance(found).pos \in Int
    BY <1>1, <1>2, <1>4 DEF Streams, Positions
  <1> QED BY <1>1, <1>2, <1>3, <1>4, <1>5, QuietAfterError

-----------------------------------------------------------------------------
(* What a step does with the list of tasks and with the nodes that its     *)
(* task has in hand: a call is made, or the function goes on; it returns   *)
(* what it has, or a new node made of that; or it keeps a new node.        *)
Fit(t, n) == t \in Tasks /\ TaskOK(t) /\ Holds(t) \subseteq 1..n
Outermost(t) == t.do \in {"parse", "addDeclaration"}

Steps ==
  /\ tasks # << >> /\ tokens' = tokens
  /\ stream' \in Streams /\ stream.errors \subseteq stream'.errors
Calls(call, rest) ==
  /\ Steps /\ tasks' = <<call, rest>> \o Tail(tasks) /\ nodes' = nodes /\ ret' = ret
  /\ Fit(call, Len(nodes)) /\ call.do \notin Readers \cup {"record"} /\ Holds(call) = {}
  /\ Fit(rest, Len(nodes)) /\ rest.do \in Readers /\ Holds(rest) = Hand
  /\ Outermost(top) => Outermost(rest)
GoesOn(rest) ==
  /\ Steps /\ tasks' = <<rest>> \o Tail(tasks) /\ nodes' = nodes /\ ret' = ret
  /\ Fit(rest, Len(nodes)) /\ rest.do \notin Readers /\ Holds(rest) = Hand
  /\ Outermost(top) => Outermost(rest)
  /\ rest.do = "record" => cur(stream)' \in RecordKeys
Returns(r) ==
  /\ Steps /\ tasks' = << >> \o Tail(tasks) /\ nodes' = nodes /\ ret' = r
  /\ r \in 0..Len(nodes) /\ {r} \ {Null} = Hand /\ (r = Null => stream'.errors # {})
  /\ ~Outermost(top)
ReturnsNew(node) ==
  /\ Steps /\ tasks' = << >> \o Tail(tasks)
  /\ nodes' = Append(nodes, node) /\ ret' = Len(nodes) + 1
  /\ node \in NodeSet /\ ToSet(node.kids) = Hand
  /\ Outermost(top) => stream'.pos = Len(tokens)
Adds(node, rest) ==
  /\ Steps /\ tasks' = <<rest>> \o Tail(tasks)
  /\ nodes' = Append(nodes, node) /\ ret' \in {ret, Len(nodes) + 1}
  /\ node \in NodeSet /\ ToSet(node.kids) \subseteq Hand
  /\ Fit(rest, Len(nodes) + 1) /\ rest.do # "record" /\ ~Outermost(top)
  /\ rest.do \in Readers => /\ ToSet(node.kids) = Hand /\ Holds(rest) = {}
                            /\ ret' = Len(nodes) + 1
  /\ rest.do \notin Readers => Holds(rest) = (Hand \ ToSet(node.kids)) \cup {Len(nodes) + 1}

Built == Typed /\ Line /\ Owned

LEMMA Shapes ==
  ASSUME Typed
  PROVE  /\ Len(tasks) \in Nat /\ DOMAIN tasks = 1..Len(tasks)
         /\ tasks # << >> <=> Len(tasks) > 0
         /\ tasks # << >> => top = tasks[1]
         /\ \A i \in 1..Len(tasks) : tasks[i] \in Tasks
         /\ Len(nodes) \in Nat /\ DOMAIN nodes = 1..Len(nodes)
         /\ \A n \in 1..Len(nodes) : nodes[n] \in NodeSet
         /\ Hand \subseteq 1..Len(nodes)
  <1>1. /\ tasks \in Seq(Tasks) /\ nodes \in Seq(NodeSet) /\ ret \in 0..Len(nodes)
        /\ \A i \in DOMAIN tasks : Holds(tasks[i]) \subseteq 1..Len(nodes)
    BY DEF Typed
  <1>2. /\ Len(tasks) \in Nat /\ DOMAIN tasks = 1..Len(tasks)
        /\ tasks # << >> <=> Len(tasks) > 0
        /\ \A i \in 1..Len(tasks) : tasks[i] \in Tasks
    <2> HIDE DEF Tasks
    <2> QED BY <1>1, AllElements
  <1>3. /\ Len(nodes) \in Nat /\ DOMAIN nodes = 1..Len(nodes)
        /\ \A n \in 1..Len(nodes) : nodes[n] \in NodeSet
    <2> HIDE DEF NodeSet
    <2> QED BY <1>1, AllElements
  <1>4. tasks # << >> => top = tasks[1] /\ 1 \in DOMAIN tasks
    BY <1>2 DEF top
  <1>5. Hand \subseteq 1..Len(nodes)
    BY <1>1, <1>3, <1>4 DEF Hand, Null
  <1> QED BY <1>2, <1>3, <1>4, <1>5

LEMMA OnPush ==
  ASSUME Typed, tasks # << >>, NEW call \in Tasks, NEW rest \in Tasks,
         tasks' = <<call, rest>> \o Tail(tasks)
  PROVE  /\ tasks' \in Seq(Tasks) /\ tasks' # << >> /\ top' = call
         /\ Len(tasks') = Len(tasks) + 1 /\ DOMAIN tasks' = 1..Len(tasks')
         /\ tasks'[1] = call /\ tasks'[2] = rest
         /\ \A i \in 3..Len(tasks') : i - 1 \in 2..Len(tasks) /\ tasks'[i] = tasks[i - 1]
         /\ \A i \in 2..Len(tasks) : i + 1 \in 3..Len(tasks') /\ tasks'[i + 1] = tasks[i]
  <1>1. tasks \in Seq(Tasks) /\ Len(tasks) \in Nat
    BY Shapes DEF Typed
  <1> HIDE DEF Tasks
  <1>2. /\ tasks' \in Seq(Tasks) /\ tasks' # << >> /\ Head(tasks') = call
        /\ Len(tasks') = Len(tasks) + 1
        /\ tasks'[1] = call /\ tasks'[2] = rest
        /\ \A i \in 3..Len(tasks') : tasks'[i] = tasks[i - 1]
    BY <1>1, Pushed
  <1>3. DOMAIN tasks' = 1..Len(tasks')
    BY <1>2
  <1>4. /\ \A i \in 3..Len(tasks') : i - 1 \in 2..Len(tasks)
        /\ \A i \in 2..Len(tasks) : i + 1 \in 3..Len(tasks') /\ (i + 1) - 1 = i
    BY <1>1, <1>2
  <1>5. \A i \in 2..Len(tasks) : tasks'[i + 1] = tasks[i]
    BY <1>2, <1>4
  <1> QED BY <1>2, <1>3, <1>4, <1>5 DEF top

LEMMA OnSwap ==
  ASSUME Typed, tasks # << >>, NEW rest \in Tasks, tasks' = <<rest>> \o Tail(tasks)
  PROVE  /\ tasks' \in Seq(Tasks) /\ tasks' # << >> /\ top' = rest
         /\ Len(tasks') = Len(tasks) /\ DOMAIN tasks' = 1..Len(tasks')
         /\ tasks'[1] = rest
         /\ \A i \in 2..Len(tasks) : tasks'[i] = tasks[i]
  <1>1. tasks \in Seq(Tasks)
    BY DEF Typed
  <1> HIDE DEF Tasks
  <1>2. /\ tasks' \in Seq(Tasks) /\ tasks' # << >> /\ Head(tasks') = rest
        /\ Len(tasks') = Len(tasks) /\ tasks'[1] = rest
        /\ \A i \in 2..Len(tasks') : tasks'[i] = tasks[i]
    BY <1>1, Swapped
  <1>3. DOMAIN tasks' = 1..Len(tasks')
    BY <1>2
  <1> QED BY <1>2, <1>3 DEF top

LEMMA OnPop ==
  ASSUME Typed, tasks # << >>, tasks' = << >> \o Tail(tasks)
  PROVE  /\ tasks' \in Seq(Tasks)
         /\ Len(tasks') = Len(tasks) - 1 /\ DOMAIN tasks' = 1..Len(tasks')
         /\ tasks' # << >> <=> Len(tasks) > 1
         /\ tasks' # << >> => top' = tasks[2]
         /\ \A i \in 1..Len(tasks') : i + 1 \in 2..Len(tasks) /\ tasks'[i] = tasks[i + 1]
         /\ \A i \in 2..Len(tasks) : i - 1 \in 1..Len(tasks') /\ tasks'[i - 1] = tasks[i]
  <1>1. tasks \in Seq(Tasks) /\ Len(tasks) \in Nat \ {0}
    BY Shapes DEF Typed
  <1> HIDE DEF Tasks
  <1>2. /\ tasks' \in Seq(Tasks) /\ Len(tasks') = Len(tasks) - 1
        /\ \A i \in 1..Len(tasks') : tasks'[i] = tasks[i + 1]
    BY <1>1, Popped
  <1>3. /\ DOMAIN tasks' = 1..Len(tasks')
        /\ tasks' # << >> <=> Len(tasks) > 1
        /\ tasks' # << >> => Head(tasks') = tasks'[1] /\ 1 \in 1..Len(tasks')
    <2>1. tasks' \in Seq(Tasks) /\ Len(tasks') = Len(tasks) - 1 /\ Len(tasks) \in Nat \ {0}
      BY <1>1, <1>2
    <2>2. DOMAIN tasks' = 1..Len(tasks') /\ (tasks' = << >> <=> Len(tasks') = 0)
      BY <2>1, LenProperties, EmptySeq
    <2>3. tasks' # << >> <=> Len(tasks) > 1
      BY ONLY <2>1, <2>2
    <2>4. tasks' # << >> => Head(tasks') = tasks'[1]
      BY ONLY <2>1
    <2>5. tasks' # << >> => 1 \in 1..Len(tasks')
      BY ONLY <2>1, <2>2
    <2> QED BY ONLY <2>2, <2>3, <2>4, <2>5
  <1>4. /\ \A i \in 1..Len(tasks') : i + 1 \in 2..Len(tasks)
        /\ \A i \in 2..Len(tasks) : i - 1 \in 1..Len(tasks') /\ (i - 1) + 1 = i
    BY <1>1, <1>2
  <1>5. \A i \in 2..Len(tasks) : tasks'[i - 1] = tasks[i]
    BY <1>2, <1>4
  <1>6. tasks' # << >> => top' = tasks[2]
    <2>1. tasks' # << >> => tasks'[1] = tasks[1 + 1]
      BY <1>2, <1>3
    <2> QED BY <1>3, <2>1 DEF top
  <1> QED BY <1>2, <1>3, <1>4, <1>5, <1>6

LEMMA OnAppend ==
  ASSUME Typed, NEW node \in NodeSet, nodes' = Append(nodes, node)
  PROVE  /\ nodes' \in Seq(NodeSet) /\ Len(nodes') = Len(nodes) + 1
         /\ DOMAIN nodes' = DOMAIN nodes \cup {Len(nodes) + 1}
         /\ DOMAIN nodes = 1..Len(nodes) /\ Len(nodes) \in Nat
         /\ nodes'[Len(nodes) + 1] = node
         /\ \A n \in DOMAIN nodes : nodes'[n] = nodes[n]
  <1>1. nodes \in Seq(NodeSet) /\ Len(nodes) \in Nat /\ DOMAIN nodes = 1..Len(nodes)
    BY Shapes DEF Typed
  <1> HIDE DEF NodeSet
  <1>2. /\ nodes' \in Seq(NodeSet) /\ Len(nodes') = Len(nodes) + 1
        /\ nodes'[Len(nodes) + 1] = node
        /\ \A n \in 1..Len(nodes) : nodes'[n] = nodes[n]
    BY <1>1, Extended
  <1>3. DOMAIN nodes' = 1..(Len(nodes) + 1)
    BY <1>2
  <1> QED BY <1>1, <1>2, <1>3

LEMMA TypesKept ==
  ASSUME Typed, tokens' = tokens, stream' \in Streams, tasks' \in Seq(Tasks),
         nodes' \in Seq(NodeSet), ret' \in 0..Len(nodes'),
         \A i \in DOMAIN tasks' : Fit(tasks'[i], Len(nodes')),
         \A n \in DOMAIN nodes' : ToSet(nodes'[n].kids) \subseteq 1..(n - 1)
  PROVE  Typed'
  <1>1. /\ stream' \in Streams' /\ tasks' \in Seq(Tasks)' /\ nodes' \in Seq(NodeSet)'
        /\ tokens' \in Inputs
    BY DEF Typed, Streams, Positions, Tasks, NodeSet
  <1>2. \A i \in DOMAIN tasks' :
          TaskOK(tasks[i])' /\ Holds(tasks[i])' \subseteq 1..Len(nodes')
    BY DEF Fit, TaskOK, Holds, Positions
  <1> QED BY <1>1, <1>2 DEF Typed

LEMMA StillFit ==
  ASSUME Typed, NEW i \in DOMAIN tasks
  PROVE  Fit(tasks[i], Len(nodes)) /\ Fit(tasks[i], Len(nodes) + 1)
  <1>1. tasks[i] \in Tasks /\ TaskOK(tasks[i]) /\ Holds(tasks[i]) \subseteq 1..Len(nodes)
    BY Shapes DEF Typed
  <1>2. Len(nodes) \in Nat
    BY Shapes
  <1> QED BY <1>1, <1>2 DEF Fit

LEMMA KidsKept ==
  ASSUME Typed, NEW node \in NodeSet, nodes' = Append(nodes, node), ToSet(node.kids) \subseteq Hand
  PROVE  /\ \A n \in DOMAIN nodes' : ToSet(nodes'[n].kids) \subseteq 1..(n - 1)
         /\ KidsOf' = [n \in 1..(Len(nodes) + 1) |->
                         IF n = Len(nodes) + 1 THEN ToSet(node.kids) ELSE KidsOf[n]]
         /\ Len(nodes') = Len(nodes) + 1 /\ nodes' \in Seq(NodeSet)
  <1>1. /\ nodes' \in Seq(NodeSet) /\ Len(nodes') = Len(nodes) + 1
        /\ DOMAIN nodes' = DOMAIN nodes \cup {Len(nodes) + 1}
        /\ DOMAIN nodes = 1..Len(nodes) /\ Len(nodes) \in Nat
        /\ nodes'[Len(nodes) + 1] = node
        /\ \A n \in DOMAIN nodes : nodes'[n] = nodes[n]
    BY OnAppend
  <1>2. Hand \subseteq 1..Len(nodes)
    BY Shapes
  <1>3. KidsOf' = [n \in DOMAIN nodes' |-> ToSet(nodes'[n].kids)]
    BY DEF KidsOf, ToSet
  <1>4. /\ DOMAIN nodes' = 1..(Len(nodes) + 1)
        /\ \A n \in 1..(Len(nodes) + 1) : n # Len(nodes) + 1 => n \in DOMAIN nodes
        /\ (Len(nodes) + 1) - 1 = Len(nodes)
    BY <1>1
  <1>5. \A n \in 1..(Len(nodes) + 1) :
          ToSet(nodes'[n].kids) = IF n = Len(nodes) + 1 THEN ToSet(node.kids) ELSE KidsOf[n]
    BY <1>1, <1>4 DEF KidsOf
  <1>6. \A n \in DOMAIN nodes' : ToSet(nodes'[n].kids) \subseteq 1..(n - 1)
    BY <1>1, <1>2, <1>4, <1>5 DEF Typed, KidsOf
  <1>7. KidsOf' = [n \in 1..(Len(nodes) + 1) |->
                         IF n = Len(nodes) + 1 THEN ToSet(node.kids) ELSE KidsOf[n]]
    BY <1>3, <1>4, <1>5
  <1> QED BY <1>1, <1>6, <1>7

LEMMA KidsInside ==
  ASSUME Typed
  PROVE  /\ DOMAIN KidsOf = 1..Len(nodes) /\ Len(nodes) \in Nat
         /\ \A n \in 1..Len(nodes) : KidsOf[n] \subseteq 1..Len(nodes)
         /\ DOMAIN Below = 1..(Len(tasks) - 1)
         /\ \A h \in 1..(Len(tasks) - 1) : Below[h] \subseteq 1..Len(nodes)
         /\ Len(tasks) > 1 => Below[Len(tasks) - 1] = Holds(tasks[2])
  <1>1. DOMAIN nodes = 1..Len(nodes) /\ Len(nodes) \in Nat /\ DOMAIN tasks = 1..Len(tasks)
        /\ Len(tasks) \in Nat
    BY Shapes
  <1>2. \A n \in 1..Len(nodes) : KidsOf[n] \subseteq 1..Len(nodes)
    <2>1. \A n \in 1..Len(nodes) : KidsOf[n] \subseteq 1..(n - 1)
      BY <1>1 DEF Typed, KidsOf
    <2>2. \A n \in 1..Len(nodes) : 1..(n - 1) \subseteq 1..Len(nodes)
      BY <1>1
    <2> QED BY <2>1, <2>2
  <1>3. \A h \in 1..(Len(tasks) - 1) : Len(tasks) + 1 - h \in DOMAIN tasks
    BY <1>1
  <1>4. \A h \in 1..(Len(tasks) - 1) : Below[h] = Holds(tasks[Len(tasks) + 1 - h])
    BY DEF Below
  <1>5. \A h \in 1..(Len(tasks) - 1) : Below[h] \subseteq 1..Len(nodes)
    BY <1>3, <1>4 DEF Typed
  <1>6. Len(tasks) > 1 => Below[Len(tasks) - 1] = Holds(tasks[2])
    <2>1. Len(tasks) > 1 =>
            Len(tasks) - 1 \in 1..(Len(tasks) - 1) /\ Len(tasks) + 1 - (Len(tasks) - 1) = 2
      BY <1>1
    <2> QED BY <1>4, <2>1
  <1> QED BY <1>1, <1>2, <1>5, <1>6 DEF KidsOf, Below

LEMMA SharesPop ==
  ASSUME NEW ks, NEW hand, NEW hs, Shares(ks, hand, hs), NEW x \in DOMAIN hs,
         NEW hs2, DOMAIN hs2 = DOMAIN hs \ {x}, \A i \in DOMAIN hs2 : hs2[i] = hs[i]
  PROVE  Shares(ks, hand \cup hs[x], hs2) /\ hand \cap hs[x] = {}
  BY DEF Shares

LEMMA SharesPush ==
  ASSUME NEW ks, NEW hand, NEW hs, Shares(ks, hand, hs), NEW x, x \notin DOMAIN hs,
         NEW hs2, DOMAIN hs2 = DOMAIN hs \cup {x}, \A i \in DOMAIN hs : hs2[i] = hs[i],
         hs2[x] = hand
  PROVE  Shares(ks, {}, hs2)
  BY DEF Shares

(* The nodes held below, by height: a step changes them at the top only.   *)
LEMMA BelowPush ==
  ASSUME Typed, tasks # << >>, NEW call \in Tasks, NEW rest \in Tasks,
         tasks' = <<call, rest>> \o Tail(tasks)
  PROVE  /\ Len(tasks) \notin DOMAIN Below
         /\ DOMAIN Below' = DOMAIN Below \cup {Len(tasks)}
         /\ Below'[Len(tasks)] = Holds(rest)
         /\ \A h \in DOMAIN Below : Below'[h] = Below[h]
  <1> DEFINE n == Len(tasks)
  <1>1. /\ Len(tasks') = n + 1 /\ tasks'[2] = rest
        /\ \A i \in 3..Len(tasks') : tasks'[i] = tasks[i - 1]
    BY OnPush
  <1>2. n \in Nat \ {0}
    BY Shapes
  <1>3. Below' = [h \in 1..(Len(tasks') - 1) |-> Holds(tasks'[Len(tasks') + 1 - h])]
    BY DEF Below, Holds, ToSet
  <1>4. Below' = [h \in 1..n |-> Holds(tasks'[(n + 1) + 1 - h])]
    BY <1>1, <1>2, <1>3
  <1>5. \A h \in 1..(n - 1) : /\ (n + 1) + 1 - h \in 3..(n + 1)
                             /\ ((n + 1) + 1 - h) - 1 = n + 1 - h
                             /\ h \in 1..n
    BY <1>2
  <1>6. n \in 1..n /\ (n + 1) + 1 - n = 2
    BY <1>2
  <1>7. \A h \in 1..(n - 1) : Below'[h] = Holds(tasks[n + 1 - h])
    BY <1>1, <1>4, <1>5
  <1>8. Below'[n] = Holds(rest)
    BY <1>1, <1>4, <1>6
  <1>9. DOMAIN Below = 1..(n - 1) /\ \A h \in 1..(n - 1) : Below[h] = Holds(tasks[n + 1 - h])
    BY DEF Below
  <1>10. DOMAIN Below' = 1..n
    BY <1>4
  <1>11. 1..n = 1..(n - 1) \cup {n} /\ n \notin 1..(n - 1)
    BY <1>2
  <1> HIDE DEF n
  <1>12. /\ n \notin DOMAIN Below /\ DOMAIN Below' = DOMAIN Below \cup {n}
         /\ Below'[n] = Holds(rest) /\ \A h \in DOMAIN Below : Below'[h] = Below[h]
    BY <1>7, <1>8, <1>9, <1>10, <1>11
  <1> QED BY <1>12 DEF n

LEMMA BelowSwap ==
  ASSUME Typed, tasks # << >>, NEW rest \in Tasks, tasks' = <<rest>> \o Tail(tasks)
  PROVE  Below' = Below
  <1> DEFINE n == Len(tasks)
  <1>1. /\ Len(tasks') = n /\ \A i \in 2..n : tasks'[i] = tasks[i]
    BY OnSwap
  <1>2. n \in Nat \ {0}
    BY Shapes
  <1>3. Below' = [h \in 1..(Len(tasks') - 1) |-> Holds(tasks'[Len(tasks') + 1 - h])]
    BY DEF Below, Holds, ToSet
  <1>4. Below' = [h \in 1..(n - 1) |-> Holds(tasks'[n + 1 - h])]
    BY <1>1, <1>2, <1>3
  <1>5. \A h \in 1..(n - 1) : n + 1 - h \in 2..n
    BY <1>2
  <1>6. \A h \in 1..(n - 1) : Holds(tasks'[n + 1 - h]) = Holds(tasks[n + 1 - h])
    BY <1>1, <1>5
  <1> QED BY <1>4, <1>6 DEF Below

LEMMA BelowPop ==
  ASSUME Typed, tasks # << >>, tasks' = << >> \o Tail(tasks)
  PROVE  /\ Len(tasks) = 1 => DOMAIN Below = {} /\ DOMAIN Below' = {}
         /\ Len(tasks) # 1 => /\ Len(tasks) - 1 \in DOMAIN Below
                              /\ DOMAIN Below' = DOMAIN Below \ {Len(tasks) - 1}
                              /\ \A h \in DOMAIN Below' : Below'[h] = Below[h]
                              /\ Below[Len(tasks) - 1] = Holds(tasks[2])
  <1> DEFINE n == Len(tasks)
  <1>1. /\ Len(tasks') = n - 1
        /\ \A i \in 1..Len(tasks') : tasks'[i] = tasks[i + 1]
    BY OnPop
  <1>2. n \in Nat \ {0}
    BY Shapes
  <1>3. Below' = [h \in 1..(Len(tasks') - 1) |-> Holds(tasks'[Len(tasks') + 1 - h])]
    BY DEF Below, Holds, ToSet
  <1>4. Below' = [h \in 1..(n - 2) |-> Holds(tasks'[n - h])]
    <2>1. Len(tasks') - 1 = n - 2 /\ \A h \in 1..(n - 2) : Len(tasks') + 1 - h = n - h
      BY <1>1, <1>2
    <2> QED BY <1>3, <2>1
  <1>5. \A h \in 1..(n - 2) : n - h \in 1..(n - 1) /\ (n - h) + 1 = n + 1 - h /\ h \in 1..(n - 1)
    BY <1>2
  <1>6. \A h \in 1..(n - 2) : Below'[h] = Holds(tasks[n + 1 - h])
    BY <1>1, <1>4, <1>5
  <1>7. DOMAIN Below = 1..(n - 1) /\ \A h \in 1..(n - 1) : Below[h] = Holds(tasks[n + 1 - h])
    BY DEF Below
  <1>8. DOMAIN Below' = 1..(n - 2)
    BY <1>4
  <1>9. n # 1 => /\ 1..(n - 2) = 1..(n - 1) \ {n - 1} /\ n - 1 \in 1..(n - 1)
                 /\ n + 1 - (n - 1) = 2
    <2>1. ASSUME NEW k \in Nat \ {0}, k # 1
          PROVE  /\ 1..(k - 2) = 1..(k - 1) \ {k - 1} /\ k - 1 \in 1..(k - 1)
                 /\ k + 1 - (k - 1) = 2
      <3>1. \A h \in 1..(k - 2) : h \in 1..(k - 1) \ {k - 1}
        BY <2>1
      <3>2. \A h \in 1..(k - 1) \ {k - 1} : h \in 1..(k - 2)
        BY <2>1
      <3>3. k - 1 \in 1..(k - 1) /\ k + 1 - (k - 1) = 2
        BY <2>1
      <3> QED BY <3>1, <3>2, <3>3
    <2> QED BY <1>2, <2>1
  <1>10. n = 1 => 1..(n - 2) = {} /\ 1..(n - 1) = {}
    BY <1>2
  <1> HIDE DEF n
  <1>11. /\ n = 1 => DOMAIN Below = {} /\ DOMAIN Below' = {}
         /\ n # 1 => /\ n - 1 \in DOMAIN Below
                     /\ DOMAIN Below' = DOMAIN Below \ {n - 1}
                     /\ \A h \in DOMAIN Below' : Below'[h] = Below[h]
                     /\ Below[n - 1] = Holds(tasks[2])
    BY <1>5, <1>6, <1>7, <1>8, <1>9, <1>10
  <1> QED BY <1>11 DEF n

LEMMA SharesNew ==
  ASSUME NEW N \in Nat, NEW ks, DOMAIN ks = 1..N, NEW hand \in SUBSET (1..N), NEW hs,
         \A n \in 1..N : ks[n] \subseteq 1..N, \A i \in DOMAIN hs : hs[i] \subseteq 1..N,
         Shares(ks, hand, hs), NEW K \in SUBSET hand,
         NEW ks2, ks2 = [n \in 1..(N + 1) |-> IF n = N + 1 THEN K ELSE ks[n]],
         NEW hand2, hand2 = (hand \ K) \cup {N + 1}
  PROVE  Shares(ks2, hand2, hs)
  <1>1. /\ DOMAIN ks2 = 1..(N + 1) /\ ks2[N + 1] = K
        /\ \A n \in 1..N : ks2[n] = ks[n] /\ n \in 1..(N + 1) /\ n # N + 1
        /\ \A n \in 1..(N + 1) : n = N + 1 \/ n \in 1..N
        /\ N + 1 \in 1..(N + 1)
        /\ N + 1 \notin 1..N
    OBVIOUS
  <1> HIDE DEF Shares
  <1>2. \A n \in DOMAIN ks2 :
       \/ \E p \in DOMAIN ks2 : n \in ks2[p]
       \/ n \in hand2
       \/ \E i \in DOMAIN hs : n \in hs[i]
    <2> SUFFICES ASSUME NEW n \in DOMAIN ks2, n \notin hand2, ~\E i \in DOMAIN hs : n \in hs[i]
                 PROVE  \E p \in DOMAIN ks2 : n \in ks2[p]
      OBVIOUS
    <2>1. n \in 1..N
      BY <1>1
    <2>2. CASE n \in K
      BY <1>1, <2>2
    <2>3. CASE n \notin K
      BY <1>1, <2>1, <2>3 DEF Shares
    <2> QED BY <2>2, <2>3
  <1>3. \A p, q \in DOMAIN ks2 : p # q => ks2[p] \cap ks2[q] = {}
    BY <1>1 DEF Shares
  <1>4. \A p \in DOMAIN ks2 : ks2[p] \cap hand2 = {}
    BY <1>1 DEF Shares
  <1>5. \A p \in DOMAIN ks2, i \in DOMAIN hs : ks2[p] \cap hs[i] = {}
    BY <1>1 DEF Shares
  <1>6. \A i \in DOMAIN hs : hand2 \cap hs[i] = {}
    BY <1>1 DEF Shares
  <1>7. \A i, j \in DOMAIN hs : i # j => hs[i] \cap hs[j] = {}
    BY DEF Shares
  <1> QED BY <1>2, <1>3, <1>4, <1>5, <1>6, <1>7 DEF Shares

LEMMA HandOf ==
  ASSUME tasks # << >>
  PROVE  /\ top.do \notin Readers => Hand = Holds(top)
         /\ top.do \in Readers => Hand = Holds(top) \cup ({ret} \ {Null})
  BY DEF Hand, Reading

LEMMA CallsKeeps ==
  ASSUME Built, NEW call, NEW rest, Calls(call, rest)
  PROVE  Built'
  <1> USE DEF Built
  <1>1. /\ Steps /\ tasks # << >> /\ call \in Tasks /\ rest \in Tasks
        /\ tasks' = <<call, rest>> \o Tail(tasks) /\ nodes' = nodes /\ ret' = ret
        /\ tokens' = tokens /\ stream' \in Streams /\ stream.errors \subseteq stream'.errors
        /\ Fit(call, Len(nodes)) /\ Fit(rest, Len(nodes))
        /\ call.do \notin Readers \cup {"record"} /\ rest.do \in Readers /\ Holds(call) = {} /\ Holds(rest) = Hand
        /\ Outermost(top) => Outermost(rest)
    BY DEF Calls, Steps, Fit
  <1>2. /\ tasks' \in Seq(Tasks) /\ tasks' # << >> /\ top' = call
        /\ Len(tasks') = Len(tasks) + 1 /\ DOMAIN tasks' = 1..Len(tasks')
        /\ tasks'[1] = call /\ tasks'[2] = rest
        /\ \A i \in 3..Len(tasks') : i - 1 \in 2..Len(tasks) /\ tasks'[i] = tasks[i - 1]
        /\ \A i \in 2..Len(tasks) : i + 1 \in 3..Len(tasks') /\ tasks'[i + 1] = tasks[i]
    BY <1>1, OnPush
  <1>3. /\ Len(tasks) \in Nat \ {0} /\ DOMAIN tasks = 1..Len(tasks) /\ top = tasks[1]
        /\ Len(nodes) \in Nat
    BY <1>1, Shapes
  <1>4. \A i \in DOMAIN tasks' : i = 1 \/ i = 2 \/ i \in 3..Len(tasks')
    BY <1>2, <1>3
  <1>5. \A i \in 2..Len(tasks) : i \in DOMAIN tasks
    BY <1>3
  <1>6. Typed'
    <2>1. \A i \in DOMAIN tasks' : Fit(tasks'[i], Len(nodes'))
      BY <1>1, <1>2, <1>4, <1>5, StillFit
    <2>2. /\ nodes' \in Seq(NodeSet) /\ ret' \in 0..Len(nodes')
          /\ \A n \in DOMAIN nodes' : ToSet(nodes'[n].kids) \subseteq 1..(n - 1)
      BY <1>1 DEF Typed
    <2> QED BY <1>1, <1>2, <2>1, <2>2, TypesKept
  <1>7. Line'
    <2>1. \A i \in DOMAIN tasks' : i # 1 => tasks'[i].do \in Readers
      BY <1>1, <1>2, <1>3, <1>4, <1>5 DEF Line
    <2>2. Outermost(tasks'[Len(tasks')])
      <3>1. CASE Len(tasks) = 1
        <4>1. Outermost(top) /\ Len(tasks') = 2
          BY <1>1, <1>2, <1>3, <3>1 DEF Line, Outermost
        <4> QED BY <1>1, <1>2, <4>1
      <3>2. CASE Len(tasks) # 1
        <4>1. Len(tasks) \in 2..Len(tasks)
          BY <1>3, <3>2
        <4> QED BY <1>1, <1>2, <4>1 DEF Line, Outermost
      <3> QED BY <3>1, <3>2
    <2>3. ~Reading'
      BY <1>1, <1>2 DEF Reading
    <2> QED BY <1>1, <1>2, <2>1, <2>2, <2>3 DEF Line, Outermost
  <1>8. Owned'
    <2>1. Hand' = {} /\ ~Reading'
      BY <1>1, <1>2 DEF Hand, Reading, Holds
    <2>2. KidsOf' = KidsOf
      BY <1>1 DEF KidsOf
    <2>3. /\ Len(tasks) \notin DOMAIN Below
          /\ DOMAIN Below' = DOMAIN Below \cup {Len(tasks)}
          /\ Below'[Len(tasks)] = Hand
          /\ \A h \in DOMAIN Below : Below'[h] = Below[h]
      BY <1>1, BelowPush
    <2>4. Shares(KidsOf, Hand, Below)
      BY DEF Owned
    <2>5. Shares(KidsOf, {}, Below')
      BY ONLY <2>3, <2>4, SharesPush
    <2> HIDE DEF Built
    <2> QED BY <2>1, <2>2, <2>5 DEF Owned
  <1> QED BY <1>6, <1>7, <1>8

LEMMA SwapLine ==
  ASSUME Built, NEW rest \in Tasks, tasks # << >>, tasks' = <<rest>> \o Tail(tasks),
         tokens' = tokens, Outermost(top) => Outermost(rest),
         stream'.errors = {} /\ rest.do \in Readers => ret' # Null,
         rest.do = "record" => cur(stream)' \in RecordKeys
  PROVE  Line'
  <1> USE DEF Built
  <1>1. /\ tasks' \in Seq(Tasks) /\ tasks' # << >> /\ top' = rest
        /\ Len(tasks') = Len(tasks) /\ DOMAIN tasks' = 1..Len(tasks')
        /\ tasks'[1] = rest
        /\ \A i \in 2..Len(tasks) : tasks'[i] = tasks[i]
    BY OnSwap
  <1>2. /\ Len(tasks) \in Nat \ {0} /\ DOMAIN tasks = 1..Len(tasks) /\ top = tasks[1]
    BY Shapes
  <1>3. \A i \in DOMAIN tasks' : i # 1 => tasks'[i].do \in Readers
    <2>1. \A i \in DOMAIN tasks' : i # 1 => i \in 2..Len(tasks) /\ i \in DOMAIN tasks
      BY <1>1, <1>2
    <2> QED BY <1>1, <2>1 DEF Line
  <1>4. Outermost(tasks'[Len(tasks')])
    <2>1. CASE Len(tasks) = 1
      BY <1>1, <1>2, <2>1 DEF Line, Outermost
    <2>2. CASE Len(tasks) # 1
      <3>1. Len(tasks) \in 2..Len(tasks)
        BY <1>2, <2>2
      <3> QED BY <1>1, <3>1 DEF Line, Outermost
    <2> QED BY <2>1, <2>2
  <1>5. stream'.errors = {} /\ Reading' => ret' # Null
    BY <1>1 DEF Reading
  <1> QED BY <1>1, <1>3, <1>4, <1>5 DEF Line, Outermost

LEMMA PopLine ==
  ASSUME Built, tasks # << >>, tasks' = << >> \o Tail(tasks),
         stream'.errors = {} => ret' # Null,
         Outermost(top) => stream'.pos = Len(tokens) /\ ret' = Len(nodes'), tokens' = tokens
  PROVE  Line' /\ Reading'
  <1> USE DEF Built
  <1>1. /\ Len(tasks') = Len(tasks) - 1 /\ DOMAIN tasks' = 1..Len(tasks')
        /\ tasks' # << >> <=> Len(tasks) > 1
        /\ tasks' # << >> => top' = tasks[2]
        /\ \A i \in 1..Len(tasks') : i + 1 \in 2..Len(tasks) /\ tasks'[i] = tasks[i + 1]
    BY OnPop
  <1>2. /\ Len(tasks) \in Nat \ {0} /\ DOMAIN tasks = 1..Len(tasks) /\ top = tasks[1]
    BY Shapes
  <1>3. \A i \in DOMAIN tasks' : tasks'[i].do \in Readers
    <2>1. \A i \in DOMAIN tasks' : i + 1 \in DOMAIN tasks /\ i + 1 # 1 /\ tasks'[i] = tasks[i + 1]
      BY <1>1, <1>2
    <2> QED BY <2>1 DEF Line
  <1>4. tasks' # << >> => Outermost(tasks'[Len(tasks')])
    <2>1. tasks' # << >> => Len(tasks') \in 1..Len(tasks') /\ Len(tasks') + 1 = Len(tasks)
      BY <1>1, <1>2
    <2> QED BY <1>1, <2>1 DEF Line, Outermost
  <1>5. tasks' = << >> => Outermost(top)
    <2>1. tasks' = << >> => Len(tasks) = 1
      BY <1>1, <1>2
    <2> QED BY <1>2, <2>1 DEF Line, Outermost
  <1>6. Reading' /\ (tasks' # << >> => top'.do \in Readers)
    <2>1. tasks' # << >> => 1 \in DOMAIN tasks' /\ top' = tasks'[1]
      BY <1>1, <1>2 DEF top
    <2> QED BY <1>3, <2>1 DEF Reading
  <1>7. tasks' # << >> => top'.do # "record"
    BY <1>6 DEF Readers, Conditionals
  <1> QED BY <1>3, <1>4, <1>5, <1>6, <1>7 DEF Line, Outermost

LEMMA GoesOnKeeps ==
  ASSUME Built, NEW rest, GoesOn(rest)
  PROVE  Built'
  <1> USE DEF Built
  <1>1. /\ tasks # << >> /\ rest \in Tasks
        /\ tasks' = <<rest>> \o Tail(tasks) /\ nodes' = nodes /\ ret' = ret
        /\ tokens' = tokens /\ stream' \in Streams /\ stream.errors \subseteq stream'.errors
        /\ Fit(rest, Len(nodes))
        /\ rest.do \notin Readers /\ Holds(rest) = Hand
        /\ Outermost(top) => Outermost(rest)
        /\ rest.do = "record" => cur(stream)' \in RecordKeys
    BY DEF GoesOn, Steps, Fit
  <1>2. /\ tasks' \in Seq(Tasks) /\ tasks' # << >> /\ top' = rest
        /\ Len(tasks') = Len(tasks) /\ DOMAIN tasks' = 1..Len(tasks')
        /\ tasks'[1] = rest
        /\ \A i \in 2..Len(tasks) : tasks'[i] = tasks[i]
    BY <1>1, OnSwap
  <1>3. Len(tasks) \in Nat \ {0} /\ DOMAIN tasks = 1..Len(tasks)
    BY <1>1, Shapes
  <1>4. Typed'
    <2>1. \A i \in DOMAIN tasks' : i = 1 \/ (i \in 2..Len(tasks) /\ i \in DOMAIN tasks)
      BY <1>2, <1>3
    <2>2. \A i \in DOMAIN tasks' : Fit(tasks'[i], Len(nodes'))
      BY <1>1, <1>2, <2>1, StillFit
    <2>3. /\ nodes' \in Seq(NodeSet) /\ ret' \in 0..Len(nodes')
          /\ \A n \in DOMAIN nodes' : ToSet(nodes'[n].kids) \subseteq 1..(n - 1)
      BY <1>1 DEF Typed
    <2> QED BY <1>1, <1>2, <2>2, <2>3, TypesKept
  <1>5. Line'
    BY <1>1, SwapLine
  <1>6. Owned'
    <2>1. Hand' = Hand /\ ~Reading'
      BY <1>1, <1>2 DEF Hand, Reading, Holds
    <2>2. KidsOf' = KidsOf
      BY <1>1 DEF KidsOf
    <2>3. Below' = Below
      BY <1>1, BelowSwap
    <2> HIDE DEF Built
    <2> QED BY <2>1, <2>2, <2>3 DEF Owned, Built
  <1> QED BY <1>4, <1>5, <1>6

LEMMA PopFits ==
  ASSUME Typed, tasks # << >>, tasks' = << >> \o Tail(tasks), NEW n, n \in {Len(nodes), Len(nodes) + 1}
  PROVE  tasks' \in Seq(Tasks) /\ \A i \in DOMAIN tasks' : Fit(tasks'[i], n)
  <1>1. /\ tasks' \in Seq(Tasks) /\ DOMAIN tasks' = 1..Len(tasks')
        /\ \A i \in 1..Len(tasks') : i + 1 \in 2..Len(tasks) /\ tasks'[i] = tasks[i + 1]
    BY OnPop
  <1>2. \A i \in 2..Len(tasks) : i \in DOMAIN tasks
    BY Shapes
  <1> QED BY <1>1, <1>2, StillFit

(* What is returned is in the hand of the task below.                      *)
LEMMA PopOwned ==
  ASSUME Built, tasks # << >>, tasks' = << >> \o Tail(tasks), Reading', NEW hand,
         hand = {ret'} \ {Null}, Shares(KidsOf', hand, Below)
  PROVE  Owned'
  <1> USE DEF Built
  <1>1. /\ Len(tasks) = 1 => DOMAIN Below = {} /\ DOMAIN Below' = {}
        /\ Len(tasks) # 1 => /\ Len(tasks) - 1 \in DOMAIN Below
                             /\ DOMAIN Below' = DOMAIN Below \ {Len(tasks) - 1}
                             /\ \A h \in DOMAIN Below' : Below'[h] = Below[h]
                             /\ Below[Len(tasks) - 1] = Holds(tasks[2])
    BY BelowPop
  <1>2. /\ tasks' # << >> <=> Len(tasks) # 1
        /\ tasks' # << >> => top' = tasks[2]
    BY OnPop, Shapes
  <1>3. Hand' = hand \cup (IF tasks' = << >> THEN {} ELSE Holds(tasks[2]))
    BY <1>2 DEF Hand, Holds
  <1>4. CASE Len(tasks) = 1
    <2>1. Shares(KidsOf', hand, Below')
      BY <1>1, <1>4 DEF Shares
    <2> QED BY <1>2, <1>3, <1>4, <2>1 DEF Owned
  <1>5. CASE Len(tasks) # 1
    <2>1. /\ Shares(KidsOf', hand \cup Below[Len(tasks) - 1], Below')
          /\ hand \cap Below[Len(tasks) - 1] = {}
      <3> DEFINE x == Len(tasks) - 1
                 ks == KidsOf'
                 hs == Below
                 hs2 == Below'
      <3>1. /\ x \in DOMAIN hs /\ DOMAIN hs2 = DOMAIN hs \ {x}
            /\ \A h \in DOMAIN hs2 : hs2[h] = hs[h]
        BY <1>1, <1>5
      <3>2. Shares(ks, hand, hs)
        OBVIOUS
      <3> HIDE DEF x, ks, hs, hs2
      <3>3. Shares(ks, hand \cup hs[x], hs2) /\ hand \cap hs[x] = {}
        BY ONLY <3>1, <3>2, SharesPop
      <3> QED BY <3>3 DEF x, ks, hs, hs2
    <2>2. Hand' = hand \cup Below[Len(tasks) - 1]
      BY <1>1, <1>2, <1>3, <1>5
    <2>3. ret' # Null => ret' \notin Holds(top)'
      BY <1>1, <1>2, <1>5, <2>1 DEF Holds
    <2>4. Null \notin Holds(tasks[2])
      <3>1. 2 \in DOMAIN tasks
        BY <1>5, Shapes
      <3> QED BY <3>1 DEF Typed, Null
    <2>5. ret' \notin Holds(top)'
      BY <1>2, <1>5, <2>3, <2>4 DEF Holds
    <2> QED BY <2>1, <2>2, <2>5 DEF Owned
  <1> QED BY <1>4, <1>5

LEMMA ReturnsKeeps ==
  ASSUME Built, NEW r, Returns(r)
  PROVE  Built'
  <1> USE DEF Built
  <1>1. /\ tasks # << >> /\ tasks' = << >> \o Tail(tasks) /\ nodes' = nodes /\ ret' = r
        /\ tokens' = tokens /\ stream' \in Streams /\ stream.errors \subseteq stream'.errors
        /\ r \in 0..Len(nodes) /\ {r} \ {Null} = Hand
        /\ ~Outermost(top) /\ (r = Null => stream'.errors # {})
    BY DEF Returns, Steps
  <1>2. Typed'
    <2>1. tasks' \in Seq(Tasks) /\ \A i \in DOMAIN tasks' : Fit(tasks'[i], Len(nodes'))
      BY <1>1, PopFits
    <2>2. /\ nodes' \in Seq(NodeSet) /\ ret' \in 0..Len(nodes')
          /\ \A n \in DOMAIN nodes' : ToSet(nodes'[n].kids) \subseteq 1..(n - 1)
      BY <1>1 DEF Typed
    <2> QED BY <1>1, <2>1, <2>2, TypesKept
  <1>3. Line' /\ Reading'
    BY <1>1, PopLine
  <1>4. Owned'
    <2>1. KidsOf' = KidsOf
      BY <1>1 DEF KidsOf
    <2>2. Shares(KidsOf', Hand, Below) /\ Hand = {ret'} \ {Null}
      BY <1>1, <2>1 DEF Owned
    <2> HIDE DEF Built
    <2> QED BY <1>1, <1>3, <2>2, PopOwned
  <1> QED BY <1>2, <1>3, <1>4

LEMMA NewShares ==
  ASSUME Built, NEW node \in NodeSet, nodes' = Append(nodes, node), ToSet(node.kids) \subseteq Hand
  PROVE  Shares(KidsOf', (Hand \ ToSet(node.kids)) \cup {Len(nodes) + 1}, Below)
  <1> DEFINE K == ToSet(node.kids)
             hand2 == (Hand \ K) \cup {Len(nodes) + 1}
             n == Len(nodes)
             ks2 == [k \in 1..(n + 1) |-> IF k = n + 1 THEN K ELSE KidsOf[k]]
  <1>1. KidsOf' = ks2
    BY KidsKept DEF Built
  <1>2. /\ DOMAIN KidsOf = 1..n /\ n \in Nat
        /\ \A k \in 1..n : KidsOf[k] \subseteq 1..n
        /\ \A h \in DOMAIN Below : Below[h] \subseteq 1..n
    BY KidsInside DEF Built
  <1>3. Hand \in SUBSET (1..n) /\ K \in SUBSET Hand /\ Shares(KidsOf, Hand, Below)
    BY Shapes DEF Built, Owned
  <1>4. hand2 = (Hand \ K) \cup {n + 1} /\ ks2 = [k \in 1..(n + 1) |-> IF k = n + 1 THEN K ELSE KidsOf[k]]
    OBVIOUS
  <1> HIDE DEF K, hand2, n, ks2
  <1>5. Shares(ks2, hand2, Below)
    BY ONLY <1>2, <1>3, <1>4, SharesNew
  <1> QED BY <1>1, <1>5 DEF hand2, K, n

LEMMA ReturnsNewKeeps ==
  ASSUME Built, NEW node, ReturnsNew(node)
  PROVE  Built'
  <1> USE DEF Built
  <1>1. /\ tasks # << >> /\ tasks' = << >> \o Tail(tasks)
        /\ nodes' = Append(nodes, node) /\ ret' = Len(nodes) + 1
        /\ tokens' = tokens /\ stream' \in Streams /\ stream.errors \subseteq stream'.errors
        /\ node \in NodeSet /\ ToSet(node.kids) = Hand
        /\ Outermost(top) => stream'.pos = Len(tokens)
    BY DEF ReturnsNew, Steps
  <1>2. /\ Len(nodes) \in Nat /\ Len(nodes') = Len(nodes) + 1 /\ nodes' \in Seq(NodeSet)
        /\ \A n \in DOMAIN nodes' : ToSet(nodes'[n].kids) \subseteq 1..(n - 1)
    BY <1>1, KidsKept, Shapes
  <1>3. ret' \in 0..Len(nodes') /\ ret' # Null /\ ret' = Len(nodes')
    BY <1>1, <1>2 DEF Null
  <1>4. Typed'
    <2>1. tasks' \in Seq(Tasks) /\ \A i \in DOMAIN tasks' : Fit(tasks'[i], Len(nodes'))
      BY <1>1, <1>2, PopFits
    <2> QED BY <1>1, <1>2, <1>3, <2>1, TypesKept
  <1>5. Line' /\ Reading'
    BY <1>1, <1>3, PopLine
  <1>6. Owned'
    <2>1. Shares(KidsOf', (Hand \ ToSet(node.kids)) \cup {Len(nodes) + 1}, Below)
      BY <1>1, NewShares
    <2>2. (Hand \ ToSet(node.kids)) \cup {Len(nodes) + 1} = {ret'} \ {Null}
      BY <1>1, <1>3
    <2>3. Shares(KidsOf', {ret'} \ {Null}, Below)
      BY <2>1, <2>2
    <2> HIDE DEF Built
    <2> QED BY <1>1, <1>5, <2>3, PopOwned
  <1> QED BY <1>4, <1>5, <1>6

LEMMA AddsKeeps ==
  ASSUME Built, NEW node, NEW rest, Adds(node, rest)
  PROVE  Built'
  <1> USE DEF Built
  <1>1. /\ tasks # << >> /\ tasks' = <<rest>> \o Tail(tasks) /\ rest \in Tasks
        /\ nodes' = Append(nodes, node) /\ ret' \in {ret, Len(nodes) + 1}
        /\ tokens' = tokens /\ stream' \in Streams /\ stream.errors \subseteq stream'.errors
        /\ node \in NodeSet /\ ToSet(node.kids) \subseteq Hand
        /\ Fit(rest, Len(nodes) + 1) /\ rest.do # "record" /\ ~Outermost(top)
        /\ rest.do \in Readers => /\ ToSet(node.kids) = Hand /\ Holds(rest) = {}
                                  /\ ret' = Len(nodes) + 1
        /\ rest.do \notin Readers => Holds(rest) = (Hand \ ToSet(node.kids)) \cup {Len(nodes) + 1}
    BY DEF Adds, Steps, Fit
  <1>2. /\ Len(nodes) \in Nat /\ Len(nodes') = Len(nodes) + 1 /\ nodes' \in Seq(NodeSet)
        /\ \A n \in DOMAIN nodes' : ToSet(nodes'[n].kids) \subseteq 1..(n - 1)
    BY <1>1, KidsKept, Shapes
  <1>3. ret' \in 0..Len(nodes') /\ Len(nodes) + 1 # Null
    BY <1>1, <1>2 DEF Null, Typed
  <1>4. /\ tasks' \in Seq(Tasks) /\ tasks' # << >> /\ top' = rest
        /\ Len(tasks') = Len(tasks) /\ DOMAIN tasks' = 1..Len(tasks')
        /\ tasks'[1] = rest
        /\ \A i \in 2..Len(tasks) : tasks'[i] = tasks[i]
    BY <1>1, OnSwap
  <1>5. Typed'
    <2>1. \A i \in DOMAIN tasks' : i = 1 \/ (i \in 2..Len(tasks) /\ i \in DOMAIN tasks)
      BY <1>4, Shapes
    <2>2. \A i \in DOMAIN tasks' : Fit(tasks'[i], Len(nodes'))
      BY <1>1, <1>2, <1>4, <2>1, StillFit
    <2> QED BY <1>1, <1>2, <1>3, <1>4, <2>2, TypesKept
  <1>6. Line'
    BY <1>1, <1>3, SwapLine
  <1>7. Owned'
    <2>1. Shares(KidsOf', (Hand \ ToSet(node.kids)) \cup {Len(nodes) + 1}, Below)
      BY <1>1, NewShares
    <2>2. Below' = Below
      BY <1>1, BelowSwap
    <2>3. Holds(top)' = Holds(rest)
      BY <1>4 DEF Holds
    <2>4. Hand' = (Hand \ ToSet(node.kids)) \cup {Len(nodes) + 1}
      <3>1. CASE rest.do \in Readers
        BY <1>1, <1>3, <1>4, <2>3, <3>1 DEF Hand, Reading
      <3>2. CASE rest.do \notin Readers
        BY <1>1, <1>4, <2>3, <3>2 DEF Hand, Reading
      <3> QED BY <3>1, <3>2
    <2>5. Reading' => ret' \notin Holds(top)'
      BY <1>1, <1>4, <2>3 DEF Reading
    <2> HIDE DEF Built
    <2> QED BY <2>1, <2>2, <2>4, <2>5 DEF Owned
  <1> QED BY <1>5, <1>6, <1>7

-----------------------------------------------------------------------------
(* Every step is one of these; those of an expression are told apart.      *)
Inner == ExprTasks \cup {"primary", "parenthesis"}
Outside(t) == t.do \notin Inner

Aside ==
  /\ Outside(top)
  /\ \/ \E call, rest : Calls(call, rest) /\ Outside(rest) /\ (call.do = "helper" \/ Outside(call))
     \/ \E rest : GoesOn(rest) /\ Outside(rest)
     \/ \E r : Returns(r)
     \/ \E node : ReturnsNew(node) /\ node.kind # "binary"
     \/ \E node, rest : Adds(node, rest) /\ node.kind # "binary" /\ Outside(rest)
Moves ==
  \/ \E call, rest : Calls(call, rest)
  \/ \E rest : GoesOn(rest)
  \/ \E r : Returns(r)
  \/ \E node : ReturnsNew(node)
  \/ \E node, rest : Adds(node, rest)

(* What the step passes over, and what the task on top answers for, is in  *)
(* the tree or in a task afterwards.                                       *)
Found(q) == InTree(q)' \/ \E i \in DOMAIN tasks' : InTask(tasks'[i], q)
WordsMove ==
  /\ \A q \in 1..Len(tokens) : InTask(top, q) => Found(q)
  /\ stream'.errors = {} =>
       \A q \in stream.pos..(stream'.pos - 1) : Word(q) => Found(q)

LEMMA TopFacts ==
  ASSUME Built, tasks # << >>
  PROVE  /\ top \in Tasks /\ TaskOK(top) /\ Holds(top) \subseteq 1..Len(nodes)
         /\ ret \in 0..Len(nodes) /\ Len(nodes) \in Nat /\ stream \in Streams
         /\ tokens \in Inputs /\ stream.pos \in 1..Len(tokens) /\ Len(tokens) \in Nat \ {0}
         /\ Hand \subseteq 1..Len(nodes)
         /\ top.do \notin Readers => Hand = Holds(top)
         /\ top.do \in Readers => Hand = Holds(top) \cup ({ret} \ {Null})
  <1>1. Typed
    BY DEF Built
  <1>2. /\ top = tasks[1] /\ 1 \in DOMAIN tasks /\ tasks[1] \in Tasks /\ Len(nodes) \in Nat
        /\ Hand \subseteq 1..Len(nodes)
    BY <1>1, Shapes
  <1>3. /\ TaskOK(top) /\ Holds(top) \subseteq 1..Len(nodes)
        /\ ret \in 0..Len(nodes) /\ stream \in Streams /\ tokens \in Inputs
    BY <1>1, <1>2 DEF Typed
  <1>4. stream.pos \in 1..Len(tokens) /\ Len(tokens) \in Nat \ {0}
    BY <1>3, TokensShape DEF Streams, Positions
  <1> QED BY <1>2, <1>3, <1>4, HandOf

LEMMA QuietMoves ==
  ASSUME Built, tasks # << >>, Quiet(stream, stream'),
         top.do \notin {"member", "endMethod", "declarator", "initializer", "parameter",
                        "functionBody", "endFunction"}
  PROVE  WordsMove
  <1>1. \A q : ~InTask(top, q)
    BY DEF InTask
  <1> QED BY <1>1 DEF WordsMove, Quiet

LEMMA QuietStep ==
  ASSUME Built, tasks # << >>, tokens' = tokens, Quiet(stream, stream')
  PROVE  Steps
  BY DEF Quiet, Steps

LEMMA ThenFits ==
  ASSUME Built, tasks # << >>, NEW do \in Dos \ (Conditionals \cup {"operators", "operand", "endMethod"}),
         NEW kids \in Seq(Nat), ToSet(kids) \subseteq 1..Len(nodes),
         do \notin Keepers => kids = << >>
  PROVE  /\ Fit(Then(do, kids), Len(nodes)) /\ Holds(Then(do, kids)) = ToSet(kids)
         /\ Then(do, kids).do = do /\ Then(do, kids).at = top.at
  <1>1. top \in Tasks
    BY TopFacts
  <1>2. Then(do, kids) \in Tasks /\ Then(do, kids).do = do /\ Then(do, kids).kids = kids
        /\ Then(do, kids).at = top.at
    BY <1>1 DEF Then, Tasks
  <1> QED BY <1>2 DEF Fit, TaskOK, Holds

LEMMA CallFits ==
  ASSUME Built, tasks # << >>, NEW do \in Dos \ Readers
  PROVE  /\ Fit(Call(do), Len(nodes)) /\ Holds(Call(do)) = {} /\ Call(do).do = do
  <1>1. Len(tokens) \in Nat
    BY TopFacts
  <1>2. Call(do) \in Tasks /\ Call(do).do = do /\ Call(do).kids = << >>
    BY <1>1 DEF Call, Task, Tasks, Null
  <1> QED BY <1>2, NoElements DEF Fit, TaskOK, Holds, Readers

LEMMA HelperFits ==
  ASSUME Built, tasks # << >>, NEW prec \in 0..121
  PROVE  /\ Fit(CallHelper(prec), Len(nodes)) /\ Holds(CallHelper(prec)) = {}
         /\ CallHelper(prec).do = "helper" /\ CallHelper(prec).prec = prec
  <1>1. Len(tokens) \in Nat
    BY TopFacts
  <1>2. CallHelper(prec) \in Tasks /\ CallHelper(prec).do = "helper" /\ CallHelper(prec).kids = << >>
        /\ CallHelper(prec).prec = prec
    BY <1>1 DEF CallHelper, Task, Tasks, Null, Dos, Readers
  <1> QED BY <1>2, NoElements DEF Fit, TaskOK, Holds, Conditionals

LEMMA NewCase ==
  ASSUME Built, tasks # << >>, Outside(top), Quiet(stream, stream') \/ Steps,
         NEW kind \in NodeKinds \ {"binary"}, NEW at \in 0..Len(tokens),
         NEW kids \in Seq(Nat), ToSet(kids) = Hand, ReturnNew(kind, at, kids),
         Outermost(top) => cur(stream)' = "eof"
  PROVE  Aside
  <1> DEFINE node == Node(kind, at, 0, 0, kids)
  <1>1. /\ tokens' = tokens /\ tasks' = << >> \o Tail(tasks)
        /\ nodes' = Append(nodes, node) /\ ret' = Len(nodes) + 1
    BY DEF ReturnNew, New, Continue, Made
  <1>2. Steps
    BY <1>1, QuietStep
  <1>3. node \in NodeSet /\ node.kids = kids /\ node.kind = kind
    BY TopFacts DEF Node, NodeSet
  <1>4. Outermost(top) => stream'.pos = Len(tokens)
    <2>1. stream' \in Streams
      BY <1>2 DEF Steps
    <2>2. stream'.pos \in 1..Len(tokens)
      BY <2>1 DEF Streams, Positions
    <2>3. tokens \in Inputs
      BY TopFacts
    <2> QED BY <1>1, <2>2, <2>3, TokensShape DEF cur
  <1> HIDE DEF node
  <1>5. ReturnsNew(node) /\ node.kind # "binary"
    BY <1>1, <1>2, <1>3, <1>4 DEF ReturnsNew
  <1> QED BY <1>5 DEF Aside

LEMMA CallCase ==
  ASSUME Built, tasks # << >>, Outside(top), Quiet(stream, stream') \/ Steps,
         NEW call, call \in {Call(d) : d \in {"declaration", "block", "statement"}} \cup {CallHelper(0)},
         NEW rest, Fit(rest, Len(nodes)), rest.do \in Readers \ Inner, Holds(rest) = Hand,
         CallThen(call, rest), Outermost(top) => Outermost(rest)
  PROVE  Aside
  <1>1. /\ tokens' = tokens /\ tasks' = <<call, rest>> \o Tail(tasks)
        /\ nodes' = nodes /\ ret' = ret
    BY DEF CallThen, Continue
  <1>2. Steps
    BY <1>1, QuietStep
  <1>3. /\ Fit(call, Len(nodes)) /\ Holds(call) = {}
        /\ call.do \in {"declaration", "block", "statement", "helper"}
    <2>1. \A d \in {"declaration", "block", "statement"} : d \in Dos \ Readers
      BY DEF Dos, Readers, Conditionals
    <2>2. 0 \in 0..121
      OBVIOUS
    <2>3. CASE call = CallHelper(0)
      BY <2>2, <2>3, HelperFits
    <2>4. CASE call \in {Call(d) : d \in {"declaration", "block", "statement"}}
      <3>1. PICK d \in {"declaration", "block", "statement"} : call = Call(d)
        BY <2>4
      <3> QED BY <2>1, <3>1, CallFits
    <2> QED BY <2>3, <2>4
  <1>4. Calls(call, rest)
    BY <1>1, <1>2, <1>3 DEF Calls, Readers, Conditionals
  <1>5. Outside(rest) /\ (call.do = "helper" \/ Outside(call))
    BY <1>3 DEF Outside, Inner, ExprTasks
  <1> QED BY <1>4, <1>5 DEF Aside

LEMMA GoCase ==
  ASSUME Built, tasks # << >>, Outside(top), Quiet(stream, stream') \/ Steps,
         NEW rest, Fit(rest, Len(nodes)), rest.do \notin Readers \cup Inner, Holds(rest) = Hand,
         GoOn(rest), Outermost(top) => Outermost(rest),
         rest.do = "record" => cur(stream)' \in RecordKeys
  PROVE  Aside
  <1>1. /\ tokens' = tokens /\ tasks' = <<rest>> \o Tail(tasks)
        /\ nodes' = nodes /\ ret' = ret
    BY DEF GoOn, Continue
  <1>2. Steps
    BY <1>1, QuietStep
  <1>3. GoesOn(rest) /\ Outside(rest)
    BY <1>1, <1>2 DEF GoesOn, Outside
  <1> QED BY <1>3 DEF Aside

LEMMA NullCase ==
  ASSUME Built, tasks # << >>, Outside(top), Quiet(stream, stream') \/ Steps,
         Return(Null), Hand = {}, stream'.errors # {}, ~Outermost(top)
  PROVE  Aside
  <1>1. /\ tokens' = tokens /\ tasks' = << >> \o Tail(tasks)
        /\ nodes' = nodes /\ ret' = Null
    BY DEF Return, Continue
  <1>2. Steps
    BY <1>1, QuietStep
  <1>3. Returns(Null)
    BY <1>1, <1>2, TopFacts DEF Returns, Null
  <1> QED BY <1>3 DEF Aside

LEMMA ParseMoves ==
  ASSUME Built, Parse
  PROVE  Aside /\ WordsMove
  <1>1. tasks # << >> /\ top.do = "parse" /\ stream' = stream
    BY DEF Parse, Doing
  <1>2. /\ top.kids \in Seq(Nat) /\ Hand = ToSet(top.kids) /\ stream \in Streams
        /\ Hand \subseteq 1..Len(nodes) /\ Len(tokens) \in Nat
    BY <1>1, TopFacts DEF Tasks, Holds, Readers, Conditionals
  <1>3. Outside(top) /\ Quiet(stream, stream')
    BY <1>1, <1>2, QuietSelf DEF Outside, Inner, ExprTasks
  <1>4. CASE cur(stream) = "eof"
    <2>1. ReturnNew("unit", 0, top.kids) /\ tokens' = tokens
      BY <1>4 DEF Parse, ReturnNew, Continue
    <2>2. cur(stream)' = "eof"
      BY <1>1, <1>4, <2>1 DEF cur
    <2>3. "unit" \in NodeKinds \ {"binary"} /\ 0 \in 0..Len(tokens)
      BY <1>2 DEF NodeKinds
    <2> QED BY <1>1, <1>2, <1>3, <2>1, <2>2, <2>3, NewCase, QuietMoves
  <1>5. CASE cur(stream) # "eof"
    <2> DEFINE rest == Then("addDeclaration", top.kids)
    <2>1. CallThen(Call("declaration"), rest)
      BY <1>5 DEF Parse
    <2>2. /\ Fit(rest, Len(nodes)) /\ Holds(rest) = Hand
          /\ rest.do = "addDeclaration"
      <3>1. "addDeclaration" \in Dos \ (Conditionals \cup {"operators", "operand", "endMethod"})
            /\ "addDeclaration" \in Keepers
        BY DEF Dos, Readers, Conditionals, Keepers
      <3> QED BY <1>1, <1>2, <3>1, ThenFits
    <2>3. /\ rest.do \in Readers \ Inner /\ Outermost(rest)
      BY <2>2 DEF Readers, Inner, ExprTasks, Outermost
    <2> HIDE DEF rest
    <2>4. Aside
      BY <1>1, <1>3, <2>1, <2>2, <2>3, CallCase
    <2> QED BY <1>1, <1>3, <2>4, QuietMoves
  <1> QED BY <1>4, <1>5

LEMMA AddDeclarationMoves ==
  ASSUME Built, AddDeclaration
  PROVE  Aside /\ WordsMove
  <1> DEFINE rest == Then("parse", With(top.kids, ret))
  <1>1. /\ tasks # << >> /\ top.do = "addDeclaration" /\ GoOn(rest)
        /\ stream' = IF ret = Null THEN synchronize(stream, TRUE) ELSE stream
    BY DEF AddDeclaration, Doing
  <1>2. /\ top.kids \in Seq(Nat) /\ Hand = ToSet(top.kids) \cup ({ret} \ {Null}) /\ stream \in Streams
        /\ Hand \subseteq 1..Len(nodes) /\ ret \in Nat /\ tokens \in Inputs
    BY <1>1, TopFacts DEF Tasks, Holds, Readers, Conditionals
  <1>3. Outside(top) /\ Quiet(stream, stream')
    <2>1. ret = Null => stream.errors # {}
      BY <1>1 DEF Built, Line, Reading, Readers
    <2> QED BY <1>1, <1>2, <2>1, QuietSelf, Synchronizes DEF Outside, Inner, ExprTasks
  <1>4. /\ Fit(rest, Len(nodes)) /\ Holds(rest) = Hand /\ rest.do = "parse"
    <2>1. "parse" \in Dos \ (Conditionals \cup {"operators", "operand", "endMethod"}) /\ "parse" \in Keepers
      BY DEF Dos, Readers, Conditionals, Keepers
    <2>2. With(top.kids, ret) \in Seq(Nat) /\ ToSet(With(top.kids, ret)) = Hand
      BY <1>2, Withs
    <2> QED BY <1>1, <1>2, <2>1, <2>2, ThenFits
  <1>5. rest.do \notin Readers \cup Inner /\ Outermost(rest) /\ rest.do # "record"
    BY <1>4 DEF Readers, Inner, ExprTasks, Outermost, Conditionals
  <1> HIDE DEF rest
  <1>6. Aside
    BY <1>1, <1>3, <1>4, <1>5, GoCase
  <1> QED BY <1>1, <1>3, <1>6, QuietMoves

LEMMA Hands ==
  ASSUME Built, tasks # << >>
  PROVE  /\ top.kids \in Seq(Nat) /\ top.at \in 0..Len(tokens) /\ top.left \in Nat /\ ret \in Nat
         /\ stream \in Streams /\ tokens \in Inputs /\ stream.pos \in 1..Len(tokens)
         /\ top.do \notin Keepers \cup Readers => Hand = {}
         /\ top.do \in Readers \ Keepers => Hand = {ret} \ {Null}
         /\ top.do \in Keepers \ Readers => Hand = ToSet(top.kids)
         /\ top.do \in (Readers \cap Keepers) \ {"operand"} =>
              Hand = ToSet(top.kids) \cup ({ret} \ {Null})
         /\ top.do \in Readers /\ ret = Null => stream.errors # {}
         /\ ToSet(With(<< >>, ret)) = {ret} \ {Null} /\ With(<< >>, ret) \in Seq(Nat)
         /\ ToSet(With(top.kids, ret)) = ToSet(top.kids) \cup ({ret} \ {Null})
         /\ With(top.kids, ret) \in Seq(Nat)
  <1>1. /\ top \in Tasks /\ TaskOK(top) /\ ret \in Nat /\ stream \in Streams /\ tokens \in Inputs
        /\ stream.pos \in 1..Len(tokens)
        /\ top.do \notin Readers => Hand = Holds(top)
        /\ top.do \in Readers => Hand = Holds(top) \cup ({ret} \ {Null})
    BY TopFacts
  <1>2. top.kids \in Seq(Nat) /\ top.at \in 0..Len(tokens) /\ top.left \in Nat
    BY <1>1 DEF Tasks
  <1>3. top.do \notin Keepers => top.kids = << >> /\ top.do # "operand"
    BY <1>1 DEF TaskOK, Keepers
  <1>4. top.do # "operand" => Holds(top) = ToSet(top.kids)
    BY DEF Holds
  <1>5. "operand" \in Readers
    BY DEF Readers
  <1>6. top.do \in Readers /\ ret = Null => stream.errors # {}
    BY DEF Built, Line, Reading
  <1>7. << >> \in Seq(Nat)
    OBVIOUS
  <1>8. /\ ToSet(With(<< >>, ret)) = {ret} \ {Null} /\ With(<< >>, ret) \in Seq(Nat)
        /\ ToSet(With(top.kids, ret)) = ToSet(top.kids) \cup ({ret} \ {Null})
        /\ With(top.kids, ret) \in Seq(Nat)
    BY <1>1, <1>2, <1>7, Withs, NoElements
  <1> HIDE DEF Readers, Keepers
  <1> QED BY <1>1, <1>2, <1>3, <1>4, <1>5, <1>6, <1>8, NoElements

LEMMA TypeThenName ==
  ASSUME tokens \in Inputs, NEW s \in Streams, cur(s) \in Types
  PROVE  /\ advance(s) \in Streams /\ Quiet(s, advance(s))
         /\ Quiet(s, error(s)) /\ error(s) \in Streams /\ error(s).errors # {}
         /\ error(advance(s)) \in Streams /\ error(advance(s)).errors # {}
         /\ Quiet(s, error(advance(s)))
         /\ advance(advance(s)) \in Streams /\ advance(advance(s)).errors = advance(s).errors
         /\ cur(advance(s)) = "id" =>
              /\ advance(advance(s)).pos = advance(s).pos + 1
              /\ advance(s).pos <= advance(advance(s)).pos
              /\ \A q \in advance(s).pos..(advance(advance(s)).pos - 1) : q = advance(s).pos
  <1>1. ~Word(s.pos) /\ s.pos \in Nat \ {0}
    <2>1. s.pos \in 1..Len(tokens) /\ Len(tokens) \in Nat
      BY TokensShape DEF Streams, Positions
    <2> QED BY <2>1 DEF Word, cur, Types, Literals
  <1>2. advance(s) \in Streams /\ Quiet(s, advance(s))
    BY <1>1, Advances
  <1> DEFINE name == advance(s)
  <1> HIDE DEF name
  <1>3. name \in Streams /\ Quiet(s, name) /\ name.pos \in Nat
    <2>1. Len(tokens) \in Nat
      BY TokensShape
    <2>2. advance(s).pos \in Positions
      BY <1>2 DEF Streams
    <2>3. advance(s).pos \in Nat
      BY ONLY <2>1, <2>2 DEF Positions
    <2> QED BY <1>2, <2>3 DEF name
  <1>4. /\ advance(name) \in Streams /\ advance(name).errors = name.errors
        /\ cur(name) = "id" => advance(name).pos = name.pos + 1
    BY <1>3, Advances
  <1>5. \A k \in Nat : k <= k + 1 /\ \A q \in k..((k + 1) - 1) : q = k
    OBVIOUS
  <1>6. cur(name) = "id" =>
          /\ name.pos <= advance(name).pos
          /\ \A q \in name.pos..(advance(name).pos - 1) : q = name.pos
    BY <1>3, <1>4, <1>5
  <1>7. /\ error(s) \in Streams /\ error(s).errors # {} /\ Quiet(s, error(s))
        /\ error(name) \in Streams /\ error(name).errors # {} /\ Quiet(name, error(name))
    BY <1>3, Errors
  <1>8. Quiet(s, error(name))
    BY <1>3, <1>7, QuietTwice
  <1> QED BY <1>3, <1>4, <1>6, <1>7, <1>8 DEF name

LEMMA NullFits == ToSet(<< >>) = {} /\ << >> \in Seq(Nat)
  BY NoElements

LEMMA FoundInNew ==
  ASSUME Built, NEW node \in NodeSet, nodes' = Append(nodes, node), tokens' = tokens, NEW q,
         \/ node.at = q
         \/ node.kind = "method" /\ node.at < q /\ NoClose(node.at, q)
  PROVE  Found(q)
  <1>1. Len(nodes) + 1 \in DOMAIN nodes' /\ nodes'[Len(nodes) + 1] = node
    BY OnAppend DEF Built
  <1>2. NoClose(node.at, q)' <=> NoClose(node.at, q)
    BY DEF NoClose
  <1>3. InTree(q)'
    BY <1>1, <1>2 DEF InTree, NoClose
  <1> QED BY <1>3 DEF Found

LEMMA FoundInTask ==
  ASSUME NEW t, NEW i \in DOMAIN tasks', tasks'[i] = t, NEW q, InTask(t, q)
  PROVE  Found(q)
  BY DEF Found

LEMMA Passing ==
  ASSUME Built, tasks # << >>, NEW a \in Streams, NEW b \in Streams, stream' \in Streams,
         Quiet(stream, a), Quiet(b, stream'), a.pos <= b.pos, a.errors \subseteq b.errors,
         stream'.errors = {} => \A q \in a.pos..(b.pos - 1) : Word(q) => Found(q)
  PROVE  /\ stream.errors \subseteq stream'.errors
         /\ stream'.errors = {} =>
              \A q \in stream.pos..(stream'.pos - 1) : Word(q) => Found(q)
  <1>1. stream \in Streams /\ tokens \in Inputs
    BY TopFacts
  <1>2. /\ stream.pos \in Int /\ a.pos \in Int /\ b.pos \in Int /\ stream'.pos \in Int
    BY <1>1 DEF Streams, Positions
  <1>3. /\ stream.errors \subseteq a.errors /\ b.errors \subseteq stream'.errors
    BY DEF Quiet
  <1>4. ASSUME stream'.errors = {}, NEW q \in stream.pos..(stream'.pos - 1), Word(q)
        PROVE  Found(q)
    <2>1. a.errors = {}
      BY <1>3, <1>4
    <2>2. ~(q < a.pos)
      BY <1>2, <1>4, <2>1 DEF Quiet
    <2>3. ~(q >= b.pos)
      BY <1>2, <1>4 DEF Quiet
    <2>4. q \in a.pos..(b.pos - 1)
      BY <1>2, <2>2, <2>3
    <2> QED BY <1>4, <2>4
  <1> QED BY <1>3, <1>4

(* A step that goes on with the declaration of the name at hand, or that   *)
(* makes its node.                                                         *)
LEMMA NameMoves ==
  ASSUME Built, tasks # << >>, Quiet(stream, stream'),
         top.do \in {"declarator", "initializer", "parameter", "functionBody", "endFunction"},
         Found(top.at)
  PROVE  WordsMove
  <1>1. \A q : InTask(top, q) => q = top.at
    BY DEF InTask
  <1> QED BY <1>1 DEF WordsMove, Quiet

LEMMA NameKept ==
  ASSUME Built, tasks # << >>, NEW rest \in Tasks, tasks' = <<rest>> \o Tail(tasks),
         rest.do \in {"member", "endMethod", "declarator", "initializer", "parameter",
                      "functionBody", "endFunction"}
  PROVE  Found(rest.at)
  <1>1. tasks'[1] = rest /\ 1 \in DOMAIN tasks'
    BY OnSwap, Shapes DEF Built
  <1>2. InTask(rest, rest.at)
    BY DEF InTask
  <1> QED BY <1>1, <1>2, FoundInTask

LEMMA NameWaits ==
  ASSUME Built, tasks # << >>, NEW call \in Tasks, NEW rest \in Tasks,
         tasks' = <<call, rest>> \o Tail(tasks), rest.do \in {"initializer", "endFunction"}
  PROVE  Found(rest.at)
  <1>1. tasks'[2] = rest /\ 2 \in DOMAIN tasks'
    BY OnPush, Shapes DEF Built
  <1>2. InTask(rest, rest.at)
    BY DEF InTask
  <1> QED BY <1>1, <1>2, FoundInTask

LEMMA NameMade ==
  ASSUME Built, tasks # << >>, NEW kind \in NodeKinds, NEW at \in 0..Len(tokens),
         NEW kids \in Seq(Nat), New(kind, at, kids), tokens' = tokens
  PROVE  Found(at)
  <1> DEFINE node == Node(kind, at, 0, 0, kids)
  <1>1. node \in NodeSet /\ node.at = at /\ nodes' = Append(nodes, node)
    BY TopFacts DEF Node, NodeSet, New
  <1> HIDE DEF node
  <1> QED BY <1>1, FoundInNew

LEMMA ParseDeclarationMoves ==
  ASSUME Built, ParseDeclaration
  PROVE  Aside /\ WordsMove
  <1> DEFINE named == advance(stream)
             after == advance(named)
  <1>1. tasks # << >> /\ top.do = "declaration"
    BY DEF ParseDeclaration, Doing
  <1>2. Outside(top) /\ Hand = {} /\ ~Outermost(top)
    BY <1>1, Hands DEF Outside, Inner, ExprTasks, Keepers, Readers, Conditionals, Outermost
  <1>3. stream \in Streams /\ tokens \in Inputs
    BY <1>1, Hands
  <1>4. CASE cur(stream) \in RecordKeys
    <2>1. GoOn(Call("record")) /\ stream' = stream
      BY <1>4 DEF ParseDeclaration
    <2>2. /\ Fit(Call("record"), Len(nodes)) /\ Holds(Call("record")) = Hand
          /\ Call("record").do \notin Readers \cup Inner
      BY <1>1, <1>2, CallFits DEF Dos, Readers, Conditionals, Inner, ExprTasks
    <2>3. Quiet(stream, stream')
      BY <1>3, <2>1, QuietSelf
    <2>4. cur(stream)' \in RecordKeys
      BY <1>4, <2>1 DEF cur, GoOn, Continue
    <2>5. Aside
      BY <1>1, <1>2, <2>1, <2>2, <2>3, <2>4, GoCase
    <2> QED BY <1>1, <2>3, <2>5, QuietMoves
  <1>5. CASE cur(stream) \notin RecordKeys /\ cur(stream) \notin Types
    <2>1. Return(Null) /\ stream' = error(stream)
      BY <1>5 DEF ParseDeclaration
    <2>2. Quiet(stream, stream') /\ stream'.errors # {}
      BY <1>3, <2>1, Errors
    <2>3. Aside
      BY <1>1, <1>2, <2>1, <2>2, NullCase
    <2> QED BY <1>1, <2>2, <2>3, QuietMoves
  <1>6. CASE cur(stream) \notin RecordKeys /\ cur(stream) \in Types /\ cur(named) # "id"
    <2>1. Return(Null) /\ stream' = error(named)
      BY <1>6 DEF ParseDeclaration
    <2>2. Quiet(stream, stream') /\ stream'.errors # {}
      BY <1>3, <1>6, <2>1, TypeThenName
    <2>3. Aside
      BY <1>1, <1>2, <2>1, <2>2, NullCase
    <2> QED BY <1>1, <2>2, <2>3, QuietMoves
  <1>7. CASE cur(stream) \notin RecordKeys /\ cur(stream) \in Types /\ cur(named) = "id"
    <2> DEFINE rest == [Call("declarator") EXCEPT !.at = named.pos]
    <2>1. GoOn(rest) /\ stream' = after
      BY <1>7 DEF ParseDeclaration
    <2>2. /\ named \in Streams /\ after \in Streams /\ Quiet(stream, named)
          /\ after.errors = named.errors /\ named.pos <= after.pos
          /\ \A q \in named.pos..(after.pos - 1) : q = named.pos
          /\ named.pos \in 1..Len(tokens)
      BY <1>3, <1>7, TypeThenName DEF Streams, Positions
    <2>3. rest \in Tasks /\ rest.do = "declarator" /\ rest.kids = << >> /\ rest.at = named.pos
      <3>1. /\ named.pos \in 0..Len(tokens) /\ 0 \in 0..121 /\ << >> \in Seq(Nat) /\ "declarator" \in Dos
            /\ Null \in Nat
        BY <1>1, <2>2, TopFacts DEF Dos, Null
      <3>2. rest = [do |-> "declarator", at |-> named.pos, prec |-> 0, left |-> Null, kids |-> << >>]
        BY DEF Call, Task
      <3> HIDE DEF named, rest
      <3> QED BY <3>1, <3>2 DEF Tasks
    <2> HIDE DEF rest, named, after
    <2>4. /\ Fit(rest, Len(nodes)) /\ Holds(rest) = Hand
          /\ rest.do \notin Readers \cup Inner \cup {"record"}
      BY <1>2, <2>3, NoElements DEF Fit, TaskOK, Holds, Readers, Conditionals, Inner, ExprTasks
    <2>5. tasks' = <<rest>> \o Tail(tasks) /\ tokens' = tokens
      BY <2>1 DEF GoOn, Continue
    <2>6. Found(named.pos)
      BY <1>1, <2>3, <2>5, NameKept
    <2>7. stream' \in Streams /\ Quiet(after, stream')
      BY <2>1, <2>2, QuietSelf
    <2>8. /\ stream.errors \subseteq stream'.errors
          /\ stream'.errors = {} =>
               \A q \in stream.pos..(stream'.pos - 1) : Word(q) => Found(q)
      BY <1>1, <2>2, <2>6, <2>7, Passing
    <2>9. Steps
      BY <1>1, <2>5, <2>7, <2>8 DEF Steps
    <2>10. Aside
      BY <1>1, <1>2, <2>1, <2>4, <2>9, GoCase
    <2>11. \A q : ~InTask(top, q)
      BY <1>1 DEF InTask
    <2> QED BY <2>8, <2>10, <2>11 DEF WordsMove
  <1> QED BY <1>4, <1>5, <1>6, <1>7

LEMMA ParseDeclaratorMoves ==
  ASSUME Built, ParseDeclarator
  PROVE  Aside /\ WordsMove
  <1> DEFINE first == advance(stream)
  <1>1. tasks # << >> /\ top.do = "declarator"
    BY DEF ParseDeclarator, Doing
  <1>2. Outside(top) /\ Hand = {} /\ ~Outermost(top)
    BY <1>1, Hands DEF Outside, Inner, ExprTasks, Keepers, Readers, Conditionals, Outermost
  <1>3. stream \in Streams /\ tokens \in Inputs /\ top.at \in 0..Len(tokens)
    BY <1>1, Hands
  <1>4. CASE cur(stream) = "("
    <2>1. ~Word(stream.pos)
      BY <1>4 DEF Word, cur, Literals
    <2>2. first \in Streams /\ Quiet(stream, first)
      BY <1>3, <2>1, Advances
    <2>3. PICK do \in {"functionBody", "parameter"} :
             /\ GoOn(Then(do, << >>))
             /\ \/ cur(first) = ")" /\ stream' = advance(first)
                \/ stream' = first
      BY <1>4 DEF ParseDeclarator
    <2>4. Quiet(stream, stream')
      <3>1. cur(first) = ")" => ~Word(first.pos)
        BY DEF Word, cur, Literals
      <3>2. cur(first) = ")" => Quiet(first, advance(first)) /\ advance(first) \in Streams
        BY <1>3, <2>2, <3>1, Advances
      <3> HIDE DEF first
      <3> QED BY <1>3, <2>2, <2>3, <3>2, QuietTwice
    <2>5. /\ Fit(Then(do, << >>), Len(nodes)) /\ Holds(Then(do, << >>)) = Hand
          /\ Then(do, << >>).do \notin Readers \cup Inner \cup {"record"}
      <3>1. /\ do \in Dos \ (Conditionals \cup {"operators", "operand", "endMethod"})
            /\ do \notin Readers \cup Inner \cup {"record"}
        BY DEF Dos, Readers, Conditionals, Keepers, Inner, ExprTasks
      <3> QED BY <1>1, <1>2, <3>1, NullFits, ThenFits
    <2>6. Aside
      BY <1>1, <1>2, <2>3, <2>4, <2>5, GoCase
    <2>7. Found(top.at)
      <3>1. /\ Then(do, << >>) \in Tasks /\ Then(do, << >>).do = do /\ Then(do, << >>).at = top.at
            /\ tasks' = <<Then(do, << >>)>> \o Tail(tasks)
        <4>1. do \in Dos \ (Conditionals \cup {"operators", "operand", "endMethod"})
          BY DEF Dos, Readers, Conditionals, Keepers
        <4> QED BY <1>1, <2>3, <4>1, NullFits, ThenFits DEF Fit, GoOn, Continue
      <3> QED BY <1>1, <3>1, NameKept
    <2> QED BY <1>1, <2>4, <2>6, <2>7, NameMoves
  <1>5. CASE cur(stream) = "="
    <2> DEFINE rest == Then("initializer", << >>)
    <2>1. CallThen(CallHelper(0), rest) /\ stream' = advance(stream)
      BY <1>5 DEF ParseDeclarator
    <2>2. Quiet(stream, stream')
      <3>1. ~Word(stream.pos)
        BY <1>5 DEF Word, cur, Literals
      <3> QED BY <1>3, <2>1, <3>1, Advances
    <2>3. /\ Fit(rest, Len(nodes)) /\ Holds(rest) = Hand /\ rest.do = "initializer"
          /\ rest.at = top.at
      <3>1. "initializer" \in Dos \ (Conditionals \cup {"operators", "operand", "endMethod"})
        BY DEF Dos, Readers, Conditionals
      <3> QED BY <1>1, <1>2, <3>1, NullFits, ThenFits
    <2> HIDE DEF rest
    <2>4. rest.do \in Readers \ Inner
      BY <2>3 DEF Readers, Inner, ExprTasks
    <2>5. Aside
      BY <1>1, <1>2, <2>1, <2>2, <2>3, <2>4, CallCase
    <2>6. Found(top.at)
      <3>1. /\ CallHelper(0) \in Tasks /\ rest \in Tasks
            /\ tasks' = <<CallHelper(0), rest>> \o Tail(tasks)
        <4>1. 0 \in 0..121
          OBVIOUS
        <4> QED BY <1>1, <2>1, <2>3, <4>1, HelperFits DEF Fit, CallThen, Continue
      <3> QED BY <1>1, <2>3, <3>1, NameWaits
    <2> QED BY <1>1, <2>2, <2>5, <2>6, NameMoves
  <1>6. CASE cur(stream) # "(" /\ cur(stream) # "="
    <2>1. ReturnNew("vardecl", top.at, << >>) /\ stream' = expect(stream, ";")
      BY <1>6 DEF ParseDeclarator
    <2>2. Quiet(stream, stream')
      BY <1>3, <2>1, Expects DEF Literals
    <2>3. "vardecl" \in NodeKinds \ {"binary"}
      BY DEF NodeKinds
    <2>4. Aside
      BY <1>1, <1>2, <1>3, <2>1, <2>2, <2>3, NullFits, NewCase
    <2>5. Found(top.at)
      BY <1>1, <1>3, <2>1, <2>3, NullFits, NameMade DEF ReturnNew, Continue
    <2> QED BY <1>1, <2>2, <2>4, <2>5, NameMoves
  <1> QED BY <1>4, <1>5, <1>6

LEMMA EndVarDeclMoves ==
  ASSUME Built, EndVarDecl
  PROVE  Aside /\ WordsMove
  <1>1. /\ tasks # << >> /\ top.do = "initializer" /\ stream' = expect(stream, ";")
        /\ ReturnNew("vardecl", top.at, With(<< >>, ret))
    BY DEF EndVarDecl, Doing
  <1>2. Outside(top) /\ Hand = {ret} \ {Null} /\ ~Outermost(top)
    BY <1>1, Hands DEF Outside, Inner, ExprTasks, Keepers, Readers, Outermost
  <1>3. Quiet(stream, stream')
    BY <1>1, Hands, Expects DEF Literals
  <1>4. "vardecl" \in NodeKinds \ {"binary"}
    BY DEF NodeKinds
  <1>5. Aside
    BY <1>1, <1>2, <1>3, <1>4, Hands, NewCase
  <1>6. Found(top.at)
    BY <1>1, <1>4, Hands, NameMade DEF ReturnNew, Continue
  <1> QED BY <1>1, <1>3, <1>5, <1>6, NameMoves

(* A node is kept, beside those that the record or function has.           *)
LEMMA KeepCase ==
  ASSUME Built, tasks # << >>, top.do \in {"member", "endMethod", "parameter"}, Steps,
         NEW do \in {"member", "parameter", "functionBody"},
         NEW kind \in NodeKinds \ {"binary"}, NEW at \in 0..Len(tokens),
         NEW kids \in Seq(Nat), ToSet(kids) \subseteq Hand, Hand \ ToSet(kids) = ToSet(top.kids),
         New(kind, at, kids), Continue(<<Then(do, Append(top.kids, Made))>>), ret' = ret
  PROVE  /\ Aside
         /\ \A q : \/ q = at
                   \/ top.at = q
                   \/ kind = "method" /\ at < q /\ NoClose(at, q)
                   => Found(q)
  <1> DEFINE node == Node(kind, at, 0, 0, kids)
             rest == Then(do, Append(top.kids, Made))
  <1>1. /\ tokens' = tokens /\ tasks' = <<rest>> \o Tail(tasks)
        /\ nodes' = Append(nodes, node)
    BY DEF New, Continue
  <1>2. top.kids \in Seq(Nat) /\ Made \in Nat /\ top \in Tasks /\ Len(tokens) \in Nat
        /\ Len(nodes) \in Nat /\ Hand \subseteq 1..Len(nodes)
    BY TopFacts, Hands DEF Made
  <1>3. node \in NodeSet /\ node.kids = kids /\ node.kind = kind /\ node.at = at
    BY <1>2 DEF Node, NodeSet
  <1>4. /\ rest \in Tasks /\ rest.do = do /\ rest.at = top.at
        /\ rest.kids = Append(top.kids, Made)
    <2>1. Append(top.kids, Made) \in Seq(Nat) /\ do \in Dos
      BY <1>2, Extended DEF Dos, Keepers
    <2> QED BY <1>2, <2>1 DEF Tasks, Then
  <1> HIDE DEF node, rest
  <1>5. Fit(rest, Len(nodes) + 1) /\ Holds(rest) = (Hand \ ToSet(node.kids)) \cup {Len(nodes) + 1}
    <2>1. ToSet(rest.kids) = ToSet(top.kids) \cup {Len(nodes) + 1}
      BY <1>2, <1>4, Extended DEF Made
    <2>2. Holds(rest) = (Hand \ ToSet(node.kids)) \cup {Len(nodes) + 1}
      BY <1>3, <1>4, <2>1 DEF Holds
    <2>3. Holds(rest) \subseteq 1..(Len(nodes) + 1)
      <3>1. \A n \in Nat : \A k : k \in 1..n \/ k = n + 1 => k \in 1..(n + 1)
        OBVIOUS
      <3> QED BY <1>2, <2>2, <3>1
    <2> QED BY <1>4, <2>2, <2>3 DEF Fit, TaskOK, Keepers, Conditionals
  <1>6. Adds(node, rest) /\ node.kind # "binary" /\ Outside(rest) /\ Outside(top)
    BY <1>1, <1>3, <1>4, <1>5
       DEF Adds, Outside, Inner, ExprTasks, Outermost, Readers, Conditionals
  <1>7. Found(at) /\ \A q : kind = "method" /\ at < q /\ NoClose(at, q) => Found(q)
    BY <1>1, <1>3, FoundInNew
  <1>8. Found(top.at)
    <2>1. tasks'[1] = rest /\ 1 \in DOMAIN tasks'
      BY <1>1, <1>4, OnSwap, Shapes DEF Built
    <2>2. InTask(rest, top.at)
      BY <1>4 DEF InTask
    <2> QED BY <2>1, <2>2, FoundInTask
  <1> QED BY <1>6, <1>7, <1>8 DEF Aside

LEMMA ParseParameterMoves ==
  ASSUME Built, ParseParameter
  PROVE  Aside /\ WordsMove
  <1> DEFINE name == advance(stream)
             after == advance(name)
  <1>1. tasks # << >> /\ top.do = "parameter"
    BY DEF ParseParameter, Doing
  <1>2. Outside(top) /\ Hand = ToSet(top.kids) /\ ~Outermost(top)
    BY <1>1, Hands DEF Outside, Inner, ExprTasks, Keepers, Readers, Conditionals, Outermost
  <1>3. stream \in Streams /\ tokens \in Inputs /\ top.kids \in Seq(Nat) /\ Len(tokens) \in Nat
    BY <1>1, Hands, TopFacts
  <1>4. CASE cur(stream) \in Types /\ cur(name) = "id"
    <2>1. PICK do \in {"parameter", "functionBody"} :
            /\ New("parameter", name.pos, << >>) /\ ret' = ret
            /\ Continue(<<Then(do, Append(top.kids, Made))>>)
            /\ stream' \in {advance(after), expect(after, ")")}
            /\ stream' = advance(after) => cur(after) = "," \/ stream' = expect(after, ")")
      <3>1. CASE cur(after) = ","
        BY <1>4, <3>1 DEF ParseParameter
      <3>2. CASE cur(after) # ","
        BY <1>4, <3>2 DEF ParseParameter
      <3> QED BY <3>1, <3>2
    <2>2. /\ name \in Streams /\ after \in Streams /\ Quiet(stream, name)
          /\ after.errors = name.errors /\ name.pos <= after.pos
          /\ \A q \in name.pos..(after.pos - 1) : q = name.pos
          /\ name.pos \in 0..Len(tokens)
      <3>1. /\ name \in Streams /\ after \in Streams /\ Quiet(stream, name)
            /\ after.errors = name.errors /\ name.pos <= after.pos
            /\ \A q \in name.pos..(after.pos - 1) : q = name.pos
        BY <1>3, <1>4, TypeThenName
      <3> QED BY <1>3, <3>1 DEF Streams, Positions
    <2> HIDE DEF name, after
    <2>3. stream' \in Streams /\ Quiet(after, stream')
      <3>1. cur(after) = "," => ~Word(after.pos)
        BY DEF Word, cur, Literals
      <3>2. cur(after) = "," => Quiet(after, advance(after)) /\ advance(after) \in Streams
        BY <1>3, <2>2, <3>1, Advances
      <3>3. Quiet(after, expect(after, ")")) /\ expect(after, ")") \in Streams
        BY <1>3, <2>2, Expects DEF Literals
      <3> QED BY <2>1, <3>2, <3>3
    <2>4. Steps
      <3>1. tokens' = tokens
        BY <2>1 DEF Continue
      <3>2. stream.errors \subseteq stream'.errors
        BY <2>2, <2>3 DEF Quiet
      <3> QED BY <1>1, <2>3, <3>1, <3>2 DEF Steps
    <2>5. "parameter" \in NodeKinds \ {"binary"}
      BY DEF NodeKinds
    <2>6. Aside /\ Found(name.pos) /\ Found(top.at)
      BY <1>1, <1>2, <2>1, <2>2, <2>4, <2>5, NullFits, KeepCase
    <2>7. stream'.errors = {} =>
            \A q \in stream.pos..(stream'.pos - 1) : Word(q) => Found(q)
      BY <1>1, <2>2, <2>3, <2>6, Passing
    <2>8. \A q : InTask(top, q) => q = top.at
      BY <1>1 DEF InTask
    <2> QED BY <2>6, <2>7, <2>8 DEF WordsMove
  <1>5. CASE ~(cur(stream) \in Types /\ cur(name) = "id")
    <2> DEFINE rest == Then("functionBody", top.kids)
    <2>1. PICK s \in {error(stream), error(name)} :
            /\ GoOn(rest) /\ stream' = expect(s, ")")
            /\ s # error(stream) => cur(stream) \in Types
      BY <1>5 DEF ParseParameter
    <2>2. s \in Streams /\ Quiet(stream, s)
      <3>1. error(stream) \in Streams /\ Quiet(stream, error(stream))
        BY <1>3, Errors
      <3>2. cur(stream) \in Types =>
              error(name) \in Streams /\ Quiet(stream, error(name))
        BY <1>3, TypeThenName
      <3> QED BY <2>1, <3>1, <3>2
    <2>3. Quiet(stream, stream')
      <3>1. expect(s, ")") \in Streams /\ Quiet(s, expect(s, ")"))
        BY <1>3, <2>2, Expects DEF Literals
      <3> QED BY <1>3, <2>1, <2>2, <3>1, QuietTwice
    <2>4. /\ Fit(rest, Len(nodes)) /\ Holds(rest) = Hand
          /\ rest.do = "functionBody" /\ rest.at = top.at
      <3>1. "functionBody" \in Dos \ (Conditionals \cup {"operators", "operand", "endMethod"})
            /\ "functionBody" \in Keepers
        BY DEF Dos, Readers, Conditionals, Keepers
      <3>2. ToSet(top.kids) \subseteq 1..Len(nodes)
        BY <1>1, <1>2, TopFacts
      <3> QED BY <1>1, <1>2, <1>3, <3>1, <3>2, ThenFits
    <2>5. rest.do \notin Readers \cup Inner \cup {"record"}
      BY <2>4 DEF Readers, Conditionals, Inner, ExprTasks
    <2> HIDE DEF rest
    <2>6. Aside
      BY <1>1, <1>2, <2>1, <2>3, <2>4, <2>5, GoCase
    <2>7. Found(top.at)
      BY <1>1, <2>1, <2>4, NameKept DEF Fit, GoOn, Continue
    <2> QED BY <1>1, <2>3, <2>6, <2>7, NameMoves
  <1> QED BY <1>4, <1>5

LEMMA ParseFunctionBodyMoves ==
  ASSUME Built, ParseFunctionBody
  PROVE  Aside /\ WordsMove
  <1>1. tasks # << >> /\ top.do = "functionBody"
    BY DEF ParseFunctionBody, Doing
  <1>2. Outside(top) /\ Hand = ToSet(top.kids) /\ ~Outermost(top)
    BY <1>1, Hands DEF Outside, Inner, ExprTasks, Keepers, Readers, Conditionals, Outermost
  <1>3. /\ stream \in Streams /\ tokens \in Inputs /\ top.at \in 0..Len(tokens)
        /\ top.kids \in Seq(Nat) /\ Hand \subseteq 1..Len(nodes)
    BY <1>1, Hands, TopFacts
  <1>4. CASE cur(stream) = "{"
    <2> DEFINE rest == Then("endFunction", top.kids)
    <2>1. CallThen(Call("block"), rest) /\ stream' = stream
      BY <1>4 DEF ParseFunctionBody
    <2>2. Quiet(stream, stream')
      BY <1>3, <2>1, QuietSelf
    <2>3. /\ Fit(rest, Len(nodes)) /\ Holds(rest) = Hand /\ rest.do = "endFunction"
          /\ rest.at = top.at
      <3>1. /\ "endFunction" \in Dos \ (Conditionals \cup {"operators", "operand", "endMethod"})
            /\ "endFunction" \in Keepers
        BY DEF Dos, Readers, Conditionals, Keepers
      <3> QED BY <1>1, <1>2, <1>3, <3>1, ThenFits
    <2> HIDE DEF rest
    <2>4. rest.do \in Readers \ Inner
      BY <2>3 DEF Readers, Inner, ExprTasks
    <2>5. Aside
      BY <1>1, <1>2, <2>1, <2>2, <2>3, <2>4, CallCase
    <2>6. Found(top.at)
      <3>1. /\ Call("block") \in Tasks /\ rest \in Tasks
            /\ tasks' = <<Call("block"), rest>> \o Tail(tasks)
        <4>1. "block" \in Dos \ Readers
          BY DEF Dos, Readers, Conditionals
        <4> QED BY <1>1, <2>1, <2>3, <4>1, CallFits DEF Fit, CallThen, Continue
      <3> QED BY <1>1, <2>3, <3>1, NameWaits
    <2> QED BY <1>1, <2>2, <2>5, <2>6, NameMoves
  <1>5. CASE cur(stream) # "{"
    <2>1. ReturnNew("function", top.at, top.kids) /\ stream' = expect(stream, ";")
      BY <1>5 DEF ParseFunctionBody
    <2>2. Quiet(stream, stream')
      BY <1>3, <2>1, Expects DEF Literals
    <2>3. "function" \in NodeKinds \ {"binary"}
      BY DEF NodeKinds
    <2>4. Aside
      BY <1>1, <1>2, <1>3, <2>1, <2>2, <2>3, NewCase
    <2>5. Found(top.at)
      BY <1>1, <1>3, <2>1, <2>3, NameMade DEF ReturnNew, Continue
    <2> QED BY <1>1, <2>2, <2>4, <2>5, NameMoves
  <1> QED BY <1>4, <1>5

LEMMA EndFunctionMoves ==
  ASSUME Built, EndFunction
  PROVE  Aside /\ WordsMove
  <1>1. /\ tasks # << >> /\ top.do = "endFunction" /\ stream' = stream
        /\ ReturnNew("function", top.at, With(top.kids, ret))
    BY DEF EndFunction, Doing
  <1>2. Outside(top) /\ Hand = ToSet(top.kids) \cup ({ret} \ {Null}) /\ ~Outermost(top)
    BY <1>1, Hands DEF Outside, Inner, ExprTasks, Keepers, Readers, Outermost
  <1>3. Quiet(stream, stream')
    BY <1>1, Hands, QuietSelf
  <1>4. "function" \in NodeKinds \ {"binary"}
    BY DEF NodeKinds
  <1>5. Aside
    BY <1>1, <1>2, <1>3, <1>4, Hands, NewCase
  <1>6. Found(top.at)
    BY <1>1, <1>4, Hands, NameMade DEF ReturnNew, Continue
  <1> QED BY <1>1, <1>3, <1>5, <1>6, NameMoves

LEMMA ParseRecordDeclMoves ==
  ASSUME Built, ParseRecordDecl
  PROVE  Aside /\ WordsMove
  <1> DEFINE name == advance(stream)
             open == advance(name)
  <1>1. tasks # << >> /\ top.do = "record"
    BY DEF ParseRecordDecl, Doing
  <1>2. Outside(top) /\ Hand = {} /\ ~Outermost(top) /\ \A q : ~InTask(top, q)
    BY <1>1, Hands DEF Outside, Inner, ExprTasks, Keepers, Readers, Conditionals, Outermost, InTask
  <1>3. stream \in Streams /\ tokens \in Inputs /\ cur(stream) \in RecordKeys
    BY <1>1, Hands DEF Built, Line
  <1>4. name \in Streams /\ Quiet(stream, name) /\ name.pos \in 1..Len(tokens)
    <2>1. ~Word(stream.pos)
      BY <1>3 DEF Word, cur, RecordKeys, Literals
    <2> QED BY <1>3, <2>1, Advances DEF Streams, Positions
  <1> HIDE DEF name
  <1>5. CASE cur(name) # "id"
    <2>1. Return(Null) /\ stream' = error(name)
      BY <1>5 DEF ParseRecordDecl, name
    <2>2. Quiet(stream, stream') /\ stream'.errors # {}
      BY <1>3, <1>4, <2>1, Errors, QuietTwice
    <2>3. Aside
      BY <1>1, <1>2, <2>1, <2>2, NullCase
    <2> QED BY <1>1, <2>2, <2>3, QuietMoves
  <1>6. ASSUME cur(name) = "id" PROVE open \in Streams /\ open.pos = name.pos + 1 /\ name.errors = open.errors
    BY <1>3, <1>4, <1>6, Advances
  <1> HIDE DEF open
  <1>7. name.pos <= name.pos + 1 /\ \A q \in name.pos..((name.pos + 1) - 1) : q = name.pos
    <2>1. \A k \in Int : k <= k + 1 /\ \A q \in k..((k + 1) - 1) : q = k
      OBVIOUS
    <2>2. name.pos \in Int
      BY <1>4
    <2> QED BY <2>1, <2>2
  <1>8. CASE cur(name) = "id" /\ cur(open) = "{"
    <2> DEFINE rest == [Then("member", << >>) EXCEPT !.at = name.pos]
    <2>1. GoOn(rest) /\ stream' = advance(open)
      BY <1>8 DEF ParseRecordDecl, name, open
    <2>2. Quiet(open, stream') /\ stream' \in Streams
      <3>1. ~Word(open.pos)
        BY <1>8 DEF Word, cur, Literals
      <3> QED BY <1>3, <1>6, <1>8, <2>1, <3>1, Advances
    <2>3. rest \in Tasks /\ rest.do = "member" /\ rest.kids = << >> /\ rest.at = name.pos
      <3>1. top \in Tasks /\ "member" \in Dos /\ name.pos \in 0..Len(tokens)
        BY <1>1, <1>4, TopFacts DEF Dos, Keepers
      <3> HIDE DEF name
      <3> QED BY <3>1, NullFits DEF Tasks, Then
    <2> HIDE DEF rest
    <2>4. /\ Fit(rest, Len(nodes)) /\ Holds(rest) = Hand
          /\ rest.do \notin Readers \cup Inner \cup {"record"}
      BY <1>2, <2>3, NoElements DEF Fit, TaskOK, Holds, Readers, Conditionals, Inner, ExprTasks
    <2>5. tasks' = <<rest>> \o Tail(tasks) /\ tokens' = tokens
      BY <2>1 DEF GoOn, Continue
    <2>6. Found(name.pos)
      <3>1. tasks'[1] = rest /\ 1 \in DOMAIN tasks'
        BY <1>1, <2>3, <2>5, OnSwap, Shapes DEF Built
      <3>2. InTask(rest, name.pos)
        BY <2>3 DEF InTask
      <3> QED BY <3>1, <3>2, FoundInTask
    <2>7. /\ stream.errors \subseteq stream'.errors
          /\ stream'.errors = {} =>
               \A q \in stream.pos..(stream'.pos - 1) : Word(q) => Found(q)
      <3>1. name.pos <= open.pos
        BY <1>6, <1>7, <1>8
      <3> QED BY <1>1, <1>4, <1>6, <1>7, <1>8, <2>2, <2>6, <3>1, Passing
    <2>8. Steps
      BY <1>1, <2>2, <2>5, <2>7 DEF Steps
    <2>9. Aside
      BY <1>1, <1>2, <2>1, <2>4, <2>8, GoCase
    <2> QED BY <1>2, <2>7, <2>9 DEF WordsMove
  <1>9. CASE cur(name) = "id" /\ cur(open) # "{"
    <2> DEFINE node == Node("record", name.pos, 0, 0, << >>)
    <2>1. ReturnNew("record", name.pos, << >>) /\ stream' = expect(open, ";")
      BY <1>9 DEF ParseRecordDecl, name, open
    <2>2. Quiet(open, stream') /\ stream' \in Streams
      BY <1>3, <1>6, <1>9, <2>1, Expects DEF Literals
    <2>3. nodes' = Append(nodes, node) /\ tokens' = tokens
      BY <2>1 DEF ReturnNew, New, Continue
    <2>4. node \in NodeSet /\ node.at = name.pos
      <3>1. "record" \in NodeKinds /\ name.pos \in 0..Len(tokens) /\ Len(tokens) \in Nat
        BY <1>1, <1>4, TopFacts DEF NodeKinds
      <3> QED BY <3>1, NullFits DEF Node, NodeSet
    <2> HIDE DEF node
    <2>5. Found(name.pos)
      BY <2>3, <2>4, FoundInNew
    <2>6. /\ stream.errors \subseteq stream'.errors
          /\ stream'.errors = {} =>
               \A q \in stream.pos..(stream'.pos - 1) : Word(q) => Found(q)
      <3>1. name.pos <= open.pos
        BY <1>6, <1>7, <1>9
      <3> QED BY <1>1, <1>4, <1>6, <1>7, <1>9, <2>2, <2>5, <3>1, Passing
    <2>7. Steps
      BY <1>1, <2>2, <2>3, <2>6 DEF Steps
    <2>8. "record" \in NodeKinds \ {"binary"} /\ name.pos \in 0..Len(tokens)
      BY <1>4 DEF NodeKinds
    <2>9. Aside
      BY <1>1, <1>2, <2>1, <2>7, <2>8, NullFits, NewCase
    <2> QED BY <1>2, <2>6, <2>9 DEF WordsMove
  <1> QED BY <1>5, <1>8, <1>9

LEMMA EndRecordDeclMoves ==
  ASSUME Built, EndRecordDecl
  PROVE  Aside /\ WordsMove
  <1> DEFINE node == Node("record", top.at, 0, 0, top.kids)
  <1>1. /\ tasks # << >> /\ top.do = "member" /\ stream' = expect(expect(stream, "}"), ";")
        /\ ReturnNew("record", top.at, top.kids)
    BY DEF EndRecordDecl, Doing
  <1>2. Outside(top) /\ Hand = ToSet(top.kids) /\ ~Outermost(top)
    BY <1>1, Hands DEF Outside, Inner, ExprTasks, Keepers, Readers, Conditionals, Outermost
  <1>3. Quiet(stream, stream')
    <2>1. stream \in Streams /\ tokens \in Inputs
      BY <1>1, Hands
    <2>2. expect(stream, "}") \in Streams /\ Quiet(stream, expect(stream, "}"))
      BY <2>1, Expects DEF Literals
    <2>3. stream' \in Streams /\ Quiet(expect(stream, "}"), stream')
      BY <1>1, <2>1, <2>2, Expects DEF Literals
    <2> QED BY <2>1, <2>2, <2>3, QuietTwice
  <1>4. "record" \in NodeKinds \ {"binary"}
    BY DEF NodeKinds
  <1>5. Aside
    BY <1>1, <1>2, <1>3, <1>4, Hands, NewCase
  <1>6. \A q : InTask(top, q) => Found(q)
    <2>1. nodes' = Append(nodes, node) /\ tokens' = tokens
      BY <1>1 DEF ReturnNew, New, Continue
    <2>2. node \in NodeSet /\ node.at = top.at
      <3>1. /\ top.at \in 0..Len(tokens) /\ top.kids \in Seq(Nat) /\ 0 \in 0..Len(tokens)
            /\ "record" \in NodeKinds
        <4>1. Len(tokens) \in Nat
          BY <1>1, TopFacts
        <4>2. top.at \in 0..Len(tokens) /\ top.kids \in Seq(Nat)
          BY <1>1, Hands
        <4> QED BY <1>4, <4>1, <4>2
      <3> QED BY <3>1 DEF Node, NodeSet
    <2>3. \A q : InTask(top, q) => q = node.at
      BY <1>1, <2>2 DEF InTask
    <2> HIDE DEF node
    <2> QED BY <2>1, <2>2, <2>3, FoundInNew
  <1> QED BY <1>3, <1>5, <1>6 DEF WordsMove, Quiet

LEMMA SkipMemberMoves ==
  ASSUME Built, SkipMember
  PROVE  Aside /\ WordsMove
  <1> DEFINE next == advance(stream)
  <1>1. tasks # << >> /\ top.do = "member" /\ GoOn(top)
    BY DEF SkipMember, Doing
  <1>2. Outside(top) /\ Hand = ToSet(top.kids) /\ top.do \notin Readers \cup Inner \cup {"record"}
        /\ Hand = Holds(top)
    BY <1>1, Hands, TopFacts DEF Outside, Inner, ExprTasks, Keepers, Readers, Conditionals
  <1>3. stream \in Streams /\ tokens \in Inputs /\ stream.pos \in Nat
    BY <1>1, Hands, TopFacts
  <1>4. Quiet(stream, stream')
    <2>1. CASE cur(stream) \in Accesses
      <3>1. stream' = expect(next, ":")
        BY <2>1 DEF SkipMember
      <3>2. ~Word(stream.pos)
        BY <2>1 DEF Word, cur, Accesses, Literals
      <3>3. next \in Streams /\ Quiet(stream, next)
        BY <1>3, <3>2, Advances
      <3> HIDE DEF next
      <3>4. stream' \in Streams /\ Quiet(next, stream')
        BY <1>3, <3>1, <3>3, Expects DEF Literals
      <3> QED BY <1>3, <3>3, <3>4, QuietTwice
    <2>2. CASE cur(stream) \notin Accesses
      <3>1. PICK s \in {error(stream), error(next)} : stream' = advance(s)
        BY <2>2 DEF SkipMember
      <3>2. /\ next \in Streams /\ stream.pos <= next.pos /\ next.errors = stream.errors
        BY <1>3, Advances
      <3>3. s \in Streams /\ s.errors # {} /\ stream.errors \subseteq s.errors /\ stream.pos <= s.pos
        <4>1. /\ error(stream) \in Streams /\ error(stream).errors # {}
              /\ stream.errors \subseteq error(stream).errors /\ error(stream).pos = stream.pos
          BY <1>3, Errors
        <4>2. /\ error(next) \in Streams /\ error(next).errors # {}
              /\ next.errors \subseteq error(next).errors /\ error(next).pos = next.pos
          BY <3>2, Errors
        <4> HIDE DEF next
        <4> QED BY <1>3, <3>1, <3>2, <4>1, <4>2
      <3>4. advance(s) \in Streams /\ advance(s).errors = s.errors /\ s.pos <= advance(s).pos
        BY <1>3, <3>3, Advances
      <3>5. s.pos \in Int /\ advance(s).pos \in Int
        BY <3>3, <3>4 DEF Streams, Positions
      <3>6. stream.pos <= stream'.pos
        BY <1>3, <3>1, <3>3, <3>4, <3>5
      <3> QED BY <1>3, <3>1, <3>3, <3>4, <3>6, QuietAfterError
    <2> QED BY <2>1, <2>2
  <1>5. Fit(top, Len(nodes))
    BY <1>1, TopFacts DEF Fit
  <1>6. Aside
    BY <1>1, <1>2, <1>4, <1>5, GoCase
  <1>7. \A q : InTask(top, q) => Found(q)
    <2>1. tasks' = <<top>> \o Tail(tasks) /\ top \in Tasks
      BY <1>1, TopFacts DEF GoOn, Continue
    <2>2. tasks'[1] = top /\ 1 \in DOMAIN tasks'
      BY <1>1, <2>1, OnSwap, Shapes DEF Built
    <2> QED BY <2>2, FoundInTask
  <1> QED BY <1>4, <1>6, <1>7 DEF WordsMove, Quiet

LEMMA ParseMemberMoves ==
  ASSUME Built, ParseMember
  PROVE  Aside /\ WordsMove
  <1> DEFINE name == advance(stream)
             after == advance(name)
             found == FirstOf(after, {")"})
             params == expect(found, ")")
  <1>1. /\ tasks # << >> /\ top.do = "member" /\ cur(stream) \in Types /\ cur(name) = "id"
    BY DEF ParseMember, Doing
  <1>2. Outside(top) /\ Hand = ToSet(top.kids) /\ ~Outermost(top) /\ Hand = Holds(top)
    BY <1>1, Hands, TopFacts DEF Outside, Inner, ExprTasks, Keepers, Readers, Conditionals, Outermost
  <1>3. stream \in Streams /\ tokens \in Inputs /\ Len(tokens) \in Nat
    BY <1>1, Hands, TopFacts
  <1>4. /\ name \in Streams /\ after \in Streams /\ Quiet(stream, name)
        /\ after.errors = name.errors /\ name.pos <= after.pos
        /\ \A q \in name.pos..(after.pos - 1) : q = name.pos
        /\ after.pos = name.pos + 1 /\ name.pos \in 1..Len(tokens)
    BY <1>1, <1>3, TypeThenName DEF Streams, Positions
  <1>5. \A q : InTask(top, q) => q = top.at
    BY <1>1 DEF InTask
  <1>6. CASE cur(after) # "("
    <2>1. /\ New("field", name.pos, << >>) /\ ret' = ret
          /\ Continue(<<Then("member", Append(top.kids, Made))>>)
          /\ stream' = expect(after, ";")
      BY <1>1, <1>6 DEF ParseMember
    <2>2. stream' \in Streams /\ Quiet(after, stream')
      BY <1>3, <1>4, <2>1, Expects DEF Literals
    <2> HIDE DEF name, after
    <2>3. Steps
      <3>1. tokens' = tokens /\ stream.errors \subseteq stream'.errors
        BY <1>4, <2>1, <2>2 DEF Continue, Quiet
      <3> QED BY <1>1, <2>2, <3>1 DEF Steps
    <2>4. "field" \in NodeKinds \ {"binary"} /\ name.pos \in 0..Len(tokens)
      BY <1>4 DEF NodeKinds
    <2>5. Aside /\ Found(top.at) /\ Found(name.pos)
      BY <1>1, <1>2, <2>1, <2>3, <2>4, NullFits, KeepCase
    <2>6. stream'.errors = {} =>
            \A q \in stream.pos..(stream'.pos - 1) : Word(q) => Found(q)
      BY <1>1, <1>4, <2>2, <2>5, Passing
    <2> QED BY <1>5, <2>5, <2>6 DEF WordsMove
  <1>7. /\ found \in Streams /\ found.errors = after.errors /\ after.pos <= found.pos
        /\ \A q \in after.pos..(found.pos - 1) : tokens[q] \notin {")"}
    BY <1>3, <1>4, Finds
  <1>8. /\ name.pos <= found.pos /\ name.errors \subseteq found.errors
        /\ \A q \in name.pos..(found.pos - 1) :
             q = name.pos \/ (name.pos < q /\ NoClose(name.pos, q))
    <2>1. tokens[name.pos] = "id"
      BY <1>1 DEF cur
    <2>2. name.pos \in Int /\ after.pos \in Int /\ found.pos \in Int
      BY <1>4, <1>7 DEF Streams, Positions
    <2> HIDE DEF name, after, found
    <2>3. ASSUME NEW q \in name.pos..(found.pos - 1), q # name.pos
          PROVE  name.pos < q /\ NoClose(name.pos, q)
      <3>1. q \in after.pos..(found.pos - 1) /\ name.pos < q
        BY <1>4, <2>2, <2>3
      <3>2. ASSUME NEW k \in name.pos..q PROVE tokens[k] # ")"
        <4>1. k = name.pos \/ k \in after.pos..(found.pos - 1)
          BY <1>4, <2>2, <3>1
        <4> QED BY <1>7, <2>1, <4>1
      <3> QED BY <3>1, <3>2 DEF NoClose
    <2>4. name.pos <= found.pos
      BY <1>4, <1>7, <2>2
    <2> QED BY <1>4, <1>7, <2>3, <2>4
  <1>9. params \in Streams /\ Quiet(found, params)
    BY <1>3, <1>7, Expects DEF Literals
  <1> HIDE DEF found, after, name
  <1>10. CASE cur(after) = "(" /\ cur(params) # "{"
    <2>1. /\ New("method", name.pos, << >>) /\ ret' = ret
          /\ Continue(<<Then("member", Append(top.kids, Made))>>)
          /\ stream' = expect(params, ";")
      BY <1>1, <1>10 DEF ParseMember, found, after, name
    <2>2. Quiet(found, stream') /\ stream' \in Streams
      <3>1. expect(params, ";") \in Streams /\ Quiet(params, expect(params, ";"))
        BY <1>3, <1>9, Expects DEF Literals
      <3> HIDE DEF params
      <3> QED BY <1>7, <1>9, <2>1, <3>1, QuietTwice
    <2>3. Steps
      <3>1. tokens' = tokens /\ stream.errors \subseteq stream'.errors
        BY <1>4, <1>7, <2>1, <2>2 DEF Continue, Quiet
      <3> QED BY <1>1, <2>2, <3>1 DEF Steps
    <2>4. "method" \in NodeKinds \ {"binary"} /\ name.pos \in 0..Len(tokens)
      BY <1>4 DEF NodeKinds
    <2>5. /\ Aside /\ Found(top.at) /\ Found(name.pos)
          /\ \A q : name.pos < q /\ NoClose(name.pos, q) => Found(q)
      BY <1>1, <1>2, <2>1, <2>3, <2>4, NullFits, KeepCase
    <2>6. \A q \in name.pos..(found.pos - 1) : Found(q)
      BY <1>8, <2>5
    <2>7. stream'.errors = {} =>
               \A q \in stream.pos..(stream'.pos - 1) : Word(q) => Found(q)
      BY <1>1, <1>4, <1>7, <1>8, <2>2, <2>6, Passing
    <2> QED BY <1>5, <2>5, <2>7 DEF WordsMove
  <1>11. CASE cur(after) = "(" /\ cur(params) = "{"
    <2> DEFINE rest == [top EXCEPT !.do = "endMethod", !.left = name.pos]
    <2>1. CallThen(Call("block"), rest) /\ stream' = params
      BY <1>1, <1>11 DEF ParseMember, found, after, name
    <2>2. /\ rest \in Tasks /\ rest.do = "endMethod" /\ rest.left = name.pos
          /\ rest.at = top.at /\ rest.kids = top.kids
      <3>1. top \in Tasks /\ "endMethod" \in Dos /\ name.pos \in Nat
        BY <1>1, <1>4, TopFacts DEF Dos, Keepers
      <3> QED BY <3>1 DEF Tasks
    <2> HIDE DEF rest
    <2>3. /\ Fit(rest, Len(nodes)) /\ Holds(rest) = Hand /\ ~Outermost(top)
          /\ rest.do \in Readers \ Inner
      <3>1. Holds(rest) = Hand
        BY <1>1, <1>2, <2>2 DEF Holds
      <3>2. Hand \subseteq 1..Len(nodes) /\ name.pos \in Positions
        BY <1>1, <1>4, TopFacts DEF Positions
      <3> QED BY <1>2, <2>2, <3>1, <3>2 DEF Fit, TaskOK, Keepers, Conditionals, Readers, Inner, ExprTasks
    <2>4. /\ tasks' = <<Call("block"), rest>> \o Tail(tasks) /\ tokens' = tokens
      BY <2>1 DEF CallThen, Continue
    <2>5. tasks'[2] = rest /\ 2 \in DOMAIN tasks'
      <3>1. Call("block") \in Tasks
        <4>1. "block" \in Dos \ Readers
          BY DEF Dos, Readers, Conditionals
        <4> QED BY <1>1, <4>1, CallFits DEF Fit
      <3> HIDE DEF Call
      <3> QED BY <1>1, <2>2, <2>4, <3>1, OnPush, Shapes DEF Built
    <2>6. Found(top.at) /\ \A q \in name.pos..(found.pos - 1) : Found(q)
      <3>1. InTask(rest, top.at) /\ \A q \in name.pos..(found.pos - 1) : InTask(rest, q)
        BY <1>8, <2>2 DEF InTask
      <3> QED BY <2>5, <3>1, FoundInTask
    <2>7. stream' \in Streams /\ Quiet(found, stream')
      BY <1>9, <2>1
    <2>8. /\ stream.errors \subseteq stream'.errors
          /\ stream'.errors = {} =>
               \A q \in stream.pos..(stream'.pos - 1) : Word(q) => Found(q)
      BY <1>1, <1>4, <1>7, <1>8, <2>6, <2>7, Passing
    <2>9. Steps
      BY <1>1, <2>4, <2>7, <2>8 DEF Steps
    <2>10. Aside
      BY <1>1, <1>2, <2>1, <2>3, <2>9, CallCase
    <2> QED BY <1>5, <2>6, <2>8, <2>10 DEF WordsMove
  <1> QED BY <1>6, <1>10, <1>11

LEMMA EndMethodMoves ==
  ASSUME Built, EndMethod
  PROVE  Aside /\ WordsMove
  <1>1. /\ tasks # << >> /\ top.do = "endMethod" /\ stream' = stream /\ ret' = ret
        /\ New("method", top.left, With(<< >>, ret))
        /\ Continue(<<Then("member", Append(top.kids, Made))>>)
    BY DEF EndMethod, Doing
  <1>2. Hand = ToSet(top.kids) \cup ({ret} \ {Null}) /\ top.do \in Readers
    BY <1>1, Hands DEF Keepers, Readers
  <1>3. ret \notin ToSet(top.kids)
    BY <1>1, <1>2 DEF Built, Owned, Reading, Holds
  <1>4. /\ ToSet(With(<< >>, ret)) \subseteq Hand /\ Hand \ ToSet(With(<< >>, ret)) = ToSet(top.kids)
        /\ With(<< >>, ret) \in Seq(Nat)
    <2>1. Hand \subseteq 1..Len(nodes)
      BY <1>1, TopFacts
    <2> QED BY <1>1, <1>2, <1>3, <2>1, Hands DEF Null
  <1>5. "method" \in NodeKinds \ {"binary"} /\ top.left \in 0..Len(tokens)
    BY <1>1, TopFacts DEF NodeKinds, TaskOK, Positions
  <1>6. Quiet(stream, stream')
    BY <1>1, Hands, QuietSelf
  <1>7. Steps
    BY <1>1, <1>6, QuietStep DEF Continue
  <1>8. /\ Aside
        /\ \A q : \/ top.at = q
                  \/ top.left = q
                  \/ top.left < q /\ NoClose(top.left, q)
                  => Found(q)
    BY <1>1, <1>4, <1>5, <1>7, KeepCase
  <1>9. \A q : InTask(top, q) => Found(q)
    BY <1>1, <1>8 DEF InTask
  <1> QED BY <1>6, <1>8, <1>9 DEF WordsMove, Quiet

LEMMA ParseBlockMoves ==
  ASSUME Built, ParseBlock
  PROVE  Aside /\ WordsMove
  <1> DEFINE rest == Then("statements", << >>)
  <1>1. tasks # << >> /\ top.do = "block" /\ GoOn(rest) /\ stream' = expect(stream, "{")
    BY DEF ParseBlock, Doing
  <1>2. Outside(top) /\ Hand = {} /\ ~Outermost(top)
    BY <1>1, Hands DEF Outside, Inner, ExprTasks, Keepers, Readers, Conditionals, Outermost
  <1>3. Quiet(stream, stream')
    BY <1>1, Hands, Expects DEF Literals
  <1>4. /\ Fit(rest, Len(nodes)) /\ Holds(rest) = Hand
        /\ rest.do \notin Readers \cup Inner \cup {"record"}
    <2>1. /\ "statements" \in Dos \ (Conditionals \cup {"operators", "operand", "endMethod"})
          /\ "statements" \notin Readers \cup Inner \cup {"record"}
      BY DEF Dos, Readers, Conditionals, Inner, ExprTasks, Keepers
    <2> QED BY <1>1, <1>2, <2>1, NullFits, ThenFits
  <1> HIDE DEF rest
  <1>5. Aside
    BY <1>1, <1>2, <1>3, <1>4, GoCase
  <1> QED BY <1>1, <1>3, <1>5, QuietMoves

LEMMA ParseStatementsMoves ==
  ASSUME Built, ParseStatements
  PROVE  Aside /\ WordsMove
  <1> DEFINE rest == Then("addStatement", top.kids)
  <1>1. /\ tasks # << >> /\ top.do = "statements" /\ stream' = stream
        /\ CallThen(Call("statement"), rest)
    BY DEF ParseStatements, Doing
  <1>2. Outside(top) /\ Hand = ToSet(top.kids) /\ ~Outermost(top) /\ Hand \subseteq 1..Len(nodes)
    BY <1>1, Hands, TopFacts DEF Outside, Inner, ExprTasks, Keepers, Readers, Conditionals, Outermost
  <1>3. Quiet(stream, stream')
    BY <1>1, Hands, QuietSelf
  <1>4. Fit(rest, Len(nodes)) /\ Holds(rest) = Hand /\ rest.do \in Readers \ Inner
    <2>1. /\ "addStatement" \in Dos \ (Conditionals \cup {"operators", "operand", "endMethod"})
          /\ "addStatement" \in Readers \ Inner /\ "addStatement" \in Keepers
      BY DEF Dos, Readers, Conditionals, Inner, ExprTasks, Keepers
    <2> QED BY <1>1, <1>2, <2>1, Hands, ThenFits
  <1> HIDE DEF rest
  <1>5. Aside
    BY <1>1, <1>2, <1>3, <1>4, CallCase
  <1> QED BY <1>1, <1>3, <1>5, QuietMoves

LEMMA AddStatementMoves ==
  ASSUME Built, AddStatement
  PROVE  Aside /\ WordsMove
  <1> DEFINE rest == Then("statements", With(top.kids, ret))
  <1>1. /\ tasks # << >> /\ top.do = "addStatement" /\ GoOn(rest)
        /\ stream' = IF ret = Null THEN synchronize(stream, FALSE) ELSE stream
    BY DEF AddStatement, Doing
  <1>2. /\ Outside(top) /\ Hand = ToSet(top.kids) \cup ({ret} \ {Null}) /\ ~Outermost(top)
        /\ Hand \subseteq 1..Len(nodes) /\ (ret = Null => stream.errors # {})
    BY <1>1, Hands, TopFacts DEF Outside, Inner, ExprTasks, Keepers, Readers, Outermost
  <1>3. Quiet(stream, stream')
    BY <1>1, <1>2, Hands, QuietSelf, Synchronizes
  <1>4. /\ Fit(rest, Len(nodes)) /\ Holds(rest) = Hand
        /\ rest.do \notin Readers \cup Inner \cup {"record"}
    <2>1. /\ "statements" \in Dos \ (Conditionals \cup {"operators", "operand", "endMethod"})
          /\ "statements" \notin Readers \cup Inner \cup {"record"} /\ "statements" \in Keepers
      BY DEF Dos, Readers, Conditionals, Inner, ExprTasks, Keepers
    <2>2. With(top.kids, ret) \in Seq(Nat) /\ ToSet(With(top.kids, ret)) = Hand
      BY <1>1, <1>2, Hands
    <2> QED BY <1>1, <1>2, <2>1, <2>2, ThenFits
  <1> HIDE DEF rest
  <1>5. Aside
    BY <1>1, <1>2, <1>3, <1>4, GoCase
  <1> QED BY <1>1, <1>3, <1>5, QuietMoves

LEMMA EndBlockMoves ==
  ASSUME Built, EndBlock
  PROVE  Aside /\ WordsMove
  <1>1. /\ tasks # << >> /\ top.do = "statements" /\ stream' = expect(stream, "}")
        /\ ReturnNew("compound", 0, top.kids)
    BY DEF EndBlock, Doing
  <1>2. Outside(top) /\ Hand = ToSet(top.kids) /\ ~Outermost(top)
    BY <1>1, Hands DEF Outside, Inner, ExprTasks, Keepers, Readers, Conditionals, Outermost
  <1>3. Quiet(stream, stream')
    BY <1>1, Hands, Expects DEF Literals
  <1>4. "compound" \in NodeKinds \ {"binary"}
    BY DEF NodeKinds
  <1>5. 0 \in 0..Len(tokens) /\ top.kids \in Seq(Nat)
    <2>1. Len(tokens) \in Nat
      BY <1>1, TopFacts
    <2>2. top.kids \in Seq(Nat)
      BY <1>1, Hands
    <2>3. 0 \in 0..Len(tokens)
      BY <2>1
    <2> QED BY <2>2, <2>3
  <1>6. Aside
    BY <1>1, <1>2, <1>3, <1>4, <1>5, NewCase
  <1> QED BY <1>1, <1>3, <1>6, QuietMoves

LEMMA StatementFacts ==
  ASSUME Built, tasks # << >>, top.do = "statement"
  PROVE  /\ Outside(top) /\ Hand = {} /\ ~Outermost(top)
         /\ stream \in Streams /\ tokens \in Inputs /\ stream.pos \in 0..Len(tokens) /\ stream.pos # 0
  <1>1. Outside(top) /\ Hand = {} /\ ~Outermost(top)
    BY Hands DEF Outside, Inner, ExprTasks, Keepers, Readers, Conditionals, Outermost
  <1>2. stream \in Streams /\ tokens \in Inputs /\ stream.pos \in 1..Len(tokens)
    BY Hands
  <1> QED BY <1>1, <1>2

(* What goes on behind the expression remembers where it began.            *)
LEMMA MarkedFits ==
  ASSUME Built, tasks # << >>, top.do = "statement",
         NEW do \in {"endReturn", "condition"}, do = "condition" => cur(stream) \in {"if", "while"},
         NEW rest, rest = [Then(do, << >>) EXCEPT !.at = stream.pos]
  PROVE  /\ Fit(rest, Len(nodes)) /\ Holds(rest) = Hand /\ rest.do \in Readers \ Inner
  <1>1. top \in Tasks /\ stream.pos \in 0..Len(tokens) /\ stream.pos # 0 /\ Hand = {} /\ do \in Dos
    BY TopFacts, StatementFacts DEF Dos, Readers, Conditionals
  <1>2. rest \in Tasks /\ rest.do = do /\ rest.at = stream.pos /\ rest.kids = << >>
    BY <1>1, NullFits DEF Tasks, Then
  <1>3. /\ do \notin {"operators", "operand", "endMethod"} /\ do \in Readers \ Inner
        /\ do \in Conditionals => do = "condition"
    BY DEF Readers, Conditionals, Inner, ExprTasks
  <1>4. TaskOK(rest)
    BY <1>1, <1>2, <1>3 DEF TaskOK, cur
  <1> QED BY <1>1, <1>2, <1>3, <1>4, NoElements DEF Fit, Holds

LEMMA ParseReturnMoves ==
  ASSUME Built, ParseReturn
  PROVE  Aside /\ WordsMove
  <1> DEFINE after == advance(stream)
             rest == [Then("endReturn", << >>) EXCEPT !.at = stream.pos]
  <1>1. tasks # << >> /\ top.do = "statement" /\ cur(stream) = "return"
    BY DEF ParseReturn, Doing
  <1>2. /\ Outside(top) /\ Hand = {} /\ ~Outermost(top)
        /\ stream \in Streams /\ tokens \in Inputs /\ stream.pos \in 0..Len(tokens)
    BY <1>1, StatementFacts
  <1>3. after \in Streams /\ Quiet(stream, after)
    <2>1. ~Word(stream.pos)
      BY <1>1 DEF Word, cur, Literals
    <2> QED BY <1>2, <2>1, Advances
  <1>4. CASE cur(after) = ";"
    <2>1. ReturnNew("return", stream.pos, << >>) /\ stream' = advance(after)
      BY <1>4 DEF ParseReturn
    <2>2. Quiet(stream, stream')
      <3>1. ~Word(after.pos)
        BY <1>4 DEF Word, cur, Literals
      <3> HIDE DEF after
      <3>2. Quiet(after, stream') /\ stream' \in Streams
        BY <1>2, <1>3, <2>1, <3>1, Advances
      <3> QED BY <1>2, <1>3, <3>2, QuietTwice
    <2>3. "return" \in NodeKinds \ {"binary"}
      BY DEF NodeKinds
    <2>4. Aside
      BY <1>1, <1>2, <2>1, <2>2, <2>3, NullFits, NewCase
    <2> QED BY <1>1, <2>2, <2>4, QuietMoves
  <1>5. CASE cur(after) # ";"
    <2>1. CallThen(CallHelper(0), rest) /\ stream' = after
      BY <1>5 DEF ParseReturn
    <2>2. Fit(rest, Len(nodes)) /\ Holds(rest) = Hand /\ rest.do \in Readers \ Inner
      BY <1>1, MarkedFits
    <2> HIDE DEF rest
    <2>3. Aside
      BY <1>1, <1>2, <1>3, <2>1, <2>2, CallCase
    <2> QED BY <1>1, <1>3, <2>1, <2>3, QuietMoves
  <1> QED BY <1>4, <1>5

LEMMA EndReturnMoves ==
  ASSUME Built, EndReturn
  PROVE  Aside /\ WordsMove
  <1>1. /\ tasks # << >> /\ top.do = "endReturn" /\ stream' = expect(stream, ";")
        /\ ReturnNew("return", top.at, With(<< >>, ret))
    BY DEF EndReturn, Doing
  <1>2. Outside(top) /\ Hand = {ret} \ {Null} /\ ~Outermost(top)
    BY <1>1, Hands DEF Outside, Inner, ExprTasks, Keepers, Readers, Outermost
  <1>3. Quiet(stream, stream')
    BY <1>1, Hands, Expects DEF Literals
  <1>4. "return" \in NodeKinds \ {"binary"}
    BY DEF NodeKinds
  <1>5. Aside
    BY <1>1, <1>2, <1>3, <1>4, Hands, NewCase
  <1> QED BY <1>1, <1>3, <1>5, QuietMoves

LEMMA ParseBlockStatementMoves ==
  ASSUME Built, ParseBlockStatement
  PROVE  Aside /\ WordsMove
  <1>1. tasks # << >> /\ top.do = "statement" /\ GoOn(Call("block")) /\ stream' = stream
    BY DEF ParseBlockStatement, Doing
  <1>2. Outside(top) /\ Hand = {} /\ ~Outermost(top) /\ Quiet(stream, stream')
    BY <1>1, StatementFacts, QuietSelf
  <1>3. /\ Fit(Call("block"), Len(nodes)) /\ Holds(Call("block")) = Hand
        /\ Call("block").do \notin Readers \cup Inner \cup {"record"}
    BY <1>1, <1>2, CallFits DEF Dos, Readers, Conditionals, Inner, ExprTasks
  <1>4. Aside
    BY <1>1, <1>2, <1>3, GoCase
  <1> QED BY <1>1, <1>2, <1>4, QuietMoves

LEMMA ParseConditionalMoves ==
  ASSUME Built, ParseConditional
  PROVE  Aside /\ WordsMove
  <1> DEFINE rest == [Then("condition", << >>) EXCEPT !.at = stream.pos]
  <1>1. /\ tasks # << >> /\ top.do = "statement" /\ cur(stream) \in {"if", "while"}
        /\ CallThen(CallHelper(0), rest) /\ stream' = expect(advance(stream), "(")
    BY DEF ParseConditional, Doing
  <1>2. Outside(top) /\ Hand = {} /\ ~Outermost(top) /\ stream \in Streams /\ tokens \in Inputs
    BY <1>1, StatementFacts
  <1>3. Quiet(stream, stream')
    <2>1. ~Word(stream.pos)
      BY <1>1 DEF Word, cur, Literals
    <2>2. advance(stream) \in Streams /\ Quiet(stream, advance(stream))
      BY <1>2, <2>1, Advances
    <2>3. stream' \in Streams /\ Quiet(advance(stream), stream')
      BY <1>1, <1>2, <2>2, Expects DEF Literals
    <2> QED BY <1>2, <2>2, <2>3, QuietTwice
  <1>4. Fit(rest, Len(nodes)) /\ Holds(rest) = Hand /\ rest.do \in Readers \ Inner
    BY <1>1, MarkedFits
  <1> HIDE DEF rest
  <1>5. Aside
    BY <1>1, <1>2, <1>3, <1>4, CallCase
  <1> QED BY <1>1, <1>3, <1>5, QuietMoves

(* A task of if or while goes on as another.                               *)
LEMMA ConditionalFits ==
  ASSUME Built, tasks # << >>, top.do \in Conditionals, NEW do \in {"else", "endIf", "endWhile"},
         NEW kids \in Seq(Nat), ToSet(kids) = Hand
  PROVE  /\ Fit(Then(do, kids), Len(nodes)) /\ Holds(Then(do, kids)) = Hand
         /\ Then(do, kids).do \in Readers \ Inner
  <1>1. /\ top \in Tasks /\ top.at # 0 /\ tokens[top.at] \in {"if", "while"} /\ do \in Dos
        /\ Hand \subseteq 1..Len(nodes)
    BY TopFacts DEF Dos, Readers, Conditionals, TaskOK
  <1>2. /\ Then(do, kids) \in Tasks /\ Then(do, kids).do = do /\ Then(do, kids).kids = kids
        /\ Then(do, kids).at = top.at
    BY <1>1 DEF Then, Tasks
  <1>3. do \notin {"operators", "operand", "endMethod"} /\ do \in Readers \ Inner /\ do \in Keepers
    BY DEF Readers, Conditionals, Inner, ExprTasks, Keepers
  <1> QED BY <1>1, <1>2, <1>3 DEF Fit, TaskOK, Holds

LEMMA EndConditionMoves ==
  ASSUME Built, EndCondition
  PROVE  Aside /\ WordsMove
  <1> DEFINE do == IF tokens[top.at] = "if" THEN "else" ELSE "endWhile"
             rest == Then(do, With(<< >>, ret))
  <1>1. /\ tasks # << >> /\ top.do = "condition" /\ stream' = expect(stream, ")")
        /\ CallThen(Call("statement"), rest)
    BY DEF EndCondition, Doing
  <1>2. Outside(top) /\ Hand = {ret} \ {Null} /\ ~Outermost(top)
    BY <1>1, Hands DEF Outside, Inner, ExprTasks, Keepers, Readers, Conditionals, Outermost
  <1>3. Quiet(stream, stream')
    BY <1>1, Hands, Expects DEF Literals
  <1>4. Fit(rest, Len(nodes)) /\ Holds(rest) = Hand /\ rest.do \in Readers \ Inner
    <2>1. do \in {"else", "endIf", "endWhile"} /\ top.do \in Conditionals
      BY <1>1 DEF Conditionals
    <2>2. With(<< >>, ret) \in Seq(Nat) /\ ToSet(With(<< >>, ret)) = Hand
      BY <1>1, <1>2, Hands
    <2> HIDE DEF do
    <2> QED BY <1>1, <2>1, <2>2, ConditionalFits
  <1> HIDE DEF rest
  <1>5. Aside
    BY <1>1, <1>2, <1>3, <1>4, CallCase
  <1> QED BY <1>1, <1>3, <1>5, QuietMoves

LEMMA ParseElseMoves ==
  ASSUME Built, ParseElse
  PROVE  Aside /\ WordsMove
  <1>1. tasks # << >> /\ top.do = "else"
    BY DEF ParseElse, Doing
  <1>2. /\ Outside(top) /\ Hand = ToSet(top.kids) \cup ({ret} \ {Null}) /\ ~Outermost(top)
        /\ top.do \in Conditionals
    BY <1>1, Hands DEF Outside, Inner, ExprTasks, Keepers, Readers, Conditionals, Outermost
  <1>3. With(top.kids, ret) \in Seq(Nat) /\ ToSet(With(top.kids, ret)) = Hand
    BY <1>1, <1>2, Hands
  <1>4. CASE cur(stream) = "else"
    <2> DEFINE rest == Then("endIf", With(top.kids, ret))
    <2>1. CallThen(Call("statement"), rest) /\ stream' = advance(stream)
      BY <1>4 DEF ParseElse
    <2>2. Quiet(stream, stream')
      <3>1. ~Word(stream.pos)
        BY <1>4 DEF Word, cur, Literals
      <3> QED BY <1>1, <2>1, <3>1, Hands, Advances
    <2>3. Fit(rest, Len(nodes)) /\ Holds(rest) = Hand /\ rest.do \in Readers \ Inner
      BY <1>1, <1>2, <1>3, ConditionalFits
    <2> HIDE DEF rest
    <2>4. Aside
      BY <1>1, <1>2, <2>1, <2>2, <2>3, CallCase
    <2> QED BY <1>1, <2>2, <2>4, QuietMoves
  <1>5. CASE cur(stream) # "else"
    <2>1. ReturnNew("if", top.at, With(top.kids, ret)) /\ stream' = stream
      BY <1>5 DEF ParseElse
    <2>2. Quiet(stream, stream')
      BY <1>1, <2>1, Hands, QuietSelf
    <2>3. "if" \in NodeKinds \ {"binary"}
      BY DEF NodeKinds
    <2>4. Aside
      BY <1>1, <1>2, <1>3, <2>1, <2>2, <2>3, Hands, NewCase
    <2> QED BY <1>1, <2>2, <2>4, QuietMoves
  <1> QED BY <1>4, <1>5

LEMMA EndConditionalMoves ==
  ASSUME Built, EndConditional
  PROVE  Aside /\ WordsMove
  <1>1. /\ tasks # << >> /\ top.do \in {"endIf", "endWhile"} /\ stream' = stream
        /\ ReturnNew(tokens[top.at], top.at, With(top.kids, ret))
    BY DEF EndConditional, Doing
  <1>2. /\ Outside(top) /\ Hand = ToSet(top.kids) \cup ({ret} \ {Null}) /\ ~Outermost(top)
        /\ top.do \in Conditionals
    BY <1>1, Hands DEF Outside, Inner, ExprTasks, Keepers, Readers, Conditionals, Outermost
  <1>3. With(top.kids, ret) \in Seq(Nat) /\ ToSet(With(top.kids, ret)) = Hand
    BY <1>1, <1>2, Hands
  <1>4. Quiet(stream, stream')
    BY <1>1, Hands, QuietSelf
  <1>5. tokens[top.at] \in NodeKinds \ {"binary"}
    <2>1. tokens[top.at] \in {"if", "while"}
      BY <1>1, <1>2, TopFacts DEF TaskOK
    <2> QED BY <2>1 DEF NodeKinds
  <1>6. Aside
    BY <1>1, <1>2, <1>3, <1>4, <1>5, Hands, NewCase
  <1> QED BY <1>1, <1>4, <1>6, QuietMoves

LEMMA ParseDeclStatementMoves ==
  ASSUME Built, ParseDeclStatement
  PROVE  Aside /\ WordsMove
  <1> DEFINE rest == Then("endDeclStatement", << >>)
  <1>1. /\ tasks # << >> /\ top.do = "statement" /\ stream' = stream
        /\ CallThen(Call("declaration"), rest)
    BY DEF ParseDeclStatement, Doing
  <1>2. Outside(top) /\ Hand = {} /\ ~Outermost(top) /\ Quiet(stream, stream')
    BY <1>1, StatementFacts, QuietSelf
  <1>3. Fit(rest, Len(nodes)) /\ Holds(rest) = Hand /\ rest.do \in Readers \ Inner
    <2>1. /\ "endDeclStatement" \in Dos \ (Conditionals \cup {"operators", "operand", "endMethod"})
          /\ "endDeclStatement" \in Readers \ Inner
      BY DEF Dos, Readers, Conditionals, Inner, ExprTasks
    <2> QED BY <1>1, <1>2, <2>1, NullFits, ThenFits
  <1> HIDE DEF rest
  <1>4. Aside
    BY <1>1, <1>2, <1>3, CallCase
  <1> QED BY <1>1, <1>2, <1>4, QuietMoves

LEMMA EndDeclStatementMoves ==
  ASSUME Built, EndDeclStatement
  PROVE  Aside /\ WordsMove
  <1>1. tasks # << >> /\ top.do = "endDeclStatement" /\ stream' = stream
    BY DEF EndDeclStatement, Doing
  <1>2. /\ Outside(top) /\ Hand = {ret} \ {Null} /\ ~Outermost(top)
        /\ ret = Null => stream.errors # {}
    BY <1>1, Hands DEF Outside, Inner, ExprTasks, Keepers, Readers, Outermost
  <1>3. Quiet(stream, stream')
    BY <1>1, Hands, QuietSelf
  <1>4. CASE ret = Null
    <2>1. Return(Null) /\ Hand = {} /\ stream'.errors # {}
      BY <1>1, <1>2, <1>4 DEF EndDeclStatement
    <2>2. Aside
      BY <1>1, <1>2, <1>3, <2>1, NullCase
    <2> QED BY <1>1, <1>3, <2>2, QuietMoves
  <1>5. CASE ret # Null
    <2>1. ReturnNew("declstmt", 0, <<ret>>)
      BY <1>5 DEF EndDeclStatement
    <2>2. <<ret>> \in Seq(Nat) /\ ToSet(<<ret>>) = Hand
      BY <1>1, <1>2, <1>5, Hands, OneElement
    <2>3. "declstmt" \in NodeKinds \ {"binary"} /\ 0 \in 0..Len(tokens)
      <3>1. Len(tokens) \in Nat
        BY <1>1, TopFacts
      <3> QED BY <3>1 DEF NodeKinds
    <2> DEFINE kids == <<ret>>
    <2> HIDE DEF kids
    <2>4. ReturnNew("declstmt", 0, kids) /\ kids \in Seq(Nat) /\ ToSet(kids) = Hand
      BY <2>1, <2>2 DEF kids
    <2>5. Aside
      BY <1>1, <1>2, <1>3, <2>3, <2>4, NewCase
    <2> QED BY <1>1, <1>3, <2>5, QuietMoves
  <1> QED BY <1>4, <1>5

LEMMA ParseExprStatementMoves ==
  ASSUME Built, ParseExprStatement
  PROVE  Aside /\ WordsMove
  <1> DEFINE rest == Then("endExprStatement", << >>)
  <1>1. /\ tasks # << >> /\ top.do = "statement" /\ stream' = stream
        /\ CallThen(CallHelper(0), rest)
    BY DEF ParseExprStatement, Doing
  <1>2. Outside(top) /\ Hand = {} /\ ~Outermost(top) /\ Quiet(stream, stream')
    BY <1>1, StatementFacts, QuietSelf
  <1>3. Fit(rest, Len(nodes)) /\ Holds(rest) = Hand /\ rest.do \in Readers \ Inner
    <2>1. /\ "endExprStatement" \in Dos \ (Conditionals \cup {"operators", "operand", "endMethod"})
          /\ "endExprStatement" \in Readers \ Inner
      BY DEF Dos, Readers, Conditionals, Inner, ExprTasks
    <2> QED BY <1>1, <1>2, <2>1, NullFits, ThenFits
  <1> HIDE DEF rest
  <1>4. Aside
    BY <1>1, <1>2, <1>3, CallCase
  <1> QED BY <1>1, <1>2, <1>4, QuietMoves

LEMMA EndExprStatementMoves ==
  ASSUME Built, EndExprStatement
  PROVE  Aside /\ WordsMove
  <1>1. tasks # << >> /\ top.do = "endExprStatement"
    BY DEF EndExprStatement, Doing
  <1>2. /\ Outside(top) /\ Hand = {ret} \ {Null} /\ ~Outermost(top)
        /\ ret = Null => stream.errors # {}
    BY <1>1, Hands DEF Outside, Inner, ExprTasks, Keepers, Readers, Outermost
  <1>3. CASE ret = Null
    <2>1. Return(Null) /\ Hand = {} /\ stream'.errors # {} /\ stream' = stream
      BY <1>1, <1>2, <1>3 DEF EndExprStatement
    <2>2. Quiet(stream, stream')
      BY <1>1, <2>1, Hands, QuietSelf
    <2>3. Aside
      BY <1>1, <1>2, <2>1, <2>2, NullCase
    <2> QED BY <1>1, <2>2, <2>3, QuietMoves
  <1>4. CASE ret # Null
    <2>1. ReturnNew("exprstmt", 0, <<ret>>) /\ stream' = expect(stream, ";")
      BY <1>4 DEF EndExprStatement
    <2>2. <<ret>> \in Seq(Nat) /\ ToSet(<<ret>>) = Hand
      BY <1>1, <1>2, <1>4, Hands, OneElement
    <2>3. "exprstmt" \in NodeKinds \ {"binary"} /\ 0 \in 0..Len(tokens)
      <3>1. Len(tokens) \in Nat
        BY <1>1, TopFacts
      <3> QED BY <3>1 DEF NodeKinds
    <2>4. Quiet(stream, stream')
      BY <1>1, <2>1, Hands, Expects DEF Literals
    <2> DEFINE kids == <<ret>>
    <2> HIDE DEF kids
    <2>5. ReturnNew("exprstmt", 0, kids) /\ kids \in Seq(Nat) /\ ToSet(kids) = Hand
      BY <2>1, <2>2 DEF kids
    <2>6. Aside
      BY <1>1, <1>2, <2>3, <2>4, <2>5, NewCase
    <2> QED BY <1>1, <2>4, <2>6, QuietMoves
  <1> QED BY <1>3, <1>4


-----------------------------------------------------------------------------
(* The steps of an expression.                                             *)
LEMMA Precedences ==
  ASSUME NEW kind
  PROVE  /\ getPrecedence(kind) \in {-1, 10, 80, 100, 110, 120}
         /\ getPrecedence(kind) >= 0 /\ kind \notin Members => kind \in Operators
         /\ kind \in Operators => getPrecedence(kind) \in 0..110
         /\ kind \notin Operators \cup Members => getPrecedence(kind) = -1
         /\ kind \in Operators => kind \notin Literals \cup {"id", "(", ")"} \cup Members
         /\ kind \in Members => getPrecedence(kind) = 120
         /\ kind \in Members => kind \notin Literals \cup {"id", "(", ")"} \cup Operators
  BY DEF getPrecedence, Members, Operators, Literals

LEMMA InnerCall ==
  ASSUME Built, tasks # << >>, Quiet(stream, stream'), ~Outermost(top),
         NEW call, Fit(call, Len(nodes)), call.do \in {"helper", "primary"}, Holds(call) = {},
         NEW rest, Fit(rest, Len(nodes)), rest.do \in Readers, Holds(rest) = Hand,
         CallThen(call, rest)
  PROVE  Moves
  <1>1. /\ tokens' = tokens /\ tasks' = <<call, rest>> \o Tail(tasks)
        /\ nodes' = nodes /\ ret' = ret
    BY DEF CallThen, Continue
  <1>2. Steps
    BY <1>1, QuietStep
  <1>3. Calls(call, rest)
    BY <1>1, <1>2 DEF Calls, Readers, Conditionals
  <1> QED BY <1>3 DEF Moves

LEMMA InnerReturn ==
  ASSUME Built, tasks # << >>, Quiet(stream, stream'), ~Outermost(top),
         NEW r \in 0..Len(nodes), Return(r), Hand = {r} \ {Null},
         r = Null => stream'.errors # {}
  PROVE  Moves
  <1>1. /\ tokens' = tokens /\ tasks' = << >> \o Tail(tasks)
        /\ nodes' = nodes /\ ret' = r
    BY DEF Return, Continue
  <1>2. Steps
    BY <1>1, QuietStep
  <1>3. Returns(r)
    BY <1>1, <1>2 DEF Returns
  <1> QED BY <1>3 DEF Moves

LEMMA InnerTop ==
  ASSUME Built, tasks # << >>, ~Outside(top)
  PROVE  /\ top \in Tasks /\ TaskOK(top) /\ ~Outermost(top)
         /\ top.do \in {"helper", "primary"} => Hand = {}
         /\ top.do \in {"operators", "parenthesis"} => Hand = {ret} \ {Null}
         /\ top.do = "operand" => Hand = {top.left} \cup ({ret} \ {Null})
         /\ top.do \in {"operators", "operand", "parenthesis"} /\ ret = Null => stream.errors # {}
         /\ top.do # "operand" => top.kids = << >>
         /\ ret \in 0..Len(nodes) /\ Len(nodes) \in Nat /\ stream \in Streams /\ tokens \in Inputs
         /\ stream.pos \in 1..Len(tokens) /\ Len(tokens) \in Nat \ {0}
  <1>1. top.do \in Inner
    BY DEF Outside
  <1>2. /\ top.do \in {"helper", "primary"} => top.do \notin Keepers \cup Readers
        /\ top.do \in {"operators", "parenthesis"} => top.do \in Readers \ Keepers
        /\ top.do = "operand" => top.do \in Readers
        /\ top.do # "operand" => top.do \notin Keepers
        /\ ~Outermost(top)
    BY <1>1 DEF Inner, ExprTasks, Readers, Keepers, Conditionals, Outermost
  <1>3. top.do = "operand" => Holds(top) = {top.left}
    BY DEF Holds
  <1>4. /\ top \in Tasks /\ TaskOK(top)
        /\ ret \in 0..Len(nodes) /\ Len(nodes) \in Nat /\ stream \in Streams /\ tokens \in Inputs
        /\ stream.pos \in 1..Len(tokens) /\ Len(tokens) \in Nat \ {0}
        /\ top.do \in Readers => Hand = Holds(top) \cup ({ret} \ {Null})
    BY TopFacts
  <1>5. top.do # "operand" => top.kids = << >>
    BY <1>2, <1>4 DEF TaskOK
  <1>6. /\ top.do \notin Keepers \cup Readers => Hand = {}
        /\ top.do \in Readers \ Keepers => Hand = {ret} \ {Null}
        /\ top.do \in Readers /\ ret = Null => stream.errors # {}
    BY Hands
  <1> HIDE DEF Readers, Keepers
  <1> QED BY <1>2, <1>3, <1>4, <1>5, <1>6

LEMMA ParseHelperMoves ==
  ASSUME Built, ParseHelper
  PROVE  Moves /\ WordsMove
  <1> DEFINE rest == [top EXCEPT !.do = "operators", !.at = stream.pos]
  <1>1. /\ tasks # << >> /\ top.do = "helper" /\ stream' = stream
        /\ CallThen(Call("primary"), rest)
    BY DEF ParseHelper, Doing
  <1>2. ~Outside(top)
    BY <1>1 DEF Outside, Inner, ExprTasks
  <1>3. Quiet(stream, stream')
    BY <1>1, Hands, QuietSelf
  <1>4. /\ rest \in Tasks /\ rest.do = "operators" /\ rest.at = stream.pos /\ rest.kids = << >>
        /\ Hand = {} /\ stream.pos # 0 /\ ~Outermost(top)
    <2>1. /\ top \in Tasks /\ top.kids = << >> /\ stream.pos \in 1..Len(tokens) /\ Hand = {}
          /\ "operators" \in Dos /\ ~Outermost(top) /\ Len(tokens) \in Nat
      BY <1>1, <1>2, InnerTop DEF Dos, Readers
    <2>2. stream.pos \in 0..Len(tokens) /\ stream.pos # 0
      BY <2>1
    <2> QED BY <2>1, <2>2 DEF Tasks
  <1> HIDE DEF rest
  <1>5. Fit(rest, Len(nodes)) /\ Holds(rest) = Hand /\ rest.do \in Readers
    BY <1>4, NoElements DEF Fit, TaskOK, Holds, Conditionals, Readers
  <1>6. Fit(Call("primary"), Len(nodes)) /\ Holds(Call("primary")) = {} /\ Call("primary").do = "primary"
    BY <1>1, CallFits DEF Dos, Readers, Conditionals
  <1>7. Moves
    BY <1>1, <1>3, <1>4, <1>5, <1>6, InnerCall
  <1> QED BY <1>1, <1>3, <1>7, QuietMoves

LEMMA ParsePrimaryMoves ==
  ASSUME Built, ParsePrimary
  PROVE  Moves /\ WordsMove
  <1>1. tasks # << >> /\ top.do = "primary"
    BY DEF ParsePrimary, Doing
  <1>2. ~Outside(top)
    BY <1>1 DEF Outside, Inner, ExprTasks
  <1>3. /\ Hand = {} /\ ~Outermost(top) /\ stream \in Streams /\ tokens \in Inputs
        /\ stream.pos \in 1..Len(tokens) /\ Len(tokens) \in Nat \ {0} /\ Len(nodes) \in Nat
    BY <1>1, <1>2, InnerTop
  <1>4. CASE cur(stream) \in Literals \cup {"id"}
    <2> DEFINE node == Node("leaf", stream.pos, 0, 0, << >>)
    <2>1. /\ nodes' = Append(nodes, node) /\ ret' = Len(nodes) + 1
          /\ tokens' = tokens /\ tasks' = << >> \o Tail(tasks) /\ stream' = advance(stream)
      BY <1>4 DEF ParsePrimary, ReturnNew, New, Made, Continue
    <2>2. node \in NodeSet /\ ToSet(node.kids) = Hand /\ node.at = stream.pos
      BY <1>3, NoElements DEF Node, NodeSet, NodeKinds
    <2> HIDE DEF node
    <2>3. /\ stream' \in Streams /\ stream'.errors = stream.errors /\ stream'.pos = stream.pos + 1
      <3>1. cur(stream) # "eof"
        BY <1>4 DEF Literals
      <3> QED BY <1>3, <2>1, <3>1, Advances
    <2>4. Moves
      BY <1>1, <1>3, <2>1, <2>2, <2>3 DEF Moves, ReturnsNew, Steps
    <2>5. \A q : ~InTask(top, q)
      BY <1>1 DEF InTask
    <2>6. Found(stream.pos)
      BY <2>1, <2>2, FoundInNew
    <2>7. \A q \in stream.pos..(stream'.pos - 1) : q = stream.pos
      <3>1. \A p \in Nat : \A q \in p..((p + 1) - 1) : q = p
        OBVIOUS
      <3>2. stream.pos \in Nat
        BY <1>3
      <3> QED BY <2>3, <3>1, <3>2
    <2> QED BY <2>4, <2>5, <2>6, <2>7 DEF WordsMove
  <1>5. CASE cur(stream) \notin Literals \cup {"id"} /\ cur(stream) = "("
    <2>1. CallThen(CallHelper(0), Call("parenthesis")) /\ stream' = advance(stream)
      BY <1>5 DEF ParsePrimary
    <2>2. Quiet(stream, stream')
      <3>1. ~Word(stream.pos)
        BY <1>5 DEF Word, cur
      <3> QED BY <1>3, <2>1, <3>1, Advances
    <2>3. /\ Call("parenthesis") \in Tasks /\ Call("parenthesis").do = "parenthesis"
          /\ Call("parenthesis").kids = << >>
      BY <1>3, NullFits DEF Call, Task, Tasks, Null, Dos, Readers
    <2>4. /\ Fit(Call("parenthesis"), Len(nodes)) /\ Holds(Call("parenthesis")) = Hand
          /\ Call("parenthesis").do \in Readers
      BY <1>3, <2>3, NoElements DEF Fit, TaskOK, Holds, Conditionals, Readers
    <2>5. /\ Fit(CallHelper(0), Len(nodes)) /\ Holds(CallHelper(0)) = {}
          /\ CallHelper(0).do = "helper"
      <3>1. 0 \in 0..121
        OBVIOUS
      <3> QED BY <1>1, <3>1, HelperFits
    <2>6. Moves
      BY <1>1, <1>3, <2>1, <2>2, <2>4, <2>5, InnerCall
    <2> QED BY <1>1, <2>2, <2>6, QuietMoves
  <1>6. CASE cur(stream) \notin Literals \cup {"id"} /\ cur(stream) # "("
    <2>1. Return(Null) /\ stream' = error(stream)
      BY <1>6 DEF ParsePrimary
    <2>2. Quiet(stream, stream') /\ stream'.errors # {}
      BY <1>3, <2>1, Errors
    <2>3. Null \in 0..Len(nodes) /\ Hand = {Null} \ {Null}
      BY <1>3 DEF Null
    <2>4. Moves
      BY <1>1, <1>3, <2>1, <2>2, <2>3, InnerReturn
    <2> QED BY <1>1, <2>2, <2>4, QuietMoves
  <1> QED BY <1>4, <1>5, <1>6

LEMMA EndParenthesisMoves ==
  ASSUME Built, EndParenthesis
  PROVE  Moves /\ WordsMove
  <1>1. tasks # << >> /\ top.do = "parenthesis" /\ Return(ret) /\ stream' = expect(stream, ")")
    BY DEF EndParenthesis, Doing
  <1>2. ~Outside(top)
    BY <1>1 DEF Outside, Inner, ExprTasks
  <1>3. /\ Hand = {ret} \ {Null} /\ ~Outermost(top) /\ stream \in Streams /\ tokens \in Inputs
        /\ ret \in 0..Len(nodes) /\ (ret = Null => stream.errors # {})
    BY <1>1, <1>2, InnerTop
  <1>4. Quiet(stream, stream')
    BY <1>1, <1>3, Expects DEF Literals
  <1>5. ret = Null => stream'.errors # {}
    BY <1>3, <1>4 DEF Quiet
  <1>6. Moves
    BY <1>1, <1>3, <1>4, <1>5, InnerReturn
  <1> QED BY <1>1, <1>4, <1>6, QuietMoves

LEMMA EndOperatorsMoves ==
  ASSUME Built, EndOperators
  PROVE  Moves /\ WordsMove
  <1>1. tasks # << >> /\ top.do = "operators" /\ Return(ret) /\ stream' = stream
    BY DEF EndOperators, Doing
  <1>2. ~Outside(top)
    BY <1>1 DEF Outside, Inner, ExprTasks
  <1>3. /\ Hand = {ret} \ {Null} /\ ~Outermost(top) /\ stream \in Streams
        /\ ret \in 0..Len(nodes) /\ (ret = Null => stream.errors # {})
    BY <1>1, <1>2, InnerTop
  <1>4. Quiet(stream, stream')
    BY <1>1, <1>3, QuietSelf
  <1>5. Moves
    BY <1>1, <1>3, <1>4, InnerReturn
  <1> QED BY <1>1, <1>4, <1>5, QuietMoves

LEMMA OperatorTasks ==
  ASSUME Built, ParseOperator, NEW prec, prec = OperandPrecedence(getPrecedence(cur(stream))),
         NEW rest, rest = [top EXCEPT !.do = "operand", !.left = ret, !.kids = <<stream.pos>>]
  PROVE  /\ tasks # << >> /\ top.do = "operators" /\ cur(stream) \in Operators /\ prec \in 0..121
         /\ rest \in Tasks /\ rest.do = "operand" /\ rest.at = top.at /\ rest.left = ret
         /\ rest.prec = top.prec /\ rest.kids = <<stream.pos>> /\ rest.kids[1] = stream.pos
         /\ Len(rest.kids) = 1 /\ Hand = {ret} /\ ret \in 1..Len(nodes) /\ ~Outermost(top)
         /\ stream \in Streams /\ tokens \in Inputs /\ stream.pos \in 1..Len(tokens)
         /\ Len(tokens) \in Nat \ {0} /\ TaskOK(top)
  <1>1. /\ tasks # << >> /\ top.do = "operators" /\ ret # Null
        /\ cur(stream) \notin Members /\ getPrecedence(cur(stream)) >= top.prec
    BY DEF ParseOperator, Doing
  <1>2. ~Outside(top)
    BY <1>1 DEF Outside, Inner, ExprTasks
  <1>3. /\ Hand = {ret} /\ ~Outermost(top) /\ stream \in Streams /\ tokens \in Inputs
        /\ ret \in 0..Len(nodes) /\ Len(nodes) \in Nat /\ top \in Tasks /\ TaskOK(top)
        /\ stream.pos \in 1..Len(tokens) /\ Len(tokens) \in Nat \ {0}
    BY <1>1, <1>2, InnerTop
  <1>4. ret \in 1..Len(nodes)
    BY <1>1, <1>3 DEF Null
  <1>5. cur(stream) \in Operators /\ prec \in 0..121
    <2>1. top.prec \in 0..121
      BY <1>3 DEF Tasks
    <2>2. getPrecedence(cur(stream)) \in {-1, 10, 80, 100, 110, 120}
      BY Precedences
    <2> DEFINE p == getPrecedence(cur(stream))
               t == top.prec
    <2>3. p \in {-1, 10, 80, 100, 110, 120} /\ t \in 0..121 /\ p >= t
      BY <1>1, <2>1, <2>2
    <2> HIDE DEF p, t
    <2>4. p >= 0 /\ p + 1 \in 0..121
      BY <2>3
    <2>5. getPrecedence(cur(stream)) >= 0 /\ getPrecedence(cur(stream)) + 1 \in 0..121
      BY <2>4 DEF p
    <2> QED BY <1>1, <2>5, Precedences DEF OperandPrecedence
  <1>6. /\ rest \in Tasks /\ rest.do = "operand" /\ rest.at = top.at /\ rest.left = ret
        /\ rest.prec = top.prec /\ rest.kids = <<stream.pos>>
    <2>1. "operand" \in Dos /\ <<stream.pos>> \in Seq(Nat) /\ ret \in Nat
      BY <1>3 DEF Dos, Readers
    <2> DEFINE kids == <<stream.pos>>
    <2>2. kids \in Seq(Nat)
      BY <2>1
    <2> HIDE DEF kids
    <2>3. [top EXCEPT !.do = "operand", !.left = ret, !.kids = kids] \in Tasks
      BY <1>3, <2>1, <2>2 DEF Tasks
    <2> QED BY <1>3, <2>3 DEF Tasks, kids
  <1>7. Len(rest.kids) = 1 /\ rest.kids[1] = stream.pos
    BY <1>6
  <1> QED BY <1>1, <1>3, <1>4, <1>5, <1>6, <1>7

LEMMA ParseOperatorMoves ==
  ASSUME Built, ParseOperator
  PROVE  Moves /\ WordsMove
  <1> DEFINE prec == OperandPrecedence(getPrecedence(cur(stream)))
             rest == [top EXCEPT !.do = "operand", !.left = ret, !.kids = <<stream.pos>>]
  <1>1. stream' = advance(stream) /\ CallThen(CallHelper(prec), rest)
    BY DEF ParseOperator
  <1>2. /\ tasks # << >> /\ top.do = "operators" /\ cur(stream) \in Operators /\ prec \in 0..121
        /\ rest \in Tasks /\ rest.do = "operand" /\ rest.at = top.at /\ rest.left = ret
        /\ rest.kids[1] = stream.pos /\ Len(rest.kids) = 1
        /\ Hand = {ret} /\ ret \in 1..Len(nodes) /\ ~Outermost(top)
        /\ stream \in Streams /\ tokens \in Inputs /\ stream.pos \in 1..Len(tokens) /\ TaskOK(top)
    BY OperatorTasks
  <1>3. Quiet(stream, stream')
    <2>1. ~Word(stream.pos)
      BY <1>2, Precedences DEF Word, cur
    <2> QED BY <1>1, <1>2, <2>1, Advances
  <1> HIDE DEF rest
  <1>4. Fit(rest, Len(nodes)) /\ Holds(rest) = Hand /\ rest.do \in Readers
    <2>1. rest.at # 0
      BY <1>2 DEF TaskOK
    <2>2. TaskOK(rest)
      BY <1>2, <2>1 DEF TaskOK, Keepers, Conditionals, Positions, cur
    <2> QED BY <1>2, <2>2 DEF Fit, Holds, Readers
  <1>5. /\ Fit(CallHelper(prec), Len(nodes)) /\ Holds(CallHelper(prec)) = {}
        /\ CallHelper(prec).do = "helper"
    <2> HIDE DEF prec
    <2> QED BY <1>2, HelperFits
  <1> HIDE DEF prec
  <1>6. Moves
    BY <1>1, <1>2, <1>3, <1>4, <1>5, InnerCall
  <1> QED BY <1>2, <1>3, <1>6, QuietMoves

LEMMA EndOperandMoves ==
  ASSUME Built, EndOperand
  PROVE  Moves /\ WordsMove
  <1>1. tasks # << >> /\ top.do = "operand" /\ stream' = stream
    BY DEF EndOperand, Doing
  <1>2. ~Outside(top)
    BY <1>1 DEF Outside, Inner, ExprTasks
  <1>3. /\ Hand = {top.left} \cup ({ret} \ {Null}) /\ ~Outermost(top) /\ stream \in Streams
        /\ ret \in 0..Len(nodes) /\ Len(nodes) \in Nat /\ top \in Tasks /\ TaskOK(top)
        /\ stream.pos \in 1..Len(tokens) /\ Len(tokens) \in Nat \ {0} /\ tokens \in Inputs
    BY <1>1, <1>2, InnerTop
  <1>4. Quiet(stream, stream') /\ top.left \in 1..Len(nodes)
    <2>1. Holds(top) \subseteq 1..Len(nodes) /\ Holds(top) = {top.left}
      BY <1>1, TopFacts DEF Holds
    <2> QED BY <1>1, <1>3, <2>1, QuietSelf
  <1>5. CASE ret = Null
    <2>1. Return(top.left) /\ top.left \in 0..Len(nodes) /\ top.left # Null
          /\ Hand = {top.left} \ {Null}
      BY <1>3, <1>4, <1>5 DEF EndOperand, Null
    <2>2. Moves
      BY <1>1, <1>3, <1>4, <2>1, InnerReturn
    <2> QED BY <1>1, <1>4, <2>2, QuietMoves
  <1>6. CASE ret # Null
    <2> DEFINE kids == <<top.left, ret>>
               node == Node("binary", top.kids[1], top.at, stream.pos - 1, kids)
               rest == Then("operators", << >>)
    <2>1. /\ nodes' = Append(nodes, node) /\ ret' = Len(nodes) + 1
          /\ tokens' = tokens /\ tasks' = <<rest>> \o Tail(tasks)
      BY <1>6 DEF EndOperand, Made, Continue
    <2>2. kids \in Seq(Nat) /\ ToSet(kids) = Hand
      BY <1>3, <1>4, <1>6, TwoElements
    <2> HIDE DEF kids
    <2>3. node \in NodeSet /\ node.kids = kids
      <3>1. top.kids[1] \in 0..Len(tokens) /\ top.at \in 0..Len(tokens)
        BY <1>1, <1>3 DEF TaskOK, Tasks, Positions
      <3>2. stream.pos - 1 \in 0..Len(tokens)
        BY <1>3
      <3> QED BY <2>2, <3>1, <3>2 DEF Node, NodeSet, NodeKinds
    <2>4. rest \in Tasks /\ rest.do = "operators" /\ rest.kids = << >> /\ rest.at = top.at
      BY <1>3, NullFits DEF Then, Tasks, Dos, Readers
    <2> HIDE DEF node, rest
    <2>5. Fit(rest, Len(nodes) + 1) /\ Holds(rest) = {} /\ rest.do \in Readers
      <3>1. rest.at # 0
        BY <1>1, <1>3, <2>4 DEF TaskOK
      <3> QED BY <2>4, <3>1, NoElements DEF Fit, TaskOK, Holds, Conditionals, Readers
    <2>6. Steps
      BY <1>1, <1>4, <2>1, QuietStep
    <2>7. Adds(node, rest)
      BY <1>3, <2>1, <2>2, <2>3, <2>4, <2>5, <2>6 DEF Adds
    <2>8. Moves
      BY <2>7 DEF Moves
    <2> QED BY <1>1, <1>4, <2>8, QuietMoves
  <1> QED BY <1>5, <1>6

LEMMA ParseMemberAccessMoves ==
  ASSUME Built, ParseMemberAccess
  PROVE  Moves /\ WordsMove
  <1> DEFINE name == advance(stream)
  <1>1. /\ tasks # << >> /\ top.do = "operators" /\ ret # Null
        /\ cur(stream) \in Members
    BY DEF ParseMemberAccess, Doing
  <1>2. ~Outside(top)
    BY <1>1 DEF Outside, Inner, ExprTasks
  <1>3. /\ Hand = {ret} /\ ~Outermost(top) /\ stream \in Streams /\ tokens \in Inputs
        /\ ret \in 0..Len(nodes) /\ Len(nodes) \in Nat /\ top \in Tasks /\ TaskOK(top)
        /\ top.kids = << >>
    BY <1>1, <1>2, InnerTop
  <1>4. name \in Streams /\ Quiet(stream, name) /\ name.pos \in 1..Len(tokens)
    <2>1. ~Word(stream.pos)
      BY <1>1, Precedences DEF Word, cur
    <2>2. name \in Streams /\ Quiet(stream, name)
      BY <1>3, <2>1, Advances
    <2> HIDE DEF name
    <2> QED BY <2>2 DEF Streams, Positions
  <1>5. CASE cur(name) # "id"
    <2>1. Return(ret) /\ stream' = error(name)
      BY <1>5 DEF ParseMemberAccess
    <2> HIDE DEF name
    <2>2. Quiet(stream, stream')
      BY <1>3, <1>4, <2>1, Errors, QuietTwice
    <2>3. ret \in 0..Len(nodes) /\ Hand = {ret} \ {Null}
      BY <1>1, <1>3
    <2>4. Moves
      BY <1>1, <1>3, <2>1, <2>2, <2>3, InnerReturn
    <2> QED BY <1>1, <2>2, <2>4, QuietMoves
  <1>6. CASE cur(name) = "id"
    <2> DEFINE kids == <<ret>>
               node == Node("member", name.pos, 0, 0, kids)
    <2>1. /\ nodes' = Append(nodes, node) /\ ret' = Len(nodes) + 1
          /\ tokens' = tokens /\ tasks' = <<top>> \o Tail(tasks) /\ stream' = advance(name)
      BY <1>6 DEF ParseMemberAccess, New, Made, Continue
    <2>2. kids \in Seq(Nat) /\ ToSet(kids) = Hand
      BY <1>3, OneElement
    <2> HIDE DEF kids, name
    <2>3. node \in NodeSet /\ node.kids = kids /\ node.at = name.pos
      BY <1>4, <2>2 DEF Node, NodeSet, NodeKinds
    <2> HIDE DEF node
    <2>4. /\ stream' \in Streams /\ stream'.errors = name.errors /\ stream'.pos = name.pos + 1
      <3>1. cur(name) # "eof"
        BY <1>6
      <3> QED BY <1>3, <1>4, <2>1, <3>1, Advances
    <2>5. Fit(top, Len(nodes) + 1) /\ Holds(top) = {} /\ top.do \in Readers
      BY <1>1, <1>3, NoElements DEF Fit, Holds, Readers
    <2>6. Quiet(stream, name) /\ stream.errors \subseteq stream'.errors
      BY <1>4, <2>4 DEF Quiet
    <2>7. Adds(node, top)
      BY <1>1, <1>3, <2>1, <2>2, <2>3, <2>4, <2>5, <2>6 DEF Adds, Steps
    <2>8. Moves
      BY <2>7 DEF Moves
    <2>9. \A q : ~InTask(top, q)
      BY <1>1 DEF InTask
    <2>10. Found(name.pos)
      BY <2>1, <2>3, FoundInNew
    <2>11. ASSUME stream'.errors = {}, NEW q \in stream.pos..(stream'.pos - 1), Word(q)
           PROVE  Found(q)
      <3>1. stream.pos \in Int /\ name.pos \in Int /\ q \in Int
        BY <1>3, <1>4 DEF Streams, Positions
      <3>2. q < name.pos \/ q = name.pos
        BY <2>4, <2>11, <3>1
      <3>3. CASE q < name.pos
        <4>1. q \in stream.pos..(name.pos - 1) /\ name.errors = {}
          BY <2>4, <2>11, <3>1, <3>3
        <4> QED BY <1>4, <2>11, <4>1 DEF Quiet
      <3> QED BY <2>10, <3>2, <3>3
    <2> QED BY <2>8, <2>9, <2>11 DEF WordsMove
  <1> QED BY <1>5, <1>6

-----------------------------------------------------------------------------
(* Every step keeps what was built, and loses no word.                     *)
LEMMA AsideMoves == Aside => Moves
  BY DEF Aside, Moves

LEMMA MovesKeeps ==
  ASSUME Built, Moves
  PROVE  Built'
  <1>1. ASSUME NEW call, NEW rest, Calls(call, rest) PROVE Built'
    BY <1>1, CallsKeeps
  <1>2. ASSUME NEW rest, GoesOn(rest) PROVE Built'
    BY <1>2, GoesOnKeeps
  <1>3. ASSUME NEW r, Returns(r) PROVE Built'
    BY <1>3, ReturnsKeeps
  <1>4. ASSUME NEW node, ReturnsNew(node) PROVE Built'
    BY <1>4, ReturnsNewKeeps
  <1>5. ASSUME NEW node, NEW rest, Adds(node, rest) PROVE Built'
    BY <1>5, AddsKeeps
  <1> QED BY <1>1, <1>2, <1>3, <1>4, <1>5 DEF Moves

LEMMA OthersStay ==
  ASSUME Built, Moves, NEW i \in 2..Len(tasks)
  PROVE  \E j \in DOMAIN tasks' : tasks'[j] = tasks[i]
  <1>1. Typed
    BY DEF Built
  <1>2. Len(tasks) \in Nat
    BY <1>1, Shapes
  <1>3. ASSUME NEW call, NEW rest, Calls(call, rest)
        PROVE  \E j \in DOMAIN tasks' : tasks'[j] = tasks[i]
    <2>1. /\ tasks # << >> /\ tasks' = <<call, rest>> \o Tail(tasks)
          /\ call \in Tasks /\ rest \in Tasks
      BY <1>3 DEF Calls, Steps, Fit
    <2>2. /\ DOMAIN tasks' = 1..Len(tasks') /\ Len(tasks') = Len(tasks) + 1
          /\ tasks'[i + 1] = tasks[i]
      BY <1>1, <2>1, OnPush
    <2> QED BY <1>2, <2>2
  <1>4. ASSUME NEW rest, rest \in Tasks, tasks # << >>, tasks' = <<rest>> \o Tail(tasks)
        PROVE  \E j \in DOMAIN tasks' : tasks'[j] = tasks[i]
    <2>1. /\ DOMAIN tasks' = 1..Len(tasks') /\ Len(tasks') = Len(tasks)
          /\ tasks'[i] = tasks[i]
      BY <1>1, <1>4, OnSwap
    <2> QED BY <1>2, <2>1
  <1>5. ASSUME tasks # << >>, tasks' = << >> \o Tail(tasks)
        PROVE  \E j \in DOMAIN tasks' : tasks'[j] = tasks[i]
    <2>1. DOMAIN tasks' = 1..Len(tasks') /\ i - 1 \in 1..Len(tasks') /\ tasks'[i - 1] = tasks[i]
      BY <1>1, <1>5, OnPop
    <2> QED BY <2>1
  <1>6. \/ \E call, rest : Calls(call, rest)
        \/ \E rest : rest \in Tasks /\ tasks # << >> /\ tasks' = <<rest>> \o Tail(tasks)
        \/ tasks # << >> /\ tasks' = << >> \o Tail(tasks)
    BY DEF Moves, GoesOn, Returns, ReturnsNew, Adds, Steps, Fit
  <1> QED BY <1>3, <1>4, <1>5, <1>6

LEMMA NodesStay ==
  ASSUME Built, Moves
  PROVE  /\ tasks # << >> /\ tokens' = tokens /\ stream' \in Streams
         /\ stream.errors \subseteq stream'.errors
         /\ \A n \in DOMAIN nodes : n \in DOMAIN nodes' /\ nodes'[n] = nodes[n]
  <1>1. Steps /\ (nodes' = nodes \/ \E node \in NodeSet : nodes' = Append(nodes, node))
    BY DEF Moves, Calls, GoesOn, Returns, ReturnsNew, Adds
  <1>2. \A n \in DOMAIN nodes : n \in DOMAIN nodes' /\ nodes'[n] = nodes[n]
    <2>1. CASE nodes' = nodes
      BY <2>1
    <2>2. ASSUME NEW node \in NodeSet, nodes' = Append(nodes, node)
          PROVE  \A n \in DOMAIN nodes : n \in DOMAIN nodes' /\ nodes'[n] = nodes[n]
      BY <2>2, OnAppend DEF Built
    <2> QED BY <1>1, <2>1, <2>2
  <1> QED BY <1>1, <1>2 DEF Steps

LEMMA WordsKept ==
  ASSUME Built, Words, Moves, WordsMove
  PROVE  Words'
  <1>1. /\ tasks # << >> /\ tokens' = tokens /\ stream.errors \subseteq stream'.errors
        /\ \A n \in DOMAIN nodes : n \in DOMAIN nodes' /\ nodes'[n] = nodes[n]
        /\ stream' \in Streams
    BY NodesStay
  <1>2. stream.pos \in 1..Len(tokens) /\ Len(tokens) \in Nat \ {0} /\ stream'.pos \in 1..Len(tokens)
    BY <1>1, TopFacts DEF Streams, Positions
  <1>3. top = tasks[1] /\ DOMAIN tasks = 1..Len(tasks) /\ Len(tasks) \in Nat
    BY <1>1, Shapes DEF Built
  <1>4. ASSUME stream'.errors = {}, NEW q \in 1..(stream'.pos - 1), Word(q)
        PROVE  Found(q)
    <2>1. stream.errors = {}
      BY <1>1, <1>4
    <2>2. CASE q >= stream.pos
      <3>1. q \in stream.pos..(stream'.pos - 1)
        BY <1>2, <2>2
      <3> QED BY <1>4, <3>1 DEF WordsMove
    <2>3. CASE q < stream.pos
      <3>1. q \in 1..(stream.pos - 1) /\ q \in 1..Len(tokens)
        BY <1>2, <2>3
      <3>2. InTree(q) \/ \E i \in DOMAIN tasks : InTask(tasks[i], q)
        BY <1>4, <2>1, <3>1 DEF Words
      <3>3. CASE InTree(q)
        <4>1. PICK n \in DOMAIN nodes :
                 \/ nodes[n].at = q
                 \/ nodes[n].kind = "method" /\ nodes[n].at < q /\ NoClose(nodes[n].at, q)
          BY <3>3 DEF InTree
        <4>2. n \in DOMAIN nodes' /\ nodes'[n] = nodes[n]
          BY <1>1
        <4>3. InTree(q)'
          BY <1>1, <4>1, <4>2 DEF InTree, NoClose
        <4> QED BY <4>3 DEF Found
      <3>4. ASSUME NEW i \in DOMAIN tasks, InTask(tasks[i], q)
            PROVE  Found(q)
        <4>1. CASE i = 1
          BY <1>3, <3>1, <3>4, <4>1 DEF WordsMove
        <4>2. CASE i # 1
          <5>1. i \in 2..Len(tasks)
            BY <1>3, <4>2
          <5>2. PICK j \in DOMAIN tasks' : tasks'[j] = tasks[i]
            BY <5>1, OthersStay
          <5> QED BY <3>4, <5>2 DEF Found
        <4> QED BY <4>1, <4>2
      <3> QED BY <3>2, <3>3, <3>4
    <2> QED BY <1>2, <2>2, <2>3
  <1>5. \A q : (Word(q)' <=> Word(q)) /\ \A t : InTask(t, q) => InTask(t, q)'
    BY <1>1 DEF Word, InTask, NoClose
  <1>6. ASSUME stream'.errors = {}, NEW q \in 1..(stream'.pos - 1), Word(q)'
        PROVE  InTree(q)' \/ \E i \in DOMAIN tasks' : InTask(tasks[i], q)'
    <2>1. Found(q)
      BY <1>4, <1>5, <1>6
    <2>2. CASE InTree(q)'
      BY <2>2
    <2>3. CASE \E i \in DOMAIN tasks' : InTask(tasks'[i], q)
      <3>1. PICK i \in DOMAIN tasks' : InTask(tasks'[i], q)
        BY <2>3
      <3>2. InTask(tasks[i], q)'
        BY <1>1, <3>1 DEF InTask, NoClose
      <3> QED BY <3>2
    <2> QED BY <2>1, <2>2, <2>3 DEF Found
  <1> QED BY <1>6 DEF Words

LEMMA NextMoves ==
  ASSUME Built, Next
  PROVE  Moves /\ WordsMove
  <1>1. ASSUME \/ Parse \/ AddDeclaration \/ ParseDeclaration \/ ParseDeclarator \/ EndVarDecl
               \/ ParseParameter \/ ParseFunctionBody \/ EndFunction \/ ParseRecordDecl
               \/ EndRecordDecl \/ SkipMember \/ ParseMember \/ EndMethod \/ ParseBlock
               \/ ParseStatements \/ AddStatement \/ EndBlock
        PROVE  Aside /\ WordsMove
    BY <1>1, ParseMoves, AddDeclarationMoves, ParseDeclarationMoves, ParseDeclaratorMoves,
       EndVarDeclMoves, ParseParameterMoves, ParseFunctionBodyMoves, EndFunctionMoves,
       ParseRecordDeclMoves, EndRecordDeclMoves, SkipMemberMoves, ParseMemberMoves,
       EndMethodMoves, ParseBlockMoves, ParseStatementsMoves, AddStatementMoves, EndBlockMoves
  <1>2. ASSUME \/ ParseReturn \/ EndReturn \/ ParseBlockStatement \/ ParseConditional
               \/ EndCondition \/ ParseElse \/ EndConditional \/ ParseDeclStatement
               \/ EndDeclStatement \/ ParseExprStatement \/ EndExprStatement
        PROVE  Aside /\ WordsMove
    BY <1>2, ParseReturnMoves, EndReturnMoves, ParseBlockStatementMoves, ParseConditionalMoves,
       EndConditionMoves, ParseElseMoves, EndConditionalMoves, ParseDeclStatementMoves,
       EndDeclStatementMoves, ParseExprStatementMoves, EndExprStatementMoves
  <1>3. ASSUME \/ ParseHelper \/ ParsePrimary \/ EndParenthesis \/ EndOperators
               \/ ParseOperator \/ EndOperand \/ ParseMemberAccess
        PROVE  Moves /\ WordsMove
    BY <1>3, ParseHelperMoves, ParsePrimaryMoves, EndParenthesisMoves, EndOperatorsMoves,
       ParseOperatorMoves, EndOperandMoves, ParseMemberAccessMoves
  <1> QED BY <1>1, <1>2, <1>3, AsideMoves DEF Next

LEMMA InitBuilt ==
  ASSUME Init
  PROVE  Built /\ Words
  <1> DEFINE t == Call("parse")
  <1>1. /\ tokens \in Inputs /\ stream = [pos |-> 1, errors |-> {}] /\ tasks = <<t>>
        /\ nodes = << >> /\ ret = Null
    BY DEF Init
  <1>2. Len(tokens) \in Nat \ {0}
    BY <1>1, TokensShape
  <1>3. stream \in Streams
    BY <1>1, <1>2 DEF Streams, Positions
  <1>4. t \in Tasks /\ t.do = "parse" /\ t.kids = << >>
    BY <1>2, NullFits DEF Call, Task, Tasks, Null, Dos, Keepers
  <1> HIDE DEF t
  <1>5. Holds(t) = {} /\ TaskOK(t)
    BY <1>4, NoElements DEF Holds, TaskOK, Keepers, Conditionals
  <1>6. /\ Len(tasks) = 1 /\ DOMAIN tasks = {1} /\ tasks[1] = t /\ top = t /\ tasks # << >>
        /\ DOMAIN nodes = {} /\ Len(nodes) = 0
    BY <1>1 DEF top
  <1>7. Typed
    <2>1. tasks \in Seq(Tasks) /\ nodes \in Seq(NodeSet)
      <3> HIDE DEF Tasks, NodeSet
      <3> QED BY <1>1, <1>4
    <2> QED BY <1>1, <1>3, <1>5, <1>6, <2>1 DEF Typed, Null
  <1>8. ~Reading /\ Hand = {}
    BY <1>4, <1>5, <1>6 DEF Reading, Hand, Readers, Conditionals
  <1>9. Line
    BY <1>4, <1>6, <1>8 DEF Line
  <1>10. DOMAIN KidsOf = {} /\ DOMAIN Below = {}
    BY <1>6 DEF KidsOf, Below
  <1>11. Owned
    BY <1>6, <1>8, <1>10 DEF Owned, Shares
  <1>12. Words
    BY <1>1 DEF Words
  <1> QED BY <1>7, <1>9, <1>11, <1>12 DEF Built

LEMMA StepKeeps ==
  ASSUME Built, [Next]_parserVars
  PROVE  Built' /\ (Words => Words')
  <1>1. CASE Next
    BY <1>1, NextMoves, MovesKeeps, WordsKept
  <1>2. CASE UNCHANGED parserVars
    <2>1. /\ tokens' = tokens /\ stream' = stream /\ tasks' = tasks
          /\ nodes' = nodes /\ ret' = ret
      BY <1>2 DEF parserVars
    <2>2. Typed' /\ Line'
      BY <2>1 DEF Built, Typed, Line, Streams, Positions, Tasks, NodeSet, TaskOK, Holds,
                  Reading, top, cur
    <2>3. Owned'
      <3>1. /\ KidsOf' = KidsOf /\ Below' = Below /\ Hand' = Hand /\ (Reading' <=> Reading)
            /\ Holds(top)' = Holds(top)
        BY <2>1 DEF KidsOf, Below, Hand, Reading, Holds, top
      <3> QED BY <2>1, <3>1 DEF Built, Owned, Shares
    <2>4. Words => Words'
      BY <2>1 DEF Words, Word, InTree, InTask, NoClose
    <2> QED BY <2>2, <2>3, <2>4 DEF Built
  <1> QED BY <1>1, <1>2

LEMMA BuiltTypes ==
  ASSUME Built
  PROVE  TypeOK
  <1>1. Typed /\ tokens \in Inputs /\ Len(nodes) \in Nat
    BY Shapes DEF Built, Typed
  <1>2. stream.pos \in DOMAIN tokens /\ stream.errors \subseteq DOMAIN tokens
    BY <1>1, TokensShape DEF Typed, Streams, Positions
  <1>3. ASSUME NEW t \in ToSet(tasks)
        PROVE  /\ t.prec \in 0..121 /\ t.at \in 0..Len(tokens)
               /\ t.left \in Nat /\ t.kids \in Seq(Nat)
               /\ t.do \notin {"operand", "endMethod"} => ToSet(t.kids) \subseteq Made_
    <2>1. PICK i \in DOMAIN tasks : t = tasks[i]
      BY DEF ToSet
    <2>2. t \in Tasks
      BY <1>1, <2>1, Shapes
    <2>3. Holds(t) \subseteq 1..Len(nodes)
      BY <1>1, <2>1 DEF Typed
    <2>4. 1..Len(nodes) \subseteq 0..Len(nodes)
      BY <1>1
    <2>5. t.do \notin {"operand", "endMethod"} => ToSet(t.kids) \subseteq Made_
      BY <2>3, <2>4 DEF Holds, Made_
    <2> QED BY <2>2, <2>5 DEF Tasks
  <1>4. ASSUME NEW n \in DOMAIN nodes
        PROVE  nodes[n].at \in 0..Len(tokens) /\ ToSet(nodes[n].kids) \subseteq 1..(n - 1)
    <2>1. nodes[n] \in NodeSet
      BY <1>1, Shapes
    <2> QED BY <1>1, <2>1 DEF NodeSet, Typed
  <1> QED BY <1>1, <1>2, <1>3, <1>4 DEF TypeOK, Typed, Made_

LEMMA BuiltLosesNothing ==
  ASSUME Built, Words, Accepted
  PROVE  /\ \A n \in 1..(Len(nodes) - 1) : Cardinality(ParentsOf(n)) = 1
         /\ \A q \in DOMAIN tokens :
              tokens[q] \in Literals \cup {"id"}
                /\ ~SkippedWithMethod(q)
              => \E n \in ToSet(nodes) : n.at = q
  <1>1. tasks = << >> /\ stream.errors = {}
    BY DEF Accepted, Parsed
  <1>2. /\ Len(nodes) \in Nat /\ DOMAIN nodes = 1..Len(nodes) /\ tokens \in Inputs
        /\ stream.pos = Len(tokens) /\ ret = Len(nodes)
    BY <1>1, Shapes DEF Built, Line, Typed
  <1>3. Hand = {Len(nodes)} \ {Null} /\ DOMAIN Below = {} /\ DOMAIN KidsOf = DOMAIN nodes
    BY <1>1, <1>2 DEF Hand, Reading, Below, KidsOf
  <1>4. Shares(KidsOf, Hand, Below)
    BY DEF Built, Owned
  <1>5. ASSUME NEW n \in 1..(Len(nodes) - 1)
        PROVE  Cardinality(ParentsOf(n)) = 1
    <2>1. n \in DOMAIN KidsOf /\ n \notin Hand
      <3>1. \A N \in Nat : \A k \in 1..(N - 1) : k \in 1..N /\ k # N
        OBVIOUS
      <3>2. n \in 1..Len(nodes) /\ n # Len(nodes)
        <4>1. Len(nodes) \in Nat
          BY <1>2
        <4> QED BY <3>1, <4>1
      <3> QED BY <1>2, <1>3, <3>2
    <2>2. PICK p \in DOMAIN KidsOf : n \in KidsOf[p]
      BY <1>3, <1>4, <2>1 DEF Shares
    <2>3. \A r \in DOMAIN KidsOf : n \in KidsOf[r] => r = p
      BY <1>4, <2>2 DEF Shares
    <2>4. \A r \in DOMAIN nodes : KidsOf[r] = ToSet(nodes[r].kids)
      BY DEF KidsOf
    <2>5. ParentsOf(n) = {p}
      BY <1>3, <2>2, <2>3, <2>4 DEF ParentsOf
    <2> QED BY <2>5, FS_Singleton
  <1>6. ASSUME NEW q \in DOMAIN tokens, tokens[q] \in Literals \cup {"id"},
               ~SkippedWithMethod(q)
        PROVE  \E n \in ToSet(nodes) : n.at = q
    <2>1. q \in 1..(Len(tokens) - 1)
      <3>1. tokens[q] # "eof"
        BY <1>6 DEF Literals
      <3>2. q \in 1..Len(tokens) /\ q # Len(tokens) /\ Len(tokens) \in Nat
        BY <1>2, <3>1, TokensShape
      <3> QED BY <3>2
    <2>2. InTree(q)
      <3>1. Word(q)
        BY <1>6 DEF Word
      <3>2. DOMAIN tasks = {}
        BY <1>1
      <3> QED BY <1>1, <1>2, <2>1, <3>1, <3>2 DEF Words
    <2>3. PICK n \in DOMAIN nodes :
             \/ nodes[n].at = q
             \/ nodes[n].kind = "method" /\ nodes[n].at < q /\ NoClose(nodes[n].at, q)
      BY <2>2 DEF InTree
    <2>4. nodes[n] \in ToSet(nodes)
      BY DEF ToSet
    <2>5. nodes[n].at = q
      BY <1>6, <2>3, <2>4 DEF SkippedWithMethod, NoClose
    <2> QED BY <2>4, <2>5
  <1> QED BY <1>5, <1>6

-----------------------------------------------------------------------------
(* Whatever the tokens, what the parser makes are trees: the children of a *)
(* node were made before it, and what a function on the stack holds or has *)
(* returned is a node or null.                                             *)
THEOREM TreesAreBuilt == Spec => []TypeOK
  <1>1. Init => Built
    BY InitBuilt
  <1>2. Built /\ [Next]_parserVars => Built'
    BY StepKeeps
  <1>3. Built => TypeOK
    BY BuiltTypes
  <1> QED BY <1>1, <1>2, <1>3, PTL DEF Spec

(* Of a program that is read without an error nothing is lost: every node  *)
(* but the root is the child of exactly one other, and every name and      *)
(* literal has a node, whichever way through the functions it was read.    *)
THEOREM NothingIsLost == Spec => []NothingLost
  <1>1. Init => Built /\ Words
    BY InitBuilt
  <1>2. (Built /\ Words) /\ [Next]_parserVars => (Built /\ Words)'
    BY StepKeeps
  <1>3. Built /\ Words => NothingLost
    BY BuiltLosesNothing DEF NothingLost
  <1> QED BY <1>1, <1>2, <1>3, PTL DEF Spec

-----------------------------------------------------------------------------
(* Nesting in parentheses: the depth of what is read in two parts is the   *)
(* sum of theirs.                                                          *)
Opens(from, to) == {k \in from..to : tokens[k] = "("}
Shuts(from, to) == {k \in from..to : tokens[k] = ")"}

LEMMA DepthOf ==
  ASSUME NEW a \in Int, NEW q \in Int
  PROVE  /\ Depth(a, q) = Cardinality(Opens(a, q)) - Cardinality(Shuts(a, q))
         /\ IsFiniteSet(Opens(a, q)) /\ IsFiniteSet(Shuts(a, q))
         /\ Cardinality(Opens(a, q)) \in Nat /\ Cardinality(Shuts(a, q)) \in Nat
         /\ Depth(a, q) \in Int
  <1>1. Depth(a, q) = Cardinality(Opens(a, q)) - Cardinality(Shuts(a, q))
    BY DEF Depth, Opens, Shuts
  <1>2. IsFiniteSet(a..q) /\ Opens(a, q) \in SUBSET (a..q) /\ Shuts(a, q) \in SUBSET (a..q)
    BY FS_Interval DEF Opens, Shuts
  <1>3. IsFiniteSet(Opens(a, q)) /\ IsFiniteSet(Shuts(a, q))
    BY ONLY <1>2, FS_Subset
  <1>4. Cardinality(Opens(a, q)) \in Nat /\ Cardinality(Shuts(a, q)) \in Nat
    BY <1>3, FS_CardinalityType
  <1> QED BY <1>1, <1>3, <1>4

LEMMA TwoParts ==
  ASSUME NEW S, IsFiniteSet(S), NEW T, IsFiniteSet(T), S \cap T = {}
  PROVE  Cardinality(S \cup T) = Cardinality(S) + Cardinality(T)
  <1>1. Cardinality(S \cup T) = Cardinality(S) + Cardinality(T) - Cardinality({})
    BY FS_Union
  <1>2. Cardinality(S) \in Nat /\ Cardinality(T) \in Nat /\ Cardinality({}) = 0
    BY FS_CardinalityType, FS_EmptySet
  <1> QED BY <1>1, <1>2

LEMMA DepthSplit ==
  ASSUME NEW a \in Int, NEW m \in Int, NEW q \in Int, a <= m + 1, m <= q
  PROVE  Depth(a, q) = Depth(a, m) + Depth(m + 1, q)
  <1>1. m + 1 \in Int
    OBVIOUS
  <1>2. a..q = (a..m) \cup ((m + 1)..q) /\ (a..m) \cap ((m + 1)..q) = {}
    OBVIOUS
  <1>3. /\ Opens(a, q) = Opens(a, m) \cup Opens(m + 1, q) /\ Opens(a, m) \cap Opens(m + 1, q) = {}
        /\ Shuts(a, q) = Shuts(a, m) \cup Shuts(m + 1, q) /\ Shuts(a, m) \cap Shuts(m + 1, q) = {}
    BY <1>2 DEF Opens, Shuts
  <1>4. Cardinality(Opens(a, q)) = Cardinality(Opens(a, m)) + Cardinality(Opens(m + 1, q))
    BY <1>1, <1>3, DepthOf, TwoParts
  <1>5. Cardinality(Shuts(a, q)) = Cardinality(Shuts(a, m)) + Cardinality(Shuts(m + 1, q))
    BY <1>1, <1>3, DepthOf, TwoParts
  <1> DEFINE o1 == Cardinality(Opens(a, m))      s1 == Cardinality(Shuts(a, m))
             o2 == Cardinality(Opens(m + 1, q))  s2 == Cardinality(Shuts(m + 1, q))
  <1>6. o1 \in Nat /\ s1 \in Nat /\ o2 \in Nat /\ s2 \in Nat
    BY <1>1, DepthOf
  <1>7. /\ Depth(a, q) = (o1 + o2) - (s1 + s2)
        /\ Depth(a, m) = o1 - s1 /\ Depth(m + 1, q) = o2 - s2
    BY <1>1, <1>4, <1>5, DepthOf
  <1> HIDE DEF o1, o2, s1, s2
  <1> QED BY <1>6, <1>7

LEMMA DepthOne ==
  ASSUME NEW q \in Int
  PROVE  /\ tokens[q] = "(" => Depth(q, q) = 1
         /\ tokens[q] = ")" => Depth(q, q) = -1
         /\ tokens[q] \notin {"(", ")"} => Depth(q, q) = 0
  <1>1. q..q = {q}
    OBVIOUS
  <1>2. /\ tokens[q] = "(" => Opens(q, q) = {q} /\ Shuts(q, q) = {}
        /\ tokens[q] = ")" => Opens(q, q) = {} /\ Shuts(q, q) = {q}
        /\ tokens[q] \notin {"(", ")"} => Opens(q, q) = {} /\ Shuts(q, q) = {}
    BY <1>1 DEF Opens, Shuts
  <1>3. Cardinality({q}) = 1 /\ Cardinality({}) = 0
    BY FS_Singleton, FS_EmptySet
  <1>4. Depth(q, q) = Cardinality(Opens(q, q)) - Cardinality(Shuts(q, q))
    BY DepthOf
  <1>5. ASSUME tokens[q] = "(" PROVE Depth(q, q) = 1
    BY <1>2, <1>3, <1>4, <1>5
  <1>6. ASSUME tokens[q] = ")" PROVE Depth(q, q) = -1
    BY <1>2, <1>3, <1>4, <1>6
  <1>7. ASSUME tokens[q] \notin {"(", ")"} PROVE Depth(q, q) = 0
    <2>1. Opens(q, q) = {} /\ Shuts(q, q) = {}
      BY <1>2, <1>7
    <2> QED BY <1>3, <1>4, <2>1
  <1> QED BY <1>5, <1>6, <1>7

(* One token more.                                                         *)
LEMMA DepthNext ==
  ASSUME NEW a \in Int, NEW q \in Int, a <= q
  PROVE  Depth(a, q) = Depth(a, q - 1) + Depth(q, q)
  <1> DEFINE m == q - 1
  <1>1. m \in Int /\ a <= m + 1 /\ m <= q /\ m + 1 = q
    OBVIOUS
  <1> HIDE DEF m
  <1>2. Depth(a, q) = Depth(a, m) + Depth(m + 1, q)
    BY <1>1, DepthSplit
  <1> QED BY <1>1, <1>2 DEF m

LEMMA OneToken ==
  ASSUME NEW a \in Int, tokens[a] \notin Operators \cup {"(", ")"}
  PROVE  Closed(a, a) /\ Outer(a, a) = {}
  <1>1. Depth(a, a) = 0 /\ \A q \in a..a : q = a
    BY DepthOne
  <1>2. Closed(a, a)
    BY <1>1 DEF Closed
  <1>3. Outer(a, a) = {}
    BY <1>1 DEF Outer
  <1> QED BY <1>2, <1>3

LEMMA TokenMore ==
  ASSUME NEW a \in Int, NEW e \in Int, Closed(a, e), tokens[e + 1] \notin Operators \cup {"(", ")"}
  PROVE  Closed(a, e + 1) /\ Outer(a, e + 1) = Outer(a, e)
  <1> DEFINE f == e + 1
  <1>1. f \in Int /\ a <= e /\ e <= f /\ a <= e + 1 /\ e + 1 = f
    BY DEF Closed
  <1>2. a..f = (a..e) \cup {f} /\ f \notin a..e
    BY <1>1
  <1> HIDE DEF f
  <1>3. Depth(a, f) = 0
    <2>1. Depth(a, f) = Depth(a, e) + Depth(f, f)
      BY <1>1, DepthSplit
    <2>2. tokens[f] \notin {"(", ")"}
      BY <1>1
    <2>3. Depth(f, f) = 0 /\ Depth(a, e) = 0
      BY <1>1, <2>2, DepthOne DEF Closed
    <2> QED BY <2>1, <2>3
  <1>4. Closed(a, f)
    BY <1>1, <1>2, <1>3 DEF Closed
  <1>5. Outer(a, f) = Outer(a, e)
    BY <1>1, <1>2 DEF Outer
  <1> QED BY <1>1, <1>4, <1>5

(* An operator between two operands.                                       *)
LEMMA Joined ==
  ASSUME NEW a \in Int, NEW k \in Int, NEW e \in Int,
         Closed(a, k - 1), tokens[k] \in Operators, Closed(k + 1, e)
  PROVE  Closed(a, e) /\ Outer(a, e) = Outer(a, k - 1) \cup {k} \cup Outer(k + 1, e)
  <1>1. a <= k - 1 /\ k + 1 <= e /\ a <= k /\ k <= e /\ k - 1 \in Int /\ k + 1 \in Int /\ a <= e
    BY DEF Closed
  <1>2. a..e = (a..(k - 1)) \cup {k} \cup ((k + 1)..e)
    BY <1>1
  <1>3. Depth(a, k) = 0
    <2>1. Depth(a, k) = Depth(a, k - 1) + Depth(k, k)
      BY <1>1, DepthNext
    <2>2. tokens[k] \notin {"(", ")"}
      BY DEF Operators
    <2> QED BY <2>1, <2>2, DepthOne DEF Closed
  <1>4. ASSUME NEW q \in (k + 1)..e
        PROVE  Depth(a, q) = Depth(k + 1, q)
    <2>1. q \in Int /\ a <= k + 1 /\ k <= q
      BY <1>1
    <2>2. Depth(a, q) = Depth(a, k) + Depth(k + 1, q)
      BY <2>1, DepthSplit
    <2>3. Depth(k + 1, q) \in Int
      BY <1>1, <2>1, DepthOf
    <2> QED BY <1>3, <2>2, <2>3
  <1>5. Closed(a, e)
    <2>1. e \in (k + 1)..e
      BY <1>1
    <2>2. Depth(a, e) = 0
      BY <1>4, <2>1 DEF Closed
    <2>3. ASSUME NEW q \in a..e PROVE Depth(a, q) >= 0
      <3>1. q \in a..(k - 1) \/ q = k \/ q \in (k + 1)..e
        BY <1>2
      <3>2. CASE q \in a..(k - 1)
        BY <3>2 DEF Closed
      <3>3. CASE q = k
        BY <1>3, <3>3
      <3>4. CASE q \in (k + 1)..e
        BY <1>4, <3>4 DEF Closed
      <3> QED BY <3>1, <3>2, <3>3, <3>4
    <2> QED BY <1>1, <2>2, <2>3 DEF Closed
  <1>6. Outer(a, e) = Outer(a, k - 1) \cup {k} \cup Outer(k + 1, e)
    BY <1>2, <1>3, <1>4 DEF Outer
  <1> QED BY <1>5, <1>6

(* Parentheses around an expression.                                       *)
LEMMA InParentheses ==
  ASSUME NEW a \in Int, NEW e \in Int, tokens[a] = "(", Closed(a + 1, e), tokens[e + 1] = ")"
  PROVE  Closed(a, e + 1) /\ Outer(a, e + 1) = {}
  <1> DEFINE b == a + 1
             f == e + 1
  <1>1. /\ b \in Int /\ f \in Int /\ a < b /\ b <= e /\ e < f /\ a <= f /\ a <= e /\ a + 1 = b /\ e + 1 = f
    BY DEF Closed
  <1>2. a..f = {a} \cup (b..e) \cup {f}
    BY <1>1
  <1> HIDE DEF b, f
  <1>3. Depth(a, a) = 1
    BY DepthOne
  <1>4. ASSUME NEW q \in b..e
        PROVE  Depth(a, q) >= 1 /\ (q = e => Depth(a, q) = 1)
    <2>1. q \in Int /\ a <= a + 1 /\ a <= q
      BY <1>1
    <2>2. Depth(a, q) = Depth(a, a) + Depth(b, q)
      BY <1>1, <2>1, DepthSplit
    <2>3. Depth(b, q) \in Int /\ Depth(b, q) >= 0 /\ (q = e => Depth(b, q) = 0)
      BY <1>1, <2>1, DepthOf DEF Closed
    <2> QED BY <1>3, <2>2, <2>3
  <1>5. Depth(a, f) = 0
    <2>1. Depth(a, f) = Depth(a, e) + Depth(f, f)
      BY <1>1, DepthSplit
    <2>2. Depth(f, f) = -1
      BY <1>1, DepthOne
    <2>3. e \in b..e
      BY <1>1
    <2>4. Depth(a, e) = 1
      BY <1>4, <2>3
    <2> QED BY <2>1, <2>2, <2>4
  <1>6. tokens[a] \notin Operators /\ tokens[f] \notin Operators
    BY <1>1 DEF Operators
  <1>7. Closed(a, f)
    <2>1. ASSUME NEW q \in a..f PROVE Depth(a, q) >= 0
      <3>1. q = a \/ q \in b..e \/ q = f
        BY <1>2
      <3>2. CASE q = a
        BY <1>3, <3>2
      <3>3. CASE q \in b..e
        <4>1. Depth(a, q) \in Int
          BY <1>1, <3>3, DepthOf
        <4> QED BY <1>4, <3>3, <4>1
      <3>4. CASE q = f
        BY <1>5, <3>4
      <3> QED BY <3>1, <3>2, <3>3, <3>4
    <2> QED BY <1>1, <1>5, <2>1 DEF Closed
  <1>8. Outer(a, f) = {}
    <2>1. ASSUME NEW q \in a..f, tokens[q] \in Operators, Depth(a, q) = 0 PROVE FALSE
      <3>1. q \in b..e
        BY <1>2, <1>6, <2>1
      <3>2. Depth(a, q) >= 1
        BY <1>4, <3>1
      <3> QED BY <2>1, <3>2
    <2> QED BY <2>1 DEF Outer
  <1> QED BY <1>1, <1>7, <1>8

-----------------------------------------------------------------------------
(* What a step does to the order of the tasks.                             *)
LEMMA SameTokens ==
  ASSUME tokens' = tokens
  PROVE  /\ \A a, b : Closed(a, b)' <=> Closed(a, b)
         /\ \A a, b, p : Phrase(a, b, p)' <=> Phrase(a, b, p)
         /\ \A a, b, p : Above(a, b, p)' <=> Above(a, b, p)
         /\ \A a, b, c, p : Behind(a, b, c, p)' <=> Behind(a, b, c, p)
         /\ \A t : Waits(t)' <=> Waits(t)
         /\ \A t, u, p : Back(t, u, p)' <=> Back(t, u, p)
         /\ \A n : RootOf(n)' <=> RootOf(n)
  <1>1. \A a, b, p : /\ Closed(a, b)' <=> Closed(a, b)
                     /\ Outer(a, b)' = Outer(a, b)
    BY DEF Closed, Outer, Depth
  <1>2. \A a, b, p : Phrase(a, b, p)' <=> Phrase(a, b, p)
    BY <1>1 DEF Phrase, Prec
  <1>3. \A a, b, p : Above(a, b, p)' <=> Above(a, b, p)
    BY DEF Above, Prec, Begin
  <1>4. \A a, b, c, p : Behind(a, b, c, p)' <=> Behind(a, b, c, p)
    BY DEF Behind, Begin
  <1>5. \A t : Waits(t)' <=> Waits(t)
    BY <1>2 DEF Waits, Prec
  <1>6. \A t, u, p : Back(t, u, p)' <=> Back(t, u, p)
    BY <1>1, <1>2 DEF Back, Prec
  <1>7. \A n : RootOf(n)' <=> RootOf(n)
    BY DEF RootOf, OuterOperators, Depth
  <1> QED BY <1>1, <1>2, <1>3, <1>4, <1>5, <1>6, <1>7

(* Only the task on top depends on how far the stream was read.            *)
LEMMA DeepTasks ==
  ASSUME Built, NEW i \in 2..Len(tasks), NEW b, NEW c, NEW p, NEW q
  PROVE  /\ Above(tasks[i], b, p) => Above(tasks[i], b, q)
         /\ Behind(tasks[i], b, c, p) => Behind(tasks[i], b, c, q)
  <1>1. i \in DOMAIN tasks /\ i # 1
    BY Shapes DEF Built
  <1>2. tasks[i].do \in Readers
    BY <1>1 DEF Built, Line
  <1>3. tasks[i].do \notin {"helper", "primary"}
    BY <1>2 DEF Readers, Conditionals
  <1> QED BY <1>3 DEF Above, Behind, Begin

LEMMA StackedAgain ==
  ASSUME tokens' = tokens, Len(tasks') \in Nat, NEW pos, pos = stream'.pos,
         \A i \in 1..(Len(tasks') - 1) : Above(tasks'[i], tasks'[i + 1], pos),
         \A i \in 1..(Len(tasks') - 2) : Behind(tasks'[i], tasks'[i + 1], tasks'[i + 2], pos)
  PROVE  Stacked'
  BY DEF Stacked, Above, Behind, Begin, Prec

LEMMA StackPop ==
  ASSUME Built, Stacked, tasks # << >>, tokens' = tokens, tasks' = << >> \o Tail(tasks)
  PROVE  Stacked'
  <1>1. /\ Len(tasks') = Len(tasks) - 1 /\ Len(tasks) \in Nat \ {0}
        /\ \A i \in 1..Len(tasks') : i + 1 \in 2..Len(tasks) /\ tasks'[i] = tasks[i + 1]
    BY OnPop, Shapes DEF Built
  <1> DEFINE pos == stream'.pos
  <1> HIDE DEF pos
  <1>2. ASSUME NEW i \in 1..(Len(tasks') - 1)
        PROVE  Above(tasks'[i], tasks'[i + 1], pos)
    <2>1. PICK j \in 2..Len(tasks) : /\ j = i + 1 /\ tasks'[i] = tasks[j] /\ tasks'[i + 1] = tasks[j + 1]
                                     /\ j \in 1..(Len(tasks) - 1)
      BY <1>1
    <2>2. Above(tasks[j], tasks[j + 1], stream.pos)
      BY <2>1 DEF Stacked
    <2> QED BY <2>1, <2>2, DeepTasks
  <1>3. ASSUME NEW i \in 1..(Len(tasks') - 2)
        PROVE  Behind(tasks'[i], tasks'[i + 1], tasks'[i + 2], pos)
    <2>1. PICK j \in 2..Len(tasks) : /\ j = i + 1 /\ tasks'[i] = tasks[j] /\ tasks'[i + 1] = tasks[j + 1]
                                     /\ tasks'[i + 2] = tasks[j + 2] /\ j \in 1..(Len(tasks) - 2)
      BY <1>1
    <2>2. Behind(tasks[j], tasks[j + 1], tasks[j + 2], stream.pos)
      BY <2>1 DEF Stacked
    <2> QED BY <2>1, <2>2, DeepTasks
  <1>4. Len(tasks') \in Nat /\ pos = stream'.pos
    BY <1>1 DEF pos
  <1> QED BY <1>2, <1>3, <1>4, StackedAgain

LEMMA StackSwap ==
  ASSUME Built, Stacked, tasks # << >>, tokens' = tokens, NEW pos, pos = stream'.pos,
         NEW rest \in Tasks, tasks' = <<rest>> \o Tail(tasks),
         Len(tasks) >= 2 => Above(rest, tasks[2], pos),
         Len(tasks) >= 3 => Behind(rest, tasks[2], tasks[3], pos)
  PROVE  Stacked'
  <1>1. /\ Len(tasks') = Len(tasks) /\ Len(tasks) \in Nat \ {0} /\ tasks'[1] = rest
        /\ \A i \in 2..Len(tasks) : tasks'[i] = tasks[i]
    BY OnSwap, Shapes DEF Built
  <1>2. ASSUME NEW i \in 1..(Len(tasks') - 1)
        PROVE  Above(tasks'[i], tasks'[i + 1], pos)
    <2>1. CASE i = 1
      <3>1. Len(tasks) >= 2 /\ tasks'[1 + 1] = tasks[2]
        BY <1>1, <2>1
      <3> QED BY <1>1, <2>1, <3>1
    <2>2. CASE i # 1
      <3>1. /\ i \in 2..Len(tasks) /\ tasks'[i] = tasks[i] /\ tasks'[i + 1] = tasks[i + 1]
            /\ i \in 1..(Len(tasks) - 1)
        BY <1>1, <2>2
      <3>2. Above(tasks[i], tasks[i + 1], stream.pos)
        BY <3>1 DEF Stacked
      <3> QED BY <3>1, <3>2, DeepTasks
    <2> QED BY <2>1, <2>2
  <1>3. ASSUME NEW i \in 1..(Len(tasks') - 2)
        PROVE  Behind(tasks'[i], tasks'[i + 1], tasks'[i + 2], pos)
    <2>1. CASE i = 1
      <3>1. Len(tasks) >= 3 /\ tasks'[1 + 1] = tasks[2] /\ tasks'[1 + 2] = tasks[3]
        BY <1>1, <2>1
      <3> QED BY <1>1, <2>1, <3>1
    <2>2. CASE i # 1
      <3>1. /\ i \in 2..Len(tasks) /\ tasks'[i] = tasks[i] /\ tasks'[i + 1] = tasks[i + 1]
            /\ tasks'[i + 2] = tasks[i + 2] /\ i \in 1..(Len(tasks) - 2)
        BY <1>1, <2>2
      <3>2. Behind(tasks[i], tasks[i + 1], tasks[i + 2], stream.pos)
        BY <3>1 DEF Stacked
      <3> QED BY <3>1, <3>2, DeepTasks
    <2> QED BY <2>1, <2>2
  <1> QED BY <1>1, <1>2, <1>3, StackedAgain

LEMMA StackPush ==
  ASSUME Built, Stacked, tasks # << >>, tokens' = tokens, NEW pos, pos = stream'.pos,
         NEW call \in Tasks, NEW rest \in Tasks, tasks' = <<call, rest>> \o Tail(tasks),
         Above(call, rest, pos),
         Len(tasks) >= 2 => Above(rest, tasks[2], pos) /\ Behind(call, rest, tasks[2], pos),
         Len(tasks) >= 3 => Behind(rest, tasks[2], tasks[3], pos)
  PROVE  Stacked'
  <1>1. /\ Len(tasks') = Len(tasks) + 1 /\ Len(tasks) \in Nat \ {0}
        /\ tasks'[1] = call /\ tasks'[2] = rest
        /\ \A i \in 2..Len(tasks) : i + 1 \in 3..Len(tasks') /\ tasks'[i + 1] = tasks[i]
    BY OnPush, Shapes DEF Built
  <1>2. ASSUME NEW i \in 1..(Len(tasks') - 1)
        PROVE  Above(tasks'[i], tasks'[i + 1], pos)
    <2>1. CASE i = 1
      BY <1>1, <2>1
    <2>2. CASE i = 2
      <3>1. Len(tasks) >= 2 /\ tasks'[2 + 1] = tasks[2]
        BY <1>1, <2>2
      <3> QED BY <1>1, <2>2, <3>1
    <2>3. CASE i > 2
      <3>1. PICK j \in 2..Len(tasks) : /\ i = j + 1 /\ tasks'[i] = tasks[j] /\ tasks'[i + 1] = tasks[j + 1]
                                       /\ j \in 1..(Len(tasks) - 1)
        <4>1. i - 1 \in 2..Len(tasks) /\ i = (i - 1) + 1 /\ i \in 2..Len(tasks) /\ i - 1 \in 1..(Len(tasks) - 1)
          BY <1>1, <2>3
        <4>2. tasks'[i] = tasks[i - 1] /\ tasks'[i + 1] = tasks[(i - 1) + 1]
          BY <1>1, <4>1
        <4> QED BY <4>1, <4>2
      <3>2. Above(tasks[j], tasks[j + 1], stream.pos)
        BY <3>1 DEF Stacked
      <3> QED BY <3>1, <3>2, DeepTasks
    <2> QED BY <1>1, <2>1, <2>2, <2>3
  <1>3. ASSUME NEW i \in 1..(Len(tasks') - 2)
        PROVE  Behind(tasks'[i], tasks'[i + 1], tasks'[i + 2], pos)
    <2>1. CASE i = 1
      <3>1. Len(tasks) >= 2 /\ tasks'[2 + 1] = tasks[2]
        BY <1>1, <2>1
      <3> QED BY <1>1, <2>1, <3>1
    <2>2. CASE i = 2
      <3>1. Len(tasks) >= 3 /\ tasks'[2 + 1] = tasks[2] /\ tasks'[3 + 1] = tasks[3]
        BY <1>1, <2>2
      <3> QED BY <1>1, <2>2, <3>1
    <2>3. CASE i > 2
      <3>1. PICK j \in 2..Len(tasks) : /\ i = j + 1 /\ tasks'[i] = tasks[j] /\ tasks'[i + 1] = tasks[j + 1]
                                       /\ tasks'[i + 2] = tasks[j + 2] /\ j \in 1..(Len(tasks) - 2)
        <4>1. /\ i - 1 \in 2..Len(tasks) /\ i = (i - 1) + 1 /\ i \in 2..Len(tasks)
              /\ i + 1 \in 2..Len(tasks) /\ i + 1 = (i - 1) + 2 /\ i + 2 = (i + 1) + 1
              /\ i - 1 \in 1..(Len(tasks) - 2)
          BY <1>1, <2>3
        <4>2. tasks'[i] = tasks[i - 1] /\ tasks'[i + 1] = tasks[(i - 1) + 1] /\ tasks'[i + 2] = tasks[(i - 1) + 2]
          BY <1>1, <4>1
        <4> QED BY <4>1, <4>2
      <3>2. Behind(tasks[j], tasks[j + 1], tasks[j + 2], stream.pos)
        BY <3>1 DEF Stacked
      <3> QED BY <3>1, <3>2, DeepTasks
    <2> QED BY <1>1, <2>1, <2>2, <2>3
  <1>4. Len(tasks') \in Nat
    BY <1>1
  <1> QED BY <1>2, <1>3, <1>4, StackedAgain

(* What is below the task on top.                                          *)
LEMMA TopStack ==
  ASSUME Built, Stacked, tasks # << >>
  PROVE  /\ Len(tasks) \in Nat
         /\ ~Outermost(top) => Len(tasks) >= 2
         /\ Len(tasks) >= 2 => Above(top, tasks[2], stream.pos) /\ tasks[2] \in Tasks /\ TaskOK(tasks[2])
         /\ Len(tasks) >= 3 => Behind(top, tasks[2], tasks[3], stream.pos)
         /\ Len(tasks) = 2 => Outermost(tasks[2])
  <1>1. Len(tasks) \in Nat \ {0} /\ top = tasks[1] /\ DOMAIN tasks = 1..Len(tasks)
        /\ \A i \in 1..Len(tasks) : tasks[i] \in Tasks /\ TaskOK(tasks[i])
    BY Shapes DEF Built, Typed
  <1>2. Outermost(tasks[Len(tasks)])
    BY DEF Built, Line, Outermost
  <1>3. ~Outermost(top) => Len(tasks) >= 2
    BY <1>1, <1>2
  <1>4. ASSUME Len(tasks) >= 2
        PROVE  Above(top, tasks[2], stream.pos) /\ tasks[2] \in Tasks /\ TaskOK(tasks[2])
    <2>1. 1 \in 1..(Len(tasks) - 1) /\ 2 \in 1..Len(tasks)
      BY <1>1, <1>4
    <2>2. Above(tasks[1], tasks[1 + 1], stream.pos)
      BY <2>1 DEF Stacked
    <2> QED BY <1>1, <2>1, <2>2
  <1>5. ASSUME Len(tasks) >= 3
        PROVE  Behind(top, tasks[2], tasks[3], stream.pos)
    <2>1. 1 \in 1..(Len(tasks) - 2)
      BY <1>1, <1>5
    <2>2. Behind(tasks[1], tasks[1 + 1], tasks[1 + 2], stream.pos)
      BY <2>1 DEF Stacked
    <2> QED BY <1>1, <2>2
  <1>6. Len(tasks) = 2 => Outermost(tasks[2])
    BY <1>2
  <1> QED BY <1>1, <1>3, <1>4, <1>5, <1>6

LEMMA GroupedAgain ==
  ASSUME Built, Grouped, tasks # << >>, tokens' = tokens, stream.errors \subseteq stream'.errors,
         NEW pos, pos = stream'.pos,
         \A n \in DOMAIN nodes : nodes'[n] = nodes[n],
         stream'.errors = {} =>
           /\ \A n \in DOMAIN nodes' : n \in DOMAIN nodes \/ RootOf(nodes'[n])
           /\ \A j \in DOMAIN tasks' : Waits(tasks'[j]) \/ \E i \in DOMAIN tasks : tasks'[j] = tasks[i]
           /\ tasks' # << >> => Back(top', tasks'[2], pos)
  PROVE  Grouped'
  <1> SUFFICES ASSUME stream'.errors = {}
               PROVE  /\ \A n \in DOMAIN nodes' : RootOf(nodes[n])'
                      /\ \A i \in DOMAIN tasks' : Waits(tasks[i])'
                      /\ tasks' # << >> => Back(top, tasks[2], stream.pos)'
    BY DEF Grouped
  <1>1. /\ \A n \in DOMAIN nodes : RootOf(nodes[n])
        /\ \A i \in DOMAIN tasks : Waits(tasks[i])
    BY DEF Grouped
  <1>2. \A n \in DOMAIN nodes' : RootOf(nodes'[n])
    BY <1>1
  <1>3. \A i \in DOMAIN tasks' : Waits(tasks'[i])
    BY <1>1
  <1>0. tokens' = tokens
    OBVIOUS
  <1>4. \A n \in DOMAIN nodes' : RootOf(nodes[n])'
    BY ONLY <1>0, <1>2 DEF RootOf, OuterOperators, Depth
  <1>5. \A i \in DOMAIN tasks' : Waits(tasks[i])'
    <2> SUFFICES ASSUME NEW i \in DOMAIN tasks' PROVE Waits(tasks[i])'
      OBVIOUS
    <2>1. Waits(tasks'[i])
      BY <1>3
    <2> QED BY ONLY <1>0, <2>1 DEF Waits, Phrase, Closed, Outer, Prec, Depth
  <1>6. tasks' # << >> => Back(top, tasks[2], stream.pos)'
    BY DEF Back, Phrase, Closed, Outer, Prec, Depth
  <1> QED BY <1>4, <1>5, <1>6

-----------------------------------------------------------------------------
(* The steps outside of expressions leave their order and grouping alone.  *)
LEMMA TasksFrom ==
  ASSUME Typed, tasks # << >>, NEW new,
         \/ \E call, rest \in Tasks : call \in new /\ rest \in new /\ tasks' = <<call, rest>> \o Tail(tasks)
         \/ \E rest \in Tasks : rest \in new /\ tasks' = <<rest>> \o Tail(tasks)
         \/ tasks' = << >> \o Tail(tasks)
  PROVE  \A j \in DOMAIN tasks' : tasks'[j] \in new \/ \E i \in DOMAIN tasks : tasks'[j] = tasks[i]
  <1>1. DOMAIN tasks = 1..Len(tasks) /\ Len(tasks) \in Nat
    BY Shapes
  <1>2. ASSUME NEW call \in Tasks, NEW rest \in Tasks, call \in new, rest \in new,
               tasks' = <<call, rest>> \o Tail(tasks), NEW j \in DOMAIN tasks'
        PROVE  tasks'[j] \in new \/ \E i \in DOMAIN tasks : tasks'[j] = tasks[i]
    <2>1. /\ DOMAIN tasks' = 1..Len(tasks') /\ tasks'[1] = call /\ tasks'[2] = rest
          /\ \A i \in 3..Len(tasks') : i - 1 \in 2..Len(tasks) /\ tasks'[i] = tasks[i - 1]
          /\ Len(tasks') = Len(tasks) + 1
      BY <1>2, OnPush
    <2>2. j = 1 \/ j = 2 \/ j \in 3..Len(tasks')
      <3>1. \A n \in Nat : \A k \in 1..n : k = 1 \/ k = 2 \/ k \in 3..n
        OBVIOUS
      <3>2. Len(tasks') \in Nat
        <4>1. Len(tasks') = Len(tasks) + 1
          BY <2>1
        <4> QED BY ONLY <1>1, <4>1
      <3>3. j \in 1..Len(tasks')
        BY <1>2, <2>1
      <3> QED BY <3>1, <3>2, <3>3
    <2>3. CASE j \in 3..Len(tasks')
      <3>1. j - 1 \in 2..Len(tasks) /\ tasks'[j] = tasks[j - 1]
        BY <2>1, <2>3
      <3>2. \A n \in Nat : 2..n \subseteq 1..n
        OBVIOUS
      <3> QED BY <1>1, <3>1, <3>2
    <2> QED BY <1>2, <2>1, <2>2, <2>3
  <1>3. ASSUME NEW rest \in Tasks, rest \in new, tasks' = <<rest>> \o Tail(tasks), NEW j \in DOMAIN tasks'
        PROVE  tasks'[j] \in new \/ \E i \in DOMAIN tasks : tasks'[j] = tasks[i]
    <2>1. /\ DOMAIN tasks' = 1..Len(tasks') /\ tasks'[1] = rest /\ Len(tasks') = Len(tasks)
          /\ \A i \in 2..Len(tasks) : tasks'[i] = tasks[i]
      BY <1>3, OnSwap
    <2>2. j = 1 \/ (j \in 2..Len(tasks) /\ j \in DOMAIN tasks)
      <3>1. \A n \in Nat : \A k \in 1..n : k = 1 \/ k \in 2..n
        OBVIOUS
      <3>2. j \in 1..Len(tasks)
        BY <1>3, <2>1
      <3> QED BY <1>1, <3>1, <3>2
    <2> QED BY <1>3, <2>1, <2>2
  <1>4. ASSUME tasks' = << >> \o Tail(tasks), NEW j \in DOMAIN tasks'
        PROVE  \E i \in DOMAIN tasks : tasks'[j] = tasks[i]
    <2>1. /\ DOMAIN tasks' = 1..Len(tasks')
          /\ \A i \in 1..Len(tasks') : i + 1 \in 2..Len(tasks) /\ tasks'[i] = tasks[i + 1]
      BY <1>4, OnPop
    <2>2. j + 1 \in 2..Len(tasks) /\ tasks'[j] = tasks[j + 1]
      BY <1>4, <2>1
    <2>3. \A n \in Nat : 2..n \subseteq 1..n
      OBVIOUS
    <2> QED BY <1>1, <2>2, <2>3
  <1> QED BY <1>2, <1>3, <1>4

LEMMA PlainAbove ==
  ASSUME NEW a, NEW b, NEW c, NEW r, NEW p, NEW pos, Outside(a), Outside(r), Above(a, b, p)
  PROVE  /\ b.do \notin {"operators", "operand", "parenthesis"}
         /\ Above(r, b, pos) /\ Behind(r, b, c, pos)
  <1>1. b.do \notin {"operators", "operand", "parenthesis"}
    BY DEF Above, Outside, Inner, ExprTasks
  <1> QED BY <1>1 DEF Above, Behind, Outside, Inner, ExprTasks

LEMMA AsideGroups ==
  ASSUME Built, Stacked, Grouped, Aside
  PROVE  Stacked' /\ Grouped'
  <1> DEFINE pos == stream'.pos
             Quiet_(t) == t.do \notin {"operators", "operand", "parenthesis"}
  <1>1. /\ tasks # << >> /\ tokens' = tokens /\ stream.errors \subseteq stream'.errors
        /\ \A n \in DOMAIN nodes : nodes'[n] = nodes[n]
    BY NodesStay, AsideMoves
  <1>2. Outside(top) /\ Typed /\ Len(tasks) \in Nat
    BY TopStack, <1>1 DEF Aside, Built
  <1>3. \A r, c : /\ Len(tasks) >= 2 /\ Outside(r) => Above(r, tasks[2], pos) /\ Behind(r, tasks[2], c, pos)
                  /\ Len(tasks) >= 2 => Quiet_(tasks[2])
    <2> HIDE DEF pos
    <2>1. ASSUME NEW r, NEW c, Len(tasks) >= 2, Outside(r)
          PROVE  Above(r, tasks[2], pos) /\ Behind(r, tasks[2], c, pos)
      <3>1. Above(top, tasks[2], stream.pos)
        BY <1>1, <2>1, TopStack
      <3> QED BY <1>2, <2>1, <3>1, PlainAbove
    <2>2. ASSUME Len(tasks) >= 2 PROVE Quiet_(tasks[2])
      <3>1. Above(top, tasks[2], stream.pos)
        BY <1>1, <2>2, TopStack
      <3> QED BY <1>2, <3>1, PlainAbove
    <2> QED BY <2>1, <2>2
  <1>4. \A t : Quiet_(t) => /\ Waits(t)
                            /\ \A n : Back(t, n, pos)
    BY DEF Waits, Back
  <1>5. \A t : t.do = "helper" \/ Outside(t) => Quiet_(t)
    BY DEF Outside, Inner, ExprTasks
  <1>6. ASSUME NEW node \in NodeSet, node.kind # "binary", nodes' = Append(nodes, node)
        PROVE  \A n \in DOMAIN nodes' : n \in DOMAIN nodes \/ RootOf(nodes'[n])
    BY <1>2, <1>6, OnAppend DEF RootOf
  <1>7. nodes' = nodes => \A n \in DOMAIN nodes' : n \in DOMAIN nodes \/ RootOf(nodes'[n])
    OBVIOUS
  <1> HIDE DEF pos, Quiet_
  <1>8. pos = stream'.pos
    BY DEF pos
  <1>9. ASSUME NEW call, NEW rest, Calls(call, rest), Outside(rest), call.do = "helper" \/ Outside(call)
        PROVE  Stacked' /\ Grouped'
    <2>1. /\ call \in Tasks /\ rest \in Tasks /\ tasks' = <<call, rest>> \o Tail(tasks) /\ nodes' = nodes
      BY <1>9 DEF Calls, Fit
    <2>2. Above(call, rest, pos) /\ Behind(call, rest, tasks[2], pos)
      BY <1>9 DEF Above, Behind, Outside, Inner, ExprTasks
    <2>3. Stacked'
      BY <1>1, <1>2, <1>3, <1>8, <1>9, <2>1, <2>2, StackPush
    <2>4. top' = call /\ Quiet_(call) /\ Quiet_(rest)
      BY <1>1, <1>2, <1>5, <1>9, <2>1, OnPush
    <2>5. \A j \in DOMAIN tasks' : tasks'[j] \in {call, rest} \/ \E i \in DOMAIN tasks : tasks'[j] = tasks[i]
      <3> HIDE DEF Tasks
      <3> QED BY <1>1, <1>2, <2>1, TasksFrom
    <2>6. Grouped'
      BY <1>1, <1>4, <1>7, <1>8, <2>1, <2>4, <2>5, GroupedAgain
    <2> QED BY <2>3, <2>6
  <1>10. ASSUME NEW rest \in Tasks, tasks' = <<rest>> \o Tail(tasks), Outside(rest),
                \A n \in DOMAIN nodes' : n \in DOMAIN nodes \/ RootOf(nodes'[n])
         PROVE  Stacked' /\ Grouped'
    <2>1. Stacked'
      BY <1>1, <1>2, <1>3, <1>8, <1>10, StackSwap
    <2>2. top' = rest /\ Quiet_(rest)
      BY <1>1, <1>2, <1>5, <1>10, OnSwap
    <2>3. \A j \in DOMAIN tasks' : tasks'[j] \in {rest} \/ \E i \in DOMAIN tasks : tasks'[j] = tasks[i]
      <3> HIDE DEF Tasks
      <3> QED BY <1>1, <1>2, <1>10, TasksFrom
    <2>4. Grouped'
      BY <1>1, <1>4, <1>8, <1>10, <2>2, <2>3, GroupedAgain
    <2> QED BY <2>1, <2>4
  <1>11. ASSUME tasks' = << >> \o Tail(tasks),
                \A n \in DOMAIN nodes' : n \in DOMAIN nodes \/ RootOf(nodes'[n])
         PROVE  Stacked' /\ Grouped'
    <2>1. Stacked'
      BY <1>1, <1>11, StackPop
    <2>2. tasks' # << >> => top' = tasks[2] /\ Quiet_(tasks[2])
      <3>1. tasks' # << >> => top' = tasks[2] /\ Len(tasks) > 1
        BY <1>1, <1>2, <1>11, OnPop
      <3>2. Len(tasks) > 1 => Len(tasks) >= 2
        BY <1>2
      <3> QED BY <1>3, <3>1, <3>2
    <2>3. \A j \in DOMAIN tasks' : tasks'[j] \in {} \/ \E i \in DOMAIN tasks : tasks'[j] = tasks[i]
      BY <1>1, <1>2, <1>11, TasksFrom
    <2>4. Grouped'
      BY <1>1, <1>4, <1>8, <1>11, <2>2, <2>3, GroupedAgain
    <2> QED BY <2>1, <2>4
  <1>12. ASSUME NEW rest, GoesOn(rest), Outside(rest) PROVE Stacked' /\ Grouped'
    BY <1>7, <1>10, <1>12 DEF GoesOn, Fit
  <1>13. ASSUME NEW r, Returns(r) PROVE Stacked' /\ Grouped'
    BY <1>7, <1>11, <1>13 DEF Returns
  <1>14. ASSUME NEW node, ReturnsNew(node), node.kind # "binary" PROVE Stacked' /\ Grouped'
    BY <1>6, <1>11, <1>14 DEF ReturnsNew
  <1>15. ASSUME NEW node, NEW rest, Adds(node, rest), node.kind # "binary", Outside(rest)
         PROVE  Stacked' /\ Grouped'
    BY <1>6, <1>10, <1>15 DEF Adds, Fit
  <1> QED BY <1>9, <1>12, <1>13, <1>14, <1>15 DEF Aside

-----------------------------------------------------------------------------
(* The steps of an expression keep both.                                   *)
LEMMA SamePlace ==
  ASSUME NEW a, NEW r, NEW b, NEW c, NEW p, NEW q, a.do \in ExprTasks, r.do \in ExprTasks,
         r.prec = a.prec, Begin(r, q) = Begin(a, p), Above(a, b, p)
  PROVE  Above(r, b, q) /\ (Behind(a, b, c, p) => Behind(r, b, c, q))
  BY DEF Above, Behind, ExprTasks

LEMMA NewRoots ==
  ASSUME Built, nodes' = nodes \/ \E node \in NodeSet : nodes' = Append(nodes, node) /\ RootOf(node)
  PROVE  \A n \in DOMAIN nodes' : n \in DOMAIN nodes \/ RootOf(nodes'[n])
  <1>1. CASE nodes' = nodes
    BY <1>1
  <1>2. ASSUME NEW node \in NodeSet, nodes' = Append(nodes, node), RootOf(node)
        PROVE  \A n \in DOMAIN nodes' : n \in DOMAIN nodes \/ RootOf(nodes'[n])
    BY <1>2, OnAppend DEF Built
  <1> QED BY <1>1, <1>2

LEMMA PopGroups ==
  ASSUME Built, Stacked, Grouped, Moves, tasks' = << >> \o Tail(tasks),
         stream'.errors = {} =>
           nodes' = nodes \/ \E node \in NodeSet : nodes' = Append(nodes, node) /\ RootOf(node),
         NEW pos, pos = stream'.pos,
         stream'.errors = {} /\ Len(tasks) >= 3 => Back(tasks[2], tasks[3], pos)
  PROVE  Stacked' /\ Grouped'
  <1>1. /\ tasks # << >> /\ tokens' = tokens /\ stream.errors \subseteq stream'.errors
        /\ \A n \in DOMAIN nodes : nodes'[n] = nodes[n]
    BY NodesStay
  <1>2. Typed /\ Len(tasks) \in Nat /\ (Len(tasks) = 2 => Outermost(tasks[2]))
    BY <1>1, TopStack DEF Built
  <1>3. \A j \in DOMAIN tasks' : tasks'[j] \in {} \/ \E i \in DOMAIN tasks : tasks'[j] = tasks[i]
    BY <1>1, <1>2, TasksFrom
  <1>4. ASSUME stream'.errors = {}, tasks' # << >>
        PROVE  Back(top', tasks'[2], pos)
    <2>1. top' = tasks[2] /\ Len(tasks) > 1 /\ Len(tasks') = Len(tasks) - 1
          /\ \A i \in 1..Len(tasks') : tasks'[i] = tasks[i + 1]
      BY <1>1, <1>2, <1>4, OnPop
    <2>2. CASE Len(tasks) = 2
      BY <1>2, <2>1, <2>2 DEF Outermost, Back
    <2>3. CASE Len(tasks) # 2
      <3>1. Len(tasks) >= 3 /\ 2 \in 1..Len(tasks')
        <4>1. \A n \in Nat : n > 1 /\ n # 2 => n >= 3 /\ 2 \in 1..(n - 1)
          OBVIOUS
        <4>2. Len(tasks) \in Nat /\ Len(tasks) > 1 /\ Len(tasks') = Len(tasks) - 1
          BY <1>2, <2>1
        <4> QED BY ONLY <2>3, <4>1, <4>2
      <3>2. tasks'[2] = tasks[2 + 1]
        BY <2>1, <3>1
      <3> QED BY <1>4, <2>1, <3>1, <3>2
    <2> QED BY <2>2, <2>3
  <1>5. stream'.errors = {} => \A n \in DOMAIN nodes' : n \in DOMAIN nodes \/ RootOf(nodes'[n])
    BY NewRoots
  <1>6. Grouped'
    BY <1>1, <1>3, <1>4, <1>5, GroupedAgain
  <1> QED BY <1>1, <1>6, StackPop

LEMMA SwapGroups ==
  ASSUME Built, Stacked, Grouped, Moves, ~Outermost(top),
         NEW rest \in Tasks, tasks' = <<rest>> \o Tail(tasks),
         stream'.errors = {} =>
           nodes' = nodes \/ \E node \in NodeSet : nodes' = Append(nodes, node) /\ RootOf(node),
         NEW pos, pos = stream'.pos, top.do \in ExprTasks, rest.do = "operators",
         rest.prec = top.prec, Begin(rest, pos) = Begin(top, stream.pos),
         stream'.errors = {} => Back(rest, tasks[2], pos)
  PROVE  Stacked' /\ Grouped'
  <1>1. /\ tasks # << >> /\ tokens' = tokens /\ stream.errors \subseteq stream'.errors
        /\ \A n \in DOMAIN nodes : nodes'[n] = nodes[n]
    BY NodesStay
  <1>2. /\ Typed /\ Len(tasks) \in Nat /\ Len(tasks) >= 2 /\ Above(top, tasks[2], stream.pos)
        /\ Len(tasks) >= 3 => Behind(top, tasks[2], tasks[3], stream.pos)
    BY <1>1, TopStack DEF Built
  <1>3. \A j \in DOMAIN tasks' : tasks'[j] \in {rest} \/ \E i \in DOMAIN tasks : tasks'[j] = tasks[i]
    <2> HIDE DEF Tasks
    <2> QED BY <1>1, <1>2, TasksFrom
  <1>4. top' = rest /\ tasks'[2] = tasks[2]
    <2>1. 2 \in 2..Len(tasks)
      BY <1>2
    <2> QED BY <1>1, <1>2, <2>1, OnSwap
  <1>5. stream'.errors = {} => \A n \in DOMAIN nodes' : n \in DOMAIN nodes \/ RootOf(nodes'[n])
    BY NewRoots
  <1>6. Waits(rest)
    BY DEF Waits
  <1>7. Grouped'
    BY <1>1, <1>3, <1>4, <1>5, <1>6, GroupedAgain
  <1>8. /\ Above(rest, tasks[2], pos)
        /\ Len(tasks) >= 3 => Behind(rest, tasks[2], tasks[3], pos)
    <2>1. rest.do \in ExprTasks
      BY DEF ExprTasks
    <2>2. Above(rest, tasks[2], pos)
      BY <1>2, <2>1, SamePlace
    <2>3. ASSUME Len(tasks) >= 3 PROVE Behind(rest, tasks[2], tasks[3], pos)
      <3>1. Behind(top, tasks[2], tasks[3], stream.pos)
        BY <1>2, <2>3
      <3> QED BY <1>2, <2>1, <3>1, SamePlace
    <2> QED BY <2>2, <2>3
  <1> QED BY <1>1, <1>7, <1>8, StackSwap

LEMMA PushGroups ==
  ASSUME Built, Stacked, Grouped, Moves, nodes' = nodes,
         NEW call \in Tasks, NEW rest \in Tasks, tasks' = <<call, rest>> \o Tail(tasks),
         NEW pos, pos = stream'.pos, call.do \in {"helper", "primary"},
         Above(call, rest, pos),
         Len(tasks) >= 2 => Above(rest, tasks[2], pos) /\ Behind(call, rest, tasks[2], pos),
         Len(tasks) >= 3 => Behind(rest, tasks[2], tasks[3], pos),
         stream'.errors = {} => Waits(rest)
  PROVE  Stacked' /\ Grouped'
  <1>1. /\ tasks # << >> /\ tokens' = tokens /\ stream.errors \subseteq stream'.errors
        /\ \A n \in DOMAIN nodes : nodes'[n] = nodes[n]
    BY NodesStay
  <1>2. Typed
    BY DEF Built
  <1>3. \A j \in DOMAIN tasks' : tasks'[j] \in {call, rest} \/ \E i \in DOMAIN tasks : tasks'[j] = tasks[i]
    <2> HIDE DEF Tasks
    <2> QED BY <1>1, <1>2, TasksFrom
  <1>4. top' = call
    BY <1>1, <1>2, OnPush
  <1>5. Waits(call) /\ \A u : Back(call, u, pos)
    BY DEF Waits, Back
  <1>6. \A n \in DOMAIN nodes' : n \in DOMAIN nodes
    OBVIOUS
  <1>7. Grouped'
    BY <1>1, <1>3, <1>4, <1>5, <1>6, GroupedAgain
  <1> QED BY <1>1, <1>7, StackPush

LEMMA ParseHelperGroups ==
  ASSUME Built, Stacked, Grouped, ParseHelper
  PROVE  Stacked' /\ Grouped'
  <1> DEFINE call == Call("primary")
             rest == [top EXCEPT !.do = "operators", !.at = stream.pos]
  <1>1. /\ tasks # << >> /\ top.do = "helper" /\ stream' = stream /\ nodes' = nodes
        /\ tasks' = <<call, rest>> \o Tail(tasks)
    BY DEF ParseHelper, Doing, CallThen, Continue
  <1>2. Moves /\ ~Outside(top)
    BY <1>1, ParseHelperMoves DEF Outside, Inner, ExprTasks
  <1>3. top \in Tasks /\ ~Outermost(top) /\ stream.pos \in 1..Len(tokens) /\ Len(tokens) \in Nat
    BY <1>1, <1>2, InnerTop
  <1>4. /\ Len(tasks) >= 2 /\ Above(top, tasks[2], stream.pos)
        /\ Len(tasks) >= 3 => Behind(top, tasks[2], tasks[3], stream.pos)
    BY <1>1, <1>3, TopStack
  <1>5. rest \in Tasks /\ rest.do = "operators" /\ rest.at = stream.pos /\ rest.prec = top.prec
    <2>1. stream.pos \in 0..Len(tokens) /\ "operators" \in Dos
      BY <1>3 DEF Dos, Readers
    <2> QED BY <1>3, <2>1 DEF Tasks
  <1>6. call \in Tasks /\ call.do = "primary"
    BY <1>1, CallFits DEF Fit, Dos, Readers, Conditionals
  <1> HIDE DEF rest, call
  <1>7. Above(call, rest, stream.pos) /\ Behind(call, rest, tasks[2], stream.pos) /\ Waits(rest)
    BY <1>5, <1>6 DEF Above, Behind, Waits
  <1>8. /\ Above(rest, tasks[2], stream.pos)
        /\ Len(tasks) >= 3 => Behind(rest, tasks[2], tasks[3], stream.pos)
    <2>1. /\ rest.do \in ExprTasks /\ top.do \in ExprTasks
          /\ Begin(rest, stream.pos) = Begin(top, stream.pos)
      BY <1>1, <1>5 DEF ExprTasks, Begin
    <2> QED BY <1>4, <1>5, <2>1, SamePlace
  <1> DEFINE pos == stream'.pos
  <1>9. pos = stream.pos
    BY <1>1
  <1> HIDE DEF pos
  <1>10. pos = stream'.pos
    BY DEF pos
  <1> QED BY <1>1, <1>2, <1>5, <1>6, <1>7, <1>8, <1>9, <1>10, PushGroups

LEMMA BackOperators ==
  ASSUME NEW t, NEW u, NEW pos, t.do = "operators", Closed(t.at, pos - 1), Outer(t.at, pos - 1) = {}
  PROVE  Back(t, u, pos)
  BY DEF Back, Phrase

LEMMA ParsePrimaryGroups ==
  ASSUME Built, Stacked, Grouped, ParsePrimary
  PROVE  Stacked' /\ Grouped'
  <1>1. tasks # << >> /\ top.do = "primary"
    BY DEF ParsePrimary, Doing
  <1>2. Moves /\ ~Outside(top)
    BY <1>1, ParsePrimaryMoves DEF Outside, Inner, ExprTasks
  <1>3. /\ ~Outermost(top) /\ stream \in Streams /\ tokens \in Inputs
        /\ stream.pos \in 1..Len(tokens) /\ Len(tokens) \in Nat \ {0}
    BY <1>1, <1>2, InnerTop
  <1>4. Len(tasks) \in Nat /\ Len(tasks) >= 2 /\ Above(top, tasks[2], stream.pos)
    BY <1>1, <1>3, TopStack
  <1>5. tasks[2].do = "operators" /\ tasks[2].at = stream.pos
    BY <1>1, <1>4 DEF Above
  <1> DEFINE pos == stream'.pos
  <1>6. CASE cur(stream) \in Literals \cup {"id"}
    <2> DEFINE node == Node("leaf", stream.pos, 0, 0, << >>)
    <2>1. nodes' = Append(nodes, node) /\ tasks' = << >> \o Tail(tasks) /\ stream' = advance(stream)
      BY <1>6 DEF ParsePrimary, ReturnNew, New, Continue
    <2>2. node \in NodeSet /\ RootOf(node)
      BY <1>3 DEF Node, NodeSet, NodeKinds, RootOf
    <2> HIDE DEF node
    <2>3. pos - 1 = stream.pos
      <3>1. cur(stream) # "eof"
        BY <1>6 DEF Literals
      <3>2. pos = stream.pos + 1
        BY <1>3, <2>1, <3>1, Advances
      <3> QED BY <1>3, <3>2
    <2>4. tokens[stream.pos] \notin Operators \cup {"(", ")"} /\ stream.pos \in Int
      BY <1>3, <1>6 DEF cur, Literals, Operators
    <2> HIDE DEF pos
    <2>5. Back(tasks[2], tasks[3], pos)
      BY <1>5, <2>3, <2>4, OneToken, BackOperators
    <2>6. pos = stream'.pos
      BY DEF pos
    <2> QED BY <1>2, <2>1, <2>2, <2>5, <2>6, PopGroups
  <1>7. CASE cur(stream) \notin Literals \cup {"id"} /\ cur(stream) = "("
    <2> DEFINE call == CallHelper(0)
               rest == Call("parenthesis")
    <2>1. /\ nodes' = nodes /\ tasks' = <<call, rest>> \o Tail(tasks) /\ stream' = advance(stream)
      BY <1>7 DEF ParsePrimary, CallThen, Continue
    <2>2. pos = stream.pos + 1
      <3>1. cur(stream) # "eof"
        BY <1>7
      <3> QED BY <1>3, <2>1, <3>1, Advances
    <2>3. rest \in Tasks /\ rest.do = "parenthesis"
      BY <1>3, NullFits DEF Call, Task, Tasks, Null, Dos, Readers
    <2>4. call \in Tasks /\ call.do = "helper"
      <3>1. 0 \in 0..121
        OBVIOUS
      <3> QED BY <1>1, <3>1, HelperFits DEF Fit
    <2> HIDE DEF call, rest, pos
    <2>5. Above(call, rest, pos) /\ Waits(rest)
      BY <2>3, <2>4 DEF Above, Waits, ExprTasks
    <2>6. Above(rest, tasks[2], pos) /\ Behind(call, rest, tasks[2], pos) /\ Behind(rest, tasks[2], tasks[3], pos)
      BY <1>5, <1>7, <2>2, <2>3, <2>4 DEF Above, Behind, Begin, cur
    <2>7. pos = stream'.pos
      BY DEF pos
    <2> QED BY <1>2, <2>1, <2>3, <2>4, <2>5, <2>6, <2>7, PushGroups
  <1>8. CASE cur(stream) \notin Literals \cup {"id"} /\ cur(stream) # "("
    <2>1. nodes' = nodes /\ tasks' = << >> \o Tail(tasks) /\ stream' = error(stream)
      BY <1>8 DEF ParsePrimary, Return, Continue
    <2>2. stream'.errors # {}
      BY <1>3, <2>1, Errors
    <2> HIDE DEF pos
    <2>3. pos = stream'.pos
      BY DEF pos
    <2> QED BY <1>2, <2>1, <2>2, <2>3, PopGroups
  <1> QED BY <1>6, <1>7, <1>8

LEMMA EndParenthesisGroups ==
  ASSUME Built, Stacked, Grouped, EndParenthesis
  PROVE  Stacked' /\ Grouped'
  <1>1. /\ tasks # << >> /\ top.do = "parenthesis" /\ stream' = expect(stream, ")")
        /\ nodes' = nodes /\ tasks' = << >> \o Tail(tasks)
    BY DEF EndParenthesis, Doing, Return, Continue
  <1>2. Moves /\ ~Outside(top)
    BY <1>1, EndParenthesisMoves DEF Outside, Inner, ExprTasks
  <1>3. /\ ~Outermost(top) /\ stream \in Streams /\ tokens \in Inputs
        /\ stream.pos \in 1..Len(tokens) /\ Len(tokens) \in Nat \ {0}
    BY <1>1, <1>2, InnerTop
  <1>4. /\ Len(tasks) \in Nat /\ Len(tasks) >= 2 /\ Above(top, tasks[2], stream.pos)
        /\ tasks[2] \in Tasks
    BY <1>1, <1>3, TopStack
  <1>5. tasks[2].do = "operators" /\ tokens[tasks[2].at] = "("
    BY <1>1, <1>4 DEF Above
  <1> DEFINE pos == stream'.pos
  <1>6. ASSUME stream'.errors = {}
        PROVE  Back(tasks[2], tasks[3], pos)
    <2>1. cur(stream) = ")" /\ stream' = advance(stream) /\ stream.errors = {}
      <3>1. cur(stream) = ")" /\ stream' = advance(stream)
        BY <1>1, <1>3, <1>6, Expects DEF Literals
      <3> QED BY <1>3, <1>6, <3>1, Advances
    <2>2. pos = stream.pos + 1
      BY <1>3, <2>1, Advances
    <2>3. Closed(tasks[2].at + 1, stream.pos - 1)
      BY <1>1, <2>1 DEF Grouped, Back
    <2> DEFINE a == tasks[2].at
               e == stream.pos - 1
    <2>4. a \in Int /\ e \in Int /\ e + 1 = stream.pos /\ pos - 1 = e + 1
      BY <1>3, <1>4, <2>2 DEF Tasks
    <2>5. tokens[a] = "(" /\ Closed(a + 1, e) /\ tokens[e + 1] = ")"
      BY <1>5, <2>1, <2>3, <2>4 DEF cur
    <2> HIDE DEF e, pos
    <2>6. Closed(a, e + 1) /\ Outer(a, e + 1) = {}
      BY <2>4, <2>5, InParentheses
    <2>7. Closed(a, pos - 1) /\ Outer(a, pos - 1) = {}
      BY <2>4, <2>6
    <2> QED BY <1>5, <2>7, BackOperators
  <1> HIDE DEF pos
  <1>7. pos = stream'.pos
    BY DEF pos
  <1> QED BY <1>1, <1>2, <1>6, <1>7, PopGroups

LEMMA EndOperatorsGroups ==
  ASSUME Built, Stacked, Grouped, EndOperators
  PROVE  Stacked' /\ Grouped'
  <1>1. /\ tasks # << >> /\ top.do = "operators" /\ stream' = stream
        /\ ret = Null \/ getPrecedence(cur(stream)) < top.prec
        /\ nodes' = nodes /\ tasks' = << >> \o Tail(tasks)
    BY DEF EndOperators, Doing, Return, Continue
  <1>2. Moves /\ ~Outside(top)
    BY <1>1, EndOperatorsMoves DEF Outside, Inner, ExprTasks
  <1>3. ~Outermost(top) /\ (ret = Null => stream.errors # {}) /\ top \in Tasks
    BY <1>1, <1>2, InnerTop
  <1>4. /\ Len(tasks) \in Nat /\ Len(tasks) >= 2 /\ Above(top, tasks[2], stream.pos)
        /\ Len(tasks) >= 3 => Behind(top, tasks[2], tasks[3], stream.pos)
    BY <1>1, <1>3, TopStack
  <1> DEFINE pos == stream.pos
  <1>5. ASSUME stream.errors = {}, Len(tasks) >= 3
        PROVE  Back(tasks[2], tasks[3], pos)
    <2>1. Phrase(top.at, pos - 1, top.prec) /\ Prec(pos) < top.prec
      BY <1>1, <1>3, <1>5 DEF Grouped, Back, Prec, cur
    <2>2. tasks[2].do # "operators"
      BY <1>1, <1>4 DEF Above
    <2>3. ASSUME tasks[2].do = "operand"
          PROVE  /\ Phrase(tasks[2].kids[1] + 1, pos - 1, Prec(tasks[2].kids[1]) + 1)
                 /\ Prec(pos) <= Prec(tasks[2].kids[1])
      <3> DEFINE k == tasks[2].kids[1]
      <3>1. top.prec = Prec(k) + 1 /\ top.at = k + 1
        BY <1>1, <1>4, <2>3 DEF Above, Begin
      <3>2. Phrase(k + 1, pos - 1, Prec(k) + 1)
        BY <2>1, <3>1
      <3>3. \A p, q \in {-1, 10, 80, 100, 110, 120} : p < q + 1 => p <= q
        OBVIOUS
      <3>4. Prec(k) \in {-1, 10, 80, 100, 110, 120} /\ Prec(pos) \in {-1, 10, 80, 100, 110, 120}
        BY Precedences DEF Prec
      <3>5. Prec(pos) < Prec(k) + 1
        BY <2>1, <3>1
      <3> HIDE DEF k, pos
      <3>6. Prec(pos) <= Prec(k)
        BY <3>3, <3>4, <3>5
      <3> QED BY <3>2, <3>6 DEF k
    <2>4. ASSUME tasks[2].do = "parenthesis"
          PROVE  Closed(tasks[3].at + 1, pos - 1)
      <3>1. top.at = tasks[3].at + 1
        BY <1>1, <1>4, <1>5, <2>4 DEF Behind, Begin
      <3> QED BY <2>1, <3>1 DEF Phrase
    <2> QED BY <2>2, <2>3, <2>4 DEF Back
  <1> HIDE DEF pos
  <1>6. pos = stream'.pos
    BY <1>1 DEF pos
  <1> QED BY <1>1, <1>2, <1>5, <1>6, PopGroups

LEMMA ParseOperatorGroups ==
  ASSUME Built, Stacked, Grouped, ParseOperator
  PROVE  Stacked' /\ Grouped'
  <1> DEFINE prec == OperandPrecedence(getPrecedence(cur(stream)))
             call == CallHelper(prec)
             rest == [top EXCEPT !.do = "operand", !.left = ret, !.kids = <<stream.pos>>]
  <1>1. /\ stream' = advance(stream) /\ nodes' = nodes /\ ret # Null
        /\ tasks' = <<call, rest>> \o Tail(tasks) /\ getPrecedence(cur(stream)) >= top.prec
    BY DEF ParseOperator, CallThen, Continue
  <1>2. /\ tasks # << >> /\ top.do = "operators" /\ cur(stream) \in Operators /\ prec \in 0..121
        /\ rest \in Tasks /\ rest.do = "operand" /\ rest.at = top.at /\ rest.prec = top.prec
        /\ rest.kids[1] = stream.pos /\ ~Outermost(top)
        /\ stream \in Streams /\ tokens \in Inputs /\ stream.pos \in 1..Len(tokens)
    BY OperatorTasks
  <1>3. Moves
    BY ParseOperatorMoves
  <1>4. /\ Len(tasks) \in Nat /\ Len(tasks) >= 2 /\ Above(top, tasks[2], stream.pos)
        /\ Len(tasks) >= 3 => Behind(top, tasks[2], tasks[3], stream.pos)
    BY <1>2, TopStack
  <1>5. call \in Tasks /\ call.do = "helper" /\ call.prec = Prec(stream.pos) + 1
    <2>1. prec = Prec(stream.pos) + 1
      BY DEF OperandPrecedence, Prec, cur
    <2> HIDE DEF prec
    <2> QED BY <1>2, <2>1, HelperFits DEF Fit
  <1> DEFINE pos == stream'.pos
  <1>6. pos = stream.pos + 1 /\ stream'.errors = stream.errors
    <2>1. cur(stream) # "eof"
      BY <1>2 DEF Operators
    <2> QED BY <1>1, <1>2, <2>1, Advances
  <1> HIDE DEF rest, call, prec, pos
  <1>7. Above(call, rest, pos) /\ Behind(call, rest, tasks[2], pos)
    BY <1>2, <1>5, <1>6 DEF Above, Behind, Begin, ExprTasks
  <1>8. Above(rest, tasks[2], pos) /\ (Len(tasks) >= 3 => Behind(rest, tasks[2], tasks[3], pos))
    <2>1. /\ rest.do \in ExprTasks /\ top.do \in ExprTasks
          /\ Begin(rest, pos) = Begin(top, stream.pos)
      BY <1>2 DEF ExprTasks, Begin
    <2>2. Above(rest, tasks[2], pos)
      BY <1>2, <1>4, <2>1, SamePlace
    <2>3. ASSUME Len(tasks) >= 3 PROVE Behind(rest, tasks[2], tasks[3], pos)
      <3>1. Behind(top, tasks[2], tasks[3], stream.pos)
        BY <1>4, <2>3
      <3> QED BY <1>2, <1>4, <2>1, <3>1, SamePlace
    <2> QED BY <2>2, <2>3
  <1>9. stream'.errors = {} => Waits(rest)
    BY <1>1, <1>2, <1>6 DEF Grouped, Back, Waits, Prec, cur
  <1>10. pos = stream'.pos
    BY DEF pos
  <1> QED BY <1>1, <1>2, <1>3, <1>5, <1>7, <1>8, <1>9, <1>10, PushGroups

LEMMA EndOperandGroups ==
  ASSUME Built, Stacked, Grouped, EndOperand
  PROVE  Stacked' /\ Grouped'
  <1>1. tasks # << >> /\ top.do = "operand" /\ stream' = stream
    BY DEF EndOperand, Doing
  <1>2. Moves /\ ~Outside(top)
    BY <1>1, EndOperandMoves DEF Outside, Inner, ExprTasks
  <1>3. /\ ~Outermost(top) /\ (ret = Null => stream.errors # {}) /\ top \in Tasks /\ TaskOK(top)
        /\ stream.pos \in 1..Len(tokens) /\ Len(tokens) \in Nat \ {0}
    BY <1>1, <1>2, InnerTop
  <1> DEFINE pos == stream.pos
  <1>4. pos = stream'.pos
    BY <1>1
  <1>5. CASE ret = Null
    <2>1. tasks' = << >> \o Tail(tasks) /\ stream'.errors # {}
      BY <1>1, <1>3, <1>5 DEF EndOperand, Return, Continue
    <2> HIDE DEF pos
    <2> QED BY <1>2, <1>4, <2>1, PopGroups
  <1>6. CASE ret # Null
    <2> DEFINE a == top.at
               k == top.kids[1]
               e == pos - 1
               node == Node("binary", k, a, e, <<top.left, ret>>)
               rest == Then("operators", << >>)
    <2>1. nodes' = Append(nodes, node) /\ tasks' = <<rest>> \o Tail(tasks)
      BY <1>6 DEF EndOperand, Continue
    <2>2. /\ rest \in Tasks /\ rest.do = "operators" /\ rest.at = a /\ rest.prec = top.prec
      BY <1>3, NullFits DEF Then, Tasks, Dos, Readers
    <2>3. /\ a \in Nat /\ k \in Positions /\ k \in Int /\ e \in Int /\ tokens[k] \in Operators /\ top.prec \in Int
          /\ e \in 0..Len(tokens)
      <3>1. a \in 0..Len(tokens) /\ top.prec \in 0..121
        BY <1>3 DEF Tasks
      <3>2. k \in Positions /\ tokens[k] \in Operators
        BY <1>1, <1>3 DEF TaskOK
      <3>3. e \in 0..Len(tokens)
        BY <1>3
      <3> HIDE DEF a, k, e
      <3>4. k \in Int
        BY <1>3, <3>2 DEF Positions
      <3>5. a \in Nat /\ e \in Int /\ top.prec \in Int
        <4>1. \A n \in Nat : 0..n \subseteq Nat /\ 0..n \subseteq Int
          OBVIOUS
        <4>2. 0..121 \subseteq Int /\ Len(tokens) \in Nat
          BY <1>3
        <4> QED BY ONLY <3>1, <3>3, <4>1, <4>2
      <3> QED BY <3>2, <3>3, <3>4, <3>5
    <2>4. node \in NodeSet /\ node.kind = "binary" /\ node.at = k /\ node.from = a /\ node.to = e
      <3>1. top.left \in Nat /\ ret \in Nat
        BY <1>1, Hands
      <3>2. <<top.left, ret>> \in Seq(Nat)
        BY <3>1
      <3> DEFINE kids == <<top.left, ret>>
      <3> HIDE DEF kids, k, e
      <3>3. Node("binary", k, a, e, kids) \in NodeSet
        <4>1. kids \in Seq(Nat) /\ "binary" \in NodeKinds /\ k \in 0..Len(tokens) /\ a \in 0..Len(tokens)
          BY <1>3, <2>3, <3>2 DEF kids, NodeKinds, Positions, Tasks
        <4> QED BY <2>3, <4>1 DEF Node, NodeSet
      <3> QED BY <3>3 DEF Node, kids
    <2> HIDE DEF node, rest, a, k, e
    <2>5. ASSUME stream.errors = {}
          PROVE  RootOf(node) /\ Back(rest, tasks[2], pos)
      <3>1. /\ Waits(top) /\ Back(top, tasks[2], pos)
        <4>1. top = tasks[1] /\ 1 \in DOMAIN tasks
          BY <1>1, Shapes DEF Built
        <4> QED BY <1>1, <2>5, <4>1 DEF Grouped
      <3>2. /\ Phrase(a, k - 1, Prec(k)) /\ Prec(k) >= top.prec
            /\ Phrase(k + 1, e, Prec(k) + 1) /\ Prec(pos) <= Prec(k)
        BY <1>1, <3>1 DEF Waits, Back, a, k, e
      <3>3. Closed(a, e) /\ Outer(a, e) = Outer(a, k - 1) \cup {k} \cup Outer(k + 1, e)
        <4>1. Closed(a, k - 1) /\ Closed(k + 1, e)
          BY <3>2 DEF Phrase
        <4>2. a \in Int /\ k \in Int /\ e \in Int /\ tokens[k] \in Operators
          BY <2>3
        <4> QED BY ONLY <4>1, <4>2, Joined
      <3>4. /\ \A q : Prec(q) \in Int
            /\ \A q \in Outer(a, k - 1) : q \in Int /\ q <= k - 1 /\ Prec(q) >= Prec(k)
            /\ \A q \in Outer(k + 1, e) : Prec(q) >= Prec(k) + 1
        <4>1. \A q : Prec(q) \in {-1, 10, 80, 100, 110, 120}
          BY Precedences DEF Prec
        <4>2. \A q \in Outer(a, k - 1) : q \in a..(k - 1)
          BY DEF Outer
        <4>3. {-1, 10, 80, 100, 110, 120} \subseteq Int
          OBVIOUS
        <4>4. \A q \in a..(k - 1) : q \in Int /\ q <= k - 1
          BY <2>3
        <4> QED BY <3>2, <4>1, <4>2, <4>3, <4>4 DEF Phrase
      <3>5. \A q \in Outer(a, e) : Prec(q) >= Prec(k) /\ (Prec(q) = Prec(k) => q <= k)
        <4>1. ASSUME NEW q \in Outer(a, k - 1) PROVE Prec(q) >= Prec(k) /\ q <= k
          BY <2>3, <3>4
        <4>2. ASSUME NEW q \in Outer(k + 1, e) PROVE Prec(q) >= Prec(k) /\ Prec(q) # Prec(k)
          <5>1. Prec(q) \in Int /\ Prec(k) \in Int /\ Prec(q) >= Prec(k) + 1
            BY <3>4, <4>2
          <5> QED BY <5>1
        <4>3. Prec(k) >= Prec(k) /\ k <= k
          BY <2>3, <3>4
        <4> QED BY <3>3, <4>1, <4>2, <4>3
      <3>6. RootOf(node)
        <4>1. OuterOperators(node) = Outer(a, e)
          BY <2>4 DEF OuterOperators, Outer
        <4>2. k \in Outer(a, e)
          BY <3>3
        <4>3. \A q \in Outer(a, e) : Prec(k) <= Prec(q) /\ (Prec(k) = Prec(q) => q <= k)
          BY <3>4, <3>5
        <4> QED BY <2>4, <4>1, <4>2, <4>3 DEF RootOf, Prec
      <3>7. \A q \in Outer(a, e) : Prec(q) >= top.prec /\ Prec(q) >= Prec(pos)
        <4>1. ASSUME NEW q \in Outer(a, e) PROVE Prec(q) >= top.prec /\ Prec(q) >= Prec(pos)
          <5>1. Prec(q) \in Int /\ Prec(k) \in Int /\ Prec(pos) \in Int
            BY <3>4
          <5>2. Prec(q) >= Prec(k)
            BY <3>5, <4>1
          <5> QED BY <2>3, <3>2, <5>1, <5>2
        <4> QED BY <4>1
      <3>8. Back(rest, tasks[2], pos)
        BY <2>2, <3>3, <3>7 DEF Back, Phrase, e
      <3> QED BY <3>6, <3>8
    <2>6. /\ top.do \in ExprTasks /\ Begin(rest, pos) = Begin(top, stream.pos)
      BY <1>1, <2>2 DEF ExprTasks, Begin, a
    <2> HIDE DEF pos
    <2> QED BY <1>1, <1>2, <1>3, <1>4, <2>1, <2>2, <2>4, <2>5, <2>6, SwapGroups
  <1> QED BY <1>5, <1>6

LEMMA ParseMemberAccessGroups ==
  ASSUME Built, Stacked, Grouped, ParseMemberAccess
  PROVE  Stacked' /\ Grouped'
  <1> DEFINE name == advance(stream)
             pos == stream'.pos
  <1>1. /\ tasks # << >> /\ top.do = "operators" /\ ret # Null /\ cur(stream) \in Members
    BY DEF ParseMemberAccess, Doing
  <1>2. Moves /\ ~Outside(top)
    BY <1>1, ParseMemberAccessMoves DEF Outside, Inner, ExprTasks
  <1>3. /\ ~Outermost(top) /\ top \in Tasks /\ stream \in Streams /\ tokens \in Inputs
        /\ stream.pos \in 1..Len(tokens) /\ Len(tokens) \in Nat \ {0}
    BY <1>1, <1>2, InnerTop
  <1>4. name \in Streams /\ name.pos = stream.pos + 1 /\ name.errors = stream.errors
    <2>1. cur(stream) # "eof"
      BY <1>1 DEF Members
    <2> QED BY <1>3, <2>1, Advances
  <1>5. CASE cur(name) # "id"
    <2>1. tasks' = << >> \o Tail(tasks) /\ stream' = error(name)
      BY <1>5 DEF ParseMemberAccess, Return, Continue
    <2> HIDE DEF name
    <2>2. stream'.errors # {}
      BY <1>4, <2>1, Errors
    <2> HIDE DEF pos
    <2>3. pos = stream'.pos
      BY DEF pos
    <2> QED BY <1>2, <2>1, <2>2, <2>3, PopGroups
  <1>6. CASE cur(name) = "id"
    <2> DEFINE kids == <<ret>>
               node == Node("member", name.pos, 0, 0, kids)
    <2>1. nodes' = Append(nodes, node) /\ tasks' = <<top>> \o Tail(tasks) /\ stream' = advance(name)
      BY <1>6 DEF ParseMemberAccess, New, Continue
    <2>2. kids \in Seq(Nat)
      BY <1>1, Hands
    <2>3. name.pos \in 1..Len(tokens)
      <3> HIDE DEF name
      <3> QED BY <1>4 DEF Streams, Positions
    <2> HIDE DEF kids, name
    <2>4. node \in NodeSet /\ RootOf(node)
      BY <1>3, <2>2, <2>3 DEF Node, NodeSet, NodeKinds, RootOf
    <2> HIDE DEF node
    <2>5. pos = name.pos + 1 /\ stream'.errors = name.errors
      <3>1. cur(name) # "eof"
        BY <1>6
      <3> QED BY <1>3, <1>4, <2>1, <3>1, Advances
    <2> HIDE DEF pos
    <2>6. ASSUME stream'.errors = {}
          PROVE  Back(top, tasks[2], pos)
      <3> DEFINE a == top.at
                 e == stream.pos - 1
      <3>1. /\ a \in Int /\ e \in Int /\ e + 1 = stream.pos /\ (e + 1) + 1 = name.pos /\ pos - 1 = (e + 1) + 1
        BY <1>3, <1>4, <2>5 DEF Tasks
      <3>2. Phrase(a, e, Prec(stream.pos))
        BY <1>1, <1>4, <2>5, <2>6 DEF Grouped, Back
      <3>3. Outer(a, e) = {}
        <4>1. Prec(stream.pos) = 120
          BY <1>1, Precedences DEF Prec, cur
        <4>2. ASSUME NEW q \in Outer(a, e) PROVE FALSE
          <5>1. tokens[q] \in Operators /\ Prec(q) >= 120
            BY <3>2, <4>1, <4>2 DEF Phrase, Outer
          <5>2. Prec(q) \in 0..110
            BY <5>1, Precedences DEF Prec
          <5> QED BY <5>1, <5>2
        <4> QED BY <4>2
      <3>4. /\ tokens[e + 1] \notin Operators \cup {"(", ")"}
            /\ tokens[(e + 1) + 1] \notin Operators \cup {"(", ")"}
        <4>1. cur(stream) \notin Operators \cup {"(", ")"} /\ cur(name) \notin Operators \cup {"(", ")"}
          BY <1>1, <1>6 DEF Members, Operators
        <4> QED BY <3>1, <4>1 DEF cur
      <3> HIDE DEF a, e
      <3>5. Closed(a, e + 1) /\ Outer(a, e + 1) = {}
        BY <3>1, <3>2, <3>3, <3>4, TokenMore DEF Phrase
      <3> DEFINE f == e + 1
      <3>6. f \in Int /\ Closed(a, f) /\ Outer(a, f) = {} /\ tokens[f + 1] \notin Operators \cup {"(", ")"}
        BY <3>1, <3>4, <3>5
      <3> HIDE DEF f
      <3>7. Closed(a, f + 1) /\ Outer(a, f + 1) = {}
        BY <3>1, <3>6, TokenMore
      <3>8. pos - 1 = f + 1
        BY <3>1 DEF f
      <3> QED BY <1>1, <3>7, <3>8, BackOperators DEF a
    <2>7. top.do \in ExprTasks /\ Begin(top, pos) = Begin(top, stream.pos)
      BY <1>1 DEF ExprTasks, Begin
    <2>8. pos = stream'.pos
      BY DEF pos
    <2> QED BY <1>1, <1>2, <1>3, <2>1, <2>4, <2>6, <2>7, <2>8, SwapGroups
  <1> QED BY <1>5, <1>6

LEMMA StepGroups ==
  ASSUME Built, Stacked, Grouped, [Next]_parserVars
  PROVE  Stacked' /\ Grouped'
  <1>1. ASSUME \/ Parse \/ AddDeclaration \/ ParseDeclaration \/ ParseDeclarator \/ EndVarDecl
               \/ ParseParameter \/ ParseFunctionBody \/ EndFunction \/ ParseRecordDecl
               \/ EndRecordDecl \/ SkipMember \/ ParseMember \/ EndMethod \/ ParseBlock
               \/ ParseStatements \/ AddStatement \/ EndBlock
        PROVE  Aside
    BY <1>1, ParseMoves, AddDeclarationMoves, ParseDeclarationMoves, ParseDeclaratorMoves,
       EndVarDeclMoves, ParseParameterMoves, ParseFunctionBodyMoves, EndFunctionMoves,
       ParseRecordDeclMoves, EndRecordDeclMoves, SkipMemberMoves, ParseMemberMoves,
       EndMethodMoves, ParseBlockMoves, ParseStatementsMoves, AddStatementMoves, EndBlockMoves
  <1>2. ASSUME \/ ParseReturn \/ EndReturn \/ ParseBlockStatement \/ ParseConditional
               \/ EndCondition \/ ParseElse \/ EndConditional \/ ParseDeclStatement
               \/ EndDeclStatement \/ ParseExprStatement \/ EndExprStatement
        PROVE  Aside
    BY <1>2, ParseReturnMoves, EndReturnMoves, ParseBlockStatementMoves, ParseConditionalMoves,
       EndConditionMoves, ParseElseMoves, EndConditionalMoves, ParseDeclStatementMoves,
       EndDeclStatementMoves, ParseExprStatementMoves, EndExprStatementMoves
  <1>3. ASSUME \/ ParseHelper \/ ParsePrimary \/ EndParenthesis \/ EndOperators
               \/ ParseOperator \/ EndOperand \/ ParseMemberAccess
        PROVE  Stacked' /\ Grouped'
    BY <1>3, ParseHelperGroups, ParsePrimaryGroups, EndParenthesisGroups, EndOperatorsGroups,
       ParseOperatorGroups, EndOperandGroups, ParseMemberAccessGroups
  <1>4. CASE UNCHANGED parserVars
    <2>1. tokens' = tokens /\ stream' = stream /\ tasks' = tasks /\ nodes' = nodes
      BY <1>4 DEF parserVars
    <2>2. Stacked'
      BY <2>1 DEF Stacked, Above, Behind, Begin, Prec
    <2>3. Grouped'
      <3>1. CASE tasks = << >>
        <4>1. ASSUME stream.errors = {} PROVE \A n \in DOMAIN nodes' : RootOf(nodes[n])'
          <5>1. \A n \in DOMAIN nodes' : RootOf(nodes'[n])
            BY <2>1, <4>1 DEF Grouped
          <5>2. tokens' = tokens
            BY <2>1
          <5> QED BY ONLY <5>1, <5>2 DEF RootOf, OuterOperators, Depth
        <4>2. DOMAIN tasks' = {}
          BY <2>1, <3>1
        <4> QED BY <2>1, <3>1, <4>1, <4>2 DEF Grouped
      <3>2. CASE tasks # << >>
        <4>1. stream.errors = {} =>
                 /\ \A n \in DOMAIN nodes : RootOf(nodes[n])
                 /\ Back(top, tasks[2], stream.pos)
          BY <3>2 DEF Grouped
        <4>2. top' = top
          BY <2>1 DEF top
        <4> QED BY <2>1, <3>2, <4>1, <4>2, GroupedAgain
      <3> QED BY <3>1, <3>2
    <2> QED BY <2>2, <2>3
  <1> QED BY <1>1, <1>2, <1>3, <1>4, AsideGroups DEF Next

LEMMA InitGroups ==
  ASSUME Init
  PROVE  Stacked /\ Grouped
  <1> DEFINE t == Call("parse")
  <1>1. /\ tasks = <<t>> /\ nodes = << >> /\ t.do = "parse"
    BY DEF Init, Call, Task
  <1> HIDE DEF t
  <1>2. /\ Len(tasks) = 1 /\ DOMAIN tasks = {1} /\ tasks[1] = t /\ top = t /\ DOMAIN nodes = {}
    BY <1>1 DEF top
  <1>3. Stacked
    BY <1>2 DEF Stacked
  <1>4. Waits(t) /\ Back(t, tasks[2], stream.pos)
    BY <1>1 DEF Waits, Back
  <1>5. Grouped
    BY <1>2, <1>4 DEF Grouped
  <1> QED BY <1>3, <1>5

(* In an expression that is read without an error the operator at the root *)
(* is the last of the weakest ones outside of parentheses, however deep    *)
(* the expression is nested and however long it is.                        *)
THEOREM PrecedenceIsKept == Spec => []PrecedenceKept
  <1>1. Init => Built /\ Stacked /\ Grouped
    BY InitBuilt, InitGroups
  <1>2. (Built /\ Stacked /\ Grouped) /\ [Next]_parserVars => (Built /\ Stacked /\ Grouped)'
    BY StepKeeps, StepGroups
  <1>3. Grouped => PrecedenceKept
    <2> SUFFICES ASSUME Grouped, Accepted, NEW n \in ToSet(nodes)
                 PROVE  RootOf(n)
      BY DEF PrecedenceKept, RootOf
    <2>1. PICK i \in DOMAIN nodes : n = nodes[i]
      BY DEF ToSet
    <2> QED BY <2>1 DEF Grouped, Accepted
  <1> QED BY <1>1, <1>2, <1>3, PTL DEF Spec

-----------------------------------------------------------------------------
(* Parsing takes its time.  What a function or a turn of a loop has still  *)
(* to do before it consumes a token is bounded, and so is what it leaves   *)
(* for its caller; every token pays for 13 steps.                          *)
Work(do) ==
  CASE do = "condition" -> 14
    [] do = "parameter" -> 11
    [] do = "functionBody" -> 10
    [] do \in {"declarator", "initializer", "endFunction", "statements", "endReturn",
               "else", "endIf", "endWhile", "operand"} -> 8
    [] do \in {"parse", "statement"} -> 5
    [] do = "helper" -> 3
    [] do \in {"declaration", "addDeclaration", "addStatement", "endMethod"} -> 2
    [] OTHER -> 1

(* A function that returns a node has consumed a token, and saved some of  *)
(* it for its caller, which may be a loop that starts over.  At the end of *)
(* the file the loops start over no more.                                  *)
Saved(r, next) == IF r # Null /\ next # "eof" THEN 7 ELSE 0
Worth(do, r, next) ==
  CASE do \in Readers -> Work(do) + Saved(r, next)
    [] do \in {"parse", "statements"} /\ next = "eof" -> 1
    [] OTHER -> Work(do)
Coming == cur(stream)
Now == Worth(top.do, ret, Coming)

(* Spec with a memory, which holds no step back: the steps taken so far.   *)
VARIABLE steps

countVars == <<parserVars, steps>>
CountInit == Init /\ steps = 0
CountNext == Next /\ steps' = steps + 1
CountSpec == CountInit /\ [][CountNext]_countVars

(* What the tokens up to here have paid for.                              *)
Credit(pos) == 13 * pos

(* owed[h]: what the lowest h tasks have still to do.                      *)
Owed(owed) ==
  /\ owed[0] = 0
  /\ \A h \in 1..(Len(tasks) - 1) :
       owed[h] = owed[h - 1] + Work(tasks[Len(tasks) + 1 - h].do)
  /\ \A h \in 0..(Len(tasks) - 1) : h <= owed[h]
  /\ tasks = << >> => steps <= Credit(stream.pos)
  /\ tasks # << >> => steps + Now + owed[Len(tasks) - 1] <= Credit(stream.pos)

(* Every call of parseBlock is made in front of a brace.                   *)
Brace == "{"
BlockOpens == tasks # << >> /\ top.do = "block" => Coming = Brace

Paid ==
  /\ steps \in Nat
  /\ \E owed \in [Nat -> Nat] : Owed(owed)
  /\ BlockOpens

(* What a step does with the list of tasks, and that the tokens it has     *)
(* consumed pay for it.                                                    *)
Onward(s, u) == u \in Streams /\ s.pos <= u.pos
Ahead(s, u) == u \in Streams /\ s.pos < u.pos
Gain == Credit(stream'.pos) - Credit(stream.pos)

Called(c, r) ==
  \E call, rest : tasks' = <<call, rest>> \o Tail(tasks) /\ call.do = c /\ rest.do = r
Turned(r) == \E rest : tasks' = <<rest>> \o Tail(tasks) /\ rest.do = r
Returned == tasks' = << >> \o Tail(tasks)

PaysCall(c, r) ==
  /\ Called(c, r) /\ c \in {"declaration", "block", "statement", "helper", "primary"}
  /\ Work(c) + Work(r) + 1 <= Gain + Now
  /\ c = "block" => Coming' = Brace
PaysTurn(r) ==
  /\ Turned(r) /\ r \notin Readers
  /\ Worth(r, ret', Coming') + 1 <= Gain + Now
  /\ r = "block" => Coming' = Brace
PaysOperators ==
  Turned("operators") /\ Work("operators") + Saved(ret', Coming') + 1 <= Gain + Now
PaysReturn == Returned /\ Saved(ret', Coming') + 1 <= Gain + Now
Pays ==
  /\ tasks # << >> /\ tokens' = tokens /\ Onward(stream, stream')
  /\ \/ \E c, r : PaysCall(c, r)
     \/ \E r : PaysTurn(r)
     \/ PaysOperators
     \/ PaysReturn

LEMMA Credits ==
  /\ \A p \in Nat : Credit(p) \in Nat
  /\ \A p, q \in Nat : p <= q => Credit(q) - Credit(p) \in Nat
  /\ \A p, q \in Nat : p < q => Credit(q) - Credit(p) >= 13
  BY DEF Credit

LEMMA WorkIs ==
  /\ Work("condition") = 14 /\ Work("parameter") = 11 /\ Work("functionBody") = 10
  /\ Work("declarator") = 8 /\ Work("initializer") = 8 /\ Work("endFunction") = 8
  /\ Work("statements") = 8 /\ Work("endReturn") = 8 /\ Work("else") = 8
  /\ Work("endIf") = 8 /\ Work("endWhile") = 8 /\ Work("operand") = 8
  /\ Work("parse") = 5 /\ Work("statement") = 5 /\ Work("helper") = 3
  /\ Work("declaration") = 2 /\ Work("addDeclaration") = 2 /\ Work("addStatement") = 2
  /\ Work("endMethod") = 2 /\ Work("record") = 1 /\ Work("member") = 1 /\ Work("block") = 1
  /\ Work("endDeclStatement") = 1 /\ Work("endExprStatement") = 1 /\ Work("primary") = 1
  /\ Work("parenthesis") = 1 /\ Work("operators") = 1
  BY DEF Work

LEMMA WorkRange ==
  ASSUME NEW do
  PROVE  Work(do) \in 1..14
  BY DEF Work

LEMMA SavedRange ==
  ASSUME NEW r, NEW next
  PROVE  /\ Saved(r, next) \in {0, 7}
         /\ Saved(r, next) = 7 <=> r # Null /\ next # "eof"
  BY DEF Saved

LEMMA WorthIs ==
  ASSUME NEW do, NEW r, NEW next
  PROVE  /\ do \in Readers => Worth(do, r, next) = Work(do) + Saved(r, next)
         /\ do \notin Readers \cup {"parse", "statements"} => Worth(do, r, next) = Work(do)
         /\ do \in {"parse", "statements"} => Worth(do, r, next) = IF next = "eof" THEN 1 ELSE Work(do)
         /\ Worth(do, r, next) \in Nat /\ Worth(do, r, next) >= 1
  <1>1. do \in {"parse", "statements"} => do \notin Readers
    BY DEF Readers, Conditionals
  <1>2. Work(do) \in 1..14 /\ Saved(r, next) \in {0, 7}
    BY WorkRange, SavedRange
  <1> HIDE DEF Readers
  <1>3. /\ do \in Readers => Worth(do, r, next) = Work(do) + Saved(r, next)
        /\ do \notin Readers \cup {"parse", "statements"} => Worth(do, r, next) = Work(do)
        /\ do \in {"parse", "statements"} => Worth(do, r, next) = IF next = "eof" THEN 1 ELSE Work(do)
    BY <1>1 DEF Worth
  <1>4. CASE do \in Readers
    BY <1>1, <1>2, <1>3, <1>4
  <1>5. CASE do \in {"parse", "statements"}
    BY <1>2, <1>3, <1>5
  <1>6. CASE do \notin Readers \cup {"parse", "statements"}
    BY <1>2, <1>3, <1>6
  <1> QED BY <1>3, <1>4, <1>5, <1>6

LEMMA NowIs ==
  /\ top.do \in Readers => Now = Work(top.do) + Saved(ret, Coming)
  /\ top.do \notin Readers \cup {"parse", "statements"} => Now = Work(top.do)
  /\ top.do \in {"parse", "statements"} => Now = IF Coming = "eof" THEN 1 ELSE Work(top.do)
  BY WorthIs DEF Now

LEMMA Restacked ==
  ASSUME Typed, tasks # << >>
  PROVE  /\ \A call, rest : tasks' = <<call, rest>> \o Tail(tasks) =>
              /\ tasks' # << >> /\ top' = call /\ Len(tasks') = Len(tasks) + 1
              /\ tasks'[2] = rest
              /\ \A i \in 3..Len(tasks') : tasks'[i] = tasks[i - 1]
         /\ \A rest : tasks' = <<rest>> \o Tail(tasks) =>
              /\ tasks' # << >> /\ top' = rest /\ Len(tasks') = Len(tasks)
              /\ \A i \in 2..Len(tasks') : tasks'[i] = tasks[i]
  <1>1. tasks \in Seq(Tasks)
    BY DEF Typed
  <1> HIDE DEF Tasks
  <1>2. ASSUME NEW call, NEW rest, tasks' = <<call, rest>> \o Tail(tasks)
        PROVE  /\ tasks' # << >> /\ top' = call /\ Len(tasks') = Len(tasks) + 1
               /\ tasks'[2] = rest
               /\ \A i \in 3..Len(tasks') : tasks'[i] = tasks[i - 1]
    <2> DEFINE S == Tasks \cup {call, rest}
    <2>1. tasks \in Seq(S) /\ call \in S /\ rest \in S
      BY <1>1
    <2> HIDE DEF S
    <2> QED BY <1>2, <2>1, Pushed DEF top
  <1>3. ASSUME NEW rest, tasks' = <<rest>> \o Tail(tasks)
        PROVE  /\ tasks' # << >> /\ top' = rest /\ Len(tasks') = Len(tasks)
               /\ \A i \in 2..Len(tasks') : tasks'[i] = tasks[i]
    <2> DEFINE S == Tasks \cup {rest}
    <2>1. tasks \in Seq(S) /\ rest \in S
      BY <1>1
    <2> HIDE DEF S
    <2> QED BY <1>3, <2>1, Swapped DEF top
  <1> QED BY <1>2, <1>3

LEMMA PaidFor ==
  ASSUME Typed, tasks # << >>, Paid, Onward(stream, stream')
  PROVE  /\ stream.pos \in Nat /\ stream'.pos \in Nat /\ steps \in Nat
         /\ Credit(stream.pos) \in Nat /\ Credit(stream'.pos) \in Nat
         /\ Gain = Credit(stream'.pos) - Credit(stream.pos) /\ Gain \in Nat
         /\ Len(tasks) \in Nat \ {0} /\ Now \in Nat
  <1>1. Len(tokens) \in Nat \ {0} /\ stream \in Streams /\ stream' \in Streams
    BY TokensShape DEF Typed, Onward
  <1>2. stream.pos \in Nat /\ stream'.pos \in Nat
    BY <1>1 DEF Streams, Positions
  <1>3. stream.pos <= stream'.pos
    BY DEF Onward
  <1>4. Len(tasks) \in Nat \ {0}
    BY Shapes
  <1>5. Now \in Nat
    BY WorthIs DEF Now
  <1>6. steps \in Nat
    BY DEF Paid
  <1> QED BY <1>2, <1>3, <1>4, <1>5, <1>6, Credits DEF Gain

LEMMA Overwritten ==
  ASSUME NEW f \in [Nat -> Nat], NEW n \in Nat, NEW v \in Nat
  PROVE  \E g \in [Nat -> Nat] : g[n] = v /\ \A h \in Nat : h # n => g[h] = f[h]
  <1> DEFINE g == [f EXCEPT ![n] = v]
  <1>1. /\ g \in [Nat -> Nat] /\ g[n] = v
        /\ \A h \in Nat : h # n => g[h] = f[h]
    OBVIOUS
  <1> HIDE DEF g
  <1> QED BY <1>1

LEMMA CallPaid ==
  ASSUME Built, tasks # << >>, Paid, steps' = steps + 1, tokens' = tokens,
         Onward(stream, stream'), NEW c, NEW r, PaysCall(c, r)
  PROVE  Paid'
  <1>1. PICK call, rest : /\ tasks' = <<call, rest>> \o Tail(tasks)
                          /\ call.do = c /\ rest.do = r
    BY DEF PaysCall, Called
  <1>2. PICK owed \in [Nat -> Nat] : Owed(owed)
    BY DEF Paid
  <1> DEFINE n == Len(tasks)
  <1>3. Typed /\ n \in Nat \ {0} /\ n - 1 \in Nat /\ Work(r) \in 1..14 /\ Work(c) \in 1..14
    <2>1. Typed
      BY DEF Built
    <2>2. n \in Nat \ {0}
      BY <2>1, PaidFor
    <2> QED BY ONLY <2>1, <2>2, WorkRange
  <1> HIDE DEF n
  <1>4. PICK more \in [Nat -> Nat] : /\ more[n] = owed[n - 1] + Work(r)
                                     /\ \A h \in Nat : h # n => more[h] = owed[h]
    <2>1. n \in Nat /\ n - 1 \in Nat /\ Work(r) \in Nat
      BY ONLY <1>3
    <2>2. owed[n - 1] \in Nat
      BY <1>2, <2>1
    <2>3. owed[n - 1] + Work(r) \in Nat
      BY ONLY <2>1, <2>2
    <2> DEFINE v == owed[n - 1] + Work(r)
    <2>4. v \in Nat
      BY <2>3
    <2> HIDE DEF v
    <2>5. \E g \in [Nat -> Nat] : g[n] = v /\ \A h \in Nat : h # n => g[h] = owed[h]
      <3>1. owed \in [Nat -> Nat]
        BY <1>2
      <3>2. n \in Nat
        BY <2>1
      <3>3. \A k, w \in Nat : \E g \in [Nat -> Nat] : g[k] = w /\ \A h \in Nat : h # k => g[h] = owed[h]
        BY ONLY <3>1, Overwritten
      <3> QED BY ONLY <2>4, <3>2, <3>3, Zenon
    <2>6. PICK g \in [Nat -> Nat] : g[n] = v /\ \A h \in Nat : h # n => g[h] = owed[h]
      BY <2>5
    <2>7. g[n] = owed[n - 1] + Work(r)
      BY ONLY <2>6 DEF v
    <2> QED BY ONLY <2>6, <2>7
  <1>5. /\ tasks' # << >> /\ top' = call /\ Len(tasks') = n + 1 /\ tasks'[2] = rest
        /\ \A i \in 3..(n + 1) : tasks'[i] = tasks[i - 1]
    BY <1>1, <1>3, Restacked DEF n
  <1>6. ASSUME NEW h \in 1..((n + 1) - 1)
        PROVE  more[h] = more[h - 1] + Work(tasks'[(n + 1) + 1 - h].do)
    <2>1. CASE h = n
      <3>1. (n + 1) + 1 - h = 2 /\ h - 1 # n /\ h - 1 \in Nat
        BY <1>3, <2>1
      <3> QED BY <1>1, <1>4, <1>5, <2>1, <3>1
    <2>2. CASE h # n
      <3>1. /\ h \in 1..(n - 1) /\ h - 1 # n /\ h - 1 \in Nat /\ h \in Nat
            /\ (n + 1) + 1 - h \in 3..(n + 1) /\ (n + 1) + 1 - h - 1 = n + 1 - h
        BY <1>3, <2>2
      <3>2. tasks'[(n + 1) + 1 - h] = tasks[n + 1 - h]
        <4> DEFINE k == (n + 1) + 1 - h
        <4>1. k \in 3..(n + 1) /\ k - 1 = n + 1 - h
          BY ONLY <1>3, <3>1
        <4> HIDE DEF k
        <4>2. tasks'[k] = tasks[n + 1 - h]
          BY ONLY <1>5, <4>1, Zenon
        <4> QED BY <4>2 DEF k
      <3>3. owed[h] = owed[h - 1] + Work(tasks[n + 1 - h].do)
        BY <1>2, <3>1 DEF Owed, n
      <3> QED BY <1>4, <2>2, <3>1, <3>2, <3>3
    <2> QED BY <2>1, <2>2
  <1>7. \A h \in 0..((n + 1) - 1) : h <= more[h]
    <2>1. \A h \in 0..(n - 1) : h <= owed[h]
      BY <1>2 DEF Owed, n
    <2>2. n - 1 <= owed[n - 1] /\ owed[n - 1] \in Nat
      <3>1. n - 1 \in 0..(n - 1) /\ n - 1 \in Nat
        BY ONLY <1>3
      <3>2. n - 1 <= owed[n - 1]
        BY ONLY <2>1, <3>1
      <3> QED BY <1>2, <3>1, <3>2
    <2>3. n <= more[n]
      BY ONLY <1>3, <1>4, <2>2
    <2>4. \A h \in 0..((n + 1) - 1) : h # n => h \in 0..(n - 1) /\ h \in Nat
      BY <1>3
    <2> QED BY <1>4, <2>1, <2>3, <2>4
  <1>8. Now' = Work(c)
    <2>1. c \notin Readers \cup {"parse", "statements"}
      BY DEF PaysCall, Readers, Conditionals
    <2>2. Now' = Worth(c, ret', Coming')
      BY <1>1, <1>5 DEF Now
    <2> QED BY <2>1, <2>2, WorthIs
  <1>9. (steps + 1) + Now' + more[n] <= Credit(stream'.pos)
    <2>1. steps + Now + owed[n - 1] <= Credit(stream.pos) /\ owed[n - 1] \in Nat
      BY <1>2, <1>3 DEF Owed, n
    <2>2. Work(c) + Work(r) + 1 <= Gain + Now
      BY DEF PaysCall
    <2>3. /\ stream.pos \in Nat /\ stream'.pos \in Nat /\ steps \in Nat /\ Now \in Nat
          /\ Credit(stream.pos) \in Nat /\ Credit(stream'.pos) \in Nat
          /\ Gain = Credit(stream'.pos) - Credit(stream.pos)
      BY <1>3, PaidFor
    <2> QED BY ONLY <1>3, <1>4, <1>8, <2>1, <2>2, <2>3
  <1>10. more[0] = 0
    BY <1>2, <1>3, <1>4 DEF Owed
  <1>11. Owed(more)'
    <2>1. Len(tasks') - 1 = n /\ (n + 1) - 1 = n
      BY <1>3, <1>5
    <2>2. \A h \in 1..(Len(tasks') - 1) :
            more[h] = more[h - 1] + Work(tasks'[Len(tasks') + 1 - h].do)
      BY ONLY <1>5, <1>6
    <2>3. \A h \in 0..(Len(tasks') - 1) : h <= more[h]
      BY ONLY <1>5, <1>7
    <2>4. tasks' # << >> /\ steps' + Now' + more[Len(tasks') - 1] <= Credit(stream'.pos)
      BY <1>5, <1>9, <2>1
    <2> QED BY ONLY <1>10, <2>2, <2>3, <2>4 DEF Owed
  <1>12. BlockOpens'
    BY <1>1, <1>5 DEF BlockOpens, PaysCall
  <1>13. steps' \in Nat
    BY DEF Paid
  <1> QED BY <1>4, <1>11, <1>12, <1>13 DEF Paid

LEMMA TurnPaid ==
  ASSUME Built, tasks # << >>, Paid, steps' = steps + 1, tokens' = tokens,
         Onward(stream, stream'), NEW r, Turned(r),
         Worth(r, ret', Coming') + 1 <= Gain + Now,
         r = "block" => Coming' = Brace
  PROVE  Paid'
  <1>1. PICK rest : tasks' = <<rest>> \o Tail(tasks) /\ rest.do = r
    BY DEF Turned
  <1>2. PICK owed \in [Nat -> Nat] : Owed(owed)
    BY DEF Paid
  <1> DEFINE n == Len(tasks)
  <1>3. Typed /\ n \in Nat \ {0} /\ n - 1 \in Nat
    <2>1. Typed
      BY DEF Built
    <2>2. n \in Nat \ {0}
      BY <2>1, PaidFor
    <2> QED BY ONLY <2>1, <2>2
  <1>4. /\ tasks' # << >> /\ top' = rest /\ Len(tasks') = n
        /\ \A i \in 2..n : tasks'[i] = tasks[i]
    BY <1>1, <1>3, Restacked
  <1> HIDE DEF n
  <1>5. ASSUME NEW h \in 1..(n - 1)
        PROVE  owed[h] = owed[h - 1] + Work(tasks'[n + 1 - h].do)
    <2>1. n + 1 - h \in 2..n
      BY <1>3
    <2> QED BY <1>2, <1>4, <2>1 DEF Owed, n
  <1>6. (steps + 1) + Now' + owed[n - 1] <= Credit(stream'.pos)
    <2>1. steps + Now + owed[n - 1] <= Credit(stream.pos) /\ owed[n - 1] \in Nat
      BY <1>2, <1>3 DEF Owed, n
    <2>2. Now' = Worth(r, ret', Coming')
      BY <1>1, <1>4 DEF Now
    <2>3. Now' \in Nat
      BY <2>2, WorthIs
    <2>4. /\ stream.pos \in Nat /\ stream'.pos \in Nat /\ steps \in Nat /\ Now \in Nat
          /\ Credit(stream.pos) \in Nat /\ Credit(stream'.pos) \in Nat
          /\ Gain = Credit(stream'.pos) - Credit(stream.pos)
      BY <1>3, PaidFor
    <2>5. Now' + 1 <= Gain + Now
      BY <2>2
    <2> QED BY ONLY <1>3, <2>1, <2>3, <2>4, <2>5
  <1>7. Owed(owed)'
    BY <1>2, <1>4, <1>5, <1>6 DEF Owed, n
  <1>8. BlockOpens'
    BY <1>1, <1>4 DEF BlockOpens
  <1>9. steps' \in Nat
    BY DEF Paid
  <1> QED BY <1>7, <1>8, <1>9 DEF Paid

LEMMA BelowTop ==
  ASSUME Built
  PROVE  2 \in DOMAIN tasks => tasks[2].do \in Readers
  <1>1. \A i \in DOMAIN tasks : i # 1 => tasks[i].do \in Readers
    BY DEF Built, Line
  <1> QED BY ONLY <1>1

LEMMA ReturnPaid ==
  ASSUME Built, tasks # << >>, Paid, steps' = steps + 1, tokens' = tokens,
         Onward(stream, stream'), PaysReturn
  PROVE  Paid'
  <1>1. PICK owed \in [Nat -> Nat] : Owed(owed)
    BY DEF Paid
  <1> DEFINE n == Len(tasks)
  <1>2. Typed /\ n \in Nat \ {0} /\ n - 1 \in Nat
    <2>1. Typed
      BY DEF Built
    <2>2. n \in Nat \ {0}
      BY <2>1, PaidFor
    <2> QED BY ONLY <2>1, <2>2
  <1>3. /\ Len(tasks') = n - 1 /\ (tasks' # << >> <=> n > 1)
        /\ tasks' # << >> => top' = tasks[2]
        /\ \A i \in 1..(n - 1) : tasks'[i] = tasks[i + 1]
    BY <1>2, OnPop DEF PaysReturn, Returned
  <1>4. DOMAIN tasks = 1..n
    BY <1>2, Shapes
  <1>5. \A h \in 1..(n - 1) : owed[h] = owed[h - 1] + Work(tasks[n + 1 - h].do)
    BY <1>1 DEF Owed
  <1>6. /\ owed[0] = 0 /\ \A h \in 0..(n - 1) : h <= owed[h]
        /\ steps + Now + owed[n - 1] <= Credit(stream.pos)
    BY <1>1 DEF Owed
  <1> HIDE DEF n
  <1>7. ASSUME NEW h \in 1..((n - 1) - 1)
        PROVE  owed[h] = owed[h - 1] + Work(tasks'[(n - 1) + 1 - h].do)
    <2>1. h \in 1..(n - 1) /\ (n - 1) + 1 - h \in 1..(n - 1) /\ (n - 1) + 1 - h + 1 = n + 1 - h
      BY <1>2
    <2> QED BY <1>3, <1>5, <2>1
  <1>8. \A h \in 0..((n - 1) - 1) : h <= owed[h]
    BY <1>2, <1>6
  <1>9. /\ stream.pos \in Nat /\ stream'.pos \in Nat /\ steps \in Nat /\ Now \in Nat
        /\ Credit(stream.pos) \in Nat /\ Credit(stream'.pos) \in Nat
        /\ Gain = Credit(stream'.pos) - Credit(stream.pos)
        /\ Saved(ret', Coming') + 1 <= Gain + Now /\ Saved(ret', Coming') \in Nat
        /\ owed[n - 1] \in Nat
    <2>1. Saved(ret', Coming') + 1 <= Gain + Now /\ Saved(ret', Coming') \in {0, 7}
      BY SavedRange DEF PaysReturn
    <2>2. owed \in [Nat -> Nat] /\ n - 1 \in Nat
      BY <1>1, <1>2
    <2>3. owed[n - 1] \in Nat
      BY ONLY <2>2
    <2>4. /\ stream.pos \in Nat /\ stream'.pos \in Nat /\ steps \in Nat /\ Now \in Nat
          /\ Credit(stream.pos) \in Nat /\ Credit(stream'.pos) \in Nat
          /\ Gain = Credit(stream'.pos) - Credit(stream.pos)
      BY <1>2, PaidFor
    <2> QED BY ONLY <2>1, <2>3, <2>4
  <1>10. tasks' = << >> => steps + 1 <= Credit(stream'.pos)
    BY ONLY <1>2, <1>6, <1>9
  <1>11. ASSUME tasks' # << >>
         PROVE  (steps + 1) + Now' + owed[(n - 1) - 1] <= Credit(stream'.pos)
    <2>1. n > 1 /\ top' = tasks[2] /\ 2 \in 1..n /\ n - 1 \in 1..(n - 1)
          /\ n + 1 - (n - 1) = 2 /\ (n - 1) - 1 \in Nat
      BY <1>2, <1>3, <1>11
    <2>2. tasks[2].do \in Readers
      BY <1>4, <2>1, BelowTop
    <2>3. Now' = Work(tasks[2].do) + Saved(ret', Coming')
      BY <2>1, <2>2, WorthIs DEF Now
    <2>4. owed[n - 1] = owed[(n - 1) - 1] + Work(tasks[2].do)
      BY <1>5, <2>1
    <2>5. Work(tasks[2].do) \in 1..14 /\ owed[(n - 1) - 1] \in Nat
      BY <1>1, <2>1, WorkRange
    <2> QED BY ONLY <1>2, <1>6, <1>9, <2>1, <2>3, <2>4, <2>5
  <1>12. Owed(owed)'
    BY <1>3, <1>6, <1>7, <1>8, <1>10, <1>11 DEF Owed
  <1>13. BlockOpens'
    <2>1. ASSUME tasks' # << >>
          PROVE  top'.do # "block"
      <3>1. top' = tasks[2] /\ 2 \in 1..n
        BY <1>2, <1>3, <2>1
      <3>2. tasks[2].do \in Readers
        BY <1>4, <3>1, BelowTop
      <3> QED BY <3>1, <3>2 DEF Readers, Conditionals
    <2> QED BY <2>1 DEF BlockOpens
  <1>14. steps' \in Nat
    BY DEF Paid
  <1> QED BY <1>12, <1>13, <1>14 DEF Paid

LEMMA PaysKeeps ==
  ASSUME Built, Paid, Pays, steps' = steps + 1
  PROVE  Paid'
  <1>1. /\ tasks # << >> /\ tokens' = tokens /\ Onward(stream, stream')
        /\ \/ \E c, r : PaysCall(c, r)
           \/ \E r : PaysTurn(r)
           \/ PaysOperators
           \/ PaysReturn
    BY DEF Pays
  <1>2. CASE \E c, r : PaysCall(c, r)
    BY <1>1, <1>2, CallPaid
  <1>3. CASE \E r : PaysTurn(r)
    <2>1. PICK r : PaysTurn(r)
      BY <1>3
    <2>2. /\ Turned(r) /\ Worth(r, ret', Coming') + 1 <= Gain + Now
          /\ r = "block" => Coming' = Brace
      BY <2>1 DEF PaysTurn
    <2> QED BY <1>1, <2>2, TurnPaid
  <1>4. CASE PaysOperators
    <2>1. "operators" \in Readers
      BY DEF Readers
    <2>2. Worth("operators", ret', Coming') = Work("operators") + Saved(ret', Coming')
      BY <2>1, WorthIs
    <2>3. Turned("operators") /\ Worth("operators", ret', Coming') + 1 <= Gain + Now
      BY <1>4, <2>2 DEF PaysOperators
    <2> QED BY <1>1, <2>3, TurnPaid
  <1>5. CASE PaysReturn
    BY <1>1, <1>5, ReturnPaid
  <1> QED BY <1>1, <1>2, <1>3, <1>4, <1>5

LEMMA Moving ==
  ASSUME tokens \in Inputs, NEW s \in Streams
  PROVE  /\ Onward(s, s) /\ Onward(s, error(s)) /\ Onward(s, advance(s))
         /\ \A kind : Onward(s, expect(s, kind))
         /\ \A kinds : Onward(s, FirstOf(s, kinds))
         /\ cur(s) # "eof" => Ahead(s, advance(s))
         /\ \A kind : cur(s) = kind /\ kind # "eof" => Ahead(s, expect(s, kind))
  <1>1. s.pos \in Int /\ s.pos <= s.pos
    BY DEF Streams, Positions
  <1>2. Onward(s, s) /\ Onward(s, error(s)) /\ Onward(s, advance(s))
    BY <1>1, Errors, Advances DEF Onward
  <1>3. cur(s) # "eof" => Ahead(s, advance(s))
    <2>1. cur(s) # "eof" => advance(s).pos = s.pos + 1 /\ advance(s) \in Streams
      BY Advances
    <2> QED BY <1>1, <2>1 DEF Ahead
  <1>4. \A kind : Onward(s, expect(s, kind))
    BY <1>2 DEF expect
  <1>5. \A kinds : Onward(s, FirstOf(s, kinds))
    BY Finds DEF Onward
  <1>6. \A kind : cur(s) = kind /\ kind # "eof" => Ahead(s, expect(s, kind))
    BY <1>3 DEF expect
  <1> QED BY <1>2, <1>3, <1>4, <1>5, <1>6

LEMMA MovingOn ==
  ASSUME NEW s \in Streams, NEW u, NEW v
  PROVE  /\ Onward(s, u) /\ Onward(u, v) => Onward(s, v)
         /\ Ahead(s, u) /\ Onward(u, v) => Ahead(s, v)
         /\ Onward(s, u) /\ Ahead(u, v) => Ahead(s, v)
         /\ Ahead(s, u) => Onward(s, u)
         /\ Onward(s, u) \/ Ahead(s, u) => u \in Streams
  BY DEF Onward, Ahead, Streams, Positions

LEMMA Gains ==
  ASSUME Built, tasks # << >>, tokens' = tokens
  PROVE  /\ Onward(stream, stream') => Gain \in Nat
         /\ Ahead(stream, stream') => Gain \in Nat /\ Gain >= 13
         /\ Onward(stream, stream') /\ Coming = "eof" => Coming' = "eof"
  <1>1. /\ tokens \in Inputs /\ stream \in Streams /\ stream.pos \in 1..Len(tokens)
        /\ Len(tokens) \in Nat \ {0}
    BY TopFacts
  <1>2. stream' \in Streams => stream'.pos \in 1..Len(tokens)
    BY DEF Streams, Positions
  <1>3. Onward(stream, stream') => Gain \in Nat
    <2>1. ASSUME Onward(stream, stream')
          PROVE  stream.pos \in Nat /\ stream'.pos \in Nat /\ stream.pos <= stream'.pos
      BY <1>1, <1>2, <2>1 DEF Onward
    <2> QED BY ONLY <2>1, Credits DEF Gain
  <1>4. Ahead(stream, stream') => Gain \in Nat /\ Gain >= 13
    <2>1. ASSUME Ahead(stream, stream')
          PROVE  /\ stream.pos \in Nat /\ stream'.pos \in Nat
                 /\ stream.pos < stream'.pos /\ stream.pos <= stream'.pos
      BY <1>1, <1>2, <2>1 DEF Ahead
    <2> QED BY ONLY <2>1, Credits DEF Gain
  <1>5. ASSUME Onward(stream, stream'), Coming = "eof"
        PROVE  Coming' = "eof"
    <2>1. \A k \in 1..Len(tokens) : tokens[k] = "eof" <=> k = Len(tokens)
      BY <1>1, TokensShape
    <2>2. stream.pos = Len(tokens)
      BY <1>1, <1>5, <2>1 DEF cur, Coming
    <2>3. stream'.pos = Len(tokens) /\ stream'.pos \in 1..Len(tokens)
      BY <1>1, <1>2, <1>5, <2>2 DEF Onward
    <2>4. tokens[stream'.pos] = "eof"
      BY <2>1, <2>3
    <2> QED BY <2>4 DEF cur, Coming
  <1> QED BY <1>3, <1>4, <1>5

LEMMA WorthTable ==
  ASSUME NEW r, NEW next
  PROVE  /\ Worth("declaration", r, next) = 2 /\ Worth("declarator", r, next) = 8
         /\ Worth("parameter", r, next) = 11 /\ Worth("functionBody", r, next) = 10
         /\ Worth("record", r, next) = 1 /\ Worth("member", r, next) = 1
         /\ Worth("block", r, next) = 1 /\ Worth("statement", r, next) = 5
         /\ Worth("helper", r, next) = 3 /\ Worth("primary", r, next) = 1
         /\ next = "eof" => Worth("parse", r, next) = 1 /\ Worth("statements", r, next) = 1
         /\ next # "eof" => Worth("parse", r, next) = 5 /\ Worth("statements", r, next) = 8
         /\ Worth("parse", r, next) \in {1, 5} /\ Worth("statements", r, next) \in {1, 8}
         /\ Worth("addDeclaration", r, next) = 2 + Saved(r, next)
         /\ Worth("addStatement", r, next) = 2 + Saved(r, next)
         /\ Worth("endMethod", r, next) = 2 + Saved(r, next)
         /\ Worth("initializer", r, next) = 8 + Saved(r, next)
         /\ Worth("endFunction", r, next) = 8 + Saved(r, next)
         /\ Worth("endReturn", r, next) = 8 + Saved(r, next)
         /\ Worth("condition", r, next) = 14 + Saved(r, next)
         /\ Worth("else", r, next) = 8 + Saved(r, next)
         /\ Worth("endIf", r, next) = 8 + Saved(r, next)
         /\ Worth("endWhile", r, next) = 8 + Saved(r, next)
         /\ Worth("endDeclStatement", r, next) = 1 + Saved(r, next)
         /\ Worth("endExprStatement", r, next) = 1 + Saved(r, next)
         /\ Worth("parenthesis", r, next) = 1 + Saved(r, next)
         /\ Worth("operators", r, next) = 1 + Saved(r, next)
         /\ Worth("operand", r, next) = 8 + Saved(r, next)
         /\ Saved(r, next) \in {0, 7} /\ (r = Null \/ next = "eof" => Saved(r, next) = 0)
         /\ r # Null /\ next # "eof" => Saved(r, next) = 7
  <1> DEFINE plain == {"declaration", "declarator", "parameter", "functionBody", "record", "member",
                       "block", "statement", "helper", "primary"}
             loops == {"parse", "statements"}
  <1>1. \A do \in plain : do \notin Readers \cup loops
    BY DEF Readers, Conditionals
  <1>2. \A do \in plain : Worth(do, r, next) = Work(do)
    BY <1>1, WorthIs
  <1>3. \A do \in loops : Worth(do, r, next) = IF next = "eof" THEN 1 ELSE Work(do)
    BY WorthIs
  <1>4. \A do \in Readers : Worth(do, r, next) = Work(do) + Saved(r, next)
    BY WorthIs
  <1>5. /\ Worth("declaration", r, next) = 2 /\ Worth("declarator", r, next) = 8
        /\ Worth("parameter", r, next) = 11 /\ Worth("functionBody", r, next) = 10
        /\ Worth("record", r, next) = 1 /\ Worth("member", r, next) = 1
        /\ Worth("block", r, next) = 1 /\ Worth("statement", r, next) = 5
        /\ Worth("helper", r, next) = 3 /\ Worth("primary", r, next) = 1
    BY ONLY <1>2, WorkIs
  <1>6. /\ next = "eof" => Worth("parse", r, next) = 1 /\ Worth("statements", r, next) = 1
        /\ next # "eof" => Worth("parse", r, next) = 5 /\ Worth("statements", r, next) = 8
        /\ Worth("parse", r, next) \in {1, 5} /\ Worth("statements", r, next) \in {1, 8}
    BY ONLY <1>3, WorkIs
  <1>7. /\ "addDeclaration" \in Readers /\ "addStatement" \in Readers /\ "endMethod" \in Readers
        /\ "initializer" \in Readers /\ "endFunction" \in Readers /\ "endReturn" \in Readers
        /\ "condition" \in Readers /\ "else" \in Readers /\ "endIf" \in Readers
        /\ "endWhile" \in Readers /\ "endDeclStatement" \in Readers
        /\ "endExprStatement" \in Readers /\ "parenthesis" \in Readers
        /\ "operators" \in Readers /\ "operand" \in Readers
    BY DEF Readers, Conditionals
  <1>8. /\ Worth("addDeclaration", r, next) = 2 + Saved(r, next)
        /\ Worth("addStatement", r, next) = 2 + Saved(r, next)
        /\ Worth("endMethod", r, next) = 2 + Saved(r, next)
        /\ Worth("initializer", r, next) = 8 + Saved(r, next)
        /\ Worth("endFunction", r, next) = 8 + Saved(r, next)
    BY ONLY <1>4, <1>7, WorkIs
  <1>9. /\ Worth("endReturn", r, next) = 8 + Saved(r, next)
        /\ Worth("condition", r, next) = 14 + Saved(r, next)
        /\ Worth("else", r, next) = 8 + Saved(r, next)
        /\ Worth("endIf", r, next) = 8 + Saved(r, next)
        /\ Worth("endWhile", r, next) = 8 + Saved(r, next)
    BY ONLY <1>4, <1>7, WorkIs
  <1>10. /\ Worth("endDeclStatement", r, next) = 1 + Saved(r, next)
         /\ Worth("endExprStatement", r, next) = 1 + Saved(r, next)
         /\ Worth("parenthesis", r, next) = 1 + Saved(r, next)
         /\ Worth("operators", r, next) = 1 + Saved(r, next)
         /\ Worth("operand", r, next) = 8 + Saved(r, next)
    BY ONLY <1>4, <1>7, WorkIs
  <1>11. /\ Saved(r, next) \in {0, 7} /\ (r = Null \/ next = "eof" => Saved(r, next) = 0)
         /\ r # Null /\ next # "eof" => Saved(r, next) = 7
    BY DEF Saved
  <1> HIDE DEF plain, loops
  <1> QED BY ONLY <1>5, <1>6, <1>8, <1>9, <1>10, <1>11

(* The three ways, as the actions state them.                              *)
LEMMA CallPays ==
  ASSUME Built, tasks # << >>, Onward(stream, stream'), NEW call, NEW rest, CallThen(call, rest),
         call.do \in {"declaration", "block", "statement", "helper", "primary"},
         Work(call.do) + Work(rest.do) + 1 <= Gain + Now,
         call.do = "block" => Coming' = Brace
  PROVE  Pays
  <1>1. tokens' = tokens /\ Called(call.do, rest.do)
    BY DEF CallThen, Continue, Called
  <1>2. PaysCall(call.do, rest.do)
    BY <1>1 DEF PaysCall
  <1> QED BY <1>1, <1>2 DEF Pays

LEMMA TurnPays ==
  ASSUME Built, tasks # << >>, Onward(stream, stream'), NEW rest, Continue(<<rest>>),
         rest.do \notin Readers, Worth(rest.do, ret', Coming') + 1 <= Gain + Now,
         rest.do = "block" => Coming' = Brace
  PROVE  Pays
  <1>1. tokens' = tokens /\ Turned(rest.do)
    BY DEF Continue, Turned
  <1>2. PaysTurn(rest.do)
    BY <1>1 DEF PaysTurn
  <1> QED BY <1>1, <1>2 DEF Pays

LEMMA ReturnPays ==
  ASSUME Built, tasks # << >>, Onward(stream, stream'), Continue(<< >>),
         Saved(ret', Coming') + 1 <= Gain + Now
  PROVE  Pays
  <1>1. tokens' = tokens /\ Returned
    BY DEF Continue, Returned
  <1>2. PaysReturn
    BY <1>1 DEF PaysReturn
  <1> QED BY <1>1, <1>2 DEF Pays

LEMMA DoIs ==
  ASSUME Built, tasks # << >>
  PROVE  /\ \A do : Call(do).do = do
         /\ \A prec : CallHelper(prec).do = "helper"
         /\ \A do, kids : Then(do, kids).do = do
         /\ stream \in Streams /\ tokens \in Inputs
         /\ Onward(stream, stream)
  <1>1. top \in Tasks /\ stream \in Streams /\ tokens \in Inputs
    BY TopFacts
  <1>2. \A do, kids : Then(do, kids).do = do
    BY <1>1 DEF Then, Tasks
  <1> QED BY <1>1, <1>2, Moving DEF Call, CallHelper, Task

LEMMA ParsePays ==
  ASSUME Built, Parse
  PROVE  Pays
  <1>1. tasks # << >> /\ top.do = "parse" /\ stream' = stream
    BY DEF Parse, Doing
  <1>2. Onward(stream, stream')
    BY <1>1, DoIs
  <1>3. CASE cur(stream) = "eof"
    <2>1. Continue(<< >>) /\ tokens' = tokens
      BY <1>3 DEF Parse, ReturnNew, Continue
    <2>2. Coming = "eof" /\ Coming' = "eof"
      BY <1>1, <1>2, <1>3, <2>1, Gains DEF Coming
    <2>3. Saved(ret', Coming') = 0 /\ Now = 1 /\ Gain \in Nat
      BY <1>1, <1>2, <2>1, <2>2, Gains, WorthTable DEF Now
    <2>4. Saved(ret', Coming') + 1 <= Gain + Now
      BY ONLY <2>3
    <2> QED BY <1>1, <1>2, <2>1, <2>4, ReturnPays
  <1>4. CASE cur(stream) # "eof"
    <2>1. CallThen(Call("declaration"), Then("addDeclaration", top.kids)) /\ tokens' = tokens
      BY <1>4 DEF Parse, CallThen, Continue
    <2>2. Call("declaration").do = "declaration"
          /\ Then("addDeclaration", top.kids).do = "addDeclaration"
      BY <1>1, DoIs
    <2>3. Now = 5 /\ Gain \in Nat
      BY <1>1, <1>2, <1>4, <2>1, Gains, WorthTable DEF Now, Coming
    <2>4. Work("declaration") + Work("addDeclaration") + 1 <= Gain + Now
      BY ONLY <2>3, WorkIs
    <2> QED BY <1>1, <1>2, <2>1, <2>2, <2>4, CallPays
  <1> QED BY <1>3, <1>4

LEMMA SynchronizingMoves ==
  ASSUME tokens \in Inputs, NEW s \in Streams, NEW isGlobal
  PROVE  /\ Onward(s, synchronize(s, isGlobal))
         /\ cur(s) # "eof" => Ahead(s, synchronize(s, isGlobal))
  <1> DEFINE found == FirstOf(advance(s), Boundaries(isGlobal))
  <1>1. Onward(s, advance(s)) /\ (cur(s) # "eof" => Ahead(s, advance(s)))
    BY Moving
  <1>2. advance(s) \in Streams
    BY <1>1 DEF Onward
  <1>3. Onward(advance(s), found)
    BY <1>2, Moving
  <1>4. synchronize(s, isGlobal) \in {found, advance(found)}
    BY DEF synchronize
  <1> HIDE DEF found
  <1>5. found \in Streams
    BY <1>3 DEF Onward
  <1>6. Onward(found, found) /\ Onward(found, advance(found))
    BY <1>5, Moving
  <1>7. Onward(advance(s), synchronize(s, isGlobal))
    BY <1>2, <1>3, <1>4, <1>6, MovingOn
  <1> QED BY <1>1, <1>7, MovingOn

(* The two loops that recover from errors start over.                      *)
LEMMA RecoveryPays ==
  ASSUME Built, tasks # << >>, top.do \in {"addDeclaration", "addStatement"}, NEW rest, GoOn(rest),
         rest.do \in {"parse", "statements"}, NEW isGlobal,
         stream' = IF ret = Null THEN synchronize(stream, isGlobal) ELSE stream
  PROVE  Pays
  <1>1. Continue(<<rest>>) /\ tokens' = tokens /\ ret' = ret
    BY DEF GoOn, Continue
  <1>2. Onward(stream, stream') /\ (ret = Null /\ Coming # "eof" => Ahead(stream, stream'))
    BY DoIs, SynchronizingMoves DEF Coming
  <1>3. /\ Gain \in Nat /\ (Coming = "eof" => Coming' = "eof")
        /\ ret = Null /\ Coming # "eof" => Gain >= 13
    BY <1>1, <1>2, Gains
  <1>4. Now = 2 + Saved(ret, Coming)
    BY WorthTable DEF Now
  <1>5. /\ Coming' = "eof" => Worth(rest.do, ret', Coming') = 1
        /\ Worth(rest.do, ret', Coming') \in {1, 5, 8}
    BY WorthTable
  <1>6. Saved(ret, Coming) \in {0, 7} /\ (ret # Null /\ Coming # "eof" => Saved(ret, Coming) = 7)
    BY SavedRange
  <1>7. Worth(rest.do, ret', Coming') + 1 <= Gain + Now
    BY ONLY <1>3, <1>4, <1>5, <1>6
  <1>8. rest.do \notin Readers /\ rest.do # "block"
    BY DEF Readers, Conditionals
  <1> QED BY <1>1, <1>2, <1>7, <1>8, TurnPays

LEMMA AddDeclarationPays ==
  ASSUME Built, AddDeclaration
  PROVE  Pays
  <1> DEFINE rest == Then("parse", With(top.kids, ret))
  <1>1. /\ tasks # << >> /\ top.do = "addDeclaration" /\ GoOn(rest)
        /\ stream' = IF ret = Null THEN synchronize(stream, TRUE) ELSE stream
    BY DEF AddDeclaration, Doing
  <1>2. rest.do = "parse"
    BY <1>1, DoIs
  <1> HIDE DEF rest
  <1> QED BY <1>1, <1>2, RecoveryPays

LEMMA AddStatementPays ==
  ASSUME Built, AddStatement
  PROVE  Pays
  <1> DEFINE rest == Then("statements", With(top.kids, ret))
  <1>1. /\ tasks # << >> /\ top.do = "addStatement" /\ GoOn(rest)
        /\ stream' = IF ret = Null THEN synchronize(stream, FALSE) ELSE stream
    BY DEF AddStatement, Doing
  <1>2. rest.do = "statements"
    BY <1>1, DoIs
  <1> HIDE DEF rest
  <1> QED BY <1>1, <1>2, RecoveryPays

(* A function that can pay for what it saves for its caller may return.    *)
LEMMA SolventReturn ==
  ASSUME Built, tasks # << >>, Onward(stream, stream'), Continue(<< >>),
         \/ Now >= 8
         \/ Ahead(stream, stream')
         \/ ret' = Null
         \/ Coming' = "eof"
  PROVE  Pays
  <1>1. tokens' = tokens
    BY DEF Continue
  <1>2. Gain \in Nat /\ (Ahead(stream, stream') => Gain >= 13) /\ Now \in Nat /\ Now >= 1
    BY <1>1, Gains, WorthIs DEF Now
  <1>3. Saved(ret', Coming') \in {0, 7} /\ (ret' = Null \/ Coming' = "eof" => Saved(ret', Coming') = 0)
    BY SavedRange DEF Null
  <1>4. Saved(ret', Coming') + 1 <= Gain + Now
    BY ONLY <1>2, <1>3, Now >= 8 \/ Ahead(stream, stream') \/ ret' = Null \/ Coming' = "eof"
  <1> QED BY <1>4, ReturnPays

(* A consumed token pays for whatever the function goes on with.           *)
LEMMA AheadTurns ==
  ASSUME Built, tasks # << >>, Ahead(stream, stream'), NEW rest, Continue(<<rest>>),
         rest.do \in {"declarator", "parameter", "functionBody", "member", "statements"}
  PROVE  Pays
  <1>1. Onward(stream, stream') /\ tokens' = tokens
    BY DoIs, MovingOn DEF Continue
  <1>2. Gain \in Nat /\ Gain >= 13 /\ Now \in Nat /\ Now >= 1
    BY <1>1, Gains, WorthIs DEF Now
  <1>3. Worth(rest.do, ret', Coming') \in {1, 8, 10, 11}
    BY WorthTable
  <1>4. Worth(rest.do, ret', Coming') + 1 <= Gain + Now
    BY ONLY <1>2, <1>3
  <1>5. rest.do \notin Readers /\ rest.do # "block"
    BY DEF Readers, Conditionals
  <1> QED BY <1>1, <1>4, <1>5, TurnPays

LEMMA ParseDeclarationPays ==
  ASSUME Built, ParseDeclaration
  PROVE  Pays
  <1> DEFINE named == advance(stream)
             after == advance(named)
  <1>1. tasks # << >> /\ top.do = "declaration" /\ stream \in Streams /\ tokens \in Inputs
    BY DoIs DEF ParseDeclaration, Doing
  <1>2. Now = 2
    BY <1>1, WorthTable DEF Now
  <1>3. CASE cur(stream) \in RecordKeys
    <2>1. GoOn(Call("record")) /\ stream' = stream
      BY <1>3 DEF ParseDeclaration
    <2>2. Continue(<<Call("record")>>) /\ tokens' = tokens /\ Onward(stream, stream')
      BY <1>1, <2>1, DoIs DEF GoOn, Continue
    <2>3. Gain \in Nat /\ Worth("record", ret', Coming') = 1
      BY <1>1, <2>2, Gains, WorthTable
    <2>4. Worth("record", ret', Coming') + 1 <= Gain + Now
      BY ONLY <1>2, <2>3
    <2>5. Call("record").do = "record" /\ "record" \notin Readers
      BY <1>1, DoIs DEF Readers, Conditionals
    <2> QED BY <1>1, <2>2, <2>4, <2>5, TurnPays
  <1>4. CASE cur(stream) \notin RecordKeys /\ cur(stream) \notin Types
    <2>1. Continue(<< >>) /\ ret' = Null /\ stream' = error(stream)
      BY <1>4 DEF ParseDeclaration, Return
    <2> QED BY <1>1, <2>1, Moving, SolventReturn
  <1>5. Onward(stream, named) /\ named \in Streams /\ (cur(stream) # "eof" => Ahead(stream, named))
    BY <1>1, Moving, MovingOn
  <1>6. CASE cur(stream) \notin RecordKeys /\ cur(stream) \in Types /\ cur(named) # "id"
    <2>1. Continue(<< >>) /\ ret' = Null /\ stream' = error(named)
      BY <1>6 DEF ParseDeclaration, Return
    <2> HIDE DEF named
    <2>2. Onward(stream, stream')
      BY <1>1, <1>5, <2>1, Moving, MovingOn
    <2> QED BY <1>1, <2>1, <2>2, SolventReturn
  <1>7. CASE cur(stream) \notin RecordKeys /\ cur(stream) \in Types /\ cur(named) = "id"
    <2> DEFINE rest == [Call("declarator") EXCEPT !.at = named.pos]
    <2>1. GoOn(rest) /\ stream' = after
      BY <1>7 DEF ParseDeclaration
    <2>2. rest.do = "declarator"
      BY DEF Call, Task
    <2> HIDE DEF rest
    <2>3. Continue(<<rest>>) /\ tokens' = tokens
      BY <2>1 DEF GoOn, Continue
    <2>4. cur(stream) # "eof"
      BY <1>7 DEF Types
    <2>5. Onward(stream, stream') /\ Ahead(stream, stream')
      <3> HIDE DEF named
      <3>1. Onward(named, after)
        BY <1>1, <1>5, Moving
      <3> QED BY <1>1, <1>5, <2>1, <2>4, <3>1, MovingOn
    <2> QED BY <1>1, <2>2, <2>3, <2>5, AheadTurns
  <1> QED BY <1>3, <1>4, <1>6, <1>7

LEMMA AheadCalls ==
  ASSUME Built, tasks # << >>, Ahead(stream, stream'), NEW call, NEW rest, CallThen(call, rest),
         call.do = "helper" \/ (call.do = "block" /\ Coming' = Brace), Work(rest.do) <= 8
  PROVE  Pays
  <1>1. Onward(stream, stream') /\ tokens' = tokens
    BY DoIs, MovingOn DEF CallThen, Continue
  <1>2. Gain \in Nat /\ Gain >= 13 /\ Now \in Nat /\ Now >= 1
    BY <1>1, Gains, WorthIs DEF Now
  <1>3. Work(call.do) \in {1, 3} /\ Work(rest.do) \in Nat
    BY WorkIs, WorkRange
  <1>4. Work(call.do) + Work(rest.do) + 1 <= Gain + Now
    BY ONLY <1>2, <1>3, Work(rest.do) <= 8
  <1> QED BY <1>1, <1>4, CallPays

LEMMA ParseDeclaratorPays ==
  ASSUME Built, ParseDeclarator
  PROVE  Pays
  <1> DEFINE first == advance(stream)
  <1>1. tasks # << >> /\ top.do = "declarator" /\ stream \in Streams /\ tokens \in Inputs
    BY DoIs DEF ParseDeclarator, Doing
  <1>2. Now = 8
    BY <1>1, WorthTable DEF Now
  <1>3. cur(stream) # "eof" => Ahead(stream, first) /\ Onward(first, advance(first)) /\ Onward(first, first)
    <2>1. first \in Streams /\ (cur(stream) # "eof" => Ahead(stream, first))
      BY <1>1, Moving DEF Onward
    <2> HIDE DEF first
    <2> QED BY <1>1, <2>1, Moving
  <1>4. CASE cur(stream) = "("
    <2>1. PICK do \in {"functionBody", "parameter"} :
             /\ GoOn(Then(do, << >>))
             /\ stream' \in {advance(first), first}
      BY <1>4 DEF ParseDeclarator
    <2>2. Ahead(stream, stream')
      <3> HIDE DEF first
      <3> QED BY <1>1, <1>3, <1>4, <2>1, MovingOn
    <2>3. Continue(<<Then(do, << >>)>>) /\ Then(do, << >>).do = do
      BY <1>1, <2>1, DoIs DEF GoOn
    <2> QED BY <1>1, <2>2, <2>3, AheadTurns
  <1>5. CASE cur(stream) = "="
    <2> DEFINE call == CallHelper(0)
               rest == Then("initializer", << >>)
    <2>1. CallThen(call, rest) /\ stream' = first
      BY <1>5 DEF ParseDeclarator
    <2>2. call.do = "helper" /\ rest.do = "initializer"
      BY <1>1, DoIs
    <2> HIDE DEF call, rest, first
    <2>3. Ahead(stream, stream') /\ Work(rest.do) <= 8
      BY <1>1, <1>3, <1>5, <2>1, <2>2, WorkIs
    <2> QED BY <1>1, <2>1, <2>2, <2>3, AheadCalls
  <1>6. CASE cur(stream) # "(" /\ cur(stream) # "="
    <2>1. Continue(<< >>) /\ stream' = expect(stream, ";")
      BY <1>6 DEF ParseDeclarator, ReturnNew
    <2>2. Onward(stream, stream')
      BY <1>1, <2>1, Moving
    <2>3. Now >= 8
      BY <1>2
    <2> QED BY <1>1, <2>1, <2>2, <2>3, SolventReturn
  <1> QED BY <1>4, <1>5, <1>6

(* Readers that return a node whatever they were given.                    *)
LEMMA ReaderReturns ==
  ASSUME Built, tasks # << >>, Onward(stream, stream'), Continue(<< >>),
         top.do \in {"initializer", "endFunction", "endReturn", "else", "endIf", "endWhile"}
  PROVE  Pays
  <1>1. Now = 8 + Saved(ret, Coming) /\ Saved(ret, Coming) \in {0, 7}
    BY WorthTable DEF Now
  <1>2. Now >= 8
    BY ONLY <1>1
  <1> QED BY <1>2, SolventReturn

LEMMA EndVarDeclPays ==
  ASSUME Built, EndVarDecl
  PROVE  Pays
  <1>1. /\ tasks # << >> /\ top.do = "initializer" /\ Continue(<< >>) /\ stream' = expect(stream, ";")
    BY DEF EndVarDecl, Doing, ReturnNew
  <1> QED BY <1>1, DoIs, Moving, ReaderReturns

LEMMA EndFunctionPays ==
  ASSUME Built, EndFunction
  PROVE  Pays
  <1>1. /\ tasks # << >> /\ top.do = "endFunction" /\ Continue(<< >>) /\ stream' = stream
    BY DEF EndFunction, Doing, ReturnNew
  <1> QED BY <1>1, DoIs, ReaderReturns

LEMMA EndReturnPays ==
  ASSUME Built, EndReturn
  PROVE  Pays
  <1>1. /\ tasks # << >> /\ top.do = "endReturn" /\ Continue(<< >>) /\ stream' = expect(stream, ";")
    BY DEF EndReturn, Doing, ReturnNew
  <1> QED BY <1>1, DoIs, Moving, ReaderReturns

LEMMA EndConditionalPays ==
  ASSUME Built, EndConditional
  PROVE  Pays
  <1>1. /\ tasks # << >> /\ top.do \in {"endIf", "endWhile"} /\ Continue(<< >>) /\ stream' = stream
    BY DEF EndConditional, Doing, ReturnNew
  <1> QED BY <1>1, DoIs, ReaderReturns

LEMMA ParseParameterPays ==
  ASSUME Built, ParseParameter
  PROVE  Pays
  <1> DEFINE name == advance(stream)
             after == advance(name)
  <1>1. tasks # << >> /\ top.do = "parameter" /\ stream \in Streams /\ tokens \in Inputs
    BY DoIs DEF ParseParameter, Doing
  <1>2. /\ Onward(stream, name) /\ name \in Streams /\ (cur(stream) # "eof" => Ahead(stream, name))
    BY <1>1, Moving DEF Onward
  <1>3. Onward(name, after) /\ after \in Streams
    <2> HIDE DEF name
    <2> QED BY <1>1, <1>2, Moving DEF Onward
  <1>4. Onward(after, advance(after))
    <2> HIDE DEF name, after
    <2> QED BY <1>1, <1>3, Moving
  <1>5. ASSUME NEW s, s \in {error(stream), error(name)},
               GoOn(Then("functionBody", top.kids)), stream' = expect(s, ")")
        PROVE  Pays
    <2>1. Onward(stream, s) /\ s \in Streams
      <3>1. Onward(stream, error(stream)) /\ Onward(name, error(name))
        BY <1>1, <1>2, Moving
      <3> HIDE DEF name, after
      <3>2. Onward(stream, s)
        BY <1>1, <1>2, <1>5, <3>1, MovingOn
      <3> QED BY <3>2 DEF Onward
    <2> HIDE DEF name, after
    <2>2. Onward(stream, stream')
      BY <1>1, <1>5, <2>1, Moving, MovingOn
    <2>3. /\ Continue(<<Then("functionBody", top.kids)>>)
          /\ Then("functionBody", top.kids).do = "functionBody"
          /\ tokens' = tokens
      BY <1>1, <1>5, DoIs DEF GoOn, Continue
    <2>4. /\ Worth("functionBody", ret', Coming') = 10 /\ Now = 11 /\ Gain \in Nat
          /\ "functionBody" \notin Readers
      BY <1>1, <2>2, <2>3, WorthTable, Gains DEF Now, Readers, Conditionals
    <2>5. Worth("functionBody", ret', Coming') + 1 <= Gain + Now
      BY ONLY <2>4
    <2> QED BY <1>1, <2>2, <2>3, <2>4, <2>5, TurnPays
  <1>6. CASE cur(stream) \in Types /\ cur(name) = "id"
    <2>1. PICK do \in {"parameter", "functionBody"} :
            /\ Continue(<<Then(do, Append(top.kids, Made))>>)
            /\ stream' \in {advance(after), expect(after, ")")}
      <3>1. CASE cur(after) = ","
        BY <1>6, <3>1 DEF ParseParameter
      <3>2. CASE cur(after) # ","
        BY <1>6, <3>2 DEF ParseParameter
      <3> QED BY <3>1, <3>2
    <2>2. cur(stream) # "eof"
      BY <1>6 DEF Types
    <2> HIDE DEF name, after
    <2>3. Ahead(stream, stream')
      <3>1. Onward(after, expect(after, ")"))
        BY <1>1, <1>3, Moving
      <3> QED BY <1>1, <1>2, <1>3, <1>4, <2>1, <2>2, <3>1, MovingOn
    <2>4. Then(do, Append(top.kids, Made)).do = do
      BY <1>1, DoIs
    <2> QED BY <1>1, <2>1, <2>3, <2>4, AheadTurns
  <1>7. CASE ~(cur(stream) \in Types /\ cur(name) = "id")
    <2>1. \E s \in {error(stream), error(name)} :
            GoOn(Then("functionBody", top.kids)) /\ stream' = expect(s, ")")
      BY <1>7 DEF ParseParameter
    <2> HIDE DEF name, after
    <2> QED BY <1>5, <2>1
  <1> QED BY <1>6, <1>7

LEMMA ParseFunctionBodyPays ==
  ASSUME Built, ParseFunctionBody
  PROVE  Pays
  <1>1. tasks # << >> /\ top.do = "functionBody" /\ stream \in Streams /\ tokens \in Inputs
    BY DoIs DEF ParseFunctionBody, Doing
  <1>2. Now = 10
    BY <1>1, WorthTable DEF Now
  <1>3. CASE cur(stream) = "{"
    <2>1. /\ CallThen(Call("block"), Then("endFunction", top.kids)) /\ stream' = stream
          /\ tokens' = tokens
      BY <1>3 DEF ParseFunctionBody, CallThen, Continue
    <2>2. /\ Call("block").do = "block" /\ Then("endFunction", top.kids).do = "endFunction"
          /\ Onward(stream, stream')
      BY <1>1, <2>1, DoIs
    <2>3. Coming' = Brace /\ Gain \in Nat
      BY <1>1, <1>3, <2>1, <2>2, Gains DEF Coming, cur, Brace
    <2>4. Work("block") + Work("endFunction") + 1 <= Gain + Now
      BY ONLY <1>2, <2>3, WorkIs
    <2> QED BY <1>1, <2>1, <2>2, <2>3, <2>4, CallPays
  <1>4. CASE cur(stream) # "{"
    <2>1. Continue(<< >>) /\ stream' = expect(stream, ";")
      BY <1>4 DEF ParseFunctionBody, ReturnNew
    <2>2. Onward(stream, stream')
      BY <1>1, <2>1, Moving
    <2>3. Now >= 8
      BY ONLY <1>2
    <2> QED BY <1>1, <2>1, <2>2, <2>3, SolventReturn
  <1> QED BY <1>3, <1>4

LEMMA ParseRecordDeclPays ==
  ASSUME Built, ParseRecordDecl
  PROVE  Pays
  <1> DEFINE name == advance(stream)
             open == advance(name)
  <1>1. tasks # << >> /\ top.do = "record" /\ stream \in Streams /\ tokens \in Inputs
    BY DoIs DEF ParseRecordDecl, Doing
  <1>2. cur(stream) # "eof"
    BY <1>1 DEF Built, Line, RecordKeys
  <1>3. Ahead(stream, name) /\ name \in Streams
    BY <1>1, <1>2, Moving DEF Ahead
  <1>4. Onward(name, error(name)) /\ Onward(name, open) /\ open \in Streams
    <2> HIDE DEF name
    <2> QED BY <1>1, <1>3, Moving DEF Onward
  <1>5. Onward(open, advance(open)) /\ Onward(open, expect(open, ";"))
    <2> HIDE DEF open
    <2> QED BY <1>1, <1>4, Moving
  <1>6. CASE cur(name) = "id" /\ cur(open) = "{"
    <2> DEFINE rest == [Then("member", << >>) EXCEPT !.at = name.pos]
    <2>1. GoOn(rest) /\ stream' = advance(open)
      BY <1>6 DEF ParseRecordDecl
    <2>2. rest.do = "member"
      BY <1>1, TopFacts DEF Then, Tasks
    <2>3. Continue(<<rest>>)
      BY <2>1 DEF GoOn
    <2> HIDE DEF rest, name, open
    <2>4. Ahead(stream, stream')
      BY <1>1, <1>3, <1>4, <1>5, <2>1, MovingOn
    <2> QED BY <1>1, <2>2, <2>3, <2>4, AheadTurns
  <1>7. CASE ~(cur(name) = "id" /\ cur(open) = "{")
    <2>1. Continue(<< >>) /\ stream' \in {error(name), expect(open, ";")}
      BY <1>7 DEF ParseRecordDecl, Return, ReturnNew
    <2> HIDE DEF name, open
    <2>2. Ahead(stream, stream')
      BY <1>1, <1>3, <1>4, <1>5, <2>1, MovingOn
    <2>3. Onward(stream, stream')
      BY <1>1, <2>2, MovingOn
    <2> QED BY <1>1, <2>1, <2>2, <2>3, SolventReturn
  <1> QED BY <1>6, <1>7

(* What ends at a closing brace or at the end of the file.                 *)
LEMMA ClosingPays ==
  ASSUME Built, tasks # << >>, NEW s \in Streams, s = expect(stream, "}"), Onward(s, stream'),
         cur(stream) \in {"}", "eof"}, Continue(<< >>)
  PROVE  Pays
  <1>1. stream \in Streams /\ tokens \in Inputs /\ tokens' = tokens
    BY DoIs DEF Continue
  <1>2. Onward(stream, s) /\ (cur(stream) # "eof" => Ahead(stream, s))
    BY <1>1, Moving
  <1>3. Onward(stream, stream') /\ (cur(stream) # "eof" => Ahead(stream, stream'))
    BY <1>1, <1>2, MovingOn
  <1>4. Coming = "eof" => Coming' = "eof"
    BY <1>1, <1>3, Gains
  <1>5. Ahead(stream, stream') \/ Coming' = "eof"
    BY <1>3, <1>4 DEF Coming
  <1> QED BY <1>3, <1>5, SolventReturn

LEMMA EndRecordDeclPays ==
  ASSUME Built, EndRecordDecl
  PROVE  Pays
  <1> DEFINE s == expect(stream, "}")
  <1>1. /\ tasks # << >> /\ Continue(<< >>) /\ stream' = expect(s, ";")
        /\ cur(stream) \in {"}", "eof"}
    BY DEF EndRecordDecl, Doing, ReturnNew
  <1>2. stream \in Streams /\ tokens \in Inputs
    BY <1>1, DoIs
  <1>3. s \in Streams
    BY <1>2, Moving DEF Onward
  <1>4. Onward(s, stream')
    <2> HIDE DEF s
    <2> QED BY <1>1, <1>2, <1>3, Moving
  <1> QED BY <1>1, <1>3, <1>4, ClosingPays

LEMMA EndBlockPays ==
  ASSUME Built, EndBlock
  PROVE  Pays
  <1> DEFINE s == expect(stream, "}")
  <1>1. /\ tasks # << >> /\ Continue(<< >>) /\ stream' = s
        /\ cur(stream) \in {"}", "eof"}
    BY DEF EndBlock, Doing, ReturnNew
  <1>2. stream \in Streams /\ tokens \in Inputs
    BY <1>1, DoIs
  <1>3. s \in Streams
    BY <1>2, Moving DEF Onward
  <1>4. Onward(s, stream')
    <2> HIDE DEF s
    <2> QED BY <1>1, <1>2, <1>3, Moving
  <1> QED BY <1>1, <1>3, <1>4, ClosingPays

LEMMA SkipMemberPays ==
  ASSUME Built, SkipMember
  PROVE  Pays
  <1> DEFINE next == advance(stream)
  <1>1. /\ tasks # << >> /\ top.do = "member" /\ Continue(<<top>>) /\ cur(stream) # "eof"
        /\ stream' \in {expect(next, ":"), advance(error(stream)), advance(error(next))}
    BY DEF SkipMember, Doing, GoOn
  <1>2. stream \in Streams /\ tokens \in Inputs
    BY <1>1, DoIs
  <1>3. Ahead(stream, next) /\ next \in Streams
    BY <1>1, <1>2, Moving DEF Ahead
  <1>4. Onward(next, expect(next, ":")) /\ Onward(next, error(next))
    <2> HIDE DEF next
    <2> QED BY <1>2, <1>3, Moving
  <1>5. Onward(next, advance(error(next)))
    <2> DEFINE e == error(next)
    <2>1. e \in Streams /\ Onward(next, e)
      BY <1>4 DEF Onward
    <2> HIDE DEF e, next
    <2>2. Onward(e, advance(e))
      BY <1>2, <2>1, Moving
    <2>3. Onward(next, advance(e))
      BY <1>3, <2>1, <2>2, MovingOn
    <2> QED BY <2>3 DEF e
  <1>6. Ahead(stream, advance(error(stream)))
    <2> DEFINE e == error(stream)
    <2>1. e \in Streams /\ Onward(stream, e)
      BY <1>2, Moving DEF Onward
    <2>2. cur(e) = cur(stream)
      BY <1>2 DEF cur, error, Streams
    <2> HIDE DEF e
    <2>3. Ahead(e, advance(e))
      BY <1>1, <1>2, <2>1, <2>2, Moving
    <2>4. Ahead(stream, advance(e))
      BY <1>2, <2>1, <2>3, MovingOn
    <2> QED BY <2>4 DEF e
  <1>7. Ahead(stream, stream')
    <2> HIDE DEF next
    <2>1. \A u \in {expect(next, ":"), advance(error(next))} : Ahead(stream, u)
      BY <1>2, <1>3, <1>4, <1>5, MovingOn
    <2> QED BY <1>1, <1>6, <2>1
  <1> QED BY <1>1, <1>7, AheadTurns

LEMMA ParseMemberPays ==
  ASSUME Built, ParseMember
  PROVE  Pays
  <1> DEFINE name == advance(stream)
             after == advance(name)
             close == FirstOf(after, {")"})
             params == expect(close, ")")
  <1>1. tasks # << >> /\ top.do = "member" /\ stream \in Streams /\ tokens \in Inputs
        /\ cur(stream) # "eof"
    BY DoIs DEF ParseMember, Doing, Types
  <1>2. Ahead(stream, name) /\ name \in Streams
    BY <1>1, Moving DEF Ahead
  <1>3. Onward(name, after) /\ after \in Streams
    <2> HIDE DEF name
    <2> QED BY <1>1, <1>2, Moving DEF Onward
  <1>4. Onward(after, close) /\ close \in Streams /\ Onward(after, expect(after, ";"))
    <2> HIDE DEF after
    <2> QED BY <1>1, <1>3, Moving DEF Onward
  <1>5. Onward(close, params) /\ params \in Streams
    <2> HIDE DEF close
    <2> QED BY <1>1, <1>4, Moving DEF Onward
  <1>6. Onward(params, params) /\ Onward(params, expect(params, ";"))
    <2> HIDE DEF params
    <2> QED BY <1>1, <1>5, Moving
  <1>7. \A u \in {expect(after, ";"), params, expect(params, ";")} : Ahead(stream, u)
    <2> HIDE DEF name, after, close, params
    <2>1. Ahead(stream, after)
      BY <1>1, <1>2, <1>3, MovingOn
    <2>2. Ahead(stream, close) /\ Ahead(stream, expect(after, ";"))
      BY <1>1, <1>4, <2>1, MovingOn
    <2>3. Ahead(stream, params)
      BY <1>1, <1>5, <2>2, MovingOn
    <2> QED BY <1>1, <1>6, <2>2, <2>3, MovingOn
  <1>8. CASE cur(after) = "(" /\ cur(params) = "{"
    <2> DEFINE call == Call("block")
               rest == [top EXCEPT !.do = "endMethod", !.left = name.pos]
    <2>1. CallThen(call, rest) /\ stream' = params
      BY <1>8 DEF ParseMember
    <2>2. tokens' = tokens
      BY <2>1 DEF CallThen, Continue
    <2>3. Coming' = cur(params)
      BY <2>1, <2>2 DEF Coming, cur
    <2>4. call.do = "block" /\ rest.do = "endMethod"
      BY <1>1, TopFacts DEF Call, Task, Tasks
    <2>5. Coming' = Brace
      BY <1>8, <2>3 DEF Brace
    <2> HIDE DEF call, rest, name, after, close, params
    <2>6. Ahead(stream, stream')
      BY <1>7, <2>1
    <2>7. Work(rest.do) <= 8
      BY ONLY <2>4, WorkIs
    <2> QED BY <1>1, <2>1, <2>4, <2>5, <2>6, <2>7, AheadCalls
  <1>9. CASE ~(cur(after) = "(" /\ cur(params) = "{")
    <2> DEFINE rest == Then("member", Append(top.kids, Made))
    <2>1. Continue(<<rest>>) /\ stream' \in {expect(after, ";"), expect(params, ";")}
      BY <1>9 DEF ParseMember
    <2>2. rest.do = "member"
      BY <1>1, DoIs
    <2> HIDE DEF rest, name, after, close, params
    <2>3. Ahead(stream, stream')
      BY <1>7, <2>1
    <2> QED BY <1>1, <2>1, <2>2, <2>3, AheadTurns
  <1> QED BY <1>8, <1>9

LEMMA EndMethodPays ==
  ASSUME Built, EndMethod
  PROVE  Pays
  <1> DEFINE rest == Then("member", Append(top.kids, Made))
  <1>1. tasks # << >> /\ top.do = "endMethod" /\ stream' = stream /\ Continue(<<rest>>)
        /\ tokens' = tokens
    BY DEF EndMethod, Doing, Continue
  <1>2. rest.do = "member" /\ Onward(stream, stream')
    BY <1>1, DoIs
  <1> HIDE DEF rest
  <1>3. Now = 2 + Saved(ret, Coming) /\ Saved(ret, Coming) \in {0, 7}
    BY <1>1, WorthTable DEF Now
  <1>4. Gain \in Nat /\ Worth("member", ret', Coming') = 1
    BY <1>1, <1>2, Gains, WorthTable
  <1>5. Worth("member", ret', Coming') + 1 <= Gain + Now
    BY ONLY <1>3, <1>4
  <1>6. "member" \notin Readers
    BY DEF Readers, Conditionals
  <1> QED BY <1>1, <1>2, <1>5, <1>6, TurnPays

(* Blocks and statements.                                                  *)
LEMMA ParseBlockPays ==
  ASSUME Built, BlockOpens, ParseBlock
  PROVE  Pays
  <1> DEFINE rest == Then("statements", << >>)
  <1>1. tasks # << >> /\ top.do = "block" /\ Continue(<<rest>>) /\ stream' = expect(stream, "{")
    BY DEF ParseBlock, Doing, GoOn
  <1>2. stream \in Streams /\ tokens \in Inputs /\ rest.do = "statements"
    BY <1>1, DoIs
  <1>3. cur(stream) = "{"
    BY <1>1 DEF BlockOpens, Coming, Brace
  <1>4. Ahead(stream, stream')
    BY <1>1, <1>2, <1>3, Moving
  <1> HIDE DEF rest
  <1> QED BY <1>1, <1>2, <1>4, AheadTurns

(* A call made without consuming a token.                                  *)
LEMMA CallHerePays ==
  ASSUME Built, tasks # << >>, NEW call, NEW rest, CallThen(call, rest), stream' = stream,
         call.do \in {"declaration", "statement", "helper", "primary"},
         Work(call.do) + Work(rest.do) + 1 <= Now
  PROVE  Pays
  <1>1. tokens' = tokens /\ Onward(stream, stream')
    BY DoIs DEF CallThen, Continue
  <1>2. Gain \in Nat /\ Now \in Nat /\ Work(call.do) \in Nat /\ Work(rest.do) \in Nat
    BY <1>1, Gains, WorthIs, WorkRange DEF Now
  <1>3. Work(call.do) + Work(rest.do) + 1 <= Gain + Now
    BY ONLY <1>2, Work(call.do) + Work(rest.do) + 1 <= Now
  <1> QED BY <1>1, <1>3, CallPays

LEMMA ParseStatementsPays ==
  ASSUME Built, ParseStatements
  PROVE  Pays
  <1> DEFINE call == Call("statement")
             rest == Then("addStatement", top.kids)
  <1>1. /\ tasks # << >> /\ top.do = "statements" /\ CallThen(call, rest) /\ stream' = stream
        /\ Coming # "eof"
    BY DEF ParseStatements, Doing, Coming
  <1>2. call.do = "statement" /\ rest.do = "addStatement"
    BY <1>1, DoIs
  <1> HIDE DEF call, rest
  <1>3. Now = 8
    BY <1>1, WorthTable DEF Now
  <1>4. Work(call.do) + Work(rest.do) + 1 <= Now
    BY ONLY <1>2, <1>3, WorkIs
  <1> QED BY <1>1, <1>2, <1>4, CallHerePays

LEMMA ParseDeclStatementPays ==
  ASSUME Built, ParseDeclStatement
  PROVE  Pays
  <1> DEFINE call == Call("declaration")
             rest == Then("endDeclStatement", << >>)
  <1>1. tasks # << >> /\ top.do = "statement" /\ CallThen(call, rest) /\ stream' = stream
    BY DEF ParseDeclStatement, Doing
  <1>2. call.do = "declaration" /\ rest.do = "endDeclStatement"
    BY <1>1, DoIs
  <1> HIDE DEF call, rest
  <1>3. Now = 5
    BY <1>1, WorthTable DEF Now
  <1>4. Work(call.do) + Work(rest.do) + 1 <= Now
    BY ONLY <1>2, <1>3, WorkIs
  <1> QED BY <1>1, <1>2, <1>4, CallHerePays

LEMMA ParseExprStatementPays ==
  ASSUME Built, ParseExprStatement
  PROVE  Pays
  <1> DEFINE call == CallHelper(0)
             rest == Then("endExprStatement", << >>)
  <1>1. tasks # << >> /\ top.do = "statement" /\ CallThen(call, rest) /\ stream' = stream
    BY DEF ParseExprStatement, Doing
  <1>2. call.do = "helper" /\ rest.do = "endExprStatement"
    BY <1>1, DoIs
  <1> HIDE DEF call, rest
  <1>3. Now = 5
    BY <1>1, WorthTable DEF Now
  <1>4. Work(call.do) + Work(rest.do) + 1 <= Now
    BY ONLY <1>2, <1>3, WorkIs
  <1> QED BY <1>1, <1>2, <1>4, CallHerePays

LEMMA ParseHelperPays ==
  ASSUME Built, ParseHelper
  PROVE  Pays
  <1> DEFINE call == Call("primary")
             rest == [top EXCEPT !.do = "operators", !.at = stream.pos]
  <1>1. tasks # << >> /\ top.do = "helper" /\ CallThen(call, rest) /\ stream' = stream
    BY DEF ParseHelper, Doing
  <1>2. call.do = "primary" /\ rest.do = "operators"
    BY <1>1, DoIs, TopFacts DEF Tasks
  <1> HIDE DEF call, rest
  <1>3. Now = 3
    BY <1>1, WorthTable DEF Now
  <1>4. Work(call.do) + Work(rest.do) + 1 <= Now
    BY ONLY <1>2, <1>3, WorkIs
  <1> QED BY <1>1, <1>2, <1>4, CallHerePays

LEMMA ParseReturnPays ==
  ASSUME Built, ParseReturn
  PROVE  Pays
  <1> DEFINE after == advance(stream)
             call == CallHelper(0)
             rest == [Then("endReturn", << >>) EXCEPT !.at = stream.pos]
  <1>1. tasks # << >> /\ top.do = "statement" /\ stream \in Streams /\ tokens \in Inputs
        /\ cur(stream) # "eof"
    BY DoIs DEF ParseReturn, Doing
  <1>2. Ahead(stream, after) /\ after \in Streams
    BY <1>1, Moving DEF Ahead
  <1>3. Onward(after, advance(after)) /\ Onward(after, after)
    <2> HIDE DEF after
    <2> QED BY <1>1, <1>2, Moving
  <1>4. Ahead(stream, advance(after))
    <2> HIDE DEF after
    <2> QED BY <1>1, <1>2, <1>3, MovingOn
  <1>5. CASE cur(after) = ";"
    <2>1. Continue(<< >>) /\ stream' = advance(after)
      BY <1>5 DEF ParseReturn, ReturnNew
    <2> HIDE DEF after
    <2>2. Onward(stream, stream')
      BY <1>1, <1>4, <2>1, MovingOn
    <2> QED BY <1>1, <1>4, <2>1, <2>2, SolventReturn
  <1>6. CASE cur(after) # ";"
    <2>1. CallThen(call, rest) /\ stream' = after
      BY <1>6 DEF ParseReturn
    <2>2. call.do = "helper" /\ rest.do = "endReturn"
      BY <1>1, DoIs, TopFacts DEF Then, Tasks
    <2> HIDE DEF call, rest, after
    <2>3. Work(rest.do) <= 8
      BY ONLY <2>2, WorkIs
    <2> QED BY <1>1, <1>2, <2>1, <2>2, <2>3, AheadCalls
  <1> QED BY <1>5, <1>6

LEMMA ParseBlockStatementPays ==
  ASSUME Built, ParseBlockStatement
  PROVE  Pays
  <1> DEFINE rest == Call("block")
  <1>1. /\ tasks # << >> /\ top.do = "statement" /\ Continue(<<rest>>) /\ stream' = stream
        /\ tokens' = tokens /\ cur(stream) = Brace
    BY DEF ParseBlockStatement, Doing, GoOn, Continue, Brace
  <1>2. rest.do = "block" /\ Onward(stream, stream')
    BY <1>1, DoIs
  <1> HIDE DEF rest
  <1>3. Now = 5 /\ Worth("block", ret', Coming') = 1 /\ Gain \in Nat
    BY <1>1, <1>2, WorthTable, Gains DEF Now
  <1>4. Worth("block", ret', Coming') + 1 <= Gain + Now
    BY ONLY <1>3
  <1>5. Coming' = Brace
    BY <1>1 DEF Coming, cur
  <1>6. "block" \notin Readers
    BY DEF Readers, Conditionals
  <1> QED BY <1>1, <1>2, <1>4, <1>5, <1>6, TurnPays

LEMMA ParseConditionalPays ==
  ASSUME Built, ParseConditional
  PROVE  Pays
  <1> DEFINE after == advance(stream)
             call == CallHelper(0)
             rest == [Then("condition", << >>) EXCEPT !.at = stream.pos]
  <1>1. /\ tasks # << >> /\ top.do = "statement" /\ CallThen(call, rest)
        /\ stream' = expect(after, "(") /\ cur(stream) # "eof" /\ tokens' = tokens
    BY DEF ParseConditional, Doing, CallThen, Continue
  <1>2. stream \in Streams /\ tokens \in Inputs
    BY <1>1, DoIs
  <1>3. Ahead(stream, after) /\ after \in Streams
    BY <1>1, <1>2, Moving DEF Ahead
  <1>4. call.do = "helper" /\ rest.do = "condition"
    BY <1>1, DoIs, TopFacts DEF Then, Tasks
  <1> HIDE DEF call, rest, after
  <1>5. Onward(after, stream')
    BY <1>1, <1>2, <1>3, Moving
  <1>6. Ahead(stream, stream') /\ Onward(stream, stream')
    BY <1>2, <1>3, <1>5, MovingOn
  <1>7. Gain \in Nat /\ Gain >= 13 /\ Now = 5
    BY <1>1, <1>6, Gains, WorthTable DEF Now
  <1>8. Work(call.do) + Work(rest.do) + 1 <= Gain + Now
    BY ONLY <1>4, <1>7, WorkIs
  <1> QED BY <1>1, <1>4, <1>6, <1>8, CallPays

LEMMA EndConditionPays ==
  ASSUME Built, EndCondition
  PROVE  Pays
  <1> DEFINE call == Call("statement")
             do == IF tokens[top.at] = "if" THEN "else" ELSE "endWhile"
             rest == Then(do, With(<< >>, ret))
  <1>1. /\ tasks # << >> /\ top.do = "condition" /\ CallThen(call, rest)
        /\ stream' = expect(stream, ")") /\ tokens' = tokens
    BY DEF EndCondition, Doing, CallThen, Continue
  <1>2. call.do = "statement" /\ rest.do \in {"else", "endWhile"}
    BY <1>1, DoIs
  <1> HIDE DEF call, rest, do
  <1>3. Onward(stream, stream')
    BY <1>1, DoIs, Moving
  <1>4. Gain \in Nat /\ Now = 14 + Saved(ret, Coming) /\ Saved(ret, Coming) \in {0, 7}
    BY <1>1, <1>3, Gains, WorthTable DEF Now
  <1>5. Work(call.do) = 5 /\ Work(rest.do) = 8
    BY ONLY <1>2, WorkIs
  <1>6. Work(call.do) + Work(rest.do) + 1 <= Gain + Now
    BY ONLY <1>4, <1>5
  <1> QED BY <1>1, <1>2, <1>3, <1>6, CallPays

LEMMA ParseElsePays ==
  ASSUME Built, ParseElse
  PROVE  Pays
  <1> DEFINE call == Call("statement")
             rest == Then("endIf", With(top.kids, ret))
  <1>1. tasks # << >> /\ top.do = "else" /\ stream \in Streams /\ tokens \in Inputs
    BY DoIs DEF ParseElse, Doing
  <1>2. CASE cur(stream) = "else"
    <2>1. CallThen(call, rest) /\ stream' = advance(stream) /\ tokens' = tokens
      BY <1>2 DEF ParseElse, CallThen, Continue
    <2>2. call.do = "statement" /\ rest.do = "endIf"
      BY <1>1, DoIs
    <2> HIDE DEF call, rest
    <2>3. Ahead(stream, stream') /\ Onward(stream, stream')
      BY <1>1, <1>2, <2>1, Moving
    <2>4. Gain \in Nat /\ Gain >= 13 /\ Now = 8 + Saved(ret, Coming) /\ Saved(ret, Coming) \in {0, 7}
      BY <1>1, <2>1, <2>3, Gains, WorthTable DEF Now
    <2>5. Work(call.do) + Work(rest.do) + 1 <= Gain + Now
      BY ONLY <2>2, <2>4, WorkIs
    <2> QED BY <1>1, <2>1, <2>2, <2>3, <2>5, CallPays
  <1>3. CASE cur(stream) # "else"
    <2>1. Continue(<< >>) /\ stream' = stream
      BY <1>3 DEF ParseElse, ReturnNew
    <2> QED BY <1>1, <2>1, DoIs, ReaderReturns
  <1> QED BY <1>2, <1>3

(* A reader that returns null for null, and else what was saved for it.    *)
LEMMA SavedReturns ==
  ASSUME Built, tasks # << >>, Onward(stream, stream'), Continue(<< >>),
         top.do \in {"endDeclStatement", "endExprStatement", "parenthesis", "operators", "operand"},
         ret = Null => ret' = Null \/ top.do = "operand"
  PROVE  Pays
  <1>1. tokens' = tokens
    BY DEF Continue
  <1>2. Coming = "eof" => Coming' = "eof"
    BY <1>1, Gains
  <1>3. /\ Now \in {1 + Saved(ret, Coming), 8 + Saved(ret, Coming)} /\ Saved(ret, Coming) \in {0, 7}
        /\ top.do = "operand" => Now = 8 + Saved(ret, Coming)
        /\ ret # Null /\ Coming # "eof" => Saved(ret, Coming) = 7
    BY WorthTable DEF Now
  <1>4. ret' = Null \/ Coming' = "eof" \/ Now >= 8
    BY <1>2, <1>3
  <1> QED BY <1>4, SolventReturn

LEMMA EndDeclStatementPays ==
  ASSUME Built, EndDeclStatement
  PROVE  Pays
  <1>1. /\ tasks # << >> /\ top.do = "endDeclStatement" /\ Continue(<< >>) /\ stream' = stream
        /\ ret = Null => ret' = Null
    BY DEF EndDeclStatement, Doing, Return, ReturnNew
  <1> QED BY <1>1, DoIs, SavedReturns

LEMMA EndExprStatementPays ==
  ASSUME Built, EndExprStatement
  PROVE  Pays
  <1>1. /\ tasks # << >> /\ top.do = "endExprStatement" /\ Continue(<< >>)
        /\ stream' \in {stream, expect(stream, ";")}
        /\ ret = Null => ret' = Null
    BY DEF EndExprStatement, Doing, Return, ReturnNew
  <1>2. Onward(stream, stream')
    BY <1>1, DoIs, Moving
  <1> QED BY <1>1, <1>2, SavedReturns

LEMMA EndParenthesisPays ==
  ASSUME Built, EndParenthesis
  PROVE  Pays
  <1>1. /\ tasks # << >> /\ top.do = "parenthesis" /\ Continue(<< >>)
        /\ stream' = expect(stream, ")") /\ ret' = ret
    BY DEF EndParenthesis, Doing, Return
  <1>2. Onward(stream, stream')
    BY <1>1, DoIs, Moving
  <1> QED BY <1>1, <1>2, SavedReturns

LEMMA EndOperatorsPays ==
  ASSUME Built, EndOperators
  PROVE  Pays
  <1>1. /\ tasks # << >> /\ top.do = "operators" /\ Continue(<< >>) /\ stream' = stream /\ ret' = ret
    BY DEF EndOperators, Doing, Return
  <1> QED BY <1>1, DoIs, SavedReturns

LEMMA ParsePrimaryPays ==
  ASSUME Built, ParsePrimary
  PROVE  Pays
  <1>1. tasks # << >> /\ stream \in Streams /\ tokens \in Inputs
    BY DoIs DEF ParsePrimary, Doing
  <1>2. CASE cur(stream) \in Literals \cup {"id"}
    <2>1. Continue(<< >>) /\ stream' = advance(stream) /\ cur(stream) # "eof"
      BY <1>2 DEF ParsePrimary, ReturnNew, Literals
    <2>2. Ahead(stream, stream') /\ Onward(stream, stream')
      BY <1>1, <2>1, Moving
    <2> QED BY <1>1, <2>1, <2>2, SolventReturn
  <1>3. CASE cur(stream) \notin Literals \cup {"id"} /\ cur(stream) = "("
    <2> DEFINE call == CallHelper(0)
               rest == Call("parenthesis")
    <2>1. CallThen(call, rest) /\ stream' = advance(stream)
      BY <1>3 DEF ParsePrimary
    <2>2. call.do = "helper" /\ rest.do = "parenthesis"
      BY <1>1, DoIs
    <2> HIDE DEF call, rest
    <2>3. Ahead(stream, stream')
      BY <1>1, <1>3, <2>1, Moving
    <2>4. Work(rest.do) <= 8
      BY ONLY <2>2, WorkIs
    <2> QED BY <1>1, <2>1, <2>2, <2>3, <2>4, AheadCalls
  <1>4. CASE cur(stream) \notin Literals \cup {"id"} /\ cur(stream) # "("
    <2>1. Continue(<< >>) /\ ret' = Null /\ stream' = error(stream)
      BY <1>4 DEF ParsePrimary, Return
    <2>2. Onward(stream, stream')
      BY <1>1, <2>1, Moving
    <2> QED BY <1>1, <2>1, <2>2, SolventReturn
  <1> QED BY <1>2, <1>3, <1>4

LEMMA OperatorComes ==
  ASSUME Built, tasks # << >>, getPrecedence(cur(stream)) >= top.prec
  PROVE  cur(stream) # "eof"
  <1>1. top.prec \in 0..121
    BY TopFacts DEF Tasks
  <1>2. getPrecedence("eof") = -1
    BY Precedences DEF Operators, Members
  <1>3. getPrecedence(cur(stream)) = -1 => ~(getPrecedence(cur(stream)) >= top.prec)
    BY ONLY <1>1
  <1> QED BY <1>2, <1>3

LEMMA ParseOperatorPays ==
  ASSUME Built, ParseOperator
  PROVE  Pays
  <1> DEFINE call == CallHelper(OperandPrecedence(getPrecedence(cur(stream))))
             rest == [top EXCEPT !.do = "operand", !.left = ret, !.kids = <<stream.pos>>]
  <1>1. /\ tasks # << >> /\ CallThen(call, rest) /\ stream' = advance(stream)
        /\ getPrecedence(cur(stream)) >= top.prec
    BY DEF ParseOperator, Doing
  <1>2. call.do = "helper" /\ rest.do = "operand"
    BY <1>1, DoIs, TopFacts DEF Tasks
  <1> HIDE DEF call, rest
  <1>3. cur(stream) # "eof"
    BY <1>1, OperatorComes
  <1>4. Ahead(stream, stream')
    BY <1>1, <1>3, DoIs, Moving
  <1>5. Work(rest.do) <= 8
    BY ONLY <1>2, WorkIs
  <1> QED BY <1>1, <1>2, <1>4, <1>5, AheadCalls

(* The loop over the operators, once more.                                 *)
LEMMA OperatorsPay ==
  ASSUME Built, tasks # << >>, Onward(stream, stream'), NEW rest, Continue(<<rest>>),
         rest.do = "operators",
         Work("operators") + Saved(ret', Coming') + 1 <= Gain + Now
  PROVE  Pays
  <1>1. tokens' = tokens /\ Turned("operators")
    BY DEF Continue, Turned
  <1>2. PaysOperators
    BY <1>1 DEF PaysOperators
  <1> QED BY <1>1, <1>2 DEF Pays

LEMMA EndOperandPays ==
  ASSUME Built, EndOperand
  PROVE  Pays
  <1>1. tasks # << >> /\ top.do = "operand" /\ stream' = stream /\ tokens' = tokens
    BY DEF EndOperand, Doing, Return, Continue
  <1>2. Onward(stream, stream')
    BY <1>1, DoIs
  <1>3. CASE ret = Null
    <2>1. Continue(<< >>)
      BY <1>3 DEF EndOperand, Return
    <2> QED BY <1>1, <1>2, <2>1, SavedReturns
  <1>4. CASE ret # Null
    <2> DEFINE rest == Then("operators", << >>)
    <2>1. Continue(<<rest>>)
      BY <1>4 DEF EndOperand
    <2>2. rest.do = "operators"
      BY <1>1, DoIs
    <2> HIDE DEF rest
    <2>3. Coming' = Coming
      BY <1>1 DEF Coming, cur
    <2>4. /\ Now = 8 + Saved(ret, Coming) /\ Saved(ret, Coming) \in {0, 7} /\ Gain \in Nat
          /\ Saved(ret', Coming') \in {0, 7}
          /\ Coming # "eof" => Saved(ret, Coming) = 7
          /\ Coming' = "eof" => Saved(ret', Coming') = 0
      BY <1>1, <1>2, <1>4, WorthTable, Gains DEF Now
    <2>5. Work("operators") + Saved(ret', Coming') + 1 <= Gain + Now
      BY ONLY <2>3, <2>4, WorkIs
    <2> QED BY <1>1, <1>2, <2>1, <2>2, <2>5, OperatorsPay
  <1> QED BY <1>3, <1>4

LEMMA ParseMemberAccessPays ==
  ASSUME Built, ParseMemberAccess
  PROVE  Pays
  <1> DEFINE name == advance(stream)
  <1>1. /\ tasks # << >> /\ top.do = "operators" /\ tokens' = tokens
        /\ getPrecedence(cur(stream)) >= top.prec
    BY DEF ParseMemberAccess, Doing, Return, Continue
  <1>2. stream \in Streams /\ tokens \in Inputs /\ cur(stream) # "eof"
    BY <1>1, DoIs, OperatorComes
  <1>3. Ahead(stream, name) /\ name \in Streams
    BY <1>2, Moving DEF Ahead
  <1>4. stream' \in {error(name), advance(name)}
    BY DEF ParseMemberAccess
  <1>5. Ahead(stream, stream') /\ Onward(stream, stream')
    <2> HIDE DEF name
    <2>1. Onward(name, stream')
      BY <1>2, <1>3, <1>4, Moving
    <2> QED BY <1>2, <1>3, <2>1, MovingOn
  <1>6. CASE cur(name) # "id"
    <2>1. Continue(<< >>)
      BY <1>6 DEF ParseMemberAccess, Return
    <2> QED BY <1>1, <1>5, <2>1, SolventReturn
  <1>7. CASE cur(name) = "id"
    <2>1. Continue(<<top>>)
      BY <1>7 DEF ParseMemberAccess
    <2>2. /\ Gain \in Nat /\ Gain >= 13 /\ Now \in Nat /\ Saved(ret', Coming') \in {0, 7}
      BY <1>1, <1>5, Gains, WorthTable, WorthIs DEF Now
    <2>3. Work("operators") + Saved(ret', Coming') + 1 <= Gain + Now
      BY ONLY <2>2, WorkIs
    <2> QED BY <1>1, <1>5, <2>1, <2>3, OperatorsPay
  <1> QED BY <1>6, <1>7

LEMMA NextPays ==
  ASSUME Built, BlockOpens, Next
  PROVE  Pays
  <1>1. CASE Parse \/ AddDeclaration \/ ParseDeclaration \/ ParseDeclarator \/ EndVarDecl
               \/ ParseParameter \/ ParseFunctionBody \/ EndFunction
    BY <1>1, ParsePays, AddDeclarationPays, ParseDeclarationPays, ParseDeclaratorPays,
       EndVarDeclPays, ParseParameterPays, ParseFunctionBodyPays, EndFunctionPays
  <1>2. CASE ParseRecordDecl \/ EndRecordDecl \/ SkipMember \/ ParseMember \/ EndMethod
               \/ ParseBlock \/ ParseStatements \/ AddStatement \/ EndBlock
    BY <1>2, ParseRecordDeclPays, EndRecordDeclPays, SkipMemberPays, ParseMemberPays,
       EndMethodPays, ParseBlockPays, ParseStatementsPays, AddStatementPays, EndBlockPays
  <1>3. CASE ParseReturn \/ EndReturn \/ ParseBlockStatement \/ ParseConditional
               \/ EndCondition \/ ParseElse \/ EndConditional
    BY <1>3, ParseReturnPays, EndReturnPays, ParseBlockStatementPays, ParseConditionalPays,
       EndConditionPays, ParseElsePays, EndConditionalPays
  <1>4. CASE ParseDeclStatement \/ EndDeclStatement \/ ParseExprStatement \/ EndExprStatement
    BY <1>4, ParseDeclStatementPays, EndDeclStatementPays, ParseExprStatementPays,
       EndExprStatementPays
  <1>5. CASE ParseHelper \/ ParsePrimary \/ EndParenthesis \/ EndOperators
               \/ ParseOperator \/ EndOperand \/ ParseMemberAccess
    BY <1>5, ParseHelperPays, ParsePrimaryPays, EndParenthesisPays, EndOperatorsPays,
       ParseOperatorPays, EndOperandPays, ParseMemberAccessPays
  <1> QED BY <1>1, <1>2, <1>3, <1>4, <1>5 DEF Next

LEMMA InitPaid ==
  ASSUME CountInit
  PROVE  Paid
  <1>1. /\ Built /\ steps = 0 /\ stream.pos = 1 /\ tasks = <<Call("parse")>> /\ tasks # << >>
    BY InitBuilt DEF CountInit, Init
  <1>2. Len(tasks) = 1 /\ top = Call("parse")
    BY <1>1 DEF top
  <1>3. top.do = "parse"
    BY <1>1, <1>2, DoIs
  <1>4. Now \in {1, 5}
    BY <1>3, WorthTable DEF Now
  <1>5. Credit(stream.pos) = 13
    BY <1>1 DEF Credit
  <1> DEFINE owed == [h \in Nat |-> 0]
  <1>6. owed \in [Nat -> Nat] /\ owed[0] = 0
    OBVIOUS
  <1> HIDE DEF owed
  <1>7. steps + Now + owed[Len(tasks) - 1] <= Credit(stream.pos)
    BY ONLY <1>1, <1>2, <1>4, <1>5, <1>6
  <1>8. Owed(owed)
    BY ONLY <1>1, <1>2, <1>6, <1>7 DEF Owed
  <1>9. BlockOpens
    BY <1>3 DEF BlockOpens
  <1> QED BY <1>1, <1>6, <1>8, <1>9 DEF Paid

LEMMA StepPaid ==
  ASSUME Built, Paid, [CountNext]_countVars
  PROVE  Paid'
  <1>1. CASE CountNext
    BY <1>1, NextPays, PaysKeeps DEF CountNext, Paid
  <1>2. CASE UNCHANGED countVars
    <2>1. /\ tokens' = tokens /\ stream' = stream /\ tasks' = tasks /\ ret' = ret
          /\ steps' = steps
      BY <1>2 DEF countVars, parserVars
    <2>2. top' = top /\ Coming' = Coming
      BY <2>1 DEF top, Coming, cur
    <2>3. Now' = Now
      BY <2>1, <2>2 DEF Now
    <2>4. BlockOpens'
      BY <2>1, <2>2 DEF BlockOpens, Paid
    <2>5. PICK owed \in [Nat -> Nat] : Owed(owed)
      BY DEF Paid
    <2>6. Owed(owed)'
      BY <2>1, <2>3, <2>5 DEF Owed
    <2> QED BY <2>1, <2>4, <2>5, <2>6 DEF Paid
  <1> QED BY <1>1, <1>2 DEF CountNext

(* Steps are bounded by the tokens come to, with the calls still open.     *)
StepsBounded == steps + Len(tasks) <= Credit(stream.pos)

(* Parsing takes no more than 13 steps for every token it has come to,     *)
(* whatever the tokens are: no function of Parser.cpp and no turn of its   *)
(* loops, those of the error recovery included, is repeated at the same    *)
(* token without end.  And the calls that are open at a token are no more  *)
(* than what is left of these steps: the C++ stack is bounded by the file. *)
THEOREM ParsingIsLinear == CountSpec => []StepsBounded
  <1>1. CountInit => Built /\ Paid
    BY InitBuilt, InitPaid DEF CountInit
  <1>2. (Built /\ Paid) /\ [CountNext]_countVars => (Built /\ Paid)'
    <2> SUFFICES ASSUME Built, Paid, [CountNext]_countVars
                 PROVE  Built' /\ Paid'
      OBVIOUS
    <2>1. [Next]_parserVars
      BY DEF CountNext, countVars
    <2> QED BY <2>1, StepKeeps, StepPaid
  <1>3. Built /\ Paid => StepsBounded
    <2> SUFFICES ASSUME Built, Paid
                 PROVE  StepsBounded
      OBVIOUS
    <2>1. PICK owed \in [Nat -> Nat] : Owed(owed)
      BY DEF Paid
    <2>2. Typed /\ Len(tasks) \in Nat /\ (tasks # << >> <=> Len(tasks) > 0)
      BY Shapes DEF Built
    <2>3. CASE tasks = << >>
      <3>1. steps \in Nat /\ steps <= Credit(stream.pos) /\ Len(tasks) = 0
        BY <2>1, <2>3 DEF Owed, Paid
      <3> QED BY ONLY <3>1 DEF StepsBounded
    <2>4. CASE tasks # << >>
      <3>1. stream.pos \in Nat /\ steps \in Nat /\ Len(tasks) >= 1
        <4>1. stream.pos \in 1..Len(tokens) /\ Len(tokens) \in Nat
          BY <2>4, TopFacts
        <4>2. steps \in Nat
          BY DEF Paid
        <4>3. Len(tasks) \in Nat /\ Len(tasks) > 0
          BY ONLY <2>2, <2>4, Zenon
        <4>4. Len(tasks) >= 1
          BY ONLY <4>3
        <4>5. stream.pos \in Nat
          BY ONLY <4>1
        <4> QED BY ONLY <4>2, <4>4, <4>5, Zenon
      <3>2. /\ Len(tasks) - 1 \in 0..(Len(tasks) - 1)
            /\ steps + Now + owed[Len(tasks) - 1] <= Credit(stream.pos)
        BY <2>1, <2>2, <2>4, <3>1 DEF Owed
      <3>3. owed[Len(tasks) - 1] >= Len(tasks) - 1 /\ owed[Len(tasks) - 1] \in Nat
        BY <2>1, <2>2, <3>1, <3>2 DEF Owed
      <3>4. Now \in Nat /\ Now >= 1 /\ Credit(stream.pos) \in Nat
        BY <3>1, WorthIs, Credits DEF Now
      <3> QED BY ONLY <2>2, <3>1, <3>2, <3>3, <3>4 DEF StepsBounded
    <2> QED BY <2>3, <2>4
  <1> QED BY <1>1, <1>2, <1>3, PTL DEF CountSpec
=============================================================================
