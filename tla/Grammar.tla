------------------------------- MODULE Grammar -------------------------------
(***************************************************************************)
(* The language that README.md:96-101 says is supported, as a grammar: for *)
(* every kind of phrase, the positions at which a phrase that starts at i  *)
(* may end.  Parser knows nothing of its pointers, arrays and unary        *)
(* operators.                                                              *)
(***************************************************************************)
EXTENDS Parser

Unary == {"!", "+", "*"}

At(i, kinds) == i \in DOMAIN tokens /\ tokens[i] \in kinds
Token(I, kinds) == {i + 1 : i \in {j \in I : At(j, kinds)}}
Tok(I, kind) == Token(I, {kind})

RECURSIVE Many(_, _)
Many(I, kinds) == IF I = {} THEN {} ELSE I \cup Many(Token(I, kinds), kinds)

RECURSIVE Expr(_)
RECURSIVE Chain(_)
Exprs_(I) == UNION {Expr(i) : i \in I}
Index(I) == Tok(Exprs_(Tok(I, "[")), "]")

(* expr    := operand { operator operand | '.' id | '[' expr ']' }         *)
(* operand := { unary } ( literal | id | '(' expr ')' )                    *)
Operand(I) ==
  LET start == Many(I, Unary)
  IN Token(start, Literals \cup {"id"}) \cup Tok(Exprs_(Tok(start, "(")), ")")
Chain(I) ==
  IF I = {} THEN {}
  ELSE I \cup Chain(Operand(Token(I, Operators)) \cup Tok(Token(I, Members), "id")
                      \cup Index(I))
Expr(i) == Chain(Operand({i}))

(* named := type { '*' } id;  variable := named [ '[' expr ']' ]           *)
Named(I) == Tok(Many(Token(I, Types), {"*"}), "id")
Array(I) == I \cup Index(I)
Variable(I) == Array(Named(I))

(* parameters := [ variable { ',' variable } ]                             *)
RECURSIVE Parameters(_)
Separated(I) == I \cup (IF I = {} THEN {} ELSE Parameters(Tok(I, ",")))
Parameters(I) == Separated(Variable(I))

RECURSIVE Stmt(_)
RECURSIVE Stmts(_)
StmtAt(I) == UNION {Stmt(i) : i \in I}
Stmts(I) == IF I = {} THEN {} ELSE I \cup Stmts(StmtAt(I))
BlockAt(I) == Tok(Stmts(Tok(I, "{")), "}")

(* if and while; else; and what a declaration may end with.               *)
Condition(I) == Tok(Exprs_(Tok(I, "(")), ")")
OrElse(I) == I \cup StmtAt(Tok(I, "else"))
MayReturn(I) == Tok(I \cup Exprs_(I), ";")
Valued(I) == Tok(I \cup Exprs_(Tok(I, "=")), ";")
Defined(I) == BlockAt(I) \cup Tok(I, ";")

(* declaration of a variable or function                                   *)
Function(I) == Defined(Tok(I \cup Parameters(I), ")"))
Decl(I) == Valued(Variable(I)) \cup Function(Tok(Named(I), "("))

Stmt(i) ==
  MayReturn(Tok({i}, "return")) \cup BlockAt({i})
    \cup OrElse(StmtAt(Condition(Tok({i}, "if"))))
    \cup StmtAt(Condition(Tok({i}, "while")))
    \cup Decl({i}) \cup Tok(Expr(i), ";")

(* The parameters of a method are skipped, whatever they are.              *)
Skipped(I) ==
  {j \in DOMAIN tokens : \E i \in I : i <= j /\ \A k \in i..(j - 1) : tokens[k] # ")"}

RECURSIVE MembersFrom(_)
Member(I) ==
  Tok(Token(I, Accesses), ":") \cup Tok(Variable(I), ";")
    \cup Defined(Tok(Skipped(Tok(Named(I), "(")), ")"))
MembersFrom(I) == IF I = {} THEN {} ELSE I \cup MembersFrom(Member(I))

Bodied(I) == I \cup Tok(MembersFrom(Tok(I, "{")), "}")
RecordAt(I) == Tok(Bodied(Tok(Token(I, RecordKeys), "id")), ";")

RECURSIVE Unit(_)
Unit(I) == IF I = {} THEN {} ELSE I \cup Unit(Decl(I) \cup RecordAt(I))

Documented == Len(tokens) \in Unit({1})

(* Nothing in the text is a pointer, an array or a unary operator: what    *)
(* could be one stands behind an operand, in the middle of an expression.  *)
EndsCondition(k) ==
  \E j \in 1..(k - 1) :
    tokens[j] \in {"if", "while"} /\ k + 1 \in Tok(Exprs_(Tok({j + 1}, "(")), ")")

Implemented ==
  \A k \in DOMAIN tokens : tokens[k] \in Unary \cup {"[", "]"} =>
    /\ tokens[k] \in Operators /\ k > 1
    /\ tokens[k - 1] \in Literals \cup {"id", ")"} /\ ~EndsCondition(k - 1)

(* What is accepted is of the language, and of a text of the language no   *)
(* error is reported, unless it uses what is not implemented.              *)
LanguageAccepted ==
  Parsed => IF Documented THEN Implemented => stream.errors = {}
            ELSE stream.errors # {}

(* README.md:98, 100: pointers, arrays and unary operations are supported. *)
WholeLanguageAccepted == Parsed /\ Documented => stream.errors = {}
=============================================================================
