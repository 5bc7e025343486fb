----------------------------- MODULE MCCompiler ------------------------------
(* Instances of Compiler: functions of two or three int variables with     *)
(* distinct names, and one with a name declared in two blocks.             *)
EXTENDS Compiler, SourcePrograms

MCValues == 1..40
CodePool == <<"ecx", "edx", "r8d", "r9d", "r10d", "r11d">>
MCNames == {"", "=", "+", "-", "x", "y", "z", "f", "main", "this"}

Exprs == {Lit(1), Use("x"), Bin("+", Use("x"), Use("y")),
          Bin("-", Bin("-", Use("x"), Lit(1)), Use("y"))}
Simple == {Assign("x", e) : e \in Exprs}
     \cup {Assign("y", Bin("=", Use("x"), Lit(3))), Return(Use("y")), Compound(<< >>)}
Down(v) == Assign(v, Bin("-", Use(v), Lit(1)))
Local(s) == Compound(<<DeclS(VarI("z", Use("x"))), s, Assign("x", Use("z"))>>)
Nested ==
       {If(c, s) : c \in {Use("x"), Lit(0)}, s \in Simple}
  \cup {IfElse(Use("y"), s, Local(t)) : s \in Simple, t \in Simple}
  \cup {While(Use("x"), Compound(<<Down("x"), s>>)) : s \in Simple}
  \cup {While(Use("y"), Compound(<<If(Use("x"), s), Down("y")>>)) : s \in Simple}
  \cup {If(Use("x"), While(Use("y"), Compound(<<Down("y"), s>>))) : s \in Simple}
  \cup {If(Use("x"), If(Use("y"), s)) : s \in Simple}

Body(first, s, t) ==
  <<DeclS(VarI("x", Lit(2))), DeclS(first), s, t, Return(Use("x"))>>
CorePrograms ==
       {Unit(<<Function("main", Body(VarI("y", Lit(2)), s, t))>>) :
          s \in Simple, t \in Nested}
  \cup {Unit(<<Function("main", Body(VarD("y"), t, s))>>) :
          s \in Simple, t \in Nested}
  \cup {Unit(<<Function("f", Body(VarI("y", Lit(0)), s, s)),
               Function("main", Body(VarI("y", Lit(5)), s, s))>>) : s \in Simple}

(* Programs that the back end gets right: constants to fold, results that  *)
(* wrap around, assignments in expressions, and branches with variables of *)
(* their own; and some with a literal that does not fit.                   *)
Sums == {Bin("+", Lit(7), Lit(2)), Bin("-", Lit(1), Bin("+", Lit(3), Lit(6))),
         Bin("+", Use("x"), Bin("-", Lit(5), Lit(2))), Bin("-", Use("y"), Use("x")),
         Bin("+", Bin("=", Use("y"), Lit(4)), Use("y")), Lit(3)}
TooLarge == {Lit(9), Bin("+", Lit(1), Lit(8))}
Statements == {Assign("x", e) : e \in Sums} \cup {ExprS(Bin("+", Use("x"), Lit(1)))}
Inner(e) ==
  {Compound(<<DeclS(VarI("z", e)), Assign("z", Bin("-", Lit(1), Use("z"))), s>>) :
     s \in {Return(Use("z")), ExprS(Use("z"))}}
Straight(e, s, t, r) ==
  Unit(<<Function("main", <<DeclS(VarI("x", e)), DeclS(VarI("y", Lit(2))), s, t, Return(r)>>)>>)
Branching(e, s, inner, r) ==
  Unit(<<Function("main", <<DeclS(VarI("x", e)), DeclS(VarI("y", Lit(2))), s,
                            If(Bin("-", Use("x"), Use("y")), inner), Return(r)>>)>>)
GoodPrograms ==
       {Straight(e, s, t, r) : e \in {Lit(5), Bin("-", Lit(2), Lit(3))}, s \in Statements,
          t \in Statements, r \in {Use("x"), Bin("+", Use("y"), Use("x"))}}
  \cup {Branching(e, s, i_, Lit(6)) : e \in {Lit(2), Lit(3)}, s \in Statements,
          i_ \in UNION {Inner(f) : f \in {Lit(1), Bin("+", Lit(7), Lit(7))}}}
  \cup {Straight(e, s, s, Use("y")) : e \in TooLarge, s \in Statements}

AllPrograms == CorePrograms \cup GoodPrograms

(* int main() { int x = 2; int y = 1; { int x = 3; } y = x; return x; }    *)
Shadowing ==
  {Unit(<<Function("main",
            Body(VarI("y", Lit(1)), Compound(<<DeclS(VarI("x", Lit(3)))>>),
                 Assign("y", Use("x"))))>>)}
=============================================================================
