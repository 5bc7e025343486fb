---------------------------- MODULE MCOptimizer -----------------------------
(* Instances of Optimizer: functions of two int variables, with constants  *)
(* to fold, results that wrap around, variables and loads that are dead,   *)
(* and a literal that does not fit into an int.                            *)
EXTENDS Optimizer, Programs

Consts(op, m, n) == <<op, Const(m), Const(n)>>

Exprs == {Num(5), Var(1), Sum(1, 2), Consts("add", 3, 4), Consts("sub", 2, 7)}
Sets == {<<1, Num(7)>>, <<2, Var(1)>>, <<1, Consts("sub", 1, 3)>>,
         <<2, Consts("add", 6, 5)>>, <<2, Diff(1, Const(1))>>}
TooLarge == <<1, Consts("add", 1, 9)>>
Lists(n) == [1..n -> Sets]

(* return (a + b) + c; with the inner sum computed first.                  *)
Nested(a, b, c) ==
  Func("main", << Block("entry",
     << AddInst(NVars + 1, a, b), AddInst(NVars + 2, Ref(NVars + 1), c),
        SubInst(NVars + 3, Ref(NVars + 2), Ref(NVars + 1)),
        Ret(Ref(NVars + 3)) >>) >>)

(* x; 1 + x; as statements: loads and sums that nothing uses.              *)
Idle(n) ==
  Func("main", << Block("entry",
     << Alloca(1), Load(NVars + 1, Ref(1)),
        AddInst(NVars + 2, Const(n), Ref(NVars + 1)),
        SubInst(NVars + 3, Ref(NVars + 2), Const(n)), RetVoid >>) >>)

OptModules ==
       {<<Flat("main", s, e)>> : s \in Lists(1) \cup Lists(2), e \in Exprs}
  \cup {<<Branchy("main", s, c, t, e)>> :
          s \in Lists(1), t \in Lists(1), c \in {Var(1), Consts("sub", 2, 2)},
          e \in Exprs}
  \cup {<<Loopy("main", s, c, t, e)>> :
          s \in Lists(1), t \in Lists(1), c \in {Var(1), Consts("sub", 2, 2)},
          e \in {Var(1), Consts("add", 3, 4)}}
  \cup {<<Procedure("f", <<s>>, ret), Apart(Flat("main", <<t>>, e), NVars + 6)>> :
          s \in Sets, t \in Sets, ret \in BOOLEAN, e \in {Var(1), Sum(1, 2)}}
  \cup {<<Flat("main", <<s, TooLarge>>, Var(1))>> : s \in Sets}
  \cup {<<Nested(a, b, c)>> : a \in {Const(1), Const(7)},
          b \in {Const(2), Const(7)}, c \in {Const(3), Const(-8)}}
  \cup {<<Idle(n)>> : n \in {0, 3}}
=============================================================================
