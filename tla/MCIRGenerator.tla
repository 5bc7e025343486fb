---------------------------- MODULE MCIRGenerator ----------------------------
(* Instances of IRGenerator: the statements of the language nested to two  *)
(* levels, with globals, records, members and fields around them.          *)
EXTENDS IRGenerator, SourcePrograms

Exprs == {Lit(1), Use("x"), Use("g"), Bin("+", Use("x"), Lit(1)),
          Bin("-", Use("x"), Bin("-", Lit(2), Use("y")))}
Odd == {Bin(">", Use("x"), Lit(0)), Bin("+", Use("g"), Lit(2)),
        Mem(Use("x"), "f"), Bin("=", Use("y"), Use("x")),
        Bin("=", Mem(Use("x"), "f"), Lit(1))}
Simple == {Assign("x", e) : e \in Exprs}
     \cup {ExprS(e) : e \in Odd}
     \cup {DeclS(VarD("x")), DeclS(VarI("y", Use("x"))), Return(Use("y")),
           Return(Use("g"))}
Few == {Assign("x", Use("y")), DeclS(VarI("y", Lit(3))), Return(Use("x"))}
Nested == {If(Use("x"), Compound(<<s>>)) : s \in Simple}
     \cup {IfElse(Use("x"), s, t) : s \in Few, t \in Few}
     \cup {While(Bin("-", Use("x"), Lit(1)), Compound(<<s, t>>)) : s \in Few, t \in Few}
     \cup {If(Use("x"), While(Use("y"), s)) : s \in Few}
     \cup {While(Use("x"), If(Use("y"), s)) : s \in Few}

Body(s, t) == <<DeclS(VarI("x", Lit(2))), DeclS(VarD("y")), s, t, Return(Use("x"))>>
Bodies == {Body(s, t) : s \in Few \cup {ReturnVoid}, t \in Nested}
     \cup {Body(t, s) : s \in Few, t \in Nested}
     \cup {Body(s, t) : s \in Few, t \in Simple}

(* Functions declared in a body, with a body of their own or without.      *)
Local == {DeclS(Prototype("f")), DeclS(Function("f", <<Return(Lit(1))>>))}
LocalIn(d) ==
  {Body(d, If(Use("x"), t)) : t \in Few}
    \cup {Body(If(Use("x"), Compound(<<d, t>>)), While(Use("y"), t)) : t \in Few}
    \cup {Body(IfElse(Use("x"), d, t), Return(Use("y"))) : t \in Few}
    \cup {Body(While(Use("x"), Compound(<<d, t>>)), t) : t \in Few}

Globals == {<< >>, <<Prototype("f"), VarI("g", Lit(1))>>,
            <<VarI("g", Bin("+", Lit(1), Lit(2))),
              VarI("h", Bin("+", Use("g"), Lit(1)))>>,
            <<VarI("h", Mem(Lit(1), "f"))>>, <<VarI("g", Mem(Use("h"), "f"))>>}
FewBodies == {Body(s, t) : s \in Few, t \in {Return(Use("y")), ExprS(Use("x"))}}
Units == {Unit(<<Function("main", b)>>) : b \in Bodies}
    \cup {Unit(g \o <<Function("main", b), VarI("h", Use("g"))>>) :
            g \in Globals, b \in FewBodies}
    \cup {Unit(<<Function("f", b), Function("main", c)>>) : b \in FewBodies, c \in FewBodies}
    \cup {Unit(<<Record("c", <<Field("x"), Method("m", b)>>)>>) : b \in FewBodies}
    \cup {Unit(<<Function("main", b), VarI("h", Use("g"))>>) : b \in UNION {LocalIn(d) : d \in Local}}

(* Uses of a field, in a method and, as after a record, elsewhere.         *)
FieldUses(u) == {n \in DOMAIN u : u[n].kind = "variable" /\ u[n].name = "f"}
Method_(e) ==
  Unit(<<Record("c", <<Field("f"), Method("m", <<Assign("f", e), Return(e)>>)>>)>>)
Methods == {Method_(e) : e \in {Use("f"), Bin("+", Use("f"), Lit(1))}}
      \cup {Unit(<<Function("main", <<Return(Use("f"))>>)>>)}

GenUnits == {[ast |-> u, isField |-> {}] : u \in Units}
       \cup {[ast |-> u, isField |-> FieldUses(u)] : u \in Methods}
GenNames == {"", "=", "+", "-", ">", "x", "y", "g", "h", "f", "c", "m", "main", "this"}

(* README.md: int counter = 10; while (counter > 0) { .. } return counter; *)
ReadmeLoop ==
  << DeclS(VarI("x", Lit(10))),
     While(Bin(">", Use("x"), Lit(0)),
           Compound(<<Assign("x", Bin("-", Use("x"), Lit(1)))>>)),
     Return(Use("x")) >>

(* int x = 1; int f(); if (x) { } return x;                                *)
LocalPrototype ==
  << DeclS(VarI("x", Lit(1))), DeclS(Prototype("f")),
     If(Use("x"), Compound(<< >>)), Return(Use("x")) >>

Contradicting ==
  {[ast |-> Unit(<<Function("main", b)>>), isField |-> {}] :
     b \in {ReadmeLoop, LocalPrototype}}
=============================================================================
