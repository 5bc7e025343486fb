------------------------- MODULE MCSemanticAnalyzer -------------------------
(* Instances of SemanticAnalyzer: two names that are declared, shadowed    *)
(* and used at every place of small functions, as globals, as fields, as   *)
(* parameters and as functions declared in blocks, void ones among them.   *)
EXTENDS SemanticAnalyzer, SourcePrograms

Simple == {DeclS(VarD("x")), DeclS(VarI("y", Use("x"))), Assign("x", Use("y")),
           Return(Use("y")), ReturnVoid}
Nested == {Compound(<<s>>) : s \in Simple}
     \cup {Compound(<<s, t>>) : s \in {DeclS(VarD("x")), DeclS(VarD("y"))},
                                t \in Simple}
     \cup {If(Use("x"), s) : s \in Simple}
     \cup {While(Use("y"), Compound(<<s, Return(Mem(Use("x"), "z"))>>)) : s \in Simple}
     \cup {IfElse(Use("x"), Compound(<<DeclS(VarD("y"))>>), s) : s \in Simple}

Bodies == {<<s, t>> : s \in Simple, t \in Nested}
     \cup {<<t, s>> : s \in Simple, t \in Nested}
     \cup {<<s, t, Return(Lit(0))>> : s \in Simple, t \in Simple}

(* Functions declared in a block, ahead of other statements of it.         *)
Inner == {DeclS(Prototype("x")), DeclS(Function("f", <<ReturnVoid>>)),
          DeclS(FunctionOf("void", "f", <<"y">>, <<Assign("y", Use("x")), ReturnVoid>>))}
Typed ==
       {<<f, s>> : f \in Inner, s \in Simple \cup Nested}
  \cup {<<Compound(<<f>>), s>> : f \in Inner, s \in Simple}
  \cup {<<s, t>> : s \in Simple, t \in Simple}
Parameters == {<< >>, <<"x">>, <<"x", "y">>, <<"x", "x">>}

Globals == {<< >>, <<VarD("x")>>, <<VarI("y", Use("x")), VarD("x")>>,
            <<Prototype("x")>>}
Members == {<<Field("x")>>, <<Field("x"), Field("y"), Field("x")>>,
            <<Field("y"), Method("x", <<Return(Use("y"))>>)>>}
Class(members, method) ==
  Unit(<<Record("c", members \o <<method>>), Function("main", <<Return(Use("x"))>>)>>)

SemaPrograms ==
       {Unit(g \o <<Function("main", b)>>) : g \in Globals, b \in Bodies}
  \cup {Class(ms, Method("m", b)) : ms \in Members, b \in Bodies}
  \cup {Unit(<<FunctionOf(t, "main", ps, b)>>) :
          t \in ReturnTypes, ps \in Parameters, b \in Typed}
  \cup {Class(<<Field("x")>>, MethodOf(t, "m", ps, b)) :
          t \in ReturnTypes, ps \in Parameters, b \in Typed}
SemaNames == {"", "=", "x", "y", "z", "c", "f", "m", "main", "this"}
=============================================================================
