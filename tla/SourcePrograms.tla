--------------------------- MODULE SourcePrograms ---------------------------
(* Programs for TLC: trees written as nested terms, and their nodes laid   *)
(* out as the sequence that AST describes.                                 *)
EXTENDS AST, SequencesExt

Term(kind, name, num, kids) == Node(kind, name, num, kids)

RECURSIVE Layout(_, _)
Layout(t, n) ==
  LET Lay(acc, kid) ==
        LET at == n + 1 + Len(acc.nodes)
        IN [nodes |-> acc.nodes \o Layout(kid, at), kids |-> Append(acc.kids, at)]
      below == FoldLeft(Lay, [nodes |-> << >>, kids |-> << >>], t.kids)
  IN <<[t EXCEPT !.kids = below.kids]>> \o below.nodes

Tree(t) == Layout(t, 1)

Lit(n) == Term("literal", "", n, << >>)
Use(x) == Term("variable", x, 0, << >>)
Bin(op, l, r) == Term("binary", op, 0, <<l, r>>)
Mem(e, x) == Term("member", x, 0, <<e>>)
Assign(x, e) == Term("exprstmt", "", 0, <<Bin("=", Use(x), e)>>)
ExprS(e) == Term("exprstmt", "", 0, <<e>>)
VarD(x) == Term("vardecl", x, 0, << >>)
VarI(x, e) == Term("vardecl", x, 0, <<e>>)
DeclS(d) == Term("declstmt", "", 0, <<d>>)
Return(e) == Term("return", "", 0, <<e>>)
ReturnVoid == Term("return", "", 0, << >>)
Compound(ss) == Term("compound", "", 0, ss)
If(c, t) == Term("if", "", 0, <<c, t>>)
IfElse(c, t, e) == Term("if", "", 0, <<c, t, e>>)
While(c, b) == Term("while", "", 0, <<c, b>>)
FunctionOf(type, x, params, ss) == FunctionNode("function", type, x, params, <<Compound(ss)>>)
Function(x, ss) == FunctionOf("int", x, << >>, ss)
Prototype(x) == Term("function", x, 0, << >>)
MethodOf(type, x, params, ss) == FunctionNode("method", type, x, params, <<Compound(ss)>>)
Method(x, ss) == MethodOf("int", x, << >>, ss)
Field(x) == Term("field", x, 0, << >>)
Record(x, members) == Term("record", x, 0, members)
Unit(ds) == Tree(Term("unit", "", 0, ds))
=============================================================================
