--------------------------------- MODULE AST ---------------------------------
(***************************************************************************)
(* The abstract syntax tree that Parser builds and SemanticAnalyzer and    *)
(* IRGenerator visit, as data: a sequence of nodes, each with the          *)
(* positions of its children.  A node comes before its children, siblings  *)
(* come in the order of the source, a record's fields before its methods   *)
(* (RecordDecl keeps two vectors), and the root is node 1.                 *)
(***************************************************************************)
EXTENDS Integers, Sequences

(* name: of what is declared or mentioned, or the operator of a binary     *)
(* expression; num: the number that a literal spells; type and params: what*)
(* the source says that a function returns and takes.  Parser keeps the    *)
(* parameters of functions, skips those of methods, and stores no type:    *)
(* every TypeNode is the same empty node.                                  *)
FunctionNode(kind, type, name, params, kids) ==
  [kind |-> kind, name |-> name, num |-> 0, kids |-> kids,
   type |-> type, params |-> params]
Node(kind, name, num, kids) ==
  [FunctionNode(kind, "int", name, << >>, kids) EXCEPT !.num = num]

ExprKinds == {"literal", "variable", "binary", "member"}
DeclKinds == {"vardecl", "function", "method", "field", "record"}
StmtKinds == {"compound", "return", "exprstmt", "declstmt", "if", "while"}
Kinds == ExprKinds \cup DeclKinds \cup StmtKinds \cup {"unit"}

(* void, and the types of a value, which the code does not tell apart.     *)
ReturnTypes == {"int", "void"}
Nodes(Names) == [kind : Kinds, name : Names, num : Int, kids : Seq(Nat \ {0}),
                 type : ReturnTypes, params : Seq(Names)]

Kid(ast, n, k) == ast[n].kids[k]
KidsOf(ast, n) == {ast[n].kids[k] : k \in DOMAIN ast[n].kids}
KindsOfKids(ast, n) == {ast[c].kind : c \in KidsOf(ast, n)}

(* A function or method has a return type and parameters.                  *)
Returning(ast, n) ==
  ast[n].kind \in {"function", "method"} \/ (ast[n].type = "int" /\ ast[n].params = << >>)

(* What the classes of include/ast allow as children, and what is there    *)
(* when parsing reported no error.                                         *)
WellShaped(ast, n) ==
  LET arity == Len(ast[n].kids)
      Are(K) == KindsOfKids(ast, n) \subseteq K
      Is(k, K) == ast[Kid(ast, n, k)].kind \in K
  IN CASE ast[n].kind = "unit" -> Are({"function", "vardecl", "record"})
       [] ast[n].kind = "record" ->
            /\ Are({"field", "method"})
            /\ \A k \in 2..arity : Is(k, {"field"}) => Is(k - 1, {"field"})
       [] ast[n].kind \in {"function", "method"} ->
            arity <= 1 /\ Are({"compound"})
       [] ast[n].kind = "vardecl" -> arity <= 1 /\ Are(ExprKinds)
       [] ast[n].kind = "compound" -> Are(StmtKinds)
       [] ast[n].kind = "return" -> arity <= 1 /\ Are(ExprKinds)
       [] ast[n].kind = "exprstmt" -> arity = 1 /\ Are(ExprKinds)
       [] ast[n].kind = "declstmt" -> arity = 1 /\ Are({"vardecl", "function"})
       [] ast[n].kind = "if" ->
            /\ arity \in 2..3 /\ Is(1, ExprKinds)
            /\ \A k \in 2..arity : Is(k, StmtKinds)
       [] ast[n].kind = "while" ->
            arity = 2 /\ Is(1, ExprKinds) /\ Is(2, StmtKinds)
       [] ast[n].kind = "binary" -> arity = 2 /\ Are(ExprKinds)
       [] ast[n].kind = "member" -> arity = 1 /\ Are(ExprKinds)
       [] ast[n].kind \in {"field", "literal", "variable"} -> arity = 0

(* A tree in the order of the source: every node but the root is the child *)
(* of one node, which comes before it, and is one child of that node only; *)
(* what lies between a node and a child of it lies below the node; and no  *)
(* name is `this`, which is a keyword of the lexer.                        *)
IsTree(ast) ==
  /\ ast # << >> /\ ast[1].kind = "unit"
  /\ \A n \in DOMAIN ast : WellShaped(ast, n) /\ Returning(ast, n)
  /\ \A n \in DOMAIN ast : \A k \in DOMAIN ast[n].kids :
       /\ Kid(ast, n, k) \in (n + 1)..Len(ast)
       /\ k > 1 => Kid(ast, n, k - 1) < Kid(ast, n, k)
  /\ \A n \in 2..Len(ast) :
       \E p \in 1..(n - 1) :
         /\ n \in KidsOf(ast, p)
         /\ \A q \in 1..(n - 1) : n \in KidsOf(ast, q) => q = p
  /\ \A p \in DOMAIN ast : \A c \in KidsOf(ast, p) : \A n \in (p + 1)..(c - 1) :
       \E q \in p..(n - 1) : n \in KidsOf(ast, q)
  /\ \A n \in DOMAIN ast : ast[n].name # "this"
  /\ \A n \in DOMAIN ast : \A k \in DOMAIN ast[n].params : ast[n].params[k] # "this"

Trees(Names) == {ast \in Seq(Nodes(Names)) : IsTree(ast)}
=============================================================================
