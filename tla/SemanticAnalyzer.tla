-------------------------- MODULE SemanticAnalyzer --------------------------
(***************************************************************************)
(* SemanticAnalyzer: one visit of the tree that keeps a stack of scopes,   *)
(* resolves the names of variables and reports what is declared twice,     *)
(* used undeclared or returned without a value.  The recursion of the      *)
(* visit methods is a list of what is left to do, the next task first.     *)
(*                                                                         *)
(* Every type that the analyzer sets is the same Int, whatever the source  *)
(* says, and nothing reads it but the test of currentReturnType for null;  *)
(* parameters are not declared.  The properties judge what is reported by  *)
(* the types and parameters of the source.                                 *)
(***************************************************************************)
EXTENDS AST, FiniteSets, SequencesExt

CONSTANTS
  Names,     \* identifiers and operators of the programs
  Programs   \* the translation units handed to analyze()

ASSUME ProgramsAssumption == Programs \subseteq Trees(Names)

VARIABLES
  ast,               \* the translation unit, never changed
  tasks,             \* what the visit methods on the C++ stack still do
  scopes,            \* currentScope and its parents, innermost first
  currentReturnType, \* "int", or "null" outside of functions
  isField,           \* the VariableExprs on which setIsField was called
  errors             \* the nodes at which diags.error was called

semaVars == <<ast, tasks, scopes, currentReturnType, isField, errors>>

(* Entries of a scope: the declaring node, or none; `this` has a symbol    *)
(* without a declaration.                                                  *)
Absent == 0
NoDecl == -1

EmptyScope == [x \in Names |-> Absent]
Holds(scope, x) == scope[x] # Absent

Task(do, n) == [do |-> do, node |-> n]
Visit(n) == Task("visit", n)
VisitAll(ns) == [k \in DOMAIN ns |-> Visit(ns[k])]

top == Head(tasks)
node == ast[top.node]
Doing(do) == tasks # << >> /\ top.do = do
Visiting(kinds) == Doing("visit") /\ node.kind \in kinds
Continue(ts) == tasks' = ts \o Tail(tasks)

(* As if every scope were searched for a clash.                            *)
ReportedAnywhere(ss, x, n) ==
  IF \E k \in DOMAIN ss : Holds(ss[k], x) THEN errors \cup {n} ELSE errors

-----------------------------------------------------------------------------
(* Scope::declare, and the report when it fails.                           *)
Declare(ss, x, d) ==
  IF Holds(Head(ss), x) THEN ss ELSE [ss EXCEPT ![1][x] = d]
Reported(ss, x, n) ==
  IF Holds(Head(ss), x) THEN errors \cup {n} ELSE errors

enterScope(ss) == <<EmptyScope>> \o ss
leaveScope(ss) == Tail(ss)

(* Scope::lookup: the entry of the innermost scope that has one.           *)
lookupOutermost(ss, x) ==
  LET Found == {k \in DOMAIN ss : Holds(ss[k], x)}
  IN IF Found = {} THEN Absent
     ELSE ss[CHOOSE k \in Found : \A j \in Found : k >= j][x]
lookup(ss, x) ==
  LET Found == {k \in DOMAIN ss : Holds(ss[k], x)}
  IN IF Found = {} THEN Absent
     ELSE ss[CHOOSE k \in Found : \A j \in Found : k <= j][x]

-----------------------------------------------------------------------------
Init ==
  /\ ast \in Programs
  /\ tasks = <<Visit(1)>>
  /\ scopes = << >>
  /\ currentReturnType = "null"
  /\ isField = {}
  /\ errors = {}

VisitTranslationUnit ==
  /\ Visiting({"unit"})
  /\ scopes' = enterScope(scopes)
  /\ Continue(VisitAll(node.kids) \o <<Task("leave", top.node)>>)
  /\ UNCHANGED <<ast, currentReturnType, isField, errors>>

(* visit(FunctionDecl): a body gets a scope of its own around its block.   *)
VisitFunctionDecl ==
  /\ Visiting({"function", "method"})
  /\ errors' = Reported(scopes, node.name, top.node)
  /\ LET declared == Declare(scopes, node.name, top.node)
     IN IF node.kids = << >>
        THEN /\ scopes' = declared
             /\ currentReturnType' = "null"
             /\ Continue(<< >>)
        ELSE /\ scopes' = enterScope(declared)
             /\ currentReturnType' = "int"
             /\ Continue(VisitAll(node.kids) \o <<Task("endFunction", top.node)>>)
  /\ UNCHANGED <<ast, isField>>

EndFunctionDeclOnly ==
  /\ Doing("endFunction")
  /\ scopes' = leaveScope(scopes)
  /\ Continue(<< >>)
  /\ UNCHANGED <<ast, currentReturnType, isField, errors>>

EndFunctionDecl ==
  /\ Doing("endFunction")
  /\ scopes' = leaveScope(scopes)
  /\ currentReturnType' = "null"
  /\ Continue(<< >>)
  /\ UNCHANGED <<ast, isField, errors>>

VisitFieldDecl ==
  /\ Visiting({"field"})
  /\ errors' = Reported(scopes, node.name, top.node)
  /\ scopes' = Declare(scopes, node.name, top.node)
  /\ Continue(<< >>)
  /\ UNCHANGED <<ast, currentReturnType, isField>>

VisitRecordDecl ==
  /\ Visiting({"record"})
  /\ errors' = Reported(scopes, node.name, top.node)
  /\ scopes' = Declare(enterScope(Declare(scopes, node.name, top.node)),
                       "this", NoDecl)
  /\ Continue(VisitAll(node.kids) \o <<Task("leave", top.node)>>)
  /\ UNCHANGED <<ast, currentReturnType, isField>>

(* visit(VarDecl): the initializer comes before the declaration.           *)
VisitVarDecl ==
  /\ Visiting({"vardecl"})
  /\ Continue(VisitAll(node.kids) \o <<Task("declare", top.node)>>)
  /\ UNCHANGED <<ast, scopes, currentReturnType, isField, errors>>

DeclareVar ==
  /\ Doing("declare")
  /\ errors' = Reported(scopes, node.name, top.node)
  /\ scopes' = Declare(scopes, node.name, top.node)
  /\ Continue(<< >>)
  /\ UNCHANGED <<ast, currentReturnType, isField>>

VisitCompoundStmtInPlace ==
  /\ Visiting({"compound"})
  /\ scopes' = enterScope(scopes)
  /\ Continue(VisitAll(node.kids))
  /\ UNCHANGED <<ast, currentReturnType, isField, errors>>

VisitCompoundStmt ==
  /\ Visiting({"compound"})
  /\ scopes' = enterScope(scopes)
  /\ Continue(VisitAll(node.kids) \o <<Task("leave", top.node)>>)
  /\ UNCHANGED <<ast, currentReturnType, isField, errors>>

VisitReturnStmt ==
  /\ Visiting({"return"})
  /\ errors' = IF node.kids = << >> /\ currentReturnType # "null"
               THEN errors \cup {top.node} ELSE errors
  /\ Continue(VisitAll(node.kids))
  /\ UNCHANGED <<ast, scopes, currentReturnType, isField>>

VisitVariableExpr ==
  /\ Visiting({"variable"})
  /\ LET d == lookup(scopes, node.name)
     IN /\ errors' = IF d = Absent THEN errors \cup {top.node} ELSE errors
        /\ isField' = IF d \in DOMAIN ast /\ ast[d].kind = "field"
                      THEN isField \cup {top.node} ELSE isField
  /\ Continue(<< >>)
  /\ UNCHANGED <<ast, scopes, currentReturnType>>

(* The visit methods that only visit the children, in their order:         *)
(* ExprStmt, DeclStmt, IfStmt, WhileStmt, BinaryExpr, MemberExpr, and      *)
(* LiteralExpr, which has none.                                            *)
VisitChildren ==
  /\ Visiting({"exprstmt", "declstmt", "if", "while",
               "binary", "member", "literal"})
  /\ Continue(VisitAll(node.kids))
  /\ UNCHANGED <<ast, scopes, currentReturnType, isField, errors>>

LeaveScope ==
  /\ Doing("leave")
  /\ scopes' = leaveScope(scopes)
  /\ Continue(<< >>)
  /\ UNCHANGED <<ast, currentReturnType, isField, errors>>

Next ==
  \/ VisitTranslationUnit \/ VisitFunctionDecl \/ EndFunctionDecl
  \/ VisitFieldDecl \/ VisitRecordDecl \/ VisitVarDecl \/ DeclareVar
  \/ VisitCompoundStmt \/ VisitReturnStmt \/ VisitVariableExpr
  \/ VisitChildren \/ LeaveScope

Spec == Init /\ [][Next]_semaVars

Analyzed == tasks = << >>

-----------------------------------------------------------------------------
(* Types; and a return type is in force only while a function is visited.  *)
TypeOK ==
  /\ tasks \in Seq([do : {"visit", "leave", "endFunction", "declare"},
                    node : DOMAIN ast])
  /\ scopes \in Seq([Names -> {Absent, NoDecl} \cup DOMAIN ast])
  /\ currentReturnType \in
       {"null"} \cup {"int" : k \in {j \in DOMAIN tasks : tasks[j].do = "endFunction"}}
  /\ isField \subseteq DOMAIN ast
  /\ errors \subseteq DOMAIN ast

(* currentScope is never null when a visit method follows it: each open    *)
(* scope is left by exactly one of the methods still running, and whatever *)
(* declares or looks up runs inside of one of them.                        *)
Leaves == {k \in DOMAIN tasks : tasks[k].do \in {"leave", "endFunction"}}

ScopesBalanced ==
  /\ Cardinality(Leaves) = Len(scopes)
  /\ \A k \in DOMAIN tasks : tasks[k] # Visit(1) => \E j \in Leaves : k <= j

(* What resolution should give, from the tree alone.  The scope of a node  *)
(* is the innermost unit, record, function or block around it.             *)
Parent(n) == CHOOSE p \in DOMAIN ast : n \in KidsOf(ast, p)
Around[n \in DOMAIN ast] == IF n = 1 THEN {} ELSE {Parent(n)} \cup Around[Parent(n)]
Scoping(n) ==
  \/ ast[n].kind \in {"unit", "record", "compound"}
  \/ ast[n].kind \in {"function", "method"} /\ ast[n].kids # << >>
ScopeOf(n) ==
  CHOOSE s \in Around[n] : Scoping(s) /\ \A t \in Around[n] : Scoping(t) => t <= s
Declaring == {"vardecl", "function", "method", "field", "record"}

(* d is in view at n: it is in a block around n, and was declared before;  *)
(* a variable is declared after its own initializer.                       *)
InView(n) ==
  {d \in 1..(n - 1) :
     /\ ast[d].kind \in Declaring /\ ast[d].name = ast[n].name
     /\ ScopeOf(d) \in Around[n]
     /\ ast[d].kind = "vardecl" => d \notin Around[n]}

(* What is wrong with declarations and variables, but for parameters; and  *)
(* the returns without a value.                                            *)
Clashes(n) ==
  ast[n].kind \in Declaring /\ \E d \in InView(n) : ScopeOf(d) = ScopeOf(n)
Undeclared(n) == ast[n].kind = "variable" /\ InView(n) = {}
EmptyReturn(n) == ast[n].kind = "return" /\ ast[n].kids = << >>

(* A parameter is in view in the body of its function, and declared in the *)
(* scope of the outermost block of the body.                               *)
IsFunction(n) == ast[n].kind \in {"function", "method"}
FunctionAround(n) ==
  CHOOSE f \in Around[n] : IsFunction(f) /\ \A g \in Around[n] : IsFunction(g) => g <= f
Takes(f, x) == \E k \in DOMAIN ast[f].params : ast[f].params[k] = x
NamesParameter(n) == \E f \in Around[n] : Takes(f, ast[n].name)
ClashesWithParameter(n) ==
  /\ ast[n].kind \in Declaring
  /\ \E f \in Around[n] : Takes(f, ast[n].name) /\ ScopeOf(n) \in KidsOf(ast, f)

(* The faults of the three kinds that the analyzer has a report for.       *)
Redeclared(n) ==
  Clashes(n) \/ ClashesWithParameter(n) \/ ~IsInjective(ast[n].params)
Unknown(n) == Undeclared(n) /\ ~NamesParameter(n)
MissesValue(n) == EmptyReturn(n) /\ ast[FunctionAround(n)].type # "void"
Faulty(n) == Redeclared(n) \/ Unknown(n) \/ MissesValue(n)
Judged(n) == n \in errors <=> Faulty(n)

(* Where the analyzer is known to judge wrongly: parameters, which it does *)
(* not declare; returns of void functions, which it takes for int; and     *)
(* returns that follow a function declared in the same body, whose visit   *)
(* leaves currentReturnType null.                                          *)
AboutParameter(n) == NamesParameter(n) \/ ~IsInjective(ast[n].params)
FromVoid(n) == EmptyReturn(n) /\ ast[FunctionAround(n)].type = "void"
BehindInner(n) ==
  EmptyReturn(n) /\ \E f \in (FunctionAround(n) + 1)..(n - 1) : IsFunction(f)

(* But for these, the errors reported are those that the source has, at    *)
(* the nodes that have them.                                               *)
Diagnosed ==
  Analyzed =>
    \A n \in DOMAIN ast :
      ~(AboutParameter(n) \/ FromVoid(n) \/ BehindInner(n)) => Judged(n)

(* What is promised of these three and the code does not keep.  A parameter*)
(* is in scope in the body: visit(FunctionDecl) has it as a TODO.          *)
ParametersInScope ==
  Analyzed => \A n \in DOMAIN ast : AboutParameter(n) => Judged(n)

(* Nothing is reported where a void function returns nothing: the message  *)
(* speaks of non-void functions, and void is a type of the language.       *)
VoidMayReturn ==
  Analyzed => \A n \in DOMAIN ast : FromVoid(n) => Judged(n)

(* A function declared in a body leaves the return type of the outer one   *)
(* in force, so that the returns behind it are judged.                     *)
OuterTypeKept ==
  Analyzed => \A n \in DOMAIN ast : BehindInner(n) /\ ~FromVoid(n) => Judged(n)

(* A name refers to a field exactly when the innermost declaration in view *)
(* of it is one, the first if there are several, and no parameter has it.  *)
Meant(n) ==
  LET Inner == {d \in InView(n) : \A e \in InView(n) : ScopeOf(e) <= ScopeOf(d)}
  IN CHOOSE d \in Inner : \A e \in Inner : d <= e
NamesField(n) ==
  ast[n].kind = "variable" /\ InView(n) # {} /\ ast[Meant(n)].kind = "field"

(* setIsField was called on exactly the uses of fields, at every name that *)
(* is not a parameter's.                                                   *)
FieldsResolved ==
  Analyzed =>
    \A n \in DOMAIN ast : ~NamesParameter(n) => (n \in isField <=> NamesField(n))
=============================================================================
