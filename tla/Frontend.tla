------------------------------ MODULE Frontend -------------------------------
(***************************************************************************)
(* SemanticAnalyzer and, for the units that it finds no error in,          *)
(* IRGenerator on the same tree, one after the other as                    *)
(* src/driver/main.cpp calls them.  The analyzer hands its findings on in  *)
(* the tree (isField); how it resolved a name is not handed on, IRGenerator*)
(* resolves names again, in a table of its own.                            *)
(***************************************************************************)
EXTENDS SourceSemantics, FiniteSets

CONSTANTS Names, Programs

VARIABLES
  ast, isField, semaTasks, scopes, currentReturnType, errors,
  genTasks, module, currentFunction, insertBlock, namedValues, lastValue,
  nextId, crashed

semaOnly == <<semaTasks, scopes, currentReturnType, errors>>
genOnly == <<genTasks, module, currentFunction, insertBlock, namedValues,
             lastValue, nextId, crashed>>
frontVars == <<ast, isField, semaOnly, genOnly>>

Sema == INSTANCE SemanticAnalyzer WITH tasks <- semaTasks
Gen == INSTANCE IRGenerator WITH tasks <- genTasks, Analyzed <- {}

Init == Sema!Init /\ Gen!Start

Analyze == Sema!Next /\ UNCHANGED genOnly

(* if (diags.hasErrors()) { hadErrors = true; continue; }                  *)
Generate ==
  /\ Sema!Analyzed /\ errors = {}
  /\ Gen!Next
  /\ UNCHANGED semaOnly

Next == Analyze \/ Generate

Spec == Init /\ [][Next]_frontVars

-----------------------------------------------------------------------------
(* The code of an accepted function does what its source says: it returns  *)
(* when that does, with a value that C++ allows.                           *)
FunctionNodes == {n \in DOMAIN ast : ast[n].kind \in {"function", "method"}}
NodeOf(f) ==
  CHOOSE n \in FunctionNodes : Cardinality({m \in FunctionNodes : m <= n}) = f

SourceKept ==
  errors = {} /\ Sema!Analyzed /\ Gen!Generated =>
    \A f \in DOMAIN module :
      LET source == Means(ast, NodeOf(f), Names)
          code == Promised(module[f], 1..nextId)
      IN (source # {} => code # {}) /\ code \subseteq source
=============================================================================
