----------------------------- MODULE IRGenerator -----------------------------
(***************************************************************************)
(* IRGenerator with its ir::IRBuilder: one visit of an analyzed tree that  *)
(* creates functions, blocks and instructions.  As in SemanticAnalyzer the *)
(* recursion of the visit methods is a list of tasks; a task carries the   *)
(* local variables that the method still needs.                            *)
(*                                                                         *)
(* All types are Int and left out.  A null ir::Value is the operand Null;  *)
(* the constants of a Value are those of IR.                               *)
(***************************************************************************)
EXTENDS AST, IR, FiniteSets, SequencesExt

CONSTANTS
  Names,    \* identifiers and operators of the programs
  Analyzed  \* what generate() is given: trees, and their fields' uses

ASSUME AnalyzedAssumption ==
  \A u \in Analyzed : u.ast \in Trees(Names) /\ u.isField \subseteq DOMAIN u.ast

(* Names are C++ strings; a field's visit looks up "this".                 *)
BlockNames == {"entry", "if.then", "if.else", "if.end",
               "while.cond", "while.body", "while.end"}
ASSUME NamesAssumption ==
  Names \cup BlockNames \subseteq STRING /\ "this" \in Names

VARIABLES
  ast, isField,     \* the analyzed translation unit, never changed
  tasks,            \* what the visit methods on the C++ stack still do
  module,           \* the functions created
  currentFunction,  \* position of a function in module, 0 for null
  insertBlock,      \* <<function, block>>, or NoBlock for null
  namedValues,      \* name -> id of its alloca, 0 when absent
  lastValue,        \* result of the last expression visited
  nextId,           \* id of the next instruction that has a value
  crashed           \* a null pointer was followed

genVars == <<ast, isField, tasks, module, currentFunction, insertBlock,
             namedValues, lastValue, nextId, crashed>>
input == <<ast, isField>>
scope == <<currentFunction, namedValues>>

Null == Ref(NoId)
NoBlock == <<0, 0>>
NoNames == [x \in Names |-> NoId]

(* val, func, blocks: locals of the visit method, a value, and the blocks  *)
(* that it made, of the function that was current then.                    *)
Task(do, n, val) ==
  [do |-> do, node |-> n, val |-> val, func |-> 0, blocks |-> << >>]
BlockTask(do, n, bbs) ==
  [do |-> do, node |-> n, val |-> Null, func |-> currentFunction, blocks |-> bbs]
Visit(n) == Task("visit", n, Null)
VisitAll(ns) == [k \in DOMAIN ns |-> Visit(ns[k])]

top == Head(tasks)
node == ast[top.node]
kid(k) == node.kids[k]
Doing(do) == ~crashed /\ tasks # << >> /\ top.do = do
Visiting(kinds) == Doing("visit") /\ node.kind \in kinds
Continue(ts) == tasks' = ts \o Tail(tasks) /\ UNCHANGED input

-----------------------------------------------------------------------------
(* IRBuilder::insert; without an insertion point the instruction is lost.  *)
Insert(m, at, code) ==
  IF at = NoBlock THEN m
  ELSE [m EXCEPT ![at[1]].blocks[at[2]].insts = @ \o code]

(* Function::createBasicBlock; NextBlocks are the positions they will get. *)
CreateBlocks(m, f, names) ==
  [m EXCEPT ![f].blocks = @ \o [k \in DOMAIN names |-> Block(names[k], << >>)]]
NextBlockLate(k) == Len(module[currentFunction].blocks) + k + 1
NextBlock(k) == Len(module[currentFunction].blocks) + k
BlockIn(b) == <<currentFunction, b>>

(* A block of the visit method that goes on: a BasicBlock* is good for any *)
(* function, and currentFunction may be another one by now.                *)
Kept(b) == <<top.func, b>>

(* The operand of a branch to a block: its position, if it belongs to the  *)
(* function that the branch is inserted into.                              *)
Elsewhere == 0
Target(block) == IF block[1] = insertBlock[1] THEN block[2] ELSE Elsewhere

(* An instruction that was created without an insertion point is freed at  *)
(* once; createAdd and createSub read the type of their first operand.     *)
DefinedIn(f) ==
  UNION {{f.blocks[b].insts[i].id : i \in DOMAIN f.blocks[b].insts} :
         b \in DOMAIN f.blocks}
Freed(v) ==
  /\ ~v.imm /\ v # Null
  /\ \A f \in DOMAIN module : v.id \notin DefinedIn(module[f])
CrashOnTypeOf(v) ==
  IF v = Null THEN {TRUE} ELSE IF Freed(v) THEN BOOLEAN ELSE {FALSE}

Variable(x) ==
  IF namedValues[x] = NoId THEN Null ELSE Ref(namedValues[x])

-----------------------------------------------------------------------------
Start ==
  /\ tasks = <<Visit(1)>>
  /\ module = << >>
  /\ currentFunction = 0
  /\ insertBlock = NoBlock
  /\ namedValues = NoNames
  /\ lastValue = Null
  /\ nextId = 1
  /\ crashed = FALSE

Init == Start /\ \E u \in Analyzed : ast = u.ast /\ isField = u.isField

(* TranslationUnit, CompoundStmt, ExprStmt and DeclStmt visit what they    *)
(* consist of.                                                             *)
VisitChildren ==
  /\ Visiting({"unit", "compound", "exprstmt", "declstmt"})
  /\ Continue(VisitAll(node.kids))
  /\ UNCHANGED <<scope, module, insertBlock, lastValue, nextId, crashed>>

(* A RecordDecl keeps its methods apart; here they follow its fields.      *)
MethodsOf(n) ==
  LET kids == ast[n].kids
      fields == {k \in DOMAIN kids : ast[kids[k]].kind = "field"}
  IN SubSeq(kids, Min((1..(Len(kids) + 1)) \ fields), Len(kids))

VisitRecordDecl ==
  /\ Visiting({"record"})
  /\ Continue(VisitAll(MethodsOf(top.node)))
  /\ UNCHANGED <<scope, module, insertBlock, lastValue, nextId, crashed>>

(* namedValues after clear() and, in a method, the entry of this.          *)
NamesAtEntryKept(this) == namedValues
NamesAtEntry(this) ==
  IF this = << >> THEN NoNames ELSE [NoNames EXCEPT !["this"] = this[1].id]

VisitFunctionDecl ==
  /\ Visiting({"function", "method"})
  /\ LET f == Len(module) + 1
         this == IF node.kind = "method" THEN <<Alloca(nextId)>> ELSE << >>
         blocks == IF node.kids = << >> THEN << >> ELSE <<Block("entry", this)>>
     IN /\ currentFunction' = f
        /\ module' = Append(module, Func(node.name, blocks))
        /\ IF blocks = << >> THEN UNCHANGED <<insertBlock, namedValues, nextId>>
           ELSE /\ insertBlock' = <<f, 1>>
                /\ namedValues' = NamesAtEntry(this)
                /\ nextId' = nextId + Len(this)
  /\ Continue(VisitAll(node.kids))
  /\ UNCHANGED <<lastValue, crashed>>

(* The alloca is made, and the name bound, before the initializer.         *)
VisitVarDecl ==
  /\ Visiting({"vardecl"})
  /\ module' = Insert(module, insertBlock, <<Alloca(nextId)>>)
  /\ namedValues' = [namedValues EXCEPT ![node.name] = nextId]
  /\ nextId' = nextId + 1
  /\ Continue(VisitAll(node.kids)
              \o (IF node.kids = << >> THEN << >>
                  ELSE <<Task("store", top.node, Ref(nextId))>>))
  /\ UNCHANGED <<currentFunction, insertBlock, lastValue, crashed>>

StoreInitializer ==
  /\ Doing("store")
  /\ module' = IF lastValue = Null THEN module
               ELSE Insert(module, insertBlock, <<Store(lastValue, top.val)>>)
  /\ Continue(<< >>)
  /\ UNCHANGED <<scope, insertBlock, lastValue, nextId, crashed>>

VisitReturnStmt ==
  /\ Visiting({"return"})
  /\ IF node.kids = << >>
     THEN /\ module' = Insert(module, insertBlock, <<RetVoid>>)
          /\ Continue(<< >>)
     ELSE /\ Continue(VisitAll(node.kids) \o <<Task("ret", top.node, Null)>>)
          /\ UNCHANGED module
  /\ UNCHANGED <<scope, insertBlock, lastValue, nextId, crashed>>

CreateRet ==
  /\ Doing("ret")
  /\ module' = Insert(module, insertBlock,
                      <<IF lastValue = Null THEN RetVoid ELSE Ret(lastValue)>>)
  /\ Continue(<< >>)
  /\ UNCHANGED <<scope, insertBlock, lastValue, nextId, crashed>>

-----------------------------------------------------------------------------
(* blocks: thenBB, elseBB if there is an else, mergeBB.                    *)
HasElse == Len(node.kids) = 3

VisitIfStmt ==
  /\ Visiting({"if"})
  /\ LET names == IF HasElse THEN <<"if.then", "if.else", "if.end">>
                  ELSE <<"if.then", "if.end">>
         bbs == [k \in DOMAIN names |-> NextBlock(k)]
     IN /\ module' = CreateBlocks(module, currentFunction, names)
        /\ Continue(<<Visit(kid(1)), BlockTask("branch", top.node, bbs)>>)
  /\ UNCHANGED <<scope, insertBlock, lastValue, nextId, crashed>>

BranchOnCondition ==
  /\ Doing("branch")
  /\ module' = Insert(module, insertBlock,
                      <<CondBr(lastValue, Target(Kept(top.blocks[1])),
                                          Target(Kept(top.blocks[2])))>>)
  /\ insertBlock' = Kept(top.blocks[1])
  /\ Continue(<<Visit(kid(2)), [top EXCEPT !.do = "endThen"]>>)
  /\ UNCHANGED <<scope, lastValue, nextId, crashed>>

EndThenFallingThrough ==
  /\ Doing("endThen")
  /\ module' = module
  /\ insertBlock' = Kept(top.blocks[2])
  /\ Continue(IF HasElse THEN <<Visit(kid(3)), [top EXCEPT !.do = "endElse"]>>
              ELSE << >>)
  /\ UNCHANGED <<scope, lastValue, nextId, crashed>>

EndThen ==
  /\ Doing("endThen")
  /\ module' = Insert(module, insertBlock, <<Br(Target(Kept(Last(top.blocks))))>>)
  /\ insertBlock' = Kept(top.blocks[2])
  /\ Continue(IF HasElse THEN <<Visit(kid(3)), [top EXCEPT !.do = "endElse"]>>
              ELSE << >>)
  /\ UNCHANGED <<scope, lastValue, nextId, crashed>>

EndElse ==
  /\ Doing("endElse")
  /\ module' = Insert(module, insertBlock, <<Br(Target(Kept(Last(top.blocks))))>>)
  /\ insertBlock' = Kept(Last(top.blocks))
  /\ Continue(<< >>)
  /\ UNCHANGED <<scope, lastValue, nextId, crashed>>

(* blocks: condBB, bodyBB, endBB.                                          *)
VisitWhileStmt ==
  /\ Visiting({"while"})
  /\ LET bbs == <<NextBlock(1), NextBlock(2), NextBlock(3)>>
     IN /\ module' = Insert(CreateBlocks(module, currentFunction,
                                         <<"while.cond", "while.body", "while.end">>),
                            insertBlock, <<Br(Target(BlockIn(bbs[1])))>>)
        /\ insertBlock' = BlockIn(bbs[1])
        /\ Continue(<<Visit(kid(1)), BlockTask("loop", top.node, bbs)>>)
  /\ UNCHANGED <<scope, lastValue, nextId, crashed>>

LoopOnCondition ==
  /\ Doing("loop")
  /\ module' = Insert(module, insertBlock,
                      <<CondBr(lastValue, Target(Kept(top.blocks[2])),
                                          Target(Kept(top.blocks[3])))>>)
  /\ insertBlock' = Kept(top.blocks[2])
  /\ Continue(<<Visit(kid(2)), [top EXCEPT !.do = "endBody"]>>)
  /\ UNCHANGED <<scope, lastValue, nextId, crashed>>

EndBody ==
  /\ Doing("endBody")
  /\ module' = Insert(module, insertBlock, <<Br(Target(Kept(top.blocks[1])))>>)
  /\ insertBlock' = Kept(top.blocks[3])
  /\ Continue(<< >>)
  /\ UNCHANGED <<scope, lastValue, nextId, crashed>>

-----------------------------------------------------------------------------
(* Expressions.  visitExpr sets lastValue to null before it dispatches.    *)
VisitLiteralExpr ==
  /\ Visiting({"literal"})
  /\ lastValue' = Const(node.num)
  /\ Continue(<< >>)
  /\ UNCHANGED <<scope, module, insertBlock, nextId, crashed>>

VisitVariableExpr ==
  /\ Visiting({"variable"}) /\ top.node \notin isField
  /\ IF Variable(node.name) = Null
     THEN lastValue' = Null /\ UNCHANGED <<module, nextId>>
     ELSE /\ module' = Insert(module, insertBlock,
                              <<Load(nextId, Variable(node.name))>>)
          /\ lastValue' = Ref(nextId)
          /\ nextId' = nextId + 1
  /\ Continue(<< >>)
  /\ UNCHANGED <<scope, insertBlock, crashed>>

(* A field is read through `this`, at the offset 4 whichever it is.        *)
VisitFieldExpr ==
  /\ Visiting({"variable"}) /\ top.node \in isField
  /\ IF Variable("this") = Null
     THEN lastValue' = Null /\ UNCHANGED <<module, nextId>>
     ELSE /\ module' = Insert(module, insertBlock,
                         << Load(nextId, Variable("this")),
                            AddInst(nextId + 1, Ref(nextId), Const(4)),
                            Load(nextId + 2, Ref(nextId + 1)) >>)
          /\ lastValue' = Ref(nextId + 2)
          /\ nextId' = nextId + 3
  /\ Continue(<< >>)
  /\ UNCHANGED <<scope, insertBlock, crashed>>

VisitMemberExpr ==
  /\ Visiting({"member"})
  /\ lastValue' = Null
  /\ Continue(<<Visit(kid(1)), Task("offset", top.node, Null)>>)
  /\ UNCHANGED <<scope, module, insertBlock, nextId, crashed>>

AddOffset ==
  /\ Doing("offset")
  /\ crashed' \in CrashOnTypeOf(lastValue)
  /\ module' = Insert(module, insertBlock,
                      <<AddInst(nextId, lastValue, Const(4))>>)
  /\ lastValue' = Ref(nextId)
  /\ nextId' = nextId + 1
  /\ Continue(<< >>)
  /\ UNCHANGED <<scope, insertBlock>>

(* visit(BinaryExpr) of an assignment: the target is looked up first.      *)
VisitAssignment ==
  /\ Visiting({"binary"}) /\ node.name = "="
  /\ lastValue' = Null
  /\ LET target == ast[kid(1)]
         lhsPtr == IF target.kind = "variable" THEN Variable(target.name) ELSE Null
     IN Continue(<<Visit(kid(2)), Task("assign", top.node, lhsPtr)>>)
  /\ UNCHANGED <<scope, module, insertBlock, nextId, crashed>>

StoreAssigned ==
  /\ Doing("assign")
  /\ module' = IF Null \in {top.val, lastValue} THEN module
               ELSE Insert(module, insertBlock, <<Store(lastValue, top.val)>>)
  /\ Continue(<< >>)
  /\ UNCHANGED <<scope, insertBlock, lastValue, nextId, crashed>>

VisitBinaryExpr ==
  /\ Visiting({"binary"}) /\ node.name # "="
  /\ lastValue' = Null
  /\ Continue(<<Visit(kid(1)), Task("rhs", top.node, Null)>>)
  /\ UNCHANGED <<scope, module, insertBlock, nextId, crashed>>

VisitRightOperand ==
  /\ Doing("rhs")
  /\ lastValue' = Null
  /\ Continue(<<Visit(kid(2)), Task("combine", top.node, lastValue)>>)
  /\ UNCHANGED <<scope, module, insertBlock, nextId, crashed>>

OperationReversed(op, id, lhs, rhs) ==
  CASE op = "+" -> <<AddInst(id, lhs, rhs)>>
    [] op = "-" -> <<SubInst(id, rhs, lhs)>>
    [] OTHER -> << >>

(* The switch over the operators; a missing operand leaves lastValue as it *)
(* is, another operator makes it null.                                     *)
Operation(op, id, lhs, rhs) ==
  CASE op = "+" -> <<AddInst(id, lhs, rhs)>>
    [] op = "-" -> <<SubInst(id, lhs, rhs)>>
    [] OTHER -> << >>

Combine ==
  /\ Doing("combine")
  /\ LET code == Operation(node.name, nextId, top.val, lastValue)
     IN IF Null \in {top.val, lastValue}
        THEN UNCHANGED <<module, lastValue, nextId, crashed>>
        ELSE /\ crashed' \in (IF code = << >> THEN {FALSE}
                              ELSE CrashOnTypeOf(top.val))
             /\ module' = Insert(module, insertBlock, code)
             /\ lastValue' = IF code = << >> THEN Null ELSE Ref(nextId)
             /\ nextId' = nextId + Len(code)
  /\ Continue(<< >>)
  /\ UNCHANGED <<scope, insertBlock>>

Next ==
  \/ VisitChildren \/ VisitRecordDecl \/ VisitFunctionDecl \/ VisitVarDecl \/ StoreInitializer
  \/ VisitReturnStmt \/ CreateRet
  \/ VisitIfStmt \/ BranchOnCondition \/ EndThen \/ EndElse
  \/ VisitWhileStmt \/ LoopOnCondition \/ EndBody
  \/ VisitLiteralExpr \/ VisitVariableExpr \/ VisitFieldExpr
  \/ VisitMemberExpr \/ AddOffset \/ VisitAssignment \/ StoreAssigned
  \/ VisitBinaryExpr \/ VisitRightOperand \/ Combine

Spec == Init /\ [][Next]_genVars

Generated == tasks = << >> /\ ~crashed

-----------------------------------------------------------------------------
Ids == 1..(nextId - 1)

(* A function is declared in no body.  Where one is, currentFunction stays *)
(* the declared function for the rest of the body, and the visit methods   *)
(* around it go on in blocks of theirs: see TakenForGranted.               *)
NoLocalFunctions ==
  \A n \in DOMAIN ast : ast[n].kind = "declstmt" => KindsOfKids(ast, n) = {"vardecl"}

(* Types; the insertion point and the blocks that a visit method holds     *)
(* exist, in the function that the method made them in.                    *)
TypeOK ==
  /\ tasks \in Seq([do : {"visit", "store", "ret", "branch", "endThen", "endElse",
                          "loop", "endBody", "offset", "assign", "rhs", "combine"},
                    node : DOMAIN ast, val : Operands({NoId} \cup Ids),
                    func : 0..Len(module), blocks : Seq(Nat \ {0})])
  /\ module \in Seq([name : STRING,
                     blocks : Seq([name : STRING,
                                   insts : Seq(Instructions({NoId} \cup Ids, Nat))])])
  /\ currentFunction \in 0..Len(module)
  /\ insertBlock = NoBlock
     \/ \E b \in DOMAIN module[insertBlock[1]].blocks : insertBlock[2] = b
  /\ namedValues \in [Names -> {NoId} \cup Ids]
  /\ lastValue \in Operands({NoId} \cup Ids)
  /\ nextId \in Nat \ {0}
  /\ crashed \in BOOLEAN
  /\ \A t \in ToSet(tasks) : \A b \in ToSet(t.blocks) :
       b \in DOMAIN module[t.func].blocks

(* What X86Backend takes for granted of a module: branches stay in the     *)
(* function, no instruction is used before it is made, and one that is     *)
(* used belongs to the function.                                           *)
TakenForGranted ==
  \A f \in DOMAIN module :
    /\ BranchesInside(module[f])
    /\ UsesFollowDefinition(module[f])
    /\ \A b \in DOMAIN module[f].blocks :
         \A x \in ToSet(module[f].blocks[b].insts) : \A o \in ToSet(x.args) :
           o.imm \/ o = Null \/ o.id \in DefinedIn(module[f])
BackendAssumption == NoLocalFunctions => TakenForGranted

(* Control leaves a block only where a statement says so.  While a         *)
(* function is generated, the insertion block is the only one with code    *)
(* that does not end in a branch or a return, wherever the visits of       *)
(* conditions and branches have moved it; when all is generated, at most   *)
(* the block in which a body ended is without one, or empty.  Of programs  *)
(* that declare a function in a body neither is said.                      *)
Unclosed(f) ==
  {b \in DOMAIN module[f].blocks :
     LET code == module[f].blocks[b].insts
     IN code = << >> \/ Last(code).op \notin Terminators}
BlocksClosed ==
  NoLocalFunctions =>
    /\ \A b \in IF currentFunction = 0 THEN {} ELSE Unclosed(currentFunction) :
         module[currentFunction].blocks[b].insts # << >> => BlockIn(b) = insertBlock
    /\ Generated => \A f \in DOMAIN module : Cardinality(Unclosed(f)) <= 1

(* A branch always has a condition to test.                                *)
OperandsPresent ==
  crashed \/ \A f \in DOMAIN module : \A b \in DOMAIN module[f].blocks :
    \A x \in ToSet(module[f].blocks[b].insts) : Null \notin ToSet(x.args)
=============================================================================
