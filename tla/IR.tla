--------------------------------- MODULE IR ---------------------------------
(***************************************************************************)
(* The intermediate representation that IRGenerator builds, the optimizer  *)
(* rewrites and X86Backend lowers, as data.  An ir::Value is told apart by *)
(* its address, or, when its name is made of digits and '-' only, by the   *)
(* number the name spells; an operand is therefore a record: an immediate  *)
(* with its number, or a reference to the instruction that defines the     *)
(* value.  Blocks are referred to by their position in the function, and   *)
(* keep the name that the backend prints as their label.                   *)
(***************************************************************************)
EXTENDS Integers, Sequences

Const(n) == [imm |-> TRUE, id |-> n]
Ref(v) == [imm |-> FALSE, id |-> v]

(* Instructions that define no value carry the id NoId.                    *)
NoId == 0

Instr(op, id, args, targets) ==
  [op |-> op, id |-> id, args |-> args, targets |-> targets]

Alloca(v) == Instr("alloca", v, << >>, << >>)
Load(t, ptr) == Instr("load", t, <<ptr>>, << >>)
Store(val, ptr) == Instr("store", NoId, <<val, ptr>>, << >>)
AddInst(t, lhs, rhs) == Instr("add", t, <<lhs, rhs>>, << >>)
SubInst(t, lhs, rhs) == Instr("sub", t, <<lhs, rhs>>, << >>)
Ret(val) == Instr("ret", NoId, <<val>>, << >>)
RetVoid == Instr("ret", NoId, << >>, << >>)
Br(target) == Instr("br", NoId, << >>, <<target>>)
CondBr(cond, onTrue, onFalse) ==
  Instr("condbr", NoId, <<cond>>, <<onTrue, onFalse>>)

Block(name, insts) == [name |-> name, insts |-> insts]
Func(name, blocks) == [name |-> name, blocks |-> blocks]

Operands(V) == [imm : {TRUE}, id : Int] \cup [imm : {FALSE}, id : V]

(* What the kinds of instruction take and give, over values V and blocks B *)
(* (IRBuilder::createAlloca .. createCondBr).                              *)
Instructions(V, B) ==
       [op : {"alloca"}, id : V, args : {<< >>}, targets : {<< >>}]
  \cup [op : {"load"}, id : V, args : [1..1 -> Operands(V)], targets : {<< >>}]
  \cup [op : {"store"}, id : {NoId}, args : [1..2 -> Operands(V)],
        targets : {<< >>}]
  \cup [op : {"add", "sub"}, id : V, args : [1..2 -> Operands(V)],
        targets : {<< >>}]
  \cup [op : {"ret"}, id : {NoId},
        args : {<< >>} \cup [1..1 -> Operands(V)], targets : {<< >>}]
  \cup [op : {"br"}, id : {NoId}, args : {<< >>}, targets : [1..1 -> B]]
  \cup [op : {"condbr"}, id : {NoId}, args : [1..1 -> Operands(V)],
        targets : [1..2 -> B]]

Terminators == {"ret", "br", "condbr"}

Blocks(V) == [name : STRING, insts : Seq(Instructions(V, Nat \ {0}))]
Functions(V) == [name : STRING, blocks : Seq(Blocks(V))]

(* createBr and createCondBr are given blocks of the function being built. *)
BranchesInside(f) ==
  \A b \in 1..Len(f.blocks) : \A i \in 1..Len(f.blocks[b].insts) :
    \A k \in 1..Len(f.blocks[b].insts[i].targets) :
      f.blocks[b].insts[i].targets[k] \in 1..Len(f.blocks)

(* An instruction is made before it can be given as an operand to another  *)
(* one: no use comes before the definition in the block, or at it.         *)
UsesFollowDefinition(f) ==
  \A b \in 1..Len(f.blocks) :
    \A i \in 1..Len(f.blocks[b].insts), j \in 1..Len(f.blocks[b].insts) :
      /\ f.blocks[b].insts[i].id # NoId
      /\ \E k \in 1..Len(f.blocks[b].insts[j].args) :
           f.blocks[b].insts[j].args[k] = Ref(f.blocks[b].insts[i].id)
      => i < j

(* A module as the optimizer takes it.  An operand is an instruction of    *)
(* the function; an instruction that defines a value is told apart by it.  *)
Defines(f, v) ==
  \E b \in DOMAIN f.blocks : \E j \in DOMAIN f.blocks[b].insts :
    f.blocks[b].insts[j].id = v

OperandsDefined(m) ==
  \A k \in DOMAIN m : \A b \in DOMAIN m[k].blocks :
    \A j \in DOMAIN m[k].blocks[b].insts :
      \A a \in DOMAIN m[k].blocks[b].insts[j].args :
        LET o == m[k].blocks[b].insts[j].args[a]
        IN ~o.imm => Defines(m[k], o.id)

OncePerBlock(m) ==
  \A k \in DOMAIN m : \A b \in DOMAIN m[k].blocks :
    \A j, l \in DOMAIN m[k].blocks[b].insts :
      LET x == m[k].blocks[b].insts[j] IN
      x.id # NoId /\ m[k].blocks[b].insts[l].id = x.id => j = l

(* What createBr .. createCondBr and the order of IRGenerator's calls      *)
(* promise the back end.                                                   *)
FitForBackend(m) ==
  \A k \in DOMAIN m : BranchesInside(m[k]) /\ UsesFollowDefinition(m[k])
=============================================================================
