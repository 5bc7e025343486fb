----------------------------- MODULE X86Backend -----------------------------
(***************************************************************************)
(* codegen::X86Backend: lowers the functions of an ir::Module, block by    *)
(* block and instruction by instruction, with an on-the-fly register       *)
(* allocator.  A value gets a register the first time it is mentioned,     *)
(* loses it after the last mention in the block being lowered, and is      *)
(* spilled to a stack slot when the pool is empty at a mention.            *)
(***************************************************************************)
EXTENDS IR, FiniteSets, SequencesExt

CONSTANTS
  Values,        \* ids of the instructions that define a value
  Modules,       \* the ir::Modules handed to generate()
  RegisterPool,  \* freeRegisters at the start of a function, in code order
  Ints,          \* the numbers that std::stoi accepts
  NoReg          \* "no register", for values absent from valueToRegister

X86Reg == {"rax", "rbx", "rcx", "rdx", "rdi", "rsi", "rbp", "rsp",
           "eax", "ebx", "ecx", "edx", "edi", "esi",
           "r8", "r9", "r10", "r11", "r8d", "r9d", "r10d", "r11d"}

(* Registers that lowerInstruction, emitPrologue and emitEpilogue name.    *)
Scratch == {"eax", "ebx", "rbp", "rsp"}

(* The 32-bit registers of the pool.                                       *)
Registers == {RegisterPool[i] : i \in 1..Len(RegisterPool)}

ASSUME PoolAssumption ==
  /\ RegisterPool \in Seq(X86Reg \ Scratch)
  /\ \A i, j \in 1..Len(RegisterPool) :
       RegisterPool[i] = RegisterPool[j] => i = j

ASSUME NoRegAssumption == NoReg \notin X86Reg

ASSUME ValuesAssumption == NoId \notin Values

ASSUME ModulesAssumption ==
  /\ Modules \subseteq Seq(Functions(Values))
  /\ \A m \in Modules : \A f \in 1..Len(m) :
       /\ BranchesInside(m[f])
       /\ UsesFollowDefinition(m[f])

VARIABLES
  module,           \* the input, never changed
  phase,            \* which loop of generate / lowerFunction / lowerBasicBlock
  fn, bb,           \* loop cursors over functions and blocks, from 1
  currentInstIndex, \* index of the instruction being lowered, from 0
  ra,               \* the register allocation state
  lastUses,         \* value -> index of its last use, -1 when absent
  m_instructions    \* what has been emitted

vars == <<module, phase, fn, bb, currentInstIndex, ra, lastUses,
          m_instructions>>

function == module[fn]
insts == module[fn].blocks[bb].insts
inst == insts[currentInstIndex + 1]

-----------------------------------------------------------------------------
(* Machine operands and instructions.                                      *)
Reg(r) == [kind |-> "reg", reg |-> r]
Imm(n) == [kind |-> "imm", imm |-> n]
Mem(off) == [kind |-> "mem", off |-> off]
Lbl(name) == [kind |-> "label", name |-> name]

MachineInst(kind, ops) == [kind |-> kind, ops |-> ops]
Label(name) == MachineInst("LABEL", <<Lbl(name)>>)
Mov(dst, src) == MachineInst("MOV", <<dst, src>>)

(* Mutant: the last slot is forgotten.                                     *)
SmallFrameBytes == 60

FrameBytes == 64

emitPrologue(name) ==
  << Label(name),
     MachineInst("PUSH", <<Reg("rbp")>>),
     Mov(Reg("rbp"), Reg("rsp")),
     MachineInst("SUB", <<Reg("rsp"), Imm(FrameBytes)>>) >>

(* Mutant: the caller's rbp stays on the stack.                            *)
EpilogueWithoutPop ==
  << Mov(Reg("rsp"), Reg("rbp")),
     MachineInst("RET", << >>) >>

emitEpilogue ==
  << Mov(Reg("rsp"), Reg("rbp")),
     MachineInst("POP", <<Reg("rbp")>>),
     MachineInst("RET", << >>) >>

-----------------------------------------------------------------------------
(* The register allocator.  stackOffsets maps a value without a slot to 0. *)
EmptyAllocation ==
  [ valueToRegister    |-> [v \in Values |-> NoReg],
    freeRegisters      |-> RegisterPool,
    stackOffsets       |-> [v \in Values |-> 0],
    currentStackOffset |-> 0 ]

TakeRegister(a, v) ==
  [a EXCEPT !.valueToRegister[v] = Last(a.freeRegisters),
            !.freeRegisters = Front(a.freeRegisters)]

(* Mutant: the offset of the last slot is not kept.                        *)
SpillTwice(a, v) == [a EXCEPT !.stackOffsets[v] = a.currentStackOffset - 4]

Spill(a, v) ==
  [a EXCEPT !.stackOffsets[v] = a.currentStackOffset - 4,
            !.currentStackOffset = a.currentStackOffset - 4]

(* getOperandForValue, its effect on the allocator: nothing for an         *)
(* immediate or a value that has a register; otherwise a register is taken *)
(* while there is one, whether or not the value already has a stack slot.  *)
Place(a, o) ==
  CASE o.imm \/ a.valueToRegister[o.id] # NoReg -> a
    [] ~o.imm /\ a.valueToRegister[o.id] = NoReg /\ a.freeRegisters # << >>
         -> TakeRegister(a, o.id)
    [] ~o.imm /\ a.valueToRegister[o.id] = NoReg /\ a.freeRegisters = << >>
         -> IF a.stackOffsets[o.id] = 0 THEN Spill(a, o.id) ELSE a

(* getOperandForValue, the operand it returns once the value is placed.    *)
OperandIn(a, o) ==
  IF o.imm THEN Imm(o.id)
  ELSE IF a.valueToRegister[o.id] # NoReg THEN Reg(a.valueToRegister[o.id])
  ELSE Mem(a.stackOffsets[o.id])

(* Uses of value v by a block's instructions, as indices from 0.           *)
UsesIn(code, v) == {i \in 0..(Len(code) - 1) : Ref(v) \in ToSet(code[i+1].args)}

(* Mutants: the first use is kept, not the last; indices from 1.           *)
FirstUses(uses, code) ==
  [v \in Values |->
     IF UsesIn(code, v) = {} THEN uses[v]
     ELSE CHOOSE i \in UsesIn(code, v) : \A j \in UsesIn(code, v) : i <= j]
UsesFromOne(uses, code) ==
  [v \in Values |->
     IF UsesIn(code, v) = {} THEN uses[v]
     ELSE 1 + CHOOSE i \in UsesIn(code, v) : \A j \in UsesIn(code, v) : j <= i]

computeLiveness(uses, code) ==
  [v \in Values |->
     IF UsesIn(code, v) = {} THEN uses[v]
     ELSE CHOOSE i \in UsesIn(code, v) : \A j \in UsesIn(code, v) : j <= i]

(* Mutant: the register is pushed on the free list, the entry not erased.  *)
ReleaseKeepingEntry(a, o) ==
  IF /\ ~o.imm
     /\ lastUses[o.id] = currentInstIndex
     /\ a.valueToRegister[o.id] # NoReg
  THEN [a EXCEPT !.freeRegisters = Append(@, a.valueToRegister[o.id])]
  ELSE a

(* Mutant: what has no register is released as well.                       *)
ReleaseUnplaced(a, o) ==
  IF ~o.imm /\ lastUses[o.id] = currentInstIndex
  THEN [a EXCEPT !.freeRegisters = Append(@, a.valueToRegister[o.id]),
                 !.valueToRegister[o.id] = NoReg]
  ELSE a

(* One turn of the loop of freeDeadRegisters.                              *)
Release(a, o) ==
  IF /\ ~o.imm
     /\ lastUses[o.id] = currentInstIndex
     /\ a.valueToRegister[o.id] # NoReg
  THEN [a EXCEPT !.freeRegisters = Append(@, a.valueToRegister[o.id]),
                 !.valueToRegister[o.id] = NoReg]
  ELSE a

-----------------------------------------------------------------------------
Reset ==
  /\ phase = "function"
  /\ fn = 1
  /\ bb = 1
  /\ currentInstIndex = 0
  /\ ra = EmptyAllocation
  /\ lastUses = [v \in Values |-> -1]
  /\ m_instructions = << >>

Init == module \in Modules /\ Reset

lowerFunction ==
  /\ phase = "function"
  /\ fn <= Len(module)
  /\ ra' = EmptyAllocation
  /\ lastUses' = [v \in Values |-> -1]
  /\ m_instructions' = m_instructions \o emitPrologue(function.name)
  /\ phase' = "block"
  /\ bb' = 1
  /\ UNCHANGED <<module, fn, currentInstIndex>>

lowerBasicBlock ==
  /\ phase = "block"
  /\ bb <= Len(function.blocks)
  /\ m_instructions' = Append(m_instructions, Label(function.blocks[bb].name))
  /\ lastUses' = computeLiveness(lastUses, insts)
  /\ currentInstIndex' = 0
  /\ phase' = "inst"
  /\ UNCHANGED <<module, fn, bb, ra>>

(* getOperandForValue converts whatever is spelled like a number.          *)
Convertible(x) == \A k \in 1..Len(x.args) : x.args[k].imm => x.args[k].id \in Ints

(* lowerInstruction for the kinds of instruction in ops.                   *)
Lowering(ops) ==
  /\ phase = "inst"
  /\ currentInstIndex < Len(insts)
  /\ inst.op \in ops
  /\ Convertible(inst)

(* std::stoi throws, and nothing catches it: no code is printed.            *)
Terminate ==
  /\ phase = "inst"
  /\ currentInstIndex < Len(insts)
  /\ ~Convertible(inst)
  /\ phase' = "terminated"
  /\ UNCHANGED <<module, fn, bb, currentInstIndex, ra, lastUses, m_instructions>>

(* What every turn of the loop of lowerBasicBlock ends with: a is the      *)
(* allocation after freeDeadRegisters.                                     *)
Lowered(a, code) ==
  /\ ra' = a
  /\ m_instructions' = m_instructions \o code
  /\ currentInstIndex' = currentInstIndex + 1
  /\ UNCHANGED <<module, phase, fn, bb, lastUses>>

LowerAlloca ==
  /\ Lowering({"alloca"})
  /\ Lowered(ra, << >>)

(* Mutant: without the detour through eax.                                 *)
DirectStoreCode(ptr, val) == << Mov(ptr, val) >>

(* x86 has no memory-to-memory move: the stored value goes through eax.    *)
StoreCode(ptr, val) ==
  IF val.kind = "mem"
  THEN << Mov(Reg("eax"), val), Mov(ptr, Reg("eax")) >>
  ELSE << Mov(ptr, val) >>

LowerStore ==
  /\ Lowering({"store"})
  /\ LET a1 == Place(ra, inst.args[1])
         a2 == Place(a1, inst.args[2])
     IN Lowered(Release(Release(a2, inst.args[1]), inst.args[2]),
                StoreCode(OperandIn(a2, inst.args[2]),
                          OperandIn(a1, inst.args[1])))

LowerLoad ==
  /\ Lowering({"load"})
  /\ LET a1 == Place(ra, inst.args[1])
         a2 == Place(a1, Ref(inst.id))
     IN Lowered(Release(a2, inst.args[1]),
                << Mov(Reg("eax"), OperandIn(a1, inst.args[1])),
                   Mov(OperandIn(a2, Ref(inst.id)), Reg("eax")) >>)

(* eax := lhs; eax := eax op rhs; dest := eax.                             *)
ArithmeticCode(op, lhs, rhs, dest) ==
     << Mov(Reg("eax"), lhs) >>
  \o (IF rhs.kind = "mem"
      THEN << Mov(Reg("ebx"), rhs), MachineInst(op, <<Reg("eax"), Reg("ebx")>>) >>
      ELSE << MachineInst(op, <<Reg("eax"), rhs>>) >>)
  \o << Mov(dest, Reg("eax")) >>

LowerArithmetic ==
  /\ Lowering({"add", "sub"})
  /\ LET a1 == Place(ra, inst.args[1])
         a2 == Place(a1, inst.args[2])
         a3 == Place(a2, Ref(inst.id))
     IN Lowered(Release(Release(a3, inst.args[1]), inst.args[2]),
                ArithmeticCode(IF inst.op = "add" THEN "ADD" ELSE "SUB",
                               OperandIn(a1, inst.args[1]),
                               OperandIn(a2, inst.args[2]),
                               OperandIn(a3, Ref(inst.id))))

LowerRet ==
  /\ Lowering({"ret"})
  /\ \/ /\ inst.args = << >>
        /\ Lowered(ra, emitEpilogue)
     \/ /\ inst.args # << >>
        /\ LET a1 == Place(ra, inst.args[1])
           IN Lowered(Release(a1, inst.args[1]),
                      << Mov(Reg("eax"), OperandIn(a1, inst.args[1])) >>
                        \o emitEpilogue)

BlockLabel(b) == Lbl(function.blocks[b].name)

LowerBr ==
  /\ Lowering({"br"})
  /\ Lowered(ra, << MachineInst("JMP", <<BlockLabel(inst.targets[1])>>) >>)

LowerCondBr ==
  /\ Lowering({"condbr"})
  /\ LET a1 == Place(ra, inst.args[1])
     IN Lowered(Release(a1, inst.args[1]),
                << MachineInst("CMP", <<OperandIn(a1, inst.args[1]), Imm(0)>>),
                   MachineInst("JE", <<BlockLabel(inst.targets[2])>>),
                   MachineInst("JMP", <<BlockLabel(inst.targets[1])>>) >>)

EndBasicBlock ==
  /\ phase = "inst"
  /\ currentInstIndex = Len(insts)
  /\ phase' = "block"
  /\ bb' = bb + 1
  /\ UNCHANGED <<module, fn, currentInstIndex, ra, lastUses, m_instructions>>

EndFunction ==
  /\ phase = "block"
  /\ bb > Len(function.blocks)
  /\ phase' = "function"
  /\ fn' = fn + 1
  /\ UNCHANGED <<module, bb, currentInstIndex, ra, lastUses, m_instructions>>

EndModule ==
  /\ phase = "function"
  /\ fn > Len(module)
  /\ phase' = "done"
  /\ UNCHANGED <<module, fn, bb, currentInstIndex, ra, lastUses,
                 m_instructions>>

LowerInstruction ==
  \/ LowerAlloca
  \/ LowerStore
  \/ LowerLoad
  \/ LowerArithmetic
  \/ LowerRet
  \/ LowerBr
  \/ LowerCondBr

Next ==
  \/ lowerFunction
  \/ lowerBasicBlock
  \/ LowerInstruction
  \/ Terminate
  \/ EndBasicBlock
  \/ EndFunction
  \/ EndModule

Spec == Init /\ [][Next]_vars

-----------------------------------------------------------------------------
(* Properties.                                                             *)
MachineOperands ==
  [kind : {"reg"}, reg : X86Reg] \cup [kind : {"imm"}, imm : Int]
    \cup [kind : {"mem"}, off : Int] \cup [kind : {"label"}, name : STRING]

X86InstKind == {"LABEL", "MOV", "ADD", "SUB", "CMP", "JE", "JMP", "PUSH",
                "POP", "RET"}

MachineInsts == [kind : X86InstKind, ops : Seq(MachineOperands)]

Allocations ==
  [ valueToRegister    : [Values -> Registers \cup {NoReg}],
    freeRegisters      : Seq(Registers),
    stackOffsets       : [Values -> Int],
    currentStackOffset : Int ]

(* The type of every variable.                                             *)
TypeOK ==
  /\ phase \in {"function", "block", "inst", "done", "terminated"}
  /\ fn \in 1..(Len(module) + 1)
  /\ phase \in {"block", "inst"} => fn <= Len(module)
  /\ bb \in Nat \ {0}
  /\ phase = "inst" => bb <= Len(function.blocks)
  /\ currentInstIndex \in Nat
  /\ phase = "inst" => currentInstIndex <= Len(insts)
  /\ ra \in Allocations
  /\ lastUses \in [Values -> Nat \cup {-1}]
  /\ m_instructions \in Seq(MachineInsts)

(* The register pool is neither leaked nor shared: every register of the   *)
(* pool is free, once, or belongs to exactly one value.                    *)
PoolConserved(a) ==
  /\ \A i, j \in 1..Len(a.freeRegisters) :
       a.freeRegisters[i] = a.freeRegisters[j] => i = j
  /\ \A v, w \in Values :
       a.valueToRegister[v] = a.valueToRegister[w] /\ v # w
         => a.valueToRegister[v] = NoReg
  /\ \A v \in Values : \A i \in 1..Len(a.freeRegisters) :
       a.valueToRegister[v] # a.freeRegisters[i]
  /\ \A r \in Registers :
       \/ \E i \in 1..Len(a.freeRegisters) : a.freeRegisters[i] = r
       \/ \E v \in Values : a.valueToRegister[v] = r

(* The maps that getOperandForValue and freeDeadRegisters keep by hand     *)
(* (valueToRegister, freeRegisters) partition the pool in every state,     *)
(* whatever the order of mentions, spills and releases.                    *)
RegistersConserved == PoolConserved(ra)

(* Values are spilled to 4-byte slots of their own, all of them between    *)
(* rbp and the allocator's current offset.                                 *)
OwnSlots(a) ==
  /\ a.currentStackOffset <= 0
  /\ \A v \in Values :
       \/ a.stackOffsets[v] = 0
       \/ a.stackOffsets[v] \in a.currentStackOffset..(-4)
  /\ \A v, w \in Values :
       v # w /\ a.stackOffsets[v] # 0 /\ a.stackOffsets[w] # 0
         => \/ a.stackOffsets[v] - a.stackOffsets[w] >= 4
            \/ a.stackOffsets[w] - a.stackOffsets[v] >= 4

(* The stack slots of two spilled values of a function never overlap.      *)
SlotsDisjoint == OwnSlots(ra)

UsedFrom(v, i) ==
  \E j \in i..(Len(insts) - 1) : Ref(v) \in ToSet(insts[j + 1].args)

(* While a block is lowered, a register is held only for a value that the  *)
(* block still uses, or that it does not use at all (it may be used in     *)
(* another block): freeDeadRegisters misses no last use, so a spill never  *)
(* happens for want of a register that a dead value of the block holds.    *)
HeldForUse ==
  phase = "inst" =>
    \A v \in Values :
      ra.valueToRegister[v] # NoReg /\ UsedFrom(v, 0)
        => UsedFrom(v, currentInstIndex)

(* A register is taken from a value only when no later instruction of the  *)
(* block uses the value: freeDeadRegisters never frees too early within    *)
(* the block that computeLiveness scanned.                                 *)
NoEarlyRelease ==
  [][phase = "inst" =>
       \A v \in Values :
         ra.valueToRegister[v] # NoReg /\ ra'.valueToRegister[v] = NoReg
           => ~UsedFrom(v, currentInstIndex + 1)]_vars

Encodable(i) ==
  /\ Cardinality({k \in 1..Len(i.ops) : i.ops[k].kind = "mem"}) <= 1
  /\ i.kind \in {"MOV", "ADD", "SUB", "CMP"} => i.ops[1].kind # "imm"

(* Every instruction emitted exists on x86: at most one memory operand,    *)
(* and no immediate as first operand.                                      *)
EncodableCode == \A i \in 1..Len(m_instructions) : Encodable(m_instructions[i])
=============================================================================
