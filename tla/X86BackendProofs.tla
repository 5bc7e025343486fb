-------------------------- MODULE X86BackendProofs ---------------------------
(***************************************************************************)
(* Proofs about X86Backend and the machine that runs its code: types, what *)
(* the register allocator keeps true whatever the modules, the values and  *)
(* the register pool are, and what main does to the stack of its caller.   *)
(***************************************************************************)
EXTENDS X86Run, SequenceTheorems, FiniteSetTheorems,
        WellFoundedInduction, TLAPS

-----------------------------------------------------------------------------
(* Operands and instructions.                                              *)

LEMMA OperandTypes ==
  ASSUME NEW V, NEW o \in Operands(V)
  PROVE  /\ o.imm \in BOOLEAN
         /\ o.imm => o.id \in Int
         /\ ~o.imm => o.id \in V
  BY DEF Operands

LEMMA InstructionTypes ==
  ASSUME NEW V, NEW B, NEW i \in Instructions(V, B)
  PROVE  /\ i.op \in {"store", "add", "sub"}
              => i.args[1] \in Operands(V) /\ i.args[2] \in Operands(V)
         /\ i.op \in {"load", "condbr"} => i.args[1] \in Operands(V)
         /\ i.op \in {"load", "add", "sub"} => i.id \in V
         /\ i.op = "ret" => i.args = << >> \/ i.args[1] \in Operands(V)
         /\ i.op \in {"br", "condbr"} => i.targets[1] \in B
         /\ i.op = "condbr" => i.targets[2] \in B
         /\ i.op = "br" => Len(i.targets) = 1
         /\ i.op = "condbr" => Len(i.targets) = 2
  BY DEF Instructions

LEMMA RefType ==
  ASSUME NEW v \in Values
  PROVE  Ref(v) \in Operands(Values) /\ ~Ref(v).imm /\ Ref(v).id = v
  BY DEF Ref, Operands

(* The code being lowered comes from a module of the input.                *)
LEMMA ModuleTypes ==
  ASSUME NEW m \in Modules, NEW f \in 1..Len(m)
  PROVE  /\ m[f].name \in STRING
         /\ m[f].blocks \in Seq(Blocks(Values))
         /\ \A b \in 1..Len(m[f].blocks) :
              /\ m[f].blocks[b].name \in STRING
              /\ m[f].blocks[b].insts \in Seq(Instructions(Values, Nat \ {0}))
  <1>1. m \in Seq(Functions(Values))
    BY ModulesAssumption
  <1>2. m[f] \in Functions(Values)
    BY <1>1
  <1>3. m[f].name \in STRING /\ m[f].blocks \in Seq(Blocks(Values))
    BY <1>2 DEF Functions
  <1>4. \A b \in 1..Len(m[f].blocks) : m[f].blocks[b] \in Blocks(Values)
    BY <1>3
  <1> QED BY <1>3, <1>4 DEF Blocks

-----------------------------------------------------------------------------
(* The allocator: types.                                                   *)

LEMMA PopTypes ==
  ASSUME NEW S, NEW s \in Seq(S), s # << >>
  PROVE  /\ Len(s) \in Nat \ {0}
         /\ Last(s) = s[Len(s)] /\ Last(s) \in S
         /\ Front(s) \in Seq(S) /\ Len(Front(s)) = Len(s) - 1
         /\ \A i \in 1..Len(Front(s)) : Front(s)[i] = s[i]
  <1>1. Len(s) \in Nat /\ Len(s) # 0
    BY EmptySeq
  <1>2. Last(s) = s[Len(s)] /\ Last(s) \in S
    BY <1>1 DEF Last
  <1>3. Front(s) = [i \in 1..(Len(s) - 1) |-> s[i]]
    BY DEF Front
  <1>4. Front(s) \in Seq(S) /\ Len(Front(s)) = Len(s) - 1
    BY <1>1, <1>3, IsASeq, LenProperties
  <1> QED BY <1>1, <1>2, <1>3, <1>4

LEMMA TakeRegisterType ==
  ASSUME NEW a \in Allocations, NEW v \in Values, a.freeRegisters # << >>
  PROVE  TakeRegister(a, v) \in Allocations
  BY PopTypes DEF Allocations, TakeRegister

LEMMA SpillType ==
  ASSUME NEW a \in Allocations, NEW v \in Values
  PROVE  /\ Spill(a, v) \in Allocations
         /\ Spill(a, v).valueToRegister = a.valueToRegister
         /\ Spill(a, v).freeRegisters = a.freeRegisters
         /\ Spill(a, v).currentStackOffset = a.currentStackOffset - 4
         /\ Spill(a, v).stackOffsets =
              [a.stackOffsets EXCEPT ![v] = a.currentStackOffset - 4]
  <1> DEFINE b == Spill(a, v)
             off == a.currentStackOffset - 4
             slots == [a.stackOffsets EXCEPT ![v] = off]
  <1>1. off \in Int /\ a.stackOffsets \in [Values -> Int]
    BY DEF Allocations
  <1>2. slots \in [Values -> Int]
    BY <1>1
  <1>3. b = [valueToRegister |-> a.valueToRegister,
             freeRegisters |-> a.freeRegisters,
             stackOffsets |-> slots,
             currentStackOffset |-> off]
    <2> DEFINE c == [a EXCEPT !.stackOffsets = slots]
    <2>1. c = [valueToRegister |-> a.valueToRegister,
               freeRegisters |-> a.freeRegisters,
               stackOffsets |-> slots,
               currentStackOffset |-> a.currentStackOffset]
      <3> HIDE DEF slots
      <3> QED BY DEF Allocations
    <2>2. b = [c EXCEPT !.currentStackOffset = off]
      BY Zenon DEF Spill
    <2> HIDE DEF slots, c, b, off
    <2> QED BY <2>1, <2>2
  <1> HIDE DEF b, off, slots
  <1>4. b \in Allocations /\ b.valueToRegister = a.valueToRegister
        /\ b.freeRegisters = a.freeRegisters
        /\ b.currentStackOffset = off /\ b.stackOffsets = slots
    BY <1>1, <1>2, <1>3 DEF Allocations
  <1> QED BY <1>4 DEF b, off, slots

LEMMA PlaceType ==
  ASSUME NEW a \in Allocations, NEW o \in Operands(Values)
  PROVE  Place(a, o) \in Allocations
  BY OperandTypes, TakeRegisterType, SpillType DEF Place

LEMMA ReleaseType ==
  ASSUME NEW a \in Allocations, NEW o \in Operands(Values)
  PROVE  Release(a, o) \in Allocations
  <1>1. CASE ~o.imm /\ a.valueToRegister[o.id] # NoReg
    <2>1. o.id \in Values
      BY <1>1, OperandTypes
    <2>2. a.valueToRegister[o.id] \in Registers
      BY <1>1, <2>1 DEF Allocations
    <2>3. Append(a.freeRegisters, a.valueToRegister[o.id]) \in Seq(Registers)
      BY <2>2 DEF Allocations
    <2> QED BY <2>1, <2>3 DEF Release, Allocations
  <1>2. CASE ~(~o.imm /\ a.valueToRegister[o.id] # NoReg)
    BY <1>2 DEF Release
  <1> QED BY <1>1, <1>2

LEMMA EmptyAllocationType == EmptyAllocation \in Allocations
  <1>1. RegisterPool \in Seq(Registers)
    BY PoolAssumption, IsASeq DEF Registers
  <1> QED BY <1>1 DEF EmptyAllocation, Allocations

-----------------------------------------------------------------------------
(* The allocator: the pool is conserved.                                   *)

LEMMA EmptyPoolConserved == PoolConserved(EmptyAllocation)
  <1>1. \A i \in 1..Len(RegisterPool) : RegisterPool[i] # NoReg
    BY PoolAssumption, NoRegAssumption
  <1> QED BY <1>1, PoolAssumption DEF PoolConserved, EmptyAllocation, Registers

LEMMA TakeRegisterConserves ==
  ASSUME NEW a \in Allocations, NEW v \in Values,
         a.freeRegisters # << >>, a.valueToRegister[v] = NoReg,
         PoolConserved(a)
  PROVE  PoolConserved(TakeRegister(a, v))
  <1> DEFINE b == TakeRegister(a, v)
             free == a.freeRegisters
             top == free[Len(free)]
  <1>1. /\ Len(free) \in Nat \ {0}
        /\ b.freeRegisters = Front(free)
        /\ Len(Front(free)) = Len(free) - 1
        /\ \A i \in 1..Len(Front(free)) : Front(free)[i] = free[i]
        /\ top \in Registers
    BY PopTypes DEF TakeRegister, Allocations
  <1>2. /\ b.valueToRegister[v] = top
        /\ \A w \in Values \ {v} : b.valueToRegister[w] = a.valueToRegister[w]
    BY PopTypes DEF TakeRegister, Allocations
  <1>3. \A i, j \in 1..Len(b.freeRegisters) :
          b.freeRegisters[i] = b.freeRegisters[j] => i = j
    BY <1>1 DEF PoolConserved
  <1>4. \A u, w \in Values :
          b.valueToRegister[u] = b.valueToRegister[w] /\ u # w
            => b.valueToRegister[u] = NoReg
    BY <1>1, <1>2 DEF PoolConserved
  <1>5. \A w \in Values : \A i \in 1..Len(b.freeRegisters) :
          b.valueToRegister[w] # b.freeRegisters[i]
    BY <1>1, <1>2 DEF PoolConserved
  <1>6. ASSUME NEW r \in Registers
        PROVE  \/ \E i \in 1..Len(b.freeRegisters) : b.freeRegisters[i] = r
               \/ \E w \in Values : b.valueToRegister[w] = r
    <2>1. CASE r = top
      BY <2>1, <1>2
    <2>2. CASE r # top /\ \E i \in 1..Len(free) : free[i] = r
      BY <2>2, <1>1
    <2>3. CASE \E w \in Values : a.valueToRegister[w] = r
      <3>1. NoReg \notin Registers
        BY PoolAssumption, NoRegAssumption DEF Registers
      <3> QED BY <2>3, <3>1, <1>2
    <2> QED BY <2>1, <2>2, <2>3 DEF PoolConserved
  <1> QED BY <1>3, <1>4, <1>5, <1>6 DEF PoolConserved

LEMMA PlaceConserves ==
  ASSUME NEW a \in Allocations, NEW o \in Operands(Values), PoolConserved(a)
  PROVE  PoolConserved(Place(a, o))
  <1>1. CASE o.imm \/ a.valueToRegister[o.id] # NoReg
    BY <1>1 DEF Place
  <1>2. CASE ~o.imm /\ a.valueToRegister[o.id] = NoReg /\ a.freeRegisters # << >>
    BY <1>2, OperandTypes, TakeRegisterConserves DEF Place
  <1>3. CASE ~o.imm /\ a.valueToRegister[o.id] = NoReg /\ a.freeRegisters = << >>
    BY <1>3 DEF Place, Spill, PoolConserved, Allocations
  <1> QED BY <1>1, <1>2, <1>3, OperandTypes

LEMMA ReleaseConserves ==
  ASSUME NEW a \in Allocations, NEW o \in Operands(Values), PoolConserved(a)
  PROVE  PoolConserved(Release(a, o))
  <1> DEFINE b == Release(a, o)
             v == o.id
             r == a.valueToRegister[v]
             free == a.freeRegisters
  <1>1. CASE b = a
    BY <1>1
  <1>2. CASE b # a
    <2>1. ~o.imm /\ r # NoReg /\ v \in Values
      BY <1>2, OperandTypes DEF Release
    <2>2. r \in Registers /\ free \in Seq(Registers) /\ Len(free) \in Nat
      BY <2>1 DEF Allocations
    <2>3. /\ b.freeRegisters = Append(free, r)
          /\ b.valueToRegister = [a.valueToRegister EXCEPT ![v] = NoReg]
      BY <1>2, <2>1 DEF Release, Allocations
    <2>4. /\ Len(b.freeRegisters) = Len(free) + 1
          /\ b.freeRegisters[Len(free) + 1] = r
          /\ \A i \in 1..Len(free) : b.freeRegisters[i] = free[i]
      BY <2>2, <2>3, AppendProperties
    <2>5. /\ b.valueToRegister[v] = NoReg
          /\ \A w \in Values \ {v} : b.valueToRegister[w] = a.valueToRegister[w]
      BY <2>1, <2>3 DEF Allocations
    <2>6. \A i \in 1..Len(free) : free[i] # r /\ free[i] # NoReg
      <3>1. \A i \in 1..Len(free) : free[i] # r
        BY <2>1 DEF PoolConserved
      <3>2. \A i \in 1..Len(free) : free[i] \in Registers
        <4> HIDE DEF free
        <4> QED BY <2>2, ElementOfSeq
      <3>3. NoReg \notin Registers
        BY NoRegAssumption, PoolAssumption DEF Registers
      <3> HIDE DEF free
      <3> QED BY <3>1, <3>2, <3>3
    <2>7. \A i, j \in 1..Len(b.freeRegisters) :
            b.freeRegisters[i] = b.freeRegisters[j] => i = j
      <3>1. \A i, j \in 1..Len(free) : free[i] = free[j] => i = j
        BY DEF PoolConserved
      <3>2. \A i \in 1..(Len(free) + 1) : i \in 1..Len(free) \/ i = Len(free) + 1
        BY <2>2
      <3> HIDE DEF b, free, r
      <3> QED BY <2>4, <2>6, <3>1, <3>2
    <2>8. \A u, w \in Values :
            b.valueToRegister[u] = b.valueToRegister[w] /\ u # w
              => b.valueToRegister[u] = NoReg
      BY <2>5 DEF PoolConserved
    <2>9. \A w \in Values : \A i \in 1..Len(b.freeRegisters) :
            b.valueToRegister[w] # b.freeRegisters[i]
      <3>1. \A i \in 1..(Len(free) + 1) : i \in 1..Len(free) \/ i = Len(free) + 1
        BY <2>2
      <3>2. \A w \in Values : w # v => a.valueToRegister[w] = NoReg \/ a.valueToRegister[w] # r
        BY <2>1 DEF PoolConserved
      <3>3. \A w \in Values : \A i \in 1..Len(free) : a.valueToRegister[w] # free[i]
        BY DEF PoolConserved
      <3> HIDE DEF b, free, r, v
      <3> QED BY <2>1, <2>4, <2>5, <2>6, <3>1, <3>2, <3>3
    <2>10. \A q \in Registers :
             \/ \E i \in 1..Len(b.freeRegisters) : b.freeRegisters[i] = q
             \/ \E w \in Values : b.valueToRegister[w] = q
      BY <2>2, <2>4, <2>5 DEF PoolConserved
    <2> QED BY <2>7, <2>8, <2>9, <2>10 DEF PoolConserved
  <1> QED BY <1>1, <1>2

-----------------------------------------------------------------------------
(* The allocator: spilled values keep slots of their own.                  *)

LEMMA EmptyOwnSlots == OwnSlots(EmptyAllocation)
  BY DEF OwnSlots, EmptyAllocation

LEMMA PlaceOwnSlots ==
  ASSUME NEW a \in Allocations, NEW o \in Operands(Values), OwnSlots(a)
  PROVE  OwnSlots(Place(a, o))
  <1>1. CASE Place(a, o) = a
    BY <1>1
  <1>2. CASE Place(a, o) = TakeRegister(a, o.id)
    BY <1>2 DEF TakeRegister, Allocations, OwnSlots
  <1>3. CASE Place(a, o) = Spill(a, o.id) /\ ~o.imm
    <2> DEFINE b == Spill(a, o.id)
               c == a.currentStackOffset
    <2>1. o.id \in Values /\ c \in Int /\ a.stackOffsets \in [Values -> Int]
      BY <1>3, OperandTypes DEF Allocations
    <2>2. b.currentStackOffset = c - 4
          /\ b.stackOffsets = [a.stackOffsets EXCEPT ![o.id] = c - 4]
      BY <2>1, SpillType
    <2>3. b.stackOffsets[o.id] = c - 4
          /\ \A v \in Values \ {o.id} : b.stackOffsets[v] = a.stackOffsets[v]
      BY <2>1, <2>2
    <2>4. b.currentStackOffset <= 0
      BY <2>1, <2>2 DEF OwnSlots
    <2>5. \A v \in Values : \/ b.stackOffsets[v] = 0
                            \/ b.stackOffsets[v] \in (c - 4)..(-4)
      BY <2>1, <2>3 DEF OwnSlots
    <2>6. ASSUME NEW v \in Values, NEW w \in Values, v # w,
                 b.stackOffsets[v] # 0, b.stackOffsets[w] # 0
          PROVE  \/ b.stackOffsets[v] - b.stackOffsets[w] >= 4
                 \/ b.stackOffsets[w] - b.stackOffsets[v] >= 4
      <3> HIDE DEF b, c
      <3>1. CASE v # o.id /\ w # o.id
        BY <3>1, <2>3, <2>6 DEF OwnSlots
      <3>2. CASE v = o.id
        <4>1. a.stackOffsets[w] \in c..(-4)
          BY <3>2, <2>3, <2>6 DEF OwnSlots, c
        <4> QED BY <4>1, <3>2, <2>1, <2>3, <2>6
      <3>3. CASE w = o.id
        <4>1. a.stackOffsets[v] \in c..(-4)
          BY <3>3, <2>3, <2>6 DEF OwnSlots, c
        <4> QED BY <4>1, <3>3, <2>1, <2>3, <2>6
      <3> QED BY <3>1, <3>2, <3>3
    <2> QED BY <1>3, <2>2, <2>4, <2>5, <2>6 DEF OwnSlots
  <1> QED BY <1>1, <1>2, <1>3, OperandTypes DEF Place

LEMMA ReleaseOwnSlots ==
  ASSUME NEW a \in Allocations, NEW o \in Operands(Values), OwnSlots(a)
  PROVE  OwnSlots(Release(a, o))
  BY DEF Release, Allocations, OwnSlots

-----------------------------------------------------------------------------
(* The code emitted: types.                                                *)

LEMMA OperandInType ==
  ASSUME NEW a \in Allocations, NEW o \in Operands(Values)
  PROVE  OperandIn(a, o) \in MachineOperands
  <1>1. Registers \subseteq X86Reg
    BY PoolAssumption DEF Registers
  <1>2. CASE o.imm
    BY <1>2, OperandTypes DEF OperandIn, Imm, MachineOperands
  <1>3. CASE ~o.imm /\ a.valueToRegister[o.id] # NoReg
    BY <1>1, <1>3, OperandTypes DEF OperandIn, Reg, MachineOperands, Allocations
  <1>4. CASE ~o.imm /\ a.valueToRegister[o.id] = NoReg
    BY <1>4, OperandTypes DEF OperandIn, Mem, MachineOperands, Allocations
  <1> QED BY <1>2, <1>3, <1>4

LEMMA RegTypes ==
  /\ \A r \in {"eax", "ebx", "rbp", "rsp"} : Reg(r) \in MachineOperands
  /\ \A n \in Int : Imm(n) \in MachineOperands
  /\ \A name \in STRING : Lbl(name) \in MachineOperands
  BY DEF Reg, Imm, Lbl, MachineOperands, X86Reg

LEMMA MachineInstTypes ==
  ASSUME NEW k \in X86InstKind
  PROVE  /\ MachineInst(k, << >>) \in MachineInsts
         /\ \A x \in MachineOperands : MachineInst(k, <<x>>) \in MachineInsts
         /\ \A x, y \in MachineOperands : MachineInst(k, <<x, y>>) \in MachineInsts
  BY DEF MachineInst, MachineInsts

LEMMA MovType ==
  ASSUME NEW x \in MachineOperands, NEW y \in MachineOperands
  PROVE  Mov(x, y) \in MachineInsts
  BY MachineInstTypes DEF Mov, X86InstKind

LEMMA LabelType ==
  ASSUME NEW name \in STRING
  PROVE  Label(name) \in MachineInsts
  BY MachineInstTypes, RegTypes DEF Label, X86InstKind

LEMMA EpilogueType == emitEpilogue \in Seq(MachineInsts)
  <1>1. MachineInst("POP", <<Reg("rbp")>>) \in MachineInsts
    BY MachineInstTypes, RegTypes DEF X86InstKind
  <1>2. MachineInst("RET", << >>) \in MachineInsts
    BY MachineInstTypes DEF X86InstKind
  <1>3. Mov(Reg("rsp"), Reg("rbp")) \in MachineInsts
    BY MovType, RegTypes
  <1> QED BY <1>1, <1>2, <1>3 DEF emitEpilogue

LEMMA PrologueType ==
  ASSUME NEW name \in STRING
  PROVE  emitPrologue(name) \in Seq(MachineInsts)
  <1>1. MachineInst("PUSH", <<Reg("rbp")>>) \in MachineInsts
    BY MachineInstTypes, RegTypes DEF X86InstKind
  <1>2. MachineInst("SUB", <<Reg("rsp"), Imm(FrameBytes)>>) \in MachineInsts
    BY MachineInstTypes, RegTypes DEF X86InstKind, FrameBytes
  <1>3. Mov(Reg("rbp"), Reg("rsp")) \in MachineInsts
    BY MovType, RegTypes
  <1> QED BY <1>1, <1>2, <1>3, LabelType DEF emitPrologue

LEMMA StoreCodeType ==
  ASSUME NEW x \in MachineOperands, NEW y \in MachineOperands
  PROVE  StoreCode(x, y) \in Seq(MachineInsts)
  BY MovType, RegTypes DEF StoreCode

LEMMA ArithmeticCodeType ==
  ASSUME NEW k \in {"ADD", "SUB"}, NEW x \in MachineOperands,
         NEW y \in MachineOperands, NEW z \in MachineOperands
  PROVE  ArithmeticCode(k, x, y, z) \in Seq(MachineInsts)
  <1>1. /\ Mov(Reg("eax"), x) \in MachineInsts
        /\ Mov(Reg("ebx"), y) \in MachineInsts
        /\ Mov(z, Reg("eax")) \in MachineInsts
    BY MovType, RegTypes
  <1>2. /\ MachineInst(k, <<Reg("eax"), Reg("ebx")>>) \in MachineInsts
        /\ MachineInst(k, <<Reg("eax"), y>>) \in MachineInsts
    BY MachineInstTypes, RegTypes DEF X86InstKind
  <1> DEFINE first == << Mov(Reg("eax"), x) >>
             viaEbx == << Mov(Reg("ebx"), y),
                          MachineInst(k, <<Reg("eax"), Reg("ebx")>>) >>
             direct == << MachineInst(k, <<Reg("eax"), y>>) >>
             last == << Mov(z, Reg("eax")) >>
  <1>3. /\ first \in Seq(MachineInsts) /\ viaEbx \in Seq(MachineInsts)
        /\ direct \in Seq(MachineInsts) /\ last \in Seq(MachineInsts)
    BY <1>1, <1>2
  <1>4. ArithmeticCode(k, x, y, z) =
          first \o (IF y.kind = "mem" THEN viaEbx ELSE direct) \o last
    BY DEF ArithmeticCode
  <1> HIDE DEF first, viaEbx, direct, last
  <1> QED BY <1>3, <1>4

-----------------------------------------------------------------------------
(* The inductive invariant: the state is typed, and the allocation is one  *)
(* that the allocator may be in.                                           *)
Sound(a) == a \in Allocations /\ PoolConserved(a) /\ OwnSlots(a)

IInv ==
  /\ module \in Modules
  /\ TypeOK
  /\ Sound(ra)

LEMMA EmptySound == Sound(EmptyAllocation)
  BY EmptyAllocationType, EmptyPoolConserved, EmptyOwnSlots DEF Sound

LEMMA PlaceSound ==
  ASSUME NEW a, NEW o \in Operands(Values), Sound(a)
  PROVE  Sound(Place(a, o))
  BY PlaceType, PlaceConserves, PlaceOwnSlots DEF Sound

LEMMA ReleaseSound ==
  ASSUME NEW a, NEW o \in Operands(Values), Sound(a)
  PROVE  Sound(Release(a, o))
  BY ReleaseType, ReleaseConserves, ReleaseOwnSlots DEF Sound

LEMMA SoundOperand ==
  ASSUME NEW a, NEW o \in Operands(Values), Sound(a)
  PROVE  OperandIn(a, o) \in MachineOperands
  BY OperandInType DEF Sound

(* While a block is lowered its instructions are well typed.               *)
LEMMA InstType ==
  ASSUME IInv, phase = "inst"
  PROVE  /\ fn \in 1..Len(module) /\ bb \in 1..Len(function.blocks)
         /\ insts \in Seq(Instructions(Values, Nat \ {0}))
         /\ currentInstIndex \in 0..Len(insts)
         /\ currentInstIndex < Len(insts) =>
              /\ inst \in Instructions(Values, Nat \ {0})
              /\ \A k \in 1..Len(inst.targets) :
                   function.blocks[inst.targets[k]].name \in STRING
  <1>1. module \in Seq(Functions(Values)) /\ Len(module) \in Nat
    BY ModulesAssumption DEF IInv
  <1>2. fn \in 1..Len(module)
    BY <1>1 DEF IInv, TypeOK
  <1>3. /\ function.blocks \in Seq(Blocks(Values))
        /\ \A b \in 1..Len(function.blocks) :
             /\ function.blocks[b].name \in STRING
             /\ function.blocks[b].insts \in Seq(Instructions(Values, Nat \ {0}))
    BY <1>2, ModuleTypes DEF IInv, function
  <1>4. bb \in 1..Len(function.blocks)
    BY <1>3 DEF IInv, TypeOK
  <1>5. insts \in Seq(Instructions(Values, Nat \ {0}))
    BY <1>3, <1>4 DEF insts, function
  <1>6. currentInstIndex \in 0..Len(insts)
    BY <1>5 DEF IInv, TypeOK
  <1>7. ASSUME currentInstIndex < Len(insts)
        PROVE  /\ inst \in Instructions(Values, Nat \ {0})
               /\ \A k \in 1..Len(inst.targets) :
                    function.blocks[inst.targets[k]].name \in STRING
    <2>1. currentInstIndex + 1 \in 1..Len(insts)
      BY <1>5, <1>6, <1>7
    <2>2. inst \in Instructions(Values, Nat \ {0})
      BY <1>5, <2>1 DEF inst
    <2>3. BranchesInside(function)
      BY <1>2, ModulesAssumption DEF IInv, function
    <2>4. \A k \in 1..Len(inst.targets) : inst.targets[k] \in 1..Len(function.blocks)
      BY <1>4, <2>1, <2>3 DEF BranchesInside, inst, insts, function
    <2> QED BY <2>2, <2>4, <1>3
  <1> QED BY <1>2, <1>4, <1>5, <1>6, <1>7

(* A turn of the loop of lowerBasicBlock.                                  *)
LEMMA LoweredInv ==
  ASSUME IInv, phase = "inst", currentInstIndex < Len(insts),
         NEW a, Sound(a), NEW code \in Seq(MachineInsts), Lowered(a, code)
  PROVE  IInv'
  <1>1. currentInstIndex + 1 \in Nat /\ currentInstIndex + 1 <= Len(insts)
    BY InstType DEF IInv, TypeOK
  <1>2. /\ module' = module /\ phase' = phase /\ fn' = fn /\ bb' = bb
        /\ lastUses' = lastUses /\ ra' = a
        /\ currentInstIndex' = currentInstIndex + 1
        /\ m_instructions' = m_instructions \o code
    BY DEF Lowered
  <1>3. function' = function /\ insts' = insts
    BY <1>2 DEF function, insts
  <1>4. m_instructions' \in Seq(MachineInsts)
    BY <1>2 DEF IInv, TypeOK
  <1>5. TypeOK'
    BY <1>1, <1>2, <1>3, <1>4 DEF IInv, TypeOK, Sound
  <1>6. Sound(ra)'
    BY <1>2 DEF Sound, PoolConserved, OwnSlots, Allocations
  <1> QED BY <1>2, <1>5, <1>6 DEF IInv

LEMMA LowerInstructionInv ==
  ASSUME IInv, LowerInstruction
  PROVE  IInv'
  <1>1. phase = "inst" /\ currentInstIndex < Len(insts)
    BY DEF LowerInstruction, LowerAlloca, LowerStore, LowerLoad,
           LowerArithmetic, LowerRet, LowerBr, LowerCondBr, Lowering
  <1>2. inst \in Instructions(Values, Nat \ {0}) /\ Sound(ra)
    BY <1>1, InstType DEF IInv
  <1>3. CASE LowerAlloca
    <2>1. << >> \in Seq(MachineInsts)
      OBVIOUS
    <2> QED BY <1>1, <1>2, <1>3, <2>1, LoweredInv DEF LowerAlloca
  <1>4. CASE LowerStore
    <2> DEFINE val == inst.args[1]
               ptr == inst.args[2]
               a1 == Place(ra, val)
               a2 == Place(a1, ptr)
    <2>1. val \in Operands(Values) /\ ptr \in Operands(Values)
      BY <1>2, <1>4, InstructionTypes DEF LowerStore, Lowering
    <2>2. Sound(a1)
      BY <2>1, <1>2, PlaceSound
    <2>3. Sound(a2)
      BY <2>1, <2>2, PlaceSound
    <2>4. Sound(Release(Release(a2, val), ptr))
      BY <2>1, <2>3, ReleaseSound
    <2>5. StoreCode(OperandIn(a2, ptr), OperandIn(a1, val)) \in Seq(MachineInsts)
      BY <2>1, <2>2, <2>3, SoundOperand, StoreCodeType
    <2> QED BY <1>1, <1>4, <2>4, <2>5, LoweredInv DEF LowerStore
  <1>5. CASE LowerLoad
    <2> DEFINE ptr == inst.args[1]
               dest == Ref(inst.id)
               a1 == Place(ra, ptr)
               a2 == Place(a1, dest)
    <2>1. ptr \in Operands(Values) /\ dest \in Operands(Values)
      BY <1>2, <1>5, InstructionTypes, RefType DEF LowerLoad, Lowering
    <2>2. Sound(a1)
      BY <2>1, <1>2, PlaceSound
    <2>3. Sound(a2)
      BY <2>1, <2>2, PlaceSound
    <2>4. Sound(Release(a2, ptr))
      BY <2>1, <2>3, ReleaseSound
    <2>5. << Mov(Reg("eax"), OperandIn(a1, ptr)),
             Mov(OperandIn(a2, dest), Reg("eax")) >> \in Seq(MachineInsts)
      BY <2>1, <2>2, <2>3, SoundOperand, MovType, RegTypes
    <2> QED BY <1>1, <1>5, <2>4, <2>5, LoweredInv DEF LowerLoad
  <1>6. CASE LowerArithmetic
    <2> DEFINE lhs == inst.args[1]
               rhs == inst.args[2]
               dest == Ref(inst.id)
               a1 == Place(ra, lhs)
               a2 == Place(a1, rhs)
               a3 == Place(a2, dest)
               kind == IF inst.op = "add" THEN "ADD" ELSE "SUB"
    <2>1. /\ lhs \in Operands(Values) /\ rhs \in Operands(Values)
          /\ dest \in Operands(Values)
      BY <1>2, <1>6, InstructionTypes, RefType DEF LowerArithmetic, Lowering
    <2>2. Sound(a1)
      BY <2>1, <1>2, PlaceSound
    <2>3. Sound(a2)
      BY <2>1, <2>2, PlaceSound
    <2>4. Sound(a3)
      BY <2>1, <2>3, PlaceSound
    <2>5. Sound(Release(Release(a3, lhs), rhs))
      BY <2>1, <2>4, ReleaseSound
    <2>6. ArithmeticCode(kind, OperandIn(a1, lhs), OperandIn(a2, rhs),
                         OperandIn(a3, dest)) \in Seq(MachineInsts)
      BY <2>1, <2>2, <2>3, <2>4, SoundOperand, ArithmeticCodeType
    <2> QED BY <1>1, <1>6, <2>5, <2>6, LoweredInv DEF LowerArithmetic
  <1>7. CASE LowerRet
    <2>1. CASE inst.args = << >>
      BY <1>1, <1>2, <1>7, <2>1, EpilogueType, LoweredInv DEF LowerRet
    <2>2. CASE inst.args # << >>
      <3> DEFINE val == inst.args[1]
                 a1 == Place(ra, val)
                 mov == << Mov(Reg("eax"), OperandIn(a1, val)) >>
      <3>1. val \in Operands(Values)
        BY <1>2, <1>7, <2>2, InstructionTypes DEF LowerRet, Lowering
      <3>2. Sound(a1) /\ Sound(Release(a1, val))
        BY <3>1, <1>2, PlaceSound, ReleaseSound
      <3>3. mov \in Seq(MachineInsts)
        BY <3>1, <3>2, SoundOperand, MovType, RegTypes
      <3>4. mov \o emitEpilogue \in Seq(MachineInsts)
        BY <3>3, EpilogueType
      <3> QED BY <1>1, <1>7, <2>2, <3>2, <3>4, LoweredInv DEF LowerRet
    <2> QED BY <2>1, <2>2
  <1>8. CASE LowerBr
    <2>1. Len(inst.targets) = 1
      BY <1>2, <1>8, InstructionTypes DEF LowerBr, Lowering
    <2>2. BlockLabel(inst.targets[1]) \in MachineOperands
      <3>1. function.blocks[inst.targets[1]].name \in STRING
        BY <2>1, <1>1, InstType
      <3> QED BY <3>1, RegTypes DEF BlockLabel
    <2>3. << MachineInst("JMP", <<BlockLabel(inst.targets[1])>>) >>
            \in Seq(MachineInsts)
      BY <2>2, MachineInstTypes DEF X86InstKind
    <2> QED BY <1>1, <1>2, <1>8, <2>3, LoweredInv DEF LowerBr
  <1>9. CASE LowerCondBr
    <2> DEFINE cond == inst.args[1]
               a1 == Place(ra, cond)
               cmp == MachineInst("CMP", <<OperandIn(a1, cond), Imm(0)>>)
               je == MachineInst("JE", <<BlockLabel(inst.targets[2])>>)
               jmp == MachineInst("JMP", <<BlockLabel(inst.targets[1])>>)
    <2>1. cond \in Operands(Values) /\ Len(inst.targets) = 2
      BY <1>2, <1>9, InstructionTypes DEF LowerCondBr, Lowering
    <2>2. Sound(a1) /\ Sound(Release(a1, cond))
      BY <2>1, <1>2, PlaceSound, ReleaseSound
    <2>3. /\ BlockLabel(inst.targets[1]) \in MachineOperands
          /\ BlockLabel(inst.targets[2]) \in MachineOperands
      <3>1. /\ function.blocks[inst.targets[1]].name \in STRING
            /\ function.blocks[inst.targets[2]].name \in STRING
        BY <2>1, <1>1, InstType
      <3> QED BY <3>1, RegTypes DEF BlockLabel
    <2>4. cmp \in MachineInsts
      BY <2>1, <2>2, SoundOperand, MachineInstTypes, RegTypes DEF X86InstKind
    <2>5. je \in MachineInsts /\ jmp \in MachineInsts
      BY <2>3, MachineInstTypes DEF X86InstKind
    <2>6. << cmp, je, jmp >> \in Seq(MachineInsts)
      BY <2>4, <2>5
    <2> QED BY <1>1, <1>9, <2>2, <2>6, LoweredInv DEF LowerCondBr
  <1> QED BY <1>3, <1>4, <1>5, <1>6, <1>7, <1>8, <1>9 DEF LowerInstruction

LEMMA InitInv == Init => IInv
  <1> SUFFICES ASSUME Init PROVE IInv
    OBVIOUS
  <1>1. module \in Seq(Functions(Values)) /\ Len(module) \in Nat
    BY ModulesAssumption DEF Init, Reset
  <1>2. Sound(ra)
    BY EmptySound DEF Init, Reset
  <1>3. TypeOK
    BY <1>1, <1>2 DEF Init, Reset, TypeOK, Sound
  <1> QED BY <1>2, <1>3 DEF Init, Reset, IInv

-----------------------------------------------------------------------------
(* computeLiveness.                                                        *)

(* A non-empty set of numbers with a bound has a greatest element: take    *)
(* the least of the intervals that its elements begin.                     *)
LEMMA GreatestExists ==
  ASSUME NEW n \in Nat, NEW U \in SUBSET (0..n), U # {}
  PROVE  \E m \in U : \A j \in U : j <= m
  <1> DEFINE T == {i..n : i \in U}
  <1>1. IsFiniteSet(0..n)
    BY FS_Interval
  <1>2. T \subseteq FiniteSubsetsOf(0..n) /\ T # {}
    <2>1. \A i \in U : i..n \in SUBSET (0..n)
      OBVIOUS
    <2>2. FiniteSubsetsOf(0..n) = SUBSET (0..n)
      BY <1>1, FS_FiniteSubsetsOfFinite
    <2>3. T \subseteq SUBSET (0..n)
      BY <2>1
    <2>4. T # {}
      OBVIOUS
    <2> QED BY <2>2, <2>3, <2>4
  <1>3. IsWellFoundedOn(StrictSubsetOrdering(0..n), FiniteSubsetsOf(0..n))
    BY FS_StrictSubsetOrderingWellFounded
  <1>4. PICK x \in T : \A y \in T : <<y, x>> \notin StrictSubsetOrdering(0..n)
    BY <1>2, <1>3, WFMin
  <1>5. PICK m \in U : x = m..n
    OBVIOUS
  <1>6. ASSUME NEW j \in U, j > m
        PROVE  FALSE
    <2>1. j..n \subseteq x /\ j..n # x /\ x \subseteq 0..n
      BY <1>5, <1>6
    <2>2. <<j..n, x>> \in StrictSubsetOrdering(0..n)
      BY <2>1 DEF StrictSubsetOrdering
    <2> QED BY <1>4, <2>2
  <1> QED BY <1>6

(* lastUses is the last use of a value that the block uses, and what it    *)
(* was for the others.                                                     *)
LEMMA LastUse ==
  ASSUME NEW uses, NEW code, Len(code) \in Nat, NEW v \in Values
  PROVE  LET u == computeLiveness(uses, code)[v]
         IN  IF UsesIn(code, v) = {} THEN u = uses[v]
             ELSE u \in UsesIn(code, v) /\ \A j \in UsesIn(code, v) : j <= u
  <1> DEFINE U == UsesIn(code, v)
  <1>1. computeLiveness(uses, code)[v] =
          IF U = {} THEN uses[v] ELSE CHOOSE i \in U : \A j \in U : j <= i
    BY DEF computeLiveness
  <1>2. U \in SUBSET (0..Len(code))
    BY DEF UsesIn
  <1> HIDE DEF U
  <1>3. U # {} => \E i \in U : \A j \in U : j <= i
    BY <1>2, GreatestExists
  <1>4. U # {} => /\ (CHOOSE i \in U : \A j \in U : j <= i) \in U
                  /\ \A j \in U : j <= CHOOSE i \in U : \A k \in U : k <= i
    BY <1>3
  <1> QED BY <1>1, <1>4 DEF U

LEMMA LivenessType ==
  ASSUME NEW uses \in [Values -> Nat \cup {-1}],
         NEW code, Len(code) \in Nat
  PROVE  computeLiveness(uses, code) \in [Values -> Nat \cup {-1}]
  <1>1. ASSUME NEW v \in Values
        PROVE  computeLiveness(uses, code)[v] \in Nat \cup {-1}
    <2>1. UsesIn(code, v) \subseteq Nat
      BY DEF UsesIn
    <2> QED BY <2>1, LastUse
  <1>2. DOMAIN computeLiveness(uses, code) = Values
        /\ computeLiveness(uses, code) =
             [v \in Values |-> computeLiveness(uses, code)[v]]
    BY DEF computeLiveness
  <1> QED BY <1>1, <1>2

-----------------------------------------------------------------------------
LEMMA FunctionType ==
  ASSUME IInv, fn <= Len(module)
  PROVE  /\ fn \in 1..Len(module)
         /\ function.name \in STRING
         /\ Len(function.blocks) \in Nat
         /\ \A b \in 1..Len(function.blocks) :
              /\ function.blocks[b].name \in STRING
              /\ Len(function.blocks[b].insts) \in Nat
  <1>1. module \in Seq(Functions(Values)) /\ Len(module) \in Nat
    BY ModulesAssumption DEF IInv
  <1>2. fn \in 1..Len(module)
    BY <1>1 DEF IInv, TypeOK
  <1> QED BY <1>2, ModuleTypes DEF IInv, function

LEMMA NextInv == IInv /\ [Next]_vars => IInv'
  <1> SUFFICES ASSUME IInv, [Next]_vars PROVE IInv'
    OBVIOUS
  <1> USE DEF IInv
  <1>0. Len(module) \in Nat /\ fn \in 1..(Len(module) + 1) /\ bb \in Nat \ {0}
    BY ModulesAssumption DEF TypeOK
  <1>1. CASE lowerFunction
    <2>1. m_instructions' \in Seq(MachineInsts)
      <3>1. function.name \in STRING
        BY <1>1, FunctionType DEF lowerFunction
      <3>2. emitPrologue(function.name) \in Seq(MachineInsts)
        BY <3>1, PrologueType
      <3>3. m_instructions' = m_instructions \o emitPrologue(function.name)
        BY <1>1 DEF lowerFunction
      <3> QED BY <3>2, <3>3 DEF TypeOK
    <2>2. Sound(ra')
      BY <1>1, EmptySound DEF lowerFunction
    <2>3. TypeOK'
      BY <1>0, <1>1, <2>1, <2>2 DEF lowerFunction, TypeOK, Sound
    <2> QED BY <1>1, <2>2, <2>3 DEF lowerFunction
  <1>2. CASE lowerBasicBlock
    <2>1. bb \in 1..Len(function.blocks) /\ fn <= Len(module)
      BY <1>0, <1>2, FunctionType DEF lowerBasicBlock, TypeOK
    <2>2. Len(insts) \in Nat
      BY <2>1, FunctionType DEF insts, function
    <2>3. Append(m_instructions, Label(function.blocks[bb].name))
            \in Seq(MachineInsts)
      <3>1. Label(function.blocks[bb].name) \in MachineInsts
        BY <2>1, FunctionType, LabelType
      <3> QED BY <3>1 DEF TypeOK
    <2>4. computeLiveness(lastUses, insts) \in [Values -> Nat \cup {-1}]
      BY <2>2, LivenessType DEF TypeOK
    <2>5. insts' = insts /\ function' = function
      BY <1>2 DEF lowerBasicBlock, insts, function
    <2>6. TypeOK'
      BY <1>0, <1>2, <2>1, <2>2, <2>3, <2>4, <2>5
         DEF lowerBasicBlock, TypeOK
    <2> QED BY <1>2, <2>6 DEF lowerBasicBlock, Sound
  <1>3. CASE LowerInstruction
    BY <1>3, LowerInstructionInv
  <1>4. CASE EndBasicBlock
    BY <1>0, <1>4 DEF EndBasicBlock, TypeOK, Sound
  <1>5. CASE EndFunction
    BY <1>0, <1>5 DEF EndFunction, TypeOK, Sound
  <1>6. CASE EndModule
    BY <1>0, <1>6 DEF EndModule, TypeOK, Sound
  <1>7. CASE Terminate
    BY <1>0, <1>7 DEF Terminate, TypeOK, Sound
  <1>8. CASE UNCHANGED vars
    <2>1. function' = function /\ insts' = insts
      BY <1>8 DEF vars, function, insts
    <2> QED BY <1>8, <2>1 DEF vars, TypeOK, Sound
  <1> QED BY <1>1, <1>2, <1>3, <1>4, <1>5, <1>6, <1>7, <1>8 DEF Next

LEMMA InductiveInvariant == Spec => []IInv
  <1> QED BY InitInv, NextInv, PTL DEF Spec

(* The state stays well typed: in particular every operand that            *)
(* getOperandForValue returns is a register, an immediate or a stack slot, *)
(* and every branch names a block of the function being lowered.           *)
THEOREM TypeCorrect == Spec => []TypeOK
  <1>1. IInv => TypeOK
    BY DEF IInv
  <1> QED BY <1>1, InductiveInvariant, PTL

(* The register pool is partitioned into the free registers and those of   *)
(* exactly one value each, in every state, for every pool and module.      *)
THEOREM RegistersAreConserved == Spec => []RegistersConserved
  <1>1. IInv => RegistersConserved
    BY DEF IInv, Sound, RegistersConserved
  <1> QED BY <1>1, InductiveInvariant, PTL

(* Spilled values never overlap in the frame.                              *)
THEOREM SlotsAreDisjoint == Spec => []SlotsDisjoint
  <1>1. IInv => SlotsDisjoint
    BY DEF IInv, Sound, SlotsDisjoint
  <1> QED BY <1>1, InductiveInvariant, PTL

-----------------------------------------------------------------------------
(* Within a block, registers are released neither too early nor too late.  *)

Register(a, v) == a.valueToRegister[v]

(* v is an operand of the instruction being lowered.                       *)
Mentioned(v) == Ref(v) \in ToSet(inst.args)

(* In a block, lastUses holds the last use of what the block uses.         *)
LastUsesKnown ==
  phase = "inst" =>
    \A v \in Values :
      UsesIn(insts, v) # {} =>
        /\ lastUses[v] \in UsesIn(insts, v)
        /\ \A j \in UsesIn(insts, v) : j <= lastUses[v]

HInv == IInv /\ LastUsesKnown /\ HeldForUse

-----------------------------------------------------------------------------
(* What placing and releasing one operand does to a register.              *)

LEMMA PlaceRegister ==
  ASSUME NEW a, Sound(a), NEW o \in Operands(Values), NEW v \in Values
  PROVE  /\ Register(a, v) # NoReg => Register(Place(a, o), v) = Register(a, v)
         /\ Register(Place(a, o), v) # NoReg =>
              Register(a, v) # NoReg \/ o = Ref(v)
  <1>1. CASE Place(a, o) = a
    BY <1>1
  <1>2. CASE Place(a, o) = Spill(a, o.id) /\ o.id \in Values
    BY <1>2, SpillType DEF Register, Sound
  <1>3. CASE /\ ~o.imm /\ o.id \in Values
             /\ a.valueToRegister[o.id] = NoReg
             /\ Place(a, o) = TakeRegister(a, o.id)
    <2>1. \A w \in Values \ {o.id} :
            TakeRegister(a, o.id).valueToRegister[w] = a.valueToRegister[w]
      BY <1>3 DEF TakeRegister, Sound, Allocations
    <2>2. o = Ref(o.id)
      BY <1>3 DEF Operands, Ref
    <2> QED BY <1>3, <2>1, <2>2 DEF Register
  <1> QED BY <1>1, <1>2, <1>3, OperandTypes DEF Place

LEMMA ReleaseRegister ==
  ASSUME NEW a, Sound(a), NEW o \in Operands(Values), NEW v \in Values
  PROVE  IF o = Ref(v) /\ lastUses[v] = currentInstIndex
         THEN Register(Release(a, o), v) = NoReg
         ELSE Register(Release(a, o), v) = Register(a, v)
  <1> DEFINE b == Release(a, o)
  <1>1. CASE b = a
    <2>1. o = Ref(v) => ~o.imm /\ o.id = v
      BY RefType
    <2> QED BY <1>1, <2>1 DEF Release, Register, Sound, Allocations
  <1>2. CASE b # a
    <2>1. /\ ~o.imm /\ o.id \in Values
          /\ lastUses[o.id] = currentInstIndex
      BY <1>2, OperandTypes DEF Release
    <2>2. o = Ref(o.id) /\ (o = Ref(v) => o.id = v)
      BY <2>1, RefType DEF Operands, Ref
    <2>3. /\ b.valueToRegister[o.id] = NoReg
          /\ \A w \in Values \ {o.id} : b.valueToRegister[w] = a.valueToRegister[w]
      BY <1>2, <2>1 DEF Release, Sound, Allocations
    <2> QED BY <2>1, <2>2, <2>3 DEF Register
  <1> QED BY <1>1, <1>2

-----------------------------------------------------------------------------
(* What a turn of the loop of lowerBasicBlock does to the registers of the *)
(* allocation it leaves in b: values that get one are mentioned or defined *)
(* by the instruction, and values lose one exactly at their last use.      *)
Turn(b) ==
  \A v \in Values :
    /\ Register(b, v) # NoReg /\ Register(ra, v) = NoReg
         => Mentioned(v) \/ v = inst.id
    /\ Mentioned(v) /\ lastUses[v] = currentInstIndex => Register(b, v) = NoReg
    /\ Register(ra, v) # NoReg /\ Register(b, v) = NoReg
         => Mentioned(v) /\ lastUses[v] = currentInstIndex

(* The operands of an instruction are those that its case in               *)
(* lowerInstruction places, and freeDeadRegisters goes through.            *)
LEMMA MentionedOperands ==
  ASSUME NEW i \in Instructions(Values, Nat \ {0}), NEW v \in Values
  PROVE  /\ i.op \in {"alloca", "br"} \/ i.args = << >>
              => Ref(v) \notin ToSet(i.args)
         /\ i.op \in {"load", "condbr"} \/ (i.op = "ret" /\ i.args # << >>)
              => (Ref(v) \in ToSet(i.args) <=> i.args[1] = Ref(v))
         /\ i.op \in {"store", "add", "sub"}
              => (Ref(v) \in ToSet(i.args) <=> i.args[1] = Ref(v) \/ i.args[2] = Ref(v))
  <1>1. i.op \in {"alloca", "br"} \/ i.args = << >> => DOMAIN i.args = {}
    BY DEF Instructions
  <1>2. i.op \in {"load", "condbr"} \/ (i.op = "ret" /\ i.args # << >>)
          => DOMAIN i.args = {1}
    BY DEF Instructions
  <1>3. i.op \in {"store", "add", "sub"} => DOMAIN i.args = {1, 2}
    BY DEF Instructions
  <1> QED BY <1>1, <1>2, <1>3 DEF ToSet

LEMMA TurnOfInstruction ==
  ASSUME IInv, LowerInstruction
  PROVE  Turn(ra')
  <1> SUFFICES ASSUME NEW v \in Values
               PROVE  /\ Register(ra', v) # NoReg /\ Register(ra, v) = NoReg
                           => Mentioned(v) \/ v = inst.id
                      /\ Mentioned(v) /\ lastUses[v] = currentInstIndex
                           => Register(ra', v) = NoReg
                      /\ Register(ra, v) # NoReg /\ Register(ra', v) = NoReg
                           => Mentioned(v) /\ lastUses[v] = currentInstIndex
    BY DEF Turn
  <1>1. phase = "inst" /\ currentInstIndex < Len(insts)
    BY DEF LowerInstruction, LowerAlloca, LowerStore, LowerLoad,
           LowerArithmetic, LowerRet, LowerBr, LowerCondBr, Lowering
  <1>2. inst \in Instructions(Values, Nat \ {0}) /\ Sound(ra)
    BY <1>1, InstType DEF IInv
  <1>3. CASE \/ LowerAlloca
             \/ LowerBr
             \/ (LowerRet /\ inst.args = << >>)
    <2>1. ra' = ra
      BY <1>3 DEF LowerAlloca, LowerBr, LowerRet, Lowered
    <2>2. ~Mentioned(v)
      BY <1>2, <1>3, MentionedOperands
         DEF LowerAlloca, LowerBr, Lowering, Mentioned
    <2> QED BY <2>1, <2>2
  <1>4. CASE LowerCondBr \/ (LowerRet /\ inst.args # << >>)
    <2> DEFINE o == inst.args[1]
               a1 == Place(ra, o)
    <2>1. ra' = Release(a1, o) /\ o \in Operands(Values)
      BY <1>2, <1>4, InstructionTypes
         DEF LowerCondBr, LowerRet, Lowering, Lowered
    <2>2. Mentioned(v) <=> o = Ref(v)
      BY <1>2, <1>4, MentionedOperands
         DEF LowerCondBr, LowerRet, Lowering, Mentioned
    <2>3. Sound(a1)
      BY <1>2, <2>1, PlaceSound
    <2> HIDE DEF a1
    <2>4. /\ Register(ra, v) # NoReg => Register(a1, v) = Register(ra, v)
          /\ Register(a1, v) # NoReg => Register(ra, v) # NoReg \/ o = Ref(v)
      BY <1>2, <2>1, PlaceRegister DEF a1
    <2> QED BY <2>1, <2>2, <2>3, <2>4, ReleaseRegister
  <1>5. CASE LowerLoad
    <2> DEFINE o == inst.args[1]
               dest == Ref(inst.id)
               a1 == Place(ra, o)
               a2 == Place(a1, dest)
    <2>1. /\ ra' = Release(a2, o)
          /\ o \in Operands(Values)
          /\ inst.id \in Values
      BY <1>2, <1>5, InstructionTypes DEF LowerLoad, Lowering, Lowered
    <2>2. /\ Mentioned(v) <=> o = Ref(v)
          /\ dest \in Operands(Values)
          /\ dest = Ref(v) => v = inst.id
      <3>1. Mentioned(v) <=> o = Ref(v)
        BY <1>2, <1>5, MentionedOperands DEF LowerLoad, Lowering, Mentioned
      <3>2. dest \in Operands(Values) /\ (dest = Ref(v) => v = inst.id)
        BY <2>1, RefType DEF Ref
      <3> QED BY <3>1, <3>2
    <2>3. Sound(a1) /\ Sound(a2)
      BY <1>2, <2>1, <2>2, PlaceSound
    <2> HIDE DEF a1, a2, dest
    <2>4. /\ Register(ra, v) # NoReg => Register(a1, v) = Register(ra, v)
          /\ Register(a1, v) # NoReg => Register(ra, v) # NoReg \/ o = Ref(v)
      BY <1>2, <2>1, PlaceRegister DEF a1
    <2>5. /\ Register(a1, v) # NoReg => Register(a2, v) = Register(a1, v)
          /\ Register(a2, v) # NoReg => Register(a1, v) # NoReg \/ dest = Ref(v)
      BY <2>2, <2>3, PlaceRegister DEF a2
    <2> QED BY <2>1, <2>2, <2>3, <2>4, <2>5, ReleaseRegister
  <1>6. CASE LowerStore
    <2> DEFINE o == inst.args[1]
               p == inst.args[2]
               a1 == Place(ra, o)
               a2 == Place(a1, p)
               a3 == Release(a2, o)
    <2>1. /\ ra' = Release(a3, p)
          /\ o \in Operands(Values) /\ p \in Operands(Values)
      BY <1>2, <1>6, InstructionTypes DEF LowerStore, Lowering, Lowered
    <2>2. Mentioned(v) <=> o = Ref(v) \/ p = Ref(v)
      BY <1>2, <1>6, MentionedOperands DEF LowerStore, Lowering, Mentioned
    <2>3. Sound(a1) /\ Sound(a2) /\ Sound(a3)
      BY <1>2, <2>1, PlaceSound, ReleaseSound
    <2> HIDE DEF a1, a2, a3
    <2>4. /\ Register(ra, v) # NoReg => Register(a1, v) = Register(ra, v)
          /\ Register(a1, v) # NoReg => Register(ra, v) # NoReg \/ o = Ref(v)
      BY <1>2, <2>1, PlaceRegister DEF a1
    <2>5. /\ Register(a1, v) # NoReg => Register(a2, v) = Register(a1, v)
          /\ Register(a2, v) # NoReg => Register(a1, v) # NoReg \/ p = Ref(v)
      BY <2>1, <2>3, PlaceRegister DEF a2
    <2>6. IF o = Ref(v) /\ lastUses[v] = currentInstIndex
          THEN Register(a3, v) = NoReg ELSE Register(a3, v) = Register(a2, v)
      BY <2>1, <2>3, ReleaseRegister DEF a3
    <2> QED BY <2>1, <2>2, <2>3, <2>4, <2>5, <2>6, ReleaseRegister
  <1>7. CASE LowerArithmetic
    <2> DEFINE o == inst.args[1]
               p == inst.args[2]
               dest == Ref(inst.id)
               a1 == Place(ra, o)
               a2 == Place(a1, p)
               a3 == Place(a2, dest)
               a4 == Release(a3, o)
    <2>1. /\ ra' = Release(a4, p)
          /\ o \in Operands(Values) /\ p \in Operands(Values)
          /\ inst.id \in Values
      BY <1>2, <1>7, InstructionTypes DEF LowerArithmetic, Lowering, Lowered
    <2>2. /\ Mentioned(v) <=> o = Ref(v) \/ p = Ref(v)
          /\ dest \in Operands(Values)
          /\ dest = Ref(v) => v = inst.id
      BY <1>2, <1>7, <2>1, MentionedOperands, RefType
         DEF LowerArithmetic, Lowering, Mentioned
    <2>3. Sound(a1) /\ Sound(a2) /\ Sound(a3) /\ Sound(a4)
      BY <1>2, <2>1, <2>2, PlaceSound, ReleaseSound
    <2> HIDE DEF a1, a2, a3, a4, dest
    <2>4. /\ Register(ra, v) # NoReg => Register(a1, v) = Register(ra, v)
          /\ Register(a1, v) # NoReg => Register(ra, v) # NoReg \/ o = Ref(v)
      BY <1>2, <2>1, PlaceRegister DEF a1
    <2>5. /\ Register(a1, v) # NoReg => Register(a2, v) = Register(a1, v)
          /\ Register(a2, v) # NoReg => Register(a1, v) # NoReg \/ p = Ref(v)
      BY <2>1, <2>3, PlaceRegister DEF a2
    <2>6. /\ Register(a2, v) # NoReg => Register(a3, v) = Register(a2, v)
          /\ Register(a3, v) # NoReg => Register(a2, v) # NoReg \/ dest = Ref(v)
      BY <2>2, <2>3, PlaceRegister DEF a3
    <2>7. IF o = Ref(v) /\ lastUses[v] = currentInstIndex
          THEN Register(a4, v) = NoReg ELSE Register(a4, v) = Register(a3, v)
      BY <2>1, <2>3, ReleaseRegister DEF a4
    <2> QED BY <2>1, <2>2, <2>3, <2>4, <2>5, <2>6, <2>7, ReleaseRegister
  <1>8. \/ LowerAlloca \/ LowerStore \/ LowerLoad \/ LowerArithmetic
        \/ (LowerRet /\ inst.args = << >>) \/ (LowerRet /\ inst.args # << >>)
        \/ LowerBr \/ LowerCondBr
    BY Zenon DEF LowerInstruction
  <1> QED BY Zenon, <1>3, <1>4, <1>5, <1>6, <1>7, <1>8

-----------------------------------------------------------------------------
(* Uses in the block being lowered.                                        *)

LEMMA UsedFromUses ==
  ASSUME NEW v, NEW i \in Nat
  PROVE  UsedFrom(v, i) <=> \E j \in UsesIn(insts, v) : j >= i
  <1>1. UsedFrom(v, i) => \E j \in UsesIn(insts, v) : j >= i
    BY DEF UsedFrom, UsesIn
  <1>2. ASSUME NEW j \in UsesIn(insts, v), j >= i
        PROVE  UsedFrom(v, i)
    BY <1>2 DEF UsedFrom, UsesIn
  <1> QED BY <1>1, <1>2

LEMMA MentionIsUse ==
  ASSUME IInv, phase = "inst", currentInstIndex < Len(insts), NEW v
  PROVE  Mentioned(v) <=> currentInstIndex \in UsesIn(insts, v)
  <1>1. currentInstIndex \in 0..(Len(insts) - 1)
    BY InstType
  <1> QED BY <1>1 DEF UsesIn, Mentioned, inst

LEMMA DefinedBeforeUse ==
  ASSUME IInv, phase = "inst", currentInstIndex < Len(insts),
         inst.id \in Values
  PROVE  \A j \in UsesIn(insts, inst.id) : j > currentInstIndex
  <1> SUFFICES ASSUME NEW j \in UsesIn(insts, inst.id)
               PROVE  j > currentInstIndex
    OBVIOUS
  <1> DEFINE d == currentInstIndex + 1
             u == j + 1
  <1>1. /\ fn \in 1..Len(module) /\ bb \in 1..Len(function.blocks)
        /\ insts \in Seq(Instructions(Values, Nat \ {0}))
        /\ currentInstIndex \in Nat
    BY InstType
  <1>2. d \in 1..Len(insts) /\ u \in 1..Len(insts) /\ j \in Nat
    BY <1>1 DEF UsesIn
  <1>3. UsesFollowDefinition(function)
    BY <1>1, ModulesAssumption DEF IInv, function
  <1>4. \E k \in 1..Len(insts[u].args) : insts[u].args[k] = Ref(inst.id)
    <2>1. insts[u] \in Instructions(Values, Nat \ {0})
      BY <1>1, <1>2
    <2>2. DOMAIN insts[u].args = 1..Len(insts[u].args)
      <3>1. insts[u].args \in {<< >>} \cup [1..1 -> Operands(Values)]
                                \cup [1..2 -> Operands(Values)]
        BY <2>1 DEF Instructions
      <3> QED BY <3>1
    <2>3. Ref(inst.id) \in ToSet(insts[u].args)
      BY DEF UsesIn
    <2> QED BY <2>2, <2>3 DEF ToSet
  <1>5. inst.id # NoId
    BY ValuesAssumption
  <1>6. d < u
    BY <1>1, <1>2, <1>3, <1>4, <1>5
       DEF UsesFollowDefinition, inst, insts, function
  <1> QED BY <1>1, <1>2, <1>6

-----------------------------------------------------------------------------
(* The effect of a turn on the invariant, and on what it releases.         *)

LEMMA LowerInstructionFrame ==
  ASSUME LowerInstruction
  PROVE  /\ phase = "inst" /\ phase' = "inst" /\ currentInstIndex < Len(insts)
         /\ currentInstIndex' = currentInstIndex + 1
         /\ insts' = insts /\ lastUses' = lastUses
  BY DEF LowerInstruction, LowerAlloca, LowerStore, LowerLoad, LowerArithmetic,
         LowerRet, LowerBr, LowerCondBr, Lowering, Lowered, insts, function

LEMMA LowerInstructionHeld ==
  ASSUME HInv, LowerInstruction
  PROVE  HInv'
  <1> DEFINE i == currentInstIndex
  <1>1. IInv' /\ IInv
    BY LowerInstructionInv DEF HInv
  <1>2. LastUsesKnown'
    BY LowerInstructionFrame DEF HInv, LastUsesKnown
  <1>3. i \in Nat /\ i' = i + 1
    BY LowerInstructionFrame, <1>1 DEF IInv, TypeOK
  <1>4. ASSUME NEW v \in Values,
               Register(ra', v) # NoReg, UsedFrom(v, 0)
        PROVE  UsedFrom(v, i + 1)
    <2> DEFINE U == UsesIn(insts, v)
               last == lastUses[v]
    <2>1. U # {} /\ last \in U /\ (\A j \in U : j <= last) /\ last \in Nat
      <3>1. U # {}
        BY <1>4, UsedFromUses
      <3>2. U \subseteq Nat
        BY DEF UsesIn
      <3> QED BY <3>1, <3>2, LowerInstructionFrame DEF HInv, LastUsesKnown
    <2>2. last # i
      <3>1. last = i => Mentioned(v)
        BY <1>1, <2>1, LowerInstructionFrame, MentionIsUse
      <3> QED BY <3>1, <1>1, <1>4, TurnOfInstruction DEF Turn
    <2>3. last >= i
      <3>1. CASE Register(ra, v) # NoReg
        <4>1. UsedFrom(v, i)
          BY <1>4, <3>1, LowerInstructionFrame DEF HInv, HeldForUse, Register
        <4>2. PICK j \in U : j >= i
          BY <4>1, <1>3, UsedFromUses
        <4>3. j \in Nat
          BY <4>2 DEF UsesIn
        <4> HIDE DEF U, last
        <4> QED BY <4>2, <4>3, <2>1, <1>3
      <3>2. CASE Mentioned(v)
        <4>1. i \in U
          BY <3>2, <1>1, LowerInstructionFrame, MentionIsUse
        <4> QED BY <4>1, <2>1
      <3>3. CASE v = inst.id
        <4>1. \A j \in U : j > i
          BY <3>3, <1>1, LowerInstructionFrame, DefinedBeforeUse
        <4> QED BY <4>1, <2>1, <1>3
      <3> QED BY <3>1, <3>2, <3>3, <1>1, <1>4, TurnOfInstruction DEF Turn
    <2>4. last >= i + 1
      BY <2>1, <2>2, <2>3, <1>3
    <2> QED BY <2>1, <2>4, <1>3, UsedFromUses
  <1>5. HeldForUse'
    <2> SUFFICES ASSUME NEW v \in Values,
                        ra'.valueToRegister[v] # NoReg, UsedFrom(v, 0)'
                 PROVE  UsedFrom(v, currentInstIndex)'
      BY DEF HeldForUse
    <2>1. UsedFrom(v, 0)
      BY LowerInstructionFrame DEF UsedFrom
    <2>2. UsedFrom(v, i + 1)
      BY <2>1, <1>4 DEF Register
    <2> QED BY <2>2, <1>3, LowerInstructionFrame DEF UsedFrom
  <1> QED BY <1>1, <1>2, <1>5 DEF HInv

LEMMA BlockEntryHeld ==
  ASSUME HInv, lowerBasicBlock
  PROVE  HInv'
  <1>1. IInv' /\ IInv
    BY NextInv DEF HInv, Next
  <1>2. /\ phase' = "inst" /\ currentInstIndex' = 0 /\ insts' = insts
        /\ lastUses' = computeLiveness(lastUses, insts)
    BY DEF lowerBasicBlock, insts, function
  <1>3. Len(insts) \in Nat
    BY <1>1, <1>2, InstType
  <1>4. LastUsesKnown'
    BY <1>2, <1>3, LastUse DEF LastUsesKnown
  <1>5. HeldForUse'
    BY <1>2 DEF HeldForUse
  <1> QED BY <1>1, <1>4, <1>5 DEF HInv

LEMMA NextHeld == HInv /\ [Next]_vars => HInv'
  <1> SUFFICES ASSUME HInv, [Next]_vars PROVE HInv'
    OBVIOUS
  <1>1. IInv'
    BY NextInv DEF HInv
  <1>2. CASE lowerBasicBlock
    BY <1>2, BlockEntryHeld
  <1>3. CASE LowerInstruction
    BY <1>3, LowerInstructionHeld
  <1>4. CASE lowerFunction \/ Terminate \/ EndBasicBlock \/ EndFunction \/ EndModule
    <2>1. phase' # "inst"
      BY <1>4 DEF lowerFunction, Terminate, EndBasicBlock, EndFunction, EndModule
    <2> QED BY <1>1, <2>1 DEF HInv, LastUsesKnown, HeldForUse
  <1>5. CASE UNCHANGED vars
    BY <1>1, <1>5 DEF HInv, LastUsesKnown, HeldForUse, UsedFrom, vars,
                      insts, function
  <1> QED BY <1>2, <1>3, <1>4, <1>5 DEF Next

LEMMA InitHeld == Init => HInv
  BY InitInv DEF Init, Reset, HInv, LastUsesKnown, HeldForUse

LEMMA NothingReleasedEarly ==
  ASSUME HInv, Next, phase = "inst", NEW v \in Values,
         ra.valueToRegister[v] # NoReg, ra'.valueToRegister[v] = NoReg
  PROVE  ~UsedFrom(v, currentInstIndex + 1)
  <1>1. LowerInstruction
    BY DEF Next, lowerFunction, lowerBasicBlock, Terminate, EndBasicBlock,
           EndFunction, EndModule
  <1>2. IInv /\ currentInstIndex \in Nat
    BY DEF HInv, IInv, TypeOK
  <1>3. Mentioned(v) /\ lastUses[v] = currentInstIndex
    BY <1>1, <1>2, TurnOfInstruction DEF Turn, Register
  <1>4. currentInstIndex \in UsesIn(insts, v)
    BY <1>1, <1>2, <1>3, MentionIsUse, LowerInstructionFrame
  <1>5. \A j \in UsesIn(insts, v) : j <= currentInstIndex
    BY <1>3, <1>4 DEF HInv, LastUsesKnown
  <1>6. \A j \in UsesIn(insts, v) : j \in Nat
    BY DEF UsesIn
  <1> QED BY <1>2, <1>5, <1>6, UsedFromUses

(* freeDeadRegisters misses no last use: as long as a block uses a value   *)
(* at all, the value holds a register only until its last use.             *)
THEOREM RegistersHeldForUse == Spec => []HeldForUse
  <1>1. HInv => HeldForUse
    BY DEF HInv
  <1> QED BY <1>1, InitHeld, NextHeld, PTL DEF Spec

(* freeDeadRegisters takes no register from a value that an instruction    *)
(* further down the block still uses.                                      *)
THEOREM NoRegisterReleasedEarly == Spec => NoEarlyRelease
  <1>1. HInv /\ [Next]_vars =>
          [phase = "inst" =>
             \A v \in Values :
               ra.valueToRegister[v] # NoReg /\ ra'.valueToRegister[v] = NoReg
                 => ~UsedFrom(v, currentInstIndex + 1)]_vars
    BY NothingReleasedEarly
  <1> QED BY <1>1, InitHeld, NextHeld, PTL DEF Spec, NoEarlyRelease

-----------------------------------------------------------------------------
(* What is emitted exists on x86.                                          *)

(* Addresses and conditions are values, not numbers.                       *)
OperandsHeld(i) ==
  /\ i.op = "store" => ~i.args[2].imm
  /\ i.op = "condbr" => ~i.args[1].imm
NoImmediateTargets ==
  \A m \in Modules : \A f \in 1..Len(m) : \A b \in 1..Len(m[f].blocks) :
    \A k \in 1..Len(m[f].blocks[b].insts) : OperandsHeld(m[f].blocks[b].insts[k])

AllEncodable(code) == \A k \in 1..Len(code) : Encodable(code[k])

LEMMA OneOperand ==
  ASSUME NEW k, NEW x, k \notin {"MOV", "ADD", "SUB", "CMP"}
  PROVE  Encodable(MachineInst(k, <<x>>))
  <1> DEFINE i == MachineInst(k, <<x>>)
             S == {j \in 1..Len(i.ops) : i.ops[j].kind = "mem"}
  <1>1. i.kind = k /\ i.ops = <<x>> /\ Len(i.ops) = 1
    BY DEF MachineInst
  <1>2. S = {} \/ S = {1}
    BY <1>1
  <1>3. Cardinality(S) <= 1
    <2> HIDE DEF S
    <2>1. Cardinality({}) = 0 /\ Cardinality({1}) = 1 /\ Cardinality({2}) = 1
      BY FS_EmptySet, FS_Singleton
    <2>2. Cardinality(S) \in {0, 1}
      BY ONLY <1>2, <2>1
    <2> QED BY <2>2
  <1> QED BY <1>1, <1>3 DEF Encodable

LEMMA TwoOperands ==
  ASSUME NEW k, NEW x, NEW y, x.kind # "mem" \/ y.kind # "mem", x.kind # "imm"
  PROVE  Encodable(MachineInst(k, <<x, y>>))
  <1> DEFINE i == MachineInst(k, <<x, y>>)
             S == {j \in 1..Len(i.ops) : i.ops[j].kind = "mem"}
  <1>1. /\ i.kind = k /\ i.ops = <<x, y>> /\ Len(i.ops) = 2
        /\ i.ops[1] = x /\ i.ops[2] = y /\ 1..2 = {1, 2}
    BY DEF MachineInst
  <1>2. S = {} \/ S = {1} \/ S = {2}
    BY <1>1
  <1>3. Cardinality(S) <= 1
    <2> HIDE DEF S
    <2>1. Cardinality({}) = 0 /\ Cardinality({1}) = 1 /\ Cardinality({2}) = 1
      BY FS_EmptySet, FS_Singleton
    <2>2. Cardinality(S) \in {0, 1}
      BY ONLY <1>2, <2>1
    <2> QED BY <2>2
  <1> QED BY <1>1, <1>3 DEF Encodable

LEMMA NoOperand ==
  ASSUME NEW k, k \notin {"MOV", "ADD", "SUB", "CMP"}
  PROVE  Encodable(MachineInst(k, << >>))
  <1> DEFINE i == MachineInst(k, << >>)
             S == {j \in 1..Len(i.ops) : i.ops[j].kind = "mem"}
  <1>1. i.kind = k /\ i.ops = << >> /\ Len(i.ops) = 0
    BY DEF MachineInst
  <1>2. S = {}
    BY <1>1
  <1>3. Cardinality(S) <= 1
    <2> HIDE DEF S
    <2>1. Cardinality({}) = 0
      BY FS_EmptySet
    <2> QED BY <1>2, <2>1
  <1> QED BY <1>1, <1>3 DEF Encodable

LEMMA Joins ==
  ASSUME NEW s \in Seq(MachineInsts), NEW t \in Seq(MachineInsts),
         AllEncodable(s), AllEncodable(t)
  PROVE  AllEncodable(s \o t)
  <1>1. Len(s) \in Nat /\ Len(t) \in Nat /\ Len(s \o t) = Len(s) + Len(t)
    BY ConcatProperties, LenProperties
  <1> SUFFICES ASSUME NEW k \in 1..Len(s \o t) PROVE Encodable((s \o t)[k])
    BY DEF AllEncodable
  <1>2. CASE k <= Len(s)
    <2>1. (s \o t)[k] = s[k] /\ k \in 1..Len(s)
      BY <1>1, <1>2, ConcatProperties
    <2> QED BY <2>1 DEF AllEncodable
  <1>3. CASE ~(k <= Len(s))
    <2>1. (s \o t)[k] = t[k - Len(s)] /\ k - Len(s) \in 1..Len(t)
      BY <1>1, <1>3, ConcatProperties
    <2> QED BY <2>1 DEF AllEncodable
  <1> QED BY <1>2, <1>3

LEMMA MovEncodable ==
  ASSUME NEW x, NEW y, x.kind # "mem" \/ y.kind # "mem", x.kind # "imm"
  PROVE  Encodable(Mov(x, y))
  BY TwoOperands DEF Mov

LEMMA Kinds ==
  /\ \A r : Reg(r).kind = "reg"
  /\ \A n : Imm(n).kind = "imm"
  /\ \A a : \A o \in Operands(Values) : ~o.imm => OperandIn(a, o).kind \in {"reg", "mem"}
  BY DEF Reg, Imm, Mem, OperandIn

LEMMA EpilogueEncodable == AllEncodable(emitEpilogue)
  <1>1. Encodable(Mov(Reg("rsp"), Reg("rbp")))
    BY MovEncodable, Kinds
  <1>2. Encodable(MachineInst("POP", <<Reg("rbp")>>)) /\ Encodable(MachineInst("RET", << >>))
    BY OneOperand, NoOperand
  <1> QED BY <1>1, <1>2 DEF emitEpilogue, AllEncodable

LEMMA PrologueEncodable ==
  ASSUME NEW name
  PROVE  AllEncodable(emitPrologue(name))
  <1>1. Encodable(Mov(Reg("rbp"), Reg("rsp")))
    BY MovEncodable, Kinds
  <1>2. Encodable(MachineInst("PUSH", <<Reg("rbp")>>)) /\ Encodable(Label(name))
    BY OneOperand DEF Label
  <1>3. Encodable(MachineInst("SUB", <<Reg("rsp"), Imm(FrameBytes)>>))
    BY TwoOperands, Kinds
  <1> QED BY <1>1, <1>2, <1>3 DEF emitPrologue, AllEncodable

LEMMA StoreEncodable ==
  ASSUME NEW x, NEW y, x.kind # "imm"
  PROVE  AllEncodable(StoreCode(x, y))
  <1>1. y.kind = "mem" => Encodable(Mov(Reg("eax"), y)) /\ Encodable(Mov(x, Reg("eax")))
    BY MovEncodable, Kinds
  <1>2. y.kind # "mem" => Encodable(Mov(x, y))
    BY MovEncodable
  <1> QED BY <1>1, <1>2 DEF StoreCode, AllEncodable

LEMMA ArithmeticEncodable ==
  ASSUME NEW k \in {"ADD", "SUB"}, NEW x \in MachineOperands,
         NEW y \in MachineOperands, NEW z \in MachineOperands, z.kind # "imm"
  PROVE  AllEncodable(ArithmeticCode(k, x, y, z))
  <1> DEFINE first == << Mov(Reg("eax"), x) >>
             viaEbx == << Mov(Reg("ebx"), y),
                          MachineInst(k, <<Reg("eax"), Reg("ebx")>>) >>
             direct == << MachineInst(k, <<Reg("eax"), y>>) >>
             last == << Mov(z, Reg("eax")) >>
             middle == IF y.kind = "mem" THEN viaEbx ELSE direct
  <1>1. /\ Encodable(Mov(Reg("eax"), x)) /\ Encodable(Mov(Reg("ebx"), y))
        /\ Encodable(Mov(z, Reg("eax")))
    BY MovEncodable, Kinds
  <1>2. /\ Encodable(MachineInst(k, <<Reg("eax"), Reg("ebx")>>))
        /\ Encodable(MachineInst(k, <<Reg("eax"), y>>))
    BY TwoOperands, Kinds
  <1>3. /\ AllEncodable(first) /\ AllEncodable(viaEbx)
        /\ AllEncodable(direct) /\ AllEncodable(last)
    BY <1>1, <1>2 DEF AllEncodable
  <1>4. /\ first \in Seq(MachineInsts) /\ viaEbx \in Seq(MachineInsts)
        /\ direct \in Seq(MachineInsts) /\ last \in Seq(MachineInsts)
    <2>1. /\ Mov(Reg("eax"), x) \in MachineInsts /\ Mov(Reg("ebx"), y) \in MachineInsts
          /\ Mov(z, Reg("eax")) \in MachineInsts
      BY MovType, RegTypes
    <2>2. /\ MachineInst(k, <<Reg("eax"), Reg("ebx")>>) \in MachineInsts
          /\ MachineInst(k, <<Reg("eax"), y>>) \in MachineInsts
      BY MachineInstTypes, RegTypes DEF X86InstKind
    <2> QED BY <2>1, <2>2
  <1>5. ArithmeticCode(k, x, y, z) = (first \o middle) \o last
    BY DEF ArithmeticCode
  <1>6. middle \in Seq(MachineInsts) /\ AllEncodable(middle)
    BY <1>3, <1>4
  <1> HIDE DEF first, middle, last
  <1>7. first \o middle \in Seq(MachineInsts) /\ AllEncodable(first \o middle)
    BY <1>3, <1>4, <1>6, Joins, ConcatProperties
  <1> QED BY <1>3, <1>4, <1>5, <1>7, Joins

(* The instruction being lowered addresses and branches on values.         *)
LEMMA InstHeld ==
  ASSUME NoImmediateTargets, IInv, phase = "inst", currentInstIndex < Len(insts)
  PROVE  OperandsHeld(inst)
  <1>1. /\ fn \in 1..Len(module) /\ bb \in 1..Len(function.blocks)
        /\ Len(insts) \in Nat /\ currentInstIndex \in 0..Len(insts)
    BY InstType
  <1>2. currentInstIndex + 1 \in 1..Len(insts)
    BY <1>1
  <1> QED BY <1>1, <1>2 DEF NoImmediateTargets, IInv, function, insts, inst

LEMMA LowerInstructionEncodes ==
  ASSUME NoImmediateTargets, IInv, AllEncodable(m_instructions), LowerInstruction
  PROVE  AllEncodable(m_instructions')
  <1>1. phase = "inst" /\ currentInstIndex < Len(insts)
    BY DEF LowerInstruction, LowerAlloca, LowerStore, LowerLoad,
           LowerArithmetic, LowerRet, LowerBr, LowerCondBr, Lowering
  <1>2. inst \in Instructions(Values, Nat \ {0}) /\ Sound(ra) /\ OperandsHeld(inst)
    BY <1>1, InstType, InstHeld DEF IInv
  <1>3. ASSUME NEW a, NEW code \in Seq(MachineInsts), AllEncodable(code), Lowered(a, code)
        PROVE  AllEncodable(m_instructions')
    <2>1. m_instructions \in Seq(MachineInsts) /\ m_instructions' = m_instructions \o code
      BY <1>3 DEF IInv, TypeOK, Lowered
    <2> QED BY <1>3, <2>1, Joins
  <1>4. CASE LowerAlloca
    <2>1. << >> \in Seq(MachineInsts) /\ AllEncodable(<< >>)
      BY DEF AllEncodable
    <2> QED BY <1>3, <1>4, <2>1 DEF LowerAlloca
  <1>5. CASE LowerStore
    <2> DEFINE val == inst.args[1]
               ptr == inst.args[2]
               a1 == Place(ra, val)
               a2 == Place(a1, ptr)
               code == StoreCode(OperandIn(a2, ptr), OperandIn(a1, val))
    <2>1. val \in Operands(Values) /\ ptr \in Operands(Values) /\ ~ptr.imm
      BY <1>2, <1>5, InstructionTypes DEF LowerStore, Lowering, OperandsHeld
    <2>2. Sound(a1)
      BY <2>1, <1>2, PlaceSound
    <2>3. Sound(a2)
      BY <2>1, <2>2, PlaceSound
    <2>4. code \in Seq(MachineInsts)
      BY <2>1, <2>2, <2>3, SoundOperand, StoreCodeType
    <2>5. AllEncodable(code)
      BY <2>1, Kinds, StoreEncodable
    <2>6. Lowered(Release(Release(a2, val), ptr), code)
      BY <1>5 DEF LowerStore
    <2> HIDE DEF code
    <2> QED BY <1>3, <2>4, <2>5, <2>6
  <1>6. CASE LowerLoad
    <2> DEFINE ptr == inst.args[1]
               dest == Ref(inst.id)
               a1 == Place(ra, ptr)
               a2 == Place(a1, dest)
               code == << Mov(Reg("eax"), OperandIn(a1, ptr)),
                          Mov(OperandIn(a2, dest), Reg("eax")) >>
    <2>1. ptr \in Operands(Values) /\ dest \in Operands(Values) /\ ~dest.imm
      BY <1>2, <1>6, InstructionTypes, RefType DEF LowerLoad, Lowering
    <2>2. Sound(a1)
      BY <2>1, <1>2, PlaceSound
    <2>3. Sound(a2)
      BY <2>1, <2>2, PlaceSound
    <2>4. code \in Seq(MachineInsts)
      BY <2>1, <2>2, <2>3, SoundOperand, MovType, RegTypes
    <2>5. AllEncodable(code)
      <3>1. Encodable(Mov(Reg("eax"), OperandIn(a1, ptr)))
        BY Kinds, MovEncodable
      <3>2. Encodable(Mov(OperandIn(a2, dest), Reg("eax")))
        BY <2>1, Kinds, MovEncodable
      <3> QED BY <3>1, <3>2 DEF AllEncodable
    <2>6. Lowered(Release(a2, ptr), code)
      BY <1>6 DEF LowerLoad
    <2> HIDE DEF code
    <2> QED BY <1>3, <2>4, <2>5, <2>6
  <1>7. CASE LowerArithmetic
    <2> DEFINE lhs == inst.args[1]
               rhs == inst.args[2]
               dest == Ref(inst.id)
               a1 == Place(ra, lhs)
               a2 == Place(a1, rhs)
               a3 == Place(a2, dest)
               kind == IF inst.op = "add" THEN "ADD" ELSE "SUB"
               code == ArithmeticCode(kind, OperandIn(a1, lhs), OperandIn(a2, rhs),
                                      OperandIn(a3, dest))
    <2>1. /\ lhs \in Operands(Values) /\ rhs \in Operands(Values)
          /\ dest \in Operands(Values) /\ ~dest.imm
      BY <1>2, <1>7, InstructionTypes, RefType DEF LowerArithmetic, Lowering
    <2>2. Sound(a1)
      BY <2>1, <1>2, PlaceSound
    <2>3. Sound(a2)
      BY <2>1, <2>2, PlaceSound
    <2>4. Sound(a3)
      BY <2>1, <2>3, PlaceSound
    <2>5. code \in Seq(MachineInsts)
      BY <2>1, <2>2, <2>3, <2>4, SoundOperand, ArithmeticCodeType
    <2>6. AllEncodable(code)
      <3>1. OperandIn(a3, dest).kind # "imm"
        BY <2>1, Kinds
      <3> QED BY <2>1, <2>2, <2>3, <2>4, <3>1, SoundOperand, ArithmeticEncodable
    <2>7. Lowered(Release(Release(a3, lhs), rhs), code)
      BY <1>7 DEF LowerArithmetic
    <2> HIDE DEF code
    <2> QED BY <1>3, <2>5, <2>6, <2>7
  <1>8. CASE LowerRet
    <2>1. CASE inst.args = << >>
      BY <1>3, <1>8, <2>1, EpilogueType, EpilogueEncodable DEF LowerRet
    <2>2. CASE inst.args # << >>
      <3> DEFINE val == inst.args[1]
                 a1 == Place(ra, val)
                 mov == << Mov(Reg("eax"), OperandIn(a1, val)) >>
      <3>1. val \in Operands(Values)
        BY <1>2, <1>8, <2>2, InstructionTypes DEF LowerRet, Lowering
      <3>2. Sound(a1)
        BY <3>1, <1>2, PlaceSound
      <3>3. mov \in Seq(MachineInsts)
        BY <3>1, <3>2, SoundOperand, MovType, RegTypes
      <3>4. AllEncodable(mov)
        <4>1. Encodable(Mov(Reg("eax"), OperandIn(a1, val)))
          BY Kinds, MovEncodable
        <4> QED BY <4>1 DEF AllEncodable
      <3>5. Lowered(Release(a1, val), mov \o emitEpilogue)
        BY <1>8, <2>2 DEF LowerRet
      <3> HIDE DEF mov
      <3>6. mov \o emitEpilogue \in Seq(MachineInsts) /\ AllEncodable(mov \o emitEpilogue)
        BY <3>3, <3>4, EpilogueType, EpilogueEncodable, Joins, ConcatProperties
      <3> QED BY <1>3, <3>5, <3>6
    <2> QED BY <2>1, <2>2
  <1>9. CASE LowerBr
    <2> DEFINE code == << MachineInst("JMP", <<BlockLabel(inst.targets[1])>>) >>
    <2>1. Len(inst.targets) = 1
      BY <1>2, <1>9, InstructionTypes DEF LowerBr, Lowering
    <2>2. BlockLabel(inst.targets[1]) \in MachineOperands
      <3>1. function.blocks[inst.targets[1]].name \in STRING
        BY <2>1, <1>1, InstType
      <3> QED BY <3>1, RegTypes DEF BlockLabel
    <2>3. code \in Seq(MachineInsts)
      BY <2>2, MachineInstTypes DEF X86InstKind
    <2>4. AllEncodable(code)
      <3>1. Encodable(MachineInst("JMP", <<BlockLabel(inst.targets[1])>>))
        BY OneOperand
      <3> QED BY <3>1 DEF AllEncodable
    <2>5. Lowered(ra, code)
      BY <1>9 DEF LowerBr
    <2> HIDE DEF code
    <2> QED BY <1>3, <2>3, <2>4, <2>5
  <1>10. CASE LowerCondBr
    <2> DEFINE cond == inst.args[1]
               a1 == Place(ra, cond)
               cmp == MachineInst("CMP", <<OperandIn(a1, cond), Imm(0)>>)
               je == MachineInst("JE", <<BlockLabel(inst.targets[2])>>)
               jmp == MachineInst("JMP", <<BlockLabel(inst.targets[1])>>)
               code == << cmp, je, jmp >>
    <2>1. cond \in Operands(Values) /\ ~cond.imm /\ Len(inst.targets) = 2
      BY <1>2, <1>10, InstructionTypes DEF LowerCondBr, Lowering, OperandsHeld
    <2>2. Sound(a1)
      BY <2>1, <1>2, PlaceSound
    <2>3. /\ BlockLabel(inst.targets[1]) \in MachineOperands
          /\ BlockLabel(inst.targets[2]) \in MachineOperands
      <3>1. /\ function.blocks[inst.targets[1]].name \in STRING
            /\ function.blocks[inst.targets[2]].name \in STRING
        BY <2>1, <1>1, InstType
      <3> QED BY <3>1, RegTypes DEF BlockLabel
    <2>4. cmp \in MachineInsts
      BY <2>1, <2>2, SoundOperand, MachineInstTypes, RegTypes DEF X86InstKind
    <2>5. je \in MachineInsts /\ jmp \in MachineInsts
      BY <2>3, MachineInstTypes DEF X86InstKind
    <2>6. Encodable(cmp)
      <3>1. OperandIn(a1, cond).kind # "imm" /\ Imm(0).kind # "mem"
        BY <2>1, Kinds
      <3> QED BY <3>1, TwoOperands
    <2>7. Encodable(je) /\ Encodable(jmp)
      BY OneOperand
    <2>8. Lowered(Release(a1, cond), code)
      BY <1>10 DEF LowerCondBr
    <2> HIDE DEF cmp, je, jmp
    <2>9. code \in Seq(MachineInsts) /\ AllEncodable(code)
      BY <2>4, <2>5, <2>6, <2>7 DEF AllEncodable
    <2> HIDE DEF code
    <2> QED BY <1>3, <2>8, <2>9
  <1> QED BY <1>4, <1>5, <1>6, <1>7, <1>8, <1>9, <1>10 DEF LowerInstruction

LEMMA NextEncodes ==
  ASSUME NoImmediateTargets, IInv, AllEncodable(m_instructions), [Next]_vars
  PROVE  AllEncodable(m_instructions')
  <1>1. m_instructions \in Seq(MachineInsts) /\ fn <= Len(module) => fn \in 1..Len(module)
    BY ModulesAssumption DEF IInv, TypeOK
  <1>2. CASE lowerFunction
    <2> DEFINE name == function.name
    <2>1. m_instructions' = m_instructions \o emitPrologue(name) /\ fn \in 1..Len(module)
      BY <1>1, <1>2 DEF lowerFunction, IInv, TypeOK
    <2>2. name \in STRING
      BY <2>1, ModuleTypes DEF IInv, function
    <2>3. emitPrologue(name) \in Seq(MachineInsts) /\ AllEncodable(emitPrologue(name))
      BY <2>2, PrologueType, PrologueEncodable
    <2>4. m_instructions \in Seq(MachineInsts)
      BY DEF IInv, TypeOK
    <2> HIDE DEF name
    <2> QED BY <2>1, <2>3, <2>4, Joins
  <1>3. CASE lowerBasicBlock
    <2> DEFINE label == Label(function.blocks[bb].name)
    <2>1. m_instructions \in Seq(MachineInsts) /\ m_instructions' = Append(m_instructions, label)
      BY <1>3 DEF lowerBasicBlock, IInv, TypeOK
    <2>2. Encodable(label)
      BY OneOperand DEF Label
    <2> HIDE DEF label
    <2>3. /\ Len(m_instructions') = Len(m_instructions) + 1 /\ Len(m_instructions) \in Nat
          /\ \A k \in 1..Len(m_instructions) : m_instructions'[k] = m_instructions[k]
          /\ m_instructions'[Len(m_instructions) + 1] = label
      BY <2>1
    <2> QED BY <2>2, <2>3 DEF AllEncodable
  <1>4. CASE LowerInstruction
    BY <1>4, LowerInstructionEncodes
  <1>5. CASE \/ EndBasicBlock \/ EndFunction \/ EndModule \/ Terminate \/ UNCHANGED vars
    <2>1. m_instructions' = m_instructions
      BY <1>5 DEF EndBasicBlock, EndFunction, EndModule, Terminate, vars
    <2> QED BY <2>1
  <1> QED BY <1>2, <1>3, <1>4, <1>5 DEF Next

(* Whatever is spilled, every instruction emitted exists on x86, if no     *)
(* number is stored to or branched on: the code is not prepared for those, *)
(* and `while (1)` makes one.                                              *)
THEOREM CodeIsEncodable ==
  ASSUME NoImmediateTargets
  PROVE  Spec => []EncodableCode
  <1>1. Init => AllEncodable(m_instructions)
    BY DEF Init, Reset, AllEncodable
  <1>2. NoImmediateTargets
    OBVIOUS
  <1>3. IInv /\ AllEncodable(m_instructions) /\ [Next]_vars => AllEncodable(m_instructions)'
    BY <1>2, NextEncodes DEF AllEncodable, Encodable
  <1>4. AllEncodable(m_instructions) => EncodableCode
    BY DEF AllEncodable, EncodableCode
  <1> QED BY <1>1, <1>3, <1>4, InductiveInvariant, PTL DEF Spec

-----------------------------------------------------------------------------
(* The frame of main.                                                      *)

MainIndex == CHOOSE f \in 1..Len(module) : module[f].name = "main"

(* Every program has a main.                                               *)
HasMain == \A m \in Modules : \E f \in 1..Len(m) : m[f].name = "main"

(* The block's first n instructions end in a terminator.                   *)
Ended(block, n) == n > 0 /\ block.insts[n].op \in Terminators

(* Control does not run from the end of main into the function below.      *)
MainIsLeft ==
  \A m \in Modules : \A f \in 1..Len(m) :
    m[f].name = "main" =>
      \/ f = Len(m)
      \/ /\ Len(m[f].blocks) > 0
         /\ LET last == m[f].blocks[Len(m[f].blocks)]
            IN Ended(last, Len(last.insts))

-----------------------------------------------------------------------------
(* The code of a function.                                                 *)

(* What the body of a function writes to: never rsp, rbp, or above the     *)
(* slots.                                                                  *)
Destination(o) ==
  \/ o.kind = "reg" /\ o.reg \in Registers \cup {"eax", "ebx"}
  \/ o.kind = "imm"
  \/ o.kind = "mem" /\ o.off \in Int /\ o.off <= -4

Ordinary(x, f) ==
  \/ x.kind \in {"LABEL", "CMP"}
  \/ /\ x.kind \in {"MOV", "ADD", "SUB"}
     /\ x.ops # << >> /\ Destination(x.ops[1])
  \/ /\ x.kind \in {"JE", "JMP"}
     /\ \E b \in 1..Len(f.blocks) : x.ops[1] = Lbl(f.blocks[b].name)

AllOrdinary(s, f) == \A i \in 1..Len(s) : Ordinary(s[i], f)

EpilogueAt(code, i) ==
  /\ code[i] = Mov(Reg("rsp"), Reg("rbp"))
  /\ code[i+1] = MachineInst("POP", <<Reg("rbp")>>)
  /\ code[i+2] = MachineInst("RET", << >>)

PrologueAt(code, i, f) ==
  /\ code[i] = Label(f.name)
  /\ code[i+1] = MachineInst("PUSH", <<Reg("rbp")>>)
  /\ code[i+2] = Mov(Reg("rbp"), Reg("rsp"))
  /\ code[i+3] = MachineInst("SUB", <<Reg("rsp"), Imm(FrameBytes)>>)

(* From lo to hi: the prologue, then ordinary code and whole epilogues.    *)
Segment(code, lo, hi, f) ==
  /\ lo \in Nat \ {0} /\ hi \in Nat /\ lo + 3 <= hi /\ hi <= Len(code)
  /\ PrologueAt(code, lo, f)
  /\ \A i \in (lo + 4)..hi :
       \/ Ordinary(code[i], f)
       \/ \E j \in (lo + 4)..(hi - 2) : j \in (i - 2)..i /\ EpilogueAt(code, j)

(* The labels of the first n blocks are there to jump to.                  *)
LabelsLaid(code, lo, hi, f, n) ==
  \A b \in 1..n : \E i \in (lo + 4)..hi : code[i] = Label(f.blocks[b].name)

(* Control does not go on to the next instruction.                         *)
Leaves(x) == x.kind \in {"JMP", "RET"}

-----------------------------------------------------------------------------
(* What holds while the code is being emitted.                             *)

Spilled(a) == {v \in Values : a.stackOffsets[v] # 0}

SlotOf(o) == IF o.kind = "mem" THEN {o.off} ELSE {}
SlotSet(a) == {a.stackOffsets[v] : v \in Spilled(a)}

(* One slot for each value spilled so far.                                 *)
SlotsCounted(a) ==
  /\ IsFiniteSet(Spilled(a))
  /\ a.currentStackOffset = -(4 * Cardinality(Spilled(a)))

(* The code names every slot of the function being lowered, and no slot of *)
(* any function lies deeper than the number of slots named.                *)
SlotsNamed ==
  /\ phase \in {"block", "inst"} =>
       SlotsCounted(ra) /\ SlotSet(ra) \subseteq Slots(m_instructions)
  /\ IsFiniteSet(Slots(m_instructions))
  /\ \A off \in Slots(m_instructions) :
       off \in Int /\ off >= -(4 * Cardinality(Slots(m_instructions)))

FewSlots == Cardinality(Slots(m_instructions)) <= FrameSlots

(* main is being lowered: its segment ends where the code ends.            *)
LayingMain ==
  \E lo \in 1..Len(m_instructions) :
    LET hi == Len(m_instructions)
    IN /\ Segment(m_instructions, lo, hi, function)
       /\ phase = "inst" =>
            /\ LabelsLaid(m_instructions, lo, hi, function, bb)
            /\ Ended(function.blocks[bb], currentInstIndex)
                 => Leaves(m_instructions[hi])
       /\ phase = "block" =>
            /\ LabelsLaid(m_instructions, lo, hi, function, bb - 1)
            /\ bb > 1 /\ Ended(function.blocks[bb-1], Len(function.blocks[bb-1].insts))
                 => Leaves(m_instructions[hi])

(* main has been lowered, between lo and hi.                               *)
MainLaid(lo, hi) ==
  /\ Segment(m_instructions, lo, hi, Main)
  /\ LabelsLaid(m_instructions, lo, hi, Main, Len(Main.blocks))
  /\ Leaves(m_instructions[hi]) \/ (fn > Len(module) /\ hi = Len(m_instructions))

FrameLaid ==
  /\ phase = "block" => bb <= Len(function.blocks) + 1
  /\ phase = "done" => fn > Len(module)
  /\ fn = MainIndex /\ phase \in {"block", "inst"} => LayingMain
  /\ fn > MainIndex =>
       \E lo, hi \in 1..Len(m_instructions) : MainLaid(lo, hi)

-----------------------------------------------------------------------------
(* What holds while it runs.                                               *)

IsMap(f) == f = [x \in DOMAIN f |-> f[x]]

(* c is made like the machine.                                             *)
Shaped(c) ==
  /\ c = [pc |-> c.pc, regs |-> c.regs, mem |-> c.mem, zf |-> c.zf,
          status |-> c.status]
  /\ c.regs = [r \in AllRegisters |-> c.regs[r]]
  /\ IsMap(c.mem)

Frame(c, sp, bp) == c.regs["rsp"] = sp /\ c.regs["rbp"] = bp

Holds(c, a, x) == a \in DOMAIN c.mem /\ c.mem[a] = x
CallerSaved(c) == Holds(c, -8, CallerRbp)

(* The stack before the instruction at pc, for main between lo and hi.     *)
StackAt(c, lo, hi) ==
  /\ Holds(c, 0, ReturnAddress)
  /\ \/ c.pc \in {lo, lo + 1} /\ Frame(c, 0, CallerRbp)
     \/ c.pc = lo + 2 /\ Frame(c, -8, CallerRbp) /\ CallerSaved(c)
     \/ c.pc = lo + 3 /\ Frame(c, -8, -8) /\ CallerSaved(c)
     \/ /\ c.pc \in (lo + 4)..hi
        /\ CallerSaved(c)
        /\ CASE m_instructions[c.pc].kind = "POP" -> Frame(c, -8, -8)
             [] m_instructions[c.pc].kind = "RET" -> Frame(c, 0, CallerRbp)
             [] OTHER -> Frame(c, -8 - FrameBytes, -8)
     \/ c.pc = hi + 1 /\ hi = Len(m_instructions)

FrameKept ==
  /\ Shaped(cpu)
  /\ cpu.status \in {"unassembled", "rejected", "running", "returned", "astray"}
  /\ cpu.status # "unassembled" => phase = "done"
  /\ cpu.status = "unassembled" =>
       Holds(cpu, 0, ReturnAddress) /\ Frame(cpu, 0, CallerRbp)
  /\ cpu.status = "running" =>
       /\ LabelsUnique(m_instructions) /\ EncodableCode
       /\ \E lo, hi \in 1..Len(m_instructions) :
            MainLaid(lo, hi) /\ StackAt(cpu, lo, hi)
  /\ cpu.status = "returned" => Frame(cpu, 8, CallerRbp)

RunInv == IInv /\ FrameLaid /\ SlotsNamed /\ FrameKept

-----------------------------------------------------------------------------
(* How the code of a function grows.                                       *)

LEMMA Concatenated ==
  ASSUME NEW s \in Seq(MachineInsts), NEW t \in Seq(MachineInsts)
  PROVE  /\ s \o t \in Seq(MachineInsts)
         /\ Len(s) \in Nat /\ Len(t) \in Nat /\ Len(s \o t) = Len(s) + Len(t)
         /\ \A i \in 1..Len(s) : (s \o t)[i] = s[i]
         /\ \A i \in 1..Len(t) : (s \o t)[Len(s) + i] = t[i]
         /\ \A i \in (Len(s) + 1)..Len(s \o t) :
              i - Len(s) \in 1..Len(t) /\ (s \o t)[i] = t[i - Len(s)]
  <1>1. /\ s \o t \in Seq(MachineInsts)
        /\ Len(s) \in Nat /\ Len(t) \in Nat /\ Len(s \o t) = Len(s) + Len(t)
    BY ConcatProperties, LenProperties
  <1>2. \A i \in 1..(Len(s) + Len(t)) :
          (s \o t)[i] = IF i <= Len(s) THEN s[i] ELSE t[i - Len(s)]
    BY ConcatProperties
  <1> HIDE DEF MachineInsts
  <1>3. \A i \in 1..Len(s) : (s \o t)[i] = s[i]
    BY <1>1, <1>2
  <1>4. ASSUME NEW i \in (Len(s) + 1)..Len(s \o t)
        PROVE  i - Len(s) \in 1..Len(t) /\ (s \o t)[i] = t[i - Len(s)]
    BY <1>1, <1>2
  <1>5. ASSUME NEW i \in 1..Len(t)
        PROVE  (s \o t)[Len(s) + i] = t[i]
    <2>1. /\ Len(s) + i \in 1..(Len(s) + Len(t)) /\ ~(Len(s) + i <= Len(s))
          /\ Len(s) + i - Len(s) = i
      BY <1>1
    <2> QED BY <1>2, <2>1
  <1> QED BY <1>1, <1>3, <1>4, <1>5

LEMMA OrdinaryJoins ==
  ASSUME NEW s \in Seq(MachineInsts), NEW t \in Seq(MachineInsts), NEW f,
         AllOrdinary(s, f), AllOrdinary(t, f)
  PROVE  AllOrdinary(s \o t, f)
  <1> SUFFICES ASSUME NEW i \in 1..Len(s \o t)
               PROVE  Ordinary((s \o t)[i], f)
    BY DEF AllOrdinary
  <1>1. i \in 1..Len(s) \/ i \in (Len(s) + 1)..Len(s \o t)
    BY Concatenated
  <1> QED BY <1>1, Concatenated DEF AllOrdinary

LEMMA EpilogueKept ==
  ASSUME NEW s \in Seq(MachineInsts), NEW t \in Seq(MachineInsts),
         NEW j \in 1..(Len(s) - 2), EpilogueAt(s, j)
  PROVE  EpilogueAt(s \o t, j)
  <1>1. j \in 1..Len(s) /\ j + 1 \in 1..Len(s) /\ j + 2 \in 1..Len(s)
    BY Concatenated
  <1>2. /\ (s \o t)[j] = s[j] /\ (s \o t)[j + 1] = s[j + 1]
        /\ (s \o t)[j + 2] = s[j + 2]
    BY <1>1, Concatenated
  <1> QED BY <1>2 DEF EpilogueAt

LEMMA PrologueKept ==
  ASSUME NEW s \in Seq(MachineInsts), NEW t \in Seq(MachineInsts), NEW f,
         NEW j \in 1..(Len(s) - 3), PrologueAt(s, j, f)
  PROVE  PrologueAt(s \o t, j, f)
  <1>1. /\ j \in 1..Len(s) /\ j + 1 \in 1..Len(s) /\ j + 2 \in 1..Len(s)
        /\ j + 3 \in 1..Len(s)
    BY Concatenated
  <1>2. /\ (s \o t)[j] = s[j] /\ (s \o t)[j + 1] = s[j + 1]
        /\ (s \o t)[j + 2] = s[j + 2] /\ (s \o t)[j + 3] = s[j + 3]
    BY <1>1, Concatenated
  <1> QED BY <1>2 DEF PrologueAt

(* What is emitted later leaves a segment as it is.                        *)
LEMMA SegmentKept ==
  ASSUME NEW s \in Seq(MachineInsts), NEW t \in Seq(MachineInsts),
         NEW lo, NEW hi, NEW f, Segment(s, lo, hi, f)
  PROVE  Segment(s \o t, lo, hi, f)
  <1>1. /\ lo \in Nat \ {0} /\ hi \in Nat /\ lo + 3 <= hi /\ hi <= Len(s)
        /\ Len(s) \in Nat /\ hi <= Len(s \o t)
    BY Concatenated DEF Segment
  <1>2. PrologueAt(s \o t, lo, f)
    <2>1. lo \in 1..(Len(s) - 3)
      BY <1>1
    <2> QED BY <2>1, PrologueKept DEF Segment
  <1>3. ASSUME NEW i \in (lo + 4)..hi
        PROVE  \/ Ordinary((s \o t)[i], f)
               \/ \E j \in (lo + 4)..(hi - 2) : j \in (i - 2)..i /\ EpilogueAt(s \o t, j)
    <2>1. i \in 1..Len(s)
      BY <1>1
    <2>2. (s \o t)[i] = s[i]
      BY <2>1, Concatenated
    <2>3. CASE Ordinary(s[i], f)
      BY <2>2, <2>3
    <2>4. ASSUME NEW j \in (lo + 4)..(hi - 2), j \in (i - 2)..i, EpilogueAt(s, j)
          PROVE  EpilogueAt(s \o t, j)
      <3>1. j \in 1..(Len(s) - 2)
        BY <1>1
      <3> QED BY <2>4, <3>1, EpilogueKept
    <2> QED BY <2>3, <2>4 DEF Segment
  <1> QED BY <1>1, <1>2, <1>3 DEF Segment

(* Ordinary code extends the segment at the end of the code.               *)
LEMMA SegmentGrows ==
  ASSUME NEW s \in Seq(MachineInsts), NEW t \in Seq(MachineInsts),
         NEW lo, NEW f, Segment(s, lo, Len(s), f), AllOrdinary(t, f)
  PROVE  Segment(s \o t, lo, Len(s \o t), f)
  <1> DEFINE hi == Len(s)
             top == Len(s \o t)
  <1>1. /\ lo \in Nat \ {0} /\ hi \in Nat /\ lo + 3 <= hi /\ top \in Nat
        /\ hi <= top
    BY Concatenated DEF Segment
  <1>2. Segment(s \o t, lo, hi, f)
    BY SegmentKept
  <1>3. ASSUME NEW i \in (lo + 4)..top
        PROVE  \/ Ordinary((s \o t)[i], f)
               \/ \E j \in (lo + 4)..(top - 2) : j \in (i - 2)..i /\ EpilogueAt(s \o t, j)
    <2>1. CASE i <= hi
      <3>1. i \in (lo + 4)..hi
        BY <1>1, <2>1
      <3>2. \/ Ordinary((s \o t)[i], f)
            \/ \E j \in (lo + 4)..(hi - 2) : j \in (i - 2)..i /\ EpilogueAt(s \o t, j)
        BY <1>2, <3>1 DEF Segment
      <3>3. (lo + 4)..(hi - 2) \subseteq (lo + 4)..(top - 2)
        BY <1>1
      <3> HIDE DEF hi, top
      <3> QED BY <3>2, <3>3
    <2>2. CASE ~(i <= hi)
      <3>1. i \in (hi + 1)..top
        BY <1>1, <2>2
      <3>2. i - hi \in 1..Len(t) /\ (s \o t)[i] = t[i - hi]
        BY <3>1, Concatenated
      <3> QED BY <3>2 DEF AllOrdinary
    <2> QED BY <2>1, <2>2
  <1> HIDE DEF hi, top
  <1>4. lo + 3 <= top /\ top <= Len(s \o t)
    BY <1>1 DEF top
  <1> QED BY <1>1, <1>2, <1>3, <1>4 DEF Segment, top

(* So does an epilogue, and control leaves the code there.                 *)
LEMMA SegmentEnds ==
  ASSUME NEW s \in Seq(MachineInsts), NEW lo, NEW f, Segment(s, lo, Len(s), f)
  PROVE  /\ Segment(s \o emitEpilogue, lo, Len(s \o emitEpilogue), f)
         /\ Leaves((s \o emitEpilogue)[Len(s \o emitEpilogue)])
  <1> DEFINE t == emitEpilogue
             hi == Len(s)
             top == Len(s \o t)
  <1>1. t \in Seq(MachineInsts) /\ Len(t) = 3
    BY EpilogueType DEF emitEpilogue
  <1>2. /\ lo \in Nat \ {0} /\ hi \in Nat /\ lo + 3 <= hi /\ top = hi + 3
    <2> HIDE DEF t
    <2>1. top = Len(s) + Len(t)
      BY <1>1, Concatenated
    <2> QED BY <1>1, <2>1 DEF Segment
  <1>3. Segment(s \o t, lo, hi, f)
    BY <1>1, SegmentKept
  <1>4. /\ (s \o t)[hi + 1] = t[1] /\ (s \o t)[hi + 2] = t[2]
        /\ (s \o t)[hi + 3] = t[3]
    <2> HIDE DEF t
    <2>1. 1 \in 1..Len(t) /\ 2 \in 1..Len(t) /\ 3 \in 1..Len(t)
      BY <1>1
    <2> QED BY <1>1, <2>1, Concatenated
  <1>5. EpilogueAt(s \o t, hi + 1)
    <2>1. /\ t[1] = Mov(Reg("rsp"), Reg("rbp"))
          /\ t[2] = MachineInst("POP", <<Reg("rbp")>>)
          /\ t[3] = MachineInst("RET", << >>)
      BY DEF emitEpilogue
    <2>2. hi + 1 + 1 = hi + 2 /\ hi + 1 + 2 = hi + 3
      BY <1>2
    <2> HIDE DEF t, hi
    <2> QED BY <1>4, <2>1, <2>2 DEF EpilogueAt
  <1>6. ASSUME NEW i \in (lo + 4)..top
        PROVE  \/ Ordinary((s \o t)[i], f)
               \/ \E j \in (lo + 4)..(top - 2) : j \in (i - 2)..i /\ EpilogueAt(s \o t, j)
    <2>1. CASE i <= hi
      <3>1. i \in (lo + 4)..hi
        BY <1>2, <2>1
      <3>2. \/ Ordinary((s \o t)[i], f)
            \/ \E j \in (lo + 4)..(hi - 2) : j \in (i - 2)..i /\ EpilogueAt(s \o t, j)
        BY <1>3, <3>1 DEF Segment
      <3>3. (lo + 4)..(hi - 2) \subseteq (lo + 4)..(top - 2)
        BY <1>2
      <3> HIDE DEF hi, top, t
      <3> QED BY <3>2, <3>3
    <2>2. CASE ~(i <= hi)
      <3>1. hi + 1 \in (lo + 4)..(top - 2) /\ hi + 1 \in (i - 2)..i
        BY <1>2, <2>2
      <3> HIDE DEF hi, top, t
      <3> QED BY <1>5, <3>1
    <2> QED BY <2>1, <2>2
  <1>7. Leaves((s \o t)[top])
    <2>1. (s \o t)[hi + 3].kind = "RET"
      BY <1>4 DEF emitEpilogue, MachineInst
    <2> HIDE DEF t, hi, top
    <2> QED BY <1>2, <2>1 DEF Leaves
  <1>8. lo + 3 <= top /\ top <= Len(s \o t) /\ top \in Nat
    BY <1>2
  <1> HIDE DEF t, hi, top
  <1>9. PrologueAt(s \o t, lo, f)
    BY <1>3 DEF Segment
  <1>10. Segment(s \o t, lo, top, f)
    BY <1>2, <1>6, <1>8, <1>9 DEF Segment
  <1> QED BY <1>7, <1>10 DEF t, top

(* A segment begins with the prologue.                                     *)
LEMMA SegmentBegins ==
  ASSUME NEW s \in Seq(MachineInsts), NEW f, f.name \in STRING
  PROVE  LET t == s \o emitPrologue(f.name)
         IN  /\ Segment(t, Len(s) + 1, Len(t), f)
             /\ Len(t) = Len(s) + 4 /\ Len(s) \in Nat
  <1> DEFINE p == emitPrologue(f.name)
             t == s \o p
             n == Len(s)
  <1>1. p \in Seq(MachineInsts) /\ Len(p) = 4
    BY PrologueType DEF emitPrologue
  <1>2. n \in Nat /\ Len(t) = n + 4
    <2> HIDE DEF p
    <2>1. Len(s) \in Nat /\ Len(t) = Len(s) + Len(p)
      BY <1>1, Concatenated
    <2> QED BY <1>1, <2>1
  <1>3. t[n + 1] = p[1] /\ t[n + 2] = p[2] /\ t[n + 3] = p[3] /\ t[n + 4] = p[4]
    <2> HIDE DEF p
    <2>1. 1 \in 1..Len(p) /\ 2 \in 1..Len(p) /\ 3 \in 1..Len(p) /\ 4 \in 1..Len(p)
      BY <1>1
    <2> QED BY <1>1, <2>1, Concatenated
  <1>4. PrologueAt(t, n + 1, f)
    <2>1. /\ p[1] = Label(f.name) /\ p[2] = MachineInst("PUSH", <<Reg("rbp")>>)
          /\ p[3] = Mov(Reg("rbp"), Reg("rsp"))
          /\ p[4] = MachineInst("SUB", <<Reg("rsp"), Imm(FrameBytes)>>)
      BY DEF emitPrologue
    <2>2. n + 1 + 1 = n + 2 /\ n + 1 + 2 = n + 3 /\ n + 1 + 3 = n + 4
      BY <1>2
    <2> HIDE DEF p, t, n
    <2> QED BY <1>3, <2>1, <2>2 DEF PrologueAt
  <1>5. \A i \in (n + 1 + 4)..Len(t) : FALSE
    BY <1>2
  <1> HIDE DEF t, n
  <1>6. /\ n + 1 \in Nat \ {0} /\ Len(t) \in Nat /\ n + 1 + 3 <= Len(t)
        /\ Len(t) <= Len(t)
    BY <1>2
  <1>7. Segment(t, n + 1, Len(t), f)
    BY <1>4, <1>5, <1>6 DEF Segment
  <1> QED BY <1>2, <1>7 DEF t, n

LEMMA LabelsKept ==
  ASSUME NEW s \in Seq(MachineInsts), NEW t \in Seq(MachineInsts),
         NEW lo \in Nat, NEW hi \in Nat, NEW top \in Nat, hi <= Len(s), hi <= top,
         NEW f, NEW n, LabelsLaid(s, lo, hi, f, n)
  PROVE  LabelsLaid(s \o t, lo, top, f, n)
  <1> SUFFICES ASSUME NEW b \in 1..n
               PROVE  \E i \in (lo + 4)..top : (s \o t)[i] = Label(f.blocks[b].name)
    BY DEF LabelsLaid
  <1>1. PICK i \in (lo + 4)..hi : s[i] = Label(f.blocks[b].name)
    BY DEF LabelsLaid
  <1>2. i \in 1..Len(s) /\ i \in (lo + 4)..top
    BY Concatenated
  <1>3. (s \o t)[i] = s[i]
    BY <1>2, Concatenated
  <1> QED BY <1>1, <1>2, <1>3

-----------------------------------------------------------------------------
(* Where an instruction writes.                                            *)

(* The operand of a value that has just been placed is a register of the   *)
(* pool or a slot.                                                         *)
LEMMA PlacedDestination ==
  ASSUME NEW a, Sound(a), NEW o \in Operands(Values)
  PROVE  Destination(OperandIn(Place(a, o), o))
  <1> DEFINE b == Place(a, o)
  <1>1. Sound(b)
    BY PlaceSound
  <1>2. CASE o.imm
    BY <1>2 DEF OperandIn, Imm, Destination
  <1>3. CASE ~o.imm /\ b.valueToRegister[o.id] # NoReg
    <2>1. b.valueToRegister[o.id] \in Registers
      BY <1>1, <1>3, OperandTypes DEF Sound, Allocations
    <2> HIDE DEF b
    <2> QED BY <1>3, <2>1 DEF OperandIn, Reg, Destination, b
  <1>4. CASE ~o.imm /\ b.valueToRegister[o.id] = NoReg
    <2> DEFINE v == o.id
               off == b.stackOffsets[v]
    <2>1. v \in Values /\ off \in Int
      BY <1>1, <1>4, OperandTypes DEF Sound, Allocations
    <2>2. off # 0
      <3>1. CASE a.valueToRegister[v] # NoReg
        BY <1>4, <3>1 DEF Place
      <3>2. CASE a.valueToRegister[v] = NoReg /\ a.freeRegisters # << >>
        <4>1. b = TakeRegister(a, v)
          BY <1>4, <3>2 DEF Place
        <4>2. Last(a.freeRegisters) \in Registers
          BY <3>2, PopTypes DEF Sound, Allocations
        <4>3. b.valueToRegister[v] = Last(a.freeRegisters)
          BY <2>1, <4>1 DEF TakeRegister, Sound, Allocations
        <4>4. NoReg \notin Registers
          BY PoolAssumption, NoRegAssumption DEF Registers
        <4> QED BY <1>4, <4>2, <4>3, <4>4
      <3>3. CASE a.valueToRegister[v] = NoReg /\ a.freeRegisters = << >>
        <4>1. b = IF a.stackOffsets[v] = 0 THEN Spill(a, v) ELSE a
          BY <1>4, <3>3 DEF Place
        <4>2. /\ a.currentStackOffset \in Int /\ a.currentStackOffset <= 0
              /\ a.stackOffsets \in [Values -> Int]
              /\ Spill(a, v).stackOffsets =
                   [a.stackOffsets EXCEPT ![v] = a.currentStackOffset - 4]
          BY <2>1, SpillType DEF Sound, Allocations, OwnSlots
        <4>3. Spill(a, v).stackOffsets[v] # 0
          BY <2>1, <4>2
        <4> QED BY <4>1, <4>3
      <3> QED BY <3>1, <3>2, <3>3
    <2>3. /\ off >= b.currentStackOffset /\ off <= -4
          /\ b.currentStackOffset \in Int
      <3>1. b.currentStackOffset \in Int
        BY <1>1 DEF Sound, Allocations
      <3>2. off \in b.currentStackOffset..(-4)
        BY <1>1, <2>1, <2>2 DEF Sound, OwnSlots
      <3> HIDE DEF b, off
      <3> QED BY <3>1, <3>2
    <2>6. OperandIn(b, o) = Mem(off)
      BY <1>4 DEF OperandIn
    <2> HIDE DEF off, b
    <2> QED BY <2>1, <2>3, <2>6 DEF Mem, Destination, b
  <1> QED BY <1>2, <1>3, <1>4

-----------------------------------------------------------------------------
(* What the kinds of instruction emit.                                     *)

(* Code of f for an instruction op: ordinary, and control leaves it if op  *)
(* is a terminator; or it returns from f in the end.                       *)
Emitted(t, f, op) ==
  /\ t \in Seq(MachineInsts)
  /\ \/ AllOrdinary(t, f) /\ (op \in Terminators => Len(t) > 0 /\ Leaves(t[Len(t)]))
     \/ \E u \in Seq(MachineInsts) : t = u \o emitEpilogue /\ AllOrdinary(u, f)

LEMMA ScratchDestination == Destination(Reg("eax")) /\ Destination(Reg("ebx"))
  BY DEF Destination, Reg

LEMMA MovOrdinary ==
  ASSUME NEW x, NEW y, NEW f, Destination(x)
  PROVE  Ordinary(Mov(x, y), f)
  BY DEF Ordinary, Mov, MachineInst

LEMMA StoreOrdinary ==
  ASSUME NEW x, NEW y, NEW f, Destination(x)
  PROVE  AllOrdinary(StoreCode(x, y), f)
  <1>1. /\ Ordinary(Mov(Reg("eax"), y), f) /\ Ordinary(Mov(x, Reg("eax")), f)
        /\ Ordinary(Mov(x, y), f)
    BY MovOrdinary, ScratchDestination
  <1> QED BY <1>1 DEF StoreCode, AllOrdinary

LEMMA ArithmeticOrdinary ==
  ASSUME NEW k \in {"ADD", "SUB"}, NEW x \in MachineOperands,
         NEW y \in MachineOperands, NEW z \in MachineOperands, NEW f,
         Destination(z)
  PROVE  AllOrdinary(ArithmeticCode(k, x, y, z), f)
  <1> DEFINE first == << Mov(Reg("eax"), x) >>
             viaEbx == << Mov(Reg("ebx"), y),
                          MachineInst(k, <<Reg("eax"), Reg("ebx")>>) >>
             direct == << MachineInst(k, <<Reg("eax"), y>>) >>
             last == << Mov(z, Reg("eax")) >>
             middle == IF y.kind = "mem" THEN viaEbx ELSE direct
  <1>1. /\ Ordinary(Mov(Reg("eax"), x), f) /\ Ordinary(Mov(Reg("ebx"), y), f)
        /\ Ordinary(Mov(z, Reg("eax")), f)
    BY MovOrdinary, ScratchDestination
  <1>2. /\ Ordinary(MachineInst(k, <<Reg("eax"), Reg("ebx")>>), f)
        /\ Ordinary(MachineInst(k, <<Reg("eax"), y>>), f)
    BY ScratchDestination DEF Ordinary, MachineInst
  <1>3. /\ AllOrdinary(first, f) /\ AllOrdinary(viaEbx, f)
        /\ AllOrdinary(direct, f) /\ AllOrdinary(last, f)
    BY <1>1, <1>2 DEF AllOrdinary
  <1>4. /\ first \in Seq(MachineInsts) /\ viaEbx \in Seq(MachineInsts)
        /\ direct \in Seq(MachineInsts) /\ last \in Seq(MachineInsts)
    <2>1. /\ Mov(Reg("eax"), x) \in MachineInsts /\ Mov(Reg("ebx"), y) \in MachineInsts
          /\ Mov(z, Reg("eax")) \in MachineInsts
      BY MovType, RegTypes
    <2>2. /\ MachineInst(k, <<Reg("eax"), Reg("ebx")>>) \in MachineInsts
          /\ MachineInst(k, <<Reg("eax"), y>>) \in MachineInsts
      BY MachineInstTypes, RegTypes DEF X86InstKind
    <2> QED BY <2>1, <2>2
  <1>5. ArithmeticCode(k, x, y, z) = (first \o middle) \o last
    BY DEF ArithmeticCode
  <1>6. middle \in Seq(MachineInsts) /\ AllOrdinary(middle, f)
    BY <1>3, <1>4
  <1> HIDE DEF first, middle, last
  <1>7. first \o middle \in Seq(MachineInsts) /\ AllOrdinary(first \o middle, f)
    BY <1>3, <1>4, <1>6, OrdinaryJoins, Concatenated
  <1> QED BY <1>3, <1>4, <1>5, <1>7, OrdinaryJoins

(* A jump to a block of the function being lowered.                        *)
LEMMA JumpOrdinary ==
  ASSUME NEW k \in {"JE", "JMP"}, NEW b \in 1..Len(function.blocks)
  PROVE  Ordinary(MachineInst(k, <<BlockLabel(b)>>), function)
  BY DEF Ordinary, MachineInst, BlockLabel

LEMMA LowerInstructionEmits ==
  ASSUME IInv, LowerInstruction
  PROVE  \E t \in Seq(MachineInsts) :
           Emitted(t, function, inst.op) /\ m_instructions' = m_instructions \o t
  <1>1. phase = "inst" /\ currentInstIndex < Len(insts)
    BY DEF LowerInstruction, LowerAlloca, LowerStore, LowerLoad,
           LowerArithmetic, LowerRet, LowerBr, LowerCondBr, Lowering
  <1>2. inst \in Instructions(Values, Nat \ {0}) /\ Sound(ra)
    BY <1>1, InstType DEF IInv
  <1> DEFINE Fits4(o) == o \in Operands(Values)
             Good(a) == Sound(a)
  <1>4. ASSUME NEW a, NEW o, Good(a), Fits4(o)
        PROVE  /\ Good(Place(a, o)) /\ Good(Release(a, o))
               /\ OperandIn(a, o) \in MachineOperands
               /\ Destination(OperandIn(Place(a, o), o))
    BY <1>4, PlaceSound, ReleaseSound, SoundOperand, PlacedDestination
  <1>5. ASSUME NEW a, Good(a), NEW t, Emitted(t, function, inst.op), Lowered(a, t)
        PROVE  \E u \in Seq(MachineInsts) :
                 Emitted(u, function, inst.op) /\ m_instructions' = m_instructions \o u
    BY <1>5 DEF Lowered, Emitted
  <1>6. Good(ra)
    BY <1>2
  <1>7. CASE LowerAlloca
    <2>1. Emitted(<< >>, function, inst.op)
      BY <1>7 DEF LowerAlloca, Lowering, Emitted, AllOrdinary, Terminators
    <2>2. Lowered(ra, << >>)
      BY <1>7 DEF LowerAlloca
    <2> HIDE DEF Good
    <2> QED BY <1>5, <1>6, <2>1, <2>2
  <1>8. CASE LowerStore
    <2> DEFINE val == inst.args[1]
               ptr == inst.args[2]
               a1 == Place(ra, val)
               a2 == Place(a1, ptr)
               code == StoreCode(OperandIn(a2, ptr), OperandIn(a1, val))
    <2>1. Fits4(val) /\ Fits4(ptr) /\ inst.op \notin Terminators
      BY <1>2, <1>8, InstructionTypes
         DEF LowerStore, Lowering, Terminators
    <2>2. Lowered(Release(Release(a2, val), ptr), code)
      BY <1>8 DEF LowerStore
    <2> HIDE DEF Fits4, Good
    <2>3. Good(a1) /\ OperandIn(a1, val) \in MachineOperands
      BY <1>4, <1>6, <2>1
    <2>4. /\ Good(a2) /\ OperandIn(a2, ptr) \in MachineOperands
          /\ Destination(OperandIn(a2, ptr))
      <3> HIDE DEF a1
      <3> QED BY <1>4, <2>1, <2>3
    <2>5. Good(Release(Release(a2, val), ptr))
      BY <1>4, <2>1, <2>4
    <2>6. code \in Seq(MachineInsts) /\ AllOrdinary(code, function)
      BY <2>3, <2>4, StoreCodeType, StoreOrdinary
    <2> HIDE DEF code, a2
    <2>7. Emitted(code, function, inst.op)
      BY <2>1, <2>6 DEF Emitted
    <2> QED BY <1>5, <2>2, <2>5, <2>7
  <1>9. CASE LowerLoad
    <2> DEFINE ptr == inst.args[1]
               dest == Ref(inst.id)
               a1 == Place(ra, ptr)
               a2 == Place(a1, dest)
               code == << Mov(Reg("eax"), OperandIn(a1, ptr)),
                          Mov(OperandIn(a2, dest), Reg("eax")) >>
    <2>1. Fits4(ptr) /\ Fits4(dest) /\ inst.op \notin Terminators
      <3>1. inst.op = "load"
        BY <1>9 DEF LowerLoad, Lowering
      <3>2. inst.id \in Values
        BY <1>2, <3>1, InstructionTypes
      <3>3. Fits4(dest)
        BY <1>2, <3>1, <3>2, RefType
      <3>4. Fits4(ptr)
        BY <1>2, <3>1, InstructionTypes
      <3> QED BY <3>1, <3>3, <3>4 DEF Terminators
    <2>2. Lowered(Release(a2, ptr), code)
      BY <1>9 DEF LowerLoad
    <2> HIDE DEF Fits4, Good
    <2>3. Good(a1) /\ OperandIn(a1, ptr) \in MachineOperands
      BY <1>4, <1>6, <2>1
    <2>4. /\ Good(a2) /\ OperandIn(a2, dest) \in MachineOperands
          /\ Destination(OperandIn(a2, dest))
      <3> HIDE DEF a1, dest
      <3> QED BY <1>4, <2>1, <2>3
    <2>5. Good(Release(a2, ptr))
      BY <1>4, <2>1, <2>4
    <2>6. code \in Seq(MachineInsts)
      BY <2>3, <2>4, MovType, RegTypes
    <2>7. AllOrdinary(code, function)
      <3>1. /\ Ordinary(Mov(Reg("eax"), OperandIn(a1, ptr)), function)
            /\ Ordinary(Mov(OperandIn(a2, dest), Reg("eax")), function)
        BY <2>4, MovOrdinary, ScratchDestination
      <3> QED BY <3>1 DEF AllOrdinary
    <2> HIDE DEF code, a2
    <2>8. Emitted(code, function, inst.op)
      BY <2>1, <2>6, <2>7 DEF Emitted
    <2> QED BY <1>5, <2>2, <2>5, <2>8
  <1>10. CASE LowerArithmetic
    <2> DEFINE lhs == inst.args[1]
               rhs == inst.args[2]
               dest == Ref(inst.id)
               a1 == Place(ra, lhs)
               a2 == Place(a1, rhs)
               a3 == Place(a2, dest)
               kind == IF inst.op = "add" THEN "ADD" ELSE "SUB"
               code == ArithmeticCode(kind, OperandIn(a1, lhs), OperandIn(a2, rhs),
                                      OperandIn(a3, dest))
    <2>1. Fits4(lhs) /\ Fits4(rhs) /\ Fits4(dest) /\ inst.op \notin Terminators
      <3>1. inst.op \in {"add", "sub"}
        BY <1>10 DEF LowerArithmetic, Lowering
      <3>2. inst.id \in Values
        BY <1>2, <3>1, InstructionTypes
      <3>3. Fits4(dest)
        BY <1>2, <3>1, <3>2, RefType
      <3>4. Fits4(lhs) /\ Fits4(rhs)
        BY <1>2, <3>1, InstructionTypes
      <3> QED BY <3>1, <3>3, <3>4 DEF Terminators
    <2>2. Lowered(Release(Release(a3, lhs), rhs), code)
      BY <1>10 DEF LowerArithmetic
    <2> HIDE DEF Fits4, Good
    <2>3. Good(a1) /\ OperandIn(a1, lhs) \in MachineOperands
      BY <1>4, <1>6, <2>1
    <2>4. Good(a2) /\ OperandIn(a2, rhs) \in MachineOperands
      <3> HIDE DEF a1
      <3> QED BY <1>4, <2>1, <2>3
    <2>5. /\ Good(a3) /\ OperandIn(a3, dest) \in MachineOperands
          /\ Destination(OperandIn(a3, dest))
      <3> HIDE DEF a2, dest
      <3> QED BY <1>4, <2>1, <2>4
    <2>6. Good(Release(Release(a3, lhs), rhs))
      BY <1>4, <2>1, <2>5
    <2>7. code \in Seq(MachineInsts) /\ AllOrdinary(code, function)
      BY <2>3, <2>4, <2>5, ArithmeticCodeType, ArithmeticOrdinary
    <2> HIDE DEF code, a3
    <2>8. Emitted(code, function, inst.op)
      BY <2>1, <2>7 DEF Emitted
    <2> QED BY <1>5, <2>2, <2>6, <2>8
  <1>11. CASE LowerRet
    <2>1. CASE inst.args = << >>
      <3>1. << >> \in Seq(MachineInsts) /\ << >> \o emitEpilogue = emitEpilogue
            /\ AllOrdinary(<< >>, function) /\ emitEpilogue \in Seq(MachineInsts)
        BY EpilogueType DEF AllOrdinary
      <3>2. Emitted(emitEpilogue, function, inst.op)
        BY <3>1 DEF Emitted
      <3>3. Lowered(ra, emitEpilogue)
        BY <1>11, <2>1 DEF LowerRet
      <3> HIDE DEF Good
      <3> QED BY <1>5, <1>6, <3>2, <3>3
    <2>2. CASE inst.args # << >>
      <3> DEFINE val == inst.args[1]
                 a1 == Place(ra, val)
                 mov == << Mov(Reg("eax"), OperandIn(a1, val)) >>
      <3>1. Fits4(val)
        BY <1>2, <1>11, <2>2, InstructionTypes
           DEF LowerRet, Lowering
      <3>2. Lowered(Release(a1, val), mov \o emitEpilogue)
        BY <1>11, <2>2 DEF LowerRet
      <3> HIDE DEF Fits4, Good
      <3>3. Good(a1) /\ OperandIn(a1, val) \in MachineOperands
        BY <1>4, <1>6, <3>1
      <3>4. Good(Release(a1, val))
        BY <1>4, <3>1, <3>3
      <3>5. mov \in Seq(MachineInsts)
        BY <3>3, MovType, RegTypes
      <3>6. AllOrdinary(mov, function)
        <4>1. Ordinary(Mov(Reg("eax"), OperandIn(a1, val)), function)
          BY MovOrdinary, ScratchDestination
        <4> QED BY <4>1 DEF AllOrdinary
      <3> HIDE DEF mov, a1
      <3>7. mov \o emitEpilogue \in Seq(MachineInsts)
        BY <3>5, EpilogueType, Concatenated
      <3>8. Emitted(mov \o emitEpilogue, function, inst.op)
        BY <3>5, <3>6, <3>7 DEF Emitted
      <3> QED BY <1>5, <3>2, <3>4, <3>8
    <2> QED BY <2>1, <2>2
  <1>12. \A k \in 1..Len(inst.targets) : inst.targets[k] \in 1..Len(function.blocks)
    <2>1. /\ fn \in 1..Len(module) /\ bb \in 1..Len(function.blocks)
          /\ insts \in Seq(Instructions(Values, Nat \ {0}))
          /\ currentInstIndex \in 0..Len(insts)
      BY <1>1, InstType
    <2>2. currentInstIndex + 1 \in 1..Len(insts)
      BY <1>1, <2>1
    <2>3. BranchesInside(function)
      BY <2>1, ModulesAssumption DEF IInv, function
    <2> QED BY <2>1, <2>2, <2>3 DEF BranchesInside, inst, insts, function
  <1>13. CASE LowerBr
    <2> DEFINE jmp == MachineInst("JMP", <<BlockLabel(inst.targets[1])>>)
    <2>1. Len(inst.targets) = 1
      BY <1>2, <1>13, InstructionTypes DEF LowerBr, Lowering
    <2>2. /\ inst.targets[1] \in 1..Len(function.blocks)
          /\ function.blocks[inst.targets[1]].name \in STRING
      BY <2>1, <1>1, <1>12, InstType
    <2>3. jmp \in MachineInsts /\ Ordinary(jmp, function) /\ Leaves(jmp)
      <3>1. BlockLabel(inst.targets[1]) \in MachineOperands
        BY <2>2, RegTypes DEF BlockLabel
      <3>2. jmp \in MachineInsts
        BY <3>1, MachineInstTypes DEF X86InstKind
      <3>3. Ordinary(jmp, function)
        BY <2>2, JumpOrdinary
      <3> QED BY <3>2, <3>3 DEF Leaves, MachineInst
    <2>4. Lowered(ra, << jmp >>)
      BY <1>13 DEF LowerBr
    <2> HIDE DEF jmp, Good
    <2>5. Emitted(<< jmp >>, function, inst.op)
      BY <2>3 DEF Emitted, AllOrdinary
    <2> QED BY <1>5, <1>6, <2>4, <2>5
  <1>14. CASE LowerCondBr
    <2> DEFINE cond == inst.args[1]
               a1 == Place(ra, cond)
               cmp == MachineInst("CMP", <<OperandIn(a1, cond), Imm(0)>>)
               je == MachineInst("JE", <<BlockLabel(inst.targets[2])>>)
               jmp == MachineInst("JMP", <<BlockLabel(inst.targets[1])>>)
    <2>1. Fits4(cond) /\ Len(inst.targets) = 2
      BY <1>2, <1>14, InstructionTypes
         DEF LowerCondBr, Lowering
    <2>2. /\ inst.targets[1] \in 1..Len(function.blocks)
          /\ inst.targets[2] \in 1..Len(function.blocks)
          /\ function.blocks[inst.targets[1]].name \in STRING
          /\ function.blocks[inst.targets[2]].name \in STRING
      BY <2>1, <1>1, <1>12, InstType
    <2>3. Lowered(Release(a1, cond), << cmp, je, jmp >>)
      BY <1>14 DEF LowerCondBr
    <2> HIDE DEF Fits4, Good
    <2>4. Good(a1) /\ OperandIn(a1, cond) \in MachineOperands
      BY <1>4, <1>6, <2>1
    <2>5. Good(Release(a1, cond))
      BY <1>4, <2>1, <2>4
    <2>6. cmp \in MachineInsts /\ Ordinary(cmp, function)
      <3>1. cmp \in MachineInsts
        BY <2>4, MachineInstTypes, RegTypes DEF X86InstKind
      <3> QED BY <3>1 DEF Ordinary, MachineInst
    <2>7. /\ je \in MachineInsts /\ Ordinary(je, function)
          /\ jmp \in MachineInsts /\ Ordinary(jmp, function) /\ Leaves(jmp)
      <3>1. /\ BlockLabel(inst.targets[1]) \in MachineOperands
            /\ BlockLabel(inst.targets[2]) \in MachineOperands
        BY <2>2, RegTypes DEF BlockLabel
      <3>2. je \in MachineInsts /\ jmp \in MachineInsts
        BY <3>1, MachineInstTypes DEF X86InstKind
      <3>3. Ordinary(je, function) /\ Ordinary(jmp, function)
        BY <2>2, JumpOrdinary
      <3> QED BY <3>2, <3>3 DEF Leaves, MachineInst
    <2> HIDE DEF cmp, je, jmp, a1
    <2>8. Emitted(<< cmp, je, jmp >>, function, inst.op)
      BY <2>6, <2>7 DEF Emitted, AllOrdinary
    <2> QED BY <1>5, <2>3, <2>5, <2>8
  <1> QED BY <1>7, <1>8, <1>9, <1>10, <1>11, <1>13, <1>14 DEF LowerInstruction

-----------------------------------------------------------------------------
(* The code of main is laid as said.                                       *)

LEMMA MainIndexed ==
  ASSUME HasMain, module \in Modules
  PROVE  /\ MainIndex \in 1..Len(module) /\ module[MainIndex].name = "main"
         /\ Main = module[MainIndex] /\ Len(module) \in Nat
  <1>1. \E f \in 1..Len(module) : module[f].name = "main"
    BY DEF HasMain
  <1>2. Len(module) \in Nat
    BY ModulesAssumption
  <1> QED BY <1>1, <1>2 DEF MainIndex, Main

(* What is emitted below main changes nothing of it.                       *)
LEMMA MainLaidKept ==
  ASSUME NEW t \in Seq(MachineInsts), m_instructions \in Seq(MachineInsts),
         m_instructions' = m_instructions \o t,
         module' = module, fn' = fn, ~(fn > Len(module)),
         NEW lo \in 1..Len(m_instructions), NEW hi \in 1..Len(m_instructions),
         MainLaid(lo, hi)
  PROVE  /\ lo \in 1..Len(m_instructions') /\ hi \in 1..Len(m_instructions')
         /\ MainLaid(lo, hi)'
  <1> DEFINE code == m_instructions
  <1>1. Segment(code, lo, hi, Main) /\ Leaves(code[hi])
        /\ LabelsLaid(code, lo, hi, Main, Len(Main.blocks))
    BY DEF MainLaid
  <1>2. Main' = Main
    BY DEF Main
  <1>3. Len(code) \in Nat /\ Len(code \o t) \in Nat /\ Len(code) <= Len(code \o t)
    BY Concatenated
  <1>4. lo \in 1..Len(code \o t) /\ hi \in 1..Len(code \o t)
    BY <1>3
  <1>5. Segment(code \o t, lo, hi, Main)
    BY <1>1, SegmentKept
  <1>6. LabelsLaid(code \o t, lo, hi, Main, Len(Main.blocks))
    BY <1>1, LabelsKept
  <1>7. (code \o t)[hi] = code[hi]
    BY Concatenated
  <1> QED BY <1>1, <1>2, <1>4, <1>5, <1>6, <1>7 DEF MainLaid

LEMMA InitFrameLaid ==
  ASSUME HasMain, Init
  PROVE  FrameLaid
  <1>1. MainIndex \in 1..Len(module) /\ fn = 1 /\ phase = "function"
        /\ Len(module) \in Nat
    BY MainIndexed DEF Init, Reset
  <1>2. ~(fn > MainIndex)
    BY <1>1
  <1> QED BY <1>1, <1>2 DEF FrameLaid

LEMMA FunctionBegun ==
  ASSUME HasMain, IInv, FrameLaid, lowerFunction
  PROVE  FrameLaid'
  <1> DEFINE p == emitPrologue(function.name)
  <1>1. /\ fn' = fn /\ module' = module /\ phase' = "block" /\ bb' = 1
        /\ ra' = EmptyAllocation /\ function' = function
        /\ m_instructions' = m_instructions \o p /\ fn <= Len(module)
    BY DEF lowerFunction, function
  <1>2. /\ fn \in 1..Len(module) /\ function.name \in STRING
        /\ Len(function.blocks) \in Nat /\ Len(module) \in Nat
    BY <1>1, FunctionType DEF IInv
  <1>3. m_instructions \in Seq(MachineInsts) /\ p \in Seq(MachineInsts)
    BY <1>2, PrologueType DEF IInv, TypeOK
  <1>5. LayingMain'
    <2> DEFINE t == m_instructions \o p
               lo == Len(m_instructions) + 1
    <2>1. Segment(t, lo, Len(t), function) /\ Len(t) = Len(m_instructions) + 4
          /\ Len(m_instructions) \in Nat
      BY <1>2, <1>3, SegmentBegins
    <2>2. lo \in 1..Len(t)
      BY <2>1
    <2>3. LabelsLaid(t, lo, Len(t), function, 1 - 1)
      BY DEF LabelsLaid
    <2> HIDE DEF t, lo
    <2>4. m_instructions' = t
      BY <1>1 DEF t
    <2> QED BY <1>1, <2>1, <2>2, <2>3, <2>4 DEF LayingMain
  <1>6. fn > MainIndex => (\E lo, hi \in 1..Len(m_instructions) : MainLaid(lo, hi))'
    <2> SUFFICES ASSUME fn > MainIndex
                 PROVE  (\E lo, hi \in 1..Len(m_instructions) : MainLaid(lo, hi))'
      OBVIOUS
    <2>1. PICK lo \in 1..Len(m_instructions), hi \in 1..Len(m_instructions) :
            MainLaid(lo, hi)
      BY DEF FrameLaid
    <2>2. ~(fn > Len(module))
      BY <1>2
    <2> HIDE DEF p
    <2>3. /\ lo \in 1..Len(m_instructions') /\ hi \in 1..Len(m_instructions')
          /\ MainLaid(lo, hi)'
      BY <1>1, <1>3, <2>1, <2>2, MainLaidKept
    <2> QED BY <2>3
  <1>7. 1 <= Len(function.blocks) + 1
    BY <1>2
  <1>8. MainIndex' = MainIndex
    BY <1>1 DEF MainIndex
  <1> HIDE DEF p
  <1> QED BY <1>1, <1>5, <1>6, <1>7, <1>8 DEF FrameLaid

LEMMA BlockBegun ==
  ASSUME HasMain, IInv, FrameLaid, lowerBasicBlock
  PROVE  FrameLaid'
  <1> DEFINE f == function
             label == Label(f.blocks[bb].name)
             t == << label >>
             code == m_instructions
  <1>1. /\ fn' = fn /\ module' = module /\ phase = "block" /\ phase' = "inst"
        /\ bb' = bb /\ ra' = ra /\ function' = function /\ currentInstIndex' = 0
        /\ code' = Append(code, label) /\ bb <= Len(f.blocks)
    BY DEF lowerBasicBlock, function
  <1>2. /\ fn \in 1..Len(module) /\ Len(module) \in Nat /\ bb \in 1..Len(f.blocks)
        /\ f.blocks[bb].name \in STRING
    BY <1>1, FunctionType DEF IInv, TypeOK
  <1>3. code \in Seq(MachineInsts) /\ label \in MachineInsts
    BY <1>2, LabelType DEF IInv, TypeOK
  <1>4. t \in Seq(MachineInsts) /\ code' = code \o t /\ AllOrdinary(t, f)
    <2>1. Ordinary(label, f)
      BY DEF Label, MachineInst, Ordinary
    <2> HIDE DEF label
    <2> QED BY <1>1, <1>3, <2>1 DEF AllOrdinary
  <1>6. fn = MainIndex => LayingMain'
    <2> SUFFICES ASSUME fn = MainIndex PROVE LayingMain'
      OBVIOUS
    <2>1. PICK lo \in 1..Len(code) :
            /\ Segment(code, lo, Len(code), f)
            /\ LabelsLaid(code, lo, Len(code), f, bb - 1)
      BY <1>1 DEF FrameLaid, LayingMain
    <2> DEFINE top == Len(code \o t)
    <2> HIDE DEF t
    <2>2. Segment(code \o t, lo, top, f)
      BY <1>3, <1>4, <2>1, SegmentGrows
    <2>3. /\ Len(code) \in Nat /\ top = Len(code) + 1 /\ Len(t) = 1
          /\ (code \o t)[Len(code) + 1] = label
      <3>1. Len(t) = 1 /\ t[1] = label
        BY DEF t
      <3>2. /\ Len(code) \in Nat /\ Len(code \o t) = Len(code) + Len(t)
            /\ \A i \in 1..Len(t) : (code \o t)[Len(code) + i] = t[i]
        BY <1>3, <1>4, Concatenated
      <3> HIDE DEF label
      <3> QED BY <3>1, <3>2
    <2>4. lo \in Nat /\ lo + 3 <= Len(code) /\ lo \in 1..top
      BY <2>1, <2>3 DEF Segment
    <2>5. LabelsLaid(code \o t, lo, top, f, bb - 1)
      <3>1. top \in Nat /\ Len(code) <= top
        BY <2>3
      <3> HIDE DEF top
      <3> QED BY <1>3, <1>4, <2>1, <2>3, <2>4, <3>1, LabelsKept
    <2>6. LabelsLaid(code \o t, lo, top, f, bb)
      <3> SUFFICES ASSUME NEW b \in 1..bb
                   PROVE  \E i \in (lo + 4)..top : (code \o t)[i] = Label(f.blocks[b].name)
        BY DEF LabelsLaid
      <3>1. CASE b = bb
        <4>1. top \in (lo + 4)..top
          BY <2>3, <2>4
        <4> HIDE DEF top
        <4> QED BY <2>3, <3>1, <4>1
      <3>2. CASE b # bb
        <4>1. b \in 1..(bb - 1)
          BY <1>2, <3>2
        <4> QED BY <2>5, <4>1 DEF LabelsLaid
      <3> QED BY <3>1, <3>2
    <2>7. ~Ended(f.blocks[bb], 0)
      BY DEF Ended
    <2>8. code' = code \o t /\ Len(code') = top
      BY <1>4
    <2> HIDE DEF top
    <2> QED BY <1>1, <2>2, <2>4, <2>6, <2>7, <2>8 DEF LayingMain
  <1>7. fn > MainIndex => (\E lo, hi \in 1..Len(code) : MainLaid(lo, hi))'
    <2> SUFFICES ASSUME fn > MainIndex
                 PROVE  (\E lo, hi \in 1..Len(code) : MainLaid(lo, hi))'
      OBVIOUS
    <2>1. PICK lo \in 1..Len(code), hi \in 1..Len(code) : MainLaid(lo, hi)
      BY DEF FrameLaid
    <2>2. ~(fn > Len(module))
      BY <1>2
    <2> HIDE DEF t
    <2>3. /\ lo \in 1..Len(code') /\ hi \in 1..Len(code')
          /\ MainLaid(lo, hi)'
      BY <1>1, <1>3, <1>4, <2>1, <2>2, MainLaidKept
    <2> QED BY <2>3
  <1>8. MainIndex' = MainIndex
    BY <1>1 DEF MainIndex
  <1> HIDE DEF t, label
  <1> QED BY <1>1, <1>6, <1>7, <1>8 DEF FrameLaid

LEMMA InstructionLaid ==
  ASSUME HasMain, IInv, FrameLaid, LowerInstruction
  PROVE  FrameLaid'
  <1> DEFINE f == function
             code == m_instructions
  <1>1. /\ fn' = fn /\ module' = module /\ phase = "inst" /\ phase' = "inst"
        /\ bb' = bb /\ function' = function
        /\ currentInstIndex' = currentInstIndex + 1
        /\ currentInstIndex < Len(insts)
    BY DEF LowerInstruction, LowerAlloca, LowerStore, LowerLoad, LowerArithmetic,
           LowerRet, LowerBr, LowerCondBr, Lowering, Lowered, function
  <1>2. fn \in 1..Len(module) /\ Len(module) \in Nat /\ bb \in 1..Len(f.blocks)
    BY <1>1, InstType, ModulesAssumption DEF IInv
  <1>3. code \in Seq(MachineInsts)
    BY DEF IInv, TypeOK
  <1>6. PICK t \in Seq(MachineInsts) : Emitted(t, f, inst.op) /\ code' = code \o t
    BY LowerInstructionEmits
  <1>7. fn = MainIndex => LayingMain'
    <2> SUFFICES ASSUME fn = MainIndex PROVE LayingMain'
      OBVIOUS
    <2>1. PICK lo \in 1..Len(code) :
            /\ Segment(code, lo, Len(code), f)
            /\ LabelsLaid(code, lo, Len(code), f, bb)
      BY <1>1 DEF FrameLaid, LayingMain
    <2> DEFINE all == code \o t
    <2>2. /\ Segment(all, lo, Len(all), f)
          /\ inst.op \in Terminators => Leaves(all[Len(all)])
      <3>1. CASE /\ AllOrdinary(t, f)
                 /\ inst.op \in Terminators => Len(t) > 0 /\ Leaves(t[Len(t)])
        <4>1. Segment(all, lo, Len(all), f)
          BY <1>3, <2>1, <3>1, SegmentGrows
        <4>2. ASSUME inst.op \in Terminators
              PROVE  Leaves(all[Len(all)])
          <5>1. /\ Len(t) \in Nat /\ Len(code) \in Nat /\ Len(all) = Len(code) + Len(t)
                /\ \A i \in 1..Len(t) : all[Len(code) + i] = t[i]
            BY <1>3, Concatenated
          <5>2. Len(t) \in 1..Len(t)
            BY <3>1, <4>2, <5>1
          <5>3. all[Len(all)] = t[Len(t)]
            BY <5>1, <5>2
          <5> QED BY <3>1, <4>2, <5>3
        <4> QED BY <4>1, <4>2
      <3>2. ASSUME NEW u \in Seq(MachineInsts), t = u \o emitEpilogue, AllOrdinary(u, f)
            PROVE  Segment(all, lo, Len(all), f) /\ Leaves(all[Len(all)])
        <4>1. Segment(code \o u, lo, Len(code \o u), f)
          BY <1>3, <2>1, <3>2, SegmentGrows
        <4>2. code \o u \in Seq(MachineInsts)
          BY <1>3, Concatenated
        <4>3. all = (code \o u) \o emitEpilogue
          BY <1>3, <3>2, EpilogueType
        <4> HIDE DEF all
        <4> QED BY <4>1, <4>2, <4>3, SegmentEnds
      <3> QED BY <1>6, <3>1, <3>2 DEF Emitted
    <2>3. Len(code) \in Nat /\ Len(all) \in Nat /\ Len(code) <= Len(all)
      <3>1. Len(t) \in Nat /\ Len(code) \in Nat /\ Len(all) = Len(code) + Len(t)
        BY <1>3, Concatenated
      <3> QED BY <3>1
    <2>4. LabelsLaid(all, lo, Len(all), f, bb)
      <3>1. lo \in Nat
        BY <2>1 DEF Segment
      <3> QED BY <1>3, <2>1, <2>3, <3>1, LabelsKept
    <2>5. Ended(f.blocks[bb], currentInstIndex + 1) => inst.op \in Terminators
      BY DEF Ended, inst, insts, function
    <2>6. lo \in 1..Len(all)
      BY <2>3
    <2>7. code' = all
      BY <1>6
    <2> HIDE DEF all
    <2> QED BY <1>1, <2>2, <2>4, <2>5, <2>6, <2>7 DEF LayingMain
  <1>8. fn > MainIndex => (\E lo, hi \in 1..Len(code) : MainLaid(lo, hi))'
    <2> SUFFICES ASSUME fn > MainIndex
                 PROVE  (\E lo, hi \in 1..Len(code) : MainLaid(lo, hi))'
      OBVIOUS
    <2>1. PICK lo \in 1..Len(code), hi \in 1..Len(code) : MainLaid(lo, hi)
      BY DEF FrameLaid
    <2>2. ~(fn > Len(module))
      BY <1>2
    <2>3. /\ lo \in 1..Len(code') /\ hi \in 1..Len(code')
          /\ MainLaid(lo, hi)'
      BY <1>1, <1>3, <1>6, <2>1, <2>2, MainLaidKept
    <2> QED BY <2>3
  <1>9. MainIndex' = MainIndex
    BY <1>1 DEF MainIndex
  <1> QED BY <1>1, <1>7, <1>8, <1>9 DEF FrameLaid

LEMMA BlockEnded ==
  ASSUME HasMain, IInv, FrameLaid, EndBasicBlock
  PROVE  FrameLaid'
  <1> DEFINE f == function
             code == m_instructions
  <1>1. /\ fn' = fn /\ module' = module /\ phase = "inst" /\ phase' = "block"
        /\ bb' = bb + 1 /\ function' = function /\ ra' = ra /\ code' = code
        /\ currentInstIndex = Len(f.blocks[bb].insts)
    BY DEF EndBasicBlock, function, insts
  <1>2. bb \in 1..Len(f.blocks) /\ bb + 1 - 1 = bb /\ bb + 1 <= Len(f.blocks) + 1
    <2>1. Len(f.blocks) \in Nat
      BY <1>1, FunctionType DEF IInv, TypeOK
    <2> QED BY <1>1, <2>1, InstType
  <1>3. fn = MainIndex => LayingMain'
    <2> SUFFICES ASSUME fn = MainIndex PROVE LayingMain'
      OBVIOUS
    <2>1. PICK lo \in 1..Len(code) :
            /\ Segment(code, lo, Len(code), f)
            /\ LabelsLaid(code, lo, Len(code), f, bb)
            /\ Ended(f.blocks[bb], currentInstIndex) => Leaves(code[Len(code)])
      BY <1>1 DEF FrameLaid, LayingMain
    <2> QED BY <1>1, <1>2, <2>1 DEF LayingMain
  <1>4. MainIndex' = MainIndex /\ Main' = Main
    BY <1>1 DEF MainIndex, Main
  <1>5. fn > MainIndex => (\E lo, hi \in 1..Len(code) : MainLaid(lo, hi))'
    BY <1>1, <1>4 DEF FrameLaid, MainLaid
  <1> QED BY <1>1, <1>2, <1>3, <1>4, <1>5 DEF FrameLaid

LEMMA FunctionEnded ==
  ASSUME HasMain, MainIsLeft, IInv, FrameLaid, EndFunction
  PROVE  FrameLaid'
  <1> DEFINE f == function
             code == m_instructions
  <1>1. /\ fn' = fn + 1 /\ module' = module /\ phase = "block"
        /\ phase' = "function" /\ code' = code /\ bb > Len(f.blocks)
    BY DEF EndFunction
  <1>2. fn \in 1..Len(module) /\ Len(module) \in Nat /\ Len(f.blocks) \in Nat
    BY <1>1, FunctionType, ModulesAssumption DEF IInv, TypeOK
  <1>3. bb - 1 = Len(f.blocks) /\ (bb > 1 <=> Len(f.blocks) > 0)
    BY <1>1, <1>2 DEF FrameLaid, IInv, TypeOK
  <1>4. MainIndex' = MainIndex /\ Main' = Main /\ MainIndex \in 1..Len(module)
        /\ module[MainIndex].name = "main" /\ Main = module[MainIndex]
    BY <1>1, MainIndexed DEF MainIndex, Main, IInv
  <1>5. fn = MainIndex => (\E lo, hi \in 1..Len(code) : MainLaid(lo, hi))'
    <2> SUFFICES ASSUME fn = MainIndex
                 PROVE  (\E lo, hi \in 1..Len(code) : MainLaid(lo, hi))'
      OBVIOUS
    <2>1. f = Main
      BY <1>4 DEF function
    <2>2. PICK lo \in 1..Len(code) :
            /\ Segment(code, lo, Len(code), f)
            /\ LabelsLaid(code, lo, Len(code), f, bb - 1)
            /\ bb > 1 /\ Ended(f.blocks[bb-1], Len(f.blocks[bb-1].insts))
                 => Leaves(code[Len(code)])
      BY <1>1 DEF FrameLaid, LayingMain
    <2>3. \/ fn = Len(module)
          \/ /\ Len(f.blocks) > 0
             /\ Ended(f.blocks[Len(f.blocks)], Len(f.blocks[Len(f.blocks)].insts))
      BY <1>2, <1>4 DEF MainIsLeft, IInv, function
    <2>4. Leaves(code[Len(code)]) \/ fn + 1 > Len(module)
      <3>1. CASE fn = Len(module)
        BY <1>2, <3>1
      <3>2. CASE /\ Len(f.blocks) > 0
                 /\ Ended(f.blocks[Len(f.blocks)], Len(f.blocks[Len(f.blocks)].insts))
        BY <1>3, <2>2, <3>2
      <3> QED BY <2>3, <3>1, <3>2
    <2>5. Len(code) \in 1..Len(code)
      <3>1. Len(code) \in Nat
        BY DEF IInv, TypeOK
      <3> QED BY <2>2, <3>1
    <2>6. MainLaid(lo, Len(code))'
      BY <1>1, <1>3, <1>4, <2>1, <2>2, <2>4 DEF MainLaid
    <2> QED BY <1>1, <2>2, <2>5, <2>6
  <1>6. fn > MainIndex => (\E lo, hi \in 1..Len(code) : MainLaid(lo, hi))'
    <2> SUFFICES ASSUME fn > MainIndex
                 PROVE  (\E lo, hi \in 1..Len(code) : MainLaid(lo, hi))'
      OBVIOUS
    <2>1. PICK lo \in 1..Len(code), hi \in 1..Len(code) : MainLaid(lo, hi)
      BY DEF FrameLaid
    <2>2. fn > Len(module) => fn + 1 > Len(module)
      BY <1>2
    <2>3. MainLaid(lo, hi)'
      BY <1>1, <1>4, <2>1, <2>2 DEF MainLaid
    <2> QED BY <1>1, <2>3
  <1>7. fn + 1 > MainIndex => fn = MainIndex \/ fn > MainIndex
    BY <1>2, <1>4
  <1> QED BY <1>1, <1>4, <1>5, <1>6, <1>7 DEF FrameLaid

LEMMA NextFrameLaid ==
  ASSUME HasMain, MainIsLeft, IInv, FrameLaid, [Next]_vars
  PROVE  FrameLaid'
  <1>1. CASE lowerFunction
    BY <1>1, FunctionBegun
  <1>2. CASE lowerBasicBlock
    BY <1>2, BlockBegun
  <1>3. CASE LowerInstruction
    BY <1>3, InstructionLaid
  <1>4. CASE EndBasicBlock
    BY <1>4, BlockEnded
  <1>5. CASE EndFunction
    BY <1>5, FunctionEnded
  <1>6. ASSUME module' = module, fn' = fn, m_instructions' = m_instructions,
               phase' \in {"terminated", "done"},
               phase' = "done" => fn > Len(module)
        PROVE  FrameLaid'
    <2>1. MainIndex' = MainIndex /\ Main' = Main
      BY <1>6 DEF MainIndex, Main
    <2>2. fn > MainIndex => (\E lo, hi \in 1..Len(m_instructions) : MainLaid(lo, hi))'
      BY <1>6, <2>1 DEF FrameLaid, MainLaid
    <2> QED BY <1>6, <2>1, <2>2 DEF FrameLaid
  <1>7. CASE EndModule
    BY <1>6, <1>7 DEF EndModule
  <1>8. CASE Terminate
    BY <1>6, <1>8 DEF Terminate
  <1>9. CASE UNCHANGED vars
    BY <1>9 DEF vars, FrameLaid, LayingMain, MainLaid, MainIndex, Main, function
  <1> QED BY <1>1, <1>2, <1>3, <1>4, <1>5, <1>7, <1>8, <1>9 DEF Next

-----------------------------------------------------------------------------
(* Where control goes in the code of a function.                           *)

LEMMA EpilogueIsNotOrdinary ==
  ASSUME NEW f
  PROVE  /\ ~Ordinary(Mov(Reg("rsp"), Reg("rbp")), f)
         /\ \A ops : /\ ~Ordinary(MachineInst("POP", ops), f)
                     /\ ~Ordinary(MachineInst("RET", ops), f)
  <1>1. "rsp" \notin Registers
    BY PoolAssumption DEF Registers, Scratch
  <1>2. ~Destination(Reg("rsp"))
    BY <1>1 DEF Destination, Reg
  <1> QED BY <1>2 DEF Ordinary, Mov, MachineInst

(* What comes after an ordinary instruction, or after the prologue, is in  *)
(* the body and does not belong to the rest of an epilogue.                *)
LEMMA FallsThrough ==
  ASSUME NEW code \in Seq(MachineInsts), NEW lo, NEW hi, NEW f,
         Segment(code, lo, hi, f), Leaves(code[hi]) \/ hi = Len(code),
         NEW i \in (lo + 3)..hi, i = lo + 3 \/ Ordinary(code[i], f),
         ~Leaves(code[i])
  PROVE  \/ i + 1 \in (lo + 4)..hi /\ code[i + 1].kind \notin {"POP", "RET"}
         \/ i = hi /\ hi = Len(code)
  <1>1. lo \in Nat \ {0} /\ hi \in Nat /\ lo + 3 <= hi
    BY DEF Segment
  <1>2. CASE i = hi
    BY <1>2
  <1>3. CASE i # hi
    <2>1. i + 1 \in (lo + 4)..hi /\ i + 1 - 2 = i - 1
      BY <1>1, <1>3
    <2>2. CASE Ordinary(code[i + 1], f)
      <3>1. code[i + 1].kind \in {"LABEL", "CMP", "MOV", "ADD", "SUB", "JE", "JMP"}
        BY <2>2 DEF Ordinary
      <3> QED BY <2>1, <3>1
    <2>3. ASSUME NEW j \in (lo + 4)..(hi - 2), j \in (i - 1)..(i + 1),
                 EpilogueAt(code, j)
          PROVE  code[i + 1].kind \notin {"POP", "RET"}
      <3>1. CASE j = i + 1
        BY <2>3, <3>1 DEF EpilogueAt, Mov, MachineInst
      <3>2. CASE j # i + 1
        <4>1. i \in (lo + 4)..hi /\ (j = i \/ j + 1 = i)
          BY <1>1, <2>3, <3>2
        <4>2. Ordinary(code[i], f)
          BY <1>1, <4>1
        <4>3. \/ code[i] = Mov(Reg("rsp"), Reg("rbp"))
              \/ code[i] = MachineInst("POP", <<Reg("rbp")>>)
          BY <2>3, <4>1 DEF EpilogueAt
        <4> QED BY <4>2, <4>3, EpilogueIsNotOrdinary
      <3> QED BY <3>1, <3>2
    <2> QED BY <2>1, <2>2, <2>3 DEF Segment
  <1> QED BY <1>2, <1>3

(* An instruction of the body is ordinary or one of an epilogue.           *)
LEMMA BodyInstruction ==
  ASSUME NEW code \in Seq(MachineInsts), NEW lo, NEW hi, NEW f,
         Segment(code, lo, hi, f), NEW i \in (lo + 4)..hi
  PROVE  \/ Ordinary(code[i], f)
         \/ /\ code[i] = Mov(Reg("rsp"), Reg("rbp"))
            /\ i + 1 \in (lo + 4)..hi /\ code[i + 1].kind = "POP"
         \/ /\ code[i] = MachineInst("POP", <<Reg("rbp")>>)
            /\ i + 1 \in (lo + 4)..hi /\ code[i + 1].kind = "RET"
         \/ code[i] = MachineInst("RET", << >>)
  <1>1. lo \in Nat \ {0} /\ hi \in Nat
    BY DEF Segment
  <1>2. CASE Ordinary(code[i], f)
    BY <1>2
  <1>3. ASSUME NEW j \in (lo + 4)..(hi - 2), j \in (i - 2)..i, EpilogueAt(code, j)
        PROVE  \/ /\ code[i] = Mov(Reg("rsp"), Reg("rbp"))
                  /\ i + 1 \in (lo + 4)..hi /\ code[i + 1].kind = "POP"
               \/ /\ code[i] = MachineInst("POP", <<Reg("rbp")>>)
                  /\ i + 1 \in (lo + 4)..hi /\ code[i + 1].kind = "RET"
               \/ code[i] = MachineInst("RET", << >>)
    <2>1. \/ i = j /\ i + 1 \in (lo + 4)..hi
          \/ i = j + 1 /\ i + 1 = j + 2 /\ i + 1 \in (lo + 4)..hi
          \/ i = j + 2
      BY <1>1, <1>3
    <2>2. /\ code[j] = Mov(Reg("rsp"), Reg("rbp"))
          /\ code[j + 1] = MachineInst("POP", <<Reg("rbp")>>)
          /\ code[j + 2] = MachineInst("RET", << >>)
          /\ code[j + 1].kind = "POP" /\ code[j + 2].kind = "RET"
      BY <1>3 DEF EpilogueAt, MachineInst
    <2> QED BY <2>1, <2>2
  <1> QED BY <1>2, <1>3 DEF Segment

(* With no label defined twice, a label is found where it was laid.        *)
LEMMA PositionFound ==
  ASSUME LabelsUnique(m_instructions), NEW name,
         NEW i \in 1..Len(m_instructions), m_instructions[i] = Label(name)
  PROVE  Position(Lbl(name)) = i
  <1> DEFINE At(j) == m_instructions[j].ops[1] = Lbl(name)
  <1>1. i \in Labels(m_instructions) /\ At(i)
    BY DEF Labels, Label, MachineInst
  <1>2. \A j \in Labels(m_instructions) : At(j) => j = i
    BY <1>1 DEF LabelsUnique
  <1>3. Position(Lbl(name)) = CHOOSE j \in Labels(m_instructions) : At(j)
    BY DEF Position
  <1> HIDE DEF At
  <1> QED BY <1>1, <1>2, <1>3

-----------------------------------------------------------------------------
(* The slots that the code names.                                          *)

LEMMA SlotsJoin ==
  ASSUME NEW s \in Seq(MachineInsts), NEW t \in Seq(MachineInsts)
  PROVE  Slots(s \o t) = Slots(s) \cup Slots(t)
  <1> DEFINE n == Len(s \o t)
  <1>1. /\ Len(s) \in Nat /\ Len(t) \in Nat /\ n = Len(s) + Len(t)
        /\ \A i \in 1..Len(s) : (s \o t)[i] = s[i]
        /\ \A i \in 1..Len(t) : (s \o t)[Len(s) + i] = t[i]
        /\ \A i \in (Len(s) + 1)..n :
             i - Len(s) \in 1..Len(t) /\ (s \o t)[i] = t[i - Len(s)]
    BY Concatenated
  <1>2. ASSUME NEW off \in Slots(s \o t) PROVE off \in Slots(s) \cup Slots(t)
    <2>1. PICK i \in 1..n : off \in SlotsOf((s \o t)[i])
      BY DEF Slots
    <2>2. CASE i \in 1..Len(s)
      BY <1>1, <2>1, <2>2 DEF Slots
    <2>3. CASE i \in (Len(s) + 1)..n
      BY <1>1, <2>1, <2>3 DEF Slots
    <2> HIDE DEF n
    <2> QED BY <1>1, <2>1, <2>2, <2>3
  <1>3. ASSUME NEW off \in Slots(s) PROVE off \in Slots(s \o t)
    <2>1. PICK i \in 1..Len(s) : off \in SlotsOf(s[i])
      BY DEF Slots
    <2>2. i \in 1..n /\ (s \o t)[i] = s[i]
      BY <1>1
    <2> QED BY <2>1, <2>2 DEF Slots
  <1>4. ASSUME NEW off \in Slots(t) PROVE off \in Slots(s \o t)
    <2>1. PICK i \in 1..Len(t) : off \in SlotsOf(t[i])
      BY DEF Slots
    <2>2. Len(s) + i \in 1..n /\ (s \o t)[Len(s) + i] = t[i]
      BY <1>1
    <2> QED BY <2>1, <2>2 DEF Slots
  <1> QED BY <1>2, <1>3, <1>4

LEMMA SlotsOfOne ==
  ASSUME NEW x
  PROVE  Slots(<< x >>) = SlotsOf(x)
  BY DEF Slots

LEMMA SlotsOfNone == Slots(<< >>) = {}
  BY DEF Slots

(* An instruction names the slots of its operands.                         *)
LEMMA SlotsOfTwo ==
  ASSUME NEW k, NEW x, NEW y
  PROVE  SlotsOf(MachineInst(k, <<x, y>>)) = SlotOf(x) \cup SlotOf(y)
  <1>1. MachineInst(k, <<x, y>>).ops = <<x, y>>
    BY DEF MachineInst
  <1>2. ToSet(<<x, y>>) = {x, y}
    BY DEF ToSet
  <1> QED BY <1>1, <1>2 DEF SlotsOf, SlotOf

LEMMA SlotsOfSingle ==
  ASSUME NEW k, NEW x
  PROVE  SlotsOf(MachineInst(k, <<x>>)) = SlotOf(x)
  <1>1. MachineInst(k, <<x>>).ops = <<x>>
    BY DEF MachineInst
  <1>2. ToSet(<<x>>) = {x}
    BY DEF ToSet
  <1> QED BY <1>1, <1>2 DEF SlotsOf, SlotOf

LEMMA SlotsOfNothing ==
  ASSUME NEW k
  PROVE  SlotsOf(MachineInst(k, << >>)) = {}
  BY DEF MachineInst, ToSet, SlotsOf

LEMMA NoSlot ==
  /\ \A r : SlotOf(Reg(r)) = {}
  /\ \A n : SlotOf(Imm(n)) = {}
  /\ \A n : SlotOf(Lbl(n)) = {}
  BY DEF SlotOf, Reg, Imm, Lbl

LEMMA SlotOfFinite ==
  ASSUME NEW o
  PROVE  IsFiniteSet(SlotOf(o))
  BY FS_EmptySet, FS_Singleton DEF SlotOf

LEMMA SlotsOfMov ==
  ASSUME NEW x, NEW y
  PROVE  SlotsOf(Mov(x, y)) = SlotOf(x) \cup SlotOf(y)
  BY SlotsOfTwo DEF Mov

(* What opens and closes a function names no slots.                        *)
LEMMA NoSlotsInFrame ==
  /\ \A name : Slots(emitPrologue(name)) = {}
  /\ Slots(emitEpilogue) = {}
  <1>1. ASSUME NEW name PROVE Slots(emitPrologue(name)) = {}
    <2>1. /\ SlotsOf(Label(name)) = {}
          /\ SlotsOf(MachineInst("PUSH", <<Reg("rbp")>>)) = {}
          /\ SlotsOf(Mov(Reg("rbp"), Reg("rsp"))) = {}
          /\ SlotsOf(MachineInst("SUB", <<Reg("rsp"), Imm(FrameBytes)>>)) = {}
      BY NoSlot, SlotsOfSingle, SlotsOfTwo, SlotsOfMov DEF Label
    <2> QED BY <2>1 DEF Slots, emitPrologue
  <1>2. Slots(emitEpilogue) = {}
    <2>1. /\ SlotsOf(Mov(Reg("rsp"), Reg("rbp"))) = {}
          /\ SlotsOf(MachineInst("POP", <<Reg("rbp")>>)) = {}
          /\ SlotsOf(MachineInst("RET", << >>)) = {}
      BY NoSlot, SlotsOfSingle, SlotsOfNothing, SlotsOfMov
    <2> QED BY <2>1 DEF Slots, emitEpilogue
  <1> QED BY <1>1, <1>2

(* Placing a value adds the slot of the operand that it becomes, if any.   *)
LEMMA PlaceNamesSlot ==
  ASSUME NEW a, Sound(a), SlotsCounted(a), NEW o \in Operands(Values)
  PROVE  /\ SlotsCounted(Place(a, o))
         /\ SlotSet(Place(a, o)) = SlotSet(a) \cup SlotOf(OperandIn(Place(a, o), o))
  <1> DEFINE b == Place(a, o)
             x == OperandIn(b, o)
  <1>1. ASSUME NEW off \in SlotOf(x) PROVE off \in SlotSet(b)
    <2>1. x.kind = "mem" /\ off = x.off
      BY <1>1 DEF SlotOf
    <2>2. ~o.imm /\ b.valueToRegister[o.id] = NoReg
      BY <2>1 DEF OperandIn, Imm, Reg
    <2>3. x = Mem(b.stackOffsets[o.id])
      BY <2>2 DEF OperandIn
    <2>4. off = b.stackOffsets[o.id] /\ o.id \in Values
      BY <2>1, <2>2, <2>3, OperandTypes DEF Mem
    <2>5. Destination(x)
      BY PlacedDestination
    <2>6. off # 0
      BY <2>1, <2>5 DEF Destination
    <2> HIDE DEF b
    <2> QED BY <2>4, <2>6 DEF SlotSet, Spilled
  <1>2. CASE b = a
    BY <1>1, <1>2
  <1>3. CASE b = TakeRegister(a, o.id)
    <2>1. /\ b.stackOffsets = a.stackOffsets
          /\ b.currentStackOffset = a.currentStackOffset
      BY <1>3 DEF TakeRegister, Sound, Allocations
    <2>2. Spilled(b) = Spilled(a) /\ SlotSet(b) = SlotSet(a)
      BY <2>1 DEF Spilled, SlotSet
    <2> HIDE DEF b, x
    <2>3. SlotsCounted(b) /\ SlotSet(b) = SlotSet(a) \cup SlotOf(x)
      BY <1>1, <2>1, <2>2 DEF SlotsCounted
    <2> QED BY <2>3 DEF b, x
  <1>4. CASE /\ b = Spill(a, o.id) /\ ~o.imm /\ o.id \in Values
             /\ a.stackOffsets[o.id] = 0 /\ a.valueToRegister[o.id] = NoReg
    <2> DEFINE S == Spilled(a)
               c == a.currentStackOffset
    <2>1. /\ c \in Int /\ c <= 0 /\ a.stackOffsets \in [Values -> Int]
          /\ b.currentStackOffset = c - 4
          /\ b.stackOffsets = [a.stackOffsets EXCEPT ![o.id] = c - 4]
          /\ b.valueToRegister = a.valueToRegister
      BY <1>4, SpillType DEF Sound, Allocations, OwnSlots, Spill
    <2>2. /\ Spilled(b) = S \cup {o.id} /\ o.id \notin S
          /\ SlotSet(b) = SlotSet(a) \cup {c - 4}
      <3>1. /\ b.stackOffsets[o.id] = c - 4 /\ c - 4 # 0
            /\ \A v \in Values \ {o.id} : b.stackOffsets[v] = a.stackOffsets[v]
        BY <1>4, <2>1
      <3> HIDE DEF b, c
      <3>2. Spilled(b) = S \cup {o.id} /\ o.id \notin S
        BY <1>4, <3>1 DEF Spilled
      <3> QED BY <1>4, <3>1, <3>2 DEF SlotSet, Spilled
    <2>3. SlotOf(x) = {c - 4}
      <3>1. b.valueToRegister[o.id] = NoReg /\ b.stackOffsets[o.id] = c - 4
        BY <1>4, <2>1
      <3>2. x = Mem(c - 4)
        BY <1>4, <3>1 DEF OperandIn
      <3> HIDE DEF x, c
      <3> QED BY <3>2 DEF Mem, SlotOf
    <2>4. IsFiniteSet(S) /\ c = -(4 * Cardinality(S))
      BY DEF SlotsCounted
    <2> HIDE DEF S, b, c, x
    <2>5. /\ IsFiniteSet(S \cup {o.id})
          /\ Cardinality(S \cup {o.id}) = Cardinality(S) + 1
          /\ Cardinality(S) \in Nat
      BY <2>2, <2>4, FS_AddElement, FS_CardinalityType
    <2>6. b.currentStackOffset = -(4 * Cardinality(Spilled(b)))
      BY <2>1, <2>2, <2>4, <2>5
    <2>7. SlotsCounted(b)
      BY <2>2, <2>5, <2>6 DEF SlotsCounted
    <2> QED BY <2>2, <2>3, <2>7 DEF b, x
  <1> QED BY <1>2, <1>3, <1>4, OperandTypes DEF Place

LEMMA ReleaseNamesNone ==
  ASSUME NEW a, Sound(a), SlotsCounted(a), NEW o \in Operands(Values)
  PROVE  SlotsCounted(Release(a, o)) /\ SlotSet(Release(a, o)) = SlotSet(a)
  <1>1. /\ Release(a, o).stackOffsets = a.stackOffsets
        /\ Release(a, o).currentStackOffset = a.currentStackOffset
    BY DEF Release, Sound, Allocations
  <1>2. Spilled(Release(a, o)) = Spilled(a)
    BY <1>1 DEF Spilled
  <1> QED BY <1>1, <1>2 DEF SlotsCounted, SlotSet

LEMMA StoreNames ==
  ASSUME NEW x \in MachineOperands, NEW y \in MachineOperands
  PROVE  Slots(StoreCode(x, y)) = SlotOf(x) \cup SlotOf(y)
  <1>1. /\ SlotsOf(Mov(Reg("eax"), y)) = SlotOf(y)
        /\ SlotsOf(Mov(x, Reg("eax"))) = SlotOf(x)
        /\ SlotsOf(Mov(x, y)) = SlotOf(x) \cup SlotOf(y)
    BY SlotsOfMov, NoSlot
  <1> QED BY <1>1 DEF StoreCode, Slots

LEMMA ArithmeticNames ==
  ASSUME NEW k \in {"ADD", "SUB"}, NEW x \in MachineOperands,
         NEW y \in MachineOperands, NEW z \in MachineOperands
  PROVE  Slots(ArithmeticCode(k, x, y, z)) = SlotOf(x) \cup SlotOf(y) \cup SlotOf(z)
  <1> DEFINE first == << Mov(Reg("eax"), x) >>
             viaEbx == << Mov(Reg("ebx"), y),
                          MachineInst(k, <<Reg("eax"), Reg("ebx")>>) >>
             direct == << MachineInst(k, <<Reg("eax"), y>>) >>
             last == << Mov(z, Reg("eax")) >>
             middle == IF y.kind = "mem" THEN viaEbx ELSE direct
  <1>1. /\ SlotsOf(Mov(Reg("eax"), x)) = SlotOf(x)
        /\ SlotsOf(Mov(Reg("ebx"), y)) = SlotOf(y)
        /\ SlotsOf(MachineInst(k, <<Reg("eax"), Reg("ebx")>>)) = {}
        /\ SlotsOf(MachineInst(k, <<Reg("eax"), y>>)) = SlotOf(y)
        /\ SlotsOf(Mov(z, Reg("eax"))) = SlotOf(z)
    BY SlotsOfMov, SlotsOfTwo, NoSlot
  <1>2. /\ Slots(first) = SlotOf(x) /\ Slots(last) = SlotOf(z)
        /\ Slots(viaEbx) = SlotOf(y) /\ Slots(direct) = SlotOf(y)
    BY <1>1 DEF Slots
  <1>3. /\ first \in Seq(MachineInsts) /\ viaEbx \in Seq(MachineInsts)
        /\ direct \in Seq(MachineInsts) /\ last \in Seq(MachineInsts)
    <2>1. /\ Mov(Reg("eax"), x) \in MachineInsts /\ Mov(Reg("ebx"), y) \in MachineInsts
          /\ Mov(z, Reg("eax")) \in MachineInsts
      BY MovType, RegTypes
    <2>2. /\ MachineInst(k, <<Reg("eax"), Reg("ebx")>>) \in MachineInsts
          /\ MachineInst(k, <<Reg("eax"), y>>) \in MachineInsts
      BY MachineInstTypes, RegTypes DEF X86InstKind
    <2> QED BY <2>1, <2>2
  <1>4. ArithmeticCode(k, x, y, z) = (first \o middle) \o last
    BY DEF ArithmeticCode
  <1>5. middle \in Seq(MachineInsts) /\ Slots(middle) = SlotOf(y)
    BY <1>2, <1>3
  <1> HIDE DEF first, middle, last
  <1>6. /\ first \o middle \in Seq(MachineInsts)
        /\ Slots(first \o middle) = SlotOf(x) \cup SlotOf(y)
    BY <1>2, <1>3, <1>5, SlotsJoin, Concatenated
  <1> QED BY <1>2, <1>3, <1>4, <1>6, SlotsJoin

LEMMA TargetLabels ==
  ASSUME IInv, phase = "inst", currentInstIndex < Len(insts),
         NEW k \in 1..Len(inst.targets)
  PROVE  BlockLabel(inst.targets[k]) \in MachineOperands
  <1>1. /\ fn \in 1..Len(module) /\ bb \in 1..Len(function.blocks)
        /\ insts \in Seq(Instructions(Values, Nat \ {0}))
        /\ currentInstIndex \in 0..Len(insts)
    BY InstType
  <1>2. currentInstIndex + 1 \in 1..Len(insts)
    BY <1>1
  <1>3. BranchesInside(function)
    BY <1>1, ModulesAssumption DEF IInv, function
  <1>4. inst.targets[k] \in 1..Len(function.blocks)
    BY <1>1, <1>2, <1>3 DEF BranchesInside, inst, insts, function
  <1>5. function.blocks[inst.targets[k]].name \in STRING
    BY <1>4, InstType
  <1> QED BY <1>5, RegTypes DEF BlockLabel

(* An instruction names in its code the slots that it hands out, and such  *)
(* slots only as the function has.                                         *)
LEMMA InstructionNamesSlots ==
  ASSUME IInv, SlotsCounted(ra), LowerInstruction
  PROVE  /\ SlotsCounted(ra')
         /\ \E t \in Seq(MachineInsts) :
              /\ m_instructions' = m_instructions \o t
              /\ IsFiniteSet(Slots(t))
              /\ SlotSet(ra') = SlotSet(ra) \cup Slots(t)
  <1> DEFINE Good(a) == Sound(a) /\ SlotsCounted(a)
             Outcome(a, t) == /\ Good(a) /\ t \in Seq(MachineInsts)
                              /\ IsFiniteSet(Slots(t))
                              /\ SlotSet(a) = SlotSet(ra) \cup Slots(t)
  <1>1. phase = "inst" /\ currentInstIndex < Len(insts)
    BY DEF LowerInstruction, LowerAlloca, LowerStore, LowerLoad,
           LowerArithmetic, LowerRet, LowerBr, LowerCondBr, Lowering
  <1>2. inst \in Instructions(Values, Nat \ {0}) /\ Sound(ra)
    BY <1>1, InstType DEF IInv
  <1>3. ASSUME NEW a, NEW o, Good(a), o \in Operands(Values)
        PROVE  /\ Good(Place(a, o)) /\ OperandIn(Place(a, o), o) \in MachineOperands
               /\ SlotSet(Place(a, o)) = SlotSet(a) \cup SlotOf(OperandIn(Place(a, o), o))
               /\ Good(Release(a, o)) /\ SlotSet(Release(a, o)) = SlotSet(a)
    BY <1>3, PlaceSound, ReleaseSound, SoundOperand, PlaceNamesSlot, ReleaseNamesNone
  <1>4. ASSUME NEW a, NEW t, Outcome(a, t), Lowered(a, t)
        PROVE  /\ SlotsCounted(ra')
               /\ \E u \in Seq(MachineInsts) :
                    /\ m_instructions' = m_instructions \o u
                    /\ IsFiniteSet(Slots(u))
                    /\ SlotSet(ra') = SlotSet(ra) \cup Slots(u)
    BY <1>4 DEF Lowered
  <1>5. Good(ra)
    BY <1>2
  <1>6. \A x, y, z : /\ IsFiniteSet(SlotOf(x))
                     /\ IsFiniteSet(SlotOf(x) \cup SlotOf(y))
                     /\ IsFiniteSet(SlotOf(x) \cup SlotOf(y) \cup SlotOf(z))
    BY SlotOfFinite, FS_Union
  <1>7. ASSUME NEW t \in Seq(MachineInsts), Slots(t) = {}
        PROVE  Outcome(ra, t)
    BY <1>5, <1>7, FS_EmptySet
  <1>8. CASE LowerAlloca
    <2>0. << >> \in Seq(MachineInsts)
      OBVIOUS
    <2> HIDE DEF Outcome
    <2>1. Outcome(ra, << >>)
      BY ONLY <1>7, <2>0, SlotsOfNone
    <2>2. Lowered(ra, << >>)
      BY <1>8 DEF LowerAlloca
    <2> QED BY <1>4, <2>1, <2>2
  <1>9. CASE LowerStore
    <2> DEFINE val == inst.args[1]
               ptr == inst.args[2]
               a1 == Place(ra, val)
               a2 == Place(a1, ptr)
               code == StoreCode(OperandIn(a2, ptr), OperandIn(a1, val))
               end == Release(Release(a2, val), ptr)
    <2>1. val \in Operands(Values) /\ ptr \in Operands(Values)
      BY <1>2, <1>9, InstructionTypes DEF LowerStore, Lowering
    <2>2. Lowered(end, code)
      BY <1>9 DEF LowerStore
    <2> HIDE DEF val, ptr, Good
    <2>3. /\ Good(a1) /\ OperandIn(a1, val) \in MachineOperands
          /\ SlotSet(a1) = SlotSet(ra) \cup SlotOf(OperandIn(a1, val))
      BY <1>3, <1>5, <2>1
    <2> HIDE DEF a1
    <2>4. /\ Good(a2) /\ OperandIn(a2, ptr) \in MachineOperands
          /\ SlotSet(a2) = SlotSet(a1) \cup SlotOf(OperandIn(a2, ptr))
      BY <1>3, <2>1, <2>3
    <2> HIDE DEF a2
    <2>5. Good(end) /\ SlotSet(end) = SlotSet(a2)
      BY <1>3, <2>1, <2>4
    <2>6. /\ code \in Seq(MachineInsts)
          /\ Slots(code) = SlotOf(OperandIn(a2, ptr)) \cup SlotOf(OperandIn(a1, val))
      BY <2>3, <2>4, StoreCodeType, StoreNames
    <2> HIDE DEF end, code
    <2>7. Outcome(end, code)
      BY <1>6, <2>3, <2>4, <2>5, <2>6
    <2> HIDE DEF Outcome
    <2> QED BY <1>4, <2>2, <2>7
  <1>10. CASE LowerLoad
    <2> DEFINE ptr == inst.args[1]
               dest == Ref(inst.id)
               a1 == Place(ra, ptr)
               a2 == Place(a1, dest)
               code == << Mov(Reg("eax"), OperandIn(a1, ptr)),
                          Mov(OperandIn(a2, dest), Reg("eax")) >>
               end == Release(a2, ptr)
    <2>1. ptr \in Operands(Values) /\ dest \in Operands(Values)
      BY <1>2, <1>10, InstructionTypes, RefType DEF LowerLoad, Lowering
    <2>2. Lowered(end, code)
      BY <1>10 DEF LowerLoad
    <2> HIDE DEF ptr, dest, Good
    <2>3. /\ Good(a1) /\ OperandIn(a1, ptr) \in MachineOperands
          /\ SlotSet(a1) = SlotSet(ra) \cup SlotOf(OperandIn(a1, ptr))
      BY <1>3, <1>5, <2>1
    <2> HIDE DEF a1
    <2>4. /\ Good(a2) /\ OperandIn(a2, dest) \in MachineOperands
          /\ SlotSet(a2) = SlotSet(a1) \cup SlotOf(OperandIn(a2, dest))
      BY <1>3, <2>1, <2>3
    <2> HIDE DEF a2
    <2>5. Good(end) /\ SlotSet(end) = SlotSet(a2)
      BY <1>3, <2>1, <2>4
    <2>6. code \in Seq(MachineInsts)
      BY <2>3, <2>4, MovType, RegTypes
    <2>7. Slots(code) = SlotOf(OperandIn(a1, ptr)) \cup SlotOf(OperandIn(a2, dest))
      <3>1. /\ SlotsOf(Mov(Reg("eax"), OperandIn(a1, ptr))) = SlotOf(OperandIn(a1, ptr))
            /\ SlotsOf(Mov(OperandIn(a2, dest), Reg("eax"))) = SlotOf(OperandIn(a2, dest))
        BY SlotsOfMov, NoSlot
      <3> QED BY <3>1 DEF Slots
    <2> HIDE DEF end, code
    <2>8. Outcome(end, code)
      BY <1>6, <2>3, <2>4, <2>5, <2>6, <2>7
    <2> HIDE DEF Outcome
    <2> QED BY <1>4, <2>2, <2>8
  <1>11. CASE LowerArithmetic
    <2> DEFINE lhs == inst.args[1]
               rhs == inst.args[2]
               dest == Ref(inst.id)
               a1 == Place(ra, lhs)
               a2 == Place(a1, rhs)
               a3 == Place(a2, dest)
               kind == IF inst.op = "add" THEN "ADD" ELSE "SUB"
               code == ArithmeticCode(kind, OperandIn(a1, lhs), OperandIn(a2, rhs),
                                      OperandIn(a3, dest))
               end == Release(Release(a3, lhs), rhs)
    <2>1. /\ lhs \in Operands(Values) /\ rhs \in Operands(Values)
          /\ dest \in Operands(Values)
      BY <1>2, <1>11, InstructionTypes, RefType DEF LowerArithmetic, Lowering
    <2>2. Lowered(end, code) /\ kind \in {"ADD", "SUB"}
      BY <1>11 DEF LowerArithmetic
    <2> HIDE DEF lhs, rhs, dest, kind, Good
    <2>3. /\ Good(a1) /\ OperandIn(a1, lhs) \in MachineOperands
          /\ SlotSet(a1) = SlotSet(ra) \cup SlotOf(OperandIn(a1, lhs))
      BY <1>3, <1>5, <2>1
    <2> HIDE DEF a1
    <2>4. /\ Good(a2) /\ OperandIn(a2, rhs) \in MachineOperands
          /\ SlotSet(a2) = SlotSet(a1) \cup SlotOf(OperandIn(a2, rhs))
      BY <1>3, <2>1, <2>3
    <2> HIDE DEF a2
    <2>5. /\ Good(a3) /\ OperandIn(a3, dest) \in MachineOperands
          /\ SlotSet(a3) = SlotSet(a2) \cup SlotOf(OperandIn(a3, dest))
      BY <1>3, <2>1, <2>4
    <2> HIDE DEF a3
    <2>6. Good(end) /\ SlotSet(end) = SlotSet(a3)
      BY <1>3, <2>1, <2>5
    <2>7. /\ code \in Seq(MachineInsts)
          /\ Slots(code) = SlotOf(OperandIn(a1, lhs)) \cup SlotOf(OperandIn(a2, rhs))
                             \cup SlotOf(OperandIn(a3, dest))
      <3>1. kind \in {"ADD", "SUB"}
        BY <2>2
      <3>2. /\ OperandIn(a1, lhs) \in MachineOperands
            /\ OperandIn(a2, rhs) \in MachineOperands
            /\ OperandIn(a3, dest) \in MachineOperands
        BY <2>3, <2>4, <2>5
      <3>3. code \in Seq(MachineInsts)
        BY ONLY <3>1, <3>2, ArithmeticCodeType, Zenon
      <3>4. ASSUME NEW x \in MachineOperands, NEW y \in MachineOperands,
                   NEW z \in MachineOperands
            PROVE  Slots(ArithmeticCode(kind, x, y, z))
                     = SlotOf(x) \cup SlotOf(y) \cup SlotOf(z)
        BY ONLY <3>1, ArithmeticNames
      <3> QED BY <3>2, <3>3, <3>4
    <2> HIDE DEF end, code
    <2>8. Outcome(end, code)
      <3>1. \A x, y, z : IsFiniteSet(SlotOf(x) \cup SlotOf(y) \cup SlotOf(z))
        BY <1>6
      <3>3. IsFiniteSet(Slots(code))
        BY ONLY <2>7, <3>1
      <3>2. SlotSet(end) = SlotSet(ra) \cup Slots(code)
        BY ONLY <2>3, <2>4, <2>5, <2>6, <2>7
      <3> QED BY <2>6, <2>7, <3>2, <3>3
    <2> HIDE DEF Outcome
    <2> QED BY <1>4, <2>2, <2>8
  <1>12. CASE LowerRet
    <2>1. CASE inst.args = << >>
      <3>1. Outcome(ra, emitEpilogue)
        BY <1>7, EpilogueType, NoSlotsInFrame
      <3>2. Lowered(ra, emitEpilogue)
        BY <1>12, <2>1 DEF LowerRet
      <3> HIDE DEF Outcome
      <3> QED BY <1>4, <3>1, <3>2
    <2>2. CASE inst.args # << >>
      <3> DEFINE val == inst.args[1]
                 a1 == Place(ra, val)
                 mov == << Mov(Reg("eax"), OperandIn(a1, val)) >>
                 end == Release(a1, val)
      <3>1. val \in Operands(Values)
        BY <1>2, <1>12, <2>2, InstructionTypes DEF LowerRet, Lowering
      <3>2. Lowered(end, mov \o emitEpilogue)
        BY <1>12, <2>2 DEF LowerRet
      <3> HIDE DEF val, Good
      <3>3. /\ Good(a1) /\ OperandIn(a1, val) \in MachineOperands
            /\ SlotSet(a1) = SlotSet(ra) \cup SlotOf(OperandIn(a1, val))
        BY <1>3, <1>5, <3>1
      <3> HIDE DEF a1
      <3>4. Good(end) /\ SlotSet(end) = SlotSet(a1)
        BY <1>3, <3>1, <3>3
      <3>5. mov \in Seq(MachineInsts)
        BY <3>3, MovType, RegTypes
      <3>6. Slots(mov) = SlotOf(OperandIn(a1, val))
        <4>1. SlotsOf(Mov(Reg("eax"), OperandIn(a1, val))) = SlotOf(OperandIn(a1, val))
          BY SlotsOfMov, NoSlot
        <4> QED BY <4>1 DEF Slots
      <3> HIDE DEF mov, end
      <3>7. /\ mov \o emitEpilogue \in Seq(MachineInsts)
            /\ Slots(mov \o emitEpilogue) = SlotOf(OperandIn(a1, val))
        <4>1. /\ mov \o emitEpilogue \in Seq(MachineInsts)
              /\ Slots(mov \o emitEpilogue) = Slots(mov) \cup Slots(emitEpilogue)
          BY ONLY <3>5, EpilogueType, Concatenated, SlotsJoin, Zenon
        <4>2. Slots(emitEpilogue) = {}
          BY NoSlotsInFrame
        <4> QED BY ONLY <3>6, <4>1, <4>2
      <3>8. Outcome(end, mov \o emitEpilogue)
        BY <1>6, <3>3, <3>4, <3>7
      <3> HIDE DEF Outcome
      <3> QED BY <1>4, <3>2, <3>8
    <2> QED BY <2>1, <2>2
  <1>13. \A k \in 1..Len(inst.targets) : BlockLabel(inst.targets[k]) \in MachineOperands
    BY <1>1, TargetLabels
  <1>14. CASE LowerBr
    <2> DEFINE jump == MachineInst("JMP", <<BlockLabel(inst.targets[1])>>)
    <2>1. Len(inst.targets) = 1
      BY <1>2, <1>14, InstructionTypes DEF LowerBr, Lowering
    <2>2. jump \in MachineInsts
      BY <1>13, <2>1, MachineInstTypes DEF X86InstKind
    <2>3. SlotsOf(jump) = {}
      BY SlotsOfSingle, NoSlot DEF BlockLabel
    <2>4. Lowered(ra, << jump >>)
      BY <1>14 DEF LowerBr
    <2> HIDE DEF jump
    <2>5. << jump >> \in Seq(MachineInsts) /\ Slots(<< jump >>) = {}
      BY <2>2, <2>3, SlotsOfOne
    <2>6. Outcome(ra, << jump >>)
      BY <1>7, <2>5
    <2> HIDE DEF Outcome
    <2> QED BY <1>4, <2>4, <2>6
  <1>15. CASE LowerCondBr
    <2> DEFINE cond == inst.args[1]
               a1 == Place(ra, cond)
               x == OperandIn(a1, cond)
               cmp == MachineInst("CMP", <<x, Imm(0)>>)
               je == MachineInst("JE", <<BlockLabel(inst.targets[2])>>)
               jump == MachineInst("JMP", <<BlockLabel(inst.targets[1])>>)
               end == Release(a1, cond)
    <2>1. cond \in Operands(Values) /\ Len(inst.targets) = 2
      BY <1>2, <1>15, InstructionTypes DEF LowerCondBr, Lowering
    <2>2. Lowered(end, << cmp, je, jump >>)
      BY <1>15 DEF LowerCondBr
    <2>3. je \in MachineInsts /\ jump \in MachineInsts
      BY <1>13, <2>1, MachineInstTypes DEF X86InstKind
    <2>4. SlotsOf(cmp) = SlotOf(x) /\ SlotsOf(je) = {} /\ SlotsOf(jump) = {}
      BY SlotsOfTwo, SlotsOfSingle, NoSlot DEF BlockLabel
    <2> HIDE DEF cond, Good, je, jump
    <2>5. /\ Good(a1) /\ x \in MachineOperands
          /\ SlotSet(a1) = SlotSet(ra) \cup SlotOf(x)
      BY <1>3, <1>5, <2>1
    <2> HIDE DEF a1, x
    <2>6. Good(end) /\ SlotSet(end) = SlotSet(a1)
      BY <1>3, <2>1, <2>5
    <2>7. cmp \in MachineInsts
      BY <2>5, MachineInstTypes, RegTypes DEF X86InstKind
    <2> HIDE DEF cmp, end
    <2>8. /\ << cmp, je, jump >> \in Seq(MachineInsts)
          /\ Slots(<< cmp, je, jump >>) = SlotOf(x)
      BY <2>3, <2>4, <2>7 DEF Slots
    <2>9. Outcome(end, << cmp, je, jump >>)
      BY <1>6, <2>5, <2>6, <2>8
    <2> HIDE DEF Outcome
    <2> QED BY <1>4, <2>2, <2>9
  <1> QED BY <1>8, <1>9, <1>10, <1>11, <1>12, <1>14, <1>15 DEF LowerInstruction

(* The slots of the function are no deeper than the code names slots: each *)
(* spilled value has one of its own, next to the one before it.            *)
LEMMA SlotsReach ==
  ASSUME NEW a, Sound(a), SlotsCounted(a), NEW S, IsFiniteSet(S), SlotSet(a) \subseteq S,
         NEW off \in SlotSet(a)
  PROVE  off \in Int /\ off >= -(4 * Cardinality(S))
  <1> DEFINE V == Spilled(a)
             slot == [v \in V |-> a.stackOffsets[v]]
  <1>1. IsFiniteSet(V) /\ a.currentStackOffset = -(4 * Cardinality(V))
    BY DEF SlotsCounted
  <1>2. slot \in [V -> S]
    BY DEF SlotSet
  <1>3. \A v, w \in V : v # w => slot[v] # slot[w]
    <2> SUFFICES ASSUME NEW v \in V, NEW w \in V, v # w
                 PROVE  a.stackOffsets[v] # a.stackOffsets[w]
      OBVIOUS
    <2>1. /\ v \in Values /\ w \in Values
          /\ a.stackOffsets[v] # 0 /\ a.stackOffsets[w] # 0
          /\ a.stackOffsets[v] \in Int /\ a.stackOffsets[w] \in Int
      BY DEF Spilled, Sound, Allocations
    <2>2. \/ a.stackOffsets[v] - a.stackOffsets[w] >= 4
          \/ a.stackOffsets[w] - a.stackOffsets[v] >= 4
      BY <2>1 DEF Sound, OwnSlots
    <2> QED BY <2>1, <2>2
  <1> HIDE DEF slot
  <1>4. ~(Cardinality(S) < Cardinality(V))
    BY <1>1, <1>2, <1>3, FS_PigeonHole
  <1>5. Cardinality(S) \in Nat /\ Cardinality(V) \in Nat
    BY <1>1, FS_CardinalityType
  <1>6. PICK v \in V : off = a.stackOffsets[v]
    BY DEF SlotSet
  <1>7. off \in a.currentStackOffset..(-4) /\ a.currentStackOffset \in Int
    BY <1>6 DEF Spilled, Sound, OwnSlots, Allocations
  <1> HIDE DEF V
  <1> QED BY <1>1, <1>4, <1>5, <1>7

LEMMA InitSlotsNamed ==
  ASSUME Init
  PROVE  SlotsNamed
  <1>1. phase = "function" /\ Slots(m_instructions) = {}
    BY SlotsOfNone DEF Init, Reset
  <1> QED BY <1>1, FS_EmptySet DEF SlotsNamed

(* Code that names no slots, or those of the function being lowered, may   *)
(* be added.                                                               *)
LEMMA SlotsStayNamed ==
  ASSUME IInv, IInv', SlotsNamed, NEW t \in Seq(MachineInsts), IsFiniteSet(Slots(t)),
         m_instructions' = m_instructions \o t,
         phase' \in {"block", "inst"},
         SlotsCounted(ra'), SlotSet(ra') \subseteq Slots(m_instructions) \cup Slots(t),
         Slots(t) \subseteq SlotSet(ra')
  PROVE  SlotsNamed'
  <1> DEFINE S == Slots(m_instructions)
             T == Slots(m_instructions \o t)
  <1>1. T = S \cup Slots(t) /\ IsFiniteSet(S)
    BY SlotsJoin DEF IInv, TypeOK, SlotsNamed
  <1>2. IsFiniteSet(T)
    BY <1>1, FS_Union
  <1>3. Cardinality(S) \in Nat /\ Cardinality(T) \in Nat /\ Cardinality(S) <= Cardinality(T)
    BY <1>1, <1>2, FS_CardinalityType, FS_Subset
  <1>4. Sound(ra')
    BY DEF IInv
  <1>5. \A off \in S : off \in Int /\ off >= -(4 * Cardinality(S))
    BY DEF SlotsNamed
  <1>6. SlotSet(ra') \subseteq T
    BY <1>1
  <1>7. \A off \in SlotSet(ra') : off \in Int /\ off >= -(4 * Cardinality(T))
    BY <1>2, <1>4, <1>6, SlotsReach
  <1> HIDE DEF S, T
  <1>8. ASSUME NEW off \in T
        PROVE  off \in Int /\ off >= -(4 * Cardinality(T))
    <2>1. CASE off \in S
      BY <1>3, <1>5, <2>1
    <2>2. CASE off \in Slots(t)
      BY <1>7, <2>2
    <2> QED BY <1>1, <2>1, <2>2
  <1>9. Slots(m_instructions') = T
    BY DEF T
  <1> QED BY <1>2, <1>6, <1>8, <1>9 DEF SlotsNamed, SlotsCounted, SlotSet, Spilled

LEMMA NextSlotsNamed ==
  ASSUME IInv, IInv', SlotsNamed, [Next]_vars
  PROVE  SlotsNamed'
  <1>1. CASE lowerFunction
    <2> DEFINE t == emitPrologue(function.name)
    <2>1. /\ m_instructions' = m_instructions \o t /\ phase' = "block"
          /\ ra' = EmptyAllocation /\ fn <= Len(module)
      BY <1>1 DEF lowerFunction
    <2>2. t \in Seq(MachineInsts) /\ Slots(t) = {}
      BY <2>1, FunctionType, PrologueType, NoSlotsInFrame DEF IInv
    <2>3. Spilled(EmptyAllocation) = {} /\ EmptyAllocation.currentStackOffset = 0
      BY DEF Spilled, EmptyAllocation
    <2>4. SlotsCounted(EmptyAllocation) /\ SlotSet(EmptyAllocation) = {}
      BY <2>3, FS_EmptySet DEF SlotsCounted, SlotSet
    <2> HIDE DEF t
    <2> QED BY <2>1, <2>2, <2>4, SlotsStayNamed, FS_EmptySet
  <1>2. CASE lowerBasicBlock
    <2> DEFINE label == Label(function.blocks[bb].name)
               t == << label >>
    <2>1. /\ m_instructions' = Append(m_instructions, label) /\ phase' = "inst"
          /\ ra' = ra /\ phase = "block" /\ bb <= Len(function.blocks)
      BY <1>2 DEF lowerBasicBlock
    <2>2. label \in MachineInsts /\ m_instructions \in Seq(MachineInsts)
      <3>1. bb \in 1..Len(function.blocks) /\ function.blocks[bb].name \in STRING
        BY <2>1, FunctionType DEF IInv, TypeOK
      <3> QED BY <3>1, LabelType DEF IInv, TypeOK
    <2>3. SlotsOf(label) = {}
      BY SlotsOfSingle, NoSlot DEF Label
    <2> HIDE DEF label
    <2>4. t \in Seq(MachineInsts) /\ Slots(t) = {} /\ m_instructions' = m_instructions \o t
      BY <2>1, <2>2, <2>3, SlotsOfOne
    <2>5. SlotsCounted(ra) /\ SlotSet(ra) \subseteq Slots(m_instructions)
      BY <2>1 DEF SlotsNamed
    <2> HIDE DEF t
    <2> QED BY <2>1, <2>4, <2>5, SlotsStayNamed, FS_EmptySet
  <1>3. CASE LowerInstruction
    <2>1. phase = "inst" /\ phase' = "inst"
      BY <1>3 DEF LowerInstruction, LowerAlloca, LowerStore, LowerLoad, LowerArithmetic,
                  LowerRet, LowerBr, LowerCondBr, Lowering, Lowered
    <2>2. SlotsCounted(ra) /\ SlotSet(ra) \subseteq Slots(m_instructions)
      BY <2>1 DEF SlotsNamed
    <2>3. SlotsCounted(ra')
      BY <1>3, <2>2, InstructionNamesSlots
    <2>4. PICK t \in Seq(MachineInsts) :
            /\ m_instructions' = m_instructions \o t
            /\ IsFiniteSet(Slots(t))
            /\ SlotSet(ra') = SlotSet(ra) \cup Slots(t)
      BY <1>3, <2>2, InstructionNamesSlots
    <2>5. /\ SlotSet(ra') \subseteq Slots(m_instructions) \cup Slots(t)
          /\ Slots(t) \subseteq SlotSet(ra')
      BY <2>2, <2>4
    <2> QED BY <2>1, <2>3, <2>4, <2>5, SlotsStayNamed
  <1>4. CASE /\ m_instructions' = m_instructions /\ ra' = ra
             /\ phase' \in {"block", "inst"} => phase \in {"block", "inst"}
    BY <1>4 DEF SlotsNamed, SlotsCounted, SlotSet, Spilled
  <1>5. CASE Terminate
    BY <1>4, <1>5 DEF Terminate
  <1>6. CASE EndBasicBlock
    BY <1>4, <1>6 DEF EndBasicBlock
  <1>7. CASE EndFunction
    BY <1>4, <1>7 DEF EndFunction
  <1>8. CASE EndModule
    BY <1>4, <1>8 DEF EndModule
  <1>9. CASE UNCHANGED vars
    BY <1>4, <1>9 DEF vars
  <1> QED BY <1>1, <1>2, <1>3, <1>5, <1>6, <1>7, <1>8, <1>9 DEF Next

(* As long as the code names 16 slots at most, each lies in the frame.     *)
LEMMA FewSlotsFit ==
  ASSUME SlotsNamed, FewSlots, NEW i \in 1..Len(m_instructions),
         m_instructions \in Seq(MachineInsts),
         m_instructions[i].ops # << >>, m_instructions[i].ops[1].kind = "mem"
  PROVE  m_instructions[i].ops[1].off >= -FrameBytes
  <1> DEFINE x == m_instructions[i]
             off == x.ops[1].off
             S == Slots(m_instructions)
  <1>1. x \in MachineInsts
    OBVIOUS
  <1>2. x.ops \in Seq(MachineOperands)
    BY <1>1 DEF MachineInsts
  <1>3. 1 \in DOMAIN x.ops
    BY <1>2
  <1>4. off \in SlotsOf(x)
    BY <1>3 DEF SlotsOf, ToSet
  <1>5. off \in S
    BY <1>4 DEF Slots
  <1>6. off \in Int /\ off >= -(4 * Cardinality(S)) /\ IsFiniteSet(S)
        /\ Cardinality(S) <= 16
    BY <1>5 DEF SlotsNamed, FewSlots, FrameSlots
  <1>7. Cardinality(S) \in Nat
    BY <1>6, FS_CardinalityType
  <1> HIDE DEF off, S
  <1>8. off >= -64
    BY ONLY <1>6, <1>7
  <1> QED BY <1>8 DEF FrameBytes, off

-----------------------------------------------------------------------------
(* What the processor does to the stack.                                   *)

(* Where the step from c to d stores anything, it is not below rsp.        *)
Inside(c, d) ==
  \A a \in DOMAIN d.mem :
    (a \in DOMAIN c.mem => d.mem[a] # c.mem[a]) => a >= d.regs["rsp"]

LEMMA StoredIn ==
  ASSUME NEW a, NEW x, NEW d, d.mem = Stored(cpu.mem, a, x)
  PROVE  /\ IsMap(d.mem)
         /\ Holds(d, a, x)
         /\ \A b \in DOMAIN cpu.mem :
              b # a => b \in DOMAIN d.mem /\ d.mem[b] = cpu.mem[b]
         /\ \A b \in DOMAIN d.mem :
              (b \in DOMAIN cpu.mem => d.mem[b] # cpu.mem[b]) => b = a
  BY DEF Stored, Holds, IsMap

(* An instruction of the body writes to its destination only.              *)
LEMMA WriteKeepsFrame ==
  ASSUME Shaped(cpu), NEW o, Destination(o), o.kind # "imm",
         Holds(cpu, 0, ReturnAddress), CallerSaved(cpu),
         Frame(cpu, -8 - FrameBytes, -8), NEW x,
         NEW d, d = Advance(Write(cpu, o, x))
  PROVE  /\ Shaped(d) /\ d.pc = cpu.pc + 1 /\ d.status = cpu.status
         /\ Holds(d, 0, ReturnAddress) /\ CallerSaved(d)
         /\ Frame(d, -8 - FrameBytes, -8)
         /\ (o.kind = "mem" => o.off >= -FrameBytes) => Inside(cpu, d)
  <1>1. CASE o.kind = "reg"
    <2> DEFINE r == o.reg
               regs == [cpu.regs EXCEPT ![r] = x]
    <2>1. r # "rsp" /\ r # "rbp"
      BY <1>1, PoolAssumption DEF Destination, Registers, Scratch
    <2>2. d = [pc |-> cpu.pc + 1, regs |-> regs, mem |-> cpu.mem, zf |-> cpu.zf,
               status |-> cpu.status]
      <3>1. Write(cpu, o, x) = [cpu EXCEPT !.regs = regs]
        BY <1>1 DEF Write
      <3>2. d = [Write(cpu, o, x) EXCEPT !.pc = @ + 1]
        BY DEF Advance
      <3> HIDE DEF regs
      <3> QED BY <3>1, <3>2 DEF Shaped
    <2>3. /\ regs = [q \in AllRegisters |-> regs[q]]
          /\ regs["rsp"] = cpu.regs["rsp"] /\ regs["rbp"] = cpu.regs["rbp"]
      BY <2>1 DEF Shaped, AllRegisters, Scratch
    <2> HIDE DEF regs
    <2>4. Shaped(d)
      BY <2>2, <2>3 DEF Shaped
    <2> QED BY <2>2, <2>3, <2>4 DEF Holds, CallerSaved, Frame, Inside
  <1>2. CASE o.kind = "mem"
    <2> DEFINE a == cpu.regs["rbp"] + o.off
               mem == Stored(cpu.mem, a, x)
    <2>1. d = [pc |-> cpu.pc + 1, regs |-> cpu.regs, mem |-> mem, zf |-> cpu.zf,
               status |-> cpu.status]
      <3>1. Write(cpu, o, x) = [cpu EXCEPT !.mem = mem]
        BY <1>2 DEF Write, Address
      <3>2. d = [Write(cpu, o, x) EXCEPT !.pc = @ + 1]
        BY DEF Advance
      <3> HIDE DEF mem
      <3> QED BY <3>1, <3>2 DEF Shaped
    <2>2. /\ a \in Int /\ a # 0 /\ a # -8
          /\ o.off >= -FrameBytes => a >= -8 - FrameBytes
      BY <1>2 DEF Destination, Frame, FrameBytes
    <2>3. d.mem = Stored(cpu.mem, a, x)
      BY <2>1
    <2> HIDE DEF a, mem
    <2>4. /\ IsMap(d.mem)
          /\ \A b \in DOMAIN cpu.mem :
               b # a => b \in DOMAIN d.mem /\ d.mem[b] = cpu.mem[b]
          /\ \A b \in DOMAIN d.mem :
               (b \in DOMAIN cpu.mem => d.mem[b] # cpu.mem[b]) => b = a
      <3>1. IsMap(d.mem)
        BY ONLY <2>3, StoredIn
      <3>2. \A b \in DOMAIN cpu.mem :
               b # a => b \in DOMAIN d.mem /\ d.mem[b] = cpu.mem[b]
        BY ONLY <2>3, StoredIn
      <3>3. \A b \in DOMAIN d.mem :
               (b \in DOMAIN cpu.mem => d.mem[b] # cpu.mem[b]) => b = a
        BY ONLY <2>3, StoredIn
      <3> QED BY <3>1, <3>2, <3>3
    <2>5. Shaped(d)
      BY <2>1, <2>4 DEF Shaped
    <2>6. Holds(d, 0, ReturnAddress) /\ CallerSaved(d)
      BY <2>2, <2>4 DEF CallerSaved, Holds
    <2>7. Frame(d, -8 - FrameBytes, -8) /\ d.pc = cpu.pc + 1 /\ d.status = cpu.status
      BY <2>1 DEF Frame
    <2>8. o.off >= -FrameBytes => Inside(cpu, d)
      BY <2>2, <2>4, <2>7 DEF Inside, Frame
    <2> QED BY <1>2, <2>5, <2>6, <2>7, <2>8
  <1> QED BY <1>1, <1>2 DEF Destination

-----------------------------------------------------------------------------
(* One step of the processor in the code of main.                          *)

(* What a step leaves: main goes on with the stack as it must be, or has   *)
(* returned, or has run past the last instruction of the program.          *)
After(d, lo, hi) ==
  /\ Shaped(d)
  /\ FewSlots => Inside(cpu, d)
  /\ \/ d.status = "running" /\ StackAt(d, lo, hi)
     \/ d.status = "returned" /\ Frame(d, 8, CallerRbp)
     \/ d.status = "astray"

Runs(lo, hi) ==
  /\ m_instructions \in Seq(MachineInsts)
  /\ Shaped(cpu) /\ cpu.status = "running"
  /\ LabelsUnique(m_instructions) /\ EncodableCode
  /\ lo \in 1..Len(m_instructions) /\ hi \in 1..Len(m_instructions)
  /\ MainLaid(lo, hi)
  /\ Holds(cpu, 0, ReturnAddress)
  /\ SlotsNamed

LEMMA KindDecides ==
  ASSUME Execute, cpu.pc <= Len(m_instructions), cpu.pc \in Nat,
         m_instructions \in Seq(MachineInsts)
  PROVE  /\ ci.kind = "LABEL" => ExecLabel
         /\ ci.kind = "MOV" => ExecMov
         /\ ci.kind \in {"ADD", "SUB"} => ExecArith
         /\ ci.kind = "CMP" => ExecCmp
         /\ ci.kind \in {"JE", "JMP"} => ExecJump
         /\ ci.kind = "PUSH" => ExecPush
         /\ ci.kind = "POP" => ExecPop
         /\ ci.kind = "RET" => ExecRet
  <1>1. ~RunOff
    BY LenProperties DEF RunOff
  <1> QED BY <1>1 DEF Execute, ExecLabel, ExecMov, ExecArith, ExecCmp, ExecJump,
                      ExecPush, ExecPop, ExecRet, Executing

(* A step that changes neither memory nor stack pointers.                  *)
LEMMA OnlyThePc ==
  ASSUME Shaped(cpu), NEW d, NEW q, NEW z,
         d = [cpu EXCEPT !.pc = q, !.zf = z]
  PROVE  /\ Shaped(d) /\ d.pc = q /\ d.status = cpu.status
         /\ d.regs = cpu.regs /\ d.mem = cpu.mem
  <1>1. d = [pc |-> q, regs |-> cpu.regs, mem |-> cpu.mem, zf |-> z,
             status |-> cpu.status]
    BY DEF Shaped
  <1> QED BY <1>1 DEF Shaped

LEMMA AdvanceOnly ==
  ASSUME Shaped(cpu), NEW d, d = Advance(cpu)
  PROVE  d = [cpu EXCEPT !.pc = cpu.pc + 1, !.zf = cpu.zf]
  BY DEF Advance, Shaped

(* The stack is as it was where memory and registers are.                  *)
LEMMA StackMoves ==
  ASSUME NEW d, d.regs = cpu.regs, d.mem = cpu.mem
  PROVE  /\ \A a, x : Holds(d, a, x) <=> Holds(cpu, a, x)
         /\ \A sp, bp : Frame(d, sp, bp) <=> Frame(cpu, sp, bp)
         /\ CallerSaved(d) <=> CallerSaved(cpu)
         /\ Inside(cpu, d)
  BY DEF Holds, Frame, CallerSaved, Inside

LEMMA PrologueLabel ==
  ASSUME NEW lo, NEW hi, Runs(lo, hi), Execute, cpu.pc = lo,
         Frame(cpu, 0, CallerRbp)
  PROVE  After(cpu', lo, hi)
  <1>1. ci.kind = "LABEL" /\ cpu.pc <= Len(m_instructions) /\ cpu.pc \in Nat
    BY DEF Runs, MainLaid, Segment, PrologueAt, ci, Label, MachineInst
  <1>2. cpu' = Advance(cpu)
    BY <1>1, KindDecides DEF Runs, ExecLabel
  <1>3. /\ Shaped(cpu') /\ cpu'.pc = cpu.pc + 1 /\ cpu'.status = cpu.status
        /\ cpu'.regs = cpu.regs /\ cpu'.mem = cpu.mem
    <2>1. Shaped(cpu)
      BY DEF Runs
    <2>2. cpu' = [cpu EXCEPT !.pc = cpu.pc + 1, !.zf = cpu.zf]
      BY ONLY <1>2, <2>1, AdvanceOnly
    <2> QED BY ONLY <2>1, <2>2, OnlyThePc
  <1>4. /\ Holds(cpu', 0, ReturnAddress) /\ Frame(cpu', 0, CallerRbp)
        /\ Inside(cpu, cpu')
    BY <1>3, StackMoves DEF Runs
  <1> QED BY <1>3, <1>4 DEF Runs, After, StackAt

LEMMA ProloguePush ==
  ASSUME NEW lo, NEW hi, Runs(lo, hi), Execute, cpu.pc = lo + 1,
         Frame(cpu, 0, CallerRbp)
  PROVE  After(cpu', lo, hi)
  <1>1. /\ ci.kind = "PUSH" /\ ci.ops[1] = Reg("rbp")
        /\ cpu.pc <= Len(m_instructions) /\ cpu.pc \in Nat
    BY DEF Runs, MainLaid, Segment, PrologueAt, ci, MachineInst
  <1> DEFINE x == Read(ci.ops[1])
             mem == Stored(cpu.mem, -8, x)
             regs == [cpu.regs EXCEPT !["rsp"] = -8]
  <1>2. x = CallerRbp
    BY <1>1 DEF Read, Reg, Frame
  <1>3. cpu.regs["rsp"] - 8 = -8
    BY DEF Frame
  <1>4. cpu' = Advance([cpu EXCEPT !.regs = regs, !.mem = mem])
    BY <1>1, <1>3, KindDecides DEF Runs, ExecPush
  <1> HIDE DEF x
  <1>5. /\ cpu'.pc = cpu.pc + 1 /\ cpu'.status = cpu.status
        /\ cpu'.mem = Stored(cpu.mem, -8, x) /\ cpu'.regs = regs
        /\ cpu' = [pc |-> cpu'.pc, regs |-> cpu'.regs, mem |-> cpu'.mem,
                   zf |-> cpu'.zf, status |-> cpu'.status]
    <2> HIDE DEF regs, mem
    <2>1. cpu' = [pc |-> cpu.pc + 1, regs |-> regs, mem |-> mem, zf |-> cpu.zf,
                  status |-> cpu.status]
      BY <1>4 DEF Runs, Shaped, Advance
    <2> QED BY <2>1 DEF mem
  <1>6. /\ regs = [r \in AllRegisters |-> regs[r]]
        /\ regs["rsp"] = -8 /\ regs["rbp"] = CallerRbp
    BY DEF Runs, Shaped, Frame, AllRegisters, Scratch
  <1> HIDE DEF mem, regs
  <1>7. cpu'.mem = Stored(cpu.mem, -8, x)
    BY <1>5
  <1>8. /\ IsMap(cpu'.mem)
        /\ Holds(cpu', -8, x)
        /\ Holds(cpu', 0, ReturnAddress)
        /\ Inside(cpu, cpu')
    <2>1. IsMap(cpu'.mem)
      BY ONLY <1>7, StoredIn
    <2>2. Holds(cpu', -8, x)
      BY ONLY <1>7, StoredIn
    <2>3. \A b \in DOMAIN cpu.mem :
              b # -8 => b \in DOMAIN cpu'.mem /\ cpu'.mem[b] = cpu.mem[b]
      BY ONLY <1>7, StoredIn
    <2>4. \A b \in DOMAIN cpu'.mem :
            (b \in DOMAIN cpu.mem => cpu'.mem[b] # cpu.mem[b]) => b = -8
      BY ONLY <1>7, StoredIn
    <2>5. Inside(cpu, cpu')
      BY <1>5, <1>6, <2>4 DEF Inside
    <2> QED BY <2>1, <2>2, <2>3, <2>5 DEF Runs, Holds
  <1>9. Shaped(cpu') /\ Frame(cpu', -8, CallerRbp) /\ CallerSaved(cpu')
    BY <1>2, <1>5, <1>6, <1>8 DEF Shaped, Frame, CallerSaved
  <1>10. cpu'.pc = lo + 2
    BY <1>5 DEF Runs
  <1> QED BY <1>5, <1>8, <1>9, <1>10 DEF Runs, After, StackAt

(* A register other than the pc is set; memory stays as it is.             *)
LEMMA RegisterSet ==
  ASSUME Shaped(cpu), NEW r \in {"rsp", "rbp"}, NEW x, NEW d,
         d = Advance(Write(cpu, Reg(r), x))
  PROVE  /\ Shaped(d) /\ d.pc = cpu.pc + 1 /\ d.status = cpu.status
         /\ d.mem = cpu.mem /\ d.regs[r] = x
         /\ \A q \in {"rsp", "rbp"} : q # r => d.regs[q] = cpu.regs[q]
         /\ Inside(cpu, d)
  <1> DEFINE regs == [cpu.regs EXCEPT ![r] = x]
  <1>1. Write(cpu, Reg(r), x) = [cpu EXCEPT !.regs = regs]
    BY DEF Write, Reg
  <1>2. /\ regs = [q \in AllRegisters |-> regs[q]]
        /\ regs[r] = x
        /\ \A q \in {"rsp", "rbp"} : q # r => regs[q] = cpu.regs[q]
    BY DEF Shaped, AllRegisters, Scratch
  <1> HIDE DEF regs
  <1>3. d = [pc |-> cpu.pc + 1, regs |-> regs, mem |-> cpu.mem, zf |-> cpu.zf,
             status |-> cpu.status]
    BY <1>1 DEF Advance, Shaped
  <1> QED BY <1>2, <1>3 DEF Shaped, Inside

LEMMA PrologueMov ==
  ASSUME NEW lo, NEW hi, Runs(lo, hi), Execute, cpu.pc = lo + 2,
         Frame(cpu, -8, CallerRbp), CallerSaved(cpu)
  PROVE  After(cpu', lo, hi)
  <1>1. /\ ci.kind = "MOV" /\ ci.ops[1] = Reg("rbp") /\ ci.ops[2] = Reg("rsp")
        /\ cpu.pc <= Len(m_instructions) /\ cpu.pc \in Nat
    BY DEF Runs, MainLaid, Segment, PrologueAt, ci, Mov, MachineInst
  <1>2. Read(ci.ops[2]) = -8
    BY <1>1 DEF Read, Reg, Frame
  <1>3. cpu' = Advance(Write(cpu, Reg("rbp"), -8))
    BY <1>1, <1>2, KindDecides DEF Runs, ExecMov
  <1>4. /\ Shaped(cpu') /\ cpu'.pc = cpu.pc + 1 /\ cpu'.status = cpu.status
        /\ cpu'.mem = cpu.mem /\ cpu'.regs["rbp"] = -8
        /\ cpu'.regs["rsp"] = cpu.regs["rsp"] /\ Inside(cpu, cpu')
    BY <1>3, RegisterSet DEF Runs
  <1>5. Frame(cpu', -8, -8) /\ CallerSaved(cpu') /\ Holds(cpu', 0, ReturnAddress)
    BY <1>4 DEF Frame, CallerSaved, Holds, Runs
  <1>6. cpu'.pc = lo + 3
    BY <1>4 DEF Runs
  <1> QED BY <1>4, <1>5, <1>6 DEF Runs, After, StackAt

LEMMA PrologueSub ==
  ASSUME NEW lo, NEW hi, Runs(lo, hi), Execute, cpu.pc = lo + 3,
         Frame(cpu, -8, -8), CallerSaved(cpu)
  PROVE  After(cpu', lo, hi)
  <1>1. /\ ci.kind = "SUB" /\ ci.ops[1] = Reg("rsp") /\ ci.ops[2] = Imm(FrameBytes)
        /\ cpu.pc <= Len(m_instructions) /\ cpu.pc \in Nat
    BY DEF Runs, MainLaid, Segment, PrologueAt, ci, MachineInst
  <1>2. Wide(ci.ops[1]) /\ Read(ci.ops[1]) = -8 /\ ci.ops[2].imm = FrameBytes
    BY <1>1 DEF Wide, Read, Reg, Imm, Frame
  <1>3. cpu' = Advance(Write(cpu, Reg("rsp"), -8 - FrameBytes))
    BY <1>1, <1>2, KindDecides DEF Runs, ExecArith
  <1>4. /\ Shaped(cpu') /\ cpu'.pc = cpu.pc + 1 /\ cpu'.status = cpu.status
        /\ cpu'.mem = cpu.mem /\ cpu'.regs["rsp"] = -8 - FrameBytes
        /\ cpu'.regs["rbp"] = cpu.regs["rbp"] /\ Inside(cpu, cpu')
    BY <1>3, RegisterSet DEF Runs
  <1>5. /\ Frame(cpu', -8 - FrameBytes, -8) /\ CallerSaved(cpu')
        /\ Holds(cpu', 0, ReturnAddress)
    BY <1>4 DEF Frame, CallerSaved, Holds, Runs
  <1>6. \/ /\ lo + 4 \in (lo + 4)..hi
           /\ m_instructions[lo + 4].kind \notin {"POP", "RET"}
        \/ lo + 4 = hi + 1 /\ hi = Len(m_instructions)
    <2>1. ~Leaves(m_instructions[lo + 3])
      BY <1>1 DEF Leaves, ci
    <2>2. /\ Segment(m_instructions, lo, hi, Main)
          /\ Leaves(m_instructions[hi]) \/ hi = Len(m_instructions)
          /\ m_instructions \in Seq(MachineInsts)
      BY DEF Runs, MainLaid
    <2>3. lo + 3 \in (lo + 3)..hi /\ lo + 3 + 1 = lo + 4
      BY <2>2 DEF Segment
    <2>4. \/ /\ lo + 3 + 1 \in (lo + 4)..hi
             /\ m_instructions[lo + 3 + 1].kind \notin {"POP", "RET"}
          \/ lo + 3 = hi /\ hi = Len(m_instructions)
      BY <2>1, <2>2, <2>3, FallsThrough
    <2> QED BY <2>3, <2>4
  <1>7. cpu'.pc = lo + 4
    BY <1>4 DEF Runs
  <1> QED BY <1>4, <1>5, <1>6, <1>7 DEF Runs, After, StackAt

-----------------------------------------------------------------------------
(* One step in the body of main.                                           *)

(* The machine in the body of main, before an instruction that belongs to  *)
(* no epilogue or begins one.                                              *)
InBody(lo, hi) ==
  /\ Runs(lo, hi) /\ Execute
  /\ cpu.pc \in (lo + 4)..hi
  /\ CallerSaved(cpu)

LEMMA InBodyKinds ==
  ASSUME NEW lo, NEW hi, InBody(lo, hi)
  PROVE  /\ Segment(m_instructions, lo, hi, Main)
         /\ m_instructions \in Seq(MachineInsts)
         /\ cpu.pc \in 1..Len(m_instructions) /\ cpu.pc \in (lo + 3)..hi
         /\ Shaped(cpu) /\ cpu.status = "running"
         /\ Holds(cpu, 0, ReturnAddress) /\ CallerSaved(cpu)
         /\ ci.kind = "LABEL" => ExecLabel
         /\ ci.kind = "MOV" => ExecMov
         /\ ci.kind \in {"ADD", "SUB"} => ExecArith
         /\ ci.kind = "CMP" => ExecCmp
         /\ ci.kind \in {"JE", "JMP"} => ExecJump
         /\ ci.kind = "POP" => ExecPop
         /\ ci.kind = "RET" => ExecRet
         /\ ci.kind \in {"MOV", "ADD", "SUB"} => ci.ops[1].kind # "imm"
  <1>1. /\ Segment(m_instructions, lo, hi, Main)
        /\ m_instructions \in Seq(MachineInsts)
        /\ Shaped(cpu) /\ cpu.status = "running" /\ Execute
        /\ Holds(cpu, 0, ReturnAddress) /\ CallerSaved(cpu) /\ EncodableCode
        /\ cpu.pc \in (lo + 4)..hi
    BY DEF InBody, Runs, MainLaid
  <1>2. /\ cpu.pc \in 1..Len(m_instructions) /\ cpu.pc \in (lo + 3)..hi
        /\ cpu.pc \in Nat /\ cpu.pc <= Len(m_instructions)
    <2>1. lo \in Nat \ {0} /\ hi \in Nat /\ hi <= Len(m_instructions)
      BY <1>1 DEF Segment
    <2>2. Len(m_instructions) \in Nat
      BY <1>1, LenProperties
    <2> QED BY <1>1, <2>1, <2>2
  <1>3. ci.kind \in {"MOV", "ADD", "SUB"} => ci.ops[1].kind # "imm"
    BY <1>1, <1>2 DEF EncodableCode, Encodable, ci
  <1> QED BY <1>1, <1>2, <1>3, KindDecides

(* The body goes on with the next instruction.                             *)
LEMMA BodyGoesOn ==
  ASSUME NEW lo, NEW hi, InBody(lo, hi), Ordinary(ci, Main), ~Leaves(ci),
         NEW d, Shaped(d), d.pc = cpu.pc + 1, d.status = "running",
         Holds(d, 0, ReturnAddress), CallerSaved(d),
         Frame(d, -8 - FrameBytes, -8), FewSlots => Inside(cpu, d)
  PROVE  After(d, lo, hi)
  <1>1. /\ Segment(m_instructions, lo, hi, Main)
        /\ m_instructions \in Seq(MachineInsts)
        /\ cpu.pc \in (lo + 3)..hi
    BY InBodyKinds
  <1>2. Leaves(m_instructions[hi]) \/ hi = Len(m_instructions)
    BY DEF InBody, Runs, MainLaid
  <1>3. \/ /\ cpu.pc + 1 \in (lo + 4)..hi
           /\ m_instructions[cpu.pc + 1].kind \notin {"POP", "RET"}
        \/ cpu.pc = hi /\ hi = Len(m_instructions)
    BY <1>1, <1>2, FallsThrough DEF ci
  <1>4. StackAt(d, lo, hi)
    BY <1>3 DEF StackAt
  <1> QED BY <1>4 DEF After

LEMMA BodyOrdinary ==
  ASSUME NEW lo, NEW hi, InBody(lo, hi), Ordinary(ci, Main),
         Frame(cpu, -8 - FrameBytes, -8)
  PROVE  After(cpu', lo, hi)
  <1>1. CASE ci.kind \in {"LABEL", "CMP"}
    <2>1. PICK z : cpu' = [cpu EXCEPT !.pc = cpu.pc + 1, !.zf = z]
      <3>1. Shaped(cpu)
        BY InBodyKinds
      <3>2. CASE ci.kind = "LABEL"
        <4>1. cpu' = Advance(cpu)
          BY <3>2, InBodyKinds DEF ExecLabel
        <4> QED BY <3>1, <4>1, AdvanceOnly
      <3>3. CASE ci.kind = "CMP"
        <4>1. PICK z \in BOOLEAN : cpu' = Advance([cpu EXCEPT !.zf = z])
          BY <3>3, InBodyKinds DEF ExecCmp
        <4>2. cpu' = [cpu EXCEPT !.pc = cpu.pc + 1, !.zf = z]
          BY <3>1, <4>1 DEF Advance, Shaped
        <4> QED BY <4>2
      <3> QED BY <1>1, <3>2, <3>3
    <2>2. Shaped(cpu) /\ cpu.status = "running"
      BY InBodyKinds
    <2>3. /\ Shaped(cpu') /\ cpu'.pc = cpu.pc + 1 /\ cpu'.status = "running"
          /\ cpu'.regs = cpu.regs /\ cpu'.mem = cpu.mem
      BY ONLY <2>1, <2>2, OnlyThePc
    <2>4. /\ Holds(cpu', 0, ReturnAddress) /\ CallerSaved(cpu')
          /\ Frame(cpu', -8 - FrameBytes, -8) /\ Inside(cpu, cpu')
      BY <2>3, StackMoves, InBodyKinds
    <2>5. ~Leaves(ci)
      BY <1>1 DEF Leaves
    <2> QED BY <2>3, <2>4, <2>5, BodyGoesOn
  <1>2. CASE ci.kind \in {"MOV", "ADD", "SUB"}
    <2>1. PICK x : cpu' = Advance(Write(cpu, ci.ops[1], x))
      <3>1. CASE ci.kind = "MOV"
        BY <3>1, InBodyKinds DEF ExecMov
      <3>2. CASE ci.kind \in {"ADD", "SUB"}
        BY <3>2, InBodyKinds DEF ExecArith
      <3> QED BY <1>2, <3>1, <3>2
    <2>2. /\ Shaped(cpu) /\ cpu.status = "running" /\ ci.ops[1].kind # "imm"
          /\ Holds(cpu, 0, ReturnAddress) /\ CallerSaved(cpu)
      BY <1>2, InBodyKinds
    <2>3. Destination(ci.ops[1])
      BY <1>2 DEF Ordinary
    <2>6. FewSlots /\ ci.ops[1].kind = "mem" => ci.ops[1].off >= -FrameBytes
      <3>1. /\ m_instructions \in Seq(MachineInsts) /\ SlotsNamed
            /\ cpu.pc \in 1..Len(m_instructions)
        BY InBodyKinds DEF InBody, Runs
      <3>2. ci.ops # << >>
        BY <1>2 DEF Ordinary
      <3> QED BY <1>2, <3>1, <3>2, FewSlotsFit DEF ci
    <2>4. /\ Shaped(cpu') /\ cpu'.pc = cpu.pc + 1 /\ cpu'.status = cpu.status
          /\ Holds(cpu', 0, ReturnAddress) /\ CallerSaved(cpu')
          /\ Frame(cpu', -8 - FrameBytes, -8)
          /\ FewSlots => Inside(cpu, cpu')
      BY <2>1, <2>2, <2>3, <2>6, WriteKeepsFrame
    <2>5. ~Leaves(ci)
      BY <1>2 DEF Leaves
    <2> QED BY <2>2, <2>4, <2>5, BodyGoesOn
  <1>3. CASE ci.kind \in {"JE", "JMP"}
    <2>1. Shaped(cpu) /\ cpu.status = "running"
      BY InBodyKinds
    <2>2. PICK b \in 1..Len(Main.blocks) : ci.ops[1] = Lbl(Main.blocks[b].name)
      BY <1>3 DEF Ordinary
    <2>3. PICK i \in (lo + 4)..hi : m_instructions[i] = Label(Main.blocks[b].name)
      BY <2>2 DEF InBody, Runs, MainLaid, LabelsLaid
    <2>4. Position(ci.ops[1]) = i
      <3>1. i \in 1..Len(m_instructions)
        <4>1. lo \in Nat \ {0} /\ hi \in Nat /\ hi <= Len(m_instructions)
          BY InBodyKinds DEF Segment
        <4>2. Len(m_instructions) \in Nat
          BY InBodyKinds, LenProperties
        <4> QED BY <2>3, <4>1, <4>2
      <3>2. LabelsUnique(m_instructions)
        BY DEF InBody, Runs
      <3> QED BY <2>2, <2>3, <3>1, <3>2, PositionFound
    <2>5. \/ ci.kind = "JE" /\ cpu' = Advance(cpu)
          \/ cpu' = [cpu EXCEPT !.pc = i, !.zf = cpu.zf]
      <3>1. cpu' = IF ci.kind = "JE" /\ ~cpu.zf THEN Advance(cpu)
                   ELSE [cpu EXCEPT !.pc = i]
        BY <1>3, <2>4, InBodyKinds DEF ExecJump
      <3>2. [cpu EXCEPT !.pc = i] = [cpu EXCEPT !.pc = i, !.zf = cpu.zf]
        BY <2>1 DEF Shaped
      <3> QED BY <3>1, <3>2
    <2>6. CASE ci.kind = "JE" /\ cpu' = Advance(cpu)
      <3>1. cpu' = [cpu EXCEPT !.pc = cpu.pc + 1, !.zf = cpu.zf]
        BY <2>1, <2>6, AdvanceOnly
      <3>2. /\ Shaped(cpu') /\ cpu'.pc = cpu.pc + 1 /\ cpu'.status = "running"
            /\ cpu'.regs = cpu.regs /\ cpu'.mem = cpu.mem
        BY ONLY <2>1, <3>1, OnlyThePc
      <3>3. /\ Holds(cpu', 0, ReturnAddress) /\ CallerSaved(cpu')
            /\ Frame(cpu', -8 - FrameBytes, -8) /\ Inside(cpu, cpu')
        BY <3>2, StackMoves, InBodyKinds
      <3>4. ~Leaves(ci)
        BY <2>6 DEF Leaves
      <3> QED BY <3>2, <3>3, <3>4, BodyGoesOn
    <2>7. CASE cpu' = [cpu EXCEPT !.pc = i, !.zf = cpu.zf]
      <3>1. /\ Shaped(cpu') /\ cpu'.pc = i /\ cpu'.status = "running"
            /\ cpu'.regs = cpu.regs /\ cpu'.mem = cpu.mem
        BY ONLY <2>1, <2>7, OnlyThePc
      <3>2. /\ Holds(cpu', 0, ReturnAddress) /\ CallerSaved(cpu')
            /\ Frame(cpu', -8 - FrameBytes, -8) /\ Inside(cpu, cpu')
        BY <3>1, StackMoves, InBodyKinds
      <3>3. m_instructions[i].kind = "LABEL"
        BY <2>3 DEF Label, MachineInst
      <3> QED BY <2>3, <3>1, <3>2, <3>3 DEF After, StackAt
    <2> QED BY <2>5, <2>6, <2>7
  <1> QED BY <1>1, <1>2, <1>3 DEF Ordinary

(* mov rsp, rbp: the slots are given back.                                 *)
LEMMA EpilogueMov ==
  ASSUME NEW lo, NEW hi, InBody(lo, hi), Frame(cpu, -8 - FrameBytes, -8),
         ci = Mov(Reg("rsp"), Reg("rbp")),
         cpu.pc + 1 \in (lo + 4)..hi, m_instructions[cpu.pc + 1].kind = "POP"
  PROVE  After(cpu', lo, hi)
  <1>1. /\ ci.kind = "MOV" /\ ci.ops[1] = Reg("rsp") /\ ci.ops[2] = Reg("rbp")
    BY DEF Mov, MachineInst
  <1>2. Read(ci.ops[2]) = -8
    BY <1>1 DEF Read, Reg, Frame
  <1>3. Shaped(cpu) /\ cpu.status = "running"
    BY InBodyKinds
  <1>4. cpu' = Advance(Write(cpu, Reg("rsp"), -8))
    BY <1>1, <1>2, InBodyKinds DEF ExecMov
  <1>5. /\ Shaped(cpu') /\ cpu'.pc = cpu.pc + 1 /\ cpu'.status = cpu.status
        /\ cpu'.mem = cpu.mem /\ cpu'.regs["rsp"] = -8
        /\ cpu'.regs["rbp"] = cpu.regs["rbp"] /\ Inside(cpu, cpu')
    BY <1>3, <1>4, RegisterSet
  <1>6. Frame(cpu', -8, -8) /\ CallerSaved(cpu') /\ Holds(cpu', 0, ReturnAddress)
    BY <1>5, InBodyKinds DEF Frame, CallerSaved, Holds
  <1> QED BY <1>3, <1>5, <1>6 DEF After, StackAt

(* pop rbp: the frame pointer of the caller is back.                       *)
LEMMA EpiloguePop ==
  ASSUME NEW lo, NEW hi, InBody(lo, hi), Frame(cpu, -8, -8),
         ci = MachineInst("POP", <<Reg("rbp")>>),
         cpu.pc + 1 \in (lo + 4)..hi, m_instructions[cpu.pc + 1].kind = "RET"
  PROVE  After(cpu', lo, hi)
  <1>1. ci.kind = "POP" /\ ci.ops[1].reg = "rbp"
    BY DEF MachineInst, Reg
  <1>2. Shaped(cpu) /\ cpu.status = "running"
    BY InBodyKinds
  <1>3. Peek(cpu.regs["rsp"]) = CallerRbp
    BY InBodyKinds DEF Peek, Frame, CallerSaved, Holds
  <1> DEFINE regs == [cpu.regs EXCEPT !["rbp"] = CallerRbp, !["rsp"] = 0]
  <1>4. cpu' = Advance([cpu EXCEPT !.regs = regs])
    <2>1. cpu' = Advance([cpu EXCEPT !.regs["rbp"] = CallerRbp,
                                     !.regs["rsp"] = @ + 8])
      BY <1>1, <1>3, InBodyKinds DEF ExecPop
    <2>2. cpu.regs["rsp"] + 8 = 0
      BY DEF Frame
    <2> QED BY <2>1, <2>2
  <1>5. /\ regs = [r \in AllRegisters |-> regs[r]]
        /\ regs["rbp"] = CallerRbp /\ regs["rsp"] = 0
    <2>1. cpu.regs = [r \in AllRegisters |-> cpu.regs[r]]
      BY <1>2 DEF Shaped
    <2>2. "rsp" \in AllRegisters /\ "rbp" \in AllRegisters
      BY DEF AllRegisters, Scratch
    <2> QED BY <2>1, <2>2
  <1> HIDE DEF regs
  <1>6. cpu' = [pc |-> cpu.pc + 1, regs |-> regs, mem |-> cpu.mem, zf |-> cpu.zf,
                status |-> cpu.status]
    BY <1>2, <1>4 DEF Advance, Shaped
  <1>7. Shaped(cpu') /\ Frame(cpu', 0, CallerRbp)
    BY <1>2, <1>5, <1>6 DEF Shaped, Frame
  <1>8. /\ CallerSaved(cpu') /\ Holds(cpu', 0, ReturnAddress)
        /\ Inside(cpu, cpu')
    BY <1>6, InBodyKinds DEF CallerSaved, Holds, Inside
  <1>9. cpu'.pc = cpu.pc + 1 /\ cpu'.status = "running"
    BY <1>2, <1>6
  <1> QED BY <1>7, <1>8, <1>9 DEF After, StackAt

(* ret: main returns to its caller.                                        *)
LEMMA EpilogueRet ==
  ASSUME NEW lo, NEW hi, InBody(lo, hi), Frame(cpu, 0, CallerRbp),
         ci.kind = "RET"
  PROVE  After(cpu', lo, hi)
  <1>1. Shaped(cpu)
    BY InBodyKinds
  <1>2. Peek(cpu.regs["rsp"]) = ReturnAddress
    BY InBodyKinds DEF Peek, Frame, Holds
  <1> DEFINE regs == [cpu.regs EXCEPT !["rsp"] = @ + 8]
  <1>3. cpu' = [cpu EXCEPT !.status = "returned", !.regs = regs]
    <2>1. cpu' = [cpu EXCEPT !.status = "returned", !.regs["rsp"] = @ + 8]
      BY <1>2, InBodyKinds DEF ExecRet
    <2> QED BY <2>1
  <1>4. /\ regs = [r \in AllRegisters |-> regs[r]]
        /\ regs["rbp"] = CallerRbp /\ regs["rsp"] = 8
    BY <1>1 DEF Shaped, Frame, AllRegisters, Scratch
  <1> HIDE DEF regs
  <1>5. cpu' = [pc |-> cpu.pc, regs |-> regs, mem |-> cpu.mem, zf |-> cpu.zf,
                status |-> "returned"]
    BY <1>1, <1>3 DEF Shaped
  <1>6. Shaped(cpu') /\ Frame(cpu', 8, CallerRbp) /\ Inside(cpu, cpu')
    BY <1>1, <1>4, <1>5 DEF Shaped, Frame, Inside
  <1> QED BY <1>5, <1>6 DEF After

LEMMA BodyStep ==
  ASSUME NEW lo, NEW hi, InBody(lo, hi),
         CASE ci.kind = "POP" -> Frame(cpu, -8, -8)
           [] ci.kind = "RET" -> Frame(cpu, 0, CallerRbp)
           [] OTHER -> Frame(cpu, -8 - FrameBytes, -8)
  PROVE  After(cpu', lo, hi)
  <1>1. /\ ci.kind = "POP" => Frame(cpu, -8, -8)
        /\ ci.kind = "RET" => Frame(cpu, 0, CallerRbp)
        /\ ci.kind \notin {"POP", "RET"} => Frame(cpu, -8 - FrameBytes, -8)
    OBVIOUS
  <1>2. CASE Ordinary(ci, Main)
    BY <1>1, <1>2, BodyOrdinary DEF Ordinary
  <1>3. CASE /\ ci = Mov(Reg("rsp"), Reg("rbp"))
             /\ cpu.pc + 1 \in (lo + 4)..hi
             /\ m_instructions[cpu.pc + 1].kind = "POP"
    <2>1. ci.kind \notin {"POP", "RET"}
      BY <1>3 DEF Mov, MachineInst
    <2> QED BY <1>1, <1>3, <2>1, EpilogueMov
  <1>4. CASE /\ ci = MachineInst("POP", <<Reg("rbp")>>)
             /\ cpu.pc + 1 \in (lo + 4)..hi
             /\ m_instructions[cpu.pc + 1].kind = "RET"
    <2>1. ci.kind = "POP"
      BY <1>4 DEF MachineInst
    <2> QED BY <1>1, <1>4, <2>1, EpiloguePop
  <1>5. CASE ci = MachineInst("RET", << >>)
    <2>1. ci.kind = "RET"
      BY <1>5 DEF MachineInst
    <2> QED BY <1>1, <2>1, EpilogueRet
  <1>6. cpu.pc \in (lo + 4)..hi
    BY DEF InBody
  <1>7. /\ Segment(m_instructions, lo, hi, Main)
        /\ m_instructions \in Seq(MachineInsts)
    BY InBodyKinds
  <1> QED BY <1>2, <1>3, <1>4, <1>5, <1>6, <1>7, BodyInstruction DEF ci

-----------------------------------------------------------------------------
(* The machine and the compiler together.                                  *)

(* The processor has run past the last instruction.                        *)
LEMMA PastTheEnd ==
  ASSUME NEW lo, NEW hi, Runs(lo, hi), Execute,
         cpu.pc = hi + 1, hi = Len(m_instructions)
  PROVE  After(cpu', lo, hi)
  <1>1. Shaped(cpu) /\ Len(m_instructions) \in Nat
    BY LenProperties DEF Runs
  <1>2. ~(cpu.pc <= Len(m_instructions))
    BY <1>1
  <1>3. cpu' = [cpu EXCEPT !.status = "astray"]
    BY <1>2 DEF Execute, ExecLabel, ExecMov, ExecArith, ExecCmp, ExecJump,
                ExecPush, ExecPop, ExecRet, RunOff, Executing
  <1>4. cpu' = [pc |-> cpu.pc, regs |-> cpu.regs, mem |-> cpu.mem, zf |-> cpu.zf,
                status |-> "astray"]
    BY <1>1, <1>3 DEF Shaped
  <1> QED BY <1>1, <1>4 DEF Shaped, After, Inside

LEMMA ExecuteStep ==
  ASSUME NEW lo, NEW hi, Runs(lo, hi), StackAt(cpu, lo, hi), Execute
  PROVE  After(cpu', lo, hi)
  <1>1. CASE cpu.pc \in {lo, lo + 1} /\ Frame(cpu, 0, CallerRbp)
    BY <1>1, PrologueLabel, ProloguePush
  <1>2. CASE cpu.pc = lo + 2 /\ Frame(cpu, -8, CallerRbp) /\ CallerSaved(cpu)
    BY <1>2, PrologueMov
  <1>3. CASE cpu.pc = lo + 3 /\ Frame(cpu, -8, -8) /\ CallerSaved(cpu)
    BY <1>3, PrologueSub
  <1>4. CASE /\ cpu.pc \in (lo + 4)..hi
             /\ CallerSaved(cpu)
             /\ CASE ci.kind = "POP" -> Frame(cpu, -8, -8)
                  [] ci.kind = "RET" -> Frame(cpu, 0, CallerRbp)
                  [] OTHER -> Frame(cpu, -8 - FrameBytes, -8)
    BY <1>4, BodyStep DEF InBody
  <1>5. CASE cpu.pc = hi + 1 /\ hi = Len(m_instructions)
    BY <1>5, PastTheEnd
  <1> QED BY <1>1, <1>2, <1>3, <1>4, <1>5 DEF StackAt, ci

LEMMA ExecuteChangesNoCode ==
  Execute => UNCHANGED vars /\ cpu.status = "running"
  BY DEF Execute, ExecLabel, ExecMov, ExecArith, ExecCmp, ExecJump,
         ExecPush, ExecPop, ExecRet, RunOff, Executing

LEMMA ExecuteKeepsFrame ==
  ASSUME IInv, SlotsNamed, FrameKept, Execute
  PROVE  /\ FrameKept'
         /\ FewSlots => Inside(cpu, cpu')
  <1>1. UNCHANGED vars /\ cpu.status = "running"
    BY ExecuteChangesNoCode
  <1>2. PICK lo \in 1..Len(m_instructions), hi \in 1..Len(m_instructions) :
          MainLaid(lo, hi) /\ StackAt(cpu, lo, hi)
    BY <1>1 DEF FrameKept
  <1>3. Runs(lo, hi)
    BY <1>1, <1>2 DEF Runs, FrameKept, IInv, TypeOK, StackAt
  <1>4. After(cpu', lo, hi)
    BY <1>2, <1>3, ExecuteStep
  <1>5. /\ m_instructions' = m_instructions /\ module' = module /\ fn' = fn
        /\ phase' = phase /\ Main' = Main
    BY <1>1 DEF vars, Main
  <1>6. MainLaid(lo, hi)' /\ (LabelsUnique(m_instructions) /\ EncodableCode)'
    BY <1>2, <1>3, <1>5 DEF MainLaid, Runs, EncodableCode
  <1>7. phase = "done"
    BY <1>1 DEF FrameKept
  <1>8. StackAt(cpu', lo, hi) <=> StackAt(cpu, lo, hi)'
    BY <1>5 DEF StackAt
  <1>9. FrameKept'
    BY <1>4, <1>5, <1>6, <1>7, <1>8 DEF After, FrameKept
  <1> QED BY <1>4, <1>9 DEF After

LEMMA DoneStops == phase = "done" => ~Next
  BY DEF Next, lowerFunction, lowerBasicBlock, Terminate, EndBasicBlock,
         EndFunction, EndModule, LowerInstruction, LowerAlloca, LowerStore,
         LowerLoad, LowerArithmetic, LowerRet, LowerBr, LowerCondBr, Lowering

LEMMA CompileKeepsFrame ==
  ASSUME FrameKept, Compile
  PROVE  FrameKept'
  <1>1. cpu' = cpu /\ phase # "done"
    BY DoneStops DEF Compile
  <1>2. cpu.status = "unassembled"
    BY <1>1 DEF FrameKept
  <1> QED BY <1>1, <1>2 DEF FrameKept

LEMMA AssembleKeepsFrame ==
  ASSUME HasMain, IInv, FrameLaid, FrameKept, Assemble
  PROVE  FrameKept'
  <1>1. UNCHANGED vars /\ phase = "done" /\ cpu.status = "unassembled"
    BY DEF Assemble
  <1>2. /\ m_instructions' = m_instructions /\ module' = module /\ fn' = fn
        /\ phase' = phase /\ Main' = Main
    BY <1>1 DEF vars, Main
  <1>3. Shaped(cpu) /\ Holds(cpu, 0, ReturnAddress) /\ Frame(cpu, 0, CallerRbp)
    BY <1>1 DEF FrameKept
  <1>4. CASE LabelsUnique(m_instructions) /\ EncodableCode
    <2>1. fn > MainIndex /\ Main.name = "main"
      <3>1. fn > Len(module)
        BY <1>1 DEF FrameLaid
      <3>2. /\ MainIndex \in 1..Len(module) /\ Main = module[MainIndex]
            /\ module[MainIndex].name = "main" /\ Len(module) \in Nat
        BY MainIndexed DEF IInv
      <3>3. fn \in Nat
        BY DEF IInv, TypeOK
      <3> QED BY <3>1, <3>2, <3>3
    <2>2. PICK lo \in 1..Len(m_instructions), hi \in 1..Len(m_instructions) :
            MainLaid(lo, hi)
      BY <2>1 DEF FrameLaid
    <2>3. m_instructions[lo] = Label("main")
      BY <2>1, <2>2 DEF MainLaid, Segment, PrologueAt
    <2>4. Position(Lbl("main")) = lo
      BY <1>4, <2>3, PositionFound
    <2>5. cpu' = [cpu EXCEPT !.status = "running", !.pc = lo]
      BY <1>4, <2>4 DEF Assemble
    <2>6. cpu' = [pc |-> lo, regs |-> cpu.regs, mem |-> cpu.mem, zf |-> cpu.zf,
                  status |-> "running"]
      BY <1>3, <2>5 DEF Shaped
    <2>7. Shaped(cpu') /\ Holds(cpu', 0, ReturnAddress) /\ Frame(cpu', 0, CallerRbp)
      BY <1>3, <2>6 DEF Shaped, Holds, Frame
    <2>8. StackAt(cpu', lo, hi)
      BY <2>6, <2>7 DEF StackAt
    <2>9. StackAt(cpu', lo, hi) <=> StackAt(cpu, lo, hi)'
      BY <1>2 DEF StackAt
    <2>10. MainLaid(lo, hi)' /\ (LabelsUnique(m_instructions) /\ EncodableCode)'
      BY <1>2, <1>4, <2>2 DEF MainLaid, EncodableCode
    <2> QED BY <1>1, <1>2, <2>6, <2>7, <2>8, <2>9, <2>10 DEF FrameKept
  <1>5. CASE ~(LabelsUnique(m_instructions) /\ EncodableCode)
    <2>1. cpu' = [cpu EXCEPT !.status = "rejected"]
      BY <1>5 DEF Assemble
    <2>2. cpu' = [pc |-> cpu.pc, regs |-> cpu.regs, mem |-> cpu.mem, zf |-> cpu.zf,
                  status |-> "rejected"]
      BY <1>3, <2>1 DEF Shaped
    <2>3. Shaped(cpu')
      BY <1>3, <2>2 DEF Shaped
    <2> QED BY <1>1, <1>2, <2>2, <2>3 DEF FrameKept
  <1> QED BY <1>4, <1>5

LEMMA RunBegins ==
  ASSUME HasMain, RunInit
  PROVE  RunInv
  <1>1. Init /\ cpu = Loader
    BY DEF RunInit
  <1>2. IInv /\ FrameLaid /\ SlotsNamed
    BY <1>1, InitInv, InitFrameLaid, InitSlotsNamed
  <1> DEFINE regs == [r \in AllRegisters |->
                        CASE r = "rsp" -> 0 [] r = "rbp" -> CallerRbp [] OTHER -> Undef]
             mem == [a \in {0} |-> ReturnAddress]
  <1>3. /\ regs = [r \in AllRegisters |-> regs[r]]
        /\ regs["rsp"] = 0 /\ regs["rbp"] = CallerRbp
    BY DEF AllRegisters, Scratch
  <1>4. IsMap(mem) /\ 0 \in DOMAIN mem /\ mem[0] = ReturnAddress
    BY DEF IsMap
  <1>5. cpu = [pc |-> 0, regs |-> regs, mem |-> mem, zf |-> FALSE,
               status |-> "unassembled"]
    BY <1>1 DEF Loader
  <1> HIDE DEF regs, mem
  <1>6. Shaped(cpu)
    BY <1>3, <1>4, <1>5 DEF Shaped
  <1>7. Holds(cpu, 0, ReturnAddress) /\ Frame(cpu, 0, CallerRbp)
    BY <1>3, <1>4, <1>5 DEF Holds, Frame
  <1>8. FrameKept
    BY <1>5, <1>6, <1>7 DEF FrameKept
  <1> QED BY <1>2, <1>8 DEF RunInv

LEMMA NextRunInv ==
  ASSUME HasMain, MainIsLeft, RunInv, [RunNext]_runVars
  PROVE  RunInv'
  <1>1. IInv /\ FrameLaid /\ SlotsNamed /\ FrameKept
    BY DEF RunInv
  <1>2. [Next]_vars
    BY ExecuteChangesNoCode DEF RunNext, Compile, Assemble, runVars
  <1>3. IInv' /\ FrameLaid' /\ SlotsNamed'
    BY <1>1, <1>2, NextInv, NextFrameLaid, NextSlotsNamed
  <1>4. ASSUME Compile PROVE FrameKept'
    BY <1>1, <1>4, CompileKeepsFrame
  <1>5. ASSUME Assemble PROVE FrameKept'
    BY <1>1, <1>5, AssembleKeepsFrame
  <1>6. ASSUME Execute PROVE FrameKept'
    BY <1>1, <1>6, ExecuteKeepsFrame
  <1>7. ASSUME UNCHANGED runVars PROVE FrameKept'
    <2>1. UNCHANGED vars /\ cpu' = cpu
      BY <1>7 DEF runVars
    <2>2. FrameKept'
      BY <1>1, <2>1 DEF vars, FrameKept, EncodableCode, MainLaid, StackAt, Main
    <2> QED BY <2>2
  <1>8. FrameKept'
    BY <1>4, <1>5, <1>6, <1>7 DEF RunNext
  <1> QED BY <1>3, <1>8 DEF RunInv

(* When main returns, the caller has its stack and frame pointers back,    *)
(* and no ret takes anything for the return address but what the caller    *)
(* left: emitPrologue and emitEpilogue match on every path through main,   *)
(* and what is spilled in between lies neither on the saved rbp nor on the *)
(* return address, however much is spilled.  Every module has a main, and  *)
(* control does not run from its end into the function below.              *)
THEOREM FrameIsRestored ==
  ASSUME HasMain, MainIsLeft
  PROVE  RunSpec => []FrameRestored
  <1>1. RunInv => FrameRestored
    BY DEF RunInv, FrameKept, Frame, FrameRestored
  <1>2. RunInit => RunInv
    BY RunBegins
  <1>3. RunInv /\ [RunNext]_runVars => RunInv'
    BY NextRunInv
  <1> QED BY <1>1, <1>2, <1>3, PTL DEF RunSpec

(* No ret of main returns to anything but its caller.                      *)
THEOREM MainReturnsToItsCaller ==
  ASSUME HasMain, MainIsLeft
  PROVE  RunSpec => [](cpu.status # "lost")
  <1>1. RunInv => cpu.status # "lost"
    BY DEF RunInv, FrameKept
  <1>2. RunInit => RunInv
    BY RunBegins
  <1>3. RunInv /\ [RunNext]_runVars => RunInv'
    BY NextRunInv
  <1> QED BY <1>1, <1>2, <1>3, PTL DEF RunSpec

(* What main stores stays inside the frame that its prologue reserved, or  *)
(* is the rbp it saves, in every program whose code names 16 slots at      *)
(* most: the 64 bytes of emitPrologue are room for as many slots, and      *)
(* getOperandForValue leaves no gap between those it hands out.            *)
THEOREM StoresStayInFrame ==
  ASSUME HasMain, MainIsLeft
  PROVE  RunSpec => StoresInFrame
  <1> DEFINE Within == \A a \in DOMAIN cpu'.mem :
                         (a \in DOMAIN cpu.mem => cpu'.mem[a] # cpu.mem[a])
                           => \/ a >= cpu'.regs["rsp"]
                              \/ Cardinality(Slots(m_instructions)) > FrameSlots
  <1>1. RunInit => RunInv
    BY RunBegins
  <1>2. RunInv /\ [RunNext]_runVars => RunInv'
    BY NextRunInv
  <1>3. RunInv /\ [RunNext]_runVars => [Within]_cpu
    <2> SUFFICES ASSUME RunInv, [RunNext]_runVars PROVE Within \/ cpu' = cpu
      OBVIOUS
    <2>1. IInv /\ SlotsNamed /\ FrameKept
      BY DEF RunInv
    <2>2. CASE Execute
      <3>1. FewSlots => Inside(cpu, cpu')
        BY <2>1, <2>2, ExecuteKeepsFrame
      <3>2. CASE FewSlots
        BY <3>1, <3>2 DEF Inside
      <3>3. CASE ~FewSlots
        <4>1. Cardinality(Slots(m_instructions)) > FrameSlots
          BY <2>1, <3>3, FS_CardinalityType DEF FewSlots, SlotsNamed, FrameSlots
        <4> QED BY <4>1
      <3> QED BY <3>2, <3>3
    <2>3. CASE Assemble
      <3>1. cpu'.mem = cpu.mem
        BY <2>1, <2>3 DEF Assemble, FrameKept, Shaped
      <3> QED BY <3>1
    <2>4. CASE Compile \/ UNCHANGED runVars
      BY <2>4 DEF Compile, runVars
    <2> QED BY <2>2, <2>3, <2>4 DEF RunNext
  <1>4. StoresInFrame <=> [][Within]_cpu
    BY DEF StoresInFrame
  <1> QED BY <1>1, <1>2, <1>3, <1>4, PTL DEF RunSpec
=============================================================================
