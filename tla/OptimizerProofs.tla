--------------------------- MODULE OptimizerProofs ---------------------------
(***************************************************************************)
(* Proofs about Optimizer, for every module in which each value is defined *)
(* once and before its uses: no pass leaves a dangling operand, what is    *)
(* left is as fit for the back end as the module was before, and there are *)
(* no more rounds than instructions.                                       *)
(***************************************************************************)
EXTENDS Optimizer, IRLemmas, FiniteSetTheorems

-----------------------------------------------------------------------------
(* replaceAllUses, level by level.                                         *)
LEMMA InstructionReplaced ==
  ASSUME NEW x \in Code(Values), NEW old, NEW new \in Operands(Values)
  PROVE  /\ ReplaceUses(x, old, new) \in Code(Values)
         /\ ReplaceUses(x, old, new).op = x.op
         /\ ReplaceUses(x, old, new).id = x.id
         /\ ReplaceUses(x, old, new).targets = x.targets
         /\ DOMAIN ReplaceUses(x, old, new).args = DOMAIN x.args
         /\ \A a \in DOMAIN x.args :
              ReplaceUses(x, old, new).args[a] = IF x.args[a] = old THEN new ELSE x.args[a]
  <1> DEFINE args == [k \in DOMAIN x.args |-> IF x.args[k] = old THEN new ELSE x.args[k]]
             y == ReplaceUses(x, old, new)
  <1>1. /\ x = [op |-> x.op, id |-> x.id, args |-> x.args, targets |-> x.targets]
        /\ \/ x.args = << >>
           \/ x.args \in [1..1 -> Operands(Values)]
           \/ x.args \in [1..2 -> Operands(Values)]
    BY DEF Code, Instructions
  <1>2. y = [op |-> x.op, id |-> x.id, args |-> args, targets |-> x.targets]
    BY <1>1 DEF ReplaceUses
  <1>3. /\ x.args = << >> => args = << >>
        /\ x.args \in [1..1 -> Operands(Values)] => args \in [1..1 -> Operands(Values)]
        /\ x.args \in [1..2 -> Operands(Values)] => args \in [1..2 -> Operands(Values)]
    OBVIOUS
  <1>4. y \in Code(Values)
    <2> HIDE DEF args, y
    <2> QED BY <1>1, <1>2, <1>3 DEF Code, Instructions
  <1> QED BY <1>2, <1>4

LEMMA BlockReplaced ==
  ASSUME NEW blk \in Blocks(Values), NEW old, NEW new \in Operands(Values)
  PROVE  /\ ReplaceInBlock(blk, old, new) \in Blocks(Values)
         /\ Len(ReplaceInBlock(blk, old, new).insts) = Len(blk.insts)
         /\ \A j \in 1..Len(blk.insts) :
              ReplaceInBlock(blk, old, new).insts[j] = ReplaceUses(blk.insts[j], old, new)
  <1> DEFINE insts == [j \in DOMAIN blk.insts |-> ReplaceUses(blk.insts[j], old, new)]
             out == ReplaceInBlock(blk, old, new)
  <1>1. blk \in [name : STRING, insts : Seq(Code(Values))]
    BY DEF Blocks, Code
  <1>2. /\ blk.insts \in Seq(Code(Values)) /\ Len(blk.insts) \in Nat
        /\ DOMAIN blk.insts = 1..Len(blk.insts)
    BY <1>1, LenProperties
  <1>3. \A j \in 1..Len(blk.insts) : ReplaceUses(blk.insts[j], old, new) \in Code(Values)
    BY <1>2, InstructionReplaced
  <1>4. insts \in Seq(Code(Values)) /\ Len(insts) = Len(blk.insts)
    BY <1>2, <1>3
  <1>5. out \in [name : STRING, insts : Seq(Code(Values))] /\ out.insts = insts
    BY <1>1, <1>4 DEF ReplaceInBlock
  <1> QED BY <1>2, <1>4, <1>5 DEF Blocks, Code

LEMMA FunctionReplaced ==
  ASSUME NEW f \in Functions(Values), NEW old, NEW new \in Operands(Values)
  PROVE  /\ ReplaceInFunction(f, old, new) \in Functions(Values)
         /\ Len(ReplaceInFunction(f, old, new).blocks) = Len(f.blocks)
         /\ \A b \in 1..Len(f.blocks) :
              ReplaceInFunction(f, old, new).blocks[b] = ReplaceInBlock(f.blocks[b], old, new)
  <1> DEFINE blocks == [b \in DOMAIN f.blocks |-> ReplaceInBlock(f.blocks[b], old, new)]
             out == ReplaceInFunction(f, old, new)
  <1>1. f \in [name : STRING, blocks : Seq(Blocks(Values))]
    BY DEF Functions
  <1>2. /\ f.blocks \in Seq(Blocks(Values)) /\ Len(f.blocks) \in Nat
        /\ DOMAIN f.blocks = 1..Len(f.blocks)
    BY <1>1, LenProperties
  <1>3. \A b \in 1..Len(f.blocks) : ReplaceInBlock(f.blocks[b], old, new) \in Blocks(Values)
    BY <1>2, BlockReplaced
  <1>4. blocks \in Seq(Blocks(Values)) /\ Len(blocks) = Len(f.blocks)
    BY <1>2, <1>3
  <1>5. out \in [name : STRING, blocks : Seq(Blocks(Values))] /\ out.blocks = blocks
    BY <1>1, <1>4 DEF ReplaceInFunction
  <1> QED BY <1>2, <1>4, <1>5 DEF Functions

LEMMA ModuleReplaced ==
  ASSUME NEW m \in Seq(Functions(Values)), NEW old, NEW new \in Operands(Values),
         NEW n, n = replaceAllUses(m, old, new)
  PROVE  /\ n \in Seq(Functions(Values)) /\ Len(n) = Len(m)
         /\ \A k \in 1..Len(m) :
              /\ Len(n[k].blocks) = Len(m[k].blocks)
              /\ \A b \in 1..Len(m[k].blocks) :
                   /\ Len(Body(n, k, b)) = Len(Body(m, k, b))
                   /\ \A j \in 1..Len(Body(m, k, b)) :
                        Body(n, k, b)[j] = ReplaceUses(Body(m, k, b)[j], old, new)
  <1>1. Len(m) \in Nat /\ DOMAIN m = 1..Len(m)
    BY LenProperties
  <1>2. \A k \in 1..Len(m) : n[k] = ReplaceInFunction(m[k], old, new)
    BY <1>1 DEF replaceAllUses
  <1>3. \A k \in 1..Len(m) : ReplaceInFunction(m[k], old, new) \in Functions(Values)
    BY <1>1, FunctionReplaced
  <1>4. n \in Seq(Functions(Values)) /\ Len(n) = Len(m)
    BY <1>1, <1>3 DEF replaceAllUses
  <1>5. ASSUME NEW k \in 1..Len(m)
        PROVE  /\ Len(n[k].blocks) = Len(m[k].blocks)
               /\ \A b \in 1..Len(m[k].blocks) :
                    /\ Len(Body(n, k, b)) = Len(Body(m, k, b))
                    /\ \A j \in 1..Len(Body(m, k, b)) :
                         Body(n, k, b)[j] = ReplaceUses(Body(m, k, b)[j], old, new)
    <2>1. m[k] \in Functions(Values)
      OBVIOUS
    <2>2. /\ Len(n[k].blocks) = Len(m[k].blocks)
          /\ \A b \in 1..Len(m[k].blocks) :
               n[k].blocks[b] = ReplaceInBlock(m[k].blocks[b], old, new)
      BY <1>2, <2>1, FunctionReplaced
    <2>3. \A b \in 1..Len(m[k].blocks) : m[k].blocks[b] \in Blocks(Values)
      BY <2>1 DEF Functions
    <2>4. ASSUME NEW b \in 1..Len(m[k].blocks)
          PROVE  /\ Len(Body(n, k, b)) = Len(Body(m, k, b))
                 /\ \A j \in 1..Len(Body(m, k, b)) :
                      Body(n, k, b)[j] = ReplaceUses(Body(m, k, b)[j], old, new)
      <3>1. m[k].blocks[b] \in Blocks(Values) /\ Body(m, k, b) = m[k].blocks[b].insts
        BY <2>3 DEF Body
      <3>2. Body(n, k, b) = ReplaceInBlock(m[k].blocks[b], old, new).insts
        BY <2>2, Zenon DEF Body
      <3> QED BY <3>1, <3>2, BlockReplaced
    <2> QED BY <2>2, <2>4
  <1> QED BY <1>4, <1>5

-----------------------------------------------------------------------------
(* removeInstruction, and what becomes of the module.                      *)
LEMMA Removed ==
  ASSUME NEW S, NEW s \in Seq(S), NEW p \in 1..Len(s)
  PROVE  /\ RemoveAt(s, p) \in Seq(S)
         /\ Len(RemoveAt(s, p)) = Len(s) - 1
         /\ \A j \in 1..(Len(s) - 1) :
              RemoveAt(s, p)[j] = IF j < p THEN s[j] ELSE s[j + 1]
  <1> DEFINE head == SubSeq(s, 1, p - 1)
             tail == SubSeq(s, p + 1, Len(s))
  <1>1. Len(s) \in Nat /\ p \in Int /\ \A j \in 1..Len(s) : s[j] \in S
    OBVIOUS
  <1>2. /\ head \in Seq(S) /\ Len(head) = p - 1
        /\ \A j \in 1..(p - 1) : head[j] = s[j]
    BY <1>1, SubSeqProperties
  <1>3. /\ tail \in Seq(S) /\ Len(tail) = Len(s) - p
        /\ \A j \in 1..(Len(s) - p) : tail[j] = s[p + j]
    BY <1>1, SubSeqProperties
  <1> HIDE DEF head, tail
  <1>4. /\ head \o tail \in Seq(S) /\ Len(head \o tail) = Len(s) - 1
        /\ \A j \in 1..(Len(s) - 1) :
             (head \o tail)[j] = IF j <= p - 1 THEN head[j] ELSE tail[j - (p - 1)]
    <2>1. Len(head) + Len(tail) = Len(s) - 1
      BY <1>1, <1>2, <1>3
    <2>2. /\ head \o tail \in Seq(S) /\ Len(head \o tail) = Len(head) + Len(tail)
          /\ \A j \in 1..(Len(head) + Len(tail)) :
               (head \o tail)[j] = IF j <= Len(head) THEN head[j] ELSE tail[j - Len(head)]
      BY <1>2, <1>3, ConcatProperties
    <2> QED BY <1>2, <2>1, <2>2
  <1>5. ASSUME NEW j \in 1..(Len(s) - 1)
        PROVE  (head \o tail)[j] = IF j < p THEN s[j] ELSE s[j + 1]
    <2>1. CASE j < p
      <3>1. j \in 1..(p - 1) /\ j <= p - 1
        BY <1>1, <2>1
      <3> QED BY <1>2, <1>4, <2>1, <3>1
    <2>2. CASE j >= p
      <3>1. j - (p - 1) \in 1..(Len(s) - p) /\ p + (j - (p - 1)) = j + 1
        BY <1>1, <2>2
      <3>2. ~(j <= p - 1) /\ ~(j < p)
        BY <1>1, <2>2
      <3>3. (head \o tail)[j] = tail[j - (p - 1)]
        BY <1>4, <3>2
      <3>4. tail[j - (p - 1)] = s[j + 1]
        BY <1>3, <3>1
      <3>5. (head \o tail)[j] = s[j + 1]
        BY <3>3, <3>4, Zenon
      <3> QED BY <3>2, <3>5, Zenon
    <2>3. j < p \/ j >= p
      BY <1>1
    <2> QED BY <2>1, <2>2, <2>3, Zenon
  <1> QED BY <1>4, <1>5 DEF RemoveAt, head, tail

-----------------------------------------------------------------------------
(* What the walk keeps.  Dead instructions are marked while the walk goes  *)
(* over a block and removed behind it; between the two each mark stands    *)
(* for one instruction of the block, and nothing uses it.                  *)
Marks ==
  /\ pass # "dce" => toRemove = << >>
  /\ toRemove # << >> => InBlock
  /\ \A r \in 1..Len(toRemove) :
       /\ ~Used(module, Ref(toRemove[r]))
       /\ \E j \in 1..Len(Insts) : j < i /\ Insts[j].id = toRemove[r]
  /\ \A r, q \in 1..Len(toRemove) : toRemove[r] = toRemove[q] => r = q

Sound == OperandsDefined(module) /\ OncePerBlock(module) /\ FitForBackend(module)

(* A round that has changed nothing has seen nothing to change so far.     *)
Seen(k, b, j) == k < fn \/ (k = fn /\ (b < bb \/ (b = bb /\ j < i)))

Everywhere(P(_, _, _)) ==
  \A k \in 1..Len(module) : \A b \in 1..Len(module[k].blocks) :
    \A j \in 1..Len(Body(module, k, b)) : P(k, b, j)

Alive(k, b, j) ==
  Removable(Body(module, k, b)[j]) => Used(module, Ref(Body(module, k, b)[j].id))
Unfolded(k, b, j) == ~Foldable(Body(module, k, b)[j])

SeenUnfolded(k, b, j) == Seen(k, b, j) => Unfolded(k, b, j)
SeenAlive(k, b, j) == Seen(k, b, j) => Alive(k, b, j)

Rounds ==
  /\ pass = "fold" /\ ~changed => Everywhere(SeenUnfolded)
  /\ pass = "dce" /\ ~changed => Everywhere(Unfolded)
  /\ pass = "dce" /\ ~changed /\ toRemove = << >> => Everywhere(SeenAlive)
  /\ pass = "done" => Everywhere(Unfolded) /\ Everywhere(Alive)

IInv == TypeOK /\ Sound /\ Marks /\ Rounds

-----------------------------------------------------------------------------
(* The types of an instruction and of a module, taken apart.               *)
LEMMA InstructionShape ==
  ASSUME NEW x \in Code(Values)
  PROVE  /\ DOMAIN x.args = 1..Len(x.args)
         /\ \A a \in DOMAIN x.args : x.args[a] \in Operands(Values)
         /\ DOMAIN x.targets = 1..Len(x.targets)
         /\ Removable(x) => x.id \in Values
         /\ Foldable(x) => x.id \in Values /\ x.args[1].id \in Int /\ x.args[2].id \in Int
  <1>1. \/ x.args = << >>
        \/ x.args \in [1..1 -> Operands(Values)]
        \/ x.args \in [1..2 -> Operands(Values)]
    BY DEF Code, Instructions
  <1>2. \/ x.targets = << >>
        \/ x.targets \in [1..1 -> Nat \ {0}]
        \/ x.targets \in [1..2 -> Nat \ {0}]
    BY DEF Code, Instructions
  <1>3. DOMAIN x.args = 1..Len(x.args) /\ \A a \in DOMAIN x.args : x.args[a] \in Operands(Values)
    BY <1>1
  <1>4. DOMAIN x.targets = 1..Len(x.targets)
    BY <1>2
  <1>5. Removable(x) => x.id \in Values
    BY DEF Code, Instructions, Removable, Terminators
  <1>6. ASSUME Foldable(x)
        PROVE  x.id \in Values /\ x.args[1].id \in Int /\ x.args[2].id \in Int
    <2>1. x.op \in {"add", "sub"} /\ \A a \in DOMAIN x.args : x.args[a].imm
      BY <1>6 DEF Foldable
    <2>2. x.id \in Values /\ x.args \in [1..2 -> Operands(Values)]
      BY <2>1 DEF Code, Instructions
    <2>3. \A a \in 1..2 : x.args[a].imm /\ x.args[a] \in Operands(Values)
      BY <2>1, <2>2
    <2>4. \A o \in Operands(Values) : o.imm => o.id \in Int
      BY DEF Operands
    <2> QED BY <2>2, <2>3, <2>4
  <1> QED BY <1>3, <1>4, <1>5, <1>6

-----------------------------------------------------------------------------
(* Both rewritings leave a block as a subsequence of what it was, with     *)
(* operands that are as before or immediates.                              *)
SameButFolded(y, x) ==
  /\ y.op = x.op /\ y.id = x.id /\ y.targets = x.targets
  /\ DOMAIN y.args = DOMAIN x.args
  /\ \A a \in DOMAIN x.args : y.args[a] = x.args[a] \/ y.args[a].imm

CameFrom(t, s, p) ==
  /\ p \in [1..Len(t) -> 1..Len(s)]
  /\ \A j, l \in 1..Len(t) : p[j] < p[l] => j < l
  /\ \A j, l \in 1..Len(t) : p[j] = p[l] => j = l
  /\ \A j \in 1..Len(t) : SameButFolded(t[j], s[p[j]])

Shrinks(m, n) ==
  /\ Len(n) = Len(m)
  /\ \A k \in 1..Len(m) :
       /\ Len(n[k].blocks) = Len(m[k].blocks)
       /\ \A b \in 1..Len(m[k].blocks) : \E p : CameFrom(Body(n, k, b), Body(m, k, b), p)

LEMMA ShrinksKeepsOnce ==
  ASSUME NEW m \in Seq(Functions(Values)), NEW n \in Seq(Functions(Values)),
         Shrinks(m, n), OncePerBlock(m)
  PROVE  OncePerBlock(n)
  <1> SUFFICES ASSUME NEW k \in DOMAIN n, NEW b \in DOMAIN n[k].blocks,
                      NEW j \in DOMAIN Body(n, k, b), NEW l \in DOMAIN Body(n, k, b),
                      Body(n, k, b)[j].id # NoId, Body(n, k, b)[l].id = Body(n, k, b)[j].id
               PROVE  j = l
    BY DEF OncePerBlock, Body
  <1>1. /\ k \in 1..Len(m) /\ b \in 1..Len(m[k].blocks)
        /\ j \in 1..Len(Body(n, k, b)) /\ l \in 1..Len(Body(n, k, b))
        /\ k \in DOMAIN m /\ b \in DOMAIN m[k].blocks
        /\ DOMAIN Body(m, k, b) = 1..Len(Body(m, k, b))
    <2>1. k \in 1..Len(n) /\ k \in 1..Len(m) /\ k \in DOMAIN m
      BY ModuleShape DEF Shrinks
    <2>2. b \in 1..Len(n[k].blocks) /\ b \in 1..Len(m[k].blocks) /\ b \in DOMAIN m[k].blocks
      BY <2>1, ModuleShape DEF Shrinks
    <2> QED BY <2>1, <2>2, ModuleShape
  <1>2. PICK p : CameFrom(Body(n, k, b), Body(m, k, b), p)
    BY <1>1 DEF Shrinks
  <1>3. /\ p[j] \in DOMAIN Body(m, k, b) /\ p[l] \in DOMAIN Body(m, k, b)
        /\ Body(m, k, b)[p[j]].id # NoId
        /\ Body(m, k, b)[p[l]].id = Body(m, k, b)[p[j]].id
    BY <1>1, <1>2 DEF CameFrom, SameButFolded
  <1>4. p[j] = p[l]
    BY <1>1, <1>3 DEF OncePerBlock, Body
  <1> QED BY <1>1, <1>2, <1>4 DEF CameFrom

LEMMA ShrinksKeepsUnused ==
  ASSUME NEW m \in Seq(Functions(Values)), NEW n \in Seq(Functions(Values)),
         Shrinks(m, n), NEW v, ~Used(m, Ref(v))
  PROVE  ~Used(n, Ref(v))
  <1> SUFFICES ASSUME NEW k \in DOMAIN n, NEW b \in DOMAIN n[k].blocks,
                      NEW j \in DOMAIN Body(n, k, b),
                      NEW a \in DOMAIN Body(n, k, b)[j].args,
                      Body(n, k, b)[j].args[a] = Ref(v)
               PROVE  FALSE
    BY DEF Used, Uses, Body
  <1>1. /\ k \in 1..Len(m) /\ b \in 1..Len(m[k].blocks) /\ j \in 1..Len(Body(n, k, b))
        /\ k \in DOMAIN m /\ b \in DOMAIN m[k].blocks
        /\ DOMAIN Body(m, k, b) = 1..Len(Body(m, k, b))
    BY ModuleShape DEF Shrinks
  <1>2. PICK p : CameFrom(Body(n, k, b), Body(m, k, b), p)
    BY <1>1 DEF Shrinks
  <1>3. /\ p[j] \in DOMAIN Body(m, k, b)
        /\ SameButFolded(Body(n, k, b)[j], Body(m, k, b)[p[j]])
    BY <1>1, <1>2 DEF CameFrom
  <1>4. /\ a \in DOMAIN Body(m, k, b)[p[j]].args
        /\ Body(m, k, b)[p[j]].args[a] = Ref(v)
    BY <1>3 DEF SameButFolded, Ref
  <1> QED BY <1>1, <1>3, <1>4 DEF Used, Uses, Body

LEMMA ShrinksKeepsFit ==
  ASSUME NEW m \in Seq(Functions(Values)), NEW n \in Seq(Functions(Values)),
         Shrinks(m, n), FitForBackend(m)
  PROVE  FitForBackend(n)
  <1> SUFFICES ASSUME NEW k \in DOMAIN n
               PROVE  BranchesInside(n[k]) /\ UsesFollowDefinition(n[k])
    BY DEF FitForBackend
  <1>1. /\ k \in 1..Len(m) /\ k \in DOMAIN m /\ k \in 1..Len(n)
        /\ Len(n[k].blocks) = Len(m[k].blocks)
        /\ BranchesInside(m[k]) /\ UsesFollowDefinition(m[k])
    BY ModuleShape DEF Shrinks, FitForBackend
  <1>2. BranchesInside(n[k])
    <2> SUFFICES ASSUME NEW b \in 1..Len(n[k].blocks), NEW j \in 1..Len(Body(n, k, b)),
                        NEW t \in 1..Len(Body(n, k, b)[j].targets)
                 PROVE  Body(n, k, b)[j].targets[t] \in 1..Len(n[k].blocks)
      BY DEF BranchesInside, Body
    <2>1. PICK p : CameFrom(Body(n, k, b), Body(m, k, b), p)
      BY <1>1 DEF Shrinks
    <2>2. /\ p[j] \in 1..Len(Body(m, k, b))
          /\ Body(n, k, b)[j].targets = Body(m, k, b)[p[j]].targets
      BY <2>1 DEF CameFrom, SameButFolded
    <2>3. b \in 1..Len(m[k].blocks) /\ t \in 1..Len(Body(m, k, b)[p[j]].targets)
      BY <1>1, <2>2
    <2> QED BY <1>1, <2>2, <2>3 DEF BranchesInside, Body
  <1>3. UsesFollowDefinition(n[k])
    <2> SUFFICES ASSUME NEW b \in 1..Len(n[k].blocks),
                        NEW j \in 1..Len(Body(n, k, b)), NEW l \in 1..Len(Body(n, k, b)),
                        Body(n, k, b)[j].id # NoId,
                        NEW a \in 1..Len(Body(n, k, b)[l].args),
                        Body(n, k, b)[l].args[a] = Ref(Body(n, k, b)[j].id)
                 PROVE  j < l
      BY DEF UsesFollowDefinition, Body
    <2>1. PICK p : CameFrom(Body(n, k, b), Body(m, k, b), p)
      BY <1>1 DEF Shrinks
    <2>2. /\ p[j] \in 1..Len(Body(m, k, b)) /\ p[l] \in 1..Len(Body(m, k, b))
          /\ SameButFolded(Body(n, k, b)[j], Body(m, k, b)[p[j]])
          /\ SameButFolded(Body(n, k, b)[l], Body(m, k, b)[p[l]])
      BY <2>1 DEF CameFrom
    <2>3. b \in 1..Len(m[k].blocks)
      BY <1>1
    <2>4. /\ DOMAIN Body(n, k, b)[l].args = 1..Len(Body(n, k, b)[l].args)
          /\ DOMAIN Body(m, k, b)[p[l]].args = 1..Len(Body(m, k, b)[p[l]].args)
      BY <1>1, <2>2, <2>3, ModuleShape, InstructionShape
    <2>5. /\ a \in 1..Len(Body(m, k, b)[p[l]].args)
          /\ Body(m, k, b)[p[l]].args[a] = Ref(Body(m, k, b)[p[j]].id)
          /\ Body(m, k, b)[p[j]].id # NoId
      <3>1. /\ a \in DOMAIN Body(m, k, b)[p[l]].args
            /\ Body(n, k, b)[l].args[a] = Body(m, k, b)[p[l]].args[a]
        <4>1. ~Body(n, k, b)[l].args[a].imm
          BY DEF Ref
        <4> QED BY <2>2, <2>4, <4>1, Zenon DEF SameButFolded
      <3>2. a \in 1..Len(Body(m, k, b)[p[l]].args)
        BY <2>4, <3>1
      <3>3. Body(n, k, b)[j].id = Body(m, k, b)[p[j]].id
        BY <2>2 DEF SameButFolded
      <3> QED BY <3>1, <3>2, <3>3, Zenon
    <2>6. p[j] < p[l]
      BY <1>1, <2>2, <2>3, <2>5 DEF UsesFollowDefinition, Body
    <2> QED BY <2>1, <2>6 DEF CameFrom
  <1> QED BY <1>2, <1>3

LEMMA ShrinksKeepsDefined ==
  ASSUME NEW m \in Seq(Functions(Values)), NEW n \in Seq(Functions(Values)),
         Shrinks(m, n), OperandsDefined(m),
         \A k \in 1..Len(m) : \A v :
           Defines(m[k], v) /\ Used(m, Ref(v)) => Defines(n[k], v)
  PROVE  OperandsDefined(n)
  <1> SUFFICES ASSUME NEW k \in DOMAIN n, NEW b \in DOMAIN n[k].blocks,
                      NEW j \in DOMAIN Body(n, k, b),
                      NEW a \in DOMAIN Body(n, k, b)[j].args,
                      ~Body(n, k, b)[j].args[a].imm
               PROVE  Defines(n[k], Body(n, k, b)[j].args[a].id)
    BY DEF OperandsDefined, Body
  <1> DEFINE o == Body(n, k, b)[j].args[a]
  <1>1. /\ k \in 1..Len(m) /\ b \in 1..Len(m[k].blocks) /\ j \in 1..Len(Body(n, k, b))
        /\ k \in DOMAIN m /\ b \in DOMAIN m[k].blocks
        /\ DOMAIN Body(m, k, b) = 1..Len(Body(m, k, b))
    <2>1. k \in 1..Len(n) /\ k \in 1..Len(m) /\ k \in DOMAIN m
      BY ModuleShape DEF Shrinks
    <2>2. b \in 1..Len(n[k].blocks) /\ b \in 1..Len(m[k].blocks) /\ b \in DOMAIN m[k].blocks
      BY <2>1, ModuleShape DEF Shrinks
    <2> QED BY <2>1, <2>2, ModuleShape
  <1>2. PICK p : CameFrom(Body(n, k, b), Body(m, k, b), p)
    BY <1>1 DEF Shrinks
  <1>3. /\ p[j] \in DOMAIN Body(m, k, b)
        /\ SameButFolded(Body(n, k, b)[j], Body(m, k, b)[p[j]])
    BY <1>1, <1>2 DEF CameFrom
  <1>4. a \in DOMAIN Body(m, k, b)[p[j]].args /\ Body(m, k, b)[p[j]].args[a] = o
    BY <1>3, Zenon DEF SameButFolded
  <1>5. Defines(m[k], o.id)
    BY <1>1, <1>3, <1>4 DEF OperandsDefined, Body
  <1>6. o = Ref(o.id)
    <2>1. Body(m, k, b)[p[j]] \in Code(Values)
      BY <1>1, <1>3, ModuleShape
    <2>2. o \in Operands(Values)
      BY <1>4, <2>1, InstructionShape
    <2> HIDE DEF o
    <2>3. ASSUME NEW q \in Operands(Values), ~q.imm
          PROVE  q = Ref(q.id)
      <3>1. q \in [imm : {FALSE}, id : Values]
        BY <2>3 DEF Operands
      <3>2. q = [imm |-> FALSE, id |-> q.id]
        BY <3>1
      <3> QED BY <3>2 DEF Ref
    <2>4. ~o.imm
      BY DEF o
    <2> QED BY <2>2, <2>3, <2>4
  <1>7. Used(m, Ref(o.id))
    BY <1>1, <1>3, <1>4, <1>6 DEF Used, Uses, Body
  <1> QED BY <1>1, <1>5, <1>7

LEMMA FoldingShrinks ==
  ASSUME NEW m \in Seq(Functions(Values)), NEW old, NEW new \in Operands(Values), new.imm,
         NEW n, n = replaceAllUses(m, old, new)
  PROVE  /\ n \in Seq(Functions(Values)) /\ Shrinks(m, n)
         /\ OperandsDefined(m) => OperandsDefined(n)
  <1>1. /\ n \in Seq(Functions(Values)) /\ Len(n) = Len(m)
        /\ \A k \in 1..Len(m) :
             /\ Len(n[k].blocks) = Len(m[k].blocks)
             /\ \A b \in 1..Len(m[k].blocks) :
                  /\ Len(Body(n, k, b)) = Len(Body(m, k, b))
                  /\ \A j \in 1..Len(Body(m, k, b)) :
                       Body(n, k, b)[j] = ReplaceUses(Body(m, k, b)[j], old, new)
    BY ModuleReplaced
  <1>2. ASSUME NEW k \in 1..Len(m), NEW b \in 1..Len(m[k].blocks),
               NEW j \in 1..Len(Body(m, k, b))
        PROVE  SameButFolded(Body(n, k, b)[j], Body(m, k, b)[j])
    <2>1. Body(m, k, b)[j] \in Code(Values)
      BY ModuleShape
    <2>2. Body(n, k, b)[j] = ReplaceUses(Body(m, k, b)[j], old, new)
      BY <1>1
    <2> QED BY <2>1, <2>2, InstructionReplaced DEF SameButFolded
  <1>3. Shrinks(m, n)
    <2> SUFFICES ASSUME NEW k \in 1..Len(m), NEW b \in 1..Len(m[k].blocks)
                 PROVE  \E p : CameFrom(Body(n, k, b), Body(m, k, b), p)
      BY <1>1 DEF Shrinks
    <2> DEFINE p == [j \in 1..Len(Body(n, k, b)) |-> j]
    <2>1. Len(Body(n, k, b)) = Len(Body(m, k, b))
      BY <1>1
    <2>2. CameFrom(Body(n, k, b), Body(m, k, b), p)
      BY <1>2, <2>1 DEF CameFrom
    <2> QED BY <2>2
  <1>4. ASSUME NEW k \in 1..Len(m), NEW v, Defines(m[k], v)
        PROVE  Defines(n[k], v)
    <2>1. PICK b \in DOMAIN m[k].blocks : \E j \in DOMAIN Body(m, k, b) : Body(m, k, b)[j].id = v
      BY <1>4 DEF Defines, Body
    <2>2. PICK j \in DOMAIN Body(m, k, b) : Body(m, k, b)[j].id = v
      BY <2>1
    <2>3. b \in 1..Len(m[k].blocks) /\ j \in 1..Len(Body(m, k, b))
      BY ModuleShape
    <2>4. b \in DOMAIN n[k].blocks
      BY <1>1, <2>3, ModuleShape
    <2>5. j \in DOMAIN Body(n, k, b) /\ Body(n, k, b)[j].id = v
      <3>1. k \in 1..Len(n) /\ b \in 1..Len(n[k].blocks)
        BY <1>1, <2>3
      <3>2. DOMAIN Body(n, k, b) = 1..Len(Body(n, k, b))
        BY <1>1, <3>1, ModuleShape
      <3> QED BY <1>1, <1>2, <2>2, <2>3, <3>2 DEF SameButFolded
    <2> QED BY <2>4, <2>5 DEF Defines, Body
  <1> QED BY <1>1, <1>3, <1>4, ShrinksKeepsDefined

LEMMA RemovingShrinks ==
  ASSUME NEW m \in Seq(Functions(Values)), NEW k \in 1..Len(m), NEW b \in 1..Len(m[k].blocks),
         NEW q \in 1..Len(Body(m, k, b)), ~Used(m, Ref(Body(m, k, b)[q].id)),
         NEW n, n = WithBody(m, k, b, RemoveAt(Body(m, k, b), q))
  PROVE  /\ n \in Seq(Functions(Values)) /\ Shrinks(m, n)
         /\ OperandsDefined(m) => OperandsDefined(n)
  <1> DEFINE s == Body(m, k, b)
             t == RemoveAt(s, q)
             from(j) == IF j < q THEN j ELSE j + 1
  <1>1. s \in Seq(Code(Values)) /\ Len(s) \in Nat /\ q \in 1..Len(s)
    BY ModuleShape
  <1>2. /\ t \in Seq(Code(Values)) /\ Len(t) = Len(s) - 1
        /\ \A j \in 1..(Len(s) - 1) : t[j] = IF j < q THEN s[j] ELSE s[j + 1]
    BY <1>1, Removed
  <1>3. n = WithBody(m, k, b, t)
    OBVIOUS
  <1> HIDE DEF t
  <1>4. /\ n \in Seq(Functions(Values)) /\ Len(n) = Len(m)
        /\ \A f \in 1..Len(m) :
             /\ Len(n[f].blocks) = Len(m[f].blocks)
             /\ \A c \in 1..Len(m[f].blocks) :
                  Body(n, f, c) = IF f = k /\ c = b THEN t ELSE Body(m, f, c)
    BY <1>2, <1>3, BodyExchanged
  <1> HIDE DEF s
  <1>5. \E p : CameFrom(t, s, p)
    <2> DEFINE p == [j \in 1..Len(t) |-> from(j)]
    <2>1. p \in [1..Len(t) -> 1..Len(s)]
      BY <1>1, <1>2
    <2>2. \A j \in 1..Len(t) : t[j] = s[p[j]]
      BY <1>1, <1>2
    <2>3. \A j, l \in 1..Len(t) : (p[j] < p[l] => j < l) /\ (p[j] = p[l] => j = l)
      BY <1>1, <1>2
    <2>4. \A j \in 1..Len(t) : SameButFolded(t[j], s[p[j]])
      BY <2>2 DEF SameButFolded
    <2> HIDE DEF p
    <2>5. CameFrom(t, s, p)
      BY <2>1, <2>3, <2>4 DEF CameFrom
    <2> QED BY <2>5
  <1>6. ASSUME NEW u \in Seq(Code(Values))
        PROVE  \E p : CameFrom(u, u, p)
    <2> DEFINE p == [j \in 1..Len(u) |-> j]
    <2>1. CameFrom(u, u, p)
      BY DEF CameFrom, SameButFolded
    <2> QED BY <2>1
  <1>7. Shrinks(m, n)
    <2> SUFFICES ASSUME NEW f \in 1..Len(m), NEW c \in 1..Len(m[f].blocks)
                 PROVE  \E p : CameFrom(Body(n, f, c), Body(m, f, c), p)
      BY <1>4 DEF Shrinks
    <2>1. CASE f = k /\ c = b
      BY <1>4, <1>5, <2>1 DEF s
    <2>2. CASE ~(f = k /\ c = b)
      <3>1. Body(n, f, c) = Body(m, f, c) /\ Body(m, f, c) \in Seq(Code(Values))
        BY <1>4, <2>2, ModuleShape
      <3> QED BY <1>6, <3>1
    <2> QED BY <2>1, <2>2
  <1>8. ASSUME NEW f \in 1..Len(m), NEW v, Defines(m[f], v), Used(m, Ref(v))
        PROVE  Defines(n[f], v)
    <2>1. PICK c \in DOMAIN m[f].blocks : \E j \in DOMAIN Body(m, f, c) : Body(m, f, c)[j].id = v
      BY <1>8 DEF Defines, Body
    <2>2. PICK j \in DOMAIN Body(m, f, c) : Body(m, f, c)[j].id = v
      BY <2>1
    <2>3. /\ c \in 1..Len(m[f].blocks) /\ j \in 1..Len(Body(m, f, c))
          /\ f \in 1..Len(n) /\ c \in 1..Len(n[f].blocks) /\ c \in DOMAIN n[f].blocks
      <3>1. c \in 1..Len(m[f].blocks)
        BY ModuleShape
      <3>2. j \in 1..Len(Body(m, f, c))
        BY <3>1, ModuleShape
      <3>3. f \in 1..Len(n) /\ c \in 1..Len(n[f].blocks)
        BY <1>4, <3>1
      <3> QED BY <1>4, <3>1, <3>2, <3>3, ModuleShape
    <2>4. \E l \in DOMAIN Body(n, f, c) : Body(n, f, c)[l].id = v
      <3>1. DOMAIN Body(n, f, c) = 1..Len(Body(n, f, c))
        BY <1>4, <2>3, ModuleShape
      <3>2. CASE f = k /\ c = b
        <4>1. Body(n, f, c) = t /\ Body(m, f, c) = s
          BY <1>4, <2>3, <3>2 DEF s
        <4>2. j # q
          BY <1>8, <2>2, <3>2
        <4>3. j \in 1..Len(s) /\ s[j].id = v
          BY <2>2, <2>3, <4>1
        <4>4. CASE j < q
          <5>1. j \in 1..(Len(s) - 1)
            BY <1>1, <4>3, <4>4
          <5>2. t[j] = s[j]
            BY <1>2, <4>4, <5>1
          <5>3. j \in 1..Len(t)
            BY <1>2, <5>1
          <5>4. j \in DOMAIN Body(n, f, c) /\ Body(n, f, c)[j].id = v
            BY <3>1, <4>1, <4>3, <5>2, <5>3
          <5> QED BY <5>4
        <4>5. CASE j > q
          <5>1. j - 1 \in 1..(Len(s) - 1) /\ ~(j - 1 < q) /\ (j - 1) + 1 = j
            BY <1>1, <4>3, <4>5
          <5>2. t[j - 1] = s[j]
            BY <1>2, <5>1
          <5>3. j - 1 \in 1..Len(t)
            BY <1>2, <5>1
          <5>4. j - 1 \in DOMAIN Body(n, f, c) /\ Body(n, f, c)[j - 1].id = v
            BY <3>1, <4>1, <4>3, <5>2, <5>3
          <5> QED BY <5>4
        <4>6. j < q \/ j > q
          BY <1>1, <4>2, <4>3
        <4> QED BY <4>4, <4>5, <4>6, Zenon
      <3>3. CASE ~(f = k /\ c = b)
        BY <1>4, <2>2, <2>3, <3>1, <3>3
      <3> QED BY <3>2, <3>3
    <2> QED BY <2>3, <2>4 DEF Defines, Body
  <1> QED BY <1>4, <1>7, <1>8, ShrinksKeepsDefined

-----------------------------------------------------------------------------
LEMMA FoldedIsImmediate ==
  ASSUME NEW x \in Code(Values), Foldable(x)
  PROVE  Folded(x) \in Operands(Values) /\ Folded(x).imm
  <1> DEFINE n == IF x.op = "add" THEN x.args[1].id + x.args[2].id
                  ELSE x.args[1].id - x.args[2].id
  <1>1. n \in Int
    BY InstructionShape
  <1>2. MinInt \in Int /\ 2^WordBits \in Nat \ {0}
    BY WidthAssumption, WrapAssumption DEF MinInt
  <1>3. Folded(x) = [imm |-> TRUE, id |-> Wrap(n)]
    BY DEF Folded, Const
  <1> HIDE DEF n
  <1>4. Wrap(n) \in Int
    BY <1>1, <1>2 DEF Wrap
  <1> QED BY <1>3, <1>4 DEF Operands

LEMMA Here ==
  ASSUME TypeOK, InBlock
  PROVE  /\ fn \in 1..Len(module) /\ bb \in 1..Len(module[fn].blocks)
         /\ Insts = Body(module, fn, bb) /\ Insts \in Seq(Code(Values)) /\ Len(Insts) \in Nat
         /\ AtInst => i \in 1..Len(Insts) /\ inst \in Code(Values)
  <1>1. fn \in 1..Len(module)
    BY ModuleShape DEF TypeOK, InBlock, InFunction
  <1>2. bb \in 1..Len(module[fn].blocks)
    BY <1>1, ModuleShape DEF TypeOK, InBlock
  <1>3. Insts = Body(module, fn, bb) /\ Insts \in Seq(Code(Values)) /\ Len(Insts) \in Nat
    BY <1>1, <1>2, ModuleShape DEF TypeOK, Insts, Body
  <1>4. ASSUME AtInst PROVE i \in 1..Len(Insts) /\ inst \in Code(Values)
    <2>1. i \in 1..Len(Insts)
      BY <1>3, <1>4 DEF TypeOK, AtInst
    <2> QED BY <1>3, <2>1, ElementOfSeq DEF inst
  <1> QED BY <1>1, <1>2, <1>3, <1>4

LEMMA InitIInv == Init => IInv
  <1> SUFFICES ASSUME Init PROVE IInv
    OBVIOUS
  <1>1. /\ module \in Seq(Functions(Values)) /\ Sound
        /\ pass = "fold" /\ fn = 1 /\ bb = 1 /\ i = 1 /\ toRemove = << >> /\ changed = FALSE
    BY ModulesAssumption DEF Init, Reset, Sound
  <1>2. TypeOK
    <2>1. << >> \in Seq(Values) /\ Len(module) \in Nat
      BY <1>1, LenProperties
    <2>2. fn \in 1..(Len(module) + 1) /\ bb \in Nat \ {0} /\ i \in Nat \ {0}
      BY <1>1, <2>1
    <2>3. toRemove \in Seq(Values)
      BY <1>1, <2>1, Zenon
    <2> QED BY <1>1, <2>2, <2>3, Zenon DEF TypeOK
  <1>3. Marks
    BY <1>1 DEF Marks
  <1>4. Everywhere(SeenUnfolded)
    <2>1. ASSUME NEW k \in Nat, NEW b \in Nat, NEW j \in Nat, k >= 1, b >= 1, j >= 1
          PROVE  ~Seen(k, b, j)
      BY <1>1, <2>1 DEF Seen
    <2> QED BY <2>1, <1>1, ModuleShape DEF Everywhere, SeenUnfolded
  <1>5. Rounds
    BY <1>1, <1>4 DEF Rounds
  <1> QED BY <1>1, <1>2, <1>3, <1>5 DEF IInv

LEMMA FoldKeeps == IInv /\ Fold => IInv'
  <1> SUFFICES ASSUME IInv, Fold PROVE IInv'
    OBVIOUS
  <1>1. /\ pass = "fold" /\ pass' = pass /\ toRemove = << >> /\ toRemove' = toRemove
        /\ changed' = TRUE /\ fn' = fn /\ bb' = bb /\ i' = i + 1 /\ TypeOK /\ InBlock
        /\ AtInst /\ Foldable(inst)
        /\ module' = replaceAllUses(module, Ref(inst.id), Folded(inst))
    BY DEF IInv, Fold, Marks, AtInst
  <1>2. /\ module' \in Seq(Functions(Values)) /\ Shrinks(module, module')
        /\ OperandsDefined(module) => OperandsDefined(module')
    <2>1. inst \in Code(Values) /\ module \in Seq(Functions(Values))
      BY <1>1, Here DEF TypeOK
    <2>2. Folded(inst) \in Operands(Values) /\ Folded(inst).imm
      BY <1>1, <2>1, FoldedIsImmediate
    <2> QED BY <1>1, <2>1, <2>2, FoldingShrinks
  <1>3. TypeOK'
    BY <1>1, <1>2 DEF TypeOK, Shrinks
  <1>4. Sound'
    BY <1>1, <1>2, ShrinksKeepsOnce, ShrinksKeepsFit DEF IInv, TypeOK, Sound
  <1>5. Marks'
    BY <1>1 DEF Marks
  <1>6. Rounds'
    BY <1>1 DEF Rounds
  <1> QED BY <1>3, <1>4, <1>5, <1>6 DEF IInv

(* The walk moves on and the module stays as it is.                        *)
LEMMA TerminateKeeps == IInv /\ Terminate => IInv'
  <1> SUFFICES ASSUME IInv, Terminate PROVE IInv'
    OBVIOUS
  <1> USE DEF IInv, Terminate, walk
  <1>1. TypeOK'
    BY DEF TypeOK
  <1>2. Sound'
    BY DEF Sound
  <1>3. Marks'
    BY DEF Marks
  <1>4. Rounds'
    BY DEF Rounds
  <1> QED BY <1>1, <1>2, <1>3, <1>4

LEMMA MarkDeadKeeps == IInv /\ MarkDead => IInv'
  <1> SUFFICES ASSUME IInv, MarkDead PROVE IInv'
    OBVIOUS
  <1>1. /\ pass = "dce" /\ pass' = pass /\ AtInst /\ InBlock /\ TypeOK /\ Sound /\ Marks /\ Rounds
        /\ Removable(inst) /\ ~Used(module, Ref(inst.id))
        /\ toRemove' = Append(toRemove, inst.id)
        /\ module' = module /\ fn' = fn /\ bb' = bb /\ i' = i + 1 /\ changed' = changed
    BY DEF IInv, MarkDead, AtInst
  <1>2. /\ inst \in Code(Values) /\ i \in 1..Len(Insts) /\ Len(Insts) \in Nat /\ inst.id \in Values
        /\ toRemove \in Seq(Values) /\ Insts' = Insts /\ Insts[i] = inst
        /\ Insts = Body(module, fn, bb)
        /\ fn \in 1..Len(module) /\ bb \in 1..Len(module[fn].blocks)
    BY <1>1, Here, InstructionShape DEF TypeOK, Insts, inst
  <1>3. /\ toRemove' \in Seq(Values) /\ Len(toRemove') = Len(toRemove) + 1 /\ Len(toRemove) \in Nat
        /\ \A r \in 1..Len(toRemove) : toRemove'[r] = toRemove[r]
        /\ toRemove'[Len(toRemove) + 1] = inst.id
    BY <1>1, <1>2, AppendProperties, LenProperties
  <1>4. TypeOK'
    BY <1>1, <1>3 DEF TypeOK
  <1>5. Sound'
    BY <1>1 DEF Sound
  <1>6. \A r \in 1..Len(toRemove') : r \in 1..Len(toRemove) \/ r = Len(toRemove) + 1
    BY <1>3
  <1>7. \A r \in 1..Len(toRemove) : toRemove[r] # inst.id
    <2>1. ASSUME NEW r \in 1..Len(toRemove), toRemove[r] = inst.id
          PROVE  FALSE
      <3>1. PICK j \in 1..Len(Insts) : j < i /\ Insts[j].id = toRemove[r]
        BY <1>1 DEF Marks
      <3>2. inst.id # NoId
        BY <1>2, ModulesAssumption
      <3>3. DOMAIN Insts = 1..Len(Insts) /\ fn \in DOMAIN module /\ bb \in DOMAIN module[fn].blocks
        BY <1>1, <1>2, ModuleShape DEF TypeOK
      <3>4. j = i
        BY <1>1, <1>2, <2>1, <3>1, <3>2, <3>3, Zenon DEF Sound, OncePerBlock, Insts
      <3> QED BY <1>2, <3>1, <3>4
    <2> QED BY <2>1
  <1>8. Marks'
    <2>1. (pass # "dce" => toRemove = << >>)' /\ (toRemove # << >> => InBlock)'
      BY <1>1 DEF InBlock, InFunction
    <2>2. ASSUME NEW r \in 1..Len(toRemove')
          PROVE  /\ ~Used(module', Ref(toRemove'[r]))
                 /\ \E j \in 1..Len(Insts') : j < i' /\ Insts'[j].id = toRemove'[r]
      <3>1. CASE r \in 1..Len(toRemove)
        <4>1. ~Used(module', Ref(toRemove'[r]))
          BY <1>1, <1>3, <3>1 DEF Marks
        <4>2. PICK j \in 1..Len(Insts) : j < i /\ Insts[j].id = toRemove[r]
          BY <1>1, <3>1 DEF Marks
        <4>3. j < i'
          BY <1>1, <1>2, <4>2
        <4> QED BY <1>2, <1>3, <3>1, <4>1, <4>2, <4>3
      <3>2. CASE r = Len(toRemove) + 1
        <4>1. ~Used(module', Ref(toRemove'[r]))
          BY <1>1, <1>3, <3>2
        <4>2. i < i' /\ i \in 1..Len(Insts') /\ Insts'[i].id = toRemove'[r]
          BY <1>1, <1>2, <1>3, <3>2
        <4> QED BY <4>1, <4>2
      <3> QED BY <1>6, <3>1, <3>2
    <2>3. ASSUME NEW r \in 1..Len(toRemove'), NEW q \in 1..Len(toRemove'),
                 toRemove'[r] = toRemove'[q]
          PROVE  r = q
      BY <1>1, <1>3, <1>6, <1>7, <2>3 DEF Marks
    <2> QED BY <2>1, <2>2, <2>3 DEF Marks
  <1>9. Rounds'
    <2>1. toRemove' # << >>
      BY <1>3
    <2>2. pass = "dce" /\ ~changed => Everywhere(Unfolded)'
      BY <1>1 DEF Rounds, Everywhere, Unfolded
    <2> QED BY <1>1, <2>1, <2>2 DEF Rounds
  <1> QED BY <1>4, <1>5, <1>8, <1>9 DEF IInv

LEMMA KeepKeeps == IInv /\ Keep => IInv'
  <1> SUFFICES ASSUME IInv, Keep PROVE IInv'
    OBVIOUS
  <1>1. /\ AtInst /\ InBlock /\ TypeOK /\ Sound /\ Marks /\ Rounds
        /\ \/ pass = "fold" /\ ~Foldable(inst)
           \/ pass = "dce" /\ (Removable(inst) => Used(module, Ref(inst.id)))
        /\ i' = i + 1 /\ module' = module /\ pass' = pass /\ fn' = fn /\ bb' = bb
        /\ toRemove' = toRemove /\ changed' = changed
    BY DEF IInv, Keep, AtInst
  <1>2. /\ i \in 1..Len(Insts) /\ Len(Insts) \in Nat /\ Insts' = Insts
        /\ Insts = Body(module, fn, bb) /\ inst = Body(module, fn, bb)[i]
    BY <1>1, Here DEF Insts, inst
  <1>3. TypeOK'
    BY <1>1 DEF TypeOK
  <1>4. Sound'
    BY <1>1 DEF Sound
  <1>5. Marks'
    <2>1. (pass # "dce" => toRemove = << >>)' /\ (toRemove # << >> => InBlock)'
      BY <1>1 DEF Marks, InBlock, InFunction
    <2>2. ASSUME NEW r \in 1..Len(toRemove')
          PROVE  /\ ~Used(module', Ref(toRemove'[r]))
                 /\ \E j \in 1..Len(Insts') : j < i' /\ Insts'[j].id = toRemove'[r]
      <3>1. PICK j \in 1..Len(Insts) : j < i /\ Insts[j].id = toRemove[r]
        BY <1>1 DEF Marks
      <3>2. j < i'
        BY <1>1, <1>2, <3>1
      <3> QED BY <1>1, <1>2, <3>1, <3>2 DEF Marks
    <2>3. \A r, q \in 1..Len(toRemove') : toRemove'[r] = toRemove'[q] => r = q
      BY <1>1 DEF Marks
    <2> QED BY <2>1, <2>2, <2>3 DEF Marks
  <1>6. ASSUME NEW k \in Nat, NEW b \in Nat, NEW j \in Nat, Seen(k, b, j)'
        PROVE  Seen(k, b, j) \/ (k = fn /\ b = bb /\ j = i)
    BY <1>1, <1>2, <1>6 DEF Seen
  <1>7. ASSUME NEW k \in 1..Len(module), NEW b \in 1..Len(module[k].blocks),
               NEW j \in 1..Len(Body(module, k, b))
        PROVE  k \in Nat /\ b \in Nat /\ j \in Nat
    OBVIOUS
  <1>8. Rounds'
    <2>1. ASSUME pass = "fold", ~changed
          PROVE  Everywhere(SeenUnfolded)'
      <3>1. Everywhere(SeenUnfolded)
        BY <1>1, <2>1 DEF Rounds
      <3>2. ~Foldable(inst)
        BY <1>1, <2>1
      <3>3. ASSUME NEW k \in 1..Len(module), NEW b \in 1..Len(module[k].blocks),
                   NEW j \in 1..Len(Body(module, k, b)), Seen(k, b, j)'
            PROVE  ~Foldable(Body(module, k, b)[j])
        <4>1. Seen(k, b, j) \/ (k = fn /\ b = bb /\ j = i)
          BY <1>6, <1>7, <3>3
        <4>2. CASE Seen(k, b, j)
          BY <3>1, <4>2 DEF Everywhere, SeenUnfolded, Unfolded
        <4> QED BY <1>2, <3>2, <4>1, <4>2
      <3> QED BY <1>1, <3>3 DEF Everywhere, SeenUnfolded, Unfolded
    <2>2. ASSUME pass = "dce", ~changed
          PROVE  Everywhere(Unfolded)'
      BY <1>1, <2>2 DEF Rounds, Everywhere, Unfolded
    <2>3. ASSUME pass = "dce", ~changed, toRemove = << >>
          PROVE  Everywhere(SeenAlive)'
      <3>1. Everywhere(SeenAlive)
        BY <1>1, <2>3 DEF Rounds
      <3>2. Removable(inst) => Used(module, Ref(inst.id))
        BY <1>1, <2>3
      <3>3. ASSUME NEW k \in 1..Len(module), NEW b \in 1..Len(module[k].blocks),
                   NEW j \in 1..Len(Body(module, k, b)), Seen(k, b, j)'
            PROVE  Alive(k, b, j)
        <4>1. Seen(k, b, j) \/ (k = fn /\ b = bb /\ j = i)
          BY <1>6, <1>7, <3>3
        <4>2. CASE Seen(k, b, j)
          BY <3>1, <4>2 DEF Everywhere, SeenAlive
        <4> QED BY <1>2, <3>2, <4>1, <4>2 DEF Alive
      <3> QED BY <1>1, <3>3 DEF Everywhere, SeenAlive, Alive
    <2> QED BY <1>1, <2>1, <2>2, <2>3 DEF Rounds
  <1> QED BY <1>3, <1>4, <1>5, <1>8 DEF IInv

(* The block loses the first of the marked instructions; the other marks   *)
(* still stand for what they stood for.                                    *)
LEMMA RemoveDeadKeeps == IInv /\ RemoveDead => IInv'
  <1> SUFFICES ASSUME IInv, RemoveDead PROVE IInv'
    OBVIOUS
  <1> DEFINE v == Head(toRemove)
             q == CHOOSE j \in DOMAIN Insts : Insts[j].id = v
  <1>1. /\ pass = "dce" /\ pass' = pass /\ InBlock /\ ~AtInst /\ toRemove # << >>
        /\ TypeOK /\ Sound /\ Marks
        /\ toRemove' = Tail(toRemove) /\ changed' = TRUE
        /\ fn' = fn /\ bb' = bb /\ i' = i
        /\ module' = [module EXCEPT ![fn].blocks[bb].insts = removeInstruction(@, v)]
    BY DEF IInv, RemoveDead, walk
  <1>2. /\ Insts = Body(module, fn, bb) /\ Insts \in Seq(Code(Values)) /\ Len(Insts) \in Nat
        /\ DOMAIN Insts = 1..Len(Insts)
        /\ module \in Seq(Functions(Values))
        /\ fn \in 1..Len(module) /\ bb \in 1..Len(module[fn].blocks)
    BY <1>1, Here, LenProperties DEF TypeOK
  <1>3. /\ toRemove \in Seq(Values) /\ Len(toRemove) \in Nat /\ 1 \in 1..Len(toRemove)
        /\ v = toRemove[1]
        /\ toRemove' \in Seq(Values) /\ Len(toRemove') = Len(toRemove) - 1
        /\ \A r \in 1..Len(toRemove') : toRemove'[r] = toRemove[r + 1]
                                        /\ r + 1 \in 1..Len(toRemove)
    <2>1. toRemove \in Seq(Values) /\ Len(toRemove) \in Nat /\ Len(toRemove) # 0
      BY <1>1, LenProperties, EmptySeq DEF TypeOK
    <2>2. /\ toRemove' \in Seq(Values) /\ Len(toRemove') = Len(toRemove) - 1
          /\ \A r \in 1..Len(toRemove') : toRemove'[r] = toRemove[r + 1]
      BY <1>1, <2>1, HeadTailProperties
    <2>3. v = toRemove[1]
      BY <1>1, <2>1
    <2> QED BY <2>1, <2>2, <2>3
  <1>4. q \in 1..Len(Insts) /\ Insts[q].id = v
    <2>1. PICK j \in 1..Len(Insts) : j < i /\ Insts[j].id = toRemove[1]
      BY <1>1, <1>3, Zenon DEF Marks
    <2>2. \E l \in DOMAIN Insts : Insts[l].id = v
      BY <1>2, <1>3, <2>1, Zenon
    <2> QED BY <1>2, <2>2, Zenon
  <1> HIDE DEF q
  <1>5. ~Used(module, Ref(Insts[q].id))
    BY <1>1, <1>3, <1>4 DEF Marks
  <1>6. module' = WithBody(module, fn, bb, RemoveAt(Body(module, fn, bb), q))
    BY <1>1, <1>2, Zenon DEF WithBody, removeInstruction, q, Insts, Body
  <1>7. /\ module' \in Seq(Functions(Values)) /\ Shrinks(module, module')
        /\ OperandsDefined(module) => OperandsDefined(module')
    <2>1. q \in 1..Len(Body(module, fn, bb)) /\ ~Used(module, Ref(Body(module, fn, bb)[q].id))
      BY <1>2, <1>4, <1>5
    <2> QED BY <1>2, <1>6, <2>1, RemovingShrinks
  <1>8. Insts' = RemoveAt(Insts, q)
    <2>1. RemoveAt(Insts, q) \in Seq(Code(Values))
      BY <1>2, <1>4, Removed
    <2>2. Body(module', fn, bb) = RemoveAt(Insts, q)
      BY <1>2, <1>6, <2>1, BodyExchanged
    <2> QED BY <1>1, <2>2 DEF Insts, Body
  <1>9. TypeOK'
    BY <1>1, <1>3, <1>7 DEF TypeOK, Shrinks
  <1>10. Sound'
    BY <1>1, <1>2, <1>7, ShrinksKeepsOnce, ShrinksKeepsFit DEF Sound
  <1>11. Marks'
    <2>1. (pass # "dce" => toRemove = << >>)' /\ InBlock'
      BY <1>1, <1>2, <1>7 DEF InBlock, InFunction, Shrinks
    <2>2. ASSUME NEW r \in 1..Len(toRemove')
          PROVE  /\ ~Used(module', Ref(toRemove'[r]))
                 /\ \E j \in 1..Len(Insts') : j < i' /\ Insts'[j].id = toRemove'[r]
      <3>1. toRemove'[r] = toRemove[r + 1] /\ r + 1 \in 1..Len(toRemove) /\ r + 1 # 1
        BY <1>3
      <3>2. ~Used(module, Ref(toRemove[r + 1])) /\ toRemove[r + 1] # toRemove[1]
        BY <1>1, <1>3, <3>1 DEF Marks
      <3>3. ~Used(module', Ref(toRemove'[r]))
        BY <1>2, <1>7, <3>1, <3>2, ShrinksKeepsUnused
      <3>4. PICK j \in 1..Len(Insts) : j < i /\ Insts[j].id = toRemove[r + 1]
        BY <1>1, <3>1 DEF Marks
      <3>5. j # q
        BY <1>3, <1>4, <3>2, <3>4
      <3>6. /\ Len(Insts') = Len(Insts) - 1
            /\ \A l \in 1..(Len(Insts) - 1) :
                 Insts'[l] = IF l < q THEN Insts[l] ELSE Insts[l + 1]
        BY <1>2, <1>4, <1>8, Removed
      <3>7. CASE j < q
        <4>1. j \in 1..(Len(Insts) - 1)
          BY <1>2, <1>4, <3>7
        <4>2. Insts'[j] = Insts[j] /\ j \in 1..Len(Insts')
          BY <3>6, <3>7, <4>1
        <4> QED BY <1>1, <3>1, <3>3, <3>4, <4>2
      <3>8. CASE j > q
        <4>1. j - 1 \in 1..(Len(Insts) - 1) /\ ~(j - 1 < q) /\ (j - 1) + 1 = j
          BY <1>2, <1>4, <3>8
        <4>2. Insts'[j - 1] = Insts[j] /\ j - 1 \in 1..Len(Insts')
          BY <3>6, <4>1
        <4>3. j - 1 < i'
          BY <1>1, <1>2, <3>4 DEF TypeOK
        <4>4. Insts'[j - 1].id = toRemove'[r]
          BY <3>1, <3>4, <4>2
        <4> QED BY <3>3, <4>2, <4>3, <4>4
      <3>9. j < q \/ j > q
        BY <1>4, <3>5
      <3> QED BY <3>7, <3>8, <3>9
    <2>3. ASSUME NEW r \in 1..Len(toRemove'), NEW p \in 1..Len(toRemove'),
                 toRemove'[r] = toRemove'[p]
          PROVE  r = p
      <3>1. r + 1 = p + 1
        BY <1>1, <1>3, <2>3 DEF Marks
      <3> QED BY <1>3, <3>1
    <2> QED BY <2>1, <2>2, <2>3 DEF Marks
  <1>12. Rounds'
    BY <1>1 DEF Rounds
  <1> QED BY <1>9, <1>10, <1>11, <1>12 DEF IInv

LEMMA NextBlockKeeps == IInv /\ NextBlock => IInv'
  <1> SUFFICES ASSUME IInv, NextBlock PROVE IInv'
    OBVIOUS
  <1>1. /\ pass \in {"fold", "dce"} /\ pass' = pass /\ InBlock /\ ~AtInst
        /\ toRemove = << >> /\ toRemove' = toRemove
        /\ TypeOK /\ Sound /\ Rounds
        /\ bb' = bb + 1 /\ i' = 1 /\ module' = module /\ fn' = fn /\ changed' = changed
    BY DEF IInv, NextBlock
  <1>2. /\ Insts = Body(module, fn, bb) /\ Len(Insts) \in Nat /\ i > Len(Insts)
    BY <1>1, Here DEF AtInst, TypeOK
  <1>3. TypeOK'
    BY <1>1 DEF TypeOK
  <1>4. Sound'
    BY <1>1 DEF Sound
  <1>5. Marks'
    <2>1. Len(toRemove') = 0
      BY <1>1
    <2> QED BY <1>1, <2>1 DEF Marks
  <1>6. ASSUME NEW k \in 1..Len(module), NEW b \in 1..Len(module[k].blocks),
               NEW j \in 1..Len(Body(module, k, b)), Seen(k, b, j)'
        PROVE  Seen(k, b, j)
    <2>1. k < fn \/ (k = fn /\ (b < bb + 1 \/ (b = bb + 1 /\ j < 1)))
      BY <1>1, <1>6 DEF Seen
    <2>2. k < fn \/ (k = fn /\ (b < bb \/ b = bb))
      BY <1>1, <2>1 DEF TypeOK
    <2>3. ASSUME k = fn, b = bb PROVE j < i
      BY <1>1, <1>2, <2>3 DEF TypeOK
    <2> QED BY <2>2, <2>3 DEF Seen
  <1>7. Rounds'
    BY <1>1, <1>6, ZenonT(30) DEF Rounds, Everywhere, SeenUnfolded, Unfolded, SeenAlive, Alive
  <1> QED BY <1>3, <1>4, <1>5, <1>7 DEF IInv

LEMMA NextFunctionKeeps == IInv /\ NextFunction => IInv'
  <1> SUFFICES ASSUME IInv, NextFunction PROVE IInv'
    OBVIOUS
  <1>1. /\ pass \in {"fold", "dce"} /\ pass' = pass /\ InFunction /\ ~InBlock
        /\ toRemove = << >> /\ toRemove' = toRemove
        /\ TypeOK /\ Sound /\ Rounds
        /\ fn' = fn + 1 /\ bb' = 1 /\ i' = 1 /\ module' = module /\ changed' = changed
    <2>1. IInv /\ NextFunction
      OBVIOUS
    <2> QED BY <2>1 DEF IInv, NextFunction, Marks
  <1>2. /\ bb > Len(module[fn].blocks) /\ Len(module[fn].blocks) \in Nat
        /\ Len(module) \in Nat /\ fn \in 1..Len(module)
    <2>1. Len(module) \in Nat /\ fn \in 1..Len(module)
      BY <1>1, ModuleShape DEF TypeOK, InFunction
    <2>2. Len(module[fn].blocks) \in Nat
      BY <1>1, <2>1, ModuleShape DEF TypeOK
    <2> QED BY <1>1, <2>1, <2>2 DEF TypeOK, InBlock
  <1>3. TypeOK'
    BY <1>1, <1>2 DEF TypeOK
  <1>4. Sound'
    BY <1>1 DEF Sound
  <1>5. Marks'
    <2>1. Len(toRemove') = 0
      BY <1>1
    <2> QED BY <1>1, <2>1 DEF Marks
  <1>6. ASSUME NEW k \in 1..Len(module), NEW b \in 1..Len(module[k].blocks),
               NEW j \in 1..Len(Body(module, k, b)), Seen(k, b, j)'
        PROVE  Seen(k, b, j)
    <2>1. k < fn + 1 \/ (k = fn + 1 /\ (b < 1 \/ (b = 1 /\ j < 1)))
      BY <1>1, <1>6 DEF Seen
    <2>2. k < fn \/ k = fn
      BY <1>2, <2>1
    <2>3. ASSUME k = fn PROVE b < bb
      BY <1>1, <1>2, <2>3 DEF TypeOK
    <2> QED BY <2>2, <2>3 DEF Seen
  <1>7. Rounds'
    BY <1>1, <1>6, ZenonT(30) DEF Rounds, Everywhere, SeenUnfolded, Unfolded, SeenAlive, Alive
  <1> QED BY <1>3, <1>4, <1>5, <1>7 DEF IInv

(* Behind the last function everything has been seen; before the first,    *)
(* nothing has.                                                            *)
LEMMA AllSeen ==
  ASSUME TypeOK, ~InFunction,
         NEW k \in 1..Len(module), NEW b, NEW j
  PROVE  Seen(k, b, j)
  <1>1. Len(module) \in Nat
    BY ModuleShape DEF TypeOK
  <1> QED BY <1>1 DEF TypeOK, InFunction, Seen

LEMMA EndFoldingKeeps == IInv /\ EndFolding => IInv'
  <1> SUFFICES ASSUME IInv, EndFolding PROVE IInv'
    OBVIOUS
  <1>1. /\ pass = "fold" /\ pass' = "dce" /\ ~InFunction
        /\ toRemove = << >> /\ toRemove' = toRemove
        /\ TypeOK /\ Sound /\ Rounds
        /\ fn' = 1 /\ bb' = 1 /\ i' = 1 /\ module' = module /\ changed' = changed
    <2>1. IInv /\ EndFolding
      OBVIOUS
    <2> QED BY <2>1 DEF IInv, EndFolding, Marks
  <1>2. TypeOK'
    <2>1. Len(module) \in Nat
      BY <1>1, ModuleShape DEF TypeOK
    <2> QED BY <1>1, <2>1 DEF TypeOK
  <1>3. Sound'
    BY <1>1 DEF Sound
  <1>4. Marks'
    <2>1. Len(toRemove') = 0
      BY <1>1
    <2> QED BY <1>1, <2>1 DEF Marks
  <1>5. ~changed => Everywhere(Unfolded)
    BY <1>1, AllSeen DEF Rounds, Everywhere, SeenUnfolded
  <1>6. ASSUME NEW k \in 1..Len(module), NEW b \in 1..Len(module[k].blocks),
               NEW j \in 1..Len(Body(module, k, b))
        PROVE  ~Seen(k, b, j)'
    BY <1>1 DEF Seen
  <1>7. Rounds'
    BY <1>1, <1>5, <1>6 DEF Rounds, Everywhere, Unfolded, SeenAlive
  <1> QED BY <1>2, <1>3, <1>4, <1>7 DEF IInv

LEMMA EndRoundKeeps == IInv /\ EndRound => IInv'
  <1> SUFFICES ASSUME IInv, EndRound PROVE IInv'
    OBVIOUS
  <1>1. /\ pass = "dce" /\ pass' = (IF changed THEN "fold" ELSE "done") /\ ~InFunction
        /\ toRemove = << >> /\ toRemove' = toRemove
        /\ TypeOK /\ Sound /\ Rounds
        /\ fn' = 1 /\ bb' = 1 /\ i' = 1 /\ module' = module /\ changed' = FALSE
    <2>1. IInv /\ EndRound
      OBVIOUS
    <2>2. toRemove = << >>
      BY <2>1 DEF IInv, EndRound, Marks, InBlock
    <2> QED BY <2>1, <2>2 DEF IInv, EndRound
  <1>2. TypeOK'
    <2>1. Len(module) \in Nat
      BY <1>1, ModuleShape DEF TypeOK
    <2>2. pass' \in {"fold", "dce", "done", "terminated"} /\ changed' \in BOOLEAN
      <3>1. changed' = FALSE /\ (pass' = "fold" \/ pass' = "done")
        BY <1>1, Zenon
      <3> QED BY <3>1
    <2>3. fn' \in 1..(Len(module) + 1) /\ bb' \in Nat \ {0} /\ i' \in Nat \ {0}
      <3>1. fn' = 1 /\ bb' = 1 /\ i' = 1
        BY <1>1, Zenon
      <3> QED BY <2>1, <3>1
    <2>4. module' \in Seq(Functions(Values)) /\ toRemove' \in Seq(Values)
      BY <1>1, Zenon DEF TypeOK
    <2>5. fn' \in 1..(Len(module') + 1)
      BY <1>1, <2>3, Zenon
    <2> QED BY <2>2, <2>3, <2>4, <2>5, Zenon DEF TypeOK
  <1>3. Sound'
    BY <1>1 DEF Sound
  <1>4. Marks'
    <2>1. Len(toRemove') = 0
      BY <1>1
    <2> QED BY <1>1, <2>1 DEF Marks
  <1>5. ~changed => Everywhere(Unfolded) /\ Everywhere(Alive)
    BY <1>1, AllSeen DEF Rounds, Everywhere, SeenAlive
  <1>6. ASSUME NEW k \in 1..Len(module), NEW b \in 1..Len(module[k].blocks),
               NEW j \in 1..Len(Body(module, k, b))
        PROVE  ~Seen(k, b, j)'
    BY <1>1 DEF Seen
  <1>7. Rounds'
    BY <1>1, <1>5, <1>6 DEF Rounds, Everywhere, Unfolded, Alive, SeenUnfolded
  <1> QED BY <1>2, <1>3, <1>4, <1>7 DEF IInv

LEMMA NextIInv == IInv /\ [Next]_optVars => IInv'
  <1> SUFFICES ASSUME IInv, [Next]_optVars PROVE IInv'
    OBVIOUS
  <1>1. CASE UNCHANGED optVars
    <2>1. UNCHANGED <<module, pass, fn, bb, i, toRemove, changed>>
      BY <1>1 DEF optVars, walk
    <2> QED BY <2>1 DEF IInv, TypeOK, Sound, Marks, Rounds, Everywhere, SeenUnfolded, SeenAlive,
                       Unfolded, Alive, Seen, InBlock, InFunction, Insts
  <1> QED BY <1>1, FoldKeeps, TerminateKeeps, MarkDeadKeeps, KeepKeeps, RemoveDeadKeeps,
             NextBlockKeeps, NextFunctionKeeps, EndFoldingKeeps, EndRoundKeeps DEF Next

LEMMA Inductive == Spec => []IInv
  BY InitIInv, NextIInv, PTL DEF Spec

-----------------------------------------------------------------------------
(* Whatever the module, what the passes leave at every step is a module,   *)
(* and the walk over it stays inside it.                                   *)
THEOREM TypeCorrect == Spec => []TypeOK
  <1>1. IInv => TypeOK
    BY DEF IInv
  <1> QED BY <1>1, Inductive, PTL

(* removeInstruction (DeadCodeEliminationPass.h) frees instructions whose  *)
(* users hold raw pointers to them: none is ever left that does.           *)
THEOREM NothingDangles == Spec => []NoDangling
  <1>1. IInv => NoDangling
    BY DEF IInv, Sound, NoDangling
  <1> QED BY <1>1, Inductive, PTL

(* PassManager::run returns only when no pass finds anything to do.        *)
THEOREM FixpointReached == Spec => []Fixpoint
  <1>1. IInv => Fixpoint
    <2> SUFFICES ASSUME IInv, pass = "done", NEW k \in DOMAIN module,
                        NEW b \in DOMAIN module[k].blocks,
                        NEW j \in DOMAIN module[k].blocks[b].insts
                 PROVE  LET x == module[k].blocks[b].insts[j]
                        IN ~Foldable(x) /\ (Removable(x) => Used(module, Ref(x.id)))
      BY DEF Fixpoint
    <2>1. k \in 1..Len(module)
      BY ModuleShape DEF IInv, TypeOK
    <2>2. b \in 1..Len(module[k].blocks)
      BY <2>1, ModuleShape DEF IInv, TypeOK
    <2>3. j \in 1..Len(Body(module, k, b))
      BY <2>1, <2>2, ModuleShape DEF IInv, TypeOK, Body
    <2>4. Everywhere(Unfolded) /\ Everywhere(Alive)
      BY DEF IInv, Rounds
    <2> QED BY <2>1, <2>2, <2>3, <2>4 DEF Everywhere, Unfolded, Alive, Body
  <1> QED BY <1>1, Inductive, PTL

(* What X86Backend takes for granted of the functions it lowers, branches  *)
(* into the function and uses behind their definitions, survives all that  *)
(* the optimizer does to a module that had it.                             *)
THEOREM StaysFit == Spec => []FitForBackend(module)
  <1>1. IInv => FitForBackend(module)
    BY DEF IInv, Sound
  <1> QED BY <1>1, Inductive, PTL

-----------------------------------------------------------------------------
(* The rounds come to an end.  A round that has changed something has      *)
(* removed something, for what is folded is not used any more and dead at  *)
(* the latest in the walk that follows.  The places of a module count its  *)
(* instructions.                                                           *)
Places(m) ==
  UNION {UNION {{<<k, b, j>> : j \in 1..Len(Body(m, k, b))} :
                b \in 1..Len(m[k].blocks)} : k \in 1..Len(m)}

(* Spec with a memory, which holds no step back: the module that run was   *)
(* given, the number of the round in hand and the places there were when   *)
(* it began.                                                               *)
VARIABLES given, round, before

countVars == <<optVars, given, round, before>>

AnotherRound == pass = "dce" /\ pass' = "fold"

CountInit == Init /\ given = module /\ round = 1 /\ before = Places(module)

CountNext ==
  /\ Next
  /\ given' = given
  /\ IF AnotherRound THEN round' = round + 1 /\ before' = Places(module')
     ELSE round' = round /\ before' = before

CountSpec == CountInit /\ [][CountNext]_countVars

(* What a round that has folded and not removed anything has still to      *)
(* remove: something that nothing uses, marked or not walked over yet.     *)
Doomed(k, b, j) ==
  /\ Removable(Body(module, k, b)[j]) /\ ~Used(module, Ref(Body(module, k, b)[j].id))
  /\ pass = "dce" => toRemove # << >> \/ ~Seen(k, b, j)

SomethingDoomed ==
  \E k \in 1..Len(module) : \E b \in 1..Len(module[k].blocks) :
    \E j \in 1..Len(Body(module, k, b)) : Doomed(k, b, j)

Dwindles ==
  /\ IsFiniteSet(Places(given)) /\ IsFiniteSet(before)
  /\ round \in Nat
  /\ round + Cardinality(before) <= Cardinality(Places(given)) + 1
  /\ Places(module) \subseteq before
  /\ changed /\ Places(module) = before => SomethingDoomed

Place(m, p) ==
  \E k \in 1..Len(m) : \E b \in 1..Len(m[k].blocks) :
    \E j \in 1..Len(Body(m, k, b)) : p = <<k, b, j>>

LEMMA PlaceIn ==
  ASSUME NEW m, NEW p
  PROVE  p \in Places(m) <=> Place(m, p)
  <1> DEFINE inBlock(k, b) == {<<k, b, j>> : j \in 1..Len(Body(m, k, b))}
             inFunction(k) == UNION {inBlock(k, b) : b \in 1..Len(m[k].blocks)}
  <1>1. \A k, b : p \in inBlock(k, b) <=> \E j \in 1..Len(Body(m, k, b)) : p = <<k, b, j>>
    OBVIOUS
  <1> HIDE DEF inBlock
  <1>2. \A k : p \in inFunction(k) <=> \E b \in 1..Len(m[k].blocks) : p \in inBlock(k, b)
    OBVIOUS
  <1>3. Places(m) = UNION {inFunction(k) : k \in 1..Len(m)}
    BY DEF Places, inBlock
  <1> HIDE DEF inFunction
  <1>4. p \in Places(m) <=> \E k \in 1..Len(m) : p \in inFunction(k)
    BY <1>3
  <1> QED BY <1>1, <1>2, <1>4 DEF Place

LEMMA SamePlaces ==
  ASSUME NEW m, NEW n, 1..Len(n) = 1..Len(m),
         \A k \in 1..Len(m) :
           /\ 1..Len(n[k].blocks) = 1..Len(m[k].blocks)
           /\ \A b \in 1..Len(m[k].blocks) : 1..Len(Body(n, k, b)) = 1..Len(Body(m, k, b))
  PROVE  Places(n) = Places(m)
  <1> SUFFICES ASSUME NEW p PROVE p \in Places(n) <=> p \in Places(m)
    OBVIOUS
  <1>1. (p \in Places(m) <=> Place(m, p)) /\ (p \in Places(n) <=> Place(n, p))
    BY PlaceIn
  <1>2. Place(n, p) <=> Place(m, p)
    BY DEF Place
  <1> QED BY <1>1, <1>2

LEMMA ImageFinite ==
  ASSUME NEW n \in Nat, NEW f, DOMAIN f = 1..n
  PROVE  IsFiniteSet({f[x] : x \in 1..n})
  <1> DEFINE T == {f[x] : x \in 1..n}
             g == [x \in 1..n |-> f[x]]
  <1>1. g \in Surjection(1..n, T)
    BY DEF Surjection
  <1>2. IsFiniteSet(1..n)
    BY FS_Interval
  <1> HIDE DEF g
  <1> QED BY <1>1, <1>2, FS_Surjection

LEMMA PlacesFinite ==
  ASSUME NEW m \in Seq(Functions(Values))
  PROVE  IsFiniteSet(Places(m))
  <1> DEFINE inBlock(k, b) == {<<k, b, j>> : j \in 1..Len(Body(m, k, b))}
             inFunction(k) == {inBlock(k, b) : b \in 1..Len(m[k].blocks)}
             all == {UNION inFunction(k) : k \in 1..Len(m)}
  <1>1. ASSUME NEW k \in 1..Len(m), NEW b \in 1..Len(m[k].blocks)
        PROVE  IsFiniteSet(inBlock(k, b))
    <2> DEFINE f == [j \in 1..Len(Body(m, k, b)) |-> <<k, b, j>>]
    <2>1. Len(Body(m, k, b)) \in Nat
      BY ModuleShape
    <2>2. inBlock(k, b) = {f[j] : j \in 1..Len(Body(m, k, b))}
      OBVIOUS
    <2>3. DOMAIN f = 1..Len(Body(m, k, b))
      OBVIOUS
    <2> HIDE DEF f, inBlock
    <2> QED BY <2>1, <2>2, <2>3, ImageFinite
  <1> HIDE DEF inBlock
  <1>2. ASSUME NEW k \in 1..Len(m)
        PROVE  IsFiniteSet(UNION inFunction(k))
    <2> DEFINE f == [b \in 1..Len(m[k].blocks) |-> inBlock(k, b)]
    <2>1. Len(m[k].blocks) \in Nat
      BY ModuleShape
    <2>2. inFunction(k) = {f[b] : b \in 1..Len(m[k].blocks)}
      OBVIOUS
    <2>3. DOMAIN f = 1..Len(m[k].blocks)
      OBVIOUS
    <2>4. \A T \in inFunction(k) : IsFiniteSet(T)
      BY <1>1
    <2> HIDE DEF f, inFunction
    <2>5. IsFiniteSet(inFunction(k))
      BY <2>1, <2>2, <2>3, ImageFinite
    <2> QED BY <2>4, <2>5, FS_UNION
  <1>3. IsFiniteSet(UNION all)
    <2> DEFINE f == [k \in 1..Len(m) |-> UNION inFunction(k)]
    <2>1. Len(m) \in Nat
      BY ModuleShape
    <2> HIDE DEF inFunction
    <2>2. all = {f[k] : k \in 1..Len(m)}
      OBVIOUS
    <2>3. DOMAIN f = 1..Len(m)
      OBVIOUS
    <2>4. \A T \in all : IsFiniteSet(T)
      BY <1>2
    <2> HIDE DEF f, all
    <2>5. IsFiniteSet(all)
      BY <2>1, <2>2, <2>3, ImageFinite
    <2> QED BY <2>4, <2>5, FS_UNION
  <1> QED BY <1>3 DEF Places, inBlock

(* Folding leaves every instruction at its place, and the folded one       *)
(* without a use.                                                          *)
LEMMA FoldingDooms ==
  ASSUME IInv, Fold
  PROVE  Places(module') = Places(module) /\ SomethingDoomed'
  <1> DEFINE old == Ref(inst.id)
             new == Folded(inst)
  <1>1. /\ pass = "fold" /\ pass' = pass /\ AtInst /\ InBlock /\ TypeOK /\ Foldable(inst)
        /\ module' = replaceAllUses(module, old, new)
    BY DEF IInv, Fold, AtInst
  <1>2. /\ fn \in 1..Len(module) /\ bb \in 1..Len(module[fn].blocks)
        /\ i \in 1..Len(Body(module, fn, bb)) /\ inst = Body(module, fn, bb)[i]
        /\ inst \in Code(Values) /\ module \in Seq(Functions(Values))
    BY <1>1, Here DEF TypeOK, inst
  <1>3. new \in Operands(Values) /\ new.imm /\ ~old.imm
    BY <1>1, <1>2, FoldedIsImmediate DEF Ref
  <1>4. Removable(inst)
    BY <1>1 DEF Foldable, Removable, Terminators
  <1> HIDE DEF old, new
  <1>5. /\ module' \in Seq(Functions(Values)) /\ Len(module') = Len(module)
        /\ \A k \in 1..Len(module) :
             /\ Len(module'[k].blocks) = Len(module[k].blocks)
             /\ \A b \in 1..Len(module[k].blocks) :
                  /\ Len(Body(module', k, b)) = Len(Body(module, k, b))
                  /\ \A j \in 1..Len(Body(module, k, b)) :
                       Body(module', k, b)[j] = ReplaceUses(Body(module, k, b)[j], old, new)
    BY <1>1, <1>2, <1>3, ModuleReplaced
  <1>6. Places(module') = Places(module)
    <2>1. /\ 1..Len(module') = 1..Len(module)
          /\ \A k \in 1..Len(module) :
               /\ 1..Len(module'[k].blocks) = 1..Len(module[k].blocks)
               /\ \A b \in 1..Len(module[k].blocks) :
                    1..Len(Body(module', k, b)) = 1..Len(Body(module, k, b))
      BY <1>5
    <2> QED BY <2>1, SamePlaces
  <1>7. ~Used(module', old)
    <2> SUFFICES ASSUME NEW k \in DOMAIN module', NEW b \in DOMAIN module'[k].blocks,
                        NEW j \in DOMAIN Body(module', k, b),
                        NEW a \in DOMAIN Body(module', k, b)[j].args,
                        Body(module', k, b)[j].args[a] = old
                 PROVE  FALSE
      BY Zenon DEF Used, Uses, Body
    <2>1. k \in 1..Len(module) /\ b \in 1..Len(module[k].blocks) /\ j \in 1..Len(Body(module, k, b))
      <3>1. k \in 1..Len(module') /\ k \in 1..Len(module)
        BY <1>5, ModuleShape
      <3>2. b \in 1..Len(module'[k].blocks) /\ b \in 1..Len(module[k].blocks)
        BY <1>5, <3>1, ModuleShape
      <3>3. j \in 1..Len(Body(module', k, b))
        BY <1>5, <3>1, <3>2, ModuleShape
      <3> QED BY <1>5, <3>1, <3>2, <3>3
    <2> DEFINE x == Body(module, k, b)[j]
    <2>2. x \in Code(Values)
      BY <1>2, <2>1, ModuleShape
    <2>3. Body(module', k, b)[j] = ReplaceUses(x, old, new)
      BY <1>5, <2>1
    <2> HIDE DEF x
    <2>4. a \in DOMAIN ReplaceUses(x, old, new).args /\ ReplaceUses(x, old, new).args[a] = old
      BY <2>3
    <2>5. a \in DOMAIN x.args
          /\ ReplaceUses(x, old, new).args[a] = IF x.args[a] = old THEN new ELSE x.args[a]
      BY <1>3, <2>2, <2>4, InstructionReplaced
    <2>6. old = new
      BY <2>4, <2>5
    <2> QED BY <1>3, <2>6
  <1>8. Body(module', fn, bb)[i].op = inst.op /\ Body(module', fn, bb)[i].id = inst.id
    <2>1. Body(module', fn, bb)[i] = ReplaceUses(inst, old, new)
      BY <1>2, <1>5
    <2> QED BY <1>2, <1>3, <2>1, InstructionReplaced
  <1>9. PICK k, b, j : k = fn /\ b = bb /\ j = i
    OBVIOUS
  <1>10. /\ k \in 1..Len(module') /\ b \in 1..Len(module'[k].blocks)
         /\ j \in 1..Len(Body(module', k, b))
    BY <1>2, <1>5, <1>9
  <1>11. /\ Removable(Body(module', k, b)[j])
         /\ ~Used(module', Ref(Body(module', k, b)[j].id))
    BY <1>4, <1>7, <1>8, <1>9 DEF Removable, old
  <1>12. Doomed(k, b, j)'
    <2>1. pass' # "dce"
      BY <1>1
    <2> QED BY <1>11, <2>1 DEF Doomed
  <1> QED BY <1>6, <1>10, <1>12 DEF SomethingDoomed

(* Removing takes a place away.                                            *)
LEMMA RemovingDwindles ==
  ASSUME IInv, RemoveDead
  PROVE  Places(module') \subseteq Places(module) /\ Places(module') # Places(module)
  <1> DEFINE v == Head(toRemove)
             q == CHOOSE j \in DOMAIN Insts : Insts[j].id = v
             s == Body(module, fn, bb)
  <1>1. /\ InBlock /\ TypeOK /\ Marks /\ toRemove # << >>
        /\ module' = [module EXCEPT ![fn].blocks[bb].insts = removeInstruction(@, v)]
    BY DEF IInv, RemoveDead
  <1>2. /\ Insts = s /\ s \in Seq(Code(Values)) /\ Len(s) \in Nat /\ DOMAIN Insts = 1..Len(s)
        /\ module \in Seq(Functions(Values))
        /\ fn \in 1..Len(module) /\ bb \in 1..Len(module[fn].blocks)
    BY <1>1, Here, LenProperties DEF TypeOK
  <1>3. q \in 1..Len(s)
    <2>1. v = toRemove[1] /\ 1 \in 1..Len(toRemove)
      <3>1. toRemove \in Seq(Values) /\ Len(toRemove) \in Nat /\ Len(toRemove) # 0
        BY <1>1, LenProperties, EmptySeq DEF TypeOK
      <3> QED BY <1>1, <3>1
    <2>2. PICK j \in 1..Len(Insts) : j < i /\ Insts[j].id = toRemove[1]
      BY <1>1, <2>1, Zenon DEF Marks
    <2> QED BY <1>2, <2>1, <2>2
  <1> HIDE DEF q
  <1> DEFINE t == RemoveAt(s, q)
  <1>4. module' = WithBody(module, fn, bb, t)
    BY <1>1, <1>2, Zenon DEF WithBody, removeInstruction, q, Insts, Body
  <1>5. t \in Seq(Code(Values)) /\ Len(t) = Len(s) - 1
    BY <1>2, <1>3, Removed
  <1> HIDE DEF t
  <1>6. /\ Len(module') = Len(module)
        /\ \A k \in 1..Len(module) :
             /\ Len(module'[k].blocks) = Len(module[k].blocks)
             /\ \A b \in 1..Len(module[k].blocks) :
                  Body(module', k, b) = IF k = fn /\ b = bb THEN t ELSE Body(module, k, b)
    BY <1>2, <1>4, <1>5, BodyExchanged
  <1>7. ASSUME NEW k \in 1..Len(module), NEW b \in 1..Len(module[k].blocks),
               NEW j \in 1..Len(Body(module', k, b))
        PROVE  j \in 1..Len(Body(module, k, b))
    <2>1. CASE k = fn /\ b = bb
      <3>1. j \in 1..Len(t)
        BY <1>6, <2>1
      <3>2. j \in 1..Len(s)
        BY <1>2, <1>5, <3>1
      <3> QED BY <2>1, <3>2
    <2>2. CASE ~(k = fn /\ b = bb)
      BY <1>6, <2>2
    <2> QED BY <2>1, <2>2
  <1>8. Places(module') \subseteq Places(module)
    <2> SUFFICES ASSUME NEW p \in Places(module') PROVE p \in Places(module)
      OBVIOUS
    <2>1. PICK k \in 1..Len(module') : \E b \in 1..Len(module'[k].blocks) :
            \E j \in 1..Len(Body(module', k, b)) : p = <<k, b, j>>
      BY PlaceIn DEF Place
    <2>2. PICK b, j : /\ b \in 1..Len(module'[k].blocks) /\ j \in 1..Len(Body(module', k, b))
                      /\ p = <<k, b, j>>
      BY <2>1
    <2>3. k \in 1..Len(module) /\ b \in 1..Len(module[k].blocks)
      BY <1>6, <2>2
    <2>4. j \in 1..Len(Body(module, k, b))
      BY <1>7, <2>2, <2>3
    <2> QED BY <2>2, <2>3, <2>4, PlaceIn DEF Place
  <1>9. <<fn, bb, Len(s)>> \in Places(module)
    <2>1. Len(s) \in 1..Len(Body(module, fn, bb))
      BY <1>2, <1>3
    <2> QED BY <1>2, <2>1, PlaceIn DEF Place
  <1>10. <<fn, bb, Len(s)>> \notin Places(module')
    <2> SUFFICES ASSUME <<fn, bb, Len(s)>> \in Places(module') PROVE FALSE
      OBVIOUS
    <2>1. PICK k \in 1..Len(module') : \E b \in 1..Len(module'[k].blocks) :
            \E j \in 1..Len(Body(module', k, b)) : <<fn, bb, Len(s)>> = <<k, b, j>>
      BY PlaceIn DEF Place
    <2>2. PICK b, j : /\ b \in 1..Len(module'[k].blocks) /\ j \in 1..Len(Body(module', k, b))
                      /\ <<fn, bb, Len(s)>> = <<k, b, j>>
      BY <2>1
    <2>3. k = fn /\ b = bb /\ j = Len(s)
      BY <2>2
    <2>4. Len(s) \in 1..Len(t)
      BY <1>2, <1>6, <2>2, <2>3
    <2> QED BY <1>2, <1>5, <2>4
  <1> QED BY <1>8, <1>9, <1>10

(* The walk goes from block to block without leaving anything out.         *)
LEMMA SeenBefore ==
  ASSUME TypeOK, NextBlock \/ NextFunction,
         NEW k \in 1..Len(module), NEW b \in 1..Len(module[k].blocks),
         NEW j \in 1..Len(Body(module, k, b)), Seen(k, b, j)'
  PROVE  Seen(k, b, j)
  <1>0. Len(module) \in Nat /\ Len(module[k].blocks) \in Nat /\ Len(Body(module, k, b)) \in Nat
    BY ModuleShape DEF TypeOK
  <1>1. CASE NextBlock
    <2>1. InBlock /\ ~AtInst /\ bb' = bb + 1 /\ i' = 1 /\ fn' = fn
      BY <1>1 DEF NextBlock
    <2>2. Insts = Body(module, fn, bb) /\ Len(Insts) \in Nat /\ i > Len(Insts)
      BY <2>1, Here DEF AtInst, TypeOK
    <2>3. k < fn \/ (k = fn /\ (b < bb + 1 \/ (b = bb + 1 /\ j < 1)))
      BY <2>1 DEF Seen
    <2>4. k < fn \/ (k = fn /\ (b < bb \/ b = bb))
      BY <1>0, <2>3 DEF TypeOK
    <2>5. ASSUME k = fn, b = bb PROVE j < i
      BY <1>0, <2>2, <2>5 DEF TypeOK
    <2> QED BY <2>4, <2>5 DEF Seen
  <1>2. CASE NextFunction
    <2>1. InFunction /\ ~InBlock /\ fn' = fn + 1 /\ bb' = 1 /\ i' = 1
      BY <1>2 DEF NextFunction
    <2>2. k < fn + 1 \/ (k = fn + 1 /\ (b < 1 \/ (b = 1 /\ j < 1)))
      BY <2>1 DEF Seen
    <2>3. k < fn \/ k = fn
      BY <1>0, <2>2 DEF TypeOK
    <2>4. ASSUME k = fn PROVE b < bb
      <3>1. bb > Len(module[fn].blocks)
        BY <1>0, <2>1, <2>4 DEF TypeOK, InBlock
      <3> QED BY <1>0, <2>4, <3>1 DEF TypeOK
    <2> QED BY <2>3, <2>4 DEF Seen
  <1> QED BY <1>1, <1>2

(* A walk that removes nothing goes past nothing that is doomed.           *)
LEMMA WalkDooms ==
  ASSUME IInv, SomethingDoomed,
         Terminate \/ MarkDead \/ Keep \/ NextBlock \/ NextFunction \/ EndFolding
  PROVE  SomethingDoomed'
  <1>1. PICK k, b, j : /\ k \in 1..Len(module) /\ b \in 1..Len(module[k].blocks)
                      /\ j \in 1..Len(Body(module, k, b)) /\ Doomed(k, b, j)
    BY Zenon DEF SomethingDoomed
  <1>2. module' = module /\ TypeOK /\ (toRemove # << >> => InBlock)
        /\ (pass # "dce" => toRemove = << >>)
    BY DEF IInv, Marks, Terminate, MarkDead, Keep, NextBlock, NextFunction, EndFolding
  <1>3. /\ Removable(Body(module', k, b)[j]) /\ ~Used(module', Ref(Body(module', k, b)[j].id))
        /\ pass = "dce" => toRemove # << >> \/ ~Seen(k, b, j)
    BY <1>1, <1>2, Zenon DEF Doomed
  <1>4. ASSUME pass' = "dce" PROVE toRemove' # << >> \/ ~Seen(k, b, j)'
    <2>1. CASE Terminate
      BY <1>4, <2>1 DEF Terminate
    <2>2. CASE MarkDead
      <3>1. toRemove \in Seq(Values) /\ inst.id \in Values /\ toRemove' = Append(toRemove, inst.id)
        BY <1>2, <2>2, Here, InstructionShape DEF MarkDead, TypeOK, AtInst
      <3>2. Len(toRemove') = Len(toRemove) + 1 /\ Len(toRemove) \in Nat
        BY <3>1, AppendProperties, LenProperties
      <3>3. toRemove' # << >>
        BY <3>2
      <3> QED BY <3>3
    <2>3. CASE Keep
      <3>1. /\ pass = "dce" /\ AtInst /\ InBlock /\ toRemove' = toRemove
            /\ i' = i + 1 /\ fn' = fn /\ bb' = bb
            /\ Removable(inst) => Used(module, Ref(inst.id))
        BY <1>4, <2>3 DEF Keep, AtInst
      <3>2. inst = Body(module, fn, bb)[i]
        BY <1>2, <3>1, Here DEF inst
      <3>3. ~(k = fn /\ b = bb /\ j = i)
        BY <1>2, <1>3, <3>1, <3>2
      <3>4. Seen(k, b, j)' => Seen(k, b, j)
        <4>1. j \in Nat /\ i \in Nat
          BY <1>1, <1>2 DEF TypeOK
        <4> QED BY <3>1, <3>3, <4>1 DEF Seen
      <3> QED BY <1>3, <3>1, <3>4
    <2>4. CASE NextBlock \/ NextFunction
      <3>1. pass = "dce" /\ toRemove = << >>
        BY <1>2, <1>4, <2>4 DEF NextBlock, NextFunction
      <3>2. ~Seen(k, b, j)
        BY <1>3, <3>1
      <3> QED BY <1>1, <1>2, <2>4, <3>2, SeenBefore
    <2>5. CASE EndFolding
      <3>1. fn' = 1 /\ bb' = 1 /\ i' = 1
        BY <2>5 DEF EndFolding
      <3> QED BY <1>1, <3>1 DEF Seen
    <2> QED BY <2>1, <2>2, <2>3, <2>4, <2>5
  <1>5. Doomed(k, b, j)'
    BY <1>3, <1>4 DEF Doomed
  <1>6. k \in 1..Len(module') /\ b \in 1..Len(module'[k].blocks) /\ j \in 1..Len(Body(module', k, b))
    BY <1>1, <1>2
  <1> QED BY <1>5, <1>6 DEF SomethingDoomed

(* A round that is followed by another one has made the module smaller.    *)
LEMMA RoundRemoves ==
  ASSUME IInv, Dwindles, EndRound, changed
  PROVE  Places(module) # before
  <1> SUFFICES ASSUME SomethingDoomed PROVE FALSE
    BY DEF Dwindles
  <1>1. /\ pass = "dce" /\ ~InFunction /\ TypeOK /\ toRemove = << >>
    BY DEF EndRound, IInv, Marks, InBlock
  <1>2. PICK k, b, j : /\ k \in 1..Len(module) /\ b \in 1..Len(module[k].blocks)
                      /\ j \in 1..Len(Body(module, k, b)) /\ Doomed(k, b, j)
    BY Zenon DEF SomethingDoomed
  <1>3. ~Seen(k, b, j)
    BY <1>1, <1>2 DEF Doomed
  <1> QED BY <1>1, <1>2, <1>3, AllSeen

LEMMA SmallerRemains ==
  ASSUME NEW S, IsFiniteSet(S), NEW T, T \subseteq S
  PROVE  /\ IsFiniteSet(T) /\ Cardinality(T) \in Nat /\ Cardinality(S) \in Nat
         /\ T # S => Cardinality(T) + 1 <= Cardinality(S)
  <1>1. IsFiniteSet(T) /\ Cardinality(T) <= Cardinality(S)
        /\ (Cardinality(S) = Cardinality(T) => S = T)
    BY FS_Subset
  <1>2. Cardinality(T) \in Nat /\ Cardinality(S) \in Nat
    BY <1>1, FS_CardinalityType
  <1> QED BY <1>1, <1>2

LEMMA RoundsDwindle ==
  ASSUME IInv, Dwindles, [CountNext]_countVars
  PROVE  Dwindles'
  <1>1. /\ IsFiniteSet(Places(given)) /\ IsFiniteSet(before) /\ round \in Nat
        /\ round + Cardinality(before) <= Cardinality(Places(given)) + 1
        /\ Places(module) \subseteq before
        /\ changed /\ Places(module) = before => SomethingDoomed
    BY DEF Dwindles
  <1>2. given' = given
    BY DEF CountNext, countVars
  <1>3. CASE UNCHANGED countVars
    <2>1. UNCHANGED <<module, pass, fn, bb, i, toRemove, changed, given, round, before>>
      BY <1>3 DEF countVars, optVars, walk
    <2>2. SomethingDoomed' <=> SomethingDoomed
      BY <2>1 DEF SomethingDoomed, Doomed, Seen
    <2> QED BY <1>1, <2>1, <2>2 DEF Dwindles
  <1>4. CASE CountNext /\ AnotherRound
    <2>1. pass = "dce" /\ pass' = "fold" /\ Next
      BY <1>4 DEF AnotherRound, CountNext
    <2>2. EndRound
      BY <2>1 DEF Next, Fold, Terminate, MarkDead, Keep, RemoveDead, NextBlock, NextFunction,
                  EndFolding
    <2>3. changed /\ changed' = FALSE /\ module' = module
      BY <2>1, <2>2 DEF EndRound
    <2>4. round' = round + 1 /\ before' = Places(module')
      BY <1>4 DEF CountNext
    <2>5. Places(module) # before
      BY <2>2, <2>3, RoundRemoves
    <2>6. IsFiniteSet(Places(module)) /\ Cardinality(Places(module)) \in Nat
          /\ Cardinality(before) \in Nat /\ Cardinality(Places(module)) + 1 <= Cardinality(before)
      BY <1>1, <2>5, SmallerRemains
    <2>7. Cardinality(Places(given)) \in Nat
      BY <1>1, FS_CardinalityType
    <2>8. round' + Cardinality(before') <= Cardinality(Places(given)) + 1
      BY <1>1, <2>3, <2>4, <2>6, <2>7
    <2> QED BY <1>1, <1>2, <2>3, <2>4, <2>6, <2>8 DEF Dwindles
  <1>5. CASE CountNext /\ ~AnotherRound
    <2>1. Next /\ round' = round /\ before' = before
      BY <1>5 DEF CountNext
    <2>2. Places(module') \subseteq before
          /\ (changed' /\ Places(module') = before => SomethingDoomed')
      <3>1. CASE Fold
        BY <1>1, <3>1, FoldingDooms
      <3>2. CASE RemoveDead
        BY <1>1, <3>2, RemovingDwindles
      <3>3. CASE Terminate \/ MarkDead \/ Keep \/ NextBlock \/ NextFunction \/ EndFolding
        <4>1. module' = module /\ changed' = changed
          BY <3>3 DEF Terminate, MarkDead, Keep, NextBlock, NextFunction, EndFolding
        <4>2. SomethingDoomed => SomethingDoomed'
          BY <3>3, WalkDooms
        <4> QED BY <1>1, <4>1, <4>2
      <3>4. CASE EndRound
        <4>1. module' = module /\ changed' = FALSE
          BY <3>4 DEF EndRound
        <4> QED BY <1>1, <4>1
      <3> QED BY <2>1, <3>1, <3>2, <3>3, <3>4 DEF Next
    <2> QED BY <1>1, <1>2, <2>1, <2>2 DEF Dwindles
  <1> QED BY <1>3, <1>4, <1>5

LEMMA RoundsBegin == CountInit => Dwindles
  <1> SUFFICES ASSUME CountInit PROVE Dwindles
    OBVIOUS
  <1>1. /\ module \in Seq(Functions(Values)) /\ changed = FALSE
        /\ given = module /\ round = 1 /\ before = Places(module)
    BY ModulesAssumption DEF CountInit, Init, Reset
  <1>2. IsFiniteSet(Places(module)) /\ Cardinality(Places(module)) \in Nat
    BY <1>1, PlacesFinite, FS_CardinalityType
  <1> QED BY <1>1, <1>2 DEF Dwindles

LEMMA CountingChangesNothing == CountSpec => Spec
  <1>1. CountInit => Init
    BY DEF CountInit
  <1>2. [CountNext]_countVars => [Next]_optVars
    BY DEF CountNext, countVars
  <1> QED BY <1>1, <1>2, PTL DEF CountSpec, Spec

(* PassManager::run does not go round forever (while (changed)): a round   *)
(* that another one follows has removed an instruction, whatever it folded,*)
(* and so there are at most as many of them as the module that run was     *)
(* given has instructions, and one more that finds nothing to do.          *)
THEOREM RoundsAreBounded ==
  CountSpec => [](round <= Cardinality(Places(given)) + 1)
  <1>1. IInv /\ Dwindles => round <= Cardinality(Places(given)) + 1
    <2> SUFFICES ASSUME Dwindles PROVE round <= Cardinality(Places(given)) + 1
      OBVIOUS
    <2>1. Cardinality(before) \in Nat /\ Cardinality(Places(given)) \in Nat
      BY FS_CardinalityType DEF Dwindles
    <2> QED BY <2>1 DEF Dwindles
  <1>2. IInv /\ Dwindles /\ [CountNext]_countVars => Dwindles'
    BY RoundsDwindle
  <1> QED BY <1>1, <1>2, RoundsBegin, CountingChangesNothing, Inductive, PTL DEF CountSpec
=============================================================================
