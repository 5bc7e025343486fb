------------------------------ MODULE Optimizer ------------------------------
(***************************************************************************)
(* opt::PassManager running opt::ConstantFoldingPass and                   *)
(* opt::DeadCodeEliminationPass over an ir::Module until neither changes   *)
(* it.  The passes walk over the very lists that they rewrite: a fold      *)
(* replaces operands anywhere in the module, dead code is marked in a walk *)
(* over a block and removed after it.                                      *)
(***************************************************************************)
EXTENDS IRSemantics, SequencesExt

CONSTANTS
  Values,   \* ids of the instructions that define a value
  Modules   \* the ir::Modules handed to PassManager::run

VARIABLES
  module,    \* the module being optimized
  pass,      \* "fold", "dce"; "done", or "terminated" by an exception
  fn, bb, i, \* the walk over functions, blocks and instructions, from 1
  toRemove,  \* ids of the instructions of the block found dead
  changed    \* what PassManager::run has collected in this round

walk == <<fn, bb, i>>
optVars == <<module, pass, walk, toRemove, changed>>

(* int, two's complement: what signed arithmetic of the build wraps to,    *)
(* and what std::stoi accepts.                                             *)
MinInt == -(2^(WordBits - 1))
MaxInt == 2^(WordBits - 1) - 1
Wrap(n) == ((n - MinInt) % 2^WordBits) + MinInt

InFunction == fn <= Len(module)
InBlock == InFunction /\ bb <= Len(module[fn].blocks)
Insts == module[fn].blocks[bb].insts
AtInst == InBlock /\ i <= Len(Insts)
inst == Insts[i]

Uses(x, o) == \E k \in DOMAIN x.args : x.args[k] = o

(* As a hasty version might count them.                                    *)
UsedInFirstBlocks(m, o) ==
  \E k \in DOMAIN m : \E j \in DOMAIN m[k].blocks[1].insts :
    Uses(m[k].blocks[1].insts[j], o)

(* countUses(m, o) > 0 *)
Used(m, o) ==
  \E k \in DOMAIN m : \E b \in DOMAIN m[k].blocks :
    \E j \in DOMAIN m[k].blocks[b].insts : Uses(m[k].blocks[b].insts[j], o)

ReplaceUses(x, old, new) ==
  [x EXCEPT !.args = [k \in DOMAIN @ |-> IF @[k] = old THEN new ELSE @[k]]]

ReplaceInBlock(blk, old, new) ==
  [blk EXCEPT !.insts = [j \in DOMAIN @ |-> ReplaceUses(@[j], old, new)]]
ReplaceInFunction(f, old, new) ==
  [f EXCEPT !.blocks = [b \in DOMAIN @ |-> ReplaceInBlock(@[b], old, new)]]
replaceAllUses(m, old, new) == [k \in DOMAIN m |-> ReplaceInFunction(m[k], old, new)]

removeInstruction(insts, v) ==
  RemoveAt(insts, CHOOSE j \in DOMAIN insts : insts[j].id = v)

Foldable(x) ==
  x.op \in {"add", "sub"} /\ \A k \in DOMAIN x.args : x.args[k].imm

(* std::stoi throws on what does not fit.                                  *)
Convertible(x) == \A k \in DOMAIN x.args : x.args[k].id \in MinInt..MaxInt

(* Mutants: computed as a long; the operands change places.                *)
FoldedAsLong(x) ==
  Const(IF x.op = "add" THEN x.args[1].id + x.args[2].id
        ELSE x.args[1].id - x.args[2].id)
FoldedSwapped(x) ==
  Const(Wrap(IF x.op = "add" THEN x.args[1].id + x.args[2].id
             ELSE x.args[2].id - x.args[1].id))
Folded(x) ==
  Const(Wrap(IF x.op = "add" THEN x.args[1].id + x.args[2].id
             ELSE x.args[1].id - x.args[2].id))

RemovableStores(x) == x.op \notin Terminators
RemovableLoads(x) == x.op \in {"alloca", "load"}
Removable(x) == x.op \notin {"store"} \cup Terminators

-----------------------------------------------------------------------------
(* Arithmetic that the provers do not know.                                *)
ASSUME WrapAssumption == 2^WordBits \in Nat \ {0}

(* An instruction that defines a value is told apart by it; the operands   *)
(* that IRBuilder is given were made before.                               *)
ASSUME ModulesAssumption ==
  /\ NoId \notin Values
  /\ \A m \in Modules :
       /\ m \in Seq(Functions(Values))
       /\ OperandsDefined(m) /\ OncePerBlock(m) /\ FitForBackend(m)

-----------------------------------------------------------------------------
Reset ==
  /\ pass = "fold"
  /\ fn = 1 /\ bb = 1 /\ i = 1
  /\ toRemove = << >>
  /\ changed = FALSE

Init == module \in Modules /\ Reset

Fold ==
  /\ pass = "fold" /\ AtInst
  /\ Foldable(inst) /\ Convertible(inst)
  /\ module' = replaceAllUses(module, Ref(inst.id), Folded(inst))
  /\ changed' = TRUE
  /\ i' = i + 1
  /\ UNCHANGED <<pass, fn, bb, toRemove>>

(* The exception of std::stoi is caught nowhere.                           *)
Terminate ==
  /\ pass = "fold" /\ AtInst
  /\ Foldable(inst) /\ ~Convertible(inst)
  /\ pass' = "terminated"
  /\ UNCHANGED <<module, walk, toRemove, changed>>

MarkDead ==
  /\ pass = "dce" /\ AtInst
  /\ Removable(inst) /\ ~Used(module, Ref(inst.id))
  /\ toRemove' = Append(toRemove, inst.id)
  /\ i' = i + 1
  /\ UNCHANGED <<module, pass, fn, bb, changed>>

Keep ==
  /\ AtInst
  /\ \/ pass = "fold" /\ ~Foldable(inst)
     \/ pass = "dce" /\ (Removable(inst) => Used(module, Ref(inst.id)))
  /\ i' = i + 1
  /\ UNCHANGED <<module, pass, fn, bb, toRemove, changed>>

RemoveDeadSilently ==
  /\ pass = "dce" /\ InBlock /\ ~AtInst
  /\ toRemove # << >>
  /\ module' = [module EXCEPT ![fn].blocks[bb].insts =
                  removeInstruction(@, Head(toRemove))]
  /\ toRemove' = Tail(toRemove)
  /\ UNCHANGED <<pass, walk, changed>>

(* for (inst : toRemove) { bb->removeInstruction(inst); changed = true; }  *)
RemoveDead ==
  /\ pass = "dce" /\ InBlock /\ ~AtInst
  /\ toRemove # << >>
  /\ module' = [module EXCEPT ![fn].blocks[bb].insts =
                  removeInstruction(@, Head(toRemove))]
  /\ toRemove' = Tail(toRemove)
  /\ changed' = TRUE
  /\ UNCHANGED <<pass, walk>>

NextBlock ==
  /\ pass \in {"fold", "dce"} /\ InBlock /\ ~AtInst
  /\ toRemove = << >>
  /\ bb' = bb + 1 /\ i' = 1
  /\ UNCHANGED <<module, pass, fn, toRemove, changed>>

NextFunction ==
  /\ pass \in {"fold", "dce"} /\ InFunction /\ ~InBlock
  /\ fn' = fn + 1 /\ bb' = 1 /\ i' = 1
  /\ UNCHANGED <<module, pass, toRemove, changed>>

EndFolding ==
  /\ pass = "fold" /\ ~InFunction
  /\ pass' = "dce"
  /\ fn' = 1 /\ bb' = 1 /\ i' = 1
  /\ UNCHANGED <<module, toRemove, changed>>

(* while (changed) *)
EndRound ==
  /\ pass = "dce" /\ ~InFunction
  /\ pass' = IF changed THEN "fold" ELSE "done"
  /\ changed' = FALSE
  /\ fn' = 1 /\ bb' = 1 /\ i' = 1
  /\ UNCHANGED <<module, toRemove>>

Next ==
  \/ Fold \/ Terminate \/ MarkDead \/ Keep \/ RemoveDead
  \/ NextBlock \/ NextFunction \/ EndFolding \/ EndRound

Spec == Init /\ [][Next]_optVars

(* run is a plain call: the process takes its steps.                       *)
FairSpec == Spec /\ WF_optVars(Next)

-----------------------------------------------------------------------------
(* The walk stays in the module, and what is rewritten is still an         *)
(* ir::Module: every instruction keeps the operands of its kind.           *)
TypeOK ==
  /\ module \in Seq(Functions(Values))
  /\ pass \in {"fold", "dce", "done", "terminated"}
  /\ fn \in 1..(Len(module) + 1)
  /\ bb \in Nat \ {0}
  /\ i \in Nat \ {0}
  /\ toRemove \in Seq(Values)
  /\ changed \in BOOLEAN

(* DeadCodeEliminationPass frees instructions that other instructions hold *)
(* raw pointers to: no operand may ever refer to one that is gone.         *)
NoDangling == OperandsDefined(module)

(* Every rewriting keeps the meaning of every function: one that returns   *)
(* still does, with a result that it could have returned before.           *)
MeaningKept ==
  [][\A k \in DOMAIN module :
       LET before == Promised(module[k], Values)
           after  == Promised(module'[k], Values)
       IN module'[k] # module[k] /\ before # {}
          => after # {} /\ after \subseteq before]_module

(* "Run until fixpoint": when run returns, there is nothing left to fold   *)
(* and nothing left that is dead.                                          *)
Fixpoint ==
  pass = "done" =>
    \A k \in DOMAIN module :
      \A b \in DOMAIN module[k].blocks :
        \A j \in DOMAIN module[k].blocks[b].insts :
          LET x == module[k].blocks[b].insts[j]
          IN ~Foldable(x) /\ (Removable(x) => Used(module, Ref(x.id)))

(* The passes do not keep each other busy: a folded instruction stays in   *)
(* its block, and is folded again in every round until it is removed.      *)
Terminates == <>(pass \in {"done", "terminated"})
=============================================================================
