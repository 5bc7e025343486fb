------------------------------ MODULE Compiler -------------------------------
(***************************************************************************)
(* One file on its way through src/driver/main.cpp: the tree is analyzed   *)
(* and, without errors, becomes a module, which the optimizer rewrites in  *)
(* place and X86Backend lowers; the code is assembled and run.  Each part  *)
(* begins when the one before it is done, and finds what that one left.    *)
(***************************************************************************)
EXTENDS Frontend

CONSTANTS
  Values,        \* ids of the instructions that define a value
  RegisterPool, NoReg

VARIABLES
  pass, optFn, optBb, i, toRemove, changed,
  phase, fn, bb, currentInstIndex, ra, lastUses, m_instructions, cpu

optOnly == <<pass, optFn, optBb, i, toRemove, changed>>
runOnly == <<phase, fn, bb, currentInstIndex, ra, lastUses, m_instructions, cpu>>
compilerVars == <<frontVars, optOnly, runOnly>>

Opt == INSTANCE Optimizer WITH fn <- optFn, bb <- optBb, Modules <- {}
Ints == Opt!MinInt..Opt!MaxInt
Run == INSTANCE X86Run WITH Modules <- {}

CompilerInit == Init /\ Opt!Reset /\ Run!Reset /\ cpu = Run!Loader

AnalyzeAndGenerate == Next /\ UNCHANGED <<optOnly, runOnly>>

(* PassManager::run, on the module just generated.                         *)
Optimize ==
  /\ Sema!Analyzed /\ errors = {} /\ Gen!Generated
  /\ Opt!Next
  /\ UNCHANGED <<ast, isField, semaOnly, runOnly>>
  /\ UNCHANGED <<genTasks, currentFunction, insertBlock, namedValues, lastValue, nextId,
                 crashed>>

(* X86Backend::generate on what is left, and what comes of the file.         *)
LowerAndRun ==
  /\ pass = "done"
  /\ Run!RunNext
  /\ UNCHANGED <<ast, isField, semaOnly, optOnly>>
  /\ UNCHANGED <<genTasks, currentFunction, insertBlock, namedValues, lastValue, nextId,
                 crashed>>

CompilerNext == AnalyzeAndGenerate \/ Optimize \/ LowerAndRun

(* The driver is one process, and so is the compiled program.              *)
CompilerSpec == CompilerInit /\ [][CompilerNext]_compilerVars /\ WF_compilerVars(CompilerNext)

-----------------------------------------------------------------------------
(* Properties.                                                             *)
MainMeans ==
  Means(ast, NodeOf(CHOOSE f \in DOMAIN module : module[f].name = "main"), Names)

(* What X86Backend is known to lower as it should: the values of a function *)
(* stay in one block and fit into the registers, no two blocks have one    *)
(* name, and no condition has become a constant.                           *)
Lowerable ==
  /\ \A f \in DOMAIN module :
       Run!BlockLocal(module[f]) /\ Run!Fits(module[f], Len(RegisterPool))
  /\ \A f, g \in DOMAIN module :
       \A b \in DOMAIN module[f].blocks, c \in DOMAIN module[g].blocks :
         module[f].blocks[b].name = module[g].blocks[c].name => f = g /\ b = c
  /\ \A f \in DOMAIN module : \A b \in DOMAIN module[f].blocks :
       \A x \in ToSet(module[f].blocks[b].insts) : x.op = "condbr" => ~x.args[1].imm

(* From source to processor: what the compiled program returns is what C++ *)
(* says of the source, with names resolved twice, folded and dead code     *)
(* gone, and registers taken and released on the way.                      *)
MeaningDelivered == Run!Seen # << >> /\ Lowerable => Run!Seen[1] \in MainMeans

(* The exceptions of std::stoi, in the optimizer or in the back end, come  *)
(* from literals of the source only: no pass makes a number that the next  *)
(* one cannot read.                                                        *)
Aborted == pass = "terminated" \/ phase = "terminated"
AbortsOnLiterals ==
  Aborted => \E n \in DOMAIN ast : ast[n].kind = "literal" /\ ast[n].num \notin Ints

(* A compilation ends, and the program that it made of one that returns    *)
(* returns as well.                                                        *)
Delivers ==
  <>(\/ Sema!Analyzed /\ errors # {}
     \/ crashed \/ Aborted
     \/ phase = "done" /\ (Lowerable /\ MainMeans # {} => Run!Seen # << >>))
=============================================================================
