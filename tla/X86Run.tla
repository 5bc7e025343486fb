------------------------------- MODULE X86Run --------------------------------
(***************************************************************************)
(* The code that X86Backend emitted, assembled and run by the processor    *)
(* from its main label on.  The assembler, the processor and the stack are *)
(* outside of the repository (src/driver/main.cpp hands the assembly to    *)
(* gcc): they are modelled for the instructions that the backend emits.    *)
(***************************************************************************)
EXTENDS X86Backend, IRSemantics

VARIABLE cpu   \* the machine: [pc, regs, mem, zf, status]

runVars == <<vars, cpu>>

ReturnAddress == -2
CallerRbp == 1000

AllRegisters == Registers \cup Scratch

(* What a caller of main hands over: a return address on top of the stack, *)
(* its own rbp, and registers whose content main must not rely on.         *)
Loader ==
  [ pc |-> 0,
    regs |-> [r \in AllRegisters |->
                CASE r = "rsp" -> 0 [] r = "rbp" -> CallerRbp [] OTHER -> Undef],
    mem |-> [a \in {0} |-> ReturnAddress],
    zf |-> FALSE,
    status |-> "unassembled" ]

ci == m_instructions[cpu.pc]

Labels(code) == {i \in 1..Len(code) : code[i].kind = "LABEL"}
LabelsUnique(code) ==
  \A i, j \in Labels(code) : code[i].ops[1] = code[j].ops[1] => i = j
Position(lbl) ==
  CHOOSE i \in Labels(m_instructions) : m_instructions[i].ops[1] = lbl

(* rsp and rbp hold addresses of 64 bits, the others an int.               *)
Wide(o) == o.kind = "reg" /\ o.reg \in {"rsp", "rbp"}
Address(o) == cpu.regs["rbp"] + o.off
Peek(a) == IF a \in DOMAIN cpu.mem THEN cpu.mem[a] ELSE Undef

Read(o) ==
  CASE o.kind = "reg" -> cpu.regs[o.reg]
    [] o.kind = "imm" -> Word(o.imm)
    [] o.kind = "mem" -> Peek(Address(o))

(* The memory m after x is stored at address a.                            *)
Stored(m, a, x) ==
  [b \in DOMAIN m \cup {a} |-> IF b = a THEN x ELSE m[b]]

Write(c, o, x) ==
  CASE o.kind = "reg" -> [c EXCEPT !.regs[o.reg] = x]
    [] o.kind = "mem" -> [c EXCEPT !.mem = Stored(@, Address(o), x)]

Advance(c) == [c EXCEPT !.pc = @ + 1]

Executing(kinds) ==
  /\ cpu.status = "running"
  /\ cpu.pc <= Len(m_instructions)
  /\ ci.kind \in kinds
  /\ UNCHANGED vars

(* gcc takes the assembly only if no label is defined twice and all of its *)
(* instructions exist, and makes main the entry point.                     *)
Assemble ==
  /\ phase = "done"
  /\ cpu.status = "unassembled"
  /\ cpu' = IF LabelsUnique(m_instructions) /\ EncodableCode
            THEN [cpu EXCEPT !.status = "running", !.pc = Position(Lbl("main"))]
            ELSE [cpu EXCEPT !.status = "rejected"]
  /\ UNCHANGED vars

ExecLabel ==
  /\ Executing({"LABEL"})
  /\ cpu' = Advance(cpu)

ExecMov ==
  /\ Executing({"MOV"})
  /\ cpu' = Advance(Write(cpu, ci.ops[1], Read(ci.ops[2])))

ExecArith ==
  /\ Executing({"ADD", "SUB"})
  /\ LET a == Read(ci.ops[1])
         b == Read(ci.ops[2])
     IN cpu' = Advance(Write(cpu, ci.ops[1],
                 CASE Wide(ci.ops[1]) -> a - ci.ops[2].imm
                   [] ~Wide(ci.ops[1]) /\ ci.kind = "ADD" -> Plus(a, b)
                   [] ~Wide(ci.ops[1]) /\ ci.kind = "SUB" -> Minus(a, b)))

(* The zero flag; comparing what was never written may set it or clear it. *)
ExecCmp ==
  /\ Executing({"CMP"})
  /\ \E z \in BOOLEAN :
       /\ Undef \notin {Read(ci.ops[1]), Read(ci.ops[2])}
            => z = (Read(ci.ops[1]) = Read(ci.ops[2]))
       /\ cpu' = Advance([cpu EXCEPT !.zf = z])

ExecJump ==
  /\ Executing({"JE", "JMP"})
  /\ cpu' = IF ci.kind = "JE" /\ ~cpu.zf THEN Advance(cpu)
            ELSE [cpu EXCEPT !.pc = Position(ci.ops[1])]

ExecPush ==
  /\ Executing({"PUSH"})
  /\ LET sp == cpu.regs["rsp"] - 8
     IN cpu' = Advance([cpu EXCEPT !.regs["rsp"] = sp,
                                   !.mem = Stored(@, sp, Read(ci.ops[1]))])

ExecPop ==
  /\ Executing({"POP"})
  /\ cpu' = Advance([cpu EXCEPT !.regs[ci.ops[1].reg] = Peek(cpu.regs["rsp"]),
                                !.regs["rsp"] = @ + 8])

ExecRet ==
  /\ Executing({"RET"})
  /\ cpu' = [cpu EXCEPT !.status = IF Peek(cpu.regs["rsp"]) = ReturnAddress
                                   THEN "returned" ELSE "lost",
                        !.regs["rsp"] = @ + 8]

(* Past the last instruction emitted there is no code of this program.     *)
RunOff ==
  /\ cpu.status = "running"
  /\ cpu.pc > Len(m_instructions)
  /\ cpu' = [cpu EXCEPT !.status = "astray"]
  /\ UNCHANGED vars

Compile == Next /\ UNCHANGED cpu

Execute ==
  \/ ExecLabel
  \/ ExecMov
  \/ ExecArith
  \/ ExecCmp
  \/ ExecJump
  \/ ExecPush
  \/ ExecPop
  \/ ExecRet
  \/ RunOff

RunInit == Init /\ cpu = Loader

RunNext == Compile \/ Assemble \/ Execute

RunSpec == RunInit /\ [][RunNext]_runVars /\ WF_runVars(RunNext)

-----------------------------------------------------------------------------
(* The values that an instruction mentions: it makes getOperandForValue    *)
(* find a place for each of them.                                          *)
Mentions(i) ==
  {i.args[k].id : k \in {j \in 1..Len(i.args) : ~i.args[j].imm}}
    \cup (IF i.op \in {"load", "add", "sub"} THEN {i.id} ELSE {})

MentionedIn(code, I) == UNION {Mentions(code[i]) : i \in I}

(* Every value lives in one block.                                         *)
BlockLocal(f) ==
  \A b, c \in 1..Len(f.blocks) :
    LET In(k) == MentionedIn(f.blocks[k].insts, 1..Len(f.blocks[k].insts))
    IN b # c => In(b) \cap In(c) = {}

(* No point of the function needs more than n registers at a time: for the *)
(* values mentioned at it, or both before and after it.                    *)
Fits(f, n) ==
  \A b \in 1..Len(f.blocks) :
    LET code == f.blocks[b].insts
    IN \A i \in 1..Len(code) :
         Cardinality(MentionedIn(code, 1..i) \cap MentionedIn(code, i..Len(code)))
           <= n

-----------------------------------------------------------------------------
(* Properties.                                                             *)
Main == module[CHOOSE f \in 1..Len(module) : module[f].name = "main"]

(* What can be seen of a run from outside: nothing before it stops, then   *)
(* the content of eax; Failed when it stops in any other way.              *)
Failed == -9
Seen ==
  CASE cpu.status \in {"unassembled", "running"} -> << >>
    [] cpu.status = "returned" -> <<cpu.regs["eax"]>>
    [] cpu.status \in {"rejected", "lost", "astray"} -> <<Failed>>

Source == INSTANCE Contract WITH main <- Main, outcome <- Seen,
                                 ProgramValues <- Values

(* The compiled program returns, and returns what the IR says: registers   *)
(* and slots assigned, released, reused and spilled on the way never       *)
(* change a result, and no execution is lost in the code.                  *)
TranslationCorrect == Source!Promise

(* When main executes a ret, its caller has the stack and frame pointers   *)
(* back, whatever was pushed and spilled (System V AMD64).                 *)
FrameRestored ==
  cpu.status \in {"returned", "lost"} => /\ cpu.regs["rsp"] = 8
                                         /\ cpu.regs["rbp"] = CallerRbp

(* The slots that a program's code names, and how many of them a frame is  *)
(* meant to have.                                                          *)
SlotsOf(x) == {o.off : o \in {y \in ToSet(x.ops) : y.kind = "mem"}}
Slots(code) == UNION {SlotsOf(code[i]) : i \in 1..Len(code)}
FrameSlots == 16

(* As long as the allocator hands out no more slots than the frame is      *)
(* meant to have, nothing that main writes lies below rsp: the bytes that  *)
(* emitPrologue reserves and the offsets that getOperandForValue counts    *)
(* down by hand agree up to the last slot.  (Nothing in the code keeps it  *)
(* from handing out one more.)                                             *)
StoresInFrame ==
  [][\A a \in DOMAIN cpu'.mem :
       (a \in DOMAIN cpu.mem => cpu'.mem[a] # cpu.mem[a])
         => \/ a >= cpu'.regs["rsp"]
            \/ Cardinality(Slots(m_instructions)) > FrameSlots]_cpu

(* rbx belongs to the caller of main (System V AMD64).                     *)
CalleeSavedKept == cpu.status = "returned" => cpu.regs["ebx"] = Undef

(* No label is emitted twice: the assembly can be assembled.               *)
Assembles == cpu.status # "rejected"
=============================================================================
