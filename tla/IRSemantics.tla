----------------------------- MODULE IRSemantics -----------------------------
(***************************************************************************)
(* What a function of the IR means: the value it returns when it is run.   *)
(* A reference: the compiler has no interpreter for its IR, and no line of *)
(* it is translated here.  int has WordBits bits and wraps around.         *)
(***************************************************************************)
EXTENDS IR

CONSTANTS
  WordBits,  \* width of an int
  Fuel       \* bound on the instructions executed: a program that needs
             \* more is taken not to return

ASSUME WidthAssumption == WordBits \in Nat \ {0} /\ Fuel \in Nat

(* The content of what was never written, and all that is computed from it. *)
Undef == -1

Word(n) == n % (2^WordBits)
Words == 0..(2^WordBits - 1)

Plus(a, b) == IF Undef \in {a, b} THEN Undef ELSE Word(a + b)
Minus(a, b) == IF Undef \in {a, b} THEN Undef ELSE Word(a - b)

(* A running function: the next instruction, the cells of the variables    *)
(* and the temporaries so far, and the result once it has returned.        *)
BeginIR(V) ==
  [blk |-> 1, idx |-> 1, val |-> [v \in V |-> Undef],
   status |-> "running", result |-> Undef]

ValueOf(s, o) == IF o.imm THEN Word(o.id) ELSE s.val[o.id]

Returned(s, r) == [s EXCEPT !.status = "returned", !.result = r]

(* One instruction.  What branches on an undefined value, or runs off the  *)
(* end of its block, has no meaning: any result will do.                   *)
StepIR(f, s) ==
  LET code == f.blocks[s.blk].insts
      i == code[s.idx]
      Set(v, x) == [s EXCEPT !.val[v] = x, !.idx = @ + 1]
      Goto(b) == [s EXCEPT !.blk = b, !.idx = 1]
  IN CASE s.status # "running" -> s
       [] s.status = "running" /\ s.idx > Len(code) -> Returned(s, Undef)
       [] OTHER ->
            CASE i.op = "alloca" -> [s EXCEPT !.idx = @ + 1]
              [] i.op = "load" -> Set(i.id, ValueOf(s, i.args[1]))
              [] i.op = "store" -> Set(i.args[2].id, ValueOf(s, i.args[1]))
              [] i.op = "add" ->
                   Set(i.id, Plus(ValueOf(s, i.args[1]), ValueOf(s, i.args[2])))
              [] i.op = "sub" ->
                   Set(i.id, Minus(ValueOf(s, i.args[1]), ValueOf(s, i.args[2])))
              [] i.op = "ret" ->
                   Returned(s, IF i.args = << >> THEN Undef
                               ELSE ValueOf(s, i.args[1]))
              [] i.op = "br" -> Goto(i.targets[1])
              [] i.op = "condbr" ->
                   CASE ValueOf(s, i.args[1]) = Undef -> Returned(s, Undef)
                     [] ValueOf(s, i.args[1]) = 0 -> Goto(i.targets[2])
                     [] OTHER -> Goto(i.targets[1])

(* The states that f may be in after Fuel instructions.                    *)
RunIR(f, V) ==
  LET run[n \in 0..Fuel] ==
        IF n = 0 THEN {BeginIR(V)} ELSE {StepIR(f, s) : s \in run[n - 1]}
  IN run[Fuel]

(* The results that a correct translation of f may give; none when f does  *)
(* not return.                                                             *)
Promised(f, V) ==
  UNION {CASE s.status = "running" -> {}
           [] s.status = "returned" /\ s.result = Undef -> Words \cup {Undef}
           [] s.status = "returned" /\ s.result # Undef -> {s.result} :
         s \in RunIR(f, V)}
=============================================================================
