------------------------------ MODULE Programs -------------------------------
(***************************************************************************)
(* Instances of X86Backend for TLC.  A program is a list of assignments    *)
(* <<x, e>> and a return, over NVars int variables declared at the top;    *)
(* Flat, Branchy and Loopy give the IR that IRGenerator makes of them.     *)
(***************************************************************************)
EXTENDS IR, FiniteSets, SequencesExt

CONSTANTS NVars, NTemps

Vars == 1..NVars
Temps == (NVars + 1)..(NVars + NTemps)
AllValues == Vars \cup Temps

(* Expressions: a number, a variable, or a sum or difference of the two.   *)
Num(n) == <<Const(n)>>
Var(x) == <<Ref(x)>>
Sum(x, y) == <<"add", Ref(x), Ref(y)>>
Diff(x, o) == <<"sub", Ref(x), o>>

(* s.insts so far, s.temp the last temporary in use.                       *)
Emit(s, i) == [s EXCEPT !.insts = Append(@, i)]
Fresh(s) == [s EXCEPT !.temp = @ + 1]

GenAtom(s, o) ==
  IF o.imm THEN [s EXCEPT !.val = o]
  ELSE LET n == Fresh(s)
       IN [Emit(n, Load(n.temp, o)) EXCEPT !.val = Ref(n.temp)]

GenExpr(s, e) ==
  IF Len(e) = 1 THEN GenAtom(s, e[1])
  ELSE LET l == GenAtom(s, e[2])
           r == GenAtom(l, e[3])
           n == Fresh(r)
       IN [Emit(n, Instr(e[1], n.temp, <<l.val, r.val>>, << >>))
             EXCEPT !.val = Ref(n.temp)]

GenSet(s, x, e) == LET v == GenExpr(s, e) IN Emit(v, Store(v.val, Ref(x)))
GenSets(s, sets) ==
  FoldLeft(LAMBDA acc, a : GenSet(acc, a[1], a[2]), s, sets)
GenRet(s, e) == LET v == GenExpr(s, e) IN Emit(v, Ret(v.val))

Start == [insts |-> << >>, temp |-> NVars, val |-> Const(0)]
FreshBlock(s) == [s EXCEPT !.insts = << >>]
Declare(s) ==
  [s EXCEPT !.insts = [x \in 1..NVars |-> Alloca(x)]]

(* int name() { <declarations> sets return e; }                            *)
Flat(name, sets, e) ==
  Func(name, << Block("entry",
                      GenRet(GenSets(Declare(Start), sets), e).insts) >>)

(* int name() { sets if (c) { onTrue } return e; }                         *)
Branchy(name, sets, c, onTrue, e) ==
  LET entry == GenExpr(GenSets(Declare(Start), sets), c)
      then  == GenSets(FreshBlock(entry), onTrue)
      end   == GenRet(FreshBlock(then), e)
  IN Func(name, << Block("entry", Emit(entry, CondBr(entry.val, 2, 3)).insts),
                   Block("if.then", Emit(then, Br(3)).insts),
                   Block("if.end", end.insts) >>)

(* int name() { sets while (c) { body } return e; }                        *)
Loopy(name, sets, c, body, e) ==
  LET entry == GenSets(Declare(Start), sets)
      cond  == GenExpr(FreshBlock(entry), c)
      loop  == GenSets(FreshBlock(cond), body)
      end   == GenRet(FreshBlock(loop), e)
  IN Func(name, << Block("entry", Emit(entry, Br(2)).insts),
                   Block("while.cond", Emit(cond, CondBr(cond.val, 3, 4)).insts),
                   Block("while.body", Emit(loop, Br(2)).insts),
                   Block("while.end", end.insts) >>)

(* int name() { sets }: control falls off the end without a return.        *)
Procedure(name, sets, ret) ==
  LET s == GenSets(Declare(Start), sets)
  IN Func(name, << Block("entry", IF ret THEN Emit(s, RetVoid).insts
                                  ELSE s.insts) >>)

(* The function f with values of its own, k further on.                    *)
Apart(f, k) ==
  [f EXCEPT !.blocks = [b \in DOMAIN @ |->
     [@[b] EXCEPT !.insts = [j \in DOMAIN @ |->
        [@[j] EXCEPT !.id = IF @ = NoId THEN @ ELSE @ + k,
                     !.args = [a \in DOMAIN @ |->
                        IF @[a].imm THEN @[a] ELSE Ref(@[a].id + k)]]]]]]
=============================================================================
