------------------------------ MODULE MCX86Run -------------------------------
(* Instances of X86Run: programs of three variables for a pool of three    *)
(* registers, and programs of up to 8 variables for the pool of the code.  *)
EXTENDS X86Run, Programs

TwoRegisters == <<"ecx", "edx">>
ThreeRegisters == <<"ecx", "edx", "r8d">>
(* std::stoi accepts the numbers of an int.                                *)
MCInts == -(2^(WordBits - 1))..(2^(WordBits - 1) - 1)
CodePool == <<"ecx", "edx", "r8d", "r9d", "r10d", "r11d">>

Exprs == {Num(5), Var(1), Sum(1, 2), Sum(3, 3), Diff(2, Const(9))}
Sets == {<<1, Num(7)>>, <<2, Num(-4)>>, <<2, Var(1)>>, <<1, Sum(1, 2)>>,
         <<3, Diff(2, Const(1))>>, <<3, Diff(3, Ref(1))>>}
Lists(n) == [1..n -> Sets]
TooLarge == <<2, Diff(1, Const(99))>>

(* Programs whose values stay in one block and fit into the pool.          *)
Programs3 ==
       {Flat("main", s, e) : s \in Lists(1) \cup Lists(2) \cup Lists(3), e \in Exprs}
  \cup {Branchy("main", s, Var(1), t, e) :
          s \in Lists(2), t \in Lists(2), e \in Exprs}

Tame == {<<f>> : f \in {p \in Programs3 :
                          BlockLocal(p) /\ Fits(p, Len(RegisterPool))}}

(* int x1 = 1, .., xn = 1; x1 = 0; .. xk = 0; return 0; where k registers  *)
(* are all there are: they are held from end to end, and each of the other *)
(* n - k variables is spilled.                                             *)
Spilling(n) ==
  LET k == Len(RegisterPool)
      Decls == [x \in 1..n |-> Alloca(x)]
      Inits == [x \in 1..n |-> Store(Const(1), Ref(x))]
      Again == [x \in 1..k |-> Store(Const(0), Ref(x))]
  IN Func("main", << Block("entry", Decls \o Inits \o Again \o <<Ret(Const(0))>>) >>)

(* Any programs, also those that the compiler gets wrong.                  *)
Wild ==
  {<<f>> : f \in
       {Flat("main", s, e) : s \in Lists(2) \cup Lists(3), e \in Exprs}
  \cup {Branchy("main", s, Var(1), t, e) :
          s \in Lists(1), t \in Lists(2), e \in Exprs}
  \cup {Loopy("main", s, Var(1), t, e) :
          s \in Lists(1), t \in Lists(1), e \in Exprs}
  \cup {Procedure("main", s, ret) : s \in Lists(1), ret \in BOOLEAN}}
  \cup {<<Procedure("f", s, ret), Apart(Flat("main", t, e), NVars + 8)>> :
          s \in Lists(2), ret \in BOOLEAN, t \in Lists(1), e \in {Var(1), Sum(1, 2)}}
  \cup {<<Branchy("main", <<r>>, Var(1), <<TooLarge, s>>, Var(2))>> :
          r \in Sets, s \in Sets}
  \cup {<<Spilling(Len(RegisterPool) + n)>> : n \in (FrameSlots - 1)..(FrameSlots + 1)}

(* test_ctrl.cpp: int x = 10; while (x) { x = x - 1; } return x;           *)
TestCtrl == {<< Loopy("main", << <<1, Num(10)>> >>, Var(1),
                      << <<1, Diff(1, Const(1))>> >>, Var(1)) >>}

(* int x1 = 1, .., xn = n; return y1 + .. + yn; the sum starts at any of   *)
(* the n variables.                                                        *)
Declared(n) == [x \in 1..n |-> <<x, Num(x)>>]
SumOf(ys) ==
  LET first == GenAtom(GenSets(Declare(Start), Declared(NVars)), Ref(ys[1]))
      Plus_(s, y) == LET r == GenAtom(s, Ref(y))
                         n == Fresh(r)
                     IN [Emit(n, AddInst(n.temp, s.val, r.val))
                           EXCEPT !.val = Ref(n.temp)]
      all == FoldLeft(Plus_, first, Tail(ys))
  IN Func("main", << Block("entry", Emit(all, Ret(all.val)).insts) >>)
Crowded ==
  {<<SumOf([i \in 1..NVars |-> ((i + r) % NVars) + 1])>> : r \in 1..NVars}

(* int x = 1; if (x) { } if (x) { } return 0;                              *)
TwoIfs ==
  {<< Func("main",
        << Block("entry", << Alloca(1), Store(Const(1), Ref(1)), Load(9, Ref(1)),
                             CondBr(Ref(9), 2, 3) >>),
           Block("if.then", << Br(3) >>),
           Block("if.end", << Load(10, Ref(1)), CondBr(Ref(10), 4, 5) >>),
           Block("if.then", << Br(5) >>),
           Block("if.end", << Ret(Const(0)) >>) >>) >>}

Contradicting == Crowded \cup TwoIfs
=============================================================================
