--------------------------- MODULE SourceSemantics ---------------------------
(***************************************************************************)
(* What a function of the source language means in C++, for the part of it *)
(* that IRGenerator has code for: int variables in nested blocks, sums,    *)
(* differences, assignments, if, while and return.  The reference that     *)
(* IRGenerator's output is compared with.                                  *)
(***************************************************************************)
EXTENDS AST, IRSemantics, SequencesExt

(* env: the variables in view, name -> declaring node, for every block     *)
(* that is open, innermost first; cells: the variables' values; val: the   *)
(* value of the last expression; status: "running", "returned", or         *)
(* "undefined" behaviour; fuel bounds the expressions evaluated.           *)
NoNode == 0
Enter(s, names) == [s EXCEPT !.env = <<[x \in names |-> NoNode]>> \o @]
Leave(s) == [s EXCEPT !.env = Tail(@)]

Binding(env, x) ==
  LET k == CHOOSE k \in DOMAIN env :
             env[k][x] # NoNode /\ \A j \in 1..(k - 1) : env[j][x] = NoNode
  IN env[k][x]

Running_(s) == s.status = "running" /\ s.fuel > 0
Use_(s) == [s EXCEPT !.fuel = @ - 1]

RECURSIVE Eval(_, _, _)
Eval(ast, n, s) ==
  LET node == ast[n]
      l == Eval(ast, node.kids[1], Use_(s))
      r == Eval(ast, node.kids[2], Use_(s))
      lr == Eval(ast, node.kids[2], l)
      both == <<l.val, lr.val>>
  IN CASE ~Running_(s) -> s
       [] Running_(s) /\ node.kind = "literal" ->
            [Use_(s) EXCEPT !.val = Word(node.num)]
       [] Running_(s) /\ node.kind = "variable" ->
            [Use_(s) EXCEPT !.val = s.cells[Binding(s.env, node.name)]]
       [] Running_(s) /\ node.kind = "binary" /\ node.name = "=" ->
            [r EXCEPT !.cells[Binding(s.env, ast[node.kids[1]].name)] = r.val]
       [] Running_(s) /\ node.kind = "binary" /\ node.name = "+" ->
            [lr EXCEPT !.val = Plus(both[1], both[2])]
       [] Running_(s) /\ node.kind = "binary" /\ node.name = "-" ->
            [lr EXCEPT !.val = Minus(both[1], both[2])]

RECURSIVE Exec(_, _, _)
Exec(ast, n, s) ==
  LET node == ast[n]
      names == DOMAIN Head(s.env)
      c == Eval(ast, node.kids[1], s)
      Chosen(k) ==
        CASE ~Running_(c) -> c
          [] Running_(c) /\ c.val = Undef -> [c EXCEPT !.status = "undefined"]
          [] Running_(c) /\ c.val \notin {0, Undef} -> Exec(ast, node.kids[2], c)
          [] Running_(c) /\ c.val = 0 ->
               IF k \in DOMAIN node.kids THEN Exec(ast, node.kids[k], c) ELSE c
  IN CASE ~Running_(s) -> s
       [] Running_(s) /\ node.kind = "compound" ->
            Leave(FoldLeft(LAMBDA t, k : Exec(ast, k, t), Enter(s, names), node.kids))
       [] Running_(s) /\ node.kind = "exprstmt" -> c
       [] Running_(s) /\ node.kind = "declstmt" -> Exec(ast, node.kids[1], s)
       [] Running_(s) /\ node.kind = "vardecl" ->
            LET bound == [s EXCEPT !.env[1][node.name] = n, !.cells[n] = Undef]
                init == Eval(ast, node.kids[1], bound)
            IN IF node.kids = << >> THEN bound
               ELSE [init EXCEPT !.cells[n] = init.val]
       [] Running_(s) /\ node.kind = "return" ->
            [c EXCEPT !.status = IF Running_(c) THEN "returned" ELSE @]
       [] Running_(s) /\ node.kind = "if" -> Chosen(3)
       [] Running_(s) /\ node.kind = "while" ->
            LET body == Chosen(3)
            IN IF Running_(c) /\ c.val = 0 THEN c
               ELSE Exec(ast, n, Use_(body))

(* The results that running the function at node n may have; none when it  *)
(* does not return.  Running off its end gives any.                        *)
Means(ast, n, names) ==
  LET s == Exec(ast, ast[n].kids[1],
                [env |-> <<[x \in names |-> NoNode]>>,
                 cells |-> [k \in DOMAIN ast |-> Undef],
                 val |-> Undef, status |-> "running", fuel |-> Fuel])
  IN CASE s.fuel <= 0 /\ s.status = "running" -> {}
       [] s.status = "returned" /\ s.val # Undef -> {s.val}
       [] OTHER -> Words \cup {Undef}
=============================================================================
