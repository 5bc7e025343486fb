------------------------------ MODULE MCParser -------------------------------
(* Instances of Parser: every short sequence of tokens, and programs with  *)
(* one token changed, left out or put in.                                  *)
EXTENDS Grammar

Eof == <<"eof">>
Short == UNION {[1..n -> Kinds] : n \in 0..3}

Base ==
  { <<"int", "id", "=", "lit", ";">>,
    <<"int", "id", "(", "int", "id", ",", "int", "id", ")", ";">>,
    <<"class", "id", "{", "public", ":", "int", "id", ";",
      "int", "id", "(", ")", "{", "return", "id", ";", "}", "}", ";">>,
    <<"int", "id", "(", ")", "{", "if", "(", "id", ")", "{", "}",
      "else", "return", "lit", ";", "}", "int", "id", ";">>,
    <<"int", "id", "(", ")", "{", "while", "(", "id", ".", "id", ")",
      "id", "=", "(", "lit", ")", ";", "return", ";", "}">> }

Without(ts, k) == SubSeq(ts, 1, k - 1) \o SubSeq(ts, k + 1, Len(ts))
Edited(ts) ==
       {ts}
  \cup {Without(ts, k) : k \in DOMAIN ts}
  \cup {[ts EXCEPT ![k] = t] : k \in DOMAIN ts, t \in Kinds}
  \cup {InsertAt(ts, k, t) : k \in DOMAIN ts, t \in Kinds}

(* Expressions of up to five operands, with parentheses at some of them.   *)
Expression(ops, open, close) ==
  FoldLeft(LAMBDA e, k :
             e \o (IF k = 1 THEN << >> ELSE <<ops[k - 1]>>)
               \o (IF k = open THEN <<"(">> ELSE << >>) \o <<"id">>
               \o (IF k = close THEN <<")">> ELSE << >>),
           << >>, [k \in 1..(Len(ops) + 1) |-> k])
Expressions ==
  {Expression(ops, p[1], p[2]) :
     ops \in [1..2 -> Operators] \cup [1..3 -> Operators] \cup [1..4 -> {"=", "+", "*"}],
     p \in {<<0, 0>>, <<1, 2>>, <<2, 3>>, <<2, 4>>, <<3, 3>>}}

ParserInputs ==
  {ts \o Eof : ts \in Short \cup UNION {Edited(b) : b \in Base}
       \cup {<<"int", "id", "=">> \o e \o <<";">> : e \in Expressions}}

(* int f() { + } int main() { return 0; }; and what README.md lists:       *)
(* int *p;  int a[2];  int x = !y;                                         *)
Contradicted ==
  {<<"int", "id", "(", ")", "{", "+", "}",
     "int", "id", "(", ")", "{", "return", "lit", ";", "}", "eof">>,
   <<"int", "*", "id", ";", "eof">>,
   <<"int", "id", "[", "lit", "]", ";", "eof">>,
   <<"int", "id", "=", "!", "id", ";", "eof">>}
=============================================================================
