---------------------------- MODULE MCPreprocessor ---------------------------
(* Instances of Preprocessor: files of a few lines, each with a directive, *)
(* some text or both.                                                      *)
EXTENDS Preprocessor

Name(s) == [kind |-> "Identifier", text |-> s]
Sharp == [kind |-> "Hash", text |-> "#"]
Kw == [kind |-> "Keyword", text |-> "else"]
Number == [kind |-> "IntegerLiteral", text |-> "1"]
d(name, rest) == <<Sharp, Name(name)>> \o rest

A == Name("A")
B == Name("B")

(* Conditionals and definitions, with a token more than they need.         *)
Regular ==
  {<<A, B>>, d("ifdef", <<A, B>>), d("ifndef", <<A, B>>), d("endif", <<A>>),
   d("define", <<A, B>>), d("define", <<A>>), d("unknown", <<A>>)}
Undefining == Regular \cup {d("undef", <<A, B>>)}

(* All the rest: directives that are wrong, or in the middle of a line, or *)
(* with nothing behind them.                                               *)
Odd ==
  {<<A, Number>>, d("define", <<A, Number, A>>), d("define", <<Kw, A>>), d("define", <<Number>>),
   d("define", << >>), <<A>> \o d("define", <<A, Sharp>>), <<A, Kw>> \o d("undef", <<A, Number>>),
   d("ifdef", <<Number, A>>), d("ifndef", << >>), d("ifdef", <<A>>), d("ifndef", <<A, B>>),
   d("undef", <<Kw>>), d("endif", << >>), d("endif", <<A>>), <<Sharp>>, <<Sharp, Kw>>,
   <<Sharp, Kw, A>>, <<Sharp, Number, A>>, d("B", <<A>>), d("A", << >>)}

(* The end of the file is on the last line, or on one of its own.          *)
FileOf(ls, own) ==
  LET Placed(l) == [k \in DOMAIN ls[l] |-> ls[l][k] @@ [line |-> l]]
  IN Append(FlattenSeq([l \in DOMAIN ls |-> Placed(l)]),
            [kind |-> "EndOfFile", text |-> "", line |-> Len(ls) + own])

MCFiles ==
       {FileOf(ls, 0) : ls \in [1..5 -> Regular] \cup [1..4 -> Undefining] \cup [1..3 -> Odd]}
  \cup {FileOf(ls, 1) : ls \in [1..2 -> Odd]}
=============================================================================
