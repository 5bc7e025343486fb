------------------------------ MODULE MCDriver -------------------------------
(* Instances of Driver: up to three arguments in every order, among them   *)
(* files with each kind of fault, a name that does not exist, and a last   *)
(* -o without a name.                                                      *)
EXTENDS Driver

Cpp(name) == <<name, ".", "cpp">>
Sources == {Cpp(x) : x \in {"good", "fine", "lex", "syntax", "sema", "sum", "large"}}
AllNames == Sources \cup {<<".", "/good">>, <<"no">>, <<"r/o", ".", "cpp">>,
                          <<"good", ".", "cc">>}
OnDisk == AllNames \ {<<"no">>}

Some == {Cpp("good"), Cpp("fine"), Cpp("sema"), Cpp("syntax")}
Pairs == AllNames \ {<<"good", ".", "cc">>}
FlagOrName == Flags \cup {<<"-o">>}

AllLines ==
       {<< >>}
  \cup {<<x>> : x \in FlagOrName \cup AllNames}
  \cup {<<x, y>> : x \in FlagOrName \cup Pairs, y \in FlagOrName \cup Pairs}
  \cup {<<x, y, z>> : x \in FlagOrName, y \in FlagOrName, z \in Sources}
  \cup {<<x, y, z>> : x \in FlagOrName, y \in Some, z \in Pairs}
  \cup {<<y, z, x>> : x \in Some \cup {<<"-o">>, <<"-c">>}, y \in Some, z \in Pairs}

LexFault == {Cpp("lex")}
SyntaxFault == {Cpp("syntax"), Cpp("lex")}
MeaningFault == {Cpp("sema")}
LargeInSum == {Cpp("sum")}
LargeConstant == {Cpp("sum"), Cpp("large")}
ReadOnly == {<<"r/o", ".", "s">>}

(* -c sema.cpp good.cpp, and -ir good.cpp *)
Contradicted == {<< <<"-c">>, Cpp("sema"), Cpp("good") >>, << <<"-ir">>, Cpp("good") >>}
=============================================================================
