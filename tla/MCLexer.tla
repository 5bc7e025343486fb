------------------------------- MODULE MCLexer -------------------------------
(* Instances of Lexer: every file of up to three characters, and longer    *)
(* ones of the characters that make comments, literals and numbers.        *)
EXTENDS Lexer

MCLetters == {"i", "f"}
MCDigits == {"1"}
MCSpaces == {" ", "\n"}
MCKeywords == {<<"i", "f">>}

UpTo(n, chars) == UNION {[1..k -> chars] : k \in 0..n}

Mixed == {"i", "f", "1", ".", "+", "-", "<", ">", "=", "/", "*", "&", ":", "%", "@", " ", "\n",
        "\"", "'"}
AllFiles ==
       UpTo(3, Mixed)
  \cup UpTo(5, {"/", "*", "\n", "i"})
  \cup UpTo(5, {"\"", "\\", "\n", "i"})
  \cup UpTo(4, {"1", ".", "'", "\n"})

(* Small files on which the lexer does other than the documents say.       *)
Contradicted == {<<"\"", "i", "\"">>, <<"i", "\n">>, <<"@", "i">>}
=============================================================================
