----------------------------- MODULE TokenStream -----------------------------
(***************************************************************************)
(* What the interface TokenStream (include/lexer/Token.h) promises to the  *)
(* parser: next() takes the tokens one after the other, peek() shows the   *)
(* one that next() takes then, and the end of the file is never passed.    *)
(***************************************************************************)
EXTENDS Integers, Sequences

VARIABLES
  tokens,  \* of the file, the end of file last
  taken,   \* how many next() has returned, the end of file once
  answer   \* the call last made and the token it returned

Coming == tokens[IF taken = Len(tokens) THEN taken ELSE taken + 1]

Start == taken = 0 /\ answer = << >>

Next ==
  /\ answer' = <<"next", Coming>>
  /\ taken' = IF taken = Len(tokens) THEN taken ELSE taken + 1
  /\ UNCHANGED tokens

Peek ==
  /\ answer' = <<"peek", Coming>>
  /\ UNCHANGED <<tokens, taken>>

Promise == Start /\ [][Next \/ Peek]_<<tokens, taken, answer>>
=============================================================================
