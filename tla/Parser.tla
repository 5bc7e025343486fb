------------------------------- MODULE Parser --------------------------------
(***************************************************************************)
(* Parser: recursive descent with precedence climbing for expressions and  *)
(* panic-mode recovery, over a stream of token kinds.  The C++ stack is a  *)
(* list of tasks: a function that is entered or resumed after a call, with *)
(* its local variables.                                                    *)
(*                                                                         *)
(* A token is its kind, and the tree built is told apart by the positions  *)
(* of the tokens: the text of names and literals takes no part in parsing. *)
(* Kinds that are treated alike are represented by one of them.            *)
(***************************************************************************)
EXTENDS Integers, FiniteSets, SequencesExt

CONSTANT Inputs  \* token sequences, as the lexer delivers them

Types == {"int"}                  \* KwInt, KwFloat, KwVoid
RecordKeys == {"class"}           \* KwClass, KwStruct
Accesses == {"public"}            \* KwPublic, KwPrivate, KwProtected
Literals == {"lit"}               \* integer, float and string literals
Operators == {"=", ">", "+", "*"} \* one of each of four precedences
Members == {"."}                  \* Dot, Arrow
Others == {"id", "(", ")", "{", "}", "[", "]", ";", ",", ":",
           "return", "if", "else", "while",
           "for",  \* KwFor, of which only synchronize() knows
           "!"}    \* all that no function asks for
Kinds == Types \cup RecordKeys \cup Accesses \cup Literals \cup Operators
           \cup Members \cup Others

ASSUME InputsAssumption ==
  \A ts \in Inputs :
    /\ ts \in Seq(Kinds \cup {"eof"}) /\ ts # << >>
    /\ \A k \in DOMAIN ts : ts[k] = "eof" <=> k = Len(ts)

VARIABLES
  tokens,  \* the input, ending in "eof"; never changed
  stream,  \* pos: of currentToken; errors: where diags.error was called
  tasks,   \* the C++ stack
  nodes,   \* the nodes made
  ret      \* what the last call returned: a position in nodes, 0 for null

parserVars == <<tokens, stream, tasks, nodes, ret>>

Null == 0

getPrecedence(kind) ==
  CASE kind = "=" -> 10
    [] kind = ">" -> 80
    [] kind = "+" -> 100
    [] kind = "*" -> 110
    [] kind \in Members -> 120
    [] OTHER -> -1

-----------------------------------------------------------------------------
(* The stream of tokens; its last one is delivered again and again.        *)
cur(s) == tokens[s.pos]
advance(s) == [s EXCEPT !.pos = IF @ = Len(tokens) THEN @ ELSE @ + 1]
error(s) == [s EXCEPT !.errors = @ \cup {s.pos}]
expect(s, kind) == IF cur(s) = kind THEN advance(s) ELSE error(s)

(* Where a scan that starts at s first meets one of the kinds.             *)
FirstOf(s, kinds) ==
  [s EXCEPT !.pos =
     CHOOSE p \in s.pos..Len(tokens) :
       /\ tokens[p] \in kinds \cup {"eof"}
       /\ \A q \in s.pos..(p - 1) : tokens[q] \notin kinds]

Boundaries(isGlobal) ==
  {";"} \cup Types \cup RecordKeys
    \cup (IF isGlobal THEN {} ELSE {"if", "while", "for", "return"})

synchronizeHere(s, isGlobal) ==
  LET found == FirstOf(s, Boundaries(isGlobal))
  IN IF cur(found) = ";" THEN advance(found) ELSE found

synchronize(s, isGlobal) ==
  LET found == FirstOf(advance(s), Boundaries(isGlobal))
  IN IF cur(found) = ";" THEN advance(found) ELSE found

-----------------------------------------------------------------------------
(* at: a token; prec, left: locals of parseExpressionHelper; kids: the     *)
(* nodes that the function has collected.                                  *)
Task(do, at, prec, left, kids) ==
  [do |-> do, at |-> at, prec |-> prec, left |-> left, kids |-> kids]
Call(do) == Task(do, 0, 0, Null, << >>)
CallHelper(prec) == Task("helper", 0, prec, Null, << >>)

top == Head(tasks)
Doing(do) == tasks # << >> /\ top.do = do
Continue(ts) == tasks' = ts \o Tail(tasks) /\ UNCHANGED tokens
Then(do, kids) == [top EXCEPT !.do = do, !.kids = kids]

(* from, to: the tokens of a binary expression.                            *)
Node(kind, at, from, to, kids) ==
  [kind |-> kind, at |-> at, from |-> from, to |-> to, kids |-> kids]
(* A child is added unless it is null.                                     *)
WithNull(kids, child) == Append(kids, child)
With(kids, child) == IF child = Null THEN kids ELSE Append(kids, child)
New(kind, at, kids) == nodes' = Append(nodes, Node(kind, at, 0, 0, kids))
Made == Len(nodes) + 1

ReturnNew(kind, at, kids) ==
  New(kind, at, kids) /\ ret' = Made /\ Continue(<< >>)
Return(value) ==
  ret' = value /\ Continue(<< >>) /\ UNCHANGED nodes

(* A call, after which the function goes on with what follows.             *)
CallThen(call, rest) ==
  Continue(<<call, rest>>) /\ UNCHANGED <<nodes, ret>>
GoOn(rest) == Continue(<<rest>>) /\ UNCHANGED <<nodes, ret>>

-----------------------------------------------------------------------------
Init ==
  /\ tokens \in Inputs
  /\ stream = [pos |-> 1, errors |-> {}]
  /\ tasks = <<Call("parse")>>
  /\ nodes = << >>
  /\ ret = Null

(* parse()                                                                 *)
Parse ==
  /\ Doing("parse")
  /\ IF cur(stream) = "eof" THEN ReturnNew("unit", 0, top.kids)
     ELSE CallThen(Call("declaration"), Then("addDeclaration", top.kids))
  /\ UNCHANGED stream

AddDeclaration ==
  /\ Doing("addDeclaration")
  /\ GoOn(Then("parse", With(top.kids, ret)))
  /\ stream' = IF ret = Null THEN synchronize(stream, TRUE) ELSE stream

(* parseDeclaration(), up to the name; and what follows it.                *)
ParseDeclaration ==
  /\ Doing("declaration")
  /\ LET named == advance(stream)
         after == advance(named)
     IN IF cur(stream) \in RecordKeys
        THEN GoOn(Call("record")) /\ stream' = stream
        ELSE IF cur(stream) \notin Types
        THEN Return(Null) /\ stream' = error(stream)
        ELSE IF cur(named) # "id"
        THEN Return(Null) /\ stream' = error(named)
        ELSE GoOn([Call("declarator") EXCEPT !.at = named.pos]) /\ stream' = after

ParseDeclarator ==
  /\ Doing("declarator")
  /\ IF cur(stream) = "("
     THEN LET first == advance(stream)
          IN IF cur(first) = ")"
             THEN GoOn(Then("functionBody", << >>)) /\ stream' = advance(first)
             ELSE GoOn(Then("parameter", << >>)) /\ stream' = first
     ELSE IF cur(stream) = "="
     THEN /\ CallThen(CallHelper(0), Then("initializer", << >>))
          /\ stream' = advance(stream)
     ELSE /\ ReturnNew("vardecl", top.at, << >>)
          /\ stream' = expect(stream, ";")

EndVarDecl ==
  /\ Doing("initializer")
  /\ ReturnNew("vardecl", top.at, With(<< >>, ret))
  /\ stream' = expect(stream, ";")

(* A parameter is a node without children; the body, if any, comes last.   *)
ParseParameter ==
  /\ Doing("parameter")
  /\ LET name == advance(stream)
         after == advance(name)
         Break(s) == GoOn(Then("functionBody", top.kids)) /\ stream' = expect(s, ")")
         Add(do) == /\ New("parameter", name.pos, << >>) /\ UNCHANGED ret
                    /\ Continue(<<Then(do, Append(top.kids, Made))>>)
     IN IF cur(stream) \notin Types THEN Break(error(stream))
        ELSE IF cur(name) # "id" THEN Break(error(name))
        ELSE IF cur(after) = "," THEN Add("parameter") /\ stream' = advance(after)
        ELSE Add("functionBody") /\ stream' = expect(after, ")")

ParseFunctionBody ==
  /\ Doing("functionBody")
  /\ IF cur(stream) = "{"
     THEN CallThen(Call("block"), Then("endFunction", top.kids)) /\ stream' = stream
     ELSE ReturnNew("function", top.at, top.kids) /\ stream' = expect(stream, ";")

EndFunction ==
  /\ Doing("endFunction")
  /\ ReturnNew("function", top.at, With(top.kids, ret))
  /\ UNCHANGED stream

-----------------------------------------------------------------------------
(* parseRecordDecl()                                                       *)
ParseRecordDecl ==
  /\ Doing("record")
  /\ LET name == advance(stream)
         open == advance(name)
     IN IF cur(name) # "id"
        THEN Return(Null) /\ stream' = error(name)
        ELSE IF cur(open) = "{"
        THEN GoOn([Then("member", << >>) EXCEPT !.at = name.pos])
             /\ stream' = advance(open)
        ELSE ReturnNew("record", name.pos, << >>) /\ stream' = expect(open, ";")

EndRecordDecl ==
  /\ Doing("member") /\ cur(stream) \in {"}", "eof"}
  /\ ReturnNew("record", top.at, top.kids)
  /\ stream' = expect(expect(stream, "}"), ";")

(* An access specifier, a method or field without a name, what is none of  *)
(* them: nothing is added.                                                 *)
SkipMember ==
  /\ Doing("member") /\ cur(stream) \notin {"}", "eof"}
  /\ LET next == advance(stream)
     IN IF cur(stream) \in Accesses THEN stream' = expect(next, ":")
        ELSE IF cur(stream) \notin Types THEN stream' = advance(error(stream))
        ELSE cur(next) # "id" /\ stream' = advance(error(next))
  /\ GoOn(top)

ParseMember ==
  /\ Doing("member") /\ cur(stream) \in Types
  /\ LET name == advance(stream)
         after == advance(name)
         params == expect(FirstOf(after, {")"}), ")")
         Add(kind) == /\ New(kind, name.pos, << >>)
                      /\ Continue(<<Then("member", Append(top.kids, Made))>>)
                      /\ UNCHANGED ret
     IN /\ cur(name) = "id"
        /\ IF cur(after) # "("
           THEN Add("field") /\ stream' = expect(after, ";")
           ELSE IF cur(params) # "{"
           THEN Add("method") /\ stream' = expect(params, ";")
           ELSE /\ CallThen(Call("block"), [top EXCEPT !.do = "endMethod",
                                                       !.left = name.pos])
                /\ stream' = params

EndMethod ==
  /\ Doing("endMethod")
  /\ New("method", top.left, With(<< >>, ret))
  /\ Continue(<<Then("member", Append(top.kids, Made))>>)
  /\ UNCHANGED <<stream, ret>>

-----------------------------------------------------------------------------
(* parseBlock()                                                            *)
ParseBlock ==
  /\ Doing("block")
  /\ GoOn(Then("statements", << >>))
  /\ stream' = expect(stream, "{")

ParseStatements ==
  /\ Doing("statements") /\ cur(stream) \notin {"}", "eof"}
  /\ CallThen(Call("statement"), Then("addStatement", top.kids))
  /\ UNCHANGED stream

AddStatement ==
  /\ Doing("addStatement")
  /\ GoOn(Then("statements", With(top.kids, ret)))
  /\ stream' = IF ret = Null THEN synchronize(stream, FALSE) ELSE stream

EndBlock ==
  /\ Doing("statements") /\ cur(stream) \in {"}", "eof"}
  /\ ReturnNew("compound", 0, top.kids)
  /\ stream' = expect(stream, "}")

(* parseStatement()                                                        *)
ParseReturn ==
  /\ Doing("statement") /\ cur(stream) = "return"
  /\ LET after == advance(stream)
     IN IF cur(after) = ";"
        THEN ReturnNew("return", stream.pos, << >>) /\ stream' = advance(after)
        ELSE /\ CallThen(CallHelper(0), [Then("endReturn", << >>) EXCEPT !.at = stream.pos])
             /\ stream' = after

EndReturn ==
  /\ Doing("endReturn")
  /\ ReturnNew("return", top.at, With(<< >>, ret))
  /\ stream' = expect(stream, ";")

ParseBlockStatement ==
  /\ Doing("statement") /\ cur(stream) = "{"
  /\ GoOn(Call("block"))
  /\ UNCHANGED stream

(* if and while: condition, then statement, then for an if the else.       *)
ParseConditional ==
  /\ Doing("statement") /\ cur(stream) \in {"if", "while"}
  /\ CallThen(CallHelper(0), [Then("condition", << >>) EXCEPT !.at = stream.pos])
  /\ stream' = expect(advance(stream), "(")

EndCondition ==
  /\ Doing("condition")
  /\ CallThen(Call("statement"),
              Then(IF tokens[top.at] = "if" THEN "else" ELSE "endWhile",
                   With(<< >>, ret)))
  /\ stream' = expect(stream, ")")

ParseElseForgetting ==
  /\ Doing("else")
  /\ IF cur(stream) = "else"
     THEN /\ CallThen(Call("statement"), Then("endIf", top.kids))
          /\ stream' = advance(stream)
     ELSE ReturnNew("if", top.at, With(top.kids, ret)) /\ stream' = stream

ParseElse ==
  /\ Doing("else")
  /\ IF cur(stream) = "else"
     THEN /\ CallThen(Call("statement"), Then("endIf", With(top.kids, ret)))
          /\ stream' = advance(stream)
     ELSE ReturnNew("if", top.at, With(top.kids, ret)) /\ stream' = stream

EndConditional ==
  /\ Doing("endIf") \/ Doing("endWhile")
  /\ ReturnNew(tokens[top.at], top.at, With(top.kids, ret))
  /\ UNCHANGED stream

ParseDeclStatement ==
  /\ Doing("statement") /\ cur(stream) \in Types
  /\ CallThen(Call("declaration"), Then("endDeclStatement", << >>))
  /\ UNCHANGED stream

EndDeclStatement ==
  /\ Doing("endDeclStatement")
  /\ IF ret = Null THEN Return(Null) ELSE ReturnNew("declstmt", 0, <<ret>>)
  /\ UNCHANGED stream

ParseExprStatement ==
  /\ Doing("statement")
  /\ cur(stream) \notin {"return", "{", "if", "while"} \cup Types
  /\ CallThen(CallHelper(0), Then("endExprStatement", << >>))
  /\ UNCHANGED stream

EndExprStatement ==
  /\ Doing("endExprStatement")
  /\ IF ret = Null THEN Return(Null) /\ stream' = stream
     ELSE ReturnNew("exprstmt", 0, <<ret>>) /\ stream' = expect(stream, ";")

-----------------------------------------------------------------------------
(* parseExpressionHelper(prec)                                             *)
ParseHelper ==
  /\ Doing("helper")
  /\ CallThen(Call("primary"), [top EXCEPT !.do = "operators", !.at = stream.pos])
  /\ UNCHANGED stream

(* parsePrimary()                                                          *)
ParsePrimary ==
  /\ Doing("primary")
  /\ IF cur(stream) \in Literals \cup {"id"}
     THEN ReturnNew("leaf", stream.pos, << >>) /\ stream' = advance(stream)
     ELSE IF cur(stream) = "("
     THEN CallThen(CallHelper(0), Call("parenthesis")) /\ stream' = advance(stream)
     ELSE Return(Null) /\ stream' = error(stream)

EndParenthesisOpen ==
  /\ Doing("parenthesis")
  /\ Return(ret)
  /\ stream' = IF cur(stream) = ")" THEN advance(stream) ELSE stream

EndParenthesis ==
  /\ Doing("parenthesis")
  /\ Return(ret)
  /\ stream' = expect(stream, ")")

(* Left-associative: the right operand binds tighter.                      *)
OperandPrecedenceEqual(tokPrec) == tokPrec
OperandPrecedence(tokPrec) == tokPrec + 1

EndOperators ==
  /\ Doing("operators")
  /\ ret = Null \/ getPrecedence(cur(stream)) < top.prec
  /\ Return(ret)
  /\ UNCHANGED stream

ParseOperator ==
  /\ Doing("operators") /\ ret # Null
  /\ cur(stream) \notin Members
  /\ getPrecedence(cur(stream)) >= top.prec
  /\ CallThen(CallHelper(OperandPrecedence(getPrecedence(cur(stream)))),
              [top EXCEPT !.do = "operand", !.left = ret,
                          !.kids = <<stream.pos>>])
  /\ stream' = advance(stream)

EndOperand ==
  /\ Doing("operand")
  /\ IF ret = Null THEN Return(top.left)
     ELSE /\ nodes' = Append(nodes, Node("binary", top.kids[1], top.at,
                                         stream.pos - 1, <<top.left, ret>>))
          /\ ret' = Made
          /\ Continue(<<Then("operators", << >>)>>)
  /\ UNCHANGED stream

ParseMemberAccess ==
  /\ Doing("operators") /\ ret # Null
  /\ cur(stream) \in Members /\ getPrecedence(cur(stream)) >= top.prec
  /\ LET name == advance(stream)
     IN IF cur(name) # "id" THEN Return(ret) /\ stream' = error(name)
        ELSE /\ New("member", name.pos, <<ret>>)
             /\ ret' = Made
             /\ Continue(<<top>>)
             /\ stream' = advance(name)

Next ==
  \/ Parse \/ AddDeclaration
  \/ ParseDeclaration \/ ParseDeclarator \/ EndVarDecl
  \/ ParseParameter \/ ParseFunctionBody \/ EndFunction
  \/ ParseRecordDecl \/ EndRecordDecl \/ SkipMember \/ ParseMember \/ EndMethod
  \/ ParseBlock \/ ParseStatements \/ AddStatement \/ EndBlock
  \/ ParseReturn \/ EndReturn \/ ParseBlockStatement
  \/ ParseConditional \/ EndCondition \/ ParseElse \/ EndConditional
  \/ ParseDeclStatement \/ EndDeclStatement
  \/ ParseExprStatement \/ EndExprStatement
  \/ ParseHelper \/ ParsePrimary \/ EndParenthesis
  \/ EndOperators \/ ParseOperator \/ EndOperand \/ ParseMemberAccess

Spec == Init /\ [][Next]_parserVars

(* parse() is a plain call: the process takes its steps.                   *)
FairSpec == Spec /\ WF_parserVars(Next)

Parsed == tasks = << >>
Accepted == Parsed /\ stream.errors = {}

-----------------------------------------------------------------------------
(* Types; and the trees built so far are trees: children come first, and   *)
(* what the functions on the stack hold are nodes.                         *)
Made_ == 0..Len(nodes)

TypeOK ==
  /\ stream.pos \in DOMAIN tokens
  /\ stream.errors \subseteq DOMAIN tokens
  /\ ret \in Made_
  /\ \A t \in ToSet(tasks) :
       /\ t.prec \in 0..121 /\ t.at \in 0..Len(tokens)
       /\ t.left \in Nat /\ t.kids \in Seq(Nat)
       /\ t.do \notin {"operand", "endMethod"} => ToSet(t.kids) \subseteq Made_
  /\ \A n \in DOMAIN nodes :
       /\ nodes[n].at \in 0..Len(tokens)
       /\ ToSet(nodes[n].kids) \subseteq 1..(n - 1)

(* Parsing comes to an end whatever the tokens: every loop, those of the   *)
(* error recovery included, consumes a token before it starts over.        *)
Parses == <>Parsed

(* An expression is grouped by precedence, and from the left: the operator *)
(* at the root is the last of the weakest ones outside of parentheses.     *)
Depth(from, q) ==
  Cardinality({k \in from..q : tokens[k] = "("})
    - Cardinality({k \in from..q : tokens[k] = ")"})
OuterOperators(n) ==
  {q \in n.from..n.to : tokens[q] \in Operators /\ Depth(n.from, q) = 0}

PrecedenceKept ==
  Accepted =>
    \A n \in ToSet(nodes) : n.kind = "binary" =>
      /\ n.at \in OuterOperators(n)
      /\ \A q \in OuterOperators(n) :
           /\ getPrecedence(tokens[n.at]) <= getPrecedence(tokens[q])
           /\ getPrecedence(tokens[n.at]) = getPrecedence(tokens[q]) => q <= n.at

(* What was read without an error is in the tree, once: every node but the *)
(* root is a child of one other, and every name and literal has a node,    *)
(* the names of what is declared and of parameters too.  (The parameters   *)
(* of a method are skipped.)                                               *)
ParentsOf(n) == {p \in DOMAIN nodes : n \in ToSet(nodes[p].kids)}

SkippedWithMethod(q) ==
  \E n \in ToSet(nodes) :
    n.kind = "method" /\ n.at < q /\ \A k \in n.at..q : tokens[k] # ")"

NothingLost ==
  Accepted =>
    /\ \A n \in 1..(Len(nodes) - 1) : Cardinality(ParentsOf(n)) = 1
    /\ \A q \in DOMAIN tokens :
         tokens[q] \in Literals \cup {"id"} /\ ~SkippedWithMethod(q)
         => \E n \in ToSet(nodes) : n.at = q

(* A token that is missing or out of place is reported once.               *)
ReportedOnce == Parsed => Cardinality(stream.errors) <= 1
=============================================================================
