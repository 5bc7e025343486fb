----------------------------- MODULE Preprocessor ----------------------------
(***************************************************************************)
(* Preprocessor: a TokenStream on top of another one, with directives      *)
(* taken out and macros replaced.  The stream below keeps the promise of   *)
(* TokenStream (Lexer does): Coming is the token that peek() shows and     *)
(* next() takes, and the end of the file is never passed.  One step is one *)
(* turn of the loop in advanceToken.                                       *)
(***************************************************************************)
EXTENDS Preprocessing, DiagnosticEngine

CONSTANTS Files  \* the sequences of tokens of the stream below

VARIABLES
  input, pos,        \* the stream below: its tokens, and how many are taken
  macros,            \* from names to replacements
  conditionalStack,
  buffer,
  diagnostics,
  calling,           \* "next" or "peek" while the call is not answered
  answer,            \* the call last answered and the token it returned
  delivered,         \* the tokens that next() has returned, up to the end
  peeked,            \* whether peek() was ever called
  meaning            \* what preprocessing of the input should give, and
                     \* whether it is fit for it

streamVars == <<input, pos>>
stateVars == <<macros, conditionalStack, buffer, diagnostics>>
callVars == <<calling, answer, delivered, peeked>>
ppVars == <<streamVars, stateVars, callVars, meaning>>

TokenAt(p) == input[p + 1]
Past(p) == IF TokenAt(p).kind = "EndOfFile" THEN p ELSE p + 1
Coming == TokenAt(pos)

(* Mutant: the conditional opened last decides.                            *)
isSkippingInnermost == conditionalStack # << >> /\ ~Last(conditionalStack)

isSkipping == \E i \in DOMAIN conditionalStack : ~conditionalStack[i]

(* The first token from p on that stands on another line than the one at   *)
(* p, which need not be the line of the directive.                         *)
OtherLine(p, line) ==
  Min({q \in p..(Len(input) - 1) : TokenAt(q).kind = "EndOfFile" \/ TokenAt(q).line # line})
skipLine(p) == OtherLine(p, TokenAt(p).line)

-----------------------------------------------------------------------------
(* The restrictions of the properties below.  skipLine() takes the line of *)
(* the token that is next, so a directive with nothing left on its line    *)
(* costs the line below it: behind every directive but #define and the     *)
(* last one there is one more token.  peek() puts the first token of an    *)
(* expansion behind the others: it is for macros of one token.             *)
Directives == LET lines == Lines(input) IN [l \in DOMAIN lines |-> DirectiveOf(lines[l])]
LineByLine ==
  \A l \in DOMAIN Directives :
    LET d == Directives[l]
        macro == IF NameOf(d) \in {"ifdef", "ifndef", "define", "undef"} THEN 1 ELSE 0
        last == \A k \in (l + 1)..Len(Lines(input)) : Lines(input)[k] = << >>
    IN d # << >> => Len(d) >= 2 + macro + (IF last \/ Is(d, {"define"}) THEN 0 ELSE 1)
ShortMacros ==
  \A l \in DOMAIN Directives : NameOf(Directives[l]) = "define" => Len(Directives[l]) <= 4

Init ==
  /\ input \in Files /\ pos = 0
  /\ macros = << >> /\ conditionalStack = << >> /\ buffer = << >> /\ diagnostics = << >>
  /\ calling = "none" /\ answer = << >> /\ delivered = << >> /\ peeked = FALSE
  /\ meaning = Preprocess(input) @@ [lineByLine |-> LineByLine, short |-> ShortMacros]

AtEnd == delivered # << >> /\ Last(delivered).kind = "EndOfFile"

Answered(call, token) ==
  /\ calling' = "none"
  /\ answer' = <<call, token>>
  /\ delivered' = IF call = "next" /\ ~AtEnd THEN Append(delivered, token) ELSE delivered

(* next(): from the buffer, or else by advanceToken.                       *)
next ==
  /\ calling = "none"
  /\ \/ /\ buffer # << >>
        /\ Answered("next", Head(buffer))
        /\ buffer' = Tail(buffer)
     \/ /\ buffer = << >>
        /\ calling' = "next"
        /\ UNCHANGED <<buffer, answer, delivered>>
  /\ UNCHANGED <<streamVars, macros, conditionalStack, diagnostics, peeked, meaning>>

(* peek(): the same, but the token stays.                                  *)
peek ==
  /\ calling = "none"
  /\ peeked' = TRUE
  /\ \/ /\ buffer # << >>
        /\ Answered("peek", Head(buffer))
     \/ /\ buffer = << >>
        /\ calling' = "peek"
        /\ UNCHANGED <<answer, delivered>>
  /\ UNCHANGED <<streamVars, stateVars, meaning>>

(* advanceToken returns a token, and leaves rest of an expansion behind:   *)
(* next() hands it on, and peek() puts it at the end of the buffer.        *)
Return(token, rest) ==
  /\ Answered(calling, token)
  /\ buffer' = IF calling = "peek" THEN Append(rest, token) ELSE rest

(* The loop goes on with the token at p.                                   *)
GoOn(p) == pos' = p /\ UNCHANGED <<input, buffer, callVars, meaning>>

-----------------------------------------------------------------------------
(* The turns of advanceToken that are no directive.                        *)
(* Mutant: the end of the file is looked for where text counts only.       *)
AtEndOfFileUnskipped ==
  /\ Coming.kind = "EndOfFile"
  /\ \/ isSkipping /\ GoOn(pos)
     \/ ~isSkipping /\ Return(Coming, buffer) /\ UNCHANGED <<streamVars, peeked, meaning>>
  /\ UNCHANGED <<macros, conditionalStack, diagnostics>>
AtEndOfFile ==
  /\ Coming.kind = "EndOfFile"
  /\ Return(Coming, buffer)
  /\ UNCHANGED <<streamVars, macros, conditionalStack, diagnostics, peeked, meaning>>

Skip ==
  /\ Coming.kind \notin {"EndOfFile", "Hash"}
  /\ isSkipping
  /\ GoOn(pos + 1)
  /\ UNCHANGED <<macros, conditionalStack, diagnostics>>

IsMacro(t) == t.kind = "Identifier" /\ t.text \in DOMAIN macros

Expand ==
  /\ ~isSkipping
  /\ IsMacro(Coming)
  /\ LET tokens == buffer \o macros[Coming.text]
     IN \/ /\ tokens # << >>
           /\ Return(Head(tokens), Tail(tokens))
           /\ pos' = pos + 1
           /\ UNCHANGED <<input, peeked, meaning>>
        \/ /\ tokens = << >>
           /\ GoOn(pos + 1)
  /\ UNCHANGED <<macros, conditionalStack, diagnostics>>

Deliver ==
  /\ Coming.kind \notin {"EndOfFile", "Hash"}
  /\ ~isSkipping
  /\ ~IsMacro(Coming)
  /\ Return(Coming, buffer)
  /\ pos' = pos + 1
  /\ UNCHANGED <<input, macros, conditionalStack, diagnostics, peeked, meaning>>

-----------------------------------------------------------------------------
(* handleDirective.  The hash is at pos; name and macro name behind it.    *)
(* The branch for "else" has no action: else is a keyword for Lexer, never *)
(* an identifier, and so it is no name of a directive (NoDirective).       *)
Hash == Coming
directive == TokenAt(Past(pos))
macroName == TokenAt(Past(Past(pos)))
afterDirective == Past(Past(pos))
afterMacroName == Past(Past(Past(pos)))

Says(level, t) == diagnostics' = report(diagnostics, level, t)

Named(names) ==
  /\ Coming.kind = "Hash"
  /\ directive.line = Hash.line
  /\ directive.kind = "Identifier" /\ directive.text \in names

NullDirective ==
  /\ Coming.kind = "Hash"
  /\ directive.line # Hash.line
  /\ Says("error", Hash)
  /\ GoOn(afterDirective)
  /\ UNCHANGED <<macros, conditionalStack>>

NoDirective ==
  /\ Coming.kind = "Hash"
  /\ directive.line = Hash.line /\ directive.kind # "Identifier"
  /\ Says("error", directive)
  /\ GoOn(skipLine(afterDirective))
  /\ UNCHANGED <<macros, conditionalStack>>

NoMacroName ==
  /\ macroName.kind # "Identifier"
  /\ Says("error", macroName)
  /\ GoOn(skipLine(afterMacroName))
  /\ UNCHANGED <<macros, conditionalStack>>

(* Mutant: a conditional that is skipped is not counted.                   *)
IfDefUnskipped ==
  /\ Named({"ifdef", "ifndef"})
  /\ \/ NoMacroName
     \/ /\ macroName.kind = "Identifier"
        /\ conditionalStack' =
             IF isSkipping THEN conditionalStack
             ELSE Append(conditionalStack,
                    (macroName.text \in DOMAIN macros) = (directive.text = "ifdef"))
        /\ GoOn(skipLine(afterMacroName))
        /\ UNCHANGED <<macros, diagnostics>>
IfDef ==
  /\ Named({"ifdef", "ifndef"})
  /\ \/ NoMacroName
     \/ /\ macroName.kind = "Identifier"
        /\ conditionalStack' =
             Append(conditionalStack,
               (macroName.text \in DOMAIN macros) = (directive.text = "ifdef"))
        /\ GoOn(skipLine(afterMacroName))
        /\ UNCHANGED <<macros, diagnostics>>

EndIf ==
  /\ Named({"endif"})
  /\ \/ /\ conditionalStack = << >>
        /\ Says("error", directive)
        /\ UNCHANGED conditionalStack
     \/ /\ conditionalStack # << >>
        /\ conditionalStack' = Front(conditionalStack)
        /\ UNCHANGED diagnostics
  /\ GoOn(skipLine(afterDirective))
  /\ UNCHANGED macros

Conditionals == {"ifdef", "ifndef", "endif"}

(* A directive that is not about conditionals, where text does not count.  *)
Ignored ==
  /\ Named({directive.text} \ Conditionals)
  /\ isSkipping
  /\ GoOn(skipLine(afterDirective))
  /\ UNCHANGED <<macros, conditionalStack, diagnostics>>

Define ==
  /\ Named({"define"})
  /\ ~isSkipping
  /\ \/ NoMacroName
     \/ /\ macroName.kind = "Identifier"
        /\ LET end == OtherLine(afterMacroName, Hash.line)
           IN /\ macros' = (macroName.text :> SubSeq(input, afterMacroName + 1, end)) @@ macros
              /\ GoOn(end)
        /\ UNCHANGED <<conditionalStack, diagnostics>>

Undef ==
  /\ Named({"undef"})
  /\ ~isSkipping
  /\ \/ NoMacroName
     \/ /\ macroName.kind = "Identifier"
        /\ macros' = Restrict(macros, DOMAIN macros \ {macroName.text})
        /\ GoOn(skipLine(afterMacroName))
        /\ UNCHANGED <<conditionalStack, diagnostics>>

Unknown ==
  /\ Named({directive.text} \ (Conditionals \cup {"define", "undef"}))
  /\ ~isSkipping
  /\ Says("warning", directive)
  /\ GoOn(skipLine(afterDirective))
  /\ UNCHANGED <<macros, conditionalStack>>

handleDirective ==
  \/ NullDirective \/ NoDirective \/ IfDef \/ EndIf
  \/ Ignored \/ Define \/ Undef \/ Unknown

advanceToken ==
  /\ calling # "none"
  /\ AtEndOfFile \/ Skip \/ Expand \/ Deliver \/ handleDirective

Next == next \/ peek \/ advanceToken

Spec == Init /\ [][Next]_ppVars /\ WF_ppVars(advanceToken)
-----------------------------------------------------------------------------
(* Properties.                                                             *)

Stream == INSTANCE TokenStream WITH tokens <- meaning.tokens, taken <- Len(delivered)

(* To the parser the preprocessor is a stream of the tokens that the file  *)
(* means, whatever the order of peek() and next(): conditionals nest,      *)
(* definitions come and go, and expansions are not lost or doubled.        *)
StreamPreprocessed ==
  [][meaning.lineByLine /\ (peeked' => meaning.short)
       => Stream!Next \/ Stream!Peek]_<<delivered, answer>>

(* A directive that is wrong is reported once, at its line, and no other   *)
(* is, however deep it stands in text that does not count.                 *)
DirectivesReported ==
  meaning.lineByLine =>
    LET said == [k \in DOMAIN diagnostics |-> <<diagnostics[k].level, diagnostics[k].loc.line>>]
    IN IF AtEnd THEN said = meaning.faults ELSE IsPrefix(said, meaning.faults)

(* Every call is answered, at the end of a file whose conditionals were    *)
(* never closed too.                                                       *)
Responds == calling # "none" ~> calling = "none"

(* The same for every file without a fault, whatever follows a directive.  *)
EveryFilePreprocessed ==
  AtEnd /\ ~peeked /\ meaning.faults = << >> => delivered = meaning.tokens
=============================================================================
