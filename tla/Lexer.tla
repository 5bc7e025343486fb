-------------------------------- MODULE Lexer --------------------------------
(***************************************************************************)
(* Lexer: turns the characters of a file into tokens on demand, with one   *)
(* token of lookahead.  Characters are strings of length one; the texts of *)
(* tokens are sequences of them.  Any character outside of the sets below  *)
(* (NUL and, in the "C" locale, all bytes from 0x80 on) has no meaning.    *)
(***************************************************************************)
EXTENDS DiagnosticEngine, SequencesExt

CONSTANTS
  Sources,   \* the files
  Letters,   \* isalpha, and '_'
  Digits,    \* isdigit
  Spaces,    \* isspace
  Keywords   \* the texts of the table of keywords

ASSUME SourcesAssumption == \A s \in Sources : s \in Seq(STRING)

VARIABLES
  source,
  at,            \* [offset, line, column] of the next character
  currentToken, hasPeeked,
  diagnostics,   \* what diags.error was told
  answer,        \* the call last made and the token it returned
  delivered,     \* the tokens that next() has returned, up to the end
  tokens         \* those that a lexer without lookahead makes of the source

lexVars == <<source, at, currentToken, hasPeeked, diagnostics, answer, delivered, tokens>>

Token(kind, text, loc) == [kind |-> kind, text |-> text, loc |-> loc]
NoToken == Token("Unknown", << >>, Location(1, 1, 0))

isAtEnd(p) == p >= Len(source)
charAt(p) == source[p + 1]
Holds(p, chars) == ~isAtEnd(p) /\ charAt(p) \in chars

-----------------------------------------------------------------------------
(* Moving over the source: nextChar() and match(), as often as it takes to *)
(* get from location a to offset p.                                        *)
AdvanceInLine(a, p) ==
  Location(a.line + Cardinality({k \in (a.offset + 1)..p : source[k] = "\n"}),
           a.column + p - a.offset, p)
AdvanceTo(a, p) ==
  LET newlines == {k \in (a.offset + 1)..p : source[k] = "\n"}
  IN IF newlines = {} THEN Location(a.line, a.column + p - a.offset, p)
     ELSE Location(a.line + Cardinality(newlines), p - Max(newlines) + 1, p)

(* The end of the run of characters that satisfy the condition.            *)
RunEnd(p, In(_)) ==
  CHOOSE q \in p..Len(source) :
    /\ isAtEnd(q) \/ ~In(charAt(q))
    /\ \A r \in p..(q - 1) : In(charAt(r))

Begins(p, c, d) == p + 1 < Len(source) /\ charAt(p) = c /\ charAt(p + 1) = d

(* Behind the next star and slash from p on, or the end of the file.       *)
CommentEnd(p) ==
  LET closes == {q \in p..Len(source) : Begins(q, "*", "/")}
  IN IF closes = {} THEN Len(source) ELSE 2 + Min(closes)

skipWhitespaceAndComments[p \in 0..Len(source)] ==
  CASE Holds(p, Spaces) -> skipWhitespaceAndComments[p + 1]
    [] Begins(p, "/", "/") ->
         skipWhitespaceAndComments[RunEnd(p, LAMBDA c : c # "\n")]
    [] Begins(p, "/", "*") -> skipWhitespaceAndComments[CommentEnd(p + 2)]
    [] OTHER -> p

-----------------------------------------------------------------------------
(* Scanning at offset p: the kind, place and text of the token, and the    *)
(* offset behind it.                                                       *)
Lexeme(kind, place, text, past) ==
  [kind |-> kind, place |-> place, text |-> text, past |-> past]

Spelled(p, q) == SubSeq(source, p + 1, q)

(* The error is placed where the lexer stands by then.                     *)
errorToken(p) == Lexeme("Unknown", p, << >>, p)

identifierOrKeyword(p) ==
  LET q == RunEnd(p, LAMBDA c : c \in Letters \cup Digits)
  IN Lexeme(IF Spelled(p, q) \in Keywords THEN "Keyword" ELSE "Identifier",
            p, Spelled(p, q), q)

number(p) ==
  LET IsDigit(c) == c \in Digits
      q == RunEnd(p, IsDigit)
      r == IF Holds(q, {"."}) /\ Holds(q + 1, Digits) THEN RunEnd(q + 1, IsDigit) ELSE q
  IN Lexeme(IF r = q THEN "IntegerLiteral" ELSE "FloatLiteral", p, Spelled(p, r), r)

(* A backslash takes the next character with it, a newline too.            *)
LiteralEnd(p, quote) ==
  LET end[q \in p..Len(source)] ==
        CASE isAtEnd(q) \/ Holds(q, {quote, "\n"}) -> q
          [] Holds(q, {"\\"}) /\ ~isAtEnd(q + 1) -> end[q + 2]
          [] OTHER -> end[q + 1]
  IN end[p]

(* stringLiteral and charLiteral, at the offset behind the quote, which    *)
(* advanceToken has taken: their first nextChar() takes one more.          *)
literal(p, quote, kind) ==
  LET begin == IF isAtEnd(p) THEN p ELSE p + 1
      q == LiteralEnd(begin, quote)
  IN IF isAtEnd(q) \/ Holds(q, {"\n"}) THEN errorToken(q)
     ELSE Lexeme(kind, p, Spelled(begin, q), q + 1)

(* What match() may add to the first character of an operator.             *)
SecondWithoutShift(c) ==
  CASE c = "+" -> {"+", "="}
    [] c = "-" -> {"-", "=", ">"}
    [] c \in {"*", "/", "=", "!", "<", ">"} -> {"="}
    [] c \in {"&", "|", ":"} -> {c}
    [] OTHER -> {}
Second(c) ==
  CASE c = "+" -> {"+", "="}
    [] c = "-" -> {"-", "=", ">"}
    [] c \in {"*", "/", "=", "!"} -> {"="}
    [] c \in {"<", ">"} -> {"=", c}
    [] c \in {"&", "|", ":"} -> {c}
    [] OTHER -> {}

punctuator(p) ==
  LET q == IF Holds(p + 1, Second(charAt(p))) THEN p + 2 ELSE p + 1
  IN Lexeme("Punctuator", p, Spelled(p, q), q)

Punctuators == {"+", "-", "*", "/", "%", "=", "!", "<", ">", "&", "|", "^", "~", ":",
                "?", ";", ",", "#", ".", "(", ")", "{", "}", "[", "]"}

(* isalpha, isdigit, isspace and the cases of the switch exclude each      *)
(* other: the order in which advanceToken asks does not matter.            *)
ASSUME ClassesAssumption ==
  /\ Letters \cap Digits = {} /\ Spaces \cap (Letters \cup Digits) = {}
  /\ (Letters \cup Digits \cup Spaces) \cap (Punctuators \cup {"\"", "'"}) = {}

advanceToken(offset) ==
  LET p == skipWhitespaceAndComments[offset]
  IN CASE isAtEnd(p) -> Lexeme("EndOfFile", p, << >>, p)
       [] Holds(p, Letters) -> identifierOrKeyword(p)
       [] Holds(p, Digits) -> number(p)
       [] Holds(p, Punctuators) -> punctuator(p)
       [] Holds(p, {"\""}) -> literal(p + 1, "\"", "StringLiteral")
       [] Holds(p, {"'"}) -> literal(p + 1, "'", "CharLiteral")
       [] OTHER -> errorToken(p + 1)

-----------------------------------------------------------------------------
Plain(t) == <<t.kind, t.text, t.loc.offset>>

TokensFrom[p \in 0..Len(source)] ==
  LET x == advanceToken(p)
  IN <<Plain(Token(x.kind, x.text, Location(1, 1, x.place)))>>
       \o (IF x.kind = "EndOfFile" THEN << >> ELSE TokensFrom[x.past])

Init ==
  /\ source \in Sources
  /\ at = Location(1, 1, 0)
  /\ currentToken = NoToken /\ hasPeeked = FALSE
  /\ diagnostics = << >>
  /\ answer = << >> /\ delivered = << >>
  /\ tokens = TokensFrom[0]

AtEnd == delivered # << >> /\ Last(delivered).kind = "EndOfFile"

Answer(call, token) ==
  /\ answer' = <<call, token>>
  /\ delivered' = IF call = "next" /\ ~AtEnd THEN Append(delivered, token)
                  ELSE delivered
  /\ UNCHANGED <<source, tokens>>

(* What advanceToken does, and what it returns.                            *)
Scan(call) ==
  LET x == advanceToken(at.offset)
      loc == AdvanceTo(at, x.place)
  IN /\ at' = AdvanceTo(at, x.past)
     /\ diagnostics' = IF x.kind # "Unknown" THEN diagnostics
                       ELSE report(diagnostics, "error", loc)
     /\ Answer(call, Token(x.kind, x.text, loc))

(* Mutant: a token that was shown is left behind.                          *)
NextAnew ==
  /\ Scan("next")
  /\ hasPeeked' = FALSE
  /\ UNCHANGED currentToken

next ==
  \/ /\ hasPeeked
     /\ hasPeeked' = FALSE
     /\ Answer("next", currentToken)
     /\ UNCHANGED <<at, currentToken, diagnostics>>
  \/ /\ ~hasPeeked
     /\ Scan("next")
     /\ UNCHANGED <<currentToken, hasPeeked>>

(* Mutant: the token shown is not remembered as taken.                     *)
PeekAgain ==
  /\ Scan("peek")
  /\ currentToken' = answer'[2]
  /\ hasPeeked' = TRUE

peek ==
  \/ /\ hasPeeked
     /\ Answer("peek", currentToken)
     /\ UNCHANGED <<at, currentToken, hasPeeked, diagnostics>>
  \/ /\ ~hasPeeked
     /\ Scan("peek")
     /\ currentToken' = answer'[2]
     /\ hasPeeked' = TRUE

Next == next \/ peek

Spec == Init /\ [][Next]_lexVars

-----------------------------------------------------------------------------
(* Properties.                                                             *)

Stream == INSTANCE TokenStream WITH
            taken <- Len(delivered),
            answer <- IF answer = << >> THEN << >> ELSE <<answer[1], Plain(answer[2])>>

(* Lookahead is invisible: whatever the order of peek() and next(), the    *)
(* tokens come once each and in order, and peek() tells the truth.         *)
StreamKept == Stream!Promise

(* The lexemes that the kinds of include/lexer/Token.h name, and what may  *)
(* stand between two of them.                                              *)
Operators ==
  {<<p>> : p \in Punctuators}
  \cup {<<"+", "+">>, <<"-", "-">>, <<"+", "=">>, <<"-", "=">>, <<"*", "=">>, <<"/", "=">>,
        <<"=", "=">>, <<"!", "=">>, <<"<", "=">>, <<">", "=">>, <<"<", "<">>, <<">", ">">>,
        <<"&", "&">>, <<"|", "|">>, <<"-", ">">>, <<":", ":">>}

IsLexeme(s) ==
  \/ s \in Operators
  \/ s[1] \in Letters /\ \A k \in DOMAIN s : s[k] \in Letters \cup Digits
  \/ /\ s[1] \in Digits /\ Last(s) \in Digits
     /\ \A k \in DOMAIN s : s[k] \in Digits \cup {"."}
     /\ Cardinality({k \in DOMAIN s : s[k] = "."}) <= 1

IsComment(s) ==
  \/ Len(s) >= 2 /\ SubSeq(s, 1, 2) = <<"/", "/">> /\ \A k \in DOMAIN s : s[k] # "\n"
  \/ /\ Len(s) >= 4 /\ SubSeq(s, 1, 2) = <<"/", "*">>
     /\ {k \in 3..(Len(s) - 1) : s[k] = "*" /\ s[k + 1] = "/"} = {Len(s) - 1}

Longest(p, Is(_)) ==
  LET ends == {q \in (p + 1)..Len(source) : Is(SubSeq(source, p + 1, q))}
  IN IF ends = {} THEN p ELSE CHOOSE q \in ends : \A r \in ends : r <= q

Blank[p \in 0..Len(source)] ==
  IF Holds(p, Spaces) THEN Blank[p + 1]
  ELSE IF Longest(p, IsComment) = p THEN p ELSE Blank[Longest(p, IsComment)]

Quotes == {"\"", "'"}

(* Files with quotes are left out, because the first character of a        *)
(* literal is lost, and so are comments that never end, which are skipped  *)
(* without an error.                                                       *)
Unquoted == Quotes \cap ToSet(source) = {}
CommentsEnd ==
  ~\E p \in 0..Len(source) : Blank[p] = p /\ Begins(p, "/", "*")

(* Every token is the longest lexeme at its place, blanks and comments     *)
(* aside nothing is dropped between two of them or at the end, and what    *)
(* belongs to no lexeme is an Unknown token of one character (located one  *)
(* behind it).                                                             *)
MaximalMunch ==
  delivered # << >> /\ Unquoted /\ CommentsEnd =>
      LET k == Len(delivered)
          t == delivered[k]
          begin == IF k = 1 THEN 0
                   ELSE delivered[k - 1].loc.offset + Len(delivered[k - 1].text)
          p == Blank[begin]
          q == Longest(p, IsLexeme)
      IN CASE isAtEnd(p) -> t.kind = "EndOfFile"
           [] ~isAtEnd(p) /\ q = p -> t.kind = "Unknown" /\ t.loc.offset = p + 1
           [] OTHER -> /\ t.kind \notin {"EndOfFile", "Unknown"}
                       /\ t.loc.offset = p /\ t.text = SubSeq(source, p + 1, q)

Reported == {diagnostics[k].loc : k \in DOMAIN diagnostics}
TokenPlaces == {delivered[k].loc : k \in DOMAIN delivered}

(* Line and column of a location lead back to the character at which it    *)
(* was taken.                                                              *)
CaretBelow(loc) ==
  LET start == lineStart(source, loc.line)
  IN caret(source, loc) = loc.offset /\ loc.offset <= lineEnd(source, start)

(* A line without characters at the end of the file cannot be printed.     *)
Printed(loc) == loc.offset < Len(source) \/ (source # << >> /\ Last(source) # "\n")

Meaningless(c) == c \notin Letters \cup Digits \cup Spaces \cup Punctuators \cup Quotes

(* Where a literal breaks off: the line ends, and a quote was opened.      *)
BreaksOff(p) ==
  /\ isAtEnd(p) \/ charAt(p) = "\n"
  /\ \E q \in 0..(p - 1) : charAt(q) \in Quotes

(* What is under the caret p of a token: the first character of its text,  *)
(* and for a literal the one behind the quote that advanceToken took; for  *)
(* what is no token the one behind the unexpected character, which is      *)
(* taken by then too, or the place where the literal breaks off.           *)
StandsAt(p, kind, text) ==
  /\ kind = "EndOfFile" => p = Len(source)
  /\ kind = "StringLiteral" => p > 0 /\ charAt(p - 1) = "\""
  /\ kind = "CharLiteral" => p > 0 /\ charAt(p - 1) = "'"
  /\ kind = "Unknown" => (p > 0 /\ Meaningless(charAt(p - 1))) \/ BreaksOff(p)
  /\ kind \in {"Keyword", "Identifier", "IntegerLiteral", "FloatLiteral", "Punctuator"} =>
       text # << >> /\ text = Spelled(p, p + Len(text))

(* Line and column, counted while the lexer moves and read again when a    *)
(* line is printed, bring the caret of every report and of every token on  *)
(* which a pass may report to where StandsAt puts it.                      *)
CaretsPoint ==
  /\ \A loc \in Reported :
       Printed(loc) => CaretBelow(loc) /\ StandsAt(caret(source, loc), "Unknown", << >>)
  /\ \A k \in DOMAIN delivered :
       LET t == delivered[k]
       IN Printed(t.loc) => CaretBelow(t.loc) /\ StandsAt(caret(source, t.loc), t.kind, t.text)

(* README.md:14: diagnostics come with source code context.                *)
CaretsAlwaysPoint ==
  \A loc \in Reported \cup TokenPlaces : source # << >> => CaretBelow(loc)

(* README.md:14, "source code context (color-coded carets ^)": the caret   *)
(* of an unexpected character is below that character.                     *)
CaretsUnderFaults ==
  Unquoted =>
    \A loc \in Reported :
      caret(source, loc) < Len(source) /\ Meaningless(charAt(caret(source, loc)))

(* Whatever belongs to no lexeme is reported, and reported once, however often *)
(* it is peeked at.                                                        *)
ReportedOnce ==
  Len(diagnostics) =
    Cardinality({k \in DOMAIN delivered : delivered[k].kind = "Unknown"})
      + (IF hasPeeked /\ currentToken.kind = "Unknown" THEN 1 ELSE 0)

(* "consume opening quote" (Lexer.cpp:149): the text of a literal is what  *)
(* stands between its quotes.                                              *)
LiteralsWhole ==
  \A k \in DOMAIN delivered :
    LET t == delivered[k]
    IN t.kind \in {"StringLiteral", "CharLiteral"}
       => \E p \in 0..(Len(source) - 1) :
            /\ charAt(p) = IF t.kind = "StringLiteral" THEN "\"" ELSE "'"
            /\ t.loc.offset = p + 1
            /\ t.text = Spelled(p + 1, p + 1 + Len(t.text))
            /\ charAt(p + 1 + Len(t.text)) = charAt(p)
=============================================================================
