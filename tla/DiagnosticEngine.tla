-------------------------- MODULE DiagnosticEngine ---------------------------
(***************************************************************************)
(* include/diagnostics/DiagnosticEngine.h: what is reported is kept, and   *)
(* printed at once with the line of the source that it is about and a      *)
(* caret below the column.  A source is a sequence of characters; offsets  *)
(* count from 0, lines and columns from 1.                                 *)
(***************************************************************************)
EXTENDS Integers, Sequences, FiniteSets

Location(line, column, offset) ==
  [line |-> line, column |-> column, offset |-> offset]

Diagnostic(level, loc) == [level |-> level, loc |-> loc]

report(diagnostics, level, loc) == Append(diagnostics, Diagnostic(level, loc))

hasErrors(diagnostics) ==
  \E i \in DOMAIN diagnostics : diagnostics[i].level \in {"error", "fatal"}

NewlinesBefore(source, i) == {j \in 1..i : source[j] = "\n"}

(* printSourceLine counts lines from the top while there are characters; a *)
(* line without any at the end of the source is not found.                 *)
lineStart(source, line) ==
  LET Found(i) == 1 + Cardinality(NewlinesBefore(source, i)) = line
      offsets == {i \in 0..(Len(source) - 1) : Found(i)}
  IN IF offsets = {} THEN 0
     ELSE CHOOSE i \in offsets : \A j \in offsets : i <= j

lineEnd(source, start) ==
  LET newlines == {i \in start..(Len(source) - 1) : source[i + 1] = "\n"}
  IN IF newlines = {} THEN Len(source)
     ELSE CHOOSE i \in newlines : \A j \in newlines : i <= j

(* The offset of the character above the caret.                            *)
caret(source, loc) == lineStart(source, loc.line) + loc.column - 1
=============================================================================
