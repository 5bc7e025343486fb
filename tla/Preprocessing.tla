---------------------------- MODULE Preprocessing ----------------------------
(***************************************************************************)
(* What preprocessing means, by lines: a line is text up to its first '#'  *)
(* and a directive from there on; text counts if all the conditionals that *)
(* it is inside of hold, and a macro stands for its replacement, which is  *)
(* not looked at again ("simple object-like macro expansion").  A file is  *)
(* a sequence of tokens [kind, text, line], the end of file last.          *)
(***************************************************************************)
EXTENDS Integers, Sequences, SequencesExt

Lines(file) ==
  [l \in 1..Last(file).line |->
     SelectSeq(file, LAMBDA t : t.line = l /\ t.kind # "EndOfFile")]

HashIn(line) ==
  IF \E i \in DOMAIN line : line[i].kind = "Hash"
  THEN SelectInSeq(line, LAMBDA t : t.kind = "Hash")
  ELSE Len(line) + 1
TextOf(line) == SubSeq(line, 1, HashIn(line) - 1)
DirectiveOf(line) == SubSeq(line, HashIn(line), Len(line))

(* The name of a directive, and the macro that it is about.                *)
IdentifierAt(d, i) == IF Len(d) >= i /\ d[i].kind = "Identifier" THEN d[i].text ELSE "none"
NameOf(d) == IdentifierAt(d, 2)
MacroOf(d) == IdentifierAt(d, 3)
ReplacementOf(d) == SubSeq(d, 4, Len(d))

Is(d, names) == NameOf(d) \in names /\ MacroOf(d) # "none"
Opens(d) == Is(d, {"ifdef", "ifndef"})
Closes(d) == NameOf(d) = "endif"

(* The lines of directives ds whose conditional is open at line l.         *)
Around(ds, l) ==
  LET Count(i, j, Test(_)) == Cardinality({k \in i..j : Test(ds[k])})
  IN {i \in 1..(l - 1) :
        Opens(ds[i]) /\ \A j \in i..(l - 1) : Count(i, j, Opens) > Count(i, j, Closes)}

(* The macros that are defined at line l, and whether its text counts.     *)
MacrosAt(ds) ==
  LET at[l \in 1..Len(ds)] ==
        IF l = 1 THEN << >>
        ELSE LET d == ds[l - 1]
                 before == at[l - 1]
                 active == \A i \in Around(ds, l - 1) :
                             (MacroOf(ds[i]) \in DOMAIN at[i]) = (NameOf(ds[i]) = "ifdef")
             IN CASE active /\ Is(d, {"define"}) -> (MacroOf(d) :> ReplacementOf(d)) @@ before
                  [] active /\ Is(d, {"undef"}) ->
                       Restrict(before, DOMAIN before \ {MacroOf(d)})
                  [] OTHER -> before
  IN at
Active(ds, macros, l) ==
  \A i \in Around(ds, l) : (MacroOf(ds[i]) \in DOMAIN macros[i]) = (NameOf(ds[i]) = "ifdef")

(* What is to be said about a directive: that it is none, or has no macro  *)
(* or no conditional, or, if it counts, that it is unknown.                *)
Fault(ds, active, l) ==
  LET d == ds[l]
      name == NameOf(d)
      conditional == name \in {"ifdef", "ifndef"}
  IN CASE \/ name = "none"
          \/ conditional /\ MacroOf(d) = "none"
          \/ name = "endif" /\ Around(ds, l) = {}
          \/ active /\ name \in {"define", "undef"} /\ MacroOf(d) = "none"
            -> <<<<"error", l>>>>
       [] active /\ name \notin {"ifdef", "ifndef", "endif", "define", "undef"}
            -> <<<<"warning", l>>>>
       [] OTHER -> << >>

(* The tokens that come out, the end of file last, and the diagnostics.    *)
Preprocess(file) ==
  LET lines == Lines(file)
      ds == [l \in DOMAIN lines |-> DirectiveOf(lines[l])]
      macros == [l \in DOMAIN lines |-> MacrosAt(ds)[l]]
      Expand(l, t) == IF t.kind = "Identifier" /\ t.text \in DOMAIN macros[l]
                      THEN macros[l][t.text] ELSE <<t>>
      text == [l \in DOMAIN lines |->
                 IF ~Active(ds, macros, l) THEN << >>
                 ELSE LET s == TextOf(lines[l])
                      IN FlattenSeq([k \in DOMAIN s |-> Expand(l, s[k])])]
      faults == [l \in DOMAIN lines |->
                   IF ds[l] = << >> THEN << >> ELSE Fault(ds, Active(ds, macros, l), l)]
  IN [tokens |-> Append(FlattenSeq(text), Last(file)), faults |-> FlattenSeq(faults)]
=============================================================================
