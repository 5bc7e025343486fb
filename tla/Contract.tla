------------------------------ MODULE Contract -------------------------------
(***************************************************************************)
(* What a compiled program promises: started, it stops exactly when the    *)
(* main function of its source does, and stops with the result that main   *)
(* returns.  Nothing about registers, stack or code.                       *)
(***************************************************************************)
EXTENDS IRSemantics

CONSTANT ProgramValues   \* ids of the values of the program's instructions

VARIABLES main, outcome

Running == << >>

Start == outcome = Running

Stop ==
  /\ outcome = Running
  /\ outcome' \in {<<r>> : r \in Promised(main, ProgramValues)}
  /\ UNCHANGED main

Promise == Start /\ [][Stop]_<<main, outcome>> /\ WF_<<main, outcome>>(Stop)
=============================================================================
