------------------------------ MODULE SideBySide ------------------------------
(* Programs that share nothing: program says which one runs, the variables  *)
(* of the others keep the values they start with.                           *)
CONSTANT Nothing    \* NULL of all of them
VARIABLE program

In(p, Step, others) == program = p /\ Step /\ UNCHANGED <<program, others>>
=============================================================================
