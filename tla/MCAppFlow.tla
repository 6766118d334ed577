------------------------------ MODULE MCAppFlow ------------------------------
(***************************************************************************)
(* Small instances of AppFlow for TLC.  Starts are numbers, in their order.*)
(***************************************************************************)
EXTENDS AppFlow, TLC

\* Pay presses and payments are interchangeable; used by the runs that check
\* no liveness.
Symmetry == Permutations(Calls) \cup Permutations(Payments)
=============================================================================
