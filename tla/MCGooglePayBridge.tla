------------------------- MODULE MCGooglePayBridge -------------------------
(***************************************************************************)
(* Small instances of GooglePayBridge for TLC.                             *)
(***************************************************************************)
EXTENDS GooglePayBridge, TLC

\* Views, requests and sessions are interchangeable; used by the runs that
\* check no liveness.
Symmetry == Permutations(Views) \cup Permutations(Requests) \cup Permutations(Sessions)
=============================================================================
