---------------------------- MODULE MCIosBridge ----------------------------
(***************************************************************************)
(* Small instances of IosBridge for TLC.                                   *)
(***************************************************************************)
EXTENDS IosBridge, TLC

\* Views, requests, Pay presses and sessions are interchangeable; used by
\* the runs that check no liveness.
Symmetry == Permutations(Views) \cup Permutations(Requests)
              \cup Permutations(Calls) \cup Permutations(Sessions)

\* A bound on the state space: there is a card form, and an Apple Pay button
\* is one of the same session.
ButtonBesideItsCard ==
    /\ \E v \in Views : method[v] = "card"
    /\ \A v \in Views : method[v] = "applepay" =>
          \A w \in Views : jsSession[w] # None /\ jsSession[v] # None
                                => jsSession[w] = jsSession[v]
=============================================================================
