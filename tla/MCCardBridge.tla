---------------------------- MODULE MCCardBridge ----------------------------
(***************************************************************************)
(* Small instances of CardBridge for TLC.                                  *)
(***************************************************************************)
EXTENDS CardBridge, TLC

\* Views, requests and Pay presses are interchangeable, and so are sessions;
\* used by the runs that check no liveness.
Symmetry == Permutations(Views) \cup Permutations(Requests)
              \cup Permutations(Calls) \cup Permutations(Sessions)

\* A bound on the racing half of a safety run: all its forms are for one
\* session.  What races is the entries of the requests, not the sessions'.
OneSessionWhenRacing ==
    mapsRace => \A v, w \in Views :
        jsSession[v] # None /\ jsSession[w] # None => jsSession[v] = jsSession[w]

\* The liveness run: the maps lose nothing.
AtomicInit == Init /\ ~mapsRace
FairAtomicSpec == AtomicInit /\ [][Next]_vars /\ Fairness
=============================================================================
