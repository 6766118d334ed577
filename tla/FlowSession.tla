----------------------------- MODULE FlowSession -----------------------------
(***************************************************************************)
(* What App.tsx counts on when it treats the Flow modules of both          *)
(* platforms alike: one flow at most takes payments, the newest on the     *)
(* screen, an answer is that of the payment it took, and it is opened      *)
(* only when the one before is over.                                       *)
(*                                                                         *)
(* If prompt, a flow leaves the screen before anything else happens there, *)
(* so it stays until its own payment has gone through.  Otherwise the next *)
(* flow may be opened over one that is paid and still to leave, and be     *)
(* taken away in its place.                                                *)
(***************************************************************************)
CONSTANTS
    Flows,      \* the sessions a flow is started for
    None        \* no flow

VARIABLES
    shown,      \* the flow on the screen, or None
    pay,        \* pay[s]: "none", "asked" or "paid"
    prompt      \* a flow that is over leaves at once; never changes

vars == <<shown, pay, prompt>>

Init ==
    /\ shown = None
    /\ pay = [s \in Flows |-> "none"]
    /\ prompt \in BOOLEAN

Open(s) ==
    /\ shown = None \/ (~prompt /\ pay[shown] = "paid")
    /\ pay[s] = "none"
    /\ shown' = s
    /\ UNCHANGED <<pay, prompt>>

Ask ==
    /\ shown # None
    /\ pay[shown] = "none"
    /\ pay' = [pay EXCEPT ![shown] = "asked"]
    /\ UNCHANGED <<shown, prompt>>

\* A payment that failed may be tried again.
Answer(ok) ==
    /\ shown # None
    /\ pay[shown] = "asked"
    /\ pay' = [pay EXCEPT ![shown] = IF ok THEN "paid" ELSE "none"]
    /\ UNCHANGED <<shown, prompt>>

Close ==
    /\ shown # None
    /\ IF prompt THEN pay[shown] = "paid" ELSE \E s \in Flows : pay[s] = "paid"
    /\ shown' = None
    /\ UNCHANGED <<pay, prompt>>

Next ==
    \/ \E s \in Flows : Open(s)
    \/ Ask
    \/ \E ok \in BOOLEAN : Answer(ok)
    \/ Close

Spec == Init /\ [][Next]_vars
=============================================================================
