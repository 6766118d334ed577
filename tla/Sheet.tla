-------------------------------- MODULE Sheet --------------------------------
(***************************************************************************)
(* How App.tsx uses a native card form, which is what CardBridge and       *)
(* IosBridge assume of it: the sheet shows the form of one session or      *)
(* none; Pay asks for the session shown, and for nothing more until the    *)
(* promise of that call has settled, whatever is opened, closed or         *)
(* switched meanwhile.                                                     *)
(***************************************************************************)
CONSTANTS
    Sessions,   \* payment session ids
    Calls,      \* presses of the Pay button
    None        \* no session

VARIABLES
    shown,          \* the session whose form is in the sheet, or None
    call,           \* call[c]: "idle", "sent" or "settled"
    callSession     \* callSession[c]: the session it asked for

vars == <<shown, call, callSession>>

Init ==
    /\ shown = None
    /\ call = [c \in Calls |-> "idle"]
    /\ callSession = [c \in Calls |-> None]

\* Opens the sheet, or replaces the form in it.
Show(s) ==
    /\ shown # s
    /\ shown' = s
    /\ UNCHANGED <<call, callSession>>

Hide ==
    /\ shown # None
    /\ shown' = None
    /\ UNCHANGED <<call, callSession>>

Press(c) ==
    /\ shown # None
    /\ call[c] = "idle"
    /\ \A d \in Calls : call[d] # "sent"
    /\ call' = [call EXCEPT ![c] = "sent"]
    /\ callSession' = [callSession EXCEPT ![c] = shown]
    /\ UNCHANGED shown

\* The promise settles; the sheet is as it was.
Settle(c) ==
    /\ call[c] = "sent"
    /\ call' = [call EXCEPT ![c] = "settled"]
    /\ UNCHANGED <<shown, callSession>>

Next ==
    \/ \E s \in Sessions : Show(s)
    \/ Hide
    \/ \E c \in Calls : Press(c) \/ Settle(c)

Spec == Init /\ [][Next]_vars
=============================================================================
