--------------------------- MODULE SubmitRequest ---------------------------
(***************************************************************************)
(* What every native view of the demo promises the Checkout SDK about its  *)
(* handleSubmit callback, whatever threads and maps are in between:        *)
(*                                                                         *)
(*   - the app answers one request at most once, that is it POSTs the      *)
(*     session data of one request at most once;                           *)
(*   - the SDK gets at most one verdict for a request, and the verdict is  *)
(*     the one that the app's answer to THIS request calls for.            *)
(*                                                                         *)
(* CardBridge, IosBridge and GooglePayBridge implement this module.        *)
(***************************************************************************)
CONSTANTS
    Requests,   \* invocations of the SDK's handleSubmit callback
    None        \* no answer, no verdict

(***************************************************************************)
(* The answers App.handleSubmit can give: "paid" is a 2xx response whose   *)
(* JSON body has what the native callback reads (id and status, and a type *)
(* in its action), "malformed" a 2xx response whose body has not, "failed" *)
(* a refusal or an exception.                                              *)
(***************************************************************************)
Outcomes == {"paid", "malformed", "failed"}

(***************************************************************************)
(* The ApiCallResult the native callback makes of an outcome: a body it    *)
(* cannot parse is reported as a failure although the POST went through.   *)
(***************************************************************************)
VerdictOf(outcome) == IF outcome = "paid" THEN "Success" ELSE "Failure"

Verdicts == {"Success", "Failure"}

VARIABLES
    status,     \* status[r]: "idle", "asked" or "done"
    answer,     \* answer[r]: the outcome the app has for r, or None
    verdict     \* verdict[r]: what the SDK was told about r, or None

vars == <<status, answer, verdict>>

Init ==
    /\ status = [r \in Requests |-> "idle"]
    /\ answer = [r \in Requests |-> None]
    /\ verdict = [r \in Requests |-> None]

\* The SDK calls handleSubmit.
Ask(r) ==
    /\ status[r] = "idle"
    /\ status' = [status EXCEPT ![r] = "asked"]
    /\ UNCHANGED <<answer, verdict>>

\* The app has POSTed the session data of r and knows the outcome.
Answer(r, outcome) ==
    /\ status[r] = "asked"
    /\ answer[r] = None
    /\ answer' = [answer EXCEPT ![r] = outcome]
    /\ UNCHANGED <<status, verdict>>

\* handleSubmit returns to the SDK.
Settle(r) ==
    /\ status[r] = "asked"
    /\ answer[r] # None
    /\ status' = [status EXCEPT ![r] = "done"]
    /\ verdict' = [verdict EXCEPT ![r] = VerdictOf(answer[r])]
    /\ UNCHANGED answer

Next ==
    \E r \in Requests :
        \/ Ask(r)
        \/ \E outcome \in Outcomes : Answer(r, outcome)
        \/ Settle(r)

Spec == Init /\ [][Next]_vars
=============================================================================
