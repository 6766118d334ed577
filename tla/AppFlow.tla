------------------------------- MODULE AppFlow -------------------------------
(***************************************************************************)
(* The checkout screen, App.tsx: one React component whose state is        *)
(* written by two buttons, the sheet, two fetches, the promise of the      *)
(* native submit, the native form's callbacks and the SDK's events.        *)
(*                                                                         *)
(* All of it runs on the JS thread.  An action is a handler, or the part   *)
(* of an async one between two awaits; React applies its setStates in one  *)
(* commit.  Every start asks the API for a session, and session s is the   *)
(* one that start s is given.                                              *)
(***************************************************************************)
EXTENDS Naturals

CONSTANTS
    Starts,         \* presses of "Start Card Payment", in their order
    Calls,          \* presses of Pay
    Payments,       \* invocations of handleSubmit by a card form
    None            \* no session

ASSUME StartsAssumption == Starts \subseteq Nat /\ None \notin Starts

\* What a submission of a payment comes to.
Outcomes == {"paid", "3ds", "failed"}

Statuses == {"Ready", "Processing...", "Payment flow started", "3DS", "Success",
             "Submitting from JS button...", "Submitting payment...", "Declined", "Error"}

VARIABLES
    status,             \* useState('Ready')
    error,              \* an error message is shown
    showingFlow,        \* the sheet is to be open: the Modal's visible
    presented,          \* the sheet is on the screen
    isSubmittingFromJs,
    paymentSession,     \* the session the form is for, None before the first
    start,              \* start[s]: where the request for session s is
    call,               \* call[c]: life of the promise submit returned
    callSession,        \* callSession[c]: the session id it was called with
    payment,            \* payment[p]: life of the handleSubmit invocation
    disturbed,          \* history: the starts during whose request a form, or
                        \* another start's answer, wrote the status
    ios                 \* native code takes the sheet off the screen; never changes

screen == <<status, error, showingFlow, isSubmittingFromJs, paymentSession>>
vars == <<screen, presented, start, call, callSession, payment, disturbed, ios>>

TypeOK ==
    /\ status \in Statuses
    /\ error \in BOOLEAN
    /\ showingFlow \in BOOLEAN
    /\ presented \in BOOLEAN
    /\ isSubmittingFromJs \in BOOLEAN
    /\ paymentSession \in Starts \cup {None}
    /\ start \in [Starts -> {"idle", "fetching", "answered", "failed"}]
    /\ call \in [Calls -> {"idle", "sent", "settled"}]
    /\ callSession \in [Calls -> Starts \cup {None}]
    /\ payment \in [Payments -> {"none", "posting", "done"}]
    /\ disturbed \subseteq Starts
    /\ ios \in BOOLEAN

Init ==
    /\ status = "Ready"
    /\ error = FALSE
    /\ showingFlow = FALSE
    /\ presented = FALSE
    /\ isSubmittingFromJs = FALSE
    /\ paymentSession = None
    /\ start = [s \in Starts |-> "idle"]
    /\ call = [c \in Calls |-> "idle"]
    /\ callSession = [c \in Calls |-> None]
    /\ payment = [p \in Payments |-> "none"]
    /\ disturbed = {}
    /\ ios \in BOOLEAN
-----------------------------------------------------------------------------
Fetching == {s \in Starts : start[s] = "fetching"}
-----------------------------------------------------------------------------
(***************************************************************************)
(* startPayment.  The button is behind the sheet while that is on screen.  *)
(***************************************************************************)
StartAlways == TRUE     \* mutant: the button is never disabled
StartEnabled == status # "Processing..."

PressStart(s) ==
    /\ ~presented
    /\ StartEnabled
    /\ start[s] = "idle"
    /\ \A t \in Starts : t < s => start[t] # "idle"
    /\ start' = [start EXCEPT ![s] = "fetching"]
    /\ status' = "Processing..."
    /\ error' = FALSE
    /\ UNCHANGED <<showingFlow, isSubmittingFromJs, paymentSession, call, callSession, payment>>

StatusKept(ok) == IF ok THEN "Payment flow started" ELSE status     \* mutant
StatusAfterStart(ok) == IF ok THEN "Payment flow started" ELSE "Error"

ShownAnyway(ok) == TRUE     \* mutant: as after the other errors
ShowingAfterStart(ok) == ok

SessionArrives(s) ==
    /\ start[s] = "fetching"
    /\ start' = [start EXCEPT ![s] = "answered"]
    /\ paymentSession' = s
    /\ status' = StatusAfterStart(TRUE)
    /\ showingFlow' = ShowingAfterStart(TRUE)
    /\ UNCHANGED <<error, isSubmittingFromJs, call, callSession, payment>>

StartFails(s) ==
    /\ start[s] = "fetching"
    /\ start' = [start EXCEPT ![s] = "failed"]
    /\ error' = TRUE
    /\ status' = StatusAfterStart(FALSE)
    /\ showingFlow' = ShowingAfterStart(FALSE)
    /\ UNCHANGED <<isSubmittingFromJs, paymentSession, call, callSession, payment>>

\* The Close button, the backdrop or Android's back button.
Close ==
    /\ presented
    /\ showingFlow' = FALSE
    /\ UNCHANGED <<status, error, isSubmittingFromJs, paymentSession, start, call, callSession,
                   payment>>
-----------------------------------------------------------------------------
(***************************************************************************)
(* submitCardFromJs, up to its await and after it.                         *)
(***************************************************************************)
isSessionReady == paymentSession # None

PayWhenReady == isSessionReady  \* mutant: isSubmittingFromJs is not looked at
PayEnabled == isSessionReady /\ ~isSubmittingFromJs

PressPay(c) ==
    /\ presented
    /\ PayEnabled
    /\ call[c] = "idle"
    /\ call' = [call EXCEPT ![c] = "sent"]
    /\ callSession' = [callSession EXCEPT ![c] = paymentSession]
    /\ isSubmittingFromJs' = TRUE
    /\ status' = "Submitting from JS button..."
    /\ UNCHANGED <<error, showingFlow, paymentSession, start, payment>>

OnlyOnSuccess(ok) == ~ok    \* mutant: not in the finally block
SubmittingAfter(ok) == FALSE

PaySettles(c, ok) ==
    /\ call[c] = "sent"
    /\ call' = [call EXCEPT ![c] = "settled"]
    /\ isSubmittingFromJs' = SubmittingAfter(ok)
    /\ error' = ~ok
    /\ status' = IF ok THEN status ELSE "Error"
    /\ UNCHANGED <<showingFlow, paymentSession, start, callSession, payment>>
-----------------------------------------------------------------------------
(***************************************************************************)
(* What a native form does: it asks handleTokenized about the card (iOS    *)
(* only), then handleSubmit, and reports the end, or an error of its own.  *)
(* It may have left the screen long before.                                *)
(***************************************************************************)
PaidFor == \E c \in Calls : call[c] # "idle"

\* A mada card; any other is accepted and changes nothing.
HandleTokenized ==
    /\ PaidFor
    /\ status' = "Declined"
    /\ error' = TRUE
    /\ UNCHANGED <<showingFlow, isSubmittingFromJs, paymentSession, start, call, callSession,
                   payment>>

HandleSubmit(p) ==
    /\ PaidFor
    /\ payment[p] = "none"
    /\ payment' = [payment EXCEPT ![p] = "posting"]
    /\ status' = "Submitting payment..."
    /\ UNCHANGED <<error, showingFlow, isSubmittingFromJs, paymentSession, start, call,
                   callSession>>

StatusAfterSubmit(outcome) ==
    CASE outcome = "paid" -> "Success"
      [] outcome = "3ds" -> "3DS"
      [] outcome = "failed" -> "Error"

ErrorKept(outcome) == error \/ outcome = "failed"   \* mutant: no setError(null)
ErrorAfterSubmit(outcome) == outcome = "failed"

LeftToNative(outcome) == showingFlow \/ outcome # "paid"    \* mutant: native code dismisses
ShowingAfterSubmit(outcome) == outcome # "paid"

SubmitAnswered(p, outcome) ==
    /\ payment[p] = "posting"
    /\ payment' = [payment EXCEPT ![p] = "done"]
    /\ status' = StatusAfterSubmit(outcome)
    /\ error' = ErrorAfterSubmit(outcome)
    /\ showingFlow' = ShowingAfterSubmit(outcome)
    /\ UNCHANGED <<isSubmittingFromJs, paymentSession, start, call, callSession>>

\* onFlowPaymentSuccess, and onFlowPaymentError, which a form also emits
\* when it cannot be created or submitted.
FlowPaymentSuccess ==
    /\ PaidFor
    /\ status' = "Success"
    /\ error' = FALSE
    /\ showingFlow' = FALSE
    /\ UNCHANGED <<isSubmittingFromJs, paymentSession, start, call, callSession, payment>>

FlowPaymentError ==
    /\ isSessionReady
    /\ status' = "Error"
    /\ error' = TRUE
    /\ showingFlow' = TRUE
    /\ UNCHANGED <<isSubmittingFromJs, paymentSession, start, call, callSession, payment>>
-----------------------------------------------------------------------------
(***************************************************************************)
(* React Native's Modal presents and removes its content when visible      *)
(* changes.  On iOS a native form whose payment succeeded or failed, or    *)
(* whose SDK reports an error before any, dismisses whatever is presented, *)
(* which the Modal does not learn: its visible stays as it was, and        *)
(* setting it to TRUE again presents nothing.                              *)
(***************************************************************************)
ModalFollows == presented' = IF showingFlow' = showingFlow THEN presented ELSE showingFlow'

DismissAnyPresentedViewController ==
    /\ ios
    /\ isSessionReady
    /\ presented
    /\ presented' = FALSE
    /\ UNCHANGED <<screen, start, call, callSession, payment, disturbed>>
-----------------------------------------------------------------------------
\* A press of Start writes the status for its own request; a close and a
\* promise that resolves leave it as it is ...
Quiet ==
    \/ \E s \in Starts : PressStart(s)
    \/ Close
    \/ \E c \in Calls : PaySettles(c, TRUE)

\* ... and what comes of forms, old or new, writes it.
FormEvent ==
    \/ \E c \in Calls : PressPay(c) \/ PaySettles(c, FALSE)
    \/ HandleTokenized
    \/ \E p \in Payments : HandleSubmit(p) \/ \E outcome \in Outcomes : SubmitAnswered(p, outcome)
    \/ FlowPaymentSuccess
    \/ FlowPaymentError

Handler ==
    \/ Quiet /\ UNCHANGED disturbed
    \/ FormEvent /\ disturbed' = disturbed \cup Fetching
    \/ \E s \in Starts :
          /\ SessionArrives(s) \/ StartFails(s)
          /\ disturbed' = disturbed \cup (Fetching \ {s})

Next ==
    /\ \/ Handler /\ ModalFollows
       \/ DismissAnyPresentedViewController
    /\ UNCHANGED ios

Spec == Init /\ [][Next]_vars
-----------------------------------------------------------------------------
\* Whatever late answer or event wrote the status last, a payment is never
\* reported as a success under the message of an error, nor with the sheet
\* still wanted: on iOS native code has dismissed it, and a sheet the screen
\* still wants there is not presented for the next session.
SuccessIsClean == status = "Success" => ~error /\ ~showingFlow

\* "Start Card Payment" is disabled only while a request is under way that
\* will enable it again, however many starts, failures and payments overlap.
StartIsNotStuck == status = "Processing..." => Fetching # {}

\* An open sheet has a form in it, and never "Preparing card form...": it is
\* also opened by errors, some of payments of sheets closed before.
SheetHasForm == showingFlow => isSessionReady

\* Pay is disabled exactly while the promise of its call is out, through
\* closes, reopenings and changes of session.
PayLocked == isSubmittingFromJs <=> \E c \in Calls : call[c] = "sent"

(***************************************************************************)
(* The screen uses the native form as the bridges assume.                  *)
(***************************************************************************)
Form == INSTANCE Sheet WITH
    Sessions <- Starts,
    shown <- IF showingFlow /\ isSessionReady THEN paymentSession ELSE None

\* Pay always asks for the session whose form is shown, one call at a time.
UsesTheSheet == Form!Spec

\* A session that arrives is that of the newest start pressed, and replaces
\* no form on the screen, unless an earlier session's form or an overlapping
\* start wrote the status meanwhile, which enables the button under the
\* request.  The first session always is that of the newest start.
FreshSession ==
    [][paymentSession' # paymentSession =>
         \/ isSessionReady /\ paymentSession' \in disturbed
         \/ ~presented /\ \A s \in Starts : start[s] # "idle" => s <= paymentSession']_vars
-----------------------------------------------------------------------------
(***************************************************************************)
(* The inductive invariant behind the safety properties.                   *)
(***************************************************************************)

\* The sheet on the screen is one the screen wants there.
PresentedIsWanted == presented => showingFlow

\* Only a form that was given a session can have asked for a payment.
SessionFirst ==
    /\ (PaidFor \/ \E p \in Payments : payment[p] # "none") => isSessionReady
    /\ isSessionReady => start[paymentSession] = "answered"

OneCall == \A c, d \in Calls : call[c] = "sent" /\ call[d] = "sent" => c = d

\* Starts are numbered in their order.
InOrder == \A s, t \in Starts : s < t /\ start[s] = "idle" => start[t] = "idle"

\* Two starts overlap only where the older one was disturbed, by something
\* that takes a session.
OverlapIsDisturbed ==
    \A s, t \in Fetching : s < t => isSessionReady /\ s \in disturbed

\* A start that was not disturbed is the last one, and has the screen alone.
Alone ==
    /\ disturbed # {} => isSessionReady
    /\ \A s \in Fetching \ disturbed :
          /\ status = "Processing..."
          /\ ~presented
          /\ \A t \in Starts : t > s => start[t] = "idle"

IInv ==
    /\ TypeOK
    /\ SuccessIsClean
    /\ StartIsNotStuck
    /\ SheetHasForm
    /\ PresentedIsWanted
    /\ SessionFirst
    /\ PayLocked
    /\ OneCall
    /\ InOrder
    /\ Alone
=============================================================================
