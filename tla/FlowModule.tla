----------------------------- MODULE FlowModule -----------------------------
(***************************************************************************)
(* FlowModule.kt, the full-screen flow on Android: one module object for   *)
(* all the flows of the app, written by its UI tasks and by one coroutine  *)
(* per flow.                                                               *)
(*                                                                         *)
(* JavaScript calls startPaymentSession and dismissFlow, which post tasks  *)
(* to the UI thread, and is told nothing but the end of a payment and a    *)
(* failed creation.  Flow s is the s-th start; its container and its       *)
(* components go by the same number.                                       *)
(***************************************************************************)
EXTENDS Naturals, Sequences

CONSTANTS
    Flows,          \* calls of startPaymentSession, in their order
    None            \* no flow

ASSUME FlowsAssumption == Flows \subseteq Nat /\ None \notin Flows

VARIABLES
    start,              \* start[s]: how far the start of flow s is
    dismissed,          \* flows started before the last dismissFlow
    uiQueue,            \* tasks posted to the UI thread by the two methods
    containerView,      \* the flow whose container the module remembers
    containers,         \* the containers on the screen
    checkoutComponents, \* the flow whose components the module remembers
    component,          \* component[s]: the flow whose components made s's button
    view,               \* view[s]: the container flow s has its button in
    googlePay,          \* the flow whose components opened the Google Pay sheet in front
    pay,                \* pay[s]: "none", "asked" or "paid"
    \* never changes
    patient             \* JavaScript ends a flow before it starts the next

vars == <<start, dismissed, uiQueue, containerView, containers, checkoutComponents, component,
          view, googlePay, pay, patient>>

Started == {s \in Flows : start[s] # "idle"}
Task == [op : {"start"}, flow : Flows] \cup [op : {"dismiss"}, flow : {None}]

TypeOK ==
    /\ start \in [Flows -> {"idle", "posted", "creating", "assigned", "created", "attached",
                            "unrendered", "failed"}]
    /\ dismissed \subseteq Started
    /\ uiQueue \in Seq(Task)
    /\ containerView \in Flows \cup {None}
    /\ containers \subseteq Flows
    /\ checkoutComponents \in Flows \cup {None}
    /\ component \in [Flows -> Flows \cup {None}]
    /\ view \in [Flows -> Flows \cup {None}]
    /\ googlePay \in Flows \cup {None}
    /\ pay \in [Flows -> {"none", "asked", "paid"}]
    /\ patient \in BOOLEAN

Init ==
    /\ start = [s \in Flows |-> "idle"]
    /\ dismissed = {}
    /\ uiQueue = <<>>
    /\ containerView = None
    /\ containers = {}
    /\ checkoutComponents = None
    /\ component = [s \in Flows |-> None]
    /\ view = [s \in Flows |-> None]
    /\ googlePay = None
    /\ pay = [s \in Flows |-> "none"]
    /\ patient \in BOOLEAN
-----------------------------------------------------------------------------
(***************************************************************************)
(* JavaScript.  It knows of the end of a flow by onFlowPaymentSuccess, or  *)
(* by the onFlowPaymentError of a creation that failed.                    *)
(***************************************************************************)
Ended(s) == start[s] = "failed" \/ pay[s] = "paid"

StartPaymentSession(s) ==
    /\ start[s] = "idle"
    /\ \A t \in Flows : t < s => start[t] # "idle"
    /\ patient => \A t \in Started : Ended(t) /\ t \in dismissed
    /\ start' = [start EXCEPT ![s] = "posted"]
    /\ uiQueue' = Append(uiQueue, [op |-> "start", flow |-> s])
    /\ UNCHANGED <<dismissed, containerView, containers, checkoutComponents, component, view,
                   googlePay, pay>>

DismissFlow ==
    /\ Started # dismissed
    /\ patient => \A t \in Started : Ended(t)
    /\ dismissed' = Started
    /\ uiQueue' = Append(uiQueue, [op |-> "dismiss", flow |-> None])
    /\ UNCHANGED <<start, containerView, containers, checkoutComponents, component, view, googlePay,
                   pay>>
-----------------------------------------------------------------------------
(***************************************************************************)
(* The tasks of the UI thread, in the order they were posted.              *)
(***************************************************************************)
ReuseContainer(s) == IF containerView = None THEN s ELSE containerView  \* mutant
NewContainer(s) == s

RunStart ==
    LET s == Head(uiQueue).flow IN
    /\ uiQueue # <<>> /\ Head(uiQueue).op = "start"
    /\ containerView' = NewContainer(s)
    /\ containers' = containers \cup {NewContainer(s)}
    /\ start' = [start EXCEPT ![s] = "creating"]
    /\ uiQueue' = Tail(uiQueue)
    /\ UNCHANGED <<dismissed, checkoutComponents, component, view, googlePay, pay>>

RemoveNothing == {}             \* mutant: the container stays
Removed == {containerView}

RunDismiss ==
    /\ uiQueue # <<>> /\ Head(uiQueue).op = "dismiss"
    /\ containers' = containers \ Removed
    /\ uiQueue' = Tail(uiQueue)
    /\ UNCHANGED <<start, dismissed, containerView, checkoutComponents, component, view, googlePay,
                   pay>>
-----------------------------------------------------------------------------
(***************************************************************************)
(* The coroutine of a flow: it replaces the module's components, makes a   *)
(* button of those it reads back, which another coroutine may have         *)
(* replaced, and adds it to whatever container is remembered when its turn *)
(* on the main thread comes.                                               *)
(***************************************************************************)
KeepComponents(s) == IF checkoutComponents = None THEN s ELSE checkoutComponents    \* mutant
NewComponents(s) == s

AssignComponents(s) ==
    /\ start[s] = "creating"
    /\ checkoutComponents' = NewComponents(s)
    /\ start' = [start EXCEPT ![s] = "assigned"]
    /\ UNCHANGED <<dismissed, uiQueue, containerView, containers, component, view, googlePay, pay>>

CreateButton(s) ==
    /\ start[s] = "assigned"
    /\ component' = [component EXCEPT ![s] = checkoutComponents]
    /\ start' = [start EXCEPT ![s] = "created"]
    /\ UNCHANGED <<dismissed, uiQueue, containerView, containers, checkoutComponents, view,
                   googlePay, pay>>

\* A CheckoutError: of the components, or of the button after them.
CreationFails(s) ==
    /\ start[s] \in {"creating", "assigned"}
    /\ start' = [start EXCEPT ![s] = "failed"]
    /\ UNCHANGED <<dismissed, uiQueue, containerView, containers, checkoutComponents, component,
                   view, googlePay, pay>>

OnlyIfCurrent(s) == containerView = s       \* mutant: skipped when another start came
HasContainer(s) == containerView # None

AddView(s, rendered) ==
    /\ start[s] = "created"
    /\ HasContainer(s)
    /\ start' = [start EXCEPT ![s] = IF rendered THEN "attached" ELSE "unrendered"]
    /\ view' = [view EXCEPT ![s] = IF rendered THEN containerView ELSE None]
    /\ UNCHANGED <<dismissed, uiQueue, containerView, containers, checkoutComponents, component,
                   googlePay, pay>>
-----------------------------------------------------------------------------
(***************************************************************************)
(* A payment.  The Google Pay sheet covers the app, so that there is one   *)
(* at a time; a session that is paid takes no second payment.              *)
(***************************************************************************)
PressGooglePay(s) ==
    /\ view[s] \in containers
    /\ googlePay = None
    /\ pay[component[s]] = "none"
    /\ googlePay' = component[s]
    /\ pay' = [pay EXCEPT ![component[s]] = "asked"]
    /\ UNCHANGED <<start, dismissed, uiQueue, containerView, containers, checkoutComponents,
                   component, view>>

\* The coordinator's handleActivityResult hands the result to the components
\* remembered now, whichever flow's sheet it comes from.
HandleActivityResult(ok) ==
    /\ googlePay # None
    /\ pay' = [pay EXCEPT ![checkoutComponents] = IF ok THEN "paid" ELSE "none"]
    /\ googlePay' = None
    /\ UNCHANGED <<start, dismissed, uiQueue, containerView, containers, checkoutComponents,
                   component, view>>
-----------------------------------------------------------------------------
Next ==
    /\ \/ \E s \in Flows : StartPaymentSession(s)
       \/ DismissFlow
       \/ RunStart
       \/ RunDismiss
       \/ \E s \in Flows :
             \/ AssignComponents(s) \/ CreateButton(s) \/ CreationFails(s)
             \/ \E rendered \in BOOLEAN : AddView(s, rendered)
             \/ PressGooglePay(s)
       \/ \E ok \in BOOLEAN : HandleActivityResult(ok)
    /\ UNCHANGED patient

Create(s) == AssignComponents(s) \/ CreateButton(s) \/ CreationFails(s)

\* The UI thread runs what was posted, the SDK's creation ends one way or the
\* other, and a patient JavaScript takes an ended flow off the screen.
Fairness ==
    /\ WF_vars((RunStart \/ RunDismiss) /\ UNCHANGED patient)
    /\ \A s \in Flows :
          /\ WF_vars(Create(s) /\ UNCHANGED patient)
          /\ WF_vars((\E rendered \in BOOLEAN : AddView(s, rendered)) /\ UNCHANGED patient)
    /\ WF_vars(patient /\ DismissFlow /\ UNCHANGED patient)

Spec == Init /\ [][Next]_vars /\ Fairness
-----------------------------------------------------------------------------
\* A button is never put into a container older than its flow: one that comes
\* late lands in the container of a later start.
ViewInNewer == \A s \in Flows : view[s] # None => s <= view[s]

\* Every start that was posted gets a button, or a message, or an error.
StartSettles ==
    \A s \in Flows :
        start[s] = "posted" ~> start[s] \in {"attached", "unrendered", "failed"}

\* The button of a flow that was paid leaves the screen, when JavaScript
\* starts flows one by one.
PaidLeaves == \A s \in Flows : patient /\ pay[s] = "paid" ~> view[s] \notin containers

(***************************************************************************)
(* For a patient JavaScript the module is one flow at a time, whose        *)
(* result goes to its own components.                                      *)
(***************************************************************************)
OnScreen == {s \in Flows : view[s] \in containers}
Shown == IF patient /\ OnScreen # {} THEN CHOOSE s \in OnScreen : TRUE ELSE None
PayOfPatient == IF patient THEN pay ELSE [s \in Flows |-> "none"]
Session == INSTANCE FlowSession WITH shown <- Shown, pay <- PayOfPatient, prompt <- TRUE

OneFlowAtATime == Session!Spec
=============================================================================
