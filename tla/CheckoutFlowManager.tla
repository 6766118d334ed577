------------------------- MODULE CheckoutFlowManager -------------------------
(***************************************************************************)
(* CheckoutFlowManager.swift, the full-screen flow on iOS: a session is    *)
(* initialized in a task of its own, a flow of it is rendered on the main  *)
(* thread, and the SDK's success callback takes the flow off the screen,   *)
(* on a thread of the SDK's choice.                                        *)
(*                                                                         *)
(* JavaScript can call initialize and renderFlow, each with a promise.     *)
(* dismissFlow is not exported to it.  Session s is that of the s-th       *)
(* initialize; the r-th renderFlow makes controller r.                     *)
(***************************************************************************)
EXTENDS Naturals

CONSTANTS
    Flows,          \* calls of initialize, in their order
    Renders,        \* calls of renderFlow, in their order
    None            \* no session, no controller

ASSUME FlowsAssumption == Flows \subseteq Nat /\ None \notin Flows
ASSUME RendersAssumption == Renders \subseteq Nat /\ None \notin Renders

VARIABLES
    initialized,            \* initialized[s]: life of the promise of initialize
    render,                 \* render[r]: life of the promise of renderFlow
    renderOf,               \* renderOf[r]: the session the call found
    checkoutComponents,     \* the session whose components are remembered
    controllers,            \* the controllers on the screen
    flowHostingController,  \* the controller remembered
    succeeding,             \* controllers whose onSuccess has not dismissed yet,
    forgetting,             \* and those whose onSuccess has removed one and not forgotten it
    pay,                    \* pay[s]: "none", "asked" or "paid"
    \* never change
    patient,                \* JavaScript ends a flow before it starts the next
    callbackOnMain          \* the SDK calls onSuccess on the main thread

vars == <<initialized, render, renderOf, checkoutComponents, controllers, flowHostingController,
          succeeding, forgetting, pay, patient, callbackOnMain>>

TypeOK ==
    /\ initialized \in [Flows -> {"idle", "sent", "resolved", "rejected"}]
    /\ render \in [Renders -> {"idle", "sent", "resolved", "rejected"}]
    /\ renderOf \in [Renders -> Flows \cup {None}]
    /\ checkoutComponents \in Flows \cup {None}
    /\ controllers \subseteq Renders
    /\ flowHostingController \in Renders \cup {None}
    /\ succeeding \subseteq Renders
    /\ forgetting \subseteq Renders
    /\ pay \in [Flows -> {"none", "asked", "paid"}]
    /\ patient \in BOOLEAN
    /\ callbackOnMain \in BOOLEAN

Init ==
    /\ initialized = [s \in Flows |-> "idle"]
    /\ render = [r \in Renders |-> "idle"]
    /\ renderOf = [r \in Renders |-> None]
    /\ checkoutComponents = None
    /\ controllers = {}
    /\ flowHostingController = None
    /\ succeeding = {}
    /\ forgetting = {}
    /\ pay = [s \in Flows |-> "none"]
    /\ patient \in BOOLEAN
    /\ callbackOnMain \in BOOLEAN
-----------------------------------------------------------------------------
(***************************************************************************)
(* initialize, and its task.                                               *)
(***************************************************************************)
Initializing == {s \in Flows : initialized[s] = "sent"}
Rendering == {r \in Renders : render[r] = "sent"}
Rendered == {r \in Renders : render[r] = "resolved"}

\* JavaScript has awaited its promises and the success of each flow shown.
AllEnded ==
    /\ Initializing = {} /\ Rendering = {}
    /\ \A r \in Rendered : pay[renderOf[r]] = "paid"

Initialize(s) ==
    /\ initialized[s] = "idle"
    /\ \A t \in Flows : t < s => initialized[t] # "idle"
    /\ patient => AllEnded
    /\ initialized' = [initialized EXCEPT ![s] = "sent"]
    /\ UNCHANGED <<render, renderOf, checkoutComponents, controllers, flowHostingController,
                   succeeding, forgetting, pay>>

KeepComponents(s) == IF checkoutComponents = None THEN s ELSE checkoutComponents    \* mutant
NewComponents(s) == s

InitializeSucceeds(s) ==
    /\ initialized[s] = "sent"
    /\ checkoutComponents' = NewComponents(s)
    /\ initialized' = [initialized EXCEPT ![s] = "resolved"]
    /\ UNCHANGED <<render, renderOf, controllers, flowHostingController, succeeding, forgetting, pay>>

\* An invalid session object, or a configuration that throws.
InitializeFails(s) ==
    /\ initialized[s] = "sent"
    /\ initialized' = [initialized EXCEPT ![s] = "rejected"]
    /\ UNCHANGED <<render, renderOf, checkoutComponents, controllers, flowHostingController,
                   succeeding, forgetting, pay>>
-----------------------------------------------------------------------------
(***************************************************************************)
(* renderFlow: what it does when called, and its task of the main thread,  *)
(* which runs them in the order they were posted.                          *)
(***************************************************************************)
RenderFlow(r) ==
    /\ render[r] = "idle"
    /\ \A q \in Renders : q < r => render[q] # "idle"
    /\ patient => AllEnded /\ \E s \in Flows :
          /\ initialized[s] = "resolved" /\ pay[s] = "none"
          /\ \A t \in Flows : t > s => initialized[t] = "idle"
    /\ renderOf' = [renderOf EXCEPT ![r] = checkoutComponents]
    /\ render' = [render EXCEPT ![r] = IF checkoutComponents = None THEN "rejected" ELSE "sent"]
    /\ UNCHANGED <<initialized, checkoutComponents, controllers, flowHostingController,
                   succeeding, forgetting, pay>>

\* A success callback on the main thread is not interrupted.
MainIsFree == callbackOnMain => succeeding = {} /\ forgetting = {}
NextOnMain(r) ==
    /\ MainIsFree
    /\ render[r] = "sent"
    /\ \A q \in Rendering : r <= q

RenderSucceeds(r) ==
    /\ NextOnMain(r)
    /\ controllers' = controllers \cup {r}
    /\ flowHostingController' = r
    /\ render' = [render EXCEPT ![r] = "resolved"]
    /\ UNCHANGED <<initialized, renderOf, checkoutComponents, succeeding, forgetting, pay>>

\* No root view controller, or a flow that cannot be created.
RenderFails(r) ==
    /\ NextOnMain(r)
    /\ render' = [render EXCEPT ![r] = "rejected"]
    /\ UNCHANGED <<initialized, renderOf, checkoutComponents, controllers, flowHostingController,
                   succeeding, forgetting, pay>>
-----------------------------------------------------------------------------
(***************************************************************************)
(* A payment in the flow of a controller; a session that is paid takes no  *)
(* second payment.  An error is printed and goes no further.               *)
(***************************************************************************)
PressPay(r) ==
    /\ r \in controllers
    /\ pay[renderOf[r]] = "none"
    /\ pay' = [pay EXCEPT ![renderOf[r]] = "asked"]
    /\ UNCHANGED <<initialized, render, renderOf, checkoutComponents, controllers,
                   flowHostingController, succeeding, forgetting>>

OnError(r) ==
    /\ r \in controllers
    /\ pay[renderOf[r]] = "asked"
    /\ pay' = [pay EXCEPT ![renderOf[r]] = "none"]
    /\ UNCHANGED <<initialized, render, renderOf, checkoutComponents, controllers,
                   flowHostingController, succeeding, forgetting>>

\* onSuccess sends the event first; JavaScript may act on it from here on ...
OnSuccess(r) ==
    /\ MainIsFree
    /\ r \in controllers
    /\ pay[renderOf[r]] = "asked"
    /\ pay' = [pay EXCEPT ![renderOf[r]] = "paid"]
    /\ succeeding' = succeeding \cup {r}
    /\ UNCHANGED <<initialized, render, renderOf, checkoutComponents, controllers,
                   flowHostingController, forgetting>>

RemoveNothing == controllers                                \* mutant
WithoutRemembered == controllers \ {flowHostingController}

\* ... dismissFlowView removes the controller remembered now, if any ...
RemoveRemembered(r) ==
    /\ r \in succeeding
    /\ controllers' = WithoutRemembered
    /\ succeeding' = succeeding \ {r}
    /\ forgetting' = IF flowHostingController = None THEN forgetting ELSE forgetting \cup {r}
    /\ UNCHANGED <<initialized, render, renderOf, checkoutComponents, flowHostingController, pay>>

StillRemembered == flowHostingController    \* mutant: not set to nil
Forgotten == None

\* ... and forgets the one remembered by then.
ForgetRemembered(r) ==
    /\ r \in forgetting
    /\ flowHostingController' = Forgotten
    /\ forgetting' = forgetting \ {r}
    /\ UNCHANGED <<initialized, render, renderOf, checkoutComponents, controllers, succeeding, pay>>
-----------------------------------------------------------------------------
Next ==
    /\ \/ \E s \in Flows : Initialize(s) \/ InitializeSucceeds(s) \/ InitializeFails(s)
       \/ \E r \in Renders :
             \/ RenderFlow(r) \/ RenderSucceeds(r) \/ RenderFails(r)
             \/ PressPay(r) \/ OnError(r) \/ OnSuccess(r)
             \/ RemoveRemembered(r) \/ ForgetRemembered(r)
    /\ UNCHANGED <<patient, callbackOnMain>>

rigid == <<patient, callbackOnMain>>

\* A callback is finished.
Fairness ==
    \A r \in Renders :
        /\ WF_vars(RemoveRemembered(r) /\ UNCHANGED rigid)
        /\ WF_vars(ForgetRemembered(r) /\ UNCHANGED rigid)

Spec == Init /\ [][Next]_vars /\ Fairness
-----------------------------------------------------------------------------
\* The controller that a success will dismiss is on the screen, the newest
\* there, unless a callback under way has just removed it: the ones
\* forgotten, which nothing can take away any more, lie under it.
RemembersTheNewest ==
    flowHostingController # None =>
        /\ flowHostingController \in controllers \/ forgetting # {}
        /\ \A r \in controllers : r <= flowHostingController

\* JavaScript awaits what it calls, and the callback is on the main thread,
\* which the closure's type (@Sendable) does not promise.
Careful == patient /\ callbackOnMain

\* The controller of a flow that was paid leaves the screen.
PaidLeaves ==
    \A r \in Renders :
        Careful /\ r \in controllers /\ pay[renderOf[r]] = "paid" ~> r \notin controllers

(***************************************************************************)
(* A JavaScript that awaits its calls runs one flow at a time, on whatever *)
(* thread the callback is.  Only on the main thread is it surely the paid  *)
(* flow that leaves the screen: elsewhere the next one may be rendered     *)
(* between the event and the dismissal.                                    *)
(***************************************************************************)
LastShown == {r \in controllers : \A q \in Rendered : q <= r}
Shown == IF patient /\ LastShown # {} THEN renderOf[CHOOSE r \in LastShown : TRUE] ELSE None
PayOfPatient == IF patient THEN pay ELSE [s \in Flows |-> "none"]
Session == INSTANCE FlowSession WITH
    shown <- Shown, pay <- PayOfPatient, prompt <- callbackOnMain

OneFlowAtATime == Session!Spec
=============================================================================
