--------------------- MODULE CheckoutFlowManager_proofs ---------------------
(***************************************************************************)
(* For any number of sessions and renders: the types of                    *)
(* CheckoutFlowManager, that it remembers the newest controller, and that  *)
(* for a patient JavaScript it implements FlowSession, on whatever thread  *)
(* the SDK calls back.                                                     *)
(***************************************************************************)
EXTENDS CheckoutFlowManager, TLAPS

\* A step of the specification is one of its actions.
LEMMA Steps ==
    ASSUME NEW P, [Next]_vars,
           \A s \in Flows : Initialize(s) => P,
           \A s \in Flows : InitializeSucceeds(s) => P,
           \A s \in Flows : InitializeFails(s) => P,
           \A r \in Renders : RenderFlow(r) => P,
           \A r \in Renders : RenderSucceeds(r) => P,
           \A r \in Renders : RenderFails(r) => P,
           \A r \in Renders : PressPay(r) => P,
           \A r \in Renders : OnError(r) => P,
           \A r \in Renders : OnSuccess(r) => P,
           \A r \in Renders : RemoveRemembered(r) => P,
           \A r \in Renders : ForgetRemembered(r) => P,
           UNCHANGED vars => P
    PROVE  P
BY Zenon DEF Next

\* How JavaScript and the SDK behave is decided once.
LEMMA RigidStep == [Next]_vars => UNCHANGED <<patient, callbackOnMain>>
BY Zenon DEF Next, vars
-----------------------------------------------------------------------------
LEMMA TypeOKStep == TypeOK /\ [Next]_vars => TypeOK'
<1> SUFFICES ASSUME TypeOK, [Next]_vars
             PROVE  TypeOK'
  OBVIOUS
<1>0. patient' \in BOOLEAN /\ callbackOnMain' \in BOOLEAN
  BY RigidStep DEF TypeOK
<1>1. ASSUME NEW s \in Flows, Initialize(s) PROVE TypeOK'
  BY <1>0, <1>1 DEF Initialize, TypeOK
<1>2. ASSUME NEW s \in Flows, InitializeSucceeds(s) PROVE TypeOK'
  BY <1>0, <1>2 DEF InitializeSucceeds, NewComponents, TypeOK
<1>3. ASSUME NEW s \in Flows, InitializeFails(s) PROVE TypeOK'
  BY <1>0, <1>3 DEF InitializeFails, TypeOK
<1>4. ASSUME NEW r \in Renders, RenderFlow(r) PROVE TypeOK'
  BY <1>0, <1>4 DEF RenderFlow, TypeOK
<1>5. ASSUME NEW r \in Renders, RenderSucceeds(r) PROVE TypeOK'
  BY <1>0, <1>5 DEF RenderSucceeds, TypeOK
<1>6. ASSUME NEW r \in Renders, RenderFails(r) PROVE TypeOK'
  BY <1>0, <1>6 DEF RenderFails, TypeOK
<1>7. ASSUME NEW r \in Renders, PressPay(r) PROVE TypeOK'
  BY <1>0, <1>7 DEF PressPay, TypeOK
<1>8. ASSUME NEW r \in Renders, OnError(r) PROVE TypeOK'
  BY <1>0, <1>8 DEF OnError, TypeOK
<1>9. ASSUME NEW r \in Renders, OnSuccess(r) PROVE TypeOK'
  BY <1>0, <1>9 DEF OnSuccess, TypeOK
<1>10. ASSUME NEW r \in Renders, RemoveRemembered(r) PROVE TypeOK'
  BY <1>0, <1>10 DEF RemoveRemembered, WithoutRemembered, TypeOK
<1>11. ASSUME NEW r \in Renders, ForgetRemembered(r) PROVE TypeOK'
  BY <1>0, <1>11 DEF ForgetRemembered, Forgotten, TypeOK
<1>12. ASSUME UNCHANGED vars PROVE TypeOK'
  BY <1>12 DEF vars, TypeOK
<1> QED
  BY <1>1, <1>2, <1>3, <1>4, <1>5, <1>6, <1>7, <1>8, <1>9, <1>10, <1>11, <1>12, Steps, Zenon

\* The variables of CheckoutFlowManager keep their types.
THEOREM TypeCorrect == Spec => []TypeOK
<1>1. Init => TypeOK
  BY DEF Init, TypeOK
<1> QED
  BY <1>1, TypeOKStep, PTL DEF Spec
-----------------------------------------------------------------------------
\* Renders are called and run in their order, and those under way have a
\* session.
InOrder ==
    /\ \A q, r \in Renders : q < r /\ render[r] # "idle" => render[q] # "idle"
    /\ controllers \subseteq Rendered
    /\ \A q \in Rendered, r \in Rendering : q < r
    /\ \A r \in Renders : render[r] \in {"sent", "resolved"} => renderOf[r] # None

Newest == InOrder /\ RemembersTheNewest

LEMMA NewestStep == TypeOK /\ Newest /\ [Next]_vars => Newest'
<1> SUFFICES ASSUME TypeOK, Newest, [Next]_vars
             PROVE  Newest'
  OBVIOUS
<1> USE RendersAssumption
<1>0. ASSUME UNCHANGED <<render, renderOf, controllers, flowHostingController, forgetting>>
      PROVE  Newest'
  BY <1>0 DEF Newest, InOrder, RemembersTheNewest, Rendered, Rendering
<1>1. ASSUME NEW s \in Flows, Initialize(s) PROVE Newest'
  BY <1>0, <1>1 DEF Initialize
<1>2. ASSUME NEW s \in Flows, InitializeSucceeds(s) PROVE Newest'
  BY <1>0, <1>2 DEF InitializeSucceeds
<1>3. ASSUME NEW s \in Flows, InitializeFails(s) PROVE Newest'
  BY <1>0, <1>3 DEF InitializeFails
<1>4. ASSUME NEW r \in Renders, RenderFlow(r) PROVE Newest'
  <2>1. /\ render[r] = "idle" /\ \A q \in Renders : q < r => render[q] # "idle"
        /\ render' = [render EXCEPT ![r] = IF checkoutComponents = None THEN "rejected" ELSE "sent"]
        /\ renderOf' = [renderOf EXCEPT ![r] = checkoutComponents]
        /\ UNCHANGED <<controllers, flowHostingController, forgetting>>
    BY <1>4 DEF RenderFlow
  <2>2. render \in [Renders -> {"idle", "sent", "resolved", "rejected"}]
        /\ renderOf \in [Renders -> Flows \cup {None}]
    BY DEF TypeOK
  <2>3. \A q, p \in Renders : q < p /\ render'[p] # "idle" => render'[q] # "idle"
    BY <2>1, <2>2 DEF Newest, InOrder
  <2>4. Rendered' = Rendered /\ r \notin Rendered /\ Rendering' \subseteq Rendering \cup {r}
    BY <2>1, <2>2 DEF Rendered, Rendering
  <2>5. \A q \in Rendered : q < r
    <3> SUFFICES ASSUME NEW q \in Rendered
                 PROVE  q < r
      OBVIOUS
    <3>1. q \in Renders /\ q # r /\ render[q] # "idle"
      BY <2>4 DEF Rendered
    <3>2. ~(r < q)
      BY <2>1, <3>1 DEF Newest, InOrder
    <3> QED
      BY <3>1, <3>2
  <2>6. \A q \in Rendered', p \in Rendering' : q < p
    BY <2>4, <2>5 DEF Newest, InOrder
  <2>7. \A p \in Renders : render'[p] \in {"sent", "resolved"} => renderOf'[p] # None
    BY <2>1, <2>2 DEF Newest, InOrder
  <2> QED
    BY <2>1, <2>3, <2>4, <2>6, <2>7 DEF Newest, InOrder, RemembersTheNewest
<1>5. ASSUME NEW r \in Renders, RenderSucceeds(r) PROVE Newest'
  <2>1. /\ render[r] = "sent" /\ \A p \in Rendering : r <= p
        /\ render' = [render EXCEPT ![r] = "resolved"]
        /\ controllers' = controllers \cup {r}
        /\ flowHostingController' = r
        /\ UNCHANGED renderOf
    BY <1>5 DEF RenderSucceeds, NextOnMain
  <2>2. render \in [Renders -> {"idle", "sent", "resolved", "rejected"}]
    BY DEF TypeOK
  <2>3. Rendering' = Rendering \ {r} /\ r \in Rendering /\ Rendered' = Rendered \cup {r}
    BY <2>1, <2>2 DEF Rendering, Rendered
  <2>4. \A q \in controllers : q \in Renders /\ q < r
    BY <2>3 DEF Newest, InOrder, Rendered
  <2>5. \A p \in Rendering' : r < p
    BY <2>1, <2>3 DEF Rendering
  <2>6. \A q \in Rendered', p \in Rendering' : q < p
    BY <2>3, <2>5 DEF Newest, InOrder
  <2>7. \A q, p \in Renders : q < p /\ render'[p] # "idle" => render'[q] # "idle"
    BY <2>1, <2>2 DEF Newest, InOrder
  <2>8. \A p \in Renders : render'[p] \in {"sent", "resolved"} => renderOf'[p] # None
    BY <2>1, <2>2 DEF Newest, InOrder
  <2>9. RemembersTheNewest'
    <3>1. \A q \in controllers : q <= r
      <4> TAKE q \in controllers
      <4>1. q \in Nat /\ r \in Nat /\ q < r
        BY <2>4
      <4> QED
        BY <4>1
    <3>2. r <= r
      OBVIOUS
    <3>3. \A q \in controllers' : q <= flowHostingController'
      BY <2>1, <3>1, <3>2, Zenon
    <3> QED
      BY <2>1, <3>3, Zenon DEF RemembersTheNewest
  <2> QED
    BY <2>1, <2>3, <2>6, <2>7, <2>8, <2>9 DEF Newest, InOrder
<1>6. ASSUME NEW r \in Renders, RenderFails(r) PROVE Newest'
  <2>1. /\ render[r] = "sent"
        /\ render' = [render EXCEPT ![r] = "rejected"]
        /\ UNCHANGED <<renderOf, controllers, flowHostingController, forgetting>>
    BY <1>6 DEF RenderFails, NextOnMain
  <2>2. render \in [Renders -> {"idle", "sent", "resolved", "rejected"}]
    BY DEF TypeOK
  <2>3. Rendering' \subseteq Rendering /\ Rendered' = Rendered
    BY <2>1, <2>2 DEF Rendering, Rendered
  <2>4. \A q, p \in Renders : q < p /\ render'[p] # "idle" => render'[q] # "idle"
    BY <2>1, <2>2 DEF Newest, InOrder
  <2>5. \A p \in Renders : render'[p] \in {"sent", "resolved"} => renderOf'[p] # None
    BY <2>1, <2>2 DEF Newest, InOrder
  <2> QED
    BY <2>1, <2>3, <2>4, <2>5 DEF Newest, InOrder, RemembersTheNewest
<1>7. ASSUME NEW r \in Renders, PressPay(r) PROVE Newest'
  BY <1>0, <1>7 DEF PressPay
<1>8. ASSUME NEW r \in Renders, OnError(r) PROVE Newest'
  BY <1>0, <1>8 DEF OnError
<1>9. ASSUME NEW r \in Renders, OnSuccess(r) PROVE Newest'
  BY <1>0, <1>9 DEF OnSuccess
<1>10. ASSUME NEW r \in Renders, RemoveRemembered(r) PROVE Newest'
  <2>1. /\ controllers' \subseteq controllers
        /\ flowHostingController # None => forgetting' # {}
        /\ UNCHANGED <<render, renderOf, flowHostingController>>
    BY <1>10 DEF RemoveRemembered, WithoutRemembered
  <2> QED
    BY <2>1 DEF Newest, InOrder, RemembersTheNewest, Rendered, Rendering
<1>11. ASSUME NEW r \in Renders, ForgetRemembered(r) PROVE Newest'
  BY <1>11 DEF ForgetRemembered, Forgotten, Newest, InOrder, RemembersTheNewest, Rendered, Rendering
<1>12. ASSUME UNCHANGED vars PROVE Newest'
  BY <1>0, <1>12 DEF vars
<1> QED
  BY <1>1, <1>2, <1>3, <1>4, <1>5, <1>6, <1>7, <1>8, <1>9, <1>10, <1>11, <1>12, Steps, Zenon

\* The controllers of CheckoutFlowManager are in the order of their renders.
THEOREM RendersInOrder == Spec => []Newest
<1>1. Init => Newest
  BY DEF Init, Newest, InOrder, RemembersTheNewest, Rendered, Rendering
<1> QED
  BY <1>1, NewestStep, TypeCorrect, PTL DEF Spec

\* The controller that dismissFlowView takes away is the newest on the screen,
\* or just removed from it, however many were rendered.
THEOREM NewestIsRemembered == Spec => []RemembersTheNewest
BY RendersInOrder, PTL DEF Newest
-----------------------------------------------------------------------------
\* What a patient JavaScript leaves: one call at a time ...
OneCall ==
    /\ \A s, t \in Flows : t < s /\ initialized[s] # "idle" => initialized[t] # "idle"
    /\ \A s, t \in Initializing : s = t
    /\ \A s \in Initializing : \A t \in Flows : t > s => initialized[t] = "idle"
    /\ \A q, r \in Rendering : q = r
    /\ Rendering # {} => Initializing = {}

\* ... that finds the components of the session initialized last ...
NewestSession ==
    \A s \in Flows :
        initialized[s] = "resolved" /\ (\A t \in Flows : t > s => initialized[t] = "idle") =>
            checkoutComponents = s

\* ... one flow that is not paid, the last rendered, while a success callback
\* is that of a flow paid, and the one remembered has its own to come ...
Paid(r) == pay[renderOf[r]] = "paid"
LastUnpaid ==
    /\ \A q, r \in Rendered : q < r => Paid(q)
    /\ succeeding \subseteq {r \in Rendered : Paid(r)}
    /\ flowHostingController \in controllers /\ Paid(flowHostingController) =>
          flowHostingController \in succeeding

\* ... a new payment while it is rendered ...
NewPayment ==
    Rendering # {} =>
        /\ \A r \in Rendered : Paid(r)
        /\ \A r \in Rendering : pay[renderOf[r]] = "none"

\* ... and, with the callback on the main thread, one controller, which its own
\* success takes away.
OneController ==
    /\ controllers \subseteq {flowHostingController}
    /\ succeeding \subseteq controllers
    /\ \A r \in controllers : Paid(r) <=> r \in succeeding
    /\ forgetting # {} => controllers = {}

OneByOne ==
    OneCall /\ NewestSession /\ LastUnpaid /\ NewPayment /\ (callbackOnMain => OneController)
PatientOneByOne == patient => OneByOne

LEMMA OneInitialize ==
    ASSUME TypeOK, OneByOne, patient, UNCHANGED callbackOnMain, NEW s \in Flows, Initialize(s)
    PROVE  OneByOne'
<1> USE FlowsAssumption
<1>0. /\ initialized \in [Flows -> {"idle", "sent", "resolved", "rejected"}]
      /\ initialized[s] = "idle" /\ \A t \in Flows : t < s => initialized[t] # "idle"
      /\ initialized' = [initialized EXCEPT ![s] = "sent"]
      /\ Initializing = {} /\ Rendering = {}
      /\ UNCHANGED <<render, renderOf, checkoutComponents, controllers, flowHostingController,
                     succeeding, forgetting, pay>>
  BY DEF Initialize, AllEnded, TypeOK
<1>1. Initializing' = {s} /\ Rendering' = {}
  BY <1>0 DEF Initializing, Rendering
<1>2. \A t \in Flows : t > s => initialized'[t] = "idle"
  BY <1>0 DEF OneByOne, OneCall
<1>3. \A u, t \in Flows : t < u /\ initialized'[u] # "idle" => initialized'[t] # "idle"
  BY <1>0 DEF OneByOne, OneCall
<1>4. OneCall'
  BY <1>1, <1>2, <1>3 DEF OneCall
<1>5. NewestSession'
  <2> SUFFICES ASSUME NEW u \in Flows, initialized'[u] = "resolved",
                      \A t \in Flows : t > u => initialized'[t] = "idle"
               PROVE  FALSE
    BY DEF NewestSession
  <2>1. u # s /\ u \in Nat /\ s \in Nat /\ initialized'[s] = "sent"
    BY <1>0
  <2>2. CASE u < s
    BY <2>1, <2>2
  <2>3. CASE u > s
    BY <2>3, <1>2
  <2> QED
    BY <2>1, <2>2, <2>3
<1>6. LastUnpaid' /\ (callbackOnMain => OneController')
  BY <1>0 DEF OneByOne, LastUnpaid, OneController, Paid, Rendered
<1>7. NewPayment'
  BY <1>1 DEF NewPayment
<1> QED
  BY <1>4, <1>5, <1>6, <1>7 DEF OneByOne

\* The end of the initialize under way, the newest one.
LEMMA OneInitialized ==
    ASSUME TypeOK, OneByOne, UNCHANGED callbackOnMain, NEW s \in Flows,
           InitializeSucceeds(s) \/ InitializeFails(s)
    PROVE  OneByOne'
<1> USE FlowsAssumption
<1>0. /\ initialized \in [Flows -> {"idle", "sent", "resolved", "rejected"}]
      /\ initialized[s] = "sent"
      /\ \/ initialized' = [initialized EXCEPT ![s] = "resolved"] /\ checkoutComponents' = s
         \/ initialized' = [initialized EXCEPT ![s] = "rejected"] /\ UNCHANGED checkoutComponents
      /\ UNCHANGED <<render, renderOf, controllers, flowHostingController, succeeding, forgetting,
                     pay>>
  BY DEF InitializeSucceeds, InitializeFails, NewComponents, TypeOK
<1>1. s \in Initializing
  BY <1>0 DEF Initializing
<1>2. Initializing' = {}
  BY <1>0, <1>1 DEF OneByOne, OneCall, Initializing
<1>3. \A t \in Flows : initialized'[t] = "idle" <=> initialized[t] = "idle"
  BY <1>0
<1>4. \A t \in Flows : t > s => initialized[t] = "idle"
  BY <1>1 DEF OneByOne, OneCall
<1>5. OneCall'
  BY <1>0, <1>2, <1>3 DEF OneByOne, OneCall, Rendering
<1>6. NewestSession'
  <2> SUFFICES ASSUME NEW u \in Flows, initialized'[u] = "resolved",
                      \A t \in Flows : t > u => initialized'[t] = "idle"
               PROVE  checkoutComponents' = u
    BY DEF NewestSession
  <2>1. u \in Nat /\ s \in Nat /\ initialized'[s] # "idle"
    BY <1>0
  <2>2. ~(u < s)
    BY <2>1
  <2>3. ~(u > s)
    BY <1>3, <1>4
  <2>4. u = s
    BY <2>1, <2>2, <2>3
  <2> QED
    BY <2>4, <1>0
<1>7. LastUnpaid' /\ (callbackOnMain => OneController')
  BY <1>0 DEF OneByOne, LastUnpaid, OneController, Paid, Rendered
<1>8. NewPayment'
  BY <1>0 DEF OneByOne, NewPayment, Paid, Rendering, Rendered
<1> QED
  BY <1>5, <1>6, <1>7, <1>8 DEF OneByOne

LEMMA OneRender ==
    ASSUME TypeOK, InOrder, OneByOne, patient, UNCHANGED callbackOnMain,
           NEW r \in Renders, RenderFlow(r)
    PROVE  OneByOne'
<1>1. PICK s \in Flows : /\ initialized[s] = "resolved" /\ pay[s] = "none"
                         /\ \A t \in Flows : t > s => initialized[t] = "idle"
  BY DEF RenderFlow
<1>2. checkoutComponents = s /\ s # None
  BY <1>1, FlowsAssumption DEF OneByOne, NewestSession
<1>3. /\ render \in [Renders -> {"idle", "sent", "resolved", "rejected"}]
      /\ renderOf \in [Renders -> Flows \cup {None}]
      /\ render[r] = "idle"
      /\ render' = [render EXCEPT ![r] = "sent"]
      /\ renderOf' = [renderOf EXCEPT ![r] = s]
      /\ Initializing = {} /\ Rendering = {}
      /\ \A q \in Rendered : Paid(q)
      /\ UNCHANGED <<initialized, checkoutComponents, controllers, flowHostingController,
                     succeeding, forgetting, pay>>
  BY <1>2 DEF RenderFlow, AllEnded, Paid, TypeOK
<1>4. Rendering' = {r} /\ Rendered' = Rendered /\ Initializing' = {} /\ r \notin Rendered
  BY <1>3 DEF Rendering, Rendered, Initializing
<1>5. OneCall'
  BY <1>3, <1>4 DEF OneByOne, OneCall
<1>6. NewestSession'
  BY <1>3 DEF OneByOne, NewestSession
<1>7. \A q \in Rendered : Paid(q)' /\ Paid(q)
  BY <1>3, <1>4 DEF Rendered, Paid
<1>8. LastUnpaid'
  BY <1>3, <1>4, <1>7 DEF OneByOne, LastUnpaid, InOrder
<1>9. callbackOnMain => OneController'
  BY <1>3, <1>7 DEF OneByOne, OneController, InOrder
<1>10. NewPayment'
  BY <1>1, <1>3, <1>4, <1>7 DEF NewPayment
<1> QED
  BY <1>5, <1>6, <1>8, <1>9, <1>10 DEF OneByOne

\* A render that succeeds finds what is on the screen paid and, with the
\* callback on the main thread, nothing there.
LEMMA CleanRender ==
    ASSUME TypeOK, InOrder, OneByOne, NEW r \in Renders, NextOnMain(r)
    PROVE  /\ Rendering = {r} /\ pay[renderOf[r]] = "none" /\ r \notin Rendered
           /\ \A q \in Rendered : q < r /\ Paid(q)
           /\ callbackOnMain => controllers = {} /\ succeeding = {} /\ forgetting = {}
<1>1. r \in Rendering /\ r \notin Rendered
  BY DEF NextOnMain, Rendering, Rendered
<1>2. \A q \in Rendered : q < r /\ Paid(q)
  BY <1>1 DEF OneByOne, NewPayment, InOrder
<1>3. ASSUME callbackOnMain PROVE controllers = {} /\ succeeding = {} /\ forgetting = {}
  BY <1>2, <1>3 DEF NextOnMain, MainIsFree, OneByOne, OneController, InOrder
<1> QED
  BY <1>1, <1>2, <1>3 DEF OneByOne, OneCall, NewPayment

LEMMA OneRendered ==
    ASSUME TypeOK, InOrder, OneByOne, UNCHANGED callbackOnMain,
           NEW r \in Renders, RenderSucceeds(r)
    PROVE  OneByOne'
<1> USE RendersAssumption
<1>0. /\ Rendering = {r} /\ pay[renderOf[r]] = "none" /\ r \notin Rendered
      /\ \A q \in Rendered : q < r /\ Paid(q)
      /\ callbackOnMain => controllers = {} /\ succeeding = {} /\ forgetting = {}
  BY CleanRender DEF RenderSucceeds
<1>1. /\ render \in [Renders -> {"idle", "sent", "resolved", "rejected"}]
      /\ render' = [render EXCEPT ![r] = "resolved"]
      /\ controllers' = controllers \cup {r}
      /\ flowHostingController' = r
      /\ UNCHANGED <<initialized, renderOf, checkoutComponents, succeeding, forgetting, pay>>
  BY DEF RenderSucceeds, TypeOK
<1>2. Rendering' = {} /\ Rendered' = Rendered \cup {r}
  BY <1>0, <1>1 DEF Rendering, Rendered
<1>3. OneCall'
  BY <1>1, <1>2 DEF OneByOne, OneCall, Initializing
<1>4. NewestSession'
  BY <1>1 DEF OneByOne, NewestSession
<1>5. \A q \in Renders : Paid(q)' <=> Paid(q)
  BY <1>1 DEF Paid
<1>6. LastUnpaid'
  <2>1. \A p, q \in Rendered' : p < q => Paid(p)'
    <3> SUFFICES ASSUME NEW p \in Rendered', NEW q \in Rendered', p < q
                 PROVE  Paid(p)'
      OBVIOUS
    <3>1. p \in Renders /\ q \in Renders
      BY DEF Rendered
    <3>2. CASE p \in Rendered
      BY <3>1, <3>2, <1>0, <1>5
    <3>3. CASE p = r
      <4>1. ~(r < q)
        BY <3>1, <1>0, <1>2
      <4> QED
        BY <4>1, <3>3
    <3> QED
      BY <3>2, <3>3, <1>2
  <2>2. succeeding' \subseteq {q \in Rendered' : Paid(q)'}
    BY <1>1, <1>2, <1>5 DEF OneByOne, LastUnpaid, Rendered
  <2>3. ~Paid(flowHostingController)'
    BY <1>0, <1>1 DEF Paid
  <2> QED
    BY <2>1, <2>2, <2>3 DEF LastUnpaid
<1>7. callbackOnMain => OneController'
  BY <1>0, <1>1 DEF OneController, Paid
<1>8. NewPayment'
  BY <1>2 DEF NewPayment
<1> QED
  BY <1>3, <1>4, <1>6, <1>7, <1>8 DEF OneByOne

LEMMA OneRejected ==
    ASSUME TypeOK, InOrder, OneByOne, UNCHANGED callbackOnMain, NEW r \in Renders, RenderFails(r)
    PROVE  OneByOne'
<1>0. /\ Rendering = {r}
      /\ render \in [Renders -> {"idle", "sent", "resolved", "rejected"}]
      /\ render' = [render EXCEPT ![r] = "rejected"] /\ render[r] = "sent"
      /\ UNCHANGED <<initialized, renderOf, checkoutComponents, controllers,
                     flowHostingController, succeeding, forgetting, pay>>
  BY CleanRender DEF RenderFails, NextOnMain, TypeOK
<1>1. Rendering' = {} /\ Rendered' = Rendered
  BY <1>0 DEF Rendering, Rendered
<1>2. OneCall'
  BY <1>0, <1>1 DEF OneByOne, OneCall, Initializing
<1>3. NewestSession'
  BY <1>0 DEF OneByOne, NewestSession
<1>4. LastUnpaid' /\ (callbackOnMain => OneController')
  BY <1>0, <1>1 DEF OneByOne, LastUnpaid, OneController, Paid
<1>5. NewPayment'
  BY <1>1 DEF NewPayment
<1> QED
  BY <1>2, <1>3, <1>4, <1>5 DEF OneByOne

\* A flow on the screen that is not paid is the last rendered, and the only
\* one of its session.
LEMMA UnpaidIsLast ==
    ASSUME TypeOK, InOrder, OneByOne, NEW r \in controllers, ~Paid(r)
    PROVE  /\ r \in Rendered /\ r \in Renders /\ renderOf[r] \in Flows /\ renderOf[r] # None
           /\ \A q \in Rendered : q # r => q < r /\ Paid(q) /\ renderOf[q] # renderOf[r]
           /\ Rendering = {}
<1>1. r \in Rendered /\ r \in Renders /\ render[r] = "resolved"
  BY DEF InOrder, Rendered
<1>2. renderOf[r] \in Flows /\ renderOf[r] # None
  BY <1>1 DEF InOrder, TypeOK
<1>3. \A q \in Rendered : q # r => q < r
  <2> SUFFICES ASSUME NEW q \in Rendered, q # r
               PROVE  q < r
    OBVIOUS
  <2>1. q \in Nat /\ r \in Nat /\ ~(r < q)
    BY <1>1, RendersAssumption DEF Rendered, OneByOne, LastUnpaid
  <2> QED
    BY <2>1
<1>4. \A q \in Rendered : q # r => Paid(q)
  BY <1>1, <1>3 DEF OneByOne, LastUnpaid
<1>5. Rendering = {}
  BY <1>1 DEF OneByOne, NewPayment
<1> QED
  BY <1>1, <1>2, <1>3, <1>4, <1>5 DEF Paid

\* A step of the payment of the controller on the screen, which is not paid yet.
LEMMA OnePayment ==
    ASSUME TypeOK, InOrder, OneByOne, UNCHANGED callbackOnMain, NEW r \in controllers, ~Paid(r),
           NEW to \in {"none", "asked", "paid"},
           pay' = [pay EXCEPT ![renderOf[r]] = to],
           succeeding' = IF to = "paid" THEN succeeding \cup {r} ELSE succeeding,
           UNCHANGED <<initialized, render, renderOf, checkoutComponents, controllers,
                       flowHostingController, forgetting>>
    PROVE  OneByOne'
<1>1. /\ r \in Rendered /\ r \in Renders /\ renderOf[r] \in Flows
      /\ \A q \in Rendered : q # r => q < r /\ Paid(q) /\ renderOf[q] # renderOf[r]
      /\ Rendering = {}
  BY UnpaidIsLast
<1>2. Rendering' = {} /\ Rendered' = Rendered
  BY <1>1 DEF Rendering, Rendered
<1>3. /\ Paid(r)' <=> to = "paid"
      /\ \A q \in Rendered : q # r => Paid(q)'
  BY <1>1 DEF Paid, TypeOK
<1>4. OneCall'
  BY <1>2 DEF OneByOne, OneCall, Initializing
<1>5. NewestSession'
  BY DEF OneByOne, NewestSession
<1>6. r \notin succeeding
  BY DEF OneByOne, LastUnpaid
<1>7. LastUnpaid'
  <2>1. \A p, q \in Rendered' : p < q => Paid(p)'
    <3> SUFFICES ASSUME NEW p \in Rendered', NEW q \in Rendered', p < q
                 PROVE  Paid(p)'
      OBVIOUS
    <3>1. p \in Nat /\ q \in Nat /\ r \in Nat
      BY <1>1, RendersAssumption DEF Rendered
    <3>2. p # r
      BY <3>1, <1>1, <1>2
    <3> QED
      BY <3>2, <1>2, <1>3
  <2>2. succeeding' \subseteq {q \in Rendered' : Paid(q)'}
    BY <1>1, <1>2, <1>3, <1>6 DEF OneByOne, LastUnpaid
  <2>3. ASSUME flowHostingController \in controllers, Paid(flowHostingController)'
        PROVE  flowHostingController \in succeeding'
    <3>1. flowHostingController \in Rendered
      BY <2>3 DEF InOrder
    <3> QED
      BY <2>3, <3>1, <1>1, <1>3 DEF OneByOne, LastUnpaid
  <2> QED
    BY <2>1, <2>2, <2>3 DEF LastUnpaid
<1>8. ASSUME callbackOnMain PROVE OneController'
  <2>1. OneController /\ controllers = {r} /\ succeeding = {}
    BY <1>6, <1>8 DEF OneByOne, OneController
  <2> QED
    BY <2>1, <1>3 DEF OneController
<1>9. NewPayment'
  BY <1>2 DEF NewPayment
<1> QED
  BY <1>4, <1>5, <1>7, <1>8, <1>9 DEF OneByOne

\* What the two steps of dismissFlowView leave alone.
LEMMA OneCallStays ==
    ASSUME OneByOne, UNCHANGED <<initialized, render, renderOf, checkoutComponents, pay>>
    PROVE  /\ OneCall' /\ NewestSession' /\ NewPayment' /\ Rendered' = Rendered
           /\ \A r : Paid(r)' <=> Paid(r)
BY DEF OneByOne, OneCall, NewestSession, NewPayment, Paid, Initializing, Rendering, Rendered

LEMMA OneRemoves ==
    ASSUME TypeOK, InOrder, OneByOne, UNCHANGED callbackOnMain,
           NEW r \in Renders, RemoveRemembered(r)
    PROVE  OneByOne'
<1>1. /\ controllers' = controllers \ {flowHostingController}
      /\ r \in succeeding /\ succeeding' = succeeding \ {r}
      /\ UNCHANGED <<initialized, render, renderOf, checkoutComponents, flowHostingController, pay>>
  BY DEF RemoveRemembered, WithoutRemembered
<1>2. /\ OneCall' /\ NewestSession' /\ NewPayment' /\ Rendered' = Rendered
      /\ \A q : Paid(q)' <=> Paid(q)
  BY <1>1, OneCallStays
<1>3. LastUnpaid'
  BY <1>1, <1>2 DEF OneByOne, LastUnpaid
<1>4. ASSUME callbackOnMain PROVE OneController'
  <2>1. controllers' = {} /\ succeeding' = {}
    BY <1>1, <1>4 DEF OneByOne, OneController
  <2> QED
    BY <2>1 DEF OneController
<1> QED
  BY <1>2, <1>3, <1>4 DEF OneByOne

LEMMA OneForgets ==
    ASSUME TypeOK, InOrder, OneByOne, UNCHANGED callbackOnMain,
           NEW r \in Renders, ForgetRemembered(r)
    PROVE  OneByOne'
<1>1. /\ r \in forgetting /\ flowHostingController' = None
      /\ UNCHANGED <<initialized, render, renderOf, checkoutComponents, controllers, succeeding, pay>>
  BY DEF ForgetRemembered, Forgotten
<1>2. /\ OneCall' /\ NewestSession' /\ NewPayment' /\ Rendered' = Rendered
      /\ \A q : Paid(q)' <=> Paid(q)
  BY <1>1, OneCallStays
<1>3. None \notin controllers
  BY RendersAssumption DEF TypeOK
<1>4. LastUnpaid'
  BY <1>1, <1>2, <1>3 DEF OneByOne, LastUnpaid
<1>5. ASSUME callbackOnMain PROVE OneController'
  <2>1. controllers' = {} /\ succeeding' = {}
    BY <1>1, <1>5 DEF OneByOne, OneController
  <2> QED
    BY <2>1 DEF OneController
<1> QED
  BY <1>2, <1>4, <1>5 DEF OneByOne

LEMMA PatientStep ==
    TypeOK /\ InOrder /\ PatientOneByOne /\ [Next]_vars => PatientOneByOne'
<1> SUFFICES ASSUME TypeOK, InOrder, OneByOne, patient, UNCHANGED callbackOnMain, [Next]_vars
             PROVE  OneByOne'
  BY RigidStep, Zenon DEF PatientOneByOne
<1>1. ASSUME NEW r \in Renders, PressPay(r) PROVE OneByOne'
  BY <1>1, OnePayment DEF PressPay, Paid
<1>2. ASSUME NEW r \in Renders, OnError(r) PROVE OneByOne'
  BY <1>2, OnePayment DEF OnError, Paid
<1>3. ASSUME NEW r \in Renders, OnSuccess(r) PROVE OneByOne'
  BY <1>3, OnePayment DEF OnSuccess, Paid
<1>4. ASSUME UNCHANGED vars PROVE OneByOne'
  BY <1>4, OneCallStays DEF vars, OneByOne, LastUnpaid, OneController
<1> QED
  BY <1>1, <1>2, <1>3, <1>4, OneInitialize, OneInitialized, OneRender, OneRendered, OneRejected,
     OneRemoves, OneForgets, Steps, Zenon

\* For a patient JavaScript, on whatever thread the callback is, one call is
\* under way and one flow unpaid at a time, the last rendered.
THEOREM PatientIsOneByOne == Spec => []PatientOneByOne
<1>1. Init => PatientOneByOne
  BY DEF Init, PatientOneByOne, OneByOne, OneCall, NewestSession, LastUnpaid, OneController,
         NewPayment, Initializing, Rendering, Rendered
<1> QED
  BY <1>1, PatientStep, RendersInOrder, TypeCorrect, PTL DEF Spec, Newest
-----------------------------------------------------------------------------
\* The safety half of PaidLeaves, and what is left of it off the main thread:
\* a controller whose flow was paid has its own success callback to come, or
\* the module has already forgotten it, or remembers a later one in its place;
\* this cannot be on the main thread, where the callback leaves nothing there.
PaidIsTakenAway ==
    patient => \A r \in controllers :
        pay[renderOf[r]] = "paid" =>
            /\ r \in succeeding \/ (~callbackOnMain /\ r # flowHostingController)
            /\ callbackOnMain => WithoutRemembered = {}

\* For a patient JavaScript a flow that was paid is left on the screen without
\* the callback that removes it only if that callback is off the main thread
\* and the flow is not the one the module remembers.
THEOREM PaidFlowsAreTakenAway == Spec => []PaidIsTakenAway
<1>1. PatientOneByOne => PaidIsTakenAway
  BY DEF PatientOneByOne, OneByOne, LastUnpaid, OneController, Paid, PaidIsTakenAway,
         WithoutRemembered
<1> QED
  BY <1>1, PatientIsOneByOne, PTL
-----------------------------------------------------------------------------
\* A patient JavaScript sees the session of the last controller, if that is on
\* the screen.
IsLast(r) == r \in controllers /\ \A q \in Rendered : q <= r

LEMMA ShownIs ==
    ASSUME TypeOK, InOrder, patient
    PROVE  /\ (\A r \in controllers : ~IsLast(r)) => Shown = None
           /\ \A r : IsLast(r) => Shown = renderOf[r] /\ Shown \in Flows /\ Shown # None
<1>1. ASSUME \A r \in controllers : ~IsLast(r) PROVE Shown = None
  BY <1>1 DEF Shown, LastShown, IsLast
<1>2. ASSUME NEW r, IsLast(r) PROVE Shown = renderOf[r] /\ Shown \in Flows /\ Shown # None
  <2>1. \A q \in controllers : q \in Rendered /\ q \in Nat /\ q \in Renders
    BY RendersAssumption DEF InOrder, Rendered
  <2>2. \A q \in LastShown : q = r
    <3> SUFFICES ASSUME NEW q \in LastShown
                 PROVE  q = r
      OBVIOUS
    <3>1. q \in Nat /\ r \in Nat /\ q <= r /\ r <= q
      BY <1>2, <2>1 DEF LastShown, IsLast
    <3> QED
      BY <3>1
  <2>3. LastShown = {r}
    BY <1>2, <2>2 DEF LastShown, IsLast
  <2>4. Shown = renderOf[r]
    BY <2>3 DEF Shown
  <2>5. renderOf[r] \in Flows
    BY <1>2, <2>1 DEF IsLast, InOrder, Rendered, TypeOK
  <2> QED
    BY <2>4, <2>5, FlowsAssumption
<1> QED
  BY <1>1, <1>2

LEMMA SessionStep ==
    TypeOK /\ InOrder /\ PatientOneByOne /\ [Next]_vars /\ TypeOK' /\ InOrder'
        => [Session!Next]_<<Shown, PayOfPatient, callbackOnMain>>
<1> SUFFICES ASSUME TypeOK, InOrder, PatientOneByOne, [Next]_vars, TypeOK', InOrder'
             PROVE  [Session!Next]_<<Shown, PayOfPatient, callbackOnMain>>
  OBVIOUS
<1> DEFINE Goal == [Session!Next]_<<Shown, PayOfPatient, callbackOnMain>>
<1>0. patient' = patient /\ callbackOnMain' = callbackOnMain
  BY RigidStep
<1>1. CASE ~patient
  BY <1>0, <1>1, Zenon DEF Shown, PayOfPatient
<1>2. CASE patient
  <2>0. OneByOne /\ PayOfPatient = pay /\ PayOfPatient' = pay'
    BY <1>0, <1>2 DEF PatientOneByOne, PayOfPatient
  <2>1. /\ (\A r \in controllers : ~IsLast(r)) => Shown = None
        /\ \A r : IsLast(r) => Shown = renderOf[r] /\ Shown \in Flows /\ Shown # None
    BY <1>2, ShownIs
  <2>2. /\ (\A r \in controllers' : ~IsLast(r)') => Shown' = None
        /\ \A r : IsLast(r)' => Shown' = renderOf'[r] /\ Shown' \in Flows /\ Shown' # None
    <3>1. (TypeOK /\ InOrder /\ patient =>
              /\ (\A r \in controllers : ~IsLast(r)) => Shown = None
              /\ \A r : IsLast(r) => Shown = renderOf[r] /\ Shown \in Flows /\ Shown # None)'
      BY ShownIs, PTL
    <3> QED
      BY <3>1, <1>0, <1>2
  <2>3. ASSUME \A r : IsLast(r)' <=> IsLast(r), UNCHANGED pay,
               \A r \in controllers : renderOf'[r] = renderOf[r]
        PROVE  Goal
    <3>1. CASE \E r \in controllers : IsLast(r)
      BY <3>1, <2>0, <2>1, <2>2, <2>3, <1>0
    <3>2. CASE \A r \in controllers : ~IsLast(r)
      <4>1. \A r \in controllers' : ~IsLast(r)'
        BY <3>2, <2>3 DEF IsLast
      <4> QED
        BY <3>2, <4>1, <2>0, <2>1, <2>2, <2>3, <1>0
    <3> QED
      BY <3>1, <3>2
  <2>4. ASSUME UNCHANGED <<controllers, pay>>, Rendered' = Rendered,
               \A r \in controllers : renderOf'[r] = renderOf[r]
        PROVE  Goal
    <3>1. \A r : IsLast(r)' <=> IsLast(r)
      BY <2>4 DEF IsLast
    <3> QED
      BY <3>1, <2>3, <2>4
  <2>5. ASSUME NEW s \in Flows, Initialize(s) PROVE Goal
    BY <2>4, <2>5 DEF Initialize, Rendered
  <2>6. ASSUME NEW s \in Flows, InitializeSucceeds(s) PROVE Goal
    BY <2>4, <2>6 DEF InitializeSucceeds, Rendered
  <2>7. ASSUME NEW s \in Flows, InitializeFails(s) PROVE Goal
    BY <2>4, <2>7 DEF InitializeFails, Rendered
  <2>8. ASSUME NEW r \in Renders, RenderFlow(r) PROVE Goal
    <3>1. /\ render[r] = "idle"
          /\ \E to \in {"sent", "rejected"} : render' = [render EXCEPT ![r] = to]
          /\ renderOf' = [renderOf EXCEPT ![r] = checkoutComponents]
          /\ UNCHANGED <<controllers, pay>>
      BY <2>8 DEF RenderFlow
    <3>2. \A q \in controllers : q # r /\ q \in Renders
      BY <3>1 DEF InOrder, Rendered
    <3>3. \A q \in controllers : renderOf'[q] = renderOf[q]
      BY <3>1, <3>2 DEF TypeOK
    <3>4. Rendered' = Rendered
      BY <3>1 DEF Rendered, TypeOK
    <3> QED
      BY <3>1, <3>3, <3>4, <2>4
  <2>9. ASSUME NEW r \in Renders, RenderSucceeds(r) PROVE Goal
    <3>1. /\ pay[renderOf[r]] = "none"
          /\ \A q \in Rendered : q < r /\ Paid(q)
          /\ callbackOnMain => controllers = {}
      BY <2>0, <2>9, CleanRender DEF RenderSucceeds
    <3>2. /\ render' = [render EXCEPT ![r] = "resolved"] /\ render[r] = "sent"
          /\ controllers' = controllers \cup {r}
          /\ UNCHANGED <<renderOf, pay>>
      BY <2>9 DEF RenderSucceeds, NextOnMain
    <3>3. Rendered' = Rendered \cup {r}
      BY <3>2 DEF Rendered, TypeOK
    <3>4. IsLast(r)'
      <4>1. \A q \in Rendered : q \in Nat /\ r \in Nat /\ q < r
        BY <3>1, RendersAssumption DEF Rendered
      <4>2. r <= r
        BY RendersAssumption
      <4> QED
        BY <3>2, <3>3, <4>1, <4>2 DEF IsLast
    <3>5. Shown' = renderOf[r] /\ renderOf[r] \in Flows
      BY <3>2, <3>4, <2>2
    <3>6. Shown = None \/ (~callbackOnMain /\ pay[Shown] = "paid")
      <4>1. CASE \A q \in controllers : ~IsLast(q)
        BY <4>1, <2>1
      <4>2. ASSUME NEW q \in controllers, IsLast(q) PROVE ~callbackOnMain /\ pay[Shown] = "paid"
        BY <4>2, <3>1, <2>1 DEF InOrder, Paid
      <4> QED
        BY <4>1, <4>2
    <3>7. Session!Open(renderOf[r])
      BY <3>1, <3>2, <3>5, <3>6, <2>0, <1>0 DEF Session!Open
    <3> QED
      BY <3>5, <3>7 DEF Session!Next
  <2>10. ASSUME NEW r \in Renders, RenderFails(r) PROVE Goal
    <3>1. Rendered' = Rendered
      BY <2>10 DEF RenderFails, NextOnMain, Rendered, TypeOK
    <3> QED
      BY <3>1, <2>4, <2>10 DEF RenderFails
  <2>11. ASSUME NEW r \in controllers, ~Paid(r), UNCHANGED <<controllers, render, renderOf>>
         PROVE  Shown = renderOf[r] /\ Shown' = renderOf[r] /\ Shown # None
    <3>1. \A q \in Rendered : q # r => q < r
      BY <2>0, <2>11, UnpaidIsLast
    <3>2. r \in Nat /\ \A q \in Rendered : q \in Nat
      BY <2>11, RendersAssumption DEF InOrder, Rendered
    <3>3. IsLast(r)
      BY <2>11, <3>1, <3>2 DEF IsLast
    <3>4. IsLast(r)'
      BY <3>3, <2>11 DEF IsLast, Rendered
    <3> QED
      BY <3>3, <3>4, <2>1, <2>2, <2>11
  <2>12. ASSUME NEW r \in Renders, PressPay(r) PROVE Goal
    <3>1. r \in controllers /\ pay[renderOf[r]] = "none"
          /\ pay' = [pay EXCEPT ![renderOf[r]] = "asked"]
          /\ UNCHANGED <<controllers, render, renderOf>>
      BY <2>12 DEF PressPay
    <3>2. Shown = renderOf[r] /\ Shown' = renderOf[r] /\ Shown # None
      BY <3>1, <2>11 DEF Paid
    <3>3. Session!Ask
      BY <3>1, <3>2, <2>0, <1>0 DEF Session!Ask
    <3> QED
      BY <3>3 DEF Session!Next
  <2>13. ASSUME NEW r \in Renders, OnError(r) PROVE Goal
    <3>1. r \in controllers /\ pay[renderOf[r]] = "asked"
          /\ pay' = [pay EXCEPT ![renderOf[r]] = "none"]
          /\ UNCHANGED <<controllers, render, renderOf>>
      BY <2>13 DEF OnError
    <3>2. Shown = renderOf[r] /\ Shown' = renderOf[r] /\ Shown # None
      BY <3>1, <2>11 DEF Paid
    <3>3. Session!Answer(FALSE)
      BY <3>1, <3>2, <2>0, <1>0 DEF Session!Answer
    <3> QED
      BY <3>3 DEF Session!Next
  <2>14. ASSUME NEW r \in Renders, OnSuccess(r) PROVE Goal
    <3>1. r \in controllers /\ pay[renderOf[r]] = "asked"
          /\ pay' = [pay EXCEPT ![renderOf[r]] = "paid"]
          /\ UNCHANGED <<controllers, render, renderOf>>
      BY <2>14 DEF OnSuccess
    <3>2. Shown = renderOf[r] /\ Shown' = renderOf[r] /\ Shown # None
      BY <3>1, <2>11 DEF Paid
    <3>3. Session!Answer(TRUE)
      BY <3>1, <3>2, <2>0, <1>0 DEF Session!Answer
    <3> QED
      BY <3>3 DEF Session!Next
  <2>15. ASSUME NEW r \in Renders, RemoveRemembered(r) PROVE Goal
    <3>1. /\ r \in succeeding
          /\ controllers' = controllers \ {flowHostingController}
          /\ UNCHANGED <<render, renderOf, pay>>
      BY <2>15 DEF RemoveRemembered, WithoutRemembered
    <3>2. Rendered' = Rendered
      BY <3>1 DEF Rendered
    <3>3. CASE ~IsLast(flowHostingController)
      <4>1. \A q : IsLast(q)' <=> IsLast(q)
        BY <3>1, <3>2, <3>3 DEF IsLast
      <4> QED
        BY <3>1, <4>1, <2>3
    <3>4. CASE IsLast(flowHostingController)
      <4>1. \A q \in controllers' : ~IsLast(q)'
        <5> SUFFICES ASSUME NEW q \in controllers', IsLast(q)'
                     PROVE  FALSE
          OBVIOUS
        <5>1. q \in controllers /\ IsLast(q) /\ q # flowHostingController
          BY <3>1, <3>2 DEF IsLast
        <5>2. q \in Nat /\ flowHostingController \in Nat
          BY <5>1, <3>4, RendersAssumption DEF IsLast, InOrder, Rendered
        <5>3. q <= flowHostingController /\ flowHostingController <= q
          BY <5>1, <3>4 DEF IsLast, InOrder
        <5> QED
          BY <5>1, <5>2, <5>3
      <4>2. Shown # None /\ Shown' = None /\ Shown = renderOf[flowHostingController]
        BY <3>4, <4>1, <2>1, <2>2
      <4>3. r \in Rendered /\ Paid(r)
        BY <3>1, <2>0 DEF OneByOne, LastUnpaid
      <4>4. renderOf[r] \in Flows /\ pay[renderOf[r]] = "paid"
        BY <4>3 DEF InOrder, Rendered, Paid, TypeOK
      <4>5. callbackOnMain => pay[Shown] = "paid"
        BY <3>1, <4>2, <4>4, <2>0 DEF OneByOne, OneController
      <4>6. Session!Close
        BY <3>1, <4>2, <4>4, <4>5, <2>0, <1>0 DEF Session!Close
      <4> QED
        BY <4>6 DEF Session!Next
    <3> QED
      BY <3>3, <3>4
  <2>16. ASSUME NEW r \in Renders, ForgetRemembered(r) PROVE Goal
    BY <2>4, <2>16 DEF ForgetRemembered, Rendered
  <2>17. ASSUME UNCHANGED vars PROVE Goal
    BY <2>4, <2>17 DEF vars, Rendered
  <2> HIDE DEF Goal
  <2>18. Goal
    BY <2>5, <2>6, <2>7, <2>8, <2>9, <2>10, <2>12, <2>13, <2>14, <2>15, <2>16, <2>17, Steps, Zenon
  <2> QED
    BY <2>18 DEF Goal
<1> QED
  BY <1>1, <1>2

\* For a patient JavaScript CheckoutFlowManager implements the one flow at a
\* time that App.tsx counts on, for any number of sessions and renders:
\* promptly if the SDK calls back on the main thread, and otherwise with the
\* next flow opened over a paid one, and perhaps taken away in its place.
THEOREM ImplementsFlowSession == Spec => OneFlowAtATime
<1>1. Init => Session!Init
  BY DEF Init, Session!Init, Shown, LastShown, PayOfPatient
<1>2. Session!vars = <<Shown, PayOfPatient, callbackOnMain>>
  BY DEF Session!vars
<1> QED
  BY <1>1, <1>2, SessionStep, PatientIsOneByOne, RendersInOrder, TypeCorrect, PTL
     DEF Spec, OneFlowAtATime, Session!Spec, Session!vars, Newest
=============================================================================
