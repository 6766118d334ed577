--------------------------- MODULE AppFlow_proofs ---------------------------
(***************************************************************************)
(* Theorems about AppFlow, for any number of starts, Pay presses and       *)
(* payments.                                                               *)
(***************************************************************************)
EXTENDS AppFlow, TLAPS

USE DEF Statuses, StartEnabled, StatusAfterStart, ShowingAfterStart, SubmittingAfter,
        StatusAfterSubmit, ErrorAfterSubmit, ShowingAfterSubmit, PayEnabled, isSessionReady

\* The steps one by one: what holds after each of them holds after Next.
LEMMA Steps ==
    ASSUME NEW P, [Next]_vars,
           DismissAnyPresentedViewController => P,
           \A s \in Starts : PressStart(s) \/ SessionArrives(s) \/ StartFails(s) => P,
           Close \/ HandleTokenized \/ FlowPaymentSuccess \/ FlowPaymentError => P,
           \A c \in Calls : PressPay(c) => P,
           \A c \in Calls, ok \in BOOLEAN : PaySettles(c, ok) => P,
           \A p \in Payments : HandleSubmit(p) => P,
           \A p \in Payments, outcome \in Outcomes : SubmitAnswered(p, outcome) => P,
           UNCHANGED vars => P
    PROVE  P
BY Zenon DEF Next, Handler, Quiet, FormEvent

LEMMA RigidStep == [Next]_vars => UNCHANGED ios
BY DEF Next, vars

\* What a step does to the sheet on the screen.
LEMMA ModalStep ==
    [Next]_vars => ModalFollows \/ DismissAnyPresentedViewController \/ UNCHANGED vars
BY Zenon DEF Next

\* Which starts it disturbs.
LEMMA DisturbedStep ==
    [Next]_vars =>
       \/ Quiet /\ UNCHANGED disturbed
       \/ FormEvent /\ disturbed' = disturbed \cup Fetching
       \/ \E s \in Starts :
             (SessionArrives(s) \/ StartFails(s)) /\ disturbed' = disturbed \cup (Fetching \ {s})
       \/ DismissAnyPresentedViewController
       \/ UNCHANGED vars
BY Zenon DEF Next, Handler

LEMMA TypeInit == Init => TypeOK
<1> SUFFICES ASSUME Init PROVE TypeOK
  OBVIOUS
<1>1. status \in Statuses /\ paymentSession \in Starts \cup {None}
  BY DEF Init
<1>2. /\ error \in BOOLEAN
      /\ showingFlow \in BOOLEAN
      /\ presented \in BOOLEAN
      /\ isSubmittingFromJs \in BOOLEAN
  BY DEF Init
<1>3. /\ start \in [Starts -> {"idle", "fetching", "answered", "failed"}]
      /\ call \in [Calls -> {"idle", "sent", "settled"}]
      /\ callSession \in [Calls -> Starts \cup {None}]
      /\ payment \in [Payments -> {"none", "posting", "done"}]
  BY DEF Init
<1>4. disturbed \subseteq Starts /\ ios \in BOOLEAN
  BY DEF Init
<1> QED BY <1>1, <1>2, <1>3, <1>4 DEF TypeOK

LEMMA TypeStep == TypeOK /\ [Next]_vars => TypeOK'
<1> SUFFICES ASSUME TypeOK, [Next]_vars, UNCHANGED ios PROVE TypeOK'
  BY RigidStep
<1> DEFINE Rest == /\ status \in Statuses
                   /\ error \in BOOLEAN
                   /\ showingFlow \in BOOLEAN
                   /\ isSubmittingFromJs \in BOOLEAN
                   /\ paymentSession \in Starts \cup {None}
                   /\ start \in [Starts -> {"idle", "fetching", "answered", "failed"}]
                   /\ call \in [Calls -> {"idle", "sent", "settled"}]
                   /\ callSession \in [Calls -> Starts \cup {None}]
                   /\ payment \in [Payments -> {"none", "posting", "done"}]
<1>1. \A s \in Starts : PressStart(s) \/ SessionArrives(s) \/ StartFails(s) => Rest'
  BY DEF PressStart, SessionArrives, StartFails, TypeOK
<1>2. Close \/ HandleTokenized \/ FlowPaymentSuccess \/ FlowPaymentError => Rest'
  BY DEF Close, HandleTokenized, FlowPaymentSuccess, FlowPaymentError, TypeOK
<1>3. \A c \in Calls : PressPay(c) => Rest'
  BY DEF PressPay, TypeOK
<1>4. \A c \in Calls, ok \in BOOLEAN : PaySettles(c, ok) => Rest'
  BY DEF PaySettles, TypeOK
<1>5. \A p \in Payments : HandleSubmit(p) => Rest'
  BY DEF HandleSubmit, TypeOK
<1>6. \A p \in Payments, outcome \in Outcomes : SubmitAnswered(p, outcome) => Rest'
  BY DEF SubmitAnswered, TypeOK, Outcomes
<1>7. UNCHANGED vars => Rest'
  BY DEF vars, screen, TypeOK
<1>8. DismissAnyPresentedViewController => Rest'
  BY DEF DismissAnyPresentedViewController, screen, TypeOK
<1>9. Rest'
  <2> HIDE DEF Rest
  <2> QED BY <1>1, <1>2, <1>3, <1>4, <1>5, <1>6, <1>7, <1>8, Steps
<1>10. presented' \in BOOLEAN
  BY <1>9, ModalStep DEF ModalFollows, DismissAnyPresentedViewController, vars, TypeOK
<1>11. disturbed' \subseteq Starts
  BY DisturbedStep DEF Fetching, DismissAnyPresentedViewController, vars, TypeOK
<1> QED BY <1>9, <1>10, <1>11 DEF TypeOK
-----------------------------------------------------------------------------
(***************************************************************************)
(* What the screen shows: status, error and sheet against the session and  *)
(* the requests under way.                                                 *)
(***************************************************************************)
Screen == SuccessIsClean /\ StartIsNotStuck /\ SheetHasForm /\ SessionFirst

LEMMA ScreenStep == TypeOK /\ Screen /\ [Next]_vars => Screen'
<1> SUFFICES ASSUME TypeOK, Screen, [Next]_vars PROVE Screen'
  OBVIOUS
<1> USE DEF Screen, SuccessIsClean, StartIsNotStuck, SheetHasForm, SessionFirst, Fetching,
            PaidFor, TypeOK
<1>1. \A s \in Starts : PressStart(s) \/ SessionArrives(s) \/ StartFails(s) => Screen'
  <2> SUFFICES ASSUME NEW s \in Starts, PressStart(s) \/ SessionArrives(s) \/ StartFails(s)
               PROVE  Screen'
    OBVIOUS
  <2>1. CASE PressStart(s)
    BY <2>1 DEF PressStart
  <2>2. CASE SessionArrives(s)
    BY <2>2, StartsAssumption DEF SessionArrives
  <2>3. CASE StartFails(s)
    BY <2>3 DEF StartFails
  <2> QED BY <2>1, <2>2, <2>3
<1>2. Close \/ HandleTokenized \/ FlowPaymentSuccess \/ FlowPaymentError => Screen'
  <2>1. Close => Screen'
    <3> SUFFICES ASSUME Close PROVE Screen'
      OBVIOUS
    <3>1. UNCHANGED <<status, error, paymentSession, start, call, payment>>
      BY DEF Close
    <3>2. ~showingFlow'
      BY DEF Close
    <3> QED BY <3>1, <3>2
  <2>2. HandleTokenized => Screen'
    BY DEF HandleTokenized
  <2>3. FlowPaymentSuccess => Screen'
    BY DEF FlowPaymentSuccess
  <2>4. FlowPaymentError => Screen'
    BY DEF FlowPaymentError
  <2> QED BY <2>1, <2>2, <2>3, <2>4
<1>3. \A c \in Calls : PressPay(c) => Screen'
  BY DEF PressPay
<1>4. \A c \in Calls, ok \in BOOLEAN : PaySettles(c, ok) => Screen'
  <2> SUFFICES ASSUME NEW c \in Calls, NEW ok \in BOOLEAN, PaySettles(c, ok) PROVE Screen'
    OBVIOUS
  <2>1. UNCHANGED <<showingFlow, paymentSession, start, payment>>
    BY DEF PaySettles
  <2>2. StartIsNotStuck' /\ SuccessIsClean'
    <3>1. CASE ok
      <4>1. status' = status /\ ~error'
        BY <3>1 DEF PaySettles
      <4> QED BY <2>1, <4>1
    <3>2. CASE ~ok
      BY <3>2 DEF PaySettles
    <3> QED BY <3>1, <3>2
  <2>3. PaidFor' => PaidFor
    BY DEF PaySettles
  <2>4. SessionFirst'
    BY <2>1, <2>3
  <2> QED BY <2>1, <2>2, <2>4
<1>5. \A p \in Payments : HandleSubmit(p) => Screen'
  BY DEF HandleSubmit
<1>6. \A p \in Payments, outcome \in Outcomes : SubmitAnswered(p, outcome) => Screen'
  <2> SUFFICES ASSUME NEW p \in Payments, NEW outcome \in Outcomes, SubmitAnswered(p, outcome)
               PROVE  Screen'
    OBVIOUS
  <2>1. UNCHANGED <<paymentSession, start, call>>
    BY DEF SubmitAnswered
  <2>2. StartIsNotStuck' /\ SuccessIsClean'
    BY DEF SubmitAnswered, Outcomes
  <2>3. isSessionReady
    BY DEF SubmitAnswered
  <2> QED BY <2>1, <2>2, <2>3
<1>7. UNCHANGED vars => Screen'
  <2> SUFFICES ASSUME UNCHANGED vars PROVE Screen'
    OBVIOUS
  <2>1. UNCHANGED <<status, error, showingFlow, paymentSession, start, call, payment>>
    BY DEF vars, screen
  <2> QED BY <2>1
<1>8. DismissAnyPresentedViewController => Screen'
  <2> SUFFICES ASSUME DismissAnyPresentedViewController PROVE Screen'
    OBVIOUS
  <2>1. UNCHANGED <<status, error, showingFlow, paymentSession, start, call, payment>>
    BY DEF DismissAnyPresentedViewController, screen
  <2> QED BY <2>1
<1> QED BY <1>1, <1>2, <1>3, <1>4, <1>5, <1>6, <1>7, <1>8, Steps

LEMMA PresentedStep == TypeOK /\ PresentedIsWanted /\ [Next]_vars => PresentedIsWanted'
<1> SUFFICES ASSUME TypeOK, PresentedIsWanted, [Next]_vars PROVE PresentedIsWanted'
  OBVIOUS
<1>1. CASE ModalFollows
  BY <1>1 DEF ModalFollows, PresentedIsWanted, TypeOK
<1>2. CASE DismissAnyPresentedViewController
  BY <1>2 DEF DismissAnyPresentedViewController, PresentedIsWanted
<1>3. CASE UNCHANGED vars
  BY <1>3 DEF vars, screen, PresentedIsWanted
<1> QED BY <1>1, <1>2, <1>3, ModalStep

(***************************************************************************)
(* The Pay button against the promises of the native submit.               *)
(***************************************************************************)
Paying == PayLocked /\ OneCall

LEMMA PayingStep == TypeOK /\ Paying /\ [Next]_vars => Paying'
<1> SUFFICES ASSUME TypeOK, Paying, [Next]_vars PROVE Paying'
  OBVIOUS
<1>0. UNCHANGED <<isSubmittingFromJs, call>> => Paying'
  BY DEF Paying, PayLocked, OneCall
<1>1. \A s \in Starts : PressStart(s) \/ SessionArrives(s) \/ StartFails(s) => Paying'
  BY <1>0 DEF PressStart, SessionArrives, StartFails
<1>2. Close \/ HandleTokenized \/ FlowPaymentSuccess \/ FlowPaymentError => Paying'
  BY <1>0 DEF Close, HandleTokenized, FlowPaymentSuccess, FlowPaymentError
<1>3. \A c \in Calls : PressPay(c) => Paying'
  <2> SUFFICES ASSUME NEW c \in Calls, PressPay(c) PROVE Paying'
    OBVIOUS
  <2>1. \A d \in Calls : call[d] # "sent"
    BY DEF PressPay, Paying, PayLocked
  <2>2. call'[c] = "sent" /\ \A d \in Calls \ {c} : call'[d] # "sent"
    BY <2>1 DEF PressPay, TypeOK
  <2>3. isSubmittingFromJs' = TRUE
    BY DEF PressPay
  <2> QED BY <2>2, <2>3 DEF Paying, PayLocked, OneCall
<1>4. \A c \in Calls, ok \in BOOLEAN : PaySettles(c, ok) => Paying'
  BY DEF PaySettles, Paying, PayLocked, OneCall, TypeOK
<1>5. \A p \in Payments : HandleSubmit(p) => Paying'
  BY <1>0 DEF HandleSubmit
<1>6. \A p \in Payments, outcome \in Outcomes : SubmitAnswered(p, outcome) => Paying'
  BY <1>0 DEF SubmitAnswered
<1>7. UNCHANGED vars => Paying'
  BY <1>0 DEF vars, screen
<1>8. DismissAnyPresentedViewController => Paying'
  BY <1>0 DEF screen, DismissAnyPresentedViewController
<1> QED BY <1>1, <1>2, <1>3, <1>4, <1>5, <1>6, <1>7, <1>8, Steps

(***************************************************************************)
(* The order of the starts, and those that nothing disturbs.               *)
(***************************************************************************)
LEMMA InOrderStep == TypeOK /\ InOrder /\ [Next]_vars => InOrder'
<1> SUFFICES ASSUME TypeOK, InOrder, [Next]_vars PROVE InOrder'
  OBVIOUS
<1>0. UNCHANGED start => InOrder'
  BY DEF InOrder
<1>1. \A s \in Starts : PressStart(s) \/ SessionArrives(s) \/ StartFails(s) => InOrder'
  <2> SUFFICES ASSUME NEW s \in Starts, PressStart(s) \/ SessionArrives(s) \/ StartFails(s)
               PROVE  InOrder'
    OBVIOUS
  <2>1. /\ \A t \in Starts \ {s} : start'[t] = start[t]
        /\ start'[s] # "idle"
    BY DEF PressStart, SessionArrives, StartFails, TypeOK
  <2>2. start[s] = "idle" => \A t \in Starts : t < s => start[t] # "idle"
    BY DEF PressStart, SessionArrives, StartFails
  <2> SUFFICES ASSUME NEW u \in Starts, NEW t \in Starts, u < t, start'[u] = "idle"
               PROVE  start'[t] = "idle"
    BY DEF InOrder
  <2>3. u # s /\ start[u] = "idle" /\ start[t] = "idle"
    BY <2>1 DEF InOrder
  <2>4. t # s
    BY <2>2, <2>3
  <2> QED BY <2>1, <2>3, <2>4
<1>2. Close \/ HandleTokenized \/ FlowPaymentSuccess \/ FlowPaymentError => InOrder'
  BY <1>0 DEF Close, HandleTokenized, FlowPaymentSuccess, FlowPaymentError
<1>3. \A c \in Calls : PressPay(c) => InOrder'
  BY <1>0 DEF PressPay
<1>4. \A c \in Calls, ok \in BOOLEAN : PaySettles(c, ok) => InOrder'
  BY <1>0 DEF PaySettles
<1>5. \A p \in Payments : HandleSubmit(p) => InOrder'
  BY <1>0 DEF HandleSubmit
<1>6. \A p \in Payments, outcome \in Outcomes : SubmitAnswered(p, outcome) => InOrder'
  BY <1>0 DEF SubmitAnswered
<1>7. UNCHANGED vars => InOrder'
  BY <1>0 DEF vars
<1>8. DismissAnyPresentedViewController => InOrder'
  BY <1>0 DEF DismissAnyPresentedViewController
<1> QED BY <1>1, <1>2, <1>3, <1>4, <1>5, <1>6, <1>7, <1>8, Steps

\* Nothing but a start wrote the status while an undisturbed one was under way,
\* so the button stayed disabled.
LEMMA AloneStep == TypeOK /\ Screen /\ InOrder /\ Alone /\ [Next]_vars => Alone'
<1> SUFFICES ASSUME TypeOK, Screen, InOrder, Alone, [Next]_vars PROVE Alone'
  OBVIOUS
<1>1. ASSUME UNCHANGED <<status, presented, paymentSession, start, disturbed>> PROVE Alone'
  BY <1>1 DEF Alone, Fetching
<1>2. CASE Quiet /\ UNCHANGED disturbed
  <2>1. CASE \E s \in Starts : PressStart(s)
    <3> PICK s \in Starts : PressStart(s)
      BY <2>1
    <3>1. /\ start[s] = "idle" /\ start'[s] = "fetching"
          /\ \A t \in Starts \ {s} : start'[t] = start[t]
          /\ status' = "Processing..." /\ status # "Processing..."
          /\ UNCHANGED <<paymentSession, showingFlow>> /\ ~presented
      BY DEF PressStart, TypeOK
    <3>2. ~presented'
      BY <3>1, ModalStep DEF ModalFollows, DismissAnyPresentedViewController, vars
    <3>3. Fetching \ disturbed = {}
      BY <3>1 DEF Alone
    <3>4. Fetching' \ disturbed' \subseteq {s}
      BY <1>2, <3>1, <3>3 DEF Fetching
    <3>5. \A t \in Starts : t > s => start'[t] = "idle"
      <4> SUFFICES ASSUME NEW t \in Starts, t > s PROVE start'[t] = "idle"
        OBVIOUS
      <4>1. s < t /\ t # s
        BY StartsAssumption
      <4> QED BY <3>1, <4>1 DEF InOrder
    <3> QED BY <1>2, <3>1, <3>2, <3>4, <3>5 DEF Alone
  <2>2. CASE Close
    <3>1. Fetching \ disturbed = {}
      BY <2>2 DEF Close, Alone
    <3> QED BY <1>2, <2>2, <3>1 DEF Close, Alone, Fetching
  <2>3. CASE \E c \in Calls : PaySettles(c, TRUE)
    <3>1. UNCHANGED <<status, showingFlow, paymentSession, start>>
      BY <2>3 DEF PaySettles
    <3>2. presented' => presented
      BY <3>1, ModalStep DEF ModalFollows, DismissAnyPresentedViewController, vars
    <3> QED BY <1>2, <3>1, <3>2 DEF Alone, Fetching
  <2> QED BY <1>2, <2>1, <2>2, <2>3 DEF Quiet
<1>3. CASE FormEvent /\ disturbed' = disturbed \cup Fetching
  <2>1. UNCHANGED <<start, paymentSession>>
    BY <1>3 DEF FormEvent, PressPay, PaySettles, HandleTokenized, HandleSubmit, SubmitAnswered,
       FlowPaymentSuccess, FlowPaymentError
  <2>2. isSessionReady
    <3>1. FormEvent => PaidFor \/ (\E p \in Payments : payment[p] # "none") \/ isSessionReady
      BY DEF FormEvent, PressPay, PaySettles, HandleTokenized, HandleSubmit, SubmitAnswered,
         FlowPaymentSuccess, FlowPaymentError, PaidFor
    <3> QED BY <1>3, <3>1 DEF Screen, SessionFirst
  <2> QED BY <1>3, <2>1, <2>2 DEF Alone, Fetching
<1>4. CASE \E s \in Starts :
              (SessionArrives(s) \/ StartFails(s)) /\ disturbed' = disturbed \cup (Fetching \ {s})
  <2> PICK s \in Starts :
         (SessionArrives(s) \/ StartFails(s)) /\ disturbed' = disturbed \cup (Fetching \ {s})
    BY <1>4
  <2>1. /\ s \in Fetching /\ start'[s] # "fetching"
        /\ \A t \in Starts \ {s} : start'[t] = start[t]
    BY DEF SessionArrives, StartFails, Fetching, TypeOK
  <2>2. Fetching' \ disturbed' = {}
    BY <2>1 DEF Fetching
  <2>3. CASE SessionArrives(s)
    BY <2>2, <2>3, StartsAssumption DEF SessionArrives, Alone
  <2>4. CASE StartFails(s)
    <3>1. ASSUME NEW t \in Fetching, t # s PROVE isSessionReady
      <4>1. start[s] = "fetching" /\ start[t] = "fetching" /\ t \in Starts
        BY <2>1, <3>1 DEF Fetching
      <4>2. t > s \/ s > t
        BY <3>1, <4>1, StartsAssumption
      <4>3. s \in disturbed \/ t \in disturbed
        BY <2>1, <4>1, <4>2 DEF Alone
      <4> QED BY <4>3 DEF Alone
    <3>2. disturbed' # {} => isSessionReady
      BY <3>1 DEF Alone
    <3> QED BY <2>2, <2>4, <3>2 DEF StartFails, Alone
  <2> QED BY <2>3, <2>4
<1>5. CASE DismissAnyPresentedViewController
  BY <1>5 DEF DismissAnyPresentedViewController, screen, Alone, Fetching
<1>6. CASE UNCHANGED vars
  BY <1>1, <1>6 DEF vars, screen
<1> QED BY <1>2, <1>3, <1>4, <1>5, <1>6, DisturbedStep
-----------------------------------------------------------------------------
\* The inductive invariant of the screen.
THEOREM Invariance == Spec => []IInv
<1>1. Init => IInv
  BY TypeInit, StartsAssumption DEF Init, IInv, SuccessIsClean, StartIsNotStuck, SheetHasForm,
     PresentedIsWanted, SessionFirst, PaidFor, PayLocked, OneCall, InOrder, Alone, Fetching
<1>2. IInv /\ [Next]_vars => IInv'
  BY TypeStep, ScreenStep, PresentedStep, PayingStep, InOrderStep, AloneStep
  DEF IInv, Screen, Paying
<1> QED BY <1>1, <1>2, PTL DEF Spec

\* Every variable of the screen keeps its type.
THEOREM TypeCorrect == Spec => []TypeOK
<1>1. IInv => TypeOK
  BY DEF IInv
<1> QED BY <1>1, Invariance, PTL

\* No success is reported under an error message, or with the sheet wanted.
THEOREM NoErrorOnSuccess == Spec => []SuccessIsClean
<1>1. IInv => SuccessIsClean
  BY DEF IInv
<1> QED BY <1>1, Invariance, PTL

\* "Start Card Payment" is disabled only while a request is under way.
THEOREM StartComesBack == Spec => []StartIsNotStuck
<1>1. IInv => StartIsNotStuck
  BY DEF IInv
<1> QED BY <1>1, Invariance, PTL

\* The branch "Preparing card form..." of an open sheet is never shown.
THEOREM OpenSheetHasForm == Spec => []SheetHasForm
<1>1. IInv => SheetHasForm
  BY DEF IInv
<1> QED BY <1>1, Invariance, PTL

\* Pay is disabled exactly while the promise of its call is out.
THEOREM PayIsLocked == Spec => []PayLocked
<1>1. IInv => PayLocked
  BY DEF IInv
<1> QED BY <1>1, Invariance, PTL

\* Two starts are under way at once only where a form of an earlier session, or
\* a start they both overlapped, wrote the status under the older one.
THEOREM StartsDoNotOverlap == Spec => []OverlapIsDisturbed
<1>1. IInv => OverlapIsDisturbed
  <2> SUFFICES ASSUME IInv, NEW s \in Fetching, NEW t \in Fetching, s < t
               PROVE  isSessionReady /\ s \in disturbed
    BY DEF OverlapIsDisturbed
  <2>1. s \in Starts /\ t \in Starts /\ t > s /\ start[t] = "fetching"
    BY StartsAssumption DEF Fetching
  <2>2. s \in disturbed
    BY <2>1 DEF IInv, Alone
  <2> QED BY <2>2 DEF IInv, Alone
<1> QED BY <1>1, Invariance, PTL

\* The session that arrives is that of the last start pressed, and replaces no
\* form on the screen, unless its own request was disturbed.
THEOREM LastStartWins == Spec => FreshSession
<1>1. ASSUME IInv, [Next]_vars, paymentSession' # paymentSession
      PROVE  \/ isSessionReady /\ paymentSession' \in disturbed
             \/ ~presented /\ \A s \in Starts : start[s] # "idle" => s <= paymentSession'
  <2>1. PICK s \in Starts : SessionArrives(s)
    <3> DEFINE Arrival == \E s \in Starts : SessionArrives(s)
    <3>1. \A s \in Starts : PressStart(s) \/ SessionArrives(s) \/ StartFails(s) => Arrival
      BY <1>1 DEF PressStart, StartFails
    <3>2. /\ ~Close /\ ~HandleTokenized /\ ~FlowPaymentSuccess /\ ~FlowPaymentError
          /\ \A c \in Calls : ~PressPay(c)
          /\ \A c \in Calls, ok \in BOOLEAN : ~PaySettles(c, ok)
          /\ \A p \in Payments : ~HandleSubmit(p)
          /\ \A p \in Payments, outcome \in Outcomes : ~SubmitAnswered(p, outcome)
      BY <1>1 DEF Close, HandleTokenized, FlowPaymentSuccess, FlowPaymentError, PressPay,
         PaySettles, HandleSubmit, SubmitAnswered
    <3>3. ~DismissAnyPresentedViewController /\ ~UNCHANGED vars
      BY <1>1 DEF DismissAnyPresentedViewController, vars, screen
    <3> HIDE DEF Arrival
    <3>4. Arrival
      BY <1>1, <3>1, <3>2, <3>3, Steps
    <3> QED BY <3>4 DEF Arrival
  <2>2. paymentSession' = s /\ s \in Fetching
    BY <2>1 DEF SessionArrives, Fetching
  <2>3. CASE s \in disturbed
    BY <1>1, <2>2, <2>3 DEF IInv, Alone
  <2>4. CASE s \notin disturbed
    <3>1. ~presented /\ \A t \in Starts : t > s => start[t] = "idle"
      BY <1>1, <2>2, <2>4 DEF IInv, Alone
    <3> QED BY <2>2, <3>1, StartsAssumption
  <2> QED BY <2>3, <2>4
<1> QED BY <1>1, Invariance, PTL DEF Spec, FreshSession
-----------------------------------------------------------------------------
\* The screen implements Sheet, which is what the card bridges assume of it.
THEOREM UsesTheSheetAsAssumed == Spec => UsesTheSheet
<1> DEFINE shown == IF showingFlow /\ isSessionReady THEN paymentSession ELSE None
<1>1. Init => Form!Init
  BY DEF Init, Form!Init
<1>2. ASSUME IInv, IInv', [Next]_vars PROVE [Form!Next]_(Form!vars)
  <2>0. TypeOK /\ TypeOK' /\ PayLocked /\ SheetHasForm /\ PresentedIsWanted
    BY <1>2 DEF IInv
  <2>1. ASSUME UNCHANGED <<call, callSession>> PROVE [Form!Next]_(Form!vars)
    <3>1. shown' \in Starts \cup {None}
      BY <2>0 DEF TypeOK
    <3>2. CASE shown' = shown
      BY <2>1, <3>2 DEF Form!vars
    <3>3. CASE shown' # shown /\ shown' \in Starts
      BY <2>1, <3>3 DEF Form!Next, Form!Show
    <3>4. CASE shown' # shown /\ shown' = None
      BY <2>1, <3>4 DEF Form!Next, Form!Hide
    <3> QED BY <3>1, <3>2, <3>3, <3>4
  <2>2. \A s \in Starts : PressStart(s) \/ SessionArrives(s) \/ StartFails(s)
                             => [Form!Next]_(Form!vars)
    BY <2>1 DEF PressStart, SessionArrives, StartFails
  <2>3. Close \/ HandleTokenized \/ FlowPaymentSuccess \/ FlowPaymentError
           => [Form!Next]_(Form!vars)
    BY <2>1 DEF Close, HandleTokenized, FlowPaymentSuccess, FlowPaymentError
  <2>4. \A c \in Calls : PressPay(c) => [Form!Next]_(Form!vars)
    <3> SUFFICES ASSUME NEW c \in Calls, PressPay(c) PROVE Form!Press(c)
      BY DEF Form!Next
    <3>1. shown = paymentSession /\ shown # None /\ shown' = shown
      BY <2>0 DEF PressPay, PresentedIsWanted
    <3>2. \A d \in Calls : call[d] # "sent"
      BY <2>0 DEF PressPay, PayLocked
    <3> QED BY <3>1, <3>2 DEF PressPay, Form!Press
  <2>5. \A c \in Calls, ok \in BOOLEAN : PaySettles(c, ok) => [Form!Next]_(Form!vars)
    <3> SUFFICES ASSUME NEW c \in Calls, NEW ok \in BOOLEAN, PaySettles(c, ok)
                 PROVE  Form!Settle(c)
      BY DEF Form!Next
    <3>1. shown' = shown
      BY DEF PaySettles
    <3> QED BY <3>1 DEF PaySettles, Form!Settle
  <2>6. \A p \in Payments : HandleSubmit(p) => [Form!Next]_(Form!vars)
    BY <2>1 DEF HandleSubmit
  <2>7. \A p \in Payments, outcome \in Outcomes :
           SubmitAnswered(p, outcome) => [Form!Next]_(Form!vars)
    BY <2>1 DEF SubmitAnswered
  <2>8. UNCHANGED vars => [Form!Next]_(Form!vars)
    BY <2>1 DEF vars, screen
  <2>9. DismissAnyPresentedViewController => [Form!Next]_(Form!vars)
    BY <2>1 DEF DismissAnyPresentedViewController
  <2> QED BY <1>2, <2>2, <2>3, <2>4, <2>5, <2>6, <2>7, <2>8, <2>9, Steps
<1> QED BY <1>1, <1>2, Invariance, PTL DEF Spec, UsesTheSheet, Form!Spec
=============================================================================
