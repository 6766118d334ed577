-------------------------- MODULE FlowModule_proofs --------------------------
(***************************************************************************)
(* For any number of flows: the types of FlowModule, that a button never   *)
(* lands in an older container, and that for a patient JavaScript the      *)
(* module implements FlowSession.                                          *)
(***************************************************************************)
EXTENDS FlowModule, TLAPS

\* A step of the specification is one of its actions.
LEMMA Steps ==
    ASSUME NEW P, [Next]_vars,
           \A s \in Flows : StartPaymentSession(s) => P,
           DismissFlow => P, RunStart => P, RunDismiss => P,
           \A s \in Flows : AssignComponents(s) => P,
           \A s \in Flows : CreateButton(s) => P,
           \A s \in Flows : CreationFails(s) => P,
           \A s \in Flows, b \in BOOLEAN : AddView(s, b) => P,
           \A s \in Flows : PressGooglePay(s) => P,
           \A b \in BOOLEAN : HandleActivityResult(b) => P,
           UNCHANGED vars => P
    PROVE  P
BY Zenon DEF Next

\* Whether JavaScript is patient is decided once.
LEMMA PatientStep == [Next]_vars => UNCHANGED patient
BY Zenon DEF Next, vars
-----------------------------------------------------------------------------
States == {"idle", "posted", "creating", "assigned", "created", "attached", "unrendered", "failed"}

\* A flow moves on, or a task is posted: no other type is touched.
LEMMA StartMoves ==
    ASSUME TypeOK, NEW s \in Flows, NEW to \in States \ {"idle"},
           start' = [start EXCEPT ![s] = to], UNCHANGED dismissed
    PROVE  start' \in [Flows -> States] /\ dismissed' \subseteq Started'
BY DEF TypeOK, Started, States

LEMMA PostType ==
    ASSUME TypeOK, NEW task \in Task, uiQueue' = Append(uiQueue, task)
    PROVE  uiQueue' \in Seq(Task)
BY DEF TypeOK

LEMMA TakeType ==
    ASSUME TypeOK, uiQueue # <<>>
    PROVE  Tail(uiQueue) \in Seq(Task) /\ Head(uiQueue) \in Task
BY DEF TypeOK

LEMMA StartTask == ASSUME NEW t \in Task, t.op = "start" PROVE t.flow \in Flows
BY DEF Task

LEMMA TypeOKStep == TypeOK /\ [Next]_vars => TypeOK'
<1> SUFFICES ASSUME TypeOK, [Next]_vars
             PROVE  TypeOK'
  OBVIOUS
<1>0. patient' \in BOOLEAN
  BY PatientStep DEF TypeOK
<1>1. ASSUME NEW s \in Flows, StartPaymentSession(s) PROVE TypeOK'
  <2>1. uiQueue' \in Seq(Task)
    BY <1>1, PostType DEF StartPaymentSession, Task
  <2>2. start' \in [Flows -> States] /\ dismissed' \subseteq Started'
    BY <1>1, StartMoves DEF StartPaymentSession, States
  <2> QED
    BY <1>0, <1>1, <2>1, <2>2 DEF StartPaymentSession, TypeOK, States
<1>2. ASSUME DismissFlow PROVE TypeOK'
  <2>1. uiQueue' \in Seq(Task)
    BY <1>2, PostType DEF DismissFlow, Task
  <2>2. dismissed' \subseteq Started'
    BY <1>2 DEF DismissFlow, Started
  <2> QED
    BY <1>0, <1>2, <2>1, <2>2 DEF DismissFlow, TypeOK
<1>3. ASSUME RunStart PROVE TypeOK'
  <2> DEFINE s == Head(uiQueue).flow
  <2>1. uiQueue' \in Seq(Task) /\ s \in Flows
    BY <1>3, TakeType, StartTask DEF RunStart
  <2>2. start' \in [Flows -> States] /\ dismissed' \subseteq Started'
    BY <1>3, <2>1, StartMoves DEF RunStart, States
  <2>3. containers' \subseteq Flows /\ containerView' \in Flows
    BY <1>3, <2>1 DEF RunStart, NewContainer, TypeOK
  <2> QED
    BY <1>0, <1>3, <2>1, <2>2, <2>3 DEF RunStart, TypeOK, States
<1>4. ASSUME RunDismiss PROVE TypeOK'
  <2>1. uiQueue' \in Seq(Task)
    BY <1>4, TakeType DEF RunDismiss
  <2> QED
    BY <1>0, <1>4, <2>1 DEF RunDismiss, Started, TypeOK
<1>5. ASSUME NEW s \in Flows, AssignComponents(s) PROVE TypeOK'
  <2>1. start' \in [Flows -> States] /\ dismissed' \subseteq Started'
    BY <1>5, StartMoves DEF AssignComponents, States
  <2> QED
    BY <1>0, <1>5, <2>1 DEF AssignComponents, NewComponents, TypeOK, States
<1>11. ASSUME NEW s \in Flows, CreateButton(s) PROVE TypeOK'
  <2>1. start' \in [Flows -> States] /\ dismissed' \subseteq Started'
    BY <1>11, StartMoves DEF CreateButton, States
  <2>2. component' \in [Flows -> Flows \cup {None}]
    BY <1>11 DEF CreateButton, TypeOK
  <2> QED
    BY <1>0, <1>11, <2>1, <2>2 DEF CreateButton, TypeOK, States
<1>6. ASSUME NEW s \in Flows, CreationFails(s) PROVE TypeOK'
  <2>1. start' \in [Flows -> States] /\ dismissed' \subseteq Started'
    BY <1>6, StartMoves DEF CreationFails, States
  <2> QED
    BY <1>0, <1>6, <2>1 DEF CreationFails, TypeOK, States
<1>7. ASSUME NEW s \in Flows, NEW b \in BOOLEAN, AddView(s, b) PROVE TypeOK'
  <2>1. start' \in [Flows -> States] /\ dismissed' \subseteq Started'
    BY <1>7, StartMoves DEF AddView, States
  <2>2. view' \in [Flows -> Flows \cup {None}]
    BY <1>7 DEF AddView, TypeOK
  <2> QED
    BY <1>0, <1>7, <2>1, <2>2 DEF AddView, TypeOK, States
<1>8. ASSUME NEW s \in Flows, PressGooglePay(s) PROVE TypeOK'
  BY <1>0, <1>8 DEF PressGooglePay, TypeOK, Started
<1>9. ASSUME NEW b \in BOOLEAN, HandleActivityResult(b) PROVE TypeOK'
  BY <1>0, <1>9 DEF HandleActivityResult, TypeOK, Started
<1>10. ASSUME UNCHANGED vars PROVE TypeOK'
  BY <1>10 DEF vars, TypeOK, Started
<1> QED
  BY <1>1, <1>2, <1>3, <1>4, <1>5, <1>6, <1>7, <1>8, <1>9, <1>10, <1>11, Steps, Zenon

\* The variables of FlowModule keep their types, for any number of flows.
THEOREM TypeCorrect == Spec => []TypeOK
<1>1. Init => TypeOK
  BY DEF Init, TypeOK, Started
<1> QED
  BY <1>1, TypeOKStep, PTL DEF Spec
-----------------------------------------------------------------------------
Begun(s) == start[s] \notin {"idle", "posted"}

\* A start in the queue is of a flow newer than all that have begun, and than
\* the starts before it.
NewestStart(i) ==
    /\ uiQueue[i].flow \in Flows
    /\ start[uiQueue[i].flow] = "posted"
    /\ \A t \in Flows : Begun(t) => t < uiQueue[i].flow
    /\ \A j \in DOMAIN uiQueue :
          j < i /\ uiQueue[j].op = "start" => uiQueue[j].flow < uiQueue[i].flow

\* Starts are posted, run and remembered in their order.
InOrder ==
    /\ \A s, t \in Flows : t < s /\ start[s] # "idle" => start[t] # "idle"
    /\ \A i \in DOMAIN uiQueue : uiQueue[i].op = "start" => NewestStart(i)
    /\ \A t \in Flows : Begun(t) => containerView # None /\ t <= containerView
    /\ containerView # None => Begun(containerView)

\* A flow that has begun moves on: nothing about the order changes.
LEMMA OrderStays ==
    ASSUME InOrder, UNCHANGED <<uiQueue, containerView>>,
           \A t \in Flows : start'[t] = start[t] \/ (Begun(t) /\ Begun(t)'),
           TypeOK
    PROVE  InOrder'
<1>1. \A t \in Flows : Begun(t)' <=> Begun(t)
  BY DEF Begun
<1>2. \A t \in Flows : start'[t] = "idle" <=> start[t] = "idle"
  BY DEF Begun
<1>3. \A t \in Flows : start[t] = "posted" => start'[t] = "posted"
  BY DEF Begun
<1>4. \A i \in DOMAIN uiQueue' : uiQueue'[i].op = "start" => NewestStart(i)'
  BY <1>1, <1>3 DEF InOrder, NewestStart
<1>5. containerView' # None => Begun(containerView)'
  BY <1>1 DEF InOrder, TypeOK
<1> QED
  BY <1>1, <1>2, <1>4, <1>5 DEF InOrder

\* A task appended, and the others.
LEMMA Appended ==
    ASSUME TypeOK, NEW task \in Task, uiQueue' = Append(uiQueue, task),
           NEW i \in DOMAIN uiQueue'
    PROVE  \/ i \in DOMAIN uiQueue /\ uiQueue'[i] = uiQueue[i]
           \/ i = Len(uiQueue) + 1 /\ uiQueue'[i] = task
<1>1. uiQueue \in Seq(Task)
  BY DEF TypeOK
<1> QED
  BY <1>1

\* The first task taken, and the others.
LEMMA Taken ==
    ASSUME TypeOK, uiQueue # <<>>, uiQueue' = Tail(uiQueue),
           NEW i \in DOMAIN uiQueue'
    PROVE  /\ i \in Nat \ {0}
           /\ i + 1 \in DOMAIN uiQueue
           /\ uiQueue'[i] = uiQueue[i + 1]
<1>1. uiQueue \in Seq(Task)
  BY DEF TypeOK
<1> QED
  BY <1>1

LEMMA FirstTask ==
    ASSUME TypeOK, uiQueue # <<>>
    PROVE  1 \in DOMAIN uiQueue /\ Head(uiQueue) = uiQueue[1]
<1>1. uiQueue \in Seq(Task)
  BY DEF TypeOK
<1> QED
  BY <1>1

LEMMA OrderStep == TypeOK /\ InOrder /\ [Next]_vars => InOrder'
<1> SUFFICES ASSUME TypeOK, InOrder, [Next]_vars
             PROVE  InOrder'
  OBVIOUS
<1> USE FlowsAssumption
<1>1. ASSUME NEW s \in Flows, StartPaymentSession(s) PROVE InOrder'
  <2>0. /\ start \in [Flows -> States]
        /\ start' = [start EXCEPT ![s] = "posted"]
        /\ start[s] = "idle"
        /\ UNCHANGED containerView
    BY <1>1 DEF StartPaymentSession, TypeOK, States
  <2>1. \A t \in Flows : Begun(t)' <=> Begun(t)
    BY <2>0 DEF Begun
  <2>2. \A u, t \in Flows : t < u /\ start'[u] # "idle" => start'[t] # "idle"
    BY <2>0, <1>1 DEF InOrder, StartPaymentSession
  <2>3. \A t \in Flows : start[t] # "idle" => t < s
    BY <2>0 DEF InOrder
  <2>4. ASSUME NEW i \in DOMAIN uiQueue', uiQueue'[i].op = "start"
        PROVE  NewestStart(i)'
    <3> DEFINE task == [op |-> "start", flow |-> s]
    <3>1. task \in Task /\ uiQueue' = Append(uiQueue, task)
      BY <1>1 DEF StartPaymentSession, Task
    <3> HIDE DEF task
    <3>2. \A j \in DOMAIN uiQueue' :
             \/ j \in DOMAIN uiQueue /\ uiQueue'[j] = uiQueue[j]
             \/ j = Len(uiQueue) + 1 /\ uiQueue'[j] = task
      BY <3>1, Appended
    <3>3. Len(uiQueue) \in Nat /\ DOMAIN uiQueue = 1 .. Len(uiQueue)
      BY DEF TypeOK
    <3>4. CASE i \in DOMAIN uiQueue /\ uiQueue'[i] = uiQueue[i]
      <4>1. NewestStart(i)
        BY <3>4, <2>4 DEF InOrder
      <4>2. \A j \in DOMAIN uiQueue' : j < i => j \in DOMAIN uiQueue /\ uiQueue'[j] = uiQueue[j]
        BY <3>2, <3>3, <3>4
      <4> QED
        BY <4>1, <4>2, <3>4, <2>0, <2>1 DEF NewestStart
    <3>5. CASE i = Len(uiQueue) + 1 /\ uiQueue'[i] = task
      <4>1. uiQueue'[i].flow = s
        BY <3>5 DEF task
      <4>2. \A j \in DOMAIN uiQueue' : j < i => j \in DOMAIN uiQueue /\ uiQueue'[j] = uiQueue[j]
        BY <3>2, <3>3, <3>5
      <4>3. \A j \in DOMAIN uiQueue' :
               j < i /\ uiQueue'[j].op = "start" => uiQueue'[j].flow < s
        BY <4>2, <2>3 DEF InOrder, NewestStart
      <4>4. \A t \in Flows : Begun(t) => t < s
        BY <2>3 DEF Begun
      <4>5. start'[s] = "posted"
        BY <2>0
      <4> QED
        BY <4>1, <4>3, <4>4, <4>5, <2>1 DEF NewestStart
    <3> QED
      BY <3>2, <3>4, <3>5
  <2>5. \A t \in Flows : Begun(t)' => containerView' # None /\ t <= containerView'
    BY <2>0, <2>1 DEF InOrder
  <2>6. containerView' # None => Begun(containerView)'
    BY <2>0, <2>1 DEF InOrder, TypeOK
  <2> QED
    BY <2>2, <2>4, <2>5, <2>6 DEF InOrder
<1>2. ASSUME DismissFlow PROVE InOrder'
  <2> DEFINE task == [op |-> "dismiss", flow |-> None]
  <2>0. UNCHANGED <<start, containerView>>
    BY <1>2 DEF DismissFlow
  <2>1. task \in Task /\ task.op # "start" /\ uiQueue' = Append(uiQueue, task)
    BY <1>2 DEF DismissFlow, Task
  <2> HIDE DEF task
  <2>2. ASSUME NEW i \in DOMAIN uiQueue', uiQueue'[i].op = "start"
        PROVE  NewestStart(i)'
    <3>1. \A j \in DOMAIN uiQueue' : uiQueue'[j].op = "start" =>
             j \in DOMAIN uiQueue /\ uiQueue'[j] = uiQueue[j]
      BY <2>1, Appended
    <3> QED
      BY <3>1, <2>2, <2>0 DEF InOrder, NewestStart, Begun
  <2> QED
    BY <2>0, <2>2 DEF InOrder, Begun
<1>3. ASSUME RunStart PROVE InOrder'
  <2> DEFINE s == Head(uiQueue).flow
  <2>1. uiQueue # <<>> /\ uiQueue' = Tail(uiQueue) /\ Head(uiQueue).op = "start"
    BY <1>3 DEF RunStart
  <2>2. 1 \in DOMAIN uiQueue /\ uiQueue[1].op = "start" /\ uiQueue[1].flow = s
    BY <2>1, FirstTask
  <2>3. NewestStart(1)
    BY <2>2 DEF InOrder
  <2>4. s \in Flows /\ start[s] = "posted" /\ \A t \in Flows : Begun(t) => t < s
    BY <2>2, <2>3 DEF NewestStart
  <2>5. start' = [start EXCEPT ![s] = "creating"] /\ containerView' = s
    BY <1>3 DEF RunStart, NewContainer
  <2> HIDE DEF s
  <2>6. start \in [Flows -> States]
    BY DEF TypeOK, States
  <2>7. \A t \in Flows : Begun(t)' <=> (Begun(t) \/ t = s)
    BY <2>4, <2>5, <2>6 DEF Begun
  <2>8. \A u, t \in Flows : t < u /\ start'[u] # "idle" => start'[t] # "idle"
    BY <2>4, <2>5, <2>6 DEF InOrder
  <2>9. ASSUME NEW i \in DOMAIN uiQueue', uiQueue'[i].op = "start"
        PROVE  NewestStart(i)'
    <3>1. \A j \in DOMAIN uiQueue' :
             /\ j \in Nat \ {0}
             /\ j + 1 \in DOMAIN uiQueue
             /\ uiQueue'[j] = uiQueue[j + 1]
      BY <2>1, Taken
    <3>2. NewestStart(i + 1)
      BY <3>1, <2>9 DEF InOrder
    <3>3. s < uiQueue[i + 1].flow
      BY <3>1, <3>2, <2>2 DEF NewestStart
    <3>4. \A j \in DOMAIN uiQueue' :
             j < i /\ uiQueue'[j].op = "start" => uiQueue'[j].flow < uiQueue'[i].flow
      <4> TAKE j \in DOMAIN uiQueue'
      <4>1. j < i => j + 1 < i + 1
        BY <3>1
      <4> QED
        BY <4>1, <3>1, <3>2 DEF NewestStart
    <3>5. \A t \in Flows : Begun(t)' => t < uiQueue'[i].flow
      BY <3>1, <3>2, <3>3, <2>7 DEF NewestStart
    <3>6. uiQueue'[i].flow \in Flows /\ start'[uiQueue'[i].flow] = "posted"
      BY <3>1, <3>2, <3>3, <2>4, <2>5, <2>6 DEF NewestStart
    <3> QED
      BY <3>4, <3>5, <3>6 DEF NewestStart
  <2>10. \A t \in Flows : Begun(t)' => containerView' # None /\ t <= containerView'
    BY <2>4, <2>5, <2>7
  <2> QED
    BY <2>4, <2>5, <2>7, <2>8, <2>9, <2>10 DEF InOrder
<1>4. ASSUME RunDismiss PROVE InOrder'
  <2>0. UNCHANGED <<start, containerView>>
    BY <1>4 DEF RunDismiss
  <2>1. uiQueue # <<>> /\ uiQueue' = Tail(uiQueue)
    BY <1>4 DEF RunDismiss
  <2>2. \A j \in DOMAIN uiQueue' :
           /\ j \in Nat \ {0}
           /\ j + 1 \in DOMAIN uiQueue
           /\ uiQueue'[j] = uiQueue[j + 1]
    BY <2>1, Taken
  <2>3. ASSUME NEW i \in DOMAIN uiQueue', uiQueue'[i].op = "start"
        PROVE  NewestStart(i)'
    <3>1. NewestStart(i + 1)
      BY <2>2, <2>3 DEF InOrder
    <3>2. \A j \in DOMAIN uiQueue' :
             j < i /\ uiQueue'[j].op = "start" => uiQueue'[j].flow < uiQueue'[i].flow
      <4> TAKE j \in DOMAIN uiQueue'
      <4>1. j < i => j + 1 < i + 1
        BY <2>2
      <4> QED
        BY <4>1, <2>2, <3>1 DEF NewestStart
    <3> QED
      BY <3>1, <3>2, <2>0, <2>2 DEF NewestStart, Begun
  <2> QED
    BY <2>0, <2>3 DEF InOrder, Begun
<1>5. ASSUME NEW s \in Flows, AssignComponents(s) PROVE InOrder'
  <2>1. \A t \in Flows : start'[t] = start[t] \/ (Begun(t) /\ Begun(t)')
    BY <1>5 DEF AssignComponents, TypeOK, Begun
  <2> QED
    BY <1>5, <2>1, OrderStays DEF AssignComponents
<1>11. ASSUME NEW s \in Flows, CreateButton(s) PROVE InOrder'
  <2>1. \A t \in Flows : start'[t] = start[t] \/ (Begun(t) /\ Begun(t)')
    BY <1>11 DEF CreateButton, TypeOK, Begun
  <2> QED
    BY <1>11, <2>1, OrderStays DEF CreateButton
<1>6. ASSUME NEW s \in Flows, CreationFails(s) PROVE InOrder'
  <2>1. \A t \in Flows : start'[t] = start[t] \/ (Begun(t) /\ Begun(t)')
    BY <1>6 DEF CreationFails, TypeOK, Begun
  <2> QED
    BY <1>6, <2>1, OrderStays DEF CreationFails
<1>7. ASSUME NEW s \in Flows, NEW b \in BOOLEAN, AddView(s, b) PROVE InOrder'
  <2>1. \A t \in Flows : start'[t] = start[t] \/ (Begun(t) /\ Begun(t)')
    BY <1>7 DEF AddView, TypeOK, Begun
  <2> QED
    BY <1>7, <2>1, OrderStays DEF AddView
<1>8. ASSUME NEW s \in Flows, PressGooglePay(s) PROVE InOrder'
  BY <1>8, OrderStays DEF PressGooglePay
<1>9. ASSUME NEW b \in BOOLEAN, HandleActivityResult(b) PROVE InOrder'
  BY <1>9, OrderStays DEF HandleActivityResult
<1>10. ASSUME UNCHANGED vars PROVE InOrder'
  BY <1>10, OrderStays DEF vars
<1> QED
  BY <1>1, <1>2, <1>3, <1>4, <1>5, <1>6, <1>7, <1>8, <1>9, <1>10, <1>11, Steps, Zenon

\* The starts of FlowModule stay in their order.
THEOREM StartsInOrder == Spec => []InOrder
<1>1. Init => InOrder
  BY DEF Init, InOrder, Begun
<1> QED
  BY <1>1, OrderStep, TypeCorrect, PTL DEF Spec

LEMMA NewerStep == TypeOK /\ InOrder /\ ViewInNewer /\ [Next]_vars => ViewInNewer'
<1> SUFFICES ASSUME TypeOK, InOrder, ViewInNewer, [Next]_vars
             PROVE  ViewInNewer'
  OBVIOUS
<1>0. ASSUME UNCHANGED view PROVE ViewInNewer'
  BY <1>0 DEF ViewInNewer
<1>1. ASSUME NEW s \in Flows, NEW b \in BOOLEAN, AddView(s, b) PROVE ViewInNewer'
  <2>1. s <= containerView
    BY <1>1 DEF AddView, InOrder, Begun
  <2> QED
    BY <1>1, <2>1 DEF AddView, ViewInNewer, TypeOK
<1>2. ASSUME NEW s \in Flows, StartPaymentSession(s) PROVE ViewInNewer'
  BY <1>2, <1>0 DEF StartPaymentSession
<1>3. ASSUME DismissFlow PROVE ViewInNewer'
  BY <1>3, <1>0 DEF DismissFlow
<1>4. ASSUME RunStart PROVE ViewInNewer'
  BY <1>4, <1>0 DEF RunStart
<1>5. ASSUME RunDismiss PROVE ViewInNewer'
  BY <1>5, <1>0 DEF RunDismiss
<1>6. ASSUME NEW s \in Flows, AssignComponents(s) PROVE ViewInNewer'
  BY <1>6, <1>0 DEF AssignComponents
<1>11. ASSUME NEW s \in Flows, CreateButton(s) PROVE ViewInNewer'
  BY <1>11, <1>0 DEF CreateButton
<1>7. ASSUME NEW s \in Flows, CreationFails(s) PROVE ViewInNewer'
  BY <1>7, <1>0 DEF CreationFails
<1>8. ASSUME NEW s \in Flows, PressGooglePay(s) PROVE ViewInNewer'
  BY <1>8, <1>0 DEF PressGooglePay
<1>9. ASSUME NEW b \in BOOLEAN, HandleActivityResult(b) PROVE ViewInNewer'
  BY <1>9, <1>0 DEF HandleActivityResult
<1>10. ASSUME UNCHANGED vars PROVE ViewInNewer'
  BY <1>10, <1>0 DEF vars
<1> QED
  BY <1>1, <1>2, <1>3, <1>4, <1>5, <1>6, <1>7, <1>8, <1>9, <1>10, <1>11, Steps, Zenon

\* However many flows are started over each other, a late button lands in the
\* container of its own flow or of a newer one.
THEOREM ButtonsInNewer == Spec => []ViewInNewer
<1>1. Init => ViewInNewer
  BY DEF Init, ViewInNewer
<1> QED
  BY <1>1, NewerStep, StartsInOrder, TypeCorrect, PTL DEF Spec
-----------------------------------------------------------------------------
\* The safety half of StartSettles: a start posted has its task in the queue,
\* one whose components are created has a container to go to, so that the
\* steps fairness speaks of are never disabled for good.
HasTask(s) ==
    \E i \in DOMAIN uiQueue : uiQueue[i].op = "start" /\ uiQueue[i].flow = s

UnderWay ==
    \A s \in Flows :
        /\ start[s] = "posted" => HasTask(s)
        /\ start[s] = "created" => HasContainer(s)

\* Tasks are appended, and taken from the front.
LEMMA TaskStays ==
    ASSUME TypeOK, NEW s \in Flows, HasTask(s),
           UNCHANGED uiQueue \/ \E task \in Task : uiQueue' = Append(uiQueue, task)
    PROVE  HasTask(s)'
<1>1. PICK i \in DOMAIN uiQueue : uiQueue[i].op = "start" /\ uiQueue[i].flow = s
  BY DEF HasTask
<1>2. i \in DOMAIN uiQueue' /\ uiQueue'[i] = uiQueue[i]
  BY DEF TypeOK
<1> QED
  BY <1>1, <1>2 DEF HasTask

LEMMA TaskWaits ==
    ASSUME TypeOK, NEW s \in Flows, HasTask(s), uiQueue # <<>>, uiQueue' = Tail(uiQueue),
           Head(uiQueue).op = "start" => Head(uiQueue).flow # s
    PROVE  HasTask(s)'
<1>1. PICK i \in DOMAIN uiQueue : uiQueue[i].op = "start" /\ uiQueue[i].flow = s
  BY DEF HasTask
<1>2. uiQueue \in Seq(Task) /\ i # 1
  BY <1>1, FirstTask DEF TypeOK
<1>3. i - 1 \in DOMAIN uiQueue' /\ uiQueue'[i - 1] = uiQueue[i]
  BY <1>2
<1> QED
  BY <1>1, <1>3 DEF HasTask

LEMMA UnderWayStep ==
    TypeOK /\ InOrder /\ UnderWay /\ [Next]_vars /\ InOrder' => UnderWay'
<1> SUFFICES ASSUME TypeOK, InOrder, UnderWay, [Next]_vars, InOrder'
             PROVE  UnderWay'
  OBVIOUS
<1>0. \A s \in Flows : start'[s] = "created" => HasContainer(s)'
  BY DEF InOrder, Begun, HasContainer
<1>1. ASSUME \A s \in Flows : start'[s] = "posted" => HasTask(s)' PROVE UnderWay'
  BY <1>0, <1>1 DEF UnderWay
<1>2. ASSUME NEW s \in Flows, StartPaymentSession(s) PROVE UnderWay'
  <2> DEFINE task == [op |-> "start", flow |-> s]
  <2>1. task \in Task /\ uiQueue' = Append(uiQueue, task)
    BY <1>2 DEF StartPaymentSession, Task
  <2>2. task.op = "start" /\ task.flow = s
    OBVIOUS
  <2> HIDE DEF task
  <2>3. Len(uiQueue) + 1 \in DOMAIN uiQueue' /\ uiQueue'[Len(uiQueue) + 1] = task
    BY <2>1 DEF TypeOK
  <2>4. HasTask(s)'
    BY <2>2, <2>3 DEF HasTask
  <2>5. \A t \in Flows : t # s => start'[t] = start[t]
    BY <1>2 DEF StartPaymentSession, TypeOK
  <2> QED
    BY <1>1, <2>1, <2>4, <2>5, TaskStays DEF UnderWay
<1>3. ASSUME DismissFlow PROVE UnderWay'
  <2>1. \E task \in Task : uiQueue' = Append(uiQueue, task)
    BY <1>3 DEF DismissFlow, Task
  <2>2. start' = start
    BY <1>3 DEF DismissFlow
  <2> QED
    BY <1>1, <2>1, <2>2, TaskStays DEF UnderWay
<1>4. ASSUME RunStart PROVE UnderWay'
  <2> DEFINE s == Head(uiQueue).flow
  <2>1. /\ uiQueue # <<>> /\ uiQueue' = Tail(uiQueue)
        /\ start' = [start EXCEPT ![s] = "creating"]
    BY <1>4 DEF RunStart
  <2>2. \A t \in Flows : start'[t] = "posted" => start[t] = "posted" /\ t # s
    BY <2>1 DEF TypeOK
  <2> QED
    BY <1>1, <2>1, <2>2, TaskWaits DEF UnderWay
<1>5. ASSUME RunDismiss PROVE UnderWay'
  <2>1. /\ uiQueue # <<>> /\ uiQueue' = Tail(uiQueue) /\ Head(uiQueue).op # "start"
        /\ start' = start
    BY <1>5 DEF RunDismiss
  <2> QED
    BY <1>1, <2>1, TaskWaits DEF UnderWay
<1>6. ASSUME UNCHANGED uiQueue, \A t \in Flows : start'[t] = "posted" => start[t] = "posted"
      PROVE  UnderWay'
  BY <1>1, <1>6, TaskStays DEF UnderWay
<1>7. ASSUME NEW s \in Flows, AssignComponents(s) PROVE UnderWay'
  BY <1>6, <1>7 DEF AssignComponents, TypeOK
<1>13. ASSUME NEW s \in Flows, CreateButton(s) PROVE UnderWay'
  BY <1>6, <1>13 DEF CreateButton, TypeOK
<1>8. ASSUME NEW s \in Flows, CreationFails(s) PROVE UnderWay'
  BY <1>6, <1>8 DEF CreationFails, TypeOK
<1>9. ASSUME NEW s \in Flows, NEW b \in BOOLEAN, AddView(s, b) PROVE UnderWay'
  BY <1>6, <1>9 DEF AddView, TypeOK
<1>10. ASSUME NEW s \in Flows, PressGooglePay(s) PROVE UnderWay'
  BY <1>6, <1>10 DEF PressGooglePay
<1>11. ASSUME NEW b \in BOOLEAN, HandleActivityResult(b) PROVE UnderWay'
  BY <1>6, <1>11 DEF HandleActivityResult
<1>12. ASSUME UNCHANGED vars PROVE UnderWay'
  BY <1>6, <1>12 DEF vars
<1> QED
  BY <1>2, <1>3, <1>4, <1>5, <1>7, <1>8, <1>9, <1>10, <1>11, <1>12, <1>13, Steps, Zenon

\* No start of FlowModule is lost between two threads: until it has settled,
\* there is a task or a coroutine that can take it further.
THEOREM StartsAreUnderWay == Spec => []UnderWay
<1>1. Init => UnderWay
  BY DEF Init, UnderWay
<1> QED
  BY <1>1, UnderWayStep, StartsInOrder, TypeCorrect, PTL DEF Spec
-----------------------------------------------------------------------------
\* The coordinator reads the lateinit checkoutComponents: there is a value
\* whenever a Google Pay sheet is in front.
ResultHasComponents == googlePay # None => checkoutComponents # None

\* A sheet is that of a button, a button that of a flow that assigned them.
Buttons ==
    /\ \A s \in Flows :
          start[s] \in {"assigned", "created", "attached", "unrendered"} =>
              checkoutComponents # None
    /\ \A s \in Flows : view[s] # None => start[s] = "attached"
    /\ ResultHasComponents

LEMMA ButtonsStep == TypeOK /\ InOrder /\ Buttons /\ [Next]_vars => Buttons'
<1> SUFFICES ASSUME TypeOK, InOrder, Buttons, [Next]_vars
             PROVE  Buttons'
  OBVIOUS
<1> USE FlowsAssumption DEF ResultHasComponents
<1>1. ASSUME UNCHANGED <<checkoutComponents, view, googlePay>>,
             \A t \in Flows : start'[t] = start[t]
                              \/ {start[t], start'[t]} \subseteq {"idle", "posted", "creating"}
      PROVE  Buttons'
  BY <1>1 DEF Buttons, TypeOK
<1>2. ASSUME NEW s \in Flows, StartPaymentSession(s) PROVE Buttons'
  BY <1>1, <1>2 DEF StartPaymentSession, TypeOK
<1>3. ASSUME DismissFlow PROVE Buttons'
  BY <1>1, <1>3 DEF DismissFlow
<1>4. ASSUME RunStart PROVE Buttons'
  <2> DEFINE s == Head(uiQueue).flow
  <2>1. /\ start' = [start EXCEPT ![s] = "creating"]
        /\ uiQueue # <<>> /\ Head(uiQueue).op = "start"
        /\ UNCHANGED <<checkoutComponents, view, googlePay>>
    BY <1>4 DEF RunStart
  <2>2. start[s] = "posted"
    BY <2>1, FirstTask DEF InOrder, NewestStart
  <2> HIDE DEF s
  <2> QED
    BY <1>1, <2>1, <2>2 DEF TypeOK
<1>5. ASSUME RunDismiss PROVE Buttons'
  BY <1>1, <1>5 DEF RunDismiss
<1>6. ASSUME NEW s \in Flows, AssignComponents(s) PROVE Buttons'
  BY <1>6 DEF AssignComponents, NewComponents, Buttons, TypeOK
<1>12. ASSUME NEW s \in Flows, CreateButton(s) PROVE Buttons'
  BY <1>12 DEF CreateButton, Buttons, TypeOK
<1>7. ASSUME NEW s \in Flows, CreationFails(s) PROVE Buttons'
  BY <1>7 DEF CreationFails, Buttons, TypeOK
<1>8. ASSUME NEW s \in Flows, NEW b \in BOOLEAN, AddView(s, b) PROVE Buttons'
  BY <1>8 DEF AddView, HasContainer, Buttons, TypeOK
<1>9. ASSUME NEW s \in Flows, PressGooglePay(s) PROVE Buttons'
  BY <1>9 DEF PressGooglePay, Buttons, TypeOK
<1>10. ASSUME NEW b \in BOOLEAN, HandleActivityResult(b) PROVE Buttons'
  BY <1>10 DEF HandleActivityResult, Buttons
<1>11. ASSUME UNCHANGED vars PROVE Buttons'
  BY <1>1, <1>11 DEF vars
<1> QED
  BY <1>2, <1>3, <1>4, <1>5, <1>6, <1>7, <1>8, <1>9, <1>10, <1>11, <1>12, Steps, Zenon

\* A Google Pay result never meets an uninitialized checkoutComponents.
THEOREM ResultsHaveComponents == Spec => []ResultHasComponents
<1>1. Init => Buttons
  BY DEF Init, Buttons, ResultHasComponents
<1>2. Buttons => ResultHasComponents
  BY DEF Buttons
<1> QED
  BY <1>1, <1>2, ButtonsStep, StartsInOrder, TypeCorrect, PTL DEF Spec
-----------------------------------------------------------------------------
\* What the calls of a patient JavaScript leave: at most one flow that is not
\* dismissed, to which the container and the components belong ...
OpenFlows == Started \ dismissed

Alone ==
    /\ \A s, t \in OpenFlows : s = t
    /\ \A s \in dismissed : Ended(s)

OpenIsCurrent ==
    /\ \A s \in OpenFlows : Begun(s) => containerView = s /\ s \in containers
    /\ \A s \in OpenFlows :
          start[s] \in {"assigned", "created", "attached", "unrendered"} => checkoutComponents = s

\* ... with its own button and Google Pay sheet ...
OwnButton ==
    /\ \A s \in Flows : start[s] \in {"created", "attached", "unrendered"} => component[s] = s
    /\ \A s \in Flows : view[s] # None => view[s] = s /\ start[s] = "attached"
    /\ \A s \in Flows : pay[s] # "none" => view[s] = s
    /\ \A s \in Flows : pay[s] = "asked" <=> googlePay = s

\* ... and a container that a dismissal, which runs before all else, takes away.
DismissFirst == 1 \in DOMAIN uiQueue /\ uiQueue[1].op = "dismiss"
OldIsGone ==
    /\ containers \subseteq {containerView}
    /\ \A i \in DOMAIN uiQueue : uiQueue[i].op = "dismiss" => i = 1
    /\ DismissFirst => containerView \in dismissed
    /\ containers # {} => containerView \notin dismissed \/ DismissFirst

OneByOne == Alone /\ OpenIsCurrent /\ OwnButton /\ OldIsGone
PatientOneByOne == patient => OneByOne

\* A flow on its way to a button is open, and so is one with a payment.
LEMMA WorkingIsOpen ==
    ASSUME TypeOK, OneByOne, NEW s \in Flows,
           start[s] \in {"posted", "creating", "assigned", "created"} \/ pay[s] = "asked"
    PROVE  s \in OpenFlows /\ ~Ended(s)
<1>1. s # None
  BY FlowsAssumption
<1>2. ~Ended(s)
  BY <1>1 DEF Ended, OneByOne, OwnButton
<1>3. s \in Started
  BY <1>1 DEF Started, OneByOne, OwnButton
<1> QED
  BY <1>2, <1>3 DEF OpenFlows, OneByOne, Alone

\* The payment of a Google Pay sheet is that of the open flow, on the screen.
LEMMA PayingIsCurrent ==
    ASSUME TypeOK, OneByOne, googlePay # None
    PROVE  /\ googlePay \in OpenFlows
           /\ pay[googlePay] = "asked"
           /\ view[googlePay] = googlePay
           /\ start[googlePay] = "attached"
           /\ containerView = googlePay
           /\ googlePay \in containers
           /\ checkoutComponents = googlePay
<1>1. googlePay \in Flows /\ googlePay # None
  BY DEF TypeOK
<1>2. pay[googlePay] = "asked"
  BY <1>1 DEF OneByOne, OwnButton
<1>3. view[googlePay] = googlePay /\ start[googlePay] = "attached"
  BY <1>1, <1>2 DEF OneByOne, OwnButton
<1>4. googlePay \in OpenFlows
  BY <1>1, <1>2, WorkingIsOpen
<1>5. Begun(googlePay)
  BY <1>3 DEF Begun
<1> QED
  BY <1>2, <1>3, <1>4, <1>5 DEF OneByOne, OpenIsCurrent

\* When a start is the first task, nothing is left on the screen.
LEMMA CleanStart ==
    ASSUME TypeOK, InOrder, OneByOne, uiQueue # <<>>, Head(uiQueue).op = "start"
    PROVE  containers = {}
<1> SUFFICES ASSUME containers # {}
             PROVE  FALSE
  OBVIOUS
<1>1. 1 \in DOMAIN uiQueue /\ uiQueue[1].op = "start"
  BY FirstTask
<1>2. PICK s \in Flows : start[s] = "posted"
  BY <1>1 DEF InOrder, NewestStart
<1>3. containerView \notin dismissed
  BY <1>1 DEF OneByOne, OldIsGone, DismissFirst
<1>4. containerView \in Flows /\ containerView # None
  BY FlowsAssumption DEF OneByOne, OldIsGone, TypeOK
<1>5. Begun(containerView)
  BY <1>4 DEF InOrder
<1>6. containerView \in OpenFlows
  BY <1>3, <1>4, <1>5 DEF OpenFlows, Started, Begun
<1>7. s \in OpenFlows
  BY <1>2, WorkingIsOpen
<1> QED
  BY <1>2, <1>5, <1>6, <1>7 DEF OneByOne, Alone, Begun

LEMMA OneStart ==
    ASSUME TypeOK, OneByOne, patient, NEW s \in Flows, StartPaymentSession(s)
    PROVE  OneByOne'
<1>0. /\ start \in [Flows -> States]
      /\ start[s] = "idle"
      /\ start' = [start EXCEPT ![s] = "posted"]
      /\ UNCHANGED <<dismissed, containerView, containers, checkoutComponents, component,
                     view, googlePay,
                     pay>>
  BY DEF StartPaymentSession, TypeOK, States
<1>1. Started' = Started \cup {s} /\ s \notin Started /\ dismissed \subseteq Started
  BY <1>0 DEF Started, TypeOK
<1>2. OpenFlows = {}
  BY DEF StartPaymentSession, OpenFlows
<1>3. OpenFlows' = {s}
  BY <1>0, <1>1, <1>2 DEF OpenFlows
<1>4. \A t \in Flows : t # s => (Ended(t)' <=> Ended(t))
  BY <1>0 DEF Ended
<1>5. Alone'
  <2>1. \A t \in dismissed : t \in Flows /\ t # s
    BY <1>1 DEF Started
  <2> QED
    BY <1>0, <1>3, <1>4, <2>1 DEF OneByOne, Alone
<1>6. OpenIsCurrent'
  BY <1>0, <1>3 DEF OpenIsCurrent, Begun
<1>7. OwnButton'
  BY <1>0 DEF OneByOne, OwnButton
<1>8. OldIsGone'
  <2> DEFINE task == [op |-> "start", flow |-> s]
  <2>1. task \in Task /\ task.op # "dismiss" /\ uiQueue' = Append(uiQueue, task)
    BY DEF StartPaymentSession, Task
  <2> HIDE DEF task
  <2>2. \A i \in DOMAIN uiQueue' : uiQueue'[i].op = "dismiss" =>
           i \in DOMAIN uiQueue /\ uiQueue'[i] = uiQueue[i]
    BY <2>1, Appended
  <2>3. uiQueue \in Seq(Task)
    BY DEF TypeOK
  <2>4. 1 \in DOMAIN uiQueue => 1 \in DOMAIN uiQueue' /\ uiQueue'[1] = uiQueue[1]
    BY <2>1, <2>3
  <2>5. DismissFirst' <=> DismissFirst
    BY <2>2, <2>4 DEF DismissFirst
  <2> QED
    BY <1>0, <2>2, <2>5 DEF OneByOne, OldIsGone
<1> QED
  BY <1>5, <1>6, <1>7, <1>8 DEF OneByOne

LEMMA OneDismissal ==
    ASSUME TypeOK, InOrder, OneByOne, patient, DismissFlow
    PROVE  OneByOne'
<1>0. /\ dismissed' = Started
      /\ UNCHANGED <<start, containerView, containers, checkoutComponents, component, view, googlePay,
                     pay>>
      /\ \A t \in Started : Ended(t)
  BY DEF DismissFlow
<1>1. Started' = Started /\ OpenFlows' = {}
  BY <1>0 DEF Started, OpenFlows
<1>2. PICK s \in OpenFlows : TRUE
  BY DEF DismissFlow, OpenFlows, TypeOK
<1>3. s \in Flows /\ s # None /\ Ended(s) /\ start[s] # "idle"
  BY <1>0, FlowsAssumption DEF OpenFlows, Started
<1>4. Begun(s)
  BY <1>3 DEF Ended, Begun, OneByOne, OwnButton
<1>5. containerView = s /\ containerView \notin dismissed
  BY <1>4 DEF OneByOne, OpenIsCurrent, OpenFlows
<1>6. \A i \in DOMAIN uiQueue : FALSE
  <2> SUFFICES ASSUME NEW i \in DOMAIN uiQueue
               PROVE  FALSE
    OBVIOUS
  <2>1. CASE uiQueue[i].op = "start"
    <3>1. PICK t \in Flows : start[t] = "posted"
      BY <2>1 DEF InOrder, NewestStart
    <3>2. t \in OpenFlows /\ ~Ended(t)
      BY <3>1, WorkingIsOpen
    <3> QED
      BY <3>2, <1>0 DEF OpenFlows
  <2>2. CASE uiQueue[i].op # "start"
    <3>1. uiQueue[i] \in Task
      BY DEF TypeOK
    <3>2. uiQueue[i].op = "dismiss"
      BY <2>2, <3>1 DEF Task
    <3>3. DismissFirst
      BY <3>2 DEF OneByOne, OldIsGone, DismissFirst
    <3> QED
      BY <3>3, <1>5 DEF OneByOne, OldIsGone
  <2> QED
    BY <2>1, <2>2
<1>7. Alone'
  BY <1>0, <1>1 DEF Alone, Ended
<1>8. OpenIsCurrent'
  BY <1>1 DEF OpenIsCurrent
<1>9. OwnButton'
  BY <1>0 DEF OneByOne, OwnButton
<1>10. OldIsGone'
  <2> DEFINE task == [op |-> "dismiss", flow |-> None]
  <2>1. task \in Task /\ task.op = "dismiss" /\ uiQueue' = Append(uiQueue, task)
    BY DEF DismissFlow, Task
  <2> HIDE DEF task
  <2>2. uiQueue \in Seq(Task) /\ Len(uiQueue) = 0
    <3>1. uiQueue \in Seq(Task)
      BY DEF TypeOK
    <3>2. Len(uiQueue) \in Nat /\ DOMAIN uiQueue = 1..Len(uiQueue)
      BY <3>1
    <3>3. ~(1 \in 1..Len(uiQueue))
      BY <1>6, <3>2
    <3> QED
      BY <3>1, <3>2, <3>3
  <2>3. DOMAIN uiQueue' = {1} /\ uiQueue'[1] = task
    BY <2>1, <2>2
  <2>4. DismissFirst'
    BY <2>1, <2>3 DEF DismissFirst
  <2>5. containerView \in Started
    BY <1>2, <1>5 DEF OpenFlows
  <2> QED
    BY <1>0, <2>3, <2>4, <2>5 DEF OneByOne, OldIsGone
<1> QED
  BY <1>7, <1>8, <1>9, <1>10 DEF OneByOne

LEMMA OneRunStart ==
    ASSUME TypeOK, InOrder, OneByOne, RunStart
    PROVE  OneByOne'
<1> DEFINE s == Head(uiQueue).flow
<1>0. /\ uiQueue # <<>> /\ Head(uiQueue).op = "start" /\ uiQueue' = Tail(uiQueue)
      /\ start' = [start EXCEPT ![s] = "creating"]
      /\ containerView' = s
      /\ containers' = containers \cup {s}
      /\ UNCHANGED <<dismissed, checkoutComponents, component, view, googlePay, pay>>
  BY DEF RunStart, NewContainer
<1>1. s \in Flows /\ start[s] = "posted"
  BY <1>0, FirstTask DEF InOrder, NewestStart
<1>2. containers = {}
  BY <1>0, CleanStart
<1> HIDE DEF s
<1>3. s \in OpenFlows /\ s \notin dismissed
  BY <1>1, WorkingIsOpen DEF OpenFlows
<1>4. start \in [Flows -> States]
  BY DEF TypeOK, States
<1>5. Started' = Started /\ OpenFlows' = OpenFlows
  BY <1>0, <1>1, <1>4 DEF Started, OpenFlows
<1>6. \A t \in OpenFlows : t = s
  BY <1>3 DEF OneByOne, Alone
<1>7. Alone'
  <2>1. \A t \in dismissed : t \in Flows /\ t # s
    BY <1>3 DEF TypeOK, Started
  <2>2. \A t \in dismissed : Ended(t)'
    BY <1>0, <1>4, <2>1 DEF OneByOne, Alone, Ended
  <2> QED
    BY <1>0, <1>5, <1>6, <2>2 DEF Alone
<1>8. OpenIsCurrent'
  BY <1>0, <1>1, <1>4, <1>5, <1>6 DEF OpenIsCurrent
<1>9. OwnButton'
  BY <1>0, <1>1, <1>4 DEF OneByOne, OwnButton
<1>10. OldIsGone'
  <2>1. \A i \in DOMAIN uiQueue' : uiQueue'[i].op # "dismiss"
    <3> TAKE i \in DOMAIN uiQueue'
    <3>1. i \in Nat \ {0} /\ i + 1 \in DOMAIN uiQueue /\ uiQueue'[i] = uiQueue[i + 1]
      BY <1>0, Taken
    <3> QED
      BY <3>1 DEF OneByOne, OldIsGone
  <2>2. ~DismissFirst'
    BY <2>1 DEF DismissFirst
  <2> QED
    BY <1>0, <1>2, <1>3, <2>1, <2>2 DEF OldIsGone
<1> QED
  BY <1>7, <1>8, <1>9, <1>10 DEF OneByOne

LEMMA DismissalIsFirst ==
    ASSUME TypeOK, OneByOne, RunDismiss
    PROVE  DismissFirst /\ containerView \in dismissed
BY FirstTask DEF RunDismiss, DismissFirst, OneByOne, OldIsGone

LEMMA OneRunDismiss ==
    ASSUME TypeOK, OneByOne, RunDismiss
    PROVE  OneByOne'
<1>0. /\ uiQueue # <<>> /\ uiQueue' = Tail(uiQueue)
      /\ containers' = containers \ {containerView}
      /\ UNCHANGED <<start, dismissed, containerView, checkoutComponents, component, view, googlePay,
                     pay>>
  BY DEF RunDismiss, Removed
<1>1. containerView \in dismissed
  BY DismissalIsFirst
<1>2. OpenFlows' = OpenFlows /\ Started' = Started
  BY <1>0 DEF OpenFlows, Started
<1>3. Alone'
  BY <1>0, <1>2 DEF OneByOne, Alone, Ended
<1>4. OpenIsCurrent'
  BY <1>0, <1>1, <1>2 DEF OneByOne, OpenIsCurrent, OpenFlows, Begun
<1>5. OwnButton'
  BY <1>0 DEF OneByOne, OwnButton
<1>6. OldIsGone'
  <2>1. \A i \in DOMAIN uiQueue' : uiQueue'[i].op # "dismiss"
    <3> TAKE i \in DOMAIN uiQueue'
    <3>1. i \in Nat \ {0} /\ i + 1 \in DOMAIN uiQueue /\ uiQueue'[i] = uiQueue[i + 1]
      BY <1>0, Taken
    <3> QED
      BY <3>1 DEF OneByOne, OldIsGone
  <2>2. ~DismissFirst'
    BY <2>1 DEF DismissFirst
  <2>3. containers' = {}
    BY <1>0 DEF OneByOne, OldIsGone
  <2> QED
    BY <2>1, <2>2, <2>3 DEF OldIsGone
<1> QED
  BY <1>3, <1>4, <1>5, <1>6 DEF OneByOne

\* The open flow moves on: queue and containers stay.
LEMMA OneMoves ==
    ASSUME TypeOK, OneByOne, NEW s \in OpenFlows, 
           NEW to \in {"assigned", "created", "failed", "attached", "unrendered"},
           start[s] \in {"creating", "assigned", "created"},
           start' = [start EXCEPT ![s] = to],
           UNCHANGED <<dismissed, uiQueue, containerView, containers, pay>>
    PROVE  Alone' /\ OldIsGone' /\ OpenFlows' = OpenFlows /\ \A t \in OpenFlows : t = s
<1>1. s \in Flows /\ s \notin dismissed /\ start \in [Flows -> States]
  BY DEF OpenFlows, Started, TypeOK, States
<1>2. Started' = Started /\ OpenFlows' = OpenFlows
  BY <1>1 DEF OpenFlows, Started
<1>3. \A t \in OpenFlows : t = s
  BY DEF OneByOne, Alone
<1>4. \A t \in dismissed : Ended(t)'
  <2>1. \A t \in dismissed : t \in Flows /\ t # s
    BY <1>1 DEF TypeOK, Started
  <2> QED
    BY <1>1, <2>1 DEF OneByOne, Alone, Ended
<1>5. Alone'
  BY <1>2, <1>3, <1>4 DEF Alone
<1>6. OldIsGone'
  BY DEF OneByOne, OldIsGone, DismissFirst
<1> QED
  BY <1>2, <1>3, <1>5, <1>6

LEMMA OneAssigns ==
    ASSUME TypeOK, OneByOne, NEW s \in Flows, AssignComponents(s)
    PROVE  OneByOne'
<1>0. /\ start[s] = "creating" /\ checkoutComponents' = s
      /\ start' = [start EXCEPT ![s] = "assigned"]
      /\ UNCHANGED <<dismissed, uiQueue, containerView, containers, component, view, googlePay, pay>>
  BY DEF AssignComponents, NewComponents
<1>1. s \in OpenFlows
  BY <1>0, WorkingIsOpen
<1>2. Alone' /\ OldIsGone' /\ OpenFlows' = OpenFlows /\ \A t \in OpenFlows : t = s
  BY <1>0, <1>1, OneMoves
<1>3. OpenIsCurrent'
  BY <1>0, <1>1, <1>2 DEF OneByOne, OpenIsCurrent, Begun
<1>4. OwnButton'
  BY <1>0 DEF OneByOne, OwnButton, TypeOK
<1> QED
  BY <1>2, <1>3, <1>4 DEF OneByOne

LEMMA OneCreates ==
    ASSUME TypeOK, OneByOne, NEW s \in Flows, CreateButton(s)
    PROVE  OneByOne'
<1>0. /\ start[s] = "assigned"
      /\ component' = [component EXCEPT ![s] = checkoutComponents]
      /\ start' = [start EXCEPT ![s] = "created"]
      /\ UNCHANGED <<dismissed, uiQueue, containerView, containers, checkoutComponents, view,
                     googlePay, pay>>
  BY DEF CreateButton
<1>1. s \in OpenFlows
  BY <1>0, WorkingIsOpen
<1>2. Alone' /\ OldIsGone' /\ OpenFlows' = OpenFlows /\ \A t \in OpenFlows : t = s
  BY <1>0, <1>1, OneMoves
<1>3. checkoutComponents = s
  BY <1>0, <1>1 DEF OneByOne, OpenIsCurrent
<1>4. OpenIsCurrent'
  BY <1>0, <1>1, <1>2, <1>3 DEF OneByOne, OpenIsCurrent, Begun
<1>5. OwnButton'
  BY <1>0, <1>3 DEF OneByOne, OwnButton, TypeOK
<1> QED
  BY <1>2, <1>4, <1>5 DEF OneByOne

LEMMA OneFails ==
    ASSUME TypeOK, OneByOne, NEW s \in Flows, CreationFails(s)
    PROVE  OneByOne'
<1>0. /\ start[s] \in {"creating", "assigned"}
      /\ start' = [start EXCEPT ![s] = "failed"]
      /\ UNCHANGED <<dismissed, uiQueue, containerView, containers, checkoutComponents, component,
                     view, googlePay, pay>>
  BY DEF CreationFails
<1>1. s \in OpenFlows
  BY <1>0, WorkingIsOpen
<1>2. Alone' /\ OldIsGone' /\ OpenFlows' = OpenFlows /\ \A t \in OpenFlows : t = s
  BY <1>0, <1>1, OneMoves
<1>3. OpenIsCurrent'
  <2>1. start'[s] = "failed"
    BY <1>0 DEF TypeOK
  <2> QED
    BY <1>0, <1>1, <1>2, <2>1 DEF OneByOne, OpenIsCurrent, Begun
<1>4. OwnButton'
  BY <1>0 DEF OneByOne, OwnButton, TypeOK
<1> QED
  BY <1>2, <1>3, <1>4 DEF OneByOne

LEMMA OneAddsView ==
    ASSUME TypeOK, OneByOne, NEW s \in Flows, NEW b \in BOOLEAN, AddView(s, b)
    PROVE  OneByOne' /\ s \in OpenFlows /\ containerView = s /\ pay[s] = "none"
<1>0. /\ start[s] = "created"
      /\ start' = [start EXCEPT ![s] = IF b THEN "attached" ELSE "unrendered"]
      /\ view' = [view EXCEPT ![s] = IF b THEN containerView ELSE None]
      /\ UNCHANGED <<dismissed, uiQueue, containerView, containers, checkoutComponents, component,
                     googlePay,
                     pay>>
  BY DEF AddView
<1>1. s \in OpenFlows /\ s # None
  BY <1>0, WorkingIsOpen, FlowsAssumption
<1>2. Alone' /\ OldIsGone' /\ OpenFlows' = OpenFlows /\ \A t \in OpenFlows : t = s
  BY <1>0, <1>1, OneMoves
<1>3. containerView = s /\ checkoutComponents = s /\ s \in containers
  BY <1>0, <1>1 DEF OneByOne, OpenIsCurrent, Begun
<1>4. pay[s] = "none"
  BY <1>0, <1>1 DEF OneByOne, OwnButton
<1>5. OpenIsCurrent'
  BY <1>0, <1>2, <1>3 DEF OpenIsCurrent
<1>6. OwnButton'
  <2>1. start \in [Flows -> States] /\ view \in [Flows -> Flows \cup {None}]
    BY DEF TypeOK, States
  <2>2. \A t \in Flows : view'[t] # None => view'[t] = t /\ start'[t] = "attached"
    BY <1>0, <1>3, <2>1 DEF OneByOne, OwnButton
  <2>3. \A t \in Flows : pay'[t] # "none" => view'[t] = t
    BY <1>0, <1>4, <2>1 DEF OneByOne, OwnButton
  <2> QED
    BY <1>0, <2>2, <2>3 DEF OneByOne, OwnButton
<1> QED
  BY <1>1, <1>2, <1>3, <1>4, <1>5, <1>6 DEF OneByOne

\* Whose button is pressed, and whose sheet opens.
LEMMA PressIsOwn ==
    ASSUME TypeOK, OneByOne, NEW s \in Flows, PressGooglePay(s)
    PROVE  component[s] = s /\ view[s] = s
BY FlowsAssumption DEF PressGooglePay, OneByOne, OwnButton, TypeOK

LEMMA OnePresses ==
    ASSUME TypeOK, OneByOne, NEW s \in Flows, PressGooglePay(s)
    PROVE  OneByOne'
<1>0. /\ view[s] \in containers /\ googlePay = None /\ pay[s] = "none"
      /\ googlePay' = s
      /\ pay' = [pay EXCEPT ![s] = "asked"]
      /\ UNCHANGED <<start, dismissed, uiQueue, containerView, containers, checkoutComponents,
                     component, view>>
  BY PressIsOwn DEF PressGooglePay
<1>1. view[s] = s /\ s # None
  BY PressIsOwn, FlowsAssumption
<1>2. Alone'
  BY <1>0 DEF OneByOne, Alone, OpenFlows, Started, Ended, TypeOK
<1>3. OpenIsCurrent'
  BY <1>0 DEF OneByOne, OpenIsCurrent, OpenFlows, Started, Begun
<1>4. OwnButton'
  BY <1>0, <1>1, FlowsAssumption DEF OneByOne, OwnButton, TypeOK
<1>5. OldIsGone'
  BY <1>0 DEF OneByOne, OldIsGone, DismissFirst
<1> QED
  BY <1>2, <1>3, <1>4, <1>5 DEF OneByOne

LEMMA OneAnswers ==
    ASSUME TypeOK, OneByOne, NEW b \in BOOLEAN, HandleActivityResult(b)
    PROVE  OneByOne'
<1> DEFINE g == googlePay
<1>0. /\ g \in Flows /\ g # None
      /\ googlePay' = None
      /\ pay' = [pay EXCEPT ![g] = IF b THEN "paid" ELSE "none"]
      /\ UNCHANGED <<start, dismissed, uiQueue, containerView, containers, checkoutComponents, component,
                     view>>
  BY PayingIsCurrent DEF HandleActivityResult, TypeOK
<1>1. g \in OpenFlows /\ pay[g] = "asked" /\ view[g] = g
  BY <1>0, PayingIsCurrent
<1> HIDE DEF g
<1>2. Alone'
  <2>1. \A t \in dismissed : t \in Flows /\ t # g
    BY <1>1 DEF TypeOK, Started, OpenFlows
  <2>2. OpenFlows' = OpenFlows
    BY <1>0 DEF OpenFlows, Started
  <2>3. \A t \in dismissed : Ended(t)'
    BY <1>0, <2>1 DEF OneByOne, Alone, Ended, TypeOK
  <2> QED
    BY <1>0, <2>2, <2>3 DEF OneByOne, Alone
<1>3. OpenIsCurrent'
  BY <1>0 DEF OneByOne, OpenIsCurrent, OpenFlows, Started, Begun
<1>4. OwnButton'
  <2>1. pay \in [Flows -> {"none", "asked", "paid"}] /\ None \notin Flows
    BY FlowsAssumption DEF TypeOK
  <2>2. \A t \in Flows : pay[t] = "asked" <=> t = g
    BY DEF OneByOne, OwnButton, g
  <2>3. \A t \in Flows : pay'[t] # "asked"
    BY <1>0, <2>1, <2>2
  <2>4. \A t \in Flows : pay'[t] # "none" => view[t] = t
    BY <1>0, <1>1, <2>1 DEF OneByOne, OwnButton
  <2> QED
    BY <1>0, <2>1, <2>3, <2>4 DEF OneByOne, OwnButton
<1>5. OldIsGone'
  BY <1>0 DEF OneByOne, OldIsGone, DismissFirst
<1> QED
  BY <1>2, <1>3, <1>4, <1>5 DEF OneByOne

LEMMA OneStutters == ASSUME OneByOne, UNCHANGED vars PROVE OneByOne'
BY DEF vars, OneByOne, Alone, OpenIsCurrent, OwnButton, OldIsGone, DismissFirst, OpenFlows, Started,
       Ended, Begun

LEMMA PatientOneByOneStep ==
    TypeOK /\ InOrder /\ PatientOneByOne /\ [Next]_vars => PatientOneByOne'
<1> SUFFICES ASSUME TypeOK, InOrder, OneByOne, patient, [Next]_vars
             PROVE  OneByOne'
  BY PatientStep, Zenon DEF PatientOneByOne
<1> QED
  BY OneStart, OneDismissal, OneRunStart, OneRunDismiss, OneAssigns, OneCreates, OneFails,
     OneAddsView, OnePresses, OneAnswers, OneStutters, Steps, Zenon

\* For a patient JavaScript nothing of an earlier flow is left when a flow
\* starts, and what a payment reaches is its own.
THEOREM PatientIsOneByOne == Spec => []PatientOneByOne
<1>1. Init => PatientOneByOne
  BY FlowsAssumption DEF Init, PatientOneByOne, OneByOne, Alone, OpenIsCurrent, OwnButton, OldIsGone,
         DismissFirst, OpenFlows, Started,
       Ended, Begun
<1> QED
  BY <1>1, PatientOneByOneStep, StartsInOrder, TypeCorrect, PTL DEF Spec
-----------------------------------------------------------------------------
\* The safety half of PaidLeaves: while the button of a flow that was paid is
\* on the screen, a patient JavaScript can dismiss it, or has: then the task is
\* the first of the UI thread, and nothing is on the screen after it.
PaidCanLeave ==
    patient => \A s \in OnScreen :
        pay[s] = "paid" =>
            \/ Started # dismissed /\ \A t \in Started : Ended(t)
            \/ DismissFirst /\ containers \ Removed = {}

LEMMA PaidIsLeaving == TypeOK /\ PatientOneByOne => PaidCanLeave
<1> SUFFICES ASSUME TypeOK, OneByOne, NEW s \in OnScreen, pay[s] = "paid"
             PROVE  \/ Started # dismissed /\ \A t \in Started : Ended(t)
                    \/ DismissFirst /\ containers \ Removed = {}
  BY Zenon DEF PatientOneByOne, PaidCanLeave
<1>1. s \in Started /\ view[s] = s /\ s \in containers /\ containerView = s
  BY FlowsAssumption DEF OnScreen, OneByOne, OwnButton, OldIsGone, Started, TypeOK
<1>2. CASE s \in dismissed
  <2>1. DismissFirst /\ containers \subseteq {containerView}
    BY <1>1, <1>2 DEF OneByOne, OldIsGone
  <2> QED
    BY <2>1 DEF Removed
<1>3. CASE s \notin dismissed
  <2>1. \A t \in Started : t \in dismissed \/ t = s
    BY <1>1, <1>3 DEF OneByOne, Alone, OpenFlows
  <2>2. \A t \in Started : Ended(t)
    BY <2>1 DEF OneByOne, Alone, Ended
  <2> QED
    BY <1>1, <1>3, <2>2
<1> QED
  BY <1>2, <1>3

\* For a patient JavaScript no flow that was paid is left on the screen
\* without a call, or a task, that takes it away.
THEOREM PaidFlowsCanLeave == Spec => []PaidCanLeave
BY PaidIsLeaving, PatientIsOneByOne, TypeCorrect, PTL
-----------------------------------------------------------------------------
\* A patient JavaScript sees the flow of the remembered container, or none.
ShownIsContainer ==
    /\ \A s \in OnScreen : s \in Flows /\ s = containerView /\ view[s] = s /\ start[s] = "attached"
    /\ \A s \in OnScreen : Shown = s
    /\ OnScreen = {} => Shown = None

LEMMA ShownIs == TypeOK /\ OneByOne /\ patient => ShownIsContainer
<1> SUFFICES ASSUME TypeOK, OneByOne, patient
             PROVE  ShownIsContainer
  OBVIOUS
<1>1. \A s \in OnScreen : s \in Flows /\ s = containerView /\ view[s] = s /\ start[s] = "attached"
  <2> SUFFICES ASSUME NEW s \in OnScreen
               PROVE  s \in Flows /\ s = containerView /\ view[s] = s /\ start[s] = "attached"
    OBVIOUS
  <2>1. s \in Flows /\ view[s] \in containers
    BY DEF OnScreen
  <2>2. view[s] # None
    BY <2>1, FlowsAssumption DEF TypeOK
  <2>3. view[s] = s /\ start[s] = "attached"
    BY <2>1, <2>2 DEF OneByOne, OwnButton
  <2>4. s = containerView
    BY <2>1, <2>3 DEF OneByOne, OldIsGone
  <2> QED
    BY <2>1, <2>3, <2>4
<1>2. \A s \in OnScreen : Shown = s
  BY <1>1 DEF Shown
<1>3. OnScreen = {} => Shown = None
  BY Zenon DEF Shown
<1> QED
  BY <1>1, <1>2, <1>3 DEF ShownIsContainer

LEMMA SessionStep ==
    TypeOK /\ InOrder /\ PatientOneByOne /\ [Next]_vars /\ TypeOK' /\ PatientOneByOne'
        => [Session!Next]_<<Shown, PayOfPatient, TRUE>>
<1> SUFFICES ASSUME TypeOK, InOrder, PatientOneByOne, [Next]_vars, TypeOK', PatientOneByOne'
             PROVE  [Session!Next]_<<Shown, PayOfPatient, TRUE>>
  OBVIOUS
<1> DEFINE Goal == [Session!Next]_<<Shown, PayOfPatient, TRUE>>
<1>1. CASE ~patient
  <2>1. patient' = patient
    BY PatientStep
  <2> QED
    BY <1>1, <2>1, Zenon DEF Shown, PayOfPatient
<1>2. CASE patient
  <2>0. OneByOne /\ OneByOne' /\ patient' /\ PayOfPatient = pay /\ PayOfPatient' = pay'
    BY <1>2, PatientStep DEF PatientOneByOne, PayOfPatient
  <2>1. /\ \A s \in OnScreen :
                  s \in Flows /\ s = containerView /\ view[s] = s /\ start[s] = "attached"
        /\ \A s \in OnScreen : Shown = s
        /\ OnScreen = {} => Shown = None
    BY <1>2, <2>0, ShownIs DEF ShownIsContainer
  <2>2. /\ \A s \in OnScreen' :
                  s \in Flows /\ s = containerView' /\ view'[s] = s /\ start'[s] = "attached"
        /\ \A s \in OnScreen' : Shown' = s
        /\ OnScreen' = {} => Shown' = None
    <3>1. (TypeOK /\ OneByOne /\ patient => ShownIsContainer)'
      BY ShownIs, PTL
    <3> QED
      BY <3>1, <2>0 DEF ShownIsContainer
  <2>3. ASSUME OnScreen' = OnScreen, UNCHANGED pay PROVE Goal
    <3>1. Shown' = Shown
      BY <2>1, <2>2, <2>3
    <3> QED
      BY <3>1, <2>0, <2>3
  <2>4. ASSUME UNCHANGED <<view, containers, pay>> PROVE Goal
    BY <2>3, <2>4 DEF OnScreen
  <2>5. ASSUME NEW s \in Flows, StartPaymentSession(s) PROVE Goal
    BY <2>4, <2>5 DEF StartPaymentSession
  <2>6. ASSUME DismissFlow PROVE Goal
    BY <2>4, <2>6 DEF DismissFlow
  <2>7. ASSUME RunStart PROVE Goal
    <3> DEFINE s == Head(uiQueue).flow
    <3>1. /\ uiQueue # <<>> /\ Head(uiQueue).op = "start"
          /\ containers' = containers \cup {s}
          /\ UNCHANGED <<view, pay>>
      BY <2>7 DEF RunStart, NewContainer
    <3>2. containers = {}
      BY <3>1, <2>0, CleanStart
    <3>3. s \in Flows /\ start[s] = "posted"
      BY <3>1, FirstTask DEF InOrder, NewestStart
    <3> HIDE DEF s
    <3>4. \A t \in Flows : view[t] # s
      BY <3>3, <2>0, FlowsAssumption DEF OneByOne, OwnButton
    <3>5. OnScreen = {} /\ OnScreen' = {}
      BY <3>1, <3>2, <3>4 DEF OnScreen
    <3> QED
      BY <3>1, <3>5, <2>3
  <2>8. ASSUME RunDismiss PROVE Goal
    <3>1. containerView \in dismissed
      BY <2>0, <2>8, DismissalIsFirst
    <3>2. containers' = {} /\ UNCHANGED pay
      BY <2>0, <2>8 DEF RunDismiss, Removed, OneByOne, OldIsGone
    <3>3. OnScreen' = {} /\ Shown' = None
      BY <3>2, <2>2 DEF OnScreen
    <3>4. CASE OnScreen = {}
      BY <3>2, <3>3, <3>4, <2>3
    <3>5. ASSUME NEW s \in OnScreen PROVE Goal
      <4>1. s \in Flows /\ s \in dismissed /\ start[s] = "attached" /\ Shown = s
        BY <3>1, <3>5, <2>1
      <4>2. pay[s] = "paid"
        BY <4>1, <2>0 DEF OneByOne, Alone, Ended
      <4>3. Session!Close
        BY <4>1, <4>2, <3>2, <3>3, <2>0, FlowsAssumption DEF Session!Close
      <4> QED
        BY <4>3 DEF Session!Next
    <3> QED
      BY <3>4, <3>5
  <2>9. ASSUME NEW s \in Flows, AssignComponents(s) PROVE Goal
    BY <2>4, <2>9 DEF AssignComponents
  <2>16. ASSUME NEW s \in Flows, CreateButton(s) PROVE Goal
    BY <2>4, <2>16 DEF CreateButton
  <2>10. ASSUME NEW s \in Flows, CreationFails(s) PROVE Goal
    BY <2>4, <2>10 DEF CreationFails
  <2>11. ASSUME NEW s \in Flows, NEW b \in BOOLEAN, AddView(s, b) PROVE Goal
    <3>1. s \in OpenFlows /\ containerView = s /\ pay[s] = "none"
      BY <2>0, <2>11, OneAddsView
    <3>2. start[s] = "created" /\ UNCHANGED <<containers, containerView, pay>>
      BY <2>11 DEF AddView
    <3>3. OnScreen = {}
      BY <3>1, <3>2, <2>1
    <3>4. CASE OnScreen' = {}
      BY <3>2, <3>3, <3>4, <2>3
    <3>5. ASSUME NEW t \in OnScreen' PROVE Goal
      <4>1. Shown = None /\ Shown' = s
        BY <3>1, <3>2, <3>3, <3>5, <2>1, <2>2
      <4>2. Session!Open(s)
        BY <4>1, <3>1, <3>2, <2>0 DEF Session!Open
      <4> QED
        BY <4>2 DEF Session!Next
    <3> QED
      BY <3>4, <3>5
  <2>12. ASSUME NEW s \in Flows, PressGooglePay(s) PROVE Goal
    <3>1. s \in OnScreen /\ pay[s] = "none" /\ UNCHANGED <<view, containers>>
          /\ pay' = [pay EXCEPT ![s] = "asked"]
      BY <2>0, <2>12, PressIsOwn DEF PressGooglePay, OnScreen
    <3>2. s \in OnScreen'
      BY <3>1 DEF OnScreen
    <3>3. Shown = s /\ Shown' = s /\ s # None
      BY <3>1, <3>2, <2>1, <2>2, FlowsAssumption
    <3>4. Session!Ask
      BY <3>1, <3>3, <2>0 DEF Session!Ask
    <3> QED
      BY <3>4 DEF Session!Next
  <2>13. ASSUME NEW b \in BOOLEAN, HandleActivityResult(b) PROVE Goal
    <3> DEFINE g == googlePay
    <3>1. /\ g \in Flows /\ pay[g] = "asked" /\ view[g] = g /\ g \in containers
          /\ UNCHANGED <<view, containers>>
          /\ pay' = [pay EXCEPT ![g] = IF b THEN "paid" ELSE "none"]
      BY <2>0, <2>13, PayingIsCurrent DEF HandleActivityResult, TypeOK
    <3> HIDE DEF g
    <3>2. g \in OnScreen /\ g \in OnScreen'
      BY <3>1 DEF OnScreen
    <3>3. Shown = g /\ Shown' = g /\ g # None
      BY <3>1, <3>2, <2>1, <2>2, FlowsAssumption
    <3>4. Session!Answer(b)
      BY <3>1, <3>3, <2>0 DEF Session!Answer
    <3> QED
      BY <3>4 DEF Session!Next
  <2>14. ASSUME UNCHANGED vars PROVE Goal
    BY <2>4, <2>14 DEF vars
  <2> HIDE DEF Goal
  <2>15. Goal
    BY <2>5, <2>6, <2>7, <2>8, <2>9, <2>10, <2>11, <2>12, <2>13, <2>14, <2>16, Steps, Zenon
  <2> QED
    BY <2>15 DEF Goal
<1> QED
  BY <1>1, <1>2

\* For a patient JavaScript FlowModule implements the one flow at a time that
\* App.tsx counts on, for any number of flows.
THEOREM ImplementsFlowSession == Spec => OneFlowAtATime
<1>1. Init => Session!Init
  BY DEF Init, Session!Init, Shown, OnScreen, PayOfPatient
<1>2. Session!vars = <<Shown, PayOfPatient, TRUE>>
  BY DEF Session!vars
<1> QED
  BY <1>1, <1>2, SessionStep, PatientIsOneByOne, StartsInOrder, TypeCorrect, PTL
     DEF Spec, OneFlowAtATime, Session!Spec, Session!vars
=============================================================================
