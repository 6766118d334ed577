------------------------- MODULE CardHeight_proofs -------------------------
(***************************************************************************)
(* For all heights and densities: the types of CardHeight, and that what   *)
(* is drawn is what was reported.                                          *)
(***************************************************************************)
EXTENDS CardHeight, TLAPS

\* A step of the specification is one of its actions.
LEMMA Steps ==
    ASSUME NEW P, [Next]_vars,
           UpdateLayout => P, UpdateLayoutDetached => P,
           RunLayout => P, ProvideView => P, AddView => P, Draw => P,
           \A h \in Heights : ContentChanges(h) => P,
           OnChange => P, StopsChanging => P, Attach => P, Detach => P,
           UNCHANGED vars => P
    PROVE  P
BY Zenon DEF Next

\* Both ways of measuring the form give a height that may be reported.
LEMMA ReportableHeights ==
    ASSUME TypeOK
    PROVE  /\ Measured \in Reportable
           /\ Sampled \in Reportable
<1>1. Narrow \in Reportable /\ 0 \in Reportable /\ 1 \in Reportable /\ content \in Reportable
  BY Zenon DEF TypeOK, Reportable
<1>2. AtLeastOne(content) \in Reportable
  BY <1>1, Zenon DEF AtLeastOne
<1>3. Measured \in Reportable
  <2>1. CASE FormInWindow
    BY <2>1, <1>2 DEF Measured, FormInWindow
  <2>2. CASE ~FormInWindow /\ form = "added"
    BY <2>2, <1>1 DEF Measured, FormInWindow, TypeOK
  <2>3. CASE ~FormInWindow /\ form # "added"
    BY <2>3, <1>1 DEF Measured, FormInWindow
  <2> QED
    BY <2>1, <2>2, <2>3, Zenon
<1>4. laidOut \in Reportable
  BY Zenon DEF TypeOK, Reportable
<1>5. Sampled \in Reportable
  BY <1>1, <1>4, Zenon DEF Sampled
<1> QED
  BY <1>3, <1>5

\* A report keeps the types of what was reported.
LEMMA EmitType ==
    ASSUME TypeOK, NEW h \in Reportable, Emit(h)
    PROVE  /\ lastReportedHeightPx' \in Reportable
           /\ told' \in {g \div Density : g \in Reportable}
<1>1. lastReportedHeightPx \in Reportable /\ told \in {g \div Density : g \in Reportable}
  BY Zenon DEF TypeOK
<1>2. InDp(h) \in {g \div Density : g \in Reportable}
  BY Zenon DEF InDp
<1> QED
  BY <1>1, <1>2, Zenon DEF Emit

LEMMA LayOutType ==
    ASSUME TypeOK, LayOut
    PROVE  /\ lastReportedHeightPx' \in Reportable
           /\ told' \in {g \div Density : g \in Reportable}
           /\ laidOut' \in Heights \cup {0}
<1>1. lastReportedHeightPx' \in Reportable /\ told' \in {g \div Density : g \in Reportable}
  BY ReportableHeights, EmitType, Zenon DEF LayOut
<1>2. laidOut' \in Heights \cup {0}
  BY Zenon DEF LayOut, TypeOK
<1> QED
  BY <1>1, <1>2

LEMMA SampleType ==
    ASSUME TypeOK, NEW more \in Nat, Sample(more)
    PROVE  /\ lastReportedHeightPx' \in Reportable
           /\ told' \in {g \div Density : g \in Reportable}
           /\ posts' \in Nat
<1>1. lastReportedHeightPx' \in Reportable /\ told' \in {g \div Density : g \in Reportable}
  BY ReportableHeights, EmitType, Zenon DEF Sample
<1>2. posts' \in Nat
  BY DEF Sample, TypeOK
<1> QED
  BY <1>1, <1>2

LEMMA TypeOKStep == TypeOK /\ [Next]_vars => TypeOK'
<1> SUFFICES ASSUME TypeOK, [Next]_vars
             PROVE  TypeOK'
  OBVIOUS
<1>1. ASSUME UpdateLayout PROVE TypeOK'
  BY <1>1, LayOutType DEF UpdateLayout, TypeOK
<1>12. ASSUME UpdateLayoutDetached PROVE TypeOK'
  BY <1>12 DEF UpdateLayoutDetached, TypeOK
<1>2. ASSUME RunLayout PROVE TypeOK'
  <2>1. posts' \in Nat
    BY <1>2 DEF RunLayout, TypeOK
  <2>2. /\ lastReportedHeightPx' \in Reportable
        /\ told' \in {g \div Density : g \in Reportable}
        /\ laidOut' \in Heights \cup {0}
    <3>1. CASE width
      BY <3>1, <1>2, LayOutType, Zenon DEF RunLayout
    <3>2. CASE ~width
      BY <3>2, <1>2 DEF RunLayout, TypeOK
    <3> QED
      BY <3>1, <3>2
  <2> QED
    BY <1>2, <2>1, <2>2 DEF RunLayout, TypeOK
<1>3. ASSUME ProvideView PROVE TypeOK'
  BY <1>3 DEF ProvideView, TypeOK
<1>4. ASSUME AddView PROVE TypeOK'
  BY <1>4 DEF AddView, PostsOfAttach, TypeOK
<1>5. ASSUME Draw PROVE TypeOK'
  BY <1>5, SampleType DEF Draw, TypeOK
<1>6. ASSUME NEW h \in Heights, ContentChanges(h) PROVE TypeOK'
  BY <1>6 DEF ContentChanges, RequestLayout, TypeOK
<1>7. ASSUME OnChange PROVE TypeOK'
  <2>1. /\ lastReportedHeightPx' \in Reportable
        /\ told' \in {g \div Density : g \in Reportable}
        /\ posts' \in Nat
    <3>1. CASE Sample(RequestLayout)
      BY <3>1, SampleType DEF RequestLayout
    <3>2. CASE ~Sample(RequestLayout)
      BY <3>2, <1>7 DEF OnChange, RequestLayout, TypeOK
    <3> QED
      BY <3>1, <3>2
  <2> QED
    BY <1>7, <2>1 DEF OnChange, TypeOK
<1>8. ASSUME StopsChanging PROVE TypeOK'
  BY <1>8 DEF StopsChanging, TypeOK
<1>9. ASSUME Attach PROVE TypeOK'
  BY <1>9 DEF Attach, TypeOK
<1>10. ASSUME Detach PROVE TypeOK'
  BY <1>10 DEF Detach, TypeOK
<1>11. ASSUME UNCHANGED vars PROVE TypeOK'
  BY <1>11 DEF vars, TypeOK
<1> QED
  BY <1>1, <1>2, <1>3, <1>4, <1>5, <1>6, <1>7, <1>8, <1>9, <1>10, <1>11, <1>12, Steps, Zenon

\* The variables of the height reporting keep their types.
THEOREM TypeCorrect == Spec => []TypeOK
<1>1. Init => TypeOK
  <2> SUFFICES ASSUME Init PROVE TypeOK
    OBVIOUS
  <2>1. 0 \in Reportable /\ 0 \div Density = 0
    BY DensityAssumption DEF Reportable
  <2>2. told \in {h \div Density : h \in Reportable}
    BY <2>1 DEF Init
  <2> QED
    BY <2>1, <2>2 DEF Init, TypeOK
<1> QED
  BY <1>1, TypeOKStep, PTL DEF Spec
-----------------------------------------------------------------------------
\* The inductive invariant: only a form that was added is laid out, and it is
\* sampled only as long as it never left the window.
AddedFirst == laidOut > 0 => form = "added"
SampledInWindow == sampling => inWindow

Drawn == DrawnIsReported /\ AddedFirst /\ SampledInWindow

\* A layout of the form in the window reports its height, and one of a form
\* out of the window too, by layoutRunnable.
LEMMA LayOutReports ==
    ASSUME TypeOK, DrawnIsReported, LayOut, UNCHANGED sampling
    PROVE  DrawnIsReported'
<1>1. content \in Nat /\ lastReportedHeightPx \in Nat
  <2>1. content \in Heights /\ lastReportedHeightPx \in Reportable
    BY Zenon DEF TypeOK
  <2>2. Reportable \subseteq Nat
    BY HeightsAssumption DEF Reportable
  <2> QED
    BY <2>1, <2>2, HeightsAssumption
<1>2. CASE form = "added"
  <2>1. content > 0 => Measured = content
    BY <1>1, <1>2 DEF Measured, FormInWindow, AtLeastOne, TypeOK
  <2> QED
    BY <1>1, <1>2, <2>1 DEF LayOut, Emit, NewsOnly, DrawnIsReported
<1>3. CASE form # "added"
  <2>1. Measured = 0
    BY <1>3 DEF Measured, FormInWindow
  <2> QED
    BY <1>3, <2>1 DEF LayOut, Emit, NewsOnly, DrawnIsReported
<1> QED
  BY <1>2, <1>3

\* A sample of a form that is laid out reports what the layout reported.
LEMMA SampleAgrees ==
    ASSUME TypeOK, DrawnIsReported, NEW more, Sample(more), UNCHANGED <<laidOut, sampling>>,
           sampling \/ ~(laidOut > 0)
    PROVE  DrawnIsReported'
BY DEF Sample, Sampled, Emit, NewsOnly, DrawnIsReported

LEMMA DrawnStep == TypeOK /\ Drawn /\ [Next]_vars => Drawn'
<1> SUFFICES ASSUME TypeOK, Drawn, [Next]_vars
             PROVE  Drawn'
  OBVIOUS
<1>0. ASSUME UNCHANGED <<laidOut, lastReportedHeightPx, sampling>> PROVE DrawnIsReported'
  BY <1>0 DEF Drawn, DrawnIsReported
<1>1. ASSUME UpdateLayout PROVE Drawn'
  <2>1. LayOut /\ UNCHANGED <<form, sampling, inWindow>>
    BY <1>1, Zenon DEF UpdateLayout
  <2>2. DrawnIsReported'
    BY <2>1, LayOutReports DEF Drawn
  <2> QED
    BY <2>1, <2>2 DEF LayOut, Drawn, AddedFirst, SampledInWindow
<1>12. ASSUME UpdateLayoutDetached PROVE Drawn'
  <2>1. /\ ~inWindow /\ ~sampling
        /\ UNCHANGED <<form, sampling, inWindow>>
        /\ form # "added" => UNCHANGED laidOut
    BY <1>12 DEF UpdateLayoutDetached, Drawn, SampledInWindow
  <2> QED
    BY <2>1 DEF Drawn, DrawnIsReported, AddedFirst, SampledInWindow
<1>2. ASSUME RunLayout PROVE Drawn'
  <2>1. UNCHANGED <<form, sampling, inWindow>>
    BY <1>2 DEF RunLayout
  <2>2. CASE width
    <3>1. LayOut
      BY <1>2, <2>2, Zenon DEF RunLayout
    <3>2. DrawnIsReported'
      BY <2>1, <3>1, LayOutReports DEF Drawn
    <3> QED
      BY <2>1, <3>1, <3>2 DEF LayOut, Drawn, AddedFirst, SampledInWindow
  <2>3. CASE ~width
    BY <1>2, <2>1, <2>3 DEF RunLayout, Drawn, DrawnIsReported, AddedFirst, SampledInWindow
  <2> QED
    BY <2>2, <2>3
<1>3. ASSUME ProvideView PROVE Drawn'
  BY <1>3, <1>0 DEF ProvideView, Drawn, AddedFirst, SampledInWindow
<1>4. ASSUME AddView PROVE Drawn'
  <2>1. ~(laidOut > 0)
    BY <1>4 DEF AddView, Drawn, AddedFirst
  <2>2. inWindow' /\ UNCHANGED laidOut
    BY <1>4 DEF AddView
  <2> QED
    BY <2>1, <2>2 DEF Drawn, DrawnIsReported, AddedFirst, SampledInWindow
<1>5. ASSUME Draw PROVE Drawn'
  <2>1. sampling /\ Sample(0) /\ UNCHANGED <<laidOut, sampling, form, inWindow>>
    BY <1>5 DEF Draw
  <2>2. DrawnIsReported'
    BY <2>1, SampleAgrees DEF Drawn
  <2> QED
    BY <2>1, <2>2 DEF Drawn, AddedFirst, SampledInWindow
<1>6. ASSUME NEW h \in Heights, ContentChanges(h) PROVE Drawn'
  BY <1>6, <1>0 DEF ContentChanges, Drawn, AddedFirst, SampledInWindow
<1>7. ASSUME OnChange PROVE Drawn'
  <2>1. UNCHANGED <<laidOut, sampling, form, inWindow>>
    BY <1>7 DEF OnChange
  <2>2. DrawnIsReported'
    <3>1. CASE Sample(RequestLayout) /\ sampling
      BY <2>1, <3>1, SampleAgrees DEF Drawn
    <3>2. CASE ~sampling
      BY <2>1, <3>2 DEF DrawnIsReported
    <3>3. CASE ~Sample(RequestLayout)
      BY <1>7, <1>0, <3>3 DEF OnChange
    <3> QED
      BY <3>1, <3>2, <3>3
  <2> QED
    BY <2>1, <2>2 DEF Drawn, AddedFirst, SampledInWindow
<1>8. ASSUME StopsChanging PROVE Drawn'
  BY <1>8, <1>0 DEF StopsChanging, Drawn, AddedFirst, SampledInWindow
<1>9. ASSUME Attach PROVE Drawn'
  BY <1>9, <1>0 DEF Attach, Drawn, AddedFirst, SampledInWindow
<1>10. ASSUME Detach PROVE Drawn'
  BY <1>10 DEF Detach, Drawn, DrawnIsReported, AddedFirst, SampledInWindow
<1>11. ASSUME UNCHANGED vars PROVE Drawn'
  BY <1>11, <1>0 DEF vars, Drawn, AddedFirst, SampledInWindow
<1> QED
  BY <1>1, <1>2, <1>3, <1>4, <1>5, <1>6, <1>7, <1>8, <1>9, <1>10, <1>11, <1>12, Steps, Zenon

LEMMA DrawnInvariance == Spec => []Drawn
<1>1. Init => Drawn
  BY DEF Init, Drawn, DrawnIsReported, AddedFirst, SampledInWindow
<1> QED
  BY <1>1, DrawnStep, TypeCorrect, PTL DEF Spec

\* What CardView.kt draws of a form it samples, it has reported, for all
\* heights.
THEOREM DrawnIsAlwaysReported == Spec => []DrawnIsReported
BY DrawnInvariance, PTL DEF Drawn
-----------------------------------------------------------------------------
(***************************************************************************)
(* The loop.  Its inductive invariant: JavaScript knows the last report,   *)
(* if it is a height in dp; and a form whose content is not what was       *)
(* reported and laid out last has a layout queued.                         *)
(***************************************************************************)
ToldLastReport == InDp(lastReportedHeightPx) > 0 => told = InDp(lastReportedHeightPx)
LayoutIsQueued ==
    width /\ form = "added" /\ posts = 0 =>
        /\ sampling => laidOut = content
        /\ content > 0 => lastReportedHeightPx = content

Loop == ToldLastReport /\ LayoutIsQueued

\* A report leaves JavaScript with the last report.
LEMMA EmitTells ==
    ASSUME NEW h, ToldLastReport, Emit(h)
    PROVE  ToldLastReport'
BY DEF ToldLastReport, Emit, InDp

\* What a layout does to the two parts.
LEMMA LayOutLoop ==
    ASSUME TypeOK, Loop, LayOut, UNCHANGED <<content, form>>
    PROVE  Loop'
<1>1. ToldLastReport'
  BY EmitTells DEF Loop, LayOut
<1>2. ASSUME form = "added" PROVE laidOut' = content /\ (content > 0 => lastReportedHeightPx' = content)
  <2>1. content > 0 => Measured = content
    BY <1>2 DEF Measured, FormInWindow, AtLeastOne, TypeOK
  <2> QED
    BY <1>2, <2>1 DEF LayOut, Emit, NewsOnly
<1> QED
  BY <1>1, <1>2 DEF Loop, LayoutIsQueued

\* A sample that is news asks for a layout, and none takes one away.
LEMMA SampleLoop ==
    ASSUME TypeOK, Loop, NEW more \in Nat, Sample(more),
           UNCHANGED <<content, width, form, laidOut, sampling>>
    PROVE  Loop'
<1>1. ToldLastReport'
  BY EmitTells DEF Loop, Sample
<1>2. posts' = 0 => posts = 0 /\ UNCHANGED lastReportedHeightPx
  BY DEF Sample, AsksForLayout, Emit, NewsOnly, TypeOK
<1> QED
  BY <1>1, <1>2 DEF Loop, LayoutIsQueued

LEMMA LoopStep == TypeOK /\ Loop /\ Drawn /\ [Next]_vars => Loop'
<1> SUFFICES ASSUME TypeOK, Loop, Drawn, [Next]_vars
             PROVE  Loop'
  OBVIOUS
<1>0. ASSUME UNCHANGED <<lastReportedHeightPx, told>> PROVE ToldLastReport'
  BY <1>0 DEF Loop, ToldLastReport
<1>1. ASSUME UpdateLayout PROVE Loop'
  BY <1>1, LayOutLoop DEF UpdateLayout
<1>12. ASSUME UpdateLayoutDetached PROVE Loop'
  BY <1>0, <1>12 DEF UpdateLayoutDetached, Loop, Drawn, SampledInWindow, LayoutIsQueued
<1>2. ASSUME RunLayout PROVE Loop'
  <2>1. CASE width
    BY <1>2, <2>1, LayOutLoop DEF RunLayout
  <2>2. CASE ~width
    BY <1>0, <1>2, <2>2 DEF RunLayout, Loop, LayoutIsQueued
  <2> QED
    BY <2>1, <2>2
<1>3. ASSUME ProvideView PROVE Loop'
  BY <1>0, <1>3 DEF ProvideView, Loop, LayoutIsQueued
<1>4. ASSUME AddView PROVE Loop'
  BY <1>0, <1>4 DEF AddView, PostsOfAttach, TypeOK, Loop, LayoutIsQueued
<1>5. ASSUME Draw PROVE Loop'
  BY <1>5, SampleLoop DEF Draw
<1>6. ASSUME NEW h \in Heights, ContentChanges(h) PROVE Loop'
  BY <1>0, <1>6 DEF ContentChanges, RequestLayout, TypeOK, Loop, LayoutIsQueued
<1>7. ASSUME OnChange PROVE Loop'
  <2>1. CASE Sample(RequestLayout)
    BY <1>7, <2>1, SampleLoop DEF OnChange, RequestLayout
  <2>2. CASE ~Sample(RequestLayout)
    BY <1>0, <1>7, <2>2 DEF OnChange, RequestLayout, TypeOK, Loop, LayoutIsQueued
  <2> QED
    BY <2>1, <2>2
<1>8. ASSUME StopsChanging PROVE Loop'
  BY <1>0, <1>8 DEF StopsChanging, Loop, LayoutIsQueued
<1>9. ASSUME Attach PROVE Loop'
  BY <1>0, <1>9 DEF Attach, Loop, LayoutIsQueued
<1>10. ASSUME Detach PROVE Loop'
  BY <1>0, <1>10 DEF Detach, Loop, LayoutIsQueued
<1>11. ASSUME UNCHANGED vars PROVE Loop'
  BY <1>0, <1>11 DEF vars, Loop, LayoutIsQueued
<1> QED
  BY <1>1, <1>2, <1>3, <1>4, <1>5, <1>6, <1>7, <1>8, <1>9, <1>10, <1>11, <1>12, Steps, Zenon

LEMMA LoopInvariance == Spec => []Loop
<1>1. ASSUME Init PROVE Loop
  <2>1. InDp(0) = 0
    BY DensityAssumption DEF InDp
  <2> QED
    BY <1>1, <2>1 DEF Init, Loop, ToldLastReport, LayoutIsQueued
<1> QED
  BY <1>1, LoopStep, TypeCorrect, DrawnInvariance, PTL DEF Spec

\* When the loop of CardView.kt's samples and layouts has come to rest,
\* JavaScript knows the form's height, and a form that is sampled is laid out
\* at it: the part of LoopEnds that is about what it ends in.
THEOREM RestsAtTheHeight == Spec => []QuietIsRight
<1>1. ASSUME TypeOK, Loop PROVE QuietIsRight
  <2> SUFFICES ASSUME width, form = "added", posts = 0
               PROVE  /\ sampling => laidOut = content
                      /\ content > 0 => lastReportedHeightPx = content
                      /\ content \div Density > 0 => told = content \div Density
    BY DEF QuietIsRight
  <2>1. sampling => laidOut = content
    BY <1>1 DEF Loop, LayoutIsQueued
  <2>2. content > 0 => lastReportedHeightPx = content
    BY <1>1 DEF Loop, LayoutIsQueued
  <2>3. content \in Nat
    BY <1>1, HeightsAssumption DEF TypeOK
  <2>4. content \div Density > 0 => content > 0
    <3>1. 0 \div Density = 0
      BY DensityAssumption
    <3> QED
      BY <2>3, <3>1
  <2> QED
    BY <1>1, <2>1, <2>2, <2>4 DEF Loop, ToldLastReport, InDp
<1> QED
  BY <1>1, TypeCorrect, LoopInvariance, PTL

\* And it does come to rest: frames and layouts of a form that is laid out
\* and does not change use up what is queued, and ask for nothing.
THEOREM LoopOnlyShrinks == Spec => LoopShrinks
<1>1. ASSUME TypeOK, Drawn, [Next]_vars
      PROVE  [laidOut > 0 /\ ~changing => posts' <= posts]_vars
  <2> SUFFICES ASSUME laidOut > 0, ~changing
               PROVE  posts' <= posts
    OBVIOUS
  <2>0. ASSUME UNCHANGED posts PROVE posts' <= posts
    BY <1>1, <2>0 DEF TypeOK
  <2>1. ASSUME UpdateLayout \/ UpdateLayoutDetached \/ ProvideView \/ StopsChanging \/ Attach
                 \/ Detach
        PROVE  posts' <= posts
    BY <2>0, <2>1 DEF UpdateLayout, UpdateLayoutDetached, ProvideView, StopsChanging, Attach, Detach
  <2>2. ASSUME RunLayout PROVE posts' <= posts
    BY <1>1, <2>2 DEF RunLayout, TypeOK
  <2>3. ~AddView
    BY <1>1 DEF AddView, Drawn, AddedFirst
  <2>4. ASSUME Draw PROVE posts' <= posts
    <3>1. Sampled = lastReportedHeightPx
      BY <1>1, <2>4 DEF Draw, Sampled, Drawn, DrawnIsReported
    <3>2. posts' = posts + 0 + 0
      BY <2>4, <3>1 DEF Draw, Sample, AsksForLayout
    <3> QED
      BY <1>1, <3>2 DEF TypeOK
  <2>5. ~OnChange /\ \A h \in Heights : ~ContentChanges(h)
    BY DEF OnChange, ContentChanges
  <2>6. ASSUME UNCHANGED vars PROVE posts' <= posts
    BY <2>0, <2>6 DEF vars
  <2> QED
    BY <1>1, <2>1, <2>2, <2>3, <2>4, <2>5, <2>6 DEF Next
<1> QED
  BY <1>1, TypeCorrect, DrawnInvariance, PTL DEF Spec, LoopShrinks
=============================================================================
