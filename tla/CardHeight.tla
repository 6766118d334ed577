----------------------------- MODULE CardHeight -----------------------------
(***************************************************************************)
(* How CardView.kt measures, lays out and reports the height of the card   *)
(* form on Android.  React Native's containers ignore requestLayout, so    *)
(* that the view posts a runnable to lay itself out; and since the form is *)
(* a Compose view that may change at any frame, its height is also sampled *)
(* before every draw and at every change, and a sample that differs from   *)
(* the last report asks for another layout.                                *)
(*                                                                         *)
(* Everything runs on the UI thread; an action is one task, callback or    *)
(* frame.  Heights are pixels.                                             *)
(***************************************************************************)
EXTENDS Naturals

CONSTANTS
    Heights,        \* heights of the form's content at the view's width
    Narrow,         \* the height the content would have at a width of 1
    Density,        \* pixels per dp
    MaxPosts        \* bound: layout runnables queued when the SDK or the user acts

ASSUME HeightsAssumption == Heights \subseteq Nat /\ Narrow \in Nat \ {0}
ASSUME DensityAssumption == Density \in Nat \ {0}

VARIABLES
    content,        \* the height the content would take now
    changing,       \* the content may still change
    width,          \* React Native has given the view a width
    inWindow,       \* the view is attached to a window
    form,           \* renderedCardView: "none", "provided" or "added"
    sampling,       \* the layout and draw listeners are installed
    laidOut,        \* height of the form on the screen
    posts,          \* layout runnables in the UI thread's queue
    lastReportedHeightPx,
    told            \* the last height, in dp, that CardView.tsx passed on

vars == <<content, changing, width, inWindow, form, sampling, laidOut, posts,
          lastReportedHeightPx, told>>

Reportable == Heights \cup {Narrow, 0, 1}

TypeOK ==
    /\ content \in Heights
    /\ changing \in BOOLEAN
    /\ width \in BOOLEAN
    /\ inWindow \in BOOLEAN
    /\ form \in {"none", "provided", "added"}
    /\ sampling \in BOOLEAN
    /\ laidOut \in Heights \cup {0}
    /\ posts \in Nat
    /\ lastReportedHeightPx \in Reportable
    /\ told \in {h \div Density : h \in Reportable}

Init ==
    /\ content \in Heights
    /\ changing = TRUE
    /\ width = FALSE
    /\ inWindow = FALSE
    /\ form = "none"
    /\ sampling = FALSE
    /\ laidOut = 0
    /\ posts = 0
    /\ lastReportedHeightPx = 0
    /\ told = 0
-----------------------------------------------------------------------------
FormInWindow == form = "added" /\ inWindow

InDp(h) == h \div Density

OnlyGrowth(h) == h > 0 /\ h > lastReportedHeightPx  \* mutant: a smaller form is not news
NewsOnly(h) == h > 0 /\ h # lastReportedHeightPx

\* emitNativeHeightIfChanged, and the listener that ignores a height of 0.
Emit(h) ==
    IF NewsOnly(h)
      THEN /\ lastReportedHeightPx' = h
           /\ told' = IF InDp(h) > 0 THEN InDp(h) ELSE told
      ELSE UNCHANGED <<lastReportedHeightPx, told>>

\* onMeasure: the form's height without a constraint, at least 1; without
\* the form in the window, FrameLayout's own measure.
AtLeastOne(h) == IF h > 0 THEN h ELSE 1
Measured == CASE FormInWindow -> AtLeastOne(content)
              [] form = "added" /\ ~inWindow -> content
              [] OTHER -> 0

\* measure and layout of the view: a report, and the form laid out.
LayOut ==
    /\ Emit(Measured)
    /\ laidOut' = IF form = "added" THEN content ELSE laidOut

\* sampleAndEmitHeight: a form not laid out yet is measured at its own width,
\* the view's or 1.
Sampled == IF laidOut > 0 THEN laidOut ELSE IF width THEN content ELSE Narrow

AnyHeight(h) == h > 0       \* mutant: requestLayout without comparing with prev
AsksForLayout(h) == h > 0 /\ h # lastReportedHeightPx

\* The rest of it, with the form in the window, in a step that posts more
\* runnables besides.
Sample(more) ==
    /\ Emit(Sampled)
    /\ posts' = posts + more + IF AsksForLayout(Sampled) THEN 1 ELSE 0
-----------------------------------------------------------------------------
\* React Native lays the view out, with the width of its container.
UpdateLayout ==
    /\ inWindow
    /\ width' = TRUE
    /\ LayOut
    /\ UNCHANGED <<content, changing, inWindow, form, sampling, posts>>

\* Out of the window FrameLayout does it without a report, and no higher than
\* the height React Native chose.  A view that was put into the window has
\* been laid out by then.
UpdateLayoutDetached ==
    /\ ~inWindow
    /\ form = "added" => width
    /\ width' = TRUE
    /\ \E h \in Heights \cup {0} :
          /\ h <= content
          /\ laidOut' = IF form = "added" THEN h ELSE laidOut
    /\ UNCHANGED <<content, changing, inWindow, form, sampling, posts, lastReportedHeightPx, told>>

\* layoutRunnable.
RunLayout ==
    /\ posts > 0
    /\ posts' = posts - 1
    /\ IF width THEN LayOut ELSE UNCHANGED <<laidOut, lastReportedHeightPx, told>>
    /\ UNCHANGED <<content, changing, width, inWindow, form, sampling>>

ProvideView ==
    /\ form = "none"
    /\ form' = "provided"
    /\ UNCHANGED <<content, changing, width, inWindow, sampling, laidOut, posts,
                   lastReportedHeightPx, told>>

\* The posted attachment: addView, the listeners, and the layouts asked for
\* by addView, the layout parameters, the form and the view.
PostsOfAttach == 4
AddView ==
    /\ form = "provided"
    /\ inWindow
    /\ form' = "added"
    /\ sampling' = TRUE
    /\ posts' = posts + PostsOfAttach
    /\ UNCHANGED <<content, changing, width, inWindow, laidOut, lastReportedHeightPx, told>>

\* A frame: the global layout listener, then the draw listener.
Draw ==
    /\ sampling
    /\ FormInWindow
    /\ Sample(0)
    /\ UNCHANGED <<content, changing, width, inWindow, form, sampling, laidOut>>

\* The content takes another height, and Compose asks for a layout.
RequestLayoutOfParent == 0  \* mutant: requestLayout without post(layoutRunnable)
RequestLayout == 1

ContentChanges(h) ==
    /\ changing
    /\ posts <= MaxPosts
    /\ content' = h
    /\ posts' = posts + IF form = "added" THEN RequestLayout ELSE 0
    /\ UNCHANGED <<changing, width, inWindow, form, sampling, laidOut, lastReportedHeightPx,
                   told>>

\* The SDK's onChange.
OnChange ==
    /\ changing
    /\ posts <= MaxPosts
    /\ form # "none"
    /\ \/ FormInWindow /\ Sample(RequestLayout)
       \/ /\ ~FormInWindow
          /\ posts' = posts + RequestLayout
          /\ UNCHANGED <<lastReportedHeightPx, told>>
    /\ UNCHANGED <<content, changing, width, inWindow, form, sampling, laidOut>>

StopsChanging ==
    /\ changing
    /\ changing' = FALSE
    /\ UNCHANGED <<content, width, inWindow, form, sampling, laidOut, posts,
                   lastReportedHeightPx, told>>

\* onDetachedFromWindow removes the listeners, which attaching does not
\* install again.
Attach ==
    /\ ~inWindow
    /\ inWindow' = TRUE
    /\ UNCHANGED <<content, changing, width, form, sampling, laidOut, posts,
                   lastReportedHeightPx, told>>

Detach ==
    /\ inWindow
    /\ inWindow' = FALSE
    /\ sampling' = FALSE
    /\ UNCHANGED <<content, changing, width, form, laidOut, posts, lastReportedHeightPx, told>>
-----------------------------------------------------------------------------
Next ==
    \/ UpdateLayout
    \/ UpdateLayoutDetached
    \/ RunLayout
    \/ ProvideView
    \/ AddView
    \/ Draw
    \/ \E h \in Heights : ContentChanges(h)
    \/ OnChange
    \/ StopsChanging
    \/ Attach
    \/ Detach

\* The UI thread runs what is posted to it; frames owe nothing.
Spec == Init /\ [][Next]_vars /\ WF_vars(RunLayout)
-----------------------------------------------------------------------------
\* While the form is sampled, a height it is drawn at is the one reported: the
\* samples of the draws never contradict the measure, whatever overlaps.
DrawnIsReported == sampling /\ laidOut > 0 => lastReportedHeightPx = laidOut

\* When the loop has stopped, it has stopped right: with no layout queued any
\* more, JavaScript was told the height that the content of a form in a view
\* with a width takes, if it is one, also when it changed while the form was
\* detached; and a form that never was is laid out at that height.
QuietIsRight ==
    width /\ form = "added" /\ posts = 0 =>
        /\ sampling => laidOut = content
        /\ content > 0 => lastReportedHeightPx = content
        /\ content \div Density > 0 => told = content \div Density

\* And it comes to a stop: once the form is laid out, only new content asks
\* for another layout; frames, however many are drawn, use up what is queued.
LoopShrinks == [][laidOut > 0 /\ ~changing => posts' <= posts]_vars

Settled == ~changing /\ width /\ FormInWindow

\* When the content has stopped changing the loop of samples and layouts
\* ends, however many frames are drawn, and JavaScript knows its height, at
\* which the form is laid out, if it never was detached.
LoopEnds ==
    <>[]Settled =>
        <>[](/\ posts = 0
             /\ sampling => laidOut = content
             /\ content > 0 => lastReportedHeightPx = content
             /\ content \div Density > 0 => told = content \div Density)
=============================================================================
