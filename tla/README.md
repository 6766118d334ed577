# Checkout demo: TLA+ models, checks and proofs

The repository is a React Native app that takes a card payment with the Checkout
SDKs on Android and iOS. Almost none of it is data: it is a screen whose state is
written by half a dozen asynchronous parties, and native views that hand the SDK's
questions to JavaScript and the answers back, across several threads and through maps
of views and continuations. That hand-over is what can go wrong, and what this
project models, checks with TLC and proves with TLAPS.

Paths below are relative to `src/`; `K/` stands for
`android/app/src/main/java/com/demoflowapp/`.

## 1. Inventory

| Component | State it keeps | Operations | What makes it correct | Module |
|---|---|---|---|---|
| Checkout screen, `App.tsx` | status, error, sheet wanted and sheet presented, Pay busy, session | `startPayment`, `submitCardFromJs`, `handleSubmit`, `handleTokenized`, SDK events, close | what overlaps does not leave a button stuck, a sheet empty, or an error message on a success; the native form is used one call at a time | `AppFlow` |
| Card bridge on Android, `CardView.tsx`, `K/card/*` | registry of views by session and request id, continuations per view | mount, `initialize`, `submit`, the SDK's `handleSubmit` callback, `handleSubmitResponse` | the answer to a payment reaches the thread that waits for it, once, and the right session is paid | `CardBridge` |
| Card bridge on iOS, `CardView.tsx`, `ApplePayModule.swift`, `CardPayView.swift` | registry of weak references by session id, two maps of continuations per view | the same, plus `onTokenized`, `deinit` | the same, and a form that left the screen is freed | `IosBridge` |
| Apple Pay view, `ApplePayView.tsx`, `ApplePayView.swift` | a view in the same registry | tap instead of `submit`; every token accepted | it does not answer, POST or take a card form's payment | `IosBridge` |
| Google Pay bridge, `GooglePayView.tsx`, `K/googlepay/*` | registry with one view per session id, continuations by session id | mount, `initialize`, the SDK's button, its callback, `handleSubmitResponse` | an answer reaches its own payment, although it names only its session | `GooglePayBridge` |
| Flow on Android, `K/FlowModule.kt` | one container, one coordinator, one `checkoutComponents` | `startPaymentSession`, `dismissFlow`, the coroutine of a start, the result of a Google Pay sheet | starts that overlap do not mix their buttons and results; a paid flow can be taken away | `FlowModule` |
| Flow on iOS, `CheckoutFlowManager.swift` | one `checkoutComponents`, one hosting controller | `initialize`, `renderFlow`, the SDK's `onSuccess` and `onError` | a success takes away the flow that was paid | `CheckoutFlowManager` |
| Card height, `K/card/CardView.kt` | last reported height, layout runnables | measure, layout, sample, report | the loop of samples and layouts ends, and JavaScript knows the height | `CardHeight` |
| App shells, tests, Pods, build files | | | | not modelled |

How they interact: App renders the card form into a sheet while it is open. **Pay**
calls the native module's `submit` with the session id, which finds the view in the
registry and calls the SDK's component. The SDK asks, on a thread of its own,
`onTokenized` (iOS) and `handleSubmit`; the native view stores a continuation, emits
an event and waits: on Android in `runBlocking`, on iOS suspended. The React
component's listener calls App's handler, which POSTs, and calls
`handleSubmitResponse` with the outcome; the native module finds the view and resumes
the continuation. Between any two of these steps the sheet may have been closed,
reopened or switched to another session. The two Flow modules cover the whole screen
instead; at this commit App only listens to their events.

The hazards, each at its line and with the properties that would catch it, are in
`PROJECT.json`.

## 2. Modules

| Module | What it is |
|---|---|
| `SubmitRequest` | abstract: what a bridge promises the SDK. One answer at most per request, one verdict at most, and the verdict the answer calls for |
| `Sheet` | abstract: how App uses a form. One form shown, Pay for the session shown, one call outstanding |
| `FlowSession` | abstract: what App counts on of either Flow module. One flow takes payments, the newest on the screen, an answer is that of the payment it took, and the next opens when it is paid; if `prompt`, when it has left |
| `CardBridge` | Android's card form; implements `SubmitRequest`, and `Sheet` |
| `IosBridge` | iOS's card forms and Apple Pay buttons; implements `SubmitRequest`, and with card forms only `Sheet` |
| `GooglePayBridge` | the Google Pay button; implements `SubmitRequest` as long as no session is mounted twice |
| `AppFlow` | the screen; implements `Sheet` |
| `FlowModule`, `CheckoutFlowManager` | the full-screen flows of Android and iOS; each implements `FlowSession` for a JavaScript that runs one flow at a time, Android's promptly, iOS's only when the SDK calls back on the main thread |
| `CardHeight` | the height loop of Android's card form |
| `CardBridge_proofs`, `IosBridge_proofs`, `GooglePayBridge_proofs`, `AppFlow_proofs`, `FlowModule_proofs`, `CheckoutFlowManager_proofs`, `CardHeight_proofs`, `SubmitRequest_proofs` | theorems and proofs |
| `MCCardBridge`, `MCIosBridge`, `MCGooglePayBridge`, `MCAppFlow` | instances for TLC |

The bridges and the screen meet in `Sheet`: the JS actions of `CardBridge` (`JsOpen`,
`JsClose`, `JsSwitch`, `JsSubmit`) take any step `Sheet` allows, as soon as React has
committed the step before, and both `AppFlow` and the bridges are proved to take no
other (`UsesTheSheetAsAssumed`; `IosBridge` where `Methods` is card forms only, for the
Apple Pay button has a Pay of its own). So what is checked about a bridge is not
restricted to a convenient user, and supposes nothing the screen does not keep to.

### CardBridge

Four kinds of thread take the steps, and the prefix of an action names its thread.

- **JS**. `js[v]` is the life of a React instance: committed but without effects
  (`rendered`), subscribed (`listening`), out of the tree but still subscribed
  (`leaving`), unsubscribed (`gone`). React runs the effects of a commit before the
  next commit (`EffectsRun`) but not in the same step, so an event may reach a
  listener that is leaving, or one tick too late nobody. `post[r][v]` is what v's
  listener did with r's event: on Android nothing filters an event by view, every
  subscriber POSTs.
- **UI** (`Ui*`). `Initialize` follows `CardView.initialize`: the view is registered
  and the session stored before the activity is looked for, and without one
  everything is done again at the next update. The SDK's component is created in a
  coroutine and may fail.
- **The SDK's thread** (`Sdk*`). `SdkCallback`, `SdkStore`, `SdkRegister`, `SdkEmit`
  are the callback up to the end of its `runBlocking`, in four steps, because the
  maps are not synchronized; `SdkReturn` is the parse and the return. For the
  requests in `OnMain` the thread is the UI thread, which is then blocked with it
  (`MainBlocked`).
- **Native modules** (`Nm*`). `NmSubmit` is `CardModule.submit`, `NmGetView` and
  `NmHandleResponse` are the lookup and the answer.

`mapsRace`, chosen in the initial state and then constant, says whether accesses of two
threads to a plain `mutableMapOf` at once may fail: an update may be lost and a read may
miss (`Written`, `RegistryRaced`, `PendingRaced`). Without it every access is atomic.
`SinglePost`, `PaysTheSessionPressed`, `TakenIsResumed` and the refinement are claimed in
both cases; `Routable`, `NoStrayEntry`, `PayReachesShownForm` and `AnswersReturn` only
when nothing is lost, for they are false otherwise.

### IosBridge

Here a view registers under its session id only, the registry holds weak references
(`Alive`), and an answer, whose request id is never a key, is offered to every
view: the direct lookup at `ApplePayModule.swift:113` never hits. What keeps a view
that left the screen alive is an `initialize` or a callback suspended in it
(`Retained`), because the async methods hold `self` while they wait. `deinit` is
`UiFree`. `rank` is the order of the arrays in the registry.

`MapsRace` says whether the two threads may get into one another's way, for nothing here
is locked. The sweep of dead references is a read (`NmSweep`) and a write back
(`NmStore`) on the module's queue, and the main thread may come in between. A view's two maps of
continuations are written by `Ask` and emptied by `NmRoute`: of two accesses to one
map at once the insertion may be lost (`Written`), or the removal, or the answer may miss
the entry (`Handed`). A Swift dictionary written from two threads may also crash: only
lost writes and misses are modelled. `SinglePost`, `OnlyCheckedCards`, `TakenIsResumed` and the
refinement of `SubmitRequest` hold in both cases; `Reachable` and `AnswersAreKept` only
without races.

A form may be replaced by one of the same session here, which Android's Modal does
not do: the iOS Modal keeps its children until it is dismissed, and the key of the
ScrollView changes as soon as the sheet is told to close.

`method[v]`, chosen in the initial state, says whether an instance is a card form or an
**Apple Pay button**. Both go through one module, one registry and one pair of events.
What differs: a listener hears only the events that name its component (`Listeners`);
the button is tapped (`UiTap`: `handleTap` submits, and there is no promise), although
App's Pay may reach it by the fallbacks of `submit` (`SubmitTargets`); and the callback
made of `onTokenized` at `ApplePayView.swift:71` is not the one given to the SDK,
which is told `.accepted` for every token (`Asked`). One form of each method may be
shown at once.

### GooglePayBridge

App does not mount the button at this commit; the environment is that of the card
form. `RemountsSession` says whether a session may be mounted again after an unmount.
A registration during the iteration over the registry throws
`ConcurrentModificationException`, which is caught: some views then miss the answer
(`Visits`, if `mapsRace`). A second mount of a session takes the first one's place in the
registry (`GooglePayModule.kt:79`), and an answer to the first then reaches nobody,
although the comment at `GooglePayModule.kt:92` speaks of all registered views, or
reaches the second view's payment, which waits under the same id
(`GooglePayView.kt:107`). With `RemountsSession` false neither can happen. The map of
continuations of a view is atomic even if `mapsRace`: a button's component asks one
thing at a time, so the next continuation is stored only after the one before was removed
and resumed, and the removal of an id that is not there, which the iteration tries on every
other view, writes nothing.

### AppFlow

An action is a handler, or the part of an async one between two awaits; React applies
its setStates in one commit. A start's session is the number of the start. The
actions of the native form (`HandleTokenized`, `HandleSubmit`, the two events) are
allowed whenever a Pay press could have led to them, subscribed or not: when exactly
they are heard is the bridges' subject, and allowing more only makes the invariants
harder. A form reports an error at any time after the first session
(`FlowPaymentError`), paid for or not: its `initialize` may be suspended at
`ios/CardPayView.swift:135` while the sheet is closed and Start pressed again, and the error
it then emits (lines 164-171) writes the status and enables Start under the request
(`App.tsx:195-198`). So starts do overlap without any haste of the user, and the older answer may
come last (`App.tsx:274`). `disturbed` is a history variable: the starts during whose
request a form, or the answer of an overlapping start, wrote the status. `FreshSession` says
that only those may lose to an older one, and that no session replaces a form on the
screen otherwise; the first session is always that of the newest start.

`showingFlow` is what App wants, `presented` what is on the screen. React Native's Modal,
which is not this repository's, follows the changes of `visible` (`ModalFollows`, external).
On iOS (`ios`) the native form also dismisses whatever is presented when a payment
ends or the SDK reports an error (`CardPayView.swift:118-131`), paid for or not: the Modal is
not told, its `visible` stays true, and wanting it again presents nothing. No handler of
`App.tsx` can tell, so no property compares the two; `SuccessIsClean` says that at least a
success leaves no sheet wanted that native code has dismissed.

### FlowModule and CheckoutFlowManager

Both keep one container or controller and one `checkoutComponents` for all flows, and
flows may overlap: nothing in them waits for the flow before.

- `FlowModule`: the two methods post tasks to the UI thread (`uiQueue`, in order);
  `RunStart` makes a container and overwrites the one remembered; the coroutine of a
  start then replaces the components (`AssignComponents`), makes a button of those it
  reads back (`CreateButton`), which another start's coroutine may have replaced in
  between, and adds it to the container remembered *when its turn comes* (`AddView`); the result of a Google
  Pay sheet goes to the components remembered *then* (`HandleActivityResult`).
  `dismissFlow` removes the container remembered.
- `CheckoutFlowManager`: `initialize` is a task with a promise; `renderFlow` takes the
  components it finds when called (`renderOf`) and presents a controller on the main
  thread, over the one before; a success sends the event (`OnSuccess`), dismisses the
  controller remembered by that time (`RemoveRemembered`) and forgets the one remembered
  then (`ForgetRemembered`): one after the other with nothing in between only if the SDK
  calls back on the main thread (`callbackOnMain`), which the `@Sendable` closure at
  `CheckoutFlowManager.swift:34` does not promise. An error is only printed (`OnError`).

`patient` is a JavaScript that ends a flow before it starts the next: it dismisses the
flow on Android, and awaits the promises and the success on iOS. For any other,
`ViewInNewer` and `RemembersTheNewest` are what is left of the order of things; for a
patient one both modules implement `FlowSession`, on iOS on whatever thread the SDK calls
back. What the thread decides there is `prompt`: on the main thread a flow leaves the
screen when it is paid, and before anything else happens; elsewhere the next flow may be
rendered between the event and the dismissal, which then takes the new flow away
unpaid, while the paid one stays (`FlowSession!Close` when not `prompt`). `Careful` is patient and on
the main thread, and only there `PaidLeaves` is claimed.

### CardHeight

Everything runs on the UI thread; an action is a task, a callback or a frame. React
Native's containers ignore `requestLayout`, so the view posts a runnable to lay itself
out (`posts`, `RunLayout`). The Compose form may change at any frame: its height is
sampled before each draw and at each change (`Sample`), and a height that differs from the
last report asks for one more layout (`AsksForLayout`), in which it is measured and
reported again (`Measured`). A form not laid out yet is measured at the view's width or at 1
(`Narrow`), which is a height of nothing the user will see. `Detach` removes the listeners,
which attaching again does not install; out of the window React Native's layout gives the form
its box without a report (`UpdateLayoutDetached`). Heights are pixels, `told` is in dp, rounded
down; a height of 0 is not reported.

## 3. Runs

Instances are sets of model values or small numbers; an element is used up by its life
(a view is mounted once, a request asked once), so the state spaces are finite without
guards on counters, except where the table names a bound.

| Run | Instance | Question | Distinct states |
|---|---|---|---|
| `CardRequests` | 2 views, 2 sessions, 2 requests, 2 calls; with racing maps all forms are of one session (`OneSessionWhenRacing`) | Whatever is opened, closed, switched, half-initialized: is the session pressed the one paid, does Pay reach the shown form, is it POSTed once, is every waiting request routable, its answer kept on the way, resumed once, by its own answer, and its entry removed? And which of these survive lost writes? | 739,943 |
| `CardLiveness` | 2 views, 1 session, 2 requests, 2 calls, the callback of one request on the UI thread | Does every answer come back, does every Pay press end? | 404,232 |
| `IosRequests` | 2 views of either method, 2 sessions, 2 requests, 2 calls; there is a card form, and a button is of its session (`ButtonBesideItsCard`) | Routing through weak references, no answer lost on the way, single resume, one POST per payment with both kinds of listeners, no unchecked card; without races (section 5 has them) | 902,667 |
| `IosLiveness` | 2 views of either method, 1 session, 1 request, 1 call | Answers return, closed forms are freed | 82,354 |
| `GooglePayRequests` | 2 views, 2 sessions, 2 requests, no session mounted twice | No answer goes to another payment of the same button or of another, or is dropped on its way; it returns after an unmount | 283,150 |
| `AppScreen` | 3 starts, 2 calls, 2 payments, either platform | The screen under everything that may overlap: is a success clean, no button stuck and no sheet empty, and which starts may lose to an older one? | 62,983 |
| `AndroidFlow` | 3 flows, either JavaScript | Overlapping starts, late coroutines, dismissals and payments: where do buttons land, does every start settle, is it one flow at a time for a patient JavaScript, and does a paid one leave? | 132,632 |
| `IosFlow` | 3 sessions, 3 renders, either JavaScript, callbacks on either thread | The same for controllers: what will a success dismiss, and is it the flow that was paid? | 49,281 |
| `CardHeight` | heights 0, 4 and 6 px, 9 at a width of 1, 2 px per dp; the SDK and the user act only while at most 2 layouts are queued (`MaxPosts`) | Is what is drawn what was reported, is it right whenever nothing is scheduled, and does the loop end with the form's height known to JavaScript? | 1,660 |

Why these sizes are enough for the questions: an old form and a new one, of the same
session or of another, or a form and a button, are two views; two requests confused
with one another need two views, or one view asked twice; a Pay press that goes to a
form of another session needs two calls, one of them late; stale starts need two, a
third to close the gap; a flow that comes late between an older and a newer one needs
three. Heights: none, two that differ, and one that is never drawn. `posts` has no other
source of growth than the two bounded actions and the samples, whose ending is what
`LoopEnds` says. Each run's mutants, plausible slips in the code, are found at these
sizes, and the invariants and refinements are proved for all sizes (for racing maps
without `OneSessionWhenRacing`, for both methods without `ButtonBesideItsCard`, which only
keep the runs short). Symmetry is declared over views, requests, calls and sessions,
in runs that check no liveness. The threads stop when all elements are used up and
nobody presses anything, so deadlock is not an error and is not checked.

### What the code's comments and logs say, and the code does not do

| Run | Comment or log | What the run shows |
|---|---|---|
| `CardListener` | "Flag to indicate if handleSubmit listener is available" (`K/card/CardView.kt:75`) | The sheet is closed between Pay and the event: nobody listens, and the SDK's thread waits in `runBlocking` for ever |
| `CardResolved` | "submitFromJs invoked cardComponent.submit()" (`K/card/CardView.kt:527`) | Pay before the component exists: nothing was submitted, and the promise resolves with true |
| `IosRouting` | "Registry to route responses back to the right view instance" (`ApplePayModule.swift:79`) | A form registered during a sweep is swept out with it, and the answer to its payment finds nobody |

Also met, without a claim in the repository to hold it against: a late success closes
the sheet of another session and a late error opens it again (`App.tsx:139`, `148`); starts
overlap after a form's error, and the older one's answer may be the last (`App.tsx:274`);
Pay is enabled again while its payment is under way (`App.tsx:317`), and a promise of
`submit` that resolves late clears the message of an error but leaves the status
(`App.tsx:311`); Android never emits `onCardHandleTokenized`, so App's refusal of mada
cards is not asked there; on iOS a session whose form cannot submit has another's
submitted (`ApplePayModule.swift:164`, on purpose: line 168 logs it), and the oldest form
of a session that is still referenced takes Pay, shown or not (line 157); a Google Pay
result goes to the components of a flow started meanwhile (`K/FlowModule.kt:74`); on iOS
the error of a form dismisses the sheet App goes on wanting, so that the next session's
is not presented (`CardPayView.swift:122-131`, `App.tsx:198`); on iOS
the error of a full-screen flow reaches nobody (`CheckoutFlowManager.swift:44`), and
`dismissFlow` cannot be called, so only a success takes such a flow away.

## 4. Fairness

Liveness is checked under weak fairness of the UI thread, of the continuation of an
SDK callback and of the native modules' queue (`Fairness` in each bridge): a queue or
a resumed thread that has something to run runs it, which is what Android's loopers,
GCD and coroutine dispatchers do. Nothing is assumed of the user, of the network or
of when the Pay button is pressed: a POST may never come back, and then the SDK's thread
waits for ever, as in the code, which has no timeout. `AnswersReturn` is therefore
about an answer App has, and `NoViewLeak` excepts questions App has not answered. Nor does
the SDK owe the return of the creation of a component, for which it may ask its servers: the
fairness of the UI thread in the bridges is that of its other steps (`NoneCreated`), and
`NoViewLeak` excepts a form whose creation has not returned. In
`CardBridge` the fair SDK step includes the call of `handleSubmit` for a card the SDK
has accepted; no liveness property depends on it.

- `FlowModule`: the UI thread runs what was posted, a creation in the SDK ends one way
  or the other (its coroutine has no other exit), and a patient JavaScript, which has
  been told of the end of a flow, does dismiss it. Payments owe nothing.
- `CheckoutFlowManager`: a success callback that has sent its event runs to its end, on
  whatever thread.
- `CardHeight`: the UI thread runs the posted layouts (`WF_vars(RunLayout)`); frames owe
  nothing. `LoopEnds` supposes that the content has stopped changing in an attached
  view with a width (`Settled`), for otherwise there is no height to settle on.

## 5. Proofs

The eight `_proofs` modules hold for every value of the constants, from the
assumptions named in the modules: `None` is none of the other values (of the records on
their way either: `NoTaskAssumption`, `NoAnswerAssumption`), session ids
and request ids are distinct, `OnMain` are requests, starts, flows and renders are
numbers, methods are `card` or `applepay`, the views of iOS are finitely many (the order of
registration counts them), heights are naturals and the density is not 0. None of the
properties is inductive alone; each module names the parts of its invariant.

**SubmitRequest.** What a promise kept comes to, once for all bridges. `VerdictsAreTold`:
the requests that are over, and no other, have a verdict, the one their answer calls for.
`VerdictsAreFinal`: neither is given twice. A bridge proved to implement `SubmitRequest`
inherits them (`Promised`, an instance of the proof module).

**CardBridge.** `Spec => []IInv`:

- `SinglePost` needs `OneForm` (one subscribed listener at a time, which is where
  `EffectsRun` enters) and `Posted` (an event is delivered once, and each stage of a
  request excludes the earlier ones).
- `Routable` and `NoStrayEntry` need `Routes` and `Posted`: a request's entry appears
  before its event is emitted, and only its answer, of which there is one, removes it.
- `PaysTheSessionPressed` needs `KnownSessions`: the id is carried from the form to the
  registry, the call, the view and the request.
- `PayReachesShownForm` is a part of its own: nothing ever removes a session's entry, so
  only the order of mounts keeps a stale view from answering for the shown one. It needs
  `OneForm` and `MountedFirst`.

From it follow the theorems `TypeCorrect`, `AnswersAreRouted`, `RegistryIsClean`,
`PostedOnce`, `RightSession`, `ShownFormIsReached`, the action property `TakenOnce`
and `Implementation`, that `CardBridge` implements `SubmitRequest`: the initial states
map, and each of the steps maps to `Ask`, `Answer`, `Settle` or a stutter. `TakenOnce`
and `Implementation` hold when the maps race too. So does `VerdictsAreOfThePress`, which puts
`VerdictsAreTold`, `PostedOnce` and `RightSession` together: what the SDK is told of a
payment is what one view made of App's one answer to it, for the session Pay was pressed on.

`NoAnswerIsLost` is the safety half of `AnswersReturn`: an answer App has is in the inbox,
in the hands of the native modules thread with the right view, or has resumed what waits
for it. It is inductive on top of `IInv`; `Routes` makes the lookup hit, `Posted` keeps two
answers from being on their way for one request. `UsesTheSheetAsAssumed`: with `OneForm`, the
session of the form shown, and the calls, move as `Sheet` says.

**IosBridge.** `Invariance` is `Spec => []IInv`, of

- `OneListener`: of one method at most one component is in the tree and one subscribed;
  with it one listener at most hears an event, which names the method (`PostedOnce`);
- `Mounted`, `Submitted`: native views belong to mounted components, and a press that went
  on unchecked went to a freed view or to a button;
- `Callbacks`: what is suspended belongs to a view and, unless `MapsRace`, is in that
  view's maps;
- `Payments`, in `Questions` (a request not yet asked was not POSTed; a `submit` event
  of a card follows an accepted token), `Replies` (an answer on its way is one App
  gave, to a question asked, there is one, and as long as it is on its way its callback
  waits for it) and `Results` (a POST under way is waited for, and a callback is resumed with
  the verdict of App's answer), which carry
  `SinglePost` and `OnlyCheckedCards` (`CardsAreChecked`);
- `Held`: a suspended callback keeps its view alive;
- `Registers`: unless `MapsRace`, a live view is in the registry and in a sweep that has
  begun. `Held`, `Callbacks` and `Registers` give `AnswersAreRouted`, `[](~MapsRace =>
  Reachable)`; with `MapsRace` the run `IosRouting` shows it false.

`TakenOnce` and `Implementation` (of `SubmitRequest`) follow for either value of `MapsRace`,
and with them `VerdictsAreOfCheckedCards`: the verdict is the one App's one answer calls for,
and behind it, for a card form, is a card App has accepted. With races an entry may outlive the
removal that should have taken it, so that being in a map no longer proves that a
callback waits: `Replies` does, for an answer is handed out only once.

`NoAnswerIsLost` needs `~MapsRace`: both answers, to the token and to the payment, are on their way or have arrived. A sweep offers an
answer to every view left, so the proof is that the view that waits is among them (`Routed`,
from `Held`, `Callbacks` and `Registers`) and that no other has its continuation.

**GooglePayBridge.** `Invariance` has `Mounted`, `OneListener`, `Continuations` (a component
asks one thing at a time, and what waits has its continuation) and `Posts`; with it
`TypeCorrect` and `TakenOnce`. `Implementation` assumes `~RemountsSession`: then a session is one
view (`OneMount`), and an answer that names only the session still belongs to the request
that waits (`Matching`); `VerdictsAreTheApps` follows. Under the same assumption,
`NoAnswerIsLost`: the view that waits is in the registry (`InRegistry`), so that an iteration that is
not broken off gives it its answer. Without the assumption `SessionAnswers` is what is left:
a payment goes on with an answer to a payment of its session, its own or another's.

**AppFlow.** `IInv` adds `SessionFirst` (no call and no payment before a session),
`PresentedIsWanted`, `OneCall`, `InOrder` (starts are pressed in order) and `Alone`: nothing is
disturbed before the first session, and a start that was not disturbed is the last, with
no sheet on the screen. Theorems: type correctness, the invariants (`NoErrorOnSuccess`,
`StartComesBack`, `OpenSheetHasForm`, `PayIsLocked`), `StartsDoNotOverlap` (of two starts under
way at once the older was disturbed, after a first session), `LastStartWins` (`FreshSession`),
and `UsesTheSheetAsAssumed`, that `AppFlow` implements `Sheet`. None of them restrains the user or
the forms.

**FlowModule.** `StartsInOrder`: the tasks of starts are in the queue in their order, and
the container remembered is that of the last that ran. With it `ButtonsInNewer`.
`PatientIsOneByOne`: for a patient JavaScript at most one started flow is not dismissed
(`Alone`), container and components are its own (`OpenIsCurrent`), button and Google
Pay sheet too (`OwnButton`), and a container that is no longer its flow's has its dismissal
first in the queue (`OldIsGone`). From this, `ImplementsFlowSession`, and `PaidFlowsCanLeave`, the
safety half of `PaidLeaves`: a paid flow on the screen can be dismissed, or is by the next
task. For any JavaScript, `StartsAreUnderWay` is the safety half of `StartSettles` (the task of a
posted start is in the queue, a created one has a container, so that the steps fairness speaks of
can be taken) and `ResultsHaveComponents` says that the lateinit components the Google Pay
coordinator reads are initialized by then. A button made of the components of another
start (between `AssignComponents` and `CreateButton`) is possible for other JavaScripts
only: `OneByOne` says it is the flow's own for a patient one.

**CheckoutFlowManager.** `RendersInOrder`: controllers arrive on the screen in their order,
and with it `NewestIsRemembered`. `PatientIsOneByOne`, for a patient JavaScript and a
callback on any thread: one call at a time (`OneCall`), which finds the session initialized
last (`NewestSession`), one flow that is not paid, the last rendered (`LastUnpaid`), a new
payment for each render (`NewPayment`), and, if the callback is on the main thread, one
controller, gone with its own success (`OneController`). From this, `ImplementsFlowSession`,
prompt or not, and `PaidFlowsAreTakenAway`: a paid flow on the screen is taken away by its
own success callback, still to run; off the main thread that, or the module has forgotten
it or remembers another in its place.

**CardHeight.** `TypeCorrect` and `DrawnIsAlwaysReported`: a form is laid out only together
with its report, and a sample of a form that has been laid out is the height it was laid
out at, so that only a form without a height can be reported at another.
`RestsAtTheHeight` needs `Loop`: JavaScript was told the last report (`ToldLastReport`), a
form is added before it has a layout (`AddedFirst`), and one laid out at another height than
its content's has a layout queued (`LayoutIsQueued`). `LoopOnlyShrinks` is the safety half of
`LoopEnds`: once a form has a layout, only new content queues another.

**Only model-checked.** Liveness (`AnswersReturn`, `PromisesSettle`, `NoViewLeak`,
`StartSettles`, `PaidLeaves`, `LoopEnds`): the proof system does not do fairness and
ENABLED. What these rest on is proved: an answer on its way is not lost (`NoAnswerIsLost`),
what a start waits for is under way (`StartsAreUnderWay`), a paid flow can leave
(`PaidFlowsCanLeave`, `PaidFlowsAreTakenAway`), and the layouts of a form at rest only get
fewer (`LoopOnlyShrinks`); of `PromisesSettle` and `NoViewLeak` nothing is.

## 6. Abstractions and what is left out

- Session data, JSON and payment results are one of three outcomes: `paid` parses in
  native code, `malformed` does not although the POST succeeded, `failed` is a refusal or
  an exception. `AppFlow` distinguishes 3DS, the bridges do not: it parses.
- Names, texts, styles, scroll positions and logs are left out.
- Validity events, and the callbacks without a `handleSubmit` listener, which App never
  asks for.
- The Checkout SDK is modelled by how the views use it: it creates a component or throws,
  calls back about a submitted card or not at all; a full-screen flow takes one payment
  at a time, and a session that is paid takes no second one.
- The screen is assumed to get an id and a secret in a 2xx answer to `startPayment`.
- The Flow modules: the current activity is a `ComponentActivity` and lives on (the module
  returns at once otherwise), and a coroutine that fails does so with a `CheckoutError`.
  UIKit called, and properties written, off the main thread are steps that interleave.
- `dismissFlow` of `CheckoutFlowManager.swift` has no action, for nothing can call it.
- The callback of Android's card form catches any exception and returns a Failure without
  an answer (`K/card/CardView.kt:336-339`), which leaves the continuation and its entry behind.
  It takes a React context torn down under the callback, or an interrupt of `runBlocking`,
  which nothing in the repository makes; the model has neither.

### Not modelled

- `ios/Pods` (boost, folly, fmt, glog, Hermes and others) is third-party code, though it is
  nearly all of the repository's files and all its C++. None of it is this program's, so
  no definition stands for a line of it: a share of the repository's C++ lines says
  nothing about what of the app is covered, which is all of its Kotlin, Swift and
  TypeScript except what this section lists.
- The iOS form's height, which the SwiftUI view computes; the availability of Apple Pay;
  success, error and activity-result events that only pass through the Google Pay button.
- App shells, tests and build files: no state of their own.

## 7. Plan

1. Done: the three bridges, the Apple Pay button, the screen, both Flow modules, the height
   loop; the proofs of every safety property the runs check, the promise of a submit
   request carried over to the three bridges, and the sheet both bridges assume.
2. To prove next: that a waiting promise of a Pay press has its task or its verdict still to
   come (under `PromisesSettle`), and that what holds a closed form is a question or a
   queued task (under `NoViewLeak`).
3. Left: `Checkout`, `AppFlow` and a bridge composed in one state space, with the outcome
   of a payment followed from the SDK back to the sheet it was paid on. `Sheet` links the
   two today, from the screen to the bridge; the way back is in `AppFlow` as whatever a
   form may send.
