----------------------------- MODULE CardBridge -----------------------------
(***************************************************************************)
(* The card form on Android, from the React component to the Checkout SDK  *)
(* and back: CardView.tsx, CardModule.kt, CardViewManager.kt,              *)
(* CardViewRegistry.kt and CardView.kt, used the way App.tsx uses them.    *)
(*                                                                         *)
(* Four kinds of thread take the steps:                                    *)
(*   - the JS thread commits and unmounts CardView instances, subscribes   *)
(*     their listeners, presses Pay and answers handleSubmit events;       *)
(*   - the UI thread creates the native views, runs the coroutines on      *)
(*     Dispatchers.Main and the submitFromJs calls posted to it;           *)
(*   - the native modules thread runs the methods of CardModule, one at a  *)
(*     time, in the steps that touch the shared maps;                      *)
(*   - a thread of the SDK runs the handleSubmit callback, and is blocked  *)
(*     in runBlocking until the continuation is resumed.  It may be the    *)
(*     UI thread (OnMain).                                                 *)
(*                                                                         *)
(* A member of Views is one CardView instance of React and the native      *)
(* CardView it mounts; both are used once and never come back.             *)
(***************************************************************************)
EXTENDS FiniteSets

CONSTANTS
    Views,          \* CardView instances
    Sessions,       \* payment session ids
    Requests,       \* the UUIDs handleSubmit draws: none is drawn twice
    Calls,          \* presses of the Pay button, each with its promise
    None,           \* no view, session, call, outcome or verdict
    OnMain          \* requests whose callback the SDK runs on the UI thread

\* What App.handleSubmit comes to; see SubmitRequest.
Outcomes == {"paid", "malformed", "failed"}

(***************************************************************************)
(* Session ids and request ids are keys of the same registry.              *)
(***************************************************************************)
ASSUME KeysAssumption == Sessions \cap Requests = {}
ASSUME NoneAssumption ==
    None \notin Views \cup Sessions \cup Requests \cup Calls \cup Outcomes
ASSUME OnMainAssumption == OnMain \subseteq Requests

Keys == Sessions \cup Requests

VARIABLES
    \* JS thread
    js,             \* js[v]: life of the React component
    jsSession,      \* jsSession[v]: its paymentSessionID prop
    post,           \* post[r][v]: what v's listener did with the event of r
    call,           \* call[c]: life of the promise CardModule.submit returned
    callSession,    \* callSession[c]: the session id it was called with
    \* UI thread
    native,         \* native[v]: life of the Android view
    hasInitialized,
    session,        \* session[v]: id in currentSessionData
    component,      \* component[v]: life of the SDK's card component
    callView,       \* callView[c]: the view submit found in the registry
    sdk,            \* sdk[c]: what became of cardComponent.submit()
    \* shared by the threads
    registry,       \* CardViewRegistry.views
    pending,        \* pending[v]: keys of v's pendingContinuations
    events,         \* requests whose event is on its way to JS
    inbox,          \* calls of handleSubmitResponse on their way to native
    \* SDK threads: one handleSubmit callback per request
    pc,             \* pc[r]: where the callback is
    owner,          \* owner[r]: the view it belongs to
    cause,          \* cause[r]: the Pay press that made the SDK call it
    result,         \* result[r]: what the continuation was resumed with
    verdict,        \* verdict[r]: the ApiCallResult returned to the SDK
    \* native modules thread
    nm,             \* the handleSubmitResponse between getView and its end
    \* the platform; never changes
    mapsRace        \* overlapping accesses to an unsynchronized map may lose

jsVars == <<js, jsSession, post, call, callSession>>
uiVars == <<native, hasInitialized, session, component, callView, sdk>>
sdkVars == <<pc, owner, cause, result, verdict>>
vars == <<jsVars, uiVars, registry, pending, events, inbox, sdkVars, nm, mapsRace>>
-----------------------------------------------------------------------------
Shown == {"rendered", "listening"}      \* in the committed tree
Subscribed == {"listening", "leaving"}  \* the event listener is installed
Active == {"called", "stored", "registered", "waiting", "resumed"}

Responses == [req : Requests, by : Views]
Tasks == [req : Requests, by : Views, view : Views]
ASSUME NoTaskAssumption == None \notin Tasks

TypeOK ==
    /\ js \in [Views -> {"absent", "rendered", "listening", "leaving", "gone"}]
    /\ jsSession \in [Views -> Sessions \cup {None}]
    /\ post \in [Requests -> [Views -> {"none", "posting"} \cup Outcomes]]
    /\ call \in [Calls -> {"idle", "sent", "queued", "resolved", "rejected"}]
    /\ callSession \in [Calls -> Sessions \cup {None}]
    /\ native \in [Views -> {"none", "live", "dropped"}]
    /\ hasInitialized \in [Views -> BOOLEAN]
    /\ session \in [Views -> Sessions \cup {None}]
    /\ component \in [Views -> {"none", "creating", "ready", "failed"}]
    /\ callView \in [Calls -> Views \cup {None}]
    /\ sdk \in [Calls -> {"none", "launched", "accepted", "ignored", "done"}]
    /\ registry \in [Keys -> Views \cup {None}]
    /\ pending \in [Views -> SUBSET Requests]
    /\ events \in SUBSET Requests
    /\ inbox \in SUBSET Responses
    /\ pc \in [Requests -> {"idle", "returned"} \cup Active]
    /\ owner \in [Requests -> Views \cup {None}]
    /\ cause \in [Requests -> Calls \cup {None}]
    /\ result \in [Requests -> Outcomes \cup {None}]
    /\ verdict \in [Requests -> {"Success", "Failure", None}]
    /\ nm \in Tasks \cup {None}
    /\ mapsRace \in BOOLEAN

Init ==
    /\ js = [v \in Views |-> "absent"]
    /\ jsSession = [v \in Views |-> None]
    /\ post = [r \in Requests |-> [v \in Views |-> "none"]]
    /\ call = [c \in Calls |-> "idle"]
    /\ callSession = [c \in Calls |-> None]
    /\ native = [v \in Views |-> "none"]
    /\ hasInitialized = [v \in Views |-> FALSE]
    /\ session = [v \in Views |-> None]
    /\ component = [v \in Views |-> "none"]
    /\ callView = [c \in Calls |-> None]
    /\ sdk = [c \in Calls |-> "none"]
    /\ registry = [k \in Keys |-> None]
    /\ pending = [v \in Views |-> {}]
    /\ events = {}
    /\ inbox = {}
    /\ pc = [r \in Requests |-> "idle"]
    /\ owner = [r \in Requests |-> None]
    /\ cause = [r \in Requests |-> None]
    /\ result = [r \in Requests |-> None]
    /\ verdict = [r \in Requests |-> None]
    /\ nm = None
    /\ mapsRace \in BOOLEAN
-----------------------------------------------------------------------------
(***************************************************************************)
(* runBlocking parks the thread the SDK calls handleSubmit on.             *)
(***************************************************************************)
MainBlocked == \E r \in OnMain : pc[r] \in Active

(***************************************************************************)
(* CardViewRegistry.views and pendingContinuations are plain mutable maps, *)
(* used from several threads without a lock.  An access is raced when      *)
(* another thread may be inside a write of the same map: then, if          *)
(* mapsRace, a put or a remove may be lost and a read may miss its entry.  *)
(***************************************************************************)
UiMayRegister ==
    /\ ~MainBlocked
    /\ \E v \in Views : js[v] \in Shown /\ native[v] # "dropped" /\ ~hasInitialized[v]

RegistryRaced(self) ==
    /\ mapsRace
    /\ \/ self # "ui" /\ UiMayRegister
       \/ self # "nm" /\ nm # None
       \/ \E r \in Requests \ {self} : pc[r] = "stored"

PendingRaced(self, v) ==
    /\ mapsRace
    /\ \/ self # "nm" /\ nm # None /\ nm.view = v
       \/ \E r \in Requests \ {self} : pc[r] = "called" /\ owner[r] = v

\* The values a map or set may have after an update to it, raced or not.
Written(old, new, raced) == {new} \cup (IF raced THEN {old} ELSE {})

RegisterView(key, v, self) ==
    registry' \in Written(registry, [registry EXCEPT ![key] = v], RegistryRaced(self))

UnregisterNothing(key, self) == registry' = registry    \* mutant
UnregisterView(key, self) ==
    registry' \in Written(registry, [registry EXCEPT ![key] = None], RegistryRaced(self))

GetLiveView(key) ==     \* mutant: whichever view is in the window
    LET live == {v \in Views : native[v] = "live"} IN IF live = {} THEN {None} ELSE live
GetView(key) == {registry[key]} \cup (IF RegistryRaced("nm") THEN {None} ELSE {})
-----------------------------------------------------------------------------
(***************************************************************************)
(* JS thread.  App renders one CardView, inside a ScrollView keyed by the  *)
(* session id, while the sheet is open and the session is ready: opening   *)
(* the sheet mounts an instance, closing it unmounts it, and a new session *)
(* under an open sheet does both in one commit.  React runs the effects of *)
(* a commit (unsubscribe the old, subscribe the new) some time after it,   *)
(* but before it commits again.                                            *)
(***************************************************************************)
EffectsRun == \A v \in Views : js[v] \notin {"rendered", "leaving"}

JsOpen(v, s) ==
    /\ EffectsRun
    /\ js[v] = "absent"
    /\ \A w \in Views : js[w] # "listening"
    /\ js' = [js EXCEPT ![v] = "rendered"]
    /\ jsSession' = [jsSession EXCEPT ![v] = s]
    /\ UNCHANGED <<post, call, callSession>>

JsClose(v) ==
    /\ EffectsRun
    /\ js[v] = "listening"
    /\ js' = [js EXCEPT ![v] = "leaving"]
    /\ UNCHANGED <<jsSession, post, call, callSession>>

JsSwitch(v, w, s) ==
    /\ EffectsRun
    /\ js[v] = "listening"
    /\ js[w] = "absent"
    /\ s # jsSession[v]
    /\ js' = [js EXCEPT ![v] = "leaving", ![w] = "rendered"]
    /\ jsSession' = [jsSession EXCEPT ![w] = s]
    /\ UNCHANGED <<post, call, callSession>>

AfterEffectsNoRemove(life) ==   \* mutant: no subscription.remove()
    IF life = "rendered" THEN "listening" ELSE life
AfterEffects(life) ==
    CASE life = "rendered" -> "listening"
      [] life = "leaving" -> "gone"
      [] OTHER -> life

JsRunEffects ==
    /\ ~EffectsRun
    /\ js' = [v \in Views |-> AfterEffects(js[v])]
    /\ UNCHANGED <<jsSession, post, call, callSession>>

(***************************************************************************)
(* The Pay button calls CardModule.submit with App's session id.  It is    *)
(* disabled until the promise of the call before has settled, and can be   *)
(* pressed only once the tree it is in has been mounted and its effects    *)
(* have run.                                                               *)
(***************************************************************************)
JsSubmit(c) ==
    /\ call[c] = "idle"
    /\ \A d \in Calls : call[d] \notin {"sent", "queued"}
    /\ \E v \in Views :
          /\ js[v] = "listening"
          /\ native[v] = "live"
          /\ callSession' = [callSession EXCEPT ![c] = jsSession[v]]
    /\ call' = [call EXCEPT ![c] = "sent"]
    /\ UNCHANGED <<js, jsSession, post>>

(***************************************************************************)
(* Every subscribed listener takes the event, whichever view it was        *)
(* emitted by, and calls handleSubmit, which POSTs; with none, the event   *)
(* is gone.                                                                *)
(***************************************************************************)
JsDeliver(r) ==
    /\ r \in events
    /\ events' = events \ {r}
    /\ post' = [post EXCEPT ![r] = [v \in Views |->
                    IF js[v] \in Subscribed THEN "posting" ELSE @[v]]]
    /\ UNCHANGED <<js, jsSession, call, callSession, inbox>>

\* The POST of v's listener comes back, after an unmount perhaps.
JsAnswer(r, v, outcome) ==
    /\ post[r][v] = "posting"
    /\ post' = [post EXCEPT ![r][v] = outcome]
    /\ inbox' = inbox \cup {[req |-> r, by |-> v]}
    /\ UNCHANGED <<js, jsSession, call, callSession, events>>

JsCommit ==
    /\ \E v \in Views :
          \/ \E s \in Sessions : JsOpen(v, s)
          \/ JsClose(v)
          \/ \E w \in Views, s \in Sessions : JsSwitch(v, w, s)
    /\ UNCHANGED <<uiVars, registry, pending, events, inbox, sdkVars, nm>>

JsRun ==
    /\ JsRunEffects \/ \E c \in Calls : JsSubmit(c)
    /\ UNCHANGED <<uiVars, registry, pending, events, inbox, sdkVars, nm>>

JsHandle ==
    /\ \E r \in Requests :
          \/ JsDeliver(r)
          \/ \E v \in Views, outcome \in Outcomes : JsAnswer(r, v, outcome)
    /\ UNCHANGED <<uiVars, registry, pending, sdkVars, nm>>
-----------------------------------------------------------------------------
(***************************************************************************)
(* UI thread.  createViewInstance, the prop setters and                    *)
(* onAfterUpdateTransaction run in one mount of the committed tree; a      *)
(* later update of any prop runs onAfterUpdateTransaction again.  App      *)
(* always passes handleSubmit, so the callback is the full one.            *)
(***************************************************************************)
Initialize(v, activity) ==
    IF hasInitialized[v]
      THEN UNCHANGED <<hasInitialized, session, component, registry>>
      ELSE /\ hasInitialized' = [hasInitialized EXCEPT ![v] = activity]
           /\ session' = [session EXCEPT ![v] = jsSession[v]]
           /\ RegisterView(jsSession[v], v, "ui")
           /\ component' = IF activity THEN [component EXCEPT ![v] = "creating"]
                                       ELSE component

UiMount(v, activity) ==
    /\ js[v] \in Shown
    /\ native[v] = "none"
    /\ native' = [native EXCEPT ![v] = "live"]
    /\ Initialize(v, activity)
    /\ UNCHANGED <<callView, sdk, call>>

UiUpdate(v, activity) ==
    /\ js[v] \in Shown
    /\ native[v] = "live"
    /\ Initialize(v, activity)
    /\ UNCHANGED <<native, callView, sdk, call>>

\* The view leaves the window.  CardViewManager does nothing about it: the
\* view stays in the registry.
DropAllKeys(v) == [k \in Keys |-> IF registry[k] = v THEN None ELSE registry[k]]  \* mutant
DropSessionKey(v) == [registry EXCEPT ![session[v]] = None]                     \* mutant
RegistryAfterDrop(v) == registry

UiDrop(v) ==
    /\ js[v] \notin Shown
    /\ native[v] = "live"
    /\ native' = [native EXCEPT ![v] = "dropped"]
    /\ registry' = RegistryAfterDrop(v)
    /\ UNCHANGED <<hasInitialized, session, component, callView, sdk, call>>

(***************************************************************************)
(* The coroutine of initialize: the factory and the component's creation   *)
(* may throw, which is logged, and then submitAction is never set.         *)
(***************************************************************************)
UiCreateComponent(v, created) ==
    /\ component[v] = "creating"
    /\ component' = [component EXCEPT ![v] = IF created THEN "ready" ELSE "failed"]
    /\ UNCHANGED <<native, hasInitialized, session, registry, callView, sdk, call>>

(***************************************************************************)
(* submitFromJs: the submitAction of a component that is not ready only    *)
(* logs, that of a ready one launches cardComponent.submit(); the promise  *)
(* is resolved either way.                                                 *)
(***************************************************************************)
ResolvedWhenReady(c) ==     \* mutant
    IF component[callView[c]] = "ready" THEN "resolved" ELSE "queued"
PromiseAfterSubmit(c) == "resolved"

UiSubmitFromJs(c) ==
    /\ call[c] = "queued"
    /\ sdk' = IF component[callView[c]] = "ready"
                THEN [sdk EXCEPT ![c] = "launched"] ELSE sdk
    /\ call' = [call EXCEPT ![c] = PromiseAfterSubmit(c)]
    /\ UNCHANGED <<native, hasInitialized, session, component, registry, callView>>

(***************************************************************************)
(* cardComponent.submit(): the SDK goes on with a valid card, and does     *)
(* nothing, or throws, with an invalid one.                                *)
(***************************************************************************)
UiSdkSubmit(c, accepted) ==
    /\ sdk[c] = "launched"
    /\ sdk' = [sdk EXCEPT ![c] = IF accepted THEN "accepted" ELSE "ignored"]
    /\ UNCHANGED <<native, hasInitialized, session, component, registry, callView, call>>

UiStep ==
    /\ ~MainBlocked
    /\ \/ \E v \in Views :
             \/ \E b \in BOOLEAN : UiMount(v, b) \/ UiUpdate(v, b) \/ UiCreateComponent(v, b)
             \/ UiDrop(v)
       \/ \E c \in Calls :
             \/ UiSubmitFromJs(c)
             \/ \E b \in BOOLEAN : UiSdkSubmit(c, b)
    /\ UNCHANGED <<js, jsSession, post, callSession, pending, events, inbox, sdkVars, nm>>
-----------------------------------------------------------------------------
(***************************************************************************)
(* The handleSubmit callback of a ready component.                         *)
(***************************************************************************)
SdkCallback(r, c) ==
    /\ sdk[c] = "accepted"
    /\ pc[r] = "idle"
    /\ r \in OnMain => ~MainBlocked
    /\ sdk' = [sdk EXCEPT ![c] = "done"]
    /\ pc' = [pc EXCEPT ![r] = "called"]
    /\ owner' = [owner EXCEPT ![r] = callView[c]]
    /\ cause' = [cause EXCEPT ![r] = c]
    /\ UNCHANGED <<registry, pending, events, result, verdict>>

\* pendingContinuations[requestId] = continuation
SdkStore(r) ==
    /\ pc[r] = "called"
    /\ pc' = [pc EXCEPT ![r] = "stored"]
    /\ LET v == owner[r] IN
       pending' \in Written(pending, [pending EXCEPT ![v] = @ \cup {r}], PendingRaced(r, v))
    /\ UNCHANGED <<sdk, owner, cause, result, verdict, registry, events>>

SdkRegister(r) ==
    /\ pc[r] = "stored"
    /\ pc' = [pc EXCEPT ![r] = "registered"]
    /\ RegisterView(r, owner[r], r)
    /\ UNCHANGED <<sdk, owner, cause, result, verdict, pending, events>>

\* The React context is there and takes the event.  If it threw, handleSubmit
\* would return a Failure that is no answer, and leave continuation and entry
\* behind; so would an interrupt of runBlocking, which nothing here makes.
SdkEmit(r) ==
    /\ pc[r] = "registered"
    /\ pc' = [pc EXCEPT ![r] = "waiting"]
    /\ events' = events \cup {r}
    /\ UNCHANGED <<sdk, owner, cause, result, verdict, registry, pending>>

(***************************************************************************)
(* runBlocking is over: a result with success is parsed into a             *)
(* PaymentSessionSubmissionResult, anything else, and a body that does not *)
(* parse, is ApiCallResult.Failure.                                        *)
(***************************************************************************)
Succeeded(outcome) == outcome \in {"paid", "malformed"}
ParsesAnything(outcome) == TRUE     \* mutant
Parses(outcome) == outcome # "malformed"

ApiCallResultRaw(outcome) == outcome    \* mutant
ApiCallResult(outcome) ==
    IF Succeeded(outcome) /\ Parses(outcome) THEN "Success" ELSE "Failure"

SdkReturn(r) ==
    /\ pc[r] = "resumed"
    /\ pc' = [pc EXCEPT ![r] = "returned"]
    /\ verdict' = [verdict EXCEPT ![r] = ApiCallResult(result[r])]
    /\ UNCHANGED <<sdk, owner, cause, result, registry, pending, events>>

SdkStep ==
    /\ \E r \in Requests :
          \/ \E c \in Calls : SdkCallback(r, c)
          \/ SdkStore(r)
          \/ SdkRegister(r)
          \/ SdkEmit(r)
          \/ SdkReturn(r)
    /\ UNCHANGED <<jsVars, native, hasInitialized, session, component, callView, inbox, nm>>
-----------------------------------------------------------------------------
(***************************************************************************)
(* Native modules thread: CardModule.submit and handleSubmitResponse.      *)
(***************************************************************************)
NmSubmit(c) ==
    /\ nm = None
    /\ call[c] = "sent"
    /\ \E v \in GetView(callSession[c]) :
          /\ call' = [call EXCEPT ![c] = IF v = None THEN "rejected" ELSE "queued"]
          /\ callView' = [callView EXCEPT ![c] = v]
    /\ UNCHANGED <<registry, pending, inbox, pc, result, nm>>

NmGetView(m) ==
    /\ nm = None
    /\ m \in inbox
    /\ inbox' = inbox \ {m}
    /\ \E v \in GetView(m.req) :
          nm' = IF v = None THEN None ELSE [req |-> m.req, by |-> m.by, view |-> v]
    /\ UNCHANGED <<call, callView, registry, pending, pc, result>>

(***************************************************************************)
(* CardView.handleSubmitResponse: unregister the request, take its         *)
(* continuation and resume it (resuming it again would throw, and be       *)
(* logged).                                                                *)
(***************************************************************************)
ClearPending(v, r) == [pending EXCEPT ![v] = {}]    \* mutant
WithoutPending(v, r) == [pending EXCEPT ![v] = @ \ {r}]

NmHandleResponse ==
    /\ nm # None
    /\ nm' = None
    /\ UnregisterView(nm.req, "nm")
    /\ LET r == nm.req
           v == nm.view
           raced == PendingRaced("nm", v)
       IN \/ /\ r \in pending[v]
             /\ pending' \in Written(pending, WithoutPending(v, r), raced)
             /\ IF pc[r] = "waiting"
                  THEN /\ pc' = [pc EXCEPT ![r] = "resumed"]
                       /\ result' = [result EXCEPT ![r] = post[r][nm.by]]
                  ELSE UNCHANGED <<pc, result>>
          \/ /\ r \notin pending[v] \/ raced
             /\ UNCHANGED <<pending, pc, result>>
    /\ UNCHANGED <<call, callView, inbox>>

NmStep ==
    /\ \/ \E c \in Calls : NmSubmit(c)
       \/ \E m \in inbox : NmGetView(m)
       \/ NmHandleResponse
    /\ UNCHANGED <<js, jsSession, post, callSession, native, hasInitialized, session,
                   component, sdk, events, owner, cause, verdict>>
-----------------------------------------------------------------------------
Next ==
    /\ JsCommit \/ JsRun \/ JsHandle \/ UiStep \/ SdkStep \/ NmStep
    /\ UNCHANGED mapsRace

Spec == Init /\ [][Next]_vars

(***************************************************************************)
(* A thread that has something to run runs it.  The user (JsCommit, the    *)
(* Pay presses) and the network (JsAnswer) owe nothing, nor does the SDK   *)
(* the return of the creation of a component.                              *)
(***************************************************************************)
NoneCreated == \A v \in Views : component[v] = "creating" => component'[v] = "creating"

Fairness ==
    /\ WF_vars(UiStep /\ NoneCreated /\ UNCHANGED mapsRace)
    /\ WF_vars(SdkStep /\ UNCHANGED mapsRace)
    /\ WF_vars(NmStep /\ UNCHANGED mapsRace)

FairSpec == Spec /\ Fairness
-----------------------------------------------------------------------------
(* Safety *)

\* While the SDK's thread waits for the answer to r, the answer can find it:
\* the request id leads CardModule.handleSubmitResponse to the view whose
\* map holds the continuation, whatever views came and went meanwhile.
Routable ==
    ~mapsRace => \A r \in Requests :
        pc[r] = "waiting" => /\ registry[r] = owner[r]
                             /\ r \in pending[owner[r]]

\* And it does: an answer App has was handed to the thread that waits for it,
\* or is on its way, as a call of handleSubmitResponse that has not begun or
\* that has found the view with the continuation.
AnswersAreKept ==
    ~mapsRace => \A r \in Requests, v \in Views :
        post[r][v] \in Outcomes =>
            \/ result[r] = post[r][v]
            \/ [req |-> r, by |-> v] \in inbox
            \/ nm = [req |-> r, by |-> v, view |-> owner[r]]

\* handleSubmitResponse leaves nothing behind: request ids are in the
\* registry, and keep their view alive, only while an answer is expected.
NoStrayEntry ==
    ~mapsRace => \A r \in Requests :
        registry[r] # None => pc[r] \in {"registered", "waiting"}

\* CardView.tsx does not look which view an event is for, so every listener
\* POSTs: a payment is POSTed once only because no two are ever subscribed,
\* across closes, reopenings and changes of session of the sheet.
SinglePost ==
    \A r \in Requests : \A v, w \in Views :
        post[r][v] # "none" /\ post[r][w] # "none" => v = w

\* The session a handleSubmit request is for, and that App POSTs to, is the
\* one on whose form Pay was pressed, three hand-overs between threads before.
PaysTheSessionPressed ==
    \A r \in Requests :
        pc[r] # "idle" => session[owner[r]] = callSession[cause[r]]

\* Once the view of the shown form is mounted, its session id leads
\* CardModule.submit to it and not to an earlier view of the same session,
\* although nothing ever takes those out of the registry.
PayReachesShownForm ==
    ~mapsRace => \A v \in Views :
        js[v] \in Shown /\ native[v] = "live" => registry[jsSession[v]] = v

ResumesWhatItTakes ==
    \A r \in Requests :
        /\ (\E v \in Views : r \in pending[v] \ pending'[v])
              => pc[r] = "waiting" /\ pc'[r] = "resumed"
        /\ result[r] # None => result'[r] = result[r]

\* A continuation that leaves pendingContinuations is resumed in that step,
\* and one that is resumed was being waited for: none is dropped or resumed
\* twice.
TakenIsResumed == [][ResumesWhatItTakes]_vars

(***************************************************************************)
(* What the bridge promises the SDK is SubmitRequest's specification.      *)
(***************************************************************************)
StatusOf(r) ==
    CASE pc[r] = "idle" -> "idle"
      [] pc[r] = "returned" -> "done"
      [] OTHER -> "asked"

AnswerTo(r) ==
    IF \E v \in Views : post[r][v] \in Outcomes
      THEN post[r][CHOOSE v \in Views : post[r][v] \in Outcomes]
      ELSE None

Promise == INSTANCE SubmitRequest WITH
    status <- [r \in Requests |-> StatusOf(r)],
    answer <- [r \in Requests |-> AnswerTo(r)]

\* The verdict the SDK gets is the one App's own answer to that request calls
\* for, and there is one of each at most.  It holds even when the maps race.
KeepsThePromise == Promise!Spec

(***************************************************************************)
(* What JavaScript does to the form, and when the promise of a press is    *)
(* settled, is what Sheet allows; AppFlow is shown to keep to it too.      *)
(***************************************************************************)
ShownForms == {v \in Views : js[v] \in Shown}
ShownSession == IF ShownForms = {} THEN None ELSE jsSession[CHOOSE v \in ShownForms : TRUE]

CallOf(c) ==
    CASE call[c] = "idle" -> "idle"
      [] call[c] \in {"sent", "queued"} -> "sent"
      [] OTHER -> "settled"

Form == INSTANCE Sheet WITH
    shown <- ShownSession,
    call <- [c \in Calls |-> CallOf(c)]

\* Pay asks for the session of the one form shown, one call at a time.
UsesTheSheet == Form!Spec
-----------------------------------------------------------------------------
(***************************************************************************)
(* The inductive invariant behind the safety properties, in named parts.   *)
(***************************************************************************)

\* One form is shown, and one listener is subscribed, at a time.
OneForm ==
    /\ \A v, w \in Views : js[v] \in Shown /\ js[w] \in Shown => v = w
    /\ \A v, w \in Views : js[v] \in Subscribed /\ js[w] \in Subscribed => v = w

\* Only a mounted view is initialized.
MountedFirst == \A v \in Views : hasInitialized[v] => native[v] # "none"

\* The session id travels unchanged from the form to the request.
KnownSessions ==
    /\ \A v \in Views :
          /\ js[v] # "absent" => jsSession[v] \in Sessions
          /\ native[v] # "none" => js[v] # "absent"
          /\ session[v] # None => js[v] # "absent" /\ session[v] = jsSession[v]
    /\ \A s \in Sessions : registry[s] # None => session[registry[s]] = s
    /\ \A c \in Calls :
          /\ call[c] # "idle" => callSession[c] \in Sessions
          /\ call[c] = "queued" \/ sdk[c] # "none" =>
                /\ call[c] \in {"queued", "resolved"}
                /\ callView[c] \in Views
                /\ session[callView[c]] = callSession[c]
    /\ \A r \in Requests : pc[r] # "idle" =>
          /\ owner[r] \in Views
          /\ cause[r] \in Calls
          /\ call[cause[r]] # "idle"
          /\ session[owner[r]] = callSession[cause[r]]

\* An event is delivered once, its POST answered once, the answer handed
\* over once.
Posted ==
    /\ SinglePost
    /\ \A r \in Requests :
          /\ pc[r] \in {"idle", "called", "stored", "registered"} =>
                r \notin events /\ \A v \in Views : post[r][v] = "none"
          /\ r \in events => \A v \in Views : post[r][v] = "none"
          /\ \A v \in Views : post[r][v] = "posting" => pc[r] = "waiting"
    /\ \A m \in inbox :
          /\ post[m.req][m.by] \in Outcomes
          /\ pc[m.req] = "waiting"
          /\ nm # None => nm.req # m.req
    /\ nm # None => post[nm.req][nm.by] \in Outcomes /\ pc[nm.req] = "waiting"

\* The SDK's thread goes on with the answer App has for its request.
Answered ==
    \A r \in Requests :
        /\ IF pc[r] \in {"resumed", "returned"}
             THEN result[r] \in Outcomes /\ \E v \in Views : post[r][v] = result[r]
             ELSE result[r] = None
        /\ verdict[r] = IF pc[r] = "returned" THEN ApiCallResult(result[r]) ELSE None

\* Without races, the registry and the continuations lead to the waiting view.
Routes ==
    ~mapsRace =>
        /\ \A r \in Requests :
              /\ pc[r] \in {"registered", "waiting"} => registry[r] = owner[r]
              /\ pc[r] \in {"stored", "registered", "waiting"} => r \in pending[owner[r]]
              /\ registry[r] # None => pc[r] \in {"registered", "waiting"}
        /\ nm # None => nm.view = owner[nm.req]

IInv ==
    /\ TypeOK
    /\ OneForm
    /\ MountedFirst
    /\ KnownSessions
    /\ Posted
    /\ Answered
    /\ Routes
    /\ PayReachesShownForm
-----------------------------------------------------------------------------
(* Liveness *)

\* An answer App has, the SDK gets, even if the form it was asked from is
\* long closed, and even if the thread parked in runBlocking is the UI thread.
AnswersReturn ==
    \A r \in Requests :
        ~mapsRace /\ (\E v \in Views : post[r][v] \in Outcomes) ~> pc[r] = "returned"

\* App's "Submitting..." ends: the promise of CardModule.submit settles, also
\* when the view is unknown, not ready or gone.  Only a payment that is asked
\* about on the UI thread, and holds it, may keep it waiting.
PromisesSettle ==
    \A c \in Calls :
        call[c] = "sent" ~> call[c] \in {"resolved", "rejected"} \/ MainBlocked
-----------------------------------------------------------------------------
(* What comments and logs of the code say, and the code does not do *)

\* "Flag to indicate if handleSubmit listener is available" (CardView.kt): a
\* view that was given the flag has, when it emits, a listener to answer.
ListenerAvailable ==
    \A r \in Requests : pc[r] = "waiting" =>
        r \in events \/ \E v \in Views : post[r][v] # "none"

\* "submitFromJs invoked cardComponent.submit()" (CardView.kt): a promise that
\* resolves has launched a submission.
ResolvedMeansSubmitted ==
    \A c \in Calls : call[c] = "resolved" => sdk[c] # "none"
=============================================================================
