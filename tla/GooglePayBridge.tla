--------------------------- MODULE GooglePayBridge ---------------------------
(***************************************************************************)
(* The Google Pay button on Android, from the React component to the       *)
(* Checkout SDK and back: GooglePayView.tsx, GooglePayModule.kt,           *)
(* GooglePayViewManager.kt and GooglePayView.kt.  App.tsx does not mount   *)
(* it at this commit; it is used here the way App uses the card form, one  *)
(* instance at a time.                                                     *)
(*                                                                         *)
(* What differs from CardBridge: the user presses the SDK's own button; a  *)
(* request is identified by its session id; the registry has one view per  *)
(* session id and offers an answer to each of them.                        *)
(***************************************************************************)
EXTENDS FiniteSets

CONSTANTS
    Views,          \* GooglePayView instances
    Sessions,       \* payment session ids, and so request ids
    Requests,       \* invocations of the SDK's handleSubmit callback
    None,           \* no session, view, request, outcome or verdict
    RemountsSession \* a session may be mounted again after an unmount

\* What the handleSubmit prop comes to; see SubmitRequest.
Outcomes == {"paid", "malformed", "failed"}

ASSUME NoneAssumption ==
    None \notin Views \cup Sessions \cup Requests \cup Outcomes
ASSUME RemountsAssumption == RemountsSession \in BOOLEAN

VARIABLES
    \* JS thread
    js,             \* js[v]: life of the React component
    jsSession,      \* jsSession[v]: its paymentSessionID prop
    post,           \* post[r][v]: what v's listener did with the event of r
    \* UI thread
    native,         \* native[v]: life of the Android view
    hasInitialized,
    session,        \* session[v]: id in currentSessionData
    component,      \* component[v]: life of the SDK's Google Pay component
    pressed,        \* views whose button was pressed and has not called back
    \* shared by the threads
    registry,       \* GooglePayViewRegistry.views
    pending,        \* pending[v]: the request v's pendingContinuations holds
    events,         \* requests whose event is on its way to JS
    inbox,          \* calls of handleSubmitResponse on their way to native
    \* SDK threads: one handleSubmit callback per request
    pc,             \* pc[r]: where the callback is
    owner,          \* owner[r]: the view it belongs to
    result,         \* result[r]: what the continuation was resumed with
    verdict,        \* verdict[r]: the ApiCallResult returned to the SDK
    \* the platform; never changes
    mapsRace        \* the registry may be written while it is iterated

jsVars == <<js, jsSession, post>>
uiVars == <<native, hasInitialized, session, component>>
sdkVars == <<pressed, pc, owner, result, verdict>>
vars == <<jsVars, uiVars, registry, pending, events, inbox, sdkVars, mapsRace>>
-----------------------------------------------------------------------------
Shown == {"rendered", "listening"}      \* in the committed tree
Subscribed == {"listening", "leaving"}  \* the event listener is installed

\* id is what the call says, req and by are where its outcome came from.
Responses == [id : Sessions, req : Requests, by : Views]

TypeOK ==
    /\ js \in [Views -> {"absent", "rendered", "listening", "leaving", "gone"}]
    /\ jsSession \in [Views -> Sessions \cup {None}]
    /\ post \in [Requests -> [Views -> {"none", "posting"} \cup Outcomes]]
    /\ native \in [Views -> {"none", "live", "dropped"}]
    /\ hasInitialized \in [Views -> BOOLEAN]
    /\ session \in [Views -> Sessions \cup {None}]
    /\ component \in [Views -> {"none", "creating", "ready", "failed"}]
    /\ pressed \in SUBSET Views
    /\ registry \in [Sessions -> Views \cup {None}]
    /\ pending \in [Views -> Requests \cup {None}]
    /\ events \in SUBSET Requests
    /\ inbox \in SUBSET Responses
    /\ pc \in [Requests -> {"idle", "called", "stored", "waiting", "returned"}]
    /\ owner \in [Requests -> Views \cup {None}]
    /\ result \in [Requests -> Outcomes \cup {None}]
    /\ verdict \in [Requests -> {"Success", "Failure", None}]
    /\ mapsRace \in BOOLEAN

Init ==
    /\ js = [v \in Views |-> "absent"]
    /\ jsSession = [v \in Views |-> None]
    /\ post = [r \in Requests |-> [v \in Views |-> "none"]]
    /\ native = [v \in Views |-> "none"]
    /\ hasInitialized = [v \in Views |-> FALSE]
    /\ session = [v \in Views |-> None]
    /\ component = [v \in Views |-> "none"]
    /\ pressed = {}
    /\ registry = [s \in Sessions |-> None]
    /\ pending = [v \in Views |-> None]
    /\ events = {}
    /\ inbox = {}
    /\ pc = [r \in Requests |-> "idle"]
    /\ owner = [r \in Requests |-> None]
    /\ result = [r \in Requests |-> None]
    /\ verdict = [r \in Requests |-> None]
    /\ mapsRace \in BOOLEAN
-----------------------------------------------------------------------------
(***************************************************************************)
(* JS thread: one instance is shown at a time, effects run between two     *)
(* commits, as in CardBridge.                                              *)
(***************************************************************************)
EffectsRun == \A v \in Views : js[v] \notin {"rendered", "leaving"}

Mountable(s) == RemountsSession \/ \A v \in Views : jsSession[v] # s

JsOpen(v, s) ==
    /\ EffectsRun
    /\ js[v] = "absent"
    /\ Mountable(s)
    /\ \A w \in Views : js[w] # "listening"
    /\ js' = [js EXCEPT ![v] = "rendered"]
    /\ jsSession' = [jsSession EXCEPT ![v] = s]
    /\ UNCHANGED <<post, events, inbox>>

JsClose(v) ==
    /\ EffectsRun
    /\ js[v] = "listening"
    /\ js' = [js EXCEPT ![v] = "leaving"]
    /\ UNCHANGED <<jsSession, post, events, inbox>>

JsRunEffects ==
    /\ ~EffectsRun
    /\ js' = [v \in Views |-> CASE js[v] = "rendered" -> "listening"
                                [] js[v] = "leaving" -> "gone"
                                [] OTHER -> js[v]]
    /\ UNCHANGED <<jsSession, post, events, inbox>>

\* Every subscribed listener takes the event and POSTs.
JsDeliver(r) ==
    /\ r \in events
    /\ events' = events \ {r}
    /\ post' = [post EXCEPT ![r] = [v \in Views |->
                    IF js[v] \in Subscribed THEN "posting" ELSE @[v]]]
    /\ UNCHANGED <<js, jsSession, inbox>>

\* The answer is sent under the request id of the event: the session id.
RequestId(r) == session[owner[r]]

JsAnswer(r, v, outcome) ==
    /\ post[r][v] = "posting"
    /\ post' = [post EXCEPT ![r][v] = outcome]
    /\ inbox' = inbox \cup {[id |-> RequestId(r), req |-> r, by |-> v]}
    /\ UNCHANGED <<js, jsSession, events>>

JsStep ==
    /\ \/ JsRunEffects
       \/ \E v \in Views : JsClose(v) \/ \E s \in Sessions : JsOpen(v, s)
       \/ \E r \in Requests :
             \/ JsDeliver(r)
             \/ \E v \in Views, outcome \in Outcomes : JsAnswer(r, v, outcome)
    /\ UNCHANGED <<uiVars, registry, pending, sdkVars>>
-----------------------------------------------------------------------------
(***************************************************************************)
(* UI thread.  initialize registers the view and stores the session before *)
(* it looks for an activity, and starts over later if there is none.       *)
(***************************************************************************)
RegisterView(id, v) == [registry EXCEPT ![id] = v]

Initialize(v, activity) ==
    IF hasInitialized[v]
      THEN UNCHANGED <<hasInitialized, session, component, registry>>
      ELSE /\ hasInitialized' = [hasInitialized EXCEPT ![v] = activity]
           /\ session' = [session EXCEPT ![v] = jsSession[v]]
           /\ registry' = RegisterView(jsSession[v], v)
           /\ component' = IF activity THEN [component EXCEPT ![v] = "creating"]
                                       ELSE component

UiMount(v, activity) ==
    /\ js[v] \in Shown
    /\ native[v] = "none"
    /\ native' = [native EXCEPT ![v] = "live"]
    /\ Initialize(v, activity)

UiUpdate(v, activity) ==
    /\ js[v] \in Shown
    /\ native[v] = "live"
    /\ Initialize(v, activity)
    /\ UNCHANGED native

\* The manager does nothing about a view that leaves the window.
DropUnregisters(v) ==   \* mutant
    [s \in Sessions |-> IF registry[s] = v THEN None ELSE registry[s]]
RegistryAfterDrop(v) == registry

UiDrop(v) ==
    /\ js[v] \notin Shown
    /\ native[v] = "live"
    /\ native' = [native EXCEPT ![v] = "dropped"]
    /\ registry' = RegistryAfterDrop(v)
    /\ UNCHANGED <<hasInitialized, session, component>>

UiCreateComponent(v, created) ==
    /\ component[v] = "creating"
    /\ component' = [component EXCEPT ![v] = IF created THEN "ready" ELSE "failed"]
    /\ UNCHANGED <<native, hasInitialized, session, registry>>

UiStep ==
    /\ \E v \in Views :
          \/ \E b \in BOOLEAN : UiMount(v, b) \/ UiUpdate(v, b) \/ UiCreateComponent(v, b)
          \/ UiDrop(v)
    /\ UNCHANGED <<jsVars, pending, events, inbox, sdkVars>>
-----------------------------------------------------------------------------
(***************************************************************************)
(* The SDK's button, and the handleSubmit callback it leads to, after an   *)
(* unmount perhaps.  A component asks one thing at a time: it is blocked   *)
(* until it has the answer.                                                *)
(***************************************************************************)
SdkPress(v) ==
    /\ native[v] = "live"
    /\ component[v] = "ready"
    /\ v \notin pressed
    /\ \A q \in Requests : owner[q] = v => pc[q] = "returned"
    /\ pressed' = pressed \cup {v}
    /\ UNCHANGED <<pc, owner>>

SdkCallback(r, v) ==
    /\ v \in pressed
    /\ pc[r] = "idle"
    /\ pressed' = pressed \ {v}
    /\ pc' = [pc EXCEPT ![r] = "called"]
    /\ owner' = [owner EXCEPT ![r] = v]

\* pendingContinuations[requestId] = continuation
SdkStore(r) ==
    /\ pc[r] = "called"
    /\ pc' = [pc EXCEPT ![r] = "stored"]
    /\ pending' = [pending EXCEPT ![owner[r]] = r]
    /\ UNCHANGED <<events, owner, result, verdict>>

SdkEmit(r) ==
    /\ pc[r] = "stored"
    /\ pc' = [pc EXCEPT ![r] = "waiting"]
    /\ events' = events \cup {r}
    /\ UNCHANGED <<pending, owner, result, verdict>>

\* runBlocking is over; a body that does not parse is a Failure.
Parses(outcome) == outcome = "paid"

ApiCallResult(outcome) == IF Parses(outcome) THEN "Success" ELSE "Failure"

SdkReturn(r) ==
    /\ pc[r] = "waiting"
    /\ result[r] # None
    /\ pc' = [pc EXCEPT ![r] = "returned"]
    /\ verdict' = [verdict EXCEPT ![r] = ApiCallResult(result[r])]
    /\ UNCHANGED <<pending, events, owner, result>>

SdkStart ==
    /\ \E v \in Views : SdkPress(v) \/ \E r \in Requests : SdkCallback(r, v)
    /\ UNCHANGED <<jsVars, uiVars, registry, pending, events, inbox, result, verdict>>

SdkStep ==
    /\ \E r \in Requests : SdkStore(r) \/ SdkEmit(r) \/ SdkReturn(r)
    /\ UNCHANGED <<jsVars, uiVars, pressed, registry, inbox>>
-----------------------------------------------------------------------------
(***************************************************************************)
(* Native modules thread: GooglePayModule.handleSubmitResponse.  The views *)
(* of the registry are offered the answer one after the other; a view that *)
(* registers meanwhile breaks the iteration off with an exception, which   *)
(* is logged.                                                              *)
(***************************************************************************)
Registered == {v \in Views : \E s \in Sessions : registry[s] = v}

UiMayRegister ==    \* an entry that was not there
    \E v \in Views :
        /\ js[v] \in Shown
        /\ native[v] # "dropped"
        /\ registry[jsSession[v]] = None

Visits == IF mapsRace /\ UiMayRegister THEN SUBSET Registered ELSE {Registered}

\* A view's own map is atomic even if mapsRace: its component stores the next
\* continuation only after the one before was removed and resumed, and removing
\* an id that is not there writes nothing.
HoldsAny(v, id) == pending[v] # None    \* mutant: any continuation of the view
Holds(v, id) == pending[v] # None /\ session[v] = id

KeepEntry(v) == pending[v]  \* mutant: get instead of remove
WithoutEntry(v) == None

NmHandleResponse(m) ==
    /\ m \in inbox
    /\ inbox' = inbox \ {m}
    /\ \E visited \in Visits :
          LET takers == {v \in visited : Holds(v, m.id)}
          IN /\ pending' = [v \in Views |->
                                IF v \in takers THEN WithoutEntry(v) ELSE pending[v]]
             /\ result' = [r \in Requests |->
                                IF \E v \in takers : pending[v] = r
                                  THEN post[m.req][m.by] ELSE result[r]]
    /\ UNCHANGED <<jsVars, uiVars, pressed, registry, events, pc, owner, verdict>>

NmStep == \E m \in inbox : NmHandleResponse(m)
-----------------------------------------------------------------------------
Next ==
    /\ JsStep \/ UiStep \/ SdkStart \/ SdkStep \/ NmStep
    /\ UNCHANGED mapsRace

Spec == Init /\ [][Next]_vars

\* A thread that has something to run runs it; the user and the network
\* (JsStep, SdkStart) owe nothing, nor does the SDK the return of the creation
\* of a component.
NoneCreated == \A v \in Views : component[v] = "creating" => component'[v] = "creating"

Fairness ==
    /\ WF_vars(UiStep /\ NoneCreated /\ UNCHANGED mapsRace)
    /\ WF_vars(SdkStep /\ UNCHANGED mapsRace)
    /\ WF_vars(NmStep /\ UNCHANGED mapsRace)

FairSpec == Spec /\ Fairness
-----------------------------------------------------------------------------
\* A continuation that leaves pendingContinuations has its result in that
\* step, and a result is never replaced: resume is called once.
ResumesWhatItTakes ==
    \A r \in Requests :
        /\ (\E v \in Views : pending[v] = r /\ pending'[v] # r) => result'[r] # None
        /\ result[r] # None => result'[r] = result[r]
        /\ result[r] = None /\ result'[r] # None => \A v \in Views : pending'[v] # r

TakenIsResumed == [][ResumesWhatItTakes]_vars

\* An answer the app has was handed to the thread that waits for it, or is on
\* its way under the session id, though the button is long off the screen: it
\* holds as long as no session is mounted twice and no iteration breaks off.
AnswersAreKept ==
    ~mapsRace => \A r \in Requests, v \in Views :
        post[r][v] \in Outcomes =>
            \/ result[r] = post[r][v]
            \/ [id |-> RequestId(r), req |-> r, by |-> v] \in inbox

\* What a payment goes on with is an answer App gave to a payment of the same
\* session, also when two buttons of one session take each other's place in
\* the registry and the answers are theirs in common.
AnswersStayInSession ==
    \A r \in Requests : result[r] # None =>
        \E q \in Requests, v \in Views :
            /\ result[r] = post[q][v]
            /\ RequestId(q) = RequestId(r)

(***************************************************************************)
(* What the bridge promises the SDK is SubmitRequest's specification.      *)
(***************************************************************************)
StatusOf(r) ==
    CASE pc[r] = "idle" -> "idle"
      [] pc[r] = "returned" -> "done"
      [] OTHER -> "asked"

AnswerTo(r) ==
    IF \E v \in Views : post[r][v] \in Outcomes
      THEN post[r][CHOOSE v \in Views : post[r][v] \in Outcomes]
      ELSE None

Promise == INSTANCE SubmitRequest WITH
    status <- [r \in Requests |-> StatusOf(r)],
    answer <- [r \in Requests |-> AnswerTo(r)]

\* The verdict the SDK gets is the one the app's own answer to that request
\* calls for, though the answer names only the session: it holds as long as
\* no session is mounted twice.
KeepsThePromise == Promise!Spec

\* An answer the app has, the SDK gets, even after the unmount, unless a view
\* that registers breaks the iteration off.
AnswersReturn ==
    \A r \in Requests :
        ~mapsRace /\ (\E v \in Views : post[r][v] \in Outcomes) ~> pc[r] = "returned"
=============================================================================
