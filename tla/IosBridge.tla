------------------------------ MODULE IosBridge ------------------------------
(***************************************************************************)
(* The card form and the Apple Pay button on iOS, from the React component *)
(* to the Checkout SDK and back: CardView.tsx, ApplePayView.tsx,           *)
(* ApplePayModule.swift, CardPayView.swift and ApplePayView.swift, used    *)
(* the way App.tsx uses the card form.                                     *)
(*                                                                         *)
(* Three threads take the steps:                                           *)
(*   - the JS thread commits and unmounts instances of the two components, *)
(*     presses Pay and answers the onHandleTokenized and onHandleSubmit    *)
(*     events;                                                             *)
(*   - the main thread creates, drops and frees the native views, runs     *)
(*     initialize and submit, and the SDK's callbacks, which suspend on a  *)
(*     continuation instead of blocking it;                                *)
(*   - ApplePayModule's own queue hands JS's answers to the views.         *)
(*                                                                         *)
(* Unlike Android's, the registry holds weak references, under session ids *)
(* only, and an answer is offered to every view in it.                     *)
(***************************************************************************)
EXTENDS Integers, FiniteSets

CONSTANTS
    Views,          \* CardView and ApplePayView instances
    Methods,        \* what they take payments with: "card", "applepay"
    Sessions,       \* payment session ids
    Requests,       \* payments the SDK asks the app about
    Calls,          \* presses of Pay, each with its promise, or of Apple Pay
    None,           \* no session, view, call, answer or verdict
    MapsRace        \* the main thread may run in the middle of a sweep, or of
                    \* an access to a map of continuations

\* What App.handleSubmit comes to; see SubmitRequest.
Outcomes == {"paid", "malformed", "failed"}

ASSUME NoneAssumption ==
    None \notin Views \cup Sessions \cup Calls \cup Outcomes
ASSUME ViewsAssumption == IsFiniteSet(Views)
ASSUME MethodsAssumption == Methods \subseteq {"card", "applepay"}
ASSUME FlagAssumption == MapsRace \in BOOLEAN

VARIABLES
    \* JS thread
    js,             \* js[v]: life of the React component
    jsSession,      \* jsSession[v]: its paymentSessionID prop
    token,          \* token[r]: App.handleTokenized's answer
    post,           \* post[r][v]: what v's listener did with r's submit event
    call,           \* call[c]: life of the promise ApplePayModule.submit returned
    callSession,    \* callSession[c]: the session id it was called with
    \* main thread
    native,         \* native[v]: life of the native view
    component,      \* component[v]: initialize and the SDK's card component
    target,         \* target[c]: the view whose component.submit() was called
    sdk,            \* sdk[c]: what the SDK made of it
    \* shared by the main thread and the module's queue
    registry,       \* registry[s]: ApplePayViewRegistry.views, as a set
    rank,           \* rank[v]: the order of its elements
    pending,        \* pending[v]: what v's two maps of continuations hold
    events,         \* events on their way to JS
    inbox,          \* answers on their way to the module's queue
    \* the SDK's callbacks: onTokenized, then handleSubmit
    pc,             \* pc[r]: where they are
    owner,          \* owner[r]: the view they belong to
    result,         \* result[r]: the verdict handleSubmit was resumed with
    verdict,        \* verdict[r]: the APICallResult returned to the SDK
    \* the module's queue
    nm,             \* the answer being handed out
    swept,          \* the registry the sweep of that answer has computed
    \* never changes
    method          \* method[v]: what instance v takes payments with

jsVars == <<js, jsSession, token, post, call, callSession>>
uiVars == <<native, component, target, rank>>
askVars == <<pending, pc, owner, result, verdict>>
nmVars == <<nm, swept>>
vars == <<jsVars, uiVars, sdk, registry, events, inbox, askVars, nmVars, method>>
-----------------------------------------------------------------------------
Shown == {"rendered", "listening"}      \* in the committed tree
Subscribed == {"listening", "leaving"}  \* the event listeners are installed
Suspended == {"token", "waiting"}       \* on a continuation

Kinds == {"token", "submit"}
KindOf(r) == IF pc[r] = "token" THEN "token" ELSE "submit"
Question(r, kind) == [req |-> r, kind |-> kind]
Asks == [req : Requests, kind : Kinds]
Answers == [req : Requests, kind : Kinds, by : Views]

ASSUME NoAnswerAssumption == None \notin Answers

TypeOK ==
    /\ js \in [Views -> {"absent", "rendered", "listening", "leaving", "gone"}]
    /\ jsSession \in [Views -> Sessions \cup {None}]
    /\ token \in [Requests -> {"accepted", "rejected", None}]
    /\ post \in [Requests -> [Views -> {"none", "posting"} \cup Outcomes]]
    /\ call \in [Calls -> {"idle", "sent", "resolved", "rejected"}]
    /\ callSession \in [Calls -> Sessions \cup {None}]
    /\ native \in [Views -> {"none", "live", "dropped", "freed"}]
    /\ component \in [Views -> {"none", "queued", "creating", "ready", "failed"}]
    /\ target \in [Calls -> Views \cup {None}]
    /\ sdk \in [Calls -> {"none", "submitted", "unchecked", "done"}]
    /\ registry \in [Sessions -> SUBSET Views]
    /\ rank \in [Views -> Nat]
    /\ pending \in [Views -> SUBSET Asks]
    /\ events \in SUBSET Asks
    /\ inbox \in SUBSET Answers
    /\ pc \in [Requests -> {"idle", "token", "tokenAnswered", "checked", "refused",
                            "waiting", "resumed", "returned", "viewGone"}]
    /\ owner \in [Requests -> Views \cup {None}]
    /\ result \in [Requests -> {"Success", "Failure", None}]
    /\ verdict \in [Requests -> {"Success", "Failure", None}]
    /\ nm \in Answers \cup {None}
    /\ swept \in [Sessions -> SUBSET Views] \cup {None}
    /\ method \in [Views -> Methods]

Init ==
    /\ js = [v \in Views |-> "absent"]
    /\ jsSession = [v \in Views |-> None]
    /\ token = [r \in Requests |-> None]
    /\ post = [r \in Requests |-> [v \in Views |-> "none"]]
    /\ call = [c \in Calls |-> "idle"]
    /\ callSession = [c \in Calls |-> None]
    /\ native = [v \in Views |-> "none"]
    /\ component = [v \in Views |-> "none"]
    /\ target = [c \in Calls |-> None]
    /\ sdk = [c \in Calls |-> "none"]
    /\ registry = [s \in Sessions |-> {}]
    /\ rank = [v \in Views |-> 0]
    /\ pending = [v \in Views |-> {}]
    /\ events = {}
    /\ inbox = {}
    /\ pc = [r \in Requests |-> "idle"]
    /\ owner = [r \in Requests |-> None]
    /\ result = [r \in Requests |-> None]
    /\ verdict = [r \in Requests |-> None]
    /\ nm = None
    /\ swept = None
    /\ method \in [Views -> Methods]
-----------------------------------------------------------------------------
(***************************************************************************)
(* JS thread: as in CardBridge, but a form may also be replaced by one of  *)
(* the same session.  React Native's iOS Modal renders its children until  *)
(* it is dismissed, and the key of the ScrollView they are in changes as   *)
(* soon as the sheet is told to close.  A card form and an Apple Pay       *)
(* button may be shown side by side.                                       *)
(***************************************************************************)
EffectsRun == \A v \in Views : js[v] \notin {"rendered", "leaving"}

JsOpen(v, s) ==
    /\ EffectsRun
    /\ js[v] = "absent"
    /\ \A w \in Views : method[w] = method[v] => js[w] # "listening"
    /\ js' = [js EXCEPT ![v] = "rendered"]
    /\ jsSession' = [jsSession EXCEPT ![v] = s]

JsClose(v) ==
    /\ EffectsRun
    /\ js[v] = "listening"
    /\ js' = [js EXCEPT ![v] = "leaving"]
    /\ UNCHANGED jsSession

JsSwitch(v, w, s) ==
    /\ EffectsRun
    /\ js[v] = "listening"
    /\ js[w] = "absent"
    /\ method[w] = method[v]
    /\ js' = [js EXCEPT ![v] = "leaving", ![w] = "rendered"]
    /\ jsSession' = [jsSession EXCEPT ![w] = s]

AfterEffects(life) ==
    CASE life = "rendered" -> "listening"
      [] life = "leaving" -> "gone"
      [] OTHER -> life

JsRunEffects ==
    /\ ~EffectsRun
    /\ js' = [v \in Views |-> AfterEffects(js[v])]
    /\ UNCHANGED jsSession

\* The Pay button, disabled until the promise of the call before has settled.
JsSubmit(c) ==
    /\ call[c] = "idle"
    /\ \A d \in Calls : call[d] # "sent"
    /\ \E v \in Views :
          /\ js[v] = "listening"
          /\ native[v] = "live"
          /\ callSession' = [callSession EXCEPT ![c] = jsSession[v]]
    /\ call' = [call EXCEPT ![c] = "sent"]

\* An event names its component, "card" or "applepay", and the listeners of
\* the other component ignore it.
ListenersOfAll(r) == {v \in Views : js[v] \in Subscribed}     \* mutant
Listeners(r) ==
    {v \in Views : js[v] \in Subscribed /\ owner[r] # None /\ method[v] = method[owner[r]]}

\* onHandleTokenized: App.handleTokenized answers without waiting for anything.
JsTokenized(r, answer) ==
    LET event == Question(r, "token") IN
    /\ event \in events
    /\ events' = events \ {event}
    /\ inbox' = inbox \cup {[req |-> r, kind |-> "token", by |-> v] : v \in Listeners(r)}
    /\ token' = IF Listeners(r) = {} THEN token ELSE [token EXCEPT ![r] = answer]
    /\ UNCHANGED post

\* onHandleSubmit: App.handleSubmit POSTs.
JsDeliver(r) ==
    LET event == Question(r, "submit") IN
    /\ event \in events
    /\ events' = events \ {event}
    /\ post' = [post EXCEPT ![r] = [v \in Views |->
                    IF v \in Listeners(r) THEN "posting" ELSE @[v]]]
    /\ UNCHANGED <<token, inbox>>

\* The POST of v's listener comes back, after an unmount perhaps.
JsAnswer(r, v, outcome) ==
    /\ post[r][v] = "posting"
    /\ post' = [post EXCEPT ![r][v] = outcome]
    /\ inbox' = inbox \cup {[req |-> r, kind |-> "submit", by |-> v]}
    /\ UNCHANGED <<token, events>>

JsSheet ==
    /\ \/ JsRunEffects
       \/ \E v \in Views :
             \/ \E s \in Sessions : JsOpen(v, s)
             \/ JsClose(v)
             \/ \E w \in Views, s \in Sessions : JsSwitch(v, w, s)
    /\ UNCHANGED <<token, post, call, callSession, uiVars, sdk, registry, events, inbox,
                   askVars, nmVars>>

JsPay ==
    /\ \E c \in Calls : JsSubmit(c)
    /\ UNCHANGED <<js, jsSession, token, post, uiVars, sdk, registry, events, inbox,
                   askVars, nmVars>>

JsHandle ==
    /\ \E r \in Requests :
          \/ \E answer \in {"accepted", "rejected"} : JsTokenized(r, answer)
          \/ JsDeliver(r)
          \/ \E v \in Views, outcome \in Outcomes : JsAnswer(r, v, outcome)
    /\ UNCHANGED <<js, jsSession, call, callSession, uiVars, sdk, registry, askVars, nmVars>>
-----------------------------------------------------------------------------
(***************************************************************************)
(* Life of the native view.  The registry does not keep it alive, nor do   *)
(* the SDK's callbacks (weak self), but an initialize or a callback that   *)
(* is suspended does.                                                      *)
(***************************************************************************)
Alive(v) == native[v] \in {"live", "dropped"}

RetainedByComponent(v) ==   \* mutant: the callbacks capture self
    component[v] \in {"queued", "creating", "ready"}
Retained(v) ==
    \/ component[v] \in {"queued", "creating"}
    \/ \E r \in Requests :
          owner[r] = v /\ pc[r] \in {"token", "tokenAnswered", "waiting", "resumed"}

\* The main thread and the module's queue are not synchronized: the sweep of
\* an answer reads the registry and writes it back, and unless MapsRace
\* nothing happens in between.
NoSweep == MapsRace \/ swept = None

\* register: dead references go, the view is appended.
Registered(v, s) ==
    [registry EXCEPT ![s] = {w \in @ : Alive(w)} \cup {v}]

\* The props are set: paymentSessionID registers the view, and once the
\* secret and the key are there too a Task for initialize is queued.
UiMount(v) ==
    /\ js[v] \in Shown
    /\ native[v] = "none"
    /\ NoSweep
    /\ native' = [native EXCEPT ![v] = "live"]
    /\ registry' = Registered(v, jsSession[v])
    /\ rank' = [rank EXCEPT ![v] = 1 + Cardinality({w \in Views : native[w] # "none"})]
    /\ component' = [component EXCEPT ![v] = "queued"]
    /\ UNCHANGED <<target, sdk, call>>

\* initialize runs up to its await, and after it.
UiInitialize(v) ==
    /\ component[v] = "queued"
    /\ component' = [component EXCEPT ![v] = "creating"]
    /\ UNCHANGED <<native, target, rank, sdk, registry, call>>

UiCreateComponent(v, created) ==
    /\ component[v] = "creating"
    /\ component' = [component EXCEPT ![v] = IF created THEN "ready" ELSE "failed"]
    /\ UNCHANGED <<native, target, rank, sdk, registry, call>>

UiDrop(v) ==
    /\ js[v] \notin Shown
    /\ native[v] = "live"
    /\ native' = [native EXCEPT ![v] = "dropped"]
    /\ UNCHANGED <<component, target, rank, sdk, registry, call>>

\* deinit: unregister removes the view, and every dead reference.
UnregisterSession(v) == [registry EXCEPT ![jsSession[v]] = {}]      \* mutant
Unregistered(v) == [s \in Sessions |-> {w \in registry[s] : w # v /\ Alive(w)}]

UiFree(v) ==
    /\ native[v] = "dropped"
    /\ ~Retained(v)
    /\ NoSweep
    /\ native' = [native EXCEPT ![v] = "freed"]
    /\ registry' = Unregistered(v)
    /\ UNCHANGED <<component, target, rank, sdk, call>>
-----------------------------------------------------------------------------
(***************************************************************************)
(* ApplePayViewRegistry.submit, in one block on the main thread: the views *)
(* of the session are tried in the order they were registered, then all    *)
(* views in the order of the dictionary; the first whose component is      *)
(* ready and valid takes it.                                               *)
(***************************************************************************)
Everywhere == UNION {registry[s] : s \in Sessions}

Oldest(candidates) == {v \in candidates : \A w \in candidates : rank[v] <= rank[w]}

SubmitTargets(s, valid) ==
    LET direct == registry[s] \cap valid
        others == Everywhere \cap valid
    IN IF direct # {} THEN Oldest(direct) ELSE others

UiSubmit(c) ==
    /\ call[c] = "sent"
    /\ NoSweep
    /\ \E valid \in SUBSET {v \in Views : Alive(v) /\ component[v] = "ready"} :
          LET targets == SubmitTargets(callSession[c], valid)
          IN IF targets = {}
               THEN /\ call' = [call EXCEPT ![c] = "rejected"]
                    /\ UNCHANGED <<target, sdk>>
               ELSE /\ call' = [call EXCEPT ![c] = "resolved"]
                    /\ target' \in {[target EXCEPT ![c] = v] : v \in targets}
                    /\ sdk' = [sdk EXCEPT ![c] = "submitted"]
    /\ registry' = [s \in Sessions |-> {w \in registry[s] : Alive(w)}]
    /\ UNCHANGED <<native, component, rank>>

UiStep ==
    /\ \/ \E v \in Views :
             \/ UiMount(v) \/ UiInitialize(v) \/ UiDrop(v) \/ UiFree(v)
             \/ \E b \in BOOLEAN : UiCreateComponent(v, b)
       \/ \E c \in Calls : UiSubmit(c)
    /\ UNCHANGED <<js, jsSession, token, post, callSession, events, inbox, askVars, nmVars>>

\* A tap of the SDK's Apple Pay button: handleTap submits, and there is no
\* promise.
UiTap(c, v) ==
    /\ method[v] = "applepay"
    /\ js[v] = "listening"
    /\ native[v] = "live"
    /\ component[v] = "ready"
    /\ call[c] = "idle"
    /\ call' = [call EXCEPT ![c] = "resolved"]
    /\ target' = [target EXCEPT ![c] = v]
    /\ sdk' = [sdk EXCEPT ![c] = "submitted"]
    /\ UNCHANGED <<native, component, rank, registry>>

UiTaps ==
    /\ \E c \in Calls, v \in Views : UiTap(c, v)
    /\ UNCHANGED <<js, jsSession, token, post, callSession, events, inbox, askVars, nmVars>>
-----------------------------------------------------------------------------
(***************************************************************************)
(* The SDK's callbacks.  It may also give the card up at any point.        *)
(***************************************************************************)
\* The two maps of a view are written here and emptied on the module's queue
\* without a lock: if MapsRace, of two accesses to one map at once a write may
\* be lost and a read may miss.  Routing(v, kind) and MayAsk(v, kind) are the
\* other party about to access that map.
Routing(v, kind) ==
    /\ nm # None
    /\ swept = None
    /\ nm.kind = kind
    /\ Question(nm.req, kind) \in pending[v]

Written(old, new, raced) == {new} \cup (IF MapsRace /\ raced THEN {old} ELSE {})

Ask(r, kind) ==
    LET v == owner'[r]
        asked == [pending EXCEPT ![v] = @ \cup {Question(r, kind)}]
    IN /\ pending' \in Written(pending, asked, Routing(v, kind))
       /\ events' = events \cup {Question(r, kind)}

\* onTokenized of a card: bridgeOnTokenized, or .accepted if the view is no
\* more.  ApplePayView accepts every token itself: the callback it makes of
\* onTokenized is not the one it gives to the SDK.
Asked(v) == Alive(v) /\ method[v] = "card"

SdkTokenized(c, r) ==
    /\ sdk[c] = "submitted"
    /\ pc[r] = "idle"
    /\ Asked(target[c])
    /\ sdk' = [sdk EXCEPT ![c] = "done"]
    /\ pc' = [pc EXCEPT ![r] = "token"]
    /\ owner' = [owner EXCEPT ![r] = target[c]]
    /\ Ask(r, "token")
    /\ UNCHANGED <<result, verdict>>

SdkAccepted(c) ==
    /\ sdk[c] = "submitted"
    /\ ~Asked(target[c])
    /\ sdk' = [sdk EXCEPT ![c] = "unchecked"]
    /\ UNCHANGED <<askVars, events>>

SdkTokenReturn(r) ==
    /\ pc[r] = "tokenAnswered"
    /\ pc' = [pc EXCEPT ![r] = IF token[r] = "accepted" THEN "checked" ELSE "refused"]
    /\ UNCHANGED <<sdk, pending, events, owner, result, verdict>>

\* "guard let self": without the view there is nobody to ask.
BridgedAlways(v) == TRUE    \* mutant
Bridged(v) == Alive(v)

\* handleSubmit: bridgeHandleSubmit, or .failure if the view is no more.
SdkHandleSubmit(r) ==
    /\ pc[r] = "checked"
    /\ UNCHANGED owner
    /\ IF Bridged(owner[r])
         THEN pc' = [pc EXCEPT ![r] = "waiting"] /\ Ask(r, "submit")
         ELSE pc' = [pc EXCEPT ![r] = "viewGone"] /\ UNCHANGED <<pending, events>>
    /\ UNCHANGED <<sdk, result, verdict>>

\* The same after a token that was accepted unasked.
SdkHandleSubmitUnchecked(c, r) ==
    /\ sdk[c] = "unchecked"
    /\ pc[r] = "idle"
    /\ sdk' = [sdk EXCEPT ![c] = "done"]
    /\ owner' = [owner EXCEPT ![r] = target[c]]
    /\ IF Bridged(target[c])
         THEN pc' = [pc EXCEPT ![r] = "waiting"] /\ Ask(r, "submit")
         ELSE pc' = [pc EXCEPT ![r] = "viewGone"] /\ UNCHANGED <<pending, events>>
    /\ UNCHANGED <<result, verdict>>

SdkReturn(r) ==
    /\ pc[r] = "resumed"
    /\ pc' = [pc EXCEPT ![r] = "returned"]
    /\ verdict' = [verdict EXCEPT ![r] = result[r]]
    /\ UNCHANGED <<sdk, pending, events, owner, result>>

SdkStart ==
    /\ \E c \in Calls :
          \/ SdkAccepted(c)
          \/ \E r \in Requests : SdkTokenized(c, r) \/ SdkHandleSubmitUnchecked(c, r)
    /\ UNCHANGED <<jsVars, uiVars, registry, inbox, nmVars>>

SdkResume ==
    /\ \E r \in Requests : SdkTokenReturn(r) \/ SdkHandleSubmit(r) \/ SdkReturn(r)
    /\ UNCHANGED <<jsVars, uiVars, registry, inbox, nmVars>>
-----------------------------------------------------------------------------
(***************************************************************************)
(* The module's queue: handleTokenizedResponse and handleSubmitResponse.   *)
(* A request id is never a key of the registry, so the direct lookup never *)
(* hits: dead references are swept out, and every view left is offered the *)
(* answer.                                                                 *)
(***************************************************************************)
NmSweep(m) ==
    /\ nm = None
    /\ m \in inbox
    /\ inbox' = inbox \ {m}
    /\ nm' = m
    /\ swept' = [s \in Sessions |-> {v \in registry[s] : Alive(v)}]
    /\ UNCHANGED <<registry, pending, pc, result>>

NmStore ==
    /\ swept # None
    /\ registry' = swept
    /\ swept' = None
    /\ UNCHANGED <<inbox, nm, pending, pc, result>>

\* A body that does not decode is a failure, although the POST went through.
DecodesAnything(outcome) == outcome # "failed"  \* mutant
Decodes(outcome) == outcome = "paid"

Verdict(outcome) == IF Decodes(outcome) THEN "Success" ELSE "Failure"

DirectOnly(r) ==    \* mutant: handleSubmitResponse stops after the direct lookup
    IF nm.kind = "submit" THEN {} ELSE Everywhere
Offered(r) == Everywhere

TakenAll(v, entry) == {}    \* mutant: removeAll instead of removeValue
Taken(v, entry) == pending[v] \ {entry}

MayAsk(v, kind) ==
    IF kind = "token"
      THEN \E c \in Calls : sdk[c] = "submitted" /\ target[c] = v /\ Asked(v)
      ELSE \/ \E c \in Calls : sdk[c] = "unchecked" /\ target[c] = v
           \/ \E r \in Requests : pc[r] = "checked" /\ owner[r] = v

Holders(m) ==
    {v \in Offered(m.req) : Alive(v) /\ Question(m.req, m.kind) \in pending[v]}

\* Of the views with the continuation, those in "missed" did not see it, and in
\* those in "kept" the entry is still there afterwards.
Handed(kept, missed) ==
    LET r == nm.req
        takers == Holders(nm) \ missed
    IN /\ pending' = [v \in Views |-> IF v \in Holders(nm) \ kept
                                       THEN Taken(v, Question(r, nm.kind)) ELSE pending[v]]
       /\ IF takers = {}
            THEN UNCHANGED <<pc, result>>
            ELSE IF nm.kind = "token"
              THEN pc' = [pc EXCEPT ![r] = "tokenAnswered"] /\ UNCHANGED result
              ELSE /\ pc' = [pc EXCEPT ![r] = "resumed"]
                   /\ result' = [result EXCEPT ![r] = Verdict(post[r][nm.by])]

NmRoute ==
    /\ nm # None
    /\ swept = None
    /\ nm' = None
    /\ \E kept \in SUBSET {v \in Holders(nm) : MapsRace /\ MayAsk(v, nm.kind)} :
          \E missed \in SUBSET kept : Handed(kept, missed)
    /\ UNCHANGED <<inbox, registry, swept>>

NmStep ==
    /\ (\E m \in inbox : NmSweep(m)) \/ NmStore \/ NmRoute
    /\ UNCHANGED <<jsVars, uiVars, sdk, events, owner, verdict>>
-----------------------------------------------------------------------------
Next ==
    /\ JsSheet \/ JsPay \/ JsHandle \/ UiStep \/ UiTaps \/ SdkStart \/ SdkResume \/ NmStep
    /\ UNCHANGED method

Spec == Init /\ [][Next]_vars

(***************************************************************************)
(* A queue that has something to run runs it.  The user, the network and   *)
(* the SDK owe nothing, neither a call back (SdkStart) nor the return of   *)
(* the creation of a component, for which it may ask its servers.          *)
(***************************************************************************)
NoneCreated == \A v \in Views : component[v] = "creating" => component'[v] = "creating"

Fairness ==
    /\ WF_vars(UiStep /\ NoneCreated /\ UNCHANGED method)
    /\ WF_vars(SdkResume /\ UNCHANGED method)
    /\ WF_vars(NmStep /\ UNCHANGED method)

FairSpec == Spec /\ Fairness
-----------------------------------------------------------------------------
(* Safety *)

\* CardView.tsx looks for the component of an event, not for its view: a
\* payment is POSTed once only because no two forms are ever subscribed.
SinglePost ==
    \A r \in Requests : \A v, w \in Views :
        post[r][v] # "none" /\ post[r][w] # "none" => v = w

\* While a callback is suspended, its answer can find it: the weak reference
\* in the registry is there and alive, though the form may be long gone from
\* the screen and others of its session come and freed.
Reachable ==
    \A r \in Requests :
        pc[r] \in Suspended =>
            /\ Alive(owner[r])
            /\ Question(r, KindOf(r)) \in pending[owner[r]]
            /\ owner[r] \in Everywhere

\* "Registry to route responses back to the right view instance"
\* (ApplePayModule.swift): the view that waits is in it.
RoutesBack == \A r \in Requests : pc[r] \in Suspended => owner[r] \in Everywhere

\* And it does: an answer App has is on its way to the callback that waits
\* for it, or has resumed it.  No sweep and no other view's deinit loses it.
InHand(m) == m \in inbox \/ (nm # None /\ nm = m)

AnswersAreKept ==
    ~MapsRace => \A r \in Requests :
        /\ pc[r] = "token" /\ token[r] # None =>
              \E v \in Views : InHand([req |-> r, kind |-> "token", by |-> v])
        /\ \A v \in Views : post[r][v] \in Outcomes =>
              \/ pc[r] = "waiting" /\ InHand([req |-> r, kind |-> "submit", by |-> v])
              \/ pc[r] \in {"resumed", "returned"} /\ result[r] = Verdict(post[r][v])

\* An answer resumes what waits for it, once, also when a removal was lost and
\* the entry is still there: CheckedContinuation traps when it is resumed
\* twice, and leaks its task when it is dropped.
ResumesWhatItTakes ==
    \A r \in Requests :
        /\ (\E v \in Views, kind \in Kinds : Question(r, kind) \in pending[v] \ pending'[v])
              => pc[r] \in Suspended /\ pc'[r] \notin Suspended
        /\ pc'[r] # pc[r] /\ pc'[r] \in {"tokenAnswered", "resumed"} => pc[r] \in Suspended
        /\ pc[r] = "waiting" /\ pc'[r] # "waiting"
              => \E v \in Views : post[r][v] \in Outcomes

TakenIsResumed == [][ResumesWhatItTakes]_vars

\* A card is POSTed only after App.handleTokenized has accepted it, although
\* the SDK is told ".accepted" unasked when the view is gone, and by an Apple
\* Pay button always.
OnlyCheckedCards ==
    \A r \in Requests : \A v \in Views :
        post[r][v] # "none" /\ method[v] = "card" => token[r] = "accepted"

(***************************************************************************)
(* What the bridge promises the SDK is SubmitRequest's specification.      *)
(***************************************************************************)
StatusOf(r) ==
    CASE pc[r] \in {"waiting", "resumed"} -> "asked"
      [] pc[r] = "returned" -> "done"
      [] OTHER -> "idle"

AnswerTo(r) ==
    IF \E v \in Views : post[r][v] \in Outcomes
      THEN post[r][CHOOSE v \in Views : post[r][v] \in Outcomes]
      ELSE None

Promise == INSTANCE SubmitRequest WITH
    status <- [r \in Requests |-> StatusOf(r)],
    answer <- [r \in Requests |-> AnswerTo(r)]

\* The verdict the SDK gets is the one App's own answer to that request calls
\* for, and there is one of each at most.
KeepsThePromise == Promise!Spec

(***************************************************************************)
(* What JavaScript does to the form is what Sheet allows, and AppFlow is   *)
(* shown to keep to; a form replaced by one of its session stays the form. *)
(***************************************************************************)
ShownForms == {v \in Views : js[v] \in Shown}
ShownSession == IF ShownForms = {} THEN None ELSE jsSession[CHOOSE v \in ShownForms : TRUE]

CallOf(c) == IF call[c] \in {"resolved", "rejected"} THEN "settled" ELSE call[c]

Form == INSTANCE Sheet WITH
    shown <- ShownSession,
    call <- [c \in Calls |-> CallOf(c)]

\* Pay asks for the session of the card form shown, one call at a time.  An
\* Apple Pay button has a Pay of its own, which Sheet does not speak of.
UsesTheSheet == Form!Spec
-----------------------------------------------------------------------------
(* Liveness *)

\* An answer App has, the SDK gets, even if the form it was asked from is
\* long closed.
AnswersReturn ==
    \A r \in Requests :
        (\E v \in Views : post[r][v] \in Outcomes) ~> pc[r] = "returned"

Unanswered(v) ==
    \E r \in Requests :
        /\ owner[r] = v
        /\ \/ pc[r] = "token" /\ token[r] = None
           \/ pc[r] = "waiting" /\ \A w \in Views : post[r][w] \notin Outcomes

\* A form that has left the screen is freed: only a question App has not
\* answered, or a creation the SDK has not returned from, can keep it, and
\* with it the SDK's component, in memory.
NoViewLeak ==
    \A v \in Views :
        native[v] = "dropped"
            ~> native[v] = "freed" \/ Unanswered(v) \/ component[v] = "creating"
=============================================================================
