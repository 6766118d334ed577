-------------------------- MODULE CardBridge_proofs --------------------------
(***************************************************************************)
(* Theorems about CardBridge, for any sets of views, sessions, requests    *)
(* and Pay presses, whether or not the SDK calls on the UI thread and      *)
(* whether or not the unsynchronized maps lose accesses.                   *)
(***************************************************************************)
EXTENDS CardBridge, TLAPS

USE DEF Keys, Outcomes, Responses, Tasks, Active, Shown, Subscribed

LEMMA WrittenType ==
    ASSUME NEW S, NEW old \in S, NEW new \in S, NEW raced \in BOOLEAN,
           NEW f \in Written(old, new, raced)
    PROVE  f \in S
BY DEF Written

LEMMA RegistryRacedBoolean == ASSUME NEW self PROVE RegistryRaced(self) \in BOOLEAN
BY DEF RegistryRaced

LEMMA PendingRacedBoolean ==
    ASSUME NEW self, NEW v PROVE PendingRaced(self, v) \in BOOLEAN
BY DEF PendingRaced

LEMMA RegisterViewType ==
    ASSUME TypeOK, NEW key, NEW v \in Views, NEW self, RegisterView(key, v, self)
    PROVE  registry' \in [Keys -> Views \cup {None}]
BY RegistryRacedBoolean DEF RegisterView, Written, TypeOK

LEMMA UnregisterViewType ==
    ASSUME TypeOK, NEW key, NEW self, UnregisterView(key, self)
    PROVE  registry' \in [Keys -> Views \cup {None}]
BY RegistryRacedBoolean DEF UnregisterView, Written, TypeOK

LEMMA RegisterOwnerType ==
    ASSUME TypeOK, NEW r \in Requests, SdkRegister(r)
    PROVE  registry' \in [Keys -> Views \cup {None}]
<1>1. registry \in [Keys -> Views \cup {None}] /\ owner[r] \in Views \cup {None}
  BY DEF TypeOK
<1>2. registry' = [registry EXCEPT ![r] = owner[r]] \/ registry' = registry
  BY RegistryRacedBoolean DEF SdkRegister, RegisterView, Written
<1> QED BY <1>1, <1>2

LEMMA StoreType ==
    ASSUME TypeOK, NEW r \in Requests, SdkStore(r)
    PROVE  pending' \in [Views -> SUBSET Requests]
<1> DEFINE stored == [pending EXCEPT ![owner[r]] = @ \cup {r}]
<1>1. pending \in [Views -> SUBSET Requests]
  BY DEF TypeOK
<1>2. stored \in [Views -> SUBSET Requests]
  BY <1>1
<1>3. pending' \in Written(pending, stored, PendingRaced(r, owner[r]))
  BY DEF SdkStore
<1> HIDE DEF stored
<1>4. pending' = stored \/ pending' = pending
  BY <1>3 DEF Written
<1> QED BY <1>1, <1>2, <1>4

LEMMA MapsRaceStep == [Next]_vars => UNCHANGED mapsRace
BY DEF Next, vars

LEMMA TypeInit == Init => TypeOK
BY DEF Init, TypeOK

LEMMA TypeJsCommit == TypeOK /\ JsCommit /\ UNCHANGED mapsRace => TypeOK'
<1> SUFFICES ASSUME TypeOK, JsCommit, UNCHANGED mapsRace PROVE TypeOK'
  OBVIOUS
<1> UNCHANGED <<post, call, callSession, uiVars, registry, pending, events, inbox, sdkVars, nm>>
  BY DEF JsCommit, JsOpen, JsClose, JsSwitch
<1>1. ASSUME NEW v \in Views, NEW s \in Sessions, JsOpen(v, s) PROVE TypeOK'
  BY <1>1 DEF JsOpen, TypeOK, uiVars, sdkVars
<1>2. ASSUME NEW v \in Views, JsClose(v) PROVE TypeOK'
  BY <1>2 DEF JsClose, TypeOK, uiVars, sdkVars
<1>3. ASSUME NEW v \in Views, NEW w \in Views, NEW s \in Sessions, JsSwitch(v, w, s)
      PROVE  TypeOK'
  BY <1>3 DEF JsSwitch, TypeOK, uiVars, sdkVars
<1> QED BY <1>1, <1>2, <1>3 DEF JsCommit

LEMMA TypeJsRun == TypeOK /\ JsRun /\ UNCHANGED mapsRace => TypeOK'
<1> SUFFICES ASSUME TypeOK, JsRun, UNCHANGED mapsRace PROVE TypeOK'
  OBVIOUS
<1> UNCHANGED <<uiVars, registry, pending, events, inbox, sdkVars, nm>>
  BY DEF JsRun
<1>1. ASSUME JsRunEffects PROVE TypeOK'
  BY <1>1 DEF JsRunEffects, AfterEffects, TypeOK, uiVars, sdkVars
<1>2. ASSUME NEW c \in Calls, JsSubmit(c) PROVE TypeOK'
  BY <1>2 DEF JsSubmit, TypeOK, uiVars, sdkVars
<1> QED BY <1>1, <1>2 DEF JsRun

LEMMA TypeJsHandle == TypeOK /\ JsHandle /\ UNCHANGED mapsRace => TypeOK'
<1> SUFFICES ASSUME TypeOK, JsHandle, UNCHANGED mapsRace PROVE TypeOK'
  OBVIOUS
<1> UNCHANGED <<js, jsSession, call, callSession, uiVars, registry, pending, sdkVars, nm>>
  BY DEF JsHandle, JsDeliver, JsAnswer
<1>1. ASSUME NEW r \in Requests, JsDeliver(r) PROVE TypeOK'
  BY <1>1 DEF JsDeliver, TypeOK, uiVars, sdkVars
<1>2. ASSUME NEW r \in Requests, NEW v \in Views, NEW outcome \in Outcomes,
             JsAnswer(r, v, outcome)
      PROVE  TypeOK'
  BY <1>2 DEF JsAnswer, TypeOK, uiVars, sdkVars
<1> QED BY <1>1, <1>2 DEF JsHandle

LEMMA InitializeType ==
    ASSUME TypeOK, NEW v \in Views, NEW activity \in BOOLEAN, Initialize(v, activity)
    PROVE  /\ hasInitialized' \in [Views -> BOOLEAN]
           /\ session' \in [Views -> Sessions \cup {None}]
           /\ component' \in [Views -> {"none", "creating", "ready", "failed"}]
           /\ registry' \in [Keys -> Views \cup {None}]
<1>1. CASE hasInitialized[v]
  BY <1>1 DEF Initialize, TypeOK
<1>2. CASE ~hasInitialized[v]
  <2>1. registry' \in [Keys -> Views \cup {None}]
    BY <1>2, RegisterViewType DEF Initialize
  <2>2. hasInitialized' = [hasInitialized EXCEPT ![v] = activity]
    BY <1>2 DEF Initialize
  <2>3. hasInitialized' \in [Views -> BOOLEAN]
    BY <2>2, Zenon DEF TypeOK
  <2>4. /\ session' = [session EXCEPT ![v] = jsSession[v]]
        /\ component' = [component EXCEPT ![v] = "creating"] \/ component' = component
    BY <1>2 DEF Initialize
  <2>5. /\ jsSession \in [Views -> Sessions \cup {None}]
        /\ session \in [Views -> Sessions \cup {None}]
        /\ component \in [Views -> {"none", "creating", "ready", "failed"}]
    BY DEF TypeOK
  <2>6. session' \in [Views -> Sessions \cup {None}]
    BY <2>4, <2>5
  <2>7. component' \in [Views -> {"none", "creating", "ready", "failed"}]
    BY <2>4, <2>5
  <2> QED BY <2>1, <2>3, <2>6, <2>7
<1> QED BY <1>1, <1>2

LEMMA TypeUiStep == TypeOK /\ UiStep /\ UNCHANGED mapsRace => TypeOK'
<1> SUFFICES ASSUME TypeOK, UiStep, UNCHANGED mapsRace PROVE TypeOK'
  OBVIOUS
<1> UNCHANGED <<js, jsSession, post, callSession, pending, events, inbox, sdkVars, nm>>
  BY DEF UiStep
<1>1. ASSUME NEW v \in Views, NEW b \in BOOLEAN, UiMount(v, b) PROVE TypeOK'
  <2>1. Initialize(v, b) /\ UNCHANGED <<callView, sdk, call>>
    BY <1>1 DEF UiMount
  <2>2. native' = [native EXCEPT ![v] = "live"]
    BY <1>1 DEF UiMount
  <2>3. /\ hasInitialized' \in [Views -> BOOLEAN]
        /\ session' \in [Views -> Sessions \cup {None}]
        /\ component' \in [Views -> {"none", "creating", "ready", "failed"}]
        /\ registry' \in [Keys -> Views \cup {None}]
    BY <2>1, InitializeType
  <2> QED BY <2>1, <2>2, <2>3 DEF TypeOK, sdkVars
<1>2. ASSUME NEW v \in Views, NEW b \in BOOLEAN, UiUpdate(v, b) PROVE TypeOK'
  <2>1. Initialize(v, b) /\ UNCHANGED <<native, callView, sdk, call>>
    BY <1>2 DEF UiUpdate
  <2>2. /\ hasInitialized' \in [Views -> BOOLEAN]
        /\ session' \in [Views -> Sessions \cup {None}]
        /\ component' \in [Views -> {"none", "creating", "ready", "failed"}]
        /\ registry' \in [Keys -> Views \cup {None}]
    BY <2>1, InitializeType
  <2> QED BY <2>1, <2>2 DEF TypeOK, sdkVars
<1>3. ASSUME NEW v \in Views, NEW b \in BOOLEAN, UiCreateComponent(v, b) PROVE TypeOK'
  BY <1>3 DEF UiCreateComponent, TypeOK, sdkVars
<1>4. ASSUME NEW v \in Views, UiDrop(v) PROVE TypeOK'
  BY <1>4 DEF UiDrop, RegistryAfterDrop, TypeOK, sdkVars
<1>5. ASSUME NEW c \in Calls, UiSubmitFromJs(c) PROVE TypeOK'
  BY <1>5 DEF UiSubmitFromJs, PromiseAfterSubmit, TypeOK, sdkVars
<1>6. ASSUME NEW c \in Calls, NEW b \in BOOLEAN, UiSdkSubmit(c, b) PROVE TypeOK'
  BY <1>6 DEF UiSdkSubmit, TypeOK, sdkVars
<1> QED BY <1>1, <1>2, <1>3, <1>4, <1>5, <1>6 DEF UiStep

LEMMA TypeSdkStep == TypeOK /\ SdkStep /\ UNCHANGED mapsRace => TypeOK'
<1> SUFFICES ASSUME TypeOK, SdkStep, UNCHANGED mapsRace PROVE TypeOK'
  OBVIOUS
<1> UNCHANGED <<jsVars, native, hasInitialized, session, component, callView, inbox, nm>>
  BY DEF SdkStep
<1> USE DEF jsVars
<1>1. ASSUME NEW r \in Requests, NEW c \in Calls, SdkCallback(r, c) PROVE TypeOK'
  BY <1>1 DEF SdkCallback, TypeOK
<1>2. ASSUME NEW r \in Requests, SdkStore(r) PROVE TypeOK'
  <2>1. pending' \in [Views -> SUBSET Requests]
    BY <1>2, StoreType
  <2> QED BY <1>2, <2>1 DEF SdkStore, TypeOK
<1>3. ASSUME NEW r \in Requests, SdkRegister(r) PROVE TypeOK'
  <2>1. registry' \in [Keys -> Views \cup {None}]
    BY <1>3, RegisterOwnerType
  <2> QED BY <1>3, <2>1 DEF SdkRegister, TypeOK
<1>4. ASSUME NEW r \in Requests, SdkEmit(r) PROVE TypeOK'
  BY <1>4 DEF SdkEmit, TypeOK
<1>5. ASSUME NEW r \in Requests, SdkReturn(r) PROVE TypeOK'
  BY <1>5 DEF SdkReturn, ApiCallResult, TypeOK
<1> QED BY <1>1, <1>2, <1>3, <1>4, <1>5 DEF SdkStep

LEMMA TypeNmStep == TypeOK /\ KnownSessions /\ Posted /\ NmStep /\ UNCHANGED mapsRace => TypeOK'
<1> SUFFICES ASSUME TypeOK, KnownSessions, Posted, NmStep, UNCHANGED mapsRace PROVE TypeOK'
  OBVIOUS
<1> UNCHANGED <<js, jsSession, post, callSession, native, hasInitialized, session,
                component, sdk, events, owner, cause, verdict>>
  BY DEF NmStep
<1>1. ASSUME NEW key \in Keys PROVE GetView(key) \subseteq Views \cup {None}
  BY <1>1, RegistryRacedBoolean DEF GetView, TypeOK
<1>2. ASSUME NEW c \in Calls, NmSubmit(c) PROVE TypeOK'
  <2>1. call[c] = "sent" /\ callSession[c] \in Keys
    BY <1>2 DEF NmSubmit, KnownSessions
  <2>2. PICK v \in GetView(callSession[c]) :
          /\ call' = [call EXCEPT ![c] = IF v = None THEN "rejected" ELSE "queued"]
          /\ callView' = [callView EXCEPT ![c] = v]
    BY <1>2 DEF NmSubmit
  <2>3. v \in Views \cup {None}
    BY <1>1, <2>1, <2>2
  <2> QED BY <1>2, <2>2, <2>3 DEF NmSubmit, TypeOK
<1>3. ASSUME NEW m \in inbox, NmGetView(m) PROVE TypeOK'
  <2>1. m \in Responses /\ m.req \in Keys
    BY DEF TypeOK
  <2>2. nm' \in Tasks \cup {None}
    BY <1>1, <1>3, <2>1 DEF NmGetView
  <2> QED BY <1>3, <2>2 DEF NmGetView, TypeOK
<1>4. ASSUME NmHandleResponse PROVE TypeOK'
  <2>1. nm.req \in Requests /\ nm.by \in Views /\ nm.view \in Views
    BY <1>4 DEF NmHandleResponse, TypeOK
  <2>2. registry' \in [Keys -> Views \cup {None}]
    BY <1>4, UnregisterViewType DEF NmHandleResponse
  <2>3. pending' = pending \/ pending' = WithoutPending(nm.view, nm.req)
    BY <1>4 DEF NmHandleResponse, Written
  <2>4. pending' \in [Views -> SUBSET Requests]
    <3>1. pending \in [Views -> SUBSET Requests]
      BY DEF TypeOK
    <3> QED BY <2>1, <2>3, <3>1 DEF WithoutPending
  <2>5. \/ UNCHANGED <<pc, result>>
        \/ /\ pc' = [pc EXCEPT ![nm.req] = "resumed"]
           /\ result' = [result EXCEPT ![nm.req] = post[nm.req][nm.by]]
    BY <1>4 DEF NmHandleResponse
  <2>6. post[nm.req][nm.by] \in Outcomes
    BY <1>4 DEF NmHandleResponse, Posted
  <2>7. /\ pc' \in [Requests -> {"idle", "returned"} \cup Active]
        /\ result' \in [Requests -> Outcomes \cup {None}]
    <3>1. /\ pc \in [Requests -> {"idle", "returned"} \cup Active]
          /\ result \in [Requests -> Outcomes \cup {None}]
      BY DEF TypeOK
    <3> QED BY <2>1, <2>5, <2>6, <3>1
  <2> QED BY <1>4, <2>2, <2>4, <2>7 DEF NmHandleResponse, TypeOK
<1> QED BY <1>2, <1>3, <1>4 DEF NmStep

-----------------------------------------------------------------------------
(* One form, one listener *)

LEMMA OneFormStep == TypeOK /\ OneForm /\ [Next]_vars => OneForm'
<1> SUFFICES ASSUME TypeOK, OneForm, [Next]_vars PROVE OneForm'
  OBVIOUS
<1>1. CASE UNCHANGED js
  BY <1>1 DEF OneForm
<1>2. ASSUME NEW v \in Views, NEW s \in Sessions, JsOpen(v, s) PROVE OneForm'
  BY <1>2 DEF JsOpen, EffectsRun, OneForm, TypeOK
<1>3. ASSUME NEW v \in Views, JsClose(v) PROVE OneForm'
  BY <1>3 DEF JsClose, EffectsRun, OneForm, TypeOK
<1>4. ASSUME NEW v \in Views, NEW w \in Views, NEW s \in Sessions, JsSwitch(v, w, s)
      PROVE  OneForm'
  <2>1. \A u \in Views : u # v /\ u # w => js[u] \notin Shown \cup Subscribed
    BY <1>4 DEF JsSwitch, EffectsRun, OneForm
  <2>2. js' = [js EXCEPT ![v] = "leaving", ![w] = "rendered"] /\ v # w
    BY <1>4 DEF JsSwitch
  <2>3. js'[v] = "leaving" /\ js'[w] = "rendered" /\ \A u \in Views \ {v, w} : js'[u] = js[u]
    BY <2>2 DEF TypeOK
  <2> QED BY <2>1, <2>3 DEF OneForm
<1>5. CASE JsRunEffects
  <2>1. \A v \in Views : /\ js'[v] \in Shown => js[v] \in Shown
                         /\ js'[v] \in Subscribed => js[v] \in Shown
    BY <1>5 DEF JsRunEffects, AfterEffects, TypeOK
  <2> QED BY <2>1 DEF OneForm
<1>6. CASE JsCommit
  BY <1>2, <1>3, <1>4, <1>6 DEF JsCommit
<1>7. CASE JsRun
  BY <1>1, <1>5, <1>7 DEF JsRun, JsSubmit
<1>8. CASE JsHandle \/ UiStep \/ SdkStep \/ NmStep \/ UNCHANGED vars
  BY <1>1, <1>8 DEF JsHandle, JsDeliver, JsAnswer, UiStep, SdkStep, NmStep, vars, jsVars
<1> QED BY <1>6, <1>7, <1>8 DEF Next
-----------------------------------------------------------------------------
(* The session that is paid *)

\* What the steps that leave the sessions and the views alone need.
LEMMA KnownSessionsFrame ==
    ASSUME KnownSessions,
           UNCHANGED <<js, jsSession, call, callSession, native, session, callView, sdk,
                       owner, cause>>,
           \A r \in Requests : pc'[r] = "idle" <=> pc[r] = "idle",
           \A s \in Sessions : registry'[s] = registry[s]
    PROVE  KnownSessions'
BY DEF KnownSessions

LEMMA KnownSessionsJs ==
    ASSUME TypeOK, KnownSessions, JsCommit \/ JsRun \/ JsHandle
    PROVE  KnownSessions'
<1>1. UNCHANGED <<native, session, callView, sdk, registry, pc, owner, cause>>
  BY DEF JsCommit, JsRun, JsHandle, uiVars, sdkVars
<1>2. CASE JsCommit
  <2>1. UNCHANGED <<call, callSession>>
    BY <1>2 DEF JsCommit, JsOpen, JsClose, JsSwitch
  <2> DEFINE Kept == \A u \in Views :
                       \/ js[u] = "absent" /\ (js'[u] # "absent" => jsSession'[u] \in Sessions)
                       \/ js[u] # "absent" /\ js'[u] # "absent" /\ jsSession'[u] = jsSession[u]
  <2>2. Kept
    <3>1. ASSUME NEW v \in Views, NEW s \in Sessions, JsOpen(v, s) PROVE Kept
      BY <3>1 DEF JsOpen, TypeOK
    <3>2. ASSUME NEW v \in Views, JsClose(v) PROVE Kept
      BY <3>2 DEF JsClose, TypeOK
    <3>3. ASSUME NEW v \in Views, NEW w \in Views, NEW s \in Sessions, JsSwitch(v, w, s)
          PROVE  Kept
      <4>1. /\ js[v] = "listening" /\ js[w] = "absent" /\ v # w
            /\ js' = [js EXCEPT ![v] = "leaving", ![w] = "rendered"]
            /\ jsSession' = [jsSession EXCEPT ![w] = s]
        BY <3>3 DEF JsSwitch
      <4>2. /\ js'[v] = "leaving" /\ jsSession'[v] = jsSession[v] /\ jsSession'[w] = s
            /\ \A u \in Views \ {v, w} : js'[u] = js[u] /\ jsSession'[u] = jsSession[u]
        BY <4>1 DEF TypeOK
      <4> QED BY <4>1, <4>2
    <3> QED BY <1>2, <3>1, <3>2, <3>3 DEF JsCommit
  <2> QED BY <1>1, <2>1, <2>2 DEF KnownSessions
<1>3. CASE JsRunEffects
  <2>1. \A v \in Views : js'[v] = "absent" <=> js[v] = "absent"
    BY <1>3 DEF JsRunEffects, AfterEffects
  <2> QED BY <1>1, <1>3, <2>1 DEF JsRunEffects, KnownSessions
<1>4. ASSUME NEW c \in Calls, JsSubmit(c) PROVE KnownSessions'
  <2>1. PICK v \in Views : js[v] = "listening" /\ callSession' = [callSession EXCEPT ![c] = jsSession[v]]
    BY <1>4 DEF JsSubmit
  <2>2. jsSession[v] \in Sessions
    BY <2>1 DEF KnownSessions
  <2>3. call[c] = "idle" /\ call' = [call EXCEPT ![c] = "sent"] /\ UNCHANGED <<js, jsSession>>
    BY <1>4 DEF JsSubmit
  <2>4. \A d \in Calls : \/ d = c /\ call'[d] = "sent" /\ callSession'[d] \in Sessions
                         \/ d # c /\ call'[d] = call[d] /\ callSession'[d] = callSession[d]
    BY <2>1, <2>2, <2>3 DEF TypeOK
  <2> QED BY <1>1, <2>3, <2>4 DEF KnownSessions
<1>5. CASE JsHandle
  BY <1>1, <1>5 DEF JsHandle, JsDeliver, JsAnswer, KnownSessions
<1> QED BY <1>2, <1>3, <1>4, <1>5 DEF JsRun

LEMMA KnownSessionsUi ==
    ASSUME TypeOK, KnownSessions, UiStep
    PROVE  KnownSessions'
<1>0. UNCHANGED <<js, jsSession, callSession, pc, owner, cause>>
  BY DEF UiStep, sdkVars
<1>1. ASSUME NEW v \in Views, NEW b \in BOOLEAN, js[v] \in Shown, Initialize(v, b),
             \A w \in Views : native'[w] = native[w] \/ w = v,
             UNCHANGED <<callView, sdk, call>>
      PROVE  KnownSessions'
  <2>1. /\ \A w \in Views : \/ session'[w] = session[w]
                            \/ w = v /\ session[w] \in {None, session'[w]}
                                    /\ session'[w] = jsSession[w]
        /\ \A s \in Sessions : \/ registry'[s] = registry[s]
                               \/ registry'[s] = v /\ s = session'[v]
    <3>1. jsSession[v] \in Sessions
      BY <1>1 DEF KnownSessions
    <3>2. \/ UNCHANGED <<session, registry>>
          \/ /\ session' = [session EXCEPT ![v] = jsSession[v]]
             /\ registry' = registry \/ registry' = [registry EXCEPT ![jsSession[v]] = v]
      BY <1>1 DEF Initialize, RegisterView, Written
    <3>3. session[v] \in {None, jsSession[v]}
      BY DEF KnownSessions
    <3>4. CASE session' = [session EXCEPT ![v] = jsSession[v]]
      <4>1. session'[v] = jsSession[v] /\ \A w \in Views \ {v} : session'[w] = session[w]
        BY <3>4 DEF TypeOK
      <4>2. \A s \in Sessions : \/ registry'[s] = registry[s]
                                \/ registry'[s] = v /\ s = jsSession[v]
        BY <3>1, <3>2 DEF TypeOK
      <4> QED BY <3>3, <4>1, <4>2
    <3> QED BY <3>2, <3>4
  <2>2. \A w \in Views : session[w] # None => session'[w] = session[w]
    BY <2>1
  <2>3. \A s \in Sessions : registry'[s] # None => session'[registry'[s]] = s
    BY <2>1, <2>2, NoneAssumption DEF KnownSessions, TypeOK
  <2>4. \A w \in Views :
           /\ js'[w] # "absent" => jsSession'[w] \in Sessions
           /\ native'[w] # "none" => js'[w] # "absent"
           /\ session'[w] # None => js'[w] # "absent" /\ session'[w] = jsSession'[w]
    BY <1>0, <1>1, <2>1 DEF KnownSessions
  <2>5. \A c \in Calls : call'[c] = "queued" \/ sdk'[c] # "none" =>
           /\ call'[c] \in {"queued", "resolved"}
           /\ callView'[c] \in Views
           /\ session'[callView'[c]] = callSession'[c]
    BY <1>0, <1>1, <2>2, NoneAssumption DEF KnownSessions
  <2>6. \A r \in Requests : pc'[r] # "idle" =>
           /\ owner'[r] \in Views
           /\ cause'[r] \in Calls
           /\ call'[cause'[r]] # "idle"
           /\ session'[owner'[r]] = callSession'[cause'[r]]
    BY <1>0, <1>1, <2>2, NoneAssumption DEF KnownSessions
  <2> QED BY <1>0, <1>1, <2>3, <2>4, <2>5, <2>6 DEF KnownSessions
<1>2. ASSUME NEW v \in Views, NEW b \in BOOLEAN, UiMount(v, b) \/ UiUpdate(v, b)
      PROVE  KnownSessions'
  BY <1>1, <1>2 DEF UiMount, UiUpdate, TypeOK
<1>3. ASSUME NEW v \in Views, NEW b \in BOOLEAN, UiCreateComponent(v, b)
      PROVE  KnownSessions'
  BY <1>0, <1>3, KnownSessionsFrame DEF UiCreateComponent
<1>4. ASSUME NEW v \in Views, UiDrop(v) PROVE KnownSessions'
  <2>1. \A w \in Views : native'[w] # "none" => native[w] # "none"
    BY <1>4 DEF UiDrop, TypeOK
  <2> QED BY <1>0, <1>4, <2>1 DEF UiDrop, RegistryAfterDrop, KnownSessions
<1>5. ASSUME NEW c \in Calls, UiSubmitFromJs(c) PROVE KnownSessions'
  <2>1. \A d \in Calls :
           \/ d = c /\ call[d] = "queued" /\ call'[d] = "resolved"
           \/ d # c /\ call'[d] = call[d] /\ sdk'[d] = sdk[d]
    <3>1. /\ call[c] = "queued"
          /\ call' = [call EXCEPT ![c] = "resolved"]
          /\ sdk' = [sdk EXCEPT ![c] = "launched"] \/ sdk' = sdk
      BY <1>5 DEF UiSubmitFromJs, PromiseAfterSubmit
    <3> QED BY <3>1 DEF TypeOK
  <2>2. UNCHANGED <<native, session, registry, callView>>
    BY <1>5 DEF UiSubmitFromJs
  <2> QED BY <1>0, <2>1, <2>2 DEF KnownSessions
<1>6. ASSUME NEW c \in Calls, NEW b \in BOOLEAN, UiSdkSubmit(c, b) PROVE KnownSessions'
  <2>1. \A d \in Calls : sdk'[d] # "none" => sdk[d] # "none"
    BY <1>6 DEF UiSdkSubmit, TypeOK
  <2> QED BY <1>0, <1>6, <2>1 DEF UiSdkSubmit, KnownSessions
<1> QED BY <1>2, <1>3, <1>4, <1>5, <1>6 DEF UiStep

\* A request id is not a session id.
LEMMA RegisterRequestKeepsSessions ==
    ASSUME TypeOK, NEW r \in Requests, NEW v, NEW self,
           RegisterView(r, v, self) \/ UnregisterView(r, self)
    PROVE  \A s \in Sessions : registry'[s] = registry[s]
BY KeysAssumption DEF RegisterView, UnregisterView, Written, TypeOK

LEMMA KnownSessionsSdk ==
    ASSUME TypeOK, KnownSessions, SdkStep
    PROVE  KnownSessions'
<1>0. UNCHANGED <<js, jsSession, call, callSession, native, session, callView>>
  BY DEF SdkStep, jsVars
<1>1. ASSUME NEW r \in Requests, NEW c \in Calls, SdkCallback(r, c) PROVE KnownSessions'
  <2>1. callView[c] \in Views /\ call[c] # "idle"
        /\ session[callView[c]] = callSession[c]
    BY <1>1 DEF SdkCallback, KnownSessions
  <2>2. \A d \in Calls : sdk'[d] # "none" => sdk[d] # "none"
    BY <1>1 DEF SdkCallback, TypeOK
  <2>3. \A q \in Requests :
           \/ q = r /\ owner'[q] = callView[c] /\ cause'[q] = c
           \/ q # r /\ pc'[q] = pc[q] /\ owner'[q] = owner[q] /\ cause'[q] = cause[q]
    BY <1>1 DEF SdkCallback, TypeOK
  <2>4. registry' = registry
    BY <1>1 DEF SdkCallback
  <2> QED BY <1>0, <2>1, <2>2, <2>3, <2>4 DEF KnownSessions
<1>2. ASSUME NEW r \in Requests, SdkStore(r) \/ SdkRegister(r) \/ SdkEmit(r) \/ SdkReturn(r)
      PROVE  KnownSessions'
  <2>1. UNCHANGED <<sdk, owner, cause>>
    BY <1>2 DEF SdkStore, SdkRegister, SdkEmit, SdkReturn
  <2>2. \A q \in Requests : pc'[q] = "idle" <=> pc[q] = "idle"
    BY <1>2 DEF SdkStore, SdkRegister, SdkEmit, SdkReturn, TypeOK
  <2>3. \A s \in Sessions : registry'[s] = registry[s]
    BY <1>2, RegisterRequestKeepsSessions DEF SdkStore, SdkRegister, SdkEmit, SdkReturn
  <2> QED BY <1>0, <2>1, <2>2, <2>3, KnownSessionsFrame
<1> QED BY <1>1, <1>2 DEF SdkStep

LEMMA KnownSessionsNm ==
    ASSUME TypeOK, KnownSessions, Posted, NmStep
    PROVE  KnownSessions'
<1>0. UNCHANGED <<js, jsSession, callSession, native, session, sdk, owner, cause>>
  BY DEF NmStep
<1>1. ASSUME NEW c \in Calls, NmSubmit(c) PROVE KnownSessions'
  <2>1. PICK v \in GetView(callSession[c]) :
          /\ call' = [call EXCEPT ![c] = IF v = None THEN "rejected" ELSE "queued"]
          /\ callView' = [callView EXCEPT ![c] = v]
    BY <1>1 DEF NmSubmit
  <2>2. call[c] = "sent" /\ sdk[c] = "none" /\ callSession[c] \in Sessions
    BY <1>1 DEF NmSubmit, KnownSessions
  <2>3. v # None => v \in Views /\ session[v] = callSession[c]
    BY <2>1, <2>2 DEF GetView, KnownSessions, TypeOK
  <2>4. \A d \in Calls :
           \/ d = c /\ call'[d] # "idle" /\ callView'[d] = v /\ (v = None => call'[d] = "rejected")
                    /\ (v # None => call'[d] = "queued")
           \/ d # c /\ call'[d] = call[d] /\ callView'[d] = callView[d]
    BY <2>1 DEF TypeOK
  <2>5. UNCHANGED <<registry, pc>>
    BY <1>1 DEF NmSubmit
  <2> QED BY <1>0, <2>2, <2>3, <2>4, <2>5 DEF KnownSessions
<1>2. ASSUME NEW m \in inbox, NmGetView(m) PROVE KnownSessions'
  BY <1>0, <1>2, KnownSessionsFrame DEF NmGetView
<1>3. CASE NmHandleResponse
  <2>1. nm.req \in Requests /\ pc[nm.req] = "waiting"
    BY <1>3 DEF NmHandleResponse, Posted, TypeOK
  <2>2. \A q \in Requests : pc'[q] = "idle" <=> pc[q] = "idle"
    BY <1>3, <2>1 DEF NmHandleResponse, TypeOK
  <2>3. \A s \in Sessions : registry'[s] = registry[s]
    BY <1>3, <2>1, RegisterRequestKeepsSessions DEF NmHandleResponse
  <2>4. UNCHANGED <<call, callView>>
    BY <1>3 DEF NmHandleResponse
  <2> QED BY <1>0, <2>2, <2>3, <2>4, KnownSessionsFrame
<1> QED BY <1>1, <1>2, <1>3 DEF NmStep
-----------------------------------------------------------------------------
(* One POST, one answer, one verdict *)

LEMMA ResponseFields ==
    ASSUME TypeOK
    PROVE  /\ \A m \in inbox : m.req \in Requests /\ m.by \in Views
           /\ \A m, n \in inbox : m.req = n.req /\ m.by = n.by => m = n
           /\ nm # None => nm.req \in Requests /\ nm.by \in Views /\ nm.view \in Views
<1>1. inbox \subseteq Responses /\ nm \in Tasks \cup {None}
  BY DEF TypeOK
<1>2. \A m \in Responses : m = [req |-> m.req, by |-> m.by]
  OBVIOUS
<1> QED BY <1>1, <1>2

LEMMA PostedFrame ==
    ASSUME Posted, Answered, UNCHANGED <<post, events, inbox, nm, pc, result, verdict>>
    PROVE  Posted' /\ Answered'
BY DEF Posted, Answered, SinglePost, ApiCallResult, Succeeded, Parses

LEMMA PostedDeliver ==
    ASSUME TypeOK, OneForm, Posted, Answered, NEW r \in Requests, JsDeliver(r),
           UNCHANGED <<nm, sdkVars>>
    PROVE  Posted' /\ Answered'
<1>1. r \in events /\ events' = events \ {r} /\ inbox' = inbox
  BY DEF JsDeliver
<1>2. \A v \in Views : post[r][v] = "none"
  BY <1>1 DEF Posted
<1>3. pc[r] = "waiting"
  <2>1. pc[r] \in {"waiting", "resumed", "returned"}
    BY <1>1 DEF Posted, TypeOK
  <2> QED BY <1>2, <2>1 DEF Answered
<1>4. /\ \A v \in Views : post'[r][v] = IF js[v] \in Subscribed THEN "posting" ELSE "none"
      /\ \A q \in Requests \ {r} : post'[q] = post[q]
  BY <1>2 DEF JsDeliver, TypeOK
<1>5. \A m \in inbox : m.req # r /\ m.req \in Requests
  BY <1>2, ResponseFields DEF Posted
<1>6. nm # None => nm.req # r /\ nm.req \in Requests
  BY <1>2 DEF Posted, TypeOK
<1>7. UNCHANGED <<nm, pc, result, verdict>>
  BY DEF sdkVars
<1>8. SinglePost'
  BY <1>4 DEF OneForm, Posted, SinglePost
<1>9. Posted'
  BY <1>1, <1>3, <1>4, <1>5, <1>6, <1>7, <1>8 DEF Posted
<1>10. Answered'
  BY <1>3, <1>4, <1>7 DEF Answered, ApiCallResult, Succeeded, Parses
<1> QED BY <1>9, <1>10

LEMMA PostedAnswer ==
    ASSUME TypeOK, Posted, Answered, NEW r \in Requests, NEW v \in Views,
           NEW outcome \in Outcomes, JsAnswer(r, v, outcome), UNCHANGED <<nm, sdkVars>>
    PROVE  Posted' /\ Answered'
<1>1. /\ post[r][v] = "posting"
      /\ inbox' = inbox \cup {[req |-> r, by |-> v]}
      /\ UNCHANGED <<events, nm, pc, result, verdict>>
  BY DEF JsAnswer, sdkVars
<1>2. pc[r] = "waiting" /\ \A w \in Views \ {v} : post[r][w] = "none"
  BY <1>1 DEF Posted, SinglePost
<1>3. /\ post'[r][v] = outcome
      /\ \A w \in Views \ {v} : post'[r][w] = post[r][w]
      /\ \A q \in Requests \ {r} : post'[q] = post[q]
  BY DEF JsAnswer, TypeOK
<1>4. \A m \in inbox : m.req # r /\ m.req \in Requests /\ m.by \in Views
  BY <1>1, <1>2, ResponseFields DEF Posted, SinglePost
<1>5. nm # None => nm.req # r /\ nm.req \in Requests /\ nm.by \in Views
  BY <1>1, <1>2 DEF Posted, TypeOK
<1>6. SinglePost'
  BY <1>2, <1>3 DEF Posted, SinglePost
<1>7. r \notin events
  BY <1>1 DEF Posted
<1>8. \A m \in inbox' : /\ post'[m.req][m.by] \in Outcomes
                        /\ pc'[m.req] = "waiting"
                        /\ nm' # None => nm'.req # m.req
  <2>1. ASSUME NEW m \in inbox PROVE /\ post'[m.req][m.by] \in Outcomes
                                     /\ pc'[m.req] = "waiting"
                                     /\ nm' # None => nm'.req # m.req
    BY <1>1, <1>3, <1>4 DEF Posted
  <2> QED BY <1>1, <1>2, <1>3, <1>5, <2>1
<1>9. Posted'
  BY <1>1, <1>2, <1>3, <1>5, <1>6, <1>7, <1>8 DEF Posted
<1>10. Answered'
  BY <1>1, <1>2, <1>3 DEF Answered, ApiCallResult, Succeeded, Parses
<1> QED BY <1>9, <1>10

LEMMA PostedSdk ==
    ASSUME TypeOK, Posted, Answered, SdkStep
    PROVE  Posted' /\ Answered'
<1>0. UNCHANGED <<post, inbox, nm>>
  BY DEF SdkStep, jsVars
<1>1. \A m \in inbox : m.req \in Requests
  BY DEF TypeOK
<1>2. nm # None => nm.req \in Requests
  BY DEF TypeOK
<1>3. ASSUME NEW r \in Requests,
             \/ \E c \in Calls : SdkCallback(r, c)
             \/ SdkStore(r) \/ SdkRegister(r)
      PROVE  Posted' /\ Answered'
  <2>1. /\ pc[r] \in {"idle", "called", "stored"}
        /\ pc'[r] \in {"called", "stored", "registered"}
        /\ \A q \in Requests \ {r} : pc'[q] = pc[q]
        /\ UNCHANGED <<events, result, verdict>>
    BY <1>3 DEF SdkCallback, SdkStore, SdkRegister, TypeOK
  <2>2. Posted'
    BY <1>0, <1>1, <1>2, <2>1 DEF Posted, SinglePost
  <2>3. Answered'
    BY <1>0, <2>1 DEF Answered, ApiCallResult, Succeeded, Parses
  <2> QED BY <2>2, <2>3
<1>4. ASSUME NEW r \in Requests, SdkEmit(r) PROVE Posted' /\ Answered'
  <2>1. /\ pc[r] = "registered" /\ pc'[r] = "waiting"
        /\ \A q \in Requests \ {r} : pc'[q] = pc[q]
        /\ events' = events \cup {r}
        /\ UNCHANGED <<result, verdict>>
    BY <1>4 DEF SdkEmit, TypeOK
  <2>2. Posted'
    BY <1>0, <1>1, <1>2, <2>1 DEF Posted, SinglePost
  <2>3. Answered'
    BY <1>0, <2>1 DEF Answered, ApiCallResult, Succeeded, Parses
  <2> QED BY <2>2, <2>3
<1>5. ASSUME NEW r \in Requests, SdkReturn(r) PROVE Posted' /\ Answered'
  <2>1. /\ pc[r] = "resumed" /\ pc'[r] = "returned"
        /\ \A q \in Requests \ {r} : pc'[q] = pc[q] /\ verdict'[q] = verdict[q]
        /\ verdict'[r] = ApiCallResult(result[r])
        /\ UNCHANGED <<events, result>>
    BY <1>5 DEF SdkReturn, TypeOK
  <2>2. Posted'
    BY <1>0, <1>1, <1>2, <2>1 DEF Posted, SinglePost
  <2>3. Answered'
    BY <1>0, <2>1 DEF Answered, ApiCallResult, Succeeded, Parses
  <2> QED BY <2>2, <2>3
<1> QED BY <1>3, <1>4, <1>5 DEF SdkStep

LEMMA PostedNm ==
    ASSUME TypeOK, Posted, Answered, NmStep
    PROVE  Posted' /\ Answered'
<1>0. UNCHANGED <<post, events, verdict>>
  BY DEF NmStep
<1>1. ASSUME NEW c \in Calls, NmSubmit(c) PROVE Posted' /\ Answered'
  BY <1>0, <1>1, PostedFrame DEF NmSubmit
<1>2. ASSUME NEW m \in inbox, NmGetView(m) PROVE Posted' /\ Answered'
  <2>1. /\ inbox' = inbox \ {m}
        /\ nm' = None \/ (nm'.req = m.req /\ nm'.by = m.by)
        /\ UNCHANGED <<pc, result>>
    <3>1. PICK v \in GetView(m.req) :
            nm' = IF v = None THEN None ELSE [req |-> m.req, by |-> m.by, view |-> v]
      BY <1>2 DEF NmGetView
    <3>2. nm' = None \/ (nm'.req = m.req /\ nm'.by = m.by)
      <4>1. CASE v = None
        BY <3>1, <4>1
      <4>2. CASE v # None
        <5>1. nm' = [req |-> m.req, by |-> m.by, view |-> v]
          BY <3>1, <4>2
        <5> QED BY <5>1
      <4> QED BY <4>1, <4>2
    <3> QED BY <1>2, <3>2 DEF NmGetView
  <2>2. \A n \in inbox \ {m} : n.req # m.req
    BY ResponseFields DEF Posted, SinglePost
  <2>3. Posted'
    BY <1>0, <2>1, <2>2 DEF Posted, SinglePost
  <2>4. Answered'
    BY <1>0, <2>1 DEF Answered, ApiCallResult, Succeeded, Parses
  <2> QED BY <2>3, <2>4
<1>3. CASE NmHandleResponse
  <2>1. nm.req \in Requests /\ nm.by \in Views /\ nm.view \in Views /\ nm # None
    BY <1>3 DEF NmHandleResponse, TypeOK
  <2>2. pc[nm.req] = "waiting" /\ post[nm.req][nm.by] \in Outcomes
    BY <2>1 DEF Posted
  <2>3. nm' = None /\ inbox' = inbox
    BY <1>3 DEF NmHandleResponse
  <2>4. CASE UNCHANGED <<pc, result>>
    <3>1. Posted'
      BY <1>0, <2>3, <2>4 DEF Posted, SinglePost
    <3>2. Answered'
      BY <1>0, <2>4 DEF Answered, ApiCallResult, Succeeded, Parses
    <3> QED BY <3>1, <3>2
  <2>5. CASE /\ pc' = [pc EXCEPT ![nm.req] = "resumed"]
             /\ result' = [result EXCEPT ![nm.req] = post[nm.req][nm.by]]
    <3>1. /\ pc'[nm.req] = "resumed" /\ result'[nm.req] = post[nm.req][nm.by]
          /\ \A q \in Requests \ {nm.req} : pc'[q] = pc[q] /\ result'[q] = result[q]
      BY <2>1, <2>5 DEF TypeOK
    <3>2. \A v \in Views : post[nm.req][v] # "posting"
      BY <2>1, <2>2 DEF Posted, SinglePost
    <3>3. \A m \in inbox : m.req # nm.req /\ m.req \in Requests
      BY <2>1 DEF Posted, TypeOK
    <3>4. Posted'
      BY <1>0, <2>2, <2>3, <3>1, <3>2, <3>3 DEF Posted, SinglePost
    <3>5. Answered'
      BY <1>0, <2>1, <2>2, <3>1 DEF Answered, ApiCallResult, Succeeded, Parses
    <3> QED BY <3>4, <3>5
  <2> QED BY <1>3, <2>2, <2>4, <2>5 DEF NmHandleResponse
<1> QED BY <1>1, <1>2, <1>3 DEF NmStep

LEMMA PostedStep ==
    TypeOK /\ OneForm /\ Posted /\ Answered /\ [Next]_vars => Posted' /\ Answered'
<1> SUFFICES ASSUME TypeOK, OneForm, Posted, Answered, [Next]_vars PROVE Posted' /\ Answered'
  OBVIOUS
<1>1. CASE JsCommit \/ JsRun \/ UiStep \/ UNCHANGED vars
  <2>1. UNCHANGED <<post, events, inbox, nm, pc, result, verdict>>
    BY <1>1 DEF JsCommit, JsOpen, JsClose, JsSwitch, JsRun, JsRunEffects, JsSubmit, UiStep,
                vars, jsVars, sdkVars
  <2> QED BY <2>1, PostedFrame
<1>2. CASE JsHandle
  BY <1>2, PostedDeliver, PostedAnswer DEF JsHandle
<1> QED BY <1>1, <1>2, PostedSdk, PostedNm DEF Next
-----------------------------------------------------------------------------
(* The way back to the waiting view, when the maps do not race *)

LEMMA NoRace ==
    ASSUME ~mapsRace
    PROVE  /\ \A self : ~RegistryRaced(self)
           /\ \A self, v : ~PendingRaced(self, v)
BY DEF RegistryRaced, PendingRaced

LEMMA RoutesFrame ==
    ASSUME Routes, UNCHANGED <<pending, pc, owner, nm, mapsRace>>,
           \A r \in Requests : registry'[r] = registry[r]
    PROVE  Routes'
BY DEF Routes

LEMMA RoutesUi ==
    ASSUME TypeOK, Routes, UiStep, UNCHANGED mapsRace
    PROVE  Routes'
<1>1. UNCHANGED <<pending, pc, owner, nm>>
  BY DEF UiStep, sdkVars
<1>2. ASSUME NEW v \in Views, NEW b \in BOOLEAN, Initialize(v, b)
      PROVE  \A r \in Requests : registry'[r] = registry[r]
  <2>1. registry' = registry \/ registry' = [registry EXCEPT ![jsSession[v]] = v]
    BY <1>2 DEF Initialize, RegisterView, Written
  <2>2. jsSession[v] \notin Requests
    BY KeysAssumption, NoneAssumption DEF TypeOK
  <2> QED BY <2>1, <2>2 DEF TypeOK
<1>3. \A r \in Requests : registry'[r] = registry[r]
  BY <1>2 DEF UiStep, UiMount, UiUpdate, UiDrop, RegistryAfterDrop, UiCreateComponent,
              UiSubmitFromJs, UiSdkSubmit
<1> QED BY <1>1, <1>3, RoutesFrame

LEMMA RoutesSdk ==
    ASSUME TypeOK, KnownSessions, Posted, Routes, SdkStep, ~mapsRace
    PROVE  Routes'
<1>0. UNCHANGED nm
  BY DEF SdkStep
<1>1. nm # None => nm.req \in Requests /\ pc[nm.req] = "waiting"
  BY ResponseFields DEF Posted
<1>2. ASSUME NEW r \in Requests, NEW c \in Calls, SdkCallback(r, c) PROVE Routes'
  <2>1. /\ pc[r] = "idle" /\ pc'[r] = "called"
        /\ \A q \in Requests \ {r} : pc'[q] = pc[q] /\ owner'[q] = owner[q]
        /\ UNCHANGED <<registry, pending>>
    BY <1>2 DEF SdkCallback, TypeOK
  <2> QED BY <1>0, <1>1, <2>1 DEF Routes
<1>3. ASSUME NEW r \in Requests, SdkStore(r) PROVE Routes'
  <2>1. /\ pc[r] = "called" /\ pc'[r] = "stored"
        /\ \A q \in Requests \ {r} : pc'[q] = pc[q]
        /\ UNCHANGED <<registry, owner>>
    BY <1>3 DEF SdkStore, TypeOK
  <2>2. owner[r] \in Views /\ pending' = [pending EXCEPT ![owner[r]] = @ \cup {r}]
    BY <1>3, <2>1, NoRace DEF SdkStore, Written, KnownSessions
  <2>3. r \in pending'[owner[r]] /\ \A v \in Views : pending[v] \subseteq pending'[v]
    BY <2>2 DEF TypeOK
  <2>4. \A q \in Requests : pc[q] # "idle" => owner[q] \in Views
    BY DEF KnownSessions
  <2> QED BY <1>0, <1>1, <2>1, <2>3, <2>4 DEF Routes
<1>4. ASSUME NEW r \in Requests, SdkRegister(r) PROVE Routes'
  <2>1. /\ pc[r] = "stored" /\ pc'[r] = "registered"
        /\ \A q \in Requests \ {r} : pc'[q] = pc[q]
        /\ UNCHANGED <<pending, owner>>
    BY <1>4 DEF SdkRegister, TypeOK
  <2>2. registry' = [registry EXCEPT ![r] = owner[r]]
    BY <1>4, NoRace DEF SdkRegister, RegisterView, Written
  <2>3. registry'[r] = owner[r] /\ \A q \in Requests \ {r} : registry'[q] = registry[q]
    BY <2>2 DEF TypeOK
  <2> QED BY <1>0, <1>1, <2>1, <2>3 DEF Routes
<1>5. ASSUME NEW r \in Requests, SdkEmit(r) PROVE Routes'
  <2>1. /\ pc[r] = "registered" /\ pc'[r] = "waiting"
        /\ \A q \in Requests \ {r} : pc'[q] = pc[q]
        /\ UNCHANGED <<registry, pending, owner>>
    BY <1>5 DEF SdkEmit, TypeOK
  <2> QED BY <1>0, <1>1, <2>1 DEF Routes
<1>6. ASSUME NEW r \in Requests, SdkReturn(r) PROVE Routes'
  <2>1. /\ pc[r] = "resumed" /\ pc'[r] = "returned"
        /\ \A q \in Requests \ {r} : pc'[q] = pc[q]
        /\ UNCHANGED <<registry, pending, owner>>
    BY <1>6 DEF SdkReturn, TypeOK
  <2> QED BY <1>0, <1>1, <2>1 DEF Routes
<1> QED BY <1>2, <1>3, <1>4, <1>5, <1>6 DEF SdkStep

LEMMA RoutesNm ==
    ASSUME TypeOK, KnownSessions, Posted, Routes, NmStep, ~mapsRace, UNCHANGED mapsRace
    PROVE  Routes'
<1>0. UNCHANGED owner
  BY DEF NmStep
<1>1. ASSUME NEW c \in Calls, NmSubmit(c) PROVE Routes'
  BY <1>0, <1>1, RoutesFrame DEF NmSubmit
<1>2. ASSUME NEW m \in inbox, NmGetView(m) PROVE Routes'
  <2>1. UNCHANGED <<registry, pending, pc>>
    BY <1>2 DEF NmGetView
  <2>2. nm' # None => nm'.req = m.req /\ nm'.view = registry[m.req]
    <3>1. GetView(m.req) = {registry[m.req]}
      BY NoRace DEF GetView
    <3> QED BY <1>2, <3>1 DEF NmGetView
  <2>3. m.req \in Requests /\ pc[m.req] = "waiting"
    BY ResponseFields DEF Posted
  <2> QED BY <1>0, <2>1, <2>2, <2>3 DEF Routes
<1>3. CASE NmHandleResponse
  <2>1. /\ nm.req \in Requests /\ nm.view \in Views /\ nm # None
        /\ pc[nm.req] = "waiting"
    BY <1>3, ResponseFields DEF NmHandleResponse, Posted
  <2>2. nm.view = owner[nm.req] /\ nm.req \in pending[nm.view]
    BY <2>1 DEF Routes
  <2>3. /\ registry' = [registry EXCEPT ![nm.req] = None]
        /\ pending' = [pending EXCEPT ![nm.view] = @ \ {nm.req}]
        /\ pc' = [pc EXCEPT ![nm.req] = "resumed"]
        /\ nm' = None
    BY <1>3, <2>1, <2>2, NoRace
       DEF NmHandleResponse, UnregisterView, WithoutPending, Written
  <2>4. /\ registry'[nm.req] = None /\ pc'[nm.req] = "resumed"
        /\ \A q \in Requests \ {nm.req} : registry'[q] = registry[q] /\ pc'[q] = pc[q]
    BY <2>1, <2>3 DEF TypeOK
  <2>5. \A v \in Views : \A q \in pending[v] : q # nm.req => q \in pending'[v]
    BY <2>3 DEF TypeOK
  <2>6. \A q \in Requests : pc[q] # "idle" => owner[q] \in Views
    BY DEF KnownSessions
  <2> QED BY <1>0, <2>1, <2>3, <2>4, <2>5, <2>6 DEF Routes
<1> QED BY <1>1, <1>2, <1>3 DEF NmStep

LEMMA RoutesStep ==
    TypeOK /\ KnownSessions /\ Posted /\ Routes /\ [Next]_vars => Routes'
<1> SUFFICES ASSUME TypeOK, KnownSessions, Posted, Routes, [Next]_vars PROVE Routes'
  OBVIOUS
<1>0. UNCHANGED mapsRace
  BY MapsRaceStep
<1>1. CASE JsCommit \/ JsRun \/ JsHandle \/ UNCHANGED vars
  <2>1. UNCHANGED <<registry, pending, pc, owner, nm>>
    BY <1>1 DEF JsCommit, JsRun, JsHandle, vars, sdkVars
  <2> QED BY <1>0, <2>1, RoutesFrame
<1>2. CASE mapsRace
  BY <1>0, <1>2 DEF Routes
<1> QED BY <1>0, <1>1, <1>2, RoutesUi, RoutesSdk, RoutesNm DEF Next
-----------------------------------------------------------------------------
(* The way from the Pay button to the shown form *)

LEMMA MountedFirstStep == TypeOK /\ MountedFirst /\ [Next]_vars => MountedFirst'
<1> SUFFICES ASSUME TypeOK, MountedFirst, [Next]_vars PROVE MountedFirst'
  OBVIOUS
<1>1. CASE UNCHANGED <<hasInitialized, native>>
  BY <1>1 DEF MountedFirst
<1>2. ASSUME NEW v \in Views, NEW b \in BOOLEAN, UiMount(v, b) \/ UiUpdate(v, b)
      PROVE  MountedFirst'
  <2>1. \A w \in Views \ {v} : hasInitialized'[w] = hasInitialized[w]
    BY <1>2 DEF UiMount, UiUpdate, Initialize, TypeOK
  <2>2. native'[v] # "none" /\ \A w \in Views \ {v} : native'[w] = native[w]
    BY <1>2 DEF UiMount, UiUpdate, TypeOK
  <2> QED BY <2>1, <2>2 DEF MountedFirst
<1>3. ASSUME NEW v \in Views, UiDrop(v) PROVE MountedFirst'
  <2>1. \A w \in Views : native'[w] = "none" => native[w] = "none"
    BY <1>3 DEF UiDrop, TypeOK
  <2>2. hasInitialized' = hasInitialized
    BY <1>3 DEF UiDrop
  <2> QED BY <2>1, <2>2 DEF MountedFirst
<1>4. CASE UiStep
  BY <1>1, <1>2, <1>3, <1>4 DEF UiStep, UiCreateComponent, UiSubmitFromJs, UiSdkSubmit
<1>5. CASE JsCommit \/ JsRun \/ JsHandle \/ SdkStep \/ NmStep \/ UNCHANGED vars
  BY <1>1, <1>5 DEF JsCommit, JsRun, JsHandle, SdkStep, NmStep, vars, uiVars
<1> QED BY <1>4, <1>5 DEF Next

LEMMA PayReachesShownFormStep ==
    TypeOK /\ OneForm /\ MountedFirst /\ KnownSessions /\ PayReachesShownForm /\ [Next]_vars
      => PayReachesShownForm'
<1> SUFFICES ASSUME TypeOK, OneForm, MountedFirst, KnownSessions, PayReachesShownForm,
                    [Next]_vars,
                    ~mapsRace
             PROVE  \A v \in Views : js'[v] \in Shown /\ native'[v] = "live"
                                       => registry'[jsSession'[v]] = v
  BY MapsRaceStep DEF PayReachesShownForm
<1>0. \A v \in Views : js[v] \in Shown /\ native[v] = "live" => registry[jsSession[v]] = v
  BY DEF PayReachesShownForm
<1>1. CASE UNCHANGED <<js, jsSession, native>> /\ \A s \in Sessions : registry'[s] = registry[s]
  BY <1>0, <1>1 DEF KnownSessions
<1>2. CASE JsCommit
  <2>1. \A v \in Views : js'[v] \in Shown =>
           js[v] = "absent" \/ (js[v] \in Shown /\ jsSession'[v] = jsSession[v])
    <3> DEFINE Kept == \A u \in Views : js'[u] \in Shown =>
                         js[u] = "absent" \/ (js[u] \in Shown /\ jsSession'[u] = jsSession[u])
    <3>1. ASSUME NEW v \in Views, NEW s \in Sessions, JsOpen(v, s) PROVE Kept
      BY <3>1 DEF JsOpen, TypeOK
    <3>2. ASSUME NEW v \in Views, JsClose(v) PROVE Kept
      BY <3>2 DEF JsClose, TypeOK
    <3>3. ASSUME NEW v \in Views, NEW w \in Views, NEW s \in Sessions, JsSwitch(v, w, s)
          PROVE  Kept
      <4>1. /\ js[w] = "absent" /\ js'[v] = "leaving"
            /\ \A u \in Views \ {v, w} : js'[u] = js[u] /\ jsSession'[u] = jsSession[u]
        BY <3>3 DEF JsSwitch, TypeOK
      <4> QED BY <4>1
    <3> QED BY <1>2, <3>1, <3>2, <3>3 DEF JsCommit
  <2>2. UNCHANGED <<native, registry>>
    BY <1>2 DEF JsCommit, uiVars
  <2> QED BY <1>0, <2>1, <2>2 DEF KnownSessions
<1>3. CASE JsRun
  <2>1. UNCHANGED <<native, registry, jsSession>>
    BY <1>3 DEF JsRun, JsRunEffects, JsSubmit, uiVars
  <2>2. \A v \in Views : js'[v] \in Shown => js[v] \in Shown
    BY <1>3 DEF JsRun, JsRunEffects, JsSubmit, AfterEffects
  <2> QED BY <1>0, <2>1, <2>2
<1>4. CASE JsHandle \/ UNCHANGED vars
  BY <1>1, <1>4 DEF JsHandle, JsDeliver, JsAnswer, uiVars, vars, jsVars
<1>5. CASE UiStep
  <2>0. UNCHANGED <<js, jsSession>>
    BY <1>5 DEF UiStep
  <2>1. ASSUME NEW v \in Views, NEW b \in BOOLEAN, UiMount(v, b) \/ UiUpdate(v, b)
        PROVE  \A w \in Views : js'[w] \in Shown /\ native'[w] = "live"
                                    => registry'[jsSession'[w]] = w
    <3>1. js[v] \in Shown /\ Initialize(v, b)
      BY <2>1 DEF UiMount, UiUpdate
    <3>2. \A w \in Views : js[w] \in Shown => w = v
      BY <3>1 DEF OneForm
    <3>3. jsSession[v] \in Sessions
      BY <3>1 DEF KnownSessions
    <3>4. CASE hasInitialized[v]
      <4>1. native[v] = "live" /\ registry' = registry
        BY <2>1, <3>4 DEF UiMount, UiUpdate, Initialize, MountedFirst
      <4> QED BY <1>0, <2>0, <3>1, <3>2, <4>1
    <3>5. CASE ~hasInitialized[v]
      <4>1. registry' = [registry EXCEPT ![jsSession[v]] = v]
        BY <3>1, <3>5, NoRace DEF Initialize, RegisterView, Written
      <4>2. registry'[jsSession[v]] = v
        BY <3>3, <4>1 DEF TypeOK
      <4> QED BY <2>0, <3>2, <4>2
    <3> QED BY <3>4, <3>5
  <2>2. ASSUME NEW v \in Views, UiDrop(v)
        PROVE  \A w \in Views : js'[w] \in Shown /\ native'[w] = "live"
                                    => registry'[jsSession'[w]] = w
    <3>1. registry' = registry /\ \A w \in Views : native'[w] = "live" => native[w] = "live"
      BY <2>2 DEF UiDrop, RegistryAfterDrop, TypeOK
    <3> QED BY <1>0, <2>0, <3>1
  <2>3. CASE UNCHANGED <<native, registry>>
    BY <1>1, <2>0, <2>3
  <2> QED BY <1>5, <2>1, <2>2, <2>3 DEF UiStep, UiCreateComponent, UiSubmitFromJs, UiSdkSubmit
<1>6. CASE SdkStep \/ NmStep
  <2>1. UNCHANGED <<js, jsSession, native>>
    BY <1>6 DEF SdkStep, NmStep, jsVars
  <2>2. nm # None => nm.req \in Requests
    BY ResponseFields
  <2>3. \A s \in Sessions : registry'[s] = registry[s]
    BY <1>6, <2>2, RegisterRequestKeepsSessions
       DEF SdkStep, SdkCallback, SdkStore, SdkRegister, SdkEmit, SdkReturn,
           NmStep, NmSubmit, NmGetView, NmHandleResponse
  <2> QED BY <1>1, <2>1, <2>3
<1> QED BY <1>2, <1>3, <1>4, <1>5, <1>6 DEF Next
-----------------------------------------------------------------------------
(* The theorems *)

LEMMA InitIInv == Init => IInv
<1> SUFFICES ASSUME Init PROVE IInv
  OBVIOUS
<1>1. TypeOK
  BY TypeInit
<1>2. OneForm /\ MountedFirst /\ PayReachesShownForm
  BY DEF Init, OneForm, MountedFirst, PayReachesShownForm
<1>3. KnownSessions
  BY DEF Init, KnownSessions
<1>4. Posted /\ Answered
  BY DEF Init, Posted, SinglePost, Answered
<1>5. Routes
  BY DEF Init, Routes
<1> QED BY <1>1, <1>2, <1>3, <1>4, <1>5 DEF IInv

LEMMA StepIInv == IInv /\ [Next]_vars => IInv'
<1> SUFFICES ASSUME IInv, [Next]_vars PROVE IInv'
  OBVIOUS
<1>0. /\ TypeOK /\ OneForm /\ MountedFirst /\ KnownSessions
      /\ Posted /\ Answered /\ Routes /\ PayReachesShownForm
  BY DEF IInv
<1>1. TypeOK'
  <2>1. CASE UNCHANGED vars
    BY <1>0, <2>1 DEF TypeOK, vars, jsVars, uiVars, sdkVars
  <2> QED BY <1>0, <2>1, MapsRaceStep, TypeJsCommit, TypeJsRun, TypeJsHandle, TypeUiStep, TypeSdkStep,
             TypeNmStep DEF Next
<1>2. KnownSessions'
  <2>1. CASE UNCHANGED vars
    BY <1>0, <2>1 DEF KnownSessions, vars, jsVars, uiVars, sdkVars
  <2> QED BY <1>0, <2>1, KnownSessionsJs, KnownSessionsUi, KnownSessionsSdk, KnownSessionsNm
          DEF Next
<1> QED BY <1>0, <1>1, <1>2, OneFormStep, MountedFirstStep, PostedStep, RoutesStep,
           PayReachesShownFormStep DEF IInv

\* The inductive invariant of the bridge holds in every state of CardBridge's
\* threads.
THEOREM Invariance == Spec => []IInv
BY InitIInv, StepIInv, PTL DEF Spec

\* Every variable keeps to its type: in particular every view that answers,
\* Pay presses and maps lead to is a view, and every verdict an ApiCallResult.
THEOREM TypeCorrect == Spec => []TypeOK
<1>1. IInv => TypeOK
  BY DEF IInv
<1> QED BY <1>1, Invariance, PTL

\* The answer to a waiting handleSubmit finds the view that holds its
\* continuation, when accesses to the maps do not race.
THEOREM AnswersAreRouted == Spec => []Routable
<1>1. IInv => Routable
  BY DEF IInv, Routes, Routable
<1> QED BY <1>1, Invariance, PTL

\* The registry holds a request id only while its answer is expected.
THEOREM RegistryIsClean == Spec => []NoStrayEntry
<1>1. IInv => NoStrayEntry
  BY DEF IInv, Routes, NoStrayEntry
<1> QED BY <1>1, Invariance, PTL

\* No request is POSTed by two listeners, races or not.
THEOREM PostedOnce == Spec => []SinglePost
<1>1. IInv => SinglePost
  BY DEF IInv, Posted
<1> QED BY <1>1, Invariance, PTL

\* The session that is POSTed is the one Pay was pressed for, races or not.
THEOREM RightSession == Spec => []PaysTheSessionPressed
<1>1. IInv => PaysTheSessionPressed
  BY DEF IInv, KnownSessions, PaysTheSessionPressed
<1> QED BY <1>1, Invariance, PTL

\* Pay reaches the form that is shown, whatever earlier views of the session
\* the registry still keeps.
THEOREM ShownFormIsReached == Spec => []PayReachesShownForm
<1>1. IInv => PayReachesShownForm
  BY DEF IInv
<1> QED BY <1>1, Invariance, PTL

-----------------------------------------------------------------------------
(* An answer App has is on its way, or was handed over *)

\* The frame: an outcome that was there before, and nothing of its way touched.
LEMMA KeptFrame ==
    ASSUME ~mapsRace, AnswersAreKept, UNCHANGED <<inbox, nm, result>>,
           \A r \in Requests, v \in Views : post'[r][v] \in Outcomes =>
              post[r][v] = post'[r][v] /\ owner'[r] = owner[r]
    PROVE  AnswersAreKept'
BY DEF AnswersAreKept

LEMMA KeptHandle ==
    ASSUME TypeOK, ~mapsRace, Posted, AnswersAreKept, JsHandle
    PROVE  AnswersAreKept'
<1>0. UNCHANGED <<owner, result, nm>>
  BY DEF JsHandle, sdkVars
<1>1. ASSUME NEW r \in Requests, JsDeliver(r) PROVE AnswersAreKept'
  <2>1. \A q \in Requests, v \in Views : post'[q][v] \in Outcomes => post[q][v] = post'[q][v]
    BY <1>1 DEF JsDeliver, TypeOK
  <2> QED BY <1>0, <1>1, <2>1, KeptFrame DEF JsDeliver
<1>2. ASSUME NEW r \in Requests, NEW v \in Views, NEW outcome \in Outcomes,
             JsAnswer(r, v, outcome)
      PROVE  AnswersAreKept'
  <2>1. inbox' = inbox \cup {[req |-> r, by |-> v]}
    BY <1>2 DEF JsAnswer
  <2>2. \A q \in Requests, w \in Views : q # r \/ w # v => post'[q][w] = post[q][w]
    BY <1>2 DEF JsAnswer, TypeOK
  <2> QED BY <1>0, <2>1, <2>2 DEF AnswersAreKept
<1> QED BY <1>1, <1>2 DEF JsHandle

LEMMA KeptSdk ==
    ASSUME TypeOK, ~mapsRace, Posted, AnswersAreKept, SdkStep
    PROVE  AnswersAreKept'
<1>0. UNCHANGED <<post, inbox, nm>>
  BY DEF SdkStep, jsVars
<1>1. ASSUME NEW r \in Requests, NEW c \in Calls, SdkCallback(r, c) PROVE AnswersAreKept'
  <2>1. \A v \in Views : post[r][v] = "none"
    BY <1>1 DEF SdkCallback, Posted
  <2>2. \A q \in Requests \ {r} : owner'[q] = owner[q]
    BY <1>1 DEF SdkCallback, TypeOK
  <2> QED BY <1>0, <1>1, <2>1, <2>2, KeptFrame DEF SdkCallback
<1>2. CASE UNCHANGED <<owner, result>>
  BY <1>0, <1>2, KeptFrame
<1> QED BY <1>1, <1>2 DEF SdkStep, SdkStore, SdkRegister, SdkEmit, SdkReturn

\* handleSubmitResponse finds the view, because the way is there (Routes), and
\* its continuation, because nobody else took it.
LEMMA KeptNm ==
    ASSUME TypeOK, ~mapsRace, KnownSessions, Posted, Routes, AnswersAreKept, NmStep
    PROVE  AnswersAreKept'
<1>0. UNCHANGED <<post, owner>>
  BY DEF NmStep
<1>1. ASSUME NEW c \in Calls, NmSubmit(c) PROVE AnswersAreKept'
  BY <1>0, <1>1, KeptFrame DEF NmSubmit
<1>2. ASSUME NEW m \in inbox, NmGetView(m) PROVE AnswersAreKept'
  <2>1. m.req \in Requests /\ m.by \in Views /\ pc[m.req] = "waiting"
    BY ResponseFields DEF Posted
  <2>2. registry[m.req] = owner[m.req] /\ owner[m.req] \in Views
    BY <2>1 DEF Routes, KnownSessions
  <2>3. GetView(m.req) = {owner[m.req]}
    BY <2>2, NoRace DEF GetView
  <2>4. /\ nm = None /\ inbox' = inbox \ {m} /\ result' = result
        /\ nm' = [req |-> m.req, by |-> m.by, view |-> owner[m.req]]
    BY <1>2, <2>2, <2>3, NoneAssumption DEF NmGetView
  <2>5. \A r \in Requests, v \in Views : post[r][v] \in Outcomes =>
           nm # [req |-> r, by |-> v, view |-> owner[r]]
    <3>1. ASSUME NEW r \in Requests, NEW v \in Views, post[r][v] \in Outcomes
          PROVE  owner[r] \in Views
      BY <3>1 DEF Posted, KnownSessions
    <3> QED BY <2>4, <3>1, NoTaskAssumption
  <2>6. m = [req |-> m.req, by |-> m.by]
    BY DEF TypeOK
  <2> QED BY <1>0, <2>4, <2>5, <2>6 DEF AnswersAreKept
<1>3. CASE NmHandleResponse
  <2>1. /\ nm.req \in Requests /\ nm.by \in Views /\ nm.view \in Views /\ nm # None
        /\ pc[nm.req] = "waiting" /\ post[nm.req][nm.by] \in Outcomes
    BY <1>3, ResponseFields DEF NmHandleResponse, Posted
  <2>2. nm.view = owner[nm.req] /\ nm.req \in pending[nm.view]
    BY <2>1 DEF Routes
  <2>3. result' = [result EXCEPT ![nm.req] = post[nm.req][nm.by]] /\ inbox' = inbox
    BY <1>3, <2>1, <2>2, NoRace DEF NmHandleResponse
  <2>4. /\ result'[nm.req] = post[nm.req][nm.by]
        /\ \A q \in Requests \ {nm.req} : result'[q] = result[q]
    BY <2>1, <2>3 DEF TypeOK
  <2>5. \A v \in Views : post[nm.req][v] \in Outcomes => v = nm.by
    BY <2>1 DEF Posted, SinglePost
  <2>6. \A r \in Requests, v \in Views :
           nm = [req |-> r, by |-> v, view |-> owner[r]] => r = nm.req
    OBVIOUS
  <2> QED BY <1>0, <2>3, <2>4, <2>5, <2>6 DEF AnswersAreKept
<1> QED BY <1>1, <1>2, <1>3 DEF NmStep

LEMMA KeptStep == IInv /\ AnswersAreKept /\ [Next]_vars => AnswersAreKept'
<1> SUFFICES ASSUME IInv, AnswersAreKept, [Next]_vars PROVE AnswersAreKept'
  OBVIOUS
<1>0. TypeOK /\ KnownSessions /\ Posted /\ Routes /\ UNCHANGED mapsRace
  BY MapsRaceStep DEF IInv
<1>1. CASE mapsRace
  BY <1>0, <1>1 DEF AnswersAreKept
<1>2. CASE ~mapsRace
  <2>1. CASE JsCommit \/ JsRun \/ UiStep \/ UNCHANGED vars
    <3>1. UNCHANGED <<post, inbox, nm, result, owner>>
      BY <2>1 DEF JsCommit, JsOpen, JsClose, JsSwitch, JsRun, JsRunEffects, JsSubmit, UiStep,
                  vars, jsVars, sdkVars
    <3> QED BY <1>2, <3>1, KeptFrame
  <2> QED BY <1>0, <1>2, <2>1, KeptHandle, KeptSdk, KeptNm DEF Next
<1> QED BY <1>1, <1>2

\* No answer App has is lost on its way to the SDK's thread, whatever is
\* mounted, dropped or asked meanwhile: the safety part of AnswersReturn.
THEOREM NoAnswerIsLost == Spec => []AnswersAreKept
<1>1. Init => AnswersAreKept
  BY DEF Init, AnswersAreKept
<1> QED BY <1>1, KeptStep, Invariance, PTL DEF Spec

-----------------------------------------------------------------------------
\* No continuation is dropped or resumed twice, races or not.
THEOREM TakenOnce == Spec => TakenIsResumed
<1>1. ASSUME IInv, [Next]_vars PROVE [ResumesWhatItTakes]_vars
  <2>0. TypeOK /\ Posted /\ Answered
    BY <1>1 DEF IInv
  <2>1. CASE UNCHANGED <<pending, result>>
    BY <2>1 DEF ResumesWhatItTakes
  <2>2. ASSUME NEW r \in Requests, SdkStore(r) PROVE ResumesWhatItTakes
    <3>1. pending' = pending \/ pending' = [pending EXCEPT ![owner[r]] = @ \cup {r}]
      BY <2>2 DEF SdkStore, Written
    <3>2. \A v \in Views : pending[v] \subseteq pending'[v]
      <4>1. pending \in [Views -> SUBSET Requests]
        BY <2>0 DEF TypeOK
      <4> QED BY <3>1, <4>1
    <3>3. result' = result
      BY <2>2 DEF SdkStore
    <3> QED BY <3>2, <3>3 DEF ResumesWhatItTakes
  <2>3. CASE NmHandleResponse
    <3>1. nm.req \in Requests /\ pc[nm.req] = "waiting" /\ result[nm.req] = None
      BY <2>0, <2>3, ResponseFields DEF NmHandleResponse, Posted, Answered
    <3>2. \/ UNCHANGED <<pending, result>>
          \/ /\ pending' = pending \/ pending' = WithoutPending(nm.view, nm.req)
             /\ pc' = [pc EXCEPT ![nm.req] = "resumed"]
             /\ result' = [result EXCEPT ![nm.req] = post[nm.req][nm.by]]
      BY <2>3, <3>1 DEF NmHandleResponse, Written
    <3>3. CASE pending' = pending \/ pending' = WithoutPending(nm.view, nm.req)
      <4>1. \A v \in Views : pending[v] \ pending'[v] \subseteq {nm.req}
        <5>1. pending \in [Views -> SUBSET Requests]
          BY <2>0 DEF TypeOK
        <5> QED BY <3>3, <5>1 DEF WithoutPending
      <4>2. CASE UNCHANGED <<pending, result>>
        BY <4>2 DEF ResumesWhatItTakes
      <4>3. CASE /\ pc' = [pc EXCEPT ![nm.req] = "resumed"]
                 /\ result' = [result EXCEPT ![nm.req] = post[nm.req][nm.by]]
        <5>1. pc'[nm.req] = "resumed" /\ \A q \in Requests \ {nm.req} : result'[q] = result[q]
          BY <2>0, <3>1, <4>3 DEF TypeOK
        <5> QED BY <3>1, <4>1, <5>1 DEF ResumesWhatItTakes
      <4> QED BY <3>2, <4>2, <4>3
    <3> QED BY <2>1, <3>2, <3>3
  <2>4. CASE NmStep
    BY <2>1, <2>3, <2>4 DEF NmStep, NmSubmit, NmGetView
  <2>5. CASE SdkStep
    BY <2>1, <2>2, <2>5 DEF SdkStep, SdkCallback, SdkRegister, SdkEmit, SdkReturn
  <2>6. CASE JsCommit \/ JsRun \/ JsHandle \/ UiStep
    BY <2>1, <2>6 DEF JsCommit, JsRun, JsHandle, UiStep, sdkVars
  <2> QED BY <1>1, <2>4, <2>5, <2>6 DEF Next
<1> QED BY <1>1, Invariance, PTL DEF Spec, TakenIsResumed
-----------------------------------------------------------------------------
(* The bridge implements SubmitRequest *)

LEMMA ChosenPost ==
    ASSUME NEW P, NEW v \in Views, P[v] \in Outcomes,
           \A u, w \in Views : P[u] # "none" /\ P[w] # "none" => u = w
    PROVE  P[CHOOSE u \in Views : P[u] \in Outcomes] = P[v]
<1> DEFINE chosen == CHOOSE u \in Views : P[u] \in Outcomes
<1>1. chosen \in Views /\ P[chosen] \in Outcomes
  OBVIOUS
<1>2. chosen = v
  BY <1>1
<1> QED BY <1>2

\* The bridge, whatever its threads do, asks the app once per request, and
\* tells the SDK what the app's answer to that request calls for; races in the
\* maps can only lose the answer.
THEOREM Implementation == Spec => KeepsThePromise
<1>1. ASSUME Init PROVE Promise!Init
  BY <1>1 DEF Init, Promise!Init, StatusOf, AnswerTo
<1>2. ASSUME IInv, IInv', [Next]_vars PROVE [Promise!Next]_(Promise!vars)
  <2> DEFINE status == [r \in Requests |-> StatusOf(r)]
             answer == [r \in Requests |-> AnswerTo(r)]
  <2>0. /\ TypeOK /\ Posted /\ Answered
        /\ Posted'
    BY <1>2 DEF IInv
  <2>1. ASSUME UNCHANGED <<status, answer, verdict>> PROVE UNCHANGED Promise!vars
    BY <2>1 DEF Promise!vars
  <2>2. ASSUME UNCHANGED post PROVE UNCHANGED answer
    BY <2>2 DEF AnswerTo
  <2>3. ASSUME UNCHANGED pc PROVE UNCHANGED status
    BY <2>3 DEF StatusOf
  <2>4. CASE UNCHANGED <<post, pc, verdict>>
    BY <2>1, <2>2, <2>3, <2>4
  <2>5. ASSUME NEW r \in Requests, JsDeliver(r), UNCHANGED <<pc, verdict>>
        PROVE  UNCHANGED Promise!vars
    <3>1. \A v \in Views : post[r][v] = "none"
      BY <2>0, <2>5 DEF JsDeliver, Posted
    <3>2. /\ \A v \in Views : post'[r][v] \notin Outcomes
          /\ \A q \in Requests \ {r} : post'[q] = post[q]
      BY <2>0, <2>5, <3>1 DEF JsDeliver, TypeOK
    <3>3. \A q \in Requests : AnswerTo(q)' = AnswerTo(q)
      BY <3>1, <3>2 DEF AnswerTo
    <3> QED BY <2>1, <2>3, <2>5, <3>3
  <2>6. ASSUME NEW r \in Requests, NEW v \in Views, NEW outcome \in Outcomes,
               JsAnswer(r, v, outcome), UNCHANGED <<pc, verdict>>
        PROVE  Promise!Answer(r, outcome)
    <3>1. post[r][v] = "posting"
      BY <2>6 DEF JsAnswer
    <3>2. pc[r] = "waiting" /\ \A w \in Views : post[r][w] \notin Outcomes
      BY <2>0, <3>1 DEF Posted, SinglePost
    <3>3. StatusOf(r) = "asked" /\ AnswerTo(r) = None
      BY <3>2 DEF StatusOf, AnswerTo
    <3>4. post'[r][v] = outcome /\ \A q \in Requests \ {r} : post'[q] = post[q]
      BY <2>0, <2>6 DEF JsAnswer, TypeOK
    <3>5. AnswerTo(r)' = outcome
      <4>1. \A u, w \in Views : post'[r][u] # "none" /\ post'[r][w] # "none" => u = w
        BY <2>0 DEF Posted, SinglePost
      <4> QED BY <3>4, <4>1, ChosenPost DEF AnswerTo
    <3>6. \A q \in Requests \ {r} : AnswerTo(q)' = AnswerTo(q)
      BY <3>4 DEF AnswerTo
    <3>7. answer' = [answer EXCEPT ![r] = outcome]
      BY <3>5, <3>6
    <3>8. UNCHANGED <<status, verdict>>
      BY <2>3, <2>6
    <3> QED BY <3>3, <3>7, <3>8 DEF Promise!Answer
  <2>7. ASSUME NEW r \in Requests, NEW c \in Calls, SdkCallback(r, c), UNCHANGED post
        PROVE  Promise!Ask(r)
    <3>1. /\ StatusOf(r) = "idle" /\ StatusOf(r)' = "asked"
          /\ \A q \in Requests \ {r} : StatusOf(q)' = StatusOf(q)
      BY <2>0, <2>7 DEF SdkCallback, StatusOf, TypeOK
    <3>2. status' = [status EXCEPT ![r] = "asked"]
      BY <3>1
    <3>3. UNCHANGED <<answer, verdict>>
      BY <2>2, <2>7 DEF SdkCallback
    <3> QED BY <3>1, <3>2, <3>3 DEF Promise!Ask
  <2>8. ASSUME NEW r \in Requests, SdkStore(r) \/ SdkRegister(r) \/ SdkEmit(r), UNCHANGED post
        PROVE  UNCHANGED Promise!vars
    <3>1. \A q \in Requests : StatusOf(q)' = StatusOf(q)
      BY <2>0, <2>8 DEF SdkStore, SdkRegister, SdkEmit, StatusOf, TypeOK
    <3> QED BY <2>1, <2>2, <2>8, <3>1 DEF SdkStore, SdkRegister, SdkEmit
  <2>9. ASSUME NEW r \in Requests, SdkReturn(r), UNCHANGED post PROVE Promise!Settle(r)
    <3>1. /\ StatusOf(r) = "asked" /\ StatusOf(r)' = "done"
          /\ \A q \in Requests \ {r} : StatusOf(q)' = StatusOf(q)
      BY <2>0, <2>9 DEF SdkReturn, StatusOf, TypeOK
    <3>2. status' = [status EXCEPT ![r] = "done"]
      BY <3>1
    <3>3. PICK v \in Views : post[r][v] = result[r] /\ result[r] \in Outcomes
      BY <2>0, <2>9 DEF SdkReturn, Answered
    <3>4. AnswerTo(r) = result[r]
      <4>1. \A u, w \in Views : post[r][u] # "none" /\ post[r][w] # "none" => u = w
        BY <2>0 DEF Posted, SinglePost
      <4> QED BY <3>3, <4>1, ChosenPost DEF AnswerTo
    <3>5. Promise!VerdictOf(result[r]) = ApiCallResult(result[r])
      BY <3>3 DEF Promise!VerdictOf, ApiCallResult, Succeeded, Parses
    <3>6. verdict' = [verdict EXCEPT ![r] = Promise!VerdictOf(AnswerTo(r))]
      BY <2>9, <3>4, <3>5 DEF SdkReturn
    <3>7. AnswerTo(r) # None
      BY <2>0, <2>9, <3>3, <3>4, NoneAssumption
    <3> QED BY <2>2, <2>9, <3>1, <3>2, <3>6, <3>7 DEF Promise!Settle
  <2>10. CASE NmHandleResponse /\ UNCHANGED <<post, verdict>>
    <3>1. nm.req \in Requests /\ pc[nm.req] = "waiting"
      BY <2>0, <2>10, ResponseFields DEF NmHandleResponse, Posted
    <3>2. \A q \in Requests : StatusOf(q)' = StatusOf(q)
      BY <2>0, <2>10, <3>1 DEF NmHandleResponse, StatusOf, TypeOK
    <3> QED BY <2>1, <2>2, <2>10, <3>2
  <2>11. CASE JsCommit \/ JsRun \/ UiStep \/ UNCHANGED vars
    BY <2>4, <2>11 DEF JsCommit, JsOpen, JsClose, JsSwitch, JsRun, JsRunEffects, JsSubmit,
                       UiStep, vars, jsVars, sdkVars
  <2>12. CASE JsHandle
    BY <2>5, <2>6, <2>12 DEF JsHandle, sdkVars, Promise!Next, Promise!Outcomes
  <2>13. CASE SdkStep
    BY <2>7, <2>8, <2>9, <2>13 DEF SdkStep, jsVars, Promise!Next
  <2>14. CASE NmStep
    BY <2>4, <2>10, <2>14 DEF NmStep, NmSubmit, NmGetView
  <2> QED BY <1>2, <2>11, <2>12, <2>13, <2>14 DEF Next
<1> QED BY <1>1, <1>2, Invariance, PTL DEF Spec, KeepsThePromise, Promise!Spec
-----------------------------------------------------------------------------
(***************************************************************************)
(* What follows from the promise kept, in the terms of the bridge.         *)
(***************************************************************************)
Promised == INSTANCE SubmitRequest_proofs WITH
    status <- [r \in Requests |-> StatusOf(r)],
    answer <- [r \in Requests |-> AnswerTo(r)]

LEMMA PromiseIsPromised == Promise!Spec => Promised!Spec
<1>1. Promise!Init => Promised!Init
  BY DEF Promise!Init, Promised!Init
<1>2. [Promise!Next]_(Promise!vars) => [Promised!Next]_(Promised!vars)
  BY DEF Promise!Next, Promise!vars, Promise!Ask, Promise!Answer, Promise!Settle,
         Promise!Outcomes, Promise!VerdictOf, Promised!Next, Promised!vars, Promised!Ask,
         Promised!Answer, Promised!Settle, Promised!Outcomes, Promised!VerdictOf
<1> QED
  BY <1>1, <1>2, PTL DEF Promise!Spec, Promised!Spec

LEMMA ToldIsTheApps ==
    ASSUME Promised!Told, NEW r \in Requests, verdict[r] # None
    PROVE  /\ pc[r] = "returned"
           /\ \E v \in Views : post[r][v] \in Outcomes /\ verdict[r] = ApiCallResult(post[r][v])
<1>1. StatusOf(r) = "done" /\ AnswerTo(r) # None /\ verdict[r] = Promised!VerdictOf(AnswerTo(r))
  BY DEF Promised!Told
<1>2. pc[r] = "returned"
  BY <1>1 DEF StatusOf
<1>3. PICK v \in Views : post[r][v] \in Outcomes /\ AnswerTo(r) = post[r][v]
  BY <1>1 DEF AnswerTo
<1> QED
  BY <1>1, <1>2, <1>3 DEF Promised!VerdictOf, ApiCallResult, Succeeded, Parses, Outcomes

\* From the press to the verdict: what the SDK is told of a payment is what one
\* view made of the one answer of App to it, which is to the session on whose
\* form Pay was pressed.
VerdictOfThePress ==
    \A r \in Requests : verdict[r] # None =>
        /\ session[owner[r]] = callSession[cause[r]]
        /\ \E v \in Views :
              /\ post[r][v] \in Outcomes
              /\ verdict[r] = ApiCallResult(post[r][v])
              /\ \A w \in Views \ {v} : post[r][w] = "none"

\* Six hand-overs between four threads, and the SDK learns of a payment what
\* the app's answer to that very payment calls for, races or not.
THEOREM VerdictsAreOfThePress == Spec => []VerdictOfThePress
<1>1. SinglePost /\ PaysTheSessionPressed /\ Promised!Told => VerdictOfThePress
  <2> SUFFICES ASSUME SinglePost, PaysTheSessionPressed, Promised!Told,
                      NEW r \in Requests, verdict[r] # None
               PROVE  /\ session[owner[r]] = callSession[cause[r]]
                      /\ \E v \in Views :
                            /\ post[r][v] \in Outcomes
                            /\ verdict[r] = ApiCallResult(post[r][v])
                            /\ \A w \in Views \ {v} : post[r][w] = "none"
    BY DEF VerdictOfThePress
  <2>1. pc[r] = "returned"
    BY ToldIsTheApps
  <2>2. PICK v \in Views : post[r][v] \in Outcomes /\ verdict[r] = ApiCallResult(post[r][v])
    BY ToldIsTheApps
  <2>3. \A w \in Views \ {v} : post[r][w] = "none"
    BY <2>2 DEF SinglePost, Outcomes
  <2> QED
    BY <2>1, <2>2, <2>3 DEF PaysTheSessionPressed
<1> QED
  BY <1>1, PromiseIsPromised, Promised!VerdictsAreTold, Implementation, PostedOnce, RightSession,
     PTL DEF KeepsThePromise
-----------------------------------------------------------------------------
(***************************************************************************)
(* JavaScript keeps to Sheet.                                              *)
(***************************************************************************)
ShownIsTheForm ==
    /\ \A v \in Views : js[v] \in Shown => ShownSession = jsSession[v]
    /\ (\A v \in Views : js[v] \notin Shown) => ShownSession = None

LEMMA OneShown == OneForm => ShownIsTheForm
<1> SUFFICES ASSUME OneForm PROVE ShownIsTheForm
  OBVIOUS
<1>1. ASSUME NEW v \in Views, js[v] \in Shown PROVE ShownSession = jsSession[v]
  <2>1. ShownForms = {v}
    BY <1>1 DEF ShownForms, OneForm
  <2> QED
    BY <2>1 DEF ShownSession
<1>2. ASSUME \A v \in Views : js[v] \notin Shown PROVE ShownSession = None
  <2>1. ShownForms = {}
    BY <1>2 DEF ShownForms
  <2> QED
    BY <2>1 DEF ShownSession
<1> QED
  BY <1>1, <1>2 DEF ShownIsTheForm

\* A promise that settles does so whatever the sheet shows.
LEMMA CallSettles ==
    ASSUME TypeOK, NEW c \in Calls, call[c] \in {"sent", "queued"},
           NEW to \in {"queued", "resolved", "rejected"},
           call' = [call EXCEPT ![c] = to],
           UNCHANGED <<js, jsSession, callSession>>
    PROVE  [Form!Next]_(Form!vars)
<1> DEFINE calls == [d \in Calls |-> CallOf(d)]
<1>1. UNCHANGED ShownSession
  BY DEF ShownSession, ShownForms
<1>2. \A d \in Calls \ {c} : CallOf(d)' = CallOf(d)
  BY DEF CallOf, TypeOK
<1>3. call'[c] = to
  BY DEF TypeOK
<1>4. CASE to = "queued"
  <2>1. CallOf(c)' = CallOf(c)
    BY <1>3, <1>4 DEF CallOf
  <2> QED
    BY <1>1, <1>2, <2>1 DEF Form!vars
<1>5. CASE to # "queued"
  <2>1. CallOf(c) = "sent" /\ CallOf(c)' = "settled"
    BY <1>3, <1>5 DEF CallOf
  <2>2. calls[c] = "sent" /\ calls' = [calls EXCEPT ![c] = "settled"]
    BY <1>2, <2>1
  <2>3. Form!Settle(c)
    BY <1>1, <2>2 DEF Form!Settle
  <2> QED
    BY <2>3 DEF Form!Next
<1> QED
  BY <1>4, <1>5

LEMMA SheetStep == IInv /\ IInv' /\ [Next]_vars => [Form!Next]_(Form!vars)
<1> SUFFICES ASSUME IInv, IInv', [Next]_vars PROVE [Form!Next]_(Form!vars)
  OBVIOUS
<1> DEFINE Goal == [Form!Next]_(Form!vars)
           calls == [d \in Calls |-> CallOf(d)]
<1>0. /\ TypeOK /\ ShownIsTheForm
      /\ ShownIsTheForm'
  <2>1. (OneForm => ShownIsTheForm)'
    BY OneShown, PTL
  <2> QED
    BY <2>1, OneShown DEF IInv
<1>1. ASSUME UNCHANGED call PROVE UNCHANGED calls
  BY <1>1 DEF CallOf
<1>2. ASSUME UNCHANGED <<ShownSession, call, callSession>> PROVE Goal
  BY <1>1, <1>2 DEF Form!vars
<1>3. ASSUME UNCHANGED <<js, jsSession, call, callSession>> PROVE Goal
  BY <1>2, <1>3 DEF ShownSession, ShownForms
<1>4. ASSUME NEW v \in Views, NEW s \in Sessions, JsOpen(v, s) PROVE Goal
  <2>1. \A w \in Views : js[w] \notin Shown
    BY <1>4 DEF JsOpen, EffectsRun
  <2>2. js'[v] = "rendered" /\ jsSession'[v] = s
    BY <1>0, <1>4 DEF JsOpen, TypeOK
  <2>3. ShownSession = None /\ ShownSession' = s /\ s # None
    BY <1>0, <2>1, <2>2, NoneAssumption DEF ShownIsTheForm
  <2>4. Form!Show(s)
    BY <1>1, <1>4, <2>3 DEF JsOpen, Form!Show
  <2> QED
    BY <2>4 DEF Form!Next
<1>5. ASSUME NEW v \in Views, JsClose(v) PROVE Goal
  <2>1. js[v] = "listening" /\ \A w \in Views : js'[w] \notin Shown
    BY <1>0, <1>5 DEF JsClose, IInv, OneForm, TypeOK
  <2>2. jsSession[v] \in Sessions
    BY <2>1 DEF IInv, KnownSessions
  <2>3. ShownSession # None /\ ShownSession' = None
    BY <1>0, <2>1, <2>2, NoneAssumption DEF ShownIsTheForm
  <2>4. Form!Hide
    BY <1>1, <1>5, <2>3 DEF JsClose, Form!Hide
  <2> QED
    BY <2>4 DEF Form!Next
<1>6. ASSUME NEW v \in Views, NEW w \in Views, NEW s \in Sessions, JsSwitch(v, w, s)
      PROVE  Goal
  <2>1. js[v] = "listening" /\ js'[w] = "rendered" /\ jsSession'[w] = s /\ s # jsSession[v]
    BY <1>0, <1>6 DEF JsSwitch, TypeOK
  <2>2. ShownSession # s /\ ShownSession' = s
    BY <1>0, <2>1 DEF ShownIsTheForm
  <2>3. Form!Show(s)
    BY <1>1, <1>6, <2>2 DEF JsSwitch, Form!Show
  <2> QED
    BY <2>3 DEF Form!Next
<1>7. ASSUME JsRunEffects PROVE Goal
  <2>1. \A v \in Views : js'[v] \in Shown <=> js[v] \in Shown
    BY <1>0, <1>7 DEF JsRunEffects, AfterEffects, TypeOK
  <2>2. UNCHANGED ShownForms
    BY <2>1 DEF ShownForms
  <2>3. UNCHANGED ShownSession
    BY <1>7, <2>2 DEF JsRunEffects, ShownSession
  <2> QED
    BY <1>2, <1>7, <2>3 DEF JsRunEffects
<1>8. ASSUME NEW c \in Calls, JsSubmit(c) PROVE Goal
  <2>1. PICK v \in Views : /\ js[v] = "listening"
                           /\ callSession' = [callSession EXCEPT ![c] = jsSession[v]]
    BY <1>8 DEF JsSubmit
  <2>2. jsSession[v] \in Sessions /\ ShownSession = jsSession[v]
    BY <1>0, <2>1 DEF IInv, KnownSessions, ShownIsTheForm
  <2>3. UNCHANGED ShownSession
    BY <1>8 DEF JsSubmit, ShownSession, ShownForms
  <2>4. CallOf(c) = "idle" /\ CallOf(c)' = "sent" /\ \A d \in Calls : CallOf(d) # "sent"
    BY <1>0, <1>8 DEF JsSubmit, CallOf, TypeOK
  <2>5. \A d \in Calls \ {c} : CallOf(d)' = CallOf(d)
    BY <1>0, <1>8 DEF JsSubmit, CallOf, TypeOK
  <2>6. calls' = [calls EXCEPT ![c] = "sent"]
    BY <2>4, <2>5
  <2>7. Form!Press(c)
    BY <2>1, <2>2, <2>3, <2>4, <2>6, NoneAssumption DEF Form!Press
  <2> QED
    BY <2>7 DEF Form!Next
<1>9. ASSUME NEW c \in Calls, UiSubmitFromJs(c), UNCHANGED <<js, jsSession, callSession>>
      PROVE  Goal
  BY <1>0, <1>9, CallSettles DEF UiSubmitFromJs, PromiseAfterSubmit
<1>10. ASSUME NEW c \in Calls, NmSubmit(c), UNCHANGED <<js, jsSession, callSession>>
       PROVE  Goal
  <2>1. PICK v : call' = [call EXCEPT ![c] = IF v = None THEN "rejected" ELSE "queued"]
    BY <1>10 DEF NmSubmit
  <2> QED
    BY <1>0, <1>10, <2>1, CallSettles DEF NmSubmit
<1> HIDE DEF Goal
<1>11. ASSUME JsCommit PROVE Goal
  BY <1>4, <1>5, <1>6, <1>11 DEF JsCommit
<1>12. ASSUME JsRun PROVE Goal
  BY <1>7, <1>8, <1>12 DEF JsRun
<1>13. ASSUME JsHandle PROVE Goal
  BY <1>3, <1>13 DEF JsHandle, JsDeliver, JsAnswer
<1>14. ASSUME UiStep PROVE Goal
  BY <1>3, <1>9, <1>14 DEF UiStep, UiMount, UiUpdate, UiCreateComponent, UiDrop, UiSdkSubmit
<1>15. ASSUME SdkStep PROVE Goal
  BY <1>3, <1>15 DEF SdkStep, jsVars
<1>16. ASSUME NmStep PROVE Goal
  BY <1>3, <1>10, <1>16 DEF NmStep, NmGetView, NmHandleResponse
<1>17. ASSUME UNCHANGED vars PROVE Goal
  BY <1>3, <1>17 DEF vars, jsVars
<1>18. Goal
  BY <1>11, <1>12, <1>13, <1>14, <1>15, <1>16, <1>17 DEF Next
<1> QED
  BY <1>18 DEF Goal

\* What the threads of the bridge and its JavaScript do together is, seen from
\* the screen, a use of the form that Sheet allows: the module that AppFlow,
\* the screen, is proved to implement as well.
THEOREM UsesTheSheetAsAssumed == Spec => UsesTheSheet
<1>1. Init => Form!Init
  BY DEF Init, Form!Init, ShownSession, ShownForms, CallOf
<1> QED
  BY <1>1, SheetStep, Invariance, PTL DEF Spec, UsesTheSheet, Form!Spec
=============================================================================
