----------------------- MODULE GooglePayBridge_proofs -----------------------
(***************************************************************************)
(* Theorems about GooglePayBridge, for any views, sessions and requests:   *)
(* types, that what is taken is resumed once, and, when no session is      *)
(* mounted twice, that the bridge implements SubmitRequest.                *)
(***************************************************************************)
EXTENDS GooglePayBridge, TLAPS

\* A step is one thread's, and leaves the other threads' variables alone.
JsFrame == UNCHANGED <<uiVars, registry, pending, sdkVars, mapsRace>>
UiFrame == UNCHANGED <<jsVars, pending, events, inbox, sdkVars, mapsRace>>
StartFrame ==
    UNCHANGED <<jsVars, uiVars, registry, pending, events, inbox, result, verdict, mapsRace>>
SdkFrame == UNCHANGED <<jsVars, uiVars, pressed, registry, inbox, mapsRace>>

LEMMA Steps ==
    ASSUME NEW P, [Next]_vars,
           JsFrame /\ JsRunEffects => P,
           \A v \in Views : JsFrame /\ JsClose(v) => P,
           \A v \in Views, s \in Sessions : JsFrame /\ JsOpen(v, s) => P,
           \A r \in Requests : JsFrame /\ JsDeliver(r) => P,
           \A r \in Requests, v \in Views, outcome \in Outcomes :
              JsFrame /\ JsAnswer(r, v, outcome) => P,
           \A v \in Views, b \in BOOLEAN : UiFrame /\ UiMount(v, b) => P,
           \A v \in Views, b \in BOOLEAN : UiFrame /\ UiUpdate(v, b) => P,
           \A v \in Views, b \in BOOLEAN : UiFrame /\ UiCreateComponent(v, b) => P,
           \A v \in Views : UiFrame /\ UiDrop(v) => P,
           \A v \in Views : StartFrame /\ SdkPress(v) => P,
           \A r \in Requests, v \in Views : StartFrame /\ SdkCallback(r, v) => P,
           \A r \in Requests : SdkFrame /\ SdkStore(r) => P,
           \A r \in Requests : SdkFrame /\ SdkEmit(r) => P,
           \A r \in Requests : SdkFrame /\ SdkReturn(r) => P,
           \A m \in inbox : UNCHANGED mapsRace /\ NmHandleResponse(m) => P,
           UNCHANGED vars => P
    PROVE  P
<1>1. CASE JsStep /\ UNCHANGED mapsRace
  <2>1. JsFrame
    BY <1>1 DEF JsStep, JsFrame
  <2> QED
    BY <1>1, <2>1, Zenon DEF JsStep
<1>2. CASE UiStep /\ UNCHANGED mapsRace
  <2>1. UiFrame
    BY <1>2 DEF UiStep, UiFrame
  <2> QED
    BY <1>2, <2>1, Zenon DEF UiStep
<1>3. CASE SdkStart /\ UNCHANGED mapsRace
  <2>1. StartFrame
    BY <1>3 DEF SdkStart, StartFrame
  <2> QED
    BY <1>3, <2>1, Zenon DEF SdkStart
<1>4. CASE SdkStep /\ UNCHANGED mapsRace
  <2>1. SdkFrame
    BY <1>4 DEF SdkStep, SdkFrame
  <2> QED
    BY <1>4, <2>1, Zenon DEF SdkStep
<1>5. CASE NmStep /\ UNCHANGED mapsRace
  BY <1>5, Zenon DEF NmStep
<1> QED
  BY <1>1, <1>2, <1>3, <1>4, <1>5, Zenon DEF Next
-----------------------------------------------------------------------------
\* A native view belongs to an instance that was mounted, has its session,
\* and is there for every press and callback of its component.
Mounted ==
    /\ \A v \in Views : js[v] # "absent" => jsSession[v] # None
    /\ \A v \in Views : native[v] # "none" => js[v] # "absent" /\ session[v] = jsSession[v]
    /\ \A v \in Views : hasInitialized[v] => native[v] # "none"
    /\ \A v \in pressed : native[v] # "none"
    /\ \A r \in Requests : pc[r] # "idle" => owner[r] # None
    /\ \A r \in Requests : owner[r] # None => native[owner[r]] # "none"

\* A component asks one thing at a time, and what waits has its continuation.
Active == {"called", "stored", "waiting"}

Continuations ==
    /\ \A v \in pressed, r \in Requests : owner[r] = v => pc[r] = "returned"
    /\ \A q, r \in Requests :
          owner[q] = owner[r] /\ pc[q] \in Active /\ pc[r] \in Active => q = r
    /\ \A v \in Views : pending[v] # None =>
          /\ owner[pending[v]] = v
          /\ pc[pending[v]] \in {"stored", "waiting"}
          /\ result[pending[v]] = None
    /\ \A r \in Requests : pc[r] \in {"stored", "waiting"} /\ result[r] = None =>
          pending[owner[r]] = r
    /\ \A r \in Requests : pc[r] \in {"idle", "called"} => result[r] = None

\* A request is POSTed by one listener at most, and answered after that.
Unposted(r) == \A v \in Views : post[r][v] = "none"

SinglePost ==
    \A r \in Requests : \A v, w \in Views :
        post[r][v] # "none" /\ post[r][w] # "none" => v = w

OneListener ==
    \A v, w \in Views : v # w =>
        /\ ~(js[v] \in Shown /\ js[w] \in Shown)
        /\ ~(js[v] \in Subscribed /\ js[w] \in Subscribed)

Posts ==
    /\ \A r \in events : pc[r] \in {"waiting", "returned"} /\ Unposted(r)
    /\ \A r \in Requests, v \in Views : post[r][v] # "none" => pc[r] \in {"waiting", "returned"}
    /\ \A m \in inbox : post[m.req][m.by] \in Outcomes
    /\ SinglePost
-----------------------------------------------------------------------------
\* initialize of a view that is shown.
LEMMA InitializeType ==
    ASSUME TypeOK, Mounted, NEW v \in Views, NEW b \in BOOLEAN, js[v] \in Shown,
           Initialize(v, b)
    PROVE  /\ hasInitialized' \in [Views -> BOOLEAN]
           /\ session' \in [Views -> Sessions \cup {None}]
           /\ component' \in [Views -> {"none", "creating", "ready", "failed"}]
           /\ registry' \in [Sessions -> Views \cup {None}]
<1>1. jsSession[v] \in Sessions
  BY DEF TypeOK, Mounted, Shown
<1>2. CASE hasInitialized[v]
  BY <1>2 DEF Initialize, TypeOK
<1>3. CASE ~hasInitialized[v]
  <2>1. /\ hasInitialized' = [hasInitialized EXCEPT ![v] = b]
        /\ session' = [session EXCEPT ![v] = jsSession[v]]
        /\ registry' = [registry EXCEPT ![jsSession[v]] = v]
        /\ component' = [component EXCEPT ![v] = "creating"] \/ component' = component
    BY <1>3 DEF Initialize, RegisterView
  <2> QED
    BY <1>1, <2>1 DEF TypeOK
<1> QED
  BY <1>2, <1>3

LEMMA TypeOKStep == TypeOK /\ Mounted /\ Posts /\ [Next]_vars => TypeOK'
<1> SUFFICES ASSUME TypeOK, Mounted, Posts, [Next]_vars
             PROVE  TypeOK'
  OBVIOUS
<1>1. ASSUME JsFrame, JsRunEffects PROVE TypeOK'
  BY <1>1 DEF JsFrame, JsRunEffects, TypeOK, uiVars, sdkVars
<1>2. ASSUME NEW v \in Views, JsFrame, JsClose(v) PROVE TypeOK'
  BY <1>2 DEF JsFrame, JsClose, TypeOK, uiVars, sdkVars
<1>3. ASSUME NEW v \in Views, NEW s \in Sessions, JsFrame, JsOpen(v, s) PROVE TypeOK'
  BY <1>3 DEF JsFrame, JsOpen, TypeOK, uiVars, sdkVars
<1>4. ASSUME NEW r \in Requests, JsFrame, JsDeliver(r) PROVE TypeOK'
  <2>1. [v \in Views |-> IF js[v] \in Subscribed THEN "posting" ELSE post[r][v]]
           \in [Views -> {"none", "posting"} \cup Outcomes]
    BY DEF TypeOK
  <2>2. post' \in [Requests -> [Views -> {"none", "posting"} \cup Outcomes]]
    BY <1>4, <2>1 DEF JsDeliver, TypeOK
  <2> QED
    BY <1>4, <2>2 DEF JsFrame, JsDeliver, TypeOK, uiVars, sdkVars
<1>5. ASSUME NEW r \in Requests, NEW v \in Views, NEW outcome \in Outcomes, JsFrame,
             JsAnswer(r, v, outcome)
      PROVE  TypeOK'
  <2>1. post' \in [Requests -> [Views -> {"none", "posting"} \cup Outcomes]]
    BY <1>5 DEF JsAnswer, TypeOK
  <2>2. owner[r] \in Views /\ native[owner[r]] # "none"
    <3>1. pc[r] # "idle"
      BY <1>5 DEF JsAnswer, Posts
    <3>2. owner[r] # None
      BY <3>1 DEF Mounted
    <3> QED
      BY <3>2 DEF Mounted, TypeOK
  <2>3. RequestId(r) \in Sessions
    BY <2>2 DEF RequestId, Mounted, TypeOK
  <2>4. [id |-> RequestId(r), req |-> r, by |-> v] \in Responses
    BY <2>3 DEF Responses
  <2> QED
    BY <1>5, <2>1, <2>4 DEF JsFrame, JsAnswer, TypeOK, uiVars, sdkVars
<1>6. ASSUME NEW v \in Views, NEW b \in BOOLEAN, UiFrame, UiMount(v, b) PROVE TypeOK'
  BY <1>6, InitializeType DEF UiFrame, UiMount, TypeOK, jsVars, sdkVars
<1>7. ASSUME NEW v \in Views, NEW b \in BOOLEAN, UiFrame, UiUpdate(v, b) PROVE TypeOK'
  BY <1>7, InitializeType DEF UiFrame, UiUpdate, TypeOK, jsVars, sdkVars
<1>8. ASSUME NEW v \in Views, NEW b \in BOOLEAN, UiFrame, UiCreateComponent(v, b) PROVE TypeOK'
  BY <1>8 DEF UiFrame, UiCreateComponent, TypeOK, jsVars, sdkVars
<1>9. ASSUME NEW v \in Views, UiFrame, UiDrop(v) PROVE TypeOK'
  BY <1>9 DEF UiFrame, UiDrop, RegistryAfterDrop, TypeOK, jsVars, sdkVars
<1>10. ASSUME NEW v \in Views, StartFrame, SdkPress(v) PROVE TypeOK'
  BY <1>10 DEF StartFrame, SdkPress, TypeOK, jsVars, uiVars
<1>11. ASSUME NEW r \in Requests, NEW v \in Views, StartFrame, SdkCallback(r, v) PROVE TypeOK'
  BY <1>11 DEF StartFrame, SdkCallback, TypeOK, jsVars, uiVars
<1>12. ASSUME NEW r \in Requests, SdkFrame, SdkStore(r) PROVE TypeOK'
  BY <1>12 DEF SdkFrame, SdkStore, TypeOK, jsVars, uiVars
<1>13. ASSUME NEW r \in Requests, SdkFrame, SdkEmit(r) PROVE TypeOK'
  BY <1>13 DEF SdkFrame, SdkEmit, TypeOK, jsVars, uiVars
<1>14. ASSUME NEW r \in Requests, SdkFrame, SdkReturn(r) PROVE TypeOK'
  BY <1>14 DEF SdkFrame, SdkReturn, ApiCallResult, TypeOK, jsVars, uiVars
<1>15. ASSUME NEW m \in inbox, UNCHANGED mapsRace, NmHandleResponse(m) PROVE TypeOK'
  <2>1. PICK visited \in Visits :
           LET takers == {v \in visited : Holds(v, m.id)}
           IN /\ pending' = [v \in Views |->
                                IF v \in takers THEN WithoutEntry(v) ELSE pending[v]]
              /\ result' = [r \in Requests |->
                                IF \E v \in takers : pending[v] = r
                                  THEN post[m.req][m.by] ELSE result[r]]
    BY <1>15 DEF NmHandleResponse
  <2>2. post[m.req][m.by] \in Outcomes
    BY DEF Posts
  <2>3. result' \in [Requests -> Outcomes \cup {None}]
    BY <2>1, <2>2 DEF TypeOK
  <2>4. pending' \in [Views -> Requests \cup {None}]
    BY <2>1 DEF TypeOK, WithoutEntry
  <2> QED
    BY <1>15, <2>3, <2>4 DEF NmHandleResponse, TypeOK, jsVars, uiVars
<1>16. ASSUME UNCHANGED vars PROVE TypeOK'
  BY <1>16 DEF vars, TypeOK, jsVars, uiVars, sdkVars
<1> QED
  BY <1>1, <1>2, <1>3, <1>4, <1>5, <1>6, <1>7, <1>8, <1>9, <1>10, <1>11, <1>12, <1>13, <1>14,
     <1>15, <1>16, Steps, Zenon
-----------------------------------------------------------------------------
LEMMA MountedStep == TypeOK /\ Mounted /\ [Next]_vars => Mounted'
<1> SUFFICES ASSUME TypeOK, Mounted, [Next]_vars
             PROVE  Mounted'
  OBVIOUS
<1>0. /\ js \in [Views -> {"absent", "rendered", "listening", "leaving", "gone"}]
      /\ jsSession \in [Views -> Sessions \cup {None}]
      /\ native \in [Views -> {"none", "live", "dropped"}]
      /\ hasInitialized \in [Views -> BOOLEAN]
      /\ session \in [Views -> Sessions \cup {None}]
      /\ pressed \in SUBSET Views
      /\ pc \in [Requests -> {"idle", "called", "stored", "waiting", "returned"}]
      /\ owner \in [Requests -> Views \cup {None}]
      /\ None \notin Views \cup Sessions
  BY NoneAssumption DEF TypeOK
<1> USE DEF Mounted
<1>q. ASSUME UNCHANGED <<js, jsSession, native, hasInitialized, session, pressed, pc, owner>>
      PROVE  Mounted'
  BY <1>q
<1>1. ASSUME JsFrame, JsRunEffects PROVE Mounted'
  BY <1>0, <1>1 DEF JsFrame, JsRunEffects, uiVars, sdkVars
<1>2. ASSUME NEW v \in Views, JsFrame, JsClose(v) PROVE Mounted'
  BY <1>0, <1>2 DEF JsFrame, JsClose, uiVars, sdkVars
<1>3. ASSUME NEW v \in Views, NEW s \in Sessions, JsFrame, JsOpen(v, s) PROVE Mounted'
  BY <1>0, <1>3 DEF JsFrame, JsOpen, uiVars, sdkVars
<1>4. ASSUME NEW r \in Requests, JsFrame, JsDeliver(r) PROVE Mounted'
  BY <1>q, <1>4 DEF JsFrame, JsDeliver, uiVars, sdkVars
<1>5. ASSUME NEW r \in Requests, NEW v \in Views, NEW outcome \in Outcomes, JsFrame,
             JsAnswer(r, v, outcome)
      PROVE  Mounted'
  BY <1>q, <1>5 DEF JsFrame, JsAnswer, uiVars, sdkVars
<1>i. ASSUME NEW v \in Views, NEW b \in BOOLEAN, UiFrame, js[v] \in Shown, Initialize(v, b),
             native' = [native EXCEPT ![v] = "live"]
      PROVE  Mounted'
  <2>1. js[v] # "absent" /\ UNCHANGED <<js, jsSession, pressed, pc, owner>>
    BY <1>i DEF UiFrame, jsVars, sdkVars, Shown
  <2>2. CASE hasInitialized[v]
    BY <1>0, <1>i, <2>1, <2>2 DEF Initialize
  <2>3. CASE ~hasInitialized[v]
    BY <1>0, <1>i, <2>1, <2>3 DEF Initialize
  <2> QED
    BY <2>2, <2>3
<1>6. ASSUME NEW v \in Views, NEW b \in BOOLEAN, UiFrame, UiMount(v, b) PROVE Mounted'
  BY <1>i, <1>6 DEF UiMount
<1>7. ASSUME NEW v \in Views, NEW b \in BOOLEAN, UiFrame, UiUpdate(v, b) PROVE Mounted'
  <2>1. native' = [native EXCEPT ![v] = "live"]
    BY <1>0, <1>7 DEF UiUpdate
  <2> QED
    BY <1>i, <1>7, <2>1 DEF UiUpdate
<1>8. ASSUME NEW v \in Views, NEW b \in BOOLEAN, UiFrame, UiCreateComponent(v, b) PROVE Mounted'
  BY <1>q, <1>8 DEF UiFrame, UiCreateComponent, jsVars, sdkVars
<1>9. ASSUME NEW v \in Views, UiFrame, UiDrop(v) PROVE Mounted'
  BY <1>0, <1>9 DEF UiFrame, UiDrop, jsVars, sdkVars
<1>10. ASSUME NEW v \in Views, StartFrame, SdkPress(v) PROVE Mounted'
  BY <1>0, <1>10 DEF StartFrame, SdkPress, jsVars, uiVars
<1>11. ASSUME NEW r \in Requests, NEW v \in Views, StartFrame, SdkCallback(r, v) PROVE Mounted'
  BY <1>0, <1>11 DEF StartFrame, SdkCallback, jsVars, uiVars
<1>12. ASSUME NEW r \in Requests, SdkFrame, SdkStore(r) PROVE Mounted'
  BY <1>0, <1>12 DEF SdkFrame, SdkStore, jsVars, uiVars
<1>13. ASSUME NEW r \in Requests, SdkFrame, SdkEmit(r) PROVE Mounted'
  BY <1>0, <1>13 DEF SdkFrame, SdkEmit, jsVars, uiVars
<1>14. ASSUME NEW r \in Requests, SdkFrame, SdkReturn(r) PROVE Mounted'
  BY <1>0, <1>14 DEF SdkFrame, SdkReturn, jsVars, uiVars
<1>15. ASSUME NEW m \in inbox, UNCHANGED mapsRace, NmHandleResponse(m) PROVE Mounted'
  BY <1>q, <1>15 DEF NmHandleResponse, jsVars, uiVars
<1>16. ASSUME UNCHANGED vars PROVE Mounted'
  BY <1>q, <1>16 DEF vars, jsVars, uiVars, sdkVars
<1> QED
  BY <1>1, <1>2, <1>3, <1>4, <1>5, <1>6, <1>7, <1>8, <1>9, <1>10, <1>11, <1>12, <1>13, <1>14,
     <1>15, <1>16, Steps, Zenon

LEMMA OneListenerStep == TypeOK /\ OneListener /\ [Next]_vars => OneListener'
<1> SUFFICES ASSUME TypeOK, OneListener, [Next]_vars
             PROVE  OneListener'
  OBVIOUS
<1>0. js \in [Views -> {"absent", "rendered", "listening", "leaving", "gone"}]
  BY DEF TypeOK
<1>q. ASSUME UNCHANGED js PROVE OneListener'
  BY <1>q DEF OneListener
<1>1. ASSUME JsFrame, JsRunEffects PROVE OneListener'
  BY <1>0, <1>1 DEF JsRunEffects, OneListener, Shown, Subscribed
<1>2. ASSUME NEW v \in Views, JsFrame, JsClose(v) PROVE OneListener'
  BY <1>0, <1>2 DEF JsClose, EffectsRun, OneListener, Shown, Subscribed
<1>3. ASSUME NEW v \in Views, NEW s \in Sessions, JsFrame, JsOpen(v, s) PROVE OneListener'
  BY <1>0, <1>3 DEF JsOpen, EffectsRun, OneListener, Shown, Subscribed
<1>4. ASSUME NEW r \in Requests, JsFrame, JsDeliver(r) PROVE OneListener'
  BY <1>q, <1>4 DEF JsDeliver
<1>5. ASSUME NEW r \in Requests, NEW v \in Views, NEW outcome \in Outcomes, JsFrame,
             JsAnswer(r, v, outcome)
      PROVE  OneListener'
  BY <1>q, <1>5 DEF JsAnswer
<1>6. ASSUME UiFrame \/ StartFrame \/ SdkFrame PROVE OneListener'
  BY <1>q, <1>6 DEF UiFrame, StartFrame, SdkFrame, jsVars
<1>7. ASSUME NEW m \in inbox, UNCHANGED mapsRace, NmHandleResponse(m) PROVE OneListener'
  BY <1>q, <1>7 DEF NmHandleResponse, jsVars
<1>8. ASSUME UNCHANGED vars PROVE OneListener'
  BY <1>q, <1>8 DEF vars, jsVars
<1> QED
  BY <1>1, <1>2, <1>3, <1>4, <1>5, <1>6, <1>7, <1>8, Steps, Zenon
-----------------------------------------------------------------------------
\* The answer that is handed out: who takes it, and what becomes of them.
LEMMA Handled ==
    ASSUME TypeOK, Posts, NEW m \in inbox, NmHandleResponse(m)
    PROVE  \E takers \in SUBSET Views :
              /\ \A v \in takers : pending[v] # None /\ session[v] = m.id
              /\ \A v \in Views : pending'[v] = IF v \in takers THEN None ELSE pending[v]
              /\ \A r \in Requests :
                    \/ /\ \E v \in takers : pending[v] = r
                       /\ result'[r] = post[m.req][m.by]
                    \/ /\ \A v \in takers : pending[v] # r
                       /\ result'[r] = result[r]
              /\ post[m.req][m.by] \in Outcomes
              /\ UNCHANGED <<jsVars, uiVars, pressed, registry, events, pc, owner, verdict>>
              /\ inbox' = inbox \ {m}
<1>1. PICK visited \in Visits :
         LET takers == {v \in visited : Holds(v, m.id)}
         IN /\ pending' = [v \in Views |->
                              IF v \in takers THEN WithoutEntry(v) ELSE pending[v]]
            /\ result' = [r \in Requests |->
                              IF \E v \in takers : pending[v] = r
                                THEN post[m.req][m.by] ELSE result[r]]
  BY DEF NmHandleResponse
<1>2. visited \subseteq Views
  BY DEF Visits, Registered
<1> DEFINE takers == {v \in visited : Holds(v, m.id)}
<1>3. \A v \in Views : pending'[v] = IF v \in takers THEN None ELSE pending[v]
  BY <1>1 DEF WithoutEntry
<1>4. \A r \in Requests : result'[r] = IF \E v \in takers : pending[v] = r
                                         THEN post[m.req][m.by] ELSE result[r]
  BY <1>1
<1>5. takers \in SUBSET Views /\ \A v \in takers : pending[v] # None /\ session[v] = m.id
  BY <1>2 DEF Holds
<1> HIDE DEF takers
<1>6. post[m.req][m.by] \in Outcomes
  BY DEF Posts
<1>7. /\ UNCHANGED <<jsVars, uiVars, pressed, registry, events, pc, owner, verdict>>
      /\ inbox' = inbox \ {m}
  BY DEF NmHandleResponse
<1> QED
  BY <1>3, <1>4, <1>5, <1>6, <1>7

LEMMA ContinuationsStep ==
    TypeOK /\ Mounted /\ Posts /\ Continuations /\ [Next]_vars => Continuations'
<1> SUFFICES ASSUME TypeOK, Mounted, Posts, Continuations, [Next]_vars
             PROVE  Continuations'
  OBVIOUS
<1>0. /\ pressed \in SUBSET Views
      /\ pc \in [Requests -> {"idle", "called", "stored", "waiting", "returned"}]
      /\ owner \in [Requests -> Views \cup {None}]
      /\ pending \in [Views -> Requests \cup {None}]
      /\ result \in [Requests -> Outcomes \cup {None}]
      /\ None \notin Views \cup Requests \cup Outcomes
  BY NoneAssumption DEF TypeOK
<1>q. ASSUME UNCHANGED <<pressed, pc, owner, pending, result>> PROVE Continuations'
  BY <1>q DEF Continuations
<1>1. ASSUME JsFrame PROVE Continuations'
  BY <1>q, <1>1 DEF JsFrame, sdkVars
<1>2. ASSUME UiFrame PROVE Continuations'
  BY <1>q, <1>2 DEF UiFrame, sdkVars
<1>3. ASSUME NEW v \in Views, StartFrame, SdkPress(v) PROVE Continuations'
  BY <1>0, <1>3 DEF StartFrame, SdkPress, Continuations
<1>4. ASSUME NEW r \in Requests, NEW v \in Views, StartFrame, SdkCallback(r, v)
      PROVE  Continuations'
  <2>1. /\ v \in pressed /\ pressed' = pressed \ {v}
        /\ pc[r] = "idle" /\ pc'[r] = "called" /\ owner'[r] = v
        /\ \A q \in Requests \ {r} : pc'[q] = pc[q] /\ owner'[q] = owner[q]
        /\ UNCHANGED <<pending, result>>
    BY <1>0, <1>4 DEF StartFrame, SdkCallback
  <2>2. \A w \in pressed', q \in Requests : owner'[q] = w => pc'[q] = "returned"
    BY <2>1 DEF Continuations
  <2>3. \A p, q \in Requests :
          owner'[p] = owner'[q] /\ pc'[p] \in Active /\ pc'[q] \in Active => p = q
    BY <2>1 DEF Continuations, Active
  <2>4. \A w \in Views : pending'[w] # None =>
          /\ owner'[pending'[w]] = w
          /\ pc'[pending'[w]] \in {"stored", "waiting"}
          /\ result'[pending'[w]] = None
    BY <1>0, <2>1 DEF Continuations
  <2>5. /\ \A q \in Requests : pc'[q] \in {"stored", "waiting"} /\ result'[q] = None =>
              pending'[owner'[q]] = q
        /\ \A q \in Requests : pc'[q] \in {"idle", "called"} => result'[q] = None
    BY <2>1 DEF Continuations
  <2> QED
    BY <2>2, <2>3, <2>4, <2>5 DEF Continuations
<1>5. ASSUME NEW r \in Requests, SdkFrame, SdkStore(r) PROVE Continuations'
  <2>1. /\ pc[r] = "called" /\ pc'[r] = "stored" /\ owner[r] \in Views /\ result[r] = None
        /\ pending'[owner[r]] = r
        /\ \A q \in Requests \ {r} : pc'[q] = pc[q]
        /\ \A w \in Views \ {owner[r]} : pending'[w] = pending[w]
        /\ UNCHANGED <<pressed, owner, result>>
    BY <1>0, <1>5 DEF SdkFrame, SdkStore, Mounted, Continuations
  <2>2. \A w \in pressed', q \in Requests : owner'[q] = w => pc'[q] = "returned"
    BY <2>1 DEF Continuations
  <2>3. \A p, q \in Requests :
          owner'[p] = owner'[q] /\ pc'[p] \in Active /\ pc'[q] \in Active => p = q
    BY <2>1 DEF Continuations, Active
  <2>4. \A w \in Views : pending'[w] # None =>
          /\ owner'[pending'[w]] = w
          /\ pc'[pending'[w]] \in {"stored", "waiting"}
          /\ result'[pending'[w]] = None
    BY <1>0, <2>1 DEF Continuations
  <2>5. \A q \in Requests : pc'[q] \in {"stored", "waiting"} /\ result'[q] = None =>
              pending'[owner'[q]] = q
    <3> SUFFICES ASSUME NEW q \in Requests, q # r, pc[q] \in {"stored", "waiting"},
                        result[q] = None
                 PROVE  pending'[owner[q]] = q
      BY <2>1
    <3>1. owner[q] # owner[r] /\ owner[q] \in Views
      BY <1>0, <2>1 DEF Continuations, Active, Mounted
    <3> QED
      BY <2>1, <3>1 DEF Continuations
  <2>6. \A q \in Requests : pc'[q] \in {"idle", "called"} => result'[q] = None
    BY <2>1 DEF Continuations
  <2> QED
    BY <2>2, <2>3, <2>4, <2>5, <2>6 DEF Continuations
<1>6. ASSUME NEW r \in Requests, SdkFrame, SdkEmit(r) PROVE Continuations'
  BY <1>0, <1>6 DEF SdkFrame, SdkEmit, Continuations, Active
<1>7. ASSUME NEW r \in Requests, SdkFrame, SdkReturn(r) PROVE Continuations'
  BY <1>0, <1>7 DEF SdkFrame, SdkReturn, Continuations, Active
<1>8. ASSUME NEW m \in inbox, UNCHANGED mapsRace, NmHandleResponse(m) PROVE Continuations'
  <2>1. PICK takers \in SUBSET Views :
              /\ \A v \in takers : pending[v] # None /\ session[v] = m.id
              /\ \A v \in Views : pending'[v] = IF v \in takers THEN None ELSE pending[v]
              /\ \A r \in Requests :
                    \/ /\ \E v \in takers : pending[v] = r
                       /\ result'[r] = post[m.req][m.by]
                    \/ /\ \A v \in takers : pending[v] # r
                       /\ result'[r] = result[r]
              /\ post[m.req][m.by] \in Outcomes
              /\ UNCHANGED <<pressed, pc, owner>>
    BY <1>8, Handled
  <2>2. \A w \in pressed', q \in Requests : owner'[q] = w => pc'[q] = "returned"
    BY <2>1 DEF Continuations
  <2>3. \A p, q \in Requests :
          owner'[p] = owner'[q] /\ pc'[p] \in Active /\ pc'[q] \in Active => p = q
    BY <2>1 DEF Continuations
  <2>4. \A w \in Views : pending'[w] # None =>
          /\ owner'[pending'[w]] = w
          /\ pc'[pending'[w]] \in {"stored", "waiting"}
          /\ result'[pending'[w]] = None
    <3> SUFFICES ASSUME NEW w \in Views, pending'[w] # None
                 PROVE  /\ owner[pending[w]] = w
                        /\ pc[pending[w]] \in {"stored", "waiting"}
                        /\ result'[pending[w]] = None
      BY <2>1
    <3>1. w \notin takers /\ pending[w] \in Requests
      BY <1>0, <2>1
    <3>2. /\ owner[pending[w]] = w /\ pc[pending[w]] \in {"stored", "waiting"}
          /\ result[pending[w]] = None
      BY <1>0, <3>1 DEF Continuations
    <3>3. \A v \in takers : pending[v] # pending[w]
      BY <2>1, <3>1, <3>2 DEF Continuations
    <3> QED
      BY <2>1, <3>1, <3>2, <3>3
  <2>5. \A q \in Requests : pc'[q] \in {"stored", "waiting"} /\ result'[q] = None =>
              pending'[owner'[q]] = q
    <3> SUFFICES ASSUME NEW q \in Requests, pc[q] \in {"stored", "waiting"}, result'[q] = None
                 PROVE  pending'[owner[q]] = q
      BY <2>1
    <3>1. result[q] = None /\ \A v \in takers : pending[v] # q
      BY <1>0, <2>1
    <3>2. owner[q] \in Views /\ pending[owner[q]] = q
      BY <1>0, <3>1 DEF Continuations, Mounted
    <3> QED
      BY <2>1, <3>1, <3>2
  <2>6. \A q \in Requests : pc'[q] \in {"idle", "called"} => result'[q] = None
    BY <2>1 DEF Continuations
  <2> QED
    BY <2>2, <2>3, <2>4, <2>5, <2>6 DEF Continuations
<1>9. ASSUME UNCHANGED vars PROVE Continuations'
  BY <1>q, <1>9 DEF vars, sdkVars
<1> QED
  BY <1>1, <1>2, <1>3, <1>4, <1>5, <1>6, <1>7, <1>8, <1>9, Steps, Zenon
-----------------------------------------------------------------------------
LEMMA PostsStep == TypeOK /\ OneListener /\ Posts /\ [Next]_vars => Posts'
<1> SUFFICES ASSUME TypeOK, OneListener, Posts, [Next]_vars
             PROVE  Posts'
  OBVIOUS
<1>0. /\ post \in [Requests -> [Views -> {"none", "posting"} \cup Outcomes]]
      /\ pc \in [Requests -> {"idle", "called", "stored", "waiting", "returned"}]
      /\ events \in SUBSET Requests
      /\ inbox \in SUBSET Responses
  BY DEF TypeOK
<1>q. ASSUME UNCHANGED <<post, pc, events>>, inbox' \subseteq inbox PROVE Posts'
  BY <1>q DEF Posts, Unposted, SinglePost
<1>1. ASSUME JsFrame, JsRunEffects PROVE Posts'
  BY <1>q, <1>1 DEF JsFrame, JsRunEffects, sdkVars
<1>2. ASSUME NEW v \in Views, JsFrame, JsClose(v) PROVE Posts'
  BY <1>q, <1>2 DEF JsFrame, JsClose, sdkVars
<1>3. ASSUME NEW v \in Views, NEW s \in Sessions, JsFrame, JsOpen(v, s) PROVE Posts'
  BY <1>q, <1>3 DEF JsFrame, JsOpen, sdkVars
<1>4. ASSUME NEW r \in Requests, JsFrame, JsDeliver(r) PROVE Posts'
  <2>1. /\ r \in events /\ events' = events \ {r}
        /\ \A v \in Views :
              post'[r][v] = IF js[v] \in Subscribed THEN "posting" ELSE post[r][v]
        /\ \A q \in Requests \ {r} : post'[q] = post[q]
        /\ UNCHANGED <<inbox, pc>>
    BY <1>0, <1>4 DEF JsFrame, JsDeliver, sdkVars
  <2>2. pc[r] \in {"waiting", "returned"} /\ Unposted(r)
    BY <2>1 DEF Posts
  <2>3. \A q \in events' : pc'[q] \in {"waiting", "returned"} /\ Unposted(q)'
    BY <1>0, <2>1 DEF Posts, Unposted
  <2>4. \A q \in Requests, v \in Views :
           post'[q][v] # "none" => pc'[q] \in {"waiting", "returned"}
    BY <2>1, <2>2 DEF Posts
  <2>5. \A m \in inbox' : post'[m.req][m.by] \in Outcomes
    <3> SUFFICES ASSUME NEW m \in inbox
                 PROVE  post'[m.req][m.by] \in Outcomes
      BY <2>1
    <3>1. m.req \in Requests /\ m.by \in Views /\ post[m.req][m.by] \in Outcomes
      BY <1>0 DEF Posts, Responses
    <3>2. m.req # r
      BY <2>2, <3>1 DEF Unposted, Outcomes
    <3> QED
      BY <2>1, <3>1, <3>2
  <2>6. SinglePost'
    <3>1. \A v \in Views : post'[r][v] # "none" => js[v] \in Subscribed
      BY <2>1, <2>2 DEF Unposted
    <3> QED
      BY <2>1, <3>1 DEF Posts, SinglePost, OneListener
  <2> QED
    BY <2>3, <2>4, <2>5, <2>6 DEF Posts
<1>5. ASSUME NEW r \in Requests, NEW v \in Views, NEW outcome \in Outcomes, JsFrame,
             JsAnswer(r, v, outcome)
      PROVE  Posts'
  <2>1. /\ post[r][v] = "posting" /\ post'[r][v] = outcome
        /\ \A q \in Requests, w \in Views : q # r \/ w # v => post'[q][w] = post[q][w]
        /\ inbox' = inbox \cup {[id |-> RequestId(r), req |-> r, by |-> v]}
        /\ UNCHANGED <<events, pc>>
    BY <1>0, <1>5 DEF JsFrame, JsAnswer, sdkVars
  <2>2. \A q \in events' : pc'[q] \in {"waiting", "returned"} /\ Unposted(q)'
    BY <1>0, <2>1 DEF Posts, Unposted
  <2>3. \A q \in Requests, w \in Views :
           post'[q][w] # "none" => pc'[q] \in {"waiting", "returned"}
    BY <2>1 DEF Posts
  <2>4. \A m \in inbox' : post'[m.req][m.by] \in Outcomes
    BY <1>0, <2>1 DEF Posts, Responses
  <2>5. SinglePost'
    BY <2>1 DEF Posts, SinglePost
  <2> QED
    BY <2>2, <2>3, <2>4, <2>5 DEF Posts
<1>6. ASSUME UiFrame PROVE Posts'
  BY <1>q, <1>6 DEF UiFrame, jsVars, sdkVars
<1>7. ASSUME NEW v \in Views, StartFrame, SdkPress(v) PROVE Posts'
  BY <1>q, <1>7 DEF StartFrame, SdkPress, jsVars
<1>8. ASSUME NEW r \in Requests, NEW v \in Views, StartFrame, SdkCallback(r, v) PROVE Posts'
  BY <1>0, <1>8 DEF StartFrame, SdkCallback, jsVars, Posts, Unposted, SinglePost
<1>9. ASSUME NEW r \in Requests, SdkFrame, SdkStore(r) PROVE Posts'
  BY <1>0, <1>9 DEF SdkFrame, SdkStore, jsVars, Posts, Unposted, SinglePost
<1>10. ASSUME NEW r \in Requests, SdkFrame, SdkEmit(r) PROVE Posts'
  BY <1>0, <1>10 DEF SdkFrame, SdkEmit, jsVars, Posts, Unposted, SinglePost
<1>11. ASSUME NEW r \in Requests, SdkFrame, SdkReturn(r) PROVE Posts'
  BY <1>0, <1>11 DEF SdkFrame, SdkReturn, jsVars, Posts, Unposted, SinglePost
<1>12. ASSUME NEW m \in inbox, UNCHANGED mapsRace, NmHandleResponse(m) PROVE Posts'
  BY <1>q, <1>12 DEF NmHandleResponse, jsVars
<1>13. ASSUME UNCHANGED vars PROVE Posts'
  BY <1>q, <1>13 DEF vars, jsVars, sdkVars
<1> QED
  BY <1>1, <1>2, <1>3, <1>4, <1>5, <1>6, <1>7, <1>8, <1>9, <1>10, <1>11, <1>12, <1>13, Steps,
     Zenon
-----------------------------------------------------------------------------
\* The inductive invariant.
IInv ==
    /\ TypeOK
    /\ Mounted
    /\ OneListener
    /\ Continuations
    /\ Posts

LEMMA IInvInit == Init => IInv
<1> SUFFICES ASSUME Init PROVE IInv
  OBVIOUS
<1>1. TypeOK
  BY DEF Init, TypeOK
<1>2. Mounted /\ OneListener
  BY DEF Init, Mounted, OneListener, Shown, Subscribed
<1>3. Continuations
  BY DEF Init, Continuations, Active
<1>4. Posts
  BY DEF Init, Posts, SinglePost
<1> QED
  BY <1>1, <1>2, <1>3, <1>4 DEF IInv

LEMMA IInvStep == IInv /\ [Next]_vars => IInv'
BY TypeOKStep, MountedStep, OneListenerStep, ContinuationsStep, PostsStep, Zenon DEF IInv

\* Every reachable state satisfies the inductive invariant.
THEOREM Invariance == Spec => []IInv
BY IInvInit, IInvStep, PTL DEF Spec

\* The variables of GooglePayBridge keep their types: an answer finds the
\* session of its request, and a continuation is resumed with an outcome.
THEOREM TypeCorrect == Spec => []TypeOK
<1>1. IInv => TypeOK
  BY DEF IInv
<1> QED
  BY <1>1, Invariance, PTL

\* A continuation taken out of pendingContinuations is resumed in that step,
\* once, and none is overwritten (GooglePayView.kt), though views of the same
\* session are all offered the answer.
THEOREM TakenOnce == Spec => TakenIsResumed
<1>1. IInv /\ [Next]_vars => ResumesWhatItTakes
  <2> SUFFICES ASSUME IInv, [Next]_vars
               PROVE  ResumesWhatItTakes
    OBVIOUS
  <2>0. /\ pc \in [Requests -> {"idle", "called", "stored", "waiting", "returned"}]
        /\ owner \in [Requests -> Views \cup {None}]
        /\ pending \in [Views -> Requests \cup {None}]
        /\ result \in [Requests -> Outcomes \cup {None}]
        /\ None \notin Views \cup Requests \cup Outcomes
        /\ Continuations /\ Mounted
        /\ TypeOK /\ Posts
    BY NoneAssumption DEF IInv, TypeOK
  <2>q. ASSUME UNCHANGED <<pending, result>> PROVE ResumesWhatItTakes
    BY <2>q DEF ResumesWhatItTakes
  <2>1. ASSUME NEW r \in Requests, SdkFrame, SdkStore(r) PROVE ResumesWhatItTakes
    <3>1. /\ pc[r] = "called" /\ owner[r] \in Views /\ UNCHANGED result
          /\ pending' = [pending EXCEPT ![owner[r]] = r]
      BY <2>0, <2>1 DEF SdkStore, Mounted
    <3>2. pending[owner[r]] = None
      BY <2>0, <3>1 DEF Continuations, Active
    <3> QED
      BY <2>0, <3>1, <3>2 DEF ResumesWhatItTakes
  <2>2. ASSUME NEW m \in inbox, UNCHANGED mapsRace, NmHandleResponse(m)
        PROVE  ResumesWhatItTakes
    <3>1. PICK takers \in SUBSET Views :
                /\ \A v \in takers : pending[v] # None
                /\ \A v \in Views : pending'[v] = IF v \in takers THEN None ELSE pending[v]
                /\ \A r \in Requests :
                      \/ /\ \E v \in takers : pending[v] = r
                         /\ result'[r] = post[m.req][m.by]
                      \/ /\ \A v \in takers : pending[v] # r
                         /\ result'[r] = result[r]
                /\ post[m.req][m.by] \in Outcomes
      BY <2>0, <2>2, Handled
    <3>2. \A r \in Requests :
             (\E v \in Views : pending[v] = r /\ pending'[v] # r) => result'[r] # None
      BY <2>0, <3>1
    <3>3. \A r \in Requests : result[r] # None => result'[r] = result[r]
      BY <2>0, <3>1 DEF Continuations
    <3>4. \A r \in Requests :
             result[r] = None /\ result'[r] # None => \A v \in Views : pending'[v] # r
      BY <2>0, <3>1 DEF Continuations
    <3> QED
      BY <3>2, <3>3, <3>4 DEF ResumesWhatItTakes
  <2>3. ASSUME JsFrame \/ UiFrame \/ StartFrame PROVE ResumesWhatItTakes
    BY <2>q, <2>3 DEF JsFrame, UiFrame, StartFrame, sdkVars
  <2>4. ASSUME NEW r \in Requests, SdkFrame, SdkEmit(r) \/ SdkReturn(r) PROVE ResumesWhatItTakes
    BY <2>q, <2>4 DEF SdkEmit, SdkReturn
  <2>5. ASSUME UNCHANGED vars PROVE ResumesWhatItTakes
    BY <2>q, <2>5 DEF vars, sdkVars
  <2> HIDE DEF ResumesWhatItTakes
  <2> QED
    BY <2>1, <2>2, <2>3, <2>4, <2>5, Steps, Zenon
<1> QED
  BY <1>1, Invariance, PTL DEF Spec, TakenIsResumed
-----------------------------------------------------------------------------
(***************************************************************************)
(* An answer names the session of its request only.  While no session is   *)
(* mounted twice that is one view, whose one request it is.                *)
(***************************************************************************)
OneMount == \A v, w \in Views : jsSession[v] = jsSession[w] /\ jsSession[v] # None => v = w

Matching ==
    /\ \A r \in events : pc[r] = "waiting" /\ result[r] = None
    /\ \A r \in Requests, v \in Views :
          post[r][v] = "posting" => pc[r] = "waiting" /\ result[r] = None
    /\ \A m \in inbox :
          m.id = session[owner[m.req]] /\ pc[m.req] = "waiting" /\ result[m.req] = None
    /\ \A r \in Requests : result[r] # None => \E v \in Views : result[r] = post[r][v]

LEMMA OneMountStep == ~RemountsSession /\ TypeOK /\ OneMount /\ [Next]_vars => OneMount'
<1> SUFFICES ASSUME ~RemountsSession, TypeOK, OneMount, [Next]_vars
             PROVE  OneMount'
  OBVIOUS
<1>0. jsSession \in [Views -> Sessions \cup {None}]
  BY DEF TypeOK
<1>q. ASSUME UNCHANGED jsSession PROVE OneMount'
  BY <1>q DEF OneMount
<1>1. ASSUME NEW v \in Views, NEW s \in Sessions, JsFrame, JsOpen(v, s) PROVE OneMount'
  BY <1>0, <1>1 DEF JsOpen, Mountable, OneMount
<1>2. ASSUME JsFrame, JsRunEffects PROVE OneMount'
  BY <1>q, <1>2 DEF JsRunEffects
<1>3. ASSUME NEW v \in Views, JsFrame, JsClose(v) PROVE OneMount'
  BY <1>q, <1>3 DEF JsClose
<1>4. ASSUME NEW r \in Requests, JsFrame, JsDeliver(r) PROVE OneMount'
  BY <1>q, <1>4 DEF JsDeliver
<1>5. ASSUME NEW r \in Requests, NEW v \in Views, NEW outcome \in Outcomes, JsFrame,
             JsAnswer(r, v, outcome)
      PROVE  OneMount'
  BY <1>q, <1>5 DEF JsAnswer
<1>6. ASSUME UiFrame \/ StartFrame \/ SdkFrame PROVE OneMount'
  BY <1>q, <1>6 DEF UiFrame, StartFrame, SdkFrame, jsVars
<1>7. ASSUME NEW m \in inbox, UNCHANGED mapsRace, NmHandleResponse(m) PROVE OneMount'
  BY <1>q, <1>7 DEF NmHandleResponse, jsVars
<1>8. ASSUME UNCHANGED vars PROVE OneMount'
  BY <1>q, <1>8 DEF vars, jsVars
<1> QED
  BY <1>1, <1>2, <1>3, <1>4, <1>5, <1>6, <1>7, <1>8, Steps, Zenon

\* A session, once stored, stays that of the view.
LEMMA SessionStays ==
    ASSUME TypeOK, Mounted, NEW v \in Views, NEW b \in BOOLEAN, UiFrame,
           UiMount(v, b) \/ UiUpdate(v, b)
    PROVE  \A w \in Views : native[w] # "none" => session'[w] = session[w]
<1>1. UNCHANGED session \/ session' = [session EXCEPT ![v] = jsSession[v]]
  BY DEF UiMount, UiUpdate, Initialize
<1> QED
  BY <1>1 DEF TypeOK, Mounted

LEMMA MatchingStep == IInv /\ OneMount /\ Matching /\ [Next]_vars => Matching'
<1> SUFFICES ASSUME IInv, OneMount, Matching, [Next]_vars
             PROVE  Matching'
  OBVIOUS
<1>0. /\ post \in [Requests -> [Views -> {"none", "posting"} \cup Outcomes]]
      /\ pc \in [Requests -> {"idle", "called", "stored", "waiting", "returned"}]
      /\ owner \in [Requests -> Views \cup {None}]
      /\ result \in [Requests -> Outcomes \cup {None}]
      /\ events \in SUBSET Requests
      /\ inbox \in SUBSET Responses
      /\ TypeOK /\ Mounted /\ Posts /\ Continuations
      /\ None \notin Outcomes
  BY NoneAssumption DEF IInv, TypeOK
<1>a. \A m \in inbox : /\ m.req \in Requests /\ m.by \in Views
                       /\ m.id \in Sessions
                       /\ m = [id |-> m.id, req |-> m.req, by |-> m.by]
                       /\ owner[m.req] \in Views /\ native[owner[m.req]] # "none"
  BY <1>0 DEF Responses, Matching, Mounted
<1>q. ASSUME UNCHANGED <<post, pc, owner, result, events, inbox>>,
             \A w \in Views : native[w] # "none" => session'[w] = session[w]
      PROVE  Matching'
  BY <1>a, <1>q DEF Matching
<1>1. ASSUME JsFrame, JsRunEffects PROVE Matching'
  BY <1>q, <1>1 DEF JsFrame, JsRunEffects, uiVars, sdkVars
<1>2. ASSUME NEW v \in Views, JsFrame, JsClose(v) PROVE Matching'
  BY <1>q, <1>2 DEF JsFrame, JsClose, uiVars, sdkVars
<1>3. ASSUME NEW v \in Views, NEW s \in Sessions, JsFrame, JsOpen(v, s) PROVE Matching'
  BY <1>q, <1>3 DEF JsFrame, JsOpen, uiVars, sdkVars
<1>4. ASSUME NEW r \in Requests, JsFrame, JsDeliver(r) PROVE Matching'
  <2>1. /\ r \in events /\ events' = events \ {r}
        /\ \A q \in Requests \ {r} : post'[q] = post[q]
        /\ UNCHANGED <<inbox, pc, owner, result, session>>
    BY <1>0, <1>4 DEF JsFrame, JsDeliver, uiVars, sdkVars
  <2>2. pc[r] = "waiting" /\ result[r] = None
    BY <2>1 DEF Matching
  <2> QED
    BY <2>1, <2>2 DEF Matching
<1>5. ASSUME NEW r \in Requests, NEW v \in Views, NEW outcome \in Outcomes, JsFrame,
             JsAnswer(r, v, outcome)
      PROVE  Matching'
  <2>1. /\ post[r][v] = "posting" /\ post'[r][v] = outcome
        /\ \A q \in Requests, w \in Views : q # r \/ w # v => post'[q][w] = post[q][w]
        /\ inbox' = inbox \cup {[id |-> session[owner[r]], req |-> r, by |-> v]}
        /\ UNCHANGED <<events, pc, owner, result, session>>
    BY <1>0, <1>5 DEF JsFrame, JsAnswer, RequestId, uiVars, sdkVars
  <2>2. pc[r] = "waiting" /\ result[r] = None
    BY <2>1 DEF Matching
  <2>3. \A q \in Requests, w \in Views :
           post'[q][w] = "posting" => pc'[q] = "waiting" /\ result'[q] = None
    BY <2>1, <2>2 DEF Matching
  <2>4. \A m \in inbox' :
           m.id = session'[owner'[m.req]] /\ pc'[m.req] = "waiting" /\ result'[m.req] = None
    BY <2>1, <2>2 DEF Matching
  <2>5. \A q \in Requests : result'[q] # None => \E w \in Views : result'[q] = post'[q][w]
    BY <2>1, <2>2 DEF Matching
  <2> QED
    BY <2>1, <2>3, <2>4, <2>5 DEF Matching
<1>6. ASSUME NEW v \in Views, NEW b \in BOOLEAN, UiFrame, UiMount(v, b) PROVE Matching'
  BY <1>0, <1>q, <1>6, SessionStays DEF UiFrame, jsVars, sdkVars
<1>7. ASSUME NEW v \in Views, NEW b \in BOOLEAN, UiFrame, UiUpdate(v, b) PROVE Matching'
  BY <1>0, <1>q, <1>7, SessionStays DEF UiFrame, jsVars, sdkVars
<1>8. ASSUME NEW v \in Views, NEW b \in BOOLEAN, UiFrame, UiCreateComponent(v, b)
      PROVE  Matching'
  BY <1>q, <1>8 DEF UiFrame, UiCreateComponent, jsVars, sdkVars
<1>9. ASSUME NEW v \in Views, UiFrame, UiDrop(v) PROVE Matching'
  BY <1>q, <1>9 DEF UiFrame, UiDrop, jsVars, sdkVars
<1>10. ASSUME NEW v \in Views, StartFrame, SdkPress(v) PROVE Matching'
  BY <1>q, <1>10 DEF StartFrame, SdkPress, jsVars, uiVars
<1>11. ASSUME NEW r \in Requests, NEW v \in Views, StartFrame, SdkCallback(r, v) PROVE Matching'
  <2>1. /\ pc[r] = "idle"
        /\ \A q \in Requests \ {r} : pc'[q] = pc[q] /\ owner'[q] = owner[q]
        /\ UNCHANGED <<post, events, inbox, result, session>>
    BY <1>0, <1>11 DEF StartFrame, SdkCallback, jsVars, uiVars
  <2> QED
    BY <1>0, <1>a, <2>1 DEF Matching
<1>12. ASSUME NEW r \in Requests, SdkFrame, SdkStore(r) PROVE Matching'
  <2>1. /\ pc[r] = "called"
        /\ \A q \in Requests \ {r} : pc'[q] = pc[q]
        /\ UNCHANGED <<post, events, inbox, owner, result, session>>
    BY <1>0, <1>12 DEF SdkFrame, SdkStore, jsVars, uiVars
  <2> QED
    BY <1>0, <1>a, <2>1 DEF Matching
<1>13. ASSUME NEW r \in Requests, SdkFrame, SdkEmit(r) PROVE Matching'
  <2>1. /\ pc[r] = "stored" /\ pc'[r] = "waiting"
        /\ \A q \in Requests \ {r} : pc'[q] = pc[q]
        /\ events' = events \cup {r}
        /\ UNCHANGED <<post, inbox, owner, result, session>>
    BY <1>0, <1>13 DEF SdkFrame, SdkEmit, jsVars, uiVars
  <2>2. result[r] = None
    <3>1. Unposted(r)
      BY <1>0, <2>1 DEF Posts, Unposted
    <3>2. \A v \in Views : result[r] # None => result[r] # post[r][v]
      BY <1>0, <3>1 DEF Unposted, Outcomes
    <3> QED
      BY <3>2 DEF Matching
  <2> QED
    BY <1>0, <1>a, <2>1, <2>2 DEF Matching
<1>14. ASSUME NEW r \in Requests, SdkFrame, SdkReturn(r) PROVE Matching'
  <2>1. /\ pc[r] = "waiting" /\ result[r] # None
        /\ \A q \in Requests \ {r} : pc'[q] = pc[q]
        /\ UNCHANGED <<post, events, inbox, owner, result, session>>
    BY <1>0, <1>14 DEF SdkFrame, SdkReturn, jsVars, uiVars
  <2> QED
    BY <1>0, <1>a, <2>1 DEF Matching
<1>15. ASSUME NEW m \in inbox, UNCHANGED mapsRace, NmHandleResponse(m) PROVE Matching'
  <2>1. PICK takers \in SUBSET Views :
              /\ \A v \in takers : pending[v] # None /\ session[v] = m.id
              /\ \A r \in Requests :
                    \/ /\ \E v \in takers : pending[v] = r
                       /\ result'[r] = post[m.req][m.by]
                    \/ /\ \A v \in takers : pending[v] # r
                       /\ result'[r] = result[r]
              /\ post[m.req][m.by] \in Outcomes
              /\ UNCHANGED <<post, session, events, pc, owner>>
              /\ inbox' = inbox \ {m}
    BY <1>0, <1>15, Handled DEF jsVars, uiVars
  <2>2. \A v \in takers : pending[v] = m.req
    <3> SUFFICES ASSUME NEW v \in takers
                 PROVE  pending[v] = m.req
      OBVIOUS
    <3>1. session[v] = session[owner[m.req]] /\ session[v] # None
      BY <1>a, <2>1, NoneAssumption DEF Matching
    <3>2. owner[pending[v]] = v /\ pending[v] \in Requests
      BY <1>0, <2>1 DEF Continuations, TypeOK
    <3>3. native[v] # "none"
      BY <1>0, <3>2, NoneAssumption DEF Mounted
    <3>4. v = owner[m.req]
      BY <1>0, <1>a, <3>1, <3>3 DEF Mounted, OneMount
    <3> QED
      BY <1>0, <1>a, <3>4 DEF Continuations, Matching
  <2>3. /\ result'[m.req] # None => result'[m.req] = post[m.req][m.by]
        /\ \A q \in Requests \ {m.req} : result'[q] = result[q]
    BY <1>a, <2>1, <2>2 DEF Matching
  <2>4. \A v \in Views : post[m.req][v] # "none" => v = m.by
    BY <1>0, <1>a, <2>1 DEF Posts, SinglePost, Outcomes
  <2>5. \A q \in events' : pc'[q] = "waiting" /\ result'[q] = None
    <3>1. m.req \notin events
      BY <1>0, <1>a, <2>1 DEF Posts, Unposted, Outcomes
    <3> QED
      BY <1>0, <2>1, <2>3, <3>1 DEF Matching
  <2>6. \A q \in Requests, v \in Views :
           post'[q][v] = "posting" => pc'[q] = "waiting" /\ result'[q] = None
    BY <2>1, <2>3, <2>4 DEF Matching, Outcomes
  <2>7. \A n \in inbox' :
           n.id = session'[owner'[n.req]] /\ pc'[n.req] = "waiting" /\ result'[n.req] = None
    <3> SUFFICES ASSUME NEW n \in inbox, n # m
                 PROVE  result'[n.req] = None
      BY <2>1 DEF Matching
    <3>1. n.req # m.req
      <4> SUFFICES ASSUME n.req = m.req
                   PROVE  FALSE
        OBVIOUS
      <4>1. n.id = m.id
        BY DEF Matching
      <4>2. post[n.req][n.by] \in Outcomes
        BY <1>0 DEF Posts
      <4>3. n.by = m.by
        BY <1>a, <2>4, <4>2 DEF Outcomes
      <4> QED
        BY <1>a, <4>1, <4>3
    <3> QED
      BY <1>a, <2>3, <3>1 DEF Matching
  <2>8. \A q \in Requests : result'[q] # None => \E v \in Views : result'[q] = post'[q][v]
    BY <1>a, <2>1, <2>3 DEF Matching
  <2> QED
    BY <2>5, <2>6, <2>7, <2>8 DEF Matching
<1>16. ASSUME UNCHANGED vars PROVE Matching'
  BY <1>q, <1>16 DEF vars, jsVars, uiVars, sdkVars
<1> QED
  BY <1>1, <1>2, <1>3, <1>4, <1>5, <1>6, <1>7, <1>8, <1>9, <1>10, <1>11, <1>12, <1>13, <1>14,
     <1>15, <1>16, Steps, Zenon
-----------------------------------------------------------------------------
\* Only one listener has an outcome, so the one AnswerTo chooses is its.
LEMMA ChosenOutcome ==
    ASSUME SinglePost, NEW r \in Requests, NEW v \in Views, post[r][v] \in Outcomes
    PROVE  AnswerTo(r) = post[r][v]
<1> DEFINE chosen == CHOOSE u \in Views : post[r][u] \in Outcomes
<1>1. chosen \in Views /\ post[r][chosen] \in Outcomes
  OBVIOUS
<1>2. chosen = v
  BY <1>1 DEF SinglePost, Outcomes
<1> QED
  BY <1>2 DEF AnswerTo

LEMMA ChosenOutcomePrimed ==
    ASSUME SinglePost', NEW r \in Requests, NEW v \in Views, post'[r][v] \in Outcomes
    PROVE  AnswerTo(r)' = post'[r][v]
<1> DEFINE chosen == CHOOSE u \in Views : post'[r][u] \in Outcomes
<1>1. chosen \in Views /\ post'[r][chosen] \in Outcomes
  OBVIOUS
<1>2. chosen = v
  BY <1>1 DEF SinglePost, Outcomes
<1> QED
  BY <1>2 DEF AnswerTo

\* What a step of the bridge is to SubmitRequest.
LEMMA PromiseStep ==
    IInv /\ IInv' /\ Matching /\ [Next]_vars => [Promise!Next]_(Promise!vars)
<1> SUFFICES ASSUME IInv, IInv', Matching, [Next]_vars
             PROVE  Promise!Next \/ UNCHANGED Promise!vars
  OBVIOUS
<1> DEFINE status == [r \in Requests |-> StatusOf(r)]
           answer == [r \in Requests |-> AnswerTo(r)]
           Good == Promise!Next \/ UNCHANGED Promise!vars
<1>0. /\ post \in [Requests -> [Views -> {"none", "posting"} \cup Outcomes]]
      /\ pc \in [Requests -> {"idle", "called", "stored", "waiting", "returned"}]
      /\ result \in [Requests -> Outcomes \cup {None}]
      /\ verdict \in [Requests -> {"Success", "Failure", None}]
      /\ Posts /\ SinglePost /\ SinglePost'
      /\ None \notin Outcomes
  BY NoneAssumption DEF IInv, TypeOK, Posts
<1>1. ASSUME UNCHANGED <<status, answer, verdict>> PROVE Good
  BY <1>1 DEF Promise!vars
<1>2. ASSUME UNCHANGED post PROVE UNCHANGED answer
  BY <1>2 DEF AnswerTo
<1>3. ASSUME UNCHANGED pc PROVE UNCHANGED status
  BY <1>3 DEF StatusOf
<1>q. ASSUME UNCHANGED <<post, pc, verdict>> PROVE Good
  BY <1>1, <1>2, <1>3, <1>q
<1>4. ASSUME NEW r \in Requests, JsFrame, JsDeliver(r) PROVE Good
  <2>1. Unposted(r)
    BY <1>0, <1>4 DEF JsDeliver, Posts
  <2>2. /\ \A v \in Views : post'[r][v] \notin Outcomes /\ post[r][v] \notin Outcomes
        /\ \A q \in Requests \ {r} : post'[q] = post[q]
    BY <1>0, <1>4, <2>1 DEF JsDeliver, Unposted, Outcomes
  <2>3. \A q \in Requests : AnswerTo(q)' = AnswerTo(q)
    BY <2>2 DEF AnswerTo
  <2> QED
    BY <1>1, <1>3, <1>4, <2>3 DEF JsFrame, sdkVars
<1>5. ASSUME NEW r \in Requests, NEW v \in Views, NEW outcome \in Outcomes, JsFrame,
             JsAnswer(r, v, outcome)
      PROVE  Good
  <2>1. post[r][v] = "posting"
    BY <1>5 DEF JsAnswer
  <2>2. pc[r] = "waiting" /\ \A w \in Views : post[r][w] \notin Outcomes
    BY <1>0, <2>1 DEF Matching, SinglePost, Outcomes
  <2>3. StatusOf(r) = "asked" /\ AnswerTo(r) = None
    BY <2>2 DEF StatusOf, AnswerTo
  <2>4. post'[r][v] = outcome /\ \A q \in Requests \ {r} : post'[q] = post[q]
    BY <1>0, <1>5 DEF JsAnswer
  <2>5. AnswerTo(r)' = outcome
    BY <1>0, <2>4, ChosenOutcomePrimed
  <2>6. \A q \in Requests \ {r} : AnswerTo(q)' = AnswerTo(q)
    BY <2>4 DEF AnswerTo
  <2>7. answer' = [answer EXCEPT ![r] = outcome]
    BY <2>5, <2>6
  <2>8. UNCHANGED <<status, verdict>>
    BY <1>3, <1>5 DEF JsFrame, sdkVars
  <2>9. Promise!Answer(r, outcome)
    BY <2>3, <2>7, <2>8 DEF Promise!Answer
  <2> QED
    BY <2>9 DEF Promise!Next, Promise!Outcomes, Outcomes
<1>6. ASSUME NEW r \in Requests, NEW v \in Views, StartFrame, SdkCallback(r, v) PROVE Good
  <2>1. /\ StatusOf(r) = "idle" /\ StatusOf(r)' = "asked"
        /\ \A q \in Requests \ {r} : StatusOf(q)' = StatusOf(q)
    BY <1>0, <1>6 DEF SdkCallback, StatusOf
  <2>2. status' = [status EXCEPT ![r] = "asked"]
    BY <2>1
  <2>3. UNCHANGED <<answer, verdict>>
    BY <1>2, <1>6 DEF StartFrame, jsVars
  <2>4. Promise!Ask(r)
    BY <2>1, <2>2, <2>3 DEF Promise!Ask
  <2> QED
    BY <2>4 DEF Promise!Next
<1>7. ASSUME NEW r \in Requests, SdkFrame, SdkStore(r) PROVE Good
  <2>1. \A q \in Requests : StatusOf(q)' = StatusOf(q)
    BY <1>0, <1>7 DEF SdkStore, StatusOf
  <2> QED
    BY <1>1, <1>2, <1>7, <2>1 DEF SdkFrame, SdkStore, jsVars
<1>8. ASSUME NEW r \in Requests, SdkFrame, SdkEmit(r) PROVE Good
  <2>1. \A q \in Requests : StatusOf(q)' = StatusOf(q)
    BY <1>0, <1>8 DEF SdkEmit, StatusOf
  <2> QED
    BY <1>1, <1>2, <1>8, <2>1 DEF SdkFrame, SdkEmit, jsVars
<1>9. ASSUME NEW r \in Requests, SdkFrame, SdkReturn(r) PROVE Good
  <2>1. /\ StatusOf(r) = "asked" /\ StatusOf(r)' = "done"
        /\ \A q \in Requests \ {r} : StatusOf(q)' = StatusOf(q)
    BY <1>0, <1>9 DEF SdkReturn, StatusOf
  <2>2. status' = [status EXCEPT ![r] = "done"]
    BY <2>1
  <2>3. result[r] \in Outcomes
    BY <1>0, <1>9 DEF SdkReturn
  <2>4. PICK v \in Views : result[r] = post[r][v]
    BY <1>0, <2>3 DEF Matching
  <2>5. AnswerTo(r) = result[r] /\ AnswerTo(r) # None
    BY <1>0, <2>3, <2>4, ChosenOutcome
  <2>6. Promise!VerdictOf(AnswerTo(r)) = ApiCallResult(result[r])
    BY <2>5 DEF Promise!VerdictOf, ApiCallResult, Parses
  <2>7. verdict' = [verdict EXCEPT ![r] = Promise!VerdictOf(AnswerTo(r))]
    BY <1>9, <2>6 DEF SdkReturn
  <2>8. UNCHANGED answer
    BY <1>2, <1>9 DEF SdkFrame, jsVars
  <2>9. Promise!Settle(r)
    BY <2>1, <2>2, <2>5, <2>7, <2>8 DEF Promise!Settle
  <2> QED
    BY <2>9 DEF Promise!Next
<1>10. ASSUME JsFrame, JsRunEffects PROVE Good
  BY <1>q, <1>10 DEF JsFrame, JsRunEffects, sdkVars
<1>11. ASSUME NEW v \in Views, JsFrame, JsClose(v) PROVE Good
  BY <1>q, <1>11 DEF JsFrame, JsClose, sdkVars
<1>12. ASSUME NEW v \in Views, NEW s \in Sessions, JsFrame, JsOpen(v, s) PROVE Good
  BY <1>q, <1>12 DEF JsFrame, JsOpen, sdkVars
<1>13. ASSUME UiFrame PROVE Good
  BY <1>q, <1>13 DEF UiFrame, jsVars, sdkVars
<1>14. ASSUME NEW v \in Views, StartFrame, SdkPress(v) PROVE Good
  BY <1>q, <1>14 DEF StartFrame, SdkPress, jsVars
<1>15. ASSUME NEW m \in inbox, UNCHANGED mapsRace, NmHandleResponse(m) PROVE Good
  BY <1>q, <1>15 DEF NmHandleResponse, jsVars
<1>16. ASSUME UNCHANGED vars PROVE Good
  BY <1>q, <1>16 DEF vars, jsVars, sdkVars
<1> HIDE DEF Good
<1>17. Good
  BY <1>4, <1>5, <1>6, <1>7, <1>8, <1>9, <1>10, <1>11, <1>12, <1>13, <1>14, <1>15, <1>16,
     Steps, Zenon
<1> QED
  BY <1>17 DEF Good

\* As long as no session is mounted a second time, the verdict the SDK gets
\* is the one the app's answer to that request calls for, though the answer
\* is addressed by session only (GooglePayModule.kt).
THEOREM Implementation ==
    ASSUME ~RemountsSession
    PROVE  Spec => KeepsThePromise
<1>1. Init => OneMount /\ Matching /\ Promise!Init
  BY DEF Init, OneMount, Matching, Promise!Init, StatusOf, AnswerTo, Outcomes
<1>2. IInv /\ OneMount /\ [Next]_vars => OneMount'
  BY OneMountStep DEF IInv
<1>3. IInv /\ OneMount /\ Matching /\ [Next]_vars => Matching'
  BY MatchingStep
<1> QED
  BY <1>1, <1>2, <1>3, PromiseStep, Invariance, PTL
     DEF Spec, KeepsThePromise, Promise!Spec
-----------------------------------------------------------------------------
(***************************************************************************)
(* What becomes of an answer the app has.  An outcome, once there, and the *)
(* session it is sent under do not change any more, and there are three    *)
(* kinds of steps: an answer is sent, an answer is handed out, and all the *)
(* others.                                                                 *)
(***************************************************************************)
LEMMA RequestIdStays ==
    IInv /\ [Next]_vars => \A r \in Requests : pc[r] # "idle" => RequestId(r)' = RequestId(r)
<1> DEFINE Same == \A r \in Requests : pc[r] # "idle" => RequestId(r)' = RequestId(r)
<1> SUFFICES ASSUME IInv, [Next]_vars
             PROVE  Same
  OBVIOUS
<1>0. /\ owner \in [Requests -> Views \cup {None}]
      /\ TypeOK /\ Mounted
  BY DEF IInv, TypeOK
<1>q. ASSUME UNCHANGED <<session, owner>> PROVE Same
  BY <1>q DEF RequestId
<1>1. ASSUME JsFrame PROVE Same
  BY <1>q, <1>1 DEF JsFrame, uiVars, sdkVars
<1>2. ASSUME NEW v \in Views, NEW b \in BOOLEAN, UiFrame, UiMount(v, b) \/ UiUpdate(v, b)
      PROVE  Same
  <2>1. \A w \in Views : native[w] # "none" => session'[w] = session[w]
    BY <1>0, <1>2, SessionStays
  <2>2. UNCHANGED owner
    BY <1>2 DEF UiFrame, sdkVars
  <2> QED
    BY <1>0, <2>1, <2>2 DEF Mounted, RequestId
<1>3. ASSUME NEW v \in Views, NEW b \in BOOLEAN, UiFrame, UiCreateComponent(v, b) PROVE Same
  BY <1>q, <1>3 DEF UiFrame, UiCreateComponent, sdkVars
<1>4. ASSUME NEW v \in Views, UiFrame, UiDrop(v) PROVE Same
  BY <1>q, <1>4 DEF UiFrame, UiDrop, sdkVars
<1>5. ASSUME NEW v \in Views, StartFrame, SdkPress(v) PROVE Same
  BY <1>q, <1>5 DEF StartFrame, SdkPress, uiVars
<1>6. ASSUME NEW r \in Requests, NEW v \in Views, StartFrame, SdkCallback(r, v) PROVE Same
  BY <1>0, <1>6 DEF StartFrame, SdkCallback, uiVars, RequestId
<1>7. ASSUME NEW r \in Requests, SdkFrame, SdkStore(r) \/ SdkEmit(r) \/ SdkReturn(r) PROVE Same
  BY <1>q, <1>7 DEF SdkFrame, SdkStore, SdkEmit, SdkReturn, uiVars
<1>8. ASSUME NEW m \in inbox, UNCHANGED mapsRace, NmHandleResponse(m) PROVE Same
  BY <1>q, <1>8 DEF NmHandleResponse, uiVars
<1>9. ASSUME UNCHANGED vars PROVE Same
  BY <1>q, <1>9 DEF vars, uiVars, sdkVars
<1> HIDE DEF Same
<1> QED
  BY <1>1, <1>2, <1>3, <1>4, <1>5, <1>6, <1>7, <1>8, <1>9, Steps, Zenon

OutcomesStay ==
    \A r \in Requests, v \in Views : post[r][v] \in Outcomes => post'[r][v] = post[r][v]

Sent(r, v) == [id |-> RequestId(r), req |-> r, by |-> v]

\* r is answered by v.
Sends(r, v) ==
    /\ OutcomesStay
    /\ post[r][v] = "posting"
    /\ inbox' = inbox \cup {Sent(r, v)}
    /\ UNCHANGED <<result, mapsRace>>
    /\ \A q \in Requests, w \in Views :
          post'[q][w] \in Outcomes => post[q][w] \in Outcomes \/ (q = r /\ w = v)
    /\ post'[r][v] \in Outcomes

Others ==
    /\ OutcomesStay
    /\ UNCHANGED <<inbox, result, mapsRace>>
    /\ \A q \in Requests, w \in Views : post'[q][w] \in Outcomes => post[q][w] \in Outcomes

LEMMA ThreeKinds ==
    IInv /\ [Next]_vars =>
        \/ \E r \in Requests, v \in Views : Sends(r, v)
        \/ \E m \in inbox : NmHandleResponse(m) /\ UNCHANGED mapsRace
        \/ Others
<1> DEFINE Kinds == \/ \E r \in Requests, v \in Views : Sends(r, v)
                    \/ \E m \in inbox : NmHandleResponse(m) /\ UNCHANGED mapsRace
                    \/ Others
<1> SUFFICES ASSUME IInv, [Next]_vars
             PROVE  Kinds
  OBVIOUS
<1>0. /\ post \in [Requests -> [Views -> {"none", "posting"} \cup Outcomes]]
      /\ Posts
  BY DEF IInv, TypeOK
<1>q. ASSUME UNCHANGED <<post, inbox, result, mapsRace>> PROVE Kinds
  BY <1>q DEF Others, OutcomesStay
<1>1. ASSUME JsFrame, JsRunEffects PROVE Kinds
  BY <1>q, <1>1 DEF JsFrame, JsRunEffects, sdkVars
<1>2. ASSUME NEW v \in Views, JsFrame, JsClose(v) PROVE Kinds
  BY <1>q, <1>2 DEF JsFrame, JsClose, sdkVars
<1>3. ASSUME NEW v \in Views, NEW s \in Sessions, JsFrame, JsOpen(v, s) PROVE Kinds
  BY <1>q, <1>3 DEF JsFrame, JsOpen, sdkVars
<1>4. ASSUME NEW r \in Requests, JsFrame, JsDeliver(r) PROVE Kinds
  <2>1. Unposted(r)
    BY <1>0, <1>4 DEF JsDeliver, Posts
  <2>2. /\ \A v \in Views : post'[r][v] \notin Outcomes /\ post[r][v] \notin Outcomes
        /\ \A q \in Requests \ {r} : post'[q] = post[q]
    BY <1>0, <1>4, <2>1 DEF JsDeliver, Unposted, Outcomes
  <2>3. Others
    BY <1>4, <2>2 DEF JsFrame, JsDeliver, sdkVars, Others, OutcomesStay
  <2> QED
    BY <2>3
<1>5. ASSUME NEW r \in Requests, NEW v \in Views, NEW outcome \in Outcomes, JsFrame,
             JsAnswer(r, v, outcome)
      PROVE  Kinds
  <2>1. /\ post[r][v] = "posting" /\ post'[r][v] = outcome
        /\ \A q \in Requests, w \in Views : q # r \/ w # v => post'[q][w] = post[q][w]
        /\ inbox' = inbox \cup {Sent(r, v)}
        /\ UNCHANGED <<result, mapsRace>>
    BY <1>0, <1>5 DEF JsFrame, JsAnswer, Sent, sdkVars
  <2>2. Sends(r, v)
    BY <2>1 DEF Sends, OutcomesStay, Outcomes
  <2> QED
    BY <2>2
<1>6. ASSUME UiFrame PROVE Kinds
  BY <1>q, <1>6 DEF UiFrame, jsVars, sdkVars
<1>7. ASSUME StartFrame PROVE Kinds
  BY <1>q, <1>7 DEF StartFrame, jsVars
<1>8. ASSUME NEW r \in Requests, SdkFrame, SdkStore(r) \/ SdkEmit(r) \/ SdkReturn(r)
      PROVE  Kinds
  BY <1>q, <1>8 DEF SdkFrame, SdkStore, SdkEmit, SdkReturn, jsVars
<1>9. ASSUME NEW m \in inbox, UNCHANGED mapsRace, NmHandleResponse(m) PROVE Kinds
  BY <1>9
<1>10. ASSUME UNCHANGED vars PROVE Kinds
  BY <1>q, <1>10 DEF vars, jsVars, sdkVars
<1> HIDE DEF Kinds
<1> QED
  BY <1>1, <1>2, <1>3, <1>4, <1>5, <1>6, <1>7, <1>8, <1>9, <1>10, Steps, Zenon

\* What there is to know of a request with an outcome or a result.
LEMMA Known ==
    ASSUME IInv, NEW r \in Requests,
           result[r] # None \/ \E v \in Views : post[r][v] \in Outcomes
    PROVE  pc[r] \in {"stored", "waiting", "returned"} /\ pc[r] # "idle"
BY DEF IInv, TypeOK, Continuations, Posts, Outcomes
-----------------------------------------------------------------------------
AddressedBySession == \A m \in inbox : m.id = RequestId(m.req)

LEMMA SessionAnswersStep ==
    ASSUME IInv, AddressedBySession, AnswersStayInSession, [Next]_vars
    PROVE  AddressedBySession' /\ AnswersStayInSession'
<1>0. /\ inbox \in SUBSET Responses
      /\ result \in [Requests -> Outcomes \cup {None}]
      /\ owner \in [Requests -> Views \cup {None}]
      /\ pending \in [Views -> Requests \cup {None}]
      /\ TypeOK /\ Posts /\ Continuations
      /\ None \notin Views \cup Requests \cup Outcomes
  BY NoneAssumption DEF IInv, TypeOK
<1>1. \A m \in inbox : /\ m.req \in Requests /\ m.by \in Views
                       /\ post[m.req][m.by] \in Outcomes
                       /\ RequestId(m.req)' = RequestId(m.req)
  BY <1>0, RequestIdStays, Known DEF Responses, Posts
<1>2. \A r \in Requests : result[r] # None =>
         \E q \in Requests, v \in Views :
             /\ result[r] = post[q][v] /\ post[q][v] \in Outcomes
             /\ RequestId(q)' = RequestId(r)'
  BY <1>0, RequestIdStays, Known DEF AnswersStayInSession
<1>3. ASSUME OutcomesStay, UNCHANGED result
      PROVE  AnswersStayInSession'
  BY <1>2, <1>3 DEF OutcomesStay, AnswersStayInSession
<1>4. CASE Others
  BY <1>1, <1>3, <1>4 DEF Others, AddressedBySession
<1>5. ASSUME NEW r \in Requests, NEW v \in Views, Sends(r, v)
      PROVE  AddressedBySession' /\ AnswersStayInSession'
  <2>1. RequestId(r)' = RequestId(r)
    <3>1. post[r][v] # "none"
      BY <1>5 DEF Sends
    <3> QED
      BY <1>0, <3>1, RequestIdStays DEF Posts
  <2>2. AddressedBySession'
    BY <1>1, <1>5, <2>1 DEF Sends, Sent, AddressedBySession
  <2> QED
    BY <1>3, <1>5, <2>2 DEF Sends
<1>6. ASSUME NEW m \in inbox, NmHandleResponse(m)
      PROVE  AddressedBySession' /\ AnswersStayInSession'
  <2>1. PICK takers \in SUBSET Views :
              /\ \A v \in takers : pending[v] # None /\ session[v] = m.id
              /\ \A r \in Requests :
                    \/ /\ \E v \in takers : pending[v] = r
                       /\ result'[r] = post[m.req][m.by]
                    \/ /\ \A v \in takers : pending[v] # r
                       /\ result'[r] = result[r]
              /\ UNCHANGED <<jsVars, uiVars, owner>>
              /\ inbox' = inbox \ {m}
    BY <1>0, <1>6, Handled
  <2>2. AddressedBySession'
    BY <1>1, <2>1 DEF AddressedBySession
  <2>3. ASSUME NEW r \in Requests, result'[r] # None
        PROVE  \E q \in Requests, v \in Views :
                   result'[r] = post'[q][v] /\ RequestId(q)' = RequestId(r)'
    <3>1. post' = post /\ session' = session
      BY <2>1 DEF jsVars, uiVars
    <3>2. CASE result'[r] = result[r]
      BY <1>2, <2>3, <3>1, <3>2
    <3>3. ASSUME NEW v \in takers, pending[v] = r, result'[r] = post[m.req][m.by]
          PROVE  \E q \in Requests, w \in Views :
                     result'[r] = post'[q][w] /\ RequestId(q)' = RequestId(r)'
      <4>1. owner[r] = v
        BY <1>0, <2>1, <3>3 DEF Continuations
      <4>2. RequestId(r) = m.id
        BY <2>1, <3>3, <4>1 DEF RequestId
      <4>3. RequestId(m.req)' = RequestId(r)'
        BY <1>1, <2>1, <3>1, <4>2 DEF AddressedBySession, RequestId
      <4> QED
        BY <1>1, <3>1, <3>3, <4>3
    <3> QED
      BY <2>1, <3>2, <3>3
  <2> QED
    BY <2>2, <2>3 DEF AnswersStayInSession
<1> QED
  BY <1>4, <1>5, <1>6, ThreeKinds

\* handleSubmitResponse compares the session ids (GooglePayView.kt), so a
\* payment never goes on with the answer to a payment of another session, be
\* sessions mounted as often as they may, and iterations broken off.
THEOREM SessionAnswers == Spec => []AnswersStayInSession
<1>1. Init => AddressedBySession /\ AnswersStayInSession
  BY DEF Init, AddressedBySession, AnswersStayInSession
<1> QED
  BY <1>1, SessionAnswersStep, Invariance, PTL DEF Spec
-----------------------------------------------------------------------------
\* A view that was created is the one the registry has for its session.
InRegistry ==
    \A v \in Views : native[v] # "none" => registry[jsSession[v]] = v

LEMMA InRegistryStep == IInv /\ OneMount /\ InRegistry /\ [Next]_vars => InRegistry'
<1> SUFFICES ASSUME IInv, OneMount, InRegistry, [Next]_vars
             PROVE  InRegistry'
  OBVIOUS
<1>0. /\ jsSession \in [Views -> Sessions \cup {None}]
      /\ native \in [Views -> {"none", "live", "dropped"}]
      /\ registry \in [Sessions -> Views \cup {None}]
      /\ Mounted
  BY DEF IInv, TypeOK
<1>a. \A v \in Views : js[v] # "absent" => jsSession[v] \in Sessions
  BY <1>0 DEF Mounted
<1>q. ASSUME UNCHANGED <<jsSession, native, registry>> PROVE InRegistry'
  BY <1>q DEF InRegistry
<1>1. ASSUME JsFrame, JsRunEffects PROVE InRegistry'
  BY <1>q, <1>1 DEF JsFrame, JsRunEffects, uiVars
<1>2. ASSUME NEW v \in Views, JsFrame, JsClose(v) PROVE InRegistry'
  BY <1>q, <1>2 DEF JsFrame, JsClose, uiVars
<1>3. ASSUME NEW v \in Views, NEW s \in Sessions, JsFrame, JsOpen(v, s) PROVE InRegistry'
  <2>1. /\ js[v] = "absent" /\ jsSession' = [jsSession EXCEPT ![v] = s]
        /\ UNCHANGED <<native, registry>>
    BY <1>3 DEF JsFrame, JsOpen, uiVars
  <2>2. native[v] = "none"
    BY <2>1, <1>0 DEF Mounted
  <2> QED
    BY <1>0, <2>1, <2>2 DEF InRegistry
<1>4. ASSUME NEW r \in Requests, JsFrame, JsDeliver(r) PROVE InRegistry'
  BY <1>q, <1>4 DEF JsFrame, JsDeliver, uiVars
<1>5. ASSUME NEW r \in Requests, NEW v \in Views, NEW outcome \in Outcomes, JsFrame,
             JsAnswer(r, v, outcome)
      PROVE  InRegistry'
  BY <1>q, <1>5 DEF JsFrame, JsAnswer, uiVars
<1>i. ASSUME NEW v \in Views, NEW b \in BOOLEAN, UiFrame, js[v] \in Shown, Initialize(v, b),
             native' = [native EXCEPT ![v] = "live"]
      PROVE  InRegistry'
  <2>1. jsSession[v] \in Sessions /\ UNCHANGED jsSession
    BY <1>a, <1>i DEF UiFrame, jsVars, Shown
  <2>2. CASE hasInitialized[v]
    <3>1. native[v] # "none" /\ UNCHANGED registry
      BY <1>0, <1>i, <2>2 DEF Mounted, Initialize
    <3> QED
      BY <1>0, <1>i, <2>1, <3>1 DEF InRegistry
  <2>3. CASE ~hasInitialized[v]
    <3>1. registry' = [registry EXCEPT ![jsSession[v]] = v]
      BY <1>i, <2>3 DEF Initialize, RegisterView
    <3> SUFFICES ASSUME NEW w \in Views, native'[w] # "none"
                 PROVE  registry'[jsSession[w]] = w
      BY <2>1 DEF InRegistry
    <3>2. CASE w = v
      BY <1>0, <2>1, <3>1, <3>2
    <3>3. CASE w # v
      <4>1. registry[jsSession[w]] = w
        BY <1>0, <1>i, <3>3 DEF InRegistry
      <4>2. jsSession[w] # jsSession[v]
        BY <2>1, <3>3, NoneAssumption DEF OneMount
      <4> QED
        BY <1>0, <3>1, <4>1, <4>2
    <3> QED
      BY <3>2, <3>3
  <2> QED
    BY <2>2, <2>3
<1>6. ASSUME NEW v \in Views, NEW b \in BOOLEAN, UiFrame, UiMount(v, b) PROVE InRegistry'
  BY <1>i, <1>6 DEF UiMount
<1>7. ASSUME NEW v \in Views, NEW b \in BOOLEAN, UiFrame, UiUpdate(v, b) PROVE InRegistry'
  <2>1. native' = [native EXCEPT ![v] = "live"]
    BY <1>0, <1>7 DEF UiUpdate
  <2> QED
    BY <1>i, <1>7, <2>1 DEF UiUpdate
<1>8. ASSUME NEW v \in Views, NEW b \in BOOLEAN, UiFrame, UiCreateComponent(v, b)
      PROVE  InRegistry'
  BY <1>q, <1>8 DEF UiFrame, UiCreateComponent, jsVars
<1>9. ASSUME NEW v \in Views, UiFrame, UiDrop(v) PROVE InRegistry'
  BY <1>0, <1>9 DEF UiFrame, UiDrop, RegistryAfterDrop, InRegistry, jsVars
<1>10. ASSUME StartFrame \/ SdkFrame PROVE InRegistry'
  BY <1>q, <1>10 DEF StartFrame, SdkFrame, jsVars, uiVars
<1>11. ASSUME NEW m \in inbox, UNCHANGED mapsRace, NmHandleResponse(m) PROVE InRegistry'
  BY <1>q, <1>11 DEF NmHandleResponse, jsVars, uiVars
<1>12. ASSUME UNCHANGED vars PROVE InRegistry'
  BY <1>q, <1>12 DEF vars, jsVars, uiVars
<1> QED
  BY <1>1, <1>2, <1>3, <1>4, <1>5, <1>6, <1>7, <1>8, <1>9, <1>10, <1>11, <1>12, Steps, Zenon

\* An iteration that is not broken off finds the view of the request.
LEMMA AnswerIsTaken ==
    ASSUME IInv, Matching, InRegistry, ~mapsRace, NEW m \in inbox, NmHandleResponse(m)
    PROVE  result'[m.req] = post[m.req][m.by]
<1> DEFINE v == owner[m.req]
<1>1. /\ m.req \in Requests
      /\ m.id = session[v] /\ pc[m.req] = "waiting" /\ result[m.req] = None
  BY DEF IInv, TypeOK, Responses, Matching
<1>2. v \in Views /\ native[v] # "none" /\ pending[v] = m.req
  BY <1>1 DEF IInv, TypeOK, Mounted, Continuations
<1>3. jsSession[v] \in Sessions /\ registry[jsSession[v]] = v
  BY <1>2 DEF IInv, TypeOK, Mounted, InRegistry
<1>4. v \in Registered
  BY <1>2, <1>3 DEF Registered
<1>5. m.req # None
  BY <1>1, NoneAssumption
<1> DEFINE takers == {w \in Registered : Holds(w, m.id)}
<1>6. v \in takers
  BY <1>1, <1>2, <1>4, <1>5 DEF Holds
<1>7. result' = [r \in Requests |-> IF \E w \in takers : pending[w] = r
                                      THEN post[m.req][m.by] ELSE result[r]]
  BY DEF NmHandleResponse, Visits
<1> QED
  BY <1>1, <1>2, <1>6, <1>7

LEMMA AnswersAreKeptStep ==
    ASSUME IInv, Matching, InRegistry, AnswersAreKept, [Next]_vars
    PROVE  AnswersAreKept'
<1>0. /\ pending \in [Views -> Requests \cup {None}]
      /\ TypeOK /\ Posts /\ Continuations
      /\ None \notin Views \cup Requests \cup Outcomes
  BY NoneAssumption DEF IInv, TypeOK
<1> DEFINE Kept(r, v) == result[r] = post[r][v] \/ Sent(r, v) \in inbox
<1>1. \A r \in Requests, v \in Views : post[r][v] \in Outcomes => Sent(r, v)' = Sent(r, v)
  BY RequestIdStays, Known DEF Sent
<1>2. ~mapsRace => \A r \in Requests, v \in Views : post[r][v] \in Outcomes => Kept(r, v)
  BY DEF AnswersAreKept, Sent
<1>3. SUFFICES ASSUME ~mapsRace', NEW r \in Requests, NEW v \in Views,
                      post'[r][v] \in Outcomes
               PROVE  Kept(r, v)'
  BY DEF AnswersAreKept, Sent
<1>4. CASE Others
  BY <1>1, <1>2, <1>3, <1>4 DEF Others, OutcomesStay
<1>5. ASSUME NEW q \in Requests, NEW w \in Views, Sends(q, w)
      PROVE  Kept(r, v)'
  <2>1. CASE post[r][v] \in Outcomes
    BY <1>1, <1>2, <1>3, <1>5, <2>1 DEF Sends, OutcomesStay
  <2>2. CASE r = q /\ v = w
    <3>1. RequestId(r)' = RequestId(r)
      <4>1. post[r][v] # "none"
        BY <1>5, <2>2 DEF Sends
      <4> QED
        BY <1>0, <4>1, RequestIdStays DEF Posts
    <3> QED
      BY <1>5, <2>2, <3>1 DEF Sends, Sent
  <2> QED
    BY <1>3, <1>5, <2>1, <2>2 DEF Sends
<1>6. ASSUME NEW m \in inbox, NmHandleResponse(m), UNCHANGED mapsRace
      PROVE  Kept(r, v)'
  <2>1. UNCHANGED post /\ inbox' = inbox \ {m}
    BY <1>6 DEF NmHandleResponse, jsVars
  <2>2. Kept(r, v) /\ Sent(r, v)' = Sent(r, v)
    BY <1>1, <1>2, <1>3, <1>6, <2>1
  <2>3. CASE result[r] = post[r][v]
    <3>1. \A w \in Views : pending[w] # r
      BY <1>0, <1>3, <2>1, <2>3 DEF Continuations
    <3>2. result'[r] = result[r]
      BY <1>0, <1>6, <3>1, Handled
    <3> QED
      BY <2>1, <2>3, <3>2
  <2>4. CASE Sent(r, v) = m
    <3>1. m.req = r /\ m.by = v
      BY <2>4 DEF Sent
    <3> QED
      BY <1>3, <1>6, <2>1, <3>1, AnswerIsTaken
  <2>5. CASE Sent(r, v) \in inbox /\ Sent(r, v) # m
    BY <2>1, <2>2, <2>5
  <2> QED
    BY <2>2, <2>3, <2>4, <2>5
<1> QED
  BY <1>4, <1>5, <1>6, ThreeKinds

\* An answer the app has is neither dropped nor given to somebody else on its
\* way, also after the unmount, as the manager leaves the registry alone
\* (GooglePayViewManager.kt): if no session is mounted again and no iteration
\* of the registry breaks off.
THEOREM NoAnswerIsLost ==
    ASSUME ~RemountsSession
    PROVE  Spec => []AnswersAreKept
<1>1. Init => OneMount /\ Matching /\ InRegistry /\ AnswersAreKept
  BY DEF Init, OneMount, Matching, InRegistry, AnswersAreKept, Outcomes
<1>2. IInv /\ OneMount /\ [Next]_vars => OneMount'
  BY OneMountStep DEF IInv
<1>3. IInv /\ OneMount /\ Matching /\ [Next]_vars => Matching'
  BY MatchingStep
<1> QED
  BY <1>1, <1>2, <1>3, InRegistryStep, AnswersAreKeptStep, Invariance, PTL DEF Spec
-----------------------------------------------------------------------------
(***************************************************************************)
(* What follows from the promise kept, in the terms of the bridge.         *)
(***************************************************************************)
Promised == INSTANCE SubmitRequest_proofs WITH
    status <- [r \in Requests |-> StatusOf(r)],
    answer <- [r \in Requests |-> AnswerTo(r)]

LEMMA PromiseIsPromised == Promise!Spec => Promised!Spec
<1>1. Promise!Init => Promised!Init
  BY DEF Promise!Init, Promised!Init
<1>2. [Promise!Next]_(Promise!vars) => [Promised!Next]_(Promised!vars)
  BY DEF Promise!Next, Promise!vars, Promise!Ask, Promise!Answer, Promise!Settle,
         Promise!Outcomes, Promise!VerdictOf, Promised!Next, Promised!vars, Promised!Ask,
         Promised!Answer, Promised!Settle, Promised!Outcomes, Promised!VerdictOf
<1> QED
  BY <1>1, <1>2, PTL DEF Promise!Spec, Promised!Spec

LEMMA ToldIsTheApps ==
    ASSUME Promised!Told, NEW r \in Requests, verdict[r] # None
    PROVE  /\ pc[r] = "returned"
           /\ \E v \in Views : post[r][v] \in Outcomes /\ verdict[r] = ApiCallResult(post[r][v])
<1>1. StatusOf(r) = "done" /\ AnswerTo(r) # None /\ verdict[r] = Promised!VerdictOf(AnswerTo(r))
  BY DEF Promised!Told
<1>2. pc[r] = "returned"
  BY <1>1 DEF StatusOf
<1>3. PICK v \in Views : post[r][v] \in Outcomes /\ AnswerTo(r) = post[r][v]
  BY <1>1 DEF AnswerTo
<1> QED
  BY <1>1, <1>2, <1>3 DEF Promised!VerdictOf, ApiCallResult, Parses, Outcomes

\* What the SDK is told of a payment is what the answer of the app to that
\* payment calls for.
VerdictIsTheApps ==
    \A r \in Requests : verdict[r] # None =>
        \E v \in Views : post[r][v] \in Outcomes /\ verdict[r] = ApiCallResult(post[r][v])

\* It is, although the answer names the session and not the payment, as long
\* as no session is mounted a second time.
THEOREM VerdictsAreTheApps ==
    ASSUME ~RemountsSession
    PROVE  Spec => []VerdictIsTheApps
<1>1. Promised!Told => VerdictIsTheApps
  BY ToldIsTheApps DEF VerdictIsTheApps
<1> QED
  BY <1>1, PromiseIsPromised, Promised!VerdictsAreTold, Implementation, PTL DEF KeepsThePromise
=============================================================================
