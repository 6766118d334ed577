-------------------------- MODULE IosBridge_proofs --------------------------
(***************************************************************************)
(* Theorems about IosBridge, for any views of either method, sessions,     *)
(* requests and presses: types, one POST, only checked cards, that an      *)
(* answer resumes what waits for it, and, when nothing falls into a sweep  *)
(* or an access to a map of continuations, that what waits can be found.   *)
(***************************************************************************)
EXTENDS IosBridge, FiniteSetTheorems, TLAPS

\* A step is one of a thread's, and none changes an instance's method.
LEMMA Steps ==
    ASSUME NEW P, [Next]_vars,
           JsSheet => P, JsPay => P, JsHandle => P, UiStep => P, UiTaps => P, SdkStart => P,
           SdkResume => P, NmStep => P, UNCHANGED vars => P
    PROVE  P
BY Zenon DEF Next

LEMMA MethodStep == [Next]_vars => UNCHANGED method
BY Zenon DEF Next, vars
-----------------------------------------------------------------------------
LEMMA TypeSheet ==
    ASSUME TypeOK, UNCHANGED method, JsSheet
    PROVE  TypeOK'
<1>0. UNCHANGED <<token, post, call, callSession, uiVars, sdk, registry, events, inbox, askVars,
                  nmVars, method>>
  BY DEF JsSheet
<1>1. /\ js' \in [Views -> {"absent", "rendered", "listening", "leaving", "gone"}]
      /\ jsSession' \in [Views -> Sessions \cup {None}]
  <2>1. CASE JsRunEffects
    BY <2>1 DEF JsRunEffects, AfterEffects, TypeOK
  <2>2. ASSUME NEW v \in Views, NEW s \in Sessions, JsOpen(v, s) PROVE <1>1!1 /\ <1>1!2
    BY <2>2 DEF JsOpen, TypeOK
  <2>3. ASSUME NEW v \in Views, JsClose(v) PROVE <1>1!1 /\ <1>1!2
    BY <2>3 DEF JsClose, TypeOK
  <2>4. ASSUME NEW v \in Views, NEW w \in Views, NEW s \in Sessions, JsSwitch(v, w, s)
        PROVE  <1>1!1 /\ <1>1!2
    BY <2>4 DEF JsSwitch, TypeOK
  <2> QED
    BY <2>1, <2>2, <2>3, <2>4, Zenon DEF JsSheet
<1> QED
  BY <1>0, <1>1 DEF TypeOK, uiVars, askVars, nmVars

LEMMA TypePay ==
    ASSUME TypeOK, UNCHANGED method, JsPay
    PROVE  TypeOK'
<1>0. UNCHANGED <<js, jsSession, token, post, uiVars, sdk, registry, events, inbox, askVars,
                  nmVars, method>>
  BY DEF JsPay
<1>1. PICK c \in Calls : JsSubmit(c)
  BY DEF JsPay
<1>2. /\ call' \in [Calls -> {"idle", "sent", "resolved", "rejected"}]
      /\ callSession' \in [Calls -> Sessions \cup {None}]
  BY <1>1 DEF JsSubmit, TypeOK
<1> QED
  BY <1>0, <1>2 DEF TypeOK, uiVars, askVars, nmVars

LEMMA TypeHandle ==
    ASSUME TypeOK, UNCHANGED method, JsHandle
    PROVE  TypeOK'
<1> DEFINE Good ==
        /\ token' \in [Requests -> {"accepted", "rejected", None}]
        /\ post' \in [Requests -> [Views -> {"none", "posting"} \cup Outcomes]]
        /\ events' \in SUBSET Asks
        /\ inbox' \in SUBSET Answers
<1>0. UNCHANGED <<js, jsSession, call, callSession, uiVars, sdk, registry, askVars, nmVars, method>>
  BY DEF JsHandle
<1>1. ASSUME NEW r \in Requests, NEW a \in {"accepted", "rejected"}, JsTokenized(r, a) PROVE Good
  <2>1. {[req |-> r, kind |-> "token", by |-> v] : v \in Listeners(r)} \subseteq Answers
    BY DEF Listeners, Answers, Kinds
  <2>2. inbox' \in SUBSET Answers /\ events' \in SUBSET Asks
    BY <1>1, <2>1 DEF JsTokenized, TypeOK
  <2>3. token' \in [Requests -> {"accepted", "rejected", None}]
    BY <1>1 DEF JsTokenized, TypeOK
  <2> QED
    BY <1>1, <2>2, <2>3 DEF JsTokenized, TypeOK
<1>2. ASSUME NEW r \in Requests, JsDeliver(r) PROVE Good
  <2>1. [v \in Views |-> IF v \in Listeners(r) THEN "posting" ELSE post[r][v]]
           \in [Views -> {"none", "posting"} \cup Outcomes]
    BY DEF TypeOK
  <2>2. post' \in [Requests -> [Views -> {"none", "posting"} \cup Outcomes]]
    BY <1>2, <2>1 DEF JsDeliver, TypeOK
  <2> QED
    BY <1>2, <2>2 DEF JsDeliver, TypeOK
<1>3. ASSUME NEW r \in Requests, NEW v \in Views, NEW outcome \in Outcomes,
             JsAnswer(r, v, outcome)
      PROVE  Good
  <2>1. [req |-> r, kind |-> "submit", by |-> v] \in Answers
    BY DEF Answers, Kinds
  <2>2. post' \in [Requests -> [Views -> {"none", "posting"} \cup Outcomes]]
    BY <1>3 DEF JsAnswer, TypeOK
  <2> QED
    BY <1>3, <2>1, <2>2 DEF JsAnswer, TypeOK
<1> HIDE DEF Good
<1>4. Good
  BY <1>1, <1>2, <1>3, Zenon DEF JsHandle
<1> QED
  BY <1>0, <1>4 DEF Good, TypeOK, uiVars, askVars, nmVars

LEMMA TypeUi ==
    ASSUME TypeOK, UNCHANGED method, UiStep
    PROVE  TypeOK'
<1> DEFINE Good ==
        /\ call' \in [Calls -> {"idle", "sent", "resolved", "rejected"}]
        /\ native' \in [Views -> {"none", "live", "dropped", "freed"}]
        /\ component' \in [Views -> {"none", "queued", "creating", "ready", "failed"}]
        /\ target' \in [Calls -> Views \cup {None}]
        /\ sdk' \in [Calls -> {"none", "submitted", "unchecked", "done"}]
        /\ registry' \in [Sessions -> SUBSET Views]
        /\ rank' \in [Views -> Nat]
<1>0. UNCHANGED <<js, jsSession, token, post, callSession, events, inbox, askVars, nmVars, method>>
  BY DEF UiStep
<1>1. ASSUME NEW v \in Views, UiMount(v) PROVE Good
  <2>1. Cardinality({w \in Views : native[w] # "none"}) \in Nat
    <3>1. IsFiniteSet({w \in Views : native[w] # "none"})
      BY ViewsAssumption, FS_Subset
    <3> QED
      BY <3>1, FS_CardinalityType
  <2>2. rank' \in [Views -> Nat]
    <3> DEFINE n == Cardinality({w \in Views : native[w] # "none"})
    <3> HIDE DEF n
    <3>1. rank' = [rank EXCEPT ![v] = 1 + n] /\ n \in Nat
      BY <1>1, <2>1 DEF UiMount, n
    <3> QED
      BY <3>1 DEF TypeOK
  <2>3. registry' \in [Sessions -> SUBSET Views]
    <3>1. registry \in [Sessions -> SUBSET Views]
      BY DEF TypeOK
    <3> QED
      BY <1>1, <3>1 DEF UiMount, Registered
  <2>4. native' \in [Views -> {"none", "live", "dropped", "freed"}]
    BY <1>1 DEF UiMount, TypeOK
  <2> QED
    BY <1>1, <2>2, <2>3, <2>4 DEF UiMount, TypeOK
<1>2. ASSUME NEW v \in Views, UiInitialize(v) PROVE Good
  BY <1>2 DEF UiInitialize, TypeOK
<1>3. ASSUME NEW v \in Views, UiDrop(v) PROVE Good
  BY <1>3 DEF UiDrop, TypeOK
<1>4. ASSUME NEW v \in Views, UiFree(v) PROVE Good
  <2>1. registry' \in [Sessions -> SUBSET Views]
    BY <1>4 DEF UiFree, Unregistered, TypeOK
  <2> QED
    BY <1>4, <2>1 DEF UiFree, TypeOK
<1>5. ASSUME NEW v \in Views, NEW b \in BOOLEAN, UiCreateComponent(v, b) PROVE Good
  BY <1>5 DEF UiCreateComponent, TypeOK
<1>6. ASSUME NEW c \in Calls, UiSubmit(c) PROVE Good
  <2>1. registry' \in [Sessions -> SUBSET Views]
    BY <1>6 DEF UiSubmit, TypeOK
  <2>2. PICK valid \in SUBSET {v \in Views : Alive(v) /\ component[v] = "ready"} :
           LET targets == SubmitTargets(callSession[c], valid)
           IN IF targets = {}
                THEN /\ call' = [call EXCEPT ![c] = "rejected"]
                     /\ UNCHANGED <<target, sdk>>
                ELSE /\ call' = [call EXCEPT ![c] = "resolved"]
                     /\ target' \in {[target EXCEPT ![c] = v] : v \in targets}
                     /\ sdk' = [sdk EXCEPT ![c] = "submitted"]
    BY <1>6 DEF UiSubmit
  <2>3. SubmitTargets(callSession[c], valid) \subseteq Views
    BY DEF SubmitTargets, Oldest
  <2>4. /\ call' \in [Calls -> {"idle", "sent", "resolved", "rejected"}]
        /\ target' \in [Calls -> Views \cup {None}]
        /\ sdk' \in [Calls -> {"none", "submitted", "unchecked", "done"}]
    <3> DEFINE targets == SubmitTargets(callSession[c], valid)
    <3> HIDE DEF targets
    <3>1. targets \subseteq Views
      BY <2>3 DEF targets
    <3>2. CASE targets = {}
      BY <2>2, <3>2 DEF targets, TypeOK
    <3>3. CASE targets # {}
      <4>1. /\ call' = [call EXCEPT ![c] = "resolved"]
            /\ target' \in {[target EXCEPT ![c] = v] : v \in targets}
            /\ sdk' = [sdk EXCEPT ![c] = "submitted"]
        BY <2>2, <3>3, Zenon DEF targets
      <4>2. PICK v \in targets : target' = [target EXCEPT ![c] = v]
        BY <4>1
      <4> QED
        BY <4>1, <4>2, <3>1 DEF TypeOK
    <3> QED
      BY <3>2, <3>3
  <2> QED
    BY <1>6, <2>1, <2>4 DEF UiSubmit, TypeOK
<1> HIDE DEF Good
<1>7. Good
  BY <1>1, <1>2, <1>3, <1>4, <1>5, <1>6, Zenon DEF UiStep
<1> QED
  BY <1>0, <1>7 DEF Good, TypeOK, askVars, nmVars

LEMMA TypeTaps ==
    ASSUME TypeOK, UNCHANGED method, UiTaps
    PROVE  TypeOK'
<1>0. UNCHANGED <<js, jsSession, token, post, callSession, events, inbox, askVars, nmVars, method>>
  BY DEF UiTaps
<1>1. PICK c \in Calls, v \in Views : UiTap(c, v)
  BY DEF UiTaps
<1>2. /\ call' \in [Calls -> {"idle", "sent", "resolved", "rejected"}]
      /\ target' \in [Calls -> Views \cup {None}]
      /\ sdk' \in [Calls -> {"none", "submitted", "unchecked", "done"}]
      /\ UNCHANGED <<native, component, rank, registry>>
  BY <1>1 DEF UiTap, TypeOK
<1> QED
  BY <1>0, <1>2 DEF TypeOK, askVars, nmVars

\* What a callback of the SDK may touch keeps its types.
AskTypes ==
    /\ sdk \in [Calls -> {"none", "submitted", "unchecked", "done"}]
    /\ pending \in [Views -> SUBSET Asks]
    /\ events \in SUBSET Asks
    /\ pc \in [Requests -> {"idle", "token", "tokenAnswered", "checked", "refused",
                            "waiting", "resumed", "returned", "viewGone"}]
    /\ owner \in [Requests -> Views \cup {None}]
    /\ result \in [Requests -> {"Success", "Failure", None}]
    /\ verdict \in [Requests -> {"Success", "Failure", None}]

LEMMA AskTypeOK == TypeOK => AskTypes
BY DEF TypeOK, AskTypes

LEMMA AskType ==
    ASSUME AskTypes, NEW r \in Requests, NEW kind \in Kinds, Ask(r, kind)
    PROVE  pending' \in [Views -> SUBSET Asks] /\ events' \in SUBSET Asks
<1>1. Question(r, kind) \in Asks
  BY DEF Asks, Question
<1>2. \/ pending' = pending
      \/ pending' = [pending EXCEPT ![owner'[r]] = @ \cup {Question(r, kind)}]
  BY DEF Ask, Written
<1>3. events' = events \cup {Question(r, kind)}
  BY DEF Ask
<1> HIDE DEF Question
<1> QED
  BY <1>1, <1>2, <1>3 DEF AskTypes

LEMMA TypeStart ==
    ASSUME TypeOK, UNCHANGED method, SdkStart
    PROVE  TypeOK'
<1>0. AskTypes /\ UNCHANGED <<jsVars, uiVars, registry, inbox, nmVars, method>>
  BY AskTypeOK DEF SdkStart
<1>1. ASSUME NEW c \in Calls, SdkAccepted(c) PROVE AskTypes'
  BY <1>0, <1>1 DEF SdkAccepted, AskTypes, askVars
<1>2. ASSUME NEW c \in Calls, NEW r \in Requests, SdkTokenized(c, r) PROVE AskTypes'
  <2>1. pending' \in [Views -> SUBSET Asks] /\ events' \in SUBSET Asks
    BY <1>0, <1>2, AskType DEF SdkTokenized, Kinds
  <2>2. target[c] \in Views \cup {None}
    BY DEF TypeOK
  <2> QED
    BY <1>0, <1>2, <2>1, <2>2 DEF SdkTokenized, AskTypes
<1>3. ASSUME NEW c \in Calls, NEW r \in Requests, SdkHandleSubmitUnchecked(c, r) PROVE AskTypes'
  <2>1. pending' \in [Views -> SUBSET Asks] /\ events' \in SUBSET Asks
    <3>1. CASE Bridged(target[c])
      BY <3>1, <1>0, <1>3, AskType DEF SdkHandleSubmitUnchecked, Kinds
    <3>2. CASE ~Bridged(target[c])
      BY <3>2, <1>0, <1>3 DEF SdkHandleSubmitUnchecked, AskTypes
    <3> QED
      BY <3>1, <3>2
  <2>2. target[c] \in Views \cup {None}
    BY DEF TypeOK
  <2> QED
    BY <1>0, <1>3, <2>1, <2>2 DEF SdkHandleSubmitUnchecked, AskTypes
<1>4. AskTypes'
  BY <1>1, <1>2, <1>3, Zenon DEF SdkStart
<1> QED
  BY <1>0, <1>4 DEF AskTypes, TypeOK, jsVars, uiVars, nmVars

LEMMA TypeResume ==
    ASSUME TypeOK, UNCHANGED method, SdkResume
    PROVE  TypeOK'
<1>0. AskTypes /\ UNCHANGED <<jsVars, uiVars, registry, inbox, nmVars, method>>
  BY AskTypeOK DEF SdkResume
<1>1. ASSUME NEW r \in Requests, SdkTokenReturn(r) PROVE AskTypes'
  BY <1>0, <1>1 DEF SdkTokenReturn, AskTypes
<1>2. ASSUME NEW r \in Requests, SdkHandleSubmit(r) PROVE AskTypes'
  <2>1. pending' \in [Views -> SUBSET Asks] /\ events' \in SUBSET Asks
    <3>1. CASE Bridged(owner[r])
      BY <3>1, <1>0, <1>2, AskType DEF SdkHandleSubmit, Kinds
    <3>2. CASE ~Bridged(owner[r])
      BY <3>2, <1>0, <1>2 DEF SdkHandleSubmit, AskTypes
    <3> QED
      BY <3>1, <3>2
  <2> QED
    BY <1>0, <1>2, <2>1 DEF SdkHandleSubmit, AskTypes
<1>3. ASSUME NEW r \in Requests, SdkReturn(r) PROVE AskTypes'
  BY <1>0, <1>3 DEF SdkReturn, AskTypes
<1>4. AskTypes'
  BY <1>1, <1>2, <1>3, Zenon DEF SdkResume
<1> QED
  BY <1>0, <1>4 DEF AskTypes, TypeOK, jsVars, uiVars, nmVars

Reply(r, kind, v) == [req |-> r, kind |-> kind, by |-> v]

\* What the module's queue does with the answer it has: nobody takes it, or what
\* waits for it goes on, and no entry but its own leaves a map.
Missed == UNCHANGED <<pc, result, pending>>

Resumed ==
    /\ IF nm.kind = "token"
         THEN pc' = [pc EXCEPT ![nm.req] = "tokenAnswered"] /\ UNCHANGED result
         ELSE /\ pc' = [pc EXCEPT ![nm.req] = "resumed"]
              /\ result' = [result EXCEPT ![nm.req] = Verdict(post[nm.req][nm.by])]
    /\ \A v \in Views : pending[v] \ {Question(nm.req, nm.kind)} \subseteq pending'[v]

LEMMA RouteCases ==
    ASSUME TypeOK, NmRoute
    PROVE  /\ nm # None /\ nm' = None /\ UNCHANGED <<inbox, registry, swept>>
           /\ nm.req \in Requests /\ nm.kind \in Kinds /\ nm.by \in Views
           /\ nm = Reply(nm.req, nm.kind, nm.by)
           /\ \A v \in Views : pending'[v] \subseteq pending[v]
           /\ pending' \in [Views -> SUBSET Asks]
           /\ Missed \/ Resumed
           /\ ~MapsRace /\ Holders(nm) # {} => Resumed
<1>1. /\ nm # None /\ nm' = None /\ UNCHANGED <<inbox, registry, swept>>
  BY DEF NmRoute
<1>2. /\ nm.req \in Requests /\ nm.kind \in Kinds /\ nm.by \in Views
      /\ nm = Reply(nm.req, nm.kind, nm.by)
  BY <1>1 DEF TypeOK, Answers, Reply
<1>a. PICK kept \in SUBSET {v \in Holders(nm) : MapsRace /\ MayAsk(v, nm.kind)} :
         \E missed \in SUBSET kept : Handed(kept, missed)
  BY Zenon DEF NmRoute
<1>3. PICK missed \in SUBSET kept : Handed(kept, missed)
  BY <1>a
<1>4. Holders(nm) \subseteq Views
  BY DEF Holders, Offered, Everywhere, TypeOK
<1> DEFINE takers == Holders(nm) \ missed
<1>5. /\ takers = {} => UNCHANGED <<pc, result>>
      /\ takers # {} => IF nm.kind = "token"
           THEN pc' = [pc EXCEPT ![nm.req] = "tokenAnswered"] /\ UNCHANGED result
           ELSE /\ pc' = [pc EXCEPT ![nm.req] = "resumed"]
                /\ result' = [result EXCEPT ![nm.req] = Verdict(post[nm.req][nm.by])]
  BY <1>3, Zenon DEF Handed
<1>6. pending' = [v \in Views |-> IF v \in Holders(nm) \ kept
                      THEN pending[v] \ {Question(nm.req, nm.kind)} ELSE pending[v]]
  BY <1>3 DEF Handed, Taken
<1>7. missed \subseteq kept /\ kept \subseteq Holders(nm) /\ (~MapsRace => kept = {})
  BY <1>3
<1>8. pending \in [Views -> SUBSET Asks]
  BY DEF TypeOK
<1>9. /\ \A v \in Views : pending'[v] \subseteq pending[v]
      /\ \A v \in Views : pending[v] \ {Question(nm.req, nm.kind)} \subseteq pending'[v]
  BY <1>6
<1>10. pending' \in [Views -> SUBSET Asks]
  BY <1>6, <1>8
<1>11. takers = {} => UNCHANGED pending
  BY <1>6, <1>7, <1>8
<1>12. Missed \/ Resumed
  BY <1>5, <1>9, <1>11 DEF Missed, Resumed
<1>13. ~MapsRace /\ Holders(nm) # {} => Resumed
  BY <1>5, <1>7, <1>9 DEF Resumed
<1> QED
  BY <1>1, <1>2, <1>9, <1>10, <1>12, <1>13

LEMMA TypeNm ==
    ASSUME TypeOK, UNCHANGED method, NmStep
    PROVE  TypeOK'
<1> DEFINE Good ==
        /\ registry' \in [Sessions -> SUBSET Views]
        /\ pending' \in [Views -> SUBSET Asks]
        /\ inbox' \in SUBSET Answers
        /\ pc' \in [Requests -> {"idle", "token", "tokenAnswered", "checked", "refused",
                                 "waiting", "resumed", "returned", "viewGone"}]
        /\ result' \in [Requests -> {"Success", "Failure", None}]
        /\ nm' \in Answers \cup {None}
        /\ swept' \in [Sessions -> SUBSET Views] \cup {None}
<1>0. UNCHANGED <<jsVars, uiVars, sdk, events, owner, verdict, method>>
  BY DEF NmStep
<1>1. ASSUME NEW m \in inbox, NmSweep(m) PROVE Good
  <2>1. swept' \in [Sessions -> SUBSET Views]
    BY <1>1 DEF NmSweep, TypeOK
  <2> QED
    BY <1>1, <2>1 DEF NmSweep, TypeOK
<1>2. ASSUME NmStore PROVE Good
  BY <1>2 DEF NmStore, TypeOK
<1>3. ASSUME NmRoute PROVE Good
  <2>1. /\ pending' \in [Views -> SUBSET Asks]
        /\ nm' = None /\ UNCHANGED <<inbox, registry, swept>>
    BY <1>3, RouteCases
  <2>2. \A outcome : Verdict(outcome) \in {"Success", "Failure"}
    BY DEF Verdict
  <2>3. /\ pc' \in [Requests -> {"idle", "token", "tokenAnswered", "checked", "refused",
                                 "waiting", "resumed", "returned", "viewGone"}]
        /\ result' \in [Requests -> {"Success", "Failure", None}]
    <3>1. CASE Missed
      BY <3>1 DEF Missed, TypeOK
    <3>2. CASE Resumed
      <4> DEFINE value == Verdict(post[nm.req][nm.by])
      <4>1. value \in {"Success", "Failure"}
        BY <2>2
      <4>2. /\ pc' = pc \/ \E to \in {"tokenAnswered", "resumed"} : pc' = [pc EXCEPT ![nm.req] = to]
            /\ result' = result \/ result' = [result EXCEPT ![nm.req] = value]
        BY <3>2 DEF Resumed
      <4> HIDE DEF value
      <4>3. /\ pc \in [Requests -> {"idle", "token", "tokenAnswered", "checked", "refused",
                                   "waiting", "resumed", "returned", "viewGone"}]
            /\ result \in [Requests -> {"Success", "Failure", None}]
        BY DEF TypeOK
      <4> QED
        BY <4>1, <4>2, <4>3
    <3> QED
      BY <1>3, <3>1, <3>2, RouteCases
  <2> QED
    BY <2>1, <2>3 DEF TypeOK
<1> HIDE DEF Good
<1>4. Good
  BY <1>1, <1>2, <1>3, Zenon DEF NmStep
<1> QED
  BY <1>0, <1>4 DEF Good, TypeOK, jsVars, uiVars

LEMMA TypeOKStep == TypeOK /\ [Next]_vars => TypeOK'
<1> SUFFICES ASSUME TypeOK, [Next]_vars
             PROVE  TypeOK'
  OBVIOUS
<1>1. ASSUME UNCHANGED vars PROVE TypeOK'
  BY <1>1 DEF vars, TypeOK, jsVars, uiVars, askVars, nmVars
<1> QED
  BY <1>1, MethodStep, TypeSheet, TypePay, TypeHandle, TypeUi, TypeTaps, TypeStart, TypeResume,
     TypeNm, Steps, Zenon

\* The variables of IosBridge keep their types.
THEOREM TypeCorrect == Spec => []TypeOK
<1>1. Init => TypeOK
  BY DEF Init, TypeOK
<1> QED
  BY <1>1, TypeOKStep, PTL DEF Spec
-----------------------------------------------------------------------------
\* Of the components of one method at most one is in the tree, and at most
\* one subscribed.
OneListener ==
    \A v, w \in Views : method[v] = method[w] /\ v # w =>
        /\ ~(js[v] \in Shown /\ js[w] \in Shown)
        /\ ~(js[v] \in Subscribed /\ js[w] \in Subscribed)

LEMMA OneListenerStep == TypeOK /\ OneListener /\ [Next]_vars => OneListener'
<1> SUFFICES ASSUME TypeOK, OneListener, [Next]_vars
             PROVE  OneListener'
  OBVIOUS
<1>1. UNCHANGED method /\ js \in [Views -> {"absent", "rendered", "listening", "leaving", "gone"}]
  BY MethodStep DEF TypeOK
<1>2. ASSUME UNCHANGED js PROVE OneListener'
  BY <1>1, <1>2 DEF OneListener
<1>3. ASSUME JsSheet PROVE OneListener'
  <2>1. CASE JsRunEffects
    BY <2>1, <1>1 DEF JsRunEffects, AfterEffects, OneListener, Shown, Subscribed
  <2>2. ASSUME NEW v \in Views, NEW s \in Sessions, JsOpen(v, s) PROVE OneListener'
    BY <2>2, <1>1 DEF JsOpen, EffectsRun, OneListener, Shown, Subscribed
  <2>3. ASSUME NEW v \in Views, JsClose(v) PROVE OneListener'
    BY <2>3, <1>1 DEF JsClose, EffectsRun, OneListener, Shown, Subscribed
  <2>4. ASSUME NEW v \in Views, NEW w \in Views, NEW s \in Sessions, JsSwitch(v, w, s)
        PROVE  OneListener'
    BY <2>4, <1>1 DEF JsSwitch, EffectsRun, OneListener, Shown, Subscribed
  <2> QED
    BY <1>3, <2>1, <2>2, <2>3, <2>4, Zenon DEF JsSheet
<1>4. ASSUME JsPay PROVE OneListener'
  BY <1>4, <1>2 DEF JsPay
<1>5. ASSUME JsHandle PROVE OneListener'
  BY <1>5, <1>2 DEF JsHandle
<1>6. ASSUME UiStep PROVE OneListener'
  BY <1>6, <1>2 DEF UiStep
<1>7. ASSUME UiTaps PROVE OneListener'
  BY <1>7, <1>2 DEF UiTaps
<1>8. ASSUME SdkStart PROVE OneListener'
  BY <1>8, <1>2 DEF SdkStart, jsVars
<1>9. ASSUME SdkResume PROVE OneListener'
  BY <1>9, <1>2 DEF SdkResume, jsVars
<1>10. ASSUME NmStep PROVE OneListener'
  BY <1>10, <1>2 DEF NmStep, jsVars
<1>11. ASSUME UNCHANGED vars PROVE OneListener'
  BY <1>11, <1>2 DEF vars, jsVars
<1> QED
  BY <1>3, <1>4, <1>5, <1>6, <1>7, <1>8, <1>9, <1>10, <1>11, Steps, Zenon
-----------------------------------------------------------------------------
\* Native views are those of components that were mounted, and presses go to
\* native views.
Mounted ==
    /\ \A v \in Views : js[v] # "absent" => jsSession[v] # None
    /\ \A v \in Views : native[v] # "none" => js[v] # "absent"

Submitted ==
    /\ \A c \in Calls : target[c] # None => native[target[c]] # "none"
    /\ \A c \in Calls : call[c] \in {"idle", "sent"} => sdk[c] = "none"
    /\ \A c \in Calls : sdk[c] # "none" => target[c] # None
    /\ \A c \in Calls :
          sdk[c] = "unchecked" => native[target[c]] = "freed" \/ method[target[c]] # "card"

LEMMA MountedStep == TypeOK /\ Mounted /\ [Next]_vars => Mounted'
<1> SUFFICES ASSUME TypeOK, Mounted, [Next]_vars
             PROVE  Mounted'
  OBVIOUS
<1>1. /\ js \in [Views -> {"absent", "rendered", "listening", "leaving", "gone"}]
      /\ jsSession \in [Views -> Sessions \cup {None}]
      /\ native \in [Views -> {"none", "live", "dropped", "freed"}]
      /\ None \notin Sessions
  BY NoneAssumption DEF TypeOK
<1>2. ASSUME UNCHANGED <<js, jsSession, native>> PROVE Mounted'
  BY <1>2 DEF Mounted
<1>3. ASSUME JsSheet PROVE Mounted'
  <2>0. UNCHANGED native
    BY <1>3 DEF JsSheet, uiVars
  <2>1. CASE JsRunEffects
    BY <2>0, <2>1, <1>1 DEF JsRunEffects, AfterEffects, Mounted
  <2>2. ASSUME NEW v \in Views, NEW s \in Sessions, JsOpen(v, s) PROVE Mounted'
    BY <2>0, <2>2, <1>1 DEF JsOpen, Mounted
  <2>3. ASSUME NEW v \in Views, JsClose(v) PROVE Mounted'
    BY <2>0, <2>3, <1>1 DEF JsClose, Mounted
  <2>4. ASSUME NEW v \in Views, NEW w \in Views, NEW s \in Sessions, JsSwitch(v, w, s)
        PROVE  Mounted'
    BY <2>0, <2>4, <1>1 DEF JsSwitch, Mounted
  <2> QED
    BY <1>3, <2>1, <2>2, <2>3, <2>4, Zenon DEF JsSheet
<1>4. ASSUME JsPay PROVE Mounted'
  BY <1>4, <1>2 DEF JsPay, uiVars
<1>5. ASSUME JsHandle PROVE Mounted'
  BY <1>5, <1>2 DEF JsHandle, uiVars
<1>6. ASSUME UiStep PROVE Mounted'
  <2>0. UNCHANGED <<js, jsSession>>
    BY <1>6 DEF UiStep
  <2>1. \A v \in Views : native'[v] = "none" \/ native[v] # "none" \/ js[v] \in Shown
    <3>1. ASSUME NEW v \in Views, UiMount(v) PROVE <2>1
      BY <3>1, <1>1 DEF UiMount
    <3>2. ASSUME NEW v \in Views, UiInitialize(v) PROVE <2>1
      BY <3>2 DEF UiInitialize
    <3>3. ASSUME NEW v \in Views, UiDrop(v) PROVE <2>1
      BY <3>3, <1>1 DEF UiDrop
    <3>4. ASSUME NEW v \in Views, UiFree(v) PROVE <2>1
      BY <3>4, <1>1 DEF UiFree
    <3>5. ASSUME NEW v \in Views, NEW b \in BOOLEAN, UiCreateComponent(v, b) PROVE <2>1
      BY <3>5 DEF UiCreateComponent
    <3>6. ASSUME NEW c \in Calls, UiSubmit(c) PROVE <2>1
      BY <3>6 DEF UiSubmit
    <3> QED
      BY <1>6, <3>1, <3>2, <3>3, <3>4, <3>5, <3>6, Zenon DEF UiStep
  <2> QED
    BY <2>0, <2>1 DEF Mounted, Shown
<1>7. ASSUME UiTaps PROVE Mounted'
  BY <1>7, <1>2 DEF UiTaps, UiTap
<1>8. ASSUME SdkStart PROVE Mounted'
  BY <1>8, <1>2 DEF SdkStart, jsVars, uiVars
<1>9. ASSUME SdkResume PROVE Mounted'
  BY <1>9, <1>2 DEF SdkResume, jsVars, uiVars
<1>10. ASSUME NmStep PROVE Mounted'
  BY <1>10, <1>2 DEF NmStep, jsVars, uiVars
<1>11. ASSUME UNCHANGED vars PROVE Mounted'
  BY <1>11, <1>2 DEF vars, jsVars, uiVars
<1> QED
  BY <1>3, <1>4, <1>5, <1>6, <1>7, <1>8, <1>9, <1>10, <1>11, Steps, Zenon

\* A press that submits a view that is there.
LEMMA SubmittedTo ==
    ASSUME TypeOK, Submitted, NEW c \in Calls, NEW v \in Views, native[v] # "none",
           call[c] \in {"idle", "sent"},
           target' = [target EXCEPT ![c] = v], sdk' = [sdk EXCEPT ![c] = "submitted"],
           call' = [call EXCEPT ![c] = "resolved"],
           UNCHANGED <<native, method>>
    PROVE  Submitted'
<1>1. /\ target \in [Calls -> Views \cup {None}]
      /\ sdk \in [Calls -> {"none", "submitted", "unchecked", "done"}]
      /\ call \in [Calls -> {"idle", "sent", "resolved", "rejected"}]
      /\ v # None
  BY NoneAssumption DEF TypeOK
<1>2. \A d \in Calls : target'[d] # None => native'[target'[d]] # "none"
  BY <1>1 DEF Submitted
<1>3. \A d \in Calls : call'[d] \in {"idle", "sent"} => sdk'[d] = "none"
  BY <1>1 DEF Submitted
<1>4. \A d \in Calls : sdk'[d] # "none" => target'[d] # None
  BY <1>1 DEF Submitted
<1>5. \A d \in Calls :
         sdk'[d] = "unchecked" => native'[target'[d]] = "freed" \/ method'[target'[d]] # "card"
  BY <1>1 DEF Submitted
<1> QED
  BY <1>2, <1>3, <1>4, <1>5 DEF Submitted

\* A native view moves on: created, dropped or freed.
LEMMA SubmittedStays ==
    ASSUME TypeOK, Submitted, NEW v \in Views, NEW to \in {"live", "dropped", "freed"},
           native[v] # "freed", native' = [native EXCEPT ![v] = to],
           UNCHANGED <<target, sdk, call, method>>
    PROVE  Submitted'
BY DEF Submitted, TypeOK

LEMMA SubmittedStep == TypeOK /\ Submitted /\ [Next]_vars => Submitted'
<1> SUFFICES ASSUME TypeOK, Submitted, [Next]_vars
             PROVE  Submitted'
  OBVIOUS
<1>1. UNCHANGED method
  BY MethodStep
<1>2. ASSUME UNCHANGED <<native, target, sdk, call>> PROVE Submitted'
  BY <1>1, <1>2 DEF Submitted
<1>3. ASSUME JsSheet PROVE Submitted'
  BY <1>3, <1>2 DEF JsSheet, uiVars
<1>4. ASSUME JsPay PROVE Submitted'
  <2>1. PICK c \in Calls : call[c] = "idle" /\ call' = [call EXCEPT ![c] = "sent"]
    BY <1>4 DEF JsPay, JsSubmit
  <2> QED
    BY <1>1, <1>4, <2>1 DEF JsPay, uiVars, Submitted, TypeOK
<1>5. ASSUME JsHandle PROVE Submitted'
  BY <1>5, <1>2 DEF JsHandle, uiVars
<1>6. ASSUME UiStep PROVE Submitted'
  <2>1. ASSUME NEW v \in Views, UiMount(v) PROVE Submitted'
    BY <1>1, <2>1, SubmittedStays DEF UiMount
  <2>2. ASSUME NEW v \in Views, UiInitialize(v) PROVE Submitted'
    BY <1>2, <2>2 DEF UiInitialize
  <2>3. ASSUME NEW v \in Views, UiDrop(v) PROVE Submitted'
    BY <1>1, <2>3, SubmittedStays DEF UiDrop
  <2>4. ASSUME NEW v \in Views, UiFree(v) PROVE Submitted'
    BY <1>1, <2>4, SubmittedStays DEF UiFree
  <2>5. ASSUME NEW v \in Views, NEW b \in BOOLEAN, UiCreateComponent(v, b) PROVE Submitted'
    BY <1>2, <2>5 DEF UiCreateComponent
  <2>6. ASSUME NEW c \in Calls, UiSubmit(c) PROVE Submitted'
    <3>1. UNCHANGED native /\ call[c] = "sent"
      BY <2>6 DEF UiSubmit
    <3>2. PICK valid \in SUBSET {v \in Views : Alive(v) /\ component[v] = "ready"} :
             LET targets == SubmitTargets(callSession[c], valid)
             IN IF targets = {}
                  THEN /\ call' = [call EXCEPT ![c] = "rejected"]
                       /\ UNCHANGED <<target, sdk>>
                  ELSE /\ call' = [call EXCEPT ![c] = "resolved"]
                       /\ target' \in {[target EXCEPT ![c] = v] : v \in targets}
                       /\ sdk' = [sdk EXCEPT ![c] = "submitted"]
      BY <2>6 DEF UiSubmit
    <3> DEFINE targets == SubmitTargets(callSession[c], valid)
    <3>3. targets \subseteq valid
      BY DEF SubmitTargets, Oldest
    <3> HIDE DEF targets
    <3>4. CASE targets = {}
      <4>1. call' = [call EXCEPT ![c] = "rejected"] /\ UNCHANGED <<target, sdk>>
        BY <3>2, <3>4, Zenon DEF targets
      <4> QED
        BY <1>1, <3>1, <4>1 DEF Submitted, TypeOK
    <3>5. CASE targets # {}
      <4>1. /\ call' = [call EXCEPT ![c] = "resolved"]
            /\ target' \in {[target EXCEPT ![c] = v] : v \in targets}
            /\ sdk' = [sdk EXCEPT ![c] = "submitted"]
        BY <3>2, <3>5, Zenon DEF targets
      <4>2. PICK v \in targets : target' = [target EXCEPT ![c] = v]
        BY <4>1
      <4>3. v \in Views /\ native[v] # "none"
        BY <3>3 DEF Alive
      <4> QED
        BY <1>1, <3>1, <4>1, <4>2, <4>3, SubmittedTo
    <3> QED
      BY <3>4, <3>5
  <2> QED
    BY <1>6, <2>1, <2>2, <2>3, <2>4, <2>5, <2>6, Zenon DEF UiStep
<1>7. ASSUME UiTaps PROVE Submitted'
  <2>1. PICK c \in Calls, v \in Views : UiTap(c, v)
    BY <1>7 DEF UiTaps
  <2> QED
    BY <1>1, <2>1, SubmittedTo DEF UiTap
<1>8. ASSUME SdkStart PROVE Submitted'
  <2>0. UNCHANGED <<native, target, call>>
    BY <1>8 DEF SdkStart, jsVars, uiVars
  <2>1. ASSUME NEW c \in Calls, SdkAccepted(c) PROVE Submitted'
    <3>1. sdk[c] = "submitted" /\ ~Asked(target[c]) /\ sdk' = [sdk EXCEPT ![c] = "unchecked"]
      BY <2>1 DEF SdkAccepted
    <3>2. target[c] \in Views /\ native[target[c]] # "none"
      BY <3>1 DEF Submitted, TypeOK
    <3>3. native[target[c]] = "freed" \/ method[target[c]] # "card"
      BY <3>1, <3>2 DEF Asked, Alive, TypeOK
    <3> QED
      BY <1>1, <2>0, <3>1, <3>3 DEF Submitted, TypeOK
  <2>2. ASSUME NEW c \in Calls, sdk[c] \in {"submitted", "unchecked"},
               sdk' = [sdk EXCEPT ![c] = "done"]
        PROVE  Submitted'
    BY <1>1, <2>0, <2>2 DEF Submitted, TypeOK
  <2>3. ASSUME NEW c \in Calls, NEW r \in Requests, SdkTokenized(c, r) PROVE Submitted'
    BY <2>2, <2>3 DEF SdkTokenized
  <2>4. ASSUME NEW c \in Calls, NEW r \in Requests, SdkHandleSubmitUnchecked(c, r)
        PROVE  Submitted'
    BY <2>2, <2>4 DEF SdkHandleSubmitUnchecked
  <2> QED
    BY <1>8, <2>1, <2>3, <2>4, Zenon DEF SdkStart
<1>9. ASSUME SdkResume PROVE Submitted'
  <2>1. UNCHANGED sdk
    BY <1>9 DEF SdkResume, SdkTokenReturn, SdkHandleSubmit, SdkReturn
  <2> QED
    BY <1>9, <1>2, <2>1 DEF SdkResume, jsVars, uiVars
<1>10. ASSUME NmStep PROVE Submitted'
  BY <1>10, <1>2 DEF NmStep, jsVars, uiVars
<1>11. ASSUME UNCHANGED vars PROVE Submitted'
  BY <1>11, <1>2 DEF vars, jsVars, uiVars
<1> QED
  BY <1>3, <1>4, <1>5, <1>6, <1>7, <1>8, <1>9, <1>10, <1>11, Steps, Zenon
-----------------------------------------------------------------------------
\* What is on its way between the SDK, JS and the module's queue agrees with
\* where the request is, and with what App has POSTed for it.
Early == {"idle", "token", "tokenAnswered", "checked", "refused"}
Unposted(r) == \A v \in Views : post[r][v] = "none"

Questions ==
    /\ \A r \in Requests : pc[r] \in Early => Unposted(r)
    /\ \A r \in Requests : pc[r] = "checked" => token[r] = "accepted"
    /\ \A r \in Requests : Question(r, "token") \in events => pc[r] = "token"
    /\ \A r \in Requests : Question(r, "submit") \in events =>
          /\ pc[r] = "waiting"
          /\ Unposted(r)
          /\ method[owner[r]] = "card" => token[r] = "accepted"

\* An answer on its way is the only one to its question, which waits for it.
Replies ==
    /\ nm \notin inbox
    /\ \A r \in Requests, v \in Views : InHand(Reply(r, "token", v)) =>
          /\ pc[r] = "token"
          /\ Question(r, "token") \notin events
          /\ \A w \in Views : InHand(Reply(r, "token", w)) => w = v
    /\ \A r \in Requests, v \in Views : InHand(Reply(r, "submit", v)) =>
          pc[r] = "waiting" /\ post[r][v] \in Outcomes

Results ==
    /\ \A r \in Requests, v \in Views : post[r][v] = "posting" => pc[r] = "waiting"
    /\ \A r \in Requests : pc[r] = "resumed" =>
          \E v \in Views : post[r][v] \in Outcomes /\ result[r] = Verdict(post[r][v])

Payments == Questions /\ Replies /\ Results /\ SinglePost /\ OnlyCheckedCards

\* So the answer the module's queue has was waited for when it set out, and still
\* is.
LEMMA AnswersAreWaitedFor ==
    ASSUME TypeOK, Payments, nm # None
    PROVE  /\ pc[nm.req] \in Suspended
           /\ nm.kind = KindOf(nm.req)
           /\ nm.kind = "submit" => post[nm.req][nm.by] \in Outcomes
<1>1. /\ nm.req \in Requests /\ nm.kind \in Kinds /\ nm.by \in Views
      /\ nm = Reply(nm.req, nm.kind, nm.by)
  BY DEF TypeOK, Answers, Reply
<1>2. InHand(Reply(nm.req, nm.kind, nm.by))
  BY <1>1 DEF InHand
<1> QED
  BY <1>1, <1>2 DEF Payments, Replies, Kinds, KindOf, Suspended
-----------------------------------------------------------------------------
\* What is suspended has its continuation in a map of the view whose callback it
\* is, unless accesses to the map race.
Waits(r) == Question(r, KindOf(r)) \in pending[owner[r]]

Callbacks ==
    /\ \A r \in Requests : pc[r] # "idle" => owner[r] # None
    /\ ~MapsRace => \A r \in Requests : pc[r] \in Suspended => Waits(r)

LEMMA CallbacksAsk ==
    ASSUME TypeOK, Callbacks, NEW r \in Requests, NEW v \in Views, NEW kind \in Kinds,
           NEW to, \/ kind = "token" /\ to = "token"
                   \/ kind = "submit" /\ to = "waiting",
           pc[r] \notin Suspended, pc' = [pc EXCEPT ![r] = to],
           owner' = [owner EXCEPT ![r] = v], Ask(r, kind)
    PROVE  Callbacks'
<1>1. /\ pc \in [Requests -> {"idle", "token", "tokenAnswered", "checked", "refused",
                              "waiting", "resumed", "returned", "viewGone"}]
      /\ owner \in [Requests -> Views \cup {None}]
      /\ pending \in [Views -> SUBSET Asks]
      /\ v # None
  BY NoneAssumption DEF TypeOK
<1>2. \A q \in Requests : pc'[q] # "idle" => owner'[q] # None
  BY <1>1 DEF Callbacks
<1>3. ASSUME ~MapsRace, NEW q \in Requests, pc'[q] \in Suspended PROVE Waits(q)'
  <2>1. pending' = [pending EXCEPT ![v] = pending[v] \cup {Question(r, kind)}]
    BY <1>1, <1>3 DEF Ask, Written
  <2>2. CASE q = r
    <3>1. KindOf(r)' = kind
      BY <1>1 DEF KindOf
    <3> QED
      BY <1>1, <2>1, <2>2, <3>1 DEF Waits, Question
  <2>3. CASE q # r
    <3>1. pc'[q] = pc[q] /\ owner'[q] = owner[q] /\ KindOf(q)' = KindOf(q)
      BY <1>1, <2>3 DEF KindOf
    <3>2. owner[q] \in Views /\ Question(q, KindOf(q)) \in pending[owner[q]]
      BY <1>1, <1>3, <3>1 DEF Callbacks, Waits, Suspended
    <3> QED
      BY <1>1, <2>1, <3>1, <3>2 DEF Waits, Question
  <2> QED
    BY <2>2, <2>3
<1> QED
  BY <1>2, <1>3 DEF Callbacks

\* A callback that is not suspended moves on and stays so.
LEMMA CallbacksMove ==
    ASSUME TypeOK, Callbacks, NEW r \in Requests, NEW v \in Views,
           NEW to, to \notin Suspended,
           pc[r] \notin Suspended, pc' = [pc EXCEPT ![r] = to],
           owner' = [owner EXCEPT ![r] = v], UNCHANGED pending
    PROVE  Callbacks'
<1>1. /\ pc \in [Requests -> {"idle", "token", "tokenAnswered", "checked", "refused",
                              "waiting", "resumed", "returned", "viewGone"}]
      /\ owner \in [Requests -> Views \cup {None}]
      /\ v # None
  BY NoneAssumption DEF TypeOK
<1>2. \A q \in Requests : pc'[q] # "idle" => owner'[q] # None
  BY <1>1 DEF Callbacks
<1>3. ASSUME ~MapsRace, NEW q \in Requests, pc'[q] \in Suspended PROVE Waits(q)'
  <2>1. q # r /\ pc'[q] = pc[q] /\ owner'[q] = owner[q]
    BY <1>1, <1>3
  <2> QED
    BY <1>3, <2>1 DEF Callbacks, Waits, Question, KindOf
<1> QED
  BY <1>2, <1>3 DEF Callbacks

LEMMA CallbacksStep ==
    TypeOK /\ Submitted /\ Payments /\ Callbacks /\ [Next]_vars => Callbacks'
<1> SUFFICES ASSUME TypeOK, Submitted, Payments, Callbacks, [Next]_vars
             PROVE  Callbacks'
  OBVIOUS
<1>1. /\ pc \in [Requests -> {"idle", "token", "tokenAnswered", "checked", "refused",
                              "waiting", "resumed", "returned", "viewGone"}]
      /\ owner \in [Requests -> Views \cup {None}]
      /\ pending \in [Views -> SUBSET Asks]
      /\ None \notin Views
  BY NoneAssumption DEF TypeOK
<1>2. ASSUME UNCHANGED askVars PROVE Callbacks'
  BY <1>2 DEF Callbacks, Waits, Question, KindOf, askVars
<1>3. ASSUME JsSheet PROVE Callbacks'
  BY <1>3, <1>2 DEF JsSheet
<1>4. ASSUME JsPay PROVE Callbacks'
  BY <1>4, <1>2 DEF JsPay
<1>5. ASSUME JsHandle PROVE Callbacks'
  BY <1>5, <1>2 DEF JsHandle
<1>6. ASSUME UiStep PROVE Callbacks'
  BY <1>6, <1>2 DEF UiStep
<1>7. ASSUME UiTaps PROVE Callbacks'
  BY <1>7, <1>2 DEF UiTaps
<1>8. ASSUME SdkStart PROVE Callbacks'
  <2>1. ASSUME NEW c \in Calls, SdkAccepted(c) PROVE Callbacks'
    BY <1>2, <2>1 DEF SdkAccepted
  <2>0. ASSUME NEW c \in Calls, sdk[c] # "none" PROVE target[c] \in Views
    BY <2>0 DEF Submitted, TypeOK
  <2>2. ASSUME NEW c \in Calls, NEW r \in Requests, SdkTokenized(c, r) PROVE Callbacks'
    <3>1. target[c] \in Views /\ pc[r] \notin Suspended
      BY <2>0, <2>2 DEF SdkTokenized, Suspended
    <3>2. /\ pc' = [pc EXCEPT ![r] = "token"]
          /\ owner' = [owner EXCEPT ![r] = target[c]]
          /\ Ask(r, "token")
      BY <2>2 DEF SdkTokenized
    <3> QED
      BY <3>1, <3>2, CallbacksAsk DEF Kinds, Suspended
  <2>3. ASSUME NEW c \in Calls, NEW r \in Requests, SdkHandleSubmitUnchecked(c, r)
        PROVE  Callbacks'
    <3>1. target[c] \in Views /\ pc[r] \notin Suspended
      BY <2>0, <2>3 DEF SdkHandleSubmitUnchecked, Suspended
    <3>2. owner' = [owner EXCEPT ![r] = target[c]]
      BY <2>3 DEF SdkHandleSubmitUnchecked
    <3>3. CASE Bridged(target[c])
      <4>1. pc' = [pc EXCEPT ![r] = "waiting"] /\ Ask(r, "submit")
        BY <2>3, <3>3 DEF SdkHandleSubmitUnchecked
      <4> QED
        BY <3>1, <3>2, <4>1, CallbacksAsk DEF Kinds, Suspended
    <3>4. CASE ~Bridged(target[c])
      <4>1. pc' = [pc EXCEPT ![r] = "viewGone"] /\ UNCHANGED pending
        BY <2>3, <3>4 DEF SdkHandleSubmitUnchecked
      <4>2. "viewGone" \notin Suspended
        BY DEF Suspended
      <4> QED
        BY <3>1, <3>2, <4>1, <4>2, CallbacksMove
    <3> QED
      BY <3>3, <3>4
  <2> QED
    BY <1>8, <2>1, <2>2, <2>3, Zenon DEF SdkStart
<1>9. ASSUME SdkResume PROVE Callbacks'
  <2>0. ASSUME NEW r \in Requests, pc[r] # "idle", UNCHANGED owner
        PROVE  owner[r] \in Views /\ owner' = [owner EXCEPT ![r] = owner[r]]
    BY <1>1, <2>0 DEF Callbacks
  <2>1. ASSUME NEW r \in Requests, SdkTokenReturn(r) PROVE Callbacks'
    <3>1. pc[r] = "tokenAnswered" /\ UNCHANGED <<owner, pending>>
      BY <2>1 DEF SdkTokenReturn
    <3>2. PICK to \in {"checked", "refused"} : pc' = [pc EXCEPT ![r] = to]
      BY <2>1 DEF SdkTokenReturn
    <3>3. to \notin Suspended /\ pc[r] \notin Suspended
      BY <3>1 DEF Suspended
    <3> QED
      BY <2>0, <3>1, <3>2, <3>3, CallbacksMove
  <2>2. ASSUME NEW r \in Requests, SdkHandleSubmit(r) PROVE Callbacks'
    <3>1. pc[r] = "checked" /\ UNCHANGED owner
      BY <2>2 DEF SdkHandleSubmit
    <3>2. owner[r] \in Views /\ owner' = [owner EXCEPT ![r] = owner[r]] /\ pc[r] \notin Suspended
      BY <2>0, <3>1 DEF Suspended
    <3>3. CASE Bridged(owner[r])
      <4>1. pc' = [pc EXCEPT ![r] = "waiting"] /\ Ask(r, "submit")
        BY <2>2, <3>3 DEF SdkHandleSubmit
      <4> QED
        BY <3>2, <4>1, CallbacksAsk DEF Kinds, Suspended
    <3>4. CASE ~Bridged(owner[r])
      <4>1. pc' = [pc EXCEPT ![r] = "viewGone"] /\ UNCHANGED pending
        BY <2>2, <3>4 DEF SdkHandleSubmit
      <4>2. "viewGone" \notin Suspended
        BY DEF Suspended
      <4> QED
        BY <3>2, <4>1, <4>2, CallbacksMove
    <3> QED
      BY <3>3, <3>4
  <2>3. ASSUME NEW r \in Requests, SdkReturn(r) PROVE Callbacks'
    <3>1. pc[r] = "resumed" /\ UNCHANGED <<owner, pending>> /\ pc' = [pc EXCEPT ![r] = "returned"]
      BY <2>3 DEF SdkReturn
    <3>2. "returned" \notin Suspended /\ pc[r] \notin Suspended
      BY <3>1 DEF Suspended
    <3> QED
      BY <2>0, <3>1, <3>2, CallbacksMove
  <2> QED
    BY <1>9, <2>1, <2>2, <2>3, Zenon DEF SdkResume
<1>10. ASSUME NmStep PROVE Callbacks'
  <2>0. UNCHANGED owner
    BY <1>10 DEF NmStep
  <2>1. ASSUME NEW m \in inbox, NmSweep(m) PROVE Callbacks'
    BY <2>0, <2>1 DEF NmSweep, Callbacks, Waits, Question, KindOf
  <2>2. ASSUME NmStore PROVE Callbacks'
    BY <2>0, <2>2 DEF NmStore, Callbacks, Waits, Question, KindOf
  <2>3. ASSUME NmRoute PROVE Callbacks'
    <3>1. nm.req \in Requests
      BY <2>3, RouteCases
    <3>2. CASE Missed
      BY <2>0, <3>2 DEF Missed, Callbacks, Waits, Question, KindOf
    <3>3. CASE Resumed
      <4>1. PICK to \in {"tokenAnswered", "resumed"} : pc' = [pc EXCEPT ![nm.req] = to]
        BY <3>3 DEF Resumed
      <4>2. ASSUME NEW q \in Requests, pc'[q] # "idle" PROVE owner'[q] # None
        <5>1. CASE q = nm.req
          BY <2>0, <2>3, <5>1, RouteCases, AnswersAreWaitedFor DEF Callbacks, Suspended
        <5>2. CASE q # nm.req
          BY <1>1, <2>0, <4>1, <4>2, <5>2 DEF Callbacks
        <5> QED
          BY <5>1, <5>2
      <4>3. ASSUME ~MapsRace, NEW q \in Requests, pc'[q] \in Suspended PROVE Waits(q)'
        <5>1. q # nm.req /\ pc'[q] = pc[q]
          BY <1>1, <3>1, <4>1, <4>3 DEF Suspended
        <5>2. Question(q, KindOf(q)) \in pending[owner[q]] /\ owner[q] \in Views
          BY <1>1, <4>3, <5>1 DEF Callbacks, Waits, Suspended
        <5>3. Question(q, KindOf(q)) # Question(nm.req, nm.kind)
          BY <5>1 DEF Question
        <5>4. Question(q, KindOf(q)) \in pending'[owner[q]]
          BY <3>3, <5>2, <5>3 DEF Resumed
        <5> QED
          BY <2>0, <5>1, <5>4 DEF Waits, Question, KindOf
      <4> QED
        BY <4>2, <4>3 DEF Callbacks
    <3> QED
      BY <2>3, <3>2, <3>3, RouteCases
  <2> QED
    BY <1>10, <2>1, <2>2, <2>3, Zenon DEF NmStep
<1>11. ASSUME UNCHANGED vars PROVE Callbacks'
  BY <1>11, <1>2 DEF vars
<1> QED
  BY <1>3, <1>4, <1>5, <1>6, <1>7, <1>8, <1>9, <1>10, <1>11, Steps, Zenon
-----------------------------------------------------------------------------
\* The types these lemmas need.
PaymentTypes ==
    /\ token \in [Requests -> {"accepted", "rejected", None}]
    /\ post \in [Requests -> [Views -> {"none", "posting"} \cup Outcomes]]
    /\ pc \in [Requests -> {"idle", "token", "tokenAnswered", "checked", "refused",
                            "waiting", "resumed", "returned", "viewGone"}]
    /\ owner \in [Requests -> Views \cup {None}]
    /\ result \in [Requests -> {"Success", "Failure", None}]

LEMMA PaymentTypesOK == TypeOK => PaymentTypes
BY DEF TypeOK, PaymentTypes

LEMMA Messages ==
    /\ \A r, q, k, l : Question(r, k) = Question(q, l) => r = q /\ k = l
    /\ \A r, q, k, l, v, w : Reply(r, k, v) = Reply(q, l, w) => r = q /\ k = l /\ v = w
BY DEF Question, Reply

\* Answers that were on their way before, to requests that have not moved.
LEMMA RepliesKept ==
    ASSUME Replies, nm' \notin inbox',
           \A r \in Requests, kind \in Kinds, v \in Views : InHand(Reply(r, kind, v))' =>
              /\ InHand(Reply(r, kind, v))
              /\ pc'[r] = pc[r]
              /\ post'[r][v] = post[r][v]
              /\ Question(r, "token") \in events' => Question(r, "token") \in events
    PROVE  Replies'
<1>1. "token" \in Kinds /\ "submit" \in Kinds
  BY DEF Kinds
<1>2. \A r : Question(r, "token")' = Question(r, "token")
  BY DEF Question
<1> QED
  BY <1>1, <1>2 DEF Replies

LEMMA PaymentsTokenized ==
    ASSUME PaymentTypes, OneListener, Payments,
           NEW r \in Requests, NEW answer \in {"accepted", "rejected"},
           JsTokenized(r, answer), UNCHANGED <<pc, owner, result, nm, method>>
    PROVE  Payments'
<1>1. /\ Question(r, "token") \in events
      /\ events' = events \ {Question(r, "token")}
      /\ inbox' = inbox \cup {Reply(r, "token", v) : v \in Listeners(r)}
      /\ \A q \in Requests : q # r => token'[q] = token[q]
      /\ UNCHANGED post
  BY DEF JsTokenized, Question, Reply, PaymentTypes
<1>2. pc[r] = "token" /\ Unposted(r)
  BY <1>1 DEF Payments, Questions, Early
<1>3. Questions'
  <2>1. \A q \in Requests : pc'[q] \in Early => Unposted(q)'
    BY <1>1 DEF Payments, Questions, Unposted
  <2>2. \A q \in Requests : pc'[q] = "checked" => token'[q] = "accepted"
    BY <1>1, <1>2 DEF Payments, Questions
  <2>3. \A q \in Requests : Question(q, "token")' \in events' => pc'[q] = "token"
    BY <1>1 DEF Payments, Questions, Question
  <2>4. \A q \in Requests : Question(q, "submit")' \in events' =>
          /\ pc'[q] = "waiting"
          /\ Unposted(q)'
          /\ method'[owner'[q]] = "card" => token'[q] = "accepted"
    BY <1>1, <1>2 DEF Payments, Questions, Question, Unposted
  <2> QED
    BY <2>1, <2>2, <2>3, <2>4 DEF Questions
<1>4. Replies'
  <2>1. \A q \in Requests, v \in Views : InHand(Reply(q, "token", v))' =>
          \/ InHand(Reply(q, "token", v)) /\ q # r
          \/ q = r /\ v \in Listeners(r)
    <3>1. \A v \in Views : ~InHand(Reply(r, "token", v))
      BY <1>1 DEF Payments, Replies
    <3>2. \A q \in Requests, v \in Views : InHand(Reply(q, "token", v))' =>
            \/ InHand(Reply(q, "token", v))
            \/ q = r /\ v \in Listeners(r)
      BY <1>1, Messages DEF InHand, Reply
    <3> QED
      BY <3>1, <3>2
  <2>2. \A q \in Requests, v \in Views : InHand(Reply(q, "submit", v))' =>
          InHand(Reply(q, "submit", v))
    BY <1>1, Messages DEF InHand, Reply
  <2>3. \A v, w \in Listeners(r) : v = w
    BY DEF Listeners, OneListener
  <2>4. \A q \in Requests, v \in Views : InHand(Reply(q, "token", v))' =>
          /\ pc'[q] = "token"
          /\ Question(q, "token")' \notin events'
          /\ \A w \in Views : InHand(Reply(q, "token", w))' => w = v
    <3> SUFFICES ASSUME NEW q \in Requests, NEW v \in Views, InHand(Reply(q, "token", v))'
                 PROVE  /\ pc'[q] = "token"
                        /\ Question(q, "token")' \notin events'
                        /\ \A w \in Views : InHand(Reply(q, "token", w))' => w = v
      OBVIOUS
    <3>1. CASE q = r
      BY <1>1, <1>2, <2>1, <2>3, <3>1 DEF Question
    <3>2. CASE q # r
      BY <1>1, <2>1, <3>2 DEF Payments, Replies, Question
    <3> QED
      BY <3>1, <3>2
  <2>5. nm' \notin inbox'
    <3>1. ASSUME NEW v \in Listeners(r), nm = Reply(r, "token", v) PROVE FALSE
      <4>1. v \in Views /\ Reply(r, "token", v) \in Answers
        BY DEF Listeners, Reply, Answers, Kinds
      <4>2. InHand(Reply(r, "token", v))
        BY <3>1, <4>1, NoAnswerAssumption DEF InHand
      <4> QED
        BY <1>1, <4>1, <4>2 DEF Payments, Replies
    <3> QED
      BY <1>1, <3>1 DEF Payments, Replies
  <2>6. \A q \in Requests, v \in Views : InHand(Reply(q, "submit", v))' =>
          pc'[q] = "waiting" /\ post'[q][v] \in Outcomes
    BY <1>1, <2>2 DEF Payments, Replies
  <2> QED
    BY <2>4, <2>5, <2>6 DEF Replies
<1>r. Results'
  BY <1>1 DEF Payments, Results, Verdict, Decodes
<1>5. SinglePost' /\ OnlyCheckedCards'
  <2>1. SinglePost'
    BY <1>1 DEF Payments, SinglePost
  <2>2. OnlyCheckedCards'
    BY <1>1, <1>2 DEF Payments, OnlyCheckedCards, Unposted
  <2> QED
    BY <2>1, <2>2
<1> QED
  BY <1>3, <1>4, <1>r, <1>5 DEF Payments

LEMMA PaymentsDeliver ==
    ASSUME PaymentTypes, OneListener, Payments, NEW r \in Requests, JsDeliver(r),
           UNCHANGED <<pc, owner, result, nm, method>>
    PROVE  Payments'
<1>1. /\ Question(r, "submit") \in events
      /\ events' = events \ {Question(r, "submit")}
      /\ \A v \in Views : post'[r][v] = IF v \in Listeners(r) THEN "posting" ELSE post[r][v]
      /\ \A q \in Requests : q # r => post'[q] = post[q]
      /\ UNCHANGED <<token, inbox>>
  BY DEF JsDeliver, Question, PaymentTypes
<1>2. /\ pc[r] = "waiting"
      /\ Unposted(r)
      /\ method[owner[r]] = "card" => token[r] = "accepted"
  BY <1>1 DEF Payments, Questions
<1>3. Questions'
  <2>1. \A q \in Requests : pc'[q] \in Early => Unposted(q)'
    BY <1>1, <1>2 DEF Payments, Questions, Unposted, Early
  <2>2. \A q \in Requests : Question(q, "token")' \in events' => pc'[q] = "token"
    BY <1>1 DEF Payments, Questions, Question
  <2>3. \A q \in Requests : Question(q, "submit")' \in events' =>
          /\ pc'[q] = "waiting"
          /\ Unposted(q)'
          /\ method'[owner'[q]] = "card" => token'[q] = "accepted"
    BY <1>1 DEF Payments, Questions, Question, Unposted
  <2> QED
    BY <1>1, <2>1, <2>2, <2>3 DEF Payments, Questions
<1>4. Replies'
  <2> SUFFICES ASSUME NEW q \in Requests, NEW kind \in Kinds, NEW v \in Views,
                      InHand(Reply(q, kind, v))'
               PROVE  /\ InHand(Reply(q, kind, v))
                      /\ post'[q][v] = post[q][v]
    BY <1>1, RepliesKept DEF Payments, Replies
  <2>1. InHand(Reply(q, kind, v))
    BY <1>1 DEF InHand, Reply
  <2>2. q # r
    BY <1>2, <2>1 DEF Payments, Replies, Unposted, Outcomes, Kinds
  <2> QED
    BY <1>1, <2>1, <2>2
<1>r. Results'
  <2>1. \A q \in Requests, v \in Views : post'[q][v] = "posting" => pc'[q] = "waiting"
    BY <1>1, <1>2 DEF Payments, Results
  <2>2. \A q \in Requests : pc'[q] = "resumed" =>
          \E v \in Views : post'[q][v] \in Outcomes /\ result'[q] = Verdict(post'[q][v])
    BY <1>1, <1>2 DEF Payments, Results
  <2> QED
    BY <2>1, <2>2 DEF Results, Verdict, Decodes
<1>5. SinglePost'
  <2>1. \A v, w \in Views : v \in Listeners(r) /\ w \in Listeners(r) => v = w
    BY DEF Listeners, OneListener
  <2>2. \A v \in Views : post'[r][v] # "none" => v \in Listeners(r)
    BY <1>1, <1>2 DEF Unposted
  <2> QED
    BY <1>1, <2>1, <2>2 DEF Payments, SinglePost
<1>6. OnlyCheckedCards'
  <2>1. \A v \in Views : post'[r][v] # "none" => method[v] = method[owner[r]]
    BY <1>1, <1>2 DEF Unposted, Listeners
  <2> QED
    BY <1>1, <1>2, <2>1 DEF Payments, OnlyCheckedCards
<1> QED
  BY <1>3, <1>4, <1>r, <1>5, <1>6 DEF Payments

LEMMA PaymentsAnswer ==
    ASSUME PaymentTypes, Payments, NEW r \in Requests, NEW v \in Views,
           NEW outcome \in Outcomes, JsAnswer(r, v, outcome),
           UNCHANGED <<pc, owner, result, nm, method>>
    PROVE  Payments'
<1>1. /\ post[r][v] = "posting"
      /\ post'[r][v] = outcome
      /\ \A q \in Requests, w \in Views : q # r \/ w # v => post'[q][w] = post[q][w]
      /\ inbox' = inbox \cup {Reply(r, "submit", v)}
      /\ UNCHANGED <<token, events>>
  BY DEF JsAnswer, Reply, PaymentTypes
<1>2. pc[r] = "waiting" /\ Question(r, "submit") \notin events
  BY <1>1 DEF Payments, Results, Questions, Unposted
<1>3. Questions'
  <2>1. \A q \in Requests : pc'[q] \in Early => Unposted(q)'
    BY <1>1, <1>2 DEF Payments, Questions, Unposted, Early
  <2>2. \A q \in Requests : Question(q, "submit")' \in events' =>
          /\ pc'[q] = "waiting"
          /\ Unposted(q)'
          /\ method'[owner'[q]] = "card" => token'[q] = "accepted"
    BY <1>1, <1>2 DEF Payments, Questions, Question, Unposted
  <2> QED
    BY <1>1, <2>1, <2>2 DEF Payments, Questions, Question
<1>4. Replies'
  <2>1. \A q \in Requests, w \in Views : InHand(Reply(q, "token", w))' =>
          InHand(Reply(q, "token", w))
    BY <1>1, Messages DEF InHand, Reply
  <2>2. \A q \in Requests, w \in Views : InHand(Reply(q, "submit", w))' =>
          InHand(Reply(q, "submit", w)) \/ (q = r /\ w = v)
    BY <1>1, Messages DEF InHand, Reply
  <2>3. \A q \in Requests, w \in Views : InHand(Reply(q, "token", w))' =>
          /\ pc'[q] = "token"
          /\ Question(q, "token")' \notin events'
          /\ \A u \in Views : InHand(Reply(q, "token", u))' => u = w
    BY <1>1, <2>1 DEF Payments, Replies, Question
  <2>4. \A q \in Requests, w \in Views : InHand(Reply(q, "submit", w))' =>
          pc'[q] = "waiting" /\ post'[q][w] \in Outcomes
    BY <1>1, <1>2, <2>2 DEF Payments, Replies
  <2>5. nm' \notin inbox'
    <3>1. Reply(r, "submit", v) \in Answers
      BY DEF Reply, Answers, Kinds
    <3>2. nm = Reply(r, "submit", v) => InHand(Reply(r, "submit", v))
      BY <3>1, NoAnswerAssumption DEF InHand
    <3> QED
      BY <1>1, <3>2 DEF Payments, Replies, Outcomes
  <2> QED
    BY <2>3, <2>4, <2>5 DEF Replies
<1>r. Results'
  <2>1. \A q \in Requests, w \in Views : post'[q][w] = "posting" => pc'[q] = "waiting"
    BY <1>1, <1>2 DEF Payments, Results, Outcomes
  <2>2. \A q \in Requests : pc'[q] = "resumed" =>
          \E w \in Views : post'[q][w] \in Outcomes /\ result'[q] = Verdict(post'[q][w])
    BY <1>1, <1>2 DEF Payments, Results
  <2> QED
    BY <2>1, <2>2 DEF Results, Verdict, Decodes
<1>5. SinglePost'
  BY <1>1 DEF Payments, SinglePost
<1>6. OnlyCheckedCards'
  BY <1>1 DEF Payments, OnlyCheckedCards
<1> QED
  BY <1>3, <1>4, <1>r, <1>5, <1>6 DEF Payments

\* The SDK's callback of r moves on: nothing is asked, or something is.
LEMMA PaymentsMove ==
    ASSUME PaymentTypes, Payments, NEW r \in Requests, NEW to,
           to \in {"checked", "refused", "returned", "viewGone"},
           pc[r] \in Early \ {"token"} \/ (pc[r] = "resumed" /\ to \notin Early),
           to \in Early => pc[r] \in Early,
           to = "checked" => token[r] = "accepted",
           pc' = [pc EXCEPT ![r] = to],
           pc[r] # "idle" => owner'[r] = owner[r],
           \A q \in Requests : q # r => owner'[q] = owner[q],
           UNCHANGED <<token, post, events, inbox, nm, result, method>>
    PROVE  Payments'
<1>1. /\ pc'[r] = to
      /\ \A q \in Requests : q # r => pc'[q] = pc[q]
      /\ pc[r] \notin {"token", "waiting"}
  BY DEF PaymentTypes, Early
<1>2. /\ \A q, k : Question(q, k)' = Question(q, k)
      /\ \A q, k, v : InHand(Reply(q, k, v))' <=> InHand(Reply(q, k, v))
  BY DEF Question, Reply, InHand
<1>3. Questions'
  <2>1. \A q \in Requests : pc'[q] \in Early => Unposted(q)'
    BY <1>1 DEF Payments, Questions, Unposted
  <2>2. \A q \in Requests : pc'[q] = "checked" => token'[q] = "accepted"
    BY <1>1 DEF Payments, Questions
  <2>3. \A q \in Requests : Question(q, "token")' \in events' => pc'[q] = "token"
    BY <1>1, <1>2 DEF Payments, Questions
  <2>4. \A q \in Requests : Question(q, "submit")' \in events' =>
          /\ pc'[q] = "waiting"
          /\ Unposted(q)'
          /\ method'[owner'[q]] = "card" => token'[q] = "accepted"
    BY <1>1, <1>2 DEF Payments, Questions, Unposted
  <2> QED
    BY <2>1, <2>2, <2>3, <2>4 DEF Questions
<1>4. Replies'
  <2>1. \A q \in Requests, kind \in Kinds, v \in Views : InHand(Reply(q, kind, v)) => q # r
    BY <1>1 DEF Payments, Replies, Kinds
  <2> QED
    BY <1>1, <1>2, <2>1, RepliesKept DEF Payments, Replies
<1>r. Results'
  <2>1. \A q \in Requests, v \in Views : post'[q][v] = "posting" => pc'[q] = "waiting"
    BY <1>1 DEF Payments, Results
  <2>2. \A q \in Requests : pc'[q] = "resumed" =>
          \E v \in Views : post'[q][v] \in Outcomes /\ result'[q] = Verdict(post'[q][v])
    BY <1>1 DEF Payments, Results
  <2> QED
    BY <2>1, <2>2 DEF Results, Verdict, Decodes
<1>5. SinglePost' /\ OnlyCheckedCards'
  BY DEF Payments, SinglePost, OnlyCheckedCards
<1> QED
  BY <1>3, <1>4, <1>r, <1>5 DEF Payments

LEMMA PaymentsAsk ==
    ASSUME PaymentTypes, Payments, NEW r \in Requests, NEW kind \in Kinds, NEW to,
           \/ kind = "token" /\ to = "token" /\ pc[r] = "idle"
           \/ /\ kind = "submit" /\ to = "waiting" /\ pc[r] \in {"idle", "checked"}
              /\ method[owner'[r]] = "card" => token[r] = "accepted",
           pc' = [pc EXCEPT ![r] = to], Ask(r, kind),
           \A q \in Requests : q # r => owner'[q] = owner[q],
           UNCHANGED <<token, post, inbox, nm, result, method>>
    PROVE  Payments'
<1>1. /\ pc'[r] = to
      /\ \A q \in Requests : q # r => pc'[q] = pc[q]
      /\ pc[r] \in {"idle", "checked"}
      /\ Unposted(r)
      /\ Question(r, "token") \notin events /\ Question(r, "submit") \notin events
  BY DEF PaymentTypes, Early, Payments, Questions
<1>2. /\ \A q, k : Question(q, k)' = Question(q, k)
      /\ \A q, k, v : InHand(Reply(q, k, v))' <=> InHand(Reply(q, k, v))
      /\ events' = events \cup {Question(r, kind)}
  BY DEF Question, Reply, InHand, Ask
<1>3. \A q, k : Question(q, k) \in events' => Question(q, k) \in events \/ (q = r /\ k = kind)
  BY <1>2, Messages
<1>4. Questions'
  <2>1. \A q \in Requests : pc'[q] \in Early => Unposted(q)'
    BY <1>1 DEF Payments, Questions, Unposted
  <2>2. \A q \in Requests : pc'[q] = "checked" => token'[q] = "accepted"
    BY <1>1 DEF Payments, Questions
  <2>3. \A q \in Requests : Question(q, "token")' \in events' => pc'[q] = "token"
    BY <1>1, <1>2, <1>3 DEF Payments, Questions
  <2>4. \A q \in Requests : Question(q, "submit")' \in events' =>
          /\ pc'[q] = "waiting"
          /\ Unposted(q)'
          /\ method'[owner'[q]] = "card" => token'[q] = "accepted"
    BY <1>1, <1>2, <1>3 DEF Payments, Questions, Unposted
  <2> QED
    BY <2>1, <2>2, <2>3, <2>4 DEF Questions
<1>5. Replies'
  <2>1. \A q \in Requests, k \in Kinds, v \in Views : InHand(Reply(q, k, v)) => q # r
    BY <1>1 DEF Payments, Replies, Kinds
  <2> QED
    BY <1>1, <1>2, <1>3, <2>1, RepliesKept DEF Payments, Replies
<1>r. Results'
  <2>1. \A q \in Requests, v \in Views : post'[q][v] = "posting" => pc'[q] = "waiting"
    BY <1>1 DEF Payments, Results
  <2>2. \A q \in Requests : pc'[q] = "resumed" =>
          \E v \in Views : post'[q][v] \in Outcomes /\ result'[q] = Verdict(post'[q][v])
    BY <1>1 DEF Payments, Results
  <2> QED
    BY <2>1, <2>2 DEF Results, Verdict, Decodes
<1>6. SinglePost' /\ OnlyCheckedCards'
  BY DEF Payments, SinglePost, OnlyCheckedCards
<1> QED
  BY <1>4, <1>5, <1>r, <1>6 DEF Payments

\* Messages that were in hand before, and requests that have not moved.
LEMMA PaymentsKept ==
    ASSUME Payments, nm' \notin inbox', \A m \in Answers : InHand(m)' => InHand(m),
           UNCHANGED <<token, post, events, pc, owner, result, method>>
    PROVE  Payments'
<1>1. Questions'
  BY DEF Payments, Questions, Unposted, Question
<1>2. Replies'
  <2>1. \A r \in Requests, kind \in Kinds, v \in Views : Reply(r, kind, v) \in Answers
    BY DEF Reply, Answers
  <2>2. \A r \in Requests, kind \in Kinds, v \in Views :
           InHand(Reply(r, kind, v))' => InHand(Reply(r, kind, v))
    BY <2>1 DEF InHand, Reply
  <2> QED
    BY <2>2, RepliesKept DEF Payments
<1>3. Results'
  BY DEF Payments, Results, Verdict, Decodes
<1>4. SinglePost' /\ OnlyCheckedCards'
  BY DEF Payments, SinglePost, OnlyCheckedCards
<1> QED
  BY <1>1, <1>2, <1>3, <1>4 DEF Payments

LEMMA PaymentsRoute ==
    ASSUME TypeOK, Payments, NmRoute, UNCHANGED <<token, post, events, owner, method>>
    PROVE  Payments'
<1> DEFINE r == nm.req
<1>1. /\ nm # None /\ nm' = None /\ UNCHANGED inbox
      /\ r \in Requests /\ nm.kind \in Kinds /\ nm.by \in Views
      /\ nm = Reply(r, nm.kind, nm.by)
  BY RouteCases
<1>2. nm' \notin inbox'
  BY <1>1, NoAnswerAssumption DEF TypeOK
<1>3. \A m : InHand(m)' => InHand(m) /\ m # nm
  BY <1>1 DEF InHand, Payments, Replies
<1>4. CASE Missed
  BY <1>2, <1>3, <1>4, PaymentsKept DEF Missed
<1>5. /\ pc[r] \in Suspended /\ nm.kind = KindOf(r)
      /\ nm.kind = "submit" => post[r][nm.by] \in Outcomes
      /\ InHand(nm)
  BY <1>1, AnswersAreWaitedFor DEF InHand
<1> HIDE DEF r
<1>6. PaymentTypes
  BY PaymentTypesOK
<1>7. SinglePost' /\ OnlyCheckedCards'
  BY DEF Payments, SinglePost, OnlyCheckedCards
<1>8. \A q \in Requests, kind \in Kinds, v \in Views :
         InHand(Reply(q, kind, v))' => InHand(Reply(q, kind, v)) /\ q # r
  <2> SUFFICES ASSUME NEW q \in Requests, NEW kind \in Kinds, NEW v \in Views,
                      InHand(Reply(q, kind, v))'
               PROVE  InHand(Reply(q, kind, v)) /\ q # r
    OBVIOUS
  <2>1. InHand(Reply(q, kind, v)) /\ Reply(q, kind, v) # nm
    BY <1>3 DEF InHand, Reply
  <2>2. ASSUME q = r PROVE FALSE
    <3>1. kind = nm.kind
      BY <1>5, <2>1, <2>2 DEF Payments, Replies, Kinds, KindOf
    <3>2. v = nm.by
      <4>1. CASE kind = "token"
        BY <1>1, <1>5, <2>1, <2>2, <3>1, <4>1 DEF Payments, Replies
      <4>2. CASE kind = "submit"
        <5>1. post[r][v] \in Outcomes /\ post[r][nm.by] \in Outcomes
          BY <1>1, <1>5, <2>1, <2>2, <3>1, <4>2 DEF Payments, Replies
        <5> QED
          BY <1>1, <5>1 DEF Payments, SinglePost, Outcomes
      <4> QED
        BY <4>1, <4>2 DEF Kinds
    <3> QED
      BY <1>1, <2>1, <2>2, <3>1, <3>2
  <2> QED
    BY <2>1, <2>2
<1>9. CASE Resumed
  <2>1. /\ nm.kind = "token" => pc'[r] = "tokenAnswered" /\ UNCHANGED result
        /\ nm.kind # "token" => pc'[r] = "resumed" /\ result'[r] = Verdict(post[r][nm.by])
        /\ \A q \in Requests : q # r => pc'[q] = pc[q] /\ result'[q] = result[q]
    BY <1>1, <1>6, <1>9 DEF Resumed, r, PaymentTypes
  <2>2. Question(r, "token") \notin events /\ Question(r, "submit") \notin events
    <3>1. CASE nm.kind = "token"
      BY <1>1, <1>5, <3>1 DEF Payments, Questions, Replies, KindOf
    <3>2. CASE nm.kind = "submit"
      BY <1>1, <1>5, <3>2 DEF Payments, Questions, Unposted, KindOf, Suspended, Outcomes
    <3> QED
      BY <1>1, <3>1, <3>2 DEF Kinds
  <2>3. Questions'
    <3>1. \A q \in Requests : pc'[q] \in Early => Unposted(q)'
      BY <1>5, <2>1 DEF Payments, Questions, Unposted, Early, KindOf
    <3>2. \A q \in Requests : pc'[q] = "checked" => token'[q] = "accepted"
      BY <2>1 DEF Payments, Questions
    <3>3. \A q \in Requests : Question(q, "token")' \in events' => pc'[q] = "token"
      BY <2>1, <2>2 DEF Payments, Questions, Question
    <3>4. \A q \in Requests : Question(q, "submit")' \in events' =>
            /\ pc'[q] = "waiting"
            /\ Unposted(q)'
            /\ method'[owner'[q]] = "card" => token'[q] = "accepted"
      BY <2>1, <2>2 DEF Payments, Questions, Unposted, Question
    <3> QED
      BY <3>1, <3>2, <3>3, <3>4 DEF Questions
  <2>4. Replies'
    BY <1>2, <1>8, <2>1, RepliesKept DEF Payments
  <2>5. Results'
    <3>1. \A q \in Requests, v \in Views : post'[q][v] = "posting" => pc'[q] = "waiting"
      <4>1. \A v \in Views : post[r][v] # "posting"
        <5>1. CASE nm.kind = "token"
          BY <1>1, <1>5, <5>1 DEF Payments, Results, KindOf
        <5>2. CASE nm.kind = "submit"
          BY <1>1, <1>5, <5>2 DEF Payments, SinglePost, Outcomes
        <5> QED
          BY <1>1, <5>1, <5>2 DEF Kinds
      <4> QED
        BY <2>1, <4>1 DEF Payments, Results
    <3>2. \A q \in Requests : pc'[q] = "resumed" =>
            \E v \in Views : post'[q][v] \in Outcomes /\ result'[q] = Verdict(post'[q][v])
      <4> SUFFICES ASSUME NEW q \in Requests, pc'[q] = "resumed"
                   PROVE  \E v \in Views :
                            post'[q][v] \in Outcomes /\ result'[q] = Verdict(post'[q][v])
        OBVIOUS
      <4>1. CASE q = r
        BY <1>1, <1>5, <2>1, <4>1 DEF Kinds
      <4>2. CASE q # r
        BY <2>1, <4>2 DEF Payments, Results
      <4> QED
        BY <4>1, <4>2
    <3> QED
      BY <3>1, <3>2 DEF Results, Verdict, Decodes
  <2> QED
    BY <1>7, <2>3, <2>4, <2>5 DEF Payments
<1> QED
  BY <1>4, <1>9, RouteCases

LEMMA PaymentsStep ==
    TypeOK /\ OneListener /\ Submitted /\ Payments /\ [Next]_vars => Payments'
<1> SUFFICES ASSUME TypeOK, OneListener, Submitted, Payments, [Next]_vars
             PROVE  Payments'
  OBVIOUS
<1>1. UNCHANGED method /\ PaymentTypes
  BY MethodStep, PaymentTypesOK
<1>2. ASSUME UNCHANGED <<token, post, events, inbox, nm, pc, owner, result>> PROVE Payments'
  <2>1. nm' \notin inbox' /\ \A m : InHand(m)' => InHand(m)
    BY <1>2 DEF InHand, Payments, Replies
  <2> QED
    BY <1>1, <1>2, <2>1, PaymentsKept
<1>3. ASSUME JsSheet PROVE Payments'
  BY <1>3, <1>2 DEF JsSheet, askVars, nmVars
<1>4. ASSUME JsPay PROVE Payments'
  BY <1>4, <1>2 DEF JsPay, askVars, nmVars
<1>5. ASSUME JsHandle PROVE Payments'
  <2>0. UNCHANGED <<pc, owner, result, nm, method>>
    BY <1>1, <1>5 DEF JsHandle, askVars, nmVars
  <2>1. ASSUME NEW r \in Requests, NEW answer \in {"accepted", "rejected"},
               JsTokenized(r, answer)
        PROVE  Payments'
    BY <1>1, <2>0, <2>1, PaymentsTokenized
  <2>2. ASSUME NEW r \in Requests, JsDeliver(r) PROVE Payments'
    BY <1>1, <2>0, <2>2, PaymentsDeliver
  <2>3. ASSUME NEW r \in Requests, NEW v \in Views, NEW outcome \in Outcomes,
               JsAnswer(r, v, outcome)
        PROVE  Payments'
    BY <1>1, <2>0, <2>3, PaymentsAnswer
  <2> QED
    BY <1>5, <2>1, <2>2, <2>3, Zenon DEF JsHandle
<1>6. ASSUME UiStep PROVE Payments'
  BY <1>6, <1>2 DEF UiStep, askVars, nmVars
<1>7. ASSUME UiTaps PROVE Payments'
  BY <1>7, <1>2 DEF UiTaps, askVars, nmVars
<1>8. ASSUME SdkStart PROVE Payments'
  <2>0. UNCHANGED <<token, post, inbox, nm>>
    BY <1>8 DEF SdkStart, jsVars, nmVars
  <2>1. ASSUME NEW c \in Calls, SdkAccepted(c) PROVE Payments'
    BY <1>2, <2>0, <2>1 DEF SdkAccepted, askVars
  <2>2. ASSUME NEW c \in Calls, NEW r \in Requests, SdkTokenized(c, r) PROVE Payments'
    <3>1. /\ pc[r] = "idle" /\ pc' = [pc EXCEPT ![r] = "token"]
          /\ Ask(r, "token")
          /\ \A q \in Requests : q # r => owner'[q] = owner[q]
          /\ UNCHANGED result
      BY <1>1, <2>2 DEF SdkTokenized, PaymentTypes
    <3> QED
      BY <1>1, <2>0, <3>1, PaymentsAsk DEF Kinds
  <2>3. ASSUME NEW c \in Calls, NEW r \in Requests, SdkHandleSubmitUnchecked(c, r)
        PROVE  Payments'
    <3>1. /\ pc[r] = "idle" /\ sdk[c] = "unchecked"
          /\ owner'[r] = target[c]
          /\ \A q \in Requests : q # r => owner'[q] = owner[q]
          /\ UNCHANGED result
      BY <1>1, <2>3 DEF SdkHandleSubmitUnchecked, PaymentTypes
    <3>2. CASE Bridged(target[c])
      <4>1. pc' = [pc EXCEPT ![r] = "waiting"] /\ Ask(r, "submit")
        BY <2>3, <3>2 DEF SdkHandleSubmitUnchecked
      <4>2. method[owner'[r]] # "card"
        BY <3>1, <3>2 DEF Submitted, Bridged, Alive
      <4> QED
        BY <1>1, <2>0, <3>1, <4>1, <4>2, PaymentsAsk DEF Kinds
    <3>3. CASE ~Bridged(target[c])
      <4>1. pc' = [pc EXCEPT ![r] = "viewGone"] /\ UNCHANGED <<pending, events>>
        BY <2>3, <3>3 DEF SdkHandleSubmitUnchecked
      <4>2. pc[r] \in Early \ {"token"} /\ "viewGone" \notin Early
        BY <3>1 DEF Early
      <4> QED
        BY <1>1, <2>0, <3>1, <4>1, <4>2, PaymentsMove
    <3> QED
      BY <3>2, <3>3
  <2> QED
    BY <1>8, <2>1, <2>2, <2>3, Zenon DEF SdkStart
<1>9. ASSUME SdkResume PROVE Payments'
  <2>0. UNCHANGED <<token, post, inbox, nm>>
    BY <1>9 DEF SdkResume, jsVars, nmVars
  <2>1. ASSUME NEW r \in Requests, SdkTokenReturn(r) PROVE Payments'
    <3>1. /\ pc[r] = "tokenAnswered"
          /\ UNCHANGED <<events, owner, result>>
      BY <2>1 DEF SdkTokenReturn
    <3>2. PICK to \in {"checked", "refused"} :
             pc' = [pc EXCEPT ![r] = to] /\ (to = "checked" => token[r] = "accepted")
      BY <2>1 DEF SdkTokenReturn
    <3>3. pc[r] \in Early \ {"token"}
      BY <3>1 DEF Early
    <3> QED
      BY <1>1, <2>0, <3>1, <3>2, <3>3, PaymentsMove
  <2>2. ASSUME NEW r \in Requests, SdkHandleSubmit(r) PROVE Payments'
    <3>1. pc[r] = "checked" /\ token[r] = "accepted" /\ UNCHANGED <<owner, result>>
      BY <2>2 DEF SdkHandleSubmit, Payments, Questions
    <3>2. CASE Bridged(owner[r])
      <4>1. pc' = [pc EXCEPT ![r] = "waiting"] /\ Ask(r, "submit")
        BY <2>2, <3>2 DEF SdkHandleSubmit
      <4> QED
        BY <1>1, <2>0, <3>1, <4>1, PaymentsAsk DEF Kinds
    <3>3. CASE ~Bridged(owner[r])
      <4>1. pc' = [pc EXCEPT ![r] = "viewGone"] /\ UNCHANGED <<pending, events>>
        BY <2>2, <3>3 DEF SdkHandleSubmit
      <4>2. pc[r] \in Early \ {"token"} /\ "viewGone" \notin Early
        BY <3>1 DEF Early
      <4> QED
        BY <1>1, <2>0, <3>1, <4>1, <4>2, PaymentsMove
    <3> QED
      BY <3>2, <3>3
  <2>3. ASSUME NEW r \in Requests, SdkReturn(r) PROVE Payments'
    <3>1. /\ pc[r] = "resumed" /\ pc' = [pc EXCEPT ![r] = "returned"]
          /\ UNCHANGED <<events, owner, result>>
      BY <2>3 DEF SdkReturn
    <3>2. "returned" \notin Early
      BY DEF Early
    <3> QED
      BY <1>1, <2>0, <3>1, <3>2, PaymentsMove
  <2> QED
    BY <1>9, <2>1, <2>2, <2>3, Zenon DEF SdkResume
<1>10. ASSUME NmStep PROVE Payments'
  <2>0. UNCHANGED <<token, post, events, owner>>
    BY <1>10 DEF NmStep, jsVars
  <2>1. ASSUME NEW m \in inbox, NmSweep(m) PROVE Payments'
    <3>1. nm' \notin inbox' /\ \A n : InHand(n)' => InHand(n)
      BY <2>1 DEF NmSweep, InHand
    <3>2. UNCHANGED <<pc, result>>
      BY <2>1 DEF NmSweep
    <3> QED
      BY <1>1, <2>0, <3>1, <3>2, PaymentsKept
  <2>2. ASSUME NmStore PROVE Payments'
    BY <1>2, <2>0, <2>2 DEF NmStore
  <2>3. ASSUME NmRoute PROVE Payments'
    BY <1>1, <2>0, <2>3, PaymentsRoute
  <2> QED
    BY <1>10, <2>1, <2>2, <2>3, Zenon DEF NmStep
<1>11. ASSUME UNCHANGED vars PROVE Payments'
  BY <1>11, <1>2 DEF vars, jsVars, askVars, nmVars
<1> QED
  BY <1>3, <1>4, <1>5, <1>6, <1>7, <1>8, <1>9, <1>10, <1>11, Steps, Zenon
-----------------------------------------------------------------------------
\* A callback that is suspended keeps its view, and a live view keeps its
\* place in the registry and in a sweep that has begun, unless registrations
\* fall into sweeps.
Held == \A r \in Requests : pc[r] \in Suspended => Alive(owner[r])

Registers ==
    ~MapsRace => \A v \in Views : Alive(v) =>
        /\ v \in registry[jsSession[v]]
        /\ swept # None => v \in swept[jsSession[v]]

LEMMA HeldStep == TypeOK /\ Callbacks /\ Held /\ [Next]_vars => Held'
<1> SUFFICES ASSUME TypeOK, Callbacks, Held, [Next]_vars
             PROVE  Held'
  OBVIOUS
<1>1. /\ native \in [Views -> {"none", "live", "dropped", "freed"}]
      /\ pc \in [Requests -> {"idle", "token", "tokenAnswered", "checked", "refused",
                              "waiting", "resumed", "returned", "viewGone"}]
      /\ owner \in [Requests -> Views \cup {None}]
      /\ \A r \in Requests : pc[r] # "idle" => owner[r] \in Views
  BY DEF TypeOK, Callbacks
<1>2. ASSUME UNCHANGED <<native, pc, owner>> PROVE Held'
  BY <1>2 DEF Held, Alive
<1>3. ASSUME JsSheet PROVE Held'
  BY <1>3, <1>2 DEF JsSheet, uiVars, askVars
<1>4. ASSUME JsPay PROVE Held'
  BY <1>4, <1>2 DEF JsPay, uiVars, askVars
<1>5. ASSUME JsHandle PROVE Held'
  BY <1>5, <1>2 DEF JsHandle, uiVars, askVars
<1>6. ASSUME UiStep PROVE Held'
  <2>0. UNCHANGED <<pc, owner>>
    BY <1>6 DEF UiStep, askVars
  <2>1. ASSUME NEW v \in Views, UiMount(v) PROVE Held'
    BY <1>1, <2>0, <2>1 DEF UiMount, Held, Alive, Suspended
  <2>2. ASSUME NEW v \in Views, UiInitialize(v) PROVE Held'
    BY <1>2, <2>0, <2>2 DEF UiInitialize
  <2>3. ASSUME NEW v \in Views, UiDrop(v) PROVE Held'
    BY <1>1, <2>0, <2>3 DEF UiDrop, Held, Alive, Suspended
  <2>4. ASSUME NEW v \in Views, UiFree(v) PROVE Held'
    BY <1>1, <2>0, <2>4 DEF UiFree, Held, Alive, Suspended, Retained
  <2>5. ASSUME NEW v \in Views, NEW b \in BOOLEAN, UiCreateComponent(v, b) PROVE Held'
    BY <1>2, <2>0, <2>5 DEF UiCreateComponent
  <2>6. ASSUME NEW c \in Calls, UiSubmit(c) PROVE Held'
    BY <1>2, <2>0, <2>6 DEF UiSubmit
  <2> QED
    BY <1>6, <2>1, <2>2, <2>3, <2>4, <2>5, <2>6, Zenon DEF UiStep
<1>7. ASSUME UiTaps PROVE Held'
  BY <1>7, <1>2 DEF UiTaps, UiTap, askVars
<1>8. ASSUME SdkStart PROVE Held'
  <2>0. UNCHANGED native
    BY <1>8 DEF SdkStart, uiVars
  <2>1. ASSUME NEW c \in Calls, SdkAccepted(c) PROVE Held'
    BY <1>2, <2>0, <2>1 DEF SdkAccepted, askVars
  <2>2. ASSUME NEW c \in Calls, NEW r \in Requests, SdkTokenized(c, r) PROVE Held'
    BY <1>1, <2>0, <2>2 DEF SdkTokenized, Asked, Held, Alive
  <2>3. ASSUME NEW c \in Calls, NEW r \in Requests, SdkHandleSubmitUnchecked(c, r) PROVE Held'
    BY <1>1, <2>0, <2>3 DEF SdkHandleSubmitUnchecked, Bridged, Held, Alive, Suspended
  <2> QED
    BY <1>8, <2>1, <2>2, <2>3, Zenon DEF SdkStart
<1>9. ASSUME SdkResume PROVE Held'
  <2>0. UNCHANGED native
    BY <1>9 DEF SdkResume, uiVars
  <2>1. ASSUME NEW r \in Requests, SdkTokenReturn(r) PROVE Held'
    BY <1>1, <2>0, <2>1 DEF SdkTokenReturn, Held, Alive, Suspended
  <2>2. ASSUME NEW r \in Requests, SdkHandleSubmit(r) PROVE Held'
    BY <1>1, <2>0, <2>2 DEF SdkHandleSubmit, Bridged, Held, Alive, Suspended
  <2>3. ASSUME NEW r \in Requests, SdkReturn(r) PROVE Held'
    BY <1>1, <2>0, <2>3 DEF SdkReturn, Held, Alive, Suspended
  <2> QED
    BY <1>9, <2>1, <2>2, <2>3, Zenon DEF SdkResume
<1>10. ASSUME NmStep PROVE Held'
  <2>0. UNCHANGED <<native, owner>>
    BY <1>10 DEF NmStep, uiVars
  <2>1. \A r \in Requests : pc'[r] \in Suspended => pc'[r] = pc[r]
    <3>1. ASSUME NEW m \in inbox, NmSweep(m) PROVE <2>1
      BY <3>1 DEF NmSweep
    <3>2. ASSUME NmStore PROVE <2>1
      BY <3>2 DEF NmStore
    <3>3. ASSUME NmRoute PROVE <2>1
      <4>1. \/ pc' = pc
            \/ \E to \in {"tokenAnswered", "resumed"} : pc' = [pc EXCEPT ![nm.req] = to]
        BY <3>3, RouteCases DEF Missed, Resumed
      <4> QED
        BY <1>1, <4>1 DEF Suspended
    <3> QED
      BY <1>10, <3>1, <3>2, <3>3, Zenon DEF NmStep
  <2> QED
    BY <2>0, <2>1 DEF Held, Alive
<1>11. ASSUME UNCHANGED vars PROVE Held'
  BY <1>11, <1>2 DEF vars, uiVars, askVars
<1> QED
  BY <1>3, <1>4, <1>5, <1>6, <1>7, <1>8, <1>9, <1>10, <1>11, Steps, Zenon

LEMMA RegistersStep == TypeOK /\ Mounted /\ Registers /\ [Next]_vars => Registers'
<1> SUFFICES ASSUME TypeOK, Mounted, Registers, [Next]_vars, ~MapsRace
             PROVE  \A v \in Views : Alive(v)' =>
                        /\ v \in registry'[jsSession'[v]]
                        /\ swept' # None => v \in swept'[jsSession'[v]]
  BY DEF Registers
<1> DEFINE Good == \A v \in Views : Alive(v)' =>
                        /\ v \in registry'[jsSession'[v]]
                        /\ swept' # None => v \in swept'[jsSession'[v]]
<1>1. /\ native \in [Views -> {"none", "live", "dropped", "freed"}]
      /\ js \in [Views -> {"absent", "rendered", "listening", "leaving", "gone"}]
      /\ jsSession \in [Views -> Sessions \cup {None}]
      /\ registry \in [Sessions -> SUBSET Views]
      /\ swept \in [Sessions -> SUBSET Views] \cup {None}
  BY DEF TypeOK
<1>2. \A v \in Views : Alive(v) =>
          /\ jsSession[v] \in Sessions
          /\ js[v] # "absent"
          /\ v \in registry[jsSession[v]]
          /\ swept # None => v \in swept[jsSession[v]]
  BY <1>1 DEF Registers, Mounted, Alive
<1>3. ASSUME UNCHANGED <<native, registry, swept>>,
             \A v \in Views : Alive(v) => jsSession'[v] = jsSession[v]
      PROVE  Good
  BY <1>2, <1>3 DEF Alive
<1>4. ASSUME JsSheet PROVE Good
  <2>0. UNCHANGED <<native, registry, swept>>
    BY <1>4 DEF JsSheet, uiVars, nmVars
  <2>1. ASSUME NEW v \in Views, js[v] = "absent", NEW s \in Sessions,
               jsSession' = [jsSession EXCEPT ![v] = s]
        PROVE  Good
    BY <1>1, <1>2, <1>3, <2>0, <2>1
  <2>2. ASSUME UNCHANGED jsSession PROVE Good
    BY <1>3, <2>0, <2>2
  <2>3. CASE JsRunEffects
    BY <2>2, <2>3 DEF JsRunEffects
  <2>4. ASSUME NEW v \in Views, NEW s \in Sessions, JsOpen(v, s) PROVE Good
    BY <2>1, <2>4 DEF JsOpen
  <2>5. ASSUME NEW v \in Views, JsClose(v) PROVE Good
    BY <2>2, <2>5 DEF JsClose
  <2>6. ASSUME NEW v \in Views, NEW w \in Views, NEW s \in Sessions, JsSwitch(v, w, s)
        PROVE  Good
    BY <2>1, <2>6 DEF JsSwitch
  <2> HIDE DEF Good
  <2> QED
    BY <1>4, <2>3, <2>4, <2>5, <2>6, Zenon DEF JsSheet
<1>5. ASSUME JsPay PROVE Good
  BY <1>5, <1>3 DEF JsPay, uiVars, nmVars
<1>6. ASSUME JsHandle PROVE Good
  BY <1>6, <1>3 DEF JsHandle, uiVars, nmVars
<1>7. ASSUME UiStep PROVE Good
  <2>0. UNCHANGED <<js, jsSession, swept>>
    BY <1>7 DEF UiStep, nmVars
  <2>1. ASSUME NEW v \in Views, UiMount(v) PROVE Good
    <3>1. /\ swept = None
          /\ js[v] # "absent"
          /\ native' = [native EXCEPT ![v] = "live"]
          /\ registry' = [registry EXCEPT ![jsSession[v]] =
                            {w \in registry[jsSession[v]] : Alive(w)} \cup {v}]
      BY <2>1 DEF UiMount, NoSweep, Registered, Shown
    <3>2. jsSession[v] \in Sessions
      BY <1>1, <3>1 DEF Mounted
    <3>3. v \in registry'[jsSession'[v]]
      BY <1>1, <2>0, <3>1, <3>2
    <3>4. \A w \in Views : w # v /\ Alive(w)' => w \in registry'[jsSession'[w]]
      BY <1>1, <1>2, <2>0, <3>1, <3>2 DEF Alive
    <3> QED
      BY <2>0, <3>1, <3>3, <3>4
  <2>2. ASSUME NEW v \in Views, UiInitialize(v) PROVE Good
    BY <1>3, <2>0, <2>2 DEF UiInitialize
  <2>3. ASSUME NEW v \in Views, UiDrop(v) PROVE Good
    <3>1. /\ native[v] = "live"
          /\ native' = [native EXCEPT ![v] = "dropped"]
          /\ UNCHANGED registry
      BY <2>3 DEF UiDrop
    <3>2. \A w \in Views : Alive(w)' => Alive(w)
      BY <1>1, <3>1 DEF Alive
    <3> QED
      BY <1>2, <2>0, <3>1, <3>2
  <2>4. ASSUME NEW v \in Views, UiFree(v) PROVE Good
    <3>1. /\ swept = None
          /\ native' = [native EXCEPT ![v] = "freed"]
          /\ registry' = [s \in Sessions |-> {w \in registry[s] : w # v /\ Alive(w)}]
      BY <2>4 DEF UiFree, NoSweep, Unregistered
    <3>2. \A w \in Views : Alive(w)' => Alive(w) /\ w # v
      BY <1>1, <3>1 DEF Alive
    <3> QED
      BY <1>2, <2>0, <3>1, <3>2
  <2>5. ASSUME NEW v \in Views, NEW b \in BOOLEAN, UiCreateComponent(v, b) PROVE Good
    BY <1>3, <2>0, <2>5 DEF UiCreateComponent
  <2>6. ASSUME NEW c \in Calls, UiSubmit(c) PROVE Good
    <3>1. /\ swept = None
          /\ registry' = [s \in Sessions |-> {w \in registry[s] : Alive(w)}]
          /\ UNCHANGED native
      BY <2>6 DEF UiSubmit, NoSweep
    <3> QED
      BY <1>2, <2>0, <3>1 DEF Alive
  <2> HIDE DEF Good
  <2> QED
    BY <1>7, <2>1, <2>2, <2>3, <2>4, <2>5, <2>6, Zenon DEF UiStep
<1>8. ASSUME UiTaps PROVE Good
  BY <1>8, <1>3 DEF UiTaps, UiTap, nmVars
<1>9. ASSUME SdkStart PROVE Good
  BY <1>9, <1>3 DEF SdkStart, jsVars, uiVars, nmVars
<1>10. ASSUME SdkResume PROVE Good
  BY <1>10, <1>3 DEF SdkResume, jsVars, uiVars, nmVars
<1>11. ASSUME NmStep PROVE Good
  <2>0. UNCHANGED <<jsSession, native>>
    BY <1>11 DEF NmStep, jsVars, uiVars
  <2>1. ASSUME NEW m \in inbox, NmSweep(m) PROVE Good
    <3>1. /\ UNCHANGED registry
          /\ swept' = [s \in Sessions |-> {v \in registry[s] : Alive(v)}]
      BY <2>1 DEF NmSweep
    <3> QED
      BY <1>2, <2>0, <3>1 DEF Alive
  <2>2. ASSUME NmStore PROVE Good
    BY <1>2, <2>0, <2>2 DEF NmStore, Alive
  <2>3. ASSUME NmRoute PROVE Good
    BY <1>3, <2>0, <2>3 DEF NmRoute
  <2> HIDE DEF Good
  <2> QED
    BY <1>11, <2>1, <2>2, <2>3, Zenon DEF NmStep
<1>12. ASSUME UNCHANGED vars PROVE Good
  BY <1>12, <1>3 DEF vars, jsVars, uiVars, nmVars
<1> HIDE DEF Good
<1>13. Good
  BY <1>4, <1>5, <1>6, <1>7, <1>8, <1>9, <1>10, <1>11, <1>12, Steps, Zenon
<1> QED
  BY <1>13 DEF Good
-----------------------------------------------------------------------------
\* The inductive invariant.
IInv ==
    /\ TypeOK
    /\ OneListener
    /\ Mounted
    /\ Submitted
    /\ Callbacks
    /\ Payments
    /\ Held
    /\ Registers

LEMMA IInvInit == Init => IInv
<1> SUFFICES ASSUME Init PROVE IInv
  OBVIOUS
<1>1. TypeOK
  BY DEF Init, TypeOK
<1>2. OneListener /\ Mounted /\ Submitted
  BY DEF Init, OneListener, Mounted, Submitted, Shown, Subscribed
<1>3. Callbacks /\ Held
  BY DEF Init, Callbacks, Held, Suspended
<1>4. Payments
  <2>1. Questions
    BY DEF Init, Questions, Unposted
  <2>2. Replies /\ Results
    BY DEF Init, Replies, Results, InHand
  <2>3. SinglePost /\ OnlyCheckedCards
    BY DEF Init, SinglePost, OnlyCheckedCards
  <2> QED
    BY <2>1, <2>2, <2>3 DEF Payments
<1>5. Registers
  BY DEF Init, Registers, Alive
<1> QED
  BY <1>1, <1>2, <1>3, <1>4, <1>5 DEF IInv

LEMMA IInvStep == IInv /\ [Next]_vars => IInv'
BY TypeOKStep, OneListenerStep, MountedStep, SubmittedStep, CallbacksStep, PaymentsStep,
   HeldStep, RegistersStep, Zenon DEF IInv

\* Every reachable state satisfies the inductive invariant.
THEOREM Invariance == Spec => []IInv
BY IInvInit, IInvStep, PTL DEF Spec

\* An event goes to a component, not to a view, and still a payment is POSTed
\* by one listener only (CardView.tsx, ApplePayView.tsx).
THEOREM PostedOnce == Spec => []SinglePost
<1>1. IInv => SinglePost
  BY DEF IInv, Payments
<1> QED
  BY <1>1, Invariance, PTL

\* A card is POSTed only after App.handleTokenized has accepted it, though the
\* SDK is told ".accepted" unasked once the view is gone (CardPayView.swift).
THEOREM CardsAreChecked == Spec => []OnlyCheckedCards
<1>1. IInv => OnlyCheckedCards
  BY DEF IInv, Payments
<1> QED
  BY <1>1, Invariance, PTL

LEMMA Routed ==
    ASSUME IInv, ~MapsRace
    PROVE  Reachable
<1> SUFFICES ASSUME NEW r \in Requests, pc[r] \in Suspended
             PROVE  /\ Alive(owner[r])
                    /\ Question(r, KindOf(r)) \in pending[owner[r]]
                    /\ owner[r] \in Everywhere
  BY DEF Reachable
<1>1. Alive(owner[r]) /\ Question(r, KindOf(r)) \in pending[owner[r]] /\ owner[r] \in Views
  BY DEF IInv, TypeOK, Held, Callbacks, Waits, Suspended
<1>2. owner[r] \in registry[jsSession[owner[r]]] /\ jsSession[owner[r]] \in Sessions
  BY <1>1 DEF IInv, TypeOK, Registers, Mounted, Alive
<1> QED
  BY <1>1, <1>2 DEF Everywhere

\* The answer to a suspended callback can find it, through a weak reference,
\* provided the main thread keeps out of the sweeps of the module's queue
\* (ApplePayModule.swift).
THEOREM AnswersAreRouted == Spec => [](~MapsRace => Reachable)
<1>1. IInv => (~MapsRace => Reachable)
  BY Routed
<1> QED
  BY <1>1, Invariance, PTL

\* The view of a callback stays the same, and only the queue ends its wait.
LEMMA OwnerStays ==
    IInv /\ [Next]_vars => \A r \in Requests : pc[r] # "idle" => owner'[r] = owner[r]
<1> SUFFICES ASSUME IInv, [Next]_vars
             PROVE  \A r \in Requests : pc[r] # "idle" => owner'[r] = owner[r]
  OBVIOUS
<1> DEFINE Good == \A r \in Requests : pc[r] # "idle" => owner'[r] = owner[r]
<1>1. owner \in [Requests -> Views \cup {None}]
  BY DEF IInv, TypeOK
<1>2. ASSUME UNCHANGED owner PROVE Good
  BY <1>2
<1>3. ASSUME SdkStart PROVE Good
  <2>1. ASSUME NEW c \in Calls, SdkAccepted(c) PROVE Good
    BY <1>2, <2>1 DEF SdkAccepted, askVars
  <2>2. ASSUME NEW c \in Calls, NEW r \in Requests, SdkTokenized(c, r) PROVE Good
    BY <1>1, <2>2 DEF SdkTokenized
  <2>3. ASSUME NEW c \in Calls, NEW r \in Requests, SdkHandleSubmitUnchecked(c, r) PROVE Good
    BY <1>1, <2>3 DEF SdkHandleSubmitUnchecked
  <2> HIDE DEF Good
  <2> QED
    BY <1>3, <2>1, <2>2, <2>3, Zenon DEF SdkStart
<1> HIDE DEF Good
<1>4. JsSheet \/ JsPay \/ JsHandle \/ UiStep \/ UiTaps \/ SdkResume \/ NmStep \/ UNCHANGED vars
         => UNCHANGED owner
  BY DEF JsSheet, JsPay, JsHandle, UiStep, UiTaps, SdkResume, SdkTokenReturn, SdkHandleSubmit,
         SdkReturn, NmStep, askVars, vars
<1>5. Good
  BY <1>2, <1>3, <1>4, Steps, Zenon
<1> QED
  BY <1>5 DEF Good

LEMMA WaitsForAnswer ==
    IInv /\ [Next]_vars => \A r \in Requests :
        pc[r] = "waiting" /\ pc'[r] # "waiting" =>
            pc'[r] = "resumed" /\ \E v \in Views : post[r][v] \in Outcomes
<1> SUFFICES ASSUME IInv, [Next]_vars
             PROVE  \A r \in Requests :
                        pc[r] = "waiting" /\ pc'[r] # "waiting" =>
                            pc'[r] = "resumed" /\ \E v \in Views : post[r][v] \in Outcomes
  OBVIOUS
<1> DEFINE Good == \A r \in Requests :
                        pc[r] = "waiting" /\ pc'[r] # "waiting" =>
                            pc'[r] = "resumed" /\ \E v \in Views : post[r][v] \in Outcomes
<1>1. pc \in [Requests -> {"idle", "token", "tokenAnswered", "checked", "refused",
                           "waiting", "resumed", "returned", "viewGone"}]
  BY DEF IInv, TypeOK
<1>2. ASSUME UNCHANGED pc PROVE Good
  BY <1>2
<1>3. ASSUME NEW r \in Requests, pc[r] # "waiting", NEW to, pc' = [pc EXCEPT ![r] = to]
      PROVE  Good
  BY <1>1, <1>3
<1>4. ASSUME NmRoute PROVE Good
  <2>1. CASE Missed
    BY <1>2, <2>1 DEF Missed
  <2>2. CASE Resumed
    <3>1. /\ nm # None /\ nm.req \in Requests /\ nm.by \in Views /\ nm.kind \in Kinds
          /\ nm.kind = KindOf(nm.req)
          /\ nm.kind = "submit" => post[nm.req][nm.by] \in Outcomes
      BY <1>4, RouteCases, AnswersAreWaitedFor DEF IInv
    <3>2. CASE nm.kind = "token"
      BY <1>3, <2>2, <3>1, <3>2 DEF Resumed, KindOf
    <3>3. CASE nm.kind = "submit"
      BY <1>1, <2>2, <3>1, <3>3 DEF Resumed
    <3> QED
      BY <3>1, <3>2, <3>3 DEF Kinds
  <2> QED
    BY <1>4, <2>1, <2>2, RouteCases DEF IInv
<1>5. ASSUME SdkStart PROVE Good
  <2>1. ASSUME NEW c \in Calls, SdkAccepted(c) PROVE Good
    BY <1>2, <2>1 DEF SdkAccepted, askVars
  <2>2. ASSUME NEW c \in Calls, NEW r \in Requests, SdkTokenized(c, r) PROVE Good
    BY <1>3, <2>2 DEF SdkTokenized
  <2>3. ASSUME NEW c \in Calls, NEW r \in Requests, SdkHandleSubmitUnchecked(c, r) PROVE Good
    BY <1>3, <2>3 DEF SdkHandleSubmitUnchecked
  <2> HIDE DEF Good
  <2> QED
    BY <1>5, <2>1, <2>2, <2>3, Zenon DEF SdkStart
<1>6. ASSUME SdkResume PROVE Good
  <2>1. ASSUME NEW r \in Requests, SdkTokenReturn(r) PROVE Good
    BY <1>3, <2>1 DEF SdkTokenReturn
  <2>2. ASSUME NEW r \in Requests, SdkHandleSubmit(r) PROVE Good
    BY <1>3, <2>2 DEF SdkHandleSubmit
  <2>3. ASSUME NEW r \in Requests, SdkReturn(r) PROVE Good
    BY <1>3, <2>3 DEF SdkReturn
  <2> HIDE DEF Good
  <2> QED
    BY <1>6, <2>1, <2>2, <2>3, Zenon DEF SdkResume
<1> HIDE DEF Good
<1>7. ASSUME NmStep PROVE Good
  BY <1>2, <1>4, <1>7, Zenon DEF NmStep, NmSweep, NmStore
<1>8. JsSheet \/ JsPay \/ JsHandle \/ UiStep \/ UiTaps \/ UNCHANGED vars => UNCHANGED pc
  BY DEF JsSheet, JsPay, JsHandle, UiStep, UiTaps, askVars, vars
<1>9. Good
  BY <1>2, <1>5, <1>6, <1>7, <1>8, Steps, Zenon
<1> QED
  BY <1>9 DEF Good

\* Entries leave the maps, and callbacks go on, in the steps of the queue only.
OnlyAsks ==
    /\ \A v \in Views : pending[v] \subseteq pending'[v]
    /\ \A r \in Requests : pc'[r] \in {"tokenAnswered", "resumed"} => pc'[r] = pc[r]

LEMMA OnlyRouteResumes ==
    ASSUME TypeOK, [Next]_vars
    PROVE  OnlyAsks \/ NmRoute
<1>1. /\ pending \in [Views -> SUBSET Asks]
      /\ pc \in [Requests -> {"idle", "token", "tokenAnswered", "checked", "refused",
                              "waiting", "resumed", "returned", "viewGone"}]
  BY DEF TypeOK
<1>2. ASSUME UNCHANGED <<pc, pending>> PROVE OnlyAsks
  BY <1>2 DEF OnlyAsks
<1>3. ASSUME NEW r \in Requests, NEW to, to \notin {"tokenAnswered", "resumed"},
             pc' = [pc EXCEPT ![r] = to],
             UNCHANGED pending \/ \E kind \in Kinds : Ask(r, kind)
      PROVE  OnlyAsks
  <2>1. \A v \in Views : pending[v] \subseteq pending'[v]
    BY <1>1, <1>3 DEF Ask, Written
  <2>2. \A q \in Requests : pc'[q] \in {"tokenAnswered", "resumed"} => pc'[q] = pc[q]
    BY <1>1, <1>3
  <2> QED
    BY <2>1, <2>2 DEF OnlyAsks
<1>4. ASSUME SdkStart PROVE OnlyAsks
  <2>1. ASSUME NEW c \in Calls, SdkAccepted(c) PROVE OnlyAsks
    BY <1>2, <2>1 DEF SdkAccepted, askVars
  <2>2. ASSUME NEW c \in Calls, NEW r \in Requests, SdkTokenized(c, r) PROVE OnlyAsks
    BY <1>3, <2>2 DEF SdkTokenized, Kinds
  <2>3. ASSUME NEW c \in Calls, NEW r \in Requests, SdkHandleSubmitUnchecked(c, r)
        PROVE  OnlyAsks
    <3>1. \/ pc' = [pc EXCEPT ![r] = "waiting"] /\ Ask(r, "submit")
          \/ pc' = [pc EXCEPT ![r] = "viewGone"] /\ UNCHANGED pending
      BY <2>3 DEF SdkHandleSubmitUnchecked
    <3> QED
      BY <1>3, <3>1 DEF Kinds
  <2> QED
    BY <1>4, <2>1, <2>2, <2>3, Zenon DEF SdkStart
<1>5. ASSUME SdkResume PROVE OnlyAsks
  <2>1. ASSUME NEW r \in Requests, SdkTokenReturn(r) PROVE OnlyAsks
    <3>1. PICK to \in {"checked", "refused"} : pc' = [pc EXCEPT ![r] = to]
      BY <2>1 DEF SdkTokenReturn
    <3> QED
      BY <1>3, <2>1, <3>1 DEF SdkTokenReturn
  <2>2. ASSUME NEW r \in Requests, SdkHandleSubmit(r) PROVE OnlyAsks
    <3>1. \/ pc' = [pc EXCEPT ![r] = "waiting"] /\ Ask(r, "submit")
          \/ pc' = [pc EXCEPT ![r] = "viewGone"] /\ UNCHANGED pending
      BY <2>2 DEF SdkHandleSubmit
    <3> QED
      BY <1>3, <3>1 DEF Kinds
  <2>3. ASSUME NEW r \in Requests, SdkReturn(r) PROVE OnlyAsks
    BY <1>3, <2>3 DEF SdkReturn
  <2> QED
    BY <1>5, <2>1, <2>2, <2>3, Zenon DEF SdkResume
<1>6. ASSUME NmStep PROVE OnlyAsks \/ NmRoute
  BY <1>2, <1>6 DEF NmStep, NmSweep, NmStore
<1>7. JsSheet \/ JsPay \/ JsHandle \/ UiStep \/ UiTaps \/ UNCHANGED vars
         => UNCHANGED <<pc, pending>>
  BY DEF JsSheet, JsPay, JsHandle, UiStep, UiTaps, askVars, vars
<1> QED
  BY <1>2, <1>4, <1>5, <1>6, <1>7, Steps, Zenon

\* CheckedContinuation: what an answer takes out of a map of continuations was
\* suspended and goes on, nothing goes on twice though a removal was lost, and
\* nothing goes on from handleSubmit before App has an outcome for it
\* (CardPayView.swift, ApplePayView.swift).
THEOREM TakenOnce == Spec => TakenIsResumed
<1>1. IInv /\ [Next]_vars => ResumesWhatItTakes
  <2> SUFFICES ASSUME IInv, [Next]_vars, NEW r \in Requests
               PROVE  /\ (\E v \in Views, kind \in Kinds :
                               Question(r, kind) \in pending[v] \ pending'[v])
                            => pc[r] \in Suspended /\ pc'[r] \notin Suspended
                      /\ pc'[r] # pc[r] /\ pc'[r] \in {"tokenAnswered", "resumed"}
                            => pc[r] \in Suspended
                      /\ pc[r] = "waiting" /\ pc'[r] # "waiting"
                            => \E v \in Views : post[r][v] \in Outcomes
    BY DEF ResumesWhatItTakes
  <2>1. pc[r] = "waiting" /\ pc'[r] # "waiting" => \E v \in Views : post[r][v] \in Outcomes
    BY WaitsForAnswer
  <2>2. CASE OnlyAsks
    BY <2>1, <2>2 DEF OnlyAsks
  <2>3. CASE NmRoute /\ Missed
    BY <2>1, <2>3 DEF Missed
  <2>4. CASE NmRoute /\ Resumed
    <3>1. nm.req \in Requests /\ pc[nm.req] \in Suspended
      BY <2>4, RouteCases, AnswersAreWaitedFor DEF IInv
    <3>2. /\ pc'[nm.req] \in {"tokenAnswered", "resumed"}
          /\ \A q \in Requests : q # nm.req => pc'[q] = pc[q]
      BY <2>4, <3>1 DEF Resumed, IInv, TypeOK
    <3>3. \A v \in Views, kind \in Kinds :
             Question(r, kind) \in pending[v] \ pending'[v] => r = nm.req
      BY <2>4 DEF Resumed, Question
    <3> QED
      BY <2>1, <3>1, <3>2, <3>3 DEF Suspended
  <2> QED
    BY <2>2, <2>3, <2>4, OnlyRouteResumes, RouteCases DEF IInv
<1>2. IInv /\ [Next]_vars => [ResumesWhatItTakes]_vars
  BY <1>1
<1> QED
  BY <1>2, Invariance, PTL DEF Spec, TakenIsResumed
-----------------------------------------------------------------------------
\* What becomes of an answer App has, request by request.
Kept(r) ==
    /\ pc[r] = "token" /\ token[r] # None => \E v \in Views : InHand(Reply(r, "token", v))
    /\ \A v \in Views : post[r][v] \in Outcomes =>
          \/ pc[r] = "waiting" /\ InHand(Reply(r, "submit", v))
          \/ pc[r] \in {"resumed", "returned"} /\ result[r] = Verdict(post[r][v])

AllKept == \A r \in Requests : Kept(r)

\* A token is answered after it was asked about.
Unasked == \A r \in Requests : pc[r] = "idle" => token[r] = None

LEMMA KeptIsKept == AnswersAreKept <=> (~MapsRace => AllKept)
BY DEF AnswersAreKept, AllKept, Kept, Reply

\* Nothing of a request changes but the place of what is on its way.
LEMMA KeptFrame ==
    ASSUME NEW r \in Requests, Kept(r),
           token'[r] = token[r], post'[r] = post[r], pc'[r] = pc[r], result'[r] = result[r],
           \A kind \in Kinds, v \in Views :
              InHand(Reply(r, kind, v)) => InHand(Reply(r, kind, v))'
    PROVE  Kept(r)'
<1>1. \A outcome : Verdict(outcome)' = Verdict(outcome)
  BY DEF Verdict, Decodes
<1>2. \A kind, v : Reply(r, kind, v)' = Reply(r, kind, v)
  BY DEF Reply
<1> QED
  BY <1>1, <1>2 DEF Kept, Kinds, InHand

LEMMA KeptTokenized ==
    ASSUME PaymentTypes, Payments, AllKept, Unasked,
           NEW r \in Requests, NEW answer \in {"accepted", "rejected"},
           JsTokenized(r, answer), UNCHANGED <<pc, result, nm>>
    PROVE  AllKept' /\ Unasked'
<1>1. /\ Question(r, "token") \in events
      /\ inbox' = inbox \cup {Reply(r, "token", v) : v \in Listeners(r)}
      /\ \A q \in Requests : q # r => token'[q] = token[q]
      /\ Listeners(r) = {} => token' = token
      /\ UNCHANGED post
  BY DEF JsTokenized, Question, Reply, PaymentTypes
<1>2. pc[r] = "token" /\ Unposted(r)
  BY <1>1 DEF Payments, Questions, Early
<1>3. \A m : InHand(m) => m \in inbox' \/ (nm' # None /\ nm' = m)
  BY <1>1 DEF InHand
<1>4. \A q \in Requests : q # r => Kept(q)'
  <2> SUFFICES ASSUME NEW q \in Requests, q # r PROVE Kept(q)'
    OBVIOUS
  <2>1. \A kind \in Kinds, v \in Views :
           InHand(Reply(q, kind, v)) => InHand(Reply(q, kind, v))'
    BY <1>3 DEF InHand, Reply
  <2> QED
    BY <1>1, <2>1, KeptFrame DEF AllKept
<1>5. Kept(r)'
  <2>1. \A v \in Views : post'[r][v] \notin Outcomes
    BY <1>1, <1>2 DEF Unposted, Outcomes
  <2>2. CASE Listeners(r) = {}
    <3>1. \A v \in Views : InHand(Reply(r, "token", v)) => InHand(Reply(r, "token", v))'
      BY <1>3 DEF InHand, Reply
    <3> QED
      BY <1>1, <2>1, <2>2, <3>1 DEF AllKept, Kept
  <2>3. CASE Listeners(r) # {}
    <3>1. PICK v \in Listeners(r) : TRUE
      BY <2>3
    <3>2. v \in Views /\ Reply(r, "token", v) \in inbox'
      BY <1>1, <3>1 DEF Listeners
    <3>3. InHand(Reply(r, "token", v))'
      BY <3>2 DEF InHand, Reply
    <3> QED
      BY <2>1, <3>2, <3>3 DEF Kept
  <2> QED
    BY <2>2, <2>3
<1>6. Unasked'
  BY <1>1, <1>2 DEF Unasked
<1> QED
  BY <1>4, <1>5, <1>6 DEF AllKept

LEMMA KeptDeliver ==
    ASSUME PaymentTypes, Payments, AllKept, NEW r \in Requests, JsDeliver(r),
           UNCHANGED <<pc, result, nm>>
    PROVE  AllKept'
<1>1. /\ Question(r, "submit") \in events
      /\ \A v \in Views : post'[r][v] \in {"posting", post[r][v]}
      /\ \A q \in Requests : q # r => post'[q] = post[q]
      /\ UNCHANGED <<token, inbox>>
  BY DEF JsDeliver, Question, PaymentTypes
<1>2. pc[r] = "waiting" /\ Unposted(r)
  BY <1>1 DEF Payments, Questions
<1>3. \A q \in Requests : q # r => Kept(q)'
  <2> SUFFICES ASSUME NEW q \in Requests, q # r PROVE Kept(q)'
    OBVIOUS
  <2>1. \A kind \in Kinds, v \in Views :
           InHand(Reply(q, kind, v)) => InHand(Reply(q, kind, v))'
    BY <1>1 DEF InHand, Reply
  <2> QED
    BY <1>1, <2>1, KeptFrame DEF AllKept
<1>4. \A v \in Views : post'[r][v] \notin Outcomes
  BY <1>1, <1>2 DEF Unposted, Outcomes
<1> QED
  BY <1>2, <1>3, <1>4 DEF AllKept, Kept

LEMMA KeptAnswer ==
    ASSUME PaymentTypes, Payments, AllKept, NEW r \in Requests, NEW v \in Views,
           NEW outcome \in Outcomes, JsAnswer(r, v, outcome), UNCHANGED <<pc, result, nm>>
    PROVE  AllKept'
<1>1. /\ post[r][v] = "posting"
      /\ \A q \in Requests, w \in Views : q # r \/ w # v => post'[q][w] = post[q][w]
      /\ \A q \in Requests : q # r => post'[q] = post[q]
      /\ inbox' = inbox \cup {Reply(r, "submit", v)}
      /\ UNCHANGED token
  BY DEF JsAnswer, Reply, PaymentTypes
<1>2. pc[r] = "waiting" /\ \A w \in Views : w # v => post[r][w] \notin Outcomes
  BY <1>1 DEF Payments, Results, SinglePost, Outcomes
<1>3. \A q \in Requests : q # r => Kept(q)'
  <2> SUFFICES ASSUME NEW q \in Requests, q # r PROVE Kept(q)'
    OBVIOUS
  <2>1. \A kind \in Kinds, w \in Views :
           InHand(Reply(q, kind, w)) => InHand(Reply(q, kind, w))'
    BY <1>1 DEF InHand, Reply
  <2> QED
    BY <1>1, <2>1, KeptFrame DEF AllKept
<1>4. InHand(Reply(r, "submit", v))'
  BY <1>1 DEF InHand, Reply
<1>5. Kept(r)'
  BY <1>1, <1>2, <1>4 DEF Kept
<1> QED
  BY <1>3, <1>5 DEF AllKept

\* The SDK's callback of r moves on.
LEMMA KeptMove ==
    ASSUME PaymentTypes, Payments, AllKept, Unasked, NEW r \in Requests, NEW to,
           pc' = [pc EXCEPT ![r] = to],
           \/ pc[r] = "resumed" /\ to = "returned"
           \/ pc[r] = "idle" /\ to \in {"token", "waiting", "viewGone"}
           \/ pc[r] \in {"tokenAnswered", "checked"} /\ to \notin {"idle", "token"},
           UNCHANGED <<token, post, inbox, nm, result>>
    PROVE  AllKept' /\ Unasked'
<1>1. pc'[r] = to /\ \A q \in Requests : q # r => pc'[q] = pc[q]
  BY DEF PaymentTypes
<1>2. \A q \in Requests, kind \in Kinds, v \in Views :
         InHand(Reply(q, kind, v)) => InHand(Reply(q, kind, v))'
  BY DEF InHand, Reply
<1>3. \A q \in Requests : q # r => Kept(q)'
  BY <1>1, <1>2, KeptFrame DEF AllKept
<1>4. Kept(r)'
  <2>1. CASE pc[r] = "resumed"
    <3>1. \A v \in Views : post[r][v] \in Outcomes => result[r] = Verdict(post[r][v])
      BY <2>1 DEF AllKept, Kept
    <3> QED
      BY <1>1, <2>1, <3>1 DEF Kept, Verdict, Decodes
  <2>2. CASE pc[r] # "resumed"
    <3>1. \A v \in Views : post[r][v] \notin Outcomes
      BY <2>2 DEF Payments, Questions, Early, Unposted, Outcomes
    <3>2. to = "token" => token[r] = None
      BY <2>2 DEF Unasked
    <3> QED
      BY <1>1, <3>1, <3>2 DEF Kept
  <2> QED
    BY <2>1, <2>2
<1>5. Unasked'
  BY <1>1 DEF Unasked
<1> QED
  BY <1>3, <1>4, <1>5 DEF AllKept

LEMMA KeptRoute ==
    ASSUME IInv, ~MapsRace, AllKept, Unasked, NmRoute, UNCHANGED <<token, post>>,
           NEW r \in Requests, r = nm.req
    PROVE  AllKept' /\ Unasked'
<1>1. /\ nm # None /\ nm' = None /\ UNCHANGED inbox
      /\ nm.kind \in Kinds /\ nm.by \in Views
      /\ nm = Reply(r, nm.kind, nm.by)
  BY RouteCases DEF IInv
<1>2. /\ pc[r] \in Suspended /\ nm.kind = KindOf(r)
      /\ nm.kind = "submit" => post[r][nm.by] \in Outcomes
  BY <1>1, AnswersAreWaitedFor DEF IInv
<1>3. Resumed
  <2>1. owner[r] \in Holders(nm)
    <3>1. /\ Alive(owner[r]) /\ Question(r, nm.kind) \in pending[owner[r]]
          /\ owner[r] \in Everywhere
      BY <1>2, Routed DEF Reachable
    <3> QED
      BY <3>1 DEF Holders, Offered
  <2> QED
    BY <2>1, RouteCases DEF IInv
<1>4. PaymentTypes /\ Payments
  BY PaymentTypesOK DEF IInv
<1>5. \A q \in Requests, kind \in Kinds, v \in Views :
         q # r /\ InHand(Reply(q, kind, v)) => InHand(Reply(q, kind, v))'
  BY <1>1, Messages DEF InHand, Reply
<1>6. \A q \in Requests : q # r => pc'[q] = pc[q] /\ result'[q] = result[q]
  BY <1>3, <1>4 DEF Resumed, PaymentTypes
<1>7. \A q \in Requests : q # r => Kept(q)'
  BY <1>5, <1>6, KeptFrame DEF AllKept
<1>8. CASE nm.kind = "token"
  <2>1. pc[r] = "token" /\ pc'[r] = "tokenAnswered"
    BY <1>2, <1>3, <1>4, <1>8 DEF Resumed, KindOf, Suspended, PaymentTypes
  <2>2. \A v \in Views : post[r][v] \notin Outcomes
    BY <1>4, <2>1 DEF Payments, Questions, Early, Unposted, Outcomes
  <2> QED
    BY <1>6, <1>7, <2>1, <2>2 DEF AllKept, Kept, Unasked
<1>9. CASE nm.kind = "submit"
  <2>1. pc'[r] = "resumed" /\ result'[r] = Verdict(post[r][nm.by])
    BY <1>3, <1>4, <1>9 DEF Resumed, PaymentTypes
  <2>2. \A v \in Views : post[r][v] \in Outcomes => v = nm.by
    BY <1>1, <1>2, <1>4, <1>9 DEF Payments, SinglePost, Outcomes
  <2>3. Kept(r)'
    BY <2>1, <2>2 DEF Kept, Verdict, Decodes
  <2> QED
    BY <1>6, <1>7, <2>1, <2>3 DEF AllKept, Unasked
<1> QED
  BY <1>1, <1>8, <1>9 DEF Kinds

LEMMA KeptStep ==
    ASSUME IInv, ~MapsRace, AllKept, Unasked, [Next]_vars
    PROVE  AllKept' /\ Unasked'
<1> DEFINE Good == AllKept' /\ Unasked'
<1>1. PaymentTypes /\ Payments
  BY PaymentTypesOK DEF IInv
<1>q. ASSUME UNCHANGED <<token, post, pc, result>>, \A m \in Answers : InHand(m) => InHand(m)'
      PROVE  Good
  <2>1. \A q \in Requests, kind \in Kinds, v \in Views :
           InHand(Reply(q, kind, v)) => InHand(Reply(q, kind, v))'
    <3> SUFFICES ASSUME NEW q \in Requests, NEW kind \in Kinds, NEW v \in Views,
                        InHand(Reply(q, kind, v))
                 PROVE  InHand(Reply(q, kind, v))'
      OBVIOUS
    <3>1. Reply(q, kind, v) \in Answers
      BY DEF Reply, Answers
    <3> QED
      BY <1>q, <3>1 DEF InHand, Reply
  <2>2. AllKept'
    BY <1>q, <2>1, KeptFrame DEF AllKept
  <2> QED
    BY <1>q, <2>2 DEF Unasked
<1>2. ASSUME UNCHANGED <<token, post, pc, result, inbox, nm>> PROVE Good
  BY <1>2, <1>q DEF InHand
<1>3. ASSUME JsSheet \/ JsPay \/ UiStep \/ UiTaps \/ UNCHANGED vars PROVE Good
  BY <1>3, <1>2 DEF JsSheet, JsPay, UiStep, UiTaps, vars, jsVars, askVars, nmVars
<1>4. ASSUME JsHandle PROVE Good
  <2>0. UNCHANGED <<pc, result, nm>>
    BY <1>4 DEF JsHandle, askVars, nmVars
  <2>1. ASSUME NEW r \in Requests, NEW answer \in {"accepted", "rejected"},
               JsTokenized(r, answer)
        PROVE  Good
    BY <1>1, <2>0, <2>1, KeptTokenized
  <2>2. ASSUME NEW r \in Requests, JsDeliver(r) PROVE Good
    <3>1. UNCHANGED token
      BY <2>2 DEF JsDeliver
    <3> QED
      BY <1>1, <2>0, <2>2, <3>1, KeptDeliver DEF Unasked
  <2>3. ASSUME NEW r \in Requests, NEW v \in Views, NEW outcome \in Outcomes,
               JsAnswer(r, v, outcome)
        PROVE  Good
    <3>1. UNCHANGED token
      BY <2>3 DEF JsAnswer
    <3> QED
      BY <1>1, <2>0, <2>3, <3>1, KeptAnswer DEF Unasked
  <2> HIDE DEF Good
  <2> QED
    BY <1>4, <2>1, <2>2, <2>3, Zenon DEF JsHandle
<1>5. ASSUME NEW r \in Requests, NEW to,
             pc' = [pc EXCEPT ![r] = to],
             \/ pc[r] = "resumed" /\ to = "returned"
             \/ pc[r] = "idle" /\ to \in {"token", "waiting", "viewGone"}
             \/ pc[r] \in {"tokenAnswered", "checked"} /\ to \notin {"idle", "token"},
             UNCHANGED <<token, post, inbox, nm, result>>
      PROVE  Good
  BY <1>1, <1>5, KeptMove
<1>6. ASSUME SdkStart PROVE Good
  <2>0. UNCHANGED <<token, post, inbox, nm>>
    BY <1>6 DEF SdkStart, jsVars, nmVars
  <2>1. ASSUME NEW c \in Calls, SdkAccepted(c) PROVE Good
    BY <1>2, <2>0, <2>1 DEF SdkAccepted, askVars
  <2>2. ASSUME NEW c \in Calls, NEW r \in Requests, SdkTokenized(c, r) PROVE Good
    BY <1>5, <2>0, <2>2 DEF SdkTokenized
  <2>3. ASSUME NEW c \in Calls, NEW r \in Requests, SdkHandleSubmitUnchecked(c, r) PROVE Good
    <3>1. PICK to \in {"waiting", "viewGone"} : pc' = [pc EXCEPT ![r] = to]
      BY <2>3 DEF SdkHandleSubmitUnchecked
    <3> QED
      BY <1>5, <2>0, <2>3, <3>1 DEF SdkHandleSubmitUnchecked
  <2> HIDE DEF Good
  <2> QED
    BY <1>6, <2>1, <2>2, <2>3, Zenon DEF SdkStart
<1>7. ASSUME SdkResume PROVE Good
  <2>0. UNCHANGED <<token, post, inbox, nm>>
    BY <1>7 DEF SdkResume, jsVars, nmVars
  <2>1. ASSUME NEW r \in Requests, SdkTokenReturn(r) PROVE Good
    <3>1. PICK to \in {"checked", "refused"} : pc' = [pc EXCEPT ![r] = to]
      BY <2>1 DEF SdkTokenReturn
    <3> QED
      BY <1>5, <2>0, <2>1, <3>1 DEF SdkTokenReturn
  <2>2. ASSUME NEW r \in Requests, SdkHandleSubmit(r) PROVE Good
    <3>1. PICK to \in {"waiting", "viewGone"} : pc' = [pc EXCEPT ![r] = to]
      BY <2>2 DEF SdkHandleSubmit
    <3> QED
      BY <1>5, <2>0, <2>2, <3>1 DEF SdkHandleSubmit
  <2>3. ASSUME NEW r \in Requests, SdkReturn(r) PROVE Good
    BY <1>5, <2>0, <2>3 DEF SdkReturn
  <2> HIDE DEF Good
  <2> QED
    BY <1>7, <2>1, <2>2, <2>3, Zenon DEF SdkResume
<1>8. ASSUME NmStep PROVE Good
  <2>0. UNCHANGED <<token, post>>
    BY <1>8 DEF NmStep, jsVars
  <2>1. ASSUME NEW m \in inbox, NmSweep(m) PROVE Good
    <3>1. m # None
      BY NoAnswerAssumption DEF IInv, TypeOK
    <3>2. \A n \in Answers : InHand(n) => InHand(n)'
      BY <2>1, <3>1 DEF NmSweep, InHand
    <3> QED
      BY <1>q, <2>0, <2>1, <3>2 DEF NmSweep
  <2>2. ASSUME NmStore PROVE Good
    BY <1>2, <2>0, <2>2 DEF NmStore
  <2>3. ASSUME NmRoute PROVE Good
    <3>1. nm.req \in Requests
      BY <2>3 DEF NmRoute, IInv, TypeOK, Answers
    <3> QED
      BY <2>0, <2>3, <3>1, KeptRoute
  <2> HIDE DEF Good
  <2> QED
    BY <1>8, <2>1, <2>2, <2>3, Zenon DEF NmStep
<1> HIDE DEF Good
<1>9. Good
  BY <1>3, <1>4, <1>6, <1>7, <1>8, Steps, Zenon
<1> QED
  BY <1>9 DEF Good

\* An answer App has, to onTokenized or to handleSubmit, is not lost among
\* weak references that die and views of the session that come and go
\* (ApplePayModule.swift): it is on its way or has resumed its callback, with
\* the verdict it calls for, as long as nothing runs in the middle of a sweep, or
\* of an access to a map of continuations.
THEOREM NoAnswerIsLost == Spec => []AnswersAreKept
<1>1. Init => AllKept /\ Unasked
  BY DEF Init, AllKept, Kept, Unasked, Outcomes
<1>2. CASE ~MapsRace
  <2>1. IInv /\ (AllKept /\ Unasked) /\ [Next]_vars => (AllKept /\ Unasked)'
    BY <1>2, KeptStep
  <2>2. AllKept => AnswersAreKept
    BY KeptIsKept
  <2> QED
    BY <1>1, <2>1, <2>2, Invariance, PTL DEF Spec
<1>3. CASE MapsRace
  <2>1. AnswersAreKept
    BY <1>3 DEF AnswersAreKept
  <2> QED
    BY <2>1, PTL
<1> QED
  BY <1>2, <1>3, FlagAssumption
-----------------------------------------------------------------------------
\* Only one listener has an outcome, so the one AnswerTo chooses is its.
LEMMA ChosenOutcome ==
    ASSUME SinglePost, NEW r \in Requests, NEW v \in Views, post[r][v] \in Outcomes
    PROVE  AnswerTo(r) = post[r][v]
<1> DEFINE chosen == CHOOSE u \in Views : post[r][u] \in Outcomes
<1>1. chosen \in Views /\ post[r][chosen] \in Outcomes
  OBVIOUS
<1>2. chosen = v
  BY <1>1 DEF SinglePost, Outcomes
<1> QED
  BY <1>2 DEF AnswerTo

LEMMA ChosenOutcomePrimed ==
    ASSUME SinglePost', NEW r \in Requests, NEW v \in Views, post'[r][v] \in Outcomes
    PROVE  AnswerTo(r)' = post'[r][v]
<1> DEFINE chosen == CHOOSE u \in Views : post'[r][u] \in Outcomes
<1>1. chosen \in Views /\ post'[r][chosen] \in Outcomes
  OBVIOUS
<1>2. chosen = v
  BY <1>1 DEF SinglePost, Outcomes
<1> QED
  BY <1>2 DEF AnswerTo

\* What a step of the bridge is to SubmitRequest.
LEMMA PromiseStep == IInv /\ IInv' /\ [Next]_vars => [Promise!Next]_(Promise!vars)
<1> SUFFICES ASSUME IInv, IInv', [Next]_vars
             PROVE  Promise!Next \/ UNCHANGED Promise!vars
  OBVIOUS
<1> DEFINE status == [r \in Requests |-> StatusOf(r)]
           answer == [r \in Requests |-> AnswerTo(r)]
           Good == Promise!Next \/ UNCHANGED Promise!vars
<1>0. /\ PaymentTypes /\ SinglePost /\ Results /\ Questions
      /\ SinglePost'
      /\ verdict \in [Requests -> {"Success", "Failure", None}]
  BY PaymentTypesOK DEF IInv, Payments, TypeOK
<1>1. ASSUME UNCHANGED <<status, answer, verdict>> PROVE Good
  BY <1>1 DEF Promise!vars
<1>2. ASSUME UNCHANGED post PROVE UNCHANGED answer
  BY <1>2 DEF AnswerTo
<1>3. ASSUME UNCHANGED pc PROVE UNCHANGED status
  BY <1>3 DEF StatusOf
<1>4. ASSUME NEW r \in Requests, NEW to, pc' = [pc EXCEPT ![r] = to],
             \/ /\ pc[r] \notin {"waiting", "resumed", "returned"}
                /\ to \notin {"waiting", "resumed", "returned"}
             \/ pc[r] = "waiting" /\ to = "resumed"
      PROVE  UNCHANGED status
  BY <1>0, <1>4 DEF StatusOf, PaymentTypes
<1>5. ASSUME NEW r \in Requests, pc' = [pc EXCEPT ![r] = "waiting"],
             pc[r] \in {"idle", "checked"}, UNCHANGED <<post, verdict>>
      PROVE  Promise!Ask(r)
  <2>1. /\ StatusOf(r) = "idle" /\ StatusOf(r)' = "asked"
        /\ \A q \in Requests \ {r} : StatusOf(q)' = StatusOf(q)
    BY <1>0, <1>5 DEF StatusOf, PaymentTypes
  <2>2. status' = [status EXCEPT ![r] = "asked"]
    BY <2>1
  <2> QED
    BY <1>2, <1>5, <2>1, <2>2 DEF Promise!Ask
<1>6. ASSUME JsHandle PROVE Good
  <2>0. UNCHANGED <<pc, verdict>>
    BY <1>6 DEF JsHandle, askVars
  <2>1. ASSUME NEW r \in Requests, NEW a \in {"accepted", "rejected"}, JsTokenized(r, a) PROVE Good
    BY <1>1, <1>2, <1>3, <2>0, <2>1 DEF JsTokenized
  <2>2. ASSUME NEW r \in Requests, JsDeliver(r) PROVE Good
    <3>1. Unposted(r)
      BY <1>0, <2>2 DEF JsDeliver, Questions, Question
    <3>2. /\ \A v \in Views : post'[r][v] \notin Outcomes /\ post[r][v] \notin Outcomes
          /\ \A q \in Requests \ {r} : post'[q] = post[q]
      BY <1>0, <2>2, <3>1 DEF JsDeliver, PaymentTypes, Unposted, Outcomes
    <3>3. \A q \in Requests : AnswerTo(q)' = AnswerTo(q)
      BY <3>2 DEF AnswerTo
    <3> QED
      BY <1>1, <1>3, <2>0, <3>3
  <2>3. ASSUME NEW r \in Requests, NEW v \in Views, NEW outcome \in Outcomes,
               JsAnswer(r, v, outcome)
        PROVE  Promise!Answer(r, outcome)
    <3>1. post[r][v] = "posting"
      BY <2>3 DEF JsAnswer
    <3>2. pc[r] = "waiting" /\ \A w \in Views : post[r][w] \notin Outcomes
      BY <1>0, <3>1 DEF Results, SinglePost, Outcomes
    <3>3. StatusOf(r) = "asked" /\ AnswerTo(r) = None
      BY <3>2 DEF StatusOf, AnswerTo
    <3>4. post'[r][v] = outcome /\ \A q \in Requests \ {r} : post'[q] = post[q]
      BY <1>0, <2>3 DEF JsAnswer, PaymentTypes
    <3>5. AnswerTo(r)' = outcome
      BY <1>0, <3>4, ChosenOutcomePrimed
    <3>6. \A q \in Requests \ {r} : AnswerTo(q)' = AnswerTo(q)
      BY <3>4 DEF AnswerTo
    <3>7. answer' = [answer EXCEPT ![r] = outcome]
      BY <3>5, <3>6
    <3> QED
      BY <1>3, <2>0, <3>3, <3>7 DEF Promise!Answer
  <2> QED
    BY <1>6, <2>1, <2>2, <2>3 DEF JsHandle, Promise!Next, Promise!Outcomes, Outcomes
<1>7. ASSUME SdkStart PROVE Good
  <2>0. UNCHANGED post
    BY <1>7 DEF SdkStart, jsVars
  <2>1. ASSUME NEW c \in Calls, SdkAccepted(c) PROVE Good
    BY <1>1, <1>2, <1>3, <2>0, <2>1 DEF SdkAccepted, askVars
  <2>2. ASSUME NEW c \in Calls, NEW r \in Requests, SdkTokenized(c, r) PROVE Good
    <3>1. pc' = [pc EXCEPT ![r] = "token"] /\ pc[r] = "idle" /\ UNCHANGED verdict
      BY <2>2 DEF SdkTokenized
    <3> QED
      BY <1>1, <1>2, <1>4, <2>0, <3>1
  <2>3. ASSUME NEW c \in Calls, NEW r \in Requests, SdkHandleSubmitUnchecked(c, r) PROVE Good
    <3>1. pc[r] = "idle" /\ UNCHANGED verdict
      BY <2>3 DEF SdkHandleSubmitUnchecked
    <3>2. pc' = [pc EXCEPT ![r] = "waiting"] \/ pc' = [pc EXCEPT ![r] = "viewGone"]
      BY <2>3 DEF SdkHandleSubmitUnchecked
    <3>3. CASE pc' = [pc EXCEPT ![r] = "waiting"]
      BY <1>5, <2>0, <3>1, <3>3 DEF Promise!Next
    <3>4. CASE pc' = [pc EXCEPT ![r] = "viewGone"]
      BY <1>1, <1>2, <1>4, <2>0, <3>1, <3>4
    <3> QED
      BY <3>2, <3>3, <3>4
  <2> HIDE DEF Good
  <2> QED
    BY <1>7, <2>1, <2>2, <2>3, Zenon DEF SdkStart
<1>8. ASSUME SdkResume PROVE Good
  <2>0. UNCHANGED post
    BY <1>8 DEF SdkResume, jsVars
  <2>1. ASSUME NEW r \in Requests, SdkTokenReturn(r) PROVE Good
    <3>1. PICK to \in {"checked", "refused"} : pc' = [pc EXCEPT ![r] = to]
      BY <2>1 DEF SdkTokenReturn
    <3>2. pc[r] = "tokenAnswered" /\ UNCHANGED verdict
      BY <2>1 DEF SdkTokenReturn
    <3> QED
      BY <1>1, <1>2, <1>4, <2>0, <3>1, <3>2
  <2>2. ASSUME NEW r \in Requests, SdkHandleSubmit(r) PROVE Good
    <3>1. pc[r] = "checked" /\ UNCHANGED verdict
      BY <2>2 DEF SdkHandleSubmit
    <3>2. pc' = [pc EXCEPT ![r] = "waiting"] \/ pc' = [pc EXCEPT ![r] = "viewGone"]
      BY <2>2 DEF SdkHandleSubmit
    <3>3. CASE pc' = [pc EXCEPT ![r] = "waiting"]
      BY <1>5, <2>0, <3>1, <3>3 DEF Promise!Next
    <3>4. CASE pc' = [pc EXCEPT ![r] = "viewGone"]
      BY <1>1, <1>2, <1>4, <2>0, <3>1, <3>4
    <3> QED
      BY <3>2, <3>3, <3>4
  <2>3. ASSUME NEW r \in Requests, SdkReturn(r) PROVE Promise!Settle(r)
    <3>1. /\ StatusOf(r) = "asked" /\ StatusOf(r)' = "done"
          /\ \A q \in Requests \ {r} : StatusOf(q)' = StatusOf(q)
      BY <1>0, <2>3 DEF SdkReturn, StatusOf, PaymentTypes
    <3>2. status' = [status EXCEPT ![r] = "done"]
      BY <3>1
    <3>3. PICK v \in Views : post[r][v] \in Outcomes /\ result[r] = Verdict(post[r][v])
      BY <1>0, <2>3 DEF SdkReturn, Results
    <3>4. AnswerTo(r) = post[r][v]
      BY <1>0, <3>3, ChosenOutcome
    <3>5. AnswerTo(r) # None
      BY <3>3, <3>4, NoneAssumption
    <3>6. Promise!VerdictOf(AnswerTo(r)) = result[r]
      BY <3>3, <3>4 DEF Promise!VerdictOf, Verdict, Decodes
    <3>7. verdict' = [verdict EXCEPT ![r] = Promise!VerdictOf(AnswerTo(r))]
      BY <2>3, <3>6 DEF SdkReturn
    <3> QED
      BY <1>2, <2>0, <3>1, <3>2, <3>5, <3>7 DEF Promise!Settle
  <2> QED
    BY <1>8, <2>1, <2>2, <2>3 DEF SdkResume, Promise!Next
<1>9. ASSUME NmStep PROVE Good
  <2>0. UNCHANGED <<post, verdict>>
    BY <1>9 DEF NmStep, jsVars
  <2>1. ASSUME NEW m \in inbox, NmSweep(m) PROVE Good
    BY <1>1, <1>2, <1>3, <2>0, <2>1 DEF NmSweep
  <2>2. ASSUME NmStore PROVE Good
    BY <1>1, <1>2, <1>3, <2>0, <2>2 DEF NmStore
  <2>3. ASSUME NmRoute PROVE Good
    <3>1. CASE Missed
      BY <1>1, <1>2, <1>3, <2>0, <3>1 DEF Missed
    <3>2. CASE Resumed
      <4>1. /\ nm # None /\ nm.req \in Requests
            /\ pc[nm.req] \in Suspended /\ nm.kind = KindOf(nm.req)
        BY <2>3, RouteCases, AnswersAreWaitedFor DEF IInv
      <4>2. \/ pc[nm.req] = "token" /\ pc' = [pc EXCEPT ![nm.req] = "tokenAnswered"]
            \/ pc[nm.req] = "waiting" /\ pc' = [pc EXCEPT ![nm.req] = "resumed"]
        BY <3>2, <4>1 DEF Resumed, KindOf, Suspended
      <4>3. UNCHANGED status
        BY <1>4, <4>1, <4>2
      <4> QED
        BY <1>1, <1>2, <2>0, <4>3
    <3> QED
      BY <2>3, <3>1, <3>2, RouteCases DEF IInv
  <2> HIDE DEF Good
  <2> QED
    BY <1>9, <2>1, <2>2, <2>3, Zenon DEF NmStep
<1>10. ASSUME UNCHANGED <<post, askVars>> PROVE Good
  BY <1>1, <1>2, <1>3, <1>10 DEF askVars
<1> HIDE DEF Good
<1>11. JsSheet \/ JsPay \/ UiStep \/ UiTaps \/ UNCHANGED vars => UNCHANGED <<post, askVars>>
  BY DEF JsSheet, JsPay, UiStep, UiTaps, vars, jsVars
<1>12. Good
  BY <1>6, <1>7, <1>8, <1>9, <1>10, <1>11, Steps, Zenon
<1> QED
  BY <1>12 DEF Good

\* The bridge asks App once per payment, and tells the SDK what App's answer
\* to that payment calls for; races only keep an answer from arriving.
THEOREM Implementation == Spec => KeepsThePromise
<1>1. Init => Promise!Init
  BY DEF Init, Promise!Init, StatusOf, AnswerTo, Outcomes
<1> QED
  BY <1>1, PromiseStep, Invariance, PTL DEF Spec, KeepsThePromise, Promise!Spec
-----------------------------------------------------------------------------
(***************************************************************************)
(* What follows from the promise kept, in the terms of the bridge.         *)
(***************************************************************************)
Promised == INSTANCE SubmitRequest_proofs WITH
    status <- [r \in Requests |-> StatusOf(r)],
    answer <- [r \in Requests |-> AnswerTo(r)]

LEMMA PromiseIsPromised == Promise!Spec => Promised!Spec
<1>1. Promise!Init => Promised!Init
  BY DEF Promise!Init, Promised!Init
<1>2. [Promise!Next]_(Promise!vars) => [Promised!Next]_(Promised!vars)
  BY DEF Promise!Next, Promise!vars, Promise!Ask, Promise!Answer, Promise!Settle,
         Promise!Outcomes, Promise!VerdictOf, Promised!Next, Promised!vars, Promised!Ask,
         Promised!Answer, Promised!Settle, Promised!Outcomes, Promised!VerdictOf
<1> QED
  BY <1>1, <1>2, PTL DEF Promise!Spec, Promised!Spec

LEMMA ToldIsTheApps ==
    ASSUME Promised!Told, NEW r \in Requests, verdict[r] # None
    PROVE  /\ pc[r] = "returned"
           /\ \E v \in Views : post[r][v] \in Outcomes /\ verdict[r] = Verdict(post[r][v])
<1>1. StatusOf(r) = "done" /\ AnswerTo(r) # None /\ verdict[r] = Promised!VerdictOf(AnswerTo(r))
  BY DEF Promised!Told
<1>2. pc[r] = "returned"
  BY <1>1 DEF StatusOf
<1>3. PICK v \in Views : post[r][v] \in Outcomes /\ AnswerTo(r) = post[r][v]
  BY <1>1 DEF AnswerTo
<1> QED
  BY <1>1, <1>2, <1>3 DEF Promised!VerdictOf, Verdict, Decodes, Outcomes

\* From the check of the card to the verdict: what the SDK is told of a payment
\* is what one form made of the one answer of App to it, and if that form is a
\* card form then App has accepted the card.
VerdictOfCheckedCard ==
    \A r \in Requests : verdict[r] # None =>
        \E v \in Views :
            /\ post[r][v] \in Outcomes
            /\ verdict[r] = Verdict(post[r][v])
            /\ \A w \in Views \ {v} : post[r][w] = "none"
            /\ method[v] = "card" => token[r] = "accepted"

\* The two callbacks of a payment, each with an answer of its own on its way,
\* come to one verdict, which App's answers call for, races or not.
THEOREM VerdictsAreOfCheckedCards == Spec => []VerdictOfCheckedCard
<1>1. SinglePost /\ OnlyCheckedCards /\ Promised!Told => VerdictOfCheckedCard
  <2> SUFFICES ASSUME SinglePost, OnlyCheckedCards, Promised!Told,
                      NEW r \in Requests, verdict[r] # None
               PROVE  \E v \in Views :
                         /\ post[r][v] \in Outcomes
                         /\ verdict[r] = Verdict(post[r][v])
                         /\ \A w \in Views \ {v} : post[r][w] = "none"
                         /\ method[v] = "card" => token[r] = "accepted"
    BY DEF VerdictOfCheckedCard
  <2>1. PICK v \in Views : post[r][v] \in Outcomes /\ verdict[r] = Verdict(post[r][v])
    BY ToldIsTheApps
  <2>2. \A w \in Views : post[r][w] # "none" => w = v
    BY <2>1 DEF SinglePost, Outcomes
  <2>3. method[v] = "card" => token[r] = "accepted"
    BY <2>1 DEF OnlyCheckedCards, Outcomes
  <2> QED
    BY <2>1, <2>2, <2>3
<1> QED
  BY <1>1, PromiseIsPromised, Promised!VerdictsAreTold, Implementation, PostedOnce,
     CardsAreChecked, PTL DEF KeepsThePromise
-----------------------------------------------------------------------------
(***************************************************************************)
(* JavaScript keeps to Sheet, where there are card forms only.             *)
(***************************************************************************)
ShownIsTheForm ==
    /\ \A v \in Views : js[v] \in Shown => ShownSession = jsSession[v]
    /\ (\A v \in Views : js[v] \notin Shown) => ShownSession = None

LEMMA OneShown ==
    (\A v \in Views : method[v] = "card") /\ OneListener => ShownIsTheForm
<1> SUFFICES ASSUME \A v \in Views : method[v] = "card", OneListener PROVE ShownIsTheForm
  OBVIOUS
<1>1. ASSUME NEW v \in Views, js[v] \in Shown PROVE ShownSession = jsSession[v]
  <2>1. ShownForms = {v}
    BY <1>1 DEF ShownForms, OneListener
  <2> QED
    BY <2>1 DEF ShownSession
<1>2. ASSUME \A v \in Views : js[v] \notin Shown PROVE ShownSession = None
  <2>1. ShownForms = {}
    BY <1>2 DEF ShownForms
  <2> QED
    BY <2>1 DEF ShownSession
<1> QED
  BY <1>1, <1>2 DEF ShownIsTheForm

LEMMA SheetStep ==
    ASSUME Methods = {"card"}
    PROVE  IInv /\ IInv' /\ [Next]_vars => [Form!Next]_(Form!vars)
<1> SUFFICES ASSUME IInv, IInv', [Next]_vars PROVE [Form!Next]_(Form!vars)
  OBVIOUS
<1> DEFINE Goal == [Form!Next]_(Form!vars)
           calls == [d \in Calls |-> CallOf(d)]
<1>0. /\ js \in [Views -> {"absent", "rendered", "listening", "leaving", "gone"}]
      /\ jsSession \in [Views -> Sessions \cup {None}] /\ None \notin Sessions
      /\ call \in [Calls -> {"idle", "sent", "resolved", "rejected"}]
      /\ \A v \in Views : js[v] # "absent" => jsSession[v] # None
      /\ \A v \in Views : method[v] = "card"
      /\ ShownIsTheForm /\ ShownIsTheForm'
  <2>1. ((\A v \in Views : method[v] = "card") /\ OneListener => ShownIsTheForm)'
    BY OneShown, PTL
  <2>2. (\A v \in Views : method[v] = "card") /\ (\A v \in Views : method'[v] = "card")
    BY DEF IInv, TypeOK
  <2>3. ShownIsTheForm'
    BY <2>1, <2>2 DEF IInv
  <2>4. ShownIsTheForm
    BY <2>2, OneShown DEF IInv
  <2> QED
    BY <2>2, <2>3, <2>4, NoneAssumption DEF IInv, TypeOK, Mounted
<1>1. ASSUME UNCHANGED call PROVE UNCHANGED calls
  BY <1>1 DEF CallOf
<1>2. ASSUME UNCHANGED <<ShownSession, call, callSession>> PROVE Goal
  BY <1>1, <1>2 DEF Form!vars
<1>3. ASSUME UNCHANGED <<js, jsSession, call, callSession>> PROVE Goal
  <2>1. UNCHANGED ShownForms
    BY <1>3 DEF ShownForms
  <2> QED
    BY <1>2, <1>3, <2>1 DEF ShownSession
<1>4. ASSUME UNCHANGED <<call, callSession>>, NEW s \in Sessions, ShownSession' = s PROVE Goal
  <2>1. CASE ShownSession = s
    BY <1>2, <1>4, <2>1
  <2>2. CASE ShownSession # s
    <3>1. Form!Show(s)
      BY <1>1, <1>4, <2>2 DEF Form!Show
    <3> QED
      BY <3>1 DEF Form!Next
  <2> QED
    BY <2>1, <2>2
<1>5. ASSUME NEW v \in Views, NEW s \in Sessions, JsOpen(v, s), UNCHANGED <<call, callSession>>
      PROVE  Goal
  <2>1. js'[v] \in Shown /\ jsSession'[v] = s
    BY <1>0, <1>5 DEF JsOpen, Shown
  <2> QED
    BY <1>0, <1>4, <1>5, <2>1 DEF ShownIsTheForm
<1>6. ASSUME NEW v \in Views, JsClose(v), UNCHANGED <<call, callSession>> PROVE Goal
  <2>1. js[v] \in Shown /\ js[v] # "absent"
    BY <1>6 DEF JsClose, Shown
  <2>2. \A w \in Views : js'[w] \notin Shown
    <3> TAKE w \in Views
    <3>1. CASE w = v
      BY <1>0, <1>6, <3>1 DEF JsClose, Shown
    <3>2. CASE w # v
      BY <1>0, <1>6, <2>1, <3>2 DEF JsClose, IInv, OneListener
    <3> QED
      BY <3>1, <3>2
  <2>3. ShownSession # None /\ ShownSession' = None
    BY <1>0, <2>1, <2>2 DEF ShownIsTheForm
  <2>4. Form!Hide
    BY <1>1, <1>6, <2>3 DEF Form!Hide
  <2> QED
    BY <2>4 DEF Form!Next
<1>7. ASSUME NEW v \in Views, NEW w \in Views, NEW s \in Sessions, JsSwitch(v, w, s),
             UNCHANGED <<call, callSession>>
      PROVE  Goal
  <2>1. js'[w] \in Shown /\ jsSession'[w] = s
    BY <1>0, <1>7 DEF JsSwitch, Shown
  <2> QED
    BY <1>0, <1>4, <1>7, <2>1 DEF ShownIsTheForm
<1>8. ASSUME JsRunEffects, UNCHANGED <<call, callSession>> PROVE Goal
  <2>1. \A v \in Views : js'[v] \in Shown <=> js[v] \in Shown
    BY <1>0, <1>8 DEF JsRunEffects, AfterEffects, Shown
  <2>2. UNCHANGED ShownForms
    BY <2>1 DEF ShownForms
  <2>3. UNCHANGED ShownSession
    BY <1>8, <2>2 DEF JsRunEffects, ShownSession
  <2> QED
    BY <1>2, <1>8, <2>3
<1>9. ASSUME NEW c \in Calls, JsSubmit(c), UNCHANGED <<js, jsSession>> PROVE Goal
  <2>1. PICK v \in Views : /\ js[v] = "listening"
                           /\ callSession' = [callSession EXCEPT ![c] = jsSession[v]]
    BY <1>9 DEF JsSubmit
  <2>2. jsSession[v] # None /\ ShownSession = jsSession[v]
    BY <1>0, <2>1 DEF ShownIsTheForm, Shown
  <2>3. UNCHANGED ShownForms
    BY <1>9 DEF ShownForms
  <2>4. UNCHANGED ShownSession
    BY <1>9, <2>3 DEF ShownSession
  <2>5. CallOf(c) = "idle" /\ CallOf(c)' = "sent" /\ \A d \in Calls : CallOf(d) # "sent"
    BY <1>0, <1>9 DEF JsSubmit, CallOf
  <2>6. \A d \in Calls \ {c} : CallOf(d)' = CallOf(d)
    BY <1>0, <1>9 DEF JsSubmit, CallOf
  <2>7. calls' = [calls EXCEPT ![c] = "sent"]
    BY <2>5, <2>6
  <2>8. Form!Press(c)
    BY <2>1, <2>2, <2>4, <2>5, <2>7 DEF Form!Press
  <2> QED
    BY <2>8 DEF Form!Next
<1>10. ASSUME NEW c \in Calls, UiSubmit(c), UNCHANGED <<js, jsSession, callSession>> PROVE Goal
  <2>1. /\ call[c] = "sent"
        /\ \E to \in {"resolved", "rejected"} : call' = [call EXCEPT ![c] = to]
    BY <1>10 DEF UiSubmit
  <2>2. CallOf(c) = "sent" /\ CallOf(c)' = "settled"
    BY <1>0, <2>1 DEF CallOf
  <2>3. \A d \in Calls \ {c} : CallOf(d)' = CallOf(d)
    BY <1>0, <2>1 DEF CallOf
  <2>4. calls[c] = "sent" /\ calls' = [calls EXCEPT ![c] = "settled"]
    BY <2>2, <2>3
  <2>5. UNCHANGED ShownForms
    BY <1>10 DEF ShownForms
  <2>6. UNCHANGED ShownSession
    BY <1>10, <2>5 DEF ShownSession
  <2>7. Form!Settle(c)
    BY <1>10, <2>4, <2>6 DEF Form!Settle
  <2> QED
    BY <2>7 DEF Form!Next
<1> HIDE DEF Goal
<1>11. ASSUME JsSheet PROVE Goal
  <2>1. UNCHANGED <<call, callSession>>
    BY <1>11 DEF JsSheet
  <2> QED
    BY <1>5, <1>6, <1>7, <1>8, <1>11, <2>1, Zenon DEF JsSheet
<1>12. ASSUME JsPay PROVE Goal
  BY <1>9, <1>12 DEF JsPay
<1>13. ASSUME JsHandle PROVE Goal
  BY <1>3, <1>13 DEF JsHandle
<1>14. ASSUME UiStep PROVE Goal
  <2>1. UNCHANGED <<js, jsSession, callSession>>
    BY <1>14 DEF UiStep
  <2>2. ASSUME UNCHANGED call PROVE Goal
    BY <1>3, <2>1, <2>2
  <2> QED
    BY <1>10, <1>14, <2>1, <2>2
       DEF UiStep, UiMount, UiInitialize, UiDrop, UiFree, UiCreateComponent
<1>15. ASSUME UiTaps PROVE Goal
  BY <1>0, <1>15 DEF UiTaps, UiTap
<1>16. ASSUME SdkStart \/ SdkResume \/ NmStep \/ UNCHANGED vars PROVE Goal
  BY <1>3, <1>16 DEF SdkStart, SdkResume, NmStep, vars, jsVars
<1>17. Goal
  BY <1>11, <1>12, <1>13, <1>14, <1>15, <1>16, Steps, Zenon
<1> QED
  BY <1>17 DEF Goal

\* Where the app shows card forms only, what JavaScript does is, seen from the
\* screen, a use of the form that Sheet allows: the module that AppFlow, the
\* screen, is proved to implement as well.
THEOREM UsesTheSheetAsAssumed ==
    ASSUME Methods = {"card"}
    PROVE  Spec => UsesTheSheet
<1>1. Init => Form!Init
  BY DEF Init, Form!Init, ShownSession, ShownForms, CallOf, Shown
<1> QED
  BY <1>1, SheetStep, Invariance, PTL DEF Spec, UsesTheSheet, Form!Spec
=============================================================================
