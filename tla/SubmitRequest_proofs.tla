------------------------ MODULE SubmitRequest_proofs ------------------------
(***************************************************************************)
(* What SubmitRequest comes to, for any number of requests: every bridge   *)
(* that implements it inherits these theorems.                             *)
(***************************************************************************)
EXTENDS SubmitRequest, TLAPS

TypeOK ==
    /\ status \in [Requests -> {"idle", "asked", "done"}]
    /\ answer \in [Requests -> Outcomes \cup {None}]
    /\ verdict \in [Requests -> Verdicts \cup {None}]

\* The SDK has a verdict for the requests that are over, and for no other: it
\* is the one that the app's answer calls for.
Told ==
    \A r \in Requests :
        /\ verdict[r] # None => status[r] = "done"
        /\ status[r] = "done" => answer[r] # None /\ verdict[r] = VerdictOf(answer[r])

LEMMA ToldStep == TypeOK /\ Told /\ [Next]_vars => TypeOK' /\ Told'
<1> SUFFICES ASSUME TypeOK, Told, [Next]_vars
             PROVE  TypeOK' /\ Told'
  OBVIOUS
<1>1. ASSUME NEW r \in Requests, Ask(r) PROVE TypeOK' /\ Told'
  BY <1>1 DEF Ask, TypeOK, Told
<1>2. ASSUME NEW r \in Requests, NEW outcome \in Outcomes, Answer(r, outcome)
      PROVE  TypeOK' /\ Told'
  BY <1>2 DEF Answer, TypeOK, Told
<1>3. ASSUME NEW r \in Requests, Settle(r) PROVE TypeOK' /\ Told'
  <2>1. VerdictOf(answer[r]) \in Verdicts
    BY DEF VerdictOf, Verdicts
  <2> QED
    BY <1>3, <2>1 DEF Settle, TypeOK, Told
<1>4. ASSUME UNCHANGED vars PROVE TypeOK' /\ Told'
  BY <1>4 DEF vars, TypeOK, Told
<1> QED
  BY <1>1, <1>2, <1>3, <1>4 DEF Next

\* A request that is over has the verdict its answer calls for, one that is
\* not over has none.
THEOREM VerdictsAreTold == Spec => [](TypeOK /\ Told)
<1>1. Init => TypeOK /\ Told
  BY DEF Init, TypeOK, Told
<1> QED
  BY <1>1, ToldStep, PTL DEF Spec
-----------------------------------------------------------------------------
NothingTakenBack ==
    \A r \in Requests :
        /\ answer[r] # None => answer'[r] = answer[r]
        /\ verdict[r] # None => verdict'[r] = verdict[r]

\* What the app has answered and what the SDK was told is final.
Final == [][NothingTakenBack]_vars

\* The app does not answer a request twice, nor is the SDK told twice.
THEOREM VerdictsAreFinal == Spec => Final
<1>1. ASSUME TypeOK, Told, [Next]_vars PROVE [NothingTakenBack]_vars
  <2>1. ASSUME NEW r \in Requests, Ask(r) PROVE NothingTakenBack
    BY <2>1 DEF Ask, NothingTakenBack
  <2>2. ASSUME NEW r \in Requests, NEW outcome \in Outcomes, Answer(r, outcome)
        PROVE  NothingTakenBack
    BY <1>1, <2>2 DEF Answer, TypeOK, NothingTakenBack
  <2>3. ASSUME NEW r \in Requests, Settle(r) PROVE NothingTakenBack
    BY <1>1, <2>3 DEF Settle, TypeOK, Told, NothingTakenBack
  <2> QED
    BY <1>1, <2>1, <2>2, <2>3 DEF Next
<1> QED
  BY <1>1, VerdictsAreTold, PTL DEF Spec, Final
=============================================================================
