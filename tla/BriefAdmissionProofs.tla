------------------------ MODULE BriefAdmissionProofs ------------------------
(* Proofs about BriefAdmission, for every set of tenants, calls, *)
(* registrations and sessions and every limit.                   *)
EXTENDS BriefAdmission, FiniteSetTheorems, TLAPS

USE NamesAssumption, LimitAssumption

\* What a call carries from its check to its commit.
CallsAgree ==
  \A c \in Calls : call[c].at # "idle" =>
    LET t == call[c].tenant
    IN  /\ t \in Tenants
        /\ HasToken(t)
        /\ call[c].at = "checked" =>
             /\ plan[t] = "free" => call[c].seen < FREE_TIER_BRIEF_LIMIT
             /\ plan[t] = "free" => call[c].depth # "deep"
             /\ ~call[c].overlapped => call[c].seen = count[t]
             /\ call[c].seen <= briefs[t]

\* A tenant whose key was shown to nobody has nothing.
NothingBefore ==
  \A t \in Tenants : ~HasToken(t) =>
    count[t] = 0 /\ briefs[t] = 0 /\ overlaps[t] = 0

\* The counter never exceeds the rows, whatever the plan.
CountsRows == \A t \in Tenants : count[t] <= briefs[t]

\* The registrations that made the tenant: one, answered or not.
Answers == {"201", "unanswered"}
Winners(t) ==
  {q \in Registrations : register[q].tenant = t /\ register[q].at \in Answers}
KeysAgree ==
  /\ \A q \in Registrations :
       register[q].at # "none" => register[q].tenant \in Tenants
  /\ \A t \in Tenants : IF plan[t] = "none" THEN Winners(t) = {}
                        ELSE \E q \in Registrations : Winners(t) = {q}

FormAgrees ==
  \A s \in Sessions :
    /\ LoggedIn(s) => HasToken(session[s].tenant)
    /\ session[s].step >= 2 => session[s].draft.texts
    /\ session[s].step = 3 =>
         session[s].draft.depth # "none" /\ session[s].draft.email

DeepIsPro == \A t \in deep : plan[t] = "pro"

AdmissionInv ==
  /\ AdmissionTypeOK /\ CallsAgree /\ NothingBefore /\ CountsRows
  /\ LimitHolds /\ KeysAgree /\ FormAgrees /\ DeepIsPro

-----------------------------------------------------------------------------
\* The depths in their order.
LEMMA DeepIsTooDeep == Rank("deep") > Rank(FREE_TIER_DEPTH_LIMIT)
<1>1. Rank("deep") = 3
  BY DEF Rank, DEPTH_ORDER
<1>2. Rank("standard") = 2
  BY DEF Rank, DEPTH_ORDER
<1> QED BY <1>1, <1>2 DEF FREE_TIER_DEPTH_LIMIT

\* No tenant, no call and no session at the start.
LEMMA AdmissionInit == Init => AdmissionInv
<1> SUFFICES ASSUME Init PROVE AdmissionInv
  OBVIOUS
<1> USE DEF Init
<1>1. AdmissionTypeOK
  BY DEF AdmissionTypeOK, Plans, CallStates, Idle, Depths, SessionStates,
         Drafts, NoDraft
<1>2. CallsAgree
  BY DEF CallsAgree, Idle
<1>3. NothingBefore /\ CountsRows /\ LimitHolds /\ DeepIsPro
  BY DEF NothingBefore, CountsRows, LimitHolds, DeepIsPro
<1>4. KeysAgree
  BY DEF KeysAgree, Winners
<1>5. FormAgrees
  BY DEF FormAgrees, LoggedIn, NoDraft
<1> QED BY <1>1, <1>2, <1>3, <1>4, <1>5 DEF AdmissionInv

\* A step of the form: only the session changes, to something typed that
\* keeps the form's promises.
LEMMA FormStep ==
  ASSUME AdmissionInv, NEW s \in Sessions, NEW new \in SessionStates,
         new.tenant # NoTenant => HasToken(new.tenant),
         new.step >= 2 => new.draft.texts,
         new.step = 3 => new.draft.depth # "none" /\ new.draft.email,
         Update(s, new)
  PROVE  AdmissionInv'
<1> DEFINE kept == [new EXCEPT !.waits = NoCall]
<1>1. kept \in SessionStates
  BY DEF SessionStates
<1>2. /\ kept.tenant = new.tenant /\ kept.step = new.step
      /\ kept.draft = new.draft
  BY DEF SessionStates
<1>3. session' = [session EXCEPT ![s] = kept]
  BY DEF Update
<1> HIDE DEF kept
<1>4. session \in [Sessions -> SessionStates]
  BY DEF AdmissionInv, AdmissionTypeOK
<1>5. UNCHANGED <<plan, count, briefs, deep, overlaps, register, call>>
  BY DEF Update, tenantVars
<1>6. AdmissionTypeOK'
  BY <1>1, <1>3, <1>4, <1>5 DEF AdmissionInv, AdmissionTypeOK
<1>7. FormAgrees'
  BY <1>1, <1>2, <1>3, <1>4, <1>5
     DEF AdmissionInv, FormAgrees, LoggedIn, HasToken
<1>8. (CallsAgree /\ NothingBefore /\ CountsRows /\ LimitHolds /\ KeysAgree
        /\ DeepIsPro)'
  BY <1>5 DEF AdmissionInv, CallsAgree, NothingBefore, HasToken, CountsRows,
              LimitHolds, KeysAgree, Winners, DeepIsPro
<1> QED BY <1>6, <1>7, <1>8 DEF AdmissionInv

\* What the answer of a call does to the sessions.
LEMMA HearsStep ==
  ASSUME AdmissionInv, NEW c \in Calls, NEW ok \in BOOLEAN, Hears(c, ok),
         UNCHANGED register
  PROVE  session' \in [Sessions -> SessionStates] /\ FormAgrees'
<1>1. session \in [Sessions -> SessionStates] /\ FormAgrees
  BY DEF AdmissionInv, AdmissionTypeOK
<1>2. ASSUME NEW s \in Sessions
      PROVE  /\ session'[s] \in SessionStates
             /\ session'[s].tenant = session[s].tenant
             /\ \/ /\ session'[s].step = session[s].step
                   /\ session'[s].draft = session[s].draft
                \/ session'[s].step = 1
  <2>1. session[s] \in SessionStates
    BY <1>1
  <2>2. NoDraft \in Drafts
    BY DEF NoDraft, Drafts
  <2>3. CASE session[s].waits = c /\ ok
    <3> DEFINE a == [session[s] EXCEPT !.waits = NoCall]
               b == [a EXCEPT !.step = 1]
    <3>1. session'[s] = [b EXCEPT !.draft = NoDraft]
      BY <2>3 DEF Hears
    <3>2. a \in SessionStates /\ a.tenant = session[s].tenant
      BY <2>1 DEF SessionStates
    <3> HIDE DEF a
    <3>3. b \in SessionStates /\ b.tenant = session[s].tenant /\ b.step = 1
      BY <3>2 DEF SessionStates
    <3> HIDE DEF b
    <3> QED BY <2>2, <3>1, <3>3 DEF SessionStates
  <2>4. CASE session[s].waits = c /\ ~ok
    <3>1. session'[s] = [session[s] EXCEPT !.waits = NoCall]
      BY <2>4 DEF Hears
    <3> QED BY <2>1, <3>1 DEF SessionStates
  <2>5. CASE session[s].waits # c
    BY <2>1, <2>5 DEF Hears
  <2> QED BY <2>3, <2>4, <2>5
<1>3. session' \in [Sessions -> SessionStates]
  BY <1>2 DEF Hears
<1>4. FormAgrees'
  BY <1>1, <1>2 DEF FormAgrees, LoggedIn, HasToken
<1> QED BY <1>3, <1>4

-----------------------------------------------------------------------------
\* A registration looks up its address, inserts the tenant or is refused.
LEMMA RegisterStep ==
  ASSUME AdmissionInv, NEW q \in Registrations, NEW t \in Tenants,
         Register(q, t)
  PROVE  AdmissionInv'
<1> DEFINE new == [at |-> IF plan[t] = "none" THEN "hashing" ELSE "409",
                   tenant |-> t]
<1>1. register' = [register EXCEPT ![q] = new]
  BY DEF Register
<1>2. UNCHANGED <<plan, count, briefs, deep, overlaps, call, session>>
  BY DEF Register, tenantVars
<1>3. AdmissionTypeOK'
  BY <1>1, <1>2 DEF AdmissionInv, AdmissionTypeOK
<1>4. KeysAgree'
  <2>1. register[q].at = "none"
    BY DEF Register
  <2>2. ASSUME NEW u \in Tenants PROVE Winners(u)' = Winners(u)
    <3>1. new.at \notin Answers /\ register[q].at \notin Answers
      BY <2>1 DEF Answers
    <3> QED BY <1>1, <3>1 DEF AdmissionInv, AdmissionTypeOK, Winners
  <2> QED BY <1>1, <1>2, <2>2 DEF AdmissionInv, AdmissionTypeOK, KeysAgree
<1>5. ASSUME NEW u \in Tenants PROVE HasToken(u)' <=> HasToken(u)
  <2>1. new # [at |-> "201", tenant |-> u]
    OBVIOUS
  <2>2. register[q] # [at |-> "201", tenant |-> u]
    BY DEF Register
  <2> QED BY <1>1, <2>1, <2>2 DEF AdmissionInv, AdmissionTypeOK, HasToken
<1>6. (CallsAgree /\ NothingBefore /\ CountsRows /\ LimitHolds /\ FormAgrees
        /\ DeepIsPro)'
  BY <1>2, <1>5
     DEF AdmissionInv, AdmissionTypeOK, SessionStates, CallsAgree,
         NothingBefore, CountsRows, LimitHolds, FormAgrees, LoggedIn, DeepIsPro
<1> QED BY <1>3, <1>4, <1>6 DEF AdmissionInv

\* The row of a tenant is inserted, for the first of the racing calls, whether
\* or not its key is shown.
LEMMA InsertStep ==
  ASSUME AdmissionInv, NEW q \in Registrations, Insert(q)
  PROVE  AdmissionInv'
<1> PICK t \in Tenants : t = register[q].tenant
  BY DEF AdmissionInv, KeysAgree, Insert
<1>1. /\ register[q].at = "hashing" /\ register[q].tenant = t
      /\ register \in [Registrations ->
           [at : {"none", "hashing", "201", "unanswered", "409", "500"},
            tenant : Tenants \cup {NoTenant}]]
      /\ plan \in [Tenants -> Plans]
  BY DEF AdmissionInv, AdmissionTypeOK, KeysAgree, Insert
<1>2. UNCHANGED <<count, briefs, deep, overlaps, call, session>>
  BY DEF Insert
<1>3. PICK answer \in {"201", "unanswered", "500"} :
        /\ register' = [register EXCEPT ![q].at = answer]
        /\ \/ /\ plan[t] = "none" /\ answer \in Answers
              /\ plan' = [plan EXCEPT ![t] = "free"]
           \/ plan[t] # "none" /\ answer = "500" /\ UNCHANGED plan
  BY DEF Insert, AddressFree, Answers
<1>4. /\ register' \in [Registrations ->
           [at : {"none", "hashing", "201", "unanswered", "409", "500"},
            tenant : Tenants \cup {NoTenant}]]
      /\ register'[q].at = answer /\ register'[q].tenant = t
      /\ \A r \in Registrations \ {q} : register'[r] = register[r]
      /\ plan' \in [Tenants -> Plans]
      /\ \A u \in Tenants \ {t} : plan'[u] = plan[u]
  BY <1>1, <1>3 DEF Plans
<1>5. AdmissionTypeOK'
  BY <1>2, <1>4 DEF AdmissionInv, AdmissionTypeOK
<1>6. ASSUME NEW u \in Tenants, HasToken(u) PROVE HasToken(u)'
  <2>1. PICK r \in Registrations : register[r] = [at |-> "201", tenant |-> u]
    BY <1>6 DEF HasToken
  <2>2. r # q
    BY <1>1, <2>1
  <2>3. register'[r] = [at |-> "201", tenant |-> u]
    BY <1>4, <2>1, <2>2
  <2> QED BY <2>3 DEF HasToken
<1>7. KeysAgree'
  <2>1. CASE plan[t] = "none"
    <3>1. Winners(t) = {} /\ answer \in Answers /\ plan'[t] # "none"
      BY <1>1, <1>3, <2>1 DEF AdmissionInv, KeysAgree
    <3>2. Winners(t)' = {q}
      BY <1>4, <3>1 DEF Winners
    <3>3. ASSUME NEW u \in Tenants \ {t} PROVE Winners(u)' = Winners(u)
      BY <1>1, <1>4, <3>3 DEF Winners
    <3>4. \A r \in Registrations :
            register'[r].at # "none" => register'[r].tenant \in Tenants
      BY <1>1, <1>4 DEF AdmissionInv, KeysAgree
    <3>5. ASSUME NEW u \in Tenants
          PROVE  (IF plan[u] = "none" THEN Winners(u) = {}
                  ELSE \E r \in Registrations : Winners(u) = {r})'
      <4>1. CASE u = t
        BY <3>1, <3>2, <4>1
      <4>2. CASE u # t
        BY <1>4, <3>3, <4>2 DEF AdmissionInv, KeysAgree
      <4> QED BY <4>1, <4>2
    <3> QED BY <3>4, <3>5 DEF KeysAgree
  <2>2. CASE plan[t] # "none"
    <3>1. answer \notin Answers /\ UNCHANGED plan
      BY <1>3, <2>2 DEF Answers
    <3>2. register[q].at \notin Answers
      BY <1>1 DEF Answers
    <3>3. ASSUME NEW u \in Tenants PROVE Winners(u)' = Winners(u)
      BY <1>4, <3>1, <3>2 DEF Winners
    <3> QED BY <1>1, <1>4, <3>1, <3>3 DEF AdmissionInv, KeysAgree
  <2> QED BY <2>1, <2>2
<1>8. ~HasToken(t) \/ plan[t] # "none"
  BY DEF AdmissionInv, KeysAgree, Winners, HasToken, Answers
<1>9. CallsAgree' /\ DeepIsPro'
  <2>1. \A c \in Calls :
          call[c].at # "idle" /\ plan[t] = "none" => call[c].tenant # t
    BY <1>8 DEF AdmissionInv, CallsAgree
  <2>2. plan[t] = "none" => t \notin deep
    BY DEF AdmissionInv, DeepIsPro
  <2>3. \A u \in Tenants : plan'[u] = plan[u] \/ (u = t /\ plan[t] = "none")
    BY <1>3, <1>4
  <2> QED BY <1>1, <1>2, <1>6, <2>1, <2>2, <2>3
          DEF AdmissionInv, AdmissionTypeOK, CallsAgree, DeepIsPro
<1>10. NothingBefore' /\ CountsRows'
  BY <1>2, <1>6 DEF AdmissionInv, NothingBefore, CountsRows
<1>11. LimitHolds'
  <2> SUFFICES ASSUME NEW u \in Tenants, plan'[u] = "free"
               PROVE  /\ count[u] <= FREE_TIER_BRIEF_LIMIT
                      /\ count[u] <= briefs[u]
                      /\ briefs[u] <= count[u]
                                       + FREE_TIER_BRIEF_LIMIT * overlaps[u]
    BY <1>2 DEF LimitHolds
  <2>1. CASE plan[u] = "free"
    BY <2>1 DEF AdmissionInv, LimitHolds
  <2>2. CASE plan[u] # "free"
    <3>1. u = t /\ ~HasToken(t)
      BY <1>3, <1>4, <1>8, <2>2
    <3>2. count[u] = 0 /\ briefs[u] = 0 /\ overlaps[u] = 0
      BY <3>1 DEF AdmissionInv, NothingBefore
    <3> QED BY <3>2
  <2> QED BY <2>1, <2>2
<1>12. FormAgrees'
  BY <1>2, <1>6
     DEF AdmissionInv, AdmissionTypeOK, SessionStates, FormAgrees, LoggedIn
<1> QED BY <1>5, <1>7, <1>9, <1>10, <1>11, <1>12 DEF AdmissionInv

\* The operator only ever raises a plan.
LEMMA UpgradeStep ==
  ASSUME AdmissionInv, NEW t \in Tenants, Upgrade(t)
  PROVE  AdmissionInv'
<1>1. /\ plan \in [Tenants -> Plans] /\ plan[t] = "free"
      /\ plan' = [plan EXCEPT ![t] = "pro"]
      /\ UNCHANGED <<count, briefs, deep, overlaps, register, call, session>>
  BY DEF AdmissionInv, AdmissionTypeOK, Upgrade
<1>2. AdmissionTypeOK'
  BY <1>1 DEF AdmissionInv, AdmissionTypeOK, Plans
<1>3. CallsAgree' /\ DeepIsPro'
  BY <1>1 DEF AdmissionInv, CallsAgree, HasToken, DeepIsPro
<1>4. NothingBefore' /\ CountsRows' /\ LimitHolds'
  BY <1>1 DEF AdmissionInv, NothingBefore, HasToken, CountsRows, LimitHolds
<1>5. KeysAgree'
  BY <1>1 DEF AdmissionInv, KeysAgree, Winners
<1>6. FormAgrees'
  BY <1>1 DEF AdmissionInv, FormAgrees, LoggedIn, HasToken
<1> QED BY <1>2, <1>3, <1>4, <1>5, <1>6 DEF AdmissionInv

-----------------------------------------------------------------------------
\* A call enters: from a script, or from a form at step 3.
LEMMA SendStep ==
  ASSUME AdmissionInv, NEW c \in Calls, NEW t \in Tenants,
         NEW depth \in Depths, Send(c, t, depth),
         UNCHANGED <<plan, count, briefs, deep, overlaps, register>>,
         session' \in [Sessions -> SessionStates], FormAgrees'
  PROVE  AdmissionInv'
<1> DEFINE new == [at |-> "sent", tenant |-> t, depth |-> depth, seen |-> 0,
                   overlapped |-> FALSE]
<1>1. call' = [call EXCEPT ![c] = new] /\ HasToken(t)
  BY DEF Send
<1>2. new \in CallStates
  BY DEF CallStates
<1>3. AdmissionTypeOK'
  BY <1>1, <1>2 DEF AdmissionInv, AdmissionTypeOK
<1>4. CallsAgree'
  BY <1>1 DEF AdmissionInv, AdmissionTypeOK, CallsAgree, HasToken
<1>5. (NothingBefore /\ CountsRows /\ LimitHolds /\ KeysAgree /\ DeepIsPro)'
  BY DEF AdmissionInv, NothingBefore, HasToken, CountsRows, LimitHolds,
         KeysAgree, Winners, DeepIsPro
<1> QED BY <1>3, <1>4, <1>5 DEF AdmissionInv

\* A call that passes both limits knows the counter it read.
LEMMA CheckStep ==
  ASSUME AdmissionInv, NEW c \in Calls, Check(c)
  PROVE  AdmissionInv'
<1> DEFINE t == call[c].tenant
           a == [call EXCEPT ![c].at = "checked"]
<1>1. /\ call[c] \in CallStates /\ call[c].at = "sent"
      /\ call \in [Calls -> CallStates]
      /\ UNCHANGED <<plan, count, briefs, deep, overlaps, register, session>>
  BY DEF AdmissionInv, AdmissionTypeOK, Check, tenantVars
<1>2. t \in Tenants /\ HasToken(t)
  BY <1>1 DEF AdmissionInv, CallsAgree
<1>3. call' = [a EXCEPT ![c].seen = count[t]] /\ count[t] \in Nat
  BY <1>2 DEF Check, AdmissionInv, AdmissionTypeOK
<1>4. /\ a \in [Calls -> CallStates] /\ a[c].tenant = t
      /\ a[c].at = "checked" /\ a[c].depth = call[c].depth
      /\ \A d \in Calls \ {c} : a[d] = call[d]
  BY <1>1 DEF CallStates
<1> HIDE DEF a
<1>5. /\ call' \in [Calls -> CallStates] /\ call'[c].tenant = t
      /\ call'[c].at = "checked" /\ call'[c].depth = call[c].depth
      /\ call'[c].seen = count[t]
      /\ \A d \in Calls \ {c} : call'[d] = call[d]
  BY <1>3, <1>4 DEF CallStates
<1>6. AdmissionTypeOK'
  BY <1>1, <1>5 DEF AdmissionInv, AdmissionTypeOK
<1>7. CallsAgree'
  <2>1. plan[t] = "free" =>
          count[t] < FREE_TIER_BRIEF_LIMIT /\ call[c].depth # "deep"
    BY <1>3, DeepIsTooDeep DEF Check, BriefLimitReached, TooDeep
  <2>2. count[t] <= briefs[t]
    BY <1>2 DEF AdmissionInv, CountsRows
  <2> HIDE DEF t
  <2> QED BY <1>1, <1>2, <1>5, <2>1, <2>2
          DEF AdmissionInv, CallsAgree, HasToken
<1>8. (NothingBefore /\ CountsRows /\ LimitHolds /\ KeysAgree /\ FormAgrees
        /\ DeepIsPro)'
  BY <1>1 DEF AdmissionInv, NothingBefore, HasToken, CountsRows, LimitHolds,
              KeysAgree, Winners, FormAgrees, LoggedIn, DeepIsPro
<1> QED BY <1>6, <1>7, <1>8 DEF AdmissionInv

\* A refused call leaves counter and rows as they are.
LEMMA RefuseStep ==
  ASSUME AdmissionInv, NEW c \in Calls, Refuse(c)
  PROVE  AdmissionInv'
<1>1. call' = [call EXCEPT ![c] = Idle]
  BY DEF Refuse
<1>2. UNCHANGED <<plan, count, briefs, deep, overlaps, register>>
  BY DEF Refuse, tenantVars
<1>3. session' \in [Sessions -> SessionStates] /\ FormAgrees'
  BY <1>2, HearsStep DEF Refuse
<1>4. Idle \in CallStates /\ Idle.at = "idle"
  BY DEF Idle, CallStates, Depths
<1>5. AdmissionTypeOK'
  BY <1>1, <1>2, <1>3, <1>4 DEF AdmissionInv, AdmissionTypeOK
<1>6. CallsAgree'
  BY <1>1, <1>2, <1>4
     DEF AdmissionInv, AdmissionTypeOK, CallsAgree, HasToken
<1>7. (NothingBefore /\ CountsRows /\ LimitHolds /\ KeysAgree /\ DeepIsPro)'
  BY <1>2 DEF AdmissionInv, NothingBefore, HasToken, CountsRows, LimitHolds,
              KeysAgree, Winners, DeepIsPro
<1> QED BY <1>3, <1>5, <1>6, <1>7 DEF AdmissionInv

\* The heart of it: a commit may set the counter back, but by less than the
\* limit, and only when it overlaps.
LEMMA CommitStep ==
  ASSUME AdmissionInv, NEW c \in Calls, Commit(c)
  PROVE  AdmissionInv'
<1> DEFINE t == call[c].tenant
           over == IF call[c].overlapped THEN overlaps[t] + 1 ELSE overlaps[t]
<1>1. /\ call \in [Calls -> CallStates] /\ call[c] \in CallStates
      /\ count \in [Tenants -> Nat] /\ briefs \in [Tenants -> Nat]
      /\ overlaps \in [Tenants -> Nat] /\ deep \subseteq Tenants
      /\ call[c].at = "checked"
  BY DEF AdmissionInv, AdmissionTypeOK, Commit
<1>2. /\ t \in Tenants /\ HasToken(t)
      /\ plan[t] = "free" => call[c].seen < FREE_TIER_BRIEF_LIMIT
      /\ plan[t] = "free" => call[c].depth # "deep"
      /\ ~call[c].overlapped => call[c].seen = count[t]
      /\ call[c].seen <= briefs[t]
      /\ call[c].seen \in Nat /\ call[c].overlapped \in BOOLEAN
  BY <1>1 DEF AdmissionInv, CallsAgree, CallStates
<1>3. /\ briefs' = [briefs EXCEPT ![t] = briefs[t] + 1]
      /\ count' = [count EXCEPT ![t] = call[c].seen + 1]
      /\ overlaps' = [overlaps EXCEPT ![t] = over]
      /\ deep' = IF call[c].depth = "deep" THEN deep \cup {t} ELSE deep
      /\ UNCHANGED <<plan, register>>
  BY DEF Commit
<1>4. over \in Nat
  BY <1>1, <1>2
<1>5. session' \in [Sessions -> SessionStates] /\ FormAgrees'
  <2>1. PICK answered \in BOOLEAN : Hears(c, answered)
    BY DEF Commit
  <2> QED BY <1>3, <2>1, HearsStep
<1>6. ASSUME NEW d \in Calls
      PROVE  /\ call'[d] \in CallStates
             /\ call'[d].at # "idle" =>
                  /\ d # c /\ call'[d].at = call[d].at
                  /\ call'[d].tenant = call[d].tenant
                  /\ call'[d].depth = call[d].depth
                  /\ call'[d].seen = call[d].seen
                  /\ call'[d].at = "checked" =>
                       IF call[d].tenant = t
                       THEN call'[d].overlapped
                       ELSE call'[d].overlapped = call[d].overlapped
  <2>1. CASE d = c
    <3>1. call'[d] = Idle
      BY <2>1 DEF Commit
    <3> QED BY <3>1 DEF Idle, CallStates, Depths
  <2>2. CASE d # c /\ call[d].at = "checked" /\ call[d].tenant = t
    <3>1. call'[d] = [call[d] EXCEPT !.overlapped = TRUE]
      BY <2>2 DEF Commit
    <3>2. call[d] \in CallStates
      BY <1>1
    <3> QED BY <2>2, <3>1, <3>2 DEF CallStates
  <2>3. CASE d # c /\ ~(call[d].at = "checked" /\ call[d].tenant = t)
    <3>1. call'[d] = call[d]
      BY <2>3 DEF Commit
    <3> QED BY <1>1, <2>3, <3>1
  <2> QED BY <2>1, <2>2, <2>3
<1>7. call' \in [Calls -> CallStates]
  BY <1>6 DEF Commit
<1> HIDE DEF t, over
<1>8. AdmissionTypeOK'
  BY <1>1, <1>2, <1>3, <1>4, <1>5, <1>7 DEF AdmissionInv, AdmissionTypeOK
<1>9. CallsAgree'
  <2> SUFFICES ASSUME NEW d \in Calls, call'[d].at # "idle"
               PROVE  LET u == call'[d].tenant
                      IN  /\ u \in Tenants
                          /\ \E q \in Registrations :
                               register'[q] = [at |-> "201", tenant |-> u]
                          /\ call'[d].at = "checked" =>
                               /\ plan'[u] = "free" =>
                                    call'[d].seen < FREE_TIER_BRIEF_LIMIT
                               /\ plan'[u] = "free" => call'[d].depth # "deep"
                               /\ ~call'[d].overlapped =>
                                    call'[d].seen = count'[u]
                               /\ call'[d].seen <= briefs'[u]
    BY DEF CallsAgree, HasToken
  <2>1. call[d].at # "idle" /\ call[d].seen \in Nat
    BY <1>1, <1>6 DEF CallStates
  <2>2. /\ call[d].tenant \in Tenants /\ briefs[call[d].tenant] \in Nat
        /\ \E q \in Registrations :
             register'[q] = [at |-> "201", tenant |-> call[d].tenant]
    BY <1>1, <1>3, <2>1 DEF AdmissionInv, CallsAgree, HasToken
  <2> QED BY <1>1, <1>2, <1>3, <1>6, <2>1, <2>2 DEF AdmissionInv, CallsAgree
<1>10. NothingBefore' /\ CountsRows'
  <2>1. \A u \in Tenants : HasToken(u)' <=> HasToken(u)
    BY <1>3 DEF HasToken
  <2> QED BY <1>1, <1>2, <1>3, <1>4, <2>1
          DEF AdmissionInv, NothingBefore, CountsRows
<1>11. LimitHolds'
  <2> DEFINE L == FREE_TIER_BRIEF_LIMIT
  <2> SUFFICES ASSUME NEW u \in Tenants, plan[u] = "free"
               PROVE  /\ count'[u] <= L /\ count'[u] <= briefs'[u]
                      /\ briefs'[u] <= count'[u] + L * overlaps'[u]
    BY <1>3 DEF LimitHolds
  <2>1. /\ count[u] <= L /\ count[u] <= briefs[u]
        /\ briefs[u] <= count[u] + L * overlaps[u]
    BY DEF AdmissionInv, LimitHolds
  <2>2. CASE u # t
    BY <1>1, <1>2, <1>3, <2>1, <2>2
  <2>3. CASE u = t /\ ~call[c].overlapped
    <3>1. /\ count'[u] = count[u] + 1 /\ briefs'[u] = briefs[u] + 1
          /\ overlaps'[u] = overlaps[u] /\ count[u] < L
      BY <1>1, <1>2, <1>3, <2>3 DEF over
    <3>2. L * overlaps[u] \in Nat
      BY <1>1
    <3> QED BY <1>1, <2>1, <3>1, <3>2
  <2>4. CASE u = t /\ call[c].overlapped
    <3>1. /\ count'[u] = call[c].seen + 1 /\ briefs'[u] = briefs[u] + 1
          /\ overlaps'[u] = overlaps[u] + 1 /\ call[c].seen < L
          /\ call[c].seen <= briefs[u]
      BY <1>1, <1>2, <1>3, <2>4 DEF over
    <3>2. L * (overlaps[u] + 1) = L * overlaps[u] + L
      BY <1>1
    <3>3. L * overlaps[u] \in Nat
      BY <1>1
    <3>4. L * overlaps'[u] = L * overlaps[u] + L
      BY <3>1, <3>2
    <3> DEFINE spent == L * overlaps[u]
               now == L * overlaps'[u]
    <3> HIDE DEF spent, now
    <3>5. now = spent + L /\ spent \in Nat /\ briefs[u] <= count[u] + spent
      BY <2>1, <3>3, <3>4 DEF spent, now
    <3>6. briefs'[u] <= count'[u] + now
      BY <1>1, <1>2, <2>1, <3>1, <3>5
    <3> QED BY <1>1, <1>2, <3>1, <3>6 DEF now
  <2> QED BY <1>2, <2>2, <2>3, <2>4
<1>12. KeysAgree' /\ DeepIsPro'
  <2>1. plan \in [Tenants -> Plans]
    BY DEF AdmissionInv, AdmissionTypeOK
  <2>2. plan[t] \in {"free", "pro"}
    <3>1. \E q \in Registrations : q \in Winners(t)
      BY <1>2 DEF HasToken, Winners, Answers
    <3> QED BY <1>2, <2>1, <3>1 DEF AdmissionInv, KeysAgree, Plans
  <2> QED BY <1>2, <1>3, <2>1, <2>2
          DEF AdmissionInv, KeysAgree, Winners, DeepIsPro
<1> QED BY <1>5, <1>8, <1>9, <1>10, <1>11, <1>12 DEF AdmissionInv

-----------------------------------------------------------------------------
\* Launch sends what the form holds, which is a depth.
LEMMA LaunchStep ==
  ASSUME AdmissionInv, NEW s \in Sessions, NEW c \in Calls, Launch(s, c)
  PROVE  AdmissionInv'
<1> DEFINE t == session[s].tenant
           depth == session[s].draft.depth
<1>1. /\ session \in [Sessions -> SessionStates]
      /\ session[s] \in SessionStates /\ FormAgrees
      /\ t # NoTenant /\ session[s].step = 3
  BY DEF AdmissionInv, AdmissionTypeOK, Launch, Page, LoggedIn
<1>2. t \in Tenants /\ depth \in Depths
  BY <1>1 DEF FormAgrees, SessionStates, Drafts
<1>3. /\ Send(c, t, depth) /\ session' = [session EXCEPT ![s].waits = c]
      /\ UNCHANGED <<plan, count, briefs, deep, overlaps, register>>
  BY DEF Launch, tenantVars
<1>4. session' \in [Sessions -> SessionStates]
  BY <1>1, <1>3 DEF SessionStates
<1>5. ASSUME NEW u \in Sessions
      PROVE  /\ session'[u].tenant = session[u].tenant
             /\ session'[u].step = session[u].step
             /\ session'[u].draft = session[u].draft
  BY <1>1, <1>3 DEF SessionStates
<1>6. FormAgrees'
  BY <1>1, <1>3, <1>5 DEF FormAgrees, LoggedIn, HasToken
<1> HIDE DEF t, depth
<1> QED BY <1>2, <1>3, <1>4, <1>6, SendStep

\* What a page relies on, and what it gives the next one.
LEMMA PageSteps ==
  ASSUME AdmissionInv, NEW s \in Sessions,
         \/ Logout(s) \/ FillTexts(s) \/ GateDepth(s) \/ FillOptions(s)
         \/ Back(s) \/ Rerun(s)
         \/ \E t \in Tenants : Login(s, t)
         \/ \E depth \in Depths : ChooseDepth(s, depth)
  PROVE  AdmissionInv'
<1> DEFINE old == session[s]
<1>1. /\ old \in SessionStates
      /\ old.draft \in Drafts /\ old.step \in 1..3
      /\ old.tenant # NoTenant => HasToken(old.tenant)
      /\ old.step >= 2 => old.draft.texts
      /\ old.step = 3 => old.draft.depth # "none" /\ old.draft.email
      /\ plan \in [Tenants -> Plans]
  BY DEF AdmissionInv, AdmissionTypeOK, FormAgrees, LoggedIn, SessionStates
<1>2. CASE \E t \in Tenants : Login(s, t)
  <2> PICK t \in Tenants : Login(s, t)
    BY <1>2
  <2> DEFINE a == [old EXCEPT !.tenant = t]
             new == [a EXCEPT !.plan = plan[t]]
  <2>1. Update(s, new) /\ HasToken(t)
    BY DEF Login
  <2>2. /\ a \in SessionStates /\ a.tenant = t
        /\ a.step = old.step /\ a.draft = old.draft
    BY <1>1 DEF SessionStates
  <2> HIDE DEF a
  <2>3. /\ new \in SessionStates /\ new.tenant = t
        /\ new.step = old.step /\ new.draft = old.draft
    BY <1>1, <2>2 DEF SessionStates
  <2> HIDE DEF new, old
  <2> QED BY <1>1, <2>1, <2>3, FormStep
<1>3. CASE Logout(s)
  <2> DEFINE a == [old EXCEPT !.tenant = NoTenant]
             new == [a EXCEPT !.plan = "none"]
  <2>1. Update(s, new)
    BY <1>3 DEF Logout
  <2>2. /\ a \in SessionStates /\ a.tenant = NoTenant
        /\ a.step = old.step /\ a.draft = old.draft
    BY <1>1 DEF SessionStates
  <2> HIDE DEF a
  <2>3. /\ new \in SessionStates /\ new.tenant = NoTenant
        /\ new.step = old.step /\ new.draft = old.draft
    BY <2>2 DEF SessionStates, Plans
  <2> HIDE DEF new, old
  <2> QED BY <1>1, <2>1, <2>3, FormStep
<1>4. CASE FillTexts(s)
  <2> DEFINE a == [old EXCEPT !.draft.texts = TRUE]
             new == [a EXCEPT !.step = 2]
  <2>1. Update(s, new)
    BY <1>4 DEF FillTexts
  <2>2. /\ a \in SessionStates /\ a.tenant = old.tenant /\ a.draft.texts
    BY <1>1 DEF SessionStates, Drafts
  <2> HIDE DEF a
  <2>3. /\ new \in SessionStates /\ new.tenant = old.tenant
        /\ new.step = 2 /\ new.draft.texts
    BY <2>2 DEF SessionStates
  <2> HIDE DEF new, old
  <2> QED BY <1>1, <2>1, <2>3, FormStep
<1>5. ASSUME NEW depth \in Depths \cup {"none"}, old.step = 2,
             Update(s, [old EXCEPT !.draft.depth = depth])
      PROVE  AdmissionInv'
  <2> DEFINE new == [old EXCEPT !.draft.depth = depth]
  <2>1. /\ new \in SessionStates /\ new.tenant = old.tenant
        /\ new.step = 2 /\ new.draft.texts
    BY <1>1, <1>5 DEF SessionStates, Drafts
  <2>2. Update(s, new)
    BY <1>5
  <2> HIDE DEF new, old
  <2> QED BY <1>1, <2>1, <2>2, FormStep
<1>6. CASE \E depth \in Depths : ChooseDepth(s, depth)
  BY <1>5, <1>6 DEF ChooseDepth, Page
<1>7. CASE GateDepth(s)
  BY <1>5, <1>7 DEF GateDepth, Page
<1>8. CASE FillOptions(s)
  <2> DEFINE a == [old EXCEPT !.draft.email = TRUE]
             new == [a EXCEPT !.step = 3]
  <2>1. Update(s, new) /\ old.step = 2 /\ old.draft.depth # "none"
    BY <1>8 DEF FillOptions, Page
  <2>2. /\ a \in SessionStates /\ a.tenant = old.tenant /\ a.draft.texts
        /\ a.draft.email /\ a.draft.depth # "none"
    <3> DEFINE draft == [old.draft EXCEPT !.email = TRUE]
    <3>1. /\ draft \in Drafts /\ draft.texts = old.draft.texts
          /\ draft.email /\ draft.depth = old.draft.depth
      BY <1>1 DEF Drafts
    <3>2. a = [old EXCEPT !.draft = draft]
      OBVIOUS
    <3> HIDE DEF draft
    <3>3. a \in SessionStates /\ a.tenant = old.tenant /\ a.draft = draft
      BY <1>1, <3>1, <3>2 DEF SessionStates
    <3> HIDE DEF a, old
    <3> QED BY <1>1, <2>1, <3>1, <3>3
  <2> HIDE DEF a
  <2>3. /\ new \in SessionStates /\ new.tenant = old.tenant
        /\ new.draft.texts /\ new.draft.email /\ new.draft.depth # "none"
    BY <2>2 DEF SessionStates
  <2> HIDE DEF new, old
  <2> QED BY <1>1, <2>1, <2>3, FormStep
<1>9. CASE Back(s)
  <2> DEFINE new == [old EXCEPT !.step = old.step - 1]
  <2>1. Update(s, new) /\ old.step > 1
    BY <1>9 DEF Back
  <2>2. /\ new \in SessionStates /\ new.tenant = old.tenant
        /\ new.step = old.step - 1 /\ new.draft = old.draft
    BY <1>1, <2>1 DEF SessionStates
  <2> HIDE DEF new, old
  <2> QED BY <1>1, <2>1, <2>2, FormStep
<1>10. CASE Rerun(s)
  <2> DEFINE draft == [NoDraft EXCEPT !.texts = TRUE]
             a == [old EXCEPT !.draft = draft]
             new == [a EXCEPT !.step = 2]
  <2>1. Update(s, new)
    BY <1>10 DEF Rerun, RerunStep
  <2>2. draft \in Drafts /\ draft.texts
    BY DEF NoDraft, Drafts
  <2> HIDE DEF draft
  <2>3. /\ a \in SessionStates /\ a.tenant = old.tenant /\ a.draft.texts
    BY <1>1, <2>2 DEF SessionStates
  <2> HIDE DEF a
  <2>4. /\ new \in SessionStates /\ new.tenant = old.tenant
        /\ new.step = 2 /\ new.draft.texts
    BY <2>3 DEF SessionStates
  <2> HIDE DEF new, old
  <2> QED BY <1>1, <2>1, <2>4, FormStep
<1> QED BY <1>2, <1>3, <1>4, <1>6, <1>7, <1>8, <1>9, <1>10

\* Every step of the API, the operator or a session keeps the invariant.
LEMMA AdmissionNext == AdmissionInv /\ [Next]_vars => AdmissionInv'
<1> SUFFICES ASSUME AdmissionInv, [Next]_vars PROVE AdmissionInv'
  OBVIOUS
<1>1. ASSUME NEW q \in Registrations,
             Insert(q) \/ \E t \in Tenants : Register(q, t)
      PROVE  AdmissionInv'
  BY <1>1, InsertStep, RegisterStep
<1>2. ASSUME NEW t \in Tenants, Upgrade(t) PROVE AdmissionInv'
  BY <1>2, UpgradeStep
<1>3. ASSUME NEW c \in Calls, Check(c) \/ Refuse(c) \/ Commit(c)
      PROVE  AdmissionInv'
  BY <1>3, CheckStep, RefuseStep, CommitStep
<1>4. ASSUME NEW c \in Calls, NEW t \in Tenants, SendFromScript(c, t)
      PROVE  AdmissionInv'
  <2>1. PICK depth \in Depths : Send(c, t, depth)
    BY <1>4 DEF SendFromScript
  <2>2. UNCHANGED <<plan, count, briefs, deep, overlaps, register, session>>
    BY <1>4 DEF SendFromScript, tenantVars
  <2>3. session' \in [Sessions -> SessionStates] /\ FormAgrees'
    BY <2>2 DEF AdmissionInv, AdmissionTypeOK, FormAgrees, LoggedIn, HasToken
  <2> QED BY <2>1, <2>2, <2>3, SendStep
<1>5. ASSUME NEW c \in Calls, NEW s \in Sessions, Launch(s, c)
      PROVE  AdmissionInv'
  BY <1>5, LaunchStep
<1>6. CASE UNCHANGED vars
  BY <1>6 DEF vars, tenantVars, AdmissionInv, AdmissionTypeOK, CallsAgree,
              NothingBefore, CountsRows, LimitHolds, KeysAgree, Winners,
              FormAgrees, LoggedIn, HasToken, DeepIsPro
<1> QED BY <1>1, <1>2, <1>3, <1>4, <1>5, <1>6, PageSteps DEF Next

-----------------------------------------------------------------------------
\* Registration, the checks, the counter and the form keep the whole of
\* AdmissionInv, which is inductive.
THEOREM AdmissionInvariant == Spec => []AdmissionInv
<1> QED BY AdmissionInit, AdmissionNext, PTL DEF Spec

\* Every variable of the admission keeps its type.
THEOREM AdmissionTyped == Spec => []AdmissionTypeOK
<1>1. AdmissionInv => AdmissionTypeOK
  BY DEF AdmissionInv
<1> QED BY <1>1, AdmissionInvariant, PTL

\* The free tier's limit: however the calls of a tenant interleave between
\* check_brief_limit and the commit, a tenant that was never upgraded has at
\* most the limit for itself and the limit again for each overlapping commit.
THEOREM LimitIsWorth == Spec => []LimitHolds
<1>1. AdmissionInv => LimitHolds
  BY DEF AdmissionInv
<1> QED BY <1>1, AdmissionInvariant, PTL

\* One key for each address, deep briefs only for pro tenants, and a complete
\* draft at step 3, for any number of racing registrations and of sessions.
THEOREM SessionsAreSound == Spec => []SessionsSound
<1>1. AdmissionInv => SessionsSound
  <2> SUFFICES ASSUME AdmissionInv PROVE SessionsSound
    OBVIOUS
  <2>1. ASSUME NEW t \in Tenants PROVE OneKeyEach(t)
    <3>1. IF plan[t] = "none" THEN Winners(t) = {}
          ELSE \E q \in Registrations : Winners(t) = {q}
      BY DEF AdmissionInv, KeysAgree
    <3>2. Cardinality(Winners(t)) = IF plan[t] = "none" THEN 0 ELSE 1
      BY <3>1, FS_EmptySet, FS_Singleton
    <3>3. briefs[t] > 0 => HasToken(t)
      BY DEF AdmissionInv, NothingBefore
    <3>4. ASSUME NEW c \in Calls, call[c].at # "idle", call[c].tenant = t
          PROVE  HasToken(t)
      BY <3>4 DEF AdmissionInv, CallsAgree
    <3> QED BY <3>2, <3>3, <3>4 DEF OneKeyEach, Winners, Answers
  <2> QED BY <2>1 DEF AdmissionInv, FormAgrees, DeepIsPro, SessionsSound
<1> QED BY <1>1, AdmissionInvariant, PTL

=============================================================================
