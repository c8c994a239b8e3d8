--------------------------- MODULE BriefAdmission ---------------------------
(***************************************************************************)
(* Who may create a brief: registration, the dashboard's sessions and its  *)
(* three-step form, and the part of create_brief that precedes the task.   *)
(* The monthly counter is read into Python, checked, incremented there and *)
(* written back, so the calls of one tenant race; nothing ever resets it.  *)
(*                                                                         *)
(* A tenant stands for its e-mail address.  The form is kept to what later *)
(* steps rely on: the depth, and whether the texts and the notification    *)
(* address are filled in.                                                  *)
(***************************************************************************)
EXTENDS Integers, FiniteSetsExt

CONSTANTS
  Tenants, NoTenant,
  Registrations,          \* calls of POST /v1/auth/register
  Calls, NoCall,          \* calls of POST /v1/briefs in flight at a time
  Sessions,               \* dashboard sessions
  FREE_TIER_BRIEF_LIMIT,
  MaxBriefs               \* bound on the briefs of all tenants together
ASSUME NamesAssumption == NoTenant \notin Tenants /\ NoCall \notin Calls
ASSUME LimitAssumption == /\ FREE_TIER_BRIEF_LIMIT \in Nat \ {0}
                          /\ MaxBriefs \in Nat

VARIABLES
  plan,      \* [Tenants -> Plans]: "none" before the tenant's row exists
  count,     \* [Tenants -> Nat]: brief_count_this_month
  briefs,    \* [Tenants -> Nat]: rows of research_briefs
  deep,      \* tenants with a brief of depth "deep"
  register,  \* [Registrations -> [at, tenant]]
  call,      \* [Calls -> CallStates]
  overlaps,  \* history: [Tenants -> Nat]: commits of a call during which
             \* another call of the tenant had committed
  session    \* [Sessions -> SessionStates]: st.session_state

tenantVars == <<plan, count, briefs, deep, overlaps>>
vars == <<tenantVars, register, call, session>>

Plans == {"none", "free", "pro"}
DEPTH_ORDER == <<"quick", "standard", "deep">>
Depths == {"quick", "standard", "deep"}
Rank(depth) == CHOOSE i \in 1..3 : DEPTH_ORDER[i] = depth
FREE_TIER_DEPTH_LIMIT == "standard"

Idle == [at |-> "idle", tenant |-> NoTenant, depth |-> "quick",
         seen |-> 0, overlapped |-> FALSE]
CallStates == [at : {"idle", "sent", "checked"}, tenant : Tenants \cup {NoTenant},
               depth : Depths, seen : Nat, overlapped : BOOLEAN]
NoDraft == [texts |-> FALSE, depth |-> "none", email |-> FALSE]
Drafts == [texts : BOOLEAN, depth : Depths \cup {"none"}, email : BOOLEAN]
SessionStates == [tenant : Tenants \cup {NoTenant}, plan : Plans, step : 1..3,
                  draft : Drafts, waits : Calls \cup {NoCall}]

\* init_session_state, and the form's first run.
Init ==
  /\ plan = [t \in Tenants |-> "none"]
  /\ count = [t \in Tenants |-> 0]
  /\ briefs = [t \in Tenants |-> 0]
  /\ deep = {}
  /\ overlaps = [t \in Tenants |-> 0]
  /\ register = [q \in Registrations |-> [at |-> "none", tenant |-> NoTenant]]
  /\ call = [c \in Calls |-> Idle]
  /\ session = [s \in Sessions |->
                  [tenant |-> NoTenant, plan |-> "none", step |-> 1,
                   draft |-> NoDraft, waits |-> NoCall]]

-----------------------------------------------------------------------------
(* Tenants *)

\* register looks for the address ...
Register(q, t) ==
  /\ register[q].at = "none"
  /\ register' = [register EXCEPT ![q] =
       [at |-> IF plan[t] = "none" THEN "hashing" ELSE "409", tenant |-> t]]
  /\ UNCHANGED <<tenantVars, call, session>>

\* Mutant: the address is not unique.
AddressFreeAlways(t) == TRUE
\* The unique constraint on tenants.email.
AddressFree(t) == plan[t] = "none"

\* ... and inserts it later: the loser of a race gets the database's error.
\* The refresh and the answer may fail once the row is committed: then nobody
\* was shown its key ("unanswered").
Insert(q) ==
  LET t == register[q].tenant
  IN  /\ register[q].at = "hashing"
      /\ \/ /\ AddressFree(t)
            /\ plan' = [plan EXCEPT ![t] = "free"]
            /\ \E answer \in {"201", "unanswered"} :
                 register' = [register EXCEPT ![q].at = answer]
         \/ /\ ~AddressFree(t)
            /\ register' = [register EXCEPT ![q].at = "500"]
            /\ UNCHANGED plan
      /\ UNCHANGED <<count, briefs, deep, overlaps, call, session>>

\* No code changes a plan; the operator does it in the database.
Upgrade(t) ==
  /\ plan[t] = "free"
  /\ plan' = [plan EXCEPT ![t] = "pro"]
  /\ UNCHANGED <<count, briefs, deep, overlaps, register, call, session>>

-----------------------------------------------------------------------------
(* create_brief *)

\* POST /v1/auth/token wants the key, which only the answer 201 contains.
HasToken(t) ==
  \E q \in Registrations : register[q] = [at |-> "201", tenant |-> t]

\* A call with a valid token: from the dashboard, or from a script.
Send(c, t, depth) ==
  /\ call[c].at = "idle"
  /\ HasToken(t)
  /\ call' = [call EXCEPT ![c] = [at |-> "sent", tenant |-> t, depth |-> depth,
                                  seen |-> 0, overlapped |-> FALSE]]

SendFromScript(c, t) ==
  /\ \E depth \in Depths : Send(c, t, depth)
  /\ UNCHANGED <<tenantVars, register, session>>

\* Mutant: one brief too many.
BriefLimitReachedLate(t) == plan[t] = "free" /\ count[t] > FREE_TIER_BRIEF_LIMIT
\* check_brief_limit, check_depth_limit.
BriefLimitReached(t) == plan[t] = "free" /\ count[t] >= FREE_TIER_BRIEF_LIMIT
TooDeep(t, depth) == plan[t] = "free" /\ Rank(depth) > Rank(FREE_TIER_DEPTH_LIMIT)

\* The session that waits for call c hears how it ended; one that hears of a
\* failure stays at step 3.
Hears(c, onSuccess) ==
  session' = [s \in Sessions |->
    IF session[s].waits = c
    THEN IF onSuccess
         THEN [session[s] EXCEPT !.waits = NoCall, !.step = 1, !.draft = NoDraft]
         ELSE [session[s] EXCEPT !.waits = NoCall]
    ELSE session[s]]

\* Reads the tenant's row and checks it.
Check(c) ==
  LET t == call[c].tenant
  IN  /\ call[c].at = "sent"
      /\ ~BriefLimitReached(t) /\ ~TooDeep(t, call[c].depth)
      /\ call' = [call EXCEPT ![c].at = "checked", ![c].seen = count[t]]
      /\ UNCHANGED <<tenantVars, register, session>>

\* 429, 400, or any error before the commit.
Refuse(c) ==
  /\ call[c].at # "idle"
  /\ call' = [call EXCEPT ![c] = Idle]
  /\ Hears(c, FALSE)
  /\ UNCHANGED <<tenantVars, register>>

\* The counter is written as the value read plus one.  The refresh, the message
\* to the worker or the answer may still fail after the commit: the caller then
\* hears of a failure, of a brief that exists and counts.
Commit(c) ==
  LET t == call[c].tenant
  IN  /\ call[c].at = "checked"
      /\ MapThenSumSet(LAMBDA u : briefs[u], Tenants) < MaxBriefs
      /\ briefs' = [briefs EXCEPT ![t] = @ + 1]
      /\ count' = [count EXCEPT ![t] = call[c].seen + 1]
      /\ deep' = IF call[c].depth = "deep" THEN deep \cup {t} ELSE deep
      /\ overlaps' = [overlaps EXCEPT ![t] =
                        IF call[c].overlapped THEN @ + 1 ELSE @]
      /\ call' = [d \in Calls |->
           IF d = c THEN Idle
           ELSE IF call[d].at = "checked" /\ call[d].tenant = t
                THEN [call[d] EXCEPT !.overlapped = TRUE]
                ELSE call[d]]
      /\ \E answered \in BOOLEAN : Hears(c, answered)
      /\ UNCHANGED <<plan, register>>

-----------------------------------------------------------------------------
(* The dashboard *)

LoggedIn(s) == session[s].tenant # NoTenant
Page(s, step) == LoggedIn(s) /\ session[s].step = step
\* Any click starts the script afresh; one that waited for a call is abandoned
\* before it could store the answer.
Update(s, new) ==
  /\ session' = [session EXCEPT ![s] = [new EXCEPT !.waits = NoCall]]
  /\ UNCHANGED <<tenantVars, register, call>>

\* The token carries the plan of the moment it was issued.
Login(s, t) ==
  /\ ~LoggedIn(s)
  /\ HasToken(t)
  /\ Update(s, [session[s] EXCEPT !.tenant = t, !.plan = plan[t]])

\* The button, or is_authenticated once the token has expired: the form and
\* its step stay in the session.
Logout(s) ==
  /\ LoggedIn(s)
  /\ Update(s, [session[s] EXCEPT !.tenant = NoTenant, !.plan = "none"])

FillTexts(s) ==
  /\ Page(s, 1)
  /\ Update(s, [session[s] EXCEPT !.draft.texts = TRUE, !.step = 2])

\* block_if_free.
Blocked(s, depth) == depth = "deep" /\ session[s].plan # "pro"

\* Every run of step 2 applies the gate to the depth in the draft.
ChooseDepth(s, depth) ==
  /\ Page(s, 2)
  /\ Update(s, [session[s] EXCEPT !.draft.depth =
                  IF Blocked(s, depth) THEN "none" ELSE depth])

GateDepth(s) ==
  /\ Page(s, 2) /\ Blocked(s, session[s].draft.depth)
  /\ Update(s, [session[s] EXCEPT !.draft.depth = "none"])

FillOptions(s) ==
  /\ Page(s, 2)
  /\ session[s].draft.depth # "none" /\ ~Blocked(s, session[s].draft.depth)
  /\ Update(s, [session[s] EXCEPT !.draft.email = TRUE, !.step = 3])

\* Mutant: a back button on every step.
BackAnywhere(s) ==
  /\ LoggedIn(s)
  /\ Update(s, [session[s] EXCEPT !.step = @ - 1])
Back(s) ==
  /\ LoggedIn(s) /\ session[s].step > 1
  /\ Update(s, [session[s] EXCEPT !.step = @ - 1])

\* Mutant: a re-run goes straight to the confirmation.
RerunStepConfirm == 3
RerunStep == 2
\* The library's Re-run fills in the texts only.
Rerun(s) ==
  /\ LoggedIn(s)
  /\ Update(s, [session[s] EXCEPT !.draft = [NoDraft EXCEPT !.texts = TRUE],
                                  !.step = RerunStep])

\* Launch blocks the script until the call answers; a second click sends
\* another call.
Launch(s, c) ==
  /\ Page(s, 3)
  /\ Send(c, session[s].tenant, session[s].draft.depth)
  /\ session' = [session EXCEPT ![s].waits = c]
  /\ UNCHANGED <<tenantVars, register>>

Next ==
  \/ \E q \in Registrations : Insert(q) \/ \E t \in Tenants : Register(q, t)
  \/ \E t \in Tenants : Upgrade(t)
  \/ \E c \in Calls : \/ Check(c) \/ Refuse(c) \/ Commit(c)
                      \/ \E t \in Tenants : SendFromScript(c, t)
                      \/ \E s \in Sessions : Launch(s, c)
  \/ \E s \in Sessions :
       \/ Logout(s) \/ FillTexts(s) \/ GateDepth(s) \/ FillOptions(s)
       \/ Back(s) \/ Rerun(s)
       \/ \E t \in Tenants : Login(s, t)
       \/ \E depth \in Depths : ChooseDepth(s, depth)

Spec == Init /\ [][Next]_vars

-----------------------------------------------------------------------------
(* Properties *)

\* Every variable keeps its type.
AdmissionTypeOK ==
  /\ plan \in [Tenants -> Plans]
  /\ count \in [Tenants -> Nat]
  /\ briefs \in [Tenants -> Nat]
  /\ deep \subseteq Tenants
  /\ overlaps \in [Tenants -> Nat]
  /\ register \in [Registrations ->
       [at : {"none", "hashing", "201", "unanswered", "409", "500"},
        tenant : Tenants \cup {NoTenant}]]
  /\ call \in [Calls -> CallStates]
  /\ session \in [Sessions -> SessionStates]

\* What the free tier's limit is worth.  Without overlapping calls a tenant
\* that was never upgraded gets exactly the briefs counted, at most the limit;
\* every overlapping call may reset the counter and give the whole limit away
\* once more, but not more than that.
LimitHolds ==
  \A t \in Tenants :
    plan[t] = "free" =>
      /\ count[t] <= FREE_TIER_BRIEF_LIMIT
      /\ count[t] <= briefs[t]
      /\ briefs[t] <= count[t] + FREE_TIER_BRIEF_LIMIT * overlaps[t]

\* Each address has one tenant and one key, whatever registrations race; and a
\* tenant whose registration went unanswered can do nothing for good: the
\* address is taken and its key is known to nobody.
OneKeyEach(t) ==
  /\ Cardinality({q \in Registrations :
         register[q].tenant = t /\ register[q].at \in {"201", "unanswered"}})
       = IF plan[t] = "none" THEN 0 ELSE 1
  /\ briefs[t] > 0 => HasToken(t)
  /\ \A c \in Calls : call[c].at # "idle" /\ call[c].tenant = t => HasToken(t)

\* A session speaks for a tenant whose key was shown (auth.py:24-27).  Whatever
\* way it came to step 3, over Back, Re-run, a logout, another tenant's login or
\* a launch that was reported as failed, the draft it launches is complete; and
\* if its depth is more than the new tenant may have, the API does not create
\* the brief.
SessionsSound ==
  /\ \A t \in Tenants : OneKeyEach(t) /\ (t \in deep => plan[t] = "pro")
  /\ \A s \in Sessions :
       /\ LoggedIn(s) => HasToken(session[s].tenant)
       /\ session[s].step >= 2 => session[s].draft.texts
       /\ session[s].step = 3 =>
            session[s].draft.depth # "none" /\ session[s].draft.email

=============================================================================
