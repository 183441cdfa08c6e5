---------------------------- MODULE AnalyticsPage ----------------------------
(***************************************************************************)
(* The operator's usage page (pages/AnalyticsPage.jsx,                     *)
(* utils/analyticsAuth.js): a password of its own, a draft of it that is   *)
(* not sent, and loads that may overlap.  An answer is followed by a       *)
(* second wait, for its body or for what the gate offers.                  *)
(***************************************************************************)
EXTENDS Auth

CONSTANTS Operator,     \* the hook of this page
          Words,        \* what the input may hold besides ""
          MaxQueries,   \* bound: loads in flight
          MaxKeys       \* bound: changes of input and range

VARIABLES opened,       \* the server is configured to let anybody in
          draft, credential, remembered, \* input, what is sent, analytics_auth
          seen,         \* analytics_seen: the dashboard links to this page
          days, queries,
          data, needsAuth, unconfigured, loading, authError,
          spent,        \* history: passwords sent to be judged
          given,        \* history: passwords submitted or remembered
          keys

gateVars == <<draft, credential, remembered, given>>
showVars == <<data, needsAuth, unconfigured, loading, authError, seen>>
analyticsVars == <<opened, gateVars, days, queries, showVars, spent, keys>>

AnalyticsInit ==
    /\ opened \in BOOLEAN /\ remembered \in {""} \union Words
    /\ draft = remembered /\ credential = remembered /\ given = {remembered} \ {""}
    /\ seen \in BOOLEAN /\ days = 30 /\ queries = <<>>
    /\ data = 0 /\ needsAuth = FALSE /\ unconfigured = FALSE /\ loading = TRUE /\ authError = FALSE
    /\ spent = {} /\ keys = 0

\* load() leaves with credential c about the last d days.
Load(c, d) ==
    /\ Len(queries) < MaxQueries
    /\ queries' = Append(queries, [cred |-> c, days |-> d, state |-> "sent"])
    /\ spent' = spent \union ({c} \ {""})
    /\ loading' = TRUE /\ authError' = FALSE

\* The hook hears for the first time, and the page loads.
HearOperator(i, answer) ==
    /\ HearMe(Operator, i, answer)
    /\ IF Loaded(Operator)
       THEN UNCHANGED <<queries, spent, loading, authError>>
       ELSE Load(credential, days)
    /\ UNCHANGED <<opened, gateVars, days, data, needsAuth, unconfigured, seen, keys>>

Reload ==
    /\ ~loading /\ Load(credential, days)
    /\ UNCHANGED <<authVars, opened, gateVars, days, data, needsAuth, unconfigured, seen, keys>>

\* A range button; a new range loads, once the page knows who asks.
ChooseDays(d) ==
    /\ d # days /\ keys < MaxKeys /\ keys' = keys + 1 /\ days' = d
    /\ IF Loaded(Operator) THEN Load(credential, d) ELSE UNCHANGED <<queries, spent, loading, authError>>
    /\ UNCHANGED <<authVars, opened, gateVars, data, needsAuth, unconfigured, seen>>

TypeWord(w) ==
    /\ needsAuth /\ w # draft /\ keys < MaxKeys /\ keys' = keys + 1 /\ draft' = w
    /\ UNCHANGED <<authVars, opened, credential, remembered, given, days, queries, showVars, spent>>

\* submitPassword: the unchanged word is loaded with again.
SubmitWord ==
    /\ needsAuth /\ draft # ""
    /\ remembered' = draft /\ credential' = draft /\ given' = given \union {draft}
    /\ Load(draft, days)
    /\ UNCHANGED <<authVars, opened, draft, days, data, needsAuth, unconfigured, seen, keys>>

\* lock() forgets the word, and so loads without it.
Lock ==
    /\ data # 0 /\ credential # ""
    /\ remembered' = "" /\ draft' = "" /\ credential' = ""
    /\ Load("", days)
    /\ seen' = FALSE /\ data' = 0 /\ needsAuth' = TRUE
    /\ UNCHANGED <<authVars, opened, given, days, unconfigured, keys>>

\* require_analytics_auth; any load may be throttled or fail.
Verdicts(c) ==
    {"throttled", "error"} \union
    {IF ~opened THEN "closed" ELSE IF session = "member" \/ c = "right" THEN "ok" ELSE "denied"}

\* The headers of load i.  What is refused takes the data off the page, and
\* asks what the gate offers unless it is throttled.
Hears(i, verdict) ==
    /\ queries[i].state = "sent" /\ verdict \in Verdicts(queries[i].cred)
    /\ queries' = IF verdict \in {"throttled", "error"} THEN RemoveAt(queries, i)
                  ELSE [queries EXCEPT ![i].state = IF verdict = "ok" THEN "body" ELSE "gate"]
    /\ loading' = (loading /\ verdict \notin {"throttled", "error"})
    /\ authError' = (authError \/ verdict \in {"throttled", "error"})
    /\ data' = IF verdict \in {"closed", "denied", "throttled"} THEN 0 ELSE data
    /\ seen' = (seen /\ verdict \notin {"closed", "denied", "throttled"})
    /\ needsAuth' = IF verdict = "error" THEN needsAuth ELSE verdict \in {"denied", "throttled"}
    /\ unconfigured' = IF verdict = "error" THEN unconfigured ELSE verdict = "closed"
    /\ UNCHANGED <<authVars, opened, gateVars, days, spent, keys>>

\* The second wait ends: the gate has answered or not; the body is there, or
\* it broke off.
Settles(i) ==
    LET q == queries[i]
    IN  /\ q.state # "sent" /\ queries' = RemoveAt(queries, i) /\ loading' = FALSE
        /\ \/ q.state = "gate" /\ UNCHANGED <<data, seen, authError>>
           \/ q.state = "body" /\ data' = q.days /\ seen' = TRUE /\ UNCHANGED authError
           \/ q.state = "body" /\ authError' = TRUE /\ UNCHANGED <<data, seen>>
        /\ UNCHANGED <<authVars, opened, gateVars, days, needsAuth, unconfigured, spent, keys>>

OperatorLogout == SsoLogout(Operator) /\ UNCHANGED analyticsVars

AnalyticsNext ==
    \/ Reload \/ SubmitWord \/ Lock \/ OperatorLogout
    \/ \E d \in {7, 30, 90} : ChooseDays(d)
    \/ \E w \in {""} \union Words : TypeWord(w)
    \/ \E i \in DOMAIN queries :
          Settles(i) \/ \E v \in {"ok", "denied", "closed", "throttled", "error"} : Hears(i, v)
    \/ \E i \in DOMAIN asks[Operator] :
          \E a \in {asks[Operator][i], "failed"} : a # "sent" /\ HearOperator(i, a)
=============================================================================
