-------------------------------- MODULE Auth --------------------------------
(***************************************************************************)
(* Identity in the browser (utils/useAuth.js, EveLoginButton.jsx): every   *)
(* mounted component that uses the hook asks /api/auth/me for itself and   *)
(* keeps its own answer.  The session lives on the server; another tab, or *)
(* the membership check, changes it.  Logging in leaves the page.          *)
(***************************************************************************)
EXTENDS Integers, SequencesExt, FiniteSetsExt

CONSTANTS Hooks,     \* the components of a page that use the hook
          MaxTurns,  \* bound: changes of the session from elsewhere
          MaxAsks    \* bound: requests of one hook in flight

VARIABLES sso,       \* single sign-on is configured
          session,   \* of this browser: "none", "guest" (not allowed) or "member"
          turns,
          view,      \* view[h]: what the hook knows
          asks       \* asks[h]: its requests, "sent" or with their answer

authVars == <<sso, session, turns, view, asks>>

Me == IF sso THEN session ELSE "nosso"

\* What is known: "unknown" until an answer or a failure, "failed" after a
\* failure with no answer before it; both count as no single sign-on.
SsoEnabled(h) == view[h] \in {"none", "guest", "member"}
Authorized(h) == view[h] = "member"
Loaded(h) == view[h] # "unknown"

\* EveLoginButton
LoginButtons(h) ==
    IF ~SsoEnabled(h) THEN {} ELSE IF view[h] = "none" THEN {"sso_login"} ELSE {"sso_logout"}

AuthInit(mounted) ==
    /\ sso \in BOOLEAN /\ turns = 0
    /\ session \in IF sso THEN {"none", "guest", "member"} ELSE {"none"}
    /\ view = [h \in Hooks |-> "unknown"]
    /\ asks = [h \in Hooks |-> IF h \in mounted THEN <<"sent">> ELSE <<>>]

Elsewhere ==
    /\ sso /\ turns < MaxTurns /\ turns' = turns + 1
    /\ session' \in {"none", "guest", "member"} \ {session}
    /\ UNCHANGED <<sso, view, asks>>

ServeMe(h, i) ==
    /\ asks[h][i] = "sent" /\ asks' = [asks EXCEPT ![h][i] = Me]
    /\ UNCHANGED <<sso, session, turns, view>>

\* refresh(): another request leaves.
Ask(h) == Len(asks[h]) < MaxAsks /\ asks' = [asks EXCEPT ![h] = Append(@, "sent")]

\* The answer arrives, or a failure, which changes nothing that is known.
HearMe(h, i, answer) ==
    /\ asks' = [asks EXCEPT ![h] = RemoveAt(@, i)]
    /\ \/ answer # "failed" /\ asks[h][i] = answer /\ view' = [view EXCEPT ![h] = answer]
       \/ answer = "failed" /\ view' = [view EXCEPT ![h] = IF @ = "unknown" THEN "failed" ELSE @]
    /\ UNCHANGED <<sso, session, turns>>

\* logout(): the request may fail; then the page asks who it is.
SsoLogout(h) ==
    /\ "sso_logout" \in LoginButtons(h)
    /\ session' \in {"none", session} /\ Ask(h)
    /\ UNCHANGED <<sso, turns, view>>
=============================================================================
