------------------------------- MODULE Access -------------------------------
(***************************************************************************)
(* A visitor of one of the pages that depend on who is looking: the        *)
(* boards of the dashboard, a shared report, or the usage statistics.      *)
(***************************************************************************)
EXTENDS WriteBoards, SharePage, AnalyticsPage

VARIABLE page           \* "dashboard", "share" or "analytics"

vars == <<page, authVars, boardVars, shareVars, analyticsVars>>

AccessAssumption == Hooks = Boards \union {Reader, Operator}
ASSUME AccessAssumption

Mounted(p) == CASE p = "dashboard" -> Boards [] p = "share" -> {Reader} [] OTHER -> {Operator}

\* What is not mounted has nothing to say about the page: one value stands
\* for what the browser and the server keep for it.
AccessInit ==
    /\ page \in {"dashboard", "share", "analytics"}
    /\ AuthInit(Mounted(page)) /\ BoardsInit(Mounted(page)) /\ ShareInit(Mounted(page)) /\ AnalyticsInit
    /\ page # "dashboard" => stored = "" /\ rows = [b \in Boards |-> FALSE]
    /\ page # "share" => share = "public"
    /\ page # "analytics" => opened /\ remembered = "" /\ ~seen

AccessNext ==
    /\ UNCHANGED page
    /\ \/ UNCHANGED <<boardVars, shareVars, analyticsVars>> /\ Elsewhere
       \/ UNCHANGED <<boardVars, shareVars, analyticsVars>>
          /\ \E h \in Hooks : \E i \in DOMAIN asks[h] : ServeMe(h, i)
       \/ page = "dashboard" /\ BoardsNext /\ UNCHANGED <<shareVars, analyticsVars>>
       \/ page = "share" /\ ShareNext /\ UNCHANGED <<boardVars, analyticsVars>>
       \/ page = "analytics" /\ AnalyticsNext /\ UNCHANGED <<boardVars, shareVars>>

AccessSpec == AccessInit /\ [][AccessNext]_vars
-----------------------------------------------------------------------------
\* Nothing half typed is ever sent to be checked, or asked with, however often
\* a page loads, retries or asks again: a wrong password counts towards a
\* lockout of the address, so only what the visitor submitted, or the browser
\* remembered, may be tried.  (A write carries what the input holds at that
\* moment; see WriteBoards.)
NothingHalfTyped == wire \subseteq submitted /\ spent \subseteq given

\* What the boards store for the browser's other panels is a password that was
\* found right, or the one it came with: no answer that arrives while the
\* input has moved on, or after a logout, stores a wrong one.  (The page of a
\* war stores its own after an edit was accepted: not part of this module.)
RememberedWorks == stored \in {"", "right", came}

\* Whatever the visitor is told about a report other than the report itself,
\* is the answer of the last load, or that load is still under way: a refusal
\* from before the session changed never stands over a later answer.
StatusIsCurrent ==
    status \in {"forbidden", "missing", "error"} =>
        by = sent \/ \E i \in DOMAIN loads : loads[i].n = sent
=============================================================================
