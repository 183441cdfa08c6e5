------------------------------ MODULE SharePage ------------------------------
(***************************************************************************)
(* The page of a shared report (pages/SharePage.jsx), which asks again     *)
(* when the visitor's authorization changes.  An answer has two parts,     *)
(* headers and body, and only before the first does the page look whether  *)
(* it has moved on.                                                        *)
(***************************************************************************)
EXTENDS Auth

CONSTANTS Reader,      \* the hook of this page
          MaxLoads     \* bound: loads of the page

VARIABLES share,       \* on the server: "public", "alliance" or "gone"
          loads,       \* in flight: [n, state], numbered as they were sent
          sent,        \* loads so far; the last one is not cancelled
          status, report,
          by           \* history: the load that set status, 0 for none

shareVars == <<share, loads, sent, status, report, by>>

\* What the visitor sees.  A forbidden page has the login button.
Shown ==
    CASE status = "loading" -> "loading"
      [] status = "forbidden" -> IF SsoEnabled(Reader) THEN "log in" ELSE "cannot be opened here"
      [] status = "ok" /\ report -> "report"
      [] OTHER -> "not found"

ShareInit(mounted) ==
    /\ share \in {"public", "alliance", "gone"}
    /\ loads = IF Reader \in mounted THEN <<[n |-> 1, state |-> "sent"]>> ELSE <<>>
    /\ sent = Len(loads) /\ status = "loading" /\ report = FALSE /\ by = 0

\* The report expires, or is pruned.
Expire ==
    /\ share # "gone" /\ share' = "gone"
    /\ UNCHANGED <<authVars, loads, sent, status, report, by>>

\* api_get_share, with this browser's session.  The request may get no answer,
\* and an error status, of the limiter or the server, says missing like a
\* report that is gone.
ServeShare(i) ==
    /\ loads[i].state = "sent"
    /\ \E s \in {"error", "missing"} \union
            (IF share = "gone" THEN {}
             ELSE IF share = "alliance" /\ session # "member" THEN {"forbidden"} ELSE {"ok"}) :
          loads' = [loads EXCEPT ![i].state = s]
    /\ UNCHANGED <<authVars, share, sent, status, report, by>>

\* Mutant of Respond: nobody looks whether the page has moved on.
MutRespond(i) ==
    LET l == loads[i]
    IN  /\ l.state \in {"missing", "forbidden", "error", "ok"}
        /\ IF l.state = "ok"
           THEN loads' = [loads EXCEPT ![i].state = "body"] /\ UNCHANGED <<status, by>>
           ELSE loads' = RemoveAt(loads, i) /\ status' = l.state /\ by' = l.n
        /\ UNCHANGED <<authVars, share, sent, report>>

\* The headers arrive, or the failure does: a cancelled load ends here.
Respond(i) ==
    LET l == loads[i]
    IN  /\ l.state \in {"missing", "forbidden", "error", "ok"}
        /\ IF l.n = sent /\ l.state = "ok"
           THEN loads' = [loads EXCEPT ![i].state = "body"] /\ UNCHANGED <<status, by>>
           ELSE /\ loads' = RemoveAt(loads, i)
                /\ IF l.n = sent THEN status' = l.state /\ by' = l.n ELSE UNCHANGED <<status, by>>
        /\ UNCHANGED <<authVars, share, sent, report>>

\* The body arrives, and is shown even if the load was cancelled meanwhile;
\* a body that breaks off is an error if it was not.
Body(i) ==
    LET l == loads[i]
    IN  /\ l.state = "body" /\ loads' = RemoveAt(loads, i)
        /\ \/ status' = "ok" /\ report' = TRUE /\ by' = l.n
           \/ /\ UNCHANGED report
              /\ IF l.n = sent THEN status' = "error" /\ by' = l.n ELSE UNCHANGED <<status, by>>
        /\ UNCHANGED <<authVars, share, sent>>

\* The hook hears; a change of `authorized` loads again.
HearReader(i, answer) ==
    /\ HearMe(Reader, i, answer)
    /\ IF (view'[Reader] = "member") = Authorized(Reader)
       THEN UNCHANGED <<loads, sent>>
       ELSE /\ sent < MaxLoads /\ sent' = sent + 1
            /\ loads' = Append(loads, [n |-> sent + 1, state |-> "sent"])
    /\ UNCHANGED <<share, status, report, by>>

\* The login button is on the forbidden page only.
LogoutReader == Shown = "log in" /\ SsoLogout(Reader) /\ UNCHANGED shareVars

ShareNext ==
    \/ Expire \/ LogoutReader
    \/ \E i \in DOMAIN loads : ServeShare(i) \/ Respond(i) \/ Body(i)
    \/ \E i \in DOMAIN asks[Reader] :
          \E a \in {asks[Reader][i], "failed"} : a # "sent" /\ HearReader(i, a)
=============================================================================
