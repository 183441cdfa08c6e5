------------------------------ MODULE Scanner ------------------------------
(***************************************************************************)
(* The three paste-and-read panels and the SHARE button in their headers:  *)
(* LocalScanner.jsx, FleetCompAnalyzer.jsx, DscanParser.jsx and            *)
(* common/ShareButton.jsx, over the AI hook of module AiSummary.           *)
(*                                                                         *)
(* "kind" says which panel is on the page.  The D-scan panel parses what   *)
(* is in the box at every render; the other two ask the server and show    *)
(* the answer whatever has happened to the box since.  The user may write  *)
(* (canWrite), so the gated buttons are offered.                           *)
(***************************************************************************)
EXTENDS AiSummary, DscanParse

CONSTANTS Lines,        \* Lines[k]: the non-blank lines of raw text k
          Blank,        \* the empty box
          MaxScans,     \* bound: scans sent in a behaviour
          MaxShares     \* bound: shares published in a behaviour

ASSUME ScannerAssumption ==
    /\ Blank \in Keys /\ Lines[Blank] = <<>>
    /\ \A k \in Keys : Lines[k] \in Seq(Seq(STRING))
    /\ Keys \union {ParseDscan(Lines[k]) : k \in Keys} \subseteq Abouts
    /\ MaxScans \in Nat /\ MaxShares \in Nat

VARIABLES kind,         \* "local", "fleet" or "dscan"
          results,      \* the text the displayed answer is for, or None
          riskOf,       \* the text the displayed risk tiers are for, or None
          scanning, error,
          timer,        \* the 800 ms debounce timer is running
          scans,        \* scans and risk lookups in flight
          scanned,      \* scans sent so far
          share,        \* ShareButton: the link on display, or None
          visibility, busy, shareError,
          pending,      \* publishes in flight
          shares        \* shared_reports: the rows, in order of creation

panelVars == <<results, riskOf, scanning, error, timer, scans, scanned>>
shareVars == <<share, visibility, busy, shareError, pending, shares>>
vars == <<kind, aiVars, panelVars, shareVars>>

HasNames(k) == Lines[k] # <<>>

\* What the panel shows: a parse of the box as it is, or the last answer.
Shown ==
    IF kind # "dscan" THEN results
    ELSE IF HasNames(key) THEN ParseDscan(Lines[key]) ELSE None

ScannerInit ==
    /\ kind \in {"local", "fleet", "dscan"}
    /\ AiInit /\ key = Blank
    /\ results = None /\ riskOf = None /\ scanning = FALSE /\ error = FALSE
    /\ timer = FALSE /\ scans = {} /\ scanned = 0
    /\ share = None /\ visibility = "link" /\ busy = FALSE /\ shareError = FALSE
    /\ pending = {} /\ shares = <<>>
-----------------------------------------------------------------------------
\* The SHARE button goes with the result: unmounting it loses its state, and
\* an answer to a publish in flight then changes nothing on the page.
ShareUnmounts ==
    /\ share' = None /\ visibility' = "link" /\ busy' = FALSE /\ shareError' = FALSE
    /\ pending' = {[p EXCEPT !.mounted = FALSE] : p \in pending}
    /\ UNCHANGED shares

\* Typing or pasting.  The effect keyed on the raw text restarts the debounce
\* timer; its cleanup has stopped the one before.
Edit(k) ==
    /\ k # key
    /\ Reset(k)
    /\ timer' = (kind = "local" /\ HasNames(k))
    /\ UNCHANGED <<kind, results, riskOf, scanning, error, scans, scanned>>
    /\ IF kind = "dscan" /\ ~HasNames(k) THEN ShareUnmounts ELSE UNCHANGED shareVars

\* handleClear; the text may be empty already, and then no effect runs.
Clear ==
    /\ kind # "dscan" /\ (key # Blank \/ results # None)
    /\ IF key # Blank THEN Reset(Blank) ELSE UNCHANGED aiVars
    /\ timer' = FALSE
    /\ results' = None /\ riskOf' = None /\ error' = FALSE
    /\ ShareUnmounts
    /\ UNCHANGED <<kind, scanning, scans, scanned>>

\* handleScan, handleAnalyze: ask about the names in the box.
Scan ==
    /\ kind # "dscan" /\ HasNames(key) /\ scanned < MaxScans
    /\ scanning' = TRUE /\ error' = FALSE
    /\ scanned' = scanned + 1
    /\ scans' = scans \union {[id |-> scanned + 1, input |-> key, step |-> "names"]}
    /\ UNCHANGED <<kind, aiVars, results, riskOf, shareVars>>

ScanClick == ~scanning /\ Scan /\ UNCHANGED timer

\* The timer does not look at scanning: scans may overlap.
DebounceFires == timer /\ Scan /\ timer' = FALSE

\* The pilots, and for a local scan the lookup of the resolved ones' risk.
ScanAnswered(s) ==
    /\ s.step = "names"
    /\ results' = s.input /\ scanning' = FALSE
    /\ \/ kind = "local" /\ scans' = (scans \ {s}) \union {[s EXCEPT !.step = "risk"]}
       \/ scans' = scans \ {s}
    /\ UNCHANGED <<kind, aiVars, riskOf, error, timer, scanned, shareVars>>

ScanFailed(s) ==
    /\ s.step = "names"
    /\ error' = TRUE /\ scanning' = FALSE
    /\ scans' = scans \ {s}
    /\ UNCHANGED <<kind, aiVars, results, riskOf, timer, scanned, shareVars>>

\* Risk tiers arrive, an error status empties them, a lost answer is ignored.
RiskAnswered(s) ==
    /\ s.step = "risk"
    /\ riskOf' \in {s.input, None, riskOf}
    /\ scans' = scans \ {s}
    /\ UNCHANGED <<kind, aiVars, results, scanning, error, timer, scanned, shareVars>>

\* generateAiSummary: describe what is on display.
AskAi ==
    /\ kind # "fleet" /\ Shown # None
    /\ ~Inert(kind = "dscan" /\ Shown.ships = 0)
    /\ Generate(Shown)
    /\ UNCHANGED <<kind, panelVars, shareVars>>

AiAnswers == AiSettle /\ UNCHANGED <<kind, panelVars, shareVars>>
-----------------------------------------------------------------------------
\* buildPayload: what is on the screen at the click.
Payload(vis) ==
    [kind |-> kind, visibility |-> vis, result |-> Shown, risk |-> riskOf,
     summary |-> IF summary = None THEN None ELSE summary.about]

\* Mutant of Publish: the new audience is shown before the server agreed.
MutPublish(vis) ==
    /\ ~busy /\ Shown # None
    /\ Len(shares) + Cardinality(pending) < MaxShares
    /\ busy' = TRUE /\ shareError' = FALSE /\ visibility' = vis
    /\ pending' = pending \union {[payload |-> Payload(vis), mounted |-> TRUE]}
    /\ UNCHANGED <<kind, aiVars, panelVars, share, shares>>

Publish(vis) ==
    /\ ~busy /\ Shown # None
    /\ Len(shares) + Cardinality(pending) < MaxShares
    /\ busy' = TRUE /\ shareError' = FALSE
    /\ pending' = pending \union {[payload |-> Payload(vis), mounted |-> TRUE]}
    /\ UNCHANGED <<kind, aiVars, panelVars, share, visibility, shares>>

\* SHARE; after a failure without a link there is only RETRY, which clears it.
ShareClick == share = None /\ ~shareError /\ Publish(visibility)
RetryClick ==
    /\ share = None /\ shareError
    /\ shareError' = FALSE
    /\ UNCHANGED <<kind, aiVars, panelVars, share, visibility, busy, pending, shares>>

\* Switching audience publishes a new share; the old link stays as it was.
ToggleClick ==
    share # None /\ Publish(IF visibility = "link" THEN "alliance" ELSE "link")

\* api_create_share inserts a row and answers with its token.
Published(p) ==
    /\ shares' = Append(shares, p.payload)
    /\ pending' = pending \ {p}
    /\ IF p.mounted
       THEN /\ share' = Len(shares) + 1
            /\ visibility' = p.payload.visibility
            /\ busy' = FALSE
       ELSE UNCHANGED <<share, visibility, busy>>
    /\ UNCHANGED <<kind, aiVars, panelVars, shareError>>

\* Refused, or the answer is lost after the row was written.
PublishFailed(p) ==
    /\ shares' \in {shares, Append(shares, p.payload)}
    /\ pending' = pending \ {p}
    /\ shareError' = (shareError \/ p.mounted) /\ busy' = (busy /\ ~p.mounted)
    /\ UNCHANGED <<kind, aiVars, panelVars, share, visibility>>

ScannerNext ==
    \/ \E k \in Keys : Edit(k)
    \/ Clear \/ ScanClick \/ DebounceFires
    \/ \E s \in scans : ScanAnswered(s) \/ ScanFailed(s) \/ RiskAnswered(s)
    \/ AskAi \/ AiAnswers
    \/ ShareClick \/ RetryClick \/ ToggleClick
    \/ \E p \in pending : Published(p) \/ PublishFailed(p)

ScannerSpec == ScannerInit /\ [][ScannerNext]_vars
-----------------------------------------------------------------------------
\* A shared D-scan carries no analysis of another scan: whatever was edited,
\* asked, answered and published in between, the summary in a stored D-scan
\* share was given for the very result stored with it.
SharedSummaryMatches ==
    \A i \in DOMAIN shares :
        shares[i].kind = "dscan" => shares[i].summary \in {None, shares[i].result}

\* The word next to a link is the audience of that link: a failed switch
\* leaves both, and a switch in flight changes neither.
LabelTellsAudience == share # None => shares[share].visibility = visibility

\* The threat banner of a D-scan is the worst tier of the ships listed under
\* it, it is CLEAR just when no ship is counted, no line is counted twice, and
\* a ship that is counted but in no listed row is one whose line was matched
\* by an inherited name.
BannerTellsWorst ==
    LET rows == ShipRows(Shown)
        rank(c) == IF c = "SUPER" THEN 5 ELSE IF c = "CAPITAL" THEN 4
                   ELSE IF c \in {"DOCTRINE", "RECON"} THEN 3
                   ELSE IF c \in {"BATTLESHIP", "BATTLECRUISER", "SUPPORT", "TACKLE"} THEN 2
                   ELSE 1
        matchedBy(c) == {i \in DOMAIN Lines[key] : CategoryOf(Lines[key][i]) = c}
        tiers == <<"CLEAR", "MINIMAL", "LOW", "MEDIUM", "HIGH", "CRITICAL">>
    IN  kind = "dscan" /\ Shown # None =>
            /\ Shown.threat = tiers[1 + Max({rank(r.cat) : r \in rows}
                                      \union {IF Shown.ships = 0 THEN 0 ELSE 1})]
            /\ Shown.ships = MapThenSumSet(LAMBDA r : r.count, rows)
                               + Cardinality(matchedBy("inherited"))
            /\ Shown.ships + Shown.structures + Shown.unrecognized <= Len(Lines[key])
            /\ NothingFound(Shown) => rows = {} /\ ~ObjectsLine(Shown)
=============================================================================
