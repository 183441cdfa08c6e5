------------------------------- MODULE Entosis -------------------------------
(***************************************************************************)
(* The entosis board: the table of command nodes on the server             *)
(* (routes/entosis_routes.py, db.py) and the pages that edit it together   *)
(* (pages/EntosisPage.jsx, utils/entosisHelpers.js).                       *)
(*                                                                         *)
(* A page draws a copy of the table, joined by campaign to a copy of the   *)
(* campaigns; both are polled, a write is followed by one more read, and   *)
(* answers may overtake one another.  Every button works on the copy, and  *)
(* the server checks no transition: what holds of the table holds because  *)
(* of what the buttons send.  A page's user is the pilot of that name.     *)
(***************************************************************************)
EXTENDS Integers, SequencesExt, FiniteSetsExt

CONSTANTS Pages,
          Pilots,       \* pages that may claim: logged in, or a callsign is set
          Managers,     \* pages that may add, delete and clear
          Configured,   \* pages whose one try to read the configuration succeeded
          Campaigns,
          SystemsOf,    \* SystemsOf[c]: the systems of the campaign's constellation
          PrimarySystems,
          Nobody, None, \* no pilot; no campaign, no form
          Keep, Unlinked,  \* "leave the pilot alone"; the panel of the rest
          MaxWrites,    \* bound: writes sent in a behaviour
          MaxCalls,     \* bound: writes in flight
          MaxReplies,   \* bound: MaxReplies[p], reads in flight of page p
          MaxNews       \* bound: times the campaigns change

ASSUME EntosisAssumption ==
    /\ Pilots \union Managers \union Configured \subseteq Pages
    /\ {Nobody, Keep} \intersect Pages = {} /\ Nobody # Keep
    /\ {None, Unlinked} \intersect Campaigns = {} /\ None # Unlinked

VARIABLES nodes,        \* the table: rows [id, system, campaign, status, pilot]
          lastId,       \* AUTOINCREMENT
          esi,          \* the campaigns ESI lists
          news,
          calls,        \* writes on their way to the server
          writes,
          board,        \* board[p]: the page's copy of the table
          campaigns,    \* campaigns[p]: its copy of the campaigns
          form,         \* form[p]: the panel whose add form is open
          replies       \* replies[p]: answers to its reads, not yet in

serverVars == <<nodes, lastId, esi, news>>
pageVars == <<board, campaigns, form>>
vars == <<serverVars, calls, writes, pageVars, replies>>

Statuses == {"unclaimed", "running", "contested", "captured", "lost"}

NextStatuses(status) ==
    CASE status = "unclaimed" -> {"running", "contested"}
      [] status = "running" -> {"contested", "captured", "lost"}
      [] status = "contested" -> {"running", "captured", "lost"}
      [] OTHER -> {}
-----------------------------------------------------------------------------
\* groupNodesByEvent
NodesOf(p, c) == {n \in board[p] : n.campaign = c}
UnlinkedNodes(p) == {n \in board[p] : n.campaign \notin campaigns[p]}

\* Mutant of ShowUnlinked: the panel is only the fallback without campaigns.
MutShowUnlinked(p) == campaigns[p] = {}

\* The rest has a panel if there is any, or if there is no other panel.
ShowUnlinked(p) == UnlinkedNodes(p) # {} \/ campaigns[p] = {}

\* systemsForConstellation, primarySystems: what an add form offers.
PanelSystems(panel) == IF panel = Unlinked THEN PrimarySystems ELSE SystemsOf[panel]

Offered(p, panel) == IF p \in Configured THEN PanelSystems(panel) ELSE {}

\* The panel of a campaign, with the cards of its nodes.
EventPanel(p, c) == [panel |-> c, cards |-> NodesOf(p, c), ended |-> {}]

\* The panels of the board; in the last one a node that has a campaign is
\* marked EVENT ENDED.
Panels(p) ==
    {EventPanel(p, c) : c \in campaigns[p]}
    \union (IF ShowUnlinked(p)
            THEN {[panel |-> Unlinked, cards |-> UnlinkedNodes(p),
                   ended |-> {n \in UnlinkedNodes(p) : n.campaign # None}]}
            ELSE {})

\* filterConfigToConstellations, campaignSystemIds: what the op map draws and
\* the op kill feed lets through.
OpSystems(p) == IF p \in Configured THEN UNION {SystemsOf[c] : c \in campaigns[p]} ELSE {}

\* NodeCard: the patches its buttons send.  CLAIM takes the node, RELEASE
\* gives it back, the others leave its pilot alone.
Buttons(p, n) ==
    (IF n.status = "unclaimed" /\ p \in Pilots
     THEN {[status |-> "running", pilot |-> p]} ELSE {})
    \union (IF n.status = "running" /\ n.pilot = p
            THEN {[status |-> "unclaimed", pilot |-> Nobody]} ELSE {})
    \union [status : NextStatuses(n.status), pilot : {Keep}]
-----------------------------------------------------------------------------
\* A new row of the table.
FreshNode(id, system, panel) ==
    [id |-> id, system |-> system, campaign |-> IF panel = Unlinked THEN None ELSE panel,
     status |-> "unclaimed", pilot |-> Nobody]

\* The table outlives the pages and the server.
EntosisInit ==
    /\ \/ nodes = {} /\ lastId = 0
       \/ \E c \in Campaigns : \E s \in SystemsOf[c] : nodes = {FreshNode(1, s, c)} /\ lastId = 1
    /\ esi = Campaigns /\ news = 0
    /\ calls = <<>> /\ writes = 0
    /\ board = [p \in Pages |-> {}] /\ campaigns = [p \in Pages |-> {}]
    /\ form = [p \in Pages |-> None]
    /\ replies = [p \in Pages |-> <<>>]

\* A request leaves the page.
Send(call) ==
    /\ writes < MaxWrites /\ Len(calls) < MaxCalls
    /\ calls' = Append(calls, call) /\ writes' = writes + 1
    /\ UNCHANGED <<serverVars, pageVars, replies>>

PatchNode(p, n, patch) ==
    Send([op |-> "patch", page |-> p, id |-> n.id, status |-> patch.status, pilot |-> patch.pilot])

\* The form is open only while its panel is on the page.
AddNode(p, system) ==
    /\ \E x \in Panels(p) : x.panel = form[p] /\ system \in Offered(p, form[p])
    /\ Send([op |-> "add", page |-> p, system |-> system, panel |-> form[p]])

DeleteNode(p, n) == p \in Managers /\ Send([op |-> "delete", page |-> p, id |-> n.id])

ClearAll(p) == p \in Managers /\ board[p] # {} /\ Send([op |-> "clear", page |-> p])

\* The form closes, or opens in place of another; only a panel on the page
\* has the button.
ToggleAddFor(p, panel) ==
    /\ p \in Managers /\ \E x \in Panels(p) : x.panel = panel
    /\ form' = [form EXCEPT ![p] = IF @ = panel THEN None ELSE panel]
    /\ UNCHANGED <<serverVars, calls, writes, board, campaigns, replies>>

\* Mutant of Updated: an empty pilot counts as no change.
MutUpdated(n, c) ==
    [n EXCEPT !.status = c.status, !.pilot = IF c.pilot \in {Keep, Nobody} THEN @ ELSE c.pilot]

\* update_entosis_node: one UPDATE for both columns.
Updated(n, c) ==
    [n EXCEPT !.status = c.status, !.pilot = IF c.pilot = Keep THEN @ ELSE c.pilot]

\* The table after a write: a patch of a row that is gone changes nothing.
Applied(c) ==
    CASE c.op = "add" -> nodes \union {FreshNode(lastId + 1, c.system, c.panel)}
      [] c.op = "patch" -> {IF n.id = c.id THEN Updated(n, c) ELSE n : n \in nodes}
      [] c.op = "delete" -> {n \in nodes : n.id # c.id}
      [] c.op = "clear" -> {}

\* The server takes a write, in whatever order they arrive.  The answer of an
\* add closes whichever form is open by then; if it is lost the form stays.
Serve(i, answered) ==
    LET c == calls[i]
    IN  /\ calls' = RemoveAt(calls, i)
        /\ nodes' = Applied(c)
        /\ lastId' = IF c.op = "add" THEN lastId + 1 ELSE lastId
        /\ form' = IF c.op = "add" /\ answered THEN [form EXCEPT ![c.page] = None] ELSE form
        /\ UNCHANGED <<esi, news, writes, board, campaigns, replies>>

\* A write is refused or lost: an error on the page, and nothing else.
Refuse(i) ==
    /\ calls' = RemoveAt(calls, i)
    /\ UNCHANGED <<serverVars, writes, pageVars, replies>>

\* ESI lists a campaign, or one is resolved.
Happens(c) ==
    /\ news < MaxNews /\ news' = news + 1
    /\ esi' = IF c \in esi THEN esi \ {c} ELSE esi \union {c}
    /\ UNCHANGED <<nodes, lastId, calls, writes, pageVars, replies>>

\* Mutant of FetchNodes: the board is read when the page opens, not polled.
MutFetchNodes(p) ==
    /\ board[p] = {} /\ Len(replies[p]) < MaxReplies[p]
    /\ replies' = [replies EXCEPT ![p] = Append(@, nodes)]
    /\ UNCHANGED <<serverVars, calls, writes, pageVars>>

\* fetchNodes: on mount, every 5 s and after a write; the server answers with
\* the table of that moment.  Two reads in a row with one answer count as one.
FetchNodes(p) ==
    /\ Len(replies[p]) < MaxReplies[p] /\ (replies[p] # <<>> => Last(replies[p]) # nodes)
    /\ replies' = [replies EXCEPT ![p] = Append(@, nodes)]
    /\ UNCHANGED <<serverVars, calls, writes, pageVars>>

\* fetchIntel: its polls are a minute apart, so that one is over before the next.
FetchIntel(p) ==
    /\ campaigns[p] # esi /\ campaigns' = [campaigns EXCEPT ![p] = esi]
    /\ UNCHANGED <<serverVars, calls, writes, board, form, replies>>

\* An answer comes in, not always the oldest first.
Receive(p, i) ==
    /\ board' = [board EXCEPT ![p] = replies[p][i]]
    /\ replies' = [replies EXCEPT ![p] = RemoveAt(@, i)]
    /\ UNCHANGED <<serverVars, calls, writes, campaigns, form>>

\* A read fails, and its page keeps what it has.
Lose(p, i) ==
    /\ replies' = [replies EXCEPT ![p] = RemoveAt(@, i)]
    /\ UNCHANGED <<serverVars, calls, writes, pageVars>>

Write(p) ==
    \/ \E n \in board[p] : \/ \E patch \in Buttons(p, n) : PatchNode(p, n, patch)
                           \/ DeleteNode(p, n)
    \/ \E x \in Panels(p) : \E system \in PanelSystems(x.panel) : AddNode(p, system)
    \/ ClearAll(p)

EntosisNext ==
    \/ \E p \in Pages :
        \/ Write(p)
        \/ \E panel \in Campaigns \union {Unlinked} : ToggleAddFor(p, panel)
        \/ FetchNodes(p) \/ FetchIntel(p)
        \/ \E i \in DOMAIN replies[p] : Receive(p, i) \/ Lose(p, i)
    \/ \E i \in DOMAIN calls : Refuse(i) \/ \E answered \in BOOLEAN : Serve(i, answered)
    \/ \E c \in Campaigns : Happens(c)

\* The interval of an open page keeps firing, browsers settle every request,
\* and of the reads sent over and over not every one fails.
Fairness ==
    \A p \in Pages :
        WF_vars(FetchNodes(p)) /\ SF_vars(replies[p] # <<>> /\ Receive(p, 1))

EntosisSpec == EntosisInit /\ [][EntosisNext]_vars /\ Fairness
-----------------------------------------------------------------------------
\* A node that reads UNCLAIMED has no pilot, on the server and on every page,
\* however late the claims, releases and status changes of several pages
\* arrive: CLAIM is never offered for a node a pilot is on.
UnclaimedIsFree ==
    \A n \in nodes \union UNION {board[p] : p \in Pages} : n.status = "unclaimed" => n.pilot = Nobody

\* Whatever mixture of an older table and newer campaigns a page holds, every
\* node of its copy is on one card, one whose event is over is marked so, and
\* the nodes of an event lie in the systems its map and kill feed cover.
EveryNodeOnce ==
    \A p \in Pages :
        /\ \A n \in board[p] : Cardinality({x \in Panels(p) : n \in x.cards}) = 1
        /\ \A x \in Panels(p) : \A n \in x.cards :
              /\ n \in x.ended <=> n.campaign \notin campaigns[p] \union {None}
              /\ p \in Configured /\ x.panel # Unlinked => n.system \in OpSystems(p)

\* Once the fleet stops editing, every page comes to show the server's table
\* and keeps showing it, though reads overtake one another and fail.
BoardsConverge == <>[](\A p \in Pages : board[p] = nodes)
=============================================================================
