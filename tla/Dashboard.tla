------------------------------ MODULE Dashboard ------------------------------
(***************************************************************************)
(* The dashboard's data flow (App.jsx, hooks/useNotifications.js,          *)
(* NotificationBell.jsx, KillFeed.jsx, ActiveHostileTracker.jsx): fetches  *)
(* of all the data that may overlap and answer out of order, the browser   *)
(* alerts raised by comparing one answer with the one before, the region   *)
(* feeds, and what the screen shows.                                       *)
(*                                                                         *)
(* World[t] is what the server answers from time t on.  A fetch succeeds   *)
(* or fails as a whole, as Promise.all does.                               *)
(***************************************************************************)
EXTENDS SystemView

CONSTANTS World,        \* World[t], t in 0..MaxTime
          MaxTime,      \* bound: steps of the clock
          Regions, HomeRegion, NoRegion,
          Panels,       \* the panels that follow the region: kills, hostiles
          PvpThreshold, \* kills that make a spike
          MaxFetches,   \* bound: fetches in flight
          MaxAsked,     \* bound: feed requests in flight, for each panel
          MaxEdits      \* bound: settings and region choices, and resizes

ASSUME DashAssumption ==
    /\ HomeRegion \in Regions /\ NoRegion \notin Regions
    /\ MaxTime \in Nat /\ PvpThreshold \in Nat \ {0}
    /\ \A t \in 0..MaxTime : IsAnswer(World[t])

VARIABLES posture,      \* of the deployment: "sov", "guest" or "rootless"
          now,
          config, error, loading, refreshing,  \* App's flags
          fetches,      \* fetches in flight: [init, needConfig, data]
          shown,        \* time of the data on the page, -1 for none
          prev,         \* prevRef: the data of the last comparison
          settings,     \* alert kinds switched on
          fired,        \* history: how often each alert was raised
          met,          \* history: campaigns of the first comparison, or alerted
          region, asked, feed,   \* chosen region; requests and answers of panels
          mobile, tab,
          edits

flagVars == <<config, error, loading, refreshing>>
alertVars == <<prev, fired, met>>
feedVars == <<region, asked, feed>>
uiVars == <<settings, mobile, tab, edits>>
vars == <<posture, now, flagVars, fetches, shown, alertVars, feedVars, uiVars>>

HoldsSov == posture = "sov"
HasAo == posture # "rootless"
Kinds == {"campaigns", "pvp", "adm"}
-----------------------------------------------------------------------------
Screen ==
    IF loading THEN "loading" ELSE IF error \/ ~config THEN "error" ELSE "dashboard"

\* SOV_TABS, ROOTLESS_TABS: 0 map, 1 systems, 2 kills, 3 intel, 4 timers, 5 industry.
NavTabs == IF HasAo THEN 0..5 ELSE {2, 3, 4}

\* Mutant of ActiveTab: the tab last chosen, whether or not there is one.
MutActiveTab == tab

\* A tab that does not exist falls back to the first that does.
ActiveTab == IF tab \in NavTabs THEN tab ELSE IF HasAo THEN 0 ELSE 3

ShowTab(t) == ~mobile \/ ActiveTab = t

\* The panels of a tab.
TabPanels(t) ==
    IF HasAo
    THEN CASE t = 0 -> {"summary", "map"}
           [] t = 1 -> {"systems", "upgrades"} \union (IF HoldsSov THEN {"grinding", "trends"} ELSE {})
           [] t = 2 -> {"kills", "heatmap"}
           [] t = 3 -> {"campaigns", "channel", "hostiles", "bridges", "regional", "neighbours",
                        "dscan", "local", "fleet"}
           [] t = 4 -> {"timers"}
           [] t = 5 -> {"industry"}
    ELSE CASE t = 2 -> {"kills", "hostiles"}
           [] t = 3 -> {"dscan", "local", "fleet", "channel"}
           [] t = 4 -> {"timers"}
           [] OTHER -> {}

OnScreen == IF Screen = "dashboard" THEN UNION {TabPanels(t) : t \in {x \in 0..5 : ShowTab(x)}} ELSE {}
-----------------------------------------------------------------------------
\* What checkAndNotify keeps of an answer; without sov of ours no ADM.
Snapshot(d) ==
    [campaigns |-> ToSet(d.campaigns), phases |-> [c \in ToSet(d.campaigns) |-> Phase(c, now)],
     adm |-> [s \in {x \in Home : HoldsSov /\ Friendly(d.sov[x])} |-> d.sov[s].adm],
     pvp |-> FoldFunctionOnSet(LAMBDA a, b : a + b, 0, d.pvp, Home)]

\* The alerts a comparison raises, each kind if it is switched on.
Alerts(p, q) ==
    LET new == q.campaigns \ p.campaigns
        out == {c \in q.campaigns \intersect p.campaigns :
                   p.phases[c] = "reinforced" /\ q.phases[c] = "nodes"}
        dropped == {s \in DOMAIN p.adm \intersect DOMAIN q.adm : p.adm[s] >= 20 /\ q.adm[s] < 20}
        spike == IF q.pvp - p.pvp >= PvpThreshold THEN {"home"} ELSE {}
        on(k, alerts) == IF k \in settings THEN alerts ELSE {}
    IN  on("campaigns", ({"campaign"} \X new) \union ({"nodes"} \X out))
        \union on("pvp", {"spike"} \X spike) \union on("adm", {"adm"} \X dropped)

\* Every alert there can be, told apart as the tags of the notifications do.
Raisable == ({"campaign", "nodes"} \X Campaigns) \union ({"spike"} \X {"home"}) \union ({"adm"} \X Home)

\* Mutant of CheckAndNotify: every answer is compared with the first.
MutCheckAndNotify(d) ==
    LET q == Snapshot(d)
        raised == IF prev = <<>> THEN {} ELSE Alerts(prev[1], q)
    IN  /\ fired' = [a \in Raisable |-> fired[a] + IF a \in raised THEN 1 ELSE 0]
        /\ prev' = IF prev = <<>> THEN <<q>> ELSE prev
        /\ met' = IF prev = <<>> \/ "campaigns" \notin settings THEN met \union q.campaigns
                  ELSE met \union {a[2] : a \in {x \in raised : x[1] = "campaign"}}

\* checkAndNotify: the first answer raises nothing, and every answer is kept.
CheckAndNotify(d) ==
    LET q == Snapshot(d)
        raised == IF prev = <<>> THEN {} ELSE Alerts(prev[1], q)
    IN  /\ fired' = [a \in Raisable |-> fired[a] + IF a \in raised THEN 1 ELSE 0]
        /\ prev' = <<q>>
        /\ met' = IF prev = <<>> \/ "campaigns" \notin settings THEN met \union q.campaigns
                  ELSE met \union {a[2] : a \in {x \in raised : x[1] = "campaign"}}
-----------------------------------------------------------------------------
\* The page opens and asks for everything.
DashInit ==
    /\ posture \in {"sov", "guest", "rootless"} /\ now = 0
    /\ config = FALSE /\ error = FALSE /\ loading = TRUE /\ refreshing = FALSE
    /\ fetches = <<[init |-> TRUE, needConfig |-> TRUE, data |-> 0]>>
    /\ shown = -1 /\ prev = <<>> /\ fired = [a \in Raisable |-> 0] /\ met = {}
    /\ settings \in {{}, Kinds} /\ mobile \in BOOLEAN /\ tab = 0 /\ edits = 0
    /\ region = NoRegion
    /\ asked = [p \in Panels |-> <<>>] /\ feed = [p \in Panels |-> NoRegion]

Tick ==
    /\ now < MaxTime /\ now' = now + 1
    /\ UNCHANGED <<posture, flagVars, fetches, shown, alertVars, feedVars, uiVars>>

NeedConfig(init) == init \/ ~config

\* fetchData leaves the page: every five minutes, or when REFRESH is clicked,
\* which is disabled while one is under way.
StartFetch ==
    /\ Len(fetches) < MaxFetches
    /\ fetches' = Append(fetches, [init |-> FALSE, needConfig |-> NeedConfig(FALSE), data |-> now])
    /\ refreshing' = TRUE
    /\ UNCHANGED <<posture, now, config, error, loading, shown, alertVars, feedVars, uiVars>>

Poll == StartFetch
Refresh == Screen = "dashboard" /\ ~refreshing /\ StartFetch

\* A feed asks about a region.
AskFeeds(r) ==
    /\ \A p \in Panels : Len(asked[p]) < MaxAsked
    /\ asked' = [p \in Panels |-> Append(asked[p], r)]

\* fetchData goes on with all its answers.  The configuration comes once and
\* brings the region along; the feeds follow.
FetchSucceeds(i) ==
    LET f == fetches[i]
        r == IF f.needConfig /\ region = NoRegion THEN HomeRegion ELSE region
    IN  /\ fetches' = RemoveAt(fetches, i)
        /\ config' = (config \/ f.needConfig) /\ error' = FALSE
        /\ loading' = FALSE /\ refreshing' = FALSE
        /\ shown' = f.data
        /\ region' = r /\ AskFeeds(r)
        /\ CheckAndNotify(World[f.data])
        /\ UNCHANGED <<posture, now, feed, uiVars>>

\* One of the answers is an error: only the first fetch shows it.
FetchFails(i) ==
    /\ fetches' = RemoveAt(fetches, i)
    /\ error' = (error \/ fetches[i].init)
    /\ loading' = FALSE /\ refreshing' = FALSE
    /\ UNCHANGED <<posture, now, config, shown, alertVars, feedVars, uiVars>>

\* Mutant of FeedAnswers: a panel keeps the first region it was told about.
MutFeedAnswers(p, i) ==
    /\ asked' = [asked EXCEPT ![p] = RemoveAt(@, i)]
    /\ feed' = [feed EXCEPT ![p] = IF @ = NoRegion THEN asked[p][i] ELSE @]
    /\ UNCHANGED <<posture, now, flagVars, fetches, shown, alertVars, region, uiVars>>

\* A feed's answer comes in, whichever region it was asked about.
FeedAnswers(p, i) ==
    /\ asked' = [asked EXCEPT ![p] = RemoveAt(@, i)]
    /\ feed' = [feed EXCEPT ![p] = asked[p][i]]
    /\ UNCHANGED <<posture, now, flagVars, fetches, shown, alertVars, region, uiVars>>

FeedFails(p, i) ==
    /\ asked' = [asked EXCEPT ![p] = RemoveAt(@, i)]
    /\ UNCHANGED <<posture, now, flagVars, fetches, shown, alertVars, region, feed, uiVars>>

Edit == edits < MaxEdits /\ edits' = edits + 1

\* The picker of the kill feed; both panels follow it.
ChangeRegion(r) ==
    /\ "kills" \in OnScreen /\ r # region /\ Edit
    /\ region' = r /\ AskFeeds(r)
    /\ UNCHANGED <<posture, now, flagVars, fetches, shown, alertVars, feed, settings, mobile, tab>>

\* The bell: alerts are switched on and off, all of them or a kind; without a
\* home it has no switches for kinds, without sov none for the ADM.
SaveSettings(s) ==
    /\ Screen = "dashboard" /\ Edit
    /\ \/ s \in {{}, Kinds}
       \/ HasAo /\ \E k \in Kinds : s \in {settings \union {k}, settings \ {k}} /\ (k = "adm" => HoldsSov)
    /\ settings' = s
    /\ UNCHANGED <<posture, now, flagVars, fetches, shown, alertVars, feedVars, mobile, tab>>

Resize ==
    /\ Edit /\ mobile' = ~mobile
    /\ UNCHANGED <<posture, now, flagVars, fetches, shown, alertVars, feedVars, settings, tab>>

\* MobileNav
ChooseTab(t) ==
    /\ Screen = "dashboard" /\ mobile /\ t \in NavTabs /\ t # ActiveTab /\ Edit
    /\ tab' = t
    /\ UNCHANGED <<posture, now, flagVars, fetches, shown, alertVars, feedVars, settings, mobile>>

DashNext ==
    \/ Tick \/ Poll \/ Refresh
    \/ \E i \in DOMAIN fetches : FetchSucceeds(i) \/ FetchFails(i)
    \/ \E p \in Panels : \E i \in DOMAIN asked[p] : FeedAnswers(p, i) \/ FeedFails(p, i)
    \/ \E r \in Regions : ChangeRegion(r)
    \/ \E s \in SUBSET Kinds : SaveSettings(s)
    \/ Resize
    \/ \E t \in 0..5 : ChooseTab(t)

\* The interval keeps firing, browsers settle every request, and of the
\* requests sent over and over not every one fails.
Fairness ==
    /\ WF_vars(Poll) /\ SF_vars(fetches # <<>> /\ FetchSucceeds(1))
    /\ \A p \in Panels : SF_vars(asked[p] # <<>> /\ FeedAnswers(p, 1))

DashSpec == DashInit /\ [][DashNext]_vars /\ Fairness
-----------------------------------------------------------------------------
\* Whatever order overlapping fetches answer in, that nodes are out is said
\* at most once of a campaign, and with alerts on no campaign comes on the
\* page without a word: it was there at the first look, or it was announced.
AlertsOnce ==
    /\ \A c \in Campaigns : fired[<<"nodes", c>>] <= 1
    /\ shown # -1 => ToSet(World[shown].campaigns) \subseteq met
    /\ ~HoldsSov => \A s \in Home : fired[<<"adm", s>>] = 0

\* The card, the table, the map, the trends and the plan tell one story of
\* the displayed data: they mark the same systems hostile and the same ones
\* critical, none if the sov is not ours, and the plan names a system that is
\* not critical only when it names every critical one.  The map says it of the
\* systems it draws; it rings those that have a campaign, and the ring tells
\* the phase of one of them: it is the card's unless phases differ in a system.
OneStory ==
    shown # -1 =>
        LET d == World[shown]
            critical == CriticalCard(d, "all", HoldsSov)
        IN  /\ ~HoldsSov => critical = {}
            /\ \A t \in Tabs : CriticalCard(d, t, HoldsSov) = critical \intersect Visible(t)
            /\ \A s \in Systems :
                  /\ s \in critical <=> "CRITICAL" \in TableBadges(d, s, HoldsSov)
                  /\ s \in critical <=> HoldsSov /\ s \in Home /\ TrendMark(d, s) = "CRIT"
            /\ HoldsSov => critical \subseteq Targets(d) \/ Targets(d) \subseteq critical
            /\ \A s \in Placed :
                  LET rings == Rings(d, s, HoldsSov, now)
                      here(campaigns) == {c \in campaigns : CampaignAt[c] = s}
                  IN  /\ s \in critical <=> "critical" \in rings
                      /\ s \in critical <=> HoldsSov /\ "grind" \in TooltipWarnings(d, s)
                      /\ s \in HostileCard(d, "primary") <=> NodeColor(d, s) = "red"
                      /\ s \in HostCard(d, "primary", HoldsSov) <=> ~HoldsSov /\ NodeColor(d, s) = "blue"
                      /\ s \in HostileCard(d, "primary") <=> "lost" \in rings
                      /\ here(ToSet(d.campaigns)) = {} <=> rings \intersect {"nodes", "reffed"} = {}
                      /\ "nodes" \in rings => here(Active(d, now)) # {} /\ CampaignCard(d, now) = "danger"
                      /\ "reffed" \in rings => here(Reinforced(d, now)) # {}

\* A page that is past loading is never blank, on a phone of a deployment
\* without a map no less than on a desktop, and the navigation marks the tab
\* it shows.
NoBlankScreen ==
    Screen = "dashboard" => OnScreen # {} /\ (mobile => ActiveTab \in NavTabs)

\* The page comes to show the newest data even if its first fetch failed, and
\* once the region is chosen both feeds come to show it.
PageHeals == <>[](Screen = "dashboard" /\ shown = now /\ \A p \in Panels : feed[p] = region)
=============================================================================
