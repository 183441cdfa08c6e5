----------------------------- MODULE SystemView -----------------------------
(***************************************************************************)
(* What the dashboard says of a solar system, place by place: the summary  *)
(* cards (App.jsx), the system table, the map and its tooltip, the         *)
(* grinding plan and the ADM trends.  Each place classifies the same data  *)
(* with code of its own.                                                   *)
(*                                                                         *)
(* d is one fetch of the data: for each system its sovereignty [owner,     *)
(* adm] with the ADM in tenths, its pvp and npc kills, its ADM history of  *)
(* [age, adm] oldest first, and the campaigns in the order of the answer,  *)
(* which is ESI's.  `holds` says that we own the space we live in          *)
(* (holds_sov); a host's sov is friendly too.                              *)
(***************************************************************************)
EXTENDS Integers, SequencesExt, FiniteSetsExt

CONSTANTS Constellations,   \* constellation -> its systems
          Primary,          \* the primary constellations
          Bonus,            \* getTierBonus: the bonus of a system's tier
          Order,            \* position in the configuration
          Placed,           \* the systems that the map's layout has a place for
          PlanSize,         \* targets the grinding plan names
          Campaigns, CampaignAt, Start  \* a campaign's system and spawn time

Systems == UNION {Constellations[c] : c \in DOMAIN Constellations}
Home == UNION {Constellations[c] : c \in Primary}

Owners == {"nobody", "us", "friend", "host", "hostile"}

\* The tiers of getTierBonus; the API lists the campaigns of constellations
\* that it configures, and gives no constellation the name of a tab.
ASSUME ViewAssumption ==
    /\ Primary \subseteq DOMAIN Constellations /\ {"primary", "all"} \intersect DOMAIN Constellations = {}
    /\ IsFiniteSet(Home) /\ Placed \subseteq Systems /\ PlanSize \in Nat
    /\ \A s \in Home : Bonus[s] \in {500, 300, 100, -50, 0}
    /\ \A c \in Campaigns : CampaignAt[c] \in Systems /\ Start[c] \in Int

\* What the API answers: an ADM is between 0 and 6.
IsAnswer(d) ==
    /\ d.campaigns \in Seq(Campaigns)
    /\ \A s \in Systems : d.sov[s].owner \in Owners /\ d.sov[s].adm \in 0..60

Friendly(sov) == sov.owner \in {"us", "friend", "host"}

\* getCampaignPhase, with the browser's clock at rendering.
Phase(c, now) == IF now >= Start[c] THEN "nodes" ELSE "reinforced"

Active(d, now) == {c \in ToSet(d.campaigns) : Phase(c, now) = "nodes"}
Reinforced(d, now) == {c \in ToSet(d.campaigns) : Phase(c, now) = "reinforced"}
-----------------------------------------------------------------------------
\* The systems of the chosen tab, and the cards over them.
Tabs == {"primary", "all"} \union DOMAIN Constellations
Visible(tab) ==
    CASE tab = "primary" -> Home [] tab = "all" -> Systems [] OTHER -> Constellations[tab]

HostileCard(d, tab) == {s \in Visible(tab) : d.sov[s].owner = "hostile"}
HostCard(d, tab, holds) == IF holds THEN {} ELSE {s \in Visible(tab) : d.sov[s].owner = "host"}

\* Mutant of CriticalCard: the guard on our own sov is missing.
MutCriticalCard(d, tab, holds) ==
    {s \in Visible(tab) \intersect Home : Friendly(d.sov[s]) /\ d.sov[s].adm \in 1..19}

CriticalCard(d, tab, holds) ==
    {s \in Visible(tab) \intersect Home :
        holds /\ Friendly(d.sov[s]) /\ d.sov[s].adm \in 1..19}

\* The colour of the campaigns card.
CampaignCard(d, now) ==
    IF Active(d, now) # {} THEN "danger" ELSE IF d.campaigns # <<>> THEN "warn" ELSE "safe"
-----------------------------------------------------------------------------
\* SystemTable: the badges of a row.
TableBadges(d, s, holds) ==
    LET grindable == s \in Home /\ holds /\ Friendly(d.sov[s])
    IN  {b \in {"HOSTILE", "CRITICAL", "GRIND"} :
            CASE b = "HOSTILE" -> s \in Home /\ d.sov[s].owner = "hostile"
              [] b = "CRITICAL" -> grindable /\ d.sov[s].adm \in 1..19
              [] b = "GRIND" -> grindable /\ d.sov[s].adm \in 20..39}
-----------------------------------------------------------------------------
\* ConstellationMap: getColor, and the rings and glows round a system.  What
\* has no place is not drawn.
NodeColor(d, s) ==
    IF s \notin Placed THEN "none"
    ELSE IF s \notin Home THEN "constellation"
    ELSE CASE d.sov[s].owner = "hostile" -> "red" [] d.sov[s].owner = "host" -> "blue"
           [] OTHER -> "green"

\* A system with campaigns has one ring, red if the nodes of the first of them
\* in the list are out: an active one behind a reinforced one does not show.
CampaignRing(d, s, now) ==
    LET first == SelectInSeq(d.campaigns, LAMBDA c : CampaignAt[c] = s)
    IN  IF first = 0 THEN {}
        ELSE IF Phase(d.campaigns[first], now) = "nodes" THEN {"nodes"} ELSE {"reffed"}

Rings(d, s, holds, now) ==
    LET ours == s \in Home /\ holds /\ Friendly(d.sov[s])
    IN  IF s \notin Placed THEN {} ELSE CampaignRing(d, s, now) \union
        {r \in {"critical", "caution", "lost", "pvp", "npc"} :
            CASE r = "critical" -> ours /\ d.sov[s].adm \in 1..19
              [] r = "caution" -> ours /\ d.sov[s].adm \in 20..39
              [] r = "lost" -> s \in Home /\ d.sov[s].owner = "hostile"
              [] r = "pvp" -> d.pvp[s] >= 1
              [] r = "npc" -> d.npc[s] > 200}

\* The warnings of the tooltip of a system on the map: what it says of a low ADM depends on neither
\* whose sov it is nor whether we can grind it.
TooltipWarnings(d, s) ==
    {w \in {x \in {"reconquest", "grind", "below"} : s \in Placed} :
        CASE w = "reconquest" -> s \in Home /\ d.sov[s].owner = "hostile"
          [] w = "grind" -> s \in Home /\ Friendly(d.sov[s]) /\ d.sov[s].adm \in 1..19
          [] w = "below" -> s \in Home /\ Friendly(d.sov[s]) /\ d.sov[s].adm \in 20..39}
-----------------------------------------------------------------------------
\* compute24hChange: against the last point older than a day, or the oldest.
Change24h(history, adm) ==
    IF Len(history) < 2 THEN 0
    ELSE LET i == SelectInSeq(history, LAMBDA p : p.age <= 24)
         IN  adm - history[IF i <= 1 THEN 1 ELSE i - 1].adm

\* The score of the grinding plan.
Score(d, s) ==
    LET adm == d.sov[s].adm
    IN  (CASE adm \in 1..19 -> 1000 [] adm \in 20..39 -> 200 [] OTHER -> 0)
        + Bonus[s]
        + (IF adm > 0 THEN 5 * (60 - adm) ELSE 0)
        + (IF Change24h(d.history[s], adm) < -1 THEN 100 ELSE 0)

\* The plan's targets: the PlanSize best of the friendly systems below 4.5.
Targets(d) ==
    LET candidates == {s \in Home : Friendly(d.sov[s]) /\ d.sov[s].adm \in 1..44}
        ahead(t, s) == \/ Score(d, t) > Score(d, s)
                       \/ Score(d, t) = Score(d, s) /\ Order[t] < Order[s]
    IN  {s \in candidates : Cardinality({t \in candidates : ahead(t, s)}) < PlanSize}

\* AdmTrends: the mark next to a system's name.
TrendMark(d, s) ==
    IF ~Friendly(d.sov[s]) \/ d.sov[s].adm \notin 1..39 THEN "none"
    ELSE IF d.sov[s].adm < 20 THEN "CRIT" ELSE "LOW"
=============================================================================
