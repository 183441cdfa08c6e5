----------------------------- MODULE WarClassify -----------------------------
(***************************************************************************)
(* Which side lost a ship, and which side scored it.  The same question is *)
(* answered in two places: war_classify.py answers it from the killmail    *)
(* when a kill is ingested, db.reclassify_war_kills answers it again from  *)
(* what the stored row kept of the killmail, after a roster change.        *)
(***************************************************************************)
EXTENDS Integers, FiniteSets, Sequences, FiniteSetsExt

CONSTANTS
    Alliance, Corporation,
    NoEntity,   \* a missing alliance_id or corporation_id
    NoSide,     \* None: on neither side
    MaxStored   \* MAX_STORED_ATTACKER_ALLIANCES

ASSUME ClassifyAssumption ==
    /\ NoEntity \notin Alliance \cup Corporation
    /\ NoSide \notin {"a", "b"}
    /\ MaxStored \in Nat

Entity == Alliance \cup Corporation
Side == {"a", "b"}
MaybeSide == Side \cup {NoSide}

\* side_by_alliance and side_by_corp of a WarSpec, as one map.
Roster == [Entity -> MaybeSide]

\* A victim or an attacker; a pilot is an attacker with a character_id.
Party == [alliance : Alliance \cup {NoEntity}, corp : Corporation \cup {NoEntity}]
Attacker == [alliance : Alliance \cup {NoEntity}, corp : Corporation \cup {NoEntity},
             pilot : BOOLEAN]

\* What the classifiers read of a killmail; final is the position of the
\* attacker who landed the final blow, 0 if none is marked.
IsKillmail(km) ==
    /\ DOMAIN km = {"victim", "attackers", "final"}
    /\ km.victim \in Party
    /\ km.attackers \in Seq(Attacker)
    /\ km.final \in 0..Len(km.attackers)

SideIn(roster, e) == IF e = NoEntity THEN NoSide ELSE roster[e]

\* A corporation's own listing wins over that of its alliance.
SideOf(roster, party) ==
    IF SideIn(roster, party.corp) # NoSide THEN SideIn(roster, party.corp)
    ELSE SideIn(roster, party.alliance)

\* The side with most votes; a tie goes to the final blow's side if it is
\* tied for the lead, and else to the first in the alphabet.
Leader(votes, finalSide) ==
    LET best == Max({votes[s] : s \in Side})
        leaders == {s \in Side : votes[s] = best}
    IN  IF best = 0 THEN NoSide
        ELSE IF finalSide \in leaders THEN finalSide
        ELSE IF "a" \in leaders THEN "a" ELSE "b"

----------------------------------------------------------------------------
(* At ingest: war_classify.py                                               *)

\* Attackers without a character do not vote.
Votes(roster, km) ==
    [s \in Side |-> Cardinality({i \in DOMAIN km.attackers :
        km.attackers[i].pilot /\ SideOf(roster, km.attackers[i]) = s})]

FinalParty(km) == IF km.final = 0 THEN [alliance |-> NoEntity, corp |-> NoEntity]
                  ELSE km.attackers[km.final]

KillerSide(roster, km) ==
    Leader(Votes(roster, km), SideOf(roster, FinalParty(km)))

VictimSide(roster, km) == SideOf(roster, km.victim)

----------------------------------------------------------------------------
(* From the stored row: db.reclassify_war_kills                             *)

\* The first MaxStored alliances among the attackers, with their numbers of
\* pilots, are what a row keeps of its attackers.
StoredAlliances(km) ==
    LET alliances(n) == {km.attackers[j].alliance : j \in 1..n} \ {NoEntity}
    IN  {km.attackers[i].alliance : i \in {i \in DOMAIN km.attackers :
             Cardinality(alliances(i)) <= MaxStored}} \ {NoEntity}

\* The stored numbers of pilots, added up by the sides of their alliances.
StoredVotes(roster, km) ==
    [s \in Side |-> Cardinality({i \in DOMAIN km.attackers :
        /\ km.attackers[i].pilot
        /\ km.attackers[i].alliance \in StoredAlliances(km)
        /\ roster[km.attackers[i].alliance] = s})]

\* A row without numbers of pilots: decided only if one side is present at
\* most, and else left at what the row says.
PresentSides(roster, km) == {roster[a] : a \in StoredAlliances(km)} \ {NoSide}

FromPresence(roster, km, killer) ==
    IF PresentSides(roster, km) = {} THEN NoSide
    ELSE IF Cardinality(PresentSides(roster, km)) = 1
    THEN CHOOSE s \in PresentSides(roster, km) : TRUE
    ELSE killer

RecomputedKillerSide(roster, km, row) ==
    IF row.counted /\ StoredAlliances(km) # {}
    THEN Leader(StoredVotes(roster, km), SideIn(roster, FinalParty(km).alliance))
    ELSE FromPresence(roster, km, row.killer)

\* The row after it was recomputed under a roster.
Recomputed(roster, km, row) ==
    [row EXCEPT !.victim = VictimSide(roster, km),
                !.killer = RecomputedKillerSide(roster, km, row)]

\* The rows a change of one entity's side looks at.
InScope(e, km) ==
    e \in {km.victim.alliance, km.victim.corp} \cup StoredAlliances(km)

=============================================================================
