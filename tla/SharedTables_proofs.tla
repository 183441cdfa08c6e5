------------------------- MODULE SharedTables_proofs -------------------------
(***************************************************************************)
(* The two tables a fleet edits together while others read them: the war   *)
(* ledger under roster edits and polls, in any number of processes and     *)
(* threads, and the entosis board, on any number of pages.                 *)
(***************************************************************************)
EXTENDS WarRoster, Entosis, FiniteSetTheorems, SequenceTheorems, TLAPS

----------------------------------------------------------------------------
(* When the two classifiers of WarClassify agree.                          *)

\* No attacker fights under a listing of the own corporation.
NoCorpVotes(roster, km) ==
    \A i \in DOMAIN km.attackers : SideIn(roster, km.attackers[i].corp) = NoSide

\* The alliances that took part in a kill.
AttackingAlliances(km) ==
    {km.attackers[i].alliance : i \in DOMAIN km.attackers} \ {NoEntity}

\* The greatest element of a set of one number.
LEMMA MaxOfOne == ASSUME NEW n \in Int PROVE Max({n}) = n
BY DEF Max

\* Nobody voted: no side scored the kill.
LEMMA NoVotes ==
  ASSUME NEW votes, \A s \in Side : votes[s] = 0, NEW final
  PROVE  Leader(votes, final) = NoSide
<1>1. {votes[s] : s \in Side} = {0}
  BY DEF Side
<1> QED BY <1>1, MaxOfOne DEF Leader

\* A killmail has finitely many attackers, so finitely many alliances.
LEMMA FinitelyManyAlliances ==
  ASSUME NEW km, IsKillmail(km)
  PROVE  IsFiniteSet(AttackingAlliances(km))
<1> DEFINE D == DOMAIN km.attackers
           f == [i \in D |-> km.attackers[i].alliance]
           T == {km.attackers[i].alliance : i \in D}
<1>1. IsFiniteSet(D)
  <2>1. D = 1..Len(km.attackers) /\ Len(km.attackers) \in Int
    BY DEF IsKillmail
  <2> QED BY <2>1, FS_Interval
<1>2. f \in Surjection(D, T)
  BY DEF Surjection
<1>3. IsFiniteSet(T)
  <2> HIDE DEF f, T, D
  <2> QED BY <1>1, <1>2, FS_Surjection DEF ExistsSurjection
<1> QED BY <1>3, FS_RemoveElement DEF AttackingAlliances

\* A row of a kill by no more than MaxStored alliances keeps all of them.
LEMMA AllStored ==
  ASSUME NEW km, IsKillmail(km),
         Cardinality(AttackingAlliances(km)) <= MaxStored
  PROVE  StoredAlliances(km) = AttackingAlliances(km)
<1> DEFINE upTo(n) == {km.attackers[j].alliance : j \in 1..n} \ {NoEntity}
<1>1. ASSUME NEW i \in DOMAIN km.attackers
      PROVE  Cardinality(upTo(i)) <= MaxStored
  <2>1. DOMAIN km.attackers = 1..Len(km.attackers) /\ Len(km.attackers) \in Nat
    BY DEF IsKillmail
  <2>2. upTo(i) \subseteq AttackingAlliances(km)
    BY <2>1 DEF AttackingAlliances
  <2>3. Cardinality(upTo(i)) <= Cardinality(AttackingAlliances(km))
        /\ Cardinality(upTo(i)) \in Nat /\ Cardinality(AttackingAlliances(km)) \in Nat
    <3> HIDE DEF upTo
    <3> QED BY <2>2, FinitelyManyAlliances, FS_Subset, FS_CardinalityType
  <2> HIDE DEF upTo
  <2> QED BY <2>3, ClassifyAssumption
<1>2. {i \in DOMAIN km.attackers : Cardinality(upTo(i)) <= MaxStored} = DOMAIN km.attackers
  <2> HIDE DEF upTo
  <2> QED BY <1>1
<1> QED BY <1>2 DEF StoredAlliances, AttackingAlliances

\* For any killmail of at most MaxStored alliances and any roster that lists
\* no corporation of its attackers, recomputing a row that has numbers of pilots gives the
\* killer side that ingest gives: db._recompute_killer_side reproduces the
\* majority rule of war_classify._killer_side.
THEOREM RecomputationExact ==
  ASSUME NEW roster \in Roster, NEW km, IsKillmail(km), NoCorpVotes(roster, km),
         Cardinality(AttackingAlliances(km)) <= MaxStored,
         NEW row, row.counted = TRUE
  PROVE  RecomputedKillerSide(roster, km, row) = KillerSide(roster, km)
<1>1. StoredAlliances(km) = AttackingAlliances(km)
  BY AllStored
<1>2. ASSUME NEW i \in DOMAIN km.attackers
      PROVE  /\ km.attackers[i].alliance \in Alliance \cup {NoEntity}
             /\ SideOf(roster, km.attackers[i]) = SideIn(roster, km.attackers[i].alliance)
  <2>1. km.attackers[i] \in Attacker
    BY DEF IsKillmail
  <2> QED BY <2>1 DEF Attacker, NoCorpVotes, SideOf
<1>3. SideOf(roster, FinalParty(km)) = SideIn(roster, FinalParty(km).alliance)
  <2>1. CASE km.final = 0
    BY <2>1 DEF FinalParty, SideOf, SideIn
  <2>2. CASE km.final # 0
    <3>1. km.final \in DOMAIN km.attackers
      BY <2>2 DEF IsKillmail
    <3> QED BY <3>1, <2>2, <1>2 DEF FinalParty
  <2> QED BY <2>1, <2>2
<1>4. ASSUME NEW s \in Side
      PROVE  Votes(roster, km)[s] = StoredVotes(roster, km)[s]
  <2>1. ASSUME NEW i \in DOMAIN km.attackers
        PROVE  SideOf(roster, km.attackers[i]) = s
               <=> /\ km.attackers[i].alliance \in StoredAlliances(km)
                   /\ roster[km.attackers[i].alliance] = s
    BY <1>1, <1>2, ClassifyAssumption DEF AttackingAlliances, SideIn, Side
  <2> QED BY <2>1 DEF Votes, StoredVotes
<1>5. Votes(roster, km) = StoredVotes(roster, km)
  BY <1>4 DEF Votes, StoredVotes
<1>6. CASE StoredAlliances(km) # {}
  BY <1>3, <1>5, <1>6 DEF RecomputedKillerSide, KillerSide
<1>7. CASE StoredAlliances(km) = {}
  <2>1. RecomputedKillerSide(roster, km, row) = NoSide
    BY <1>7 DEF RecomputedKillerSide, FromPresence, PresentSides
  <2>2. \A s \in Side : StoredVotes(roster, km)[s] = 0
    BY <1>7, FS_EmptySet DEF StoredVotes
  <2> QED BY <2>1, <2>2, <1>5, NoVotes DEF KillerSide
<1> QED BY <1>6, <1>7

----------------------------------------------------------------------------
(* The classifiers' results, and what they depend on.                      *)

\* The corporations of the attackers, which a row does not keep.
AttackingCorps(km) ==
    {km.attackers[i].corp : i \in DOMAIN km.attackers} \ {NoEntity}

\* A row keeps of the attackers what decides the sides of a kill: no more
\* alliances than it has room for, and corporations the module does not list.
KeptWhole(km) ==
    /\ Cardinality(AttackingAlliances(km)) <= MaxStored
    /\ \A c \in AttackingCorps(km) : Base[c] = NoSide

LEMMA AttackersAre ==
  ASSUME NEW km, IsKillmail(km), NEW i \in DOMAIN km.attackers
  PROVE  /\ km.attackers[i].alliance \in Alliance \cup {NoEntity}
         /\ km.attackers[i].corp \in Corporation \cup {NoEntity}
<1>1. km.attackers[i] \in Attacker
  BY DEF IsKillmail
<1> QED BY <1>1 DEF Attacker

LEMMA SidesAreSides ==
  ASSUME NEW roster \in Roster
  PROVE  /\ \A e \in Entity \cup {NoEntity} : SideIn(roster, e) \in MaybeSide
         /\ \A party : party.alliance \in Alliance \cup {NoEntity} /\ party.corp \in Corporation \cup {NoEntity}
               => SideOf(roster, party) \in MaybeSide
         /\ \A votes, side : Leader(votes, side) \in MaybeSide
BY DEF SideIn, SideOf, Roster, MaybeSide, Entity, Leader, Side

LEMMA FinalIsParty ==
  ASSUME NEW km, IsKillmail(km)
  PROVE  /\ FinalParty(km).alliance \in Alliance \cup {NoEntity}
         /\ FinalParty(km).corp \in Corporation \cup {NoEntity}
         /\ km.final # 0 => km.final \in DOMAIN km.attackers
<1>1. CASE km.final = 0
  BY <1>1 DEF FinalParty
<1>2. CASE km.final # 0
  <2>1. km.final \in DOMAIN km.attackers
    BY <1>2 DEF IsKillmail
  <2>2. km.attackers[km.final] \in Attacker
    BY <2>1 DEF IsKillmail
  <2> QED BY <1>2, <2>1, <2>2 DEF FinalParty, Attacker
<1> QED BY <1>1, <1>2

LEMMA ClassifiedIsRow ==
  ASSUME NEW roster \in Roster, NEW km, IsKillmail(km), NEW counted \in BOOLEAN
  PROVE  Classified(roster, km, counted) \in Row
<1>1. VictimSide(roster, km) \in MaybeSide
  BY SidesAreSides DEF VictimSide, IsKillmail, Party
<1>2. KillerSide(roster, km) \in MaybeSide
  BY SidesAreSides DEF KillerSide
<1> QED BY <1>1, <1>2 DEF Classified, Row

LEMMA RecomputedIsRow ==
  ASSUME NEW roster \in Roster, NEW km, IsKillmail(km), NEW row \in Row
  PROVE  /\ Recomputed(roster, km, row) \in Row
         /\ Recomputed(roster, km, row).counted = row.counted
         /\ Recomputed(roster, km, row).victim = VictimSide(roster, km)
         /\ Recomputed(roster, km, row).killer = RecomputedKillerSide(roster, km, row)
<1>1. VictimSide(roster, km) \in MaybeSide
  BY SidesAreSides DEF VictimSide, IsKillmail, Party
<1>2. RecomputedKillerSide(roster, km, row) \in MaybeSide
  <2>1. \A a \in StoredAlliances(km) : a \in Entity
    <3> SUFFICES ASSUME NEW i \in DOMAIN km.attackers, km.attackers[i].alliance # NoEntity
                 PROVE  km.attackers[i].alliance \in Entity
      BY DEF StoredAlliances
    <3> QED BY AttackersAre DEF Entity
  <2>2. PresentSides(roster, km) \subseteq MaybeSide
    BY <2>1 DEF PresentSides, Roster
  <2>3. FromPresence(roster, km, row.killer) \in MaybeSide
    <3>1. row.killer \in MaybeSide /\ NoSide \in MaybeSide
      BY DEF Row, MaybeSide
    <3>2. PresentSides(roster, km) # {} =>
             (CHOOSE s \in PresentSides(roster, km) : TRUE) \in PresentSides(roster, km)
      OBVIOUS
    <3> QED BY <2>2, <3>1, <3>2 DEF FromPresence
  <2> QED BY <2>3, SidesAreSides DEF RecomputedKillerSide
<1> QED BY <1>1, <1>2 DEF Recomputed, Row

\* A row with numbers of pilots is recomputed to what ingest would store.
LEMMA RecomputedIsClassified ==
  ASSUME NEW roster \in Roster, NEW km, IsKillmail(km), KeptWhole(km), NoCorpVotes(roster, km),
         NEW row \in Row, row.counted = TRUE
  PROVE  Recomputed(roster, km, row) = Classified(roster, km, TRUE)
<1>2. RecomputedKillerSide(roster, km, row) = KillerSide(roster, km)
  BY RecomputationExact DEF KeptWhole
<1>3. /\ Recomputed(roster, km, row) \in Row
      /\ Recomputed(roster, km, row).counted = TRUE
      /\ Recomputed(roster, km, row).victim = VictimSide(roster, km)
      /\ Recomputed(roster, km, row).killer = KillerSide(roster, km)
  BY <1>2, RecomputedIsRow
<1>4. \A r \in Row : r = [victim |-> r.victim, killer |-> r.killer, counted |-> r.counted]
  BY DEF Row
<1> HIDE DEF Recomputed
<1> QED BY <1>3, <1>4 DEF Classified

\* Rosters that agree on those involved in a kill classify it alike.
LEMMA InvolvedDecide ==
  ASSUME NEW r1 \in Roster, NEW r2 \in Roster, NEW km, IsKillmail(km),
         \A e \in Involved(km) \cap Entity : r1[e] = r2[e], NEW counted
  PROVE  Classified(r1, km, counted) = Classified(r2, km, counted)
<1>1. \A e \in Involved(km) : SideIn(r1, e) = SideIn(r2, e)
  <2>1. Involved(km) \subseteq Entity \cup {NoEntity}
    <3>1. km.victim.alliance \in Entity \cup {NoEntity} /\ km.victim.corp \in Entity \cup {NoEntity}
      BY DEF IsKillmail, Party, Entity
    <3> QED BY <3>1, AttackersAre DEF Involved, Entity
  <2> QED BY <2>1 DEF SideIn
<1>2. VictimSide(r1, km) = VictimSide(r2, km)
  BY <1>1 DEF VictimSide, SideOf, Involved
<1>3. \A i \in DOMAIN km.attackers : SideOf(r1, km.attackers[i]) = SideOf(r2, km.attackers[i])
  BY <1>1 DEF SideOf, Involved
<1>4. Votes(r1, km) = Votes(r2, km)
  <2>1. ASSUME NEW s \in Side PROVE
      {i \in DOMAIN km.attackers : km.attackers[i].pilot /\ SideOf(r1, km.attackers[i]) = s}
      = {i \in DOMAIN km.attackers : km.attackers[i].pilot /\ SideOf(r2, km.attackers[i]) = s}
    BY <1>3
  <2> QED BY <2>1 DEF Votes
<1>5. SideOf(r1, FinalParty(km)) = SideOf(r2, FinalParty(km))
  <2>1. CASE km.final = 0
    BY <2>1 DEF FinalParty, SideOf, SideIn
  <2>2. CASE km.final # 0
    BY <2>2, <1>3, FinalIsParty DEF FinalParty
  <2> QED BY <2>1, <2>2
<1> QED BY <1>2, <1>4, <1>5 DEF Classified, KillerSide

\* The rows an edit looks at are those of the kills the entity took part in,
\* unless it took part as an attacker's corporation.
LEMMA ScopeIsInvolved ==
  ASSUME NEW km, IsKillmail(km), KeptWhole(km), NEW e \in Entity \ AttackingCorps(km)
  PROVE  InScope(e, km) <=> e \in Involved(km)
<1>1. StoredAlliances(km) = AttackingAlliances(km)
  BY AllStored DEF KeptWhole
<1>2. e # NoEntity
  BY ClassifyAssumption DEF Entity
<1> QED BY <1>1, <1>2 DEF InScope, Involved, AttackingAlliances, AttackingCorps

\* The roster that the overrides make of the module's.
LEMMA LayeredIsRoster ==
  ASSUME NEW ov \in Overrides PROVE Layered(ov) \in Roster
BY RosterAssumption DEF Layered, Overrides, Roster, Ruling, MaybeSide

----------------------------------------------------------------------------
(* The ledger under edits.  A thread that no change has overtaken since it *)
(* loaded the overrides works with them, and what it is about to write is  *)
(* what ingest would store: an edit's rows together with every row that    *)
(* came into the ledger since it selected them.                            *)

RowMaps == UNION {[S -> Row] : S \in SUBSET Killmail}

Task == [at : At, then : {"idle", "write", "select", "classify"},
         entity : Entity \cup {NoEntity}, ruling : Ruling \cup {"unset"},
         seen : Overrides, found : SUBSET Killmail, rows : RowMaps,
         kill : Killmail \cup {NoKill}, overlapped : BOOLEAN]

RosterTypeOK ==
    /\ overrides \in Overrides
    /\ spec \in [Process -> Roster]
    /\ ledger \in RowMaps
    /\ task \in [Thread -> Task]

Current == Layered(overrides)
Follows(km) == ledger[km] = Classified(Current, km, TRUE)

\* A thread at one of these stages that no change has overtaken.
OnTime(t, stages) == task[t].at \in stages /\ ~task[t].overlapped

\* The row of a kill once the thread has written what it has found.
After(t, km) == IF km \in DOMAIN task[t].rows THEN task[t].rows[km] ELSE ledger[km]

KnowsEntity(t) ==
    task[t].at \in {"write", "select", "update"} \/ task[t].then \in {"write", "select"}
        => task[t].entity \in Entity

SeesRulings(t) == OnTime(t, {"reset", "layer"}) => task[t].seen = overrides

UsesRulings(t) ==
    OnTime(t, {"write", "select", "update", "classify", "insert"}) => spec[ProcessOf[t]] = Current

KillReady(t) ==
    /\ task[t].at = "insert" => task[t].kill \in Killmail /\ DOMAIN task[t].rows = {task[t].kill}
    /\ OnTime(t, {"insert"}) =>
           task[t].rows[task[t].kill] = Classified(Current, task[t].kill, TRUE)

RowsReady(t) ==
    /\ task[t].at = "update" => DOMAIN task[t].rows \subseteq task[t].found
    /\ OnTime(t, {"update"}) =>
        /\ task[t].found \subseteq DOMAIN ledger
        /\ \A km \in task[t].found :
              After(t, km).counted => After(t, km) = Classified(Current, km, TRUE)
        /\ \A km \in DOMAIN ledger \ (task[t].found \cup raced) :
              ledger[km].counted /\ task[t].entity \in Involved(km) => Follows(km)

TaskOK(t) == KnowsEntity(t) /\ SeesRulings(t) /\ UsesRulings(t) /\ KillReady(t) /\ RowsReady(t)

RosterInv == RosterTypeOK /\ (\A t \in Thread : TaskOK(t)) /\ LedgerFollowsRoster

\* No edit is about a corporation of an attacker; none has been.
SparesAttackers ==
    \A t \in Thread, km \in Killmail : task[t].entity \notin AttackingCorps(km)
AttackersUnruled == \A km \in Killmail : \A c \in AttackingCorps(km) : overrides[c] = "unset"

LEMMA UnruledDoNotVote ==
  ASSUME RosterTypeOK, AttackersUnruled, NEW km \in Killmail, KeptWhole(km)
  PROVE  NoCorpVotes(Current, km)
<1> SUFFICES ASSUME NEW i \in DOMAIN km.attackers, km.attackers[i].corp # NoEntity
             PROVE  Current[km.attackers[i].corp] = NoSide
  BY DEF NoCorpVotes, SideIn
<1> DEFINE c == km.attackers[i].corp
<1>1. c \in AttackingCorps(km)
  BY DEF AttackingCorps
<1>2. IsKillmail(km)
  BY RosterAssumption
<1>3. c \in Entity
  BY <1>2, AttackersAre DEF Entity
<1>4. overrides[c] = "unset" /\ Base[c] = NoSide
  BY <1>1 DEF AttackersUnruled, KeptWhole
<1> QED BY <1>3, <1>4 DEF Current, Layered

LEMMA RowMapsAre ==
  ASSUME NEW f
  PROVE  f \in RowMaps <=> DOMAIN f \subseteq Killmail /\ f = [km \in DOMAIN f |-> f[km]]
                           /\ \A km \in DOMAIN f : f[km] \in Row
BY DEF RowMaps

LEMMA NoTaskIsTask == NoTask \in Task /\ <<>> \in RowMaps
<1>1. <<>> \in RowMaps
  <2>1. <<>> = [km \in {} |-> <<>>[km]]
    OBVIOUS
  <2>2. <<>> \in [{} -> Row]
    BY <2>1
  <2> QED BY <2>2 DEF RowMaps
<1>2. [e \in Entity |-> "unset"] \in Overrides
  BY DEF Overrides
<1> QED BY <1>1, <1>2 DEF NoTask, Task, At

\* A task as a change leaves it: overtaken, idle, waiting or untouched.
LEMMA LateIsOK ==
  ASSUME RosterInv, NEW u \in Thread, task'[u] = [task[u] EXCEPT !.overlapped = TRUE]
  PROVE  task'[u] \in Task /\ TaskOK(u)'
<1>1. task[u] \in Task /\ TaskOK(u)
  BY DEF RosterInv, RosterTypeOK
<1>2. /\ task'[u] \in Task /\ task'[u].overlapped
      /\ task'[u].at = task[u].at /\ task'[u].then = task[u].then
      /\ task'[u].entity = task[u].entity /\ task'[u].kill = task[u].kill
      /\ task'[u].rows = task[u].rows /\ task'[u].found = task[u].found
  BY <1>1 DEF Task
<1> QED BY <1>1, <1>2 DEF TaskOK, KnowsEntity, SeesRulings, UsesRulings, KillReady, RowsReady, OnTime

LEMMA IdleIsOK ==
  ASSUME NEW u \in Thread, task'[u] = NoTask
  PROVE  task'[u] \in Task /\ TaskOK(u)'
<1>1. task'[u].at = "idle" /\ task'[u].then = "idle"
  BY DEF NoTask
<1> QED BY <1>1, NoTaskIsTask
        DEF TaskOK, KnowsEntity, SeesRulings, UsesRulings, KillReady, RowsReady, OnTime

LEMMA WaitingIsOK ==
  ASSUME RosterInv, NEW u \in Thread, UNCHANGED task[u], task[u].at \in {"idle", "load"}
  PROVE  task'[u] \in Task /\ TaskOK(u)'
<1>1. task[u] \in Task /\ TaskOK(u)
  BY DEF RosterInv, RosterTypeOK
<1> QED BY <1>1
        DEF TaskOK, KnowsEntity, SeesRulings, UsesRulings, KillReady, RowsReady, OnTime

LEMMA UntouchedIsOK ==
  ASSUME RosterInv, NEW u \in Thread, UNCHANGED <<overrides, task[u], spec[ProcessOf[u]]>>,
         RowsReady(u)'
  PROVE  task'[u] \in Task /\ TaskOK(u)'
<1>1. task[u] \in Task /\ TaskOK(u)
  BY DEF RosterInv, RosterTypeOK
<1> QED BY <1>1 DEF TaskOK, KnowsEntity, SeesRulings, UsesRulings, KillReady, OnTime, Current

LEMMA UndisturbedIsOK ==
  ASSUME RosterInv, NEW u \in Thread,
         UNCHANGED <<overrides, ledger, raced, task[u], spec[ProcessOf[u]]>>
  PROVE  task'[u] \in Task /\ TaskOK(u)'
<1>1. RowsReady(u)
  BY DEF RosterInv, TaskOK
<1>2. RowsReady(u)'
  BY <1>1 DEF RowsReady, OnTime, After, Follows, Current
<1> QED BY <1>2, UntouchedIsOK

LEMMA OverlapsAre ==
  ASSUME RosterInv, NEW ts
  PROVE  /\ Overlap(ts) \in [Thread -> Task]
         /\ \A u \in Thread : Overlap(ts)[u] =
               IF u \in ts THEN [task[u] EXCEPT !.overlapped = TRUE] ELSE task[u]
<1>1. \A u \in Thread : [task[u] EXCEPT !.overlapped = TRUE] \in Task
  BY DEF RosterInv, RosterTypeOK, Task
<1> QED BY <1>1 DEF Overlap, RosterInv, RosterTypeOK

\* The ledger needs a new look only if it or the rulings change.
LEMMA LedgerStays ==
  ASSUME RosterInv, UNCHANGED <<overrides, ledger, raced, unsettled>>
  PROVE  LedgerFollowsRoster'
BY DEF RosterInv, LedgerFollowsRoster, Settled

\* What every step has to show.
LEMMA TasksMakeInv ==
  ASSUME RosterInv, overrides' \in Overrides, spec' \in [Process -> Roster], ledger' \in RowMaps,
         task' = [u \in Thread |-> task'[u]], \A u \in Thread : task'[u] \in Task /\ TaskOK(u)',
         LedgerFollowsRoster'
  PROVE  RosterInv'
BY DEF RosterInv, RosterTypeOK

LEMMA BeginKeeps ==
  ASSUME RosterInv, NEW t \in Thread, NEW then \in {"idle", "write", "classify"},
         NEW e \in Entity \cup {NoEntity}, NEW r \in Ruling \cup {"unset"},
         then = "write" => e \in Entity, Begin(t, then, e, r)
  PROVE  RosterInv'
<1> DEFINE new == [NoTask EXCEPT !.at = "load", !.then = then, !.entity = e, !.ruling = r]
<1>1. task' = [task EXCEPT ![t] = new] /\ UNCHANGED <<overrides, spec, ledger, unsettled, raced>>
  BY DEF Begin
<1>2. new \in Task /\ new.at = "load" /\ new.then = then /\ new.entity = e
  BY NoTaskIsTask DEF Task, At
<1> HIDE DEF new
<1>3. task \in [Thread -> Task]
  BY DEF RosterInv, RosterTypeOK
<1>4. task'[t] = new /\ task' = [u \in Thread |-> task'[u]]
  BY <1>1, <1>3
<1>5. task'[t] \in Task /\ TaskOK(t)'
  BY <1>2, <1>4 DEF TaskOK, KnowsEntity, SeesRulings, UsesRulings, KillReady, RowsReady, OnTime
<1>6. \A u \in Thread : task'[u] \in Task /\ TaskOK(u)'
  BY <1>1, <1>3, <1>5, UndisturbedIsOK
<1> QED BY <1>1, <1>4, <1>6, LedgerStays, TasksMakeInv DEF RosterInv, RosterTypeOK

LEMMA LoadKeeps ==
  ASSUME RosterInv, NEW t \in Thread, LoadOverrides(t)
  PROVE  RosterInv'
<1> DEFINE new == [task[t] EXCEPT !.at = "reset", !.seen = overrides, !.overlapped = FALSE]
<1>1. task \in [Thread -> Task] /\ overrides \in Overrides /\ TaskOK(t)
  BY DEF RosterInv, RosterTypeOK
<1>2. task' = [task EXCEPT ![t] = new] /\ UNCHANGED <<overrides, spec, ledger, unsettled, raced>>
  BY <1>1 DEF LoadOverrides
<1>3. /\ new \in Task /\ new.at = "reset" /\ new.then = task[t].then /\ new.entity = task[t].entity
      /\ new.seen = overrides
  <2>1. "reset" \in At
    BY DEF At
  <2> QED BY <1>1, <2>1 DEF Task
<1> HIDE DEF new
<1>4. task'[t] = new /\ task' = [u \in Thread |-> task'[u]]
  BY <1>1, <1>2
<1>5. task'[t] \in Task /\ TaskOK(t)'
  BY <1>1, <1>2, <1>3, <1>4
     DEF TaskOK, KnowsEntity, SeesRulings, UsesRulings, KillReady, RowsReady, OnTime
<1>6. \A u \in Thread : task'[u] \in Task /\ TaskOK(u)'
  BY <1>1, <1>2, <1>5, UndisturbedIsOK
<1> QED BY <1>2, <1>4, <1>6, LedgerStays, TasksMakeInv DEF RosterInv, RosterTypeOK

\* A new roster in a process makes the work of its other threads late.
LEMMA OthersOfProcess ==
  ASSUME RosterInv, NEW t \in Thread, NEW u \in Thread, u # t,
         task'[u] = Overlap(Sharers(t))[u],
         \A p \in Process : p # ProcessOf[t] => spec'[p] = spec[p],
         UNCHANGED <<overrides, ledger, raced>>
  PROVE  task'[u] \in Task /\ TaskOK(u)'
<1>1. ProcessOf[u] \in Process
  BY RosterAssumption
<1>2. CASE u \in Sharers(t)
  BY <1>2, OverlapsAre, LateIsOK
<1>3. CASE u \notin Busy
  <2>1. UNCHANGED task[u]
    BY <1>3, OverlapsAre DEF Sharers
  <2> QED BY <1>3, <2>1, WaitingIsOK DEF Busy
<1>4. CASE ProcessOf[u] # ProcessOf[t]
  <2>1. UNCHANGED task[u]
    BY <1>4, OverlapsAre DEF Sharers
  <2> QED BY <1>1, <1>4, <2>1, UndisturbedIsOK
<1> QED BY <1>2, <1>3, <1>4 DEF Sharers

LEMMA ResetKeeps ==
  ASSUME RosterInv, NEW t \in Thread, ResetRoster(t)
  PROVE  RosterInv'
<1> DEFINE late == Overlap(Sharers(t))
           new == [late[t] EXCEPT !.at = "layer"]
<1>1. task \in [Thread -> Task] /\ spec \in [Process -> Roster] /\ TaskOK(t)
  BY DEF RosterInv, RosterTypeOK
<1>2. late \in [Thread -> Task] /\ late[t] = task[t]
  BY OverlapsAre DEF Sharers
<1>3. task' = [late EXCEPT ![t] = new] /\ UNCHANGED <<overrides, ledger, unsettled, raced>>
  BY <1>2 DEF ResetRoster
<1>4. spec' = [spec EXCEPT ![ProcessOf[t]] = Base]
  BY DEF ResetRoster
<1>5. /\ new \in Task /\ new.at = "layer" /\ new.then = task[t].then /\ new.entity = task[t].entity
      /\ new.seen = task[t].seen /\ new.overlapped = task[t].overlapped
  <2>1. "layer" \in At
    BY DEF At
  <2>2. PICK old \in Task : old = task[t] /\ late[t] = old
    BY <1>1, <1>2
  <2> HIDE DEF late
  <2> QED BY <2>1, <2>2 DEF Task
<1> HIDE DEF late, new
<1>6. task'[t] = new /\ task' = [u \in Thread |-> task'[u]] /\ \A u \in Thread \ {t} : task'[u] = late[u]
  BY <1>2, <1>3
<1>7. task'[t] \in Task /\ TaskOK(t)'
  BY <1>1, <1>3, <1>5, <1>6
     DEF ResetRoster, TaskOK, KnowsEntity, SeesRulings, UsesRulings, KillReady, RowsReady, OnTime
<1>8. \A u \in Thread \ {t} : task'[u] \in Task /\ TaskOK(u)'
  BY <1>1, <1>3, <1>4, <1>6, OthersOfProcess DEF late
<1>9. spec' \in [Process -> Roster]
  BY <1>1, <1>4, RosterAssumption
<1> QED BY <1>3, <1>6, <1>7, <1>8, <1>9, LedgerStays, TasksMakeInv DEF RosterInv, RosterTypeOK

LEMMA LayerKeeps ==
  ASSUME RosterInv, NEW t \in Thread, LayerRoster(t)
  PROVE  RosterInv'
<1> DEFINE late == Overlap(Sharers(t))
           new == IF task[t].then = "idle" THEN NoTask ELSE [task[t] EXCEPT !.at = task[t].then]
<1>1. task \in [Thread -> Task] /\ spec \in [Process -> Roster] /\ TaskOK(t)
  BY DEF RosterInv, RosterTypeOK
<1>2. late \in [Thread -> Task]
  BY OverlapsAre
<1>3. task' = [late EXCEPT ![t] = new] /\ UNCHANGED <<overrides, ledger, unsettled, raced>>
  BY DEF LayerRoster
<1>4. spec' = [spec EXCEPT ![ProcessOf[t]] = Layered(task[t].seen)]
  BY DEF LayerRoster
<1>5. task[t].seen \in Overrides /\ Layered(task[t].seen) \in Roster /\ ProcessOf[t] \in Process
  BY <1>1, LayeredIsRoster, RosterAssumption DEF Task
<1> HIDE DEF late, new
<1>6. task'[t] = new /\ task' = [u \in Thread |-> task'[u]] /\ \A u \in Thread \ {t} : task'[u] = late[u]
  BY <1>2, <1>3
<1>7. task'[t] \in Task /\ TaskOK(t)'
  <2>1. CASE task[t].then = "idle"
    BY <1>6, <2>1, IdleIsOK DEF new
  <2>2. CASE task[t].then # "idle"
    <3>1. new = [task[t] EXCEPT !.at = task[t].then]
      BY <2>2 DEF new
    <3>2. /\ new \in Task /\ new.at = task[t].then /\ new.then = task[t].then
          /\ new.entity = task[t].entity /\ new.overlapped = task[t].overlapped
      BY <1>1, <2>2, <3>1 DEF Task, At
    <3>3. task[t].then \in {"write", "select", "classify"} /\ task[t].at = "layer"
      BY <1>1, <2>2 DEF Task, LayerRoster
    <3>4. spec'[ProcessOf[t]] = Layered(task[t].seen)
      BY <1>1, <1>4, <1>5
    <3>5. ~task[t].overlapped => task[t].seen = overrides
      BY <1>1, <3>3 DEF TaskOK, SeesRulings, OnTime
    <3> QED BY <1>1, <1>3, <1>6, <3>2, <3>3, <3>4, <3>5
            DEF TaskOK, KnowsEntity, SeesRulings, UsesRulings, KillReady, RowsReady, OnTime, Current
  <2> QED BY <2>1, <2>2
<1>8. \A u \in Thread \ {t} : task'[u] \in Task /\ TaskOK(u)'
  BY <1>1, <1>3, <1>4, <1>6, OthersOfProcess DEF late
<1>9. spec' \in [Process -> Roster]
  BY <1>1, <1>4, <1>5
<1> QED BY <1>3, <1>6, <1>7, <1>8, <1>9, LedgerStays, TasksMakeInv DEF RosterInv, RosterTypeOK

LEMMA WriteKeeps ==
  ASSUME RosterInv, NEW t \in Thread, WriteOverride(t)
  PROVE  RosterInv'
<1> DEFINE ts == {u \in Busy \ {t} : task[u].at # "load"}
           late == Overlap(ts)
           new == [late[t] EXCEPT !.at = "load", !.then = "select"]
<1>1. task \in [Thread -> Task] /\ overrides \in Overrides /\ TaskOK(t)
  BY DEF RosterInv, RosterTypeOK
<1>2. /\ late \in [Thread -> Task] /\ late[t] = task[t]
      /\ \A u \in Thread : late[u] = IF u \in ts THEN [task[u] EXCEPT !.overlapped = TRUE]
                                     ELSE task[u]
  <2>1. t \notin ts
    OBVIOUS
  <2> HIDE DEF ts
  <2> QED BY <2>1, OverlapsAre
<1>3. /\ task' = [late EXCEPT ![t] = new]
      /\ overrides' = [overrides EXCEPT ![task[t].entity] = task[t].ruling]
      /\ unsettled' = unsettled \cup {task[t].entity}
      /\ UNCHANGED <<spec, ledger, raced>>
  BY <1>2 DEF WriteOverride
<1>4. task[t].entity \in Entity /\ task[t].ruling \in Ruling \cup {"unset"}
  BY <1>1 DEF WriteOverride, TaskOK, KnowsEntity, Task
<1>5. /\ new \in Task /\ new.at = "load" /\ new.entity = task[t].entity
  <2>1. late[t] = task[t] /\ task[t] \in Task
    BY <1>1, <1>2
  <2> HIDE DEF late
  <2> QED BY <2>1 DEF Task, At
<1> HIDE DEF late, new
<1>6. task'[t] = new /\ task' = [u \in Thread |-> task'[u]] /\ \A u \in Thread \ {t} : task'[u] = late[u]
  BY <1>2, <1>3
<1>7. task'[t] \in Task /\ TaskOK(t)'
  BY <1>4, <1>5, <1>6
     DEF TaskOK, KnowsEntity, SeesRulings, UsesRulings, KillReady, RowsReady, OnTime
<1>8. ASSUME NEW u \in Thread \ {t} PROVE task'[u] \in Task /\ TaskOK(u)'
  <2> HIDE DEF ts
  <2>1. CASE u \in ts
    BY <1>2, <1>6, <2>1, LateIsOK
  <2>2. CASE u \notin ts
    <3>1. UNCHANGED task[u]
      BY <1>2, <1>6, <2>2
    <3>2. task[u].at \in {"idle", "load"}
      BY <2>2 DEF ts, Busy
    <3> QED BY <3>1, <3>2, WaitingIsOK
  <2> QED BY <2>1, <2>2
<1>9. overrides' \in Overrides
  BY <1>1, <1>3, <1>4 DEF Overrides
<1>10. LedgerFollowsRoster'
  <2> SUFFICES ASSUME NEW km \in DOMAIN ledger, ledger[km].counted, Settled(km)'
               PROVE  ledger[km] = Classified(Layered(overrides'), km, TRUE)
    BY <1>3 DEF LedgerFollowsRoster
  <2>1. Settled(km) /\ task[t].entity \notin Involved(km)
    BY <1>3 DEF Settled
  <2>2. ledger[km] = Classified(Layered(overrides), km, TRUE)
    BY <2>1 DEF RosterInv, LedgerFollowsRoster
  <2>3. Layered(overrides) \in Roster /\ Layered(overrides') \in Roster
    BY <1>1, <1>9, LayeredIsRoster
  <2>4. \A e \in Involved(km) \cap Entity : Layered(overrides)[e] = Layered(overrides')[e]
    <3>1. \A e \in Involved(km) \cap Entity : overrides'[e] = overrides[e]
      BY <1>1, <1>3, <2>1 DEF Overrides
    <3> QED BY <3>1 DEF Layered
  <2>5. IsKillmail(km)
    BY RowMapsAre, RosterAssumption DEF RosterInv, RosterTypeOK
  <2> QED BY <2>2, <2>3, <2>4, <2>5, InvolvedDecide
<1> QED BY <1>3, <1>6, <1>7, <1>8, <1>9, <1>10, TasksMakeInv DEF RosterInv, RosterTypeOK

LEMMA SelectKeeps ==
  ASSUME RosterInv, \A km \in Killmail : KeptWhole(km), AttackersUnruled, SparesAttackers,
         NEW t \in Thread, SelectRows(t)
  PROVE  RosterInv'
<1> DEFINE found == {km \in DOMAIN ledger : InScope(task[t].entity, km)}
           again(km) == Recomputed(spec[ProcessOf[t]], km, ledger[km])
           rows == [km \in {k \in found : again(k) # ledger[k]} |-> again(km)]
           new == [task[t] EXCEPT !.at = "update", !.found = found, !.rows = rows]
<1>1. /\ task \in [Thread -> Task] /\ TaskOK(t) /\ ledger \in RowMaps
      /\ spec \in [Process -> Roster]
  BY DEF RosterInv, RosterTypeOK
<1>2. task' = [task EXCEPT ![t] = new] /\ UNCHANGED <<overrides, spec, ledger, unsettled, raced>>
  BY <1>1 DEF SelectRows
<1>3. \A km \in DOMAIN ledger : km \in Killmail /\ IsKillmail(km) /\ KeptWhole(km) /\ ledger[km] \in Row
  BY <1>1, RowMapsAre, RosterAssumption
<1>4. spec[ProcessOf[t]] \in Roster
  BY <1>1, RosterAssumption
<1>5. \A km \in DOMAIN ledger : again(km) \in Row
  BY <1>3, <1>4, RecomputedIsRow
<1>6. ~task[t].overlapped => spec[ProcessOf[t]] = Current
  BY <1>1 DEF SelectRows, TaskOK, UsesRulings, OnTime
<1>7. ASSUME NEW km \in DOMAIN ledger, ~task[t].overlapped, again(km).counted
      PROVE  again(km) = Classified(Current, km, TRUE)
  <2>1. ledger[km] \in Row /\ IsKillmail(km) /\ KeptWhole(km)
    BY <1>3
  <2>2. again(km).counted = ledger[km].counted
    BY <1>4, <2>1, RecomputedIsRow
  <2>3. ledger[km].counted = TRUE
    BY <1>7, <2>1, <2>2 DEF Row
  <2>4. NoCorpVotes(spec[ProcessOf[t]], km)
    BY <1>3, <1>6, <1>7, UnruledDoNotVote DEF RosterInv
  <2>5. again(km) = Classified(spec[ProcessOf[t]], km, TRUE)
    BY <1>4, <2>1, <2>3, <2>4, RecomputedIsClassified
  <2> QED BY <1>6, <1>7, <2>5
<1>8. task[t].entity \in Entity /\ \A km \in Killmail : task[t].entity \notin AttackingCorps(km)
  BY <1>1 DEF SelectRows, TaskOK, KnowsEntity, SparesAttackers
<1>9. \A km \in DOMAIN ledger : task[t].entity \in Involved(km) => km \in found
  BY <1>3, <1>8, ScopeIsInvolved
<1> HIDE DEF again
<1>10. found \subseteq DOMAIN ledger /\ found \subseteq Killmail
  BY <1>3
<1> HIDE DEF found
<1>11. /\ rows \in RowMaps /\ DOMAIN rows \subseteq found
       /\ \A km \in found : (IF km \in DOMAIN rows THEN rows[km] ELSE ledger[km]) = again(km)
  BY <1>5, <1>10, RowMapsAre
<1> HIDE DEF rows
<1>12. /\ new \in Task /\ new.at = "update" /\ new.found = found /\ new.rows = rows
       /\ new.entity = task[t].entity /\ new.overlapped = task[t].overlapped
  <2>1. "update" \in At
    BY DEF At
  <2>2. PICK old \in Task : old = task[t]
    BY <1>1
  <2>3. found \in SUBSET Killmail /\ rows \in RowMaps
    BY <1>10, <1>11
  <2> QED BY <2>1, <2>2, <2>3 DEF Task
<1> HIDE DEF new
<1>13. task'[t] = new /\ task' = [u \in Thread |-> task'[u]]
  BY <1>1, <1>2
<1>14. RowsReady(t)'
  <2>1. DOMAIN rows \subseteq found /\ found \subseteq DOMAIN ledger
    BY <1>10, <1>11
  <2>2. ASSUME NEW km \in found, ~task[t].overlapped
        PROVE  After(t, km)'.counted => After(t, km)' = Classified(Current', km, TRUE)
    <3>1. task'[t].rows = rows /\ ledger' = ledger
      BY <1>2, <1>12, <1>13
    <3>2. After(t, km)' = IF km \in DOMAIN rows THEN rows[km] ELSE ledger[km]
      BY <3>1 DEF After
    <3>3. After(t, km)' = again(km)
      BY <1>11, <3>2
    <3> QED BY <1>2, <1>7, <1>10, <2>2, <3>3 DEF Current
  <2> QED BY <1>2, <1>9, <1>12, <1>13, <2>1, <2>2 DEF RowsReady, OnTime
<1>15. task'[t] \in Task /\ TaskOK(t)'
  BY <1>2, <1>6, <1>8, <1>12, <1>13, <1>14
     DEF TaskOK, KnowsEntity, SeesRulings, UsesRulings, KillReady, OnTime, Current
<1>16. \A u \in Thread : task'[u] \in Task /\ TaskOK(u)'
  BY <1>1, <1>2, <1>15, UndisturbedIsOK
<1> QED BY <1>2, <1>13, <1>16, LedgerStays, TasksMakeInv DEF RosterInv, RosterTypeOK

LEMMA UpdateKeeps ==
  ASSUME RosterInv, NEW t \in Thread, UpdateRows(t)
  PROVE  RosterInv'
<1> DEFINE ts == {u \in Busy \ {t} : task[u].at = "update"}
           late == Overlap(ts)
<1>1. task \in [Thread -> Task] /\ TaskOK(t) /\ ledger \in RowMaps /\ task[t].rows \in RowMaps
  BY DEF RosterInv, RosterTypeOK, Task
<1>2. /\ late \in [Thread -> Task]
      /\ \A u \in Thread : late[u] = IF u \in ts THEN [task[u] EXCEPT !.overlapped = TRUE]
                                     ELSE task[u]
  <2> HIDE DEF ts
  <2> QED BY OverlapsAre
<1>3. /\ task' = [late EXCEPT ![t] = NoTask]
      /\ UNCHANGED <<overrides, spec>>
      /\ DOMAIN ledger' = DOMAIN ledger
      /\ \A km \in DOMAIN ledger : ledger'[km] = After(t, km)
      /\ ledger' = [km \in DOMAIN ledger' |-> ledger'[km]]
  BY DEF UpdateRows, After
<1> HIDE DEF late
<1>4. task'[t] = NoTask /\ task' = [u \in Thread |-> task'[u]] /\ \A u \in Thread \ {t} : task'[u] = late[u]
  BY <1>2, <1>3
<1>5. ASSUME NEW u \in Thread \ {t} PROVE task'[u] \in Task /\ TaskOK(u)'
  <2> HIDE DEF ts
  <2>1. CASE u \in ts
    BY <1>2, <1>4, <2>1, LateIsOK
  <2>2. CASE u \notin ts
    <3>1. UNCHANGED task[u]
      BY <1>2, <1>4, <2>2
    <3>2. task[u].at # "update"
      BY <2>2 DEF ts, Busy
    <3>3. RowsReady(u)'
      BY <3>1, <3>2 DEF RowsReady, OnTime
    <3> QED BY <1>3, <3>1, <3>3, UntouchedIsOK
  <2> QED BY <2>1, <2>2
<1>6. task'[t] \in Task /\ TaskOK(t)'
  BY <1>4, IdleIsOK
<1>7. ledger' \in RowMaps
  <2>1. DOMAIN ledger' \subseteq Killmail
    BY <1>1, <1>3, RowMapsAre
  <2>2. \A km \in DOMAIN ledger' : ledger'[km] \in Row
    BY <1>1, <1>3, RowMapsAre DEF After
  <2> QED BY <1>3, <2>1, <2>2, RowMapsAre
<1>8. LedgerFollowsRoster'
  <2> SUFFICES ASSUME NEW km \in DOMAIN ledger, After(t, km).counted, Settled(km)'
               PROVE  After(t, km) = Classified(Current, km, TRUE)
    BY <1>3 DEF LedgerFollowsRoster, Current
  <2>1. RowsReady(t) /\ task[t].at = "update"
    BY <1>1 DEF TaskOK, UpdateRows
  <2>2. CASE task[t].overlapped
    <3>1. km \notin task[t].found /\ Settled(km)
      BY <2>2 DEF UpdateRows, Settled
    <3>2. After(t, km) = ledger[km]
      BY <2>1, <3>1 DEF RowsReady, After
    <3> QED BY <3>1, <3>2 DEF RosterInv, LedgerFollowsRoster, Current
  <2>3. CASE ~task[t].overlapped
    <3>1. OnTime(t, {"update"})
      BY <2>1, <2>3 DEF OnTime
    <3>2. CASE km \in task[t].found
      BY <2>1, <3>1, <3>2 DEF RowsReady
    <3>3. CASE km \notin task[t].found
      <4>1. km \notin raced /\ Involved(km) \cap (unsettled \ {task[t].entity}) = {}
        BY <2>3, <3>3 DEF UpdateRows, Settled
      <4>2. After(t, km) = ledger[km]
        BY <2>1, <3>3 DEF RowsReady, After
      <4>3. CASE task[t].entity \in Involved(km)
        BY <2>1, <3>1, <3>3, <4>1, <4>2, <4>3 DEF RowsReady, Follows
      <4>4. CASE task[t].entity \notin Involved(km)
        <5>1. Settled(km)
          BY <4>1, <4>4 DEF Settled
        <5> QED BY <4>2, <5>1 DEF RosterInv, LedgerFollowsRoster, Current
      <4> QED BY <4>3, <4>4
    <3> QED BY <3>2, <3>3
  <2> QED BY <2>2, <2>3
<1> QED BY <1>3, <1>4, <1>5, <1>6, <1>7, <1>8, TasksMakeInv DEF RosterInv, RosterTypeOK

LEMMA ClassifyKeeps ==
  ASSUME RosterInv, NEW t \in Thread, ClassifyKill(t)
  PROVE  RosterInv'
<1>1. /\ task \in [Thread -> Task] /\ TaskOK(t) /\ spec \in [Process -> Roster]
  BY DEF RosterInv, RosterTypeOK
<1>2. PICK km \in Killmail \ DOMAIN ledger :
         task' = [task EXCEPT ![t].at = "insert", ![t].kill = km,
             ![t].rows = [k \in {km} |-> Classified(spec[ProcessOf[t]], k, TRUE)]]
  BY DEF ClassifyKill
<1> DEFINE rows == [k \in {km} |-> Classified(spec[ProcessOf[t]], k, TRUE)]
           new == [task[t] EXCEPT !.at = "insert", !.kill = km, !.rows = rows]
<1>3. task' = [task EXCEPT ![t] = new] /\ UNCHANGED <<overrides, spec, ledger, unsettled, raced>>
  BY <1>1, <1>2 DEF ClassifyKill
<1>4. Classified(spec[ProcessOf[t]], km, TRUE) \in Row
  BY <1>1, ClassifiedIsRow, RosterAssumption
<1>5. /\ DOMAIN rows = {km} /\ rows[km] = Classified(spec[ProcessOf[t]], km, TRUE)
      /\ rows = [k \in DOMAIN rows |-> rows[k]]
  OBVIOUS
<1> HIDE DEF rows
<1>6. rows \in RowMaps
  BY <1>4, <1>5, RowMapsAre
<1>7. /\ new \in Task /\ new.at = "insert" /\ new.kill = km /\ new.rows = rows
      /\ new.then = task[t].then /\ new.entity = task[t].entity
      /\ new.overlapped = task[t].overlapped
  <2>1. "insert" \in At
    BY DEF At
  <2> QED BY <1>1, <1>6, <2>1 DEF Task
<1> HIDE DEF new
<1>8. task'[t] = new /\ task' = [u \in Thread |-> task'[u]]
  BY <1>1, <1>3
<1>9. ~task[t].overlapped => spec[ProcessOf[t]] = Current
  BY <1>1 DEF ClassifyKill, TaskOK, UsesRulings, OnTime
<1>10. KillReady(t)'
  BY <1>3, <1>5, <1>7, <1>8, <1>9 DEF KillReady, OnTime, Current
<1>11. task'[t] \in Task /\ TaskOK(t)'
  BY <1>1, <1>3, <1>7, <1>8, <1>9, <1>10
     DEF TaskOK, KnowsEntity, SeesRulings, UsesRulings, RowsReady, OnTime, Current
<1>12. \A u \in Thread : task'[u] \in Task /\ TaskOK(u)'
  BY <1>1, <1>3, <1>11, UndisturbedIsOK
<1> QED BY <1>3, <1>8, <1>12, LedgerStays, TasksMakeInv DEF RosterInv, RosterTypeOK

\* A kill that comes into the ledger while an edit is about to write is on
\* time, and so follows the rulings, or is one of the raced.
LEMMA InsertKeeps ==
  ASSUME RosterInv, NEW t \in Thread, InsertKill(t)
  PROVE  RosterInv'
<1> DEFINE new == [task[t] EXCEPT !.at = "classify", !.kill = NoKill, !.rows = <<>>]
<1> PICK km : km = task[t].kill
  OBVIOUS
<1>1. /\ task \in [Thread -> Task] /\ TaskOK(t) /\ spec \in [Process -> Roster]
      /\ ledger \in RowMaps
  BY DEF RosterInv, RosterTypeOK
<1>2. task' = [task EXCEPT ![t] = new] /\ UNCHANGED <<overrides, spec, unsettled>>
  BY <1>1 DEF InsertKill
<1>3. /\ km \in Killmail /\ DOMAIN task[t].rows = {km}
      /\ ~task[t].overlapped => task[t].rows[km] = Classified(Current, km, TRUE)
      /\ task[t].rows \in RowMaps
  BY <1>1 DEF InsertKill, TaskOK, KillReady, OnTime, Task
<1>4. /\ new \in Task /\ new.at = "classify"
      /\ new.then = task[t].then /\ new.entity = task[t].entity
      /\ new.overlapped = task[t].overlapped
  BY <1>1, NoTaskIsTask DEF Task, At
<1> HIDE DEF new
<1>5. task'[t] = new /\ task' = [u \in Thread |-> task'[u]] /\ \A u \in Thread \ {t} : UNCHANGED task[u]
  BY <1>1, <1>2
<1>6. ~task[t].overlapped => spec[ProcessOf[t]] = Current
  BY <1>1 DEF InsertKill, TaskOK, UsesRulings, OnTime
<1>7. task'[t] \in Task /\ TaskOK(t)'
  BY <1>1, <1>2, <1>4, <1>5, <1>6
     DEF InsertKill, TaskOK, KnowsEntity, SeesRulings, UsesRulings, KillReady, RowsReady, OnTime,
         Current
<1>8. CASE km \in DOMAIN ledger
  <2>1. UNCHANGED <<ledger, raced>>
    BY <1>8 DEF InsertKill
  <2>2. \A u \in Thread : task'[u] \in Task /\ TaskOK(u)'
    BY <1>2, <1>5, <1>7, <2>1, UndisturbedIsOK
  <2> QED BY <1>2, <1>5, <2>1, <2>2, LedgerStays, TasksMakeInv DEF RosterInv, RosterTypeOK
<1>9. CASE km \notin DOMAIN ledger
  <2>1. /\ ledger' = [k \in DOMAIN ledger \cup {km} |->
                         IF k = km THEN task[t].rows[km] ELSE ledger[k]]
        /\ raced' = IF task[t].overlapped THEN raced \cup {km} ELSE raced
    BY <1>9 DEF InsertKill
  <2>2. /\ DOMAIN ledger' = DOMAIN ledger \cup {km}
        /\ \A k \in DOMAIN ledger : ledger'[k] = ledger[k]
        /\ ledger'[km] = task[t].rows[km]
        /\ ledger' = [k \in DOMAIN ledger' |-> ledger'[k]]
    BY <1>9, <2>1
  <2>3. ledger' \in RowMaps
    BY <1>1, <1>3, <2>2, RowMapsAre
  <2>4. km \notin raced' => Follows(km)'
    BY <1>2, <1>3, <2>1, <2>2 DEF Follows, Current
  <2>5. \A k \in DOMAIN ledger : k \notin raced' => k \notin raced /\ k # km
    BY <1>9, <2>1
  <2>6. ASSUME NEW u \in Thread \ {t} PROVE task'[u] \in Task /\ TaskOK(u)'
    <3>1. RowsReady(u)
      BY DEF RosterInv, TaskOK
    <3>2. UNCHANGED task[u]
      BY <1>5
    <3>3. ASSUME OnTime(u, {"update"})
          PROVE  /\ \A k \in task[u].found : k \in DOMAIN ledger /\ After(u, k)' = After(u, k)
                 /\ \A k \in DOMAIN ledger : Follows(k) => Follows(k)'
      <4>1. task[u].found \subseteq DOMAIN ledger
        BY <3>1, <3>3 DEF RowsReady
      <4>2. \A k \in task[u].found : After(u, k)' = After(u, k)
        BY <2>2, <3>2, <4>1 DEF After
      <4>3. \A k \in DOMAIN ledger : Follows(k) => Follows(k)'
        BY <1>2, <2>2 DEF Follows, Current
      <4> QED BY <4>1, <4>2, <4>3
    <3>4. RowsReady(u)'
      BY <1>2, <2>2, <2>4, <2>5, <3>1, <3>2, <3>3 DEF RowsReady, OnTime, Current
    <3> QED BY <1>2, <3>2, <3>4, UntouchedIsOK
  <2>7. LedgerFollowsRoster'
    <3> SUFFICES ASSUME NEW k \in DOMAIN ledger', ledger'[k].counted, Settled(k)'
                 PROVE  ledger'[k] = Classified(Layered(overrides'), k, TRUE)
      BY DEF LedgerFollowsRoster
    <3>1. CASE k = km
      BY <2>4, <3>1 DEF Settled, Follows, Current
    <3>2. CASE k # km
      <4>1. k \in DOMAIN ledger /\ Settled(k) /\ ledger'[k] = ledger[k]
        BY <1>2, <2>2, <2>5, <3>2 DEF Settled
      <4> QED BY <1>2, <4>1 DEF RosterInv, LedgerFollowsRoster
    <3> QED BY <3>1, <3>2
  <2> QED BY <1>2, <1>5, <1>7, <2>3, <2>6, <2>7, TasksMakeInv DEF RosterInv, RosterTypeOK
<1> QED BY <1>8, <1>9

\* A cycle ends, or a handler or a cycle fails.
LEMMA EndKeeps ==
  ASSUME RosterInv, NEW t \in Thread, EndPoll(t) \/ Fail(t)
  PROVE  RosterInv'
<1>1. task \in [Thread -> Task]
  BY DEF RosterInv, RosterTypeOK
<1>2. task' = [task EXCEPT ![t] = NoTask] /\ UNCHANGED <<overrides, spec, ledger, unsettled, raced>>
  BY DEF EndPoll, Fail
<1>3. task'[t] = NoTask /\ task' = [u \in Thread |-> task'[u]]
  BY <1>1, <1>2
<1>4. \A u \in Thread : task'[u] \in Task /\ TaskOK(u)'
  BY <1>1, <1>2, <1>3, IdleIsOK, UndisturbedIsOK
<1> QED BY <1>2, <1>3, <1>4, LedgerStays, TasksMakeInv DEF RosterInv, RosterTypeOK

LEMMA RestartKeeps ==
  ASSUME RosterInv, NEW p \in Process, Restart(p)
  PROVE  RosterInv'
<1>1. task \in [Thread -> Task] /\ spec \in [Process -> Roster]
  BY DEF RosterInv, RosterTypeOK
<1>2. UNCHANGED <<overrides, ledger, unsettled, raced>> /\ spec' = [spec EXCEPT ![p] = Base]
  BY DEF Restart
<1>3. /\ \A u \in Thread : task'[u] = IF ProcessOf[u] = p THEN NoTask ELSE task[u]
      /\ task' = [u \in Thread |-> task'[u]]
  BY DEF Restart
<1>4. ASSUME NEW u \in Thread PROVE task'[u] \in Task /\ TaskOK(u)'
  <2>1. CASE ProcessOf[u] = p
    BY <1>3, <2>1, IdleIsOK
  <2>2. CASE ProcessOf[u] # p
    <3>1. UNCHANGED <<task[u], spec[ProcessOf[u]]>>
      BY <1>1, <1>2, <1>3, <2>2, RosterAssumption
    <3> QED BY <1>2, <3>1, UndisturbedIsOK
  <2> QED BY <2>1, <2>2
<1>5. spec' \in [Process -> Roster]
  BY <1>1, <1>2, RosterAssumption
<1> QED BY <1>2, <1>3, <1>4, <1>5, LedgerStays, TasksMakeInv DEF RosterInv, RosterTypeOK

LEMMA InitMakesInv == RosterInit => RosterInv
<1> SUFFICES ASSUME RosterInit PROVE RosterInv
  OBVIOUS
<1>1. PICK old \in SUBSET OldKill : ledger = [km \in old |-> Classified(Base, km, FALSE)]
  BY DEF RosterInit
<1>2. /\ overrides \in Overrides /\ spec \in [Process -> Roster]
      /\ \A u \in Thread : task[u] = NoTask
      /\ task = [u \in Thread |-> NoTask]
  BY RosterAssumption DEF RosterInit, Overrides
<1>3. \A km \in old : Classified(Base, km, FALSE) \in Row
  BY ClassifiedIsRow, RosterAssumption
<1>4. ledger \in RowMaps
  <2>1. DOMAIN ledger = old /\ \A km \in old : ledger[km] \in Row
    BY <1>1, <1>3
  <2> QED BY <1>1, <2>1, RowMapsAre, RosterAssumption
<1>5. RosterTypeOK
  BY <1>2, <1>4, NoTaskIsTask DEF RosterTypeOK
<1>6. \A u \in Thread : TaskOK(u)
  BY <1>2 DEF NoTask, TaskOK, KnowsEntity, SeesRulings, UsesRulings, KillReady, RowsReady, OnTime
<1>7. LedgerFollowsRoster
  BY <1>1 DEF LedgerFollowsRoster, Classified
<1> QED BY <1>5, <1>6, <1>7 DEF RosterInv

LEMMA RosterStepKeepsInv ==
  ASSUME \A km \in Killmail : KeptWhole(km), RosterInv, AttackersUnruled, SparesAttackers,
         [RosterNext]_rosterVars
  PROVE  RosterInv'
<1>1. CASE UNCHANGED rosterVars
  <2>1. \A u \in Thread : task'[u] \in Task /\ TaskOK(u)'
    BY <1>1, UndisturbedIsOK DEF rosterVars
  <2> QED BY <1>1, <2>1, LedgerStays DEF rosterVars, RosterInv, RosterTypeOK
<1>2. CASE RosterNext
  <2>1. ASSUME NEW t \in Thread, TaskStep(t) PROVE RosterInv'
    <3>1. CASE BeginView(t)
      BY <3>1, BeginKeeps DEF BeginView
    <3>2. CASE BeginEdit(t)
      BY <3>2, BeginKeeps DEF BeginEdit
    <3>3. CASE BeginPoll(t)
      BY <3>3, BeginKeeps DEF BeginPoll
    <3>4. CASE LoadOverrides(t)
      BY <3>4, LoadKeeps
    <3>5. CASE ResetRoster(t)
      BY <3>5, ResetKeeps
    <3>6. CASE LayerRoster(t)
      BY <3>6, LayerKeeps
    <3>7. CASE WriteOverride(t)
      BY <3>7, WriteKeeps
    <3>8. CASE SelectRows(t)
      BY <3>8, SelectKeeps
    <3>9. CASE UpdateRows(t)
      BY <3>9, UpdateKeeps
    <3>10. CASE ClassifyKill(t)
      BY <3>10, ClassifyKeeps
    <3>11. CASE InsertKill(t)
      BY <3>11, InsertKeeps
    <3>12. CASE EndPoll(t) \/ Fail(t)
      BY <3>12, EndKeeps
    <3> QED BY <2>1, <3>1, <3>2, <3>3, <3>4, <3>5, <3>6, <3>7, <3>8, <3>9, <3>10, <3>11, <3>12
            DEF TaskStep
  <2> QED BY <1>2, <2>1, RestartKeeps DEF RosterNext
<1> QED BY <1>1, <1>2

LEMMA AttackersStayUnruled ==
  ASSUME RosterInv, AttackersUnruled, SparesAttackers, [RosterNext]_rosterVars
  PROVE  AttackersUnruled'
<1>1. CASE UNCHANGED overrides
  BY <1>1 DEF AttackersUnruled
<1>2. ASSUME NEW t \in Thread, WriteOverride(t) PROVE AttackersUnruled'
  <2>1. overrides' = [overrides EXCEPT ![task[t].entity] = task[t].ruling]
    BY <1>2 DEF WriteOverride
  <2>2. \A e : e # task[t].entity /\ e \in Entity => overrides'[e] = overrides[e]
    BY <2>1 DEF RosterInv, RosterTypeOK, Overrides
  <2> SUFFICES ASSUME NEW km \in Killmail, NEW c \in AttackingCorps(km) PROVE overrides'[c] = "unset"
    BY DEF AttackersUnruled
  <2>3. c \in Entity
    BY AttackersAre, RosterAssumption DEF AttackingCorps, Entity
  <2> QED BY <2>2, <2>3 DEF AttackersUnruled, SparesAttackers
<1> QED BY <1>1, <1>2 DEF RosterNext, TaskStep, rosterVars, BeginView, BeginEdit, BeginPoll, Begin,
           LoadOverrides, ResetRoster, LayerRoster, SelectRows, UpdateRows, ClassifyKill,
           InsertKill, EndPoll, Fail, Restart

\* The ledger says what ingest would say under the roster of now, for every
\* kill that no unfinished, failed or overtaken change concerns: whatever
\* rulings, undone rulings, poll cycles, page views, failures and crashes
\* came before, and in however many processes and threads.  It rests on what
\* a row keeps: its attackers are of no more alliances than it has room for,
\* and the corporations they fly for are on no roster and are never edited
\* (db.reclassify_war_kills, war_classify.classify_kill).
THEOREM LedgerStaysInStep ==
  ASSUME \A km \in Killmail : KeptWhole(km)
  PROVE  RosterSpec /\ []SparesAttackers => []LedgerFollowsRoster
<1>1. RosterInit => RosterInv /\ AttackersUnruled
  <2>1. \A km \in Killmail : AttackingCorps(km) \subseteq Entity
    BY AttackersAre, RosterAssumption DEF AttackingCorps, Entity
  <2> QED BY <2>1, InitMakesInv DEF RosterInit, AttackersUnruled
<1>2. (RosterInv /\ AttackersUnruled) /\ SparesAttackers /\ [RosterNext]_rosterVars
        => (RosterInv /\ AttackersUnruled)'
  BY RosterStepKeepsInv, AttackersStayUnruled
<1>3. RosterInv => LedgerFollowsRoster
  BY DEF RosterInv
<1> QED BY <1>1, <1>2, <1>3, PTL DEF RosterSpec

----------------------------------------------------------------------------
(* The entosis board.  What the buttons send is the only guard the table   *)
(* has, so the invariant says of every row, wherever a copy of it is, and  *)
(* of every write on its way, what the page made sure of when it sent it.  *)

Places == PrimarySystems \union UNION {SystemsOf[c] : c \in Campaigns}

NodeRow == [id : Nat, system : Places,
        campaign : Campaigns \union {None}, status : Statuses, pilot : Pages \union {Nobody}]

Free(n) == n.status = "unclaimed" => n.pilot = Nobody
Placed(n) == n.campaign # None => n.system \in SystemsOf[n.campaign]

SoundRow == {n \in NodeRow : Free(n) /\ Placed(n)}

\* The writes a page sends: only RELEASE makes a node unclaimed, and it takes
\* the pilot off; a node is added to a system of its panel.
SoundPatch ==
    {c \in [op : {"patch"}, page : Pages, id : Nat, status : Statuses,
            pilot : Pages \union {Nobody, Keep}] : c.status = "unclaimed" => c.pilot = Nobody}

SoundAdd ==
    {c \in [op : {"add"}, page : Pages,
            system : Places,
            panel : Campaigns \union {Unlinked}] : c.system \in PanelSystems(c.panel)}

SoundCall ==
    SoundPatch \union SoundAdd \union [op : {"delete"}, page : Pages, id : Nat]
    \union [op : {"clear"}, page : Pages]

EntosisInv ==
    /\ nodes \in SUBSET SoundRow /\ lastId \in Nat
    /\ esi \in SUBSET Campaigns
    /\ calls \in Seq(SoundCall)
    /\ board \in [Pages -> SUBSET SoundRow]
    /\ campaigns \in [Pages -> SUBSET Campaigns]
    /\ form \in [Pages -> Campaigns \union {Unlinked, None}]
    /\ replies \in [Pages -> Seq(SUBSET SoundRow)]

\* Taking an element off a sequence leaves a sequence of the same set.
LEMMA RemoveAtStays ==
    ASSUME NEW S, NEW s \in Seq(S), NEW i \in DOMAIN s
    PROVE  RemoveAt(s, i) \in Seq(S)
<1> DEFINE front == SubSeq(s, 1, i - 1)
            back == SubSeq(s, i + 1, Len(s))
<1>1. Len(s) \in Nat /\ DOMAIN s = 1..Len(s) /\ i \in 1..Len(s)
    BY LenProperties
<1>2. \A j \in 1..Len(s) : s[j] \in S
    BY ElementOfSeq
<1>3. front \in Seq(S)
    <2>1. 1 \in Int /\ i - 1 \in Int /\ \A j \in 1..(i - 1) : s[j] \in S
        BY <1>1, <1>2
    <2> QED BY <1>1, <2>1, SubSeqProperties
<1>4. back \in Seq(S)
    <2>1. i + 1 \in Int /\ Len(s) \in Int /\ \A j \in (i + 1)..Len(s) : s[j] \in S
        BY <1>1, <1>2
    <2> QED BY <1>1, <2>1, SubSeqProperties
<1> QED BY <1>3, <1>4, ConcatProperties DEF RemoveAt

\* A patch of a sound row by a write of a page is a sound row.
LEMMA PatchKeepsRows ==
    ASSUME NEW n \in SoundRow, NEW c \in SoundPatch
    PROVE  Updated(n, c) \in SoundRow
<1>1. Updated(n, c) \in NodeRow
    BY DEF Updated, SoundRow, SoundPatch, NodeRow
<1>2. Free(Updated(n, c))
    BY EntosisAssumption DEF Updated, SoundRow, SoundPatch, NodeRow, Free
<1>3. Placed(Updated(n, c))
    BY DEF Updated, SoundRow, SoundPatch, NodeRow, Placed
<1> QED BY <1>1, <1>2, <1>3 DEF SoundRow

\* A new row is unclaimed, free, and in a system of its campaign.
LEMMA FreshRows ==
    ASSUME NEW id \in Nat, NEW panel \in Campaigns \union {Unlinked},
           NEW system \in Places,
           system \in PanelSystems(panel)
    PROVE  FreshNode(id, system, panel) \in SoundRow
BY EntosisAssumption DEF FreshNode, PanelSystems, Places, SoundRow, NodeRow, Statuses, Free, Placed

\* Whatever write the server takes, the table keeps sound rows.
LEMMA AppliedStaysSound ==
    ASSUME EntosisInv, NEW c \in SoundCall
    PROVE  Applied(c) \in SUBSET SoundRow
<1> USE DEF EntosisInv
<1>1. CASE c \in SoundPatch
    <2>1. c.op = "patch"
        BY <1>1 DEF SoundPatch
    <2>2. Applied(c) = {IF n.id = c.id THEN Updated(n, c) ELSE n : n \in nodes}
        BY <2>1 DEF Applied
    <2> QED BY <1>1, <2>2, PatchKeepsRows
<1>2. CASE c \in SoundAdd
    <2>1. Applied(c) = nodes \union {FreshNode(lastId + 1, c.system, c.panel)}
        BY <1>2 DEF SoundAdd, Applied
    <2>2. FreshNode(lastId + 1, c.system, c.panel) \in SoundRow
        BY <1>2, FreshRows, lastId + 1 \in Nat DEF SoundAdd
    <2> QED BY <2>1, <2>2
<1>3. CASE c \in [op : {"delete"}, page : Pages, id : Nat]
    <2>1. Applied(c) = {n \in nodes : n.id # c.id}
        BY <1>3 DEF Applied
    <2> QED BY <2>1
<1>4. CASE c \in [op : {"clear"}, page : Pages]
    <2>1. Applied(c) = {}
        BY <1>4 DEF Applied
    <2> QED BY <2>1
<1> QED BY <1>1, <1>2, <1>3, <1>4 DEF SoundCall

LEMMA CallsName ==
    ASSUME NEW c \in SoundCall PROVE c.page \in Pages /\ c.op \in {"patch", "add", "delete", "clear"}
BY DEF SoundCall, SoundPatch, SoundAdd

\* A write of a page is a sound call.
LEMMA WritesAreSound ==
    ASSUME EntosisInv, NEW p \in Pages, Write(p)
    PROVE  /\ calls' \in Seq(SoundCall)
           /\ UNCHANGED <<serverVars, pageVars, replies>>
<1> USE DEF EntosisInv
<1>1. ASSUME NEW c \in SoundCall, Send(c) PROVE calls' \in Seq(SoundCall) /\ UNCHANGED <<serverVars, pageVars, replies>>
    BY <1>1, AppendProperties DEF Send
<1>2. ASSUME NEW n \in board[p], NEW patch \in Buttons(p, n), PatchNode(p, n, patch) PROVE
        calls' \in Seq(SoundCall) /\ UNCHANGED <<serverVars, pageVars, replies>>
    <2> DEFINE c == [op |-> "patch", page |-> p, id |-> n.id, status |-> patch.status, pilot |-> patch.pilot]
    <2>1. n \in SoundRow
        BY <1>2
    <2>2. n.id \in Nat /\ n.status \in Statuses
        BY <2>1 DEF SoundRow, NodeRow
    <2>3. /\ patch.status \in Statuses /\ patch.pilot \in Pages \union {Nobody, Keep}
          /\ patch.status = "unclaimed" => patch.pilot = Nobody
        BY <1>2, <2>2 DEF Buttons, NextStatuses, Statuses
    <2>4. c \in SoundPatch
        BY <2>2, <2>3 DEF SoundPatch
    <2> QED BY <1>1, <1>2, <2>4 DEF PatchNode, SoundCall
<1>3. ASSUME NEW n \in board[p], DeleteNode(p, n) PROVE
        calls' \in Seq(SoundCall) /\ UNCHANGED <<serverVars, pageVars, replies>>
    <2>1. n \in SoundRow
        BY <1>3
    <2>2. n.id \in Nat
        BY <2>1 DEF SoundRow, NodeRow
    <2>3. [op |-> "delete", page |-> p, id |-> n.id] \in SoundCall
        BY <2>2 DEF SoundCall
    <2> QED BY <1>1, <1>3, <2>3 DEF DeleteNode
<1>4. ASSUME NEW x \in Panels(p), NEW system \in PanelSystems(x.panel), AddNode(p, system) PROVE
        calls' \in Seq(SoundCall) /\ UNCHANGED <<serverVars, pageVars, replies>>
    <2>1. PICK y \in Panels(p) : y.panel = form[p] /\ system \in Offered(p, form[p])
        BY <1>4 DEF AddNode
    <2>2. form[p] \in Campaigns \union {Unlinked}
        BY <2>1 DEF Panels, EventPanel
    <2>3. system \in PanelSystems(form[p])
        BY <2>1 DEF Offered
    <2>4. system \in Places
        BY <2>2, <2>3 DEF PanelSystems, Places
    <2>5. [op |-> "add", page |-> p, system |-> system, panel |-> form[p]] \in SoundAdd
        BY <2>2, <2>3, <2>4 DEF SoundAdd
    <2> QED BY <1>1, <1>4, <2>5 DEF AddNode, SoundCall
<1>5. ASSUME ClearAll(p) PROVE
        calls' \in Seq(SoundCall) /\ UNCHANGED <<serverVars, pageVars, replies>>
    <2>1. [op |-> "clear", page |-> p] \in SoundCall
        BY DEF SoundCall
    <2> QED BY <1>1, <1>5, <2>1 DEF ClearAll
<1> QED BY <1>2, <1>3, <1>4, <1>5 DEF Write

LEMMA EntosisInvHolds == EntosisSpec => []EntosisInv
<1>1. EntosisInit => EntosisInv
    <2> SUFFICES ASSUME EntosisInit PROVE EntosisInv
        OBVIOUS
    <2>1. nodes \in SUBSET SoundRow /\ lastId \in Nat
        <3>1. CASE nodes = {} /\ lastId = 0
            BY <3>1
        <3>2. ASSUME NEW c \in Campaigns, NEW s \in SystemsOf[c],
                     nodes = {FreshNode(1, s, c)} /\ lastId = 1
              PROVE  nodes \in SUBSET SoundRow /\ lastId \in Nat
            <4>1. s \in PanelSystems(c)
                BY EntosisAssumption DEF PanelSystems
            <4>2. s \in Places
                BY DEF Places
            <4> QED BY <3>2, <4>1, <4>2, FreshRows
        <3> QED BY <3>1, <3>2 DEF EntosisInit
    <2>2. replies \in [Pages -> Seq(SUBSET SoundRow)] /\ calls \in Seq(SoundCall)
        BY DEF EntosisInit
    <2> QED BY <2>1, <2>2 DEF EntosisInit, EntosisInv
<1>2. EntosisInv /\ [EntosisNext]_vars => EntosisInv'
    <2> SUFFICES ASSUME EntosisInv, [EntosisNext]_vars PROVE EntosisInv'
        OBVIOUS
    <2> USE DEF EntosisInv
    <2>1. ASSUME NEW p \in Pages, Write(p) PROVE EntosisInv'
        BY <2>1, WritesAreSound DEF serverVars, pageVars
    <2>2. ASSUME NEW p \in Pages, NEW panel \in Campaigns \union {Unlinked}, ToggleAddFor(p, panel)
          PROVE  EntosisInv'
        BY <2>2 DEF ToggleAddFor, serverVars
    <2>3. ASSUME NEW p \in Pages, FetchNodes(p) PROVE EntosisInv'
        <3>1. Append(replies[p], nodes) \in Seq(SUBSET SoundRow)
            BY AppendProperties
        <3> QED BY <2>3, <3>1 DEF FetchNodes, serverVars, pageVars
    <2>4. ASSUME NEW p \in Pages, FetchIntel(p) PROVE EntosisInv'
        BY <2>4 DEF FetchIntel, serverVars
    <2>5. ASSUME NEW p \in Pages, NEW i \in DOMAIN replies[p], Receive(p, i) PROVE EntosisInv'
        <3>1. RemoveAt(replies[p], i) \in Seq(SUBSET SoundRow)
            BY RemoveAtStays
        <3>2. replies[p][i] \in SUBSET SoundRow
            BY ElementOfSeq, LenProperties
        <3> QED BY <2>5, <3>1, <3>2 DEF Receive, serverVars
    <2>6. ASSUME NEW p \in Pages, NEW i \in DOMAIN replies[p], Lose(p, i) PROVE EntosisInv'
        <3>1. RemoveAt(replies[p], i) \in Seq(SUBSET SoundRow)
            BY RemoveAtStays
        <3> QED BY <2>6, <3>1 DEF Lose, serverVars, pageVars
    <2>7. ASSUME NEW i \in DOMAIN calls, Refuse(i) PROVE EntosisInv'
        <3>1. RemoveAt(calls, i) \in Seq(SoundCall)
            BY RemoveAtStays
        <3> QED BY <2>7, <3>1 DEF Refuse, serverVars, pageVars
    <2>8. ASSUME NEW i \in DOMAIN calls, NEW answered \in BOOLEAN, Serve(i, answered)
          PROVE  EntosisInv'
        <3>1. RemoveAt(calls, i) \in Seq(SoundCall)
            BY RemoveAtStays
        <3>2. calls[i] \in SoundCall
            BY ElementOfSeq, LenProperties
        <3>3. nodes' \in SUBSET SoundRow
            BY <2>8, <3>2, AppliedStaysSound DEF Serve
        <3>4. calls[i].page \in Pages
            BY <3>2, CallsName
        <3>5. form' \in [Pages -> Campaigns \union {Unlinked, None}]
            BY <2>8, <3>4 DEF Serve
        <3>6. lastId' \in Nat
            BY <2>8 DEF Serve
        <3> QED BY <2>8, <3>1, <3>3, <3>5, <3>6 DEF Serve
    <2>9. ASSUME NEW c \in Campaigns, Happens(c) PROVE EntosisInv'
        BY <2>9 DEF Happens, pageVars
    <2>10. CASE UNCHANGED vars
        BY <2>10 DEF vars, serverVars, pageVars
    <2> QED BY <2>1, <2>2, <2>3, <2>4, <2>5, <2>6, <2>7, <2>8, <2>9, <2>10 DEF EntosisNext
<1> QED BY <1>1, <1>2, PTL DEF EntosisSpec

\* A node that reads UNCLAIMED has no pilot on it, in the table and on every
\* page (CLAIM, RELEASE and the status buttons of EntosisPage.jsx, and the one
\* UPDATE of update_entosis_node), for any pages, campaigns and systems.
THEOREM UnclaimedStaysFree == EntosisSpec => []UnclaimedIsFree
<1>1. EntosisInv => UnclaimedIsFree
    BY DEF EntosisInv, UnclaimedIsFree, SoundRow, Free
<1> QED BY <1>1, EntosisInvHolds, PTL

\* The panels that show a node: that of its campaign if the page knows it,
\* else the panel of the rest.
LEMMA PanelOf ==
    ASSUME EntosisInv, NEW p \in Pages, NEW n \in board[p]
    PROVE  \E y \in Panels(p) : {x \in Panels(p) : n \in x.cards} = {y}
<1>1. CASE n.campaign \in campaigns[p]
    <2>1. EventPanel(p, n.campaign) \in Panels(p)
        BY <1>1 DEF Panels
    <2>2. n \in EventPanel(p, n.campaign).cards
        BY DEF EventPanel, NodesOf
    <2>3. ASSUME NEW x \in Panels(p), n \in x.cards PROVE x = EventPanel(p, n.campaign)
        <3>1. ASSUME NEW c \in campaigns[p], x = EventPanel(p, c) PROVE x = EventPanel(p, n.campaign)
            <4>1. n \in NodesOf(p, c)
                BY <2>3, <3>1 DEF EventPanel
            <4>2. n.campaign = c
                BY <4>1 DEF NodesOf
            <4> QED BY <3>1, <4>2
        <3>2. CASE x.cards = UnlinkedNodes(p)
            BY <1>1, <2>3, <3>2 DEF UnlinkedNodes
        <3> QED BY <3>1, <3>2 DEF Panels
    <2> QED BY <2>1, <2>2, <2>3
<1>2. CASE n.campaign \notin campaigns[p]
    <2> DEFINE y == [panel |-> Unlinked, cards |-> UnlinkedNodes(p),
                     ended |-> {m \in UnlinkedNodes(p) : m.campaign # None}]
    <2>1. n \in UnlinkedNodes(p)
        BY <1>2 DEF UnlinkedNodes
    <2>2. y \in Panels(p)
        BY <2>1 DEF Panels, ShowUnlinked
    <2>3. ASSUME NEW x \in Panels(p), n \in x.cards PROVE x = y
        <3>1. CASE \E c \in campaigns[p] : x = EventPanel(p, c)
            BY <1>2, <2>3, <3>1 DEF EventPanel, NodesOf
        <3> QED BY <3>1 DEF Panels
    <2>4. n \in y.cards
        BY <2>1
    <2> HIDE DEF y
    <2>5. {x \in Panels(p) : n \in x.cards} = {y}
        BY <2>2, <2>3, <2>4
    <2> QED BY <2>2, <2>5
<1> QED BY <1>1, <1>2

\* Every node of a page's copy is on one card, marked EVENT ENDED exactly if
\* its campaign is not listed, and in the systems that the op map and the op
\* kill feed cover (groupNodesByEvent, campaignSystemIds), whatever copies of
\* the table and of the campaigns meet on the page.
THEOREM EveryNodeHasOneCard == EntosisSpec => []EveryNodeOnce
<1>1. EntosisInv => EveryNodeOnce
    <2> SUFFICES ASSUME EntosisInv, NEW p \in Pages
                 PROVE  /\ \A n \in board[p] : Cardinality({x \in Panels(p) : n \in x.cards}) = 1
                        /\ \A x \in Panels(p) : \A n \in x.cards :
                              /\ n \in x.ended <=> n.campaign \notin campaigns[p] \union {None}
                              /\ p \in Configured /\ x.panel # Unlinked => n.system \in OpSystems(p)
        BY DEF EveryNodeOnce
    <2>1. ASSUME NEW n \in board[p] PROVE Cardinality({x \in Panels(p) : n \in x.cards}) = 1
        <3>1. PICK y \in Panels(p) : {x \in Panels(p) : n \in x.cards} = {y}
            BY <2>1, PanelOf
        <3> QED BY <3>1, FS_Singleton
    <2>2. ASSUME NEW c \in campaigns[p], NEW n \in EventPanel(p, c).cards
          PROVE  /\ n \in EventPanel(p, c).ended <=> n.campaign \notin campaigns[p] \union {None}
                 /\ p \in Configured => n.system \in OpSystems(p)
        <3>1. n \in board[p] /\ n.campaign = c /\ EventPanel(p, c).ended = {}
            BY <2>2 DEF EventPanel, NodesOf
        <3>2. n \in SoundRow /\ c \in Campaigns
            BY <2>2, <3>1 DEF EntosisInv
        <3>3. n.system \in SystemsOf[c]
            BY <3>1, <3>2, EntosisAssumption DEF SoundRow, Placed
        <3> QED BY <2>2, <3>1, <3>3 DEF OpSystems
    <2>3. ASSUME NEW x \in Panels(p), NEW n \in x.cards
          PROVE  /\ n \in x.ended <=> n.campaign \notin campaigns[p] \union {None}
                 /\ p \in Configured /\ x.panel # Unlinked => n.system \in OpSystems(p)
        <3>1. CASE \E c \in campaigns[p] : x = EventPanel(p, c)
            BY <2>2, <2>3, <3>1
        <3>2. CASE x = [panel |-> Unlinked, cards |-> UnlinkedNodes(p),
                        ended |-> {m \in UnlinkedNodes(p) : m.campaign # None}]
            BY <2>3, <3>2 DEF UnlinkedNodes
        <3> QED BY <3>1, <3>2 DEF Panels
    <2> QED BY <2>1, <2>3
<1> QED BY <1>1, EntosisInvHolds, PTL

=============================================================================
