------------------------------ MODULE WarRoster ------------------------------
(***************************************************************************)
(* Roster edits made from the page (routes/war_routes.py), the ingest that *)
(* classifies kills while they are made (routes/war_poller.py) and the     *)
(* ledger both write.                                                      *)
(*                                                                         *)
(* A worker process has one WarSpec object that its threads share: every   *)
(* request and every poll cycle reloads the overrides into it, in place.   *)
(* The database is shared by the processes, and no two statements of a     *)
(* handler are one transaction.  A handler may fail at each of them, and a *)
(* process may be killed.                                                  *)
(***************************************************************************)
EXTENDS WarClassify, TLC

CONSTANTS
    Process, Thread,
    ProcessOf,   \* the process each thread runs in
    Poller,      \* the threads that run the war poller; others serve requests
    Base,        \* the module's own rosters (a Roster)
    Killmail,    \* the killmails zKillboard may deliver
    OldKill,     \* those stored before rows had numbers of pilots
    MaxRows,     \* bound: rows in the ledger
    MaxBusy,     \* bound: handlers and cycles in progress at a time
    MaxEdits,    \* bound: edits begun
    NoKill

ASSUME RosterAssumption ==
    /\ ProcessOf \in [Thread -> Process]
    /\ Poller \subseteq Thread
    /\ Base \in Roster
    /\ \A km \in Killmail : IsKillmail(km)
    /\ OldKill \subseteq Killmail
    /\ NoKill \notin Killmail
    /\ MaxRows \in Nat /\ MaxBusy \in Nat /\ MaxEdits \in Nat

VARIABLES
    overrides,  \* war_roster_overrides: the ruling on each entity, if any
    spec,       \* each process's WarSpec.side_by_alliance / side_by_corp
    ledger,     \* war_kills: the sides stored for each kill stored
    task,       \* where each thread is, and its local variables
    edits,      \* how many edits have begun (for the bound)
    \* History, for the properties only:
    unsettled,  \* entities whose last ruling is not applied to history yet
    raced       \* rows last written by a task that overlapped a change

rosterVars == <<overrides, spec, ledger, task, edits, unsettled, raced>>

\* A ruling is a side, or "neutral"; no row is "unset".
Ruling == Side \cup {"neutral"}
Overrides == [Entity -> Ruling \cup {"unset"}]

Row == [victim : MaybeSide, killer : MaybeSide, counted : BOOLEAN]

\* at: the next thing the thread does.  then: what follows once the roster
\* is loaded.  found: the rows an edit selected; rows: those of them it
\* found to change, recomputed, or the row of the kill about to be inserted.
At == {"idle", "load", "reset", "layer", "write", "select", "update",
       "classify", "insert"}
NoTask == [at |-> "idle", then |-> "idle", entity |-> NoEntity, ruling |-> "unset",
           seen |-> [e \in Entity |-> "unset"], found |-> {}, rows |-> <<>>,
           kill |-> NoKill, overlapped |-> FALSE]

\* WarSpec.apply_overrides: the overrides over the module's lists.
Layered(ov) ==
    [e \in Entity |-> IF ov[e] = "unset" THEN Base[e]
                      ELSE IF ov[e] = "neutral" THEN NoSide ELSE ov[e]]

\* What ingest makes of a killmail under a roster.
Classified(roster, km, counted) ==
    [victim |-> VictimSide(roster, km), killer |-> KillerSide(roster, km),
     counted |-> counted]

\* Initially: rows of before, if any, stored under the module's rosters.
RosterInit ==
    /\ overrides = [e \in Entity |-> "unset"]
    /\ spec = [p \in Process |-> Base]
    /\ \E old \in SUBSET OldKill :
         /\ Cardinality(old) <= MaxRows
         /\ ledger = [km \in old |-> Classified(Base, km, FALSE)]
    /\ task = [t \in Thread |-> NoTask]
    /\ edits = 0
    /\ unsettled = {} /\ raced = {}

Busy == {t \in Thread : task[t].at # "idle"}

\* Threads other than t for which the change t makes comes too late.
Overlap(ts) == [t \in Thread |->
    IF t \in ts THEN [task[t] EXCEPT !.overlapped = TRUE] ELSE task[t]]

----------------------------------------------------------------------------
(* Beginning: every handler and every cycle first reloads the roster        *)

Begin(t, then, e, r) ==
    /\ task[t].at = "idle"
    /\ Cardinality(Busy) < MaxBusy
    /\ task' = [task EXCEPT ![t] =
                 [NoTask EXCEPT !.at = "load", !.then = then, !.entity = e, !.ruling = r]]
    /\ UNCHANGED <<overrides, spec, ledger, unsettled, raced>>

\* Any page of the war: _require_war, and then only reads.
BeginView(t) ==
    /\ t \notin Poller
    /\ Begin(t, "idle", NoEntity, "unset")
    /\ UNCHANGED edits

\* POST and DELETE .../roster: a ruling on an entity, or back to the module.
BeginEdit(t) ==
    /\ t \notin Poller
    /\ edits < MaxEdits
    /\ edits' = edits + 1
    /\ \E e \in Entity, r \in Ruling \cup {"unset"} : Begin(t, "write", e, r)

\* Mutant: the cycle classifies with whatever roster the process has.
MutBeginPoll(t) ==
    /\ t \in Poller
    /\ task[t].at = "idle"
    /\ Cardinality(Busy) < MaxBusy
    /\ task' = [task EXCEPT ![t].at = "classify"]
    /\ UNCHANGED <<overrides, spec, ledger, edits, unsettled, raced>>

\* poll_war, once it holds the lease.
BeginPoll(t) ==
    /\ t \in Poller
    /\ Begin(t, "classify", NoEntity, "unset")
    /\ UNCHANGED edits

\* db.get_war_roster_overrides.
LoadOverrides(t) ==
    /\ task[t].at = "load"
    /\ task' = [task EXCEPT ![t].at = "reset", ![t].seen = overrides,
                            ![t].overlapped = FALSE]
    /\ UNCHANGED <<overrides, spec, ledger, edits, unsettled, raced>>

\* Threads of the same process whose roster t replaces while they use it.
Sharers(t) == {u \in Busy \ {t} : ProcessOf[u] = ProcessOf[t]}

\* apply_overrides replaces the maps by copies of the base ...
ResetRoster(t) ==
    /\ task[t].at = "reset"
    /\ spec' = [spec EXCEPT ![ProcessOf[t]] = Base]
    /\ task' = [Overlap(Sharers(t)) EXCEPT ![t].at = "layer"]
    /\ UNCHANGED <<overrides, ledger, edits, unsettled, raced>>

\* ... and then writes the overrides into them.
LayerRoster(t) ==
    /\ task[t].at = "layer"
    /\ spec' = [spec EXCEPT ![ProcessOf[t]] = Layered(task[t].seen)]
    /\ task' = [Overlap(Sharers(t)) EXCEPT
                  ![t] = IF task[t].then = "idle" THEN NoTask
                         ELSE [task[t] EXCEPT !.at = task[t].then]]
    /\ UNCHANGED <<overrides, ledger, edits, unsettled, raced>>

----------------------------------------------------------------------------
(* An edit                                                                  *)

\* set_war_roster_override or delete_war_roster_override, committed.
WriteOverride(t) ==
    /\ task[t].at = "write"
    /\ overrides' = [overrides EXCEPT ![task[t].entity] = task[t].ruling]
    /\ unsettled' = unsettled \cup {task[t].entity}
    /\ task' = [Overlap({u \in Busy \ {t} : task[u].at # "load"}) EXCEPT
                  ![t].at = "load", ![t].then = "select"]
    /\ UNCHANGED <<spec, ledger, edits, raced>>

\* reclassify_war_kills: SELECT the rows in scope, recompute their sides and
\* keep those that differ.
SelectRows(t) ==
    /\ task[t].at = "select"
    /\ LET found == {km \in DOMAIN ledger : InScope(task[t].entity, km)}
           new(km) == Recomputed(spec[ProcessOf[t]], km, ledger[km])
       IN  task' = [task EXCEPT ![t].at = "update", ![t].found = found,
               ![t].rows = [km \in {k \in found : new(k) # ledger[k]} |-> new(km)]]
    /\ UNCHANGED <<overrides, spec, ledger, edits, unsettled, raced>>

\* UPDATE them; the memo of aggregates is cleared and the request ends.
UpdateRows(t) ==
    /\ task[t].at = "update"
    /\ ledger' = [km \in DOMAIN ledger |-> IF km \in DOMAIN task[t].rows
                                            THEN task[t].rows[km] ELSE ledger[km]]
    /\ raced' = IF task[t].overlapped THEN raced \cup task[t].found
                ELSE raced \ task[t].found
    /\ unsettled' = IF task[t].overlapped THEN unsettled
                    ELSE unsettled \ {task[t].entity}
    /\ task' = [Overlap({u \in Busy \ {t} : task[u].at = "update"}) EXCEPT ![t] = NoTask]
    /\ UNCHANGED <<overrides, spec, edits>>

----------------------------------------------------------------------------
(* A poll cycle                                                             *)

\* store_kills classifies a kill it does not know yet ...
ClassifyKill(t) ==
    /\ task[t].at = "classify"
    /\ Cardinality(DOMAIN ledger) < MaxRows
    /\ \E km \in Killmail \ DOMAIN ledger :
         task' = [task EXCEPT ![t].at = "insert", ![t].kill = km,
             ![t].rows = [k \in {km} |-> Classified(spec[ProcessOf[t]], k, TRUE)]]
    /\ UNCHANGED <<overrides, spec, ledger, edits, unsettled, raced>>

\* ... and inserts it, unless another worker has meanwhile.
InsertKill(t) ==
    /\ task[t].at = "insert"
    /\ LET km == task[t].kill
       IN  IF km \in DOMAIN ledger THEN UNCHANGED <<ledger, raced>>
           ELSE /\ ledger' = [k \in DOMAIN ledger \cup {km} |->
                              IF k = km THEN task[t].rows[km] ELSE ledger[k]]
                /\ raced' = IF task[t].overlapped THEN raced \cup {km} ELSE raced
    /\ task' = [task EXCEPT ![t].at = "classify", ![t].kill = NoKill, ![t].rows = <<>>]
    /\ UNCHANGED <<overrides, spec, unsettled, edits>>

EndPoll(t) ==
    /\ task[t].at = "classify"
    /\ task' = [task EXCEPT ![t] = NoTask]
    /\ UNCHANGED <<overrides, spec, ledger, edits, unsettled, raced>>

----------------------------------------------------------------------------
(* Failures                                                                 *)

\* A database call raises: the request answers 500, the poller logs it.
\* What was committed before stays.
Fail(t) ==
    /\ task[t].at \in {"load", "write", "select", "update", "insert"}
    /\ task' = [task EXCEPT ![t] = NoTask]
    /\ UNCHANGED <<overrides, spec, ledger, edits, unsettled, raced>>

\* A process is killed and another is forked, with the module's rosters.
Restart(p) ==
    /\ \E t \in Busy : ProcessOf[t] = p
    /\ spec' = [spec EXCEPT ![p] = Base]
    /\ task' = [t \in Thread |-> IF ProcessOf[t] = p THEN NoTask ELSE task[t]]
    /\ UNCHANGED <<overrides, ledger, edits, unsettled, raced>>

TaskStep(t) ==
    \/ BeginView(t)
    \/ BeginEdit(t)
    \/ BeginPoll(t)
    \/ LoadOverrides(t)
    \/ ResetRoster(t)
    \/ LayerRoster(t)
    \/ WriteOverride(t)
    \/ SelectRows(t)
    \/ UpdateRows(t)
    \/ ClassifyKill(t)
    \/ InsertKill(t)
    \/ EndPoll(t)
    \/ Fail(t)

RosterNext ==
    \/ \E t \in Thread : TaskStep(t)
    \/ \E p \in Process : Restart(p)

RosterSpec == RosterInit /\ [][RosterNext]_rosterVars

----------------------------------------------------------------------------
(* Properties                                                               *)

\* The entities whose side may decide the sides of a kill.
Involved(km) ==
    {km.victim.alliance, km.victim.corp}
    \cup {km.attackers[i].alliance : i \in DOMAIN km.attackers}
    \cup {km.attackers[i].corp : i \in DOMAIN km.attackers}

\* Rows that no unfinished, failed or overlapped change concerns.
Settled(km) == km \notin raced /\ Involved(km) \cap unsettled = {}

\* Whatever edits, undone edits, polls, page views, failures and crashes
\* came before, a settled row with numbers of pilots says what ingest would
\* say under the roster of now: rows that were ingested before a ruling and
\* rows that were ingested after it agree ("the change is applied to stored
\* history too, which is the point", routes/war_routes.py;
\* "reproduce the ingest majority rule precisely", db.reclassify_war_kills).
LedgerFollowsRoster ==
    \A km \in DOMAIN ledger :
        ledger[km].counted /\ Settled(km) =>
            ledger[km] = Classified(Layered(overrides), km, TRUE)

=============================================================================
