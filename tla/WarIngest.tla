------------------------------ MODULE WarIngest ------------------------------
(***************************************************************************)
(* One war, one region: the poll cycle of routes/war_poller.py and         *)
(* war_ingest.fetch_pages / store_kills, run under the lease of WarLease   *)
(* by several worker processes that may crash anywhere.                    *)
(*                                                                         *)
(* zKillboard publishes kills, newest first, in pages of PageSize; a kill  *)
(* may be published up to Late after it happened.  A cycle reads the       *)
(* stored cursor, asks for the window back to the cursor plus an overlap,  *)
(* walks pages until one tells it that the rest is known, stores what it   *)
(* got and only then moves the cursor.                                     *)
(*                                                                         *)
(* The clock counts ticks as long as the overlap, a cycle's page requests  *)
(* fit in one, and a tick has at most one kill, which its time names.      *)
(***************************************************************************)
EXTENDS WarLease, FiniteSetsExt

CONSTANTS
    PageSize,   \* ZKILL_PAGE_SIZE
    MaxPages,   \* WAR_MAX_PAGES_PER_CYCLE
    Overlap,    \* WAR_WINDOW_OVERLAP_SECONDS
    MinWindow,  \* _MIN_WINDOW
    MaxWindow,  \* _MAX_WINDOW, zKill's ceiling for pastSeconds
    Late,       \* how late zKill may publish a kill
    Delayed,    \* the kills, by their times, that it does publish late
    NoCursor,   \* last_kill_time of a region never polled with success
    MaxTime,    \* bound: the latest reading of the clock
    MaxKills    \* bound: how many kills zKill publishes

ASSUME IngestAssumption ==
    /\ PageSize \in Nat \ {0} /\ MaxPages \in Nat \ {0}
    /\ Overlap \in Nat /\ Late \in Nat /\ MaxTime \in Nat /\ MaxKills \in Nat
    /\ MinWindow \in Nat /\ MaxWindow \in Nat /\ MinWindow <= MaxWindow
    /\ Delayed \subseteq Nat
    /\ NoCursor \notin Nat

VARIABLES
    now,       \* the wall clock
    feed,      \* the kills zKillboard lists
    ledger,    \* the kills in war_kills
    cursor,    \* war_ingest_state.last_kill_time
    saturated, \* war_ingest_state.saturated
    walk,      \* the local variables of each worker's poll_region
    \* History, for the properties only:
    skipped,   \* kills a walk that hit the page cap did not reach
    aged       \* kills already out of zKill's longest window when asked for

ingestOnly == <<now, feed, ledger, cursor, saturated, walk, skipped, aged>>
ingestVars == <<leaseVars, ingestOnly>>

Instant == 0..MaxTime
Cursor == Instant \cup {NoCursor}
Step == {"off", "read", "begin", "fetch", "store", "advance"}

Walk == [step : Step,
         cursor : Cursor,          \* where the last success got to
         past : 0..MaxWindow,      \* pastSeconds of this walk's requests
         page : 0..MaxPages,
         got : SUBSET Instant,     \* collected
         full : BOOLEAN]           \* the walk hit the page cap

NoWalk == [step |-> "off", cursor |-> NoCursor, past |-> 0, page |-> 0,
           got |-> {}, full |-> FALSE]

IngestInit ==
    /\ LeaseInit
    /\ now = 0
    /\ feed = {} /\ ledger = {}
    /\ cursor = NoCursor /\ saturated = FALSE
    /\ walk = [w \in Worker |-> NoWalk]
    /\ skipped = {} /\ aged = {}

Known(c) == c # NoCursor

\* A kill that a walk from cursor c regards as newer than what is stored.
After(k, c) == Known(c) => k > c

----------------------------------------------------------------------------
(* zKillboard                                                               *)

\* A kill that happened at t appears on zKillboard.
Publish(t) ==
    /\ IF t \in Delayed THEN t < now /\ now <= t + Late ELSE t = now
    /\ t \notin feed
    /\ Cardinality(feed) < MaxKills
    /\ feed' = feed \cup {t}
    /\ UNCHANGED <<leaseVars, now, ledger, cursor, saturated, walk, skipped, aged>>

\* What /pastSeconds/past/page/n/ answers: the n-th newest PageSize kills.
PageOf(past, n) ==
    LET window == {k \in feed : k >= now - past}
        newer(k) == Cardinality({j \in window : j > k})
    IN  {k \in window : newer(k) \div PageSize = n - 1}

----------------------------------------------------------------------------
(* A worker's cycle                                                         *)

\* poll_war: take the lease or go back to sleep.
BeginCycle(w) ==
    /\ Claim(w)
    /\ walk' = [walk EXCEPT ![w] = IF stage'[w] = "polling"
                                   THEN [NoWalk EXCEPT !.step = "read"] ELSE NoWalk]
    /\ UNCHANGED <<now, feed, ledger, cursor, saturated, skipped, aged>>

\* poll_war reads the ingest state of every region once, before the first.
ReadState(w) ==
    /\ walk[w].step = "read"
    /\ walk' = [walk EXCEPT ![w].step = "begin", ![w].cursor = cursor]
    /\ UNCHANGED <<leaseVars, now, feed, ledger, cursor, saturated, skipped, aged>>

\* Newest stored kill, for a region whose state has no cursor.
LatestKillTime == IF ledger = {} THEN NoCursor ELSE Max(ledger)

\* Mutant: the ceiling is applied before the overlap is added.
MutWindowFor(c) ==
    IF ~Known(c) THEN MaxWindow
    ELSE Max({MinWindow, Min({MaxWindow, now - c}) + Overlap})

\* How far back to ask: to the cursor and a little more, within limits.
WindowFor(c) ==
    IF ~Known(c) THEN MaxWindow
    ELSE Max({MinWindow, Min({MaxWindow, now - c + Overlap})})

\* poll_region up to the first request: cursor, window.  A kill older than
\* the longest window is out of reach for this walk.
BeginRegion(w) ==
    /\ walk[w].step = "begin"
    /\ LET c == IF Known(walk[w].cursor) THEN walk[w].cursor ELSE LatestKillTime
           past == WindowFor(c)
       IN  /\ walk' = [walk EXCEPT ![w].step = "fetch", ![w].cursor = c,
                                   ![w].past = past, ![w].page = 1]
           /\ aged' = IF past = MaxWindow
                      THEN aged \cup {k \in feed \ ledger : k < now - past}
                      ELSE aged
    /\ UNCHANGED <<leaseVars, now, feed, ledger, cursor, saturated, skipped>>

\* A full page whose oldest kill is no newer than the cursor ends the walk.
ReachesCursor(batch, c) == Known(c) /\ Min(batch) <= c

\* Why a walk stops after this batch.
Short(batch) == Cardinality(batch) < PageSize

\* One page request of fetch_pages, and the decision to go on.
FetchPage(w) ==
    /\ walk[w].step = "fetch"
    /\ LET v == walk[w]
           batch == PageOf(v.past, v.page)
           got == v.got \cup batch
       IN  walk' = [walk EXCEPT ![w] =
             IF Short(batch) \/ ReachesCursor(batch, v.cursor)
             THEN [v EXCEPT !.step = "store", !.got = got]
             ELSE IF v.page = MaxPages
             THEN [v EXCEPT !.step = "store", !.got = got, !.full = TRUE]
             ELSE [v EXCEPT !.got = got, !.page = v.page + 1]]
    /\ UNCHANGED <<leaseVars, now, feed, ledger, cursor, saturated, skipped, aged>>

\* Mutant: an outage is flattened to "no more kills" and the walk goes on.
MutFetchFails(w) ==
    /\ walk[w].step = "fetch"
    /\ walk' = [walk EXCEPT ![w].step = "store"]
    /\ UNCHANGED <<leaseVars, now, feed, ledger, cursor, saturated, skipped, aged>>

\* A request raised: what the walk collected is dropped, the cursor stays.
FetchFails(w) ==
    /\ walk[w].step = "fetch"
    /\ EndCycle(w)
    /\ walk' = [walk EXCEPT ![w] = NoWalk]
    /\ UNCHANGED <<now, feed, ledger, cursor, saturated, skipped, aged>>

\* Kills of the feed older than anything a capped walk collected.
Unreached(got) == {k \in feed : \A j \in got : k < j}

\* store_kills: whatever is not in the ledger yet, in one transaction.
Store(w) ==
    /\ walk[w].step = "store"
    /\ ledger' = ledger \cup walk[w].got
    /\ walk' = [walk EXCEPT ![w].step = "advance"]
    /\ skipped' = IF walk[w].full THEN skipped \cup Unreached(walk[w].got) ELSE skipped
    /\ UNCHANGED <<leaseVars, now, feed, cursor, saturated, aged>>

\* Mutant: the failed write is swallowed and the cursor moves all the same.
MutDatabaseFails(w) ==
    /\ walk[w].step \in {"begin", "store", "advance"}
    /\ EndCycle(w)
    /\ cursor' = IF walk[w].got = {} THEN walk[w].cursor ELSE Max(walk[w].got)
    /\ walk' = [walk EXCEPT ![w] = NoWalk]
    /\ UNCHANGED <<now, feed, ledger, saturated, skipped, aged>>

\* A database call of poll_war or poll_region raised: it is logged, and what
\* the walk collected is dropped if it was not stored yet.
DatabaseFails(w) ==
    /\ walk[w].step \in {"read", "begin", "store", "advance"}
    /\ EndCycle(w)
    /\ walk' = [walk EXCEPT ![w] = NoWalk]
    /\ UNCHANGED <<now, feed, ledger, cursor, saturated, skipped, aged>>

\* The end of poll_region: cursor and health of the region.
Advance(w) ==
    /\ walk[w].step = "advance"
    /\ EndCycle(w)
    /\ cursor' = IF walk[w].got = {} THEN walk[w].cursor ELSE Max(walk[w].got)
    /\ saturated' = walk[w].full
    /\ walk' = [walk EXCEPT ![w] = NoWalk]
    /\ UNCHANGED <<now, feed, ledger, skipped, aged>>

\* The rest of a worker's life is the lease's.
Live(w) ==
    /\ \/ Boot(w)
       \/ ReadClock(w)
       \/ ClaimTimesOut(w)
    /\ UNCHANGED ingestOnly

Die(w) ==
    /\ Crash(w)
    /\ walk' = [walk EXCEPT ![w] = NoWalk]
    /\ UNCHANGED <<now, feed, ledger, cursor, saturated, skipped, aged>>

\* The requests of a walk fit in one tick.  When the clock has reached its
\* bound the timers still run, so that sleepers wake and leases expire.
PassTime ==
    /\ \A w \in Worker : walk[w].step # "fetch"
    /\ Tick
    /\ now' = Min({now + 1, MaxTime})
    /\ UNCHANGED <<feed, ledger, cursor, saturated, walk, skipped, aged>>

CycleStep(w) ==
    \/ BeginCycle(w)
    \/ ReadState(w)
    \/ BeginRegion(w)
    \/ FetchPage(w)
    \/ FetchFails(w)
    \/ Store(w)
    \/ DatabaseFails(w)
    \/ Advance(w)

IngestNext ==
    \/ \E t \in Instant : Publish(t)
    \/ \E w \in Worker : CycleStep(w) \/ Live(w) \/ Die(w)
    \/ PassTime

IngestSpec == IngestInit /\ [][IngestNext]_ingestVars

----------------------------------------------------------------------------
(* Properties                                                               *)

IngestTypeOK ==
    /\ LeaseTypeOK
    /\ now \in Instant
    /\ feed \subseteq Instant
    /\ ledger \subseteq feed
    /\ cursor \in Cursor
    /\ saturated \in BOOLEAN
    /\ walk \in [Worker -> Walk]
    /\ \A w \in Worker : walk[w].step # "off" => stage[w] = "polling"
    /\ skipped \subseteq feed /\ aged \subseteq feed

\* The cursor is always the time of a kill the ledger holds: whatever worker
\* crashes, and in whatever order two overlapping cycles finish, the next
\* walk never starts from a kill that was fetched and then lost.
CursorBacked == cursor \in ledger \cup {NoCursor}

\* A kill zKill published when it happened is in the ledger, or is still
\* newer than the cursor and so will be asked for, unless the page cap or
\* an outage longer than zKill's window put it out of reach: no failure,
\* crash or overlap of cycles makes the poller step over it.
NoPromptKillLost ==
    \A k \in (feed \ Delayed) \ (ledger \cup skipped \cup aged) : After(k, cursor)

=============================================================================
