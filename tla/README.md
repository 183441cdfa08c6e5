# Lawn EVE intel dashboard: TLA+ specifications

The dashboard is a Flask application that several gunicorn worker processes
serve from one SQLite file. Each process also runs two background threads: one
samples sovereignty and activity from ESI, the other keeps a ledger of the
kills of a war from zKillboard. A React frontend polls the JSON routes; most of
its panels hold a copy of something on the server and several requests about it
at once.

This directory specifies the parts of that program whose correctness depends on
the order in which processes, threads, requests, answers and failures meet. TLC
checks the specifications on small instances; TLAPS proves every safety property
the runs check for every size. Line numbers below are those of `PROJECT.json`, whose
`map` names for each definition the code it stands for. Paths of Python code are
relative to `src/`, those of the frontend to `src/frontend/src/`.

## Inventory

| Part | State it keeps | Operations | Who it talks to | What is hard | What makes it correct |
|---|---|---|---|---|---|
| War poll lease (`routes/war_poller.py`, `db.acquire_war_poll_lease`) | the row of `war_poll_lease`; per process the poller thread | claim, poll, sleep, fork, die | SQLite, the ingest | stale clock readings, waits for the write lock, crashed holders | at most one worker under a valid grant; polling never stops for good |
| War ingest (`poll_region`, `fetch_pages`, `store_kills`) | `war_ingest_state` (cursor, saturated), `war_kills` | one cycle: read state, choose window, walk pages, store, advance | zKillboard, SQLite | overlapping cycles, a failure between any two steps, the page cap, late kills | the cursor never passes what is stored; no kill is stepped over |
| Classification (`war_classify.py`, `db._recompute_killer_side`) | none | sides of a kill, from the killmail or from the row | ingest, roster | two implementations of one rule, over different data | both give the same answer |
| Roster (`routes/war_routes.py`, `wars.WarSpec`, `db.reclassify_war_kills`) | `war_roster_overrides`, one shared `WarSpec` per process | page view, edit, undo, poll | ledger, ingest | the shared map is rebuilt in place; edits are several transactions | the ledger says what ingest would say today |
| War page and memo (`pages/WarPage.jsx`, `_memoized`) | `_memo` per process; the page's loads, edit, filter and feed | load, choose range, edit, undo, filter, poll; look up, compute, clear | roster, ledger | a clear that races a computation; other processes; answers for another range or filter | what is served is recent; an editor sees the edit; the feed shows the filter chosen |
| ESI client (`esi_client.py`) | `_cache`, `_error_limit_until` | get, set, evict, pause, arm | every route | threads, capacity, clocks, answers noted out of order | bounded cache; nothing stale served; a pause lasts as long as ESI's window |
| Snapshot poller (`routes/poller.py`, `db.snapshot_*`) | in-memory markers, two tables | sample | ESI, SQLite | every worker samples | equal samples an hour apart; no longer gaps |
| Sovereignty change log (`db.record_sov_changes`) | `sov_state`, `sov_changes` | diff, log, trim | ESI cache | stale answers in other processes | the log is a history |
| Entosis board (`routes/entosis_routes.py`, `pages/EntosisPage.jsx`) | `entosis_nodes`; each page's copies of nodes and campaigns | add, claim, release, set status, delete, clear; two polls | SQLite, the campaigns | two pilots on one node, late and lost writes, reads that overtake each other | an unclaimed node has no pilot; each node is drawn once; boards converge |
| Scanners, AI summary, share button (`LocalScanner`, `FleetCompAnalyzer`, `DscanParser`, `useAiSummary`, `ShareButton`) | text, result, summary, controllers, link | edit, scan, describe, publish, switch audience | scan, AI and share routes | answers about an older text; publishes in flight | a summary is about the text it stands under; a link is for the audience it names |
| Intel channel board (`IntelChannelParser`) | entries, what was notified, pilots asked about, the map's copy | paste, age, remove, clear, look up | dashboard map, notifications | lines out of order and pasted again; three places that remember | newest word per system; one notice of a report until the board is cleared; no ring outlives its report |
| Dashboard (`App`, `useNotifications`, feeds, cards, table, map, plan, trends) | the data, flags, last snapshot, region, tab | fetch, poll, refresh, compare, choose | all read routes | overlapping fetches, failed ones; five classifications of one system | nodes announced once, no campaign silently; one story everywhere; the page heals |
| Sessions, passwords and their pages (`useAuth`, `TimerBoard`, `JumpBridgeManager`, `SharePage`, `AnalyticsPage`) | what each hook knows of the session, inputs, what is remembered | log in and out, check, write, load, lock | SSO, lockout | a password typed on during a check; a session that changes during a load | nothing half typed is tried; only a right password is remembered; a refusal is current |
| Shared reports (`routes/share_routes.py`) | `shared_reports` | create, read, prune | SQLite | expiry | nothing expired is shown |
| Name repair, pruning | `names_resolved`, old rows | repair, prune | ESI, ledger | partial names, rows needed later | nothing of a belligerent is pruned |
| Backfill tool | none of its own | walk a month | ledger | no cursor, no overrides | same rows as ingest |
| Analytics (`routes/analytics_routes.py`, the flush of `routes/poller.py`) | `_hourly`, `_visitors` and the last flush of each process; `traffic_hourly`, `traffic_visitors` | count, flush, summarize, prune | SQLite | cleared before written; requests, summaries and poller flush at once; crash | a hit is counted once, in both tables; none waits long; a summary is complete |
| SSO and lockout (`routes/auth_sso.py`) | the session, in a cookie; failure counters | log in, recheck, log out, attempt | ESI, EVE, limiter | copies of a cookie overwrite each other; outages; concurrent attempts | access ends with the membership, and does not end with an outage; guesses are bounded |
| Timers, annotations, jump bridges | a table each | add, update, delete | SQLite | nothing beyond one statement | |
| Intel, hostile, zKill, AI and read routes; shell; deployments; tools; demo server; other panels | start-up configuration, one cached answer | reads, rendering | | | |

`PROJECT.json` lists every component with its status, and under `hazards`
what can go wrong in each at the line where it bites.

## Modules

| Module | What it is | Code |
|---|---|---|
| `WarLease` | the loop of the workers and the lease row | `routes/war_poller.py` 122-200, `db.py` 1869-1900 |
| `WarIngest` | extends `WarLease`: the poll cycle of one war and region, and zKillboard | `routes/war_poller.py` 68-147, `war_ingest.py` 39-147 |
| `WarClassify` | operators: the sides of a kill, at ingest and recomputed | `war_classify.py` 80-168, `db.py` 1726-1809 |
| `WarRoster` | extends `WarClassify`: edits, views and poll cycles sharing rosters and ledger | `routes/war_routes.py`, `wars/__init__.py`, `db.py` 1655-1762 |
| `WarPage` | the page of a war and the memos it reads through | `pages/WarPage.jsx`, `routes/war_routes.py` |
| `EsiClient` | the cache and the error-limit pause of each process, and ESI's budget | `esi_client.py` 33-193 and the getters |
| `Snapshots` | the samples several processes take of one system | `routes/poller.py` 47-151, `db.py` 359-412 |
| `SovChanges` | the sovereignty map through caches into the change log | `routes/intel_routes.py` 755-782, `db.py` 753-798 |
| `Entosis` | the table of command nodes and the pages that edit it | `routes/entosis_routes.py`, `db.py`, `pages/EntosisPage.jsx`, `utils/entosisHelpers.js` |
| `LatestAnswer` | abstract: what a panel that asks about an editable input promises | |
| `AiSummary` | the AI hook; implements `LatestAnswer` | `utils/useAiSummary.js`, `components/common/AiSummary.jsx` |
| `DscanParse` | operators: what a pasted directional scan says | `components/DscanParser.jsx` |
| `Scanner` | extends `AiSummary` and `DscanParse`: the three paste panels and the share button | `LocalScanner.jsx`, `FleetCompAnalyzer.jsx`, `DscanParser.jsx`, `common/ShareButton.jsx` |
| `IntelBoard` | the intel channel panel and the map's copy of its reports | `components/IntelChannelParser.jsx`, `ConstellationMap.jsx` |
| `SystemView` | operators: what each place of the dashboard says of a system | `App.jsx`, `SystemTable.jsx`, `ConstellationMap.jsx`, `GrindingPlan.jsx`, `AdmTrends.jsx` |
| `Dashboard` | extends `SystemView`: fetches, notifications, feeds, tabs | `App.jsx`, `hooks/useNotifications.js`, `KillFeed.jsx`, `ActiveHostileTracker.jsx`, `NotificationBell.jsx` |
| `Auth` | the login hook as every component that uses it runs it | `utils/useAuth.js`, `EveLoginButton.jsx` |
| `WriteBoards`, `SharePage`, `AnalyticsPage` | extend `Auth`: the pages that depend on who looks | `TimerBoard.jsx`, `JumpBridgeManager.jsx`, `pages/SharePage.jsx`, `pages/AnalyticsPage.jsx` |
| `Access` | composes the three under one session | |
| `MCWarLease`, `MCWarIngest`, `MCWarRoster`, `MCWarPage`, `MCEsiClient`, `MCSnapshots`, `MCSovChanges`, `MCEntosis`, `MCScanner`, `MCIntelBoard`, `MCDashboard`, `MCAccess` | the instances TLC checks | |
| `WarIngest_proofs` | theorems of `WarLease` and `WarIngest` | |
| `SharedTables_proofs` | theorems of `WarClassify`, `WarRoster` and `Entosis`: tables that several edit at once | |
| `LiveData_proofs` | theorems of `EsiClient` and `Dashboard`: the two ends of the live data | |
| `PastedText_proofs` | theorems of `AiSummary`, `Scanner` and `IntelBoard`: panels that read pasted text | |
| `Snapshots_proofs`, `SovChanges_proofs`, `Access_proofs`, `WarPage_proofs` | theorems of the module they are named after | |

### WarLease

`lease` is the row, `stage[w]` where worker process `w` is in `_loop`, and
`timer[w]` what it remembers of time: until it wakes, how old its clock reading
is, or how much of its grant is left. Time is relative to the present: the row
holds `expires_at - now`. So the clock needs no bound. A process that dies never comes
back; the one gunicorn forks instead is another member of `Worker`, as its pid
makes its owner name another.

`ReadClock` and `Claim` are two actions because `acquire_war_poll_lease` reads
the clock before `BEGIN IMMEDIATE`, which can wait up to `BusyTimeout`. `Claim`
is the whole transaction, and the SELECT after the upsert that tells the worker
whether it won. `ClaimTimesOut` is SQLite giving up.

The initial delay of 20 s in `_loop` is not modelled: workers may start at any
time anyway. Wall-clock adjustments are not modelled either, and the resolution
of the stored timestamps is one tick.

### WarIngest

`walk[w]` holds the local variables of `poll_region` in worker `w`. One action per
step another worker could see or a failure could separate: `BeginCycle` (the
claim), `ReadState`, `BeginRegion`, one `FetchPage` per request, `Store`,
`Advance`; `FetchFails`, `DatabaseFails` and `Die` end a cycle anywhere.
`Publish` is zKillboard. A kill is its time, and a tick has at most one.
`skipped` and `aged` record which kills the page cap or zKillboard's longest
window put out of reach; no action reads them.

`PassTime` does not separate the requests of one walk: pages are taken from one
window. In the code a walk takes seconds and a tick stands for the overlap of
fifteen minutes. A walk is still not atomic: kills are published between its
pages and shift them, and other workers store and advance.

### WarClassify and WarRoster

A killmail keeps what the classifiers look at: alliances, corporations, which
attackers are pilots, who landed the final blow. `KillerSide` is ingest's
majority rule, `RecomputedKillerSide` the rule over the stored row.

In `WarRoster` every handler starts with `LoadOverrides`, `ResetRoster`,
`LayerRoster`: `apply_overrides` replaces the maps of the process's one `WarSpec`
by the base and then fills them, so between the two another thread of that
process classifies with the base. Poll cycles classify (`ClassifyKill`) and insert
(`InsertKill`) in two steps; edits commit the override (`WriteOverride`), load it
again, select rows and update them. `Fail` is a database call that raises, and
`Restart` a process that is killed; both leave what was committed.

### EsiClient

`call[t]` is the getter thread `t` is in: `Lookup` (`_get_cached`), `PassPause`
(`_pause_if_error_limited` returns), the answer of ESI, `Note`
(`_note_error_limit` and `raise_for_status`), `Store` (`_set_cache`), `Return`.
Each holds one lock once, so each is one action. `AnswerError` is an error
answer, which urllib3 may repeat without telling the getter; `Lose` is no answer at all, or
any failure of zKillboard, which neither pauses nor notes. Entries and pauses
are kept as time left, as in `WarLease`, and answers as their age; what they say does not matter
here. `Kept` is `_set_cache`'s pruning, with any choice among entries that expire
together. `warned` is history: it lets `PauseHonoured` say "since this window began".

ESI is external: a budget of errors for the host, a fixed window after which it is restored, and
headers that report both. Every ESI answer carries the headers; an answer without them
notes nothing in the code.

### Snapshots

Each process of `Worker` runs `_loop`; `task[w]` is either its sleep or its wait for
the write lock. `Sample` is the fetch and `snapshot_adm_batch` up to the open connection:
it looks at the process's `marker` and sets it. `Insert` is the INSERT with its
NOT EXISTS guard, whose cutoff was computed before the wait, and the commit. `NoSample`
is a failed fetch or an ADM of 0, `InsertFails` a lock that is not to be had or a commit
that fails. `sees[w]` is what the process reads, which changes from process to process
as their caches expire. `samples` holds the rows by reading and age. Systems do not
interact, so there is one. `snapshot_activity_batch` is the same protocol whose guard and
marker ignore what the row says: the case of one `Reading`. One batch is one
transaction for all systems, so a failure fails them together. `steady` is history.

### SovChanges

`api_sov_changes` takes the map from the cache (`FromCache`), or from ESI (`Fetch`)
and then puts it into the cache (`Keep`), where several threads of a process may do so
at once and the last answer wins. `Record` is the whole
transaction: compare, log, store, trim. Its order of rows is that of ESI's list, so any.
`RequestFails` is ESI not answering, or the transaction rolled back. `Evict` is a full
cache. `changes` and `gone` are history: what changed hands, and since when an alliance no longer
holds a system.

### WarPage

`rulings` is the history of one alliance's override; version `n` of the roster is what
it was after `n` edits, and stands for everything computed under it. `gone[v]` is for how
long version `v` has been superseded. A page load is a record of its range and its two answers:
the aggregates, which come through `_memoized` of whichever process the request reached
(`Lookup`, then `Computed` on a miss), and the roster, which is read afresh (`ServeRoster`).
`Computed` stamps the entry with the time of the lookup and stores it whatever happened meanwhile,
as the code does. `CommitEdit` writes the override, `EndEdit` clears the memo of the process that
served it, `EditShown` is the answer. The kill feed has a poll and a filter of its own. The five memoized
reads of a load are one, so a page made of two versions is not told from one that is not.
`floor` and `raced` are history.

### Entosis

`nodes` is the table, `board[p]` and `campaigns[p]` the copies page `p` draws, `calls` the writes on
their way, `replies[p]` the answers to reads that are not in yet. `Buttons` is what a card offers
from the page's copy, and `Applied` what the server does with it, which checks no
transition. A write may be served late, refused, or served with its answer lost (`Serve`, `Refuse`); reads
overtake one another (`Receive`) and fail (`Lose`). `Panels` is how the page groups nodes by
campaign, with the panel of the rest. The re-read after a write is one of `FetchNodes`, which may
happen at any time.

### LatestAnswer, AiSummary, DscanParse and Scanner

`LatestAnswer` has two variables, the question and the question that the answer on display was given for.
Its steps are the promise: a change of the input takes the answer away, and only an answer for the input
of the moment is shown. `AiSummary` is the hook with its controllers: `Reset` is the effect keyed
on the input, `Generate` the button, and a request ends as `Answered`, `Failed` or `Dropped`,
each with the `finally` block. The refinement maps the input to `question` and the input of the
displayed summary to `shown`.

`DscanParse` gives each column of a line its category. The code looks names up in plain objects, so besides the table's names
there are those that every JavaScript object has; a line that matches one counts as a ship, of the category `inherited` that no
row lists. Pilots name their ships freely, so such lines are input like any other.

`Scanner` puts a panel around it. `kind` says which of the three it is: the D-scan panel
parses its text at every render (`ParseDscan`), the other two send it (`ScanClick`, or `DebounceFires` of
the timer in the local panel) and show whatever answer comes last. `ShareButton` builds its payload at the
click (`Publish`), and lives only as long as the result it stands under (`ShareUnmounts`). `shares` are the rows
of `shared_reports`.

### IntelBoard

`clock` is the time, `now` the reading the panel last rendered with. `Paste` is `handlePaste` whole: parse,
apply every entry, ask about the pilots, tell the map. `TellMap` is the effect that hands the rows to
`ConstellationMap`; it runs whenever the panel renders, also when `Elapse` fires the interval.
`Leave` and `Return` are the change of tab on a phone, which unmounts the panel and keeps the map's copy.
`fired` is `notifiedRef`, which CLEAR and a new mount empty. `notices` is the history of what was notified, which
nothing empties, and `starts` says after how many notices the panel started empty; `heard`, `removed` and `asks` are history too. The rows
are a set: the order in which the table lists them matters to nothing here.

### SystemView and Dashboard

`SystemView` holds, place by place, how the dashboard classifies a system: the cards, the badges
of the table, colour, rings and tooltip of the map, the plan's score and the marks of the trends. Each is
translated from its own code. `Placed` are the systems that the map's layout has a place for. The campaigns of an answer
are a list, unsorted as the API gives it, because the map's ring takes the first campaign listed at a system.

`Dashboard` is `App.fetchData` and what follows from it. A fetch carries the data of the moment it leaves
and comes in later (`FetchSucceeds`) or not at all (`FetchFails`); `Poll` and `Refresh` start more. Success runs
`CheckAndNotify`, which compares with `prev`, the answer before. `World[t]` is what the server says from time `t` on.
Panels that follow the region ask on every change of it and after every fetch that succeeds, and show what
comes last. `posture` is the kind of deployment: with sovereignty, as a guest, or without a home.
`fired` counts how often each alert was raised and `met` holds the campaigns the page has been told of, both history.

### Auth, WriteBoards, SharePage, AnalyticsPage and Access

Each component that uses `useAuth` asks for itself and keeps its own answer (`view[h]`), so `Auth` has one
per hook. The session lives on the server and changes elsewhere, by another tab or by the membership check.
`WriteBoards` has the input, the checks and the writes of every board, and the password they share in
local storage. `SharePage` separates the headers of an answer from its body, because the code looks whether it
was cancelled only before the first. `AnalyticsPage` separates the draft from the credential it loads with. `Access`
shows one of the three pages; `wire`, `submitted`, `spent`, `given`, `came` and `by` are history.

## Runs

All runs pass.

| Run | Instance | Question | States |
|---|---|---|---|
| `lease` | 3 processes, interval 2, TTL 4, lock wait 1 | mutual exclusion of grants; polling goes on as long as one process stays up | 8 215 |
| `ingest` | 2 processes, 3 kills (one late), pages of 1, at most 2 pages, window 1..3, 6 instants | cursor backed by the ledger; no prompt kill stepped over | 1.8 million |
| `roster` | 2 processes, 3 threads, 2 alliances, 3 killmails, 2 edits, 2 handlers at a time, 1 row | settled rows agree with ingest | 2.8 million |
| `esi` | 1 process, 2 threads, 3 keys in a cache of 2, budget 3, floor 1, 1 repeat, window 2 | the cache keeps its size and its promises of age; the pause holds | 1.4 million |
| `snapshots` | 2 processes, 2 readings, interval 2, poll 1, lock wait 1 | equal samples apart; no gap beyond the bound while a process is undisturbed | 0.9 million |
| `sov` | 2 processes, 3 threads, 2 systems, 2 alliances, 2 changes, log of 2, time to live 2 | the log is one history per system, and of recent holders | 3.2 million |
| `scanner` | a blank box and 2 texts, 2 AI requests, 2 scans, 2 shares, each kind of panel | one live request; summaries match; links and banners say what is so; refinement of `LatestAnswer` | 1.0 million |
| `intel` | 2 systems, 4 messages, 2 pilots, 3 lines pasted, clock of 3, interval 2 | newest report per system, one notice between two starts, fresh rings, one lookup | 4.0 million |
| `entosis` | 2 pages, 1 campaign, 2 writes one at a time, 2 and 1 reads in flight, 1 change of the campaigns | an unclaimed node is free; each node is drawn once; boards converge | 0.4 million |
| `dashboard` | 5 systems, one without a place on the map, 3 campaigns, two of them in one system, 3 kinds of deployment, a day of 3 instants, 2 fetches in flight, 1 feed panel | nodes once, no campaign silently; one story; never blank; the page heals | 0.4 million |
| `access` | a board, a report and the statistics page, 2 turns of the session, 2 typings, 3 page loads, 2 queries | what is sent, remembered and shown is what was submitted, is right and is current | 2.1 million |
| `war_page` | 2 processes, 2 ranges, memo of 2, reads of at most 1, 2 edits, 2 clicks, 2 feed requests | served aggregates are recent; an editor sees the edit; the feed follows its filter | 0.4 million |

**Bounds.** `lease`: three processes are a holder, its successor, and a rival; a lock
wait of one tick makes readings stale, and the TTL of two intervals is the
code's. `ingest`: with pages of one kill and two pages per cycle, three kills
suffice to end a walk in each way: short page, cursor, cap. The window's
floor, ceiling and the range between are all reached; six instants let a kill
age out of it. Workers are interchangeable there, so the run uses symmetry (it
checks invariants only). Once `now` has reached `MaxTime` the timers still run,
so leases expire and cycles overlap at the end of the history too. `roster`: a
majority, a tie and a structure among the attackers each decide differently;
kills do not interact, so one row at a time loses nothing, and two edits are an edit and its
undoing, or two concurrent ones. Two busy threads are every pair of handlers that
can overlap. `esi`: three keys overflow the cache with entries that are fresh,
expired and tied; a window of two lets an answer of the last window
be noted after one of this. Processes share only ESI's budget, which none of the run's
properties relates to another process, so one process is enough; the theorems
hold for any number.

`snapshots`: samples older than
seven ticks are forgotten, which is beyond the bound of `NoGap` (five; at four it
fails, so the bound is exact there). Two processes are enough for a marker set on
behalf of another's row. `sov`: two threads of one process overwrite each other's answer, the third
has a cache of another age. Two changes make holders that come back; older maps recorded
late make the log longer than `SovMax`, so it is trimmed.

`scanner`: with two texts besides the blank box a request is for the text before, the text now, or a text
that was left and come back to; two requests, scans and shares are one that is late and one that
overtakes it. The two D-scans hold ships of several tiers, a super below a tackle frigate, a ship with an inherited name, and none at all; `SharesMatch` and
`ScannerImplementsLatest` hold for any texts. `intel`: the two systems share a prefix, so that an
abbreviation is ambiguous, and one is a gate; three lines are an older, a newer and a repeated one, also on both sides of CLEAR or of a new mount; three steps of the clock are
an interval, a report that expires, and the tick that shows it. Two steps of one interval let a report
expire between two renderings. `entosis`: one write in flight is enough for a late one, because boards are as old as
their reads; two reads in flight overtake one another on one page while the other page is behind. Two
writes are a claim and what is undone by it. The table may hold a node before the pages open, so both writes
can be about one. `dashboard`: the day crosses ADM 2.0, spawns the nodes of a campaign, loses the system, starts
another campaign, and lists a reinforced campaign before the active one of the same system, so that a fetch of each instant tells another story than the next; two
fetches overlap in either order. Both panels that follow the region run the same code, so one stands for both.
`access`: boards interact only through what is remembered, and a password may come with the page that
no board of it ever typed, so one board is enough for `RememberedWorks`; two turns of the session
go there and back, and each makes the report load again, hence three loads. `war_page`: two edits are a ruling and its undoing; one load at a time suffices
for what the memos do, since a load's read may be in progress in one process while the edit is served by it or by
another; with two loads in flight `ServedRecent` holds too, but the run takes longer than is useful.

Runs over bounded histories (all but the first six) say `CHECK_DEADLOCK FALSE`: a visitor who
has used up the bounded clicks, with every answer in, has nothing left to do.

**Fairness.** Liveness is claimed where the code has something that fires by itself.

* `lease`. Sleeping threads wake, readings are taken, claims
  time out and cycles end: weak fairness of `Tick`, `ReadClock`, `ClaimTimesOut`,
  `EndCycle` (every request has a timeout, and a cycle has finitely many). `Claim`
  gets strong fairness: a waiting claim may time out each time some other
  transaction holds the lock, but every transaction of this program is a few
  statements long. There is no fairness for `Boot` and `Crash`. `PollingGoesOn` assumes
  one process that stays up, not that any given one does.
* `entosis`. `setInterval` of an open page keeps firing: weak fairness of `FetchNodes`. A browser settles every
  request, and of the reads sent over and over not every one fails or is overtaken forever: strong fairness of receiving the oldest
  answer. Nothing is assumed of writes, of buttons or of ESI.
* `dashboard`. The same for `Poll`, for the success of the oldest fetch and for the answer of the oldest feed request. `Refresh` and all
  choices are free.
* `war_page`. The same for `PollFeed` and its oldest answer. Page loads have no poll, so nothing is
  claimed of them.

**Mutants.** For each property a definition `Mut...` next to the
one it changes is a plausible slip of the code that the property catches: a
boundary comparison, a sign, a swallowed exception, a forgotten reload, an effect keyed on the wrong
value, a missing look at whether the page has moved on.

## Known behaviours

Things the code does that the properties are worded around. None of them contradicts a promise some run
checks.

*War.*
The flag `saturated` is written anew each cycle (`routes/war_poller.py` 111): after a capped walk the next one is
short, and the flag goes down with the gap still there.
`fetch_pages` stops at the cursor on a full page (`war_ingest.py` 143), so the overlap the window asks for is
walked only in quiet regions, and a kill listed late in a busy one is not fetched.
A row without pilot counts keeps its current `killer_side` when ambiguous (`db.py` 1809), not the one ingest
decided, so an edit in between is permanent.
Rows do not keep the corporations of attackers, so rulings on corporations stop at ingest. A neutral ruling on a
corporation makes it follow its alliance again (`wars/__init__.py` 121-125). Rows beyond forty attacking alliances cannot
be recomputed exactly. The backfill classifies without the overrides.
The lease is not renewed within a cycle, so a cycle longer than its TTL lets a second worker poll (exclusion
holds for grants, `LeaseExclusive`, and not for cycles); nothing is lost by it, as `ingest` allows it.

*War page.*
A read in progress when a process clears its memo puts an older value back (`OwnEditSeen` excludes it, `ServedRecent` bounds it).
The load after an edit uses the range of the click, and a late load overwrites that of a newer range.
The page says that no war is configured when the list of wars could not be had.
One `rosterBusy` serves all edits.

*ESI and samples.*
The pause is looked at before a request, not between urllib3's repeats, and armed by noted answers only, so requests that are past
it go on spending the budget.
A failed write of samples leaves the markers, so it is retried after `SNAPSHOT_INTERVAL`; an ADM that moves is sampled more often
than once an interval, as the docstring says.
A process with an older map logs a change of sovereignty backwards, and the next one logs it again: the log is consistent in
itself (`LogChained`) and names no holder from longer ago than caches keep (`LogRecent`), but a change may be in it more than once.

*Scanners.*
A change of the text while a summary is being generated aborts the request and forgets its controller, so the `finally` block does
not find itself active and `generating` stays on (`utils/useAiSummary.js` 20).
A local scan's summary may stay over results of an older text, and be shared with them; `SharedSummaryMatches` is about D-scans.
CLEAR on an empty box runs no effect, so a summary stays. A pilot or ship named like a group is classed by its name, and one
named like a member of every object (`constructor`, `toString`) counts as a ship that no row shows, whatever its type
(`DscanParser.jsx` 236): the banner then says at least MINIMAL, and the rows add up to fewer ships than it counts.

*Intel channel.*
Leaving the tab on a phone unmounts the panel: the board is lost and the rings of the map no longer expire.
A failed lookup leaves its marks, so a pilot is not asked about again until CLEAR. CLEAR and a new mount forget what was notified
too, so a report pasted again after one is announced again (`IntelChannelParser.jsx` 336). A name that one paste holds twice may stand twice
in the one request for it; `AskedOnce` counts requests, not the names in them.

*Entosis.*
The server checks no transition. A late CLAIM revives a captured node, RUNNING sent for an unclaimed one leaves it running
without a pilot, and a second, late RELEASE takes another pilot's claim away. The answer of an add closes whichever form is open by
then; a lost one leaves the form, and a second click adds a second node. The page notifies without
`holdsSov`, and with no activity at all when that read failed.

*Dashboard.*
A fetch that overtakes another is compared with it in the wrong order, which can announce a campaign twice; what
`AlertsOnce` promises is that the nodes of a campaign are announced once and no campaign comes silently.
A first fetch that fails after a poll succeeded shows CONNECTION FAILED until the next success. The kill feed may show a region
that was left until its next poll. The tooltip of the map speaks of grinding to guests too (`ConstellationMap.jsx` 697-706).
Of several campaigns in a system the map's ring and tooltip tell the one listed first (`ConstellationMap.jsx` 523, 710): nodes that are
out behind a reinforced campaign make the card red and leave the ring amber. `OneStory` therefore asks that a ring tells the phase of
a campaign that is there, and that a red ring never stands beside a card that is not red.

*Sessions and passwords.*
A write of a board carries what its input holds at that moment. A check answered after a logout logs in again. A read-only board with
rows offers no login in password mode. A failed `/me` counts as no single sign-on. `RememberedWorks` is about the boards: the page of a war, without
single sign-on, stores its password once an edit was accepted (`pages/WarPage.jsx` 167), which is not modelled. The body of a shared report that arrives after a
logout is still shown. Statistics that arrive after LOCK are shown, and set `analytics_seen` again.

## Proofs

Every invariant and every safety property that a run checks is also a theorem
about the specification itself, for all values of its constants: any set of
workers, threads, pages, systems, pilots and texts, any interval, wait, page
size, window or bound. `PROJECT.json` pairs each theorem with its property.

What is assumed is what the modules declare in their `ASSUME`s: that sizes and
times are natural numbers, that the values standing for "none" are not data,
that the systems are finitely many (`SovAssumption`, `ViewAssumption`,
`IntelAssumption`), that a text is a sequence of lines of columns
(`ScannerAssumption`), and that an answer names campaigns the configuration knows
and gives each system an owner and an ADM between 0 and 6 (`IsAnswer`; `routes/sov_routes.py`
drops campaigns elsewhere). Three theorems say more in their own hypotheses, given below.

A property is seldom inductive. The strengthening of each, and why it is needed:

* **Lease.** `LeaseTyping` is inductive by itself. Mutual exclusion is not: that two
  workers do not hold at once follows from the row's saying who does.
  `GrantIsRow` is that strengthening. Its one interesting case is `Claim`: if another
  worker still holds, the row is its own and its remaining time is at least 0,
  while `Takeable` needs it to be below `-age`; a reading of the past is only ever
  stricter. `LeaseMutualExclusion` follows.
* **Ingest.** Each step is a step of `WarLease` or stutters on it
  (`IngestStepIsLeaseStep`), so `IngestSpec => LeaseSpec` (`IngestKeepsLease`), and
  mutual exclusion carries over. `CursorBacked` is not inductive because a cycle
  carries the next cursor in its local variables; `IngestInv` adds that
  each walk starts from a stored kill, holds only listed kills, and has stored
  them before it advances. `PromptKillsAreKept` needs far more of a walk (`LossInv`): a prompt kill
  that is missing is newer than everything stored (`NewestMissing`), and each worker's walk is
  complete so far (`WalkComplete`): its window reaches every missing kill (`InReach`), it has the kills of the pages
  it has asked for (`PagesSoFar`), and when it ends it lacks only kills newer than all of its own, or older ones if it met the page
  cap (`Collected`). The hard step is a page, because kills published since the page before have
  shifted the list: they can only repeat what was seen, never hide what was not.
* **Classification and roster.** `RecomputationExact`: for kills of at most `MaxStored` alliances whose
  attackers' own corporations are not listed, the recomputed killer side is the one ingest
  computes. Both hypotheses are needed: a stored row keeps neither the corporations of attackers nor
  more than `MaxStored` alliances. `LedgerStaysInStep` builds on it. Its `RosterInv` says of every task that no
  change has overtaken that it works with the rulings of now (`SeesRulings`, `UsesRulings`), that the row it is about to
  insert is the right one (`KillReady`), and that what it is about to update, together with every row that came into the
  ledger since it selected, is right (`RowsReady`). Its hypotheses exclude the two hazards above: no kill of
  too many alliances, no attackers' corporation on the module's lists (`KeptWhole`), and no edit of one (`[]SparesAttackers`).
  Edits of alliances and of victims' corporations are unrestricted.
* **Entosis.** `UnclaimedStaysFree` follows from a property of single rows and single writes (`SoundRow`, `SoundCall`): it holds of
  every copy of a row anywhere, in the table, on a page or in an answer on its way, and of every write
  that is on its way, so the order in which they arrive does not matter. `EveryNodeHasOneCard` is a fact about how
  `Panels` groups any nodes by any campaigns, except that a node lies in a system of its campaign, which is in `SoundRow` too.
* **ESI client.** `CacheStaysBounded` is inductive given the types; its one lemma, `RoomForOne`, is
  that pruning a cache of at most `MaxCache` entries leaves room for one. `PauseHonoured`
  needs `PauseInv`: a warned process pauses at least to the end of the window, and an
  answer of this window still knows how long it lasts. `Note` keeps it because `Armed` never
  shortens a pause. `AnswersAreFresh` needs `FreshInv`: the age and the time left of an
  unexpired entry add up to at most its time to live and the answer's way.
* **Dashboard.** `AlertsComeOnce` rests on the clock, since answers come in any order: that nodes are out is said when
  an answer is compared at a time at which the campaign has begun with one that was compared when it had not, and the
  clock does not run back (`NodesSaid`); that nothing comes silently needs `LastIsShown`, the answer remembered for comparison is
  the one displayed. `PlacesTellOneStory` is about one answer only (`AnswerIsOneStory`): for any of them, the five
  classifications agree; that the first listed campaign of a system is there when any is (`CampaignRings`) uses a least index. `SomethingShows` is a case analysis over flags, screens and tabs.
* **Samples.** `SamplesApart` is inductive given the types: the guard looks back `Interval`
  from before the wait, so at least `Interval` from when the row is stamped, however
  long it waited, and what it does not see is farther away than that. No property of
  the markers is needed, as `db.py` 382-383 says. `NoGapHolds` does need them: `RecentEnough` bounds, by where a process is in its cycle and
  what its marker says, how old the newest sample can be by now. Its hypothesis `BusyTimeout < Interval` is the code's
  (five seconds against an hour, `db.py` 31 and 41), and without it the bound is false.
* **Change log.** `LogStaysRecent` rests on `RecentInv`: an answer is as old as its way, a
  cached map as old as its expiry says and that way, a map about to be recorded as
  old as both and its own way. `LogStaysChained` needs no ages: that the log continues from the stored
  map (`Continues`, `IsLatest`, `Chained`) survives a batch of appended rows, in any order, because a batch has at most one row
  of a system, and survives trimming, because that takes the oldest.
* **War page.** `PageInv` says of entries of the memo what the two properties say of answers, and says it also of reads in progress,
  since a read becomes an entry whatever happened meanwhile: the version under it has been superseded for no longer than
  it is old (`Recent`), and is not older than the last edit its process served, unless a read raced the clear (`Own`).
* **AI summary.** Why no late answer surfaces is `OneLiveRequest`: the only request that has not been aborted is the
  active one, and it was made for the text still in the box. It is inductive given the types (`AiOneLive`). With it each action is a step of
  `LatestAnswer`: `Reset` is `Ask`, `Generate` is `Forget`, `Answered` is `Answer`, the rest stutter (`AiImplementsLatest`).
* **Scanner.** Each step of the panels is a step of the hook or leaves it alone (`ScannerKeepsAi`), so the refinement
  carries over (`ScannerImplementsLatest`). `SharesMatch` needs that the summary on display was given for the parse of the text it was asked
  under, and that publishes in flight match already when they leave. `LabelIsTrue` needs only that the link on display is of a stored row (`LabelInv`),
  since label and link change together, when an answer comes.
  `BannerIsRight` is a fact about `ParseDscan`: its counts are sizes of sets of lines, the sum of the rows and of the lines of no row is the
  size of their union, and the table of tiers is gone through case by case.
* **Intel channel.** `IntelInv` has three parts. `BoardInv`: each row is the newest entry among those heard since the row was removed
  (`NewestIn`), and board and notices belong together (`Told`); a paste is a fold over any number of lines, and keeps both line by
  line (`AppliedFold`). For notices `Told` says that `fired` is what was notified since the last start, each report once, so a report notified twice
  has a start in between (`NoticeLog`). `ClockInv`: while the panel is on the page, its reading of the clock and the time to its next tick add
  up, which bounds how long an expired ring stays. `AlertInv`: the map's copy is what the panel last rendered. `PilotsAskedOnce`
  needs that whoever was asked about is marked.
* **Sessions and pages.** `NothingHalfTypedHolds` needs that what the statistics page asks with was given (`GivenInv`).
  `RememberedWorks` is inductive by itself. `StatusStaysCurrent` is inductive given the types (`ShareInv`), and that an answer taken off the list
  leaves the other loads on it.

Only model-checked are the four liveness properties, `PollingGoesOn`, `BoardsConverge`, `PageHeals` and `FeedFollows`: they
rest on fairness, of which the prover does not reason. TLC also checks the theorems' properties, and each against a mutant, which
shows that none holds whatever the code does. Facts about all lines of a paste or all rows of a batch are proved by induction
over a set of numbers of lines; that is possible because these operators are folds. The conversions the models abstract
(time stamps, link markup, the category table's names) are not part of either.

## Limits of the models

One war and one region; a region that fails does not stop the next one in
the code, which the model shows as the end of the cycle. Two kills of one second
are one kill. Rows written by a task that overlapped a change of the
roster, and entities whose last edit failed half way, are excluded from
`LedgerFollowsRoster` (`raced`, `unsettled`); the code makes no attempt to get those
right. The roster's rows have their pilot counts and its rulings are on alliances.

In the frontend a render follows its state at once, as React's batching makes it look from outside; two requests of one panel are told apart, two
renders are not. A page that is closed is not modelled, since nothing of it survives but what is in local storage. One user types per
page. Answers carry only what a property tells apart: a shared report is there or not, a timer board has rows or not.

## Not modelled

* *Name repair and pruning; the backfill tool.* One UPDATE, one DELETE and a loop of inserts run by hand; within each nothing
  interleaves. They do not take part in `ledger`, which only grows.
* *Analytics buffer.* Counting, and taking what was counted, hold one lock, so a hit is in one batch only; a failing write, or a worker
  that ends, loses what it holds, which the code accepts. After the last request of an evening counts wait for the poller's next cycle, longer
  than `FLUSH_INTERVAL_SECONDS`, and a summary misses what another worker, or the poller at that moment, has not written yet.
* *Membership recheck.* One function over one copy of the session; what the browser makes of a changing session is in `Access`. Every answer to a
  permanent session sets its cookie, so one that was on its way during a logout logs in again. A pilot who logs in while ESI fails is stamped
  unauthorized (`routes/auth_sso.py` 97-98) until the next login.
* *Lockout counter.* The counter is a library's. Attempts in progress test it before any of them is counted, so a window can see as many wrong guesses more
  than its limit as there are other requests that share the storage; by default each worker has its own.
* *Timers, annotations, jump bridges.* Single statements on independent rows. Their boards are in `WriteBoards`; the map's annotation editor, a
  form over one row, which opens again with the old text if a save fails, is left out.
* *Several keys per ESI getter* (`bulk_resolve_names` and the like), and `resolve_constellation_name`, which caches what another getter had cached.
* *Intel, hostile, zKill, AI, read and history routes.* They reformat answers. The one answer kept by the neighbour route is replaced as a whole.
* *Shell, deployments, war definitions, tools, scripts, demo server.* Start-up configuration, data, and things run by hand.
* *Planetary, regional and neighbour intel, charts, sparklines, formats.* Panels that fetch once and draw; no order of events to vary.

What would come next: the copies of the session cookie, and the buffer of the analytics with a crash between clearing and
writing; abstract specifications beside `LatestAnswer`, of the board of newest reports and of the sampled history, for the
detailed ones to implement; rulings on corporations once rows keep those of the attackers.
