------------------------------- MODULE WarPage -------------------------------
(***************************************************************************)
(* The page of a war (pages/WarPage.jsx) and the memo of the processes it  *)
(* reads from (routes/war_routes.py): aggregates of the ledger that each   *)
(* process keeps for a minute and forgets when it serves an edit itself,   *)
(* the edits of the roster made from the page, and the kill feed with its  *)
(* own filter and polls.                                                   *)
(*                                                                         *)
(* The roster of one alliance stands for the ledger: version n of it is    *)
(* what it was after n edits.  The five memoized reads of a page load are  *)
(* one read, and so are the two that are computed afresh.                  *)
(***************************************************************************)
EXTENDS Integers, SequencesExt, FiniteSetsExt

CONSTANTS Procs, Ranges, Filters, Sides, Passwords,
          FirstRange, AnyKill, None,
          Memo,         \* MEMO_SECONDS
          MaxRead,      \* bound: how long a read, or an edit, takes
          MaxEdits, MaxLoads, MaxFeeds,  \* bounds: edits; loads, feeds in flight
          MaxClicks     \* bound: what the visitor chooses and types

ASSUME WarPageAssumption ==
    /\ FirstRange \in Ranges /\ AnyKill \in Filters
    /\ Memo \in Nat \ {0} /\ MaxRead \in Nat /\ MaxEdits \in Nat
    /\ None \notin Sides \union Filters
    /\ Procs \intersect {"sent", "done"} = {}     \* where an edit may be

VARIABLES rulings,      \* what was ruled of the alliance, the last ruling last
          gone,         \* gone[v]: how long version v has been superseded
          memo,         \* memo[p][d]: None or [age, v]
          wars,         \* the list of wars: "asked", "listed", "none", "failed"
          days, loads, shown, loading, error,
          password, stored, edit, busy, rosterError,
          filter, feeds, feed,
          clicks,
          floor,        \* history: the version after the last edit p served
          raced         \* history: a read was in progress in p when it cleared

historyVars == <<floor, raced>>
serverVars == <<rulings, gone, memo, historyVars>>
loadVars == <<wars, loads, shown, loading, error>>
editVars == <<stored, edit, busy, rosterError>>
feedVars == <<feeds, feed>>
inputVars == <<days, password, filter, clicks>>
vars == <<serverVars, loadVars, editVars, feedVars, inputVars>>

Version == Len(rulings)
MaxGone == IF Memo > MaxRead THEN Memo ELSE MaxRead + 1

\* The override of version v: none before the first edit and after an undo.
Override(v) == IF v = 0 THEN "undone" ELSE rulings[v]

\* get_war_unclassified suggests whom nobody has judged; the panel of edits
\* lists the overrides.
Suggested(v) == Override(v) = "undone"
Listed(v) == Override(v) # "undone"

WarInit ==
    /\ rulings = <<>> /\ gone = [v \in 0..MaxEdits |-> 0]
    /\ memo = [p \in Procs |-> [d \in Ranges |-> None]]
    /\ floor = [p \in Procs |-> 0] /\ raced = [p \in Procs |-> FALSE]
    /\ wars = "asked" /\ days = FirstRange /\ loads = <<>> /\ shown = None
    /\ loading = TRUE /\ error = FALSE
    /\ stored \in {""} \union Passwords /\ password = stored
    /\ edit = None /\ busy = FALSE /\ rosterError = FALSE
    /\ filter = AnyKill /\ feeds = <<>> /\ feed = None /\ clicks = 0

\* Nothing takes longer than MaxRead.
Tick ==
    /\ \A i \in DOMAIN loads : loads[i].read # None => loads[i].read.age < MaxRead
    /\ gone' = [v \in 0..MaxEdits |-> IF v < Version /\ gone[v] < MaxGone THEN gone[v] + 1 ELSE gone[v]]
    /\ memo' = [p \in Procs |-> [d \in Ranges |->
                   IF memo[p][d] = None \/ memo[p][d].age >= Memo - 1 THEN None
                   ELSE [memo[p][d] EXCEPT !.age = @ + 1]]]
    /\ loads' = [i \in DOMAIN loads |->
                   IF loads[i].read = None THEN loads[i] ELSE [loads[i] EXCEPT !.read.age = @ + 1]]
    /\ UNCHANGED <<rulings, historyVars, wars, shown, loading, error, editVars, feedVars, inputVars>>
-----------------------------------------------------------------------------
\* load() of the range d, after an edit or not.
LoadOf(d, edited) ==
    [days |-> d, edited |-> edited, read |-> None, sums |-> None, roster |-> None]

Send(d, edited) == Len(loads) < MaxLoads /\ loads' = Append(loads, LoadOf(d, edited))
SendFeed(f) == Len(feeds) < MaxFeeds /\ feeds' = Append(feeds, f)

\* /api/wars: with a war the page loads it and its feed, with none, or with
\* an error, it is done loading.
WarsAnswer(result) ==
    /\ wars = "asked" /\ wars' = result
    /\ IF result = "listed"
       THEN Send(days, FALSE) /\ SendFeed(filter) /\ UNCHANGED <<loading, error>>
       ELSE loading' = FALSE /\ error' = (result = "failed") /\ UNCHANGED <<loads, feeds>>
    /\ UNCHANGED <<serverVars, shown, editVars, feed, inputVars>>

Click == wars = "listed" /\ clicks < MaxClicks /\ clicks' = clicks + 1

Refresh ==
    /\ Click /\ Send(days, FALSE)
    /\ UNCHANGED <<serverVars, wars, shown, loading, error, editVars, feedVars, days, password, filter>>

ChooseRange(d) ==
    /\ Click /\ d # days /\ days' = d /\ Send(d, FALSE)
    /\ UNCHANGED <<serverVars, wars, shown, loading, error, editVars, feedVars, password, filter>>

\* _memoized: a hit answers; a miss starts to compute from what is stored.
Lookup(i, p) ==
    LET hit == memo[p][loads[i].days]
    IN  /\ loads[i].sums = None /\ loads[i].read = None
        /\ loads' = IF hit = None
                    THEN [loads EXCEPT ![i].read = [proc |-> p, v |-> Version, age |-> 0]]
                    ELSE [loads EXCEPT ![i].sums = [v |-> hit.v, stale |-> gone[hit.v]]]
        /\ UNCHANGED <<serverVars, wars, shown, loading, error, editVars, feedVars, inputVars>>

\* Mutant of Computed: the entry is stamped when the computation is done.
MutComputed(i) ==
    LET r == loads[i].read
    IN  /\ r # None
        /\ memo' = [memo EXCEPT ![r.proc][loads[i].days] = [age |-> 0, v |-> r.v]]
        /\ loads' = [loads EXCEPT ![i].read = None, ![i].sums = [v |-> r.v, stale |-> gone[r.v]]]
        /\ UNCHANGED <<rulings, gone, historyVars, wars, shown, loading, error, editVars, feedVars, inputVars>>

\* The value is kept, stamped with the time of the lookup, even if an edit
\* cleared the memo meanwhile.
Computed(i) ==
    LET r == loads[i].read
    IN  /\ r # None
        /\ memo' = [memo EXCEPT ![r.proc][loads[i].days] =
                      IF r.age < Memo THEN [age |-> r.age, v |-> r.v] ELSE None]
        /\ loads' = [loads EXCEPT ![i].read = None, ![i].sums = [v |-> r.v, stale |-> gone[r.v]]]
        /\ UNCHANGED <<rulings, gone, historyVars, wars, shown, loading, error, editVars, feedVars, inputVars>>

ServeRoster(i) ==
    /\ loads[i].roster = None
    /\ loads' = [loads EXCEPT ![i].roster = Version]
    /\ UNCHANGED <<serverVars, wars, shown, loading, error, editVars, feedVars, inputVars>>

\* A read that fails is an answer without data.
ReadFails(i) ==
    /\ \/ loads[i].sums = None /\ loads' = [loads EXCEPT ![i].sums = [v |-> -1, stale |-> 0], ![i].read = None]
       \/ loads[i].roster = None /\ loads' = [loads EXCEPT ![i].roster = -1]
    /\ UNCHANGED <<serverVars, wars, shown, loading, error, editVars, feedVars, inputVars>>

\* All the answers of a load are shown together, whichever load was sent last.
ShowLoad(i) ==
    LET l == loads[i]
    IN  /\ l.sums # None /\ l.roster # None
        /\ loads' = RemoveAt(loads, i)
        /\ shown' = [days |-> l.days, sums |-> l.sums.v, roster |-> l.roster]
        /\ loading' = FALSE /\ error' = (l.sums.v = -1)
        /\ busy' = (busy /\ ~l.edited)
        /\ UNCHANGED <<serverVars, wars, stored, edit, rosterError, feedVars, inputVars>>
-----------------------------------------------------------------------------
\* The password is typed when it will not do.
TypePassword(w) ==
    /\ Click /\ w # password /\ password' = w
    /\ UNCHANGED <<serverVars, loadVars, editVars, feedVars, days, filter>>

\* assignSide on a suggestion, undoOverride on an edit; both keep the range
\* of the click for the load that follows.
BeginEdit(ruling) ==
    /\ Click /\ shown # None /\ ~busy /\ Version < MaxEdits
    /\ IF ruling = "undone" THEN shown.roster # -1 /\ Listed(shown.roster)
                            ELSE shown.sums # -1 /\ Suggested(shown.sums)
    /\ edit' = [ruling |-> ruling, password |-> password, days |-> days, at |-> "sent"]
    /\ busy' = TRUE /\ rosterError' = FALSE
    /\ UNCHANGED <<serverVars, loadVars, stored, feedVars, days, password, filter>>

\* The override is written and history reclassified; a process serves it.
CommitEdit(p) ==
    /\ edit # None /\ edit.at = "sent" /\ edit.password = "right"
    /\ rulings' = Append(rulings, edit.ruling)
    /\ edit' = [edit EXCEPT !.at = p]
    /\ UNCHANGED <<gone, memo, historyVars, loadVars, stored, busy, rosterError, feedVars, inputVars>>

Cleared(p) ==
    /\ floor' = [floor EXCEPT ![p] = Version]
    /\ raced' = [raced EXCEPT ![p] =
                   @ \/ \E i \in DOMAIN loads : loads[i].read # None /\ loads[i].read.proc = p]

\* Mutant of EndEdit: the process keeps its memo.
MutEndEdit(p) ==
    /\ edit # None /\ edit.at = p
    /\ edit' = [edit EXCEPT !.at = "done"] /\ Cleared(p)
    /\ UNCHANGED <<rulings, gone, memo, loadVars, stored, busy, rosterError, feedVars, inputVars>>

\* That process forgets its memo and answers.
EndEdit(p) ==
    /\ edit # None /\ edit.at = p
    /\ memo' = [memo EXCEPT ![p] = [d \in Ranges |-> None]]
    /\ edit' = [edit EXCEPT !.at = "done"] /\ Cleared(p)
    /\ UNCHANGED <<rulings, gone, loadVars, stored, busy, rosterError, feedVars, inputVars>>

\* The page remembers the password of an assignment that was accepted, and
\* loads.
EditShown ==
    /\ edit # None /\ edit.at = "done"
    /\ stored' = IF edit.ruling = "undone" THEN stored ELSE edit.password
    /\ Send(edit.days, TRUE) /\ edit' = None
    /\ UNCHANGED <<serverVars, wars, shown, loading, error, busy, rosterError, feedVars, inputVars>>

\* Refused, lost on its way there or back, or the process failed between the
\* override and the end: the page cannot tell.
EditFails ==
    /\ edit # None
    /\ edit' = None /\ busy' = FALSE /\ rosterError' = TRUE
    /\ UNCHANGED <<serverVars, loadVars, stored, feedVars, inputVars>>
-----------------------------------------------------------------------------
ChooseFilter(f) ==
    /\ Click /\ f # filter /\ filter' = f /\ SendFeed(f)
    /\ UNCHANGED <<serverVars, loadVars, editVars, feed, days, password>>

\* Mutant of PollFeed: the interval keeps the filter it was started with.
MutPollFeed ==
    /\ wars = "listed" /\ SendFeed(AnyKill)
    /\ UNCHANGED <<serverVars, loadVars, editVars, feed, inputVars>>

\* Every minute, with the filter of that minute.
PollFeed ==
    /\ wars = "listed" /\ SendFeed(filter)
    /\ UNCHANGED <<serverVars, loadVars, editVars, feed, inputVars>>

FeedAnswers(i) ==
    /\ feed' = feeds[i] /\ feeds' = RemoveAt(feeds, i)
    /\ UNCHANGED <<serverVars, loadVars, editVars, inputVars>>

\* A failing read empties the feed.
FeedFails(i) ==
    /\ feed' = None /\ feeds' = RemoveAt(feeds, i)
    /\ UNCHANGED <<serverVars, loadVars, editVars, inputVars>>

WarNext ==
    \/ Tick \/ Refresh \/ EditShown \/ EditFails \/ PollFeed
    \/ \E r \in {"listed", "none", "failed"} : WarsAnswer(r)
    \/ \E d \in Ranges : ChooseRange(d)
    \/ \E i \in DOMAIN loads :
          \/ ServeRoster(i) \/ Computed(i) \/ ReadFails(i) \/ ShowLoad(i)
          \/ \E p \in Procs : Lookup(i, p)
    \/ \E w \in Passwords : TypePassword(w)
    \/ \E r \in Sides \union {"undone"} : BeginEdit(r)
    \/ \E p \in Procs : CommitEdit(p) \/ EndEdit(p)
    \/ \E f \in Filters : ChooseFilter(f)
    \/ \E i \in DOMAIN feeds : FeedAnswers(i) \/ FeedFails(i)

\* The poll goes on, and not every answer of the feed is lost.
Fairness == WF_vars(PollFeed) /\ SF_vars(feeds # <<>> /\ FeedAnswers(1))

WarSpec == WarInit /\ [][WarNext]_vars /\ Fairness
-----------------------------------------------------------------------------
\* Wherever an aggregate was served from, and whatever edits and clearings
\* crossed its computation, the roster under it was in force less than a
\* minute, or the time of one computation, before it was served.
ServedRecent ==
    \A i \in DOMAIN loads : loads[i].sums # None =>
        loads[i].sums.stale < Memo \/ loads[i].sums.stale <= MaxRead

\* A process that served an edit answers with the roster of that edit or a
\* later one from then on, unless a read was in progress when it forgot its
\* memo, which may put an older value back.
OwnEditSeen ==
    \A p \in Procs, d \in Ranges :
        memo[p][d] # None /\ ~raced[p] => memo[p][d].v >= floor[p]

\* Once the list of wars is there the feed keeps coming back to the filter
\* that is chosen, however late the answers of another filter arrive.
FeedFollows == [](wars = "listed" => <>(feed = filter))
=============================================================================
