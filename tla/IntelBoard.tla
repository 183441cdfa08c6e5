----------------------------- MODULE IntelBoard -----------------------------
(***************************************************************************)
(* The intel channel panel (components/IntelChannelParser.jsx): chat lines *)
(* are pasted, the newest report per system is kept, reports expire on a   *)
(* clock the panel looks at every 30 s, pilots named in a report are       *)
(* looked up, and the map rings the systems with live hostile reports.     *)
(*                                                                         *)
(* A message is the tokens of its text, its count, whether it says clear,  *)
(* and the pilots it links; a pasted line is a message and its age.  On a  *)
(* phone another tab unmounts the panel while the map keeps what it was    *)
(* last told.                                                              *)
(***************************************************************************)
EXTENDS Integers, SequencesExt, FiniteSetsExt, Functions

CONSTANTS Systems, Primary, Border,   \* the region's systems, ours, gate systems
          Prefixed,     \* Prefixed[t]: the systems whose name starts with t-
          Messages,     \* [tokens, count, clear, chars]
          Chars,
          ExpireOptions, DefaultExpire,
          Tick,         \* the panel's interval, in steps of the clock
          MaxAge,       \* bound: age of a pasted line
          MaxTime,      \* bound: steps of the clock
          MaxPastes     \* bound: lines pasted in a behaviour

ASSUME IntelAssumption ==
    /\ Primary \union Border \subseteq Systems /\ IsFiniteSet(Systems)
    /\ \A t \in DOMAIN Prefixed : Prefixed[t] \subseteq Systems
    /\ \A m \in Messages :
          m \in [tokens : Seq(Systems \union DOMAIN Prefixed), count : Nat,
                clear : BOOLEAN, chars : SUBSET Chars]
    /\ DefaultExpire \in ExpireOptions /\ ExpireOptions \subseteq Nat
    /\ Tick \in Nat \ {0} /\ MaxAge \in Nat /\ MaxTime \in Nat /\ MaxPastes \in Nat

VARIABLES mounted,      \* the panel is on the page
          clock,
          now,          \* the reading of the clock the panel renders with
          untilTick,    \* time until the interval fires
          expire,       \* chosen expiry
          board,        \* system -> newest entry
          fired,        \* notifiedRef: the reports not to notify again
          marked,       \* charInfoRef, charRiskRef: the pilots not to ask about
          lookups,      \* lookups in flight
          alerts,       \* the map's copy of the hostile reports
          notices,      \* history: the reports notified, in order, never forgotten
          starts,       \* history: after how many notices the panel started empty
          heard,        \* history: the entries since the board was last emptied
          removed,      \* history: how many of them the row was last removed after
          asks,         \* history: times a pilot was asked about since CLEAR
          pastes        \* lines pasted so far

view == <<now, expire, board>>
clockVars == <<clock, untilTick>>
pilotVars == <<marked, lookups, asks>>
noticeVars == <<fired, notices, starts>>
history == <<heard, removed>>
intelVars == <<mounted, clockVars, view, noticeVars, pilotVars, alerts, history, pastes>>

Kinds == {"scan", "analyze"}     \* /api/local/scan and /api/chars/analyze
-----------------------------------------------------------------------------
\* findSystem: the first token that is a name, or the start of just one name.
Denotes(token) ==
    IF token \in Systems THEN {token}
    ELSE IF Cardinality(Prefixed[token]) = 1 THEN Prefixed[token] ELSE {}

FindSystem(tokens) ==
    LET i == SelectInSeq(tokens, LAMBDA t : Denotes(t) # {})
    IN  IF i = 0 THEN {} ELSE Denotes(tokens[i])

\* parseIntelText, one line: those that name no system are dropped.
Entry(line, s) ==
    [system |-> s, ts |-> clock - line.age, count |-> line.msg.count,
     clear |-> line.msg.clear, chars |-> line.msg.chars]

Parsed(entries, line) ==
    LET named == FindSystem(line.msg.tokens)
    IN  IF named = {} THEN entries
        ELSE Append(entries, Entry(line, CHOOSE s \in named : TRUE))

ParseIntelText(lines) == FoldLeft(Parsed, <<>>, lines)

\* Reports that are worth a browser notification, and what tells them apart.
Alarming(e) == e.system \in Primary \union Border /\ ~e.clear /\ e.count > 0
Key(e) == <<e.system, e.ts>>

\* Mutant of Supersedes: the last line pasted wins, however old it is.
MutSupersedes(e, b) == TRUE

\* A report replaces one that is not newer.
Supersedes(e, b) == e.system \in DOMAIN b => e.ts >= b[e.system].ts

\* Mutant of Applied: a report is not remembered as notified.
MutApplied(st, e) ==
    IF ~Supersedes(e, st.board) THEN st
    ELSE LET new == Alarming(e)
         IN  [board |-> [s \in DOMAIN st.board \union {e.system} |->
                            IF s = e.system THEN e ELSE st.board[s]],
              fired |-> st.fired,
              notices |-> IF new THEN Append(st.notices, Key(e)) ELSE st.notices]

\* applyEntries, one entry: the board, and a notification if it is new.
Applied(st, e) ==
    IF ~Supersedes(e, st.board) THEN st
    ELSE LET new == Alarming(e) /\ Key(e) \notin st.fired
         IN  [board |-> [s \in DOMAIN st.board \union {e.system} |->
                            IF s = e.system THEN e ELSE st.board[s]],
              fired |-> IF new THEN st.fired \union {Key(e)} ELSE st.fired,
              notices |-> IF new THEN Append(st.notices, Key(e)) ELSE st.notices]

ApplyEntries(st, entries) == FoldLeft(Applied, st, entries)
-----------------------------------------------------------------------------
\* The table, a row for each system (its order matters to nothing here).
Row(e, t, x) == [entry |-> e, expired |-> t - e.ts > x]
Rows(b, t, x) == {Row(b[s], t, x) : s \in DOMAIN b}

Live(r) == ~r.expired /\ ~r.entry.clear

\* The badges of the header, and the rows COPY puts on the clipboard.
PrimaryAlerts(rows) ==
    Cardinality({r \in rows : Live(r) /\ r.entry.system \in Primary /\ r.entry.count > 0})
ActiveCount(rows) == Cardinality({r \in rows : Live(r)})
Copied(rows) == {r \in rows : ~r.expired}

\* What the map rings: intelAlertSet over the rows it was given.
Ringed(rows) == {r.entry : r \in {q \in rows : Live(q) /\ q.entry.count > 0}}

\* The effect on the rows: tell the map, whatever changed them.
TellMap == alerts' = Ringed(Rows(board', now', expire'))
-----------------------------------------------------------------------------
IntelInit ==
    /\ mounted = TRUE /\ clock = 0 /\ now = 0 /\ untilTick = Tick
    /\ expire = DefaultExpire
    /\ board = <<>> /\ fired = {} /\ alerts = {}
    /\ notices = <<>> /\ starts = {0}
    /\ heard = <<>> /\ removed = [s \in Systems |-> 0]
    /\ marked = [k \in Kinds |-> {}] /\ lookups = {}
    /\ asks = [c \in Chars |-> [k \in Kinds |-> 0]]
    /\ pastes = 0

\* Mutant of Ask: a pilot is marked only when the answer is in.
MutAsk(chars) ==
    LET todo(k) == chars \ marked[k]
        kinds == {k \in Kinds : todo(k) # {}}
    IN  /\ lookups' = lookups \union {[kind |-> k, chars |-> todo(k)] : k \in kinds}
        /\ asks' = [c \in Chars |-> [k \in Kinds |->
                        asks[c][k] + IF c \in todo(k) THEN 1 ELSE 0]]
        /\ UNCHANGED marked

\* lookupChars and analyzeChars: mark the pilots, then ask about them.
Ask(chars) ==
    LET todo(k) == chars \ marked[k]
        kinds == {k \in Kinds : todo(k) # {}}
    IN  /\ marked' = [k \in Kinds |-> marked[k] \union chars]
        /\ lookups' = lookups \union {[kind |-> k, chars |-> todo(k)] : k \in kinds}
        /\ asks' = [c \in Chars |-> [k \in Kinds |->
                        asks[c][k] + IF c \in todo(k) THEN 1 ELSE 0]]

\* handlePaste
Paste(lines) ==
    LET entries == ParseIntelText(lines)
        after == ApplyEntries([board |-> board, fired |-> fired, notices |-> notices], entries)
    IN  /\ mounted /\ pastes + Len(lines) <= MaxPastes
        /\ pastes' = pastes + Len(lines)
        /\ board' = after.board /\ fired' = after.fired /\ notices' = after.notices
        /\ heard' = heard \o entries
        /\ Ask(UNION {entries[i].chars : i \in DOMAIN entries})
        /\ UNCHANGED <<mounted, clockVars, now, expire, starts, removed>>
        /\ TellMap

\* An answer adds what it knows, even of pilots that CLEAR has forgotten; a
\* failure leaves the marks, so the pilot is not asked about again.
LookupSettles(p) ==
    /\ lookups' = lookups \ {p}
    /\ marked' \in {marked, [marked EXCEPT ![p.kind] = @ \union p.chars]}
    /\ UNCHANGED <<mounted, clockVars, view, noticeVars, asks, alerts, history, pastes>>

\* removeRow
RemoveRow(s) ==
    /\ mounted /\ s \in DOMAIN board
    /\ board' = Restrict(board, DOMAIN board \ {s})
    /\ removed' = [removed EXCEPT ![s] = Len(heard)]
    /\ UNCHANGED <<mounted, clockVars, now, expire, noticeVars, pilotVars, heard, pastes>>
    /\ TellMap

\* The state a panel starts with: CLEAR empties it, and so does a new mount.
\* What was notified until then is forgotten by the panel, not by its user.
Emptied ==
    /\ board' = <<>> /\ fired' = {}
    /\ starts' = starts \union {Len(notices)} /\ notices' = notices
    /\ heard' = <<>> /\ removed' = [s \in Systems |-> 0]
    /\ marked' = [k \in Kinds |-> {}]
    /\ asks' = [c \in Chars |-> [k \in Kinds |-> 0]]

ClearAll ==
    /\ mounted /\ board # <<>>
    /\ Emptied
    /\ UNCHANGED <<mounted, clockVars, now, expire, lookups, pastes>>
    /\ TellMap

ChooseExpire(x) ==
    /\ mounted /\ x # expire
    /\ expire' = x
    /\ UNCHANGED <<mounted, clockVars, now, board, noticeVars, pilotVars, history, pastes>>
    /\ TellMap

\* Mutant of Elapse: the panel keeps the reading it was mounted with.
MutElapse ==
    /\ clock < MaxTime
    /\ clock' = clock + 1
    /\ untilTick' = IF untilTick = 1 THEN Tick ELSE untilTick - 1
    /\ UNCHANGED <<mounted, now, expire, board, noticeVars, pilotVars, history, pastes, alerts>>

\* Time passes, and at the end of each interval the panel renders anew.
Elapse ==
    /\ clock < MaxTime
    /\ clock' = clock + 1
    /\ untilTick' = IF untilTick = 1 THEN Tick ELSE untilTick - 1
    /\ now' = IF mounted /\ untilTick = 1 THEN clock' ELSE now
    /\ UNCHANGED <<mounted, expire, board, noticeVars, pilotVars, history, pastes>>
    /\ IF mounted THEN TellMap ELSE UNCHANGED alerts

\* A phone shows another tab: the panel is gone, the map keeps its copy.
Leave ==
    /\ mounted /\ mounted' = FALSE
    /\ UNCHANGED <<clockVars, view, noticeVars, pilotVars, alerts, history, pastes>>

\* Back: a new panel, with a new interval and nothing on its board.
Return ==
    /\ ~mounted /\ mounted' = TRUE
    /\ Emptied /\ lookups' = {}
    /\ now' = clock /\ untilTick' = Tick /\ expire' = DefaultExpire
    /\ UNCHANGED <<clock, pastes>>
    /\ TellMap

Texts == SeqOf([msg : Messages, age : 0..MaxAge], 2) \ {<<>>}

IntelNext ==
    \/ \E lines \in Texts : Paste(lines)
    \/ \E p \in lookups : LookupSettles(p)
    \/ \E s \in Systems : RemoveRow(s)
    \/ ClearAll
    \/ \E x \in ExpireOptions : ChooseExpire(x)
    \/ Elapse \/ Leave \/ Return

IntelSpec == IntelInit /\ [][IntelNext]_intelVars
-----------------------------------------------------------------------------
\* The board shows, for every system heard of, the newest report since the
\* row was last removed, and of reports of one time the one pasted last,
\* however the lines were spread over pastes and shuffled in them.
BoardIsNewest ==
    LET of(s) == {i \in DOMAIN heard : i > removed[s] /\ heard[i].system = s}
    IN  /\ DOMAIN board = {s \in Systems : of(s) # {}}
        /\ \A s \in DOMAIN board : \E i \in of(s) :
              /\ board[s] = heard[i]
              /\ \A j \in of(s) : heard[j].ts < heard[i].ts \/ (heard[j].ts = heard[i].ts /\ j <= i)

\* A hostile report of ours or of a gate is notified, and not again when it is
\* pasted again or its row was removed: between two notices of one report the
\* board was emptied, by CLEAR or by a new mount, which forget what was said.
\* What is on the board has been notified since.
NoticeOnce ==
    /\ \A i, j \in DOMAIN notices :
          i < j /\ notices[i] = notices[j] => \E k \in starts : i <= k /\ k < j
    /\ \A s \in DOMAIN board : Alarming(board[s]) =>
          \E i \in DOMAIN notices :
              notices[i] = Key(board[s]) /\ \A k \in starts : k < i

\* While the panel is on the page no ring on the map outlives its report's
\* expiry by more than the panel's interval, and the map, the badges and COPY
\* agree on what is live.
RingsFresh ==
    LET rows == Rows(board, now, expire)
    IN  mounted =>
            /\ \A e \in alerts : clock - e.ts < expire + Tick
            /\ PrimaryAlerts(rows) = Cardinality({e \in alerts : e.system \in Primary})
            /\ Cardinality(alerts) <= ActiveCount(rows) /\ ActiveCount(rows) <= Cardinality(Copied(rows))

\* A pilot is asked about once until CLEAR, whatever is pasted meanwhile and
\* whether or not the answer has come.
AskedOnce == \A c \in Chars, k \in Kinds : asks[c][k] <= 1
=============================================================================
