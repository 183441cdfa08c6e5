----------------------------- MODULE Snapshots -----------------------------
(***************************************************************************)
(* The sampling of ESI that every worker process does in the background    *)
(* (routes/poller.py), and its two tables (db.snapshot_adm_batch and       *)
(* db.snapshot_activity_batch), for one system.                            *)
(*                                                                         *)
(* The workers do not coordinate.  What keeps the samples apart is a       *)
(* marker in each process and a NOT EXISTS guard in the INSERT.  A sample  *)
(* of the ADM counts as a duplicate if it says the same; a sample of       *)
(* activity always does, so that table is the case of a single reading.    *)
(*                                                                         *)
(* Times are ages: time passes for what is stored.                         *)
(***************************************************************************)
EXTENDS Integers

CONSTANTS
    Worker,       \* worker processes
    Reading,      \* what ESI may say of the system
    Interval,     \* SNAPSHOT_INTERVAL
    PollInterval, \* POLL_INTERVAL_SECONDS
    BusyTimeout,  \* how long an INSERT may wait for the write lock
    Horizon,      \* bound: samples older than this are not told apart
    NoMarker      \* no sample to compare with

ASSUME SnapshotsAssumption ==
    /\ Interval \in Nat \ {0} /\ PollInterval \in Nat \ {0} /\ BusyTimeout \in Nat
    /\ Horizon \in Nat /\ Horizon >= Interval + BusyTimeout

VARIABLES
    samples,  \* samples[r][a]: the rows that say r and were written a ago
    marker,   \* _last_adm_snapshot, _last_activity_snapshot of each process
    task,     \* where each process's _loop is
    sees,     \* what ESI, or its cached answer, says in each process
    steady    \* history: time since a process last failed, started, or saw
              \* its reading change

snapVars == <<samples, marker, task, sees, steady>>

Marker == [reading : Reading, age : 0..(Interval - 1)]
Asleep(n) == [at |-> "asleep", left |-> n]
Writing(r, n) == [at |-> "writing", reading |-> r, wait |-> n]
Task == {Asleep(n) : n \in 0..PollInterval}
        \cup {Writing(r, n) : r \in Reading, n \in 0..BusyTimeout}

SnapInit ==
    /\ samples = [r \in Reading |-> [a \in 0..Horizon |-> 0]]
    /\ marker = [w \in Worker |-> NoMarker]
    /\ task = [w \in Worker |-> Asleep(0)]
    /\ sees \in [Worker -> Reading]
    /\ steady = [w \in Worker |-> 0]

Marked(w) == marker[w] # NoMarker /\ marker[w].reading = sees[w]

\* Mutant: a sample left out is marked too.
MutSample(w) ==
    /\ task[w] = Asleep(0)
    /\ marker' = [marker EXCEPT ![w] = [reading |-> sees[w], age |-> 0]]
    /\ task' = [task EXCEPT ![w] = IF Marked(w) THEN Asleep(PollInterval)
                                   ELSE Writing(sees[w], 0)]
    /\ UNCHANGED <<samples, sees, steady>>

\* A cycle fetches the reading, takes the time, and either finds it marked
\* or marks it and opens the database.
Sample(w) ==
    /\ task[w] = Asleep(0)
    /\ IF Marked(w)
       THEN /\ task' = [task EXCEPT ![w] = Asleep(PollInterval)]
            /\ UNCHANGED marker
       ELSE /\ task' = [task EXCEPT ![w] = Writing(sees[w], 0)]
            /\ marker' = [marker EXCEPT ![w] = [reading |-> sees[w], age |-> 0]]
    /\ UNCHANGED <<samples, sees, steady>>

\* ESI does not answer, or reports no ADM: the cycle has nothing to write.
NoSample(w) ==
    /\ task[w] = Asleep(0)
    /\ task' = [task EXCEPT ![w] = Asleep(PollInterval)]
    /\ steady' = [steady EXCEPT ![w] = 0]
    /\ UNCHANGED <<samples, marker, sees>>

\* Mutant: the marker alone decides.
MutDuplicate(r, wait) == FALSE

\* The NOT EXISTS guard.  Its cutoff was computed before the wait.
Duplicate(r, wait) == \E a \in 0..Horizon : a - wait <= Interval /\ samples[r][a] > 0

\* The INSERT and its commit.
Insert(w) ==
    /\ task[w].at = "writing"
    /\ LET r == task[w].reading IN
         samples' = IF Duplicate(r, task[w].wait) THEN samples
                    ELSE [samples EXCEPT ![r][0] = @ + 1]
    /\ task' = [task EXCEPT ![w] = Asleep(PollInterval)]
    /\ UNCHANGED <<marker, sees, steady>>

\* The INSERT or its commit fails; the marker stays.
InsertFails(w) ==
    /\ task[w].at = "writing"
    /\ task' = [task EXCEPT ![w] = Asleep(PollInterval)]
    /\ steady' = [steady EXCEPT ![w] = 0]
    /\ UNCHANGED <<samples, marker, sees>>

\* A process dies and another is forked in its place.
Restart(w) ==
    /\ marker' = [marker EXCEPT ![w] = NoMarker]
    /\ task' = [task EXCEPT ![w] = Asleep(0)]
    /\ steady' = [steady EXCEPT ![w] = 0]
    /\ UNCHANGED <<samples, sees>>

\* What ESI says changes.  Processes cache its answer, so they see it one by one.
See(w, r) ==
    /\ r # sees[w]
    /\ sees' = [sees EXCEPT ![w] = r]
    /\ steady' = [steady EXCEPT ![w] = 0]
    /\ UNCHANGED <<samples, marker, task>>

\* Mutant: a marker does not expire.
MutAged(m) == IF m = NoMarker THEN NoMarker ELSE [m EXCEPT !.age = @ + 1]

\* A marker as old as Interval might as well not be there.
Aged(m) == IF m = NoMarker \/ m.age + 1 = Interval THEN NoMarker
           ELSE [m EXCEPT !.age = @ + 1]

Overdue(w) == task[w] = Asleep(0) \/ (task[w].at = "writing" /\ task[w].wait = BusyTimeout)

Later(t) == IF t.at = "asleep" THEN Asleep(t.left - 1) ELSE Writing(t.reading, t.wait + 1)

\* A moment later.  Sleeping ends, and waiting too, when it is time.
Tick ==
    /\ \A w \in Worker : ~Overdue(w)
    /\ samples' = [r \in Reading |-> [a \in 0..Horizon |->
                     IF a = 0 THEN 0 ELSE samples[r][a - 1]]]
    /\ marker' = [w \in Worker |-> Aged(marker[w])]
    /\ task' = [w \in Worker |-> Later(task[w])]
    /\ steady' = [w \in Worker |-> IF steady[w] = Horizon THEN Horizon ELSE steady[w] + 1]
    /\ UNCHANGED sees

SnapNext ==
    \/ \E w \in Worker :
         \/ Sample(w) \/ NoSample(w) \/ Insert(w) \/ InsertFails(w) \/ Restart(w)
         \/ \E r \in Reading : See(w, r)
    \/ Tick

SnapSpec == SnapInit /\ [][SnapNext]_snapVars

----------------------------------------------------------------------------
(* Properties                                                               *)

SnapTypeOK ==
    /\ samples \in [Reading -> [0..Horizon -> Nat]]
    /\ marker \in [Worker -> Marker \cup {NoMarker}]
    /\ task \in [Worker -> Task]
    /\ sees \in [Worker -> Reading]
    /\ steady \in [Worker -> 0..Horizon]

\* "Running a poller in every gunicorn worker is safe - it costs a redundant
\* ESI fetch, not a duplicate row" (routes/poller.py): two samples that say
\* the same are more than SNAPSHOT_INTERVAL apart, whichever processes wrote
\* them, after whatever waits for the lock, restarts and failures.
SamplesApart ==
    \A r \in Reading : \A a, b \in 0..Horizon :
        /\ samples[r][a] <= 1
        /\ a < b /\ b - a <= Interval => samples[r][a] = 0 \/ samples[r][b] = 0

\* "The history is a function of wall-clock time" (routes/poller.py): while
\* one process goes on without a failure and sees the same, the newest sample
\* of what it sees is never older than this.  A marker is set also when the
\* guard refuses the row because of one that is about to fall out of the
\* interval, hence twice the interval.
Gap == 2 * Interval + PollInterval + BusyTimeout - 1
NoGap ==
    \A w \in Worker : steady[w] > Gap => \E a \in 0..Gap : samples[sees[w]][a] > 0

=============================================================================
