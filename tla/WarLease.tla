------------------------------ MODULE WarLease ------------------------------
(***************************************************************************)
(* The lease that elects one gunicorn worker to poll a war                 *)
(* (routes/war_poller.py, db.acquire_war_poll_lease).                      *)
(*                                                                         *)
(* Every worker process runs the same loop: sleep, try to take the lease   *)
(* row of the war, poll if it got it, sleep again.  The row lives in the   *)
(* SQLite file all workers share.  A worker can die at any point; gunicorn *)
(* then forks another process, whose pid, and so whose owner name, is new. *)
(* Here a Worker is one such process, and it runs at most once.            *)
(*                                                                         *)
(* The delicate point is that the claim reads the clock before BEGIN       *)
(* IMMEDIATE, which may then wait for another writer: the check and the    *)
(* take use a reading that may be BusyTimeout old.                         *)
(*                                                                         *)
(* Instants are kept relative to the present, so that the state space is   *)
(* finite without a bound on the clock: expires_at is represented by the   *)
(* time left until it, a clock reading by its age.                         *)
(***************************************************************************)
EXTENDS Integers, FiniteSets

CONSTANTS
    Worker,       \* worker processes, named by their host:pid
    Nobody,       \* the owner of a lease row that does not exist yet
    Interval,     \* WAR_POLL_INTERVAL_SECONDS
    BusyTimeout   \* how long SQLite waits for the write lock before raising

ASSUME LeaseAssumption ==
    /\ Nobody \notin Worker
    /\ Interval \in Nat \ {0}
    /\ BusyTimeout \in Nat

VARIABLES
    lease,  \* the row of war_poll_lease: its owner, and expires_at - now
    stage,  \* where each worker is in its loop
    timer   \* asleep: time until it wakes.  claiming: age of its clock
            \* reading.  polling: time left of the claim it was granted

leaseVars == <<lease, stage, timer>>

\* What poll_war asks the lease for.
TTL == 2 * Interval

Stage == {"down", "asleep", "claiming", "polling", "dead"}

\* An expiry this far past is past for every clock reading in use.
LongPast == -(BusyTimeout + 1)

Alive(w) == stage[w] \in {"asleep", "claiming", "polling"}

LeaseInit ==
    /\ lease = [owner |-> Nobody, left |-> LongPast]
    /\ stage = [w \in Worker |-> "down"]
    /\ timer = [w \in Worker |-> 0]

----------------------------------------------------------------------------
(* A worker's loop                                                          *)

\* post_fork starts the poller thread.  Its first sleep only staggers the
\* workers of a restart; it is shorter than the unit of time here.
Boot(w) ==
    /\ stage[w] = "down"
    /\ stage' = [stage EXCEPT ![w] = "asleep"]
    /\ timer' = [timer EXCEPT ![w] = 0]
    /\ UNCHANGED lease

\* poll_war calls acquire_war_poll_lease, which first reads the clock.
ReadClock(w) ==
    /\ stage[w] = "asleep"
    /\ timer[w] = 0
    /\ stage' = [stage EXCEPT ![w] = "claiming"]
    /\ timer' = [timer EXCEPT ![w] = 0]
    /\ UNCHANGED lease

Sleep(w) ==
    /\ stage' = [stage EXCEPT ![w] = "asleep"]
    /\ timer' = [timer EXCEPT ![w] = Interval]

\* Mutant: the expiry instant itself counts as past.
MutTakeableAtExpiry(row, w, age) ==
    \/ row.owner = Nobody
    \/ row.left <= -age
    \/ row.owner = w

\* Mutant: the age of the reading is added instead of subtracted.
MutTakeableOnReading(row, w, age) ==
    \/ row.owner = Nobody
    \/ row.left < age
    \/ row.owner = w

\* Mutant: an expired row still needs its owner to let it go.
MutTakeableNever(row, w, age) == row.owner \in {Nobody, w}

\* The upsert inserts when there is no row, and its WHERE clause lets it
\* update a row that is the worker's own, or whose expires_at is before
\* the clock reading, age ago.
Takeable(row, w, age) ==
    \/ row.owner = Nobody
    \/ row.left < -age
    \/ row.owner = w

\* BEGIN IMMEDIATE .. COMMIT: the upsert, then the SELECT that tells this
\* worker whether the row is its own.
Claim(w) ==
    /\ stage[w] = "claiming"
    /\ IF Takeable(lease, w, timer[w])
       THEN /\ lease' = [owner |-> w, left |-> TTL - timer[w]]
            /\ stage' = [stage EXCEPT ![w] = "polling"]
            /\ timer' = [timer EXCEPT ![w] = TTL - timer[w]]
       ELSE /\ Sleep(w)
            /\ UNCHANGED lease

\* Mutant: the claim that failed is retried an interval late.
MutClaimTimesOut(w) ==
    /\ stage[w] = "claiming"
    /\ timer[w] = BusyTimeout
    /\ timer' = [timer EXCEPT ![w] = Interval + 1]
    /\ stage' = [stage EXCEPT ![w] = "asleep"]
    /\ UNCHANGED lease

\* The write lock stayed taken for BusyTimeout: SQLite raises, poll_once
\* logs it, and the loop goes back to sleep.
ClaimTimesOut(w) ==
    /\ stage[w] = "claiming"
    /\ timer[w] = BusyTimeout
    /\ Sleep(w)
    /\ UNCHANGED lease

\* The cycle is over.  Nothing gives the lease back: it runs out, or the
\* same worker renews it on its next cycle.
EndCycle(w) ==
    /\ stage[w] = "polling"
    /\ Sleep(w)
    /\ UNCHANGED lease

\* The process is killed, wherever it is.  The row keeps its owner.
Crash(w) ==
    /\ Alive(w)
    /\ stage' = [stage EXCEPT ![w] = "dead"]
    /\ timer' = [timer EXCEPT ![w] = 0]
    /\ UNCHANGED lease

\* Time passes.  A sleeper wakes when its timer is up, and SQLite does not
\* wait for the lock longer than BusyTimeout; a cycle may take any time.
Tick ==
    /\ \A w \in Worker :
         /\ stage[w] = "asleep" => timer[w] > 0
         /\ stage[w] = "claiming" => timer[w] < BusyTimeout
    /\ lease' = [lease EXCEPT !.left = IF @ > LongPast THEN @ - 1 ELSE @]
    /\ timer' = [w \in Worker |->
                   CASE stage[w] = "asleep"   -> timer[w] - 1
                     [] stage[w] = "claiming" -> timer[w] + 1
                     [] stage[w] = "polling" /\ timer[w] >= 0 -> timer[w] - 1
                     [] OTHER -> timer[w]]
    /\ UNCHANGED stage

LeaseNext ==
    \/ \E w \in Worker :
         \/ Boot(w)
         \/ ReadClock(w)
         \/ Claim(w)
         \/ ClaimTimesOut(w)
         \/ EndCycle(w)
         \/ Crash(w)
    \/ Tick

LeaseSpec == LeaseInit /\ [][LeaseNext]_leaseVars

\* Threads that can run do run and cycles end (every request of a cycle has
\* a timeout).  No writer of this program keeps the write lock across
\* anything but its own few statements, so a claim that is retried for ever
\* is not starved for ever: that is the strong fairness of Claim.
LeaseFairness ==
    /\ WF_leaseVars(Tick)
    /\ \A w \in Worker :
         /\ WF_leaseVars(ReadClock(w))
         /\ WF_leaseVars(ClaimTimesOut(w))
         /\ WF_leaseVars(EndCycle(w))
         /\ SF_leaseVars(Claim(w))

FairLeaseSpec == LeaseSpec /\ LeaseFairness

----------------------------------------------------------------------------
(* Properties                                                               *)

LeaseTypeOK ==
    /\ lease \in [owner : Worker \cup {Nobody}, left : Int]
    /\ lease.left >= LongPast
    /\ stage \in [Worker -> Stage]
    /\ timer \in [Worker -> Int]
    /\ \A w \in Worker :
         /\ stage[w] = "asleep" => timer[w] \in 0..Interval
         /\ stage[w] = "claiming" => timer[w] \in 0..BusyTimeout

\* A worker inside a cycle whose grant has not run out.
Holds(w) == stage[w] = "polling" /\ timer[w] >= 0

\* At most one worker polls under a grant that has not run out, although
\* takers compare the expiry with a clock reading of the past
\* (acquire_war_poll_lease: the work is leased, not merely deduplicated).
LeaseExclusive == \A v, w \in Worker : Holds(v) /\ Holds(w) => v = w

\* The row never forgets a worker that still holds: what a holder was
\* granted is what the row says, so nobody can take it early.
GrantIsRow ==
    \A w \in Worker : Holds(w) => lease.owner = w /\ lease.left = timer[w]

\* As long as some worker stays up, polling goes on: a holder that crashed,
\* or whose claim failed, delays the others and never stops them ("an
\* expired lease is takeable, so a crashed holder costs one TTL of delay").
PollingGoesOn ==
    (\E w \in Worker : <>[]Alive(w)) => []<>(\E w \in Worker : stage[w] = "polling")

\* What the documentation says without qualification: exactly one worker
\* polls and the rest sleep (routes/war_poller.py, gunicorn.conf.py).
OneWorkerPolls == Cardinality({w \in Worker : stage[w] = "polling"}) <= 1

=============================================================================
