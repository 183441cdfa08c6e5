-------------------------- MODULE WarIngest_proofs --------------------------
(***************************************************************************)
(* What the lease and the ingest cycle that runs under it promise, for any *)
(* number of workers, any lease time, any page and window sizes, and any   *)
(* length of the history.                                                  *)
(***************************************************************************)
EXTENDS WarIngest, FiniteSetTheorems, TLAPS

----------------------------------------------------------------------------
(* The lease: one poller at a time                                          *)

\* Every step of the poller loop keeps the row, the expiry and the clock
\* readings of the workers within their types and ranges.
LEMMA LeaseTypingStep == LeaseTypeOK /\ [LeaseNext]_leaseVars => LeaseTypeOK'
<1> USE LeaseAssumption DEF LeaseTypeOK, Stage, LongPast, TTL
<1> SUFFICES ASSUME LeaseTypeOK, [LeaseNext]_leaseVars
             PROVE  LeaseTypeOK'
  OBVIOUS
<1>1. ASSUME NEW w \in Worker, Boot(w) PROVE LeaseTypeOK'
  BY <1>1 DEF Boot
<1>2. ASSUME NEW w \in Worker, ReadClock(w) PROVE LeaseTypeOK'
  BY <1>2 DEF ReadClock
<1>3. ASSUME NEW w \in Worker, Claim(w) PROVE LeaseTypeOK'
  <2>1. CASE Takeable(lease, w, timer[w])
    <3>1. timer[w] \in 0..BusyTimeout
      BY <1>3 DEF Claim
    <3>2. TTL - timer[w] \in Int /\ TTL - timer[w] >= LongPast
      BY <3>1
    <3>3. /\ lease' = [owner |-> w, left |-> TTL - timer[w]]
          /\ stage' = [stage EXCEPT ![w] = "polling"]
          /\ timer' = [timer EXCEPT ![w] = TTL - timer[w]]
      BY <1>3, <2>1 DEF Claim
    <3> QED BY <3>2, <3>3
  <2>2. CASE ~Takeable(lease, w, timer[w])
    BY <1>3, <2>2 DEF Claim, Sleep
  <2> QED BY <2>1, <2>2
<1>4. ASSUME NEW w \in Worker, ClaimTimesOut(w) PROVE LeaseTypeOK'
  BY <1>4 DEF ClaimTimesOut, Sleep
<1>5. ASSUME NEW w \in Worker, EndCycle(w) PROVE LeaseTypeOK'
  BY <1>5 DEF EndCycle, Sleep
<1>6. ASSUME NEW w \in Worker, Crash(w) PROVE LeaseTypeOK'
  BY <1>6 DEF Crash
<1>7. CASE Tick
  <2>1. lease' \in [owner : Worker \cup {Nobody}, left : Int] /\ lease'.left >= LongPast
    BY <1>7 DEF Tick
  <2>2. stage' = stage /\ timer' \in [Worker -> Int]
    BY <1>7 DEF Tick
  <2>3. ASSUME NEW w \in Worker
        PROVE  /\ stage'[w] = "asleep" => timer'[w] \in 0..Interval
               /\ stage'[w] = "claiming" => timer'[w] \in 0..BusyTimeout
    BY <1>7, <2>2 DEF Tick
  <2> QED BY <2>1, <2>2, <2>3
<1>8. CASE UNCHANGED leaseVars
  BY <1>8 DEF leaseVars
<1> QED BY <1>1, <1>2, <1>3, <1>4, <1>5, <1>6, <1>7, <1>8 DEF LeaseNext

\* A worker's row, expiry and clock readings keep their types and ranges in
\* every reachable state of the poller loop.
THEOREM LeaseTyping == LeaseSpec => []LeaseTypeOK
<1>1. LeaseInit => LeaseTypeOK
  BY LeaseAssumption DEF LeaseInit, LeaseTypeOK, Stage, LongPast
<1> QED BY <1>1, LeaseTypingStep, PTL DEF LeaseSpec

\* Nobody can take the row away from a worker whose grant has not run out:
\* while it polls under it, the row is the one it was granted.  This is the
\* inductive invariant behind mutual exclusion.
THEOREM GrantKept == LeaseSpec => []GrantIsRow
<1> USE LeaseAssumption DEF LeaseTypeOK, Stage, LongPast, TTL, GrantIsRow, Holds
<1>1. LeaseInit => GrantIsRow
  BY DEF LeaseInit
<1>2. LeaseTypeOK /\ GrantIsRow /\ [LeaseNext]_leaseVars => GrantIsRow'
  <2> SUFFICES ASSUME LeaseTypeOK, GrantIsRow, [LeaseNext]_leaseVars
               PROVE  GrantIsRow'
    OBVIOUS
  <2>1. ASSUME NEW w \in Worker, Boot(w) PROVE GrantIsRow'
    BY <2>1 DEF Boot
  <2>2. ASSUME NEW w \in Worker, ReadClock(w) PROVE GrantIsRow'
    BY <2>2 DEF ReadClock
  <2>3. ASSUME NEW w \in Worker, Claim(w) PROVE GrantIsRow'
    <3>1. CASE Takeable(lease, w, timer[w])
      <4>1. /\ lease' = [owner |-> w, left |-> TTL - timer[w]]
            /\ stage' = [stage EXCEPT ![w] = "polling"]
            /\ timer' = [timer EXCEPT ![w] = TTL - timer[w]]
            /\ timer[w] \in 0..BusyTimeout
            /\ stage[w] = "claiming"
        BY <2>3, <3>1 DEF Claim
      <4>2. ASSUME NEW v \in Worker, v # w PROVE ~Holds(v)
        \* The row would be v's and unexpired, and neither is takeable by w.
        <5>1. SUFFICES ASSUME Holds(v) PROVE FALSE
          OBVIOUS
        <5>2. lease.owner = v /\ lease.left = timer[v] /\ timer[v] >= 0
          BY <5>1
        <5> QED BY <5>2, <4>1, <4>2, <3>1 DEF Takeable
      <4>3. ASSUME NEW v \in Worker, v # w PROVE ~Holds(v)'
        BY <4>1, <4>2, <4>3
      <4>4. lease'.owner = w /\ lease'.left = timer'[w]
        BY <4>1
      <4> QED BY <4>3, <4>4
    <3>2. CASE ~Takeable(lease, w, timer[w])
      BY <2>3, <3>2 DEF Claim, Sleep
    <3> QED BY <3>1, <3>2
  <2>4. ASSUME NEW w \in Worker, ClaimTimesOut(w) PROVE GrantIsRow'
    BY <2>4 DEF ClaimTimesOut, Sleep
  <2>5. ASSUME NEW w \in Worker, EndCycle(w) PROVE GrantIsRow'
    BY <2>5 DEF EndCycle, Sleep
  <2>6. ASSUME NEW w \in Worker, Crash(w) PROVE GrantIsRow'
    BY <2>6 DEF Crash
  <2>7. CASE Tick
    \* Row and grant lose one tick together.
    <3>1. stage' = stage /\ lease'.owner = lease.owner
      BY <2>7 DEF Tick
    <3>2. ASSUME NEW w \in Worker, Holds(w)'
          PROVE  lease'.owner = w /\ lease'.left = timer'[w]
      <4>1. stage[w] = "polling" /\ timer'[w] >= 0
        BY <3>1, <3>2
      <4>2. timer[w] >= 0 /\ timer'[w] = timer[w] - 1
        BY <4>1, <2>7 DEF Tick
      <4>3. lease.owner = w /\ lease.left = timer[w]
        BY <4>1, <4>2
      <4>4. lease'.left = lease.left - 1
        BY <4>2, <4>3, <2>7 DEF Tick
      <4> QED BY <3>1, <4>2, <4>3, <4>4
    <3> QED BY <3>2
  <2>8. CASE UNCHANGED leaseVars
    BY <2>8 DEF leaseVars
  <2> QED BY <2>1, <2>2, <2>3, <2>4, <2>5, <2>6, <2>7, <2>8 DEF LeaseNext
<1> QED BY <1>1, <1>2, LeaseTyping, PTL DEF LeaseSpec

\* At most one worker polls a war under a grant that has not run out, for
\* any number of workers and however long they wait for SQLite's lock.
THEOREM LeaseMutualExclusion == LeaseSpec => []LeaseExclusive
<1>1. GrantIsRow => LeaseExclusive
  BY DEF GrantIsRow, LeaseExclusive
<1> QED BY <1>1, GrantKept, PTL

----------------------------------------------------------------------------
(* Facts about the greatest and least elements the code works with          *)

\* A non-empty set of naturals has a least element.
LEMMA LeastNatural ==
  ASSUME NEW S \in SUBSET Nat, S # {}
  PROVE  \E x \in S : \A y \in S : x <= y
<1> DEFINE R == {ss \in Nat \X Nat : ss[1] < ss[2]}
<1>1. IsWellFoundedOn(R, Nat)
  BY NatLessThanWellFounded DEF OpToRel
<1>2. PICK x \in S : \A y \in S : <<y, x>> \notin R
  <2> HIDE DEF R
  <2> QED BY <1>1, WFMin
<1>3. \A y \in S : ~(y < x)
  BY <1>2
<1> QED BY <1>3

\* max() of a non-empty set of times up to n is one of them: it is found as
\* the least distance from n.
LEMMA MaxOfBounded ==
  ASSUME NEW n \in Nat, NEW S \in SUBSET (0..n), S # {}
  PROVE  Max(S) \in S /\ \A y \in S : y <= Max(S)
<1> DEFINE T == {n - x : x \in S}
<1>1. T \in SUBSET Nat /\ T # {}
  <2>1. ASSUME NEW x \in S PROVE n - x \in Nat
    OBVIOUS
  <2>2. PICK x \in S : TRUE
    OBVIOUS
  <2>3. n - x \in T
    OBVIOUS
  <2> QED BY <2>1, <2>3
<1>2. PICK t \in T : \A y \in T : t <= y
  <2> HIDE DEF T
  <2> QED BY <1>1, LeastNatural
<1>3. PICK x \in S : t = n - x
  BY <1>2
<1>4. \A y \in S : x >= y
  BY <1>2, <1>3
<1> QED BY <1>4 DEF Max

\* max(a, b) of _window_seconds.
LEMMA MaxOfTwo ==
  ASSUME NEW a \in Int, NEW b \in Int
  PROVE  Max({a, b}) = IF a >= b THEN a ELSE b
<1> DEFINE m == IF a >= b THEN a ELSE b
<1>1. m \in {a, b} /\ \A y \in {a, b} : m >= y
  OBVIOUS
<1>2. \A x \in {a, b} : (\A y \in {a, b} : x >= y) => x = m
  OBVIOUS
<1> QED BY <1>1, <1>2 DEF Max

\* min(a, b) of _window_seconds.
LEMMA MinOfTwo ==
  ASSUME NEW a \in Int, NEW b \in Int
  PROVE  Min({a, b}) = IF a <= b THEN a ELSE b
<1> DEFINE m == IF a <= b THEN a ELSE b
<1>1. m \in {a, b} /\ \A y \in {a, b} : y >= m
  OBVIOUS
<1>2. \A x \in {a, b} : (\A y \in {a, b} : x <= y) => x = m
  OBVIOUS
<1> QED BY <1>1, <1>2 DEF Min

\* Whatever the cursor, zKill is asked for no more than its ceiling.
LEMMA WindowInRange ==
  ASSUME NEW c \in Cursor, now \in Instant
  PROVE  WindowFor(c) \in 0..MaxWindow
<1> USE IngestAssumption
<1>1. CASE ~Known(c)
  BY <1>1 DEF WindowFor
<1>2. CASE Known(c)
  <2>1. now - c + Overlap \in Int
    BY <1>2 DEF Cursor, Instant, Known
  <2> DEFINE e == now - c + Overlap
             m == Min({MaxWindow, e})
  <2>2. m = IF MaxWindow <= e THEN MaxWindow ELSE e
    BY <2>1, MinOfTwo
  <2>3. Max({MinWindow, m}) = IF MinWindow >= m THEN MinWindow ELSE m
    <3>1. m \in Int
      BY <2>1, <2>2
    <3> HIDE DEF m
    <3> QED BY <3>1, MaxOfTwo
  <2>4. WindowFor(c) = Max({MinWindow, m})
    BY <1>2 DEF WindowFor
  <2> QED BY <2>1, <2>2, <2>3, <2>4
<1> QED BY <1>1, <1>2

----------------------------------------------------------------------------
(* The cycle runs under the lease                                           *)

\* Every step of the ingest is a step of the lease's protocol or leaves the
\* lease alone: whatever the cycle does, it cannot break the election.
LEMMA IngestStepIsLeaseStep == [IngestNext]_ingestVars => [LeaseNext]_leaseVars
BY DEF IngestNext, ingestVars, CycleStep, Publish, BeginCycle, ReadState,
       BeginRegion, FetchPage, FetchFails, Store, DatabaseFails, Advance, Live,
       Die, PassTime, LeaseNext

\* The ingest implements the lease: every promise of LeaseSpec, mutual
\* exclusion among them, holds while cycles fetch, fail and crash.
THEOREM IngestKeepsLease == IngestSpec => LeaseSpec
<1>1. IngestInit => LeaseInit
  BY DEF IngestInit
<1> QED BY <1>1, IngestStepIsLeaseStep, PTL DEF IngestSpec, LeaseSpec

\* Mutual exclusion of the lease, for workers that run whole poll cycles: no
\* two of them are in a cycle under grants that have not run out.
THEOREM IngestExclusive == IngestSpec => []LeaseExclusive
BY IngestKeepsLease, LeaseMutualExclusion, PTL

----------------------------------------------------------------------------
(* No cycle moves the cursor past what is stored                            *)

\* What holds of the local variables of one cycle: it started from a stored
\* kill, holds only kills that zKill listed, and has stored what it holds
\* once it is about to move the cursor.
WalkSound(w) ==
    /\ walk[w].step # "off" => stage[w] = "polling"
    /\ walk[w].cursor \in ledger \cup {NoCursor}
    /\ walk[w].got \subseteq feed
    /\ walk[w].step = "advance" => walk[w].got \subseteq ledger

\* What holds of the data the workers share.
SharedOK ==
    /\ now \in Instant
    /\ feed \subseteq Instant
    /\ ledger \subseteq feed
    /\ cursor \in Cursor
    /\ saturated \in BOOLEAN
    /\ skipped \subseteq feed /\ aged \subseteq feed
    /\ CursorBacked

\* The inductive invariant: CursorBacked alone is not inductive, because a
\* cycle carries the next cursor in its local variables.
IngestInv ==
    /\ LeaseTypeOK
    /\ SharedOK
    /\ walk \in [Worker -> Walk]
    /\ \A w \in Worker : WalkSound(w)

\* A step that only replaces one worker's variables by well-typed ones.
LEMMA OneWalkChanges ==
  ASSUME NEW w \in Worker, NEW r \in Walk, walk \in [Worker -> Walk],
         walk' = [walk EXCEPT ![w] = r]
  PROVE  /\ walk' \in [Worker -> Walk]
         /\ walk'[w] = r
         /\ \A v \in Worker : v # w => walk'[v] = walk[v]
OBVIOUS

\* A cycle that ends leaves nothing behind in its worker.
LEMMA IdleWalk == NoWalk \in Walk /\ NoWalk.step = "off" /\ NoWalk.cursor = NoCursor
                  /\ NoWalk.got = {}
BY IngestAssumption DEF NoWalk, Walk, Step, Cursor, Instant

\* Ending a cycle changes the stage of its own worker only.
LEMMA EndCycleStage ==
  ASSUME LeaseTypeOK, NEW w \in Worker, EndCycle(w)
  PROVE  \A v \in Worker : v # w => stage'[v] = stage[v]
BY DEF EndCycle, Sleep, LeaseTypeOK

\* A cycle that ends without touching shared data.
LEMMA GivesUp ==
  ASSUME IngestInv, NEW w \in Worker, EndCycle(w),
         walk' = [walk EXCEPT ![w] = NoWalk],
         UNCHANGED <<now, feed, ledger, cursor, saturated, skipped, aged>>
  PROVE  SharedOK' /\ walk' \in [Worker -> Walk] /\ \A v \in Worker : WalkSound(v)'
<1>1. SharedOK'
  BY DEF IngestInv, SharedOK, CursorBacked
<1>2. /\ walk' \in [Worker -> Walk]
      /\ walk'[w] = NoWalk
      /\ \A v \in Worker : v # w => walk'[v] = walk[v]
  BY OneWalkChanges, IdleWalk DEF IngestInv
<1>3. ASSUME NEW v \in Worker PROVE WalkSound(v)'
  BY <1>2, IdleWalk, EndCycleStage DEF IngestInv, WalkSound
<1> QED BY <1>1, <1>2, <1>3

\* The part of the invariant that is the ingest's own.
OwnOK == SharedOK /\ walk \in [Worker -> Walk] /\ \A w \in Worker : WalkSound(w)

\* Claiming the lease keeps the invariant: a new cycle holds nothing yet.
LEMMA BeginCycleKeeps ==
  ASSUME IngestInv, NEW w \in Worker, BeginCycle(w)
  PROVE  OwnOK'
<1>1. SharedOK'
  BY DEF BeginCycle, IngestInv, SharedOK, CursorBacked
<1> DEFINE r == IF stage'[w] = "polling"
                THEN [NoWalk EXCEPT !.step = "read"] ELSE NoWalk
<1>2. r \in Walk /\ r.cursor = NoCursor /\ r.got = {} /\ r.step \in {"off", "read"}
      /\ (r.step # "off" => stage'[w] = "polling")
  BY IdleWalk DEF Walk, Step, NoWalk
<1>3. walk' = [walk EXCEPT ![w] = r]
  BY DEF BeginCycle
<1>4. /\ walk' \in [Worker -> Walk]
      /\ walk'[w] = r
      /\ \A v \in Worker : v # w => walk'[v] = walk[v]
  <2> HIDE DEF r
  <2> QED BY <1>2, <1>3, OneWalkChanges DEF IngestInv
<1>5. \A v \in Worker : v # w => stage'[v] = stage[v]
  BY DEF BeginCycle, Claim, Sleep, IngestInv, LeaseTypeOK
<1>6. feed' = feed /\ ledger' = ledger
  BY DEF BeginCycle
<1>7. ASSUME NEW v \in Worker PROVE WalkSound(v)'
  <2> HIDE DEF r
  <2> QED BY <1>2, <1>4, <1>5, <1>6 DEF IngestInv, WalkSound
<1> QED BY <1>1, <1>4, <1>7 DEF OwnOK

\* Reading the ingest state keeps it: the cursor read is a stored kill.
LEMMA ReadStateKeeps ==
  ASSUME IngestInv, NEW w \in Worker, ReadState(w)
  PROVE  OwnOK'
<1>1. SharedOK'
  BY DEF ReadState, IngestInv, SharedOK, CursorBacked
<1> DEFINE r == [walk[w] EXCEPT !.step = "begin", !.cursor = cursor]
<1>2. r \in Walk /\ r.cursor = cursor /\ r.got = walk[w].got /\ r.step = "begin"
  BY DEF IngestInv, SharedOK, Walk, Step
<1>3. walk' = [walk EXCEPT ![w] = r]
  BY DEF ReadState, IngestInv
<1>4. /\ walk' \in [Worker -> Walk]
      /\ walk'[w] = r
      /\ \A v \in Worker : v # w => walk'[v] = walk[v]
  <2> HIDE DEF r
  <2> QED BY <1>2, <1>3, OneWalkChanges DEF IngestInv
<1>5. feed' = feed /\ ledger' = ledger /\ stage' = stage /\ walk[w].step = "read"
  BY DEF ReadState, leaseVars
<1>6. ASSUME NEW v \in Worker PROVE WalkSound(v)'
  <2> HIDE DEF r
  <2> QED BY <1>2, <1>4, <1>5 DEF IngestInv, WalkSound, SharedOK, CursorBacked
<1> QED BY <1>1, <1>4, <1>6 DEF OwnOK

\* Choosing cursor and window keeps it: the newest stored kill, which stands
\* in for a missing cursor, is stored.
LEMMA BeginRegionKeeps ==
  ASSUME IngestInv, NEW w \in Worker, BeginRegion(w)
  PROVE  OwnOK'
<1> DEFINE c == IF Known(walk[w].cursor) THEN walk[w].cursor ELSE LatestKillTime
           past == WindowFor(c)
           r == [walk[w] EXCEPT !.step = "fetch", !.cursor = c, !.past = past, !.page = 1]
<1>1. c \in ledger \cup {NoCursor} /\ c \in Cursor
  \* A region without a stored cursor starts from the newest stored kill.
  <2>1. LatestKillTime \in ledger \cup {NoCursor}
    <3>1. ledger \subseteq 0..MaxTime
      BY DEF IngestInv, SharedOK, Instant
    <3> QED BY <3>1, MaxOfBounded, IngestAssumption DEF LatestKillTime
  <2> QED BY <2>1 DEF IngestInv, SharedOK, WalkSound, Cursor
<1>2. past \in 0..MaxWindow
  <2> HIDE DEF c
  <2> QED BY <1>1, WindowInRange DEF IngestInv, SharedOK
<1>3. r \in Walk /\ r.cursor = c /\ r.got = walk[w].got /\ r.step = "fetch"
  <2>1. walk[w] \in Walk
    BY DEF IngestInv
  <2>2. 1 \in 0..MaxPages
    BY IngestAssumption
  <2> HIDE DEF c, past
  <2> QED BY <1>1, <1>2, <2>1, <2>2 DEF Walk, Step
<1>4. walk' = [walk EXCEPT ![w] = r]
  <2> HIDE DEF past, c
  <2>1. walk' = [walk EXCEPT ![w].step = "fetch", ![w].cursor = c,
                             ![w].past = past, ![w].page = 1]
    BY DEF BeginRegion, past, c
  <2> QED BY <2>1 DEF IngestInv
<1>5. aged' \subseteq feed
  BY DEF BeginRegion, IngestInv, SharedOK
<1>6. /\ UNCHANGED <<now, feed, ledger, cursor, saturated, skipped, stage>>
      /\ walk[w].step = "begin"
  BY DEF BeginRegion, leaseVars
<1>7. /\ walk' \in [Worker -> Walk]
      /\ walk'[w] = r
      /\ \A v \in Worker : v # w => walk'[v] = walk[v]
  <2> HIDE DEF r
  <2> QED BY <1>3, <1>4, OneWalkChanges DEF IngestInv
<1>8. SharedOK'
  BY <1>5, <1>6 DEF IngestInv, SharedOK, CursorBacked
<1>9. ASSUME NEW v \in Worker PROVE WalkSound(v)'
  <2> HIDE DEF r, c
  <2> QED BY <1>1, <1>3, <1>6, <1>7 DEF IngestInv, WalkSound
<1> QED BY <1>7, <1>8, <1>9 DEF OwnOK

\* A page request keeps it: a page holds only kills zKill listed, and a walk
\* asks for MaxPages pages at most.
LEMMA FetchPageKeeps ==
  ASSUME IngestInv, NEW w \in Worker, FetchPage(w)
  PROVE  OwnOK'
<1> DEFINE batch == PageOf(walk[w].past, walk[w].page)
           got == walk[w].got \cup batch
           rest == Short(batch) \/ ReachesCursor(batch, walk[w].cursor)
           r == IF rest THEN [walk[w] EXCEPT !.step = "store", !.got = got]
                ELSE IF walk[w].page = MaxPages
                THEN [walk[w] EXCEPT !.step = "store", !.got = got, !.full = TRUE]
                ELSE [walk[w] EXCEPT !.got = got, !.page = walk[w].page + 1]
<1>1. got \subseteq feed
  BY DEF PageOf, IngestInv, WalkSound
<1>2. /\ UNCHANGED <<now, feed, ledger, cursor, saturated, skipped, aged, stage>>
      /\ walk[w].step = "fetch"
      /\ walk' = [walk EXCEPT ![w] = r]
  BY DEF FetchPage, leaseVars, IngestInv
<1>3. r \in Walk /\ r.cursor = walk[w].cursor /\ r.got = got
      /\ r.step \in {"fetch", "store"}
  <2>1. walk[w] \in Walk /\ walk[w].page \in 0..MaxPages
    BY DEF IngestInv, Walk
  <2>2. got \in SUBSET Instant
    BY <1>1 DEF IngestInv, SharedOK
  <2>3. walk[w].page # MaxPages => walk[w].page + 1 \in 0..MaxPages
    BY <2>1, IngestAssumption
  <2>4. walk[w].step = "fetch"
    BY <1>2
  <2> HIDE DEF got, rest
  <2>5. CASE rest
    BY <2>1, <2>2, <2>5 DEF Walk, Step
  <2>6. CASE ~rest /\ walk[w].page = MaxPages
    BY <2>1, <2>2, <2>6 DEF Walk, Step
  <2>7. CASE ~rest /\ walk[w].page # MaxPages
    BY <2>1, <2>2, <2>3, <2>4, <2>7 DEF Walk, Step
  <2> QED BY <2>5, <2>6, <2>7
<1>4. /\ walk' \in [Worker -> Walk]
      /\ walk'[w] = r
      /\ \A v \in Worker : v # w => walk'[v] = walk[v]
  <2> HIDE DEF r
  <2> QED BY <1>2, <1>3, OneWalkChanges DEF IngestInv
<1>5. SharedOK'
  BY <1>2 DEF IngestInv, SharedOK, CursorBacked
<1>6. ASSUME NEW v \in Worker PROVE WalkSound(v)'
  <2> HIDE DEF r, got
  <2> QED BY <1>1, <1>2, <1>3, <1>4 DEF IngestInv, WalkSound
<1> QED BY <1>4, <1>5, <1>6 DEF OwnOK

\* Storing keeps it: afterwards the ledger has all the cycle holds.
LEMMA StoreKeeps ==
  ASSUME IngestInv, NEW w \in Worker, Store(w)
  PROVE  OwnOK'
<1> DEFINE r == [walk[w] EXCEPT !.step = "advance"]
<1>1. r \in Walk /\ r.cursor = walk[w].cursor /\ r.got = walk[w].got
      /\ r.step = "advance"
  BY DEF IngestInv, Walk, Step
<1>2. /\ UNCHANGED <<now, feed, cursor, saturated, aged, stage>>
      /\ walk[w].step = "store"
      /\ ledger' = ledger \cup walk[w].got
  BY DEF Store, leaseVars
<1>3. walk' = [walk EXCEPT ![w] = r]
  BY DEF Store, IngestInv
<1>4. /\ walk' \in [Worker -> Walk]
      /\ walk'[w] = r
      /\ \A v \in Worker : v # w => walk'[v] = walk[v]
  <2> HIDE DEF r
  <2> QED BY <1>1, <1>3, OneWalkChanges DEF IngestInv
<1>5. skipped' \subseteq feed
  BY DEF Store, Unreached, IngestInv, SharedOK
<1>6. SharedOK'
  BY <1>2, <1>5 DEF IngestInv, SharedOK, CursorBacked, WalkSound
<1>7. ASSUME NEW v \in Worker PROVE WalkSound(v)'
  <2> HIDE DEF r
  <2> QED BY <1>1, <1>2, <1>4 DEF IngestInv, WalkSound
<1> QED BY <1>4, <1>6, <1>7 DEF OwnOK

\* The only step that moves the cursor: to the newest kill of a batch that
\* is already stored, or back to the stored kill the walk started from.
LEMMA AdvanceKeeps ==
  ASSUME IngestInv, NEW w \in Worker, Advance(w)
  PROVE  OwnOK'
<1>1. /\ UNCHANGED <<now, feed, ledger, skipped, aged>>
      /\ walk[w].step = "advance"
      /\ EndCycle(w)
      /\ walk' = [walk EXCEPT ![w] = NoWalk]
      /\ saturated' = walk[w].full
      /\ cursor' = IF walk[w].got = {} THEN walk[w].cursor ELSE Max(walk[w].got)
  BY DEF Advance
<1>2. cursor' \in ledger \cup {NoCursor}
  <2>1. CASE walk[w].got = {}
    BY <1>1, <2>1 DEF IngestInv, WalkSound
  <2>2. CASE walk[w].got # {}
    <3>1. walk[w].got \subseteq ledger /\ walk[w].got \in SUBSET (0..MaxTime)
      BY <1>1 DEF IngestInv, WalkSound, SharedOK, Instant
    <3> QED BY <3>1, <2>2, <1>1, MaxOfBounded, IngestAssumption
  <2> QED BY <2>1, <2>2
<1>3. saturated' \in BOOLEAN
  <2>1. walk[w] \in Walk
    BY DEF IngestInv
  <2> QED BY <1>1, <2>1 DEF Walk
<1>4. SharedOK'
  BY <1>1, <1>2, <1>3 DEF IngestInv, SharedOK, CursorBacked, Cursor
<1>5. /\ walk' \in [Worker -> Walk]
      /\ walk'[w] = NoWalk
      /\ \A v \in Worker : v # w => walk'[v] = walk[v]
  BY <1>1, OneWalkChanges, IdleWalk DEF IngestInv
<1>6. ASSUME NEW v \in Worker PROVE WalkSound(v)'
  BY <1>1, <1>5, IdleWalk, EndCycleStage DEF IngestInv, WalkSound
<1> QED BY <1>4, <1>5, <1>6 DEF OwnOK

\* Steps that are not part of a cycle.
LEMMA OtherStepsKeep ==
  ASSUME IngestInv,
         \/ \E t \in Instant : Publish(t)
         \/ \E w \in Worker : Live(w) \/ Die(w)
         \/ PassTime
         \/ UNCHANGED ingestVars
  PROVE  OwnOK'
<1>1. ASSUME NEW t \in Instant, Publish(t) PROVE OwnOK'
  BY <1>1 DEF Publish, leaseVars, IngestInv, OwnOK, SharedOK, CursorBacked, WalkSound
<1>2. ASSUME NEW w \in Worker, Live(w) PROVE OwnOK'
  \* A worker that is not in a cycle has no cycle's variables to lose.
  <2>1. UNCHANGED ingestOnly /\ \A v \in Worker : stage[v] = "polling" => stage'[v] = "polling"
    BY <1>2 DEF Live, Boot, ReadClock, ClaimTimesOut, Sleep, IngestInv, LeaseTypeOK
  <2> QED BY <2>1 DEF ingestOnly, IngestInv, OwnOK, SharedOK, CursorBacked, WalkSound
<1>3. ASSUME NEW w \in Worker, Die(w) PROVE OwnOK'
  <2>1. /\ walk' \in [Worker -> Walk]
        /\ walk'[w] = NoWalk
        /\ \A v \in Worker : v # w => walk'[v] = walk[v]
    BY <1>3, OneWalkChanges, IdleWalk DEF Die, IngestInv
  <2>2. /\ UNCHANGED <<now, feed, ledger, cursor, saturated, skipped, aged>>
        /\ \A v \in Worker : v # w => stage'[v] = stage[v]
    BY <1>3 DEF Die, Crash, IngestInv, LeaseTypeOK
  <2> QED BY <2>1, <2>2, IdleWalk DEF IngestInv, OwnOK, SharedOK, CursorBacked, WalkSound
<1>4. CASE PassTime
  <2>1. now' \in Instant
    <3>1. now + 1 \in Int /\ MaxTime \in Int
      BY IngestAssumption DEF IngestInv, SharedOK, Instant
    <3>2. now' = IF now + 1 <= MaxTime THEN now + 1 ELSE MaxTime
      BY <1>4, <3>1, MinOfTwo DEF PassTime
    <3> QED BY <3>2, IngestAssumption DEF IngestInv, SharedOK, Instant
  <2>2. UNCHANGED <<feed, ledger, cursor, saturated, walk, skipped, aged, stage>>
    BY <1>4 DEF PassTime, Tick
  <2> QED BY <2>1, <2>2 DEF IngestInv, OwnOK, SharedOK, CursorBacked, WalkSound
<1>5. CASE UNCHANGED ingestVars
  BY <1>5 DEF ingestVars, ingestOnly, leaseVars, IngestInv, OwnOK, SharedOK,
              CursorBacked, WalkSound
<1> QED BY <1>1, <1>2, <1>3, <1>4, <1>5

\* Every step of the ingest preserves the inductive invariant.
LEMMA IngestInvStep == IngestInv /\ [IngestNext]_ingestVars => IngestInv'
<1> SUFFICES ASSUME IngestInv, [IngestNext]_ingestVars PROVE IngestInv'
  OBVIOUS
<1>1. LeaseTypeOK'
  BY IngestStepIsLeaseStep, LeaseTypingStep DEF IngestInv
<1>2. ASSUME NEW w \in Worker, CycleStep(w) PROVE OwnOK'
  <2>1. CASE FetchFails(w)
    BY <2>1, GivesUp DEF FetchFails, OwnOK
  <2>2. CASE DatabaseFails(w)
    BY <2>2, GivesUp DEF DatabaseFails, OwnOK
  <2>3. CASE BeginCycle(w) \/ ReadState(w) \/ BeginRegion(w)
    BY <2>3, BeginCycleKeeps, ReadStateKeeps, BeginRegionKeeps
  <2>4. CASE FetchPage(w) \/ Store(w) \/ Advance(w)
    BY <2>4, FetchPageKeeps, StoreKeeps, AdvanceKeeps
  <2> QED BY <1>2, <2>1, <2>2, <2>3, <2>4 DEF CycleStep
<1>3. OwnOK'
  BY <1>2, OtherStepsKeep DEF IngestNext
<1> QED BY <1>1, <1>3 DEF IngestInv, OwnOK

\* The inductive invariant holds in every reachable state.
LEMMA IngestInvHolds == IngestSpec => []IngestInv
<1>1. IngestInit => IngestInv
  <2>1. IngestInit => LeaseTypeOK
    BY LeaseAssumption DEF IngestInit, LeaseInit, LeaseTypeOK, Stage, LongPast
  <2>2. IngestInit => walk \in [Worker -> Walk] /\ \A w \in Worker : walk[w] = NoWalk
    BY IdleWalk DEF IngestInit
  <2>3. IngestInit => SharedOK
    <3>1. IngestInit => saturated \in BOOLEAN
      BY DEF IngestInit
    <3>2. IngestInit => now \in Instant /\ cursor \in Cursor
      BY IngestAssumption DEF IngestInit, Cursor, Instant
    <3>3. IngestInit => feed = {} /\ ledger = {} /\ skipped = {} /\ aged = {} /\ cursor = NoCursor
      BY DEF IngestInit
    <3> QED BY <3>1, <3>2, <3>3 DEF SharedOK, CursorBacked
  <2>4. IngestInit => \A w \in Worker : WalkSound(w)
    BY <2>2, IdleWalk DEF WalkSound
  <2> QED BY <2>1, <2>2, <2>3, <2>4 DEF IngestInv
<1> QED BY <1>1, IngestInvStep, PTL DEF IngestSpec

\* The shared data and the local variables of every cycle keep their types,
\* the ledger holds only kills zKill listed, and only a worker that was
\* granted the lease of the war is in a cycle.
THEOREM IngestTyping == IngestSpec => []IngestTypeOK
<1>1. IngestInv => IngestTypeOK
  BY DEF IngestInv, IngestTypeOK, SharedOK, WalkSound
<1> QED BY <1>1, IngestInvHolds, PTL

\* The stored cursor is always a kill the ledger holds, for any number of
\* workers whose cycles overlap, fail and crash in any order: the poller
\* never skips kills because a fetch or a store that came to nothing moved
\* the cursor.
THEOREM CursorNeverAhead == IngestSpec => []CursorBacked
<1>1. IngestInv => CursorBacked
  BY DEF IngestInv, SharedOK
<1> QED BY <1>1, IngestInvHolds, PTL

----------------------------------------------------------------------------
(* Ranks: how zKill's pages follow from how many newer kills there are      *)

\* How many of the kills in W are newer than k.
Rank(W, k) == Cardinality({j \in W : j > k})

\* A rank is a number, and an older kill has at least the rank of a newer one.
LEMMA RankType ==
  ASSUME NEW W \in SUBSET Nat, IsFiniteSet(W), NEW k \in Nat
  PROVE  Rank(W, k) \in Nat
<1>1. {j \in W : j > k} \in SUBSET W
  OBVIOUS
<1> QED BY <1>1, FS_Subset, FS_CardinalityType DEF Rank

LEMMA RankFalls ==
  ASSUME NEW W \in SUBSET Nat, IsFiniteSet(W), NEW k \in Nat, NEW j \in Nat, k <= j
  PROVE  Rank(W, j) <= Rank(W, k)
<1> DEFINE A == {i \in W : i > k}
           B == {i \in W : i > j}
<1>1. A \in SUBSET W /\ B \in SUBSET A
  <2>1. \A i \in W : i > j => i > k
    OBVIOUS
  <2> QED BY <2>1
<1>2. IsFiniteSet(A)
  BY <1>1, FS_Subset
<1>3. Cardinality(B) <= Cardinality(A)
  BY <1>1, <1>2, FS_Subset
<1> QED BY <1>3 DEF Rank

\* The set of newer kills only grows when the list does.
LEMMA RankGrows ==
  ASSUME NEW W \in SUBSET Nat, NEW V \in SUBSET Nat, IsFiniteSet(V), W \subseteq V, NEW k \in Nat
  PROVE  Rank(W, k) <= Rank(V, k)
<1> DEFINE A == {i \in V : i > k}
           B == {i \in W : i > k}
<1>1. A \in SUBSET V /\ B \in SUBSET A
  OBVIOUS
<1>2. IsFiniteSet(A)
  BY <1>1, FS_Subset
<1>3. Cardinality(B) <= Cardinality(A)
  BY <1>1, <1>2, FS_Subset
<1> QED BY <1>3 DEF Rank

\* The next newer kill has the next smaller rank.
LEMMA NextNewer ==
  ASSUME NEW W \in SUBSET Nat, IsFiniteSet(W), NEW x \in W, Rank(W, x) # 0
  PROVE  \E y \in W : y > x /\ Rank(W, y) = Rank(W, x) - 1
<1> DEFINE A == {i \in W : i > x}
<1>1. A \in SUBSET Nat /\ IsFiniteSet(A)
  <2>1. A \in SUBSET W
    OBVIOUS
  <2> QED BY <2>1, FS_Subset
<1>2. A # {}
  BY FS_EmptySet DEF Rank
<1>3. PICK y \in A : \A z \in A : y <= z
  <2> HIDE DEF A
  <2> QED BY <1>1, <1>2, LeastNatural
<1>4. {i \in W : i > y} = A \ {y}
  <2>1. y > x /\ y \in Nat /\ x \in Nat
    OBVIOUS
  <2>2. ASSUME NEW i \in W, i > y PROVE i \in A /\ i # y
    BY <2>1, <2>2
  <2>3. ASSUME NEW i \in A, i # y PROVE i \in W /\ i > y
    BY <1>3, <2>1, <2>3
  <2> QED BY <2>2, <2>3
<1>5. Cardinality(A \ {y}) = Cardinality(A) - 1
  <2> HIDE DEF A
  <2> QED BY <1>1, <1>3, FS_RemoveElement
<1>6. y \in W /\ y > x
  BY <1>3
<1>7. Rank(W, y) = Cardinality(A \ {y})
  <2> HIDE DEF A
  <2> QED BY <1>4 DEF Rank
<1>8. Rank(W, x) = Cardinality(A)
  BY DEF Rank
<1> QED BY <1>5, <1>6, <1>7, <1>8

\* Ranks have no gaps: below the rank of a kill every rank is some kill's.
LEMMA RankExists ==
  ASSUME NEW n \in Nat, NEW W \in SUBSET (0..n), NEW k \in W, NEW r \in Nat, r <= Rank(W, k)
  PROVE  \E x \in W : Rank(W, x) = r
<1>1. W \in SUBSET Nat /\ IsFiniteSet(W)
  <2>1. IsFiniteSet(0..n)
    BY FS_Interval
  <2>2. IsFiniteSet(W)
    BY <2>1, FS_Subset
  <2>3. \A i \in 0..n : i \in Nat
    OBVIOUS
  <2> QED BY <2>2, <2>3
<1> DEFINE S == {x \in W : Rank(W, x) >= r}
<1>2. S \in SUBSET (0..n) /\ S # {}
  <2>1. Rank(W, k) \in Nat
    BY <1>1, RankType
  <2>2. k \in S
    BY <2>1
  <2> QED BY <2>2
<1> DEFINE x == Max(S)
<1>3. x \in S /\ \A y \in S : y <= x
  <2> HIDE DEF S
  <2> QED BY <1>2, MaxOfBounded
<1>4. x \in W /\ Rank(W, x) \in Nat /\ Rank(W, x) >= r
  <2>1. x \in W /\ Rank(W, x) >= r
    BY <1>3
  <2> HIDE DEF x
  <2> QED BY <2>1, <1>1, RankType
<1>5. Rank(W, x) = r
  <2>1. SUFFICES ASSUME Rank(W, x) # r PROVE FALSE
    OBVIOUS
  <2>2. Rank(W, x) # 0 /\ Rank(W, x) - 1 >= r
    BY <2>1, <1>4
  <2>3. PICK y \in W : y > x /\ Rank(W, y) = Rank(W, x) - 1
    <3> HIDE DEF x
    <3> QED BY <2>2, <1>1, <1>4, NextNewer
  <2>4. y \in S
    BY <2>2, <2>3
  <2>5. y > x /\ y <= x /\ y \in Nat /\ x \in Nat
    <3>1. y > x /\ y \in W
      BY <2>3
    <3>2. y <= x
      BY <2>4, <1>3
    <3> HIDE DEF x
    <3> QED BY <3>1, <3>2, <1>4, <1>1
  <2> HIDE DEF x
  <2> QED BY <2>5
<1> QED BY <1>4, <1>5

\* Page arithmetic: which numbers fall on page q when a page has P.
LEMMA PageStart ==
  ASSUME NEW P \in Nat \ {0}, NEW q \in Nat, NEW i \in (q * P)..(q * P + P - 1)
  PROVE  i \div P = q
<1>1. i - q * P \in 0..(P - 1) /\ i = q * P + (i - q * P)
  OBVIOUS
<1>2. \A d \in 0..(P - 1) : (q * P + d) \div P = q
  OBVIOUS
<1> QED BY <1>1, <1>2

LEMMA PageBefore ==
  ASSUME NEW P \in Nat \ {0}, NEW q \in Nat, NEW a \in Nat, a \div P > q
  PROVE  a >= q * P + P
<1>1. a \div P \in Nat
  OBVIOUS
<1>2. a \div P >= q + 1
  BY <1>1
<1> QED BY <1>2

LEMMA Quotients ==
  ASSUME NEW P \in Nat \ {0}, NEW a \in Nat, NEW b \in Nat, a <= b
  PROVE  a \div P \in Nat /\ b \div P \in Nat /\ a \div P <= b \div P
<1>1. a \div P \in Nat /\ b \div P \in Nat
  OBVIOUS
<1>2. a \div P <= b \div P
  OBVIOUS
<1> QED BY <1>1, <1>2

\* A page that a kill comes after is full: only the last page is short.
LEMMA OnlyLastIsShort ==
  ASSUME NEW n \in Nat, NEW W \in SUBSET (0..n), NEW k \in W,
         NEW P \in Nat \ {0}, NEW q \in Nat, Rank(W, k) \div P > q,
         NEW B \in SUBSET W, \A x \in W : x \in B <=> Rank(W, x) \div P = q
  PROVE  Cardinality(B) >= P
<1> DEFINE lo == q * P
           I == lo..(lo + P - 1)
           f == [i \in I |-> CHOOSE x \in W : Rank(W, x) = i]
<1>1. W \in SUBSET Nat /\ IsFiniteSet(W)
  <2>1. IsFiniteSet(0..n)
    BY FS_Interval
  <2>2. IsFiniteSet(W)
    BY <2>1, FS_Subset
  <2>3. \A i \in 0..n : i \in Nat
    OBVIOUS
  <2> QED BY <2>2, <2>3
<1>2. IsFiniteSet(B)
  BY <1>1, FS_Subset
<1>3. lo \in Nat
  OBVIOUS
<1>4. Rank(W, k) >= lo + P
  <2>1. Rank(W, k) \in Nat
    BY <1>1, RankType
  <2> QED BY <2>1, PageBefore
<1>5. ASSUME NEW i \in I PROVE f[i] \in B /\ Rank(W, f[i]) = i
  <2>1. i \in Nat /\ i <= Rank(W, k)
    <3>1. Rank(W, k) \in Nat
      BY <1>1, RankType
    <3> HIDE DEF lo
    <3> QED BY <1>3, <1>4, <3>1
  <2>2. \E x \in W : Rank(W, x) = i
    BY <2>1, RankExists
  <2>3. f[i] \in W /\ Rank(W, f[i]) = i
    BY <2>2
  <2>4. i \div P = q
    BY PageStart
  <2> QED BY <2>3, <2>4
<1>6. f \in Injection(I, B)
  <2>1. f \in [I -> B]
    <3>1. f = [i \in I |-> f[i]]
      OBVIOUS
    <3> HIDE DEF f, I
    <3> QED BY <3>1, <1>5
  <2>2. \A a, b \in I : f[a] = f[b] => a = b
    <3> HIDE DEF f, I
    <3> QED BY <1>5
  <2> HIDE DEF f, I
  <2> QED BY <2>1, <2>2 DEF Injection, IsInjective
<1>7. Cardinality(I) <= Cardinality(B)
  <2> HIDE DEF f, I
  <2> QED BY <1>2, <1>6, FS_Injection
<1>8. Cardinality(I) = P
  <2>1. lo \in Int /\ lo + P - 1 \in Int /\ ~(lo > lo + P - 1) /\ lo + P - 1 - lo + 1 = P
    <3> HIDE DEF lo
    <3> QED BY <1>3
  <2> HIDE DEF lo
  <2> QED BY <2>1, FS_Interval
<1>9. Cardinality(B) \in Nat
  BY <1>2, FS_CardinalityType
<1> QED BY <1>7, <1>8

----------------------------------------------------------------------------
(* No kill published in time is stepped over                                *)

\* The kills zKill published in time that nothing accounts for.
Missing == (feed \ Delayed) \ (ledger \cup skipped \cup aged)

\* What the requests of a walk that asks for past seconds page through.
Window(past) == {k \in feed : k >= now - past}
Newer(past, k) == Rank(Window(past), k)

\* A missing kill is newer than everything stored.
NewestMissing == \A k \in Missing, j \in ledger : k > j

\* The requests of a walk reach every missing kill.
InReach(w) == walk[w].step = "fetch" => \A k \in Missing : k >= now - walk[w].past

\* What a walk has after page - 1 pages: the kills of those pages, except
\* one published since, and none of the kills that come after them.
PagesSoFar(w) ==
    walk[w].step = "fetch" =>
        /\ walk[w].page >= 1
        /\ \A k \in Window(walk[w].past) \ Delayed :
              \/ k \in walk[w].got
              \/ k = now
              \/ /\ Newer(walk[w].past, k) \div PageSize >= walk[w].page - 1
                 /\ \A j \in walk[w].got : k < j

\* What a finished walk has: it misses only kills newer than all of its own,
\* or older ones when it hit the page cap.
Collected(w) ==
    walk[w].step = "store" =>
        \A k \in Missing :
            \/ k \in walk[w].got
            \/ \A j \in walk[w].got : k > j
            \/ walk[w].full /\ \A j \in walk[w].got : k < j

StartsEmpty(w) == walk[w].step \in {"read", "begin"} => walk[w].got = {}

WalkComplete(w) == InReach(w) /\ PagesSoFar(w) /\ Collected(w) /\ StartsEmpty(w)

\* The inductive invariant of NoPromptKillLost, on top of IngestInv.
LossInv ==
    /\ feed \subseteq 0..now
    /\ NewestMissing
    /\ \A w \in Worker : WalkComplete(w)

\* zKill's list is a finite set of times up to now.
LEMMA FeedFinite ==
  ASSUME IngestInv, LossInv
  PROVE  now \in Nat /\ feed \in SUBSET Nat /\ IsFiniteSet(feed)
<1>1. now \in Nat
  BY IngestAssumption DEF IngestInv, SharedOK, Instant
<1>2. IsFiniteSet(0..now)
  BY <1>1, FS_Interval
<1>3. IsFiniteSet(feed)
  BY <1>2, FS_Subset DEF LossInv
<1>4. \A i \in 0..now : i \in Nat
  OBVIOUS
<1> QED BY <1>1, <1>3, <1>4 DEF LossInv

\* The types of one worker's walk.
LEMMA WalkFields ==
  ASSUME IngestInv, NEW w \in Worker
  PROVE  /\ walk[w].past \in Nat /\ walk[w].page \in Nat
         /\ walk[w].got \subseteq feed /\ walk[w].full \in BOOLEAN
         /\ walk[w].cursor \in ledger \cup {NoCursor}
<1>1. walk[w] \in Walk
  BY DEF IngestInv
<1> QED BY <1>1, IngestAssumption DEF Walk, IngestInv, WalkSound

\* A step that keeps the list and the clock, and gives no kill up.
LEMMA QuietStep ==
  ASSUME IngestInv, LossInv, feed' = feed, now' = now,
         ledger \subseteq ledger', skipped \subseteq skipped', aged \subseteq aged',
         NewestMissing',
         NEW w \in Worker,
         \A v \in Worker : v # w => walk'[v] = walk[v],
         WalkComplete(w)'
  PROVE  LossInv'
<1>1. Missing' \subseteq Missing
  BY DEF Missing
<1>2. ASSUME NEW v \in Worker, v # w PROVE WalkComplete(v)'
  <2>1. walk'[v] = walk[v] /\ WalkComplete(v)
    BY <1>2 DEF LossInv
  <2>2. InReach(v)' /\ Collected(v)' /\ StartsEmpty(v)'
    BY <1>1, <2>1 DEF WalkComplete, InReach, Collected, StartsEmpty
  <2>3. PagesSoFar(v)'
    BY <2>1 DEF WalkComplete, PagesSoFar, Window, Newer
  <2> QED BY <2>2, <2>3 DEF WalkComplete
<1>3. (feed \subseteq 0..now)'
  BY DEF LossInv
<1> QED BY <1>2, <1>3 DEF LossInv

\* A worker that is not fetching, has not finished fetching and holds nothing
\* yet says nothing about what is missing.
LEMMA NothingToSay ==
  ASSUME NEW w \in Worker, (walk[w].step \notin {"fetch", "store"})',
         StartsEmpty(w)'
  PROVE  WalkComplete(w)'
BY DEF WalkComplete, InReach, PagesSoFar, Collected

\* zKill lists one more kill.
LEMMA PublishLoss ==
  ASSUME IngestInv, LossInv, NEW t \in Instant, Publish(t)
  PROVE  LossInv'
<1>1. /\ UNCHANGED <<now, ledger, walk, skipped, aged>>
      /\ feed' = feed \cup {t} /\ t \notin feed
      /\ IF t \in Delayed THEN t < now ELSE t = now
  BY DEF Publish
<1>2. now \in Nat /\ t \in Nat /\ feed \in SUBSET Nat /\ IsFiniteSet(feed) /\ feed \subseteq 0..now
  BY FeedFinite, IngestAssumption DEF Instant, LossInv
<1>3. Missing' \subseteq Missing \cup {t} /\ (t \in Delayed => Missing' \subseteq Missing)
  BY <1>1 DEF Missing
<1>4. t \notin Delayed => \A j \in feed : t > j
  <2>1. ASSUME t = now, NEW j \in feed PROVE t > j
    BY <1>1, <1>2, <2>1
  <2> QED BY <2>1, <1>1
<1>5. (feed \subseteq 0..now)'
  BY <1>1, <1>2
<1>6. NewestMissing'
  BY <1>1, <1>3, <1>4 DEF NewestMissing, LossInv, IngestInv, SharedOK
<1>7. ASSUME NEW w \in Worker PROVE WalkComplete(w)'
  <2>1. /\ walk'[w] = walk[w] /\ WalkComplete(w) /\ walk[w].got \subseteq feed
        /\ walk[w].past \in Nat /\ walk[w].page \in Nat
    BY <1>1, WalkFields DEF LossInv
  <2>2. InReach(w)'
    <3>1. t \notin Delayed => t >= now - walk[w].past
      BY <1>1, <1>2, <2>1
    <3> QED BY <1>1, <1>3, <2>1, <3>1 DEF WalkComplete, InReach
  <2>3. Collected(w)'
    BY <1>1, <1>3, <1>4, <2>1 DEF WalkComplete, Collected
  <2>4. StartsEmpty(w)'
    BY <2>1 DEF WalkComplete, StartsEmpty
  <2>5. PagesSoFar(w)'
    <3>1. SUFFICES ASSUME walk[w].step = "fetch",
                          NEW k \in Window(walk[w].past)' \ Delayed, k # now,
                          k \notin walk[w].got
                   PROVE  /\ (Newer(walk[w].past, k) \div PageSize)' >= walk[w].page - 1
                          /\ \A j \in walk[w].got : k < j
      <4>1. walk[w].step = "fetch" => walk[w].page >= 1
        BY <2>1 DEF WalkComplete, PagesSoFar
      <4> QED BY <1>1, <2>1, <4>1 DEF PagesSoFar, Newer, Window
    <3>2. k \in Window(walk[w].past) \ Delayed
      BY <1>1, <3>1, <2>1 DEF Window
    <3>3. /\ Newer(walk[w].past, k) \div PageSize >= walk[w].page - 1
          /\ \A j \in walk[w].got : k < j
      BY <3>1, <3>2, <2>1 DEF WalkComplete, PagesSoFar
    <3> DEFINE W == Window(walk[w].past)
               V == Window(walk[w].past)'
    <3>4. /\ W \in SUBSET Nat /\ V \in SUBSET Nat /\ W \subseteq V /\ k \in Nat
          /\ IsFiniteSet(W) /\ IsFiniteSet(V)
      <4>1. W \in SUBSET feed /\ V \in SUBSET (feed \cup {t}) /\ W \subseteq V
        BY <1>1, <2>1 DEF Window
      <4>2. IsFiniteSet(feed \cup {t})
        BY <1>2, FS_AddElement
      <4> HIDE DEF W, V
      <4>3. IsFiniteSet(W) /\ IsFiniteSet(V)
        BY <4>1, <4>2, <1>2, FS_Subset
      <4> QED BY <4>1, <4>3, <1>2, <3>2 DEF W
    <3>5. /\ Rank(W, k) \in Nat /\ Rank(V, k) \in Nat /\ Rank(W, k) <= Rank(V, k)
      <4> HIDE DEF W, V
      <4> QED BY <3>4, RankType, RankGrows
    <3>6. Rank(V, k) \div PageSize >= walk[w].page - 1
      <4>1. Rank(W, k) \div PageSize >= walk[w].page - 1
        BY <3>3 DEF Newer
      <4> HIDE DEF W, V
      <4>2. /\ Rank(W, k) \div PageSize \in Nat /\ Rank(V, k) \div PageSize \in Nat
            /\ Rank(W, k) \div PageSize <= Rank(V, k) \div PageSize
        BY <3>5, IngestAssumption, Quotients
      <4>3. walk[w].page - 1 \in Int
        BY <2>1
      <4> QED BY <4>1, <4>2, <4>3
    <3>7. Newer(walk[w].past, k)' = Rank(V, k)
      BY <2>1 DEF Newer
    <3> QED BY <3>3, <3>6, <3>7
  <2> QED BY <2>2, <2>3, <2>4, <2>5 DEF WalkComplete
<1> QED BY <1>5, <1>6, <1>7 DEF LossInv

\* A walk asks back to its cursor, unless it asks for zKill's whole window.
LEMMA WindowReaches ==
  ASSUME now \in Nat, NEW c \in Cursor, WindowFor(c) # MaxWindow
  PROVE  Known(c) /\ now - WindowFor(c) <= c
<1> USE IngestAssumption
<1>1. Known(c)
  BY DEF WindowFor
<1>2. c \in Nat
  BY <1>1 DEF Cursor, Instant, Known
<1> DEFINE e == now - c + Overlap
           m == Min({MaxWindow, e})
<1>3. e \in Int /\ e >= now - c
  BY <1>2
<1>4. m = IF MaxWindow <= e THEN MaxWindow ELSE e
  <2> HIDE DEF e
  <2> QED BY <1>3, MinOfTwo DEF m
<1>5. WindowFor(c) = IF MinWindow >= m THEN MinWindow ELSE m
  <2>1. m \in Int
    <3> HIDE DEF m, e
    <3> QED BY <1>3, <1>4
  <2>2. WindowFor(c) = Max({MinWindow, m})
    BY <1>1 DEF WindowFor
  <2> HIDE DEF m
  <2> QED BY <2>1, <2>2, MaxOfTwo
<1>6. m = e /\ WindowFor(c) >= e
  <2> HIDE DEF m, e
  <2> QED BY <1>3, <1>4, <1>5
<1>7. WindowFor(c) \in Int
  <2> HIDE DEF m, e
  <2> QED BY <1>3, <1>4, <1>5
<1> HIDE DEF e
<1>8. WindowFor(c) >= now - c
  BY <1>2, <1>3, <1>6, <1>7
<1> QED BY <1>1, <1>2, <1>7, <1>8

\* How PagesSoFar is shown of a worker's next walk, from the values p, n and
\* g of its fields.
LEMMA FromPages ==
  ASSUME NEW w \in Worker, NEW p, NEW n, NEW g, feed' = feed, now' = now,
         walk'[w].past = p, walk'[w].page = n, walk'[w].got = g,
         n >= 1,
         \A k \in Window(p) \ Delayed :
            \/ k \in g
            \/ k = now
            \/ /\ Rank(Window(p), k) \div PageSize >= n - 1
               /\ \A j \in g : k < j
  PROVE  PagesSoFar(w)'
<1>1. Window(p)' = Window(p)
  BY DEF Window
<1>2. \A k : Newer(p, k)' = Rank(Window(p), k)
  BY <1>1 DEF Newer
<1>3. (Window(walk[w].past))' = Window(p)
  BY DEF Window
<1>4. \A k : (Newer(walk[w].past, k))' = Rank(Window(p), k)
  BY <1>3 DEF Newer
<1> QED BY <1>3, <1>4 DEF PagesSoFar

\* A walk that starts reaches every missing kill and has none of them yet.
LEMMA BeginRegionLoss ==
  ASSUME IngestInv, LossInv, NEW w \in Worker, BeginRegion(w)
  PROVE  LossInv'
<1> DEFINE c == IF Known(walk[w].cursor) THEN walk[w].cursor ELSE LatestKillTime
           past == WindowFor(c)
           r == [walk[w] EXCEPT !.step = "fetch", !.cursor = c, !.past = past, !.page = 1]
<1>1. c \in ledger \cup {NoCursor} /\ c \in Cursor
  <2>1. LatestKillTime \in ledger \cup {NoCursor}
    <3>1. ledger \subseteq 0..MaxTime
      BY DEF IngestInv, SharedOK, Instant
    <3> QED BY <3>1, MaxOfBounded, IngestAssumption DEF LatestKillTime
  <2> QED BY <2>1 DEF IngestInv, SharedOK, WalkSound, Cursor
<1>2. past \in 0..MaxWindow
  <2> HIDE DEF c
  <2> QED BY <1>1, WindowInRange DEF IngestInv, SharedOK
<1>3. walk' = [walk EXCEPT ![w] = r]
  <2> HIDE DEF past, c
  <2>1. walk' = [walk EXCEPT ![w].step = "fetch", ![w].cursor = c,
                             ![w].past = past, ![w].page = 1]
    BY DEF BeginRegion, past, c
  <2> QED BY <2>1 DEF IngestInv
<1>4. r.step = "fetch" /\ r.past = past /\ r.page = 1 /\ r.got = walk[w].got
  <2>1. walk[w] \in Walk
    BY DEF IngestInv
  <2> HIDE DEF c, past
  <2> QED BY <2>1 DEF Walk
<1>5. walk'[w] = r /\ \A v \in Worker : v # w => walk'[v] = walk[v]
  <2> HIDE DEF r
  <2> QED BY <1>3 DEF IngestInv
<1>6. /\ UNCHANGED <<now, feed, ledger, skipped>>
      /\ aged' = IF past = MaxWindow
                 THEN aged \cup {k \in feed \ ledger : k < now - past} ELSE aged
      /\ walk[w].step = "begin"
  BY DEF BeginRegion
<1>7. walk[w].got = {}
  BY <1>6 DEF LossInv, WalkComplete, StartsEmpty
<1>8. aged \subseteq aged' /\ Missing' \subseteq Missing
  <2> HIDE DEF past
  <2> QED BY <1>6 DEF Missing
<1>9. NewestMissing'
  <2> HIDE DEF past
  <2> QED BY <1>6, <1>8 DEF LossInv, NewestMissing
<1>10. ASSUME NEW k \in Missing' PROVE k >= now - past
  <2>1. k \in Missing /\ k \in feed \ ledger /\ k \notin aged'
    BY <1>6, <1>8 DEF Missing
  <2>2. now \in Nat /\ k \in Nat /\ past \in Nat
    <3> HIDE DEF past
    <3> QED BY <2>1, FeedFinite, <1>2, IngestAssumption
  <2>3. CASE past = MaxWindow
    <3> HIDE DEF past
    <3> QED BY <2>1, <2>2, <2>3, <1>6
  <2>4. CASE past # MaxWindow
    <3> HIDE DEF c
    <3>1. Known(c) /\ now - past <= c
      BY <2>2, <2>4, <1>1, WindowReaches
    <3>2. c \in ledger /\ c \in Nat
      BY <3>1, <1>1, IngestAssumption DEF Known, Cursor, Instant
    <3>3. k > c
      BY <2>1, <3>2 DEF LossInv, NewestMissing
    <3> HIDE DEF past
    <3> QED BY <2>2, <3>1, <3>2, <3>3
  <2> QED BY <2>3, <2>4
<1>11. WalkComplete(w)'
  <2> HIDE DEF r, past, c
  <2>1. InReach(w)'
    BY <1>4, <1>5, <1>6, <1>10 DEF InReach
  <2>2. PagesSoFar(w)'
    <3>1. ASSUME NEW k \in Window(past) PROVE Rank(Window(past), k) \div PageSize >= 1 - 1
      <4>1. past \in Nat /\ Window(past) \in SUBSET feed
        BY <1>2, IngestAssumption DEF Window
      <4>2. k \in Nat /\ Window(past) \in SUBSET Nat /\ IsFiniteSet(Window(past))
        BY <3>1, <4>1, FeedFinite, FS_Subset
      <4>3. Rank(Window(past), k) \in Nat
        BY <4>2, RankType
      <4>4. Rank(Window(past), k) \div PageSize \in Nat
        BY <4>3, Quotients, IngestAssumption
      <4> QED BY <4>4
    <3> QED BY <3>1, <1>4, <1>5, <1>6, <1>7, FromPages
  <2>3. Collected(w)' /\ StartsEmpty(w)'
    BY <1>4, <1>5 DEF Collected, StartsEmpty
  <2> QED BY <2>1, <2>2, <2>3 DEF WalkComplete
<1> HIDE DEF r, past, c
<1> QED BY <1>5, <1>6, <1>8, <1>9, <1>11, QuietStep

\* One page more.
LEMMA FetchPageLoss ==
  ASSUME IngestInv, LossInv, NEW w \in Worker, FetchPage(w)
  PROVE  LossInv'
<1> DEFINE c == walk[w].cursor
           past == walk[w].past
           page == walk[w].page
           W == Window(past)
           batch == PageOf(past, page)
           got == walk[w].got \cup batch
           done == Short(batch) \/ ReachesCursor(batch, c)
           r == IF done THEN [walk[w] EXCEPT !.step = "store", !.got = got]
                ELSE IF page = MaxPages
                THEN [walk[w] EXCEPT !.step = "store", !.got = got, !.full = TRUE]
                ELSE [walk[w] EXCEPT !.got = got, !.page = page + 1]
<1>1. /\ UNCHANGED <<now, feed, ledger, skipped, aged>>
      /\ walk[w].step = "fetch"
      /\ walk' = [walk EXCEPT ![w] = r]
  BY DEF FetchPage, IngestInv
<1>2. walk'[w] = r /\ \A v \in Worker : v # w => walk'[v] = walk[v]
  <2> HIDE DEF r
  <2> QED BY <1>1 DEF IngestInv
<1>3. /\ past \in Nat /\ page \in Nat /\ page >= 1 /\ walk[w].got \subseteq feed
      /\ c \in ledger \cup {NoCursor}
  BY <1>1, WalkFields DEF LossInv, WalkComplete, PagesSoFar
<1>4. /\ r.past = past /\ r.got = got
      /\ \/ r.step = "store" /\ (done \/ r.full)
         \/ r.step = "fetch" /\ ~done /\ r.page = page + 1
  <2>1. walk[w] \in Walk
    BY DEF IngestInv
  <2> HIDE DEF got, done
  <2>2. CASE done
    BY <2>1, <2>2 DEF Walk
  <2>3. CASE ~done /\ page = MaxPages
    BY <2>1, <2>3 DEF Walk
  <2>4. CASE ~done /\ page # MaxPages
    BY <2>1, <2>4, <1>1 DEF Walk
  <2> QED BY <2>2, <2>3, <2>4
<1>5. now \in Nat /\ feed \in SUBSET Nat /\ W \in SUBSET feed /\ W \in SUBSET Nat
      /\ W \in SUBSET (0..now) /\ IsFiniteSet(W)
  <2>1. W \in SUBSET feed
    BY DEF Window
  <2> HIDE DEF W
  <2> QED BY <2>1, FeedFinite, FS_Subset DEF LossInv
<1>6. batch = {k \in W : Rank(W, k) \div PageSize = page - 1}
  BY DEF PageOf, Rank, Window
<1>7. got \subseteq feed
  <2> HIDE DEF W, batch
  <2> QED BY <1>3, <1>5, <1>6
<1> HIDE DEF W, batch
\* A kill that comes on a later page is older than this page's.
<1>8. ASSUME NEW k \in W, Rank(W, k) \div PageSize > page - 1, NEW j \in batch
      PROVE  k < j
  <2>1. j \in W /\ j \in Nat /\ k \in Nat /\ Rank(W, j) \div PageSize = page - 1
    BY <1>5, <1>6
  <2>2. SUFFICES ASSUME j <= k PROVE FALSE
    BY <2>1
  <2>3. Rank(W, k) \in Nat /\ Rank(W, j) \in Nat /\ Rank(W, k) <= Rank(W, j)
    BY <1>5, <2>1, <2>2, RankType, RankFalls
  <2>4. /\ Rank(W, k) \div PageSize \in Nat /\ Rank(W, j) \div PageSize \in Nat
        /\ Rank(W, k) \div PageSize <= Rank(W, j) \div PageSize
    BY <2>3, IngestAssumption, Quotients
  <2>5. page - 1 \in Int
    BY <1>3
  <2> QED BY <1>8, <2>1, <2>4, <2>5
\* Where the walk is with a kill of its window after this page.
<1>9. ASSUME NEW k \in W \ Delayed
      PROVE  \/ k \in got
             \/ k = now
             \/ /\ Rank(W, k) \div PageSize > page - 1
                /\ \A j \in got : k < j
  <2>1. \/ k \in walk[w].got
        \/ k = now
        \/ /\ Rank(W, k) \div PageSize >= page - 1
           /\ \A j \in walk[w].got : k < j
    BY <1>1, <1>9 DEF LossInv, WalkComplete, PagesSoFar, Newer, W
  <2>2. SUFFICES ASSUME Rank(W, k) \div PageSize >= page - 1,
                        \A j \in walk[w].got : k < j, k \notin batch
                 PROVE  /\ Rank(W, k) \div PageSize > page - 1
                        /\ \A j \in got : k < j
    BY <2>1
  <2>3. Rank(W, k) \in Nat
    BY <1>5, RankType
  <2>4. Rank(W, k) \div PageSize \in Nat
    BY <2>3, IngestAssumption, Quotients
  <2>5. Rank(W, k) \div PageSize > page - 1
    BY <1>3, <1>6, <2>2, <2>4
  <2> QED BY <1>8, <2>2, <2>5
\* A page that ends the walk has nothing missing after it.
<1>10. ASSUME done, NEW k \in W, k \in Missing, Rank(W, k) \div PageSize > page - 1
       PROVE  FALSE
  <2>1. Cardinality(batch) >= PageSize
    <3>1. page - 1 \in Nat
      BY <1>3
    <3>2. PICK q \in Nat : q = page - 1
      BY <3>1
    <3>3. Rank(W, k) \div PageSize > q
      BY <3>2, <1>10
    <3>4. batch \in SUBSET W /\ \A x \in W : x \in batch <=> Rank(W, x) \div PageSize = q
      BY <3>2, <1>6
    <3> HIDE DEF page
    <3> QED BY <3>3, <3>4, <1>5, OnlyLastIsShort, IngestAssumption
  <2>2. IsFiniteSet(batch) /\ batch \in SUBSET Nat
    BY <1>5, <1>6, FS_Subset
  <2>3. Cardinality(batch) \in Nat
    BY <2>2, FS_CardinalityType
  <2>4. ~Short(batch)
    BY <2>1, <2>3, IngestAssumption DEF Short
  <2>5. Known(c) /\ Min(batch) <= c
    BY <1>10, <2>4 DEF ReachesCursor
  <2>6. batch # {}
    BY <2>1, FS_EmptySet, IngestAssumption
  <2>7. Min(batch) \in batch
    <3>1. \E x \in batch : \A y \in batch : x <= y
      BY <2>2, <2>6, LeastNatural
    <3> QED BY <3>1 DEF Min
  <2>8. c \in ledger
    BY <1>3, <2>5 DEF Known
  <2>9. k > c
    BY <1>10, <2>8 DEF LossInv, NewestMissing
  <2>10. k < Min(batch)
    BY <1>8, <1>10, <2>7
  <2>11. k \in Nat /\ c \in Nat /\ Min(batch) \in Nat
    BY <1>5, <2>2, <2>7, <2>8 DEF IngestInv, SharedOK
  <2> HIDE DEF c
  <2> QED BY <2>5, <2>9, <2>10, <2>11
<1> HIDE DEF got, done, r
<1>11. WalkComplete(w)'
  <2>1. InReach(w)'
    <3>1. \A k \in Missing : k >= now - past
      BY <1>1 DEF LossInv, WalkComplete, InReach
    <3> QED BY <1>1, <1>2, <1>4, <3>1 DEF InReach, Missing
  <2>2. PagesSoFar(w)'
    <3>1. CASE r.step # "fetch"
      BY <3>1, <1>2 DEF PagesSoFar
    <3>2. CASE r.step = "fetch"
      <4>1. PICK n \in Nat : n = page + 1
        BY <1>3
      <4>2. /\ feed' = feed /\ now' = now /\ walk'[w].past = past
            /\ walk'[w].page = n /\ walk'[w].got = got
        BY <3>2, <1>1, <1>2, <1>4, <4>1
      <4>3. ASSUME NEW k \in W, Rank(W, k) \div PageSize > page - 1
            PROVE  Rank(W, k) \div PageSize >= n - 1
        <5>1. Rank(W, k) \in Nat
          BY <1>5, RankType
        <5>2. Rank(W, k) \div PageSize \in Nat
          BY <5>1, IngestAssumption, Quotients
        <5> QED BY <1>3, <4>1, <4>3, <5>2
      <4>4. n >= 1
        BY <1>3, <4>1
      <4>5. \A k \in W \ Delayed :
               \/ k \in got
               \/ k = now
               \/ /\ Rank(W, k) \div PageSize >= n - 1
                  /\ \A j \in got : k < j
        BY <1>9, <4>3
      <4>6. W = Window(past)
        BY DEF W
      <4> HIDE DEF past, page
      <4> QED BY <4>2, <4>4, <4>5, <4>6, FromPages
    <3> QED BY <3>1, <3>2
  <2>3. Collected(w)'
    <3>1. SUFFICES ASSUME r.step = "store", NEW k \in Missing
                   PROVE  \/ k \in got
                          \/ \A j \in got : k > j
                          \/ r.full /\ \A j \in got : k < j
      BY <1>1, <1>2, <1>4 DEF Collected, Missing
    <3>2. k \in W \ Delayed
      BY <1>1 DEF LossInv, WalkComplete, InReach, Window, Missing, W
    <3>3. CASE k = now /\ k \notin got
      <4>1. ASSUME NEW j \in got PROVE k > j
        BY <1>5, <1>7, <3>3, <4>1 DEF LossInv
      <4> QED BY <4>1
    <3>4. CASE /\ Rank(W, k) \div PageSize > page - 1
               /\ \A j \in got : k < j
      BY <3>1, <3>2, <3>4, <1>4, <1>10
    <3> QED BY <3>2, <3>3, <3>4, <1>9
  <2>4. StartsEmpty(w)'
    BY <1>2, <1>4 DEF StartsEmpty
  <2> QED BY <2>1, <2>2, <2>3, <2>4 DEF WalkComplete
<1>12. NewestMissing'
  BY <1>1 DEF LossInv, NewestMissing, Missing
<1> QED BY <1>1, <1>2, <1>11, <1>12, QuietStep

\* Storing: what the walk has is no longer missing, and what is still missing
\* is newer than that, or was beyond the page cap and is given up.
LEMMA StoreLoss ==
  ASSUME IngestInv, LossInv, NEW w \in Worker, Store(w)
  PROVE  LossInv'
<1>1. /\ UNCHANGED <<now, feed, aged>>
      /\ walk[w].step = "store"
      /\ ledger' = ledger \cup walk[w].got
      /\ skipped' = IF walk[w].full THEN skipped \cup Unreached(walk[w].got) ELSE skipped
      /\ walk' = [walk EXCEPT ![w].step = "advance"]
  BY DEF Store
<1>2. /\ walk'[w].step = "advance"
      /\ \A v \in Worker : v # w => walk'[v] = walk[v]
  <2>1. walk[w] \in Walk
    BY DEF IngestInv
  <2> QED BY <1>1, <2>1 DEF IngestInv, Walk
<1>3. ASSUME NEW k \in Missing' PROVE k \in Missing /\ k \in feed /\ k \notin walk[w].got
                                      /\ (walk[w].full => k \notin Unreached(walk[w].got))
  BY <1>1 DEF Missing
<1>4. NewestMissing'
  <2>1. ASSUME NEW k \in Missing', NEW j \in walk[w].got PROVE k > j
    <3>1. \/ k \in walk[w].got
          \/ \A i \in walk[w].got : k > i
          \/ walk[w].full /\ \A i \in walk[w].got : k < i
      BY <1>1, <1>3, <2>1 DEF LossInv, WalkComplete, Collected
    <3> QED BY <1>3, <2>1, <3>1 DEF Unreached
  <2>2. ASSUME NEW k \in Missing', NEW j \in ledger PROVE k > j
    BY <1>3, <2>2 DEF LossInv, NewestMissing
  <2> QED BY <1>1, <2>1, <2>2 DEF NewestMissing
<1>5. WalkComplete(w)'
  BY <1>2 DEF WalkComplete, InReach, PagesSoFar, Collected, StartsEmpty
<1>6. ledger \subseteq ledger' /\ skipped \subseteq skipped' /\ aged \subseteq aged'
  BY <1>1
<1> QED BY <1>1, <1>2, <1>4, <1>5, <1>6, QuietStep

\* A worker that begins, reads the state, or is done says nothing yet.
LEMMA OwnWalkLoss ==
  ASSUME IngestInv, LossInv, NEW w \in Worker,
         UNCHANGED <<now, feed, ledger, skipped, aged>>,
         NEW r, walk' = [walk EXCEPT ![w] = r],
         r.got = {}, r.step \notin {"fetch", "store"}
  PROVE  LossInv'
<1>1. walk'[w] = r /\ \A v \in Worker : v # w => walk'[v] = walk[v]
  BY DEF IngestInv
<1>2. WalkComplete(w)'
  BY <1>1 DEF WalkComplete, InReach, PagesSoFar, Collected, StartsEmpty
<1>3. NewestMissing'
  BY DEF LossInv, NewestMissing, Missing
<1> QED BY <1>1, <1>2, <1>3, QuietStep

\* Time passes: no walk is between two of its requests.
LEMMA PassTimeLoss ==
  ASSUME IngestInv, LossInv, PassTime
  PROVE  LossInv'
<1>1. /\ \A w \in Worker : walk[w].step # "fetch"
      /\ UNCHANGED <<feed, ledger, walk, skipped, aged>>
      /\ now' = Min({now + 1, MaxTime})
  BY DEF PassTime
<1>2. now \in Nat /\ now <= MaxTime /\ MaxTime \in Nat
  BY IngestAssumption DEF IngestInv, SharedOK, Instant
<1>3. now' \in Nat /\ now <= now'
  <2>1. now' = IF now + 1 <= MaxTime THEN now + 1 ELSE MaxTime
    BY <1>1, <1>2, MinOfTwo
  <2> QED BY <1>2, <2>1
<1>4. feed' \subseteq 0..now'
  <2>1. \A k \in 0..now : k \in 0..now'
    BY <1>2, <1>3
  <2> QED BY <1>1, <2>1 DEF LossInv
<1>5. Missing' = Missing /\ NewestMissing'
  BY <1>1 DEF LossInv, Missing, NewestMissing
<1>6. ASSUME NEW w \in Worker PROVE WalkComplete(w)'
  <2>1. WalkComplete(w)
    BY DEF LossInv
  <2> QED BY <1>1, <1>5, <2>1 DEF WalkComplete, InReach, PagesSoFar, Collected, StartsEmpty
<1> QED BY <1>4, <1>5, <1>6 DEF LossInv

\* Every step of the ingest preserves the invariant.
LEMMA LossStep == IngestInv /\ LossInv /\ [IngestNext]_ingestVars => LossInv'
<1> SUFFICES ASSUME IngestInv, LossInv, [IngestNext]_ingestVars PROVE LossInv'
  OBVIOUS
<1>1. ASSUME NEW t \in Instant, Publish(t) PROVE LossInv'
  BY <1>1, PublishLoss
<1>2. ASSUME NEW w \in Worker, CycleStep(w) PROVE LossInv'
  <2> DEFINE idle == [NoWalk EXCEPT !.step = "read"]
  <2>1. idle.got = {} /\ idle.step = "read" /\ NoWalk.got = {} /\ NoWalk.step = "off"
    BY DEF NoWalk
  <2> HIDE DEF idle
  <2>2. CASE BeginCycle(w)
    <3>1. /\ UNCHANGED <<now, feed, ledger, skipped, aged>>
          /\ \/ walk' = [walk EXCEPT ![w] = idle]
             \/ walk' = [walk EXCEPT ![w] = NoWalk]
      BY <2>2 DEF BeginCycle, idle
    <3>2. CASE walk' = [walk EXCEPT ![w] = idle]
      BY <2>1, <3>1, <3>2, OwnWalkLoss
    <3>3. CASE walk' = [walk EXCEPT ![w] = NoWalk]
      BY <2>1, <3>1, <3>3, OwnWalkLoss
    <3> QED BY <3>1, <3>2, <3>3
  <2>3. CASE ReadState(w)
    <3> DEFINE r == [walk[w] EXCEPT !.step = "begin", !.cursor = cursor]
    <3>1. r.step = "begin" /\ r.got = walk[w].got
      <4>1. walk[w] \in Walk
        BY DEF IngestInv
      <4> QED BY <4>1 DEF Walk
    <3>2. /\ UNCHANGED <<now, feed, ledger, skipped, aged>>
          /\ walk[w].step = "read"
          /\ walk' = [walk EXCEPT ![w] = r]
      BY <2>3 DEF ReadState, IngestInv
    <3>3. walk[w].got = {}
      BY <3>2 DEF LossInv, WalkComplete, StartsEmpty
    <3> HIDE DEF r
    <3> QED BY <3>1, <3>2, <3>3, OwnWalkLoss
  <2>4. CASE BeginRegion(w)
    BY <2>4, BeginRegionLoss
  <2>5. CASE FetchPage(w)
    BY <2>5, FetchPageLoss
  <2>6. CASE Store(w)
    BY <2>6, StoreLoss
  <2>7. CASE FetchFails(w) \/ DatabaseFails(w) \/ Advance(w)
    <3>1. /\ UNCHANGED <<now, feed, ledger, skipped, aged>>
          /\ walk' = [walk EXCEPT ![w] = NoWalk]
      BY <2>7 DEF FetchFails, DatabaseFails, Advance
    <3> QED BY <2>1, <3>1, OwnWalkLoss
  <2> QED BY <1>2, <2>2, <2>3, <2>4, <2>5, <2>6, <2>7 DEF CycleStep
<1>3. ASSUME NEW w \in Worker, Die(w) PROVE LossInv'
  <2>1. NoWalk.got = {} /\ NoWalk.step = "off"
    BY DEF NoWalk
  <2>2. /\ UNCHANGED <<now, feed, ledger, skipped, aged>>
        /\ walk' = [walk EXCEPT ![w] = NoWalk]
    BY <1>3 DEF Die
  <2> QED BY <2>1, <2>2, OwnWalkLoss
<1>4. ASSUME UNCHANGED ingestOnly PROVE LossInv'
  BY <1>4 DEF ingestOnly, LossInv, NewestMissing, Missing, WalkComplete, InReach,
              PagesSoFar, Window, Newer, Rank, Collected, StartsEmpty
<1>5. CASE PassTime
  BY <1>5, PassTimeLoss
<1> QED BY <1>1, <1>2, <1>3, <1>4, <1>5 DEF IngestNext, Live, ingestVars

\* A kill zKill published when it happened is in the ledger, is still newer
\* than the cursor and so will be asked for, or was out of reach behind the
\* page cap or zKill's longest window: for any number of workers whose cycles
\* overlap, fail and crash in any order, and any page size, cap, window,
\* overlap and cursor.  The invariant behind it says how far each walk has
\* got in zKill's pages, which shift under it as kills are published.
THEOREM PromptKillsAreKept == IngestSpec => []NoPromptKillLost
<1>1. IngestInit => LossInv
  <2>1. NoWalk.got = {} /\ NoWalk.step = "off"
    BY DEF NoWalk
  <2>2. IngestInit => \A w \in Worker : walk[w] = NoWalk
    BY DEF IngestInit
  <2>3. IngestInit => \A w \in Worker : WalkComplete(w)
    BY <2>1, <2>2 DEF WalkComplete, InReach, PagesSoFar, Collected, StartsEmpty
  <2> QED BY <2>3 DEF IngestInit, LossInv, NewestMissing, Missing
<1>2. IngestSpec => []LossInv
  BY <1>1, LossStep, IngestInvHolds, PTL DEF IngestSpec
<1>3. IngestInv /\ LossInv => NoPromptKillLost
  BY DEF IngestInv, SharedOK, CursorBacked, LossInv, NewestMissing, Missing,
         NoPromptKillLost, After, Known
<1> QED BY <1>2, <1>3, IngestInvHolds, PTL

=============================================================================
