-------------------------- MODULE Snapshots_proofs --------------------------
(***************************************************************************)
(* What Snapshots promises for any number of workers and readings, and any *)
(* intervals.                                                              *)
(***************************************************************************)
EXTENDS Snapshots, TLAPS

\* A task is either asleep or writing, and its fields say for how long.
LEMMA TaskForms ==
  /\ \A n \in 0..PollInterval : Asleep(n) \in Task
  /\ \A r \in Reading, n \in 0..BusyTimeout : Writing(r, n) \in Task
  /\ \A t \in Task : t.at = "asleep" => t.left \in 0..PollInterval /\ t = Asleep(t.left)
  /\ \A t \in Task : t.at = "writing" =>
        t.reading \in Reading /\ t.wait \in 0..BusyTimeout /\ t = Writing(t.reading, t.wait)
  /\ \A t \in Task : t.at \in {"asleep", "writing"}
<1>1. /\ \A n \in 0..PollInterval : Asleep(n) \in Task
      /\ \A r \in Reading, n \in 0..BusyTimeout : Writing(r, n) \in Task
  BY DEF Task
<1>2. ASSUME NEW t \in Task
      PROVE  \/ \E n \in 0..PollInterval : t = Asleep(n)
             \/ \E r \in Reading, n \in 0..BusyTimeout : t = Writing(r, n)
  BY DEF Task
<1>3. \A n : Asleep(n).at = "asleep" /\ Asleep(n).left = n
  BY DEF Asleep
<1>4. \A r, n : /\ Writing(r, n).at = "writing"
               /\ Writing(r, n).reading = r
               /\ Writing(r, n).wait = n
  BY DEF Writing
<1> QED BY <1>1, <1>2, <1>3, <1>4

\* What is not overdue may sleep or wait on.
LEMMA LaterType ==
  ASSUME NEW w \in Worker, task[w] \in Task, ~Overdue(w)
  PROVE  Later(task[w]) \in Task
<1> USE SnapshotsAssumption
<1>1. CASE task[w].at = "asleep"
  <2>1. /\ task[w].left \in 0..PollInterval
        /\ task[w] = Asleep(task[w].left)
    BY <1>1, TaskForms
  <2>2. task[w].left # 0
    BY <2>1 DEF Overdue
  <2>3. task[w].left - 1 \in 0..PollInterval
    BY <2>1, <2>2
  <2> QED BY <1>1, <2>3, TaskForms DEF Later
<1>2. CASE task[w].at = "writing"
  <2>1. task[w].reading \in Reading /\ task[w].wait \in 0..BusyTimeout
    BY <1>2, TaskForms
  <2>2. task[w].wait # BusyTimeout
    BY <1>2 DEF Overdue
  <2>3. task[w].wait + 1 \in 0..BusyTimeout
    BY <2>1, <2>2
  <2> QED BY <1>2, <2>1, <2>3, TaskForms DEF Later
<1> QED BY <1>1, <1>2, TaskForms

\* A marker that ages stays a marker or goes.
LEMMA AgedType ==
  ASSUME NEW m \in Marker \cup {NoMarker}
  PROVE  Aged(m) \in Marker \cup {NoMarker}
<1>1. CASE m = NoMarker \/ m.age + 1 = Interval
  BY <1>1 DEF Aged
<1>2. CASE ~(m = NoMarker \/ m.age + 1 = Interval)
  <2>1. m \in Marker /\ m.age + 1 \in 0..(Interval - 1)
    BY <1>2, SnapshotsAssumption DEF Marker
  <2> QED BY <1>2, <2>1 DEF Aged, Marker
<1> QED BY <1>1, <1>2

\* Every step keeps every variable in its type.
LEMMA SnapTypingStep ==
  SnapTypeOK /\ [SnapNext]_snapVars => SnapTypeOK'
<1> SUFFICES ASSUME SnapTypeOK, [SnapNext]_snapVars PROVE SnapTypeOK'
  OBVIOUS
<1> USE SnapshotsAssumption
<1>0. /\ Asleep(0) \in Task /\ Asleep(PollInterval) \in Task
      /\ \A w \in Worker : Writing(sees[w], 0) \in Task
      /\ \A w \in Worker : [reading |-> sees[w], age |-> 0] \in Marker
      /\ 0 \in 0..Horizon
  BY TaskForms DEF SnapTypeOK, Marker
<1>1. ASSUME NEW w \in Worker, Sample(w) PROVE SnapTypeOK'
  BY <1>0, <1>1 DEF SnapTypeOK, Sample
<1>2. ASSUME NEW w \in Worker, NoSample(w) PROVE SnapTypeOK'
  BY <1>0, <1>2 DEF SnapTypeOK, NoSample
<1>3. ASSUME NEW w \in Worker, Insert(w) PROVE SnapTypeOK'
  <2>1. task[w].reading \in Reading
    BY <1>3, TaskForms DEF Insert, SnapTypeOK
  <2>2. samples' \in [Reading -> [0..Horizon -> Nat]]
    <3> DEFINE r == task[w].reading
               more == [samples[r] EXCEPT ![0] = @ + 1]
    <3>1. more \in [0..Horizon -> Nat]
      <4>1. samples[r] \in [0..Horizon -> Nat] /\ 0 \in 0..Horizon
        BY <1>0, <2>1 DEF SnapTypeOK
      <4> HIDE DEF r
      <4> QED BY <4>1
    <3>2. samples' = samples \/ samples' = [samples EXCEPT ![r] = more]
      BY <1>3 DEF Insert
    <3> HIDE DEF more
    <3> QED BY <2>1, <3>1, <3>2 DEF SnapTypeOK
  <2> QED BY <1>0, <1>3, <2>2 DEF Insert, SnapTypeOK
<1>4. ASSUME NEW w \in Worker, InsertFails(w) PROVE SnapTypeOK'
  BY <1>0, <1>4 DEF SnapTypeOK, InsertFails
<1>5. ASSUME NEW w \in Worker, Restart(w) PROVE SnapTypeOK'
  BY <1>0, <1>5 DEF SnapTypeOK, Restart
<1>6. ASSUME NEW w \in Worker, NEW r \in Reading, See(w, r) PROVE SnapTypeOK'
  BY <1>0, <1>6 DEF SnapTypeOK, See
<1>7. ASSUME Tick PROVE SnapTypeOK'
  <2>1. samples' \in [Reading -> [0..Horizon -> Nat]]
    <3>1. \A r \in Reading, a \in 0..Horizon :
            (IF a = 0 THEN 0 ELSE samples[r][a - 1]) \in Nat
      BY DEF SnapTypeOK
    <3> QED BY <1>7, <3>1 DEF Tick
  <2>2. marker' \in [Worker -> Marker \cup {NoMarker}]
    BY <1>7, AgedType DEF Tick, SnapTypeOK
  <2>3. task' \in [Worker -> Task]
    BY <1>7, LaterType DEF Tick, SnapTypeOK
  <2>4. steady' \in [Worker -> 0..Horizon]
    <3>1. \A w \in Worker :
            (IF steady[w] = Horizon THEN Horizon ELSE steady[w] + 1) \in 0..Horizon
      BY DEF SnapTypeOK
    <3> QED BY <1>7, <3>1 DEF Tick
  <2> QED BY <1>7, <2>1, <2>2, <2>3, <2>4 DEF Tick, SnapTypeOK
<1>8. CASE UNCHANGED snapVars
  BY <1>8 DEF snapVars, SnapTypeOK
<1> QED BY <1>1, <1>2, <1>3, <1>4, <1>5, <1>6, <1>7, <1>8 DEF SnapNext

\* Snapshots keeps its types.
THEOREM SnapTyping == SnapSpec => []SnapTypeOK
<1>1. SnapInit => SnapTypeOK
  <2> SUFFICES ASSUME SnapInit PROVE SnapTypeOK
    OBVIOUS
  <2>1. Asleep(0) \in Task
    BY TaskForms, SnapshotsAssumption
  <2>2. 0 \in 0..Horizon
    BY SnapshotsAssumption
  <2> QED BY <2>1, <2>2 DEF SnapInit, SnapTypeOK
<1> QED BY <1>1, SnapTypingStep, PTL DEF SnapSpec

----------------------------------------------------------------------------
(* Samples that say the same are apart                                      *)

\* Every step keeps them apart: the guard looks further back than Interval.
LEMMA SamplesApartStep ==
  SnapTypeOK /\ SamplesApart /\ [SnapNext]_snapVars => SamplesApart'
<1> SUFFICES ASSUME SnapTypeOK, SamplesApart, [SnapNext]_snapVars PROVE SamplesApart'
  OBVIOUS
<1> USE SnapshotsAssumption
<1>0. samples \in [Reading -> [0..Horizon -> Nat]] /\ 0 \in 0..Horizon
  BY DEF SnapTypeOK
<1>1. CASE UNCHANGED samples
  BY <1>1 DEF SamplesApart
<1>2. ASSUME NEW w \in Worker, Insert(w) PROVE SamplesApart'
  <2>1. task[w].reading \in Reading /\ task[w].wait \in Nat
    BY <1>2, TaskForms DEF Insert, SnapTypeOK
  <2>2. CASE Duplicate(task[w].reading, task[w].wait)
    BY <1>1, <1>2, <2>2 DEF Insert
  <2>3. CASE ~Duplicate(task[w].reading, task[w].wait)
    <3> DEFINE s == task[w].reading
    <3>1. \A a \in 0..Horizon : a <= Interval => samples[s][a] = 0
      <4> SUFFICES ASSUME NEW a \in 0..Horizon, a <= Interval PROVE samples[s][a] = 0
        OBVIOUS
      <4>1. a - task[w].wait <= Interval
        BY <2>1
      <4>2. ~(samples[s][a] > 0)
        BY <2>3, <4>1 DEF Duplicate
      <4> QED BY <1>0, <2>1, <4>2
    <3>2. samples' = [samples EXCEPT ![s][0] = @ + 1]
      BY <1>2, <2>3 DEF Insert
    <3>3. /\ samples'[s][0] = 1
          /\ \A a \in 0..Horizon : a # 0 => samples'[s][a] = samples[s][a]
          /\ \A r \in Reading : r # s => samples'[r] = samples[r]
      <4>1. samples[s][0] = 0
        BY <1>0, <3>1
      <4> QED BY <1>0, <2>1, <3>2, <4>1
    <3> HIDE DEF s
    <3> SUFFICES ASSUME NEW r \in Reading, NEW a \in 0..Horizon, NEW b \in 0..Horizon
                 PROVE  /\ samples'[r][a] <= 1
                        /\ a < b /\ b - a <= Interval =>
                              samples'[r][a] = 0 \/ samples'[r][b] = 0
      BY DEF SamplesApart
    <3>4. CASE r # s
      BY <3>3, <3>4 DEF SamplesApart
    <3>5. CASE r = s /\ a # 0
      BY <3>3, <3>5 DEF SamplesApart
    <3>6. CASE r = s /\ a = 0
      <4>1. b # 0 /\ b <= Interval => samples'[s][b] = 0
        BY <3>1, <3>3
      <4> QED BY <3>3, <3>6, <4>1
    <3> QED BY <3>4, <3>5, <3>6
  <2> QED BY <2>2, <2>3
<1>3. ASSUME Tick PROVE SamplesApart'
  <2>1. \A r \in Reading : samples'[r][0] = 0
    BY <1>0, <1>3 DEF Tick
  <2>2. \A r \in Reading : \A a \in 0..Horizon : a # 0 =>
          a - 1 \in 0..Horizon /\ samples'[r][a] = samples[r][a - 1]
    BY <1>0, <1>3 DEF Tick
  <2> SUFFICES ASSUME NEW r \in Reading, NEW a \in 0..Horizon, NEW b \in 0..Horizon
               PROVE  /\ samples'[r][a] <= 1
                      /\ a < b /\ b - a <= Interval =>
                            samples'[r][a] = 0 \/ samples'[r][b] = 0
    BY DEF SamplesApart
  <2>3. CASE a = 0
    BY <2>1, <2>3
  <2>4. CASE a # 0
    <3>1. a - 1 \in 0..Horizon /\ samples'[r][a] = samples[r][a - 1]
      BY <2>2, <2>4
    <3>2. samples[r][a - 1] <= 1
      BY <3>1 DEF SamplesApart
    <3>3. ASSUME a < b, b - a <= Interval PROVE samples'[r][a] = 0 \/ samples'[r][b] = 0
      <4>1. b - 1 \in 0..Horizon /\ samples'[r][b] = samples[r][b - 1]
        BY <2>2, <3>3
      <4>2. a - 1 < b - 1 /\ (b - 1) - (a - 1) <= Interval
        BY <3>3
      <4>3. samples[r][a - 1] = 0 \/ samples[r][b - 1] = 0
        BY <3>1, <4>1, <4>2 DEF SamplesApart
      <4> QED BY <3>1, <4>1, <4>3
    <3> QED BY <3>1, <3>2, <3>3
  <2> QED BY <2>3, <2>4
<1>4. ASSUME NEW w \in Worker,
             Sample(w) \/ NoSample(w) \/ InsertFails(w) \/ Restart(w)
             \/ (\E r \in Reading : See(w, r))
      PROVE  UNCHANGED samples
  BY <1>4 DEF Sample, NoSample, InsertFails, Restart, See
<1>5. CASE UNCHANGED snapVars
  BY <1>1, <1>5 DEF snapVars
<1> QED BY <1>1, <1>2, <1>3, <1>4, <1>5 DEF SnapNext

\* However many workers sample, fail and restart, two samples that say the
\* same are more than SNAPSHOT_INTERVAL apart (db.snapshot_adm_batch).
THEOREM SamplesStayApart == SnapSpec => []SamplesApart
<1>1. SnapInit => SamplesApart
  BY DEF SnapInit, SamplesApart
<1> QED BY <1>1, SamplesApartStep, SnapTyping, PTL DEF SnapSpec

----------------------------------------------------------------------------
(* No process that goes on leaves a gap                                     *)

\* Something happened to w, or its reading was sampled, in the last d.
Recent(w, d) ==
    steady[w] <= d \/ \E a \in 0..Horizon : a <= d /\ samples[sees[w]][a] > 0

\* How recent, by where w is in its cycle.  A marker it goes by was set when
\* a row was written or refused because of one less than Interval older than
\* the marker; a process that is writing was asleep before that.
RecentEnough(w) ==
    /\ task[w].at = "asleep" =>
         /\ Recent(w, 2 * Interval - 1 + PollInterval - task[w].left)
         /\ Marked(w) => Recent(w, Interval + marker[w].age)
    /\ task[w].at = "writing" =>
         /\ Recent(w, 2 * Interval - 1 + PollInterval + task[w].wait)
         /\ marker[w] \in {NoMarker, [reading |-> task[w].reading, age |-> task[w].wait]}
         /\ task[w].reading # sees[w] => steady[w] <= task[w].wait

GapInv == \A w \in Worker : RecentEnough(w)

\* Recent after this step, for a time that is counted before it.
RecentThen(w, d) ==
    steady'[w] <= d \/ \E a \in 0..Horizon : a <= d /\ samples'[sees'[w]][a] > 0

LEMMA EnoughThen ==
  ASSUME NEW w \in Worker,
         task'[w].at = "asleep" =>
           /\ RecentThen(w, 2 * Interval - 1 + PollInterval - task'[w].left)
           /\ marker'[w] # NoMarker /\ marker'[w].reading = sees'[w] =>
                 RecentThen(w, Interval + marker'[w].age),
         task'[w].at = "writing" =>
           /\ RecentThen(w, 2 * Interval - 1 + PollInterval + task'[w].wait)
           /\ marker'[w] \in {NoMarker, [reading |-> task'[w].reading, age |-> task'[w].wait]}
           /\ task'[w].reading # sees'[w] => steady'[w] <= task'[w].wait
  PROVE  RecentEnough(w)'
BY DEF RecentEnough, Recent, RecentThen, Marked

\* The numbers of a process.
LEMMA OwnNumbers ==
  ASSUME SnapTypeOK, NEW w \in Worker
  PROVE  /\ steady[w] \in 0..Horizon /\ sees[w] \in Reading
         /\ task[w].at \in {"asleep", "writing"}
         /\ task[w].at = "asleep" => task[w].left \in 0..PollInterval
         /\ task[w].at = "writing" => task[w].reading \in Reading /\ task[w].wait \in 0..BusyTimeout
         /\ Marked(w) => marker[w].age \in 0..(Interval - 1)
<1>1. steady[w] \in 0..Horizon /\ sees[w] \in Reading /\ task[w] \in Task
      /\ marker[w] \in Marker \cup {NoMarker}
  BY DEF SnapTypeOK
<1>2. Marked(w) => marker[w].age \in 0..(Interval - 1)
  BY <1>1 DEF Marked, Marker
<1> QED BY <1>1, <1>2, TaskForms

\* What is recent enough for a shorter time is for a longer one.
LEMMA RecentLonger ==
  ASSUME SnapTypeOK, NEW w \in Worker, NEW d \in Int, NEW e \in Int, d <= e, Recent(w, d)
  PROVE  Recent(w, e)
BY OwnNumbers DEF Recent

\* A process that just failed, started, or saw something else is recent
\* enough wherever it is, if its marker fits.
LEMMA FreshStart ==
  ASSUME SnapTypeOK', NEW w \in Worker, steady'[w] = 0,
         task'[w].at = "writing" =>
           marker'[w] \in {NoMarker, [reading |-> task'[w].reading, age |-> task'[w].wait]}
  PROVE  RecentEnough(w)'
<1> USE SnapshotsAssumption
<1>1. \A d \in Nat : RecentThen(w, d)
  BY DEF RecentThen
<1>2. task'[w] \in Task /\ marker'[w] \in Marker \cup {NoMarker}
  BY DEF SnapTypeOK
<1>3. CASE task'[w].at = "asleep"
  <2>1. 2 * Interval - 1 + PollInterval - task'[w].left \in Nat
    <3>1. task'[w].left \in 0..PollInterval
      BY <1>2, <1>3, TaskForms
    <3> QED BY <3>1
  <2>2. marker'[w] # NoMarker => Interval + marker'[w].age \in Nat
    BY <1>2 DEF Marker
  <2> QED BY <1>1, <1>3, <2>1, <2>2, EnoughThen
<1>4. CASE task'[w].at = "writing"
  <2>1. task'[w].wait \in Nat
    BY <1>2, <1>4, TaskForms
  <2>2. 2 * Interval - 1 + PollInterval + task'[w].wait \in Nat /\ 0 <= task'[w].wait
    BY <2>1
  <2> QED BY <1>1, <1>4, <2>2, EnoughThen
<1> QED BY <1>2, <1>3, <1>4, TaskForms

\* A step of another process: samples are only added.
LEMMA OtherProcess ==
  ASSUME SnapTypeOK, NEW v \in Worker, RecentEnough(v),
         task'[v] = task[v], marker'[v] = marker[v], sees'[v] = sees[v],
         steady'[v] = steady[v],
         \A r \in Reading, a \in 0..Horizon : samples[r][a] > 0 => samples'[r][a] > 0
  PROVE  RecentEnough(v)'
<1>1. \A d : Recent(v, d) => Recent(v, d)'
  BY OwnNumbers DEF Recent
<1>2. Marked(v)' <=> Marked(v)
  BY DEF Marked
<1> QED BY <1>1, <1>2 DEF RecentEnough

\* A step of one process: the others stay as recent as they were.
LEMMA OneProcess ==
  ASSUME SnapTypeOK, GapInv, NEW w \in Worker, RecentEnough(w)',
         \A v \in Worker : v # w =>
            /\ task'[v] = task[v] /\ marker'[v] = marker[v] /\ sees'[v] = sees[v]
            /\ steady'[v] = steady[v],
         \A r \in Reading, a \in 0..Horizon : samples[r][a] > 0 => samples'[r][a] > 0
  PROVE  GapInv'
BY OtherProcess DEF GapInv

\* A cycle that goes by its marker starts to sleep, or one that does not
\* starts to write.
LEMMA SampleGap ==
  ASSUME SnapTypeOK, GapInv, NEW w \in Worker, Sample(w)
  PROVE  RecentEnough(w)'
<1> USE SnapshotsAssumption
<1>1. /\ task[w] = Asleep(0) /\ samples' = samples /\ sees' = sees /\ steady' = steady
      /\ task[w].at = "asleep" /\ task[w].left = 0
  BY DEF Sample, Asleep
<1>2. \A d : Recent(w, d) => RecentThen(w, d)
  BY <1>1 DEF Recent, RecentThen
<1>3. Recent(w, 2 * Interval - 1 + PollInterval) /\ (Marked(w) => Recent(w, Interval + marker[w].age))
  <2>1. 2 * Interval - 1 + PollInterval - 0 = 2 * Interval - 1 + PollInterval
    OBVIOUS
  <2> QED BY <1>1, <2>1 DEF GapInv, RecentEnough
<1>4. CASE Marked(w)
  <2>1. task'[w].at = "asleep" /\ task'[w].left = PollInterval /\ marker' = marker
    BY <1>1, <1>4 DEF Sample, SnapTypeOK, Asleep
  <2>2. Recent(w, 2 * Interval - 1)
    <3>1. /\ Interval + marker[w].age \in Int /\ 2 * Interval - 1 \in Int
          /\ Interval + marker[w].age <= 2 * Interval - 1
      BY <1>4, OwnNumbers
    <3> QED BY <1>3, <1>4, <3>1, RecentLonger
  <2>3. Recent(w, 2 * Interval - 1 + PollInterval - PollInterval)
    <3>1. 2 * Interval - 1 + PollInterval - PollInterval = 2 * Interval - 1
      OBVIOUS
    <3> QED BY <2>2, <3>1
  <2> QED BY <1>2, <1>3, <1>4, <2>1, <2>3, EnoughThen
<1>5. CASE ~Marked(w)
  <2>1. /\ task'[w].at = "writing" /\ task'[w].reading = sees[w] /\ task'[w].wait = 0
        /\ marker'[w] = [reading |-> sees[w], age |-> 0]
    BY <1>1, <1>5 DEF Sample, SnapTypeOK, Writing
  <2>2. 2 * Interval - 1 + PollInterval + 0 = 2 * Interval - 1 + PollInterval
    OBVIOUS
  <2> QED BY <1>1, <1>2, <1>3, <2>1, <2>2, EnoughThen
<1> QED BY <1>4, <1>5

\* An INSERT writes a row, or is refused because of one that is recent: the
\* wait for the lock is shorter than the interval.
LEMMA InsertGap ==
  ASSUME BusyTimeout < Interval, SnapTypeOK, GapInv, NEW w \in Worker, Insert(w)
  PROVE  /\ RecentEnough(w)'
         /\ \A r \in Reading, a \in 0..Horizon : samples[r][a] > 0 => samples'[r][a] > 0
<1> USE SnapshotsAssumption
<1> DEFINE r == task[w].reading
           n == task[w].wait
<1>1. /\ task[w].at = "writing" /\ r \in Reading /\ n \in 0..BusyTimeout
      /\ marker' = marker /\ sees' = sees /\ steady' = steady
      /\ samples' = IF Duplicate(r, n) THEN samples ELSE [samples EXCEPT ![r][0] = @ + 1]
      /\ task'[w].at = "asleep" /\ task'[w].left = PollInterval
  BY OwnNumbers DEF Insert, SnapTypeOK, Asleep
<1>2. samples \in [Reading -> [0..Horizon -> Nat]] /\ 0 \in 0..Horizon
  BY DEF SnapTypeOK
<1>3. \A q \in Reading, a \in 0..Horizon : samples[q][a] > 0 => samples'[q][a] > 0
  <2> HIDE DEF r, n
  <2> QED BY <1>1, <1>2
<1>4. \E a \in 0..Horizon : a <= Interval + n /\ samples'[r][a] > 0
  <2>1. CASE Duplicate(r, n)
    <3>1. PICK a \in 0..Horizon : a - n <= Interval /\ samples[r][a] > 0
      BY <2>1 DEF Duplicate
    <3> HIDE DEF r, n
    <3>2. a <= Interval + n
      BY <1>1, <3>1
    <3> QED BY <1>1, <2>1, <3>1, <3>2
  <2>2. CASE ~Duplicate(r, n)
    <3> HIDE DEF r, n
    <3>1. samples'[r][0] > 0 /\ 0 <= Interval + n
      BY <1>1, <1>2, <2>2
    <3> QED BY <1>2, <3>1
  <2> QED BY <2>1, <2>2
<1>5. RecentThen(w, Interval + n)
  <2>1. CASE r = sees[w]
    <3> HIDE DEF r, n
    <3> QED BY <1>1, <1>4, <2>1 DEF RecentThen
  <2>2. CASE r # sees[w]
    <3>1. steady[w] <= n /\ steady[w] \in Nat
      BY <1>1, <2>2, OwnNumbers DEF GapInv, RecentEnough
    <3> HIDE DEF r, n
    <3>2. steady[w] <= Interval + n
      BY <1>1, <3>1
    <3> QED BY <1>1, <3>2 DEF RecentThen
  <2> QED BY <2>1, <2>2
<1>6. RecentThen(w, 2 * Interval - 1 + PollInterval - PollInterval)
  <2>1. steady'[w] \in 0..Horizon
    BY <1>1, OwnNumbers
  <2> HIDE DEF r, n
  <2>2. Interval + n \in Int /\ Interval + n <= 2 * Interval - 1 + PollInterval - PollInterval
    BY <1>1
  <2> QED BY <1>5, <2>1, <2>2 DEF RecentThen
<1>7. marker'[w] # NoMarker => RecentThen(w, Interval + marker'[w].age)
  <2>1. marker[w] \in {NoMarker, [reading |-> r, age |-> n]}
    BY <1>1 DEF GapInv, RecentEnough
  <2> HIDE DEF r, n
  <2>2. marker'[w] # NoMarker => marker'[w].age = n
    BY <1>1, <2>1
  <2> QED BY <1>5, <2>2
<1> HIDE DEF r, n
<1>8. RecentEnough(w)'
  BY <1>1, <1>6, <1>7, EnoughThen
<1> QED BY <1>3, <1>8

\* A moment later everything is as recent as one moment more allows.
LEMMA TickGap ==
  ASSUME SnapTypeOK, GapInv, Tick, NEW w \in Worker
  PROVE  RecentEnough(w)'
<1> USE SnapshotsAssumption
<1>1. /\ ~Overdue(w) /\ sees' = sees
      /\ \A r \in Reading, a \in 0..Horizon : a # 0 => samples'[r][a] = samples[r][a - 1]
      /\ marker'[w] = Aged(marker[w])
      /\ task'[w] = Later(task[w])
      /\ steady'[w] = IF steady[w] = Horizon THEN Horizon ELSE steady[w] + 1
  BY DEF Tick
<1>2. ASSUME NEW d \in Int, Recent(w, d) PROVE RecentThen(w, d + 1)
  <2>1. steady[w] \in 0..Horizon /\ sees[w] \in Reading
    BY OwnNumbers
  <2>2. CASE steady[w] <= d \/ Horizon <= d
    BY <1>1, <1>2, <2>1, <2>2 DEF Recent, RecentThen
  <2>3. CASE steady[w] > d /\ d < Horizon
    <3>1. PICK a \in 0..Horizon : a <= d /\ samples[sees[w]][a] > 0
      BY <1>2, <2>1, <2>3 DEF Recent
    <3>2. a + 1 \in 0..Horizon /\ a + 1 # 0 /\ a + 1 <= d + 1 /\ (a + 1) - 1 = a
      BY <1>2, <2>3, <3>1
    <3>3. samples'[sees[w]][a + 1] > 0
      BY <1>1, <2>1, <3>1, <3>2
    <3> QED BY <1>1, <3>2, <3>3 DEF RecentThen
  <2> QED BY <2>1, <2>2, <2>3
<1>3. CASE task[w].at = "asleep"
  <2>1. /\ task[w].left \in 0..PollInterval /\ task[w] = Asleep(task[w].left)
    BY <1>3, TaskForms DEF SnapTypeOK
  <2>2. task[w].left # 0
    BY <1>1, <2>1 DEF Overdue
  <2>3. task'[w].at = "asleep" /\ task'[w].left = task[w].left - 1
    BY <1>1, <1>3 DEF Later, Asleep
  <2>4. RecentThen(w, 2 * Interval - 1 + PollInterval - task'[w].left)
    <3>1. PICK d \in Int : d = 2 * Interval - 1 + PollInterval - task[w].left
      BY <2>1
    <3>2. 2 * Interval - 1 + PollInterval - task'[w].left = d + 1
      BY <2>1, <2>3, <3>1
    <3>3. Recent(w, d)
      BY <1>3, <3>1 DEF GapInv, RecentEnough
    <3> QED BY <1>2, <3>2, <3>3
  <2>5. ASSUME marker'[w] # NoMarker, marker'[w].reading = sees'[w]
        PROVE  RecentThen(w, Interval + marker'[w].age)
    <3>1. Marked(w) /\ marker'[w].age = marker[w].age + 1
      <4>1. marker[w] \in Marker \cup {NoMarker}
        BY DEF SnapTypeOK
      <4>2. marker[w] # NoMarker /\ marker'[w] = [marker[w] EXCEPT !.age = @ + 1]
        BY <1>1, <2>5 DEF Aged
      <4> QED BY <1>1, <2>5, <4>1, <4>2 DEF Marked, Marker
    <3>2. PICK d \in Int : d = Interval + marker[w].age
      BY <3>1, OwnNumbers
    <3>3. Interval + marker'[w].age = d + 1
      BY <3>1, <3>2, OwnNumbers
    <3>4. Recent(w, d)
      BY <1>3, <3>1, <3>2 DEF GapInv, RecentEnough
    <3> QED BY <1>2, <3>3, <3>4
  <2> QED BY <2>3, <2>4, <2>5, EnoughThen
<1>4. CASE task[w].at = "writing"
  <2>1. task[w].wait \in 0..BusyTimeout /\ task[w] = Writing(task[w].reading, task[w].wait)
    BY <1>4, TaskForms DEF SnapTypeOK
  <2>2. /\ task'[w].at = "writing" /\ task'[w].reading = task[w].reading
        /\ task'[w].wait = task[w].wait + 1
    BY <1>1, <1>4 DEF Later, Writing
  <2>3. RecentThen(w, 2 * Interval - 1 + PollInterval + task'[w].wait)
    <3>1. PICK d \in Int : d = 2 * Interval - 1 + PollInterval + task[w].wait
      BY <2>1
    <3>2. 2 * Interval - 1 + PollInterval + task'[w].wait = d + 1
      BY <2>1, <2>2, <3>1
    <3>3. Recent(w, d)
      BY <1>4, <3>1 DEF GapInv, RecentEnough
    <3> QED BY <1>2, <3>2, <3>3
  <2>4. marker'[w] \in {NoMarker, [reading |-> task[w].reading, age |-> task[w].wait + 1]}
    <3>1. marker[w] \in {NoMarker, [reading |-> task[w].reading, age |-> task[w].wait]}
      BY <1>4 DEF GapInv, RecentEnough
    <3> QED BY <1>1, <3>1 DEF Aged
  <2>5. task[w].reading # sees[w] => steady'[w] <= task[w].wait + 1
    <3>1. task[w].reading # sees[w] => steady[w] <= task[w].wait
      BY <1>4 DEF GapInv, RecentEnough
    <3>2. steady[w] \in 0..Horizon
      BY OwnNumbers
    <3> QED BY <1>1, <2>1, <3>1, <3>2
  <2> QED BY <1>1, <2>2, <2>3, <2>4, <2>5, EnoughThen
<1> QED BY <1>3, <1>4, OwnNumbers

\* Every step keeps every process recent enough.
LEMMA GapStep ==
  ASSUME BusyTimeout < Interval
  PROVE  SnapTypeOK /\ GapInv /\ [SnapNext]_snapVars => GapInv'
<1> SUFFICES ASSUME SnapTypeOK, GapInv, [SnapNext]_snapVars PROVE GapInv'
  OBVIOUS
<1>0. SnapTypeOK'
  BY SnapTypingStep
<1>1. ASSUME NEW w \in Worker, Sample(w) PROVE GapInv'
  <2>1. RecentEnough(w)'
    BY <1>1, SampleGap
  <2> QED BY <1>1, <2>1, OneProcess DEF Sample, SnapTypeOK
<1>2. ASSUME NEW w \in Worker, NoSample(w) \/ InsertFails(w) \/ Restart(w) PROVE GapInv'
  <2>1. task'[w].at = "asleep" /\ steady'[w] = 0 /\ "asleep" # "writing"
    BY <1>2 DEF NoSample, InsertFails, Restart, SnapTypeOK, Asleep
  <2>2. RecentEnough(w)'
    BY <1>0, <2>1, FreshStart
  <2> QED BY <1>2, <2>2, OneProcess DEF NoSample, InsertFails, Restart, SnapTypeOK
<1>3. ASSUME NEW w \in Worker, Insert(w) PROVE GapInv'
  <2>1. /\ RecentEnough(w)'
        /\ \A r \in Reading, a \in 0..Horizon : samples[r][a] > 0 => samples'[r][a] > 0
    BY <1>3, InsertGap
  <2> QED BY <1>3, <2>1, OneProcess DEF Insert, SnapTypeOK
<1>4. ASSUME NEW w \in Worker, NEW r \in Reading, See(w, r) PROVE GapInv'
  <2>1. steady'[w] = 0 /\ task' = task /\ marker' = marker
    BY <1>4 DEF See, SnapTypeOK
  <2>2. task[w].at = "writing" =>
          marker[w] \in {NoMarker, [reading |-> task[w].reading, age |-> task[w].wait]}
    BY DEF GapInv, RecentEnough
  <2>3. RecentEnough(w)'
    BY <1>0, <2>1, <2>2, FreshStart
  <2> QED BY <1>4, <2>3, OneProcess DEF See, SnapTypeOK
<1>5. CASE Tick
  BY <1>5, TickGap DEF GapInv
<1>6. CASE UNCHANGED snapVars
  BY <1>6 DEF snapVars, GapInv, RecentEnough, Recent, Marked
<1> QED BY <1>1, <1>2, <1>3, <1>4, <1>5, <1>6 DEF SnapNext

\* While a process goes on without a failure and sees the same, the newest
\* sample of what it sees is never older than Gap, whatever other processes
\* write, fail and restart, if a wait for the write lock is shorter than the
\* interval (five seconds to an hour: db.get_db and db.SNAPSHOT_INTERVAL).
\* The marker set for a row that was refused is why it is twice the interval.
THEOREM NoGapHolds ==
  ASSUME BusyTimeout < Interval
  PROVE  SnapSpec => []NoGap
<1> USE SnapshotsAssumption
<1>1. SnapInit => GapInv
  <2> SUFFICES ASSUME SnapInit, NEW w \in Worker PROVE RecentEnough(w)
    BY DEF GapInv
  <2>1. /\ task[w].at = "asleep" /\ task[w].left = 0 /\ steady[w] = 0 /\ ~Marked(w)
    BY DEF SnapInit, Asleep, Marked
  <2>2. 2 * Interval - 1 + PollInterval - 0 \in Nat
    OBVIOUS
  <2> QED BY <2>1, <2>2 DEF RecentEnough, Recent
<1>2. SnapTypeOK /\ GapInv => NoGap
  <2> SUFFICES ASSUME SnapTypeOK, GapInv, NEW w \in Worker, steady[w] > Gap
               PROVE  \E a \in 0..Gap : samples[sees[w]][a] > 0
    BY DEF NoGap
  <2>1. Gap \in Int
    BY DEF Gap
  <2>2. Recent(w, Gap)
    <3>1. CASE task[w].at = "asleep"
      <4>1. PICK d \in Int : d = 2 * Interval - 1 + PollInterval - task[w].left
        BY <3>1, OwnNumbers
      <4>2. d <= Gap
        BY <3>1, <4>1, OwnNumbers DEF Gap
      <4>3. Recent(w, d)
        BY <3>1, <4>1 DEF GapInv, RecentEnough
      <4> QED BY <2>1, <4>2, <4>3, RecentLonger
    <3>2. CASE task[w].at = "writing"
      <4>1. PICK d \in Int : d = 2 * Interval - 1 + PollInterval + task[w].wait
        BY <3>2, OwnNumbers
      <4>2. d <= Gap
        BY <3>2, <4>1, OwnNumbers DEF Gap
      <4>3. Recent(w, d)
        BY <3>2, <4>1 DEF GapInv, RecentEnough
      <4> QED BY <2>1, <4>2, <4>3, RecentLonger
    <3> QED BY <3>1, <3>2, OwnNumbers
  <2>3. steady[w] \in Nat
    BY OwnNumbers
  <2> QED BY <2>1, <2>2, <2>3 DEF Recent
<1>3. SnapTypeOK /\ GapInv /\ [SnapNext]_snapVars => GapInv'
  BY GapStep
<1> QED BY <1>1, <1>2, <1>3, SnapTyping, PTL DEF SnapSpec

=============================================================================
