-------------------------- MODULE SovChanges_proofs --------------------------
(***************************************************************************)
(* What SovChanges promises for any number of processes, threads, systems  *)
(* and alliances, and any times.                                           *)
(***************************************************************************)
EXTENDS SovChanges, SequenceTheorems, FiniteSetTheorems, TLAPS

\* How old the map of a request may be.
Since(r) == IF r.kept THEN TTL + Delay + r.age ELSE r.age

\* What the age of the logged rows rests on: who holds a system is not gone
\* from it; an answer is as old as its way; a cached map, as its expiry says and
\* the answer's way; a map about to be recorded, as a cached one and its own way.
RecentInv ==
    /\ holder \in Map
    /\ gone \in [System -> [Alliance -> Nat]]
    /\ entry \in [Process -> Entry \cup {Unknown}]
    /\ request \in [Thread -> Request \cup {Unknown}]
    /\ DOMAIN state = System
    /\ \A s \in System : gone[s][holder[s]] = 0
    /\ \A p \in Process : entry[p] # Unknown =>
         \A s \in System : gone[s][entry[p].map[s]] <= TTL + Delay - entry[p].left
    /\ \A t \in Thread : request[t] # Unknown =>
         \A s \in System : gone[s][request[t].map[s]] <= Since(request[t])

\* It holds at the start.
LEMMA RecentInit == SovInit => RecentInv
<1> SUFFICES ASSUME SovInit PROVE RecentInv
  OBVIOUS
<1>1. gone \in [System -> [Alliance -> Nat]] /\ \A s \in System : gone[s][holder[s]] = 0
  BY SovAssumption DEF SovInit, Map, Oldest
<1> QED BY <1>1 DEF SovInit, RecentInv

\* Every step keeps it.
LEMMA RecentStep == RecentInv /\ [SovNext]_sovVars => RecentInv'
<1> SUFFICES ASSUME RecentInv, [SovNext]_sovVars PROVE RecentInv'
  OBVIOUS
<1> USE SovAssumption
<1> DEFINE Timely(e, g) == e # Unknown =>
             /\ e \in Entry
             /\ \A s \in System : g[s][e.map[s]] <= TTL + Delay - e.left
           Taken(r, g) == r # Unknown =>
             /\ r \in Request
             /\ \A s \in System : g[s][r.map[s]] <= Since(r)
<1>0. /\ holder \in Map
      /\ gone \in [System -> [Alliance -> Nat]]
      /\ entry \in [Process -> Entry \cup {Unknown}]
      /\ request \in [Thread -> Request \cup {Unknown}]
      /\ DOMAIN state = System
      /\ \A s \in System : gone[s][holder[s]] = 0
      /\ \A p \in Process : Timely(entry[p], gone)
      /\ \A t \in Thread : Taken(request[t], gone)
  BY DEF RecentInv
<1>q. ASSUME holder' \in Map, gone' \in [System -> [Alliance -> Nat]],
             entry' \in [Process -> Entry \cup {Unknown}],
             request' \in [Thread -> Request \cup {Unknown}], DOMAIN state' = System,
             \A s \in System : gone'[s][holder'[s]] = 0,
             \A p \in Process : Timely(entry'[p], gone'),
             \A t \in Thread : Taken(request'[t], gone')
      PROVE  RecentInv'
  BY <1>q DEF RecentInv
<1>1. ASSUME NEW s \in System, NEW a \in Alliance, Conquer(s, a) PROVE RecentInv'
  <2>1. holder' \in Map /\ gone' \in [System -> [Alliance -> Nat]]
    BY <1>0, <1>1 DEF Conquer, Map
  <2>2. \A u \in System, b \in Alliance : gone'[u][b] <= gone[u][b]
    BY <1>0, <1>1 DEF Conquer
  <2>3. \A u \in System, b \in Alliance : gone'[u][b] \in Nat /\ gone[u][b] \in Nat
    BY <1>0, <2>1
  <2>4. \A u \in System : gone'[u][holder'[u]] = 0
    <3> TAKE u \in System
    <3>1. CASE u = s
      BY <1>0, <1>1, <3>1 DEF Conquer, Map
    <3>2. CASE u # s
      BY <1>0, <1>1, <3>2 DEF Conquer, Map
    <3> QED BY <3>1, <3>2
  <2>5. entry' = entry /\ request' = request /\ state' = state
    BY <1>1 DEF Conquer
  <2>6. \A p \in Process : Timely(entry[p], gone')
    <3> SUFFICES ASSUME NEW p \in Process, entry[p] # Unknown, NEW u \in System
                 PROVE  gone'[u][entry[p].map[u]] <= TTL + Delay - entry[p].left
      BY <1>0
    <3>1. entry[p].map[u] \in Alliance /\ entry[p].left \in Nat
          /\ gone[u][entry[p].map[u]] <= TTL + Delay - entry[p].left
      BY <1>0 DEF Map, Entry, Request
    <3> QED BY <2>2, <2>3, <3>1
  <2>7. \A t \in Thread : Taken(request[t], gone')
    <3> SUFFICES ASSUME NEW t \in Thread, request[t] # Unknown, NEW u \in System
                 PROVE  gone'[u][request[t].map[u]] <= Since(request[t])
      BY <1>0
    <3>1. request[t].map[u] \in Alliance /\ request[t].age \in Nat
          /\ gone[u][request[t].map[u]] <= Since(request[t])
          /\ Since(request[t]) \in Nat
      BY <1>0 DEF Map, Entry, Request, Since
    <3> QED BY <2>2, <2>3, <3>1
  <2> QED BY <1>0, <1>q, <2>1, <2>4, <2>5, <2>6, <2>7
<1>f. ASSUME NEW t \in Thread, FromCache(t) PROVE RecentInv'
  <2> DEFINE p == ProcessOf[t]
             r == [map |-> entry[p].map, age |-> 0, kept |-> TRUE]
  <2>1. p \in Process /\ entry[p] # Unknown
    BY <1>f DEF FromCache, Cached
  <2>2. /\ request' = [request EXCEPT ![t] = r]
        /\ holder' = holder /\ gone' = gone /\ entry' = entry /\ state' = state
    BY <1>f DEF FromCache
  <2>3. entry[p] \in Entry /\ \A s \in System : gone[s][entry[p].map[s]] <= TTL + Delay - entry[p].left
    BY <1>0, <2>1
  <2>4. r \in Request /\ r.map = entry[p].map /\ Since(r) = TTL + Delay
    BY <2>3 DEF Request, Entry, Since
  <2> HIDE DEF r
  <2>5. ASSUME NEW s \in System PROVE gone[s][r.map[s]] <= Since(r)
    <3>1. entry[p].map[s] \in Alliance /\ entry[p].left \in Nat
      BY <2>3 DEF Entry, Map
    <3>2. gone[s][entry[p].map[s]] \in Nat
      BY <1>0, <3>1
    <3> QED BY <2>3, <2>4, <3>1, <3>2
  <2>6. \A u \in Thread : Taken(request'[u], gone')
    BY <1>0, <2>2, <2>4, <2>5
  <2> QED BY <1>0, <1>q, <2>2, <2>4, <2>6
<1>2. ASSUME NEW t \in Thread, Fetch(t) PROVE RecentInv'
  <2> DEFINE r == [map |-> holder, age |-> 0, kept |-> FALSE]
  <2>1. /\ request' = [request EXCEPT ![t] = r]
        /\ holder' = holder /\ gone' = gone /\ entry' = entry /\ state' = state
    BY <1>2 DEF Fetch
  <2>2. r \in Request /\ r.map = holder /\ Since(r) = 0
    BY <1>0 DEF Request, Since
  <2> HIDE DEF r
  <2>3. \A u \in Thread : Taken(request'[u], gone')
    BY <1>0, <2>1, <2>2
  <2> QED BY <1>0, <1>q, <2>1, <2>2, <2>3
<1>k. ASSUME NEW t \in Thread, Keep(t) PROVE RecentInv'
  <2> DEFINE p == ProcessOf[t]
             e == [map |-> request[t].map, left |-> TTL]
             r == [map |-> request[t].map, age |-> 0, kept |-> TRUE]
  <2>1. /\ request' = [request EXCEPT ![t] = r]
        /\ entry' = [entry EXCEPT ![p] = e]
        /\ holder' = holder /\ gone' = gone /\ state' = state
        /\ request[t] # Unknown /\ ~request[t].kept
    BY <1>k DEF Keep
  <2>2. request[t] \in Request /\ \A s \in System : gone[s][request[t].map[s]] <= request[t].age
    BY <1>0, <2>1 DEF Since
  <2>3. /\ r \in Request /\ r.map = request[t].map /\ Since(r) = TTL + Delay
        /\ e \in Entry /\ e.map = request[t].map /\ e.left = TTL
    BY <2>2 DEF Request, Entry, Since
  <2> HIDE DEF r, e
  <2>4. ASSUME NEW s \in System PROVE gone[s][request[t].map[s]] \in Nat /\ gone[s][request[t].map[s]] <= Delay
    <3>1. request[t].map[s] \in Alliance /\ request[t].age \in 0..Delay
      BY <2>2 DEF Request, Map
    <3>2. gone[s][request[t].map[s]] \in Nat
      BY <1>0, <3>1
    <3> QED BY <2>2, <3>1, <3>2
  <2>5. \A s \in System : gone[s][r.map[s]] <= Since(r)
    BY <2>3, <2>4
  <2>6. \A s \in System : gone[s][e.map[s]] <= TTL + Delay - e.left
    BY <2>3, <2>4
  <2>7. \A u \in Thread : Taken(request'[u], gone')
    BY <1>0, <2>1, <2>3, <2>5
  <2>8. \A u \in Process : Timely(entry'[u], gone')
    BY <1>0, <2>1, <2>3, <2>6
  <2> QED BY <1>0, <1>q, <2>1, <2>3, <2>7, <2>8
<1>v. ASSUME NEW p \in Process, Evict(p) PROVE RecentInv'
  BY <1>0, <1>v, <1>q DEF Evict
<1>3. ASSUME NEW t \in Thread, Record(t) \/ RequestFails(t) PROVE RecentInv'
  <2>1. /\ request' = [request EXCEPT ![t] = Unknown]
        /\ holder' = holder /\ gone' = gone /\ entry' = entry
        /\ DOMAIN state' = System
    BY <1>0, <1>3 DEF Record, RequestFails, StateAfter
  <2> QED BY <1>0, <1>q, <2>1
<1>4. ASSUME NEW p \in Process, Restart(p) PROVE RecentInv'
  BY <1>0, <1>4, <1>q DEF Restart
<1>5. ASSUME Tick PROVE RecentInv'
  <2>1. \A s \in System, a \in Alliance :
          gone'[s][a] = IF a = holder[s] THEN 0
                        ELSE IF gone[s][a] > Oldest THEN gone[s][a] ELSE gone[s][a] + 1
    BY <1>5 DEF Tick
  <2>2. gone' \in [System -> [Alliance -> Nat]]
    BY <1>0, <1>5 DEF Tick, Oldest
  <2>3. \A s \in System, a \in Alliance :
          gone[s][a] \in Nat /\ gone'[s][a] \in Nat /\ gone'[s][a] <= gone[s][a] + 1
    BY <1>0, <2>1
  <2>4. \A s \in System : gone'[s][holder'[s]] = 0
    BY <1>0, <1>5, <2>1 DEF Tick, Map
  <2>5. ASSUME NEW p \in Process PROVE Timely(entry'[p], gone')
    <3> SUFFICES ASSUME entry'[p] # Unknown PROVE Timely(entry'[p], gone')
      OBVIOUS
    <3>1. /\ entry[p] # Unknown /\ entry[p].left # 0
          /\ entry'[p] = [entry[p] EXCEPT !.left = @ - 1]
      BY <1>5 DEF Tick
    <3>2. /\ entry[p] \in Entry
          /\ \A s \in System : gone[s][entry[p].map[s]] <= TTL + Delay - entry[p].left
      BY <1>0, <3>1
    <3>3. /\ entry'[p] \in Entry
          /\ entry'[p].map = entry[p].map
          /\ entry'[p].left = entry[p].left - 1
      BY <3>1, <3>2 DEF Entry
    <3>4. ASSUME NEW s \in System PROVE gone'[s][entry'[p].map[s]] <= TTL + Delay - entry'[p].left
      <4>1. entry[p].map[s] \in Alliance /\ entry[p].left \in Nat
        BY <3>2 DEF Entry, Map
      <4> QED BY <2>3, <3>2, <3>3, <4>1
    <3> QED BY <3>3, <3>4
  <2>6. ASSUME NEW t \in Thread PROVE Taken(request'[t], gone')
    <3> SUFFICES ASSUME request'[t] # Unknown PROVE Taken(request'[t], gone')
      OBVIOUS
    <3>1. /\ request[t] # Unknown /\ request[t].age < Delay
          /\ request'[t] = [request[t] EXCEPT !.age = @ + 1]
      BY <1>5 DEF Tick
    <3>2. /\ request[t] \in Request
          /\ \A s \in System : gone[s][request[t].map[s]] <= Since(request[t])
      BY <1>0, <3>1
    <3>3. /\ request'[t] \in Request
          /\ request'[t].map = request[t].map
          /\ request'[t].age = request[t].age + 1
          /\ Since(request[t]) \in Nat /\ Since(request'[t]) = Since(request[t]) + 1
      BY <3>1, <3>2 DEF Request, Since
    <3>4. ASSUME NEW s \in System PROVE gone'[s][request'[t].map[s]] <= Since(request'[t])
      <4>1. request[t].map[s] \in Alliance /\ request[t].age \in Nat
        BY <3>2 DEF Request, Map
      <4> QED BY <2>3, <3>2, <3>3, <4>1
    <3> QED BY <3>3, <3>4
  <2>7. /\ entry' \in [Process -> Entry \cup {Unknown}]
        /\ request' \in [Thread -> Request \cup {Unknown}]
    <3>1. DOMAIN entry' = Process /\ DOMAIN request' = Thread
      BY <1>5 DEF Tick
    <3>2. entry' = [p \in Process |-> entry'[p]] /\ request' = [t \in Thread |-> request'[t]]
      BY <1>5 DEF Tick
    <3> QED BY <2>5, <2>6, <3>2
  <2> QED BY <1>0, <1>5, <1>q, <2>2, <2>4, <2>5, <2>6, <2>7 DEF Tick
<1>6. CASE UNCHANGED sovVars
  BY <1>0, <1>6, <1>q DEF sovVars
<1> QED BY <1>1, <1>f, <1>2, <1>k, <1>v, <1>3, <1>4, <1>5, <1>6 DEF SovNext

\* Under it no recorded map is of a holder gone too long.
LEMMA RecordIsRecent ==
  RecentInv /\ [SovNext]_sovVars =>
      \A s \in System : state'[s] # state[s] => gone[s][state'[s]] <= Oldest
<1> SUFFICES ASSUME RecentInv, [SovNext]_sovVars, NEW s \in System, state'[s] # state[s]
             PROVE  gone[s][state'[s]] <= Oldest
  OBVIOUS
<1>1. ASSUME NEW t \in Thread, Record(t) PROVE gone[s][state'[s]] <= Oldest
  <2>1. request[t] \in Request /\ state'[s] = request[t].map[s]
    BY <1>1 DEF Record, StateAfter, RecentInv
  <2>2. request[t].map[s] \in Alliance /\ request[t].age \in 0..Delay
    BY <2>1 DEF Request, Map
  <2>3. gone[s][request[t].map[s]] \in Nat
        /\ gone[s][request[t].map[s]] <= Since(request[t])
    BY <1>1, <2>2 DEF Record, RecentInv
  <2>4. Since(request[t]) <= Oldest /\ Since(request[t]) \in Nat
    BY <1>1, <2>2, SovAssumption DEF Record, Since, Oldest
  <2> QED BY <2>1, <2>3, <2>4, SovAssumption DEF Oldest
<1>2. ~UNCHANGED state
  OBVIOUS
<1> QED BY <1>1, <1>2 DEF SovNext, Conquer, FromCache, Fetch, Keep, Evict, RequestFails, Restart, Tick, sovVars

\* Whichever process reports, from whatever cached map, a row says of nobody
\* who has not held the system recently that it holds it (record_sov_changes).
THEOREM LogStaysRecent == SovSpec => LogRecent
<1>1. SovSpec => []RecentInv
  BY RecentInit, RecentStep, PTL DEF SovSpec
<1> QED BY <1>1, RecordIsRecent, PTL DEF SovSpec, LogRecent

----------------------------------------------------------------------------
(* The log is one history per system                                        *)

\* The types that are not part of RecentInv.
LogTypes ==
    /\ changes \in Seq(Change)
    /\ gone \in [System -> [Alliance -> 0..(Oldest + 1)]]
    /\ state \in [System -> Alliance \cup {Unknown}]
    /\ log \in Seq(Change) /\ Len(log) <= SovMax

\* An order in which a transaction may write its rows names every system once.
LEMMA OrderNames ==
  ASSUME NEW S, IsFiniteSet(S), NEW order \in SetToSeqs(S)
  PROVE  /\ order \in Seq(S) /\ Len(order) \in Nat /\ DOMAIN order = 1..Len(order)
         /\ \A i, j \in 1..Len(order) : i # j => order[i] # order[j]
         /\ \A s \in S : \E i \in 1..Len(order) : order[i] = s
<1> DEFINE n == Cardinality(S)
<1>1. n \in Nat
  BY FS_CardinalityType
<1>2. order \in [1..n -> S] /\ \A i, j \in 1..n : i # j => order[i] # order[j]
  BY DEF SetToSeqs
<1>3. order \in Seq(S) /\ Len(order) = n
  <2> HIDE DEF n
  <2> QED BY <1>1, <1>2
<1>4. Cardinality(1..n) = n
  <2> HIDE DEF n
  <2>1. 1 \in Int /\ n \in Int /\ n - 1 + 1 = n /\ (1 > n => n = 0)
    BY <1>1
  <2> QED BY <2>1, FS_Interval
<1>5. order \in Injection(1..n, S)
  <2> HIDE DEF n
  <2> QED BY <1>2 DEF Injection, IsInjective
<1>6. order \in Surjection(1..n, S)
  <2>1. Cardinality(1..n) = Cardinality(S)
    BY <1>4
  <2> HIDE DEF n
  <2> QED BY <1>5, <2>1, FS_Injection
<1>7. \A s \in S : \E i \in 1..n : order[i] = s
  <2> HIDE DEF n
  <2> QED BY <1>6 DEF Surjection
<1> HIDE DEF n
<1> QED BY <1>1, <1>2, <1>3, <1>7

\* The rows of a transaction name every system it logs once.
LEMMA LoggedNames ==
  ASSUME SovAssumption, NEW map \in Map, NEW order \in SetToSeqs(Logged(map))
  PROVE  /\ order \in Seq(Logged(map)) /\ Len(order) \in Nat /\ DOMAIN order = 1..Len(order)
         /\ \A i, j \in 1..Len(order) : i # j => order[i] # order[j]
         /\ \A s \in Logged(map) : \E i \in 1..Len(order) : order[i] = s
<1>1. Logged(map) \in SUBSET System
  BY DEF Logged, News
<1>2. IsFiniteSet(Logged(map))
  BY <1>1, FS_Subset DEF SovAssumption
<1> QED BY <1>2, OrderNames

\* What a list of rows is made of.
LEMMA RowsOfList ==
  ASSUME NEW rows \in Seq(Change)
  PROVE  /\ Len(rows) \in Nat /\ DOMAIN rows = 1..Len(rows)
         /\ \A i \in 1..Len(rows) : /\ rows[i] \in Change /\ rows[i].system \in System
                                    /\ rows[i].old \in Alliance /\ rows[i].new \in Alliance
<1>1. Len(rows) \in Nat /\ DOMAIN rows = 1..Len(rows) /\ \A i \in 1..Len(rows) : rows[i] \in Change
  BY LenProperties, ElementOfSeq
<1> QED BY <1>1 DEF Change

\* The newest rows of a list.
LEMMA TrimmedIsSuffix ==
  ASSUME NEW rows \in Seq(Change)
  PROVE  \E d \in Nat, t \in Seq(Change) :
            /\ Trimmed(rows) = t /\ Len(t) <= SovMax
            /\ Len(rows) = Len(t) + d
            /\ \A i \in 1..Len(t) : t[i] = rows[i + d]
<1> USE SovAssumption
<1>1. Len(rows) \in Nat /\ \A i \in 1..Len(rows) : rows[i] \in Change
  BY RowsOfList
<1>2. CASE Len(rows) <= SovMax
  <2>1. Trimmed(rows) = rows
    BY <1>2 DEF Trimmed
  <2>2. 0 \in Nat /\ Len(rows) = Len(rows) + 0 /\ \A i \in 1..Len(rows) : i + 0 = i
    BY <1>1
  <2> QED BY <1>2, <2>1, <2>2
<1>3. CASE Len(rows) > SovMax
  <2>1. PICK d \in Nat : d = Len(rows) - SovMax
    BY <1>1, <1>3
  <2>2. PICK m \in Int : m = d + 1
    OBVIOUS
  <2>3. PICK n \in Int : n = Len(rows)
    BY <1>1
  <2>4. /\ n - m + 1 = SovMax /\ n = SovMax + d
        /\ \A i \in m..n : i \in 1..Len(rows)
        /\ \A i \in 1..SovMax : m + i - 1 = i + d
        /\ SovMax = IF m <= n THEN n - m + 1 ELSE 0
    BY <1>1, <1>3, <2>1, <2>2, <2>3
  <2>5. Trimmed(rows) = SubSeq(rows, m, n)
    <3>1. Len(rows) - SovMax + 1 = m
      BY <2>1, <2>2
    <3>2. ~(Len(rows) <= SovMax)
      BY <1>1, <1>3
    <3> QED BY <2>3, <3>1, <3>2 DEF Trimmed
  <2>6. PICK t : t = SubSeq(rows, m, n)
    OBVIOUS
  <2>7. \A i \in m..n : rows[i] \in Change
    BY <1>1, <2>4
  <2>8. /\ t \in Seq(Change) /\ Len(t) = SovMax
        /\ \A i \in 1..SovMax : t[i] = rows[m + i - 1]
    <3>1. /\ SubSeq(rows, m, n) \in Seq(Change)
          /\ Len(SubSeq(rows, m, n)) = IF m <= n THEN n - m + 1 ELSE 0
          /\ \A i \in 1..(n - m + 1) : SubSeq(rows, m, n)[i] = rows[m + i - 1]
      BY <2>7, SubSeqProperties
    <3>2. t \in Seq(Change)
      BY <2>6, <3>1
    <3>3. Len(t) = SovMax
      BY <2>4, <2>6, <3>1
    <3>4. \A i \in 1..SovMax : t[i] = rows[m + i - 1]
      BY <2>4, <2>6, <3>1
    <3> QED BY <3>2, <3>3, <3>4
  <2>9. \A i \in 1..SovMax : t[i] = rows[i + d]
    BY <2>4, <2>8
  <2>10. Len(t) <= SovMax /\ Len(rows) = Len(t) + d
    BY <2>3, <2>4, <2>8
  <2>11. \A i \in 1..Len(t) : t[i] = rows[i + d]
    BY <2>8, <2>9
  <2>12. Trimmed(rows) = t /\ t \in Seq(Change)
    BY <2>5, <2>6, <2>8
  <2> QED BY <2>10, <2>11, <2>12
<1> QED BY <1>1, <1>2, <1>3

\* The newest rows of a history per system are one.
LEMMA SuffixChained ==
  ASSUME NEW rows \in Seq(Change), NEW t \in Seq(Change), NEW d \in Nat, NEW map,
         Len(rows) = Len(t) + d,
         \A i \in 1..Len(t) : t[i] = rows[i + d],
         Chained(rows, map)
  PROVE  Chained(t, map)
<1>1. /\ Len(rows) \in Nat /\ DOMAIN rows = 1..Len(rows)
      /\ Len(t) \in Nat /\ DOMAIN t = 1..Len(t)
  BY RowsOfList
<1> SUFFICES ASSUME NEW i \in 1..Len(t)
             PROVE  /\ t[i].old # t[i].new
                    /\ \A j \in 1..Len(t) : Continues(t, j, i) => t[j].old = t[i].new
                    /\ IsLatest(t, i) => t[i].new = map[t[i].system]
  BY <1>1 DEF Chained
<1>2. ASSUME NEW k \in 1..Len(t)
      PROVE  \E e \in DOMAIN rows : e = k + d /\ t[k] = rows[e]
  <2>1. k + d \in 1..Len(rows)
    BY <1>1
  <2> QED BY <1>1, <2>1
<1>3. PICK e \in DOMAIN rows : e = i + d /\ t[i] = rows[e]
  BY <1>2
<1>4. ASSUME NEW k \in DOMAIN rows, e < k
      PROVE  \E q \in 1..Len(t) : i < q /\ k = q + d /\ t[q] = rows[k]
  <2>1. PICK q \in 1..Len(t) : q = k - d
    BY <1>1, <1>3, <1>4
  <2>2. i < q /\ k = q + d
    BY <1>1, <1>3, <1>4, <2>1
  <2> QED BY <2>2
<1>5. t[i].old # t[i].new
  BY <1>3 DEF Chained
<1>6. ASSUME NEW j \in 1..Len(t), Continues(t, j, i) PROVE t[j].old = t[i].new
  <2>1. PICK f \in DOMAIN rows : f = j + d /\ t[j] = rows[f]
    BY <1>2
  <2>2. e < f
    BY <1>3, <1>6, <2>1 DEF Continues
  <2>3. ASSUME NEW k \in DOMAIN rows, e < k, k < f PROVE rows[k].system # rows[e].system
    <3>1. PICK q \in 1..Len(t) : i < q /\ k = q + d /\ t[q] = rows[k]
      BY <1>4, <2>3
    <3>2. q < j
      BY <2>1, <2>3, <3>1
    <3> QED BY <1>1, <1>3, <1>6, <3>1, <3>2 DEF Continues
  <2>4. Continues(rows, f, e)
    BY <1>3, <1>6, <2>1, <2>2, <2>3 DEF Continues
  <2> QED BY <1>3, <2>1, <2>4 DEF Chained
<1>7. ASSUME IsLatest(t, i) PROVE t[i].new = map[t[i].system]
  <2>1. ASSUME NEW k \in DOMAIN rows, e < k PROVE rows[k].system # rows[e].system
    <3>1. PICK q \in 1..Len(t) : i < q /\ t[q] = rows[k]
      BY <1>4, <2>1
    <3>2. t[q].system # t[i].system
      BY <1>1, <1>7, <3>1 DEF IsLatest
    <3> QED BY <1>3, <3>1, <3>2
  <2>2. IsLatest(rows, e)
    BY <2>1 DEF IsLatest
  <2> QED BY <1>3, <2>2 DEF Chained
<1> QED BY <1>5, <1>6, <1>7

\* New rows, one for every system whose known holder changed from before to
\* after.
CarriesOn(new, before, after) ==
    /\ \A i \in 1..Len(new) : /\ new[i].old = before[new[i].system]
                             /\ new[i].new = after[new[i].system]
                             /\ new[i].old # new[i].new
    /\ \A i, j \in 1..Len(new) : i # j => new[i].system # new[j].system
    /\ \A s \in System : before[s] \in Alliance /\ before[s] # after[s] =>
          \E i \in 1..Len(new) : new[i].system = s

\* They carry every history on.
LEMMA ConcatChained ==
  ASSUME NEW old \in Seq(Change), NEW new \in Seq(Change), NEW before, NEW after,
         Chained(old, before), CarriesOn(new, before, after)
  PROVE  Chained(old \o new, after)
<1>0. /\ \A i \in 1..Len(new) : /\ new[i].old = before[new[i].system]
                               /\ new[i].new = after[new[i].system]
                               /\ new[i].old # new[i].new
      /\ \A i, j \in 1..Len(new) : i # j => new[i].system # new[j].system
      /\ \A s \in System : before[s] \in Alliance /\ before[s] # after[s] =>
            \E i \in 1..Len(new) : new[i].system = s
  BY DEF CarriesOn
<1>1. PICK n \in Nat : n = Len(old) /\ DOMAIN old = 1..n
  BY RowsOfList
<1>2. PICK m \in Nat : m = Len(new) /\ DOMAIN new = 1..m
  BY RowsOfList
<1>3. PICK rows : rows = old \o new
  OBVIOUS
<1>4. /\ rows \in Seq(Change) /\ Len(rows) = n + m
      /\ \A i \in 1..(n + m) : rows[i] = IF i <= n THEN old[i] ELSE new[i - n]
  BY <1>1, <1>2, <1>3, ConcatProperties
<1>5. DOMAIN rows = 1..(n + m)
  BY <1>4, RowsOfList
<1>6. \A i \in 1..n : i \in DOMAIN rows /\ rows[i] = old[i]
  BY <1>4, <1>5
<1>7. ASSUME NEW q \in 1..m PROVE n + q \in DOMAIN rows /\ rows[n + q] = new[q]
  <2>1. n + q \in 1..(n + m) /\ ~(n + q <= n) /\ n + q - n = q
    OBVIOUS
  <2> QED BY <1>4, <1>5, <2>1
<1>8. ASSUME NEW i \in DOMAIN rows
      PROVE  i \in 1..n \/ \E q \in 1..m : i = n + q
  <2>1. i \in 1..n \/ (i - n \in 1..m /\ i = n + (i - n))
    BY <1>5
  <2> QED BY <2>1
<1> SUFFICES ASSUME NEW i \in DOMAIN rows
             PROVE  /\ rows[i].old # rows[i].new
                    /\ \A j \in DOMAIN rows : Continues(rows, j, i) => rows[j].old = rows[i].new
                    /\ IsLatest(rows, i) => rows[i].new = after[rows[i].system]
  BY <1>3 DEF Chained
<1>9. CASE i \in 1..n
  <2>1. rows[i] = old[i] /\ old[i].system \in System /\ old[i].new \in Alliance
    BY <1>1, <1>6, <1>9, RowsOfList
  <2>2. old[i].old # old[i].new
    BY <1>1, <1>9 DEF Chained
  <2>3. ASSUME \A k \in DOMAIN rows : i < k /\ k \in 1..n => rows[k].system # rows[i].system
        PROVE  old[i].new = before[old[i].system]
    <3>1. IsLatest(old, i)
      BY <1>1, <1>6, <2>1, <2>3 DEF IsLatest
    <3> QED BY <1>1, <1>9, <3>1 DEF Chained
  <2>4. ASSUME NEW j \in DOMAIN rows, Continues(rows, j, i) PROVE rows[j].old = rows[i].new
    <3>1. CASE j \in 1..n
      <4>1. Continues(old, j, i)
        BY <1>1, <1>6, <2>1, <2>4, <3>1 DEF Continues
      <4>2. old[j].old = old[i].new
        BY <1>1, <1>9, <3>1, <4>1 DEF Chained
      <4> QED BY <1>6, <2>1, <3>1, <4>2
    <3>2. ASSUME NEW q \in 1..m, j = n + q PROVE rows[j].old = rows[i].new
      <4>1. rows[j] = new[q] /\ new[q].old = before[new[q].system]
        BY <1>0, <1>2, <1>7, <3>2
      <4>2. \A k \in 1..n : k < j
        BY <3>2
      <4>3. old[i].new = before[old[i].system]
        BY <2>3, <2>4, <4>2 DEF Continues
      <4> QED BY <2>1, <2>4, <4>1, <4>3 DEF Continues
    <3> QED BY <1>8, <3>1, <3>2
  <2>5. ASSUME IsLatest(rows, i) PROVE rows[i].new = after[rows[i].system]
    <3>1. old[i].new = before[old[i].system]
      BY <2>3, <2>5 DEF IsLatest
    <3>2. ASSUME NEW q \in 1..m PROVE new[q].system # old[i].system
      <4>1. i < n + q
        BY <1>9
      <4> QED BY <1>7, <2>1, <2>5, <4>1 DEF IsLatest
    <3>3. before[old[i].system] = after[old[i].system]
      BY <1>0, <1>2, <2>1, <3>1, <3>2
    <3> QED BY <2>1, <3>1, <3>3
  <2> QED BY <2>1, <2>2, <2>4, <2>5
<1>10. ASSUME NEW p \in 1..m, i = n + p
       PROVE  /\ rows[i].old # rows[i].new
              /\ \A j \in DOMAIN rows : Continues(rows, j, i) => rows[j].old = rows[i].new
              /\ IsLatest(rows, i) => rows[i].new = after[rows[i].system]
  <2>1. /\ rows[i] = new[p] /\ new[p].old # new[p].new
        /\ new[p].new = after[new[p].system]
    BY <1>0, <1>2, <1>7, <1>10
  <2>2. ASSUME NEW j \in DOMAIN rows, i < j PROVE rows[j].system # rows[i].system
    <3>0. ~(j \in 1..n)
      BY <1>10, <2>2
    <3>1. PICK q \in 1..m : j = n + q
      BY <1>8, <3>0
    <3>2. q # p /\ rows[j] = new[q]
      BY <1>7, <1>10, <2>2, <3>1
    <3> QED BY <1>0, <1>2, <2>1, <3>2
  <2> QED BY <2>1, <2>2 DEF Continues
<1> QED BY <1>8, <1>9, <1>10

\* A transaction carries each system's history on from where the log and the
\* stored state left it.
LEMMA RecordChains ==
  ASSUME LogTypes, LogChained, NEW map \in Map, NEW order \in SetToSeqs(Logged(map)),
         log' = Trimmed(log \o [i \in DOMAIN order |->
                  [system |-> order[i], old |-> state[order[i]], new |-> map[order[i]]]]),
         state' = StateAfter(map)
  PROVE  log' \in Seq(Change) /\ Len(log') <= SovMax /\ LogChained'
<1> USE SovAssumption
<1> DEFINE new == [i \in DOMAIN order |->
                  [system |-> order[i], old |-> state[order[i]], new |-> map[order[i]]]]
<1>1. /\ order \in Seq(Logged(map)) /\ Len(order) \in Nat /\ DOMAIN order = 1..Len(order)
      /\ \A i, j \in 1..Len(order) : i # j => order[i] # order[j]
      /\ \A s \in Logged(map) : \E i \in 1..Len(order) : order[i] = s
  BY LoggedNames
<1>2. ASSUME NEW i \in 1..Len(order)
      PROVE  /\ order[i] \in System /\ state[order[i]] \in Alliance /\ map[order[i]] \in Alliance
             /\ state[order[i]] # map[order[i]]
  <2>1. order[i] \in Logged(map)
    BY <1>1, ElementOfSeq
  <2> QED BY <2>1 DEF Logged, News, Map, LogTypes
<1>3. new \in Seq(Change) /\ Len(new) = Len(order)
  <2>1. new \in [1..Len(order) -> Change]
    BY <1>1, <1>2 DEF Change
  <2> HIDE DEF new
  <2> QED BY <1>1, <2>1
<1>4. \A i \in 1..Len(new) : /\ new[i].system = order[i]
                             /\ new[i].old = state[order[i]] /\ new[i].new = map[order[i]]
  <2> SUFFICES ASSUME NEW i \in DOMAIN order
               PROVE  /\ new[i].system = order[i]
                      /\ new[i].old = state[order[i]] /\ new[i].new = map[order[i]]
    <3> HIDE DEF new
    <3> QED BY <1>1, <1>3
  <2> QED OBVIOUS
<1> HIDE DEF new
<1>5. \A s \in System : state[s] \in Alliance /\ state[s] # map[s] =>
         \E i \in 1..Len(new) : new[i].system = s
  <2> SUFFICES ASSUME NEW s \in System, state[s] \in Alliance, state[s] # map[s]
               PROVE  \E i \in 1..Len(new) : new[i].system = s
    OBVIOUS
  <2>1. s \in Logged(map)
    BY DEF Logged, News
  <2> QED BY <1>1, <1>3, <1>4, <2>1
<1>6. \A i, j \in 1..Len(new) : i # j => new[i].system # new[j].system
  BY <1>1, <1>3, <1>4
<1>7. \A i \in 1..Len(new) : /\ new[i].old = state[new[i].system]
                             /\ new[i].new = map[new[i].system]
                             /\ new[i].old # new[i].new
  BY <1>2, <1>3, <1>4
<1>8. Chained(log \o new, map)
  <2>1. log \in Seq(Change) /\ Chained(log, state)
    BY DEF LogTypes, LogChained
  <2>2. CarriesOn(new, state, map)
    BY <1>5, <1>6, <1>7 DEF CarriesOn
  <2> QED BY <1>3, <2>1, <2>2, ConcatChained
<1>9. log \o new \in Seq(Change)
  BY <1>3, ConcatProperties DEF LogTypes
<1>10. PICK d \in Nat, t \in Seq(Change) :
          /\ Trimmed(log \o new) = t /\ Len(t) <= SovMax
          /\ Len(log \o new) = Len(t) + d
          /\ \A i \in 1..Len(t) : t[i] = (log \o new)[i + d]
  BY <1>9, TrimmedIsSuffix
<1>11. Chained(t, map)
  BY <1>8, <1>9, <1>10, SuffixChained
<1>12. log' = t
  BY <1>10 DEF new
<1>13. Chained(t, StateAfter(map))
  <2>1. \A i \in DOMAIN t : map[t[i].system] = StateAfter(map)[t[i].system]
    BY RowsOfList DEF StateAfter
  <2> QED BY <1>11, <2>1 DEF Chained
<1> QED BY <1>10, <1>12, <1>13 DEF LogChained

\* Every step keeps the other types, and the log a history per system.
LEMMA LogStep ==
  RecentInv /\ LogTypes /\ LogChained /\ [SovNext]_sovVars => LogTypes' /\ LogChained'
<1> SUFFICES ASSUME RecentInv, LogTypes, LogChained, [SovNext]_sovVars
             PROVE  LogTypes' /\ LogChained'
  OBVIOUS
<1> USE SovAssumption
<1>0. 0 \in 0..(Oldest + 1)
  BY DEF Oldest
<1>1. ASSUME NEW s \in System, NEW a \in Alliance, Conquer(s, a) PROVE LogTypes' /\ LogChained'
  <2>1. holder[s] \in Alliance
    BY DEF RecentInv, Map
  <2> DEFINE c == [system |-> s, old |-> holder[s], new |-> a]
  <2>2. c \in Change
    BY <2>1 DEF Change
  <2>3. changes' = Append(changes, c) /\ gone' = [gone EXCEPT ![s][a] = 0]
        /\ state' = state /\ log' = log
    BY <1>1 DEF Conquer
  <2>4. changes' \in Seq(Change)
    <3> HIDE DEF c
    <3> QED BY <2>2, <2>3, AppendProperties DEF LogTypes
  <2>5. gone' \in [System -> [Alliance -> 0..(Oldest + 1)]]
    BY <1>0, <2>3 DEF LogTypes
  <2> QED BY <2>3, <2>4, <2>5 DEF LogTypes, LogChained
<1>2. ASSUME NEW t \in Thread, Record(t) PROVE LogTypes' /\ LogChained'
  <2> DEFINE map == request[t].map
  <2>1. map \in Map
    BY <1>2 DEF Record, RecentInv, Request
  <2>2. PICK order \in SetToSeqs(Logged(map)) :
          log' = Trimmed(log \o [i \in DOMAIN order |->
                   [system |-> order[i], old |-> state[order[i]], new |-> map[order[i]]]])
    BY <1>2 DEF Record
  <2>3. state' = StateAfter(map) /\ changes' = changes /\ gone' = gone
    BY <1>2 DEF Record
  <2>4. state' \in [System -> Alliance \cup {Unknown}]
    BY <2>1, <2>3 DEF StateAfter, Map
  <2> HIDE DEF map
  <2>5. log' \in Seq(Change) /\ Len(log') <= SovMax /\ LogChained'
    BY <2>1, <2>2, <2>3, RecordChains
  <2> QED BY <2>3, <2>4, <2>5 DEF LogTypes
<1>3. ASSUME Tick PROVE LogTypes' /\ LogChained'
  <2>1. gone' \in [System -> [Alliance -> 0..(Oldest + 1)]]
    <3>1. Oldest \in Nat
      BY DEF Oldest
    <3>2. \A s \in System, a \in Alliance :
            (IF a = holder[s] THEN 0
             ELSE IF gone[s][a] > Oldest THEN gone[s][a] ELSE gone[s][a] + 1) \in 0..(Oldest + 1)
      BY <3>1 DEF LogTypes
    <3> QED BY <1>3, <3>2 DEF Tick
  <2> QED BY <1>3, <2>1 DEF Tick, LogTypes, LogChained
<1>4. ASSUME UNCHANGED <<changes, gone, state, log>> PROVE LogTypes' /\ LogChained'
  BY <1>4 DEF LogTypes, LogChained
<1> QED BY <1>1, <1>2, <1>3, <1>4
        DEF SovNext, FromCache, Fetch, Keep, RequestFails, Evict, Restart, sovVars

\* All of what holds of the log.
LEMMA LogInvHolds == SovSpec => [](RecentInv /\ LogTypes /\ LogChained)
<1>1. SovInit => LogTypes /\ LogChained
  <2> SUFFICES ASSUME SovInit PROVE LogTypes /\ LogChained
    OBVIOUS
  <2>1. gone \in [System -> [Alliance -> 0..(Oldest + 1)]]
    BY SovAssumption DEF SovInit, Oldest
  <2>2. log \in Seq(Change) /\ Len(log) = 0 /\ changes \in Seq(Change) /\ DOMAIN log = {}
    BY EmptySeq DEF SovInit
  <2> QED BY <2>1, <2>2, SovAssumption DEF SovInit, LogTypes, LogChained, Chained
<1> QED BY <1>1, RecentInit, RecentStep, LogStep, PTL DEF SovSpec

\* The types of everything the requests and their processes share, among them
\* that the log never has more than SOV_CHANGES_MAX rows.
THEOREM SovTyping == SovSpec => []SovTypeOK
<1>1. RecentInv /\ LogTypes => SovTypeOK
  BY DEF RecentInv, LogTypes, SovTypeOK
<1> QED BY <1>1, LogInvHolds, PTL

\* Whatever number of threads of whatever number of processes report, from
\* maps of whatever age and in whatever order, the log reads as one unbroken
\* history per system that ends with the stored state, also after the oldest
\* rows were trimmed (record_sov_changes).
THEOREM LogStaysChained == SovSpec => []LogChained
BY LogInvHolds, PTL

=============================================================================
