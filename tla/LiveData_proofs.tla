--------------------------- MODULE LiveData_proofs ---------------------------
(***************************************************************************)
(* The two ends of the live data: the ESI client, for any number of        *)
(* processes, threads and keys and any expiry times, budget and window,    *)
(* and the dashboard, for any region, answers and settings.                *)
(***************************************************************************)
EXTENDS EsiClient, Dashboard, FiniteSetTheorems, SequenceTheorems, WellFoundedInduction, TLAPS

----------------------------------------------------------------------------
(* The ESI client.                                                         *)

\* The greater of two numbers is one of them and not below the other.
LEMMA MaxOfTwo ==
  ASSUME NEW a \in Int, NEW b \in Int
  PROVE  /\ Max({a, b}) \in {a, b}
         /\ Max({a, b}) >= a
         /\ Max({a, b}) >= b
<1>1. \E x \in {a, b} : \A y \in {a, b} : x >= y
  <2>1. CASE a >= b
    BY <2>1
  <2>2. CASE ~(a >= b)
    BY <2>2
  <2> QED BY <2>1, <2>2
<1>2. /\ Max({a, b}) \in {a, b}
      /\ \A y \in {a, b} : Max({a, b}) >= y
  BY <1>1, Zenon DEF Max
<1> QED BY <1>2

\* The pause a thread arms is positive, and shorter neither than the pause
\* there was nor than the rest of the window its answer spoke of.
LEMMA ArmedBounds ==
  ASSUME NEW t \in Thread, pause[ProcessOf[t]] \in Nat, call[t].wait \in Nat
  PROVE  /\ Armed(t) \in Nat
         /\ Armed(t) >= pause[ProcessOf[t]]
         /\ Armed(t) >= call[t].wait
<1> DEFINE w == Max({call[t].wait, 1})
<1>1. w \in Nat /\ w >= call[t].wait
  <2>1. call[t].wait \in Int /\ 1 \in Int
    OBVIOUS
  <2>2. w \in {call[t].wait, 1} /\ w >= call[t].wait
    BY <2>1, MaxOfTwo, Zenon
  <2> HIDE DEF w
  <2> QED BY <2>2
<1> HIDE DEF w
<1>i. pause[ProcessOf[t]] \in Int /\ w \in Int
  BY <1>1
<1>2. /\ Max({pause[ProcessOf[t]], w}) \in {pause[ProcessOf[t]], w}
      /\ Max({pause[ProcessOf[t]], w}) >= pause[ProcessOf[t]]
      /\ Max({pause[ProcessOf[t]], w}) >= w
  BY <1>i, MaxOfTwo, Zenon
<1>3. Armed(t) = Max({pause[ProcessOf[t]], w})
  BY DEF Armed, w
<1> DEFINE m == Max({pause[ProcessOf[t]], w})
<1>4. m \in {pause[ProcessOf[t]], w} /\ m >= pause[ProcessOf[t]] /\ m >= w
  BY <1>2
<1>5. Armed(t) = m
  BY <1>3
<1> HIDE DEF m
<1> QED BY <1>1, <1>4, <1>5

----------------------------------------------------------------------------
(* The type invariant                                                       *)

Calls == [at : At, key : Key, age : Nat, tries : 0..Retries,
          ok : BOOLEAN, low : BOOLEAN, wait : 0..Window]

\* A call that is idle, or has just begun, has its type.
LEMMA GetterType ==
  /\ Idle \in Calls
  /\ \A k \in Key, at \in At : Getter(k, at) \in Calls
<1>1. \A k \in Key, at \in At : Getter(k, at) \in Calls
  BY EsiAssumption DEF Getter, Calls
<1>2. (CHOOSE k \in Key : TRUE) \in Key
  BY EsiAssumption
<1> QED BY <1>1, <1>2 DEF Idle, At

\* So has one whose answer has left, or has failed to come.
LEMMA AnswerType ==
  ASSUME EsiTypeOK, NEW t \in Thread
  PROVE  /\ \A ok \in BOOLEAN, n \in 0..Limit : Answered(t, ok, n) \in Calls
         /\ Failed(call[t]) \in Calls
<1>1. call[t] \in Calls
  BY DEF EsiTypeOK, Calls
<1>2. reset \in 0..Window
  BY EsiAssumption DEF EsiTypeOK
<1>3. \A ok \in BOOLEAN, n \in 0..Limit : Answered(t, ok, n) \in Calls
  BY <1>1, <1>2 DEF Answered, Calls, At
<1>4. Failed(call[t]) \in Calls
  BY <1>1, GetterType DEF Failed, Calls, At
<1> QED BY <1>3, <1>4

\* Every step keeps every variable in its type.
LEMMA EsiTypingStep ==
  EsiTypeOK /\ [EsiNext]_esiVars => EsiTypeOK'
<1> SUFFICES ASSUME EsiTypeOK, [EsiNext]_esiVars PROVE EsiTypeOK'
  OBVIOUS
<1> DEFINE CacheOK(c) == /\ DOMAIN c = Process
                         /\ \A p \in Process : /\ DOMAIN c[p] \subseteq Key
                                                /\ \A k \in DOMAIN c[p] : c[p][k] \in Entry
<1>0. /\ budget \in 0..Limit /\ reset \in 1..Window
      /\ CacheOK(cache)
      /\ pause \in [Process -> Nat]
      /\ call \in [Thread -> Calls]
      /\ warned \subseteq Process
  BY DEF EsiTypeOK, Calls
<1>q. ASSUME budget' \in 0..Limit, reset' \in 1..Window, CacheOK(cache'),
             pause' \in [Process -> Nat], call' \in [Thread -> Calls],
             warned' \subseteq Process
      PROVE  EsiTypeOK'
  BY <1>q DEF EsiTypeOK, Calls
<1> USE EsiAssumption
<1>1. ASSUME NEW t \in Thread, NEW k \in Key, Lookup(t, k) PROVE EsiTypeOK'
  <2>1. call' \in [Thread -> Calls]
    <3>1. CASE k \in Fresh(Entries(t))
      <4>1. Entries(t)[k].age \in Nat
        BY <1>0, <3>1 DEF Fresh, Entries, Entry
      <4>2. [Getter(k, "served") EXCEPT !.ok = TRUE, !.age = Entries(t)[k].age] \in Calls
        <5>1. PICK g \in Calls : g = Getter(k, "served")
          BY GetterType DEF At
        <5>2. [g EXCEPT !.ok = TRUE, !.age = Entries(t)[k].age] \in Calls
          BY <4>1 DEF Calls
        <5> QED BY <5>1, <5>2
      <4> QED BY <1>0, <1>1, <3>1, <4>2 DEF Lookup
    <3>2. CASE k \notin Fresh(Entries(t))
      BY <1>0, <1>1, <3>2, GetterType DEF Lookup, At
    <3> QED BY <3>1, <3>2
  <2>2. CacheOK(cache')
    <3>1. CASE k \in Fresh(Entries(t))
      BY <1>0, <1>1, <3>1 DEF Lookup
    <3>2. CASE k \notin Fresh(Entries(t))
      <4> DEFINE kept == Restrict(Entries(t), DOMAIN Entries(t) \ {k})
      <4>1. /\ DOMAIN kept = DOMAIN Entries(t) \ {k}
            /\ \A j \in DOMAIN kept : kept[j] = Entries(t)[j]
        BY DEF Restrict
      <4>2. cache' = [cache EXCEPT ![ProcessOf[t]] = kept]
        BY <1>1, <3>2 DEF Lookup, Entries
      <4> HIDE DEF kept
      <4> QED BY <1>0, <4>1, <4>2 DEF Entries
    <3> QED BY <3>1, <3>2
  <2> QED BY <1>0, <1>1, <1>q, <2>1, <2>2 DEF Lookup
<1>2. ASSUME NEW t \in Thread, PassPause(t) PROVE EsiTypeOK'
  <2>1. [call[t] EXCEPT !.at = "sent"] \in Calls
    BY <1>0 DEF Calls, At
  <2> QED BY <1>0, <1>2, <1>q, <2>1 DEF PassPause
<1>3. ASSUME NEW t \in Thread, Answer(t) PROVE EsiTypeOK'
  <2>1. Answered(t, TRUE, budget) \in Calls
    BY <1>0, AnswerType
  <2> QED BY <1>0, <1>3, <1>q, <2>1 DEF Answer
<1>4. ASSUME NEW t \in Thread, AnswerError(t) PROVE EsiTypeOK'
  <2>1. budget' \in 0..Limit
    BY <1>0, <1>4 DEF AnswerError
  <2>2. Answered(t, FALSE, budget') \in Calls
    BY <2>1, AnswerType
  <2>3. call[t].tries < Retries => [call[t] EXCEPT !.tries = @ + 1] \in Calls
    BY <1>0 DEF Calls
  <2> QED BY <1>0, <1>4, <1>q, <2>1, <2>2, <2>3 DEF AnswerError
<1>5. ASSUME NEW t \in Thread, Refuse(t) PROVE EsiTypeOK'
  <2>1. Answered(t, FALSE, 0) \in Calls
    <3>1. 0 \in 0..Limit /\ FALSE \in BOOLEAN
      OBVIOUS
    <3> QED BY <3>1, AnswerType
  <2> QED BY <1>0, <1>5, <1>q, <2>1 DEF Refuse
<1>6. ASSUME NEW t \in Thread, Note(t) PROVE EsiTypeOK'
  <2>1. /\ ProcessOf[t] \in Process
        /\ call[t].wait \in Nat
    BY <1>0 DEF Calls
  <2>2. pause' \in [Process -> Nat]
    BY <1>0, <1>6, <2>1, ArmedBounds DEF Note
  <2>3. [call[t] EXCEPT !.at = "storing"] \in Calls
    BY <1>0 DEF Calls, At
  <2>4. call' \in [Thread -> Calls]
    BY <1>0, <1>6, <2>3, AnswerType DEF Note
  <2> QED BY <1>0, <1>6, <1>q, <2>1, <2>2, <2>4 DEF Note
<1>7. ASSUME NEW t \in Thread, Lose(t) PROVE EsiTypeOK'
  BY <1>0, <1>7, <1>q, AnswerType DEF Lose
<1>8. ASSUME NEW t \in Thread, Store(t) PROVE EsiTypeOK'
  <2>1. call[t].key \in Key /\ [age |-> call[t].age, left |-> TTL[call[t].key]] \in Entry
    BY <1>0 DEF Calls, Entry
  <2>2. CacheOK(cache')
    BY <1>0, <1>8, <2>1 DEF Store, Entries
  <2>3. [call[t] EXCEPT !.at = "served"] \in Calls
    BY <1>0 DEF Calls, At
  <2> QED BY <1>0, <1>8, <1>q, <2>2, <2>3 DEF Store
<1>9. ASSUME NEW t \in Thread, Return(t) PROVE EsiTypeOK'
  <2>1. call' \in [Thread -> Calls]
    BY <1>0, <1>9, GetterType DEF Return
  <2> QED BY <1>0, <1>9, <1>q, <2>1 DEF Return
<1>10. ASSUME Elapse PROVE EsiTypeOK'
  <2>1. budget' \in 0..Limit /\ reset' \in 1..Window
    BY <1>0, <1>10 DEF Elapse
  <2>n. \A n \in Nat : Less(n) \in Nat /\ Older(n) \in Nat
    BY DEF Less, Older
  <2>2. \A e \in Entry : Aged(e) \in Entry
    BY <2>n DEF Entry, Aged
  <2>3. CacheOK(cache')
    BY <1>0, <1>10, <2>2 DEF Elapse
  <2>4. pause' \in [Process -> Nat]
    BY <1>0, <1>10, <2>n DEF Elapse
  <2>5. \A t \in Thread : [call[t] EXCEPT !.age = @ + 1] \in Calls
    BY <1>0 DEF Calls
  <2>6. call' \in [Thread -> Calls]
    BY <1>0, <1>10, <2>5 DEF Elapse
  <2> QED BY <1>0, <1>10, <1>q, <2>1, <2>3, <2>4, <2>6 DEF Elapse
<1>11. CASE UNCHANGED esiVars
  BY <1>0, <1>11, <1>q DEF esiVars
<1> QED BY <1>1, <1>2, <1>3, <1>4, <1>5, <1>6, <1>7, <1>8, <1>9, <1>10, <1>11
        DEF EsiNext, Call

\* EsiClient keeps its types.
THEOREM EsiTyping == EsiSpec => []EsiTypeOK
<1>1. EsiInit => EsiTypeOK
  <2> SUFFICES ASSUME EsiInit PROVE EsiTypeOK
    OBVIOUS
  <2>1. call \in [Thread -> Calls]
    BY GetterType DEF EsiInit
  <2> QED BY <2>1, EsiAssumption DEF EsiInit, EsiTypeOK, Calls
<1> QED BY <1>1, EsiTypingStep, PTL DEF EsiSpec

----------------------------------------------------------------------------
(* The cache is bounded                                                     *)

\* What _set_cache keeps of a cache within its bound leaves room for one more.
LEMMA RoomForOne ==
  ASSUME NEW entries, NEW kept, IsFiniteSet(DOMAIN entries),
         Cardinality(DOMAIN entries) <= MaxCache, kept \subseteq DOMAIN entries,
         Kept(entries, kept)
  PROVE  IsFiniteSet(kept) /\ Cardinality(kept) < MaxCache
<1> USE EsiAssumption
<1>1. IsFiniteSet(kept) /\ Cardinality(kept) \in Nat
  BY FS_Subset, FS_CardinalityType
<1>2. CASE Cardinality(DOMAIN entries) < MaxCache
  BY <1>1, <1>2 DEF Kept
<1>3. CASE ~(Cardinality(DOMAIN entries) < MaxCache) /\ Cardinality(Fresh(entries)) < MaxCache
  BY <1>1, <1>3 DEF Kept
<1>4. CASE ~(Cardinality(DOMAIN entries) < MaxCache) /\ ~(Cardinality(Fresh(entries)) < MaxCache)
  <2> DEFINE F == Fresh(entries)
  <2>1. F \subseteq DOMAIN entries
    BY DEF Fresh
  <2>2. kept \subseteq F /\ Cardinality(F \ kept) = Evict
    BY <1>4 DEF Kept
  <2> HIDE DEF F
  <2>3. IsFiniteSet(F) /\ Cardinality(F) <= Cardinality(DOMAIN entries)
    BY <2>1, FS_Subset
  <2>4. F \cap kept = kept
    BY <2>2
  <2>5. Cardinality(F \ kept) = Cardinality(F) - Cardinality(kept)
    BY <2>3, <2>4, FS_Difference
  <2>6. Cardinality(F) \in Nat /\ Cardinality(DOMAIN entries) \in Nat
    BY <2>3, FS_CardinalityType
  <2> QED BY <1>1, <2>2, <2>3, <2>5, <2>6
<1> QED BY <1>2, <1>3, <1>4

\* Every step keeps every cache bounded.
LEMMA CacheBoundedStep ==
  EsiTypeOK /\ CacheBounded /\ [EsiNext]_esiVars => CacheBounded'
<1> SUFFICES ASSUME EsiTypeOK, CacheBounded, [EsiNext]_esiVars PROVE CacheBounded'
  OBVIOUS
<1> USE EsiAssumption
<1>0. /\ DOMAIN cache = Process
      /\ \A p \in Process : /\ IsFiniteSet(DOMAIN cache[p])
                            /\ Cardinality(DOMAIN cache[p]) \in Nat
                            /\ Cardinality(DOMAIN cache[p]) <= MaxCache
  BY FS_Subset, FS_CardinalityType DEF EsiTypeOK, CacheBounded
<1>1. CASE UNCHANGED cache
  BY <1>0, <1>1 DEF CacheBounded
<1>2. ASSUME NEW t \in Thread, NEW k \in Key, Lookup(t, k) PROVE CacheBounded'
  <2>1. CASE k \in Fresh(Entries(t))
    BY <1>1, <1>2, <2>1 DEF Lookup
  <2>2. CASE k \notin Fresh(Entries(t))
    <3> DEFINE kept == Restrict(Entries(t), DOMAIN Entries(t) \ {k})
    <3>1. DOMAIN kept \subseteq DOMAIN Entries(t)
      BY DEF Restrict
    <3>2. cache' = [cache EXCEPT ![ProcessOf[t]] = kept]
      BY <1>2, <2>2 DEF Lookup, Entries
    <3> HIDE DEF kept
    <3>3. Cardinality(DOMAIN kept) <= MaxCache
      <4>1. IsFiniteSet(DOMAIN Entries(t)) /\ Cardinality(DOMAIN Entries(t)) <= MaxCache
        BY <1>0 DEF Entries
      <4>2. /\ Cardinality(DOMAIN kept) <= Cardinality(DOMAIN Entries(t))
            /\ IsFiniteSet(DOMAIN kept)
        BY <3>1, <4>1, FS_Subset
      <4>3. Cardinality(DOMAIN kept) \in Nat /\ Cardinality(DOMAIN Entries(t)) \in Nat
        BY <4>1, <4>2, FS_CardinalityType
      <4> QED BY <4>1, <4>2, <4>3
    <3> QED BY <1>0, <3>2, <3>3 DEF CacheBounded
  <2> QED BY <2>1, <2>2
<1>3. ASSUME NEW t \in Thread, Store(t) PROVE CacheBounded'
  <2>1. PICK kept \in SUBSET DOMAIN Entries(t) :
          /\ Kept(Entries(t), kept)
          /\ cache' = [cache EXCEPT ![ProcessOf[t]] =
               [k \in kept \cup {call[t].key} |->
                   IF k = call[t].key THEN [age |-> call[t].age, left |-> TTL[k]]
                   ELSE @[k]]]
    BY <1>3 DEF Store
  <2>2. IsFiniteSet(kept) /\ Cardinality(kept) < MaxCache
    BY <1>0, <2>1, RoomForOne DEF Entries
  <2>3. Cardinality(kept \cup {call[t].key}) <= MaxCache
    <3>0. Cardinality(kept) \in Nat
      BY <2>2, FS_CardinalityType
    <3>1. CASE call[t].key \in kept
      <4>1. kept \cup {call[t].key} = kept
        BY <3>1
      <4> QED BY <2>2, <3>0, <4>1
    <3>2. CASE call[t].key \notin kept
      <4>1. Cardinality(kept \cup {call[t].key}) = Cardinality(kept) + 1
        BY <2>2, <3>2, FS_AddElement
      <4> QED BY <2>2, <3>0, <4>1
    <3> QED BY <3>1, <3>2
  <2>4. DOMAIN cache'[ProcessOf[t]] = kept \cup {call[t].key}
    BY <1>0, <2>1
  <2>5. \A p \in Process : p # ProcessOf[t] => cache'[p] = cache[p]
    BY <1>0, <2>1
  <2> QED BY <1>0, <2>3, <2>4, <2>5 DEF CacheBounded
<1>4. ASSUME Elapse PROVE CacheBounded'
  <2>1. \A p \in Process : DOMAIN cache'[p] = DOMAIN cache[p]
    BY <1>4 DEF Elapse
  <2> QED BY <1>0, <2>1 DEF CacheBounded
<1>5. ASSUME NEW t \in Thread,
             PassPause(t) \/ Answer(t) \/ AnswerError(t) \/ Refuse(t) \/ Note(t)
             \/ Lose(t) \/ Return(t)
      PROVE  UNCHANGED cache
  BY <1>5 DEF PassPause, Answer, AnswerError, Refuse, Note, Lose, Return
<1>6. CASE UNCHANGED esiVars
  BY <1>1, <1>6 DEF esiVars
<1> QED BY <1>1, <1>2, <1>3, <1>4, <1>5, <1>6 DEF EsiNext, Call

\* A process's cache never outgrows MAX_CACHE_SIZE (esi_client.py).
THEOREM CacheStaysBounded == EsiSpec => []CacheBounded
<1>1. EsiInit => CacheBounded
  BY EsiAssumption, FS_EmptySet DEF EsiInit, CacheBounded
<1> QED BY <1>1, CacheBoundedStep, EsiTyping, PTL DEF EsiSpec

----------------------------------------------------------------------------
(* The pause lasts as long as the window                                    *)

\* What the pause rests on: a process that was warned in this window pauses
\* at least to its end, and an answer of this window knows how long it lasts.
PauseInv ==
    /\ \A p \in warned : pause[p] >= reset
    /\ \A t \in Thread : call[t].at = "answered" /\ call[t].age < call[t].wait
                         => reset = call[t].wait - call[t].age

\* Every step keeps it.
LEMMA PauseInvStep ==
  EsiTypeOK /\ PauseInv /\ [EsiNext]_esiVars => PauseInv'
<1> SUFFICES ASSUME EsiTypeOK, PauseInv, [EsiNext]_esiVars PROVE PauseInv'
  OBVIOUS
<1> USE EsiAssumption
<1> DEFINE InTime(c, r) == c.at = "answered" /\ c.age < c.wait => r = c.wait - c.age
<1>0. /\ reset \in 1..Window
      /\ pause \in [Process -> Nat]
      /\ call \in [Thread -> Calls]
      /\ warned \subseteq Process
      /\ \A p \in warned : pause[p] >= reset
      /\ \A t \in Thread : InTime(call[t], reset)
  BY DEF EsiTypeOK, Calls, PauseInv
<1>a. ASSUME NEW t \in Thread, NEW c, call' = [call EXCEPT ![t] = c],
             InTime(c, reset), UNCHANGED <<reset, pause, warned>>
      PROVE  PauseInv'
  BY <1>0, <1>a DEF PauseInv
<1>1. ASSUME NEW t \in Thread, NEW k \in Key, Lookup(t, k) PROVE PauseInv'
  <2>1. CASE k \in Fresh(Entries(t))
    <3>1. InTime([Getter(k, "served") EXCEPT !.ok = TRUE, !.age = Entries(t)[k].age], reset)
      BY DEF Getter
    <3> QED BY <1>1, <1>a, <2>1, <3>1 DEF Lookup
  <2>2. CASE k \notin Fresh(Entries(t))
    <3>1. InTime(Getter(k, IF k \in Zkill THEN "sent" ELSE "pausing"), reset)
      BY DEF Getter
    <3> QED BY <1>1, <1>a, <2>2, <3>1 DEF Lookup
  <2> QED BY <2>1, <2>2
<1>2. ASSUME NEW t \in Thread, PassPause(t) PROVE PauseInv'
  <2>1. InTime([call[t] EXCEPT !.at = "sent"], reset)
    BY <1>0 DEF Calls
  <2> QED BY <1>2, <1>a, <2>1 DEF PassPause
<1>3. ASSUME NEW t \in Thread, NEW ok, NEW n PROVE InTime(Answered(t, ok, n), reset)
  BY <1>0 DEF Answered, Calls
<1>4. ASSUME NEW t \in Thread, Answer(t) PROVE PauseInv'
  BY <1>3, <1>4, <1>a DEF Answer
<1>5. ASSUME NEW t \in Thread, AnswerError(t) PROVE PauseInv'
  <2>1. InTime([call[t] EXCEPT !.tries = @ + 1], reset)
    BY <1>0, <1>5 DEF Calls, AnswerError
  <2> QED BY <1>3, <1>5, <1>a, <2>1 DEF AnswerError
<1>6. ASSUME NEW t \in Thread, Refuse(t) PROVE PauseInv'
  BY <1>3, <1>6, <1>a DEF Refuse
<1>f. ASSUME NEW t \in Thread PROVE InTime(Failed(call[t]), reset)
  BY DEF Failed, Getter, Idle
<1>7. ASSUME NEW t \in Thread, Note(t) PROVE PauseInv'
  <2>1. /\ ProcessOf[t] \in Process /\ call[t].wait \in Nat /\ call[t].age \in Nat
        /\ pause[ProcessOf[t]] \in Nat
    BY <1>0 DEF Calls
  <2>2. \A u \in Thread : InTime(call'[u], reset')
    <3>1. InTime([call[t] EXCEPT !.at = "storing"], reset)
      BY <1>0 DEF Calls
    <3> QED BY <1>0, <1>7, <1>f, <3>1 DEF Note
  <2>3. \A p \in warned' : pause'[p] >= reset'
    <3>1. CASE call[t].low
      <4>1. /\ Armed(t) \in Nat
            /\ Armed(t) >= pause[ProcessOf[t]]
            /\ Armed(t) >= call[t].wait
        BY <2>1, ArmedBounds
      <4>2. call[t].age < call[t].wait => reset <= call[t].wait
        BY <1>0, <1>7, <2>1 DEF Note
      <4>3. /\ pause' = [pause EXCEPT ![ProcessOf[t]] = Armed(t)]
            /\ reset' = reset
            /\ warned' \subseteq warned \cup {ProcessOf[t]}
            /\ ProcessOf[t] \in warned' \ warned => call[t].age < call[t].wait
        BY <1>7, <3>1 DEF Note
      <4> SUFFICES ASSUME NEW p \in warned' PROVE pause'[p] >= reset
        BY <4>3
      <4>4. CASE p # ProcessOf[t]
        BY <1>0, <4>3, <4>4
      <4>5. CASE p = ProcessOf[t] /\ p \in warned
        BY <1>0, <2>1, <4>1, <4>3, <4>5
      <4>6. CASE p = ProcessOf[t] /\ p \notin warned
        BY <1>0, <2>1, <4>1, <4>2, <4>3, <4>6
      <4> QED BY <4>4, <4>5, <4>6
    <3>2. CASE ~call[t].low
      BY <1>0, <1>7, <3>2 DEF Note
    <3> QED BY <3>1, <3>2
  <2> QED BY <2>2, <2>3 DEF PauseInv
<1>8. ASSUME NEW t \in Thread, Lose(t) PROVE PauseInv'
  BY <1>8, <1>a, <1>f DEF Lose
<1>9. ASSUME NEW t \in Thread, Store(t) PROVE PauseInv'
  <2>1. InTime([call[t] EXCEPT !.at = "served"], reset)
    BY <1>0 DEF Calls
  <2> QED BY <1>9, <1>a, <2>1 DEF Store
<1>10. ASSUME NEW t \in Thread, Return(t) PROVE PauseInv'
  <2>1. InTime(Idle, reset)
    BY DEF Idle, Getter
  <2> QED BY <1>10, <1>a, <2>1 DEF Return
<1>11. ASSUME Elapse PROVE PauseInv'
  <2>1. \A p \in warned' : pause'[p] >= reset'
    <3>1. CASE reset = 1
      BY <1>11, <3>1 DEF Elapse
    <3>2. CASE reset # 1
      <4>1. warned' = warned /\ reset' = reset - 1
        BY <1>11, <3>2 DEF Elapse
      <4>2. \A p \in Process : pause'[p] = Less(pause[p])
        BY <1>11 DEF Elapse
      <4>3. \A p \in warned : pause[p] \in Nat /\ pause[p] >= 1
        BY <1>0
      <4> QED BY <1>0, <4>1, <4>2, <4>3 DEF Less
    <3> QED BY <3>1, <3>2
  <2>2. ASSUME NEW t \in Thread PROVE InTime(call'[t], reset')
    <3>1. CASE call[t].at = "answered"
      <4>1. call'[t] = [call[t] EXCEPT !.age = @ + 1]
        BY <1>11, <3>1 DEF Elapse
      <4>2. /\ call'[t].age = call[t].age + 1 /\ call'[t].wait = call[t].wait
            /\ call[t].age \in Nat /\ call[t].wait \in Nat
        BY <1>0, <4>1 DEF Calls
      <4>3. call'[t].age < call'[t].wait => reset = call[t].wait - call[t].age /\ reset # 1
        BY <1>0, <3>1, <4>2
      <4>4. reset # 1 => reset' = reset - 1
        BY <1>11 DEF Elapse
      <4> QED BY <1>0, <4>2, <4>3, <4>4
    <3>2. CASE call[t].at # "answered"
      <4>1. call'[t].at # "answered"
        BY <1>0, <1>11, <3>2 DEF Elapse, Calls
      <4> QED BY <4>1
    <3> QED BY <3>1, <3>2
  <2> QED BY <2>1, <2>2 DEF PauseInv
<1>12. CASE UNCHANGED esiVars
  BY <1>0, <1>12 DEF esiVars, PauseInv
<1> QED BY <1>1, <1>2, <1>4, <1>5, <1>6, <1>7, <1>8, <1>9, <1>10, <1>11, <1>12
        DEF EsiNext, Call

\* Under it no thread passes the pause of a warned process.
LEMMA NoPassWhileWarned ==
  EsiTypeOK /\ PauseInv /\ [EsiNext]_esiVars =>
      \A t \in Thread : call[t].at = "pausing" /\ call'[t].at = "sent"
                        => ProcessOf[t] \notin warned
<1> SUFFICES ASSUME EsiTypeOK, PauseInv, [EsiNext]_esiVars, NEW t \in Thread,
                    call[t].at = "pausing", call'[t].at = "sent"
             PROVE  ProcessOf[t] \notin warned
  OBVIOUS
<1>0. call \in [Thread -> Calls] /\ reset \in Nat /\ reset >= 1
  BY DEF EsiTypeOK, Calls
<1>1. CASE PassPause(t)
  <2>1. pause[ProcessOf[t]] = 0
    BY <1>1 DEF PassPause
  <2> QED BY <1>0, <2>1 DEF PauseInv
<1>2. ASSUME NEW u \in Thread, u # t, Call(u) \/ Return(u) PROVE call'[t] = call[t]
  BY <1>0, <1>2 DEF Call, Lookup, PassPause, Answer, AnswerError, Refuse, Note, Lose,
                    Store, Return
<1>3. ~(\E k \in Key : Lookup(t, k)) /\ ~Answer(t) /\ ~AnswerError(t) /\ ~Refuse(t)
      /\ ~Note(t) /\ ~Lose(t) /\ ~Store(t) /\ ~Return(t)
  BY DEF Lookup, Answer, AnswerError, Refuse, Note, Lose, Store, Return
<1>4. Elapse => call'[t] = call[t]
  BY DEF Elapse
<1> QED BY <1>1, <1>2, <1>3, <1>4 DEF EsiNext, Call, esiVars

\* Once a thread has noted that the budget is low, no thread of its process
\* sends ESI a request before the window ends (_pause_if_error_limited).
THEOREM PauseIsHonoured == EsiSpec => PauseHonoured
<1>1. EsiInit => PauseInv
  BY DEF EsiInit, PauseInv, Idle, Getter
<1>2. EsiSpec => []PauseInv
  BY <1>1, PauseInvStep, EsiTyping, PTL DEF EsiSpec
<1> QED BY <1>2, EsiTyping, NoPassWhileWarned, PTL DEF EsiSpec, PauseHonoured

----------------------------------------------------------------------------
(* What is served is fresh                                                  *)

\* What freshness rests on: an answer reaches the cache in time, and an entry
\* that has not expired is as young as its expiry says.
FreshInv ==
    /\ \A p \in Process : \A k \in DOMAIN cache[p] :
         cache[p][k].left > 0 => cache[p][k].age + cache[p][k].left <= TTL[k] + Timeout
    /\ \A t \in Thread : call[t].at \in {"answered", "storing"} => call[t].age <= Timeout
    /\ ServedFresh

\* Every step keeps it.
LEMMA FreshInvStep ==
  EsiTypeOK /\ FreshInv /\ [EsiNext]_esiVars => FreshInv'
<1> SUFFICES ASSUME EsiTypeOK, FreshInv, [EsiNext]_esiVars PROVE FreshInv'
  OBVIOUS
<1> USE EsiAssumption
<1> DEFINE Young(e, k) == e.left > 0 => e.age + e.left <= TTL[k] + Timeout
           AllYoung(c) == \A p \in Process : \A k \in DOMAIN c[p] : Young(c[p][k], k)
           InTime(c) == /\ c.at \in {"answered", "storing"} => c.age <= Timeout
                        /\ c.at = "served" /\ c.ok => c.age <= TTL[c.key] + Timeout
<1>0. /\ DOMAIN cache = Process
      /\ \A p \in Process : /\ DOMAIN cache[p] \subseteq Key
                            /\ \A k \in DOMAIN cache[p] : cache[p][k] \in Entry
      /\ AllYoung(cache)
      /\ call \in [Thread -> Calls]
      /\ \A t \in Thread : InTime(call[t])
  BY DEF EsiTypeOK, Calls, FreshInv, ServedFresh
<1>q. ASSUME AllYoung(cache'), \A t \in Thread : InTime(call'[t]) PROVE FreshInv'
  BY <1>q DEF FreshInv, ServedFresh
<1>a. ASSUME NEW t \in Thread, NEW c, call' = [call EXCEPT ![t] = c], InTime(c)
      PROVE  \A u \in Thread : InTime(call'[u])
  BY <1>0, <1>a
<1>b. ASSUME NEW t \in Thread, NEW c, call' = [call EXCEPT ![t] = c], InTime(c),
             UNCHANGED cache
      PROVE  FreshInv'
  BY <1>0, <1>a, <1>b, <1>q
<1>g. \A k : \A at \in At : InTime(Getter(k, at))
  BY DEF Getter
<1>i. InTime(Idle)
  BY <1>g DEF Idle, At
<1>f. ASSUME NEW t \in Thread PROVE InTime(Failed(call[t]))
  BY <1>g, <1>i DEF Failed, At
<1>1. ASSUME NEW t \in Thread, NEW k \in Key, Lookup(t, k) PROVE FreshInv'
  <2>1. CASE k \in Fresh(Entries(t))
    <3> DEFINE hit == [Getter(k, "served") EXCEPT !.ok = TRUE, !.age = Entries(t)[k].age]
    <3>1. /\ Entries(t)[k] \in Entry
          /\ Entries(t)[k].left > 0
          /\ Young(Entries(t)[k], k)
      BY <1>0, <2>1 DEF Fresh, Entries
    <3>2. Entries(t)[k].age <= TTL[k] + Timeout
      BY <3>1 DEF Entry
    <3>3. hit.at = "served" /\ hit.key = k /\ hit.age = Entries(t)[k].age
      BY DEF Getter
    <3>4. call' = [call EXCEPT ![t] = hit] /\ UNCHANGED cache
      BY <1>1, <2>1 DEF Lookup
    <3> HIDE DEF hit
    <3> QED BY <1>b, <3>2, <3>3, <3>4
  <2>2. CASE k \notin Fresh(Entries(t))
    <3> DEFINE kept == Restrict(Entries(t), DOMAIN Entries(t) \ {k})
    <3>1. /\ DOMAIN kept = DOMAIN Entries(t) \ {k}
          /\ \A j \in DOMAIN kept : kept[j] = Entries(t)[j]
      BY DEF Restrict
    <3>2. cache' = [cache EXCEPT ![ProcessOf[t]] = kept]
      BY <1>1, <2>2 DEF Lookup, Entries
    <3> HIDE DEF kept
    <3>3. AllYoung(cache')
      BY <1>0, <3>1, <3>2 DEF Entries
    <3>4. call' = [call EXCEPT ![t] = Getter(k, IF k \in Zkill THEN "sent" ELSE "pausing")]
      BY <1>1, <2>2 DEF Lookup
    <3>5. InTime(Getter(k, IF k \in Zkill THEN "sent" ELSE "pausing"))
      BY DEF Getter
    <3> QED BY <1>a, <1>q, <3>3, <3>4, <3>5
  <2> QED BY <2>1, <2>2
<1>2. ASSUME NEW t \in Thread, PassPause(t) PROVE FreshInv'
  <2>1. InTime([call[t] EXCEPT !.at = "sent"])
    BY <1>0 DEF Calls
  <2> QED BY <1>2, <1>b, <2>1 DEF PassPause
<1>3. ASSUME NEW t \in Thread, NEW ok, NEW n PROVE InTime(Answered(t, ok, n))
  BY <1>0 DEF Answered, Calls
<1>4. ASSUME NEW t \in Thread, Answer(t) PROVE FreshInv'
  BY <1>3, <1>4, <1>b DEF Answer
<1>5. ASSUME NEW t \in Thread, AnswerError(t) PROVE FreshInv'
  <2>1. InTime([call[t] EXCEPT !.tries = @ + 1])
    BY <1>0, <1>5 DEF Calls, AnswerError
  <2> QED BY <1>3, <1>5, <1>b, <2>1 DEF AnswerError
<1>6. ASSUME NEW t \in Thread, Refuse(t) PROVE FreshInv'
  BY <1>3, <1>6, <1>b DEF Refuse
<1>7. ASSUME NEW t \in Thread, Note(t) PROVE FreshInv'
  <2>1. InTime([call[t] EXCEPT !.at = "storing"])
    BY <1>0, <1>7 DEF Calls, Note
  <2> QED BY <1>7, <1>b, <1>f, <2>1 DEF Note
<1>8. ASSUME NEW t \in Thread, Lose(t) PROVE FreshInv'
  BY <1>8, <1>b, <1>f DEF Lose
<1>9. ASSUME NEW t \in Thread, Store(t) PROVE FreshInv'
  <2>1. /\ call[t].key \in Key /\ TTL[call[t].key] \in Nat
        /\ call[t].age \in Nat /\ call[t].age <= Timeout
    BY <1>0, <1>9 DEF Calls, Store
  <2>2. PICK kept \in SUBSET DOMAIN Entries(t) :
          cache' = [cache EXCEPT ![ProcessOf[t]] =
               [k \in kept \cup {call[t].key} |->
                   IF k = call[t].key THEN [age |-> call[t].age, left |-> TTL[k]]
                   ELSE @[k]]]
    BY <1>9 DEF Store
  <2>3. Young([age |-> call[t].age, left |-> TTL[call[t].key]], call[t].key)
    BY <2>1
  <2>4. AllYoung(cache')
    BY <1>0, <2>2, <2>3 DEF Entries
  <2>5. InTime([call[t] EXCEPT !.at = "served"])
    BY <1>0, <2>1 DEF Calls
  <2> QED BY <1>9, <1>a, <1>q, <2>4, <2>5 DEF Store
<1>10. ASSUME NEW t \in Thread, Return(t) PROVE FreshInv'
  BY <1>10, <1>b, <1>i DEF Return
<1>11. ASSUME Elapse PROVE FreshInv'
  <2>1. ASSUME NEW e \in Entry, NEW k \in Key, Young(e, k) PROVE Young(Aged(e), k)
    <3>1. /\ Aged(e).left = Less(e.left) /\ Aged(e).age = Older(e.age)
          /\ e.left \in Nat /\ e.age \in Nat /\ TTL[k] \in Nat
      BY DEF Aged, Entry
    <3>2. Older(e.age) \in Nat /\ Older(e.age) <= e.age + 1
      BY <3>1 DEF Older
    <3>3. Less(e.left) > 0 => e.left > 0 /\ Less(e.left) = e.left - 1
      BY <3>1 DEF Less
    <3> QED BY <2>1, <3>1, <3>2, <3>3
  <2>2. AllYoung(cache')
    BY <1>0, <1>11, <2>1 DEF Elapse
  <2>3. ASSUME NEW t \in Thread PROVE InTime(call'[t])
    <3>1. CASE call[t].at \in {"answered", "storing"}
      <4>1. /\ call'[t] = [call[t] EXCEPT !.age = @ + 1]
            /\ call[t].age < Timeout
        BY <1>11, <3>1 DEF Elapse
      <4> QED BY <1>0, <3>1, <4>1 DEF Calls
    <3>2. CASE call[t].at \notin {"answered", "storing"}
      <4>1. call'[t] = call[t]
        BY <1>11, <3>2 DEF Elapse
      <4> QED BY <1>0, <4>1
    <3> QED BY <3>1, <3>2
  <2> QED BY <1>q, <2>2, <2>3
<1>12. CASE UNCHANGED esiVars
  BY <1>0, <1>12, <1>q DEF esiVars
<1> QED BY <1>1, <1>2, <1>4, <1>5, <1>6, <1>7, <1>8, <1>9, <1>10, <1>11, <1>12
        DEF EsiNext, Call

\* No getter returns data older than its TTL and the way of one answer.
THEOREM AnswersAreFresh == EsiSpec => []ServedFresh
<1>1. EsiInit => FreshInv
  BY DEF EsiInit, FreshInv, ServedFresh, Idle, Getter
<1>2. FreshInv => ServedFresh
  BY DEF FreshInv
<1> QED BY <1>1, <1>2, FreshInvStep, EsiTyping, PTL DEF EsiSpec

----------------------------------------------------------------------------
(* The dashboard.  An answer may be older than the one before it; the      *)
(* clock is not, and a comparison reads the phases off the clock: once     *)
(* nodes were announced, no snapshot of that campaign reads reinforced.    *)

Fetch == [init : BOOLEAN, needConfig : BOOLEAN, data : 0..MaxTime]

\* The snapshot kept is one of the answer shown.
LastIsShown ==
    prev # <<>> =>
        /\ prev[1].campaigns = ToSet(World[shown].campaigns) /\ prev[1].campaigns \subseteq met
        /\ ~HoldsSov => DOMAIN prev[1].adm = {}

NodesSaid(c) ==
    /\ fired[<<"nodes", c>>] <= 1
    /\ fired[<<"nodes", c>>] = 1 =>
          /\ now >= Start[c] /\ prev # <<>>
          /\ c \in prev[1].campaigns => prev[1].phases[c] # "reinforced"

DashInv ==
    /\ posture \in {"sov", "guest", "rootless"} /\ now \in 0..MaxTime
    /\ fetches \in Seq(Fetch) /\ tab \in 0..5
    /\ shown \in -1..MaxTime /\ (shown = -1 <=> prev = <<>>)
    /\ fired \in [Raisable -> Nat]
    /\ LastIsShown
    /\ \A c \in Campaigns : NodesSaid(c)
    /\ ~HoldsSov => \A s \in Home : fired[<<"adm", s>>] = 0

\* What a snapshot holds of an answer.
LEMMA SnapshotFields ==
    ASSUME NEW d
    PROVE  /\ Snapshot(d).campaigns = ToSet(d.campaigns)
           /\ \A c \in ToSet(d.campaigns) : Snapshot(d).phases[c] = Phase(c, now)
           /\ ~HoldsSov => DOMAIN Snapshot(d).adm = {}
BY DEF Snapshot

\* What an alert says of the two snapshots.
LEMMA AlertsTell ==
    ASSUME NEW p, NEW q, ~HoldsSov => DOMAIN q.adm = {}
    PROVE  /\ \A c : <<"nodes", c>> \in Alerts(p, q) =>
                 c \in p.campaigns /\ p.phases[c] = "reinforced" /\ q.phases[c] = "nodes"
           /\ \A c \in q.campaigns \ p.campaigns :
                 "campaigns" \in settings => <<"campaign", c>> \in Alerts(p, q)
           /\ ~HoldsSov => \A s : <<"adm", s>> \notin Alerts(p, q)
BY DEF Alerts

\* Time passes: what was said of nodes still holds.
LEMMA SaidStays ==
    ASSUME DashInv, now' \in Int, now' >= now, UNCHANGED <<fired, prev>>, NEW c \in Campaigns
    PROVE  NodesSaid(c)'
BY ViewAssumption, DashAssumption DEF DashInv, NodesSaid

\* A comparison with an answer keeps the invariant's account of the alerts.
LEMMA ComparisonKeeps ==
    ASSUME DashInv, NEW t \in 0..MaxTime, CheckAndNotify(World[t]), shown' = t, UNCHANGED <<posture, now, settings>>
    PROVE  /\ prev' # <<>> /\ LastIsShown'
           /\ fired' \in [Raisable -> Nat]
           /\ \A c \in Campaigns : NodesSaid(c)'
           /\ ~HoldsSov' => \A s \in Home : fired'[<<"adm", s>>] = 0
<1> DEFINE q == Snapshot(World[t])
            raised == IF prev = <<>> THEN {} ELSE Alerts(prev[1], q)
<1>1. /\ fired' = [a \in Raisable |-> fired[a] + IF a \in raised THEN 1 ELSE 0]
      /\ prev' = <<q>>
      /\ met' = IF prev = <<>> \/ "campaigns" \notin settings THEN met \union q.campaigns
                ELSE met \union {a[2] : a \in {x \in raised : x[1] = "campaign"}}
    BY DEF CheckAndNotify
<1>2. /\ q.campaigns = ToSet(World[t].campaigns)
      /\ \A c \in ToSet(World[t].campaigns) : q.phases[c] = Phase(c, now)
      /\ ~HoldsSov => DOMAIN q.adm = {}
    BY SnapshotFields
<1>3. ToSet(World[t].campaigns) \subseteq Campaigns
    <2>1. World[t].campaigns \in Seq(Campaigns)
        BY DashAssumption DEF IsAnswer
    <2> QED BY <2>1 DEF ToSet
<1> HIDE DEF q
<1>4. prev' # <<>> /\ prev'[1] = q
    BY <1>1
<1>5. /\ \A c : <<"nodes", c>> \in raised =>
            prev # <<>> /\ c \in prev[1].campaigns /\ prev[1].phases[c] = "reinforced" /\ q.phases[c] = "nodes"
      /\ prev # <<>> => \A c \in q.campaigns \ prev[1].campaigns :
            "campaigns" \in settings => <<"campaign", c>> \in raised
      /\ ~HoldsSov => \A s : <<"adm", s>> \notin raised
    BY <1>2, AlertsTell
<1> HIDE DEF raised
<1>6. q.campaigns \subseteq met'
    <2>1. CASE prev = <<>> \/ "campaigns" \notin settings
        BY <1>1, <2>1
    <2>2. CASE prev # <<>> /\ "campaigns" \in settings
        <3> SUFFICES ASSUME NEW c \in q.campaigns PROVE c \in met'
            OBVIOUS
        <3>1. CASE c \in prev[1].campaigns
            BY <1>1, <2>2, <3>1 DEF DashInv, LastIsShown
        <3>2. CASE c \notin prev[1].campaigns
            <4>1. <<"campaign", c>> \in raised
                BY <1>5, <2>2, <3>2
            <4>2. <<"campaign", c>>[1] = "campaign" /\ <<"campaign", c>>[2] = c
                OBVIOUS
            <4>3. c \in {a[2] : a \in {x \in raised : x[1] = "campaign"}}
                BY <4>1, <4>2
            <4> QED BY <1>1, <2>2, <4>3
        <3> QED BY <3>1, <3>2
    <2> QED BY <2>1, <2>2
<1>7. LastIsShown'
    BY <1>2, <1>4, <1>6 DEF LastIsShown, HoldsSov
<1>8. fired' \in [Raisable -> Nat]
    BY <1>1 DEF DashInv
<1>9. ASSUME NEW c \in Campaigns PROVE NodesSaid(c)'
    <2>1. <<"nodes", c>> \in Raisable
        BY DEF Raisable
    <2>2. fired'[<<"nodes", c>>] = fired[<<"nodes", c>>] + IF <<"nodes", c>> \in raised THEN 1 ELSE 0
        BY <1>1, <2>1
    <2>3. fired[<<"nodes", c>>] \in Nat /\ now \in Int /\ Start[c] \in Int
        BY <2>1, ViewAssumption, DashAssumption DEF DashInv
    <2>4. NodesSaid(c)
        BY DEF DashInv
    <2>5. c \in q.campaigns => q.phases[c] = IF now >= Start[c] THEN "nodes" ELSE "reinforced"
        BY <1>2 DEF Phase
    <2>6. CASE <<"nodes", c>> \in raised
        <3>1. fired[<<"nodes", c>>] = 0
            BY <1>5, <2>3, <2>4, <2>6 DEF NodesSaid
        <3>2. q.phases[c] = "nodes"
            BY <1>5, <2>6
        <3>3. now >= Start[c]
            <4>1. c \in q.campaigns
                BY <2>6 DEF raised, Alerts
            <4> QED BY <2>5, <3>2, <4>1
        <3> QED BY <1>4, <2>2, <2>6, <3>1, <3>2, <3>3 DEF NodesSaid
    <2>7. CASE <<"nodes", c>> \notin raised
        <3>1. fired'[<<"nodes", c>>] = fired[<<"nodes", c>>]
            BY <2>2, <2>3, <2>7
        <3> QED BY <1>4, <2>4, <2>5, <3>1 DEF NodesSaid
    <2> QED BY <2>6, <2>7
<1>10. ASSUME ~HoldsSov', NEW s \in Home PROVE fired'[<<"adm", s>>] = 0
    <2>1. <<"adm", s>> \in Raisable /\ ~HoldsSov
        BY <1>10 DEF Raisable, HoldsSov
    <2>2. fired[<<"adm", s>>] = 0
        BY <2>1 DEF DashInv
    <2> QED BY <1>1, <1>5, <2>1, <2>2
<1> QED BY <1>4, <1>7, <1>8, <1>9, <1>10

\* Taking an element off a sequence leaves a sequence of the same set.
LEMMA FetchesStay ==
    ASSUME NEW S, NEW s \in Seq(S), NEW i \in DOMAIN s
    PROVE  RemoveAt(s, i) \in Seq(S) /\ s[i] \in S
<1> DEFINE front == SubSeq(s, 1, i - 1)
            back == SubSeq(s, i + 1, Len(s))
<1>1. Len(s) \in Nat /\ DOMAIN s = 1..Len(s) /\ i \in 1..Len(s)
    BY LenProperties
<1>2. \A j \in 1..Len(s) : s[j] \in S
    BY ElementOfSeq
<1>3. front \in Seq(S)
    <2>1. 1 \in Int /\ i - 1 \in Int /\ \A j \in 1..(i - 1) : s[j] \in S
        BY <1>1, <1>2
    <2> QED BY <1>1, <2>1, SubSeqProperties
<1>4. back \in Seq(S)
    <2>1. i + 1 \in Int /\ Len(s) \in Int /\ \A j \in (i + 1)..Len(s) : s[j] \in S
        BY <1>1, <1>2
    <2> QED BY <1>1, <2>1, SubSeqProperties
<1> QED BY <1>1, <1>2, <1>3, <1>4, ConcatProperties DEF RemoveAt

LEMMA DashInvHolds == DashSpec => []DashInv
<1>1. DashInit => DashInv
    <2> SUFFICES ASSUME DashInit PROVE DashInv
        OBVIOUS
    <2>1. fetches \in Seq(Fetch)
        <3>1. [init |-> TRUE, needConfig |-> TRUE, data |-> 0] \in Fetch
            BY DashAssumption DEF Fetch
        <3> QED BY <3>1 DEF DashInit
    <2>2. \A c \in Campaigns : fired[<<"nodes", c>>] = 0
        BY DEF DashInit, Raisable
    <2>3. \A s \in Home : fired[<<"adm", s>>] = 0
        BY DEF DashInit, Raisable
    <2>4. ASSUME NEW c \in Campaigns PROVE NodesSaid(c)
        <3>1. fired[<<"nodes", c>>] = 0 /\ 0 <= 1 /\ 0 # 1
            BY <2>2
        <3> QED BY <3>1, Zenon DEF NodesSaid
    <2>5. LastIsShown
        BY DEF DashInit, LastIsShown
    <2>6. fired \in [Raisable -> Nat]
        BY DEF DashInit
    <2>7. now \in 0..MaxTime /\ tab \in 0..5 /\ shown \in -1..MaxTime /\ (shown = -1 <=> prev = <<>>)
        BY DashAssumption DEF DashInit
    <2>8. posture \in {"sov", "guest", "rootless"}
        BY DEF DashInit
    <2> QED BY <2>1, <2>3, <2>4, <2>5, <2>6, <2>7, <2>8 DEF DashInv
<1>2. DashInv /\ [DashNext]_vars => DashInv'
    <2> SUFFICES ASSUME DashInv, [DashNext]_vars PROVE DashInv'
        OBVIOUS
    <2>1. ASSUME now' \in 0..MaxTime, now' >= now, fetches' \in Seq(Fetch), tab' \in 0..5,
                 UNCHANGED <<posture, shown, alertVars>>
          PROVE  DashInv'
        <3>1. \A c \in Campaigns : NodesSaid(c)'
            BY <2>1, SaidStays, DashAssumption DEF alertVars
        <3>2. LastIsShown'
            BY <2>1 DEF DashInv, LastIsShown, HoldsSov, alertVars
        <3> QED BY <2>1, <3>1, <3>2 DEF DashInv, alertVars, HoldsSov
    <2>2. now \in Int /\ now \in 0..MaxTime /\ fetches \in Seq(Fetch) /\ tab \in 0..5
        BY DashAssumption DEF DashInv
    <2>3. CASE Tick
        BY <2>1, <2>2, <2>3, DashAssumption DEF Tick, uiVars
    <2>4. CASE StartFetch
        <3>1. [init |-> FALSE, needConfig |-> NeedConfig(FALSE), data |-> now] \in Fetch
            BY <2>2 DEF Fetch, NeedConfig
        <3>2. fetches' \in Seq(Fetch)
            BY <2>2, <2>4, <3>1, AppendProperties DEF StartFetch
        <3> QED BY <2>1, <2>2, <2>4, <3>2 DEF StartFetch, uiVars
    <2>5. ASSUME NEW i \in DOMAIN fetches, FetchSucceeds(i) PROVE DashInv'
        <3>1. fetches[i] \in Fetch /\ RemoveAt(fetches, i) \in Seq(Fetch)
            BY <2>2, FetchesStay
        <3>2. PICK t \in 0..MaxTime : t = fetches[i].data
            BY <3>1 DEF Fetch
        <3>3. /\ shown' = t /\ CheckAndNotify(World[t]) /\ fetches' = RemoveAt(fetches, i)
              /\ UNCHANGED <<posture, now, settings, tab>>
            BY <2>5, <3>2 DEF FetchSucceeds, uiVars
        <3>4. /\ prev' # <<>> /\ LastIsShown'
              /\ fired' \in [Raisable -> Nat]
              /\ \A c \in Campaigns : NodesSaid(c)'
              /\ ~HoldsSov' => \A s \in Home : fired'[<<"adm", s>>] = 0
            BY <3>3, ComparisonKeeps
        <3>5. shown' \in 0..MaxTime
            BY <3>3
        <3> QED BY <2>2, <3>1, <3>3, <3>4, <3>5, DashAssumption DEF DashInv
    <2>6. ASSUME NEW i \in DOMAIN fetches, FetchFails(i) PROVE DashInv'
        <3>1. fetches' \in Seq(Fetch)
            BY <2>2, <2>6, FetchesStay DEF FetchFails
        <3> QED BY <2>1, <2>2, <2>6, <3>1 DEF FetchFails, uiVars
    <2>7. ASSUME NEW p \in Panels, NEW i \in DOMAIN asked[p], FeedAnswers(p, i) \/ FeedFails(p, i)
          PROVE  DashInv'
        BY <2>1, <2>2, <2>7 DEF FeedAnswers, FeedFails, uiVars
    <2>8. ASSUME NEW r \in Regions, ChangeRegion(r) PROVE DashInv'
        BY <2>1, <2>2, <2>8 DEF ChangeRegion
    <2>9. ASSUME NEW s \in SUBSET Kinds, SaveSettings(s) PROVE DashInv'
        BY <2>1, <2>2, <2>9 DEF SaveSettings
    <2>10. CASE Resize
        BY <2>1, <2>2, <2>10 DEF Resize
    <2>11. ASSUME NEW t \in 0..5, ChooseTab(t) PROVE DashInv'
        BY <2>1, <2>2, <2>11 DEF ChooseTab
    <2>12. CASE UNCHANGED vars
        BY <2>1, <2>2, <2>12 DEF vars, uiVars
    <2> QED BY <2>3, <2>4, <2>5, <2>6, <2>7, <2>8, <2>9, <2>10, <2>11, <2>12 DEF DashNext, Poll, Refresh
<1> QED BY <1>1, <1>2, PTL DEF DashSpec

\* Nodes are announced at most once of a campaign, no campaign comes on the
\* page unannounced, and a guest hears nothing of ADMs (checkAndNotify), in
\* whatever order overlapping fetches are answered.
THEOREM AlertsComeOnce == DashSpec => []AlertsOnce
<1>1. DashInv => AlertsOnce
    BY DEF DashInv, AlertsOnce, NodesSaid, LastIsShown
<1> QED BY <1>1, DashInvHolds, PTL

\* Past loading the page shows something, on a phone the tab its navigation
\* marks (MobileNav, the tabs of App), whatever the deployment.
THEOREM SomethingShows == DashSpec => []NoBlankScreen
<1>1. DashInv => NoBlankScreen
    <2> SUFFICES ASSUME DashInv, Screen = "dashboard" PROVE OnScreen # {} /\ (mobile => ActiveTab \in NavTabs)
        BY DEF NoBlankScreen
    <2>1. ActiveTab \in NavTabs /\ ActiveTab \in 0..5
        BY DEF DashInv, ActiveTab, NavTabs, HasAo
    <2>2. TabPanels(ActiveTab) # {}
        BY <2>1 DEF TabPanels, NavTabs
    <2>3. TabPanels(ActiveTab) \subseteq OnScreen
        BY <2>1 DEF OnScreen, ShowTab
    <2> QED BY <2>1, <2>2, <2>3
<1> QED BY <1>1, DashInvHolds, PTL

----------------------------------------------------------------------------
(* One story.  Each place's classification is compared with the cards'     *)
(* for any answer of the API; the grinding plan agrees because no sum of   *)
(* the other terms of a score makes up for not being critical.             *)

LEMMA LeastNumber ==
    ASSUME NEW T \in SUBSET Nat, T # {}
    PROVE  \E m \in T : \A n \in T : m <= n
<1>1. PICK m \in T : \A n \in T : ~(<<n, m>> \in OpToRel(<, Nat))
    BY NatLessThanWellFounded, WFMin, Zenon
<1>2. \A n \in T : ~(n < m)
    BY <1>1 DEF OpToRel
<1> QED BY <1>2

LEMMA HomeIsConfigured == Home \subseteq Systems
BY ViewAssumption DEF Home, Systems

\* The critical systems, as the card of the tab of all systems lists them.
LEMMA CriticalAre ==
    ASSUME NEW d, NEW holds
    PROVE  /\ \A s : s \in CriticalCard(d, "all", holds) <=>
                 s \in Home /\ holds /\ Friendly(d.sov[s]) /\ d.sov[s].adm \in 1..19
           /\ \A t : CriticalCard(d, t, holds) = CriticalCard(d, "all", holds) \intersect Visible(t)
<1>1. Visible("all") = Systems
    BY DEF Visible
<1> QED BY <1>1, HomeIsConfigured DEF CriticalCard

LEMMA BadgesAgree ==
    ASSUME NEW d, NEW s, NEW holds
    PROVE  "CRITICAL" \in TableBadges(d, s, holds) <=>
               s \in Home /\ holds /\ Friendly(d.sov[s]) /\ d.sov[s].adm \in 1..19
BY DEF TableBadges

LEMMA WarningsAgree ==
    ASSUME NEW d, NEW s \in Placed
    PROVE  "grind" \in TooltipWarnings(d, s) <=>
               s \in Home /\ Friendly(d.sov[s]) /\ d.sov[s].adm \in 1..19
BY DEF TooltipWarnings

LEMMA TrendsAgree ==
    ASSUME NEW d, NEW s, d.sov[s].adm \in 0..60
    PROVE  TrendMark(d, s) = "CRIT" <=> Friendly(d.sov[s]) /\ d.sov[s].adm \in 1..19
BY DEF TrendMark

LEMMA RingsAgree ==
    ASSUME NEW d, NEW s \in Placed, NEW holds, NEW t
    PROVE  /\ "critical" \in Rings(d, s, holds, t) <=>
                 s \in Home /\ holds /\ Friendly(d.sov[s]) /\ d.sov[s].adm \in 1..19
           /\ "lost" \in Rings(d, s, holds, t) <=> s \in Home /\ d.sov[s].owner = "hostile"
           /\ "nodes" \in Rings(d, s, holds, t) <=> "nodes" \in CampaignRing(d, s, t)
           /\ "reffed" \in Rings(d, s, holds, t) <=> "reffed" \in CampaignRing(d, s, t)
<1>1. CampaignRing(d, s, t) \subseteq {"nodes", "reffed"}
    BY DEF CampaignRing
<1> HIDE DEF CampaignRing
<1> QED BY <1>1 DEF Rings

\* A ring tells the phase of a campaign listed at the system, and a system
\* without one has no ring.
LEMMA CampaignRings ==
    ASSUME NEW d, IsAnswer(d), NEW s, NEW t
    PROVE  /\ {c \in ToSet(d.campaigns) : CampaignAt[c] = s} = {}
                 <=> CampaignRing(d, s, t) \intersect {"nodes", "reffed"} = {}
           /\ "nodes" \in CampaignRing(d, s, t) => \E c \in Active(d, t) : CampaignAt[c] = s
           /\ "reffed" \in CampaignRing(d, s, t) => \E c \in Reinforced(d, t) : CampaignAt[c] = s
<1> DEFINE list == d.campaigns
            places == {i \in 1..Len(list) : CampaignAt[list[i]] = s}
<1>1. list \in Seq(Campaigns) /\ Len(list) \in Nat /\ DOMAIN list = 1..Len(list)
    BY LenProperties DEF IsAnswer
<1>2. \A c : c \in ToSet(list) <=> \E i \in 1..Len(list) : c = list[i]
    BY <1>1 DEF ToSet
<1>3. CASE places = {}
    <2>1. CampaignRing(d, s, t) = {}
        BY <1>3 DEF CampaignRing, SelectInSeq
    <2>2. {c \in ToSet(list) : CampaignAt[c] = s} = {}
        BY <1>2, <1>3
    <2> QED BY <2>1, <2>2
<1>4. CASE places # {}
    <2>1. places \in SUBSET Nat
        OBVIOUS
    <2>2. PICK m \in places : \A n \in places : m <= n
        BY <1>4, <2>1, LeastNumber
    <2>3. Min(places) \in places
        BY <2>1, <2>2 DEF Min
    <2>4. PICK c : c = list[Min(places)]
        OBVIOUS
    <2>5. c \in ToSet(list) /\ CampaignAt[c] = s
        BY <1>2, <2>3, <2>4
    <2>6. Min(places) # 0
        BY <2>3
    <2>7. CampaignRing(d, s, t) = IF Phase(c, t) = "nodes" THEN {"nodes"} ELSE {"reffed"}
        BY <1>4, <2>4, <2>6 DEF CampaignRing, SelectInSeq
    <2>8. \/ Phase(c, t) = "nodes" /\ c \in Active(d, t)
          \/ Phase(c, t) # "nodes" /\ c \in Reinforced(d, t)
        BY <2>5 DEF Phase, Active, Reinforced
    <2> QED BY <2>5, <2>7, <2>8
<1> QED BY <1>3, <1>4

LEMMA HostileAgree ==
    ASSUME NEW d, NEW s \in Placed, NEW holds, d.sov[s].owner \in Owners
    PROVE  /\ s \in HostileCard(d, "primary") <=> s \in Home /\ d.sov[s].owner = "hostile"
           /\ NodeColor(d, s) = "red" <=> s \in Home /\ d.sov[s].owner = "hostile"
           /\ s \in HostCard(d, "primary", holds) <=> s \in Home /\ ~holds /\ d.sov[s].owner = "host"
           /\ NodeColor(d, s) = "blue" <=> s \in Home /\ d.sov[s].owner = "host"
<1>1. Visible("primary") = Home
    BY DEF Visible
<1> QED BY <1>1 DEF HostileCard, HostCard, NodeColor

\* A critical system scores at least 1155, any other at most 1000.
LEMMA CriticalOutscores ==
    ASSUME NEW d, IsAnswer(d), NEW s \in Home, d.sov[s].adm \in 1..19,
           NEW t \in Home, d.sov[t].adm \in 20..44
    PROVE  Score(d, s) > Score(d, t) /\ Score(d, s) \in Int /\ Score(d, t) \in Int
<1>1. PICK a \in 1..19, u \in 20..44 : a = d.sov[s].adm /\ u = d.sov[t].adm
    OBVIOUS
<1>2. PICK b, c : b = Bonus[s] /\ c = Bonus[t] /\ b \in -50..500 /\ c \in -50..500
    <2>1. Bonus[s] \in -50..500 /\ Bonus[t] \in -50..500
        BY ViewAssumption
    <2> QED BY <2>1
<1>3. PICK m \in {0, 100}, n \in {0, 100} :
        /\ m = IF Change24h(d.history[s], a) < -1 THEN 100 ELSE 0
        /\ n = IF Change24h(d.history[t], u) < -1 THEN 100 ELSE 0
    OBVIOUS
<1>4. Score(d, s) = 1000 + b + 5 * (60 - a) + m
    BY <1>1, <1>2, <1>3 DEF Score
<1>5. Score(d, t) = (IF u < 40 THEN 200 ELSE 0) + c + 5 * (60 - u) + n
    BY <1>1, <1>2, <1>3 DEF Score
<1>6. 1000 + b + 5 * (60 - a) + m >= 1155
    <2>1. a \in Int /\ b \in Int /\ a <= 19 /\ b >= -50
        BY <1>2
    <2>2. m \in Int /\ m >= 0
        OBVIOUS
    <2>3. 5 * (60 - a) \in Int /\ 5 * (60 - a) >= 205
        BY <2>1
    <2> QED BY <2>1, <2>2, <2>3
<1>7. (IF u < 40 THEN 200 ELSE 0) + c + 5 * (60 - u) + n <= 1000
    <2>1. 5 * (60 - u) <= 200 /\ c <= 500 /\ n <= 100 /\ u \in Int /\ c \in Int /\ n \in Int
        BY <1>2
    <2>2. CASE u < 40
        BY <2>1, <2>2
    <2>3. CASE ~(u < 40)
        BY <2>1, <2>3
    <2> QED BY <2>2, <2>3
<1> QED BY <1>2, <1>4, <1>5, <1>6, <1>7

\* The plan names every critical system, or no other.
LEMMA PlanAgrees ==
    ASSUME NEW d, IsAnswer(d), NEW critical,
           \A s : s \in critical <=> s \in Home /\ Friendly(d.sov[s]) /\ d.sov[s].adm \in 1..19
    PROVE  critical \subseteq Targets(d) \/ Targets(d) \subseteq critical
<1> DEFINE candidates == {s \in Home : Friendly(d.sov[s]) /\ d.sov[s].adm \in 1..44}
            ahead(t, s) == \/ Score(d, t) > Score(d, s)
                           \/ Score(d, t) = Score(d, s) /\ Order[t] < Order[s]
            before(s) == {t \in candidates : ahead(t, s)}
<1>1. \A s : s \in Targets(d) <=> s \in candidates /\ Cardinality(before(s)) < PlanSize
    BY DEF Targets
<1>2. critical \subseteq candidates
    BY DEF candidates
<1>3. IsFiniteSet(candidates)
    BY ViewAssumption, FS_Subset DEF candidates
<1>4. \A s : before(s) \subseteq candidates /\ IsFiniteSet(before(s)) /\ Cardinality(before(s)) \in Nat
    BY <1>3, FS_Subset, FS_CardinalityType DEF before
<1>5. ASSUME NEW s \in critical, NEW t \in candidates \ critical
      PROVE  Score(d, s) > Score(d, t) /\ ~(Score(d, t) > Score(d, s)) /\ Score(d, t) # Score(d, s)
    <2>1. d.sov[t].adm \in 20..44 /\ t \in Home
        BY <1>5 DEF candidates
    <2>2. d.sov[s].adm \in 1..19 /\ s \in Home
        BY <1>5
    <2>3. Score(d, s) > Score(d, t) /\ Score(d, s) \in Int /\ Score(d, t) \in Int
        BY <2>1, <2>2, CriticalOutscores
    <2> QED BY <2>3
<1>12. \A s, t : t \in before(s) <=> t \in candidates /\ ahead(t, s)
    BY DEF before
<1> HIDE DEF before, candidates
<1>6. SUFFICES ASSUME NEW s \in critical, s \notin Targets(d), NEW t \in Targets(d), t \notin critical
               PROVE  FALSE
    OBVIOUS
<1>7. before(s) \subseteq critical
    BY <1>5, <1>6, <1>12
<1>8. critical \subseteq before(t)
    BY <1>1, <1>2, <1>5, <1>6, <1>12
<1>9. Cardinality(before(s)) <= Cardinality(before(t))
    BY <1>4, <1>7, <1>8, FS_Subset
<1>10. ~(Cardinality(before(s)) < PlanSize) /\ Cardinality(before(t)) < PlanSize
    <2>1. s \in candidates
        BY <1>2
    <2> QED BY <1>1, <1>6, <2>1
<1>11. Cardinality(before(s)) \in Nat /\ Cardinality(before(t)) \in Nat /\ PlanSize \in Nat
    BY <1>4, ViewAssumption
<1> QED BY <1>9, <1>10, <1>11

\* What every place says of an answer is one story.
LEMMA AnswerIsOneStory ==
    ASSUME NEW d, IsAnswer(d), NEW holds \in BOOLEAN, NEW t
    PROVE  LET critical == CriticalCard(d, "all", holds)
           IN  /\ ~holds => critical = {}
               /\ \A x \in Tabs : CriticalCard(d, x, holds) = critical \intersect Visible(x)
               /\ \A s \in Systems :
                     /\ s \in critical <=> "CRITICAL" \in TableBadges(d, s, holds)
                     /\ s \in critical <=> holds /\ s \in Home /\ TrendMark(d, s) = "CRIT"
               /\ holds => critical \subseteq Targets(d) \/ Targets(d) \subseteq critical
               /\ \A s \in Placed :
                     LET rings == Rings(d, s, holds, t)
                         here(campaigns) == {c \in campaigns : CampaignAt[c] = s}
                     IN  /\ s \in critical <=> "critical" \in rings
                         /\ s \in critical <=> holds /\ "grind" \in TooltipWarnings(d, s)
                         /\ s \in HostileCard(d, "primary") <=> NodeColor(d, s) = "red"
                         /\ s \in HostCard(d, "primary", holds) <=> ~holds /\ NodeColor(d, s) = "blue"
                         /\ s \in HostileCard(d, "primary") <=> "lost" \in rings
                         /\ here(ToSet(d.campaigns)) = {} <=> rings \intersect {"nodes", "reffed"} = {}
                         /\ "nodes" \in rings => here(Active(d, t)) # {} /\ CampaignCard(d, t) = "danger"
                         /\ "reffed" \in rings => here(Reinforced(d, t)) # {}
<1> DEFINE critical == CriticalCard(d, "all", holds)
<1>1. /\ \A s : s \in critical <=> s \in Home /\ holds /\ Friendly(d.sov[s]) /\ d.sov[s].adm \in 1..19
      /\ \A x : CriticalCard(d, x, holds) = critical \intersect Visible(x)
    BY CriticalAre
<1>2. /\ \A s \in Systems : d.sov[s].owner \in Owners /\ d.sov[s].adm \in 0..60
      /\ \A s \in Placed : s \in Systems
    BY ViewAssumption DEF IsAnswer
<1> HIDE DEF critical
<1>3. ~holds => critical = {}
    BY <1>1
<1>4. ASSUME NEW s \in Systems
      PROVE  /\ s \in critical <=> "CRITICAL" \in TableBadges(d, s, holds)
             /\ s \in critical <=> holds /\ s \in Home /\ TrendMark(d, s) = "CRIT"
    BY <1>1, <1>2, BadgesAgree, TrendsAgree
<1>5. holds => critical \subseteq Targets(d) \/ Targets(d) \subseteq critical
    BY <1>1, PlanAgrees
<1>6. ASSUME NEW s \in Placed
      PROVE  LET rings == Rings(d, s, holds, t)
                 here(campaigns) == {c \in campaigns : CampaignAt[c] = s}
             IN  /\ s \in critical <=> "critical" \in rings
                 /\ s \in critical <=> holds /\ "grind" \in TooltipWarnings(d, s)
                 /\ s \in HostileCard(d, "primary") <=> NodeColor(d, s) = "red"
                 /\ s \in HostCard(d, "primary", holds) <=> ~holds /\ NodeColor(d, s) = "blue"
                 /\ s \in HostileCard(d, "primary") <=> "lost" \in rings
                 /\ here(ToSet(d.campaigns)) = {} <=> rings \intersect {"nodes", "reffed"} = {}
                 /\ "nodes" \in rings => here(Active(d, t)) # {} /\ CampaignCard(d, t) = "danger"
                 /\ "reffed" \in rings => here(Reinforced(d, t)) # {}
    <2> DEFINE rings == Rings(d, s, holds, t)
               here(campaigns) == {c \in campaigns : CampaignAt[c] = s}
    <2>1. /\ s \in critical <=> "critical" \in rings
          /\ s \in critical <=> holds /\ "grind" \in TooltipWarnings(d, s)
        BY <1>1, RingsAgree, WarningsAgree
    <2>2. /\ s \in HostileCard(d, "primary") <=> NodeColor(d, s) = "red"
          /\ s \in HostCard(d, "primary", holds) <=> ~holds /\ NodeColor(d, s) = "blue"
          /\ s \in HostileCard(d, "primary") <=> "lost" \in rings
        BY <1>2, HostileAgree, RingsAgree
    <2>3. /\ "nodes" \in rings <=> "nodes" \in CampaignRing(d, s, t)
          /\ "reffed" \in rings <=> "reffed" \in CampaignRing(d, s, t)
        BY RingsAgree
    <2>4. here(ToSet(d.campaigns)) = {} <=> rings \intersect {"nodes", "reffed"} = {}
        <3>1. here(ToSet(d.campaigns)) = {} <=> CampaignRing(d, s, t) \intersect {"nodes", "reffed"} = {}
            BY CampaignRings
        <3> HIDE DEF rings, here
        <3> QED BY <2>3, <3>1
    <2>5. "nodes" \in rings => here(Active(d, t)) # {}
        BY <2>3, CampaignRings
    <2>6. "reffed" \in rings => here(Reinforced(d, t)) # {}
        BY <2>3, CampaignRings
    <2>7. here(Active(d, t)) # {} => CampaignCard(d, t) = "danger"
        BY DEF CampaignCard
    <2> HIDE DEF rings, here
    <2> QED BY <2>1, <2>2, <2>4, <2>5, <2>6, <2>7 DEF rings, here
<1> QED BY <1>1, <1>3, <1>4, <1>5, <1>6 DEF critical

\* The cards, the table, the map, the trends and the plan agree about the
\* displayed data (App, SystemTable, ConstellationMap, AdmTrends,
\* GrindingPlan), for any answer of the API and any configuration: the map
\* about the systems that its layout has a place for, and its ring about one
\* of the campaigns listed there, in whatever order and however many.
THEOREM PlacesTellOneStory == DashSpec => []OneStory
<1>1. DashInv => OneStory
    <2> SUFFICES ASSUME DashInv, shown # -1 PROVE OneStory
        BY DEF OneStory
    <2>1. shown \in 0..MaxTime
        BY DashAssumption DEF DashInv
    <2>2. IsAnswer(World[shown])
        BY <2>1, DashAssumption
    <2>3. HoldsSov \in BOOLEAN
        BY DEF HoldsSov
    <2> QED BY <2>2, <2>3, AnswerIsOneStory DEF OneStory
<1> QED BY <1>1, DashInvHolds, PTL

=============================================================================
