----------------------------- MODULE EsiClient -----------------------------
(***************************************************************************)
(* The client every route fetches through (esi_client.py): per process, a  *)
(* bounded cache with expiry and a pause that is armed when ESI says that  *)
(* the error budget of this host's address is nearly spent.                *)
(*                                                                         *)
(* A getter looks its key up, and on a miss waits out the pause, sends a   *)
(* request that urllib3 may repeat, notes the error limit, and stores the  *)
(* answer.  Threads of one process share cache and pause; all processes    *)
(* share ESI's budget.                                                     *)
(*                                                                         *)
(* Instants are kept relative to the present, as in WarLease.  Of what ESI *)
(* answers only the age is kept: the time since it was true.               *)
(***************************************************************************)
EXTENDS Integers, FiniteSets, FiniteSetsExt, Functions

CONSTANTS
    Process, Thread,
    ProcessOf,   \* the process each thread runs in
    Key,         \* cache keys, each standing for the resource it caches
    Zkill,       \* those served by zKillboard (_zkill_get)
    TTL,         \* CACHE_TTL of each key's category
    Timeout,     \* bound: the longest an answer is on its way to the cache
    MaxCache,    \* MAX_CACHE_SIZE
    Evict,       \* int(MAX_CACHE_SIZE * 0.2)
    Retries,     \* HTTP_MAX_RETRIES
    Floor,       \* ESI_ERROR_LIMIT_FLOOR
    Limit,       \* errors ESI allows in a window
    Window       \* length of ESI's window

ASSUME EsiAssumption ==
    /\ ProcessOf \in [Thread -> Process]
    /\ Zkill \subseteq Key /\ Key # {}
    /\ IsFiniteSet(Thread) /\ IsFiniteSet(Key)
    /\ TTL \in [Key -> Nat \ {0}]
    /\ Timeout \in Nat /\ Retries \in Nat /\ Floor \in Nat
    /\ MaxCache \in Nat \ {0} /\ Evict \in 1..MaxCache
    /\ Limit \in Nat \ {0} /\ Window \in Nat \ {0}

VARIABLES
    budget,  \* errors left in ESI's window
    reset,   \* time left of that window
    cache,   \* _cache of each process
    pause,   \* time left until _error_limit_until, of each process
    call,    \* the getter each thread is in
    warned   \* history: the processes that have noted, in this window, an
             \* answer of this window that said the budget is low

esiVars == <<budget, reset, cache, pause, call, warned>>

\* left: time until expires_at
Entry == [age : Nat, left : Nat]

\* ok: an answer, not an error; low: it said the budget is low; wait: its
\* X-Esi-Error-Limit-Reset; tries: how often urllib3 has repeated the request.
At == {"idle", "pausing", "sent", "answered", "storing", "served"}
Getter(k, at) == [at |-> at, key |-> k, age |-> 0, tries |-> 0,
                  ok |-> FALSE, low |-> FALSE, wait |-> 0]
Idle == Getter(CHOOSE k \in Key : TRUE, "idle")

EsiInit ==
    /\ budget = Limit
    /\ reset = Window
    /\ cache = [p \in Process |-> [k \in {} |-> 0]]
    /\ pause = [p \in Process |-> 0]
    /\ call = [t \in Thread |-> Idle]
    /\ warned = {}

----------------------------------------------------------------------------
(* ESI and zKillboard                                                       *)

\* The answer to thread t's request leaves, with ESI's headers.
Answered(t, ok, left) ==
    [call[t] EXCEPT !.at = "answered", !.ok = ok, !.age = 0, !.wait = reset,
                    !.low = left <= Floor /\ call[t].key \notin Zkill]

Answer(t) ==
    /\ call[t].at = "sent"
    /\ call[t].key \notin Zkill => budget > 0
    /\ call' = [call EXCEPT ![t] = Answered(t, TRUE, budget)]
    /\ UNCHANGED <<budget, reset, cache, pause, warned>>

\* Mutant: the transient errors are repeated for ever.
MutAnswerError(t) ==
    /\ call[t].at = "sent"
    /\ call[t].key \notin Zkill
    /\ budget > 0
    /\ budget' = budget - 1
    /\ \/ call' = [call EXCEPT ![t].tries = @ + 1]
       \/ call' = [call EXCEPT ![t] = Answered(t, FALSE, budget')]
    /\ UNCHANGED <<reset, cache, pause, warned>>

\* ESI answers with an error.  urllib3 repeats the request after one of the
\* transient ones and shows the getter the last answer only.
AnswerError(t) ==
    /\ call[t].at = "sent"
    /\ call[t].key \notin Zkill
    /\ budget > 0
    /\ budget' = budget - 1
    /\ \/ /\ call[t].tries < Retries
          /\ call' = [call EXCEPT ![t].tries = @ + 1]
       \/ call' = [call EXCEPT ![t] = Answered(t, FALSE, budget')]
    /\ UNCHANGED <<reset, cache, pause, warned>>

\* The budget is spent: 420.
Refuse(t) ==
    /\ call[t].at = "sent"
    /\ call[t].key \notin Zkill
    /\ budget = 0
    /\ call' = [call EXCEPT ![t] = Answered(t, FALSE, 0)]
    /\ UNCHANGED <<budget, reset, cache, pause, warned>>

----------------------------------------------------------------------------
(* A getter                                                                 *)

Entries(t) == cache[ProcessOf[t]]
Fresh(entries) == {k \in DOMAIN entries : entries[k].left > 0}

\* Mutant: a hit renews the entry.
MutLookup(t, k) ==
    /\ call[t].at = "idle"
    /\ IF k \in Fresh(Entries(t))
       THEN /\ call' = [call EXCEPT ![t] =
                 [Getter(k, "served") EXCEPT !.ok = TRUE, !.age = Entries(t)[k].age]]
            /\ cache' = [cache EXCEPT ![ProcessOf[t]][k].left = TTL[k]]
       ELSE /\ call' = [call EXCEPT ![t] =
                 Getter(k, IF k \in Zkill THEN "sent" ELSE "pausing")]
            /\ cache' = [cache EXCEPT ![ProcessOf[t]] = Restrict(@, DOMAIN @ \ {k})]
    /\ UNCHANGED <<budget, reset, pause, warned>>

\* _get_cached: an expired entry is removed by the thread that meets it.
Lookup(t, k) ==
    /\ call[t].at = "idle"
    /\ IF k \in Fresh(Entries(t))
       THEN /\ call' = [call EXCEPT ![t] =
                 [Getter(k, "served") EXCEPT !.ok = TRUE, !.age = Entries(t)[k].age]]
            /\ UNCHANGED cache
       ELSE /\ call' = [call EXCEPT ![t] =
                 Getter(k, IF k \in Zkill THEN "sent" ELSE "pausing")]
            /\ cache' = [cache EXCEPT ![ProcessOf[t]] = Restrict(@, DOMAIN @ \ {k})]
    /\ UNCHANGED <<budget, reset, pause, warned>>

\* _pause_if_error_limited returns.
PassPause(t) ==
    /\ call[t].at = "pausing"
    /\ pause[ProcessOf[t]] = 0
    /\ call' = [call EXCEPT ![t].at = "sent"]
    /\ UNCHANGED <<budget, reset, cache, pause, warned>>

\* Mutant: the last answer noted decides.
MutArmed(t) == Max({call[t].wait, 1})

\* The pause after an answer: never shorter than it was.
Armed(t) == Max({pause[ProcessOf[t]], Max({call[t].wait, 1})})

\* What becomes of a getter without an answer: ESI's pass the error on, to
\* be handled by whoever called; zKillboard's return an empty default.
Failed(c) == IF c.key \in Zkill THEN Getter(c.key, "served") ELSE Idle

\* _note_error_limit, which _zkill_get leaves out, then raise_for_status.
Note(t) ==
    /\ call[t].at = "answered"
    /\ pause' = IF call[t].low THEN [pause EXCEPT ![ProcessOf[t]] = Armed(t)] ELSE pause
    /\ warned' = IF call[t].low /\ call[t].age < call[t].wait
                 THEN warned \cup {ProcessOf[t]} ELSE warned
    /\ call' = [call EXCEPT ![t] = IF @.ok THEN [@ EXCEPT !.at = "storing"] ELSE Failed(@)]
    /\ UNCHANGED <<budget, reset, cache>>

\* No answer: the connection failed, or timed out, once too often, or
\* zKillboard had only an error to give.  Nothing is noted.
Lose(t) ==
    /\ call[t].at = "sent"
    /\ call' = [call EXCEPT ![t] = Failed(@)]
    /\ UNCHANGED <<budget, reset, cache, pause, warned>>

\* What _set_cache keeps when the cache is full: the unexpired entries, or,
\* if that is still too many, those but the Evict that expire first.
Kept(entries, kept) ==
    IF Cardinality(DOMAIN entries) < MaxCache THEN kept = DOMAIN entries
    ELSE IF Cardinality(Fresh(entries)) < MaxCache THEN kept = Fresh(entries)
    ELSE /\ kept \subseteq Fresh(entries)
         /\ Cardinality(Fresh(entries) \ kept) = Evict
         /\ \A k \in kept, j \in Fresh(entries) \ kept : entries[j].left <= entries[k].left

\* Mutant: only expired entries make room.
MutStore(t) ==
    /\ call[t].at = "storing"
    /\ cache' = [cache EXCEPT ![ProcessOf[t]] =
          [k \in Fresh(@) \cup {call[t].key} |->
              IF k = call[t].key THEN [age |-> call[t].age, left |-> TTL[k]]
              ELSE @[k]]]
    /\ call' = [call EXCEPT ![t].at = "served"]
    /\ UNCHANGED <<budget, reset, pause, warned>>

\* _set_cache: make room, and store the answer with its expiry.
Store(t) ==
    /\ call[t].at = "storing"
    /\ \E kept \in SUBSET DOMAIN Entries(t) :
         /\ Kept(Entries(t), kept)
         /\ cache' = [cache EXCEPT ![ProcessOf[t]] =
              [k \in kept \cup {call[t].key} |->
                  IF k = call[t].key THEN [age |-> call[t].age, left |-> TTL[k]]
                  ELSE @[k]]]
    /\ call' = [call EXCEPT ![t].at = "served"]
    /\ UNCHANGED <<budget, reset, pause, warned>>

\* The caller is done with what it was served.
Return(t) ==
    /\ call[t].at = "served"
    /\ call' = [call EXCEPT ![t] = Idle]
    /\ UNCHANGED <<budget, reset, cache, pause, warned>>

Less(n) == IF n = 0 THEN 0 ELSE n - 1

\* Bound: ages are told apart up to just beyond what a served answer may have.
MaxAge == Max({TTL[k] : k \in Key}) + Timeout
Older(n) == IF n > MaxAge THEN n ELSE n + 1

\* A moment later.
Aged(e) == [e EXCEPT !.age = Older(@), !.left = Less(@)]

\* Time passes; an answer is not on its way for longer than Timeout.
Elapse ==
    /\ \A t \in Thread : call[t].at \in {"answered", "storing"} => call[t].age < Timeout
    /\ reset' = IF reset = 1 THEN Window ELSE reset - 1
    /\ budget' = IF reset = 1 THEN Limit ELSE budget
    /\ cache' = [p \in Process |-> [k \in DOMAIN cache[p] |-> Aged(cache[p][k])]]
    /\ pause' = [p \in Process |-> Less(pause[p])]
    /\ call' = [t \in Thread |-> IF call[t].at \in {"answered", "storing"}
                                 THEN [call[t] EXCEPT !.age = @ + 1] ELSE call[t]]
    /\ warned' = IF reset = 1 THEN {} ELSE warned

Call(t) ==
    \/ \E k \in Key : Lookup(t, k)
    \/ PassPause(t)
    \/ Answer(t)
    \/ AnswerError(t)
    \/ Refuse(t)
    \/ Note(t)
    \/ Lose(t)
    \/ Store(t)

EsiNext ==
    \/ \E t \in Thread : Call(t) \/ Return(t)
    \/ Elapse

EsiSpec == EsiInit /\ [][EsiNext]_esiVars

----------------------------------------------------------------------------
(* Properties                                                               *)

EsiTypeOK ==
    /\ budget \in 0..Limit
    /\ reset \in 1..Window
    /\ DOMAIN cache = Process
    /\ \A p \in Process : /\ DOMAIN cache[p] \subseteq Key
                          /\ \A k \in DOMAIN cache[p] : cache[p][k] \in Entry
    /\ pause \in [Process -> Nat]
    /\ call \in [Thread -> [at : At, key : Key, age : Nat, tries : 0..Retries,
                            ok : BOOLEAN, low : BOOLEAN, wait : 0..Window]]
    /\ warned \subseteq Process

\* No cache outgrows MAX_CACHE_SIZE, whatever its threads store at once.
CacheBounded == \A p \in Process : Cardinality(DOMAIN cache[p]) <= MaxCache

\* What a getter returns was true at most its key's TTL, and the way of an
\* answer, ago: looking up, storing, evicting and expiring by any threads in
\* any order never makes an old answer look young.  (The getter that caches
\* what another had cached, resolve_constellation_name, is not among these.)
ServedFresh ==
    \A t \in Thread : call[t].at = "served" /\ call[t].ok
                      => call[t].age <= TTL[call[t].key] + Timeout

\* "Every thread pauses until the window resets" (_note_error_limit), as far
\* as the process goes: once one of its threads has noted that the budget is
\* low, none lets a request go before the window ends, however late the
\* answers of this window and of earlier ones are noted.
PauseHonoured ==
    [][\A t \in Thread :
         call[t].at = "pausing" /\ call'[t].at = "sent" => ProcessOf[t] \notin warned]_esiVars

=============================================================================
