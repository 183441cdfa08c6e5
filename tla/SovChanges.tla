----------------------------- MODULE SovChanges -----------------------------
(***************************************************************************)
(* The log of changes of sovereignty (db.record_sov_changes), written by   *)
(* whichever request asks for it (api_sov_changes).                        *)
(*                                                                         *)
(* A request takes the sovereignty map from its process's cache, or from   *)
(* ESI, and only then opens the transaction that compares it with the      *)
(* stored state.  Of EsiClient this keeps the one cache entry of the map   *)
(* and its time to live.                                                   *)
(***************************************************************************)
EXTENDS Integers, FiniteSets, Sequences, SequencesExt

CONSTANTS
    Process, Thread,
    ProcessOf,   \* the process each thread serves requests in
    System,      \* the neighbour systems
    Alliance,    \* those who may hold one, 0 for unclaimed among them
    TTL,         \* CACHE_TTL of the sovereignty map
    Delay,       \* bound: how long ESI's answer is on its way, and how long a
                 \* request is between map and transaction
    SovMax,      \* SOV_CHANGES_MAX
    MaxWorld,    \* bound: how often sovereignty changes
    Unknown      \* no row, no map

ASSUME SovAssumption ==
    /\ ProcessOf \in [Thread -> Process]
    /\ TTL \in Nat \ {0} /\ Delay \in Nat
    /\ SovMax \in Nat /\ MaxWorld \in Nat
    /\ Unknown \notin Alliance
    /\ IsFiniteSet(System)

VARIABLES
    holder,   \* who holds each system, as ESI would say
    changes,  \* history: the changes of holder so far
    gone,     \* history: time since an alliance last held a system
    entry,    \* the map in each process's cache: [map, left], or Unknown
    request,  \* the map each thread is about to keep, and then to record, or Unknown
    state,    \* sov_state
    log       \* sov_changes, oldest first

sovVars == <<holder, changes, gone, entry, request, state, log>>

\* The age a recorded map can reach: on its way, cached, and on its way again.
Oldest == TTL + 2 * Delay

Map == [System -> Alliance]
Entry == [map : Map, left : 0..TTL]
Request == [map : Map, age : 0..Delay, kept : BOOLEAN]
Change == [system : System, old : Alliance, new : Alliance]

SovInit ==
    /\ holder \in Map
    /\ changes = <<>>
    /\ gone = [s \in System |-> [a \in Alliance |-> IF a = holder[s] THEN 0 ELSE Oldest + 1]]
    /\ entry = [p \in Process |-> Unknown]
    /\ request = [t \in Thread |-> Unknown]
    /\ state = [s \in System |-> Unknown]
    /\ log = <<>>

\* A system changes hands.
Conquer(s, a) ==
    /\ Len(changes) < MaxWorld
    /\ a # holder[s]
    /\ holder' = [holder EXCEPT ![s] = a]
    /\ changes' = Append(changes, [system |-> s, old |-> holder[s], new |-> a])
    /\ gone' = [gone EXCEPT ![s][a] = 0]
    /\ UNCHANGED <<entry, request, state, log>>

Cached(p) == entry[p] # Unknown /\ entry[p].left > 0

\* Mutant: a map that is used is kept for longer.
MutFromCache(t) ==
    /\ request[t] = Unknown /\ Cached(ProcessOf[t])
    /\ request' = [request EXCEPT ![t] =
                     [map |-> entry[ProcessOf[t]].map, age |-> 0, kept |-> TRUE]]
    /\ entry' = [entry EXCEPT ![ProcessOf[t]].left = TTL]
    /\ UNCHANGED <<holder, changes, gone, state, log>>

\* get_sovereignty_map finds the map in the cache.
FromCache(t) ==
    /\ request[t] = Unknown /\ Cached(ProcessOf[t])
    /\ request' = [request EXCEPT ![t] =
                     [map |-> entry[ProcessOf[t]].map, age |-> 0, kept |-> TRUE]]
    /\ UNCHANGED <<holder, changes, gone, entry, state, log>>

\* It does not, and ESI answers.
Fetch(t) ==
    /\ request[t] = Unknown /\ ~Cached(ProcessOf[t])
    /\ request' = [request EXCEPT ![t] = [map |-> holder, age |-> 0, kept |-> FALSE]]
    /\ UNCHANGED <<holder, changes, gone, entry, state, log>>

\* The answer is put into the cache, over what another thread put there.
Keep(t) ==
    /\ request[t] # Unknown /\ ~request[t].kept
    /\ entry' = [entry EXCEPT ![ProcessOf[t]] = [map |-> request[t].map, left |-> TTL]]
    /\ request' = [request EXCEPT ![t] = [map |-> request[t].map, age |-> 0, kept |-> TRUE]]
    /\ UNCHANGED <<holder, changes, gone, state, log>>

\* The systems a map says something new of, and those of them whose old
\* holder is known: the others only get their state.
News(map) == {s \in System : state[s] # map[s]}
Logged(map) == {s \in News(map) : state[s] # Unknown}

\* Mutant: a row there is stays as it is.
MutStateAfter(map) == [s \in System |-> IF state[s] = Unknown THEN map[s] ELSE state[s]]

StateAfter(map) == [s \in System |-> map[s]]

\* Mutant: nothing is trimmed.
MutTrimmed(rows) == rows

\* The newest SovMax rows.
Trimmed(rows) == IF Len(rows) <= SovMax THEN rows
                 ELSE SubSeq(rows, Len(rows) - SovMax + 1, Len(rows))

\* record_sov_changes, from BEGIN IMMEDIATE to the commit.
Record(t) ==
    /\ request[t] # Unknown /\ request[t].kept
    /\ LET map == request[t].map IN
       /\ \E order \in SetToSeqs(Logged(map)) :
            log' = Trimmed(log \o [i \in DOMAIN order |->
                     [system |-> order[i], old |-> state[order[i]], new |-> map[order[i]]]])
       /\ state' = StateAfter(map)
    /\ request' = [request EXCEPT ![t] = Unknown]
    /\ UNCHANGED <<holder, changes, gone, entry>>

\* ESI's answer is lost, the write lock is not to be had, or the transaction is
\* rolled back.
RequestFails(t) ==
    /\ request[t] # Unknown
    /\ request' = [request EXCEPT ![t] = Unknown]
    /\ UNCHANGED <<holder, changes, gone, entry, state, log>>

\* The cache is full and makes room for something else.
Evict(p) ==
    /\ entry[p] # Unknown
    /\ entry' = [entry EXCEPT ![p] = Unknown]
    /\ UNCHANGED <<holder, changes, gone, request, state, log>>

\* A process dies; the one in its place starts with an empty cache.
Restart(p) ==
    /\ entry' = [entry EXCEPT ![p] = Unknown]
    /\ request' = [t \in Thread |-> IF ProcessOf[t] = p THEN Unknown ELSE request[t]]
    /\ UNCHANGED <<holder, changes, gone, state, log>>

\* A moment later.
Tick ==
    /\ \A t \in Thread : request[t] # Unknown => request[t].age < Delay
    /\ gone' = [s \in System |-> [a \in Alliance |->
                  IF a = holder[s] THEN 0
                  ELSE IF gone[s][a] > Oldest THEN gone[s][a] ELSE gone[s][a] + 1]]
    /\ entry' = [p \in Process |->
                  IF entry[p] = Unknown \/ entry[p].left = 0 THEN Unknown
                  ELSE [entry[p] EXCEPT !.left = @ - 1]]
    /\ request' = [t \in Thread |->
                  IF request[t] = Unknown THEN Unknown ELSE [request[t] EXCEPT !.age = @ + 1]]
    /\ UNCHANGED <<holder, changes, state, log>>

SovNext ==
    \/ \E s \in System, a \in Alliance : Conquer(s, a)
    \/ \E t \in Thread : FromCache(t) \/ Fetch(t) \/ Keep(t) \/ Record(t) \/ RequestFails(t)
    \/ \E p \in Process : Evict(p) \/ Restart(p)
    \/ Tick

SovSpec == SovInit /\ [][SovNext]_sovVars

----------------------------------------------------------------------------
(* Properties                                                               *)

SovTypeOK ==
    /\ holder \in Map
    /\ changes \in Seq(Change)
    /\ gone \in [System -> [Alliance -> 0..(Oldest + 1)]]
    /\ entry \in [Process -> Entry \cup {Unknown}]
    /\ request \in [Thread -> Request \cup {Unknown}]
    /\ state \in [System -> Alliance \cup {Unknown}]
    /\ log \in Seq(Change) /\ Len(log) <= SovMax

\* Row j is the next one after row i about the same system.
Continues(rows, j, i) ==
    /\ i < j /\ rows[j].system = rows[i].system
    /\ \A k \in DOMAIN rows : i < k /\ k < j => rows[k].system # rows[i].system

\* Row i is the last one about its system.
IsLatest(rows, i) == \A k \in DOMAIN rows : i < k => rows[k].system # rows[i].system

\* The rows are one history per system that ends with the holders map says.
Chained(rows, map) ==
    \A i \in DOMAIN rows :
        /\ rows[i].old # rows[i].new
        /\ \A j \in DOMAIN rows : Continues(rows, j, i) => rows[j].old = rows[i].new
        /\ IsLatest(rows, i) => rows[i].new = map[rows[i].system]

\* However many processes report, the log reads as one history per system:
\* every row begins with the holder the row before ended with, none says that
\* nothing changed, and the last one ends with the stored state.
LogChained == Chained(log, state)

\* A row is written only of a holder that did hold the system not longer ago
\* than a map may be on its way, cached, and on its way to the transaction.
LogRecent ==
    [][\A s \in System :
         state'[s] # state[s] => gone[s][state'[s]] <= Oldest]_sovVars

=============================================================================
