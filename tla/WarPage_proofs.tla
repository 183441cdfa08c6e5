--------------------------- MODULE WarPage_proofs ---------------------------
(***************************************************************************)
(* The memo of the war page, for any number of processes, ranges and       *)
(* edits, and any life of an entry and length of a read.  Two bounds carry *)
(* it: the version under an entry, or under a read in progress, has been   *)
(* superseded for no longer than the entry, or the read, is old (Recent),  *)
(* and a process that no read raced holds nothing older than its last edit *)
(* (Own).  They have to hold of reads in progress as well as of entries,   *)
(* because a read becomes an entry whatever happened meanwhile.            *)
(***************************************************************************)
EXTENDS WarPage, SequenceTheorems, TLAPS

Read == [proc : Procs, v : Nat, age : Nat]
Sums == [v : Int, stale : Nat]
Load == [days : Ranges, edited : BOOLEAN, read : Read \union {None},
         sums : Sums \union {None}, roster : Int \union {None}]
Entry == [age : Nat, v : Nat]
Ruling == Sides \union {"undone"}
Words == {""} \union Passwords
Edit == [ruling : Ruling, password : Words, days : Ranges, at : Procs \union {"sent", "done"}]

PageTypeOK ==
    /\ rulings \in Seq(Ruling) /\ Version <= MaxEdits
    /\ gone \in [0..MaxEdits -> Nat]
    /\ memo \in [Procs -> [Ranges -> Entry \union {None}]]
    /\ floor \in [Procs -> Nat] /\ raced \in [Procs -> BOOLEAN]
    /\ days \in Ranges /\ password \in Words /\ loads \in Seq(Load)
    /\ edit \in Edit \union {None}
    /\ edit # None /\ edit.at = "sent" => Version < MaxEdits

\* How old a version may be that is a units of time in the memo or being read.
Recent(v, a) == v <= Version /\ gone[v] <= a

\* What process p may hold.
Own(p, v) == ~raced[p] => v >= floor[p]

EntriesOK ==
    \A p \in Procs, d \in Ranges : memo[p][d] # None =>
        /\ memo[p][d].age < Memo
        /\ Recent(memo[p][d].v, memo[p][d].age) /\ Own(p, memo[p][d].v)

LoadOK(l) ==
    /\ l.read # None => /\ l.read.age <= MaxRead
                        /\ Recent(l.read.v, l.read.age) /\ Own(l.read.proc, l.read.v)
    /\ l.sums # None => l.sums.stale < Memo \/ l.sums.stale <= MaxRead

\* The present version has not been superseded, nor has a later one; no
\* process is ahead of it.
PresentOK ==
    /\ \A v \in 0..MaxEdits : v >= Version => gone[v] = 0
    /\ \A p \in Procs : floor[p] <= Version

LoadsOK == \A i \in DOMAIN loads : LoadOK(loads[i])

PageInv == PageTypeOK /\ EntriesOK /\ LoadsOK /\ PresentOK
-----------------------------------------------------------------------------
\* Taking an element off a sequence keeps the others, in their order.
LEMMA RemoveAtKeeps ==
    ASSUME NEW S, NEW s \in Seq(S), NEW i \in DOMAIN s
    PROVE  /\ RemoveAt(s, i) \in Seq(S)
           /\ Len(RemoveAt(s, i)) = Len(s) - 1
           /\ \A j \in DOMAIN s : j < i => RemoveAt(s, i)[j] = s[j]
           /\ \A j \in DOMAIN s : j > i => RemoveAt(s, i)[j - 1] = s[j]
<1> DEFINE front == SubSeq(s, 1, i - 1)
            back == SubSeq(s, i + 1, Len(s))
<1>1. Len(s) \in Nat /\ DOMAIN s = 1..Len(s) /\ i \in 1..Len(s)
    BY LenProperties
<1>2. \A j \in 1..Len(s) : s[j] \in S
    BY ElementOfSeq
<1>3. /\ front \in Seq(S) /\ Len(front) = i - 1
      /\ \A j \in 1..(i - 1) : front[j] = s[j]
    <2>1. 1 \in Int /\ i - 1 \in Int /\ \A j \in 1..(i - 1) : s[j] \in S
        BY <1>1, <1>2
    <2> QED BY <1>1, <2>1, SubSeqProperties
<1>4. /\ back \in Seq(S) /\ Len(back) = Len(s) - i
      /\ \A j \in 1..(Len(s) - i) : back[j] = s[i + j]
    <2>1. i + 1 \in Int /\ Len(s) \in Int /\ \A j \in (i + 1)..Len(s) : s[j] \in S
        BY <1>1, <1>2
    <2>2. /\ back \in Seq(S)
          /\ Len(back) = IF i + 1 <= Len(s) THEN Len(s) - (i + 1) + 1 ELSE 0
          /\ \A j \in 1..(Len(s) - (i + 1) + 1) : back[j] = s[(i + 1) + j - 1]
        BY <2>1, SubSeqProperties
    <2> HIDE DEF back
    <2>3. Len(back) = Len(s) - i
        BY <1>1, <2>2
    <2>4. ASSUME NEW j \in 1..(Len(s) - i) PROVE back[j] = s[i + j]
        <3>1. j \in 1..(Len(s) - (i + 1) + 1) /\ (i + 1) + j - 1 = i + j
            BY <1>1
        <3> QED BY <2>2, <3>1
    <2> QED BY <2>2, <2>3, <2>4
<1>5. RemoveAt(s, i) = front \o back
    BY DEF RemoveAt
<1> HIDE DEF front, back
<1>6. /\ front \o back \in Seq(S) /\ Len(front \o back) = Len(front) + Len(back)
      /\ \A j \in 1..(Len(front) + Len(back)) :
            (front \o back)[j] = IF j <= Len(front) THEN front[j] ELSE back[j - Len(front)]
    BY <1>3, <1>4, ConcatProperties
<1>7. RemoveAt(s, i) \in Seq(S) /\ Len(RemoveAt(s, i)) = Len(s) - 1
    BY <1>1, <1>3, <1>4, <1>5, <1>6
<1>8. ASSUME NEW j \in DOMAIN s, j < i PROVE RemoveAt(s, i)[j] = s[j]
    <2>1. j \in 1..(i - 1)
        BY <1>1, <1>8
    <2>2. j \in 1..(Len(front) + Len(back)) /\ j <= Len(front)
        BY <1>1, <1>3, <1>4, <2>1
    <2>3. (front \o back)[j] = front[j]
        BY <1>6, <2>2
    <2> QED BY <1>3, <1>5, <2>1, <2>3
<1>9. ASSUME NEW j \in DOMAIN s, j > i PROVE RemoveAt(s, i)[j - 1] = s[j]
    <2>1. i \in Nat /\ j \in Nat /\ Len(s) \in Nat /\ 1 <= i /\ i < j /\ j <= Len(s)
        BY <1>1, <1>9
    <2>2. Len(front) = i - 1 /\ Len(back) = Len(s) - i
        BY <1>3, <1>4
    <2>3. PICK a \in Nat, b \in Nat : a = Len(front) /\ b = Len(back) /\ a = i - 1 /\ b = Len(s) - i
        BY <2>1, <2>2
    <2>4. j - 1 \in 1..(a + b) /\ ~(j - 1 <= a)
        BY <2>1, <2>3
    <2>5. (front \o back)[j - 1] = back[(j - 1) - Len(front)]
        BY <1>6, <2>3, <2>4
    <2>6. PICK h \in 1..(Len(s) - i) : h = (j - 1) - a /\ i + h = j
        <3>1. 1 <= (j - 1) - a /\ (j - 1) - a <= Len(s) - i /\ (j - 1) - a \in Int
            BY <2>1, <2>3
        <3>2. i + ((j - 1) - a) = j
            BY <2>1, <2>3
        <3>3. (j - 1) - a \in 1..(Len(s) - i)
            BY <2>1, <3>1
        <3> QED BY <3>2, <3>3
    <2>7. back[h] = s[j]
        BY <1>4, <2>6
    <2> QED BY <1>5, <2>3, <2>5, <2>6, <2>7
<1> QED BY <1>7, <1>8, <1>9

\* So whatever is left on the list was on it.
LEMMA OthersOnly ==
    ASSUME NEW S, NEW s \in Seq(S), NEW i \in DOMAIN s, NEW k \in DOMAIN RemoveAt(s, i)
    PROVE  \E j \in DOMAIN s : RemoveAt(s, i)[k] = s[j]
<1>1. /\ RemoveAt(s, i) \in Seq(S) /\ Len(RemoveAt(s, i)) = Len(s) - 1
      /\ \A j \in DOMAIN s : j < i => RemoveAt(s, i)[j] = s[j]
      /\ \A j \in DOMAIN s : j > i => RemoveAt(s, i)[j - 1] = s[j]
    BY RemoveAtKeeps
<1>2. Len(s) \in Nat /\ DOMAIN s = 1..Len(s) /\ k \in 1..(Len(s) - 1) /\ i \in 1..Len(s)
    BY <1>1, LenProperties
<1>3. CASE k < i
    BY <1>1, <1>2, <1>3
<1>4. CASE ~(k < i)
    <2>1. k + 1 \in DOMAIN s /\ k + 1 > i /\ (k + 1) - 1 = k
        BY <1>2, <1>4
    <2> QED BY <1>1, <2>1
<1> QED BY <1>3, <1>4

\* The loads are loads, and the present version is one.
LEMMA LoadFacts ==
    ASSUME PageTypeOK
    PROVE  /\ DOMAIN loads = 1..Len(loads) /\ Len(loads) \in Nat
           /\ \A i \in DOMAIN loads : loads[i] \in Load
           /\ Version \in 0..MaxEdits
<1>1. Len(loads) \in Nat /\ DOMAIN loads = 1..Len(loads)
    BY LenProperties DEF PageTypeOK
<1>2. \A i \in DOMAIN loads : loads[i] \in Load
    BY <1>1, ElementOfSeq DEF PageTypeOK
<1>3. Version \in Nat
    BY LenProperties DEF PageTypeOK, Version
<1> QED BY <1>1, <1>2, <1>3, WarPageAssumption DEF PageTypeOK

\* With the server as it was, what was true of a load still is.
LEMMA ServerRests ==
    ASSUME PageInv, UNCHANGED serverVars
    PROVE  /\ EntriesOK' /\ PresentOK' /\ UNCHANGED <<rulings, gone, memo, floor, raced, Version>>
           /\ \A l : LoadOK(l) => LoadOK(l)'
<1> USE DEF serverVars, historyVars
<1>1. UNCHANGED <<rulings, gone, memo, floor, raced, Version>>
    BY DEF Version
<1>2. EntriesOK' /\ PresentOK'
    BY <1>1 DEF PageInv, EntriesOK, PresentOK, Recent, Own
<1>3. ASSUME NEW l, LoadOK(l) PROVE LoadOK(l)'
    BY <1>1, <1>3 DEF LoadOK, Recent, Own
<1> QED BY <1>1, <1>2, <1>3

\* The loads stay as they are.
LEMMA LoadsRest ==
    ASSUME PageInv, UNCHANGED <<serverVars, loads>>
    PROVE  LoadsOK'
<1>1. \A i \in DOMAIN loads : LoadOK(loads[i])'
    BY ServerRests DEF PageInv, LoadsOK
<1> QED BY <1>1 DEF LoadsOK, LoadOK, Recent, Own

\* A load is sent.
LEMMA LoadSent ==
    ASSUME PageInv, UNCHANGED serverVars, NEW d \in Ranges, NEW e \in BOOLEAN, Send(d, e)
    PROVE  loads' \in Seq(Load) /\ LoadsOK'
<1> DEFINE l == LoadOf(d, e)
<1>1. l \in Load /\ LoadOK(l)
    BY DEF LoadOf, Load, LoadOK
<1>2. loads' = Append(loads, l) /\ loads \in Seq(Load) /\ Len(loads) \in Nat
    BY LoadFacts DEF Send, PageInv, PageTypeOK
<1> HIDE DEF l
<1>3. /\ loads' \in Seq(Load) /\ Len(loads') = Len(loads) + 1
      /\ \A i \in 1..Len(loads) : loads'[i] = loads[i]
      /\ loads'[Len(loads) + 1] = l
    BY <1>1, <1>2, AppendProperties
<1>4. ASSUME NEW i \in DOMAIN loads' PROVE LoadOK(loads'[i])
    <2>1. i \in 1..(Len(loads) + 1)
        BY <1>3, LenProperties
    <2>2. CASE i \in 1..Len(loads)
        BY <1>3, <2>2, LoadFacts DEF PageInv, LoadsOK
    <2>3. CASE i = Len(loads) + 1
        BY <1>1, <1>3, <2>3
    <2> QED BY <1>2, <2>1, <2>2, <2>3
<1>5. \A k \in DOMAIN loads' : LoadOK(loads'[k]) 
    BY <1>4
<1>6. LoadsOK'
    BY <1>5, ServerRests DEF LoadsOK, LoadOK, Recent, Own
<1> QED BY <1>3, <1>6

\* A load gets on: another load, as good, stands in its place.
LEMMA LoadGetsOn ==
    ASSUME PageInv, UNCHANGED serverVars, NEW i \in DOMAIN loads,
           NEW l \in Load, LoadOK(l), loads' = [loads EXCEPT ![i] = l]
    PROVE  loads' \in Seq(Load) /\ LoadsOK'
<1>1. loads \in Seq(Load) /\ i \in 1..Len(loads)
    BY LoadFacts DEF PageInv, PageTypeOK
<1>2. /\ loads' \in Seq(Load) /\ Len(loads') = Len(loads)
      /\ \A j \in 1..Len(loads) : loads'[j] = IF j = i THEN l ELSE loads[j]
    BY <1>1, ExceptSeq
<1>3. \A j \in DOMAIN loads' : j \in DOMAIN loads /\ loads'[j] = IF j = i THEN l ELSE loads[j]
    BY <1>1, <1>2, LenProperties
<1>4. \A j \in DOMAIN loads' : LoadOK(loads'[j])
    BY <1>3 DEF PageInv, LoadsOK
<1>5. LoadsOK'
    BY <1>4, ServerRests DEF LoadsOK, LoadOK, Recent, Own
<1> QED BY <1>2, <1>5

\* A load ends.
LEMMA LoadEnds ==
    ASSUME PageInv, UNCHANGED serverVars, NEW i \in DOMAIN loads, loads' = RemoveAt(loads, i)
    PROVE  loads' \in Seq(Load) /\ LoadsOK'
<1>1. loads \in Seq(Load)
    BY DEF PageInv, PageTypeOK
<1>2. loads' \in Seq(Load)
    BY <1>1, RemoveAtKeeps
<1>3. \A k \in DOMAIN loads' : \E j \in DOMAIN loads : loads'[k] = loads[j]
    BY <1>1, OthersOnly
<1>4. \A k \in DOMAIN loads' : LoadOK(loads'[k])
    BY <1>3 DEF PageInv, LoadsOK
<1>5. LoadsOK'
    BY <1>4, ServerRests DEF LoadsOK, LoadOK, Recent, Own
<1> QED BY <1>2, <1>5
-----------------------------------------------------------------------------
\* Time passes: an entry and what is under it grow old together, and an entry
\* that would be too old is forgotten.
LEMMA TickInv == ASSUME PageInv, Tick PROVE PageInv'
<1> USE WarPageAssumption
<1>1. UNCHANGED <<rulings, Version, floor, raced, days, password, edit>>
    BY DEF Tick, historyVars, editVars, inputVars, Version
<1>2. /\ gone' \in [0..MaxEdits -> Nat]
      /\ \A v \in 0..MaxEdits : gone'[v] <= gone[v] + 1 /\ (v >= Version => gone'[v] = gone[v])
    <2>1. gone' = [v \in 0..MaxEdits |-> IF v < Version /\ gone[v] < MaxGone THEN gone[v] + 1 ELSE gone[v]]
        BY DEF Tick
    <2>2. gone \in [0..MaxEdits -> Nat] /\ Version \in 0..MaxEdits
        BY LoadFacts DEF PageInv, PageTypeOK
    <2> QED BY <2>1, <2>2
<1>3. ASSUME NEW p \in Procs, NEW d \in Ranges
      PROVE  \/ memo'[p][d] = None
             \/ /\ memo[p][d] # None /\ memo[p][d] \in Entry /\ memo[p][d].age + 1 < Memo
                /\ memo'[p][d] = [memo[p][d] EXCEPT !.age = @ + 1]
    <2>1. memo'[p][d] = IF memo[p][d] = None \/ memo[p][d].age >= Memo - 1 THEN None
                        ELSE [memo[p][d] EXCEPT !.age = @ + 1]
        BY DEF Tick
    <2>2. memo[p][d] \in Entry \union {None}
        BY DEF PageInv, PageTypeOK
    <2> QED BY <2>1, <2>2 DEF Entry
<1>4. ASSUME NEW p \in Procs, NEW d \in Ranges, memo'[p][d] # None
      PROVE  /\ memo[p][d] # None /\ memo[p][d] \in Entry
             /\ memo'[p][d] \in Entry /\ memo'[p][d].v = memo[p][d].v
             /\ memo'[p][d].age = memo[p][d].age + 1 /\ memo'[p][d].age < Memo
    <2> DEFINE e == memo[p][d]
    <2>1. e # None /\ e \in Entry /\ e.age + 1 < Memo /\ memo'[p][d] = [e EXCEPT !.age = @ + 1]
        BY <1>3, <1>4
    <2> HIDE DEF e
    <2>2. /\ [e EXCEPT !.age = @ + 1] \in Entry
          /\ [e EXCEPT !.age = @ + 1].v = e.v /\ [e EXCEPT !.age = @ + 1].age = e.age + 1
        BY <2>1 DEF Entry
    <2> QED BY <2>1, <2>2 DEF e
<1>5. memo' \in [Procs -> [Ranges -> Entry \union {None}]]
    <2>1. \A p \in Procs, d \in Ranges : memo'[p][d] \in Entry \union {None}
        BY <1>4
    <2> QED BY <2>1 DEF Tick
<1>6. EntriesOK'
    <2> SUFFICES ASSUME NEW p \in Procs, NEW d \in Ranges, memo'[p][d] # None
                 PROVE  /\ memo'[p][d].age < Memo /\ memo'[p][d].v <= Version
                        /\ gone'[memo'[p][d].v] <= memo'[p][d].age /\ Own(p, memo[p][d].v)'
        BY <1>1 DEF EntriesOK, Recent
    <2>1. memo[p][d].v <= Version /\ gone[memo[p][d].v] <= memo[p][d].age /\ Own(p, memo[p][d].v)
        BY <1>4 DEF PageInv, EntriesOK, Recent
    <2>2. memo[p][d].v \in 0..MaxEdits /\ memo[p][d].age \in Nat
        BY <1>4, <2>1, LoadFacts DEF PageInv, Entry
    <2>3. gone'[memo[p][d].v] \in Nat /\ gone[memo[p][d].v] \in Nat
        BY <1>2, <2>2 DEF PageInv, PageTypeOK
    <2>4. memo'[p][d].v = memo[p][d].v /\ memo'[p][d].age = memo[p][d].age + 1 /\ memo'[p][d].age < Memo
        BY <1>4
    <2>5. gone'[memo[p][d].v] <= gone[memo[p][d].v] + 1
        BY <1>2, <2>2
    <2>6. gone'[memo[p][d].v] <= memo[p][d].age + 1
        BY <2>1, <2>2, <2>3, <2>5
    <2>7. Own(p, memo[p][d].v)'
        BY <1>1, <2>1, <2>4 DEF Own
    <2> QED BY <2>1, <2>4, <2>6, <2>7
<1>7. loads' = [i \in DOMAIN loads |-> IF loads[i].read = None THEN loads[i]
                                       ELSE [loads[i] EXCEPT !.read.age = @ + 1]]
    BY DEF Tick
<1>8. ASSUME NEW i \in DOMAIN loads PROVE loads'[i] \in Load /\ LoadOK(loads[i])'
    <2>1. loads[i] \in Load /\ LoadOK(loads[i])
        BY LoadFacts DEF PageInv, LoadsOK
    <2>2. CASE loads[i].read = None
        BY <1>1, <1>7, <2>1, <2>2 DEF LoadOK
    <2>3. CASE loads[i].read # None
        <3>1. loads[i].read \in Read /\ loads[i].read.age < MaxRead
            BY <2>1, <2>3 DEF Load, Tick
        <3> DEFINE r == [loads[i].read EXCEPT !.age = @ + 1]
        <3>2. r \in Read /\ r.proc = loads[i].read.proc /\ r.v = loads[i].read.v
              /\ r.age = loads[i].read.age + 1 /\ r.age <= MaxRead
            BY <3>1 DEF Read
        <3>3. loads'[i] = [loads[i] EXCEPT !.read = r]
            BY <1>7, <2>3
        <3>4. loads'[i] \in Load /\ loads'[i].read = r /\ loads'[i].sums = loads[i].sums
            BY <2>1, <3>2, <3>3 DEF Load
        <3>5. Recent(loads[i].read.v, loads[i].read.age) /\ Own(r.proc, r.v)
            BY <2>1, <2>3, <3>2 DEF LoadOK
        <3>6. r.v \in 0..MaxEdits /\ gone'[r.v] \in Nat /\ gone[r.v] \in Nat
            <4>1. r.v \in 0..MaxEdits
                BY <3>1, <3>2, <3>5, LoadFacts DEF PageInv, Recent, Read
            <4> QED BY <1>2, <4>1 DEF PageInv, PageTypeOK
        <3>7. gone'[r.v] <= r.age /\ r.v <= Version'
            BY <1>1, <1>2, <3>1, <3>2, <3>5, <3>6 DEF Recent, Read
        <3> HIDE DEF r
        <3> QED BY <1>1, <2>1, <3>2, <3>4, <3>5, <3>7 DEF LoadOK, Recent, Own
    <2> QED BY <2>2, <2>3
<1>9. loads' \in Seq(Load) /\ DOMAIN loads' = DOMAIN loads
    <2>1. \A i \in 1..Len(loads) : loads'[i] \in Load
        BY <1>8, LoadFacts DEF PageInv
    <2>2. loads' \in [1..Len(loads) -> Load] /\ Len(loads) \in Nat /\ DOMAIN loads = 1..Len(loads)
        BY <1>7, <2>1, LoadFacts DEF PageInv
    <2> QED BY <2>2, SeqDef
<1>10. LoadsOK'
    BY <1>8, <1>9 DEF LoadsOK, LoadOK, Recent, Own
<1>11. PresentOK'
    BY <1>1, <1>2 DEF PageInv, PresentOK
<1> QED BY <1>1, <1>2, <1>5, <1>6, <1>9, <1>10, <1>11 DEF PageInv, PageTypeOK

\* Whatever is done on the page alone: the server rests, and the loads do
\* what they may.
LEMMA PageAlone ==
    ASSUME PageInv, UNCHANGED serverVars, loads' \in Seq(Load), LoadsOK',
           days' \in Ranges, password' \in Words, edit' \in Edit \union {None},
           edit' # None /\ edit'.at = "sent" => Version < MaxEdits
    PROVE  PageInv'
BY ServerRests DEF PageInv, PageTypeOK

\* The answers of the list, the clicks, and the loads they send.
LEMMA SendsInv ==
    ASSUME PageInv,
           \/ Refresh \/ EditShown \/ EditFails \/ PollFeed
           \/ \E r \in {"listed", "none", "failed"} : WarsAnswer(r)
           \/ \E d \in Ranges : ChooseRange(d)
           \/ \E w \in Passwords : TypePassword(w)
           \/ \E r \in Sides \union {"undone"} : BeginEdit(r)
           \/ \E f \in Filters : ChooseFilter(f)
           \/ \E i \in DOMAIN feeds : FeedAnswers(i) \/ FeedFails(i)
    PROVE  PageInv'
<1> USE DEF loadVars, editVars, feedVars, inputVars
<1>1. /\ loads \in Seq(Load) /\ days \in Ranges /\ password \in Words /\ edit \in Edit \union {None}
      /\ edit # None /\ edit.at = "sent" => Version < MaxEdits
    BY DEF PageInv, PageTypeOK
<1>2. CASE Refresh
    <2>1. Send(days, FALSE) /\ UNCHANGED <<serverVars, days, password, edit>>
        BY <1>2 DEF Refresh
    <2>2. loads' \in Seq(Load) /\ LoadsOK'
        BY <1>1, <2>1, LoadSent
    <2> QED BY <1>1, <2>1, <2>2, PageAlone
<1>3. CASE EditShown
    <2>1. Send(edit.days, TRUE) /\ UNCHANGED <<serverVars, days, password>> /\ edit # None /\ edit' = None
        BY <1>3 DEF EditShown
    <2>2. edit.days \in Ranges
        BY <1>1, <2>1 DEF Edit
    <2>3. loads' \in Seq(Load) /\ LoadsOK'
        BY <2>1, <2>2, LoadSent
    <2> QED BY <1>1, <2>1, <2>3, PageAlone
<1>4. CASE EditFails
    BY <1>1, <1>4, LoadsRest, PageAlone DEF EditFails
<1>5. CASE PollFeed
    BY <1>1, <1>5, LoadsRest, PageAlone DEF PollFeed
<1>6. ASSUME NEW r \in {"listed", "none", "failed"}, WarsAnswer(r) PROVE PageInv'
    <2>1. UNCHANGED <<serverVars, days, password, edit>>
        BY <1>6 DEF WarsAnswer
    <2>2. CASE Send(days, FALSE)
        BY <1>1, <2>1, <2>2, LoadSent, PageAlone
    <2>3. CASE UNCHANGED loads
        BY <1>1, <2>1, <2>3, LoadsRest, PageAlone
    <2> QED BY <1>6, <2>2, <2>3 DEF WarsAnswer
<1>7. ASSUME NEW d \in Ranges, ChooseRange(d) PROVE PageInv'
    <2>1. Send(d, FALSE) /\ UNCHANGED <<serverVars, password, edit>> /\ days' = d
        BY <1>7 DEF ChooseRange
    <2>2. loads' \in Seq(Load) /\ LoadsOK'
        BY <2>1, LoadSent
    <2> QED BY <1>1, <2>1, <2>2, PageAlone
<1>8. ASSUME NEW w \in Passwords, TypePassword(w) PROVE PageInv'
    BY <1>1, <1>8, LoadsRest, PageAlone DEF TypePassword, Words
<1>9. ASSUME NEW r \in Ruling, BeginEdit(r) PROVE PageInv'
    <2>1. UNCHANGED <<serverVars, loads, days, password>> /\ Version < MaxEdits
        BY <1>9 DEF BeginEdit
    <2>2. edit' = [ruling |-> r, password |-> password, days |-> days, at |-> "sent"]
        BY <1>9 DEF BeginEdit
    <2>3. edit' \in Edit
        BY <1>1, <2>2 DEF Edit
    <2> QED BY <1>1, <2>1, <2>3, LoadsRest, PageAlone
<1>10. ASSUME NEW f \in Filters, ChooseFilter(f) PROVE PageInv'
    BY <1>1, <1>10, LoadsRest, PageAlone DEF ChooseFilter
<1>11. ASSUME NEW i \in DOMAIN feeds, FeedAnswers(i) \/ FeedFails(i) PROVE PageInv'
    BY <1>1, <1>11, LoadsRest, PageAlone DEF FeedAnswers, FeedFails
<1> QED BY <1>2, <1>3, <1>4, <1>5, <1>6, <1>7, <1>8, <1>9, <1>10, <1>11 DEF Ruling

\* A lookup: a hit serves an entry, which is recent enough; a miss reads the
\* present version.
LEMMA LookupInv == ASSUME PageInv, NEW i \in DOMAIN loads, NEW p \in Procs, Lookup(i, p) PROVE PageInv'
<1> USE WarPageAssumption DEF loadVars, editVars, feedVars, inputVars
<1> DEFINE hit == memo[p][loads[i].days]
<1>1. UNCHANGED <<serverVars, days, password, edit>>
    BY DEF Lookup
<1>2. loads[i] \in Load /\ LoadOK(loads[i]) /\ loads[i].days \in Ranges /\ loads[i].read = None
    BY LoadFacts DEF PageInv, LoadsOK, Load, Lookup
<1>3. Version \in 0..MaxEdits /\ gone[Version] = 0 /\ floor[p] <= Version
    BY LoadFacts DEF PageInv, PresentOK
<1>4. CASE hit = None
    <2> DEFINE r == [proc |-> p, v |-> Version, age |-> 0]
               l == [loads[i] EXCEPT !.read = r]
    <2>1. loads' = [loads EXCEPT ![i] = l]
        BY <1>4 DEF Lookup
    <2>2. r \in Read /\ r.proc = p /\ r.v = Version /\ r.age = 0
        BY <1>3 DEF Read
    <2> HIDE DEF r
    <2>3. l \in Load /\ l.read = r /\ l.sums = loads[i].sums
        BY <1>2, <2>2 DEF Load
    <2>4. LoadOK(l)
        BY <1>2, <1>3, <2>2, <2>3 DEF LoadOK, Recent, Own
    <2> HIDE DEF l
    <2>5. loads' \in Seq(Load) /\ LoadsOK'
        BY <1>1, <2>1, <2>3, <2>4, LoadGetsOn
    <2> QED BY <1>1, <2>5, PageAlone DEF PageInv, PageTypeOK
<1>5. CASE hit # None
    <2> DEFINE s == [v |-> hit.v, stale |-> gone[hit.v]]
               l == [loads[i] EXCEPT !.sums = s]
    <2>1. loads' = [loads EXCEPT ![i] = l]
        BY <1>5 DEF Lookup
    <2>2. hit \in Entry /\ hit.age < Memo /\ hit.v <= Version /\ gone[hit.v] <= hit.age
        BY <1>2, <1>5 DEF PageInv, PageTypeOK, EntriesOK, Recent
    <2>3. hit.v \in 0..MaxEdits /\ hit.age \in Nat
        BY <1>3, <2>2 DEF Entry
    <2>4. gone[hit.v] \in Nat
        BY <2>3 DEF PageInv, PageTypeOK
    <2> HIDE DEF hit
    <2>5. s \in Sums /\ s.stale < Memo
        BY <2>2, <2>3, <2>4 DEF Sums
    <2> HIDE DEF s
    <2>6. l \in Load /\ l.read = None /\ l.sums = s
        BY <1>2, <2>5 DEF Load
    <2>7. LoadOK(l)
        BY <2>5, <2>6 DEF LoadOK
    <2> HIDE DEF l
    <2>8. loads' \in Seq(Load) /\ LoadsOK'
        BY <1>1, <2>1, <2>6, <2>7, LoadGetsOn
    <2> QED BY <1>1, <2>8, PageAlone DEF PageInv, PageTypeOK
<1> QED BY <1>4, <1>5

\* A read that is done becomes an entry as old as the read, if that is young
\* enough; what it serves has been superseded for no longer.
LEMMA ComputedInv == ASSUME PageInv, NEW i \in DOMAIN loads, Computed(i) PROVE PageInv'
<1> USE WarPageAssumption DEF loadVars, editVars, feedVars, inputVars
<1> DEFINE r == loads[i].read
           s == [v |-> r.v, stale |-> gone[r.v]]
           l == [loads[i] EXCEPT !.read = None, !.sums = s]
           e == IF r.age < Memo THEN [age |-> r.age, v |-> r.v] ELSE None
<1>1. /\ UNCHANGED <<rulings, gone, floor, raced, Version, days, password, edit>>
      /\ r # None /\ memo' = [memo EXCEPT ![r.proc][loads[i].days] = e]
      /\ loads' = [loads EXCEPT ![i].read = None, ![i].sums = s]
    BY DEF Computed, historyVars, Version
<1>2. loads[i] \in Load /\ LoadOK(loads[i]) /\ loads[i].days \in Ranges
    BY LoadFacts DEF PageInv, LoadsOK, Load
<1>3. /\ r \in Read /\ r.proc \in Procs /\ r.v \in Nat /\ r.age \in Nat /\ r.age <= MaxRead
      /\ Recent(r.v, r.age) /\ Own(r.proc, r.v)
    BY <1>1, <1>2 DEF Load, LoadOK, Read
<1>4. r.v \in 0..MaxEdits /\ gone[r.v] \in Nat /\ gone[r.v] <= r.age
    <2>1. r.v \in 0..MaxEdits
        BY <1>3, LoadFacts DEF PageInv, Recent
    <2> QED BY <1>3, <2>1 DEF PageInv, PageTypeOK, Recent
<1>5. s \in Sums /\ s.stale <= MaxRead
    BY <1>3, <1>4 DEF Sums
<1>6. e \in Entry \union {None} /\ (e # None => e.age = r.age /\ e.v = r.v /\ r.age < Memo)
    BY <1>3 DEF Entry
<1>7. loads' = [loads EXCEPT ![i] = l]
    <2>1. loads' = [[loads EXCEPT ![i].read = None] EXCEPT ![i].sums = s]
        BY <1>1
    <2> QED BY <2>1, LoadFacts DEF PageInv
<1>8. l \in Load /\ l.read = None /\ l.sums = s
    BY <1>2, <1>5 DEF Load
<1> HIDE DEF r, s, l, e
<1>9. LoadOK(l)
    BY <1>5, <1>8 DEF LoadOK
<1>10. /\ memo' \in [Procs -> [Ranges -> Entry \union {None}]]
       /\ \A p \in Procs, d \in Ranges :
             memo'[p][d] = IF p = r.proc /\ d = loads[i].days THEN e ELSE memo[p][d]
    BY <1>1, <1>2, <1>3, <1>6 DEF PageInv, PageTypeOK
<1>11. EntriesOK'
    <2> SUFFICES ASSUME NEW p \in Procs, NEW d \in Ranges, memo'[p][d] # None
                 PROVE  /\ memo'[p][d].age < Memo
                        /\ Recent(memo[p][d].v, memo[p][d].age)' /\ Own(p, memo[p][d].v)'
        BY DEF EntriesOK, Recent, Own
    <2>1. CASE p = r.proc /\ d = loads[i].days
        BY <1>1, <1>3, <1>6, <1>10, <2>1 DEF Recent, Own
    <2>2. CASE ~(p = r.proc /\ d = loads[i].days)
        BY <1>1, <1>10, <2>2 DEF PageInv, EntriesOK, Recent, Own
    <2> QED BY <2>1, <2>2
<1>12. loads' \in Seq(Load) /\ LoadsOK'
    <2>1. loads \in Seq(Load) /\ i \in 1..Len(loads)
        BY LoadFacts DEF PageInv, PageTypeOK
    <2>2. /\ loads' \in Seq(Load) /\ Len(loads') = Len(loads)
          /\ \A j \in 1..Len(loads) : loads'[j] = IF j = i THEN l ELSE loads[j]
        BY <1>7, <1>8, <2>1, ExceptSeq
    <2>3. \A j \in DOMAIN loads' : j \in DOMAIN loads /\ loads'[j] = IF j = i THEN l ELSE loads[j]
        BY <2>1, <2>2, LenProperties
    <2>4. \A j \in DOMAIN loads' : LoadOK(loads'[j])
        BY <1>9, <2>3 DEF PageInv, LoadsOK
    <2> QED BY <1>1, <2>2, <2>4 DEF LoadsOK, LoadOK, Recent, Own
<1>13. PresentOK'
    BY <1>1 DEF PageInv, PresentOK
<1> QED BY <1>1, <1>10, <1>11, <1>12, <1>13 DEF PageInv, PageTypeOK

\* The fresh aggregates, failures, and what is shown at last.
LEMMA AnswersInv ==
    ASSUME PageInv, NEW i \in DOMAIN loads, ServeRoster(i) \/ ReadFails(i) \/ ShowLoad(i)
    PROVE  PageInv'
<1> USE DEF loadVars, editVars, feedVars, inputVars
<1>1. UNCHANGED <<serverVars, days, password, edit>>
    BY DEF ServeRoster, ReadFails, ShowLoad
<1>2. /\ loads[i] \in Load /\ LoadOK(loads[i]) /\ Version \in Int
      /\ days \in Ranges /\ password \in Words /\ edit \in Edit \union {None}
      /\ edit # None /\ edit.at = "sent" => Version < MaxEdits
    BY LoadFacts DEF PageInv, PageTypeOK, LoadsOK
<1>3. ASSUME NEW l \in Load, LoadOK(l), loads' = [loads EXCEPT ![i] = l] PROVE PageInv'
    BY <1>1, <1>2, <1>3, LoadGetsOn, PageAlone
<1>4. CASE loads' = [loads EXCEPT ![i].roster = Version] \/ loads' = [loads EXCEPT ![i].roster = -1]
    <2>1. PICK n \in Int : loads' = [loads EXCEPT ![i] = [loads[i] EXCEPT !.roster = n]]
        BY <1>2, <1>4
    <2> DEFINE l == [loads[i] EXCEPT !.roster = n]
    <2>2. l \in Load /\ l.read = loads[i].read /\ l.sums = loads[i].sums
        BY <1>2 DEF Load
    <2>3. LoadOK(l)
        BY <1>2, <2>2 DEF LoadOK
    <2> QED BY <1>3, <2>1, <2>2, <2>3
<1>5. CASE loads' = [loads EXCEPT ![i].sums = [v |-> -1, stale |-> 0], ![i].read = None]
    <2> DEFINE s == [v |-> -1, stale |-> 0]
               l == [loads[i] EXCEPT !.sums = s, !.read = None]
    <2>1. loads' = [[loads EXCEPT ![i].sums = s] EXCEPT ![i].read = None]
        BY <1>5
    <2>2. loads' = [loads EXCEPT ![i] = l]
        BY <2>1, LoadFacts DEF PageInv
    <2>3. s \in Sums /\ s.stale = 0
        BY DEF Sums
    <2> HIDE DEF s
    <2>4. l \in Load /\ l.read = None /\ l.sums = s
        BY <1>2, <2>3 DEF Load
    <2>5. LoadOK(l)
        BY <2>3, <2>4, WarPageAssumption DEF LoadOK
    <2> QED BY <1>3, <2>2, <2>4, <2>5
<1>6. CASE loads' = RemoveAt(loads, i)
    BY <1>1, <1>2, <1>6, LoadEnds, PageAlone
<1> QED BY <1>4, <1>5, <1>6 DEF ServeRoster, ReadFails, ShowLoad

\* An override is written: there is a new present version, which nobody has
\* seen, and what is held becomes one version older.
LEMMA CommitEditInv == ASSUME PageInv, NEW p \in Procs, CommitEdit(p) PROVE PageInv'
<1> USE WarPageAssumption DEF loadVars, feedVars, inputVars, historyVars
<1>1. /\ UNCHANGED <<gone, memo, floor, raced, days, password, loads>>
      /\ edit # None /\ edit.at = "sent" /\ rulings' = Append(rulings, edit.ruling)
      /\ edit' = [edit EXCEPT !.at = p]
    BY DEF CommitEdit
<1>2. edit \in Edit /\ edit.ruling \in Ruling /\ Version < MaxEdits
    BY <1>1 DEF PageInv, PageTypeOK, Edit
<1>3. rulings' \in Seq(Ruling) /\ Version' = Version + 1 /\ Version \in Nat /\ Version' <= MaxEdits
    <2>1. rulings \in Seq(Ruling) /\ Version \in 0..MaxEdits
        BY LoadFacts DEF PageInv, PageTypeOK
    <2> QED BY <1>1, <1>2, <2>1, AppendProperties DEF Version
<1>4. edit' \in Edit /\ edit'.at = p /\ p # "sent"
    BY <1>1, <1>2 DEF Edit
<1>5. EntriesOK'
    <2>1. \A p0 \in Procs, d \in Ranges : memo[p0][d] # None => memo[p0][d].v \in Nat
        BY DEF PageInv, PageTypeOK, Entry
    <2> QED BY <1>1, <1>3, <2>1 DEF PageInv, EntriesOK, Recent, Own
<1>6. LoadsOK'
    <2>1. \A i \in DOMAIN loads : loads[i].read # None => loads[i].read.v \in Nat
        BY LoadFacts DEF PageInv, Load, Read
    <2> QED BY <1>1, <1>3, <2>1 DEF PageInv, LoadsOK, LoadOK, Recent, Own
<1>7. PresentOK'
    <2>1. \A p0 \in Procs : floor[p0] \in Nat
        BY DEF PageInv, PageTypeOK
    <2> QED BY <1>1, <1>3, <2>1 DEF PageInv, PresentOK
<1> QED BY <1>1, <1>3, <1>4, <1>5, <1>6, <1>7 DEF PageInv, PageTypeOK

\* The process that served an edit forgets its memo: it holds nothing but what
\* it is reading, and if it is reading it is raced.
LEMMA EndEditInv == ASSUME PageInv, NEW p \in Procs, EndEdit(p) PROVE PageInv'
<1> USE WarPageAssumption DEF loadVars, feedVars, inputVars
<1>1. /\ UNCHANGED <<rulings, gone, days, password, loads, Version>>
      /\ edit # None /\ edit' = [edit EXCEPT !.at = "done"]
      /\ memo' = [memo EXCEPT ![p] = [d \in Ranges |-> None]]
      /\ floor' = [floor EXCEPT ![p] = Version]
      /\ raced' = [raced EXCEPT ![p] =
                     @ \/ \E i \in DOMAIN loads : loads[i].read # None /\ loads[i].read.proc = p]
    BY DEF EndEdit, Cleared, Version
<1>2. Version \in 0..MaxEdits
    BY LoadFacts DEF PageInv
<1>3. /\ memo' \in [Procs -> [Ranges -> Entry \union {None}]]
      /\ \A q \in Procs, d \in Ranges : memo'[q][d] = IF q = p THEN None ELSE memo[q][d]
    BY <1>1 DEF PageInv, PageTypeOK
<1>4. /\ floor' \in [Procs -> Nat]
      /\ \A q \in Procs : floor'[q] = IF q = p THEN Version ELSE floor[q]
    BY <1>1, <1>2 DEF PageInv, PageTypeOK
<1>5. /\ raced' \in [Procs -> BOOLEAN]
      /\ \A q \in Procs : q # p => raced'[q] = raced[q]
      /\ ~raced'[p] => \A i \in DOMAIN loads : ~(loads[i].read # None /\ loads[i].read.proc = p)
    <2> DEFINE R == raced[p] \/ \E i \in DOMAIN loads : loads[i].read # None /\ loads[i].read.proc = p
    <2>1. R \in BOOLEAN /\ raced' = [raced EXCEPT ![p] = R]
        BY <1>1
    <2> HIDE DEF R
    <2>2. raced' \in [Procs -> BOOLEAN] /\ raced'[p] = R /\ \A q \in Procs : q # p => raced'[q] = raced[q]
        BY <2>1 DEF PageInv, PageTypeOK
    <2> QED BY <2>2 DEF R
<1>6. edit' \in Edit /\ edit'.at = "done"
    BY <1>1 DEF PageInv, PageTypeOK, Edit
<1>7. EntriesOK'
    BY <1>1, <1>3, <1>4, <1>5 DEF PageInv, EntriesOK, Recent, Own
<1>8. ASSUME NEW i \in DOMAIN loads PROVE LoadOK(loads[i])'
    <2>1. loads[i] \in Load /\ LoadOK(loads[i])
        BY LoadFacts DEF PageInv, LoadsOK
    <2>2. loads[i].read # None => loads[i].read.proc \in Procs
        BY <2>1 DEF Load, Read
    <2> QED BY <1>1, <1>4, <1>5, <2>1, <2>2 DEF LoadOK, Recent, Own
<1>9. LoadsOK'
    BY <1>1, <1>8 DEF LoadsOK, LoadOK, Recent, Own
<1>10. PresentOK'
    BY <1>1, <1>2, <1>4 DEF PageInv, PresentOK
<1> QED BY <1>1, <1>3, <1>4, <1>5, <1>6, <1>7, <1>9, <1>10 DEF PageInv, PageTypeOK

\* The page opens: nothing is held, and nothing has been edited.
LEMMA WarInitInv == WarInit => PageInv
<1> SUFFICES ASSUME WarInit PROVE PageInv
    OBVIOUS
<1> USE WarPageAssumption
<1>1. Version = 0
    BY DEF WarInit, Version
<1>2. rulings \in Seq(Ruling) /\ loads \in Seq(Load) /\ DOMAIN loads = {}
    <2>1. rulings = <<>> /\ loads = <<>>
        BY DEF WarInit
    <2>2. rulings \in Seq(Ruling) /\ loads \in Seq(Load) /\ Len(loads) = 0
        BY <2>1, EmptySeq
    <2> QED BY <2>2, LenProperties
<1>3. gone \in [0..MaxEdits -> Nat] /\ \A v \in 0..MaxEdits : gone[v] = 0
    BY DEF WarInit
<1>4. /\ memo \in [Procs -> [Ranges -> Entry \union {None}]]
      /\ \A p \in Procs, d \in Ranges : memo[p][d] = None
    BY DEF WarInit
<1>5. floor \in [Procs -> Nat] /\ \A p \in Procs : floor[p] = 0
    BY DEF WarInit
<1>6. raced \in [Procs -> BOOLEAN]
    BY DEF WarInit
<1>7. days \in Ranges /\ password \in Words /\ edit = None
    BY DEF WarInit, Words
<1>8. PageTypeOK
    BY <1>1, <1>2, <1>3, <1>4, <1>5, <1>6, <1>7 DEF PageTypeOK
<1>9. EntriesOK /\ LoadsOK
    BY <1>2, <1>4 DEF EntriesOK, LoadsOK
<1>10. PresentOK
    BY <1>1, <1>3, <1>5 DEF PresentOK
<1> QED BY <1>8, <1>9, <1>10 DEF PageInv

\* Every step keeps the invariant.
LEMMA WarNextInv == PageInv /\ [WarNext]_vars => PageInv'
<1> SUFFICES ASSUME PageInv, [WarNext]_vars PROVE PageInv'
    OBVIOUS
<1>1. CASE Tick
    BY <1>1, TickInv
<1>2. ASSUME NEW i \in DOMAIN loads, ServeRoster(i) \/ ReadFails(i) \/ ShowLoad(i) PROVE PageInv'
    BY <1>2, AnswersInv
<1>3. ASSUME NEW i \in DOMAIN loads, Computed(i) PROVE PageInv'
    BY <1>3, ComputedInv
<1>4. ASSUME NEW i \in DOMAIN loads, NEW p \in Procs, Lookup(i, p) PROVE PageInv'
    BY <1>4, LookupInv
<1>5. ASSUME NEW p \in Procs, CommitEdit(p) \/ EndEdit(p) PROVE PageInv'
    BY <1>5, CommitEditInv, EndEditInv
<1>6. CASE UNCHANGED vars
    <2>1. UNCHANGED <<serverVars, loads, days, password, edit>>
        BY <1>6 DEF vars, loadVars, editVars, inputVars
    <2> QED BY <2>1, LoadsRest, PageAlone DEF PageInv, PageTypeOK
<1> QED BY <1>1, <1>2, <1>3, <1>4, <1>5, <1>6, SendsInv DEF WarNext
-----------------------------------------------------------------------------
LEMMA PageAlways == WarSpec => []PageInv
BY WarInitInv, WarNextInv, PTL DEF WarSpec

\* Wherever an aggregate comes from, the roster under it was in force less
\* than the life of an entry, or the time of one read, before.
THEOREM ServedStaysRecent == WarSpec => []ServedRecent
<1>1. PageInv => ServedRecent
    BY DEF PageInv, LoadsOK, LoadOK, ServedRecent
<1> QED BY <1>1, PageAlways, PTL

\* A process that served an edit holds nothing older, unless a read raced its
\* forgetting.
THEOREM OwnEditIsSeen == WarSpec => []OwnEditSeen
<1>1. PageInv => OwnEditSeen
    BY DEF PageInv, EntriesOK, Own, OwnEditSeen
<1> QED BY <1>1, PageAlways, PTL
=============================================================================
