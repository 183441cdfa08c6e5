--------------------------- MODULE Access_proofs ---------------------------
(***************************************************************************)
(* The pages that depend on who is looking, for any boards, passwords and  *)
(* bounds: nothing half typed is tried, what is remembered works, and what *)
(* a visitor is told about a report is never the answer of a load that was *)
(* left behind.  The first needs to know what the usage page asks with,    *)
(* the last that an answer taken off the list leaves the others on it.     *)
(***************************************************************************)
EXTENDS Access, SequenceTheorems, TLAPS

\* Taking an element off a sequence keeps the others, in their order.
LEMMA RemoveAtKeeps ==
    ASSUME NEW S, NEW s \in Seq(S), NEW i \in DOMAIN s
    PROVE  /\ RemoveAt(s, i) \in Seq(S)
           /\ Len(RemoveAt(s, i)) = Len(s) - 1
           /\ \A j \in DOMAIN s : j < i => RemoveAt(s, i)[j] = s[j]
           /\ \A j \in DOMAIN s : j > i => RemoveAt(s, i)[j - 1] = s[j]
<1> DEFINE front == SubSeq(s, 1, i - 1)
            back == SubSeq(s, i + 1, Len(s))
<1>1. Len(s) \in Nat /\ DOMAIN s = 1..Len(s) /\ i \in 1..Len(s)
    BY LenProperties
<1>2. \A j \in 1..Len(s) : s[j] \in S
    BY ElementOfSeq
<1>3. /\ front \in Seq(S) /\ Len(front) = i - 1
      /\ \A j \in 1..(i - 1) : front[j] = s[j]
    <2>1. 1 \in Int /\ i - 1 \in Int /\ \A j \in 1..(i - 1) : s[j] \in S
        BY <1>1, <1>2
    <2> QED BY <1>1, <2>1, SubSeqProperties
<1>4. /\ back \in Seq(S) /\ Len(back) = Len(s) - i
      /\ \A j \in 1..(Len(s) - i) : back[j] = s[i + j]
    <2>1. i + 1 \in Int /\ Len(s) \in Int /\ \A j \in (i + 1)..Len(s) : s[j] \in S
        BY <1>1, <1>2
    <2>2. /\ back \in Seq(S)
          /\ Len(back) = IF i + 1 <= Len(s) THEN Len(s) - (i + 1) + 1 ELSE 0
          /\ \A j \in 1..(Len(s) - (i + 1) + 1) : back[j] = s[(i + 1) + j - 1]
        BY <2>1, SubSeqProperties
    <2> HIDE DEF back
    <2>3. Len(back) = Len(s) - i
        BY <1>1, <2>2
    <2>4. ASSUME NEW j \in 1..(Len(s) - i) PROVE back[j] = s[i + j]
        <3>1. j \in 1..(Len(s) - (i + 1) + 1) /\ (i + 1) + j - 1 = i + j
            BY <1>1
        <3> QED BY <2>2, <3>1
    <2> QED BY <2>2, <2>3, <2>4
<1>5. RemoveAt(s, i) = front \o back
    BY DEF RemoveAt
<1> HIDE DEF front, back
<1>6. /\ front \o back \in Seq(S) /\ Len(front \o back) = Len(front) + Len(back)
      /\ \A j \in 1..(Len(front) + Len(back)) :
            (front \o back)[j] = IF j <= Len(front) THEN front[j] ELSE back[j - Len(front)]
    BY <1>3, <1>4, ConcatProperties
<1>7. RemoveAt(s, i) \in Seq(S) /\ Len(RemoveAt(s, i)) = Len(s) - 1
    BY <1>1, <1>3, <1>4, <1>5, <1>6
<1>8. ASSUME NEW j \in DOMAIN s, j < i PROVE RemoveAt(s, i)[j] = s[j]
    <2>1. j \in 1..(i - 1)
        BY <1>1, <1>8
    <2>2. j \in 1..(Len(front) + Len(back)) /\ j <= Len(front)
        BY <1>1, <1>3, <1>4, <2>1
    <2>3. (front \o back)[j] = front[j]
        BY <1>6, <2>2
    <2> QED BY <1>3, <1>5, <2>1, <2>3
<1>9. ASSUME NEW j \in DOMAIN s, j > i PROVE RemoveAt(s, i)[j - 1] = s[j]
    <2>1. i \in Nat /\ j \in Nat /\ Len(s) \in Nat /\ 1 <= i /\ i < j /\ j <= Len(s)
        BY <1>1, <1>9
    <2>2. Len(front) = i - 1 /\ Len(back) = Len(s) - i
        BY <1>3, <1>4
    <2>3. PICK a \in Nat, b \in Nat : a = Len(front) /\ b = Len(back) /\ a = i - 1 /\ b = Len(s) - i
        BY <2>1, <2>2
    <2>4. j - 1 \in 1..(a + b) /\ ~(j - 1 <= a)
        BY <2>1, <2>3
    <2>5. (front \o back)[j - 1] = back[(j - 1) - Len(front)]
        BY <1>6, <2>3, <2>4
    <2>6. PICK h \in 1..(Len(s) - i) : h = (j - 1) - a /\ i + h = j
        <3>1. 1 <= (j - 1) - a /\ (j - 1) - a <= Len(s) - i /\ (j - 1) - a \in Int
            BY <2>1, <2>3
        <3>2. i + ((j - 1) - a) = j
            BY <2>1, <2>3
        <3>3. (j - 1) - a \in 1..(Len(s) - i)
            BY <2>1, <3>1
        <3> QED BY <3>2, <3>3
    <2>7. back[h] = s[j]
        BY <1>4, <2>6
    <2> QED BY <1>5, <2>3, <2>5, <2>6, <2>7
<1> QED BY <1>7, <1>8, <1>9

\* So whatever was on the list and was not taken off is still on it.
LEMMA OthersStay ==
    ASSUME NEW S, NEW s \in Seq(S), NEW i \in DOMAIN s, NEW j \in DOMAIN s, j # i
    PROVE  \E k \in DOMAIN RemoveAt(s, i) : RemoveAt(s, i)[k] = s[j]
<1>1. /\ RemoveAt(s, i) \in Seq(S) /\ Len(RemoveAt(s, i)) = Len(s) - 1
      /\ j < i => RemoveAt(s, i)[j] = s[j]
      /\ j > i => RemoveAt(s, i)[j - 1] = s[j]
    BY RemoveAtKeeps
<1>2. i \in 1..Len(s) /\ j \in 1..Len(s) /\ Len(s) \in Nat
    OBVIOUS
<1>3. CASE j < i
    <2>1. j \in DOMAIN RemoveAt(s, i)
        BY <1>1, <1>2, <1>3
    <2> QED BY <1>1, <1>3, <2>1
<1>4. CASE j > i
    <2>1. j - 1 \in DOMAIN RemoveAt(s, i)
        BY <1>1, <1>2, <1>4
    <2> QED BY <1>1, <1>4, <2>1
<1> QED BY <1>2, <1>3, <1>4
-----------------------------------------------------------------------------
\* What the usage page asks with was submitted or remembered, and so was
\* whatever it has asked with.
GivenInv == wire \subseteq submitted /\ spent \subseteq given /\ credential \in given \union {""}

\* A step of the boards leaves the usage page alone, and sends only what it
\* notes as submitted.
LEMMA BoardsWire ==
    ASSUME wire \subseteq submitted, BoardsNext
    PROVE  wire' \subseteq submitted'
<1> USE DEF historyVars
<1>1. PICK b \in Boards :
        \/ \E i \in DOMAIN asks[b] : \E a \in {asks[b][i], "failed"} : a # "sent" /\ HearWho(b, i, a)
        \/ LogoutSession(b) \/ ReadRows(b) \/ ToggleForm(b) \/ Submit(b) \/ Logout(b) \/ FillIn(b)
        \/ \E w \in {""} \union Passwords : Type(b, w)
        \/ \E i \in DOMAIN board[b].checks : \E r \in {"ok", "invalid", "locked", "error"} : Checked(b, i, r)
        \/ \E kind \in {"save", "delete"} : Write(b, kind)
        \/ \E i \in DOMAIN board[b].writes : WriteDone(b, i) \/ WriteDenied(b, i) \/ WriteFails(b, i)
    BY DEF BoardsNext
<1>2. ASSUME NEW i, NEW a, HearWho(b, i, a) PROVE UNCHANGED <<wire, submitted>>
    BY <1>2 DEF HearWho, boardVars
<1>3. CASE Submit(b)
    BY <1>3 DEF Submit
<1>4. ASSUME LogoutSession(b) \/ ReadRows(b) \/ ToggleForm(b) \/ Logout(b) \/ FillIn(b)
      PROVE  UNCHANGED <<wire, submitted>>
    BY <1>4 DEF LogoutSession, boardVars, ReadRows, ToggleForm, Logout, FillIn
<1>5. ASSUME NEW w, Type(b, w) PROVE UNCHANGED <<wire, submitted>>
    BY <1>5 DEF Type
<1>6. ASSUME NEW i, NEW r, Checked(b, i, r) PROVE UNCHANGED <<wire, submitted>>
    BY <1>6 DEF Checked
<1>7. ASSUME NEW kind, Write(b, kind) PROVE UNCHANGED <<wire, submitted>>
    BY <1>7 DEF Write
<1>8. ASSUME NEW i, WriteDone(b, i) \/ WriteDenied(b, i) \/ WriteFails(b, i)
      PROVE  UNCHANGED <<wire, submitted>>
    BY <1>8 DEF WriteDone, WriteDenied, WriteFails
<1>9. UNCHANGED <<wire, submitted>> => wire' \subseteq submitted'
    OBVIOUS
<1> QED BY <1>1, <1>2, <1>3, <1>4, <1>5, <1>6, <1>7, <1>8, <1>9

\* A step of the usage page asks with its credential, with a word that is
\* submitted by the same step, or with nothing.
LEMMA AnalyticsGiven ==
    ASSUME GivenInv, AnalyticsNext
    PROVE  spent' \subseteq given' /\ credential' \in given' \union {""}
<1> USE DEF GivenInv, gateVars, showVars
<1>1. CASE Reload
    BY <1>1 DEF Reload, Load
<1>2. CASE SubmitWord
    BY <1>2 DEF SubmitWord, Load
<1>3. CASE Lock
    BY <1>3 DEF Lock, Load
<1>4. CASE OperatorLogout
    BY <1>4 DEF OperatorLogout, analyticsVars
<1>5. ASSUME NEW d \in {7, 30, 90}, ChooseDays(d)
      PROVE  spent' \subseteq given' /\ credential' \in given' \union {""}
    BY <1>5 DEF ChooseDays, Load
<1>6. ASSUME NEW w \in {""} \union Words, TypeWord(w)
      PROVE  spent' \subseteq given' /\ credential' \in given' \union {""}
    BY <1>6 DEF TypeWord
<1>7. ASSUME NEW i \in DOMAIN queries, Settles(i)
      PROVE  spent' \subseteq given' /\ credential' \in given' \union {""}
    BY <1>7 DEF Settles
<1>8. ASSUME NEW i \in DOMAIN queries, NEW v, Hears(i, v)
      PROVE  spent' \subseteq given' /\ credential' \in given' \union {""}
    BY <1>8 DEF Hears
<1>9. ASSUME NEW i \in DOMAIN asks[Operator], NEW a, HearOperator(i, a)
      PROVE  spent' \subseteq given' /\ credential' \in given' \union {""}
    BY <1>9 DEF HearOperator, Load
<1> QED BY <1>1, <1>2, <1>3, <1>4, <1>5, <1>6, <1>7, <1>8, <1>9 DEF AnalyticsNext

\* Nothing half typed is ever sent to be checked or asked with.
THEOREM NothingHalfTypedHolds == AccessSpec => []NothingHalfTyped
<1>1. AccessInit => GivenInv
    BY DEF AccessInit, BoardsInit, AnalyticsInit, GivenInv
<1>2. ASSUME GivenInv, [AccessNext]_vars PROVE GivenInv'
    <2>1. CASE page = "dashboard" /\ BoardsNext /\ UNCHANGED <<shareVars, analyticsVars>>
        <3>1. wire' \subseteq submitted'
            BY <1>2, <2>1, BoardsWire DEF GivenInv
        <3> QED BY <1>2, <2>1, <3>1 DEF GivenInv, analyticsVars, gateVars
    <2>2. CASE page = "analytics" /\ AnalyticsNext /\ UNCHANGED <<boardVars, shareVars>>
        <3>1. spent' \subseteq given' /\ credential' \in given' \union {""}
            BY <1>2, <2>2, AnalyticsGiven
        <3> QED BY <1>2, <2>2, <3>1 DEF GivenInv, boardVars, historyVars
    <2>3. CASE UNCHANGED <<boardVars, analyticsVars>>
        BY <1>2, <2>3 DEF GivenInv, boardVars, historyVars, analyticsVars, gateVars
    <2> QED BY <1>2, <2>1, <2>2, <2>3 DEF AccessNext, vars
<1>3. GivenInv => NothingHalfTyped
    BY DEF GivenInv, NothingHalfTyped
<1> QED BY <1>1, <1>2, <1>3, PTL DEF AccessSpec
-----------------------------------------------------------------------------
\* What the browser remembers was found right, or it came with it: nothing
\* but a judgement "ok", which only the right password gets, stores a word.
THEOREM RememberedWorksHolds == AccessSpec => []RememberedWorks
<1> USE DEF RememberedWorks
<1>1. AccessInit => RememberedWorks
    BY DEF AccessInit, BoardsInit
<1>2. ASSUME RememberedWorks, BoardsNext PROVE RememberedWorks'
    <2> USE DEF historyVars
    <2>1. PICK b \in Boards :
            \/ \E i \in DOMAIN asks[b] : \E a \in {asks[b][i], "failed"} : a # "sent" /\ HearWho(b, i, a)
            \/ LogoutSession(b) \/ ReadRows(b) \/ ToggleForm(b) \/ Submit(b) \/ Logout(b) \/ FillIn(b)
            \/ \E w \in {""} \union Passwords : Type(b, w)
            \/ \E i \in DOMAIN board[b].checks : \E r \in {"ok", "invalid", "locked", "error"} : Checked(b, i, r)
            \/ \E kind \in {"save", "delete"} : Write(b, kind)
            \/ \E i \in DOMAIN board[b].writes : WriteDone(b, i) \/ WriteDenied(b, i) \/ WriteFails(b, i)
        BY <1>2 DEF BoardsNext
    <2>2. ASSUME NEW i, NEW r, Checked(b, i, r) PROVE RememberedWorks'
        <3>1. r = "ok" => board[b].checks[i] = "right"
            BY <2>2 DEF Checked, Judgements
        <3>2. came' = came /\ stored' = IF r = "ok" THEN board[b].checks[i] ELSE stored
            BY <2>2 DEF Checked
        <3> QED BY <1>2, <3>1, <3>2
    <2>3. CASE Logout(b)
        BY <1>2, <2>3 DEF Logout
    <2>4. ASSUME NEW i, NEW a, HearWho(b, i, a) PROVE UNCHANGED <<stored, came>>
        BY <2>4 DEF HearWho, boardVars
    <2>5. ASSUME LogoutSession(b) \/ ReadRows(b) \/ ToggleForm(b) \/ Submit(b) \/ FillIn(b)
          PROVE  UNCHANGED <<stored, came>>
        BY <2>5 DEF LogoutSession, boardVars, ReadRows, ToggleForm, Submit, FillIn
    <2>6. ASSUME NEW w, Type(b, w) PROVE UNCHANGED <<stored, came>>
        BY <2>6 DEF Type
    <2>7. ASSUME NEW kind, Write(b, kind) PROVE UNCHANGED <<stored, came>>
        BY <2>7 DEF Write
    <2>8. ASSUME NEW i, WriteDone(b, i) \/ WriteDenied(b, i) \/ WriteFails(b, i)
          PROVE  UNCHANGED <<stored, came>>
        BY <2>8 DEF WriteDone, WriteDenied, WriteFails
    <2>9. UNCHANGED <<stored, came>> => RememberedWorks'
        BY <1>2
    <2> QED BY <2>1, <2>2, <2>3, <2>4, <2>5, <2>6, <2>7, <2>8, <2>9
<1>3. ASSUME RememberedWorks, [AccessNext]_vars PROVE RememberedWorks'
    <2>1. CASE BoardsNext
        BY <1>2, <1>3, <2>1
    <2>2. CASE UNCHANGED boardVars
        BY <1>3, <2>2 DEF boardVars, historyVars
    <2> QED BY <1>3, <2>1, <2>2 DEF AccessNext, vars
<1> QED BY <1>1, <1>3, PTL DEF AccessSpec
-----------------------------------------------------------------------------
LoadStates == {"sent", "missing", "forbidden", "error", "ok", "body"}

\* The loads in flight, numbered as they were sent: every one has its own
\* number, and none is newer than the last.
ShareTypeOK ==
    /\ sent \in Nat
    /\ loads \in Seq([n : Nat, state : LoadStates])
    /\ status \in {"loading", "forbidden", "missing", "error", "ok"}
    /\ by \in Nat

ShareInv == ShareTypeOK /\ StatusIsCurrent

\* A load that is answered is a load, with its number.
LEMMA AnsweredLoad ==
    ASSUME ShareTypeOK, NEW i \in DOMAIN loads, NEW s \in LoadStates,
           loads' = [loads EXCEPT ![i].state = s]
    PROVE  /\ loads' \in Seq([n : Nat, state : LoadStates])
           /\ DOMAIN loads' = DOMAIN loads
           /\ \A j \in DOMAIN loads : loads'[j].n = loads[j].n
<1>1. \A j \in DOMAIN loads : loads[j] \in [n : Nat, state : LoadStates]
    BY LenProperties, ElementOfSeq DEF ShareTypeOK
<1>2. [loads[i] EXCEPT !.state = s] \in [n : Nat, state : LoadStates]
    BY <1>1
<1>3. loads' = [loads EXCEPT ![i] = [loads[i] EXCEPT !.state = s]]
    OBVIOUS
<1>4. \A j \in DOMAIN loads : loads'[j] = IF j = i THEN [loads[i] EXCEPT !.state = s] ELSE loads[j]
    BY <1>3 DEF ShareTypeOK
<1>5. loads' \in Seq([n : Nat, state : LoadStates])
    BY <1>2, <1>3 DEF ShareTypeOK
<1>6. DOMAIN loads' = DOMAIN loads
    BY <1>3 DEF ShareTypeOK
<1> QED BY <1>1, <1>4, <1>5, <1>6

\* A load that stays on the list is still there for StatusIsCurrent.
LEMMA LastStays ==
    ASSUME ShareTypeOK, NEW i \in DOMAIN loads, loads[i].n # sent,
           \E j \in DOMAIN loads : loads[j].n = sent
    PROVE  \E k \in DOMAIN RemoveAt(loads, i) : RemoveAt(loads, i)[k].n = sent
<1>1. PICK j \in DOMAIN loads : loads[j].n = sent
    OBVIOUS
<1>2. PICK k \in DOMAIN RemoveAt(loads, i) : RemoveAt(loads, i)[k] = loads[j]
    BY <1>1, OthersStay DEF ShareTypeOK
<1> QED BY <1>1, <1>2

\* The server answers a load: it keeps its number.
LEMMA ServeShareInv == ASSUME ShareInv, NEW i \in DOMAIN loads, ServeShare(i) PROVE ShareInv'
<1> USE DEF ShareInv, ShareTypeOK
<1>1. PICK s \in LoadStates : loads' = [loads EXCEPT ![i].state = s]
    BY DEF ServeShare, LoadStates
<1>2. UNCHANGED <<sent, status, by>>
    BY DEF ServeShare
<1>3. /\ loads' \in Seq([n : Nat, state : LoadStates])
      /\ DOMAIN loads' = DOMAIN loads /\ \A j \in DOMAIN loads : loads'[j].n = loads[j].n
    BY <1>1, AnsweredLoad
<1> QED BY <1>2, <1>3 DEF StatusIsCurrent

\* The headers arrive: of the last load they are what the page says, of any
\* other they change nothing.
LEMMA RespondInv == ASSUME ShareInv, NEW i \in DOMAIN loads, Respond(i) PROVE ShareInv'
<1> USE DEF ShareInv, ShareTypeOK
<1>1. sent' = sent /\ loads[i].state \in {"missing", "forbidden", "error", "ok"}
    BY DEF Respond
<1>2. CASE loads[i].n = sent /\ loads[i].state = "ok"
    <2>1. loads' = [loads EXCEPT ![i].state = "body"] /\ UNCHANGED <<status, by>>
        BY <1>2 DEF Respond
    <2>2. "body" \in LoadStates
        BY DEF LoadStates
    <2>3. loads' \in Seq([n : Nat, state : LoadStates]) /\ loads'[i].n = sent /\ i \in DOMAIN loads'
        BY <1>2, <2>1, <2>2, AnsweredLoad
    <2> QED BY <1>1, <2>1, <2>2, <2>3 DEF StatusIsCurrent
<1>3. CASE loads[i].n = sent /\ loads[i].state # "ok"
    <2>1. loads' = RemoveAt(loads, i) /\ status' = loads[i].state /\ by' = loads[i].n
        BY <1>3 DEF Respond
    <2>2. loads' \in Seq([n : Nat, state : LoadStates])
        BY <2>1, RemoveAtKeeps
    <2> QED BY <1>1, <1>3, <2>1, <2>2 DEF StatusIsCurrent
<1>4. CASE loads[i].n # sent
    <2>1. loads' = RemoveAt(loads, i) /\ UNCHANGED <<status, by>>
        BY <1>4 DEF Respond
    <2>2. loads' \in Seq([n : Nat, state : LoadStates])
        BY <2>1, RemoveAtKeeps
    <2> QED BY <1>1, <1>4, <2>1, <2>2, LastStays DEF StatusIsCurrent
<1> QED BY <1>2, <1>3, <1>4

\* The body arrives: a report is shown whichever load brought it; a body that
\* breaks off counts for the last load only.
LEMMA BodyInv == ASSUME ShareInv, NEW i \in DOMAIN loads, Body(i) PROVE ShareInv'
<1> USE DEF ShareInv, ShareTypeOK
<1>1. sent' = sent /\ loads' = RemoveAt(loads, i)
    BY DEF Body
<1>2. loads' \in Seq([n : Nat, state : LoadStates])
    BY <1>1, RemoveAtKeeps
<1>3. CASE status' = "ok" /\ by' = loads[i].n
    <2>1. loads[i] \in [n : Nat, state : LoadStates]
        BY LenProperties, ElementOfSeq
    <2> QED BY <1>1, <1>2, <1>3, <2>1 DEF StatusIsCurrent
<1>4. CASE loads[i].n = sent /\ status' = "error" /\ by' = loads[i].n
    BY <1>1, <1>2, <1>4 DEF StatusIsCurrent
<1>5. CASE loads[i].n # sent /\ UNCHANGED <<status, by>>
    BY <1>1, <1>2, <1>5, LastStays DEF StatusIsCurrent
<1> QED BY <1>3, <1>4, <1>5 DEF Body

\* The hook hears: either nothing changes, or there is a new last load.
LEMMA HearReaderInv == ASSUME ShareInv, NEW i, NEW a, HearReader(i, a) PROVE ShareInv'
<1> USE DEF ShareInv, ShareTypeOK
<1>1. UNCHANGED <<status, by>>
    BY DEF HearReader
<1>2. CASE UNCHANGED <<loads, sent>>
    BY <1>1, <1>2 DEF StatusIsCurrent
<1>3. CASE sent' = sent + 1 /\ loads' = Append(loads, [n |-> sent + 1, state |-> "sent"])
    <2>1. [n |-> sent + 1, state |-> "sent"] \in [n : Nat, state : LoadStates]
        BY DEF LoadStates
    <2>2. /\ loads' \in Seq([n : Nat, state : LoadStates])
          /\ Len(loads) + 1 \in DOMAIN loads' /\ loads'[Len(loads) + 1].n = sent'
        BY <1>3, <2>1, AppendProperties, LenProperties
    <2> QED BY <1>1, <1>3, <2>2 DEF StatusIsCurrent
<1> QED BY <1>2, <1>3 DEF HearReader

\* What the visitor is told instead of the report is the answer of the last
\* load, or that load is on its way.
THEOREM StatusStaysCurrent == AccessSpec => []StatusIsCurrent
<1>1. AccessInit => ShareInv
    <2> SUFFICES ASSUME AccessInit PROVE ShareInv
        OBVIOUS
    <2>1. loads \in Seq([n : Nat, state : LoadStates])
        <3>1. [n |-> 1, state |-> "sent"] \in [n : Nat, state : LoadStates]
            BY DEF LoadStates
        <3>2. /\ <<[n |-> 1, state |-> "sent"]>> \in Seq([n : Nat, state : LoadStates])
              /\ <<>> \in Seq([n : Nat, state : LoadStates])
            BY <3>1
        <3> QED BY <3>2 DEF AccessInit, ShareInit
    <2>2. sent \in Nat
        BY <2>1 DEF AccessInit, ShareInit
    <2> QED BY <2>1, <2>2 DEF AccessInit, ShareInit, ShareInv, ShareTypeOK, StatusIsCurrent
<1>2. ASSUME ShareInv, [AccessNext]_vars PROVE ShareInv'
    <2>1. CASE ShareNext
        <3>1. CASE Expire \/ LogoutReader
            BY <1>2, <3>1 DEF Expire, LogoutReader, shareVars, ShareInv, ShareTypeOK, StatusIsCurrent
        <3>2. ASSUME NEW i \in DOMAIN loads, ServeShare(i) \/ Respond(i) \/ Body(i) PROVE ShareInv'
            BY <1>2, <3>2, ServeShareInv, RespondInv, BodyInv
        <3>3. ASSUME NEW i, NEW a, HearReader(i, a) PROVE ShareInv'
            BY <1>2, <3>3, HearReaderInv
        <3> QED BY <2>1, <3>1, <3>2, <3>3 DEF ShareNext
    <2>2. CASE UNCHANGED shareVars
        BY <1>2, <2>2 DEF shareVars, ShareInv, ShareTypeOK, StatusIsCurrent
    <2> QED BY <1>2, <2>1, <2>2 DEF AccessNext, vars
<1>3. ShareInv => StatusIsCurrent
    BY DEF ShareInv
<1> QED BY <1>1, <1>2, <1>3, PTL DEF AccessSpec
=============================================================================
