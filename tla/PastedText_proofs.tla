------------------------ MODULE PastedText_proofs ------------------------
(***************************************************************************)
(* What is proved of the panels that read pasted text: the scanners of     *)
(* module Scanner and the intel channel board of module IntelBoard.        *)
(*                                                                         *)
(* The AI hook keeps the promise of LatestAnswer for any texts, any        *)
(* results and any number of requests, and the scanner panels use it as    *)
(* its specification allows: what is proved of the hook holds on every     *)
(* page that has a panel, whatever is scanned, cleared and shared around   *)
(* it.  The banner of a D-scan is right for every scan.  The intel board   *)
(* is right for every paste: a paste is a fold over lines of any number,   *)
(* and the lemmas of the first part say what such a fold comes to.         *)
(***************************************************************************)
EXTENDS Scanner, IntelBoard, FiniteSetTheorems, SequenceTheorems, WellFoundedInduction, TLAPS

----------------------------------------------------------------------------
(* Induction over numbers and over logs.  The library states it for any    *)
(* predicate; stated for a set it can be cited.                            *)

LEMMA LeastNumber ==
  ASSUME NEW T \in SUBSET Nat, T # {}
  PROVE  \E m \in T : \A n \in T : m <= n
<1>1. PICK m \in T : \A n \in T : ~(<<n, m>> \in OpToRel(<,Nat))
  BY NatLessThanWellFounded, WFMin, Zenon
<1>2. \A n \in T : ~(n < m)
  BY <1>1 DEF OpToRel
<1> QED BY <1>2

LEMMA NumbersBySteps ==
  ASSUME NEW T \in SUBSET Nat, 0 \in T, \A n \in T : n + 1 \in T
  PROVE  T = Nat
<1> SUFFICES ASSUME T # Nat PROVE FALSE
  OBVIOUS
<1>1. PICK m \in Nat \ T : \A n \in Nat \ T : m <= n
  BY LeastNumber
<1>2. m # 0 /\ m - 1 \in Nat
  BY <1>1
<1>3. m - 1 \in T
  BY <1>1, <1>2
<1>4. (m - 1) + 1 \in T
  BY <1>3
<1> QED BY <1>1, <1>4

LEMMA MaxOfRange ==
  ASSUME NEW n \in Nat, NEW s \in SUBSET (1..n), n \in s PROVE Max(s) = n
<1>1. \A x \in s : (\A y \in s : x >= y) <=> x = n
  OBVIOUS
<1> QED BY <1>1 DEF Max

LEMMA MaxIsThere ==
  ASSUME NEW n \in Nat, NEW s \in SUBSET (1..n), s # {} PROVE Max(s) \in s
<1> DEFINE T == {k \in Nat : n - k \in s}
<1>1. T # {}
  <2>1. PICK x \in s : TRUE
    OBVIOUS
  <2>2. n - x \in T
    OBVIOUS
  <2> QED BY <2>2
<1>2. PICK k \in T : \A j \in T : k <= j
  BY <1>1, LeastNumber
<1>3. ASSUME NEW y \in s PROVE n - k >= y
  <2>1. y \in Int /\ n - y \in Nat
    OBVIOUS
  <2>2. n - y \in T
    BY <2>1
  <2>3. k <= n - y
    BY <1>2, <2>2
  <2> QED BY <2>1, <2>3
<1> QED BY <1>2, <1>3 DEF Max

\* The recursion under a fold over a log of n elements: F[<<x, i>>] is x
\* with the i-th element applied.
Solves(g, n, st, F) ==
  \A s \in SUBSET (1..n) :
     g[s] = IF s = {} THEN st ELSE F[<<g[s \ {Max(s)}], Max(s)>>]

LEMMA RecursionExists ==
  ASSUME NEW n \in Nat, NEW D, NEW st \in D, NEW F \in [D \X (1..n) -> D]
  PROVE  \E g \in [SUBSET (1..n) -> D] : Solves(g, n, st, F)
<1> DEFINE Has(m) == \E g \in [SUBSET (1..m) -> D] : Solves(g, m, st, F)
           T == {m \in Nat : m <= n => Has(m)}
<1>1. Has(0)
  <2> DEFINE g == [s \in SUBSET (1..0) |-> st]
  <2>1. g \in [SUBSET (1..0) -> D]
    OBVIOUS
  <2>2. Solves(g, 0, st, F)
    <3>1. 1..0 = {}
      OBVIOUS
    <3> QED BY <3>1 DEF Solves
  <2> QED BY <2>1, <2>2
<1>2. ASSUME NEW m \in Nat, m + 1 <= n, Has(m) PROVE Has(m + 1)
  <2>1. PICK f \in [SUBSET (1..m) -> D] : Solves(f, m, st, F)
    BY <1>2
  <2> DEFINE g == [s \in SUBSET (1..(m + 1)) |->
                     IF m + 1 \in s THEN F[<<f[s \ {m + 1}], m + 1>>] ELSE f[s]]
  <2>2. ASSUME NEW s \in SUBSET (1..(m + 1))
        PROVE  /\ g[s] \in D
               /\ g[s] = IF s = {} THEN st ELSE F[<<g[s \ {Max(s)}], Max(s)>>]
    <3>1. CASE m + 1 \in s
      <4>1. Max(s) = m + 1
        BY <3>1, MaxOfRange
      <4>2. s \ {m + 1} \in SUBSET (1..m) /\ s \ {m + 1} \in SUBSET (1..(m + 1))
        OBVIOUS
      <4>3. g[s \ {m + 1}] = f[s \ {m + 1}] /\ f[s \ {m + 1}] \in D
        BY <4>2
      <4>4. m + 1 \in 1..n
        BY <1>2
      <4>5. g[s] = F[<<f[s \ {m + 1}], m + 1>>]
        BY <3>1
      <4> HIDE DEF g
      <4> QED BY <3>1, <4>1, <4>3, <4>4, <4>5
    <3>2. CASE m + 1 \notin s
      <4>1. s \in SUBSET (1..m)
        BY <3>2
      <4>2. g[s] = f[s] /\ f[s] \in D
        BY <3>2, <4>1
      <4>3. s \ {Max(s)} \in SUBSET (1..m) /\ s \ {Max(s)} \in SUBSET (1..(m + 1)) /\ m + 1 \notin s \ {Max(s)}
        BY <3>2, <4>1
      <4>4. g[s \ {Max(s)}] = f[s \ {Max(s)}]
        BY <4>3
      <4>5. f[s] = IF s = {} THEN st ELSE F[<<f[s \ {Max(s)}], Max(s)>>]
        BY <2>1, <4>1 DEF Solves
      <4> HIDE DEF g
      <4> QED BY <4>2, <4>4, <4>5
    <3> QED BY <3>1, <3>2
  <2>3. g = [s \in SUBSET (1..(m + 1)) |-> g[s]]
    OBVIOUS
  <2> HIDE DEF g
  <2>4. g \in [SUBSET (1..(m + 1)) -> D] /\ Solves(g, m + 1, st, F)
    BY <2>2, <2>3 DEF Solves
  <2> QED BY <2>4
<1> HIDE DEF Has
<1>3. T \in SUBSET Nat /\ 0 \in T
  BY <1>1
<1>4. \A m \in T : m + 1 \in T
  BY <1>2
<1>5. T = Nat
  <2> HIDE DEF T
  <2> QED BY <1>3, <1>4, NumbersBySteps
<1>6. Has(n)
  BY <1>5
<1> QED BY <1>6 DEF Has

\* What a fold comes to along the prefixes of the log.
Climbs(g, n, D, F) ==
  \A i \in 1..n : g[1..(i - 1)] \in D => g[1..i] = F[<<g[1..(i - 1)], i>>]

Runs(h, n, F) == \A i \in 1..n : h[i] = F[<<h[i - 1], i>>]

Reaches(st, end, n, D, F) == \E h \in [0..n -> D] : h[0] = st /\ h[n] = end /\ Runs(h, n, F)

LEMMA AlongPrefixes ==
  ASSUME NEW n \in Nat, NEW D, NEW st \in D, NEW F \in [D \X (1..n) -> D], NEW g,
         g[{}] = st, Climbs(g, n, D, F)
  PROVE  Reaches(st, g[1..n], n, D, F)
<1> DEFINE h == [i \in 0..n |-> g[1..i]]
           T == {i \in Nat : i <= n => g[1..i] \in D}
<1>1. g[1..0] = st
  BY 1..0 = {}
<1>2. T = Nat
  <2>1. T \in SUBSET Nat /\ 0 \in T
    BY <1>1
  <2>2. ASSUME NEW i \in T PROVE i + 1 \in T
    <3> SUFFICES ASSUME i + 1 <= n PROVE g[1..(i + 1)] \in D
      OBVIOUS
    <3>1. g[1..i] \in D /\ i + 1 \in 1..n /\ (i + 1) - 1 = i
      OBVIOUS
    <3>2. g[1..(i + 1)] = F[<<g[1..i], i + 1>>]
      BY <3>1 DEF Climbs
    <3> QED BY <3>1, <3>2
  <2> HIDE DEF T
  <2> QED BY <2>1, <2>2, NumbersBySteps
<1>3. \A i \in 0..n : g[1..i] \in D
  BY <1>2
<1>4. h \in [0..n -> D] /\ h[0] = st /\ h[n] = g[1..n]
  BY <1>1, <1>3
<1>5. Runs(h, n, F)
  BY <1>3 DEF Climbs, Runs
<1> HIDE DEF h
<1> QED BY <1>4, <1>5 DEF Reaches

LEMMA PrefixesAre ==
  ASSUME NEW n \in Nat, NEW i \in 1..n
  PROVE  /\ 1..i \in SUBSET (1..n) /\ 1..i # {} /\ Max(1..i) = i
         /\ (1..i) \ {i} = 1..(i - 1)
<1>1. 1..i \in SUBSET (1..n) /\ i \in 1..i
  OBVIOUS
<1>2. \A x : x \in (1..i) \ {i} <=> x \in 1..(i - 1)
  OBVIOUS
<1> QED BY <1>1, <1>2, MaxOfRange

\* A fold of Applied is reached by applying the entries one after another.
AppliedSteps(g, st, log) ==
  g = [s \in SUBSET (DOMAIN log) |->
         IF s = {} THEN st ELSE Applied(g[s \ {Max(s)}], log[Max(s)])]

AppliedAlong(h, st, log) ==
  /\ h[0] = st /\ h[Len(log)] = ApplyEntries(st, log)
  /\ \A i \in 1..Len(log) : h[i] = Applied(h[i - 1], log[i])

LEMMA AppliedFold ==
  ASSUME NEW D, NEW st \in D, NEW E, NEW log \in Seq(E),
         \A x \in D, e \in E : Applied(x, e) \in D
  PROVE  \E h \in [0..Len(log) -> D] : AppliedAlong(h, st, log)
<1> DEFINE n == Len(log)
           F == [p \in D \X (1..n) |-> Applied(p[1], log[p[2]])]
<1>1. n \in Nat /\ DOMAIN log = 1..n /\ \A i \in 1..n : log[i] \in E
  BY LenProperties, ElementOfSeq
<1>2. F \in [D \X (1..n) -> D] /\ \A x \in D, i \in 1..n : F[<<x, i>>] = Applied(x, log[i])
  BY <1>1
<1> HIDE DEF n, F
<1>3. \E g : AppliedSteps(g, st, log)
  <2>1. PICK f \in [SUBSET (1..n) -> D] : Solves(f, n, st, F)
    BY <1>1, <1>2, RecursionExists
  <2>2. ASSUME NEW s \in SUBSET (1..n), s # {}
        PROVE  f[s] = Applied(f[s \ {Max(s)}], log[Max(s)])
    <3>1. Max(s) \in 1..n
      BY <1>1, <2>2, MaxIsThere
    <3>2. f[s \ {Max(s)}] \in D
      OBVIOUS
    <3>3. f[s] = F[<<f[s \ {Max(s)}], Max(s)>>]
      BY <2>1, <2>2 DEF Solves
    <3> QED BY <1>2, <3>1, <3>2, <3>3
  <2>3. f[{}] = st
    BY <2>1 DEF Solves
  <2> QED BY <1>1, <2>2, <2>3 DEF AppliedSteps
<1>4. PICK g : AppliedSteps(g, st, log) /\ ApplyEntries(st, log) = g[DOMAIN log]
  BY <1>3 DEF ApplyEntries, FoldLeft, MapThenFoldSet, AppliedSteps
<1>5. g[{}] = st
  BY <1>4 DEF AppliedSteps
<1>6. ASSUME NEW i \in 1..n, g[1..(i - 1)] \in D
      PROVE  g[1..i] = F[<<g[1..(i - 1)], i>>]
  <2>1. g[1..i] = Applied(g[(1..i) \ {Max(1..i)}], log[Max(1..i)])
    BY <1>1, <1>4, PrefixesAre DEF AppliedSteps
  <2>2. g[1..i] = Applied(g[1..(i - 1)], log[i])
    BY <1>1, <2>1, PrefixesAre
  <2> QED BY <1>2, <1>6, <2>2
<1>7. Climbs(g, n, D, F)
  BY <1>6 DEF Climbs
<1>8. PICK h \in [0..n -> D] : h[0] = st /\ h[n] = g[1..n] /\ Runs(h, n, F)
  <2>1. n \in Nat /\ F \in [D \X (1..n) -> D] /\ st \in D
    BY <1>1, <1>2
  <2>2. Reaches(st, g[1..n], n, D, F)
    BY <1>5, <1>7, <2>1, AlongPrefixes
  <2> QED BY <2>2 DEF Reaches
<1>9. ASSUME NEW i \in 1..n PROVE h[i] = Applied(h[i - 1], log[i])
  <2>1. i - 1 \in 0..n
    BY <1>1
  <2> QED BY <1>2, <1>8, <2>1 DEF Runs
<1>10. AppliedAlong(h, st, log)
  BY <1>1, <1>4, <1>8, <1>9 DEF n, AppliedAlong
<1> QED BY <1>8, <1>10 DEF n

\* The same of Parsed, over the lines of a paste.
ParsedSteps(g, st, log) ==
  g = [s \in SUBSET (DOMAIN log) |->
         IF s = {} THEN st ELSE Parsed(g[s \ {Max(s)}], log[Max(s)])]

LEMMA ParsedFold ==
  ASSUME NEW D, <<>> \in D, NEW E, NEW log \in Seq(E),
         \A x \in D, e \in E : Parsed(x, e) \in D
  PROVE  \E h \in [0..Len(log) -> D] :
            /\ h[0] = <<>> /\ h[Len(log)] = ParseIntelText(log)
            /\ \A i \in 1..Len(log) : h[i] = Parsed(h[i - 1], log[i])
<1> DEFINE n == Len(log)
           F == [p \in D \X (1..n) |-> Parsed(p[1], log[p[2]])]
<1>1. n \in Nat /\ DOMAIN log = 1..n /\ \A i \in 1..n : log[i] \in E
  BY LenProperties, ElementOfSeq
<1>2. F \in [D \X (1..n) -> D] /\ \A x \in D, i \in 1..n : F[<<x, i>>] = Parsed(x, log[i])
  BY <1>1
<1> HIDE DEF n, F
<1>3. \E g : ParsedSteps(g, <<>>, log)
  <2>1. PICK f \in [SUBSET (1..n) -> D] : Solves(f, n, <<>>, F)
    BY <1>1, <1>2, RecursionExists
  <2>2. ASSUME NEW s \in SUBSET (1..n), s # {}
        PROVE  f[s] = Parsed(f[s \ {Max(s)}], log[Max(s)])
    <3>1. Max(s) \in 1..n
      BY <1>1, <2>2, MaxIsThere
    <3>2. f[s \ {Max(s)}] \in D
      OBVIOUS
    <3>3. f[s] = F[<<f[s \ {Max(s)}], Max(s)>>]
      BY <2>1, <2>2 DEF Solves
    <3> QED BY <1>2, <3>1, <3>2, <3>3
  <2>3. f[{}] = <<>>
    BY <2>1 DEF Solves
  <2> QED BY <1>1, <2>2, <2>3 DEF ParsedSteps
<1>4. PICK g : ParsedSteps(g, <<>>, log) /\ ParseIntelText(log) = g[DOMAIN log]
  BY <1>3 DEF ParseIntelText, FoldLeft, MapThenFoldSet, ParsedSteps
<1>5. g[{}] = <<>>
  BY <1>4 DEF ParsedSteps
<1>6. ASSUME NEW i \in 1..n, g[1..(i - 1)] \in D
      PROVE  g[1..i] = F[<<g[1..(i - 1)], i>>]
  <2>1. g[1..i] = Parsed(g[(1..i) \ {Max(1..i)}], log[Max(1..i)])
    BY <1>1, <1>4, PrefixesAre DEF ParsedSteps
  <2>2. g[1..i] = Parsed(g[1..(i - 1)], log[i])
    BY <1>1, <2>1, PrefixesAre
  <2> QED BY <1>2, <1>6, <2>2
<1>7. Climbs(g, n, D, F)
  BY <1>6 DEF Climbs
<1>8. PICK h \in [0..n -> D] : h[0] = <<>> /\ h[n] = g[1..n] /\ Runs(h, n, F)
  <2>1. n \in Nat /\ F \in [D \X (1..n) -> D] /\ <<>> \in D
    BY <1>1, <1>2
  <2>2. Reaches(<<>>, g[1..n], n, D, F)
    BY <1>5, <1>7, <2>1, AlongPrefixes
  <2> QED BY <2>2 DEF Reaches
<1>9. ASSUME NEW i \in 1..n PROVE h[i] = Parsed(h[i - 1], log[i])
  <2>1. i - 1 \in 0..n
    BY <1>1
  <2> QED BY <1>2, <1>8, <2>1 DEF Runs
<1> QED BY <1>1, <1>4, <1>8, <1>9 DEF n

----------------------------------------------------------------------------
(* What is parsed, and what the board is made of.                          *)

Entries == [system : Systems, ts : Int, count : Nat, clear : BOOLEAN, chars : SUBSET Chars]
Boards == {b \in UNION {[S -> Entries] : S \in SUBSET Systems} :
             \A s \in DOMAIN b : b[s].system = s}

\* What the panel remembers is what was notified since it last started empty.
Since(ns, c) == {i \in DOMAIN ns : \A k \in c : k < i}
Apart(ns, c) ==
  \A i, j \in DOMAIN ns : i < j /\ ns[i] = ns[j] => \E k \in c : i <= k /\ k < j
NoticeLog(f, ns, c) == f = {ns[i] : i \in Since(ns, c)} /\ Apart(ns, c)
Shouted(b, f) == \A s \in DOMAIN b : Alarming(b[s]) => Key(b[s]) \in f
Told(c) ==
  {x \in [board : Boards, fired : SUBSET (Systems \X Int), notices : Seq(Systems \X Int)] :
      /\ c \in SUBSET (0..Len(x.notices))
      /\ NoticeLog(x.fired, x.notices, c) /\ Shouted(x.board, x.fired)}
PastedLines == [msg : Messages, age : 0..MaxAge]

LEMMA DenotesSystems ==
  ASSUME NEW t \in Systems \union DOMAIN Prefixed PROVE Denotes(t) \subseteq Systems
BY IntelAssumption DEF IntelAssumption, Denotes

LEMMA FindsSystems ==
  ASSUME NEW tokens \in Seq(Systems \union DOMAIN Prefixed) PROVE FindSystem(tokens) \subseteq Systems
<1> DEFINE I == {i \in 1..Len(tokens) : Denotes(tokens[i]) # {}}
<1>1. CASE I = {}
  BY <1>1 DEF FindSystem, SelectInSeq
<1>2. CASE I # {}
  <2>1. I \in SUBSET Nat
    OBVIOUS
  <2>2. PICK m \in I : \A n \in I : m <= n
    BY <1>2, <2>1, LeastNumber
  <2>3. Min(I) \in I
    BY <2>1, <2>2 DEF Min
  <2>4. tokens[Min(I)] \in Systems \union DOMAIN Prefixed
    BY <2>3, ElementOfSeq
  <2>5. FindSystem(tokens) \in {{}, Denotes(tokens[Min(I)])}
    BY <1>2 DEF FindSystem, SelectInSeq
  <2> QED BY <2>4, <2>5, DenotesSystems
<1> QED BY <1>1, <1>2

LEMMA ParsedKeeps ==
  ASSUME clock \in Int, NEW es \in Seq(Entries), NEW line \in PastedLines
  PROVE  Parsed(es, line) \in Seq(Entries)
<1> DEFINE named == FindSystem(line.msg.tokens)
<1>1. line.msg \in Messages /\ line.age \in 0..MaxAge /\ MaxAge \in Nat
  BY IntelAssumption DEF IntelAssumption, PastedLines
<1>2. line.msg \in [tokens : Seq(Systems \union DOMAIN Prefixed), count : Nat,
                    clear : BOOLEAN, chars : SUBSET Chars]
  BY <1>1, IntelAssumption DEF IntelAssumption
<1>3. named \subseteq Systems
  BY <1>2, FindsSystems
<1> HIDE DEF named
<1>4. ASSUME NEW s \in Systems PROVE Entry(line, s) \in Entries
  BY <1>1, <1>2 DEF Entry, Entries
<1>5. CASE named = {}
  BY <1>5 DEF Parsed, named
<1>6. CASE named # {}
  <2>1. (CHOOSE s \in named : TRUE) \in Systems
    BY <1>3, <1>6
  <2> QED BY <1>4, <1>6, <2>1 DEF Parsed, named
<1> QED BY <1>5, <1>6

LEMMA ParseTyped ==
  ASSUME clock \in Int, NEW lines \in Texts
  PROVE  ParseIntelText(lines) \in Seq(Entries)
<1>1. lines \in Seq(PastedLines)
  <2>1. lines \in UNION {[1..m -> PastedLines] : m \in 0..2}
    BY DEF Texts, SeqOf, PastedLines
  <2>2. PICK m \in 0..2 : lines \in [1..m -> PastedLines]
    BY <2>1
  <2>3. m \in Nat
    OBVIOUS
  <2> QED BY <2>2, <2>3
<1>2. <<>> \in Seq(Entries)
  OBVIOUS
<1>3. \A x \in Seq(Entries), e \in PastedLines : Parsed(x, e) \in Seq(Entries)
  BY ParsedKeeps
<1>4. PICK h \in [0..Len(lines) -> Seq(Entries)] : h[Len(lines)] = ParseIntelText(lines)
  BY <1>1, <1>2, <1>3, ParsedFold
<1>5. Len(lines) \in 0..Len(lines)
  BY <1>1, LenProperties
<1> QED BY <1>4, <1>5

LEMMA BoardsAre ==
  ASSUME NEW b
  PROVE  b \in Boards <=> /\ b = [s \in DOMAIN b |-> b[s]] /\ DOMAIN b \subseteq Systems
                          /\ \A s \in DOMAIN b : b[s] \in Entries /\ b[s].system = s
<1>1. ASSUME b \in Boards
      PROVE  /\ b = [s \in DOMAIN b |-> b[s]] /\ DOMAIN b \subseteq Systems
             /\ \A s \in DOMAIN b : b[s] \in Entries /\ b[s].system = s
  BY <1>1 DEF Boards
<1>2. ASSUME b = [s \in DOMAIN b |-> b[s]], DOMAIN b \subseteq Systems,
             \A s \in DOMAIN b : b[s] \in Entries /\ b[s].system = s
      PROVE  b \in Boards
  <2>1. b \in [DOMAIN b -> Entries] /\ DOMAIN b \in SUBSET Systems
    BY <1>2
  <2> QED BY <1>2, <2>1 DEF Boards
<1> QED BY <1>1, <1>2

\* The board after a report that supersedes what it shows of its system.
ShownAfter(b, e) == [s \in DOMAIN b \union {e.system} |-> IF s = e.system THEN e ELSE b[s]]

LEMMA ShownIsBoard ==
  ASSUME NEW b \in Boards, NEW e \in Entries PROVE ShownAfter(b, e) \in Boards
<1> DEFINE c == ShownAfter(b, e)
<1>1. e.system \in Systems
  BY DEF Entries
<1>2. c = [s \in DOMAIN c |-> c[s]] /\ DOMAIN c = DOMAIN b \union {e.system}
  BY DEF ShownAfter
<1>3. \A s \in DOMAIN c : c[s] \in Entries /\ c[s].system = s
  BY BoardsAre DEF ShownAfter
<1> HIDE DEF c
<1>4. c \in Boards
  BY <1>1, <1>2, <1>3, BoardsAre
<1> QED BY <1>4 DEF c

\* A report that is remembered since the panel last started empty is not in
\* the log of notices since; one that is not remembered may be added to it.
LEMMA OneMoreNotice ==
  ASSUME NEW f, NEW ns \in Seq(Systems \X Int), NEW c \in SUBSET (0..Len(ns)),
         NoticeLog(f, ns, c), NEW k \in Systems \X Int, k \notin f
  PROVE  /\ Append(ns, k) \in Seq(Systems \X Int) /\ c \in SUBSET (0..Len(Append(ns, k)))
         /\ NoticeLog(f \union {k}, Append(ns, k), c)
<1> DEFINE n == Len(ns)
           g == Append(ns, k)
<1>1. n \in Nat /\ DOMAIN ns = 1..n
  BY LenProperties
<1>2. /\ g \in Seq(Systems \X Int) /\ Len(g) = n + 1 /\ DOMAIN g = 1..(n + 1)
      /\ g[n + 1] = k /\ \A i \in 1..n : g[i] = ns[i]
  BY <1>1
<1> HIDE DEF n, g
<1>3. c \in SUBSET (0..(n + 1)) /\ \A q \in c : q \in Int /\ q <= n
  BY <1>1 DEF n
<1>4. \A i \in 1..(n + 1) : i \in 1..n \/ i = n + 1
  BY <1>1
<1>5. Since(g, c) = Since(ns, c) \union {n + 1}
  <2>1. n + 1 \in Since(g, c)
    BY <1>1, <1>2, <1>3 DEF Since
  <2>2. \A i \in 1..n : i \in Since(g, c) <=> i \in Since(ns, c)
    BY <1>1, <1>2 DEF Since
  <2> QED BY <1>1, <1>2, <1>4, <2>1, <2>2 DEF Since
<1>6. f \union {k} = {g[i] : i \in Since(g, c)}
  <2>1. f = {ns[i] : i \in Since(ns, c)}
    BY DEF NoticeLog
  <2>2. Since(ns, c) \subseteq 1..n
    BY <1>1 DEF Since
  <2>3. {ns[i] : i \in Since(ns, c)} = {g[i] : i \in Since(ns, c)}
    BY <1>2, <2>2
  <2> QED BY <1>2, <1>5, <2>1, <2>3
<1>7. ASSUME NEW i \in DOMAIN g, NEW j \in DOMAIN g, i < j, g[i] = g[j]
      PROVE  \E q \in c : i <= q /\ q < j
  <2>1. i \in 1..n
    BY <1>1, <1>2, <1>7
  <2>2. CASE j \in 1..n
    <3>1. Apart(ns, c) /\ ns[i] = ns[j]
      BY <1>2, <1>7, <2>1, <2>2 DEF NoticeLog
    <3> QED BY <1>1, <1>7, <2>1, <2>2, <3>1 DEF Apart
  <2>3. CASE j = n + 1
    <3>1. ns[i] = k
      BY <1>2, <1>7, <2>1, <2>3
    <3>2. i \notin Since(ns, c)
      BY <3>1 DEF NoticeLog
    <3>3. PICK q \in c : ~(q < i)
      BY <1>1, <2>1, <3>2 DEF Since
    <3> QED BY <1>1, <1>3, <2>1, <2>3, <3>3
  <2> QED BY <1>2, <1>4, <2>2, <2>3
<1>8. Append(ns, k) = g /\ Len(g) = n + 1
  BY <1>2 DEF g
<1>9. NoticeLog(f \union {k}, g, c)
  <2>1. Apart(g, c)
    BY <1>2, <1>7 DEF Apart
  <2> QED BY <1>6, <2>1 DEF NoticeLog
<1> QED BY <1>2, <1>3, <1>8, <1>9

\* A panel that starts empty remembers nothing, and that is after all notices.
LEMMA FreshNotices ==
  ASSUME NEW f, NEW ns, NEW n \in Nat, DOMAIN ns = 1..n, NEW c \in SUBSET (0..n),
         NoticeLog(f, ns, c)
  PROVE  NoticeLog({}, ns, c \union {n}) /\ c \union {n} \in SUBSET (0..n)
<1>1. Since(ns, c \union {n}) = {}
  <2>1. \A i \in 1..n : ~(n < i) /\ n \in c \union {n}
    OBVIOUS
  <2> QED BY <2>1 DEF Since
<1>2. Apart(ns, c \union {n})
  <2>1. Apart(ns, c)
    BY DEF NoticeLog
  <2> QED BY <2>1 DEF Apart
<1>3. {ns[i] : i \in Since(ns, c \union {n})} = {}
  BY <1>1
<1>4. NoticeLog({}, ns, c \union {n})
  BY <1>2, <1>3, Zenon DEF NoticeLog
<1>5. c \union {n} \in SUBSET (0..n)
  OBVIOUS
<1> QED BY <1>4, <1>5

\* A report applied: the board stays a board, no report remembered is notified
\* and none that the board shows is left out.
LEMMA AppliedKeeps ==
  ASSUME NEW c, NEW st \in Told(c), NEW e \in Entries PROVE Applied(st, e) \in Told(c)
<1>1. /\ st.board \in Boards /\ st.fired \in SUBSET (Systems \X Int)
      /\ st.notices \in Seq(Systems \X Int) /\ c \in SUBSET (0..Len(st.notices))
      /\ NoticeLog(st.fired, st.notices, c) /\ Shouted(st.board, st.fired)
  BY DEF Told
<1>2. ASSUME Supersedes(e, st.board) PROVE Applied(st, e) \in Told(c)
  <2> DEFINE b == ShownAfter(st.board, e)
             new == Alarming(e) /\ Key(e) \notin st.fired
             f == IF new THEN st.fired \union {Key(e)} ELSE st.fired
             ns == IF new THEN Append(st.notices, Key(e)) ELSE st.notices
  <2>1. Applied(st, e) = [board |-> b, fired |-> f, notices |-> ns]
    BY <1>2 DEF Applied, ShownAfter
  <2>2. b \in Boards
    BY <1>1, ShownIsBoard
  <2>3. Key(e) \in Systems \X Int
    BY DEF Key, Entries
  <2>4. /\ f \in SUBSET (Systems \X Int) /\ ns \in Seq(Systems \X Int)
        /\ c \in SUBSET (0..Len(ns)) /\ NoticeLog(f, ns, c)
    <3>1. CASE new
      BY <1>1, <2>3, <3>1, OneMoreNotice
    <3>2. CASE ~new
      BY <1>1, <3>2
    <3> QED BY <3>1, <3>2
  <2>5. \A s \in DOMAIN b : b[s] = e \/ (s \in DOMAIN st.board /\ b[s] = st.board[s])
    BY DEF ShownAfter
  <2>6. st.fired \subseteq f /\ (Alarming(e) => Key(e) \in f)
    OBVIOUS
  <2> HIDE DEF b, f, ns, new
  <2>7. Shouted(b, f)
    BY <1>1, <2>5, <2>6 DEF Shouted
  <2> QED BY <2>1, <2>2, <2>4, <2>7 DEF Told
<1>3. CASE ~Supersedes(e, st.board)
  BY <1>3 DEF Applied
<1> QED BY <1>2, <1>3

----------------------------------------------------------------------------
(* A paste, report after report.                                           *)

\* The reports of a system among the first k of the log, those of before its
\* row was removed left out, and what BoardIsNewest asks of the board.
HeardOf(log, r, k, s) == {i \in 1..k : i > r[s] /\ log[i].system = s}
Later(log, i, j) == log[j].ts < log[i].ts \/ (log[j].ts = log[i].ts /\ j <= i)
IsNewest(log, i, of) == i \in of /\ \A j \in of : Later(log, i, j)
NewestIn(b, log, r, k) ==
  /\ DOMAIN b = {s \in Systems : HeardOf(log, r, k, s) # {}}
  /\ \A s \in DOMAIN b : \E i \in 1..k : b[s] = log[i] /\ IsNewest(log, i, HeardOf(log, r, k, s))

LEMMA HeardOneMore ==
  ASSUME NEW log \in Seq(Entries), NEW r \in [Systems -> Nat], NEW k \in 1..Len(log),
         \A s \in Systems : r[s] <= k - 1, NEW s \in Systems
  PROVE  HeardOf(log, r, k, s) = IF log[k].system = s THEN HeardOf(log, r, k - 1, s) \union {k}
                                 ELSE HeardOf(log, r, k - 1, s)
<1>1. k \in Nat /\ 1..k = (1..(k - 1)) \union {k} /\ k > r[s]
  BY LenProperties
<1> QED BY <1>1 DEF HeardOf

LEMMA LogTyped ==
  ASSUME NEW log \in Seq(Entries)
  PROVE  /\ Len(log) \in Nat /\ DOMAIN log = 1..Len(log)
         /\ \A i \in 1..Len(log) : log[i] \in Entries /\ log[i].system \in Systems /\ log[i].ts \in Int
<1>1. \A i \in 1..Len(log) : log[i] \in Entries
  BY ElementOfSeq
<1>2. \A e \in Entries : e.system \in Systems /\ e.ts \in Int
  BY DEF Entries
<1> QED BY <1>1, <1>2, LenProperties

LEMMA AppliedNewest ==
  ASSUME NEW st, NEW b \in Boards, b = st.board,
         NEW log \in Seq(Entries), NEW r \in [Systems -> Nat],
         NEW k \in 1..Len(log), \A s \in Systems : r[s] <= k - 1,
         NewestIn(b, log, r, k - 1)
  PROVE  NewestIn(Applied(st, log[k]).board, log, r, k)
<1> DEFINE e == log[k]
           of(s) == HeardOf(log, r, k, s)
           before(s) == HeardOf(log, r, k - 1, s)
           c == Applied(st, e).board
<1>1. k \in Nat /\ e \in Entries /\ e.system \in Systems /\ e.ts \in Int
  BY LogTyped
<1>2. \A s \in Systems : of(s) = IF e.system = s THEN before(s) \union {k} ELSE before(s)
  BY HeardOneMore
<1>3. \A s \in Systems : before(s) \subseteq 1..(k - 1) /\ of(s) \subseteq 1..k
  BY DEF HeardOf
<1>4. \A i \in 1..k : log[i].ts \in Int
  <2>1. Len(log) \in Nat /\ 1..k \subseteq 1..Len(log)
    BY LogTyped
  <2> QED BY <2>1, LogTyped
<1>5. DOMAIN b = {s \in Systems : before(s) # {}}
  BY DEF NewestIn
<1>6. ASSUME NEW s \in DOMAIN b
      PROVE  \E i \in 1..(k - 1) : b[s] = log[i] /\ IsNewest(log, i, before(s))
  BY DEF NewestIn
<1>7. c = IF Supersedes(e, b) THEN ShownAfter(b, e) ELSE b
  BY DEF Applied, ShownAfter
<1> HIDE DEF e, of, before, c
<1>8. DOMAIN c = {s \in Systems : of(s) # {}}
  <2>1. DOMAIN c = DOMAIN b \union {e.system}
    BY <1>7 DEF ShownAfter, Supersedes
  <2> QED BY <1>1, <1>2, <1>5, <2>1
<1>9. ASSUME NEW s \in DOMAIN c
      PROVE  \E i \in 1..k : c[s] = log[i] /\ IsNewest(log, i, of(s))
  <2>1. s \in Systems
    BY <1>8
  <2>2. CASE s # e.system
    <3>1. s \in DOMAIN b /\ c[s] = b[s] /\ of(s) = before(s)
      BY <1>2, <1>7, <2>1, <2>2 DEF ShownAfter
    <3>2. PICK i \in 1..(k - 1) : b[s] = log[i] /\ IsNewest(log, i, before(s))
      BY <1>6, <3>1
    <3>3. i \in 1..k
      BY <1>1
    <3> QED BY <3>1, <3>2, <3>3
  <2>3. CASE s = e.system /\ Supersedes(e, b)
    <3>1. c[s] = e /\ of(s) = before(s) \union {k}
      BY <1>2, <1>7, <2>1, <2>3 DEF ShownAfter
    <3>2. ASSUME NEW j \in before(s) PROVE Later(log, k, j)
      <4>1. s \in DOMAIN b
        BY <1>5, <2>1
      <4>2. PICK i \in 1..(k - 1) : b[s] = log[i] /\ IsNewest(log, i, before(s))
        BY <1>6, <4>1
      <4>3. log[i].ts <= log[k].ts
        <5>1. b[s].ts <= e.ts
          <6>1. b[s].ts \in Int
            BY <4>1, BoardsAre DEF Entries
          <6> QED BY <1>1, <2>3, <4>1, <6>1 DEF Supersedes
        <5> QED BY <4>2, <5>1 DEF e
      <4>4. j \in 1..(k - 1) /\ i \in 1..k /\ j \in 1..k
        BY <1>1, <1>3, <2>1
      <4>5. log[j].ts <= log[i].ts
        BY <1>4, <4>2, <4>4 DEF IsNewest, Later
      <4>6. log[j].ts \in Int /\ log[i].ts \in Int /\ log[k].ts \in Int /\ k \in 1..k
        BY <1>1, <1>4, <4>4
      <4> QED BY <1>1, <4>3, <4>4, <4>5, <4>6 DEF Later
    <3>3. IsNewest(log, k, of(s))
      <4>1. Later(log, k, k)
        BY <1>1 DEF Later
      <4> QED BY <3>1, <3>2, <4>1 DEF IsNewest
    <3>4. k \in 1..k
      BY <1>1
    <3> QED BY <3>1, <3>3, <3>4 DEF e
  <2>4. CASE s = e.system /\ ~Supersedes(e, b)
    <3>1. s \in DOMAIN b /\ c[s] = b[s] /\ of(s) = before(s) \union {k} /\ ~(e.ts >= b[s].ts)
      BY <1>2, <1>7, <2>1, <2>4 DEF Supersedes
    <3>2. PICK i \in 1..(k - 1) : b[s] = log[i] /\ IsNewest(log, i, before(s))
      BY <1>6, <3>1
    <3>3. Later(log, i, k)
      <4>1. b[s].ts \in Int
        BY <3>1, BoardsAre DEF Entries
      <4>2. e.ts < log[i].ts
        BY <1>1, <3>1, <3>2, <4>1
      <4> QED BY <4>2 DEF Later, e
    <3>4. IsNewest(log, i, of(s))
      <4> DEFINE o == of(s)
                 p == before(s)
      <4>1. o = p \union {k} /\ IsNewest(log, i, p)
        BY <3>1, <3>2
      <4> HIDE DEF o, p
      <4>2. IsNewest(log, i, o)
        BY <3>3, <4>1 DEF IsNewest
      <4> QED BY <4>2 DEF o
    <3>5. i \in 1..k
      BY <1>1
    <3> QED BY <3>1, <3>2, <3>4, <3>5
  <2> QED BY <2>2, <2>3, <2>4
<1>10. NewestIn(c, log, r, k)
  BY <1>8, <1>9 DEF NewestIn, of
<1> QED BY <1>10 DEF c, e

\* Reports applied after those of an older log, of which the rows removed so
\* far had seen no more.
LEMMA PasteNewest ==
  ASSUME NEW c, NEW st \in Told(c), NEW old \in Seq(Entries), NEW log \in Seq(Entries),
         NEW r \in [Systems -> Nat], \A s \in Systems : r[s] <= Len(old),
         NewestIn(st.board, old, r, Len(old))
  PROVE  /\ ApplyEntries(st, log) \in Told(c)
         /\ NewestIn(ApplyEntries(st, log).board, old \o log, r, Len(old \o log))
<1> DEFINE n == Len(log)
           m == Len(old)
           all == old \o log
<1>1. n \in Nat /\ m \in Nat /\ all \in Seq(Entries) /\ Len(all) = m + n
      /\ \A i \in 1..n : all[m + i] = log[i] /\ log[i] \in Entries
  <2>1. ASSUME NEW i \in 1..n PROVE all[m + i] = log[i]
    <3>1. m + i \in 1..(m + n) /\ ~(m + i <= m) /\ (m + i) - m = i
      BY LogTyped
    <3> QED BY <3>1, ConcatProperties
  <2> QED BY <2>1, LogTyped, ConcatProperties
<1>2. \A i \in 1..m : all[i] = old[i]
  <2>1. \A i \in 1..m : i \in 1..(m + n) /\ i <= m
    BY <1>1
  <2> QED BY <2>1, ConcatProperties
<1>3. PICK h \in [0..n -> Told(c)] :
        /\ h[0] = st /\ h[n] = ApplyEntries(st, log)
        /\ \A i \in 1..n : h[i] = Applied(h[i - 1], log[i])
  <2>1. \A x \in Told(c), e \in Entries : Applied(x, e) \in Told(c)
    BY AppliedKeeps
  <2>2. \E h \in [0..Len(log) -> Told(c)] : AppliedAlong(h, st, log)
    BY <2>1, AppliedFold
  <2> QED BY <2>2 DEF AppliedAlong
<1> HIDE DEF n, m, all
<1> DEFINE Good(i) == NewestIn(h[i].board, all, r, m + i)
           T == {i \in Nat : i <= n => Good(i)}
<1>4. Good(0)
  <2>1. \A s : HeardOf(all, r, m, s) = HeardOf(old, r, m, s)
    BY <1>2 DEF HeardOf
  <2>2. NewestIn(st.board, all, r, m)
    <3>1. NewestIn(st.board, old, r, m)
      BY DEF m
    <3>2. \A i \in 1..m, s \in Systems :
             IsNewest(all, i, HeardOf(all, r, m, s)) <=> IsNewest(old, i, HeardOf(old, r, m, s))
      <4>1. \A s : HeardOf(old, r, m, s) \subseteq 1..m
        BY DEF HeardOf
      <4> QED BY <1>2, <2>1, <4>1 DEF IsNewest, Later
    <3>3. DOMAIN st.board \subseteq Systems
      BY BoardsAre DEF Told
    <3> QED BY <1>2, <2>1, <3>1, <3>2, <3>3 DEF NewestIn
  <2>3. m + 0 = m
    BY <1>1
  <2> QED BY <1>3, <2>2, <2>3
<1>5. ASSUME NEW i \in Nat, i + 1 <= n, Good(i) PROVE Good(i + 1)
  <2>1. i \in 0..n /\ i + 1 \in 1..n /\ (i + 1) - 1 = i /\ m + (i + 1) \in 1..Len(all)
        /\ (m + (i + 1)) - 1 = m + i
    <3>1. n \in Nat /\ m \in Nat /\ Len(all) = m + n /\ i + 1 <= n
      BY <1>1, <1>5
    <3> QED BY <3>1
  <2>2. h[i] \in Told(c) /\ h[i].board \in Boards
    BY <1>3, <2>1 DEF Told
  <2>3. h[i + 1] = Applied(h[i], all[m + (i + 1)])
    BY <1>1, <1>3, <2>1
  <2>4. \A s \in Systems : r[s] <= (m + (i + 1)) - 1
    BY <1>1, <2>1 DEF m
  <2>5. NewestIn(h[i].board, all, r, (m + (i + 1)) - 1)
    BY <1>5, <2>1
  <2>6. NewestIn(Applied(h[i], all[m + (i + 1)]).board, all, r, m + (i + 1))
    BY <1>1, <2>1, <2>2, <2>4, <2>5, AppliedNewest
  <2> QED BY <2>2, <2>3, <2>6
<1>6. Good(n)
  <2> HIDE DEF Good
  <2>1. T \in SUBSET Nat /\ 0 \in T
    BY <1>4
  <2>2. \A i \in T : i + 1 \in T
    BY <1>1, <1>5
  <2>3. T = Nat
    <3> HIDE DEF T
    <3> QED BY <2>1, <2>2, NumbersBySteps
  <2> QED BY <1>1, <2>3
<1>7. h[n] \in Told(c)
  BY <1>1, <1>3
<1> QED BY <1>1, <1>3, <1>6, <1>7 DEF all, m, n

----------------------------------------------------------------------------
(* The panel asks about a pilot once: whoever was asked about is marked.   *)

AskInv ==
  /\ asks \in [Chars -> [Kinds -> Nat]] /\ DOMAIN marked = Kinds
  /\ \A c \in Chars, k \in Kinds : asks[c][k] <= 1 /\ (asks[c][k] = 1 => c \in marked[k])

LEMMA AskKeeps ==
  ASSUME AskInv, NEW chars, Ask(chars) PROVE AskInv'
<1>1. ASSUME NEW c \in Chars, NEW k \in Kinds
      PROVE  /\ asks'[c][k] \in Nat /\ asks'[c][k] <= 1
             /\ asks'[c][k] = 1 => c \in marked'[k]
  <2>1. asks[c][k] \in Nat /\ asks[c][k] <= 1 /\ (asks[c][k] = 1 => c \in marked[k])
    BY DEF AskInv
  <2>2. marked'[k] = marked[k] \union chars
        /\ asks'[c][k] = asks[c][k] + (IF c \in chars \ marked[k] THEN 1 ELSE 0)
    BY DEF Ask
  <2>3. CASE c \in chars \ marked[k]
    BY <2>1, <2>2, <2>3
  <2>4. CASE c \notin chars \ marked[k]
    BY <2>1, <2>2, <2>4
  <2> QED BY <2>3, <2>4
<1>2. DOMAIN marked' = Kinds
  BY DEF Ask
<1>3. asks' \in [Chars -> [Kinds -> Nat]]
  <2>1. asks' = [c \in Chars |-> [k \in Kinds |-> asks'[c][k]]]
    BY DEF Ask
  <2> QED BY <1>1, <2>1
<1> QED BY <1>1, <1>2, <1>3 DEF AskInv

\* A pilot named in the channel is asked about once between two CLEARs,
\* whatever is pasted while the answer is out (lookupChars, analyzeChars).
THEOREM PilotsAskedOnce == IntelSpec => []AskedOnce
<1>1. IntelInit => AskInv
  BY DEF IntelInit, AskInv
<1>2. AskInv /\ [IntelNext]_intelVars => AskInv'
  <2> SUFFICES ASSUME AskInv, [IntelNext]_intelVars PROVE AskInv'
    OBVIOUS
  <2>1. ASSUME NEW lines \in Texts, Paste(lines) PROVE AskInv'
    BY <2>1, AskKeeps DEF Paste
  <2>2. ASSUME NEW p \in lookups, LookupSettles(p) PROVE AskInv'
    <3>1. DOMAIN marked' = Kinds /\ \A k \in Kinds : marked[k] \subseteq marked'[k]
      BY <2>2 DEF LookupSettles, AskInv
    <3> QED BY <2>2, <3>1 DEF LookupSettles, AskInv
  <2>3. ASSUME Emptied PROVE AskInv'
    BY <2>3 DEF Emptied, AskInv
  <2>4. ASSUME UNCHANGED <<asks, marked>> PROVE AskInv'
    BY <2>4 DEF AskInv
  <2> QED BY <2>1, <2>2, <2>3, <2>4
      DEF IntelNext, RemoveRow, ClearAll, ChooseExpire, Elapse, Leave, Return, intelVars, pilotVars
<1>3. AskInv => AskedOnce
  BY DEF AskInv, AskedOnce
<1> QED BY <1>1, <1>2, <1>3, PTL DEF IntelSpec

----------------------------------------------------------------------------
(* The board, what was notified, and what the map rings.                   *)

ClockInv ==
  /\ clock \in Nat /\ now \in Int /\ untilTick \in 1..Tick /\ expire \in ExpireOptions
  /\ mounted \in BOOLEAN
  /\ mounted => clock - now + untilTick = Tick

BoardInv ==
  /\ [board |-> board, fired |-> fired, notices |-> notices] \in Told(starts)
  /\ heard \in Seq(Entries) /\ removed \in [Systems -> Nat]
  /\ \A s \in Systems : removed[s] <= Len(heard)
  /\ NewestIn(board, heard, removed, Len(heard))

AlertInv == mounted => alerts = Ringed(Rows(board, now, expire))

IntelInv == ClockInv /\ BoardInv /\ AlertInv

LEMMA EmptyBoard ==
  ASSUME NEW b, NEW f, NEW ns \in Seq(Systems \X Int), NEW c \in SUBSET (0..Len(ns)), NEW h, NEW r,
         b = <<>>, f = {}, NoticeLog(f, ns, c), h = <<>>, r = [s \in Systems |-> 0]
  PROVE  /\ [board |-> b, fired |-> f, notices |-> ns] \in Told(c)
         /\ h \in Seq(Entries) /\ r \in [Systems -> Nat]
         /\ \A s \in Systems : r[s] <= Len(h)
         /\ NewestIn(b, h, r, Len(h))
<1>1. b \in Boards /\ DOMAIN b = {}
  <2>1. b = [s \in {} |-> b[s]] /\ DOMAIN b = {}
    OBVIOUS
  <2> QED BY <2>1, BoardsAre
<1>2. Shouted(b, f)
  BY <1>1 DEF Shouted
<1>3. Len(h) = 0 /\ 1..0 = {}
  OBVIOUS
<1>4. NewestIn(b, h, r, 0)
  BY <1>1, <1>3 DEF NewestIn, HeardOf
<1>5. [board |-> b, fired |-> f, notices |-> ns] \in Told(c)
  <2> DEFINE x == [board |-> b, fired |-> f, notices |-> ns]
  <2>1. x \in [board : Boards, fired : SUBSET (Systems \X Int), notices : Seq(Systems \X Int)]
    BY <1>1
  <2>2. x.board = b /\ x.fired = f /\ x.notices = ns
    OBVIOUS
  <2> HIDE DEF x
  <2> QED BY <1>2, <2>1, <2>2 DEF Told
<1>6. h \in Seq(Entries) /\ r \in [Systems -> Nat] /\ \A s \in Systems : r[s] <= Len(h)
  BY <1>3
<1> QED BY <1>3, <1>4, <1>5, <1>6

LEMMA PasteKeepsBoard ==
  ASSUME ClockInv, BoardInv, NEW lines \in Texts, Paste(lines) PROVE BoardInv'
<1> DEFINE st == [board |-> board, fired |-> fired, notices |-> notices]
           entries == ParseIntelText(lines)
           after == ApplyEntries(st, entries)
<1>1. entries \in Seq(Entries)
  BY ParseTyped DEF ClockInv
<1>2. /\ board' = after.board /\ fired' = after.fired /\ notices' = after.notices
      /\ starts' = starts /\ heard' = heard \o entries /\ removed' = removed
  BY DEF Paste
<1> HIDE DEF entries
<1>3. after \in Told(starts) /\ NewestIn(after.board, heard \o entries, removed, Len(heard \o entries))
  <2>1. st \in Told(starts) /\ NewestIn(st.board, heard, removed, Len(heard)) /\ heard \in Seq(Entries)
        /\ removed \in [Systems -> Nat] /\ \A s \in Systems : removed[s] <= Len(heard)
    BY DEF BoardInv
  <2> HIDE DEF st
  <2> QED BY <1>1, <2>1, PasteNewest
<1> HIDE DEF after
<1>4. after = [board |-> after.board, fired |-> after.fired, notices |-> after.notices]
  BY <1>3 DEF Told
<1>5. Len(heard) \in Nat /\ Len(entries) \in Nat /\ Len(heard \o entries) = Len(heard) + Len(entries)
      /\ heard \o entries \in Seq(Entries)
  BY <1>1, ConcatProperties, LenProperties DEF BoardInv
<1>6. \A s \in Systems : removed[s] \in Nat /\ removed[s] <= Len(heard) + Len(entries)
  BY <1>5 DEF BoardInv
<1> QED BY <1>2, <1>3, <1>4, <1>5, <1>6 DEF BoardInv

LEMMA RemoveKeepsBoard ==
  ASSUME BoardInv, NEW s \in Systems, RemoveRow(s) PROVE BoardInv'
<1> DEFINE k == Len(heard)
<1>1. /\ board' = [t \in DOMAIN board \ {s} |-> board[t]]
      /\ removed' = [removed EXCEPT ![s] = k]
      /\ UNCHANGED <<fired, notices, starts, heard>>
  BY DEF RemoveRow, Restrict, noticeVars
<1>2. /\ k \in Nat /\ board \in Boards /\ Shouted(board, fired)
      /\ fired \in SUBSET (Systems \X Int) /\ notices \in Seq(Systems \X Int)
      /\ starts \in SUBSET (0..Len(notices)) /\ NoticeLog(fired, notices, starts)
  BY LenProperties DEF BoardInv, Told
<1>3. board' \in Boards
  <2>1. board' = [t \in DOMAIN board' |-> board'[t]] /\ DOMAIN board' \subseteq DOMAIN board
        /\ \A t \in DOMAIN board' : board'[t] = board[t]
    BY <1>1
  <2>2. \A t \in DOMAIN board' : board'[t] \in Entries /\ board'[t].system = t
    BY <1>2, <2>1, BoardsAre
  <2> QED BY <1>2, <2>1, <2>2, BoardsAre
<1>4. Shouted(board', fired')
  BY <1>1, <1>2 DEF Shouted
<1>5. removed' \in [Systems -> Nat] /\ \A t \in Systems : removed'[t] <= k
  BY <1>1, <1>2 DEF BoardInv
<1>6. \A t \in Systems : HeardOf(heard, removed', k, t)
                           = IF t = s THEN {} ELSE HeardOf(heard, removed, k, t)
  <2>1. ~(\E i \in 1..k : i > k)
    BY <1>2
  <2>2. removed'[s] = k /\ \A t \in Systems : t # s => removed'[t] = removed[t]
    BY <1>1 DEF BoardInv
  <2> QED BY <2>1, <2>2 DEF HeardOf
<1>7. NewestIn(board', heard, removed', k)
  <2>1. NewestIn(board, heard, removed, k)
    BY DEF BoardInv
  <2>2. DOMAIN board' = {t \in Systems : HeardOf(heard, removed', k, t) # {}}
    BY <1>1, <1>6, <2>1 DEF NewestIn
  <2>3. ASSUME NEW t \in DOMAIN board'
        PROVE  \E i \in 1..k : board'[t] = heard[i] /\ IsNewest(heard, i, HeardOf(heard, removed', k, t))
    <3>1. t \in DOMAIN board /\ t # s /\ t \in Systems /\ board'[t] = board[t]
      BY <1>1, <2>2
    <3>2. PICK i \in 1..k : board[t] = heard[i] /\ IsNewest(heard, i, HeardOf(heard, removed, k, t))
      BY <2>1, <3>1 DEF NewestIn
    <3>3. HeardOf(heard, removed', k, t) = HeardOf(heard, removed, k, t)
      BY <1>6, <3>1
    <3> QED BY <3>1, <3>2, <3>3
  <2> QED BY <2>2, <2>3 DEF NewestIn
<1> QED BY <1>1, <1>3, <1>4, <1>5, <1>7, <1>2 DEF BoardInv, Told

LEMMA ClockKept ==
  ASSUME ClockInv, [IntelNext]_intelVars PROVE ClockInv'
<1> USE IntelAssumption DEF IntelAssumption
<1>1. ASSUME Elapse PROVE ClockInv'
  <2>1. clock' \in Nat /\ untilTick' \in 1..Tick
    BY <1>1 DEF Elapse, ClockInv
  <2>2. now' \in Int
    BY <1>1, <2>1 DEF Elapse, ClockInv
  <2>3. ASSUME mounted PROVE clock' - now' + untilTick' = Tick
    <3>1. CASE untilTick = 1
      BY <1>1, <2>1, <2>3, <3>1 DEF Elapse, ClockInv
    <3>2. CASE untilTick # 1
      BY <1>1, <2>1, <2>3, <3>2 DEF Elapse, ClockInv
    <3> QED BY <3>1, <3>2
  <2> QED BY <1>1, <2>1, <2>2, <2>3 DEF Elapse, ClockInv
<1>2. ASSUME Return PROVE ClockInv'
  BY <1>2 DEF Return, ClockInv
<1>3. ASSUME NEW x \in ExpireOptions, ChooseExpire(x) PROVE ClockInv'
  BY <1>3 DEF ChooseExpire, ClockInv, clockVars
<1>4. ASSUME Leave PROVE ClockInv'
  BY <1>4 DEF Leave, ClockInv, clockVars, view
<1>5. ASSUME UNCHANGED <<mounted, clockVars, now, expire>> PROVE ClockInv'
  BY <1>5 DEF ClockInv, clockVars
<1> QED BY <1>1, <1>2, <1>3, <1>4, <1>5
    DEF IntelNext, Paste, LookupSettles, RemoveRow, ClearAll, intelVars, view

\* Whatever changes the rows tells the map (the effect on the rows).
LEMMA AlertsKept ==
  ASSUME AlertInv, [IntelNext]_intelVars PROVE AlertInv'
<1>1. ASSUME TellMap PROVE AlertInv'
  BY <1>1 DEF TellMap, AlertInv
<1>2. ASSUME UNCHANGED <<mounted, view, alerts>> PROVE AlertInv'
  BY <1>2 DEF AlertInv, view
<1>3. ASSUME ~mounted' PROVE AlertInv'
  BY <1>3 DEF AlertInv
<1>4. ASSUME Elapse PROVE AlertInv'
  BY <1>1, <1>3, <1>4 DEF Elapse
<1> QED BY <1>1, <1>2, <1>3, <1>4
    DEF IntelNext, Paste, LookupSettles, RemoveRow, ClearAll, ChooseExpire, Leave, Return, intelVars

LEMMA BoardKept ==
  ASSUME ClockInv, BoardInv, [IntelNext]_intelVars PROVE BoardInv'
<1>1. ASSUME Emptied PROVE BoardInv'
  <2>1. /\ notices \in Seq(Systems \X Int) /\ starts \in SUBSET (0..Len(notices))
        /\ NoticeLog(fired, notices, starts)
    BY DEF BoardInv, Told
  <2>2. notices' = notices /\ starts' = starts \union {Len(notices)} /\ fired' = {}
    BY <1>1 DEF Emptied
  <2>3. /\ notices' \in Seq(Systems \X Int) /\ starts' \in SUBSET (0..Len(notices'))
        /\ NoticeLog(fired', notices', starts')
    <3>1. Len(notices) \in Nat /\ DOMAIN notices = 1..Len(notices)
      BY <2>1, LenProperties
    <3> QED BY <2>1, <2>2, <3>1, FreshNotices
  <2> QED BY <1>1, <2>3, EmptyBoard DEF Emptied, BoardInv
<1>2. ASSUME UNCHANGED <<board, noticeVars, heard, removed>> PROVE BoardInv'
  BY <1>2 DEF BoardInv, noticeVars
<1> QED BY <1>1, <1>2, PasteKeepsBoard, RemoveKeepsBoard
    DEF IntelNext, LookupSettles, ClearAll, ChooseExpire, Elapse, Leave, Return, intelVars, view, history

LEMMA IntelInvHolds == IntelSpec => []IntelInv
<1>1. IntelInit => IntelInv
  <2> SUFFICES ASSUME IntelInit PROVE IntelInv
    OBVIOUS
  <2>1. ClockInv
    BY IntelAssumption DEF IntelInit, ClockInv, IntelAssumption
  <2>2. BoardInv
    <3>1. notices \in Seq(Systems \X Int) /\ starts \in SUBSET (0..Len(notices))
      BY DEF IntelInit
    <3>2. NoticeLog(fired, notices, starts)
      <4>1. Since(notices, starts) = {} /\ Apart(notices, starts)
        BY DEF IntelInit, Since, Apart
      <4> QED BY <4>1 DEF IntelInit, NoticeLog
    <3> QED BY <3>1, <3>2, EmptyBoard DEF IntelInit, BoardInv
  <2>3. AlertInv
    BY DEF IntelInit, AlertInv, Ringed, Rows
  <2> QED BY <2>1, <2>2, <2>3 DEF IntelInv
<1>2. IntelInv /\ [IntelNext]_intelVars => IntelInv'
  BY ClockKept, BoardKept, AlertsKept DEF IntelInv
<1> QED BY <1>1, <1>2, PTL DEF IntelSpec

\* Whatever is pasted, in whatever pieces and order, and whatever rows were
\* removed: the board shows the newest report of each system since its row
\* was removed, and nothing else (applyEntries, removeRow, CLEAR).
THEOREM BoardShowsNewest == IntelSpec => []BoardIsNewest
<1>1. IntelInv => BoardIsNewest
  <2> SUFFICES ASSUME IntelInv PROVE BoardIsNewest
    OBVIOUS
  <2> DEFINE of(s) == {i \in DOMAIN heard : i > removed[s] /\ heard[i].system = s}
  <2>1. NewestIn(board, heard, removed, Len(heard)) /\ DOMAIN heard = 1..Len(heard)
    BY LenProperties DEF IntelInv, BoardInv
  <2>2. \A s : HeardOf(heard, removed, Len(heard), s) = of(s)
    BY <2>1 DEF HeardOf
  <2> HIDE DEF of
  <2>3. DOMAIN board = {s \in Systems : of(s) # {}}
    BY <2>1, <2>2 DEF NewestIn
  <2>4. \A s \in DOMAIN board : \E i \in of(s) :
           board[s] = heard[i] /\ \A j \in of(s) : Later(heard, i, j)
    BY <2>1, <2>2 DEF NewestIn, IsNewest
  <2> QED BY <2>3, <2>4 DEF BoardIsNewest, of, Later
<1> QED BY <1>1, IntelInvHolds, PTL

\* A hostile report that the board shows of a system of ours or of a gate was
\* notified since the panel last started empty, and one report is notified a
\* second time only after CLEAR or a new mount (notifiedRef in applyEntries).
THEOREM NoticeComesOnce == IntelSpec => []NoticeOnce
<1>1. IntelInv => NoticeOnce
  <2> SUFFICES ASSUME IntelInv PROVE NoticeOnce
    OBVIOUS
  <2>1. NoticeLog(fired, notices, starts) /\ Shouted(board, fired)
    BY DEF IntelInv, BoardInv, Told
  <2>2. ASSUME NEW s \in DOMAIN board, Alarming(board[s])
        PROVE  \E i \in DOMAIN notices :
                   notices[i] = Key(board[s]) /\ \A k \in starts : k < i
    <3>1. PICK i \in Since(notices, starts) : notices[i] = Key(board[s])
      BY <2>1, <2>2 DEF NoticeLog, Shouted
    <3> QED BY <3>1 DEF Since
  <2>3. Apart(notices, starts)
    BY <2>1 DEF NoticeLog
  <2> QED BY <2>2, <2>3 DEF Apart, NoticeOnce
<1> QED BY <1>1, IntelInvHolds, PTL

LEMMA RowsFinite ==
  ASSUME NEW b \in Boards, NEW t, NEW x PROVE IsFiniteSet(Rows(b, t, x))
<1> DEFINE D == DOMAIN b
           g == [s \in D |-> Row(b[s], t, x)]
<1>1. IsFiniteSet(D)
  BY IntelAssumption, BoardsAre, FS_Subset DEF IntelAssumption
<1>2. g \in Surjection(D, Rows(b, t, x))
  BY DEF Surjection, Rows
<1> HIDE DEF g, D
<1> QED BY <1>1, <1>2, FS_Surjection

\* The entries of rows are as many as the rows.
LEMMA EntriesAsRows ==
  ASSUME NEW b, NEW t, NEW x, IsFiniteSet(Rows(b, t, x)), NEW R \in SUBSET Rows(b, t, x)
  PROVE  /\ IsFiniteSet(R)
         /\ Cardinality({r.entry : r \in R}) = Cardinality(R)
<1> DEFINE E == {r.entry : r \in R}
           g == [r \in R |-> r.entry]
<1>1. \A r \in R : r = Row(r.entry, t, x)
  BY DEF Rows, Row
<1>2. g \in Bijection(R, E)
  <2>1. g \in [R -> E] /\ \A e \in E : \E r \in R : g[r] = e
    OBVIOUS
  <2>2. IsInjective(g)
    BY <1>1 DEF IsInjective
  <2> QED BY <2>1, <2>2 DEF Bijection, Injection, Surjection
<1>3. IsFiniteSet(R)
  BY FS_Subset
<1> HIDE DEF g, E
<1>4. Cardinality(E) = Cardinality(R)
  BY <1>2, <1>3, FS_Bijection DEF ExistsBijection
<1> QED BY <1>3, <1>4 DEF E

\* The map rings no report much longer than it lives, and what the badges, COPY
\* and the map count as live is one thing (intelAlertSet, the panel's interval).
THEOREM RingsStayFresh == IntelSpec => []RingsFresh
<1>1. IntelInv => RingsFresh
  <2> SUFFICES ASSUME IntelInv, mounted PROVE RingsFresh
    BY DEF RingsFresh
  <2> DEFINE rows == Rows(board, now, expire)
             ringed == {r \in rows : Live(r) /\ r.entry.count > 0}
             ours == {r \in rows : Live(r) /\ r.entry.system \in Primary /\ r.entry.count > 0}
             live == {r \in rows : Live(r)}
             copied == {r \in rows : ~r.expired}
  <2>1. board \in Boards
    BY DEF IntelInv, BoardInv, Told
  <2>2. IsFiniteSet(rows)
    BY <2>1, RowsFinite
  <2>3. alerts = {r.entry : r \in ringed}
    BY DEF IntelInv, AlertInv, Ringed
  <2>4. ASSUME NEW e \in alerts PROVE clock - e.ts < expire + Tick
    <3>1. PICK s \in DOMAIN board : board[s] = e /\ ~(now - e.ts > expire)
      <4>1. PICK r \in ringed : e = r.entry
        BY <2>3
      <4>2. PICK s \in DOMAIN board : r = Row(board[s], now, expire)
        BY <4>1 DEF Rows
      <4>3. r.entry = board[s] /\ r.expired = (now - board[s].ts > expire) /\ ~r.expired
        BY <4>1, <4>2 DEF Row, Live
      <4> QED BY <4>1, <4>3
    <3>2. e.ts \in Int
      BY <2>1, <3>1, BoardsAre DEF Entries
    <3>3. clock \in Nat /\ now \in Int /\ untilTick \in 1..Tick /\ expire \in Nat /\ Tick \in Nat
          /\ clock - now + untilTick = Tick
      BY IntelAssumption DEF IntelInv, ClockInv, IntelAssumption
    <3> QED BY <3>1, <3>2, <3>3
  <2>5. PrimaryAlerts(rows) = Cardinality({e \in alerts : e.system \in Primary})
    <3>1. {e \in alerts : e.system \in Primary} = {r.entry : r \in ours}
      BY <2>3
    <3>2. ours \in SUBSET rows
      OBVIOUS
    <3>3. Cardinality({r.entry : r \in ours}) = Cardinality(ours)
      <4> HIDE DEF ours
      <4> QED BY <2>2, <3>2, EntriesAsRows
    <3> QED BY <3>1, <3>3 DEF PrimaryAlerts
  <2>6. Cardinality(alerts) <= ActiveCount(rows)
    <3>1. ringed \in SUBSET rows /\ ringed \in SUBSET live /\ live \in SUBSET rows
      OBVIOUS
    <3>2. Cardinality(alerts) = Cardinality(ringed)
      <4> HIDE DEF ringed
      <4> QED BY <2>2, <2>3, <3>1, EntriesAsRows
    <3>3. IsFiniteSet(live)
      BY <2>2, <3>1, FS_Subset
    <3>4. Cardinality(ringed) <= Cardinality(live)
      BY <3>1, <3>3, FS_Subset
    <3> QED BY <3>2, <3>4 DEF ActiveCount
  <2>7. ActiveCount(rows) <= Cardinality(Copied(rows))
    <3>1. copied \in SUBSET rows /\ live \in SUBSET copied
      BY DEF Live
    <3>2. IsFiniteSet(copied)
      BY <2>2, <3>1, FS_Subset
    <3>3. Cardinality(live) <= Cardinality(copied)
      BY <3>1, <3>2, FS_Subset
    <3> QED BY <3>3 DEF ActiveCount, Copied
  <2> QED BY <2>4, <2>5, <2>6, <2>7 DEF RingsFresh
<1> QED BY <1>1, IntelInvHolds, PTL

----------------------------------------------------------------------------
(* The hook.  The invariant that carries its promise is OneLiveRequest:     *)
(* whatever is still alive is the request the controller belongs to, and    *)
(* was made under the present text.                                         *)

\* A controller belongs to one request.
OwnController == \A q, r \in aiReqs : q.id = r.id => q = r

AiInv == AiTypeOK /\ OneLiveRequest /\ OwnController

\* Every aborted copy of a request is a request, and it is aborted: what was
\* not the controller's own was aborted before.
LEMMA AbortedFacts ==
    ASSUME AiTypeOK, OneLiveRequest, NEW q \in Aborted(abortRef)
    PROVE  q \in Request /\ q.id <= asked /\ q.aborted = TRUE
<1>1. PICK r \in aiReqs : q = [r EXCEPT !.aborted = r.aborted \/ r.id = abortRef]
    BY DEF Aborted
<1>2. r \in Request
    BY DEF AiTypeOK
<1>3. q.id = r.id /\ q.aborted = (r.aborted \/ r.id = abortRef)
    BY <1>1, <1>2 DEF Request
<1>4. r.aborted = TRUE \/ r.id = abortRef
    BY <1>2 DEF OneLiveRequest, Request
<1>5. q.aborted = TRUE
    BY <1>3, <1>4, Zenon
<1>6. (r.aborted \/ r.id = abortRef) \in BOOLEAN
    OBVIOUS
<1>7. q \in Request
    BY <1>1, <1>2, <1>6 DEF Request
<1> QED BY <1>3, <1>5, <1>7 DEF OneLiveRequest

\* Aborting keeps controllers apart.
LEMMA AbortedApart ==
    ASSUME AiTypeOK, OwnController, NEW p \in Aborted(abortRef), NEW q \in Aborted(abortRef),
           p.id = q.id
    PROVE  p = q
<1>1. PICK r \in aiReqs : p = [r EXCEPT !.aborted = r.aborted \/ r.id = abortRef]
    BY DEF Aborted
<1>2. PICK s \in aiReqs : q = [s EXCEPT !.aborted = s.aborted \/ s.id = abortRef]
    BY DEF Aborted
<1>3. r \in Request /\ s \in Request
    BY DEF AiTypeOK
<1>4. p.id = r.id /\ q.id = s.id
    BY <1>1, <1>2, <1>3 DEF Request
<1>5. r = s
    BY <1>4 DEF OwnController
<1> QED BY <1>1, <1>2, <1>5

\* The first state: an empty box, no request.
LEMMA AiInitInv == AiInit => AiInv
<1> SUFFICES ASSUME AiInit PROVE AiInv
    OBVIOUS
<1> USE AiAssumption DEF AiInit
<1>1. key \in Keys /\ asked \in 0..MaxAsks
    OBVIOUS
<1>2. summary \in [key : Keys, about : Abouts] \union {None}
    OBVIOUS
<1>3. aiError \in BOOLEAN /\ generating \in BOOLEAN
    BY Zenon
<1>4. abortRef \in 1..MaxAsks \union {None} /\ aiReqs \subseteq Request
    OBVIOUS
<1>5. OneLiveRequest /\ OwnController
    BY DEF OneLiveRequest, OwnController
<1> QED BY <1>1, <1>2, <1>3, <1>4, <1>5, Zenon DEF AiInv, AiTypeOK

\* A change of the text leaves only aborted requests.
LEMMA ResetInv ==
    ASSUME AiInv, NEW k \in Keys, Reset(k)
    PROVE  AiInv'
<1> USE DEF AiInv, Reset
<1>1. \A q \in aiReqs' : q \in Request /\ q.id <= asked /\ q.aborted = TRUE
    BY AbortedFacts
<1>2. key' \in Keys /\ asked' \in 0..MaxAsks
    BY DEF AiTypeOK
<1>3. summary' \in [key : Keys, about : Abouts] \union {None}
    OBVIOUS
<1>4. aiError' \in BOOLEAN /\ generating' \in BOOLEAN
    BY Zenon DEF AiTypeOK
<1>5. abortRef' \in 1..MaxAsks \union {None}
    OBVIOUS
<1>6. OneLiveRequest'
    BY <1>1 DEF OneLiveRequest
<1>7. OwnController'
    BY AbortedApart DEF OwnController
<1> QED BY <1>1, <1>2, <1>3, <1>4, <1>5, <1>6, <1>7 DEF AiTypeOK

\* A new request is the one that is alive.
LEMMA GenerateInv ==
    ASSUME AiInv, NEW a \in Abouts, Generate(a)
    PROVE  AiInv'
<1> DEFINE new == [id |-> asked + 1, key |-> key, about |-> a, aborted |-> FALSE]
<1> USE AiAssumption DEF AiInv
<1>1. \A q \in Aborted(abortRef) : q \in Request /\ q.id <= asked /\ q.aborted = TRUE
    BY AbortedFacts
<1>2. asked + 1 \in 1..MaxAsks
    BY DEF Generate, AiTypeOK
<1>3. new \in Request /\ new.id = asked + 1 /\ new.key = key
    BY <1>2 DEF Request, AiTypeOK
<1>4. aiReqs' = Aborted(abortRef) \union {new} /\ abortRef' = asked + 1
      /\ key' = key /\ asked' = asked + 1 /\ summary' = None
    BY DEF Generate
<1>5. aiError' \in BOOLEAN /\ generating' \in BOOLEAN
    BY Zenon DEF Generate
<1> HIDE DEF new
<1>6. aiReqs' \subseteq Request
    BY <1>1, <1>3, <1>4
<1>7. key' \in Keys /\ asked' \in 0..MaxAsks /\ abortRef' \in 1..MaxAsks \union {None}
    BY <1>2, <1>4 DEF AiTypeOK
<1>8. summary' \in [key : Keys, about : Abouts] \union {None}
    BY <1>4
<1>9. AiTypeOK'
    BY <1>5, <1>6, <1>7, <1>8 DEF AiTypeOK
<1>10. ASSUME NEW q \in aiReqs'
       PROVE  q.id <= asked' /\ (~q.aborted => abortRef' = q.id /\ q.key = key')
    <2>1. CASE q = new
        BY <1>2, <1>3, <1>4, <2>1 DEF AiTypeOK
    <2>2. CASE q \in Aborted(abortRef)
        BY <1>1, <1>2, <1>4, <2>2 DEF AiTypeOK, Request
    <2> QED BY <1>4, <1>10, <2>1, <2>2
<1>11. ASSUME NEW p \in aiReqs', NEW q \in aiReqs', p.id = q.id
       PROVE  p = q
    <2>1. \A s \in Aborted(abortRef) : s.id # new.id
        BY <1>1, <1>3 DEF AiTypeOK, Request
    <2> QED BY <1>4, <1>11, <2>1, AbortedApart
<1> QED BY <1>9, <1>10, <1>11 DEF OneLiveRequest, OwnController

\* A request that settles leaves; if it was the live one, none is alive.
LEMMA SettleInv ==
    ASSUME AiInv, NEW r \in aiReqs, Answered(r) \/ Failed(r) \/ Dropped(r)
    PROVE  AiInv'
<1> USE AiAssumption DEF AiInv
<1>1. r \in Request
    BY DEF AiTypeOK
<1>2. aiReqs' = aiReqs \ {r} /\ key' = key /\ asked' = asked
      /\ abortRef' = IF abortRef = r.id THEN None ELSE abortRef
    BY DEF Answered, Failed, Dropped, Finally
<1>3. summary' \in [key : Keys, about : Abouts] \union {None}
    BY <1>1 DEF Answered, Failed, Dropped, AiTypeOK, Request
<1>4. aiError' \in BOOLEAN
    BY Zenon DEF Answered, Failed, Dropped, AiTypeOK
<1>5. generating' \in BOOLEAN
    BY Zenon DEF Answered, Failed, Dropped, Finally, AiTypeOK
<1>6. key' \in Keys /\ asked' \in 0..MaxAsks /\ abortRef' \in 1..MaxAsks \union {None}
      /\ aiReqs' \subseteq Request
    BY <1>2 DEF AiTypeOK
<1>7. AiTypeOK'
    BY <1>3, <1>4, <1>5, <1>6 DEF AiTypeOK
<1>8. OneLiveRequest'
    BY <1>2 DEF OneLiveRequest, OwnController
<1>9. OwnController'
    BY <1>2 DEF OwnController
<1> QED BY <1>7, <1>8, <1>9

\* Every step of the hook preserves the invariant.
LEMMA AiStepInv ==
    ASSUME AiInv, [AiNext]_aiVars
    PROVE  AiInv'
<1>1. CASE UNCHANGED aiVars
    BY <1>1 DEF AiInv, aiVars, AiTypeOK, OneLiveRequest, OwnController
<1> QED BY <1>1, ResetInv, GenerateInv, SettleInv DEF AiNext, AiSettle

\* The variables and requests of the hook keep their types (useAiSummary.js).
THEOREM AiTyping == AiSpec => []AiTypeOK
<1>1. AiInv => AiTypeOK
    BY DEF AiInv
<1> QED BY <1>1, AiInitInv, AiStepInv, PTL DEF AiSpec

\* At most the controller's own request is alive, and it was made under the
\* text that is in the box (the abort of useAiSummary.js:20).
THEOREM AiOneLive == AiSpec => []OneLiveRequest
<1>1. AiInv => OneLiveRequest
    BY DEF AiInv
<1> QED BY <1>1, AiInitInv, AiStepInv, PTL DEF AiSpec
-----------------------------------------------------------------------------
(* The refinement                                                            *)

\* The first state of the hook is a first state of the promise.
LEMMA InitRefines == AiInit => Latest!Init
BY DEF AiInit, Latest!Init, ShownKey

\* Every step of the hook asks, forgets, answers or leaves the box alone.
LEMMA StepRefines ==
    ASSUME AiInv, [AiNext]_aiVars
    PROVE  [Latest!Next]_(Latest!vars)
<1> USE DEF AiInv
<1>1. ASSUME NEW k \in Keys, Reset(k)
      PROVE  Latest!Next
    BY <1>1 DEF Reset, ShownKey, Latest!Next, Latest!Ask
<1>2. ASSUME NEW a \in Abouts, Generate(a)
      PROVE  Latest!Next
    BY <1>2 DEF Generate, ShownKey, Latest!Next, Latest!Forget
<1>3. ASSUME NEW r \in aiReqs, Answered(r)
      PROVE  Latest!Next
    <2>0. [key |-> r.key, about |-> r.about] \in [key : Keys, about : Abouts]
        BY DEF AiTypeOK, Request
    <2>1. r.key = key /\ key' = key
        BY <1>3 DEF Answered, OneLiveRequest
    <2>2. summary' = [key |-> r.key, about |-> r.about] /\ summary' # None
        BY <1>3, <2>0, AiAssumption DEF Answered
    <2>3. ShownKey' = key
        BY <2>1, <2>2 DEF ShownKey
    <2> QED BY <2>1, <2>3 DEF Latest!Next, Latest!Answer
<1>4. ASSUME NEW r \in aiReqs, Failed(r) \/ Dropped(r)
      PROVE  UNCHANGED Latest!vars
    BY <1>4 DEF Failed, Dropped, ShownKey, Latest!vars
<1>5. CASE UNCHANGED aiVars
    BY <1>5 DEF aiVars, ShownKey, Latest!vars
<1> QED BY <1>1, <1>2, <1>3, <1>4, <1>5 DEF AiNext, AiSettle

\* The hook implements LatestAnswer: whatever is edited, asked, aborted,
\* answered late or failed, the box never shows an answer that was asked under
\* another text (useAiSummary.js:8-11).
THEOREM AiImplementsLatest == AiSpec => LatestSpec
<1> QED BY AiInitInv, AiStepInv, InitRefines, StepRefines, PTL
        DEF AiSpec, LatestSpec, Latest!Spec

----------------------------------------------------------------------------
(* The panels around it                                                     *)

\* Results are answers for texts that were in the box.
FromTheBox ==
    /\ key \in Keys
    /\ results \in Keys \union {None}
    /\ scans \subseteq [id : Nat, input : Keys, step : {"names", "risk"}]
    /\ scanned \in Nat

\* What can be described to the model is a text's parse or a text's answer.
LEMMA ShownIsAbout == FromTheBox /\ Shown # None => Shown \in Abouts
BY ScannerAssumption DEF FromTheBox, Shown

LEMMA FromTheBoxInit == ScannerInit => FromTheBox
BY DEF ScannerInit, AiInit, FromTheBox

LEMMA FromTheBoxStep == FromTheBox /\ [ScannerNext]_vars => FromTheBox'
<1> SUFFICES ASSUME FromTheBox, [ScannerNext]_vars PROVE FromTheBox'
    OBVIOUS
<1> USE ScannerAssumption DEF FromTheBox
<1>1. ASSUME NEW k \in Keys, Edit(k) PROVE FromTheBox'
    BY <1>1 DEF Edit, Reset
<1>2. ASSUME Clear PROVE FromTheBox'
    BY <1>2 DEF Clear, Reset, aiVars
<1>3. ASSUME Scan PROVE FromTheBox'
    BY <1>3 DEF Scan, aiVars
<1>4. ASSUME NEW s \in scans, ScanAnswered(s) \/ ScanFailed(s) \/ RiskAnswered(s)
      PROVE  FromTheBox'
    <2>1. [s EXCEPT !.step = "risk"] \in [id : Nat, input : Keys, step : {"names", "risk"}]
        OBVIOUS
    <2>2. scans' \subseteq scans \union {[s EXCEPT !.step = "risk"]}
        BY <1>4 DEF ScanAnswered, ScanFailed, RiskAnswered
    <2>3. results' \in {results, s.input} /\ key' = key /\ scanned' = scanned
        BY <1>4 DEF ScanAnswered, ScanFailed, RiskAnswered, aiVars
    <2> QED BY <2>1, <2>2, <2>3
<1>5. ASSUME UNCHANGED <<results, scans, scanned>>, key' = key PROVE FromTheBox'
    BY <1>5
<1>6. CASE AskAi \/ AiAnswers
    BY <1>5, <1>6 DEF AskAi, Generate, AiAnswers, AiSettle, Answered, Failed, Dropped, panelVars
<1>7. CASE ShareClick \/ ToggleClick \/ RetryClick
    BY <1>5, <1>7 DEF ShareClick, ToggleClick, Publish, RetryClick, aiVars, panelVars
<1>8. CASE \E p \in pending : Published(p) \/ PublishFailed(p)
    BY <1>5, <1>8 DEF Published, PublishFailed, aiVars, panelVars
<1>9. CASE UNCHANGED vars
    BY <1>5, <1>9 DEF vars, aiVars, panelVars
<1> QED BY <1>1, <1>2, <1>3, <1>4, <1>6, <1>7, <1>8, <1>9
        DEF ScannerNext, ScanClick, DebounceFires

\* Every step of a panel is a step of the hook or leaves the hook alone.
LEMMA StepKeepsAi == FromTheBox /\ [ScannerNext]_vars => [AiNext]_aiVars
<1> SUFFICES ASSUME FromTheBox, [ScannerNext]_vars PROVE [AiNext]_aiVars
    OBVIOUS
<1>1. ASSUME NEW k \in Keys, Edit(k) PROVE AiNext
    BY <1>1 DEF Edit, AiNext
<1>2. CASE Clear
    BY <1>2, ScannerAssumption DEF Clear, AiNext
<1>3. CASE AskAi
    <2>1. Shown \in Abouts /\ Generate(Shown) /\ ~Inert(FALSE)
        BY <1>3, ShownIsAbout DEF AskAi, Inert
    <2> QED BY <2>1 DEF AiNext
<1>4. CASE AiAnswers
    BY <1>4 DEF AiAnswers, AiNext
<1>5. CASE Scan
    BY <1>5 DEF Scan
<1>6. CASE \E s \in scans : ScanAnswered(s) \/ ScanFailed(s) \/ RiskAnswered(s)
    BY <1>6 DEF ScanAnswered, ScanFailed, RiskAnswered
<1>7. CASE ShareClick \/ ToggleClick \/ RetryClick
    BY <1>7 DEF ShareClick, ToggleClick, RetryClick, Publish
<1>8. CASE \E p \in pending : Published(p) \/ PublishFailed(p)
    BY <1>8 DEF Published, PublishFailed
<1>9. CASE UNCHANGED vars
    BY <1>9 DEF vars
<1> QED BY <1>1, <1>2, <1>3, <1>4, <1>5, <1>6, <1>7, <1>8, <1>9
        DEF ScannerNext, ScanClick, DebounceFires

\* A page with any of the panels runs the hook by its specification.
THEOREM ScannerKeepsAi == ScannerSpec => AiSpec
<1>1. ScannerInit => AiInit
    BY DEF ScannerInit
<1> QED BY <1>1, FromTheBoxInit, FromTheBoxStep, StepKeepsAi, PTL DEF ScannerSpec, AiSpec

\* So on every page the analysis in the box was asked under the text in it.
THEOREM ScannerImplementsLatest == ScannerSpec => LatestSpec
BY ScannerKeepsAi, AiImplementsLatest
-----------------------------------------------------------------------------
(* What is shared                                                            *)

\* A payload of a D-scan with a summary holds the summary of its own result.
Matching(payload) == payload.kind = "dscan" => payload.summary \in {None, payload.result}

\* In a D-scan panel every request and the answer on display describe the
\* parse of the text they belong to, and that is the text in the box.
MatchInv ==
    /\ kind = "dscan" =>
          /\ \A r \in aiReqs : r.about = ParseDscan(Lines[r.key])
          /\ summary # None => summary.about = ParseDscan(Lines[summary.key])
    /\ summary # None => summary.key = key
    /\ \A p \in pending : /\ p = [payload |-> p.payload, mounted |-> p.mounted]
                          /\ Matching(p.payload)
    /\ \E S : shares \in Seq(S)
    /\ \A i \in 1..Len(shares) : Matching(shares[i])

LEMMA MatchInit == ScannerInit => MatchInv
<1> SUFFICES ASSUME ScannerInit PROVE MatchInv
    OBVIOUS
<1>1. shares \in Seq({}) /\ Len(shares) = 0
    BY DEF ScannerInit
<1> QED BY <1>1 DEF ScannerInit, AiInit, MatchInv

\* A click publishes a matching payload.
LEMMA PayloadMatches ==
    ASSUME MatchInv, FromTheBox, Shown # None, NEW vis
    PROVE  Matching(Payload(vis))
<1>1. SUFFICES ASSUME kind = "dscan", summary # None
               PROVE  summary.about = Shown
    BY DEF Matching, Payload
<1> QED BY <1>1 DEF Shown, MatchInv

\* A row that is added keeps the rows matching.
LEMMA AppendMatches ==
    ASSUME MatchInv, NEW p \in pending
    PROVE  LET new == Append(shares, p.payload)
           IN  (\E S : new \in Seq(S)) /\ \A i \in 1..Len(new) : Matching(new[i])
<1> DEFINE new == Append(shares, p.payload)
<1>1. PICK S : shares \in Seq(S)
    BY DEF MatchInv
<1>2. shares \in Seq(S \union {p.payload})
    BY <1>1
<1>3. new \in Seq(S \union {p.payload}) /\ Len(new) = Len(shares) + 1
      /\ \A i \in 1..Len(new) : new[i] = IF i <= Len(shares) THEN shares[i] ELSE p.payload
    BY <1>2
<1>4. \A i \in 1..Len(new) : Matching(new[i])
    BY <1>1, <1>3 DEF MatchInv
<1> QED BY <1>3, <1>4

LEMMA MatchStep ==
    ASSUME MatchInv, FromTheBox, AiInv, [ScannerNext]_vars
    PROVE  MatchInv'
<1> DEFINE HookPart ==
        /\ kind = "dscan" =>
              /\ \A r \in aiReqs : r.about = ParseDscan(Lines[r.key])
              /\ summary # None => summary.about = ParseDscan(Lines[summary.key])
        /\ summary # None => summary.key = key
           SharePart ==
        /\ \A p \in pending : /\ p = [payload |-> p.payload, mounted |-> p.mounted]
                          /\ Matching(p.payload)
        /\ \E S : shares \in Seq(S)
        /\ \A i \in 1..Len(shares) : Matching(shares[i])
<1>0. HookPart /\ SharePart
    BY DEF MatchInv
<1>1. HookPart' /\ SharePart' => MatchInv'
    BY DEF MatchInv
<1>2. ASSUME UNCHANGED shareVars PROVE SharePart'
    BY <1>0, <1>2 DEF shareVars
<1>3. ASSUME UNCHANGED <<kind, aiVars>> PROVE HookPart'
    BY <1>0, <1>3 DEF aiVars
<1>4. ASSUME ShareUnmounts PROVE SharePart'
    <2>1. \A q \in pending' : \E p \in pending :
            q = [payload |-> p.payload, mounted |-> FALSE]
        BY <1>0, <1>4 DEF ShareUnmounts
    <2> QED BY <1>0, <1>4, <2>1 DEF ShareUnmounts
<1>5. ASSUME NEW k, Reset(k), kind' = kind PROVE HookPart'
    <2>1. \A q \in aiReqs' : \E r \in aiReqs : q.about = r.about /\ q.key = r.key
        BY <1>5 DEF Reset, Aborted, AiInv, AiTypeOK, Request
    <2> QED BY <1>0, <1>5, <2>1 DEF Reset
<1>6. ASSUME NEW k \in Keys, Edit(k) PROVE MatchInv'
    <2>1. HookPart'
        BY <1>5, <1>6 DEF Edit
    <2>2. SharePart'
        BY <1>2, <1>4, <1>6 DEF Edit
    <2> QED BY <1>1, <2>1, <2>2
<1>7. ASSUME Clear PROVE MatchInv'
    <2>1. HookPart'
        BY <1>3, <1>5, <1>7 DEF Clear
    <2>2. SharePart'
        BY <1>4, <1>7 DEF Clear
    <2> QED BY <1>1, <2>1, <2>2
<1>8. ASSUME UNCHANGED <<kind, aiVars, shareVars>> PROVE MatchInv'
    <2>1. HookPart' /\ SharePart'
        BY <1>2, <1>3, <1>8
    <2> QED BY <1>1, <2>1
<1>9. CASE Scan \/ \E s \in scans : ScanAnswered(s) \/ ScanFailed(s) \/ RiskAnswered(s)
    BY <1>8, <1>9 DEF Scan, ScanAnswered, ScanFailed, RiskAnswered
<1>10. ASSUME AskAi PROVE MatchInv'
    <2>1. Shown # None /\ Generate(Shown) /\ kind' = kind /\ UNCHANGED shareVars
        BY <1>10 DEF AskAi
    <2>2. kind = "dscan" => Shown = ParseDscan(Lines[key])
        BY <2>1 DEF Shown
    <2>3. \A q \in aiReqs' : \/ q.about = Shown /\ q.key = key
                             \/ \E r \in aiReqs : q.about = r.about /\ q.key = r.key
        BY <2>1 DEF Generate, Aborted, AiInv, AiTypeOK, Request
    <2>4. HookPart'
        BY <1>0, <2>1, <2>2, <2>3 DEF Generate
    <2>5. SharePart'
        BY <1>2, <2>1
    <2> QED BY <1>1, <2>4, <2>5
<1>11. ASSUME AiAnswers PROVE MatchInv'
    <2>1. PICK r \in aiReqs : Answered(r) \/ Failed(r) \/ Dropped(r)
        BY <1>11 DEF AiAnswers, AiSettle
    <2>2. aiReqs' \subseteq aiReqs /\ key' = key /\ kind' = kind
        BY <1>11, <2>1 DEF AiAnswers, Answered, Failed, Dropped, Finally
    <2>3. CASE Answered(r)
        <3>1. r.key = key /\ summary' = [key |-> r.key, about |-> r.about]
            BY <2>3 DEF Answered, AiInv, OneLiveRequest
        <3>2. HookPart'
            BY <1>0, <2>2, <3>1
        <3> QED BY <1>1, <1>2, <1>11, <3>2 DEF AiAnswers
    <2>4. CASE Failed(r) \/ Dropped(r)
        <3>1. HookPart'
            BY <1>0, <2>2, <2>4 DEF Failed, Dropped
        <3> QED BY <1>1, <1>2, <1>11, <3>1 DEF AiAnswers
    <2> QED BY <2>1, <2>3, <2>4
<1>12. ASSUME NEW vis, Publish(vis) PROVE MatchInv'
    <2>1. HookPart'
        BY <1>3, <1>12 DEF Publish
    <2>2. Matching(Payload(vis))
        BY <1>12, PayloadMatches DEF Publish
    <2>3. SharePart'
        BY <1>0, <1>12, <2>2 DEF Publish
    <2> QED BY <1>1, <2>1, <2>3
<1>13. ASSUME NEW p \in pending, Published(p) \/ PublishFailed(p) PROVE MatchInv'
    <2>1. HookPart'
        BY <1>3, <1>13 DEF Published, PublishFailed
    <2>2. pending' \subseteq pending /\ shares' \in {shares, Append(shares, p.payload)}
        BY <1>13 DEF Published, PublishFailed
    <2>3. SharePart'
        BY <1>0, <2>2, AppendMatches
    <2> QED BY <1>1, <2>1, <2>3
<1>14. CASE RetryClick
    <2>1. HookPart'
        BY <1>3, <1>14 DEF RetryClick
    <2>2. SharePart'
        BY <1>0, <1>14 DEF RetryClick
    <2> QED BY <1>1, <2>1, <2>2
<1>15. CASE UNCHANGED vars
    BY <1>8, <1>15 DEF vars
<1> QED BY <1>6, <1>7, <1>9, <1>10, <1>11, <1>12, <1>13, <1>14, <1>15
        DEF ScannerNext, ScanClick, DebounceFires, ShareClick, ToggleClick

\* A shared D-scan never carries the analysis of another scan, for any texts
\* and any number of requests and shares (ShareButton.jsx:17, DscanParser.jsx).
THEOREM SharesMatch == ScannerSpec => []SharedSummaryMatches
<1>1. MatchInv => SharedSummaryMatches
    <2> SUFFICES ASSUME MatchInv, NEW i \in DOMAIN shares, shares[i].kind = "dscan"
                 PROVE  shares[i].summary \in {None, shares[i].result}
        BY DEF SharedSummaryMatches
    <2>1. PICK S : shares \in Seq(S)
        BY DEF MatchInv
    <2>2. i \in 1..Len(shares)
        BY <2>1
    <2> QED BY <2>2 DEF MatchInv, Matching
<1>2. ScannerSpec => []FromTheBox
    BY FromTheBoxInit, FromTheBoxStep, PTL DEF ScannerSpec
<1>3. AiSpec => []AiInv
    BY AiInitInv, AiStepInv, PTL DEF AiSpec
<1> QED BY <1>1, <1>2, <1>3, ScannerKeepsAi, MatchInit, MatchStep, PTL DEF ScannerSpec
-----------------------------------------------------------------------------
(* The word next to the link                                                 *)

\* The link on display is a row that is stored, and has the audience that is
\* on display.
LabelInv == share # None => share \in 1..Len(shares) /\ shares[share].visibility = visibility

\* Rows are never changed: with the link and the word as they were, and the
\* rows as they were or with one more, the word is still right.
LEMMA LabelStays ==
    ASSUME MatchInv, LabelInv, UNCHANGED <<share, visibility>>,
           shares' = shares \/ \E row : shares' = Append(shares, row)
    PROVE  LabelInv'
<1>1. PICK S : shares \in Seq(S)
    BY DEF MatchInv
<1>2. CASE shares' = shares
    BY <1>2 DEF LabelInv
<1>3. ASSUME NEW row, shares' = Append(shares, row) PROVE LabelInv'
    <2>1. shares \in Seq(S \union {row})
        BY <1>1
    <2>2. /\ Len(shares') = Len(shares) + 1 /\ Len(shares) \in Nat
          /\ \A i \in 1..Len(shares) : shares'[i] = shares[i]
        BY <1>3, <2>1
    <2> QED BY <2>2 DEF LabelInv
<1> QED BY <1>2, <1>3

LEMMA LabelStep ==
    ASSUME MatchInv, LabelInv, [ScannerNext]_vars
    PROVE  LabelInv'
<1>1. ASSUME UNCHANGED shareVars PROVE LabelInv'
    BY <1>1 DEF shareVars, LabelInv
<1>2. ASSUME ShareUnmounts PROVE LabelInv'
    BY <1>2 DEF ShareUnmounts, LabelInv
<1>3. ASSUME NEW k \in Keys, Edit(k) PROVE LabelInv'
    BY <1>1, <1>2, <1>3 DEF Edit
<1>4. CASE Clear
    BY <1>2, <1>4 DEF Clear
<1>5. CASE Scan \/ AskAi \/ AiAnswers
    BY <1>1, <1>5 DEF Scan, AskAi, AiAnswers
<1>6. CASE \E s \in scans : ScanAnswered(s) \/ ScanFailed(s) \/ RiskAnswered(s)
    BY <1>1, <1>6 DEF ScanAnswered, ScanFailed, RiskAnswered
<1>7. CASE ShareClick \/ ToggleClick \/ RetryClick
    BY <1>7, LabelStays DEF ShareClick, ToggleClick, Publish, RetryClick
<1>8. ASSUME NEW p \in pending, Published(p) PROVE LabelInv'
    <2>1. shares' = Append(shares, p.payload)
        BY <1>8 DEF Published
    <2>2. PICK S : shares \in Seq(S)
        BY DEF MatchInv
    <2>3. shares \in Seq(S \union {p.payload})
        BY <2>2
    <2>4. /\ Len(shares') = Len(shares) + 1 /\ Len(shares) \in Nat
          /\ shares'[Len(shares) + 1] = p.payload
        BY <2>1, <2>3
    <2>5. CASE p.mounted
        <3>1. share' = Len(shares) + 1 /\ visibility' = p.payload.visibility
            BY <1>8, <2>5 DEF Published
        <3> QED BY <2>4, <3>1 DEF LabelInv
    <2>6. CASE ~p.mounted
        BY <1>8, <2>1, <2>6, LabelStays DEF Published
    <2> QED BY <2>5, <2>6
<1>9. ASSUME NEW p \in pending, PublishFailed(p) PROVE LabelInv'
    BY <1>9, LabelStays DEF PublishFailed
<1>10. CASE UNCHANGED vars
    BY <1>1, <1>10 DEF vars
<1> QED BY <1>3, <1>4, <1>5, <1>6, <1>7, <1>8, <1>9, <1>10
        DEF ScannerNext, ScanClick, DebounceFires

\* The word next to a link is the audience of the row behind it, whatever was
\* switched, refused, lost or unmounted (ShareButton.jsx:30).
THEOREM LabelIsTrue == ScannerSpec => []LabelTellsAudience
<1>1. ScannerInit => LabelInv
    BY DEF ScannerInit, LabelInv
<1>2. LabelInv => LabelTellsAudience
    BY DEF LabelInv, LabelTellsAudience
<1>3. ScannerSpec => []MatchInv
    <2>1. ScannerSpec => []FromTheBox
        BY FromTheBoxInit, FromTheBoxStep, PTL DEF ScannerSpec
    <2>2. AiSpec => []AiInv
        BY AiInitInv, AiStepInv, PTL DEF AiSpec
    <2> QED BY <2>1, <2>2, ScannerKeepsAi, MatchInit, MatchStep, PTL DEF ScannerSpec
<1> QED BY <1>1, <1>2, <1>3, LabelStep, PTL DEF ScannerSpec

----------------------------------------------------------------------------
(* The banner of a D-scan, for a scan of any number of lines.              *)

Rank(c) ==
    IF c = "SUPER" THEN 5 ELSE IF c = "CAPITAL" THEN 4
    ELSE IF c \in {"DOCTRINE", "RECON"} THEN 3
    ELSE IF c \in {"BATTLESHIP", "BATTLECRUISER", "SUPPORT", "TACKLE"} THEN 2
    ELSE 1

Tiers == <<"CLEAR", "MINIMAL", "LOW", "MEDIUM", "HIGH", "CRITICAL">>

LEMMA MaxIs ==
    ASSUME NEW S \in SUBSET Int, NEW v \in S, \A x \in S : x <= v PROVE Max(S) = v
<1>1. \A x \in S : (\A y \in S : x >= y) <=> x = v
    OBVIOUS
<1> QED BY <1>1 DEF Max

\* The first tier of the table that matches is that of the worst category that
\* has a row; a scan of ships without any row is MINIMAL.
LEMMA ThreatIsWorst ==
    ASSUME NEW P \in SUBSET CombatCategories
    PROVE  Threat(P) = Tiers[1 + Max({Rank(c) : c \in P \ {"inherited"}}
                                        \union {IF P = {} THEN 0 ELSE 1})]
<1> DEFINE W == {Rank(c) : c \in P \ {"inherited"}} \union {IF P = {} THEN 0 ELSE 1}
<1>1. W \in SUBSET Int /\ \A c : Rank(c) \in 1..5
    BY DEF Rank
<1>2. CASE P = {}
    <2>1. Max(W) = 0
        <3>1. 0 \in W /\ \A x \in W : x <= 0
            BY <1>2
        <3> HIDE DEF W
        <3> QED BY <1>1, <3>1, MaxIs
    <2> QED BY <1>2, <2>1 DEF Threat, Tiers
<1>3. CASE P # {}
    <2> DEFINE I == {i \in 1..Len(ThreatTiers) : ThreatTiers[i].cats \intersect P # {}}
    <2>1. Len(ThreatTiers) = 5
        BY DEF ThreatTiers
    <2>2. /\ ThreatTiers[1] = [tier |-> "CRITICAL", cats |-> {"SUPER"}]
          /\ ThreatTiers[2] = [tier |-> "HIGH", cats |-> {"CAPITAL"}]
          /\ ThreatTiers[3] = [tier |-> "MEDIUM", cats |-> {"DOCTRINE", "RECON"}]
          /\ ThreatTiers[4] = [tier |-> "LOW",
                cats |-> {"BATTLESHIP", "BATTLECRUISER", "SUPPORT", "TACKLE"}]
          /\ ThreatTiers[5] = [tier |-> "MINIMAL", cats |-> CombatCategories]
        BY DEF ThreatTiers
    <2>3. 5 \in I /\ I \in SUBSET (1..5)
        BY <1>3, <2>1, <2>2
    <2>4. PICK m \in I : \A i \in I : m <= i
        <3>1. I \in SUBSET Nat /\ I # {}
            BY <2>3
        <3> HIDE DEF I
        <3> QED BY <3>1, LeastNumber
    <2>5. Min(I) = m
        <3>1. \A x \in I : (\A y \in I : x <= y) <=> x = m
            BY <2>3, <2>4
        <3> HIDE DEF I
        <3> QED BY <2>4, <3>1 DEF Min
    <2>6. Threat(P) = ThreatTiers[m].tier
        BY <1>3, <2>3, <2>5 DEF Threat, SelectInSeq
    <2>7. \A c \in CombatCategories :
             /\ Rank(c) = 5 <=> c \in ThreatTiers[1].cats
             /\ Rank(c) = 4 <=> c \in ThreatTiers[2].cats
             /\ Rank(c) = 3 <=> c \in ThreatTiers[3].cats
             /\ Rank(c) = 2 <=> c \in ThreatTiers[4].cats
        BY <2>2 DEF Rank
    <2>8. \A i \in 1..4 : i \in I <=> \E c \in P : Rank(c) = 6 - i
        <3>1. \A i \in 1..4 : i \in I <=> \E c \in P : c \in ThreatTiers[i].cats
            BY <2>1
        <3>2. \A i \in 1..4 : i = 1 \/ i = 2 \/ i = 3 \/ i = 4
            OBVIOUS
        <3>3. 6 - 1 = 5 /\ 6 - 2 = 4 /\ 6 - 3 = 3 /\ 6 - 4 = 2
            OBVIOUS
        <3> QED BY <2>7, <3>1, <3>2, <3>3
    <2> HIDE DEF I
    <2>9. ASSUME NEW c \in P PROVE Rank(c) <= 6 - m
        <3>1. CASE Rank(c) = 1
            BY <2>3, <3>1
        <3>2. CASE Rank(c) # 1
            <4>1. Rank(c) \in 2..5 /\ 6 - Rank(c) \in 1..4 /\ 6 - (6 - Rank(c)) = Rank(c)
                BY <1>1, <3>2
            <4>2. 6 - Rank(c) \in I
                BY <2>8, <4>1
            <4>3. m <= 6 - Rank(c) /\ m \in 1..5
                BY <2>3, <2>4, <4>2
            <4> QED BY <4>1, <4>3
        <3> QED BY <3>1, <3>2
    <2>10. \E c \in P : Rank(c) = 6 - m
        <3>1. CASE m \in 1..4
            BY <2>8, <3>1
        <3>2. CASE m = 5
            <4>1. PICK c \in P : TRUE
                BY <1>3
            <4>2. Rank(c) = 1
                BY <1>1, <2>9, <3>2
            <4> QED BY <3>2, <4>2
        <3> QED BY <2>3, <3>1, <3>2
    <2>11. Max(W) = 6 - m
        <3>1. PICK c \in P : Rank(c) = 6 - m
            BY <2>10
        <3>2. Rank("inherited") = 1
            BY DEF Rank
        <3>3. 6 - m \in W
            BY <1>3, <3>1, <3>2
        <3>4. \A x \in W : x <= 6 - m
            BY <1>3, <2>3, <2>9
        <3> HIDE DEF W
        <3> QED BY <1>1, <3>3, <3>4, MaxIs
    <2>12. m = 1 \/ m = 2 \/ m = 3 \/ m = 4 \/ m = 5
        BY <2>3
    <2> HIDE DEF W
    <2>13. Threat(P) = Tiers[1 + Max(W)]
        BY <2>2, <2>6, <2>11, <2>12 DEF Tiers
    <2> QED BY <2>13 DEF W
<1> QED BY <1>2, <1>3

\* The sum of the counts of rows, and what it solves.
TotalCount(rows) == MapThenSumSet(LAMBDA r : r.count, rows)

SumsRows(g, S) ==
    g = [s \in SUBSET S |-> IF s = {} THEN 0
                            ELSE (CHOOSE x \in s : TRUE).count + g[s \ {CHOOSE x \in s : TRUE}]]

LEMMA SumIs ==
    ASSUME NEW S, IsFiniteSet(S), NEW w, SumsRows(w, S) PROVE TotalCount(S) = w[S]
<1>1. PICK g : SumsRows(g, S) /\ TotalCount(S) = g[S]
    BY DEF TotalCount, MapThenSumSet, MapThenFoldSet, SumsRows
<1> DEFINE Agree(n) == \A s \in SUBSET S : Cardinality(s) <= n => g[s] = w[s]
           T == {n \in Nat : Agree(n)}
<1>2. g[{}] = 0 /\ w[{}] = 0
    BY <1>1 DEF SumsRows
<1>3. Agree(0)
    <2>1. \A s \in SUBSET S : Cardinality(s) <= 0 => s = {}
        BY FS_Subset, FS_EmptySet, FS_CardinalityType
    <2> QED BY <1>2, <2>1
<1>4. ASSUME NEW n \in Nat, Agree(n) PROVE Agree(n + 1)
    <2> SUFFICES ASSUME NEW s \in SUBSET S, Cardinality(s) <= n + 1, s # {} PROVE g[s] = w[s]
        BY <1>2
    <2> DEFINE x == CHOOSE y \in s : TRUE
    <2>1. x \in s /\ s \ {x} \in SUBSET S
        OBVIOUS
    <2>2. g[s] = x.count + g[s \ {x}] /\ w[s] = x.count + w[s \ {x}]
        BY <1>1 DEF SumsRows
    <2> HIDE DEF x
    <2>3. Cardinality(s \ {x}) <= n
        <3>1. IsFiniteSet(s) /\ Cardinality(s) \in Nat
            BY FS_Subset, FS_CardinalityType
        <3>2. Cardinality(s \ {x}) = Cardinality(s) - 1
            BY <2>1, <3>1, FS_RemoveElement
        <3> QED BY <3>1, <3>2
    <2> QED BY <1>4, <2>1, <2>2, <2>3
<1>5. Agree(Cardinality(S))
    <2> HIDE DEF Agree
    <2>1. T \in SUBSET Nat /\ 0 \in T /\ \A n \in T : n + 1 \in T
        BY <1>3, <1>4
    <2>2. T = Nat
        <3> HIDE DEF T
        <3> QED BY <2>1, NumbersBySteps
    <2> QED BY <2>2, FS_CardinalityType
<1>6. g[S] = w[S]
    BY <1>5, FS_CardinalityType
<1> QED BY <1>1, <1>6

\* The lines of some categories, and the rows for the ship categories a scan
\* has: what ParseDscan counts and DscanResult lists.
Of(cats, S) == {i \in DOMAIN cats : cats[i] \in S}
Present(cats) == ShipCategories \intersect {cats[i] : i \in DOMAIN cats}
Counts(cats) == CombatCategories \intersect {cats[i] : i \in DOMAIN cats}
RowFor(cats, c) == [cat |-> c, count |-> Counted(cats, {c})]
RowsOf(cats) == {RowFor(cats, c) : c \in Present(cats)}

LEMMA RowForIs ==
    ASSUME NEW cats, NEW c
    PROVE  RowFor(cats, c).cat = c /\ RowFor(cats, c).count = Counted(cats, {c})
BY DEF RowFor

LEMMA RowIsThere ==
    ASSUME NEW cats, NEW c \in Present(cats)
    PROVE  RowFor(cats, c) \in RowsOf(cats) /\ RowFor(cats, c).cat = c
BY RowForIs DEF RowsOf

LEMMA RowsOfAre ==
    ASSUME NEW cats, NEW r \in RowsOf(cats)
    PROVE  /\ r.cat \in Present(cats) /\ r = RowFor(cats, r.cat)
           /\ r.count = Counted(cats, {r.cat})
<1>1. PICK c \in Present(cats) : r = RowFor(cats, c)
    BY DEF RowsOf
<1>2. r.cat = c /\ r.count = Counted(cats, {c})
    BY <1>1, RowForIs
<1> QED BY <1>1, <1>2

LEMMA OfFinite ==
    ASSUME NEW cats, IsFiniteSet(DOMAIN cats), NEW S
    PROVE  /\ IsFiniteSet(Of(cats, S)) /\ Counted(cats, S) = Cardinality(Of(cats, S))
           /\ Counted(cats, S) \in Nat
<1>1. Of(cats, S) \in SUBSET DOMAIN cats
    BY DEF Of
<1>2. IsFiniteSet(Of(cats, S))
    BY <1>1, FS_Subset
<1> QED BY <1>2, FS_CardinalityType DEF Of, Counted

LEMMA OfApart ==
    ASSUME NEW cats, IsFiniteSet(DOMAIN cats), NEW S, NEW R, S \intersect R = {}
    PROVE  Counted(cats, S \union R) = Counted(cats, S) + Counted(cats, R)
<1>1. Of(cats, S \union R) = Of(cats, S) \union Of(cats, R)
      /\ Of(cats, S) \intersect Of(cats, R) = {}
    BY DEF Of
<1>2. Cardinality(Of(cats, S) \union Of(cats, R))
        = Cardinality(Of(cats, S)) + Cardinality(Of(cats, R)) - Cardinality({})
    BY <1>1, OfFinite, FS_Union
<1>3. Cardinality({}) = 0
    BY FS_EmptySet
<1>4. /\ Counted(cats, S \union R) = Cardinality(Of(cats, S) \union Of(cats, R))
      /\ Counted(cats, S) = Cardinality(Of(cats, S)) /\ Counted(cats, S) \in Nat
      /\ Counted(cats, R) = Cardinality(Of(cats, R)) /\ Counted(cats, R) \in Nat
    <2>1. \A Q : Counted(cats, Q) = Cardinality(Of(cats, Q)) /\ Counted(cats, Q) \in Nat
        BY OfFinite
    <2> QED BY <1>1, <2>1
<1> QED BY <1>2, <1>3, <1>4

\* The rows add up to the ships.
LEMMA RowsAddUp ==
    ASSUME NEW cats, IsFiniteSet(DOMAIN cats)
    PROVE  TotalCount(RowsOf(cats)) = Counted(cats, ShipCategories)
<1> DEFINE rows == RowsOf(cats)
           names(s) == {r.cat : r \in s}
           w == [s \in SUBSET rows |-> Counted(cats, names(s))]
<1>1. IsFiniteSet(rows)
    <2> DEFINE g == [i \in DOMAIN cats |-> cats[i]]
               f == [c \in Present(cats) |-> RowFor(cats, c)]
    <2>1. g \in Surjection(DOMAIN cats, {cats[i] : i \in DOMAIN cats})
        BY DEF Surjection
    <2>2. IsFiniteSet({cats[i] : i \in DOMAIN cats})
        <3> HIDE DEF g
        <3> QED BY <2>1, FS_Surjection
    <2>3. IsFiniteSet(Present(cats))
        BY <2>2, FS_Subset DEF Present
    <2>4. f \in Surjection(Present(cats), rows)
        BY DEF Surjection, RowsOf
    <2> HIDE DEF f, rows
    <2> QED BY <2>3, <2>4, FS_Surjection
<1>2. \A r \in rows : r.count = Counted(cats, {r.cat})
    BY RowsOfAre
<1>3. ASSUME NEW p \in rows, NEW q \in rows, p.cat = q.cat PROVE p = q
    <2>1. p = RowFor(cats, p.cat) /\ q = RowFor(cats, q.cat)
        BY RowsOfAre
    <2> QED BY <1>3, <2>1
<1> HIDE DEF rows
<1>4. SumsRows(w, rows)
    <2>1. w[{}] = 0
        <3>1. Of(cats, names({})) = {}
            BY DEF Of
        <3> QED BY <3>1, OfFinite, FS_EmptySet
    <2>2. ASSUME NEW s \in SUBSET rows, s # {}, NEW x \in s
          PROVE  w[s] = x.count + w[s \ {x}]
        <3>1. names(s) = {x.cat} \union names(s \ {x}) /\ {x.cat} \intersect names(s \ {x}) = {}
            BY <1>3
        <3>2. Counted(cats, names(s)) = Counted(cats, {x.cat}) + Counted(cats, names(s \ {x}))
            <4> HIDE DEF names
            <4>1. PICK S, R : S = {x.cat} /\ R = names(s \ {x})
                OBVIOUS
            <4>2. names(s) = S \union R /\ S \intersect R = {}
                BY <3>1, <4>1
            <4>3. Counted(cats, S \union R) = Counted(cats, S) + Counted(cats, R)
                BY <4>2, OfApart
            <4> QED BY <4>1, <4>2, <4>3
        <3>3. x \in rows /\ s \ {x} \in SUBSET rows
            BY <2>2, Zenon
        <3> HIDE DEF names
        <3> QED BY <1>2, <3>2, <3>3
    <2>3. \A s \in SUBSET rows : s # {} => (CHOOSE x \in s : TRUE) \in s
        OBVIOUS
    <2>4. w = [s \in SUBSET rows |-> w[s]]
        OBVIOUS
    <2> HIDE DEF w
    <2>5. \A s \in SUBSET rows :
             w[s] = IF s = {} THEN 0
                    ELSE (CHOOSE x \in s : TRUE).count + w[s \ {CHOOSE x \in s : TRUE}]
        BY <2>1, <2>2, <2>3
    <2> QED BY <2>4, <2>5 DEF SumsRows
<1>5. TotalCount(rows) = w[rows]
    <2> HIDE DEF w
    <2> QED BY <1>1, <1>4, SumIs
<1>6. names(rows) = Present(cats)
    <2>1. ASSUME NEW c \in Present(cats) PROVE \E r \in rows : r.cat = c
        BY RowIsThere DEF rows
    <2>2. ASSUME NEW r \in rows PROVE r.cat \in Present(cats)
        BY RowsOfAre DEF rows
    <2> QED BY <2>1, <2>2
<1>7. Of(cats, Present(cats)) = Of(cats, ShipCategories)
    BY DEF Of, Present
<1>8. w[rows] = Counted(cats, Present(cats))
    BY <1>6
<1>9. Counted(cats, Present(cats)) = Counted(cats, ShipCategories)
    BY <1>7, OfFinite
<1> QED BY <1>5, <1>8, <1>9 DEF rows

\* The lines of a scan that are of a category.
Matched(lines, c) == {i \in DOMAIN lines : CategoryOf(lines[i]) = c}

\* What a D-scan shows is right, whatever its lines are.
LEMMA BannerRight ==
    ASSUME NEW lines \in Seq(Seq(STRING)), NEW res, res = ParseDscan(lines)
    PROVE  /\ res.threat = Tiers[1 + Max({Rank(r.cat) : r \in ShipRows(res)}
                                            \union {IF res.ships = 0 THEN 0 ELSE 1})]
           /\ res.ships = TotalCount(ShipRows(res)) + Cardinality(Matched(lines, "inherited"))
           /\ res.ships + res.structures + res.unrecognized <= Len(lines)
           /\ NothingFound(res) => ShipRows(res) = {} /\ ~ObjectsLine(res)
<1> DEFINE cats == [i \in DOMAIN lines |-> CategoryOf(lines[i])]
<1>1. Len(lines) \in Nat /\ DOMAIN cats = 1..Len(lines)
    BY LenProperties
<1>2. IsFiniteSet(DOMAIN cats) /\ Cardinality(DOMAIN cats) = Len(lines)
    <2> HIDE DEF cats
    <2>1. PICK n \in Nat : n = Len(lines)
        BY <1>1
    <2>2. IsFiniteSet(1..n) /\ Cardinality(1..n) = IF 1 > n THEN 0 ELSE n - 1 + 1
        BY FS_Interval
    <2>3. Cardinality(1..n) = n
        BY <2>2
    <2> QED BY <1>1, <2>1, <2>2, <2>3
<1>3. Counted(cats, {"inherited"}) = Cardinality(Matched(lines, "inherited"))
    BY DEF Counted, Matched
<1>4. /\ res.byCat = [c \in Counts(cats) |-> Counted(cats, {c})]
      /\ res.ships = Counted(cats, CombatCategories)
      /\ res.structures = Counted(cats, ObjectCategories)
      /\ res.unrecognized = Counted(cats, {"unrecognized"})
      /\ res.threat = Threat(Counts(cats))
    BY DEF ParseDscan, Counts
<1> HIDE DEF cats
<1>5. /\ "inherited" \notin ShipCategories
       /\ CombatCategories = ShipCategories \union {"inherited"}
       /\ Present(cats) = Counts(cats) \ {"inherited"}
       /\ ShipCategories \intersect Counts(cats) = Present(cats)
       /\ Present(cats) \subseteq Counts(cats)
    <2>1. "inherited" \notin ShipCategories
        BY DEF ShipCategories
    <2> QED BY <2>1 DEF CombatCategories, Present, Counts
<1>6. Counts(cats) = {} <=> res.ships = 0
    <2>1. Counts(cats) = {} <=> Of(cats, CombatCategories) = {}
        BY DEF Counts, Of
    <2>2. res.ships = Cardinality(Of(cats, CombatCategories))
          /\ IsFiniteSet(Of(cats, CombatCategories))
        BY <1>2, <1>4, OfFinite
    <2> QED BY <2>1, <2>2, FS_EmptySet
<1>7. ShipRows(res) = RowsOf(cats)
    <2>1. \A c \in Present(cats) : res.byCat[c] = Counted(cats, {c})
        BY <1>4, <1>5
    <2>2. ShipCategories \intersect DOMAIN res.byCat = Present(cats)
        BY <1>4, <1>5
    <2> QED BY <2>1, <2>2 DEF ShipRows, RowsOf, RowFor
<1>8. {Rank(r.cat) : r \in RowsOf(cats)} = {Rank(c) : c \in Present(cats)}
    <2>1. \A c \in Present(cats) : \E r \in RowsOf(cats) : r.cat = c
        BY RowIsThere
    <2>2. \A r \in RowsOf(cats) : r.cat \in Present(cats)
        BY RowsOfAre
    <2> QED BY <2>1, <2>2
<1>9. res.threat = Tiers[1 + Max({Rank(r.cat) : r \in ShipRows(res)}
                                    \union {IF res.ships = 0 THEN 0 ELSE 1})]
    <2>1. Counts(cats) \in SUBSET CombatCategories
        BY DEF Counts
    <2>2. Threat(Counts(cats)) =
            Tiers[1 + Max({Rank(c) : c \in Counts(cats) \ {"inherited"}}
                             \union {IF Counts(cats) = {} THEN 0 ELSE 1})]
        BY <2>1, ThreatIsWorst
    <2>3. Threat(Counts(cats)) =
            Tiers[1 + Max({Rank(r.cat) : r \in ShipRows(res)}
                             \union {IF Counts(cats) = {} THEN 0 ELSE 1})]
        BY <1>7, <1>8, <1>5, <2>2
    <2> QED BY <1>4, <1>6, <2>3
<1>10. Counted(cats, CombatCategories)
         = Counted(cats, ShipCategories) + Counted(cats, {"inherited"})
    BY <1>2, <1>5, OfApart
<1>11. res.ships = TotalCount(ShipRows(res)) + Cardinality(Matched(lines, "inherited"))
    BY <1>2, <1>4, <1>7, <1>3, <1>10, RowsAddUp
<1>12. res.ships + res.structures + res.unrecognized <= Len(lines)
    <2>1. CombatCategories \intersect ObjectCategories = {}
          /\ (CombatCategories \union ObjectCategories) \intersect {"unrecognized"} = {}
        BY DEF CombatCategories, ShipCategories, ObjectCategories
    <2> DEFINE A == (CombatCategories \union ObjectCategories) \union {"unrecognized"}
    <2>2. Counted(cats, A) = res.ships + res.structures + res.unrecognized
        <3>1. Counted(cats, CombatCategories \union ObjectCategories) = res.ships + res.structures
            BY <1>2, <1>4, <2>1, OfApart
        <3>2. Counted(cats, A) = Counted(cats, CombatCategories \union ObjectCategories)
                                    + Counted(cats, {"unrecognized"})
            BY <1>2, <2>1, OfApart
        <3> QED BY <1>4, <3>1, <3>2
    <2>3. Of(cats, A) \in SUBSET DOMAIN cats
        BY DEF Of
    <2> HIDE DEF A
    <2>4. Counted(cats, A) <= Len(lines)
        BY <1>2, <2>3, OfFinite, FS_Subset
    <2> QED BY <2>2, <2>4
<1>13. ASSUME NothingFound(res) PROVE ShipRows(res) = {} /\ ~ObjectsLine(res)
    <2>1. res.ships = 0 /\ res.structures = 0
        BY <1>13 DEF NothingFound
    <2>2. Present(cats) = {}
        BY <1>5, <1>6, <2>1
    <2> QED BY <1>7, <2>1, <2>2 DEF RowsOf, ObjectsLine
<1> QED BY <1>9, <1>11, <1>12, <1>13

\* The banner over a D-scan says the worst of the ships listed below it, no
\* line is counted twice, and the list adds up but for the lines matched by a
\* name that every object inherits, for every text that can be in the box
\* (parseDscan, DscanResult.jsx).
THEOREM BannerIsRight == ScannerSpec => []BannerTellsWorst
<1>1. FromTheBox => BannerTellsWorst
    <2> SUFFICES ASSUME FromTheBox, kind = "dscan", Shown # None PROVE BannerTellsWorst
        BY DEF BannerTellsWorst
    <2>1. key \in Keys /\ Lines[key] \in Seq(Seq(STRING))
        BY ScannerAssumption DEF FromTheBox, ScannerAssumption
    <2>2. Shown = ParseDscan(Lines[key])
        BY DEF Shown
    <2>3. /\ Shown.threat = Tiers[1 + Max({Rank(r.cat) : r \in ShipRows(Shown)}
                                             \union {IF Shown.ships = 0 THEN 0 ELSE 1})]
          /\ Shown.ships = TotalCount(ShipRows(Shown))
                             + Cardinality(Matched(Lines[key], "inherited"))
          /\ Shown.ships + Shown.structures + Shown.unrecognized <= Len(Lines[key])
          /\ NothingFound(Shown) => ShipRows(Shown) = {} /\ ~ObjectsLine(Shown)
        BY <2>1, <2>2, BannerRight
    <2> QED BY <2>3 DEF BannerTellsWorst, Rank, Tiers, TotalCount, Matched
<1> QED BY <1>1, FromTheBoxInit, FromTheBoxStep, PTL DEF ScannerSpec

============================================================================
