----------------------------- MODULE DscanParse -----------------------------
(***************************************************************************)
(* parseDscan (components/DscanParser.jsx): what a pasted directional scan *)
(* says.  A text is a sequence of lines, a line a sequence of columns.  A  *)
(* column is the category the table gives its group or type name, or "sun" *)
(* (a sun type), "distance", "inherited" (not a name of the table, but one *)
(* that every JavaScript object has: constructor, toString, valueOf...),   *)
(* or "text" (any other name).  Pilots name their ships as they like.      *)
(***************************************************************************)
EXTENDS Integers, SequencesExt, FiniteSetsExt

\* GROUP_CATEGORIES, reduced to the categories it assigns.
ShipCategories ==
    {"SUPER", "CAPITAL", "BATTLESHIP", "BATTLECRUISER", "DOCTRINE", "RECON",
     "SUPPORT", "TACKLE", "CRUISER", "EWAR", "BOMBER", "COVOPS", "DESTROYER",
     "FRIGATE", "POD"}
ObjectCategories == {"STRUCTURE", "DEPLOYABLE", "BUBBLE", "SOV"}
GroupCategories == ShipCategories \union ObjectCategories \union {"PROBE"}

\* What counts as a ship: all that is neither object nor probe.
CombatCategories == ShipCategories \union {"inherited"}

\* The category of a line: its first telling column; a line that is not a
\* table row, or holds no known name, is unrecognized.  The tables are plain
\* objects: looking up an inherited name finds the member, and that is taken
\* for the category.
CategoryOf(line) ==
    LET telling(column) == column \in GroupCategories \union {"sun", "inherited"}
        first == SelectInSeq(line, telling)
    IN  IF Len(line) < 2 \/ first = 0 THEN "unrecognized"
        ELSE IF line[first] = "sun" THEN "PROBE" ELSE line[first]

\* The banner: the first tier one of whose categories is present.  The test of
\* the last tier is true of any ship.
ThreatTiers == <<
    [tier |-> "CRITICAL", cats |-> {"SUPER"}],
    [tier |-> "HIGH",     cats |-> {"CAPITAL"}],
    [tier |-> "MEDIUM",   cats |-> {"DOCTRINE", "RECON"}],
    [tier |-> "LOW",      cats |-> {"BATTLESHIP", "BATTLECRUISER", "SUPPORT", "TACKLE"}],
    [tier |-> "MINIMAL",  cats |-> CombatCategories]>>

\* Mutant of Threat: the last tier that matches, MINIMAL for every scan.
MutThreat(present) ==
    LET matches(t) == t.cats \intersect present # {}
    IN  IF present = {} THEN "CLEAR"
        ELSE ThreatTiers[SelectLastInSeq(ThreatTiers, matches)].tier

Threat(present) ==
    LET matches(t) == t.cats \intersect present # {}
    IN  IF present = {} THEN "CLEAR"
        ELSE ThreatTiers[SelectInSeq(ThreatTiers, matches)].tier

\* How many lines of a scan are of some categories.
Counted(cats, S) == Cardinality({i \in DOMAIN cats : cats[i] \in S})

\* byCat keeps a count per category of ship; probes are skipped, structures are
\* listed apart, and lines that say nothing are counted as unrecognized.
ParseDscan(lines) ==
    LET cats == [i \in DOMAIN lines |-> CategoryOf(lines[i])]
        present == CombatCategories \intersect {cats[i] : i \in DOMAIN cats}
    IN  [byCat        |-> [c \in present |-> Counted(cats, {c})],
         ships        |-> Counted(cats, CombatCategories),
         structures   |-> Counted(cats, ObjectCategories),
         unrecognized |-> Counted(cats, {"unrecognized"}),
         threat       |-> Threat(present)]

\* What DscanResult renders below the banner, and what is copied as text: the
\* rows are those of CATEGORY_ORDER, whatever else byCat holds.
ShipRows(result) ==
    {[cat |-> c, count |-> result.byCat[c]] :
        c \in ShipCategories \intersect DOMAIN result.byCat}
ObjectsLine(result) == result.structures > 0
NothingFound(result) == result.ships = 0 /\ result.structures = 0
UnrecognizedBox(result) == result.unrecognized > 0
=============================================================================
