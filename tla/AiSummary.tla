----------------------------- MODULE AiSummary -----------------------------
(***************************************************************************)
(* The hook behind the AI SUMMARY button of the D-scan and Local panels    *)
(* (utils/useAiSummary.js, components/common/AiSummary.jsx).  A panel      *)
(* hands it a reset key, the raw text being edited; asking starts a        *)
(* request under a controller of its own, and a change of the key clears   *)
(* the box and aborts the request in flight.  "about" is the result the    *)
(* panel put in the prompt; the hook does not look at it.                  *)
(***************************************************************************)
EXTENDS Naturals

CONSTANTS Keys,         \* the raw inputs
          Abouts,       \* what a prompt may describe
          None,
          MaxAsks       \* bound: requests made in a behaviour

ASSUME AiAssumption ==
    /\ None \notin Keys \union [key : Keys, about : Abouts] \union Nat
    /\ MaxAsks \in Nat

VARIABLES key,          \* resetKey: the text in the box
          summary,      \* None or [key, about]: the answer on display
          aiError,      \* an error is on display
          generating,   \* the button says ANALYZING... and is inert
          abortRef,     \* controller of the active request, or None
          aiReqs,       \* requests whose promise has not settled
          asked         \* requests made so far: a controller is its number

aiVars == <<key, summary, aiError, generating, abortRef, aiReqs, asked>>

Request == [id : 1..MaxAsks, key : Keys, about : Abouts, aborted : BOOLEAN]

AiInit ==
    /\ key \in Keys
    /\ summary = None /\ aiError = FALSE /\ generating = FALSE
    /\ abortRef = None /\ aiReqs = {} /\ asked = 0

\* controller.abort(): the fetch, or the reading of its body, will reject.
Aborted(id) == {[r EXCEPT !.aborted = r.aborted \/ r.id = id] : r \in aiReqs}

\* Mutant of Reset: the box is cleared, the request in flight is not aborted.
MutResetKeepsRequest(k) ==
    /\ key' = k
    /\ summary' = None /\ aiError' = FALSE
    /\ UNCHANGED <<generating, abortRef, aiReqs, asked>>

\* Mutant of Reset: the controller is forgotten but not told to abort.
MutResetForgets(k) ==
    /\ key' = k
    /\ summary' = None /\ aiError' = FALSE
    /\ abortRef' = None
    /\ UNCHANGED <<generating, aiReqs, asked>>

\* Mutant of Reset: the answer stays in the box.
MutResetKeepsAnswer(k) ==
    /\ key' = k
    /\ aiError' = FALSE
    /\ aiReqs' = Aborted(abortRef)
    /\ abortRef' = None
    /\ UNCHANGED <<summary, generating, asked>>

\* The effect keyed on resetKey: clear the box, abort, forget the controller.
Reset(k) ==
    /\ key' = k
    /\ summary' = None /\ aiError' = FALSE
    /\ aiReqs' = Aborted(abortRef)
    /\ abortRef' = None
    /\ UNCHANGED <<generating, asked>>

\* The button is inert while it is generating, or when the panel disables it.
Inert(disabled) == generating \/ disabled

\* generate(): abort the active request and start one of its own.
Generate(about) ==
    /\ asked < MaxAsks
    /\ asked' = asked + 1
    /\ aiReqs' = Aborted(abortRef) \union
                   {[id |-> asked + 1, key |-> key, about |-> about, aborted |-> FALSE]}
    /\ abortRef' = asked + 1
    /\ generating' = TRUE /\ aiError' = FALSE /\ summary' = None
    /\ UNCHANGED key

\* The finally block: the spinner stops only for the active request.
Finally(r) ==
    /\ aiReqs' = aiReqs \ {r}
    /\ generating' = IF abortRef = r.id THEN FALSE ELSE generating
    /\ abortRef' = IF abortRef = r.id THEN None ELSE abortRef

Answered(r) ==
    /\ ~r.aborted
    /\ summary' = [key |-> r.key, about |-> r.about]
    /\ Finally(r)
    /\ UNCHANGED <<key, aiError, asked>>

Failed(r) ==
    /\ ~r.aborted
    /\ aiError' = TRUE
    /\ Finally(r)
    /\ UNCHANGED <<key, summary, asked>>

\* An AbortError is swallowed; only the finally block runs.
Dropped(r) ==
    /\ r.aborted
    /\ Finally(r)
    /\ UNCHANGED <<key, summary, aiError, asked>>

AiSettle == \E r \in aiReqs : Answered(r) \/ Failed(r) \/ Dropped(r)

AiNext ==
    \/ \E k \in Keys : Reset(k)
    \/ \E a \in Abouts : ~Inert(FALSE) /\ Generate(a)
    \/ AiSettle

AiSpec == AiInit /\ [][AiNext]_aiVars
-----------------------------------------------------------------------------
AiTypeOK ==
    /\ key \in Keys
    /\ summary \in [key : Keys, about : Abouts] \union {None}
    /\ aiError \in BOOLEAN /\ generating \in BOOLEAN
    /\ abortRef \in 1..MaxAsks \union {None}
    /\ aiReqs \subseteq Request
    /\ asked \in 0..MaxAsks

\* Why a late answer cannot surface: only the active request is alive, and it
\* was made under the key that is still in the box.
OneLiveRequest ==
    \A r \in aiReqs : r.id <= asked /\ (~r.aborted => abortRef = r.id /\ r.key = key)

\* The box, as the abstract promise sees it.
ShownKey == IF summary = None THEN None ELSE summary.key

Latest == INSTANCE LatestAnswer WITH
    Questions <- Keys, Nothing <- None, question <- key, shown <- ShownKey

LatestSpec == Latest!Spec
=============================================================================
