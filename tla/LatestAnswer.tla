---------------------------- MODULE LatestAnswer ----------------------------
(***************************************************************************)
(* What a panel that asks a slow service about an editable input promises: *)
(* what it shows was asked about the input it shows it under.  Editing the *)
(* input takes the answer away before anything else can happen, and an     *)
(* answer that arrives is for the input of that moment or is not shown.    *)
(***************************************************************************)
CONSTANTS Questions,    \* the inputs that can be asked about
          Nothing       \* no answer on display

VARIABLES question,     \* the input being edited
          shown         \* the question the displayed answer was given for

vars == <<question, shown>>

Init == question \in Questions /\ shown = Nothing

\* The input changes and takes the answer with it.
Ask(q) == question' = q /\ shown' = Nothing

\* The answer is dropped: a new one was requested, or it failed.
Forget == shown' = Nothing /\ UNCHANGED question

\* The answer for the current input arrives.
Answer == shown' = question /\ UNCHANGED question

Next == (\E q \in Questions : Ask(q)) \/ Forget \/ Answer

Spec == Init /\ [][Next]_vars
=============================================================================
