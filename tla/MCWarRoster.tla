----------------------------- MODULE MCWarRoster -----------------------------
(***************************************************************************)
(* A small instance of WarRoster: two worker processes, one of which runs  *)
(* the poller and serves requests, the other serves requests.              *)
(***************************************************************************)
EXTENDS WarRoster

CONSTANTS p1, p2, r1, r2, poll1, x, y

MCProcess == {p1, p2}
MCThread == {r1, r2, poll1}
MCProcessOf == (r1 :> p1) @@ (poll1 :> p1) @@ (r2 :> p2)
MCPoller == {poll1}

\* x starts on side a, y on neither.
MCBase == [e \in Entity |-> IF e = x THEN "a" ELSE NoSide]

In(a) == [alliance |-> a, corp |-> NoEntity]
Pilot(a) == [alliance |-> a, corp |-> NoEntity, pilot |-> TRUE]
Structure(a) == [alliance |-> a, corp |-> NoEntity, pilot |-> FALSE]

Kill(victim, attackers, final) ==
    [victim |-> victim, attackers |-> attackers, final |-> final]

\* x loses to two of y and one of x; a tie of x and y with y's final blow;
\* y loses to a structure of x and a pilot of neither.
Lopsided == Kill(In(x), <<Pilot(y), Pilot(x), Pilot(y)>>, 2)
Tied == Kill(In(NoEntity), <<Pilot(x), Pilot(y)>>, 2)
Siege == Kill(In(y), <<Structure(x), Pilot(NoEntity)>>, 1)

AllianceKills == {Lopsided, Tied, Siege}
OldKills == {Lopsided}
=============================================================================
