----------------------------- MODULE MCScanner -----------------------------
(***************************************************************************)
(* A small Scanner for TLC: a blank box and two texts, a D-scan with ships *)
(* of several tiers, one of them called "constructor", and one without a   *)
(* listed ship; to the panels that ask the server they are lists of names. *)
(***************************************************************************)
EXTENDS Scanner

CONSTANTS Fleet, Den

MCKeys == {Blank, Fleet, Den}

MCLines ==
    [k \in MCKeys |->
        CASE k = Blank -> <<>>
          [] k = Fleet -> << <<"text", "TACKLE", "distance">>,
                             <<"text", "SUPER", "distance">>,
                             <<"CRUISER", "text">>, <<"inherited", "FRIGATE">>,
                             <<"text">> >>
          [] k = Den   -> << <<"text", "STRUCTURE">>, <<"sun", "SUPER">>,
                             <<"text", "text">>, <<"STRUCTURE", "inherited">> >>]

MCAbouts == MCKeys \union {ParseDscan(MCLines[k]) : k \in MCKeys}
=============================================================================
