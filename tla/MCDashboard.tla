----------------------------- MODULE MCDashboard -----------------------------
(***************************************************************************)
(* A small Dashboard for TLC: three systems of ours, on a border, in a     *)
(* dead end and at a hub, and two of the region, one of them not on the    *)
(* map; a day in which the ADM crosses 2.0 and one campaign is announced,  *)
(* spawns its nodes and ends with the system lost, while another one       *)
(* starts at once; for a time a third is listed before the first.          *)
(***************************************************************************)
EXTENDS Dashboard

MCConstellations == [ours |-> {"UDVW-O", "JT2I-7", "1-KCSA"}, theirs |-> {"Q-1", "Z-9"}]
MCPlaced == Systems \ {"Z-9"}

MCBonus == [s \in Systems |->
              CASE s = "UDVW-O" -> 500 [] s = "JT2I-7" -> -50 [] s = "1-KCSA" -> 100 [] OTHER -> 0]

MCOrder == [s \in Systems |-> CASE s = "UDVW-O" -> 1 [] s = "JT2I-7" -> 2 [] OTHER -> 3]

MCCampaignAt == [c1 |-> "UDVW-O", c2 |-> "Q-1", c3 |-> "UDVW-O"]
MCStart == [c1 |-> 1, c2 |-> 2, c3 |-> 2]

\* The ADM of the hub and of the border, the owner of the border system.
Data(hub, border, owner, pvp, campaigns) ==
    [sov |-> [s \in Systems |->
                CASE s = "UDVW-O" -> [owner |-> owner, adm |-> border]
                  [] s = "JT2I-7" -> [owner |-> "host", adm |-> 19]
                  [] s = "1-KCSA" -> [owner |-> "us", adm |-> hub]
                  [] OTHER -> [owner |-> "hostile", adm |-> 10]],
     pvp |-> [s \in Systems |-> IF s = "1-KCSA" THEN pvp ELSE 0],
     npc |-> [s \in Systems |-> 0],
     history |-> [s \in Systems |->
                    IF s = "UDVW-O" THEN <<[age |-> 30, adm |-> 50], [age |-> 3, adm |-> 28]>> ELSE <<>>],
     campaigns |-> campaigns]

MCWorld == [t \in 0..2 |->
              CASE t = 0 -> Data(20, 20, "us", 0, <<"c1">>)
                [] t = 1 -> Data(19, 25, "us", 3, <<"c3", "c1">>)
                [] t = 2 -> Data(44, 25, "hostile", 3, <<"c2">>)]
=============================================================================
