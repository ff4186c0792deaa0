---------------------------- MODULE MCIntegrityScan ----------------------------
(* Instances of IntegrityScan for TLC: an account with two files and one with  *)
(* one; p2 and p3 are there at first, p1 may be.                               *)
EXTENDS IntegrityScan

CONSTANTS p1, p2, p3, x, y, z, home1, home2

MCAccountOf == [p \in Paths |-> IF p = p3 THEN home2 ELSE home1]

(* Two contents, one with either of two modes, and one that is too large. **)
MCFiles == {[sha |-> x, mode |-> "644"], [sha |-> x, mode |-> "600"],
            [sha |-> y, mode |-> "644"], [sha |-> z, mode |-> "644"]}
MCHomes == {h \in [Paths -> MCFiles \cup {Absent}] :
                /\ h[p1] \in {Absent, [sha |-> x, mode |-> "644"]}
                /\ \A p \in Paths \ {p1} : h[p] = [sha |-> x, mode |-> "644"]}

================================================================================
