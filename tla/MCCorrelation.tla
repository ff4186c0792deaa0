----------------------------- MODULE MCCorrelation -----------------------------
(* Instances of Correlation for TLC: two events of one signature, from two     *)
(* accounts, and one of another signature that has no account.                 *)
EXTENDS Correlation

CONSTANTS e1, e2, e3, a, b, tmp, cron

MCSigOf == [e \in Events |-> IF e = e3 THEN cron ELSE tmp]
MCAccountOf == [e \in Events |-> IF e = e3 THEN None ELSE IF e = e2 THEN b ELSE a]
MCSeverityOf == [e \in Events |-> IF e \in {e1, e3} THEN 4 ELSE 3]

(* A plugin with and without a version, and another one.                       *)
Known == [slug |-> 1, version |-> 1]
Bare == [slug |-> 1, version |-> Unknown]
Other == [slug |-> 2, version |-> 1]
MCPlugins == {Known, Bare, Other}

(* Both accounts have two plugins, or one in two versions, or only one account *)
(* has any.                                                                    *)
MCInventories ==
    {[acc \in Accounts |-> {Known, Other}], [acc \in Accounts |-> {Known, Bare}],
     [acc \in Accounts |-> IF acc = a THEN {Known} ELSE {}]}

================================================================================
