------------------------------ MODULE MCReconcile ------------------------------
(* Instances of Reconcile for TLC.  One installation, two accounts of which    *)
(* one owns it; a run of discovery and two of the job that is followed.        *)
EXTENDS Reconcile

CONSTANTS d, r1, r2, a, b, s, k1, k2, p, on, off

MCOwnerOf == [x \in Sites |-> a]

(* The list is missing, or has both accounts, one of them with two domains.    *)
MCListings ==
    {<<>>, <<[account |-> a, domain |-> on], [account |-> b, domain |-> on],
             [account |-> a, domain |-> off]>>}

(* An extension that changes and one that comes or goes, without a version;    *)
(* a wp-config.php that is missing, or lacks the required setting; a crontab   *)
(* with a comment, and one with two entries of one command.                    *)
MCContents ==
    [job \in Items |->
        CASE job = "inventory" ->
                {[k \in Keys |-> IF k = k1 THEN on ELSE Absent],
                 [k \in Keys |-> IF k = k1 THEN off ELSE None]}
          [] job = "configuration" ->
                {[config |-> FALSE, setting |-> [k \in Keys |-> Absent]],
                 [config |-> TRUE, setting |-> [k \in Keys |-> IF k = k1 THEN on ELSE Absent]]}
          [] OTHER ->
                {<<[key |-> k1, value |-> on], Absent, [key |-> k2, value |-> on]>>,
                 <<[key |-> k1, value |-> on], [key |-> k1, value |-> off]>>}]

================================================================================
