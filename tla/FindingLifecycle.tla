--------------------------- MODULE FindingLifecycle ----------------------------
(* What the remediation of findings promises an operator, with no database    *)
(* sessions, no filesystem and no files: a finding goes from NONE to          *)
(* QUARANTINED and from there to RESTORED or to DELETED, and ends there; a    *)
(* quarantined finding has an incident folder of its own; an acknowledgement  *)
(* is never taken back.                                                       *)
CONSTANTS Findings, Folders, None

VARIABLES
    state,    \* remediation_state of each finding
    holds,    \* the incident folder of a quarantined finding
    acked     \* the acknowledged findings

vars == <<state, holds, acked>>

Init ==
    /\ state = [f \in Findings |-> "NONE"]
    /\ holds = [f \in Findings |-> None]
    /\ acked = {}

Held == {holds[f] : f \in Findings} \ {None}

(* A request quarantines one finding, a run of the job several at once; each  *)
(* gets a folder that no finding holds.                                       *)
Quarantine(F) ==
    /\ F # {}
    /\ \A f \in F : state[f] = "NONE"
    /\ state' = [f \in Findings |-> IF f \in F THEN "QUARANTINED" ELSE state[f]]
    /\ holds' \in [Findings -> Folders \cup {None}]
    /\ \A f \in F : holds'[f] \in Folders \ Held
    /\ \A f, g \in F : f # g => holds'[f] # holds'[g]
    /\ \A f \in Findings \ F : holds'[f] = holds[f]
    /\ UNCHANGED acked

Release(f, to) ==
    /\ state[f] = "QUARANTINED"
    /\ state' = [state EXCEPT ![f] = to]
    /\ holds' = [holds EXCEPT ![f] = None]
    /\ UNCHANGED acked

Acknowledge(f) ==
    /\ acked' = acked \cup {f}
    /\ UNCHANGED <<state, holds>>

Next ==
    \/ \E F \in SUBSET Findings : Quarantine(F)
    \/ \E f \in Findings : Release(f, "RESTORED") \/ Release(f, "DELETED")
    \/ \E f \in Findings : Acknowledge(f)

Spec == Init /\ [][Next]_vars
================================================================================
