----------------------------- MODULE MCRemediation -----------------------------
(* Instances of Remediation for TLC.  Two files of one account, of the same   *)
(* base name, reported by the same scan: their incident folders want the same *)
(* name.  The third finding of the three-finding instances is a second report *)
(* of the first file, as the forensic scan makes one on every run.            *)
EXTENDS Remediation

CONSTANTS f1, f2, f3, p1, p2, x, y, acc, index, s1, s2, s3, s4

MCPathOf == [f \in Findings |-> IF f = f2 THEN p2 ELSE p1]
MCAccountOf == [p \in Paths |-> acc]
MCNameOf == [p \in Paths |-> index]
MCDetected == [f \in Findings |-> IF f = f2 THEN y ELSE x]
MCDetectedAt == [f \in Findings |-> IF f = f3 THEN 2 ELSE 1]

(* Two requests to the API, the auto-quarantine job, a restore from the CLI.  *)
MCProcessOf ==
    [s \in Sessions |->
        IF s = s3 THEN "worker" ELSE IF s = s4 THEN "cli" ELSE "api"]

================================================================================
