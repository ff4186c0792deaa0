-------------------------- MODULE MCDetectionPipeline --------------------------
(* An instance of DetectionPipeline for TLC: in one account, a fake extension  *)
(* that cannot be moved and a drop-in of an installation that lies in the home *)
(* itself.  The intervals are the defaults: 15, 20 and 60 minutes.             *)
EXTENDS DetectionPipeline

CONSTANTS a, fake, dropin

MCOwnerOf == [f \in Files |-> a]

MCPlaceOf == [f \in Files |-> IF f = fake THEN "extension" ELSE "dropin"]

MCEvery ==
    [j \in WorkerJobs |-> CASE j = "forensic" -> 3 [] j = "quarantine" -> 4 [] OTHER -> 12]

MCMaxRun == [j \in WorkerJobs |-> 1]

================================================================================
