--------------------------- MODULE DetectionPipeline ---------------------------
(* From detection to automatic quarantine: the integrity scan, the audit that  *)
(* escalates its findings of named WordPress files, the forensic scan of the   *)
(* installations, and the job that quarantines CRITICAL findings.              *)
(*                                                                             *)
(* Time passes in units of five minutes.  The worker starts each job at its    *)
(* interval, all counted from the same instant; an operator may run a          *)
(* detection job in the API process meanwhile ("Run Now").  A run stamps what  *)
(* it finds with its start, and others see it when it has committed.  Instants *)
(* within a unit are not told apart: what is exactly as old as a lookback may  *)
(* or may not be inside it.  A run that writes does so in one step, its commit *)
(* (a quarantine run: from its first move to its commit it holds the lock):    *)
(* rows that two jobs load and save over each other are Remediation's and      *)
(* IntegrityScan's subject.                                                    *)
EXTENDS Integers, FiniteSets

CONSTANTS
    Accounts, Files,
    OwnerOf,        \* [Files -> Accounts]
    PlaceOf,        \* [Files -> Places]
    Named,          \* files whose path from the home is a critical path, of
                    \* accounts that have an installation
    Outside,        \* files of installations outside their account's home
    Stubborn,       \* files that cannot be moved
    Every,          \* [WorkerJobs -> units between two runs]
    AuditLookback,
    Lookback,       \* of the automatic quarantine
    Limit,          \* findings a query returns, 500
    Cap,            \* max_per_account_per_run
    Active,         \* mode == "active"
    MaxRun,         \* bound: [WorkerJobs -> units a run takes]
    MaxUpsets       \* bound: changes of files, restores, runs on demand, runs
                    \* that fail, restarts

Places == {"extension", "mu", "upload", "dropin", "core", "cron"}
Detectors == {"integrity", "audit", "forensic"}
WorkerJobs == Detectors \cup {"quarantine"}

ASSUME PipelineAssumption ==
    /\ OwnerOf \in [Files -> Accounts]
    /\ PlaceOf \in [Files -> Places]
    /\ {Named, Outside, Stubborn} \subseteq SUBSET Files
    /\ Every \in [WorkerJobs -> Nat \ {0}]
    /\ {AuditLookback, Lookback, Limit, Cap} \subseteq Nat \ {0}
    /\ Active \in BOOLEAN
    /\ MaxRun \in [WorkerJobs -> Nat]
    /\ MaxUpsets \in Nat
    /\ \A j \in WorkerJobs : MaxRun[j] < Every[j] /\ MaxRun[j] <= AuditLookback + Lookback

(* A run of each job in the worker, and one on demand in the API process.      *)
Runs == WorkerJobs \cup {"on demand"}

VARIABLES
    disk,      \* what lies at each path; of a cron file, what its row says
    base,      \* the integrity baselines of the named files
    held,      \* what quarantined findings of a file can restore
    findings,  \* committed findings that are not remediated
    due,       \* units until the worker starts each job
    pc,        \* where each run is
    task,      \* the job each run does
    lasts,     \* units a run has taken
    hand,      \* what a run has found, or the findings it has loaded
    moved,     \* findings a run has quarantined, and what they were
    tripped,   \* accounts whose cap the run exceeds
    edits, asks, faults,
    unheard    \* history: units a file has matched a rule without an event

process == <<pc, task, lasts, hand, moved, tripped>>
vars == <<disk, base, held, findings, due, process, edits, asks, faults, unheard>>

--------------------------------------------------------------------------------
(* Findings.                                                                   *)

Contents == {"absent", "clean", "updated", "malicious"}
Severities == 1..4
Critical == 4

(* Older than every job that could still read it looks back.                   *)
Horizon(f) == 1 + IF f \in Named /\ AuditLookback > Lookback
                  THEN AuditLookback ELSE Lookback

Ages == 0..(1 + AuditLookback + Lookback)

(* saw: what current_sha256 is the hash of, nothing for a deletion; by: the    *)
(* run that wrote it.                                                          *)
Finding == [file : Files, age : Ages, severity : Severities,
            saw : Contents, by : Runs, cause : Detectors]

(* The forensic scanner also reports what no row is kept of: the event alone.  *)
Report == [file : Files, severity : Severities]

(* A finding and what lay there when it was made, or moved.                    *)
Sighting == [finding : Finding, was : Contents]

(* What a restore puts back, and what the finding takes it for.                *)
Quarantined == [was : Contents \ {"absent"}, saw : Contents]

TypeOK ==
    /\ disk \in [Files -> Contents]
    /\ base \in [Named -> Contents]
    /\ held \in [Files -> SUBSET Quarantined]
    /\ findings \subseteq Finding
    /\ due \in [WorkerJobs -> Nat]
    /\ pc \in [Runs -> {"idle", "begun", "looked", "moving"}]
    /\ task \in [Runs -> WorkerJobs]
    /\ lasts \in [Runs -> Nat] /\ \A r \in Runs : lasts[r] <= MaxRun[task[r]]
    /\ hand \in [Runs -> SUBSET (Finding \cup Report \cup Sighting)]
    /\ moved \in [Runs -> SUBSET Sighting]
    /\ tripped \in [Runs -> SUBSET Accounts]
    /\ {edits, asks, faults} \subseteq Nat /\ edits + asks + faults <= MaxUpsets
    /\ unheard \in [Files -> Nat]
    /\ \A f \in Files : unheard[f] > 0 => disk[f] = "malicious"

Found(r, f, severity, saw) ==
    [file |-> f, age |-> lasts[r], severity |-> severity, saw |-> saw,
     by |-> r, cause |-> task[r]]

(* Slip: a change that is not an addition has no severity.                     *)
OnlyAdditions(before) == IF before = "absent" THEN 2 ELSE 0

(* _SEVERITY_BY_CHANGE: MEDIUM for what is added, HIGH for the rest.           *)
ChangeSeverity(before) == IF before = "absent" THEN 2 ELSE 3

(* What the integrity scan makes of the named files.                           *)
Changed(r) ==
    {[finding |-> Found(r, f, ChangeSeverity(base[f]), disk[f]),
      was |-> disk[f]] :
        f \in {g \in Named : disk[g] # base[g]}}

(* WordPressForensicScanner: an extension without a header, a must-use plugin  *)
(* and a drop-in are reported for being there, a script in uploads if rules    *)
(* match; of core files it knows nothing.  Cron entries: those that are        *)
(* suspicious.                                                                 *)
Severity(place, content) ==
    CASE content = "absent" \/ place = "core" -> 0
      [] place = "cron" -> IF content = "malicious" THEN 3 ELSE 0
      [] content = "malicious" -> Critical
      [] place \in {"extension", "dropin"} -> 3
      [] place = "mu" -> 2
      [] OTHER -> 0

Reports ==
    {[file |-> f, severity |-> Severity(PlaceOf[f], disk[f])] :
        f \in {g \in Files : Severity(PlaceOf[g], disk[g]) > 0}}

(* Slip: a file that has an open finding is not materialised again.            *)
MaterialisedOnce(r, reports) ==
    {Found(r, x.file, Critical, "malicious") :
        x \in {y \in reports : /\ y.severity = Critical
                               /\ y.file \notin Outside
                               /\ \A z \in findings : z.file # y.file}}

(* _materialize_integrity_finding: each time, whatever was found before.  Only *)
(* what matches rules is CRITICAL.                                             *)
Materialised(r, reports) ==
    {Found(r, x.file, Critical, "malicious") :
        x \in {y \in reports : y.severity = Critical /\ y.file \notin Outside}}

(* Slip: a finding that is materialised raises no event of its own.            *)
EventsOfTheRest(reports) == {x.file : x \in {y \in reports : y.severity < Critical}}

(* _raise_finding_event, _raise_cron_event: one event each, each time.         *)
Events(reports) == {x.file : x \in reports}

(* detected_at >= now - lookback.                                              *)
Within(x, lookback) == x.age < lookback

(* Rows whose age is the lookback may be on either side of it.                 *)
Windows(rows, lookback) ==
    LET inside == {x \in rows : Within(x, lookback)}
        edge == {x \in rows : x.age = lookback}
    IN  {inside \cup some : some \in SUBSET edge}

(* Pages of at most n rows; rows of one age come in any order.                 *)
Pages(rows, n) ==
    {some \in SUBSET rows :
        Cardinality(some) = IF Cardinality(rows) < n THEN Cardinality(rows) ELSE n}

Older(x, y) == x.age > y.age
Oldest(rows, n) ==
    {some \in Pages(rows, n) : \A x \in some, y \in rows \ some : ~Older(y, x)}
Newest(rows, n) ==
    {some \in Pages(rows, n) : \A x \in some, y \in rows \ some : ~Older(x, y)}

(* list_since, the newest first.                                               *)
Since == UNION {Newest(w, Limit) : w \in Windows(findings, AuditLookback)}

(* list_critical_unremediated, the oldest first.                               *)
Unremediated ==
    UNION {Oldest(w, Limit) :
        w \in Windows({x \in findings : x.severity = Critical}, Lookback)}

Of(a, rows) == {x \in rows : OwnerOf[x.file] = a}

(* The first Cap of each account.                                              *)
Picks(rows) ==
    {some \in SUBSET rows :
        \A a \in Accounts : Of(a, some) \in Oldest(Of(a, rows), Cap)}

(* AnalyzeWordPressIntegrityUseCase: the whole row is saved as it was loaded,  *)
(* but for its severity.                                                       *)
Escalated(rows, loaded) ==
    LET low == {x \in loaded : x.file \in Named /\ x.severity < Critical}
    IN  (rows \ low) \cup {[x EXCEPT !.severity = Critical] : x \in low}

--------------------------------------------------------------------------------
(* Runs.                                                                       *)

MoreUpsets == edits + asks + faults < MaxUpsets

Working(r) == pc[r] # "idle"

(* A run that has moved a file holds the write lock to its end.                *)
CanWrite(r) == \A q \in Runs \ {r} : pc[q] # "moving"

(* What is due together is started together, before any of it is done.         *)
Settled == \A j \in WorkerJobs : due[j] > 0

Load(r, rows, over) ==
    /\ hand' = [hand EXCEPT ![r] = rows]
    /\ tripped' = [tripped EXCEPT ![r] = over]

(* What a run does when it starts: the audit and the quarantine read findings. *)
Begin(r, j) ==
    /\ pc[r] = "idle"
    /\ pc' = [pc EXCEPT ![r] = "begun"]
    /\ task' = [task EXCEPT ![r] = j]
    /\ lasts' = [lasts EXCEPT ![r] = 0]
    /\ CASE j = "audit" -> \E rows \in Since : Load(r, rows, {})
         [] j = "quarantine" /\ Active ->
                \E rows \in Unremediated : \E picked \in Picks(rows) :
                    Load(r, picked, {a \in Accounts : Of(a, rows) # Of(a, picked)})
         [] OTHER -> Load(r, {}, {})
    /\ UNCHANGED <<disk, base, held, findings, moved, edits, faults, unheard>>

(* The scheduler's interval is over.                                           *)
Start(j) ==
    /\ due[j] = 0
    /\ due' = [due EXCEPT ![j] = Every[j]]
    /\ Begin(j, j)
    /\ UNCHANGED asks

(* The operator asks for a detection job.                                      *)
RunNow(j) ==
    /\ MoreUpsets
    /\ asks' = asks + 1
    /\ Begin("on demand", j)
    /\ UNCHANGED due

(* The scans read the files.                                                   *)
Look(r) ==
    /\ pc[r] = "begun"
    /\ task[r] \in {"integrity", "forensic"}
    /\ pc' = [pc EXCEPT ![r] = "looked"]
    /\ hand' = [hand EXCEPT ![r] = IF task[r] = "integrity" THEN Changed(r) ELSE Reports]
    /\ UNCHANGED <<disk, base, held, findings, due, task, lasts, moved, tripped,
                   edits, asks, faults, unheard>>

Rest(r) ==
    /\ pc' = [pc EXCEPT ![r] = "idle"]
    /\ lasts' = [lasts EXCEPT ![r] = 0]
    /\ hand' = [hand EXCEPT ![r] = {}]
    /\ moved' = [moved EXCEPT ![r] = {}]
    /\ tripped' = [tripped EXCEPT ![r] = {}]
    /\ task' = [task EXCEPT ![r] = IF r \in WorkerJobs THEN r ELSE "forensic"]

(* The baselines follow what was seen; the findings are committed.             *)
CommitIntegrity(r) ==
    /\ pc[r] = "looked" /\ task[r] = "integrity"
    /\ CanWrite(r)
    /\ findings' = findings \cup {[s.finding EXCEPT !.age = lasts[r]] : s \in hand[r]}
    /\ base' = [f \in Named |->
            IF \E s \in hand[r] : s.finding.file = f
            THEN (CHOOSE s \in hand[r] : s.finding.file = f).was
            ELSE base[f]]
    /\ Rest(r)
    /\ UNCHANGED <<disk, held, due, edits, asks, faults, unheard>>

CommitForensic(r) ==
    /\ pc[r] = "looked" /\ task[r] = "forensic"
    /\ CanWrite(r)
    /\ findings' = findings \cup Materialised(r, hand[r])
    /\ unheard' = [f \in Files |-> IF f \in Events(hand[r]) THEN 0 ELSE unheard[f]]
    /\ Rest(r)
    /\ UNCHANGED <<disk, base, held, due, edits, asks, faults>>

CommitAudit(r) ==
    /\ pc[r] = "begun" /\ task[r] = "audit"
    /\ CanWrite(r)
    /\ findings' = Escalated(findings, hand[r])
    /\ Rest(r)
    /\ UNCHANGED <<disk, base, held, due, edits, asks, faults, unheard>>

(* QuarantineFindingUseCase of the next finding, the oldest of its account:    *)
(* the file is moved, or the failure is recorded, and the run goes on; of a    *)
(* deletion nothing is tried.  Which account comes next is left open.          *)
Movable(x) ==
    /\ x.saw # "absent"
    /\ disk[x.file] # "absent"
    /\ x.file \notin Stubborn

Move(r) ==
    /\ task[r] = "quarantine"
    /\ pc[r] \in {"begun", "moving"}
    /\ CanWrite(r)
    /\ \E x \in hand[r] :
        /\ \A y \in Of(OwnerOf[x.file], hand[r]) : ~Older(y, x)
        /\ hand' = [hand EXCEPT ![r] = @ \ {x}]
        /\ IF Movable(x)
           THEN /\ moved' = [moved EXCEPT ![r] = @ \cup {[finding |-> x, was |-> disk[x.file]]}]
                /\ disk' = [disk EXCEPT ![x.file] = "absent"]
                /\ unheard' = [unheard EXCEPT ![x.file] = 0]
           ELSE UNCHANGED <<moved, disk, unheard>>
        /\ pc' = [pc EXCEPT ![r] = IF x.saw = "absent" THEN @ ELSE "moving"]
    /\ UNCHANGED <<base, held, findings, due, task, lasts, tripped, edits, asks, faults>>

(* The circuit breaker's events go with the findings it leaves alone.          *)
CommitQuarantine(r) ==
    /\ task[r] = "quarantine"
    /\ pc[r] \in {"begun", "moving"}
    /\ hand[r] = {}
    /\ CanWrite(r)
    /\ findings' = findings \ {m.finding : m \in moved[r]}
    /\ held' = [f \in Files |->
            held[f] \cup {[was |-> m.was, saw |-> m.finding.saw] :
                            m \in {n \in moved[r] : n.finding.file = f}}]
    /\ base' = [f \in Named |->
            IF \E m \in moved[r] : m.finding.file = f THEN "absent" ELSE base[f]]
    /\ Rest(r)
    /\ UNCHANGED <<disk, due, edits, asks, faults, unheard>>

(* A run raises, or waits too long for the lock: its transaction is gone, what *)
(* it has moved stays where it is.                                             *)
Fail(r) ==
    /\ Working(r)
    /\ MoreUpsets
    /\ faults' = faults + 1
    /\ Rest(r)
    /\ UNCHANGED <<disk, base, held, findings, due, edits, asks, unheard>>

(* The worker goes down and comes back: the intervals are counted anew.        *)
Restart ==
    /\ MoreUpsets
    /\ faults' = faults + 1
    /\ due' = Every
    /\ pc' = [r \in Runs |-> IF r \in WorkerJobs THEN "idle" ELSE pc[r]]
    /\ lasts' = [r \in Runs |-> IF r \in WorkerJobs THEN 0 ELSE lasts[r]]
    /\ hand' = [r \in Runs |-> IF r \in WorkerJobs THEN {} ELSE hand[r]]
    /\ moved' = [r \in Runs |-> IF r \in WorkerJobs THEN {} ELSE moved[r]]
    /\ tripped' = [r \in Runs |-> IF r \in WorkerJobs THEN {} ELSE tripped[r]]
    /\ UNCHANGED <<task, disk, base, held, findings, edits, asks, unheard>>

--------------------------------------------------------------------------------
(* The world.                                                                  *)

AlarmBound == (Every["forensic"] + MaxRun["forensic"]) * (1 + faults)

(* What is old stays as it is: no job reads it any more.                       *)
Grown(x) == IF x.age < Horizon(x.file) THEN [x EXCEPT !.age = @ + 1] ELSE x

Tick ==
    /\ Settled
    /\ \A r \in Runs : Working(r) => lasts[r] < MaxRun[task[r]]
    /\ due' = [j \in WorkerJobs |-> due[j] - 1]
    /\ lasts' = [r \in Runs |-> IF Working(r) THEN lasts[r] + 1 ELSE 0]
    /\ findings' = {Grown(x) : x \in findings}
    /\ hand' = [r \in Runs |-> IF task[r] \in {"forensic", "integrity"} THEN hand[r]
                               ELSE {Grown(x) : x \in hand[r]}]
    /\ moved' = [r \in Runs |-> {[m EXCEPT !.finding = Grown(@)] : m \in moved[r]}]
    /\ unheard' = [f \in Files |->
            IF disk[f] = "malicious" /\ PlaceOf[f] # "core" /\ unheard[f] <= AlarmBound
            THEN unheard[f] + 1 ELSE unheard[f]]
    /\ UNCHANGED <<disk, base, held, pc, task, tripped, edits, asks, faults>>

(* A file is written or removed.                                               *)
Edit ==
    /\ MoreUpsets
    /\ edits' = edits + 1
    /\ \E f \in Files : \E c \in Contents \ {disk[f]} :
        /\ disk' = [disk EXCEPT ![f] = c]
        /\ unheard' = [unheard EXCEPT ![f] = 0]
    /\ UNCHANGED <<base, held, findings, due, process, asks, faults>>

(* The operator restores a quarantined file whose place is free; the baseline  *)
(* is given the hash of the detection.                                         *)
Restore ==
    /\ MoreUpsets
    /\ edits' = edits + 1
    /\ \A r \in Runs : pc[r] # "moving"
    /\ \E f \in Files : \E c \in held[f] :
        /\ disk[f] = "absent"
        /\ disk' = [disk EXCEPT ![f] = c.was]
        /\ held' = [held EXCEPT ![f] = @ \ {c}]
        /\ base' = [g \in Named |-> IF g = f THEN c.saw ELSE base[g]]
    /\ UNCHANGED <<findings, due, process, asks, faults, unheard>>

Init ==
    /\ disk \in [Files -> {"clean", "malicious"}]
    /\ base = [f \in Named |-> disk[f]]
    /\ held = [f \in Files |-> {}]
    /\ findings = {}
    /\ due = Every
    /\ pc = [r \in Runs |-> "idle"]
    /\ task = [r \in Runs |-> IF r \in WorkerJobs THEN r ELSE "forensic"]
    /\ lasts = [r \in Runs |-> 0]
    /\ hand = [r \in Runs |-> {}]
    /\ moved = [r \in Runs |-> {}]
    /\ tripped = [r \in Runs |-> {}]
    /\ edits = 0 /\ asks = 0 /\ faults = 0
    /\ unheard = [f \in Files |-> 0]

Step(r) ==
    /\ Settled
    /\ \/ Look(r)
       \/ CommitIntegrity(r) \/ CommitForensic(r) \/ CommitAudit(r)
       \/ Move(r) \/ CommitQuarantine(r)

Next ==
    \/ \E j \in WorkerJobs : Start(j)
    \/ \E j \in Detectors : RunNow(j)
    \/ \E r \in Runs : Step(r) \/ Fail(r)
    \/ Restart \/ Tick \/ Edit \/ Restore

Spec == Init /\ [][Next]_vars

(* Time passes, the scheduler starts what is due, and a run is carried on.     *)
FairSpec ==
    /\ Spec
    /\ WF_vars(Tick)
    /\ \A j \in WorkerJobs : WF_vars(Start(j))
    /\ \A r \in Runs : WF_vars(Step(r))
--------------------------------------------------------------------------------
(* Properties.                                                                 *)

(* The forensic scan reports a file that rules match, or a suspicious cron     *)
(* entry, within one interval of its appearing, plus one for each run that     *)
(* failed or restart: whatever overlaps, and though it is reported before.     *)
AlarmedInTime == \A f \in Files : unheard[f] <= AlarmBound

(* Claimed of AnalyzeWordPressIntegrityUseCase: a finding is escalated to      *)
(* CRITICAL "so it becomes eligible for auto-quarantine".  Eligible is what    *)
(* there is a file to move for, and what the quarantine job looks back far     *)
(* enough to load.  It does not: on the worker's own schedule, with the        *)
(* intervals of the defaults, a finding is escalated too late.                 *)
EscalationMakesEligible ==
    [][\A r \in Runs : asks = 0 /\ CommitAudit(r) =>
        \A x \in findings' \ findings : x.saw = "absent" \/ x.age <= Lookback]_vars

(* A file that rules match and that can be moved does not stay, whatever runs  *)
(* fail and though someone puts it back: every scan finds it anew, and some    *)
(* run of the job sees that.  Provided there are fewer files that cannot be    *)
(* moved than the cap of the file's account, and fewer than the limit in all:  *)
(* what cannot be moved is found anew as well and keeps its place in each      *)
(* batch, and as many as the cap would fill every one.                         *)
EventuallyContained ==
    Active /\ Cardinality(Stubborn) < Limit =>
        \A f \in Files \ (Outside \cup Stubborn) :
            /\ PlaceOf[f] \notin {"core", "cron"}
            /\ Cardinality({g \in Stubborn : OwnerOf[g] = OwnerOf[f]}) < Cap
            => []<>(disk[f] # "malicious")

================================================================================
