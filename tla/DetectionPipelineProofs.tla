------------------------ MODULE DetectionPipelineProofs ------------------------
(* Theorems about DetectionPipeline: its type invariant; a match is reported   *)
(* in time, for all intervals and all durations of runs; and what the audit    *)
(* escalates comes too late for the quarantine job while the intervals keep    *)
(* step.                                                                       *)
EXTENDS DetectionPipeline, TLAPS

(* What a run holds depends on what it does.                                   *)
Held(r) ==
    /\ task[r] = "integrity" => hand[r] \subseteq Sighting
    /\ task[r] = "forensic" => hand[r] \subseteq Report
    /\ task[r] \in {"audit", "quarantine"} => hand[r] \subseteq Finding
    /\ \A m \in moved[r] : m.was # "absent"
    /\ pc[r] = "moving" => task[r] = "quarantine"
    /\ IF r \in WorkerJobs THEN task[r] = r ELSE task[r] \in Detectors

Typed == TypeOK /\ \A r \in Runs : Held(r)

--------------------------------------------------------------------------------
(* What is found and what is read.                                             *)

LEMMA FoundType ==
    ASSUME Typed, NEW r \in Runs, task[r] \in Detectors, NEW f \in Files,
           NEW severity \in Severities, NEW saw \in Contents
    PROVE  Found(r, f, severity, saw) \in Finding
<1>1. lasts[r] \in Ages
    BY PipelineAssumption DEF Typed, TypeOK, Ages, WorkerJobs
<1> QED
    BY <1>1 DEF Found, Finding

LEMMA ChangedType ==
    ASSUME Typed, NEW r \in Runs, task[r] = "integrity"
    PROVE  Changed(r) \subseteq Sighting
<1>1. ASSUME NEW f \in Named
      PROVE  [finding |-> Found(r, f, ChangeSeverity(base[f]), disk[f]),
              was |-> disk[f]] \in Sighting
    <2>1. f \in Files /\ disk[f] \in Contents
        BY PipelineAssumption DEF Typed, TypeOK
    <2>2. ChangeSeverity(base[f]) \in Severities
        BY DEF ChangeSeverity, Severities
    <2>3. Found(r, f, ChangeSeverity(base[f]), disk[f]) \in Finding
        BY <2>1, <2>2, FoundType DEF Detectors
    <2> QED
        BY <2>1, <2>3 DEF Sighting
<1> QED
    BY <1>1 DEF Changed

(* Every file that rules match, but for core files, is among the reports.      *)
LEMMA ReportsType ==
    ASSUME Typed
    PROVE  /\ Reports \subseteq Report
           /\ \A f \in Files : disk[f] = "malicious" /\ PlaceOf[f] # "core" => f \in Events(Reports)
<1>1. ASSUME NEW f \in Files
      PROVE  Severity(PlaceOf[f], disk[f]) \in 0..4
    BY DEF Severity, Critical
<1>2. ASSUME NEW f \in Files, disk[f] = "malicious", PlaceOf[f] # "core"
      PROVE  Severity(PlaceOf[f], disk[f]) > 0
    BY <1>2 DEF Severity, Critical
<1>3. Reports \subseteq Report
    <2>1. ASSUME NEW f \in Files, Severity(PlaceOf[f], disk[f]) > 0
          PROVE  [file |-> f, severity |-> Severity(PlaceOf[f], disk[f])] \in Report
        BY <1>1, <2>1 DEF Report, Severities
    <2> QED
        BY <2>1 DEF Reports
<1>4. ASSUME NEW f \in Files, disk[f] = "malicious", PlaceOf[f] # "core"
      PROVE  f \in Events(Reports)
    <2> DEFINE report == [file |-> f, severity |-> Severity(PlaceOf[f], disk[f])]
    <2>1. report \in Reports
        BY <1>2, <1>4 DEF Reports
    <2>2. report.file = f
        OBVIOUS
    <2> HIDE DEF report
    <2> QED
        BY <2>1, <2>2 DEF Events
<1> QED
    BY <1>3, <1>4

LEMMA PagesInside ==
    ASSUME NEW rows, NEW n
    PROVE  /\ \A some \in Oldest(rows, n) : some \subseteq rows
           /\ \A some \in Newest(rows, n) : some \subseteq rows
    BY DEF Oldest, Newest, Pages

LEMMA QueriesInside ==
    /\ \A rows \in Since : rows \subseteq findings
    /\ \A rows \in Unremediated : rows \subseteq findings
<1>1. ASSUME NEW rows, NEW lookback, NEW w \in Windows(rows, lookback)
      PROVE  w \subseteq rows
    BY DEF Windows
<1>2. \A rows \in Since : rows \subseteq findings
    BY <1>1, PagesInside DEF Since
<1>3. ASSUME NEW rows \in Unremediated
      PROVE  rows \subseteq findings
    <2> DEFINE critical == {x \in findings : x.severity = Critical}
    <2>1. PICK w \in Windows(critical, Lookback) : rows \in Oldest(w, Limit)
        BY DEF Unremediated
    <2>2. w \subseteq critical
        BY <1>1
    <2> QED
        BY <2>1, <2>2, PagesInside
<1> QED
    BY <1>2, <1>3

LEMMA GrownType ==
    ASSUME NEW x \in Finding
    PROVE  Grown(x) \in Finding
<1>1. Horizon(x.file) \in Nat /\ Horizon(x.file) <= 1 + AuditLookback + Lookback
    BY PipelineAssumption DEF Horizon
<1>2. x.age \in Ages
    BY DEF Finding
<1>3. CASE x.age < Horizon(x.file)
    <2>1. x.age + 1 \in Ages
        BY <1>1, <1>2, <1>3, PipelineAssumption DEF Ages
    <2> QED
        BY <1>3, <2>1 DEF Grown, Finding
<1>4. CASE ~(x.age < Horizon(x.file))
    BY <1>4 DEF Grown
<1> QED
    BY <1>3, <1>4

--------------------------------------------------------------------------------
(* The type invariant.                                                         *)

LEMMA TypedInit ==
    ASSUME Init
    PROVE  Typed
<1>1. \A r \in Runs : /\ r \in WorkerJobs \/ "forensic" \in Detectors
                      /\ (IF r \in WorkerJobs THEN r ELSE "forensic") \in WorkerJobs
    BY DEF Runs, WorkerJobs, Detectors
<1>2. TypeOK
    BY <1>1, PipelineAssumption DEF Init, TypeOK, Contents
<1>3. \A r \in Runs : Held(r)
    BY <1>1 DEF Init, Held
<1> QED
    BY <1>2, <1>3 DEF Typed

(* A run begins, and ends.                                                     *)
LEMMA BeginTyped ==
    ASSUME Typed, NEW r \in Runs, NEW j \in WorkerJobs, Begin(r, j),
           IF r \in WorkerJobs THEN j = r ELSE j \in Detectors,
           due' \in [WorkerJobs -> Nat], asks' \in Nat, edits + asks' + faults <= MaxUpsets
    PROVE  Typed'
<1>1. PICK rows \in SUBSET Finding, over \in SUBSET Accounts :
        Load(r, rows, over) /\ (j \in {"integrity", "forensic"} => rows = {})
    <2>1. findings \subseteq Finding
        BY DEF Typed, TypeOK
    <2>2. CASE j = "audit"
        <3>1. PICK rows \in Since : Load(r, rows, {})
            BY <2>2 DEF Begin
        <3> QED
            BY <2>1, <2>2, <3>1, QueriesInside
    <2>3. CASE j = "quarantine" /\ Active
        <3>1. PICK rows \in Unremediated : \E picked \in Picks(rows) :
                Load(r, picked, {a \in Accounts : Of(a, rows) # Of(a, picked)})
            BY <2>3 DEF Begin
        <3>2. PICK picked \in Picks(rows) :
                Load(r, picked, {a \in Accounts : Of(a, rows) # Of(a, picked)})
            BY <3>1
        <3>3. picked \subseteq rows
            BY DEF Picks
        <3>4. {a \in Accounts : Of(a, rows) # Of(a, picked)} \in SUBSET Accounts
            OBVIOUS
        <3> QED
            BY <2>1, <2>3, <3>2, <3>3, <3>4, QueriesInside
    <2>4. CASE ~(j = "audit" \/ (j = "quarantine" /\ Active))
        BY <2>4 DEF Begin
    <2> QED
        BY <2>2, <2>3, <2>4
<1>2. MaxRun[j] \in Nat
    BY PipelineAssumption
<1>3. /\ \A x \in Runs : x # r => /\ pc'[x] = pc[x] /\ task'[x] = task[x] /\ lasts'[x] = lasts[x]
                                  /\ hand'[x] = hand[x] /\ moved'[x] = moved[x]
      /\ pc'[r] = "begun" /\ task'[r] = j /\ lasts'[r] = 0 /\ hand'[r] = rows /\ moved'[r] = moved[r]
    BY <1>1 DEF Begin, Load, Typed, TypeOK
<1>4. TypeOK'
    BY <1>1, <1>2 DEF Begin, Load, Typed, TypeOK
<1>5. ASSUME NEW x \in Runs
      PROVE  Held(x)'
    <2>1. CASE x = r
        BY <1>1, <1>3, <2>1 DEF Typed, Held, WorkerJobs
    <2>2. CASE x # r
        BY <1>3, <2>2 DEF Typed, Held
    <2> QED
        BY <2>1, <2>2
<1> QED
    BY <1>4, <1>5 DEF Typed

LEMMA RestTyped ==
    ASSUME Typed, NEW r \in Runs, Rest(r)
    PROVE  /\ pc' \in [Runs -> {"idle", "begun", "looked", "moving"}]
           /\ task' \in [Runs -> WorkerJobs]
           /\ lasts' \in [Runs -> Nat] /\ \A x \in Runs : lasts'[x] <= MaxRun[task'[x]]
           /\ hand' \in [Runs -> SUBSET (Finding \cup Report \cup Sighting)]
           /\ moved' \in [Runs -> SUBSET Sighting]
           /\ tripped' \in [Runs -> SUBSET Accounts]
           /\ \A x \in Runs : Held(x)'
<1>1. (IF r \in WorkerJobs THEN r ELSE "forensic") \in WorkerJobs /\ "forensic" \in Detectors
    BY DEF WorkerJobs, Detectors
<1>2. \A j \in WorkerJobs : MaxRun[j] \in Nat
    BY PipelineAssumption
<1>3. \A x \in Runs : Held(x)'
    BY <1>1 DEF Rest, Typed, TypeOK, Held
<1> QED
    BY <1>1, <1>2, <1>3 DEF Rest, Typed, TypeOK

LEMMA CommitsTyped ==
    ASSUME Typed, NEW r \in Runs,
           CommitIntegrity(r) \/ CommitForensic(r) \/ CommitAudit(r) \/ CommitQuarantine(r) \/ Fail(r)
    PROVE  Typed'
<1>1. Rest(r)
    BY DEF CommitIntegrity, CommitForensic, CommitAudit, CommitQuarantine, Fail
<1> DEFINE Rows == findings \subseteq Finding
           Bases == base \in [Named -> Contents]
           Kept == held \in [Files -> SUBSET Quarantined]
           Heard == unheard \in [Files -> Nat] /\ \A f \in Files : unheard[f] > 0 => disk[f] = "malicious"
           Upsets == {edits, asks, faults} \subseteq Nat /\ edits + asks + faults <= MaxUpsets
<1>2. Rows /\ Bases /\ Kept /\ Heard /\ Upsets
    BY DEF Typed, TypeOK
<1>3. disk' = disk /\ due' = due
    BY DEF CommitIntegrity, CommitForensic, CommitAudit, CommitQuarantine, Fail
<1>4. SUFFICES Rows' /\ Bases' /\ Kept' /\ Heard' /\ Upsets'
    BY <1>1, <1>3, RestTyped DEF Typed, TypeOK
<1>5. CASE CommitIntegrity(r)
    <2>1. hand[r] \subseteq Sighting
        BY <1>5 DEF CommitIntegrity, Typed, Held
    <2>2. lasts[r] \in Ages
        BY PipelineAssumption DEF Typed, TypeOK, Ages, WorkerJobs
    <2>3. ASSUME NEW s \in hand[r]
          PROVE  s.was \in Contents /\ [s.finding EXCEPT !.age = lasts[r]] \in Finding
        BY <2>1, <2>2 DEF Sighting, Finding
    <2>4. Rows'
        BY <1>2, <1>5, <2>3 DEF CommitIntegrity
    <2>5. ASSUME NEW f \in Named
          PROVE  (IF \E s \in hand[r] : s.finding.file = f
                  THEN (CHOOSE s \in hand[r] : s.finding.file = f).was ELSE base[f]) \in Contents
        <3>1. CASE \E s \in hand[r] : s.finding.file = f
            <4>1. (CHOOSE s \in hand[r] : s.finding.file = f) \in hand[r]
                BY <3>1
            <4> QED
                BY <2>3, <3>1, <4>1
        <3> QED
            BY <1>2, <3>1
    <2>6. Bases'
        BY <1>5, <2>5 DEF CommitIntegrity
    <2> QED
        BY <1>2, <1>5, <2>4, <2>6 DEF CommitIntegrity
<1>6. CASE CommitForensic(r)
    <2>1. hand[r] \subseteq Report
        BY <1>6 DEF CommitForensic, Typed, Held
    <2>2. ASSUME NEW x \in hand[r]
          PROVE  Found(r, x.file, Critical, "malicious") \in Finding
        <3>1. x.file \in Files /\ Critical \in Severities /\ "malicious" \in Contents
            BY <2>1 DEF Report, Critical, Severities, Contents
        <3> QED
            BY <1>6, <3>1, FoundType DEF CommitForensic, Detectors
    <2>3. Rows'
        BY <1>2, <1>6, <2>2 DEF CommitForensic, Materialised
    <2>4. Heard'
        BY <1>2, <1>6 DEF CommitForensic
    <2> QED
        BY <1>2, <1>6, <2>3, <2>4 DEF CommitForensic
<1>7. CASE CommitAudit(r)
    <2>1. hand[r] \subseteq Finding
        BY <1>7 DEF CommitAudit, Typed, Held
    <2>2. \A x \in hand[r] : [x EXCEPT !.severity = Critical] \in Finding
        BY <2>1 DEF Finding, Critical, Severities
    <2>3. Escalated(findings, hand[r]) \subseteq Finding
        BY <1>2, <2>2 DEF Escalated
    <2> QED
        BY <1>2, <1>7, <2>3 DEF CommitAudit
<1>8. CASE CommitQuarantine(r)
    <2>1. moved[r] \subseteq Sighting /\ \A m \in moved[r] : m.was # "absent"
        BY DEF Typed, TypeOK, Held
    <2>2. \A m \in moved[r] : [was |-> m.was, saw |-> m.finding.saw] \in Quarantined
        BY <2>1 DEF Sighting, Finding, Quarantined
    <2>3. Kept'
        BY <1>2, <1>8, <2>2 DEF CommitQuarantine
    <2>4. Bases'
        BY <1>2, <1>8 DEF CommitQuarantine, Contents
    <2> QED
        BY <1>2, <1>8, <2>3, <2>4 DEF CommitQuarantine
<1>9. CASE Fail(r)
    <2>1. Upsets'
        BY <1>2, <1>9, PipelineAssumption DEF Fail, MoreUpsets
    <2> QED
        BY <1>2, <1>9, <2>1 DEF Fail
<1> QED
    BY <1>5, <1>6, <1>7, <1>8, <1>9

LEMMA LookTyped ==
    ASSUME Typed, NEW r \in Runs, Look(r)
    PROVE  Typed'
<1> DEFINE new == IF task[r] = "integrity" THEN Changed(r) ELSE Reports
<1>1. /\ task[r] = "integrity" => new \subseteq Sighting
      /\ task[r] = "forensic" => new \subseteq Report
    BY ChangedType, ReportsType
<1>2. /\ pc' = [pc EXCEPT ![r] = "looked"] /\ hand' = [hand EXCEPT ![r] = new]
      /\ task[r] \in {"integrity", "forensic"}
    BY DEF Look
<1> HIDE DEF new
<1>3. hand' \in [Runs -> SUBSET (Finding \cup Report \cup Sighting)]
    BY <1>1, <1>2 DEF Typed, TypeOK
<1>4. TypeOK'
    BY <1>2, <1>3 DEF Look, Typed, TypeOK
<1>5. \A x \in Runs : Held(x)'
    BY <1>1, <1>2 DEF Look, Typed, TypeOK, Held
<1> QED
    BY <1>4, <1>5 DEF Typed

LEMMA MoveTyped ==
    ASSUME Typed, NEW r \in Runs, Move(r)
    PROVE  Typed'
<1>1. PICK x \in hand[r] :
        /\ hand' = [hand EXCEPT ![r] = @ \ {x}]
        /\ IF Movable(x)
           THEN /\ moved' = [moved EXCEPT ![r] = @ \cup {[finding |-> x, was |-> disk[x.file]]}]
                /\ disk' = [disk EXCEPT ![x.file] = "absent"]
                /\ unheard' = [unheard EXCEPT ![x.file] = 0]
           ELSE UNCHANGED <<moved, disk, unheard>>
        /\ pc' = [pc EXCEPT ![r] = IF x.saw = "absent" THEN @ ELSE "moving"]
    BY DEF Move
<1>2. task[r] = "quarantine" /\ x \in Finding
    BY <1>1 DEF Move, Typed, Held
<1>3. x.file \in Files /\ disk[x.file] \in Contents
    BY <1>2 DEF Finding, Typed, TypeOK
<1>4. [finding |-> x, was |-> disk[x.file]] \in Sighting
    BY <1>2, <1>3 DEF Sighting
<1>5. /\ moved' \in [Runs -> SUBSET Sighting]
      /\ \A q \in Runs : \A m \in moved'[q] : m.was # "absent"
    <2>1. \A q \in Runs : \A m \in moved[q] : m.was # "absent"
        BY DEF Typed, Held
    <2>2. CASE Movable(x)
        BY <1>1, <1>4, <2>1, <2>2 DEF Movable, Typed, TypeOK
    <2>3. CASE ~Movable(x)
        BY <1>1, <2>1, <2>3 DEF Typed, TypeOK
    <2> QED
        BY <2>2, <2>3
<1>6. /\ disk' \in [Files -> Contents] /\ unheard' \in [Files -> Nat]
      /\ \A f \in Files : unheard'[f] > 0 => disk'[f] = "malicious"
    <2>1. CASE Movable(x)
        BY <1>1, <1>3, <2>1 DEF Typed, TypeOK, Contents
    <2>2. CASE ~Movable(x)
        BY <1>1, <2>2 DEF Typed, TypeOK
    <2> QED
        BY <2>1, <2>2
<1>7. TypeOK'
    BY <1>1, <1>5, <1>6 DEF Move, Typed, TypeOK
<1>8. \A q \in Runs : Held(q)'
    BY <1>1, <1>2, <1>5 DEF Move, Typed, TypeOK, Held
<1> QED
    BY <1>7, <1>8 DEF Typed

LEMMA RestartTyped ==
    ASSUME Typed, Restart
    PROVE  Typed'
<1>1. /\ \A j \in WorkerJobs : MaxRun[j] \in Nat
      /\ Every \in [WorkerJobs -> Nat]
      /\ faults' \in Nat /\ edits + asks + faults' <= MaxUpsets
    BY PipelineAssumption DEF Restart, MoreUpsets, Typed, TypeOK
<1>2. /\ pc' \in [Runs -> {"idle", "begun", "looked", "moving"}]
      /\ lasts' \in [Runs -> Nat] /\ \A x \in Runs : lasts'[x] <= MaxRun[task[x]]
      /\ hand' \in [Runs -> SUBSET (Finding \cup Report \cup Sighting)]
      /\ moved' \in [Runs -> SUBSET Sighting]
      /\ tripped' \in [Runs -> SUBSET Accounts]
    BY <1>1 DEF Restart, Typed, TypeOK
<1>3. TypeOK'
    BY <1>1, <1>2 DEF Restart, Typed, TypeOK
<1>4. \A x \in Runs : Held(x)'
    BY DEF Restart, Typed, Held
<1> QED
    BY <1>3, <1>4 DEF Typed

LEMMA TickTyped ==
    ASSUME Typed, Tick
    PROVE  Typed'
<1>1. due' \in [WorkerJobs -> Nat]
    BY DEF Tick, Settled, Typed, TypeOK
<1>2. lasts' \in [Runs -> Nat] /\ \A x \in Runs : lasts'[x] <= MaxRun[task[x]]
    BY PipelineAssumption DEF Tick, Typed, TypeOK
<1>3. findings' \subseteq Finding
    BY GrownType DEF Tick, Typed, TypeOK
<1>4. ASSUME NEW r \in Runs, task[r] \notin {"forensic", "integrity"}
      PROVE  {Grown(x) : x \in hand[r]} \subseteq Finding
    <2>1. hand[r] \subseteq Finding
        BY <1>4 DEF Typed, TypeOK, Held, WorkerJobs, Detectors
    <2> QED
        BY <2>1, GrownType
<1>5. hand' \in [Runs -> SUBSET (Finding \cup Report \cup Sighting)]
    BY <1>4 DEF Tick, Typed, TypeOK
<1>6. ASSUME NEW r \in Runs
      PROVE  /\ {[m EXCEPT !.finding = Grown(@)] : m \in moved[r]} \subseteq Sighting
             /\ \A m \in moved[r] : [m EXCEPT !.finding = Grown(@)].was # "absent"
    <2>1. moved[r] \subseteq Sighting /\ \A m \in moved[r] : m.was # "absent"
        BY DEF Typed, TypeOK, Held
    <2>2. ASSUME NEW m \in moved[r]
          PROVE  /\ [m EXCEPT !.finding = Grown(@)] \in Sighting
                 /\ [m EXCEPT !.finding = Grown(@)].was = m.was
        BY <2>1, GrownType DEF Sighting
    <2> QED
        BY <2>1, <2>2
<1>7. moved' \in [Runs -> SUBSET Sighting] /\ \A r \in Runs : \A m \in moved'[r] : m.was # "absent"
    BY <1>6 DEF Tick
<1>8. unheard' \in [Files -> Nat] /\ \A f \in Files : unheard'[f] > 0 => disk[f] = "malicious"
    BY DEF Tick, Typed, TypeOK
<1>9. TypeOK'
    BY <1>1, <1>2, <1>3, <1>5, <1>7, <1>8 DEF Tick, Typed, TypeOK
<1>10. \A r \in Runs : Held(r)'
    BY <1>4, <1>7 DEF Tick, Typed, TypeOK, Held
<1> QED
    BY <1>9, <1>10 DEF Typed

LEMMA WorldTyped ==
    ASSUME Typed, Edit \/ Restore
    PROVE  Typed'
<1>1. edits' \in Nat /\ edits' + asks + faults <= MaxUpsets
    BY PipelineAssumption DEF Edit, Restore, MoreUpsets, Typed, TypeOK
<1>2. CASE Edit
    BY <1>1, <1>2 DEF Edit, process, Typed, TypeOK, Held
<1>3. CASE Restore
    <2> DEFINE Back(f, c) ==
            /\ disk[f] = "absent"
            /\ disk' = [disk EXCEPT ![f] = c.was]
            /\ held' = [held EXCEPT ![f] = @ \ {c}]
            /\ base' = [g \in Named |-> IF g = f THEN c.saw ELSE base[g]]
    <2>0. PICK f \in Files : \E c \in held[f] : Back(f, c)
        BY <1>3 DEF Restore
    <2>1. PICK c \in held[f] : Back(f, c)
        BY <2>0
    <2>2. c.was \in Contents /\ c.saw \in Contents
        BY DEF Typed, TypeOK, Quarantined
    <2>3. \A g \in Files : unheard[g] > 0 => disk'[g] = "malicious"
        BY <2>1 DEF Typed, TypeOK
    <2>4. /\ disk' \in [Files -> Contents] /\ base' \in [Named -> Contents]
          /\ held' \in [Files -> SUBSET Quarantined]
        BY <2>1, <2>2 DEF Typed, TypeOK
    <2> QED
        BY <1>1, <1>3, <2>3, <2>4 DEF Restore, process, Typed, TypeOK, Held
<1> QED
    BY <1>2, <1>3

LEMMA StartsTyped ==
    ASSUME Typed, (\E j \in WorkerJobs : Start(j)) \/ (\E j \in Detectors : RunNow(j))
    PROVE  Typed'
<1>1. ASSUME NEW j \in WorkerJobs, Start(j)
      PROVE  Typed'
    <2>1. due' \in [WorkerJobs -> Nat] /\ asks' = asks
        BY <1>1, PipelineAssumption DEF Start, Typed, TypeOK
    <2>2. asks \in Nat /\ edits + asks + faults <= MaxUpsets /\ j \in Runs
        BY DEF Typed, TypeOK, Runs
    <2> QED
        BY <1>1, <2>1, <2>2, BeginTyped DEF Start
<1>2. ASSUME NEW j \in Detectors, RunNow(j)
      PROVE  Typed'
    <2>1. due' \in [WorkerJobs -> Nat] /\ asks' \in Nat /\ edits + asks' + faults <= MaxUpsets
        <3>1. due' = due /\ asks' = asks + 1 /\ edits + asks + faults < MaxUpsets
            BY <1>2 DEF RunNow, MoreUpsets
        <3>2. edits \in Nat /\ asks \in Nat /\ faults \in Nat /\ MaxUpsets \in Nat
            BY PipelineAssumption DEF Typed, TypeOK
        <3> QED
            BY <3>1, <3>2 DEF Typed, TypeOK
    <2>2. j \in WorkerJobs /\ "on demand" \in Runs /\ "on demand" \notin WorkerJobs
        BY DEF WorkerJobs, Runs, Detectors
    <2> QED
        BY <1>2, <2>1, <2>2, BeginTyped DEF RunNow
<1> QED
    BY <1>1, <1>2

LEMMA TypedNext ==
    ASSUME Typed, [Next]_vars
    PROVE  Typed'
<1>1. CASE UNCHANGED vars
    BY <1>1 DEF vars, process, Typed, TypeOK, Held
<1> QED
    BY <1>1, StartsTyped, LookTyped, CommitsTyped, MoveTyped, RestartTyped, TickTyped, WorldTyped
       DEF Next, Step

(* Whatever runs overlap, fail or are cut off, a run that quarantines holds    *)
(* findings and what it moved, and a file has a match unheard of only while    *)
(* the match is there.                                                         *)
THEOREM PipelineTypeCorrect == Spec => []TypeOK
<1>1. Init => Typed
    BY TypedInit
<1>2. Typed /\ [Next]_vars => Typed'
    BY TypedNext
<1>3. Typed => TypeOK
    BY DEF Typed
<1> QED
    BY <1>1, <1>2, <1>3, PTL DEF Spec

--------------------------------------------------------------------------------
(* Every match is reported in time.                                            *)

(* What each run that failed, or each restart, adds to the wait.               *)
Gap == Every["forensic"] + MaxRun["forensic"]
Debt == Gap * faults

Elapsed == Every["forensic"] - due["forensic"]

(* Between two forensic scans a match waits for what has gone by of the        *)
(* interval; during one, for an interval more, until the scan has seen it.     *)
Waits(f) ==
    /\ unheard[f] > 0 => PlaceOf[f] # "core"
    /\ CASE pc["forensic"] = "idle" -> unheard[f] <= Debt + Elapsed
         [] pc["forensic"] = "begun" -> unheard[f] <= Debt + Every["forensic"] + Elapsed
         [] OTHER -> /\ unheard[f] <= Debt + Every["forensic"] + Elapsed
                     /\ f \in Events(hand["forensic"]) \/ unheard[f] <= Elapsed

AlarmInv ==
    /\ Typed
    /\ due["forensic"] <= Every["forensic"]
    /\ pc["forensic"] # "idle" => lasts["forensic"] = Elapsed
    /\ \A f \in Files : Waits(f)

LEMMA GapType ==
    /\ Gap \in Nat
    /\ Every["forensic"] \in Nat /\ MaxRun["forensic"] \in Nat
    /\ \A k \in Nat : Gap * k \in Nat /\ Gap * (k + 1) = Gap * k + Gap /\ Gap * (1 + k) = Gap * k + Gap
<1>1. Every["forensic"] \in Nat /\ MaxRun["forensic"] \in Nat
    BY PipelineAssumption DEF WorkerJobs, Detectors
<1>2. Gap \in Nat
    BY <1>1 DEF Gap
<1>3. \A g, k \in Nat : g * k \in Nat /\ g * (k + 1) = g * k + g /\ g * (1 + k) = g * k + g
    OBVIOUS
<1> QED
    BY <1>1, <1>2, <1>3

(* The numbers of a state.                                                     *)
LEMMA AlarmTypes ==
    ASSUME AlarmInv
    PROVE  /\ Debt \in Nat /\ Elapsed \in Nat /\ due["forensic"] \in Nat
           /\ \A f \in Files : unheard[f] \in Nat
           /\ "forensic" \in WorkerJobs /\ "forensic" \in Runs
           /\ task["forensic"] = "forensic"
           /\ lasts["forensic"] \in Nat /\ lasts["forensic"] <= MaxRun["forensic"]
           /\ pc["forensic"] \in {"idle", "begun", "looked"}
           /\ faults \in Nat
<1>1. "forensic" \in WorkerJobs /\ "forensic" \in Runs
    BY DEF WorkerJobs, Detectors, Runs
<1>2. faults \in Nat /\ due["forensic"] \in Nat /\ \A f \in Files : unheard[f] \in Nat
    BY <1>1 DEF AlarmInv, Typed, TypeOK
<1>3. Debt \in Nat /\ Elapsed \in Nat
    BY <1>2, GapType DEF Debt, Elapsed, AlarmInv
<1>4. task["forensic"] = "forensic" /\ pc["forensic"] \in {"idle", "begun", "looked"}
    BY <1>1 DEF AlarmInv, Typed, TypeOK, Held
<1>5. lasts["forensic"] \in Nat /\ lasts["forensic"] <= MaxRun["forensic"]
    BY <1>1, <1>4 DEF AlarmInv, Typed, TypeOK
<1> QED
    BY <1>1, <1>2, <1>3, <1>4, <1>5

LEMMA AlarmImplied ==
    ASSUME AlarmInv
    PROVE  AlarmedInTime
<1>1. AlarmBound = Debt + Every["forensic"] + MaxRun["forensic"]
    <2>1. AlarmBound = Gap * (1 + faults)
        BY DEF AlarmBound, Gap
    <2>2. AlarmBound = Debt + Gap
        BY <2>1, AlarmTypes, GapType DEF Debt
    <2> QED
        <3>1. Gap = Every["forensic"] + MaxRun["forensic"]
            BY DEF Gap
        <3>2. Debt \in Nat /\ Every["forensic"] \in Nat /\ MaxRun["forensic"] \in Nat
            BY AlarmTypes, GapType
        <3> QED
            BY <2>2, <3>1, <3>2
<1>2. Elapsed <= Every["forensic"]
    BY AlarmTypes, GapType DEF Elapsed
<1>3. pc["forensic"] # "idle" => Elapsed <= MaxRun["forensic"]
    BY AlarmTypes DEF AlarmInv
<1>4. ASSUME NEW f \in Files
      PROVE  unheard[f] <= AlarmBound
    <2>1. CASE pc["forensic"] = "idle"
        BY <1>1, <1>2, <2>1, AlarmTypes, GapType DEF AlarmInv, Waits
    <2>2. CASE pc["forensic"] # "idle"
        <3>1. unheard[f] <= Debt + Every["forensic"] + Elapsed
            BY <2>2, AlarmTypes DEF AlarmInv, Waits
        <3> QED
            BY <1>1, <1>3, <2>2, <3>1, AlarmTypes, GapType
    <2> QED
        BY <2>1, <2>2
<1> QED
    BY <1>4 DEF AlarmedInTime

(* A step that leaves the worker's forensic run alone, and after which no      *)
(* match has waited longer.                                                    *)
LEMMA Quiet ==
    ASSUME AlarmInv, Typed', UNCHANGED <<pc["forensic"], lasts["forensic"], hand["forensic"]>>,
           due'["forensic"] = due["forensic"], faults' = faults,
           \A f \in Files : unheard'[f] \in {0, unheard[f]}
    PROVE  AlarmInv'
<1>1. Debt' = Debt /\ Elapsed' = Elapsed
    BY DEF Debt, Elapsed
<1>2. ASSUME NEW f \in Files
      PROVE  Waits(f)'
    <2>1. Waits(f) /\ unheard'[f] \in {0, unheard[f]}
        BY DEF AlarmInv
    <2>2. Events(hand'["forensic"]) = Events(hand["forensic"])
        OBVIOUS
    <2> QED
        BY <1>1, <2>1, <2>2, AlarmTypes, GapType DEF Waits
<1> QED
    BY <1>1, <1>2 DEF AlarmInv

(* A run fails, or the worker restarts.                                        *)
LEMMA Upset ==
    ASSUME AlarmInv, Typed', faults' = faults + 1, unheard' = unheard,
           \/ due' = due /\ pc'["forensic"] = "idle"
           \/ due'["forensic"] = Every["forensic"] /\ pc'["forensic"] = "idle"
           \/ /\ due' = due
              /\ UNCHANGED <<pc["forensic"], lasts["forensic"], hand["forensic"]>>
    PROVE  AlarmInv'
<1>1. Debt' = Debt + Gap
    BY AlarmTypes, GapType DEF Debt
<1>2. /\ Gap = Every["forensic"] + MaxRun["forensic"]
      /\ Elapsed <= Every["forensic"]
      /\ pc["forensic"] # "idle" => Elapsed <= MaxRun["forensic"]
    <2>1. Gap = Every["forensic"] + MaxRun["forensic"]
        BY DEF Gap
    <2>2. Elapsed <= Every["forensic"]
        BY AlarmTypes, GapType DEF Elapsed
    <2>3. pc["forensic"] # "idle" => Elapsed <= MaxRun["forensic"]
        BY AlarmTypes DEF AlarmInv
    <2> QED
        BY <2>1, <2>2, <2>3
<1>3. \A f \in Files : unheard[f] <= Debt + Gap
    <2> TAKE f \in Files
    <2>1. CASE pc["forensic"] = "idle"
        BY <1>2, <2>1, AlarmTypes, GapType DEF AlarmInv, Waits
    <2>2. CASE pc["forensic"] # "idle"
        <3>1. unheard[f] <= Debt + Every["forensic"] + Elapsed
            BY <2>2, AlarmTypes DEF AlarmInv, Waits
        <3>2. Every["forensic"] \in Nat /\ MaxRun["forensic"] \in Nat
            BY GapType
        <3> QED
            BY <1>2, <2>2, <3>1, <3>2, AlarmTypes
    <2> QED
        BY <2>1, <2>2
<1>4. CASE due' = due /\ pc'["forensic"] = "idle"
    <2>1. Elapsed' = Elapsed
        BY <1>4 DEF Elapsed
    <2> QED
        BY <1>1, <1>3, <1>4, <2>1, AlarmTypes, GapType DEF AlarmInv, Waits
<1>5. CASE due'["forensic"] = Every["forensic"] /\ pc'["forensic"] = "idle"
    <2>1. Elapsed' = 0
        BY <1>5, GapType DEF Elapsed
    <2> QED
        BY <1>1, <1>3, <1>5, <2>1, AlarmTypes, GapType DEF AlarmInv, Waits
<1>6. CASE due' = due /\ UNCHANGED <<pc["forensic"], lasts["forensic"], hand["forensic"]>>
    <2>1. Elapsed' = Elapsed
        BY <1>6 DEF Elapsed
    <2>2. ASSUME NEW f \in Files
          PROVE  Waits(f)'
        <3>1. Waits(f) /\ Events(hand'["forensic"]) = Events(hand["forensic"])
            BY <1>6 DEF AlarmInv
        <3> QED
            BY <1>1, <1>6, <2>1, <3>1, AlarmTypes, GapType DEF Waits
    <2> QED
        BY <1>6, <2>1, <2>2 DEF AlarmInv
<1> QED
    BY <1>4, <1>5, <1>6

(* The worker's forensic scan starts, looks and commits.                       *)
LEMMA ForensicSteps ==
    ASSUME AlarmInv, Typed',
           Start("forensic") \/ Look("forensic") \/ CommitForensic("forensic")
    PROVE  AlarmInv'
<1> DEFINE ff == "forensic"
<1>0. \A f \in Files : unheard[f] > 0 => PlaceOf[f] # "core"
    BY DEF AlarmInv, Waits
<1>1. CASE Start(ff)
    <2>1. /\ pc[ff] = "idle" /\ pc'[ff] = "begun" /\ lasts'[ff] = 0
          /\ due[ff] = 0 /\ due'[ff] = Every[ff] /\ faults' = faults /\ unheard' = unheard
        BY <1>1, AlarmTypes DEF Start, Begin, AlarmInv, Typed, TypeOK
    <2>2. Elapsed = Every[ff] /\ Elapsed' = 0 /\ Debt' = Debt
        BY <2>1, GapType DEF Elapsed, Debt
    <2>3. \A f \in Files : unheard[f] <= Debt + Every[ff]
        BY <2>1, <2>2 DEF AlarmInv, Waits
    <2>4. \A f \in Files : Waits(f)'
        BY <1>0, <2>1, <2>2, <2>3, AlarmTypes, GapType DEF Waits
    <2> QED
        BY <2>1, <2>2, <2>4, GapType DEF AlarmInv
<1>2. CASE Look(ff)
    <2>1. /\ pc[ff] = "begun" /\ pc'[ff] = "looked" /\ hand'[ff] = Reports
          /\ due' = due /\ faults' = faults /\ unheard' = unheard /\ lasts' = lasts
        BY <1>2, AlarmTypes DEF Look, AlarmInv, Typed, TypeOK
    <2>2. Elapsed' = Elapsed /\ Debt' = Debt
        BY <2>1 DEF Elapsed, Debt
    <2>3. ASSUME NEW f \in Files
          PROVE  Waits(f)'
        <3>1. unheard[f] <= Debt + Every[ff] + Elapsed
            BY <2>1 DEF AlarmInv, Waits
        <3>2. unheard[f] > 0 => f \in Events(Reports)
            <4>1. unheard[f] > 0 => disk[f] = "malicious"
                BY DEF AlarmInv, Typed, TypeOK
            <4>2. unheard[f] > 0 => PlaceOf[f] # "core"
                BY DEF AlarmInv, Waits
            <4> QED
                BY <4>1, <4>2, ReportsType DEF AlarmInv
        <3>3. Events(hand'[ff]) = Events(Reports)
            BY <2>1
        <3> QED
            BY <1>0, <2>1, <2>2, <3>1, <3>2, <3>3, AlarmTypes DEF Waits
    <2> QED
        BY <2>1, <2>2, <2>3 DEF AlarmInv
<1>3. CASE CommitForensic(ff)
    <2>1. /\ pc[ff] = "looked" /\ pc'[ff] = "idle"
          /\ due' = due /\ faults' = faults
          /\ \A f \in Files : unheard'[f] = IF f \in Events(hand[ff]) THEN 0 ELSE unheard[f]
        BY <1>3, AlarmTypes DEF CommitForensic, Rest, AlarmInv, Typed, TypeOK
    <2>2. Elapsed' = Elapsed /\ Debt' = Debt
        BY <2>1 DEF Elapsed, Debt
    <2>3. ASSUME NEW f \in Files
          PROVE  Waits(f)'
        <3>1. f \in Events(hand[ff]) \/ unheard[f] <= Elapsed
            BY <2>1 DEF AlarmInv, Waits
        <3>2. unheard'[f] <= Elapsed
            BY <2>1, <3>1, AlarmTypes
        <3>3. unheard'[f] \in Nat
            BY <2>1, AlarmTypes
        <3> QED
            BY <1>0, <2>1, <2>2, <3>2, <3>3, AlarmTypes DEF Waits
    <2> QED
        BY <2>1, <2>2, <2>3 DEF AlarmInv
<1> QED
    BY <1>1, <1>2, <1>3

LEMMA TickAlarm ==
    ASSUME AlarmInv, Typed', Tick
    PROVE  AlarmInv'
<1> DEFINE ff == "forensic"
<1>1. /\ due[ff] > 0 /\ due'[ff] = due[ff] - 1 /\ pc' = pc /\ faults' = faults
      /\ lasts'[ff] = IF pc[ff] # "idle" THEN lasts[ff] + 1 ELSE 0
      /\ hand'[ff] = hand[ff]
    BY AlarmTypes DEF Tick, Settled, Working
<1>2. Elapsed' = Elapsed + 1 /\ Debt' = Debt
    BY <1>1, AlarmTypes, GapType DEF Elapsed, Debt
<1>3. \A f \in Files : unheard'[f] \in {unheard[f], unheard[f] + 1}
    BY DEF Tick
<1>4. ASSUME NEW f \in Files
      PROVE  Waits(f)'
    <2>1. Events(hand'[ff]) = Events(hand[ff])
        BY <1>1
    <2>2. Every[ff] \in Nat
        BY GapType
    <2>3. unheard'[f] > 0 => PlaceOf[f] # "core"
        BY AlarmTypes DEF Tick, AlarmInv, Waits
    <2> QED
        BY <1>1, <1>2, <1>3, <2>1, <2>2, <2>3, AlarmTypes DEF AlarmInv, Waits
<1> QED
    BY <1>1, <1>2, <1>4, AlarmTypes, GapType DEF AlarmInv

LEMMA AlarmNext ==
    ASSUME AlarmInv, [Next]_vars
    PROVE  AlarmInv'
<1> DEFINE ff == "forensic"
<1>1. Typed'
    BY TypedNext DEF AlarmInv
<1>2. CASE UNCHANGED vars
    BY <1>1, <1>2, Quiet DEF vars, process
<1> DEFINE Alone == /\ UNCHANGED <<pc[ff], lasts[ff], hand[ff]>>
                    /\ faults' = faults /\ unheard' = unheard
<1>20. ASSUME NEW r, NEW j, Begin(r, j), r # ff
       PROVE  Alone
    <2>1. /\ pc' = [pc EXCEPT ![r] = "begun"] /\ lasts' = [lasts EXCEPT ![r] = 0]
          /\ faults' = faults /\ unheard' = unheard
        BY <1>20 DEF Begin
    <2>2. \E rows : hand' = [hand EXCEPT ![r] = rows]
        BY <1>20 DEF Begin, Load
    <2> QED
        BY <1>20, <2>1, <2>2, AlarmTypes DEF AlarmInv, Typed, TypeOK
<1>3. ASSUME NEW j \in WorkerJobs, Start(j), j # ff
      PROVE  AlarmInv'
    <2>1. Alone
        BY <1>3, <1>20 DEF Start
    <2>2. due'[ff] = due[ff]
        BY <1>3, AlarmTypes DEF Start, AlarmInv, Typed, TypeOK
    <2> QED
        BY <1>1, <2>1, <2>2, Quiet
<1>4. ASSUME NEW j \in Detectors, RunNow(j)
      PROVE  AlarmInv'
    <2>1. ff # "on demand"
        OBVIOUS
    <2>2. Alone
        BY <1>4, <2>1, <1>20 DEF RunNow
    <2> QED
        BY <1>1, <1>4, <2>2, Quiet DEF RunNow
<1>5. ASSUME NEW r \in Runs, Look(r), r # ff
      PROVE  AlarmInv'
    BY <1>1, <1>5, AlarmTypes, Quiet DEF Look
<1>6. ASSUME NEW r \in Runs, Move(r)
      PROVE  AlarmInv'
    <2>1. r # ff
        BY <1>6, AlarmTypes DEF Move
    <2>2. PICK x \in hand[r] :
            /\ hand' = [hand EXCEPT ![r] = @ \ {x}]
            /\ \/ unheard' = [unheard EXCEPT ![x.file] = 0]
               \/ unheard' = unheard
            /\ pc' = [pc EXCEPT ![r] = IF x.saw = "absent" THEN @ ELSE "moving"]
        BY <1>6 DEF Move
    <2>3. UNCHANGED <<pc[ff], lasts[ff], hand[ff]>> /\ due' = due /\ faults' = faults
        BY <1>6, <2>1, <2>2, AlarmTypes DEF Move, AlarmInv, Typed, TypeOK
    <2>4. \A f \in Files : unheard'[f] \in {0, unheard[f]}
        BY <2>2 DEF AlarmInv, Typed, TypeOK
    <2> QED
        BY <1>1, <2>3, <2>4, Quiet
<1>7. ASSUME NEW r \in Runs, r # ff, Rest(r), due' = due, faults' = faults,
             \A f \in Files : unheard'[f] \in {0, unheard[f]}
      PROVE  AlarmInv'
    BY <1>1, <1>7, AlarmTypes, Quiet DEF Rest
<1>8. ASSUME NEW r \in Runs, CommitIntegrity(r) \/ CommitAudit(r) \/ CommitQuarantine(r)
      PROVE  AlarmInv'
    <2>1. r # ff
        BY <1>8, AlarmTypes DEF CommitIntegrity, CommitAudit, CommitQuarantine
    <2> QED
        BY <1>7, <1>8, <2>1 DEF CommitIntegrity, CommitAudit, CommitQuarantine
<1>9. ASSUME NEW r \in Runs, CommitForensic(r), r # ff
      PROVE  AlarmInv'
    BY <1>7, <1>9 DEF CommitForensic
<1>10. ASSUME NEW r \in Runs, Fail(r)
       PROVE  AlarmInv'
    <2>1. CASE r = ff
        BY <1>1, <1>10, <2>1, Upset DEF Fail, Rest, AlarmInv, Typed, TypeOK
    <2>2. CASE r # ff
        BY <1>1, <1>10, <2>2, AlarmTypes, Upset DEF Fail, Rest
    <2> QED
        BY <2>1, <2>2
<1>11. CASE Restart
    BY <1>1, <1>11, AlarmTypes, Upset DEF Restart
<1>12. CASE Edit
    BY <1>1, <1>12, Quiet DEF Edit, process, AlarmInv, Typed, TypeOK
<1>13. CASE Restore
    BY <1>1, <1>13, Quiet DEF Restore, process
<1> QED
    BY <1>1, <1>2, <1>3, <1>4, <1>5, <1>6, <1>8, <1>9, <1>10, <1>11, <1>12, <1>13,
       ForensicSteps, TickAlarm DEF Next, Step

LEMMA AlarmInit ==
    ASSUME Init
    PROVE  AlarmInv
<1>1. Typed
    BY TypedInit
<1>2. /\ due["forensic"] = Every["forensic"] /\ pc["forensic"] = "idle" /\ faults = 0
      /\ \A f \in Files : unheard[f] = 0
    BY DEF Init, Runs, WorkerJobs, Detectors
<1>3. Elapsed = 0 /\ Debt \in Nat
    BY <1>2, GapType DEF Elapsed, Debt
<1> QED
    BY <1>1, <1>2, <1>3, GapType DEF AlarmInv, Waits

(* A file that rules match is reported within the interval of the forensic     *)
(* scan and the time one takes, and as much again for each run that failed or  *)
(* restart, whatever the intervals of the other jobs and however they overlap. *)
THEOREM AlarmsInTime == Spec => []AlarmedInTime
<1>1. AlarmInv /\ [Next]_vars => AlarmInv'
    BY AlarmNext
<1>2. AlarmInv => AlarmedInTime
    BY AlarmImplied
<1>3. Init => AlarmInv
    BY AlarmInit
<1> QED
    BY <1>1, <1>2, <1>3, PTL DEF Spec

--------------------------------------------------------------------------------
(* On its own schedule the audit escalates only what the quarantine job does   *)
(* not look back to any more.                                                  *)

(* The opposite of EscalationMakesEligible.                                    *)
EscalatedTooLate ==
    [][\A r \in Runs : asks = 0 /\ CommitAudit(r) =>
        \A x \in findings' \ findings : x.age > Lookback]_vars

(* What the quarantine job moves was CRITICAL from the start.                  *)
EscalatedNotMoved ==
    asks = 0 => \A r \in Runs : \A m \in moved[r] : m.finding.cause = "forensic"

Multiples(n) == {k * n : k \in Int}

(* The integrity scan and the audit keep step: their intervals are multiples   *)
(* of one period, and the quarantine job does not look back as far as that.    *)
InPhase(n) ==
    /\ n \in Nat
    /\ Lookback < n
    /\ {Every["integrity"], Every["audit"]} \subseteq Multiples(n)

(* A change of a named file is past the lookback when the next audit is due.   *)
Ripe(x, n) ==
    IF x.cause = "forensic" THEN x.severity = Critical
    ELSE \/ x.age > Lookback
         \/ x.severity < Critical /\ x.age + due["audit"] >= n

(* A row that the audit has loaded.                                            *)
Late(x) == IF x.cause = "forensic" THEN x.severity = Critical ELSE x.age > Lookback

(* Nothing runs on demand, and the intervals count from one instant.           *)
Scheduled(n) ==
    /\ pc["on demand"] = "idle"
    /\ due["integrity"] - due["audit"] \in Multiples(n)
    /\ pc["integrity"] # "idle"
            => lasts["integrity"] = Every["integrity"] - due["integrity"]

InVain(n) ==
    /\ \A x \in findings : Ripe(x, n)
    /\ \A s \in hand["integrity"] :
        s.finding.severity < Critical /\ s.finding.cause = "integrity"
    /\ \A x \in hand["audit"] : Late(x)
    /\ \A x \in hand["quarantine"] : x.cause = "forensic"
    /\ \A r \in Runs : \A m \in moved[r] : m.finding.cause = "forensic"

PhaseInv(n) ==
    /\ Typed
    /\ asks = 0 => Scheduled(n) /\ InVain(n)

LEMMA MultiplesType ==
    ASSUME NEW n \in Nat
    PROVE  /\ \A i, j \in Multiples(n) : /\ i \in Int
                                         /\ i + j \in Multiples(n)
                                         /\ i - j \in Multiples(n)
           /\ \A i \in Multiples(n) : i > 0 => i >= n
<1>1. ASSUME NEW i \in Multiples(n), NEW j \in Multiples(n)
      PROVE  /\ i \in Int
             /\ i + j \in Multiples(n)
             /\ i - j \in Multiples(n)
    <2>1. PICK k \in Int : i = k * n
        BY DEF Multiples
    <2>2. PICK l \in Int : j = l * n
        BY DEF Multiples
    <2>3. \A a, b, c \in Int : a * c + b * c = (a + b) * c /\ a * c - b * c = (a - b) * c
        OBVIOUS
    <2>4. i + j = (k + l) * n /\ i - j = (k - l) * n /\ i \in Int
        BY <2>1, <2>2, <2>3
    <2>5. k + l \in Int /\ k - l \in Int
        OBVIOUS
    <2>6. \A m \in Int : m * n \in Multiples(n)
        BY DEF Multiples
    <2>7. (k + l) * n \in Multiples(n) /\ (k - l) * n \in Multiples(n)
        BY ONLY <2>5, <2>6
    <2> QED
        BY ONLY <2>4, <2>7
<1>2. ASSUME NEW i \in Multiples(n), i > 0 PROVE i >= n
    <2>1. PICK k \in Int : i = k * n
        BY DEF Multiples
    <2>2. \A a \in Int, b \in Nat : a <= 0 => a * b <= 0
        OBVIOUS
    <2>3. k >= 1
        BY <1>2, <2>1, <2>2
    <2>4. \A a \in Int, b \in Nat : a >= 1 => a * b >= b
        OBVIOUS
    <2> QED
        BY <2>1, <2>3, <2>4
<1> QED
    BY <1>1, <1>2

(* The numbers of a state.                                                     *)
LEMMA PhaseTypes ==
    ASSUME NEW n, InPhase(n), Typed
    PROVE  /\ {"integrity", "audit", "quarantine", "forensic"} \subseteq WorkerJobs
           /\ WorkerJobs \subseteq Runs /\ "on demand" \in Runs \ WorkerJobs
           /\ n \in Nat /\ Lookback \in Nat /\ Lookback < n
           /\ Every["integrity"] \in Multiples(n) /\ Every["audit"] \in Multiples(n)
           /\ Every["integrity"] \in Nat
           /\ Every["audit"] \in Nat /\ Every["audit"] >= n
           /\ due["integrity"] \in Nat /\ due["audit"] \in Nat
           /\ \A j \in WorkerJobs : task[j] = j /\ lasts[j] \in Nat
           /\ \A x \in findings : x \in Finding /\ x.age \in Nat
           /\ asks \in Nat
<1>1. /\ {"integrity", "audit", "quarantine", "forensic"} \subseteq WorkerJobs
      /\ WorkerJobs \subseteq Runs /\ "on demand" \in Runs \ WorkerJobs
    BY DEF WorkerJobs, Detectors, Runs
<1>2. n \in Nat /\ Lookback < n /\ Lookback \in Nat
    BY PipelineAssumption DEF InPhase
<1>3. Every["integrity"] \in Multiples(n) /\ Every["audit"] \in Multiples(n)
    BY DEF InPhase
<1>4. Every["integrity"] \in Nat /\ Every["audit"] \in Nat \ {0}
    BY <1>1, PipelineAssumption
<1>5. Every["audit"] >= n
    BY <1>2, <1>3, <1>4, MultiplesType
<1>6. due["integrity"] \in Nat /\ due["audit"] \in Nat /\ asks \in Nat
    BY <1>1 DEF Typed, TypeOK
<1>7. \A j \in WorkerJobs : task[j] = j /\ lasts[j] \in Nat
    BY <1>1 DEF Typed, TypeOK, Held
<1>8. \A x \in findings : x \in Finding /\ x.age \in Nat
    BY DEF Typed, TypeOK, Finding, Ages
<1> QED
    BY <1>1, <1>2, <1>3, <1>4, <1>5, <1>6, <1>7, <1>8

LEMMA GrownKeeps ==
    ASSUME NEW x \in Finding
    PROVE  /\ Grown(x).cause = x.cause /\ Grown(x).severity = x.severity
           /\ Grown(x).age \in Nat /\ x.age \in Nat
           /\ x.age > Lookback => Grown(x).age > Lookback
           /\ Grown(x).age = x.age + 1 \/ Grown(x).age > Lookback
<1>1. x.age \in Nat /\ Lookback \in Nat /\ AuditLookback \in Nat
    BY PipelineAssumption DEF Finding, Ages
<1>2. Horizon(x.file) > Lookback /\ Horizon(x.file) \in Nat
    BY <1>1 DEF Horizon
<1>3. CASE x.age < Horizon(x.file)
    <2>1. Grown(x) = [x EXCEPT !.age = x.age + 1]
        BY <1>3 DEF Grown
    <2>2. /\ Grown(x).age = x.age + 1
          /\ Grown(x).cause = x.cause /\ Grown(x).severity = x.severity
        BY <2>1 DEF Finding
    <2> QED
        BY <1>1, <2>2
<1>4. CASE ~(x.age < Horizon(x.file))
    <2>1. Grown(x) = x
        BY <1>4 DEF Grown
    <2> QED
        BY <1>1, <1>2, <1>4, <2>1
<1> QED
    BY <1>3, <1>4

(* What the quarantine job loads is CRITICAL and inside its lookback.          *)
LEMMA UnremediatedRows ==
    ASSUME Typed, NEW rows \in Unremediated, NEW x \in rows
    PROVE  x \in findings /\ x.severity = Critical /\ x.age <= Lookback
<1> DEFINE critical == {y \in findings : y.severity = Critical}
<1>1. PICK w \in Windows(critical, Lookback) : rows \in Oldest(w, Limit)
    BY DEF Unremediated
<1>2. x \in w
    BY <1>1, PagesInside
<1>3. x \in critical /\ (Within(x, Lookback) \/ x.age = Lookback)
    BY <1>2 DEF Windows
<1>4. x.age \in Nat /\ Lookback \in Nat
    BY <1>3, PipelineAssumption DEF Typed, TypeOK, Finding, Ages
<1> QED
    BY <1>3, <1>4 DEF Within

LEMMA PhaseInit ==
    ASSUME NEW n, InPhase(n), Init PROVE PhaseInv(n)
<1>1. Typed
    BY TypedInit
<1>2. /\ \A r \in Runs : pc[r] = "idle" /\ hand[r] = {} /\ moved[r] = {}
      /\ findings = {} /\ due = Every
    BY DEF Init
<1>3. due["integrity"] - due["audit"] \in Multiples(n)
    BY <1>1, <1>2, PhaseTypes, MultiplesType
<1>4. Scheduled(n)
    BY <1>1, <1>2, <1>3, PhaseTypes DEF Scheduled
<1>5. InVain(n)
    BY <1>1, <1>2, PhaseTypes DEF InVain
<1> QED
    BY <1>1, <1>4, <1>5 DEF PhaseInv

(* A job of the worker starts.                                                 *)
LEMMA StartPhase ==
    ASSUME NEW n, InPhase(n), Typed, Scheduled(n), InVain(n),
           NEW j \in WorkerJobs, Start(j)
    PROVE  Scheduled(n)' /\ InVain(n)'
<1>0. /\ {"integrity", "audit", "quarantine", "forensic"} \subseteq WorkerJobs
      /\ WorkerJobs \subseteq Runs
      /\ n \in Nat /\ Lookback \in Nat /\ Lookback < n
      /\ Every["integrity"] \in Nat /\ Every["audit"] \in Nat /\ Every["audit"] >= n
      /\ due["integrity"] \in Nat /\ due["audit"] \in Nat
      /\ \A x \in findings : x.age \in Nat
    BY PhaseTypes
<1>1. /\ due[j] = 0 /\ due' = [due EXCEPT ![j] = Every[j]]
      /\ pc' = [pc EXCEPT ![j] = "begun"]
      /\ lasts' = [lasts EXCEPT ![j] = 0]
      /\ UNCHANGED <<findings, moved>>
      /\ j \in Runs
    BY DEF Start, Begin, Runs
<1>2. PICK rows : /\ hand' = [hand EXCEPT ![j] = rows]
                  /\ j = "audit" => rows \subseteq findings
                  /\ j = "integrity" => rows = {}
                  /\ j = "quarantine" =>
                        \A x \in rows : /\ x \in findings /\ x.severity = Critical
                                        /\ x.age <= Lookback
    <2>1. CASE j = "audit"
        <3>1. PICK rows \in Since : Load(j, rows, {})
            BY <2>1 DEF Start, Begin
        <3> QED
            BY <2>1, <3>1, QueriesInside DEF Load
    <2>2. CASE j = "quarantine" /\ Active
        <3>1. PICK rows \in Unremediated : \E picked \in Picks(rows) :
                Load(j, picked, {a \in Accounts : Of(a, rows) # Of(a, picked)})
            BY <2>2 DEF Start, Begin
        <3>2. PICK picked \in Picks(rows) :
                Load(j, picked, {a \in Accounts : Of(a, rows) # Of(a, picked)})
            BY <3>1
        <3>3. picked \subseteq rows
            BY DEF Picks
        <3>4. \A x \in picked : /\ x \in findings /\ x.severity = Critical
                                /\ x.age <= Lookback
            BY <3>3, UnremediatedRows
        <3> QED
            BY <2>2, <3>2, <3>4 DEF Load
    <2>3. CASE ~(j = "audit" \/ (j = "quarantine" /\ Active))
        <3> DEFINE none == {}
        <3>1. hand' = [hand EXCEPT ![j] = none]
            BY <2>3 DEF Start, Begin, Load
        <3>2. none \subseteq findings /\ \A x \in none : FALSE
            OBVIOUS
        <3> HIDE DEF none
        <3> QED
            BY <2>3, <3>1, <3>2
    <2> QED
        BY <2>1, <2>2, <2>3
<1>3. \A r \in Runs :
        IF r = j THEN pc'[r] = "begun" /\ lasts'[r] = 0 /\ hand'[r] = rows
        ELSE pc'[r] = pc[r] /\ lasts'[r] = lasts[r] /\ hand'[r] = hand[r]
    BY <1>1, <1>2 DEF Typed, TypeOK
<1>4. \A i \in WorkerJobs : due'[i] = IF i = j THEN Every[j] ELSE due[i]
    BY <1>1 DEF Typed, TypeOK
<1>5. due'["integrity"] - due'["audit"] \in Multiples(n)
    <2> DEFINE gap == due["integrity"] - due["audit"]
    <2>1. gap \in Multiples(n)
        BY DEF Scheduled
    <2>2. CASE j = "integrity"
        <3>1. due'["integrity"] - due'["audit"] = Every["integrity"] + gap
            BY <1>0, <1>1, <1>4, <2>2
        <3> QED
            BY <2>1, <3>1, PhaseTypes, MultiplesType
    <2>3. CASE j = "audit"
        <3>1. due'["integrity"] - due'["audit"] = gap - Every["audit"]
            BY <1>0, <1>1, <1>4, <2>3
        <3> QED
            BY <2>1, <3>1, PhaseTypes, MultiplesType
    <2>4. CASE j \notin {"integrity", "audit"}
        BY <1>0, <1>4, <2>1, <2>4
    <2> QED
        BY <2>2, <2>3, <2>4
<1>6. Scheduled(n)'
    <2>1. pc'["on demand"] = "idle"
        BY <1>3, PhaseTypes DEF Scheduled
    <2>2. pc'["integrity"] # "idle"
            => lasts'["integrity"] = Every["integrity"] - due'["integrity"]
        <3>1. CASE j = "integrity"
            BY <1>0, <1>3, <1>4, <3>1
        <3>2. CASE j # "integrity"
            <4>1. /\ pc'["integrity"] = pc["integrity"]
                  /\ lasts'["integrity"] = lasts["integrity"]
                  /\ due'["integrity"] = due["integrity"]
                BY <1>0, <1>3, <1>4, <3>2
            <4> QED
                BY <4>1 DEF Scheduled
        <3> QED
            BY <3>1, <3>2
    <2> QED
        BY <1>5, <2>1, <2>2 DEF Scheduled
<1>7. due'["audit"] >= due["audit"] /\ due'["audit"] \in Nat
    BY <1>0, <1>1, <1>4
<1>8. \A x \in findings : Ripe(x, n)'
    <2> TAKE x \in findings
    <2>1. Ripe(x, n) /\ x.age \in Nat
        BY <1>0 DEF InVain
    <2> QED
        BY <1>0, <1>7, <2>1 DEF Ripe
<1>9. \A x \in hand'["audit"] : Late(x)
    <2>1. CASE j = "audit"
        <3> SUFFICES ASSUME NEW x \in rows PROVE Late(x)
            BY <1>0, <1>3, <2>1
        <3>1. x \in findings /\ due["audit"] = 0
            BY <1>1, <1>2, <2>1
        <3>2. IF x.cause = "forensic" THEN x.severity = Critical
              ELSE x.age > Lookback \/ x.age + 0 >= n
            BY <3>1 DEF InVain, Ripe
        <3> QED
            BY <1>0, <3>1, <3>2 DEF Late
    <2>2. CASE j # "audit"
        BY <1>0, <1>3, <2>2 DEF InVain
    <2> QED
        BY <2>1, <2>2
<1>10. \A x \in hand'["quarantine"] : x.cause = "forensic"
    <2>1. CASE j = "quarantine"
        <3> SUFFICES ASSUME NEW x \in rows PROVE x.cause = "forensic"
            BY <1>0, <1>3, <2>1
        <3>1. x \in findings /\ x.severity = Critical /\ x.age <= Lookback
            BY <1>2, <2>1
        <3>2. Ripe(x, n) /\ x.age \in Nat
            BY <1>0, <3>1 DEF InVain
        <3> QED
            BY <1>0, <3>1, <3>2 DEF Ripe, Critical
    <2>2. CASE j # "quarantine"
        BY <1>0, <1>3, <2>2 DEF InVain
    <2> QED
        BY <2>1, <2>2
<1>11. \A s \in hand'["integrity"] :
        s.finding.severity < Critical /\ s.finding.cause = "integrity"
    BY <1>0, <1>2, <1>3 DEF InVain
<1> QED
    BY <1>1, <1>6, <1>8, <1>9, <1>10, <1>11 DEF InVain

(* A run that ends: what it held is gone.                                      *)
LEMMA RestPhase ==
    ASSUME NEW n, InPhase(n), Typed, Scheduled(n), InVain(n),
           NEW r \in Runs, Rest(r), UNCHANGED due,
           \A x \in findings' : Ripe(x, n)
    PROVE  Scheduled(n)' /\ InVain(n)'
<1>1. \A q \in Runs :
        IF q = r THEN pc'[q] = "idle" /\ hand'[q] = {} /\ moved'[q] = {}
        ELSE /\ pc'[q] = pc[q] /\ lasts'[q] = lasts[q]
             /\ hand'[q] = hand[q] /\ moved'[q] = moved[q]
    BY DEF Rest, Typed, TypeOK
<1>2. Scheduled(n)'
    BY <1>1, PhaseTypes DEF Scheduled
<1>3. \A x \in findings' : Ripe(x, n)'
    BY DEF Ripe
<1> QED
    BY <1>1, <1>2, <1>3, PhaseTypes DEF InVain

(* A commit of a run of the worker.                                            *)
LEMMA CommitPhase ==
    ASSUME NEW n, InPhase(n), Typed, Scheduled(n), InVain(n),
           NEW r \in Runs, Settled,
           \/ CommitIntegrity(r) \/ CommitForensic(r)
           \/ CommitAudit(r) \/ CommitQuarantine(r)
    PROVE  Scheduled(n)' /\ InVain(n)'
<1>1. pc[r] # "idle" /\ Rest(r) /\ UNCHANGED due
    BY DEF CommitIntegrity, CommitForensic, CommitAudit, CommitQuarantine
<1>2. r \in WorkerJobs /\ task[r] = r
    <2>1. r # "on demand"
        BY <1>1 DEF Scheduled
    <2> QED
        BY <2>1, PhaseTypes DEF Runs
<1>3. \A x \in findings : Ripe(x, n)
    BY DEF InVain
<1>4. CASE CommitIntegrity(r)
    <2>1. /\ r = "integrity" /\ pc[r] # "idle"
          /\ findings' = findings \cup {[s.finding EXCEPT !.age = lasts[r]] : s \in hand[r]}
        BY <1>1, <1>2, <1>4 DEF CommitIntegrity
    <2>2. lasts[r] \in Nat /\ lasts[r] = Every["integrity"] - due["integrity"]
        BY <1>2, <2>1, PhaseTypes DEF Scheduled
    <2>3. lasts[r] + due["audit"] >= n
        <3> DEFINE gap == due["integrity"] - due["audit"]
        <3>1. /\ due["audit"] > 0 /\ n \in Nat
              /\ due["integrity"] \in Nat /\ due["audit"] \in Nat
              /\ Every["integrity"] \in Nat /\ Every["integrity"] \in Multiples(n)
              /\ gap \in Multiples(n)
            BY PhaseTypes DEF Settled, Scheduled
        <3>2. Every["integrity"] - gap \in Multiples(n)
            BY <3>1, MultiplesType
        <3>3. /\ lasts[r] + due["audit"] = Every["integrity"] - gap
              /\ lasts[r] + due["audit"] > 0
            BY <2>2, <3>1
        <3> QED
            BY <3>1, <3>2, <3>3, MultiplesType
    <2>4. ASSUME NEW s \in hand[r]
          PROVE  Ripe([s.finding EXCEPT !.age = lasts[r]], n)
        <3>1. s.finding \in Finding /\ s.finding.severity < Critical
              /\ s.finding.cause = "integrity"
            BY <1>2, <2>1 DEF Typed, Held, Sighting, InVain
        <3>2. /\ [s.finding EXCEPT !.age = lasts[r]].age = lasts[r]
              /\ [s.finding EXCEPT !.age = lasts[r]].severity < Critical
              /\ [s.finding EXCEPT !.age = lasts[r]].cause = "integrity"
            BY <3>1 DEF Finding
        <3> QED
            BY <2>3, <3>2 DEF Ripe
    <2>5. \A x \in findings' : Ripe(x, n)
        BY <1>3, <2>1, <2>4
    <2> QED
        BY <1>1, <2>5, RestPhase
<1>5. CASE CommitForensic(r)
    <2>1. task[r] = "forensic" /\ findings' = findings \cup Materialised(r, hand[r])
        BY <1>5 DEF CommitForensic
    <2>2. \A x \in Materialised(r, hand[r]) : x.cause = "forensic" /\ x.severity = Critical
        BY <2>1 DEF Materialised, Found
    <2>3. \A x \in findings' : Ripe(x, n)
        BY <1>3, <2>1, <2>2 DEF Ripe
    <2> QED
        BY <1>1, <2>3, RestPhase
<1>6. CASE CommitAudit(r)
    <2> DEFINE low == {x \in hand[r] : x.file \in Named /\ x.severity < Critical}
               raised(x) == [x EXCEPT !.severity = Critical]
    <2>1. r = "audit" /\ findings' = (findings \ low) \cup {raised(x) : x \in low}
        BY <1>2, <1>6 DEF CommitAudit, Escalated
    <2>2. ASSUME NEW x \in low PROVE Ripe(raised(x), n)
        <3>1. x \in Finding /\ Late(x)
            BY <1>2, <2>1 DEF Typed, Held, InVain
        <3>2. /\ raised(x).cause = x.cause /\ raised(x).age = x.age
              /\ raised(x).severity = Critical
            BY <3>1 DEF Finding
        <3> HIDE DEF raised
        <3> QED
            BY <3>1, <3>2 DEF Ripe, Late
    <2> HIDE DEF low, raised
    <2>3. \A x \in findings' : Ripe(x, n)
        BY <1>3, <2>1, <2>2
    <2> QED
        BY <1>1, <2>3, RestPhase
<1>7. CASE CommitQuarantine(r)
    <2>1. findings' \subseteq findings
        BY <1>7 DEF CommitQuarantine
    <2>2. \A x \in findings' : Ripe(x, n)
        BY <1>3, <2>1
    <2> QED
        BY <1>1, <2>2, RestPhase
<1> QED
    BY <1>4, <1>5, <1>6, <1>7

LEMMA LookPhase ==
    ASSUME NEW n, InPhase(n), Typed, Scheduled(n), InVain(n), NEW r \in Runs, Look(r)
    PROVE  Scheduled(n)' /\ InVain(n)'
<1>1. /\ pc[r] = "begun" /\ task[r] \in {"integrity", "forensic"}
      /\ pc' = [pc EXCEPT ![r] = "looked"]
      /\ hand' = [hand EXCEPT ![r] = IF task[r] = "integrity" THEN Changed(r) ELSE Reports]
      /\ UNCHANGED <<findings, due, lasts, moved>>
    BY DEF Look
<1>2. r \in {"integrity", "forensic"} /\ task[r] = r
    <2>1. r # "on demand"
        BY <1>1 DEF Scheduled
    <2> QED
        BY <1>1, <2>1, PhaseTypes DEF Runs
<1>3. Scheduled(n)'
    BY <1>1, <1>2, PhaseTypes DEF Scheduled, Typed, TypeOK
<1>4. \A x \in findings' : Ripe(x, n)'
    BY <1>1 DEF InVain, Ripe
<1>5. \A s \in Changed(r) : s.finding.severity < Critical /\ s.finding.cause = task[r]
    <2> TAKE s \in Changed(r)
    <2>1. PICK f \in Named :
            s = [finding |-> Found(r, f, ChangeSeverity(base[f]), disk[f]),
                 was |-> disk[f]]
        BY DEF Changed
    <2>2. s.finding.severity = ChangeSeverity(base[f]) /\ s.finding.cause = task[r]
        BY <2>1 DEF Found
    <2> QED
        BY <2>2 DEF ChangeSeverity, Critical
<1>6. \A s \in hand'["integrity"] :
        s.finding.severity < Critical /\ s.finding.cause = "integrity"
    BY <1>1, <1>2, <1>5, PhaseTypes DEF InVain, Typed, TypeOK
<1>7. hand'["audit"] = hand["audit"] /\ hand'["quarantine"] = hand["quarantine"]
    BY <1>1, <1>2, PhaseTypes DEF Typed, TypeOK
<1> QED
    BY <1>1, <1>3, <1>4, <1>6, <1>7 DEF InVain

LEMMA MovePhase ==
    ASSUME NEW n, InPhase(n), Typed, Scheduled(n), InVain(n), NEW r \in Runs, Move(r)
    PROVE  Scheduled(n)' /\ InVain(n)'
<1>1. PICK x \in hand[r] :
        /\ hand' = [hand EXCEPT ![r] = @ \ {x}]
        /\ \/ moved' = [moved EXCEPT ![r] = @ \cup {[finding |-> x, was |-> disk[x.file]]}]
           \/ moved' = moved
        /\ pc' = [pc EXCEPT ![r] = IF x.saw = "absent" THEN @ ELSE "moving"]
    BY DEF Move
<1>2. task[r] = "quarantine" /\ pc[r] # "idle" /\ UNCHANGED <<findings, due, lasts>>
    BY DEF Move
<1>3. r = "quarantine"
    <2>1. r # "on demand"
        BY <1>2 DEF Scheduled
    <2> QED
        BY <1>2, <2>1, PhaseTypes DEF Runs
<1>4. Scheduled(n)'
    BY <1>1, <1>2, <1>3, PhaseTypes DEF Scheduled, Typed, TypeOK
<1>5. \A y \in findings' : Ripe(y, n)'
    BY <1>2 DEF InVain, Ripe
<1>6. /\ hand'["audit"] = hand["audit"] /\ hand'["integrity"] = hand["integrity"]
      /\ hand'["quarantine"] \subseteq hand["quarantine"]
    BY <1>1, <1>3, PhaseTypes DEF Typed, TypeOK
<1>7. \A q \in Runs : \A m \in moved'[q] : m.finding.cause = "forensic"
    <2>1. x.cause = "forensic"
        BY <1>1, <1>3 DEF InVain
    <2>2. ASSUME NEW q \in Runs, NEW m \in moved'[q] PROVE m.finding.cause = "forensic"
        <3>1. m \in moved[q] \/ m = [finding |-> x, was |-> disk[x.file]]
            BY <1>1, <2>2 DEF Typed, TypeOK
        <3> QED
            BY <2>1, <3>1 DEF InVain
    <2> QED
        BY <2>2
<1> QED
    BY <1>4, <1>5, <1>6, <1>7 DEF InVain

LEMMA TickPhase ==
    ASSUME NEW n, InPhase(n), Typed, Scheduled(n), InVain(n), Tick
    PROVE  Scheduled(n)' /\ InVain(n)'
<1>1. /\ {"integrity", "audit", "quarantine", "forensic"} \subseteq WorkerJobs
      /\ WorkerJobs \subseteq Runs
      /\ n \in Nat /\ Lookback \in Nat
      /\ due["integrity"] \in Nat /\ due["audit"] \in Nat
      /\ Every["integrity"] \in Nat
      /\ lasts["integrity"] \in Nat
      /\ \A x \in findings : x \in Finding
    BY PhaseTypes
<1>2. /\ due["integrity"] > 0 /\ due["audit"] > 0
      /\ due'["integrity"] = due["integrity"] - 1
      /\ due'["audit"] = due["audit"] - 1
      /\ UNCHANGED pc
    BY <1>1 DEF Tick, Settled
<1>3. Scheduled(n)'
    <2>1. due'["integrity"] - due'["audit"] = due["integrity"] - due["audit"]
        BY <1>1, <1>2
    <2>2. pc["integrity"] # "idle" => lasts'["integrity"] = lasts["integrity"] + 1
        BY <1>1 DEF Tick, Working
    <2>3. pc["integrity"] # "idle"
            => lasts'["integrity"] = Every["integrity"] - due'["integrity"]
        <3>1. pc["integrity"] # "idle"
                => lasts["integrity"] = Every["integrity"] - due["integrity"]
            BY DEF Scheduled
        <3> QED
            BY <1>1, <1>2, <2>2, <3>1
    <2> QED
        BY <1>2, <2>1, <2>3 DEF Scheduled
<1>4. ASSUME NEW x \in findings PROVE Ripe(Grown(x), n)'
    <2>1. /\ Grown(x).cause = x.cause /\ Grown(x).severity = x.severity
          /\ Grown(x).age \in Nat /\ x.age \in Nat
          /\ x.age > Lookback => Grown(x).age > Lookback
          /\ Grown(x).age = x.age + 1 \/ Grown(x).age > Lookback
        BY <1>1, GrownKeeps
    <2>2. Ripe(x, n)
        BY DEF InVain
    <2> QED
        BY <1>1, <1>2, <2>1, <2>2 DEF Ripe
<1>5. \A x \in findings' : Ripe(x, n)'
    BY <1>4 DEF Tick
<1>6. hand'["integrity"] = hand["integrity"]
    BY <1>1, PhaseTypes DEF Tick
<1>7. /\ hand'["audit"] = {Grown(x) : x \in hand["audit"]}
      /\ hand'["quarantine"] = {Grown(x) : x \in hand["quarantine"]}
      /\ hand["audit"] \subseteq Finding /\ hand["quarantine"] \subseteq Finding
    BY <1>1, PhaseTypes DEF Tick, Typed, Held
<1>8. \A x \in hand'["audit"] : Late(x)
    BY <1>7, GrownKeeps DEF InVain, Late
<1>9. \A x \in hand'["quarantine"] : x.cause = "forensic"
    BY <1>7, GrownKeeps DEF InVain
<1>10. \A r \in Runs : \A m \in moved'[r] : m.finding.cause = "forensic"
    <2> SUFFICES ASSUME NEW r \in Runs, NEW m \in moved[r]
                 PROVE  [m EXCEPT !.finding = Grown(@)].finding.cause = "forensic"
        BY DEF Tick
    <2>1. m \in Sighting /\ m.finding \in Finding
        BY DEF Typed, TypeOK, Sighting
    <2>2. [m EXCEPT !.finding = Grown(@)].finding = Grown(m.finding)
        BY <2>1 DEF Sighting
    <2>3. m.finding.cause = "forensic"
        BY DEF InVain
    <2> QED
        BY <2>1, <2>2, <2>3, GrownKeeps
<1> QED
    BY <1>3, <1>5, <1>6, <1>8, <1>9, <1>10 DEF InVain

LEMMA RestartPhase ==
    ASSUME NEW n, InPhase(n), Typed, Scheduled(n), InVain(n), Restart
    PROVE  Scheduled(n)' /\ InVain(n)'
<1>1. /\ \A r \in WorkerJobs : pc'[r] = "idle" /\ hand'[r] = {} /\ moved'[r] = {}
      /\ pc'["on demand"] = pc["on demand"]
      /\ \A r \in Runs \ WorkerJobs : moved'[r] = moved[r]
      /\ due' = Every /\ UNCHANGED findings
    BY PhaseTypes DEF Restart
<1>2. Every["integrity"] - Every["audit"] \in Multiples(n)
    BY PhaseTypes, MultiplesType
<1>3. Scheduled(n)'
    BY <1>1, <1>2, PhaseTypes DEF Scheduled
<1>4. ASSUME NEW x \in findings PROVE Ripe(x, n)'
    <2>1. /\ x.age \in Nat /\ Every["audit"] \in Nat /\ Every["audit"] >= n /\ n \in Nat
          /\ due'["audit"] = Every["audit"]
        BY <1>1, PhaseTypes
    <2>2. Ripe(x, n)
        BY DEF InVain
    <2> QED
        BY <2>1, <2>2 DEF Ripe
<1>5. \A r \in Runs : \A m \in moved'[r] : m.finding.cause = "forensic"
    BY <1>1 DEF InVain
<1> QED
    BY <1>1, <1>3, <1>4, <1>5, PhaseTypes DEF InVain

LEMMA PhaseNext ==
    ASSUME NEW n, InPhase(n), PhaseInv(n), [Next]_vars
    PROVE  PhaseInv(n)'
<1>1. Typed /\ Typed'
    BY TypedNext DEF PhaseInv
<1> SUFFICES ASSUME asks' = 0 PROVE Scheduled(n)' /\ InVain(n)'
    BY <1>1 DEF PhaseInv
<1>2. asks = 0 /\ ~(\E j \in Detectors : RunNow(j))
    <2>1. asks \in Nat
        BY <1>1 DEF Typed, TypeOK
    <2>2. ASSUME NEW j \in Detectors, RunNow(j) PROVE FALSE
        <3>1. asks' = asks + 1
            BY <2>2 DEF RunNow
        <3> QED
            BY <2>1, <3>1
    <2>3. asks' = asks \/ \E j \in Detectors : RunNow(j)
        BY DEF Next, Start, Begin, Step, Look, CommitIntegrity, CommitForensic,
           CommitAudit, Move, CommitQuarantine, Fail, Restart, Tick, Edit, Restore,
           vars
    <2> QED
        BY <2>2, <2>3
<1>3. Scheduled(n) /\ InVain(n)
    BY <1>2 DEF PhaseInv
<1>4. ASSUME NEW j \in WorkerJobs, Start(j) PROVE Scheduled(n)' /\ InVain(n)'
    BY <1>1, <1>3, <1>4, StartPhase
<1>5. ASSUME NEW r \in Runs, Step(r) PROVE Scheduled(n)' /\ InVain(n)'
    BY <1>1, <1>3, <1>5, LookPhase, CommitPhase, MovePhase DEF Step
<1>6. ASSUME NEW r \in Runs, Fail(r) PROVE Scheduled(n)' /\ InVain(n)'
    <2>1. Rest(r) /\ UNCHANGED <<due, findings>>
        BY <1>6 DEF Fail
    <2>2. \A x \in findings' : Ripe(x, n)
        BY <1>3, <2>1 DEF InVain
    <2> QED
        BY <1>1, <1>3, <2>1, <2>2, RestPhase
<1>7. CASE Edit \/ Restore \/ UNCHANGED vars
    <2>1. UNCHANGED <<findings, due, pc, lasts, hand, moved>>
        BY <1>7 DEF Edit, Restore, vars, process
    <2>2. Scheduled(n)'
        BY <1>3, <2>1 DEF Scheduled
    <2>3. InVain(n)'
        BY <1>3, <2>1 DEF InVain, Ripe
    <2> QED
        BY <2>2, <2>3
<1> QED
    BY <1>1, <1>2, <1>3, <1>4, <1>5, <1>6, <1>7, TickPhase, RestartPhase DEF Next

(* The claim that a finding "becomes eligible for auto-quarantine" by its      *)
(* escalation fails for every value of the constants, not only in one run:     *)
(* while no detector is run on demand, AnalyzeWordPressIntegrityUseCase        *)
(* escalates only findings that AutoQuarantineCriticalFindingsUseCase does not *)
(* load any more, and none that it escalated is ever moved.  For all intervals *)
(* of the scan and the audit that are multiples of one period longer than the  *)
(* lookback, however long the runs take and whatever fails or restarts.        *)
THEOREM EscalationInVain ==
    ASSUME NEW CONSTANT period, InPhase(period)
    PROVE  Spec => EscalatedTooLate /\ []EscalatedNotMoved
<1>1. Init => PhaseInv(period)
    BY PhaseInit
<1>2. PhaseInv(period) /\ [Next]_vars => PhaseInv(period)'
    BY PhaseNext
<1>3. PhaseInv(period) => EscalatedNotMoved
    BY DEF PhaseInv, InVain, EscalatedNotMoved
<1>4. PhaseInv(period) =>
        [\A r \in Runs : asks = 0 /\ CommitAudit(r) =>
            \A x \in findings' \ findings : x.age > Lookback]_vars
    <2> SUFFICES ASSUME PhaseInv(period), NEW r \in Runs, asks = 0, CommitAudit(r),
                        NEW x \in findings' \ findings
                 PROVE  x.age > Lookback
        OBVIOUS
    <2>1. r = "audit" /\ Typed /\ InVain(period)
        <3>1. Typed /\ Scheduled(period) /\ InVain(period)
            BY DEF PhaseInv
        <3>2. r # "on demand"
            BY <3>1 DEF CommitAudit, Scheduled
        <3> QED
            BY <3>1, <3>2, PhaseTypes DEF CommitAudit, Runs
    <2>2. PICK y \in hand["audit"] : y.severity < Critical /\ x = [y EXCEPT !.severity = Critical]
        BY <2>1 DEF CommitAudit, Escalated
    <2>3. y \in Finding /\ Late(y)
        BY <2>1, <2>2, PhaseTypes DEF Typed, Held, InVain
    <2>4. x.age = y.age
        BY <2>2, <2>3 DEF Finding
    <2> QED
        BY <2>2, <2>3, <2>4 DEF Late, Critical
<1> QED
    BY <1>1, <1>2, <1>3, <1>4, PTL DEF Spec, EscalatedTooLate

================================================================================
