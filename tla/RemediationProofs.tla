--------------------------- MODULE RemediationProofs ---------------------------
(* Theorems about Remediation, for every set of findings, paths and sessions, *)
(* every mode and every combination of faults.                                *)
EXTENDS Remediation, TLAPS

(* Steps at which a session works on one finding, and those at which it       *)
(* works in an incident folder.                                               *)
OnFinding == Steps \ {"idle", "next", "commit", "done"}
InFolder == {"mkdir", "move", "sidecar", "locate", "putback", "clear", "purge"}

(* A session at such a step has a finding or a folder, and an operation.      *)
JobOK ==
    \A s \in Sessions :
       /\ pc[s] \in OnFinding => job[s].cur \in Findings
       /\ pc[s] \in OnFinding \cup {"next"} => job[s].op \in Operations
       /\ pc[s] \in InFolder => dir[s] \in Folders

TypeInv == TypeOK /\ JobOK

LEMMA ViewType == ASSUME TypeOK, NEW s PROVE View(s) \in Tables
BY DEF TypeOK, View

LEMMA FolderType ==
    ASSUME NEW f \in Findings, NEW s \in Sessions \cup {None}
    PROVE  Folder(f, s) \in Folders
BY DEF Folders

LEMMA InitTypeInv == Init => TypeInv
<1> SUFFICES ASSUME Init PROVE TypeInv
    OBVIOUS
<1>1. db \in Tables
    BY DataAssumption
    DEF Init, Tables, Row, NewRow, States, Baseline, NoBaseline, AuditRows
<1>2. TypeOK
    BY <1>1, DataAssumption
    DEF Init, TypeOK, Entry, NoEntry, Row, NewRow, States, Baseline, NoBaseline,
        Job, NoJob, Seen, NoSeen, Steps
<1>3. JobOK
    BY DEF Init, JobOK, OnFinding, InFolder
<1> QED
    BY <1>2, <1>3 DEF TypeInv

(* A session that ends leaves its own variables well typed.                   *)
LEMMA EndType ==
    ASSUME TypeInv, NEW s \in Sessions, End(s)
    PROVE  /\ pc' \in [Sessions -> Steps]
           /\ job' \in [Sessions -> Job]
           /\ ent' \in [Sessions -> Row]
           /\ seen' \in [Sessions -> Seen]
           /\ dir' \in [Sessions -> Folders \cup {None}]
           /\ JobOK'
<1>1. /\ NewRow \in Row
      /\ NoJob \in Job
      /\ NoSeen \in Seen
    BY DEF NewRow, Row, States, NoJob, Job, NoSeen, Seen, NoBaseline, Baseline
<1>2. pc' = [pc EXCEPT ![s] = "done"]
    BY DEF End, Goto
<1>3. JobOK'
    BY <1>2 DEF TypeInv, TypeOK, JobOK, End, OnFinding, InFolder
<1> QED
    BY <1>1, <1>2, <1>3 DEF TypeInv, TypeOK, End, Steps

(* A session that goes from one step to another, touching only the disk.      *)
LEMMA DiskStepType ==
    ASSUME TypeInv, NEW s \in Sessions, NEW step \in Steps, Goto(s, step),
           UNCHANGED <<rows, local>>,
           home' \in [Paths -> Contents \cup {Absent}],
           store' \in [Folders -> Entry],
           taken' \in [Findings -> Contents \cup {Absent}],
           pc[s] \in OnFinding, pc[s] \in InFolder \/ step \notin InFolder
    PROVE  TypeInv'
<1>1. pc' = [pc EXCEPT ![s] = step] /\ pc' \in [Sessions -> Steps]
    BY DEF Goto, TypeInv, TypeOK
<1>2. JobOK'
    BY <1>1 DEF TypeInv, TypeOK, JobOK, local
<1> QED
    BY <1>1, <1>2 DEF TypeInv, TypeOK, rows, local

--------------------------------------------------------------------------------
(* Type correctness, one lemma per group of actions.                          *)

LEMMA RequestType ==
    ASSUME TypeInv, NEW s \in Sessions, NEW op \in Operations, NEW f \in Findings,
           Request(s, op, f)
    PROVE  TypeInv'
<1>1. pc' = [pc EXCEPT ![s] = "load"]
    BY DEF Request, Goto
<1>2. job' = [job EXCEPT ![s] = [op |-> op, cur |-> f, todo |-> {}, over |-> {}]]
    BY DEF Request, NoJob
<1>3. TypeOK'
    BY <1>1, <1>2 DEF TypeInv, TypeOK, Request, disk, rows, Steps, Job
<1>4. JobOK'
    BY <1>1, <1>2 DEF TypeInv, TypeOK, JobOK, Request, OnFinding, InFolder
<1> QED
    BY <1>3, <1>4 DEF TypeInv

LEMMA AutoRunType ==
    ASSUME TypeInv, NEW s \in Sessions, AutoRun(s)
    PROVE  TypeInv'
<1>1. pc' = [pc EXCEPT ![s] = "next"]
    BY DEF AutoRun, Goto
<1>2. PICK B \in SUBSET Findings, A \in SUBSET Accounts :
         job' = [job EXCEPT ![s] = [op |-> "auto", cur |-> None, todo |-> B, over |-> A]]
    BY DataAssumption DEF AutoRun
<1>3. TypeOK'
    BY <1>1, <1>2 DEF TypeInv, TypeOK, AutoRun, disk, rows, Steps, Job, Operations
<1>4. JobOK'
    BY <1>1, <1>2
    DEF TypeInv, TypeOK, JobOK, AutoRun, OnFinding, InFolder, Operations
<1> QED
    BY <1>3, <1>4 DEF TypeInv

LEMMA LoadType ==
    ASSUME TypeInv, NEW s \in Sessions, Load(s)
    PROVE  TypeInv'
<1> DEFINE f == job[s].cur
           op == job[s].op
           row == View(s).finding[f]
<1>1. pc[s] = "load" /\ f \in Findings /\ op \in Operations
    BY DEF Load, At, TypeInv, TypeOK, JobOK, OnFinding, Steps
<1>2. row \in Row
    BY <1>1, ViewType DEF TypeInv, Tables
<1>3. CASE Permits(op, f, row)
  <2>1. /\ pc' = [pc EXCEPT ![s] = FirstStep[op]]
        /\ ent' = [ent EXCEPT ![s] = row]
        /\ dir' = [dir EXCEPT ![s] = row.folder]
        /\ UNCHANGED <<job, seen, disk, rows>>
    BY <1>3 DEF Load, Goto
  <2>2. FirstStep[op] \in {"check", "locate", "purge", "merge"}
    BY <1>1 DEF FirstStep, Operations
  <2>3. FirstStep[op] \in InFolder => row.folder \in Folders
    BY <1>1, <1>2, <1>3 DEF FirstStep, InFolder, Permits, Row, Operations
  <2>4. TypeOK'
    BY <1>2, <2>1, <2>2 DEF TypeInv, TypeOK, disk, rows, Steps, Row
  <2>5. JobOK'
    BY <1>1, <2>1, <2>2, <2>3 DEF TypeInv, TypeOK, JobOK, OnFinding, InFolder, Steps
  <2> QED
    BY <2>4, <2>5 DEF TypeInv
<1>4. CASE ~Permits(op, f, row) /\ op = "auto"
  <2>1. pc' = [pc EXCEPT ![s] = "next"] /\ UNCHANGED <<local, disk, rows>>
    BY <1>4 DEF Load, Goto
  <2> QED
    BY <1>1, <2>1
    DEF TypeInv, TypeOK, JobOK, local, disk, rows, Steps, OnFinding, InFolder
<1>5. CASE ~Permits(op, f, row) /\ op # "auto"
  <2>1. End(s) /\ UNCHANGED <<disk, rows>>
    BY <1>5 DEF Load
  <2> QED
    BY <2>1, EndType DEF TypeInv, TypeOK, disk, rows
<1> QED
    BY <1>3, <1>4, <1>5

(* A filesystem call that fails.                                              *)
LEMMA FailsType ==
    ASSUME TypeInv, NEW s \in Sessions, pc[s] \in OnFinding, Fails(s),
           UNCHANGED <<rows, local>>
    PROVE  TypeInv'
<1>1. Goto(s, "fail") /\ "fail" \in Steps \ InFolder
    BY DEF Fails, Steps, InFolder
<1>2. UNCHANGED <<home, store, taken>>
    BY DEF Fails, disk
<1> QED
    BY <1>1, <1>2, DiskStepType DEF TypeInv, TypeOK

LEMMA CheckType ==
    ASSUME TypeInv, NEW s \in Sessions, Check(s)
    PROVE  TypeInv'
<1> DEFINE f == job[s].cur
<1>1. /\ pc[s] = "check" /\ pc[s] \in OnFinding
      /\ f \in Findings /\ job[s].op \in Operations
    BY DEF Check, At, TypeInv, TypeOK, JobOK, OnFinding, Steps
<1>2. UNCHANGED <<rows, job, ent, seen>>
    BY DEF Check
<1>3. CASE /\ dir' = [dir EXCEPT ![s] = FolderFor(s)]
           /\ Goto(s, "mkdir")
           /\ UNCHANGED disk
  <2>1. FolderFor(s) \in Folders
    BY <1>1, FolderType DEF FolderFor
  <2> QED
    BY <1>1, <1>2, <1>3, <2>1
    DEF TypeInv, TypeOK, JobOK, Goto, disk, rows, Steps, OnFinding, InFolder
<1>4. CASE Fails(s) /\ UNCHANGED dir
    BY <1>1, <1>2, <1>4, FailsType DEF local
<1> QED
    BY <1>3, <1>4 DEF Check

LEMMA DepositType ==
    ASSUME NEW entry \in Entry, NEW p, NEW c \in Contents
    PROVE  Deposit(entry, p, c) \in Entry
BY DEF Deposit, Entry

LEMMA NoEntryType == NoEntry \in Entry
BY DEF NoEntry, Entry

LEMMA MkDirType ==
    ASSUME TypeInv, NEW s \in Sessions, MkDir(s)
    PROVE  TypeInv'
<1>1. pc[s] = "mkdir" /\ pc[s] \in OnFinding /\ pc[s] \in InFolder
    BY DEF MkDir, At, OnFinding, InFolder, Steps
<1>2. UNCHANGED <<rows, local>>
    BY DEF MkDir
<1>3. CASE /\ store' = [store EXCEPT ![dir[s]].made = TRUE]
           /\ Goto(s, "move")
           /\ UNCHANGED <<home, taken>>
  <2>1. store' \in [Folders -> Entry]
    BY <1>3 DEF TypeInv, TypeOK, Entry
  <2> QED
    BY <1>1, <1>2, <1>3, <2>1, DiskStepType DEF TypeInv, TypeOK, Steps
<1>4. CASE Fails(s)
    BY <1>1, <1>2, <1>4, FailsType
<1> QED
    BY <1>3, <1>4 DEF MkDir

LEMMA MoveType ==
    ASSUME TypeInv, NEW s \in Sessions, Move(s)
    PROVE  TypeInv'
<1> DEFINE p == PathOf[job[s].cur]
<1>1. /\ pc[s] = "move" /\ pc[s] \in OnFinding /\ pc[s] \in InFolder
      /\ job[s].cur \in Findings /\ dir[s] \in Folders
    BY DEF Move, At, OnFinding, InFolder, Steps, TypeInv, JobOK
<1>2. p \in Paths
    BY <1>1, DataAssumption
<1>3. UNCHANGED <<rows, local>>
    BY DEF Move
<1>4. CASE /\ home[p] # Absent
           /\ store' = [store EXCEPT ![dir[s]] = Deposit(@, p, home[p])]
           /\ taken' = [taken EXCEPT ![job[s].cur] = home[p]]
           /\ home' = [home EXCEPT ![p] = Absent]
           /\ Goto(s, "sidecar")
  <2>1. home[p] \in Contents
    BY <1>2, <1>4 DEF TypeInv, TypeOK
  <2>2. Deposit(store[dir[s]], p, home[p]) \in Entry
    BY <1>1, <2>1, DepositType DEF TypeInv, TypeOK
  <2>3. /\ store' \in [Folders -> Entry]
        /\ taken' \in [Findings -> Contents \cup {Absent}]
        /\ home' \in [Paths -> Contents \cup {Absent}]
    BY <1>4, <2>1, <2>2 DEF TypeInv, TypeOK
  <2> QED
    BY <1>1, <1>3, <1>4, <2>3, DiskStepType DEF Steps
<1>5. CASE Fails(s)
    BY <1>1, <1>3, <1>5, FailsType
<1> QED
    BY <1>4, <1>5 DEF Move

LEMMA WriteSidecarType ==
    ASSUME TypeInv, NEW s \in Sessions, WriteSidecar(s)
    PROVE  TypeInv'
<1>1. pc[s] = "sidecar" /\ pc[s] \in OnFinding /\ pc[s] \in InFolder
    BY DEF WriteSidecar, At, OnFinding, InFolder, Steps
<1>2. UNCHANGED <<rows, local>>
    BY DEF WriteSidecar
<1>3. CASE /\ store' = [store EXCEPT ![dir[s]].meta = Sidecar]
           /\ Goto(s, "merge")
           /\ UNCHANGED <<home, taken>>
  <2>1. store' \in [Folders -> Entry]
    BY <1>3 DEF TypeInv, TypeOK, Entry
  <2> QED
    BY <1>1, <1>2, <1>3, <2>1, DiskStepType DEF TypeInv, TypeOK, Steps
<1>4. CASE Fails(s)
    BY <1>1, <1>2, <1>4, FailsType
<1> QED
    BY <1>3, <1>4 DEF WriteSidecar

LEMMA RestoreStepsType ==
    ASSUME TypeInv, NEW s \in Sessions, Locate(s) \/ PutBack(s) \/ Clear(s)
    PROVE  TypeInv'
<1>1. /\ pc[s] \in {"locate", "putback", "clear"}
      /\ pc[s] \in OnFinding /\ pc[s] \in InFolder
      /\ job[s].cur \in Findings /\ dir[s] \in Folders
    BY DEF Locate, PutBack, Clear, At, OnFinding, InFolder, Steps, TypeInv, JobOK
<1>2. UNCHANGED <<rows, local>>
    BY DEF Locate, PutBack, Clear
<1>3. CASE Goto(s, "putback") /\ UNCHANGED disk
    BY <1>1, <1>2, <1>3, DiskStepType DEF disk, TypeInv, TypeOK, Steps
<1>4. CASE /\ Restorable(dir[s])
           /\ home' = [home EXCEPT ![PathOf[job[s].cur]] = store[dir[s]].file]
           /\ store' = [store EXCEPT ![dir[s]].file = Absent]
           /\ Goto(s, "clear")
           /\ UNCHANGED taken
  <2>1. store[dir[s]].file \in Contents
    BY <1>1, <1>4 DEF Restorable, TypeInv, TypeOK, Entry
  <2>2. home' \in [Paths -> Contents \cup {Absent}] /\ store' \in [Folders -> Entry]
    BY <1>4, <2>1 DEF TypeInv, TypeOK, Entry
  <2> QED
    BY <1>1, <1>2, <1>4, <2>2, DiskStepType DEF TypeInv, TypeOK, Steps
<1>5. CASE /\ store' = [store EXCEPT ![dir[s]] = NoEntry] \/ UNCHANGED store
           /\ Goto(s, "merge")
           /\ UNCHANGED <<home, taken>>
  <2>1. store' \in [Folders -> Entry]
    BY <1>5, NoEntryType DEF TypeInv, TypeOK
  <2> QED
    BY <1>1, <1>2, <1>5, <2>1, DiskStepType DEF TypeInv, TypeOK, Steps
<1>6. CASE Fails(s)
    BY <1>1, <1>2, <1>6, FailsType
<1> QED
    BY <1>3, <1>4, <1>5, <1>6 DEF Locate, PutBack, Clear

LEMMA PurgeType ==
    ASSUME TypeInv, NEW s \in Sessions, Purge(s)
    PROVE  TypeInv'
<1>1. pc[s] = "purge" /\ pc[s] \in OnFinding /\ pc[s] \in InFolder
    BY DEF Purge, At, OnFinding, InFolder, Steps
<1>2. UNCHANGED <<rows, local>>
    BY DEF Purge
<1>3. CASE /\ \/ store' = [store EXCEPT ![dir[s]] = NoEntry] /\ Goto(s, "merge")
              \/ store' = [store EXCEPT ![dir[s]].file = Absent] /\ Goto(s, "fail")
           /\ UNCHANGED <<home, taken>>
  <2>1. [store EXCEPT ![dir[s]] = NoEntry] \in [Folders -> Entry]
    BY NoEntryType DEF TypeInv, TypeOK
  <2>2. [store EXCEPT ![dir[s]].file = Absent] \in [Folders -> Entry]
    BY DEF TypeInv, TypeOK, Entry
  <2>3. store' \in [Folders -> Entry]
    BY <1>3, <2>1, <2>2
  <2> QED
    BY <1>1, <1>2, <1>3, <2>3, DiskStepType DEF TypeInv, TypeOK, Steps, InFolder
<1>4. CASE Fails(s)
    BY <1>1, <1>2, <1>4, FailsType
<1> QED
    BY <1>3, <1>4 DEF Purge

(* A session that goes on without touching the disk or its own variables.     *)
LEMMA RowStepType ==
    ASSUME TypeInv, NEW s \in Sessions, NEW step \in Steps \ InFolder, Goto(s, step),
           UNCHANGED <<disk, local>>, db' \in Tables, draft' \in Tables,
           writer' \in Sessions \cup {None},
           step \in OnFinding \cup {"next"} => pc[s] \in OnFinding
    PROVE  TypeInv'
<1>1. pc' = [pc EXCEPT ![s] = step] /\ pc' \in [Sessions -> Steps]
    BY DEF Goto, TypeInv, TypeOK
<1>2. JobOK'
    BY <1>1 DEF TypeInv, TypeOK, JobOK, local
<1> QED
    BY <1>1, <1>2 DEF TypeInv, TypeOK, disk, local

LEMMA MergeType ==
    ASSUME TypeInv, NEW s \in Sessions, Merge(s)
    PROVE  TypeInv'
<1> DEFINE f == job[s].cur
           read == [row |-> View(s).finding[f], baseline |-> View(s).baseline[PathOf[f]]]
<1>1. /\ pc[s] = "merge" /\ f \in Findings /\ job[s].op \in Operations
      /\ pc' = [pc EXCEPT ![s] = "write"]
      /\ seen' = [seen EXCEPT ![s] = read]
      /\ UNCHANGED <<disk, rows, job, ent, dir>>
    BY DEF Merge, At, Goto, TypeInv, JobOK, OnFinding, Steps
<1>2. read \in Seen
    BY <1>1, ViewType, DataAssumption DEF TypeInv, Tables, Seen
<1>3. TypeOK'
    BY <1>1, <1>2 DEF TypeInv, TypeOK, disk, rows, Steps
<1>4. JobOK'
    BY <1>1 DEF TypeInv, TypeOK, JobOK, OnFinding, InFolder, Steps
<1> QED
    BY <1>3, <1>4 DEF TypeInv

LEMMA MergedRowType ==
    ASSUME NEW new \in Row, NEW read \in Row, NEW current \in Row
    PROVE  MergedRow(new, read, current) \in Row
BY DEF MergedRow, Column, Row

LEMMA ChangedType ==
    ASSUME NEW op \in Operations, NEW row \in Row, NEW d \in Folders \cup {None}
    PROVE  Changed(op, row, d) \in Row
<1>1. op # "acknowledge" => Outcome[op] \in States
    BY DEF Outcome, Operations, States
<1> QED
    BY <1>1 DEF Changed, Row

LEMMA ChangedBaselineType ==
    ASSUME NEW op, NEW f \in Findings, NEW read \in Baseline, NEW current \in Baseline
    PROVE  ChangedBaseline(op, f, read, current) \in Baseline
<1>1. Detected[f] \in Contents \cup {Absent}
    BY DataAssumption
<1> QED
    BY <1>1 DEF ChangedBaseline, Column, Baseline

LEMMA AuditOfType ==
    ASSUME NEW op, NEW f \in Findings, NEW outcome \in {"SUCCEEDED", "FAILED"}
    PROVE  AuditOf(op, f, outcome) \subseteq AuditRows
BY DEF AuditOf, AuditRow, ActionOf, AuditRows

LEMMA WriteType ==
    ASSUME TypeInv, NEW s \in Sessions, Write(s)
    PROVE  TypeInv' /\ draft' \in Tables
<1> DEFINE op == job[s].op
           f == job[s].cur
           p == PathOf[f]
           old == View(s)
           row == MergedRow(Changed(op, ent[s], dir[s]), ReadOf(s, old.finding[f]),
                            old.finding[f])
           base == ChangedBaseline(op, f, seen[s].baseline, old.baseline[p])
           step == IF op = "auto" THEN "next" ELSE "commit"
<1>1. /\ pc[s] = "write" /\ pc[s] \in OnFinding /\ f \in Findings /\ op \in Operations /\ p \in Paths
      /\ old \in Tables
    BY ViewType, DataAssumption DEF Write, At, TypeInv, JobOK, OnFinding, Steps
<1>2. /\ draft' = [finding  |-> [old.finding EXCEPT ![f] = row],
                   baseline |-> [old.baseline EXCEPT ![p] = base],
                   audit    |-> old.audit \cup AuditOf(op, f, "SUCCEEDED"),
                   alert    |-> old.alert]
      /\ writer' = s
      /\ Goto(s, step)
      /\ UNCHANGED <<disk, db, local>>
    BY <1>1 DEF Write, Lock, Tables
<1>3. row \in Row
  <2>1. Changed(op, ent[s], dir[s]) \in Row
    BY <1>1, ChangedType DEF TypeInv, TypeOK
  <2>2. old.finding[f] \in Row
    BY <1>1 DEF Tables
  <2>3. ReadOf(s, old.finding[f]) \in Row
    BY <2>2 DEF ReadOf, TypeInv, TypeOK, Seen
  <2> QED
    BY <2>1, <2>2, <2>3, MergedRowType
<1>4. base \in Baseline
  <2>1. old.baseline[p] \in Baseline /\ seen[s].baseline \in Baseline
    BY <1>1 DEF Tables, TypeInv, TypeOK, Seen
  <2> QED
    BY <1>1, <2>1, ChangedBaselineType
<1>5. AuditOf(op, f, "SUCCEEDED") \subseteq AuditRows
    BY <1>1, AuditOfType
<1>6. draft' \in Tables
    BY <1>1, <1>2, <1>3, <1>4, <1>5 DEF Tables
<1>7. step \in Steps \ InFolder /\ step \notin OnFinding
    BY DEF Steps, InFolder, OnFinding
<1> QED
    BY <1>1, <1>2, <1>6, <1>7, RowStepType DEF TypeInv, TypeOK

LEMMA RecordFailureType ==
    ASSUME TypeInv, NEW s \in Sessions, RecordFailure(s)
    PROVE  TypeInv'
<1> DEFINE step == IF job[s].op = "auto" THEN "next" ELSE "raise"
<1>1. /\ pc[s] = "fail" /\ pc[s] \in OnFinding /\ job[s].cur \in Findings
      /\ View(s) \in Tables
    BY ViewType DEF RecordFailure, At, TypeInv, JobOK, OnFinding, Steps
<1>2. /\ draft' = [View(s) EXCEPT !.audit =
                      @ \cup AuditOf(job[s].op, job[s].cur, "FAILED")]
      /\ writer' = s
      /\ Goto(s, step)
      /\ UNCHANGED <<disk, db, local>>
    BY DEF RecordFailure, Lock
<1>3. AuditOf(job[s].op, job[s].cur, "FAILED") \subseteq AuditRows
    BY <1>1, AuditOfType
<1>4. draft' \in Tables
    BY <1>1, <1>2, <1>3 DEF Tables
<1>5. step \in Steps \ InFolder
    BY DEF Steps, InFolder
<1> QED
    BY <1>1, <1>2, <1>4, <1>5, RowStepType DEF TypeInv, TypeOK

LEMMA AutoNextType ==
    ASSUME TypeInv, NEW s \in Sessions, AutoNext(s)
    PROVE  TypeInv'
<1>1. PICK f \in job[s].todo :
         job' = [job EXCEPT ![s].cur = f, ![s].todo = @ \ {f}]
    BY DEF AutoNext, Oldest, Turn
<1>2. /\ pc' = [pc EXCEPT ![s] = "load"]
      /\ UNCHANGED <<disk, rows, ent, seen, dir>>
      /\ f \in Findings /\ job[s].op \in Operations
    BY DEF AutoNext, At, Goto, TypeInv, TypeOK, JobOK, Job
<1>3. TypeOK'
    BY <1>1, <1>2 DEF TypeInv, TypeOK, Job, disk, rows, Steps
<1>4. JobOK'
    BY <1>1, <1>2 DEF TypeInv, TypeOK, JobOK, OnFinding, InFolder
<1> QED
    BY <1>3, <1>4 DEF TypeInv

LEMMA RaiseType ==
    ASSUME TypeInv, NEW s \in Sessions, Raise(s)
    PROVE  TypeInv'
<1>1. /\ End(s)
      /\ writer' = None /\ draft' = db
      /\ UNCHANGED <<disk, db>>
    BY DEF Raise
<1> QED
    BY <1>1, EndType DEF TypeInv, TypeOK, disk

LEMMA AutoTripType ==
    ASSUME TypeInv, NEW s \in Sessions, AutoTrip(s)
    PROVE  TypeInv'
<1>1. PICK a \in job[s].over :
         /\ draft' = [View(s) EXCEPT !.alert = @ \cup {a}]
         /\ job' = [job EXCEPT ![s].over = @ \ {a}]
    BY DEF AutoTrip, Tripped
<1>2. /\ pc[s] = "next" /\ pc' = [pc EXCEPT ![s] = "next"]
      /\ Lock(s)
      /\ UNCHANGED <<disk, db, ent, seen, dir>>
    BY DEF AutoTrip, At, Goto
<1>3. View(s) \in Tables /\ a \in Accounts
    BY ViewType DEF TypeInv, TypeOK, Job
<1>4. TypeOK'
  <2>1. draft' \in Tables /\ writer' \in Sessions \cup {None}
    BY <1>1, <1>2, <1>3 DEF Lock, Tables
  <2>2. job' \in [Sessions -> Job]
    BY <1>1 DEF TypeInv, TypeOK, Job
  <2>3. pc' \in [Sessions -> Steps]
    BY <1>2 DEF TypeInv, TypeOK, Steps
  <2> QED
    BY <1>2, <2>1, <2>2, <2>3 DEF TypeInv, TypeOK, disk
<1>5. JobOK'
    BY <1>1, <1>2 DEF TypeInv, TypeOK, JobOK, Job, OnFinding, InFolder
<1> QED
    BY <1>4, <1>5 DEF TypeInv

LEMMA AutoFinishType ==
    ASSUME TypeInv, NEW s \in Sessions, AutoFinish(s)
    PROVE  TypeInv'
<1>1. /\ Goto(s, "commit")
      /\ UNCHANGED <<disk, rows, local>>
      /\ "commit" \in Steps \ InFolder /\ "commit" \notin OnFinding \cup {"next"}
    BY DEF AutoFinish, Steps, InFolder, OnFinding
<1> QED
    BY <1>1, RowStepType DEF TypeInv, TypeOK, rows

LEMMA CommitType ==
    ASSUME TypeInv, NEW s \in Sessions, Commit(s)
    PROVE  TypeInv'
<1>1. End(s) /\ UNCHANGED <<disk, draft>>
    BY DEF Commit
<1>2. db' \in Tables /\ writer' \in Sessions \cup {None}
    BY DEF Commit, TypeInv, TypeOK
<1> QED
    BY <1>1, <1>2, EndType DEF TypeInv, TypeOK, disk

LEMMA DieType ==
    ASSUME TypeInv, NEW s \in Sessions, Die(s)
    PROVE  TypeInv'
<1>1. End(s) /\ UNCHANGED <<disk, db>>
    BY DEF Die
<1>2. draft' \in Tables /\ writer' \in Sessions \cup {None}
    BY DEF Die, TypeInv, TypeOK
<1> QED
    BY <1>1, <1>2, EndType DEF TypeInv, TypeOK, disk

LEMMA OwnerEditType ==
    ASSUME TypeInv, NEW p \in Paths, NEW c \in Contents \cup {Absent}, OwnerEdit(p, c)
    PROVE  TypeInv'
<1>1. home' = [home EXCEPT ![p] = c] /\ UNCHANGED <<store, taken, rows, pc, local>>
    BY DEF OwnerEdit
<1> QED
    BY <1>1 DEF TypeInv, TypeOK, JobOK, rows, local

LEMMA TypeInvStep == TypeInv /\ [Next]_vars => TypeInv'
<1> SUFFICES ASSUME TypeInv, [Next]_vars PROVE TypeInv'
    OBVIOUS
<1>1. CASE UNCHANGED vars
    BY <1>1 DEF vars, TypeInv, TypeOK, JobOK
<1>2. ASSUME NEW s \in Sessions, NEW op \in Operations, NEW f \in Findings,
             Request(s, op, f)
      PROVE  TypeInv'
    BY <1>2, RequestType
<1>3. ASSUME NEW s \in Sessions, AutoRun(s) PROVE TypeInv'
    BY <1>3, AutoRunType
<1>4. ASSUME NEW s \in Sessions, Step(s) PROVE TypeInv'
  <2>1. CASE Load(s) \/ Check(s) \/ MkDir(s) \/ Move(s) \/ WriteSidecar(s)
    BY <2>1, LoadType, CheckType, MkDirType, MoveType, WriteSidecarType
  <2>2. CASE Locate(s) \/ PutBack(s) \/ Clear(s) \/ Purge(s)
    BY <2>2, RestoreStepsType, PurgeType
  <2>3. CASE Merge(s) \/ Write(s) \/ RecordFailure(s) \/ Raise(s)
    BY <2>3, MergeType, WriteType, RecordFailureType, RaiseType
  <2>4. CASE AutoNext(s) \/ AutoTrip(s) \/ AutoFinish(s) \/ Commit(s)
    BY <2>4, AutoNextType, AutoTripType, AutoFinishType, CommitType
  <2> QED
    BY <1>4, <2>1, <2>2, <2>3, <2>4 DEF Step
<1>5. ASSUME NEW s \in Sessions, Die(s) PROVE TypeInv'
    BY <1>5, DieType
<1>6. ASSUME NEW p \in Paths, NEW c \in Contents \cup {Absent}, OwnerEdit(p, c)
      PROVE  TypeInv'
    BY <1>6, OwnerEditType
<1> QED
    BY <1>1, <1>2, <1>3, <1>4, <1>5, <1>6 DEF Next

LEMMA TypeInvAlways == Spec => []TypeInv
<1> QED
    BY InitTypeInv, TypeInvStep, PTL DEF Spec

(* Every variable of the remediation model keeps its type, and a session at a *)
(* step that uses its finding or its folder has one, for every number of      *)
(* sessions and findings.                                                     *)
THEOREM TypeCorrect == Spec => []TypeOK
<1>1. TypeInv => TypeOK
    BY DEF TypeInv
<1> QED
    BY <1>1, TypeInvAlways, PTL

--------------------------------------------------------------------------------
(* The audit trail.  AuditBacksState is not inductive: a commit publishes     *)
(* what the writer has drafted, and what it drafts comes from an entity it    *)
(* loaded earlier, from rows another session may since have replaced.  The    *)
(* strengthening says that the draft is backed too, that it extends the       *)
(* committed trail, and that every loaded entity is backed by what its        *)
(* session can still see: trails only grow, so a stale entity stays backed.   *)

Loaded == OnFinding \ {"load"}

TablesBacked(tables) ==
    \A f \in Findings : Backed(tables, f, tables.finding[f].state)

EntityBacked(s) ==
    /\ Backed(View(s), job[s].cur, ent[s].state)
    /\ job[s].op \in {"restore", "delete"} => ent[s].state = "QUARANTINED"

AuditInv ==
    /\ TablesBacked(db)
    /\ TablesBacked(draft)
    /\ db.audit \subseteq draft.audit
    /\ \A s \in Sessions : pc[s] \in Loaded => EntityBacked(s)

LEMMA InitAudit == Init => AuditInv
<1> SUFFICES ASSUME Init PROVE AuditInv
    OBVIOUS
<1>1. TablesBacked(db) /\ draft = db
    BY DEF Init, TablesBacked, Backed, Trail, NewRow
<1>2. \A s \in Sessions : pc[s] \notin Loaded
    BY DEF Init, Loaded, OnFinding
<1> QED
    BY <1>1, <1>2 DEF AuditInv

(* Session s goes to a step that needs no more of its entity than the last    *)
(* one did, the tables stay backed and nobody sees the trail shrink.          *)
LEMMA AuditStep ==
    ASSUME TypeInv, AuditInv, NEW s \in Sessions, NEW step, Goto(s, step),
           step \in Loaded => pc[s] \in Loaded,
           TablesBacked(db)', TablesBacked(draft)', (db.audit \subseteq draft.audit)',
           \A t \in Sessions : t # s \/ step \in Loaded =>
               /\ job'[t] = job[t]
               /\ ent'[t] = ent[t]
               /\ View(t).audit \subseteq View(t)'.audit
    PROVE  AuditInv'
<1>1. ASSUME NEW t \in Sessions, pc'[t] \in Loaded PROVE EntityBacked(t)'
  <2>1. /\ pc[t] \in Loaded /\ job'[t] = job[t] /\ ent'[t] = ent[t]
        /\ View(t).audit \subseteq View(t)'.audit
    BY <1>1 DEF Goto, TypeInv, TypeOK
  <2>2. EntityBacked(t)
    BY <2>1 DEF AuditInv
  <2> QED
    BY <2>1, <2>2 DEF EntityBacked, Backed
<1> QED
    BY <1>1 DEF AuditInv

(* The same, when the rows stand still.                                       *)
LEMMA AuditStay ==
    ASSUME TypeInv, AuditInv, NEW s \in Sessions, UNCHANGED rows,
           NEW step, Goto(s, step), step \in Loaded => pc[s] \in Loaded,
           \A t \in Sessions : t # s \/ step \in Loaded =>
               job'[t] = job[t] /\ ent'[t] = ent[t]
    PROVE  AuditInv'
<1>1. \A t \in Sessions : View(t)' = View(t)
    BY DEF View, rows
<1>2. TablesBacked(db)' /\ TablesBacked(draft)' /\ (db.audit \subseteq draft.audit)'
    BY DEF AuditInv, TablesBacked, Backed, rows
<1> QED
    BY <1>1, <1>2, AuditStep

(* Session s takes or keeps the write lock and extends what it sees.          *)
LEMMA AuditExtend ==
    ASSUME TypeInv, AuditInv, NEW s \in Sessions, NEW step, Goto(s, step),
           step \in Loaded => pc[s] \in Loaded,
           Lock(s), UNCHANGED <<db, local>>,
           TablesBacked(draft)', View(s).audit \subseteq draft'.audit
    PROVE  AuditInv'
<1>1. \A t \in Sessions : View(t).audit \subseteq View(t)'.audit
    BY SentinelAssumption DEF Lock, View
<1>2. db.audit \subseteq draft'.audit
    BY DEF View, AuditInv
<1>3. TablesBacked(db)'
    BY DEF AuditInv, TablesBacked, Backed
<1> QED
    BY <1>1, <1>2, <1>3, AuditStep DEF local

(* Session s ends by a commit, a rollback or with no row written.             *)
LEMMA AuditEnd ==
    ASSUME TypeInv, AuditInv, NEW s \in Sessions, End(s),
           \/ UNCHANGED rows
           \/ writer = s /\ db' = draft /\ writer' = None /\ UNCHANGED draft
           \/ writer = s /\ draft' = db /\ writer' = None /\ UNCHANGED db
    PROVE  AuditInv'
<1>1. Goto(s, "done") /\ "done" \notin Loaded
    BY DEF End, Loaded, OnFinding
<1>2. \A t \in Sessions : t # s => job'[t] = job[t] /\ ent'[t] = ent[t]
    BY DEF End, TypeInv, TypeOK
<1>3. ASSUME NEW t \in Sessions, t # s PROVE View(t).audit \subseteq View(t)'.audit
  <2>1. t # None /\ s # None
    BY SentinelAssumption
  <2> QED
    BY <1>3, <2>1 DEF View, rows, AuditInv
<1>4. TablesBacked(db)' /\ TablesBacked(draft)' /\ (db.audit \subseteq draft.audit)'
    BY DEF AuditInv, TablesBacked, Backed, rows
<1> QED
    BY <1>1, <1>2, <1>3, <1>4, AuditStep

--------------------------------------------------------------------------------
(* The audit trail, action by action.                                         *)

LEMMA LoadAudit ==
    ASSUME TypeInv, AuditInv, NEW s \in Sessions, Load(s)
    PROVE  AuditInv'
<1> DEFINE f == job[s].cur
           op == job[s].op
           row == View(s).finding[f]
<1>1. /\ pc[s] = "load" /\ f \in Findings /\ op \in Operations
      /\ UNCHANGED rows
    BY DEF Load, At, TypeInv, TypeOK, JobOK, OnFinding, Steps
<1>2. CASE Permits(op, f, row)
  <2>1. /\ pc' = [pc EXCEPT ![s] = FirstStep[op]]
        /\ ent' = [ent EXCEPT ![s] = row]
        /\ UNCHANGED job
    BY <1>2 DEF Load, Goto
  <2>2. Backed(View(s), f, row.state)
    BY <1>1 DEF View, AuditInv, TablesBacked
  <2>3. \A t \in Sessions : View(t)' = View(t)
    BY <1>1 DEF View, rows
  <2>4. ASSUME NEW t \in Sessions, pc'[t] \in Loaded PROVE EntityBacked(t)'
    <3>1. CASE t = s
      <4>1. ent'[t] = row
        BY <2>1, <3>1 DEF TypeInv, TypeOK
      <4>2. op \in {"restore", "delete"} => row.state = "QUARANTINED"
        BY <1>2 DEF Permits
      <4> QED
        BY <2>1, <2>2, <2>3, <3>1, <4>1, <4>2 DEF EntityBacked, Backed
    <3>2. CASE t # s
      <4>1. pc[t] \in Loaded /\ ent'[t] = ent[t]
        BY <2>1, <2>4, <3>2 DEF TypeInv, TypeOK
      <4> QED
        BY <2>1, <2>3, <4>1 DEF AuditInv, EntityBacked, Backed
    <3> QED
      BY <3>1, <3>2
  <2>5. TablesBacked(db)' /\ TablesBacked(draft)' /\ (db.audit \subseteq draft.audit)'
    BY <1>1 DEF AuditInv, TablesBacked, Backed, rows
  <2> QED
    BY <2>4, <2>5 DEF AuditInv
<1>3. CASE ~Permits(op, f, row) /\ op = "auto"
  <2>1. Goto(s, "next") /\ "next" \notin Loaded /\ UNCHANGED local
    BY <1>3 DEF Load, Loaded, OnFinding
  <2> QED
    BY <1>1, <2>1, AuditStay DEF local
<1>4. CASE ~Permits(op, f, row) /\ op # "auto"
  <2>1. End(s)
    BY <1>4 DEF Load
  <2> QED
    BY <1>1, <2>1, AuditEnd
<1> QED
    BY <1>2, <1>3, <1>4

(* The steps that leave the rows and the entity alone.                        *)
LEMMA DiskAudit ==
    ASSUME TypeInv, AuditInv, NEW s \in Sessions,
           \/ Check(s) \/ MkDir(s) \/ Move(s) \/ WriteSidecar(s)
           \/ Locate(s) \/ PutBack(s) \/ Clear(s) \/ Purge(s) \/ Merge(s)
    PROVE  AuditInv'
<1>1. /\ pc[s] \in Loaded
      /\ UNCHANGED <<rows, job, ent>>
    BY DEF Check, MkDir, Move, WriteSidecar, Locate, PutBack, Clear, Purge, Merge,
           At, Loaded, OnFinding, Steps, local
<1>2. PICK step : Goto(s, step)
    BY DEF Check, MkDir, Move, WriteSidecar, Locate, PutBack, Clear, Purge, Merge, Fails
<1> QED
    BY <1>1, <1>2, AuditStay

LEMMA StartAudit ==
    ASSUME TypeInv, AuditInv, NEW s \in Sessions,
           \/ \E op \in Operations, f \in Findings : Request(s, op, f)
           \/ AutoRun(s)
           \/ AutoNext(s) \/ AutoFinish(s)
    PROVE  AuditInv'
<1>1. PICK step \in {"load", "next", "commit"} : Goto(s, step)
    BY DEF Request, AutoRun, AutoNext, AutoFinish
<1>2. step \notin Loaded
    BY DEF Loaded, OnFinding
<1>3. \A t \in Sessions : t # s => job'[t] = job[t] /\ ent'[t] = ent[t]
    BY DEF Request, AutoRun, AutoNext, AutoFinish, local, TypeInv, TypeOK
<1>4. UNCHANGED rows
    BY DEF Request, AutoRun, AutoNext, AutoFinish
<1> QED
    BY <1>1, <1>2, <1>3, <1>4, AuditStay

LEMMA EndAudit ==
    ASSUME TypeInv, AuditInv, NEW s \in Sessions, Commit(s) \/ Die(s)
    PROVE  AuditInv'
<1>1. /\ End(s)
      /\ \/ UNCHANGED rows
         \/ writer = s /\ db' = draft /\ writer' = None /\ UNCHANGED draft
         \/ writer = s /\ draft' = db /\ writer' = None /\ UNCHANGED db
    BY DEF Commit, Die, rows
<1> QED
    BY <1>1, AuditEnd

LEMMA FailureAudit ==
    ASSUME TypeInv, AuditInv, NEW s \in Sessions, RecordFailure(s)
    PROVE  AuditInv'
<1> DEFINE step == IF job[s].op = "auto" THEN "next" ELSE "raise"
           old == View(s)
           new == AuditOf(job[s].op, job[s].cur, "FAILED")
<1>1. /\ Goto(s, step) /\ Lock(s) /\ UNCHANGED <<db, local>>
      /\ pc[s] \in Loaded
    BY DEF RecordFailure, At, Loaded, OnFinding, Steps
<1>2. old \in Tables
    BY ViewType DEF TypeInv
<1>3. draft' = [finding |-> old.finding, baseline |-> old.baseline,
                audit |-> old.audit \cup new, alert |-> old.alert]
    BY <1>2 DEF RecordFailure, Tables
<1>4. TablesBacked(old)
    BY DEF View, AuditInv
<1>5. TablesBacked(draft)'
    BY <1>3, <1>4 DEF TablesBacked, Backed
<1> QED
    BY <1>1, <1>3, <1>5, AuditExtend

LEMMA AutoTripAudit ==
    ASSUME TypeInv, AuditInv, NEW s \in Sessions, AutoTrip(s)
    PROVE  AuditInv'
<1> DEFINE old == View(s)
<1>1. PICK a : /\ draft' = [old EXCEPT !.alert = @ \cup {a}]
               /\ job' = [job EXCEPT ![s].over = @ \ {a}]
    BY DEF AutoTrip
<1>2. /\ Goto(s, "next") /\ Lock(s) /\ UNCHANGED <<db, ent>>
      /\ "next" \notin Loaded
    BY DEF AutoTrip, Loaded, OnFinding
<1>3. old \in Tables /\ TablesBacked(old)
    BY ViewType DEF TypeInv, View, AuditInv
<1>4. draft' = [finding |-> old.finding, baseline |-> old.baseline,
                audit |-> old.audit, alert |-> old.alert \cup {a}]
    BY <1>1, <1>3 DEF Tables
<1>5. TablesBacked(db)' /\ TablesBacked(draft)'
    BY <1>2, <1>3, <1>4 DEF AuditInv, TablesBacked, Backed
<1>6. (db.audit \subseteq draft.audit)'
    BY <1>2, <1>4 DEF View, AuditInv
<1>7. \A t \in Sessions : View(t).audit \subseteq View(t)'.audit
    BY <1>2, <1>4, SentinelAssumption DEF Lock, View
<1>8. \A t \in Sessions : t # s => job'[t] = job[t] /\ ent'[t] = ent[t]
    BY <1>1, <1>2 DEF TypeInv, TypeOK
<1> QED
    BY <1>2, <1>5, <1>6, <1>7, <1>8, AuditStep

(* What Write makes of a row is backed by the trail it extends.               *)
LEMMA ChangedBacked ==
    ASSUME NEW op \in Operations, NEW f, NEW row \in Row, NEW d, NEW old, NEW new,
           old.audit \cup AuditOf(op, f, "SUCCEEDED") \subseteq new.audit,
           Backed(old, f, row.state),
           op \in {"restore", "delete"} => row.state = "QUARANTINED"
    PROVE  Backed(new, f, Changed(op, row, d).state)
<1>1. CASE op = "acknowledge"
  <2>1. Changed(op, row, d).state = row.state
    BY <1>1 DEF Changed
  <2> QED
    BY <2>1 DEF Backed
<1>2. CASE op \in {"quarantine", "auto"}
  <2>1. Changed(op, row, d).state = "QUARANTINED"
    BY <1>2 DEF Changed, Outcome
  <2>2. AuditRow(f, "QUARANTINE", "SUCCEEDED") \in new.audit
    BY <1>2 DEF AuditOf, ActionOf
  <2> QED
    BY <2>1, <2>2 DEF Backed, Trail
<1>3. CASE op \in {"restore", "delete"}
  <2>1. AuditRow(f, "QUARANTINE", "SUCCEEDED") \in old.audit
    BY <1>3 DEF Backed, Trail
  <2>2. CASE op = "restore"
    <3>1. Changed(op, row, d).state = "RESTORED"
      BY <2>2 DEF Changed, Outcome
    <3>2. AuditRow(f, "RESTORE", "SUCCEEDED") \in new.audit
      BY <2>2 DEF AuditOf, ActionOf
    <3> QED
      BY <2>1, <3>1, <3>2 DEF Backed, Trail
  <2>3. CASE op = "delete"
    <3>1. Changed(op, row, d).state = "DELETED"
      BY <2>3 DEF Changed, Outcome
    <3>2. AuditRow(f, "DELETE", "SUCCEEDED") \in new.audit
      BY <2>3 DEF AuditOf, ActionOf
    <3> QED
      BY <2>1, <3>1, <3>2 DEF Backed, Trail
  <2> QED
    BY <1>3, <2>2, <2>3
<1> QED
    BY <1>1, <1>2, <1>3 DEF Operations

(* session.merge writes the entity's column or leaves the row's.              *)
LEMMA MergedState ==
    ASSUME NEW new, NEW read, NEW current
    PROVE  MergedRow(new, read, current).state \in {new.state, current.state}
BY DEF MergedRow, Column

LEMMA WriteAudit ==
    ASSUME TypeInv, AuditInv, NEW s \in Sessions, Write(s)
    PROVE  AuditInv'
<1> DEFINE op == job[s].op
           f == job[s].cur
           old == View(s)
           row == MergedRow(Changed(op, ent[s], dir[s]), ReadOf(s, old.finding[f]),
                            old.finding[f])
           step == IF op = "auto" THEN "next" ELSE "commit"
<1>1. /\ pc[s] \in Loaded /\ f \in Findings /\ op \in Operations
      /\ old \in Tables /\ ent[s] \in Row
    BY ViewType
    DEF Write, At, TypeInv, TypeOK, JobOK, Loaded, OnFinding, Steps
<1>2. /\ draft'.finding = [old.finding EXCEPT ![f] = row]
      /\ draft'.audit = old.audit \cup AuditOf(op, f, "SUCCEEDED")
      /\ Lock(s) /\ Goto(s, step)
      /\ UNCHANGED <<db, local>>
    BY <1>1 DEF Write, Tables
<1>3. TablesBacked(old) /\ EntityBacked(s)
    BY <1>1 DEF View, AuditInv
<1>4. Backed(draft', f, Changed(op, ent[s], dir[s]).state)
    BY <1>1, <1>2, <1>3, ChangedBacked DEF EntityBacked
<1>5. \A g \in Findings : Backed(draft', g, old.finding[g].state)
    BY <1>2, <1>3 DEF TablesBacked, Backed
<1>6. Backed(draft', f, row.state)
    BY <1>1, <1>4, <1>5, MergedState
<1>7. TablesBacked(draft)'
  <2>1. ASSUME NEW g \in Findings
        PROVE  Backed(draft', g, draft'.finding[g].state)
    <3>1. draft'.finding[g] = IF g = f THEN row ELSE old.finding[g]
      BY <1>1, <1>2 DEF Tables
    <3> QED
      BY <1>5, <1>6, <3>1
  <2> QED
    BY <2>1 DEF TablesBacked
<1> QED
    BY <1>1, <1>2, <1>7, AuditExtend

--------------------------------------------------------------------------------
(* A session about to raise a recorded failure still holds the write lock, so *)
(* that the rollback that follows undoes its own rows and nobody else's.      *)
LockInv == \A s \in Sessions : pc[s] = "raise" => writer = s

LEMMA InitLock == Init => LockInv
BY DEF Init, LockInv

LEMMA LockStay ==
    ASSUME TypeInv, LockInv, NEW s \in Sessions, NEW step, Goto(s, step),
           step = "raise" => writer' = s,
           writer' = writer \/ writer \in {None, s}
    PROVE  LockInv'
<1>1. ASSUME NEW t \in Sessions, pc'[t] = "raise" PROVE writer' = t
  <2>1. CASE t = s
    BY <1>1, <2>1 DEF Goto, TypeInv, TypeOK
  <2>2. CASE t # s
    <3>1. writer = t
      BY <1>1, <2>2 DEF LockInv, Goto, TypeInv, TypeOK
    <3> QED
      BY <2>2, <3>1, SentinelAssumption
  <2> QED
    BY <2>1, <2>2
<1> QED
    BY <1>1 DEF LockInv

LEMMA LockStep == TypeInv /\ LockInv /\ [Next]_vars => LockInv'
<1> SUFFICES ASSUME TypeInv, LockInv, [Next]_vars PROVE LockInv'
    OBVIOUS
<1>1. CASE UNCHANGED vars
    BY <1>1 DEF vars, LockInv
<1>2. ASSUME NEW s \in Sessions, NEW op \in Operations, NEW f \in Findings,
             Request(s, op, f)
      PROVE  LockInv'
    BY <1>2, LockStay DEF Request, rows
<1>3. ASSUME NEW s \in Sessions, AutoRun(s) PROVE LockInv'
    BY <1>3, LockStay DEF AutoRun, rows
<1>4. ASSUME NEW s \in Sessions, Step(s) PROVE LockInv'
  <2>1. CASE Load(s)
    <3>1. job[s].op \in Operations
      BY <2>1 DEF Load, At, TypeInv, JobOK, OnFinding, Steps
    <3>2. FirstStep[job[s].op] # "raise"
      BY <3>1 DEF FirstStep, Operations
    <3>3. PICK step : Goto(s, step) /\ step # "raise"
      BY <2>1, <3>2 DEF Load, End
    <3> QED
      BY <2>1, <3>3, LockStay DEF Load, rows
  <2>2. CASE \/ Check(s) \/ MkDir(s) \/ Move(s) \/ WriteSidecar(s)
             \/ Locate(s) \/ PutBack(s) \/ Clear(s) \/ Purge(s)
             \/ Merge(s) \/ AutoNext(s) \/ AutoFinish(s)
    <3>1. PICK step : Goto(s, step) /\ step # "raise"
      BY <2>2 DEF Check, MkDir, Move, WriteSidecar, Locate, PutBack, Clear, Purge,
                  Merge, AutoNext, AutoFinish, Fails
    <3>2. writer' = writer
      BY <2>2 DEF Check, MkDir, Move, WriteSidecar, Locate, PutBack, Clear, Purge,
                  Merge, AutoNext, AutoFinish, rows
    <3> QED
      BY <3>1, <3>2, LockStay
  <2>3. CASE Write(s) \/ RecordFailure(s)
    BY <2>3, LockStay DEF Write, RecordFailure, Lock
  <2>4. CASE AutoTrip(s)
    BY <2>4, LockStay DEF AutoTrip, Lock
  <2>5. CASE Raise(s)
    <3>1. writer = s
      BY <2>5 DEF Raise, At, LockInv
    <3> QED
      BY <2>5, <3>1, LockStay DEF Raise, End
  <2>6. CASE Commit(s)
    BY <2>6, LockStay DEF Commit, End
  <2> QED
    BY <1>4, <2>1, <2>2, <2>3, <2>4, <2>5, <2>6 DEF Step
<1>5. ASSUME NEW s \in Sessions, Die(s) PROVE LockInv'
    BY <1>5, LockStay DEF Die, End
<1>6. ASSUME NEW p \in Paths, NEW c \in Contents \cup {Absent}, OwnerEdit(p, c)
      PROVE  LockInv'
    BY <1>6 DEF OwnerEdit, rows, LockInv
<1> QED
    BY <1>1, <1>2, <1>3, <1>4, <1>5, <1>6 DEF Next

LEMMA AuditStepAll == TypeInv /\ LockInv /\ AuditInv /\ [Next]_vars => AuditInv'
<1> SUFFICES ASSUME TypeInv, LockInv, AuditInv, [Next]_vars PROVE AuditInv'
    OBVIOUS
<1>1. CASE UNCHANGED vars
    BY <1>1 DEF vars, AuditInv, EntityBacked, TablesBacked, Backed, View
<1>2. ASSUME NEW s \in Sessions, NEW op \in Operations, NEW f \in Findings,
             Request(s, op, f)
      PROVE  AuditInv'
    BY <1>2, StartAudit
<1>3. ASSUME NEW s \in Sessions, AutoRun(s) PROVE AuditInv'
    BY <1>3, StartAudit
<1>4. ASSUME NEW s \in Sessions, Step(s) PROVE AuditInv'
  <2>1. CASE Load(s)
    BY <2>1, LoadAudit
  <2>2. CASE \/ Check(s) \/ MkDir(s) \/ Move(s) \/ WriteSidecar(s)
             \/ Locate(s) \/ PutBack(s) \/ Clear(s) \/ Purge(s) \/ Merge(s)
    BY <2>2, DiskAudit
  <2>3. CASE Write(s) \/ RecordFailure(s) \/ AutoTrip(s)
    BY <2>3, WriteAudit, FailureAudit, AutoTripAudit
  <2>4. CASE AutoNext(s) \/ AutoFinish(s)
    BY <2>4, StartAudit
  <2>5. CASE Raise(s)
    <3>1. writer = s
      BY <2>5 DEF Raise, At, LockInv
    <3>2. End(s) /\ draft' = db /\ writer' = None /\ UNCHANGED db
      BY <2>5 DEF Raise
    <3> QED
      BY <3>1, <3>2, AuditEnd
  <2>6. CASE Commit(s)
    BY <2>6, EndAudit
  <2> QED
    BY <1>4, <2>1, <2>2, <2>3, <2>4, <2>5, <2>6 DEF Step
<1>5. ASSUME NEW s \in Sessions, Die(s) PROVE AuditInv'
    BY <1>5, EndAudit
<1>6. ASSUME NEW p \in Paths, NEW c \in Contents \cup {Absent}, OwnerEdit(p, c)
      PROVE  AuditInv'
    BY <1>6
    DEF OwnerEdit, rows, local, AuditInv, EntityBacked, TablesBacked, Backed, View
<1> QED
    BY <1>1, <1>2, <1>3, <1>4, <1>5, <1>6 DEF Next

(* Every committed remediation state has the successful remediation_actions   *)
(* rows that lead to it, for any number of sessions whose reads, merges,      *)
(* commits, failures and deaths interleave.                                   *)
THEOREM AuditBacked == Spec => []AuditBacksState
<1>1. AuditInv => AuditBacksState
    BY DEF AuditInv, TablesBacked, AuditBacksState
<1>2. TypeInv /\ LockInv /\ AuditInv /\ [Next]_vars => (LockInv /\ AuditInv)'
    BY LockStep, AuditStepAll
<1> QED
    BY <1>1, <1>2, InitLock, InitAudit, TypeInvAlways, PTL DEF Spec

--------------------------------------------------------------------------------
(* Incident folders.  A session that has made a folder and not yet moved its  *)
(* file there, or has emptied one and not yet removed it, is alone in it; so  *)
(* mkdir(exist_ok=False) protects every folder that holds a file.  This is so *)
(* only while nobody deletes: the rmtree of a delete that loaded its row      *)
(* earlier can remove a folder another quarantine has just made.              *)
Alone == {"move", "clear"}

FolderInv ==
    /\ \A d \in Folders : store[d].file # Absent => store[d].made
    /\ \A s \in Sessions : pc[s] \in Alone =>
          store[dir[s]].made /\ store[dir[s]].file = Absent
    /\ \A s, t \in Sessions :
          s # t /\ pc[s] \in Alone /\ pc[t] \in Alone => dir[s] # dir[t]

NoDelete ==
    \A s \in Sessions :
       /\ job[s].op # "delete"
       /\ pc[s] # "purge"

LEMMA InitFolder == Init => FolderInv /\ NoDelete
<1> SUFFICES ASSUME Init PROVE FolderInv /\ NoDelete
    OBVIOUS
<1>1. FolderInv
    BY DEF Init, FolderInv, Alone, NoEntry
<1>2. NoDelete
    BY SentinelAssumption DEF Init, NoDelete, NoJob, Operations
<1> QED
    BY <1>1, <1>2

LEMMA NoDeleteStep ==
    ASSUME "delete" \notin Requests
    PROVE  TypeInv /\ NoDelete /\ [Next]_vars => NoDelete'
<1> SUFFICES ASSUME TypeInv, NoDelete, [Next]_vars PROVE NoDelete'
    OBVIOUS
<1>1. CASE UNCHANGED vars
    BY <1>1 DEF vars, NoDelete
<1>2. ASSUME NEW s \in Sessions, NEW op \in Operations, NEW f \in Findings,
             Request(s, op, f)
      PROVE  NoDelete'
  <2>1. op # "delete"
    BY <1>2 DEF Request
  <2>2. /\ job' = [job EXCEPT ![s] = [op |-> op, cur |-> f, todo |-> {}, over |-> {}]]
        /\ pc' = [pc EXCEPT ![s] = "load"]
    BY <1>2 DEF Request, Goto
  <2> QED
    BY <2>1, <2>2 DEF NoDelete, TypeInv, TypeOK
<1>3. ASSUME NEW s \in Sessions, AutoRun(s) PROVE NoDelete'
  <2>1. PICK B, A :
           job' = [job EXCEPT ![s] = [op |-> "auto", cur |-> None, todo |-> B, over |-> A]]
    BY <1>3 DEF AutoRun
  <2>2. pc' = [pc EXCEPT ![s] = "next"]
    BY <1>3 DEF AutoRun, Goto
  <2> QED
    BY <2>1, <2>2 DEF NoDelete, TypeInv, TypeOK
<1>4. ASSUME NEW s \in Sessions, End(s) PROVE NoDelete'
    BY <1>4, SentinelAssumption
    DEF End, Goto, NoJob, NoDelete, TypeInv, TypeOK, Operations
<1>5. ASSUME NEW s \in Sessions, NEW step, Goto(s, step), step # "purge",
             UNCHANGED job
      PROVE  NoDelete'
    BY <1>5 DEF Goto, NoDelete, TypeInv, TypeOK
<1>6. ASSUME NEW s \in Sessions, Step(s) PROVE NoDelete'
  <2>1. CASE Load(s)
    <3>1. job[s].op \in Operations \ {"delete"}
      BY <2>1 DEF Load, At, TypeInv, JobOK, OnFinding, Steps, NoDelete
    <3>2. FirstStep[job[s].op] # "purge"
      BY <3>1 DEF FirstStep, Operations
    <3> QED
      BY <2>1, <3>2, <1>4, <1>5 DEF Load, local
  <2>2. CASE Purge(s)
    BY <2>2 DEF Purge, At, NoDelete
  <2>3. CASE AutoNext(s)
    <3>1. PICK f : job' = [job EXCEPT ![s].cur = f, ![s].todo = @ \ {f}]
      BY <2>3 DEF AutoNext
    <3>2. pc' = [pc EXCEPT ![s] = "load"]
      BY <2>3 DEF AutoNext, Goto
    <3> QED
      BY <3>1, <3>2 DEF NoDelete, TypeInv, TypeOK, Job
  <2>4. CASE \/ Check(s) \/ MkDir(s) \/ Move(s) \/ WriteSidecar(s)
             \/ Locate(s) \/ PutBack(s) \/ Clear(s) \/ Merge(s)
    <3>1. PICK step : Goto(s, step) /\ step # "purge"
      BY <2>4 DEF Check, MkDir, Move, WriteSidecar, Locate, PutBack, Clear, Merge, Fails
    <3>2. UNCHANGED job
      BY <2>4 DEF Check, MkDir, Move, WriteSidecar, Locate, PutBack, Clear, Merge, local
    <3> QED
      BY <3>1, <3>2, <1>5
  <2>5. CASE Write(s) \/ RecordFailure(s) \/ AutoFinish(s)
    BY <2>5, <1>5 DEF Write, RecordFailure, AutoFinish, local
  <2>6. CASE Raise(s) \/ Commit(s)
    BY <2>6, <1>4 DEF Raise, Commit
  <2>7. CASE AutoTrip(s)
    <3>1. PICK a : job' = [job EXCEPT ![s].over = @ \ {a}]
      BY <2>7 DEF AutoTrip
    <3>2. pc' = [pc EXCEPT ![s] = "next"]
      BY <2>7 DEF AutoTrip, Goto
    <3> QED
      BY <3>1, <3>2 DEF NoDelete, TypeInv, TypeOK, Job
  <2> QED
    BY <1>6, <2>1, <2>2, <2>3, <2>4, <2>5, <2>6, <2>7 DEF Step
<1>7. ASSUME NEW s \in Sessions, Die(s) PROVE NoDelete'
    BY <1>4, <1>7 DEF Die
<1>8. ASSUME NEW p \in Paths, NEW c \in Contents \cup {Absent}, OwnerEdit(p, c)
      PROVE  NoDelete'
    BY <1>8 DEF OwnerEdit, local, NoDelete
<1> QED
    BY <1>1, <1>2, <1>3, <1>6, <1>7, <1>8 DEF Next

(* The store stands still and session s does not become alone in a folder.    *)
LEMMA FolderStay ==
    ASSUME TypeInv, FolderInv, NEW s \in Sessions, UNCHANGED store,
           NEW step, Goto(s, step), step \notin Alone,
           \A t \in Sessions : t # s => dir'[t] = dir[t]
    PROVE  FolderInv'
<1>1. ASSUME NEW t \in Sessions, pc'[t] \in Alone
      PROVE  t # s /\ pc[t] \in Alone /\ dir'[t] = dir[t]
    BY <1>1 DEF Goto, TypeInv, TypeOK
<1> QED
    BY <1>1 DEF FolderInv

(* One folder changes: session s makes, fills, empties or removes it.         *)
LEMMA FolderChange ==
    ASSUME TypeInv, FolderInv, NEW s \in Sessions, dir[s] \in Folders, UNCHANGED dir,
           NEW step, Goto(s, step), NEW e \in Entry, store' = [store EXCEPT ![dir[s]] = e],
           e.file # Absent => e.made,
           step \in Alone => e.made /\ e.file = Absent,
           \A t \in Sessions : t # s /\ pc[t] \in Alone => dir[t] # dir[s]
    PROVE  FolderInv'
<1>1. \A d \in Folders : store'[d] = IF d = dir[s] THEN e ELSE store[d]
    BY DEF TypeInv, TypeOK
<1>2. ASSUME NEW t \in Sessions, pc'[t] \in Alone
      PROVE  /\ dir[t] \in Folders
             /\ t = s => step \in Alone
             /\ t # s => pc[t] \in Alone /\ dir[t] # dir[s]
    BY <1>2 DEF Goto, TypeInv, TypeOK, JobOK, Alone, InFolder
<1>3. (\A d \in Folders : store[d].file # Absent => store[d].made)'
    BY <1>1 DEF FolderInv
<1>4. ASSUME NEW t \in Sessions, pc'[t] \in Alone
      PROVE  store'[dir[t]].made /\ store'[dir[t]].file = Absent
    BY <1>1, <1>2, <1>4 DEF FolderInv
<1>5. ASSUME NEW t \in Sessions, NEW u \in Sessions, t # u,
             pc'[t] \in Alone, pc'[u] \in Alone
      PROVE  dir[t] # dir[u]
    BY <1>2, <1>5 DEF FolderInv
<1> QED
    BY <1>3, <1>4, <1>5 DEF FolderInv

(* What OnlyRestoreEmpties says of one step.                                  *)
Keeps ==
    \A d \in Folders :
       store[d].file # Absent /\ store'[d].file # store[d].file =>
          \E s \in Sessions : dir[s] = d /\ pc[s] = "putback"

(* An entry that keeps its file, or has none.                                 *)
LEMMA KeepsChange ==
    ASSUME TypeInv, NEW d \in Folders, NEW e, store' = [store EXCEPT ![d] = e],
           store[d].file # Absent => e.file = store[d].file
    PROVE  Keeps
BY DEF Keeps, TypeInv, TypeOK

LEMMA MkDirFolder ==
    ASSUME TypeInv, FolderInv, NEW s \in Sessions, MkDir(s), ~Fails(s)
    PROVE  FolderInv' /\ Keeps
<1> DEFINE d == dir[s]
           e == [store[d] EXCEPT !.made = TRUE]
<1>1. /\ d \in Folders /\ UNCHANGED dir /\ Goto(s, "move")
      /\ ~store[d].made /\ store' = [store EXCEPT ![d].made = TRUE]
    BY DEF MkDir, At, CanMake, TypeInv, JobOK, InFolder, local
<1>2. /\ store' = [store EXCEPT ![d] = e]
      /\ e \in Entry /\ e.made /\ e.file = store[d].file
  <2>1. store[d] \in Entry
    BY <1>1 DEF TypeInv, TypeOK
  <2>2. e \in Entry /\ e.made /\ e.file = store[d].file
    BY <2>1 DEF Entry
  <2>3. store' = [store EXCEPT ![d] = e]
    BY <1>1
  <2> QED
    BY <2>2, <2>3
<1>3. \A t \in Sessions : t # s /\ pc[t] \in Alone => dir[t] # d
    BY <1>1 DEF FolderInv
<1>4. e.file = Absent
    BY <1>1 DEF FolderInv
<1>5. FolderInv'
    BY <1>1, <1>2, <1>3, <1>4, FolderChange
<1> QED
    BY <1>1, <1>2, <1>5, KeepsChange

LEMMA MoveFolder ==
    ASSUME TypeInv, FolderInv, NEW s \in Sessions, Move(s), ~Fails(s)
    PROVE  FolderInv' /\ Keeps
<1> DEFINE d == dir[s]
           p == PathOf[job[s].cur]
           e == Deposit(store[d], p, home[p])
<1>1. /\ d \in Folders /\ UNCHANGED dir /\ Goto(s, "sidecar")
      /\ pc[s] \in Alone
      /\ p \in Paths /\ home[p] # Absent /\ store[d].made
      /\ store' = [store EXCEPT ![d] = e]
    BY DataAssumption
    DEF Move, At, TypeInv, JobOK, InFolder, OnFinding, Steps, local, Alone
<1>2. e \in Entry /\ e.made
  <2>1. store[d] \in Entry /\ home[p] \in Contents
    BY <1>1 DEF TypeInv, TypeOK
  <2> QED
    BY <1>1, <2>1 DEF Deposit, Entry
<1>3. store[d].file = Absent /\ \A t \in Sessions : t # s /\ pc[t] \in Alone => dir[t] # d
    BY <1>1 DEF FolderInv
<1>4. "sidecar" \notin Alone
    BY DEF Alone
<1>5. FolderInv'
    BY <1>1, <1>2, <1>3, <1>4, FolderChange
<1> QED
    BY <1>1, <1>3, <1>5, KeepsChange

LEMMA SidecarFolder ==
    ASSUME TypeInv, FolderInv, NEW s \in Sessions, WriteSidecar(s), ~Fails(s)
    PROVE  FolderInv' /\ Keeps
<1> DEFINE d == dir[s]
           e == [store[d] EXCEPT !.meta = Sidecar]
<1>1. /\ d \in Folders /\ UNCHANGED dir /\ Goto(s, "merge") /\ "merge" \notin Alone
      /\ store[d].made /\ store' = [store EXCEPT ![d].meta = Sidecar]
    BY DEF WriteSidecar, At, TypeInv, JobOK, InFolder, local, Alone
<1>2. /\ store' = [store EXCEPT ![d] = e]
      /\ e \in Entry /\ e.made = store[d].made /\ e.file = store[d].file
  <2>1. store[d] \in Entry
    BY <1>1 DEF TypeInv, TypeOK
  <2>2. e \in Entry /\ e.made = store[d].made /\ e.file = store[d].file
    BY <2>1 DEF Entry
  <2>3. store' = [store EXCEPT ![d] = e]
    BY <1>1
  <2> QED
    BY <2>2, <2>3
<1>3. FolderInv'
  <2>1. ASSUME NEW t \in Sessions, pc'[t] \in Alone
        PROVE  t # s /\ pc[t] \in Alone /\ dir[t] \in Folders
    BY <1>1, <2>1 DEF Goto, TypeInv, TypeOK, JobOK, Alone, InFolder
  <2>2. \A c \in Folders : store'[c].made = store[c].made /\ store'[c].file = store[c].file
    BY <1>2 DEF TypeInv, TypeOK
  <2> QED
    BY <1>1, <2>1, <2>2 DEF FolderInv
<1> QED
    BY <1>1, <1>2, <1>3, KeepsChange

LEMMA PutBackFolder ==
    ASSUME TypeInv, FolderInv, NEW s \in Sessions, PutBack(s), ~Fails(s)
    PROVE  FolderInv' /\ Keeps
<1> DEFINE d == dir[s]
           e == [store[d] EXCEPT !.file = Absent]
<1>1. /\ d \in Folders /\ UNCHANGED dir /\ Goto(s, "clear") /\ pc[s] = "putback"
      /\ store[d].made /\ store[d].file # Absent
      /\ store' = [store EXCEPT ![d].file = Absent]
    BY DEF PutBack, At, Restorable, TypeInv, JobOK, InFolder, local
<1>2. /\ store' = [store EXCEPT ![d] = e]
      /\ e \in Entry /\ e.made = store[d].made /\ e.file = Absent
  <2>1. store[d] \in Entry
    BY <1>1 DEF TypeInv, TypeOK
  <2>2. e \in Entry /\ e.made = store[d].made /\ e.file = Absent
    BY <2>1 DEF Entry
  <2>3. store' = [store EXCEPT ![d] = e]
    BY <1>1
  <2> QED
    BY <2>2, <2>3
<1>3. \A t \in Sessions : t # s /\ pc[t] \in Alone => dir[t] # d
    BY <1>1 DEF FolderInv
<1>4. FolderInv'
    BY <1>1, <1>2, <1>3, FolderChange
<1>5. Keeps
    BY <1>1, <1>2 DEF Keeps, TypeInv, TypeOK
<1> QED
    BY <1>4, <1>5

LEMMA ClearFolder ==
    ASSUME TypeInv, FolderInv, NEW s \in Sessions, Clear(s), ~Fails(s)
    PROVE  FolderInv' /\ Keeps
<1> DEFINE d == dir[s]
<1>1. /\ d \in Folders /\ UNCHANGED dir /\ Goto(s, "merge") /\ "merge" \notin Alone
      /\ pc[s] \in Alone
      /\ store' = [store EXCEPT ![d] = NoEntry] \/ UNCHANGED store
    BY DEF Clear, At, TypeInv, JobOK, InFolder, local, Alone
<1>2. CASE store' = [store EXCEPT ![d] = NoEntry]
  <2>1. /\ store[d].file = Absent
        /\ \A t \in Sessions : t # s /\ pc[t] \in Alone => dir[t] # d
    BY <1>1 DEF FolderInv
  <2>2. FolderInv'
    BY <1>1, <1>2, <2>1, NoEntryType, FolderChange DEF NoEntry
  <2> QED
    BY <1>1, <1>2, <2>1, <2>2, KeepsChange
<1>3. CASE UNCHANGED store
    BY <1>1, <1>3, FolderStay DEF Keeps
<1> QED
    BY <1>1, <1>2, <1>3

LEMMA FolderStep ==
    TypeInv /\ NoDelete /\ FolderInv /\ [Next]_vars => FolderInv' /\ Keeps
<1> SUFFICES ASSUME TypeInv, NoDelete, FolderInv, [Next]_vars PROVE FolderInv' /\ Keeps
    OBVIOUS
<1>1. UNCHANGED store => Keeps
    BY DEF Keeps
<1>2. CASE UNCHANGED vars
    BY <1>1, <1>2 DEF vars, FolderInv
<1>3. ASSUME NEW s \in Sessions, NEW op \in Operations, NEW f \in Findings,
             Request(s, op, f)
      PROVE  FolderInv' /\ Keeps
    BY <1>1, <1>3, FolderStay DEF Request, disk, Alone
<1>4. ASSUME NEW s \in Sessions, AutoRun(s) PROVE FolderInv' /\ Keeps
    BY <1>1, <1>4, FolderStay DEF AutoRun, disk, Alone
<1>5. ASSUME NEW s \in Sessions, End(s), UNCHANGED disk PROVE FolderInv' /\ Keeps
  <2>1. \A t \in Sessions : t # s => dir'[t] = dir[t]
    BY <1>5 DEF End, TypeInv, TypeOK
  <2> QED
    BY <1>1, <1>5, <2>1, FolderStay DEF End, disk, Alone
<1>6. ASSUME NEW s \in Sessions, Fails(s), UNCHANGED dir PROVE FolderInv' /\ Keeps
    BY <1>1, <1>6, FolderStay DEF Fails, disk, Alone
<1>7. ASSUME NEW s \in Sessions, Step(s) PROVE FolderInv' /\ Keeps
  <2>1. CASE Load(s)
    <3>1. job[s].op \in Operations
      BY <2>1 DEF Load, At, TypeInv, JobOK, OnFinding, Steps
    <3>2. FirstStep[job[s].op] \notin Alone
      BY <3>1 DEF FirstStep, Operations, Alone
    <3>3. UNCHANGED disk
      BY <2>1 DEF Load
    <3>4. CASE Permits(job[s].op, job[s].cur, View(s).finding[job[s].cur])
      <4>1. /\ Goto(s, FirstStep[job[s].op])
            /\ \A t \in Sessions : t # s => dir'[t] = dir[t]
        BY <2>1, <3>4 DEF Load, TypeInv, TypeOK
      <4> QED
        BY <1>1, <3>2, <3>3, <4>1, FolderStay DEF disk
    <3>5. CASE Goto(s, "next") /\ UNCHANGED local
      BY <1>1, <3>3, <3>5, FolderStay DEF disk, local, Alone
    <3> QED
      BY <1>5, <2>1, <3>3, <3>4, <3>5 DEF Load
  <2>2. CASE Check(s)
    <3>1. CASE Fails(s) /\ UNCHANGED dir
      BY <1>6, <3>1
    <3>2. CASE /\ dir' = [dir EXCEPT ![s] = FolderFor(s)]
               /\ Goto(s, "mkdir") /\ UNCHANGED disk
      <4>1. \A t \in Sessions : t # s => dir'[t] = dir[t]
        BY <3>2 DEF TypeInv, TypeOK
      <4> QED
        BY <1>1, <3>2, <4>1, FolderStay DEF disk, Alone
    <3> QED
      BY <2>2, <3>1, <3>2 DEF Check
  <2>3. CASE MkDir(s) \/ Move(s) \/ WriteSidecar(s) \/ PutBack(s) \/ Clear(s)
    <3>1. UNCHANGED dir
      BY <2>3 DEF MkDir, Move, WriteSidecar, PutBack, Clear, local
    <3>2. CASE Fails(s)
      BY <1>6, <3>1, <3>2
    <3>3. CASE ~Fails(s)
      BY <2>3, <3>3, MkDirFolder, MoveFolder, SidecarFolder, PutBackFolder, ClearFolder
    <3> QED
      BY <3>2, <3>3
  <2>4. CASE Locate(s)
    BY <1>1, <1>6, <2>4, FolderStay DEF Locate, disk, local, Alone
  <2>5. CASE Purge(s)
    BY <2>5 DEF Purge, At, NoDelete
  <2>6. CASE Merge(s) \/ AutoNext(s) \/ AutoTrip(s)
    BY <1>1, <2>6, FolderStay DEF Merge, AutoNext, AutoTrip, disk, Alone
  <2>7. CASE Write(s) \/ RecordFailure(s) \/ AutoFinish(s)
    BY <1>1, <2>7, FolderStay DEF Write, RecordFailure, AutoFinish, disk, local, Alone
  <2>8. CASE Raise(s) \/ Commit(s)
    BY <1>5, <2>8 DEF Raise, Commit
  <2> QED
    BY <1>7, <2>1, <2>2, <2>3, <2>4, <2>5, <2>6, <2>7, <2>8 DEF Step
<1>8. ASSUME NEW s \in Sessions, Die(s) PROVE FolderInv' /\ Keeps
    BY <1>5, <1>8 DEF Die
<1>9. ASSUME NEW p \in Paths, NEW c \in Contents \cup {Absent}, OwnerEdit(p, c)
      PROVE  FolderInv' /\ Keeps
    BY <1>1, <1>9 DEF OwnerEdit, local, FolderInv
<1> QED
    BY <1>2, <1>3, <1>4, <1>7, <1>8, <1>9 DEF Next

(* As long as delete is not among the requests, no quarantine ever overwrites *)
(* the file of another one: what an incident folder holds leaves it only when *)
(* a restore moves it back, whatever sessions overlap, fail or die.           *)
THEOREM FoldersKept ==
    ASSUME "delete" \notin Requests
    PROVE  Spec => OnlyRestoreEmpties
<1>1. TypeInv /\ NoDelete /\ FolderInv /\ [Next]_vars => (NoDelete /\ FolderInv)'
    BY NoDeleteStep, FolderStep
<1>2. Spec => [](NoDelete /\ FolderInv)
    BY <1>1, InitFolder, TypeInvAlways, PTL DEF Spec
<1>3. TypeInv /\ NoDelete /\ FolderInv /\ [Next]_vars => [Keeps]_store
    BY FolderStep
<1>4. Spec => [][Keeps]_store
    BY <1>2, <1>3, TypeInvAlways, PTL DEF Spec
<1> QED
    BY <1>4 DEF OnlyRestoreEmpties, Keeps
================================================================================
