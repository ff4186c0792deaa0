------------------------------ MODULE Remediation ------------------------------
(* Remediation of integrity findings: quarantine, restore, delete,            *)
(* acknowledge and the unattended auto-quarantine job, as the API, the worker *)
(* and the CLI run them side by side.                                         *)
(*                                                                            *)
(* One element of Sessions is one use-case execution: it owns one database    *)
(* session, serves one request and ends.  Its filesystem effects are          *)
(* immediate; its database effects stay in `draft` until it commits.  SQLite  *)
(* admits one writer: a SELECT sees the last commit, the first INSERT or      *)
(* UPDATE takes the write lock and keeps it until commit or rollback.  Steps  *)
(* of a session that nobody else can observe (everything it writes after it   *)
(* has the lock) are one action.                                              *)
EXTENDS Integers, FiniteSets

CONSTANTS
    Findings,      \* integrity findings
    Paths,         \* files of the accounts' home directories
    Accounts,      \* cPanel accounts
    Names,         \* base names of files
    Contents,      \* what a file can hold (its bytes, and so its SHA-256)
    Sessions,      \* one-shot use-case executions
    PathOf,        \* [Findings -> Paths]
    AccountOf,     \* [Paths -> Accounts]
    NameOf,        \* [Paths -> Names]
    Detected,      \* [Findings -> Contents \cup {Absent}]: current_sha256
    DetectedAt,    \* [Findings -> Nat]: detected_at, to the second
    Critical,      \* findings of severity CRITICAL inside the lookback window
    Covered,       \* the paths integrity scans cover, which have a baseline
    ProcessOf,     \* [Sessions -> Processes]
    Requests,      \* the operations this instance exercises
    Mode,          \* SENTINEL_MODE
    Cap,           \* auto_quarantine_max_per_account_per_run
    Overlap,       \* may anything happen while a session runs?
    OwnerEdits,    \* may the account's owner (or site) write and remove files?
    FsFaults,      \* may a filesystem call fail with an OSError?
    SessionsDie,   \* may a session die (crash, busy timeout, failed commit)?
    Absent,        \* no file; no hash
    Sidecar,       \* the text Sentinel writes into metadata.json
    SidecarName,   \* the base name "metadata.json"
    None           \* no folder, no finding, no session

Processes == {"api", "worker", "cli"}
Operations == {"quarantine", "restore", "delete", "acknowledge", "auto"}

ASSUME DataAssumption ==
    /\ PathOf \in [Findings -> Paths]
    /\ AccountOf \in [Paths -> Accounts]
    /\ NameOf \in [Paths -> Names]
    /\ Detected \in [Findings -> Contents \cup {Absent}]
    /\ DetectedAt \in [Findings -> Nat]
    /\ Critical \subseteq Findings
    /\ Covered \subseteq Paths

(* The findings are the rows of a table.                                      *)
ASSUME TableAssumption == IsFiniteSet(Findings)

ASSUME ProcessAssumption ==
    /\ ProcessOf \in [Sessions -> Processes]
    /\ Requests \subseteq Operations
    /\ Mode \in {"observe", "manual", "active"}
    /\ Cap \in Nat
    /\ {Overlap, OwnerEdits, FsFaults, SessionsDie} \subseteq BOOLEAN

ASSUME SentinelAssumption ==
    /\ Absent \notin Contents
    /\ Sidecar \notin Contents \cup {Absent}
    /\ None \notin Findings \cup Sessions \cup Operations

VARIABLES
    home,     \* the files on the accounts' disks
    store,    \* the quarantine root: its incident folders
    db,       \* the committed rows
    draft,    \* the rows as the write-lock holder sees them
    writer,   \* the session that holds SQLite's write lock, or None
    pc,       \* the next step of each session
    job,      \* what each session was asked for and has left to do
    ent,      \* the finding entity a session loaded
    seen,     \* the rows a session's merge compared its entity with
    dir,      \* the incident folder a session works on
    taken     \* history: the bytes a finding's last quarantine moved away

disk == <<home, store, taken>>
rows == <<db, draft, writer>>
local == <<job, ent, seen, dir>>
vars == <<home, store, db, draft, writer, pc, job, ent, seen, dir, taken>>

--------------------------------------------------------------------------------
(* Data.                                                                      *)

States == {"NONE", "QUARANTINED", "RESTORED", "DELETED"}

(* An incident folder: {account}/{detected_at}-{basename}, and the same with  *)
(* a suffix that is unique to one attempt (a uuid4) when that name is taken.  *)
Folder(f, s) == [account |-> AccountOf[PathOf[f]], at |-> DetectedAt[f],
                 name |-> NameOf[PathOf[f]], suffix |-> s]
Folders == {Folder(f, s) : f \in Findings, s \in Sessions \cup {None}}

(* What a folder holds: the entry called metadata.json and the other one.     *)
Entry == [made : BOOLEAN, file : Contents \cup {Absent},
          meta : Contents \cup {Absent, Sidecar}]
NoEntry == [made |-> FALSE, file |-> Absent, meta |-> Absent]

(* The columns of integrity_findings that change.  quarantine_path stands for *)
(* the five quarantine_* columns, which are set and cleared together.         *)
Row == [state : States, folder : Folders \cup {None}, ack : BOOLEAN]
NewRow == [state |-> "NONE", folder |-> None, ack |-> FALSE]

(* A file_baselines row; a path with no row has no hash.                      *)
Baseline == [sha : Contents \cup {Absent}, active : BOOLEAN]
NoBaseline == [sha |-> Absent, active |-> FALSE]

AuditRow(f, action, outcome) ==
    [finding |-> f, action |-> action, outcome |-> outcome]
AuditRows == [finding : Findings, action : {"QUARANTINE", "RESTORE", "DELETE"},
              outcome : {"SUCCEEDED", "FAILED"}]

(* The tables: findings, baselines, remediation_actions, and the accounts     *)
(* with an auto_quarantine_circuit_breaker_tripped event.                     *)
Tables == [finding : [Findings -> Row], baseline : [Paths -> Baseline],
           audit : SUBSET AuditRows, alert : SUBSET Accounts]

Job == [op : Operations \cup {None}, cur : Findings \cup {None},
        todo : SUBSET Findings, over : SUBSET Accounts]
NoJob == [op |-> None, cur |-> None, todo |-> {}, over |-> {}]
Seen == [row : Row, baseline : Baseline]
NoSeen == [row |-> NewRow, baseline |-> NoBaseline]

Steps == {"idle", "load", "check", "mkdir", "move", "sidecar", "locate",
          "putback", "clear", "purge", "merge", "write", "fail", "raise",
          "next", "commit", "done"}

TypeOK ==
    /\ home \in [Paths -> Contents \cup {Absent}]
    /\ store \in [Folders -> Entry]
    /\ db \in Tables
    /\ draft \in Tables
    /\ writer \in Sessions \cup {None}
    /\ pc \in [Sessions -> Steps]
    /\ job \in [Sessions -> Job]
    /\ ent \in [Sessions -> Row]
    /\ seen \in [Sessions -> Seen]
    /\ dir \in [Sessions -> Folders \cup {None}]
    /\ taken \in [Findings -> Contents \cup {Absent}]

--------------------------------------------------------------------------------
(* Initially a scan has just committed the findings: each file is as one of   *)
(* the findings saw it, and has an active baseline with that hash unless no   *)
(* integrity scan covers it (a forensic finding in an excluded directory).    *)
Init ==
    /\ home \in [Paths -> Contents \cup {Absent}]
    /\ \A p \in Paths : \E f \in Findings : PathOf[f] = p /\ home[p] = Detected[f]
    /\ store = [d \in Folders |-> NoEntry]
    /\ db = [finding  |-> [f \in Findings |-> NewRow],
             baseline |-> [p \in Paths |->
                 IF p \in Covered /\ home[p] # Absent
                 THEN [sha |-> home[p], active |-> TRUE] ELSE NoBaseline],
             audit    |-> {},
             alert    |-> {}]
    /\ draft = db
    /\ writer = None
    /\ pc = [s \in Sessions |-> "idle"]
    /\ job = [s \in Sessions |-> NoJob]
    /\ ent = [s \in Sessions |-> NewRow]
    /\ seen = [s \in Sessions |-> NoSeen]
    /\ dir = [s \in Sessions |-> None]
    /\ taken = [f \in Findings |-> Absent]

--------------------------------------------------------------------------------
(* Sessions.                                                                  *)

(* What a session reads: its own uncommitted rows once it holds the write     *)
(* lock, the last commit otherwise.                                           *)
View(s) == IF writer = s THEN draft ELSE db

(* The steps between which a remediator never awaits: the rest of its process *)
(* stands still while a session is at one of them.                            *)
OnDisk == {"mkdir", "move", "sidecar", "putback", "clear"}

At(s, step) ==
    /\ pc[s] = step
    /\ \A t \in Sessions \ {s} :
          ProcessOf[t] = ProcessOf[s] => pc[t] \notin OnDisk

Goto(s, step) == pc' = [pc EXCEPT ![s] = step]

(* The session ends: its response is sent, or its exception propagates.       *)
End(s) ==
    /\ Goto(s, "done")
    /\ job' = [job EXCEPT ![s] = NoJob]
    /\ ent' = [ent EXCEPT ![s] = NewRow]
    /\ seen' = [seen EXCEPT ![s] = NoSeen]
    /\ dir' = [dir EXCEPT ![s] = None]

AtRest == \A s \in Sessions : pc[s] \in {"idle", "done"}

MayStart(s) == At(s, "idle") /\ (Overlap \/ AtRest)

(* Which process offers which operation.                                      *)
Offered ==
    [api |-> {"quarantine", "restore", "delete", "acknowledge"},
     cli |-> {"restore"}, worker |-> {"auto"}]

(* SENTINEL_MODE: observe refuses every mutation, auto needs active.          *)
Allowed(op) ==
    /\ op = "auto" => Mode = "active"
    /\ op \in {"quarantine", "restore", "delete"} => Mode # "observe"

(* Slip: only a finding that is quarantined now is refused.                   *)
PermitsAgain(op, f, row) ==
    /\ op \in {"quarantine", "auto"} => row.state # "QUARANTINED" /\ Detected[f] # Absent
    /\ op \in {"restore", "delete"}  => row.state = "QUARANTINED" /\ row.folder # None

(* ensure_can_quarantine, ensure_can_restore, ensure_can_delete, with the     *)
(* assertions that follow them.                                               *)
Permits(op, f, row) ==
    /\ op \in {"quarantine", "auto"} => row.state = "NONE" /\ Detected[f] # Absent
    /\ op \in {"restore", "delete"}  => row.state = "QUARANTINED" /\ row.folder # None

FirstStep ==
    [quarantine |-> "check", auto |-> "check", restore |-> "locate",
     delete |-> "purge", acknowledge |-> "merge"]

(* An authenticated request (API, dashboard or CLI) for one finding.          *)
Request(s, op, f) ==
    /\ MayStart(s)
    /\ op \in (Offered[ProcessOf[s]] \cap Requests) \ {"auto"}
    /\ Allowed(op)
    /\ job' = [job EXCEPT ![s] = [op |-> op, cur |-> f, todo |-> {}, over |-> {}]]
    /\ Goto(s, "load")
    /\ UNCHANGED <<disk, rows, ent, seen, dir>>

OfAccount(F, a) == {f \in F : AccountOf[PathOf[f]] = a}

SameAccount(f, g) == AccountOf[PathOf[f]] = AccountOf[PathOf[g]]

Oldest(F) == {f \in F : \A g \in F : DetectedAt[f] <= DetectedAt[g]}

(* Slip: the cap is left out.                                                 *)
BatchOfAll(E, B) == B = E

(* B is what a run attempts of the eligible findings E: of each account the   *)
(* oldest, as many as the cap allows.                                         *)
Batch(E, B) ==
    \A a \in Accounts :
       LET n == Cardinality(OfAccount(E, a))
       IN  /\ Cardinality(OfAccount(B, a)) = IF n < Cap THEN n ELSE Cap
           /\ \A f \in OfAccount(B, a), g \in OfAccount(E \ B, a) :
                 DetectedAt[f] <= DetectedAt[g]

(* A tick of the auto-quarantine job; one instance of it runs at a time.      *)
AutoRun(s) ==
    /\ MayStart(s)
    /\ "auto" \in Offered[ProcessOf[s]] \cap Requests
    /\ Allowed("auto")
    /\ \A t \in Sessions : job[t].op # "auto"
    /\ LET E == {f \in Critical : db.finding[f].state = "NONE"}
       IN  /\ E # {}
           /\ \E B \in SUBSET E :
                 /\ Batch(E, B)
                 /\ job' = [job EXCEPT ![s] =
                       [op |-> "auto", cur |-> None, todo |-> B,
                        over |-> {a \in Accounts : OfAccount(E \ B, a) # {}}]]
    /\ Goto(s, "next")
    /\ UNCHANGED <<disk, rows, ent, seen, dir>>

(* The entity is loaded and the state machine asked; a rejection leaves no    *)
(* row.  The job goes on with the next finding, a request ends.               *)
Load(s) ==
    /\ At(s, "load")
    /\ LET op == job[s].op
           row == View(s).finding[job[s].cur]
       IN  IF Permits(op, job[s].cur, row)
           THEN /\ ent' = [ent EXCEPT ![s] = row]
                /\ dir' = [dir EXCEPT ![s] = row.folder]
                /\ Goto(s, FirstStep[op])
                /\ UNCHANGED <<job, seen>>
           ELSE IF op = "auto"
                THEN Goto(s, "next") /\ UNCHANGED local
                ELSE End(s)
    /\ UNCHANGED <<disk, rows>>

--------------------------------------------------------------------------------
(* The filesystem.  A failure is a FileRemediationError.                      *)

Fails(s) == Goto(s, "fail") /\ UNCHANGED disk

(* Where the bytes of path p lie in an incident folder.  A file that is       *)
(* itself called metadata.json lies where Sentinel then writes its sidecar.   *)
Deposit(entry, p, c) ==
    IF NameOf[p] = SidecarName THEN [entry EXCEPT !.meta = c]
                               ELSE [entry EXCEPT !.file = c]
Deposited(entry, p) == IF NameOf[p] = SidecarName THEN entry.meta ELSE entry.file

(* is_file, hash, and the choice of a folder name that does not exist yet.    *)
FolderFor(s) ==
    LET f == job[s].cur
    IN  IF store[Folder(f, None)].made THEN Folder(f, s) ELSE Folder(f, None)

Check(s) ==
    /\ At(s, "check")
    /\ \/ /\ home[PathOf[job[s].cur]] # Absent
          /\ dir' = [dir EXCEPT ![s] = FolderFor(s)]
          /\ Goto(s, "mkdir")
          /\ UNCHANGED disk
       \/ /\ home[PathOf[job[s].cur]] = Absent \/ FsFaults
          /\ Fails(s)
          /\ UNCHANGED dir
    /\ UNCHANGED <<rows, job, ent, seen>>

(* Slip: mkdir(exist_ok=True).                                                *)
CanMakeAlways(d) == TRUE

(* mkdir(exist_ok=False)                                                      *)
CanMake(d) == ~store[d].made

MkDir(s) ==
    /\ At(s, "mkdir")
    /\ \/ /\ CanMake(dir[s])
          /\ store' = [store EXCEPT ![dir[s]].made = TRUE]
          /\ Goto(s, "move")
          /\ UNCHANGED <<home, taken>>
       \/ ~CanMake(dir[s]) /\ Fails(s)
       \/ FsFaults /\ Fails(s)
    /\ UNCHANGED <<rows, local>>

Move(s) ==
    /\ At(s, "move")
    /\ LET p == PathOf[job[s].cur]
           possible == home[p] # Absent /\ store[dir[s]].made
       IN  \/ /\ possible
              /\ store' = [store EXCEPT ![dir[s]] = Deposit(@, p, home[p])]
              /\ taken' = [taken EXCEPT ![job[s].cur] = home[p]]
              /\ home' = [home EXCEPT ![p] = Absent]
              /\ Goto(s, "sidecar")
           \/ ~possible /\ Fails(s)
           \/ FsFaults /\ Fails(s)
    /\ UNCHANGED <<rows, local>>

(* chmod, then metadata.json is written.                                      *)
WriteSidecar(s) ==
    /\ At(s, "sidecar")
    /\ LET possible == /\ store[dir[s]].made
                       /\ Deposited(store[dir[s]], PathOf[job[s].cur]) # Absent
       IN  \/ /\ possible
              /\ store' = [store EXCEPT ![dir[s]].meta = Sidecar]
              /\ Goto(s, "merge")
              /\ UNCHANGED <<home, taken>>
           \/ ~possible /\ Fails(s)
           \/ FsFaults /\ Fails(s)
    /\ UNCHANGED <<rows, local>>

(* The folder exists and holds exactly one entry beside metadata.json.        *)
Restorable(d) == store[d].made /\ store[d].file # Absent

Locate(s) ==
    /\ At(s, "locate")
    /\ \/ /\ Restorable(dir[s])
          /\ Goto(s, "putback")
          /\ UNCHANGED disk
       \/ ~Restorable(dir[s]) /\ Fails(s)
       \/ FsFaults /\ Fails(s)
    /\ UNCHANGED <<rows, local>>

(* shutil.move: whatever is at the destination is replaced.                   *)
PutBack(s) ==
    /\ At(s, "putback")
    /\ \/ /\ Restorable(dir[s])
          /\ home' = [home EXCEPT ![PathOf[job[s].cur]] = store[dir[s]].file]
          /\ store' = [store EXCEPT ![dir[s]].file = Absent]
          /\ Goto(s, "clear")
          /\ UNCHANGED taken
       \/ ~Restorable(dir[s]) /\ Fails(s)
       \/ FsFaults /\ Fails(s)
    /\ UNCHANGED <<rows, local>>

(* chmod and chown of the restored file, then rmtree(ignore_errors).          *)
Clear(s) ==
    /\ At(s, "clear")
    /\ LET possible == home[PathOf[job[s].cur]] # Absent
       IN  \/ /\ possible
              /\ \/ store' = [store EXCEPT ![dir[s]] = NoEntry]
                 \/ FsFaults /\ UNCHANGED store
              /\ Goto(s, "merge")
              /\ UNCHANGED <<home, taken>>
           \/ ~possible /\ Fails(s)
           \/ FsFaults /\ Fails(s)
    /\ UNCHANGED <<rows, local>>

(* rmtree; a missing folder is not an error, and an error may leave part.     *)
Purge(s) ==
    /\ At(s, "purge")
    /\ \/ /\ store' = [store EXCEPT ![dir[s]] = NoEntry]
          /\ Goto(s, "merge")
          /\ UNCHANGED <<home, taken>>
       \/ /\ FsFaults /\ store[dir[s]].made
          /\ store' = [store EXCEPT ![dir[s]].file = Absent]
          /\ Goto(s, "fail")
          /\ UNCHANGED <<home, taken>>
       \/ FsFaults /\ store[dir[s]].made /\ Fails(s)
    /\ UNCHANGED <<rows, local>>

--------------------------------------------------------------------------------
(* The database.                                                              *)

(* session.merge: the row is read again just before it is written, and only   *)
(* columns of the entity that differ from that reading are in the UPDATE.     *)
Merge(s) ==
    /\ At(s, "merge")
    /\ seen' = [seen EXCEPT ![s] =
          [row |-> View(s).finding[job[s].cur],
           baseline |-> View(s).baseline[PathOf[job[s].cur]]]]
    /\ Goto(s, "write")
    /\ UNCHANGED <<disk, rows, job, ent, dir>>

Column(new, read, current) == IF new # read THEN new ELSE current

MergedRow(new, read, current) ==
    [state  |-> Column(new.state, read.state, current.state),
     folder |-> Column(new.folder, read.folder, current.folder),
     ack    |-> Column(new.ack, read.ack, current.ack)]

Outcome ==
    [quarantine |-> "QUARANTINED", auto |-> "QUARANTINED",
     restore |-> "RESTORED", delete |-> "DELETED"]

(* Slips: restore() is not called on the entity; the path is recorded without *)
(* its suffix.                                                                *)
ChangedUnlessRestored(op, row, d) ==
    IF op \in {"restore", "acknowledge"} THEN row
    ELSE [state  |-> Outcome[op],
          folder |-> IF op = "delete" THEN None ELSE d,
          ack    |-> row.ack]

ChangedUnsuffixed(op, row, d) ==
    [state  |-> IF op = "acknowledge" THEN row.state ELSE Outcome[op],
     folder |-> IF op = "acknowledge" THEN row.folder
                ELSE IF op \in {"restore", "delete"} THEN None
                ELSE [d EXCEPT !.suffix = None],
     ack    |-> row.ack \/ op = "acknowledge"]

(* The entity after its quarantine, restore, delete or acknowledge method.    *)
Changed(op, row, d) ==
    [state  |-> IF op = "acknowledge" THEN row.state ELSE Outcome[op],
     folder |-> IF op = "acknowledge" THEN row.folder
                ELSE IF op \in {"restore", "delete"} THEN None ELSE d,
     ack    |-> row.ack \/ op = "acknowledge"]

(* A restore that finds a baseline row saves that row first, and so compares  *)
(* the finding when it already has the write lock.                            *)
ReadOf(s, current) ==
    IF job[s].op = "restore" /\ seen[s].baseline.sha # Absent THEN current ELSE seen[s].row

(* Slip: the baseline is left alone by a quarantine.                          *)
ChangedBaselineOnRestore(op, f, read, current) ==
    IF op = "restore" /\ read.sha # Absent
    THEN [sha    |-> Column(Detected[f], read.sha, current.sha),
          active |-> Column(TRUE, read.active, current.active)]
    ELSE current

(* The baseline is deactivated by a quarantine; a restore reactivates it with *)
(* the hash of the detection.                                                 *)
ChangedBaseline(op, f, read, current) ==
    IF op \in {"quarantine", "auto"} THEN [current EXCEPT !.active = FALSE]
    ELSE IF op = "restore" /\ read.sha # Absent
    THEN [sha    |-> Column(Detected[f], read.sha, current.sha),
          active |-> Column(TRUE, read.active, current.active)]
    ELSE current

(* Slips: the enum's name is not looked up; delete records a restore.         *)
ActionOfRaw(op) == op
ActionOfCopied(op) == IF op \in {"restore", "delete"} THEN "RESTORE" ELSE "QUARANTINE"

ActionOf(op) ==
    IF op = "restore" THEN "RESTORE" ELSE IF op = "delete" THEN "DELETE" ELSE "QUARANTINE"

AuditOf(op, f, outcome) ==
    IF op = "acknowledge" THEN {} ELSE {AuditRow(f, ActionOf(op), outcome)}

Lock(s) == writer \in {None, s} /\ writer' = s

(* Save the finding, save the baseline, record the action.                    *)
Write(s) ==
    /\ At(s, "write")
    /\ Lock(s)
    /\ LET op == job[s].op
           f == job[s].cur
           p == PathOf[f]
           old == View(s)
       IN  /\ draft' =
                [finding  |-> [old.finding EXCEPT ![f] =
                     MergedRow(Changed(op, ent[s], dir[s]), ReadOf(s, @), @)],
                 baseline |-> [old.baseline EXCEPT ![p] =
                     ChangedBaseline(op, f, seen[s].baseline, @)],
                 audit    |-> old.audit \cup AuditOf(op, f, "SUCCEEDED"),
                 alert    |-> old.alert]
           /\ Goto(s, IF op = "auto" THEN "next" ELSE "commit")
    /\ UNCHANGED <<disk, db, local>>

(* A FileRemediationError is recorded and raised again; only the job catches  *)
(* it.                                                                        *)
RecordFailure(s) ==
    /\ At(s, "fail")
    /\ Lock(s)
    /\ draft' = [View(s) EXCEPT !.audit =
                    @ \cup AuditOf(job[s].op, job[s].cur, "FAILED")]
    /\ Goto(s, IF job[s].op = "auto" THEN "next" ELSE "raise")
    /\ UNCHANGED <<disk, db, local>>

(* Slip: the session is never closed.                                         *)
RaiseUnclosed(s) ==
    /\ At(s, "raise")
    /\ End(s)
    /\ UNCHANGED <<disk, rows>>

(* The exception leaves the request handler: the session rolls back.          *)
Raise(s) ==
    /\ At(s, "raise")
    /\ writer' = None
    /\ draft' = db
    /\ End(s)
    /\ UNCHANGED <<disk, db>>

(* The job goes account by account, beginning with the oldest finding: what   *)
(* is left of the account under way comes before the next account.            *)
Turn(s) ==
    LET left == job[s].todo
        here == {f \in left : job[s].cur # None /\ SameAccount(f, job[s].cur)}
    IN  IF here # {} THEN here ELSE left

(* The accounts that are through and have findings beyond the cap.            *)
Tripped(s) == {a \in job[s].over : OfAccount(job[s].todo, a) = {}}

AutoNext(s) ==
    /\ At(s, "next")
    /\ Tripped(s) = {}
    /\ \E f \in Oldest(Turn(s)) :
          job' = [job EXCEPT ![s].cur = f, ![s].todo = @ \ {f}]
    /\ Goto(s, "load")
    /\ UNCHANGED <<disk, rows, ent, seen, dir>>

(* The circuit-breaker event of an account, after its last finding.           *)
AutoTrip(s) ==
    /\ At(s, "next")
    /\ \E a \in Tripped(s) :
          /\ draft' = [View(s) EXCEPT !.alert = @ \cup {a}]
          /\ job' = [job EXCEPT ![s].over = @ \ {a}]
    /\ Lock(s)
    /\ Goto(s, "next")
    /\ UNCHANGED <<disk, db, ent, seen, dir>>

AutoFinish(s) ==
    /\ At(s, "next")
    /\ job[s].todo = {}
    /\ job[s].over = {}
    /\ Goto(s, "commit")
    /\ UNCHANGED <<disk, rows, local>>

(* The session's owner commits: get_db_session after a handler that returned, *)
(* _run_tracked after a job, the CLI command itself.                          *)
Commit(s) ==
    /\ At(s, "commit")
    /\ IF writer = s
       THEN db' = draft /\ writer' = None
       ELSE UNCHANGED <<db, writer>>
    /\ End(s)
    /\ UNCHANGED <<disk, draft>>

(* A crash, "database is locked" after the busy timeout, a failed commit, a   *)
(* cancelled request: SQLite undoes what the session had not committed.       *)
Die(s) ==
    /\ SessionsDie
    /\ pc[s] \notin {"idle", "done"}
    /\ IF writer = s
       THEN writer' = None /\ draft' = db
       ELSE UNCHANGED <<draft, writer>>
    /\ End(s)
    /\ UNCHANGED <<disk, db>>

(* The account's owner, or the site, creates, replaces or removes a file.     *)
OwnerEdit(p, c) ==
    /\ OwnerEdits
    /\ Overlap \/ AtRest
    /\ home[p] # c
    /\ home' = [home EXCEPT ![p] = c]
    /\ UNCHANGED <<store, taken, rows, pc, local>>

--------------------------------------------------------------------------------

Step(s) ==
    \/ Load(s) \/ Check(s) \/ MkDir(s) \/ Move(s) \/ WriteSidecar(s)
    \/ Locate(s) \/ PutBack(s) \/ Clear(s) \/ Purge(s)
    \/ Merge(s) \/ Write(s) \/ RecordFailure(s) \/ Raise(s)
    \/ AutoNext(s) \/ AutoTrip(s) \/ AutoFinish(s) \/ Commit(s)

Next ==
    \/ \E s \in Sessions, op \in Operations, f \in Findings : Request(s, op, f)
    \/ \E s \in Sessions : AutoRun(s) \/ Step(s) \/ Die(s)
    \/ \E p \in Paths, c \in Contents \cup {Absent} : OwnerEdit(p, c)

Spec == Init /\ [][Next]_vars

(* The event loops and the busy handler let every session that has begun take *)
(* its next step; nobody is obliged to send a request.                        *)
FairSpec == Spec /\ \A s \in Sessions : WF_vars(Step(s))

--------------------------------------------------------------------------------
(* Properties.                                                                *)

(* The audit trail a state rests on.                                          *)
Trail ==
    [NONE |-> {}, QUARANTINED |-> {"QUARANTINE"},
     RESTORED |-> {"QUARANTINE", "RESTORE"}, DELETED |-> {"QUARANTINE", "DELETE"}]

Backed(tables, f, state) ==
    \A action \in Trail[state] : AuditRow(f, action, "SUCCEEDED") \in tables.audit

(* Every committed remediation state has the successful actions that lead to  *)
(* it in remediation_actions, whatever sessions overlap, overwrite each       *)
(* other's rows or die: finding, baseline and audit row share a transaction.  *)
AuditBacksState ==
    \A f \in Findings : Backed(db, f, db.finding[f].state)

(* Quarantines never overwrite each other: as long as nobody deletes, the     *)
(* bytes in an incident folder leave it only when a restore of a row that     *)
(* names the folder moves them back.  mkdir(exist_ok=False) is what keeps a   *)
(* second quarantine out of a folder already in use, whoever fails or dies.   *)
OnlyRestoreEmpties ==
    [][\A d \in Folders :
          store[d].file # Absent /\ store'[d].file # store[d].file =>
             \E s \in Sessions : dir[s] = d /\ pc[s] = "putback"]_store

(* One transaction quarantines at most Cap findings of an account (or the one *)
(* a request names); when it quarantines Cap of them and leaves a critical    *)
(* finding of the account that nobody has acknowledged, the same transaction  *)
(* or an earlier one has raised the account's circuit-breaker event.          *)
Quarantines(a) ==
    {f \in Findings : /\ AccountOf[PathOf[f]] = a
                      /\ db.finding[f].state = "NONE"
                      /\ db'.finding[f].state = "QUARANTINED"}

LeftOver(a) ==
    {f \in OfAccount(Critical, a) : /\ db'.finding[f].state = "NONE"
                                    /\ ~db'.finding[f].ack}

CircuitBreaker ==
    [][\A a \in Accounts :
          Cardinality(Quarantines(a)) > 1 =>
             /\ Cardinality(Quarantines(a)) <= Cap
             /\ Cardinality(Quarantines(a)) = Cap /\ LeftOver(a) # {} =>
                   a \in db'.alert]_db

(* Every session that begins ends, so that the system keeps coming to rest:   *)
(* no session keeps the write lock, and none waits for it forever.            *)
ComesToRest == []<>AtRest

(* At rest, the file behind a QUARANTINED row is in the folder that row       *)
(* names, restorable, and is what the quarantine took: "quarantine is always  *)
(* reversible".                                                               *)
Reversible ==
    AtRest => \A f \in Findings :
       db.finding[f].state = "QUARANTINED" =>
          /\ Restorable(db.finding[f].folder)
          /\ store[db.finding[f].folder].file = taken[f]

(* What a restore puts at a finding's path are the bytes that finding's       *)
(* quarantine took from there.                                                *)
RestoresWhatWasTaken ==
    [][\A s \in Sessions :
          pc[s] = "putback" /\ pc'[s] = "clear" =>
             home'[PathOf[job[s].cur]] = taken[job[s].cur]]_vars

(* The transaction that quarantines a finding leaves its baseline inactive,   *)
(* so that the next scan does not report Sentinel's own move as a deletion.   *)
QuarantineRetiresBaseline ==
    [][\A f \in Findings :
          db.finding[f].state # "QUARANTINED" /\ db'.finding[f].state = "QUARANTINED" =>
             ~db'.baseline[PathOf[f]].active]_db

(* RESTORED and DELETED are dead ends: no commit takes a finding out of them. *)
DeadEnds ==
    [][\A f \in Findings :
          db.finding[f].state \in {"RESTORED", "DELETED"} =>
             db'.finding[f].state = db.finding[f].state]_db

(* Every remediation attempt that reached the filesystem and failed leaves a  *)
(* FAILED row behind when its session is over.                                *)
FailuresAreAudited ==
    [][\A s \in Sessions :
          pc[s] \in {"fail", "raise"} /\ pc'[s] = "done" =>
             AuditRow(job[s].cur, ActionOf(job[s].op), "FAILED") \in db'.audit]_vars

(* The committed rows implement the abstract lifecycle.                       *)
Lifecycle == INSTANCE FindingLifecycle WITH
    state <- [f \in Findings |-> db.finding[f].state],
    holds <- [f \in Findings |-> db.finding[f].folder],
    acked <- {f \in Findings : db.finding[f].ack}

ImplementsLifecycle == Lifecycle!Spec
================================================================================
