# KloudSentinel in TLA+

KloudSentinel watches the home directories of a cPanel server's accounts,
reports files that changed or look malicious, correlates what it reports, and can
move files into a quarantine. It acts on other people's files as root, partly unattended, from
three processes at once. These modules model that code, check it with TLC and
prove the central results with TLAPS.

Paths in sections 1 and 2 are relative to the package, `src/sentinel/` in the repository.
`PROJECT.json` names files and lines with one more leading `src/`, the checkout's
directory.

1. [The system](#1-the-system)
2. [What is modelled](#2-what-is-modelled)
3. [Runs, bounds and what they show](#3-runs-bounds-and-what-they-show)
4. [Where the code and its documentation disagree](#4-where-the-code-and-its-documentation-disagree)
5. [Fairness](#5-fairness)
6. [Proofs](#6-proofs)
7. [What is only model-checked, and what is left out](#7-what-is-only-model-checked-and-what-is-left-out)
8. [What would come next](#8-what-would-come-next)
9. [Running it](#9-running-it)

## 1. The system

### Processes and what they share

| process | entry point | what it runs |
|---|---|---|
| API | `bootstrap.py`, `api/v1/`, `web/routes/` | REST endpoints and dashboards; one asyncio loop; "Run Now" executes detection jobs in this process |
| worker | `worker.py`, `infrastructure/scheduler/` | APScheduler with one asyncio loop; detection, correlation and auto-quarantine jobs |
| CLI | `cli.py` | one command per process: `sentinel restore`, status, lists |

They share a SQLite database (WAL, 30 s busy timeout, foreign keys on:
`infrastructure/persistence/database.py`), the accounts' home directories and the
quarantine root. There is no message bus, no lock file and no row version:
whatever ordering there is comes from SQLite's single writer and from the
atomicity of single filesystem calls. Within one process asyncio gives a second
kind of atomicity: the filesystem adapter's methods are `async def` with no await
inside, so code between two awaits is never interleaved with other work of the
same process, but is interleaved with the other processes.

### Components

For each: the state it keeps, its operations, what makes it hard, and what
makes it correct.

**Remediation use cases** (`application/integrity/use_cases.py` 300-672,
`application/integrity/queries.py`, `domain/integrity/`). State: the
`remediation_state`, quarantine columns and acknowledgement of each
`integrity_findings` row; `remediation_actions`; the baseline's `is_active`.
Operations: quarantine, restore, delete, acknowledge, auto-quarantine. Hard: the filesystem
effect precedes the commit; the entity is stale when it is merged; three
processes; partial failure. Correct when: a finding is taken at most once and
comes back intact, every state has its audit trail, the unattended job keeps to
its cap.

**Quarantine store** (`infrastructure/filesystem/_quarantine_ops.py`,
`file_remediator.py`). State: incident folders
`{account}/{detected_at}-{basename}` with one file and `metadata.json`. Operations:
`quarantine_file`, `restore_file`, `delete_quarantined_file`. Hard: exists-then-mkdir,
several calls per operation, reuse of names. Correct when: no file is ever
overwritten or lost by another quarantine.

**Persistence** (`infrastructure/persistence/`, `api/dependencies.py` `get_db_session`).
State: one `AsyncSession` per request or job. Operations: load, merge
(column-wise update of a re-read row), add, commit, rollback. Hard: lost updates,
rollback of things meant to survive. Correct when: what belongs together commits
together.

**Integrity scan** (`application/integrity/use_cases.py` 60-281). State:
`file_baselines`, new findings, detection events. Operations: one scan over all
accounts in one transaction; the disk is walked *before* the baselines are read;
the first scan of an account is silent; ADDED, MODIFIED, PERMISSIONS_CHANGED,
DELETED; an inactive baseline that reappears is ADDED again. Hard: races with
quarantines and restores, a missing home directory, a second scan in the API
process. Correct when: each real change is reported once, and Sentinel's own
moves are not reported.

**Detection pipeline** (`application/wordpress/integrity/`,
`application/wordpress/forensic/`, `application/heuristics/`). State: severity and
`detected_at` of findings. Operations: the WordPress integrity audit escalates recent
findings to CRITICAL; the forensic scan materialises each critical match as a new
finding at every run; auto-quarantine selects by `detected_at` in a lookback that
equals its own interval (20 min). Hard: windows that do not overlap, escalation
later than the lookback, repeated findings of one file filling the batch.
Correct when: a file that becomes CRITICAL is eventually acted upon, once.

**Correlation and root cause** (`application/intelligence/`). State: incidents,
their links, timeline and confidence, `processed` flags of events. Operations: take
200 unprocessed events oldest first, cluster by signature, join an open incident
inside the window or open one; later one root-cause analysis per incident that
spans at least two accounts. Hard: late commits with early timestamps, windows, fields written
by two jobs. Correct when: each event ends in exactly one incident and one
signature has one open incident per window.

**Job runner and scheduler** (`infrastructure/scheduler/job_registry.py`,
`apscheduler_adapter.py`, `web/routes/scans.py`, freshness rule in `cli.py`). State: one
`job_heartbeats` row per job. Operations: tracked run, commit or rollback, heartbeat in
a second transaction. Hard: `max_instances=1` holds per process only, crash between
the two transactions, two first heartbeats. Correct when: the heartbeat never reports
a success that did not commit and a stuck job becomes STALE.

**Reconcilers**: discovery (`application/discovery/`), extension inventory
(`application/inventory/`), configuration monitoring (`application/monitoring/`),
WordPress inventory and cron (`application/wordpress/inventory/`). State: tables mirroring
what is on the server. Operations: upsert what is seen, deactivate what is not.
Hard: an unreadable source looks like an empty one; keys that are not unique.
Correct when: after a run the active rows are exactly what the source held, and only
changes raise events.

**Pure decisions**: temporary-file forensics (`application/forensics/`), archive and
heuristics scans, WordPress core checksums. State: one verdict per path. Hard: a
verdict is cached for ever; the choice among several matches. Correct when: the
highest severity wins and a changed file is judged again.

**Admin sessions and WHM bridge** (`web/routes/auth.py`, `web/dependencies.py`). State:
`admin_users`, `admin_sessions` with expiry and revocation. Operations: login, bridge
login inside a time window, logout. Hard: two first bridged logins. Correct when: a
revoked or expired session is never accepted again.

**Read-only parts** (dashboards, list endpoints, schemas; of health, the freshness rule is
modelled), **start-up** (configuration, bootstrap, validation) and **packaging** (migrations,
systemd, WHM plugin) change no shared state at run time and are not modelled.

### Interactions

```
 scans ──findings, baselines──▶ SQLite ◀──rows── remediation ──files──▶ quarantine root
   ▲                              ▲  │                │  ▲
   │ read                 events  │  └─ correlation   │  └── API, CLI, auto-quarantine job
 home directories ◀───────────────┼───────────────────┘
                            job heartbeats
```

The scan and the remediation touch the same files and the same baselines without
a common lock. Detection, escalation and auto-quarantine meet only through
`detected_at` and `severity`. Everything meets in SQLite's write lock.

The hazards these components are exposed to are listed one by one, at their lines, in
`PROJECT.json`, with the property that covers each or the reason none does yet.

## 2. What is modelled

| module | kind | models |
|---|---|---|
| `Remediation` | specification | remediation use cases, quarantine store, the database sessions below them, and the three processes that run them |
| `FindingLifecycle` | abstract specification | what remediation promises an operator: the life of a finding, with no sessions and no files |
| `IntegrityScan` | composition | the integrity scan's job beside quarantines and restores of the same files and baselines |
| `DetectionPipeline` | composition | integrity scan, WordPress audit, forensic scan and automatic quarantine as jobs in time, with runs on demand |
| `Correlation` | specification | events, incidents and root causes: the correlation job beside detectors and inventory |
| `Reconcile` | specification | discovery, and below it extension inventory, configuration monitoring, WordPress cron and temporary files |
| `Console` | composition | logins, WHM bridge, sessions, "Run Now", tracked runs of two processes, heartbeats and health |
| `MC...` | instances | small sets and the data of the instances TLC checks |
| `RemediationProofs`, `RemediationSerialProofs`, `RemediationBatchProofs`, `IntegrityScanProofs`, `CorrelationProofs`, `ReconcileProofs`, `DetectionPipelineProofs`, `ConsoleProofs` | proofs | the theorems of section 6 |

A component that appears in two modules is modelled twice at two grains, each time with what the
properties there need: `Remediation` has every filesystem call of a quarantine, `IntegrityScan` its
move and its commit, `DetectionPipeline` its selection and its effect on what lies at a path.

### How `Remediation` corresponds to the code

One element of `Sessions` is one execution of one use case: a request with its
`get_db_session`, a CLI command, or one tick of the auto-quarantine job under
`_run_tracked`. It goes once from `idle` to `done`; `pc` is the point it has
reached. More executions are more elements of `Sessions`, so nothing is reset.

| variable | code |
|---|---|
| `home` | the accounts' files: a content, or `Absent` |
| `store` | incident folders: does the directory exist, its file, its `metadata.json` |
| `db` | the committed rows: findings, baselines, remediation actions, circuit-breaker events |
| `draft`, `writer` | the rows as the holder of SQLite's write lock sees them, and who that is |
| `ent`, `seen` | the finding entity a session loaded, and the row its `merge` compared it with |
| `job`, `dir` | the request (or the job's batch), and the incident folder at hand |
| `taken` | history only: the bytes the last quarantine of a finding moved away |

| action | code |
|---|---|
| `Request`, `AutoRun` | the entry points, `_ensure_mutation_allowed`, the ACTIVE check and the selection of the batch with its per-account cap |
| `Load` | `get_by_id` and `ensure_can_quarantine/restore/delete` with the assertions that follow |
| `Check`, `MkDir`, `Move`, `WriteSidecar` | `quarantine_file` up to each point where another process can see a difference |
| `Locate`, `PutBack`, `Clear` | `restore_file` |
| `Purge` | `delete_quarantined_file` |
| `Merge`, `Write` | `session.merge` (a SELECT), then the flush: finding, baseline and audit row, all under the write lock |
| `RecordFailure`, `Raise` | the `except FileRemediationError` branch; the exception then ends the request and its transaction, or is caught by the job |
| `AutoNext`, `AutoTrip`, `AutoFinish` | the job's loops: account by account, finding by finding, then the account's circuit-breaker event |
| `Commit`, `Die` | the end of a session; `Die` is a crash, a busy timeout, a failed commit or a cancelled request |
| `OwnerEdit` | the account's owner or the site itself (external) |

Points worth knowing when reading it:

* **Reads and writes.** A session that has written nothing reads the last commit; its
  first write takes the lock and copies `db` to `draft`. The `sqlite3` module's default defers `BEGIN` to the first INSERT or
  UPDATE, so a SELECT before it neither locks nor pins a snapshot.
* **`merge` is column-wise.** SQLAlchemy's merge copies the entity onto a freshly read
  row and issues an UPDATE of the columns that differ. `Column` and `MergedRow` are
  that: a stale entity overwrites only where it differs from what `Merge` read, and what
  another session commits between the read and the write survives in the
  other columns. A restore that finds a baseline saves it first, so its finding
  is compared when it already holds the lock (`ReadOf`).
* **Atomicity inside a process.** At a step in `OnDisk` no other session of the
  same process moves (`At`), because these steps run without an await; sessions of
  other processes do.
* **Folder names.** `{detected_at}-{basename}` without a suffix when that is free, with a uuid4
  otherwise. The uuid is unique to one attempt, so it is modelled by the session
  that draws it.
* **Time.** `detected_at` is data (to the second, as the folder name has it); which findings are
  inside the lookback is the constant `Critical`. Clock behaviour is
  `DetectionPipeline`'s.
* **Not in the data.** Modes, owners, sizes, symlinks and path containment are left out:
  no property here tells them apart. A file's content stands for its SHA-256.

`Init` is a state a scan has just committed: each file is as some finding reported
it, and has an active baseline if a scan covers it.

### `FindingLifecycle`

NONE → QUARANTINED → RESTORED or DELETED; every quarantined finding has a folder
no other finding holds; acknowledgements stay. One step may quarantine several
findings, because the job commits its whole batch at once. The committed
rows are the refinement mapping (`Lifecycle` in `Remediation`).

### Properties of `Remediation`

| property | says | why it is not obvious |
|---|---|---|
| `AuditBacksState` | a committed QUARANTINED, RESTORED or DELETED has its successful actions in `remediation_actions` | stale entities overwrite rows, sessions roll back and die at any step; relates two tables across transactions |
| `ComesToRest` | every session that begins ends, again and again | one write lock held across filesystem work, failures in every step |
| `OnlyRestoreEmpties` | without deletes, bytes leave an incident folder only when a restore working in that folder moves them | exists/mkdir race of two processes on one name, dead sessions that leave folders behind |
| `CircuitBreaker` | one transaction takes at most `Cap` findings of an account, and if it takes `Cap` and leaves any, the account's event is there | the batch is chosen from a list read before requests change the same findings |
| `Reversible` | at rest, the file of a QUARANTINED row lies in the folder the row names and is what was taken | long sequences over two findings of one file and an owner who recreates it |
| `RestoresWhatWasTaken` | a restore puts back exactly the bytes that finding's quarantine took | relates a restore to an earlier session's move through the row's folder name |
| `QuarantineRetiresBaseline` | the transaction that quarantines leaves the path's baseline inactive | otherwise the next scan reports Sentinel's own move; another finding's restore reactivates the same baseline |
| `ImplementsLifecycle` | the committed rows implement `FindingLifecycle` | includes distinct folders and dead ends; true only without overlap (section 4) |

### `IntegrityScan`

One element of `Scans` is one execution of the integrity job in one transaction over all accounts;
`Remedies` are quarantines and restores, cut to what a scan can see of them (the file moves first, the
rows follow in one transaction). A save is a merge and a flush, as in `Remediation`: the first one of a transaction reads the
row again before it has the lock, and its UPDATE has the columns that differ from that reading, so that what others commit in
between stays in the other columns. Later saves of the transaction read and write under the lock.

| variable or action | code (`application/integrity/use_cases.py` 60-281 unless named) |
|---|---|
| `home`, `stash` | files on disk as hash and mode; the quarantined file of a finding |
| `db`, `draft`, `writer` | `file_baselines` and `integrity_findings`, committed and as the holder of the write lock sees them |
| `todo`, `acct`, `left`, `seen`, `known` | a scan's locals: accounts to do, the one at hand, paths not looked at, what was seen, the baselines read |
| the walk | `file_integrity_scanner.py`: one file at a time; an unreadable, vanished or oversize file, or a missing home, looks the same as a deleted one |
| the read | `list_by_account` *after* the walk; no baseline at all makes it the account's first scan |
| `Merge`, `Compare`, `met` | the merge of a transaction's first save, by a scan and by a remediation, and the row it has read |
| the writes | per path ADDED, MODIFIED, PERMISSIONS_CHANGED, DELETED, re-ADDED of an inactive baseline, each with its finding; a unique constraint turns two first scans of one path into a conflict that rolls the whole scan back |
| remediation | `quarantine` and `restore`: file, then finding, baseline and commit; a restore writes the hash *of the detection* into the baseline |
| `quiet`, `own`, `lone` | history: what nothing has disturbed, and which finding's remediation last moved a file |

| property | says | why it is not obvious |
|---|---|---|
| `NoSilentChange` | the transaction that changes an existing baseline also raises the finding that says what it is now, or is the remediation that moved the file; of the row of a transaction's first save this holds column by column, of what the commit changes | two scans, remediations and owners interleave; a baseline loaded early is saved late, and merged over what was committed meanwhile; sessions die |
| `ScanContract` | a scan nothing disturbs leaves every baseline claiming what is on disk and has reported exactly the differences, under their names | several states of a row (none, active, inactive) times several of the file; the silent first scan |
| `OwnMovesUnreported` | what Sentinel itself moved is not reported by the next undisturbed scan | relates a remediation's commit to a later scan; needs the proviso that the restored bytes are those of the detection |

### `DetectionPipeline`

Time passes in units of five minutes. Runs stamp what they find with their start, and others see it
after their commit, which writes all of it in one step (a quarantine run holds the lock from its first move on). Instants within a unit are not told apart, so what is exactly as old as a lookback
may or may not be inside it.

| variable or action | code |
|---|---|
| `Tick`, `Start` | the interval triggers of `infrastructure/scheduler/job_registry.py`, all counted from the worker's start |
| `task = "integrity"` | new content of a named file, compared with its baseline |
| `task = "audit"` | `application/wordpress/integrity/use_cases.py`: findings of the last 60 minutes at critical paths become CRITICAL |
| `task = "forensic"` | `infrastructure/wordpress/forensic_scanner.py` with `application/wordpress/forensic/`: every match of every run is a new finding; cron entries and core files raise an event without one |
| `task = "quarantine"` | `AutoQuarantineUseCase`: CRITICAL findings of the last 20 minutes, the batch limit, the cap per account and its circuit breaker |
| on demand | `web/routes/scans.py`: a detection job in the API process, beside the worker's |
| `disk`, `held` | what lies at each path, and what a restore can put back |

| property | says | why it is not obvious |
|---|---|---|
| `AlarmedInTime` | a file that rules match is reported within one interval, plus one (and the time a run takes) for each failed run or restart | overlapping runs, restarts that shift every interval |
| `EventuallyContained` | a file that rules match and that can be moved does not stay for ever, though stubborn and duplicate findings take their share of the cap and a restore puts it back; provided its account has fewer files that cannot be moved than the cap, and the server fewer than the limit | the cap, the limit, the lookback and the repetition of findings meet |

A fourth property, `EscalationMakesEligible` (what the audit escalates is inside the quarantine job's lookback), is what the
docstrings claim and the code does not do (section 4).

The proviso of `EventuallyContained` is as weak as it can be. A file that cannot be moved is found anew by every forensic scan and
keeps its place among the oldest findings of its account, so as many of them as the cap fill every batch, and nothing else of that account
is ever taken. With a cap of one, one such file and the proviso dropped, TLC refutes the property.

What the model makes visible and the properties take into account: the audit compares paths relative to the
home with paths relative to the installation, so with the default configuration and an installation in
`public_html` it escalates nothing; a restore gives the baseline the hash of the detection, whatever it puts back; a restored
file that still matches is quarantined again by the next tick; nothing compares the hash of a finding with the file
at the time it is moved.

### `Correlation`

| variable or action | code (`application/intelligence/use_cases.py` unless named) |
|---|---|
| `Start` | `list_unprocessed`, the oldest `Batch` of them; `now` is the run's `utcnow()` |
| `Correlate` | one cluster: `find_open_matching` inside the window, or a new incident; `record_new_evidence`, links, timeline, `processed_at` |
| `BeginAnalysis`, `Look`, `Analyze` | `AnalyzeRootCauseUseCase`: incidents without a cause that link at least two accounts, the accounts' plugins read one account at a time, the first plugin that all of them have |
| `AnalysisFails` | `sorted` of a plugin with a version and the same without one: a `TypeError` that rolls the run back |
| `Commit`, `Die` | the end of the job's transaction |
| `Emit`, `Inventory`, `Tick` | detectors commit events late with early times, the inventory changes, time passes |

| property | says | why it is not obvious |
|---|---|---|
| `Partition` | the processed events are those of some timeline, each in one, of an incident of its signature | batches, deaths between batch and commit, several runs |
| `Faithful` | an incident is linked to exactly the accounts of its evidence and as severe as the worst of it; its confidence is that of the number of accounts, or once it has a root cause the higher of that and 60 or 90 | accumulated over runs by incremental updates; a root cause raises the confidence and new evidence lowers it again |
| `CauseShared` | the transaction that gives an incident its root cause links it to two accounts or more, each of which had that plugin in that version at some time since the run began | accounts are read one by one while the inventory job commits; the cause is written later still |
| `OneOpenPerWindow` | incidents of one signature are more than a window apart | late events, a clock that moves during a run, the boundary of `>=` |
| `EventuallyCorrelated` | every event is attributed in the end, provided the analysis can order its candidates from some time on | the proviso is the `TypeError` above: while it lasts, every run rolls its correlation back with it |

The window is one of processing time (`last_seen_at` moves to the run's time). An incident's
status never changes. The accounts' plugins are read without the `is_active` filter. That new evidence takes back the confidence a root
cause had given is what the code does, and `Faithful` allows both values; no document promises the higher one.
`seen` is what the analysis has read of each account, and `present` (history) what each had since the run began.

### `Reconcile`

A behaviour follows one of the jobs below discovery (`kind`) beside discovery itself, since they share no
other table. `r1` and `r2` are the worker's job and the same job on demand. A run's first save of a row is a `Merge`, without the lock,
and an UPDATE of the columns in which the row it read then differs (`Updated`); its later ones are under the lock.

| action | code |
|---|---|
| `FindServer`, `SaveServer`, `SeeAccount`, `Deactivate` | `application/discovery/use_cases.py`, `infrastructure/cpanel/`; an unreadable list of accounts looks empty and deactivates all |
| `ListSites`, `ReadRows`, `Scan`, `Merge`, `Upsert`, `MarkAbsent` | `application/inventory/`, `application/monitoring/`, `application/wordpress/inventory/`, with their scanners; the cron job reads the crontab before its rows, has no unique constraint and always emits a snapshot |
| `Observe`, `Look`, `Insert` | `application/forensics/`: all files are judged first, a path that has an observation is passed over for ever |
| `ServerConflict`, `RowConflict`, `PathConflict` | unique constraints of `infrastructure/persistence/models/`; the loser rolls back |
| `Edit` | the server (external): accounts, installations, extensions, settings, crontabs, temporary files |

| property | says | why it is not obvious |
|---|---|---|
| `OneRowPerKey` | a table with a unique key has one row of it | two runs that both found nothing; the rows a run updates are those it read, by position |
| `OneAlertPerFile` | each suspicious file raises one event, a legitimate one none | verdicts are made before the look-up, in two processes |
| `CommitsWhatItSaw` | what a run commits is what it saw, and nothing else is active or present, if no other run committed meanwhile; beside others, each row of what it saw is as it saw it, but for the row of its first save, of which this holds of the columns the commit changes | stale rows are saved over new ones, and the first of them is compared before the lock is taken |
| `EventuallyMirrored` | once the server stops changing the tables mirror it and stay so | conflicts, deaths and stale saves have to heal; a second cron row of one command does not and is excepted; a list of accounts that cannot be read is an empty list, as in the code |

### `Console`

A request reads when it comes, is answered, runs the jobs it asked for in the API process, and commits
last, because `get_db_session` commits after the response and its background tasks. A job's outcome is
recorded after its own transaction, in another one. Time passes in intervals of the jobs.

| action | code |
|---|---|
| `Enter` | `login_submit`, and `create_whm_bridged_session` of a known user |
| `Meet`, `AddUser` | the bridge's first login of a name: a look-up, then a flushed row that keeps the write lock to the commit |
| `Call` | `require_admin_session` with a page, `logout_submit`, `run_scan_now` or `run_single_scan_now` |
| `Commit`, `Abort` | the end of `get_db_session` |
| `CreateAdmin` | `sentinel create-admin-user` |
| `Start`, `Skip`, `StartNow`, `Succeed`, `Fail` | the worker's intervals with `max_instances=1`, background tasks, and `_run_tracked` |
| `Look`, `Record`, `Lose` | `_record_heartbeat`; what it raises ends a request with the jobs it has left |
| `WorkerDies`, `WorkerStarts`, `ApiDies`, `Tick` | processes and time |

| property | says | why it is not obvious |
|---|---|---|
| `OneRowEach` | one row for each user name and each job | first logins, the command and first heartbeats overlap across processes |
| `RevokedForEver` | a committed revocation is never undone | a request may hold a loaded session while its jobs run for minutes, and commits after the logout |
| `HealthTruth` | a job that `sentinel health` calls OK has committed a run within the grace, whichever process ran it | outcome and heartbeat are separate transactions; two processes record one job |
| `EventuallyHealthy` | after failures and deaths every job is OK in the end, and stays so | first-record conflicts, skipped intervals, restarts |

A commit that fails leaves a browser with a cookie and no session, or a logout without its
revocation; the answer has been sent already. Both are in the model (`Abort` after `Answer`).

## 3. Runs, bounds and what they show

All instances of `Remediation` have one account and two files `p1`, `p2` of the same base name, found
by the same scan, so that their incident folders want the same name; `p1` has a
baseline and `p2` none (a forensic finding in a directory no scan covers). With three
findings, `f3` is a later report of `p1`, as the forensic scan makes one at every run.
`s1` and `s2` are API requests, `s3` is a worker's tick, `s4` a CLI command.

| run | instance | checks |
|---|---|---|
| `remediation_concurrent` | 2 findings, `s1`-`s3`, every operation, `Cap` 1, interleaving at every await, every filesystem call may fail, every session may die; 256,951 states | `TypeOK`, `AuditBacksState`, `ComesToRest` |
| `remediation_folders` | 3 findings, `s1`-`s4`, quarantine, restore and the job, `Cap` 2, interleaving, sessions die; 1,455,316 states | `OnlyRestoreEmpties`, `CircuitBreaker` |
| `remediation_serial` | 3 findings, `s1`-`s4` one after the other, every operation, `Cap` 2, an owner who writes and removes files between sessions; 696,216 states | `Reversible`, `RestoresWhatWasTaken`, `QuarantineRetiresBaseline`, `ImplementsLifecycle` |
| `integrity_scan` | 2 accounts, 3 files (one of them can be oversize), 2 scans, 2 remediations, one owner's change, failing reads and deaths; 1,677,249 states | `TypeOK`, `NoSilentChange`, `ScanContract`, `OwnMovesUnreported` |
| `pipeline` | default intervals, one account, a fake extension that cannot be moved and a drop-in, one upset (a change, restore, run on demand, failed run or restart); 212,349 states | `TypeOK`, `AlarmedInTime`, `EventuallyContained` |
| `correlation` | 3 events of 2 signatures in batches of 2, 2 accounts, late commits, a changing inventory, one death; 572,054 states | `TypeOK`, `Partition`, `Faithful`, `CauseShared`, `OneOpenPerWindow`, `EventuallyCorrelated` |
| `reconcile` | 5 jobs, discovery beside two runs of one of them, one installation, 2 accounts, 2 keys, one change, one death; 751,804 states | `TypeOK`, `OneRowPerKey`, `OneAlertPerFile`, `CommitsWhatItSaw`, `EventuallyMirrored` |
| `console` | one job, name and session, 2 requests at a time, 2 faults; 532,287 states | `TypeOK`, `OneRowEach`, `RevokedForEver`, `HealthTruth`, `EventuallyHealthy` |
| `dead_ends` | restore and delete overlap | `DeadEnds` is violated |
| `folder_reuse` | one session at a time, sessions die | `RestoresWhatWasTaken` is violated |
| `failed_audit` | one session at a time, filesystem failures | `FailuresAreAudited` is violated |
| `escalation_missed` | the instance of `pipeline`; the counterexample needs one change of a file and nothing else | `EscalationMakesEligible` is violated |

Every bound is a constant.

`Remediation`:

* `Sessions`: how many executions there are in a behaviour. A lost update needs two that
  overlap, the contest for a folder name two processes, the job against requests
  a third. Name reuse takes three in sequence (quarantine, one that dies, quarantine) and
  a fourth to observe it.
* `Findings`, `Paths`: two files are enough for one name to be wanted twice; a second
  finding of one file is what lets one finding's restore disturb another's baseline or folder.
* `Contents`: two, the least with which "the wrong bytes" can be said.
* `Cap`: 1 and 2 against three critical findings of one account, so that the batch is
  full, with one left over; in `remediation_folders` one of two files is in the batch twice.
* `Overlap`, `OwnerEdits`, `FsFaults`, `SessionsDie`, `Requests`: which behaviours an instance
  has. They exist because the properties hold under different ones,
  which is itself a result: audit and rest survive everything; folders survive overlap and
  deaths but not deletes; reversibility and the lifecycle need sessions that neither
  overlap nor die.

The others:

* `integrity_scan`: a stale save needs two scans, and a remediation inside a scan one more session; the
  second remediation makes quarantine-then-restore possible within a scan. Two accounts
  because a scan's transaction spans them. `MaxEdits` 1 changes a file at the worst moment.
* `pipeline`: the intervals are the real ones (3, 4, 12 and 12 units), so lookbacks, phases and caps
  meet as in the program. A stubborn file and one that can be moved share the account's cap of 2.
  One upset is enough to shift a phase or to lose a run. One file that cannot be moved under a cap of two
  is the most that `EventuallyContained` allows. For `AlarmedInTime`, three files in two accounts
  (861,604 states) and two upsets (3 to 6 million) were explored once and gave the same result.
* `correlation`: two events of one signature in different batches and one of another; the window
  is one tick and time two, so an incident can be joined, be missed and be exactly at the boundary. The
  inventories have two plugins that both accounts share, one in two versions, and one that a single account has, so that a common
  plugin is there, is one of several, or vanishes between two reads.
* `reconcile`: two keys, so that a row appears beside one that goes; two runs of one job overlap and
  one may die; the account that owns the installation appears twice in the list.
* `console`: one of each thing is what requests have to contend for; `Grace` 3 is the code's. Two jobs
  in one request (7.66 million states without faults) were explored once.

`CHECK_DEADLOCK FALSE` stands in the configurations of `Remediation` and `IntegrityScan`, because
these systems do stop: when every session of the instance is over and no owner edits, nothing is left
to happen. That no session of `Remediation` is stuck *before* that is `ComesToRest`. The other
runs check deadlock.

Each property of a passing run has a mutant in `PROJECT.json`: an operator of the model replaced by
the slip it names, under which TLC finds that property violated. The slips stand next to the operators
they stand in for, under a comment that begins with "Slip".

## 4. Where the code and its documentation disagree

Four statements of the repository are refuted by runs; the quotations with their lines
are under `findings` in `PROJECT.json`.

* **Dead ends** (`dead_ends`). `value_objects.py` calls RESTORED and DELETED dead ends.
  A restore and a delete that both loaded the finding QUARANTINED both go through, and the later
  merge overwrites the earlier terminal state.
* **Exactly what was quarantined** (`folder_reuse`). A restore or delete empties and removes the
  folder before its commit. If its session dies there, the row still names the folder
  while the name is free; another quarantine of the same second and base name takes it, and
  restoring the first finding yields the second one's bytes.
* **Every attempt is queryable** (`failed_audit`). The FAILED row of a request is rolled back with the
  session the exception leaves; only the unattended job, which catches the exception,
  keeps it.

* **Eligible for auto-quarantine** (`escalation_missed`). The audit's docstring
  (`application/wordpress/integrity/use_cases.py:28`) says a finding is escalated to CRITICAL "so it becomes eligible for auto-quarantine", and the
  quarantine job's (`application/integrity/use_cases.py:590`) counts escalated findings among those that qualify. The escalation keeps
  `detected_at`. Scan and audit run every 60 minutes, counted from one instant, so an audit loads what the scan
  before it found, an hour old; the quarantine job loads what was detected in the last 20 minutes. In the trace a drop-in
  changes, the scan reports it, the audit escalates it an hour later, and no run of the job can load it.
  `EscalationInVain` (section 6) proves that this is not one unlucky schedule.

Two more disagreements have no run of their own:

* `README.md:71` says "Quarantine is always reversible". A quarantined file that is itself called `metadata.json` is overwritten by
  the sidecar written beside it (`_quarantine_ops.py:108`), which `Deposit` has. In the instance of
  `remediation_serial` with that file name TLC finds `Reversible` violated by a single quarantine; the name is a hypothesis of `AlwaysReversible`.
* The docstring of `RestoreFindingUseCase` (`application/integrity/use_cases.py:443`) says the baseline comes back with the
  hash "already captured at quarantine time". It is the hash of the detection, so a restored file that changed between
  detection and quarantine is reported as modified (the proviso of `OwnMovesUnreported`).

## 5. Fairness

Faults, deaths, edits, requests and changes of the server are never fair: nothing has to go wrong, or be asked for.

* **`Remediation`**: weak fairness of `Step(s)` for each session. It is what the code's scheduling gives: asyncio
  resumes every task whose await has completed, and the kernel schedules the three
  processes. A session waiting for the write lock is enabled only
  while the lock is free. That weak fairness is still enough is not an assumption about
  SQLite's queueing but a fact of the instance: a session has one life, so the lock is taken finitely often
  and in the end stays free. In the program the wait is bounded as well: after 30 s
  the busy handler gives up and the session fails, which is `Die`. `ComesToRest` does not rest on it.
* **`DetectionPipeline`**: weak fairness of `Tick`, and of `Start` and `Step` of each run. APScheduler starts what is due, and a
  run is bounded by `MaxRun`, which `Tick` waits for.
* **`Correlation`**: weak fairness of the job. It is the only one that runs it, and what keeps it from the lock
  (a detector's commit) is over in one step.
* **`Reconcile`**: strong fairness of each run's `Step`. Runs recur for ever here, so a run that waits for
  the lock finds it taken again and again; it also finds it free again and again, since runs
  are minutes apart and take seconds, and SQLite's busy handler retries until then.
* **`Console`**: weak fairness of requests in hand, of runs, of the scheduler's intervals, and of the worker's restart
  (`restart: unless-stopped` in `docker-compose.yml`, `Restart=on-failure` in the systemd unit). Time is strongly fair: `Tick` waits for
  runs, and new requests would otherwise put it off for ever.
* **`IntegrityScan`**: none; its properties are about transactions that happen.

## 6. Proofs

Every theorem holds for every value of the constants that meets the named assumptions of its
specification; the bounds of section 3 (`Max...`) are constants too, so a theorem holds for any number of
faults, deaths and changes. Nothing is taken on trust: every lemma has a checked proof.

### `RemediationProofs`

It is checked by TLAPS for every value of the constants that meets the named assumptions of `Remediation`
(the data functions have their types; processes, requests, mode, cap and switches are what the configuration
can be; the sentinels differ from real values). Nothing else is assumed: no bound on sessions or findings. The fourth
assumption, that the findings of a table are finitely many, is used in `RemediationBatchProofs` alone.

* **`TypeCorrect`**: `Spec => []TypeOK`. `TypeOK` alone is not inductive: `Move` applies
  `PathOf` to `job[s].cur` and indexes `store` with `dir[s]`, which may be `None` as far as `TypeOK` knows.
  `TypeInv` adds `JobOK`: at the steps that work on a finding there is one, with an operation,
  and at those that work in a folder there is one. One lemma per action or
  family of actions.

* **`AuditBacked`**: `Spec => []AuditBacksState`, with overlap, faults and deaths. The
  committed rows come from a draft, and the draft from an entity that may be stale, so the invariant
  (`AuditInv`) also says that the draft is backed and never has fewer audit rows than `db`, and that the state
  of every *loaded entity* is backed by the rows its session sees. The step that matters is `Write`: a
  merged state is either the new state of the entity, backed because the entity's old state was
  and the same transaction adds the audit row, or the current one, backed already. Audit rows are
  never removed, so staleness cannot undo the backing. `LockInv` (a session about to
  raise holds the lock) keeps a rollback from touching another session's draft.

* **`FoldersKept`**: `Spec => OnlyRestoreEmpties`, assuming `"delete"` is not among
  `Requests`. `FolderInv` says that a session between `mkdir` and `move` works in a folder that
  exists and holds nothing, and likewise a session between the move back and `rmtree`, and that no other session's
  file can get into it meanwhile; `NoDelete` carries the assumption to the sessions' jobs. The
  theorem is about filesystem steps only: it holds with any faults and any deaths.
  The assumption is needed. With deletes, two that loaded the same row before either
  committed can purge a folder twice, and between the two another quarantine may have
  made a folder of that name: the second `rmtree` removes what is not its own. That is
  listed as a hazard.

### `RemediationSerialProofs`

What remediation promises when one session runs at a time (`~Overlap`) and none dies before its commit (`~SessionsDie`), as the run
`remediation_serial` has it. The owner may edit files throughout.

* **`RestoredAsTaken`** (`RestoresWhatWasTaken`) and **`LifecycleImplemented`** (`ImplementsLifecycle`: the initial states of
  `Remediation` are initial states of `FindingLifecycle`, and each step is a step of it or a stutter), with filesystem calls that fail.
* **`AlwaysReversible`**: `Spec => []Reversible`, where besides no filesystem call fails (`~FsFaults`) and no file has the
  sidecar's name.

The hypotheses are not convenience. TLC finds a counterexample to the first two when either is dropped, and to the third when any of
its four is: overlapping sessions write back stale states, a session that dies between its move and its commit leaves rows and folders apart (section 4),
a failed call leaves a file moved and its row as it was, and a sidecar overwrites its namesake.

The invariant is built in layers. `StepInv` says which operation is at which step; `HolderInv` who may hold the write lock and that whoever has
changed the draft holds it; `SerialInv` that all sessions but one are at rest, and that the one has read what is committed.
`DraftInv` (with these, `Serial`) says what the draft may differ in: the rows of the finding at hand, or of the job's batch so far.
`HoldInv` ties rows to folders: each QUARANTINED row of the draft has a folder of its own, with the file it took unless the session at hand is just moving it out
(`RowHolds`), and a session that has moved a file in has it there (`SessionHolds`). `CommittedInv` is what the refinement
needs at a commit (folders of committed rows differ, and states move along the lifecycle), `KeepInv` what `Reversible` needs at rest.

### `RemediationBatchProofs`

* **`BaselineRetired`** (`QuarantineRetiresBaseline`) and **`BreakerTrips`** (`CircuitBreaker`), with sessions that overlap, fail and
  die, under one hypothesis, `NoStaleAck`: if sessions overlap, none of them acknowledges.

An acknowledgement loads a row, and its merge writes the whole row back; an overlapping one can so return a
finding to QUARANTINED after its restore, without a move, or to NONE while a batch that counted it is committed. TLC finds both: the first property fails in
the instance `remediation_folders` with acknowledgements added, the second after two requested quarantines, two acknowledgements and a
run of the job, with a cap of two.

`RowsInv` says that the draft is only ever ahead of the committed rows by the rows of the lock holder, who quarantines the
finding at hand or, as the job, those of its batch, and that a finding it quarantined has its baseline retired. For the breaker,
`BatchOK` is about the job's lot, the findings it has quarantined in the draft and those it may still quarantine: the lot never grows, it has at most `Cap`
findings of each account, and what of an account is not in it any more, or never was, is told of by an event, or the account has less than `Cap` in the lot.
A finding that is refused, fails or was quarantined by another session meanwhile leaves the lot, and
then there are less than `Cap`; that is where cardinalities, and so `TableAssumption`, come in.

### `IntegrityScanProofs`

* **`ScanTypeCorrect`**: `Spec => []TypeOK`.
* **`NothingSilent`**: `Spec => NoSilentChange`, with the merge of a first save apart from its write. A step of a scan that changes `db` is its commit, so the invariant has to say
  what the *draft* differs in: `DraftOK` says that a draft's baseline equals the committed one, or has a finding of this very scan that
  agrees with it, or stands where there was no row; for the row of the first save, that the draft agrees with the finding wherever it differs from the
  committed row (`AgreesInPart`), which is all that an UPDATE of the differing columns leaves. `ReadOK` and `ComparedOK` say what scans and remediations have
  read for their merges: rows are never deleted, so one that was read is there still. `FreshOK` (a scan that has not committed has no committed
  findings) makes those findings new at the commit; `TargetOK` gives a remediation its finding and file.
* **`ScansAreExact`**: `Spec => ScanContract`, for any number of accounts, files, scans and remediations. `QuietOK` says of a scan that
  nothing has disturbed that what it has seen is on the disk and what it has read is committed, and that every account is either still to be written, and then the
  scan's rows are the committed ones (`Untouched`), or accounted for: the rows claim what the disk holds, and the finding is the verdict on the
  *committed* baseline (`Accounted`). `VerdictSays` shows that the nested conditions of the comparison report exactly the differences.
  `QuietFrame` carries it through the steps of others: other scans may run and even hold the lock, but whoever moves a file or commits ends the quiet.
* **`OwnMovesQuiet`**: `Spec => OwnMovesUnreported`. `LoneOK` says that a remediation nothing has overlapped has its path to itself and left it
  as it says; `OwnOK` that a path whose last change was such a remediation has a baseline that says so. `Book` gives the rest: a finding's
  path has a baseline, and a hash a finding names is one a scan would hash again (not excluded, not oversize), because `SeenOK` held when it was seen.

### `CorrelationProofs`

* **`CausesShared`** (`CauseShared`): `Shown` says that what the analysis has read of an account was there since the run began, and so was each root
  cause of the draft that is not committed yet, with every account the draft links. It holds at the commit because the analysis follows
  the last cluster of its run, and links no account.
* **`CorrelationTypeCorrect`**, **`EventsOnce`** (`Partition`), **`EvidenceTold`** (`Faithful`),
  **`WindowsApart`** (`OneOpenPerWindow`): all four follow from one invariant over the committed and the drafted tables.
  `Attributed` adds to the partition that an incident has the event it is named for, without which a new
  incident could fall on an old one. `Windowed` alone is not inductive: it needs `Dated` (no incident was opened
  after it was last seen, or seen after the run's time) and that no event lies in the future; then a joined incident
  is the last of its signature, because a later one would have been preferred. `BatchOK` keeps a
  cluster apart from what the draft has absorbed.
* `Highest`, `Lowest` and the choice of the first plugin are CHOOSE expressions. That they choose
  something is proved from well-foundedness of the naturals (`Least`, `HighestOf`, `FirstPlugin`).

### `DetectionPipelineProofs`

* **`PipelineTypeCorrect`**: `TypeOK` with `Held`, which says what a run holds by the job it does.
* **`AlarmsInTime`** (`AlarmedInTime`), for all intervals, lookbacks and durations of runs, with any number of upsets.
  `AlarmInv` bounds how long each matching file has waited: an interval and a run's duration for each failed run or restart, plus the time since the
  forensic run last began; while it runs, one interval more until it has read the file. `Gap`, an interval times a
  number of faults, is the only nonlinear term, and `GapType` is the only lemma that looks inside it.
* **`EscalationInVain`**, the defect of section 4 for every value of the constants: while no detector is run on demand, the audit escalates only findings older than the
  lookback of the quarantine job (`EscalatedTooLate`, the opposite of `EscalationMakesEligible`), and no finding it has escalated is moved (`EscalatedNotMoved`). It is proved for all intervals of
  the integrity scan and the audit that are multiples of one period longer than that lookback (`InPhase`; the defaults are 60 minutes twice, and 20). `InVain` is the invariant: a change that is not CRITICAL
  yet will be older than the lookback when the next audit is due (`Ripe`), and what an audit has loaded is older already (`Late`). It holds when a scan commits because scan and audit keep step (`Scheduled`) and what
  is due together is started before any of it is done, so an audit never loads what the scan of the same instant finds. Restarts count all intervals anew and keep the step;
  runs on demand do not. The hypothesis is needed: with an audit every 15 minutes, or intervals of 30 and 45, TLC finds an escalated finding that is moved.

### `ReconcileProofs`

* **`ReconcileTypeCorrect`**: `ShapeOK`, all of `TypeOK` but what a merge has read, with `Held` (what a run has at hand at each place) and the types of what is on the server,
  from which the readers' results get theirs (`ContentsAssumption`). That a merge reads a row of the table comes after `RowsOnce`, from its
  invariant: the row the run found by position is still there.
* **`AlertsOnce`** (`OneAlertPerFile`): the property holds of the draft as well, and the draft is `db` while nobody holds the lock.
* **`RowsOnce`** (`OneRowPerKey`): the step to show is a run that adds a key it had found missing. A run writes by position what it read
  by position, so the invariant says that rows are only ever added and keep their keys (`Extends`): what a run has read stays
  where it read it (`StillThere`), and the constraint catches the rest.
* **`SavesWhatItSaw`** (`CommitsWhatItSaw`): `Saw` says, place by place, what a run's writes cover. `Working` is about the installation at
  hand: each key written so far has a row that says its last entry (`Covered`), and the other rows are as read unless
  another run committed (`Explained`). The row of the first save is a case of its own while the run is not alone (`EarlyRows`): `Merging` says that for a run that is alone
  what the merge has read is still the row, and `SavedAs` that an early row agrees with what was seen wherever it differs from the committed one. `Past` is about the installations before it, `Discovering` about discovery's accounts.
  `Stands` carries all of it through the steps of other runs: a run that has written holds the lock, and one that has not
  is told of a commit by `lone`.

### `ConsoleProofs`

* **`ConsoleTypeCorrect`**: `TypeOK` needs `ReadOK` (only a bridged login waits for a row of its own) to know that the
  lock is held by one that is answered.
* **`RowsUnique`** (`OneRowEach`): `NameOK` also covers the row that the lock holder has flushed and not
  committed; `HeartOK` is kept because a record inserts only where there is none, and otherwise
  changes rows without changing their jobs.
* **`HealthIsTrue`** (`HealthTruth`): `AgeOK` says that a recorded success is at least as old as the last commit of its job, and that a
  success not recorded yet is of this very interval. `JobFrame` carries it through steps of requests, which
  change the queue from which a run's job is read.
* **`RevokedStays`** (`RevokedForEver`): a commit writes the row of one token only, and `TokenOK` says that a request
  which makes a session has a token that no row and no other request has.

The temporal steps combine `Init => Inv` and `Inv /\ [Next]_vars => Inv'` with `PTL`. The
invariants were checked with TLC before they were proved.

## 7. What is only model-checked, and what is left out

Only checked by TLC, on the instances above:

* `ComesToRest`, `EventuallyContained`, `EventuallyCorrelated`, `EventuallyMirrored` and `EventuallyHealthy`, because the
  prover handles neither fairness nor ENABLED.

Every safety invariant, action property and refinement of the passing runs is a theorem. Those with hypotheses (`RemediationSerialProofs`,
`RemediationBatchProofs`, `FoldersKept`) hold of more than the instances, and not of every value of the constants.

What the code does in two steps and a model in one: a save is a merge, which reads without the lock if it is the transaction's first, and an UPDATE of the columns that
differ. `Remediation`, `IntegrityScan` and `Reconcile` have both steps. Elsewhere it is one step, and no property tells the difference:

* `Correlation`: only this job writes the rows it saves, and its runs do not overlap.
* `DetectionPipeline`: the rows it has are findings, which are new in a run's commit or (severity) written by the audit alone; which rows a remediation and an
  audit save over each other is left to `Remediation` and listed as a hazard.
* `Console`: a heartbeat (`Recorded`). What its UPDATE may keep of another record is a SUCCESS of a run committed just then, so the bound of `HealthTruth` stands. `RevokedForEver`
  has the write of the changed column.
* `Reconcile`: discovery's first save is the server row, of which the model keeps only that it exists; its later saves are under the lock. Observations are only added.

Left out of the models, and why:

* `Remediation`: file modes, owners, sizes, symlink refusal and path containment, which no property depends
  on (their failures are `FsFaults`); `shutil.move` across filesystems as copy-then-delete, taken as the rename it is
  on one filesystem; the clock and the arrival of findings (`DetectionPipeline` has both); offline remediation of an extracted
  archive (`LocalFileRemediator`, the `scan-archive` command), the same quarantine operations with no database. Several
  accounts at once are in the specification and in the theorems, not in the instances.
* `IntegrityScan`: deletes and acknowledgements (they touch no baseline), and the interleaving inside a quarantine, which `Remediation` has.
* `DetectionPipeline`: instants within a five-minute unit; the matching of rules to contents (a file is malicious or not); findings that are
  remediated (they leave `findings`).
* `Correlation`: wording of titles and rationales, and the lists and detail pages that read incidents.
* `Reconcile`: the parsing of each file format beyond what tells two outcomes apart; first and last times seen.
* `Console`: expiry of sessions, inactive users, the HMAC and time window of the bridge's token and CSRF tokens are
  data whose checks have no state; a session that has expired is one nobody calls with any more. The queue of several jobs of
  "run all" is in the specification and the theorems; the instance has one job.

Components of section 1 that are not modelled:

* **WordPress core checksums**: a request looks up the cached checksums of a release, downloads them if there are none, and answers
  with a comparison that is not kept. Two first requests of one release are the insert conflict `Reconcile` has for five other tables; the
  comparison of a release's paths with the home's is the mismatch described at `DetectionPipeline`.
* **Health, status and dashboards**: only the freshness rule; the rest reads.
* **Archive scan and heuristics**: the choice of a verdict is in `Reconcile` and the materialisation of matches in `DetectionPipeline`;
  unpacking and the rules themselves are text matching.
* **Read-only API and schemas**, **configuration, bootstrap and validation**, **migrations, deployment and WHM plugin**: no state that changes
  at run time.

`PROJECT.json` lists each component with its status, and each hazard with its properties or with the reason it has none.

## 8. What would come next

In order of what it would add:

1. What overlap leaves of the lifecycle: an abstract specification with the stale write-backs of section 4 in it, that `Remediation` with
   overlapping sessions implements.
2. The safety half of the liveness properties as theorems: for each, that a waiting run or request is never without a next step.
3. An instance of `Console` with two jobs and faults, once its state space is cut by treating the two requests as symmetric.
4. Core checksums and choice of match as operators against reference definitions, if those functions come to hold
   more than one comparison.

## 9. Running it

From this directory:

```
tlc -workers 2 -config remediation_concurrent.cfg MCRemediation
tlapm RemediationProofs.tla
```

and so on for each row of section 3 and each proofs module. Every run takes under three minutes on two
cores, the proofs some ten minutes together.
