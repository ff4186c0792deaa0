----------------------------- MODULE IntegrityScan -----------------------------
(* The integrity scan: walk the home directories, compare with file_baselines, *)
(* report the differences; beside quarantines and restores that move the same  *)
(* files and change the same baselines without a common lock.                  *)
(*                                                                             *)
(* A scan is one job in one transaction over all accounts.  It looks at the    *)
(* files one by one, then reads the account's baselines, then writes; from its *)
(* first write it holds SQLite's write lock until it ends.  A remediation is   *)
(* cut to what a scan can see of it (module Remediation has the whole): the    *)
(* file moves first, the rows follow in one transaction.                       *)
(*                                                                             *)
(* A save is session.merge and flush: merge reads the row again, flush writes  *)
(* the columns in which the object differs from it.  Under the lock that is    *)
(* the whole row; the first save of a transaction reads before it has the      *)
(* lock, and what others commit in between stays in the other columns.         *)
EXTENDS Integers, FiniteSets

CONSTANTS
    Paths,         \* files of the accounts' home directories
    Accounts,      \* active cPanel accounts
    AccountOf,     \* [Paths -> Accounts]
    Files,         \* what a path can hold: records of sha and mode
    Homes,         \* the homes an instance starts with
    Excluded,      \* paths under integrity_excluded_relative_paths
    Oversize,      \* contents larger than integrity_max_file_size_bytes
    Scans,         \* executions of the integrity job, in any process
    Remedies,      \* executions of a quarantine or a restore
    MaxEdits,      \* bound: how often owners change files
    Faults,        \* may reads fail, homes be missing, sessions die?
    Absent,        \* no file, no hash
    None           \* no row, no finding, no account, no session

Shas == {file.sha : file \in Files}
Modes == {file.mode : file \in Files}
Sessions == Scans \cup Remedies
Reports == Scans \X Paths       \* a scan reports a path at most once

ASSUME ScanAssumption ==
    /\ AccountOf \in [Paths -> Accounts]
    /\ \A file \in Files : file = [sha |-> file.sha, mode |-> file.mode]
    /\ Homes \subseteq [Paths -> Files \cup {Absent}]
    /\ Scans \cap Remedies = {}
    /\ MaxEdits \in Nat
    /\ Faults \in BOOLEAN
    /\ Absent \notin Shas
    /\ Absent \notin [sha : Shas, mode : Modes]
    /\ None \notin Sessions \cup Accounts \cup Reports

VARIABLES
    home,      \* the files on disk
    db,        \* the committed rows: baselines and findings
    draft,     \* the rows as the write-lock holder sees them
    writer,    \* the scan that holds the write lock, or None
    pc,        \* the next step of each session
    todo,      \* the accounts a scan has still to do
    acct,      \* the account a scan is at
    left,      \* the paths of that account it has not looked at yet
    seen,      \* what it saw there: a file or Absent
    known,     \* the baselines of that account as it read them
    met,       \* what the first merge of a session has read, or None
    target,    \* the finding a remediation works on, and the file it moved
    stash,     \* the quarantined file of a finding
    edits,     \* how often owners have changed a file
    quiet,     \* history: the scans nothing has disturbed so far
    own,       \* history: the finding whose remediation was a path's last change
    lone       \* history: the remediations nothing has overlapped so far

rows == <<db, draft, writer>>
walk == <<todo, acct, left, seen, known>>
vars == <<home, db, draft, writer, pc, todo, acct, left, seen, known, met, target,
          stash, edits, quiet, own, lone>>

--------------------------------------------------------------------------------
(* Data.                                                                       *)

Baseline == [sha : Shas, mode : Modes, active : BOOLEAN]
Changes == {"ADDED", "MODIFIED", "DELETED", "PERMISSIONS_CHANGED"}

States == {"NONE", "QUARANTINED", "RESTORED"}

(* An integrity_findings row; the integrity_finding_* event that is added with *)
(* it in the same transaction carries the same facts.                          *)
Finding == [change : Changes, previous : Shas \cup {Absent},
            current : Shas \cup {Absent}, state : States]

(* The baseline a first save is of, if it is one, and a finding's state.       *)
Met == [path : Paths, base : Baseline \cup {None}, state : States \cup {None}]

ASSUME NoneAssumption == None \notin Baseline /\ None \notin Finding
ASSUME MetAssumption == None \notin Met

Tables == [base : [Paths -> Baseline \cup {None}],
           found : [Reports -> Finding \cup {None}]]

Target == [finding : Reports \cup {None}, file : Files \cup {Absent}]
NoTarget == [finding |-> None, file |-> Absent]

PathsOf(a) == {p \in Paths : AccountOf[p] = a}

TypeOK ==
    /\ home \in [Paths -> Files \cup {Absent}]
    /\ db \in Tables
    /\ draft \in Tables
    /\ writer \in Scans \cup {None}
    /\ pc \in [Sessions -> {"idle", "next", "walk", "write", "commit",
                            "took", "put", "done", "failed"}]
    /\ todo \in [Scans -> SUBSET Accounts]
    /\ acct \in [Scans -> Accounts \cup {None}]
    /\ left \in [Scans -> SUBSET Paths]
    /\ seen \in [Scans -> [Paths -> Files \cup {Absent}]]
    /\ known \in [Scans -> [Paths -> Baseline \cup {None}]]
    /\ met \in [Sessions -> Met \cup {None}]
    /\ target \in [Remedies -> Target]
    /\ stash \in [Reports -> Files \cup {Absent}]
    /\ edits \in 0..MaxEdits
    /\ quiet \subseteq Scans
    /\ own \in [Paths -> Reports \cup {None}]
    /\ lone \subseteq Remedies

(* FileBaseline(...), update, reactivate: the row of a file that is there.     *)
Tracked(file) == [sha |-> file.sha, mode |-> file.mode, active |-> TRUE]
(* Slip: is_active is cleared to NULL.                                         *)
Blanked(row) == [row EXCEPT !.active = None]
(* mark_removed.                                                               *)
Retired(row) == [row EXCEPT !.active = FALSE]

(* The row after the flush of a save whose merge read `read`.                  *)
Updated(row, read, new) ==
    [sha |-> IF new.sha = read.sha THEN row.sha ELSE new.sha,
     mode |-> IF new.mode = read.mode THEN row.mode ELSE new.mode,
     active |-> IF new.active = read.active THEN row.active ELSE new.active]

UpdatedState(state, read, new) == IF new = read THEN state ELSE new

(* What a row says of the disk.                                                *)
Claims(row) == IF row = None \/ ~row.active THEN Absent
               ELSE [sha |-> row.sha, mode |-> row.mode]

(* What _scan_file returns of a path: nothing of a path that is excluded, not  *)
(* there, or larger than the limit.                                            *)
Hashed(p, file) ==
    IF file # Absent /\ p \notin Excluded /\ file.sha \notin Oversize
    THEN file ELSE Absent

--------------------------------------------------------------------------------
(* The comparison of one account: rows as read, files as seen.                 *)

First(old, a) == \A p \in PathsOf(a) : old[p] = None

Report(change, previous, current) ==
    [change |-> change, previous |-> previous, current |-> current,
     state |-> "NONE"]

(* Slips: the mode is not compared; a file that reappears is taken back in     *)
(* silence.                                                                    *)
HashOnlyVerdict(old, new, first) ==
    IF Claims(old) = new THEN None
    ELSE IF Claims(old) = Absent THEN IF first THEN None ELSE Report("ADDED", Absent, new.sha)
    ELSE IF new = Absent THEN Report("DELETED", old.sha, Absent)
    ELSE IF old.sha # new.sha THEN Report("MODIFIED", old.sha, new.sha)
    ELSE None
RevivedSilently(old, new, first) ==
    IF Claims(old) = Absent \/ Claims(old) = new THEN None
    ELSE IF new = Absent THEN Report("DELETED", old.sha, Absent)
    ELSE IF old.sha # new.sha THEN Report("MODIFIED", old.sha, new.sha)
    ELSE Report("PERMISSIONS_CHANGED", old.sha, new.sha)

(* The finding _scan_account raises for a path, or None.                       *)
Verdict(old, new, first) ==
    IF new = Absent
    THEN IF old # None /\ old.active
         THEN Report("DELETED", old.sha, Absent) ELSE None
    ELSE IF old = None
         THEN IF first THEN None ELSE Report("ADDED", Absent, new.sha)
    ELSE IF ~old.active THEN Report("ADDED", Absent, new.sha)
    ELSE IF old.sha # new.sha THEN Report("MODIFIED", old.sha, new.sha)
    ELSE IF old.mode # new.mode
         THEN Report("PERMISSIONS_CHANGED", old.sha, new.sha)
    ELSE None

(* The paths whose baseline it adds or saves: an unchanged one is left alone.  *)
Added(old, new, a) == {p \in PathsOf(a) : old[p] = None /\ new[p] # Absent}
Saved(old, new, a) ==
    {p \in PathsOf(a) : old[p] # None /\ Claims(old[p]) # new[p]}

(* The one that is written first: what was seen comes before what is gone.     *)
Leading(old, new, a) ==
    LET written == Added(old, new, a) \cup Saved(old, new, a)
        there == {p \in written : new[p] # Absent}
    IN  IF there # {} THEN there ELSE written

(* The object that is added or saved.                                          *)
Fresh(old, new) == IF new = Absent THEN Retired(old) ELSE Tracked(new)

(* Is the row of p the one the scan's first save is of?                        *)
Early(s, p) == met[s] # None /\ met[s].path = p

(* The rows after the account is written.                                      *)
Reconciled(tables, s) ==
    LET a == acct[s]
        first == First(known[s], a)
        verdict == [p \in PathsOf(a) |-> Verdict(known[s][p], seen[s][p], first)]
        fresh == [p \in PathsOf(a) |-> Fresh(known[s][p], seen[s][p])]
    IN  [base |-> [p \in Paths |->
            IF p \in Saved(known[s], seen[s], a) /\ writer # s /\ Early(s, p)
            THEN Updated(tables.base[p], met[s].base, fresh[p])
            ELSE IF p \in Added(known[s], seen[s], a) \cup Saved(known[s], seen[s], a)
            THEN fresh[p]
            ELSE tables.base[p]],
         found |-> [r \in Reports |->
            IF r[1] = s /\ r[2] \in PathsOf(a) /\ verdict[r[2]] # None
            THEN verdict[r[2]] ELSE tables.found[r]]]

--------------------------------------------------------------------------------
(* Databases and disturbances.                                                 *)

(* What a statement of session s reads.                                        *)
Visible(s) == IF writer = s THEN draft ELSE db

Running(s) == pc[s] \notin {"idle", "done", "failed"}

(* Something other than scan s happens to the disk or to the rows.             *)
Disturb == quiet' = {s \in quiet : ~Running(s)}

(* A session ends: its lock is free, its objects are gone.                     *)
NoFiles == [p \in Paths |-> Absent]
NoRows == [p \in Paths |-> None]
End(s, how) ==
    /\ pc' = [pc EXCEPT ![s] = how]
    /\ writer' = IF writer = s THEN None ELSE writer
    /\ draft' = IF writer = s THEN db' ELSE draft
    /\ met' = [met EXCEPT ![s] = None]
    /\ IF s \in Scans
       THEN /\ todo' = [todo EXCEPT ![s] = {}]
            /\ acct' = [acct EXCEPT ![s] = None]
            /\ left' = [left EXCEPT ![s] = {}]
            /\ seen' = [seen EXCEPT ![s] = NoFiles]
            /\ known' = [known EXCEPT ![s] = NoRows]
            /\ UNCHANGED target
       ELSE /\ target' = [target EXCEPT ![s] = NoTarget]
            /\ UNCHANGED walk

--------------------------------------------------------------------------------
(* The scan.                                                                   *)

Onward(s, rest) ==
    pc' = [pc EXCEPT ![s] = IF rest = {} THEN "commit" ELSE "next"]

(* RunIntegrityScanUseCase.execute: the accounts to do.                        *)
Begin(s) ==
    /\ pc[s] = "idle"
    /\ Onward(s, Accounts)
    /\ todo' = [todo EXCEPT ![s] = Accounts]
    /\ lone' = {r \in lone : ~Running(r)}
    /\ quiet' = IF \E o \in Sessions \ {s} : Running(o)
                THEN quiet \ {s} ELSE quiet
    /\ UNCHANGED <<home, rows, acct, left, seen, known, met, target, stash, edits, own>>

(* Enter an account's home; one that is not a directory counts as empty.       *)
Enter(s) ==
    /\ pc[s] = "next"
    /\ \E a \in todo[s] :
        /\ acct' = [acct EXCEPT ![s] = a]
        /\ todo' = [todo EXCEPT ![s] = @ \ {a}]
        /\ seen' = [seen EXCEPT ![s] = NoFiles]
        /\ \/ /\ left' = [left EXCEPT ![s] = PathsOf(a)]
              /\ UNCHANGED quiet
           \/ /\ Faults
              /\ left' = [left EXCEPT ![s] = {}]
              /\ quiet' = quiet \ {s}
    /\ pc' = [pc EXCEPT ![s] = "walk"]
    /\ UNCHANGED <<home, rows, known, met, target, stash, edits, own, lone>>

(* Hash one file; one that cannot be read is skipped.                          *)
Look(s) ==
    /\ pc[s] = "walk"
    /\ \E p \in left[s] :
        /\ left' = [left EXCEPT ![s] = @ \ {p}]
        /\ \/ /\ seen' = [seen EXCEPT ![s][p] = Hashed(p, home[p])]
              /\ UNCHANGED quiet
           \/ /\ Faults
              /\ home[p] # Absent
              /\ quiet' = quiet \ {s}
              /\ UNCHANGED seen
    /\ UNCHANGED <<home, rows, pc, todo, acct, known, met, target, stash, edits, own,
                   lone>>

(* list_by_account, after the whole account has been walked.                   *)
ReadBaselines(s) ==
    /\ pc[s] = "walk"
    /\ left[s] = {}
    /\ known' = [known EXCEPT ![s] =
                    [p \in Paths |-> IF AccountOf[p] = acct[s]
                                     THEN Visible(s).base[p] ELSE None]]
    /\ pc' = [pc EXCEPT ![s] = "write"]
    /\ UNCHANGED <<home, rows, todo, acct, left, seen, met, target, stash, edits,
                   quiet, own, lone>>

(* The account differs nowhere: nothing is written and no lock is taken.       *)
Unchanged(s) ==
    /\ pc[s] = "write"
    /\ Added(known[s], seen[s], acct[s]) = {}
    /\ Saved(known[s], seen[s], acct[s]) = {}
    /\ Onward(s, todo[s])
    /\ UNCHANGED <<home, rows, walk, met, target, stash, edits, quiet, own, lone>>

(* The merge of the row that the scan saves first.                             *)
Merge(s) ==
    /\ pc[s] = "write"
    /\ writer # s
    /\ met[s] = None
    /\ \E p \in Leading(known[s], seen[s], acct[s]) :
        /\ known[s][p] # None
        /\ met' = [met EXCEPT ![s] = [path |-> p, base |-> db.base[p], state |-> None]]
    /\ UNCHANGED <<home, rows, pc, walk, target, stash, edits, quiet, own, lone>>

(* The scan has the lock, or waits for it with its first save or its first add. *)
MayWrite(s) ==
    \/ writer = s
    \/ /\ writer = None
       /\ \/ met[s] # None
          \/ \E p \in Leading(known[s], seen[s], acct[s]) : known[s][p] = None

(* Baselines added and saved, findings and events raised, under the write      *)
(* lock.  (account_id, relative_path) is unique.                               *)
Reconcile(s) ==
    /\ pc[s] = "write"
    /\ MayWrite(s)
    /\ Added(known[s], seen[s], acct[s]) \cup Saved(known[s], seen[s], acct[s]) # {}
    /\ \A p \in Added(known[s], seen[s], acct[s]) : Visible(s).base[p] = None
    /\ writer' = s
    /\ draft' = Reconciled(Visible(s), s)
    /\ Onward(s, todo[s])
    /\ UNCHANGED <<home, db, walk, met, target, stash, edits, quiet, own, lone>>

(* Another scan has added a baseline meanwhile: IntegrityError, rollback.      *)
Conflict(s) ==
    /\ pc[s] = "write"
    /\ MayWrite(s)
    /\ \E p \in Added(known[s], seen[s], acct[s]) : Visible(s).base[p] # None
    /\ UNCHANGED db
    /\ End(s, "failed")
    /\ UNCHANGED <<home, stash, edits, quiet, own, lone>>

(* The end of _run_tracked's body: one commit for all accounts.                *)
Commit(s) ==
    /\ pc[s] = "commit"
    /\ db' = Visible(s)
    /\ End(s, "done")
    /\ quiet' = {o \in quiet : o = s \/ ~Running(o)}
    /\ own' = IF s \in quiet THEN own ELSE NoRows
    /\ UNCHANGED <<home, stash, edits, lone>>

--------------------------------------------------------------------------------
(* Remediation, as far as a scan can tell.                                     *)

(* The file of path p changes by the hand of session r, or of an owner (None). *)
Touch(r, p) ==
    LET beside == {o \in Remedies : Running(o) /\ target[o].finding[2] = p}
        crowded == r # None /\ (beside # {} \/ \E s \in Scans : Running(s))
    IN  /\ own' = [own EXCEPT ![p] = None]
        /\ lone' = (lone \ beside) \ (IF crowded THEN {r} ELSE {})
        /\ Disturb

(* A quarantine loads a finding and moves the file away.                       *)
Take(r) ==
    /\ pc[r] = "idle"
    /\ \E f \in Reports :
        /\ db.found[f] # None
        /\ db.found[f].state = "NONE"
        /\ db.found[f].change # "DELETED"
        /\ home[f[2]] # Absent
        /\ target' = [target EXCEPT ![r] = [finding |-> f, file |-> home[f[2]]]]
        /\ stash' = [stash EXCEPT ![f] = home[f[2]]]
        /\ home' = [home EXCEPT ![f[2]] = Absent]
        /\ Touch(r, f[2])
    /\ pc' = [pc EXCEPT ![r] = "took"]
    /\ UNCHANGED <<rows, walk, met, edits>>

(* A restore loads a finding and moves the file back with the mode it had.     *)
Put(r) ==
    /\ pc[r] = "idle"
    /\ \E f \in Reports :
        /\ db.found[f] # None
        /\ db.found[f].state = "QUARANTINED"
        /\ stash[f] # Absent
        /\ home[f[2]] = Absent
        /\ target' = [target EXCEPT ![r] = [finding |-> f, file |-> stash[f]]]
        /\ stash' = [stash EXCEPT ![f] = Absent]
        /\ home' = [home EXCEPT ![f[2]] = stash[f]]
        /\ Touch(r, f[2])
    /\ pc' = [pc EXCEPT ![r] = "put"]
    /\ UNCHANGED <<rows, walk, met, edits>>

(* The first save of a remediation is of the finding when it is a quarantine,  *)
(* of the baseline, if there is one, when it is a restore: its merge.          *)
Compare(r) ==
    /\ pc[r] \in {"took", "put"}
    /\ met[r] = None
    /\ LET f == target[r].finding
           saved == pc[r] = "put" /\ db.found[f].current # Absent
       IN  met' = [met EXCEPT ![r] =
                    [path |-> f[2], base |-> IF saved THEN db.base[f[2]] ELSE None,
                     state |-> db.found[f].state]]
    /\ UNCHANGED <<home, rows, pc, walk, target, stash, edits, quiet, own, lone>>

(* Slip: the quarantine leaves the baseline active.                            *)
BaselineForgotten(tables, f, read) ==
    [tables EXCEPT !.found[f].state = UpdatedState(@, read.state, "QUARANTINED")]

(* QuarantineFindingUseCase: the baseline is retired with the file.            *)
Quarantined(tables, f, read) ==
    LET row == tables.base[f[2]]
        state == UpdatedState(tables.found[f].state, read.state, "QUARANTINED")
    IN  [base |-> [tables.base EXCEPT ![f[2]] =
                    IF row # None THEN Retired(row) ELSE None],
         found |-> [tables.found EXCEPT ![f] = [@ EXCEPT !.state = state]]]

(* RestoreFindingUseCase: the baseline gets the hash of the detection and the  *)
(* mode of the quarantine.                                                     *)
Restored(tables, f, file, read) ==
    LET row == tables.base[f[2]]
        told == [sha |-> tables.found[f].current, mode |-> file.mode]
        state == IF read.base # None THEN "RESTORED"
                 ELSE UpdatedState(tables.found[f].state, read.state, "RESTORED")
    IN  [base |-> [tables.base EXCEPT ![f[2]] =
                    IF read.base # None THEN Updated(row, read.base, Tracked(told)) ELSE row],
         found |-> [tables.found EXCEPT ![f] = [@ EXCEPT !.state = state]]]

(* The rows of a remediation, in one transaction that waits for the lock.      *)
Settle(r) ==
    /\ pc[r] \in {"took", "put"}
    /\ met[r] # None
    /\ writer = None
    /\ LET f == target[r].finding IN
        /\ db' = IF pc[r] = "took" THEN Quarantined(db, f, met[r])
                 ELSE Restored(db, f, target[r].file, met[r])
        /\ own' = IF r \in lone THEN [own EXCEPT ![f[2]] = f] ELSE own
    /\ End(r, "done")
    /\ Disturb
    /\ UNCHANGED <<home, stash, edits, lone>>

--------------------------------------------------------------------------------
(* The surroundings.                                                           *)

(* The owner, the site or an intruder writes, replaces or removes a file       *)
(* (external).                                                                 *)
OwnerEdit ==
    /\ edits < MaxEdits
    /\ edits' = edits + 1
    /\ \E p \in Paths, file \in Files \cup {Absent} :
        /\ file # home[p]
        /\ home' = [home EXCEPT ![p] = file]
        /\ Touch(None, p)
    /\ UNCHANGED <<rows, pc, walk, met, target, stash>>

(* A crash, a busy timeout or a cancelled request: the transaction is rolled   *)
(* back; a file that was moved stays where it is.                              *)
Die(s) ==
    /\ Faults
    /\ Running(s)
    /\ UNCHANGED db
    /\ End(s, "failed")
    /\ UNCHANGED <<home, stash, edits, quiet, own, lone>>

(* Before the first scan, and after a first scan of the very same files.        *)
Established == [p \in Paths |-> IF Hashed(p, home[p]) = Absent
                               THEN None ELSE Tracked(home[p])]

Init ==
    /\ home \in Homes
    /\ \E base \in {NoRows, Established} :
            db = [base |-> base, found |-> [r \in Reports |-> None]]
    /\ draft = db
    /\ writer = None
    /\ pc = [s \in Sessions |-> "idle"]
    /\ todo = [s \in Scans |-> {}]
    /\ acct = [s \in Scans |-> None]
    /\ left = [s \in Scans |-> {}]
    /\ seen = [s \in Scans |-> NoFiles]
    /\ known = [s \in Scans |-> NoRows]
    /\ met = [s \in Sessions |-> None]
    /\ target = [r \in Remedies |-> NoTarget]
    /\ stash = [r \in Reports |-> Absent]
    /\ edits = 0
    /\ quiet = Scans
    /\ own = NoRows
    /\ lone = Remedies

Scan(s) ==
    \/ Begin(s) \/ Enter(s) \/ Look(s) \/ ReadBaselines(s)
    \/ Unchanged(s) \/ Merge(s) \/ Reconcile(s) \/ Conflict(s) \/ Commit(s)

Remedy(r) == Take(r) \/ Put(r) \/ Compare(r) \/ Settle(r)

Next ==
    \/ \E s \in Scans : Scan(s)
    \/ \E r \in Remedies : Remedy(r)
    \/ \E s \in Sessions : Die(s)
    \/ OwnerEdit

Spec == Init /\ [][Next]_vars

--------------------------------------------------------------------------------
(* Properties.                                                                 *)

Agrees(row, finding) ==
    IF finding.change = "DELETED"
    THEN ~row.active /\ row.sha = finding.previous
    ELSE row.active /\ row.sha = finding.current

(* What differs between two versions of a row is as sha and active say.        *)
Becomes(old, new, sha, active) ==
    /\ new.sha # old.sha => new.sha = sha
    /\ new.active # old.active => new.active = active

AgreesInPart(old, new, finding) ==
    IF finding.change = "DELETED"
    THEN Becomes(old, new, finding.previous, FALSE)
    ELSE Becomes(old, new, finding.current, TRUE)

Reported(p) ==
    \E s \in Scans :
        LET finding == db'.found[<<s, p>>]
        IN  /\ db.found[<<s, p>>] = None
            /\ finding # None
            /\ \/ Agrees(db'.base[p], finding)
               \/ Early(s, p) /\ AgreesInPart(db.base[p], db'.base[p], finding)

Remediated(p) ==
    \E r \in Remedies :
        LET f == target[r].finding IN
        /\ pc'[r] = "done"
        /\ f # None
        /\ f[2] = p
        /\ \/ pc[r] = "took" /\ db'.base[p] = Retired(db.base[p])
           \/ /\ pc[r] = "put"
              /\ db'.found[f].state = "RESTORED"
              /\ Becomes(db.base[p], db'.base[p], db.found[f].current, TRUE)

(* An existing baseline never changes silently: the transaction that changes   *)
(* it also raises the finding that says what it is now, or is the quarantine   *)
(* that retires it or the restore that revives it; whatever overlaps, fails or *)
(* dies.  One row can be other than its finding or its restore says: that of   *)
(* the transaction's first save, compared before the lock was taken, of which  *)
(* this holds column by column, of what the commit changes.  (One session per  *)
(* scan, whose rows are flushed one by one and committed at the end:           *)
(* _scan_account, SqlAlchemyFileBaselineRepository.save and _run_tracked.)     *)
NoSilentChange ==
    [][\A p \in Paths :
        db.base[p] # None /\ db'.base[p] # db.base[p]
            => db'.base[p] # None /\ (Reported(p) \/ Remediated(p))]_vars

(* The change a scan has to report when the baseline claimed `old` and the     *)
(* disk holds `new`.                                                           *)
ChangeOf(old, new) ==
    CASE old = Absent -> "ADDED"
      [] new = Absent -> "DELETED"
      [] old # Absent /\ new # Absent /\ old.sha # new.sha -> "MODIFIED"
      [] OTHER -> "PERMISSIONS_CHANGED"

Commits(s) == pc[s] = "commit" /\ pc'[s] = "done"

(* A scan that nothing disturbs between its start and its commit leaves every  *)
(* baseline claiming what is on the disk, and has reported every difference,   *)
(* and nothing else, under the right name; only an account without a single    *)
(* baseline is taken over in silence (RunIntegrityScanUseCase).                *)
ScanContract ==
    [][\A s \in quiet : Commits(s) =>
        \A p \in Paths :
            LET old == Claims(db.base[p])
                new == Hashed(p, home[p])
                finding == db'.found[<<s, p>>]
            IN  /\ Claims(db'.base[p]) = new
                /\ finding = None
                      <=> old = new \/ First(db.base, AccountOf[p])
                /\ finding # None => finding.change = ChangeOf(old, new)]_vars

(* What Sentinel itself moved and settled while nothing else touched it is     *)
(* not reported by the next undisturbed scan: neither the quarantine (the      *)
(* docstring of QuarantineFindingUseCase) nor the restore, provided the bytes  *)
(* are still those of the detection, whose hash the restore writes down.       *)
OwnMovesUnreported ==
    [][\A s \in quiet : Commits(s) =>
        \A p \in Paths :
            own[p] # None /\ (home[p] = Absent
                              \/ home[p].sha = db.found[own[p]].current)
                => db'.found[<<s, p>>] = None]_vars

================================================================================
