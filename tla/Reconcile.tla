------------------------------- MODULE Reconcile -------------------------------
(* The jobs that keep tables in step with the server: discovery of accounts    *)
(* and WordPress installations, and below it one job of each installation's    *)
(* extensions, settings or crontab, or of the temporary files.                 *)
(*                                                                             *)
(* A run is one job in one process (the worker's scheduler, "Run Now" in the   *)
(* API), over and over.  The jobs below discovery share no table with each     *)
(* other, so a behaviour follows one of them, its kind, beside discovery.      *)
(* The database has one writer: a run reads what is committed until its first  *)
(* write, then holds the lock to the end.  A save is session.merge and flush:  *)
(* merge reads the row again, flush writes the columns in which the object     *)
(* differs from it.  Under the lock that is the whole row; a first write that  *)
(* is a save has read its row before it has the lock.                          *)
EXTENDS Integers, Sequences, FiniteSets

CONSTANTS
    Runs,         \* executions of jobs, each again and again
    Discoverers,  \* those of discovery; the others run the kind's job
    Kinds,        \* the jobs a behaviour may follow
    Accounts, Sites, Paths,
    OwnerOf,      \* [Sites -> Accounts]: in whose home it lies
    Keys,         \* slugs, settings or commands
    Values,       \* versions, settings, schedules or domains
    On,           \* the value that makes a setting worth a flag
    Required,     \* settings flagged unless they are On (DISALLOW_FILE_EDIT)
    IniKeys,      \* settings of .user.ini, the others are wp-config.php's
    Suspicious,   \* commands with a suspicious marker
    Listings,     \* contents of trueuserdomains
    Contents,     \* [Kinds -> what one installation has on disk]
    MaxEdits,     \* bound: changes on the server
    MaxDeaths,    \* bound: runs that die
    Absent,       \* nothing there
    None

Items == {"inventory", "configuration", "wordpress_inventory"}
Line == [account : Accounts, domain : Values]
Finding == [account : Accounts, domain : Values, nth : Nat]
Verdicts == {"LEGITIMATE", "SUSPICIOUS", "MALICIOUS"}

ASSUME ReconcileAssumption ==
    /\ Discoverers \subseteq Runs
    /\ Kinds \subseteq Items \cup {"discovery", "temp_file_scan"}
    /\ OwnerOf \in [Sites -> Accounts]
    /\ On \in Values
    /\ Required \cup IniKeys \subseteq Keys
    /\ Required \cap IniKeys = {}
    /\ Suspicious \subseteq Keys
    /\ Listings \subseteq Seq(Line)
    /\ {MaxEdits, MaxDeaths} \subseteq Nat
    /\ Absent # None
    /\ {Absent, None} \cap (Values \cup Keys \cup Runs \cup Sites \cup Accounts) = {}
    /\ None \notin Verdicts
    /\ Accounts \cap Sites = {}

(* What a directory of extensions, the configuration and a crontab can hold;   *)
(* Absent is no header, no value and a line that is no entry.                  *)
ASSUME ContentsAssumption ==
    /\ Contents["inventory"] \subseteq [Keys -> Values \cup {Absent, None}]
    /\ Contents["configuration"] \subseteq
           [config : BOOLEAN, setting : [Keys -> Values \cup {Absent}]]
    /\ Contents["wordpress_inventory"] \subseteq
           Seq([key : Keys, value : Values] \cup {Absent})

VARIABLES
    kind,      \* the job this behaviour follows beside discovery
    listing,   \* /etc/trueuserdomains, <<>> if it is missing
    sites,     \* the version of the WordPress at each path, or Absent
    contents,  \* what each installation has on disk
    files,     \* temporary files: the severities of the rules they match
    edits,     \* how often the server has changed
    db,        \* the committed tables
    draft,     \* the tables as the holder of the write lock sees them
    writer,    \* that run, or None
    pc,        \* where each run is
    hand,      \* the server row, installation or observation it works on
    todo,      \* installations it has still to do
    left,      \* findings it has still to write
    known,     \* the rows it read
    met,       \* the row that its first merge has read, or None
    heard,     \* accounts and installations its discovery has seen
    view,      \* history: what it saw of each installation
    lone,      \* history: has no other run committed since it began?
    deaths     \* how many runs have died

server == <<listing, sites, contents, files, edits>>
own == <<hand, todo, left, known, heard, view>>
vars == <<kind, server, db, draft, writer, pc, own, met, lone, deaths>>

JobOf(r) == IF r \in Discoverers THEN "discovery" ELSE kind

--------------------------------------------------------------------------------
(* Tables.                                                                     *)

Account == [domain : Values, active : BOOLEAN]
Site == [version : Values \cup {None}, active : BOOLEAN]
Row == [key : Keys, value : Values \cup {None}, flag : BOOLEAN, present : BOOLEAN]
Met == [site : Sites, nth : Nat, row : Row]
Entry == [key : Keys, value : Values \cup {None}, flag : BOOLEAN, nth : Nat]

Severities == 1..4
HighRank == 3
Observation == [path : Paths, verdict : Verdicts]

Tables == [server : BOOLEAN,
           account : [Accounts -> Account \cup {None}],
           site : [Sites -> Site \cup {None}],
           row : [Sites -> Seq(Row)],
           snapshot : [Sites -> Nat],
           observed : [Paths -> Verdicts \cup {None}],
           alerts : [Paths -> Nat]]

ASSUME MetAssumption == None \notin Met

(* Of all but what a merge has read.                                           *)
ShapeOK ==
    /\ kind \in Kinds
    /\ listing \in Listings
    /\ sites \in [Sites -> Values \cup {Absent, None}]
    /\ files \in [Paths -> (SUBSET Severities) \cup {Absent}]
    /\ db \in Tables /\ draft \in Tables
    /\ writer \in Runs \cup {None}
    /\ pc \in [Runs -> {"idle", "server", "accounts", "sites", "rows", "scan",
                        "upsert", "look", "insert", "commit"}]
    /\ todo \in [Runs -> SUBSET Sites]
    /\ left \in [Runs -> SUBSET (Finding \cup Entry \cup Observation)]
    /\ known \in [Runs -> Seq(Row)]
    /\ heard \in [Runs -> SUBSET (Accounts \cup Sites)]
    /\ lone \in [Runs -> BOOLEAN]
    /\ edits \in 0..MaxEdits /\ deaths \in 0..MaxDeaths

(* A merge reads a row of the table, where the run has read one before it.     *)
TypeOK == ShapeOK /\ met \in [Runs -> Met \cup {None}]

(* What a run reads, and whether it may write.                                 *)
Visible(r) == IF writer = r THEN draft ELSE db
CanWrite(r) == writer \in {None, r}

--------------------------------------------------------------------------------
(* What the readers make of what they find.                                    *)

(* TrueUserDomainsReader: one account per user, with its first domain.         *)
Discovered(lines) ==
    {[account |-> lines[i].account, domain |-> lines[i].domain, nth |-> i] :
        i \in {j \in DOMAIN lines :
                \A k \in 1..(j - 1) : lines[k].account # lines[j].account}}

(* FilesystemWordPressDetector: the installations in the account's home.       *)
Detected(a) == {s \in Sites : OwnerOf[s] = a /\ sites[s] # Absent}

(* FilesystemWordPressExtensionScanner: directories with a header, which may   *)
(* have no version; a directory that cannot be listed has none.                *)
ScannedExtensions(raw) ==
    {[key |-> k, value |-> raw[k], flag |-> FALSE, nth |-> 1] :
        k \in {x \in Keys : raw[x] # Absent}}

(* Slip: a setting that is missing is reported as it stands.                   *)
ScannedAsWritten(raw) ==
    {[key |-> k, value |-> raw.setting[k],
      flag |-> (raw.setting[k] = On) # (k \in Required), nth |-> 1] :
        k \in {x \in Keys : /\ x \in IniKeys \/ raw.config
                            /\ raw.setting[x] # Absent \/ x \in Required}}

(* FilesystemWordPressConfigurationScanner: what the files set, and of a       *)
(* wp-config.php that can be read also the required settings it lacks.         *)
ScannedSettings(raw) ==
    {[key |-> k,
      value |-> IF raw.setting[k] = Absent THEN None ELSE raw.setting[k],
      flag |-> (raw.setting[k] = On) # (k \in Required),
      nth |-> 1] :
        k \in {x \in Keys : /\ x \in IniKeys \/ raw.config
                            /\ raw.setting[x] # Absent \/ x \in Required}}

(* SystemCrontabScanner and _classify: lines that are entries, in their order. *)
ScannedCrontab(raw) ==
    {[key |-> raw[i].key, value |-> raw[i].value,
      flag |-> raw[i].key \in Suspicious, nth |-> i] :
        i \in {j \in DOMAIN raw : raw[j] # Absent}}

Scanned(s) ==
    CASE kind = "inventory" -> ScannedExtensions(contents[s])
      [] kind = "configuration" -> ScannedSettings(contents[s])
      [] kind = "wordpress_inventory" -> ScannedCrontab(contents[s])
      [] OTHER -> {}

(* _classify of the temporary files: the worst rule decides.                   *)
Classified(matches) ==
    IF matches = {} THEN "LEGITIMATE"
    ELSE IF \E m \in matches : m >= HighRank THEN "MALICIOUS" ELSE "SUSPICIOUS"

--------------------------------------------------------------------------------
(* Changes of the tables.                                                      *)

(* Slip: what comes back is not active again.                                  *)
SeenButInactive(row, value) ==
    IF row = None THEN [domain |-> value, active |-> TRUE]
    ELSE [row EXCEPT !.domain = value]

SeenAccount(row, domain) ==
    IF row = None THEN [domain |-> domain, active |-> TRUE]
    ELSE [row EXCEPT !.domain = domain, !.active = TRUE]

SeenSite(row, version) ==
    IF row = None THEN [version |-> version, active |-> TRUE]
    ELSE [row EXCEPT !.version = version, !.active = TRUE]

(* _reconcile_account and, for what its home holds, _reconcile_installation.   *)
WithAccount(t, line) ==
    [t EXCEPT
        !.account[line.account] = SeenAccount(@, line.domain),
        !.site = [s \in Sites |-> IF s \in Detected(line.account)
                                  THEN SeenSite(@[s], sites[s]) ELSE @[s]]]

(* _deactivate_stale_accounts, _deactivate_stale_installations.                *)
Deactivated(t, seen) ==
    [t EXCEPT
        !.account = [a \in Accounts |-> IF @[a] # None /\ a \notin seen
                                        THEN [@[a] EXCEPT !.active = FALSE] ELSE @[a]],
        !.site = [s \in Sites |-> IF @[s] # None /\ s \notin seen
                                  THEN [@[s] EXCEPT !.active = FALSE] ELSE @[s]]]

(* The row a dictionary keyed by slug, setting or command keeps: the last.     *)
Kept(rows, key) ==
    {i \in DOMAIN rows : rows[i].key = key /\ \A j \in DOMAIN rows :
                                                j > i => rows[j].key # key}

NewRow(e) == [key |-> e.key, value |-> e.value, flag |-> e.flag, present |-> TRUE]

(* Slip: the tables have no unique constraints.                                *)
NoConstraint(t, s, key) == FALSE

(* The table has a unique constraint, except the one of cron jobs.             *)
Conflicts(t, s, key) ==
    /\ kind # "wordpress_inventory"
    /\ \E i \in DOMAIN t.row[s] : t.row[s][i].key = key

(* A row after the flush of a save whose merge has read `read`.                *)
Updated(row, read, new) ==
    [key |-> row.key,
     value |-> IF new.value = read.value THEN row.value ELSE new.value,
     flag |-> IF new.flag = read.flag THEN row.flag ELSE new.flag,
     present |-> IF new.present = read.present THEN row.present ELSE new.present]

(* Row i of t after a save; only the run's first merge can be out of date.     *)
Saved(t, s, i, read, new) ==
    IF read # None /\ read.nth = i THEN Updated(t.row[s][i], read.row, new) ELSE new

(* add, or mark_seen and save.                                                 *)
Upserted(t, s, rows, e, read) ==
    IF Kept(rows, e.key) = {}
    THEN [t EXCEPT !.row[s] = Append(@, NewRow(e))]
    ELSE [t EXCEPT !.row[s] = [i \in DOMAIN @ |->
            IF i \in Kept(rows, e.key) THEN Saved(t, s, i, read, NewRow(e)) ELSE @[i]]]

(* Slip: what is not seen stays.                                               *)
NothingGone(rows, keys) == {}

(* The rows a run marks absent, as it read them.                               *)
Gone(rows, keys) ==
    {i \in DOMAIN rows : /\ rows[i].present
                         /\ rows[i].key \notin keys
                         /\ i \in Kept(rows, rows[i].key)}

MarkedAbsent(t, s, rows, keys, read) ==
    [t EXCEPT !.row[s] = [i \in DOMAIN @ |->
        IF i \in Gone(rows, keys)
        THEN Saved(t, s, i, read, [rows[i] EXCEPT !.present = FALSE]) ELSE @[i]]]

(* _emit_snapshot, with what the run itself has written.                       *)
Snapshot(t, s) ==
    IF kind = "wordpress_inventory"
    THEN [t EXCEPT !.snapshot[s] =
            Cardinality({i \in DOMAIN t.row[s] : t.row[s][i].present})]
    ELSE t

(* Slip: the column is not unique.                                             *)
NeverTaken(t, path) == FALSE

(* absolute_path is unique.                                                    *)
Taken(t, path) == t.observed[path] # None

(* The observation, and an event if it is not legitimate.                      *)
Observed(t, o) ==
    [t EXCEPT !.observed[o.path] = o.verdict,
              !.alerts[o.path] = IF o.verdict = "LEGITIMATE" THEN @ ELSE @ + 1]

--------------------------------------------------------------------------------
(* Runs.                                                                       *)

Goto(r, label) == pc' = [pc EXCEPT ![r] = label]

(* The run's objects are gone.                                                 *)
Forget(r) ==
    /\ Goto(r, "idle")
    /\ hand' = [hand EXCEPT ![r] = None]
    /\ todo' = [todo EXCEPT ![r] = {}]
    /\ left' = [left EXCEPT ![r] = {}]
    /\ known' = [known EXCEPT ![r] = <<>>]
    /\ met' = [met EXCEPT ![r] = None]
    /\ heard' = [heard EXCEPT ![r] = {}]
    /\ view' = [view EXCEPT ![r] = [s \in Sites |-> Absent]]
    /\ UNCHANGED <<kind, server>>

(* The session is closed without a commit.                                     *)
Rollback(r) ==
    /\ writer' = IF writer = r THEN None ELSE writer
    /\ draft' = IF writer = r THEN db ELSE draft
    /\ lone' = [lone EXCEPT ![r] = TRUE]
    /\ UNCHANGED db
    /\ Forget(r)

(* The first write takes the lock.                                             *)
Writes(r, t) ==
    /\ CanWrite(r)
    /\ writer' = r
    /\ draft' = t
    /\ UNCHANGED <<db, kind, server, met, lone, deaths>>

Reads == UNCHANGED <<kind, server, db, draft, writer, met, lone, deaths>>

(* RunDiscoveryUseCase: is this host's server row there?                       *)
FindServer(r) ==
    /\ pc[r] = "idle"
    /\ JobOf(r) = "discovery"
    /\ hand' = [hand EXCEPT ![r] = db.server]
    /\ Goto(r, "server")
    /\ Reads
    /\ UNCHANGED <<todo, left, known, heard, view>>

(* It is added or saved, and the list of accounts is read.                     *)
SaveServer(r) ==
    /\ pc[r] = "server"
    /\ hand[r] \/ ~Visible(r).server
    /\ Writes(r, [Visible(r) EXCEPT !.server = TRUE])
    /\ left' = [left EXCEPT ![r] = Discovered(listing)]
    /\ Goto(r, "accounts")
    /\ UNCHANGED <<hand, todo, known, heard, view>>

(* Two first runs: hostname is unique.                                         *)
ServerConflict(r) ==
    /\ pc[r] = "server"
    /\ CanWrite(r)
    /\ ~hand[r] /\ db.server
    /\ UNCHANGED deaths
    /\ Rollback(r)

(* One account, and the installations found in its home now.                   *)
SeeAccount(r) ==
    /\ pc[r] = "accounts"
    /\ \E line \in left[r] :
        /\ \A other \in left[r] : line.nth <= other.nth
        /\ Writes(r, WithAccount(draft, line))
        /\ left' = [left EXCEPT ![r] = @ \ {line}]
        /\ heard' = [heard EXCEPT ![r] = @ \cup {line.account} \cup Detected(line.account)]
    /\ UNCHANGED <<pc, hand, todo, known, view>>

Deactivate(r) ==
    /\ pc[r] = "accounts"
    /\ left[r] = {}
    /\ Writes(r, Deactivated(draft, heard[r]))
    /\ Goto(r, "commit")
    /\ UNCHANGED own

(* The item jobs: the active installations.                                    *)
ListSites(r) ==
    /\ pc[r] = "idle"
    /\ JobOf(r) \in Items
    /\ todo' = [todo EXCEPT ![r] =
            {s \in Sites : db.site[s] # None /\ db.site[s].active}]
    /\ Goto(r, "sites")
    /\ Reads
    /\ UNCHANGED <<hand, left, known, heard, view>>

(* The next installation: its rows are read, then its files; the cron job      *)
(* reads the crontab first.                                                    *)
CrontabFirst == kind = "wordpress_inventory"

Turn(r, s) ==
    /\ s \in todo[r]
    /\ hand' = [hand EXCEPT ![r] = s]
    /\ todo' = [todo EXCEPT ![r] = @ \ {s}]

ReadRows(r) ==
    /\ \/ /\ pc[r] = "sites" /\ ~CrontabFirst
          /\ \E s \in Sites : /\ Turn(r, s)
                              /\ known' = [known EXCEPT ![r] = Visible(r).row[s]]
          /\ Goto(r, "scan")
       \/ /\ pc[r] = "rows"
          /\ known' = [known EXCEPT ![r] = Visible(r).row[hand[r]]]
          /\ Goto(r, "upsert")
          /\ UNCHANGED <<hand, todo>>
    /\ Reads
    /\ UNCHANGED <<left, heard, view>>

Scan(r) ==
    /\ \/ /\ pc[r] = "sites" /\ CrontabFirst
          /\ \E s \in Sites : /\ Turn(r, s)
                              /\ left' = [left EXCEPT ![r] = Scanned(s)]
                              /\ view' = [view EXCEPT ![r][s] = Scanned(s)]
          /\ Goto(r, "rows")
       \/ /\ pc[r] = "scan"
          /\ left' = [left EXCEPT ![r] = Scanned(hand[r])]
          /\ view' = [view EXCEPT ![r][hand[r]] = Scanned(hand[r])]
          /\ Goto(r, "upsert")
          /\ UNCHANGED <<hand, todo>>
    /\ Reads
    /\ UNCHANGED <<known, heard>>

Leading(entries) == {e \in entries : \A f \in entries : e.nth <= f.nth}
KeysSeen(r) == {e.key : e \in view[r][hand[r]]}

(* The merge of the row that a run saves first: one that it has seen, or, when *)
(* it has seen nothing, one that is gone.                                      *)
Merge(r) ==
    /\ pc[r] = "upsert"
    /\ writer # r
    /\ met[r] = None
    /\ \E i \in IF left[r] # {}
                THEN UNION {Kept(known[r], e.key) : e \in Leading(left[r])}
                ELSE Gone(known[r], KeysSeen(r)) :
        met' = [met EXCEPT ![r] =
                    [site |-> hand[r], nth |-> i, row |-> db.row[hand[r]][i]]]
    /\ UNCHANGED <<kind, server, db, draft, writer, pc, own, lone, deaths>>

(* A write that saves these rows has been through its merge; one that saves    *)
(* none needs no merge.                                                        *)
Ready(r, saved) ==
    writer # r => IF saved = {} THEN met[r] = None
                  ELSE met[r] # None /\ met[r].nth \in saved

(* What the first merge read, until the lock is taken.                         *)
Read(r) == IF writer = r THEN None ELSE met[r]

(* One finding.  A row that another run added meanwhile is a conflict.         *)
Upsert(r) ==
    /\ pc[r] = "upsert"
    /\ \E e \in Leading(left[r]) :
        /\ Ready(r, Kept(known[r], e.key))
        /\ Kept(known[r], e.key) = {} => ~Conflicts(Visible(r), hand[r], e.key)
        /\ Writes(r, Upserted(Visible(r), hand[r], known[r], e, Read(r)))
        /\ left' = [left EXCEPT ![r] = @ \ {e}]
    /\ UNCHANGED <<pc, hand, todo, known, heard, view>>

RowConflict(r) ==
    /\ pc[r] = "upsert"
    /\ CanWrite(r)
    /\ \E e \in left[r] : /\ Kept(known[r], e.key) = {}
                          /\ Ready(r, {})
                          /\ Conflicts(Visible(r), hand[r], e.key)
    /\ UNCHANGED deaths
    /\ Rollback(r)

(* What is left over is marked absent; the cron job always writes an event.    *)
MarkAbsent(r) ==
    /\ pc[r] = "upsert"
    /\ left[r] = {}
    /\ LET keys == KeysSeen(r)
           gone == Gone(known[r], keys)
       IN  IF gone = {} /\ kind # "wordpress_inventory"
           THEN Reads
           ELSE /\ Ready(r, gone)
                /\ Writes(r, Snapshot(MarkedAbsent(Visible(r), hand[r], known[r], keys,
                                                   Read(r)), hand[r]))
    /\ known' = [known EXCEPT ![r] = <<>>]
    /\ hand' = [hand EXCEPT ![r] = None]
    /\ Goto(r, "sites")
    /\ UNCHANGED <<todo, left, heard, view>>

(* ScanTempDirectoriesUseCase: all files are read and judged first.            *)
Observe(r) ==
    /\ pc[r] = "idle"
    /\ JobOf(r) = "temp_file_scan"
    /\ left' = [left EXCEPT ![r] =
            {[path |-> p, verdict |-> Classified(files[p])] :
                p \in {q \in Paths : files[q] # Absent}}]
    /\ Goto(r, "look")
    /\ Reads
    /\ UNCHANGED <<hand, todo, known, heard, view>>

(* get_by_path: a path that has an observation is passed over.                 *)
Look(r) ==
    /\ pc[r] = "look"
    /\ \E o \in left[r] :
        /\ left' = [left EXCEPT ![r] = @ \ {o}]
        /\ IF Visible(r).observed[o.path] = None
           THEN hand' = [hand EXCEPT ![r] = o] /\ Goto(r, "insert")
           ELSE UNCHANGED <<hand, pc>>
    /\ Reads
    /\ UNCHANGED <<todo, known, heard, view>>

Insert(r) ==
    /\ pc[r] = "insert"
    /\ ~Taken(Visible(r), hand[r].path)
    /\ Writes(r, Observed(Visible(r), hand[r]))
    /\ hand' = [hand EXCEPT ![r] = None]
    /\ Goto(r, "look")
    /\ UNCHANGED <<todo, left, known, heard, view>>

(* Another run has observed the file since.                                    *)
PathConflict(r) ==
    /\ pc[r] = "insert"
    /\ CanWrite(r)
    /\ Taken(Visible(r), hand[r].path)
    /\ UNCHANGED deaths
    /\ Rollback(r)

(* The job has done what it had to do.                                         *)
Finished(r) ==
    \/ pc[r] = "commit"
    \/ pc[r] = "sites" /\ todo[r] = {}
    \/ pc[r] = "look" /\ left[r] = {}

Commit(r) ==
    /\ Finished(r)
    /\ db' = Visible(r)
    /\ UNCHANGED draft
    /\ writer' = IF writer = r THEN None ELSE writer
    /\ lone' = [x \in Runs |-> IF x = r \/ pc[x] = "idle" THEN TRUE
                               ELSE lone[x] /\ writer # r]
    /\ UNCHANGED deaths
    /\ Forget(r)

(* A crash, a busy timeout, a source that raises.                              *)
Die(r) ==
    /\ pc[r] # "idle"
    /\ deaths < MaxDeaths
    /\ deaths' = deaths + 1
    /\ Rollback(r)

--------------------------------------------------------------------------------
(* The server changes, in what the jobs of this behaviour read.                *)
Edit ==
    /\ edits < MaxEdits
    /\ edits' = edits + 1
    /\ \/ listing' \in Listings \ {listing} /\ UNCHANGED <<sites, contents, files>>
       \/ /\ \E s \in Sites, v \in Values \cup {Absent} :
                v # sites[s] /\ sites' = [sites EXCEPT ![s] = v]
          /\ UNCHANGED <<listing, contents, files>>
       \/ /\ kind \in Items
          /\ \E s \in Sites : \E raw \in Contents[kind] \ {contents[s]} :
                contents' = [contents EXCEPT ![s] = raw]
          /\ UNCHANGED <<listing, sites, files>>
       \/ /\ kind = "temp_file_scan"
          /\ \E p \in Paths : \E m \in {{}, {2}, {2, 4}, Absent} \ {files[p]} :
                files' = [files EXCEPT ![p] = m]
          /\ UNCHANGED <<listing, sites, contents>>
    /\ UNCHANGED <<kind, db, draft, writer, pc, own, met, lone, deaths>>

NoRows == [server |-> FALSE,
           account |-> [a \in Accounts |-> None],
           site |-> [s \in Sites |-> None],
           row |-> [s \in Sites |-> <<>>],
           snapshot |-> [s \in Sites |-> 0],
           observed |-> [p \in Paths |-> None],
           alerts |-> [p \in Paths |-> 0]]

(* What an earlier discovery may have left: accounts and installations that    *)
(* were gone when it last looked.                                              *)
Earlier ==
    [NoRows EXCEPT !.server = TRUE,
                   !.account = [a \in Accounts |-> [domain |-> On, active |-> FALSE]],
                   !.site = [s \in Sites |-> [version |-> None, active |-> FALSE]]]

Init ==
    /\ kind \in Kinds
    /\ listing \in Listings \ {<<>>}
    /\ sites = [s \in Sites |-> On]
    /\ contents \in [Sites -> IF kind \in Items THEN Contents[kind] ELSE {Absent}]
    /\ files = [p \in Paths |-> Absent]
    /\ edits = 0 /\ deaths = 0
    /\ db \in {NoRows, Earlier} /\ draft = db /\ writer = None
    /\ pc = [r \in Runs |-> "idle"]
    /\ hand = [r \in Runs |-> None]
    /\ todo = [r \in Runs |-> {}]
    /\ left = [r \in Runs |-> {}]
    /\ known = [r \in Runs |-> <<>>]
    /\ met = [r \in Runs |-> None]
    /\ heard = [r \in Runs |-> {}]
    /\ view = [r \in Runs |-> [s \in Sites |-> Absent]]
    /\ lone = [r \in Runs |-> TRUE]

Step(r) ==
    \/ FindServer(r) \/ SaveServer(r) \/ ServerConflict(r)
    \/ SeeAccount(r) \/ Deactivate(r)
    \/ ListSites(r) \/ ReadRows(r) \/ Scan(r)
    \/ Merge(r) \/ Upsert(r) \/ RowConflict(r) \/ MarkAbsent(r)
    \/ Observe(r) \/ Look(r) \/ Insert(r) \/ PathConflict(r)
    \/ Commit(r)

Next == (\E r \in Runs : Step(r) \/ Die(r)) \/ Edit

Spec == Init /\ [][Next]_vars

(* Each run is started at every interval and carried on.  Runs are minutes     *)
(* apart and take seconds, so a run that waits for the lock meets it free      *)
(* again and again: strong fairness.                                           *)
FairSpec == Spec /\ \A r \in Runs : SF_vars(Step(r))
--------------------------------------------------------------------------------
(* Properties.                                                                 *)

(* Two runs that both find a thing missing cannot both add it: whatever        *)
(* overlaps, a table with a unique key has one row of it.                      *)
OneRowPerKey ==
    kind # "wordpress_inventory" =>
        \A s \in Sites : \A i, j \in DOMAIN db.row[s] :
            db.row[s][i].key = db.row[s][j].key => i = j

(* Each suspicious or malicious file ever observed has raised one event, and   *)
(* a legitimate one none, whichever processes observe it together or die.      *)
OneAlertPerFile ==
    \A p \in Paths :
        db.alerts[p] = IF db.observed[p] \in {None, "LEGITIMATE"} THEN 0 ELSE 1

Last(entries, key) ==
    CHOOSE e \in entries : /\ e.key = key
                           /\ \A f \in entries : f.key = key => f.nth <= e.nth

(* A row of a cron job stands for its command unless another row does.         *)
Twin(rows, i) == \E j \in DOMAIN rows : j # i /\ rows[j].key = rows[i].key

(* Nothing is present but what was seen, or the twin of another row.           *)
NothingElse(rows, entries) ==
    \A i \in DOMAIN rows :
        rows[i].present => Twin(rows, i) \/ \E e \in entries : e.key = rows[i].key

(* The rows say what was seen: every finding, as it was seen.                  *)
Shows(rows, entries) ==
    \A e \in entries : \E i \in DOMAIN rows : rows[i] = NewRow(Last(entries, e.key))

(* Row i of site s is the one the run's first save is of.                      *)
Early(r, s, i) == met[r] # None /\ met[r].site = s /\ met[r].nth = i

(* What differs between two versions of a row is as in `new`.                  *)
Becomes(before, after, new) ==
    /\ after.key = new.key
    /\ after.value # before.value => after.value = new.value
    /\ after.flag # before.flag => after.flag = new.flag
    /\ after.present # before.present => after.present = new.present

(* The same of a commit beside others: the row that was read before the lock   *)
(* was taken shows what was seen in what the commit changes of it.             *)
ShowsBeside(r, s, before, after, entries) ==
    \A e \in entries : \E i \in DOMAIN after :
        LET new == NewRow(Last(entries, e.key))
        IN  \/ after[i] = new
            \/ Early(r, s, i) /\ Becomes(before[i], after[i], new)

(* What a run commits is what it saw on the server, for every account and      *)
(* every installation it looked at.  If no other run has committed while it    *)
(* ran, what it did not see is active or present no longer.  If one has, the   *)
(* rows of what it saw are still as it saw them, but for the row of its first  *)
(* save, of which this holds column by column, of what the commit changes.     *)
(* (A list of accounts that cannot be read counts as an empty one,             *)
(* RunDiscoveryUseCase.execute, and of two rows of a cron command one is       *)
(* reconciled, _reconcile_crontab: the property is silent about both.)         *)
CommitsWhatItSaw ==
    [][\A r \in Runs : Commit(r) =>
        /\ JobOf(r) = "discovery" =>
            /\ \A a \in Accounts : db'.account[a] # None =>
                    (db'.account[a].active <=> a \in heard[r])
            /\ \A s \in Sites : db'.site[s] # None =>
                    (db'.site[s].active <=> s \in heard[r])
        /\ JobOf(r) \in Items => \A s \in Sites :
            view[r][s] # Absent =>
                IF lone[r]
                THEN Shows(db'.row[s], view[r][s]) /\ NothingElse(db'.row[s], view[r][s])
                ELSE ShowsBeside(r, s, db.row[s], db'.row[s], view[r][s])]_vars

Listed == {line.account : line \in Discovered(listing)}

(* The tables mirror the server.                                               *)
Mirrored ==
    /\ \A a \in Accounts : (db.account[a] # None /\ db.account[a].active) <=> a \in Listed
    /\ \A line \in Discovered(listing) : db.account[line.account].domain = line.domain
    /\ \A s \in Sites :
        /\ (db.site[s] # None /\ db.site[s].active)
              <=> OwnerOf[s] \in Listed /\ sites[s] # Absent
        /\ db.site[s] # None /\ db.site[s].active =>
            /\ db.site[s].version = sites[s]
            /\ kind \in Items =>
                    Shows(db.row[s], Scanned(s)) /\ NothingElse(db.row[s], Scanned(s))
    /\ kind = "temp_file_scan" =>
        \A p \in Paths : files[p] # Absent => db.observed[p] # None

(* Once the server stops changing, the tables come to mirror it, as far as its *)
(* files can be read, and stay so, whatever overlapped, conflicted or died     *)
(* before.  (A list of accounts that is missing or unreadable is an empty      *)
(* list, here as in the code, and cron commands with two rows are excepted.)   *)
EventuallyMirrored == <>[]Mirrored

================================================================================
