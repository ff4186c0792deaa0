---------------------------- MODULE ReconcileProofs ----------------------------
(* Theorems about Reconcile: its type invariant, that each file raises one     *)
(* alert, that a table with a unique key has one row of it, and that a run     *)
(* commits what it saw.                                                        *)
EXTENDS Reconcile, FiniteSetTheorems, SequenceTheorems, TLAPS

(* What the place of a run says of its objects.                                *)
Held(r) ==
    /\ pc[r] \in {"rows", "scan", "upsert"} => hand[r] \in Sites
    /\ pc[r] = "insert" => hand[r] \in Observation
    /\ pc[r] = "accounts" => left[r] \subseteq Finding
    /\ pc[r] \in {"rows", "upsert"} => left[r] \subseteq Entry
    /\ pc[r] \in {"look", "insert"} => left[r] \subseteq Observation

Typed ==
    /\ ShapeOK
    /\ contents \in [Sites -> IF kind \in Items THEN Contents[kind] ELSE {Absent}]
    /\ DOMAIN hand = Runs
    /\ \A r \in Runs : Held(r)

(* OneAlertPerFile of some tables; those of the holder of the lock are the     *)
(* committed ones while nobody holds it.                                       *)
Alerted(t) ==
    \A p \in Paths :
        t.alerts[p] = IF t.observed[p] \in {None, "LEGITIMATE"} THEN 0 ELSE 1

AlertInv ==
    /\ Typed
    /\ writer = None => draft = db
    /\ Alerted(db) /\ Alerted(draft)

(* The keys of rows do not change, and rows are added at the end.              *)
Extends(rows, more) ==
    \A i \in DOMAIN rows : i \in DOMAIN more /\ more[i].key = rows[i].key

Distinct(rows) == \A i, j \in DOMAIN rows : rows[i].key = rows[j].key => i = j

(* Cron jobs have no unique constraint.                                        *)
Apart(rows) == kind # "wordpress_inventory" => Distinct(rows)

TablesApart ==
    \A s \in Sites : /\ Apart(db.row[s]) /\ Apart(draft.row[s])
                    /\ Extends(db.row[s], draft.row[s])

(* A key a run has read stays where it read it, in what the run would see now. *)
StillThere(r) ==
    pc[r] \in {"scan", "upsert"} => Extends(known[r], Visible(r).row[hand[r]])

RowInv == TablesApart /\ \A r \in Runs : StillThere(r)

Inv == AlertInv /\ RowInv

(* How a step moves the tables.                                                *)
Touches(r) ==
    \/ Reads
    \/ Merge(r)
    \/ \E t : Writes(r, t)
    \/ Rollback(r)
    \/ Commit(r)

LEMMA StepTouches ==
    ASSUME NEW r \in Runs, Step(r) \/ Die(r)
    PROVE  Touches(r)
<1> USE DEF Touches
<1>1. CASE SaveServer(r) \/ Deactivate(r) \/ Insert(r)
    BY <1>1 DEF SaveServer, Deactivate, Insert
<1>2. CASE SeeAccount(r)
    BY <1>2 DEF SeeAccount
<1>3. CASE Upsert(r)
    BY <1>3 DEF Upsert
<1>4. CASE MarkAbsent(r)
    BY <1>4 DEF MarkAbsent
<1>5. CASE FindServer(r) \/ ListSites(r) \/ ReadRows(r) \/ Scan(r) \/ Observe(r) \/ Look(r)
    BY <1>5 DEF FindServer, ListSites, ReadRows, Scan, Observe, Look
<1>6. CASE ServerConflict(r) \/ RowConflict(r) \/ PathConflict(r) \/ Die(r)
    BY <1>6 DEF ServerConflict, RowConflict, PathConflict, Die
<1> QED
    BY <1>1, <1>2, <1>3, <1>4, <1>5, <1>6 DEF Step

--------------------------------------------------------------------------------
(* What the readers and the tables' changes return.                            *)

LEMMA DiscoveredType ==
    ASSUME NEW lines \in Listings
    PROVE  Discovered(lines) \subseteq Finding
<1>1. lines \in Seq(Line)
    BY ReconcileAssumption
<1>2. ASSUME NEW i \in DOMAIN lines
      PROVE  [account |-> lines[i].account, domain |-> lines[i].domain, nth |-> i] \in Finding
    <2>1. lines[i] \in Line /\ i \in Nat
        BY <1>1
    <2> QED
        BY <2>1 DEF Line, Finding
<1> QED
    BY <1>2 DEF Discovered

LEMMA ScannedType ==
    ASSUME NEW s \in Sites,
           contents \in [Sites -> IF kind \in Items THEN Contents[kind] ELSE {Absent}]
    PROVE  Scanned(s) \subseteq Entry
<1>1. CASE kind = "inventory"
    <2>1. contents[s] \in [Keys -> Values \cup {Absent, None}]
        BY <1>1, ContentsAssumption DEF Items
    <2>2. ASSUME NEW k \in Keys, contents[s][k] # Absent
          PROVE  [key |-> k, value |-> contents[s][k], flag |-> FALSE, nth |-> 1] \in Entry
        BY <2>1, <2>2 DEF Entry
    <2> QED
        BY <1>1, <2>2 DEF Scanned, ScannedExtensions
<1>2. CASE kind = "configuration"
    <2>1. contents[s] \in [config : BOOLEAN, setting : [Keys -> Values \cup {Absent}]]
        BY <1>2, ContentsAssumption DEF Items
    <2> DEFINE set == contents[s].setting
    <2>2. ASSUME NEW k \in Keys
          PROVE  [key |-> k, value |-> IF set[k] = Absent THEN None ELSE set[k],
                  flag |-> (set[k] = On) # (k \in Required), nth |-> 1] \in Entry
        <3>1. (IF set[k] = Absent THEN None ELSE set[k]) \in Values \cup {None}
            BY <2>1
        <3>2. ((set[k] = On) # (k \in Required)) \in BOOLEAN
            OBVIOUS
        <3> HIDE DEF set
        <3> QED
            BY <3>1, <3>2 DEF Entry
    <2> QED
        BY <1>2, <2>2 DEF Scanned, ScannedSettings
<1>3. CASE kind = "wordpress_inventory"
    <2>1. contents[s] \in Seq([key : Keys, value : Values] \cup {Absent})
        BY <1>3, ContentsAssumption DEF Items
    <2>2. ASSUME NEW i \in DOMAIN contents[s], contents[s][i] # Absent
          PROVE  [key |-> contents[s][i].key, value |-> contents[s][i].value,
                  flag |-> contents[s][i].key \in Suspicious, nth |-> i] \in Entry
        <3>1. contents[s][i] \in [key : Keys, value : Values] /\ i \in Nat
            BY <2>1, <2>2
        <3> QED
            BY <3>1 DEF Entry
    <2>3. Scanned(s) = ScannedCrontab(contents[s])
        BY <1>3 DEF Scanned
    <2> QED
        BY <2>2, <2>3 DEF ScannedCrontab
<1>4. CASE kind \notin {"inventory", "configuration", "wordpress_inventory"}
    BY <1>4 DEF Scanned
<1> QED
    BY <1>1, <1>2, <1>3, <1>4

LEMMA ClassifiedType ==
    ASSUME NEW m
    PROVE  Classified(m) \in Verdicts
    BY DEF Classified, Verdicts

LEMMA WithAccountType ==
    ASSUME NEW t \in Tables, NEW line \in Finding, sites \in [Sites -> Values \cup {Absent, None}]
    PROVE  WithAccount(t, line) \in Tables
<1>1. SeenAccount(t.account[line.account], line.domain) \in Account
    <2>1. line.domain \in Values /\ t.account[line.account] \in Account \cup {None}
        BY DEF Tables, Finding
    <2> QED
        BY <2>1 DEF SeenAccount, Account
<1>2. ASSUME NEW s \in Sites, s \in Detected(line.account)
      PROVE  SeenSite(t.site[s], sites[s]) \in Site
    BY <1>2 DEF Tables, Detected, SeenSite, Site
<1> DEFINE account == [t.account EXCEPT ![line.account] = SeenAccount(@, line.domain)]
           site == [s \in Sites |-> IF s \in Detected(line.account)
                                    THEN SeenSite(t.site[s], sites[s]) ELSE t.site[s]]
<1>3. account \in [Accounts -> Account \cup {None}]
    BY <1>1 DEF Tables, Finding
<1>4. site \in [Sites -> Site \cup {None}]
    BY <1>2 DEF Tables
<1>5. WithAccount(t, line) = [t EXCEPT !.account = account, !.site = site]
    BY DEF WithAccount, Tables
<1> HIDE DEF account, site
<1> QED
    BY <1>3, <1>4, <1>5 DEF Tables

LEMMA DeactivatedType ==
    ASSUME NEW t \in Tables, NEW seen
    PROVE  Deactivated(t, seen) \in Tables
<1>1. ASSUME NEW a \in Accounts, t.account[a] # None
      PROVE  [t.account[a] EXCEPT !.active = FALSE] \in Account
    BY <1>1 DEF Tables, Account
<1>2. ASSUME NEW s \in Sites, t.site[s] # None
      PROVE  [t.site[s] EXCEPT !.active = FALSE] \in Site
    BY <1>2 DEF Tables, Site
<1> QED
    BY <1>1, <1>2 DEF Deactivated, Tables

(* A change in place of the rows of an installation.                           *)
LEMMA RowsInPlace ==
    ASSUME NEW old \in Seq(Row), NEW new, new = [i \in DOMAIN old |-> new[i]],
           \A i \in DOMAIN old : new[i] \in Row
    PROVE  new \in Seq(Row)
<1>1. Len(old) \in Nat /\ DOMAIN old = 1..Len(old)
    BY LenProperties
<1>2. new \in [1..Len(old) -> Row]
    BY <1>1
<1> QED
    BY <1>1, <1>2, SeqDef

LEMMA RowAppended ==
    ASSUME NEW old \in Seq(Row), NEW e \in Row
    PROVE  Append(old, e) \in Seq(Row)
    BY AppendProperties

LEMMA WithRows ==
    ASSUME NEW t \in Tables, NEW s \in Sites, NEW new \in Seq(Row)
    PROVE  [t EXCEPT !.row[s] = new] \in Tables
<1>1. [t.row EXCEPT ![s] = new] \in [Sites -> Seq(Row)]
    BY DEF Tables
<1>2. [t EXCEPT !.row[s] = new] = [t EXCEPT !.row = [t.row EXCEPT ![s] = new]]
    BY DEF Tables
<1> QED
    BY <1>1, <1>2 DEF Tables

(* Whatever a merge read, the row after a save has values of a row.            *)
LEMMA SavedType ==
    ASSUME NEW t \in Tables, NEW s \in Sites, NEW i \in DOMAIN t.row[s], NEW read,
           NEW new \in Row
    PROVE  Saved(t, s, i, read, new) \in Row
<1>1. t.row[s] \in Seq(Row)
    BY DEF Tables
<1>2. t.row[s][i] \in Row
    BY <1>1
<1> QED
    BY <1>2 DEF Saved, Updated, Row

LEMMA UpsertedType ==
    ASSUME NEW t \in Tables, NEW s \in Sites, NEW rows \in Seq(Row), NEW e \in Entry, NEW read
    PROVE  Upserted(t, s, rows, e, read) \in Tables
<1>1. NewRow(e) \in Row
    BY DEF NewRow, Entry, Row
<1>2. t.row[s] \in Seq(Row)
    BY DEF Tables
<1>5. \A i \in DOMAIN t.row[s] : Saved(t, s, i, read, NewRow(e)) \in Row
    BY <1>1, SavedType
<1>3. CASE Kept(rows, e.key) = {}
    <2> DEFINE after == Append(t.row[s], NewRow(e))
    <2>1. after \in Seq(Row)
        BY <1>1, <1>2, RowAppended
    <2>2. Upserted(t, s, rows, e, read) = [t EXCEPT !.row[s] = after]
        BY <1>3 DEF Upserted
    <2> HIDE DEF after
    <2> QED
        BY <2>1, <2>2, WithRows
<1>4. CASE Kept(rows, e.key) # {}
    <2> DEFINE New(i) == IF i \in Kept(rows, e.key)
                         THEN Saved(t, s, i, read, NewRow(e)) ELSE t.row[s][i]
               after == [i \in DOMAIN t.row[s] |-> New(i)]
    <2>1. \A i \in DOMAIN t.row[s] : after[i] \in Row
        <3>1. \A i \in DOMAIN t.row[s] : t.row[s][i] \in Row
            BY <1>2
        <3>2. \A i \in DOMAIN t.row[s] : New(i) \in Row
            BY <1>5, <3>1
        <3> HIDE DEF New
        <3> QED
            BY <3>2
    <2>2. after = [i \in DOMAIN t.row[s] |-> after[i]]
        OBVIOUS
    <2>3. Upserted(t, s, rows, e, read) = [t EXCEPT !.row[s] = after]
        BY <1>4 DEF Upserted
    <2> HIDE DEF after
    <2>4. after \in Seq(Row)
        BY <1>2, <2>1, <2>2, RowsInPlace
    <2> QED
        BY <2>3, <2>4, WithRows
<1> QED
    BY <1>3, <1>4

LEMMA MarkedAbsentType ==
    ASSUME NEW t \in Tables, NEW s \in Sites, NEW rows \in Seq(Row), NEW keys,
           NEW read
    PROVE  MarkedAbsent(t, s, rows, keys, read) \in Tables
<1> DEFINE New(i) == IF i \in Gone(rows, keys)
                     THEN Saved(t, s, i, read, [rows[i] EXCEPT !.present = FALSE])
                     ELSE t.row[s][i]
           after == [i \in DOMAIN t.row[s] |-> New(i)]
<1>1. t.row[s] \in Seq(Row)
    BY DEF Tables
<1>2. ASSUME NEW i \in DOMAIN t.row[s], i \in Gone(rows, keys)
      PROVE  Saved(t, s, i, read, [rows[i] EXCEPT !.present = FALSE]) \in Row
    <2>1. rows[i] \in Row
        BY <1>2 DEF Gone
    <2>2. [rows[i] EXCEPT !.present = FALSE] \in Row
        BY <2>1 DEF Row
    <2> QED
        BY <2>2, SavedType
<1>3. \A i \in DOMAIN t.row[s] : after[i] \in Row
    <2>1. \A i \in DOMAIN t.row[s] : t.row[s][i] \in Row
        BY <1>1
    <2>2. \A i \in DOMAIN t.row[s] : New(i) \in Row
        BY <1>2, <2>1
    <2> HIDE DEF New
    <2> QED
        BY <2>2
<1>4. after = [i \in DOMAIN t.row[s] |-> after[i]]
    OBVIOUS
<1>5. MarkedAbsent(t, s, rows, keys, read) = [t EXCEPT !.row[s] = after]
    BY DEF MarkedAbsent
<1> HIDE DEF after
<1>6. after \in Seq(Row)
    BY <1>1, <1>3, <1>4, RowsInPlace
<1> QED
    BY <1>5, <1>6, WithRows

LEMMA SnapshotType ==
    ASSUME NEW t \in Tables, NEW s \in Sites
    PROVE  Snapshot(t, s) \in Tables
<1> DEFINE here == {i \in DOMAIN t.row[s] : t.row[s][i].present}
           count == Cardinality(here)
<1>1. t.row[s] \in Seq(Row)
    BY DEF Tables
<1>2. count \in Nat
    <2>1. IsFiniteSet(1..Len(t.row[s])) /\ here \subseteq 1..Len(t.row[s])
        BY <1>1, FS_Interval
    <2> QED
        BY <2>1, FS_Subset, FS_CardinalityType
<1> HIDE DEF count
<1>3. CASE kind = "wordpress_inventory"
    <2>1. Snapshot(t, s) = [t EXCEPT !.snapshot[s] = count]
        BY <1>3 DEF Snapshot, count
    <2>2. [t.snapshot EXCEPT ![s] = count] \in [Sites -> Nat]
        BY <1>2 DEF Tables
    <2> QED
        BY <2>1, <2>2 DEF Tables
<1>4. CASE kind # "wordpress_inventory"
    BY <1>4 DEF Snapshot
<1> QED
    BY <1>3, <1>4

LEMMA ObservedType ==
    ASSUME NEW t \in Tables, NEW o \in Observation
    PROVE  Observed(t, o) \in Tables
<1> DEFINE count == IF o.verdict = "LEGITIMATE" THEN t.alerts[o.path]
                    ELSE t.alerts[o.path] + 1
<1>1. count \in Nat /\ o.path \in Paths /\ o.verdict \in Verdicts
    BY DEF Tables, Observation
<1>2. Observed(t, o) = [t EXCEPT !.observed[o.path] = o.verdict, !.alerts[o.path] = count]
    BY DEF Observed, Tables
<1> HIDE DEF count
<1>3. /\ [t.observed EXCEPT ![o.path] = o.verdict] \in [Paths -> Verdicts \cup {None}]
      /\ [t.alerts EXCEPT ![o.path] = count] \in [Paths -> Nat]
    BY <1>1 DEF Tables
<1> QED
    BY <1>2, <1>3 DEF Tables

--------------------------------------------------------------------------------
(* The tables and the objects of the runs keep their types.                    *)

LEMMA TypedInit ==
    ASSUME Init
    PROVE  Typed
<1>1. On \in Values /\ ReconcileAssumption
    BY ReconcileAssumption DEF ReconcileAssumption
<1>2. NoRows \in Tables
    BY DEF NoRows, Tables
<1>3. Earlier \in Tables
    <2>1. [domain |-> On, active |-> FALSE] \in Account /\ [version |-> None, active |-> FALSE] \in Site
        BY <1>1 DEF Account, Site
    <2> QED
        BY <1>2, <2>1 DEF Earlier, Tables, NoRows
<1>4. db \in Tables /\ draft \in Tables
    BY <1>2, <1>3 DEF Init
<1>5. <<>> \in Seq(Row)
    OBVIOUS
<1>6. 0 \in 0..MaxEdits /\ 0 \in 0..MaxDeaths
    BY <1>1 DEF ReconcileAssumption
<1>7. ShapeOK
    BY <1>1, <1>4, <1>5, <1>6 DEF Init, ShapeOK
<1> QED
    BY <1>7 DEF Init, Typed, Held

(* Changes that touch no one's objects.                                        *)
LEMMA EditTyped ==
    ASSUME Typed, Edit
    PROVE  Typed'
<1>1. edits' \in 0..MaxEdits
    BY ReconcileAssumption DEF Edit, Typed, ShapeOK
<1>2. /\ listing' \in Listings
      /\ sites' \in [Sites -> Values \cup {Absent, None}]
      /\ files' \in [Paths -> (SUBSET Severities) \cup {Absent}]
      /\ contents' \in [Sites -> IF kind \in Items THEN Contents[kind] ELSE {Absent}]
    <2> USE DEF Typed, ShapeOK
    <2>1. CASE listing' \in Listings \ {listing} /\ UNCHANGED <<sites, contents, files>>
        BY <2>1
    <2>2. ASSUME NEW s \in Sites, NEW v \in Values \cup {Absent},
                 sites' = [sites EXCEPT ![s] = v], UNCHANGED <<listing, contents, files>>
          PROVE  <1>2!1 /\ <1>2!2 /\ <1>2!3 /\ <1>2!4
        BY <2>2
    <2>3. ASSUME NEW s \in Sites, kind \in Items, NEW raw \in Contents[kind],
                 contents' = [contents EXCEPT ![s] = raw], UNCHANGED <<listing, sites, files>>
          PROVE  <1>2!1 /\ <1>2!2 /\ <1>2!3 /\ <1>2!4
        BY <2>3
    <2>4. ASSUME NEW p \in Paths, NEW m \in {{}, {2}, {2, 4}, Absent},
                 files' = [files EXCEPT ![p] = m], UNCHANGED <<listing, sites, contents>>
          PROVE  <1>2!1 /\ <1>2!2 /\ <1>2!3 /\ <1>2!4
        <3>1. m \in (SUBSET Severities) \cup {Absent}
            BY DEF Severities
        <3> QED
            BY <2>4, <3>1
    <2>5. UNCHANGED kind
        BY DEF Edit
    <2> QED
        BY <2>1, <2>2, <2>3, <2>4, <2>5 DEF Edit
<1> QED
    BY <1>1, <1>2 DEF Edit, Typed, ShapeOK, Held, own

LEMMA VisibleType ==
    ASSUME Typed, NEW r
    PROVE  Visible(r) \in Tables
    BY DEF Typed, ShapeOK, Visible

LEMMA RollbackTyped ==
    ASSUME Typed, NEW r \in Runs, Rollback(r), deaths' \in 0..MaxDeaths
    PROVE  Typed'
<1>1. /\ db' \in Tables /\ draft' \in Tables /\ writer' \in Runs \cup {None}
      /\ lone' \in [Runs -> BOOLEAN]
    BY DEF Rollback, Typed, ShapeOK
<1>2. <<>> \in Seq(Row)
    OBVIOUS
<1>3. ShapeOK'
    BY <1>1, <1>2 DEF Rollback, Forget, Goto, Typed, ShapeOK, server
<1> QED
    BY <1>3 DEF Rollback, Forget, Goto, Typed, ShapeOK, Held, server

LEMMA DiscoveryTyped ==
    ASSUME Typed, NEW r \in Runs,
           FindServer(r) \/ SaveServer(r) \/ SeeAccount(r) \/ Deactivate(r)
    PROVE  Typed'
<1>1. CASE FindServer(r)
    BY <1>1 DEF FindServer, Reads, Goto, Typed, ShapeOK, Held, server
<1>2. CASE SaveServer(r)
    <2>1. draft' \in Tables /\ Discovered(listing) \subseteq Finding
        BY <1>2, VisibleType, DiscoveredType DEF SaveServer, Writes, Tables, Typed, ShapeOK
    <2> QED
        BY <1>2, <2>1 DEF SaveServer, Writes, Goto, Typed, ShapeOK, Held, server
<1>3. CASE SeeAccount(r)
    <2>1. PICK line \in left[r] :
            /\ Writes(r, WithAccount(draft, line))
            /\ left' = [left EXCEPT ![r] = @ \ {line}]
            /\ heard' = [heard EXCEPT ![r] = @ \cup {line.account} \cup Detected(line.account)]
        BY <1>3 DEF SeeAccount
    <2>2. line \in Finding
        BY <1>3, <2>1 DEF SeeAccount, Typed, Held
    <2>3. draft' \in Tables
        BY <2>1, <2>2, WithAccountType DEF Writes, Typed, ShapeOK
    <2>4. heard' \in [Runs -> SUBSET (Accounts \cup Sites)]
        BY <2>1, <2>2 DEF Typed, ShapeOK, Finding, Detected
    <2> QED
        BY <1>3, <2>1, <2>3, <2>4 DEF SeeAccount, Writes, Typed, ShapeOK, Held, server
<1>4. CASE Deactivate(r)
    <2>1. draft' \in Tables
        BY <1>4, DeactivatedType DEF Deactivate, Writes, Typed, ShapeOK
    <2> QED
        BY <1>4, <2>1 DEF Deactivate, Writes, Goto, Typed, ShapeOK, Held, server, own
<1> QED
    BY <1>1, <1>2, <1>3, <1>4

LEMMA ItemsTyped ==
    ASSUME Typed, NEW r \in Runs,
           \/ ListSites(r) \/ ReadRows(r) \/ Scan(r)
           \/ Merge(r) \/ Upsert(r) \/ MarkAbsent(r)
    PROVE  Typed'
<1> USE DEF Typed, ShapeOK, Held, server
<1>1. CASE ListSites(r)
    BY <1>1 DEF ListSites, Reads, Goto
<1>2. CASE ReadRows(r)
    <2>1. \A s \in Sites : Visible(r).row[s] \in Seq(Row)
        BY VisibleType DEF Tables
    <2>2. ASSUME NEW s \in Sites, Turn(r, s), Goto(r, "scan"),
                 known' = [known EXCEPT ![r] = Visible(r).row[s]]
          PROVE  Typed'
        BY <1>2, <2>1, <2>2 DEF ReadRows, Turn, Reads, Goto
    <2>3. ASSUME pc[r] = "rows", Goto(r, "upsert"), UNCHANGED <<hand, todo>>,
                 known' = [known EXCEPT ![r] = Visible(r).row[hand[r]]]
          PROVE  Typed'
        BY <1>2, <2>1, <2>3 DEF ReadRows, Reads, Goto
    <2> QED
        BY <1>2, <2>2, <2>3 DEF ReadRows
<1>3. CASE Scan(r)
    <2>1. \A s \in Sites : Scanned(s) \subseteq Entry
        BY ScannedType
    <2>2. ASSUME NEW s \in Sites, Turn(r, s), Goto(r, "rows"),
                 left' = [left EXCEPT ![r] = Scanned(s)]
          PROVE  Typed'
        BY <1>3, <2>1, <2>2 DEF Scan, Turn, Reads, Goto
    <2>3. ASSUME pc[r] = "scan", Goto(r, "upsert"), UNCHANGED <<hand, todo>>,
                 left' = [left EXCEPT ![r] = Scanned(hand[r])]
          PROVE  Typed'
        BY <1>3, <2>1, <2>3 DEF Scan, Reads, Goto
    <2> QED
        BY <1>3, <2>2, <2>3 DEF Scan
<1>4. CASE Upsert(r)
    <2>1. PICK e \in left[r] :
            /\ Writes(r, Upserted(Visible(r), hand[r], known[r], e, Read(r)))
            /\ left' = [left EXCEPT ![r] = @ \ {e}]
        BY <1>4 DEF Upsert, Leading
    <2>2. e \in Entry /\ hand[r] \in Sites /\ known[r] \in Seq(Row)
        BY <1>4, <2>1 DEF Upsert
    <2>3. draft' \in Tables
        BY <2>1, <2>2, UpsertedType, VisibleType DEF Writes
    <2> QED
        BY <1>4, <2>1, <2>3 DEF Upsert, Writes
<1>5. CASE MarkAbsent(r)
    <2>1. hand[r] \in Sites /\ known[r] \in Seq(Row)
        BY <1>5 DEF MarkAbsent
    <2>2. \A keys, read :
            Snapshot(MarkedAbsent(Visible(r), hand[r], known[r], keys, read), hand[r]) \in Tables
        BY <2>1, MarkedAbsentType, SnapshotType, VisibleType
    <2>3. /\ draft' \in Tables /\ db' = db /\ writer' \in Runs \cup {None}
          /\ UNCHANGED <<kind, server, lone, deaths>>
        <3>1. ASSUME NEW keys,
                     Writes(r, Snapshot(MarkedAbsent(Visible(r), hand[r], known[r], keys,
                                                     Read(r)), hand[r]))
              PROVE  /\ draft' \in Tables /\ db' = db /\ writer' \in Runs \cup {None}
                     /\ UNCHANGED <<kind, server, lone, deaths>>
            BY <2>2, <3>1 DEF Writes
        <3>2. CASE Reads
            BY <3>2 DEF Reads
        <3> QED
            BY <1>5, <3>1, <3>2 DEF MarkAbsent
    <2>4. known' \in [Runs -> Seq(Row)]
        BY <1>5 DEF MarkAbsent
    <2> QED
        BY <1>5, <2>3, <2>4 DEF MarkAbsent, Goto
<1>6. CASE Merge(r)
    BY <1>6 DEF Merge, own
<1> QED
    BY <1>1, <1>2, <1>3, <1>4, <1>5, <1>6

LEMMA FilesTyped ==
    ASSUME Typed, NEW r \in Runs, Observe(r) \/ Look(r) \/ Insert(r)
    PROVE  Typed'
<1> USE DEF Typed, ShapeOK, Held, server
<1>1. CASE Observe(r)
    <2>1. {[path |-> p, verdict |-> Classified(files[p])] :
                p \in {q \in Paths : files[q] # Absent}} \subseteq Observation
        BY ClassifiedType DEF Observation
    <2> QED
        BY <1>1, <2>1 DEF Observe, Reads, Goto
<1>2. CASE Look(r)
    <2>1. PICK o \in left[r] :
            /\ left' = [left EXCEPT ![r] = @ \ {o}]
            /\ \/ hand' = [hand EXCEPT ![r] = o] /\ Goto(r, "insert")
               \/ UNCHANGED <<hand, pc>>
        BY <1>2 DEF Look
    <2>2. o \in Observation /\ left[r] \subseteq Observation
        BY <1>2, <2>1 DEF Look
    <2>3. UNCHANGED <<kind, server, db, draft, writer, lone, deaths, todo, known, heard>>
        BY <1>2 DEF Look, Reads
    <2>4. CASE hand' = [hand EXCEPT ![r] = o] /\ Goto(r, "insert")
        BY <2>1, <2>2, <2>3, <2>4 DEF Goto
    <2>5. CASE UNCHANGED <<hand, pc>>
        BY <1>2, <2>1, <2>2, <2>3, <2>5 DEF Look
    <2> QED
        BY <2>1, <2>4, <2>5
<1>3. CASE Insert(r)
    <2>1. draft' \in Tables
        BY <1>3, ObservedType, VisibleType DEF Insert, Writes
    <2> QED
        BY <1>3, <2>1 DEF Insert, Writes, Goto
<1> QED
    BY <1>1, <1>2, <1>3

LEMMA CommitTyped ==
    ASSUME Typed, NEW r \in Runs, Commit(r)
    PROVE  Typed'
<1>1. /\ db' \in Tables /\ draft' \in Tables /\ writer' \in Runs \cup {None}
      /\ lone' \in [Runs -> BOOLEAN]
    <2>1. db' \in Tables /\ draft' \in Tables /\ writer' \in Runs \cup {None}
        BY VisibleType DEF Commit, Typed, ShapeOK
    <2>2. \A x \in Runs : (IF x = r \/ pc[x] = "idle" THEN TRUE
                           ELSE lone[x] /\ writer # r) \in BOOLEAN
        OBVIOUS
    <2> QED
        BY <2>1, <2>2 DEF Commit
<1>2. <<>> \in Seq(Row)
    OBVIOUS
<1>3. ShapeOK'
    BY <1>1, <1>2 DEF Commit, Forget, Goto, Typed, ShapeOK, server
<1> QED
    BY <1>3 DEF Commit, Forget, Goto, Typed, ShapeOK, Held, server

LEMMA DieTyped ==
    ASSUME Typed, NEW r \in Runs, Die(r)
    PROVE  Typed'
<1>1. deaths' \in 0..MaxDeaths
    BY ReconcileAssumption DEF Die, Typed, ShapeOK, ReconcileAssumption
<1> QED
    BY <1>1, RollbackTyped DEF Die

LEMMA ConflictTyped ==
    ASSUME Typed, NEW r \in Runs, ServerConflict(r) \/ RowConflict(r) \/ PathConflict(r)
    PROVE  Typed'
<1>1. Rollback(r) /\ deaths' = deaths
    BY DEF ServerConflict, RowConflict, PathConflict
<1> QED
    BY <1>1, RollbackTyped DEF Typed, ShapeOK

LEMMA TypedNext ==
    ASSUME Typed, [Next]_vars
    PROVE  Typed'
<1>1. CASE UNCHANGED vars
    BY <1>1 DEF vars, server, own, Typed, ShapeOK, Held
<1>2. ASSUME NEW r \in Runs, Step(r)
      PROVE  Typed'
    BY <1>2, DiscoveryTyped, ItemsTyped, FilesTyped, ConflictTyped, CommitTyped DEF Step
<1> QED
    BY <1>1, <1>2, DieTyped, EditTyped DEF Next

--------------------------------------------------------------------------------
(* One alert for each file.                                                    *)

(* The tables of observations and alerts are only changed by Observed.         *)
SameAlerts(t, u) == t.observed = u.observed /\ t.alerts = u.alerts

LEMMA ChangesKeepAlerts ==
    ASSUME NEW t \in Tables
    PROVE  /\ SameAlerts([t EXCEPT !.server = TRUE], t)
           /\ \A line : SameAlerts(WithAccount(t, line), t)
           /\ \A seen : SameAlerts(Deactivated(t, seen), t)
           /\ \A s, rows, e, read : SameAlerts(Upserted(t, s, rows, e, read), t)
           /\ \A s, rows, keys, read : SameAlerts(MarkedAbsent(t, s, rows, keys, read), t)
           /\ \A s : SameAlerts(Snapshot(t, s), t)
<1> USE DEF SameAlerts, Tables
<1>1. SameAlerts([t EXCEPT !.server = TRUE], t)
    OBVIOUS
<1>2. \A line : SameAlerts(WithAccount(t, line), t)
    BY DEF WithAccount
<1>3. \A seen : SameAlerts(Deactivated(t, seen), t)
    BY DEF Deactivated
<1>4. \A s, rows, e, read : SameAlerts(Upserted(t, s, rows, e, read), t)
    BY DEF Upserted
<1>5. \A s, rows, keys, read : SameAlerts(MarkedAbsent(t, s, rows, keys, read), t)
    BY DEF MarkedAbsent
<1>6. \A s : SameAlerts(Snapshot(t, s), t)
    BY DEF Snapshot
<1> QED
    BY <1>1, <1>2, <1>3, <1>4, <1>5, <1>6

LEMMA ObservedAlerts ==
    ASSUME NEW t \in Tables, NEW o \in Observation, Alerted(t), ~Taken(t, o.path)
    PROVE  Alerted(Observed(t, o))
<1> DEFINE u == Observed(t, o)
<1>1. o.path \in Paths /\ o.verdict \in Verdicts
    BY DEF Observation
<1>2. t.alerts[o.path] = 0
    BY <1>1 DEF Alerted, Taken
<1>3. /\ u.observed = [t.observed EXCEPT ![o.path] = o.verdict]
      /\ u.alerts = [t.alerts EXCEPT ![o.path] =
                        IF o.verdict = "LEGITIMATE" THEN 0 ELSE 1]
    BY <1>2 DEF Observed, Tables
<1>4. o.verdict # None
    BY <1>1, ReconcileAssumption
<1> HIDE DEF u
<1>5. ASSUME NEW p \in Paths
      PROVE  u.alerts[p] = IF u.observed[p] \in {None, "LEGITIMATE"} THEN 0 ELSE 1
    <2>1. t.alerts \in [Paths -> Nat] /\ t.observed \in [Paths -> Verdicts \cup {None}]
        BY DEF Tables
    <2>2. CASE p = o.path
        BY <1>1, <1>3, <1>4, <2>1, <2>2
    <2>3. CASE p # o.path
        BY <1>3, <2>1, <2>3 DEF Alerted
    <2> QED
        BY <2>2, <2>3
<1> QED
    BY <1>5 DEF Alerted, u

(* What the holder of the lock writes.                                         *)
LEMMA WritesAlerts ==
    ASSUME AlertInv, NEW r \in Runs, NEW t, Writes(r, t), SameAlerts(t, Visible(r))
    PROVE  Alerted(db') /\ Alerted(draft') /\ writer' # None
<1>1. Alerted(Visible(r))
    BY DEF AlertInv, Visible
<1>2. r # None
    BY ReconcileAssumption
<1> QED
    BY <1>1, <1>2 DEF Writes, SameAlerts, Alerted, AlertInv

LEMMA AlertNext ==
    ASSUME AlertInv, [Next]_vars
    PROVE  AlertInv'
<1>1. Typed'
    BY TypedNext DEF AlertInv
<1> DEFINE Goal == (writer = None => draft = db) /\ Alerted(db) /\ Alerted(draft)
<1>2. ASSUME UNCHANGED <<db, draft, writer>>
      PROVE  Goal'
    BY <1>2 DEF AlertInv, Alerted
<1>3. ASSUME NEW r \in Runs, Rollback(r)
      PROVE  Goal'
    BY <1>3 DEF AlertInv, Alerted, Rollback
<1>4. ASSUME NEW r \in Runs, Commit(r)
      PROVE  Goal'
    BY <1>4 DEF AlertInv, Alerted, Commit, Visible
<1>5. ASSUME NEW r \in Runs, CanWrite(r)
      PROVE  Visible(r) = draft
    BY <1>5 DEF CanWrite, Visible, AlertInv
<1>6. \A r : Visible(r) \in Tables
    BY VisibleType DEF AlertInv
<1>7. ASSUME NEW r \in Runs, NEW t, Writes(r, t), SameAlerts(t, Visible(r))
      PROVE  Goal'
    BY <1>7, WritesAlerts
<1>8. ASSUME NEW r \in Runs, Step(r)
      PROVE  Goal'
    <2>1. CASE SaveServer(r)
        BY <2>1, <1>6, <1>7, ChangesKeepAlerts DEF SaveServer
    <2>2. CASE SeeAccount(r)
        BY <2>2, <1>5, <1>6, <1>7, ChangesKeepAlerts DEF SeeAccount, Writes
    <2>3. CASE Deactivate(r)
        BY <2>3, <1>5, <1>6, <1>7, ChangesKeepAlerts DEF Deactivate, Writes
    <2>4. CASE Upsert(r)
        BY <2>4, <1>6, <1>7, ChangesKeepAlerts DEF Upsert
    <2>5. CASE MarkAbsent(r)
        <3> DEFINE keys == KeysSeen(r)
                   marked == MarkedAbsent(Visible(r), hand[r], known[r], keys, Read(r))
        <3>1. CASE Reads
            BY <3>1, <1>2 DEF Reads
        <3>2. CASE Writes(r, Snapshot(marked, hand[r]))
            <4>1. hand[r] \in Sites /\ known[r] \in Seq(Row)
                BY <2>5 DEF MarkAbsent, AlertInv, Typed, ShapeOK, Held
            <4>2. marked \in Tables
                BY <4>1, <1>6, MarkedAbsentType
            <4>3. SameAlerts(marked, Visible(r))
                BY <1>6, ChangesKeepAlerts
            <4> HIDE DEF marked
            <4>4. SameAlerts(Snapshot(marked, hand[r]), marked)
                BY <4>2, ChangesKeepAlerts
            <4>5. SameAlerts(Snapshot(marked, hand[r]), Visible(r))
                BY <4>3, <4>4 DEF SameAlerts
            <4> QED
                BY <3>2, <4>5, <1>7
        <3> QED
            BY <2>5, <3>1, <3>2 DEF MarkAbsent
    <2>6. CASE Insert(r)
        <3>1. hand[r] \in Observation
            BY <2>6 DEF Insert, AlertInv, Typed, Held
        <3>2. Alerted(Visible(r))
            BY DEF AlertInv, Visible
        <3>3. Alerted(Observed(Visible(r), hand[r]))
            BY <2>6, <3>1, <3>2, <1>6, ObservedAlerts DEF Insert
        <3>4. draft' = Observed(Visible(r), hand[r]) /\ db' = db /\ writer' = r /\ r # None
            BY <2>6, ReconcileAssumption DEF Insert, Writes
        <3> QED
            BY <3>3, <3>4 DEF Alerted, AlertInv
    <2>7. CASE \/ FindServer(r) \/ ListSites(r) \/ ReadRows(r)
               \/ Scan(r) \/ Observe(r) \/ Look(r)
        BY <2>7, <1>2 DEF FindServer, ListSites, ReadRows, Scan, Observe, Look, Reads
    <2>9. CASE Merge(r)
        BY <2>9, <1>2 DEF Merge
    <2>8. CASE ServerConflict(r) \/ RowConflict(r) \/ PathConflict(r)
        BY <2>8, <1>3 DEF ServerConflict, RowConflict, PathConflict
    <2> QED
        BY <1>8, <1>4, <2>1, <2>2, <2>3, <2>4, <2>5, <2>6, <2>7, <2>8, <2>9 DEF Step
<1>9. Goal'
    BY <1>2, <1>3, <1>8 DEF Next, Die, Edit, vars
<1> QED
    BY <1>1, <1>9 DEF AlertInv

LEMMA AlertInit ==
    ASSUME Init
    PROVE  AlertInv
<1>1. Alerted(NoRows)
    BY DEF Alerted, NoRows
<1>2. Earlier.observed = NoRows.observed /\ Earlier.alerts = NoRows.alerts
    BY DEF Earlier, NoRows
<1>3. Alerted(Earlier)
    BY <1>1, <1>2 DEF Alerted
<1> QED
    BY <1>1, <1>3, TypedInit DEF Init, AlertInv

(* Two processes that observe one file raise one event for it, even if one of  *)
(* them dies or meets the constraint; a legitimate file raises none.           *)
THEOREM AlertsOnce == Spec => []OneAlertPerFile
<1>1. AlertInv /\ [Next]_vars => AlertInv'
    BY AlertNext
<1>2. AlertInv => OneAlertPerFile
    BY DEF AlertInv, Alerted, OneAlertPerFile
<1> QED
    BY <1>1, <1>2, AlertInit, PTL DEF Spec

--------------------------------------------------------------------------------
(* One row for each key.                                                       *)

LEMMA ExtendsOrder ==
    ASSUME NEW a, NEW b, NEW c, Extends(a, b), Extends(b, c)
    PROVE  Extends(a, a) /\ Extends(a, c)
    BY DEF Extends

LEMMA ChangesKeepRows ==
    ASSUME NEW t \in Tables
    PROVE  /\ [t EXCEPT !.server = TRUE].row = t.row
           /\ \A line : WithAccount(t, line).row = t.row
           /\ \A seen : Deactivated(t, seen).row = t.row
           /\ \A o : Observed(t, o).row = t.row
           /\ \A s : Snapshot(t, s).row = t.row
<1> USE DEF Tables
<1>1. [t EXCEPT !.server = TRUE].row = t.row
    OBVIOUS
<1>2. \A line : WithAccount(t, line).row = t.row
    BY DEF WithAccount
<1>3. \A seen : Deactivated(t, seen).row = t.row
    BY DEF Deactivated
<1>4. \A o : Observed(t, o).row = t.row
    BY DEF Observed
<1>5. \A s : Snapshot(t, s).row = t.row
    BY DEF Snapshot
<1> QED
    BY <1>1, <1>2, <1>3, <1>4, <1>5

(* A finding updates the rows read of its key in place, or adds a new key.     *)
LEMMA UpsertedRows ==
    ASSUME NEW t \in Tables, NEW s \in Sites, NEW rows \in Seq(Row), NEW e \in Entry,
           NEW read, Extends(rows, t.row[s]), Apart(t.row[s]),
           Kept(rows, e.key) = {} => ~Conflicts(t, s, e.key)
    PROVE  LET u == Upserted(t, s, rows, e, read)
           IN  /\ Apart(u.row[s]) /\ Extends(t.row[s], u.row[s])
               /\ \A x \in Sites : x # s => u.row[x] = t.row[x]
<1> DEFINE old == t.row[s]
           new == Upserted(t, s, rows, e, read).row[s]
<1>1. old \in Seq(Row)
    BY DEF Tables
<1>2. NewRow(e).key = e.key
    BY DEF NewRow
<1>3. \A x \in Sites : x # s => Upserted(t, s, rows, e, read).row[x] = t.row[x]
    BY DEF Upserted, Tables
<1>4. CASE Kept(rows, e.key) = {}
    <2>1. new = Append(old, NewRow(e))
        BY <1>4 DEF Upserted, Tables
    <2>2. /\ DOMAIN old = 1..Len(old) /\ DOMAIN new = 1..(Len(old) + 1) /\ Len(old) \in Nat
          /\ \A i \in DOMAIN old : new[i] = old[i]
          /\ new[Len(old) + 1] = NewRow(e)
        BY <1>1, <2>1
    <2>3. kind # "wordpress_inventory" => \A i \in DOMAIN old : old[i].key # e.key
        BY <1>4 DEF Conflicts
    <2>5. Apart(old)
        OBVIOUS
    <2> HIDE DEF old, new
    <2>4. Extends(old, new)
        BY <2>2 DEF Extends
    <2>6. Apart(new)
        <3> SUFFICES ASSUME kind # "wordpress_inventory",
                            NEW i \in DOMAIN new, NEW j \in DOMAIN new,
                            new[i].key = new[j].key
                     PROVE  i = j
            BY DEF Apart, Distinct
        <3>1. i \in DOMAIN old \/ i = Len(old) + 1
            BY <2>2
        <3>2. j \in DOMAIN old \/ j = Len(old) + 1
            BY <2>2
        <3> QED
            BY <3>1, <3>2, <2>2, <2>3, <2>5, <1>2 DEF Apart, Distinct
    <2> QED
        BY <1>3, <2>4, <2>6 DEF old, new
<1>5. CASE Kept(rows, e.key) # {}
    <2> DEFINE Put(i) == Saved(t, s, i, read, NewRow(e))
    <2>1. new = [i \in DOMAIN old |-> IF i \in Kept(rows, e.key) THEN Put(i) ELSE old[i]]
        BY <1>5 DEF Upserted, Tables
    <2>2. \A i \in Kept(rows, e.key) : i \in DOMAIN old /\ old[i].key = e.key
        BY DEF Kept, Extends
    <2>4. Apart(old)
        OBVIOUS
    <2>6. \A i \in Kept(rows, e.key) : Put(i).key = old[i].key
        BY <1>2, <2>2 DEF Saved, Updated
    <2> HIDE DEF old, new, Put
    <2>3. DOMAIN new = DOMAIN old /\ \A i \in DOMAIN old : new[i].key = old[i].key
        BY <2>1, <2>6
    <2>5. Apart(new) /\ Extends(old, new)
        BY <2>3, <2>4 DEF Apart, Distinct, Extends
    <2> QED
        BY <1>3, <2>5 DEF old, new
<1> QED
    BY <1>4, <1>5

LEMMA MarkedAbsentRows ==
    ASSUME NEW t \in Tables, NEW s \in Sites, NEW rows \in Seq(Row), NEW keys,
           NEW read, Extends(rows, t.row[s]), Apart(t.row[s])
    PROVE  LET u == MarkedAbsent(t, s, rows, keys, read)
           IN  /\ Apart(u.row[s]) /\ Extends(t.row[s], u.row[s])
               /\ \A x \in Sites : x # s => u.row[x] = t.row[x]
<1> DEFINE old == t.row[s]
           new == MarkedAbsent(t, s, rows, keys, read).row[s]
           Put(i) == Saved(t, s, i, read, [rows[i] EXCEPT !.present = FALSE])
<1>1. \A x \in Sites : x # s => MarkedAbsent(t, s, rows, keys, read).row[x] = t.row[x]
    BY DEF MarkedAbsent, Tables
<1>2. new = [i \in DOMAIN old |-> IF i \in Gone(rows, keys) THEN Put(i) ELSE old[i]]
    BY DEF MarkedAbsent, Tables
<1>3. ASSUME NEW i \in Gone(rows, keys)
      PROVE  Put(i).key = old[i].key
    <2>1. i \in DOMAIN rows
        BY DEF Gone
    <2>2. rows[i] \in Row /\ i \in DOMAIN old /\ old[i].key = rows[i].key
        BY <2>1 DEF Extends
    <2>3. [rows[i] EXCEPT !.present = FALSE].key = old[i].key
        BY <2>2 DEF Row
    <2> QED
        BY <2>2, <2>3 DEF Saved, Updated
<1>5. Apart(old)
    OBVIOUS
<1> HIDE DEF old, new, Put
<1>4. DOMAIN new = DOMAIN old /\ \A i \in DOMAIN old : new[i].key = old[i].key
    BY <1>2, <1>3
<1>6. Apart(new) /\ Extends(old, new)
    BY <1>4, <1>5 DEF Apart, Distinct, Extends
<1> QED
    BY <1>1, <1>6 DEF old, new

(* What the holder of the lock writes, if it only adds keys.                   *)
LEMMA WritesRows ==
    ASSUME Inv, kind' = kind, NEW r \in Runs, NEW t, Writes(r, t),
           \A s \in Sites : Apart(t.row[s]) /\ Extends(Visible(r).row[s], t.row[s])
    PROVE  /\ TablesApart'
           /\ \A x \in Runs : pc[x] \in {"scan", "upsert"} =>
                                Extends(known[x], Visible(x)'.row[hand[x]])
<1>1. Visible(r) = draft /\ r # None
    BY ReconcileAssumption DEF Writes, CanWrite, Visible, Inv, AlertInv
<1>2. writer' = r /\ draft' = t /\ db' = db
    BY DEF Writes
<1>3. TablesApart /\ \A x \in Runs : StillThere(x)
    BY DEF Inv, RowInv
<1>4. TablesApart'
    BY <1>1, <1>2, <1>3, ExtendsOrder DEF TablesApart, Apart
<1>5. ASSUME NEW x \in Runs, pc[x] \in {"scan", "upsert"}
      PROVE  Extends(known[x], Visible(x)'.row[hand[x]])
    <2>1. Extends(known[x], Visible(x).row[hand[x]])
        BY <1>3, <1>5 DEF StillThere
    <2>2. CASE x = r
        <3>1. hand[r] \in Sites
            BY <1>5, <2>2 DEF Inv, AlertInv, Typed, Held
        <3>2. Visible(x)' = t
            BY <1>2, <2>2 DEF Visible
        <3> QED
            BY <2>1, <2>2, <3>1, <3>2, ExtendsOrder
    <2>3. CASE x # r
        <3>1. Visible(x)' = Visible(x)
            BY <1>1, <1>2, <2>3 DEF Visible, Writes, CanWrite
        <3> QED
            BY <2>1, <3>1
    <2> QED
        BY <2>2, <2>3
<1> QED
    BY <1>4, <1>5

LEMMA RowNext ==
    ASSUME Inv, [Next]_vars
    PROVE  RowInv'
<1>1. kind' = kind
    <2>1. ASSUME NEW r \in Runs, Step(r) \/ Die(r)
          PROVE  kind' = kind
        BY <2>1, StepTouches DEF Touches, Reads, Writes, Rollback, Commit, Forget, Merge
    <2> QED
        BY <2>1 DEF Next, Edit, vars
<1> DEFINE Goal == TablesApart /\ \A x \in Runs : StillThere(x)
<1>3. Goal
    BY DEF Inv, RowInv
<1>4. Typed /\ (writer = None => draft = db) /\ \A x \in Runs : x # None
    BY ReconcileAssumption DEF Inv, AlertInv
<1>5. ASSUME UNCHANGED <<db, draft, writer, pc, hand, known>>
      PROVE  Goal'
    BY <1>1, <1>3, <1>5 DEF TablesApart, Apart, StillThere, Visible
<1>6. ASSUME NEW r \in Runs, Rollback(r)
      PROVE  Goal'
    <2>1. TablesApart'
        BY <1>1, <1>3, <1>6 DEF Rollback, TablesApart, Apart, Extends
    <2>2. ASSUME NEW x \in Runs
          PROVE  StillThere(x)'
        <3>1. CASE x = r
            BY <1>4, <1>6, <3>1 DEF Rollback, Forget, Goto, StillThere, Typed, ShapeOK
        <3>2. CASE x # r
            <4>1. Visible(x)' = Visible(x)
                BY <1>4, <1>6, <3>2 DEF Rollback, Visible
            <4>2. pc'[x] = pc[x] /\ hand'[x] = hand[x] /\ known'[x] = known[x]
                BY <1>4, <1>6, <3>2 DEF Rollback, Forget, Goto, Typed, ShapeOK
            <4> QED
                BY <1>3, <4>1, <4>2 DEF StillThere
        <3> QED
            BY <3>1, <3>2
    <2> QED
        BY <2>1, <2>2
<1>7. ASSUME NEW r \in Runs, Commit(r)
      PROVE  Goal'
    <2>1. /\ db' = Visible(r) /\ draft' = draft
          /\ writer' = IF writer = r THEN None ELSE writer
        BY <1>7 DEF Commit
    <2>2. TablesApart'
        BY <1>1, <1>3, <2>1 DEF Visible, TablesApart, Apart, Extends
    <2>3. ASSUME NEW x \in Runs
          PROVE  StillThere(x)'
        <3>1. CASE x = r
            BY <1>4, <1>7, <3>1 DEF Commit, Forget, Goto, StillThere, Typed, ShapeOK
        <3>2. CASE x # r
            <4>1. pc'[x] = pc[x] /\ hand'[x] = hand[x] /\ known'[x] = known[x]
                BY <1>4, <1>7, <3>2 DEF Commit, Forget, Goto, Typed, ShapeOK
            <4>2. pc[x] \in {"scan", "upsert"} =>
                        Extends(Visible(x).row[hand[x]], Visible(x)'.row[hand[x]])
                <5>1. CASE writer = r
                    <6>1. Visible(x) = db /\ Visible(x)' = draft
                        BY <1>4, <2>1, <3>2, <5>1 DEF Visible
                    <6>2. pc[x] \in {"scan", "upsert"} => hand[x] \in Sites
                        BY <1>4 DEF Typed, Held
                    <6> QED
                        BY <1>3, <6>1, <6>2 DEF TablesApart
                <5>2. CASE writer # r
                    <6>1. Visible(x)' = Visible(x)
                        BY <2>1, <5>2 DEF Visible
                    <6> QED
                        BY <6>1 DEF Extends
                <5> QED
                    BY <5>1, <5>2
            <4> QED
                BY <1>3, <4>1, <4>2, ExtendsOrder DEF StillThere
        <3> QED
            BY <3>1, <3>2
    <2> QED
        BY <2>2, <2>3
<1>8. \A x : Visible(x) \in Tables
    BY <1>4, VisibleType
(* A write by a run that goes on with the same rows, or with none.             *)
<1>9. ASSUME NEW r \in Runs, NEW t, Writes(r, t),
             \A s \in Sites : Apart(t.row[s]) /\ Extends(Visible(r).row[s], t.row[s]),
             \A x \in Runs : pc'[x] \in {"scan", "upsert"} =>
                /\ pc[x] \in {"scan", "upsert"}
                /\ hand'[x] = hand[x] /\ known'[x] = known[x]
      PROVE  Goal'
    <2>1. /\ TablesApart'
          /\ \A x \in Runs : pc[x] \in {"scan", "upsert"} =>
                                Extends(known[x], Visible(x)'.row[hand[x]])
        BY <1>1, <1>9, WritesRows
    <2>2. ASSUME NEW x \in Runs, pc'[x] \in {"scan", "upsert"}
          PROVE  Extends(known'[x], Visible(x)'.row[hand'[x]])
        BY <1>9, <2>1, <2>2
    <2> QED
        BY <2>1, <2>2 DEF StillThere
<1>10. ASSUME NEW r \in Runs, NEW t, Writes(r, t), t.row = Visible(r).row,
             \A x \in Runs : pc'[x] \in {"scan", "upsert"} =>
                /\ pc[x] \in {"scan", "upsert"}
                /\ hand'[x] = hand[x] /\ known'[x] = known[x]
       PROVE  Goal'
    <2>1. \A s \in Sites : Apart(t.row[s]) /\ Extends(Visible(r).row[s], t.row[s])
        BY <1>3, <1>10 DEF Visible, TablesApart, Extends
    <2> QED
        BY <1>9, <1>10, <2>1
<1>11. ASSUME NEW r \in Runs, CanWrite(r)
       PROVE  Visible(r) = draft
    BY <1>4, <1>11 DEF CanWrite, Visible
<1>12. ASSUME NEW r \in Runs, Step(r)
       PROVE  Goal'
    <2>1. CASE SaveServer(r)
        BY <2>1, <1>4, <1>8, <1>10, ChangesKeepRows DEF SaveServer, Goto, Typed, ShapeOK
    <2>2. CASE SeeAccount(r)
        <3>1. PICK line \in left[r] : Writes(r, WithAccount(draft, line))
            BY <2>2 DEF SeeAccount
        <3>2. WithAccount(draft, line).row = Visible(r).row
            BY <3>1, <1>8, <1>11, ChangesKeepRows DEF Writes
        <3> QED
            BY <2>2, <3>1, <3>2, <1>10 DEF SeeAccount
    <2>3. CASE Deactivate(r)
        <3>1. Deactivated(draft, heard[r]).row = Visible(r).row
            BY <2>3, <1>8, <1>11, ChangesKeepRows DEF Deactivate, Writes
        <3> QED
            BY <2>3, <3>1, <1>4, <1>10 DEF Deactivate, Goto, own, Typed, ShapeOK
    <2>4. CASE Upsert(r)
        <3>1. PICK e \in left[r] :
                /\ Kept(known[r], e.key) = {} => ~Conflicts(Visible(r), hand[r], e.key)
                /\ Writes(r, Upserted(Visible(r), hand[r], known[r], e, Read(r)))
            BY <2>4 DEF Upsert, Leading
        <3>2. hand[r] \in Sites /\ known[r] \in Seq(Row) /\ e \in Entry
            BY <2>4, <3>1, <1>4 DEF Upsert, Typed, ShapeOK, Held
        <3>3. Extends(known[r], Visible(r).row[hand[r]])
            BY <2>4, <1>3 DEF Upsert, StillThere
        <3>4. \A s \in Sites : Apart(Visible(r).row[s]) /\ Extends(Visible(r).row[s], Visible(r).row[s])
            BY <1>3 DEF Visible, TablesApart, Extends
        <3> DEFINE t == Upserted(Visible(r), hand[r], known[r], e, Read(r))
        <3>5. Apart(Visible(r).row[hand[r]]) /\ Visible(r) \in Tables
            BY <3>2, <3>4, <1>8
        <3>6. /\ Apart(t.row[hand[r]]) /\ Extends(Visible(r).row[hand[r]], t.row[hand[r]])
              /\ \A x \in Sites : x # hand[r] => t.row[x] = Visible(r).row[x]
            <4> HIDE DEF t
            <4>1. ASSUME NEW v \in Tables, v = Visible(r), NEW read, read = Read(r)
                  PROVE  /\ Apart(t.row[hand[r]]) /\ Extends(v.row[hand[r]], t.row[hand[r]])
                         /\ \A x \in Sites : x # hand[r] => t.row[x] = v.row[x]
                <5>1. t = Upserted(v, hand[r], known[r], e, read)
                    BY <4>1 DEF t
                <5>2. /\ Extends(known[r], v.row[hand[r]]) /\ Apart(v.row[hand[r]])
                      /\ Kept(known[r], e.key) = {} => ~Conflicts(v, hand[r], e.key)
                    BY <3>1, <3>3, <3>5, <4>1
                <5>3. LET u == Upserted(v, hand[r], known[r], e, read)
                      IN  /\ Apart(u.row[hand[r]]) /\ Extends(v.row[hand[r]], u.row[hand[r]])
                          /\ \A x \in Sites : x # hand[r] => u.row[x] = v.row[x]
                    BY <3>2, <5>2, UpsertedRows
                <5> QED
                    BY <5>1, <5>3
            <4> QED
                BY <3>5, <4>1
        <3> HIDE DEF t
        <3>7. \A s \in Sites : Apart(t.row[s]) /\ Extends(Visible(r).row[s], t.row[s])
            BY <3>4, <3>6
        <3> QED
            BY <2>4, <3>1, <3>7, <1>9 DEF Upsert, t
    <2>5. CASE MarkAbsent(r)
        <3> DEFINE keys == KeysSeen(r)
                   t == MarkedAbsent(Visible(r), hand[r], known[r], keys, Read(r))
        <3>1. \A x \in Runs : pc'[x] \in {"scan", "upsert"} =>
                /\ x # r /\ pc[x] \in {"scan", "upsert"}
                /\ hand'[x] = hand[x] /\ known'[x] = known[x]
            BY <2>5, <1>4 DEF MarkAbsent, Goto, Typed, ShapeOK
        <3>2. CASE Reads
            BY <1>1, <3>1, <3>2, <1>3 DEF Reads, TablesApart, Apart, StillThere, Visible
        <3>3. CASE Writes(r, Snapshot(t, hand[r]))
            <4>1. hand[r] \in Sites /\ known[r] \in Seq(Row)
                BY <2>5, <1>4 DEF MarkAbsent, Typed, ShapeOK, Held
            <4>2. Extends(known[r], Visible(r).row[hand[r]])
                BY <2>5, <1>3 DEF MarkAbsent, StillThere
            <4>3. \A s \in Sites : Apart(Visible(r).row[s]) /\ Extends(Visible(r).row[s], Visible(r).row[s])
                BY <1>3 DEF Visible, TablesApart, Extends
            <4> HIDE DEF keys
            <4>4. /\ Apart(t.row[hand[r]]) /\ Extends(Visible(r).row[hand[r]], t.row[hand[r]])
                  /\ \A x \in Sites : x # hand[r] => t.row[x] = Visible(r).row[x]
                BY <4>1, <4>2, <4>3, <1>8, MarkedAbsentRows
            <4>5. t \in Tables
                BY <4>1, <1>8, MarkedAbsentType
            <4> HIDE DEF t
            <4>6. Snapshot(t, hand[r]).row = t.row
                BY <4>5, ChangesKeepRows
            <4>7. \A s \in Sites : /\ Apart(Snapshot(t, hand[r]).row[s])
                                   /\ Extends(Visible(r).row[s], Snapshot(t, hand[r]).row[s])
                BY <4>3, <4>4, <4>6
            <4> QED
                BY <3>1, <3>3, <4>7, <1>9
        <3> QED
            BY <2>5, <3>2, <3>3 DEF MarkAbsent
    <2>6. CASE Insert(r)
        BY <2>6, <1>4, <1>8, <1>10, ChangesKeepRows DEF Insert, Goto, Typed, ShapeOK
    <2>7. CASE ReadRows(r)
        <3>1. UNCHANGED <<db, draft, writer>>
            BY <2>7 DEF ReadRows, Reads
        <3>2. TablesApart' /\ \A x \in Runs : Visible(x)' = Visible(x)
            BY <1>1, <3>1, <1>3 DEF TablesApart, Apart, Visible
        <3>3. known'[r] = Visible(r).row[hand'[r]]
            BY <2>7, <1>4 DEF ReadRows, Turn, Typed, ShapeOK
        <3>4. \A x \in Runs : x # r => /\ pc'[x] = pc[x] /\ hand'[x] = hand[x]
                                       /\ known'[x] = known[x]
            BY <2>7, <1>4 DEF ReadRows, Turn, Goto, Typed, ShapeOK
        <3> QED
            BY <3>2, <3>3, <3>4, <1>3 DEF StillThere, Extends
    <2>8. CASE Scan(r)
        <3>1. UNCHANGED <<db, draft, writer, known>>
            BY <2>8 DEF Scan, Reads
        <3>2. TablesApart' /\ \A x \in Runs : Visible(x)' = Visible(x)
            BY <1>1, <3>1, <1>3 DEF TablesApart, Apart, Visible
        <3>3. \A x \in Runs : pc'[x] \in {"scan", "upsert"} =>
                pc[x] \in {"scan", "upsert"} /\ hand'[x] = hand[x]
            BY <2>8, <1>4 DEF Scan, Turn, Goto, Typed, ShapeOK
        <3> QED
            BY <3>1, <3>2, <3>3, <1>3 DEF StillThere
    <2>9. CASE FindServer(r) \/ ListSites(r) \/ Observe(r) \/ Look(r)
        <3>1. UNCHANGED <<db, draft, writer, known>>
            BY <2>9 DEF FindServer, ListSites, Observe, Look, Reads
        <3>2. TablesApart' /\ \A x \in Runs : Visible(x)' = Visible(x)
            BY <1>1, <3>1, <1>3 DEF TablesApart, Apart, Visible
        <3>3. \A x \in Runs : pc'[x] \in {"scan", "upsert"} =>
                pc[x] \in {"scan", "upsert"} /\ hand'[x] = hand[x]
            BY <2>9, <1>4 DEF FindServer, ListSites, Observe, Look, Goto, Typed, ShapeOK
        <3> QED
            BY <3>1, <3>2, <3>3, <1>3 DEF StillThere
    <2>10. CASE ServerConflict(r) \/ RowConflict(r) \/ PathConflict(r)
        BY <2>10, <1>6 DEF ServerConflict, RowConflict, PathConflict
    <2>11. CASE Merge(r)
        BY <2>11, <1>5 DEF Merge, own
    <2> QED
        BY <1>12, <1>7, <2>1, <2>2, <2>3, <2>4, <2>5, <2>6, <2>7, <2>8, <2>9, <2>10, <2>11
           DEF Step
<1>13. Goal'
    BY <1>5, <1>6, <1>12 DEF Next, Die, Edit, vars, own
<1> QED
    BY <1>13 DEF RowInv

LEMMA RowInit ==
    ASSUME Init
    PROVE  RowInv
<1>1. Earlier.row = [s \in Sites |-> <<>>] /\ NoRows.row = [s \in Sites |-> <<>>]
    BY DEF Earlier, NoRows
<1> QED
    BY <1>1 DEF Init, RowInv, TablesApart, Apart, StillThere, Distinct, Extends

LEMMA InvNext ==
    ASSUME Inv, [Next]_vars
    PROVE  Inv'
    BY AlertNext, RowNext DEF Inv

(* A run that found a key missing before another run added it does not add it  *)
(* again: it meets the constraint and leaves the table as it was.              *)
THEOREM RowsOnce == Spec => []OneRowPerKey
<1>1. Init => Inv
    BY AlertInit, RowInit DEF Inv
<1>2. Inv /\ [Next]_vars => Inv'
    BY InvNext
<1>3. Inv => OneRowPerKey
    BY DEF Inv, RowInv, TablesApart, Apart, Distinct, OneRowPerKey
<1> QED
    BY <1>1, <1>2, <1>3, PTL DEF Spec

--------------------------------------------------------------------------------
(* The type invariant.  What a merge reads is a row, because the rows that a   *)
(* run has read before it are in the table.                                    *)

MetTyped == met \in [Runs -> Met \cup {None}]

LEMMA KeptThere ==
    ASSUME NEW rows \in Seq(Row)
    PROVE  /\ \A key : Kept(rows, key) \subseteq DOMAIN rows
           /\ \A keys : Gone(rows, keys) \subseteq DOMAIN rows
    BY DEF Kept, Gone

(* The row that a merge reads.                                                 *)
LEMMA MergeReads ==
    ASSUME Inv, NEW r \in Runs, Merge(r)
    PROVE  \E i \in DOMAIN known[r] :
              /\ hand[r] \in Sites /\ i \in Nat
              /\ i \in DOMAIN db.row[hand[r]] /\ db.row[hand[r]][i] \in Row
              /\ left[r] = {} => i \in Gone(known[r], KeysSeen(r))
              /\ met' = [met EXCEPT ![r] =
                            [site |-> hand[r], nth |-> i, row |-> db.row[hand[r]][i]]]
<1>1. Typed /\ StillThere(r)
    BY DEF Inv, AlertInv, RowInv
<1>2. /\ pc[r] = "upsert" /\ Visible(r) = db
      /\ hand[r] \in Sites /\ known[r] \in Seq(Row) /\ db.row[hand[r]] \in Seq(Row)
    BY <1>1 DEF Merge, Visible, Typed, ShapeOK, Held, Tables
<1>3. PICK i : /\ i \in IF left[r] # {}
                        THEN UNION {Kept(known[r], e.key) : e \in Leading(left[r])}
                        ELSE Gone(known[r], KeysSeen(r))
               /\ met' = [met EXCEPT ![r] =
                            [site |-> hand[r], nth |-> i, row |-> db.row[hand[r]][i]]]
    BY DEF Merge
<1>4. i \in DOMAIN known[r]
    BY <1>2, <1>3, KeptThere
<1>5. i \in DOMAIN db.row[hand[r]]
    BY <1>1, <1>2, <1>4 DEF StillThere, Extends
<1>6. i \in Nat /\ db.row[hand[r]][i] \in Row
    BY <1>2, <1>5
<1> QED
    BY <1>2, <1>3, <1>4, <1>5, <1>6

LEMMA MetKept ==
    ASSUME NEW r \in Runs, Step(r) \/ Die(r)
    PROVE  met' = met \/ met' = [met EXCEPT ![r] = None] \/ Merge(r)
<1>1. Touches(r)
    BY StepTouches
<1> QED
    BY <1>1 DEF Touches, Reads, Writes, Rollback, Commit, Forget

LEMMA MetNext ==
    ASSUME Inv, MetTyped, [Next]_vars
    PROVE  MetTyped'
<1>1. ASSUME NEW r \in Runs, Merge(r)
      PROVE  MetTyped'
    <2>1. PICK i \in DOMAIN known[r] :
              /\ hand[r] \in Sites /\ i \in Nat /\ db.row[hand[r]][i] \in Row
              /\ met' = [met EXCEPT ![r] =
                            [site |-> hand[r], nth |-> i, row |-> db.row[hand[r]][i]]]
        BY <1>1, MergeReads
    <2>2. [site |-> hand[r], nth |-> i, row |-> db.row[hand[r]][i]] \in Met
        BY <2>1 DEF Met
    <2> QED
        BY <2>1, <2>2 DEF MetTyped
<1>2. ASSUME NEW r \in Runs, Step(r) \/ Die(r)
      PROVE  MetTyped'
    BY <1>1, <1>2, MetKept DEF MetTyped
<1> QED
    BY <1>2 DEF Next, Edit, vars, MetTyped

(* Whatever overlaps, conflicts or dies, the rows, and what each run holds of  *)
(* them between its reads and its writes, are what the code takes them for:    *)
(* a row merged, written in place, or marked absent is one the table has.      *)
THEOREM ReconcileTypeCorrect == Spec => []TypeOK
<1>1. Init => Inv /\ MetTyped
    BY AlertInit, RowInit DEF Inv, Init, MetTyped
<1>2. Inv /\ MetTyped /\ [Next]_vars => (Inv /\ MetTyped)'
    BY InvNext, MetNext
<1>3. Inv /\ MetTyped => TypeOK
    BY DEF Inv, AlertInv, Typed, TypeOK, MetTyped
<1> QED
    BY <1>1, <1>2, <1>3, PTL DEF Spec

--------------------------------------------------------------------------------
(* What a run commits is what it saw.  First, what the changes of the tables   *)
(* make of the rows, apart from the runs that make them.                       *)

Unique(entries) == \A e, f \in entries : e.key = f.key /\ e.nth = f.nth => e = f

(* Row i is as a save was to leave it: all of it, or what differs from before  *)
(* of a row that was merged early.                                             *)
SavedAs(rows, i, new, before, early) ==
    rows[i] = new \/ (i \in early /\ Becomes(before[i], rows[i], new))

(* Each key has a row that says what its last entry says.                      *)
Covered(rows, entries, before, early) ==
    \A e \in entries : \E g \in entries :
        /\ g.key = e.key
        /\ \A f \in entries : f.key = e.key => f.nth <= g.nth
        /\ \E i \in DOMAIN rows : SavedAs(rows, i, NewRow(g), before, early)

Shown(rows, entries, before, early) ==
    \A e \in entries : \E i \in DOMAIN rows :
        SavedAs(rows, i, NewRow(Last(entries, e.key)), before, early)

(* What the first merge read is the row as it still is, or the row is early.   *)
Merged(read, rows, before, early) ==
    read # None => /\ before = rows
                   /\ read.nth \in early \/ read.row = rows[read.nth]

(* A row is as it was read, or has the key of an entry.                        *)
Explained(rows, old, entries) ==
    \A i \in DOMAIN rows : \/ i \in DOMAIN old /\ rows[i] = old[i]
                           \/ \E e \in entries : e.key = rows[i].key

LEMMA ScannedUnique ==
    ASSUME NEW s \in Sites
    PROVE  Unique(Scanned(s))
<1>1. Unique(ScannedExtensions(contents[s]))
    <2> DEFINE Ext(k) == [key |-> k, value |-> contents[s][k], flag |-> FALSE, nth |-> 1]
    <2>1. \A k : Ext(k).key = k
        OBVIOUS
    <2> HIDE DEF Ext
    <2>2. \A e \in {Ext(k) : k \in {x \in Keys : contents[s][x] # Absent}} : e = Ext(e.key)
        BY <2>1
    <2>3. ScannedExtensions(contents[s]) = {Ext(k) : k \in {x \in Keys : contents[s][x] # Absent}}
        BY DEF ScannedExtensions, Ext
    <2> QED
        BY <2>2, <2>3 DEF Unique
<1>2. Unique(ScannedSettings(contents[s]))
    BY DEF Unique, ScannedSettings
<1>3. Unique(ScannedCrontab(contents[s]))
    BY DEF Unique, ScannedCrontab
<1> QED
    BY <1>1, <1>2, <1>3 DEF Scanned, Unique

LEMMA LastIs ==
    ASSUME NEW entries \in SUBSET Entry, Unique(entries), NEW g \in entries,
           \A f \in entries : f.key = g.key => f.nth <= g.nth
    PROVE  Last(entries, g.key) = g
<1> DEFINE IsLast(e) == e.key = g.key /\ \A f \in entries : f.key = g.key => f.nth <= e.nth
<1>1. IsLast(g)
    OBVIOUS
<1>2. ASSUME NEW e \in entries, IsLast(e)
      PROVE  e = g
    <2>1. e.nth <= g.nth /\ g.nth <= e.nth /\ e.nth \in Nat /\ g.nth \in Nat
        BY <1>2 DEF Entry
    <2> QED
        BY <1>2, <2>1 DEF Unique
<1> QED
    BY <1>1, <1>2 DEF Last

(* What a save makes of a row.                                                 *)
LEMMA SaveSays ==
    ASSUME NEW t \in Tables, NEW s \in Sites, NEW i \in DOMAIN t.row[s], NEW read,
           NEW before, NEW early, Merged(read, t.row[s], before, early),
           NEW new \in Row, new.key = t.row[s][i].key
    PROVE  LET saved == Saved(t, s, i, read, new)
           IN  /\ saved.key = new.key
               /\ saved = new \/ (i \in early /\ Becomes(before[i], saved, new))
<1> DEFINE row == t.row[s][i]
           saved == Saved(t, s, i, read, new)
<1>1. row \in Row
    BY DEF Tables
<1>2. CASE ~(read # None /\ read.nth = i)
    BY <1>2 DEF Saved
<1>3. CASE read # None /\ read.nth = i
    <2>1. saved = Updated(row, read.row, new)
        BY <1>3 DEF Saved
    <2>2. before[i] = row
        BY <1>3 DEF Merged
    <2>3. i \in early \/ read.row = row
        BY <1>3 DEF Merged
    <2>4. row.key = new.key
        OBVIOUS
    <2> HIDE DEF row, saved
    <2>5. saved.key = new.key /\ Becomes(row, saved, new)
        BY <2>1, <2>4 DEF Updated, Becomes
    <2>6. CASE read.row = row
        <3>1. saved = [key |-> new.key, value |-> new.value, flag |-> new.flag,
                       present |-> new.present]
            BY <2>1, <2>4, <2>6 DEF Updated
        <3> QED
            BY <2>5, <3>1 DEF Row, saved
    <2> QED
        BY <2>2, <2>3, <2>5, <2>6 DEF saved
<1> QED
    BY <1>2, <1>3

LEMMA CoverStep ==
    ASSUME NEW t \in Tables, NEW s \in Sites, NEW rows \in Seq(Row), NEW e \in Entry,
           NEW read, NEW before, NEW early, Merged(read, t.row[s], before, early),
           Extends(rows, t.row[s]), NEW done \in SUBSET Entry,
           \A f \in done : f.nth <= e.nth, Covered(t.row[s], done, before, early)
    PROVE  LET new == Upserted(t, s, rows, e, read).row[s]
           IN  /\ Covered(new, done \cup {e}, before, early)
               /\ Explained(t.row[s], rows, done) => Explained(new, rows, done \cup {e})
<1> DEFINE old == t.row[s]
           new == Upserted(t, s, rows, e, read).row[s]
           As(i, g) == SavedAs(new, i, NewRow(g), before, early)
<1>1. old \in Seq(Row)
    BY DEF Tables
<1>2. NewRow(e).key = e.key /\ NewRow(e) \in Row
    BY DEF NewRow, Row, Entry
<1>3. /\ DOMAIN old \subseteq DOMAIN new
      /\ \E i \in DOMAIN new : As(i, e)
      /\ \A i \in DOMAIN old : old[i].key # e.key => new[i] = old[i]
      /\ \A i \in DOMAIN new : \/ i \in DOMAIN old /\ new[i] = old[i]
                               \/ new[i].key = e.key
    <2>1. CASE Kept(rows, e.key) = {}
        <3>1. new = Append(old, NewRow(e))
            BY <2>1 DEF Upserted, Tables
        <3> HIDE DEF old, new
        <3>2. /\ DOMAIN old = 1..Len(old) /\ DOMAIN new = 1..(Len(old) + 1) /\ Len(old) \in Nat
              /\ \A i \in DOMAIN old : new[i] = old[i]
              /\ new[Len(old) + 1] = NewRow(e)
            BY <1>1, <3>1
        <3>3. \A i \in DOMAIN new : i \in DOMAIN old \/ i = Len(old) + 1
            BY <3>2
        <3>4. DOMAIN old \subseteq DOMAIN new /\ Len(old) + 1 \in DOMAIN new
            BY <3>2
        <3>5. As(Len(old) + 1, e)
            BY <3>2 DEF SavedAs
        <3> HIDE DEF As
        <3> QED
            BY <1>2, <3>2, <3>3, <3>4, <3>5
    <2>2. CASE Kept(rows, e.key) # {}
        <3> DEFINE Put(i) == Saved(t, s, i, read, NewRow(e))
        <3>1. new = [i \in DOMAIN old |-> IF i \in Kept(rows, e.key) THEN Put(i) ELSE old[i]]
            BY <2>2 DEF Upserted, Tables
        <3>2. \A i \in Kept(rows, e.key) : i \in DOMAIN old /\ old[i].key = e.key
            BY DEF Kept, Extends
        <3>3. PICK k \in Kept(rows, e.key) : TRUE
            BY <2>2
        <3>4. ASSUME NEW i \in Kept(rows, e.key)
              PROVE  Put(i).key = e.key /\ As(i, e)
            <4>1. /\ Put(i).key = NewRow(e).key
                  /\ Put(i) = NewRow(e) \/ (i \in early /\ Becomes(before[i], Put(i), NewRow(e)))
                BY <1>2, <3>2, SaveSays
            <4>2. new[i] = Put(i)
                BY <3>1, <3>2
            <4> QED
                BY <1>2, <4>1, <4>2 DEF SavedAs
        <3> HIDE DEF old, new, Put, As
        <3> QED
            BY <3>1, <3>2, <3>3, <3>4
    <2> QED
        BY <2>1, <2>2
<1>4. Covered(old, done, before, early)
    OBVIOUS
<1>5. Explained(old, rows, done) => Explained(new, rows, done \cup {e})
    <2> HIDE DEF old, new
    <2> QED
        BY <1>3 DEF Explained
<1> HIDE DEF old, new
<1>6. ASSUME NEW a \in done \cup {e}
      PROVE  \E g \in done \cup {e} :
                /\ g.key = a.key
                /\ \A f \in done \cup {e} : f.key = a.key => f.nth <= g.nth
                /\ \E i \in DOMAIN new : As(i, g)
    <2>1. CASE a.key = e.key
        <3>1. e.nth <= e.nth
            BY DEF Entry
        <3> HIDE DEF As
        <3> QED
            BY <1>3, <2>1, <3>1
    <2>2. CASE a.key # e.key
        <3>1. PICK g \in done : /\ g.key = a.key
                                /\ \A f \in done : f.key = a.key => f.nth <= g.nth
                                /\ \E i \in DOMAIN old :
                                        SavedAs(old, i, NewRow(g), before, early)
            BY <1>4, <1>6, <2>2 DEF Covered
        <3>2. PICK i \in DOMAIN old : SavedAs(old, i, NewRow(g), before, early)
            BY <3>1
        <3>3. old[i].key = a.key
            <4>1. NewRow(g).key = g.key
                BY DEF NewRow
            <4> QED
                BY <3>1, <3>2, <4>1 DEF SavedAs, Becomes
        <3>4. new[i] = old[i] /\ i \in DOMAIN new
            BY <1>3, <2>2, <3>3
        <3>5. As(i, g)
            BY <3>2, <3>4 DEF SavedAs
        <3> HIDE DEF As
        <3> QED
            BY <2>2, <3>1, <3>4, <3>5
    <2> QED
        BY <2>1, <2>2
<1>7. Covered(new, done \cup {e}, before, early)
    BY <1>6 DEF Covered
<1> QED
    BY <1>5, <1>7 DEF old, new

KeysOf(entries) == {e.key : e \in entries}

LEMMA NoneMarked ==
    ASSUME NEW t \in Tables, NEW s \in Sites, NEW rows, NEW keys, NEW read,
           Gone(rows, keys) = {}
    PROVE  MarkedAbsent(t, s, rows, keys, read).row[s] = t.row[s]
<1>1. t.row[s] \in Seq(Row) /\ t.row \in [Sites -> Seq(Row)]
    BY DEF Tables
<1>2. MarkedAbsent(t, s, rows, keys, read).row[s] = [i \in DOMAIN t.row[s] |-> t.row[s][i]]
    BY DEF MarkedAbsent, Tables
<1> QED
    BY <1>1, <1>2

(* When all entries are written, what is left over is marked absent.           *)
LEMMA MarkStep ==
    ASSUME NEW t \in Tables, NEW s \in Sites, NEW rows \in Seq(Row),
           NEW read, NEW before, NEW early, Merged(read, t.row[s], before, early),
           Extends(rows, t.row[s]), NEW all \in SUBSET Entry, Unique(all),
           Covered(t.row[s], all, before, early)
    PROVE  LET new == MarkedAbsent(t, s, rows, KeysOf(all), read).row[s]
           IN  /\ Shown(new, all, before, early)
               /\ early = {} /\ Explained(t.row[s], rows, all) => NothingElse(new, all)
<1> DEFINE keys == KeysOf(all)
           old == t.row[s]
           new == MarkedAbsent(t, s, rows, keys, read).row[s]
           Lost(i) == [rows[i] EXCEPT !.present = FALSE]
           Put(i) == Saved(t, s, i, read, Lost(i))
           exact == early = {} /\ Explained(old, rows, all)
<1>1. old \in Seq(Row)
    BY DEF Tables
<1>2. new = [i \in DOMAIN old |-> IF i \in Gone(rows, keys) THEN Put(i) ELSE old[i]]
    BY DEF MarkedAbsent, Tables
<1>3. ASSUME NEW i \in Gone(rows, keys)
      PROVE  /\ i \in DOMAIN rows /\ i \in DOMAIN old
             /\ old[i].key = rows[i].key /\ rows[i].key \notin keys
             /\ exact => ~Put(i).present
             /\ Put(i).key = rows[i].key
    <2>1. i \in DOMAIN rows /\ rows[i].key \notin keys
        BY DEF Gone
    <2>2. rows[i] \in Row
        BY <2>1
    <2>3. i \in DOMAIN old /\ old[i].key = rows[i].key
        BY <2>1 DEF Extends
    <2>4. /\ ~Lost(i).present /\ Lost(i).key = rows[i].key /\ Lost(i) \in Row
        BY <2>2 DEF Row
    <2> HIDE DEF Lost
    <2>5. /\ Put(i).key = Lost(i).key
          /\ Put(i) = Lost(i) \/ i \in early
        <3>1. Lost(i).key = old[i].key /\ Lost(i) \in Row /\ i \in DOMAIN old
            BY <2>3, <2>4
        <3>2. /\ Put(i).key = Lost(i).key
              /\ Put(i) = Lost(i) \/ (i \in early /\ Becomes(before[i], Put(i), Lost(i)))
            BY <3>1, SaveSays
        <3> QED
            BY <3>2
    <2> HIDE DEF Put, keys, old
    <2> QED
        BY <2>1, <2>3, <2>4, <2>5
<1>5. \A e \in all : e.key \in keys
    BY DEF KeysOf
<1>6. \A k \in keys : \E e \in all : e.key = k
    BY DEF KeysOf
<1>7. /\ Covered(old, all, before, early) /\ Extends(rows, old)
      /\ exact => Explained(old, rows, all)
      /\ exact => early = {}
    OBVIOUS
<1> HIDE DEF keys, old, new, Put, exact
<1>8. /\ DOMAIN new = DOMAIN old
      /\ \A i \in DOMAIN old : new[i].key = old[i].key
      /\ exact => \A i \in Gone(rows, keys) : ~new[i].present
      /\ \A i \in DOMAIN old : i \notin Gone(rows, keys) => new[i] = old[i]
    BY <1>2, <1>3
<1>9. ASSUME NEW e \in all
      PROVE  \E i \in DOMAIN new :
                SavedAs(new, i, NewRow(Last(all, e.key)), before, early)
    <2>1. PICK g \in all : /\ g.key = e.key
                           /\ \A f \in all : f.key = e.key => f.nth <= g.nth
                           /\ \E i \in DOMAIN old : SavedAs(old, i, NewRow(g), before, early)
        BY <1>7 DEF Covered
    <2>2. PICK i \in DOMAIN old : SavedAs(old, i, NewRow(g), before, early)
        BY <2>1
    <2>3. Last(all, e.key) = g
        BY <2>1, LastIs
    <2>4. old[i].key = g.key
        <3>1. NewRow(g).key = g.key
            BY DEF NewRow
        <3> QED
            BY <2>2, <3>1 DEF SavedAs, Becomes
    <2>5. i \notin Gone(rows, keys)
        BY <1>3, <1>5, <2>4
    <2> QED
        BY <1>8, <2>2, <2>3, <2>5 DEF SavedAs
<1>10. ASSUME exact, NEW i \in DOMAIN new, new[i].present
       PROVE  Twin(new, i) \/ \E e \in all : e.key = new[i].key
    <2>1. new[i] = old[i] /\ i \notin Gone(rows, keys) /\ i \in DOMAIN old
        BY <1>8, <1>10
    <2>2. CASE i \in DOMAIN rows /\ old[i] = rows[i] /\ old[i].key \notin keys
        <3>1. i \notin Kept(rows, rows[i].key)
            BY <1>10, <2>1, <2>2 DEF Gone
        <3>2. PICK j \in DOMAIN rows : j > i /\ rows[j].key = rows[i].key
            BY <2>2, <3>1 DEF Kept
        <3>3. j \in DOMAIN old /\ old[j].key = rows[j].key /\ j # i
            BY <1>7, <2>2, <3>2 DEF Extends
        <3> QED
            BY <1>8, <2>1, <2>2, <3>2, <3>3 DEF Twin
    <2>3. CASE old[i].key \in keys
        BY <1>6, <2>1, <2>3
    <2>4. CASE \E e \in all : e.key = old[i].key
        BY <2>1, <2>4
    <2> QED
        BY <1>7, <1>10, <2>1, <2>2, <2>3, <2>4 DEF Explained
<1>11. Shown(new, all, before, early) /\ (exact => NothingElse(new, all))
    BY <1>9, <1>10 DEF Shown, NothingElse
<1> QED
    BY <1>11 DEF keys, old, new, exact

--------------------------------------------------------------------------------
(* Now the runs: what the place of each says of what it has seen and written.  *)

Seen(r) == view[r][hand[r]]
Done(r) == Seen(r) \ left[r]
AtHand(r) == Visible(r).row[hand[r]]

(* The row of the run's first save, if another run may have changed it.        *)
EarlyRows(r, s) == {i \in Nat : ~lone[r] /\ Early(r, s, i)}

JobPlaces(r) ==
    /\ pc[r] \in {"server", "accounts", "commit"} => JobOf(r) = "discovery"
    /\ pc[r] \in {"sites", "rows", "scan", "upsert"} => JobOf(r) \in Items
    /\ pc[r] \in {"look", "insert"} => JobOf(r) = "temp_file_scan"
    /\ pc[r] \in {"accounts", "commit"} => writer = r
    /\ pc[r] \in {"idle", "server"} => heard[r] = {}

(* Of discovery, in the tables it holds the lock of.                           *)
Activated(r) ==
    /\ \A a \in Accounts : a \in heard[r] => draft.account[a].active
    /\ \A s \in Sites : s \in heard[r] => draft.site[s].active

OnlyHeard(t, seen) ==
    /\ \A a \in Accounts : t.account[a] # None => (t.account[a].active <=> a \in seen)
    /\ \A s \in Sites : t.site[s] # None => (t.site[s].active <=> s \in seen)

Discovering(r) ==
    /\ pc[r] = "accounts" => Activated(r)
    /\ pc[r] = "commit" => OnlyHeard(draft, heard[r])

(* Of its first merge, until it takes the lock.                                *)
Merging(r) ==
    met[r] # None /\ writer # r =>
        /\ pc[r] = "upsert"
        /\ met[r].site = hand[r]
        /\ lone[r] => met[r].row = db.row[hand[r]][met[r].nth]
        /\ left[r] = {} => met[r].nth \in Gone(known[r], KeysSeen(r))

(* Of the installation at hand: what is written so far covers what was seen.   *)
(* The rows are as they were read but for that, unless another run committed.  *)
Working(r) ==
    /\ pc[r] \in {"rows", "upsert"} => Seen(r) \subseteq Entry /\ Unique(Seen(r))
    /\ pc[r] = "rows" => left[r] = Seen(r)
    /\ pc[r] = "scan" /\ lone[r] => AtHand(r) = known[r]
    /\ pc[r] = "upsert" =>
        /\ left[r] \subseteq Seen(r)
        /\ \A e \in Done(r), f \in left[r] : e.nth <= f.nth
        /\ Done(r) # {} => writer = r
        /\ Covered(AtHand(r), Done(r), db.row[hand[r]], EarlyRows(r, hand[r]))
        /\ lone[r] => Explained(AtHand(r), known[r], Done(r))

(* Of the installations before it.                                             *)
InHand(r, s) == pc[r] \in {"rows", "scan", "upsert"} /\ s = hand[r]

Reconciled(r, s) ==
    /\ Shown(Visible(r).row[s], view[r][s], db.row[s], EarlyRows(r, s))
    /\ lone[r] => NothingElse(Visible(r).row[s], view[r][s])
    /\ view[r][s] # {} => writer = r

Past(r) ==
    /\ pc[r] \notin {"sites", "rows", "scan", "upsert"} => \A s \in Sites : view[r][s] = Absent
    /\ \A s \in Sites : view[r][s] # Absent /\ ~InHand(r, s) => Reconciled(r, s)

Saw(r) == JobPlaces(r) /\ Discovering(r) /\ Merging(r) /\ Working(r) /\ Past(r)

ViewTyped == view \in [Runs -> [Sites -> (SUBSET Entry) \cup {Absent}]]

SawInv ==
    /\ Inv
    /\ ViewTyped /\ MetTyped
    /\ \A r \in Runs : Saw(r)

(* A step leaves the other runs' objects.                                      *)
Spares(x) ==
    /\ pc'[x] = pc[x] /\ hand'[x] = hand[x] /\ left'[x] = left[x]
    /\ known'[x] = known[x] /\ heard'[x] = heard[x] /\ view'[x] = view[x]
    /\ met'[x] = met[x]

LEMMA StepSpares ==
    ASSUME Typed, ViewTyped, MetTyped, NEW r \in Runs, Step(r) \/ Die(r),
           NEW x \in Runs, x # r
    PROVE  Spares(x)
<1> USE DEF Typed, ShapeOK, ViewTyped, MetTyped, Spares, Goto, Reads, Writes
<1>1. CASE FindServer(r) \/ SaveServer(r)
    BY <1>1 DEF FindServer, SaveServer
<1>2. CASE SeeAccount(r)
    BY <1>2 DEF SeeAccount
<1>3. CASE Deactivate(r)
    BY <1>3 DEF Deactivate, own
<1>4. CASE ListSites(r)
    BY <1>4 DEF ListSites
<1>5. CASE ReadRows(r)
    BY <1>5 DEF ReadRows, Turn
<1>6. CASE Scan(r)
    BY <1>6 DEF Scan, Turn
<1>7. CASE Upsert(r)
    BY <1>7 DEF Upsert
<1>8. CASE MarkAbsent(r)
    BY <1>8 DEF MarkAbsent
<1>9. CASE Observe(r) \/ Look(r) \/ Insert(r)
    BY <1>9 DEF Observe, Look, Insert
<1>10. CASE ServerConflict(r) \/ RowConflict(r) \/ PathConflict(r) \/ Die(r)
    BY <1>10 DEF ServerConflict, RowConflict, PathConflict, Die, Rollback, Forget
<1>11. CASE Commit(r)
    BY <1>11 DEF Commit, Forget
<1>12. CASE Merge(r)
    BY <1>12 DEF Merge, own
<1> QED
    BY <1>1, <1>2, <1>3, <1>4, <1>5, <1>6, <1>7, <1>8, <1>9, <1>10, <1>11, <1>12 DEF Step

(* What a run has seen and written stands while others run: it holds the lock, *)
(* or has written nothing and another commit is one that it must reckon with.  *)
LEMMA Stands ==
    ASSUME NEW x \in Runs, Saw(x), kind' = kind, Spares(x), lone'[x] \in BOOLEAN,
           writer = x => writer' = x /\ draft' = draft /\ db' = db,
           writer' = x => writer = x,
           \/ Visible(x)' = Visible(x) /\ (writer # x => db' = db)
           \/ writer # x /\ (pc[x] # "idle" => ~lone'[x]),
           pc[x] # "idle" /\ lone'[x] => lone[x],
           pc[x] # "idle" /\ writer = x => lone'[x] = lone[x]
    PROVE  Saw(x)'
<1>1. JobPlaces(x)'
    BY DEF Saw, JobPlaces, Spares, JobOf
<1>2. Discovering(x)'
    BY DEF Saw, JobPlaces, Discovering, Activated, OnlyHeard, Spares
<1>3. Seen(x)' = Seen(x) /\ Done(x)' = Done(x) /\ KeysSeen(x)' = KeysSeen(x)
    BY DEF Seen, Done, Spares, KeysSeen
<1>4. \A s : pc[x] # "idle" /\ writer = x => EarlyRows(x, s)' = EarlyRows(x, s)
    BY DEF EarlyRows, Early, Spares
<1>5. Merging(x)'
    BY <1>3 DEF Saw, Merging, Spares, Visible
<1>6. Working(x)'
    <2>1. CASE Done(x) = {}
        <3>1. Covered(AtHand(x), Done(x), db.row[hand[x]], EarlyRows(x, hand[x]))'
            BY <1>3, <2>1 DEF Covered
        <3>2. pc[x] # "idle" /\ lone'[x] => AtHand(x)' = AtHand(x) /\ lone[x]
            BY DEF AtHand, Spares
        <3> QED
            BY <1>3, <2>1, <3>1, <3>2 DEF Saw, Working, Spares
    <2>2. CASE pc[x] = "upsert" /\ writer = x
        <3>1. AtHand(x)' = AtHand(x) /\ db' = db /\ hand'[x] = hand[x]
            BY <2>2 DEF AtHand, Spares, Visible
        <3>2. EarlyRows(x, hand[x])' = EarlyRows(x, hand[x])
            BY <1>4, <2>2, <3>1 DEF EarlyRows, Early, Spares
        <3>3. Covered(AtHand(x), Done(x), db.row[hand[x]], EarlyRows(x, hand[x]))
                => Covered(AtHand(x), Done(x), db.row[hand[x]], EarlyRows(x, hand[x]))'
            BY <1>3, <3>1, <3>2 DEF Covered, SavedAs
        <3> QED
            BY <1>3, <2>2, <3>1, <3>3 DEF Saw, Working, Spares
    <2>3. CASE pc[x] # "upsert"
        <3>1. pc[x] # "idle" /\ lone'[x] => AtHand(x)' = AtHand(x) /\ lone[x]
            BY DEF AtHand, Spares
        <3> QED
            BY <1>3, <2>3, <3>1 DEF Saw, Working, Spares
    <2> QED
        BY <2>1, <2>2, <2>3 DEF Saw, Working
<1>7. Past(x)'
    <2>1. pc[x] = "idle" => \A s \in Sites : view[x][s] = Absent
        BY DEF Saw, Past
    <2>2. ASSUME NEW s \in Sites, view[x][s] # Absent, ~InHand(x, s)
          PROVE  Reconciled(x, s)'
        <3>1. Reconciled(x, s) /\ pc[x] # "idle" /\ view'[x] = view[x]
            BY <2>1, <2>2 DEF Saw, Past, Spares
        <3>2. lone'[x] => lone[x] /\ Visible(x)' = Visible(x)
            BY <3>1 DEF Visible
        <3>3. CASE writer = x
            <4>1. /\ EarlyRows(x, s)' = EarlyRows(x, s)
                  /\ Visible(x)' = Visible(x) /\ db' = db /\ writer' = x
                BY <1>4, <3>1, <3>3 DEF Visible
            <4> QED
                BY <3>1, <3>2, <4>1 DEF Reconciled, Shown, SavedAs
        <3>4. CASE writer # x
            BY <3>1, <3>2, <3>4 DEF Reconciled, Shown
        <3> QED
            BY <3>3, <3>4
    <2>3. \A s : InHand(x, s)' <=> InHand(x, s)
        BY DEF InHand, Spares
    <2> QED
        BY <2>2, <2>3 DEF Saw, Past, Spares
<1> QED
    BY <1>1, <1>2, <1>5, <1>6, <1>7 DEF Saw

LEMMA OthersStand ==
    ASSUME SawInv, NEW r \in Runs, Step(r) \/ Die(r), NEW x \in Runs, x # r
    PROVE  Saw(x)'
<1>1. /\ Typed /\ ViewTyped /\ MetTyped /\ Saw(x) /\ x # None /\ r # None
      /\ lone[x] \in BOOLEAN
    BY ReconcileAssumption DEF SawInv, Inv, AlertInv, ViewTyped, Typed, ShapeOK
<1>2. Spares(x)
    BY <1>1, StepSpares
<1>3. Touches(r)
    BY StepTouches
<1>4. CASE Reads \/ Merge(r)
    BY <1>1, <1>2, <1>4, Stands DEF Reads, Merge, Visible
<1>5. CASE \E t : Writes(r, t)
    BY <1>1, <1>2, <1>5, Stands DEF Writes, CanWrite, Visible
<1>6. CASE Rollback(r)
    <2>1. /\ kind' = kind /\ lone'[x] = lone[x] /\ Visible(x)' = Visible(x)
          /\ db' = db /\ (writer = x => writer' = x) /\ (writer' = x => writer = x)
          /\ writer = x => draft' = draft
        BY <1>1, <1>6 DEF Rollback, Forget, Visible, Typed, ShapeOK
    <2> QED
        BY <1>1, <1>2, <2>1, Stands
<1>7. CASE Commit(r)
    <2>1. /\ kind' = kind /\ draft' = draft /\ (writer = x => writer' = x)
          /\ writer' = x => writer = x
        BY <1>1, <1>7 DEF Commit, Forget
    <2>2. pc[x] # "idle" => lone'[x] = (lone[x] /\ writer # r)
        BY <1>7 DEF Commit
    <2>3. lone'[x] \in BOOLEAN
        BY <1>1, CommitTyped, <1>7 DEF Typed, ShapeOK
    <2>4. CASE writer = r
        <3>1. writer # x /\ (pc[x] # "idle" => ~lone'[x])
            BY <2>2, <2>4
        <3> QED
            BY <1>1, <1>2, <2>1, <2>2, <2>3, <3>1, Stands
    <2>5. CASE writer # r
        <3>1. Visible(x)' = Visible(x) /\ db' = db
            BY <1>1, <1>7, <2>5 DEF Commit, Visible
        <3> QED
            BY <1>1, <1>2, <2>1, <2>2, <2>3, <2>5, <3>1, Stands
    <2> QED
        BY <2>4, <2>5
<1> QED
    BY <1>3, <1>4, <1>5, <1>6, <1>7 DEF Touches

(* The run itself: first, the runs that have looked at no installation.        *)
LEMMA ForgetSaw ==
    ASSUME SawInv, NEW r \in Runs, Forget(r)
    PROVE  Saw(r)'
<1>1. /\ pc'[r] = "idle" /\ heard'[r] = {} /\ \A s \in Sites : view'[r][s] = Absent
      /\ met'[r] = None
    BY DEF SawInv, Inv, AlertInv, Typed, ShapeOK, ViewTyped, MetTyped, Forget, Goto
<1> QED
    BY <1>1 DEF Saw, JobPlaces, Discovering, Merging, Working, Past, InHand

(* At a place where no installation is looked at.                              *)
LEMMA NoView ==
    ASSUME NEW r \in Runs, Saw(r), view' = view, pc[r] \notin {"sites", "rows", "scan", "upsert"},
           pc'[r] \notin {"rows", "scan", "upsert"}
    PROVE  Working(r)' /\ Past(r)'
    BY DEF Saw, Working, Past

(* It merges nothing before it writes what it saw.                             *)
LEMMA NoMerge ==
    ASSUME NEW r \in Runs, Saw(r), pc[r] # "upsert", Reads \/ \E t : Writes(r, t)
    PROVE  Merging(r)'
    BY DEF Saw, Merging, Reads, Writes

LEMMA DiscoverySaw ==
    ASSUME SawInv, NEW r \in Runs,
           FindServer(r) \/ SaveServer(r) \/ SeeAccount(r) \/ Deactivate(r)
    PROVE  Saw(r)'
<1> USE DEF Typed, ShapeOK
<1>1. Typed /\ Saw(r) /\ (writer = None => draft = db) /\ r # None
    BY ReconcileAssumption DEF SawInv, Inv, AlertInv
<1>2. CASE FindServer(r)
    <2>1. pc'[r] = "server" /\ heard' = heard /\ view' = view /\ kind' = kind
        BY <1>1, <1>2 DEF FindServer, Goto, Reads
    <2>2. JobPlaces(r)' /\ Discovering(r)'
        BY <1>1, <1>2, <2>1 DEF FindServer, Saw, JobPlaces, JobOf, Discovering
    <2> QED
        BY <1>1, <1>2, <2>1, <2>2, NoView, NoMerge DEF FindServer, Saw
<1>3. CASE SaveServer(r)
    <2>1. pc'[r] = "accounts" /\ heard' = heard /\ view' = view /\ kind' = kind /\ writer' = r
        BY <1>1, <1>3 DEF SaveServer, Goto, Writes
    <2>2. JobPlaces(r)' /\ Discovering(r)'
        BY <1>1, <1>3, <2>1 DEF SaveServer, Saw, JobPlaces, JobOf, Discovering, Activated
    <2> QED
        BY <1>1, <1>3, <2>1, <2>2, NoView, NoMerge DEF SaveServer, Saw
<1>4. CASE SeeAccount(r)
    <2>1. PICK line \in left[r] :
            /\ Writes(r, WithAccount(draft, line))
            /\ heard' = [heard EXCEPT ![r] = @ \cup {line.account} \cup Detected(line.account)]
        BY <1>4 DEF SeeAccount
    <2>2. pc' = pc /\ view' = view /\ kind' = kind /\ writer' = r
        BY <1>4, <2>1 DEF SeeAccount, Writes
    <2>3. line \in Finding
        BY <1>1, <1>4, <2>1 DEF SeeAccount, Held
    <2>4. Activated(r)'
        <3> DEFINE found == Detected(line.account)
        <3>1. found \subseteq Sites /\ line.account \in Accounts /\ Accounts \cap Sites = {}
            BY <2>3, ReconcileAssumption DEF Detected, Finding
        <3>2. heard'[r] = heard[r] \cup {line.account} \cup found
            BY <1>1, <2>1
        <3>3. draft' = WithAccount(draft, line)
            BY <2>1 DEF Writes
        <3>4. Activated(r) /\ draft \in Tables
            BY <1>1, <1>4 DEF SeeAccount, Saw, Discovering
        <3>5. ASSUME NEW a \in Accounts, a \in heard'[r]
              PROVE  draft'.account[a].active
            <4>1. CASE a = line.account
                <5>1. draft'.account[a] = SeenAccount(draft.account[a], line.domain)
                    BY <3>1, <3>3, <3>4, <4>1 DEF WithAccount, Tables
                <5>2. SeenAccount(draft.account[a], line.domain).active
                    BY <3>4 DEF SeenAccount, Tables, Account
                <5> QED
                    BY <5>1, <5>2
            <4>2. CASE a # line.account
                <5>1. draft'.account[a] = draft.account[a]
                    BY <3>3, <3>4, <4>2 DEF WithAccount, Tables
                <5>2. a \in heard[r]
                    BY <3>1, <3>2, <3>5, <4>2
                <5> QED
                    BY <3>4, <5>1, <5>2 DEF Activated
            <4> QED
                BY <4>1, <4>2
        <3>6. ASSUME NEW s \in Sites, s \in heard'[r]
              PROVE  draft'.site[s].active
            <4>1. CASE s \in found
                <5>1. draft'.site[s] = SeenSite(draft.site[s], sites[s])
                    BY <3>3, <3>4, <4>1 DEF WithAccount, Tables
                <5>2. SeenSite(draft.site[s], sites[s]).active
                    BY <3>4 DEF SeenSite, Tables, Site
                <5> QED
                    BY <5>1, <5>2
            <4>2. CASE s \notin found
                <5>1. draft'.site[s] = draft.site[s]
                    BY <3>3, <3>4, <4>2 DEF WithAccount, Tables
                <5>2. s \in heard[r]
                    BY <3>1, <3>2, <3>6, <4>2
                <5> QED
                    BY <3>4, <5>1, <5>2 DEF Activated
            <4> QED
                BY <4>1, <4>2
        <3> QED
            BY <3>5, <3>6 DEF Activated
    <2>5. JobPlaces(r)' /\ Discovering(r)'
        BY <1>1, <1>4, <2>2, <2>4 DEF SeeAccount, Saw, JobPlaces, JobOf, Discovering
    <2> QED
        BY <1>1, <1>4, <2>1, <2>2, <2>5, NoView, NoMerge DEF SeeAccount, Saw
<1>5. CASE Deactivate(r)
    <2>1. /\ pc'[r] = "commit" /\ heard' = heard /\ view' = view /\ kind' = kind
          /\ writer' = r /\ draft' = Deactivated(draft, heard[r])
        BY <1>1, <1>5 DEF Deactivate, Goto, Writes, own
    <2>2. Activated(r) /\ draft \in Tables
        BY <1>1, <1>5 DEF Deactivate, Saw, Discovering
    <2>3. ASSUME NEW a \in Accounts, draft'.account[a] # None
          PROVE  draft'.account[a].active <=> a \in heard[r]
        BY <2>1, <2>2, <2>3 DEF Deactivated, Tables, Account, Activated
    <2>4. ASSUME NEW s \in Sites, draft'.site[s] # None
          PROVE  draft'.site[s].active <=> s \in heard[r]
        BY <2>1, <2>2, <2>4 DEF Deactivated, Tables, Site, Activated
    <2>5. JobPlaces(r)' /\ Discovering(r)'
        BY <1>1, <1>5, <2>1, <2>3, <2>4
           DEF Deactivate, Saw, JobPlaces, JobOf, Discovering, OnlyHeard
    <2> QED
        BY <1>1, <1>5, <2>1, <2>5, NoView, NoMerge DEF Deactivate, Saw
<1> QED
    BY <1>2, <1>3, <1>4, <1>5

LEMMA TempFilesSaw ==
    ASSUME SawInv, NEW r \in Runs, Observe(r) \/ Look(r) \/ Insert(r)
    PROVE  Saw(r)'
<1>1. Typed /\ Saw(r)
    BY DEF SawInv, Inv, AlertInv
<1>2. /\ pc'[r] \in {"look", "insert"} /\ view' = view /\ kind' = kind
      /\ pc[r] \in {"idle", "look", "insert"} /\ JobOf(r) = "temp_file_scan"
    BY <1>1 DEF Observe, Look, Insert, Goto, Reads, Writes, Saw, JobPlaces, Typed, ShapeOK
<1>3. JobPlaces(r)' /\ Discovering(r)'
    BY <1>2 DEF JobPlaces, JobOf, Discovering
<1>4. Merging(r)'
    BY <1>1, <1>2, NoMerge DEF Observe, Look, Insert
<1> QED
    BY <1>1, <1>2, <1>3, <1>4, NoView DEF Saw

(* A run reads the rows and the files of the next installation.                *)
LEMMA LooksSaw ==
    ASSUME SawInv, NEW r \in Runs, ListSites(r) \/ ReadRows(r) \/ Scan(r)
    PROVE  Saw(r)'
<1> USE DEF Typed, ShapeOK
<1>1. Typed /\ ViewTyped /\ Saw(r)
    BY DEF SawInv, Inv, AlertInv
<1>2. /\ UNCHANGED <<kind, server, db, draft, writer, lone>>
      /\ \A x : Visible(x)' = Visible(x)
    BY DEF ListSites, ReadRows, Scan, Reads, Visible
<1>3. JobOf(r)' = JobOf(r) /\ Merging(r)'
    BY <1>1, <1>2, NoMerge DEF JobOf, ListSites, ReadRows, Scan
<1>7. /\ \A s : EarlyRows(r, s)' = EarlyRows(r, s) /\ db' = db
      /\ \A s : view'[r][s] = view[r][s] => Reconciled(r, s)' = Reconciled(r, s)
    <2>1. met' = met
        BY DEF ListSites, ReadRows, Scan, Reads
    <2>2. \A s : EarlyRows(r, s)' = EarlyRows(r, s)
        BY <1>2, <2>1 DEF EarlyRows, Early
    <2> QED
        BY <1>2, <2>2 DEF Reconciled, Shown, SavedAs
<1>4. CASE ListSites(r)
    <2>1. pc[r] = "idle" /\ pc'[r] = "sites" /\ view' = view /\ JobOf(r) \in Items
        BY <1>1, <1>4 DEF ListSites, Goto
    <2>2. \A s \in Sites : view'[r][s] = Absent
        BY <1>1, <2>1 DEF Saw, Past
    <2> QED
        BY <1>3, <2>1, <2>2 DEF Saw, JobPlaces, Discovering, Working, Past
<1>5. CASE ReadRows(r)
    <2>1. view' = view /\ left' = left /\ JobOf(r) \in Items
        BY <1>1, <1>5 DEF ReadRows, Saw, JobPlaces
    <2>2. ASSUME NEW s \in Sites, pc[r] = "sites", Turn(r, s), Goto(r, "scan"),
                 known' = [known EXCEPT ![r] = Visible(r).row[s]]
          PROVE  Saw(r)'
        <3>1. pc'[r] = "scan" /\ hand'[r] = s /\ known'[r] = Visible(r).row[s]
            BY <1>1, <2>2 DEF Turn, Goto
        <3>2. Working(r)'
            BY <1>2, <3>1 DEF Working, AtHand
        <3>3. Past(r)'
            BY <1>1, <1>7, <2>1, <2>2, <3>1 DEF Saw, Past, InHand
        <3> QED
            BY <1>3, <2>1, <3>1, <3>2, <3>3 DEF Saw, JobPlaces, Discovering
    <2>3. ASSUME pc[r] = "rows", Goto(r, "upsert"), UNCHANGED <<hand, todo>>,
                 known' = [known EXCEPT ![r] = Visible(r).row[hand[r]]]
          PROVE  Saw(r)'
        <3>1. pc'[r] = "upsert" /\ known'[r] = AtHand(r)
            BY <1>1, <2>3 DEF Goto, AtHand
        <3>2. Seen(r)' = Seen(r) /\ AtHand(r)' = AtHand(r)
            BY <1>2, <2>1, <2>3 DEF Seen, AtHand
        <3>3. Seen(r) \subseteq Entry /\ Unique(Seen(r)) /\ left[r] = Seen(r)
            BY <1>1, <2>3 DEF Saw, Working
        <3>4. Done(r)' = {}
            BY <2>1, <3>2, <3>3 DEF Done
        <3>5. Working(r)'
            BY <2>1, <3>1, <3>2, <3>3, <3>4 DEF Working, Covered, Explained
        <3>6. Past(r)'
            BY <1>1, <1>7, <2>1, <2>3, <3>1 DEF Saw, Past, InHand
        <3> QED
            BY <1>3, <2>1, <3>1, <3>5, <3>6 DEF Saw, JobPlaces, Discovering
    <2> QED
        BY <1>5, <2>2, <2>3 DEF ReadRows
<1>6. CASE Scan(r)
    <2>1. known' = known /\ JobOf(r) \in Items
        BY <1>1, <1>6 DEF Scan, Saw, JobPlaces
    <2>2. \A s \in Sites : Scanned(s) \subseteq Entry /\ Unique(Scanned(s))
        BY <1>1, ScannedType, ScannedUnique
    <2>3. ASSUME NEW s \in Sites, view' = [view EXCEPT ![r][s] = Scanned(s)]
          PROVE  /\ view'[r][s] = Scanned(s)
                 /\ \A o \in Sites : o # s => view'[r][o] = view[r][o]
        BY <1>1, <2>3 DEF ViewTyped
    <2>4. ASSUME NEW s \in Sites, pc[r] = "sites", Turn(r, s), Goto(r, "rows"),
                 left' = [left EXCEPT ![r] = Scanned(s)],
                 view' = [view EXCEPT ![r][s] = Scanned(s)]
          PROVE  Saw(r)'
        <3>1. pc'[r] = "rows" /\ hand'[r] = s /\ left'[r] = Scanned(s)
            BY <1>1, <2>4 DEF Turn, Goto
        <3>2. Seen(r)' = Scanned(s)
            BY <2>3, <2>4, <3>1 DEF Seen
        <3>3. Working(r)'
            BY <2>2, <3>1, <3>2 DEF Working
        <3>4. Past(r)'
            BY <1>1, <1>7, <2>3, <2>4, <3>1 DEF Saw, Past, InHand
        <3> QED
            BY <1>3, <2>1, <3>1, <3>3, <3>4 DEF Saw, JobPlaces, Discovering
    <2>5. ASSUME pc[r] = "scan", Goto(r, "upsert"), UNCHANGED <<hand, todo>>,
                 left' = [left EXCEPT ![r] = Scanned(hand[r])],
                 view' = [view EXCEPT ![r][hand[r]] = Scanned(hand[r])]
          PROVE  Saw(r)'
        <3>1. hand[r] \in Sites
            BY <1>1, <2>5 DEF Held
        <3>2. pc'[r] = "upsert" /\ left'[r] = Scanned(hand[r])
            BY <1>1, <2>5 DEF Goto
        <3>3. Seen(r)' = Scanned(hand[r]) /\ Done(r)' = {}
            BY <2>3, <2>5, <3>1, <3>2 DEF Seen, Done
        <3>4. lone'[r] => AtHand(r)' = known'[r]
            BY <1>1, <1>2, <2>1, <2>5 DEF Saw, Working, AtHand
        <3>5. Working(r)'
            BY <2>2, <3>1, <3>2, <3>3, <3>4 DEF Working, Covered, Explained
        <3>6. Past(r)'
            BY <1>1, <1>7, <2>3, <2>5, <3>1, <3>2 DEF Saw, Past, InHand
        <3> QED
            BY <1>3, <2>1, <3>2, <3>5, <3>6 DEF Saw, JobPlaces, Discovering
    <2> QED
        BY <1>6, <2>4, <2>5 DEF Scan
<1> QED
    BY <1>4, <1>5, <1>6

(* A run reads the row of its first save.                                      *)
LEMMA MergeSaw ==
    ASSUME SawInv, NEW r \in Runs, Merge(r)
    PROVE  Saw(r)'
<1>1. Typed /\ MetTyped /\ Saw(r) /\ Inv
    BY DEF SawInv, Inv, AlertInv
<1>2. /\ pc[r] = "upsert" /\ writer # r /\ db' = db
      /\ UNCHANGED <<kind, draft, writer, pc, hand, left, known, heard, view, lone>>
    BY DEF Merge, own
<1>3. PICK i \in DOMAIN known[r] :
          /\ left[r] = {} => i \in Gone(known[r], KeysSeen(r))
          /\ met' = [met EXCEPT ![r] =
                        [site |-> hand[r], nth |-> i, row |-> db.row[hand[r]][i]]]
    BY <1>1, MergeReads
<1>4. met'[r] = [site |-> hand[r], nth |-> i, row |-> db.row[hand[r]][i]]
    BY <1>1, <1>3 DEF MetTyped
<1>5. Merging(r)'
    BY <1>2, <1>3, <1>4 DEF Merging, KeysSeen
<1>6. Visible(r)' = Visible(r) /\ Seen(r)' = Seen(r) /\ Done(r)' = Done(r)
    BY <1>2 DEF Visible, Seen, Done
<1>7. Working(r)'
    <2>1. Done(r) = {}
        BY <1>1, <1>2 DEF Saw, Working
    <2>2. Covered(AtHand(r), Done(r), db.row[hand[r]], EarlyRows(r, hand[r]))'
        BY <1>6, <2>1 DEF Covered
    <2> QED
        BY <1>1, <1>2, <1>6, <2>2 DEF Saw, Working, AtHand
<1>8. Past(r)'
    BY <1>1, <1>2, <1>6 DEF Saw, Past, InHand, Reconciled, Shown
<1> QED
    BY <1>1, <1>2, <1>5, <1>7, <1>8 DEF Saw, JobPlaces, JobOf, Discovering

(* What the first merge of a run means for the write that follows.             *)
LEMMA ReadMerged ==
    ASSUME SawInv, NEW r \in Runs, pc[r] = "upsert"
    PROVE  Merged(Read(r), AtHand(r), db.row[hand[r]], EarlyRows(r, hand[r]))
<1>1. Merging(r) /\ MetTyped
    BY DEF SawInv, Saw
<1>2. CASE writer = r
    BY <1>2 DEF Read, Merged
<1>3. CASE writer # r
    <2>1. Read(r) = met[r] /\ AtHand(r) = db.row[hand[r]]
        BY <1>3 DEF Read, AtHand, Visible
    <2>2. ASSUME met[r] # None
          PROVE  \/ met[r].nth \in EarlyRows(r, hand[r])
                 \/ met[r].row = AtHand(r)[met[r].nth]
        <3>1. met[r].nth \in Nat /\ met[r].site = hand[r]
            BY <1>1, <1>3, <2>2 DEF MetTyped, Met, Merging
        <3>2. CASE lone[r]
            BY <1>1, <1>3, <2>1, <2>2, <3>2 DEF Merging
        <3>3. CASE ~lone[r]
            BY <2>2, <3>1, <3>3 DEF EarlyRows, Early
        <3> QED
            BY <3>2, <3>3
    <2> QED
        BY <2>1, <2>2 DEF Merged
<1> QED
    BY <1>2, <1>3

(* Another installation's rows, and all that is said of them, are as they were.*)
LEMMA ElsewhereKept ==
    ASSUME NEW r \in Runs, NEW s \in Sites, Reconciled(r, s), view'[r] = view[r],
           db' = db, met' = met, lone' = lone, writer = r => writer' = r,
           Visible(r)'.row[s] = Visible(r).row[s]
    PROVE  Reconciled(r, s)'
<1>1. EarlyRows(r, s)' = EarlyRows(r, s)
    BY DEF EarlyRows, Early
<1> QED
    BY <1>1 DEF Reconciled, Shown, SavedAs

(* One finding is written: it is covered, and the ones before it still are.    *)
LEMMA UpsertSaw ==
    ASSUME SawInv, NEW r \in Runs, Upsert(r)
    PROVE  Saw(r)'
<1>1. Typed /\ Saw(r) /\ StillThere(r) /\ \A s \in Sites : Apart(Visible(r).row[s])
    BY DEF SawInv, Inv, AlertInv, RowInv, TablesApart, Visible
<1>2. PICK e \in left[r] :
        /\ \A f \in left[r] : e.nth <= f.nth
        /\ Kept(known[r], e.key) = {} => ~Conflicts(Visible(r), hand[r], e.key)
        /\ Writes(r, Upserted(Visible(r), hand[r], known[r], e, Read(r)))
        /\ left' = [left EXCEPT ![r] = @ \ {e}]
    BY DEF Upsert, Leading
<1>3. /\ pc[r] = "upsert" /\ UNCHANGED <<pc, hand, known, view, lone, kind, met, db, heard>>
      /\ writer' = r /\ left'[r] = left[r] \ {e}
    BY <1>1, <1>2 DEF Upsert, Writes, Typed, ShapeOK
<1>4. hand[r] \in Sites /\ known[r] \in Seq(Row) /\ e \in Entry /\ Visible(r) \in Tables
    BY <1>1, <1>2, <1>3, VisibleType DEF Typed, ShapeOK, Held
<1> DEFINE before == db.row[hand[r]]
           early == EarlyRows(r, hand[r])
<1>5. /\ Seen(r) \subseteq Entry /\ Unique(Seen(r)) /\ left[r] \subseteq Seen(r)
      /\ \A d \in Done(r), f \in left[r] : d.nth <= f.nth
      /\ Covered(AtHand(r), Done(r), before, early)
      /\ lone[r] => Explained(AtHand(r), known[r], Done(r))
    BY <1>1, <1>3 DEF Saw, Working
<1>6. Extends(known[r], AtHand(r)) /\ Merged(Read(r), AtHand(r), before, early)
    BY <1>1, <1>3, ReadMerged DEF StillThere, AtHand
<1> HIDE DEF before, early
<1> DEFINE t == Upserted(Visible(r), hand[r], known[r], e, Read(r))
<1>7. /\ Covered(t.row[hand[r]], Done(r) \cup {e}, before, early)
      /\ Explained(AtHand(r), known[r], Done(r))
            => Explained(t.row[hand[r]], known[r], Done(r) \cup {e})
    <2>1. Done(r) \in SUBSET Entry /\ \A d \in Done(r) : d.nth <= e.nth
        BY <1>2, <1>5 DEF Done
    <2>2. ASSUME NEW v \in Tables, v = Visible(r), NEW done \in SUBSET Entry, done = Done(r),
                 NEW read, read = Read(r)
          PROVE  LET new == Upserted(v, hand[r], known[r], e, read).row[hand[r]]
                 IN  /\ Covered(new, done \cup {e}, before, early)
                     /\ Explained(v.row[hand[r]], known[r], done)
                           => Explained(new, known[r], done \cup {e})
        <3>1. /\ Extends(known[r], v.row[hand[r]]) /\ Merged(read, v.row[hand[r]], before, early)
              /\ \A d \in done : d.nth <= e.nth
              /\ Covered(v.row[hand[r]], done, before, early)
            BY <1>5, <1>6, <2>1, <2>2 DEF AtHand
        <3> QED
            BY <1>4, <3>1, CoverStep
    <2> QED
        BY <1>4, <2>1, <2>2 DEF AtHand
<1>8. \A x \in Sites : x # hand[r] => t.row[x] = Visible(r).row[x]
    BY <1>4 DEF Upserted, Tables
<1>9. Visible(r)' = t
    BY <1>2 DEF Writes, Visible
<1> HIDE DEF t
<1>10. Seen(r)' = Seen(r) /\ AtHand(r)' = t.row[hand[r]]
    BY <1>3, <1>9 DEF Seen, AtHand
<1>11. Done(r)' = Done(r) \cup {e}
    BY <1>2, <1>3, <1>5, <1>10 DEF Done
<1>12. Working(r)'
    <2>1. (db.row[hand[r]])' = before /\ EarlyRows(r, hand[r])' = early
        BY <1>3 DEF before, early, EarlyRows, Early
    <2>2. Covered(AtHand(r), Done(r), db.row[hand[r]], EarlyRows(r, hand[r]))'
        BY <1>7, <1>10, <1>11, <2>1
    <2> QED
        BY <1>2, <1>3, <1>5, <1>7, <1>10, <1>11, <2>2 DEF Working
<1>13. Past(r)'
    <2>1. ASSUME NEW s \in Sites, view[r][s] # Absent, ~InHand(r, s)
          PROVE  Reconciled(r, s)'
        <3>1. Reconciled(r, s) /\ s # hand[r]
            BY <1>1, <1>3, <2>1 DEF Saw, Past, InHand
        <3>2. Visible(r)'.row[s] = Visible(r).row[s]
            BY <1>8, <1>9, <3>1
        <3> QED
            BY <1>3, <3>1, <3>2, ElsewhereKept
    <2> QED
        BY <1>3, <2>1 DEF Past, InHand
<1>14. Merging(r)'
    BY <1>3 DEF Merging
<1> QED
    BY <1>1, <1>3, <1>12, <1>13, <1>14 DEF Saw, JobPlaces, JobOf, Discovering

(* The installation is done: its rows show what the run saw of it.             *)
LEMMA MarkAbsentSaw ==
    ASSUME SawInv, NEW r \in Runs, MarkAbsent(r)
    PROVE  Saw(r)'
<1>1. Typed /\ Saw(r) /\ StillThere(r)
    BY DEF SawInv, Inv, AlertInv, RowInv
<1>2. /\ pc[r] = "upsert" /\ pc'[r] = "sites" /\ left[r] = {}
      /\ UNCHANGED <<view, lone, kind, heard, met, db>>
    BY <1>1 DEF MarkAbsent, Goto, Reads, Writes, Typed, ShapeOK
<1>3. hand[r] \in Sites /\ known[r] \in Seq(Row) /\ Visible(r) \in Tables
    BY <1>1, <1>2, VisibleType DEF Typed, ShapeOK, Held
<1> DEFINE before == db.row[hand[r]]
           early == EarlyRows(r, hand[r])
<1>4. /\ Seen(r) \subseteq Entry /\ Unique(Seen(r))
      /\ Seen(r) # {} => writer = r
      /\ Covered(AtHand(r), Seen(r), before, early)
      /\ lone[r] => Explained(AtHand(r), known[r], Seen(r))
    <2>1. Done(r) = Seen(r)
        BY <1>2 DEF Done
    <2> QED
        BY <1>1, <1>2, <2>1 DEF Saw, Working
<1>5. /\ Extends(known[r], AtHand(r)) /\ lone[r] \in BOOLEAN
      /\ Merged(Read(r), AtHand(r), before, early) /\ (lone[r] => early = {})
    BY <1>1, <1>2, ReadMerged DEF StillThere, AtHand, Typed, ShapeOK, EarlyRows
<1> HIDE DEF before, early
<1> DEFINE keys == KeysSeen(r)
           t == MarkedAbsent(Visible(r), hand[r], known[r], keys, Read(r))
<1>6. /\ Shown(t.row[hand[r]], Seen(r), before, early)
      /\ lone[r] => NothingElse(t.row[hand[r]], Seen(r))
      /\ Gone(known[r], keys) = {} => t.row[hand[r]] = AtHand(r)
    <2>1. ASSUME NEW v \in Tables, v = Visible(r), NEW all \in SUBSET Entry, all = Seen(r),
                 NEW read, read = Read(r), NEW s \in Sites, s = hand[r],
                 NEW rows \in Seq(Row), rows = known[r]
          PROVE  LET new == MarkedAbsent(v, s, rows, KeysOf(all), read).row[s]
                 IN  /\ Shown(new, all, before, early)
                     /\ early = {} /\ Explained(v.row[s], rows, all) => NothingElse(new, all)
        <3>1. Extends(rows, v.row[s]) /\ Merged(read, v.row[s], before, early)
            BY <1>5, <2>1 DEF AtHand
        <3>2. Unique(all) /\ Covered(v.row[s], all, before, early)
            BY <1>4, <2>1 DEF AtHand
        <3> QED
            BY <3>1, <3>2, MarkStep
    <2>2. keys = KeysOf(Seen(r))
        BY DEF KeysSeen, KeysOf, Seen
    <2> HIDE DEF keys
    <2>3. Gone(known[r], keys) = {} => t.row[hand[r]] = AtHand(r)
        BY <1>3, NoneMarked DEF AtHand
    <2>4. /\ Shown(t.row[hand[r]], Seen(r), before, early)
          /\ early = {} /\ Explained(AtHand(r), known[r], Seen(r))
                => NothingElse(t.row[hand[r]], Seen(r))
        BY <1>3, <1>4, <2>1, <2>2 DEF AtHand
    <2> QED
        BY <1>4, <1>5, <2>3, <2>4
<1>7. \A x \in Sites : x # hand[r] => t.row[x] = Visible(r).row[x]
    BY <1>3 DEF MarkedAbsent, Tables
<1>14. t \in Tables
    BY <1>3, MarkedAbsentType
<1>8. \/ Reads /\ Gone(known[r], keys) = {}
      \/ Writes(r, Snapshot(t, hand[r]))
    BY DEF MarkAbsent
<1> HIDE DEF t
<1>9. \A x \in Sites : Visible(r)'.row[x] = t.row[x]
    <2>1. CASE Reads /\ Gone(known[r], keys) = {}
        <3>1. Visible(r)' = Visible(r)
            BY <2>1 DEF Reads, Visible
        <3> QED
            BY <1>6, <1>7, <2>1, <3>1 DEF AtHand
    <2>2. CASE Writes(r, Snapshot(t, hand[r]))
        <3>1. Visible(r)' = Snapshot(t, hand[r])
            BY <2>2 DEF Writes, Visible
        <3> QED
            BY <1>14, <3>1, ChangesKeepRows
    <2> QED
        BY <1>8, <2>1, <2>2
<1>10. writer = r => writer' = r
    BY <1>8 DEF Reads, Writes
<1>11. ASSUME NEW s \in Sites, view[r][s] # Absent
       PROVE  Reconciled(r, s)'
    <2>1. CASE s = hand[r]
        <3>1. (db.row[s])' = before /\ EarlyRows(r, s)' = early /\ view'[r][s] = Seen(r)
            BY <1>2, <2>1 DEF before, early, EarlyRows, Early, Seen
        <3>2. Visible(r)'.row[s] = t.row[hand[r]]
            BY <1>3, <1>9, <2>1
        <3> QED
            BY <1>2, <1>4, <1>6, <1>10, <3>1, <3>2 DEF Reconciled
    <2>2. CASE s # hand[r]
        <3>1. Reconciled(r, s)
            BY <1>1, <1>11, <2>2 DEF Saw, Past, InHand
        <3>2. Visible(r)'.row[s] = Visible(r).row[s]
            BY <1>7, <1>9, <2>2
        <3> QED
            BY <1>2, <1>10, <3>1, <3>2, ElsewhereKept
    <2> QED
        BY <2>1, <2>2
<1>12. Past(r)'
    BY <1>2, <1>11 DEF Past
<1>13. Merging(r)'
    <2>1. CASE Reads /\ Gone(known[r], keys) = {}
        <3>1. met[r] = None \/ writer = r
            BY <1>1, <1>2, <2>1 DEF Saw, Merging
        <3> QED
            BY <1>2, <2>1, <3>1 DEF Merging, Reads
    <2>2. CASE Writes(r, Snapshot(t, hand[r]))
        BY <2>2 DEF Merging, Writes
    <2> QED
        BY <1>8, <2>1, <2>2
<1> QED
    BY <1>1, <1>2, <1>12, <1>13 DEF Saw, JobPlaces, JobOf, Discovering, Working

LEMMA SawNext ==
    ASSUME SawInv, [Next]_vars
    PROVE  SawInv'
<1>1. Inv' /\ MetTyped'
    BY InvNext, MetNext DEF SawInv
<1>2. Typed /\ ViewTyped
    BY DEF SawInv, Inv, AlertInv
<1>3. ASSUME UNCHANGED <<kind, db, draft, writer, pc, own, met, lone>>
      PROVE  ViewTyped' /\ \A x \in Runs : Saw(x)'
    <2>1. ViewTyped'
        BY <1>2, <1>3 DEF ViewTyped, own
    <2>2. ASSUME NEW x \in Runs
          PROVE  Saw(x)'
        <3>1. lone'[x] \in BOOLEAN /\ lone'[x] = lone[x]
            BY <1>2, <1>3 DEF Typed, ShapeOK
        <3>2. Spares(x) /\ Visible(x)' = Visible(x)
            BY <1>3 DEF Spares, own, Visible
        <3> QED
            BY <1>3, <3>1, <3>2, Stands DEF SawInv
    <2> QED
        BY <2>1, <2>2
<1>4. ASSUME NEW r \in Runs, Step(r) \/ Die(r)
      PROVE  ViewTyped' /\ \A x \in Runs : Saw(x)'
    <2>1. ViewTyped'
        <3>1. \A s \in Sites : Scanned(s) \subseteq Entry
            BY <1>2, ScannedType DEF Typed
        <3>2. CASE Scan(r)
            BY <1>2, <3>1, <3>2 DEF Scan, ViewTyped
        <3>3. CASE ~Scan(r)
            <4>1. view' = view \/ Forget(r)
                BY <1>4, <3>3 DEF Step, Die, FindServer, SaveServer, ServerConflict, SeeAccount,
                   Deactivate, ListSites, ReadRows, Upsert, RowConflict, MarkAbsent, Observe,
                   Look, Insert, PathConflict, Commit, Rollback, Merge, own
            <4> QED
                BY <1>2, <4>1 DEF Forget, ViewTyped
        <3> QED
            BY <3>2, <3>3
    <2>2. Saw(r)'
        <3>1. CASE Forget(r)
            BY <3>1, ForgetSaw
        <3>2. CASE ~Forget(r)
            BY <1>4, <3>2, DiscoverySaw, LooksSaw, MergeSaw, UpsertSaw, MarkAbsentSaw, TempFilesSaw
               DEF Step, Die, ServerConflict, RowConflict, PathConflict, Commit, Rollback
        <3> QED
            BY <3>1, <3>2
    <2>3. \A x \in Runs \ {r} : Saw(x)'
        BY <1>4, OthersStand
    <2> QED
        BY <2>1, <2>2, <2>3
<1> QED
    BY <1>1, <1>3, <1>4 DEF SawInv, Next, Edit, vars

LEMMA SawInit ==
    ASSUME Init
    PROVE  SawInv
<1>1. Inv
    BY AlertInit, RowInit DEF Inv
<1>2. ViewTyped /\ MetTyped
    BY DEF Init, ViewTyped, MetTyped
<1>3. ASSUME NEW r \in Runs
      PROVE  Saw(r)
    BY DEF Init, Saw, JobPlaces, Discovering, Merging, Working, Past
<1> QED
    BY <1>1, <1>2, <1>3 DEF SawInv

(* What a run commits is what it saw of every account and installation it      *)
(* looked at: all of it if no other run has committed while it ran, and beside *)
(* others every row of what it saw.  The row of its first save, which it read  *)
(* before it had the lock, is as it saw it in every column the commit changes; *)
(* what another run has put into the other columns stays, unseen.              *)
THEOREM SavesWhatItSaw == Spec => CommitsWhatItSaw
<1> DEFINE Says(r) ==
        /\ JobOf(r) = "discovery" =>
            /\ \A a \in Accounts : db'.account[a] # None =>
                    (db'.account[a].active <=> a \in heard[r])
            /\ \A s \in Sites : db'.site[s] # None =>
                    (db'.site[s].active <=> s \in heard[r])
        /\ JobOf(r) \in Items => \A s \in Sites :
            view[r][s] # Absent =>
                IF lone[r]
                THEN Shows(db'.row[s], view[r][s]) /\ NothingElse(db'.row[s], view[r][s])
                ELSE ShowsBeside(r, s, db.row[s], db'.row[s], view[r][s])
<1>1. ASSUME SawInv, NEW r \in Runs, Commit(r)
      PROVE  Says(r)
    <2>1. Saw(r) /\ db' = Visible(r)
        BY <1>1 DEF SawInv, Commit
    <2>2. pc[r] \in {"commit", "sites", "look"}
        BY <1>1 DEF Commit, Finished
    <2>3. JobOf(r) = "discovery" => pc[r] = "commit"
        BY <2>1, <2>2 DEF Saw, JobPlaces, Items
    <2>4. pc[r] = "commit" => OnlyHeard(db', heard[r])
        BY <2>1 DEF Saw, JobPlaces, Discovering, Visible
    <2>5. ASSUME NEW s \in Sites, view[r][s] # Absent
          PROVE  IF lone[r]
                 THEN Shows(db'.row[s], view[r][s]) /\ NothingElse(db'.row[s], view[r][s])
                 ELSE ShowsBeside(r, s, db.row[s], db'.row[s], view[r][s])
        <3>1. /\ Shown(db'.row[s], view[r][s], db.row[s], EarlyRows(r, s))
              /\ lone[r] => NothingElse(db'.row[s], view[r][s])
            BY <2>1, <2>2, <2>5 DEF Saw, Past, InHand, Reconciled
        <3>2. CASE lone[r]
            <4>1. EarlyRows(r, s) = {}
                BY <3>2 DEF EarlyRows
            <4> QED
                BY <3>1, <3>2, <4>1 DEF Shown, SavedAs, Shows
        <3>3. CASE ~lone[r]
            <4>1. \A i \in EarlyRows(r, s) : Early(r, s, i)
                BY DEF EarlyRows
            <4> QED
                BY <3>1, <3>3, <4>1 DEF Shown, SavedAs, ShowsBeside
        <3> QED
            BY <3>2, <3>3
    <2> QED
        BY <2>3, <2>4, <2>5 DEF OnlyHeard
<1>2. SawInv /\ [Next]_vars => [\A r \in Runs : Commit(r) => Says(r)]_vars
    BY <1>1
<1>3. CommitsWhatItSaw <=> [][\A r \in Runs : Commit(r) => Says(r)]_vars
    BY DEF CommitsWhatItSaw
<1> HIDE DEF Says
<1> QED
    BY <1>2, <1>3, SawInit, SawNext, PTL DEF Spec

================================================================================
