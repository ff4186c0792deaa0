-------------------------- MODULE IntegrityScanProofs --------------------------
(* Theorems about IntegrityScan: its type invariant; no baseline changes       *)
(* silently; an undisturbed scan reports exactly the differences, and none of  *)
(* what Sentinel moved itself.                                                 *)
EXTENDS IntegrityScan, TLAPS

(* A remediation between its move and its commit has a finding and a file.     *)
TargetOK(r) ==
    pc[r] \in {"took", "put"} =>
        /\ target[r].finding \in Reports
        /\ target[r].file \in Files
        /\ db.found[target[r].finding] # None

(* A scan that has not committed has no committed finding.                     *)
FreshOK(s) == pc[s] # "done" => \A p \in Paths : db.found[<<s, p>>] = None

(* The rows the lock holder has written: a baseline differs from the committed *)
(* one only with a finding of its own that says so, in the row of its first    *)
(* save column by column, or where there was none.                             *)
Told(p) ==
    \/ draft.base[p] = db.base[p]
    \/ /\ draft.base[p] # None
       /\ draft.found[<<writer, p>>] # None
       /\ \/ Agrees(draft.base[p], draft.found[<<writer, p>>])
          \/ /\ Early(writer, p)
             /\ AgreesInPart(db.base[p], draft.base[p], draft.found[<<writer, p>>])
    \/ db.base[p] = None /\ draft.base[p] # None

DraftOK ==
    writer # None =>
        /\ pc[writer] \in {"next", "walk", "write", "commit"}
        /\ \A f \in Reports : f[1] # writer => draft.found[f] = db.found[f]
        /\ \A p \in Paths : Told(p)

(* A row that a scan has read is there still, and was there for its merge.     *)
ReadOK(s) ==
    /\ \A p \in Paths : known[s][p] # None => Visible(s).base[p] # None
    /\ met[s] # None => met[s].base # None /\ pc[s] # "idle"

(* What a remediation has compared is its finding and its finding's baseline.  *)
ComparedOK(r) ==
    met[r] # None =>
        /\ pc[r] \in {"took", "put"}
        /\ met[r].path = target[r].finding[2]
        /\ met[r].base # None =>
            /\ db.base[met[r].path] # None
            /\ db.found[target[r].finding].current # Absent

Inv ==
    /\ TypeOK
    /\ \A r \in Remedies : TargetOK(r)
    /\ \A r \in Remedies : ComparedOK(r)
    /\ \A s \in Scans : FreshOK(s)
    /\ \A s \in Scans : ReadOK(s)
    /\ DraftOK
    /\ \A r \in Remedies : pc[r] \in {"idle", "took", "put", "done", "failed"}

--------------------------------------------------------------------------------
(* Rows and verdicts.                                                          *)

LEMMA FileType ==
    ASSUME NEW file \in Files
    PROVE  /\ file \in [sha : Shas, mode : Modes]
           /\ file # Absent
<1>1. file.sha \in Shas /\ file.mode \in Modes
    BY DEF Shas, Modes
<1>2. file = [sha |-> file.sha, mode |-> file.mode]
    BY ScanAssumption
<1> QED
    BY <1>1, <1>2, ScanAssumption

LEMMA TrackedType ==
    ASSUME NEW sha \in Shas, NEW mode \in Modes
    PROVE  /\ Tracked([sha |-> sha, mode |-> mode]) \in Baseline
           /\ Tracked([sha |-> sha, mode |-> mode]) # None
           /\ Tracked([sha |-> sha, mode |-> mode]).active
           /\ Tracked([sha |-> sha, mode |-> mode]).sha = sha
<1> DEFINE row == Tracked([sha |-> sha, mode |-> mode])
<1>1. row = [sha |-> sha, mode |-> mode, active |-> TRUE]
    BY DEF Tracked
<1> HIDE DEF row
<1>2. row \in Baseline /\ row.active /\ row.sha = sha
    BY <1>1 DEF Baseline
<1> QED
    BY <1>2, NoneAssumption DEF row

LEMMA RetiredType ==
    ASSUME NEW row \in Baseline
    PROVE  /\ Retired(row) \in Baseline
           /\ Retired(row) # None
           /\ ~Retired(row).active
           /\ Retired(row).sha = row.sha
BY NoneAssumption DEF Retired, Baseline

(* A save that was compared early gives the columns it writes their new        *)
(* values, and one whose comparison is still true writes the row.              *)
LEMMA UpdatedType ==
    ASSUME NEW row \in Baseline, NEW read \in Baseline, NEW new \in Baseline
    PROVE  /\ Updated(row, read, new) \in Baseline
           /\ Updated(row, read, new) # None
           /\ Becomes(row, Updated(row, read, new), new.sha, new.active)
<1>1. Updated(row, read, new) \in Baseline
    BY DEF Updated, Baseline
<1> QED
    BY <1>1, NoneAssumption DEF Updated, Becomes

LEMMA UpdatedCurrent ==
    ASSUME NEW row \in Baseline, NEW new \in Baseline
    PROVE  Updated(row, row, new) = new
BY DEF Updated, Baseline

LEMMA UpdatedAgrees ==
    ASSUME NEW row \in Baseline, NEW read \in Baseline, NEW new \in Baseline,
           NEW finding \in Finding, Agrees(new, finding)
    PROVE  AgreesInPart(row, Updated(row, read, new), finding)
<1>1. new.active \in BOOLEAN
    BY DEF Baseline
<1>2. Becomes(row, Updated(row, read, new), new.sha, new.active)
    BY UpdatedType
<1>3. CASE finding.change = "DELETED"
    <2>1. new.active = FALSE /\ new.sha = finding.previous
        BY <1>1, <1>3 DEF Agrees
    <2> QED
        BY <1>2, <1>3, <2>1 DEF AgreesInPart
<1>4. CASE finding.change # "DELETED"
    <2>1. new.active = TRUE /\ new.sha = finding.current
        BY <1>1, <1>4 DEF Agrees
    <2> QED
        BY <1>2, <1>4, <2>1 DEF AgreesInPart
<1> QED
    BY <1>3, <1>4

LEMMA VerdictType ==
    ASSUME NEW old \in Baseline \cup {None}, NEW new \in Files \cup {Absent},
           NEW first \in BOOLEAN
    PROVE  Verdict(old, new, first) \in Finding \cup {None}
<1>1. CASE new = Absent
    BY <1>1, NoneAssumption DEF Verdict, Report, Finding, States, Changes, Baseline
<1>2. CASE new \in Files
    BY <1>2, FileType, NoneAssumption DEF Verdict, Report, Finding, States, Changes, Baseline
<1> QED
    BY <1>1, <1>2

(* A row that is saved is reported, and the finding says what the row says.    *)
LEMMA VerdictOnSave ==
    ASSUME NEW old \in Baseline, NEW new \in Files \cup {Absent},
           NEW first \in BOOLEAN, Claims(old) # new
    PROVE  /\ Verdict(old, new, first) # None
           /\ new = Absent => Agrees(Retired(old), Verdict(old, new, first))
           /\ new # Absent => Agrees(Tracked(new), Verdict(old, new, first))
<1> DEFINE v == Verdict(old, new, first)
<1>1. CASE new = Absent
    <2>1. old.active
        BY <1>1, NoneAssumption DEF Claims
    <2>2. v = Report("DELETED", old.sha, Absent)
        BY <1>1, <2>1, NoneAssumption DEF Verdict
    <2>3. v \in Finding
        BY <2>2 DEF Report, Finding, States, Changes, Baseline
    <2> QED
        BY <1>1, <2>2, <2>3, RetiredType, NoneAssumption DEF Agrees, Report
<1>2. CASE new \in Files
    <2>1. /\ new \in [sha : Shas, mode : Modes]
          /\ new # Absent
        BY <1>2, FileType
    <2>2. new = [sha |-> new.sha, mode |-> new.mode]
        BY <2>1
    <2>3. \E change \in Changes \ {"DELETED"}, previous \in Shas \cup {Absent} :
             v = Report(change, previous, new.sha)
        <3>1. CASE ~old.active
            BY <2>1, <3>1, NoneAssumption DEF Verdict, Changes
        <3>2. CASE old.active
            <4>1. old.sha # new.sha \/ old.mode # new.mode
                BY <2>2, <3>2, NoneAssumption DEF Claims
            <4>2. old.sha \in Shas
                BY DEF Baseline
            <4> QED
                BY <2>1, <3>2, <4>1, <4>2, NoneAssumption DEF Verdict, Changes
        <3> QED
            BY <3>1, <3>2
    <2>4. v \in Finding /\ v.change # "DELETED" /\ v.current = new.sha
        BY <2>1, <2>3 DEF Report, Finding, States
    <2>5. Tracked(new).active /\ Tracked(new).sha = new.sha
        BY DEF Tracked
    <2> QED
        BY <2>1, <2>4, <2>5, NoneAssumption DEF Agrees
<1> QED
    BY <1>1, <1>2

(* A row that is added is reported unless the account has none at all.         *)
LEMMA VerdictOnAdd ==
    ASSUME NEW new \in Files
    PROVE  /\ Verdict(None, new, FALSE) # None
           /\ Agrees(Tracked(new), Verdict(None, new, FALSE))
<1> DEFINE v == Verdict(None, new, FALSE)
<1>1. new.sha \in Shas /\ new # Absent
    BY FileType
<1>2. v = Report("ADDED", Absent, new.sha)
    BY <1>1 DEF Verdict
<1> HIDE DEF v
<1>3. v \in Finding /\ v.change = "ADDED" /\ v.current = new.sha
    BY <1>1, <1>2 DEF Report, Finding, States, Changes
<1>4. Tracked(new).active /\ Tracked(new).sha = new.sha
    BY DEF Tracked
<1> QED
    BY <1>3, <1>4, NoneAssumption DEF Agrees, v

(* A row that is neither added nor saved is not reported.                      *)
LEMMA VerdictOnNone ==
    ASSUME NEW old \in Baseline \cup {None}, NEW new \in Files \cup {Absent},
           NEW first \in BOOLEAN,
           IF old = None THEN new = Absent ELSE Claims(old) = new
    PROVE  Verdict(old, new, first) = None
<1>1. CASE old = None
    BY <1>1 DEF Verdict
<1>2. CASE old # None /\ ~old.active
    BY <1>2 DEF Verdict, Claims
<1>3. CASE old # None /\ old.active
    <2>1. new = [sha |-> old.sha, mode |-> old.mode]
        BY <1>3 DEF Claims
    <2>2. new # Absent
        BY <1>3, <2>1, ScanAssumption DEF Baseline
    <2>3. old.sha = new.sha /\ old.mode = new.mode
        BY <2>1
    <2> QED
        BY <1>3, <2>2, <2>3 DEF Verdict
<1> QED
    BY <1>1, <1>2, <1>3

--------------------------------------------------------------------------------
(* What Reconcile writes.                                                      *)

LEMMA VisibleType ==
    ASSUME TypeOK, NEW s
    PROVE  Visible(s) \in Tables
BY DEF TypeOK, Visible

LEMMA ReconciledRows ==
    ASSUME TypeOK, NEW s \in Scans, NEW tables \in Tables,
           \A p \in Paths : known[s][p] # None => tables.base[p] # None,
           met[s] # None => met[s].base # None
    PROVE  /\ Reconciled(tables, s) \in Tables
           /\ \A f \in Reports :
                 f[1] # s => Reconciled(tables, s).found[f] = tables.found[f]
           /\ \A p \in Paths :
                 LET base == Reconciled(tables, s).base[p]
                     found == Reconciled(tables, s).found[<<s, p>>]
                 IN  \/ base = tables.base[p] /\ found = tables.found[<<s, p>>]
                     \/ base # None /\ found # None /\ Agrees(base, found)
                     \/ /\ writer # s /\ Early(s, p)
                        /\ base # None /\ found # None
                        /\ AgreesInPart(tables.base[p], base, found)
                     \/ p \in Added(known[s], seen[s], acct[s]) /\ base # None
<1> DEFINE a == acct[s]
           old == known[s]
           new == seen[s]
           first == First(old, a)
           verdict == [p \in PathsOf(a) |-> Verdict(old[p], new[p], first)]
           written == Added(old, new, a) \cup Saved(old, new, a)
           row(p) == Fresh(old[p], new[p])
           early(p) == writer # s /\ Early(s, p)
           mixed(p) == Updated(tables.base[p], met[s].base, row(p))
           fresh == [p \in PathsOf(a) |-> row(p)]
           base == [p \in Paths |->
                        IF p \in Saved(old, new, a) /\ writer # s /\ Early(s, p)
                        THEN Updated(tables.base[p], met[s].base, fresh[p])
                        ELSE IF p \in written THEN fresh[p] ELSE tables.base[p]]
           found == [r \in Reports |->
                        IF r[1] = s /\ r[2] \in PathsOf(a) /\ verdict[r[2]] # None
                        THEN verdict[r[2]] ELSE tables.found[r]]
<1>1. Reconciled(tables, s) = [base |-> base, found |-> found]
    BY DEF Reconciled
<1>2. \A p \in Paths : /\ old[p] \in Baseline \cup {None}
                       /\ new[p] \in Files \cup {Absent}
    BY DEF TypeOK
<1>3. first \in BOOLEAN
    BY DEF First
<1>4. \A p \in PathsOf(a) : p \in Paths
    BY DEF PathsOf
<1>13. \A p \in Paths : old[p] # None => tables.base[p] \in Baseline
    BY DEF Tables
<1>14. \A p \in Paths : Early(s, p) => met[s].base \in Baseline
    BY DEF TypeOK, Met, Early, Sessions
<1> HIDE DEF old, new, first
<1>5. \A p \in PathsOf(a) :
        /\ verdict[p] = Verdict(old[p], new[p], first)
        /\ verdict[p] \in Finding \cup {None}
    BY <1>2, <1>3, <1>4, VerdictType
<1>6. \A p \in Paths : p \in written => p \in PathsOf(a)
                                        /\ row(p) \in Baseline
                                        /\ row(p) # None
    <2> TAKE p \in Paths
    <2> HAVE p \in written
    <2>1. p \in PathsOf(a)
        BY DEF Added, Saved
    <2>2. CASE new[p] = Absent
        <3>1. old[p] \in Baseline
            BY <1>2, <2>2 DEF Added, Saved
        <3> QED
            BY <2>1, <2>2, <3>1, RetiredType DEF Fresh
    <2>3. CASE new[p] \in Files
        <3>1. /\ new[p] # Absent
              /\ new[p].sha \in Shas /\ new[p].mode \in Modes
            BY <2>3, FileType
        <3>2. Tracked(new[p]) \in Baseline
            BY <3>1 DEF Tracked, Baseline
        <3> QED
            BY <2>1, <3>1, <3>2, NoneAssumption DEF Fresh
    <2> QED
        BY <1>2, <2>2, <2>3
<1>15. \A p \in Paths :
        p \in Saved(old, new, a) /\ Early(s, p)
            => mixed(p) \in Baseline /\ mixed(p) # None
    <2> TAKE p \in Paths
    <2> HAVE p \in Saved(old, new, a) /\ Early(s, p)
    <2>1. row(p) \in Baseline
        BY <1>6
    <2>2. tables.base[p] \in Baseline /\ met[s].base \in Baseline
        BY <1>13, <1>14 DEF Saved
    <2> HIDE DEF row
    <2> QED
        BY <2>1, <2>2, UpdatedType
<1>16. \A p \in Paths :
        base[p] = IF p \in Saved(old, new, a) /\ early(p) THEN mixed(p)
                  ELSE IF p \in written THEN row(p) ELSE tables.base[p]
    <2>1. \A p \in Paths : p \in written => fresh[p] = row(p)
        BY <1>6
    <2> HIDE DEF fresh, row
    <2> QED
        BY <2>1
<1>7. base \in [Paths -> Baseline \cup {None}]
    <2>1. \A p \in Paths : base[p] \in Baseline \cup {None}
        <3> HIDE DEF base, mixed, row, written
        <3>1. \A p \in Saved(old, new, a) : p \in written
            BY DEF written
        <3> QED
            BY <1>6, <1>15, <1>16, <3>1 DEF Tables
    <2> QED
        BY <2>1
<1>8. found \in [Reports -> Finding \cup {None}]
    BY <1>5 DEF Tables
<1>10. \A f \in Reports : f[1] # s => found[f] = tables.found[f]
    OBVIOUS
<1>11. ASSUME NEW p \in Paths
       PROVE  \/ base[p] = tables.base[p] /\ found[<<s, p>>] = tables.found[<<s, p>>]
              \/ /\ base[p] # None /\ found[<<s, p>>] # None
                 /\ Agrees(base[p], found[<<s, p>>])
              \/ /\ early(p)
                 /\ base[p] # None /\ found[<<s, p>>] # None
                 /\ AgreesInPart(tables.base[p], base[p], found[<<s, p>>])
              \/ p \in Added(old, new, a) /\ base[p] # None
    <2>1. <<s, p>> \in Reports /\ <<s, p>>[1] = s /\ <<s, p>>[2] = p
        BY DEF Reports
    <2>2. CASE p \notin PathsOf(a)
        BY <1>6, <2>1, <2>2
    <2>3. CASE p \in Saved(old, new, a)
        <3>1. /\ old[p] \in Baseline /\ Claims(old[p]) # new[p]
              /\ p \in PathsOf(a)
            BY <1>2, <2>3 DEF Saved
        <3>2. /\ verdict[p] # None
              /\ new[p] = Absent => Agrees(Retired(old[p]), verdict[p])
              /\ new[p] # Absent => Agrees(Tracked(new[p]), verdict[p])
            BY <1>2, <1>3, <1>5, <3>1, VerdictOnSave
        <3>3. found[<<s, p>>] = verdict[p]
            BY <2>1, <2>3, <3>1, <3>2
        <3>4. Agrees(row(p), verdict[p])
            BY <3>2 DEF Fresh
        <3>5. row(p) \in Baseline /\ row(p) # None /\ verdict[p] \in Finding
            BY <1>5, <1>6, <2>3, <3>1, <3>2
        <3> HIDE DEF base, found, row, verdict
        <3>6. CASE early(p)
            <4>1. tables.base[p] \in Baseline /\ met[s].base \in Baseline
                BY <1>13, <1>14, <2>3, <3>6 DEF Saved
            <4>2. AgreesInPart(tables.base[p], mixed(p), verdict[p])
                BY <3>4, <3>5, <4>1, UpdatedAgrees
            <4>3. base[p] = mixed(p) /\ base[p] # None
                BY <1>15, <1>16, <2>3, <3>6
            <4> QED
                BY <3>2, <3>3, <3>6, <4>2, <4>3
        <3>7. CASE ~early(p)
            <4>1. base[p] = row(p)
                BY <1>16, <2>3, <3>7
            <4> QED
                BY <3>2, <3>3, <3>4, <3>5, <4>1
        <3> QED
            BY <3>6, <3>7
    <2>4. CASE p \in Added(old, new, a)
        <3>1. p \notin Saved(old, new, a)
            BY <2>4 DEF Added, Saved
        <3>2. base[p] = row(p)
            BY <1>16, <2>4, <3>1
        <3> QED
            BY <1>6, <2>4, <3>2
    <2>5. CASE p \in PathsOf(a) /\ p \notin written
        <3>1. IF old[p] = None THEN new[p] = Absent ELSE Claims(old[p]) = new[p]
            BY <2>5 DEF Added, Saved
        <3>2. verdict[p] = None
            BY <1>2, <1>3, <1>5, <2>5, <3>1, VerdictOnNone
        <3> QED
            BY <2>1, <2>5, <3>2
    <2> QED
        BY <2>2, <2>3, <2>4, <2>5
<1> HIDE DEF base, found
<1>12. [base |-> base, found |-> found] \in Tables
    BY <1>7, <1>8 DEF Tables
<1> QED
    BY <1>1, <1>10, <1>11, <1>12 DEF old, new

--------------------------------------------------------------------------------
(* The initial state, and sessions that end.                                   *)

LEMMA InitInv == Init => Inv
<1> SUFFICES ASSUME Init PROVE Inv
    OBVIOUS
<1>1. \A p \in Paths : Established[p] \in Baseline \cup {None}
    <2> TAKE p \in Paths
    <2>1. home[p] \in Files \cup {Absent}
        BY ScanAssumption DEF Init
    <2>2. home[p] # Absent => home[p].sha \in Shas /\ home[p].mode \in Modes
        BY <2>1, FileType
    <2> QED
        BY <2>1, <2>2 DEF Established, Tracked, Baseline, Hashed
<1>2. db \in Tables
    BY <1>1 DEF Init, Tables, NoRows, Established
<1>3. TypeOK
    BY <1>2, ScanAssumption
    DEF Init, TypeOK, NoFiles, NoRows, NoTarget, Target, Sessions
<1>4. \A f \in Reports : db.found[f] = None /\ draft.found[f] = None
    BY DEF Init
<1>6. \A s \in Scans : FreshOK(s)
    BY <1>4 DEF FreshOK, Reports
<1>7. /\ \A r \in Remedies : pc[r] = "idle"
      /\ \A s \in Sessions : met[s] = None
      /\ writer = None
    BY DEF Init, Sessions
<1>8. \A s \in Scans : ReadOK(s)
    BY <1>7 DEF Init, ReadOK, NoRows, Sessions
<1>9. \A r \in Remedies : ComparedOK(r)
    BY <1>7 DEF ComparedOK, Sessions
<1> QED
    BY <1>3, <1>6, <1>7, <1>8, <1>9 DEF Inv, TargetOK, DraftOK

LEMMA EndType ==
    ASSUME TypeOK, NEW s \in Sessions, NEW how \in {"done", "failed"}, End(s, how),
           db' \in Tables
    PROVE  /\ draft' \in Tables
           /\ writer' \in Scans \cup {None}
           /\ pc' \in [Sessions -> {"idle", "next", "walk", "write", "commit",
                                    "took", "put", "done", "failed"}]
           /\ todo' \in [Scans -> SUBSET Accounts]
           /\ acct' \in [Scans -> Accounts \cup {None}]
           /\ left' \in [Scans -> SUBSET Paths]
           /\ seen' \in [Scans -> [Paths -> Files \cup {Absent}]]
           /\ known' \in [Scans -> [Paths -> Baseline \cup {None}]]
           /\ met' \in [Sessions -> Met \cup {None}]
           /\ target' \in [Remedies -> Target]
<1>1. /\ draft' \in Tables
      /\ writer' \in Scans \cup {None}
      /\ met' \in [Sessions -> Met \cup {None}]
      /\ pc' \in [Sessions -> {"idle", "next", "walk", "write", "commit",
                               "took", "put", "done", "failed"}]
    BY DEF End, TypeOK
<1>2. CASE s \in Scans
    <2>1. /\ NoFiles \in [Paths -> Files \cup {Absent}]
          /\ NoRows \in [Paths -> Baseline \cup {None}]
        BY DEF NoFiles, NoRows
    <2>2. /\ todo' = [todo EXCEPT ![s] = {}]
          /\ acct' = [acct EXCEPT ![s] = None]
          /\ left' = [left EXCEPT ![s] = {}]
          /\ seen' = [seen EXCEPT ![s] = NoFiles]
          /\ known' = [known EXCEPT ![s] = NoRows]
          /\ UNCHANGED target
        BY <1>2 DEF End
    <2> QED
        BY <1>1, <2>1, <2>2 DEF TypeOK
<1>3. CASE s \notin Scans
    <2>1. NoTarget \in Target
        BY DEF NoTarget, Target
    <2>2. target' = [target EXCEPT ![s] = NoTarget] /\ UNCHANGED walk
        BY <1>3 DEF End
    <2> QED
        BY <1>1, <1>3, <2>1, <2>2 DEF TypeOK, walk
<1> QED
    BY <1>2, <1>3

LEMMA TouchType ==
    ASSUME TypeOK, NEW r \in Remedies \cup {None}, NEW p \in Paths, Touch(r, p)
    PROVE  /\ own' \in [Paths -> Reports \cup {None}]
           /\ lone' \subseteq Remedies
           /\ quiet' \subseteq Scans
BY DEF TypeOK, Touch, Disturb

(* A scan goes on reading what is there when the rows it can see stay.         *)
LEMMA ReadStays ==
    ASSUME NEW s \in Scans, ReadOK(s), known'[s] = known[s], met'[s] = met[s],
           pc[s] # "idle" => pc'[s] # "idle",
           \A p \in Paths : Visible(s).base[p] # None => Visible(s)'.base[p] # None
    PROVE  ReadOK(s)'
BY DEF ReadOK

(* The sessions that end, and the others.                                      *)
LEMMA EndReads ==
    ASSUME TypeOK, NEW s \in Sessions, NEW how \in {"done", "failed"}, End(s, how)
    PROVE  /\ met'[s] = None
           /\ s \in Scans => known'[s] = NoRows
           /\ \A q \in Sessions : q # s =>
                /\ met'[q] = met[q] /\ pc'[q] = pc[q]
                /\ q \in Scans => known'[q] = known[q]
                /\ q \in Remedies => target'[q] = target[q]
                /\ writer = q => writer' = q /\ draft' = draft
                /\ writer # q => writer' # q \/ q = None
<1>1. /\ met' = [met EXCEPT ![s] = None]
      /\ pc' = [pc EXCEPT ![s] = how]
      /\ writer' = IF writer = s THEN None ELSE writer
      /\ draft' = IF writer = s THEN db' ELSE draft
      /\ s \in Scans => known' = [known EXCEPT ![s] = NoRows] /\ target' = target
      /\ s \notin Scans => known' = known /\ target' = [target EXCEPT ![s] = NoTarget]
    BY DEF End, walk
<1>2. Scans \subseteq Sessions /\ Remedies \subseteq Sessions
    BY DEF Sessions
<1> QED
    BY <1>1, <1>2 DEF TypeOK

LEMMA EndReadOK ==
    ASSUME TypeOK, NEW s \in Sessions, NEW how \in {"done", "failed"}, End(s, how),
           \A q \in Scans : ReadOK(q),
           \A p \in Paths : db.base[p] # None => db'.base[p] # None
    PROVE  \A q \in Scans : ReadOK(q)'
<1> TAKE q \in Scans
<1>1. q \in Sessions /\ q # None
    BY ScanAssumption DEF Sessions
<1>2. CASE q = s
    BY <1>2, EndReads DEF ReadOK, NoRows
<1>3. CASE q # s
    <2>1. /\ known'[q] = known[q] /\ met'[q] = met[q] /\ pc'[q] = pc[q]
          /\ writer = q => writer' = q /\ draft' = draft
          /\ writer # q => writer' # q
        BY <1>1, <1>3, EndReads
    <2>2. \A p \in Paths : Visible(q).base[p] # None => Visible(q)'.base[p] # None
        BY <2>1 DEF Visible
    <2> QED
        BY <2>1, <2>2, ReadStays
<1> QED
    BY <1>2, <1>3

(* A scan or remediation that ends without changing the committed rows.        *)
LEMMA EndInv ==
    ASSUME Inv, NEW s \in Sessions, NEW how \in {"done", "failed"}, End(s, how),
           Running(s), UNCHANGED db, s \in Scans => how = "failed",
           UNCHANGED <<home, stash, edits, quiet, own, lone>>
    PROVE  Inv'
<1>1. TypeOK'
    BY EndType DEF Inv, TypeOK
<1>3. /\ pc' = [pc EXCEPT ![s] = how]
      /\ pc \in [Sessions -> {"idle", "next", "walk", "write", "commit",
                              "took", "put", "done", "failed"}]
    BY DEF End, Inv, TypeOK
<1>4. \A r \in Remedies : TargetOK(r)'
    <2> TAKE r \in Remedies
    <2>1. CASE s = r
        BY <1>3, <2>1 DEF TargetOK
    <2>2. CASE s # r
        <3>1. target'[r] = target[r] /\ pc'[r] = pc[r]
            BY <1>3, <2>2 DEF End, Sessions, Inv, TypeOK
        <3> QED
            BY <3>1 DEF Inv, TargetOK
    <2> QED
        BY <2>1, <2>2
<1>5. \A q \in Scans : FreshOK(q)'
    BY <1>3 DEF Inv, FreshOK, Sessions, Running
<1>6. DraftOK'
    <2>1. writer' # None => writer' = writer /\ writer # s /\ draft' = draft
        BY DEF End
    <2>2. SUFFICES ASSUME writer' # None PROVE DraftOK'
        BY DEF DraftOK
    <2>3. writer \in Scans /\ pc'[writer] = pc[writer]
        BY <1>3, <2>1, <2>2 DEF Inv, TypeOK, Sessions
    <2>5. met'[writer] = met[writer]
        BY <2>1, <2>2, <2>3, EndReads DEF Inv, Sessions
    <2>4. \A p \in Paths : Told(p) => Told(p)'
        BY <2>1, <2>2, <2>5 DEF Told, Early
    <2> QED
        BY <2>1, <2>2, <2>3, <2>4 DEF Inv, DraftOK
<1>7. \A r \in Remedies : pc'[r] \in {"idle", "took", "put", "done", "failed"}
    BY <1>3 DEF Inv, Sessions
<1>8. \A q \in Scans : ReadOK(q)'
    BY EndReadOK DEF Inv
<1>9. \A r \in Remedies : ComparedOK(r)'
    <2> TAKE r \in Remedies
    <2>1. r \in Sessions
        BY DEF Sessions
    <2>2. r # s => pc'[r] = pc[r] /\ met'[r] = met[r] /\ target'[r] = target[r]
        BY <2>1, EndReads DEF Inv
    <2>3. r = s => met'[r] = None
        BY EndReads DEF Inv
    <2> QED
        BY <2>2, <2>3 DEF Inv, ComparedOK
<1> QED
    BY <1>1, <1>4, <1>5, <1>6, <1>7, <1>8, <1>9 DEF Inv

--------------------------------------------------------------------------------
(* The steps of a scan.                                                        *)

(* Steps that leave the rows and the remediations alone.                       *)
LEMMA WalkInv ==
    ASSUME Inv, TypeOK', NEW s \in Scans,
           NEW step \in {"next", "walk", "write", "commit"},
           pc[s] \in {"idle", "next", "walk", "write"},
           pc' = [pc EXCEPT ![s] = step],
           ReadOK(s)', \A q \in Scans \ {s} : known'[q] = known[q],
           \A q \in Sessions : q # s => met'[q] = met[q],
           writer = s => met'[s] = met[s],
           UNCHANGED <<rows, target>>
    PROVE  Inv'
<1>1. UNCHANGED <<db, draft, writer>>
    BY DEF rows
<1>2. s \notin Remedies /\ Scans \subseteq Sessions /\ Remedies \subseteq Sessions
    BY ScanAssumption DEF Sessions
<1>3. \A q \in Sessions : pc'[q] = IF q = s THEN step ELSE pc[q]
    BY DEF Inv, TypeOK
<1>5. \A r \in Remedies : TargetOK(r)'
    BY <1>1, <1>2, <1>3 DEF Inv, TargetOK
<1>6. \A q \in Scans : FreshOK(q)'
    BY <1>1, <1>2, <1>3 DEF Inv, FreshOK
<1>7. DraftOK'
    <2> SUFFICES ASSUME writer # None PROVE DraftOK'
        BY <1>1 DEF DraftOK
    <2>1. writer \in Sessions
        BY <1>2 DEF Inv, TypeOK
    <2>2. met'[writer] = met[writer]
        BY <2>1
    <2>3. \A p \in Paths : Told(p) => Told(p)'
        BY <1>1, <2>2 DEF Told, Early
    <2> QED
        BY <1>1, <1>2, <1>3, <2>3 DEF Inv, DraftOK, TypeOK
<1>8. \A q \in Scans : ReadOK(q)'
    <2> TAKE q \in Scans
    <2>1. CASE q # s
        <3>1. Visible(q)' = Visible(q) /\ pc'[q] = pc[q]
            BY <1>1, <1>2, <1>3, <2>1 DEF Visible
        <3> QED
            BY <1>2, <2>1, <3>1, ReadStays DEF Inv
    <2> QED
        BY <2>1
<1>9. \A r \in Remedies : ComparedOK(r)'
    BY <1>1, <1>2, <1>3 DEF Inv, ComparedOK
<1> QED
    BY <1>2, <1>3, <1>5, <1>6, <1>7, <1>8, <1>9 DEF Inv

(* A scan that changes neither the rows nor what it has read of them.          *)
LEMMA StaysOK ==
    ASSUME Inv, NEW s \in Scans, UNCHANGED <<rows, known, met>>,
           pc[s] # "idle" => pc'[s] # "idle"
    PROVE  ReadOK(s)'
<1>1. Visible(s)' = Visible(s)
    BY DEF Visible, rows
<1> QED
    BY <1>1, ReadStays DEF Inv

LEMMA BeginInv == ASSUME Inv, NEW s \in Scans, Begin(s) PROVE Inv'
<1>1. TypeOK'
    BY DEF Begin, Onward, Inv, TypeOK, rows, Sessions
<1>2. ReadOK(s)'
    BY StaysOK DEF Begin
<1> QED
    BY <1>1, <1>2, WalkInv DEF Begin, Onward

LEMMA EnterInv == ASSUME Inv, NEW s \in Scans, Enter(s) PROVE Inv'
<1>1. NoFiles \in [Paths -> Files \cup {Absent}]
    BY DEF NoFiles
<1>2. PICK a \in todo[s] :
        /\ acct' = [acct EXCEPT ![s] = a]
        /\ todo' = [todo EXCEPT ![s] = @ \ {a}]
        /\ seen' = [seen EXCEPT ![s] = NoFiles]
        /\ left' \in {[left EXCEPT ![s] = PathsOf(a)], [left EXCEPT ![s] = {}]}
        /\ quiet' \subseteq quiet
    BY DEF Enter
<1>3. a \in Accounts /\ PathsOf(a) \subseteq Paths
    BY DEF Inv, TypeOK, PathsOf
<1>4. /\ acct' \in [Scans -> Accounts \cup {None}]
      /\ todo' \in [Scans -> SUBSET Accounts]
      /\ seen' \in [Scans -> [Paths -> Files \cup {Absent}]]
      /\ left' \in [Scans -> SUBSET Paths]
      /\ quiet' \subseteq Scans
    BY <1>1, <1>2, <1>3 DEF Inv, TypeOK
<1>5. TypeOK'
    BY <1>4 DEF Enter, Inv, TypeOK, rows, Sessions
<1>6. ReadOK(s)'
    <2>1. pc'[s] # "idle"
        BY DEF Enter, Inv, TypeOK, Sessions
    <2> QED
        BY <2>1, StaysOK DEF Enter
<1> QED
    BY <1>5, <1>6, WalkInv DEF Enter

LEMMA LookInv == ASSUME Inv, NEW s \in Scans, Look(s) PROVE Inv'
<1>1. \A p \in Paths : Hashed(p, home[p]) \in Files \cup {Absent}
    BY DEF Inv, TypeOK, Hashed
<1>2. /\ seen' \in [Scans -> [Paths -> Files \cup {Absent}]]
      /\ left' \in [Scans -> SUBSET Paths]
      /\ quiet' \subseteq Scans
    <2>1. PICK p \in left[s] :
            /\ left' = [left EXCEPT ![s] = @ \ {p}]
            /\ \/ seen' = [seen EXCEPT ![s][p] = Hashed(p, home[p])]
               \/ UNCHANGED seen
            /\ quiet' \subseteq quiet
        BY DEF Look
    <2>2. p \in Paths
        BY DEF Inv, TypeOK
    <2>3. [seen EXCEPT ![s][p] = Hashed(p, home[p])]
            \in [Scans -> [Paths -> Files \cup {Absent}]]
        BY <1>1, <2>2 DEF Inv, TypeOK
    <2> QED
        BY <2>1, <2>3 DEF Inv, TypeOK
<1>3. TypeOK'
    BY <1>2 DEF Look, Inv, TypeOK, rows
<1>4. pc' = [pc EXCEPT ![s] = "walk"]
    BY DEF Look, Inv, TypeOK, Sessions
<1>5. ReadOK(s)'
    BY StaysOK DEF Look
<1> QED
    BY <1>3, <1>4, <1>5, WalkInv DEF Look

LEMMA ReadBaselinesInv ==
    ASSUME Inv, NEW s \in Scans, ReadBaselines(s) PROVE Inv'
<1>1. Visible(s).base \in [Paths -> Baseline \cup {None}]
    BY VisibleType DEF Inv, Tables
<1>2. known' \in [Scans -> [Paths -> Baseline \cup {None}]]
    BY <1>1 DEF ReadBaselines, Inv, TypeOK
<1>3. TypeOK'
    BY <1>2 DEF ReadBaselines, Inv, TypeOK, rows, Sessions
<1>4. ReadOK(s)'
    <2>1. Visible(s)' = Visible(s)
        BY DEF Visible, ReadBaselines, rows
    <2>2. known'[s] = [p \in Paths |-> IF AccountOf[p] = acct[s]
                                       THEN Visible(s).base[p] ELSE None]
        BY DEF ReadBaselines, Inv, TypeOK
    <2>3. met'[s] = met[s] /\ pc'[s] = "write"
        BY DEF ReadBaselines, Inv, TypeOK, Sessions
    <2> QED
        BY <2>1, <2>2, <2>3 DEF Inv, ReadOK
<1>5. \A q \in Scans \ {s} : known'[q] = known[q]
    BY DEF ReadBaselines, Inv, TypeOK
<1> QED
    BY <1>3, <1>4, <1>5, WalkInv DEF ReadBaselines

LEMMA UnchangedInv == ASSUME Inv, NEW s \in Scans, Unchanged(s) PROVE Inv'
<1>1. TypeOK'
    BY DEF Unchanged, Onward, Inv, TypeOK, rows, walk, Sessions
<1>2. ReadOK(s)'
    <2>1. pc'[s] # "idle"
        BY DEF Unchanged, Onward, Inv, TypeOK, Sessions
    <2> QED
        BY <2>1, StaysOK DEF Unchanged, walk
<1> QED
    BY <1>1, <1>2, WalkInv DEF Unchanged, Onward, walk

LEMMA MergeInv == ASSUME Inv, NEW s \in Scans, Merge(s) PROVE Inv'
<1>1. PICK p \in Leading(known[s], seen[s], acct[s]) :
        /\ known[s][p] # None
        /\ met' = [met EXCEPT ![s] = [path |-> p, base |-> db.base[p], state |-> None]]
    BY DEF Merge
<1>2. p \in Paths
    BY <1>1 DEF Leading, Added, Saved, PathsOf
<1>3. /\ pc[s] = "write" /\ writer # s
      /\ UNCHANGED <<home, rows, pc, walk, target, stash, edits, quiet, own, lone>>
    BY DEF Merge
<1>4. db.base[p] # None /\ db.base[p] \in Baseline \cup {None}
    BY <1>1, <1>2, <1>3 DEF Inv, ReadOK, Visible, TypeOK, Tables
<1>5. [path |-> p, base |-> db.base[p], state |-> None] \in Met
    BY <1>2, <1>4 DEF Met
<1>6. s \in Sessions /\ \A q \in Sessions : q # s => met'[q] = met[q]
    BY <1>1 DEF Inv, TypeOK, Sessions
<1>7. met' \in [Sessions -> Met \cup {None}]
    BY <1>1, <1>5 DEF Inv, TypeOK
<1>8. TypeOK'
    BY <1>3, <1>7 DEF Inv, TypeOK, rows, walk
<1>9. ReadOK(s)'
    <2>1. met'[s].base # None
        BY <1>1, <1>4, <1>6 DEF Inv, TypeOK
    <2>2. known' = known /\ Visible(s)' = Visible(s) /\ pc'[s] = "write"
        BY <1>3 DEF walk, rows, Visible
    <2> QED
        BY <2>1, <2>2 DEF Inv, ReadOK
<1>10. pc' = [pc EXCEPT ![s] = "write"] /\ known' = known
    BY <1>3 DEF Inv, TypeOK, walk
<1> QED
    BY <1>3, <1>6, <1>8, <1>9, <1>10, WalkInv

LEMMA ReconcileInv == ASSUME Inv, NEW s \in Scans, Reconcile(s) PROVE Inv'
<1> DEFINE step == IF todo[s] = {} THEN "commit" ELSE "next"
           old == Visible(s)
<1>1. /\ writer' = s
      /\ draft' = Reconciled(old, s)
      /\ pc' = [pc EXCEPT ![s] = step]
      /\ pc[s] = "write"
      /\ writer \in {None, s}
      /\ UNCHANGED <<home, db, todo, acct, left, seen, known, met, target, stash, edits,
                    quiet, own, lone>>
    BY DEF Reconcile, MayWrite, Onward, walk
<1>2. /\ old \in Tables
      /\ \A p \in Paths : known[s][p] # None => old.base[p] # None
      /\ met[s] # None => met[s].base # None
    BY VisibleType DEF Inv, ReadOK
<1>3. s \notin Remedies /\ Scans \subseteq Sessions /\ Remedies \subseteq Sessions
      /\ s # None
    BY ScanAssumption DEF Sessions
<1>4. \A q \in Sessions : pc'[q] = IF q = s THEN step ELSE pc[q]
    BY <1>1 DEF Inv, TypeOK
<1>5. draft' \in Tables
    BY <1>1, <1>2, ReconciledRows DEF Inv
<1>6. TypeOK'
    BY <1>1, <1>5 DEF Inv, TypeOK
<1>7. \A r \in Remedies : TargetOK(r)'
    BY <1>1, <1>3, <1>4 DEF Inv, TargetOK
<1>8. \A q \in Scans : FreshOK(q)'
    BY <1>1, <1>3, <1>4 DEF Inv, FreshOK
<1>9. DraftOK'
    <2>1. \A f \in Reports : f[1] # s => old.found[f] = db.found[f]
        BY <1>1, <1>3 DEF Visible, Inv, DraftOK
    <2>2. \A f \in Reports : f[1] # s => draft'.found[f] = db.found[f]
        BY <1>1, <1>2, <2>1, ReconciledRows DEF Inv
    <2>3. ASSUME NEW p \in Paths PROVE Told(p)'
        <3>1. \/ /\ draft'.base[p] = old.base[p]
                 /\ draft'.found[<<s, p>>] = old.found[<<s, p>>]
              \/ /\ draft'.base[p] # None /\ draft'.found[<<s, p>>] # None
                 /\ Agrees(draft'.base[p], draft'.found[<<s, p>>])
              \/ /\ writer # s /\ Early(s, p)
                 /\ draft'.base[p] # None /\ draft'.found[<<s, p>>] # None
                 /\ AgreesInPart(old.base[p], draft'.base[p], draft'.found[<<s, p>>])
              \/ /\ p \in Added(known[s], seen[s], acct[s])
                 /\ draft'.base[p] # None
            BY <1>1, <1>2, ReconciledRows DEF Inv
        <3>2. \/ old.base[p] = db.base[p]
              \/ /\ old.base[p] # None /\ old.found[<<s, p>>] # None
                 /\ \/ Agrees(old.base[p], old.found[<<s, p>>])
                    \/ /\ Early(s, p)
                       /\ AgreesInPart(db.base[p], old.base[p], old.found[<<s, p>>])
              \/ db.base[p] = None /\ old.base[p] # None
            BY <1>1, <1>3 DEF Visible, Inv, DraftOK, Told
        <3>3. p \in Added(known[s], seen[s], acct[s]) => old.base[p] = None
            BY DEF Reconcile
        <3>4. writer # s => old.base[p] = db.base[p]
            BY DEF Visible
        <3>5. Early(s, p)' <=> Early(s, p)
            BY <1>1 DEF Early
        <3> HIDE DEF old
        <3> QED
            BY <1>1, <3>1, <3>2, <3>3, <3>4, <3>5 DEF Told
    <2> QED
        BY <1>1, <1>3, <1>4, <2>2, <2>3 DEF DraftOK
<1>10. \A q \in Scans : ReadOK(q)'
    <2> TAKE q \in Scans
    <2>1. \A p \in Paths : Visible(q).base[p] # None => Visible(q)'.base[p] # None
        <3>1. CASE q = s
            <4> TAKE p \in Paths
            <4>1. old.base[p] # None => draft'.base[p] # None
                BY <1>1, <1>2, ReconciledRows DEF Inv
            <4> QED
                BY <1>1, <3>1, <4>1 DEF Visible
        <3>2. CASE q # s
            <4>1. Visible(q) = db /\ Visible(q)' = db
                BY <1>1, <3>2, ScanAssumption DEF Visible, Sessions
            <4> QED
                BY <4>1
        <3> QED
            BY <3>1, <3>2
    <2>2. pc[q] # "idle" => pc'[q] # "idle"
        BY <1>3, <1>4
    <2> QED
        BY <1>1, <2>1, <2>2, ReadStays DEF Inv
<1>11. \A r \in Remedies : ComparedOK(r)'
    BY <1>1, <1>3, <1>4 DEF Inv, ComparedOK
<1> QED
    BY <1>3, <1>4, <1>5, <1>6, <1>7, <1>8, <1>9, <1>10, <1>11, <1>1 DEF Inv

LEMMA ConflictInv == ASSUME Inv, NEW s \in Scans, Conflict(s) PROVE Inv'
BY EndInv DEF Conflict, Sessions, Running

LEMMA CommitInv == ASSUME Inv, NEW s \in Scans, Commit(s) PROVE Inv'
<1>1. /\ s \notin Remedies /\ s # None
      /\ Scans \subseteq Sessions /\ Remedies \subseteq Sessions
    BY ScanAssumption DEF Sessions
<1>2. /\ pc[s] = "commit" /\ db' = Visible(s) /\ End(s, "done")
      /\ UNCHANGED <<home, stash, edits, lone>>
    BY DEF Commit
<1>3. db' \in Tables
    BY <1>2, VisibleType DEF Inv
<1>4. /\ own' \in [Paths -> Reports \cup {None}]
      /\ quiet' \subseteq Scans
    BY DEF Commit, Inv, TypeOK, NoRows
<1>5. TypeOK'
    BY <1>1, <1>2, <1>3, <1>4, EndType DEF Inv, TypeOK
<1>6. \A q \in Sessions : pc'[q] = IF q = s THEN "done" ELSE pc[q]
    BY <1>1, <1>2 DEF End, Inv, TypeOK
<1>8. UNCHANGED target
    BY <1>2 DEF End
<1>9. \A f \in Reports : f[1] # s => db'.found[f] = db.found[f]
    BY <1>1, <1>2 DEF Visible, Inv, DraftOK
<1>10. \A f \in Reports : db.found[f] # None => f[1] # s
    BY <1>1, <1>2 DEF Inv, FreshOK, Reports
<1>11. \A r \in Remedies : TargetOK(r)'
    BY <1>1, <1>6, <1>8, <1>9, <1>10 DEF Inv, TargetOK
<1>12. \A q \in Scans : FreshOK(q)'
    BY <1>1, <1>6, <1>9 DEF Inv, FreshOK, Reports
<1>13. DraftOK'
    <2>1. SUFFICES ASSUME writer' # None PROVE DraftOK'
        BY DEF DraftOK
    <2>2. /\ writer' = writer /\ writer # s /\ draft' = draft /\ db' = db
          /\ writer \in Scans
        BY <1>2, <2>1 DEF End, Visible, Inv, TypeOK
    <2>4. met'[writer] = met[writer]
        BY <1>1, <1>2, <2>2, EndReads DEF Inv
    <2>3. \A p \in Paths : Told(p) => Told(p)'
        BY <2>2, <2>4 DEF Told, Early
    <2> QED
        BY <1>1, <1>6, <2>1, <2>2, <2>3 DEF Inv, DraftOK
<1>14. \A p \in Paths : db.base[p] # None => db'.base[p] # None
    BY <1>1, <1>2 DEF Visible, Inv, DraftOK, Told
<1>15. \A q \in Scans : ReadOK(q)'
    BY <1>1, <1>2, <1>14, EndReadOK DEF Inv
<1>16. \A r \in Remedies : ComparedOK(r)'
    <2> SUFFICES ASSUME NEW r \in Remedies, met'[r] # None PROVE ComparedOK(r)'
        BY DEF ComparedOK
    <2>1. met'[r] = met[r] /\ target'[r] = target[r] /\ pc'[r] = pc[r]
        BY <1>1, <1>2, EndReads DEF Inv
    <2>2. met[r] # None /\ met[r] \in Met
        BY <1>1, <2>1 DEF Inv, TypeOK
    <2>3. met[r].path \in Paths
        BY <2>2 DEF Met
    <2>4. ComparedOK(r) /\ TargetOK(r)
        BY DEF Inv
    <2>5. target[r].finding \in Reports /\ db.found[target[r].finding] # None
        BY <2>2, <2>4 DEF ComparedOK, TargetOK
    <2>6. db'.found[target[r].finding] = db.found[target[r].finding]
        BY <1>9, <1>10, <2>5
    <2> QED
        BY <1>14, <2>1, <2>2, <2>3, <2>4, <2>6 DEF ComparedOK
<1> QED
    BY <1>1, <1>3, <1>5, <1>6, <1>11, <1>12, <1>13, <1>15, <1>16 DEF Inv

--------------------------------------------------------------------------------
(* Remediations, owners and deaths.                                            *)

(* A remediation that moves a file and has its finding at hand.                *)
LEMMA MoveInv ==
    ASSUME Inv, NEW r \in Remedies, NEW f \in Reports, NEW file \in Files,
           NEW now \in {"took", "put"},
           pc[r] = "idle", pc' = [pc EXCEPT ![r] = now],
           db.found[f] # None,
           target' = [target EXCEPT ![r] = [finding |-> f, file |-> file]],
           home' \in [Paths -> Files \cup {Absent}],
           stash' \in [Reports -> Files \cup {Absent}],
           Touch(r, f[2]),
           UNCHANGED <<rows, walk, met, edits>>
    PROVE  Inv'
<1>1. /\ r \notin Scans
      /\ Scans \subseteq Sessions /\ Remedies \subseteq Sessions
    BY ScanAssumption DEF Sessions
<1>2. UNCHANGED <<db, draft, writer, todo, acct, left, seen, known, met, edits>>
    BY DEF rows, walk
<1>3. \A q \in Sessions : pc'[q] = IF q = r THEN now ELSE pc[q]
    BY DEF Inv, TypeOK
<1>4. [finding |-> f, file |-> file] \in Target
    BY DEF Target
<1>5. /\ target' \in [Remedies -> Target]
      /\ target'[r] = [finding |-> f, file |-> file]
      /\ \A q \in Remedies : q # r => target'[q] = target[q]
    BY <1>4 DEF Inv, TypeOK
<1>6. f[2] \in Paths
    BY DEF Reports
<1>7. TypeOK'
    BY <1>1, <1>2, <1>5, <1>6, TouchType DEF Inv, TypeOK
<1>9. \A q \in Remedies : TargetOK(q)'
    BY <1>1, <1>2, <1>3, <1>5 DEF Inv, TargetOK
<1>10. \A q \in Scans : FreshOK(q)'
    BY <1>1, <1>2, <1>3 DEF Inv, FreshOK
<1>11. DraftOK'
    <2>1. \A p \in Paths : Told(p) => Told(p)'
        BY <1>2 DEF Told, Early
    <2> QED
        BY <1>1, <1>2, <1>3, <2>1 DEF Inv, DraftOK, TypeOK
<1>12. \A q \in Scans : ReadOK(q)'
    <2>1. \A q \in Scans : pc'[q] = pc[q]
        BY <1>1, <1>3
    <2> QED
        BY <1>2, <2>1, StaysOK DEF rows
<1>13. \A q \in Remedies : ComparedOK(q)'
    <2>1. met[r] = None
        BY DEF Inv, ComparedOK
    <2> QED
        BY <1>1, <1>2, <1>3, <1>5, <2>1 DEF Inv, ComparedOK
<1> QED
    BY <1>1, <1>3, <1>7, <1>9, <1>10, <1>11, <1>12, <1>13 DEF Inv

LEMMA TakeInv == ASSUME Inv, NEW r \in Remedies, Take(r) PROVE Inv'
<1>1. PICK f \in Reports :
        /\ db.found[f] # None
        /\ home[f[2]] # Absent
        /\ target' = [target EXCEPT ![r] = [finding |-> f, file |-> home[f[2]]]]
        /\ stash' = [stash EXCEPT ![f] = home[f[2]]]
        /\ home' = [home EXCEPT ![f[2]] = Absent]
        /\ Touch(r, f[2])
    BY DEF Take
<1>2. f[2] \in Paths
    BY DEF Reports
<1>3. home[f[2]] \in Files
    BY <1>1, <1>2 DEF Inv, TypeOK
<1>5. /\ home' \in [Paths -> Files \cup {Absent}]
      /\ stash' \in [Reports -> Files \cup {Absent}]
    BY <1>1, <1>3 DEF Inv, TypeOK
<1> QED
    BY <1>1, <1>3, <1>5, MoveInv DEF Take

LEMMA PutInv == ASSUME Inv, NEW r \in Remedies, Put(r) PROVE Inv'
<1>1. PICK f \in Reports :
        /\ db.found[f] # None
        /\ stash[f] # Absent
        /\ target' = [target EXCEPT ![r] = [finding |-> f, file |-> stash[f]]]
        /\ stash' = [stash EXCEPT ![f] = Absent]
        /\ home' = [home EXCEPT ![f[2]] = stash[f]]
        /\ Touch(r, f[2])
    BY DEF Put
<1>2. stash[f] \in Files
    BY <1>1 DEF Inv, TypeOK
<1>4. /\ home' \in [Paths -> Files \cup {Absent}]
      /\ stash' \in [Reports -> Files \cup {Absent}]
    BY <1>1, <1>2 DEF Inv, TypeOK
<1> QED
    BY <1>1, <1>2, <1>4, MoveInv DEF Put

LEMMA CompareInv == ASSUME Inv, NEW r \in Remedies, Compare(r) PROVE Inv'
<1> DEFINE f == target[r].finding
           saved == pc[r] = "put" /\ db.found[f].current # Absent
           read == [path |-> f[2], base |-> IF saved THEN db.base[f[2]] ELSE None,
                    state |-> db.found[f].state]
<1>1. /\ pc[r] \in {"took", "put"} /\ met' = [met EXCEPT ![r] = read]
      /\ UNCHANGED <<home, rows, pc, walk, target, stash, edits, quiet, own, lone>>
    BY DEF Compare
<1>2. r \in Sessions /\ r \notin Scans /\ Scans \subseteq Sessions
    BY ScanAssumption DEF Sessions
<1>3. f \in Reports /\ db.found[f] # None
    BY <1>1 DEF Inv, TargetOK
<1>4. f[2] \in Paths /\ db.found[f] \in Finding
    BY <1>3 DEF Reports, Inv, TypeOK, Tables
<1>5. read \in Met
    <2>1. db.base[f[2]] \in Baseline \cup {None} /\ db.found[f].state \in States
        BY <1>4 DEF Inv, TypeOK, Tables, Finding
    <2> QED
        BY <1>4, <2>1 DEF Met
<1>6. \A q \in Sessions : met'[q] = IF q = r THEN read ELSE met[q]
    BY <1>1 DEF Inv, TypeOK
<1>7. TypeOK'
    <2>1. met' \in [Sessions -> Met \cup {None}]
        BY <1>1, <1>5 DEF Inv, TypeOK
    <2> QED
        BY <1>1, <2>1 DEF Inv, TypeOK, rows, walk
<1>8. DraftOK'
    <2>1. \A p \in Paths, q \in Scans : Early(q, p)' <=> Early(q, p)
        BY <1>2, <1>6 DEF Early
    <2>2. \A p \in Paths : writer # None => (Told(p) => Told(p)')
        BY <1>1, <2>1 DEF Told, rows, Inv, TypeOK
    <2> QED
        BY <1>1, <2>2 DEF Inv, DraftOK, rows
<1>9. \A q \in Scans : ReadOK(q)'
    <2> TAKE q \in Scans
    <2>1. /\ Visible(q)' = Visible(q) /\ met'[q] = met[q]
          /\ known' = known /\ pc' = pc
        BY <1>1, <1>2, <1>6 DEF Visible, rows, walk
    <2> QED
        BY <2>1, ReadStays DEF Inv
<1>10. \A q \in Remedies : ComparedOK(q)'
    <2> TAKE q \in Remedies
    <2>1. q \in Sessions /\ UNCHANGED <<db, pc, target>>
        BY <1>1 DEF Sessions, rows
    <2>2. CASE q = r
        <3>1. met'[q] = read
            BY <1>6, <2>1, <2>2
        <3> QED
            BY <1>1, <2>1, <2>2, <3>1 DEF ComparedOK
    <2>3. CASE q # r
        BY <1>6, <2>1, <2>3 DEF Inv, ComparedOK
    <2> QED
        BY <2>2, <2>3
<1> QED
    BY <1>1, <1>7, <1>8, <1>9, <1>10 DEF Inv, TargetOK, FreshOK, rows

LEMMA StateType ==
    ASSUME NEW state \in States, NEW read, NEW new \in States
    PROVE  UpdatedState(state, read, new) \in States
BY DEF UpdatedState

LEMMA QuarantinedRows ==
    ASSUME NEW tables \in Tables, NEW f \in Reports, NEW read, tables.found[f] # None
    PROVE  LET new == Quarantined(tables, f, read) IN
           /\ new \in Tables
           /\ \A g \in Reports : g # f => new.found[g] = tables.found[g]
           /\ new.found[f] # None
           /\ new.found[f].current = tables.found[f].current
           /\ \A p \in Paths :
                 IF p = f[2] /\ tables.base[p] # None
                 THEN new.base[p] = Retired(tables.base[p]) /\ new.base[p] # None
                 ELSE new.base[p] = tables.base[p]
<1> DEFINE row == tables.base[f[2]]
           after == IF row # None THEN Retired(row) ELSE None
           state == UpdatedState(tables.found[f].state, read.state, "QUARANTINED")
           finding == [tables.found[f] EXCEPT !.state = state]
<1>1. f[2] \in Paths /\ row \in Baseline \cup {None}
    BY DEF Reports, Tables
<1>2. /\ after \in Baseline \cup {None}
      /\ row # None => after = Retired(row) /\ after # None
      /\ row = None => after = None
    BY <1>1, RetiredType
<1>3. /\ finding \in Finding /\ finding # None
      /\ finding.current = tables.found[f].current
    <2>1. tables.found[f] \in Finding /\ tables.found[f].state \in States
        BY DEF Tables, Finding
    <2>2. state \in States
        BY <2>1, StateType DEF States
    <2> HIDE DEF state
    <2> QED
        BY <2>1, <2>2, NoneAssumption DEF Finding
<1>4. Quarantined(tables, f, read) =
        [base |-> [tables.base EXCEPT ![f[2]] = after],
         found |-> [tables.found EXCEPT ![f] = finding]]
    BY DEF Quarantined
<1> HIDE DEF after, finding
<1> QED
    BY <1>1, <1>2, <1>3, <1>4 DEF Tables

LEMMA RestoredRows ==
    ASSUME NEW tables \in Tables, NEW f \in Reports, tables.found[f] # None,
           NEW file \in Files, NEW read \in Met,
           read.base # None => /\ tables.base[f[2]] # None
                               /\ tables.found[f].current # Absent
    PROVE  LET new == Restored(tables, f, file, read) IN
           /\ new \in Tables
           /\ \A g \in Reports : g # f => new.found[g] = tables.found[g]
           /\ new.found[f] # None
           /\ new.found[f].current = tables.found[f].current
           /\ \A p \in Paths : p # f[2] \/ read.base = None
                    => new.base[p] = tables.base[p]
           /\ read.base # None =>
                /\ new.found[f].state = "RESTORED"
                /\ new.base[f[2]] # None
                /\ Becomes(tables.base[f[2]], new.base[f[2]],
                           tables.found[f].current, TRUE)
<1> DEFINE row == tables.base[f[2]]
           told == [sha |-> tables.found[f].current, mode |-> file.mode]
           after == IF read.base # None THEN Updated(row, read.base, Tracked(told)) ELSE row
           state == IF read.base # None THEN "RESTORED"
                    ELSE UpdatedState(tables.found[f].state, read.state, "RESTORED")
           finding == [tables.found[f] EXCEPT !.state = state]
<1>1. f[2] \in Paths /\ row \in Baseline \cup {None}
    BY DEF Reports, Tables
<1>2. /\ tables.found[f] \in Finding /\ tables.found[f].state \in States
      /\ file.mode \in Modes /\ read.base \in Baseline \cup {None}
    BY FileType DEF Tables, Finding, Met
<1>3. /\ after \in Baseline \cup {None}
      /\ read.base # None =>
            /\ after # None
            /\ Becomes(row, after, tables.found[f].current, TRUE)
      /\ read.base = None => after = row
    <2>1. CASE read.base # None
        <3>1. tables.found[f].current \in Shas
            BY <1>2, <2>1 DEF Finding
        <3>2. /\ Tracked(told) \in Baseline
              /\ Tracked(told).sha = told.sha /\ Tracked(told).active = TRUE
            BY <1>2, <3>1 DEF Tracked, Baseline
        <3>3. row \in Baseline /\ read.base \in Baseline
            BY <1>1, <1>2, <2>1
        <3> HIDE DEF row, told
        <3>4. /\ after = Updated(row, read.base, Tracked(told))
              /\ after \in Baseline /\ after # None
              /\ Becomes(row, after, told.sha, TRUE)
            BY <2>1, <3>2, <3>3, UpdatedType
        <3> QED
            BY <2>1, <3>4 DEF told
    <2>2. CASE read.base = None
        BY <1>1, <2>2
    <2> QED
        BY <2>1, <2>2
<1>4. /\ finding \in Finding /\ finding # None
      /\ finding.current = tables.found[f].current
      /\ read.base # None => finding.state = "RESTORED"
    <2>1. state \in States /\ (read.base # None => state = "RESTORED")
        BY <1>2, StateType DEF States
    <2> HIDE DEF state
    <2> QED
        BY <1>2, <2>1, NoneAssumption DEF Finding
<1>5. Restored(tables, f, file, read) =
        [base |-> [tables.base EXCEPT ![f[2]] = after],
         found |-> [tables.found EXCEPT ![f] = finding]]
    BY DEF Restored
<1>6. tables.base \in [Paths -> Baseline \cup {None}]
      /\ tables.found \in [Reports -> Finding \cup {None}]
    BY DEF Tables
<1> DEFINE new == Restored(tables, f, file, read)
<1> HIDE DEF after, finding
<1>7. /\ new.found[f] = finding
      /\ \A g \in Reports : g # f => new.found[g] = tables.found[g]
      /\ new.base[f[2]] = after
      /\ \A p \in Paths : p # f[2] => new.base[p] = tables.base[p]
      /\ new \in Tables
    BY <1>1, <1>3, <1>4, <1>5, <1>6 DEF Tables
<1> HIDE DEF new
<1> QED
    BY <1>1, <1>3, <1>4, <1>7 DEF new

(* The same of a restore that has a baseline to write.                         *)
LEMMA RestoredBase ==
    ASSUME NEW tables \in Tables, NEW f \in Reports, tables.found[f] # None,
           NEW file \in Files, NEW read \in Met, read.base # None,
           tables.base[f[2]] # None, tables.found[f].current # Absent
    PROVE  /\ Restored(tables, f, file, read).found[f].state = "RESTORED"
           /\ Restored(tables, f, file, read).base[f[2]] # None
           /\ Becomes(tables.base[f[2]], Restored(tables, f, file, read).base[f[2]],
                      tables.found[f].current, TRUE)
BY RestoredRows

(* A restore leaves other rows alone, and removes none.                        *)
LEMMA RestoredBeside ==
    ASSUME NEW tables \in Tables, NEW f \in Reports, tables.found[f] # None,
           NEW file \in Files, NEW read \in Met,
           read.base # None => /\ tables.base[f[2]] # None
                               /\ tables.found[f].current # Absent,
           NEW p \in Paths, NEW g \in Reports
    PROVE  /\ p # f[2] \/ read.base = None
                => Restored(tables, f, file, read).base[p] = tables.base[p]
           /\ tables.base[p] # None => Restored(tables, f, file, read).base[p] # None
           /\ g # f => Restored(tables, f, file, read).found[g] = tables.found[g]
           /\ Restored(tables, f, file, read).found[f] # None
           /\ Restored(tables, f, file, read).found[f].current = tables.found[f].current
<1> DEFINE new == Restored(tables, f, file, read)
<1>1. /\ new \in Tables
      /\ \A h \in Reports : h # f => new.found[h] = tables.found[h]
      /\ new.found[f] # None
      /\ new.found[f].current = tables.found[f].current
      /\ \A q \in Paths : q # f[2] \/ read.base = None
               => new.base[q] = tables.base[q]
      /\ read.base # None =>
           /\ new.found[f].state = "RESTORED"
           /\ new.base[f[2]] # None
           /\ Becomes(tables.base[f[2]], new.base[f[2]], tables.found[f].current, TRUE)
    BY RestoredRows, Zenon
<1> HIDE DEF new
<1> QED
    BY <1>1 DEF new

LEMMA SettleInv == ASSUME Inv, NEW r \in Remedies, Settle(r) PROVE Inv'
<1> DEFINE f == target[r].finding
<1>1. /\ r \notin Scans
      /\ Scans \subseteq Sessions /\ Remedies \subseteq Sessions
    BY ScanAssumption DEF Sessions
<1>2. /\ f \in Reports /\ target[r].file \in Files /\ db.found[f] # None
      /\ writer = None /\ db \in Tables
    BY DEF Settle, Inv, TargetOK, TypeOK
<1>13. /\ met[r] \in Met
       /\ met[r].base # None => db.base[f[2]] # None /\ db.found[f].current # Absent
    BY <1>1 DEF Settle, Inv, ComparedOK, TypeOK
<1>3. /\ db' \in Tables
      /\ \A g \in Reports : g # f => db'.found[g] = db.found[g]
      /\ db'.found[f] # None
      /\ db'.found[f].current = db.found[f].current
      /\ \A p \in Paths : db.base[p] # None => db'.base[p] # None
    <2>1. CASE db' = Quarantined(db, f, met[r])
        BY <1>2, <2>1, QuarantinedRows
    <2>2. CASE db' = Restored(db, f, target[r].file, met[r])
        <3> DEFINE read == met[r]
                   file == target[r].file
        <3>1. f \in Reports /\ db.found[f] # None /\ db \in Tables
              /\ file \in Files /\ read \in Met
            BY <1>2, <1>13
        <3>2. read.base # None => db.base[f[2]] # None /\ db.found[f].current # Absent
            BY <1>13
        <3> HIDE DEF f, file, read
        <3>3. /\ db' \in Tables
              /\ \A g \in Reports : g # f => db'.found[g] = db.found[g]
              /\ db'.found[f] # None
              /\ db'.found[f].current = db.found[f].current
              /\ \A p \in Paths : p # f[2] \/ read.base = None => db'.base[p] = db.base[p]
              /\ read.base # None => db'.base[f[2]] # None
            <4> DEFINE new == Restored(db, f, file, read)
            <4>1. new \in Tables
                BY <3>1, <3>2, RestoredRows
            <4>2. \A g \in Reports : g # f => new.found[g] = db.found[g]
                BY <3>1, <3>2, RestoredRows
            <4>3. new.found[f] # None /\ new.found[f].current = db.found[f].current
                BY <3>1, <3>2, RestoredRows
            <4>4. \A p \in Paths : p # f[2] \/ read.base = None => new.base[p] = db.base[p]
                BY <3>1, <3>2, RestoredRows
            <4>5. ASSUME read.base # None PROVE new.base[f[2]] # None
                <5>1. db.base[f[2]] # None /\ db.found[f].current # Absent
                    BY <3>2, <4>5
                <5> QED
                    BY <3>1, <4>5, <5>1, RestoredBase
            <4>6. db' = new
                BY <2>2 DEF f, file, read
            <4> HIDE DEF new
            <4> QED
                BY <4>1, <4>2, <4>3, <4>4, <4>5, <4>6
        <3> QED
            BY <3>3
    <2> QED
        BY <2>1, <2>2 DEF Settle
<1>4. f[2] \in Paths
    BY <1>2 DEF Reports
<1>5. /\ own' \in [Paths -> Reports \cup {None}]
      /\ quiet' \subseteq Scans
    BY <1>2, <1>4 DEF Settle, Disturb, Inv, TypeOK
<1>6. End(r, "done") /\ UNCHANGED <<home, stash, edits, lone>>
    BY DEF Settle
<1>7. TypeOK'
    BY <1>1, <1>3, <1>5, <1>6, EndType DEF Inv, TypeOK
<1>8. \A q \in Sessions : pc'[q] = IF q = r THEN "done" ELSE pc[q]
    BY <1>1, <1>6 DEF End, Inv, TypeOK
<1>9. \A q \in Remedies : q # r => target'[q] = target[q]
    BY <1>1, <1>6 DEF End, Inv, TypeOK
<1>10. \A q \in Remedies : TargetOK(q)'
    BY <1>1, <1>3, <1>8, <1>9 DEF Inv, TargetOK
<1>11. \A q \in Scans : FreshOK(q)'
    <2> TAKE q \in Scans
    <2>1. SUFFICES ASSUME pc'[q] # "done", NEW p \in Paths
                   PROVE  db'.found[<<q, p>>] = None
        BY DEF FreshOK
    <2>2. db.found[<<q, p>>] = None
        BY <1>1, <1>8, <2>1 DEF Inv, FreshOK
    <2>3. <<q, p>> \in Reports /\ <<q, p>> # f
        BY <1>2, <2>2 DEF Reports
    <2> QED
        BY <1>3, <2>2, <2>3
<1>12. DraftOK'
    BY <1>2, <1>6 DEF DraftOK, End
<1>14. \A q \in Scans : ReadOK(q)'
    BY <1>1, <1>3, <1>6, EndReadOK DEF Inv
<1>15. \A q \in Remedies : ComparedOK(q)'
    <2> SUFFICES ASSUME NEW q \in Remedies, met'[q] # None PROVE ComparedOK(q)'
        BY DEF ComparedOK
    <2>1. q # r /\ met'[q] = met[q] /\ target'[q] = target[q] /\ pc'[q] = pc[q]
        BY <1>1, <1>6, EndReads DEF Inv
    <2>2. met[q] # None /\ met[q] \in Met
        BY <1>1, <2>1 DEF Inv, TypeOK
    <2>3. met[q].path \in Paths
        BY <2>2 DEF Met
    <2>4. ComparedOK(q) /\ TargetOK(q)
        BY DEF Inv
    <2>5. target[q].finding \in Reports
        BY <2>2, <2>4 DEF ComparedOK, TargetOK
    <2>6. db'.found[target[q].finding].current = db.found[target[q].finding].current
        BY <1>3, <2>5
    <2> QED
        BY <1>3, <2>1, <2>2, <2>3, <2>4, <2>6 DEF ComparedOK
<1> QED
    BY <1>1, <1>7, <1>8, <1>10, <1>11, <1>12, <1>14, <1>15 DEF Inv

LEMMA OwnerEditInv == ASSUME Inv, OwnerEdit PROVE Inv'
<1>1. /\ home' \in [Paths -> Files \cup {Absent}]
      /\ own' \in [Paths -> Reports \cup {None}]
      /\ lone' \subseteq Remedies
      /\ quiet' \subseteq Scans
    BY TouchType DEF OwnerEdit, Inv, TypeOK
<1>2. edits' \in 0..MaxEdits
    BY ScanAssumption DEF OwnerEdit, Inv, TypeOK
<1>3. UNCHANGED <<rows, pc, walk, met, target, stash>>
    BY DEF OwnerEdit
<1>4. TypeOK'
    BY <1>1, <1>2, <1>3 DEF Inv, TypeOK, rows, walk
<1>5. \A p \in Paths : Told(p) => Told(p)'
    BY <1>3 DEF Told, Early, rows
<1>6. \A s \in Scans : ReadOK(s)'
    BY <1>3, StaysOK DEF walk
<1>7. \A r \in Remedies : ComparedOK(r)'
    BY <1>3 DEF Inv, ComparedOK, rows
<1> QED
    BY <1>3, <1>4, <1>5, <1>6, <1>7 DEF Inv, TargetOK, FreshOK, DraftOK, rows

LEMMA DieInv == ASSUME Inv, NEW s \in Sessions, Die(s) PROVE Inv'
BY EndInv DEF Die

LEMMA StutterInv == ASSUME Inv, UNCHANGED vars PROVE Inv'
<1>1. TypeOK'
    BY DEF Inv, TypeOK, vars, rows
<1>2. \A p \in Paths : Told(p) => Told(p)'
    BY DEF Told, Early, vars, rows
<1>3. \A s \in Scans : ReadOK(s)'
    BY StaysOK DEF vars, rows
<1>4. \A r \in Remedies : ComparedOK(r)'
    BY DEF Inv, ComparedOK, vars
<1> QED
    BY <1>1, <1>2, <1>3, <1>4 DEF Inv, TargetOK, FreshOK, DraftOK, vars, rows

LEMMA NextInv == Inv /\ [Next]_vars => Inv'
<1> SUFFICES ASSUME Inv, [Next]_vars PROVE Inv'
    OBVIOUS
<1>1. ASSUME NEW s \in Scans, Scan(s) PROVE Inv'
    BY <1>1, BeginInv, EnterInv, LookInv, ReadBaselinesInv, UnchangedInv,
       MergeInv, ReconcileInv, ConflictInv, CommitInv DEF Scan
<1>2. ASSUME NEW r \in Remedies, Remedy(r) PROVE Inv'
    BY <1>2, TakeInv, PutInv, CompareInv, SettleInv DEF Remedy
<1> QED
    BY <1>1, <1>2, DieInv, OwnerEditInv, StutterInv DEF Next

--------------------------------------------------------------------------------
(* Theorems.                                                                   *)

(* Every reachable state is well typed: rows, verdicts and sessions have the   *)
(* shape the tables and the jobs give them.                                    *)
THEOREM ScanTypeCorrect == Spec => []TypeOK
<1>1. Inv => TypeOK
    BY DEF Inv
<1> QED
    BY <1>1, InitInv, NextInv, PTL DEF Spec

(* One step: a committed baseline that changes does so in the transaction that *)
(* reports it, or that moved the file.                                         *)
LEMMA NoSilentStep ==
    ASSUME Inv, [Next]_vars, NEW p \in Paths,
           db.base[p] # None, db'.base[p] # db.base[p]
    PROVE  db'.base[p] # None /\ (Reported(p) \/ Remediated(p))
<1>1. CASE db' = db
    BY <1>1
<1>2. ASSUME NEW s \in Scans, Commit(s)
      PROVE  db'.base[p] # None /\ Reported(p)
    <2>1. writer = s /\ db' = draft /\ s # None
        BY <1>2, ScanAssumption DEF Commit, Visible, Sessions
    <2>2. /\ draft.base[p] # None
          /\ draft.found[<<s, p>>] # None
          /\ \/ Agrees(draft.base[p], draft.found[<<s, p>>])
             \/ /\ Early(s, p)
                /\ AgreesInPart(db.base[p], draft.base[p], draft.found[<<s, p>>])
        BY <2>1 DEF Inv, DraftOK, Told
    <2>3. db.found[<<s, p>>] = None
        BY <1>2 DEF Commit, Inv, FreshOK
    <2> QED
        BY <2>1, <2>2, <2>3 DEF Reported
<1>3. ASSUME NEW r \in Remedies, Settle(r)
      PROVE  db'.base[p] # None /\ Remediated(p)
    <2> DEFINE f == target[r].finding
    <2>1. /\ f \in Reports /\ target[r].file \in Files /\ db.found[f] # None
          /\ db \in Tables /\ f # None
        BY <1>3, ScanAssumption DEF Settle, Inv, TargetOK, TypeOK
    <2>2. pc'[r] = "done"
        BY <1>3 DEF Settle, End, Inv, TypeOK, Sessions
    <2>5. /\ met[r] \in Met
          /\ met[r].base # None => db.base[f[2]] # None /\ db.found[f].current # Absent
        BY <1>3 DEF Settle, Inv, ComparedOK, TypeOK, Sessions
    <2>3. CASE pc[r] = "took"
        <3>1. db' = Quarantined(db, f, met[r])
            BY <1>3, <2>3 DEF Settle
        <3>2. /\ p = f[2] /\ db'.base[p] # None
              /\ db'.base[p] = Retired(db.base[p])
            BY <2>1, <3>1, QuarantinedRows
        <3> QED
            BY <2>1, <2>2, <2>3, <3>2 DEF Remediated
    <2>4. CASE pc[r] = "put"
        <3>1. db' = Restored(db, f, target[r].file, met[r])
            BY <1>3, <2>4 DEF Settle
        <3>2. /\ p = f[2] /\ db'.base[p] # None
              /\ db'.found[f].state = "RESTORED"
              /\ Becomes(db.base[p], db'.base[p], db.found[f].current, TRUE)
            <4> DEFINE read == met[r]
                       file == target[r].file
            <4>1. f \in Reports /\ db.found[f] # None /\ db \in Tables
                  /\ file \in Files /\ read \in Met
                BY <2>1, <2>5
            <4>2. read.base # None => db.base[f[2]] # None /\ db.found[f].current # Absent
                BY <2>5
            <4> DEFINE new == Restored(db, f, file, read)
            <4> HIDE DEF f, file, read
            <4>3. \A q \in Paths : q # f[2] \/ read.base = None => new.base[q] = db.base[q]
                BY <4>1, <4>2, RestoredRows
            <4>4. ASSUME read.base # None
                  PROVE  /\ new.found[f].state = "RESTORED" /\ new.base[f[2]] # None
                         /\ Becomes(db.base[f[2]], new.base[f[2]],
                                    db.found[f].current, TRUE)
                <5>1. db.base[f[2]] # None /\ db.found[f].current # Absent
                    BY <4>2, <4>4
                <5> QED
                    BY <4>1, <4>4, <5>1, RestoredBase
            <4>5. db' = new
                BY <3>1 DEF f, file, read
            <4> HIDE DEF new
            <4> QED
                BY <4>3, <4>4, <4>5
        <3> QED
            BY <2>1, <2>2, <2>4, <3>2 DEF Remediated
    <2> QED
        BY <1>3, <2>3, <2>4 DEF Settle
<1>4. ASSUME NEW s \in Scans, Scan(s), ~Commit(s) PROVE db' = db
    BY <1>4 DEF Scan, Begin, Enter, Look, ReadBaselines, Unchanged, Merge,
        Reconcile, Conflict, rows
<1>5. ASSUME NEW r \in Remedies, Remedy(r), ~Settle(r) PROVE db' = db
    BY <1>5 DEF Remedy, Take, Put, Compare, rows
<1>6. ASSUME NEW s \in Sessions, Die(s) PROVE db' = db
    BY <1>6 DEF Die
<1>7. OwnerEdit \/ UNCHANGED vars => db' = db
    BY DEF OwnerEdit, rows, vars
<1> QED
    BY <1>1, <1>2, <1>3, <1>4, <1>5, <1>6, <1>7 DEF Next

(* No baseline ever changes silently, however many scans and remediations      *)
(* overlap, fail or die.                                                       *)
THEOREM NothingSilent == Spec => NoSilentChange
<1>1. Inv /\ [Next]_vars
      => [\A p \in Paths :
            db.base[p] # None /\ db'.base[p] # db.base[p]
                => db'.base[p] # None /\ (Reported(p) \/ Remediated(p))]_vars
    BY NoSilentStep
<1> QED
    BY <1>1, InitInv, NextInv, PTL DEF Spec, NoSilentChange

--------------------------------------------------------------------------------
(* A scan that nothing has disturbed.                                          *)

(* What a scan has seen is a file it may hash.                                 *)
SeenOK(s) ==
    \A p \in Paths :
        seen[s][p] # Absent => p \notin Excluded /\ seen[s][p].sha \notin Oversize

(* The accounts whose rows the scan has not written yet.                       *)
Pending(s) ==
    todo[s] \cup (IF pc[s] \in {"walk", "write"} THEN {acct[s]} ELSE {})

Untouched(s, p) ==
    /\ Visible(s).base[p] = db.base[p]
    /\ Visible(s).found[<<s, p>>] = None

(* The scan's own rows say of a path what the disk holds, and what differs     *)
(* from the committed baseline.                                                *)
Accounted(s, p) ==
    /\ Claims(Visible(s).base[p]) = Hashed(p, home[p])
    /\ Visible(s).found[<<s, p>>] =
            Verdict(db.base[p], Hashed(p, home[p]), First(db.base, AccountOf[p]))

(* A scan that has merged its first save and waits for the lock.               *)
Awaits(s) ==
    writer # s /\ met[s] # None =>
        /\ pc[s] = "write"
        /\ met[s].path \in Saved(known[s], seen[s], acct[s])
        /\ met[s].base = db.base[met[s].path]

(* Disk and committed rows stand still under an undisturbed scan: what it has  *)
(* seen and read is what is there, and every account is either still to be     *)
(* written or accounted for.                                                   *)
QuietOK(s) ==
    s \in quiet /\ Running(s) =>
        /\ pc[s] \in {"walk", "write"} =>
            /\ acct[s] \in Accounts \ todo[s]
            /\ \A p \in PathsOf(acct[s]) \ left[s] : seen[s][p] = Hashed(p, home[p])
        /\ pc[s] = "write" =>
            /\ left[s] = {}
            /\ \A p \in PathsOf(acct[s]) : known[s][p] = db.base[p]
        /\ Awaits(s)
        /\ pc[s] = "commit" => todo[s] = {}
        /\ \A p \in Paths : IF AccountOf[p] \in Pending(s) THEN Untouched(s, p)
                            ELSE Accounted(s, p)

QuietInv == \A s \in Scans : QuietOK(s)

(* What a row claims is a file or nothing, and a row that is written claims    *)
(* what it was written for.                                                    *)
LEMMA ClaimsWritten ==
    /\ \A row \in Baseline : Claims(Retired(row)) = Absent
    /\ \A file \in Files : Claims(Tracked(file)) = file
    /\ Claims(None) = Absent
<1>1. ASSUME NEW row \in Baseline PROVE Claims(Retired(row)) = Absent
    BY RetiredType DEF Claims
<1>2. ASSUME NEW file \in Files PROVE Claims(Tracked(file)) = file
    <2>1. file.sha \in Shas /\ file.mode \in Modes
        BY DEF Shas, Modes
    <2>2. file = [sha |-> file.sha, mode |-> file.mode]
        BY ScanAssumption
    <2>3. Tracked(file) \in Baseline
        BY <2>1 DEF Tracked, Baseline
    <2> QED
        BY <2>2, <2>3, NoneAssumption DEF Claims, Tracked
<1> QED
    BY <1>1, <1>2 DEF Claims

(* A difference between a row and the disk, and nothing else, is reported,     *)
(* under the name of the change, unless the account is new.                    *)
LEMMA VerdictSays ==
    ASSUME NEW old \in Baseline \cup {None}, NEW new \in Files \cup {Absent},
           NEW first \in BOOLEAN, first => old = None
    PROVE  /\ Verdict(old, new, first) = None <=> Claims(old) = new \/ first
           /\ Verdict(old, new, first) # None =>
                Verdict(old, new, first).change = ChangeOf(Claims(old), new)
<1>1. CASE new = Absent
    <2>1. CASE old # None /\ old.active
        <3>1. old \in Baseline /\ ~first
            BY <2>1
        <3>2. Claims(old) = [sha |-> old.sha, mode |-> old.mode]
            BY <2>1 DEF Claims
        <3>3. Claims(old) # Absent
            BY <3>1, <3>2, ScanAssumption DEF Baseline
        <3>4. Verdict(old, new, first) = Report("DELETED", old.sha, Absent)
            BY <1>1, <2>1 DEF Verdict
        <3>5. Report("DELETED", old.sha, Absent) \in Finding
            BY <3>1 DEF Report, Finding, States, Changes, Baseline
        <3>6. ChangeOf(Claims(old), new) = "DELETED"
            BY <1>1, <3>3 DEF ChangeOf
        <3> QED
            BY <1>1, <3>1, <3>3, <3>4, <3>5, <3>6, NoneAssumption DEF Report
    <2>2. CASE old = None \/ ~old.active
        BY <1>1, <2>2 DEF Verdict, Claims
    <2> QED
        BY <2>1, <2>2
<1>2. CASE new \in Files
    <2>1. /\ new # Absent /\ new.sha \in Shas /\ new.mode \in Modes
          /\ new = [sha |-> new.sha, mode |-> new.mode]
        BY <1>2, FileType, ScanAssumption
    <2>2. \A change \in Changes, previous \in Shas \cup {Absent} :
            /\ Report(change, previous, new.sha) # None
            /\ Report(change, previous, new.sha).change = change
        <3> TAKE change \in Changes, previous \in Shas \cup {Absent}
        <3>1. Report(change, previous, new.sha) \in Finding
            BY <2>1 DEF Report, Finding, States
        <3> QED
            BY <3>1, NoneAssumption DEF Report
    <2>3. CASE first
        BY <2>1, <2>3 DEF Verdict
    <2>4. CASE ~first /\ (old = None \/ ~old.active)
        <3>1. Verdict(old, new, first) = Report("ADDED", Absent, new.sha)
            BY <2>1, <2>4 DEF Verdict
        <3>2. Claims(old) = Absent
            BY <2>4 DEF Claims
        <3>3. ChangeOf(Claims(old), new) = "ADDED"
            BY <2>1, <3>2 DEF ChangeOf
        <3> QED
            BY <2>1, <2>2, <2>4, <3>1, <3>2, <3>3 DEF Changes
    <2>5. CASE ~first /\ old # None /\ old.active
        <3>1. /\ old \in Baseline /\ old.sha \in Shas
              /\ Claims(old) = [sha |-> old.sha, mode |-> old.mode]
            BY <2>5 DEF Claims, Baseline
        <3>2. Claims(old) # Absent /\ Claims(old).sha = old.sha
            BY <3>1, ScanAssumption DEF Baseline
        <3>3. CASE old.sha # new.sha
            <4>1. Verdict(old, new, first) = Report("MODIFIED", old.sha, new.sha)
                BY <2>1, <2>5, <3>3 DEF Verdict
            <4>2. ChangeOf(Claims(old), new) = "MODIFIED"
                BY <2>1, <3>2, <3>3 DEF ChangeOf
            <4>3. Claims(old) # new
                BY <3>2, <3>3
            <4> QED
                BY <2>2, <2>5, <3>1, <4>1, <4>2, <4>3 DEF Changes
        <3>4. CASE old.sha = new.sha /\ old.mode # new.mode
            <4>1. Verdict(old, new, first)
                    = Report("PERMISSIONS_CHANGED", old.sha, new.sha)
                BY <2>1, <2>5, <3>4 DEF Verdict
            <4>2. ChangeOf(Claims(old), new) = "PERMISSIONS_CHANGED"
                BY <2>1, <3>2, <3>4 DEF ChangeOf
            <4>3. Claims(old) # new
                BY <3>1, <3>4
            <4> QED
                BY <2>2, <2>5, <3>1, <4>1, <4>2, <4>3 DEF Changes
        <3>5. CASE old.sha = new.sha /\ old.mode = new.mode
            BY <2>1, <2>5, <3>1, <3>5 DEF Verdict
        <3> QED
            BY <3>3, <3>4, <3>5
    <2> QED
        BY <2>3, <2>4, <2>5
<1> QED
    BY <1>1, <1>2

LEMMA HashedType ==
    ASSUME NEW p \in Paths, NEW file \in Files \cup {Absent}
    PROVE  Hashed(p, file) \in Files \cup {Absent}
BY DEF Hashed

(* The account that Unchanged or Reconcile has at hand, row by row: a finding  *)
(* of a path is its verdict, and the row claims what was seen.                 *)
LEMMA ReconciledExactly ==
    ASSUME TypeOK, NEW s \in Scans, NEW tables \in Tables, NEW p \in Paths,
           AccountOf[p] = acct[s], tables.base[p] = known[s][p],
           writer # s /\ Early(s, p) => met[s].base = tables.base[p],
           tables.found[<<s, p>>] = None
    PROVE  /\ Claims(Reconciled(tables, s).base[p]) = seen[s][p]
           /\ Reconciled(tables, s).found[<<s, p>>] =
                Verdict(known[s][p], seen[s][p], First(known[s], acct[s]))
<1> DEFINE a == acct[s]
           old == known[s]
           new == seen[s]
           written == Added(old, new, a) \cup Saved(old, new, a)
           row == IF new[p] = Absent THEN Retired(old[p]) ELSE Tracked(new[p])
<1>1. p \in PathsOf(a)
    BY DEF PathsOf
<1>2. /\ old[p] \in Baseline \cup {None}
      /\ new[p] \in Files \cup {Absent}
    BY DEF TypeOK
<1>3. <<s, p>> \in Reports /\ <<s, p>>[1] = s /\ <<s, p>>[2] = p
    BY DEF Reports
<1>4. Reconciled(tables, s).base[p] = IF p \in written THEN row
                                      ELSE tables.base[p]
    <2>1. Reconciled(tables, s).base[p] =
            IF p \in Saved(old, new, a) /\ writer # s /\ Early(s, p)
            THEN Updated(tables.base[p], met[s].base, row)
            ELSE IF p \in written THEN row ELSE tables.base[p]
        BY <1>1 DEF Reconciled, Fresh
    <2>2. CASE p \in Saved(old, new, a) /\ writer # s /\ Early(s, p)
        <3>1. old[p] \in Baseline
            BY <1>2, <2>2 DEF Saved
        <3>2. row \in Baseline
            <4>1. new[p] # Absent => new[p].sha \in Shas /\ new[p].mode \in Modes
                BY <1>2, FileType
            <4> QED
                BY <3>1, <4>1, RetiredType DEF Tracked, Baseline
        <3>3. met[s].base = tables.base[p] /\ tables.base[p] = old[p]
            BY <2>2
        <3> HIDE DEF row, old
        <3>4. Updated(tables.base[p], met[s].base, row) = row
            BY <3>1, <3>2, <3>3, UpdatedCurrent
        <3> QED
            BY <2>1, <2>2, <3>4
    <2>3. CASE ~(p \in Saved(old, new, a) /\ writer # s /\ Early(s, p))
        BY <2>1, <2>3
    <2> QED
        BY <2>2, <2>3
<1>5. Claims(Reconciled(tables, s).base[p]) = new[p]
    <2>1. CASE p \in written /\ new[p] = Absent
        <3>1. old[p] \in Baseline
            BY <1>2, <2>1 DEF Added, Saved
        <3> QED
            BY <1>4, <2>1, <3>1, ClaimsWritten
    <2>2. CASE p \in written /\ new[p] # Absent
        BY <1>2, <1>4, <2>2, ClaimsWritten
    <2>3. CASE p \notin written
        <3>1. IF old[p] = None THEN new[p] = Absent ELSE Claims(old[p]) = new[p]
            BY <1>1, <2>3 DEF Added, Saved
        <3> QED
            BY <1>4, <2>3, <3>1, ClaimsWritten
    <2> QED
        BY <2>1, <2>2, <2>3
<1>6. Reconciled(tables, s).found[<<s, p>>] = Verdict(old[p], new[p], First(old, a))
    BY <1>1, <1>3 DEF Reconciled
<1> QED
    BY <1>5, <1>6

LEMMA QuietInit == ASSUME Init, NEW s \in Scans PROVE QuietOK(s)
<1>1. ~Running(s)
    BY DEF Init, Running, Sessions
<1> QED
    BY <1>1 DEF QuietOK

(* A step that leaves alone the scan, the disk and the rows as the scan reads  *)
(* them, or that ends the scan or its quiet.                                   *)
LEMMA QuietFrame ==
    ASSUME NEW s \in Scans, QuietOK(s),
           s \in quiet' /\ Running(s)' =>
               /\ s \in quiet
               /\ pc'[s] = pc[s]
               /\ todo'[s] = todo[s]
               /\ acct'[s] = acct[s]
               /\ left'[s] = left[s]
               /\ seen'[s] = seen[s]
               /\ known'[s] = known[s]
               /\ met'[s] = met[s]
               /\ writer = s => writer' = s
               /\ UNCHANGED <<home, db>>
               /\ Visible(s)' = Visible(s)
    PROVE  QuietOK(s)'
<1> SUFFICES ASSUME s \in quiet', Running(s)' PROVE QuietOK(s)'
    BY DEF QuietOK
<1>1. Running(s)
    BY DEF Running
<1>2. Pending(s)' = Pending(s)
    BY DEF Pending
<1>3. \A p \in Paths : /\ Untouched(s, p) => Untouched(s, p)'
                       /\ Accounted(s, p) => Accounted(s, p)'
    BY DEF Untouched, Accounted
<1>4. Awaits(s) => Awaits(s)'
    BY DEF Awaits
<1> QED
    BY <1>1, <1>2, <1>3, <1>4 DEF QuietOK

LEMMA BeginQuiet ==
    ASSUME Inv, NEW s \in Scans, Begin(s) PROVE QuietOK(s)'
<1>1. s \in Sessions /\ s # None
    BY ScanAssumption DEF Sessions
<1>2. /\ pc'[s] = IF Accounts = {} THEN "commit" ELSE "next"
      /\ todo'[s] = Accounts
    BY <1>1 DEF Begin, Onward, Inv, TypeOK
<1>3. writer # s
    BY <1>1 DEF Begin, Inv, DraftOK
<1>4. Visible(s)' = db /\ db' = db
    BY <1>3 DEF Begin, rows, Visible
<1>5. \A p \in Paths : db.found[<<s, p>>] = None
    BY DEF Begin, Inv, FreshOK
<1>6. \A p \in Paths : AccountOf[p] \in Pending(s)' /\ Untouched(s, p)'
    BY <1>2, <1>4, <1>5, ScanAssumption DEF Pending, Untouched
<1>7. Awaits(s)'
    BY DEF Begin, Inv, ReadOK, Awaits
<1> QED
    BY <1>2, <1>6, <1>7 DEF QuietOK

LEMMA EnterQuiet ==
    ASSUME Inv, NEW s \in Scans, QuietOK(s), Enter(s) PROVE QuietOK(s)'
<1> SUFFICES ASSUME s \in quiet' PROVE QuietOK(s)'
    BY DEF QuietOK
<1>1. s \in Sessions
    BY DEF Sessions
<1>2. PICK a \in todo[s] :
        /\ acct' = [acct EXCEPT ![s] = a]
        /\ todo' = [todo EXCEPT ![s] = @ \ {a}]
        /\ \/ left' = [left EXCEPT ![s] = PathsOf(a)] /\ UNCHANGED quiet
           \/ quiet' = quiet \ {s}
    BY DEF Enter
<1>3. s \in quiet /\ Running(s)
    BY <1>2 DEF Enter, Running
<1>4. /\ acct'[s] = a /\ todo'[s] = todo[s] \ {a}
      /\ left'[s] = PathsOf(a) /\ pc'[s] = "walk"
      /\ a \in Accounts
    BY <1>1, <1>2 DEF Enter, Inv, TypeOK
<1>5. Pending(s)' = Pending(s)
    BY <1>2, <1>4 DEF Enter, Pending
<1>6. UNCHANGED <<home, db>> /\ Visible(s)' = Visible(s)
    BY DEF Enter, rows, Visible
<1>7. \A p \in Paths : /\ Untouched(s, p) => Untouched(s, p)'
                       /\ Accounted(s, p) => Accounted(s, p)'
    BY <1>6 DEF Untouched, Accounted
<1>8. Awaits(s)'
    BY <1>3 DEF Enter, rows, QuietOK, Awaits
<1> QED
    BY <1>3, <1>4, <1>5, <1>7, <1>8 DEF QuietOK

LEMMA LookQuiet ==
    ASSUME Inv, NEW s \in Scans, QuietOK(s), Look(s) PROVE QuietOK(s)'
<1> SUFFICES ASSUME s \in quiet' PROVE QuietOK(s)'
    BY DEF QuietOK
<1>1. PICK q \in left[s] :
        /\ left' = [left EXCEPT ![s] = @ \ {q}]
        /\ \/ /\ seen' = [seen EXCEPT ![s][q] = Hashed(q, home[q])]
              /\ UNCHANGED quiet
           \/ quiet' = quiet \ {s}
    BY DEF Look
<1>2. /\ s \in quiet /\ Running(s) /\ pc[s] = "walk"
      /\ seen' = [seen EXCEPT ![s][q] = Hashed(q, home[q])]
    BY <1>1 DEF Look, Running
<1>3. /\ UNCHANGED <<home, db, pc, todo, acct>>
      /\ Visible(s)' = Visible(s)
    BY DEF Look, rows, Visible
<1>4. left'[s] = left[s] \ {q}
    BY <1>1 DEF Inv, TypeOK
<1>5. \A p \in Paths : seen'[s][p] = IF p = q THEN Hashed(q, home[q]) ELSE seen[s][p]
    BY <1>2 DEF Inv, TypeOK
<1>6. \A p \in PathsOf(acct[s]) \ left'[s] : seen'[s][p] = Hashed(p, home[p])
    BY <1>2, <1>4, <1>5 DEF QuietOK, PathsOf
<1>7. Pending(s)' = Pending(s)
    BY <1>3 DEF Pending
<1>8. \A p \in Paths : /\ Untouched(s, p) => Untouched(s, p)'
                       /\ Accounted(s, p) => Accounted(s, p)'
    BY <1>3 DEF Untouched, Accounted
<1>9. Awaits(s)'
    BY <1>2 DEF Look, rows, QuietOK, Awaits
<1> QED
    BY <1>2, <1>3, <1>6, <1>7, <1>8, <1>9 DEF QuietOK

LEMMA ReadBaselinesQuiet ==
    ASSUME Inv, NEW s \in Scans, QuietOK(s), ReadBaselines(s) PROVE QuietOK(s)'
<1> SUFFICES ASSUME s \in quiet' PROVE QuietOK(s)'
    BY DEF QuietOK
<1>1. s \in Sessions
    BY DEF Sessions
<1>2. s \in quiet /\ Running(s) /\ pc[s] = "walk" /\ left[s] = {}
    BY DEF ReadBaselines, Running
<1>3. /\ UNCHANGED <<home, db, todo, acct, left, seen>>
      /\ Visible(s)' = Visible(s)
      /\ pc'[s] = "write"
    BY <1>1 DEF ReadBaselines, rows, Visible, Inv, TypeOK
<1>4. \A p \in PathsOf(acct[s]) : known'[s][p] = Visible(s).base[p]
    BY DEF ReadBaselines, PathsOf, Inv, TypeOK
<1>5. \A p \in PathsOf(acct[s]) : Visible(s).base[p] = db.base[p]
    BY <1>2 DEF QuietOK, PathsOf, Pending, Untouched
<1>6. Pending(s)' = Pending(s)
    BY <1>2, <1>3 DEF Pending
<1>7. \A p \in Paths : /\ Untouched(s, p) => Untouched(s, p)'
                       /\ Accounted(s, p) => Accounted(s, p)'
    BY <1>3 DEF Untouched, Accounted
<1>8. \A p \in PathsOf(acct[s]) : known'[s][p] = db.base[p]
    BY <1>4, <1>5
<1>9. Awaits(s)'
    BY <1>2 DEF ReadBaselines, rows, QuietOK, Awaits
<1> QED
    BY <1>2, <1>3, <1>6, <1>7, <1>8, <1>9 DEF QuietOK

LEMMA MergeQuiet ==
    ASSUME Inv, NEW s \in Scans, QuietOK(s), Merge(s) PROVE QuietOK(s)'
<1> SUFFICES ASSUME s \in quiet' PROVE QuietOK(s)'
    BY DEF QuietOK
<1>1. s \in quiet /\ Running(s) /\ pc[s] = "write" /\ writer # s
    BY DEF Merge, Running
<1>2. /\ UNCHANGED <<home, db, writer, pc, todo, acct, left, seen, known>>
      /\ Visible(s)' = Visible(s)
    BY DEF Merge, rows, walk, Visible
<1>3. Pending(s)' = Pending(s)
    BY <1>2 DEF Pending
<1>4. \A p \in Paths : /\ Untouched(s, p) => Untouched(s, p)'
                       /\ Accounted(s, p) => Accounted(s, p)'
    BY <1>2 DEF Untouched, Accounted
<1>5. Awaits(s)'
    <2>1. PICK p \in Leading(known[s], seen[s], acct[s]) :
            /\ known[s][p] # None
            /\ met' = [met EXCEPT ![s] = [path |-> p, base |-> db.base[p], state |-> None]]
        BY DEF Merge
    <2>2. p \in Saved(known[s], seen[s], acct[s])
        BY <2>1 DEF Leading, Added
    <2>3. met'[s].path = p /\ met'[s].base = db.base[p]
        BY <2>1 DEF Inv, TypeOK, Sessions
    <2> QED
        BY <1>1, <1>2, <2>2, <2>3 DEF Awaits
<1> QED
    BY <1>1, <1>2, <1>3, <1>4, <1>5 DEF QuietOK

(* What an undisturbed scan knows when it comes to compare.                    *)
LEMMA AtHand ==
    ASSUME Inv, NEW s \in Scans, QuietOK(s), s \in quiet, pc[s] = "write",
           NEW p \in Paths, AccountOf[p] = acct[s]
    PROVE  /\ p \in PathsOf(acct[s])
           /\ seen[s][p] = Hashed(p, home[p])
           /\ known[s][p] = db.base[p]
           /\ Visible(s).base[p] = db.base[p]
           /\ Visible(s).found[<<s, p>>] = None
           /\ First(known[s], acct[s]) = First(db.base, AccountOf[p])
<1>1. Running(s)
    BY DEF Running
<1>2. p \in PathsOf(acct[s]) /\ acct[s] \in Pending(s)
    BY DEF PathsOf, Pending
<1>3. /\ \A q \in PathsOf(acct[s]) : known[s][q] = db.base[q]
      /\ left[s] = {}
    BY <1>1 DEF QuietOK
<1>4. First(known[s], acct[s]) = First(db.base, AccountOf[p])
    BY <1>3 DEF First
<1>5. seen[s][p] = Hashed(p, home[p])
    BY <1>1, <1>2, <1>3 DEF QuietOK
<1> QED
    BY <1>1, <1>2, <1>3, <1>4, <1>5 DEF QuietOK, Untouched

(* The account at hand is done.                                                *)
LEMMA OnwardQuiet ==
    ASSUME Inv, NEW s \in Scans, QuietOK(s), pc[s] = "write", Onward(s, todo[s]),
           UNCHANGED <<home, db, walk, quiet>>,
           s \in quiet => writer' = s \/ met'[s] = None,
           \A p \in Paths \ PathsOf(acct[s]) :
               /\ Visible(s)'.base[p] = Visible(s).base[p]
               /\ Visible(s)'.found[<<s, p>>] = Visible(s).found[<<s, p>>],
           s \in quiet =>
               \A p \in PathsOf(acct[s]) :
                   /\ Claims(Visible(s)'.base[p]) = seen[s][p]
                   /\ Visible(s)'.found[<<s, p>>] =
                        Verdict(known[s][p], seen[s][p], First(known[s], acct[s]))
    PROVE  QuietOK(s)'
<1> SUFFICES ASSUME s \in quiet PROVE QuietOK(s)'
    BY DEF QuietOK
<1>1. s \in Sessions /\ Running(s)
    BY DEF Sessions, Running
<1>2. pc'[s] = IF todo[s] = {} THEN "commit" ELSE "next"
    BY <1>1 DEF Onward, Inv, TypeOK
<1>3. todo'[s] = todo[s]
    BY DEF walk
<1>4. Pending(s) = todo[s] \cup {acct[s]} /\ Pending(s)' = todo[s]
    BY <1>2, <1>3 DEF Pending
<1>5. acct[s] \notin todo[s]
    BY <1>1 DEF QuietOK
<1>6. ASSUME NEW p \in Paths
      PROVE  IF AccountOf[p] \in todo[s] THEN Untouched(s, p)' ELSE Accounted(s, p)'
    <2>1. CASE AccountOf[p] = acct[s]
        <3>1. /\ p \in PathsOf(acct[s])
              /\ seen[s][p] = Hashed(p, home[p])
              /\ known[s][p] = db.base[p]
              /\ First(known[s], acct[s]) = First(db.base, AccountOf[p])
            BY <2>1, AtHand
        <3>2. Accounted(s, p)'
            BY <3>1 DEF Accounted
        <3> QED
            BY <1>5, <2>1, <3>2
    <2>2. CASE AccountOf[p] # acct[s]
        <3>1. p \notin PathsOf(acct[s])
            BY <2>2 DEF PathsOf
        <3>2. IF AccountOf[p] \in todo[s] THEN Untouched(s, p) ELSE Accounted(s, p)
            BY <1>1, <1>4, <2>2 DEF QuietOK
        <3>3. /\ Untouched(s, p) => Untouched(s, p)'
              /\ Accounted(s, p) => Accounted(s, p)'
            BY <3>1 DEF Untouched, Accounted
        <3> QED
            BY <3>2, <3>3
    <2> QED
        BY <2>1, <2>2
<1>7. Awaits(s)'
    BY DEF Awaits
<1> QED
    BY <1>2, <1>3, <1>4, <1>6, <1>7 DEF QuietOK

LEMMA UnchangedQuiet ==
    ASSUME Inv, NEW s \in Scans, QuietOK(s), Unchanged(s) PROVE QuietOK(s)'
<1>1. Visible(s)' = Visible(s)
    BY DEF Unchanged, rows, Visible
<1>2. ASSUME s \in quiet, NEW p \in PathsOf(acct[s])
      PROVE  /\ Claims(Visible(s).base[p]) = seen[s][p]
             /\ Visible(s).found[<<s, p>>] =
                  Verdict(known[s][p], seen[s][p], First(known[s], acct[s]))
    <2>1. p \in Paths /\ AccountOf[p] = acct[s]
        BY DEF PathsOf
    <2>2. pc[s] = "write"
        BY DEF Unchanged
    <2>3. /\ known[s][p] = Visible(s).base[p]
          /\ Visible(s).found[<<s, p>>] = None
        BY <1>2, <2>1, <2>2, AtHand
    <2>4. /\ known[s][p] \in Baseline \cup {None}
          /\ seen[s][p] \in Files \cup {Absent}
        BY <2>1 DEF Inv, TypeOK
    <2>5. IF known[s][p] = None THEN seen[s][p] = Absent
          ELSE Claims(known[s][p]) = seen[s][p]
        BY DEF Unchanged, Added, Saved
    <2>6. Claims(known[s][p]) = seen[s][p]
        BY <2>5, ClaimsWritten
    <2>7. First(known[s], acct[s]) \in BOOLEAN
        BY DEF First
    <2>8. Verdict(known[s][p], seen[s][p], First(known[s], acct[s])) = None
        BY <2>4, <2>5, <2>7, VerdictOnNone
    <2> QED
        BY <2>3, <2>6, <2>8
<1>3. s \in quiet => writer' = s \/ met'[s] = None
    BY DEF Unchanged, rows, QuietOK, Running, Awaits
<1> QED
    BY <1>1, <1>2, <1>3, OnwardQuiet DEF Unchanged, rows

LEMMA ReconcileQuiet ==
    ASSUME Inv, NEW s \in Scans, QuietOK(s), Reconcile(s) PROVE QuietOK(s)'
<1> DEFINE old == Visible(s)
<1>1. Visible(s)' = Reconciled(old, s)
    BY DEF Reconcile, Visible
<1>2. TypeOK /\ old \in Tables /\ pc[s] = "write"
    BY VisibleType DEF Inv, Reconcile
<1>3. ASSUME NEW p \in Paths \ PathsOf(acct[s])
      PROVE  /\ Reconciled(old, s).base[p] = old.base[p]
             /\ Reconciled(old, s).found[<<s, p>>] = old.found[<<s, p>>]
    <2>1. p \notin Added(known[s], seen[s], acct[s]) \cup Saved(known[s], seen[s], acct[s])
        BY DEF Added, Saved
    <2>2. <<s, p>> \in Reports /\ <<s, p>>[2] = p
        BY DEF Reports
    <2> QED
        BY <2>1, <2>2 DEF Reconciled
<1>4. ASSUME s \in quiet, NEW p \in PathsOf(acct[s])
      PROVE  /\ Claims(Reconciled(old, s).base[p]) = seen[s][p]
             /\ Reconciled(old, s).found[<<s, p>>] =
                  Verdict(known[s][p], seen[s][p], First(known[s], acct[s]))
    <2>1. p \in Paths /\ AccountOf[p] = acct[s]
        BY DEF PathsOf
    <2>2. /\ old.base[p] = known[s][p] /\ old.base[p] = db.base[p]
          /\ old.found[<<s, p>>] = None
        BY <1>2, <1>4, <2>1, AtHand
    <2>3. writer # s /\ Early(s, p) => met[s].base = old.base[p]
        BY <1>2, <1>4, <2>2 DEF QuietOK, Running, Awaits, Early
    <2> QED
        BY <1>2, <2>1, <2>2, <2>3, ReconciledExactly
<1> HIDE DEF old
<1>5. /\ Onward(s, todo[s]) /\ writer' = s
      /\ UNCHANGED <<home, db, walk, quiet>>
    BY DEF Reconcile
<1> QED
    BY <1>1, <1>2, <1>3, <1>4, <1>5, OnwardQuiet DEF old

(* A session that ends gives back its own lock only.                           *)
LEMMA EndVisible ==
    ASSUME Inv, NEW s \in Scans, NEW o \in Sessions \ {s},
           NEW how \in {"done", "failed"}, End(o, how), UNCHANGED db
    PROVE  /\ pc'[s] = pc[s]
           /\ todo'[s] = todo[s]
           /\ acct'[s] = acct[s]
           /\ left'[s] = left[s]
           /\ seen'[s] = seen[s]
           /\ known'[s] = known[s]
           /\ met'[s] = met[s]
           /\ writer = s => writer' = s
           /\ Visible(s)' = Visible(s)
<1>1. s # None /\ s \in Sessions
    BY ScanAssumption DEF Sessions
<1>2. /\ pc'[s] = pc[s]
      /\ todo'[s] = todo[s]
      /\ acct'[s] = acct[s]
      /\ left'[s] = left[s]
      /\ seen'[s] = seen[s]
      /\ known'[s] = known[s]
    <2>1. CASE o \in Scans
        BY <1>1, <2>1 DEF End, Inv, TypeOK
    <2>2. CASE o \notin Scans
        BY <1>1, <2>2 DEF End, walk, Inv, TypeOK
    <2> QED
        BY <2>1, <2>2
<1>3. Visible(s)' = Visible(s)
    BY <1>1 DEF End, Visible
<1>4. met'[s] = met[s] /\ (writer = s => writer' = s)
    BY <1>1 DEF End, Inv, TypeOK
<1> QED
    BY <1>2, <1>3, <1>4

(* Another scan's step.                                                        *)
LEMMA OtherScanQuiet ==
    ASSUME Inv, NEW s \in Scans, QuietOK(s), NEW o \in Scans \ {s}, Scan(o)
    PROVE  QuietOK(s)'
<1>1. /\ s \in Sessions /\ o \in Sessions /\ s # None
      /\ writer = s => writer # o
    BY ScanAssumption DEF Sessions
<1>2. CASE Begin(o)
    BY <1>1, <1>2, QuietFrame DEF Begin, Onward, rows, Visible, Inv, TypeOK
<1>3. CASE Enter(o)
    BY <1>1, <1>3, QuietFrame DEF Enter, rows, Visible, Inv, TypeOK
<1>4. CASE Look(o)
    BY <1>1, <1>4, QuietFrame DEF Look, rows, Visible, Inv, TypeOK
<1>5. CASE ReadBaselines(o)
    BY <1>1, <1>5, QuietFrame DEF ReadBaselines, rows, Visible, Inv, TypeOK
<1>6. CASE Unchanged(o)
    BY <1>1, <1>6, QuietFrame DEF Unchanged, Onward, rows, walk, Visible, Inv, TypeOK
<1>7. CASE Reconcile(o)
    <2>1. writer # s
        BY <1>1, <1>7 DEF Reconcile, MayWrite
    <2>2. Visible(s)' = Visible(s) /\ pc'[s] = pc[s]
        BY <1>1, <1>7, <2>1 DEF Reconcile, Visible, Onward, Inv, TypeOK
    <2> QED
        BY <1>7, <2>1, <2>2, QuietFrame DEF Reconcile, walk
<1>8. CASE Conflict(o)
    <2>1. End(o, "failed") /\ UNCHANGED <<home, db, quiet>>
        BY <1>8 DEF Conflict
    <2>2. pc'[s] = pc[s]
        BY <1>1, <2>1, EndVisible
    <2>3. Running(s)' => Running(s)
        BY <2>2 DEF Running
    <2> QED
        BY <1>1, <2>1, EndVisible, QuietFrame
<1>9. CASE Commit(o)
    <2>1. pc'[s] = pc[s]
        BY <1>1, <1>9 DEF Commit, End, Inv, TypeOK
    <2>2. s \in quiet' => ~Running(s)
        BY <1>9 DEF Commit
    <2> QED
        BY <2>1, <2>2 DEF QuietOK, Running
<1>10. CASE Merge(o)
    BY <1>1, <1>10, QuietFrame DEF Merge, rows, walk, Visible, Inv, TypeOK
<1> QED
    BY <1>2, <1>3, <1>4, <1>5, <1>6, <1>7, <1>8, <1>9, <1>10 DEF Scan

LEMMA QuietStep ==
    ASSUME Inv, NEW s \in Scans, QuietOK(s), [Next]_vars
    PROVE  QuietOK(s)'
<1>1. s \in Sessions /\ s \notin Remedies
    BY ScanAssumption DEF Sessions
<1>2. CASE Scan(s)
    <2>1. Conflict(s) \/ Commit(s) => ~Running(s)'
        BY <1>1 DEF Conflict, Commit, End, Running, Inv, TypeOK
    <2>2. Conflict(s) \/ Commit(s) => QuietOK(s)'
        BY <2>1 DEF QuietOK
    <2> QED
        BY <1>2, <2>2, BeginQuiet, EnterQuiet, LookQuiet, ReadBaselinesQuiet,
           UnchangedQuiet, MergeQuiet, ReconcileQuiet DEF Scan
<1>3. ASSUME NEW o \in Scans \ {s}, Scan(o) PROVE QuietOK(s)'
    BY <1>3, OtherScanQuiet
<1>4. ASSUME NEW r \in Remedies, Remedy(r) PROVE QuietOK(s)'
    <2>1. r \in Sessions /\ r # s
        BY <1>1 DEF Sessions
    <2>2. CASE Compare(r)
        BY <1>1, <2>1, <2>2, QuietFrame DEF Compare, rows, walk, Visible, Inv, TypeOK
    <2>3. CASE ~Compare(r)
        <3>1. pc'[s] = pc[s]
            BY <1>1, <1>4, <2>1, <2>3 DEF Remedy, Take, Put, Settle, End, Inv, TypeOK
        <3>2. Disturb
            BY <1>4, <2>3 DEF Remedy, Take, Put, Settle, Touch
        <3> QED
            BY <3>1, <3>2 DEF QuietOK, Disturb, Running
    <2> QED
        BY <2>2, <2>3
<1>5. ASSUME NEW o \in Sessions, Die(o) PROVE QuietOK(s)'
    <2>1. End(o, "failed") /\ UNCHANGED <<home, db, quiet>>
        BY <1>5 DEF Die
    <2>2. CASE o = s
        BY <1>1, <2>1, <2>2 DEF End, QuietOK, Running, Inv, TypeOK
    <2>3. CASE o # s
        <3>1. pc'[s] = pc[s]
            BY <2>1, <2>3, EndVisible
        <3>2. Running(s)' => Running(s)
            BY <3>1 DEF Running
        <3> QED
            BY <2>1, <2>3, EndVisible, QuietFrame
    <2> QED
        BY <2>2, <2>3
<1>6. CASE OwnerEdit
    <2>1. UNCHANGED pc /\ Disturb
        BY <1>6 DEF OwnerEdit, Touch
    <2> QED
        BY <2>1 DEF QuietOK, Disturb, Running
<1>7. CASE UNCHANGED vars
    <2>1. UNCHANGED <<home, rows, pc, walk, met, quiet>>
        BY <1>7 DEF vars, rows, walk
    <2> QED
        BY <2>1, QuietFrame DEF rows, walk, Visible
<1> QED
    BY <1>2, <1>3, <1>4, <1>5, <1>6, <1>7 DEF Next

(* The commit of an undisturbed scan.                                          *)
LEMMA CommitsAccounted ==
    ASSUME Inv, NEW s \in Scans, QuietOK(s), s \in quiet, Commit(s),
           NEW p \in Paths
    PROVE  /\ Claims(db'.base[p]) = Hashed(p, home[p])
           /\ db'.found[<<s, p>>] =
                Verdict(db.base[p], Hashed(p, home[p]), First(db.base, AccountOf[p]))
<1>1. Running(s) /\ pc[s] = "commit"
    BY DEF Commit, Running
<1>2. Pending(s) = {}
    BY <1>1 DEF QuietOK, Pending
<1>3. Accounted(s, p)
    BY <1>1, <1>2 DEF QuietOK
<1> QED
    BY <1>3 DEF Accounted, Commit

(* Only a scan's own commit takes it from "commit" to "done".                  *)
LEMMA CommitsIsCommit ==
    ASSUME Inv, NEW s \in Scans, [Next]_vars, Commits(s) PROVE Commit(s)
<1>1. s \in Sessions /\ s \notin Remedies
    BY ScanAssumption DEF Sessions
<1>2. pc[s] = "commit" /\ pc'[s] = "done"
    BY DEF Commits
<1>3. ASSUME NEW o \in Scans, Scan(o), o # s PROVE FALSE
    <2>1. o \in Sessions
        BY DEF Sessions
    <2> QED
        BY <1>1, <1>2, <1>3, <2>1 DEF Scan, Begin, Enter, Look, ReadBaselines,
           Unchanged, Merge, Reconcile, Conflict, Commit, Onward, End, Inv, TypeOK
<1>4. Scan(s) => Commit(s)
    BY <1>2 DEF Scan, Begin, Enter, Look, ReadBaselines, Unchanged, Merge,
       Reconcile, Conflict
<1>5. ASSUME NEW r \in Remedies, Remedy(r) PROVE FALSE
    BY <1>1, <1>2, <1>5 DEF Remedy, Take, Put, Compare, Settle, End, Sessions, Inv,
       TypeOK
<1>6. ASSUME NEW o \in Sessions, Die(o) PROVE FALSE
    BY <1>1, <1>2, <1>6 DEF Die, End, Inv, TypeOK
<1>7. ~(OwnerEdit \/ UNCHANGED vars)
    BY <1>2 DEF OwnerEdit, vars
<1> QED
    BY <1>3, <1>4, <1>5, <1>6, <1>7 DEF Next

LEMMA ContractStep ==
    ASSUME Inv, QuietInv, [Next]_vars, NEW s \in quiet, Commits(s), NEW p \in Paths
    PROVE  LET old == Claims(db.base[p])
               new == Hashed(p, home[p])
               finding == db'.found[<<s, p>>]
           IN  /\ Claims(db'.base[p]) = new
               /\ finding = None <=> old = new \/ First(db.base, AccountOf[p])
               /\ finding # None => finding.change = ChangeOf(old, new)
<1> DEFINE first == First(db.base, AccountOf[p])
<1>1. s \in Scans
    BY DEF Inv, TypeOK
<1>2. Commit(s) /\ QuietOK(s)
    BY <1>1, CommitsIsCommit DEF QuietInv
<1>3. /\ Claims(db'.base[p]) = Hashed(p, home[p])
      /\ db'.found[<<s, p>>] = Verdict(db.base[p], Hashed(p, home[p]), first)
    BY <1>1, <1>2, CommitsAccounted
<1>4. /\ db.base[p] \in Baseline \cup {None}
      /\ Hashed(p, home[p]) \in Files \cup {Absent}
    BY HashedType DEF Inv, TypeOK, Tables
<1>5. first \in BOOLEAN /\ (first => db.base[p] = None)
    BY DEF First, PathsOf
<1> HIDE DEF first
<1>6. /\ Verdict(db.base[p], Hashed(p, home[p]), first) = None
            <=> Claims(db.base[p]) = Hashed(p, home[p]) \/ first
      /\ Verdict(db.base[p], Hashed(p, home[p]), first) # None =>
            Verdict(db.base[p], Hashed(p, home[p]), first).change
                = ChangeOf(Claims(db.base[p]), Hashed(p, home[p]))
    BY <1>4, <1>5, VerdictSays
<1> QED
    BY <1>3, <1>6 DEF first

LEMMA QuietNext == Inv /\ QuietInv /\ [Next]_vars => Inv' /\ QuietInv'
BY NextInv, QuietStep DEF QuietInv

(* A scan that nothing disturbs leaves every baseline true to the disk and     *)
(* reports exactly the differences, each under its name.                       *)
THEOREM ScansAreExact == Spec => ScanContract
<1>1. Init => QuietInv
    BY QuietInit DEF QuietInv
<1>2. Inv /\ QuietInv /\ [Next]_vars
      => [\A s \in quiet : Commits(s) =>
            \A p \in Paths :
                LET old == Claims(db.base[p])
                    new == Hashed(p, home[p])
                    finding == db'.found[<<s, p>>]
                IN  /\ Claims(db'.base[p]) = new
                    /\ finding = None
                          <=> old = new \/ First(db.base, AccountOf[p])
                    /\ finding # None => finding.change = ChangeOf(old, new)]_vars
    BY ContractStep
<1> QED
    BY <1>1, <1>2, InitInv, QuietNext, PTL DEF Spec, ScanContract

--------------------------------------------------------------------------------
(* What Sentinel moved itself.                                                 *)

(* A finding's path has a baseline, and a hash it names is one a scan hashes.  *)
Book(tables) ==
    \A f \in Reports :
        LET finding == tables.found[f] IN
        finding # None =>
            /\ tables.base[f[2]] # None
            /\ finding.current # Absent =>
                    f[2] \notin Excluded /\ finding.current \notin Oversize

At(r) == target[r].finding[2]

(* The baseline a restore has compared is the baseline still.                  *)
Fits(r) ==
    /\ met[r] # None
    /\ pc[r] = "put"
    /\ db.found[target[r].finding].current # Absent
    => met[r].base = db.base[At(r)]

(* A remediation that nothing has overlapped has left its path as it says, and *)
(* has the path and its baseline to itself.                                    *)
LoneOK(r) ==
    r \in lone /\ Running(r) =>
        /\ home[At(r)] = IF pc[r] = "took" THEN Absent ELSE target[r].file
        /\ \A q \in Remedies \ {r} : Running(q) => At(q) # At(r)
        /\ \A s \in Scans : ~Running(s)
        /\ Fits(r)

(* A path whose last change was a remediation: its baseline says what that     *)
(* remediation left, and no other is at work on it.                            *)
OwnOK(p) ==
    LET f == own[p] IN
    f # None =>
        /\ f[2] = p
        /\ db.found[f] # None
        /\ home[p] = Absent => ~db.base[p].active
        /\ home[p] # Absent /\ home[p].sha = db.found[f].current
                => Claims(db.base[p]) = home[p]
        /\ \A r \in Remedies : Running(r) => At(r) # p

OwnInv ==
    /\ \A s \in Scans : SeenOK(s)
    /\ Book(db)
    /\ Book(draft)
    /\ \A r \in Remedies : LoneOK(r)
    /\ \A p \in Paths : OwnOK(p)

LEMMA VerdictCurrent ==
    ASSUME NEW old \in Baseline \cup {None}, NEW new \in Files \cup {Absent},
           NEW first \in BOOLEAN, Verdict(old, new, first) # None,
           Verdict(old, new, first).current # Absent
    PROVE  new # Absent /\ Verdict(old, new, first).current = new.sha
<1>1. CASE new = Absent
    BY <1>1 DEF Verdict, Report
<1>2. CASE new # Absent
    BY <1>2 DEF Verdict, Report
<1> QED
    BY <1>1, <1>2

LEMMA ReconciledBook ==
    ASSUME Inv, NEW s \in Scans, SeenOK(s), NEW tables \in Tables, Book(tables),
           \A p \in Paths : known[s][p] # None => tables.base[p] # None,
           met[s] # None => met[s].base # None
    PROVE  Book(Reconciled(tables, s))
<1> DEFINE new == Reconciled(tables, s)
<1>1. /\ new \in Tables
      /\ \A p \in Paths : tables.base[p] # None => new.base[p] # None
    <2>1. ASSUME NEW p \in Paths, tables.base[p] # None PROVE new.base[p] # None
        <3>1. \/ new.base[p] = tables.base[p]
              \/ new.base[p] # None
            BY ReconciledRows DEF Inv
        <3> QED
            BY <2>1, <3>1
    <2> QED
        BY <2>1, ReconciledRows DEF Inv
<1>2. ASSUME NEW f \in Reports, new.found[f] # None
      PROVE  /\ new.base[f[2]] # None
             /\ new.found[f].current # Absent =>
                    f[2] \notin Excluded /\ new.found[f].current \notin Oversize
    <2>1. f[2] \in Paths
        BY DEF Reports
    <2>2. CASE new.found[f] = tables.found[f]
        BY <1>1, <1>2, <2>1, <2>2 DEF Book
    <2>3. CASE new.found[f] # tables.found[f]
        <3> DEFINE p == f[2]
                   first == First(known[s], acct[s])
                   verdict == Verdict(known[s][p], seen[s][p], first)
        <3>1. f[1] = s /\ p \in PathsOf(acct[s]) /\ new.found[f] = verdict
            BY <2>3 DEF Reconciled
        <3>2. f = <<s, p>>
            BY <3>1 DEF Reports
        <3>3. new.base[p] # None
            <4>1. \/ new.found[<<s, p>>] = tables.found[<<s, p>>]
                  \/ new.base[p] # None
                BY <2>1, ReconciledRows DEF Inv
            <4> QED
                BY <2>3, <3>2, <4>1
        <3>4. /\ known[s][p] \in Baseline \cup {None}
              /\ seen[s][p] \in Files \cup {Absent}
              /\ first \in BOOLEAN
            BY <2>1 DEF Inv, TypeOK, First
        <3>5. ASSUME verdict.current # Absent
              PROVE  p \notin Excluded /\ verdict.current \notin Oversize
            <4>1. seen[s][p] # Absent /\ verdict.current = seen[s][p].sha
                BY <1>2, <3>1, <3>4, <3>5, VerdictCurrent
            <4> QED
                BY <2>1, <4>1 DEF SeenOK
        <3> QED
            BY <3>1, <3>3, <3>5
    <2> QED
        BY <2>2, <2>3
<1> QED
    BY <1>2 DEF Book

(* A restore that wrote the row it had compared has told of its file.          *)
LEMMA RestoredClaims ==
    ASSUME NEW tables \in Tables, NEW f \in Reports, tables.found[f] # None,
           NEW file \in Files, NEW read \in Met,
           read.base # None, read.base = tables.base[f[2]],
           tables.found[f].current = file.sha
    PROVE  Claims(Restored(tables, f, file, read).base[f[2]]) = file
<1> DEFINE told == [sha |-> tables.found[f].current, mode |-> file.mode]
           row == tables.base[f[2]]
<1>1. /\ f[2] \in Paths /\ file.sha \in Shas /\ file.mode \in Modes
      /\ file = [sha |-> file.sha, mode |-> file.mode]
    BY FileType, ScanAssumption DEF Reports
<1>2. told = file
    BY <1>1
<1>3. row \in Baseline /\ Tracked(file) \in Baseline
    BY <1>1 DEF Tables, Tracked, Baseline
<1>4. Updated(row, row, Tracked(told)) = Tracked(told)
    BY <1>2, <1>3, UpdatedCurrent
<1>5. Restored(tables, f, file, read).base[f[2]] = Updated(row, read.base, Tracked(told))
    BY <1>1 DEF Restored, Tables
<1>6. Restored(tables, f, file, read).base[f[2]] = Tracked(file)
    BY <1>2, <1>4, <1>5
<1> QED
    BY <1>1, <1>6, ClaimsWritten

(* The rows of a remediation keep the book.                                    *)
LEMMA SettledBook ==
    ASSUME NEW tables \in Tables, NEW f \in Reports, tables.found[f] # None,
           Book(tables), NEW file \in Files, NEW read \in Met,
           read.base # None => /\ tables.base[f[2]] # None
                               /\ tables.found[f].current # Absent
    PROVE  Book(Quarantined(tables, f, read)) /\ Book(Restored(tables, f, file, read))
<1>1. ASSUME NEW new,
             \A g \in Reports : g # f => new.found[g] = tables.found[g],
             new.found[f].current = tables.found[f].current,
             \A p \in Paths : new.base[p] # tables.base[p] => new.base[p] # None
      PROVE  Book(new)
    <2>1. \A g \in Reports : g[2] \in Paths
        BY DEF Reports
    <2> QED
        BY <1>1, <2>1 DEF Book
<1>2. Book(Quarantined(tables, f, read))
    <2> DEFINE new == Quarantined(tables, f, read)
    <2>1. /\ \A g \in Reports : g # f => new.found[g] = tables.found[g]
          /\ new.found[f].current = tables.found[f].current
          /\ \A p \in Paths : new.base[p] # tables.base[p] => new.base[p] # None
        BY QuarantinedRows
    <2> HIDE DEF new
    <2>2. Book(new)
        BY <1>1, <2>1
    <2> QED
        BY <2>2 DEF new
<1>3. Book(Restored(tables, f, file, read))
    <2> DEFINE new == Restored(tables, f, file, read)
    <2>1. /\ \A g \in Reports : g # f => new.found[g] = tables.found[g]
          /\ new.found[f].current = tables.found[f].current
        BY RestoredRows
    <2>2. \A p \in Paths : new.base[p] # tables.base[p] => new.base[p] # None
        <3> TAKE p \in Paths
        <3>1. CASE read.base = None \/ p # f[2]
            BY <3>1, RestoredBeside
        <3>2. CASE read.base # None /\ p = f[2]
            BY <3>2, RestoredBase
        <3> QED
            BY <3>1, <3>2
    <2> HIDE DEF new
    <2>3. Book(new)
        BY <1>1, <2>1, <2>2
    <2> QED
        BY <2>3 DEF new
<1> QED
    BY <1>2, <1>3

LEMMA OwnInit == Init => OwnInv
<1> SUFFICES ASSUME Init PROVE OwnInv
    OBVIOUS
<1>1. \A f \in Reports : db.found[f] = None /\ draft.found[f] = None
    BY DEF Init
<1>2. /\ \A s \in Scans, p \in Paths : seen[s][p] = Absent
      /\ \A p \in Paths : own[p] = None
      /\ \A r \in Remedies : ~Running(r)
    BY DEF Init, NoFiles, NoRows, Running, Sessions
<1> QED
    BY <1>1, <1>2 DEF OwnInv, SeenOK, Book, LoneOK, OwnOK

LEMMA SeenStep ==
    ASSUME Inv, NEW s \in Scans, SeenOK(s), [Next]_vars PROVE SeenOK(s)'
<1>1. \A p \in Paths : NoFiles[p] = Absent
    BY DEF NoFiles
<1>2. ASSUME NEW o \in Sessions, NEW how, End(o, how) PROVE SeenOK(s)'
    <2>1. seen'[s] = seen[s] \/ seen'[s] = NoFiles
        <3>1. CASE o \in Scans
            BY <1>2, <3>1 DEF End, Inv, TypeOK
        <3>2. CASE o \notin Scans
            BY <1>2, <3>2 DEF End, walk
        <3> QED
            BY <3>1, <3>2
    <2> QED
        BY <1>1, <2>1 DEF SeenOK
<1>3. ASSUME NEW o \in Scans, Enter(o) PROVE SeenOK(s)'
    <2>1. seen'[s] = seen[s] \/ seen'[s] = NoFiles
        BY <1>3 DEF Enter, Inv, TypeOK
    <2> QED
        BY <1>1, <2>1 DEF SeenOK
<1>4. ASSUME NEW o \in Scans, Look(o) PROVE SeenOK(s)'
    <2>1. PICK q \in left[o] :
            seen' = [seen EXCEPT ![o][q] = Hashed(q, home[q])] \/ UNCHANGED seen
        BY <1>4 DEF Look
    <2>2. \A p \in Paths : \/ seen'[s][p] = seen[s][p]
                           \/ seen'[s][p] = Hashed(p, home[p])
        <3>1. /\ seen \in [Scans -> [Paths -> Files \cup {Absent}]]
              /\ q \in Paths
            BY DEF Inv, TypeOK
        <3>2. CASE o = s
            BY <2>1, <3>1, <3>2
        <3>3. CASE o # s
            BY <2>1, <3>1, <3>3
        <3> QED
            BY <3>2, <3>3
    <2>3. \A p \in Paths : Hashed(p, home[p]) # Absent =>
            p \notin Excluded /\ Hashed(p, home[p]).sha \notin Oversize
        BY DEF Hashed
    <2> QED
        BY <2>2, <2>3 DEF SeenOK
<1>5. UNCHANGED seen => SeenOK(s)'
    BY DEF SeenOK
<1>6. ASSUME NEW o \in Scans, Scan(o) PROVE SeenOK(s)'
    <2>1. Begin(o) \/ ReadBaselines(o) \/ Unchanged(o) \/ Merge(o) \/ Reconcile(o)
            => UNCHANGED seen
        BY DEF Begin, ReadBaselines, Unchanged, Merge, Reconcile, walk
    <2>2. Conflict(o) \/ Commit(o) => SeenOK(s)'
        BY <1>2 DEF Conflict, Commit, Sessions
    <2> QED
        BY <1>3, <1>4, <1>5, <1>6, <2>1, <2>2 DEF Scan
<1>7. ASSUME NEW r \in Remedies, Remedy(r) PROVE SeenOK(s)'
    <2>1. Take(r) \/ Put(r) \/ Compare(r) => UNCHANGED seen
        BY DEF Take, Put, Compare, walk
    <2>2. Settle(r) => SeenOK(s)'
        BY <1>2 DEF Settle, Sessions
    <2> QED
        BY <1>5, <1>7, <2>1, <2>2 DEF Remedy
<1>8. ASSUME NEW o \in Sessions, Die(o) PROVE SeenOK(s)'
    BY <1>2, <1>8 DEF Die
<1>9. OwnerEdit \/ UNCHANGED vars => UNCHANGED seen
    BY DEF OwnerEdit, vars, walk
<1> QED
    BY <1>5, <1>6, <1>7, <1>8, <1>9 DEF Next

LEMMA BookStep ==
    ASSUME Inv, OwnInv, [Next]_vars PROVE Book(db)' /\ Book(draft)'
<1>1. /\ Book(db) /\ Book(draft)
      /\ db \in Tables /\ draft \in Tables
    BY DEF OwnInv, Inv, TypeOK
<1>2. UNCHANGED <<db, draft>> => Book(db)' /\ Book(draft)'
    BY <1>1 DEF Book
<1>3. ASSUME NEW o \in Sessions, NEW how, End(o, how), Book(db)'
      PROVE  Book(db)' /\ Book(draft)'
    <2>1. draft' = draft \/ draft' = db'
        BY <1>3 DEF End
    <2> QED
        BY <1>1, <1>3, <2>1 DEF Book
<1>4. UNCHANGED db => Book(db)'
    BY <1>1 DEF Book
<1>5. ASSUME NEW s \in Scans, Reconcile(s) PROVE Book(db)' /\ Book(draft)'
    <2>1. Book(Visible(s)) /\ SeenOK(s)
        BY <1>1 DEF Visible, OwnInv
    <2>2. /\ Visible(s) \in Tables
          /\ \A p \in Paths : known[s][p] # None => Visible(s).base[p] # None
          /\ met[s] # None => met[s].base # None
        BY VisibleType DEF Inv, ReadOK
    <2>3. Book(Reconciled(Visible(s), s))
        BY <2>1, <2>2, ReconciledBook
    <2>4. draft' = Reconciled(Visible(s), s) /\ db' = db
        BY <1>5 DEF Reconcile
    <2> QED
        BY <1>1, <2>3, <2>4 DEF Book
<1>6. ASSUME NEW s \in Scans, Commit(s) PROVE Book(db)' /\ Book(draft)'
    <2>1. Book(Visible(s)) /\ db' = Visible(s)
        BY <1>1, <1>6 DEF Visible, Commit
    <2>2. Book(db)'
        BY <2>1 DEF Book
    <2> QED
        BY <1>3, <1>6, <2>2 DEF Commit, Sessions
<1>7. ASSUME NEW s \in Scans, Scan(s) PROVE Book(db)' /\ Book(draft)'
    <2>1. Begin(s) \/ Enter(s) \/ Look(s) \/ ReadBaselines(s) \/ Unchanged(s) \/ Merge(s)
            => UNCHANGED <<db, draft>>
        BY DEF Begin, Enter, Look, ReadBaselines, Unchanged, Merge, rows
    <2>2. Conflict(s) => Book(db)' /\ Book(draft)'
        BY <1>3, <1>4 DEF Conflict, Sessions
    <2> QED
        BY <1>2, <1>5, <1>6, <1>7, <2>1, <2>2 DEF Scan
<1>8. ASSUME NEW r \in Remedies, Settle(r) PROVE Book(db)' /\ Book(draft)'
    <2> DEFINE f == target[r].finding
               file == target[r].file
               read == met[r]
    <2>1. /\ f \in Reports /\ file \in Files /\ db.found[f] # None
          /\ read \in Met
          /\ read.base # None => /\ db.base[f[2]] # None
                                 /\ db.found[f].current # Absent
        <3>1. pc[r] \in {"took", "put"} /\ met[r] # None /\ r \in Sessions
            BY <1>8 DEF Settle, Sessions
        <3> QED
            BY <3>1 DEF Inv, TypeOK, TargetOK, ComparedOK
    <2>2. db' = Quarantined(db, f, read) \/ db' = Restored(db, f, file, read)
        BY <1>8 DEF Settle
    <2> HIDE DEF f, file, read
    <2>3. Book(Quarantined(db, f, read)) /\ Book(Restored(db, f, file, read))
        BY <1>1, <2>1, SettledBook
    <2>4. Book(db')
        BY <2>2, <2>3
    <2>5. Book(db)'
        BY <2>4 DEF Book
    <2> QED
        BY <1>3, <1>8, <2>5 DEF Settle, Sessions
<1>9. ASSUME NEW r \in Remedies, Remedy(r) PROVE Book(db)' /\ Book(draft)'
    <2>1. Take(r) \/ Put(r) \/ Compare(r) => UNCHANGED <<db, draft>>
        BY DEF Take, Put, Compare, rows
    <2> QED
        BY <1>2, <1>8, <1>9, <2>1 DEF Remedy
<1>10. ASSUME NEW s \in Sessions, Die(s) PROVE Book(db)' /\ Book(draft)'
    BY <1>3, <1>4, <1>10 DEF Die
<1>11. OwnerEdit \/ UNCHANGED vars => UNCHANGED <<db, draft>>
    BY DEF OwnerEdit, vars, rows
<1> QED
    BY <1>2, <1>7, <1>9, <1>10, <1>11 DEF Next

(* A step that moves nothing, starts neither a remediation nor, beside this    *)
(* one, a scan, and leaves its rows alone.                                     *)
LEMMA LoneFrame ==
    ASSUME NEW r \in Remedies, LoneOK(r), UNCHANGED home, lone' \subseteq lone,
           \A q \in Remedies :
               Running(q)' => pc'[q] = pc[q] /\ target'[q] = target[q],
           r \in lone' /\ Running(r)' => \A s \in Scans : Running(s)' => Running(s),
           r \in lone' /\ Running(r)' /\ Fits(r) => Fits(r)'
    PROVE  LoneOK(r)'
<1> SUFFICES ASSUME r \in lone', Running(r)' PROVE LoneOK(r)'
    BY DEF LoneOK
<1>1. \A q \in Remedies : Running(q)' => Running(q) /\ At(q)' = At(q)
    BY DEF Running, At
<1>2. r \in lone /\ Running(r)
    BY <1>1
<1>3. pc'[r] = pc[r] /\ target'[r] = target[r]
    OBVIOUS
<1>4. home'[At(r)'] = IF pc'[r] = "took" THEN Absent ELSE target'[r].file
    BY <1>1, <1>2, <1>3 DEF LoneOK
<1>5. \A q \in Remedies \ {r} : Running(q)' => At(q)' # At(r)'
    BY <1>1, <1>2 DEF LoneOK
<1>6. Fits(r)' /\ \A s \in Scans : ~Running(s)'
    BY <1>2 DEF LoneOK
<1> QED
    BY <1>4, <1>5, <1>6 DEF LoneOK

(* A step that leaves alone the rows and what this remediation has compared.   *)
LEMMA FitsFrame ==
    ASSUME NEW r \in Remedies, UNCHANGED db, met'[r] = met[r], pc'[r] = pc[r],
           target'[r] = target[r]
    PROVE  Fits(r) => Fits(r)'
BY DEF Fits, At

(* The sessions of a step that ends one.                                       *)
LEMMA EndRemedies ==
    ASSUME Inv, NEW o \in Sessions, NEW how \in {"done", "failed"}, End(o, how)
    PROVE  /\ \A q \in Remedies :
                 Running(q)' => /\ q # o
                                /\ pc'[q] = pc[q] /\ target'[q] = target[q]
                                /\ met'[q] = met[q]
           /\ \A s \in Scans : Running(s)' => Running(s)
<1>1. \A q \in Sessions : Running(q)' => q # o
    BY DEF End, Running, Inv, TypeOK
<1>2. \A q \in Sessions : q # o => pc'[q] = pc[q] /\ met'[q] = met[q]
    BY DEF End, Inv, TypeOK
<1>3. \A q \in Remedies : q \in Sessions /\ q \notin Scans
    BY ScanAssumption DEF Sessions
<1>4. \A q \in Remedies : q # o => target'[q] = target[q]
    BY <1>3 DEF End, Inv, TypeOK
<1> QED
    BY <1>1, <1>2, <1>3, <1>4 DEF Running, Sessions

(* The sessions of a step of a scan that does not end.                         *)
LEMMA ScanRemedies ==
    ASSUME Inv, NEW s \in Scans,
           \/ Begin(s) \/ Enter(s) \/ Look(s) \/ ReadBaselines(s)
           \/ Unchanged(s) \/ Merge(s) \/ Reconcile(s)
    PROVE  /\ \A q \in Remedies : /\ pc'[q] = pc[q] /\ target'[q] = target[q]
                                  /\ met'[q] = met[q]
           /\ UNCHANGED <<home, db, own>>
           /\ lone' \subseteq lone
           /\ \/ \A o \in Scans : Running(o)' => Running(o)
              \/ \A r \in Remedies : ~(r \in lone' /\ Running(r)')
<1>1. \A q \in Remedies : q \in Sessions /\ q # s
    BY ScanAssumption DEF Sessions
<1>2. /\ UNCHANGED <<home, db, own, target>>
      /\ lone' \subseteq lone
    BY DEF Begin, Enter, Look, ReadBaselines, Unchanged, Merge, Reconcile, rows
<1>3. \A q \in Remedies : pc'[q] = pc[q] /\ met'[q] = met[q]
    BY <1>1 DEF Begin, Enter, Look, ReadBaselines, Unchanged, Merge, Reconcile, Onward,
       Inv, TypeOK
<1>4. \/ \A o \in Scans : Running(o)' => Running(o)
      \/ \A r \in Remedies : ~(r \in lone' /\ Running(r)')
    <2>1. CASE Begin(s)
        <3>1. lone' = {r \in lone : ~Running(r)}
            BY <2>1 DEF Begin
        <3> QED
            BY <1>3, <3>1 DEF Running
    <2>2. CASE ~Begin(s)
        <3>1. Running(s) /\ s \in Sessions
            BY <2>2 DEF Enter, Look, ReadBaselines, Unchanged, Merge, Reconcile, Running,
               Sessions
        <3>2. \A o \in Scans : o # s => pc'[o] = pc[o]
            BY <2>2 DEF Enter, Look, ReadBaselines, Unchanged, Merge, Reconcile, Onward,
               Sessions, Inv, TypeOK
        <3> QED
            BY <3>1, <3>2 DEF Running
    <2> QED
        BY <2>1, <2>2
<1> QED
    BY <1>2, <1>3, <1>4

(* A remediation that moves its file.                                          *)
LEMMA MoveLone ==
    ASSUME Inv, NEW r \in Remedies, LoneOK(r),
           NEW q \in Remedies, NEW f \in Reports, NEW file \in Files,
           NEW now \in {"took", "put"},
           pc[q] = "idle", pc' = [pc EXCEPT ![q] = now],
           target' = [target EXCEPT ![q] = [finding |-> f, file |-> file]],
           home' = [home EXCEPT ![f[2]] = IF now = "took" THEN Absent ELSE file],
           UNCHANGED <<db, met>>, Touch(q, f[2])
    PROVE  LoneOK(r)'
<1> SUFFICES ASSUME r \in lone', Running(r)' PROVE LoneOK(r)'
    BY DEF LoneOK
<1> DEFINE beside == {o \in Remedies : Running(o) /\ At(o) = f[2]}
<1>1. /\ \A o \in Remedies : o \in Sessions
      /\ q # None
    BY ScanAssumption DEF Sessions
<1>2. /\ lone' \subseteq lone \ beside
      /\ q \in lone' => beside = {} /\ \A s \in Scans : ~Running(s)
    BY <1>1 DEF Touch, At
<1>3. /\ pc'[q] = now
      /\ target'[q] = [finding |-> f, file |-> file]
      /\ \A o \in Remedies : o # q => pc'[o] = pc[o] /\ target'[o] = target[o]
    BY <1>1 DEF Inv, TypeOK
<1>4. /\ At(q)' = f[2]
      /\ \A o \in Remedies : o # q => At(o)' = At(o) /\ Running(o)' = Running(o)
    BY <1>3 DEF At, Running
<1>8. \A s \in Scans : Running(s)' = Running(s)
    BY ScanAssumption DEF Running, Sessions, Inv, TypeOK
<1>5. f[2] \in Paths
    BY DEF Reports
<1>6. CASE r = q
    <2>1. home'[f[2]] = IF now = "took" THEN Absent ELSE file
        BY <1>5 DEF Inv, TypeOK
    <2>2. \A o \in Remedies : Running(o) => At(o) # f[2]
        BY <1>2, <1>6
    <2>3. Fits(r)'
        BY <1>6 DEF Fits, Inv, ComparedOK
    <2>4. \A s \in Scans : ~Running(s)'
        BY <1>2, <1>6, <1>8
    <2> QED
        BY <1>3, <1>4, <1>6, <2>1, <2>2, <2>3, <2>4 DEF LoneOK
<1>7. CASE r # q
    <2>1. r \in lone /\ Running(r) /\ At(r) # f[2]
        BY <1>2, <1>4, <1>7
    <2>2. home'[At(r)] = home[At(r)]
        <3>1. At(r) \in Paths
            <4>1. pc[r] \in {"took", "put"}
                BY <2>1 DEF Inv, Running
            <4> QED
                BY <4>1 DEF Inv, TargetOK, At, Reports
        <3> QED
            BY <2>1, <3>1 DEF Inv, TypeOK
    <2>3. pc'[r] = pc[r] /\ target'[r] = target[r] /\ At(r)' = At(r)
        BY <1>3, <1>4, <1>7
    <2>4. home'[At(r)'] = IF pc'[r] = "took" THEN Absent ELSE target'[r].file
        BY <2>1, <2>2, <2>3 DEF LoneOK
    <2>5. \A o \in Remedies \ {r} : Running(o)' => At(o)' # At(r)'
        BY <1>4, <2>1, <2>3 DEF LoneOK
    <2>6. Fits(r)' /\ \A s \in Scans : ~Running(s)'
        BY <1>8, <2>1, <2>3, FitsFrame DEF LoneOK
    <2> QED
        BY <2>4, <2>5, <2>6 DEF LoneOK
<1> QED
    BY <1>6, <1>7

(* The rows of another remediation are of another path.                        *)
LEMMA SettleLone ==
    ASSUME Inv, NEW r \in Remedies, LoneOK(r), NEW q \in Remedies, Settle(q)
    PROVE  LoneOK(r)'
<1> SUFFICES ASSUME r \in lone', Running(r)' PROVE LoneOK(r)'
    BY DEF LoneOK
<1> DEFINE f == target[q].finding
           g == target[r].finding
           file == target[q].file
           read == met[q]
<1>1. q \in Sessions /\ UNCHANGED <<home, lone>> /\ End(q, "done")
    BY DEF Settle, Sessions
<1>2. /\ q # r /\ Running(r)
      /\ pc'[r] = pc[r] /\ target'[r] = target[r] /\ met'[r] = met[r]
    BY <1>1, EndRemedies DEF Running
<1>3. /\ f \in Reports /\ g \in Reports /\ f[2] # g[2] /\ g[2] \in Paths
      /\ file \in Files /\ db.found[f] # None
      /\ read \in Met
      /\ read.base # None => /\ db.base[f[2]] # None
                             /\ db.found[f].current # Absent
    <2>1. /\ pc[q] \in {"took", "put"} /\ met[q] # None
          /\ Running(q) /\ pc[r] \in {"took", "put"}
        BY <1>2 DEF Settle, Inv, Running
    <2>2. f[2] # g[2]
        BY <1>1, <1>2, <2>1 DEF LoneOK, At
    <2> QED
        BY <1>1, <2>1, <2>2 DEF Inv, TypeOK, TargetOK, ComparedOK, Reports
<1>4. db \in Tables
    BY DEF Inv, TypeOK
<1>5. db' = Quarantined(db, f, read) \/ db' = Restored(db, f, file, read)
    BY DEF Settle
<1> HIDE DEF f, file, read
<1>6. /\ Quarantined(db, f, read).base[g[2]] = db.base[g[2]]
      /\ Quarantined(db, f, read).found[g] = db.found[g]
    BY <1>3, <1>4, QuarantinedRows
<1>7. /\ Restored(db, f, file, read).base[g[2]] = db.base[g[2]]
      /\ Restored(db, f, file, read).found[g] = db.found[g]
    <2>1. Restored(db, f, file, read).base[g[2]] = db.base[g[2]]
        BY <1>3, <1>4, RestoredBeside
    <2>2. Restored(db, f, file, read).found[g] = db.found[g]
        BY <1>3, <1>4, RestoredBeside
    <2> QED
        BY <2>1, <2>2
<1>8. db'.base[g[2]] = db.base[g[2]] /\ db'.found[g] = db.found[g]
    BY <1>5, <1>6, <1>7
<1>9. Fits(r) => Fits(r)'
    BY <1>2, <1>8 DEF Fits, At
<1> QED
    BY <1>1, <1>9, EndRemedies, LoneFrame

(* The merge of a remediation that nothing has overlapped.                     *)
LEMMA CompareLone ==
    ASSUME Inv, NEW r \in Remedies, LoneOK(r), NEW q \in Remedies, Compare(q)
    PROVE  LoneOK(r)'
<1>1. /\ r \in Sessions /\ q \in Sessions
      /\ UNCHANGED <<home, db, pc, target, lone>>
    BY DEF Compare, rows, Sessions
<1>2. CASE q # r
    <2>1. met'[r] = met[r]
        BY <1>1, <1>2 DEF Compare, Inv, TypeOK
    <2>2. Fits(r) => Fits(r)'
        BY <1>1, <2>1, FitsFrame
    <2> QED
        BY <1>1, <2>2, LoneFrame DEF Running
<1>3. CASE q = r
    <2> DEFINE f == target[r].finding
    <2>1. pc[r] = "put" /\ db.found[f].current # Absent => met'[r].base = db.base[f[2]]
        BY <1>1, <1>3 DEF Compare, Inv, TypeOK
    <2>2. Fits(r)'
        BY <1>1, <2>1 DEF Fits, At
    <2> QED
        BY <1>1, <2>2, LoneFrame DEF Running
<1> QED
    BY <1>2, <1>3

LEMMA LoneStep ==
    ASSUME Inv, NEW r \in Remedies, LoneOK(r), [Next]_vars PROVE LoneOK(r)'
<1>1. ASSUME NEW s \in Scans, Scan(s) PROVE LoneOK(r)'
    <2>1. CASE Conflict(s) \/ Commit(s)
        <3>1. /\ End(s, "failed") \/ End(s, "done")
              /\ UNCHANGED <<home, lone>> /\ s \in Sessions
            BY <2>1 DEF Conflict, Commit, Sessions
        <3>2. Running(s)
            BY <2>1 DEF Conflict, Commit, Running
        <3>3. Running(r)' => Running(r)
            BY <3>1, EndRemedies DEF Running
        <3> QED
            BY <3>1, <3>2, <3>3 DEF LoneOK
    <2>2. CASE ~(Conflict(s) \/ Commit(s))
        <3>1. /\ \A q \in Remedies : /\ pc'[q] = pc[q] /\ target'[q] = target[q]
                                     /\ met'[q] = met[q]
              /\ UNCHANGED <<home, db>> /\ lone' \subseteq lone
              /\ \/ \A o \in Scans : Running(o)' => Running(o)
                 \/ ~(r \in lone' /\ Running(r)')
            BY <1>1, <2>2, ScanRemedies DEF Scan
        <3>2. Fits(r) => Fits(r)'
            BY <3>1, FitsFrame
        <3> QED
            BY <3>1, <3>2, LoneFrame
    <2> QED
        BY <2>1, <2>2
<1>2. ASSUME NEW q \in Remedies, Take(q) PROVE LoneOK(r)'
    <2>1. PICK f \in Reports :
            /\ home[f[2]] # Absent
            /\ target' = [target EXCEPT ![q] = [finding |-> f, file |-> home[f[2]]]]
            /\ home' = [home EXCEPT ![f[2]] = Absent]
            /\ Touch(q, f[2])
        BY <1>2 DEF Take
    <2>2. home[f[2]] \in Files
        BY <2>1 DEF Inv, TypeOK, Reports
    <2> QED
        BY <1>2, <2>1, <2>2, MoveLone DEF Take, rows
<1>3. ASSUME NEW q \in Remedies, Put(q) PROVE LoneOK(r)'
    <2>1. PICK f \in Reports :
            /\ stash[f] # Absent
            /\ target' = [target EXCEPT ![q] = [finding |-> f, file |-> stash[f]]]
            /\ home' = [home EXCEPT ![f[2]] = stash[f]]
            /\ Touch(q, f[2])
        BY <1>3 DEF Put
    <2>2. stash[f] \in Files
        BY <2>1 DEF Inv, TypeOK
    <2> QED
        BY <1>3, <2>1, <2>2, MoveLone DEF Put, rows
<1>4. ASSUME NEW q \in Remedies, Settle(q) \/ Compare(q) PROVE LoneOK(r)'
    BY <1>4, SettleLone, CompareLone
<1>5. ASSUME NEW s \in Sessions, Die(s) PROVE LoneOK(r)'
    <2>1. UNCHANGED <<home, db, lone>> /\ End(s, "failed")
        BY <1>5 DEF Die
    <2>2. Running(r)' /\ Fits(r) => Fits(r)'
        BY <2>1, EndRemedies, FitsFrame
    <2> QED
        BY <2>1, <2>2, EndRemedies, LoneFrame
<1>6. CASE OwnerEdit
    <2> SUFFICES ASSUME r \in lone', Running(r)' PROVE LoneOK(r)'
        BY DEF LoneOK
    <2>1. PICK p \in Paths, file \in Files \cup {Absent} :
            /\ home' = [home EXCEPT ![p] = file]
            /\ Touch(None, p)
        BY <1>6 DEF OwnerEdit
    <2>2. UNCHANGED <<pc, target, db, met>>
        BY <1>6 DEF OwnerEdit, rows
    <2>3. /\ r \in lone
          /\ ~(Running(r) /\ At(r) = p)
        BY <2>1 DEF Touch, At
    <2>4. \A q \in Remedies : Running(q)' = Running(q) /\ At(q)' = At(q)
        BY <2>2 DEF Running, At
    <2>5. home'[At(r)] = home[At(r)]
        <3>1. pc[r] \in {"took", "put"}
            BY <2>4 DEF Inv, Running
        <3>2. At(r) \in Paths
            BY <3>1 DEF Inv, TargetOK, At, Reports
        <3> QED
            BY <2>1, <2>3, <2>4, <3>2 DEF Inv, TypeOK
    <2>6. Fits(r)' /\ \A s \in Scans : ~Running(s)'
        BY <2>2, <2>3, <2>4, FitsFrame DEF LoneOK, Running
    <2> QED
        BY <2>2, <2>3, <2>4, <2>5, <2>6 DEF LoneOK
<1>7. CASE UNCHANGED vars
    BY <1>7, LoneFrame, FitsFrame DEF vars, rows, Running
<1> QED
    BY <1>1, <1>2, <1>3, <1>4, <1>5, <1>6, <1>7 DEF Next, Remedy

(* A step that leaves alone the rows, and the path or its history.             *)
LEMMA OwnFrame ==
    ASSUME NEW p \in Paths, OwnOK(p), UNCHANGED db,
           own'[p] # None => own'[p] = own[p] /\ home'[p] = home[p],
           \A r \in Remedies :
               Running(r)' => At(r)' # p \/ (Running(r) /\ At(r)' = At(r))
    PROVE  OwnOK(p)'
<1> SUFFICES ASSUME own'[p] # None PROVE OwnOK(p)'
    BY DEF OwnOK
<1>1. own[p] # None /\ own'[p] = own[p] /\ home'[p] = home[p]
    OBVIOUS
<1>2. \A r \in Remedies : Running(r)' => At(r)' # p
    BY <1>1 DEF OwnOK
<1> QED
    BY <1>1, <1>2 DEF OwnOK

LEMMA MoveOwn ==
    ASSUME Inv, NEW p \in Paths, OwnOK(p),
           NEW q \in Remedies, NEW f \in Reports, NEW file,
           NEW now \in {"took", "put"},
           pc' = [pc EXCEPT ![q] = now], UNCHANGED db,
           target' = [target EXCEPT ![q] = [finding |-> f, file |-> file]],
           \E there : home' = [home EXCEPT ![f[2]] = there],
           Touch(q, f[2])
    PROVE  OwnOK(p)'
<1>1. /\ \A o \in Remedies : o \in Sessions
      /\ f[2] \in Paths
    BY DEF Sessions, Reports
<1>2. own'[p] = IF p = f[2] THEN None ELSE own[p]
    BY DEF Touch, Inv, TypeOK
<1>3. p # f[2] => home'[p] = home[p]
    BY DEF Inv, TypeOK
<1>4. \A o \in Remedies :
        IF o = q THEN At(o)' = f[2]
        ELSE At(o)' = At(o) /\ Running(o)' = Running(o)
    BY <1>1 DEF At, Running, Inv, TypeOK
<1>5. CASE p = f[2]
    BY <1>2, <1>5 DEF OwnOK
<1>6. CASE p # f[2]
    BY <1>2, <1>3, <1>4, <1>6, OwnFrame
<1> QED
    BY <1>5, <1>6

(* What is on the disk of such a path, a scan hashes.                          *)
LEMMA OwnHashed ==
    ASSUME Inv, NEW p \in Paths, OwnOK(p), Book(db), own[p] # None,
           home[p] = Absent \/ home[p].sha = db.found[own[p]].current
    PROVE  Hashed(p, home[p]) = home[p]
<1>1. CASE home[p] = Absent
    BY <1>1 DEF Hashed
<1>2. CASE home[p] # Absent
    <2>1. home[p] \in Files
        BY <1>2 DEF Inv, TypeOK
    <2>2. home[p].sha # Absent
        BY <2>1, FileType, ScanAssumption
    <2>3. own[p] \in Reports /\ own[p][2] = p /\ db.found[own[p]] # None
        BY DEF Inv, TypeOK, OwnOK
    <2>4. p \notin Excluded /\ home[p].sha \notin Oversize
        BY <1>2, <2>2, <2>3 DEF Book
    <2> QED
        BY <2>4 DEF Hashed
<1> QED
    BY <1>1, <1>2

LEMMA CommitOwn ==
    ASSUME Inv, QuietInv, OwnInv, Book(db)', NEW s \in Scans, Commit(s),
           NEW p \in Paths
    PROVE  OwnOK(p)'
<1> SUFFICES ASSUME own'[p] # None PROVE OwnOK(p)'
    BY DEF OwnOK
<1> DEFINE f == own[p]
<1>1. s \in quiet /\ own' = own /\ UNCHANGED home
    BY DEF Commit, NoRows
<1>2. /\ OwnOK(p) /\ Book(db) /\ QuietOK(s)
      /\ f \in Reports /\ f # None
    BY <1>1 DEF OwnInv, QuietInv, Inv, TypeOK
<1>3. f[2] = p /\ db.found[f] # None
    BY <1>2 DEF OwnOK
<1>4. f[1] # s
    BY <1>2, <1>3 DEF Commit, Inv, FreshOK, Reports
<1>5. db'.found[f] = db.found[f]
    BY <1>2, <1>4, ScanAssumption DEF Commit, Visible, Inv, DraftOK, Sessions
<1>6. Claims(db'.base[p]) = Hashed(p, home[p])
    BY <1>1, <1>2, CommitsAccounted
<1>7. db'.base[p] # None
    BY <1>2, <1>3, <1>5 DEF Book
<1>8. db' \in Tables
    BY VisibleType DEF Commit, Inv
<1>9. ASSUME home[p] = Absent PROVE ~db'.base[p].active
    <2>1. Claims(db'.base[p]) = Absent
        BY <1>6, <1>9 DEF Hashed
    <2>2. db'.base[p] \in Baseline
        BY <1>7, <1>8 DEF Tables
    <2>3. [sha |-> db'.base[p].sha, mode |-> db'.base[p].mode] # Absent
        BY <2>2, ScanAssumption DEF Baseline
    <2> QED
        BY <1>7, <2>1, <2>3 DEF Claims
<1>10. ASSUME home[p] # Absent, home[p].sha = db'.found[f].current
       PROVE  Claims(db'.base[p]) = home[p]
    BY <1>2, <1>5, <1>6, <1>10, OwnHashed
<1>11. \A r \in Remedies : Running(r)' => At(r)' # p
    <2>1. \A r \in Remedies : Running(r)' => pc'[r] = pc[r] /\ target'[r] = target[r]
        BY EndRemedies DEF Commit, Sessions
    <2>2. \A r \in Remedies : Running(r)' => Running(r) /\ At(r)' = At(r)
        BY <2>1 DEF Running, At
    <2> QED
        BY <1>2, <2>2 DEF OwnOK
<1> HIDE DEF f
<1>12. own'[p] = f
    BY <1>1 DEF f
<1> QED
    BY <1>1, <1>3, <1>5, <1>7, <1>9, <1>10, <1>11, <1>12 DEF OwnOK

LEMMA SettleOwn ==
    ASSUME Inv, OwnInv, NEW r \in Remedies, Settle(r), NEW p \in Paths
    PROVE  OwnOK(p)'
<1> SUFFICES ASSUME own'[p] # None PROVE OwnOK(p)'
    BY DEF OwnOK
<1> DEFINE f == target[r].finding
           file == target[r].file
           read == met[r]
<1>1. /\ f \in Reports /\ file \in Files /\ db.found[f] # None
      /\ f[2] \in Paths /\ f[2] = At(r)
      /\ Running(r) /\ pc[r] \in {"took", "put"} /\ met[r] # None
    BY DEF Settle, Inv, TargetOK, At, Reports, Running
<1>8. /\ read \in Met
      /\ read.base # None => /\ db.base[f[2]] # None
                             /\ db.found[f].current # Absent
    BY <1>1 DEF Inv, TypeOK, ComparedOK, Sessions
<1>2. /\ OwnOK(p) /\ LoneOK(r) /\ Book(db) /\ db \in Tables
      /\ UNCHANGED home
    BY DEF OwnInv, Inv, TypeOK, Settle
<1>3. db' = IF pc[r] = "took" THEN Quarantined(db, f, read)
            ELSE Restored(db, f, file, read)
    BY DEF Settle
<1>4. own' = IF r \in lone THEN [own EXCEPT ![f[2]] = f] ELSE own
    BY DEF Settle
<1>5. \A q \in Remedies : Running(q)' => Running(q) /\ At(q)' = At(q) /\ q # r
    <2>1. \A q \in Remedies : Running(q)' => pc'[q] = pc[q] /\ target'[q] = target[q]
        BY EndRemedies DEF Settle, Sessions
    <2>2. ~Running(r)'
        BY DEF Settle, End, Running, Inv, TypeOK, Sessions
    <2> QED
        BY <2>1, <2>2 DEF Running, At
<1>9. r \in lone /\ pc[r] = "put" /\ db.found[f].current # Absent
        => read.base = db.base[f[2]]
    BY <1>1, <1>2 DEF LoneOK, Fits
<1> HIDE DEF f, file, read
<1>6. CASE p # f[2]
    <2> DEFINE g == own[p]
    <2>1. own'[p] = g /\ g # None /\ g \in Reports
        BY <1>1, <1>4, <1>6 DEF Inv, TypeOK
    <2>2. g[2] = p /\ g # f /\ db.found[g] # None
        BY <1>2, <1>6, <2>1 DEF OwnOK
    <2>3. db'.base[p] = db.base[p] /\ db'.found[g] = db.found[g]
        <3>1. /\ Quarantined(db, f, read).base[p] = db.base[p]
              /\ Quarantined(db, f, read).found[g] = db.found[g]
            BY <1>1, <1>2, <1>6, <2>1, <2>2, QuarantinedRows
        <3>2. Restored(db, f, file, read).base[p] = db.base[p]
            BY <1>1, <1>2, <1>6, <1>8, RestoredBeside
        <3>3. Restored(db, f, file, read).found[g] = db.found[g]
            BY <1>1, <1>2, <1>8, <2>1, <2>2, RestoredBeside
        <3> QED
            BY <1>3, <3>1, <3>2, <3>3
    <2>4. \A q \in Remedies : Running(q)' => At(q)' # p
        BY <1>2, <1>5, <2>1 DEF OwnOK
    <2> QED
        BY <1>2, <2>1, <2>2, <2>3, <2>4 DEF OwnOK
<1>7. CASE p = f[2]
    <2>1. own[p] = None
        BY <1>1, <1>2, <1>7 DEF OwnOK
    <2>2. r \in lone /\ own'[p] = f
        BY <1>4, <1>7, <2>1 DEF Inv, TypeOK
    <2>3. home[p] = IF pc[r] = "took" THEN Absent ELSE file
        BY <1>1, <1>2, <1>7, <2>2 DEF LoneOK, file
    <2>4. \A q \in Remedies : Running(q)' => At(q)' # p
        BY <1>1, <1>2, <1>5, <1>7, <2>2 DEF LoneOK
    <2>5. db.base[p] # None
        BY <1>1, <1>2, <1>7 DEF Book
    <2>6. /\ db'.found[f] # None
          /\ db'.found[f].current = db.found[f].current
        <3>1. /\ Quarantined(db, f, read).found[f] # None
              /\ Quarantined(db, f, read).found[f].current = db.found[f].current
            BY <1>1, <1>2, QuarantinedRows
        <3>2. /\ Restored(db, f, file, read).found[f] # None
              /\ Restored(db, f, file, read).found[f].current = db.found[f].current
            BY <1>1, <1>2, <1>8, RestoredBeside
        <3> QED
            BY <1>3, <3>1, <3>2
    <2>7. home[p] = Absent => ~db'.base[p].active
        <3>1. file # Absent
            BY <1>1, FileType
        <3>2. home[p] = Absent => pc[r] = "took"
            BY <2>3, <3>1
        <3>3. Quarantined(db, f, read).base[p] = Retired(db.base[p])
            BY <1>1, <1>2, <1>7, <2>5, QuarantinedRows
        <3>4. db.base[p] \in Baseline
            BY <1>2, <2>5 DEF Tables
        <3> QED
            BY <1>3, <3>2, <3>3, <3>4, RetiredType
    <2>8. ASSUME home[p] # Absent, home[p].sha = db'.found[f].current
          PROVE  Claims(db'.base[p]) = home[p]
        <3>1. pc[r] # "took" /\ home[p] = file
            BY <2>3, <2>8
        <3>2. pc[r] = "put" /\ db' = Restored(db, f, file, read)
            BY <1>1, <1>3, <3>1
        <3>3. db.found[f].current = file.sha /\ file.sha # Absent
            BY <1>1, <2>6, <2>8, <3>1, FileType, ScanAssumption
        <3>4. read.base # None /\ read.base = db.base[f[2]]
            BY <1>7, <1>9, <2>2, <2>5, <3>2, <3>3
        <3>5. Claims(Restored(db, f, file, read).base[f[2]]) = file
            BY <1>1, <1>2, <1>8, <3>3, <3>4, RestoredClaims
        <3> QED
            BY <1>7, <3>1, <3>2, <3>5
    <2> QED
        BY <1>1, <1>2, <1>7, <2>2, <2>4, <2>6, <2>7, <2>8, ScanAssumption DEF OwnOK
<1> QED
    BY <1>6, <1>7

LEMMA OwnStep ==
    ASSUME Inv, QuietInv, OwnInv, [Next]_vars, NEW p \in Paths PROVE OwnOK(p)'
<1>1. OwnOK(p) /\ Book(db)'
    BY BookStep DEF OwnInv
<1>2. ASSUME NEW o \in Sessions, NEW how \in {"done", "failed"}, End(o, how),
             UNCHANGED <<home, db, own>>
      PROVE  OwnOK(p)'
    <2>1. \A q \in Remedies : Running(q)' => pc'[q] = pc[q] /\ target'[q] = target[q]
        BY <1>2, EndRemedies
    <2>2. \A q \in Remedies : Running(q)' => Running(q) /\ At(q)' = At(q)
        BY <2>1 DEF Running, At
    <2> QED
        BY <1>1, <1>2, <2>2, OwnFrame
<1>3. ASSUME NEW s \in Scans, Scan(s) PROVE OwnOK(p)'
    <2>1. CASE Conflict(s)
        BY <1>2, <2>1 DEF Conflict, Sessions
    <2>2. CASE Commit(s)
        BY <1>1, <2>2, CommitOwn
    <2>3. CASE ~(Conflict(s) \/ Commit(s))
        <3>1. /\ \A q \in Remedies : pc'[q] = pc[q] /\ target'[q] = target[q]
              /\ UNCHANGED <<home, db, own>>
            BY <1>3, <2>3, ScanRemedies DEF Scan
        <3>2. \A q \in Remedies : Running(q)' => Running(q) /\ At(q)' = At(q)
            BY <3>1 DEF Running, At
        <3> QED
            BY <1>1, <3>1, <3>2, OwnFrame
    <2> QED
        BY <2>1, <2>2, <2>3
<1>4. ASSUME NEW q \in Remedies, Take(q) PROVE OwnOK(p)'
    <2>1. PICK f \in Reports :
            /\ target' = [target EXCEPT ![q] = [finding |-> f, file |-> home[f[2]]]]
            /\ home' = [home EXCEPT ![f[2]] = Absent]
            /\ Touch(q, f[2])
        BY <1>4 DEF Take
    <2>2. UNCHANGED db /\ pc' = [pc EXCEPT ![q] = "took"]
        BY <1>4 DEF Take, rows
    <2> QED
        BY <1>1, <2>1, <2>2, MoveOwn
<1>5. ASSUME NEW q \in Remedies, Put(q) PROVE OwnOK(p)'
    <2>1. PICK f \in Reports :
            /\ target' = [target EXCEPT ![q] = [finding |-> f, file |-> stash[f]]]
            /\ home' = [home EXCEPT ![f[2]] = stash[f]]
            /\ Touch(q, f[2])
        BY <1>5 DEF Put
    <2>2. UNCHANGED db /\ pc' = [pc EXCEPT ![q] = "put"]
        BY <1>5 DEF Put, rows
    <2> QED
        BY <1>1, <2>1, <2>2, MoveOwn
<1>6. ASSUME NEW q \in Remedies, Settle(q) PROVE OwnOK(p)'
    BY <1>6, SettleOwn
<1>10. ASSUME NEW q \in Remedies, Compare(q) PROVE OwnOK(p)'
    <2>1. UNCHANGED <<home, db, pc, target, own>>
        BY <1>10 DEF Compare, rows
    <2>2. \A r \in Remedies : Running(r)' = Running(r) /\ At(r)' = At(r)
        BY <2>1 DEF Running, At
    <2> QED
        BY <1>1, <2>1, <2>2, OwnFrame
<1>7. ASSUME NEW s \in Sessions, Die(s) PROVE OwnOK(p)'
    BY <1>2, <1>7 DEF Die
<1>8. CASE OwnerEdit
    <2>1. PICK q \in Paths, file \in Files \cup {Absent} :
            home' = [home EXCEPT ![q] = file] /\ Touch(None, q)
        BY <1>8 DEF OwnerEdit
    <2>2. UNCHANGED <<db, pc, target>>
        BY <1>8 DEF OwnerEdit, rows
    <2>3. own'[p] # None => own'[p] = own[p] /\ home'[p] = home[p]
        BY <2>1 DEF Touch, Inv, TypeOK
    <2>4. \A r \in Remedies : Running(r)' = Running(r) /\ At(r)' = At(r)
        BY <2>2 DEF Running, At
    <2> QED
        BY <1>1, <2>2, <2>3, <2>4, OwnFrame
<1>9. CASE UNCHANGED vars
    <2>1. \A r \in Remedies : Running(r)' = Running(r) /\ At(r)' = At(r)
        BY <1>9 DEF Running, At, vars
    <2> QED
        BY <1>1, <1>9, <2>1, OwnFrame DEF vars, rows
<1> QED
    BY <1>3, <1>4, <1>5, <1>6, <1>7, <1>8, <1>9, <1>10 DEF Next, Remedy

LEMMA OwnNext ==
    Inv /\ QuietInv /\ OwnInv /\ [Next]_vars => Inv' /\ QuietInv' /\ OwnInv'
BY QuietNext, SeenStep, BookStep, LoneStep, OwnStep DEF OwnInv

LEMMA OwnUnreportedStep ==
    ASSUME Inv, QuietInv, OwnInv, [Next]_vars, NEW s \in quiet, Commits(s),
           NEW p \in Paths, own[p] # None,
           home[p] = Absent \/ home[p].sha = db.found[own[p]].current
    PROVE  db'.found[<<s, p>>] = None
<1>1. OwnOK(p) /\ Book(db)
    BY DEF OwnInv
<1>2. Hashed(p, home[p]) = home[p]
    BY <1>1, OwnHashed
<1>3. Claims(db.base[p]) = home[p]
    <2>1. CASE home[p] = Absent
        BY <1>1, <2>1 DEF OwnOK, Claims
    <2>2. CASE home[p] # Absent
        BY <1>1, <2>2 DEF OwnOK
    <2> QED
        BY <2>1, <2>2
<1> QED
    BY <1>2, <1>3, ContractStep

(* A quarantine or a restore that nothing overlapped is not reported by the    *)
(* next undisturbed scan.                                                      *)
THEOREM OwnMovesQuiet == Spec => OwnMovesUnreported
<1>1. Init => QuietInv
    BY QuietInit DEF QuietInv
<1>2. Inv /\ QuietInv /\ OwnInv /\ [Next]_vars
      => [\A s \in quiet : Commits(s) =>
            \A p \in Paths :
                own[p] # None /\ (home[p] = Absent
                                  \/ home[p].sha = db.found[own[p]].current)
                    => db'.found[<<s, p>>] = None]_vars
    BY OwnUnreportedStep
<1> QED
    BY <1>1, <1>2, InitInv, OwnInit, OwnNext, PTL DEF Spec, OwnMovesUnreported

================================================================================
