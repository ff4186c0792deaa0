------------------------ MODULE RemediationBatchProofs -------------------------
(* Theorems about Remediation whose sessions may overlap: what a transaction  *)
(* that quarantines does to baselines, and how much the auto-quarantine job   *)
(* quarantines.                                                               *)
EXTENDS RemediationSerialProofs, FiniteSetTheorems

(* An acknowledgement that overlaps another session may write back a state    *)
(* that session has left behind.                                              *)
NoStaleAck == Overlap => "acknowledge" \notin Requests

(* An acknowledgement about to write has the state that its merge read.       *)
AckInv ==
    \A s \in Sessions :
       pc[s] = "write" /\ job[s].op = "acknowledge" => ent[s].state = seen[s].row.state

NoAck == \A s \in Sessions : job[s].op # "acknowledge"

(* Where a session's operation comes from.                                    *)
LEMMA OperationOf ==
    ASSUME TypeInv, NEW s \in Sessions, Work(s)
    PROVE  job'[s].op \in {job[s].op, None} \cup Requests
<1>1. ASSUME NEW op \in Operations, NEW f \in Findings, Request(s, op, f)
      PROVE  job'[s].op \in Requests
    BY <1>1 DEF Request, TypeInv, TypeOK
<1>2. CASE AutoRun(s)
    BY <1>2, AutoRunJob DEF AutoRun
<1>3. End(s) => job'[s].op = None
    BY DEF End, NoJob, TypeInv, TypeOK
<1>4. CASE Load(s) \/ Raise(s) \/ Commit(s) \/ Die(s)
    BY <1>3, <1>4 DEF Load, Raise, Commit, Die, local
<1>5. CASE AutoNext(s) \/ AutoTrip(s)
    BY <1>5, AutoNextJob, AutoTripJob
<1>6. CASE \/ Check(s) \/ MkDir(s) \/ Move(s) \/ WriteSidecar(s) \/ Locate(s)
           \/ PutBack(s) \/ Clear(s) \/ Purge(s)
    BY <1>6, DiskStep
<1>7. CASE Merge(s) \/ Write(s) \/ RecordFailure(s) \/ AutoFinish(s)
    BY <1>7 DEF Merge, Write, RecordFailure, AutoFinish, local
<1> QED
    BY <1>1, <1>2, <1>4, <1>5, <1>6, <1>7 DEF Work, Step

LEMMA NoAckStep ==
    ASSUME "acknowledge" \notin Requests
    PROVE  TypeInv /\ NoAck /\ [Next]_vars => NoAck'
<1> SUFFICES ASSUME TypeInv, NoAck, [Next]_vars PROVE NoAck'
    OBVIOUS
<1>1. CASE Outside \/ UNCHANGED vars
    BY <1>1 DEF Outside, OwnerEdit, local, vars, NoAck
<1>2. ASSUME NEW s \in Sessions, Work(s) PROVE NoAck'
  <2>1. job'[s].op # "acknowledge"
    BY <1>2, OperationOf, SentinelAssumption DEF NoAck, Operations
  <2> QED
    BY <1>2, <2>1, Frame DEF NoAck
<1> QED
    BY <1>1, <1>2, NextCases

(* Alone, a session merges the row it loaded; and without acknowledgements    *)
(* there is nothing to show.                                                  *)
LEMMA AckAlways ==
    ASSUME NoStaleAck
    PROVE  Spec => []AckInv
<1>1. CASE ~Overlap
  <2>1. Serial => AckInv
    BY DEF Serial, SerialInv, AckInv
  <2> QED
    BY <1>1, <2>1, SerialAlways, PTL
<1>2. CASE "acknowledge" \notin Requests
  <2>1. Init => NoAck
    BY SentinelAssumption DEF Init, NoAck, NoJob, Operations
  <2>2. TypeInv /\ NoAck /\ [Next]_vars => NoAck'
    BY <1>2, NoAckStep
  <2>3. NoAck => AckInv
    BY DEF NoAck, AckInv
  <2> QED
    BY <2>1, <2>2, <2>3, TypeInvAlways, PTL DEF Spec
<1> QED
    BY <1>1, <1>2 DEF NoStaleAck

--------------------------------------------------------------------------------
(* What a step does to the rows.                                              *)

(* Write changes the state of one finding, to the outcome of its operation.   *)
LEMMA WriteRows ==
    ASSUME TypeInv, AckInv, NEW s \in Sessions, Write(s)
    PROVE  LET op == job[s].op
               g == job[s].cur
               old == View(s)
           IN  /\ pc[s] = "write" /\ op \in Operations /\ g \in Findings
               /\ pc'[s] = IF op = "auto" THEN "next" ELSE "commit"
               /\ \A f \in Findings \ {g} : draft'.finding[f] = old.finding[f]
               /\ \/ draft'.finding[g].state = old.finding[g].state
                  \/ op # "acknowledge" /\ draft'.finding[g].state = Outcome[op]
               /\ \A p \in Paths \ {PathOf[g]} : draft'.baseline[p] = old.baseline[p]
               /\ op \in {"quarantine", "auto"} => ~draft'.baseline[PathOf[g]].active
               /\ draft'.alert = old.alert
               /\ writer \in {None, s} /\ writer' = s
               /\ UNCHANGED <<db, job, ent, seen, dir>>
<1> DEFINE op == job[s].op
           g == job[s].cur
           p == PathOf[g]
           old == View(s)
           new == Changed(op, ent[s], dir[s])
           row == MergedRow(new, ReadOf(s, old.finding[g]), old.finding[g])
           base == ChangedBaseline(op, g, seen[s].baseline, old.baseline[p])
<1>1. /\ pc[s] = "write" /\ op \in Operations /\ g \in Findings /\ p \in Paths
      /\ old \in Tables
    BY ViewType, DataAssumption DEF Write, At, TypeInv, JobOK, OnFinding, Steps
<1>2. /\ draft' = [finding  |-> [old.finding EXCEPT ![g] = row],
                   baseline |-> [old.baseline EXCEPT ![p] = base],
                   audit    |-> old.audit \cup AuditOf(op, g, "SUCCEEDED"),
                   alert    |-> old.alert]
      /\ pc' = [pc EXCEPT ![s] = IF op = "auto" THEN "next" ELSE "commit"]
      /\ writer \in {None, s} /\ writer' = s
      /\ UNCHANGED <<db, job, ent, seen, dir>>
    BY <1>1 DEF Write, Lock, Goto, local, Tables
<1>3. /\ \A f \in Findings : draft'.finding[f] = IF f = g THEN row ELSE old.finding[f]
      /\ \A q \in Paths : draft'.baseline[q] = IF q = p THEN base ELSE old.baseline[q]
      /\ draft'.alert = old.alert
    BY <1>1, <1>2 DEF Tables
<1>4. row.state = Column(new.state, ReadOf(s, old.finding[g]).state, old.finding[g].state)
    BY DEF MergedRow
<1>5. CASE op = "acknowledge"
  <2>1. new.state = ent[s].state /\ ReadOf(s, old.finding[g]) = seen[s].row
    BY <1>5 DEF Changed, ReadOf
  <2>2. row.state = old.finding[g].state
    BY <1>1, <1>4, <1>5, <2>1 DEF AckInv, Column
  <2> QED
    BY <1>1, <1>2, <1>3, <1>5, <2>2 DEF TypeInv, TypeOK
<1>6. CASE op # "acknowledge"
  <2>1. new.state = Outcome[op]
    BY <1>6 DEF Changed
  <2>2. row.state \in {Outcome[op], old.finding[g].state}
    BY <1>4, <2>1 DEF Column
  <2>3. op \in {"quarantine", "auto"} => ~base.active
    BY <1>1 DEF ChangedBaseline, Tables, Baseline
  <2> QED
    BY <1>1, <1>2, <1>3, <1>6, <2>2, <2>3 DEF TypeInv, TypeOK
<1> QED
    BY <1>5, <1>6

(* A failure and a circuit-breaker event leave findings and baselines alone.  *)
Notes(s) ==
    /\ writer \in {None, s} /\ writer' = s /\ db' = db
    /\ draft'.finding = View(s).finding
    /\ draft'.baseline = View(s).baseline
    /\ View(s).alert \subseteq draft'.alert

(* The session commits its draft, or it is rolled back.                       *)
Commits(s) == pc[s] = "commit" /\ writer = s /\ writer' = None /\ db' = draft /\ draft' = draft
RollsBack(s) == writer = s /\ writer' = None /\ db' = db /\ draft' = db

LEMMA NotesOf ==
    ASSUME TypeInv, NEW s \in Sessions, RecordFailure(s) \/ AutoTrip(s)
    PROVE  Notes(s)
<1>1. View(s) \in Tables
    BY ViewType DEF TypeInv
<1>2. CASE RecordFailure(s)
    BY <1>1, <1>2 DEF RecordFailure, Lock, Notes, Tables
<1>3. CASE AutoTrip(s)
    BY <1>1, <1>3, AutoTripJob DEF Lock, Notes, Tables
<1> QED
    BY <1>2, <1>3

LEMMA RowsCases ==
    ASSUME TypeInv, LockInv, NEW s \in Sessions, Work(s)
    PROVE  UNCHANGED rows \/ Write(s) \/ Notes(s) \/ Commits(s) \/ RollsBack(s)
<1>1. CASE \/ \E op \in Operations, f \in Findings : Request(s, op, f)
           \/ AutoRun(s) \/ Load(s) \/ Merge(s) \/ AutoNext(s) \/ AutoFinish(s)
    BY <1>1 DEF Request, AutoRun, Load, Merge, AutoNext, AutoFinish
<1>2. CASE \/ Check(s) \/ MkDir(s) \/ Move(s) \/ WriteSidecar(s) \/ Locate(s)
           \/ PutBack(s) \/ Clear(s) \/ Purge(s)
    BY <1>2, DiskStep
<1>3. CASE RecordFailure(s) \/ AutoTrip(s)
    BY <1>3, NotesOf
<1>4. CASE Raise(s)
    BY <1>4 DEF Raise, At, LockInv, RollsBack
<1>5. CASE Commit(s)
    BY <1>5 DEF Commit, At, rows, Commits
<1>6. CASE Die(s)
    BY <1>6 DEF Die, rows, RollsBack
<1> QED
    BY <1>1, <1>2, <1>3, <1>4, <1>5, <1>6 DEF Work, Step

(* How a draft may be ahead of the last commit: it has every alert, no        *)
(* finding of it is back in state NONE, and a finding quarantined in it has   *)
(* an inactive baseline.                                                      *)
Ahead(tables) ==
    /\ db.alert \subseteq tables.alert
    /\ \A f \in Findings :
          /\ tables.finding[f].state = "NONE" => db.finding[f].state = "NONE"
          /\ db.finding[f].state # "QUARANTINED" /\ tables.finding[f].state = "QUARANTINED" =>
                ~tables.baseline[PathOf[f]].active

(* A request's draft differs from the last commit in its finding at most.     *)
OneFinding(s) ==
    \A f \in Findings : f = job[s].cur \/ draft.finding[f] = db.finding[f]

RowsInv ==
    /\ Ahead(draft)
    /\ \A s \in Sessions : writer = s /\ job[s].op # "auto" => OneFinding(s)

LEMMA InitRows == Init => RowsInv
BY SentinelAssumption DEF Init, RowsInv, Ahead, OneFinding

LEMMA ViewAhead == ASSUME RowsInv, NEW s PROVE Ahead(View(s))
BY DEF RowsInv, Ahead, View

(* A request that writes sees the last commit: it does not hold the lock yet. *)
LEMMA FirstWrite ==
    ASSUME HolderInv, NEW s \in Sessions, job[s].op # "auto", pc[s] \in {"write", "fail"}
    PROVE  View(s) = db
BY DEF HolderInv, Writing, View

LEMMA AheadWrite ==
    ASSUME TypeInv, HolderInv, AckInv, RowsInv, NEW s \in Sessions, Write(s)
    PROVE  Ahead(draft)'
<1> DEFINE op == job[s].op
           g == job[s].cur
           old == View(s)
<1>1. /\ pc[s] = "write" /\ op \in Operations /\ g \in Findings
      /\ \A f \in Findings \ {g} : draft'.finding[f] = old.finding[f]
      /\ \/ draft'.finding[g].state = old.finding[g].state
         \/ op # "acknowledge" /\ draft'.finding[g].state = Outcome[op]
      /\ \A p \in Paths \ {PathOf[g]} : draft'.baseline[p] = old.baseline[p]
      /\ op \in {"quarantine", "auto"} => ~draft'.baseline[PathOf[g]].active
      /\ draft'.alert = old.alert
      /\ db' = db
    BY WriteRows
<1>2. Ahead(old)
    BY ViewAhead
<1>3. op # "acknowledge" =>
         /\ Outcome[op] # "NONE"
         /\ Outcome[op] = "QUARANTINED" => op \in {"quarantine", "auto"}
    BY <1>1 DEF Outcome, Operations
<1>4. ASSUME NEW f \in Findings, draft'.finding[f].state = "NONE"
      PROVE  db.finding[f].state = "NONE"
    BY <1>1, <1>2, <1>3, <1>4 DEF Ahead
<1>5. ASSUME NEW f \in Findings, db.finding[f].state # "QUARANTINED",
             draft'.finding[f].state = "QUARANTINED"
      PROVE  ~draft'.baseline[PathOf[f]].active
  <2>1. CASE op \in {"quarantine", "auto"} /\ PathOf[f] = PathOf[g]
    BY <1>1, <2>1
  <2>2. CASE op \in {"quarantine", "auto"} /\ PathOf[f] # PathOf[g]
    <3>1. draft'.finding[f] = old.finding[f] /\ draft'.baseline[PathOf[f]] = old.baseline[PathOf[f]]
      BY <1>1, <2>2, DataAssumption
    <3> QED
      BY <1>2, <1>5, <3>1 DEF Ahead
  <2>3. CASE op \notin {"quarantine", "auto"}
    <3>1. old = db
      BY <1>1, <2>3, FirstWrite
    <3>2. draft'.finding[f].state = db.finding[f].state
      BY <1>1, <1>3, <1>5, <2>3, <3>1
    <3> QED
      BY <1>5, <3>2
  <2> QED
    BY <2>1, <2>2, <2>3
<1> QED
    BY <1>1, <1>2, <1>4, <1>5 DEF Ahead

LEMMA AheadStep ==
    ASSUME TypeInv, LockInv, HolderInv, AckInv, RowsInv, NEW s \in Sessions, Work(s)
    PROVE  Ahead(draft)'
<1>1. CASE UNCHANGED rows
    BY <1>1 DEF rows, RowsInv, Ahead
<1>2. CASE Write(s)
    BY <1>2, AheadWrite
<1>3. CASE Notes(s)
  <2>1. Ahead(View(s))
    BY ViewAhead
  <2> QED
    BY <1>3, <2>1 DEF Notes, Ahead
<1>4. CASE Commits(s) \/ RollsBack(s)
  <2>1. draft' = db'
    BY <1>4 DEF Commits, RollsBack
  <2> QED
    BY <2>1 DEF Ahead
<1> QED
    BY <1>1, <1>2, <1>3, <1>4, RowsCases

(* Only a request that has just written or failed begins to hold the lock for *)
(* its commit or its rollback.                                                *)
LEMMA RequestWrites ==
    ASSUME TypeInv, StepInv, LockInv, HolderInv, HolderInv', NEW s \in Sessions, Work(s),
           writer' = s, job'[s].op # "auto"
    PROVE  Write(s) \/ RecordFailure(s)
<1>1. pc'[s] \in {"commit", "raise"}
    BY DEF HolderInv, Writing
<1>2. ~(Raise(s) \/ Commit(s) \/ Die(s))
    BY <1>1 DEF Raise, Commit, Die, End, Goto, TypeInv, TypeOK
<1>3. ~((\E op \in Operations, f \in Findings : Request(s, op, f)) \/ AutoRun(s) \/ Merge(s))
    BY <1>1, AutoRunJob DEF Request, Merge, Goto, TypeInv, TypeOK
<1>4. ~Load(s)
  <2>1. ASSUME Load(s) PROVE job[s].op \in Operations
    BY <2>1 DEF Load, At, TypeInv, JobOK, OnFinding, Steps
  <2> QED
    BY <1>1, <2>1 DEF Load, End, Goto, FirstStep, Operations, TypeInv, TypeOK
<1>5. ~(AutoNext(s) \/ AutoTrip(s))
    BY <1>1, AutoNextJob, AutoTripJob
<1>6. ~AutoFinish(s)
    BY DEF AutoFinish, At, local, StepInv, StepOK
<1>7. ~(\/ Check(s) \/ MkDir(s) \/ Move(s) \/ WriteSidecar(s) \/ Locate(s)
        \/ PutBack(s) \/ Clear(s) \/ Purge(s))
    BY <1>1, DiskStep DEF Loaded, OnFinding
<1> QED
    BY <1>2, <1>3, <1>4, <1>5, <1>6, <1>7 DEF Work, Step

LEMMA OneFindingWrite ==
    ASSUME TypeInv, HolderInv, AckInv, NEW s \in Sessions, Write(s) \/ RecordFailure(s),
           job'[s].op # "auto"
    PROVE  OneFinding(s)'
<1>1. CASE Write(s)
  <2>1. /\ pc[s] = "write" /\ UNCHANGED <<db, job>>
        /\ \A f \in Findings \ {job[s].cur} : draft'.finding[f] = View(s).finding[f]
    BY <1>1, WriteRows
  <2>2. View(s) = db
    BY <2>1, FirstWrite
  <2> QED
    BY <2>1, <2>2 DEF OneFinding
<1>2. CASE RecordFailure(s)
  <2>1. pc[s] = "fail" /\ UNCHANGED <<db, job>> /\ draft'.finding = View(s).finding
    BY <1>2, NotesOf DEF RecordFailure, At, local, Notes
  <2>2. View(s) = db
    BY <2>1, FirstWrite
  <2> QED
    BY <2>1, <2>2 DEF OneFinding
<1> QED
    BY <1>1, <1>2

LEMMA RowsInvStep ==
    TypeInv /\ StepInv /\ LockInv /\ HolderInv /\ AckInv /\ RowsInv /\ [Next]_vars => RowsInv'
<1> SUFFICES ASSUME TypeInv, StepInv, LockInv, HolderInv, AckInv, RowsInv, [Next]_vars
             PROVE  RowsInv'
    OBVIOUS
<1>1. CASE Outside \/ UNCHANGED vars
    BY <1>1 DEF Outside, OwnerEdit, rows, local, vars, RowsInv, Ahead, OneFinding
<1>2. ASSUME NEW s \in Sessions, Work(s) PROVE RowsInv'
  <2>1. ASSUME NEW t \in Sessions, writer' = t, job'[t].op # "auto", t # s
        PROVE  OneFinding(t)'
    <3>1. job'[t] = job[t]
      BY <1>2, <2>1, Frame
    <3>2. UNCHANGED rows
      BY <1>2, <2>1, RowsCases, WriteRows, SentinelAssumption DEF Notes, Commits, RollsBack
    <3> QED
      BY <2>1, <3>1, <3>2 DEF RowsInv, OneFinding, rows
  <2>2. ASSUME writer' = s, job'[s].op # "auto" PROVE OneFinding(s)'
    BY <1>2, <2>2, HolderInvStep, RequestWrites, OneFindingWrite
  <2> QED
    BY <1>2, <2>1, <2>2, AheadStep DEF RowsInv
<1> QED
    BY <1>1, <1>2, NextCases

Ledger == TypeInv /\ StepInv /\ LockInv /\ HolderInv /\ AckInv /\ RowsInv

LEMMA LedgerAlways ==
    ASSUME NoStaleAck
    PROVE  Spec => []Ledger
<1>1. Init => TypeInv /\ StepInv /\ LockInv /\ HolderInv /\ RowsInv
    BY InitTypeInv, InitStepInv, InitLock, InitHolder, InitRows
<1>2. TypeInv /\ [Next]_vars => TypeInv'
    BY TypeInvStep
<1>3. TypeInv /\ StepInv /\ [Next]_vars => StepInv'
    BY StepInvStep
<1>4. TypeInv /\ LockInv /\ [Next]_vars => LockInv'
    BY LockStep
<1>5. TypeInv /\ StepInv /\ HolderInv /\ [Next]_vars => HolderInv'
    BY HolderInvStep
<1>6. TypeInv /\ StepInv /\ LockInv /\ HolderInv /\ AckInv /\ RowsInv /\ [Next]_vars => RowsInv'
    BY RowsInvStep
<1>7. Spec => []AckInv
    BY AckAlways
<1> QED
    BY <1>1, <1>2, <1>3, <1>4, <1>5, <1>6, <1>7, PTL DEF Spec, Ledger

(* The commit that quarantines a finding leaves its baseline inactive, unless *)
(* acknowledgements overlap other sessions: the next scan does not report     *)
(* Sentinel's own move as a deletion.                                         *)
THEOREM BaselineRetired ==
    ASSUME NoStaleAck
    PROVE  Spec => QuarantineRetiresBaseline
<1> DEFINE Retires ==
        \A f \in Findings :
           db.finding[f].state # "QUARANTINED" /\ db'.finding[f].state = "QUARANTINED" =>
              ~db'.baseline[PathOf[f]].active
<1>1. Ledger /\ [Next]_vars => [Retires]_db
  <2> SUFFICES ASSUME Ledger, [Next]_vars, db' # db PROVE Retires
      OBVIOUS
  <2>1. db' = draft
    BY OnlyCommit
  <2> QED
    BY <2>1 DEF Ledger, RowsInv, Ahead
<1> QED
    BY <1>1, LedgerAlways, PTL DEF Spec, QuarantineRetiresBaseline

--------------------------------------------------------------------------------
(* The batch of the auto-quarantine job.  Lot is what the run has quarantined *)
(* and may still quarantine: it never grows.  What of an account is not in it *)
(* any more, or never was, is told of by an event, or the account has had     *)
(* less than its cap.                                                         *)

Caught(s) ==
    {f \in Findings : /\ db.finding[f].state = "NONE"
                      /\ View(s).finding[f].state = "QUARANTINED"}

Hand(s) == IF pc[s] \in OnFinding THEN {job[s].cur} ELSE {}
Left(s) == job[s].todo \cup Hand(s)
Lot(s) == Caught(s) \cup Left(s)

Open(s) == {f \in Critical : View(s).finding[f].state = "NONE"}
Told(s) == job[s].over \cup View(s).alert

Counted(s, a) ==
    /\ Cardinality(OfAccount(Lot(s), a)) <= Cap
    /\ \/ a \in Told(s)
       \/ OfAccount(Open(s), a) \subseteq Left(s)
       \/ Cardinality(OfAccount(Lot(s), a)) < Cap

BatchOK(s) ==
    /\ Hand(s) \cap job[s].todo = {}
    /\ \A a \in Accounts : Counted(s, a)
    /\ pc[s] = "commit" => job[s].todo = {} /\ job[s].over = {}

BatchInv == \A s \in Sessions : job[s].op = "auto" => BatchOK(s)

LEMMA InitBatch == Init => BatchInv
BY SentinelAssumption DEF Init, BatchInv, NoJob, Operations

LEMMA LotType ==
    ASSUME TypeInv, NEW s \in Sessions
    PROVE  Lot(s) \subseteq Findings
BY DEF Lot, Caught, Left, Hand, TypeInv, TypeOK, JobOK, Job

(* Fewer findings, and fewer of an account.                                   *)
LEMMA OfAccountCount ==
    ASSUME NEW F \in SUBSET Findings, NEW G \in SUBSET F, NEW a
    PROVE  /\ Cardinality(OfAccount(F, a)) \in Nat
           /\ Cardinality(OfAccount(G, a)) \in Nat
           /\ Cardinality(OfAccount(G, a)) <= Cardinality(OfAccount(F, a))
           /\ OfAccount(G, a) # OfAccount(F, a) =>
                 Cardinality(OfAccount(G, a)) < Cardinality(OfAccount(F, a))
<1>1. OfAccount(G, a) \subseteq OfAccount(F, a) /\ OfAccount(F, a) \subseteq Findings
    BY DEF OfAccount
<1>2. IsFiniteSet(OfAccount(F, a))
    BY <1>1, TableAssumption, FS_Subset
<1>3. /\ IsFiniteSet(OfAccount(G, a))
      /\ Cardinality(OfAccount(G, a)) <= Cardinality(OfAccount(F, a))
      /\ Cardinality(OfAccount(F, a)) = Cardinality(OfAccount(G, a)) =>
            OfAccount(F, a) = OfAccount(G, a)
    BY <1>1, <1>2, FS_Subset
<1>4. Cardinality(OfAccount(F, a)) \in Nat /\ Cardinality(OfAccount(G, a)) \in Nat
    BY <1>2, <1>3, FS_CardinalityType
<1> QED
    BY <1>3, <1>4

(* A step that adds nothing to the lot, and drops from what is left only      *)
(* findings that are not open or leave the lot.                               *)
LEMMA BatchKept ==
    ASSUME TypeInv, NEW s \in Sessions, BatchOK(s), NEW D,
           Lot(s)' \subseteq Lot(s), Open(s)' \subseteq Open(s),
           Told(s) \subseteq Told(s)', Left(s) \subseteq Left(s)' \cup D,
           \A f \in D : f \in Open(s)' => f \in Lot(s) /\ f \notin Lot(s)'
    PROVE  \A a \in Accounts : Counted(s, a)'
<1> SUFFICES ASSUME NEW a \in Accounts PROVE Counted(s, a)'
    OBVIOUS
<1> DEFINE n == Cardinality(OfAccount(Lot(s), a))
           m == Cardinality(OfAccount(Lot(s)', a))
<1>1. /\ n \in Nat /\ m \in Nat /\ m <= n
      /\ OfAccount(Lot(s)', a) # OfAccount(Lot(s), a) => m < n
    BY LotType, OfAccountCount
<1>2. /\ n <= Cap
      /\ a \in Told(s) \/ OfAccount(Open(s), a) \subseteq Left(s) \/ n < Cap
    BY DEF BatchOK, Counted
<1>3. Cap \in Nat
    BY ProcessAssumption
<1>4. CASE OfAccount(Open(s), a) \subseteq Left(s) /\ ~(OfAccount(Open(s)', a) \subseteq Left(s)')
  <2>1. PICK f \in OfAccount(Open(s)', a) : f \notin Left(s)'
    BY <1>4
  <2>2. f \in OfAccount(Open(s), a) /\ f \in Open(s)'
    BY <2>1 DEF OfAccount
  <2>3. f \in D
    BY <1>4, <2>1, <2>2
  <2>4. f \in Lot(s) /\ f \notin Lot(s)'
    BY <2>2, <2>3
  <2>5. OfAccount(Lot(s)', a) # OfAccount(Lot(s), a)
    BY <2>2, <2>4 DEF OfAccount
  <2> QED
    BY <1>1, <1>2, <1>3, <2>5 DEF Counted
<1>5. CASE ~(OfAccount(Open(s), a) \subseteq Left(s)) \/ OfAccount(Open(s)', a) \subseteq Left(s)'
    BY <1>1, <1>2, <1>3, <1>5 DEF Counted
<1> QED
    BY <1>4, <1>5

LEMMA AutoRunBatch ==
    ASSUME TypeInv, HolderInv, NEW s \in Sessions, AutoRun(s)
    PROVE  BatchOK(s)'
<1> DEFINE E == {f \in Critical : db.finding[f].state = "NONE"}
<1>1. PICK B \in SUBSET E :
         /\ Batch(E, B)
         /\ job' = [job EXCEPT ![s] =
               [op |-> "auto", cur |-> None, todo |-> B,
                over |-> {a \in Accounts : OfAccount(E \ B, a) # {}}]]
    BY DEF AutoRun
<1>2. /\ job'[s].todo = B
      /\ job'[s].over = {a \in Accounts : OfAccount(E \ B, a) # {}}
      /\ pc'[s] = "next" /\ UNCHANGED rows
    BY <1>1 DEF AutoRun, Goto, TypeInv, TypeOK
<1>3. View(s)' = db
  <2>1. writer # s
    BY DEF AutoRun, MayStart, At, HolderInv, Rest
  <2> QED
    BY <1>2, <2>1 DEF View, rows
<1>4. Hand(s)' = {} /\ Left(s)' = B
    BY <1>2 DEF Hand, Left, OnFinding
<1>5. Lot(s)' = B
  <2>1. Caught(s)' = {}
    BY <1>2, <1>3 DEF Caught, rows
  <2> QED
    BY <1>4, <2>1 DEF Lot
<1>6. Open(s)' = E
    BY <1>3 DEF Open
<1>7. ASSUME NEW a \in Accounts PROVE Counted(s, a)'
  <2> DEFINE n == Cardinality(OfAccount(E, a))
  <2>1. Cardinality(OfAccount(B, a)) = IF n < Cap THEN n ELSE Cap
    BY <1>1 DEF Batch
  <2>2. n \in Nat /\ Cap \in Nat
    BY OfAccountCount, DataAssumption, ProcessAssumption
  <2>3. Cardinality(OfAccount(B, a)) <= Cap
    BY <2>1, <2>2
  <2>4. a \in Told(s)' \/ OfAccount(E, a) \subseteq B
    BY <1>2 DEF Told, OfAccount
  <2> QED
    BY <1>4, <1>5, <1>6, <2>3, <2>4 DEF Counted
<1> QED
    BY <1>2, <1>4, <1>7 DEF BatchOK

(* The job's steps that leave the rows and what is left as they are.          *)
LEMMA StayBatch ==
    ASSUME TypeInv, NEW s \in Sessions, BatchOK(s), UNCHANGED rows,
           job'[s].todo = job[s].todo, job'[s].over = job[s].over,
           Hand(s)' = Hand(s), pc'[s] # "commit"
    PROVE  BatchOK(s)'
<1>1. UNCHANGED <<View(s), db>>
    BY DEF View, rows
<1>2. UNCHANGED <<Left(s), Lot(s), Open(s), Told(s)>>
    BY <1>1 DEF Left, Lot, Caught, Open, Told
<1>3. \A a \in Accounts : Counted(s, a)'
    BY <1>2 DEF BatchOK, Counted
<1> QED
    BY <1>3 DEF BatchOK

(* The finding at hand is dropped: its row refuses, its quarantine fails or   *)
(* is recorded.  The step may add to the rows the quarantine of that finding. *)
LEMMA DropBatch ==
    ASSUME TypeInv, NEW s \in Sessions, BatchOK(s), pc[s] \in OnFinding,
           pc'[s] = "next", job'[s] = job[s], db' = db,
           View(s).alert \subseteq View(s)'.alert,
           \A f \in Findings \ {job[s].cur} :
              View(s)'.finding[f].state = View(s).finding[f].state,
           View(s)'.finding[job[s].cur].state \in
              {View(s).finding[job[s].cur].state, "QUARANTINED"}
    PROVE  BatchOK(s)'
<1> DEFINE g == job[s].cur
<1>1. Hand(s) = {g} /\ Hand(s)' = {} /\ g \in Findings
    BY DEF Hand, OnFinding, TypeInv, JobOK
<1>2. Left(s) = job[s].todo \cup {g} /\ Left(s)' = job[s].todo
    BY <1>1 DEF Left
<1>3. g \notin job[s].todo
    BY <1>1 DEF BatchOK
<1>4. Caught(s)' \subseteq Caught(s) \cup {g}
    BY DEF Caught
<1>5. Lot(s)' \subseteq Lot(s)
    BY <1>2, <1>4 DEF Lot
<1>6. Open(s)' \subseteq Open(s)
    BY DataAssumption DEF Open
<1>7. Told(s) \subseteq Told(s)'
    BY DEF Told
<1>8. g \in Lot(s)
    BY <1>2 DEF Lot
<1>9. g \in Open(s)' => g \notin Lot(s)'
    BY <1>2, <1>3 DEF Open, Lot, Caught
<1>10. \A a \in Accounts : Counted(s, a)'
    <2> DEFINE dropped == {g}
    <2>1. Left(s) \subseteq Left(s)' \cup dropped
        BY <1>2
    <2>2. \A f \in dropped : f \in Open(s)' => f \in Lot(s) /\ f \notin Lot(s)'
        BY <1>8, <1>9
    <2> HIDE DEF dropped
    <2> QED
        BY <1>5, <1>6, <1>7, <2>1, <2>2, BatchKept
<1> QED
    BY <1>1, <1>10 DEF BatchOK

LEMMA AutoNextBatch ==
    ASSUME TypeInv, NEW s \in Sessions, BatchOK(s), AutoNext(s)
    PROVE  BatchOK(s)'
<1>1. /\ pc[s] = "next" /\ pc'[s] = "load"
      /\ job'[s].over = job[s].over
      /\ job'[s].cur \in job[s].todo
      /\ job'[s].todo = job[s].todo \ {job'[s].cur}
      /\ UNCHANGED rows
    BY AutoNextJob
<1>2. Hand(s) = {} /\ Hand(s)' = {job'[s].cur}
    BY <1>1 DEF Hand, OnFinding, Steps
<1>3. Left(s)' = Left(s)
    BY <1>1, <1>2 DEF Left
<1>4. UNCHANGED <<View(s), db>>
    BY <1>1 DEF View, rows
<1>5. UNCHANGED <<Lot(s), Open(s), Told(s)>>
    BY <1>1, <1>3, <1>4 DEF Lot, Caught, Open, Told
<1>6. \A a \in Accounts : Counted(s, a)'
    BY <1>3, <1>5 DEF BatchOK, Counted
<1> QED
    BY <1>1, <1>2, <1>6 DEF BatchOK

LEMMA AutoTripBatch ==
    ASSUME TypeInv, NEW s \in Sessions, BatchOK(s), AutoTrip(s)
    PROVE  BatchOK(s)'
<1>1. /\ pc[s] = "next" /\ pc'[s] = "next" /\ Lock(s)
      /\ job'[s].todo = job[s].todo /\ db' = db
    BY AutoTripJob
<1>2. PICK b \in job[s].over :
         /\ job'[s].over = job[s].over \ {b}
         /\ draft' = [View(s) EXCEPT !.alert = @ \cup {b}]
    BY AutoTripJob
<1>3. View(s) \in Tables
    BY ViewType DEF TypeInv
<1>4. View(s)' = draft'
    BY <1>1 DEF Lock, View
<1>5. View(s)'.finding = View(s).finding /\ View(s)'.alert = View(s).alert \cup {b}
    BY <1>2, <1>3, <1>4 DEF Tables
<1>6. Hand(s) = {} /\ Hand(s)' = {}
    BY <1>1 DEF Hand, OnFinding
<1>7. Left(s)' = Left(s)
    BY <1>1, <1>6 DEF Left
<1>8. Lot(s)' = Lot(s) /\ Open(s)' = Open(s)
    BY <1>1, <1>5, <1>7 DEF Lot, Caught, Open
<1>9. Told(s) \subseteq Told(s)'
    BY <1>2, <1>5 DEF Told
<1>10. \A a \in Accounts : Counted(s, a)'
    BY <1>7, <1>8, <1>9 DEF BatchOK, Counted
<1> QED
    BY <1>1, <1>6, <1>10 DEF BatchOK

LEMMA AutoFinishBatch ==
    ASSUME TypeInv, NEW s \in Sessions, BatchOK(s), AutoFinish(s)
    PROVE  BatchOK(s)'
<1>1. /\ pc[s] = "next" /\ pc'[s] = "commit" /\ UNCHANGED <<rows, job>>
      /\ job[s].todo = {} /\ job[s].over = {}
    BY DEF AutoFinish, At, Goto, local, TypeInv, TypeOK
<1>2. UNCHANGED <<View(s), db>>
    BY <1>1 DEF View, rows
<1>3. Hand(s) = {} /\ Hand(s)' = {}
    BY <1>1 DEF Hand, OnFinding
<1>4. UNCHANGED <<Left(s), Lot(s), Open(s), Told(s)>>
    BY <1>1, <1>2, <1>3 DEF Left, Lot, Caught, Open, Told
<1>5. \A a \in Accounts : Counted(s, a)'
    BY <1>4 DEF BatchOK, Counted
<1> QED
    BY <1>1, <1>3, <1>5 DEF BatchOK

(* Another session leaves the job's draft alone.  While the job has none, the *)
(* last commit may change: a finding that has left state NONE stays out of    *)
(* it, and an event stays told.                                               *)
LEMMA OtherBatch ==
    ASSUME Ledger, Ledger', NEW s \in Sessions, NEW t \in Sessions, t # s, Work(t),
           BatchOK(s)
    PROVE  BatchOK(s)'
<1>1. UNCHANGED <<pc[s], job[s]>>
    BY Frame DEF Ledger
<1>2. Hand(s)' = Hand(s) /\ Left(s)' = Left(s)
    BY <1>1 DEF Hand, Left
<1>3. CASE UNCHANGED rows
  <2>1. pc'[s] = "commit" => job[s].todo = {} /\ job[s].over = {}
    BY <1>1 DEF BatchOK
  <2>2. UNCHANGED <<View(s), db>>
    BY <1>3 DEF View, rows
  <2>3. UNCHANGED <<Lot(s), Open(s), Told(s)>>
    BY <1>1, <1>2, <2>2 DEF Lot, Caught, Open, Told
  <2>4. \A a \in Accounts : Counted(s, a)'
    BY <1>2, <2>3 DEF BatchOK, Counted
  <2> QED
    BY <1>1, <1>2, <2>1, <2>4 DEF BatchOK
<1>4. CASE ~UNCHANGED rows
  <2>1. /\ writer \in {None, t} /\ writer' \in {None, t}
        /\ db' = db \/ db' = draft
    BY <1>4, RowsCases, WriteRows DEF Ledger, Notes, Commits, RollsBack
  <2>2. View(s) = db /\ View(s)' = db'
    BY <2>1, SentinelAssumption DEF View
  <2>3. /\ db.alert \subseteq db'.alert
        /\ \A f \in Findings : db'.finding[f].state = "NONE" => db.finding[f].state = "NONE"
    BY <2>1 DEF Ledger, RowsInv, Ahead
  <2>4. Caught(s) = {} /\ Caught(s)' = {}
    BY <2>2 DEF Caught
  <2>5. Lot(s)' = Lot(s)
    BY <1>2, <2>4 DEF Lot
  <2>6. Open(s)' \subseteq Open(s) /\ Told(s) \subseteq Told(s)'
    BY <1>1, <2>2, <2>3, DataAssumption DEF Open, Told
  <2> DEFINE dropped == {}
  <2>7. TypeInv /\ Lot(s)' \subseteq Lot(s) /\ Left(s) \subseteq Left(s)' \cup dropped
    BY <1>2, <2>5 DEF Ledger
  <2>8. \A f \in dropped : f \in Open(s)' => f \in Lot(s) /\ f \notin Lot(s)'
    OBVIOUS
  <2> HIDE DEF dropped
  <2>9. \A a \in Accounts : Counted(s, a)'
    BY <2>6, <2>7, <2>8, BatchKept
  <2> QED
    BY <1>1, <1>2, <2>9 DEF BatchOK
<1> QED
    BY <1>3, <1>4

LEMMA OwnBatch ==
    ASSUME Ledger, Ledger', NEW s \in Sessions, Work(s), job'[s].op = "auto",
           job[s].op = "auto" => BatchOK(s)
    PROVE  BatchOK(s)'
<1> USE DEF Ledger
<1>1. CASE AutoRun(s)
    BY <1>1, AutoRunBatch
<1>2. \A op \in Operations, f \in Findings : ~Request(s, op, f)
    BY DEF Request, TypeInv, TypeOK
<1>3. ~End(s)
    BY SentinelAssumption DEF End, NoJob, Operations, TypeInv, TypeOK
<1>4. ~(Raise(s) \/ Commit(s) \/ Die(s))
    BY <1>3 DEF Raise, Commit, Die
<1>5. CASE Load(s)
  <2>1. /\ pc[s] = "load" /\ UNCHANGED <<job, rows>>
        /\ pc'[s] \in {"check", "next"}
    BY <1>3, <1>5 DEF Load, At, Goto, local, FirstStep, TypeInv, TypeOK
  <2>2. UNCHANGED <<View(s), db>>
    BY <2>1 DEF View, rows
  <2>3. CASE pc'[s] = "check"
    <3>1. Hand(s)' = Hand(s)
      BY <2>1, <2>3 DEF Hand, OnFinding, Steps
    <3> QED
      BY <2>1, <2>3, <3>1, StayBatch
  <2>4. CASE pc'[s] = "next"
    <3>1. pc[s] \in OnFinding
      BY <2>1 DEF OnFinding, Steps
    <3> QED
      BY <2>1, <2>2, <2>4, <3>1, DropBatch
  <2> QED
    BY <2>1, <2>3, <2>4
<1>6. CASE \/ Check(s) \/ MkDir(s) \/ Move(s) \/ WriteSidecar(s) \/ Locate(s)
           \/ PutBack(s) \/ Clear(s) \/ Purge(s) \/ Merge(s)
  <2>1. pc[s] \in OnFinding /\ pc'[s] \in OnFinding /\ UNCHANGED <<job, rows>>
    BY <1>6, DiskStep DEF Merge, At, Goto, Loaded, OnFinding, Steps, TypeInv, TypeOK
  <2>2. Hand(s)' = Hand(s) /\ pc'[s] # "commit"
    BY <2>1 DEF Hand, OnFinding
  <2> QED
    BY <2>1, <2>2, StayBatch
<1>7. CASE Write(s)
  <2>1. /\ pc[s] = "write" /\ job[s].cur \in Findings /\ job' = job
        /\ pc'[s] = "next" /\ db' = db /\ writer' = s
        /\ \A f \in Findings \ {job[s].cur} : draft'.finding[f] = View(s).finding[f]
        /\ draft'.finding[job[s].cur].state \in
              {View(s).finding[job[s].cur].state, Outcome["auto"]}
        /\ draft'.alert = View(s).alert
    BY <1>7, WriteRows
  <2>2. View(s)' = draft'
    BY <2>1 DEF View
  <2>3. pc[s] \in OnFinding /\ Outcome["auto"] = "QUARANTINED"
    BY <2>1 DEF OnFinding, Steps, Outcome
  <2> QED
    BY <2>1, <2>2, <2>3, DropBatch
<1>8. CASE RecordFailure(s)
  <2>1. /\ pc[s] = "fail" /\ job' = job /\ pc'[s] = "next"
    BY <1>8 DEF RecordFailure, At, Goto, local, TypeInv, TypeOK
  <2>2. /\ db' = db /\ writer' = s /\ draft'.finding = View(s).finding
        /\ View(s).alert \subseteq draft'.alert
    BY <1>8, NotesOf DEF Notes
  <2>3. View(s)' = draft' /\ pc[s] \in OnFinding
    BY <2>1, <2>2 DEF View, OnFinding, Steps
  <2> QED
    BY <2>1, <2>2, <2>3, DropBatch
<1>9. CASE AutoNext(s) \/ AutoTrip(s)
    BY <1>9, AutoNextJob, AutoTripJob, AutoNextBatch, AutoTripBatch
<1>10. CASE AutoFinish(s)
    BY <1>10, AutoFinishBatch DEF AutoFinish, local
<1> QED
    BY <1>1, <1>2, <1>4, <1>5, <1>6, <1>7, <1>8, <1>9, <1>10 DEF Work, Step

LEMMA BatchInvStep == Ledger /\ Ledger' /\ BatchInv /\ [Next]_vars => BatchInv'
<1> SUFFICES ASSUME Ledger, Ledger', BatchInv, [Next]_vars,
                    NEW s \in Sessions, job'[s].op = "auto"
             PROVE  BatchOK(s)'
    BY DEF BatchInv
<1>1. CASE Outside \/ UNCHANGED vars
  <2>1. UNCHANGED <<job, pc, db, draft, writer>>
    BY <1>1 DEF Outside, OwnerEdit, rows, local, vars
  <2>2. BatchOK(s)
    BY <2>1 DEF BatchInv
  <2>3. UNCHANGED <<View(s), Hand(s)>>
    BY <2>1 DEF View, Hand
  <2>4. UNCHANGED <<Left(s), Lot(s), Open(s), Told(s)>>
    BY <2>1, <2>3 DEF Left, Lot, Caught, Open, Told
  <2> QED
    BY <2>1, <2>2, <2>3, <2>4 DEF BatchOK, Counted
<1>2. ASSUME NEW t \in Sessions, Work(t) PROVE BatchOK(s)'
  <2>1. CASE t = s
    BY <1>2, <2>1, OwnBatch DEF BatchInv
  <2>2. CASE t # s
    <3>1. BatchOK(s)
      BY <1>2, <2>2, Frame DEF Ledger, BatchInv
    <3> QED
      BY <1>2, <2>2, <3>1, OtherBatch
  <2> QED
    BY <2>1, <2>2
<1> QED
    BY <1>1, <1>2, NextCases

(* What CircuitBreaker says of the commit of session s about account a.       *)
CommitCounts(s, a) ==
    Cardinality(Quarantines(a)) > 1 =>
       /\ Cardinality(Quarantines(a)) <= Cap
       /\ Cardinality(Quarantines(a)) = Cap /\ LeftOver(a) # {} => a \in db'.alert

LEMMA AutoCommit ==
    ASSUME Ledger, BatchInv, NEW s \in Sessions, NEW a \in Accounts,
           pc[s] = "commit", writer = s, db' = draft, job[s].op = "auto"
    PROVE  CommitCounts(s, a)
<1>1. BatchOK(s) /\ job[s].todo = {} /\ job[s].over = {}
    BY DEF BatchInv, BatchOK
<1>2. View(s) = draft
    BY DEF View
<1>3. Left(s) = {} /\ Told(s) = draft.alert
    BY <1>1, <1>2 DEF Left, Hand, OnFinding, Told
<1>4. OfAccount(Lot(s), a) = Quarantines(a)
    BY <1>2, <1>3 DEF Lot, Caught, OfAccount, Quarantines
<1>5. LeftOver(a) \subseteq OfAccount(Open(s), a)
    BY <1>2 DEF LeftOver, OfAccount, Open
<1>6. Cardinality(Quarantines(a)) \in Nat /\ Cap \in Nat
    BY <1>4, LotType, OfAccountCount, ProcessAssumption DEF Ledger
<1>7. Counted(s, a)
    BY <1>1 DEF BatchOK
<1> QED
    BY <1>3, <1>4, <1>5, <1>6, <1>7 DEF Counted, CommitCounts

LEMMA RequestCommit ==
    ASSUME Ledger, NEW s \in Sessions, NEW a \in Accounts,
           pc[s] = "commit", writer = s, db' = draft, job[s].op # "auto"
    PROVE  CommitCounts(s, a)
<1>1. Quarantines(a) \subseteq {job[s].cur}
    BY DEF Ledger, RowsInv, OneFinding, Quarantines
<1>2. IsFiniteSet({job[s].cur}) /\ Cardinality({job[s].cur}) = 1
    BY FS_Singleton
<1>3. IsFiniteSet(Quarantines(a)) /\ Cardinality(Quarantines(a)) <= 1
    BY <1>1, <1>2, FS_Subset
<1>4. Cardinality(Quarantines(a)) \in Nat
    BY <1>3, FS_CardinalityType
<1> QED
    BY <1>3, <1>4 DEF CommitCounts

(* One transaction quarantines at most Cap findings of an account, or one by  *)
(* request; and if it quarantines Cap of them and leaves a critical one, the  *)
(* account's circuit-breaker event is committed with it or was before.  It    *)
(* holds of every cap and of every number of findings, with sessions that     *)
(* overlap, fail and die, unless acknowledgements overlap them.               *)
THEOREM BreakerTrips ==
    ASSUME NoStaleAck
    PROVE  Spec => CircuitBreaker
<1> DEFINE Breaks ==
        \A a \in Accounts :
           Cardinality(Quarantines(a)) > 1 =>
              /\ Cardinality(Quarantines(a)) <= Cap
              /\ Cardinality(Quarantines(a)) = Cap /\ LeftOver(a) # {} => a \in db'.alert
<1>1. Ledger /\ BatchInv /\ [Next]_vars => [Breaks]_db
  <2> SUFFICES ASSUME Ledger, BatchInv, [Next]_vars, db' # db, NEW a \in Accounts
               PROVE  \E s \in Sessions : CommitCounts(s, a)
      BY DEF CommitCounts
  <2>1. PICK s \in Sessions : pc[s] = "commit" /\ writer = s /\ db' = draft
    BY OnlyCommit
  <2>2. CommitCounts(s, a)
    BY <2>1, AutoCommit, RequestCommit
  <2> QED
    BY <2>2
<1>2. Spec => []BatchInv
  <2>1. Ledger /\ Ledger' /\ BatchInv /\ [Next]_vars => BatchInv'
    BY BatchInvStep
  <2> QED
    BY <2>1, InitBatch, LedgerAlways, PTL DEF Spec
<1> QED
    BY <1>1, <1>2, LedgerAlways, PTL DEF Spec, CircuitBreaker
================================================================================
