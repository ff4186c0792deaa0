------------------------ MODULE RemediationSerialProofs ------------------------
(* Theorems about Remediation when one session runs at a time: the lifecycle  *)
(* of findings, and what a restore puts back.                                 *)
EXTENDS RemediationProofs

Rest == {"idle", "done"}

(* What a session does at all: it starts, takes a step or dies.               *)
Work(s) ==
    \/ \E op \in Operations, f \in Findings : Request(s, op, f)
    \/ AutoRun(s) \/ Step(s) \/ Die(s)

Outside == \E p \in Paths, c \in Contents \cup {Absent} : OwnerEdit(p, c)

LEMMA NextCases ==
    ASSUME [Next]_vars
    PROVE  (\E s \in Sessions : Work(s)) \/ Outside \/ UNCHANGED vars
BY DEF Next, Work, Outside

(* A session works on its own variables only.                                 *)
LEMMA Frame ==
    ASSUME TypeInv, NEW s \in Sessions, Work(s), NEW t \in Sessions, t # s
    PROVE  /\ pc'[t] = pc[t]
           /\ job'[t] = job[t]
           /\ ent'[t] = ent[t]
           /\ seen'[t] = seen[t]
           /\ dir'[t] = dir[t]
<1> USE DEF TypeInv, TypeOK
<1>1. CASE \E op \in Operations, f \in Findings : Request(s, op, f)
    BY <1>1 DEF Request, Goto
<1>2. CASE AutoRun(s)
    BY <1>2 DEF AutoRun, Goto
<1>3. ASSUME End(s)
      PROVE  /\ pc'[t] = pc[t] /\ job'[t] = job[t] /\ ent'[t] = ent[t]
             /\ seen'[t] = seen[t] /\ dir'[t] = dir[t]
    BY <1>3 DEF End, Goto
<1>4. ASSUME NEW step, Goto(s, step), UNCHANGED local
      PROVE  /\ pc'[t] = pc[t] /\ job'[t] = job[t] /\ ent'[t] = ent[t]
             /\ seen'[t] = seen[t] /\ dir'[t] = dir[t]
    BY <1>4 DEF Goto, local
<1>5. CASE Load(s)
    BY <1>3, <1>5 DEF Load, Goto, local
<1>6. CASE Check(s)
    BY <1>6 DEF Check, Goto, Fails
<1>7. CASE \/ MkDir(s) \/ Move(s) \/ WriteSidecar(s) \/ Locate(s) \/ PutBack(s)
           \/ Clear(s) \/ Purge(s) \/ Write(s) \/ RecordFailure(s) \/ AutoFinish(s)
  <2>1. UNCHANGED local
    BY <1>7 DEF MkDir, Move, WriteSidecar, Locate, PutBack, Clear, Purge, Write,
                RecordFailure, AutoFinish
  <2>2. \E step : Goto(s, step)
    BY <1>7 DEF MkDir, Move, WriteSidecar, Locate, PutBack, Clear, Purge, Write,
                RecordFailure, AutoFinish, Fails
  <2> QED
    BY <1>4, <2>1, <2>2
<1>8. CASE Merge(s)
    BY <1>8 DEF Merge, Goto
<1>9. CASE AutoNext(s) \/ AutoTrip(s)
    BY <1>9 DEF AutoNext, AutoTrip, Goto
<1>10. CASE Raise(s) \/ Commit(s) \/ Die(s)
    BY <1>3, <1>10 DEF Raise, Commit, Die
<1> QED
    BY <1>1, <1>2, <1>5, <1>6, <1>7, <1>8, <1>9, <1>10 DEF Work, Step

LEMMA AutoRunJob ==
    ASSUME TypeInv, NEW s \in Sessions, AutoRun(s)
    PROVE  /\ pc'[s] = "next" /\ job'[s].op = "auto" /\ job'[s].cur = None
           /\ UNCHANGED <<disk, rows, ent, seen, dir>>
<1>1. PICK B, A :
         job' = [job EXCEPT ![s] = [op |-> "auto", cur |-> None, todo |-> B, over |-> A]]
    BY DEF AutoRun
<1> QED
    BY <1>1 DEF AutoRun, Goto, TypeInv, TypeOK

LEMMA AutoTripJob ==
    ASSUME TypeInv, NEW s \in Sessions, AutoTrip(s)
    PROVE  /\ pc[s] = "next" /\ pc'[s] = "next" /\ Lock(s)
           /\ job'[s].op = job[s].op /\ job'[s].cur = job[s].cur
           /\ job'[s].todo = job[s].todo
           /\ UNCHANGED <<disk, db, ent, seen, dir>>
           /\ \E a \in job[s].over :
                 /\ job'[s].over = job[s].over \ {a}
                 /\ draft' = [View(s) EXCEPT !.alert = @ \cup {a}]
<1>1. PICK a \in job[s].over :
         /\ draft' = [View(s) EXCEPT !.alert = @ \cup {a}]
         /\ job' = [job EXCEPT ![s].over = @ \ {a}]
    BY DEF AutoTrip, Tripped
<1>2. /\ job'[s].op = job[s].op /\ job'[s].cur = job[s].cur
      /\ job'[s].todo = job[s].todo
      /\ job'[s].over = job[s].over \ {a}
    BY <1>1 DEF TypeInv, TypeOK, Job
<1> QED
    BY <1>1, <1>2 DEF AutoTrip, At, Goto, TypeInv, TypeOK

LEMMA AutoNextJob ==
    ASSUME TypeInv, NEW s \in Sessions, AutoNext(s)
    PROVE  /\ pc[s] = "next" /\ pc'[s] = "load"
           /\ job'[s].op = job[s].op /\ job'[s].over = job[s].over
           /\ job'[s].cur \in job[s].todo
           /\ job'[s].todo = job[s].todo \ {job'[s].cur}
           /\ UNCHANGED <<disk, rows, ent, seen, dir>>
<1>1. PICK f \in job[s].todo :
         job' = [job EXCEPT ![s].cur = f, ![s].todo = @ \ {f}]
    BY DEF AutoNext, Oldest, Turn
<1>2. /\ job'[s].op = job[s].op /\ job'[s].over = job[s].over
      /\ job'[s].cur = f /\ job'[s].todo = job[s].todo \ {f}
    BY <1>1 DEF TypeInv, TypeOK, Job
<1> QED
    BY <1>1, <1>2 DEF AutoNext, At, Goto, TypeInv, TypeOK

--------------------------------------------------------------------------------
(* Which operation a session is at which step for, and the entity it has.     *)

Quarantining(s) == job[s].op \in {"quarantine", "auto"}
Releasing(s) == job[s].op \in {"restore", "delete"}

StepOK(s) ==
    /\ pc[s] \in {"check", "mkdir", "move", "sidecar"} => Quarantining(s)
    /\ pc[s] \in {"locate", "putback", "clear"} => job[s].op = "restore"
    /\ pc[s] = "purge" => job[s].op = "delete"
    /\ pc[s] = "raise" => job[s].op # "auto"
    /\ pc[s] = "next" => job[s].op = "auto"
    /\ pc[s] \in Loaded /\ Quarantining(s) => ent[s].state = "NONE"
    /\ pc[s] \in Loaded /\ Releasing(s) =>
          ent[s].state = "QUARANTINED" /\ dir[s] = ent[s].folder

StepInv == \A s \in Sessions : StepOK(s)

LEMMA InitStepInv == Init => StepInv
BY DEF Init, StepInv, StepOK, Loaded, OnFinding

LEMMA LoadStepOK ==
    ASSUME TypeInv, StepInv, NEW s \in Sessions, Load(s)
    PROVE  StepOK(s)'
<1> DEFINE op == job[s].op
           row == View(s).finding[job[s].cur]
<1>1. op \in Operations
    BY DEF Load, At, TypeInv, JobOK, OnFinding, Steps
<1>2. CASE Permits(op, job[s].cur, row)
  <2>1. /\ pc'[s] = FirstStep[op] /\ job'[s].op = op
        /\ ent'[s] = row /\ dir'[s] = row.folder
    BY <1>2 DEF Load, Goto, TypeInv, TypeOK
  <2>2. /\ op \in {"quarantine", "auto"} => FirstStep[op] = "check" /\ row.state = "NONE"
        /\ op \in {"restore", "delete"} => row.state = "QUARANTINED"
        /\ op = "restore" => FirstStep[op] = "locate"
        /\ op = "delete" => FirstStep[op] = "purge"
        /\ op = "acknowledge" => FirstStep[op] = "merge"
    BY <1>2 DEF Permits, FirstStep
  <2> QED
    BY <1>1, <2>1, <2>2 DEF StepOK, Quarantining, Releasing, Operations
<1>3. CASE ~Permits(op, job[s].cur, row) /\ op = "auto"
  <2>1. pc'[s] = "next" /\ job'[s].op = "auto"
    BY <1>3 DEF Load, Goto, local, TypeInv, TypeOK
  <2> QED
    BY <2>1 DEF StepOK, Loaded, OnFinding
<1>4. CASE ~Permits(op, job[s].cur, row) /\ op # "auto"
    BY <1>4 DEF Load, End, Goto, StepOK, Loaded, OnFinding, TypeInv, TypeOK
<1> QED
    BY <1>2, <1>3, <1>4

LEMMA StepInvStep == TypeInv /\ StepInv /\ [Next]_vars => StepInv'
<1> SUFFICES ASSUME TypeInv, StepInv, [Next]_vars PROVE StepInv'
    OBVIOUS
<1>1. CASE Outside \/ UNCHANGED vars
    BY <1>1 DEF Outside, OwnerEdit, local, vars, StepInv, StepOK, Quarantining, Releasing
<1>2. ASSUME NEW s \in Sessions, Work(s) PROVE StepInv'
  <2>1. ASSUME NEW t \in Sessions, t # s PROVE StepOK(t)'
    BY <1>2, <2>1, Frame DEF StepInv, StepOK, Quarantining, Releasing
  <2>2. ASSUME pc'[s] \in Rest \cup {"commit", "load"} PROVE StepOK(s)'
    BY <2>2 DEF Rest, StepOK, Loaded, OnFinding
  <2>3. ASSUME NEW step, Goto(s, step), UNCHANGED <<job, ent>>, pc[s] \in Loaded,
               Releasing(s) => UNCHANGED dir,
               step \in {"check", "mkdir", "move", "sidecar"} => Quarantining(s),
               step \in {"locate", "putback", "clear"} => job[s].op = "restore",
               step = "purge" => job[s].op = "delete",
               step = "raise" => job[s].op # "auto",
               step = "next" => job[s].op = "auto"
        PROVE  StepOK(s)'
    BY <2>3 DEF StepInv, StepOK, Goto, Quarantining, Releasing, TypeInv, TypeOK
  <2>4. StepOK(s)'
    <3>1. CASE (\E op \in Operations, f \in Findings : Request(s, op, f)) \/ AutoNext(s)
                 \/ Raise(s) \/ Commit(s) \/ Die(s) \/ AutoFinish(s)
      BY <2>2, <3>1
      DEF Request, AutoNext, Raise, Commit, Die, End, AutoFinish, Goto, Rest, TypeInv, TypeOK
    <3>2. CASE AutoRun(s)
      BY <3>2, AutoRunJob DEF StepOK, Loaded, OnFinding
    <3>3. CASE AutoTrip(s)
      BY <3>3, AutoTripJob DEF StepInv, StepOK, Loaded, OnFinding
    <3>4. CASE Load(s)
      BY <3>4, LoadStepOK
    <3>5. CASE Check(s)
      BY <2>3, <3>5
      DEF Check, At, Fails, StepInv, StepOK, Quarantining, Releasing, Loaded, OnFinding, Steps
    <3>6. CASE MkDir(s) \/ Move(s) \/ WriteSidecar(s)
      BY <2>3, <3>6
      DEF MkDir, Move, WriteSidecar, At, Fails, local, StepInv, StepOK, Loaded, OnFinding, Steps
    <3>7. CASE Locate(s) \/ PutBack(s) \/ Clear(s) \/ Purge(s)
      BY <2>3, <3>7
      DEF Locate, PutBack, Clear, Purge, At, Fails, local, StepInv, StepOK, Loaded,
          OnFinding, Steps
    <3>8. CASE Merge(s)
      BY <2>3, <3>8 DEF Merge, At, Loaded, OnFinding, Steps
    <3>9. CASE Write(s) \/ RecordFailure(s)
      BY <2>2, <2>3, <3>9
      DEF Write, RecordFailure, At, Goto, local, Loaded, OnFinding, Steps, TypeInv, TypeOK
    <3> QED
      BY <1>2, <3>1, <3>2, <3>3, <3>4, <3>5, <3>6, <3>7, <3>8, <3>9 DEF Work, Step
  <2> QED
    BY <2>1, <2>4 DEF StepInv
<1> QED
    BY <1>1, <1>2, NextCases

--------------------------------------------------------------------------------
(* The write lock.  A request takes it with its last write and goes on to its *)
(* commit or its rollback; only the job has it while it works.                *)

Writing(s) == job[s].op = "auto" \/ pc[s] \in {"commit", "raise"}

HolderInv ==
    /\ writer = None => draft = db
    /\ \A s \in Sessions : writer = s => pc[s] \notin Rest /\ Writing(s)

LEMMA InitHolder == Init => HolderInv
BY SentinelAssumption DEF Init, HolderInv

LEMMA Running ==
    ASSUME NEW s \in Sessions, Step(s) \/ Die(s)
    PROVE  pc[s] \notin Rest
BY DEF Step, Die, Rest, At, Load, Check, MkDir, Move, WriteSidecar, Locate, PutBack, Clear,
       Purge, Merge, Write, RecordFailure, Raise, AutoNext, AutoTrip, AutoFinish, Commit

LEMMA HolderStep ==
    ASSUME TypeInv, HolderInv, NEW s \in Sessions, Work(s),
           \/ UNCHANGED rows
           \/ writer' = s
           \/ writer' = None /\ draft' = db',
           writer' = s => pc'[s] \notin Rest /\ Writing(s)'
    PROVE  HolderInv'
<1>1. ASSUME NEW t \in Sessions, writer' = t, t # s
      PROVE  pc'[t] \notin Rest /\ Writing(t)'
  <2>1. writer = t
    BY <1>1, SentinelAssumption DEF rows
  <2> QED
    BY <1>1, <2>1, Frame DEF HolderInv, Writing
<1>2. writer' = None => draft' = db'
    BY SentinelAssumption DEF rows, HolderInv
<1> QED
    BY <1>1, <1>2 DEF HolderInv

(* Steps on the disk change neither the rows nor the entity.                  *)
LEMMA DiskStep ==
    ASSUME TypeInv, NEW s \in Sessions,
           \/ Check(s) \/ MkDir(s) \/ Move(s) \/ WriteSidecar(s)
           \/ Locate(s) \/ PutBack(s) \/ Clear(s) \/ Purge(s)
    PROVE  /\ pc[s] \in Loaded \ {"merge", "write", "raise"}
           /\ pc'[s] \in Loaded \ {"write", "raise"}
           /\ UNCHANGED <<rows, job, ent, seen>>
<1>1. /\ pc[s] \in Loaded \ {"merge", "write", "raise"}
      /\ UNCHANGED <<rows, job, ent, seen>>
    BY DEF Check, MkDir, Move, WriteSidecar, Locate, PutBack, Clear, Purge, At, local,
           Loaded, OnFinding, Steps
<1>2. PICK step \in {"mkdir", "move", "sidecar", "merge", "putback", "clear", "fail"} :
         Goto(s, step)
    BY DEF Check, MkDir, Move, WriteSidecar, Locate, PutBack, Clear, Purge, Fails
<1>3. pc'[s] = step
    BY <1>2 DEF Goto, TypeInv, TypeOK
<1> QED
    BY <1>1, <1>3 DEF Loaded, OnFinding, Steps

LEMMA HolderInvStep == TypeInv /\ StepInv /\ HolderInv /\ [Next]_vars => HolderInv'
<1> SUFFICES ASSUME TypeInv, StepInv, HolderInv, [Next]_vars PROVE HolderInv'
    OBVIOUS
<1>1. CASE Outside \/ UNCHANGED vars
    BY <1>1 DEF Outside, OwnerEdit, rows, local, vars, HolderInv, Writing
<1>2. ASSUME NEW s \in Sessions, Work(s) PROVE HolderInv'
  <2>1. pc[s] \in Rest => writer # s
    BY DEF HolderInv
  <2>2. CASE (\E op \in Operations, f \in Findings : Request(s, op, f)) \/ AutoRun(s)
    <3>1. UNCHANGED rows /\ writer # s
      BY <2>1, <2>2 DEF Request, AutoRun, MayStart, At, Rest
    <3> QED
      BY <1>2, <3>1, HolderStep DEF rows
  <2>3. CASE Load(s)
    <3>1. UNCHANGED rows /\ (writer = s => job[s].op = "auto")
      BY <2>3 DEF Load, At, HolderInv, Writing
    <3>2. CASE writer # s
      BY <1>2, <3>1, <3>2, HolderStep DEF rows
    <3>3. CASE writer = s
      <4>1. UNCHANGED job /\ pc'[s] \in {"check", "next"}
        BY <2>3, <3>1, <3>3 DEF Load, Goto, FirstStep, local, TypeInv, TypeOK
      <4> QED
        BY <1>2, <3>1, <3>3, <4>1, HolderStep DEF Writing, Rest
    <3> QED
      BY <3>2, <3>3
  <2>4. CASE \/ Check(s) \/ MkDir(s) \/ Move(s) \/ WriteSidecar(s)
             \/ Locate(s) \/ PutBack(s) \/ Clear(s) \/ Purge(s)
    <3>1. /\ UNCHANGED <<rows, job>>
          /\ pc[s] \notin {"commit", "raise"} /\ pc'[s] \notin Rest
      BY <2>4, DiskStep DEF Loaded, OnFinding, Rest
    <3> QED
      BY <1>2, <3>1, HolderStep DEF rows, HolderInv, Writing
  <2>5. CASE Merge(s)
    <3>1. UNCHANGED <<rows, job>> /\ pc[s] = "merge" /\ pc'[s] = "write"
      BY <2>5 DEF Merge, At, Goto, TypeInv, TypeOK
    <3> QED
      BY <1>2, <3>1, HolderStep DEF rows, HolderInv, Writing, Rest
  <2>6. CASE Write(s) \/ RecordFailure(s)
    <3>1. /\ UNCHANGED job /\ writer' = s
          /\ pc'[s] \in {"next", "commit", "raise"}
          /\ pc'[s] = "next" => job[s].op = "auto"
      BY <2>6 DEF Write, RecordFailure, Lock, Goto, local, TypeInv, TypeOK
    <3> QED
      BY <1>2, <3>1, HolderStep DEF Writing, Rest
  <2>7. CASE AutoNext(s)
    <3>1. job'[s].op = "auto" /\ pc'[s] = "load" /\ UNCHANGED rows
      BY <2>7, AutoNextJob DEF StepInv, StepOK
    <3> QED
      BY <1>2, <3>1, HolderStep DEF Writing, Rest
  <2>8. CASE AutoTrip(s)
    <3>1. job'[s].op = "auto" /\ pc'[s] = "next" /\ writer' = s
      BY <2>8, AutoTripJob DEF StepInv, StepOK, Lock
    <3> QED
      BY <1>2, <3>1, HolderStep DEF Writing, Rest
  <2>9. CASE AutoFinish(s)
    <3>1. UNCHANGED rows /\ pc'[s] = "commit"
      BY <2>9 DEF AutoFinish, Goto, TypeInv, TypeOK
    <3> QED
      BY <1>2, <3>1, HolderStep DEF Writing, Rest
  <2>10. CASE Raise(s) \/ Commit(s) \/ Die(s)
    <3>1. /\ writer' # s
          /\ UNCHANGED rows \/ (writer' = None /\ draft' = db')
      <4>1. CASE Raise(s)
        BY <4>1, SentinelAssumption DEF Raise
      <4>2. CASE Commit(s)
        BY <4>2, SentinelAssumption DEF Commit, rows
      <4>3. CASE Die(s)
        BY <4>3, SentinelAssumption DEF Die, rows
      <4> QED
        BY <2>10, <4>1, <4>2, <4>3
    <3> QED
      BY <1>2, <3>1, HolderStep
  <2> QED
    BY <1>2, <2>2, <2>3, <2>4, <2>5, <2>6, <2>7, <2>8, <2>9, <2>10 DEF Work, Step
<1> QED
    BY <1>1, <1>2, NextCases

--------------------------------------------------------------------------------
(* One session at a time.  What it sees is the draft, which is the last       *)
(* commit unless it has the write lock; the entity it loaded is the row that  *)
(* its merge reads and its UPDATE changes.                                    *)

SerialInv ==
    /\ \A s, t \in Sessions : pc[s] \notin Rest /\ pc[t] \notin Rest => s = t
    /\ \A s \in Sessions :
          /\ pc[s] \in Loaded => ent[s] = draft.finding[job[s].cur]
          /\ pc[s] = "write" => seen[s].row = ent[s]

LEMMA InitSerial == Init => SerialInv
BY DEF Init, SerialInv, Rest, Loaded, OnFinding

LEMMA OthersRest ==
    ASSUME TypeInv, HolderInv, SerialInv, ~Overlap, NEW s \in Sessions, Work(s)
    PROVE  /\ \A t \in Sessions : t # s => pc[t] \in Rest /\ pc'[t] \in Rest
           /\ writer \in {None, s}
           /\ View(s) = draft
           /\ pc[s] \in Rest => pc[s] = "idle" /\ writer = None
<1>1. \A t \in Sessions : t # s => pc[t] \in Rest
  <2>1. CASE (\E op \in Operations, f \in Findings : Request(s, op, f)) \/ AutoRun(s)
    BY <2>1 DEF Request, AutoRun, MayStart, AtRest, Rest
  <2>2. CASE Step(s) \/ Die(s)
    BY <2>2, Running DEF SerialInv
  <2> QED
    BY <2>1, <2>2 DEF Work
<1>2. writer \in {None, s}
    BY <1>1 DEF HolderInv, TypeInv, TypeOK
<1>3. pc[s] \in Rest => pc[s] = "idle" /\ writer = None
  <2>1. pc[s] \in Rest => pc[s] = "idle"
    BY Running DEF Work, Request, AutoRun, MayStart, At
  <2> QED
    BY <1>2, <2>1, SentinelAssumption DEF HolderInv, TypeInv, TypeOK
<1>4. View(s) = draft
    BY <1>2 DEF View, HolderInv
<1> QED
    BY <1>1, <1>2, <1>3, <1>4, Frame

(* Session s goes to a step and keeps, takes or gives up the write lock.      *)
LEMMA SerialStep ==
    ASSUME TypeInv, HolderInv, SerialInv, ~Overlap, NEW s \in Sessions, Work(s),
           pc'[s] \in Loaded => ent'[s] = draft'.finding[job'[s].cur],
           pc'[s] = "write" => seen'[s].row = ent'[s]
    PROVE  SerialInv'
<1>1. \A t \in Sessions : t # s => pc'[t] \in Rest
    BY OthersRest
<1>2. \A t \in Sessions : pc'[t] \in Loaded \cup {"write"} => t = s
    BY <1>1 DEF Rest, Loaded, OnFinding
<1> QED
    BY <1>1, <1>2 DEF SerialInv

(* The rows stand still.                                                      *)
LEMMA SerialStay ==
    ASSUME TypeInv, HolderInv, SerialInv, ~Overlap, NEW s \in Sessions, Work(s),
           UNCHANGED rows,
           pc'[s] \in Loaded => ent'[s] = draft.finding[job'[s].cur],
           pc'[s] = "write" => seen'[s].row = ent'[s]
    PROVE  SerialInv'
<1>1. writer' = writer /\ draft' = draft /\ db' = db
    BY DEF rows
<1> QED
    BY <1>1, SerialStep

(* What Write does when one session runs at a time: the finding is as its     *)
(* entity's method left it.                                                   *)
LEMMA WriteSerial ==
    ASSUME TypeInv, HolderInv, SerialInv, ~Overlap, NEW s \in Sessions, Write(s)
    PROVE  /\ pc[s] = "write" /\ job[s].op \in Operations /\ job[s].cur \in Findings
           /\ ent[s] = draft.finding[job[s].cur]
           /\ draft'.finding = [draft.finding EXCEPT ![job[s].cur] =
                                   Changed(job[s].op, ent[s], dir[s])]
           /\ writer' = s
           /\ pc'[s] = IF job[s].op = "auto" THEN "next" ELSE "commit"
           /\ UNCHANGED <<disk, db, local>>
<1> DEFINE op == job[s].op
           f == job[s].cur
           new == Changed(op, ent[s], dir[s])
<1>1. /\ pc[s] = "write" /\ op \in Operations /\ f \in Findings
      /\ UNCHANGED <<disk, db, local>> /\ writer' = s
      /\ pc'[s] = IF op = "auto" THEN "next" ELSE "commit"
    BY DEF Write, Lock, At, Goto, TypeInv, TypeOK, JobOK, OnFinding, Steps
<1>2. View(s) = draft /\ draft \in Tables
    BY OthersRest DEF Work, Step, TypeInv, TypeOK
<1>3. ent[s] = draft.finding[f] /\ seen[s].row = ent[s]
    BY <1>1 DEF SerialInv, Loaded, OnFinding, Steps
<1>4. ReadOf(s, draft.finding[f]) = draft.finding[f]
    BY <1>3 DEF ReadOf
<1>5. new \in Row
    BY <1>1, ChangedType DEF TypeInv, TypeOK
<1>6. MergedRow(new, draft.finding[f], draft.finding[f]) = new
    BY <1>1, <1>2, <1>5 DEF MergedRow, Column, Tables, Row
<1>7. draft'.finding = [draft.finding EXCEPT ![f] =
                           MergedRow(new, ReadOf(s, draft.finding[f]), draft.finding[f])]
    BY <1>1, <1>2 DEF Write, Tables
<1> QED
    BY <1>1, <1>3, <1>4, <1>6, <1>7

LEMMA SerialInvStep ==
    ASSUME ~Overlap
    PROVE  TypeInv /\ HolderInv /\ SerialInv /\ [Next]_vars => SerialInv'
<1> SUFFICES ASSUME TypeInv, HolderInv, SerialInv, [Next]_vars PROVE SerialInv'
    OBVIOUS
<1>1. CASE Outside \/ UNCHANGED vars
    BY <1>1 DEF Outside, OwnerEdit, rows, local, vars, SerialInv
<1>2. ASSUME NEW s \in Sessions, Work(s) PROVE SerialInv'
  <2>1. /\ View(s) = draft /\ writer \in {None, s}
        /\ s # None
        /\ pc[s] \in Rest => writer = None
    BY <1>2, OthersRest, SentinelAssumption
  <2>2. CASE (\E op \in Operations, f \in Findings : Request(s, op, f)) \/ AutoRun(s)
             \/ AutoNext(s) \/ AutoFinish(s)
    <3>1. pc'[s] \in {"load", "next", "commit"} /\ UNCHANGED rows
      BY <2>2 DEF Request, AutoRun, AutoNext, AutoFinish, Goto, TypeInv, TypeOK
    <3> QED
      BY <1>2, <3>1, SerialStay DEF Loaded, OnFinding, Rest
  <2>3. CASE Load(s)
    <3>1. UNCHANGED rows
      BY <2>3 DEF Load
    <3>2. CASE Permits(job[s].op, job[s].cur, View(s).finding[job[s].cur])
      <4>1. /\ job'[s] = job[s] /\ ent'[s] = draft.finding[job[s].cur]
            /\ pc'[s] = FirstStep[job[s].op] /\ job[s].op \in Operations
        BY <2>1, <2>3, <3>2
        DEF Load, At, Goto, TypeInv, TypeOK, JobOK, OnFinding, Steps
      <4>2. pc'[s] \notin Rest \cup {"write"}
        BY <4>1 DEF FirstStep, Operations, Rest
      <4> QED
        BY <1>2, <3>1, <4>1, <4>2, SerialStay
    <3>3. CASE Goto(s, "next")
      BY <1>2, <3>1, <3>3, SerialStay DEF Goto, Loaded, OnFinding, Rest, TypeInv, TypeOK
    <3>4. CASE End(s)
      BY <1>2, <3>1, <3>4, SerialStay
      DEF End, Goto, Loaded, OnFinding, Rest, TypeInv, TypeOK
    <3> QED
      BY <2>3, <3>2, <3>3, <3>4 DEF Load
  <2>4. CASE \/ Check(s) \/ MkDir(s) \/ Move(s) \/ WriteSidecar(s)
             \/ Locate(s) \/ PutBack(s) \/ Clear(s) \/ Purge(s)
    BY <1>2, <2>4, DiskStep, SerialStay DEF SerialInv, Loaded, OnFinding, Rest
  <2>5. CASE Merge(s)
    <3>1. /\ pc[s] = "merge" /\ pc'[s] = "write" /\ UNCHANGED <<rows, job, ent>>
          /\ seen'[s].row = draft.finding[job[s].cur]
      BY <2>1, <2>5 DEF Merge, At, Goto, TypeInv, TypeOK
    <3>2. ent[s] = draft.finding[job[s].cur]
      BY <3>1 DEF SerialInv, Loaded, OnFinding, Steps
    <3> QED
      BY <1>2, <3>1, <3>2, SerialStay DEF Rest
  <2>6. CASE Write(s)
    BY <1>2, <2>1, <2>6, WriteSerial, SerialStep DEF Loaded, OnFinding, Rest
  <2>7. CASE RecordFailure(s)
    <3>1. /\ pc[s] = "fail" /\ pc'[s] \in {"next", "raise"} /\ writer' = s
          /\ draft' = [draft EXCEPT !.audit =
                          @ \cup AuditOf(job[s].op, job[s].cur, "FAILED")]
          /\ UNCHANGED <<db, job, ent, seen>>
      BY <2>1, <2>7 DEF RecordFailure, At, Goto, Lock, local, TypeInv, TypeOK
    <3>2. draft'.finding = draft.finding
      BY <3>1 DEF TypeInv, TypeOK, Tables
    <3>3. ent[s] = draft.finding[job[s].cur]
      BY <3>1 DEF SerialInv, Loaded, OnFinding, Steps
    <3> QED
      BY <1>2, <2>1, <3>1, <3>2, <3>3, SerialStep DEF Rest
  <2>8. CASE AutoTrip(s)
    BY <1>2, <2>1, <2>8, AutoTripJob, SerialStep DEF Lock, Loaded, OnFinding, Rest
  <2>9. CASE Raise(s) \/ Commit(s) \/ Die(s)
    <3>1. pc'[s] = "done"
      BY <2>9 DEF Raise, Commit, Die, End, Goto, TypeInv, TypeOK
    <3> QED
      BY <1>2, <2>1, <3>1, SerialStep DEF Loaded, OnFinding, Rest
  <2> QED
    BY <1>2, <2>2, <2>3, <2>4, <2>5, <2>6, <2>7, <2>8, <2>9 DEF Work, Step
<1> QED
    BY <1>1, <1>2, NextCases

--------------------------------------------------------------------------------
(* What the session at work has drafted so far: some findings quarantined, or *)
(* at its commit the one finding of a request changed as the request asks.    *)

Drafted(s, f) ==
    \/ draft.finding[f] = db.finding[f]
    \/ /\ Quarantining(s)
       /\ db.finding[f].state = "NONE"
       /\ draft.finding[f].state = "QUARANTINED"
       /\ draft.finding[f].ack = db.finding[f].ack
    \/ /\ ~Quarantining(s) /\ pc[s] = "commit"
       /\ job[s].op \in Operations /\ job[s].cur = f
       /\ Releasing(s) => db.finding[f].state = "QUARANTINED"
       /\ draft.finding[f] = Changed(job[s].op, db.finding[f], dir[s])

DraftInv ==
    \A s \in Sessions :
       /\ pc[s] = "raise" => draft.finding = db.finding
       /\ pc[s] \notin Rest => \A f \in Findings : Drafted(s, f)

LEMMA InitDraft == Init => DraftInv
BY DEF Init, DraftInv, Rest

(* A session that leaves the findings alone and keeps its operation.          *)
LEMMA DraftStay ==
    ASSUME TypeInv, HolderInv, SerialInv, DraftInv, ~Overlap, NEW s \in Sessions, Work(s),
           pc[s] \in Steps \ (Rest \cup {"commit"}), job'[s].op = job[s].op,
           draft'.finding = draft.finding, UNCHANGED db,
           pc'[s] = "raise" => draft.finding = db.finding
    PROVE  DraftInv'
<1>1. \A t \in Sessions : t # s => pc'[t] \in Rest
    BY OthersRest
<1>2. \A f \in Findings : Drafted(s, f)'
    BY DEF DraftInv, Drafted, Quarantining
<1> QED
    BY <1>1, <1>2 DEF DraftInv, Rest

LEMMA WriteDraft ==
    ASSUME TypeInv, StepInv, HolderInv, SerialInv, DraftInv, ~Overlap,
           NEW s \in Sessions, Write(s)
    PROVE  DraftInv'
<1> DEFINE op == job[s].op
           g == job[s].cur
           new == Changed(op, ent[s], dir[s])
<1>1. /\ pc[s] = "write" /\ op \in Operations /\ g \in Findings
      /\ ent[s] = draft.finding[g]
      /\ draft'.finding = [draft.finding EXCEPT ![g] = new]
      /\ pc'[s] = IF op = "auto" THEN "next" ELSE "commit"
      /\ UNCHANGED <<db, local>>
    BY WriteSerial
<1>2. \A t \in Sessions : t # s => pc'[t] \in Rest
    BY OthersRest DEF Work, Step
<1>3. \A f \in Findings : draft'.finding[f] = IF f = g THEN new ELSE draft.finding[f]
    BY <1>1 DEF TypeInv, TypeOK, Tables
<1>4. \A f \in Findings : Drafted(s, f)
    BY <1>1 DEF DraftInv, Rest
<1>5. UNCHANGED <<job, dir>>
    BY <1>1 DEF local
<1>6. CASE Quarantining(s)
  <2>1. ent[s].state = "NONE"
    BY <1>1, <1>6 DEF StepInv, StepOK, Loaded, OnFinding, Steps
  <2>2. db.finding[g] = ent[s]
    BY <1>1, <1>4, <1>6, <2>1 DEF Drafted
  <2>3. new.state = "QUARANTINED" /\ new.ack = ent[s].ack
    BY <1>6 DEF Changed, Outcome, Quarantining, TypeInv, TypeOK, Row
  <2>4. \A f \in Findings : Drafted(s, f)'
    BY <1>1, <1>3, <1>4, <1>5, <1>6, <2>1, <2>2, <2>3 DEF Drafted, Quarantining
  <2> QED
    BY <1>1, <1>2, <2>4 DEF DraftInv, Rest
<1>7. CASE ~Quarantining(s)
  <2>1. op # "auto"
    BY <1>7 DEF Quarantining
  <2>2. draft = db
    BY <1>1, <2>1, OthersRest DEF Work, Step, HolderInv, Writing
  <2>3. Releasing(s) => ent[s].state = "QUARANTINED"
    BY <1>1 DEF StepInv, StepOK, Loaded, OnFinding, Steps
  <2>4. \A f \in Findings : Drafted(s, f)'
    BY <1>1, <1>3, <1>5, <1>7, <2>1, <2>2, <2>3 DEF Drafted, Quarantining, Releasing
  <2> QED
    BY <1>1, <1>2, <2>1, <2>4 DEF DraftInv, Rest
<1> QED
    BY <1>6, <1>7

LEMMA RecordFailureDraft ==
    ASSUME TypeInv, HolderInv, SerialInv, ~Overlap, NEW s \in Sessions, RecordFailure(s)
    PROVE  /\ pc[s] = "fail"
           /\ pc'[s] = IF job[s].op = "auto" THEN "next" ELSE "raise"
           /\ draft'.finding = draft.finding
           /\ UNCHANGED <<disk, db, job, ent, seen, dir>>
<1>1. View(s) = draft
    BY OthersRest DEF Work, Step
<1> QED
    BY <1>1 DEF RecordFailure, At, Goto, local, TypeInv, TypeOK, Tables

LEMMA DraftInvStep ==
    ASSUME ~Overlap
    PROVE  TypeInv /\ StepInv /\ HolderInv /\ SerialInv /\ DraftInv /\ [Next]_vars => DraftInv'
<1> SUFFICES ASSUME TypeInv, StepInv, HolderInv, SerialInv, DraftInv, [Next]_vars
             PROVE  DraftInv'
    OBVIOUS
<1>1. CASE Outside \/ UNCHANGED vars
    BY <1>1 DEF Outside, OwnerEdit, rows, local, vars, DraftInv, Drafted, Quarantining,
                Releasing
<1>2. ASSUME NEW s \in Sessions, Work(s) PROVE DraftInv'
  <2>1. /\ View(s) = draft
        /\ \A t \in Sessions : t # s => pc'[t] \in Rest
        /\ pc[s] \in Rest => draft = db
    BY <1>2, OthersRest DEF HolderInv
  <2>2. CASE (\E op \in Operations, f \in Findings : Request(s, op, f)) \/ AutoRun(s)
    <3>1. pc[s] \in Rest /\ pc'[s] \in {"load", "next"} /\ UNCHANGED rows
      BY <2>2 DEF Request, AutoRun, MayStart, At, Rest, Goto, TypeInv, TypeOK
    <3> QED
      BY <2>1, <3>1 DEF DraftInv, Drafted, rows, Rest
  <2>3. CASE pc'[s] = "done"
    BY <2>1, <2>3 DEF DraftInv, Rest
  <2>4. CASE Load(s) /\ ~End(s)
    <3>1. pc[s] = "load" /\ job'[s].op = job[s].op /\ UNCHANGED rows /\ pc'[s] # "raise"
      BY <2>4 DEF Load, At, Goto, local, TypeInv, TypeOK, JobOK, OnFinding, Steps, FirstStep,
                  Operations
    <3> QED
      BY <1>2, <3>1, DraftStay DEF rows, Steps, Rest
  <2>5. CASE \/ Check(s) \/ MkDir(s) \/ Move(s) \/ WriteSidecar(s)
             \/ Locate(s) \/ PutBack(s) \/ Clear(s) \/ Purge(s)
    BY <1>2, <2>5, DiskStep, DraftStay DEF rows, Loaded, OnFinding, Rest
  <2>6. CASE Merge(s) \/ AutoFinish(s)
    <3>1. /\ pc[s] \in {"merge", "next"} /\ UNCHANGED <<rows, job>>
          /\ pc'[s] \in {"write", "commit"}
      BY <2>6 DEF Merge, AutoFinish, At, Goto, local, TypeInv, TypeOK
    <3> QED
      BY <1>2, <3>1, DraftStay DEF rows, Steps, Rest
  <2>7. CASE Write(s)
    BY <2>7, WriteDraft
  <2>8. CASE RecordFailure(s)
    <3>1. /\ pc[s] = "fail" /\ pc'[s] \in {"next", "raise"}
          /\ pc'[s] = "raise" => job[s].op # "auto"
          /\ draft'.finding = draft.finding /\ UNCHANGED <<db, job>>
      BY <2>8, RecordFailureDraft
    <3>2. job[s].op # "auto" => draft = db
      BY <1>2, <3>1, OthersRest DEF HolderInv, Writing
    <3> QED
      BY <1>2, <3>1, <3>2, DraftStay DEF Steps, Rest
  <2>9. CASE AutoNext(s)
    BY <1>2, <2>9, AutoNextJob, DraftStay DEF rows, Steps, Rest
  <2>10. CASE AutoTrip(s)
    <3>1. draft'.finding = draft.finding
      BY <2>1, <2>10, AutoTripJob DEF TypeInv, TypeOK, Tables
    <3> QED
      BY <1>2, <2>10, <3>1, AutoTripJob, DraftStay DEF Steps, Rest
  <2>11. CASE (Load(s) /\ End(s)) \/ Raise(s) \/ Commit(s) \/ Die(s)
    BY <2>3, <2>11 DEF Raise, Commit, Die, End, Goto, TypeInv, TypeOK
  <2> QED
    BY <1>2, <2>2, <2>4, <2>5, <2>6, <2>7, <2>8, <2>9, <2>10, <2>11 DEF Work, Step
<1> QED
    BY <1>1, <1>2, NextCases

--------------------------------------------------------------------------------
(* The incident folders, when one session runs at a time and none dies.  Each *)
(* quarantined finding has a folder of its own, which exists until the        *)
(* session that empties it writes its row; what a quarantine has placed in a  *)
(* folder is in nobody else's.  Folders named by rows hold what was taken, or *)
(* nothing any more.                                                          *)

Held(f) == draft.finding[f].state = "QUARANTINED"
HeldIn(f) == draft.finding[f].folder

(* The session at work has emptied the folder of f, and writes its row next.  *)
Leaving(f) ==
    \E s \in Sessions :
       pc[s] \in {"merge", "write"} /\ Releasing(s) /\ job[s].cur = f

(* A quarantine has filled its folder, and its row is not written yet.        *)
Placed(s) == pc[s] \in {"sidecar", "merge", "write"} /\ Quarantining(s)

RowHolds(f) ==
    IF Held(f)
    THEN /\ HeldIn(f) \in Folders
         /\ store[HeldIn(f)].made \/ Leaving(f)
         /\ store[HeldIn(f)].file \in {taken[f], Absent}
    ELSE HeldIn(f) = None

SessionHolds(s) ==
    pc[s] = "move" \/ Placed(s) =>
       /\ dir[s] \in Folders
       /\ store[dir[s]].made
       /\ \A f \in Findings : Held(f) => HeldIn(f) # dir[s]
       /\ store[dir[s]].file \in
             IF pc[s] = "move" THEN {Absent} ELSE {taken[job[s].cur], Absent}

HoldInv ==
    /\ \A f \in Findings : RowHolds(f)
    /\ \A f, g \in Findings : Held(f) /\ Held(g) /\ f # g => HeldIn(f) # HeldIn(g)
    /\ \A d \in Folders : store[d].file # Absent => store[d].made
    /\ \A s \in Sessions : SessionHolds(s)

Serial == TypeInv /\ StepInv /\ HolderInv /\ SerialInv /\ DraftInv

LEMMA InitHold == Init => HoldInv
<1> SUFFICES ASSUME Init PROVE HoldInv
    OBVIOUS
<1>1. \A f \in Findings : draft.finding[f] = NewRow
    BY DEF Init
<1>2. \A f \in Findings : RowHolds(f) /\ ~Held(f)
    BY <1>1 DEF RowHolds, Held, HeldIn, NewRow
<1>3. \A d \in Folders : store[d].file = Absent
    BY DEF Init, NoEntry
<1>4. \A s \in Sessions : SessionHolds(s)
    BY DEF Init, SessionHolds, Placed
<1> QED
    BY <1>2, <1>3, <1>4 DEF HoldInv

(* Session s leaves the findings alone and changes at most one folder.        *)
LEMMA HoldDisk ==
    ASSUME Serial, HoldInv, ~Overlap, NEW s \in Sessions, Work(s),
           draft'.finding = draft.finding,
           NEW d,
           \A c \in Folders : c # d => store'[c] = store[c],
           d \in Folders =>
              /\ store'[d].file # Absent => store'[d].made
              /\ \A f \in Findings : Held(f) /\ HeldIn(f) = d =>
                    /\ store'[d].made \/ Leaving(f)'
                    /\ store'[d].file \in {taken[f], Absent},
           \A f \in Findings : Held(f) => taken'[f] = taken[f],
           \A f \in Findings : Leaving(f) => Leaving(f)',
           SessionHolds(s)'
    PROVE  HoldInv'
<1>1. \A f \in Findings : Held(f)' = Held(f) /\ HeldIn(f)' = HeldIn(f)
    BY DEF Held, HeldIn
<1>2. ASSUME NEW f \in Findings PROVE RowHolds(f)'
  <2>1. CASE Held(f)
    <3>1. RowHolds(f)
      BY DEF HoldInv
    <3>2. CASE HeldIn(f) = d
      BY <1>1, <2>1, <3>1, <3>2 DEF RowHolds
    <3>3. CASE HeldIn(f) # d
      BY <1>1, <2>1, <3>1, <3>3 DEF RowHolds
    <3> QED
      BY <3>2, <3>3
  <2>2. CASE ~Held(f)
    BY <1>1, <2>2 DEF HoldInv, RowHolds
  <2> QED
    BY <2>1, <2>2
<1>3. ASSUME NEW t \in Sessions, t # s PROVE SessionHolds(t)'
  <2>1. pc'[t] \in Rest
    BY <1>3, OthersRest DEF Serial
  <2> QED
    BY <2>1 DEF SessionHolds, Placed, Rest
<1>4. (\A f, g \in Findings : Held(f) /\ Held(g) /\ f # g => HeldIn(f) # HeldIn(g))'
    BY <1>1 DEF HoldInv
<1>5. (\A c \in Folders : store[c].file # Absent => store[c].made)'
    BY DEF HoldInv
<1> QED
    BY <1>2, <1>3, <1>4, <1>5 DEF HoldInv

(* Session s leaves the findings and the disk alone.                          *)
LEMMA HoldStay ==
    ASSUME Serial, HoldInv, ~Overlap, NEW s \in Sessions, Work(s),
           draft'.finding = draft.finding, UNCHANGED disk,
           pc[s] \in {"merge", "write"} /\ Releasing(s) =>
              pc'[s] \in {"merge", "write"} /\ job'[s] = job[s],
           SessionHolds(s)'
    PROVE  HoldInv'
<1>1. \A f \in Findings : Leaving(f) => Leaving(f)'
  <2>1. \A t \in Sessions : t # s => pc[t] \in Rest
    BY OthersRest DEF Serial
  <2> QED
    BY <2>1 DEF Leaving, Rest, Releasing
<1>2. \A f \in Findings : Held(f) =>
         (store[HeldIn(f)].made \/ Leaving(f)) /\ store[HeldIn(f)].file \in {taken[f], Absent}
    BY DEF HoldInv, RowHolds
<1>3. \A d \in Folders : store[d].file # Absent => store[d].made
    BY DEF HoldInv
<1> QED
    BY <1>1, <1>2, <1>3, HoldDisk DEF disk

(* The row of the finding a session has loaded.                               *)
LEMMA Working ==
    ASSUME Serial, NEW s \in Sessions, pc[s] \in Loaded
    PROVE  /\ job[s].cur \in Findings /\ job[s].op \in Operations
           /\ Quarantining(s) => ~Held(job[s].cur)
           /\ Releasing(s) => Held(job[s].cur) /\ dir[s] = HeldIn(job[s].cur)
<1>1. job[s].cur \in Findings /\ job[s].op \in Operations
    BY DEF Serial, TypeInv, JobOK, Loaded
<1>2. ent[s] = draft.finding[job[s].cur]
    BY DEF Serial, SerialInv
<1> QED
    BY <1>1, <1>2 DEF Serial, StepInv, StepOK, Held, HeldIn

LEMMA MkDirHold ==
    ASSUME Serial, HoldInv, ~Overlap, NEW s \in Sessions, MkDir(s), ~Fails(s)
    PROVE  HoldInv'
<1> DEFINE d == dir[s]
<1>1. /\ pc[s] = "mkdir" /\ pc'[s] = "move" /\ d \in Folders
      /\ ~store[d].made /\ store' = [store EXCEPT ![d].made = TRUE]
      /\ UNCHANGED <<home, taken, rows, local>>
    BY DEF MkDir, At, CanMake, Goto, Serial, TypeInv, TypeOK, JobOK, InFolder
<1>2. /\ \A c \in Folders : c # d => store'[c] = store[c]
      /\ store'[d].made /\ store'[d].file = store[d].file
    BY <1>1 DEF Serial, TypeInv, TypeOK, Entry
<1>3. Work(s) /\ UNCHANGED <<draft, dir, taken, job>>
    BY <1>1 DEF Work, Step, rows, local
<1>4. \A t \in Sessions : t # s => pc[t] \in Rest
    BY <1>3, OthersRest DEF Serial
<1>5. \A f \in Findings : ~Leaving(f)
    BY <1>1, <1>4 DEF Leaving, Rest
<1>6. \A f \in Findings : Held(f) => HeldIn(f) # d
    BY <1>1, <1>5 DEF HoldInv, RowHolds
<1>7. store[d].file = Absent
    BY <1>1 DEF HoldInv
<1>8. SessionHolds(s)'
    BY <1>1, <1>2, <1>3, <1>6, <1>7 DEF SessionHolds, Held, HeldIn
<1> QED
    BY <1>2, <1>3, <1>5, <1>6, <1>7, <1>8, HoldDisk

LEMMA MoveHold ==
    ASSUME Serial, HoldInv, ~Overlap, NEW s \in Sessions, Move(s), ~Fails(s)
    PROVE  HoldInv'
<1> DEFINE d == dir[s]
           g == job[s].cur
           p == PathOf[g]
<1>1. /\ pc[s] = "move" /\ pc'[s] = "sidecar" /\ d \in Folders
      /\ store' = [store EXCEPT ![d] = Deposit(@, p, home[p])]
      /\ taken' = [taken EXCEPT ![g] = home[p]]
      /\ UNCHANGED <<rows, local>>
    BY DEF Move, At, Goto, Serial, TypeInv, TypeOK, JobOK, InFolder
<1>2. g \in Findings /\ Quarantining(s) /\ ~Held(g)
    BY <1>1, Working DEF Serial, StepInv, StepOK, Loaded, OnFinding, Steps
<1>3. /\ store[d].made /\ store[d].file = Absent
      /\ \A f \in Findings : Held(f) => HeldIn(f) # d
    BY <1>1 DEF HoldInv, SessionHolds
<1>4. /\ \A c \in Folders : c # d => store'[c] = store[c]
      /\ \A f \in Findings : taken'[f] = IF f = g THEN home[p] ELSE taken[f]
      /\ store'[d] = Deposit(store[d], p, home[p])
    BY <1>1, <1>2 DEF Serial, TypeInv, TypeOK
<1>5. store'[d].made /\ store'[d].file \in {taken'[g], Absent}
    BY <1>1, <1>2, <1>3, <1>4 DEF Deposit, Serial, TypeInv, TypeOK, Entry
<1>6. Work(s) /\ UNCHANGED <<draft, dir, job>>
    BY <1>1 DEF Work, Step, rows, local
<1>7. \A f \in Findings : ~Leaving(f)
  <2>1. \A t \in Sessions : t # s => pc[t] \in Rest
    BY <1>6, OthersRest DEF Serial
  <2> QED
    BY <1>1, <2>1 DEF Leaving, Rest
<1>8. SessionHolds(s)'
    BY <1>1, <1>3, <1>5, <1>6 DEF SessionHolds, Held, HeldIn
<1> QED
    BY <1>2, <1>3, <1>4, <1>5, <1>6, <1>7, <1>8, HoldDisk

LEMMA SidecarHold ==
    ASSUME Serial, HoldInv, ~Overlap, NEW s \in Sessions, WriteSidecar(s), ~Fails(s)
    PROVE  HoldInv'
<1> DEFINE d == dir[s]
<1>1. /\ pc[s] = "sidecar" /\ pc'[s] = "merge" /\ d \in Folders
      /\ store[d].made /\ store' = [store EXCEPT ![d].meta = Sidecar]
      /\ UNCHANGED <<home, taken, rows, local>>
    BY DEF WriteSidecar, At, Goto, Serial, TypeInv, TypeOK, JobOK, InFolder
<1>2. /\ \A c \in Folders : c # d => store'[c] = store[c]
      /\ store'[d].made /\ store'[d].file = store[d].file
    BY <1>1 DEF Serial, TypeInv, TypeOK, Entry
<1>3. Work(s) /\ UNCHANGED <<draft, dir, taken, job>>
    BY <1>1 DEF Work, Step, rows, local
<1>4. Quarantining(s)
    BY <1>1 DEF Serial, StepInv, StepOK
<1>5. /\ \A f \in Findings : Held(f) => HeldIn(f) # d
      /\ store[d].file \in {taken[job[s].cur], Absent}
    BY <1>1, <1>4 DEF HoldInv, SessionHolds, Placed
<1>6. \A f \in Findings : ~Leaving(f)
  <2>1. \A t \in Sessions : t # s => pc[t] \in Rest
    BY <1>3, OthersRest DEF Serial
  <2> QED
    BY <1>1, <2>1 DEF Leaving, Rest
<1>7. SessionHolds(s)'
    BY <1>1, <1>2, <1>3, <1>5 DEF SessionHolds, Held, HeldIn
<1> QED
    BY <1>2, <1>3, <1>5, <1>6, <1>7, HoldDisk

(* A folder is emptied: by a restore, or by a delete.                         *)
LEMMA EmptyHold ==
    ASSUME Serial, HoldInv, ~Overlap, NEW s \in Sessions,
           PutBack(s) \/ Clear(s) \/ Purge(s), ~Fails(s)
    PROVE  HoldInv'
<1> DEFINE d == dir[s]
           g == job[s].cur
<1>1. /\ pc[s] \in {"putback", "clear", "purge"} /\ d \in Folders
      /\ UNCHANGED <<taken, rows, local>>
    BY DEF PutBack, Clear, Purge, At, Serial, TypeInv, TypeOK, JobOK, InFolder, Fails, disk,
           local
<1>2. Work(s) /\ UNCHANGED <<draft, dir, job>>
    BY <1>1 DEF Work, Step, rows, local
<1>3. g \in Findings /\ Releasing(s) /\ ~Quarantining(s) /\ Held(g) /\ d = HeldIn(g)
  <2>1. job[s].op \in {"restore", "delete"}
    BY <1>1 DEF Serial, StepInv, StepOK
  <2> QED
    BY <1>1, <2>1, Working DEF Releasing, Quarantining, Loaded, OnFinding, Steps
<1>4. \A f \in Findings : Held(f) /\ HeldIn(f) = d => f = g
    BY <1>3 DEF HoldInv
<1>5. \/ pc'[s] = "merge" /\ store' \in {store, [store EXCEPT ![d] = NoEntry]}
      \/ pc'[s] \in {"clear", "fail"} /\ store' = [store EXCEPT ![d].file = Absent]
  <2>1. ASSUME NEW step, Goto(s, step) PROVE pc'[s] = step
    BY <2>1 DEF Goto, Serial, TypeInv, TypeOK
  <2> QED
    BY <2>1 DEF PutBack, Clear, Purge
<1>6. \A f \in Findings : ~Leaving(f)
  <2>1. \A t \in Sessions : t # s => pc[t] \in Rest
    BY <1>2, OthersRest DEF Serial
  <2> QED
    BY <1>1, <2>1 DEF Leaving, Rest
<1>7. store[d].made /\ store[d].file \in {taken[g], Absent}
    BY <1>3, <1>6 DEF HoldInv, RowHolds
<1>8. ~Placed(s)' /\ pc'[s] # "move"
    BY <1>2, <1>3, <1>5 DEF Placed, Quarantining
<1>9. SessionHolds(s)'
    BY <1>8 DEF SessionHolds
<1>10. \A c \in Folders : c # d => store'[c] = store[c]
    BY <1>1, <1>5 DEF Serial, TypeInv, TypeOK
<1>11. CASE pc'[s] = "merge" /\ store' \in {store, [store EXCEPT ![d] = NoEntry]}
  <2>1. Leaving(g)'
    BY <1>2, <1>3, <1>11 DEF Leaving, Releasing
  <2>2. store'[d] \in {store[d], NoEntry}
    BY <1>1, <1>11 DEF Serial, TypeInv, TypeOK
  <2>3. /\ store'[d].file # Absent => store'[d].made
        /\ store'[d].file \in {taken[g], Absent}
    BY <1>7, <2>2 DEF NoEntry
  <2> QED
    BY <1>1, <1>2, <1>4, <1>6, <1>9, <1>10, <2>1, <2>3, HoldDisk
<1>12. CASE store' = [store EXCEPT ![d].file = Absent]
  <2>1. store'[d].file = Absent /\ store'[d].made
    BY <1>1, <1>7, <1>12 DEF Serial, TypeInv, TypeOK, Entry
  <2> QED
    BY <1>1, <1>2, <1>4, <1>6, <1>9, <1>10, <2>1, HoldDisk
<1> QED
    BY <1>5, <1>11, <1>12

(* The row is written: a quarantine's names the folder it has filled, a       *)
(* restore's or a delete's names none any more.                               *)
LEMMA WriteHold ==
    ASSUME Serial, HoldInv, ~Overlap, NEW s \in Sessions, Write(s)
    PROVE  HoldInv'
<1>0. PICK g \in Findings, d \in Folders \cup {None} : g = job[s].cur /\ d = dir[s]
    BY WriteSerial DEF Serial, TypeInv, TypeOK
<1> DEFINE op == job[s].op
           new == Changed(op, ent[s], d)
<1>1. /\ pc[s] = "write" /\ pc'[s] \in {"next", "commit"}
      /\ op \in Operations
      /\ ent[s] = draft.finding[g]
      /\ draft'.finding = [draft.finding EXCEPT ![g] = new]
      /\ UNCHANGED <<disk, local>>
    BY <1>0, WriteSerial DEF Serial
<1>2. UNCHANGED <<store, taken>>
    BY <1>1 DEF disk
<1>3. \A f \in Findings : draft'.finding[f] = IF f = g THEN new ELSE draft.finding[f]
    BY <1>1 DEF Serial, TypeInv, TypeOK, Tables
<1>4. /\ Quarantining(s) => ~Held(g)
      /\ Releasing(s) => Held(g)
    BY <1>0, <1>1, Working DEF Loaded, OnFinding, Steps
<1>5. ~Quarantining(s) /\ ~Releasing(s) => op = "acknowledge"
    BY <1>1 DEF Quarantining, Releasing, Operations
<1>6. /\ Quarantining(s) => new.state = "QUARANTINED" /\ new.folder = d
      /\ Releasing(s) => new.state # "QUARANTINED" /\ new.folder = None
      /\ op = "acknowledge" => new.state = ent[s].state /\ new.folder = ent[s].folder
    BY DEF Changed, Outcome, Quarantining, Releasing
<1>7. \A f \in Findings : f # g => Held(f)' = Held(f) /\ HeldIn(f)' = HeldIn(f)
    BY <1>3 DEF Held, HeldIn
<1>8. /\ Quarantining(s) => Held(g)' /\ HeldIn(g)' = d
      /\ Releasing(s) => ~Held(g)' /\ HeldIn(g)' = None
      /\ op = "acknowledge" => Held(g)' = Held(g) /\ HeldIn(g)' = HeldIn(g)
    BY <1>1, <1>3, <1>6 DEF Held, HeldIn
<1>9. Quarantining(s) =>
         /\ d \in Folders /\ store[d].made /\ store[d].file \in {taken[g], Absent}
         /\ \A f \in Findings : Held(f) => HeldIn(f) # d
    BY <1>0, <1>1 DEF HoldInv, SessionHolds, Placed
<1>10. \A t \in Sessions : t # s => pc[t] \in Rest /\ pc'[t] \in Rest
    BY OthersRest DEF Serial, Work, Step
<1>11. \A f \in Findings : Leaving(f) => f = g /\ Releasing(s)
    BY <1>0, <1>10 DEF Leaving, Rest
<1>12. ASSUME NEW f \in Findings PROVE RowHolds(f)'
  <2>1. CASE f # g
    BY <1>2, <1>7, <1>11, <2>1 DEF HoldInv, RowHolds
  <2>2. CASE f = g /\ Quarantining(s)
    BY <1>2, <1>8, <1>9, <2>2 DEF RowHolds
  <2>3. CASE f = g /\ Releasing(s)
    BY <1>8, <2>3 DEF RowHolds
  <2>4. CASE f = g /\ op = "acknowledge"
    <3>1. ~Leaving(g)
      BY <1>11, <2>4 DEF Releasing
    <3> QED
      BY <1>2, <1>8, <2>4, <3>1 DEF HoldInv, RowHolds
  <2> QED
    BY <1>5, <2>1, <2>2, <2>3, <2>4
<1>13. ASSUME NEW f \in Findings, NEW h \in Findings, Held(f)', Held(h)', f # h
       PROVE  HeldIn(f)' # HeldIn(h)'
  <2>1. CASE f # g /\ h # g
    BY <1>7, <1>13, <2>1 DEF HoldInv
  <2>2. CASE Quarantining(s) /\ (f = g \/ h = g)
    BY <1>7, <1>8, <1>9, <1>13, <2>2
  <2>3. CASE Releasing(s) /\ (f = g \/ h = g)
    BY <1>8, <1>13, <2>3
  <2>4. CASE op = "acknowledge" /\ (f = g \/ h = g)
    BY <1>7, <1>8, <1>13, <2>4 DEF HoldInv
  <2> QED
    BY <1>5, <2>1, <2>2, <2>3, <2>4
<1>14. ASSUME NEW t \in Sessions PROVE SessionHolds(t)'
    BY <1>1, <1>10 DEF SessionHolds, Placed, Rest
<1> QED
    BY <1>2, <1>12, <1>13, <1>14 DEF HoldInv

(* A session that begins, ends or reads; its rollback finds the findings as   *)
(* they were committed.                                                       *)
LEMMA RestHold ==
    ASSUME Serial, HoldInv, ~Overlap, NEW s \in Sessions, Work(s),
           \/ \E op \in Operations, f \in Findings : Request(s, op, f)
           \/ AutoRun(s) \/ Load(s) \/ Check(s) \/ Locate(s) \/ Merge(s)
           \/ RecordFailure(s) \/ Raise(s) \/ Commit(s)
           \/ AutoNext(s) \/ AutoTrip(s) \/ AutoFinish(s)
    PROVE  HoldInv'
<1> USE DEF Serial
<1>1. UNCHANGED disk
    BY DEF Request, AutoRun, Load, Check, Locate, Merge, RecordFailure, Raise, Commit,
           AutoNext, AutoTrip, AutoFinish, Fails
<1>2. draft'.finding = draft.finding
  <2>1. CASE RecordFailure(s)
    BY <2>1, RecordFailureDraft
  <2>2. CASE Raise(s)
    BY <2>2 DEF Raise, At, DraftInv
  <2>3. CASE AutoTrip(s)
    BY <2>3, OthersRest, AutoTripJob DEF TypeInv, TypeOK, Tables
  <2> QED
    BY <2>1, <2>2, <2>3
    DEF Request, AutoRun, Load, Check, Locate, Merge, Commit, AutoNext, AutoFinish, rows
<1>3. CASE Merge(s)
  <2>1. /\ pc[s] = "merge" /\ pc'[s] = "write"
        /\ UNCHANGED <<store, taken, draft, job, dir>>
    BY <1>3 DEF Merge, At, Goto, rows, disk, TypeInv, TypeOK
  <2>2. SessionHolds(s)
    BY DEF HoldInv
  <2>3. SessionHolds(s)'
    BY <2>1, <2>2 DEF SessionHolds, Placed, Quarantining, Held, HeldIn
  <2> QED
    BY <1>1, <1>2, <2>1, <2>3, HoldStay
<1>4. CASE Load(s)
  <2>1. pc[s] = "load" /\ job[s].op \in Operations
    BY <1>4 DEF Load, At, TypeInv, JobOK, OnFinding, Steps
  <2>2. \/ pc'[s] \in {"next", "done"}
        \/ pc'[s] = FirstStep[job[s].op] /\ job'[s] = job[s]
    BY <1>4 DEF Load, End, Goto, TypeInv, TypeOK
  <2>3. pc'[s] # "move" /\ ~Placed(s)'
    BY <2>1, <2>2 DEF FirstStep, Placed, Quarantining, Operations
  <2> QED
    BY <1>1, <1>2, <2>1, <2>3, HoldStay DEF SessionHolds
<1>5. CASE ~Merge(s) /\ ~Load(s)
  <2>1. pc[s] \notin {"merge", "write"}
    BY <1>5 DEF Request, AutoRun, MayStart, Check, Locate, RecordFailure, Raise, Commit,
                AutoNext, AutoTrip, AutoFinish, At
  <2>2. pc'[s] \notin {"move", "sidecar", "merge", "write"}
    BY <1>5
    DEF Request, AutoRun, Check, Locate, RecordFailure, Raise, Commit, AutoNext, AutoTrip,
        AutoFinish, Fails, End, Goto, TypeInv, TypeOK
  <2> QED
    BY <1>1, <1>2, <2>1, <2>2, HoldStay DEF SessionHolds, Placed
<1> QED
    BY <1>3, <1>4, <1>5

LEMMA HoldInvStep ==
    ASSUME ~Overlap, ~SessionsDie
    PROVE  Serial /\ HoldInv /\ [Next]_vars => HoldInv'
<1> SUFFICES ASSUME Serial, HoldInv, [Next]_vars PROVE HoldInv'
    OBVIOUS
<1>1. CASE Outside \/ UNCHANGED vars
    BY <1>1 DEF Outside, OwnerEdit, rows, local, vars, HoldInv, RowHolds, SessionHolds, Held,
                HeldIn, Leaving, Releasing, Placed, Quarantining
<1>2. ASSUME NEW s \in Sessions, Work(s) PROVE HoldInv'
  <2>1. CASE MkDir(s) \/ Move(s) \/ WriteSidecar(s) \/ PutBack(s) \/ Clear(s) \/ Purge(s)
    <3>1. CASE Fails(s)
      <4>1. UNCHANGED <<rows, local, disk>> /\ pc[s] \notin {"merge", "write"}
        BY <2>1, <3>1 DEF MkDir, Move, WriteSidecar, PutBack, Clear, Purge, At, Fails
      <4>2. pc'[s] = "fail"
        BY <3>1 DEF Fails, Goto, Serial, TypeInv, TypeOK
      <4> QED
        BY <1>2, <4>1, <4>2, HoldStay DEF rows, SessionHolds, Placed
    <3>2. CASE ~Fails(s)
      BY <2>1, <3>2, MkDirHold, MoveHold, SidecarHold, EmptyHold
    <3> QED
      BY <3>1, <3>2
  <2>2. CASE Write(s)
    BY <2>2, WriteHold
  <2>3. ~Die(s)
    BY DEF Die
  <2> QED
    BY <1>2, <2>1, <2>2, <2>3, RestHold DEF Work, Step
<1> QED
    BY <1>1, <1>2, NextCases

--------------------------------------------------------------------------------
(* The theorems.                                                              *)

LEMMA SerialAlways ==
    ASSUME ~Overlap
    PROVE  Spec => []Serial
<1>1. Init => Serial
    BY InitTypeInv, InitStepInv, InitHolder, InitSerial, InitDraft DEF Serial
<1>2. Serial /\ [Next]_vars => Serial'
    BY TypeInvStep, StepInvStep, HolderInvStep, SerialInvStep, DraftInvStep DEF Serial
<1> QED
    BY <1>1, <1>2, PTL DEF Spec

LEMMA HoldAlways ==
    ASSUME ~Overlap, ~SessionsDie
    PROVE  Spec => [](Serial /\ HoldInv)
<1>1. Serial /\ HoldInv /\ [Next]_vars => HoldInv'
    BY HoldInvStep
<1> QED
    BY <1>1, InitHold, SerialAlways, PTL DEF Spec

(* What RestoresWhatWasTaken says of one step.                                *)
RestoresTaken ==
    \A s \in Sessions :
       pc[s] = "putback" /\ pc'[s] = "clear" =>
          home'[PathOf[job[s].cur]] = taken[job[s].cur]

LEMMA RestoresTakenStep == Serial /\ HoldInv /\ [Next]_vars => RestoresTaken
<1> SUFFICES ASSUME Serial, HoldInv, [Next]_vars,
                    NEW s \in Sessions, pc[s] = "putback", pc'[s] = "clear"
             PROVE  home'[PathOf[job[s].cur]] = taken[job[s].cur]
    BY DEF RestoresTaken
<1>1. PutBack(s)
  <2>1. PICK t \in Sessions : Work(t)
    BY NextCases DEF Outside, OwnerEdit, vars
  <2>2. t = s
    BY <2>1, Frame DEF Serial
  <2>3. ~Die(s)
    BY DEF Die, End, Goto, Serial, TypeInv, TypeOK
  <2> QED
    BY <2>1, <2>2, <2>3
    DEF Work, Step, Request, AutoRun, MayStart, At, Load, Check, MkDir, Move, WriteSidecar,
        Locate, Clear, Purge, Merge, Write, RecordFailure, Raise, AutoNext, AutoTrip,
        AutoFinish, Commit
<1>2. /\ Restorable(dir[s])
      /\ home' = [home EXCEPT ![PathOf[job[s].cur]] = store[dir[s]].file]
    BY <1>1 DEF PutBack, Fails, Goto, Serial, TypeInv, TypeOK
<1>3. /\ job[s].cur \in Findings
      /\ Held(job[s].cur) /\ dir[s] = HeldIn(job[s].cur)
    BY Working DEF Loaded, OnFinding, Steps, Serial, StepInv, StepOK, Releasing
<1>4. store[dir[s]].file = taken[job[s].cur]
    BY <1>2, <1>3 DEF HoldInv, RowHolds, Restorable
<1>5. PathOf[job[s].cur] \in Paths
    BY <1>3, DataAssumption
<1> QED
    BY <1>2, <1>4, <1>5 DEF Serial, TypeInv, TypeOK

(* What a restore puts at a finding's path are the bytes that finding's       *)
(* quarantine took from there: when one session runs at a time and none dies  *)
(* before it commits, whatever the owner edits and whichever filesystem call  *)
(* fails.                                                                     *)
THEOREM RestoredAsTaken ==
    ASSUME ~Overlap, ~SessionsDie
    PROVE  Spec => RestoresWhatWasTaken
<1>1. Serial /\ HoldInv /\ [Next]_vars => [RestoresTaken]_vars
    BY RestoresTakenStep
<1>2. Spec => [][RestoresTaken]_vars
    BY <1>1, HoldAlways, PTL DEF Spec
<1> QED
    BY <1>2 DEF RestoresWhatWasTaken, RestoresTaken

--------------------------------------------------------------------------------
(* The rows implement the abstract lifecycle.                                 *)

LEMMA InitLifecycle == Init => Lifecycle!Init
BY DEF Init, Lifecycle!Init, NewRow

(* Only a commit changes the rows, to what its session has drafted.           *)
LEMMA OnlyCommit ==
    ASSUME [Next]_vars, db' # db
    PROVE  \E s \in Sessions : pc[s] = "commit" /\ writer = s /\ db' = draft
<1>1. PICK s \in Sessions : Work(s)
    BY NextCases DEF Outside, OwnerEdit, vars, rows
<1>2. /\ \A op \in Operations, f \in Findings : ~Request(s, op, f)
      /\ ~AutoRun(s) /\ ~Die(s)
    BY DEF Request, AutoRun, Die, rows
<1>3. ~(\/ Load(s) \/ Check(s) \/ MkDir(s) \/ Move(s) \/ WriteSidecar(s)
        \/ Locate(s) \/ PutBack(s) \/ Clear(s) \/ Purge(s) \/ Merge(s))
    BY DEF Load, Check, MkDir, Move, WriteSidecar, Locate, PutBack, Clear, Purge, Merge, rows
<1>4. ~(Write(s) \/ RecordFailure(s) \/ Raise(s) \/ AutoNext(s) \/ AutoTrip(s) \/ AutoFinish(s))
    BY DEF Write, RecordFailure, Raise, AutoNext, AutoTrip, AutoFinish, rows
<1>5. Commit(s)
    BY <1>1, <1>2, <1>3, <1>4 DEF Work, Step
<1> QED
    BY <1>5 DEF Commit, At

(* A committed row that is not quarantined names no folder.                   *)
CommittedInv ==
    \A f \in Findings : db.finding[f].state # "QUARANTINED" => db.finding[f].folder = None

LEMMA CommittedStep ==
    ASSUME ~Overlap
    PROVE  Serial /\ HoldInv /\ CommittedInv /\ [Next]_vars => CommittedInv'
<1> SUFFICES ASSUME Serial, HoldInv, CommittedInv, [Next]_vars PROVE CommittedInv'
    OBVIOUS
<1>1. CASE db' = db
    BY <1>1 DEF CommittedInv
<1>2. CASE db' = draft
    BY <1>2 DEF CommittedInv, HoldInv, RowHolds, Held, HeldIn
<1> QED
    BY <1>1, <1>2, OnlyCommit

(* A session that has quarantined findings commits them.                      *)
LEMMA QuarantineStep ==
    ASSUME Serial, HoldInv, CommittedInv, NEW s \in Sessions, pc[s] = "commit", db' = draft,
           Quarantining(s)
    PROVE  [Lifecycle!Next]_Lifecycle!vars
<1>0. PICK F \in SUBSET Findings :
         \A f \in Findings : f \in F <=> draft.finding[f] # db.finding[f]
  <2>1. {f \in Findings : draft.finding[f] # db.finding[f]} \in SUBSET Findings
    OBVIOUS
  <2> QED
    BY <2>1
<1>1. \A f \in Findings : Drafted(s, f)
    BY DEF Serial, DraftInv, Rest
<1>2. \A f \in F : /\ db.finding[f].state = "NONE" /\ db.finding[f].folder = None
                   /\ Held(f)
                   /\ draft.finding[f].ack = db.finding[f].ack
    BY <1>0, <1>1 DEF Drafted, Held, CommittedInv
<1>3. \A f \in Findings \ F : draft.finding[f] = db.finding[f]
    BY <1>0
<1>4. /\ \A f \in Findings : draft.finding[f].folder \in Folders \cup {None}
      /\ \A f \in F : draft.finding[f].folder \in Folders
      /\ \A f, g \in Findings : Held(f) /\ Held(g) /\ f # g =>
            draft.finding[f].folder # draft.finding[g].folder
      /\ \A f \in Findings : draft.finding[f].folder # None => Held(f)
  <2>1. \A f \in Findings : draft.finding[f] \in Row
    BY DEF Serial, TypeInv, TypeOK, Tables
  <2> QED
    BY <1>2, <2>1 DEF Row, HoldInv, RowHolds, Held, HeldIn
<1>5. ASSUME NEW f \in F PROVE draft.finding[f].folder \notin Lifecycle!Held
  <2>1. ASSUME NEW g \in Findings, db.finding[g].folder # None
        PROVE  db.finding[g].folder # draft.finding[f].folder
    <3>1. g \notin F /\ draft.finding[g] = db.finding[g]
      BY <1>2, <1>3, <2>1
    <3> QED
      BY <1>2, <1>4, <2>1, <3>1
  <2> QED
    BY <2>1 DEF Lifecycle!Held
<1>6. CASE F # {}
  <2>1. Lifecycle!Quarantine(F)
    <3>1. \A f \in F : db.finding[f].state = "NONE"
      BY <1>2
    <3>2. [f \in Findings |-> db.finding[f].state]' =
             [f \in Findings |-> IF f \in F THEN "QUARANTINED"
                                 ELSE [g \in Findings |-> db.finding[g].state][f]]
      BY <1>2, <1>3 DEF Held
    <3>3. [f \in Findings |-> db.finding[f].folder]' \in [Findings -> Folders \cup {None}]
      BY <1>4
    <3>4. {f \in Findings : db.finding[f].ack}' = {f \in Findings : db.finding[f].ack}
      BY <1>2, <1>3
    <3> QED
      BY <1>2, <1>3, <1>4, <1>5, <1>6, <3>1, <3>2, <3>3, <3>4 DEF Lifecycle!Quarantine
  <2> QED
    BY <2>1 DEF Lifecycle!Next
<1>7. CASE F = {}
    BY <1>3, <1>7 DEF Lifecycle!vars
<1> QED
    BY <1>6, <1>7

(* A request that changes one finding commits it.                             *)
LEMMA RequestStep ==
    ASSUME Serial, HoldInv, CommittedInv, NEW s \in Sessions, pc[s] = "commit", db' = draft,
           ~Quarantining(s)
    PROVE  [Lifecycle!Next]_Lifecycle!vars
<1> DEFINE op == job[s].op
           row == [f \in Findings |-> db.finding[f]]
<1>1. \A f \in Findings : Drafted(s, f)
    BY DEF Serial, DraftInv, Rest
<1>2. CASE \A f \in Findings : draft.finding[f] = db.finding[f]
    BY <1>2 DEF Lifecycle!vars
<1>3. ASSUME NEW g \in Findings, draft.finding[g] # db.finding[g]
      PROVE  [Lifecycle!Next]_Lifecycle!vars
  <2>1. /\ job[s].cur = g /\ op \in {"restore", "delete", "acknowledge"}
        /\ op # "acknowledge" => db.finding[g].state = "QUARANTINED"
        /\ draft.finding[g] = Changed(op, db.finding[g], dir[s])
    BY <1>1, <1>3 DEF Drafted, Quarantining, Releasing, Operations
  <2>2. \A f \in Findings : f # g => draft.finding[f] = db.finding[f]
    BY <1>1, <1>3, <2>1 DEF Drafted
  <2>3. db.finding[g].ack \in BOOLEAN
    BY DEF Serial, TypeInv, TypeOK, Tables, Row
  <2>4. CASE op \in {"restore", "delete"}
    <3>1. /\ draft.finding[g].state = IF op = "restore" THEN "RESTORED" ELSE "DELETED"
          /\ draft.finding[g].folder = None
          /\ draft.finding[g].ack = db.finding[g].ack
      BY <2>1, <2>3, <2>4 DEF Changed, Outcome
    <3>2. Lifecycle!Release(g, "RESTORED") \/ Lifecycle!Release(g, "DELETED")
      BY <2>1, <2>2, <2>4, <3>1 DEF Lifecycle!Release
    <3> QED
      BY <3>2 DEF Lifecycle!Next
  <2>5. CASE op = "acknowledge"
    <3>1. /\ draft.finding[g].state = db.finding[g].state
          /\ draft.finding[g].folder = db.finding[g].folder
          /\ draft.finding[g].ack = TRUE
      <4>1. Changed(op, db.finding[g], dir[s]) =
               [state |-> db.finding[g].state, folder |-> db.finding[g].folder, ack |-> TRUE]
        BY <2>3, <2>5 DEF Changed
      <4> QED
        BY <2>1, <4>1
    <3>2. Lifecycle!Acknowledge(g)
      BY <2>2, <3>1 DEF Lifecycle!Acknowledge
    <3> QED
      BY <3>2 DEF Lifecycle!Next
  <2> QED
    BY <2>1, <2>4, <2>5
<1> QED
    BY <1>2, <1>3

LEMMA LifecycleStep ==
    ASSUME ~Overlap
    PROVE  Serial /\ HoldInv /\ CommittedInv /\ [Next]_vars => [Lifecycle!Next]_Lifecycle!vars
<1> SUFFICES ASSUME Serial, HoldInv, CommittedInv, [Next]_vars
             PROVE  [Lifecycle!Next]_Lifecycle!vars
    OBVIOUS
<1>1. CASE db' = db
    BY <1>1 DEF Lifecycle!vars
<1>2. CASE \E s \in Sessions : pc[s] = "commit" /\ db' = draft
    BY <1>2, QuarantineStep, RequestStep
<1> QED
    BY <1>1, <1>2, OnlyCommit

(* The committed rows implement the abstract lifecycle of findings: a commit  *)
(* quarantines findings that were NONE, each in a folder no row names, or     *)
(* releases one, or acknowledges one, and every other step is a stutter.      *)
(* Filesystem calls may fail and the owner may edit files.                    *)
THEOREM LifecycleImplemented ==
    ASSUME ~Overlap, ~SessionsDie
    PROVE  Spec => ImplementsLifecycle
<1>1. Init => CommittedInv
    BY DEF Init, CommittedInv, NewRow
<1>2. Spec => []CommittedInv
    BY <1>1, CommittedStep, HoldAlways, PTL DEF Spec
<1>3. Spec => [][Lifecycle!Next]_Lifecycle!vars
    BY <1>2, LifecycleStep, HoldAlways, PTL DEF Spec
<1>4. Spec => Lifecycle!Init
    BY InitLifecycle DEF Spec
<1> QED
    BY <1>3, <1>4 DEF ImplementsLifecycle, Lifecycle!Spec

--------------------------------------------------------------------------------
(* "Quarantine is always reversible".  HoldInv lets a folder be empty; when   *)
(* no filesystem call fails it is not, until a session restores or deletes    *)
(* its finding and is about to write that.                                    *)

Emptied(f) ==
    \E s \in Sessions :
       pc[s] \in {"clear", "merge", "write"} /\ Releasing(s) /\ job[s].cur = f

Full(s) ==
    /\ Placed(s) =>
          taken[job[s].cur] # Absent /\ store[dir[s]].file = taken[job[s].cur]
    /\ pc[s] = "clear" => home[PathOf[job[s].cur]] # Absent

KeepInv ==
    /\ \A f \in Findings : Held(f) /\ ~Emptied(f) =>
          taken[f] # Absent /\ store[HeldIn(f)].file = taken[f]
    /\ \A s \in Sessions : Full(s)

LEMMA InitKeep == Init => KeepInv
BY DEF Init, KeepInv, Held, Full, Placed, NewRow

LEMMA KeepStep ==
    ASSUME Serial, KeepInv, ~Overlap, NEW s \in Sessions, Work(s),
           draft'.finding = draft.finding,
           \A f \in Findings : Held(f) /\ ~Emptied(f)' =>
              /\ ~Emptied(f)
              /\ taken'[f] = taken[f]
              /\ store'[HeldIn(f)].file = store[HeldIn(f)].file,
           Full(s)'
    PROVE  KeepInv'
<1>1. \A f \in Findings : Held(f)' = Held(f) /\ HeldIn(f)' = HeldIn(f)
    BY DEF Held, HeldIn
<1>2. ASSUME NEW t \in Sessions, t # s PROVE Full(t)'
  <2>1. pc'[t] \in Rest
    BY <1>2, OthersRest DEF Serial
  <2> QED
    BY <2>1 DEF Full, Placed, Rest
<1> QED
    BY <1>1, <1>2 DEF KeepInv

(* A session that is past none of the steps that empty a folder.              *)
LEMMA NotEmptied ==
    ASSUME Serial, ~Overlap, NEW s \in Sessions, Work(s),
           pc[s] \notin {"clear", "merge", "write"} \/ ~Releasing(s)
    PROVE  \A f \in Findings : ~Emptied(f)
<1>1. \A t \in Sessions : t # s => pc[t] \in Rest
    BY OthersRest DEF Serial
<1> QED
    BY <1>1 DEF Emptied, Rest

(* Nothing leaves a folder, and no folder is being emptied.                   *)
LEMMA KeepStay ==
    ASSUME Serial, KeepInv, ~Overlap, NEW s \in Sessions, Work(s),
           draft'.finding = draft.finding, UNCHANGED <<store, taken>>,
           pc[s] \notin {"clear", "merge", "write"},
           pc'[s] \notin {"clear", "sidecar", "merge", "write"} \/ Full(s)'
    PROVE  KeepInv'
<1>1. Full(s)'
    BY DEF Full, Placed
<1> QED
    BY <1>1, NotEmptied, KeepStep

LEMMA PlaceKeep ==
    ASSUME Serial, HoldInv, KeepInv, ~Overlap,
           \A f \in Findings : NameOf[PathOf[f]] # SidecarName,
           NEW s \in Sessions, MkDir(s) \/ Move(s) \/ WriteSidecar(s), ~Fails(s)
    PROVE  KeepInv'
<1>0. PICK d \in Folders, g \in Findings : d = dir[s] /\ g = job[s].cur
    BY DEF MkDir, Move, WriteSidecar, At, Serial, TypeInv, JobOK, InFolder, OnFinding, Steps
<1>1. /\ pc[s] \in {"mkdir", "move", "sidecar"}
      /\ UNCHANGED <<rows, local>>
    BY DEF MkDir, Move, WriteSidecar, At
<1>2. Work(s) /\ UNCHANGED <<draft, dir, job>>
    BY <1>1 DEF Work, Step, rows, local
<1>3. Quarantining(s) /\ ~Held(g)
    BY <1>0, <1>1, Working DEF Serial, StepInv, StepOK, Loaded, OnFinding, Steps
<1>4. \A f \in Findings : ~Emptied(f)
    BY <1>1, <1>2, NotEmptied
<1>5. CASE MkDir(s)
  <2>1. /\ pc'[s] = "move" /\ store' = [store EXCEPT ![d].made = TRUE]
        /\ UNCHANGED taken
    BY <1>0, <1>5 DEF MkDir, Goto, Serial, TypeInv, TypeOK
  <2>2. \A c \in Folders : store'[c].file = store[c].file
    BY <2>1 DEF Serial, TypeInv, TypeOK, Entry
  <2>3. \A f \in Findings : Held(f) => HeldIn(f) \in Folders
    BY DEF HoldInv, RowHolds
  <2>4. Full(s)'
    BY <2>1 DEF Full, Placed
  <2> QED
    BY <1>2, <1>4, <2>1, <2>2, <2>3, <2>4, KeepStep
<1>6. CASE Move(s)
  <2>1. /\ pc[s] = "move" /\ pc'[s] = "sidecar" /\ home[PathOf[g]] # Absent
        /\ store' = [store EXCEPT ![d] = Deposit(@, PathOf[g], home[PathOf[g]])]
        /\ taken' = [taken EXCEPT ![g] = home[PathOf[g]]]
    BY <1>0, <1>6 DEF Move, At, Goto, Serial, TypeInv, TypeOK
  <2>2. \A f \in Findings : Held(f) => HeldIn(f) \in Folders /\ HeldIn(f) # d
    BY <1>0, <2>1 DEF HoldInv, SessionHolds, RowHolds
  <2>3. /\ \A c \in Folders : c # d => store'[c] = store[c]
        /\ \A f \in Findings : f # g => taken'[f] = taken[f]
        /\ taken'[g] = home[PathOf[g]]
        /\ store'[d] = [store[d] EXCEPT !.file = home[PathOf[g]]]
    BY <2>1 DEF Deposit, Serial, TypeInv, TypeOK
  <2>4. store'[d].file = home[PathOf[g]]
    BY <2>3 DEF Serial, TypeInv, TypeOK, Entry
  <2>5. Full(s)'
    BY <1>0, <1>2, <2>1, <2>3, <2>4 DEF Full
  <2> QED
    BY <1>2, <1>3, <1>4, <2>2, <2>3, <2>5, KeepStep
<1>7. CASE WriteSidecar(s)
  <2>1. /\ pc[s] = "sidecar" /\ pc'[s] = "merge"
        /\ store' = [store EXCEPT ![d].meta = Sidecar] /\ UNCHANGED taken
    BY <1>0, <1>7 DEF WriteSidecar, At, Goto, Serial, TypeInv, TypeOK
  <2>2. \A c \in Folders : store'[c].file = store[c].file
    BY <2>1 DEF Serial, TypeInv, TypeOK, Entry
  <2>3. \A f \in Findings : Held(f) => HeldIn(f) \in Folders
    BY DEF HoldInv, RowHolds
  <2>4. Full(s)'
    BY <1>0, <1>2, <1>3, <2>1, <2>2 DEF KeepInv, Full, Placed
  <2> QED
    BY <1>2, <1>4, <2>1, <2>2, <2>3, <2>4, KeepStep
<1> QED
    BY <1>5, <1>6, <1>7

LEMMA EmptyKeep ==
    ASSUME Serial, HoldInv, KeepInv, ~Overlap, ~FsFaults, NEW s \in Sessions,
           PutBack(s) \/ Clear(s) \/ Purge(s)
    PROVE  KeepInv'
<1>0. PICK d \in Folders, g \in Findings : d = dir[s] /\ g = job[s].cur
    BY DEF PutBack, Clear, Purge, At, Serial, TypeInv, JobOK, InFolder, OnFinding, Steps
<1>1. /\ pc[s] \in {"putback", "clear", "purge"}
      /\ UNCHANGED <<rows, local>>
    BY DEF PutBack, Clear, Purge, At
<1>2. Work(s) /\ UNCHANGED <<draft, dir, job>>
    BY <1>1 DEF Work, Step, rows, local
<1>3. Releasing(s) /\ ~Quarantining(s) /\ Held(g) /\ d = HeldIn(g)
  <2>1. job[s].op \in {"restore", "delete"}
    BY <1>1 DEF Serial, StepInv, StepOK
  <2> QED
    BY <1>0, <1>1, <2>1, Working DEF Releasing, Quarantining, Loaded, OnFinding, Steps
<1>4. CASE PutBack(s) /\ ~Restorable(dir[s])
  <2>1. Fails(s)
    BY <1>4 DEF PutBack
  <2> QED
    BY <1>2, <1>4, <2>1, KeepStay
    DEF PutBack, At, Fails, Goto, disk, Serial, TypeInv, TypeOK
<1>5. CASE (PutBack(s) /\ Restorable(dir[s])) \/ Clear(s) \/ Purge(s)
  <2>1. /\ pc'[s] \in {"clear", "merge"} /\ UNCHANGED taken
        /\ store' \in {[store EXCEPT ![d].file = Absent], [store EXCEPT ![d] = NoEntry]}
    <3>1. CASE PutBack(s)
      BY <1>0, <1>5, <3>1 DEF PutBack, Goto, Serial, TypeInv, TypeOK, At, Clear, Purge
    <3>2. CASE Clear(s)
      <4>1. home[PathOf[job[s].cur]] # Absent
        BY <3>2 DEF Clear, At, KeepInv, Full
      <4> QED
        BY <1>0, <3>2, <4>1 DEF Clear, Goto, Serial, TypeInv, TypeOK
    <3>3. CASE Purge(s)
      BY <1>0, <3>3 DEF Purge, Goto, Serial, TypeInv, TypeOK
    <3> QED
      BY <1>5, <3>1, <3>2, <3>3
  <2>2. \A c \in Folders : c # d => store'[c] = store[c]
    BY <2>1 DEF Serial, TypeInv, TypeOK
  <2>3. Emptied(g)'
    BY <1>0, <1>2, <1>3, <2>1 DEF Emptied, Releasing
  <2>4. \A f \in Findings : Emptied(f) => f = g
    <3>1. \A t \in Sessions : t # s => pc[t] \in Rest
      BY <1>2, OthersRest DEF Serial
    <3> QED
      BY <1>0, <3>1 DEF Emptied, Rest
  <2>5. \A f \in Findings : Held(f) /\ f # g => HeldIn(f) \in Folders /\ HeldIn(f) # d
    BY <1>3 DEF HoldInv, RowHolds
  <2>6. pc'[s] = "clear" => home'[PathOf[g]] # Absent
    <3>1. PathOf[g] \in Paths
      BY DataAssumption
    <3>2. ASSUME pc'[s] = "clear"
          PROVE  Restorable(dir[s]) /\ home' = [home EXCEPT ![PathOf[g]] = store[d].file]
      BY <1>0, <1>5, <3>2 DEF PutBack, Clear, Purge, Fails, Goto, Serial, TypeInv, TypeOK
    <3> QED
      BY <1>0, <3>1, <3>2 DEF Restorable, Serial, TypeInv, TypeOK
  <2>7. Full(s)'
    BY <1>0, <1>2, <1>3, <2>6 DEF Full, Placed, Quarantining
  <2> QED
    BY <1>2, <2>1, <2>2, <2>3, <2>4, <2>5, <2>7, KeepStep
<1> QED
    BY <1>4, <1>5

LEMMA WriteKeep ==
    ASSUME Serial, HoldInv, KeepInv, ~Overlap, NEW s \in Sessions, Write(s)
    PROVE  KeepInv'
<1>0. PICK g \in Findings, d \in Folders \cup {None} : g = job[s].cur /\ d = dir[s]
    BY WriteSerial DEF Serial, TypeInv, TypeOK
<1> DEFINE op == job[s].op
           new == Changed(op, ent[s], d)
<1>1. /\ pc[s] = "write" /\ pc'[s] \in {"next", "commit"}
      /\ op \in Operations
      /\ ent[s] = draft.finding[g]
      /\ draft'.finding = [draft.finding EXCEPT ![g] = new]
      /\ UNCHANGED <<disk, local>>
    BY <1>0, WriteSerial DEF Serial
<1>2. UNCHANGED <<store, taken>>
    BY <1>1 DEF disk
<1>3. \A f \in Findings : draft'.finding[f] = IF f = g THEN new ELSE draft.finding[f]
    BY <1>1 DEF Serial, TypeInv, TypeOK, Tables
<1>4. \A f \in Findings : f # g => Held(f)' = Held(f) /\ HeldIn(f)' = HeldIn(f)
    BY <1>3 DEF Held, HeldIn
<1>5. /\ Quarantining(s) => HeldIn(g)' = d
      /\ Releasing(s) => ~Held(g)'
      /\ op = "acknowledge" => Held(g)' = Held(g) /\ HeldIn(g)' = HeldIn(g)
    BY <1>1, <1>3 DEF Held, HeldIn, Changed, Outcome, Quarantining, Releasing
<1>6. \A t \in Sessions : t # s => pc[t] \in Rest /\ pc'[t] \in Rest
    BY OthersRest DEF Serial, Work, Step
<1>7. \A f \in Findings : Emptied(f) => f = g /\ Releasing(s)
    BY <1>0, <1>6 DEF Emptied, Rest
<1>8. Quarantining(s) => taken[g] # Absent /\ store[d].file = taken[g]
    BY <1>0, <1>1 DEF KeepInv, Full, Placed
<1>9. ASSUME NEW f \in Findings, Held(f)'
      PROVE  taken'[f] # Absent /\ store'[HeldIn(f)'].file = taken'[f]
  <2>1. CASE f # g
    BY <1>2, <1>4, <1>7, <1>9, <2>1 DEF KeepInv
  <2>2. CASE f = g /\ Quarantining(s)
    BY <1>2, <1>5, <1>8, <2>2
  <2>3. CASE f = g /\ op = "acknowledge"
    <3>1. ~Emptied(g)
      BY <1>7, <2>3 DEF Releasing
    <3> QED
      BY <1>2, <1>5, <1>9, <2>3, <3>1 DEF KeepInv
  <2>4. CASE f = g /\ Releasing(s)
    BY <1>5, <1>9, <2>4
  <2> QED
    BY <1>1, <2>1, <2>2, <2>3, <2>4 DEF Quarantining, Releasing, Operations
<1>10. \A t \in Sessions : Full(t)'
    BY <1>1, <1>6 DEF Full, Placed, Rest
<1> QED
    BY <1>9, <1>10 DEF KeepInv

LEMMA RestKeep ==
    ASSUME Serial, HoldInv, KeepInv, ~Overlap, NEW s \in Sessions, Work(s),
           \/ \E op \in Operations, f \in Findings : Request(s, op, f)
           \/ AutoRun(s) \/ Load(s) \/ Check(s) \/ Locate(s) \/ Merge(s)
           \/ RecordFailure(s) \/ Raise(s) \/ Commit(s)
           \/ AutoNext(s) \/ AutoTrip(s) \/ AutoFinish(s)
    PROVE  KeepInv'
<1> USE DEF Serial
<1>1. UNCHANGED <<store, taken, home>>
    BY DEF Request, AutoRun, Load, Check, Locate, Merge, RecordFailure, Raise, Commit,
           AutoNext, AutoTrip, AutoFinish, Fails, disk
<1>2. draft'.finding = draft.finding
  <2>1. CASE RecordFailure(s)
    BY <2>1, RecordFailureDraft
  <2>2. CASE Raise(s)
    BY <2>2 DEF Raise, At, DraftInv
  <2>3. CASE AutoTrip(s)
    BY <2>3, OthersRest, AutoTripJob DEF TypeInv, TypeOK, Tables
  <2> QED
    BY <2>1, <2>2, <2>3
    DEF Request, AutoRun, Load, Check, Locate, Merge, Commit, AutoNext, AutoFinish, rows
<1>3. CASE Merge(s)
  <2>1. /\ pc[s] = "merge" /\ pc'[s] = "write"
        /\ UNCHANGED <<job, dir>>
    BY <1>3 DEF Merge, At, Goto, TypeInv, TypeOK
  <2>2. Full(s)'
    BY <1>1, <2>1 DEF KeepInv, Full, Placed, Quarantining
  <2>3. \A f \in Findings : Emptied(f) => Emptied(f)'
    <3>1. \A t \in Sessions : t # s => pc[t] \in Rest
      BY OthersRest
    <3> QED
      BY <2>1, <3>1 DEF Emptied, Rest, Releasing
  <2> QED
    BY <1>1, <1>2, <2>2, <2>3, KeepStep
<1>4. CASE Load(s)
  <2>1. pc[s] = "load" /\ job[s].op \in Operations
    BY <1>4 DEF Load, At, TypeInv, JobOK, OnFinding, Steps
  <2>2. \/ pc'[s] \in {"next", "done"}
        \/ pc'[s] = FirstStep[job[s].op] /\ job'[s] = job[s]
    BY <1>4 DEF Load, End, Goto, TypeInv, TypeOK
  <2>3. Full(s)'
    BY <2>1, <2>2 DEF FirstStep, Full, Placed, Quarantining, Operations
  <2> QED
    BY <1>1, <1>2, <2>1, <2>3, KeepStay
<1>5. CASE ~Merge(s) /\ ~Load(s)
  <2>1. pc[s] \notin {"clear", "merge", "write"}
    BY <1>5 DEF Request, AutoRun, MayStart, Check, Locate, RecordFailure, Raise, Commit,
                AutoNext, AutoTrip, AutoFinish, At
  <2>2. pc'[s] \notin {"clear", "sidecar", "merge", "write"}
    BY <1>5
    DEF Request, AutoRun, Check, Locate, RecordFailure, Raise, Commit, AutoNext, AutoTrip,
        AutoFinish, Fails, End, Goto, TypeInv, TypeOK
  <2> QED
    BY <1>1, <1>2, <2>1, <2>2, KeepStay
<1> QED
    BY <1>3, <1>4, <1>5

LEMMA KeepInvStep ==
    ASSUME ~Overlap, ~SessionsDie, ~FsFaults,
           \A f \in Findings : NameOf[PathOf[f]] # SidecarName
    PROVE  Serial /\ HoldInv /\ KeepInv /\ [Next]_vars => KeepInv'
<1> SUFFICES ASSUME Serial, HoldInv, KeepInv, [Next]_vars PROVE KeepInv'
    OBVIOUS
<1>1. CASE UNCHANGED vars
    BY <1>1 DEF vars, KeepInv, Held, HeldIn, Emptied, Full, Placed, Releasing, Quarantining
<1>2. CASE Outside
  <2>1. /\ UNCHANGED <<store, taken, draft, pc, job, dir>>
        /\ \A s \in Sessions : pc[s] \in Rest
    BY <1>2 DEF Outside, OwnerEdit, AtRest, Rest, rows, local
  <2> QED
    BY <2>1 DEF KeepInv, Held, HeldIn, Emptied, Full, Placed, Releasing, Quarantining, Rest
<1>3. ASSUME NEW s \in Sessions, Work(s) PROVE KeepInv'
  <2>1. CASE MkDir(s) \/ Move(s) \/ WriteSidecar(s)
    <3>1. CASE Fails(s)
      <4>1. /\ UNCHANGED <<rows, store, taken>>
            /\ pc[s] \notin {"clear", "merge", "write"} /\ pc'[s] = "fail"
        BY <2>1, <3>1
        DEF MkDir, Move, WriteSidecar, At, Fails, Goto, disk, Serial, TypeInv, TypeOK
      <4> QED
        BY <1>3, <4>1, KeepStay DEF rows
    <3>2. CASE ~Fails(s)
      BY <2>1, <3>2, PlaceKeep
    <3> QED
      BY <3>1, <3>2
  <2>2. CASE PutBack(s) \/ Clear(s) \/ Purge(s)
    BY <2>2, EmptyKeep
  <2>3. CASE Write(s)
    BY <2>3, WriteKeep
  <2>4. ~Die(s)
    BY DEF Die
  <2> QED
    BY <1>3, <2>1, <2>2, <2>3, <2>4, RestKeep DEF Work, Step
<1> QED
    BY <1>1, <1>2, <1>3, NextCases

(* At rest, the file behind a QUARANTINED row is in the folder that row       *)
(* names, restorable, and is what the quarantine took: when one session runs  *)
(* at a time, none dies, no filesystem call fails and no file is itself       *)
(* called metadata.json.  The owner may edit files in between.  Each of the   *)
(* hypotheses is needed: the code promises nothing without it.                *)
THEOREM AlwaysReversible ==
    ASSUME ~Overlap, ~SessionsDie, ~FsFaults,
           \A f \in Findings : NameOf[PathOf[f]] # SidecarName
    PROVE  Spec => []Reversible
<1>1. Spec => []KeepInv
    BY InitKeep, KeepInvStep, HoldAlways, PTL DEF Spec
<1>2. Serial /\ HoldInv /\ KeepInv => Reversible
  <2> SUFFICES ASSUME Serial, HoldInv, KeepInv, AtRest, NEW f \in Findings,
                      db.finding[f].state = "QUARANTINED"
               PROVE  /\ Restorable(db.finding[f].folder)
                      /\ store[db.finding[f].folder].file = taken[f]
    BY DEF Reversible
  <2>1. \A s \in Sessions : pc[s] \in Rest
    BY DEF AtRest, Rest
  <2>2. draft = db
    BY <2>1 DEF Serial, HolderInv, TypeInv, TypeOK
  <2>3. ~Leaving(f) /\ ~Emptied(f)
    BY <2>1 DEF Leaving, Emptied, Rest
  <2>4. Held(f) /\ HeldIn(f) = db.finding[f].folder
    BY <2>2 DEF Held, HeldIn
  <2> QED
    BY <2>3, <2>4 DEF HoldInv, RowHolds, KeepInv, Restorable
<1> QED
    BY <1>1, <1>2, HoldAlways, PTL
================================================================================
