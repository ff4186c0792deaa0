----------------------------- MODULE ConsoleProofs -----------------------------
(* Theorems about Console: its type invariant, that names and jobs have one    *)
(* row each, that a revocation is for ever, and that health tells the truth.   *)
EXTENDS Console, FiniteSetTheorems, TLAPS

(* A request that is answered has a token: one that no other request has and   *)
(* no row has yet, if it made it, or else one of a session.                    *)
TokenOK(q) ==
    /\ pc[q] # "answered" => token[q] = None
    /\ pc[q] = "answered" =>
        /\ token[q] \in Tokens
        /\ IF kind[q] \in {"bridge", "login"}
           THEN /\ sessions[token[q]] = None
                /\ \A p \in Requests \ {q} : token[p] # token[q]
           ELSE sessions[token[q]] # None

(* Only a bridged login waits for a row of its own, and only an answered       *)
(* request for runs has jobs.                                                  *)
ReadOK(q) ==
    /\ pc[q] = "read" => kind[q] = "bridge"
    /\ pc[q] # "answered" \/ kind[q] # "run" => queue[q] = <<>>

(* One row of a name, counting the one that the lock holder has not committed. *)
NameOK ==
    /\ \A u, v \in users : u.name = v.name => u = v
    /\ \A q \in Requests : writer = q => \A u \in users : u.name # name[q]

HeartOK == \A g, h \in hearts : g.job = h.job => g = h

(* A success is as old as some commit at most, and one that is not recorded    *)
(* yet is of this very interval.                                               *)
AgeOK ==
    /\ \A h \in hearts : h.ok => last[h.job] <= h.age
    /\ \A r \in Runs : at[r] \in {"ended", "looked"} /\ ok[r] => last[JobOf(r)] = 0

Inv == TypeOK /\ (\A q \in Requests : TokenOK(q) /\ ReadOK(q)) /\ NameOK /\ HeartOK /\ AgeOK

--------------------------------------------------------------------------------
(* The type invariant.                                                         *)

LEMMA InitType == Init => TypeOK
<1> SUFFICES ASSUME Init PROVE TypeOK
    OBVIOUS
<1>1. Grace + 1 \in Ages /\ 0 \in 0..MaxRun /\ 0 \in 0..MaxFaults
    BY ConsoleAssumption DEF Ages
<1>2. users \subseteq User /\ hearts \subseteq Heartbeat /\ due \subseteq Jobs
    BY DEF Init
<1>3. sessions \in [Tokens -> Session \cup {None}] /\ seen \in [Requests -> Session \cup {None}]
    BY DEF Init
<1>4. queue \in [Requests -> Seq(Jobs)]
    BY DEF Init
<1>5. /\ pc \in [Requests -> {"idle", "read", "answered"}]
      /\ kind \in [Requests -> Kinds]
      /\ name \in [Requests -> Names]
      /\ token \in [Requests -> Tokens \cup {None}]
    BY DEF Init, Kinds
<1>6. /\ at \in [Runs -> {"idle", "body", "ended", "looked"}]
      /\ ok \in [Runs -> BOOLEAN]
      /\ found \in [Runs -> SUBSET Runs]
    BY DEF Init
<1>7. late \in [Runs -> 0..MaxRun] /\ last \in [Jobs -> Ages] /\ faults \in 0..MaxFaults
    BY <1>1 DEF Init
<1>8. \A q \in Requests : writer # q /\ at[q] = "idle"
    BY ConsoleAssumption DEF Init, Runs
<1> QED
    BY <1>2, <1>3, <1>4, <1>5, <1>6, <1>7, <1>8 DEF Init, TypeOK

LEMMA OlderType == ASSUME NEW a \in Ages PROVE Older(a) \in Ages
    BY ConsoleAssumption DEF Ages, Older

(* Requests are typed whatever becomes of one.                                 *)
LEMMA OverType ==
    ASSUME TypeOK, NEW q \in Requests, Over(q)
    PROVE  /\ pc' \in [Requests -> {"idle", "read", "answered"}]
           /\ kind' \in [Requests -> Kinds]
           /\ name' \in [Requests -> Names]
           /\ token' \in [Requests -> Tokens \cup {None}]
           /\ seen' \in [Requests -> Session \cup {None}]
           /\ queue' \in [Requests -> Seq(Jobs)]
           /\ pc'[q] = "idle"
           /\ \A p \in Requests \ {q} : /\ pc'[p] = pc[p] /\ kind'[p] = kind[p]
                                        /\ token'[p] = token[p] /\ queue'[p] = queue[p]
    BY DEF TypeOK, Over, Kinds

LEMMA RestType ==
    ASSUME TypeOK, NEW r \in Runs, Rest(r)
    PROVE  /\ at' \in [Runs -> {"idle", "body", "ended", "looked"}]
           /\ ok' \in [Runs -> BOOLEAN]
           /\ found' \in [Runs -> SUBSET Runs]
           /\ late' \in [Runs -> 0..MaxRun]
           /\ at'[r] = "idle"
           /\ \A s \in Runs \ {r} : at'[s] = at[s] /\ ok'[s] = ok[s] /\ found'[s] = found[s]
    BY DEF TypeOK, Rest

LEMMA JobType ==
    ASSUME TypeOK, NEW r \in Runs, at[r] # "idle"
    PROVE  JobOf(r) \in Jobs
<1>1. CASE r \in Requests
    <2>1. queue[r] \in Seq(Jobs) /\ queue[r] # <<>>
        BY <1>1 DEF TypeOK
    <2> QED
        BY <1>1, <2>1 DEF JobOf
<1>2. CASE r \notin Requests
    BY <1>2 DEF JobOf, Runs
<1> QED
    BY <1>1, <1>2

LEMMA AskedType ==
    ASSUME NEW k \in Kinds, NEW jobs \in Asked(k)
    PROVE  jobs \in Seq(Jobs)
<1>1. <<>> \in Seq(Jobs) /\ Order \in Seq(Jobs)
    BY ConsoleAssumption
<1>2. ASSUME NEW i \in DOMAIN Order PROVE <<Order[i]>> \in Seq(Jobs)
    <2>1. Order[i] \in Jobs
        BY <1>1, <1>2
    <2> QED
        BY <2>1
<1> QED
    BY <1>1, <1>2 DEF Asked

(* Only the token of the request that commits has another session.             *)
LEMMA CommitType ==
    ASSUME TypeOK, NEW q \in Requests, TokenOK(q), Commit(q)
    PROVE  /\ sessions' \in [Tokens -> Session \cup {None}]
           /\ token[q] \in Tokens
           /\ sessions'[token[q]] \in Session
           /\ \A t \in Tokens \ {token[q]} : sessions'[t] = sessions[t]
           /\ sessions[token[q]] # None /\ sessions[token[q]].revoked
                => sessions'[token[q]].revoked
<1>1. token[q] \in Tokens /\ sessions \in [Tokens -> Session \cup {None}]
    BY DEF Commit, TokenOK, TypeOK
<1> DEFINE new ==
        CASE kind[q] \in {"bridge", "login"} -> NewSession
          [] kind[q] = "logout" -> [sessions[token[q]] EXCEPT !.revoked = TRUE]
          [] OTHER -> sessions[token[q]]
<1>2. sessions' = [sessions EXCEPT ![token[q]] = new]
    BY DEF Commit, Saved
<1>3. NewSession \in Session
    BY DEF NewSession, Session
<1>4. \A s \in Session : /\ [s EXCEPT !.revoked = TRUE] \in Session
                         /\ [s EXCEPT !.revoked = TRUE].revoked
    BY DEF Session
<1>5. kind[q] \notin {"bridge", "login"} => sessions[token[q]] \in Session
    BY <1>1 DEF TokenOK, Commit
<1>6. kind[q] \in {"bridge", "login"} => sessions[token[q]] = None
    BY DEF TokenOK, Commit
<1>7. new \in Session /\ (sessions[token[q]] # None /\ sessions[token[q]].revoked => new.revoked)
    BY <1>3, <1>4, <1>5, <1>6
<1> HIDE DEF new
<1> QED
    BY <1>1, <1>2, <1>7

LEMMA FaultType == ASSUME TypeOK, Fault PROVE faults' \in 0..MaxFaults
    BY ConsoleAssumption DEF TypeOK, Fault

LEMMA FoundType ==
    ASSUME TypeOK, NEW j
    PROVE  Found(j) \in SUBSET Runs
    BY DEF TypeOK, Found, HeartsOf, Heartbeat

(* What a record makes of the heartbeats.                                      *)
LEMMA RecordedType ==
    ASSUME TypeOK, NEW r \in Runs, at[r] # "idle"
    PROVE  Recorded(r) \subseteq Heartbeat
<1>1. JobOf(r) \in Jobs /\ ok[r] \in BOOLEAN /\ 0 \in Ages
    BY JobType, ConsoleAssumption DEF TypeOK, Ages
<1>2. [job |-> JobOf(r), by |-> r, ok |-> ok[r], age |-> 0] \in Heartbeat
    BY <1>1 DEF Heartbeat
<1>3. \A h \in hearts : [h EXCEPT !.ok = ok[r], !.age = 0] \in Heartbeat
    BY <1>1 DEF TypeOK, Heartbeat
<1>4. hearts \subseteq Heartbeat
    BY DEF TypeOK
<1> QED
    BY <1>2, <1>3, <1>4 DEF Recorded, HeartsOf

LEMMA TypeStep == TypeOK /\ (\A q \in Requests : TokenOK(q) /\ ReadOK(q)) /\ [Next]_vars => TypeOK'
<1> SUFFICES ASSUME TypeOK, \A q \in Requests : TokenOK(q) /\ ReadOK(q), [Next]_vars PROVE TypeOK'
    OBVIOUS
<1> USE DEF tables, requests, runs
<1>1. ASSUME NEW q \in Requests, Enter(q) PROVE TypeOK'
    BY <1>1 DEF Enter, Mint, Answer, Spare, TypeOK, Kinds
<1>2. ASSUME NEW q \in Requests, Meet(q) PROVE TypeOK'
    BY <1>2 DEF Meet, TypeOK, Kinds
<1>3. ASSUME NEW q \in Requests, AddUser(q) PROVE TypeOK'
    <2>1. CASE Over(q)
        BY <1>3, <2>1, OverType, ConsoleAssumption DEF AddUser, Mint, Answer, TypeOK
    <2>2. CASE Mint(q) /\ writer' = q /\ UNCHANGED <<kind, name>>
        <3>1. token' \in [Requests -> Tokens \cup {None}]
            BY <2>2 DEF Mint, Spare, TypeOK
        <3>2. kind[q] = "bridge" /\ pc' = [pc EXCEPT ![q] = "answered"]
            BY <1>3, <2>2 DEF AddUser, Mint, Answer, ReadOK
        <3>3. at' = at /\ queue' = queue /\ kind' = kind /\ writer' = q /\ writer = None
            BY <1>3, <2>2 DEF AddUser, Mint, Answer
        <3>4. \A p \in Requests : at'[p] # "idle" => pc'[p] = "answered" /\ queue'[p] # <<>>
            BY <3>2, <3>3 DEF TypeOK
        <3> QED
            BY <1>3, <2>2, <3>1, <3>2, <3>3, <3>4 DEF AddUser, Mint, Answer, TypeOK
    <2> QED
        BY <1>3, <2>1, <2>2 DEF AddUser
<1>4. ASSUME NEW q \in Requests, Call(q) PROVE TypeOK'
    <2> QED
        BY <1>4, AskedType DEF Call, Answer, Admits, TypeOK, Kinds
<1>5. ASSUME NEW q \in Requests, Commit(q) PROVE TypeOK'
    <2>1. users' \subseteq User
        BY <1>5 DEF Commit, TypeOK, User
    <2>2. sessions' \in [Tokens -> Session \cup {None}]
        BY <1>5, CommitType
    <2>3. writer' \in Requests \cup {None} /\ writer' # q /\ (writer' # None => writer' = writer)
        BY <1>5, ConsoleAssumption DEF Commit, Released, TypeOK
    <2> QED
        BY <1>5, <2>1, <2>2, <2>3, OverType, ConsoleAssumption DEF Commit, TypeOK
<1>6. ASSUME NEW q \in Requests, Abort(q) PROVE TypeOK'
    <2>1. writer' \in Requests \cup {None} /\ writer' # q /\ (writer' # None => writer' = writer)
        BY <1>6, ConsoleAssumption DEF Abort, Released, TypeOK
    <2>2. faults' \in 0..MaxFaults
        BY <1>6, FaultType DEF Abort
    <2>3. at[q] = "idle"
        BY <1>6 DEF Abort, TypeOK, Runs
    <2>4. \A p \in Requests : at'[p] # "idle" => pc'[p] = "answered" /\ queue'[p] # <<>>
        <3> SUFFICES ASSUME NEW p \in Requests, at'[p] # "idle"
                     PROVE  pc'[p] = "answered" /\ queue'[p] # <<>>
            OBVIOUS
        <3>1. p # q /\ at[p] # "idle" /\ pc'[p] = pc[p] /\ queue'[p] = queue[p]
            BY <1>6, <2>3, OverType DEF Abort
        <3> QED
            BY <3>1 DEF TypeOK
    <2>5. \A p \in Requests : writer' = p => kind'[p] = "bridge" /\ pc'[p] = "answered"
        BY <1>6, <2>1, OverType, ConsoleAssumption DEF Abort, TypeOK
    <2> QED
        BY <1>6, <2>1, <2>2, <2>4, <2>5, OverType DEF Abort, TypeOK
<1>7. CASE CreateAdmin
    <2>1. users' \subseteq User
        BY <1>7 DEF CreateAdmin, TypeOK, User
    <2> QED
        BY <1>7, <2>1 DEF CreateAdmin, TypeOK
<1>8. ASSUME NEW j \in Jobs, Start(j) PROVE TypeOK'
    BY <1>8, ConsoleAssumption DEF Start, Begin, TypeOK, Runs
<1>9. ASSUME NEW j \in Jobs, Skip(j) PROVE TypeOK'
    BY <1>9 DEF Skip, TypeOK
<1>10. ASSUME NEW q \in Requests, StartNow(q) PROVE TypeOK'
    BY <1>10 DEF StartNow, Begin, TypeOK, Runs
<1>11. ASSUME NEW r \in Runs, Succeed(r) PROVE TypeOK'
    <2>1. 0 \in 0..MaxRun /\ 0 \in Ages
        BY ConsoleAssumption DEF Ages
    <2>2. last' \in [Jobs -> Ages]
        BY <1>11, <2>1 DEF Succeed, TypeOK
    <2> QED
        BY <1>11, <2>1, <2>2 DEF Succeed, Ended, Outcome, TypeOK
<1>12. ASSUME NEW r \in Runs, Fail(r) PROVE TypeOK'
    <2>1. 0 \in 0..MaxRun
        BY ConsoleAssumption
    <2>2. faults' \in 0..MaxFaults
        BY <1>12, FaultType DEF Fail
    <2> QED
        BY <1>12, <2>1, <2>2 DEF Fail, Ended, Outcome, TypeOK
<1>13. ASSUME NEW r \in Runs, Look(r) PROVE TypeOK'
    <2>1. Found(JobOf(r)) \in SUBSET Runs
        BY FoundType
    <2> QED
        BY <1>13, <2>1 DEF Look, TypeOK
<1>14. ASSUME NEW r \in Runs, Broken(r), faults' \in 0..MaxFaults, at[r] = "looked"
       PROVE  TypeOK'
    <2>1. CASE r \in Requests
        <3>1. Over(r) /\ writer # r
            BY <1>14, <2>1 DEF Broken, TypeOK, ReadOK
        <3>2. \A p \in Requests : at'[p] # "idle" => pc'[p] = "answered" /\ queue'[p] # <<>>
            <4> SUFFICES ASSUME NEW p \in Requests, at'[p] # "idle"
                         PROVE  pc'[p] = "answered" /\ queue'[p] # <<>>
                OBVIOUS
            <4>1. p # r /\ at'[p] = at[p] /\ pc'[p] = pc[p] /\ queue'[p] = queue[p]
                BY <1>14, <2>1, <3>1, OverType, RestType DEF Broken, Runs
            <4> QED
                BY <4>1 DEF TypeOK
        <3> QED
            BY <1>14, <2>1, <3>1, <3>2, OverType, RestType DEF Broken, TypeOK
    <2>2. CASE r \notin Requests
        BY <1>14, <2>2, RestType DEF Broken, TypeOK, Runs
    <2> QED
        BY <2>1, <2>2
<1>15. ASSUME NEW r \in Runs, Record(r) PROVE TypeOK'
    <2>1. CASE Broken(r)
        BY <1>14, <1>15, <2>1 DEF Record, TypeOK
    <2>2. CASE hearts' = Recorded(r) /\ Rest(r) /\ NextJob(r) /\ UNCHANGED <<users, sessions, writer, up, due, last>>
        <3>1. hearts' \subseteq Heartbeat
            BY <1>15, <2>2, RecordedType DEF Record
        <3>2. queue' \in [Requests -> Seq(Jobs)]
            <4>1. CASE r \in Requests
                <5>1. queue[r] \in Seq(Jobs) /\ queue[r] # <<>>
                    BY <1>15, <4>1 DEF Record, TypeOK
                <5>2. Tail(queue[r]) \in Seq(Jobs)
                    BY <5>1
                <5> QED
                    BY <2>2, <4>1, <5>2 DEF NextJob, TypeOK
            <4> QED
                BY <2>2, <4>1 DEF NextJob, TypeOK
        <3>3. \A p \in Requests : at'[p] # "idle" => pc'[p] = "answered" /\ queue'[p] # <<>>
            <4> SUFFICES ASSUME NEW p \in Requests, at'[p] # "idle"
                         PROVE  pc'[p] = "answered" /\ queue'[p] # <<>>
                OBVIOUS
            <4>1. p # r /\ at'[p] = at[p]
                BY <2>2, RestType DEF Runs
            <4>2. pc'[p] = pc[p] /\ queue'[p] = queue[p]
                BY <2>2, <4>1 DEF NextJob, TypeOK
            <4> QED
                BY <4>1, <4>2 DEF TypeOK
        <3> QED
            BY <1>15, <2>2, <3>1, <3>2, <3>3, RestType DEF Record, NextJob, TypeOK
    <2> QED
        BY <1>15, <2>1, <2>2 DEF Record
<1>16. ASSUME NEW r \in Runs, Lose(r) PROVE TypeOK'
    BY <1>14, <1>16, FaultType DEF Lose
<1>17. CASE WorkerDies
    <2>1. 0 \in 0..MaxRun
        BY ConsoleAssumption
    <2>2. faults' \in 0..MaxFaults
        BY <1>17, FaultType DEF WorkerDies
    <2> QED
        BY <1>17, <2>1, <2>2 DEF WorkerDies, Idle, TypeOK, Runs
<1>18. CASE WorkerStarts
    BY <1>18 DEF WorkerStarts, TypeOK
<1>19. CASE ApiDies
    <2>1. 0 \in 0..MaxRun
        BY ConsoleAssumption
    <2>2. faults' \in 0..MaxFaults
        BY <1>19, FaultType DEF ApiDies
    <2>3. queue' \in [Requests -> Seq(Jobs)] /\ seen' \in [Requests -> Session \cup {None}]
        BY <1>19 DEF ApiDies
    <2> QED
        BY <1>19, <2>1, <2>2, <2>3, ConsoleAssumption DEF ApiDies, Idle, TypeOK, Runs, Kinds
<1>20. CASE Tick
    <2>1. hearts' \subseteq Heartbeat
        <3>1. \A h \in hearts : [h EXCEPT !.age = Older(@)] \in Heartbeat
            BY OlderType DEF TypeOK, Heartbeat
        <3> QED
            BY <1>20, <3>1 DEF Tick
    <2>2. last' \in [Jobs -> Ages]
        BY <1>20, OlderType DEF Tick, TypeOK
    <2>3. late' \in [Runs -> 0..MaxRun]
        BY <1>20, ConsoleAssumption DEF Tick, TypeOK
    <2> QED
        BY <1>20, <2>1, <2>2, <2>3 DEF Tick, TypeOK
<1>21. CASE UNCHANGED vars
    BY <1>21 DEF vars, TypeOK
<1> QED
    BY <1>1, <1>2, <1>3, <1>4, <1>5, <1>6, <1>7, <1>8, <1>9, <1>10, <1>11, <1>12, <1>13,
       <1>15, <1>16, <1>17, <1>18, <1>19, <1>20, <1>21 DEF Next, Handle, Carry

--------------------------------------------------------------------------------
(* Requests and what they write.                                               *)

Requesting(q) == Enter(q) \/ Meet(q) \/ AddUser(q) \/ Call(q) \/ Commit(q) \/ Abort(q)

(* What steps of jobs, of the worker and of time do to requests.               *)
LEMMA RequestFrame ==
    ASSUME [Next]_vars
    PROVE  \/ \E q \in Requests : Requesting(q)
           \/ CreateAdmin
           \/ ApiDies
           \/ \E q \in Requests : /\ at[q] = "looked"
                                  /\ Rest(q)
                                  /\ Over(q) \/ NextJob(q)
                                  /\ UNCHANGED <<users, sessions, writer>>
           \/ UNCHANGED <<users, sessions, writer, requests>>
<1> USE DEF tables, requests, runs
<1>1. ASSUME NEW r \in Runs, Record(r) \/ Lose(r)
      PROVE  \/ /\ r \in Requests /\ at[r] = "looked"
                /\ Rest(r)
                /\ Over(r) \/ NextJob(r)
                /\ UNCHANGED <<users, sessions, writer>>
             \/ UNCHANGED <<users, sessions, writer, requests>>
    BY <1>1 DEF Record, Lose, Broken, NextJob
<1>2. ASSUME NEW r \in Runs, Succeed(r) \/ Fail(r) \/ Look(r)
      PROVE  UNCHANGED <<users, sessions, writer, requests>>
    BY <1>2 DEF Succeed, Fail, Look, Ended
<1>3. ASSUME NEW j \in Jobs, Start(j) \/ Skip(j)
      PROVE  UNCHANGED <<users, sessions, writer, requests>>
    BY <1>3 DEF Start, Skip, Begin
<1>4. ASSUME NEW q \in Requests, StartNow(q)
      PROVE  UNCHANGED <<users, sessions, writer, requests>>
    BY <1>4 DEF StartNow, Begin
<1>5. ASSUME WorkerDies \/ WorkerStarts \/ Tick \/ UNCHANGED vars
      PROVE  UNCHANGED <<users, sessions, writer, requests>>
    BY <1>5 DEF WorkerDies, WorkerStarts, Tick, vars
<1> QED
    BY <1>1, <1>2, <1>3, <1>4, <1>5 DEF Next, Handle, Carry, Requesting

LEMMA ReadStep == Inv /\ TypeOK' /\ [Next]_vars => \A q \in Requests : ReadOK(q)'
<1> SUFFICES ASSUME Inv, TypeOK', [Next]_vars, NEW p \in Requests PROVE ReadOK(p)'
    OBVIOUS
<1> USE DEF Inv, ReadOK, tables, requests, runs
<1>1. ASSUME NEW q \in Requests, Requesting(q) PROVE ReadOK(p)'
    <2>1. CASE Over(q)
        BY <2>1, OverType DEF Over, TypeOK
    <2>2. CASE Enter(q)
        BY <2>2 DEF Enter, Mint, Answer, TypeOK
    <2>3. CASE Meet(q)
        BY <2>3 DEF Meet, TypeOK
    <2>4. CASE AddUser(q) /\ ~Over(q)
        BY <2>4 DEF AddUser, Mint, Answer, TypeOK
    <2>5. CASE Call(q)
        <3>1. PICK k \in {"page", "logout", "run"} :
                  /\ kind' = [kind EXCEPT ![q] = k]
                  /\ \E jobs \in Asked(k) : queue' = [queue EXCEPT ![q] = jobs]
            BY <2>5 DEF Call
        <3>2. k # "run" => queue' = [queue EXCEPT ![q] = <<>>]
            BY <3>1 DEF Asked
        <3> QED
            BY <2>5, <3>1, <3>2 DEF Call, Answer, TypeOK
    <2> QED
        BY <1>1, <2>1, <2>2, <2>3, <2>4, <2>5 DEF Requesting, Commit, Abort
<1>2. CASE CreateAdmin
    BY <1>2 DEF CreateAdmin
<1>3. CASE ApiDies
    BY <1>3 DEF ApiDies
<1>4. ASSUME NEW q \in Requests, at[q] = "looked", Over(q) \/ NextJob(q) PROVE ReadOK(p)'
    <2>1. CASE Over(q)
        BY <2>1, OverType DEF Over, TypeOK
    <2>2. CASE NextJob(q)
        <3>1. pc[q] = "answered" /\ queue[q] # <<>> /\ kind[q] = "run"
            BY <1>4 DEF TypeOK
        <3>2. pc' = pc /\ kind' = kind /\ queue' = [queue EXCEPT ![q] = Tail(@)]
            BY <2>2 DEF NextJob
        <3> QED
            BY <3>1, <3>2 DEF TypeOK
    <2> QED
        BY <1>4, <2>1, <2>2
<1>5. CASE UNCHANGED requests
    BY <1>5
<1> QED
    BY <1>1, <1>2, <1>3, <1>4, <1>5, RequestFrame

LEMMA TokenStep == Inv /\ TypeOK' /\ [Next]_vars => \A q \in Requests : TokenOK(q)'
<1> SUFFICES ASSUME Inv, TypeOK', [Next]_vars, NEW p \in Requests PROVE TokenOK(p)'
    OBVIOUS
<1> USE DEF Inv, TokenOK, tables, requests, runs
<1>1. ASSUME NEW q \in Requests, Over(q), UNCHANGED sessions PROVE TokenOK(p)'
    <2>1. token' = [token EXCEPT ![q] = None] /\ \A x \in Requests \ {q} : pc'[x] = pc[x] /\ kind'[x] = kind[x]
        BY <1>1, OverType DEF Over
    <2> QED
        BY <1>1, <2>1, OverType, ConsoleAssumption DEF TypeOK
<1>2. ASSUME NEW q \in Requests, Mint(q), kind'[q] \in {"bridge", "login"},
             \A x \in Requests \ {q} : kind'[x] = kind[x], pc[q] # "answered"
      PROVE  TokenOK(p)'
    <2>1. PICK t \in Spare : token' = [token EXCEPT ![q] = t]
        BY <1>2 DEF Mint
    <2>2. /\ sessions' = sessions /\ sessions[t] = None /\ t \in Tokens
          /\ \A x \in Requests : token[x] # t
          /\ pc' = [pc EXCEPT ![q] = "answered"]
        BY <1>2, <2>1 DEF Mint, Answer, Spare
    <2> QED
        BY <1>2, <2>1, <2>2, ConsoleAssumption DEF TypeOK
<1>3. ASSUME NEW q \in Requests, Meet(q) PROVE TokenOK(p)'
    BY <1>3, ConsoleAssumption DEF Meet, TypeOK
<1>4. ASSUME NEW q \in Requests, Call(q) PROVE TokenOK(p)'
    <2>1. PICK t \in Tokens : Admits(t) /\ token' = [token EXCEPT ![q] = t]
        BY <1>4 DEF Call
    <2>2. /\ sessions' = sessions /\ sessions[t] # None
          /\ kind'[q] \in {"page", "logout", "run"}
          /\ \A x \in Requests \ {q} : kind'[x] = kind[x]
          /\ pc[q] = "idle" /\ pc' = [pc EXCEPT ![q] = "answered"]
        BY <1>4, <2>1 DEF Call, Answer, Admits, TypeOK
    <2> QED
        BY <2>1, <2>2 DEF TypeOK
<1>5. ASSUME NEW q \in Requests, Commit(q) PROVE TokenOK(p)'
    <2>1. token' = [token EXCEPT ![q] = None] /\ \A x \in Requests \ {q} : pc'[x] = pc[x] /\ kind'[x] = kind[x]
        BY <1>5, OverType DEF Commit, Over
    <2>2. /\ sessions'[token[q]] # None
          /\ \A t \in Tokens \ {token[q]} : sessions'[t] = sessions[t]
        BY <1>5, CommitType, ConsoleAssumption DEF Session
    <2>3. CASE p = q
        BY <1>5, <2>1, <2>3, OverType DEF Commit, TypeOK
    <2>4. CASE p # q /\ token[p] # token[q]
        BY <1>5, <2>1, <2>2, <2>4, ConsoleAssumption DEF TypeOK
    <2>5. CASE p # q /\ token[p] = token[q]
        <3>1. pc[p] = "answered" => kind[p] \notin {"bridge", "login"}
            BY <2>5
        <3> QED
            BY <1>5, <2>1, <2>2, <2>5, <3>1 DEF TypeOK
    <2> QED
        BY <2>3, <2>4, <2>5
<1>6. CASE CreateAdmin
    BY <1>6 DEF CreateAdmin
<1>7. CASE ApiDies
    BY <1>7 DEF ApiDies
<1>8. ASSUME NEW q \in Requests, NextJob(q), UNCHANGED sessions PROVE TokenOK(p)'
    BY <1>8 DEF NextJob
<1>9. CASE UNCHANGED <<sessions, requests>>
    BY <1>9
<1>10. ASSUME NEW q \in Requests, Enter(q) PROVE TokenOK(p)'
    <2>1. /\ Mint(q) /\ pc[q] = "idle"
          /\ kind'[q] \in {"bridge", "login"}
          /\ \A x \in Requests \ {q} : kind'[x] = kind[x]
        BY <1>10 DEF Enter, TypeOK
    <2> QED
        BY <1>2, <2>1
<1>11. ASSUME NEW q \in Requests, AddUser(q) PROVE TokenOK(p)'
    <2>1. sessions' = sessions
        BY <1>11 DEF AddUser, Mint, Answer
    <2>2. CASE Over(q)
        BY <1>1, <2>1, <2>2
    <2>3. CASE Mint(q) /\ kind' = kind
        <3>1. pc[q] = "read" /\ kind[q] = "bridge"
            BY <1>11 DEF AddUser, ReadOK
        <3> QED
            BY <1>2, <2>3, <3>1
    <2> QED
        BY <1>11, <2>2, <2>3 DEF AddUser
<1>12. ASSUME NEW q \in Requests, Abort(q) PROVE TokenOK(p)'
    BY <1>1, <1>12 DEF Abort
<1> QED
    BY <1>1, <1>3, <1>4, <1>5, <1>6, <1>7, <1>8, <1>9, <1>10, <1>11, <1>12, RequestFrame
    DEF Requesting

--------------------------------------------------------------------------------
(* One row for each name and for each job.                                     *)

LEMMA NameStep == Inv /\ TypeOK' /\ [Next]_vars => NameOK'
<1> SUFFICES ASSUME Inv, TypeOK', [Next]_vars PROVE NameOK'
    OBVIOUS
<1> USE DEF tables, requests, runs
<1>1. NameOK /\ TypeOK
    BY DEF Inv
<1>2. ASSUME users' = users, name' = name, writer' \in {writer, None} PROVE NameOK'
    BY <1>1, <1>2, ConsoleAssumption DEF NameOK
<1>3. ASSUME NEW q \in Requests, Requesting(q) PROVE NameOK'
    <2>1. CASE Enter(q) \/ Meet(q)
        <3>1. /\ users' = users /\ writer' = writer /\ writer # q
              /\ \A x \in Requests \ {q} : name'[x] = name[x]
            BY <1>1, <2>1 DEF Enter, Meet, Mint, Answer, TypeOK
        <3> QED
            BY <1>1, <3>1 DEF NameOK
    <2>2. CASE AddUser(q)
        <3>1. users' = users /\ name' = name
            BY <2>2 DEF AddUser, Over, Mint, Answer
        <3>2. writer' = writer \/ (writer' = q /\ UsersOf(name[q]) = {})
            BY <2>2 DEF AddUser, Taken
        <3>3. CASE writer' = q /\ UsersOf(name[q]) = {}
            BY <1>1, <3>1, <3>3 DEF NameOK, UsersOf
        <3> QED
            BY <1>2, <3>1, <3>2, <3>3
    <2>3. CASE Call(q)
        BY <1>2, <2>3 DEF Call, Answer
    <2>4. CASE Abort(q)
        BY <1>2, <2>4 DEF Abort, Over, Released
    <2>5. CASE Commit(q)
        <3>1. name' = name /\ writer' = Released(q)
            BY <2>5 DEF Commit, Over
        <3>2. CASE writer = q
            <4>1. /\ users' = users \cup {[name |-> name[q], by |-> q]}
                  /\ writer' = None
                BY <2>5, <3>1, <3>2 DEF Commit, Released
            <4>2. \A u \in users : u.name # name[q]
                BY <1>1, <3>2 DEF NameOK
            <4> QED
                BY <1>1, <4>1, <4>2, ConsoleAssumption DEF NameOK
        <3>3. CASE writer # q
            BY <1>2, <2>5, <3>1, <3>3 DEF Commit, Released
        <3> QED
            BY <3>2, <3>3
    <2> QED
        BY <1>3, <2>1, <2>2, <2>3, <2>4, <2>5 DEF Requesting
<1>4. CASE CreateAdmin
    <2>1. PICK n \in Names : /\ UsersOf(n) = {}
                             /\ users' = users \cup {[name |-> n, by |-> Command]}
        BY <1>4 DEF CreateAdmin, Taken
    <2>2. writer' = None
        BY <1>4 DEF CreateAdmin
    <2> QED
        BY <1>1, <2>1, <2>2, ConsoleAssumption DEF NameOK, UsersOf
<1>5. CASE ApiDies
    BY <1>2, <1>5 DEF ApiDies
<1>6. ASSUME NEW q \in Requests, Over(q) \/ NextJob(q), UNCHANGED <<users, sessions, writer>>
      PROVE  NameOK'
    BY <1>2, <1>6 DEF Over, NextJob
<1>7. CASE UNCHANGED <<users, sessions, writer, requests>>
    BY <1>2, <1>7
<1> QED
    BY <1>3, <1>4, <1>5, <1>6, <1>7, RequestFrame

(* A record makes one row where there was none, or changes one.                *)
Recording(r) == Record(r) /\ hearts' = Recorded(r) /\ (found[r] = {} => HeartsOf(JobOf(r)) = {})

LEMMA HeartFrame ==
    ASSUME [Next]_vars
    PROVE  Tick \/ (\E r \in Runs : Recording(r)) \/ UNCHANGED hearts
<1> USE DEF tables, requests, runs
<1>1. ASSUME NEW r \in Runs, Record(r) PROVE Recording(r) \/ UNCHANGED hearts
    BY <1>1 DEF Record, Broken, Recording, Taken
<1>2. ASSUME NEW r \in Runs, Succeed(r) \/ Fail(r) \/ Look(r) \/ Lose(r) PROVE UNCHANGED hearts
    BY <1>2 DEF Succeed, Fail, Look, Lose, Ended, Broken
<1>3. ASSUME NEW q \in Requests, Requesting(q) \/ StartNow(q) PROVE UNCHANGED hearts
    BY <1>3 DEF Requesting, Enter, Meet, AddUser, Call, Commit, Abort, Mint, Answer, StartNow, Begin
<1>4. ASSUME NEW j \in Jobs, Start(j) \/ Skip(j) PROVE UNCHANGED hearts
    BY <1>4 DEF Start, Skip, Begin
<1>5. ASSUME CreateAdmin \/ WorkerDies \/ WorkerStarts \/ ApiDies \/ UNCHANGED vars
      PROVE  UNCHANGED hearts
    BY <1>5 DEF CreateAdmin, WorkerDies, WorkerStarts, ApiDies, vars
<1> QED
    BY <1>1, <1>2, <1>3, <1>4, <1>5 DEF Next, Handle, Carry, Requesting

LEMMA HeartStep == Inv /\ [Next]_vars => HeartOK'
<1> SUFFICES ASSUME Inv, [Next]_vars PROVE HeartOK'
    OBVIOUS
<1>1. HeartOK /\ hearts \subseteq Heartbeat
    BY DEF Inv, TypeOK
<1>2. ASSUME NEW r \in Runs, Recording(r) PROVE HeartOK'
    <2> DEFINE j == JobOf(r)
               new == [job |-> j, by |-> r, ok |-> ok[r], age |-> 0]
    <2>1. CASE found[r] = {}
        <3>1. hearts' = hearts \cup {new} /\ \A h \in hearts : h.job # j
            BY <1>2, <2>1 DEF Recording, Recorded, HeartsOf
        <3> QED
            BY <1>1, <3>1 DEF HeartOK
    <2>2. CASE found[r] # {}
        <3> DEFINE old == {h \in HeartsOf(j) : h.by \in found[r]}
        <3>1. hearts' = (hearts \ old) \cup {[h EXCEPT !.ok = ok[r], !.age = 0] : h \in old}
            BY <1>2, <2>2 DEF Recording, Recorded
        <3>2. \A h \in old : [h EXCEPT !.ok = ok[r], !.age = 0].job = h.job
            BY <1>1 DEF Heartbeat, HeartsOf
        <3>3. old \subseteq hearts
            BY DEF HeartsOf
        <3> HIDE DEF old
        <3> SUFFICES ASSUME NEW g \in hearts', NEW h \in hearts', g.job = h.job PROVE g = h
            BY DEF HeartOK
        <3>4. ASSUME NEW x \in hearts'
              PROVE  \E a \in hearts : /\ a.job = x.job
                                       /\ a \in old => x = [a EXCEPT !.ok = ok[r], !.age = 0]
                                       /\ a \notin old => x = a
            <4>1. CASE x \in hearts \ old
                BY <4>1
            <4>2. CASE x \notin hearts \ old
                <5>1. PICK a \in old : x = [a EXCEPT !.ok = ok[r], !.age = 0]
                    BY <3>1, <3>4, <4>2
                <5> QED
                    BY <3>2, <3>3, <5>1
            <4> QED
                BY <4>1, <4>2
        <3>5. PICK a \in hearts : /\ a.job = g.job
                                  /\ a \in old => g = [a EXCEPT !.ok = ok[r], !.age = 0]
                                  /\ a \notin old => g = a
            BY <3>4
        <3>6. PICK b \in hearts : /\ b.job = h.job
                                  /\ b \in old => h = [b EXCEPT !.ok = ok[r], !.age = 0]
                                  /\ b \notin old => h = b
            BY <3>4
        <3>7. a = b
            BY <1>1, <3>5, <3>6 DEF HeartOK
        <3> QED
            BY <3>5, <3>6, <3>7
    <2> QED
        BY <2>1, <2>2
<1>3. CASE Tick
    <2>1. hearts' = {[h EXCEPT !.age = Older(@)] : h \in hearts}
        BY <1>3 DEF Tick
    <2>2. \A h \in hearts : [h EXCEPT !.age = Older(@)].job = h.job
        BY <1>1 DEF Heartbeat
    <2> SUFFICES ASSUME NEW g \in hearts', NEW h \in hearts', g.job = h.job PROVE g = h
        BY DEF HeartOK
    <2>3. PICK a \in hearts : g = [a EXCEPT !.age = Older(@)]
        BY <2>1
    <2>4. PICK b \in hearts : h = [b EXCEPT !.age = Older(@)]
        BY <2>1
    <2>5. a = b
        BY <1>1, <2>2, <2>3, <2>4 DEF HeartOK
    <2> QED
        BY <2>3, <2>4, <2>5
<1>4. CASE UNCHANGED hearts
    BY <1>1, <1>4 DEF HeartOK
<1> QED
    BY <1>2, <1>3, <1>4, HeartFrame

--------------------------------------------------------------------------------
(* How old the last success is.                                                *)

Concluded(r) == at[r] \in {"ended", "looked"} /\ ok[r]

(* Only a success takes a run to one that is not recorded yet.                 *)
LEMMA RunFrame ==
    ASSUME TypeOK, [Next]_vars
    PROVE  \/ \E s \in Runs : Succeed(s)
           \/ Tick
           \/ last' = last /\ \A r \in Runs : Concluded(r)' => Concluded(r)
<1> USE DEF tables, requests, runs, Concluded
<1>1. ASSUME NEW s \in Runs, Rest(s), last' = last
      PROVE  \A r \in Runs : Concluded(r)' => Concluded(r)
    BY <1>1 DEF Rest, TypeOK
<1>2. ASSUME NEW s \in Runs, Record(s) \/ Lose(s)
      PROVE  Rest(s) /\ last' = last
    BY <1>2 DEF Record, Lose, Broken
<1>3. ASSUME NEW s \in Runs, Fail(s) \/ Look(s)
      PROVE  last' = last /\ \A r \in Runs : Concluded(r)' => Concluded(r)
    BY <1>3 DEF Fail, Look, Ended, Outcome, TypeOK
<1>4. ASSUME NEW s \in Runs, Begin(s)
      PROVE  last' = last /\ \A r \in Runs : Concluded(r)' => Concluded(r)
    BY <1>4 DEF Begin, TypeOK
<1>5. ASSUME NEW q \in Requests, Requesting(q)
      PROVE  UNCHANGED <<at, ok, last>>
    BY <1>5 DEF Requesting, Enter, Meet, AddUser, Call, Commit, Abort, Mint, Answer
<1>6. ASSUME NEW j \in Jobs, Start(j) \/ Skip(j)
      PROVE  last' = last /\ \A r \in Runs : Concluded(r)' => Concluded(r)
    BY <1>4, <1>6 DEF Start, Skip, Runs
<1>7. ASSUME NEW some, Idle(some), last' = last
      PROVE  \A r \in Runs : Concluded(r)' => Concluded(r)
    BY <1>7 DEF Idle
<1>8. ASSUME WorkerDies \/ ApiDies
      PROVE  last' = last /\ \A r \in Runs : Concluded(r)' => Concluded(r)
    BY <1>7, <1>8 DEF WorkerDies, ApiDies
<1>9. ASSUME CreateAdmin \/ WorkerStarts \/ UNCHANGED vars
      PROVE  UNCHANGED <<at, ok, last>>
    BY <1>9 DEF CreateAdmin, WorkerStarts, vars
<1>10. ASSUME NEW q \in Requests, StartNow(q)
       PROVE  last' = last /\ \A r \in Runs : Concluded(r)' => Concluded(r)
    BY <1>4, <1>10 DEF StartNow, Runs
<1> QED
    BY <1>1, <1>2, <1>3, <1>5, <1>6, <1>8, <1>9, <1>10 DEF Next, Handle, Carry, Requesting

(* A run that goes on is a run of the same job.                                *)
LEMMA JobFrame ==
    ASSUME Inv, [Next]_vars, NEW r \in Runs, at[r] # "idle", at'[r] # "idle"
    PROVE  JobOf(r)' = JobOf(r)
<1> USE DEF tables, requests, runs
<1>1. CASE r \notin Requests
    BY <1>1 DEF JobOf
<1>2. CASE r \in Requests
    <2>1. pc[r] = "answered" /\ queue[r] # <<>> /\ queue \in [Requests -> Seq(Jobs)] /\ TypeOK
        BY <1>2 DEF Inv, TypeOK
    <2>2. SUFFICES queue'[r] = queue[r]
        BY <1>2 DEF JobOf
    <2>3. ASSUME NEW q \in Requests, Requesting(q) PROVE queue'[r] = queue[r]
        <3>1. q # r
            BY <2>1, <2>3 DEF Requesting, Enter, Meet, AddUser, Call, Commit, Abort
        <3>2. CASE Over(q)
            BY <2>1, <3>1, <3>2 DEF Over
        <3>3. CASE Call(q)
            BY <1>2, <2>1, <3>1, <3>3 DEF Call
        <3>4. CASE Enter(q) \/ Meet(q) \/ Mint(q)
            BY <3>4 DEF Enter, Meet, Mint
        <3> QED
            BY <2>3, <3>2, <3>3, <3>4 DEF Requesting, AddUser, Commit, Abort
    <2>4. ASSUME NEW q \in Requests, Rest(q), Over(q) \/ NextJob(q) PROVE queue'[r] = queue[r]
        <3>1. q # r
            BY <1>2, <2>1, <2>4, RestType DEF Runs
        <3> QED
            BY <1>2, <2>1, <2>4, <3>1 DEF Over, NextJob
    <2>5. CASE CreateAdmin
        BY <2>5 DEF CreateAdmin
    <2>6. ~ApiDies
        BY <1>2 DEF ApiDies, Idle, Runs
    <2>7. CASE UNCHANGED requests
        BY <2>7
    <2> QED
        BY <2>3, <2>4, <2>5, <2>6, <2>7, RequestFrame
<1> QED
    BY <1>1, <1>2

LEMMA OlderGrows == ASSUME NEW a \in Ages, NEW b \in Ages, a <= b PROVE Older(a) <= Older(b)
    BY ConsoleAssumption DEF Ages, Older

(* Part two of AgeOK.                                                          *)
LEMMA ConcludedStep ==
    ASSUME Inv, [Next]_vars, NEW r \in Runs, Concluded(r)'
    PROVE  last'[JobOf(r)'] = 0
<1> USE DEF tables, requests, runs
<1>1. TypeOK /\ AgeOK
    BY DEF Inv
<1>2. ASSUME NEW s \in Runs, Succeed(s) PROVE last'[JobOf(r)'] = 0
    <2>1. JobOf(s) \in Jobs /\ last' = [last EXCEPT ![JobOf(s)] = 0] /\ requests' = requests
        BY <1>1, <1>2, JobType DEF Succeed, Ended
    <2>2. JobOf(r)' = JobOf(r)
        BY <2>1 DEF JobOf
    <2>3. CASE r = s
        BY <1>1, <2>1, <2>2, <2>3 DEF TypeOK
    <2>4. CASE r # s
        <3>1. Concluded(r)
            BY <1>1, <1>2, <2>4 DEF Succeed, Ended, Concluded, TypeOK
        <3>2. JobOf(r) \in Jobs /\ last[JobOf(r)] = 0
            BY <1>1, <3>1, JobType DEF Concluded, AgeOK
        <3> QED
            BY <1>1, <2>1, <2>2, <3>2 DEF TypeOK
    <2> QED
        BY <2>3, <2>4
<1>3. ~Tick
    BY DEF Tick, Concluded
<1>4. ASSUME last' = last, Concluded(r) PROVE last'[JobOf(r)'] = 0
    <2>1. JobOf(r)' = JobOf(r)
        BY <1>4, JobFrame DEF Concluded
    <2> QED
        BY <1>1, <1>4, <2>1 DEF AgeOK, Concluded
<1> QED
    BY <1>1, <1>2, <1>3, <1>4, RunFrame

LEMMA AgeStep == Inv /\ TypeOK' /\ [Next]_vars => AgeOK'
<1> SUFFICES ASSUME Inv, TypeOK', [Next]_vars PROVE AgeOK'
    OBVIOUS
<1> USE DEF tables, requests, runs
<1>1. TypeOK /\ AgeOK /\ hearts \subseteq Heartbeat /\ last \in [Jobs -> Ages]
    BY DEF Inv, TypeOK
<1>2. \A r \in Runs : at'[r] \in {"ended", "looked"} /\ ok'[r] => last'[JobOf(r)'] = 0
    BY ConcludedStep DEF Concluded
<1> SUFFICES ASSUME NEW h \in hearts', h.ok PROVE last'[h.job] <= h.age
    BY <1>2 DEF AgeOK
<1>3. CASE Tick
    <2>1. PICK g \in hearts : h = [g EXCEPT !.age = Older(@)]
        BY <1>3 DEF Tick
    <2>2. h.job = g.job /\ g.job \in Jobs /\ h.age = Older(g.age) /\ g.ok /\ g.age \in Ages
        BY <1>1, <2>1 DEF Heartbeat
    <2>3. last'[g.job] = Older(last[g.job]) /\ last[g.job] \in Ages /\ last[g.job] <= g.age
        BY <1>1, <1>3, <2>2 DEF Tick, AgeOK
    <2> QED
        BY <2>2, <2>3, OlderGrows
<1>4. ASSUME NEW g \in hearts, g.ok, ~Tick PROVE last'[g.job] <= g.age
    <2>1. g.job \in Jobs /\ last[g.job] <= g.age /\ last[g.job] \in Nat /\ g.age \in Nat
        BY <1>1, <1>4, ConsoleAssumption DEF Heartbeat, AgeOK, Ages
    <2>2. last' = last \/ \E s \in Runs : last' = [last EXCEPT ![JobOf(s)] = 0]
        BY <1>1, <1>4, RunFrame DEF Succeed
    <2>3. last'[g.job] \in {last[g.job], 0}
        BY <1>1, <2>1, <2>2
    <2> QED
        BY <2>1, <2>3
<1>5. ASSUME NEW r \in Runs, Recording(r) PROVE last'[h.job] <= h.age
    <2>1. last' = last /\ at[r] = "looked" /\ JobOf(r) \in Jobs
        BY <1>1, <1>5, JobType DEF Recording, Record, Broken
    <2>2. ok[r] => last[JobOf(r)] = 0
        BY <1>1, <2>1 DEF AgeOK
    <2>3. h \in hearts \/ (h.ok = ok[r] /\ h.age = 0 /\ h.job = JobOf(r))
        <3> DEFINE mine == [job |-> JobOf(r), by |-> r, ok |-> ok[r], age |-> 0]
        <3>1. CASE h = mine
            BY <3>1
        <3>2. ASSUME NEW g \in HeartsOf(JobOf(r)), h = [g EXCEPT !.ok = ok[r], !.age = 0]
              PROVE  h.ok = ok[r] /\ h.age = 0 /\ h.job = JobOf(r)
            BY <1>1, <3>2 DEF Heartbeat, HeartsOf
        <3> QED
            BY <1>5, <3>1, <3>2 DEF Recording, Recorded
    <2>4. CASE h \in hearts
        BY <1>1, <2>1, <2>4 DEF AgeOK
    <2>5. CASE h.ok = ok[r] /\ h.age = 0 /\ h.job = JobOf(r)
        BY <2>1, <2>2, <2>5
    <2> QED
        BY <2>3, <2>4, <2>5
<1>6. CASE UNCHANGED hearts
    BY <1>3, <1>4, <1>6
<1> QED
    BY <1>3, <1>5, <1>6, HeartFrame

--------------------------------------------------------------------------------
(* Theorems.                                                                   *)

LEMMA InitInv == Init => Inv
<1> SUFFICES ASSUME Init PROVE Inv
    OBVIOUS
<1>1. TypeOK
    BY InitType
<1>2. \A q \in Requests : TokenOK(q) /\ ReadOK(q)
    BY DEF Init, TokenOK, ReadOK
<1>3. NameOK /\ HeartOK
    BY ConsoleAssumption DEF Init, NameOK, HeartOK
<1>4. AgeOK
    BY DEF Init, AgeOK
<1> QED
    BY <1>1, <1>2, <1>3, <1>4 DEF Inv

LEMMA InvStep == Inv /\ [Next]_vars => Inv'
<1> SUFFICES ASSUME Inv, [Next]_vars PROVE Inv'
    OBVIOUS
<1>1. TypeOK'
    BY TypeStep DEF Inv
<1> QED
    BY <1>1, TokenStep, ReadStep, NameStep, HeartStep, AgeStep DEF Inv

(* In every reachable state of logins, requests, runs on demand, runs of the   *)
(* worker and their deaths, the Inv of this module holds.                      *)
THEOREM ConsoleInvariant == Spec => []Inv
    BY InitInv, InvStep, PTL DEF Spec

(* The rows, the requests and the runs keep their types, only a bridged login  *)
(* that is answered keeps the write lock, and only an answered request runs    *)
(* jobs, which get_db_session's order of answer, jobs and commit makes so.     *)
THEOREM ConsoleTypeCorrect == Spec => []TypeOK
<1>1. Inv => TypeOK
    BY DEF Inv
<1> QED
    BY <1>1, ConsoleInvariant, PTL

LEMMA AtMostOne ==
    ASSUME NEW S, \A x, y \in S : x = y
    PROVE  Cardinality(S) <= 1
<1>1. CASE S = {}
    BY <1>1, FS_EmptySet
<1>2. ASSUME NEW x \in S PROVE Cardinality(S) <= 1
    <2>1. S = {x}
        BY <1>2
    <2> QED
        BY <2>1, FS_Singleton
<1> QED
    BY <1>1, <1>2

(* Two first logins of one name through the WHM bridge, or two first records   *)
(* of one job, leave one row, as create_whm_bridged_session's flush and the    *)
(* unique constraints see to.                                                  *)
THEOREM RowsUnique == Spec => []OneRowEach
<1>1. ASSUME Inv PROVE OneRowEach
    <2>1. NameOK /\ HeartOK
        BY <1>1 DEF Inv
    <2>2. ASSUME NEW n \in Names PROVE Cardinality(UsersOf(n)) <= 1
        BY <2>1, AtMostOne DEF NameOK, UsersOf
    <2>3. ASSUME NEW j \in Jobs PROVE Cardinality(HeartsOf(j)) <= 1
        BY <2>1, AtMostOne DEF HeartOK, HeartsOf
    <2> QED
        BY <2>2, <2>3 DEF OneRowEach
<1> QED
    BY <1>1, ConsoleInvariant, PTL

(* "sentinel health" says OK only of a job some run of which has committed     *)
(* within the grace, whether the worker or a request ran it.                   *)
THEOREM HealthIsTrue == Spec => []HealthTruth
<1>1. ASSUME Inv PROVE HealthTruth
    <2> SUFFICES ASSUME NEW h \in hearts, Freshness(h) = "OK" PROVE last[h.job] <= Grace
        BY DEF HealthTruth
    <2>1. h.ok /\ ~(h.age > Grace)
        BY DEF Freshness
    <2>2. h.job \in Jobs /\ h.age \in Nat /\ last[h.job] \in Nat /\ last[h.job] <= h.age
        BY <1>1, <2>1, ConsoleAssumption DEF Inv, TypeOK, AgeOK, Heartbeat, Ages
    <2> QED
        BY <2>1, <2>2, ConsoleAssumption
<1> QED
    BY <1>1, ConsoleInvariant, PTL

(* No request, however long it has had a session in hand, takes back the       *)
(* revocation that another one, of logout_submit, has committed.               *)
THEOREM RevokedStays == Spec => RevokedForEver
<1> DEFINE Kept == \A t \in Tokens :
        sessions[t] # None /\ sessions[t].revoked => sessions'[t].revoked
<1>1. ASSUME Inv, [Next]_vars PROVE [Kept]_sessions
    <2>1. ASSUME NEW q \in Requests, Commit(q) PROVE Kept
        <3>1. TypeOK /\ TokenOK(q)
            BY <1>1 DEF Inv
        <3> QED
            BY <2>1, <3>1, CommitType
    <2>2. ASSUME NEW q \in Requests, Requesting(q), ~Commit(q) PROVE UNCHANGED sessions
        BY <2>2 DEF Requesting, Enter, Meet, AddUser, Call, Abort, Mint, Answer, tables
    <2>3. CASE CreateAdmin \/ ApiDies
        BY <2>3 DEF CreateAdmin, ApiDies, tables
    <2> QED
        BY <1>1, <2>1, <2>2, <2>3, RequestFrame
<1> QED
    BY <1>1, ConsoleInvariant, PTL DEF RevokedForEver, Spec

================================================================================
