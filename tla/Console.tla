-------------------------------- MODULE Console --------------------------------
(* The dashboard beside the scheduler: logins, the WHM bridge, sessions and    *)
(* their revocation, detection jobs run on demand in the API process, the same *)
(* jobs run by the worker, and the heartbeats that tell their outcomes.        *)
(*                                                                             *)
(* A request reads when it comes, is answered, runs the jobs it asked for, and *)
(* commits last.  A job's outcome is recorded after its own transaction, in    *)
(* another one.  Time passes in intervals of the jobs.                         *)
EXTENDS Naturals, Sequences, FiniteSets

CONSTANTS
    Jobs,
    Order,       \* DETECTION_SCAN_JOB_IDS
    Names,       \* user names, those the WHM bridge makes among them
    Tokens,      \* bound: the sessions that can be minted
    Requests,    \* requests the API serves at a time
    Grace,       \* intervals after which an outcome is stale, 3
    None,        \* no lock, no session, no token
    Command,     \* "sentinel create-admin-user"
    MaxRun,      \* bound: intervals the body of a job takes
    MaxFaults    \* bound: failures, deaths of a process

ASSUME ConsoleAssumption ==
    /\ Order \in Seq(Jobs)
    /\ {Grace, MaxRun, MaxFaults} \subseteq Nat
    /\ Jobs \cap Requests = {}
    /\ None \notin Requests \cup Tokens \cup [revoked : BOOLEAN]
    /\ Command \notin Requests

(* A run of each job in the worker; a request runs jobs in the API process.    *)
Runs == Jobs \cup Requests

VARIABLES
    users,      \* the admin_users table
    sessions,   \* the admin_sessions table, by token
    hearts,     \* the job_heartbeats table
    writer,     \* who holds the write lock beyond a step
    pc, kind, name, token, seen, queue,   \* requests
    at, ok, found, late,                 \* runs
    up, due,    \* the worker, and the jobs it has to start
    faults,
    last        \* history: intervals since a run of a job has committed

tables == <<users, sessions, hearts>>
requests == <<pc, kind, name, token, seen, queue>>
runs == <<at, ok, found, late>>
vars == <<tables, writer, requests, runs, up, due, faults, last>>

--------------------------------------------------------------------------------
(* Rows.                                                                       *)

(* Only what the command makes has a password that can be given.               *)
User == [name : Names, by : Requests \cup {Command}]

(* A session that has expired is one that nobody calls with any more.          *)
Session == [revoked : BOOLEAN]
NewSession == [revoked |-> FALSE]

Ages == 0..(Grace + 1)
Heartbeat == [job : Jobs, by : Runs, ok : BOOLEAN, age : Ages]

Kinds == {"bridge", "login", "page", "logout", "run"}

TypeOK ==
    /\ users \subseteq User
    /\ sessions \in [Tokens -> Session \cup {None}]
    /\ hearts \subseteq Heartbeat
    /\ writer \in Requests \cup {None}
    /\ pc \in [Requests -> {"idle", "read", "answered"}]
    /\ kind \in [Requests -> Kinds]
    /\ name \in [Requests -> Names]
    /\ token \in [Requests -> Tokens \cup {None}]
    /\ seen \in [Requests -> Session \cup {None}]
    /\ queue \in [Requests -> Seq(Jobs)]
    /\ at \in [Runs -> {"idle", "body", "ended", "looked"}]
    /\ ok \in [Runs -> BOOLEAN]
    /\ found \in [Runs -> SUBSET Runs]
    /\ late \in [Runs -> 0..MaxRun]
    /\ up \in BOOLEAN /\ due \subseteq Jobs
    /\ faults \in 0..MaxFaults
    /\ last \in [Jobs -> Ages]
    /\ \A q \in Requests : writer = q => kind[q] = "bridge" /\ pc[q] = "answered"
    /\ \A q \in Requests : at[q] # "idle" => pc[q] = "answered" /\ queue[q] # <<>>

UsersOf(n) == {u \in users : u.name = n}
HeartsOf(j) == {h \in hearts : h.job = j}

(* Slip: nothing keeps names and jobs unique.                                  *)
NeverTaken(rows) == FALSE

(* The unique constraints of admin_users.username and job_heartbeats.job_id.   *)
Taken(rows) == rows # {}

(* Slip: the row is written back as it was loaded.                             *)
WholeRow(session, loaded) == loaded

(* A session is saved by its changed columns: last_used_at, kept out here.     *)
Saved(session, loaded) == session

(* Slip: the outcome is what the body left it at.                              *)
Hopeful(committed) == TRUE

(* _run_tracked: SUCCESS only when the transaction has committed.              *)
Outcome(committed) == committed

(* Slip: the job is looked for under a name it is not kept by.                 *)
FoundNothing(j) == {}

(* find_by_job_id                                                              *)
Found(j) == {h.by : h \in HeartsOf(j)}

(* _job_freshness                                                              *)
Freshness(h) ==
    CASE ~h.ok -> "FAILING" [] h.ok /\ h.age > Grace -> "STALE" [] OTHER -> "OK"

(* Jobs run when the answer has been sent.                                     *)
Asked(k) ==
    IF k = "run" THEN {Order} \cup {<<Order[i]>> : i \in DOMAIN Order} ELSE {<<>>}

Admits(t) ==
    /\ sessions[t] # None
    /\ ~sessions[t].revoked

CanWrite(r) == writer \in {None, r}

--------------------------------------------------------------------------------
(* Requests.                                                                   *)

(* Slip: a session that fails is left open.                                    *)
LeftOpen(q) == writer

(* The lock goes with the transaction.                                         *)
Released(q) == IF writer = q THEN None ELSE writer

(* The request is over, whatever became of it; nothing is left to run.         *)
Over(q) ==
    /\ pc' = [pc EXCEPT ![q] = "idle"]
    /\ kind' = [kind EXCEPT ![q] = "page"]
    /\ token' = [token EXCEPT ![q] = None]
    /\ seen' = [seen EXCEPT ![q] = None]
    /\ queue' = [queue EXCEPT ![q] = <<>>]
    /\ UNCHANGED name

Spare == {t \in Tokens : sessions[t] = None /\ \A q \in Requests : token[q] # t}

Answer(q) ==
    /\ pc' = [pc EXCEPT ![q] = "answered"]
    /\ UNCHANGED <<tables, runs, up, due, faults, last>>

(* create_session_cookie_value: the token is the client's before the commit.   *)
Mint(q) ==
    /\ \E t \in Spare : token' = [token EXCEPT ![q] = t]
    /\ Answer(q)
    /\ UNCHANGED <<seen, queue>>

(* login_submit, create_whm_bridged_session of a user that is known.  Of two   *)
(* rows of a name scalar_one_or_none makes an error.                           *)
Enter(q) ==
    /\ pc[q] = "idle"
    /\ \E n \in Names, k \in {"bridge", "login"} :
        /\ Cardinality(UsersOf(n)) = 1
        /\ k = "login" => \E u \in UsersOf(n) : u.by = Command
        /\ kind' = [kind EXCEPT ![q] = k]
        /\ name' = [name EXCEPT ![q] = n]
    /\ Mint(q)
    /\ UNCHANGED writer

(* create_whm_bridged_session finds no such user,                              *)
Meet(q) ==
    /\ pc[q] = "idle"
    /\ Spare # {}
    /\ \E n \in Names :
        /\ UsersOf(n) = {}
        /\ name' = [name EXCEPT ![q] = n]
    /\ pc' = [pc EXCEPT ![q] = "read"]
    /\ kind' = [kind EXCEPT ![q] = "bridge"]
    /\ UNCHANGED <<tables, writer, token, seen, queue, runs, up, due, faults, last>>

(* and makes one: the row is flushed, and the lock kept to the commit.         *)
AddUser(q) ==
    /\ pc[q] = "read"
    /\ writer = None
    /\ IF Taken(UsersOf(name[q]))
       THEN Over(q) /\ UNCHANGED <<tables, writer, runs, up, due, faults, last>>
       ELSE Mint(q) /\ writer' = q /\ UNCHANGED <<kind, name>>

(* require_admin_session, and the handler: a page, a logout, run_scan_now or   *)
(* run_single_scan_now.  Who is not admitted is sent to the login form.        *)
Call(q) ==
    /\ pc[q] = "idle"
    /\ \E t \in Tokens :
        /\ Admits(t)
        /\ token' = [token EXCEPT ![q] = t]
        /\ seen' = [seen EXCEPT ![q] = sessions[t]]
    /\ \E k \in {"page", "logout", "run"} :
        /\ kind' = [kind EXCEPT ![q] = k]
        /\ \E jobs \in Asked(k) : queue' = [queue EXCEPT ![q] = jobs]
    /\ Answer(q)
    /\ UNCHANGED <<writer, name>>

(* get_db_session after the yield, when the answer has been sent and its jobs  *)
(* have run.                                                                   *)
Commit(q) ==
    /\ pc[q] = "answered"
    /\ queue[q] = <<>>
    /\ CanWrite(q)
    /\ users' = IF writer = q THEN users \cup {[name |-> name[q], by |-> q]} ELSE users
    /\ sessions' = [sessions EXCEPT ![token[q]] =
            CASE kind[q] \in {"bridge", "login"} -> NewSession
              [] kind[q] = "logout" -> [Saved(@, seen[q]) EXCEPT !.revoked = TRUE]
              [] OTHER -> Saved(@, seen[q])]
    /\ writer' = Released(q)
    /\ Over(q)
    /\ UNCHANGED <<hearts, runs, up, due, faults, last>>

Fault ==
    /\ faults < MaxFaults
    /\ faults' = faults + 1

(* A handler raises, or the lock does not come in time.                        *)
Abort(q) ==
    /\ pc[q] # "idle" /\ queue[q] = <<>>
    /\ Fault
    /\ writer' = Released(q)
    /\ Over(q)
    /\ UNCHANGED <<tables, runs, up, due, last>>

(* _create_admin_user; a name that is taken is refused.                        *)
CreateAdmin ==
    /\ writer = None
    /\ \E n \in Names :
        /\ ~Taken(UsersOf(n))
        /\ users' = users \cup {[name |-> n, by |-> Command]}
    /\ UNCHANGED <<sessions, hearts, writer, requests, runs, up, due, faults, last>>

--------------------------------------------------------------------------------
(* Runs of jobs.                                                               *)

JobOf(r) == IF r \in Requests THEN Head(queue[r]) ELSE r

Begin(r) ==
    /\ at[r] = "idle"
    /\ at' = [at EXCEPT ![r] = "body"]
    /\ UNCHANGED <<tables, writer, requests, ok, found, late, up, faults, last>>

(* The scheduler's interval is over.                                           *)
Start(j) ==
    /\ j \in due
    /\ due' = due \ {j}
    /\ Begin(j)

(* max_instances: the run before is not over.                                  *)
Skip(j) ==
    /\ j \in due /\ at[j] # "idle"
    /\ due' = due \ {j}
    /\ UNCHANGED <<tables, writer, requests, runs, up, faults, last>>

(* A background task, one after the other.                                     *)
StartNow(q) ==
    /\ pc[q] = "answered" /\ queue[q] # <<>>
    /\ Begin(q)
    /\ UNCHANGED due

(* _run_tracked: the body, and the commit of what it did.                      *)
Ended(r, committed) ==
    /\ at[r] = "body"
    /\ at' = [at EXCEPT ![r] = "ended"]
    /\ ok' = [ok EXCEPT ![r] = Outcome(committed)]
    /\ late' = [late EXCEPT ![r] = 0]
    /\ UNCHANGED <<tables, writer, requests, found, up, due>>

Succeed(r) ==
    /\ writer = None
    /\ Ended(r, TRUE)
    /\ last' = [last EXCEPT ![JobOf(r)] = 0]
    /\ UNCHANGED faults

Fail(r) ==
    /\ Fault
    /\ Ended(r, FALSE)
    /\ UNCHANGED last

(* _record_heartbeat                                                           *)
Look(r) ==
    /\ at[r] = "ended"
    /\ at' = [at EXCEPT ![r] = "looked"]
    /\ found' = [found EXCEPT ![r] = Found(JobOf(r))]
    /\ UNCHANGED <<tables, writer, requests, ok, late, up, due, faults, last>>

Rest(r) ==
    /\ at' = [at EXCEPT ![r] = "idle"]
    /\ ok' = [ok EXCEPT ![r] = FALSE]
    /\ found' = [found EXCEPT ![r] = {}]
    /\ UNCHANGED late

(* What _record_heartbeat raises ends a request with the jobs it has left, and *)
(* its commit; the worker's scheduler logs it.                                 *)
Broken(r) ==
    /\ Rest(r)
    /\ IF r \in Requests THEN Over(r) ELSE UNCHANGED requests
    /\ UNCHANGED <<tables, writer, up, due, last>>

NextJob(r) ==
    IF r \in Requests
    THEN /\ queue' = [queue EXCEPT ![r] = Tail(@)]
         /\ UNCHANGED <<pc, kind, name, token, seen>>
    ELSE UNCHANGED requests

(* The save is a merge and an UPDATE of the columns that differ, here one step *)
(* with the row as it is: what another record put in between would stay in the *)
(* other columns, and that record is of a run committed just then.             *)
Recorded(r) ==
    LET j == JobOf(r)
        mine == [job |-> j, by |-> r, ok |-> ok[r], age |-> 0]
        old == {h \in HeartsOf(j) : h.by \in found[r]}
    IN  IF found[r] = {} THEN hearts \cup {mine}
        ELSE (hearts \ old) \cup {[h EXCEPT !.ok = ok[r], !.age = 0] : h \in old}

Record(r) ==
    /\ at[r] = "looked"
    /\ writer = None
    /\ IF found[r] = {} /\ Taken(HeartsOf(JobOf(r)))
       THEN Broken(r)
       ELSE /\ hearts' = Recorded(r)
            /\ Rest(r)
            /\ NextJob(r)
            /\ UNCHANGED <<users, sessions, writer, up, due, last>>
    /\ UNCHANGED faults

Lose(r) ==
    /\ at[r] = "looked"
    /\ Fault
    /\ Broken(r)

--------------------------------------------------------------------------------
(* Processes and time.                                                         *)

Idle(some) ==
    /\ at' = [r \in Runs |-> IF r \in some THEN "idle" ELSE at[r]]
    /\ ok' = [r \in Runs |-> IF r \in some THEN FALSE ELSE ok[r]]
    /\ found' = [r \in Runs |-> IF r \in some THEN {} ELSE found[r]]
    /\ late' = [r \in Runs |-> IF r \in some THEN 0 ELSE late[r]]

WorkerDies ==
    /\ up
    /\ Fault
    /\ up' = FALSE
    /\ due' = {}
    /\ Idle(Jobs)
    /\ UNCHANGED <<tables, writer, requests, last>>

(* It is restarted, and its intervals start anew.                              *)
WorkerStarts ==
    /\ ~up
    /\ up' = TRUE
    /\ UNCHANGED <<tables, writer, requests, runs, due, faults, last>>

ApiDies ==
    /\ Fault
    /\ writer' = None
    /\ pc' = [q \in Requests |-> "idle"]
    /\ kind' = [q \in Requests |-> "page"]
    /\ token' = [q \in Requests |-> None]
    /\ seen' = [q \in Requests |-> None]
    /\ queue' = [q \in Requests |-> <<>>]
    /\ Idle(Requests)
    /\ UNCHANGED <<tables, name, up, due, last>>

Older(age) == IF age > Grace THEN age ELSE age + 1

(* A body may take long; the records that follow it do not.                    *)
Tick ==
    /\ due = {}
    /\ \A r \in Runs : /\ at[r] \notin {"ended", "looked"}
                       /\ at[r] = "body" => late[r] < MaxRun
    /\ due' = IF up THEN Jobs ELSE {}
    /\ late' = [r \in Runs |-> IF at[r] = "body" THEN late[r] + 1 ELSE 0]
    /\ hearts' = {[h EXCEPT !.age = Older(@)] : h \in hearts}
    /\ last' = [j \in Jobs |-> Older(last[j])]
    /\ UNCHANGED <<users, sessions, writer, requests, at, ok, found, up, faults>>

Init ==
    /\ users = {} /\ hearts = {}
    /\ sessions = [t \in Tokens |-> None]
    /\ writer = None
    /\ pc = [q \in Requests |-> "idle"]
    /\ kind = [q \in Requests |-> "page"]
    /\ name \in [Requests -> Names]
    /\ token = [q \in Requests |-> None]
    /\ seen = [q \in Requests |-> None]
    /\ queue = [q \in Requests |-> <<>>]
    /\ at = [r \in Runs |-> "idle"]
    /\ ok = [r \in Runs |-> FALSE]
    /\ found = [r \in Runs |-> {}]
    /\ late = [r \in Runs |-> 0]
    /\ up = TRUE /\ due = {}
    /\ faults = 0
    /\ last = [j \in Jobs |-> Grace + 1]

Handle(q) == AddUser(q) \/ StartNow(q) \/ Commit(q)
Carry(r) == Succeed(r) \/ Look(r) \/ Record(r)

Next ==
    \/ \E q \in Requests : Enter(q) \/ Meet(q) \/ Call(q) \/ Handle(q) \/ Abort(q)
    \/ \E r \in Runs : Carry(r) \/ Fail(r) \/ Lose(r)
    \/ \E j \in Jobs : Start(j) \/ Skip(j)
    \/ CreateAdmin \/ WorkerDies \/ WorkerStarts \/ ApiDies \/ Tick

Spec == Init /\ [][Next]_vars

(* Requests and runs are carried on, the scheduler starts what is due, the     *)
(* worker is restarted, and time passes though requests keep coming.           *)
FairSpec ==
    /\ Spec
    /\ \A q \in Requests : WF_vars(Handle(q))
    /\ \A r \in Runs : WF_vars(Carry(r))
    /\ \A j \in Jobs : WF_vars(Start(j) \/ Skip(j))
    /\ WF_vars(WorkerStarts) /\ SF_vars(Tick)
--------------------------------------------------------------------------------
(* Properties.                                                                 *)

(* However first logins of a name, the command that makes a user, and first    *)
(* runs of a job overlap, there is one row for each: a second one would make   *)
(* every later login, or record, an error (scalar_one_or_none).                *)
OneRowEach ==
    /\ \A n \in Names : Cardinality(UsersOf(n)) <= 1
    /\ \A j \in Jobs : Cardinality(HeartsOf(j)) <= 1

(* A session whose revocation is committed stays revoked, though requests that *)
(* loaded it before, some of which run jobs for long, commit after.            *)
RevokedForEver ==
    [][\A t \in Tokens :
        sessions[t] # None /\ sessions[t].revoked => sessions'[t].revoked]_sessions

(* A job that "sentinel health" calls OK has committed a run within the grace, *)
(* whichever process ran it, whatever overlapped, failed or died.              *)
HealthTruth ==
    \A h \in hearts : Freshness(h) = "OK" => last[h.job] <= Grace

(* After failures, deaths and conflicts of first records, health calls every   *)
(* job OK in the end, and goes on doing so.                                    *)
EventuallyHealthy ==
    \A j \in Jobs : <>[](\E h \in HeartsOf(j) : Freshness(h) = "OK")

================================================================================
