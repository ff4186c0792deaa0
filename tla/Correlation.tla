------------------------------ MODULE Correlation ------------------------------
(* Correlation of security events into incidents and the root-cause analysis   *)
(* that follows it: one job in the worker, one transaction per run, while      *)
(* detectors commit events and the inventory changes.                          *)
(*                                                                             *)
(* Nothing but this job writes incidents, links, timelines or processed_at     *)
(* (the job is not one of those "Run Now" starts, and max_instances is 1), so  *)
(* what it reads there is what it wrote, and a save is one step here.          *)
(* Detectors only add events.  Time passes in ticks of the job's interval.     *)
EXTENDS Integers, FiniteSets

CONSTANTS
    Events,        \* security_events rows that can arise
    Accounts,      \* cPanel accounts
    Signatures,    \* event type and sorted matched rule ids
    Plugins,       \* slug and version of installed plugins
    SigOf,         \* [Events -> Signatures]: _signature_for
    AccountOf,     \* [Events -> Accounts \cup {None}]
    SeverityOf,    \* [Events -> 0..4]: rank
    Inventories,   \* the plugins the accounts can have, one at a time
    Batch,         \* the limit of list_unprocessed (200)
    Window,        \* correlation_time_window_minutes, in ticks
    Delay,         \* bound: ticks between an event's occurred_at and its commit
    MaxTime,       \* bound: ticks
    MaxDeaths,     \* bound: how many runs crash or fail to commit
    Unknown,       \* a plugin's version when none was found
    None

ASSUME CorrelationAssumption ==
    /\ SigOf \in [Events -> Signatures]
    /\ AccountOf \in [Events -> Accounts \cup {None}]
    /\ SeverityOf \in [Events -> 0..4]
    /\ IsFiniteSet(Accounts)
    /\ Plugins \subseteq [slug : Nat, version : Nat \cup {Unknown}]
    /\ Inventories \subseteq [Accounts -> SUBSET Plugins]
    /\ Inventories # {}
    /\ Batch \in Nat \ {0}
    /\ {Window, Delay, MaxTime, MaxDeaths} \subseteq Nat
    /\ Unknown \notin Nat
    /\ None \notin Events \cup Accounts \cup Plugins \cup Nat

VARIABLES
    clock,     \* utcnow()
    occurred,  \* occurred_at of the committed events
    plugins,   \* the inventory tables: what is present where
    db,        \* the committed rows this job writes
    draft,     \* the same as the running job sees them
    pc,        \* where the job is
    now,       \* the time the run started at
    batch,     \* the events it took
    todo,      \* the signatures, then the incidents, it has still to do
    seen,      \* the plugins the analysis has read, account by account
    present,   \* history: all plugins the accounts had since the run began
    dirty,     \* has the run written anything, so that it holds the lock?
    deaths     \* how many runs have died

run == <<draft, pc, now, batch, todo, seen, dirty>>
vars == <<clock, occurred, plugins, db, draft, pc, now, batch, todo, seen, present,
          dirty, deaths>>

--------------------------------------------------------------------------------
(* Data.                                                                       *)

Times == 0..MaxTime
Committed == {e \in Events : occurred[e] # None}

(* An incidents row; it has the name of the event it was opened for.  Nothing  *)
(* changes its status, which is OPEN.                                          *)
Incident == [sig : Signatures, severity : 0..4, confidence : Nat,
             cause : Plugins \cup {None}, created : Nat, last : Nat]

ASSUME NoIncident == None \notin Incident

Tables == [processed : SUBSET Events,
           incident : [Events -> Incident \cup {None}],
           timeline : SUBSET (Events \X Events),      \* incident, event
           link : SUBSET (Events \X Accounts)]        \* incident, account

TypeOK ==
    /\ clock \in Times
    /\ occurred \in [Events -> Times \cup {None}]
    /\ plugins \in Inventories
    /\ db \in Tables
    /\ draft \in Tables
    /\ pc \in {"idle", "correlate", "analyze"}
    /\ now \in Times
    /\ batch \subseteq Events
    /\ todo \subseteq Signatures \cup Events
    /\ seen \in [Accounts -> (SUBSET Plugins) \cup {None}]
    /\ present \in [Accounts -> SUBSET Plugins]
    /\ dirty \in BOOLEAN
    /\ deaths \in 0..MaxDeaths

Evidence(tables, i) == {e \in Events : <<i, e>> \in tables.timeline}
Linked(tables, i) == {a \in Accounts : <<i, a>> \in tables.link}

Highest(S) == CHOOSE n \in S : \A k \in S : k <= n
Lowest(S) == CHOOSE n \in S : \A k \in S : n <= k

(* _confidence_for, in percent.                                                *)
ConfidenceFor(n) == IF n = 0 THEN 50 ELSE Lowest({99, 50 + 10 * n})

--------------------------------------------------------------------------------
(* RunCorrelationUseCase.                                                      *)

(* Slip: the query lost its `processed_at IS NULL`.                            *)
EverythingPending(tables) == Committed

Pending(tables) == Committed \ tables.processed

(* list_unprocessed: the oldest of them, up to the limit.                      *)
Oldest(S) ==
    {B \in SUBSET S :
        /\ Cardinality(B) = Lowest({Batch, Cardinality(S)})
        /\ \A e \in B, f \in S \ B : occurred[e] <= occurred[f]}

Clustered(B, sig) == {e \in B : SigOf[e] = sig}

(* Slip: an incident seen exactly one window ago is not found.                 *)
OpenInside(tables, sig) ==
    {i \in Events : /\ tables.incident[i] # None
                    /\ tables.incident[i].sig = sig
                    /\ tables.incident[i].last > now - Window}

(* Slip: the query lost its filter on the signature.                           *)
OpenForAny(tables, sig) ==
    {i \in Events : /\ tables.incident[i] # None
                    /\ tables.incident[i].last >= now - Window}

(* The incidents find_open_matching can return: the last seen of those inside  *)
(* the window.                                                                 *)
OpenFor(tables, sig) ==
    {i \in Events : /\ tables.incident[i] # None
                    /\ tables.incident[i].sig = sig
                    /\ tables.incident[i].last >= now - Window}
Matching(tables, sig) ==
    LET open == OpenFor(tables, sig)
    IN  {i \in open : \A j \in open :
            tables.incident[j].last <= tables.incident[i].last}

Opened(C) ==
    [sig |-> SigOf[CHOOSE e \in C : TRUE],
     severity |-> 0, confidence |-> 50, cause |-> None, created |-> now,
     last |-> Highest({occurred[e] : e \in C})]

(* Slip: the severity of the latest evidence replaces the incident's.          *)
LatestSeverity(row, C, accounts) ==
    [row EXCEPT !.last = Highest({@, now}),
                !.confidence = ConfidenceFor(Cardinality(accounts)),
                !.severity = Highest({SeverityOf[e] : e \in C})]

(* record_new_evidence: last_seen_at moves to the run's time, the confidence   *)
(* is recomputed from the links, the severity never falls.                     *)
WithEvidence(row, C, accounts) ==
    [row EXCEPT !.last = Highest({@, now}),
                !.confidence = ConfidenceFor(Cardinality(accounts)),
                !.severity = Highest({@} \cup {SeverityOf[e] : e \in C})]

(* Slip: an event without an account is linked as well.                        *)
LinkedToNobody(tables, i, C) ==
    LET accounts == Linked(tables, i) \cup {AccountOf[e] : e \in C}
        row == IF tables.incident[i] = None THEN Opened(C) ELSE tables.incident[i]
    IN  [processed |-> tables.processed \cup C,
         incident |-> [tables.incident EXCEPT ![i] = WithEvidence(row, C, accounts)],
         timeline |-> tables.timeline \cup {<<i, e>> : e \in C},
         link |-> tables.link \cup {<<i, a>> : a \in accounts}]

(* The rows after the events C went to incident i.                             *)
Absorbed(tables, i, C) ==
    LET accounts == Linked(tables, i) \cup ({AccountOf[e] : e \in C} \ {None})
        row == IF tables.incident[i] = None THEN Opened(C) ELSE tables.incident[i]
    IN  [processed |-> tables.processed \cup C,
         incident |-> [tables.incident EXCEPT ![i] = WithEvidence(row, C, accounts)],
         timeline |-> tables.timeline \cup {<<i, e>> : e \in C},
         link |-> tables.link \cup {<<i, a>> : a \in accounts}]

NothingSeen == [a \in Accounts |-> None]
NothingPresent == [a \in Accounts |-> {}]

(* One run begins: the batch is read.                                          *)
Start ==
    /\ pc = "idle"
    /\ pc' = "correlate"
    /\ now' = clock
    /\ draft' = db
    /\ batch' \in Oldest(Pending(db))
    /\ todo' = {SigOf[e] : e \in batch'}
    /\ dirty' = FALSE
    /\ present' = plugins
    /\ UNCHANGED <<clock, occurred, plugins, db, seen, deaths>>

(* One cluster joins the open incident of its signature or opens one, named    *)
(* after its first event.                                                      *)
Correlate ==
    /\ pc = "correlate"
    /\ \E sig \in todo \cap Signatures :
        LET C == Clustered(batch, sig)
            first == {e \in C : \A f \in C : occurred[e] <= occurred[f]}
        IN  /\ \E i \in IF Matching(draft, sig) # {} THEN Matching(draft, sig)
                        ELSE first :
                    draft' = Absorbed(draft, i, C)
            /\ todo' = todo \ {sig}
    /\ dirty' = TRUE
    /\ UNCHANGED <<clock, occurred, plugins, db, pc, now, batch, seen, present, deaths>>

--------------------------------------------------------------------------------
(* AnalyzeRootCauseUseCase.                                                    *)

(* Slip: an account without any plugin does not count.                         *)
CommonToOwners(had, A) == {p \in Plugins : \A a \in A : had[a] = {} \/ p \in had[a]}

(* The plugins with their version that every one of the accounts has.          *)
Common(had, A) == {p \in Plugins : \A a \in A : p \in had[a]}

(* Python cannot order None and a string: sorted() raises a TypeError when one *)
(* slug is common with and without a version.                                  *)
Unsortable(S) == \E p, q \in S : /\ p.slug = q.slug
                                 /\ p.version = Unknown
                                 /\ q.version # Unknown

Before(p, q) == \/ p.slug < q.slug
                \/ p.slug = q.slug /\ p.version # Unknown /\ p.version <= q.version
                \/ p = q

(* apply_root_cause: the first candidate, surer if it is the only one.         *)
Concluded(row, S) ==
    [row EXCEPT !.cause = CHOOSE p \in S : \A q \in S : Before(p, q),
                !.confidence = Highest({@, IF Cardinality(S) = 1 THEN 90 ELSE 60})]

(* list_open: the incidents that have no root cause yet are looked at.         *)
BeginAnalysis ==
    /\ pc = "correlate"
    /\ todo = {}
    /\ pc' = "analyze"
    /\ todo' = {i \in Events : draft.incident[i] # None
                               /\ draft.incident[i].cause = None}
    /\ UNCHANGED <<clock, occurred, plugins, db, draft, now, batch, seen, present, dirty,
                   deaths>>

(* What has been read, and has it been read for all accounts of an incident?   *)
(* Fewer than two are not looked at.                                           *)
SeenOf == {a \in Accounts : seen[a] # None}
Suspected(i) == Cardinality(Linked(draft, i)) >= 2
LookedAt(i) == SeenOf = IF Suspected(i) THEN Linked(draft, i) ELSE {}

(* The plugins of one more account of an incident are read; the inventory may  *)
(* change between one account and the next.                                    *)
Look ==
    /\ pc = "analyze"
    /\ \E i \in todo \cap Events :
        /\ Suspected(i)
        /\ SeenOf \subseteq Linked(draft, i)
        /\ \E a \in Linked(draft, i) \ SeenOf :
            seen' = [seen EXCEPT ![a] = plugins[a]]
    /\ UNCHANGED <<clock, occurred, plugins, db, draft, pc, now, batch, todo, present,
                   dirty, deaths>>

(* One incident: fewer than two accounts or nothing in common leave it alone.  *)
Analyze ==
    /\ pc = "analyze"
    /\ \E i \in todo \cap Events :
        LET common == Common(seen, Linked(draft, i))
            found == Suspected(i) /\ common # {}
        IN  /\ LookedAt(i)
            /\ ~(found /\ Unsortable(common))
            /\ draft' = IF found
                        THEN [draft EXCEPT !.incident[i] = Concluded(@, common)]
                        ELSE draft
            /\ dirty' = (dirty \/ found)
            /\ todo' = todo \ {i}
    /\ seen' = NothingSeen
    /\ UNCHANGED <<clock, occurred, plugins, db, pc, now, batch, present, deaths>>

(* A run is over; its objects are gone.                                        *)
Rest ==
    /\ pc' = "idle"
    /\ draft' = db'
    /\ now' = 0
    /\ batch' = {}
    /\ todo' = {}
    /\ seen' = NothingSeen
    /\ present' = NothingPresent
    /\ dirty' = FALSE
    /\ UNCHANGED <<clock, occurred, plugins>>

(* The analysis fails, and takes the whole run's transaction with it.          *)
AnalysisFails ==
    /\ pc = "analyze"
    /\ \E i \in todo \cap Events :
        /\ Suspected(i) /\ LookedAt(i)
        /\ Unsortable(Common(seen, Linked(draft, i)))
    /\ UNCHANGED <<db, deaths>>
    /\ Rest

Commit ==
    /\ pc = "analyze"
    /\ todo = {}
    /\ db' = draft
    /\ UNCHANGED deaths
    /\ Rest

--------------------------------------------------------------------------------
(* The surroundings.                                                           *)

(* A detector's transaction commits an event, with the time its run started.   *)
Emit ==
    /\ ~dirty
    /\ \E e \in Events, at \in Times :
        /\ occurred[e] = None
        /\ at <= clock
        /\ clock - at <= Delay
        /\ occurred' = [occurred EXCEPT ![e] = at]
    /\ UNCHANGED <<clock, plugins, db, run, present, deaths>>

(* The inventory job commits.                                                  *)
Inventory ==
    /\ ~dirty
    /\ plugins' \in Inventories \ {plugins}
    /\ present' = IF pc = "idle" THEN present
                  ELSE [a \in Accounts |-> present[a] \cup plugins'[a]]
    /\ UNCHANGED <<clock, occurred, db, run, deaths>>

Tick ==
    /\ clock < MaxTime
    /\ clock' = clock + 1
    /\ UNCHANGED <<occurred, plugins, db, run, present, deaths>>

(* The worker stops, or the commit fails.                                      *)
Die ==
    /\ pc # "idle"
    /\ deaths < MaxDeaths
    /\ deaths' = deaths + 1
    /\ UNCHANGED db
    /\ Rest

NoTables == [processed |-> {}, incident |-> [e \in Events |-> None],
             timeline |-> {}, link |-> {}]

Init ==
    /\ clock = 0
    /\ occurred = [e \in Events |-> None]
    /\ plugins \in Inventories
    /\ db = NoTables
    /\ draft = NoTables
    /\ pc = "idle"
    /\ now = 0
    /\ batch = {}
    /\ todo = {}
    /\ seen = NothingSeen
    /\ present = NothingPresent
    /\ dirty = FALSE
    /\ deaths = 0

Job == Start \/ Correlate \/ BeginAnalysis \/ Look \/ Analyze \/ AnalysisFails \/ Commit

Next == Job \/ Emit \/ Inventory \/ Tick \/ Die

Spec == Init /\ [][Next]_vars

(* The scheduler starts a run at every interval and asyncio carries it on.     *)
FairSpec == Spec /\ WF_vars(Job)

--------------------------------------------------------------------------------
(* Properties.                                                                 *)

(* Every event is attributed once: the processed events are those that stand   *)
(* in a timeline, each in one, that of an incident of its own signature;       *)
(* whatever dies between the batch and the commit.                             *)
Partition ==
    /\ db.processed = {e \in Events : \E i \in Events : <<i, e>> \in db.timeline}
    /\ \A i, j, e \in Events :
        <<i, e>> \in db.timeline /\ <<j, e>> \in db.timeline => i = j
    /\ \A i, e \in Events :
        <<i, e>> \in db.timeline => /\ db.incident[i] # None
                                    /\ db.incident[i].sig = SigOf[e]

(* What an incident says follows from its evidence, however many runs it took: *)
(* it is linked to exactly the accounts of its events, as severe as the worst  *)
(* of them, and as sure as their number makes it (_confidence_for), or, once   *)
(* apply_root_cause has raised that, as sure as a root cause makes it.         *)
Faithful ==
    \A i \in Events : db.incident[i] # None =>
        LET row == db.incident[i]
            evidence == Evidence(db, i)
            sure == ConfidenceFor(Cardinality(Linked(db, i)))
        IN  /\ Linked(db, i) = {AccountOf[e] : e \in evidence} \ {None}
            /\ row.severity = Highest({SeverityOf[e] : e \in evidence})
            /\ \/ row.confidence = sure
               \/ /\ row.cause # None
                  /\ row.confidence \in {Highest({sure, 60}), Highest({sure, 90})}

(* A root cause is no guess (AnalyzeRootCauseUseCase: "a plugin+version shared *)
(* by every affected account"): when a run commits one, two accounts or more   *)
(* are linked to the incident, and each of them had that plugin in that        *)
(* version at a time since the run began.                                      *)
CauseShared ==
    [][\A i \in Events :
        LET row == db'.incident[i]
        IN  /\ row # None /\ row.cause # None
            /\ db.incident[i] = None \/ db.incident[i].cause = None
            => /\ Cardinality(Linked(db', i)) >= 2
               /\ \A a \in Linked(db', i) : row.cause \in present[a]]_vars

(* One signature has one open incident per window: a second one is opened only *)
(* when the first had no evidence for longer than the window, and the first    *)
(* gets none afterwards.                                                       *)
OneOpenPerWindow ==
    \A i, j \in Events :
        /\ i # j
        /\ db.incident[i] # None /\ db.incident[j] # None
        /\ db.incident[i].sig = db.incident[j].sig
        /\ db.incident[i].created <= db.incident[j].created
        => db.incident[i].last + Window < db.incident[j].created

(* Accounts that share one plugin both with and without a known version.       *)
Poisoned ==
    \E A \in SUBSET Accounts : Cardinality(A) >= 2 /\ Unsortable(Common(plugins, A))

(* No event is left behind by the batch limit, late commits with early times,  *)
(* or runs that die: each is attributed in the end, provided the analysis can  *)
(* order its candidates from some time on (otherwise every run rolls back).    *)
EventuallyCorrelated ==
    <>[](~Poisoned) => \A e \in Events : occurred[e] # None ~> e \in db.processed

================================================================================
