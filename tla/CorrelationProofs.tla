--------------------------- MODULE CorrelationProofs ---------------------------
(* Theorems about Correlation: its type invariant, and that the events, what   *)
(* incidents say of them, and the windows of incidents fit together.           *)
EXTENDS Correlation, FiniteSetTheorems, NaturalsInduction, WellFoundedInduction, TLAPS

(* Partition of some tables, and each incident has the event it is named for.  *)
Attributed(t) ==
    /\ t.processed = {e \in Events : \E i \in Events : <<i, e>> \in t.timeline}
    /\ \A i, j, e \in Events : <<i, e>> \in t.timeline /\ <<j, e>> \in t.timeline => i = j
    /\ \A i, e \in Events :
        <<i, e>> \in t.timeline => /\ t.incident[i] # None
                                   /\ t.incident[i].sig = SigOf[e]
    /\ \A i \in Events : t.incident[i] # None => <<i, i>> \in t.timeline

(* What one row says, as in Faithful.                                          *)
Tells(row, accounts, evidence) ==
    LET sure == ConfidenceFor(Cardinality(accounts))
    IN  /\ accounts = {AccountOf[e] : e \in evidence} \ {None}
        /\ row.severity = Highest({SeverityOf[e] : e \in evidence})
        /\ \/ row.confidence = sure
           \/ /\ row.cause # None
              /\ row.confidence \in {Highest({sure, 60}), Highest({sure, 90})}

Told(t, i) == Tells(t.incident[i], Linked(t, i), Evidence(t, i))

Truthful(t) ==
    \A i \in Events : IF t.incident[i] = None THEN Linked(t, i) = {} ELSE Told(t, i)

(* An incident that is not the last of its signature was seen a window before  *)
(* the next one was opened.                                                    *)
Windowed(t) ==
    \A i, j \in Events :
        /\ i # j
        /\ t.incident[i] # None /\ t.incident[j] # None
        /\ t.incident[i].sig = t.incident[j].sig
        /\ t.incident[i].created <= t.incident[j].created
        => t.incident[i].last + Window < t.incident[j].created

(* No incident was seen after a time.                                          *)
Dated(t, time) ==
    \A i \in Events : t.incident[i] # None =>
        t.incident[i].created <= t.incident[i].last /\ t.incident[i].last <= time

Sound(t) == Attributed(t) /\ Truthful(t) /\ Windowed(t)

(* What a run has still to correlate is not in its tables yet.                 *)
BatchOK ==
    /\ \A e \in batch : occurred[e] \in Times /\ occurred[e] <= now
    /\ pc = "correlate" =>
        /\ todo \subseteq {SigOf[e] : e \in batch}
        /\ \A e \in batch : SigOf[e] \in todo => e \notin draft.processed
    /\ pc = "analyze" => \A i \in todo \cap Events :
        draft.incident[i] # None /\ draft.incident[i].cause = None

(* A root cause that the run has found and not yet committed.                  *)
NewCause(i) ==
    /\ draft.incident[i] # None /\ draft.incident[i].cause # None
    /\ db.incident[i] = None \/ db.incident[i].cause = None

(* What the analysis has read, and concluded, was there during the run.        *)
Shown ==
    /\ pc # "analyze" => seen = NothingSeen
    /\ \A a \in Accounts : seen[a] # None => seen[a] \subseteq present[a]
    /\ pc # "idle" =>
        /\ \A a \in Accounts : plugins[a] \subseteq present[a]
        /\ \A i \in Events : NewCause(i) =>
            /\ pc = "analyze"
            /\ Cardinality(Linked(draft, i)) >= 2
            /\ \A a \in Linked(draft, i) : draft.incident[i].cause \in present[a]

Inv ==
    /\ TypeOK
    /\ Sound(db) /\ Sound(draft)
    /\ Dated(db, clock)
    /\ pc # "idle" => Dated(draft, now) /\ now <= clock
    /\ BatchOK
    /\ \A e \in Events : occurred[e] # None => occurred[e] <= clock

--------------------------------------------------------------------------------
(* The highest and the lowest of a set of numbers, and the first plugin.       *)

LEMMA Least ==
    ASSUME NEW S, S \subseteq Nat, S # {}
    PROVE  \E n \in S : \A k \in S : n <= k
<1>1. PICK n \in S : \A k \in S : ~(<<k, n>> \in OpToRel(<, Nat))
    BY NatLessThanWellFounded, WFMin
<1>2. \A k \in S : ~(k < n)
    BY <1>1 DEF OpToRel
<1> QED
    BY <1>2

LEMMA LowestOf ==
    ASSUME NEW S, S \subseteq Nat, S # {}
    PROVE  Lowest(S) \in S /\ \A k \in S : Lowest(S) <= k
    BY Least DEF Lowest

LEMMA HighestOf ==
    ASSUME NEW S, NEW n \in Nat, S \subseteq 0..n, S # {}
    PROVE  Highest(S) \in S /\ \A k \in S : k <= Highest(S)
<1> DEFINE Bounds == {u \in Nat : \A k \in S : k <= u}
<1>1. n \in Bounds /\ Bounds \subseteq Nat
    OBVIOUS
<1>2. PICK u \in Bounds : \A v \in Bounds : u <= v
    <2> HIDE DEF Bounds
    <2> QED
        BY <1>1, Least
<1>3. u \in S
    <2> SUFFICES ASSUME u \notin S PROVE FALSE
        OBVIOUS
    <2>1. u # 0 /\ \A k \in S : k < u
        <3>1. \A k \in S : k \in Nat /\ k <= u /\ k # u
            OBVIOUS
        <3>2. u \in Nat
            OBVIOUS
        <3> HIDE DEF Bounds
        <3>3. \A k \in S : k < u
            BY <3>1, <3>2
        <3>4. PICK k \in S : TRUE
            OBVIOUS
        <3>5. u # 0
            BY <3>1, <3>3, <3>4
        <3> QED
            BY <3>3, <3>5
    <2>2. u - 1 \in Bounds
        BY <2>1
    <2> QED
        BY <1>2, <2>2
<1>4. \E x \in S : \A k \in S : k <= x
    BY <1>2, <1>3
<1> QED
    BY <1>4 DEF Highest

(* A highest element is the only one.                                          *)
LEMMA HighestIs ==
    ASSUME NEW S, S \subseteq Nat, NEW n \in S, \A k \in S : k <= n
    PROVE  Highest(S) = n
<1>1. Highest(S) \in S /\ \A k \in S : k <= Highest(S)
    BY DEF Highest
<1> HIDE DEF Highest
<1>2. Highest(S) <= n /\ n <= Highest(S) /\ Highest(S) \in Nat
    BY <1>1
<1> QED
    BY <1>2

LEMMA HighestOfTwo ==
    ASSUME NEW m \in Nat, NEW n \in Nat
    PROVE  Highest({m, n}) = IF m <= n THEN n ELSE m
<1>1. CASE m <= n
    BY <1>1, HighestIs
<1>2. CASE ~(m <= n)
    BY <1>2, HighestIs
<1> QED
    BY <1>1, <1>2

LEMMA LowestOfTwo ==
    ASSUME NEW m \in Nat, NEW n \in Nat
    PROVE  Lowest({m, n}) = IF m <= n THEN m ELSE n
    BY LowestOf DEF Lowest

(* More accounts, more confidence.                                             *)
LEMMA ConfidenceGrows ==
    ASSUME NEW n \in Nat
    PROVE  ConfidenceFor(n) \in Nat
<1>1. 99 \in Nat /\ 50 + 10 * n \in Nat
    OBVIOUS
<1>2. Lowest({99, 50 + 10 * n}) \in Nat
    BY <1>1, LowestOf
<1> QED
    BY <1>2 DEF ConfidenceFor

LEMMA FirstPlugin ==
    ASSUME NEW S, S \subseteq Plugins, S # {}, ~Unsortable(S)
    PROVE  (CHOOSE p \in S : \A q \in S : Before(p, q)) \in S
<1>1. S \subseteq [slug : Nat, version : Nat \cup {Unknown}]
    BY CorrelationAssumption
<1> DEFINE Slugs == {p.slug : p \in S}
<1>2. PICK m \in Slugs : \A k \in Slugs : m <= k
    <2>1. Slugs \subseteq Nat /\ Slugs # {}
        BY <1>1
    <2> HIDE DEF Slugs
    <2> QED
        BY <2>1, Least
<1> DEFINE Same == {p \in S : p.slug = m}
<1>3. Same # {} /\ \A q \in S \ Same : m < q.slug /\ q.slug \in Nat
    BY <1>1, <1>2
<1>4. \E p \in Same : \A q \in Same : Before(p, q)
    <2>1. CASE \E p \in Same : p.version = Unknown
        <3>1. PICK p \in Same : p.version = Unknown
            BY <2>1
        <3>2. \A q \in Same : q.version = Unknown
            BY <3>1 DEF Unsortable
        <3>3. \A q \in Same : q = p
            BY <1>1, <3>1, <3>2
        <3> QED
            BY <3>3 DEF Before
    <2>2. CASE \A p \in Same : p.version # Unknown
        <3> DEFINE Versions == {p.version : p \in Same}
        <3>1. Versions \subseteq Nat /\ Versions # {}
            BY <1>1, <1>3, <2>2
        <3>2. PICK v \in Versions : \A k \in Versions : v <= k
            <4> HIDE DEF Versions
            <4> QED
                BY <3>1, Least
        <3>3. PICK p \in Same : p.version = v
            BY <3>2
        <3> QED
            BY <2>2, <3>2, <3>3 DEF Before
    <2> QED
        BY <2>1, <2>2
<1>5. \E p \in S : \A q \in S : Before(p, q)
    <2>1. PICK p \in Same : \A q \in Same : Before(p, q)
        BY <1>4
    <2>2. \A q \in S \ Same : Before(p, q)
        BY <1>3 DEF Before
    <2> QED
        BY <2>1, <2>2
<1> QED
    BY <1>5

--------------------------------------------------------------------------------
(* What becomes of a row that gets evidence.                                   *)

Accs(t, i, C) == Linked(t, i) \cup ({AccountOf[e] : e \in C} \ {None})
Base(t, i, C) == IF t.incident[i] = None THEN Opened(C) ELSE t.incident[i]

(* Events of one signature that a run may take.                                *)
Cluster(C, sig) == \A e \in C : SigOf[e] = sig /\ occurred[e] \in Times

LEMMA Counts ==
    ASSUME NEW A, A \subseteq Accounts
    PROVE  /\ IsFiniteSet(A) /\ Cardinality(A) \in Nat
           /\ \A B \in SUBSET A : Cardinality(B) <= Cardinality(A)
    BY FS_Subset, FS_CardinalityType, CorrelationAssumption

LEMMA OpenedRow ==
    ASSUME TypeOK, NEW sig \in Signatures, NEW C \in SUBSET Events, C # {}, Cluster(C, sig)
    PROVE  /\ Opened(C) \in Incident
           /\ Opened(C).sig = sig /\ Opened(C).severity = 0 /\ Opened(C).cause = None
           /\ Opened(C).created = now
           /\ \E e \in C : Opened(C).last = occurred[e]
<1> DEFINE S == {occurred[e] : e \in C}
<1>1. S # {} /\ S \subseteq 0..MaxTime /\ MaxTime \in Nat
    BY CorrelationAssumption DEF Cluster, Times
<1>2. Highest(S) \in S
    <2> HIDE DEF S
    <2> QED
        BY <1>1, HighestOf
<1>3. SigOf[CHOOSE e \in C : TRUE] = sig
    BY DEF Cluster
<1>4. now \in Nat /\ Highest(S) \in Nat
    BY <1>1, <1>2 DEF TypeOK, Times
<1> DEFINE l == Highest(S)
<1>5. Opened(C) = [sig |-> sig, severity |-> 0, confidence |-> 50, cause |-> None,
                  created |-> now, last |-> l]
    BY <1>3 DEF Opened
<1>6. l \in Nat /\ \E e \in C : l = occurred[e]
    BY <1>2, <1>4
<1> HIDE DEF S, l
<1> QED
    BY <1>4, <1>5, <1>6 DEF Incident

LEMMA EvidenceRow ==
    ASSUME TypeOK, NEW row \in Incident, NEW C \in SUBSET Events,
           NEW A \in SUBSET Accounts
    PROVE  LET r == WithEvidence(row, C, A)
           IN  /\ r \in Incident
               /\ r.sig = row.sig /\ r.created = row.created /\ r.cause = row.cause
               /\ r.last = IF row.last <= now THEN now ELSE row.last
               /\ r.confidence = ConfidenceFor(Cardinality(A))
               /\ r.severity = Highest({row.severity} \cup {SeverityOf[e] : e \in C})
<1> DEFINE S == {row.severity} \cup {SeverityOf[e] : e \in C}
<1>1. S # {} /\ S \subseteq 0..4
    BY CorrelationAssumption DEF Incident
<1>2. Highest(S) \in 0..4
    <2> HIDE DEF S
    <2> QED
        BY <1>1, HighestOf
<1>3. ConfidenceFor(Cardinality(A)) \in Nat
    BY Counts, ConfidenceGrows
<1>4. row.last \in Nat /\ now \in Nat
    BY DEF TypeOK, Times, Incident
<1>5. Highest({row.last, now}) = IF row.last <= now THEN now ELSE row.last
    BY <1>4, HighestOfTwo
<1> DEFINE l == Highest({row.last, now})
           c == ConfidenceFor(Cardinality(A))
           s == Highest(S)
<1>6. l \in Nat /\ c \in Nat /\ s \in 0..4
    BY <1>2, <1>3, <1>4, <1>5
<1>7. WithEvidence(row, C, A) = [row EXCEPT !.last = l, !.confidence = c, !.severity = s]
    BY DEF WithEvidence, Incident
<1> HIDE DEF l, c, s
<1>8. LET r == WithEvidence(row, C, A)
      IN  /\ r \in Incident
          /\ r.sig = row.sig /\ r.created = row.created /\ r.cause = row.cause
          /\ r.last = l /\ r.confidence = c /\ r.severity = s
    BY <1>6, <1>7 DEF Incident
<1> QED
    BY <1>5, <1>8 DEF l, c, s

(* Tables u are tables t with the events C gone to incident i.                 *)
AbsorbedAs(t, i, C, base, u, row) ==
    /\ u \in Tables
    /\ u.processed = t.processed \cup C
    /\ u.timeline = t.timeline \cup {<<i, e>> : e \in C}
    /\ Linked(u, i) = Accs(t, i, C)
    /\ Evidence(u, i) = Evidence(t, i) \cup C
    /\ \A x \in Events \ {i} : /\ u.incident[x] = t.incident[x]
                               /\ Linked(u, x) = Linked(t, x)
                               /\ Evidence(u, x) = Evidence(t, x)
    /\ base \in Incident /\ row # None
    /\ row.sig = base.sig /\ row.created = base.created /\ row.cause = base.cause
    /\ row.last = IF base.last <= now THEN now ELSE base.last
    /\ row.confidence = ConfidenceFor(Cardinality(Accs(t, i, C)))
    /\ row.severity = Highest({base.severity} \cup {SeverityOf[e] : e \in C})

LEMMA AbsorbedRow ==
    ASSUME TypeOK, NEW t \in Tables, NEW sig \in Signatures, NEW i \in Events,
           NEW C \in SUBSET Events, C # {}, Cluster(C, sig)
    PROVE  AbsorbedAs(t, i, C, Base(t, i, C), Absorbed(t, i, C), Absorbed(t, i, C).incident[i])
<1> DEFINE A == Accs(t, i, C)
           base == Base(t, i, C)
           new == WithEvidence(base, C, A)
           u == Absorbed(t, i, C)
<1>1. /\ t.processed \subseteq Events /\ t.timeline \subseteq Events \X Events
      /\ t.link \subseteq Events \X Accounts
      /\ t.incident \in [Events -> Incident \cup {None}]
    BY DEF Tables
<1>2. A \subseteq Accounts
    BY CorrelationAssumption DEF Accs, Linked
<1>3. base \in Incident
    BY <1>1, OpenedRow DEF Base
<1>4. u = [processed |-> t.processed \cup C,
           incident |-> [t.incident EXCEPT ![i] = new],
           timeline |-> t.timeline \cup {<<i, e>> : e \in C},
           link |-> t.link \cup {<<i, a>> : a \in A}]
    BY DEF Absorbed, Accs, Base
<1>5. /\ new \in Incident /\ new # None
      /\ new.sig = base.sig /\ new.created = base.created /\ new.cause = base.cause
      /\ new.last = IF base.last <= now THEN now ELSE base.last
      /\ new.confidence = ConfidenceFor(Cardinality(A))
      /\ new.severity = Highest({base.severity} \cup {SeverityOf[e] : e \in C})
    <2> HIDE DEF A, base
    <2>1. /\ new \in Incident
          /\ new.sig = base.sig /\ new.created = base.created /\ new.cause = base.cause
          /\ new.last = IF base.last <= now THEN now ELSE base.last
          /\ new.confidence = ConfidenceFor(Cardinality(A))
          /\ new.severity = Highest({base.severity} \cup {SeverityOf[e] : e \in C})
        BY <1>2, <1>3, EvidenceRow
    <2>2. new # None
        BY <2>1, NoIncident
    <2> QED
        BY <2>1, <2>2
<1>6. Linked(u, i) = A /\ \A x \in Events \ {i} : Linked(u, x) = Linked(t, x)
    <2> HIDE DEF new, base, A
    <2>1. u.link = t.link \cup {<<i, a>> : a \in A}
        BY <1>4
    <2> HIDE DEF u
    <2>2. \A x \in Events, a \in Accounts : <<x, a>> \in u.link <=> <<x, a>> \in t.link \/ (x = i /\ a \in A)
        BY <2>1
    <2>3. \A x \in Events : Linked(u, x) = {a \in Accounts : <<x, a>> \in t.link \/ (x = i /\ a \in A)}
        BY <2>2 DEF Linked
    <2>4. {a \in Accounts : <<i, a>> \in t.link} \subseteq A
        BY DEF A, Accs, Linked
    <2> QED
        BY <1>2, <2>3, <2>4 DEF Linked
<1> HIDE DEF new, base, A
<1>7. Evidence(u, i) = Evidence(t, i) \cup C /\ \A x \in Events \ {i} : Evidence(u, x) = Evidence(t, x)
    BY <1>1, <1>4 DEF Evidence
<1>8. u \in Tables
    <2>1. t.processed \cup C \subseteq Events
        BY <1>1
    <2>2. [t.incident EXCEPT ![i] = new] \in [Events -> Incident \cup {None}]
        BY <1>1, <1>5
    <2>3. t.timeline \cup {<<i, e>> : e \in C} \subseteq Events \X Events
        BY <1>1
    <2>4. t.link \cup {<<i, a>> : a \in A} \subseteq Events \X Accounts
        BY <1>1, <1>2
    <2> HIDE DEF u
    <2> QED
        BY <1>4, <2>1, <2>2, <2>3, <2>4 DEF Tables
<1>9. u.incident[i] = new /\ \A x \in Events \ {i} : u.incident[x] = t.incident[x]
    BY <1>1, <1>4
<1> QED
    BY <1>3, <1>4, <1>5, <1>6, <1>7, <1>8, <1>9 DEF A, base, AbsorbedAs

--------------------------------------------------------------------------------
(* One cluster.                                                                *)

LEMMA NoneOpen ==
    ASSUME TypeOK, NEW t \in Tables, Dated(t, now), NEW sig, Matching(t, sig) = {}
    PROVE  OpenFor(t, sig) = {}
<1> DEFINE S == {t.incident[i].last : i \in OpenFor(t, sig)}
<1> SUFFICES ASSUME OpenFor(t, sig) # {} PROVE FALSE
    OBVIOUS
<1>1. S # {}
    OBVIOUS
<1>2. S \subseteq 0..now /\ now \in Nat
    <2>1. now \in Nat
        BY DEF TypeOK, Times
    <2>2. ASSUME NEW i \in OpenFor(t, sig) PROVE t.incident[i].last \in 0..now
        <3>1. i \in Events /\ t.incident[i] \in Incident
            BY DEF OpenFor, Tables
        <3> QED
            BY <2>1, <3>1 DEF Dated, Incident, OpenFor
    <2> QED
        BY <2>1, <2>2
<1>3. PICK l \in S : \A k \in S : k <= l
    <2> HIDE DEF S
    <2> QED
        BY <1>1, <1>2, HighestOf
<1>4. PICK i \in OpenFor(t, sig) : t.incident[i].last = l
    BY <1>3
<1>5. i \in Matching(t, sig)
    BY <1>3, <1>4 DEF Matching
<1> QED
    BY <1>5

LEMMA AbsorbSound ==
    ASSUME TypeOK, NEW t \in Tables, Sound(t), Dated(t, now),
           NEW sig \in Signatures, NEW C \in SUBSET Events, C # {}, Cluster(C, sig),
           \A e \in C : occurred[e] <= now /\ e \notin t.processed,
           NEW i \in Events,
           i \in Matching(t, sig) \/ (Matching(t, sig) = {} /\ i \in C)
    PROVE  LET u == Absorbed(t, i, C)
           IN  u \in Tables /\ Sound(u) /\ Dated(u, now)
<1> DEFINE u == Absorbed(t, i, C)
           base == Base(t, i, C)
           row == u.incident[i]
           A == Accs(t, i, C)
<1>1. /\ u \in Tables
      /\ u.processed = t.processed \cup C
      /\ u.timeline = t.timeline \cup {<<i, e>> : e \in C}
      /\ Linked(u, i) = A
      /\ Evidence(u, i) = Evidence(t, i) \cup C
      /\ \A x \in Events \ {i} : /\ u.incident[x] = t.incident[x]
                                 /\ Linked(u, x) = Linked(t, x)
                                 /\ Evidence(u, x) = Evidence(t, x)
      /\ base \in Incident /\ row # None
      /\ row.sig = base.sig /\ row.created = base.created /\ row.cause = base.cause
      /\ row.last = IF base.last <= now THEN now ELSE base.last
      /\ row.confidence = ConfidenceFor(Cardinality(A))
      /\ row.severity = Highest({base.severity} \cup {SeverityOf[e] : e \in C})
    <2>1. AbsorbedAs(t, i, C, base, u, row)
        BY AbsorbedRow
    <2> HIDE DEF u, base
    <2> QED
        BY <2>1 DEF AbsorbedAs
<1> HIDE DEF u, A
<1>2. /\ Attributed(t) /\ Truthful(t) /\ Windowed(t)
      /\ t.timeline \subseteq Events \X Events
      /\ t.incident \in [Events -> Incident \cup {None}]
      /\ now \in Nat
    BY DEF Sound, Tables, TypeOK, Times
<1> DEFINE Joined == /\ t.incident[i] # None /\ t.incident[i].sig = sig /\ base = t.incident[i]
                     /\ t.incident[i].last >= now - Window
                     /\ \A y \in OpenFor(t, sig) : t.incident[y].last <= t.incident[i].last
           New == /\ t.incident[i] = None /\ i \in C /\ Evidence(t, i) = {} /\ Linked(t, i) = {}
                  /\ base.sig = sig /\ base.severity = 0 /\ base.cause = None
                  /\ base.created = now /\ base.last <= now
                  /\ OpenFor(t, sig) = {}
<1>4. Joined \/ New
    <2>1. CASE i \in Matching(t, sig)
        BY <2>1 DEF Matching, OpenFor, Base
    <2>2. CASE Matching(t, sig) = {} /\ i \in C
        <3>1. \A x \in Events : <<x, i>> \notin t.timeline
            BY <1>2, <2>2 DEF Attributed
        <3>2. t.incident[i] = None
            BY <1>2, <3>1 DEF Attributed
        <3>3. Linked(t, i) = {}
            BY <1>2, <3>2 DEF Truthful
        <3>4. Evidence(t, i) = {}
            BY <1>2, <3>2 DEF Attributed, Evidence
        <3>5. base = Opened(C)
            BY <3>2 DEF Base
        <3>6. \E e \in C : Opened(C).last = occurred[e]
            BY OpenedRow
        <3> QED
            BY <2>2, <3>2, <3>3, <3>4, <3>5, <3>6, OpenedRow, NoneOpen
    <2> QED
        BY <2>1, <2>2
<1> HIDE DEF base
<1>5. /\ base.sig = sig /\ base.created <= now /\ base.created \in Nat
      /\ base.last \in Nat /\ base.last <= now /\ row.last = now
    <2>1. CASE Joined
        BY <1>1, <1>2, <2>1 DEF Dated, Incident
    <2>2. CASE New
        BY <1>1, <2>2 DEF Incident
    <2> QED
        BY <1>4, <2>1, <2>2
<1>6. Attributed(u)
    <2>1. u.processed = {e \in Events : \E x \in Events : <<x, e>> \in u.timeline}
        <3>1. \A e \in Events :
                (\E x \in Events : <<x, e>> \in u.timeline) <=> e \in t.processed \/ e \in C
            <4> TAKE e \in Events
            <4>1. e \in t.processed <=> \E x \in Events : <<x, e>> \in t.timeline
                BY <1>2 DEF Attributed
            <4>2. \A x \in Events :
                    <<x, e>> \in u.timeline <=> <<x, e>> \in t.timeline \/ (x = i /\ e \in C)
                BY <1>1
            <4> QED
                BY <4>1, <4>2
        <3>2. t.processed \subseteq Events
            BY DEF Tables
        <3> QED
            BY <1>1, <3>1, <3>2
    <2>2. ASSUME NEW x \in Events, NEW y \in Events, NEW e \in Events,
                 <<x, e>> \in u.timeline, <<y, e>> \in u.timeline
          PROVE  x = y
        <3>1. CASE e \in C
            <4>1. \A z \in Events : <<z, e>> \notin t.timeline
                BY <1>2, <3>1 DEF Attributed
            <4> QED
                BY <1>1, <2>2, <4>1
        <3>2. CASE e \notin C
            BY <1>1, <1>2, <2>2, <3>2 DEF Attributed
        <3> QED
            BY <3>1, <3>2
    <2>3. ASSUME NEW x \in Events, NEW e \in Events, <<x, e>> \in u.timeline
          PROVE  u.incident[x] # None /\ u.incident[x].sig = SigOf[e]
        <3>1. CASE x # i
            <4>1. <<x, e>> \in t.timeline /\ u.incident[x] = t.incident[x]
                BY <1>1, <2>3, <3>1
            <4> QED
                BY <1>2, <4>1 DEF Attributed
        <3>2. CASE x = i /\ e \in C
            BY <1>1, <1>5, <3>2 DEF Cluster
        <3>3. CASE x = i /\ e \notin C
            <4>1. <<i, e>> \in t.timeline
                BY <1>1, <2>3, <3>3
            <4>2. t.incident[i] # None /\ t.incident[i].sig = SigOf[e]
                BY <1>2, <4>1, <3>3 DEF Attributed
            <4> QED
                BY <1>1, <1>4, <1>5, <3>3, <4>2
        <3> QED
            BY <3>1, <3>2, <3>3
    <2>4. ASSUME NEW x \in Events, u.incident[x] # None PROVE <<x, x>> \in u.timeline
        BY <1>1, <1>2, <1>4, <2>4 DEF Attributed
    <2> QED
        BY <2>1, <2>2, <2>3, <2>4 DEF Attributed
<1>7. Truthful(u)
    <2>1. ASSUME NEW x \in Events \ {i}
          PROVE  IF u.incident[x] = None THEN Linked(u, x) = {} ELSE Told(u, x)
        BY <1>1, <1>2 DEF Truthful, Told
    <2>2. Told(u, i)
        <3> DEFINE old == {SeverityOf[e] : e \in Evidence(t, i)}
                   got == {SeverityOf[e] : e \in C}
                   all == {SeverityOf[e] : e \in Evidence(u, i)}
        <3>1. A = {AccountOf[e] : e \in Evidence(u, i)} \ {None}
            <4>1. Linked(t, i) = {AccountOf[e] : e \in Evidence(t, i)} \ {None}
                BY <1>2, <1>4 DEF Truthful, Told, Tells
            <4> QED
                BY <1>1, <4>1 DEF A, Accs
        <3>2. row.severity = Highest(all)
            <4>1. /\ all = old \cup got /\ all \subseteq Nat /\ got # {}
                  /\ old \subseteq 0..4 /\ got \subseteq 0..4
                <5>1. all = old \cup got /\ got # {}
                    BY <1>1
                <5>2. \A e \in Events : SeverityOf[e] \in 0..4
                    BY CorrelationAssumption
                <5>3. old \subseteq 0..4 /\ got \subseteq 0..4
                    BY <5>2 DEF Evidence
                <5> HIDE DEF old, got, all
                <5> QED
                    BY <5>1, <5>3
            <4>2. base.severity \in 0..4
                BY <1>1 DEF Incident
            <4>3. (base.severity \in old /\ \A k \in old : k <= base.severity)
                  \/ (base.severity = 0 /\ old = {})
                <5>1. CASE Joined
                    <6>1. i \in Evidence(t, i)
                        BY <1>2, <5>1 DEF Attributed, Evidence
                    <6>2. base.severity = Highest(old)
                        BY <1>2, <5>1 DEF Truthful, Told, Tells
                    <6>3. old # {} /\ old \subseteq 0..4
                        BY <4>1, <6>1
                    <6> HIDE DEF old
                    <6> QED
                        BY <6>2, <6>3, HighestOf
                <5>2. CASE New
                    BY <5>2
                <5> QED
                    BY <1>4, <5>1, <5>2
            <4> DEFINE n == Highest({base.severity} \cup got)
            <4> HIDE DEF old, got, all
            <4>4. n \in {base.severity} \cup got /\ \A k \in {base.severity} \cup got : k <= n
                <5>1. {base.severity} \cup got \subseteq 0..4
                    BY <4>1, <4>2
                <5> QED
                    BY <5>1, HighestOf
            <4> HIDE DEF n
            <4>5. n \in 0..4 /\ n \in all /\ \A k \in all : k <= n
                <5>1. n \in 0..4
                    BY <4>1, <4>2, <4>4
                <5>2. CASE base.severity \in old /\ \A k \in old : k <= base.severity
                    <6>1. \A k \in old : k <= n
                        BY <4>1, <4>2, <4>4, <5>1, <5>2
                    <6> QED
                        BY <4>1, <4>4, <5>1, <5>2, <6>1
                <5>3. CASE base.severity = 0 /\ old = {}
                    <6>1. PICK g \in got : g \in 0..4 /\ g <= n
                        BY <4>1, <4>4
                    <6>2. n \in got
                        BY <4>1, <4>4, <5>1, <5>3, <6>1
                    <6> QED
                        BY <4>1, <4>4, <5>1, <5>3, <6>2
                <5> QED
                    BY <4>3, <5>1, <5>2, <5>3
            <4>6. Highest(all) = n
                BY <4>1, <4>5, HighestIs
            <4> QED
                BY <1>1, <4>6 DEF n, got
        <3> QED
            BY <1>1, <3>1, <3>2 DEF Told, Tells
    <2> QED
        BY <1>1, <2>1, <2>2 DEF Truthful
<1>8. Dated(u, now)
    BY <1>1, <1>2, <1>5 DEF Dated
<1>9. Windowed(u)
    <2> SUFFICES ASSUME NEW x \in Events, NEW y \in Events, x # y,
                        u.incident[x] # None, u.incident[y] # None,
                        u.incident[x].sig = u.incident[y].sig,
                        u.incident[x].created <= u.incident[y].created
                 PROVE  u.incident[x].last + Window < u.incident[y].created
        BY DEF Windowed
    <2>1. \A z \in Events : t.incident[z] # None =>
            /\ t.incident[z].created \in Nat /\ t.incident[z].last \in Nat
            /\ t.incident[z].created <= t.incident[z].last /\ t.incident[z].last <= now
        BY <1>2 DEF Dated, Incident
    <2>2. Window \in Nat
        BY CorrelationAssumption
    <2>3. \A z \in Events :
            t.incident[z] # None /\ t.incident[z].sig = sig /\ t.incident[z].last >= now - Window
            => z \in OpenFor(t, sig)
        BY DEF OpenFor
    <2>4. CASE x # i /\ y # i
        BY <1>1, <1>2, <2>4 DEF Windowed
    <2>5. CASE x = i
        <3>1. /\ y # i /\ u.incident[y] = t.incident[y] /\ t.incident[y] # None
              /\ t.incident[y].sig = sig /\ base.created <= t.incident[y].created
            BY <1>1, <1>5, <2>5
        <3>2. CASE New
            BY <1>2, <2>1, <2>2, <2>3, <3>1, <3>2
        <3>3. CASE Joined
            <4>1. t.incident[i].last + Window < t.incident[y].created
                BY <1>2, <3>1, <3>3 DEF Windowed
            <4> QED
                BY <1>2, <2>1, <2>2, <2>3, <3>1, <3>3, <4>1
        <3> QED
            BY <1>4, <3>2, <3>3
    <2>6. CASE y = i
        <3>1. /\ x # i /\ u.incident[x] = t.incident[x] /\ t.incident[x] # None
              /\ t.incident[x].sig = sig /\ t.incident[x].created <= base.created
              /\ row.created = base.created
            BY <1>1, <1>5, <2>6
        <3>2. CASE New
            BY <1>2, <2>1, <2>2, <2>3, <2>6, <3>1, <3>2
        <3>3. CASE Joined
            BY <1>2, <2>6, <3>1, <3>3 DEF Windowed
        <3> QED
            BY <1>4, <3>2, <3>3
    <2> QED
        BY <2>4, <2>5, <2>6
<1> QED
    BY <1>1, <1>6, <1>7, <1>8, <1>9 DEF Sound, u

--------------------------------------------------------------------------------
(* One root cause.                                                             *)

LEMMA ConcludedRow ==
    ASSUME NEW row \in Incident, NEW S \in SUBSET Plugins, S # {}, ~Unsortable(S)
    PROVE  LET r == Concluded(row, S)
           IN  /\ r \in Incident /\ r.cause # None
               /\ r.sig = row.sig /\ r.severity = row.severity
               /\ r.created = row.created /\ r.last = row.last
               /\ r.confidence \in {Highest({row.confidence, 60}), Highest({row.confidence, 90})}
               /\ r.cause \in S
<1> DEFINE p == CHOOSE p \in S : \A q \in S : Before(p, q)
           sure == IF Cardinality(S) = 1 THEN 90 ELSE 60
           c == Highest({row.confidence, sure})
<1>1. p \in Plugins /\ p # None /\ p \in S
    BY FirstPlugin, CorrelationAssumption
<1>2. row.confidence \in Nat /\ sure \in {60, 90}
    BY DEF Incident
<1>3. c \in Nat /\ c \in {Highest({row.confidence, 60}), Highest({row.confidence, 90})}
    <2> HIDE DEF sure
    <2>1. sure \in Nat
        BY <1>2
    <2> QED
        BY <1>2, <2>1, HighestOfTwo
<1>4. Concluded(row, S) = [row EXCEPT !.cause = p, !.confidence = c]
    BY DEF Concluded, Incident
<1> HIDE DEF p, c
<1> QED
    BY <1>1, <1>3, <1>4 DEF Incident

LEMMA ConcludedSound ==
    ASSUME NEW t \in Tables, Sound(t), NEW n \in Nat, Dated(t, n),
           NEW i \in Events, t.incident[i] # None, t.incident[i].cause = None,
           NEW S \in SUBSET Plugins, S # {}, ~Unsortable(S)
    PROVE  LET u == [t EXCEPT !.incident[i] = Concluded(@, S)]
           IN  /\ u \in Tables /\ Sound(u) /\ Dated(u, n) /\ u.processed = t.processed
               /\ u.link = t.link
               /\ u.incident[i].cause \in S
               /\ \A x \in Events \ {i} : u.incident[x] = t.incident[x]
<1> DEFINE old == t.incident[i]
           row == Concluded(old, S)
           u == [t EXCEPT !.incident[i] = Concluded(@, S)]
<1>1. t.incident \in [Events -> Incident \cup {None}] /\ old \in Incident
    BY DEF Tables
<1>2. /\ row \in Incident /\ row # None /\ row.cause # None
      /\ row.sig = old.sig /\ row.severity = old.severity
      /\ row.created = old.created /\ row.last = old.last
      /\ row.confidence \in {Highest({old.confidence, 60}), Highest({old.confidence, 90})}
      /\ row.cause \in S
    <2> HIDE DEF old
    <2> QED
        BY <1>1, ConcludedRow, NoIncident
<1>3. /\ u.processed = t.processed /\ u.timeline = t.timeline /\ u.link = t.link
      /\ u.incident = [t.incident EXCEPT ![i] = row]
      /\ u \in Tables
    <2>1. u.incident = [t.incident EXCEPT ![i] = row]
        BY DEF Tables
    <2> HIDE DEF row
    <2>2. [t.incident EXCEPT ![i] = row] \in [Events -> Incident \cup {None}]
        BY <1>1, <1>2
    <2>3. u = [t EXCEPT !.incident = [t.incident EXCEPT ![i] = row]]
        BY DEF Tables, row
    <2> QED
        BY <2>1, <2>2, <2>3 DEF Tables
<1>4. /\ u.incident[i] = row
      /\ \A x \in Events \ {i} : u.incident[x] = t.incident[x]
      /\ \A x \in Events : u.incident[x] = None <=> t.incident[x] = None
      /\ \A x \in Events : u.incident[x] # None =>
            /\ u.incident[x].sig = t.incident[x].sig
            /\ u.incident[x].created = t.incident[x].created
            /\ u.incident[x].last = t.incident[x].last
    <2> HIDE DEF row, u
    <2> QED
        BY <1>1, <1>2, <1>3
<1>5. \A x \in Events : Linked(u, x) = Linked(t, x) /\ Evidence(u, x) = Evidence(t, x)
    <2> HIDE DEF u
    <2> QED
        BY <1>3 DEF Linked, Evidence
<1> HIDE DEF u, row
<1>6. Attributed(t) /\ Truthful(t) /\ Windowed(t)
    BY DEF Sound
<1>7. Attributed(u)
    BY <1>3, <1>4, <1>6 DEF Attributed
<1>8. Windowed(u)
    BY <1>4, <1>6 DEF Windowed
<1>9. Dated(u, n)
    BY <1>4 DEF Dated
<1>10. Truthful(u)
    <2>1. Told(t, i)
        BY <1>6 DEF Truthful
    <2>2. old.confidence = ConfidenceFor(Cardinality(Linked(t, i)))
        BY <2>1 DEF Told, Tells
    <2>5. Told(u, i)
        BY <1>2, <1>4, <1>5, <2>1, <2>2 DEF Told, Tells
    <2>6. ASSUME NEW x \in Events \ {i}
          PROVE  IF u.incident[x] = None THEN Linked(u, x) = {} ELSE Told(u, x)
        BY <1>4, <1>5, <1>6 DEF Truthful, Told
    <2> QED
        BY <1>2, <1>4, <2>5, <2>6 DEF Truthful
<1> QED
    BY <1>2, <1>3, <1>4, <1>7, <1>8, <1>9, <1>10 DEF Sound, u

--------------------------------------------------------------------------------
(* The job and its surroundings.                                               *)

LEMMA InitInv == Init => Inv
<1> SUFFICES ASSUME Init PROVE Inv
    OBVIOUS
<1>1. NoTables \in Tables
    BY DEF NoTables, Tables
<1>2. Sound(NoTables) /\ \A n : Dated(NoTables, n)
    <2>1. \A x \in Events : Linked(NoTables, x) = {} /\ NoTables.incident[x] = None
        BY DEF NoTables, Linked
    <2>2. Attributed(NoTables)
        BY DEF NoTables, Attributed
    <2> QED
        BY <2>1, <2>2 DEF Sound, Truthful, Windowed, Dated
<1>3. 0 \in Times /\ 0 \in 0..MaxDeaths
    BY CorrelationAssumption DEF Times
<1>4. TypeOK
    BY <1>1, <1>3 DEF Init, TypeOK, NothingSeen, NothingPresent
<1> QED
    BY <1>2, <1>4 DEF Init, Inv, BatchOK

LEMMA StartStep == Inv /\ Start => Inv'
<1> SUFFICES ASSUME Inv, Start PROVE Inv'
    OBVIOUS
<1>1. /\ TypeOK /\ Sound(db) /\ Dated(db, clock)
      /\ \A e \in Events : occurred[e] # None => occurred[e] <= clock
    BY DEF Inv
<1>2. /\ pc' = "correlate" /\ now' = clock /\ draft' = db /\ db' = db /\ dirty' = FALSE
      /\ batch' \in Oldest(Pending(db)) /\ todo' = {SigOf[e] : e \in batch'}
      /\ present' = plugins
      /\ UNCHANGED <<clock, occurred, plugins, seen, deaths>>
    BY DEF Start
<1>3. batch' \subseteq Events /\ \A e \in batch' : occurred[e] # None /\ e \notin db.processed
    BY <1>2 DEF Oldest, Pending, Committed
<1>4. TypeOK'
    <2>1. todo' \subseteq Signatures
        BY <1>2, <1>3, CorrelationAssumption
    <2>2. plugins \in [Accounts -> SUBSET Plugins]
        BY <1>1, CorrelationAssumption DEF TypeOK
    <2> QED
        BY <1>1, <1>2, <1>3, <2>1, <2>2 DEF TypeOK
<1>5. \A e \in batch' : occurred[e] \in Times /\ occurred[e] <= clock
    BY <1>1, <1>3 DEF TypeOK
<1>6. BatchOK'
    BY <1>2, <1>3, <1>5 DEF BatchOK
<1>7. clock \in Nat
    BY <1>1 DEF TypeOK, Times
<1> QED
    BY <1>1, <1>2, <1>4, <1>6, <1>7 DEF Inv

LEMMA CorrelatesOne ==
    ASSUME Inv, Correlate
    PROVE  \E sig \in todo \cap Signatures, i \in Events, C \in SUBSET Events :
            C # {} /\ Cluster(C, sig) /\ draft' = Absorbed(draft, i, C)
<1>1. PICK sig \in todo \cap Signatures :
        LET C == Clustered(batch, sig)
            first == {e \in C : \A f \in C : occurred[e] <= occurred[f]}
        IN  \E i \in IF Matching(draft, sig) # {} THEN Matching(draft, sig) ELSE first :
                draft' = Absorbed(draft, i, C)
    BY DEF Correlate
<1> DEFINE C == Clustered(batch, sig)
<1>2. C \in SUBSET Events /\ C # {} /\ Cluster(C, sig)
    BY <1>1 DEF Clustered, Cluster, BatchOK, Correlate, Inv, TypeOK
<1> QED
    BY <1>1, <1>2 DEF Matching, OpenFor

LEMMA CorrelateStep == Inv /\ Correlate => Inv'
<1> SUFFICES ASSUME Inv, Correlate PROVE Inv'
    OBVIOUS
<1>1. /\ TypeOK /\ Sound(db) /\ Sound(draft) /\ Dated(db, clock) /\ Dated(draft, now)
      /\ now <= clock /\ BatchOK /\ draft \in Tables
      /\ \A e \in Events : occurred[e] # None => occurred[e] <= clock
    BY DEF Inv, Correlate, TypeOK
<1>2. PICK sig \in todo \cap Signatures :
        LET C == Clustered(batch, sig)
            first == {e \in C : \A f \in C : occurred[e] <= occurred[f]}
        IN  /\ \E i \in IF Matching(draft, sig) # {} THEN Matching(draft, sig) ELSE first :
                    draft' = Absorbed(draft, i, C)
            /\ todo' = todo \ {sig}
    BY DEF Correlate
<1> DEFINE C == Clustered(batch, sig)
<1>3. /\ C \in SUBSET Events /\ C # {} /\ Cluster(C, sig)
      /\ \A e \in C : occurred[e] <= now /\ e \notin draft.processed
    <2>1. batch \subseteq Events
        BY <1>1 DEF TypeOK
    <2> QED
        BY <1>1, <1>2, <2>1 DEF Clustered, Cluster, BatchOK, Correlate
<1>4. PICK i \in Events : /\ i \in Matching(draft, sig) \/ (Matching(draft, sig) = {} /\ i \in C)
                          /\ draft' = Absorbed(draft, i, C)
    BY <1>2, <1>3 DEF Matching, OpenFor
<1> HIDE DEF C
<1>5. draft' \in Tables /\ Sound(draft') /\ Dated(draft', now)
    BY <1>1, <1>3, <1>4, AbsorbSound
<1>6. draft'.processed = draft.processed \cup C
    BY <1>4 DEF Absorbed
<1>7. /\ todo' = todo \ {sig} /\ dirty' = TRUE
      /\ UNCHANGED <<clock, occurred, plugins, db, pc, now, batch, seen, present, deaths>>
    BY <1>2 DEF Correlate
<1>8. TypeOK'
    BY <1>1, <1>5, <1>7 DEF TypeOK
<1>9. BatchOK'
    BY <1>1, <1>6, <1>7 DEF BatchOK, C, Clustered, Correlate
<1> QED
    BY <1>1, <1>5, <1>7, <1>8, <1>9 DEF Inv

(* The analysis of one incident.                                               *)
Analyzed(i) ==
    LET common == Common(seen, Linked(draft, i))
        found == Suspected(i) /\ common # {}
    IN  /\ LookedAt(i)
        /\ ~(found /\ Unsortable(common))
        /\ draft' = IF found
                    THEN [draft EXCEPT !.incident[i] = Concluded(@, common)]
                    ELSE draft
        /\ dirty' = (dirty \/ found)
        /\ todo' = todo \ {i}

LEMMA AnalyzedSound ==
    ASSUME Inv, pc = "analyze", NEW i \in todo \cap Events, Analyzed(i)
    PROVE  /\ draft' \in Tables /\ Sound(draft') /\ Dated(draft', now)
           /\ draft'.link = draft.link
           /\ \A x \in Events \ {i} : draft'.incident[x] = draft.incident[x]
           /\ \/ draft' = draft
              \/ /\ Suspected(i)
                 /\ draft'.incident[i].cause \in Common(seen, Linked(draft, i))
<1>1. /\ Sound(draft) /\ Dated(draft, now) /\ draft \in Tables /\ now \in Nat
      /\ draft.incident[i] # None /\ draft.incident[i].cause = None
    BY DEF Inv, TypeOK, BatchOK, Times
<1> DEFINE S == Common(seen, Linked(draft, i))
<1>2. CASE Suspected(i) /\ S # {}
    <2>1. S \in SUBSET Plugins /\ ~Unsortable(S)
          /\ draft' = [draft EXCEPT !.incident[i] = Concluded(@, S)]
        BY <1>2 DEF Analyzed, Common
    <2> HIDE DEF S
    <2>2. /\ draft' \in Tables /\ Sound(draft') /\ Dated(draft', now)
          /\ draft'.link = draft.link /\ draft'.incident[i].cause \in S
          /\ \A x \in Events \ {i} : draft'.incident[x] = draft.incident[x]
        BY <1>1, <1>2, <2>1, ConcludedSound
    <2> QED
        BY <1>2, <2>2 DEF S
<1>3. CASE ~(Suspected(i) /\ S # {})
    BY <1>1, <1>3 DEF Analyzed
<1> QED
    BY <1>2, <1>3

LEMMA AnalyzeStep == Inv /\ Analyze => Inv'
<1> SUFFICES ASSUME Inv, Analyze PROVE Inv'
    OBVIOUS
<1>1. /\ TypeOK /\ Sound(db) /\ Sound(draft) /\ Dated(db, clock) /\ Dated(draft, now)
      /\ now <= clock /\ BatchOK /\ draft \in Tables /\ now \in Nat /\ pc = "analyze"
      /\ \A e \in Events : occurred[e] # None => occurred[e] <= clock
    BY DEF Inv, Analyze, TypeOK, Times
<1>2. PICK i \in todo \cap Events : Analyzed(i)
    BY DEF Analyze, Analyzed
<1>3. draft' \in Tables /\ Sound(draft') /\ Dated(draft', now)
      /\ \A x \in Events \ {i} : draft'.incident[x] = draft.incident[x]
    BY <1>1, <1>2, AnalyzedSound
<1>4. todo' = todo \ {i} /\ dirty' \in BOOLEAN /\ seen' = NothingSeen
    BY <1>1, <1>2 DEF TypeOK, Analyzed, Analyze
<1>5. UNCHANGED <<clock, occurred, plugins, db, pc, now, batch, present, deaths>>
    BY DEF Analyze
<1>6. TypeOK'
    BY <1>1, <1>3, <1>4, <1>5 DEF TypeOK, NothingSeen
<1>7. BatchOK'
    BY <1>1, <1>3, <1>4, <1>5 DEF BatchOK
<1> QED
    BY <1>1, <1>3, <1>5, <1>6, <1>7 DEF Inv

LEMMA RestStep ==
    ASSUME Inv, pc # "idle", Rest, db' = db \/ db' = draft, deaths' \in 0..MaxDeaths
    PROVE  Inv'
<1>1. /\ TypeOK /\ Sound(db) /\ Sound(draft) /\ Dated(db, clock) /\ Dated(draft, now)
      /\ now <= clock
      /\ \A e \in Events : occurred[e] # None => occurred[e] <= clock
    BY DEF Inv
<1>2. /\ pc' = "idle" /\ draft' = db' /\ now' = 0 /\ batch' = {} /\ todo' = {} /\ dirty' = FALSE
      /\ seen' = NothingSeen /\ present' = NothingPresent
      /\ UNCHANGED <<clock, occurred, plugins>>
    BY DEF Rest
<1>3. clock \in Nat /\ now \in Nat /\ 0 \in Times
    BY <1>1, CorrelationAssumption DEF TypeOK, Times
<1>4. Dated(draft, clock)
    <2>1. \A x \in Events : draft.incident[x] # None =>
            draft.incident[x].last \in Nat /\ draft.incident[x].created \in Nat
        BY <1>1 DEF TypeOK, Tables, Incident
    <2> QED
        BY <1>1, <1>3, <2>1 DEF Dated
<1>5. TypeOK'
    BY <1>1, <1>2, <1>3 DEF TypeOK, NothingSeen, NothingPresent
<1>6. BatchOK'
    BY <1>2 DEF BatchOK
<1>7. Sound(db') /\ Dated(db', clock)
    BY <1>1, <1>4
<1> QED
    BY <1>1, <1>2, <1>5, <1>6, <1>7 DEF Inv

(* Emit, Inventory and Tick leave the tables and the run alone.                *)
LEMMA OutsideStep == Inv /\ (Emit \/ Inventory \/ Tick) => Inv'
<1> SUFFICES ASSUME Inv, Emit \/ Inventory \/ Tick PROVE Inv'
    OBVIOUS
<1> USE DEF run
<1>1. /\ TypeOK /\ Sound(db) /\ Sound(draft) /\ Dated(db, clock) /\ BatchOK
      /\ pc # "idle" => Dated(draft, now) /\ now <= clock
      /\ \A e \in Events : occurred[e] # None => occurred[e] <= clock
    BY DEF Inv
<1>2. clock \in Nat /\ now \in Nat /\ clock' \in Times /\ clock <= clock'
      /\ UNCHANGED <<db, run, deaths>>
    BY <1>1, CorrelationAssumption DEF Emit, Inventory, Tick, TypeOK, Times
<1>3. /\ occurred' \in [Events -> Times \cup {None}]
      /\ \A e \in Events : occurred'[e] # None => occurred'[e] <= clock'
      /\ \A e \in Events : occurred[e] # None => occurred'[e] = occurred[e]
    <2>1. CASE Emit
        <3>1. PICK e \in Events, at \in Times :
                /\ occurred[e] = None /\ at <= clock
                /\ occurred' = [occurred EXCEPT ![e] = at]
            BY <2>1 DEF Emit
        <3>2. clock' = clock
            BY <2>1 DEF Emit
        <3> QED
            BY <1>1, <3>1, <3>2 DEF TypeOK
    <2>2. CASE occurred' = occurred
        <3>1. \A e \in Events : occurred[e] # None => occurred[e] \in Nat
            BY <1>1 DEF TypeOK, Times
        <3>2. clock' \in Nat
            BY <1>2 DEF Times
        <3> QED
            BY <1>1, <1>2, <2>2, <3>1, <3>2 DEF TypeOK
    <2> QED
        BY <2>1, <2>2 DEF Inventory, Tick
<1>4. plugins' \in Inventories /\ present' \in [Accounts -> SUBSET Plugins]
    <2>1. CASE Inventory
        <3>1. plugins' \in Inventories
            BY <2>1 DEF Inventory
        <3>2. plugins' \in [Accounts -> SUBSET Plugins]
            BY <3>1, CorrelationAssumption
        <3> QED
            BY <1>1, <2>1, <3>1, <3>2 DEF Inventory, TypeOK
    <2>2. CASE Emit \/ Tick
        BY <1>1, <2>2 DEF Emit, Tick, TypeOK
    <2> QED
        BY <2>1, <2>2
<1>5. TypeOK'
    BY <1>1, <1>2, <1>3, <1>4 DEF TypeOK
<1>6. BatchOK'
    <2>1. \A e \in batch : e \in Events /\ occurred[e] # None
        BY <1>1, CorrelationAssumption DEF BatchOK, TypeOK, Times
    <2> QED
        BY <1>1, <1>2, <1>3, <2>1 DEF BatchOK
<1>7. Dated(db, clock')
    <2>1. \A x \in Events : db.incident[x] # None => db.incident[x].last \in Nat
        BY <1>1 DEF TypeOK, Tables, Incident
    <2>2. clock' \in Nat
        BY <1>2 DEF Times
    <2> QED
        BY <1>1, <1>2, <2>1, <2>2 DEF Dated
<1>8. now <= clock => now <= clock'
    BY <1>2 DEF Times
<1> QED
    BY <1>1, <1>2, <1>3, <1>5, <1>6, <1>7, <1>8 DEF Inv

LEMMA LookStep == Inv /\ Look => Inv'
<1> SUFFICES ASSUME Inv, Look PROVE Inv'
    OBVIOUS
<1>1. PICK a \in Accounts : seen' = [seen EXCEPT ![a] = plugins[a]]
    BY DEF Look, Linked
<1>2. UNCHANGED <<clock, occurred, plugins, db, draft, pc, now, batch, todo, present,
                  dirty, deaths>>
    BY DEF Look
<1>3. plugins[a] \in SUBSET Plugins /\ TypeOK
    BY CorrelationAssumption DEF Inv, TypeOK
<1>4. TypeOK'
    BY <1>1, <1>2, <1>3 DEF TypeOK
<1>5. BatchOK'
    BY <1>2 DEF Inv, BatchOK
<1> QED
    BY <1>2, <1>4, <1>5 DEF Inv

LEMMA InvStep == Inv /\ [Next]_vars => Inv'
<1> SUFFICES ASSUME Inv, [Next]_vars PROVE Inv'
    OBVIOUS
<1>1. CASE BeginAnalysis
    <2>1. /\ pc = "correlate" /\ pc' = "analyze" /\ todo' \subseteq Events
          /\ todo' = {i \in Events : draft.incident[i] # None /\ draft.incident[i].cause = None}
          /\ UNCHANGED <<clock, occurred, plugins, db, draft, now, batch, seen, present,
                         dirty, deaths>>
        BY <1>1 DEF BeginAnalysis
    <2>2. TypeOK'
        BY <2>1 DEF Inv, TypeOK
    <2>3. BatchOK'
        BY <2>1 DEF Inv, BatchOK
    <2> QED
        BY <2>1, <2>2, <2>3 DEF Inv
<1>2. CASE AnalysisFails
    BY <1>2, RestStep DEF AnalysisFails, Inv, TypeOK
<1>3. CASE Commit
    BY <1>3, RestStep DEF Commit, Inv, TypeOK
<1>4. CASE Die
    <2>1. deaths' \in 0..MaxDeaths
        BY <1>4, CorrelationAssumption DEF Die, Inv, TypeOK
    <2> QED
        BY <1>4, <2>1, RestStep DEF Die
<1>5. CASE UNCHANGED vars
    BY <1>5 DEF vars, Inv, TypeOK, BatchOK
<1> QED
    BY <1>1, <1>2, <1>3, <1>4, <1>5, StartStep, CorrelateStep, LookStep, AnalyzeStep,
       OutsideStep
    DEF Next, Job

--------------------------------------------------------------------------------
(* What a run has read and concluded.                                          *)

LEMMA InitShown == Init => Shown
    BY DEF Init, Shown, NothingSeen

(* A step that adds no root cause and forgets nothing that was present.        *)
LEMMA KeepsShown ==
    ASSUME Shown, pc # "idle", pc' # "idle", pc' = pc \/ pc' = "analyze",
           draft' = draft, db' = db, seen' = seen, plugins' = plugins, present' = present
    PROVE  Shown'
    BY DEF Shown, NewCause

LEMMA ShownStep == Inv /\ Shown /\ [Next]_vars => Shown'
<1> SUFFICES ASSUME Inv, Shown, [Next]_vars PROVE Shown'
    OBVIOUS
<1>1. CASE Start
    BY <1>1 DEF Start, Shown, NewCause, NothingSeen
<1>2. CASE Correlate
    <2>1. PICK sig \in todo \cap Signatures, i \in Events, C \in SUBSET Events :
            C # {} /\ Cluster(C, sig) /\ draft' = Absorbed(draft, i, C)
        BY <1>2, CorrelatesOne
    <2>2. AbsorbedAs(draft, i, C, Base(draft, i, C), draft', draft'.incident[i])
        BY <2>1, AbsorbedRow DEF Inv, TypeOK
    <2>3. \A x \in Events : draft'.incident[x] # None /\ draft'.incident[x].cause # None
            => draft.incident[x] # None /\ draft.incident[x].cause # None
        BY <2>1, <2>2, OpenedRow DEF AbsorbedAs, Base, Inv
    <2>4. UNCHANGED <<db, plugins, seen, present, pc>> /\ pc = "correlate"
        BY <1>2 DEF Correlate
    <2> QED
        BY <2>3, <2>4 DEF Shown, NewCause
<1>3. CASE BeginAnalysis
    BY <1>3, KeepsShown DEF BeginAnalysis
<1>4. CASE Look
    <2>1. PICK a \in Accounts : seen' = [seen EXCEPT ![a] = plugins[a]]
        BY <1>4 DEF Look, Linked
    <2>2. UNCHANGED <<db, draft, plugins, present, pc>> /\ pc = "analyze"
        BY <1>4 DEF Look
    <2>3. \A b \in Accounts : seen'[b] # None => seen'[b] \subseteq present[b]
        BY <2>1, <2>2 DEF Shown, Inv, TypeOK
    <2> QED
        BY <2>2, <2>3 DEF Shown, NewCause
<1>5. CASE Analyze
    <2>1. PICK i \in todo \cap Events : Analyzed(i)
        BY <1>5 DEF Analyze, Analyzed
    <2>2. /\ draft'.link = draft.link
          /\ \A x \in Events \ {i} : draft'.incident[x] = draft.incident[x]
          /\ \/ draft' = draft
             \/ /\ Suspected(i)
                /\ draft'.incident[i].cause \in Common(seen, Linked(draft, i))
        BY <1>5, <2>1, AnalyzedSound DEF Analyze
    <2>3. UNCHANGED <<db, plugins, present, pc>> /\ seen' = NothingSeen /\ pc = "analyze"
        BY <1>5 DEF Analyze
    <2>4. \A x \in Events : Linked(draft', x) = Linked(draft, x)
        BY <2>2 DEF Linked
    <2>5. draft' = draft
          \/ \A a \in Linked(draft, i) : draft'.incident[i].cause \in present[a]
        <3>1. ASSUME Suspected(i), draft'.incident[i].cause \in Common(seen, Linked(draft, i)),
                     NEW a \in Linked(draft, i)
              PROVE  draft'.incident[i].cause \in present[a]
            <4>1. seen[a] # None /\ a \in Accounts
                BY <2>1, <3>1 DEF Analyzed, LookedAt, SeenOf
            <4> QED
                BY <3>1, <4>1 DEF Common, Shown
        <3> QED
            BY <2>2, <3>1
    <2> QED
        BY <2>2, <2>3, <2>4, <2>5 DEF Shown, NewCause, NothingSeen, Suspected
<1>6. CASE AnalysisFails \/ Commit \/ Die
    BY <1>6 DEF AnalysisFails, Commit, Die, Rest, Shown, NothingSeen
<1>7. CASE Inventory
    <2>1. UNCHANGED <<db, draft, pc, seen>>
        BY <1>7 DEF Inventory, run
    <2>2. CASE pc = "idle"
        BY <1>7, <2>1, <2>2 DEF Inventory, Shown
    <2>3. CASE pc # "idle"
        <3>1. \A a \in Accounts : present'[a] = present[a] \cup plugins'[a]
            BY <1>7, <2>3 DEF Inventory
        <3>2. \A x \in Events : Linked(draft, x) \subseteq Accounts
            BY DEF Linked
        <3> QED
            BY <2>1, <2>3, <3>1, <3>2 DEF Shown, NewCause
    <2> QED
        BY <2>2, <2>3
<1>8. CASE Emit \/ Tick \/ UNCHANGED vars
    <2>1. UNCHANGED <<db, draft, plugins, pc, seen, present>>
        BY <1>8 DEF Emit, Tick, run, vars
    <2> QED
        BY <2>1 DEF Shown, NewCause
<1> QED
    BY <1>1, <1>2, <1>3, <1>4, <1>5, <1>6, <1>7, <1>8 DEF Next, Job

--------------------------------------------------------------------------------
(* Theorems.                                                                   *)

(* In every reachable state of the job, the detectors, the inventory and the   *)
(* deaths of runs, the Inv of this module holds.                               *)
THEOREM CorrelationInvariant == Spec => []Inv
    BY InitInv, InvStep, PTL DEF Spec

(* The rows that the job has written, and those it has drafted, keep their     *)
(* types: a severity is one of the five, a root cause an installed plugin.     *)
THEOREM CorrelationTypeCorrect == Spec => []TypeOK
<1>1. Inv => TypeOK
    BY DEF Inv
<1> QED
    BY <1>1, CorrelationInvariant, PTL

(* No event is attributed twice or to an incident of another signature, and    *)
(* none is marked processed without: RunCorrelationUseCase takes what is not   *)
(* processed, and a run's transaction keeps the batch and its rows together.   *)
THEOREM EventsOnce == Spec => []Partition
<1>1. Inv => Partition
    BY DEF Inv, Sound, Attributed, Partition
<1> QED
    BY <1>1, CorrelationInvariant, PTL

(* What record_new_evidence and apply_root_cause leave in an incident agrees   *)
(* with the accounts and the severities of all of its evidence.                *)
THEOREM EvidenceTold == Spec => []Faithful
<1>1. Inv => Faithful
    BY DEF Inv, Sound, Truthful, Told, Tells, Faithful
<1> QED
    BY <1>1, CorrelationInvariant, PTL

(* find_open_matching and its window keep the incidents of one signature a     *)
(* window apart, though events arrive late and runs die.                       *)
THEOREM WindowsApart == Spec => []OneOpenPerWindow
<1>1. Inv => OneOpenPerWindow
    BY DEF Inv, Sound, Windowed, OneOpenPerWindow
<1> QED
    BY <1>1, CorrelationInvariant, PTL

(* When a run commits a root cause, every account linked to the incident had   *)
(* that plugin since the run began: AnalyzeRootCauseUseCase intersects what it *)
(* read of each, although the inventory may change in between.                 *)
THEOREM CausesShared == Spec => CauseShared
<1>1. Inv /\ Shown /\ [Next]_vars =>
        [\A i \in Events :
            LET row == db'.incident[i]
            IN  /\ row # None /\ row.cause # None
                /\ db.incident[i] = None \/ db.incident[i].cause = None
                => /\ Cardinality(Linked(db', i)) >= 2
                   /\ \A a \in Linked(db', i) : row.cause \in present[a]]_vars
    <2>1. ASSUME Shown, Commit, NEW i \in Events,
                 db'.incident[i] # None, db'.incident[i].cause # None,
                 db.incident[i] = None \/ db.incident[i].cause = None
          PROVE  /\ Cardinality(Linked(db', i)) >= 2
                 /\ \A a \in Linked(db', i) : db'.incident[i].cause \in present[a]
        <3>1. db' = draft /\ pc = "analyze"
            BY <2>1 DEF Commit
        <3> QED
            BY <2>1, <3>1 DEF Shown, NewCause
    <2>2. [Next]_vars => Commit \/ db' = db
        BY DEF Next, Job, Start, Correlate, BeginAnalysis, Look, Analyze, AnalysisFails,
               Emit, Inventory, Tick, Die, vars
    <2> QED
        BY <2>1, <2>2
<1> QED
    BY <1>1, InitShown, ShownStep, CorrelationInvariant, PTL DEF Spec, CauseShared

================================================================================
