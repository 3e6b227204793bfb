------------------------- MODULE SharedStoreProofs -------------------------
(***************************************************************************)
(* Proofs about SharedStore, for any set of processes, contracts and       *)
(* manifests and any interleaving of their statements: a store that opened *)
(* is complete, a process works with what is recorded unless it was        *)
(* overtaken, the audit accuses only faulty events, and the whole          *)
(* implements Trail.                                                       *)
(***************************************************************************)
EXTENDS SharedStore, TLAPS

\* The statements of every stage are a sequence.
LEMMA StatementsAreSequences ==
    \A w \in Stages : DOMAIN Statements[w] = 1..Len(Statements[w]) /\ Len(Statements[w]) \in Nat
<1> SUFFICES ASSUME NEW w \in Stages
             PROVE  DOMAIN Statements[w] = 1..Len(Statements[w]) /\ Len(Statements[w]) \in Nat
  OBVIOUS
<1>1. CASE w = 1
  BY <1>1 DEF Statements
<1>2. CASE w = 2
  BY <1>2 DEF Statements
<1>3. CASE w = 3
  BY <1>3 DEF Statements
<1>4. CASE w = 4
  BY <1>4 DEF Statements
<1>5. CASE w = 5
  BY <1>5 DEF Statements
<1>6. CASE w = 6
  BY <1>6 DEF Statements
<1>7. w \in 1..6
  BY DEF Stages, CurrentVersion
<1> QED
  BY <1>1, <1>2, <1>3, <1>4, <1>5, <1>6, <1>7

-----------------------------------------------------------------------------
\* What an opener knows: the stages behind it, and the statements it has done.
Behind(p) ==
    /\ Complete(opener[p].at - 1)
    /\ \A i \in DOMAIN Statements[opener[p].at] :
          i < opener[p].next => Statements[opener[p].at][i] \in schema

OpenerInv(p) ==
    /\ opener[p] \in [at : Stages, next : Nat \ {0}, missing : BOOLEAN] \union {Closed, Opened}
    /\ Opening(p) => Behind(p)
    /\ opener[p] = Opened => Complete(CurrentVersion + 1)

\* The version never promises more than is there, also after an opener that
\* read an old version has turned it back.
SchemaInv ==
    /\ version \in Nat
    /\ version <= CurrentVersion => Complete(version)
    /\ DOMAIN opener = Processes
    /\ \A p \in Processes : OpenerInv(p)

\* Nothing is ever dropped from the database.
LEMMA CompleteStays ==
    ASSUME schema \subseteq schema'
    PROVE  \A v : Complete(v) => Complete(v)'
BY DEF Complete

LEMMA SchemaInit ==
    ASSUME OpenInit
    PROVE  SchemaInv
<1>1. Complete(version)
  <2> SUFFICES ASSUME NEW w \in Stages, w <= version, NEW i \in DOMAIN Statements[w]
               PROVE  Statements[w][i] \in Left(version)
    BY DEF Complete, OpenInit
  <2>1. w \in {u \in Stages : u <= version}
    OBVIOUS
  <2> QED
    BY <2>1 DEF Left
<1>2. \A p \in Processes : opener[p] = Closed
  BY DEF OpenInit
<1>3. Closed.at = 0 /\ Closed # Opened
  BY DEF Closed, Opened, Reached, CurrentVersion
<1>4. ASSUME NEW p \in Processes
      PROVE  OpenerInv(p)
  <2>1. ~Opening(p)
    BY <1>2, <1>3 DEF Opening, Stages, CurrentVersion
  <2> QED
    BY <1>2, <1>3, <2>1 DEF OpenerInv
<1> QED
  BY <1>1, <1>4, ReleasesAssumption DEF SchemaInv, OpenInit

\* One step of an opener.
LEMMA OpenStepKeeps ==
    ASSUME SchemaInv, NEW p \in Processes, Open(p)
    PROVE  SchemaInv'
<1> DEFINE AnOpener == [at : Stages, next : Nat \ {0}, missing : BOOLEAN]
<1>0. Closed.at = 0 /\ Opened.at = 7 /\ Closed # Opened
  BY DEF Closed, Opened, Reached, CurrentVersion
<1>a. 0 \notin Stages /\ 7 \notin Stages /\ \A w \in Stages : w \in Nat /\ w <= 6
  BY DEF Stages, CurrentVersion
<1>b. ASSUME Opening(p)
      PROVE  opener[p] \in AnOpener /\ Behind(p)
  BY <1>b, <1>0, <1>a DEF SchemaInv, OpenerInv, Opening
<1>c. ASSUME NEW q \in Processes, schema \subseteq schema', opener'[q] = opener[q]
      PROVE  OpenerInv(q)'
  <2>1. \A v : Complete(v) => Complete(v)'
    BY <1>c, CompleteStays
  <2> QED
    BY <2>1, <1>c DEF SchemaInv, OpenerInv, Opening, Behind
<1>d. ASSUME schema \subseteq schema', DOMAIN opener' = Processes,
             \A q \in Processes \ {p} : opener'[q] = opener[q],
             version' \in Nat, version' <= CurrentVersion => Complete(version)',
             OpenerInv(p)'
      PROVE  SchemaInv'
  <2>1. ASSUME NEW q \in Processes
        PROVE  OpenerInv(q)'
    <3>1. CASE q = p
      BY <3>1, <1>d
    <3>2. CASE q # p
      BY <3>2, <1>c, <1>d
    <3> QED
      BY <3>1, <3>2
  <2> QED
    BY <2>1, <1>d DEF SchemaInv
<1>e. ASSUME schema \subseteq schema', version' = version
      PROVE  version' \in Nat /\ (version' <= CurrentVersion => Complete(version)')
  <2>1. \A v : Complete(v) => Complete(v)'
    BY <1>e, CompleteStays
  <2> QED
    BY <2>1, <1>e DEF SchemaInv, Complete
<1>f. ASSUME Opening(p), ~AtEnd(p)
      PROVE  opener[p].next \in DOMAIN Statements[opener[p].at]
  BY <1>f, <1>b, StatementsAreSequences DEF AtEnd
<1>g. ASSUME Opening(p), AtEnd(p)
      PROVE  Complete(opener[p].at)
  <2> SUFFICES ASSUME NEW w \in Stages, w <= opener[p].at, NEW i \in DOMAIN Statements[w]
               PROVE  Statements[w][i] \in schema
    BY DEF Complete
  <2>1. opener[p].at \in Stages /\ opener[p].next \in Nat
    BY <1>g, <1>b
  <2>2. CASE w <= opener[p].at - 1
    BY <2>2, <1>g, <1>b, <2>1 DEF Behind, Complete
  <2>3. CASE w = opener[p].at
    <3>1. i < opener[p].next
      BY <2>1, <2>3, <1>g, StatementsAreSequences DEF AtEnd
    <3> QED
      BY <3>1, <2>3, <1>g, <1>b DEF Behind
  <2> QED
    BY <2>1, <2>2, <2>3, <1>a
<1>h. ASSUME Opening(p), ~AtEnd(p), schema \subseteq schema', Statement(p) \in schema', Advance(p)
      PROVE  OpenerInv(p)' /\ DOMAIN opener' = Processes
                /\ \A q \in Processes \ {p} : opener'[q] = opener[q]
  <2>1. opener[p] \in AnOpener /\ Behind(p) /\ DOMAIN opener = Processes
    BY <1>h, <1>b DEF SchemaInv
  <2>2. /\ opener'[p].at = opener[p].at /\ opener'[p].next = opener[p].next + 1
        /\ opener'[p] \in AnOpener /\ DOMAIN opener' = Processes
        /\ \A q \in Processes \ {p} : opener'[q] = opener[q]
    BY <1>h, <2>1 DEF Advance, Reached
  <2>3. Complete(opener[p].at - 1)'
    BY <2>1, <2>2, <1>h DEF Behind, Complete
  <2>4. \A i \in DOMAIN Statements[opener[p].at] :
            i < opener[p].next + 1 => Statements[opener[p].at][i] \in schema'
    <3> SUFFICES ASSUME NEW i \in DOMAIN Statements[opener[p].at], i < opener[p].next + 1
                 PROVE  Statements[opener[p].at][i] \in schema'
      OBVIOUS
    <3>1. i \in Nat /\ opener[p].next \in Nat
      BY <2>1, StatementsAreSequences
    <3>2. CASE i < opener[p].next
      BY <3>2, <2>1, <1>h DEF Behind
    <3>3. CASE i = opener[p].next
      BY <3>3, <1>h DEF Statement
    <3> QED
      BY <3>1, <3>2, <3>3
  <2>5. Behind(p)'
    BY <2>2, <2>3, <2>4 DEF Behind, Complete
  <2>6. opener'[p] # Opened
    BY <2>2, <1>0, <1>a
  <2> QED
    BY <2>2, <2>5, <2>6 DEF OpenerInv
<1>i. ASSUME opener' = [opener EXCEPT ![p] = Closed]
      PROVE  OpenerInv(p)' /\ DOMAIN opener' = Processes
                /\ \A q \in Processes \ {p} : opener'[q] = opener[q]
  <2>1. opener'[p] = Closed /\ DOMAIN opener' = Processes
    BY <1>i DEF SchemaInv
  <2>2. \A q \in Processes \ {p} : opener'[q] = opener[q]
    BY <1>i DEF SchemaInv
  <2> QED
    BY <2>1, <2>2, <1>0, <1>a DEF OpenerInv, Opening
<1>j. ASSUME NEW v \in Stages, opener' = [opener EXCEPT ![p] = Reached(v, 1)],
             Complete(v - 1), schema' = schema
      PROVE  OpenerInv(p)' /\ DOMAIN opener' = Processes
                /\ \A q \in Processes \ {p} : opener'[q] = opener[q]
  <2>1. opener'[p] = Reached(v, 1) /\ DOMAIN opener' = Processes
    BY <1>j DEF SchemaInv
  <2>2. \A q \in Processes \ {p} : opener'[q] = opener[q]
    BY <1>j DEF SchemaInv
  <2>3. Reached(v, 1) \in AnOpener /\ Reached(v, 1).at = v /\ Reached(v, 1).next = 1
    BY DEF Reached
  <2>4. Behind(p)'
    <3>1. \A i \in DOMAIN Statements[v] : ~(i < 1)
      BY StatementsAreSequences
    <3>2. Complete(v - 1)'
      BY <1>j DEF Complete
    <3> QED
      BY <3>1, <3>2, <2>1, <2>3 DEF Behind, Complete
  <2>5. opener'[p] # Opened
    BY <2>1, <2>3, <1>0, <1>a
  <2> QED
    BY <2>1, <2>2, <2>3, <2>4, <2>5 DEF OpenerInv
<1>1. CASE BeginOpen(p)
  <2>1. version + 1 \in Stages /\ (version + 1) - 1 = version /\ Complete(version)
    BY <1>1 DEF BeginOpen, SchemaInv, Stages, CurrentVersion
  <2>2. OpenerInv(p)' /\ DOMAIN opener' = Processes
           /\ \A q \in Processes \ {p} : opener'[q] = opener[q]
    BY <1>1, <1>j, <2>1 DEF BeginOpen
  <2> QED
    BY <1>1, <1>d, <1>e, <2>2 DEF BeginOpen
<1>2. CASE Create(p)
  <2>1. schema \subseteq schema' /\ Statement(p) \in schema' /\ version' = version
    BY <1>2 DEF Create
  <2>2. Opening(p) /\ ~AtEnd(p) /\ Advance(p)
    BY <1>2 DEF Create
  <2> QED
    BY <2>1, <2>2, <1>d, <1>e, <1>h
<1>3. CASE LookForColumn(p)
  <2>1. Opening(p) /\ ~AtEnd(p) /\ schema' = schema /\ version' = version
    BY <1>3 DEF LookForColumn
  <2>2. CASE Statement(p) \in schema
    BY <1>3, <2>1, <2>2, <1>d, <1>e, <1>h DEF LookForColumn
  <2>3. CASE Statement(p) \notin schema
    <3>1. opener' = [opener EXCEPT ![p].missing = TRUE]
      BY <1>3, <2>3 DEF LookForColumn
    <3>2. opener[p] \in AnOpener /\ Behind(p) /\ DOMAIN opener = Processes
      BY <2>1, <1>b DEF SchemaInv
    <3>3. /\ opener'[p].at = opener[p].at /\ opener'[p].next = opener[p].next
          /\ opener'[p] \in AnOpener /\ DOMAIN opener' = Processes
          /\ \A q \in Processes \ {p} : opener'[q] = opener[q]
      BY <3>1, <3>2
    <3>4. Behind(p)'
      BY <3>2, <3>3, <2>1 DEF Behind, Complete
    <3>5. opener'[p] # Opened
      BY <3>3, <1>0, <1>a
    <3>6. OpenerInv(p)'
      BY <3>3, <3>4, <3>5 DEF OpenerInv
    <3> QED
      BY <3>3, <3>6, <2>1, <1>d, <1>e
  <2> QED
    BY <2>2, <2>3
<1>4. CASE AddColumn(p)
  <2>1. Opening(p) /\ ~AtEnd(p) /\ version' = version
    BY <1>4 DEF AddColumn
  <2>2. CASE Statement(p) \in schema
    BY <1>4, <2>1, <2>2, <1>d, <1>e, <1>i DEF AddColumn
  <2>3. CASE Statement(p) \notin schema
    BY <1>4, <2>1, <2>3, <1>d, <1>e, <1>h DEF AddColumn
  <2> QED
    BY <2>2, <2>3
<1>5. CASE SetVersion(p)
  <2>1. /\ Opening(p) /\ AtEnd(p) /\ schema' = schema /\ version' = opener[p].at
        /\ opener[p].at <= CurrentVersion
        /\ opener' = [opener EXCEPT ![p] = Reached(opener[p].at + 1, 1)]
    BY <1>5 DEF SetVersion
  <2>2. opener[p].at \in Stages /\ Complete(opener[p].at)
    BY <2>1, <1>b, <1>g
  <2>3. opener[p].at + 1 \in Stages /\ (opener[p].at + 1) - 1 = opener[p].at
    BY <2>1, <2>2 DEF Stages, CurrentVersion
  <2>4. version' \in Nat /\ Complete(version)'
    BY <2>1, <2>2, <1>a DEF Complete
  <2>5. OpenerInv(p)' /\ DOMAIN opener' = Processes
           /\ \A q \in Processes \ {p} : opener'[q] = opener[q]
    BY <2>1, <2>2, <2>3, <1>j
  <2> QED
    BY <2>1, <2>4, <2>5, <1>d
<1>6. CASE FinishOpen(p)
  <2>1. /\ Opening(p) /\ AtEnd(p) /\ schema' = schema /\ version' = version
        /\ opener[p].at > CurrentVersion
        /\ opener' = [opener EXCEPT ![p] = Opened]
    BY <1>6 DEF FinishOpen
  <2>2. opener[p].at \in Stages /\ Complete(opener[p].at)
    BY <2>1, <1>b, <1>g
  <2>3. opener[p].at = CurrentVersion + 1
    BY <2>1, <2>2 DEF Stages, CurrentVersion
  <2>4. opener'[p] = Opened /\ DOMAIN opener' = Processes
           /\ \A q \in Processes \ {p} : opener'[q] = opener[q]
    BY <2>1 DEF SchemaInv
  <2>5. Complete(CurrentVersion + 1)'
    BY <2>1, <2>2, <2>3 DEF Complete
  <2>6. OpenerInv(p)'
    BY <2>4, <2>5, <1>0, <1>a DEF OpenerInv, Opening
  <2> QED
    BY <2>1, <2>4, <2>6, <1>d, <1>e
<1>7. CASE GiveUp(p)
  BY <1>7, <1>d, <1>e, <1>i DEF GiveUp
<1> QED
  BY <1>1, <1>2, <1>3, <1>4, <1>5, <1>6, <1>7 DEF Open

\* A process that dies opens again from the start.
LEMMA DieKeeps ==
    ASSUME SchemaInv, NEW p \in Processes, Die(p)
    PROVE  SchemaInv'
<1>0. Closed.at = 0 /\ Closed # Opened /\ 0 \notin Stages
  BY DEF Closed, Opened, Reached, CurrentVersion, Stages
<1>1. /\ opener' = [opener EXCEPT ![p] = Closed]
      /\ schema' = schema /\ version' = version
  BY DEF Die
<1>2. DOMAIN opener' = Processes /\ opener'[p] = Closed
         /\ \A q \in Processes \ {p} : opener'[q] = opener[q]
  BY <1>1 DEF SchemaInv
<1>3. ASSUME NEW q \in Processes
      PROVE  OpenerInv(q)'
  <2>1. CASE q = p
    BY <2>1, <1>0, <1>2 DEF OpenerInv, Opening
  <2>2. CASE q # p
    BY <2>2, <1>1, <1>2 DEF SchemaInv, OpenerInv, Opening, Behind, Complete
  <2> QED
    BY <2>1, <2>2
<1> QED
  BY <1>1, <1>2, <1>3 DEF SchemaInv, Complete

\* The other steps of a process do not touch the schema.
LEMMA SchemaStutter ==
    ASSUME SchemaInv, UNCHANGED schema_vars
    PROVE  SchemaInv'
<1>1. schema' = schema /\ version' = version /\ opener' = opener
  BY DEF schema_vars
<1>2. ASSUME NEW q \in Processes
      PROVE  OpenerInv(q)'
  BY <1>1 DEF SchemaInv, OpenerInv, Opening, Behind, Complete
<1> QED
  BY <1>1, <1>2 DEF SchemaInv, Complete

\* Store::open leaves a complete database (OpenIsComplete), for any number of
\* processes, any mix of migrations and deaths, and whatever they write.
THEOREM OpenComplete == Spec => []OpenIsComplete
<1>1. Init => SchemaInv
  BY SchemaInit DEF Init
<1>2. SchemaInv /\ [Next]_vars => SchemaInv'
  <2> SUFFICES ASSUME SchemaInv, [Next]_vars
               PROVE  SchemaInv'
    OBVIOUS
  <2>1. CASE UNCHANGED vars
    BY <2>1, SchemaStutter DEF vars
  <2>2. ASSUME NEW p \in Processes, OpenStep(p)
        PROVE  SchemaInv'
    BY <2>2, OpenStepKeeps DEF OpenStep
  <2>3. ASSUME NEW p \in Processes, Die(p)
        PROVE  SchemaInv'
    BY <2>3, DieKeeps
  <2>4. CASE UNCHANGED schema_vars
    BY <2>4, SchemaStutter
  <2> QED
    BY <2>1, <2>2, <2>3, <2>4
    DEF Next, BeginCapability, CheckCapability, RecordCapability, BeginExecutor,
        CheckExecutor, RecordExecutor, BeginCommit, RecordRow, ReadLatestHash,
        InsertEvent, BeginAudit, ReadEvents, VerifyEvent, Fail
<1>3. SchemaInv => OpenIsComplete
  BY DEF SchemaInv, OpenerInv, OpenIsComplete
<1> QED
  BY <1>1, <1>2, <1>3, PTL DEF Spec

-----------------------------------------------------------------------------
\* Registration.  A contract on its way has found no other in the record, or was
\* overtaken by one since; either way the executor in memory is made for it.
Registering == {"capability", "executor"}

KnownContracts == contracts \union overtaken
KnownManifests == manifests \union overtaken

Shaped(p) ==
    /\ "op" \in DOMAIN call[p]
    /\ call[p].op \in Registering => DOMAIN call[p] = {"op", "stage", "it"}

OneRecord ==
    /\ \A c, d \in contracts : c.capability = d.capability => c = d
    /\ \A m, n \in manifests : m.executor = n.executor => m = n

InMemory(p) ==
    /\ registry[p] \subseteq KnownContracts
    /\ executors[p] \subseteq KnownManifests
    /\ \A c \in registry[p] : \A m \in ExecutorOf(executors[p], c.capability) : Fits(m, c)

\* What the first lookup found still holds for the second one, or p is overtaken.
Unopposed(p) ==
    /\ In(p, "capability", "check") =>
          \/ call[p].it \in overtaken
          \/ ContractOf(contracts, call[p].it.capability) \subseteq {call[p].it}
    /\ In(p, "executor", "check") =>
          \/ call[p].it \in overtaken
          \/ RecordedAs(manifests, call[p].it.executor) \subseteq {call[p].it}

Room(p) ==
    /\ call[p].op = "capability" =>
          \A m \in ExecutorOf(executors[p], call[p].it.capability) : Fits(m, call[p].it)
    /\ call[p].op = "executor" =>
          \A c \in ContractOf(registry[p], call[p].it.capability) : Fits(call[p].it, c)

RecordInv ==
    /\ DOMAIN call = Processes /\ DOMAIN registry = Processes /\ DOMAIN executors = Processes
    /\ OneRecord
    /\ \A p \in Processes : Shaped(p) /\ InMemory(p) /\ Unopposed(p) /\ Room(p)

\* A step that neither records nor installs anything, and leaves p outside of
\* the registering calls, or past the lookups of the one it was in.
LEMMA QuietStep ==
    ASSUME RecordInv, NEW p \in Processes,
           UNCHANGED <<contracts, manifests, overtaken, registry, executors>>,
           DOMAIN call' = Processes,
           \A q \in Processes \ {p} : call'[q] = call[q],
           "op" \in DOMAIN call'[p],
           \/ call'[p].op \notin Registering
           \/ /\ call'[p].op = call[p].op /\ call'[p].it = call[p].it
              /\ call'[p].stage = "insert"
              /\ DOMAIN call'[p] = {"op", "stage", "it"}
    PROVE  RecordInv'
<1>1. ASSUME NEW q \in Processes
      PROVE  Shaped(q)' /\ InMemory(q)' /\ Unopposed(q)' /\ Room(q)'
  <2>1. InMemory(q)'
    BY DEF RecordInv, InMemory, KnownContracts, KnownManifests
  <2>2. CASE q = p
    BY <2>1, <2>2 DEF RecordInv, Shaped, Unopposed, In, Room, Registering
  <2>3. CASE q # p
    BY <2>1, <2>3 DEF RecordInv, Shaped, Unopposed, In, Room, Registering
  <2> QED
    BY <2>2, <2>3
<1> QED
  BY <1>1 DEF RecordInv, OneRecord

\* A step of p that begins to register.
LEMMA BeginStep ==
    ASSUME RecordInv, NEW p \in Processes,
           UNCHANGED <<contracts, manifests, overtaken, registry, executors>>,
           NEW c, Goto(p, c), DOMAIN c = {"op", "stage", "it"},
           Unopposed(p)', Room(p)'
    PROVE  RecordInv'
<1>1. DOMAIN call' = Processes /\ call'[p] = c
         /\ \A q \in Processes \ {p} : call'[q] = call[q]
  BY DEF Goto, RecordInv
<1>2. ASSUME NEW q \in Processes
      PROVE  Shaped(q)' /\ InMemory(q)' /\ Unopposed(q)' /\ Room(q)'
  <2>1. InMemory(q)'
    BY DEF RecordInv, InMemory, KnownContracts, KnownManifests
  <2>2. CASE q = p
    BY <2>1, <2>2, <1>1 DEF RecordInv, Shaped
  <2>3. CASE q # p
    BY <2>1, <2>3, <1>1 DEF RecordInv, Shaped, Unopposed, In, Room
  <2> QED
    BY <2>2, <2>3
<1> QED
  BY <1>1, <1>2 DEF RecordInv, OneRecord

\* The end of a registration: p is back, and the others are as they were or overtaken.
LEMMA EndStep ==
    ASSUME RecordInv, NEW p \in Processes, Goto(p, Idle),
           contracts \subseteq contracts', manifests \subseteq manifests',
           overtaken \subseteq overtaken', OneRecord',
           DOMAIN registry' = Processes, DOMAIN executors' = Processes,
           \A q \in Processes \ {p} :
               registry'[q] = registry[q] /\ executors'[q] = executors[q] /\ Unopposed(q)',
           InMemory(p)'
    PROVE  RecordInv'
<1>1. DOMAIN call' = Processes /\ call'[p] = Idle
         /\ \A q \in Processes \ {p} : call'[q] = call[q]
  BY DEF Goto, RecordInv
<1>2. Idle.op \notin Registering /\ "op" \in DOMAIN Idle
  BY DEF Idle, Registering
<1>3. ASSUME NEW q \in Processes
      PROVE  Shaped(q)' /\ InMemory(q)' /\ Unopposed(q)' /\ Room(q)'
  <2>1. CASE q = p
    BY <2>1, <1>1, <1>2 DEF Shaped, Unopposed, In, Room, Registering
  <2>2. CASE q # p
    <3>1. registry'[q] = registry[q] /\ executors'[q] = executors[q] /\ call'[q] = call[q]
             /\ Unopposed(q)'
      BY <2>2, <1>1
    <3>2. InMemory(q)'
      BY <3>1 DEF RecordInv, InMemory, KnownContracts, KnownManifests
    <3>3. Shaped(q)' /\ Room(q)'
      BY <3>1 DEF RecordInv, Shaped, Room
    <3> QED
      BY <3>1, <3>2, <3>3
  <2> QED
    BY <2>1, <2>2
<1> QED
  BY <1>1, <1>3 DEF RecordInv

\* What a call installs keeps executors and contracts of the process in accord.
LEMMA CapabilityInstalled ==
    ASSUME RecordInv, NEW p \in Processes, call[p].op = "capability",
           Register(p, call[p].it), UNCHANGED <<manifests, executors>>,
           contracts \subseteq contracts', overtaken \subseteq overtaken',
           call[p].it \in KnownContracts', OneRecord',
           \A q \in Processes \ {p} : Unopposed(q)'
    PROVE  RecordInv'
<1> DEFINE c == call[p].it
<1>1. /\ DOMAIN registry' = Processes /\ registry'[p] = registry[p] \union {c}
      /\ \A q \in Processes \ {p} : registry'[q] = registry[q]
  BY DEF Register, RecordInv
<1>2. \A m \in ExecutorOf(executors[p], c.capability) : Fits(m, c)
  BY DEF RecordInv, Room
<1>3. InMemory(p)'
  BY <1>1, <1>2 DEF RecordInv, InMemory, KnownContracts, KnownManifests
<1>4. Goto(p, Idle)
  BY DEF Register
<1>5. DOMAIN executors' = Processes
  BY DEF RecordInv
<1> HIDE DEF c
<1> QED
  BY <1>1, <1>3, <1>4, <1>5, EndStep

LEMMA ExecutorInstalled ==
    ASSUME RecordInv, NEW p \in Processes, call[p].op = "executor",
           Install(p, call[p].it), UNCHANGED <<contracts, registry>>,
           manifests \subseteq manifests', overtaken \subseteq overtaken',
           call[p].it \in KnownManifests', OneRecord',
           \A q \in Processes \ {p} : Unopposed(q)'
    PROVE  RecordInv'
<1> DEFINE m == call[p].it
<1>1. /\ DOMAIN executors' = Processes
      /\ executors'[p] = (executors[p] \ ExecutorOf(executors[p], m.capability)) \union {m}
      /\ \A q \in Processes \ {p} : executors'[q] = executors[q]
  BY DEF Install, RecordInv
<1>2. \A c \in ContractOf(registry[p], m.capability) : Fits(m, c)
  BY DEF RecordInv, Room
<1>3. InMemory(p)'
  <2>1. registry'[p] \subseteq KnownContracts' /\ executors'[p] \subseteq KnownManifests'
    BY <1>1 DEF RecordInv, InMemory, KnownContracts, KnownManifests
  <2>2. \A c \in registry'[p] : \A x \in ExecutorOf(executors'[p], c.capability) : Fits(x, c)
    BY <1>1, <1>2 DEF RecordInv, InMemory, ExecutorOf, ContractOf
  <2> QED
    BY <2>1, <2>2 DEF InMemory
<1>4. Goto(p, Idle)
  BY DEF Install
<1>5. DOMAIN registry' = Processes
  BY DEF RecordInv
<1> HIDE DEF m
<1> QED
  BY <1>1, <1>3, <1>4, <1>5, EndStep

\* The others when nothing is recorded, and when a contract or a manifest is: whoever
\* offers another of the same id is overtaken.
LEMMA OthersStay ==
    ASSUME RecordInv, NEW p \in Processes, NEW c, Goto(p, c),
           UNCHANGED <<contracts, manifests, overtaken>>
    PROVE  \A q \in Processes \ {p} : Unopposed(q)'
<1>1. \A q \in Processes \ {p} : call'[q] = call[q]
  BY DEF Goto, RecordInv
<1> QED
  BY <1>1 DEF RecordInv, Unopposed, In

LEMMA OthersOvertaken ==
    ASSUME RecordInv, NEW p \in Processes, NEW c, Goto(p, Idle),
           \/ /\ contracts' = contracts \union {c} /\ manifests' = manifests
              /\ Overtaken(ContractOf(Offers(p, "capability"), c.capability) \ {c})
           \/ /\ manifests' = manifests \union {c} /\ contracts' = contracts
              /\ Overtaken(RecordedAs(Offers(p, "executor"), c.executor) \ {c})
    PROVE  \A q \in Processes \ {p} : Unopposed(q)'
<1> SUFFICES ASSUME NEW q \in Processes \ {p}
             PROVE  Unopposed(q)'
  OBVIOUS
<1>1. call'[q] = call[q] /\ overtaken \subseteq overtaken' /\ Unopposed(q)
  BY DEF Goto, RecordInv, Overtaken
<1>2. In(q, "capability", "check") => call[q].it \in Offers(p, "capability")
  BY DEF Offers
<1>3. In(q, "executor", "check") => call[q].it \in Offers(p, "executor")
  BY DEF Offers
<1>4. CASE /\ contracts' = contracts \union {c} /\ manifests' = manifests
           /\ Overtaken(ContractOf(Offers(p, "capability"), c.capability) \ {c})
  <2>1. ASSUME In(q, "capability", "check"), call[q].it \notin overtaken'
        PROVE  ContractOf(contracts', call[q].it.capability) \subseteq {call[q].it}
    <3>1. call[q].it = c \/ call[q].it.capability # c.capability
      BY <1>2, <1>4, <2>1 DEF Overtaken, ContractOf
    <3> QED
      BY <3>1, <1>1, <1>4, <2>1 DEF Unopposed, ContractOf
  <2> QED
    BY <2>1, <1>1, <1>4 DEF Unopposed, In
<1>5. CASE /\ manifests' = manifests \union {c} /\ contracts' = contracts
           /\ Overtaken(RecordedAs(Offers(p, "executor"), c.executor) \ {c})
  <2>1. ASSUME In(q, "executor", "check"), call[q].it \notin overtaken'
        PROVE  RecordedAs(manifests', call[q].it.executor) \subseteq {call[q].it}
    <3>1. call[q].it = c \/ call[q].it.executor # c.executor
      BY <1>3, <1>5, <2>1 DEF Overtaken, RecordedAs
    <3> QED
      BY <3>1, <1>1, <1>5, <2>1 DEF Unopposed, RecordedAs
  <2> QED
    BY <2>1, <1>1, <1>5 DEF Unopposed, In
<1> QED
  BY <1>4, <1>5

LEMMA RecordStep ==
    ASSUME RecordInv, [Next]_vars
    PROVE  RecordInv'
<1>0. "op" \in DOMAIN Idle /\ Idle.op \notin Registering
  BY DEF Idle, Registering
<1>1. CASE UNCHANGED <<tables, memory, call, history>>
  <2>1. UNCHANGED <<contracts, manifests, overtaken, registry, executors, call>>
    BY <1>1 DEF tables, memory, history
  <2>2. ASSUME NEW q \in Processes
        PROVE  Shaped(q)' /\ InMemory(q)' /\ Unopposed(q)' /\ Room(q)'
    BY <2>1 DEF RecordInv, Shaped, InMemory, KnownContracts, KnownManifests, Unopposed, In, Room
  <2> QED
    BY <2>1, <2>2 DEF RecordInv, OneRecord
<1>2. ASSUME NEW p \in Processes, NEW c \in Contracts, BeginCapability(p, c)
      PROVE  RecordInv'
  <2> DEFINE new == [op |-> "capability", stage |-> "check", it |-> c]
  <2>1. /\ Goto(p, new)
        /\ UNCHANGED <<contracts, manifests, overtaken, registry, executors>>
        /\ ContractOf(contracts, c.capability) \subseteq {c}
        /\ \A m \in ExecutorOf(executors[p], c.capability) : Fits(m, c)
    BY <1>2 DEF BeginCapability, tables, memory, history
  <2>2. call'[p] = new
    BY <2>1 DEF Goto, RecordInv
  <2>3. new.op = "capability" /\ new.it = c /\ DOMAIN new = {"op", "stage", "it"}
    OBVIOUS
  <2>4. Room(p)'
    BY <2>1, <2>2, <2>3 DEF Room
  <2>5. Unopposed(p)'
    BY <2>1, <2>2, <2>3 DEF Unopposed, In
  <2> HIDE DEF new
  <2> QED
    BY <2>1, <2>3, <2>4, <2>5, BeginStep
<1>3. ASSUME NEW p \in Processes, NEW m \in Manifests, BeginExecutor(p, m)
      PROVE  RecordInv'
  <2> DEFINE new == [op |-> "executor", stage |-> "check", it |-> m]
  <2>1. /\ Goto(p, new)
        /\ UNCHANGED <<contracts, manifests, overtaken, registry, executors>>
        /\ RecordedAs(manifests, m.executor) \subseteq {m}
        /\ \A c \in ContractOf(registry[p], m.capability) : Fits(m, c)
    BY <1>3 DEF BeginExecutor, tables, memory, history
  <2>2. call'[p] = new
    BY <2>1 DEF Goto, RecordInv
  <2>3. new.op = "executor" /\ new.it = m /\ DOMAIN new = {"op", "stage", "it"}
    OBVIOUS
  <2>4. Room(p)'
    BY <2>1, <2>2, <2>3 DEF Room
  <2>5. Unopposed(p)'
    BY <2>1, <2>2, <2>3 DEF Unopposed, In
  <2> HIDE DEF new
  <2> QED
    BY <2>1, <2>3, <2>4, <2>5, BeginStep
<1>4. ASSUME NEW p \in Processes, CheckCapability(p)
      PROVE  RecordInv'
  <2>1. /\ call[p].op = "capability" /\ In(p, "capability", "check")
        /\ UNCHANGED <<contracts, manifests, overtaken, executors>>
    BY <1>4 DEF CheckCapability, In, tables, history
  <2>2. CASE ContractOf(contracts, call[p].it.capability) = {}
    <3>1. Goto(p, [call[p] EXCEPT !.stage = "insert"]) /\ registry' = registry
      BY <1>4, <2>2 DEF CheckCapability
    <3>2. DOMAIN call[p] = {"op", "stage", "it"}
      BY <2>1 DEF RecordInv, Shaped, Registering
    <3>3. /\ call'[p].op = call[p].op /\ call'[p].it = call[p].it /\ call'[p].stage = "insert"
          /\ DOMAIN call'[p] = {"op", "stage", "it"} /\ DOMAIN call' = Processes
          /\ \A q \in Processes \ {p} : call'[q] = call[q]
      BY <3>1, <3>2 DEF Goto, RecordInv
    <3> QED
      BY <3>1, <3>3, <2>1, QuietStep
  <2>3. CASE ContractOf(contracts, call[p].it.capability) # {}
    <3>1. Register(p, call[p].it)
      BY <1>4, <2>3 DEF CheckCapability
    <3>2. call[p].it \in KnownContracts
      BY <2>1, <2>3 DEF RecordInv, Unopposed, ContractOf, KnownContracts
    <3>3. OneRecord' /\ call[p].it \in KnownContracts'
      BY <3>2, <2>1 DEF RecordInv, OneRecord, KnownContracts
    <3>4. \A q \in Processes \ {p} : Unopposed(q)'
      BY <3>1, <2>1, OthersStay DEF Register
    <3> QED
      BY <3>1, <3>3, <3>4, <2>1, CapabilityInstalled
  <2> QED
    BY <2>2, <2>3
<1>5. ASSUME NEW p \in Processes, RecordCapability(p)
      PROVE  RecordInv'
  <2>1. call[p].op = "capability" /\ UNCHANGED <<manifests, executors>>
    BY <1>5 DEF RecordCapability, In
  <2>2. CASE ContractOf(contracts, call[p].it.capability) = {}
    <3> DEFINE c == call[p].it
    <3>1. /\ Register(p, c) /\ contracts' = contracts \union {c}
          /\ Overtaken(ContractOf(Offers(p, "capability"), c.capability) \ {c})
      BY <1>5, <2>2 DEF RecordCapability
    <3>2. OneRecord' /\ c \in KnownContracts' /\ overtaken \subseteq overtaken'
      BY <3>1, <2>1, <2>2 DEF RecordInv, OneRecord, ContractOf, KnownContracts, Overtaken
    <3>3. Goto(p, Idle)
      BY <3>1 DEF Register
    <3>4. \A q \in Processes \ {p} : Unopposed(q)'
      <4> HIDE DEF c
      <4> QED
        BY <3>1, <3>3, <2>1, OthersOvertaken
    <3> QED
      BY <3>1, <3>2, <3>4, <2>1, CapabilityInstalled
  <2>3. CASE ContractOf(contracts, call[p].it.capability) # {}
    <3>1. Goto(p, Idle) /\ UNCHANGED <<contracts, registry, overtaken>>
      BY <1>5, <2>3 DEF RecordCapability
    <3>2. DOMAIN call' = Processes /\ call'[p] = Idle
             /\ \A q \in Processes \ {p} : call'[q] = call[q]
      BY <3>1 DEF Goto, RecordInv
    <3> QED
      BY <3>1, <3>2, <2>1, <1>0, QuietStep
  <2> QED
    BY <2>2, <2>3
<1>6. ASSUME NEW p \in Processes, CheckExecutor(p)
      PROVE  RecordInv'
  <2>1. /\ call[p].op = "executor" /\ In(p, "executor", "check")
        /\ UNCHANGED <<contracts, manifests, overtaken, registry>>
    BY <1>6 DEF CheckExecutor, In, tables, history
  <2>2. CASE RecordedAs(manifests, call[p].it.executor) = {}
    <3>1. Goto(p, [call[p] EXCEPT !.stage = "insert"]) /\ executors' = executors
      BY <1>6, <2>2 DEF CheckExecutor
    <3>2. DOMAIN call[p] = {"op", "stage", "it"}
      BY <2>1 DEF RecordInv, Shaped, Registering
    <3>3. /\ call'[p].op = call[p].op /\ call'[p].it = call[p].it /\ call'[p].stage = "insert"
          /\ DOMAIN call'[p] = {"op", "stage", "it"} /\ DOMAIN call' = Processes
          /\ \A q \in Processes \ {p} : call'[q] = call[q]
      BY <3>1, <3>2 DEF Goto, RecordInv
    <3> QED
      BY <3>1, <3>3, <2>1, QuietStep
  <2>3. CASE RecordedAs(manifests, call[p].it.executor) # {}
    <3>1. Install(p, call[p].it)
      BY <1>6, <2>3 DEF CheckExecutor
    <3>2. call[p].it \in KnownManifests
      BY <2>1, <2>3 DEF RecordInv, Unopposed, RecordedAs, KnownManifests
    <3>3. OneRecord' /\ call[p].it \in KnownManifests'
      BY <3>2, <2>1 DEF RecordInv, OneRecord, KnownManifests
    <3>4. \A q \in Processes \ {p} : Unopposed(q)'
      BY <3>1, <2>1, OthersStay DEF Install
    <3> QED
      BY <3>1, <3>3, <3>4, <2>1, ExecutorInstalled
  <2> QED
    BY <2>2, <2>3
<1>7. ASSUME NEW p \in Processes, RecordExecutor(p)
      PROVE  RecordInv'
  <2>1. call[p].op = "executor" /\ UNCHANGED <<contracts, registry>>
    BY <1>7 DEF RecordExecutor, In
  <2>2. CASE RecordedAs(manifests, call[p].it.executor) = {}
    <3> DEFINE m == call[p].it
    <3>1. /\ Install(p, m) /\ manifests' = manifests \union {m}
          /\ Overtaken(RecordedAs(Offers(p, "executor"), m.executor) \ {m})
      BY <1>7, <2>2 DEF RecordExecutor
    <3>2. OneRecord' /\ m \in KnownManifests' /\ overtaken \subseteq overtaken'
      BY <3>1, <2>1, <2>2 DEF RecordInv, OneRecord, RecordedAs, KnownManifests, Overtaken
    <3>3. Goto(p, Idle)
      BY <3>1 DEF Install
    <3>4. \A q \in Processes \ {p} : Unopposed(q)'
      <4> HIDE DEF m
      <4> QED
        BY <3>1, <3>3, <2>1, OthersOvertaken
    <3> QED
      BY <3>1, <3>2, <3>4, <2>1, ExecutorInstalled
  <2>3. CASE RecordedAs(manifests, call[p].it.executor) # {}
    <3>1. Goto(p, Idle) /\ UNCHANGED <<manifests, executors, overtaken>>
      BY <1>7, <2>3 DEF RecordExecutor
    <3>2. DOMAIN call' = Processes /\ call'[p] = Idle
             /\ \A q \in Processes \ {p} : call'[q] = call[q]
      BY <3>1 DEF Goto, RecordInv
    <3> QED
      BY <3>1, <3>2, <2>1, <1>0, QuietStep
  <2> QED
    BY <2>2, <2>3
<1>8. ASSUME NEW p \in Processes, NEW c, Goto(p, c), "op" \in DOMAIN c, c.op \notin Registering,
             UNCHANGED <<contracts, manifests, overtaken, registry, executors>>
      PROVE  RecordInv'
  <2>1. DOMAIN call' = Processes /\ call'[p] = c
           /\ \A q \in Processes \ {p} : call'[q] = call[q]
    BY <1>8 DEF Goto, RecordInv
  <2> QED
    BY <2>1, <1>8, QuietStep
<1>9. ASSUME NEW p \in Processes, NEW v, "op" \in DOMAIN call[p], call[p].op \notin Registering
      PROVE  /\ "op" \in DOMAIN [call[p] EXCEPT !.stage = v]
             /\ [call[p] EXCEPT !.stage = v].op \notin Registering
  BY <1>9
<1>10. ASSUME NEW p \in Processes
       PROVE  "op" \in DOMAIN call[p]
  BY <1>10 DEF RecordInv, Shaped
<1>11. "commit" \notin Registering /\ "audit" \notin Registering /\ "accuses" \notin Registering
  BY DEF Registering
<1>12. ASSUME NEW p \in Processes, BeginCommit(p)
       PROVE  RecordInv'
  <2>1. PICK c \in registry[p] : \E m \in ExecutorOf(executors[p], c.capability) :
            Goto(p, [op |-> "commit", stage |-> 1, run |-> begun + 1, contract |-> c,
                     manifest |-> m, previous |-> << >>])
    BY <1>12 DEF BeginCommit
  <2>2. PICK m \in ExecutorOf(executors[p], c.capability) :
            Goto(p, [op |-> "commit", stage |-> 1, run |-> begun + 1, contract |-> c,
                     manifest |-> m, previous |-> << >>])
    BY <2>1
  <2> QED
    BY <2>2, <1>8, <1>11, <1>12 DEF BeginCommit, tables, memory, history
<1>13. ASSUME NEW p \in Processes, RecordRow(p)
       PROVE  RecordInv'
  BY <1>8, <1>9, <1>10, <1>11, <1>13 DEF RecordRow, memory, history
<1>14. ASSUME NEW p \in Processes, ReadLatestHash(p)
       PROVE  RecordInv'
  <2>1. "op" \in DOMAIN call[p] /\ call[p].op = "commit"
    BY <1>10, <1>14 DEF ReadLatestHash
  <2> DEFINE c == [call[p] EXCEPT !.stage = @ + 1, !.previous = LatestHash(call[p].run)]
  <2>2. "op" \in DOMAIN c /\ c.op = "commit"
    BY <2>1
  <2>3. Goto(p, c) /\ UNCHANGED <<contracts, manifests, overtaken, registry, executors>>
    BY <1>14 DEF ReadLatestHash, tables, memory, history
  <2> HIDE DEF c
  <2> QED
    BY <2>2, <2>3, <1>8, <1>11
<1>15. ASSUME NEW p \in Processes, InsertEvent(p)
       PROVE  RecordInv'
  BY <1>0, <1>8, <1>15 DEF InsertEvent, memory
<1>16. ASSUME NEW p \in Processes, BeginAudit(p)
       PROVE  RecordInv'
  <2> DEFINE c == [op |-> IF ChainHolds(ledger) THEN "audit" ELSE "accuses", stage |-> 0,
                   events |-> << >>]
  <2>1. Goto(p, c) /\ UNCHANGED <<contracts, manifests, overtaken, registry, executors>>
    BY <1>16 DEF BeginAudit, tables, memory, history
  <2>2. "op" \in DOMAIN c /\ c.op \in {"audit", "accuses"}
    OBVIOUS
  <2> HIDE DEF c
  <2> QED
    BY <2>1, <2>2, <1>8, <1>11
<1>17. ASSUME NEW p \in Processes, ReadEvents(p)
       PROVE  RecordInv'
  <2> DEFINE c == [call[p] EXCEPT !.stage = 1, !.events = ledger]
  <2>1. "op" \in DOMAIN call[p] /\ call[p].op = "audit"
    BY <1>10, <1>17 DEF ReadEvents, In
  <2>2. "op" \in DOMAIN c /\ c.op = "audit"
    BY <2>1
  <2>3. /\ Goto(p, Idle) \/ Goto(p, c)
        /\ UNCHANGED <<contracts, manifests, overtaken, registry, executors>>
    BY <1>17 DEF ReadEvents, tables, memory, history
  <2> HIDE DEF c
  <2> QED
    BY <2>2, <2>3, <1>0, <1>8, <1>11
<1>18. ASSUME NEW p \in Processes, VerifyEvent(p)
       PROVE  RecordInv'
  <2>1. "op" \in DOMAIN call[p] /\ call[p].op = "audit"
    BY <1>10, <1>18 DEF VerifyEvent
  <2>2. \A s, es : /\ "op" \in DOMAIN [call[p] EXCEPT !.stage = s, !.events = es]
                   /\ [call[p] EXCEPT !.stage = s, !.events = es].op = "audit"
    BY <2>1
  <2>3. /\ "op" \in DOMAIN [call[p] EXCEPT !.op = "accuses"]
        /\ [call[p] EXCEPT !.op = "accuses"].op = "accuses"
    BY <2>1
  <2>4. UNCHANGED <<contracts, manifests, overtaken, registry, executors>>
    BY <1>18 DEF VerifyEvent, tables, memory, history
  <2>5. \/ Goto(p, Idle)
        \/ Goto(p, [call[p] EXCEPT !.op = "accuses"])
        \/ \E s, es : Goto(p, [call[p] EXCEPT !.stage = s, !.events = es])
    BY <1>18, Zenon DEF VerifyEvent
  <2>6. ASSUME NEW s, NEW es, Goto(p, [call[p] EXCEPT !.stage = s, !.events = es])
        PROVE  RecordInv'
    <3> DEFINE c == [call[p] EXCEPT !.stage = s, !.events = es]
    <3>1. "op" \in DOMAIN c /\ c.op = "audit" /\ Goto(p, c)
      BY <2>2, <2>6
    <3> HIDE DEF c
    <3> QED
      BY <3>1, <2>4, <1>8, <1>11
  <2> QED
    BY <2>3, <2>4, <2>5, <2>6, <1>0, <1>8, <1>11
<1>19. ASSUME NEW p \in Processes, Fail(p)
       PROVE  RecordInv'
  BY <1>0, <1>8, <1>19 DEF Fail, tables, memory, history
<1>20. ASSUME NEW p \in Processes, Die(p)
       PROVE  RecordInv'
  <2>1. /\ call' = [call EXCEPT ![p] = Idle]
        /\ registry' = [registry EXCEPT ![p] = {}]
        /\ executors' = [executors EXCEPT ![p] = {}]
        /\ contracts' = contracts /\ manifests' = manifests /\ overtaken' = overtaken
    BY <1>20 DEF Die, Goto, tables, history
  <2>2. /\ DOMAIN call' = Processes /\ DOMAIN registry' = Processes
        /\ DOMAIN executors' = Processes
        /\ call'[p] = Idle /\ registry'[p] = {} /\ executors'[p] = {}
        /\ \A q \in Processes \ {p} : /\ call'[q] = call[q] /\ registry'[q] = registry[q]
                                       /\ executors'[q] = executors[q]
    BY <2>1 DEF RecordInv
  <2>3. ASSUME NEW q \in Processes
        PROVE  Shaped(q)' /\ InMemory(q)' /\ Unopposed(q)' /\ Room(q)'
    <3>1. CASE q = p
      BY <3>1, <2>2, <1>0 DEF Shaped, InMemory, Unopposed, In, Room, Registering, ExecutorOf
    <3>2. CASE q # p
      BY <3>2, <2>1, <2>2
      DEF RecordInv, Shaped, InMemory, Unopposed, In, Room, KnownContracts, KnownManifests
    <3> QED
      BY <3>1, <3>2
  <2> QED
    BY <2>1, <2>2, <2>3 DEF RecordInv, OneRecord
<1> QED
  BY <1>1, <1>2, <1>3, <1>4, <1>5, <1>6, <1>7, <1>12, <1>13, <1>14, <1>15, <1>16, <1>17,
     <1>18, <1>19, <1>20
  DEF Next, OpenStep, vars

LEMMA RecordInit == Init => RecordInv
<1> SUFFICES ASSUME Init
             PROVE  RecordInv
  OBVIOUS
<1>1. \A p \in Processes : call[p] = Idle /\ registry[p] = {} /\ executors[p] = {}
  BY DEF Init
<1>2. "op" \in DOMAIN Idle /\ Idle.op = "idle"
  BY DEF Idle
<1>3. \A p \in Processes : Shaped(p) /\ InMemory(p) /\ Unopposed(p) /\ Room(p)
  BY <1>1, <1>2 DEF Shaped, InMemory, Unopposed, In, Room, Registering
<1> QED
  BY <1>3 DEF Init, RecordInv, OneRecord

\* When writing calls take turns, every process works with the recorded contracts
\* A process works with the recorded contracts and manifests, or with what another
\* process overtook between its two lookups, and its executors are made for its
\* contracts (RegistryIsRecorded), however many processes register at once.
THEOREM RegistryRecorded == Spec => []RegistryIsRecorded
<1>1. Init => RecordInv
  BY RecordInit
<1>2. RecordInv /\ [Next]_vars => RecordInv'
  BY RecordStep
<1>3. RecordInv => RegistryIsRecorded
  BY DEF RecordInv, InMemory, KnownContracts, KnownManifests, RegistryIsRecorded
<1> QED
  BY <1>1, <1>2, <1>3, PTL DEF Spec

-----------------------------------------------------------------------------
\* The audit.  What an event is held against is there before the event is, and
\* stays: an event that is kept has its rows, and its authority is on record or
\* was overtaken.
Backed(e) ==
    /\ \A i \in DOMAIN Kinds : HasRow(Kinds[i], e)
    /\ Fits(e.manifest, e.contract)

Kept ==
    {e \in [run : Nat, contract : KnownContracts, manifest : KnownManifests,
            previous : Seq(Nat), flaws : Flaws] : Backed(e)}

Entries == {ledger[i] : i \in DOMAIN ledger}

\* An event goes on from the one before it, unless its hash was read too early.
Linked(i) ==
    \/ ledger[i].run \in overlapped
    \/ ledger[i].previous = IF i = 1 THEN << >> ELSE Hash(ledger[i - 1])

Suspect(i) == Faulty(ledger[i])

\* A commit under way has the rows of the stages behind it; the hash it has read
\* is still the latest one, or its run is known to overlap another.
CommitIsBacked(p) ==
    call[p].op = "commit" =>
        /\ call[p] \in [op : {"commit"}, stage : 1..Len(Kinds) + 2, run : Nat,
                        contract : KnownContracts, manifest : KnownManifests,
                        previous : Seq(Nat)]
        /\ Fits(call[p].manifest, call[p].contract)
        /\ \A i \in DOMAIN Kinds : i < call[p].stage => HasRow(Kinds[i], call[p])
        /\ call[p].stage = Len(Kinds) + 2 =>
              call[p].run \in overlapped \/ call[p].previous = LatestHash(call[p].run)

\* An audit under way holds events of the ledger, one at least once it has read.
AuditIsBacked(p) ==
    call[p].op = "audit" =>
        /\ call[p] \in [op : {"audit"}, stage : 0..Len(Checks), events : Seq(Entries)]
        /\ call[p].stage # 0 => call[p].events # << >>

LogInv ==
    /\ begun \in Nat
    /\ ledger \in Seq(Kept)
    /\ \A i \in DOMAIN ledger : Linked(i)
    /\ \A p \in Processes : CommitIsBacked(p) /\ AuditIsBacked(p)
    /\ AuditAccusesTheFaulty

LEMMA KindsAndChecks ==
    /\ Len(Kinds) = 5 /\ DOMAIN Kinds = 1..5
    /\ Len(Checks) = 7 /\ DOMAIN Checks = 1..7
BY DEF Kinds, Checks

\* A commit that goes on to its next stage.
LEMMA CommitAdvances ==
    ASSUME NEW S, NEW R, NEW C, NEW M, NEW H,
           NEW r \in [op : {"commit"}, stage : S, run : R, contract : C, manifest : M, previous : H],
           r.stage + 1 \in S
    PROVE  /\ [r EXCEPT !.stage = @ + 1]
                 \in [op : {"commit"}, stage : S, run : R, contract : C, manifest : M, previous : H]
           /\ [r EXCEPT !.stage = @ + 1].op = "commit"
           /\ [r EXCEPT !.stage = @ + 1].stage = r.stage + 1
           /\ [r EXCEPT !.stage = @ + 1].contract = r.contract
           /\ [r EXCEPT !.stage = @ + 1].manifest = r.manifest
           /\ [r EXCEPT !.stage = @ + 1].run = r.run
OBVIOUS

\* What a call becomes when its stage and one more field change.
LEMMA AuditGoesTo ==
    ASSUME NEW S, NEW T, NEW r \in [op : {"audit"}, stage : S, events : T],
           NEW s \in S, NEW t \in T
    PROVE  /\ [r EXCEPT !.stage = s, !.events = t] \in [op : {"audit"}, stage : S, events : T]
           /\ [r EXCEPT !.stage = s, !.events = t].op = "audit"
           /\ [r EXCEPT !.stage = s, !.events = t].events = t
OBVIOUS

LEMMA CommitGoesTo ==
    ASSUME NEW S, NEW R, NEW C, NEW M, NEW H,
           NEW r \in [op : {"commit"}, stage : S, run : R, contract : C, manifest : M, previous : H],
           NEW s \in S, NEW h \in H
    PROVE  LET c == [r EXCEPT !.stage = s, !.previous = h]
           IN /\ c \in [op : {"commit"}, stage : S, run : R, contract : C, manifest : M,
                        previous : H]
              /\ c.op = "commit" /\ c.stage = s /\ c.contract = r.contract
              /\ c.manifest = r.manifest /\ c.run = r.run /\ c.previous = h
OBVIOUS

\* Whoever kept an event keeps it, as tables only grow.
LEMMA KeptStays ==
    ASSUME contracts \subseteq contracts', manifests \subseteq manifests', rows \subseteq rows',
           overtaken \subseteq overtaken'
    PROVE  /\ Kept \subseteq Kept'
           /\ KnownContracts \subseteq KnownContracts' /\ KnownManifests \subseteq KnownManifests'
           /\ \A s \in Seq(Kept) : s \in Seq(Kept')
<1>1. KnownContracts \subseteq KnownContracts' /\ KnownManifests \subseteq KnownManifests'
  BY DEF KnownContracts, KnownManifests
<1>2. Kept \subseteq Kept'
  BY <1>1 DEF Kept, Backed, HasRow
<1> HIDE DEF Kept
<1>3. ASSUME NEW s \in Seq(Kept)
      PROVE  s \in Seq(Kept')
  BY <1>2, <1>3
<1> QED
  BY <1>1, <1>2, <1>3

LEMMA LatestHashIsHash ==
    ASSUME ledger \in Seq(Kept)
    PROVE  \A run : LatestHash(run) \in Seq(Nat)
<1>1. CASE ledger = << >>
  BY <1>1 DEF LatestHash
<1>2. CASE ledger # << >>
  <2>1. Last(ledger) \in Kept
    BY <1>2 DEF Last
  <2>2. Last(ledger).previous \in Seq(Nat) /\ Last(ledger).run \in Nat
    BY <2>1 DEF Kept
  <2> QED
    BY <1>2, <2>2 DEF LatestHash, Hash
<1> QED
  BY <1>1, <1>2

\* A commit of another process goes on being backed while tables grow.
LEMMA CommitStays ==
    ASSUME NEW q \in Processes, CommitIsBacked(q), call'[q] = call[q],
           contracts \subseteq contracts', manifests \subseteq manifests', rows \subseteq rows',
           overtaken \subseteq overtaken', overlapped \subseteq overlapped',
           ledger' = ledger \/ (Inserting(q) => call[q].run \in overlapped')
    PROVE  CommitIsBacked(q)'
<1> SUFFICES ASSUME call[q].op = "commit"
             PROVE  CommitIsBacked(q)'
  BY DEF CommitIsBacked
<1>1. KnownContracts \subseteq KnownContracts' /\ KnownManifests \subseteq KnownManifests'
  BY DEF KnownContracts, KnownManifests
<1>2. call'[q] \in [op : {"commit"}, stage : 1..Len(Kinds) + 2, run : Nat,
                    contract : KnownContracts', manifest : KnownManifests',
                    previous : Seq(Nat)]
  BY <1>1 DEF CommitIsBacked
<1>3. \A i \in DOMAIN Kinds : i < call[q].stage => HasRow(Kinds[i], call[q])'
  BY DEF CommitIsBacked, HasRow
<1>4. call[q].stage = Len(Kinds) + 2 =>
         call[q].run \in overlapped' \/ call[q].previous = LatestHash(call[q].run)'
  BY DEF CommitIsBacked, Inserting, LatestHash
<1> QED
  BY <1>2, <1>3, <1>4 DEF CommitIsBacked

\* A step of p that leaves the ledger alone.
LEMMA LogGoesOn ==
    ASSUME LogInv, DOMAIN call = Processes, NEW p \in Processes, NEW c, Goto(p, c),
           contracts \subseteq contracts', manifests \subseteq manifests', rows \subseteq rows',
           overtaken \subseteq overtaken', overlapped' = overlapped,
           ledger' = ledger, begun' \in Nat,
           c.op = "accuses" => \E i \in DOMAIN ledger : Faulty(ledger[i]),
           call'[p] = c => CommitIsBacked(p)' /\ AuditIsBacked(p)'
    PROVE  LogInv'
<1>1. call'[p] = c /\ \A q \in Processes \ {p} : call'[q] = call[q]
  BY DEF Goto
<1>2. ledger' \in Seq(Kept')
  BY KeptStays DEF LogInv
<1>3. ASSUME NEW q \in Processes \ {p}
      PROVE  CommitIsBacked(q)' /\ AuditIsBacked(q)'
  <2>1. CommitIsBacked(q) /\ AuditIsBacked(q)
    BY DEF LogInv
  <2>2. CommitIsBacked(q)'
    BY <2>1, <1>1, CommitStays
  <2>3. AuditIsBacked(q)'
    BY <2>1, <1>1 DEF AuditIsBacked, Entries
  <2> QED
    BY <2>2, <2>3
<1>4. \A i \in DOMAIN ledger : Suspect(i) => Suspect(i)'
  BY DEF Suspect, Faulty
<1>5. AuditAccusesTheFaulty'
  BY <1>1, <1>4 DEF LogInv, AuditAccusesTheFaulty, Suspect
<1>6. \A i \in DOMAIN ledger' : Linked(i)'
  BY DEF LogInv, Linked
<1> QED
  BY <1>1, <1>2, <1>3, <1>5, <1>6 DEF LogInv

\* An event is appended with the hash that was read: its run, or that of any commit
\* that has read and not yet inserted, may overlap.
LEMMA EventStep ==
    ASSUME LogInv, RecordInv, NEW p \in Processes, InsertEvent(p)
    PROVE  LogInv'
<1>0. PICK flaws \in Flaws :
         ledger' = Append(ledger, [run |-> call[p].run, contract |-> call[p].contract,
                                   manifest |-> call[p].manifest,
                                   previous |-> call[p].previous, flaws |-> flaws])
  BY DEF InsertEvent
<1> DEFINE e == [run |-> call[p].run, contract |-> call[p].contract,
                 manifest |-> call[p].manifest, previous |-> call[p].previous,
                 flaws |-> flaws]
<1>1. /\ call[p].op = "commit" /\ call[p].stage = Len(Kinds) + 2
      /\ ledger' = Append(ledger, e) /\ call' = [call EXCEPT ![p] = Idle]
      /\ UNCHANGED <<contracts, manifests, overtaken, rows, begun>>
      /\ overlapped \subseteq overlapped'
      /\ \A q \in Processes \ {p} : Inserting(q) => call[q].run \in overlapped'
  BY <1>0 DEF InsertEvent, Inserting, Goto, bounds
<1>2. CommitIsBacked(p) /\ ledger \in Seq(Kept)
  BY DEF LogInv
<1>3. e \in Kept
  <2>1. \A i \in DOMAIN Kinds : HasRow(Kinds[i], call[p])
    BY <1>1, <1>2, KindsAndChecks DEF CommitIsBacked
  <2>2. Backed(e)
    BY <1>1, <1>2, <2>1 DEF Backed, CommitIsBacked, HasRow
  <2> QED
    BY <1>1, <1>2, <2>2 DEF Kept, CommitIsBacked
<1>4. Kept' = Kept
  BY <1>1 DEF Kept, Backed, HasRow, KnownContracts, KnownManifests
<1>5. ledger' \in Seq(Kept')
  BY <1>1, <1>2, <1>3, <1>4
<1>6. e.run \in overlapped \/ e.previous = LatestHash(e.run)
  BY <1>1, <1>2 DEF CommitIsBacked, LatestHash
<1> HIDE DEF e
<1>a. /\ DOMAIN ledger' = 1..Len(ledger) + 1 /\ ledger'[Len(ledger) + 1] = e
      /\ Len(ledger) \in Nat /\ DOMAIN ledger = 1..Len(ledger)
      /\ \A i \in 1..Len(ledger) : ledger'[i] = ledger[i]
  BY <1>1, <1>2
<1>7. ASSUME NEW i \in DOMAIN ledger'
      PROVE  Linked(i)'
  <2>2. CASE i \in 1..Len(ledger)
    <3>1. Linked(i)
      BY <1>a, <2>2 DEF LogInv
    <3>2. i # 1 => i - 1 \in 1..Len(ledger)
      BY <1>a, <2>2
    <3> QED
      BY <1>1, <1>a, <2>2, <3>1, <3>2 DEF Linked
  <2>3. CASE i = Len(ledger) + 1 /\ e.run \in overlapped
    BY <1>1, <1>a, <2>3 DEF Linked
  <2>4. CASE i = Len(ledger) + 1 /\ e.previous = LatestHash(e.run)
    <3>1. CASE ledger = << >>
      BY <3>1, <1>a, <2>4 DEF LatestHash, Linked
    <3>2. CASE ledger # << >>
      <4>1. Len(ledger) # 0
        BY <3>2, <1>2
      <4>2. Last(ledger) = ledger[Len(ledger)]
        BY DEF Last
      <4>3. e.previous = Hash(ledger[Len(ledger)])
        BY <3>2, <4>2, <2>4 DEF LatestHash
      <4>4. i # 1 /\ i - 1 = Len(ledger) /\ Len(ledger) \in 1..Len(ledger)
        BY <1>a, <2>4, <4>1
      <4> QED
        BY <1>a, <2>4, <4>3, <4>4 DEF Linked
    <3> QED
      BY <3>1, <3>2
  <2> QED
    BY <1>6, <1>a, <2>2, <2>3, <2>4
<1>8. call'[p] = Idle /\ \A q \in Processes \ {p} : call'[q] = call[q]
  BY <1>1 DEF RecordInv
<1>9. Idle.op = "idle"
  BY DEF Idle
<1>10. Entries \subseteq Entries'
  BY <1>a DEF Entries
<1>11. ASSUME NEW q \in Processes
       PROVE  CommitIsBacked(q)' /\ AuditIsBacked(q)'
  <2>1. CASE q = p
    BY <2>1, <1>8, <1>9 DEF CommitIsBacked, AuditIsBacked
  <2>2. CASE q # p
    <3>1. call'[q] = call[q] /\ CommitIsBacked(q) /\ AuditIsBacked(q)
      BY <2>2, <1>8 DEF LogInv
    <3>2. CommitIsBacked(q)'
      BY <3>1, <1>1, <2>2, CommitStays
    <3>3. \A s \in Seq(Entries) : s \in Seq(Entries')
      <4> HIDE DEF Entries
      <4> QED
        BY <1>10
    <3>4. AuditIsBacked(q)'
      BY <3>1, <3>3 DEF AuditIsBacked
    <3> QED
      BY <3>2, <3>4
  <2> QED
    BY <2>1, <2>2
<1>12. \A i \in DOMAIN ledger : i \in DOMAIN ledger' /\ (Suspect(i) => Suspect(i)')
  BY <1>1, <1>a DEF Suspect, Faulty
<1>13. AuditAccusesTheFaulty'
  BY <1>8, <1>9, <1>12 DEF LogInv, AuditAccusesTheFaulty, Suspect
<1> QED
  BY <1>1, <1>5, <1>7, <1>11, <1>13 DEF LogInv

\* An event that is kept and has no fault passes every check of the audit.
LEMMA KeptIsConfirmed ==
    ASSUME OneRecord, NEW e \in Kept, ~Faulty(e), NEW i \in DOMAIN Checks
    PROVE  Confirmed(Checks[i], e)
<1>1. /\ e.contract \in contracts /\ e.manifest \in manifests
      /\ Fits(e.manifest, e.contract)
      /\ \A k \in 1..5 : HasRow(Kinds[k], e)
  BY KindsAndChecks DEF Kept, Backed, Faulty, KnownContracts, KnownManifests
<1>2. /\ HasRow("policy_decision", e) /\ HasRow("approval_grant", e)
      /\ HasRow("execution_ticket", e) /\ HasRow("sandbox_result", e) /\ HasRow("proof", e)
  BY <1>1 DEF Kinds
<1>3. CapabilityConfirms(e) /\ ExecutorConfirms(e)
  BY <1>1 DEF OneRecord, CapabilityConfirms, ExecutorConfirms, ContractOf, RecordedAs
<1>4. Checks[i] \in {"execution_ticket", "capability", "executor", "policy_decision",
                     "approval_grant", "sandbox_result", "proof"}
  BY DEF Checks
<1>5. SameDelta(e) /\ "late" \notin e.flaws
  BY DEF Faulty, SameDelta
<1> QED
  BY <1>2, <1>3, <1>4, <1>5
  DEF Confirmed, TicketConfirms, PolicyConfirms, GrantConfirms, ResultConfirms, ProofConfirms

LEMMA VerifyStep ==
    ASSUME LogInv, RecordInv, NEW p \in Processes, VerifyEvent(p)
    PROVE  LogInv'
<1> DEFINE audit == call[p]
           next == (audit.stage % Len(Checks)) + 1
           left == IF next = 1 THEN Tail(audit.events) ELSE audit.events
<1>1. /\ audit.op = "audit" /\ audit.stage \in 1..7
      /\ UNCHANGED <<contracts, manifests, overtaken, overlapped, rows, ledger, begun>>
  BY KindsAndChecks DEF VerifyEvent, tables, history, bounds
<1>2. /\ audit \in [op : {"audit"}, stage : 0..7, events : Seq(Entries)]
      /\ audit.events # << >>
  BY <1>1, KindsAndChecks DEF LogInv, AuditIsBacked
<1>3. Head(audit.events) \in Entries /\ Tail(audit.events) \in Seq(Entries)
  <2> HIDE DEF Entries
  <2> QED
    BY <1>2
<1>4. next \in 1..7
  BY <1>1, KindsAndChecks
<1>5. left \in Seq(Entries)
  BY <1>2, <1>3
<1>6. Entries' = Entries
  BY <1>1 DEF Entries
<1>7. Goto(p, IF ~Confirmed(Checks[audit.stage], Head(audit.events))
              THEN [audit EXCEPT !.op = "accuses"]
              ELSE IF left = << >> THEN Idle ELSE [audit EXCEPT !.stage = next, !.events = left])
  BY DEF VerifyEvent
<1> HIDE DEF audit, next, left
<1>8. CASE ~Confirmed(Checks[audit.stage], Head(audit.events))
  <2>1. PICK i \in DOMAIN ledger : Head(audit.events) = ledger[i]
    BY <1>3 DEF Entries
  <2>2. ledger[i] \in Kept
    BY <2>1 DEF LogInv
  <2>3. Faulty(ledger[i])
    BY <1>1, <1>8, <2>1, <2>2, KeptIsConfirmed, KindsAndChecks DEF RecordInv
  <2> DEFINE c == [audit EXCEPT !.op = "accuses"]
  <2>4. Goto(p, c) /\ c.op = "accuses"
    BY <1>2, <1>7, <1>8
  <2> HIDE DEF c
  <2>5. call'[p] = c => CommitIsBacked(p)' /\ AuditIsBacked(p)'
    BY <2>4 DEF CommitIsBacked, AuditIsBacked
  <2> QED
    BY <2>3, <2>4, <2>5, <1>1, LogGoesOn DEF LogInv, RecordInv
<1>9. CASE Confirmed(Checks[audit.stage], Head(audit.events)) /\ left = << >>
  <2>1. Goto(p, Idle) /\ Idle.op = "idle"
    BY <1>7, <1>9 DEF Idle
  <2> QED
    BY <2>1, <1>1, LogGoesOn DEF LogInv, RecordInv, CommitIsBacked, AuditIsBacked
<1>10. CASE Confirmed(Checks[audit.stage], Head(audit.events)) /\ left # << >>
  <2> DEFINE c == [audit EXCEPT !.stage = next, !.events = left]
  <2>1. Goto(p, c)
    BY <1>7, <1>10
  <2>2. c \in [op : {"audit"}, stage : 0..7, events : Seq(Entries)] /\ c.op = "audit"
           /\ c.events = left
    <3>1. next \in 0..7
      BY <1>4
    <3> QED
      BY <1>2, <1>5, <3>1, AuditGoesTo
  <2> HIDE DEF c
  <2>3. call'[p] = c => CommitIsBacked(p)' /\ AuditIsBacked(p)'
    BY <2>2, <1>6, <1>10, KindsAndChecks DEF CommitIsBacked, AuditIsBacked
  <2> QED
    BY <2>1, <2>2, <2>3, <1>1, LogGoesOn DEF LogInv, RecordInv
<1> QED
  BY <1>8, <1>9, <1>10

LEMMA LogStep ==
    ASSUME LogInv, RecordInv, [Next]_vars
    PROVE  LogInv'
<1>0. Idle.op = "idle" /\ DOMAIN call = Processes
  BY DEF Idle, RecordInv
<1>a. ASSUME NEW p \in Processes, NEW c, Goto(p, c),
             contracts \subseteq contracts', manifests \subseteq manifests', rows' = rows,
             overtaken \subseteq overtaken', overlapped' = overlapped,
             ledger' = ledger, begun' = begun, c.op \in {"idle", "capability", "executor"}
      PROVE  LogInv'
  BY <1>0, <1>a, LogGoesOn DEF LogInv, CommitIsBacked, AuditIsBacked
<1>1. CASE UNCHANGED <<tables, memory, call, history, bounds>>
  <2>1. UNCHANGED <<contracts, manifests, overtaken, overlapped, rows, ledger, call, begun>>
    BY <1>1 DEF tables, history, bounds
  <2>2. Kept' = Kept
    BY <2>1 DEF Kept, Backed, HasRow, KnownContracts, KnownManifests
  <2>3. \A q \in Processes : CommitIsBacked(q)'
    BY <2>1, CommitStays DEF LogInv
  <2>4. \A q \in Processes : AuditIsBacked(q)'
    BY <2>1 DEF LogInv, AuditIsBacked, Entries
  <2> QED
    BY <2>1, <2>2, <2>3, <2>4 DEF LogInv, AuditAccusesTheFaulty, Faulty, Linked
<1>2. ASSUME NEW p \in Processes, NEW c \in Contracts, BeginCapability(p, c)
      PROVE  LogInv'
  <2> DEFINE new == [op |-> "capability", stage |-> "check", it |-> c]
  <2>1. new.op = "capability"
    OBVIOUS
  <2>2. Goto(p, new) /\ UNCHANGED <<contracts, manifests, overtaken, overlapped, rows, ledger, begun>>
    BY <1>2 DEF BeginCapability, tables, history, bounds
  <2> HIDE DEF new
  <2> QED
    BY <2>1, <2>2, <1>a
<1>3. ASSUME NEW p \in Processes, NEW m \in Manifests, BeginExecutor(p, m)
      PROVE  LogInv'
  <2> DEFINE new == [op |-> "executor", stage |-> "check", it |-> m]
  <2>1. new.op = "executor"
    OBVIOUS
  <2>2. Goto(p, new) /\ UNCHANGED <<contracts, manifests, overtaken, overlapped, rows, ledger, begun>>
    BY <1>3 DEF BeginExecutor, tables, history, bounds
  <2> HIDE DEF new
  <2> QED
    BY <2>1, <2>2, <1>a
<1>4. ASSUME NEW p \in Processes,
             CheckCapability(p) \/ RecordCapability(p) \/ CheckExecutor(p) \/ RecordExecutor(p)
      PROVE  LogInv'
  <2>1. /\ call[p].op \in {"capability", "executor"}
        /\ Goto(p, Idle) \/ Goto(p, [call[p] EXCEPT !.stage = "insert"])
        /\ contracts \subseteq contracts' /\ manifests \subseteq manifests'
        /\ overtaken \subseteq overtaken' /\ overlapped' = overlapped
        /\ UNCHANGED <<rows, ledger, begun>>
    BY <1>4 DEF CheckCapability, RecordCapability, CheckExecutor, RecordExecutor, In, Register,
                Install, Overtaken, tables, history, bounds
  <2>2. "op" \in DOMAIN call[p]
    BY DEF RecordInv, Shaped
  <2>3. [call[p] EXCEPT !.stage = "insert"].op = call[p].op
    BY <2>2
  <2>5. CASE Goto(p, Idle)
    BY <2>1, <2>5, <1>0, <1>a
  <2>6. CASE Goto(p, [call[p] EXCEPT !.stage = "insert"])
    <3> DEFINE c == [call[p] EXCEPT !.stage = "insert"]
    <3>1. Goto(p, c) /\ c.op \in {"capability", "executor"}
      BY <2>1, <2>3, <2>6
    <3> HIDE DEF c
    <3> QED
      BY <3>1, <2>1, <1>a
  <2> QED
    BY <2>1, <2>5, <2>6
<1>5. ASSUME NEW p \in Processes, BeginCommit(p)
      PROVE  LogInv'
  <2>1. PICK k \in registry[p] : \E m \in ExecutorOf(executors[p], k.capability) :
            Goto(p, [op |-> "commit", stage |-> 1, run |-> begun + 1, contract |-> k,
                     manifest |-> m, previous |-> << >>])
    BY <1>5 DEF BeginCommit
  <2>2. PICK m \in ExecutorOf(executors[p], k.capability) :
            Goto(p, [op |-> "commit", stage |-> 1, run |-> begun + 1, contract |-> k,
                     manifest |-> m, previous |-> << >>])
    BY <2>1
  <2> DEFINE c == [op |-> "commit", stage |-> 1, run |-> begun + 1, contract |-> k,
                   manifest |-> m, previous |-> << >>]
  <2>3. /\ UNCHANGED <<contracts, manifests, overtaken, overlapped, rows, ledger>>
        /\ begun' \in Nat /\ begun + 1 \in Nat
    BY <1>5 DEF BeginCommit, tables, history, LogInv
  <2>4. k \in KnownContracts /\ m \in KnownManifests /\ Fits(m, k)
    BY <2>1, <2>2 DEF RecordInv, InMemory, ExecutorOf
  <2>5. /\ c \in [op : {"commit"}, stage : 1..Len(Kinds) + 2, run : Nat,
                  contract : KnownContracts, manifest : KnownManifests, previous : Seq(Nat)]
        /\ c.op = "commit" /\ c.stage = 1 /\ c.contract = k /\ c.manifest = m
        /\ Goto(p, c)
    BY <2>2, <2>3, <2>4, KindsAndChecks
  <2> HIDE DEF c
  <2>6. call'[p] = c => CommitIsBacked(p)' /\ AuditIsBacked(p)'
    BY <2>3, <2>4, <2>5, KindsAndChecks
    DEF CommitIsBacked, AuditIsBacked, KnownContracts, KnownManifests
  <2> QED
    BY <2>3, <2>5, <2>6, <1>0, LogGoesOn
<1>6. ASSUME NEW p \in Processes, RecordRow(p)
      PROVE  LogInv'
  <2> DEFINE c == [call[p] EXCEPT !.stage = @ + 1]
             row == Row(Kinds[call[p].stage], call[p].run, call[p].contract, call[p].manifest)
  <2>1. /\ call[p].op = "commit" /\ call[p].stage \in 1..5 /\ Goto(p, c)
        /\ rows' = rows \union {row}
        /\ UNCHANGED <<contracts, manifests, overtaken, overlapped, ledger, begun>>
    BY <1>6, KindsAndChecks DEF RecordRow, history, bounds
  <2>2. CommitIsBacked(p)
    BY DEF LogInv
  <2>3. /\ c \in [op : {"commit"}, stage : 1..7, run : Nat,
                  contract : KnownContracts, manifest : KnownManifests, previous : Seq(Nat)]
        /\ c.op = "commit" /\ c.stage = call[p].stage + 1 /\ c.contract = call[p].contract
        /\ c.manifest = call[p].manifest /\ c.run = call[p].run
    <3>1. call[p] \in [op : {"commit"}, stage : 1..7, run : Nat, contract : KnownContracts,
                       manifest : KnownManifests, previous : Seq(Nat)]
      BY <2>1, <2>2, KindsAndChecks DEF CommitIsBacked
    <3>2. call[p].stage + 1 \in 1..7
      BY <2>1
    <3> QED
      BY <3>1, <3>2, CommitAdvances
  <2>4. \A i \in 1..5 : i < c.stage => Row(Kinds[i], c.run, c.contract, c.manifest) \in rows'
    <3> SUFFICES ASSUME NEW i \in 1..5, i < c.stage
                 PROVE  Row(Kinds[i], c.run, c.contract, c.manifest) \in rows'
      OBVIOUS
    <3>1. CASE i = call[p].stage
      BY <3>1, <2>1, <2>3
    <3>2. CASE i < call[p].stage
      BY <3>2, <2>1, <2>2, <2>3, KindsAndChecks DEF CommitIsBacked, HasRow
    <3>3. i = call[p].stage \/ i < call[p].stage
      BY <2>1, <2>3
    <3> QED
      BY <3>1, <3>2, <3>3
  <2>5. Fits(c.manifest, c.contract) /\ c.stage # 7
    BY <2>1, <2>2, <2>3 DEF CommitIsBacked
  <2> HIDE DEF c, row
  <2>7. call'[p] = c => CommitIsBacked(p)' /\ AuditIsBacked(p)'
    BY <2>1, <2>3, <2>4, <2>5, KindsAndChecks
    DEF CommitIsBacked, AuditIsBacked, HasRow, KnownContracts, KnownManifests
  <2> QED
    BY <2>1, <2>3, <2>7, <1>0, LogGoesOn DEF LogInv
<1>7. ASSUME NEW p \in Processes, ReadLatestHash(p)
      PROVE  LogInv'
  <2> DEFINE c == [call[p] EXCEPT !.stage = @ + 1, !.previous = LatestHash(call[p].run)]
  <2>1. /\ call[p].op = "commit" /\ call[p].stage = 6 /\ Goto(p, c)
        /\ UNCHANGED <<contracts, manifests, overtaken, overlapped, rows, ledger, begun>>
    BY <1>7, KindsAndChecks DEF ReadLatestHash, tables, history, bounds
  <2>2. CommitIsBacked(p) /\ ledger \in Seq(Kept)
    BY DEF LogInv
  <2>3. LatestHash(call[p].run) \in Seq(Nat)
    BY <2>2, LatestHashIsHash
  <2>4. /\ c \in [op : {"commit"}, stage : 1..7, run : Nat,
                  contract : KnownContracts, manifest : KnownManifests, previous : Seq(Nat)]
        /\ c.op = "commit" /\ c.stage = 7 /\ c.contract = call[p].contract
        /\ c.manifest = call[p].manifest /\ c.run = call[p].run
        /\ c.previous = LatestHash(call[p].run)
    <3>1. call[p] \in [op : {"commit"}, stage : 1..7, run : Nat, contract : KnownContracts,
                       manifest : KnownManifests, previous : Seq(Nat)]
      BY <2>1, <2>2, KindsAndChecks DEF CommitIsBacked
    <3>2. c = [call[p] EXCEPT !.stage = 7, !.previous = LatestHash(call[p].run)]
      BY <2>1
    <3>3. 7 \in 1..7
      OBVIOUS
    <3> HIDE DEF c
    <3> QED
      BY <2>3, <3>1, <3>2, <3>3, CommitGoesTo
  <2>5. \A i \in 1..5 : Row(Kinds[i], c.run, c.contract, c.manifest) \in rows
    BY <2>1, <2>2, <2>4, KindsAndChecks DEF CommitIsBacked, HasRow
  <2>6. Fits(c.manifest, c.contract)
    BY <2>1, <2>2, <2>4 DEF CommitIsBacked
  <2> HIDE DEF c
  <2>8. call'[p] = c => CommitIsBacked(p)' /\ AuditIsBacked(p)'
    BY <2>1, <2>4, <2>5, <2>6, KindsAndChecks
    DEF CommitIsBacked, AuditIsBacked, HasRow, LatestHash, KnownContracts, KnownManifests
  <2> QED
    BY <2>1, <2>4, <2>8, <1>0, LogGoesOn DEF LogInv
<1>8. ASSUME NEW p \in Processes, BeginAudit(p)
      PROVE  LogInv'
  <2> DEFINE c == [op |-> IF ChainHolds(ledger) THEN "audit" ELSE "accuses", stage |-> 0,
                   events |-> << >>]
  <2>1. Goto(p, c) /\ UNCHANGED <<contracts, manifests, overtaken, overlapped, rows, ledger, begun>>
    BY <1>8 DEF BeginAudit, tables, history
  <2>2. c.op = "accuses" => ~ChainHolds(ledger)
    OBVIOUS
  <2>3. c.op = "accuses" => \E i \in DOMAIN ledger : Faulty(ledger[i])
    BY <2>2 DEF ChainHolds, LogInv, Linked, Faulty
  <2>4. /\ c.op \in {"audit", "accuses"} /\ c.stage = 0
        /\ c.op = "audit" => c \in [op : {"audit"}, stage : 0..7, events : Seq(Entries')]
    OBVIOUS
  <2> HIDE DEF c
  <2>5. call'[p] = c => CommitIsBacked(p)' /\ AuditIsBacked(p)'
    BY <2>4, KindsAndChecks DEF CommitIsBacked, AuditIsBacked
  <2> QED
    BY <2>1, <2>3, <2>5, <1>0, LogGoesOn DEF LogInv
<1>9. ASSUME NEW p \in Processes, ReadEvents(p)
      PROVE  LogInv'
  <2>1. /\ call[p].op = "audit" /\ UNCHANGED <<contracts, manifests, overtaken, overlapped, rows, ledger, begun>>
        /\ Goto(p, IF ledger = << >> THEN Idle
                   ELSE [call[p] EXCEPT !.stage = 1, !.events = ledger])
    BY <1>9 DEF ReadEvents, In, tables, history, bounds
  <2>2. CASE ledger = << >>
    BY <2>1, <2>2, <1>0, <1>a
  <2>3. CASE ledger # << >>
    <3> DEFINE c == [call[p] EXCEPT !.stage = 1, !.events = ledger]
    <3>1. call[p] \in [op : {"audit"}, stage : 0..7, events : Seq(Entries)]
      BY <2>1, KindsAndChecks DEF LogInv, AuditIsBacked
    <3>2. ledger \in Seq(Entries)
      BY DEF LogInv, Entries
    <3>3. /\ c \in [op : {"audit"}, stage : 0..7, events : Seq(Entries)] /\ c.op = "audit"
          /\ c.events = ledger
      <4>1. 1 \in 0..7
        OBVIOUS
      <4> QED
        BY <3>1, <3>2, <4>1, AuditGoesTo
    <3>4. Entries' = Entries
      BY <2>1 DEF Entries
    <3>5. Goto(p, c)
      BY <2>1, <2>3
    <3> HIDE DEF c
    <3>6. call'[p] = c => CommitIsBacked(p)' /\ AuditIsBacked(p)'
      BY <3>3, <3>4, <2>3, KindsAndChecks DEF CommitIsBacked, AuditIsBacked
    <3> QED
      BY <3>3, <3>5, <3>6, <2>1, <1>0, LogGoesOn DEF LogInv
  <2> QED
    BY <2>2, <2>3
<1>10. ASSUME NEW p \in Processes, Fail(p) \/ Die(p)
       PROVE  LogInv'
  BY <1>0, <1>10, <1>a DEF Fail, Die, tables, history, bounds
<1>11. ASSUME NEW p \in Processes, OpenStep(p)
       PROVE  LogInv'
  BY <1>1, <1>11 DEF OpenStep
<1>12. CASE UNCHANGED vars
  BY <1>1, <1>12 DEF vars
<1> QED
  BY <1>2, <1>3, <1>4, <1>5, <1>6, <1>7, <1>8, <1>9, <1>10, <1>11, <1>12, EventStep, VerifyStep
  DEF Next

LEMMA LogInit == Init => LogInv
<1> SUFFICES ASSUME Init
             PROVE  LogInv
  OBVIOUS
<1>1. (\A p \in Processes : call[p] = Idle) /\ Idle.op = "idle"
  BY DEF Init, Idle
<1>2. ledger \in Seq(Kept) /\ DOMAIN ledger = {} /\ begun \in Nat
  BY DEF Init
<1> QED
  BY <1>1, <1>2 DEF LogInv, CommitIsBacked, AuditIsBacked, AuditAccusesTheFaulty

\* When writing calls take turns, the audit finds no fault with what kernels wrote

\* The audit accuses only a ledger with a faulty event (AuditAccusesTheFaulty), whatever
\* is written between its reads, however commits interleave, and whoever died.
THEOREM OnlyTheFaultyAccused == Spec => []AuditAccusesTheFaulty
<1>1. RecordInv /\ LogInv /\ [Next]_vars => RecordInv' /\ LogInv'
  BY RecordStep, LogStep
<1>2. LogInv => AuditAccusesTheFaulty
  BY DEF LogInv
<1> QED
  BY <1>1, <1>2, RecordInit, LogInit, PTL DEF Spec

-----------------------------------------------------------------------------
(* The store implements the trail.                                          *)

\* A run is given out once: its rows are those of the stages behind its commit,
\* it has no event while the commit is under way, and the hash the commit has read is
\* that of an event, or none.
OwnsItsRun(p) ==
    call[p].op = "commit" =>
        /\ call[p].run \in 1..begun
        /\ call[p].contract \in registry[p] /\ call[p].manifest \in executors[p]
        /\ \A i \in DOMAIN ledger : ledger[i].run # call[p].run
        /\ \A row \in rows : row.run = call[p].run =>
              \E i \in DOMAIN Kinds : i < call[p].stage /\ row.kind = Kinds[i]
        /\ call[p].stage = Len(Kinds) + 2 =>
              \E k \in 0..Len(ledger) :
                  call[p].previous = IF k = 0 THEN << >> ELSE Hash(ledger[k])

OneCommitPerRun ==
    \A p, q \in Processes :
        call[p].op = "commit" /\ call[q].op = "commit" /\ call[p].run = call[q].run => p = q

Offered(p) ==
    /\ call[p].op = "capability" => call[p].it \in Contracts
    /\ call[p].op = "executor" => call[p].it \in Manifests

TrailInv ==
    /\ begun \in 0..MaxRuns
    /\ \A row \in rows : row.run \in 1..begun
    /\ \A i \in DOMAIN ledger : ledger[i].run \in 1..begun
    /\ OneCommitPerRun
    /\ \A p \in Processes : OwnsItsRun(p) /\ Offered(p)

\* A step of p outside of its commit.
LEMMA TrailGoesOn ==
    ASSUME TrailInv, DOMAIN call = Processes, NEW p \in Processes, NEW c, Goto(p, c),
           UNCHANGED <<rows, ledger, begun>>, c.op # "commit",
           c.op = "capability" => c.it \in Contracts, c.op = "executor" => c.it \in Manifests,
           \A q \in Processes \ {p} : registry'[q] = registry[q] /\ executors'[q] = executors[q]
    PROVE  TrailInv'
<1>1. call'[p] = c /\ \A q \in Processes \ {p} : call'[q] = call[q]
  BY DEF Goto
<1>2. ASSUME NEW q \in Processes
      PROVE  OwnsItsRun(q)' /\ Offered(q)'
  <2>1. CASE q = p
    BY <2>1, <1>1 DEF OwnsItsRun, Offered
  <2>2. CASE q # p
    <3>1. call'[q] = call[q] /\ registry'[q] = registry[q] /\ executors'[q] = executors[q]
      BY <1>1, <2>2
    <3>2. OwnsItsRun(q) /\ Offered(q)
      BY DEF TrailInv
    <3> QED
      BY <3>1, <3>2 DEF OwnsItsRun, Offered
  <2> QED
    BY <2>1, <2>2
<1>3. OneCommitPerRun'
  BY <1>1 DEF TrailInv, OneCommitPerRun
<1> QED
  BY <1>2, <1>3 DEF TrailInv

LEMMA TrailStep ==
    ASSUME TrailInv, LogInv, RecordInv, [Next]_vars
    PROVE  TrailInv'
<1>0. Idle.op = "idle" /\ DOMAIN call = Processes /\ DOMAIN registry = Processes
         /\ DOMAIN executors = Processes
  BY DEF Idle, RecordInv
\* The other commits are of other runs.
<1>a. ASSUME NEW p \in Processes, call[p].op = "commit", NEW q \in Processes \ {p}
      PROVE  /\ OwnsItsRun(q) /\ Offered(q)
             /\ call[q].op = "commit" => call[q].run # call[p].run
  BY <1>a DEF TrailInv, OneCommitPerRun
\* A commit that goes on is still the only one of its run.
<1>b. ASSUME NEW p \in Processes, \A q \in Processes \ {p} : call'[q] = call[q],
             call'[p].op = "commit" => call[p].op = "commit" /\ call'[p].run = call[p].run
      PROVE  OneCommitPerRun'
  BY <1>b DEF TrailInv, OneCommitPerRun
<1>1. CASE UNCHANGED <<tables, memory, call, bounds>>
  BY <1>1 DEF tables, memory, bounds, TrailInv, OwnsItsRun, OneCommitPerRun, Offered
<1>2. ASSUME NEW p \in Processes, NEW c \in Contracts, BeginCapability(p, c)
      PROVE  TrailInv'
  <2> DEFINE new == [op |-> "capability", stage |-> "check", it |-> c]
  <2>1. new.op = "capability" /\ new.it = c
    OBVIOUS
  <2>2. Goto(p, new) /\ UNCHANGED <<rows, ledger, begun, registry, executors>>
    BY <1>2 DEF BeginCapability, tables, bounds, memory
  <2> HIDE DEF new
  <2> QED
    BY <2>1, <2>2, <1>0, TrailGoesOn
<1>3. ASSUME NEW p \in Processes, NEW m \in Manifests, BeginExecutor(p, m)
      PROVE  TrailInv'
  <2> DEFINE new == [op |-> "executor", stage |-> "check", it |-> m]
  <2>1. new.op = "executor" /\ new.it = m
    OBVIOUS
  <2>2. Goto(p, new) /\ UNCHANGED <<rows, ledger, begun, registry, executors>>
    BY <1>3 DEF BeginExecutor, tables, bounds, memory
  <2> HIDE DEF new
  <2> QED
    BY <2>1, <2>2, <1>0, TrailGoesOn
<1>4. ASSUME NEW p \in Processes,
             CheckCapability(p) \/ RecordCapability(p) \/ CheckExecutor(p) \/ RecordExecutor(p)
      PROVE  TrailInv'
  <2>1. /\ call[p].op \in {"capability", "executor"}
        /\ Goto(p, Idle) \/ Goto(p, [call[p] EXCEPT !.stage = "insert"])
        /\ UNCHANGED <<rows, ledger, begun>>
        /\ \A q \in Processes \ {p} : registry'[q] = registry[q] /\ executors'[q] = executors[q]
    BY <1>0, <1>4 DEF CheckCapability, RecordCapability, CheckExecutor, RecordExecutor, In,
                      Register, Install, tables, bounds
  <2>2. DOMAIN call[p] = {"op", "stage", "it"}
    BY <2>1 DEF RecordInv, Shaped, Registering
  <2>3. CASE Goto(p, Idle)
    BY <2>1, <2>3, <1>0, TrailGoesOn
  <2>4. CASE Goto(p, [call[p] EXCEPT !.stage = "insert"])
    <3> DEFINE c == [call[p] EXCEPT !.stage = "insert"]
    <3>1. Goto(p, c) /\ c.op = call[p].op /\ c.it = call[p].it
      BY <2>2, <2>4
    <3>2. Offered(p)
      BY DEF TrailInv
    <3> HIDE DEF c
    <3> QED
      BY <3>1, <3>2, <2>1, <1>0, TrailGoesOn DEF Offered
  <2> QED
    BY <2>1, <2>3, <2>4
<1>5. ASSUME NEW p \in Processes, BeginCommit(p)
      PROVE  TrailInv'
  <2>1. PICK k \in registry[p] : \E m \in ExecutorOf(executors[p], k.capability) :
            Goto(p, [op |-> "commit", stage |-> 1, run |-> begun + 1, contract |-> k,
                     manifest |-> m, previous |-> << >>])
    BY <1>5 DEF BeginCommit
  <2>2. PICK m \in ExecutorOf(executors[p], k.capability) :
            Goto(p, [op |-> "commit", stage |-> 1, run |-> begun + 1, contract |-> k,
                     manifest |-> m, previous |-> << >>])
    BY <2>1
  <2>3. /\ call'[p].op = "commit" /\ call'[p].run = begun + 1 /\ call'[p].contract = k
        /\ call'[p].manifest = m
        /\ call'[p].stage = 1 /\ \A q \in Processes \ {p} : call'[q] = call[q]
    BY <2>2, <1>0, <1>5 DEF Goto, BeginCommit
  <2>4. /\ UNCHANGED <<rows, ledger, registry, executors>>
        /\ begun \in Nat /\ begun < MaxRuns /\ begun' = begun + 1
    BY <1>5, RunsAssumption DEF BeginCommit, tables, memory, TrailInv
  <2>5. begun' \in 0..MaxRuns /\ 1..begun \subseteq 1..begun' /\ begun + 1 \in 1..begun'
           /\ begun + 1 \notin 1..begun
    BY <2>4, RunsAssumption
  <2>6. /\ \A row \in rows' : row.run \in 1..begun' /\ row.run # begun + 1
        /\ \A i \in DOMAIN ledger' : ledger'[i].run \in 1..begun' /\ ledger'[i].run # begun + 1
    BY <2>4, <2>5 DEF TrailInv
  <2>7. ASSUME NEW q \in Processes
        PROVE  OwnsItsRun(q)' /\ Offered(q)'
    <3>1. CASE q = p
      BY <3>1, <2>3, <2>4, <2>5, <2>6, KindsAndChecks DEF OwnsItsRun, Offered, ExecutorOf
    <3>2. CASE q # p
      <4>1. call'[q] = call[q] /\ OwnsItsRun(q) /\ Offered(q)
        BY <3>2, <2>3 DEF TrailInv
      <4> QED
        BY <4>1, <2>4, <2>5 DEF OwnsItsRun, Offered
    <3> QED
      BY <3>1, <3>2
  <2>8. OneCommitPerRun'
    <3>1. \A q \in Processes \ {p} : call'[q].op = "commit" => call'[q].run # begun + 1
      BY <2>3, <2>5 DEF TrailInv, OwnsItsRun
    <3> QED
      BY <3>1, <2>3 DEF TrailInv, OneCommitPerRun
  <2> QED
    BY <2>5, <2>6, <2>7, <2>8 DEF TrailInv
<1>6. ASSUME NEW p \in Processes, RecordRow(p)
      PROVE  TrailInv'
  <2> DEFINE c == [call[p] EXCEPT !.stage = @ + 1]
             row == Row(Kinds[call[p].stage], call[p].run, call[p].contract, call[p].manifest)
  <2>1. /\ call[p].op = "commit" /\ call[p].stage \in 1..5 /\ Goto(p, c)
        /\ rows' = rows \union {row}
        /\ UNCHANGED <<ledger, begun, registry, executors>>
    BY <1>6, KindsAndChecks DEF RecordRow, bounds, memory
  <2>2. /\ c.op = "commit" /\ c.stage = call[p].stage + 1 /\ c.contract = call[p].contract
        /\ c.manifest = call[p].manifest /\ c.run = call[p].run
    <3>1. call[p] \in [op : {"commit"}, stage : 1..7, run : Nat, contract : KnownContracts,
                       manifest : KnownManifests, previous : Seq(Nat)]
      BY <2>1, KindsAndChecks DEF LogInv, CommitIsBacked
    <3>2. call[p].stage + 1 \in 1..7
      BY <2>1
    <3> QED
      BY <3>1, <3>2, CommitAdvances
  <2>3. row.kind = Kinds[call[p].stage] /\ row.run = call[p].run
    BY DEF Row
  <2> HIDE DEF c, row
  <2>4. /\ call'[p] = c
        /\ \A q \in Processes \ {p} : call'[q] = call[q]
    BY <2>1, <1>0 DEF Goto
  <2>5. OwnsItsRun(p)
    BY DEF TrailInv
  <2>6. OwnsItsRun(p)'
    <3>1. ASSUME NEW r \in rows', r.run = c.run
          PROVE  \E i \in DOMAIN Kinds : i < c.stage /\ r.kind = Kinds[i]
      <4>1. CASE r = row
        BY <4>1, <2>1, <2>2, <2>3, KindsAndChecks
      <4>2. CASE r \in rows
        <5>1. PICK i \in DOMAIN Kinds : i < call[p].stage /\ r.kind = Kinds[i]
          BY <4>2, <3>1, <2>1, <2>2, <2>5 DEF OwnsItsRun
        <5>2. i < c.stage
          BY <5>1, <2>1, <2>2, KindsAndChecks
        <5> QED
          BY <5>1, <5>2
      <4> QED
        BY <4>1, <4>2, <2>1
    <3>2. c.stage # Len(Kinds) + 2
      BY <2>1, <2>2, KindsAndChecks
    <3> QED
      BY <3>1, <3>2, <2>1, <2>2, <2>4, <2>5 DEF OwnsItsRun
  <2>7. ASSUME NEW q \in Processes
        PROVE  OwnsItsRun(q)' /\ Offered(q)'
    <3>1. CASE q = p
      BY <3>1, <2>2, <2>4, <2>6 DEF Offered
    <3>2. CASE q # p
      <4>1. /\ call'[q] = call[q] /\ OwnsItsRun(q) /\ Offered(q)
            /\ call[q].op = "commit" => call[q].run # row.run
        BY <3>2, <2>1, <2>3, <2>4, <1>a
      <4> QED
        BY <4>1, <2>1 DEF OwnsItsRun, Offered
    <3> QED
      BY <3>1, <3>2
  <2>8. \A r \in rows' : r.run \in 1..begun'
    BY <2>1, <2>3, <2>5 DEF TrailInv, OwnsItsRun
  <2>9. OneCommitPerRun'
    BY <2>1, <2>2, <2>4, <1>b
  <2> QED
    BY <2>1, <2>7, <2>8, <2>9 DEF TrailInv
<1>7. ASSUME NEW p \in Processes, ReadLatestHash(p)
      PROVE  TrailInv'
  <2> DEFINE c == [call[p] EXCEPT !.stage = @ + 1, !.previous = LatestHash(call[p].run)]
  <2>1. /\ call[p].op = "commit" /\ call[p].stage = 6 /\ Goto(p, c)
        /\ UNCHANGED <<rows, ledger, begun, registry, executors>>
    BY <1>7, KindsAndChecks DEF ReadLatestHash, tables, bounds, memory
  <2>2. call[p] \in [op : {"commit"}, stage : 1..7, run : Nat, contract : KnownContracts,
                     manifest : KnownManifests, previous : Seq(Nat)]
    BY <2>1, KindsAndChecks DEF LogInv, CommitIsBacked
  <2>3. c.op = "commit" /\ c.stage = 7 /\ c.contract = call[p].contract
           /\ c.manifest = call[p].manifest /\ c.run = call[p].run
           /\ c.previous = LatestHash(call[p].run)
    BY <2>1, <2>2
  <2> HIDE DEF c
  <2>4. /\ call'[p] = c
        /\ \A q \in Processes \ {p} : call'[q] = call[q]
    BY <2>1, <1>0 DEF Goto
  <2>5. \A i \in DOMAIN Kinds : i < 6 => i < 7
    BY KindsAndChecks
  <2>a. \E k \in 0..Len(ledger) : c.previous = IF k = 0 THEN << >> ELSE Hash(ledger[k])
    <3>1. Len(ledger) \in Nat /\ (ledger # << >> => Len(ledger) # 0)
      BY DEF LogInv
    <3>2. CASE ledger = << >>
      <4>1. c.previous = << >> /\ 0 \in 0..Len(ledger)
        BY <2>3, <3>1, <3>2 DEF LatestHash
      <4> QED
        BY <4>1
    <3>3. CASE ledger # << >>
      <4>1. c.previous = Hash(ledger[Len(ledger)])
        BY <2>3, <3>3 DEF LatestHash, Last
      <4> QED
        BY <4>1, <3>1, <3>3
    <3> QED
      BY <3>2, <3>3
  <2>6. OwnsItsRun(p)'
    <3>1. OwnsItsRun(p)
      BY DEF TrailInv
    <3> QED
      BY <3>1, <2>1, <2>3, <2>4, <2>5, <2>a DEF OwnsItsRun
  <2>7. ASSUME NEW q \in Processes
        PROVE  OwnsItsRun(q)' /\ Offered(q)'
    <3>1. CASE q = p
      BY <3>1, <2>3, <2>4, <2>6 DEF Offered
    <3>2. CASE q # p
      BY <3>2, <2>1, <2>4 DEF TrailInv, OwnsItsRun, Offered
    <3> QED
      BY <3>1, <3>2
  <2>8. OneCommitPerRun'
    BY <2>1, <2>3, <2>4, <1>b
  <2> QED
    BY <2>1, <2>7, <2>8 DEF TrailInv
<1>8. ASSUME NEW p \in Processes, InsertEvent(p)
      PROVE  TrailInv'
  <2>0. PICK flaws \in Flaws :
           ledger' = Append(ledger, [run |-> call[p].run, contract |-> call[p].contract,
                                     manifest |-> call[p].manifest,
                                     previous |-> call[p].previous, flaws |-> flaws])
    BY <1>8 DEF InsertEvent
  <2> DEFINE e == [run |-> call[p].run, contract |-> call[p].contract,
                   manifest |-> call[p].manifest, previous |-> call[p].previous,
                   flaws |-> flaws]
  <2>1. /\ call[p].op = "commit" /\ Goto(p, Idle) /\ ledger' = Append(ledger, e)
        /\ UNCHANGED <<rows, begun, registry, executors>> /\ e.run = call[p].run
    BY <2>0, <1>8 DEF InsertEvent, Inserting, bounds, memory
  <2> HIDE DEF e
  <2>2. /\ DOMAIN ledger' = 1..Len(ledger) + 1 /\ ledger'[Len(ledger) + 1] = e
        /\ Len(ledger) \in Nat /\ DOMAIN ledger = 1..Len(ledger)
        /\ \A i \in 1..Len(ledger) : ledger'[i] = ledger[i]
    BY <2>1 DEF LogInv
  <2>3. call[p].run \in 1..begun
    BY <2>1 DEF TrailInv, OwnsItsRun
  <2>4. \A i \in DOMAIN ledger' : ledger'[i].run \in 1..begun'
    BY <2>1, <2>2, <2>3 DEF TrailInv
  <2>5. call'[p] = Idle /\ \A q \in Processes \ {p} : call'[q] = call[q]
    BY <2>1, <1>0 DEF Goto
  <2>6. ASSUME NEW q \in Processes
        PROVE  OwnsItsRun(q)' /\ Offered(q)'
    <3>1. CASE q = p
      BY <3>1, <2>5, <1>0 DEF OwnsItsRun, Offered
    <3>2. CASE q # p
      <4>1. /\ call'[q] = call[q] /\ OwnsItsRun(q) /\ Offered(q)
            /\ call[q].op = "commit" => call[q].run # e.run
        BY <3>2, <2>1, <2>5, <1>a
      <4>2. call[q].op = "commit" => \A i \in DOMAIN ledger' : ledger'[i].run # call[q].run
        BY <4>1, <2>2 DEF OwnsItsRun
      <4>3. ASSUME NEW k \in 0..Len(ledger)
            PROVE  /\ k \in 0..Len(ledger')
                   /\ (IF k = 0 THEN << >> ELSE Hash(ledger'[k]))
                         = (IF k = 0 THEN << >> ELSE Hash(ledger[k]))
        <5>1. Len(ledger') = Len(ledger) + 1 /\ Len(ledger) \in Nat
          BY <2>1, <2>2 DEF LogInv
        <5>2. k # 0 => k \in 1..Len(ledger)
          BY <5>1
        <5> QED
          BY <5>1, <5>2, <2>2
      <4>4. call[q].op = "commit" /\ call[q].stage = Len(Kinds) + 2 =>
               \E k \in 0..Len(ledger') :
                   call[q].previous = IF k = 0 THEN << >> ELSE Hash(ledger'[k])
        BY <4>1, <4>3 DEF OwnsItsRun
      <4> QED
        BY <4>1, <4>2, <4>4, <2>1 DEF OwnsItsRun, Offered
    <3> QED
      BY <3>1, <3>2
  <2>7. OneCommitPerRun'
    BY <2>5, <1>0, <1>b
  <2> QED
    BY <2>1, <2>4, <2>6, <2>7 DEF TrailInv
<1>9. ASSUME NEW p \in Processes, BeginAudit(p) \/ ReadEvents(p) \/ VerifyEvent(p) \/ Fail(p)
      PROVE  TrailInv'
  <2>1. UNCHANGED <<rows, ledger, begun, registry, executors>>
    BY <1>9 DEF BeginAudit, ReadEvents, VerifyEvent, Fail, tables, bounds, memory
  <2>2. PICK c : Goto(p, c) /\ c.op \in {"idle", "audit", "accuses"}
    <3>1. CASE BeginAudit(p)
      BY <3>1 DEF BeginAudit
    <3>2. CASE ReadEvents(p)
      <4>1. call[p].op = "audit" /\ "op" \in DOMAIN call[p]
        BY <3>2 DEF ReadEvents, In, RecordInv, Shaped
      <4>2. [call[p] EXCEPT !.stage = 1, !.events = ledger].op = "audit"
        BY <4>1
      <4> QED
        BY <3>2, <4>2, <1>0 DEF ReadEvents
    <3>3. CASE VerifyEvent(p)
      <4>1. call[p].op = "audit" /\ "op" \in DOMAIN call[p]
        BY <3>3 DEF VerifyEvent, RecordInv, Shaped
      <4>2. /\ [call[p] EXCEPT !.op = "accuses"].op = "accuses"
            /\ \A s, l : [call[p] EXCEPT !.stage = s, !.events = l].op = "audit"
        BY <4>1
      <4>3. \E s, l, faulty, over :
               Goto(p, IF faulty THEN [call[p] EXCEPT !.op = "accuses"]
                       ELSE IF over THEN Idle
                       ELSE [call[p] EXCEPT !.stage = s, !.events = l])
        BY <3>3, Zenon DEF VerifyEvent
      <4> QED
        BY <4>2, <4>3, <1>0
    <3>4. CASE Fail(p)
      BY <3>4, <1>0 DEF Fail
    <3> QED
      BY <1>9, <3>1, <3>2, <3>3, <3>4
  <2> QED
    BY <2>1, <2>2, <1>0, TrailGoesOn
<1>10. ASSUME NEW p \in Processes, Die(p)
       PROVE  TrailInv'
  <2>1. /\ Goto(p, Idle) /\ UNCHANGED <<rows, ledger, begun>>
        /\ \A q \in Processes \ {p} : registry'[q] = registry[q] /\ executors'[q] = executors[q]
    BY <1>0, <1>10 DEF Die, tables, bounds
  <2> QED
    BY <2>1, <1>0, TrailGoesOn
<1>11. ASSUME NEW p \in Processes, OpenStep(p)
       PROVE  TrailInv'
  BY <1>1, <1>11 DEF OpenStep
<1>12. CASE UNCHANGED vars
  BY <1>1, <1>12 DEF vars
<1> QED
  BY <1>2, <1>3, <1>4, <1>5, <1>6, <1>7, <1>8, <1>9, <1>10, <1>11, <1>12 DEF Next

-----------------------------------------------------------------------------
\* The promise sees what a kernel has recorded, holds and has reported.
Told == <<contracts, manifests, overtaken, registry, executors, Authorised, Reported, Seals>>

\* What does not touch it.
LEMMA Untold ==
    ASSUME UNCHANGED <<contracts, manifests, overtaken, rows, ledger, registry, executors>>
    PROVE  UNCHANGED Told
BY DEF Told, Authorised, Proven, Reported, Seals, HasRow

LEMMA UntoldTables ==
    ASSUME UNCHANGED <<rows, ledger>>
    PROVE  UNCHANGED <<Authorised, Reported, Seals>>
BY DEF Authorised, Proven, Reported, Seals, HasRow

\* The action of a commit is authorised by its last row, and by none before.
LEMMA RowStep ==
    ASSUME TrailInv, LogInv, RecordInv, NEW p \in Processes, RecordRow(p)
    PROVE  [Promise!Next]_Told
<1> DEFINE stage == call[p].stage
           run == call[p].run
           c == call[p].contract
           m == call[p].manifest
           row == Row(Kinds[stage], run, c, m)
           act == [run |-> run, contract |-> c, manifest |-> m]
<1>1. /\ call[p].op = "commit" /\ stage \in 1..5 /\ rows' = rows \union {row}
      /\ UNCHANGED <<contracts, manifests, overtaken, ledger, registry, executors>>
  BY KindsAndChecks DEF RecordRow, history, bounds, memory
<1>2. /\ run \in 1..begun /\ c \in registry[p] /\ m \in executors[p] /\ Fits(m, c)
      /\ \A i \in 1..5 : i < stage => Row(Kinds[i], run, c, m) \in rows
      /\ \A r \in rows : r.run = run => \E i \in 1..5 : i < stage /\ r.kind = Kinds[i]
  BY <1>1, KindsAndChecks DEF TrailInv, OwnsItsRun, LogInv, CommitIsBacked, HasRow
<1>3. (\A i, j \in 1..5 : Kinds[i] = Kinds[j] => i = j) /\ Last(Kinds) = Kinds[5]
  BY DEF Kinds, Last
<1>4. row.run = run /\ row.kind = Kinds[stage] /\ row.contract = c /\ row.manifest = m
  BY DEF Row
<1>5. \A r \in rows : r.run = run => r.kind # Kinds[5]
  BY <1>1, <1>2, <1>3
<1>6. \A a \in Authorised : a.run # run
  <2> SUFFICES ASSUME NEW x \in rows, \A i \in DOMAIN Kinds : HasRow(Kinds[i], x), x.run = run
               PROVE  FALSE
    BY DEF Authorised, Proven, Action
  <2>1. Row(Kinds[5], x.run, x.contract, x.manifest) \in rows
    BY KindsAndChecks DEF HasRow
  <2> QED
    BY <2>1, <1>5 DEF Row
\* Another run's rows are as they were.
<1>7. \A x : x.run # run => \A i \in 1..5 : HasRow(Kinds[i], x)' <=> HasRow(Kinds[i], x)
  BY <1>1, <1>4 DEF HasRow, Row
<1>8. CASE stage < 5
  <2>1. Kinds[stage] # Kinds[5]
    BY <1>1, <1>3, <1>8
  <2>2. \A x \in rows' : (\A i \in 1..5 : HasRow(Kinds[i], x)') => x.run # run
    <3> SUFFICES ASSUME NEW x \in rows', HasRow(Kinds[5], x)', x.run = run
                 PROVE  FALSE
      BY <1>1
    <3>1. Row(Kinds[5], x.run, x.contract, x.manifest) \in rows'
      BY <1>1 DEF HasRow
    <3>2. Row(Kinds[5], x.run, x.contract, x.manifest) \in rows
      BY <3>1, <2>1, <1>1, <1>4 DEF Row
    <3> QED
      BY <3>2, <1>5 DEF Row
  <2>3. Authorised' \subseteq Authorised
    <3> SUFFICES ASSUME NEW x \in rows', x.kind = Last(Kinds),
                        \A i \in 1..5 : HasRow(Kinds[i], x)'
                 PROVE  Action(x) \in Authorised
      BY KindsAndChecks DEF Authorised, Proven, Action
    <3>1. x.run # run
      BY <2>2
    <3>2. x \in rows /\ \A i \in 1..5 : HasRow(Kinds[i], x)
      BY <3>1, <1>1, <1>4, <1>7
    <3> QED
      BY <3>2, KindsAndChecks DEF Authorised, Proven
  <2>4. Authorised \subseteq Authorised'
    BY <1>1, KindsAndChecks DEF Authorised, Proven, HasRow, Action
  <2>5. UNCHANGED Told
    BY <1>1, <2>3, <2>4 DEF Told, Reported, Seals
  <2> QED
    BY <2>5
<1>9. CASE stage = 5
  <2>1. act \in Authorised'
    <3>1. \A i \in 1..5 : Row(Kinds[i], run, c, m) \in rows'
      BY <1>1, <1>2, <1>9
    <3>2. PICK x \in rows' : x = row
      BY <1>1
    <3>3. x.run = run /\ x.contract = c /\ x.manifest = m /\ x.kind = Last(Kinds)
      BY <3>2, <1>3, <1>4, <1>9
    <3>4. \A i \in DOMAIN Kinds : HasRow(Kinds[i], x)'
      BY <3>1, <3>3, KindsAndChecks DEF HasRow
    <3>5. [run |-> x.run, contract |-> x.contract, manifest |-> x.manifest] = act
      BY <3>3
    <3> HIDE DEF row, act
    <3> QED
      BY <3>2, <3>3, <3>4, <3>5 DEF Authorised, Proven, Action
  <2>2. Authorised \subseteq Authorised'
    BY <1>1, KindsAndChecks DEF Authorised, Proven, HasRow, Action
  <2>3. Authorised' \subseteq Authorised \union {act}
    <3> SUFFICES ASSUME NEW x \in rows', x.kind = Last(Kinds),
                        \A i \in 1..5 : HasRow(Kinds[i], x)'
                 PROVE  Action(x) \in Authorised \union {act}
      BY KindsAndChecks DEF Authorised, Proven, Action
    <3>1. CASE x.run # run
      <4>1. x \in rows /\ \A i \in 1..5 : HasRow(Kinds[i], x)
        BY <3>1, <1>1, <1>4, <1>7
      <4> QED
        BY <4>1, KindsAndChecks DEF Authorised, Proven
    <3>2. CASE x.run = run
      <4>1. Row(Kinds[5], x.run, x.contract, x.manifest) \in rows'
        BY <1>1 DEF HasRow
      <4>2. Row(Kinds[5], x.run, x.contract, x.manifest) \notin rows
        BY <3>2, <1>5 DEF Row
      <4>3. Row(Kinds[5], x.run, x.contract, x.manifest) = row
        BY <4>1, <4>2, <1>1
      <4>4. x.contract = c /\ x.manifest = m
        BY <4>3 DEF Row
      <4> QED
        BY <3>2, <4>4 DEF Action
    <3> QED
      BY <3>1, <3>2
  <2>4. Authorised' = Authorised \union {act}
    BY <2>1, <2>2, <2>3
  <2>5. UNCHANGED <<contracts, manifests, overtaken, registry, executors, Reported, Seals>>
    BY <1>1 DEF Reported, Seals
  <2> HIDE DEF act
  <2>6. Promise!Authorise(p, run, c, m)
    BY <2>4, <2>5, <1>2, <1>6 DEF Promise!Authorise, Promise!MadeFor, Fits, act,
           Promise!enrolled, Promise!held, Promise!reports
  <2>7. run \in 1..MaxRuns
    BY <1>2, RunsAssumption DEF TrailInv
  <2> QED
    BY <2>6, <2>7, <1>2 DEF Promise!Next
<1> QED
  BY <1>1, <1>8, <1>9

\* An event reports what is authorised, of a run without event, under the seal.
LEMMA ReportStep ==
    ASSUME TrailInv, LogInv, RecordInv, NEW p \in Processes, InsertEvent(p)
    PROVE  [Promise!Next]_Told
<1>0. PICK flaws \in Flaws :
         ledger' = Append(ledger, [run |-> call[p].run, contract |-> call[p].contract,
                                   manifest |-> call[p].manifest,
                                   previous |-> call[p].previous, flaws |-> flaws])
  BY DEF InsertEvent
<1> DEFINE e == [run |-> call[p].run, contract |-> call[p].contract,
                 manifest |-> call[p].manifest, previous |-> call[p].previous,
                 flaws |-> flaws]
           act == Action(e)
<1>1. /\ call[p].op = "commit" /\ call[p].stage = 7 /\ ledger' = Append(ledger, e)
      /\ UNCHANGED <<contracts, manifests, overtaken, rows, registry, executors>>
  BY <1>0, KindsAndChecks DEF InsertEvent, Inserting, bounds, memory
<1>2. \A i \in 1..5 : Row(Kinds[i], e.run, e.contract, e.manifest) \in rows
  BY <1>1, KindsAndChecks DEF LogInv, CommitIsBacked, HasRow
<1>a. PICK k \in 0..Len(ledger) : e.previous = IF k = 0 THEN << >> ELSE Hash(ledger[k])
  BY <1>1, KindsAndChecks DEF TrailInv, OwnsItsRun
<1>3. \A i \in DOMAIN ledger : ledger[i].run # e.run
  BY <1>1 DEF TrailInv, OwnsItsRun
<1> HIDE DEF e
<1>4. act \in Authorised
  <2> DEFINE row == Row(Kinds[5], e.run, e.contract, e.manifest)
  <2>1. /\ row \in rows /\ row.run = e.run /\ row.contract = e.contract
        /\ row.manifest = e.manifest /\ row.kind = Last(Kinds)
    BY <1>2 DEF Row, Kinds, Last
  <2> HIDE DEF row
  <2>2. \A i \in DOMAIN Kinds : HasRow(Kinds[i], row)
    BY <2>1, <1>2, KindsAndChecks DEF HasRow
  <2>3. Action(row) = act
    BY <2>1 DEF Action
  <2> QED
    BY <2>1, <2>2, <2>3 DEF Authorised, Proven
<1>5. act.run = e.run
  BY DEF Action
<1>6. /\ Len(ledger) \in Nat /\ DOMAIN ledger = 1..Len(ledger)
      /\ DOMAIN ledger' = 1..Len(ledger) + 1 /\ ledger'[Len(ledger) + 1] = e
      /\ Len(ledger') = Len(ledger) + 1
      /\ \A i \in 1..Len(ledger) : ledger'[i] = ledger[i]
  BY <1>1 DEF LogInv
<1>7. \A i \in DOMAIN Reported : Reported[i].run # act.run
  BY <1>3, <1>5 DEF Reported, Action
<1>8. Reported' = Append(Reported, act)
  <2>1. Reported = [i \in 1..Len(ledger) |-> Action(ledger[i])]
    BY <1>6 DEF Reported
  <2>2. Len(Reported) = Len(ledger) /\ DOMAIN Reported = 1..Len(ledger)
    BY <2>1, <1>6
  <2>3. Reported' = [i \in 1..Len(ledger) + 1 |-> Action(ledger'[i])]
    BY <1>6 DEF Reported, Action
  <2>4. \A i \in 1..Len(ledger) + 1 :
           Action(ledger'[i]) = IF i = Len(ledger) + 1 THEN act ELSE Reported[i]
    BY <2>1, <1>6
  <2> HIDE DEF act
  <2>5. Append(Reported, act)
           = [i \in 1..Len(ledger) + 1 |-> IF i = Len(ledger) + 1 THEN act ELSE Reported[i]]
    BY <2>1, <2>2, <1>6
  <2> QED
    BY <2>3, <2>4, <2>5
<1>9. Seals' = Append(Seals, Append(IF k = 0 THEN << >> ELSE Seals[k], act.run))
  <2>1. Seals = [i \in 1..Len(ledger) |-> Hash(ledger[i])]
    BY <1>6 DEF Seals
  <2>2. Len(Seals) = Len(ledger) /\ DOMAIN Seals = 1..Len(ledger)
    BY <2>1, <1>6
  <2>3. Seals' = [i \in 1..Len(ledger) + 1 |-> Hash(ledger'[i])]
    BY <1>6 DEF Seals, Hash
  <2>4. k # 0 => k \in 1..Len(ledger)
    BY <1>6
  <2>5. Hash(e) = Append(IF k = 0 THEN << >> ELSE Seals[k], act.run)
    BY <2>1, <2>4, <1>a, <1>5 DEF Hash
  <2> DEFINE new == Append(IF k = 0 THEN << >> ELSE Seals[k], act.run)
  <2> HIDE DEF new
  <2>6. \A i \in 1..Len(ledger) + 1 :
           Hash(ledger'[i]) = IF i = Len(ledger) + 1 THEN new ELSE Seals[i]
    <3>1. Hash(e) = new
      BY <2>5 DEF new
    <3>2. \A i \in 1..Len(ledger) : i # Len(ledger) + 1 /\ Seals[i] = Hash(ledger'[i])
      BY <2>1, <1>6
    <3> QED
      BY <3>1, <3>2, <1>6
  <2>7. Append(Seals, new)
           = [i \in 1..Len(ledger) + 1 |-> IF i = Len(ledger) + 1 THEN new ELSE Seals[i]]
    BY <2>1, <2>2, <1>6
  <2>8. Seals' = Append(Seals, new)
    BY <2>3, <2>6, <2>7
  <2> QED
    BY <2>8 DEF new
<1>10. UNCHANGED <<contracts, manifests, overtaken, registry, executors, Authorised>>
  BY <1>1 DEF Authorised, Proven, HasRow, Action
<1>11. Len(Reported) = Len(ledger)
  BY <1>6 DEF Reported
<1> HIDE DEF act
<1>12. Promise!Report(act, k)
  BY <1>4, <1>7, <1>8, <1>9, <1>10 DEF Promise!Report, Promise!enrolled, Promise!held
<1> QED
  BY <1>4, <1>11, <1>12 DEF Promise!Next

\* A call that registers enrols its contract and overtakes the others on their way,
\* or adopts one that is enrolled or was overtaken; a manifest likewise.
LEMMA EnrolStep ==
    ASSUME TrailInv, RecordInv, NEW p \in Processes,
           CheckCapability(p) \/ RecordCapability(p)
    PROVE  [Promise!Next]_Told
<1> DEFINE c == call[p].it
           others == ContractOf(Offers(p, "capability"), c.capability) \ {c}
<1>1. call[p].op = "capability" /\ UNCHANGED <<manifests, rows, ledger, executors>>
  BY DEF CheckCapability, RecordCapability, In, tables
<1>2. c \in Contracts
  BY <1>1 DEF TrailInv, Offered
<1>3. \A m \in executors[p] : m.capability = c.capability => Fits(m, c)
  BY <1>1 DEF RecordInv, Room, ExecutorOf
<1>4. UNCHANGED <<Authorised, Reported, Seals>>
  BY <1>1, UntoldTables
<1>5. others \in SUBSET Contracts
  BY DEF TrailInv, Offered, Offers, ContractOf, In
<1>6. \/ UNCHANGED <<contracts, overtaken, registry>>
      \/ /\ In(p, "capability", "check") /\ ContractOf(contracts, c.capability) # {}
         /\ UNCHANGED <<contracts, overtaken>>
         /\ registry' = [registry EXCEPT ![p] = @ \union {c}]
      \/ /\ ContractOf(contracts, c.capability) = {} /\ contracts' = contracts \union {c}
         /\ overtaken' = overtaken \union others
         /\ registry' = [registry EXCEPT ![p] = @ \union {c}]
  BY DEF CheckCapability, RecordCapability, Register, Overtaken, tables, history
<1>7. \A x \in others : x.capability = c.capability /\ x # c
  BY DEF ContractOf
<1>8. ASSUME In(p, "capability", "check"), ContractOf(contracts, c.capability) # {}
      PROVE  c \in contracts \union overtaken
  BY <1>8 DEF RecordInv, Unopposed, ContractOf
<1> HIDE DEF c, others
<1>9. CASE UNCHANGED <<contracts, overtaken, registry>>
  BY <1>1, <1>4, <1>9 DEF Told
<1>10. ASSUME registry' = [registry EXCEPT ![p] = @ \union {c}]
       PROVE  Promise!Hold(p, c)
  BY <1>1, <1>3, <1>10 DEF Promise!Hold, Promise!MadeFor, Fits
<1>11. CASE /\ In(p, "capability", "check") /\ ContractOf(contracts, c.capability) # {}
            /\ UNCHANGED <<contracts, overtaken>>
            /\ registry' = [registry EXCEPT ![p] = @ \union {c}]
  <2>1. Promise!Adopt(p, c)
    BY <1>1, <1>4, <1>8, <1>10, <1>11 DEF Promise!Adopt, Promise!enrolled, Promise!reports
  <2> QED
    BY <2>1, <1>2 DEF Promise!Next
<1>12. CASE /\ ContractOf(contracts, c.capability) = {} /\ contracts' = contracts \union {c}
            /\ overtaken' = overtaken \union others
            /\ registry' = [registry EXCEPT ![p] = @ \union {c}]
  <2>1. \A x \in contracts : x.capability # c.capability
    BY <1>12 DEF ContractOf
  <2>2. Promise!Enrol(p, c, others)
    BY <2>1, <1>1, <1>4, <1>7, <1>10, <1>12 DEF Promise!Enrol, Promise!reports
  <2> QED
    BY <2>2, <1>2, <1>5 DEF Promise!Next
<1> QED
  BY <1>6, <1>9, <1>11, <1>12

LEMMA EquipStep ==
    ASSUME TrailInv, RecordInv, NEW p \in Processes,
           CheckExecutor(p) \/ RecordExecutor(p)
    PROVE  [Promise!Next]_Told
<1> DEFINE m == call[p].it
           others == RecordedAs(Offers(p, "executor"), m.executor) \ {m}
           Installed ==
               executors' = [executors EXCEPT
                               ![p] = (@ \ ExecutorOf(@, m.capability)) \union {m}]
<1>1. call[p].op = "executor" /\ UNCHANGED <<contracts, rows, ledger, registry>>
  BY DEF CheckExecutor, RecordExecutor, In, tables
<1>2. m \in Manifests
  BY <1>1 DEF TrailInv, Offered
<1>3. \A c \in registry[p] : m.capability = c.capability => Fits(m, c)
  BY <1>1 DEF RecordInv, Room, ContractOf
<1>4. UNCHANGED <<Authorised, Reported, Seals>>
  BY <1>1, UntoldTables
<1>5. others \in SUBSET Manifests
  BY DEF TrailInv, Offered, Offers, RecordedAs, In
<1>6. \/ UNCHANGED <<manifests, overtaken, executors>>
      \/ /\ In(p, "executor", "check") /\ RecordedAs(manifests, m.executor) # {}
         /\ UNCHANGED <<manifests, overtaken>> /\ Installed
      \/ /\ RecordedAs(manifests, m.executor) = {} /\ manifests' = manifests \union {m}
         /\ overtaken' = overtaken \union others /\ Installed
  BY DEF CheckExecutor, RecordExecutor, Install, Overtaken, tables, history
<1>7. \A x \in others : x.executor = m.executor /\ x # m
  BY DEF RecordedAs
<1>8. ASSUME In(p, "executor", "check"), RecordedAs(manifests, m.executor) # {}
      PROVE  m \in manifests \union overtaken
  BY <1>8 DEF RecordInv, Unopposed, RecordedAs
<1>9. ASSUME Installed
      PROVE  Promise!Carry(p, m)
  <2>1. \A s : s \ ExecutorOf(s, m.capability) = {x \in s : x.capability # m.capability}
    BY DEF ExecutorOf
  <2>2. executors' = [executors EXCEPT
                        ![p] = {x \in @ : x.capability # m.capability} \union {m}]
    BY <1>9, <2>1
  <2> QED
    BY <2>2, <1>1, <1>3 DEF Promise!Carry, Promise!MadeFor, Fits
<1> HIDE DEF m, others, Installed
<1>10. CASE UNCHANGED <<manifests, overtaken, executors>>
  BY <1>1, <1>4, <1>10 DEF Told
<1>11. CASE /\ In(p, "executor", "check") /\ RecordedAs(manifests, m.executor) # {}
            /\ UNCHANGED <<manifests, overtaken>> /\ Installed
  <2>1. Promise!Equip(p, m)
    BY <1>1, <1>4, <1>8, <1>9, <1>11 DEF Promise!Equip, Promise!enrolled, Promise!reports
  <2> QED
    BY <2>1, <1>2 DEF Promise!Next
<1>12. CASE /\ RecordedAs(manifests, m.executor) = {} /\ manifests' = manifests \union {m}
            /\ overtaken' = overtaken \union others /\ Installed
  <2>1. \A x \in manifests : x.executor # m.executor
    BY <1>12 DEF RecordedAs
  <2>2. Promise!Record(p, m, others)
    BY <2>1, <1>1, <1>4, <1>7, <1>9, <1>12 DEF Promise!Record, Promise!reports
  <2> QED
    BY <2>2, <1>2, <1>5 DEF Promise!Next
<1> QED
  BY <1>6, <1>10, <1>11, <1>12

LEMMA PromiseStep ==
    ASSUME TrailInv, LogInv, RecordInv, [Next]_vars
    PROVE  [Promise!Next]_Told
<1>1. ASSUME NEW p \in Processes, Die(p)
      PROVE  [Promise!Next]_Told
  <2>1. /\ registry' = [registry EXCEPT ![p] = {}]
        /\ executors' = [executors EXCEPT ![p] = {}]
        /\ UNCHANGED <<contracts, manifests, overtaken, rows, ledger>>
    BY <1>1 DEF Die, tables, history
  <2>2. Promise!Leave(p)
    BY <2>1, UntoldTables DEF Promise!Leave, Promise!enrolled, Promise!reports
  <2> QED
    BY <2>2 DEF Promise!Next
<1>2. CASE UNCHANGED <<contracts, manifests, overtaken, rows, ledger, registry, executors>>
  BY <1>2, Untold
<1>3. ASSUME NEW p \in Processes
      PROVE  /\ OpenStep(p) \/ BeginCommit(p) \/ ReadLatestHash(p) \/ BeginAudit(p)
                  \/ ReadEvents(p) \/ VerifyEvent(p) \/ Fail(p)
                => UNCHANGED <<tables, memory, history>>
             /\ \A c \in Contracts : BeginCapability(p, c) => UNCHANGED <<tables, memory, history>>
             /\ \A m \in Manifests : BeginExecutor(p, m) => UNCHANGED <<tables, memory, history>>
  BY DEF OpenStep, BeginCommit, ReadLatestHash, BeginAudit, ReadEvents, VerifyEvent, Fail,
         BeginCapability, BeginExecutor
<1>4. UNCHANGED <<tables, memory, history>>
         => UNCHANGED <<contracts, manifests, overtaken, rows, ledger, registry, executors>>
  BY DEF tables, memory, history
<1>5. UNCHANGED vars => UNCHANGED <<tables, memory, history>>
  BY DEF vars
<1> QED
  BY <1>1, <1>2, <1>3, <1>4, <1>5, RowStep, ReportStep, EnrolStep, EquipStep DEF Next

LEMMA PromiseInit == Init => TrailInv /\ Promise!Init
<1> SUFFICES ASSUME Init PROVE TrailInv /\ Promise!Init
  OBVIOUS
<1>1. (\A p \in Processes : call[p] = Idle) /\ Idle.op = "idle"
  BY DEF Init, Idle
<1>2. begun \in 0..MaxRuns /\ rows = {} /\ ledger = << >> /\ DOMAIN ledger = {}
  BY RunsAssumption DEF Init
<1>3. TrailInv
  BY <1>1, <1>2 DEF TrailInv, OneCommitPerRun, OwnsItsRun, Offered
<1>4. Authorised = {} /\ Seals = << >> /\ Reported = << >>
  BY <1>2 DEF Authorised, Proven, Seals, Reported
<1> QED
  BY <1>3, <1>4 DEF Init, Promise!Init

\* The processes on one database implement Trail (ImplementsTrail), for any number of
\* them, any contracts and manifests and any interleaving of their statements: what a
\* process holds is recorded or was overtaken, no record changes, what is reported was
\* authorised by a process that held its contract and an executor made for it, every
\* run is reported once, and a hash goes on from that of an earlier event or from none.
THEOREM StoreImplementsTrail == Spec => ImplementsTrail
<1>1. TrailInv /\ RecordInv /\ LogInv /\ [Next]_vars => TrailInv' /\ RecordInv' /\ LogInv'
  BY RecordStep, LogStep, TrailStep
<1>2. TrailInv /\ RecordInv /\ LogInv /\ [Next]_vars => [Promise!Next]_Told
  BY PromiseStep
<1>3. [Promise!Next]_Told => [Promise!Next]_Promise!promises
  BY DEF Told, Promise!promises, Promise!enrolled, Promise!held, Promise!reports
<1> QED
  BY <1>1, <1>2, <1>3, RecordInit, LogInit, PromiseInit, PTL
  DEF Spec, ImplementsTrail, Promise!Spec
=============================================================================
