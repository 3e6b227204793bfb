---------------------------- MODULE RuntimeProofs ---------------------------
(***************************************************************************)
(* Leases and checkpoints, for any number of sessions and tasks, any time  *)
(* to live, and with sessions that fail, die and open at any moment.       *)
(***************************************************************************)
EXTENDS Runtime, TLAPS

Outside == {Closed, Idle, <<"Next", "-">>, <<"SaveGraph", "graph">>, <<"SaveGraph", "row">>}

\* A task is taken, but its lease is not in the store yet.
Unleased ==
    {<<"Admitted", "mem">>, <<"Admitted", "read">>, <<"Admitted", "graph">>, <<"Admitted", "row">>,
     <<"Started", "mem">>, <<"Started", "insert">>, <<"Started", "touch">>, <<"Lease", "row">>}

\* The session numbered an attempt that will name its lease.
Starting == {<<"Started", "insert">>, <<"Started", "touch">>, <<"Lease", "row">>}
Inserting == Starting \cup {<<"Finished", "insert">>}

Fresh(s) == Latest(mem[s].attempts[Task(s)]).n

Numbered(s) == pc[s] \in Starting \/ HoldsLease(s)
Number(s) == IF pc[s] \in Starting THEN Fresh(s) ELSE local[s].lease.id

\* The numbers of a set of attempts were given out.
Given(as) == \A a \in as : a.n \in Nat /\ a.n <= clock.attempts

Shape ==
    /\ DOMAIN leases = Tasks /\ DOMAIN attempts = Tasks
    /\ DOMAIN pc = Sessions /\ DOMAIN local = Sessions /\ DOMAIN mem = Sessions
    /\ DOMAIN clock = {"now", "attempts"} /\ clock.now \in Nat /\ clock.attempts \in Nat
    /\ \A t \in Tasks : \A lease \in leases[t] : lease.expires \in Nat
    /\ \A t \in Tasks : Given(attempts[t])

\* What is known of a session by itself.
SessionShape(s) ==
    /\ DOMAIN local[s] = DOMAIN NoLocals
    /\ local[s].queue \subseteq Tasks
    /\ pc[s] \notin Outside => Task(s) \in Tasks
    /\ pc[s] \in Outside \cup Unleased => ~HoldsLease(s)
    /\ pc[s] # Closed =>
          /\ DOMAIN mem[s] = {"graph", "rows", "attempts", "leases", "probes", "policy"}
          /\ DOMAIN mem[s].attempts = Tasks
          /\ \A t \in Tasks : Given(mem[s].attempts[t])
    /\ pc[s] \in Inserting => Fresh(s) \in Nat /\ Fresh(s) <= clock.attempts
    /\ HoldsLease(s) => local[s].lease.id \in Nat /\ local[s].lease.id <= clock.attempts

\* No two sessions have a lease, or the attempt for one, of the same number.
Distinct ==
    \A r, s \in Sessions : r # s /\ Numbered(r) /\ Numbered(s) => Number(r) # Number(s)

LeaseInv ==
    /\ Shape
    /\ \A s \in Sessions : SessionShape(s)
    /\ Distinct
    /\ LeaseExclusion
    /\ LeaseStays

LEMMA LeaseInit == Init => LeaseInv
<1> SUFFICES ASSUME Init PROVE LeaseInv
  OBVIOUS
<1>1. Shape
  <2>1. \A t \in Tasks : Given(attempts[t])
    BY DEF Init, Given
  <2> QED BY <2>1 DEF Init, Shape
<1>2. ASSUME NEW s \in Sessions PROVE SessionShape(s) /\ ~Numbered(s)
  BY DEF Init, SessionShape, Numbered, HoldsLease, NoLocals, Outside, Unleased, Starting, Inserting, Closed, Idle
<1> QED
  BY <1>1, <1>2 DEF LeaseInv, Distinct, LeaseExclusion, LeaseStays, Numbered, Init

\* An attempt with a number above all others is the latest.
LEMMA LatestIsNew ==
    ASSUME NEW as, NEW k \in Nat, NEW c,
           \A a \in as : a.n \in Nat /\ a.n <= k
    PROVE  Latest(as \cup {[n |-> k + 1, committed |-> c]}) = [n |-> k + 1, committed |-> c]
<1>1. PICK new : new = [n |-> k + 1, committed |-> c]
  OBVIOUS
<1>2. new.n = k + 1
  BY <1>1
<1>3. PICK all : all = as \cup {new}
  OBVIOUS
<1>4. ASSUME NEW b \in all PROVE b.n \in Nat /\ b.n <= k + 1 /\ (b.n = k + 1 => b = new)
  <2>1. CASE b \in as
    <3>1. b.n \in Nat /\ b.n <= k
      BY <2>1
    <3> QED BY <3>1
  <2>2. CASE b = new
    BY <1>2, <2>2
  <2> QED BY <1>3, <1>4, <2>1, <2>2
<1>5. \E a \in all : \A b \in all : b.n <= a.n
  <2>1. new \in all /\ \A b \in all : b.n <= new.n
    BY <1>2, <1>3, <1>4
  <2> QED BY <2>1
<1>6. all # {} /\ Latest(all) = CHOOSE a \in all : \A b \in all : b.n <= a.n
  BY <1>3 DEF Latest
<1>7. Latest(all) \in all /\ new.n <= Latest(all).n
  BY <1>3, <1>5, <1>6
<1>8. Latest(all) = new
  BY <1>2, <1>4, <1>7
<1> QED
  BY <1>1, <1>3, <1>8

-----------------------------------------------------------------------------
\* What the other sessions have stays as it is while numbers only grow.
OnlyOf(s) ==
    /\ DOMAIN pc' = Sessions /\ DOMAIN local' = Sessions /\ DOMAIN mem' = Sessions
    /\ \A r \in Sessions \ {s} : pc'[r] = pc[r] /\ local'[r] = local[r] /\ mem'[r] = mem[r]

LEMMA OtherSession ==
    ASSUME LeaseInv, NEW s \in Sessions, OnlyOf(s), NEW r \in Sessions, r # s,
           clock'.attempts \in Nat, clock.attempts <= clock'.attempts
    PROVE  /\ SessionShape(r)'
           /\ Numbered(r)' = Numbered(r)
           /\ Numbered(r) => Number(r)' = Number(r) /\ Number(r) \in Nat /\ Number(r) <= clock.attempts
<1>1. pc'[r] = pc[r] /\ local'[r] = local[r] /\ mem'[r] = mem[r]
  BY DEF OnlyOf
<1>2. SessionShape(r) /\ clock.attempts \in Nat
  BY DEF LeaseInv, Shape
<1>3. Fresh(r)' = Fresh(r)
  BY <1>1 DEF Fresh, Task, Latest
<1>4. ASSUME NEW as, Given(as)
      PROVE  \A a \in as : a.n \in Nat /\ a.n <= clock'.attempts
  <2>1. ASSUME NEW a \in as PROVE a.n \in Nat /\ a.n <= clock'.attempts
    <3>1. a.n \in Nat /\ a.n <= clock.attempts
      BY <1>4, <2>1 DEF Given
    <3>2. \A i, j, k \in Nat : i <= j /\ j <= k => i <= k
      OBVIOUS
    <3> QED BY <1>2, <3>1, <3>2
  <2> QED BY <2>1
<1>5. pc[r] # Closed => \A t \in Tasks : \A a \in mem[r].attempts[t] : a.n \in Nat /\ a.n <= clock'.attempts
  BY <1>2, <1>4 DEF SessionShape
<1>6. pc[r] \in Inserting => Fresh(r) \in Nat /\ Fresh(r) <= clock'.attempts
  BY <1>2 DEF SessionShape
<1>7. HoldsLease(r) => local[r].lease.id \in Nat /\ local[r].lease.id <= clock'.attempts
  BY <1>2 DEF SessionShape
<1>8. SessionShape(r)'
  BY <1>1, <1>2, <1>3, <1>5, <1>6, <1>7 DEF SessionShape, Given, Task, HoldsLease
<1>9. Numbered(r)' = Numbered(r) /\ Number(r)' = Number(r)
  BY <1>1, <1>3 DEF Numbered, Number, HoldsLease
<1>10. Numbered(r) => Number(r) \in Nat /\ Number(r) <= clock.attempts
  BY <1>2 DEF SessionShape, Numbered, Number, Inserting
<1> QED
  BY <1>8, <1>9, <1>10

\* A number is kept, or new.
Renumbers(s) ==
    Numbered(s)' =>
        \/ Numbered(s) /\ Number(s)' = Number(s)
        \/ Number(s)' \in Nat /\ Number(s)' > clock.attempts

LEMMA StepKeeps ==
    ASSUME LeaseInv, NEW s \in Sessions, OnlyOf(s), Shape', SessionShape(s)', Renumbers(s),
           clock.attempts <= clock'.attempts
    PROVE  Shape' /\ (\A r \in Sessions : SessionShape(r)') /\ Distinct'
<1>1. clock.attempts \in Nat /\ clock'.attempts \in Nat
  BY DEF LeaseInv, Shape
<1>2. ASSUME NEW r \in Sessions, r # s, Numbered(r)', Numbered(s)'
      PROVE  Number(r)' # Number(s)'
  <2>1. Numbered(r) /\ Number(r)' = Number(r) /\ Number(r) \in Nat /\ Number(r) <= clock.attempts
    BY <1>1, <1>2, OtherSession
  <2>2. CASE Numbered(s) /\ Number(s)' = Number(s)
    BY <1>2, <2>1, <2>2 DEF LeaseInv, Distinct
  <2>3. CASE Number(s)' \in Nat /\ Number(s)' > clock.attempts
    BY <1>1, <2>1, <2>3
  <2> QED BY <1>2, <2>2, <2>3 DEF Renumbers
<1>3. ASSUME NEW q \in Sessions, NEW r \in Sessions, q # r, Numbered(q)', Numbered(r)'
      PROVE  Number(q)' # Number(r)'
  <2>1. CASE q = s
    BY <1>2, <1>3, <2>1
  <2>2. CASE r = s
    BY <1>2, <1>3, <2>2
  <2>3. CASE q # s /\ r # s
    <3>1. /\ Numbered(q) /\ Number(q)' = Number(q)
          /\ Numbered(r) /\ Number(r)' = Number(r)
      BY <1>1, <1>3, <2>3, OtherSession
    <3> QED BY <1>3, <3>1 DEF LeaseInv, Distinct
  <2> QED BY <2>1, <2>2, <2>3
<1>4. ASSUME NEW r \in Sessions PROVE SessionShape(r)'
  BY <1>1, <1>4, OtherSession
<1> QED
  BY <1>3, <1>4 DEF Distinct

\* A step of one session that leaves the rows of leases and attempts alone.
LEMMA QuietStep ==
    ASSUME LeaseInv, NEW s \in Sessions, OnlyOf(s), SessionShape(s)', Renumbers(s),
           UNCHANGED <<leases, attempts, clock>>,
           HoldsLease(s)' => HoldsLease(s) /\ local'[s].lease = local[s].lease /\ Task(s)' = Task(s)
    PROVE  LeaseInv'
<1>1. Shape'
  BY DEF OnlyOf, LeaseInv, Shape, Given
<1>2. clock.attempts <= clock'.attempts
  BY DEF LeaseInv, Shape
<1>3. LeaseExclusion'
  BY DEF LeaseInv, LeaseExclusion, Live
<1>4. ASSUME NEW r \in Sessions, HoldsLease(r)' PROVE local'[r].lease \in leases'[Task(r)']
  BY <1>4 DEF LeaseInv, LeaseStays, OnlyOf, HoldsLease, Task
<1> QED
  BY <1>1, <1>2, <1>3, <1>4, StepKeeps DEF LeaseInv, LeaseStays

\* A memory that was loaded, with numbers given out.
MemoryShape(m) ==
    /\ DOMAIN m = {"graph", "rows", "attempts", "leases", "probes", "policy"}
    /\ DOMAIN m.attempts = Tasks
    /\ \A t \in Tasks : Given(m.attempts[t])

\* The session leaves its task, or had none.
LEMMA OutsideStep ==
    ASSUME LeaseInv, NEW s \in Sessions, OnlyOf(s), UNCHANGED <<leases, attempts, clock>>,
           pc'[s] \in Outside, DOMAIN local'[s] = DOMAIN NoLocals,
           local'[s].lease = Null, local'[s].queue \subseteq Tasks,
           pc'[s] # Closed => MemoryShape(mem'[s])
    PROVE  LeaseInv'
<1>1. pc'[s] \notin Inserting /\ ~HoldsLease(s)' /\ ~Numbered(s)'
  BY DEF Outside, Closed, Idle, Inserting, Starting, HoldsLease, Numbered
<1>2. SessionShape(s)'
  BY <1>1 DEF SessionShape, MemoryShape, Given, HoldsLease
<1> QED
  BY <1>1, <1>2, QuietStep DEF Renumbers

\* The session goes on with its task.
LEMMA InsideStep ==
    ASSUME LeaseInv, NEW s \in Sessions, OnlyOf(s), UNCHANGED <<leases, attempts, clock>>,
           pc[s] \notin Outside, pc'[s] \notin Outside,
           pc'[s] \in Unleased => pc[s] \in Unleased,
           pc'[s] \in Inserting => pc[s] \in Inserting,
           pc'[s] \in Starting <=> pc[s] \in Starting,
           mem'[s].attempts = mem[s].attempts, DOMAIN mem'[s] = DOMAIN mem[s],
           DOMAIN local'[s] = DOMAIN local[s], local'[s].queue = local[s].queue,
           local'[s].task = local[s].task, local'[s].lease = local[s].lease
    PROVE  LeaseInv'
<1>1. SessionShape(s) /\ pc[s] # Closed
  BY DEF LeaseInv, Outside
<1>2. Fresh(s)' = Fresh(s) /\ Task(s)' = Task(s) /\ HoldsLease(s)' = HoldsLease(s)
  BY DEF Fresh, Task, Latest, HoldsLease
<1>3. SessionShape(s)'
  BY <1>1, <1>2 DEF SessionShape, Given
<1>4. Renumbers(s)
  BY <1>2 DEF Renumbers, Numbered, Number
<1> QED
  BY <1>2, <1>3, <1>4, QuietStep DEF HoldsLease

-----------------------------------------------------------------------------
LEMMA OpenKeeps ==
    ASSUME LeaseInv, NEW s \in Sessions, NEW policy \in Policies, Open(s, policy)
    PROVE  LeaseInv'
<1>1. OnlyOf(s) /\ pc'[s] = Idle /\ pc'[s] \in Outside
  BY DEF LeaseInv, Shape, Open, OnlyOf, Outside
<1>2. SessionShape(s) /\ pc[s] \in Outside
  BY DEF LeaseInv, Open, Outside
<1>3. MemoryShape(mem'[s])
  <2>1. mem'[s].attempts = attempts
        /\ DOMAIN mem'[s] = {"graph", "rows", "attempts", "leases", "probes", "policy"}
    BY DEF LeaseInv, Shape, Open
  <2> QED BY <2>1 DEF LeaseInv, Shape, MemoryShape
<1>4. local'[s] = local[s] /\ local[s].lease = Null
  BY <1>2 DEF Open, SessionShape, HoldsLease
<1> QED
  BY <1>1, <1>2, <1>3, <1>4, OutsideStep DEF Open, store, SessionShape

\* A call that ends, or a session: what it had of a task is forgotten.
LEMMA LeaveKeeps ==
    ASSUME LeaseInv, NEW s \in Sessions, Die(s) \/ Fail(s) \/ Return(s)
    PROVE  LeaseInv'
<1>1. OnlyOf(s) /\ pc'[s] \in {Closed, Idle} /\ local'[s] = NoLocals
  BY DEF LeaseInv, Shape, Die, Fail, Return, OnlyOf
<1>2. pc'[s] # Closed => mem'[s] = mem[s] /\ pc[s] # Closed
  BY DEF LeaseInv, Shape, Die, Fail, Return, At, Closed, Idle
<1>3. pc'[s] # Closed => MemoryShape(mem'[s])
  BY <1>2 DEF LeaseInv, SessionShape, MemoryShape
<1>4. UNCHANGED <<leases, attempts, clock>>
  BY DEF Die, Fail, Return, store
<1>5. DOMAIN local'[s] = DOMAIN NoLocals /\ local'[s].lease = Null /\ local'[s].queue = {}
  BY <1>1 DEF NoLocals
<1> QED
  BY <1>1, <1>3, <1>4, <1>5, OutsideStep DEF Outside

\* Steps between tasks.
LEMMA BetweenKeeps ==
    ASSUME LeaseInv, NEW s \in Sessions,
           \/ \E t \in Tasks, status \in ProbeStatuses : RecordProbe(s, t, status)
           \/ Run(s) \/ Resume(s) \/ SaveGraphRow(s) \/ SaveTaskRow(s) \/ Replan(s)
    PROVE  LeaseInv'
<1>1. SessionShape(s) /\ pc[s] \in Outside \ {Closed}
  <2>1. \/ pc[s] = Idle
        \/ At(s, "SaveGraph", "graph") \/ At(s, "SaveGraph", "row") \/ At(s, "Next", "-")
    BY DEF RecordProbe, Run, Resume, SaveGraphRow, SaveTaskRow, Replan
  <2> QED BY <2>1 DEF LeaseInv, At, Outside, Closed, Idle
<1>2. OnlyOf(s) /\ pc'[s] \in Outside
  BY <1>1 DEF LeaseInv, Shape, OnlyOf, RecordProbe, Run, Resume, SaveGraphRow, SaveTaskRow, Replan, Goto,
              Outside
<1>3. MemoryShape(mem[s])
  BY <1>1 DEF SessionShape, MemoryShape
<1>4. DOMAIN mem'[s] = DOMAIN mem[s] /\ mem'[s].attempts = mem[s].attempts
  BY <1>1, <1>3 DEF LeaseInv, Shape, MemoryShape, RecordProbe, Run, Resume, SaveGraphRow, SaveTaskRow, Replan
<1>5. UNCHANGED <<leases, attempts, clock>>
  BY DEF store, RecordProbe, Run, Resume, SaveGraphRow, SaveTaskRow, Replan
<1>6. MemoryShape(mem'[s])
  BY <1>3, <1>4, <1>5 DEF MemoryShape
<1>7. /\ DOMAIN local'[s] = DOMAIN NoLocals
      /\ local'[s].lease = Null /\ local'[s].queue \subseteq Tasks
  <2>1. /\ DOMAIN local[s] = DOMAIN NoLocals /\ DOMAIN local = Sessions
        /\ local[s].lease = Null /\ local[s].queue \subseteq Tasks
    BY <1>1 DEF LeaseInv, Shape, SessionShape, HoldsLease
  <2>2. CASE \/ \E t \in Tasks, status \in ProbeStatuses : RecordProbe(s, t, status)
             \/ SaveGraphRow(s)
    BY <2>1, <2>2 DEF RecordProbe, SaveGraphRow
  <2>3. CASE Run(s)
    BY <2>1, <2>3 DEF Run, NoLocals
  <2>6. CASE Resume(s)
    <3>1. ReadyTasks(mem[s]) \subseteq Tasks
      BY DEF ReadyTasks
    <3>2. PICK before :
             local'[s] = [NoLocals EXCEPT !.queue = ReadyTasks(mem[s]), !.resuming = TRUE, !.before = before]
      BY <2>1, <2>6 DEF Resume
    <3> QED BY <3>1, <3>2 DEF NoLocals
  <2>4. CASE SaveTaskRow(s)
    BY <2>1, <2>4 DEF SaveTaskRow, NoLocals
  <2>5. CASE Replan(s)
    BY <2>1, <2>5 DEF Replan, ReadyTasks, NoLocals
  <2> QED BY <2>2, <2>3, <2>4, <2>5, <2>6
<1> QED
  BY <1>2, <1>5, <1>6, <1>7, OutsideStep

-----------------------------------------------------------------------------
\* Steps of a task that leave its lease and its numbers alone.
LEMMA TakeTaskKeeps ==
    ASSUME LeaseInv, NEW s \in Sessions, TakeTask(s)
    PROVE  LeaseInv'
<1>1. /\ SessionShape(s) /\ pc[s] = <<"Next", "-">> /\ pc'[s] = <<"Admitted", "mem">>
      /\ OnlyOf(s) /\ UNCHANGED <<leases, attempts, clock, mem>>
  BY DEF LeaseInv, Shape, TakeTask, At, Goto, OnlyOf, store
<1>2. pc'[s] \notin Outside /\ pc'[s] \in Unleased /\ pc'[s] \notin Inserting /\ pc[s] # Closed /\ pc[s] \in Outside
  BY <1>1 DEF Outside, Unleased, Inserting, Starting, Closed, Idle
<1>3. PICK t \in local[s].queue : local' = [local EXCEPT ![s].task = t, ![s].queue = @ \ {t}]
  BY DEF TakeTask
<1>4. /\ DOMAIN local'[s] = DOMAIN NoLocals /\ local'[s].lease = Null
      /\ local'[s].queue \subseteq Tasks /\ local'[s].task \in Tasks
  BY <1>1, <1>2, <1>3 DEF LeaseInv, Shape, SessionShape, HoldsLease, NoLocals
<1>5. SessionShape(s)'
  BY <1>1, <1>2, <1>4 DEF SessionShape, Given, Task, HoldsLease
<1>6. ~HoldsLease(s)' /\ ~Numbered(s)'
  BY <1>2, <1>4 DEF HoldsLease, Numbered, Inserting
<1> QED
  BY <1>1, <1>5, <1>6, QuietStep DEF Renumbers

LEMMA EventKeeps ==
    ASSUME LeaseInv, NEW s \in Sessions,
           EmitInMemory(s) \/ ReadRows(s) \/ WriteGraphRow(s) \/ WriteTaskRow(s)
    PROVE  LeaseInv'
<1>1. PICK stage \in DOMAIN EventState, phase \in {"mem", "read", "graph", "row"} : pc[s] = <<stage, phase>>
  BY DEF EmitInMemory, ReadRows, WriteGraphRow, WriteTaskRow, At
<1>2. DOMAIN EventState = {"Admitted", "Planned", "PolicyChecked", "AwaitingApproval", "TicketIssued",
                           "Executing", "Verifying", "Committing", "Completed"}
  BY DEF EventState, EventStates
<1>3. pc[s] \notin Outside /\ pc[s] \notin Inserting
  BY <1>1, <1>2 DEF Outside, Closed, Idle, Inserting, Starting
<1>4. /\ SessionShape(s) /\ OnlyOf(s) /\ UNCHANGED <<leases, attempts, clock>>
  BY DEF LeaseInv, Shape, OnlyOf, EmitInMemory, ReadRows, WriteGraphRow, WriteTaskRow, Goto, Abort, store
<1>5. DOMAIN mem'[s] = DOMAIN mem[s] /\ mem'[s].attempts = mem[s].attempts
  <2>1. DOMAIN mem[s] = {"graph", "rows", "attempts", "leases", "probes", "policy"} /\ DOMAIN mem = Sessions
    BY <1>3, <1>4 DEF LeaseInv, Shape, SessionShape, Outside
  <2>2. CASE EmitInMemory(s)
    <3>1. PICK state : mem' = [mem EXCEPT ![s] = UpdateState(mem[s], Task(s), state)]
      BY <2>2 DEF EmitInMemory
    <3> QED BY <2>1, <3>1 DEF UpdateState
  <2>3. CASE ReadRows(s) \/ WriteGraphRow(s) \/ WriteTaskRow(s)
    BY <2>3 DEF ReadRows, WriteGraphRow, WriteTaskRow
  <2> QED BY <2>2, <2>3
<1>6. CASE pc'[s] = Idle /\ local'[s] = NoLocals
  <2>1. MemoryShape(mem'[s])
    BY <1>3, <1>4, <1>5 DEF SessionShape, MemoryShape, Given, Outside
  <2>2. /\ pc'[s] \in Outside /\ DOMAIN local'[s] = DOMAIN NoLocals
        /\ local'[s].lease = Null /\ local'[s].queue = {}
    BY <1>6 DEF Outside, NoLocals
  <2> QED BY <1>4, <2>1, <2>2, OutsideStep
<1>7. CASE /\ \/ \E next \in {"read", "graph", "row"} : pc'[s] = <<stage, next>>
              \/ pc'[s] \in Following[stage] /\ stage # "AwaitingApproval"
           /\ DOMAIN local'[s] = DOMAIN local[s] /\ local'[s].queue = local[s].queue
           /\ local'[s].task = local[s].task /\ local'[s].lease = local[s].lease
  <2>1. /\ pc'[s] \notin Outside /\ pc'[s] \notin Inserting
        /\ pc'[s] \in Unleased => pc[s] \in Unleased
    <3>1. ASSUME NEW next \in {"read", "graph", "row"}, pc'[s] = <<stage, next>>
          PROVE  /\ pc'[s] \notin Outside /\ pc'[s] \notin Inserting
                 /\ pc'[s] \in Unleased => pc[s] \in Unleased
      BY <1>1, <1>2, <3>1 DEF Outside, Closed, Idle, Inserting, Starting, Unleased
    <3>2. CASE pc'[s] \in Following[stage] /\ stage # "AwaitingApproval"
      BY <1>1, <1>2, <3>2 DEF Following, Outside, Closed, Idle, Inserting, Starting, Unleased
    <3> QED BY <1>7, <3>1, <3>2
  <2> QED BY <1>3, <1>4, <1>5, <1>7, <2>1, InsideStep DEF Inserting
<1>8. DOMAIN local[s] = DOMAIN NoLocals /\ DOMAIN local = Sessions /\ DOMAIN pc = Sessions
  BY <1>4 DEF LeaseInv, Shape, SessionShape
<1>10. CASE EmitInMemory(s) \/ WriteGraphRow(s)
  BY <1>1, <1>7, <1>8, <1>10 DEF EmitInMemory, WriteGraphRow, At, Goto
<1>11. CASE ReadRows(s)
  <2>1. CASE Abort(s)
    BY <1>6, <1>8, <2>1 DEF Abort
  <2>2. CASE ~Abort(s)
    <3>1. pc'[s] = <<stage, "graph">>
      BY <1>1, <1>8, <1>11, <2>2 DEF ReadRows, At, Goto
    <3>2. PICK row : local' = [local EXCEPT ![s].graph = graphRow, ![s].row = row]
      BY <1>11, <2>2 DEF ReadRows
    <3> QED BY <1>7, <1>8, <3>1, <3>2 DEF NoLocals
  <2> QED BY <2>1, <2>2
<1>12. CASE WriteTaskRow(s)
  <2>1. /\ pc[s] = <<stage, "row">>
        /\ pc'[s] \in Following[stage]
        /\ local' = IF stage = "AwaitingApproval" THEN [local EXCEPT ![s] = NoLocals]
                    ELSE [local EXCEPT ![s].graph = Null, ![s].row = Null]
    BY <1>1, <1>8, <1>12 DEF WriteTaskRow, At, AfterEvent
  <2>2. CASE stage = "AwaitingApproval"
    BY <1>6, <1>8, <2>1, <2>2 DEF Following
  <2>3. CASE stage # "AwaitingApproval"
    BY <1>7, <1>8, <2>1, <2>3 DEF NoLocals
  <2> QED BY <2>2, <2>3
<1> QED
  BY <1>10, <1>11, <1>12

\* An abort between two statements.
LEMMA AbortKeeps ==
    ASSUME LeaseInv, NEW s \in Sessions, pc[s] # Closed, Abort(s),
           UNCHANGED <<leases, attempts, clock, mem>>
    PROVE  LeaseInv'
<1>1. OnlyOf(s) /\ pc'[s] = Idle /\ local'[s] = NoLocals
  BY DEF LeaseInv, Shape, OnlyOf, Abort
<1>2. MemoryShape(mem'[s])
  BY DEF LeaseInv, SessionShape, MemoryShape, Given
<1>3. DOMAIN local'[s] = DOMAIN NoLocals /\ local'[s].lease = Null /\ local'[s].queue = {}
  BY <1>1 DEF NoLocals
<1> QED
  BY <1>1, <1>2, <1>3, OutsideStep DEF Outside

LEMMA WorkKeeps ==
    ASSUME LeaseInv, NEW s \in Sessions,
           TouchTaskRow(s) \/ Execute(s) \/ Commit(s) \/ ReleaseLeaseInMemory(s)
    PROVE  LeaseInv'
<1>1. \/ pc[s] = <<"Started", "touch">> /\ pc'[s] = <<"Lease", "row">>
      \/ pc[s] = <<"Finished", "touch">> /\ pc'[s] = <<"Release", "mem">>
      \/ pc[s] = <<"Verifying", "work">> /\ pc'[s] = <<"Verifying", "mem">>
      \/ pc[s] = <<"Completed", "work">> /\ pc'[s] = <<"Completed", "mem">>
      \/ pc[s] = <<"Release", "mem">> /\ pc'[s] = <<"Release", "row">>
  BY DEF LeaseInv, Shape, TouchTaskRow, Execute, Commit, ReleaseLeaseInMemory, At, Goto
<1>2. /\ pc[s] \notin Outside /\ pc'[s] \notin Outside
      /\ pc'[s] \in Unleased => pc[s] \in Unleased
      /\ pc'[s] \in Inserting => pc[s] \in Inserting
      /\ pc'[s] \in Starting <=> pc[s] \in Starting
  BY <1>1 DEF Outside, Closed, Idle, Unleased, Inserting, Starting
<1>3. OnlyOf(s) /\ UNCHANGED <<leases, attempts, clock>>
  BY DEF LeaseInv, Shape, OnlyOf, TouchTaskRow, Execute, Commit, ReleaseLeaseInMemory, Goto, store
<1>4. /\ DOMAIN local = Sessions /\ DOMAIN local[s] = DOMAIN NoLocals /\ DOMAIN mem = Sessions
      /\ DOMAIN mem[s] = {"graph", "rows", "attempts", "leases", "probes", "policy"}
  BY <1>2 DEF LeaseInv, Shape, SessionShape, Outside
<1>5. DOMAIN mem'[s] = DOMAIN mem[s] /\ mem'[s].attempts = mem[s].attempts
  BY <1>4 DEF TouchTaskRow, Execute, Commit, ReleaseLeaseInMemory
<1>6. /\ DOMAIN local'[s] = DOMAIN local[s] /\ local'[s].queue = local[s].queue
      /\ local'[s].task = local[s].task /\ local'[s].lease = local[s].lease
  BY <1>4 DEF TouchTaskRow, Execute, Commit, ReleaseLeaseInMemory, NoLocals
<1> QED
  BY <1>2, <1>3, <1>5, <1>6, InsideStep

LEMMA LeaseInMemoryKeeps ==
    ASSUME LeaseInv, NEW s \in Sessions, AcquireLeaseInMemory(s)
    PROVE  LeaseInv'
<1>1. pc[s] = <<"Lease", "mem">> /\ UNCHANGED <<leases, attempts, clock>>
  BY DEF AcquireLeaseInMemory, At, store
<1>2. pc[s] \notin Outside /\ pc[s] # Closed /\ pc[s] \notin Inserting
  BY <1>1 DEF Outside, Closed, Idle, Inserting, Starting
<1>3. CASE Abort(s) /\ UNCHANGED mem
  BY <1>1, <1>2, <1>3, AbortKeeps
<1>4. CASE /\ mem' = [mem EXCEPT ![s].leases[Task(s)] = @ \cup {local[s].lease}]
           /\ Goto(s, "Planned", "mem")
           /\ UNCHANGED local
  <2>1. OnlyOf(s) /\ pc'[s] = <<"Planned", "mem">>
    BY <1>4 DEF LeaseInv, Shape, OnlyOf, Goto
  <2>2. pc'[s] \notin Outside /\ pc'[s] \notin Unleased /\ pc'[s] \notin Inserting
    BY <2>1 DEF Outside, Closed, Idle, Unleased, Inserting, Starting
  <2>3. DOMAIN mem'[s] = DOMAIN mem[s] /\ mem'[s].attempts = mem[s].attempts
    BY <1>2, <1>4 DEF LeaseInv, Shape, SessionShape
  <2> QED BY <1>1, <1>2, <1>4, <2>1, <2>2, <2>3, InsideStep DEF Inserting
<1> QED
  BY <1>3, <1>4 DEF AcquireLeaseInMemory

-----------------------------------------------------------------------------
\* A new attempt: its number is above all that were given out.
LEMMA NewAttemptIsFresh ==
    ASSUME LeaseInv, NEW s \in Sessions, pc[s] \notin Outside, NEW c \in BOOLEAN, NewAttempt(s, c),
           local'[s] = local[s]
    PROVE  /\ clock'.attempts = clock.attempts + 1 /\ clock'.now = clock.now
           /\ DOMAIN clock' = {"now", "attempts"}
           /\ DOMAIN mem' = Sessions /\ \A r \in Sessions \ {s} : mem'[r] = mem[r]
           /\ MemoryShape(mem[s]) /\ MemoryShape(mem[s])'
           /\ Fresh(s)' = clock.attempts + 1
<1>1. /\ MemoryShape(mem[s]) /\ Task(s) \in Tasks /\ DOMAIN mem = Sessions
      /\ DOMAIN clock = {"now", "attempts"} /\ clock.attempts \in Nat
  BY DEF LeaseInv, Shape, SessionShape, MemoryShape, Outside
<1>2. clock'.attempts = clock.attempts + 1 /\ clock'.now = clock.now /\ DOMAIN clock' = {"now", "attempts"}
  BY <1>1 DEF NewAttempt
<1>3. PICK base :
         /\ DOMAIN base = DOMAIN mem[s] /\ base.attempts = mem[s].attempts
         /\ mem' = [mem EXCEPT ![s] = [base EXCEPT !.attempts[Task(s)] =
                                       @ \cup {[n |-> clock.attempts + 1, committed |-> c]}]]
  <2>1. CASE c = TRUE
    BY <1>1, <2>1 DEF NewAttempt
  <2>2. CASE c = FALSE
    <3>1. PICK base : base = UpdateState(mem[s], Task(s), "Running")
      OBVIOUS
    <3>2. DOMAIN base = DOMAIN mem[s] /\ base.attempts = mem[s].attempts
      BY <1>1, <3>1 DEF UpdateState, MemoryShape
    <3>3. mem' = [mem EXCEPT ![s] = [base EXCEPT !.attempts[Task(s)] =
                                       @ \cup {[n |-> clock.attempts + 1, committed |-> c]}]]
      BY <2>2, <3>1 DEF NewAttempt
    <3> QED BY <3>2, <3>3
  <2> QED BY <2>1, <2>2
<1>4. /\ DOMAIN mem' = Sessions /\ \A r \in Sessions \ {s} : mem'[r] = mem[r]
      /\ DOMAIN mem'[s] = DOMAIN mem[s]
      /\ mem'[s].attempts = [mem[s].attempts EXCEPT ![Task(s)] =
                                @ \cup {[n |-> clock.attempts + 1, committed |-> c]}]
  BY <1>1, <1>3 DEF MemoryShape
<1>5. ASSUME NEW t \in Tasks, NEW a \in mem'[s].attempts[t]
      PROVE  a.n \in Nat /\ a.n <= clock.attempts + 1
  <2>1. CASE a \in mem[s].attempts[t]
    <3>1. a.n \in Nat /\ a.n <= clock.attempts
      BY <1>1, <2>1 DEF MemoryShape, Given
    <3> QED BY <1>1, <3>1
  <2>2. CASE a.n = clock.attempts + 1
    BY <1>1, <2>2
  <2> QED BY <1>1, <1>4, <1>5, <2>1, <2>2 DEF MemoryShape
<1>6. MemoryShape(mem[s])'
  BY <1>1, <1>2, <1>4, <1>5 DEF MemoryShape, Given
<1>7. Fresh(s)' = clock.attempts + 1
  <2>1. PICK as : as = mem[s].attempts[Task(s)]
    OBVIOUS
  <2>2. \A a \in as : a.n \in Nat /\ a.n <= clock.attempts
    BY <1>1, <2>1 DEF MemoryShape, Given
  <2>3. mem'[s].attempts[Task(s)] = as \cup {[n |-> clock.attempts + 1, committed |-> c]}
    BY <1>1, <1>4, <2>1 DEF MemoryShape
  <2>4. Latest(mem'[s].attempts[Task(s)]).n = clock.attempts + 1
    <3>1. PICK k \in Nat : k = clock.attempts
      BY <1>1
    <3>2. \A a \in as : a.n \in Nat /\ a.n <= k
      BY <2>2, <3>1
    <3>3. Latest(as \cup {[n |-> k + 1, committed |-> c]}) = [n |-> k + 1, committed |-> c]
      BY <3>2, LatestIsNew
    <3> QED BY <2>3, <3>1, <3>3
  <2>5. Task(s)' = Task(s)
    BY DEF Task
  <2> QED BY <2>4, <2>5 DEF Fresh, Latest
<1> QED
  BY <1>1, <1>2, <1>4, <1>6, <1>7

LEMMA AttemptKeeps ==
    ASSUME LeaseInv, NEW s \in Sessions, StartTask(s) \/ FinishAttempt(s)
    PROVE  LeaseInv'
<1>1. pc[s] \in {<<"Started", "mem">>, <<"Finished", "mem">>} /\ UNCHANGED <<leases, attempts>>
  BY DEF StartTask, FinishAttempt, At, store
<1>2. pc[s] \notin Outside /\ pc[s] # Closed /\ pc[s] \notin Starting
  BY <1>1 DEF Outside, Closed, Idle, Starting
<1>3. CASE Abort(s) /\ UNCHANGED <<mem, clock>>
  BY <1>1, <1>2, <1>3, AbortKeeps
<1>4. ASSUME NEW c \in BOOLEAN, NewAttempt(s, c), UNCHANGED local,
             \/ pc[s] = <<"Started", "mem">> /\ Goto(s, "Started", "insert")
             \/ pc[s] = <<"Finished", "mem">> /\ Goto(s, "Finished", "insert")
      PROVE  LeaseInv'
  <2>1. /\ clock'.attempts = clock.attempts + 1 /\ clock'.now = clock.now
        /\ DOMAIN clock' = {"now", "attempts"}
        /\ DOMAIN mem' = Sessions /\ \A r \in Sessions \ {s} : mem'[r] = mem[r]
        /\ MemoryShape(mem[s])' /\ Fresh(s)' = clock.attempts + 1
    BY <1>2, <1>4, NewAttemptIsFresh
  <2>2. clock.attempts \in Nat /\ SessionShape(s)
    BY DEF LeaseInv, Shape
  <2>3. OnlyOf(s)
    BY <1>4, <2>1 DEF LeaseInv, Shape, OnlyOf, Goto
  <2>4. ASSUME NEW t \in Tasks PROVE Given(attempts[t])'
    <3>1. ASSUME NEW a \in attempts[t] PROVE a.n \in Nat /\ a.n <= clock'.attempts
      <4>1. a.n \in Nat /\ a.n <= clock.attempts
        BY <3>1 DEF LeaseInv, Shape, Given
      <4> QED BY <2>1, <2>2, <4>1
    <3> QED BY <1>1, <3>1 DEF Given
  <2>5. Shape'
    BY <1>1, <2>1, <2>2, <2>3, <2>4 DEF LeaseInv, Shape, OnlyOf
  <2>6. \/ pc[s] = <<"Started", "mem">> /\ pc'[s] = <<"Started", "insert">>
        \/ pc[s] = <<"Finished", "mem">> /\ pc'[s] = <<"Finished", "insert">>
    BY <1>4 DEF LeaseInv, Shape, Goto
  <2>7. /\ pc'[s] # Closed /\ pc'[s] \notin Outside
        /\ pc'[s] \in Unleased => pc[s] \in Unleased
    BY <2>6 DEF Outside, Unleased, Closed, Idle
  <2>8. HoldsLease(s)' = HoldsLease(s) /\ Task(s)' = Task(s) /\ local'[s] = local[s]
    BY <1>4 DEF HoldsLease, Task
  <2>9. /\ HoldsLease(s)' => local[s].lease.id \in Nat /\ local[s].lease.id <= clock'.attempts
        /\ Fresh(s)' \in Nat /\ Fresh(s)' <= clock'.attempts
    <3>1. CASE HoldsLease(s)
      <4>1. local[s].lease.id \in Nat /\ local[s].lease.id <= clock.attempts
        BY <2>2, <3>1 DEF SessionShape
      <4> QED BY <2>1, <2>2, <4>1
    <3>2. CASE ~HoldsLease(s)
      BY <2>1, <2>2, <2>8, <3>2
    <3> QED BY <3>1, <3>2
  <2>10. SessionShape(s)'
    BY <1>2, <2>1, <2>2, <2>7, <2>8, <2>9 DEF SessionShape, MemoryShape
  <2>11. Renumbers(s)
    <3>1. CASE pc'[s] \in Starting
      BY <2>1, <2>2, <3>1 DEF Renumbers, Number
    <3>2. CASE pc'[s] \notin Starting
      BY <1>2, <2>8, <3>2 DEF Renumbers, Numbered, Number, HoldsLease
    <3> QED BY <3>1, <3>2
  <2>12. LeaseExclusion' /\ LeaseStays'
    <3>1. LeaseExclusion'
      BY <1>1, <2>1 DEF LeaseInv, LeaseExclusion, Live
    <3>2. LeaseStays'
      BY <1>1, <1>4 DEF LeaseInv, LeaseStays, HoldsLease, Task
    <3> QED BY <3>1, <3>2
  <2>13. clock.attempts <= clock'.attempts
    BY <2>1, <2>2
  <2> QED BY <2>3, <2>5, <2>10, <2>11, <2>12, <2>13, StepKeeps DEF LeaseInv
<1>5. CASE FinishAttempt(s)
  BY <1>4, <1>5 DEF FinishAttempt, At
<1>6. CASE StartTask(s)
  BY <1>3, <1>4, <1>6 DEF StartTask, At
<1> QED
  BY <1>5, <1>6

LEMMA InsertKeeps ==
    ASSUME LeaseInv, NEW s \in Sessions, InsertAttempt(s)
    PROVE  LeaseInv'
<1>1. /\ \/ pc[s] = <<"Started", "insert">> /\ pc'[s] = <<"Started", "touch">>
         \/ pc[s] = <<"Finished", "insert">> /\ pc'[s] = <<"Finished", "touch">>
      /\ OnlyOf(s) /\ UNCHANGED <<leases, mem, clock>>
  BY DEF LeaseInv, Shape, OnlyOf, InsertAttempt, At, Goto
<1>2. /\ pc[s] \notin Outside /\ pc'[s] \notin Outside /\ pc[s] # Closed /\ pc'[s] # Closed
      /\ pc[s] \in Inserting
      /\ pc'[s] \in Starting <=> pc[s] \in Starting
      /\ pc'[s] \in Unleased => pc[s] \in Unleased
  BY <1>1 DEF Outside, Closed, Idle, Unleased, Inserting, Starting
<1>3. SessionShape(s) /\ DOMAIN local = Sessions /\ DOMAIN attempts = Tasks
  BY DEF LeaseInv, Shape
<1>4. /\ DOMAIN local'[s] = DOMAIN local[s] /\ local'[s].queue = local[s].queue
      /\ local'[s].task = local[s].task /\ local'[s].lease = local[s].lease
  BY <1>3 DEF InsertAttempt, SessionShape, NoLocals
<1>5. Fresh(s)' = Fresh(s) /\ Task(s)' = Task(s) /\ HoldsLease(s)' = HoldsLease(s)
  BY <1>1, <1>4 DEF Fresh, Task, HoldsLease, Latest
<1>6. SessionShape(s)'
  BY <1>1, <1>2, <1>3, <1>4, <1>5 DEF SessionShape, Given
<1>7. Renumbers(s)
  BY <1>2, <1>4, <1>5 DEF Renumbers, Numbered, Number
<1>8. PICK new :
         /\ new = Latest(mem[s].attempts[Task(s)])
         /\ attempts' = [attempts EXCEPT ![Task(s)] = @ \cup {new}]
  BY DEF InsertAttempt
<1>9. new.n \in Nat /\ new.n <= clock.attempts
  BY <1>2, <1>3, <1>8 DEF SessionShape, Fresh
<1>10. ASSUME NEW t \in Tasks PROVE Given(attempts[t])'
  <2>1. ASSUME NEW a \in attempts'[t] PROVE a.n \in Nat /\ a.n <= clock.attempts
    <3>1. a \in attempts[t] \/ a = new
      BY <1>3, <1>8, <2>1
    <3> QED BY <1>9, <3>1 DEF LeaseInv, Shape, Given
  <2> QED BY <1>1, <2>1 DEF Given
<1>11. DOMAIN attempts' = Tasks
  BY <1>3, <1>8
<1>12. Shape'
  BY <1>1, <1>10, <1>11 DEF LeaseInv, Shape, OnlyOf
<1>13. LeaseExclusion' /\ clock.attempts <= clock'.attempts
  BY <1>1 DEF LeaseInv, LeaseExclusion, Live, Shape
<1>14. ASSUME NEW r \in Sessions, HoldsLease(r)' PROVE local'[r].lease \in leases'[Task(r)']
  BY <1>1, <1>4, <1>14 DEF LeaseInv, LeaseStays, OnlyOf, HoldsLease, Task
<1> QED
  BY <1>1, <1>6, <1>7, <1>12, <1>13, <1>14, StepKeeps DEF LeaseInv, LeaseStays

\* A lease row is written only where no live one is, and is named by the attempt.
LEMMA AcquireKeeps ==
    ASSUME LeaseInv, NEW s \in Sessions, AcquireLeaseRow(s)
    PROVE  LeaseInv'
<1>1. pc[s] = <<"Lease", "row">> /\ UNCHANGED <<attempts, clock, mem>>
  BY DEF AcquireLeaseRow, At
<1>2. /\ pc[s] \notin Outside /\ pc[s] # Closed /\ pc[s] \in Starting
      /\ pc[s] \in Unleased /\ pc[s] \in Inserting
  BY <1>1 DEF Outside, Closed, Idle, Unleased, Inserting, Starting
<1>3. CASE Abort(s) /\ UNCHANGED leases
  BY <1>1, <1>2, <1>3, AbortKeeps
<1>4. CASE ~(Abort(s) /\ UNCHANGED leases)
  <2>1. PICK lease :
           /\ lease = [id |-> Fresh(s), expires |-> clock.now + TTL]
           /\ \A other \in leases[Task(s)] : ~Live(other)
           /\ leases' = [leases EXCEPT ![Task(s)] = @ \cup {lease}]
           /\ local' = [local EXCEPT ![s].lease = lease]
           /\ pc' = [pc EXCEPT ![s] = <<"Lease", "mem">>]
    BY <1>4 DEF AcquireLeaseRow, Fresh, Goto
  <2>2. /\ SessionShape(s) /\ DOMAIN local = Sessions /\ DOMAIN leases = Tasks /\ Task(s) \in Tasks
        /\ clock.now \in Nat /\ DOMAIN local[s] = DOMAIN NoLocals
    BY <1>2 DEF LeaseInv, Shape, SessionShape
  <2>3. pc'[s] = <<"Lease", "mem">> /\ OnlyOf(s)
    BY <1>1, <2>1 DEF LeaseInv, Shape, OnlyOf
  <2>4. pc'[s] \notin Outside \cup Unleased /\ pc'[s] \notin Inserting /\ pc'[s] # Closed
    BY <2>3 DEF Outside, Closed, Idle, Unleased, Inserting, Starting
  <2>5. /\ DOMAIN local'[s] = DOMAIN local[s] /\ local'[s].queue = local[s].queue
        /\ local'[s].task = local[s].task /\ local'[s].lease = lease
    BY <2>1, <2>2 DEF NoLocals
  <2>6. lease.id = Fresh(s) /\ lease.expires \in Nat
    BY <2>1, <2>2, BoundAssumption
  <2>7. lease.id \in Nat /\ lease.id <= clock.attempts
    BY <1>2, <2>2, <2>6 DEF SessionShape
  <2>8. SessionShape(s)'
    BY <1>1, <1>2, <2>2, <2>4, <2>5, <2>7 DEF SessionShape, Given, Task, HoldsLease
  <2>9. Renumbers(s)
    BY <1>2, <2>4, <2>5, <2>6 DEF Renumbers, Numbered, Number, Inserting
  <2>10. \A t \in Tasks : \A l \in leases'[t] : l.expires \in Nat
    BY <2>1, <2>2, <2>6 DEF LeaseInv, Shape
  <2>11. Shape'
    BY <1>1, <2>1, <2>3, <2>10 DEF LeaseInv, Shape, OnlyOf, Given
  <2>12. LeaseExclusion'
    BY <1>1, <2>1, <2>2 DEF LeaseInv, LeaseExclusion, Live
  <2>13. ASSUME NEW r \in Sessions, HoldsLease(r)' PROVE local'[r].lease \in leases'[Task(r)']
    <3>1. CASE r = s
      BY <2>1, <2>2, <2>5, <3>1 DEF Task
    <3>2. CASE r # s
      <4>1. local'[r] = local[r] /\ local[r].lease \in leases[Task(r)]
        BY <2>3, <2>13, <3>2 DEF LeaseInv, LeaseStays, OnlyOf, HoldsLease
      <4>2. Task(r) \in Tasks
        BY <2>3, <2>13, <3>2, <4>1 DEF LeaseInv, SessionShape, HoldsLease, OnlyOf
      <4> QED BY <2>1, <2>2, <4>1, <4>2 DEF Task
    <3> QED BY <3>1, <3>2
  <2>14. clock.attempts <= clock'.attempts
    BY <1>1 DEF LeaseInv, Shape
  <2> QED BY <2>3, <2>8, <2>9, <2>11, <2>12, <2>13, <2>14, StepKeeps DEF LeaseInv, LeaseStays
<1> QED
  BY <1>3, <1>4

\* The row that is removed is named by the session's own attempt.
LEMMA ReleaseKeeps ==
    ASSUME LeaseInv, NEW s \in Sessions, ReleaseLeaseRow(s)
    PROVE  LeaseInv'
<1>1. /\ pc[s] = <<"Release", "row">> /\ pc'[s] = <<"Next", "-">> /\ OnlyOf(s)
      /\ UNCHANGED <<attempts, clock, mem>>
  BY DEF LeaseInv, Shape, OnlyOf, ReleaseLeaseRow, At, Goto
<1>2. pc[s] \notin Outside /\ pc[s] # Closed /\ pc[s] \notin Starting
      /\ pc'[s] \in Outside /\ pc'[s] \notin Inserting /\ pc'[s] # Closed
  BY <1>1 DEF Outside, Closed, Idle, Inserting, Starting
<1>3. /\ SessionShape(s) /\ DOMAIN local = Sessions /\ DOMAIN leases = Tasks
      /\ DOMAIN local[s] = DOMAIN NoLocals /\ Task(s) \in Tasks
  BY <1>2 DEF LeaseInv, Shape, SessionShape
<1>4. /\ leases' = [leases EXCEPT ![Task(s)] = @ \ {local[s].lease}]
      /\ local' = [local EXCEPT ![s].lease = Null]
  BY DEF ReleaseLeaseRow
<1>5. DOMAIN local'[s] = DOMAIN local[s] /\ local'[s].queue = local[s].queue /\ local'[s].lease = Null
  BY <1>3, <1>4 DEF NoLocals
<1>6. SessionShape(s)' /\ ~Numbered(s)'
  BY <1>1, <1>2, <1>3, <1>5 DEF SessionShape, Given, HoldsLease, Numbered, Inserting
<1>7. Shape'
  BY <1>1, <1>3, <1>4 DEF LeaseInv, Shape, OnlyOf, Given
<1>8. LeaseExclusion'
  BY <1>1, <1>3, <1>4 DEF LeaseInv, LeaseExclusion, Live
<1>9. ASSUME NEW r \in Sessions, HoldsLease(r)' PROVE local'[r].lease \in leases'[Task(r)']
  <2>1. r # s /\ local'[r] = local[r] /\ HoldsLease(r)
    BY <1>1, <1>5, <1>9 DEF OnlyOf, HoldsLease
  <2>2. local[r].lease \in leases[Task(r)]
    BY <2>1 DEF LeaseInv, LeaseStays
  <2>3. CASE local[r].lease # local[s].lease
    BY <1>3, <1>4, <2>1, <2>2, <2>3 DEF Task
  <2>4. CASE local[r].lease = local[s].lease
    <3>1. HoldsLease(s) /\ pc[r] \notin Starting
      BY <2>1, <2>4 DEF HoldsLease, LeaseInv, SessionShape, Starting, Unleased
    <3> QED BY <1>2, <2>1, <2>4, <3>1 DEF LeaseInv, Distinct, Numbered, Number
  <2> QED BY <2>3, <2>4
<1>10. clock.attempts <= clock'.attempts
  BY <1>1 DEF LeaseInv, Shape
<1> QED
  BY <1>1, <1>6, <1>7, <1>8, <1>9, <1>10, StepKeeps DEF LeaseInv, LeaseStays, Renumbers

LEMMA StutterKeeps ==
    ASSUME LeaseInv, UNCHANGED vars
    PROVE  LeaseInv'
<1>1. UNCHANGED <<attempts, leases, mem, pc, local, clock>>
  BY DEF vars, store
<1>2. Shape'
  BY <1>1 DEF LeaseInv, Shape, Given
<1>3. ASSUME NEW s \in Sessions PROVE /\ SessionShape(s)'
                                     /\ Numbered(s)' = Numbered(s) /\ Number(s)' = Number(s)
  <2>1. Fresh(s)' = Fresh(s)
    BY <1>1 DEF Fresh, Task, Latest
  <2>2. SessionShape(s)
    BY DEF LeaseInv
  <2> QED BY <1>1, <2>1, <2>2 DEF SessionShape, Given, Task, HoldsLease, Numbered, Number
<1>4. Distinct' /\ LeaseExclusion' /\ LeaseStays'
  BY <1>1, <1>3 DEF LeaseInv, Distinct, LeaseExclusion, LeaseStays, Live, HoldsLease, Task
<1> QED
  BY <1>2, <1>3, <1>4 DEF LeaseInv

\* Time only ends leases.
LEMMA TickKeeps ==
    ASSUME LeaseInv, Tick
    PROVE  LeaseInv'
<1>1. /\ UNCHANGED <<attempts, leases, mem, pc, local>>
      /\ DOMAIN clock' = {"now", "attempts"}
      /\ clock'.now = clock.now + 1 /\ clock'.attempts = clock.attempts
      /\ clock.now \in Nat /\ clock.attempts \in Nat
  BY DEF LeaseInv, Shape, Tick, store
<1>2. Shape'
  BY <1>1 DEF LeaseInv, Shape, Given
<1>3. ASSUME NEW s \in Sessions PROVE /\ SessionShape(s)'
                                     /\ Numbered(s)' = Numbered(s) /\ Number(s)' = Number(s)
  <2>1. Fresh(s)' = Fresh(s)
    BY <1>1 DEF Fresh, Task, Latest
  <2>2. SessionShape(s)
    BY DEF LeaseInv
  <2> QED BY <1>1, <2>1, <2>2 DEF SessionShape, Given, Task, HoldsLease, Numbered, Number
<1>4. Distinct' /\ LeaseStays'
  BY <1>1, <1>3 DEF LeaseInv, Distinct, LeaseStays, HoldsLease, Task
<1>5. ASSUME NEW t \in Tasks, NEW lease \in leases[t], Live(lease)' PROVE Live(lease)
  <2>1. lease.expires \in Nat
    BY <1>5 DEF LeaseInv, Shape
  <2>2. lease.expires > clock.now + 1
    BY <1>1, <1>5 DEF Live
  <2>3. \A i, j \in Nat : i > j + 1 => i > j
    OBVIOUS
  <2> QED BY <1>1, <2>1, <2>2, <2>3 DEF Live
<1>6. LeaseExclusion'
  BY <1>1, <1>5 DEF LeaseInv, LeaseExclusion
<1> QED
  BY <1>2, <1>3, <1>4, <1>6 DEF LeaseInv

-----------------------------------------------------------------------------
\* The inductive invariant, by the actions of Next.
THEOREM LeaseInvariance == Spec => []LeaseInv
<1>1. LeaseInv /\ [Next]_vars => LeaseInv'
  <2> SUFFICES ASSUME LeaseInv, [Next]_vars PROVE LeaseInv'
    OBVIOUS
  <2>1. ASSUME NEW s \in Sessions, Step(s) PROVE LeaseInv'
    BY <2>1, BetweenKeeps, LeaveKeeps, TakeTaskKeeps, EventKeeps, AttemptKeeps, InsertKeeps, WorkKeeps,
       AcquireKeeps, LeaseInMemoryKeeps, ReleaseKeeps DEF Step
  <2>2. ASSUME NEW s \in Sessions,
               \/ \E policy \in Policies : Open(s, policy)
               \/ \E t \in Tasks, status \in ProbeStatuses : RecordProbe(s, t, status)
               \/ Run(s) \/ Resume(s) \/ Fail(s) \/ Die(s)
        PROVE  LeaseInv'
    BY <2>2, OpenKeeps, BetweenKeeps, LeaveKeeps
  <2> QED BY <2>1, <2>2, TickKeeps, StutterKeeps DEF Next
<1> QED
  BY <1>1, LeaseInit, PTL DEF Spec

\* At any time at most one lease of a task is active and not expired.
THEOREM LeasesExclude == Spec => []LeaseExclusion
<1>1. LeaseInv => LeaseExclusion
  BY DEF LeaseInv
<1> QED
  BY <1>1, LeaseInvariance, PTL

\* A session has its lease in the store until it gives it back, and two are
\* inside one task only after the lease of one of them expired.
THEOREM LeasesKept == Spec => []LeasesAreKept
<1>1. LeaseInv => LeasesAreKept
  <2> SUFFICES ASSUME LeaseInv PROVE OverlapNeedsExpiry
    BY DEF LeaseInv, LeasesAreKept
  <2>1. SUFFICES ASSUME NEW r \in Sessions, NEW s \in Sessions, r # s, HoldsLease(r), HoldsLease(s),
                        Task(r) = Task(s), Live(local[r].lease), Live(local[s].lease)
                 PROVE  FALSE
    BY DEF OverlapNeedsExpiry
  <2>2. local[r].lease \in leases[Task(r)] /\ local[s].lease \in leases[Task(r)]
    BY <2>1 DEF LeaseInv, LeaseStays
  <2>3. pc[r] \notin Starting /\ pc[s] \notin Starting
    BY <2>1 DEF LeaseInv, SessionShape, Starting, Unleased
  <2>4. Task(r) \in Tasks
    BY <2>1 DEF LeaseInv, SessionShape
  <2>5. local[r].lease = local[s].lease
    BY <2>1, <2>2, <2>4 DEF LeaseInv, LeaseExclusion
  <2> QED BY <2>1, <2>3, <2>5 DEF LeaseInv, Distinct, Numbered, Number
<1> QED
  BY <1>1, LeaseInvariance, PTL

-----------------------------------------------------------------------------
(* What the store and the sessions' memories say of a task, and what the    *)
(* kernel committed and executed of it.                                      *)

Committed == {t \in Tasks : ledger[t] > 0}

\* States of tasks in which no task is completed that was not committed.
Sound(states) ==
    /\ DOMAIN states = Tasks
    /\ \A t \in Tasks : states[t] = "Completed" => t \in Committed

\* The phases in which a session has the graph it read, or the row; in which
\* its task is committed; and in which its dependencies are not known yet.
HasGraph(s) == pc[s][2] = "graph" /\ pc[s][1] # "SaveGraph"
HasRow(s) == pc[s][2] \in {"graph", "row", "touch"} /\ pc[s][1] \notin {"SaveGraph", "Lease", "Release"}
Completing(s) == pc[s][1] = "Completed" /\ pc[s][2] # "work"
Waiting(s) ==
    \/ pc[s][1] \in {"closed", "idle", "Next", "SaveGraph", "Admitted"}
    \/ pc[s][1] = "Started" /\ pc[s][2] = "mem"

StoreSound ==
    /\ ledger \in [Tasks -> Nat] /\ effects \in [Tasks -> Nat]
    /\ Sound(taskRow)
    /\ graphRow # Null => Sound(graphRow)

MemorySound(s) ==
    pc[s] # Closed =>
        /\ Sound(mem[s].rows)
        /\ (mem[s].graph # Null \/ pc[s] # Idle) => Sound(mem[s].graph)

\* What a call has read, and where it is, agrees with the kernel.
LocalSound(s) ==
    /\ local[s].before \subseteq Committed /\ local[s].done \subseteq Committed
    /\ HasGraph(s) => Sound(local[s].graph)
    /\ HasRow(s) => (local[s].row = "Completed" => Task(s) \in Committed)
    /\ Completing(s) => Task(s) \in Committed
    /\ ~Waiting(s) => DependsOn[Task(s)] \subseteq Committed

CommitInv ==
    /\ StoreSound
    /\ \A s \in Sessions : MemorySound(s) /\ LocalSound(s)
    /\ DependencyOrder

LEMMA CommitInit == Init => CommitInv
<1> SUFFICES ASSUME Init PROVE CommitInv
  OBVIOUS
<1>1. Sound(taskRow) /\ (graphRow # Null => Sound(graphRow))
  BY NullAssumption DEF Init, Sound, ImportedState, TaskState
<1>2. StoreSound /\ DependencyOrder
  BY <1>1 DEF Init, StoreSound, DependencyOrder
<1>3. ASSUME NEW s \in Sessions PROVE MemorySound(s) /\ LocalSound(s)
  <2>1. pc[s] = Closed /\ local[s] = NoLocals
    BY DEF Init
  <2>2. ~HasGraph(s) /\ ~HasRow(s) /\ ~Completing(s) /\ Waiting(s)
    BY <2>1 DEF Closed, HasGraph, HasRow, Completing, Waiting
  <2> QED BY <2>1, <2>2 DEF MemorySound, LocalSound, NoLocals
<1> QED
  BY <1>2, <1>3 DEF CommitInv

\* A step of one session under which no commit is lost.
LEMMA CommitStep ==
    ASSUME LeaseInv, CommitInv, NEW s \in Sessions, OnlyOf(s), Committed \subseteq Committed',
           StoreSound', MemorySound(s)', LocalSound(s)', DependencyOrder'
    PROVE  CommitInv'
<1>1. ASSUME NEW f, Sound(f) PROVE \A t \in Tasks : f[t] = "Completed" => t \in Committed'
  BY <1>1 DEF Sound
<1>2. ASSUME NEW r \in Sessions, r # s PROVE MemorySound(r)' /\ LocalSound(r)'
  <2>1. pc'[r] = pc[r] /\ local'[r] = local[r] /\ mem'[r] = mem[r] /\ Task(r)' = Task(r)
    BY <1>2 DEF OnlyOf, Task
  <2>2. MemorySound(r) /\ LocalSound(r)
    BY DEF CommitInv
  <2>3. MemorySound(r)'
    BY <1>1, <2>1, <2>2 DEF MemorySound, Sound
  <2>4. /\ HasGraph(r)' = HasGraph(r) /\ HasRow(r)' = HasRow(r)
        /\ Completing(r)' = Completing(r) /\ Waiting(r)' = Waiting(r)
    BY <2>1 DEF HasGraph, HasRow, Completing, Waiting
  <2>5. HasGraph(r)' => Sound(local[r].graph)'
    BY <1>1, <2>2, <2>4, <2>1 DEF LocalSound, Sound
  <2>6. LocalSound(r)'
    BY <2>1, <2>2, <2>4, <2>5 DEF LocalSound
  <2> QED BY <2>3, <2>6
<1> QED
  BY <1>2 DEF CommitInv

\* A step that changes nothing of the store that the invariant reads.
LEMMA SoundStays ==
    ASSUME CommitInv, UNCHANGED <<taskRow, graphRow, effects, ledger>>
    PROVE  /\ Committed' = Committed /\ StoreSound' /\ DependencyOrder'
           /\ \A f : Sound(f) => Sound(f)'
<1>1. Committed' = Committed
  BY DEF Committed
<1> QED
  BY <1>1 DEF CommitInv, StoreSound, DependencyOrder, Sound

\* The session keeps what it knows of the states.
LEMMA MemoryStays ==
    ASSUME CommitInv, NEW s \in Sessions, Committed \subseteq Committed',
           mem'[s].rows = mem[s].rows, mem'[s].graph = mem[s].graph, pc[s] # Closed,
           pc[s] = Idle => pc'[s] = Idle \/ mem[s].graph # Null
    PROVE  MemorySound(s)'
<1>1. MemorySound(s)
  BY DEF CommitInv
<1> QED
  BY <1>1 DEF MemorySound, Sound

\* A call that is over has no locals.
LEMMA NoLocalsSound ==
    ASSUME NEW s \in Sessions, pc'[s] \in {Closed, Idle}, local'[s] = NoLocals
    PROVE  LocalSound(s)'
<1>1. ~HasGraph(s)' /\ ~HasRow(s)' /\ ~Completing(s)' /\ Waiting(s)'
  BY DEF Closed, Idle, HasGraph, HasRow, Completing, Waiting
<1> QED
  BY <1>1 DEF LocalSound, NoLocals

-----------------------------------------------------------------------------
LEMMA OpenCommits ==
    ASSUME LeaseInv, CommitInv, NEW s \in Sessions, NEW policy \in Policies, Open(s, policy)
    PROVE  CommitInv'
<1>1. OnlyOf(s) /\ pc'[s] = Idle /\ pc[s] = Closed /\ local' = local
  BY DEF LeaseInv, Shape, Open, OnlyOf
<1>2. Committed' = Committed /\ StoreSound' /\ DependencyOrder'
  BY SoundStays DEF Open, store
<1>3. MemorySound(s)'
  <2>1. mem'[s].graph = graphRow /\ mem'[s].rows = [t \in Tasks |-> Loaded(t)]
    BY DEF LeaseInv, Shape, Open
  <2>2. Sound(taskRow) /\ (graphRow # Null => Sound(graphRow))
    BY DEF CommitInv, StoreSound
  <2>3. Sound([t \in Tasks |-> Loaded(t)])
    BY <2>2 DEF Sound, Loaded
  <2> QED BY <1>1, <1>2, <2>1, <2>2, <2>3 DEF MemorySound, Sound
<1>4. LocalSound(s)'
  <2>1. local'[s].before \subseteq Committed /\ local'[s].done \subseteq Committed
    BY <1>1 DEF CommitInv, LocalSound
  <2>2. ~HasGraph(s)' /\ ~HasRow(s)' /\ ~Completing(s)' /\ Waiting(s)'
    BY <1>1 DEF Idle, HasGraph, HasRow, Completing, Waiting
  <2> QED BY <1>2, <2>1, <2>2 DEF LocalSound
<1> QED
  BY <1>1, <1>2, <1>3, <1>4, CommitStep

LEMMA LeaveCommits ==
    ASSUME LeaseInv, CommitInv, NEW s \in Sessions, Die(s) \/ Fail(s) \/ Return(s)
    PROVE  CommitInv'
<1>1. OnlyOf(s) /\ pc'[s] \in {Closed, Idle} /\ local'[s] = NoLocals
  BY DEF LeaseInv, Shape, Die, Fail, Return, OnlyOf
<1>2. Committed' = Committed /\ StoreSound' /\ DependencyOrder'
  BY SoundStays DEF Die, Fail, Return, store
<1>3. pc'[s] # Closed => mem'[s] = mem[s] /\ pc[s] # Closed /\ pc'[s] = Idle
  BY <1>1 DEF LeaseInv, Shape, Die, Fail, Return, At, Closed, Idle
<1>4. MemorySound(s)'
  <2>1. CASE pc'[s] = Closed
    BY <2>1 DEF MemorySound
  <2>2. CASE pc'[s] # Closed
    BY <1>2, <1>3, <2>2, MemoryStays
  <2> QED BY <2>1, <2>2
<1> QED
  BY <1>1, <1>2, <1>4, NoLocalsSound, CommitStep

\* A call that is given up between two statements.
LEMMA AbortCommits ==
    ASSUME LeaseInv, CommitInv, NEW s \in Sessions, pc[s] # Closed, Abort(s),
           UNCHANGED <<taskRow, graphRow, effects, ledger, mem>>
    PROVE  CommitInv'
<1>1. OnlyOf(s) /\ pc'[s] = Idle /\ local'[s] = NoLocals
  BY DEF LeaseInv, Shape, OnlyOf, Abort
<1>2. Committed' = Committed /\ StoreSound' /\ DependencyOrder'
  BY SoundStays
<1>3. MemorySound(s)'
  BY <1>1, <1>2, MemoryStays
<1> QED
  BY <1>1, <1>2, <1>3, NoLocalsSound, CommitStep

\* Steps between tasks.
LEMMA BetweenCommits ==
    ASSUME LeaseInv, CommitInv, NEW s \in Sessions,
           \/ \E t \in Tasks, status \in ProbeStatuses : RecordProbe(s, t, status)
           \/ Run(s) \/ Resume(s) \/ SaveGraphRow(s) \/ SaveTaskRow(s) \/ Replan(s) \/ TakeTask(s)
    PROVE  CommitInv'
<1>1. /\ pc[s] \in {Idle, <<"SaveGraph", "graph">>, <<"SaveGraph", "row">>, <<"Next", "-">>}
      /\ pc'[s] \in {Idle, <<"SaveGraph", "graph">>, <<"SaveGraph", "row">>, <<"Next", "-">>,
                     <<"Admitted", "mem">>}
      /\ OnlyOf(s) /\ UNCHANGED <<effects, ledger>>
  BY DEF LeaseInv, Shape, OnlyOf, RecordProbe, Run, Resume, SaveGraphRow, SaveTaskRow, Replan, TakeTask,
         At, Goto
<1>2. /\ pc[s] # Closed /\ SessionShape(s) /\ DOMAIN local = Sessions /\ DOMAIN mem = Sessions
      /\ DOMAIN local[s] = DOMAIN NoLocals
      /\ DOMAIN mem[s] = {"graph", "rows", "attempts", "leases", "probes", "policy"}
  BY <1>1 DEF LeaseInv, Shape, SessionShape, Closed, Idle
<1>3. MemorySound(s) /\ LocalSound(s) /\ StoreSound
  BY DEF CommitInv
<1>4. Committed' = Committed /\ DependencyOrder'
  BY <1>1 DEF Committed, CommitInv, DependencyOrder
<1>5. StoreSound'
  <2>1. CASE SaveGraphRow(s)
    <3>1. Sound(mem[s].graph) /\ graphRow' = mem[s].graph /\ taskRow' = taskRow
      BY <1>3, <2>1 DEF SaveGraphRow, At, Closed, Idle, MemorySound
    <3> QED BY <1>1, <1>3, <1>4, <3>1 DEF StoreSound, Sound
  <2>2. CASE SaveTaskRow(s)
    <3>1. Sound(mem[s].graph) /\ graphRow' = graphRow
      BY <1>3, <2>2 DEF SaveTaskRow, At, Closed, Idle, MemorySound
    <3>2. PICK q : taskRow' = [taskRow EXCEPT ![q] = IF @ = Null THEN mem[s].graph[q] ELSE Merge(@, mem[s].graph[q])]
      BY <2>2 DEF SaveTaskRow
    <3>3. ASSUME NEW t \in Tasks, taskRow'[t] = "Completed" PROVE t \in Committed
      <4>1. taskRow[t] = "Completed" \/ mem[s].graph[t] = "Completed"
        BY <1>3, <3>2, <3>3 DEF StoreSound, Sound, Merge
      <4> QED BY <1>3, <3>1, <4>1 DEF StoreSound, Sound
    <3>4. Sound(taskRow)'
      BY <1>3, <1>4, <3>2, <3>3 DEF StoreSound, Sound
    <3> QED BY <1>1, <1>3, <1>4, <3>1, <3>4 DEF StoreSound, Sound
  <2>3. CASE ~SaveGraphRow(s) /\ ~SaveTaskRow(s)
    <3>1. UNCHANGED <<taskRow, graphRow>>
      BY <2>3 DEF RecordProbe, Run, Resume, Replan, TakeTask, store
    <3> QED BY <1>1, <3>1, SoundStays
  <2> QED BY <2>1, <2>2, <2>3
<1>6. MemorySound(s)'
  <2>1. CASE Run(s)
    <3>1. mem'[s].graph = NewState /\ mem'[s].rows = NewState
      BY <1>2, <2>1 DEF Run
    <3>2. Sound(NewState)'
      BY DEF Sound, NewState
    <3> QED BY <3>1, <3>2 DEF MemorySound, Sound
  <2>2. CASE ~Run(s)
    <3>1. mem'[s].graph = mem[s].graph /\ mem'[s].rows = mem[s].rows
      BY <1>2, <2>2 DEF RecordProbe, Resume, SaveGraphRow, SaveTaskRow, Replan, TakeTask
    <3>2. pc[s] = Idle => pc'[s] = Idle \/ mem[s].graph # Null
      BY <2>2 DEF RecordProbe, Resume, SaveGraphRow, SaveTaskRow, Replan, TakeTask, At, Idle
    <3> QED BY <1>2, <1>4, <3>1, <3>2, MemoryStays
  <2> QED BY <2>1, <2>2
<1>7. LocalSound(s)'
  <2>1. ~HasGraph(s)' /\ ~HasRow(s)' /\ ~Completing(s)' /\ Waiting(s)'
    BY <1>1 DEF Idle, HasGraph, HasRow, Completing, Waiting
  <2>2. local'[s].before \subseteq Committed /\ local'[s].done \subseteq Committed
    <3>1. CASE Run(s)
      BY <1>2, <3>1 DEF Run, NoLocals
    <3>2. CASE Resume(s)
      <4>1. Sound(mem[s].graph)
        BY <1>2, <1>3, <3>2 DEF Resume, MemorySound
      <4>2. local'[s] = [NoLocals EXCEPT !.queue = ReadyTasks(mem[s]), !.resuming = TRUE,
                                         !.before = {t \in Tasks : mem[s].graph[t] = "Completed"}]
        BY <1>2, <3>2 DEF Resume
      <4>3. local'[s].before = {t \in Tasks : mem[s].graph[t] = "Completed"} /\ local'[s].done = {}
        BY <4>2 DEF NoLocals
      <4> QED BY <4>1, <4>3 DEF Sound
    <3>3. CASE ~Run(s) /\ ~Resume(s)
      <4>1. local'[s].before = local[s].before /\ local'[s].done = local[s].done
        <5>1. CASE SaveTaskRow(s)
          <6>1. PICK saved : local' = [local EXCEPT ![s].saved = saved]
            BY <5>1 DEF SaveTaskRow
          <6> QED BY <1>2, <6>1 DEF NoLocals
        <5>2. CASE Replan(s)
          <6>1. local' = [local EXCEPT ![s].queue = ReadyTasks(mem[s])]
            BY <5>2 DEF Replan
          <6> QED BY <1>2, <6>1 DEF NoLocals
        <5>3. CASE TakeTask(s)
          <6>1. PICK t : local' = [local EXCEPT ![s].task = t, ![s].queue = @ \ {t}]
            BY <5>3 DEF TakeTask
          <6> QED BY <1>2, <6>1 DEF NoLocals
        <5>4. CASE (\E t \in Tasks, status \in ProbeStatuses : RecordProbe(s, t, status)) \/ SaveGraphRow(s)
          BY <5>4 DEF RecordProbe, SaveGraphRow
        <5> QED BY <3>3, <5>1, <5>2, <5>3, <5>4
      <4> QED BY <1>3, <4>1 DEF LocalSound
    <3> QED BY <3>1, <3>2, <3>3
  <2> QED BY <1>4, <2>1, <2>2 DEF LocalSound
<1> QED
  BY <1>1, <1>4, <1>5, <1>6, <1>7, CommitStep

-----------------------------------------------------------------------------
LEMMA Stages ==
    /\ DOMAIN EventState = {"Admitted", "Planned", "PolicyChecked", "AwaitingApproval", "TicketIssued",
                            "Executing", "Verifying", "Committing", "Completed"}
    /\ \A stage \in DOMAIN EventState : EventState[stage] = "Completed" <=> stage = "Completed"
  BY DEF EventState, EventStates

\* A merged state is completed only if one of the two was.
LEMMA MergedStates ==
    ASSUME NEW states, Sound(states), NEW t \in Tasks, NEW state, state = "Completed" => t \in Committed
    PROVE  Sound([states EXCEPT ![t] = Merge(@, state)])
<1>1. ASSUME NEW q \in Tasks, [states EXCEPT ![t] = Merge(@, state)][q] = "Completed" PROVE q \in Committed
  <2>1. CASE q = t
    <3>1. states[t] = "Completed" \/ state = "Completed"
      BY <1>1, <2>1 DEF Sound, Merge
    <3> QED BY <2>1, <3>1 DEF Sound
  <2>2. CASE q # t
    BY <1>1, <2>2 DEF Sound
  <2> QED BY <2>1, <2>2
<1> QED
  BY <1>1 DEF Sound

LEMMA UpdatedMemory ==
    ASSUME NEW m, DOMAIN m = {"graph", "rows", "attempts", "leases", "probes", "policy"},
           Sound(m.graph), Sound(m.rows),
           NEW t \in Tasks, NEW state, state = "Completed" => t \in Committed
    PROVE  /\ Sound(UpdateState(m, t, state).graph) /\ Sound(UpdateState(m, t, state).rows)
           /\ DOMAIN UpdateState(m, t, state) = DOMAIN m
<1>1. /\ UpdateState(m, t, state).graph = [m.graph EXCEPT ![t] = Merge(@, state)]
      /\ UpdateState(m, t, state).rows = [m.rows EXCEPT ![t] = Merge(@, state)]
      /\ DOMAIN UpdateState(m, t, state) = DOMAIN m
  BY DEF UpdateState
<1>2. Sound([m.graph EXCEPT ![t] = Merge(@, state)])
  BY MergedStates
<1>3. Sound([m.rows EXCEPT ![t] = Merge(@, state)])
  BY MergedStates
<1> QED
  BY <1>1, <1>2, <1>3

\* The call goes on with its task.
LEMMA LocalGoesOn ==
    ASSUME CommitInv, NEW s \in Sessions, Committed \subseteq Committed',
           local'[s].before = local[s].before, local'[s].done = local[s].done, Task(s)' = Task(s),
           HasGraph(s)' => Sound(local'[s].graph),
           HasRow(s)' => (local'[s].row = "Completed" => Task(s) \in Committed),
           Completing(s)' => Task(s) \in Committed',
           ~Waiting(s)' => ~Waiting(s)
    PROVE  LocalSound(s)'
<1>1. LocalSound(s)
  BY DEF CommitInv
<1>2. HasGraph(s)' => Sound(local[s].graph)'
  BY DEF Sound
<1> QED
  BY <1>1, <1>2 DEF LocalSound

LEMMA EmitCommits ==
    ASSUME LeaseInv, CommitInv, NEW s \in Sessions, EmitInMemory(s)
    PROVE  CommitInv'
<1>1. PICK stage \in DOMAIN EventState : /\ At(s, stage, "mem")
                                         /\ mem' = [mem EXCEPT ![s] = UpdateState(@, Task(s), EventState[stage])]
                                         /\ Goto(s, stage, "read")
  BY DEF EmitInMemory
<1>2. pc[s] = <<stage, "mem">> /\ pc'[s] = <<stage, "read">> /\ OnlyOf(s) /\ local' = local
  BY <1>1 DEF LeaseInv, Shape, OnlyOf, EmitInMemory, At, Goto
<1>3. /\ pc[s] \notin Outside /\ ~HasGraph(s)' /\ ~HasRow(s)'
      /\ Completing(s) <=> stage = "Completed"
      /\ Completing(s)' <=> stage = "Completed"
      /\ Waiting(s)' <=> Waiting(s)
  BY <1>2, Stages DEF Outside, Closed, Idle, HasGraph, HasRow, Completing, Waiting
<1>4. Committed' = Committed /\ StoreSound' /\ DependencyOrder'
  BY SoundStays DEF EmitInMemory, store
<1>5. Task(s) \in Tasks /\ (EventState[stage] = "Completed" => Task(s) \in Committed)
  BY <1>3, Stages DEF LeaseInv, SessionShape, CommitInv, LocalSound
<1>6. MemorySound(s)'
  <2>1. /\ mem'[s] = UpdateState(mem[s], Task(s), EventState[stage])
        /\ DOMAIN mem[s] = {"graph", "rows", "attempts", "leases", "probes", "policy"}
        /\ Sound(mem[s].graph) /\ Sound(mem[s].rows)
    BY <1>1, <1>3 DEF LeaseInv, Shape, SessionShape, CommitInv, MemorySound, Outside
  <2>2. Sound(mem'[s].graph) /\ Sound(mem'[s].rows)
    BY <1>5, <2>1, UpdatedMemory
  <2> QED BY <1>4, <2>2 DEF MemorySound, Sound
<1>7. LocalSound(s)'
  BY <1>2, <1>3, <1>4, <1>5, LocalGoesOn, Stages DEF Task
<1> QED
  BY <1>2, <1>4, <1>6, <1>7, CommitStep

LEMMA ReadCommits ==
    ASSUME LeaseInv, CommitInv, NEW s \in Sessions, ReadRows(s)
    PROVE  CommitInv'
<1>1. PICK stage \in DOMAIN EventState :
          /\ At(s, stage, "read")
          /\ \/ Abort(s)
             \/ /\ graphRow # Null
                /\ local' = [local EXCEPT ![s].graph = graphRow, ![s].row = Loaded(Task(s))]
                /\ Goto(s, stage, "graph")
  BY DEF ReadRows
<1>2. pc[s] = <<stage, "read">> /\ pc[s] \notin Outside /\ pc[s] # Closed
  BY <1>1, Stages DEF At, Outside, Closed, Idle
<1>3. CASE Abort(s)
  BY <1>2, <1>3, AbortCommits DEF ReadRows, store
<1>4. CASE /\ graphRow # Null
           /\ local' = [local EXCEPT ![s].graph = graphRow, ![s].row = Loaded(Task(s))]
           /\ Goto(s, stage, "graph")
  <2>1. pc'[s] = <<stage, "graph">> /\ OnlyOf(s) /\ mem' = mem /\ pc[s] # Idle
    BY <1>2, <1>4 DEF LeaseInv, Shape, OnlyOf, ReadRows, Goto, Outside
  <2>2. DOMAIN local = Sessions /\ DOMAIN local[s] = DOMAIN NoLocals /\ Task(s) \in Tasks
    BY <1>2 DEF LeaseInv, Shape, SessionShape
  <2>3. /\ local'[s].graph = graphRow /\ local'[s].row = Loaded(Task(s)) /\ local'[s].task = local[s].task
        /\ local'[s].before = local[s].before /\ local'[s].done = local[s].done
    BY <1>4, <2>2 DEF NoLocals
  <2>4. Committed' = Committed /\ StoreSound' /\ DependencyOrder'
    BY SoundStays DEF ReadRows, store
  <2>5. Sound(local'[s].graph) /\ (local'[s].row = "Completed" => Task(s) \in Committed)
    BY <1>4, <2>2, <2>3 DEF CommitInv, StoreSound, Sound, Loaded
  <2>6. (Completing(s)' => Completing(s)) /\ (Waiting(s)' <=> Waiting(s))
    BY <1>2, <2>1, Stages DEF Completing, Waiting
  <2>7. Completing(s) => Task(s) \in Committed
    BY DEF CommitInv, LocalSound
  <2>8. LocalSound(s)'
    BY <2>3, <2>4, <2>5, <2>6, <2>7, LocalGoesOn DEF Task
  <2>9. MemorySound(s)'
    BY <1>2, <2>1, <2>4, MemoryStays
  <2> QED BY <2>1, <2>4, <2>8, <2>9, CommitStep
<1> QED
  BY <1>1, <1>3, <1>4

LEMMA WriteGraphCommits ==
    ASSUME LeaseInv, CommitInv, NEW s \in Sessions, WriteGraphRow(s)
    PROVE  CommitInv'
<1>1. PICK stage \in DOMAIN EventState :
          /\ At(s, stage, "graph")
          /\ graphRow' = [local[s].graph EXCEPT ![Task(s)] = Merge(@, EventState[stage])]
          /\ Goto(s, stage, "row")
  BY DEF WriteGraphRow
<1>2. /\ pc[s] = <<stage, "graph">> /\ pc'[s] = <<stage, "row">> /\ OnlyOf(s)
      /\ UNCHANGED <<mem, local, taskRow, ledger, effects>>
  BY <1>1 DEF LeaseInv, Shape, OnlyOf, WriteGraphRow, At, Goto
<1>3. /\ pc[s] \notin Outside /\ HasGraph(s) /\ HasRow(s) /\ ~HasGraph(s)'
      /\ Completing(s) <=> stage = "Completed"
      /\ Completing(s)' <=> stage = "Completed"
      /\ Waiting(s)' <=> Waiting(s)
  BY <1>2, Stages DEF Outside, Closed, Idle, HasGraph, HasRow, Completing, Waiting
<1>4. LocalSound(s) /\ Task(s) \in Tasks
  BY <1>3 DEF LeaseInv, SessionShape, CommitInv
<1>5. Committed' = Committed /\ DependencyOrder'
  BY <1>2 DEF Committed, CommitInv, DependencyOrder
<1>6. StoreSound'
  <2>1. Sound(graphRow')
    BY <1>1, <1>3, <1>4, Stages, MergedStates DEF LocalSound
  <2> QED BY <1>2, <1>5, <2>1 DEF CommitInv, StoreSound, Sound
<1>7. MemorySound(s)'
  BY <1>2, <1>3, <1>5, MemoryStays DEF Outside
<1>8. LocalSound(s)'
  BY <1>2, <1>3, <1>4, <1>5, LocalGoesOn DEF Task, LocalSound
<1> QED
  BY <1>2, <1>5, <1>6, <1>7, <1>8, CommitStep

LEMMA WriteTaskCommits ==
    ASSUME LeaseInv, CommitInv, NEW s \in Sessions, WriteTaskRow(s)
    PROVE  CommitInv'
<1>1. PICK stage, next :
          /\ stage \in DOMAIN EventState
          /\ At(s, stage, "row") /\ next \in AfterEvent(stage)
          /\ taskRow' = [taskRow EXCEPT ![Task(s)] = Merge(local[s].row, EventState[stage])]
          /\ pc' = [pc EXCEPT ![s] = next]
          /\ local' = IF stage = "AwaitingApproval" THEN [local EXCEPT ![s] = NoLocals]
                      ELSE [local EXCEPT ![s].graph = Null, ![s].row = Null]
  BY DEF WriteTaskRow
<1>2. /\ pc[s] = <<stage, "row">> /\ pc'[s] = next /\ OnlyOf(s)
      /\ UNCHANGED <<mem, graphRow, ledger, effects>>
  BY <1>1 DEF LeaseInv, Shape, OnlyOf, WriteTaskRow, At
<1>3. /\ pc[s] \notin Outside /\ HasRow(s)
      /\ Completing(s) <=> stage = "Completed"
      /\ Waiting(s) <=> stage = "Admitted"
  BY <1>1, <1>2, Stages DEF Outside, Closed, Idle, HasRow, Completing, Waiting
<1>4. /\ next = Idle <=> stage = "AwaitingApproval"
      /\ next[2] \in {"mem", "work"} \/ next = Idle
      /\ next[1] = "Completed" => next[2] = "work"
      /\ stage = "Admitted" => next = <<"Started", "mem">>
  BY <1>1, Stages DEF AfterEvent, Following, Idle
<1>5. ~HasGraph(s)' /\ ~HasRow(s)' /\ ~Completing(s)' /\ (~Waiting(s)' => ~Waiting(s))
  BY <1>2, <1>3, <1>4 DEF HasGraph, HasRow, Completing, Waiting, Idle
<1>6. LocalSound(s) /\ SessionShape(s) /\ Task(s) \in Tasks /\ DOMAIN local = Sessions
  BY <1>3 DEF LeaseInv, Shape, SessionShape, CommitInv
<1>7. Committed' = Committed /\ DependencyOrder'
  BY <1>2 DEF Committed, CommitInv, DependencyOrder
<1>8. StoreSound'
  <2>1. Merge(local[s].row, EventState[stage]) = "Completed" => Task(s) \in Committed
    BY <1>1, <1>3, <1>6, Stages DEF LocalSound, Merge
  <2>2. Sound(taskRow')
    BY <1>1, <1>6, <2>1 DEF CommitInv, StoreSound, Sound
  <2> QED BY <1>2, <1>7, <2>2 DEF CommitInv, StoreSound, Sound
<1>9. MemorySound(s)'
  BY <1>2, <1>3, <1>7, MemoryStays DEF Outside
<1>10. LocalSound(s)'
  <2>1. CASE stage = "AwaitingApproval"
    BY <1>1, <1>2, <1>4, <1>6, <2>1, NoLocalsSound
  <2>2. CASE stage # "AwaitingApproval"
    <3>1. /\ local'[s].before = local[s].before /\ local'[s].done = local[s].done
          /\ local'[s].task = local[s].task
      BY <1>1, <1>6, <2>2 DEF SessionShape, NoLocals
    <3> QED BY <1>5, <1>7, <3>1, LocalGoesOn DEF Task
  <2> QED BY <2>1, <2>2
<1> QED
  BY <1>2, <1>7, <1>8, <1>9, <1>10, CommitStep

\* A new attempt changes no state but to running.
LEMMA AttemptMemory ==
    ASSUME LeaseInv, CommitInv, NEW s \in Sessions, NEW committed \in BOOLEAN, NewAttempt(s, committed),
           pc[s] \notin Outside, pc'[s] # Closed, Committed' = Committed
    PROVE  MemorySound(s)'
<1>1. /\ DOMAIN mem = Sessions /\ Task(s) \in Tasks
      /\ DOMAIN mem[s] = {"graph", "rows", "attempts", "leases", "probes", "policy"}
      /\ Sound(mem[s].graph) /\ Sound(mem[s].rows)
  BY DEF LeaseInv, Shape, SessionShape, CommitInv, MemorySound, Outside
<1>2. PICK base, attempt :
          /\ base = IF committed THEN mem[s] ELSE UpdateState(mem[s], Task(s), "Running")
          /\ mem' = [mem EXCEPT ![s] = [base EXCEPT !.attempts[Task(s)] = @ \cup {attempt}]]
  BY DEF NewAttempt
<1>3. Sound(base.graph) /\ Sound(base.rows) /\ DOMAIN base = DOMAIN mem[s]
  <2>1. CASE committed
    BY <1>1, <1>2, <2>1
  <2>2. CASE ~committed
    <3>1. /\ Sound(UpdateState(mem[s], Task(s), "Running").graph)
          /\ Sound(UpdateState(mem[s], Task(s), "Running").rows)
          /\ DOMAIN UpdateState(mem[s], Task(s), "Running") = DOMAIN mem[s]
      BY <1>1, UpdatedMemory
    <3> QED BY <1>2, <2>2, <3>1
  <2> QED BY <2>1, <2>2
<1>4. mem'[s].graph = base.graph /\ mem'[s].rows = base.rows
  BY <1>1, <1>2, <1>3
<1> QED
  BY <1>3, <1>4 DEF MemorySound, Sound

LEMMA AttemptCommits ==
    ASSUME LeaseInv, CommitInv, NEW s \in Sessions, StartTask(s) \/ FinishAttempt(s)
    PROVE  CommitInv'
<1>1. Committed' = Committed /\ StoreSound' /\ DependencyOrder'
  BY SoundStays DEF StartTask, FinishAttempt, store
<1>2. CASE StartTask(s) /\ Abort(s) /\ UNCHANGED <<mem, clock>>
  BY <1>2, AbortCommits DEF StartTask, At, Closed, store
<1>3. CASE /\ StartTask(s) /\ DependsOn[Task(s)] \subseteq local[s].before \cup local[s].done
           /\ NewAttempt(s, FALSE) /\ Goto(s, "Started", "insert") /\ UNCHANGED local
  <2>1. pc[s] = <<"Started", "mem">> /\ pc'[s] = <<"Started", "insert">> /\ OnlyOf(s)
    BY <1>3 DEF LeaseInv, Shape, OnlyOf, StartTask, At, Goto, NewAttempt
  <2>2. pc[s] \notin Outside /\ pc'[s] # Closed /\ ~HasGraph(s)' /\ ~HasRow(s)' /\ ~Completing(s)'
    BY <2>1 DEF Outside, Closed, Idle, HasGraph, HasRow, Completing
  <2>3. LocalSound(s)'
    BY <1>1, <1>3, <2>2 DEF CommitInv, LocalSound, Task
  <2> QED BY <1>1, <1>3, <2>1, <2>2, <2>3, AttemptMemory, CommitStep
<1>4. CASE FinishAttempt(s)
  <2>1. pc[s] = <<"Finished", "mem">> /\ pc'[s] = <<"Finished", "insert">> /\ OnlyOf(s) /\ local' = local
    BY <1>4 DEF LeaseInv, Shape, OnlyOf, FinishAttempt, At, Goto, NewAttempt
  <2>2. /\ pc[s] \notin Outside /\ pc'[s] # Closed /\ ~HasGraph(s)' /\ ~HasRow(s)' /\ ~Completing(s)'
        /\ ~Waiting(s)
    BY <2>1 DEF Outside, Closed, Idle, HasGraph, HasRow, Completing, Waiting
  <2>3. LocalSound(s)'
    BY <1>1, <2>1, <2>2, LocalGoesOn DEF Task
  <2>4. MemorySound(s)'
    BY <1>1, <1>4, <2>2, AttemptMemory DEF FinishAttempt
  <2> QED BY <1>1, <2>1, <2>3, <2>4, CommitStep
<1> QED
  BY <1>2, <1>3, <1>4 DEF StartTask

LEMMA InsertCommits ==
    ASSUME LeaseInv, CommitInv, NEW s \in Sessions, InsertAttempt(s)
    PROVE  CommitInv'
<1>1. PICK stage \in {"Started", "Finished"} : pc[s] = <<stage, "insert">> /\ pc'[s] = <<stage, "touch">>
  BY DEF LeaseInv, Shape, InsertAttempt, At, Goto
<1>2. /\ pc[s] \notin Outside /\ pc[s] # Closed /\ pc[s] # Idle /\ ~Waiting(s)
      /\ ~HasGraph(s)' /\ ~Completing(s)'
  BY <1>1 DEF Outside, Closed, Idle, HasGraph, Completing, Waiting
<1>3. OnlyOf(s) /\ mem' = mem
  BY DEF LeaseInv, Shape, OnlyOf, InsertAttempt, Goto
<1>4. Committed' = Committed /\ StoreSound' /\ DependencyOrder'
  BY SoundStays DEF InsertAttempt
<1>5. /\ DOMAIN local = Sessions /\ DOMAIN local[s] = DOMAIN NoLocals /\ Task(s) \in Tasks
      /\ local' = [local EXCEPT ![s].row = taskRow[Task(s)]]
  BY <1>2 DEF LeaseInv, Shape, SessionShape, InsertAttempt
<1>6. /\ local'[s].before = local[s].before /\ local'[s].done = local[s].done
      /\ local'[s].task = local[s].task /\ local'[s].row = taskRow[Task(s)]
  BY <1>5 DEF NoLocals
<1>7. taskRow[Task(s)] = "Completed" => Task(s) \in Committed
  BY <1>5 DEF CommitInv, StoreSound, Sound
<1>8. LocalSound(s)'
  BY <1>2, <1>4, <1>6, <1>7, LocalGoesOn DEF Task
<1>9. MemorySound(s)'
  BY <1>2, <1>3, <1>4, MemoryStays
<1> QED
  BY <1>3, <1>4, <1>8, <1>9, CommitStep

LEMMA TouchCommits ==
    ASSUME LeaseInv, CommitInv, NEW s \in Sessions, TouchTaskRow(s)
    PROVE  CommitInv'
<1>1. \/ pc[s] = <<"Started", "touch">> /\ pc'[s] = <<"Lease", "row">>
      \/ pc[s] = <<"Finished", "touch">> /\ pc'[s] = <<"Release", "mem">>
  BY DEF LeaseInv, Shape, TouchTaskRow, At, Goto
<1>2. /\ pc[s] \notin Outside /\ pc[s] # Closed /\ pc[s] # Idle /\ ~Waiting(s) /\ HasRow(s)
      /\ ~HasGraph(s)' /\ ~HasRow(s)' /\ ~Completing(s)'
  BY <1>1 DEF Outside, Closed, Idle, HasGraph, HasRow, Completing, Waiting
<1>3. OnlyOf(s) /\ UNCHANGED <<mem, graphRow, effects, ledger>>
  BY DEF LeaseInv, Shape, OnlyOf, TouchTaskRow, Goto
<1>4. LocalSound(s) /\ Task(s) \in Tasks /\ DOMAIN local = Sessions /\ DOMAIN local[s] = DOMAIN NoLocals
  BY <1>2 DEF LeaseInv, Shape, SessionShape, CommitInv
<1>5. Committed' = Committed /\ DependencyOrder'
  BY <1>3 DEF Committed, CommitInv, DependencyOrder
<1>6. StoreSound'
  <2>1. Sound(taskRow')
    BY <1>2, <1>4 DEF TouchTaskRow, CommitInv, StoreSound, Sound, LocalSound
  <2> QED BY <1>3, <1>5, <2>1 DEF CommitInv, StoreSound, Sound
<1>7. /\ local'[s].before = local[s].before /\ local'[s].done = local[s].done
      /\ local'[s].task = local[s].task
  BY <1>4 DEF TouchTaskRow, NoLocals
<1>8. LocalSound(s)'
  BY <1>2, <1>5, <1>7, LocalGoesOn DEF Task
<1>9. MemorySound(s)'
  BY <1>2, <1>3, <1>5, MemoryStays
<1> QED
  BY <1>3, <1>5, <1>6, <1>8, <1>9, CommitStep

\* Leases have no part in the states.
LEMMA LeaseCommits ==
    ASSUME LeaseInv, CommitInv, NEW s \in Sessions,
           AcquireLeaseRow(s) \/ AcquireLeaseInMemory(s) \/ ReleaseLeaseInMemory(s) \/ ReleaseLeaseRow(s)
    PROVE  CommitInv'
<1>1. /\ pc[s] \in {<<"Lease", "row">>, <<"Lease", "mem">>, <<"Release", "mem">>, <<"Release", "row">>}
      /\ UNCHANGED <<taskRow, graphRow, effects, ledger>>
  BY DEF AcquireLeaseRow, AcquireLeaseInMemory, ReleaseLeaseInMemory, ReleaseLeaseRow, At, store
<1>2. pc[s] \notin Outside /\ pc[s] # Closed /\ pc[s] # Idle /\ ~Waiting(s)
  BY <1>1 DEF Outside, Closed, Idle, Waiting
<1>3. Committed' = Committed /\ StoreSound' /\ DependencyOrder'
  BY <1>1, SoundStays
<1>4. CASE Abort(s)
  <2>1. mem' = mem
    <3>1. CASE AcquireLeaseRow(s)
      BY <3>1 DEF AcquireLeaseRow
    <3>2. CASE AcquireLeaseInMemory(s)
      <4>1. pc[s] = <<"Lease", "mem">> /\ DOMAIN pc = Sessions /\ pc' = [pc EXCEPT ![s] = Idle]
        BY <1>4, <3>2 DEF LeaseInv, Shape, AcquireLeaseInMemory, At, Abort
      <4>2. ~Goto(s, "Planned", "mem")
        BY <4>1 DEF Goto, Idle
      <4> QED BY <3>2, <4>2 DEF AcquireLeaseInMemory
    <3>3. CASE ReleaseLeaseInMemory(s) \/ ReleaseLeaseRow(s)
      <4>1. pc'[s] = Idle
        BY <1>4 DEF LeaseInv, Shape, Abort
      <4>2. pc'[s] \in {<<"Release", "row">>, <<"Next", "-">>}
        BY <3>3 DEF LeaseInv, Shape, ReleaseLeaseInMemory, ReleaseLeaseRow, Goto
      <4> QED BY <4>1, <4>2 DEF Idle
    <3> QED BY <3>1, <3>2, <3>3
  <2> QED BY <1>1, <1>2, <1>4, <2>1, AbortCommits
<1>5. CASE ~Abort(s)
  <2>1. /\ DOMAIN local = Sessions /\ DOMAIN local[s] = DOMAIN NoLocals /\ DOMAIN mem = Sessions
        /\ DOMAIN mem[s] = {"graph", "rows", "attempts", "leases", "probes", "policy"}
    BY <1>2 DEF LeaseInv, Shape, SessionShape
  <2>2. /\ OnlyOf(s)
        /\ pc'[s] \in {<<"Lease", "mem">>, <<"Planned", "mem">>, <<"Release", "row">>, <<"Next", "-">>}
    BY <1>5 DEF LeaseInv, Shape, OnlyOf, AcquireLeaseRow, AcquireLeaseInMemory, ReleaseLeaseInMemory,
                ReleaseLeaseRow, Goto
  <2>3. mem'[s].rows = mem[s].rows /\ mem'[s].graph = mem[s].graph
    BY <1>5, <2>1 DEF AcquireLeaseRow, AcquireLeaseInMemory, ReleaseLeaseInMemory, ReleaseLeaseRow
  <2>4. /\ local'[s].before = local[s].before /\ local'[s].done = local[s].done
        /\ local'[s].task = local[s].task
    BY <1>5, <2>1 DEF AcquireLeaseRow, AcquireLeaseInMemory, ReleaseLeaseInMemory, ReleaseLeaseRow, NoLocals
  <2>5. ~HasGraph(s)' /\ ~HasRow(s)' /\ ~Completing(s)'
    BY <2>2 DEF HasGraph, HasRow, Completing
  <2>6. LocalSound(s)'
    BY <1>2, <1>3, <2>4, <2>5, LocalGoesOn DEF Task
  <2>7. MemorySound(s)'
    BY <1>2, <1>3, <2>3, MemoryStays
  <2> QED BY <1>3, <2>2, <2>6, <2>7, CommitStep
<1> QED
  BY <1>4, <1>5

\* The dependencies of the task were committed before it is executed.
LEMMA ExecuteCommits ==
    ASSUME LeaseInv, CommitInv, NEW s \in Sessions, Execute(s)
    PROVE  CommitInv'
<1>1. /\ pc[s] = <<"Verifying", "work">> /\ pc'[s] = <<"Verifying", "mem">> /\ OnlyOf(s)
      /\ UNCHANGED <<taskRow, graphRow, mem, local, ledger>>
      /\ effects' = [effects EXCEPT ![Task(s)] = @ + 1]
  BY DEF LeaseInv, Shape, OnlyOf, Execute, At, Goto, store
<1>2. /\ pc[s] \notin Outside /\ pc[s] # Closed /\ pc[s] # Idle /\ ~Waiting(s)
      /\ ~HasGraph(s)' /\ ~HasRow(s)' /\ ~Completing(s)'
  BY <1>1 DEF Outside, Closed, Idle, HasGraph, HasRow, Completing, Waiting
<1>3. Task(s) \in Tasks /\ DependsOn[Task(s)] \subseteq Committed
  BY <1>2 DEF LeaseInv, SessionShape, CommitInv, LocalSound
<1>4. Committed' = Committed
  BY <1>1 DEF Committed
<1>5. StoreSound'
  <2>1. effects' \in [Tasks -> Nat]
    BY <1>1, <1>3 DEF CommitInv, StoreSound
  <2> QED BY <1>1, <1>4, <2>1 DEF CommitInv, StoreSound, Sound
<1>6. DependencyOrder'
  <2>1. ASSUME NEW t \in Tasks, effects'[t] > 0, NEW d \in DependsOn[t] PROVE ledger[d] > 0
    <3>1. CASE t = Task(s)
      BY <1>3, <2>1, <3>1 DEF Committed
    <3>2. CASE t # Task(s)
      <4>1. effects[t] > 0
        BY <1>1, <2>1, <3>2 DEF CommitInv, StoreSound
      <4> QED BY <2>1, <4>1 DEF CommitInv, DependencyOrder
    <3> QED BY <3>1, <3>2
  <2> QED BY <1>1, <2>1 DEF DependencyOrder
<1>7. LocalSound(s)'
  BY <1>1, <1>2, <1>4, LocalGoesOn DEF Task
<1>8. MemorySound(s)'
  BY <1>1, <1>2, <1>4, MemoryStays
<1> QED
  BY <1>1, <1>4, <1>5, <1>6, <1>7, <1>8, CommitStep

LEMMA CommitCommits ==
    ASSUME LeaseInv, CommitInv, NEW s \in Sessions, Commit(s)
    PROVE  CommitInv'
<1>1. /\ pc[s] = <<"Completed", "work">> /\ pc'[s] = <<"Completed", "mem">> /\ OnlyOf(s)
      /\ UNCHANGED <<taskRow, graphRow, mem, effects>>
      /\ ledger' = [ledger EXCEPT ![Task(s)] = @ + 1]
      /\ local' = [local EXCEPT ![s].done = @ \cup {Task(s)}]
  BY DEF LeaseInv, Shape, OnlyOf, Commit, At, Goto, store
<1>2. /\ pc[s] \notin Outside /\ pc[s] # Closed /\ pc[s] # Idle /\ ~Waiting(s)
      /\ ~HasGraph(s)' /\ ~HasRow(s)'
  BY <1>1 DEF Outside, Closed, Idle, HasGraph, HasRow, Waiting
<1>3. /\ Task(s) \in Tasks /\ DOMAIN local = Sessions /\ DOMAIN local[s] = DOMAIN NoLocals
      /\ LocalSound(s) /\ StoreSound
  BY <1>2 DEF LeaseInv, Shape, SessionShape, CommitInv
<1>4. \A t \in Tasks : /\ ledger'[t] \in Nat
                       /\ ledger[t] > 0 => ledger'[t] > 0
                       /\ t = Task(s) => ledger'[t] > 0
  BY <1>1, <1>3 DEF StoreSound
<1>5. Committed \subseteq Committed' /\ Task(s) \in Committed'
  BY <1>3, <1>4 DEF Committed
<1>6. StoreSound'
  <2>1. ledger' \in [Tasks -> Nat]
    BY <1>1, <1>3 DEF StoreSound
  <2> QED BY <1>1, <1>3, <1>5, <2>1 DEF StoreSound, Sound
<1>7. DependencyOrder'
  BY <1>1, <1>4, GraphAssumption DEF CommitInv, DependencyOrder
<1>8. /\ local'[s].done = local[s].done \cup {Task(s)}
      /\ local'[s].before = local[s].before /\ local'[s].task = local[s].task
  BY <1>1, <1>3 DEF NoLocals
<1>9. LocalSound(s)'
  BY <1>2, <1>3, <1>5, <1>8 DEF LocalSound, Task
<1>10. MemorySound(s)'
  BY <1>1, <1>2, <1>5, MemoryStays
<1> QED
  BY <1>1, <1>5, <1>6, <1>7, <1>9, <1>10, CommitStep

\* Time, and steps that change nothing.
LEMMA RestCommits ==
    ASSUME CommitInv, Tick \/ UNCHANGED vars
    PROVE  CommitInv'
<1>1. UNCHANGED <<taskRow, graphRow, mem, pc, local, effects, ledger>>
  BY DEF Tick, vars, store
<1>2. Committed' = Committed /\ StoreSound' /\ DependencyOrder'
  BY <1>1, SoundStays
<1>3. ASSUME NEW s \in Sessions PROVE MemorySound(s)' /\ LocalSound(s)'
  <2>1. /\ HasGraph(s)' = HasGraph(s) /\ HasRow(s)' = HasRow(s) /\ Task(s)' = Task(s)
        /\ Completing(s)' = Completing(s) /\ Waiting(s)' = Waiting(s)
    BY <1>1 DEF HasGraph, HasRow, Completing, Waiting, Task
  <2>2. MemorySound(s) /\ LocalSound(s)
    BY DEF CommitInv
  <2> QED BY <1>1, <1>2, <2>1, <2>2 DEF MemorySound, LocalSound, Sound
<1> QED
  BY <1>2, <1>3 DEF CommitInv

-----------------------------------------------------------------------------
\* The inductive invariant, beside that of the leases, by the actions of Next.
THEOREM CommitInvariance == Spec => []CommitInv
<1>1. LeaseInv /\ CommitInv /\ [Next]_vars => CommitInv'
  <2> SUFFICES ASSUME LeaseInv, CommitInv, [Next]_vars PROVE CommitInv'
    OBVIOUS
  <2>1. ASSUME NEW s \in Sessions, Step(s) PROVE CommitInv'
    BY <2>1, BetweenCommits, LeaveCommits, EmitCommits, ReadCommits, WriteGraphCommits, WriteTaskCommits,
       AttemptCommits, InsertCommits, TouchCommits, LeaseCommits, ExecuteCommits, CommitCommits DEF Step
  <2>2. ASSUME NEW s \in Sessions,
               \/ \E policy \in Policies : Open(s, policy)
               \/ \E t \in Tasks, status \in ProbeStatuses : RecordProbe(s, t, status)
               \/ Run(s) \/ Resume(s) \/ Fail(s) \/ Die(s)
        PROVE  CommitInv'
    BY <2>2, OpenCommits, BetweenCommits, LeaveCommits
  <2> QED BY <2>1, <2>2, RestCommits DEF Next
<1> QED
  BY <1>1, CommitInit, LeaseInvariance, PTL DEF Spec

\* No task is executed before every task it depends on is in the ledger,
\* whatever fails or dies and however old the memories of the sessions are.
THEOREM DependenciesFirst == Spec => []DependencyOrder
<1>1. CommitInv => DependencyOrder
  BY DEF CommitInv
<1> QED
  BY <1>1, CommitInvariance, PTL

\* What the store or a session calls completed is in the ledger.
THEOREM CompletedWasCommitted == Spec => []CompletedMeansCommitted
<1>1. LeaseInv /\ CommitInv => CompletedMeansCommitted
  <2> SUFFICES ASSUME LeaseInv, CommitInv, NEW t \in Tasks, ~(ledger[t] > 0)
               PROVE  /\ taskRow[t] # "Completed"
                      /\ graphRow # Null => graphRow[t] # "Completed"
                      /\ \A s \in Sessions : pc[s] # Closed /\ mem[s].graph # Null =>
                             mem[s].rows[t] # "Completed" /\ mem[s].graph[t] # "Completed"
    BY DEF CompletedMeansCommitted
  <2>1. t \notin Committed
    BY DEF Committed
  <2>2. taskRow[t] # "Completed" /\ (graphRow # Null => graphRow[t] # "Completed")
    BY <2>1 DEF CommitInv, StoreSound, Sound
  <2>3. ASSUME NEW s \in Sessions, pc[s] # Closed, mem[s].graph # Null
        PROVE  mem[s].rows[t] # "Completed" /\ mem[s].graph[t] # "Completed"
    BY <2>1, <2>3 DEF CommitInv, MemorySound, Sound
  <2> QED BY <2>2, <2>3
<1> QED
  BY <1>1, LeaseInvariance, CommitInvariance, PTL

-----------------------------------------------------------------------------
(* One session at a time: what was executed is not ready in the store.      *)

Past == TaskState \ {"Ready"}

Typed(states) == DOMAIN states = Tasks /\ \A t \in Tasks : states[t] \in TaskState

RowsTyped ==
    /\ DOMAIN taskRow = Tasks /\ \A t \in Tasks : taskRow[t] \in TaskState \cup {Null}
    /\ graphRow # Null => Typed(graphRow)
    /\ ExecutionIsCheckpointed

GraphTyped(s) ==
    pc[s] # Closed /\ (mem[s].graph # Null \/ pc[s] # Idle) => Typed(mem[s].graph)

\* The row a session will write back is as far as the one in the store.
RowRead(s) ==
    /\ HasGraph(s) => Typed(local[s].graph)
    /\ HasRow(s) => /\ local[s].row \in TaskState \cup {Null}
                    /\ pc[s][2] # "touch" => local[s].row # Null
                    /\ effects[Task(s)] > 0 => local[s].row \in Past
    /\ pc[s] = <<"Verifying", "work">> => taskRow[Task(s)] \in Past

RowInv ==
    /\ \A r, s \in Sessions : pc[r] # Closed /\ pc[s] # Closed => r = s
    /\ RowsTyped
    /\ \A s \in Sessions : GraphTyped(s) /\ RowRead(s)

LEMMA MergeMoves ==
    ASSUME NEW a \in TaskState, NEW b \in TaskState
    PROVE  Merge(a, b) \in TaskState /\ (a \in Past \/ b \in Past => Merge(a, b) \in Past)
  BY DEF TaskState, Past, Merge, Rank

LEMMA StageStates == \A stage \in DOMAIN EventState : EventState[stage] \in TaskState
  BY DEF EventState, EventStates, TaskState

\* A session that has read nothing yet.
LEMMA NothingRead ==
    ASSUME NEW s \in Sessions, ~HasGraph(s), ~HasRow(s), pc[s] # <<"Verifying", "work">>
    PROVE  RowRead(s)
  BY DEF RowRead

LEMMA RowInit == Init => RowInv
<1> SUFFICES ASSUME Init PROVE RowInv
  OBVIOUS
<1>1. RowsTyped
  BY DEF Init, RowsTyped, Typed, ExecutionIsCheckpointed, ImportedState, TaskState
<1>2. ASSUME NEW s \in Sessions PROVE pc[s] = Closed /\ GraphTyped(s) /\ RowRead(s)
  <2>1. pc[s] = Closed
    BY DEF Init
  <2>2. ~HasGraph(s) /\ ~HasRow(s) /\ pc[s] # <<"Verifying", "work">>
    BY <2>1 DEF Closed, HasGraph, HasRow
  <2> QED BY <2>1, <2>2, NothingRead DEF GraphTyped
<1> QED
  BY <1>1, <1>2 DEF RowInv

\* A step of the one session that is open.
LEMMA RowStep ==
    ASSUME RowInv, NEW s \in Sessions, OnlyOf(s), \A r \in Sessions \ {s} : pc[r] = Closed,
           RowsTyped', GraphTyped(s)', RowRead(s)'
    PROVE  RowInv'
<1>1. ASSUME NEW r \in Sessions, r # s PROVE pc'[r] = Closed /\ GraphTyped(r)' /\ RowRead(r)'
  <2>1. pc'[r] = Closed
    BY <1>1 DEF OnlyOf
  <2> QED BY <2>1 DEF Closed, GraphTyped, RowRead, HasGraph, HasRow
<1> QED
  BY <1>1 DEF RowInv

LEMMA OthersClosed ==
    ASSUME RowInv, NEW s \in Sessions, pc[s] # Closed
    PROVE  \A r \in Sessions \ {s} : pc[r] = Closed
  BY DEF RowInv

LEMMA RowsStay ==
    ASSUME RowInv, UNCHANGED <<taskRow, graphRow, effects>>
    PROVE  RowsTyped'
  BY DEF RowInv, RowsTyped, Typed, ExecutionIsCheckpointed

LEMMA GraphStays ==
    ASSUME RowInv, NEW s \in Sessions, mem'[s].graph = mem[s].graph, pc[s] # Closed,
           pc[s] = Idle => pc'[s] = Idle \/ mem[s].graph # Null
    PROVE  GraphTyped(s)'
  BY DEF RowInv, GraphTyped, Typed

\* Opening, leaving, and steps between tasks.
LEMMA OpenRows ==
    ASSUME Exclusive, LeaseInv, RowInv, NEW s \in Sessions, NEW policy \in Policies, Open(s, policy)
    PROVE  RowInv'
<1>1. OnlyOf(s) /\ pc'[s] = Idle /\ mem'[s].graph = graphRow
  BY DEF LeaseInv, Shape, Open, OnlyOf
<1>2. \A r \in Sessions : pc[r] = Closed
  BY DEF Open
<1>3. RowsTyped'
  BY RowsStay DEF Open, store
<1>4. GraphTyped(s)'
  BY <1>1 DEF RowInv, RowsTyped, GraphTyped, Typed
<1>5. RowRead(s)'
  BY <1>1 DEF RowRead, Idle, HasGraph, HasRow
<1> QED
  BY <1>1, <1>2, <1>3, <1>4, <1>5, RowStep

LEMMA LeaveRows ==
    ASSUME LeaseInv, RowInv, NEW s \in Sessions, Die(s) \/ Fail(s) \/ Return(s)
    PROVE  RowInv'
<1>1. OnlyOf(s) /\ pc'[s] \in {Closed, Idle} /\ pc[s] # Closed
  <2>1. OnlyOf(s) /\ pc'[s] \in {Closed, Idle}
    BY DEF LeaseInv, Shape, Die, Fail, Return, OnlyOf
  <2>2. pc[s] # Closed
    BY DEF Die, Fail, Return, At, Closed
  <2> QED BY <2>1, <2>2
<1>2. RowsTyped'
  BY RowsStay DEF Die, Fail, Return, store
<1>3. pc'[s] = Closed \/ (mem'[s] = mem[s] /\ pc'[s] = Idle)
  BY DEF LeaseInv, Shape, Die, Fail, Return
<1>4. GraphTyped(s)'
  BY <1>1, <1>3, GraphStays DEF GraphTyped
<1>5. RowRead(s)'
  BY <1>1 DEF RowRead, Closed, Idle, HasGraph, HasRow
<1> QED
  BY <1>1, <1>2, <1>4, <1>5, OthersClosed, RowStep

LEMMA AbortRows ==
    ASSUME LeaseInv, RowInv, NEW s \in Sessions, pc[s] # Closed, Abort(s),
           UNCHANGED <<taskRow, graphRow, effects, mem>>
    PROVE  RowInv'
<1>1. OnlyOf(s) /\ pc'[s] = Idle
  BY DEF LeaseInv, Shape, OnlyOf, Abort
<1>2. RowRead(s)'
  BY <1>1 DEF RowRead, Idle, HasGraph, HasRow
<1> QED
  BY <1>1, <1>2, RowsStay, GraphStays, OthersClosed, RowStep

LEMMA BetweenRows ==
    ASSUME LeaseInv, RowInv, NEW s \in Sessions,
           \/ \E t \in Tasks, status \in ProbeStatuses : RecordProbe(s, t, status)
           \/ Run(s) \/ Resume(s) \/ SaveGraphRow(s) \/ SaveTaskRow(s) \/ Replan(s) \/ TakeTask(s)
    PROVE  RowInv'
<1>1. /\ pc[s] \in {Idle, <<"SaveGraph", "graph">>, <<"SaveGraph", "row">>, <<"Next", "-">>}
      /\ pc'[s] \in {Idle, <<"SaveGraph", "graph">>, <<"SaveGraph", "row">>, <<"Next", "-">>,
                     <<"Admitted", "mem">>}
      /\ OnlyOf(s) /\ effects' = effects
  BY DEF LeaseInv, Shape, OnlyOf, RecordProbe, Run, Resume, SaveGraphRow, SaveTaskRow, Replan, TakeTask,
         At, Goto
<1>2. /\ pc[s] # Closed /\ DOMAIN mem = Sessions
      /\ DOMAIN mem[s] = {"graph", "rows", "attempts", "leases", "probes", "policy"}
  BY <1>1 DEF LeaseInv, Shape, SessionShape, Closed, Idle
<1>3. GraphTyped(s) /\ RowsTyped
  BY DEF RowInv
<1>4. RowsTyped'
  <2>1. CASE SaveGraphRow(s)
    <3>1. Typed(mem[s].graph) /\ graphRow' = mem[s].graph /\ taskRow' = taskRow
      BY <1>2, <1>3, <2>1 DEF SaveGraphRow, At, Idle, GraphTyped
    <3> QED BY <1>1, <1>3, <3>1 DEF RowsTyped, Typed, ExecutionIsCheckpointed
  <2>2. CASE SaveTaskRow(s)
    <3>1. Typed(mem[s].graph) /\ graphRow' = graphRow
      BY <1>2, <1>3, <2>2 DEF SaveTaskRow, At, Idle, GraphTyped
    <3>2. PICK q : taskRow' = [taskRow EXCEPT ![q] = IF @ = Null THEN mem[s].graph[q] ELSE Merge(@, mem[s].graph[q])]
      BY <2>2 DEF SaveTaskRow
    <3>3. ASSUME NEW t \in Tasks
          PROVE  /\ taskRow'[t] \in TaskState \cup {Null}
                 /\ effects[t] > 0 => taskRow'[t] \notin {Null, "Ready"}
      <4>1. CASE t # q
        BY <1>3, <3>2, <4>1 DEF RowsTyped, ExecutionIsCheckpointed
      <4>2. CASE t = q /\ taskRow[t] = Null
        BY <1>3, <3>1, <3>2, <4>2 DEF RowsTyped, Typed, ExecutionIsCheckpointed
      <4>3. CASE t = q /\ taskRow[t] # Null
        <5>1. taskRow'[t] = Merge(taskRow[t], mem[s].graph[t])
          BY <1>3, <3>2, <4>3 DEF RowsTyped
        <5>2. taskRow[t] \in TaskState /\ mem[s].graph[t] \in TaskState
          BY <1>3, <3>1, <4>3 DEF RowsTyped, Typed
        <5>3. effects[t] > 0 => taskRow[t] \in Past
          BY <1>3, <5>2 DEF RowsTyped, ExecutionIsCheckpointed, Past
        <5> QED BY <5>1, <5>2, <5>3, MergeMoves, NullAssumption DEF Past
      <4> QED BY <4>1, <4>2, <4>3
    <3>4. DOMAIN taskRow' = Tasks
      BY <1>3, <3>2 DEF RowsTyped
    <3> QED BY <1>1, <1>3, <3>1, <3>3, <3>4 DEF RowsTyped, Typed, ExecutionIsCheckpointed
  <2>3. CASE ~SaveGraphRow(s) /\ ~SaveTaskRow(s)
    <3>1. UNCHANGED <<taskRow, graphRow>>
      BY <2>3 DEF RecordProbe, Run, Resume, Replan, TakeTask, store
    <3> QED BY <1>1, <3>1, RowsStay
  <2> QED BY <2>1, <2>2, <2>3
<1>5. GraphTyped(s)'
  <2>1. CASE Run(s)
    BY <1>2, <2>1 DEF Run, GraphTyped, Typed, NewState, TaskState
  <2>2. CASE ~Run(s)
    <3>1. mem'[s].graph = mem[s].graph
      BY <1>2, <2>2 DEF RecordProbe, Resume, SaveGraphRow, SaveTaskRow, Replan, TakeTask
    <3>2. pc[s] = Idle => pc'[s] = Idle \/ mem[s].graph # Null
      BY <2>2 DEF RecordProbe, Resume, SaveGraphRow, SaveTaskRow, Replan, TakeTask, At, Idle
    <3> QED BY <1>2, <3>1, <3>2, GraphStays
  <2> QED BY <2>1, <2>2
<1>6. RowRead(s)'
  BY <1>1 DEF RowRead, Idle, HasGraph, HasRow
<1> QED
  BY <1>1, <1>2, <1>4, <1>5, <1>6, OthersClosed, RowStep

\* A merged state is a state.
LEMMA TypedMerge ==
    ASSUME NEW states, Typed(states), NEW t \in Tasks, NEW state \in TaskState
    PROVE  Typed([states EXCEPT ![t] = Merge(@, state)])
<1>1. states[t] \in TaskState
  BY DEF Typed
<1>2. Merge(states[t], state) \in TaskState
  BY <1>1, MergeMoves
<1> QED
  BY <1>2 DEF Typed

LEMMA EmitRows ==
    ASSUME LeaseInv, RowInv, NEW s \in Sessions, EmitInMemory(s)
    PROVE  RowInv'
<1>1. PICK stage \in DOMAIN EventState : /\ At(s, stage, "mem")
                                         /\ mem' = [mem EXCEPT ![s] = UpdateState(@, Task(s), EventState[stage])]
                                         /\ Goto(s, stage, "read")
  BY DEF EmitInMemory
<1>2. pc[s] = <<stage, "mem">> /\ pc'[s] = <<stage, "read">> /\ OnlyOf(s)
  BY <1>1 DEF LeaseInv, Shape, OnlyOf, EmitInMemory, At, Goto
<1>3. pc[s] \notin Outside /\ pc[s] # Closed /\ pc[s] # Idle
  BY <1>2, Stages DEF Outside, Closed, Idle
<1>4. /\ DOMAIN mem = Sessions /\ Task(s) \in Tasks /\ Typed(mem[s].graph)
      /\ DOMAIN mem[s] = {"graph", "rows", "attempts", "leases", "probes", "policy"}
  BY <1>3 DEF LeaseInv, Shape, SessionShape, RowInv, GraphTyped
<1>5. mem'[s].graph = [mem[s].graph EXCEPT ![Task(s)] = Merge(@, EventState[stage])]
  BY <1>1, <1>4 DEF UpdateState
<1>6. Typed(mem'[s].graph)
  <2>1. EventState[stage] \in TaskState
    BY StageStates
  <2> QED BY <1>4, <1>5, <2>1, TypedMerge
<1>7. GraphTyped(s)'
  BY <1>6 DEF GraphTyped, Typed
<1>8. RowsTyped'
  BY RowsStay DEF EmitInMemory, store
<1>9. RowRead(s)'
  BY <1>2 DEF RowRead, HasGraph, HasRow
<1> QED
  BY <1>2, <1>3, <1>7, <1>8, <1>9, OthersClosed, RowStep

LEMMA ReadsRows ==
    ASSUME LeaseInv, RowInv, NEW s \in Sessions, ReadRows(s)
    PROVE  RowInv'
<1>1. PICK stage \in DOMAIN EventState :
          /\ At(s, stage, "read")
          /\ \/ Abort(s)
             \/ /\ graphRow # Null
                /\ local' = [local EXCEPT ![s].graph = graphRow, ![s].row = Loaded(Task(s))]
                /\ Goto(s, stage, "graph")
  BY DEF ReadRows
<1>2. pc[s] = <<stage, "read">> /\ pc[s] \notin Outside /\ pc[s] # Closed /\ pc[s] # Idle
  BY <1>1, Stages DEF At, Outside, Closed, Idle
<1>3. CASE Abort(s)
  BY <1>2, <1>3, AbortRows DEF ReadRows, store
<1>4. CASE /\ graphRow # Null
           /\ local' = [local EXCEPT ![s].graph = graphRow, ![s].row = Loaded(Task(s))]
           /\ Goto(s, stage, "graph")
  <2>1. pc'[s] = <<stage, "graph">> /\ OnlyOf(s) /\ mem' = mem
    BY <1>4 DEF LeaseInv, Shape, OnlyOf, ReadRows, Goto
  <2>2. DOMAIN local = Sessions /\ DOMAIN local[s] = DOMAIN NoLocals /\ Task(s) \in Tasks
    BY <1>2 DEF LeaseInv, Shape, SessionShape
  <2>3. local'[s].graph = graphRow /\ local'[s].row = Loaded(Task(s)) /\ local'[s].task = local[s].task
    BY <1>4, <2>2 DEF NoLocals
  <2>4. Loaded(Task(s)) \in TaskState /\ (effects[Task(s)] > 0 => Loaded(Task(s)) \in Past)
    BY <1>4, <2>2 DEF RowInv, RowsTyped, Typed, ExecutionIsCheckpointed, Loaded, Past
  <2>5. effects' = effects /\ taskRow' = taskRow
    BY DEF ReadRows, store
  <2>6. RowRead(s)'
    <3>1. Typed(local[s].graph)'
      BY <1>4, <2>3 DEF RowInv, RowsTyped, Typed
    <3>2. Loaded(Task(s)) # Null /\ Task(s)' = Task(s)
      BY <2>3, <2>4, NullAssumption DEF Task
    <3>3. pc'[s] # <<"Verifying", "work">>
      BY <2>1
    <3> QED BY <2>3, <2>4, <2>5, <3>1, <3>2, <3>3 DEF RowRead
  <2>7. RowsTyped' /\ GraphTyped(s)'
    BY <1>2, <2>1, RowsStay, GraphStays DEF ReadRows, store
  <2> QED BY <1>2, <2>1, <2>6, <2>7, OthersClosed, RowStep
<1> QED
  BY <1>1, <1>3, <1>4

LEMMA WriteGraphRows ==
    ASSUME LeaseInv, RowInv, NEW s \in Sessions, WriteGraphRow(s)
    PROVE  RowInv'
<1>1. PICK stage \in DOMAIN EventState :
          /\ At(s, stage, "graph")
          /\ graphRow' = [local[s].graph EXCEPT ![Task(s)] = Merge(@, EventState[stage])]
          /\ Goto(s, stage, "row")
  BY DEF WriteGraphRow
<1>2. /\ pc[s] = <<stage, "graph">> /\ pc'[s] = <<stage, "row">> /\ OnlyOf(s)
      /\ UNCHANGED <<mem, local, taskRow, effects>>
  BY <1>1 DEF LeaseInv, Shape, OnlyOf, WriteGraphRow, At, Goto
<1>3. pc[s] \notin Outside /\ pc[s] # Closed /\ pc[s] # Idle /\ HasGraph(s) /\ HasRow(s) /\ ~HasGraph(s)'
  BY <1>2, Stages DEF Outside, Closed, Idle, HasGraph, HasRow
<1>4. RowRead(s) /\ Task(s) \in Tasks
  BY <1>3 DEF LeaseInv, SessionShape, RowInv
<1>5. Typed(graphRow')
  BY <1>1, <1>3, <1>4, StageStates, TypedMerge DEF RowRead
<1>6. RowsTyped'
  BY <1>2, <1>5 DEF RowInv, RowsTyped, Typed, ExecutionIsCheckpointed
<1>7. RowRead(s)'
  BY <1>2, <1>3, <1>4 DEF RowRead, Task
<1> QED
  BY <1>2, <1>3, <1>6, <1>7, GraphStays, OthersClosed, RowStep

\* The row of the event Executing is running, or further.
LEMMA WriteTaskRows ==
    ASSUME LeaseInv, RowInv, NEW s \in Sessions, WriteTaskRow(s)
    PROVE  RowInv'
<1>1. PICK stage, next :
          /\ stage \in DOMAIN EventState
          /\ At(s, stage, "row") /\ next \in AfterEvent(stage)
          /\ taskRow' = [taskRow EXCEPT ![Task(s)] = Merge(local[s].row, EventState[stage])]
          /\ pc' = [pc EXCEPT ![s] = next]
          /\ local' = IF stage = "AwaitingApproval" THEN [local EXCEPT ![s] = NoLocals]
                      ELSE [local EXCEPT ![s].graph = Null, ![s].row = Null]
  BY DEF WriteTaskRow
<1>2. /\ pc[s] = <<stage, "row">> /\ pc'[s] = next /\ OnlyOf(s)
      /\ UNCHANGED <<mem, graphRow, effects>>
  BY <1>1 DEF LeaseInv, Shape, OnlyOf, WriteTaskRow, At
<1>3. pc[s] \notin Outside /\ pc[s] # Closed /\ pc[s] # Idle /\ HasRow(s)
  BY <1>1, <1>2, Stages DEF Outside, Closed, Idle, HasRow
<1>4. /\ next[2] \in {"mem", "work"} \/ next = Idle
      /\ next = <<"Verifying", "work">> => stage = "Executing"
  BY <1>1, Stages DEF AfterEvent, Following, Idle
<1>5. /\ RowRead(s) /\ Task(s) \in Tasks /\ DOMAIN local = Sessions
      /\ DOMAIN local[s] = DOMAIN NoLocals
  BY <1>3 DEF LeaseInv, Shape, SessionShape, RowInv
<1>6. PICK row : row = Merge(local[s].row, EventState[stage])
  OBVIOUS
<1>7. /\ row \in TaskState /\ (effects[Task(s)] > 0 => row \in Past)
      /\ stage = "Executing" => row \in Past
  <2>1. local[s].row \in TaskState /\ (effects[Task(s)] > 0 => local[s].row \in Past)
    BY <1>2, <1>3, <1>5 DEF RowRead
  <2>2. EventState[stage] \in TaskState
    BY <1>1, StageStates
  <2>3. stage = "Executing" => EventState[stage] \in Past
    BY DEF EventState, EventStates, Past, TaskState
  <2> QED BY <1>6, <2>1, <2>2, <2>3, MergeMoves
<1>8. RowsTyped'
  BY <1>1, <1>2, <1>5, <1>6, <1>7, NullAssumption DEF RowInv, RowsTyped, Typed, ExecutionIsCheckpointed, Past
<1>9. RowRead(s)'
  <2>1. ~HasGraph(s)' /\ ~HasRow(s)'
    BY <1>2, <1>4 DEF HasGraph, HasRow, Idle
  <2>2. CASE pc'[s] # <<"Verifying", "work">>
    BY <2>1, <2>2 DEF RowRead
  <2>3. CASE pc'[s] = <<"Verifying", "work">>
    <3>1. stage = "Executing"
      BY <1>2, <1>4, <2>3
    <3>2. local'[s].task = local[s].task
      BY <1>1, <1>5, <3>1 DEF NoLocals
    <3>3. taskRow'[Task(s)] \in Past
      BY <1>1, <1>5, <1>6, <1>7, <3>1 DEF RowInv, RowsTyped
    <3> QED BY <2>1, <3>2, <3>3 DEF RowRead, Task
  <2> QED BY <2>2, <2>3
<1> QED
  BY <1>2, <1>3, <1>8, <1>9, GraphStays, OthersClosed, RowStep

LEMMA AttemptRows ==
    ASSUME LeaseInv, RowInv, NEW s \in Sessions, StartTask(s) \/ FinishAttempt(s)
    PROVE  RowInv'
<1>1. CASE StartTask(s) /\ Abort(s) /\ UNCHANGED <<mem, clock>>
  BY <1>1, AbortRows DEF StartTask, At, Closed, store
<1>2. ASSUME NEW committed \in BOOLEAN, NewAttempt(s, committed), UNCHANGED <<taskRow, graphRow, effects>>,
             pc[s] \in {<<"Started", "mem">>, <<"Finished", "mem">>},
             Goto(s, "Started", "insert") \/ Goto(s, "Finished", "insert"), UNCHANGED local
      PROVE  RowInv'
  <2>1. /\ pc[s] \notin Outside /\ pc[s] # Closed /\ pc[s] # Idle
        /\ pc'[s] \in {<<"Started", "insert">>, <<"Finished", "insert">>} /\ OnlyOf(s)
    BY <1>2 DEF LeaseInv, Shape, OnlyOf, Goto, NewAttempt, Outside, Closed, Idle
  <2>2. /\ DOMAIN mem = Sessions /\ Task(s) \in Tasks /\ Typed(mem[s].graph)
        /\ DOMAIN mem[s] = {"graph", "rows", "attempts", "leases", "probes", "policy"}
    BY <2>1 DEF LeaseInv, Shape, SessionShape, RowInv, GraphTyped
  <2>3. PICK base, attempt :
            /\ base = IF committed THEN mem[s] ELSE UpdateState(mem[s], Task(s), "Running")
            /\ mem' = [mem EXCEPT ![s] = [base EXCEPT !.attempts[Task(s)] = @ \cup {attempt}]]
    BY <1>2 DEF NewAttempt
  <2>4. Typed(base.graph) /\ DOMAIN base = DOMAIN mem[s]
    <3>1. CASE committed
      BY <2>2, <2>3, <3>1
    <3>2. CASE ~committed
      <4>1. /\ base.graph = [mem[s].graph EXCEPT ![Task(s)] = Merge(@, "Running")]
            /\ DOMAIN base = DOMAIN mem[s]
        BY <2>2, <2>3, <3>2 DEF UpdateState
      <4>2. "Running" \in TaskState
        BY DEF TaskState
      <4> QED BY <2>2, <4>1, <4>2, TypedMerge
    <3> QED BY <3>1, <3>2
  <2>5. mem'[s].graph = base.graph
    BY <2>2, <2>3, <2>4
  <2>6. GraphTyped(s)'
    BY <2>4, <2>5 DEF GraphTyped, Typed
  <2>7. RowRead(s)'
    BY <2>1 DEF RowRead, HasGraph, HasRow
  <2> QED BY <1>2, <2>1, <2>6, <2>7, RowsStay, OthersClosed, RowStep
<1>3. CASE StartTask(s) /\ NewAttempt(s, FALSE) /\ Goto(s, "Started", "insert") /\ UNCHANGED local
  BY <1>2, <1>3 DEF StartTask, At, store
<1>4. CASE FinishAttempt(s)
  BY <1>2, <1>4 DEF FinishAttempt, At, store
<1> QED
  BY <1>1, <1>3, <1>4 DEF StartTask

\* The row is read between statements of a session that is alone, and
\* written back as it was.
LEMMA InsertRows ==
    ASSUME LeaseInv, RowInv, NEW s \in Sessions, InsertAttempt(s)
    PROVE  RowInv'
<1>1. PICK stage \in {"Started", "Finished"} : pc[s] = <<stage, "insert">> /\ pc'[s] = <<stage, "touch">>
  BY DEF LeaseInv, Shape, InsertAttempt, At, Goto
<1>2. pc[s] \notin Outside /\ pc[s] # Closed /\ pc[s] # Idle
  BY <1>1 DEF Outside, Closed, Idle
<1>3. OnlyOf(s) /\ UNCHANGED <<taskRow, graphRow, effects, mem>>
  BY DEF LeaseInv, Shape, OnlyOf, InsertAttempt, Goto
<1>4. /\ DOMAIN local = Sessions /\ DOMAIN local[s] = DOMAIN NoLocals /\ Task(s) \in Tasks
      /\ local' = [local EXCEPT ![s].row = taskRow[Task(s)]]
  BY <1>2 DEF LeaseInv, Shape, SessionShape, InsertAttempt
<1>5. local'[s].task = local[s].task /\ local'[s].row = taskRow[Task(s)]
  BY <1>4 DEF NoLocals
<1>6. /\ taskRow[Task(s)] \in TaskState \cup {Null}
      /\ effects[Task(s)] > 0 => taskRow[Task(s)] \in Past
  BY <1>4 DEF RowInv, RowsTyped, ExecutionIsCheckpointed, Past
<1>7. RowRead(s)'
  <2>1. ~HasGraph(s)' /\ pc'[s][2] = "touch" /\ pc'[s] # <<"Verifying", "work">>
    BY <1>1 DEF HasGraph
  <2> QED BY <1>3, <1>5, <1>6, <2>1 DEF RowRead, Task
<1> QED
  BY <1>2, <1>3, <1>7, RowsStay, GraphStays, OthersClosed, RowStep

LEMMA TouchRows ==
    ASSUME LeaseInv, RowInv, NEW s \in Sessions, TouchTaskRow(s)
    PROVE  RowInv'
<1>1. \/ pc[s] = <<"Started", "touch">> /\ pc'[s] = <<"Lease", "row">>
      \/ pc[s] = <<"Finished", "touch">> /\ pc'[s] = <<"Release", "mem">>
  BY DEF LeaseInv, Shape, TouchTaskRow, At, Goto
<1>2. /\ pc[s] \notin Outside /\ pc[s] # Closed /\ pc[s] # Idle /\ HasRow(s)
      /\ ~HasGraph(s)' /\ ~HasRow(s)' /\ pc'[s] # <<"Verifying", "work">>
  BY <1>1 DEF Outside, Closed, Idle, HasGraph, HasRow
<1>3. OnlyOf(s) /\ UNCHANGED <<mem, graphRow, effects>>
  BY DEF LeaseInv, Shape, OnlyOf, TouchTaskRow, Goto
<1>4. RowRead(s) /\ Task(s) \in Tasks /\ RowsTyped
  BY <1>2 DEF LeaseInv, SessionShape, RowInv
<1>5. RowsTyped'
  <2>1. CASE local[s].row = Null
    <3>1. taskRow' = taskRow
      BY <2>1 DEF TouchTaskRow
    <3> QED BY <1>3, <3>1, RowsStay
  <2>2. CASE local[s].row # Null
    <3>1. taskRow' = [taskRow EXCEPT ![Task(s)] = local[s].row]
      BY <2>2 DEF TouchTaskRow
    <3>2. local[s].row \in TaskState /\ (effects[Task(s)] > 0 => local[s].row \in Past)
      BY <1>2, <1>4, <2>2 DEF RowRead
    <3> QED BY <1>3, <1>4, <3>1, <3>2, NullAssumption DEF RowsTyped, Typed, ExecutionIsCheckpointed, Past
  <2> QED BY <2>1, <2>2
<1>6. RowRead(s)'
  BY <1>2 DEF RowRead
<1> QED
  BY <1>2, <1>3, <1>5, <1>6, GraphStays, OthersClosed, RowStep

LEMMA WorkRows ==
    ASSUME LeaseInv, CommitInv, RowInv, NEW s \in Sessions, Execute(s) \/ Commit(s)
    PROVE  RowInv'
<1>1. /\ \/ pc[s] = <<"Verifying", "work">> /\ pc'[s] = <<"Verifying", "mem">>
         \/ pc[s] = <<"Completed", "work">> /\ pc'[s] = <<"Completed", "mem">>
      /\ OnlyOf(s) /\ UNCHANGED <<taskRow, graphRow, mem>>
  BY DEF LeaseInv, Shape, OnlyOf, Execute, Commit, At, Goto, store
<1>2. /\ pc[s] \notin Outside /\ pc[s] # Closed /\ pc[s] # Idle
      /\ ~HasGraph(s)' /\ ~HasRow(s)' /\ pc'[s] # <<"Verifying", "work">>
  BY <1>1 DEF Outside, Closed, Idle, HasGraph, HasRow
<1>3. RowsTyped'
  <2>1. CASE Execute(s)
    <3>1. /\ pc[s] = <<"Verifying", "work">> /\ Task(s) \in Tasks
          /\ effects' = [effects EXCEPT ![Task(s)] = @ + 1]
      BY <1>2, <2>1 DEF Execute, At, LeaseInv, SessionShape
    <3>2. taskRow[Task(s)] \in Past
      BY <3>1 DEF RowInv, RowRead
    <3>3. ASSUME NEW t \in Tasks, effects'[t] > 0 PROVE taskRow[t] \notin {Null, "Ready"}
      <4>1. CASE t = Task(s)
        BY <3>2, <4>1, NullAssumption DEF Past
      <4>2. CASE t # Task(s)
        <5>1. effects[t] > 0
          BY <3>1, <3>3, <4>2 DEF CommitInv, StoreSound
        <5> QED BY <5>1 DEF RowInv, RowsTyped, ExecutionIsCheckpointed
      <4> QED BY <4>1, <4>2
    <3> QED BY <1>1, <3>3 DEF RowInv, RowsTyped, Typed, ExecutionIsCheckpointed
  <2>2. CASE Commit(s)
    BY <2>2, RowsStay DEF Commit, store
  <2> QED BY <2>1, <2>2
<1>4. RowRead(s)'
  BY <1>2 DEF RowRead
<1> QED
  BY <1>1, <1>2, <1>3, <1>4, GraphStays, OthersClosed, RowStep

\* Leases have no part in the rows of tasks.
LEMMA LeaseRows ==
    ASSUME LeaseInv, RowInv, NEW s \in Sessions,
           AcquireLeaseRow(s) \/ AcquireLeaseInMemory(s) \/ ReleaseLeaseInMemory(s) \/ ReleaseLeaseRow(s)
    PROVE  RowInv'
<1>1. /\ pc[s] \in {<<"Lease", "row">>, <<"Lease", "mem">>, <<"Release", "mem">>, <<"Release", "row">>}
      /\ UNCHANGED <<taskRow, graphRow, effects>>
  BY DEF AcquireLeaseRow, AcquireLeaseInMemory, ReleaseLeaseInMemory, ReleaseLeaseRow, At, store
<1>2. pc[s] \notin Outside /\ pc[s] # Closed /\ pc[s] # Idle
  BY <1>1 DEF Outside, Closed, Idle
<1>3. /\ OnlyOf(s)
      /\ pc'[s] \in {Idle, <<"Lease", "mem">>, <<"Planned", "mem">>, <<"Release", "row">>, <<"Next", "-">>}
  BY DEF LeaseInv, Shape, OnlyOf, AcquireLeaseRow, AcquireLeaseInMemory, ReleaseLeaseInMemory,
         ReleaseLeaseRow, Goto, Abort
<1>4. /\ DOMAIN mem = Sessions
      /\ DOMAIN mem[s] = {"graph", "rows", "attempts", "leases", "probes", "policy"}
  BY <1>2 DEF LeaseInv, Shape, SessionShape
<1>5. mem'[s].graph = mem[s].graph
  BY <1>4 DEF AcquireLeaseRow, AcquireLeaseInMemory, ReleaseLeaseInMemory, ReleaseLeaseRow
<1>6. RowRead(s)'
  BY <1>3 DEF RowRead, HasGraph, HasRow, Idle
<1> QED
  BY <1>1, <1>2, <1>3, <1>5, <1>6, RowsStay, GraphStays, OthersClosed, RowStep

LEMMA RestRows ==
    ASSUME RowInv, Tick \/ UNCHANGED vars
    PROVE  RowInv'
<1>1. UNCHANGED <<taskRow, graphRow, mem, pc, local, effects>>
  BY DEF Tick, vars, store
<1>2. RowsTyped'
  BY <1>1, RowsStay
<1>3. ASSUME NEW s \in Sessions PROVE GraphTyped(s)' /\ RowRead(s)'
  <2>1. HasGraph(s)' = HasGraph(s) /\ HasRow(s)' = HasRow(s) /\ Task(s)' = Task(s)
    BY <1>1 DEF HasGraph, HasRow, Task
  <2>2. GraphTyped(s) /\ RowRead(s)
    BY DEF RowInv
  <2> QED BY <1>1, <2>1, <2>2 DEF GraphTyped, RowRead, Typed
<1> QED
  BY <1>1, <1>2, <1>3 DEF RowInv

\* Where one session is open at a time, what it read of the store and what it
\* wrote there stay in step.
THEOREM RowInvariance == Exclusive /\ Spec => []RowInv
<1>1. Exclusive /\ LeaseInv /\ CommitInv /\ RowInv /\ [Next]_vars => RowInv'
  <2> SUFFICES ASSUME Exclusive, LeaseInv, CommitInv, RowInv, [Next]_vars PROVE RowInv'
    OBVIOUS
  <2>1. ASSUME NEW s \in Sessions, Step(s) PROVE RowInv'
    BY <2>1, BetweenRows, LeaveRows, EmitRows, ReadsRows, WriteGraphRows, WriteTaskRows, AttemptRows,
       InsertRows, TouchRows, LeaseRows, WorkRows DEF Step
  <2>2. ASSUME NEW s \in Sessions,
               \/ \E policy \in Policies : Open(s, policy)
               \/ \E t \in Tasks, status \in ProbeStatuses : RecordProbe(s, t, status)
               \/ Run(s) \/ Resume(s) \/ Fail(s) \/ Die(s)
        PROVE  RowInv'
    BY <2>2, OpenRows, BetweenRows, LeaveRows
  <2> QED BY <2>1, <2>2, RestRows DEF Next
<1>2. CASE Exclusive
  <2>1. LeaseInv /\ CommitInv /\ RowInv /\ [Next]_vars => RowInv'
    BY <1>1, <1>2
  <2> QED
    BY <2>1, RowInit, LeaseInvariance, CommitInvariance, PTL DEF Spec
<1>3. CASE ~Exclusive
  BY <1>3
<1> QED
  BY <1>2, <1>3

\* There the store neither runs ahead of the kernel nor stays behind what was
\* executed.
THEOREM CheckpointsHold == Exclusive /\ Spec => []CheckpointsAgree
<1>1. RowInv /\ CompletedMeansCommitted => CheckpointsAgree
  BY DEF RowInv, RowsTyped, CheckpointsAgree
<1>2. CASE Exclusive
  <2>1. Spec => []RowInv
    BY <1>2, RowInvariance
  <2> QED
    BY <1>1, <2>1, CompletedWasCommitted, PTL
<1>3. CASE ~Exclusive
  BY <1>3
<1> QED
  BY <1>2, <1>3
=============================================================================
