------------------------ MODULE RuntimeHistoryProofs ------------------------
(***************************************************************************)
(* What a session may start, what is executed once, and what a finished    *)
(* task leaves in the store.                                               *)
(***************************************************************************)
EXTENDS RuntimeProofs

-----------------------------------------------------------------------------
(* One session at a time: what it knows of each task, and what it starts.   *)

\* Tasks that must not be executed a second time: no policy retries one that
\* is not retry-safe, and a session that requires inspection retries none.
Once(s, t) == t \notin RetrySafe \/ mem[s].policy = "RequireInspection"

\* From taking a task to executing it, unless it goes to approval.
BeforeWork(s) ==
    \/ pc[s][1] \in {"Admitted", "Started", "Lease", "Planned", "PolicyChecked", "TicketIssued", "Executing"}
    \/ pc[s] = <<"Verifying", "work">>

\* The task goes to approval in memory already; it is completed in memory
\* already, and in the store.
Asking(s) == pc[s][1] = "AwaitingApproval" /\ pc[s][2] # "mem"
Ended(s) == pc[s][1] \in {"Finished", "Release"}
Ending(s) == Ended(s) \/ (pc[s][1] = "Completed" /\ pc[s][2] \notin {"work", "mem"})

\* What a session knows of a task follows what is stored: both have it failed
\* or neither, and one that waits for approval is not taken for ready.
Agree(known, stored) ==
    /\ known = "Failed" <=> stored = "Failed"
    /\ stored = "AwaitingApproval" => known \in {"AwaitingApproval", "Completed"}

StatesFollow(s) ==
    /\ mem[s].graph # Null \/ pc[s] # Idle => Typed(mem[s].rows)
    /\ \A t \in Tasks :
          /\ Agree(mem[s].rows[t], Loaded(t))
          /\ effects[t] > 0 => mem[s].rows[t] \in Past

\* What a session that is alone has read of the store is still there.
ReadIsFresh(s) ==
    /\ HasGraph(s) => graphRow # Null /\ local[s].graph = graphRow /\ local[s].row = Loaded(Task(s))
    /\ pc[s][2] = "row" /\ pc[s][1] \notin {"Lease", "Release"} => graphRow # Null
    /\ pc[s][2] = "row" /\ pc[s][1] \in DOMAIN EventState =>
          IF taskRow[Task(s)] # Null THEN local[s].row = taskRow[Task(s)]
          ELSE graphRow[Task(s)] = Merge(local[s].row, EventState[pc[s][1]])
    /\ pc[s][2] = "touch" => local[s].row = taskRow[Task(s)]
    /\ pc[s][1] = "SaveGraph" => mem[s].graph = NewState /\ mem[s].rows = NewState

\* What a session will take up, and what it has in hand.
Unstarted(s) ==
    \A t \in local[s].queue : Loaded(t) # "AwaitingApproval" /\ (Once(s, t) => effects[t] = 0)

InHand(s) ==
    pc[s] \notin Outside =>
        /\ Task(s) \notin local[s].queue
        /\ BeforeWork(s) => /\ Loaded(Task(s)) # "AwaitingApproval"
                            /\ Once(s, Task(s)) => effects[Task(s)] = 0
        /\ ~Waiting(s) => mem[s].rows[Task(s)] \in Past
        /\ Asking(s) => mem[s].rows[Task(s)] \in {"AwaitingApproval", "Completed", "Failed"}
        /\ Ending(s) => mem[s].rows[Task(s)] \in {"Completed", "Failed"}
        /\ Ended(s) => taskRow[Task(s)] \in {"Completed", "Failed"}

History(s) ==
    /\ pc[s] \in {Closed, Idle} => local[s] = NoLocals
    /\ pc[s] # Closed => StatesFollow(s) /\ ReadIsFresh(s) /\ Unstarted(s) /\ InHand(s)

HistoryInv ==
    /\ graphRow = Null => \A t \in Tasks : taskRow[t] = Null
    /\ UnsafeExecutesOnce
    /\ \A s \in Sessions : History(s)

LEMMA HistoryInit == Init => HistoryInv
<1> SUFFICES ASSUME Init PROVE HistoryInv
  OBVIOUS
<1>1. graphRow = Null => \A t \in Tasks : taskRow[t] = Null
  BY NullAssumption DEF Init, ImportedState, TaskState
<1>2. UnsafeExecutesOnce
  BY DEF Init, UnsafeExecutesOnce
<1> QED
  BY <1>1, <1>2 DEF HistoryInv, History, Init

\* A step of the one session that is open.
LEMMA HistoryStep ==
    ASSUME HistoryInv, NEW s \in Sessions, OnlyOf(s), \A r \in Sessions \ {s} : pc[r] = Closed,
           graphRow' = Null => \A t \in Tasks : taskRow'[t] = Null, UnsafeExecutesOnce', History(s)'
    PROVE  HistoryInv'
<1>1. ASSUME NEW r \in Sessions, r # s PROVE History(r)'
  BY <1>1 DEF OnlyOf, HistoryInv, History
<1> QED
  BY <1>1 DEF HistoryInv

\* A step that leaves the store as it is.
LEMMA StoreStays ==
    ASSUME HistoryInv, UNCHANGED <<taskRow, graphRow, effects>>
    PROVE  /\ graphRow' = Null => \A t \in Tasks : taskRow'[t] = Null
           /\ UnsafeExecutesOnce'
           /\ \A t : Loaded(t)' = Loaded(t)
BY DEF HistoryInv, UnsafeExecutesOnce, Loaded

LEMMA StatesStay ==
    ASSUME HistoryInv, NEW s \in Sessions, UNCHANGED <<taskRow, graphRow, effects>>, pc[s] # Closed,
           mem'[s].rows = mem[s].rows, mem'[s].graph = mem[s].graph,
           pc[s] = Idle => pc'[s] = Idle \/ mem[s].graph # Null
    PROVE  StatesFollow(s)'
<1>1. StatesFollow(s) /\ \A t : Loaded(t)' = Loaded(t)
  BY StoreStays DEF HistoryInv, History
<1> QED
  BY <1>1 DEF StatesFollow, Typed

\* A call that is over.
LEMMA CallOver ==
    ASSUME NEW s \in Sessions, pc'[s] = Idle, local'[s] = NoLocals, StatesFollow(s)'
    PROVE  History(s)'
<1>1. ReadIsFresh(s)'
  BY DEF ReadIsFresh, Idle, HasGraph
<1>2. Unstarted(s)'
  BY DEF Unstarted, NoLocals
<1>3. InHand(s)'
  BY DEF InHand, Outside
<1> QED
  BY <1>1, <1>2, <1>3 DEF History

LEMMA AbortRecorded ==
    ASSUME LeaseInv, RowInv, HistoryInv, NEW s \in Sessions, pc[s] # Closed, Abort(s),
           UNCHANGED <<taskRow, graphRow, effects, mem>>
    PROVE  HistoryInv'
<1>1. OnlyOf(s) /\ pc'[s] = Idle /\ local'[s] = NoLocals
  BY DEF LeaseInv, Shape, OnlyOf, Abort
<1>2. StatesFollow(s)'
  BY <1>1, StatesStay
<1> QED
  BY <1>1, <1>2, CallOver, StoreStays, OthersClosed, HistoryStep

\* The session goes on with its task, and nothing is written.
LEMMA GoesOn ==
    ASSUME RowInv, HistoryInv, NEW s \in Sessions, OnlyOf(s), pc[s] \notin Outside, pc'[s] \notin Outside,
           UNCHANGED <<taskRow, graphRow, effects>>,
           mem'[s].rows = mem[s].rows, mem'[s].graph = mem[s].graph, mem'[s].policy = mem[s].policy,
           local'[s].queue = local[s].queue, Task(s)' = Task(s),
           ReadIsFresh(s)',
           BeforeWork(s)' => BeforeWork(s), Waiting(s) => Waiting(s)', Asking(s)' => Asking(s),
           Ending(s)' => Ending(s), Ended(s)' => Ended(s)
    PROVE  HistoryInv'
<1>1. pc[s] # Closed /\ pc[s] # Idle /\ pc'[s] # Closed /\ pc'[s] # Idle
  BY DEF Outside
<1>2. StatesFollow(s)'
  BY <1>1, StatesStay
<1>3. \A t : Loaded(t)' = Loaded(t)
  BY StoreStays
<1>4. Unstarted(s) /\ InHand(s)
  BY <1>1 DEF HistoryInv, History
<1>5. Unstarted(s)'
  BY <1>3, <1>4 DEF Unstarted, Once
<1>6. InHand(s)'
  <2>1. Loaded(Task(s))' = Loaded(Task(s))
    BY DEF Loaded
  <2>2. Once(s, Task(s))' = Once(s, Task(s))
    BY DEF Once
  <2> QED BY <2>1, <2>2, <1>4 DEF InHand
<1> QED
  BY <1>1, <1>2, <1>5, <1>6, StoreStays, OthersClosed, HistoryStep DEF History

-----------------------------------------------------------------------------
LEMMA OpenRecorded ==
    ASSUME Exclusive, LeaseInv, RowInv, HistoryInv, NEW s \in Sessions, NEW policy \in Policies,
           Open(s, policy)
    PROVE  HistoryInv'
<1>1. /\ OnlyOf(s) /\ pc'[s] = Idle /\ pc[s] = Closed /\ local'[s] = local[s]
      /\ mem'[s].graph = graphRow /\ mem'[s].rows = [t \in Tasks |-> Loaded(t)]
      /\ UNCHANGED <<taskRow, graphRow, effects>>
  BY DEF LeaseInv, Shape, Open, OnlyOf, store
<1>2. \A r \in Sessions : pc[r] = Closed
  BY DEF Open
<1>3. \A t : Loaded(t)' = Loaded(t)
  BY <1>1, StoreStays
<1>4. ASSUME graphRow # Null PROVE \A t \in Tasks : Loaded(t) \in TaskState
  BY <1>4 DEF Loaded, RowInv, RowsTyped, Typed
<1>5. \A t \in Tasks : effects[t] > 0 => Loaded(t) \in Past
  BY DEF Loaded, RowInv, RowsTyped, ExecutionIsCheckpointed, Past
<1>6. StatesFollow(s)'
  BY <1>1, <1>3, <1>4, <1>5 DEF StatesFollow, Typed, Agree
<1>7. local'[s] = NoLocals
  BY <1>1 DEF HistoryInv, History
<1> QED
  BY <1>1, <1>2, <1>6, <1>7, CallOver, StoreStays, HistoryStep

LEMMA LeaveRecorded ==
    ASSUME LeaseInv, RowInv, HistoryInv, NEW s \in Sessions, Die(s) \/ Fail(s) \/ Return(s)
    PROVE  HistoryInv'
<1>1. OnlyOf(s) /\ pc'[s] \in {Closed, Idle} /\ pc[s] # Closed /\ local'[s] = NoLocals
  <2>1. OnlyOf(s) /\ pc'[s] \in {Closed, Idle} /\ local'[s] = NoLocals
    BY DEF LeaseInv, Shape, Die, Fail, Return, OnlyOf
  <2>2. pc[s] # Closed
    BY DEF Die, Fail, Return, At, Closed
  <2> QED BY <2>1, <2>2
<1>2. UNCHANGED <<taskRow, graphRow, effects>>
  BY DEF Die, Fail, Return, store
<1>3. pc'[s] = Closed \/ (mem'[s] = mem[s] /\ pc'[s] = Idle)
  BY DEF LeaseInv, Shape, Die, Fail, Return
<1>4. CASE pc'[s] = Closed
  BY <1>1, <1>2, <1>4, StoreStays, OthersClosed, HistoryStep DEF History
<1>5. CASE mem'[s] = mem[s] /\ pc'[s] = Idle
  BY <1>1, <1>2, <1>5, StatesStay, CallOver, StoreStays, OthersClosed, HistoryStep
<1> QED
  BY <1>3, <1>4, <1>5

\* What a session finds ready was not executed, if it must not be twice, and
\* does not wait for approval.
LEMMA ReadyIsUnstarted ==
    ASSUME CommitInv, NEW s \in Sessions, StatesFollow(s), NEW t \in ReadyTasks(mem[s])
    PROVE  Loaded(t) # "AwaitingApproval" /\ (Once(s, t) => effects[t] = 0)
<1>1. t \in Tasks /\ (mem[s].rows[t] = "Ready" \/ RetryRunning(mem[s], t) \/ RetryFailed(mem[s], t))
  BY DEF ReadyTasks, ReadyTask
<1>2. mem[s].rows[t] \in {"Ready", "Running", "Failed"}
  BY <1>1 DEF RetryRunning, RetryFailed
<1>3. Loaded(t) # "AwaitingApproval"
  BY <1>1, <1>2 DEF StatesFollow, Agree
<1>4. RetryFailed(mem[s], t) => t \in RetrySafe
  BY DEF RetryFailed, Recommendation, FromProbe, RetryOrInspect
<1>5. Once(s, t) => mem[s].rows[t] = "Ready"
  BY <1>1, <1>4 DEF Once, RetryRunning, RetryFailed
<1>6. mem[s].rows[t] = "Ready" => ~(effects[t] > 0)
  BY <1>1 DEF StatesFollow, Past
<1>7. effects[t] \in Nat
  BY <1>1 DEF CommitInv, StoreSound
<1> QED
  BY <1>3, <1>5, <1>6, <1>7

LEMMA ProbeRecorded ==
    ASSUME LeaseInv, RowInv, HistoryInv, NEW s \in Sessions, NEW t \in Tasks, NEW status \in ProbeStatuses,
           RecordProbe(s, t, status)
    PROVE  HistoryInv'
<1>1. /\ OnlyOf(s) /\ pc[s] = Idle /\ pc'[s] = Idle /\ pc[s] # Closed
      /\ UNCHANGED <<taskRow, graphRow, effects, local>>
  BY DEF LeaseInv, Shape, OnlyOf, RecordProbe, Idle, Closed
<1>2. /\ DOMAIN mem = Sessions
      /\ DOMAIN mem[s] = {"graph", "rows", "attempts", "leases", "probes", "policy"}
  BY <1>1 DEF LeaseInv, Shape, SessionShape
<1>3. mem'[s].rows = mem[s].rows /\ mem'[s].graph = mem[s].graph
  BY <1>2 DEF RecordProbe
<1>4. StatesFollow(s)'
  BY <1>1, <1>3, StatesStay
<1>5. local'[s] = NoLocals
  BY <1>1 DEF HistoryInv, History
<1> QED
  BY <1>1, <1>4, <1>5, CallOver, StoreStays, OthersClosed, HistoryStep

\* A graph that is new finds an empty store, in which nothing was executed.
LEMMA RunRecorded ==
    ASSUME LeaseInv, CommitInv, RowInv, HistoryInv, NEW s \in Sessions, Run(s)
    PROVE  HistoryInv'
<1>1. /\ OnlyOf(s) /\ pc[s] = Idle /\ pc'[s] = <<"SaveGraph", "graph">> /\ pc[s] # Closed
      /\ UNCHANGED <<taskRow, graphRow, effects>> /\ graphRow = Null
  BY DEF LeaseInv, Shape, OnlyOf, Run, Goto, Idle, Closed, store
<1>2. /\ DOMAIN mem = Sessions /\ DOMAIN local = Sessions
      /\ DOMAIN mem[s] = {"graph", "rows", "attempts", "leases", "probes", "policy"}
  BY <1>1 DEF LeaseInv, Shape, SessionShape
<1>3. mem'[s].rows = NewState /\ mem'[s].graph = NewState
  BY <1>2 DEF Run
<1>4. local'[s].queue = Tasks
  BY <1>2 DEF Run, NoLocals
<1>5. \A t \in Tasks : Loaded(t) = Null /\ Loaded(t)' = Null
  BY <1>1 DEF HistoryInv, Loaded
<1>6. \A t \in Tasks : effects[t] = 0
  BY <1>1 DEF CommitInv, StoreSound, RowInv, RowsTyped, ExecutionIsCheckpointed, HistoryInv
<1>7. StatesFollow(s)'
  BY <1>1, <1>3, <1>5, <1>6, NullAssumption DEF StatesFollow, Typed, Agree, NewState, TaskState
<1>8. ReadIsFresh(s)'
  BY <1>1, <1>3, Stages DEF ReadIsFresh, HasGraph
<1>9. Unstarted(s)'
  BY <1>1, <1>4, <1>5, <1>6, NullAssumption DEF Unstarted, TaskState
<1>10. History(s)'
  BY <1>1, <1>7, <1>8, <1>9 DEF History, InHand, Outside, Closed, Idle
<1> QED
  BY <1>1, <1>10, StoreStays, OthersClosed, HistoryStep

\* The tasks of a graph that is saved anew keep the states they have.
LEMMA SaveRecorded ==
    ASSUME LeaseInv, RowInv, HistoryInv, NEW s \in Sessions, SaveGraphRow(s) \/ SaveTaskRow(s)
    PROVE  HistoryInv'
<1>1. /\ OnlyOf(s) /\ pc[s] \in {<<"SaveGraph", "graph">>, <<"SaveGraph", "row">>}
      /\ pc'[s] \in {<<"SaveGraph", "row">>, <<"Next", "-">>}
      /\ UNCHANGED <<effects, mem>>
  BY DEF LeaseInv, Shape, OnlyOf, SaveGraphRow, SaveTaskRow, At, Goto
<1>2. pc[s] # Closed /\ pc[s] # Idle
  BY <1>1 DEF Closed, Idle
<1>3. StatesFollow(s) /\ ReadIsFresh(s) /\ Unstarted(s) /\ RowsTyped
  BY <1>2 DEF HistoryInv, History, RowInv
<1>4. mem[s].graph = NewState /\ mem[s].rows = NewState
  BY <1>1, <1>3 DEF ReadIsFresh
<1>5. local'[s].queue = local[s].queue
  <2>1. CASE SaveGraphRow(s)
    BY <2>1 DEF SaveGraphRow
  <2>2. CASE SaveTaskRow(s)
    <3>1. PICK saved : local' = [local EXCEPT ![s].saved = saved]
      BY <2>2 DEF SaveTaskRow
    <3>2. DOMAIN local = Sessions /\ DOMAIN local[s] = DOMAIN NoLocals
      BY DEF LeaseInv, Shape, SessionShape
    <3> QED BY <3>1, <3>2 DEF NoLocals
  <2> QED BY <2>1, <2>2
<1>6. graphRow' # Null /\ \A t \in Tasks : Loaded(t)' = Loaded(t) \/ Loaded(t)' = "Ready"
  <2>1. CASE SaveGraphRow(s)
    <3>1. graphRow' = NewState /\ taskRow' = taskRow
      BY <2>1, <1>4 DEF SaveGraphRow
    <3>2. NewState \in [Tasks -> TaskState]
      BY DEF NewState, TaskState
    <3> QED BY <3>1, <3>2, NullAssumption DEF Loaded, NewState
  <2>2. CASE SaveTaskRow(s)
    <3>1. graphRow' = graphRow /\ graphRow # Null
      BY <2>2, <1>3 DEF SaveTaskRow, At, ReadIsFresh
    <3>2. PICK q : taskRow' = [taskRow EXCEPT ![q] = IF @ = Null THEN mem[s].graph[q] ELSE Merge(@, mem[s].graph[q])]
      BY <2>2 DEF SaveTaskRow
    <3>3. ASSUME NEW t \in Tasks PROVE Loaded(t)' = Loaded(t) \/ Loaded(t)' = "Ready"
      <4>1. CASE t # q
        BY <1>3, <3>1, <3>2, <4>1 DEF RowsTyped, Loaded
      <4>2. CASE t = q /\ taskRow[t] = Null
        <5>1. taskRow'[t] = "Ready"
          BY <1>3, <1>4, <3>2, <4>2 DEF RowsTyped, NewState
        <5> QED BY <5>1, NullAssumption DEF Loaded, TaskState
      <4>3. CASE t = q /\ taskRow[t] # Null
        <5>1. taskRow'[t] = Merge(taskRow[t], "Ready") /\ taskRow[t] \in TaskState
          BY <1>3, <1>4, <3>2, <4>3 DEF RowsTyped, NewState
        <5>2. taskRow'[t] = taskRow[t]
          BY <5>1 DEF Merge, Rank, TaskState
        <5> QED BY <3>1, <5>2 DEF Loaded
      <4> QED BY <4>1, <4>2, <4>3
    <3> QED BY <3>1, <3>3
  <2> QED BY <2>1, <2>2
<1>7. StatesFollow(s)'
  BY <1>1, <1>3, <1>4, <1>6 DEF StatesFollow, Typed, Agree, NewState, Closed, Idle
<1>8. Unstarted(s)'
  <2>1. local[s].queue \subseteq Tasks
    BY DEF LeaseInv, SessionShape
  <2> QED BY <1>1, <1>3, <1>5, <1>6, <2>1 DEF Unstarted, Once
<1>9. ReadIsFresh(s)'
  BY <1>1, <1>4, <1>6, Stages DEF ReadIsFresh, HasGraph
<1>10. History(s)' /\ pc'[s] # Closed
  BY <1>1, <1>7, <1>8, <1>9 DEF History, InHand, Outside, Closed, Idle
<1>11. UnsafeExecutesOnce'
  BY <1>1 DEF HistoryInv, UnsafeExecutesOnce
<1> QED
  BY <1>1, <1>2, <1>6, <1>10, <1>11, OthersClosed, HistoryStep

LEMMA PlanRecorded ==
    ASSUME LeaseInv, CommitInv, RowInv, HistoryInv, NEW s \in Sessions, Resume(s) \/ Replan(s)
    PROVE  HistoryInv'
<1>1. /\ OnlyOf(s) /\ pc[s] \in {Idle, <<"Next", "-">>} /\ pc'[s] = <<"Next", "-">>
      /\ UNCHANGED <<taskRow, graphRow, effects, mem>>
      /\ pc[s] = Idle => mem[s].graph # Null
  <2>1. UNCHANGED <<taskRow, graphRow, effects, mem>>
    BY DEF Resume, Replan, store
  <2>2. OnlyOf(s)
    BY DEF LeaseInv, Shape, OnlyOf, Resume, Replan, Goto
  <2>3. pc[s] \in {Idle, <<"Next", "-">>} /\ (pc[s] = Idle => mem[s].graph # Null)
    BY DEF Resume, Replan, At, Idle
  <2>4. pc'[s] = <<"Next", "-">>
    BY DEF LeaseInv, Shape, Resume, Replan, At, Goto
  <2> QED BY <2>1, <2>2, <2>3, <2>4
<1>2. pc[s] # Closed /\ pc'[s] # Closed /\ pc'[s] # Idle
  BY <1>1 DEF Closed, Idle
<1>3. DOMAIN local = Sessions /\ DOMAIN local[s] = DOMAIN NoLocals
  BY DEF LeaseInv, Shape, SessionShape
<1>4. local'[s].queue = ReadyTasks(mem[s])
  <2>1. CASE Resume(s)
    <3>1. local'[s] = [NoLocals EXCEPT !.queue = ReadyTasks(mem[s]), !.resuming = TRUE,
                                       !.before = {t \in Tasks : mem[s].graph[t] = "Completed"}]
      BY <1>3, <2>1 DEF Resume
    <3> QED BY <3>1 DEF NoLocals
  <2>2. CASE Replan(s)
    <3>1. local' = [local EXCEPT ![s].queue = ReadyTasks(mem[s])]
      BY <2>2 DEF Replan
    <3> QED BY <1>3, <3>1 DEF NoLocals
  <2> QED BY <2>1, <2>2
<1>5. StatesFollow(s) /\ StatesFollow(s)'
  BY <1>1, <1>2, StatesStay DEF HistoryInv, History
<1>6. Unstarted(s)'
  <2>1. \A t : Loaded(t)' = Loaded(t)
    BY <1>1, StoreStays
  <2>2. \A t \in ReadyTasks(mem[s]) : Loaded(t) # "AwaitingApproval" /\ (Once(s, t) => effects[t] = 0)
    BY <1>5, ReadyIsUnstarted
  <2> QED BY <1>1, <1>4, <2>1, <2>2 DEF Unstarted, Once
<1>7. ReadIsFresh(s)'
  BY <1>1, Stages DEF ReadIsFresh, HasGraph
<1>8. History(s)'
  BY <1>1, <1>2, <1>5, <1>6, <1>7 DEF History, InHand, Outside
<1> QED
  BY <1>1, <1>2, <1>8, StoreStays, OthersClosed, HistoryStep

LEMMA TakeRecorded ==
    ASSUME LeaseInv, RowInv, HistoryInv, NEW s \in Sessions, TakeTask(s)
    PROVE  HistoryInv'
<1>1. /\ OnlyOf(s) /\ pc[s] = <<"Next", "-">> /\ pc'[s] = <<"Admitted", "mem">>
      /\ UNCHANGED <<taskRow, graphRow, effects, mem>>
  BY DEF LeaseInv, Shape, OnlyOf, TakeTask, At, Goto, store
<1>2. pc[s] # Closed /\ pc'[s] # Closed /\ pc[s] # Idle /\ pc'[s] # Idle
  BY <1>1 DEF Closed, Idle
<1>3. PICK t \in local[s].queue : local' = [local EXCEPT ![s].task = t, ![s].queue = @ \ {t}]
  BY DEF TakeTask
<1>4. DOMAIN local = Sessions /\ DOMAIN local[s] = DOMAIN NoLocals
  BY DEF LeaseInv, Shape, SessionShape
<1>5. local'[s].queue = local[s].queue \ {t} /\ Task(s)' = t
  BY <1>3, <1>4 DEF NoLocals, Task
<1>6. StatesFollow(s)' /\ Unstarted(s) /\ \A q : Loaded(q)' = Loaded(q)
  BY <1>1, <1>2, StatesStay, StoreStays DEF HistoryInv, History
<1>7. Unstarted(s)'
  BY <1>1, <1>5, <1>6 DEF Unstarted, Once
<1>8. Loaded(Task(s))' = Loaded(t) /\ Once(s, Task(s))' = Once(s, t)
  BY <1>1, <1>5 DEF Loaded, Once
<1>9. Waiting(s)' /\ ~Asking(s)' /\ ~Ending(s)' /\ ~Ended(s)' /\ ~HasGraph(s)'
  BY <1>1 DEF Waiting, Asking, Ending, Ended, HasGraph
<1>10. InHand(s)'
  BY <1>1, <1>5, <1>6, <1>8, <1>9 DEF InHand, Unstarted
<1>11. ReadIsFresh(s)'
  BY <1>1, <1>9 DEF ReadIsFresh
<1> QED
  BY <1>1, <1>2, <1>6, <1>7, <1>10, <1>11, StoreStays, OthersClosed, HistoryStep DEF History

-----------------------------------------------------------------------------
\* Merging: what both have failed stays failed, and what waits for approval in
\* the store is known to wait, or further.
EventStatesOf == {"Ready", "Running", "AwaitingApproval", "Completed"}

LEMMA StatesOfEvents ==
    /\ \A stage \in DOMAIN EventState : EventState[stage] \in EventStatesOf
    /\ \A stage \in DOMAIN EventState : EventState[stage] = "AwaitingApproval" <=> stage = "AwaitingApproval"
    /\ EventState["Completed"] = "Completed"
  BY DEF EventState, EventStates, EventStatesOf

LEMMA KnownMoves ==
    ASSUME NEW known \in TaskState, NEW stored, Agree(known, stored), NEW state \in EventStatesOf
    PROVE  /\ Agree(Merge(known, state), stored)
           /\ state = "AwaitingApproval" => Merge(known, state) \in {"AwaitingApproval", "Completed", "Failed"}
           /\ state = "Completed" => Merge(known, state) \in {"Completed", "Failed"}
  BY DEF Agree, Merge, Rank, TaskState, EventStatesOf

LEMMA StoredMoves ==
    ASSUME NEW known, NEW stored \in TaskState, Agree(known, stored), NEW state \in EventStatesOf,
           state = "AwaitingApproval" => known \in {"AwaitingApproval", "Completed", "Failed"}
    PROVE  /\ Agree(known, Merge(stored, state))
           /\ stored # "AwaitingApproval" /\ state # "AwaitingApproval" => Merge(stored, state) # "AwaitingApproval"
           /\ state = "Completed" => Merge(stored, state) \in {"Completed", "Failed"}
           /\ stored = "Completed" => Merge(stored, state) = "Completed"
  BY DEF Agree, Merge, Rank, TaskState, EventStatesOf

\* The state of the task in hand moves in memory.
LEMMA MemoryMoves ==
    ASSUME LeaseInv, RowInv, HistoryInv, NEW s \in Sessions, OnlyOf(s), pc[s] \notin Outside,
           pc'[s] \notin Outside, NEW state \in EventStatesOf,
           UNCHANGED <<taskRow, graphRow, effects, local>>,
           mem'[s].rows = [mem[s].rows EXCEPT ![Task(s)] = Merge(@, state)],
           mem'[s].policy = mem[s].policy,
           ReadIsFresh(s)', BeforeWork(s)' => BeforeWork(s),
           ~Waiting(s)' => ~Waiting(s) \/ state \in Past,
           Asking(s)' => Asking(s) \/ state = "AwaitingApproval",
           Ending(s)' => Ending(s) \/ state = "Completed", Ended(s)' => Ended(s)
    PROVE  HistoryInv'
<1>1. pc[s] # Closed /\ pc[s] # Idle /\ pc'[s] # Closed /\ pc'[s] # Idle /\ Task(s) \in Tasks
  BY DEF Outside, LeaseInv, SessionShape
<1>2. StatesFollow(s) /\ Unstarted(s) /\ InHand(s) /\ Typed(mem[s].rows)
  BY <1>1 DEF HistoryInv, History, StatesFollow
<1>3. \A t : Loaded(t)' = Loaded(t)
  BY StoreStays
<1>4. PICK known : known = mem[s].rows[Task(s)]
  OBVIOUS
<1>5. /\ known \in TaskState /\ Agree(known, Loaded(Task(s))) /\ state \in TaskState
      /\ effects[Task(s)] > 0 => known \in Past
  BY <1>1, <1>2, <1>4 DEF StatesFollow, Typed, EventStatesOf, TaskState
<1>6. /\ mem'[s].rows[Task(s)] = Merge(known, state)
      /\ \A t \in Tasks \ {Task(s)} : mem'[s].rows[t] = mem[s].rows[t]
      /\ DOMAIN mem'[s].rows = Tasks
  BY <1>1, <1>2, <1>4 DEF Typed
<1>7. /\ Merge(known, state) \in TaskState
      /\ known \in Past \/ state \in Past => Merge(known, state) \in Past
      /\ Agree(Merge(known, state), Loaded(Task(s)))
  BY <1>5, MergeMoves, KnownMoves
<1>8. StatesFollow(s)'
  <2>1. ASSUME NEW t \in Tasks
        PROVE  /\ mem'[s].rows[t] \in TaskState /\ Agree(mem'[s].rows[t], Loaded(t))
               /\ effects[t] > 0 => mem'[s].rows[t] \in Past
    <3>1. CASE t = Task(s)
      BY <3>1, <1>5, <1>6, <1>7
    <3>2. CASE t # Task(s)
      BY <3>2, <1>2, <1>6 DEF StatesFollow, Typed
    <3> QED BY <3>1, <3>2
  <2> QED BY <2>1, <1>3, <1>6 DEF StatesFollow, Typed
<1>9. Unstarted(s)'
  BY <1>2, <1>3 DEF Unstarted, Once
<1>10. InHand(s)'
  <2>1. Task(s)' = Task(s) /\ Loaded(Task(s))' = Loaded(Task(s)) /\ Once(s, Task(s))' = Once(s, Task(s))
    BY DEF Task, Loaded, Once
  <2>2. /\ Waiting(s) \/ known \in Past
        /\ Asking(s) => known \in {"AwaitingApproval", "Completed", "Failed"}
        /\ Ending(s) => known \in {"Completed", "Failed"}
        /\ Ended(s) => taskRow[Task(s)] \in {"Completed", "Failed"}
    BY <1>2, <1>4 DEF InHand
  <2>3. ~Waiting(s)' => Merge(known, state) \in Past
    BY <1>7, <2>2
  <2>4. Asking(s)' => Merge(known, state) \in {"AwaitingApproval", "Completed", "Failed"}
    BY <1>5, <2>2 DEF Merge, Rank, TaskState, EventStatesOf
  <2>5. Ending(s)' => Merge(known, state) \in {"Completed", "Failed"}
    BY <1>5, <2>2 DEF Merge, Rank, TaskState, EventStatesOf
  <2> QED BY <1>2, <1>6, <2>1, <2>2, <2>3, <2>4, <2>5 DEF InHand
<1> QED
  BY <1>1, <1>8, <1>9, <1>10, StoreStays, OthersClosed, HistoryStep DEF History

LEMMA EmitRecorded ==
    ASSUME LeaseInv, RowInv, HistoryInv, NEW s \in Sessions, EmitInMemory(s)
    PROVE  HistoryInv'
<1>1. PICK stage \in DOMAIN EventState : /\ At(s, stage, "mem")
                                         /\ mem' = [mem EXCEPT ![s] = UpdateState(@, Task(s), EventState[stage])]
                                         /\ Goto(s, stage, "read")
  BY DEF EmitInMemory
<1>2. /\ pc[s] = <<stage, "mem">> /\ pc'[s] = <<stage, "read">> /\ OnlyOf(s)
      /\ UNCHANGED <<taskRow, graphRow, effects, local>>
  BY <1>1 DEF LeaseInv, Shape, OnlyOf, EmitInMemory, At, Goto, store
<1>3. /\ pc[s] \notin Outside /\ pc'[s] \notin Outside /\ ~HasGraph(s)'
      /\ BeforeWork(s)' => BeforeWork(s)
      /\ Waiting(s)' <=> Waiting(s)
      /\ Asking(s)' <=> stage = "AwaitingApproval"
      /\ Ending(s)' <=> stage = "Completed"
      /\ ~Ended(s)'
  BY <1>2, Stages DEF Outside, Closed, Idle, HasGraph, BeforeWork, Waiting, Asking, Ending, Ended
<1>4. /\ DOMAIN mem = Sessions
      /\ DOMAIN mem[s] = {"graph", "rows", "attempts", "leases", "probes", "policy"}
  BY <1>3 DEF LeaseInv, Shape, SessionShape, Outside
<1>5. PICK state : state = EventState[stage]
  OBVIOUS
<1>6. /\ mem'[s].rows = [mem[s].rows EXCEPT ![Task(s)] = Merge(@, state)]
      /\ mem'[s].policy = mem[s].policy
  BY <1>1, <1>4, <1>5 DEF UpdateState
<1>7. /\ state \in EventStatesOf
      /\ Asking(s)' => state = "AwaitingApproval"
      /\ Ending(s)' => state = "Completed"
  BY <1>3, <1>5, StatesOfEvents
<1>8. ReadIsFresh(s)'
  BY <1>2, <1>3, Stages DEF ReadIsFresh
<1> QED
  BY <1>2, <1>3, <1>6, <1>7, <1>8, MemoryMoves

LEMMA ReadRecorded ==
    ASSUME LeaseInv, RowInv, HistoryInv, NEW s \in Sessions, ReadRows(s)
    PROVE  HistoryInv'
<1>1. PICK stage \in DOMAIN EventState :
          /\ At(s, stage, "read")
          /\ \/ Abort(s)
             \/ /\ graphRow # Null
                /\ local' = [local EXCEPT ![s].graph = graphRow, ![s].row = Loaded(Task(s))]
                /\ Goto(s, stage, "graph")
  BY DEF ReadRows
<1>2. pc[s] = <<stage, "read">> /\ pc[s] \notin Outside /\ pc[s] # Closed
  BY <1>1, Stages DEF At, Outside, Closed, Idle
<1>3. CASE Abort(s)
  BY <1>2, <1>3, AbortRecorded DEF ReadRows, store
<1>4. CASE /\ graphRow # Null
           /\ local' = [local EXCEPT ![s].graph = graphRow, ![s].row = Loaded(Task(s))]
           /\ Goto(s, stage, "graph")
  <2>1. /\ pc'[s] = <<stage, "graph">> /\ OnlyOf(s)
        /\ UNCHANGED <<taskRow, graphRow, effects, mem>>
    BY <1>4 DEF LeaseInv, Shape, OnlyOf, ReadRows, Goto, store
  <2>2. DOMAIN local = Sessions /\ DOMAIN local[s] = DOMAIN NoLocals
    BY DEF LeaseInv, Shape, SessionShape
  <2>3. /\ local'[s].graph = graphRow /\ local'[s].row = Loaded(Task(s)) /\ Task(s)' = Task(s)
        /\ local'[s].queue = local[s].queue
    BY <1>4, <2>2 DEF NoLocals, Task
  <2>4. /\ pc'[s] \notin Outside
        /\ BeforeWork(s)' <=> BeforeWork(s)
        /\ Waiting(s)' <=> Waiting(s)
        /\ Asking(s)' <=> Asking(s)
        /\ Ending(s)' <=> Ending(s)
        /\ Ended(s)' <=> Ended(s)
    BY <1>2, <2>1, Stages DEF Outside, Closed, Idle, BeforeWork, Waiting, Asking, Ending, Ended
  <2>5. ReadIsFresh(s)'
    <3>1. Loaded(Task(s))' = Loaded(Task(s))
      BY <2>1, <2>3 DEF Loaded
    <3> QED BY <1>4, <2>1, <2>3, <3>1, Stages DEF ReadIsFresh
  <2> QED BY <1>2, <2>1, <2>3, <2>4, <2>5, GoesOn
<1> QED
  BY <1>1, <1>3, <1>4

\* The state of the task moves in the store, after it moved in memory.
LEMMA StoreMoves ==
    ASSUME LeaseInv, RowInv, HistoryInv, NEW s \in Sessions, OnlyOf(s), pc[s] \notin Outside,
           NEW state \in EventStatesOf, UNCHANGED <<mem, effects>>,
           state = "AwaitingApproval" => Asking(s),
           Loaded(Task(s)) \in TaskState,
           Loaded(Task(s))' \in {Loaded(Task(s)), Merge(Loaded(Task(s)), state)},
           \A t \in Tasks \ {Task(s)} : Loaded(t)' = Loaded(t),
           graphRow' # Null, Task(s)' = Task(s), local'[s].queue = local[s].queue,
           pc'[s] \notin Outside, ReadIsFresh(s)',
           BeforeWork(s)' => BeforeWork(s) /\ state # "AwaitingApproval",
           Waiting(s) => Waiting(s)', Asking(s)' => Asking(s), Ending(s)' => Ending(s),
           Ended(s)' => taskRow'[Task(s)] \in {"Completed", "Failed"}
    PROVE  HistoryInv'
<1>1. pc[s] # Closed /\ pc[s] # Idle /\ pc'[s] # Closed /\ pc'[s] # Idle /\ Task(s) \in Tasks
  BY DEF Outside, LeaseInv, SessionShape
<1>2. StatesFollow(s) /\ Unstarted(s) /\ InHand(s) /\ Typed(mem[s].rows)
  BY <1>1 DEF HistoryInv, History, StatesFollow
<1>3. PICK known, stored : known = mem[s].rows[Task(s)] /\ stored = Loaded(Task(s))
  OBVIOUS
<1>4. Agree(known, stored) /\ stored \in TaskState
  BY <1>1, <1>2, <1>3 DEF StatesFollow
<1>5. state = "AwaitingApproval" => known \in {"AwaitingApproval", "Completed", "Failed"}
  BY <1>2, <1>3 DEF InHand
<1>6. /\ Agree(known, Merge(stored, state))
      /\ stored # "AwaitingApproval" /\ state # "AwaitingApproval" => Merge(stored, state) # "AwaitingApproval"
  BY <1>4, <1>5, StoredMoves
<1>7. StatesFollow(s)'
  <2>1. ASSUME NEW t \in Tasks
        PROVE  Agree(mem[s].rows[t], Loaded(t)')
    <3>1. CASE t = Task(s)
      <4>1. Loaded(t)' = stored \/ Loaded(t)' = Merge(stored, state)
        BY <1>3, <3>1 DEF Loaded
      <4> QED BY <3>1, <4>1, <1>3, <1>4, <1>6
    <3>2. CASE t # Task(s)
      BY <3>2, <1>2 DEF StatesFollow
    <3> QED BY <3>1, <3>2
  <2>2. /\ \A t \in Tasks : effects'[t] > 0 => mem'[s].rows[t] \in Past
        /\ Typed(mem'[s].rows) /\ mem'[s].rows = mem[s].rows
    BY <1>2 DEF StatesFollow
  <2> QED BY <2>1, <2>2 DEF StatesFollow, Typed
<1>8. Unstarted(s)'
  <2>1. local[s].queue \subseteq Tasks \ {Task(s)}
    BY <1>2 DEF InHand, LeaseInv, SessionShape
  <2> QED BY <1>2, <2>1 DEF Unstarted, Once
<1>9. InHand(s)'
  <2>1. BeforeWork(s)' => Loaded(Task(s))' # "AwaitingApproval"
    BY <1>2, <1>3, <1>6 DEF InHand
  <2>2. Once(s, Task(s))' = Once(s, Task(s))
    BY DEF Once
  <2> QED BY <1>2, <2>1, <2>2 DEF InHand
<1>10. UnsafeExecutesOnce'
  BY DEF HistoryInv, UnsafeExecutesOnce
<1> QED
  BY <1>1, <1>7, <1>8, <1>9, <1>10, OthersClosed, HistoryStep DEF History

LEMMA WriteGraphRecorded ==
    ASSUME LeaseInv, RowInv, HistoryInv, NEW s \in Sessions, WriteGraphRow(s)
    PROVE  HistoryInv'
<1>1. PICK stage \in DOMAIN EventState :
          /\ At(s, stage, "graph")
          /\ graphRow' = [local[s].graph EXCEPT ![Task(s)] = Merge(@, EventState[stage])]
          /\ Goto(s, stage, "row")
  BY DEF WriteGraphRow
<1>2. /\ pc[s] = <<stage, "graph">> /\ pc'[s] = <<stage, "row">> /\ OnlyOf(s)
      /\ UNCHANGED <<mem, local, taskRow, effects>>
  BY <1>1 DEF LeaseInv, Shape, OnlyOf, WriteGraphRow, At, Goto
<1>3. /\ pc[s] \notin Outside /\ pc'[s] \notin Outside /\ HasGraph(s) /\ HasRow(s) /\ ~HasGraph(s)'
      /\ BeforeWork(s)' => BeforeWork(s) /\ stage # "AwaitingApproval"
      /\ Waiting(s)' <=> Waiting(s)
      /\ Asking(s) <=> stage = "AwaitingApproval"
      /\ Asking(s)' <=> Asking(s)
      /\ Ending(s)' <=> Ending(s)
      /\ ~Ended(s)'
  BY <1>2, Stages DEF Outside, Closed, Idle, HasGraph, HasRow, BeforeWork, Waiting, Asking, Ending, Ended
<1>4. Task(s) \in Tasks /\ RowRead(s) /\ ReadIsFresh(s) /\ RowsTyped
  BY <1>3 DEF LeaseInv, SessionShape, RowInv, HistoryInv, History, Outside
<1>5. PICK state : state = EventState[stage]
  OBVIOUS
<1>6. state \in EventStatesOf /\ state \in TaskState /\ (state = "AwaitingApproval" <=> stage = "AwaitingApproval")
  BY <1>5, StatesOfEvents DEF EventStatesOf, TaskState
<1>7. /\ local[s].graph = graphRow /\ Typed(graphRow) /\ local[s].row = Loaded(Task(s))
      /\ Loaded(Task(s)) \in TaskState /\ graphRow # Null
  BY <1>2, <1>3, <1>4, NullAssumption DEF ReadIsFresh, RowRead, RowsTyped
<1>8. graphRow' = [graphRow EXCEPT ![Task(s)] = Merge(@, state)] /\ Typed(graphRow')
  BY <1>1, <1>4, <1>5, <1>6, <1>7, TypedMerge
<1>9. /\ DOMAIN graphRow = Tasks /\ graphRow'[Task(s)] = Merge(graphRow[Task(s)], state)
      /\ \A t \in Tasks \ {Task(s)} : graphRow'[t] = graphRow[t]
  BY <1>4, <1>7, <1>8 DEF Typed
<1>10. graphRow # Null /\ graphRow' # Null
  <2>1. graphRow' = [t \in Tasks |-> graphRow'[t]]
    BY <1>8, <1>9
  <2>2. graphRow' \in [Tasks -> TaskState]
    BY <1>8, <2>1 DEF Typed
  <2> QED BY <1>7, <2>2, NullAssumption
<1>11. \A t \in Tasks \ {Task(s)} : Loaded(t)' = Loaded(t)
  BY <1>2, <1>8, <1>9, <1>10 DEF Loaded
<1>12. Loaded(Task(s))' \in {Loaded(Task(s)), Merge(Loaded(Task(s)), state)} /\ Task(s)' = Task(s)
  BY <1>2, <1>4, <1>8, <1>9, <1>10 DEF Loaded, Task
<1>13. ReadIsFresh(s)'
  <2>1. taskRow[Task(s)] # Null => local[s].row = taskRow[Task(s)]
    BY <1>7 DEF Loaded
  <2>2. taskRow[Task(s)] = Null => graphRow'[Task(s)] = Merge(local[s].row, state)
    BY <1>4, <1>7, <1>8, <1>9, <1>10 DEF Loaded
  <2>3. taskRow'[Task(s)'] = taskRow[Task(s)] /\ local'[s] = local[s]
    BY <1>2, <1>12
  <2> QED BY <1>2, <1>3, <1>5, <1>10, <1>12, <2>1, <2>2, <2>3, Stages DEF ReadIsFresh
<1> QED
  BY <1>2, <1>3, <1>6, <1>7, <1>10, <1>11, <1>12, <1>13, StoreMoves

LEMMA WriteTaskRecorded ==
    ASSUME LeaseInv, RowInv, HistoryInv, NEW s \in Sessions, WriteTaskRow(s)
    PROVE  /\ HistoryInv'
           /\ \A t \in Tasks : taskRow[t] = "Completed" => taskRow'[t] = "Completed"
<1>1. PICK stage, next :
          /\ stage \in DOMAIN EventState
          /\ At(s, stage, "row") /\ next \in AfterEvent(stage)
          /\ taskRow' = [taskRow EXCEPT ![Task(s)] = Merge(local[s].row, EventState[stage])]
          /\ pc' = [pc EXCEPT ![s] = next]
          /\ local' = IF stage = "AwaitingApproval" THEN [local EXCEPT ![s] = NoLocals]
                      ELSE [local EXCEPT ![s].graph = Null, ![s].row = Null]
  BY DEF WriteTaskRow
<1>2. /\ pc[s] = <<stage, "row">> /\ pc'[s] = next /\ OnlyOf(s)
      /\ UNCHANGED <<mem, graphRow, effects>>
  BY <1>1 DEF LeaseInv, Shape, OnlyOf, WriteTaskRow, At
<1>3. /\ pc[s] \notin Outside /\ pc[s] # Closed /\ pc[s] # Idle /\ HasRow(s)
      /\ stage \notin {"Lease", "Release"} /\ (Asking(s) <=> stage = "AwaitingApproval")
  BY <1>1, <1>2, Stages DEF Outside, Closed, Idle, HasRow, Asking
<1>4. next \in Following[stage]
  BY <1>1 DEF AfterEvent
<1>5. /\ RowRead(s) /\ ReadIsFresh(s) /\ Task(s) \in Tasks /\ DOMAIN local = Sessions
      /\ DOMAIN local[s] = DOMAIN NoLocals /\ RowsTyped
  BY <1>3 DEF LeaseInv, Shape, SessionShape, RowInv, HistoryInv, History
<1>6. PICK state : state = EventState[stage]
  OBVIOUS
<1>7. /\ state \in EventStatesOf /\ state \in TaskState
      /\ state = "AwaitingApproval" <=> stage = "AwaitingApproval"
      /\ stage = "Completed" => state = "Completed"
  BY <1>1, <1>6, StatesOfEvents DEF EventStatesOf, TaskState
<1>8. PICK row : row = local[s].row
  OBVIOUS
<1>9. /\ row \in TaskState /\ graphRow # Null
      /\ taskRow[Task(s)] # Null => row = taskRow[Task(s)]
      /\ taskRow[Task(s)] = Null => graphRow[Task(s)] = Merge(row, state)
      /\ taskRow' = [taskRow EXCEPT ![Task(s)] = Merge(row, state)]
      /\ Merge(row, state) \in TaskState
  <2>1. row \in TaskState
    BY <1>2, <1>3, <1>5, <1>8 DEF RowRead
  <2>2. graphRow # Null
    BY <1>2, <1>3, <1>5 DEF ReadIsFresh
  <2>3. IF taskRow[Task(s)] # Null THEN row = taskRow[Task(s)]
        ELSE graphRow[Task(s)] = Merge(row, state)
    BY <1>1, <1>2, <1>5, <1>6, <1>8 DEF ReadIsFresh
  <2> QED BY <1>1, <1>6, <1>7, <1>8, <2>1, <2>2, <2>3, MergeMoves
<1>10. /\ taskRow'[Task(s)] = Merge(row, state) /\ taskRow'[Task(s)] # Null
       /\ \A t \in Tasks \ {Task(s)} : taskRow'[t] = taskRow[t]
  BY <1>5, <1>9, NullAssumption DEF RowsTyped
<1>11. ASSUME NEW t \in Tasks, taskRow[t] = "Completed" PROVE taskRow'[t] = "Completed"
  <2>1. CASE t = Task(s)
    <3>1. row = "Completed"
      BY <1>9, <1>11, <2>1, NullAssumption DEF TaskState
    <3> QED BY <1>7, <1>10, <2>1, <3>1 DEF Merge, Rank, EventStatesOf
  <2>2. CASE t # Task(s)
    BY <1>10, <1>11, <2>2
  <2> QED BY <2>1, <2>2
<1>12. \A t \in Tasks \ {Task(s)} : Loaded(t)' = Loaded(t)
  BY <1>2, <1>10 DEF Loaded
<1>13. /\ Loaded(Task(s)) \in TaskState
       /\ \/ Loaded(Task(s)) = row /\ taskRow'[Task(s)] = Merge(Loaded(Task(s)), state)
          \/ taskRow'[Task(s)] = Loaded(Task(s))
  BY <1>5, <1>9, <1>10 DEF Loaded, RowsTyped
<1>14. CASE stage = "AwaitingApproval"
  <2>1. pc'[s] = Idle /\ local'[s] = NoLocals
    BY <1>1, <1>2, <1>4, <1>5, <1>14 DEF Following
  <2>2. StatesFollow(s) /\ InHand(s) /\ Asking(s)
    BY <1>3, <1>14 DEF HistoryInv, History
  <2>3. PICK known : known = mem[s].rows[Task(s)]
    OBVIOUS
  <2>4. known \in {"AwaitingApproval", "Completed", "Failed"} /\ Agree(known, Loaded(Task(s)))
    BY <1>3, <1>5, <2>2, <2>3 DEF InHand, StatesFollow
  <2>5. Agree(known, taskRow'[Task(s)])
    BY <1>7, <1>13, <2>4, StoredMoves
  <2>6. ASSUME NEW t \in Tasks PROVE Agree(mem[s].rows[t], Loaded(t)')
    <3>1. CASE t = Task(s)
      BY <3>1, <2>3, <2>5, <1>10 DEF Loaded
    <3>2. CASE t # Task(s)
      BY <3>2, <1>12, <2>2 DEF StatesFollow
    <3> QED BY <3>1, <3>2
  <2>7. StatesFollow(s)'
    BY <1>2, <1>3, <2>2, <2>6 DEF StatesFollow, Typed
  <2>8. UnsafeExecutesOnce'
    BY <1>2 DEF HistoryInv, UnsafeExecutesOnce
  <2> QED BY <1>2, <1>3, <1>9, <1>11, <2>1, <2>7, <2>8, CallOver, OthersClosed, HistoryStep
<1>15. CASE stage # "AwaitingApproval"
  <2>1. /\ local'[s].task = local[s].task /\ local'[s].queue = local[s].queue
        /\ Task(s)' = Task(s)
    BY <1>1, <1>5, <1>15 DEF NoLocals, Task
  <2>2. /\ next \notin Outside /\ next[2] \in {"mem", "work"}
        /\ BeforeWork(s)' => BeforeWork(s)
        /\ Waiting(s) => Waiting(s)'
        /\ ~Asking(s)'
        /\ Ending(s)' => Ending(s)
        /\ Ended(s)' => stage = "Completed"
    BY <1>1, <1>2, <1>4, <1>15, Stages
    DEF Following, Outside, Closed, Idle, BeforeWork, Waiting, Asking, Ending, Ended
  <2>3. ReadIsFresh(s)'
    <3>1. pc'[s][2] \in {"mem", "work"}
      BY <1>2, <2>2
    <3>2. ~HasGraph(s)' /\ pc'[s][1] # "SaveGraph"
      BY <1>1, <1>2, <1>4, <1>15, <3>1, Stages DEF HasGraph, Following
    <3> QED BY <3>1, <3>2 DEF ReadIsFresh
  <2>4. stage = "Completed" => taskRow'[Task(s)] \in {"Completed", "Failed"}
    BY <1>7, <1>9, <1>10 DEF Merge, Rank, TaskState
  <2>5. Loaded(Task(s))' \in {Loaded(Task(s)), Merge(Loaded(Task(s)), state)}
    BY <1>10, <1>13, <2>1 DEF Loaded
  <2>6. pc'[s] \notin Outside /\ graphRow' # Null /\ state # "AwaitingApproval" /\ effects' = effects /\ mem' = mem
    BY <1>2, <1>7, <1>9, <1>15, <2>2
  <2>7. HistoryInv'
    BY <1>2, <1>3, <1>7, <1>12, <1>13, <2>1, <2>2, <2>3, <2>4, <2>5, <2>6, StoreMoves
  <2> QED BY <1>11, <2>7
<1> QED
  BY <1>14, <1>15

-----------------------------------------------------------------------------
\* A task that is started runs in memory; a finished attempt changes nothing
\* of what is known of its task.
LEMMA AttemptRecorded ==
    ASSUME LeaseInv, RowInv, HistoryInv, NEW s \in Sessions, StartTask(s) \/ FinishAttempt(s)
    PROVE  HistoryInv'
<1>1. /\ pc[s] \in {<<"Started", "mem">>, <<"Finished", "mem">>} /\ UNCHANGED <<taskRow, graphRow, effects>>
      /\ pc[s] \notin Outside /\ pc[s] # Closed
  <2>1. pc[s] \in {<<"Started", "mem">>, <<"Finished", "mem">>} /\ UNCHANGED <<taskRow, graphRow, effects>>
    BY DEF StartTask, FinishAttempt, At, store
  <2> QED BY <2>1 DEF Outside, Closed, Idle
<1>2. /\ DOMAIN mem = Sessions /\ Task(s) \in Tasks
      /\ DOMAIN mem[s] = {"graph", "rows", "attempts", "leases", "probes", "policy"}
  BY <1>1 DEF LeaseInv, Shape, SessionShape
<1>3. CASE StartTask(s) /\ Abort(s) /\ mem' = mem
  BY <1>1, <1>3, AbortRecorded
<1>4. CASE StartTask(s) /\ NewAttempt(s, FALSE) /\ Goto(s, "Started", "insert") /\ UNCHANGED local
  <2>1. pc[s] = <<"Started", "mem">> /\ pc'[s] = <<"Started", "insert">> /\ OnlyOf(s) /\ local' = local
    BY <1>4 DEF LeaseInv, Shape, OnlyOf, StartTask, At, Goto, NewAttempt
  <2>2. PICK base, attempt :
            /\ base = UpdateState(mem[s], Task(s), "Running")
            /\ mem' = [mem EXCEPT ![s] = [base EXCEPT !.attempts[Task(s)] = @ \cup {attempt}]]
    BY <1>4 DEF NewAttempt
  <2>3. /\ base.rows = [mem[s].rows EXCEPT ![Task(s)] = Merge(@, "Running")]
        /\ base.policy = mem[s].policy /\ DOMAIN base = DOMAIN mem[s]
    BY <1>2, <2>2 DEF UpdateState
  <2>4. /\ mem'[s].rows = [mem[s].rows EXCEPT ![Task(s)] = Merge(@, "Running")]
        /\ mem'[s].policy = mem[s].policy
    BY <1>2, <2>2, <2>3
  <2>5. /\ pc'[s] \notin Outside /\ BeforeWork(s) /\ ~Asking(s)' /\ ~Ending(s)' /\ ~Ended(s)'
        /\ ~HasGraph(s)'
    BY <2>1 DEF Outside, Closed, Idle, BeforeWork, Asking, Ending, Ended, HasGraph
  <2>6. "Running" \in EventStatesOf /\ "Running" \in Past
    BY DEF EventStatesOf, Past, TaskState
  <2>7. ReadIsFresh(s)'
    BY <2>1, <2>5 DEF ReadIsFresh
  <2> QED BY <1>1, <2>1, <2>4, <2>5, <2>6, <2>7, MemoryMoves
<1>5. CASE FinishAttempt(s)
  <2>1. pc[s] = <<"Finished", "mem">> /\ pc'[s] = <<"Finished", "insert">> /\ OnlyOf(s) /\ local' = local
    BY <1>5 DEF LeaseInv, Shape, OnlyOf, FinishAttempt, At, Goto, NewAttempt
  <2>2. PICK attempt : mem' = [mem EXCEPT ![s] = [mem[s] EXCEPT !.attempts[Task(s)] = @ \cup {attempt}]]
    BY <1>5 DEF FinishAttempt, NewAttempt
  <2>3. /\ mem'[s].rows = mem[s].rows /\ mem'[s].graph = mem[s].graph
        /\ mem'[s].policy = mem[s].policy
    BY <1>2, <2>2
  <2>4. /\ pc'[s] \notin Outside /\ ~BeforeWork(s)' /\ ~Waiting(s) /\ ~Asking(s)' /\ Ending(s) /\ Ended(s)
        /\ ~HasGraph(s)'
    BY <2>1 DEF Outside, Closed, Idle, BeforeWork, Waiting, Asking, Ending, Ended, HasGraph
  <2>5. ReadIsFresh(s)' /\ Task(s)' = Task(s)
    BY <2>1, <2>4 DEF ReadIsFresh, Task
  <2> QED BY <1>1, <2>1, <2>3, <2>4, <2>5, GoesOn
<1> QED
  BY <1>3, <1>4, <1>5 DEF StartTask

LEMMA InsertRecorded ==
    ASSUME LeaseInv, RowInv, HistoryInv, NEW s \in Sessions, InsertAttempt(s)
    PROVE  HistoryInv'
<1>1. PICK stage \in {"Started", "Finished"} : pc[s] = <<stage, "insert">> /\ pc'[s] = <<stage, "touch">>
  BY DEF LeaseInv, Shape, InsertAttempt, At, Goto
<1>2. OnlyOf(s) /\ UNCHANGED <<taskRow, graphRow, effects, mem>>
  BY DEF LeaseInv, Shape, OnlyOf, InsertAttempt, Goto
<1>3. /\ pc[s] \notin Outside /\ pc'[s] \notin Outside /\ ~HasGraph(s)'
      /\ BeforeWork(s)' <=> BeforeWork(s)
      /\ ~Waiting(s) /\ ~Asking(s)'
      /\ Ending(s)' <=> Ending(s)
      /\ Ended(s)' <=> Ended(s)
  BY <1>1 DEF Outside, Closed, Idle, HasGraph, BeforeWork, Waiting, Asking, Ending, Ended
<1>4. /\ DOMAIN local = Sessions /\ DOMAIN local[s] = DOMAIN NoLocals
      /\ local' = [local EXCEPT ![s].row = taskRow[Task(s)]]
  BY DEF LeaseInv, Shape, SessionShape, InsertAttempt
<1>5. /\ local'[s].row = taskRow[Task(s)] /\ local'[s].queue = local[s].queue
      /\ Task(s)' = Task(s)
  BY <1>4 DEF NoLocals, Task
<1>6. ReadIsFresh(s)'
  BY <1>1, <1>2, <1>3, <1>5 DEF ReadIsFresh
<1> QED
  BY <1>2, <1>3, <1>5, <1>6, GoesOn

\* The row that is written back is the one that is there.
LEMMA TouchRecorded ==
    ASSUME LeaseInv, RowInv, HistoryInv, NEW s \in Sessions, TouchTaskRow(s)
    PROVE  /\ HistoryInv'
           /\ \A t \in Tasks : taskRow'[t] = taskRow[t]
<1>1. \/ pc[s] = <<"Started", "touch">> /\ pc'[s] = <<"Lease", "row">>
      \/ pc[s] = <<"Finished", "touch">> /\ pc'[s] = <<"Release", "mem">>
  BY DEF LeaseInv, Shape, TouchTaskRow, At, Goto
<1>2. OnlyOf(s) /\ UNCHANGED <<graphRow, effects, mem>>
  BY DEF LeaseInv, Shape, OnlyOf, TouchTaskRow, Goto
<1>3. /\ pc[s] \notin Outside /\ pc'[s] \notin Outside /\ ~HasGraph(s)' /\ pc[s][2] = "touch"
      /\ BeforeWork(s)' => BeforeWork(s)
      /\ ~Waiting(s) /\ ~Asking(s)'
      /\ Ending(s)' <=> Ending(s)
      /\ Ended(s)' <=> Ended(s)
  BY <1>1 DEF Outside, Closed, Idle, HasGraph, BeforeWork, Waiting, Asking, Ending, Ended
<1>4. pc[s] # Closed /\ pc[s] # Idle /\ pc'[s] # Closed /\ pc'[s] # Idle
  BY <1>3 DEF Outside
<1>5. /\ DOMAIN local = Sessions /\ DOMAIN local[s] = DOMAIN NoLocals /\ Task(s) \in Tasks
      /\ local' = [local EXCEPT ![s].row = Null] /\ local[s].queue \subseteq Tasks
  BY <1>3 DEF LeaseInv, Shape, SessionShape, TouchTaskRow
<1>6. local'[s].queue = local[s].queue /\ Task(s)' = Task(s)
  BY <1>5 DEF NoLocals, Task
<1>7. local[s].row = taskRow[Task(s)] /\ StatesFollow(s) /\ Unstarted(s) /\ InHand(s)
  BY <1>3, <1>4 DEF HistoryInv, History, ReadIsFresh
<1>8. \A t \in Tasks : taskRow'[t] = taskRow[t]
  BY <1>7 DEF TouchTaskRow, RowInv, RowsTyped
<1>9. \A t \in Tasks : Loaded(t)' = Loaded(t)
  BY <1>2, <1>8 DEF Loaded
<1>10. StatesFollow(s)'
  BY <1>2, <1>4, <1>7, <1>9 DEF StatesFollow, Typed
<1>11. Unstarted(s)'
  BY <1>2, <1>5, <1>6, <1>7, <1>9 DEF Unstarted, Once
<1>12. InHand(s)'
  <2>1. Loaded(Task(s))' = Loaded(Task(s)) /\ taskRow'[Task(s)] = taskRow[Task(s)]
    BY <1>2, <1>5, <1>6, <1>8 DEF Loaded
  <2>2. Once(s, Task(s))' = Once(s, Task(s))
    BY <1>2, <1>6 DEF Once
  <2> QED BY <1>2, <1>3, <1>6, <1>7, <2>1, <2>2 DEF InHand
<1>13. ReadIsFresh(s)'
  BY <1>1, <1>3, Stages DEF ReadIsFresh
<1>14. UnsafeExecutesOnce' /\ (graphRow' = Null => \A t \in Tasks : taskRow'[t] = Null)
  BY <1>2, <1>8 DEF HistoryInv, UnsafeExecutesOnce
<1> QED
  BY <1>2, <1>4, <1>8, <1>10, <1>11, <1>12, <1>13, <1>14, OthersClosed, HistoryStep DEF History

LEMMA LeaseRecorded ==
    ASSUME LeaseInv, RowInv, HistoryInv, NEW s \in Sessions,
           AcquireLeaseRow(s) \/ AcquireLeaseInMemory(s) \/ ReleaseLeaseInMemory(s)
    PROVE  HistoryInv'
<1>1. /\ pc[s] \in {<<"Lease", "row">>, <<"Lease", "mem">>, <<"Release", "mem">>}
      /\ UNCHANGED <<taskRow, graphRow, effects>>
  BY DEF AcquireLeaseRow, AcquireLeaseInMemory, ReleaseLeaseInMemory, At, store
<1>2. pc[s] \notin Outside /\ pc[s] # Closed
  BY <1>1 DEF Outside, Closed, Idle
<1>3. CASE Abort(s) /\ mem' = mem
  BY <1>1, <1>2, <1>3, AbortRecorded
<1>4. CASE ~(Abort(s) /\ mem' = mem)
  <2>1. /\ \/ pc[s] = <<"Lease", "row">> /\ pc'[s] = <<"Lease", "mem">>
           \/ pc[s] = <<"Lease", "mem">> /\ pc'[s] = <<"Planned", "mem">>
           \/ pc[s] = <<"Release", "mem">> /\ pc'[s] = <<"Release", "row">>
        /\ OnlyOf(s)
    BY <1>4 DEF LeaseInv, Shape, OnlyOf, AcquireLeaseRow, AcquireLeaseInMemory, ReleaseLeaseInMemory, At, Goto
  <2>2. /\ DOMAIN mem = Sessions /\ DOMAIN local = Sessions /\ DOMAIN local[s] = DOMAIN NoLocals
        /\ DOMAIN mem[s] = {"graph", "rows", "attempts", "leases", "probes", "policy"}
    BY <1>2 DEF LeaseInv, Shape, SessionShape
  <2>3. /\ mem'[s].rows = mem[s].rows /\ mem'[s].graph = mem[s].graph
        /\ mem'[s].policy = mem[s].policy
    BY <1>4, <2>2 DEF AcquireLeaseRow, AcquireLeaseInMemory, ReleaseLeaseInMemory
  <2>4. local'[s].queue = local[s].queue /\ Task(s)' = Task(s)
    BY <1>4, <2>2 DEF AcquireLeaseRow, AcquireLeaseInMemory, ReleaseLeaseInMemory, NoLocals, Task
  <2>5. /\ pc'[s] \notin Outside /\ ~HasGraph(s)' /\ ~Waiting(s) /\ ~Asking(s)'
        /\ BeforeWork(s)' => BeforeWork(s)
        /\ Ending(s)' => Ending(s)
        /\ Ended(s)' => Ended(s)
    BY <2>1 DEF Outside, Closed, Idle, HasGraph, BeforeWork, Waiting, Asking, Ending, Ended
  <2>6. ReadIsFresh(s)'
    BY <2>1, <2>5, Stages DEF ReadIsFresh
  <2> QED BY <1>1, <1>2, <2>1, <2>3, <2>4, <2>5, <2>6, GoesOn
<1> QED
  BY <1>3, <1>4

\* The task is finished, in memory and in the store.
LEMMA ReleaseRecorded ==
    ASSUME LeaseInv, RowInv, HistoryInv, NEW s \in Sessions, ReleaseLeaseRow(s)
    PROVE  /\ HistoryInv'
           /\ mem[s].rows[Task(s)] # "Failed" =>
                  mem[s].rows[Task(s)] = "Completed" /\ taskRow[Task(s)] = "Completed"
<1>1. /\ pc[s] = <<"Release", "row">> /\ pc'[s] = <<"Next", "-">> /\ OnlyOf(s)
      /\ UNCHANGED <<taskRow, graphRow, effects, mem>>
  BY DEF LeaseInv, Shape, OnlyOf, ReleaseLeaseRow, At, Goto
<1>2. /\ pc[s] # Closed /\ pc[s] # Idle /\ pc[s] \notin Outside /\ Ending(s) /\ Ended(s)
      /\ pc'[s] # Closed /\ pc'[s] # Idle /\ ~HasGraph(s)'
  BY <1>1 DEF Outside, Closed, Idle, Ending, Ended, HasGraph
<1>3. /\ DOMAIN local = Sessions /\ DOMAIN local[s] = DOMAIN NoLocals /\ Task(s) \in Tasks
      /\ local' = [local EXCEPT ![s].lease = Null]
  BY <1>2 DEF LeaseInv, Shape, SessionShape, ReleaseLeaseRow
<1>4. StatesFollow(s) /\ Unstarted(s) /\ InHand(s)
  BY <1>2 DEF HistoryInv, History
<1>5. /\ mem[s].rows[Task(s)] # "Failed" =>
             mem[s].rows[Task(s)] = "Completed" /\ taskRow[Task(s)] = "Completed"
  <2>1. mem[s].rows[Task(s)] \in {"Completed", "Failed"} /\ taskRow[Task(s)] \in {"Completed", "Failed"}
    BY <1>2, <1>4 DEF InHand
  <2>2. Loaded(Task(s)) = taskRow[Task(s)]
    BY <2>1, NullAssumption DEF Loaded, TaskState
  <2> QED BY <1>3, <1>4, <2>1, <2>2 DEF StatesFollow, Agree
<1>6. StatesFollow(s)' /\ \A t : Loaded(t)' = Loaded(t)
  BY <1>1, <1>2, StatesStay, StoreStays
<1>7. local'[s].queue = local[s].queue
  BY <1>3 DEF NoLocals
<1>8. Unstarted(s)'
  BY <1>1, <1>4, <1>6, <1>7 DEF Unstarted, Once
<1>9. ReadIsFresh(s)'
  BY <1>1, <1>2, Stages DEF ReadIsFresh
<1>10. InHand(s)'
  BY <1>1 DEF InHand, Outside
<1> QED
  BY <1>1, <1>2, <1>5, <1>6, <1>8, <1>9, <1>10, StoreStays, OthersClosed, HistoryStep DEF History

\* A task is executed only when nothing stands against it.
LEMMA ExecuteRecorded ==
    ASSUME LeaseInv, CommitInv, RowInv, HistoryInv, NEW s \in Sessions, Execute(s)
    PROVE  /\ HistoryInv'
           /\ mem[s].policy = "RequireInspection" => effects[Task(s)] = 0
           /\ taskRow[Task(s)] # "AwaitingApproval"
<1>1. /\ pc[s] = <<"Verifying", "work">> /\ pc'[s] = <<"Verifying", "mem">> /\ OnlyOf(s)
      /\ UNCHANGED <<taskRow, graphRow, mem, local>>
      /\ effects' = [effects EXCEPT ![Task(s)] = @ + 1]
  BY DEF LeaseInv, Shape, OnlyOf, Execute, At, Goto, store
<1>2. /\ pc[s] \notin Outside /\ pc[s] # Closed /\ pc[s] # Idle
      /\ pc'[s] \notin Outside /\ pc'[s] # Closed /\ pc'[s] # Idle
      /\ BeforeWork(s) /\ ~BeforeWork(s)' /\ ~Waiting(s) /\ ~Asking(s)' /\ ~Ending(s)' /\ ~Ended(s)'
      /\ ~HasGraph(s)'
  BY <1>1 DEF Outside, Closed, Idle, BeforeWork, Waiting, Asking, Ending, Ended, HasGraph
<1>3. Task(s) \in Tasks /\ local[s].queue \subseteq Tasks /\ Task(s)' = Task(s)
  BY <1>1, <1>2 DEF LeaseInv, SessionShape, Task
<1>4. effects \in [Tasks -> Nat]
  BY DEF CommitInv, StoreSound
<1>5. /\ effects'[Task(s)] = effects[Task(s)] + 1
      /\ \A t \in Tasks \ {Task(s)} : effects'[t] = effects[t]
  BY <1>1, <1>3, <1>4
<1>6. StatesFollow(s) /\ Unstarted(s) /\ InHand(s)
  BY <1>2 DEF HistoryInv, History
<1>7. /\ Task(s) \notin local[s].queue /\ Loaded(Task(s)) # "AwaitingApproval"
      /\ Once(s, Task(s)) => effects[Task(s)] = 0
      /\ mem[s].rows[Task(s)] \in Past
  BY <1>2, <1>6 DEF InHand
<1>8. taskRow[Task(s)] # "AwaitingApproval"
  <2>1. taskRow[Task(s)] \in Past
    BY <1>1 DEF RowInv, RowRead
  <2> QED BY <1>7, <2>1, NullAssumption DEF Loaded, Past
<1>9. \A t : Loaded(t)' = Loaded(t)
  BY <1>1 DEF Loaded
<1>10. StatesFollow(s)'
  <2>1. ASSUME NEW t \in Tasks, effects'[t] > 0 PROVE mem[s].rows[t] \in Past
    BY <1>5, <1>6, <1>7, <2>1 DEF StatesFollow
  <2> QED BY <1>1, <1>2, <1>6, <1>9, <2>1 DEF StatesFollow, Typed
<1>11. Unstarted(s)'
  BY <1>1, <1>3, <1>5, <1>6, <1>7, <1>9 DEF Unstarted, Once
<1>12. InHand(s)'
  BY <1>1, <1>2, <1>3, <1>7 DEF InHand
<1>13. ReadIsFresh(s)'
  BY <1>1, <1>2, Stages DEF ReadIsFresh
<1>14. UnsafeExecutesOnce'
  <2>1. ASSUME NEW t \in Tasks \ RetrySafe PROVE effects'[t] <= 1
    <3>1. CASE t = Task(s)
      BY <1>4, <1>5, <1>7, <3>1 DEF Once
    <3>2. CASE t # Task(s)
      BY <1>5, <3>2 DEF HistoryInv, UnsafeExecutesOnce
    <3> QED BY <3>1, <3>2
  <2> QED BY <2>1 DEF UnsafeExecutesOnce
<1>15. graphRow' = Null => \A t \in Tasks : taskRow'[t] = Null
  BY <1>1 DEF HistoryInv
<1>16. mem[s].policy = "RequireInspection" => effects[Task(s)] = 0
  BY <1>7 DEF Once
<1> QED
  BY <1>1, <1>2, <1>8, <1>10, <1>11, <1>12, <1>13, <1>14, <1>15, <1>16, OthersClosed, HistoryStep DEF History

LEMMA CommitRecorded ==
    ASSUME LeaseInv, RowInv, HistoryInv, NEW s \in Sessions, Commit(s)
    PROVE  HistoryInv'
<1>1. /\ pc[s] = <<"Completed", "work">> /\ pc'[s] = <<"Completed", "mem">> /\ OnlyOf(s)
      /\ UNCHANGED <<taskRow, graphRow, mem, effects>>
      /\ local' = [local EXCEPT ![s].done = @ \cup {Task(s)}]
  BY DEF LeaseInv, Shape, OnlyOf, Commit, At, Goto, store
<1>2. /\ pc[s] \notin Outside /\ pc'[s] \notin Outside
      /\ ~BeforeWork(s)' /\ ~Waiting(s) /\ ~Asking(s)' /\ ~Ending(s)' /\ ~Ended(s)' /\ ~HasGraph(s)'
  BY <1>1 DEF Outside, Closed, Idle, BeforeWork, Waiting, Asking, Ending, Ended, HasGraph
<1>3. DOMAIN local = Sessions /\ DOMAIN local[s] = DOMAIN NoLocals
  BY DEF LeaseInv, Shape, SessionShape
<1>4. local'[s].queue = local[s].queue /\ Task(s)' = Task(s)
  BY <1>1, <1>3 DEF NoLocals, Task
<1>5. ReadIsFresh(s)'
  BY <1>1, <1>2, Stages DEF ReadIsFresh
<1> QED
  BY <1>1, <1>2, <1>4, <1>5, GoesOn

LEMMA RestRecorded ==
    ASSUME HistoryInv, Tick \/ UNCHANGED vars
    PROVE  HistoryInv'
<1>1. UNCHANGED <<graphRow, taskRow, mem, pc, local, effects>>
  BY DEF Tick, vars, store
<1>2. ASSUME NEW s \in Sessions PROVE History(s)'
  <2>1. History(s)
    BY DEF HistoryInv
  <2>2. /\ Task(s)' = Task(s) /\ \A t : Loaded(t)' = Loaded(t) /\ Once(s, t)' = Once(s, t)
        /\ HasGraph(s)' = HasGraph(s) /\ Waiting(s)' = Waiting(s) /\ BeforeWork(s)' = BeforeWork(s)
        /\ Asking(s)' = Asking(s) /\ Ending(s)' = Ending(s) /\ Ended(s)' = Ended(s)
    BY <1>1 DEF Task, Loaded, Once, HasGraph, Waiting, BeforeWork, Asking, Ending, Ended
  <2>3. StatesFollow(s) => StatesFollow(s)'
    BY <1>1, <2>2 DEF StatesFollow, Typed
  <2>4. Loaded(Task(s))' = Loaded(Task(s)) /\ Once(s, Task(s))' = Once(s, Task(s))
    BY <1>1, <2>2 DEF Loaded, Once
  <2>5. ReadIsFresh(s) => ReadIsFresh(s)'
    BY <1>1, <2>2, <2>4 DEF ReadIsFresh
  <2>6. Unstarted(s) => Unstarted(s)'
    BY <1>1, <2>2 DEF Unstarted
  <2>7. InHand(s) => InHand(s)'
    BY <1>1, <2>2, <2>4 DEF InHand
  <2> QED BY <1>1, <2>1, <2>3, <2>5, <2>6, <2>7 DEF History
<1> QED
  BY <1>1, <1>2 DEF HistoryInv, UnsafeExecutesOnce

-----------------------------------------------------------------------------
THEOREM HistoryInvariance == Exclusive /\ Spec => []HistoryInv
<1>1. Exclusive /\ LeaseInv /\ CommitInv /\ RowInv /\ HistoryInv /\ [Next]_vars => HistoryInv'
  <2> SUFFICES ASSUME Exclusive, LeaseInv, CommitInv, RowInv, HistoryInv, [Next]_vars PROVE HistoryInv'
    OBVIOUS
  <2>1. ASSUME NEW s \in Sessions, Step(s) PROVE HistoryInv'
    BY <2>1, SaveRecorded, TakeRecorded, PlanRecorded, LeaveRecorded, EmitRecorded, ReadRecorded,
       WriteGraphRecorded, WriteTaskRecorded, AttemptRecorded, InsertRecorded, TouchRecorded, LeaseRecorded,
       ExecuteRecorded, CommitRecorded, ReleaseRecorded DEF Step
  <2>2. ASSUME NEW s \in Sessions,
               \/ \E policy \in Policies : Open(s, policy)
               \/ \E t \in Tasks, status \in ProbeStatuses : RecordProbe(s, t, status)
               \/ Run(s) \/ Resume(s) \/ Fail(s) \/ Die(s)
        PROVE  HistoryInv'
    BY <2>2, OpenRecorded, ProbeRecorded, RunRecorded, PlanRecorded, LeaveRecorded
  <2> QED BY <2>1, <2>2, RestRecorded DEF Next
<1>2. CASE Exclusive
  <2>1. LeaseInv /\ CommitInv /\ RowInv /\ HistoryInv /\ [Next]_vars => HistoryInv'
    BY <1>1, <1>2
  <2>2. Spec => []RowInv
    BY <1>2, RowInvariance
  <2> QED
    BY <2>1, <2>2, HistoryInit, LeaseInvariance, CommitInvariance, PTL DEF Spec
<1>3. CASE ~Exclusive
  BY <1>3
<1> QED
  BY <1>2, <1>3

\* Where one session is open at a time, a task that is not retry-safe is
\* executed once at most, whatever fails or dies and is resumed.
THEOREM UnsafeExecutedOnce == Exclusive /\ Spec => []UnsafeExecutesOnce
<1>1. HistoryInv => UnsafeExecutesOnce
  BY DEF HistoryInv
<1>2. CASE Exclusive
  <2>1. Spec => []HistoryInv
    BY <1>2, HistoryInvariance
  <2> QED BY <1>1, <2>1, PTL
<1>3. CASE ~Exclusive
  BY <1>3
<1> QED
  BY <1>2, <1>3

\* A row of the store changes in two actions only, and neither takes back a
\* completed task.
LEMMA CompletedStays ==
    ASSUME LeaseInv, RowInv, HistoryInv, [Next]_vars, NEW t \in Tasks, taskRow[t] = "Completed"
    PROVE  taskRow'[t] = "Completed"
<1>1. ASSUME NEW s \in Sessions, SaveTaskRow(s) PROVE taskRow'[t] = "Completed"
  <2>1. pc[s] = <<"SaveGraph", "row">>
    BY <1>1 DEF SaveTaskRow, At
  <2>2. mem[s].graph = NewState /\ RowsTyped
    BY <2>1 DEF HistoryInv, History, ReadIsFresh, RowInv, Closed
  <2>3. PICK q : taskRow' = [taskRow EXCEPT ![q] = IF @ = Null THEN mem[s].graph[q] ELSE Merge(@, mem[s].graph[q])]
    BY <1>1 DEF SaveTaskRow
  <2>4. "Completed" # Null
    BY NullAssumption DEF TaskState
  <2>5. CASE q = t
    <3>1. taskRow'[t] = Merge("Completed", "Ready")
      BY <2>2, <2>3, <2>4, <2>5 DEF RowsTyped, NewState
    <3> QED BY <3>1 DEF Merge, Rank
  <2>6. CASE q # t
    BY <2>2, <2>3, <2>6 DEF RowsTyped
  <2> QED BY <2>5, <2>6
<1>2. ASSUME NEW s \in Sessions, WriteTaskRow(s) PROVE taskRow'[t] = "Completed"
  BY <1>2, WriteTaskRecorded
<1>3. ASSUME NEW s \in Sessions, TouchTaskRow(s) PROVE taskRow'[t] = "Completed"
  BY <1>3, TouchRecorded
<1>4. ASSUME NEW s \in Sessions, Step(s) PROVE taskRow'[t] = "Completed"
  <2>1. CASE SaveTaskRow(s) \/ WriteTaskRow(s) \/ TouchTaskRow(s)
    BY <1>1, <1>2, <1>3, <2>1
  <2>2. CASE SaveGraphRow(s) \/ TakeTask(s) \/ Replan(s) \/ Return(s) \/ EmitInMemory(s) \/ ReadRows(s)
    BY <2>2 DEF SaveGraphRow, TakeTask, Replan, Return, EmitInMemory, ReadRows, store
  <2>3. CASE WriteGraphRow(s) \/ StartTask(s) \/ FinishAttempt(s) \/ InsertAttempt(s) \/ Execute(s) \/ Commit(s)
    BY <2>3 DEF WriteGraphRow, StartTask, FinishAttempt, InsertAttempt, Execute, Commit, store
  <2>4. CASE \/ AcquireLeaseRow(s) \/ AcquireLeaseInMemory(s)
             \/ ReleaseLeaseInMemory(s) \/ ReleaseLeaseRow(s)
    BY <2>4 DEF AcquireLeaseRow, AcquireLeaseInMemory, ReleaseLeaseInMemory, ReleaseLeaseRow, store
  <2> QED BY <1>4, <2>1, <2>2, <2>3, <2>4 DEF Step
<1>5. ASSUME NEW s \in Sessions,
             \/ \E policy \in Policies : Open(s, policy)
             \/ \E q \in Tasks, status \in ProbeStatuses : RecordProbe(s, q, status)
             \/ Run(s) \/ Resume(s) \/ Fail(s) \/ Die(s)
      PROVE  taskRow'[t] = "Completed"
  BY <1>5 DEF Open, RecordProbe, Run, Resume, Fail, Die, store
<1>6. CASE Tick \/ UNCHANGED vars
  BY <1>6 DEF Tick, vars, store
<1> QED
  BY <1>4, <1>5, <1>6 DEF Next

\* Where one session is open at a time, completion is neither undone nor
\* forgotten.
THEOREM CompletionKept == Exclusive /\ Spec => CompletionHolds
<1>1. LeaseInv /\ RowInv /\ HistoryInv /\ [Next]_vars
        => [\A t \in Tasks : taskRow[t] = "Completed" => taskRow'[t] = "Completed"]_vars
  BY CompletedStays
<1>2. LeaseInv /\ RowInv /\ HistoryInv /\ [Next]_vars
        => [\A s \in Sessions :
              ReleaseLeaseRow(s) /\ mem[s].rows[Task(s)] # "Failed"
                  => mem[s].rows[Task(s)] = "Completed" /\ taskRow[Task(s)] = "Completed"]_vars
  BY ReleaseRecorded
<1>3. CASE Exclusive
  <2>1. Spec => []RowInv
    BY <1>3, RowInvariance
  <2>2. Spec => []HistoryInv
    BY <1>3, HistoryInvariance
  <2> QED
    BY <1>1, <1>2, <2>1, <2>2, LeaseInvariance, PTL
    DEF Spec, CompletionHolds, CompletedIsFinal, FinishedIsCompleted
<1>4. CASE ~Exclusive
  BY <1>4
<1> QED
  BY <1>3, <1>4

-----------------------------------------------------------------------------
(* What a call takes up: nothing it has done, and no failed task of which   *)
(* the provider reported otherwise.                                         *)

\* At most one report is kept of an attempt.
OneReport(ps) ==
    /\ \A p \in ps : p.status \in ProbeStatuses
    /\ \A p, q \in ps : p.n = q.n => p = q

Reported(m, t) == m.rows[t] = "Failed" => NoAdverseReport(m, t)

\* No plan takes the task up again: it is completed, or it failed and its
\* latest attempt is a committed one.
IsDone(m, t) ==
    \/ m.rows[t] = "Completed"
    \/ m.rows[t] = "Failed" /\ m.attempts[t] # {} /\ Latest(m.attempts[t]).committed = TRUE

\* The task is committed; its attempt is recorded as committed.
UnderWay(s) == Completing(s) \/ Ended(s)
Recorded(s) == pc[s][1] = "Release" \/ (pc[s][1] = "Finished" /\ pc[s][2] # "mem")

CallSound(s) ==
    pc[s] # Closed =>
        /\ DOMAIN mem[s].probes = Tasks /\ \A t \in Tasks : OneReport(mem[s].probes[t])
        /\ \A t \in local[s].queue : t \notin local[s].done /\ Reported(mem[s], t)
        /\ \A t \in local[s].done :
              IsDone(mem[s], t) \/ (pc[s] \notin Outside /\ t = Task(s) /\ UnderWay(s))
        /\ pc[s] \notin Outside /\ Waiting(s) => Reported(mem[s], Task(s)) /\ Task(s) \notin local[s].done
        /\ Recorded(s) => IsDone(mem[s], Task(s))

CallInv ==
    /\ DOMAIN probes = Tasks /\ \A t \in Tasks : OneReport(probes[t])
    /\ \A s \in Sessions : CallSound(s)

LEMMA CallInit == Init => CallInv
<1> SUFFICES ASSUME Init PROVE CallInv
  OBVIOUS
<1>1. DOMAIN probes = Tasks /\ \A t \in Tasks : OneReport(probes[t])
  BY DEF Init, OneReport
<1>2. \A s \in Sessions : pc[s] = Closed
  BY DEF Init
<1> QED
  BY <1>1, <1>2 DEF CallInv, CallSound

LEMMA CallStep ==
    ASSUME CallInv, NEW s \in Sessions, OnlyOf(s), \A r \in Sessions \ {s} : pc[r] = Closed,
           UNCHANGED probes, CallSound(s)'
    PROVE  CallInv'
<1>1. ASSUME NEW r \in Sessions, r # s PROVE CallSound(r)'
  BY <1>1 DEF OnlyOf, CallSound
<1> QED
  BY <1>1 DEF CallInv, OneReport

\* The call is over, or the session.
LEMMA NoCall ==
    ASSUME NEW s \in Sessions, pc'[s] \in {Closed, Idle}, local'[s] = NoLocals,
           pc'[s] # Closed => /\ DOMAIN mem'[s].probes = Tasks
                              /\ \A t \in Tasks : OneReport(mem'[s].probes[t])
    PROVE  CallSound(s)'
<1>1. pc'[s] = Closed \/ pc'[s] = Idle
  OBVIOUS
<1>2. CASE pc'[s] = Closed
  BY <1>2 DEF CallSound
<1>3. CASE pc'[s] = Idle
  <2>1. local'[s].queue = {} /\ local'[s].done = {}
    BY DEF NoLocals
  <2>2. pc'[s] \in Outside /\ ~Recorded(s)'
    BY <1>3 DEF Outside, Recorded, Idle
  <2> QED BY <1>3, <2>1, <2>2 DEF CallSound, OneReport
<1> QED
  BY <1>1, <1>2, <1>3

LEMMA CallLeft ==
    ASSUME LeaseInv, RowInv, CallInv, NEW s \in Sessions, pc[s] # Closed, OnlyOf(s),
           pc'[s] \in {Closed, Idle}, local'[s] = NoLocals, pc'[s] # Closed => mem'[s] = mem[s],
           UNCHANGED probes
    PROVE  CallInv'
<1>1. CallSound(s)
  BY DEF CallInv
<1>2. CallSound(s)'
  BY <1>1, NoCall DEF CallSound
<1> QED
  BY <1>2, OthersClosed, CallStep

\* The same task, in memory as it was or further: what was reported of it and
\* what is done of it stays.
LEMMA MovedTask ==
    ASSUME NEW m, NEW n, NEW t, NEW state \in EventStatesOf,
           n.rows[t] \in {m.rows[t], Merge(m.rows[t], state)},
           n.attempts[t] = m.attempts[t], n.probes[t] = m.probes[t]
    PROVE  /\ Reported(m, t) => Reported(n, t)
           /\ IsDone(m, t) => IsDone(n, t)
<1>1. n.rows[t] = "Failed" => m.rows[t] = "Failed"
  BY DEF Merge, EventStatesOf
<1>2. m.rows[t] \in {"Completed", "Failed"} => n.rows[t] = m.rows[t]
  BY DEF Merge, Rank, EventStatesOf
<1> QED
  BY <1>1, <1>2 DEF Reported, NoAdverseReport, IsDone

\* The call goes on with its task, of which it knows no new attempt or report.
LEMMA CallMoves ==
    ASSUME LeaseInv, CommitInv, RowInv, CallInv, NEW s \in Sessions, OnlyOf(s),
           pc[s] \notin Outside, pc'[s] \notin Outside, NEW state \in EventStatesOf,
           \A t \in Tasks : mem'[s].rows[t] \in {mem[s].rows[t], Merge(mem[s].rows[t], state)},
           mem'[s].attempts = mem[s].attempts, mem'[s].probes = mem[s].probes,
           local'[s].queue = local[s].queue, local'[s].done = local[s].done, Task(s)' = Task(s),
           Waiting(s)' => Waiting(s), UnderWay(s) => UnderWay(s)', Recorded(s)' => Recorded(s),
           UNCHANGED probes
    PROVE  CallInv'
<1>1. pc[s] # Closed /\ CallSound(s)
  BY DEF CallInv, Outside
<1>2. local[s].queue \subseteq Tasks /\ local[s].done \subseteq Tasks /\ Task(s) \in Tasks
  BY DEF LeaseInv, SessionShape, CommitInv, LocalSound, Committed
<1>3. \A t \in Tasks : /\ Reported(mem[s], t) => Reported(mem'[s], t)
                       /\ IsDone(mem[s], t) => IsDone(mem'[s], t)
  BY MovedTask
<1>4. Task(s)' = local'[s].task
  BY DEF Task
<1>5. CallSound(s)'
  <2>1. DOMAIN mem'[s].probes = Tasks /\ \A t \in Tasks : OneReport(mem'[s].probes[t])
    BY <1>1 DEF CallSound
  <2>2. \A t \in local'[s].queue : t \notin local'[s].done /\ Reported(mem'[s], t)
    BY <1>1, <1>2, <1>3 DEF CallSound
  <2>3. \A t \in local'[s].done : IsDone(mem'[s], t) \/ (pc'[s] \notin Outside /\ t = Task(s)' /\ UnderWay(s)')
    BY <1>1, <1>2, <1>3 DEF CallSound
  <2>4. Waiting(s)' => Reported(mem'[s], Task(s)') /\ Task(s)' \notin local'[s].done
    BY <1>1, <1>2, <1>3 DEF CallSound
  <2>5. Recorded(s)' => IsDone(mem'[s], Task(s)')
    BY <1>1, <1>2, <1>3 DEF CallSound
  <2> QED BY <1>4, <2>1, <2>2, <2>3, <2>4, <2>5 DEF CallSound, OneReport
<1> QED
  BY <1>1, <1>5, OthersClosed, CallStep

LEMMA SameTask ==
    ASSUME NEW m, NEW n, NEW t, n.rows[t] = m.rows[t], n.attempts[t] = m.attempts[t], n.probes[t] = m.probes[t]
    PROVE  /\ Reported(m, t) => Reported(n, t)
           /\ IsDone(m, t) => IsDone(n, t)
  BY DEF Reported, NoAdverseReport, IsDone

LEMMA CallGoesOn ==
    ASSUME LeaseInv, CommitInv, RowInv, CallInv, NEW s \in Sessions, OnlyOf(s),
           pc[s] \notin Outside, pc'[s] \notin Outside, mem'[s].rows = mem[s].rows,
           mem'[s].attempts = mem[s].attempts, mem'[s].probes = mem[s].probes,
           local'[s].queue = local[s].queue, local'[s].done = local[s].done, Task(s)' = Task(s),
           Waiting(s)' => Waiting(s), UnderWay(s) => UnderWay(s)', Recorded(s)' => Recorded(s),
           UNCHANGED probes
    PROVE  CallInv'
<1>1. "Ready" \in EventStatesOf
  BY DEF EventStatesOf
<1> QED
  BY <1>1, CallMoves

-----------------------------------------------------------------------------
LEMMA OpenCalls ==
    ASSUME LeaseInv, RowInv, HistoryInv, CallInv, Exclusive, NEW s \in Sessions, NEW policy \in Policies,
           Open(s, policy)
    PROVE  CallInv'
<1>1. /\ OnlyOf(s) /\ pc'[s] = Idle /\ pc[s] = Closed /\ local'[s] = local[s]
      /\ mem'[s].probes = probes /\ UNCHANGED probes
  BY DEF LeaseInv, Shape, Open, OnlyOf, store
<1>2. \A r \in Sessions : pc[r] = Closed
  BY DEF Open
<1>3. local'[s] = NoLocals
  BY <1>1 DEF HistoryInv, History
<1>4. DOMAIN probes = Tasks /\ \A t \in Tasks : OneReport(probes[t])
  BY DEF CallInv
<1>5. CallSound(s)'
  BY <1>1, <1>3, <1>4, NoCall
<1> QED
  BY <1>1, <1>2, <1>5, CallStep

LEMMA LeaveCalls ==
    ASSUME LeaseInv, RowInv, CallInv, NEW s \in Sessions, Die(s) \/ Fail(s) \/ Return(s)
    PROVE  CallInv'
<1>1. OnlyOf(s) /\ pc'[s] \in {Closed, Idle} /\ local'[s] = NoLocals
  BY DEF LeaseInv, Shape, Die, Fail, Return, OnlyOf
<1>2. pc[s] # Closed
  BY DEF Die, Fail, Return, At, Closed
<1>3. UNCHANGED probes
  BY DEF Die, Fail, Return, store
<1>4. pc'[s] # Closed => mem'[s] = mem[s]
  BY DEF LeaseInv, Shape, Die, Fail, Return
<1> QED
  BY <1>1, <1>2, <1>3, <1>4, CallLeft

LEMMA AbortCalls ==
    ASSUME LeaseInv, RowInv, CallInv, NEW s \in Sessions, pc[s] # Closed, Abort(s), UNCHANGED <<probes, mem>>
    PROVE  CallInv'
<1>1. OnlyOf(s) /\ pc'[s] = Idle /\ local'[s] = NoLocals
  BY DEF LeaseInv, Shape, OnlyOf, Abort
<1> QED
  BY <1>1, CallLeft

\* A report takes the place of the one there was of its attempt.
LEMMA ProbeCalls ==
    ASSUME LeaseInv, RowInv, HistoryInv, CallInv, NEW s \in Sessions, NEW t \in Tasks,
           NEW status \in ProbeStatuses, RecordProbe(s, t, status)
    PROVE  CallInv'
<1>1. /\ OnlyOf(s) /\ pc[s] = Idle /\ pc'[s] = Idle /\ pc[s] # Closed /\ local'[s] = local[s]
  BY DEF LeaseInv, Shape, OnlyOf, RecordProbe, Idle, Closed
<1>2. PICK n : n = Latest(mem[s].attempts[t]).n
  OBVIOUS
<1> DEFINE With(ps) == {probe \in ps : probe.n # n} \cup {[n |-> n, status |-> status]}
<1>3. /\ mem' = [mem EXCEPT ![s].probes[t] = With(@)]
      /\ probes' = probes \/ probes' = [probes EXCEPT ![t] = With(@)]
  BY <1>2 DEF RecordProbe
<1>4. \A ps : OneReport(ps) => OneReport(With(ps))
  BY DEF OneReport
<1> HIDE DEF With
<1>5. /\ DOMAIN mem = Sessions /\ CallSound(s)
      /\ DOMAIN mem[s] = {"graph", "rows", "attempts", "leases", "probes", "policy"}
      /\ DOMAIN probes = Tasks /\ \A q \in Tasks : OneReport(probes[q])
  BY <1>1 DEF LeaseInv, Shape, SessionShape, CallInv
<1>6. mem'[s].probes = [mem[s].probes EXCEPT ![t] = With(@)]
  BY <1>3, <1>5
<1>7. DOMAIN mem[s].probes = Tasks /\ \A q \in Tasks : OneReport(mem[s].probes[q])
  BY <1>1, <1>5 DEF CallSound
<1>8. DOMAIN mem'[s].probes = Tasks /\ \A q \in Tasks : OneReport(mem'[s].probes[q])
  BY <1>4, <1>6, <1>7
<1>9. DOMAIN probes' = Tasks /\ \A q \in Tasks : OneReport(probes'[q])
  BY <1>3, <1>4, <1>5
<1>10. CallSound(s)'
  BY <1>1, <1>8, NoCall DEF HistoryInv, History
<1>11. ASSUME NEW r \in Sessions, r # s PROVE CallSound(r)'
  BY <1>1, <1>11, OthersClosed DEF OnlyOf, CallSound
<1> QED
  BY <1>9, <1>10, <1>11 DEF CallInv, OneReport

\* What a session finds ready is not done, and no adverse report is known of it.
LEMMA ReadyIsJustified ==
    ASSUME BoundAssumption, NEW m, NEW t \in Tasks, t \in ReadyTasks(m), OneReport(m.probes[t])
    PROVE  ~IsDone(m, t) /\ Reported(m, t)
<1>1. m.rows[t] = "Ready" \/ RetryRunning(m, t) \/ RetryFailed(m, t)
  BY DEF ReadyTasks, ReadyTask
<1>2. CASE m.rows[t] # "Failed"
  <2>1. m.rows[t] \in {"Ready", "Running"}
    BY <1>1, <1>2 DEF RetryRunning, RetryFailed
  <2> QED BY <2>1 DEF IsDone, Reported
<1>3. CASE m.rows[t] = "Failed"
  <2>1. Recommendation(m, t) = "RetryReady"
    BY <1>1, <1>3 DEF RetryRunning, RetryFailed
  <2>2. PICK attempt : attempt = Latest(m.attempts[t])
    OBVIOUS
  <2>3. PICK ps : ps = ProbesOf(m.probes[t], attempt)
    OBVIOUS
  <2>4. /\ attempt.committed # TRUE
        /\ ps # {} => FromProbe(t, (CHOOSE probe \in ps : TRUE).status) = "RetryReady"
    BY <2>1, <2>2, <2>3 DEF Recommendation
  <2>5. ASSUME NEW probe \in ps PROVE probe.status \in {"NotFound", "Failed"}
    <3>1. PICK chosen : chosen = CHOOSE p \in ps : TRUE
      OBVIOUS
    <3>2. chosen \in ps
      BY <2>5, <3>1
    <3>3. chosen = probe
      BY <2>3, <2>5, <3>2 DEF ProbesOf, OneReport
    <3>4. FromProbe(t, probe.status) = "RetryReady"
      BY <2>4, <2>5, <3>1, <3>3
    <3>5. probe.status \in ProbeStatuses
      BY <2>3, <2>5 DEF ProbesOf, OneReport
    <3>6. probe.status \in {"NotFound", "Pending", "Committed", "Failed", "Unknown"}
      BY <3>5 DEF BoundAssumption
    <3> QED BY <3>4, <3>6 DEF FromProbe
  <2>6. NoAdverseReport(m, t)
    BY <2>2, <2>3, <2>5 DEF NoAdverseReport
  <2> QED BY <1>3, <2>2, <2>4, <2>6 DEF IsDone, Reported
<1> QED
  BY <1>2, <1>3

LEMMA PlanCalls ==
    ASSUME LeaseInv, CommitInv, RowInv, HistoryInv, CallInv, NEW s \in Sessions, Resume(s) \/ Replan(s)
    PROVE  CallInv'
<1>1. OnlyOf(s) /\ mem' = mem /\ UNCHANGED probes
  BY DEF LeaseInv, Shape, OnlyOf, Resume, Replan, Goto, store
<1>2. pc[s] \in {Idle, <<"Next", "-">>}
  BY DEF Resume, Replan, At
<1>3. pc'[s] = <<"Next", "-">>
  BY DEF LeaseInv, Shape, Resume, Replan, At, Goto
<1>4. pc[s] # Closed /\ pc[s] \in Outside /\ pc'[s] \in Outside /\ ~Recorded(s)'
  BY <1>2, <1>3 DEF Closed, Idle, Outside, Recorded
<1>5. CallSound(s) /\ DOMAIN local = Sessions /\ DOMAIN local[s] = DOMAIN NoLocals
  BY DEF CallInv, LeaseInv, Shape, SessionShape
<1>6. local'[s].queue = ReadyTasks(mem[s]) /\ local'[s].done \subseteq local[s].done
  <2>1. CASE Resume(s)
    <3>1. local'[s] = [NoLocals EXCEPT !.queue = ReadyTasks(mem[s]), !.resuming = TRUE,
                                       !.before = {t \in Tasks : mem[s].graph[t] = "Completed"}]
      BY <1>5, <2>1 DEF Resume
    <3> QED BY <3>1 DEF NoLocals
  <2>2. CASE Replan(s)
    <3>1. local' = [local EXCEPT ![s].queue = ReadyTasks(mem[s])]
      BY <2>2 DEF Replan
    <3> QED BY <1>5, <3>1 DEF NoLocals
  <2> QED BY <2>1, <2>2
<1>7. \A t \in ReadyTasks(mem[s]) : ~IsDone(mem[s], t) /\ Reported(mem[s], t)
  <2>1. ReadyTasks(mem[s]) \subseteq Tasks
    BY DEF ReadyTasks
  <2> QED BY <1>4, <1>5, <2>1, BoundAssumption, ReadyIsJustified DEF CallSound
<1>8. \A t \in local[s].done : IsDone(mem[s], t)
  BY <1>4, <1>5 DEF CallSound
<1>9. CallSound(s)'
  <2>1. DOMAIN mem'[s].probes = Tasks /\ \A t \in Tasks : OneReport(mem'[s].probes[t])
    BY <1>1, <1>4, <1>5 DEF CallSound
  <2>2. \A t \in local'[s].queue : t \notin local'[s].done /\ Reported(mem'[s], t)
    BY <1>1, <1>6, <1>7, <1>8
  <2>3. \A t \in local'[s].done : IsDone(mem'[s], t)
    BY <1>1, <1>6, <1>8
  <2> QED BY <1>4, <2>1, <2>2, <2>3 DEF CallSound, OneReport
<1> QED
  BY <1>1, <1>4, <1>9, OthersClosed, CallStep

\* A graph that is new has no failed task.
LEMMA SaveCalls ==
    ASSUME LeaseInv, CommitInv, RowInv, HistoryInv, CallInv, NEW s \in Sessions,
           Run(s) \/ SaveGraphRow(s) \/ SaveTaskRow(s)
    PROVE  CallInv'
<1>1. /\ pc[s] \in {Idle, <<"SaveGraph", "graph">>, <<"SaveGraph", "row">>}
      /\ pc'[s] \in {<<"SaveGraph", "graph">>, <<"SaveGraph", "row">>, <<"Next", "-">>}
      /\ OnlyOf(s) /\ UNCHANGED probes
  BY DEF LeaseInv, Shape, OnlyOf, Run, SaveGraphRow, SaveTaskRow, At, Goto, store
<1>2. pc[s] # Closed /\ pc[s] \in Outside /\ pc'[s] \in Outside /\ ~Recorded(s)'
  BY <1>1 DEF Closed, Idle, Outside, Recorded
<1>3. /\ CallSound(s) /\ DOMAIN local = Sessions /\ DOMAIN local[s] = DOMAIN NoLocals
      /\ DOMAIN mem = Sessions
      /\ DOMAIN mem[s] = {"graph", "rows", "attempts", "leases", "probes", "policy"}
  BY <1>2 DEF CallInv, LeaseInv, Shape, SessionShape
<1>4. CASE Run(s)
  <2>1. mem'[s].rows = NewState /\ mem'[s].probes = mem[s].probes
    BY <1>3, <1>4 DEF Run
  <2>2. local'[s].queue = Tasks /\ local'[s].done = {}
    BY <1>3, <1>4 DEF Run, NoLocals
  <2>3. \A t \in Tasks : Reported(mem'[s], t)
    BY <2>1 DEF Reported, NewState
  <2>4. CallSound(s)'
    BY <1>2, <1>3, <2>1, <2>2, <2>3 DEF CallSound, OneReport
  <2> QED BY <1>1, <1>2, <2>4, OthersClosed, CallStep
<1>5. CASE SaveGraphRow(s) \/ SaveTaskRow(s)
  <2>1. mem' = mem
    BY <1>5 DEF SaveGraphRow, SaveTaskRow
  <2>2. local'[s].queue = local[s].queue /\ local'[s].done = local[s].done
    <3>1. CASE SaveGraphRow(s)
      BY <3>1 DEF SaveGraphRow
    <3>2. CASE SaveTaskRow(s)
      <4>1. PICK saved : local' = [local EXCEPT ![s].saved = saved]
        BY <3>2 DEF SaveTaskRow
      <4> QED BY <1>3, <4>1 DEF NoLocals
    <3> QED BY <1>5, <3>1, <3>2
  <2>3. CallSound(s)'
    <3>1. DOMAIN mem'[s].probes = Tasks /\ \A t \in Tasks : OneReport(mem'[s].probes[t])
      BY <1>2, <1>3, <2>1 DEF CallSound
    <3>2. \A t \in local'[s].queue : t \notin local'[s].done /\ Reported(mem'[s], t)
      BY <1>2, <1>3, <2>1, <2>2 DEF CallSound
    <3>3. \A t \in local'[s].done : IsDone(mem'[s], t)
      BY <1>2, <1>3, <2>1, <2>2 DEF CallSound
    <3> QED BY <1>2, <3>1, <3>2, <3>3 DEF CallSound, OneReport
  <2> QED BY <1>1, <1>2, <2>3, OthersClosed, CallStep
<1> QED
  BY <1>4, <1>5

LEMMA TakeCalls ==
    ASSUME LeaseInv, CommitInv, RowInv, HistoryInv, CallInv, NEW s \in Sessions, TakeTask(s)
    PROVE  CallInv'
<1>1. /\ OnlyOf(s) /\ pc[s] = <<"Next", "-">> /\ pc'[s] = <<"Admitted", "mem">>
      /\ mem' = mem /\ UNCHANGED probes
  BY DEF LeaseInv, Shape, OnlyOf, TakeTask, At, Goto, store
<1>2. pc[s] # Closed /\ pc[s] \in Outside /\ pc'[s] \notin Outside /\ ~Recorded(s)'
  BY <1>1 DEF Closed, Idle, Outside, Recorded
<1>3. PICK t \in local[s].queue : local' = [local EXCEPT ![s].task = t, ![s].queue = @ \ {t}]
  BY DEF TakeTask
<1>4. CallSound(s) /\ DOMAIN local = Sessions /\ DOMAIN local[s] = DOMAIN NoLocals
  BY DEF CallInv, LeaseInv, Shape, SessionShape
<1>5. local'[s].queue = local[s].queue \ {t} /\ local'[s].task = t /\ local'[s].done = local[s].done
  BY <1>3, <1>4 DEF NoLocals
<1>6. CallSound(s)'
  <2>1. DOMAIN mem'[s].probes = Tasks /\ \A q \in Tasks : OneReport(mem'[s].probes[q])
    BY <1>1, <1>2, <1>4 DEF CallSound
  <2>2. \A q \in local'[s].queue : q \notin local'[s].done /\ Reported(mem'[s], q)
    BY <1>1, <1>2, <1>4, <1>5 DEF CallSound
  <2>3. \A q \in local'[s].done : IsDone(mem'[s], q)
    BY <1>1, <1>2, <1>4, <1>5 DEF CallSound
  <2>4. Reported(mem'[s], local'[s].task) /\ local'[s].task \notin local'[s].done
    BY <1>1, <1>2, <1>3, <1>4, <1>5 DEF CallSound
  <2> QED BY <1>2, <2>1, <2>2, <2>3, <2>4 DEF CallSound, OneReport, Task
<1> QED
  BY <1>1, <1>2, <1>6, OthersClosed, CallStep

-----------------------------------------------------------------------------
LEMMA EmitCalls ==
    ASSUME LeaseInv, CommitInv, RowInv, HistoryInv, CallInv, NEW s \in Sessions, EmitInMemory(s)
    PROVE  CallInv'
<1>1. PICK stage \in DOMAIN EventState : /\ At(s, stage, "mem")
                                         /\ mem' = [mem EXCEPT ![s] = UpdateState(@, Task(s), EventState[stage])]
                                         /\ Goto(s, stage, "read")
  BY DEF EmitInMemory
<1>2. /\ pc[s] = <<stage, "mem">> /\ pc'[s] = <<stage, "read">> /\ OnlyOf(s)
      /\ UNCHANGED <<probes, local>>
  BY <1>1 DEF LeaseInv, Shape, OnlyOf, EmitInMemory, At, Goto, store
<1>3. /\ pc[s] \notin Outside /\ pc'[s] \notin Outside /\ pc[s] # Closed
      /\ Waiting(s)' => Waiting(s)
      /\ UnderWay(s) => UnderWay(s)'
      /\ Recorded(s)' => Recorded(s)
  BY <1>2, Stages DEF Outside, Closed, Idle, Waiting, UnderWay, Completing, Ended, Recorded
<1>4. /\ DOMAIN mem = Sessions /\ Task(s) \in Tasks /\ Task(s)' = Task(s) /\ Sound(mem[s].rows)
      /\ DOMAIN mem[s] = {"graph", "rows", "attempts", "leases", "probes", "policy"}
  BY <1>2, <1>3 DEF LeaseInv, Shape, SessionShape, CommitInv, MemorySound, Task
<1>5. PICK state : state = EventState[stage]
  OBVIOUS
<1>6. state \in EventStatesOf
  BY <1>5, StatesOfEvents
<1>7. /\ mem'[s].rows = [mem[s].rows EXCEPT ![Task(s)] = Merge(@, state)]
      /\ mem'[s].attempts = mem[s].attempts /\ mem'[s].probes = mem[s].probes
  BY <1>1, <1>4, <1>5 DEF UpdateState
<1>8. \A t \in Tasks : mem'[s].rows[t] \in {mem[s].rows[t], Merge(mem[s].rows[t], state)}
  BY <1>4, <1>7 DEF Sound
<1>9. local'[s].queue = local[s].queue /\ local'[s].done = local[s].done
  BY <1>2
<1> QED
  BY <1>2, <1>3, <1>4, <1>6, <1>7, <1>8, <1>9, CallMoves

\* The store is read and written.
LEMMA EventCalls ==
    ASSUME LeaseInv, CommitInv, RowInv, HistoryInv, CallInv, NEW s \in Sessions,
           ReadRows(s) \/ WriteGraphRow(s) \/ WriteTaskRow(s)
    PROVE  CallInv'
<1>1. PICK stage \in DOMAIN EventState, phase \in {"read", "graph", "row"} : pc[s] = <<stage, phase>>
  BY DEF ReadRows, WriteGraphRow, WriteTaskRow, At
<1>2. pc[s] \notin Outside /\ pc[s] # Closed
  BY <1>1, Stages DEF Outside, Closed, Idle
<1>3. OnlyOf(s) /\ mem' = mem /\ UNCHANGED probes
  BY DEF LeaseInv, Shape, OnlyOf, ReadRows, WriteGraphRow, WriteTaskRow, Abort, Goto, store
<1>4. DOMAIN local = Sessions /\ DOMAIN local[s] = DOMAIN NoLocals /\ DOMAIN pc = Sessions
  BY DEF LeaseInv, Shape, SessionShape
<1>5. CASE pc'[s] = Idle /\ local'[s] = NoLocals
  BY <1>2, <1>3, <1>5, CallLeft
<1>6. CASE ~(pc'[s] = Idle /\ local'[s] = NoLocals)
  <2>1. CASE ReadRows(s)
    <3>1. PICK st \in DOMAIN EventState :
             /\ pc[s] = <<st, "read">> /\ pc'[s] = <<st, "graph">>
             /\ local' = [local EXCEPT ![s].graph = graphRow, ![s].row = Loaded(Task(s))]
      BY <1>4, <1>6, <2>1 DEF ReadRows, At, Goto, Abort
    <3>2. /\ local'[s].queue = local[s].queue /\ local'[s].done = local[s].done /\ Task(s)' = Task(s)
      BY <1>4, <3>1 DEF NoLocals, Task
    <3>3. /\ pc'[s] \notin Outside
          /\ Waiting(s)' => Waiting(s)
          /\ UnderWay(s) => UnderWay(s)'
          /\ Recorded(s)' => Recorded(s)
      BY <3>1, Stages DEF Outside, Closed, Idle, Waiting, UnderWay, Completing, Ended, Recorded
    <3> QED BY <1>2, <1>3, <3>2, <3>3, CallGoesOn
  <2>2. CASE WriteGraphRow(s)
    <3>1. PICK st \in DOMAIN EventState : pc[s] = <<st, "graph">> /\ pc'[s] = <<st, "row">>
      BY <1>4, <2>2 DEF WriteGraphRow, At, Goto
    <3>2. /\ local'[s].queue = local[s].queue /\ local'[s].done = local[s].done /\ Task(s)' = Task(s)
      BY <2>2 DEF WriteGraphRow, Task
    <3>3. /\ pc'[s] \notin Outside
          /\ Waiting(s)' => Waiting(s)
          /\ UnderWay(s) => UnderWay(s)'
          /\ Recorded(s)' => Recorded(s)
      BY <3>1, Stages DEF Outside, Closed, Idle, Waiting, UnderWay, Completing, Ended, Recorded
    <3> QED BY <1>2, <1>3, <3>2, <3>3, CallGoesOn
  <2>3. CASE WriteTaskRow(s)
    <3>1. PICK st, next :
             /\ st \in DOMAIN EventState
             /\ pc[s] = <<st, "row">> /\ next \in Following[st] /\ pc'[s] = next
             /\ local' = IF st = "AwaitingApproval" THEN [local EXCEPT ![s] = NoLocals]
                         ELSE [local EXCEPT ![s].graph = Null, ![s].row = Null]
      BY <1>4, <2>3 DEF WriteTaskRow, At, AfterEvent
    <3>2. st # "AwaitingApproval"
      BY <1>4, <1>6, <3>1 DEF Following
    <3>3. /\ local'[s].queue = local[s].queue /\ local'[s].done = local[s].done /\ Task(s)' = Task(s)
      BY <1>4, <3>1, <3>2 DEF NoLocals, Task
    <3>4. /\ pc'[s] \notin Outside
          /\ Waiting(s)' => Waiting(s)
          /\ UnderWay(s) => UnderWay(s)'
          /\ Recorded(s)' => Recorded(s)
      BY <3>1, <3>2, Stages
      DEF Following, Outside, Closed, Idle, Waiting, UnderWay, Completing, Ended, Recorded
    <3> QED BY <1>2, <1>3, <3>3, <3>4, CallGoesOn
  <2> QED BY <2>1, <2>2, <2>3
<1> QED
  BY <1>5, <1>6

\* An attempt is added to those of the task in hand, whose number is new.
LEMMA AttemptAdded ==
    ASSUME LeaseInv, NEW s \in Sessions, pc[s] \notin Outside, NEW c \in BOOLEAN, NewAttempt(s, c)
    PROVE  /\ mem'[s].probes = mem[s].probes
           /\ \A t \in Tasks \ {Task(s)} : mem'[s].attempts[t] = mem[s].attempts[t]
           /\ mem'[s].attempts[Task(s)] # {} /\ Latest(mem'[s].attempts[Task(s)]).committed = c
           /\ mem'[s].rows = IF c THEN mem[s].rows ELSE [mem[s].rows EXCEPT ![Task(s)] = Merge(@, "Running")]
<1>1. /\ DOMAIN mem = Sessions /\ Task(s) \in Tasks
      /\ DOMAIN mem[s] = {"graph", "rows", "attempts", "leases", "probes", "policy"}
      /\ DOMAIN mem[s].attempts = Tasks /\ Given(mem[s].attempts[Task(s)]) /\ clock.attempts \in Nat
  BY DEF LeaseInv, Shape, SessionShape, Outside
<1>2. PICK k, as : k = clock.attempts /\ as = mem[s].attempts[Task(s)] /\ k \in Nat
  BY <1>1
<1>3. PICK base : base = IF c THEN mem[s] ELSE UpdateState(mem[s], Task(s), "Running")
  OBVIOUS
<1>4. /\ DOMAIN base = DOMAIN mem[s] /\ base.attempts = mem[s].attempts /\ base.probes = mem[s].probes
      /\ base.rows = IF c THEN mem[s].rows ELSE [mem[s].rows EXCEPT ![Task(s)] = Merge(@, "Running")]
  BY <1>1, <1>3 DEF UpdateState
<1>5. mem' = [mem EXCEPT ![s] = [base EXCEPT !.attempts[Task(s)] = @ \cup {[n |-> k + 1, committed |-> c]}]]
  BY <1>2, <1>3 DEF NewAttempt
<1>6. /\ mem'[s].probes = mem[s].probes /\ mem'[s].rows = base.rows
      /\ mem'[s].attempts = [mem[s].attempts EXCEPT ![Task(s)] = @ \cup {[n |-> k + 1, committed |-> c]}]
  BY <1>1, <1>4, <1>5
<1>7. /\ mem'[s].attempts[Task(s)] = as \cup {[n |-> k + 1, committed |-> c]}
      /\ \A t \in Tasks \ {Task(s)} : mem'[s].attempts[t] = mem[s].attempts[t]
  BY <1>1, <1>2, <1>6
<1>8. Latest(as \cup {[n |-> k + 1, committed |-> c]}) = [n |-> k + 1, committed |-> c]
  <2>1. \A a \in as : a.n \in Nat /\ a.n <= k
    BY <1>1, <1>2 DEF Given
  <2> QED BY <1>2, <2>1, LatestIsNew
<1>9. mem'[s].attempts[Task(s)] # {}
  BY <1>7
<1>10. Latest(mem'[s].attempts[Task(s)]).committed = c
  BY <1>7, <1>8
<1>11. mem'[s].rows = IF c THEN mem[s].rows ELSE [mem[s].rows EXCEPT ![Task(s)] = Merge(@, "Running")]
  BY <1>4, <1>6
<1> QED
  BY <1>6, <1>7, <1>9, <1>10, <1>11

\* A task that is started has no report against it, and is not of those the
\* call has done; a finished one is done.
LEMMA AttemptCalls ==
    ASSUME LeaseInv, CommitInv, RowInv, HistoryInv, CallInv, NEW s \in Sessions, StartTask(s) \/ FinishAttempt(s)
    PROVE  /\ CallInv'
           /\ StartTask(s) => Task(s) \notin local[s].done /\ Reported(mem[s], Task(s))
<1>1. pc[s] \in {<<"Started", "mem">>, <<"Finished", "mem">>} /\ UNCHANGED probes
  BY DEF StartTask, FinishAttempt, At, store
<1>2. pc[s] \notin Outside /\ pc[s] # Closed /\ pc[s] # Idle
  BY <1>1 DEF Outside, Closed, Idle
<1>3. CallSound(s) /\ InHand(s) /\ Task(s) \in Tasks /\ local[s].queue \subseteq Tasks /\ local[s].done \subseteq Tasks
  BY <1>2 DEF CallInv, HistoryInv, History, LeaseInv, SessionShape, CommitInv, LocalSound, Committed
<1>4. StartTask(s) => pc[s] = <<"Started", "mem">> /\ Task(s) \notin local[s].done /\ Reported(mem[s], Task(s))
  <2>1. StartTask(s) => pc[s] = <<"Started", "mem">>
    BY DEF StartTask, At
  <2>2. pc[s] = <<"Started", "mem">> => Waiting(s)
    BY DEF Waiting
  <2> QED BY <1>2, <1>3, <2>1, <2>2 DEF CallSound
<1>5. CASE StartTask(s) /\ Abort(s) /\ mem' = mem
  BY <1>1, <1>2, <1>4, <1>5, AbortCalls
<1>6. ASSUME NEW c \in BOOLEAN, NewAttempt(s, c), UNCHANGED local, OnlyOf(s), pc'[s] \notin Outside,
             ~Waiting(s)', Recorded(s)' => c /\ Ending(s), UnderWay(s) => UnderWay(s)',
             c \/ Task(s) \notin local[s].done
      PROVE  CallInv'
  <2>1. /\ mem'[s].probes = mem[s].probes
        /\ \A t \in Tasks \ {Task(s)} : mem'[s].attempts[t] = mem[s].attempts[t]
        /\ mem'[s].attempts[Task(s)] # {} /\ Latest(mem'[s].attempts[Task(s)]).committed = c
        /\ mem'[s].rows = IF c THEN mem[s].rows ELSE [mem[s].rows EXCEPT ![Task(s)] = Merge(@, "Running")]
    BY <1>2, <1>6, AttemptAdded
  <2>2. ASSUME NEW t \in Tasks, t # Task(s)
        PROVE  (Reported(mem[s], t) => Reported(mem'[s], t)) /\ (IsDone(mem[s], t) => IsDone(mem'[s], t))
    <3>1. DOMAIN mem[s].rows = Tasks
      BY <1>2 DEF CommitInv, MemorySound, Sound
    <3>2. mem'[s].rows[t] = mem[s].rows[t]
      BY <1>3, <2>1, <2>2, <3>1
    <3> QED BY <2>1, <2>2, <3>2, SameTask
  <2>3. c => (IsDone(mem[s], Task(s)) => IsDone(mem'[s], Task(s)))
    BY <2>1 DEF IsDone
  <2>4. Recorded(s)' => IsDone(mem'[s], Task(s))
    <3>1. Ending(s) => mem[s].rows[Task(s)] \in {"Completed", "Failed"}
      BY <1>2, <1>3 DEF InHand
    <3> QED BY <1>6, <2>1, <3>1 DEF IsDone
  <2>5. local'[s].task = Task(s) /\ local'[s].queue = local[s].queue /\ local'[s].done = local[s].done
    BY <1>6 DEF Task
  <2>6. \A t \in local[s].queue : t \notin local[s].done /\ Reported(mem'[s], t)
    BY <1>2, <1>3, <2>2 DEF CallSound, InHand
  <2>7. \A t \in local[s].done : IsDone(mem'[s], t) \/ (t = Task(s) /\ UnderWay(s)')
    BY <1>2, <1>3, <1>6, <2>2, <2>3 DEF CallSound
  <2>8. DOMAIN mem'[s].probes = Tasks /\ \A t \in Tasks : OneReport(mem'[s].probes[t])
    BY <1>2, <1>3, <2>1 DEF CallSound
  <2>9. CallSound(s)'
    BY <1>6, <2>4, <2>5, <2>6, <2>7, <2>8 DEF CallSound, OneReport, Task
  <2> QED BY <1>1, <1>2, <1>6, <2>9, OthersClosed, CallStep
<1>7. CASE StartTask(s) /\ NewAttempt(s, FALSE) /\ Goto(s, "Started", "insert") /\ UNCHANGED local
  <2>1. pc'[s] = <<"Started", "insert">> /\ OnlyOf(s)
    BY <1>7 DEF LeaseInv, Shape, OnlyOf, Goto, NewAttempt
  <2>2. pc'[s] \notin Outside /\ ~Waiting(s)' /\ ~Recorded(s)' /\ ~UnderWay(s)
    BY <1>4, <1>7, <2>1 DEF Outside, Closed, Idle, Waiting, Recorded, UnderWay, Completing, Ended
  <2> QED BY <1>4, <1>6, <1>7, <2>1, <2>2
<1>8. CASE FinishAttempt(s)
  <2>1. pc[s] = <<"Finished", "mem">> /\ pc'[s] = <<"Finished", "insert">> /\ OnlyOf(s) /\ UNCHANGED local
    BY <1>8 DEF LeaseInv, Shape, OnlyOf, FinishAttempt, At, Goto, NewAttempt
  <2>2. pc'[s] \notin Outside /\ ~Waiting(s)' /\ Ending(s) /\ UnderWay(s)'
    BY <2>1 DEF Outside, Closed, Idle, Waiting, UnderWay, Ending, Ended
  <2>3. ~StartTask(s)
    BY <1>4, <2>1
  <2>4. NewAttempt(s, TRUE)
    BY <1>8 DEF FinishAttempt
  <2> QED BY <1>6, <2>1, <2>2, <2>3, <2>4
<1> QED
  BY <1>4, <1>5, <1>7, <1>8 DEF StartTask

LEMMA InsertCalls ==
    ASSUME LeaseInv, CommitInv, RowInv, HistoryInv, CallInv, NEW s \in Sessions, InsertAttempt(s) \/ TouchTaskRow(s)
    PROVE  CallInv'
<1>1. PICK stage \in {"Started", "Finished"} :
          \/ pc[s] = <<stage, "insert">> /\ pc'[s] = <<stage, "touch">>
          \/ /\ pc[s] = <<stage, "touch">>
             /\ pc'[s] = IF stage = "Started" THEN <<"Lease", "row">> ELSE <<"Release", "mem">>
  BY DEF LeaseInv, Shape, InsertAttempt, TouchTaskRow, At, Goto
<1>2. OnlyOf(s) /\ mem' = mem /\ UNCHANGED probes
  BY DEF LeaseInv, Shape, OnlyOf, InsertAttempt, TouchTaskRow, Goto
<1>3. DOMAIN local = Sessions /\ DOMAIN local[s] = DOMAIN NoLocals
  BY DEF LeaseInv, Shape, SessionShape
<1>4. PICK row : local' = [local EXCEPT ![s].row = row]
  BY DEF InsertAttempt, TouchTaskRow
<1>5. local'[s].queue = local[s].queue /\ local'[s].done = local[s].done /\ Task(s)' = Task(s)
  BY <1>3, <1>4 DEF NoLocals, Task
<1>6. /\ pc[s] \notin Outside /\ pc'[s] \notin Outside
      /\ ~Waiting(s)'
      /\ UnderWay(s) => UnderWay(s)'
      /\ Recorded(s)' => Recorded(s)
  BY <1>1 DEF Outside, Closed, Idle, Waiting, UnderWay, Completing, Ended, Recorded
<1> QED
  BY <1>2, <1>5, <1>6, CallGoesOn

LEMMA LeaseCalls ==
    ASSUME LeaseInv, CommitInv, RowInv, HistoryInv, CallInv, NEW s \in Sessions,
           AcquireLeaseRow(s) \/ AcquireLeaseInMemory(s) \/ ReleaseLeaseInMemory(s)
    PROVE  CallInv'
<1>1. pc[s] \in {<<"Lease", "row">>, <<"Lease", "mem">>, <<"Release", "mem">>} /\ UNCHANGED probes
  BY DEF AcquireLeaseRow, AcquireLeaseInMemory, ReleaseLeaseInMemory, At, store
<1>2. pc[s] \notin Outside /\ pc[s] # Closed
  BY <1>1 DEF Outside, Closed, Idle
<1>3. CASE Abort(s) /\ mem' = mem
  BY <1>1, <1>2, <1>3, AbortCalls
<1>4. CASE ~(Abort(s) /\ mem' = mem)
  <2>1. /\ \/ pc[s] = <<"Lease", "row">> /\ pc'[s] = <<"Lease", "mem">>
           \/ pc[s] = <<"Lease", "mem">> /\ pc'[s] = <<"Planned", "mem">>
           \/ pc[s] = <<"Release", "mem">> /\ pc'[s] = <<"Release", "row">>
        /\ OnlyOf(s)
    BY <1>4 DEF LeaseInv, Shape, OnlyOf, AcquireLeaseRow, AcquireLeaseInMemory, ReleaseLeaseInMemory, At, Goto
  <2>2. /\ DOMAIN mem = Sessions /\ DOMAIN local = Sessions /\ DOMAIN local[s] = DOMAIN NoLocals
        /\ DOMAIN mem[s] = {"graph", "rows", "attempts", "leases", "probes", "policy"}
    BY <1>2 DEF LeaseInv, Shape, SessionShape
  <2>3. /\ mem'[s].rows = mem[s].rows /\ mem'[s].attempts = mem[s].attempts
        /\ mem'[s].probes = mem[s].probes
    BY <1>4, <2>2 DEF AcquireLeaseRow, AcquireLeaseInMemory, ReleaseLeaseInMemory
  <2>4. local'[s].queue = local[s].queue /\ local'[s].done = local[s].done /\ Task(s)' = Task(s)
    BY <1>4, <2>2 DEF AcquireLeaseRow, AcquireLeaseInMemory, ReleaseLeaseInMemory, NoLocals, Task
  <2>5. /\ pc'[s] \notin Outside /\ ~Waiting(s)'
        /\ UnderWay(s) => UnderWay(s)'
        /\ Recorded(s)' => Recorded(s)
    BY <2>1 DEF Outside, Closed, Idle, Waiting, UnderWay, Completing, Ended, Recorded
  <2> QED BY <1>1, <1>2, <2>1, <2>3, <2>4, <2>5, CallGoesOn
<1> QED
  BY <1>3, <1>4

LEMMA ReleaseCalls ==
    ASSUME LeaseInv, CommitInv, RowInv, HistoryInv, CallInv, NEW s \in Sessions, ReleaseLeaseRow(s)
    PROVE  CallInv'
<1>1. /\ pc[s] = <<"Release", "row">> /\ pc'[s] = <<"Next", "-">> /\ OnlyOf(s)
      /\ UNCHANGED <<probes, mem>>
  BY DEF LeaseInv, Shape, OnlyOf, ReleaseLeaseRow, At, Goto
<1>2. pc[s] # Closed /\ pc[s] \notin Outside /\ pc'[s] \in Outside /\ Recorded(s) /\ ~Recorded(s)'
  BY <1>1 DEF Outside, Closed, Idle, Recorded
<1>3. /\ DOMAIN local = Sessions /\ DOMAIN local[s] = DOMAIN NoLocals /\ CallSound(s)
      /\ local' = [local EXCEPT ![s].lease = Null]
  BY DEF LeaseInv, Shape, SessionShape, CallInv, ReleaseLeaseRow
<1>4. local'[s].queue = local[s].queue /\ local'[s].done = local[s].done
  BY <1>3 DEF NoLocals
<1>5. \A t \in local[s].done : IsDone(mem[s], t)
  BY <1>2, <1>3 DEF CallSound
<1>6. CallSound(s)'
  <2>1. DOMAIN mem'[s].probes = Tasks /\ \A t \in Tasks : OneReport(mem'[s].probes[t])
    BY <1>1, <1>2, <1>3 DEF CallSound
  <2>2. \A t \in local'[s].queue : t \notin local'[s].done /\ Reported(mem'[s], t)
    BY <1>1, <1>2, <1>3, <1>4 DEF CallSound
  <2>3. \A t \in local'[s].done : IsDone(mem'[s], t)
    BY <1>1, <1>4, <1>5
  <2> QED BY <1>2, <2>1, <2>2, <2>3 DEF CallSound, OneReport
<1> QED
  BY <1>1, <1>2, <1>6, OthersClosed, CallStep

\* The kernel executes the task; or it commits it, and the call counts it as
\* done.
LEMMA WorkCalls ==
    ASSUME LeaseInv, CommitInv, RowInv, HistoryInv, CallInv, NEW s \in Sessions, Execute(s) \/ Commit(s)
    PROVE  CallInv'
<1>1. CASE Execute(s)
  <2>1. /\ pc[s] = <<"Verifying", "work">> /\ pc'[s] = <<"Verifying", "mem">> /\ OnlyOf(s)
        /\ UNCHANGED <<probes, mem, local>>
    BY <1>1 DEF LeaseInv, Shape, OnlyOf, Execute, At, Goto, store
  <2>2. /\ pc[s] \notin Outside /\ pc'[s] \notin Outside /\ ~Waiting(s)' /\ ~UnderWay(s) /\ ~Recorded(s)'
        /\ Task(s)' = Task(s)
    BY <2>1 DEF Outside, Closed, Idle, Waiting, UnderWay, Completing, Ended, Recorded, Task
  <2> QED BY <2>1, <2>2, CallGoesOn
<1>2. CASE Commit(s)
  <2>1. /\ pc[s] = <<"Completed", "work">> /\ pc'[s] = <<"Completed", "mem">> /\ OnlyOf(s)
        /\ UNCHANGED <<probes, mem>> /\ local' = [local EXCEPT ![s].done = @ \cup {Task(s)}]
    BY <1>2 DEF LeaseInv, Shape, OnlyOf, Commit, At, Goto, store
  <2>2. /\ pc[s] \notin Outside /\ pc'[s] \notin Outside /\ pc[s] # Closed /\ pc[s] # Idle
        /\ ~Waiting(s)' /\ UnderWay(s)' /\ ~Recorded(s)'
    BY <2>1 DEF Outside, Closed, Idle, Waiting, UnderWay, Completing, Recorded
  <2>3. DOMAIN local = Sessions /\ DOMAIN local[s] = DOMAIN NoLocals /\ CallSound(s) /\ InHand(s)
    BY <2>2 DEF LeaseInv, Shape, SessionShape, CallInv, HistoryInv, History
  <2>4. /\ local'[s].queue = local[s].queue /\ local'[s].done = local[s].done \cup {Task(s)}
        /\ local'[s].task = Task(s)
    BY <2>1, <2>3 DEF NoLocals, Task
  <2>5. CallSound(s)'
    <3>1. DOMAIN mem'[s].probes = Tasks /\ \A t \in Tasks : OneReport(mem'[s].probes[t])
      BY <2>1, <2>2, <2>3 DEF CallSound
    <3>2. \A t \in local'[s].queue : t \notin local'[s].done /\ Reported(mem'[s], t)
      BY <2>1, <2>2, <2>3, <2>4 DEF CallSound, InHand
    <3>3. \A t \in local'[s].done : IsDone(mem'[s], t) \/ t = local'[s].task
      BY <2>1, <2>2, <2>3, <2>4 DEF CallSound
    <3> QED BY <2>2, <3>1, <3>2, <3>3 DEF CallSound, OneReport, Task
  <2> QED BY <2>1, <2>2, <2>5, OthersClosed, CallStep
<1> QED
  BY <1>1, <1>2

LEMMA RestCalls ==
    ASSUME CallInv, Tick \/ UNCHANGED vars
    PROVE  CallInv'
<1>1. UNCHANGED <<probes, mem, pc, local>>
  BY DEF Tick, vars, store
<1>2. ASSUME NEW s \in Sessions PROVE CallSound(s)'
  <2>1. /\ Task(s)' = Task(s) /\ Waiting(s)' = Waiting(s) /\ UnderWay(s)' = UnderWay(s)
        /\ Recorded(s)' = Recorded(s) /\ CallSound(s)
    BY <1>1 DEF Task, Waiting, UnderWay, Completing, Ended, Recorded, CallInv
  <2> QED BY <1>1, <2>1 DEF CallSound, OneReport
<1> QED
  BY <1>1, <1>2 DEF CallInv, OneReport

-----------------------------------------------------------------------------
THEOREM CallInvariance == Exclusive /\ Spec => []CallInv
<1>1. Exclusive /\ LeaseInv /\ CommitInv /\ RowInv /\ HistoryInv /\ CallInv /\ [Next]_vars => CallInv'
  <2> SUFFICES ASSUME Exclusive, LeaseInv, CommitInv, RowInv, HistoryInv, CallInv, [Next]_vars PROVE CallInv'
    OBVIOUS
  <2>1. ASSUME NEW s \in Sessions, Step(s) PROVE CallInv'
    BY <2>1, SaveCalls, TakeCalls, PlanCalls, LeaveCalls, EmitCalls, EventCalls, AttemptCalls, InsertCalls,
       LeaseCalls, WorkCalls, ReleaseCalls DEF Step
  <2>2. ASSUME NEW s \in Sessions,
               \/ \E policy \in Policies : Open(s, policy)
               \/ \E t \in Tasks, status \in ProbeStatuses : RecordProbe(s, t, status)
               \/ Run(s) \/ Resume(s) \/ Fail(s) \/ Die(s)
        PROVE  CallInv'
    BY <2>2, OpenCalls, ProbeCalls, SaveCalls, PlanCalls, LeaveCalls
  <2> QED BY <2>1, <2>2, RestCalls DEF Next
<1>2. CASE Exclusive
  <2>1. LeaseInv /\ CommitInv /\ RowInv /\ HistoryInv /\ CallInv /\ [Next]_vars => CallInv'
    BY <1>1, <1>2
  <2>2. Spec => []RowInv
    BY <1>2, RowInvariance
  <2>3. Spec => []HistoryInv
    BY <1>2, HistoryInvariance
  <2> QED
    BY <2>1, <2>2, <2>3, CallInit, LeaseInvariance, CommitInvariance, PTL DEF Spec
<1>3. CASE ~Exclusive
  BY <1>3
<1> QED
  BY <1>2, <1>3

\* Effects grow only where a task is executed.
LEMMA EffectsAreExecutions ==
    ASSUME CommitInv, [Next]_vars, NEW t \in Tasks, effects'[t] # effects[t]
    PROVE  \E s \in Sessions : Execute(s) /\ t = Task(s)
<1>1. ASSUME NEW s \in Sessions, Step(s) PROVE Execute(s) /\ t = Task(s)
  <2>1. Execute(s)
    <3>1. CASE \/ SaveGraphRow(s) \/ SaveTaskRow(s) \/ TakeTask(s) \/ Replan(s) \/ Return(s)
               \/ EmitInMemory(s) \/ ReadRows(s) \/ WriteGraphRow(s) \/ WriteTaskRow(s)
      BY <3>1 DEF SaveGraphRow, SaveTaskRow, TakeTask, Replan, Return, EmitInMemory, ReadRows,
                  WriteGraphRow, WriteTaskRow
    <3>2. CASE \/ StartTask(s) \/ FinishAttempt(s) \/ InsertAttempt(s) \/ TouchTaskRow(s) \/ Commit(s)
      BY <3>2 DEF StartTask, FinishAttempt, InsertAttempt, TouchTaskRow, Commit
    <3>3. CASE \/ AcquireLeaseRow(s) \/ AcquireLeaseInMemory(s)
               \/ ReleaseLeaseInMemory(s) \/ ReleaseLeaseRow(s)
      BY <3>3 DEF AcquireLeaseRow, AcquireLeaseInMemory, ReleaseLeaseInMemory, ReleaseLeaseRow
    <3> QED BY <1>1, <3>1, <3>2, <3>3 DEF Step
  <2>2. effects' = [effects EXCEPT ![Task(s)] = @ + 1] /\ effects \in [Tasks -> Nat]
    BY <2>1 DEF Execute, CommitInv, StoreSound
  <2> QED BY <2>1, <2>2
<1>2. ~(\E s \in Sessions : \/ \E policy \in Policies : Open(s, policy)
                            \/ \E q \in Tasks, status \in ProbeStatuses : RecordProbe(s, q, status)
                            \/ Run(s) \/ Resume(s) \/ Fail(s) \/ Die(s))
  BY DEF Open, RecordProbe, Run, Resume, Fail, Die
<1>3. ~Tick /\ ~UNCHANGED vars
  BY DEF Tick, vars
<1> QED
  BY <1>1, <1>2, <1>3 DEF Next

\* Where one session is open at a time, a task is taken up only when nothing
\* that is recorded speaks against it.
THEOREM StartsJustified == Exclusive /\ Spec => StartsAreJustified
<1>1. LeaseInv /\ CommitInv /\ RowInv /\ HistoryInv /\ CallInv /\ [Next]_vars
        => [\A s \in Sessions : StartTask(s) => Task(s) \notin local[s].done]_vars
  BY AttemptCalls
<1>2. LeaseInv /\ CommitInv /\ RowInv /\ HistoryInv /\ CallInv /\ [Next]_vars
        => [\A s \in Sessions :
              Execute(s) /\ mem[s].policy = "RequireInspection" => effects[Task(s)] = 0]_vars
  BY ExecuteRecorded
<1>3. LeaseInv /\ CommitInv /\ RowInv /\ HistoryInv /\ CallInv /\ [Next]_vars
        => [\A t \in Tasks : taskRow[t] = "AwaitingApproval" => effects'[t] = effects[t]]_vars
  BY EffectsAreExecutions, ExecuteRecorded
<1>4. LeaseInv /\ CommitInv /\ RowInv /\ HistoryInv /\ CallInv /\ [Next]_vars
        => [\A s \in Sessions :
              StartTask(s) /\ mem[s].rows[Task(s)] = "Failed" => NoAdverseReport(mem[s], Task(s))]_vars
  BY AttemptCalls DEF Reported
<1>5. CASE Exclusive
  <2>1. Spec => []RowInv
    BY <1>5, RowInvariance
  <2>2. Spec => []HistoryInv
    BY <1>5, HistoryInvariance
  <2>3. Spec => []CallInv
    BY <1>5, CallInvariance
  <2> QED
    BY <1>1, <1>2, <1>3, <1>4, <2>1, <2>2, <2>3, LeaseInvariance, CommitInvariance, PTL
    DEF Spec, StartsAreJustified, NoTaskTwicePerCall, InspectionIsRespected, ApprovalBlocks, FailedNeedsReport
<1>6. CASE ~Exclusive
  BY <1>6
<1> QED
  BY <1>5, <1>6
=============================================================================
