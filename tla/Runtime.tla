------------------------------ MODULE Runtime ------------------------------
(***************************************************************************)
(* Runtime sessions that run and resume one task graph over a shared       *)
(* SQLite store (RuntimeSession, RuntimeTaskStore and RuntimeSqliteStore   *)
(* in moxi-runtime).                                                       *)
(*                                                                         *)
(* A session reads the store once, when it is opened, and from then on     *)
(* plans from its own memory.  What it persists goes to the store one      *)
(* statement at a time: an event reads the stored graph and task, merges   *)
(* the new state and writes both back, in three steps.  A session may die, *)
(* or a call may return an error (`?`), before any of them.                *)
(*                                                                         *)
(* The kernel is what Kernel.tla says of it; here a call of it succeeds or *)
(* fails, execute has an effect and commit appends to the ledger.          *)
(***************************************************************************)
EXTENDS Naturals, Sequences

CONSTANTS Sessions,
          Order,          \* the tasks of the graph, in dependency order
          DependsOn,      \* [task -> set of tasks]
          RetrySafe,      \* tasks for which runtime_retry_safe holds
          FailedTasks,    \* failed tasks of a graph that may have been imported
          Policies,       \* running task policies a session may be opened with
          ProbeStatuses,  \* what an adoption probe may report
          Exclusive,      \* TRUE: a session opens only when no other is open
          TTL,            \* retry_lease_ttl_ms
          MaxCalls,       \* bound: calls of run and resume_ready_tasks
          MaxTime,        \* bound: the clock
          Null

Tasks == {Order[i] : i \in 1..Len(Order)}

ASSUME GraphAssumption ==
    /\ DependsOn \in [Tasks -> SUBSET Tasks]
    /\ \A i, j \in 1..Len(Order) : Order[j] \in DependsOn[Order[i]] => j < i
    /\ \A i, j \in 1..Len(Order) : Order[i] = Order[j] => i = j
    /\ RetrySafe \subseteq Tasks /\ FailedTasks \subseteq Tasks

ASSUME BoundAssumption ==
    /\ TTL \in Nat \ {0} /\ MaxCalls \in Nat /\ MaxTime \in Nat
    /\ Policies \subseteq {"RequireInspection", "RetryReady"}
    /\ ProbeStatuses \subseteq {"NotFound", "Pending", "Committed", "Failed", "Unknown"}
    /\ Exclusive \in BOOLEAN

VARIABLES graphRow,    \* states in the graph's row, or Null
          taskRow,     \* state in each task's row, or Null
          attempts,    \* attempt rows of each task
          leases,      \* active lease rows of each task
          probes,      \* latest probe row of each attempt of each task
          mem,         \* each session's RuntimeTaskStore, Null when closed
          pc,          \* stage and phase of each session
          local,       \* locals of its call
          effects,     \* history: executions of each task
          ledger,      \* history: success events of each task
          clock,       \* Utc::now(): the time, and a counter of attempts
          calls

store == <<graphRow, taskRow, attempts, leases, probes>>
vars == <<store, mem, pc, local, effects, ledger, clock, calls>>

TaskState == {"Ready", "Running", "AwaitingApproval", "Completed", "Failed"}

ASSUME NullAssumption == Null \notin TaskState \cup [Tasks -> TaskState]

\* Faults of a single definition, which the properties below tell from the
\* program, stand before it as Name_Fault.
EventStates(executing, committing, completed) ==
    [Admitted |-> "Ready", Planned |-> "Ready", PolicyChecked |-> "Ready",
     AwaitingApproval |-> "AwaitingApproval", TicketIssued |-> "Ready",
     Executing |-> executing, Verifying |-> "Running", Committing |-> committing,
     Completed |-> completed]
EventState_CommittingCompletes == EventStates("Running", "Completed", "Completed")
\* task_state_for_stage; the events in the order run_task_by_id emits them.
EventState == EventStates("Running", "Running", "Completed")

Rank == [Ready |-> 1, Running |-> 2, AwaitingApproval |-> 3, Completed |-> 4, Failed |-> 5]

\* merge_task_state: a state is never replaced by one of lower rank.
Merge(current, next) == IF Rank[next] >= Rank[current] THEN next ELSE current

Attempt == [n : Nat, committed : BOOLEAN]
Lease == [id : Nat, expires : Nat]
Probe == [n : Nat, status : ProbeStatuses]

Closed == <<"closed", "-">>
Idle == <<"idle", "-">>

NoLocals == [task |-> Null, queue |-> {}, before |-> {}, done |-> {}, resuming |-> FALSE,
             saved |-> 0, lease |-> Null, graph |-> Null, row |-> Null]

NewState == [t \in Tasks |-> "Ready"]
ImportedState == [t \in Tasks |-> IF t \in FailedTasks THEN "Failed" ELSE "Ready"]

\* The store is empty, or has an imported graph whose failed tasks were
\* attempted.
Init ==
    /\ \/ /\ graphRow = Null
          /\ taskRow = [t \in Tasks |-> Null]
          /\ attempts = [t \in Tasks |-> {}]
       \/ /\ FailedTasks # {}
          /\ graphRow = ImportedState
          /\ taskRow = ImportedState
          /\ attempts = [t \in Tasks |-> {[n |-> 0, committed |-> FALSE] : f \in FailedTasks \cap {t}}]
    /\ leases = [t \in Tasks |-> {}]
    /\ probes = [t \in Tasks |-> {}]
    /\ mem = [s \in Sessions |-> Null]
    /\ pc = [s \in Sessions |-> Closed]
    /\ local = [s \in Sessions |-> NoLocals]
    /\ effects = [t \in Tasks |-> 0]
    /\ ledger = [t \in Tasks |-> 0]
    /\ clock = [now |-> 0, attempts |-> 0]
    /\ calls = 0

At(s, stage, phase) == pc[s] = <<stage, phase>>
Goto(s, stage, phase) == pc' = [pc EXCEPT ![s] = <<stage, phase>>]
Task(s) == local[s].task
Live(lease) == lease.expires > clock.now

----------------------------------------------------------------------------
(* Opening and leaving a session.                                           *)

\* latest_attempt_for_task.
Latest(as) == IF as = {} THEN Null ELSE CHOOSE a \in as : \A b \in as : b.n <= a.n
ProbesOf(ps, a) == {probe \in ps : probe.n = a.n}

\* load_task_store refuses a probe of an attempt it does not find.
Readable == \A t \in Tasks : \A probe \in probes[t] : \E a \in attempts[t] : a.n = probe.n

\* A task without a row takes its state from the graph.
Loaded(t) == IF taskRow[t] = Null /\ graphRow # Null THEN graphRow[t] ELSE taskRow[t]

\* with_sqlite_store loads everything there is.
Open(s, policy) ==
    /\ pc[s] = Closed
    /\ Exclusive => \A r \in Sessions : pc[r] = Closed
    /\ Readable
    /\ mem' = [mem EXCEPT ![s] =
                 [graph |-> graphRow,
                  rows |-> [t \in Tasks |-> Loaded(t)],
                  attempts |-> attempts, leases |-> leases, probes |-> probes,
                  policy |-> policy]]
    /\ pc' = [pc EXCEPT ![s] = Idle]
    /\ UNCHANGED <<store, local, effects, ledger, clock, calls>>

\* The session ends or its process dies, wherever it is.
Die(s) ==
    /\ pc[s] # Closed
    /\ mem' = [mem EXCEPT ![s] = Null]
    /\ local' = [local EXCEPT ![s] = NoLocals]
    /\ pc' = [pc EXCEPT ![s] = Closed]
    /\ UNCHANGED <<store, effects, ledger, clock, calls>>

\* A statement of the store or a call of the kernel fails: the call returns
\* the error; memory and store stay as they are.
Fail(s) ==
    /\ pc[s] \notin {Closed, Idle}
    /\ local' = [local EXCEPT ![s] = NoLocals]
    /\ pc' = [pc EXCEPT ![s] = Idle]
    /\ UNCHANGED <<store, mem, effects, ledger, clock, calls>>

\* record_adoption_probe_result: only for the latest attempt the session
\* knows; the store may fail.
RecordProbe(s, t, status) ==
    /\ pc[s] = Idle
    /\ mem[s].attempts[t] # {}
    /\ LET n == Latest(mem[s].attempts[t]).n
           With(ps) == {probe \in ps : probe.n # n} \cup {[n |-> n, status |-> status]}
       IN  /\ mem' = [mem EXCEPT ![s].probes[t] = With(@)]
           /\ probes' \in {probes, [probes EXCEPT ![t] = With(@)]}
    /\ UNCHANGED <<graphRow, taskRow, attempts, leases, pc, local, effects, ledger, clock, calls>>

----------------------------------------------------------------------------
(* run: the graph is new, and every task of it is taken in order.           *)

Run(s) ==
    /\ pc[s] = Idle
    /\ calls < MaxCalls
    /\ graphRow = Null /\ \A r \in Sessions : mem[r] # Null => mem[r].graph = Null
    /\ calls' = calls + 1
    /\ mem' = [mem EXCEPT ![s].graph = NewState, ![s].rows = NewState]
    /\ local' = [local EXCEPT ![s] = [NoLocals EXCEPT !.queue = Tasks]]
    /\ Goto(s, "SaveGraph", "graph")
    /\ UNCHANGED <<store, effects, ledger, clock>>

SaveGraphRow(s) ==
    /\ At(s, "SaveGraph", "graph")
    /\ graphRow' = mem[s].graph
    /\ Goto(s, "SaveGraph", "row")
    /\ UNCHANGED <<taskRow, attempts, leases, probes, mem, local, effects, ledger, clock, calls>>

\* A row of a task that is there already keeps a higher state.
SaveTaskRow(s) ==
    /\ At(s, "SaveGraph", "row")
    /\ LET i == local[s].saved + 1
           t == Order[i]
       IN  /\ taskRow' = [taskRow EXCEPT ![t] = IF @ = Null THEN mem[s].graph[t]
                                                ELSE Merge(@, mem[s].graph[t])]
           /\ local' = [local EXCEPT ![s].saved = i]
           /\ IF i = Len(Order) THEN Goto(s, "Next", "-") ELSE UNCHANGED pc
    /\ UNCHANGED <<graphRow, attempts, leases, probes, mem, effects, ledger, clock, calls>>

----------------------------------------------------------------------------
(* resume_ready_tasks: what resume_plan_from finds ready in memory.         *)

DependenciesCompleted(m, t) == \A d \in DependsOn[t] : m.rows[d] = "Completed"

\* what the probe reported is not looked at
Recommendation_NoProbe(m, t) ==
    LET attempt == Latest(m.attempts[t])
    IN  IF attempt = Null \/ t \notin RetrySafe THEN "InspectRequired"
        ELSE IF attempt.committed THEN "AlreadyCommitted" ELSE "RetryReady"

\* adoption_recommendation_for_task.  An attempt that is not committed never
\* carries a ticket.
RetryOrInspect(t) == IF t \in RetrySafe THEN "RetryReady" ELSE "InspectRequired"
FromProbe(t, status) ==
    CASE status = "Committed"              -> "AlreadyCommitted"
      [] status \in {"Pending", "Unknown"} -> "InspectRequired"
      [] OTHER                             -> RetryOrInspect(t)

Recommendation(m, t) ==
    LET attempt == Latest(m.attempts[t])
    IN  IF attempt = Null THEN "InspectRequired"
        ELSE IF attempt.committed THEN "AlreadyCommitted"
        ELSE IF ProbesOf(m.probes[t], attempt) = {} THEN RetryOrInspect(t)
        ELSE FromProbe(t, (CHOOSE probe \in ProbesOf(m.probes[t], attempt) : TRUE).status)

RetryRunning_AnyTask(m, t) ==
    /\ m.rows[t] = "Running"
    /\ m.policy = "RetryReady"
    /\ \A lease \in m.leases[t] : ~Live(lease)
    /\ m.attempts[t] # {}

RetryRunning(m, t) ==
    /\ m.rows[t] = "Running"
    /\ m.policy = "RetryReady"
    /\ \A lease \in m.leases[t] : ~Live(lease)
    /\ m.attempts[t] # {} /\ t \in RetrySafe

RetryFailed(m, t) ==
    /\ m.rows[t] = "Failed"
    /\ m.policy = "RetryReady"
    /\ Recommendation(m, t) = "RetryReady"

ReadyTask(m, t) ==
    /\ m.rows[t] = "Ready" \/ RetryRunning(m, t) \/ RetryFailed(m, t)
    /\ DependenciesCompleted(m, t)

ReadyTasks(m) == {t \in Tasks : ReadyTask(m, t)}

\* The call works on a copy of the graph, of which only the completed tasks
\* are read.
Resume(s) ==
    /\ pc[s] = Idle
    /\ calls < MaxCalls
    /\ mem[s].graph # Null
    /\ calls' = calls + 1
    /\ local' = [local EXCEPT ![s] =
                   [NoLocals EXCEPT !.queue = ReadyTasks(mem[s]), !.resuming = TRUE,
                                    !.before = {t \in Tasks : mem[s].graph[t] = "Completed"}]]
    /\ Goto(s, "Next", "-")
    /\ UNCHANGED <<store, mem, effects, ledger, clock>>

\* The first in the order of the graph.
IsFirst(t, tasks) ==
    /\ t \in tasks
    /\ \A i, j \in 1..Len(Order) : Order[i] = t /\ Order[j] \in tasks => i <= j

\* The next task of the list that was planned.
TakeTask(s) ==
    /\ At(s, "Next", "-")
    /\ \E t \in local[s].queue :
          /\ IsFirst(t, local[s].queue)
          /\ local' = [local EXCEPT ![s].task = t, ![s].queue = @ \ {t}]
    /\ Goto(s, "Admitted", "mem")
    /\ UNCHANGED <<store, mem, effects, ledger, clock, calls>>

\* The list is done: resume_ready_tasks plans again until nothing is ready.
Replan(s) ==
    /\ At(s, "Next", "-")
    /\ local[s].queue = {} /\ local[s].resuming /\ ReadyTasks(mem[s]) # {}
    /\ local' = [local EXCEPT ![s].queue = ReadyTasks(mem[s])]
    /\ UNCHANGED <<store, mem, pc, effects, ledger, clock, calls>>

Return(s) ==
    /\ At(s, "Next", "-")
    /\ local[s].queue = {}
    /\ local[s].resuming => ReadyTasks(mem[s]) = {}
    /\ local' = [local EXCEPT ![s] = NoLocals]
    /\ pc' = [pc EXCEPT ![s] = Idle]
    /\ UNCHANGED <<store, mem, effects, ledger, clock, calls>>

Abort(s) == pc' = [pc EXCEPT ![s] = Idle] /\ local' = [local EXCEPT ![s] = NoLocals]

----------------------------------------------------------------------------
(* emit: the task's state in memory, then record_event in the store.        *)

UpdateState(m, t, state) ==
    [m EXCEPT !.graph[t] = Merge(@, state), !.rows[t] = Merge(@, state)]

EmitInMemory(s) ==
    /\ \E stage \in DOMAIN EventState :
          /\ At(s, stage, "mem")
          /\ mem' = [mem EXCEPT ![s] = UpdateState(@, Task(s), EventState[stage])]
          /\ Goto(s, stage, "read")
    /\ UNCHANGED <<store, local, effects, ledger, clock, calls>>

\* load_task_store, and update_task_state on the copy it made: a graph that
\* run could not save is GraphNotFound.
ReadRows(s) ==
    /\ \E stage \in DOMAIN EventState :
          /\ At(s, stage, "read")
          /\ IF graphRow = Null \/ ~Readable
             THEN Abort(s)
             ELSE /\ local' = [local EXCEPT ![s].graph = graphRow,
                                            ![s].row = Loaded(Task(s))]
                  /\ Goto(s, stage, "graph")
    /\ UNCHANGED <<store, mem, effects, ledger, clock, calls>>

\* upsert_graph_payload writes the states of all tasks of the graph.
WriteGraphRow(s) ==
    /\ \E stage \in DOMAIN EventState :
          /\ At(s, stage, "graph")
          /\ graphRow' = [local[s].graph EXCEPT ![Task(s)] = Merge(@, EventState[stage])]
          /\ Goto(s, stage, "row")
    /\ UNCHANGED <<taskRow, attempts, leases, probes, mem, local, effects, ledger, clock, calls>>

Following ==
    [Admitted |-> {<<"Started", "mem">>},
     Planned |-> {<<"PolicyChecked", "mem">>},
     PolicyChecked |-> {<<"TicketIssued", "mem">>, <<"AwaitingApproval", "mem">>},
     AwaitingApproval |-> {Idle},
     TicketIssued |-> {<<"Executing", "mem">>},
     Executing |-> {<<"Verifying", "work">>},
     Verifying |-> {<<"Committing", "mem">>},
     Committing |-> {<<"Completed", "work">>},
     Completed |-> {<<"Finished", "mem">>}]

\* Completed is reported without a commit
AfterEvent_NoCommit(stage) ==
    [Following EXCEPT !.Committing = {<<"Completed", "mem">>}][stage]

\* What run_task_by_id does after each event; the policy decision or the P1
\* readiness may ask for approval, which ends the call.
AfterEvent(stage) == Following[stage]

WriteTaskRow(s) ==
    /\ \E stage \in DOMAIN EventState :
          /\ At(s, stage, "row")
          /\ taskRow' = [taskRow EXCEPT ![Task(s)] = Merge(local[s].row, EventState[stage])]
          /\ \E next \in AfterEvent(stage) : pc' = [pc EXCEPT ![s] = next]
          /\ local' = IF stage = "AwaitingApproval" THEN [local EXCEPT ![s] = NoLocals]
                      ELSE [local EXCEPT ![s].graph = Null, ![s].row = Null]
    /\ UNCHANGED <<graphRow, attempts, leases, probes, mem, effects, ledger, clock, calls>>

----------------------------------------------------------------------------
(* run_task_by_id: the steps between the events.                            *)

NewAttempt(s, committed) ==
    LET attempt == [n |-> clock.attempts + 1, committed |-> committed]
        base == IF committed THEN mem[s] ELSE UpdateState(mem[s], Task(s), "Running")
    IN  /\ clock' = [clock EXCEPT !.attempts = @ + 1]
        /\ mem' = [mem EXCEPT ![s] = [base EXCEPT !.attempts[Task(s)] = @ \cup {attempt}]]

\* The task is Running in memory only, and its attempt is recorded; a task
\* whose dependencies the copy of the graph does not show completed is not
\* ready.
StartTask(s) ==
    /\ At(s, "Started", "mem")
    /\ \/ /\ DependsOn[Task(s)] \subseteq local[s].before \cup local[s].done
          /\ NewAttempt(s, FALSE)
          /\ Goto(s, "Started", "insert")
          /\ UNCHANGED local
       \/ /\ ~(DependsOn[Task(s)] \subseteq local[s].before \cup local[s].done)
          /\ Abort(s)
          /\ UNCHANGED <<mem, clock>>
    /\ UNCHANGED <<store, effects, ledger, calls>>

\* record_completed_attempt.
FinishAttempt(s) ==
    /\ At(s, "Finished", "mem")
    /\ NewAttempt(s, TRUE)
    /\ Goto(s, "Finished", "insert")
    /\ UNCHANGED <<store, local, effects, ledger, calls>>

\* RuntimeSqliteStore::record_attempt inserts the attempt and reads the task
\* row ...
InsertAttempt(s) ==
    /\ \E stage \in {"Started", "Finished"} :
          At(s, stage, "insert") /\ Goto(s, stage, "touch")
    /\ attempts' = [attempts EXCEPT ![Task(s)] = @ \cup {Latest(mem[s].attempts[Task(s)])}]
    /\ local' = [local EXCEPT ![s].row = taskRow[Task(s)]]
    /\ UNCHANGED <<graphRow, taskRow, leases, probes, mem, effects, ledger, clock, calls>>

\* the row of a recorded attempt is set running
TouchTaskRow_MarksRunning(s) ==
    /\ \/ At(s, "Started", "touch") /\ Goto(s, "Lease", "row")
       \/ At(s, "Finished", "touch") /\ Goto(s, "Release", "mem")
    /\ taskRow' = [taskRow EXCEPT ![Task(s)] = "Running"]
    /\ local' = [local EXCEPT ![s].row = Null]
    /\ UNCHANGED <<graphRow, attempts, leases, probes, mem, effects, ledger, clock, calls>>

\* ... and writes the row back as it was read, state included.
TouchTaskRow(s) ==
    /\ \/ At(s, "Started", "touch") /\ Goto(s, "Lease", "row")
       \/ At(s, "Finished", "touch") /\ Goto(s, "Release", "mem")
    /\ taskRow' = IF local[s].row = Null THEN taskRow
                  ELSE [taskRow EXCEPT ![Task(s)] = local[s].row]
    /\ local' = [local EXCEPT ![s].row = Null]
    /\ UNCHANGED <<graphRow, attempts, leases, probes, mem, effects, ledger, clock, calls>>

\* the lease's row, in the store (stored) unless the guard finds another
LeaseRow(s, blocked, stored) ==
    /\ At(s, "Lease", "row")
    /\ ~blocked
    /\ LET lease == [id |-> Latest(mem[s].attempts[Task(s)]).n, expires |-> clock.now + TTL]
       IN  /\ leases' = [leases EXCEPT ![Task(s)] = IF stored THEN @ \cup {lease} ELSE @]
           /\ local' = [local EXCEPT ![s].lease = lease]
           /\ Goto(s, "Lease", "mem")
    /\ UNCHANGED <<graphRow, taskRow, attempts, probes, mem, effects, ledger, clock, calls>>
\* nobody looks; the transaction is not committed; the call waits for the other
AcquireLeaseRow_Unchecked(s) == LeaseRow(s, FALSE, TRUE)
AcquireLeaseRow_RolledBack(s) ==
    LeaseRow(s, \E other \in leases[Task(s)] : Live(other), FALSE)
AcquireLeaseRow_Waits(s) == LeaseRow(s, \E other \in leases[Task(s)] : Live(other), TRUE)

\* acquire_retry_lease: first the store, in an immediate transaction ...
AcquireLeaseRow(s) ==
    /\ At(s, "Lease", "row")
    /\ LET lease == [id |-> Latest(mem[s].attempts[Task(s)]).n, expires |-> clock.now + TTL]
       IN  IF \E other \in leases[Task(s)] : Live(other)
           THEN Abort(s) /\ UNCHANGED leases
           ELSE /\ leases' = [leases EXCEPT ![Task(s)] = @ \cup {lease}]
                /\ local' = [local EXCEPT ![s].lease = lease]
                /\ Goto(s, "Lease", "mem")
    /\ UNCHANGED <<graphRow, taskRow, attempts, probes, mem, effects, ledger, clock, calls>>

\* ... then memory, which may know an older lease; the row stays active.
AcquireLeaseInMemory(s) ==
    /\ At(s, "Lease", "mem")
    /\ IF \E other \in mem[s].leases[Task(s)] : Live(other)
       THEN Abort(s) /\ UNCHANGED mem
       ELSE /\ mem' = [mem EXCEPT ![s].leases[Task(s)] = @ \cup {local[s].lease}]
            /\ Goto(s, "Planned", "mem")
            /\ UNCHANGED local
    /\ UNCHANGED <<store, effects, ledger, clock, calls>>

\* Kernel::execute runs the executor.
Execute(s) ==
    /\ At(s, "Verifying", "work")
    /\ effects' = [effects EXCEPT ![Task(s)] = @ + 1]
    /\ Goto(s, "Verifying", "mem")
    /\ UNCHANGED <<store, mem, local, ledger, clock, calls>>

\* Kernel::commit appends the success event; the copy of the graph has the
\* task completed.
Commit(s) ==
    /\ At(s, "Completed", "work")
    /\ ledger' = [ledger EXCEPT ![Task(s)] = @ + 1]
    /\ local' = [local EXCEPT ![s].done = @ \cup {Task(s)}]
    /\ Goto(s, "Completed", "mem")
    /\ UNCHANGED <<store, mem, effects, clock, calls>>

ReleaseLeaseInMemory(s) ==
    /\ At(s, "Release", "mem")
    /\ mem' = [mem EXCEPT ![s].leases[Task(s)] = @ \ {local[s].lease}]
    /\ Goto(s, "Release", "row")
    /\ UNCHANGED <<store, local, effects, ledger, clock, calls>>

ReleaseLeaseRow(s) ==
    /\ At(s, "Release", "row")
    /\ leases' = [leases EXCEPT ![Task(s)] = @ \ {local[s].lease}]
    /\ local' = [local EXCEPT ![s].lease = Null]
    /\ Goto(s, "Next", "-")
    /\ UNCHANGED <<graphRow, taskRow, attempts, probes, mem, effects, ledger, clock, calls>>

Tick ==
    /\ clock.now < MaxTime
    /\ clock' = [clock EXCEPT !.now = @ + 1]
    /\ UNCHANGED <<store, mem, pc, local, effects, ledger, calls>>

\* The steps of a call that is running.
Step(s) ==
    \/ SaveGraphRow(s) \/ SaveTaskRow(s) \/ TakeTask(s) \/ Replan(s) \/ Return(s)
    \/ EmitInMemory(s) \/ ReadRows(s) \/ WriteGraphRow(s) \/ WriteTaskRow(s)
    \/ StartTask(s) \/ FinishAttempt(s) \/ InsertAttempt(s) \/ TouchTaskRow(s)
    \/ AcquireLeaseRow(s) \/ AcquireLeaseInMemory(s) \/ Execute(s) \/ Commit(s)
    \/ ReleaseLeaseInMemory(s) \/ ReleaseLeaseRow(s)

Next ==
    \/ \E s \in Sessions :
          \/ \E policy \in Policies : Open(s, policy)
          \/ \E t \in Tasks, status \in ProbeStatuses : RecordProbe(s, t, status)
          \/ Run(s) \/ Resume(s) \/ Step(s) \/ Fail(s) \/ Die(s)
    \/ Tick

Spec == Init /\ [][Next]_vars

\* A session's thread goes on with the call it is in.
FairSpec == Spec /\ \A s \in Sessions : WF_vars(Step(s))

----------------------------------------------------------------------------
(* Properties.                                                              *)

Stage == DOMAIN EventState
Location ==
    {Closed, Idle, <<"Next", "-">>, <<"SaveGraph", "graph">>, <<"SaveGraph", "row">>,
     <<"Verifying", "work">>, <<"Completed", "work">>,
     <<"Lease", "row">>, <<"Lease", "mem">>, <<"Release", "mem">>, <<"Release", "row">>}
      \cup Stage \X {"mem", "read", "graph", "row"}
      \cup {"Started", "Finished"} \X {"mem", "insert", "touch"}

States == [Tasks -> TaskState]

\* The store, the sessions' memories and the histories keep their types.
TypeOK ==
    /\ graphRow \in States \cup {Null}
    /\ taskRow \in [Tasks -> TaskState \cup {Null}]
    /\ \A t \in Tasks : \A a \in attempts[t] : a \in Attempt
    /\ \A t \in Tasks : \A lease \in leases[t] : lease \in Lease
    /\ \A t \in Tasks : \A probe \in probes[t] : probe \in Probe
    /\ \A s \in Sessions : pc[s] \in Location
    /\ \A s \in Sessions : pc[s] = Closed <=> mem[s] = Null
    /\ \A s \in Sessions : pc[s] \notin {Closed, Idle, <<"Next", "-">>} =>
                              mem[s].graph \in States /\ mem[s].rows \in States
    /\ effects \in [Tasks -> Nat] /\ ledger \in [Tasks -> Nat]
    /\ clock.now \in 0..MaxTime /\ calls \in 0..MaxCalls

\* A task is completed in the store, or in the memory of any session, only
\* after the kernel committed it.
CompletedMeansCommitted ==
    \A t \in Tasks :
        \/ ledger[t] > 0
        \/ /\ taskRow[t] # "Completed"
           /\ graphRow # Null => graphRow[t] # "Completed"
           /\ \A s \in Sessions : pc[s] # Closed /\ mem[s].graph # Null =>
                 mem[s].rows[t] # "Completed" /\ mem[s].graph[t] # "Completed"

\* No task is executed before every task it depends on is in the ledger.
DependencyOrder ==
    \A t \in Tasks : effects[t] > 0 => \A d \in DependsOn[t] : ledger[d] > 0

\* At any time at most one lease of a task is active and not expired: a second
\* session cannot claim it (README.md:379).
LeaseExclusion ==
    \A t \in Tasks : \A a, b \in leases[t] : Live(a) /\ Live(b) => a = b

HoldsLease(s) == local[s].lease # Null

\* A session that is past acquire_retry_lease still has its lease in the
\* store: nobody else takes it away.
LeaseStays ==
    \A s \in Sessions : HoldsLease(s) => local[s].lease \in leases[Task(s)]

\* Two sessions are inside one task at a time only after the lease of one of
\* them expired.
OverlapNeedsExpiry ==
    \A r, s \in Sessions :
        r # s /\ HoldsLease(r) /\ HoldsLease(s) /\ Task(r) = Task(s)
            => ~Live(local[r].lease) \/ ~Live(local[s].lease)

\* Only time takes a lease from its holder, and only then a second one is given.
LeasesAreKept == LeaseStays /\ OverlapNeedsExpiry

\* A call never starts a task it has completed itself, so that the loop of
\* resume_ready_tasks ends.
NoTaskTwicePerCall ==
    [][\A s \in Sessions : StartTask(s) => Task(s) \notin local[s].done]_vars

\* A task that is not retry-safe is executed once at most, however often its
\* session fails or dies and is resumed, and under either policy
\* (docs/status.md:783).
UnsafeExecutesOnce == \A t \in Tasks \ RetrySafe : effects[t] <= 1

\* A session that requires inspection never executes what was executed
\* before, finished or not (README.md:428).
InspectionIsRespected ==
    [][\A s \in Sessions :
          Execute(s) /\ mem[s].policy = "RequireInspection" => effects[Task(s)] = 0]_vars

\* The store has a task as running, or further, before it is executed: a
\* crash never leaves it ready.
ExecutionIsCheckpointed ==
    \A t \in Tasks : effects[t] > 0 => taskRow[t] \notin {Null, "Ready"}

\* What the store calls completed stays completed.
CompletedIsFinal == [][\A t \in Tasks : taskRow[t] = "Completed" => taskRow'[t] = "Completed"]_vars

\* The store never runs ahead of the kernel, nor behind what was executed.
CheckpointsAgree == CompletedMeansCommitted /\ ExecutionIsCheckpointed

\* A task that waits for approval is executed by no later call.
ApprovalBlocks ==
    [][\A t \in Tasks : taskRow[t] = "AwaitingApproval" => effects'[t] = effects[t]]_vars

\* A task is started only if no adverse report of the provider on its latest
\* attempt is known to the session.
NoAdverseReport(m, t) ==
    m.attempts[t] # {} =>
        \A probe \in ProbesOf(m.probes[t], Latest(m.attempts[t])) :
            probe.status \in {"NotFound", "Failed"}

\* A failed task whose latest attempt the provider reported as committed,
\* pending or unknown, to this session or to one before it, is inspected and
\* not started again.
FailedNeedsReport ==
    [][\A s \in Sessions : StartTask(s) /\ mem[s].rows[Task(s)] = "Failed"
                             => NoAdverseReport(mem[s], Task(s))]_vars

\* A task that run_task_by_id finished is completed in memory and in the
\* store, unless it had failed before: its commit is not forgotten by the
\* state it had.
FinishedIsCompleted ==
    [][\A s \in Sessions :
          ReleaseLeaseRow(s) /\ mem[s].rows[Task(s)] # "Failed"
              => mem[s].rows[Task(s)] = "Completed" /\ taskRow[Task(s)] = "Completed"]_vars

\* A task is taken up only when no record speaks against it: its approval, its
\* earlier executions, the reports of its attempts, the call's own work.
StartsAreJustified ==
    NoTaskTwicePerCall /\ InspectionIsRespected /\ ApprovalBlocks /\ FailedNeedsReport

\* Completion is neither undone nor forgotten.
CompletionHolds == CompletedIsFinal /\ FinishedIsCompleted

\* Every call returns.
CallReturns ==
    \A s \in Sessions : pc[s] \notin {Closed, Idle} ~> pc[s] \in {Closed, Idle}
=============================================================================
