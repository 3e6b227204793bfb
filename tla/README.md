# A formal model of the Essence agent

This directory holds TLA+ modules that model the Essence agent (`src/crates/moxi-*`),
TLC configurations that model-check them, and TLAPS proofs about the core. The
definitions are translated from the Rust source; `PROJECT.json` maps each of them to the
lines it stands for, and lists the runs, the mutants (a plausible bug for each property,
which the run must find), the hazards and the theorems.

## The system

An agent turns a request into actions it is allowed to take. A request passes
entry → gateway → intent compiler, and becomes an `Intent`. The **kernel** admits the
intent as a *run*, decides each proposed action (*delta*) by policy, takes approvals,
issues single-use *tickets*, invokes the executor of a ticket, verifies its result and
commits an event to an append-only, hash-chained *ledger*. Around the kernel a **runtime
session** runs a task graph: each task proposes one delta and walks the kernel's methods,
recording events, task states, attempts, retry leases and checkpoints in a journal file
and in SQLite so that another session can resume it. Everything else is advisory: it
computes decisions, evidence and plans that "cannot authorize".

The control planes share no state: the caller passes the records of one to the next. What
they share in fact is the identity of records, which are hashes of the fields they bind, and
the clock.

| component | state it keeps | operations | what is hard | what makes it correct |
|---|---|---|---|---|
| kernel (`moxi-core`) | run contracts, registry and executors in memory | admit, heartbeat, propose, grant, ticket, execute, verify, commit, timeouts | several store writes per method, each able to fail in a process that goes on, or to be the last before a crash; calls in any order | a second execution of a run only after a failed write; nothing executed or recorded without an allowing decision; denial is final; ledger, run table and budgets agree |
| policy engine (`moxi-core`) | its configuration | evaluate | order of reasons; permission modes | denial dominates; stricter configuration never allows more |
| store (`moxi-store`) | SQLite tables, append-only triggers | status transitions, counters, tickets, ledger append, audit, migrations | read-then-write from several processes; migrations that die half-way | migrated whole; the audit accuses for a reason |
| runtime session (`moxi-runtime`) | task graph, attempts, leases, checkpoints, events | run, resume, retry, adopt | two sessions on one store, lease expiry, crash between two writes, stale memory | a task commits once per attempt; a lease has one holder; completed tasks stay completed |
| runtime journal (`moxi-runtime`) | a file and its lock file | open, append, replay, clear stale lock, drop | lock removed by age or by a former owner; torn last line | one writer until a cleanup evicts it; a replay has every acknowledged record or fails |
| manifest registry (`moxi-runtime`), skills (`moxi-skills`) | manifests by id | load, validate, reload, lint | partial loads, duplicate ids | references resolve; a failed load changes nothing |
| entry, gateway, intent | request counters of principals | normalise, admit, compile | limit counted before the other denials are known | risk and budget never lowered; the limit holds |
| sandboxes (`moxi-sandbox`) | a child process and its pipes | execute | child that neither reads nor exits, full pipes, the deadline | a call ends; output of a killed child is not a result |
| vault (`moxi-vault`) | none: the caller keeps records and decisions | secret use, quorum approval, break glass, adapter verification, hardening decisions, readiness, P1 profiles and bundles | one decision is evidence for the next; the caller may lose, edit, age or swap it | no readiness without fresh, unedited evidence of each gate; a profile loads only as it was sealed |
| swarm (`moxi-swarm`) | none: plan, sidechains and gates are the caller's | plan, handoff, review, merge | reviews and evidence of another sidechain | merged evidence was approved; bounds hold |
| memory (`moxi-memory`) | its manifest; memories are the host's | propose, decide, accept, recall, project, forget | decision and acceptance are separate calls | nothing stored without consent and ledger binding |
| hot path (`moxi-hotpath`) | latency budgets | decide, degrade, snapshot | order of the checks; percentiles of few samples | a risky request takes the trusted path; no foreign cache entry |
| adaptive, governance, eval | deltas, experiments, decisions | reflect, propose, experiment, promote, roll out | results matched with deltas by the caller | no rollout without a passed evaluation and, when protected, a human |
| observability | projections | facts and metrics of a run | read table by table while the kernel writes | what is concluded holds of the run |
| model gateway | providers | route, attempt, propose | fallbacks, budget | a route keeps to risk, cost and latency |
| shells, CLI | none | submit, render | — | a shell asks for no more than its profile |

## What is modelled

### `PolicyEngine`
The pure evaluation of `PolicyEngine::evaluate`. A resource name is the record of what the
four name tests (`is_read_resource`, ...) answer of it; a list of patterns is the set of
ids or resources it matches; a threshold that is `None` lies above every risk level.

### `Kernel`
The kernel over the store, *write by write*. SQLite commits each statement by itself, so a
method that makes three writes is three actions and `op` is the point the running method
has reached. Methods take `&mut self`: no method starts while `op` is not idle. `Crash`
may happen at any point; it forgets `op` and the run contracts (`Kernel.runs` is a
`HashMap` that no method reloads), and keeps every table. `FailWrite` is the write that
fails in a process that lives on: the method returns its error at that point, what it wrote
before stays, and the run contract stays held. The registry and the executors
are constants: `with_store` and its callers register them again.

| variable | code |
|---|---|
| `runs`, `createdAt` | `Kernel.runs`, `RunContract.created_at` |
| `status`, `usage` | tables `run_states`, `run_usage` |
| `policies`, `grants`, `tickets`, `consumed` | `policy_decisions`, `approval_grants`, `execution_tickets`, its `consumed_at` |
| `results`, `proofs`, `ledger` | `sandbox_results`, `proofs`, `ledger_events` in rowid order |
| `effects`, `lost`, `unfinished` | history: how often the executor was invoked with a ticket; tickets of which a write failed after that; runs whose commit appended the event and failed in its last write |
| `now` | `Utc::now()` |

| actions | method |
|---|---|
| `Admit` | `admit_with_permission_mode` |
| `EnforceTimeout` | `enforce_run_timeout` when it ends the call |
| `StartHeartbeat`, `RecordHeartbeat` | `start_heartbeat` |
| `ProposeDelta`, `DecideDelta`, `RecordPolicyDecision` | `propose_delta`, with any configuration `set_policy_config` may have left |
| `GrantApproval`, `ResumeRun` | `grant_approval` |
| `IssueTicket` | `issue_ticket`, `issue_ticket_with_grant` |
| `ConsumeTicket`, `RecordToolCall`, `EnterExecuting`, `RunExecutor`, `RecordResult`, `EnterObserving` | `execute` |
| `Verify`, `RecordProof` | `verify` |
| `CommitSuccess`, `CommitOther`, `AppendLedgerEvent`, `CompleteRun` | `commit`, of an event that may name any delta |
| `FailWrite` | the `?` after a store call |

Hashes and identity fields are not computed: a record stores the id it is bound to. The
executor is any of five outcomes (success, failure, an error, a result bound to another
ticket, an output that fails its schema). A call that returns an error before its first
write has no action.

### `Authority`
`Authority` is what the kernel promises, with none of its tables: six actions over the sets
of permitted, denied and settled runs and the actions each run performed, lost and reported.
A run performs an action only while permitted, not denied and not settled, and a second one
only while the outcome of every earlier one was lost to a failed write; once an outcome is
known the run is settled and acts no more. It reports only what it performed, and nothing
once it was denied. `Kernel` reads this state off its tables
(`Promise == INSTANCE Authority WITH ...`) and states `ImplementsAuthority == Promise!Spec`:
each of the kernel's writes, a failed one and a crash, is one abstract step or none.

### `StoreSchema`, `SharedStore`, `Trail`
Several kernel processes on one database. `StoreSchema` is `Store::open`: the list of SQL
statements of the version found, each of which commits by itself; two openers interleave and
either may die or give up between two statements. `SharedStore` adds what the kernels then do
with it, again statement by statement: registering contracts and executors (look up, insert
or compare, read back), appending the rows of an approved action and its event (read the last
hash, then insert), and the replay audit of the whole ledger, which reads one table after
another while others write. A commit is the sequence of rows of one action; the run's own
states are `Kernel`'s. The processes take no turns: two may be between the two lookups of a
registration, or between the read and the insert of an append, at once. Two history variables
record it: `overtaken` holds what was offered while something else was recorded under its id,
`overlapped` the runs whose last hash was read before another event came. An event may also
be what its caller made of it (`flaws`): younger than its grant, or of another delta.

`Trail` is what the processes promise together, with no statements, rows or calls: a process
enrols a contract, one for each id, which overtakes others on their way; it adopts what is
enrolled or what it had offered when it was overtaken, equips itself with an executor made
for what it holds, authorises an action whose contract and executor it holds, and an
authorised action is reported once, under a seal that covers it and all that an earlier seal
covers. `SharedStore` reads this off its tables (an action is authorised when all its rows
are there; the seals are the hashes) and states `ImplementsTrail == Promise!Spec`.

| variable | code |
|---|---|
| `version`, `schema`, `opener` | `schema_version`, which tables, columns and triggers exist, how far each `Store::open` is |
| `contracts`, `manifests`, `rows`, `ledger` | the tables `capability_contracts`, `executor_manifests`, those of one action, `ledger_events` |
| `registry`, `executors`, `call` | what a kernel holds in memory; the method it is in, with its locals |
| `overtaken`, `overlapped` | history, as above |

| actions | method |
|---|---|
| `OpenStep` | one statement of `Store::open` |
| `BeginCapability`, `RecordCapability`, `CheckCapability`, `BeginExecutor`, `RecordExecutor`, `CheckExecutor` | `register_capability`, `register_executor` |
| `BeginCommit`, `RecordRow`, `ReadLatestHash`, `InsertEvent` | the rows of an action, `append_ledger_event` |
| `BeginAudit`, `ReadEvents`, `VerifyEvent` | `replay_ledger_audit`, one comparison with one table at a time |
| `Fail`, `Die` | a locked database, the end of the process |

### `JournalLock`
The journal file and its lock file. A session creates the lock (`create_new`), writes its
metadata, opens the file, perhaps replays it, appends records and is dropped, or dies at
any of these points. A record reaches the file in two fragments and a newline
(`serde_json::to_writer` on an unbuffered `File` writes many), and a session may die or
get an error after each. An operator calls `clear_stale_lock`, which reads the lock and
removes the file in two steps. It compares the age in the file and nothing else: the owner may
be at work, and by the second step the file may be another's.

| variable | code |
|---|---|
| `lock` | the lock file: who created it, and `created_at` once the metadata is written |
| `pc` | the point of `open`, `append` or `drop` a session has reached |
| `view` | the records a session replayed and appended |
| `seen` | the operators that found a stale lock and will remove the file |
| `evicted` | history: a cleanup removed the lock of a session that went on under it |
| `lines`, `begun`, `record`, `acked`, `torn` | the file, and history variables of its records |

| actions | method |
|---|---|
| `CreateLock`, `WriteLockInfo`, `WriteLockInfoFails`, `OpenJournal`, `OpenJournalFails` | `RuntimeJournal::open` |
| `StartFresh`, `StartReplayed` | `with_journal`, `with_replayed_journal` |
| `BeginAppend`, `WriteRest`, `WriteNewline`, `AppendFails` | `append` |
| `BeginDrop`, `Drop`, `Die` | `Drop`, or the end of the process |
| `ReadStaleLock`, `RemoveStaleLock` | `clear_stale_lock` |

### `Runtime`
Runtime sessions over one SQLite store and one task graph. A session loads the store when
it is opened and plans from its memory; each event, attempt and lease is then written
statement by statement. An event is three steps: read the stored graph and task (the load
is taken as one step), write the merged graph, write the merged task. A call may fail
(`Fail`), and a session may die (`Die`), before any step. The kernel's calls succeed or
fail; `Execute` has the effect and `Commit` appends to the ledger.

| variable | code |
|---|---|
| `graphRow`, `taskRow`, `attempts`, `leases`, `probes` | tables `runtime_graphs`, `runtime_tasks`, `runtime_attempts`, `runtime_retry_leases` (active rows), `runtime_adoption_probes` |
| `mem` | each session's `RuntimeTaskStore` and `running_task_policy` |
| `pc`, `local` | the stage of `run_task_by_id` and the locals of the call |
| `effects`, `ledger` | history: executions and success events of each task |
| `clock`, `calls` | `Utc::now()` with a counter that numbers the attempts; the bound of calls |

| actions | method |
|---|---|
| `Open` | `with_sqlite_store`, `load_task_store` |
| `Run`, `SaveGraphRow`, `SaveTaskRow` | `run`, `save_graph` |
| `Resume`, `TakeTask`, `Replan`, `Return` | `resume_ready_tasks`, `resume_plan_from`, `order_task_records_by_dependency` |
| `EmitInMemory`, `ReadRows`, `WriteGraphRow`, `WriteTaskRow` | `emit`, `record_event` |
| `StartTask`, `FinishAttempt`, `InsertAttempt`, `TouchTaskRow` | `run_task_by_id`, `record_attempt` |
| `AcquireLeaseRow`, `AcquireLeaseInMemory`, `ReleaseLease...` | `acquire_retry_lease`, `release_retry_lease` |
| `Execute`, `Commit` | `Kernel::execute`, `Kernel::commit` |
| `RecordProbe` | `record_adoption_probe_result` |

Left out: event rows and their cursors, planner records, the journal as a second backend.
How an intent becomes a graph is in `Planner`. A task fails only in graphs that were
imported: no code path of the crate emits the stage `Failed`.

### `ProcessSandbox`
One call of the process sandbox: the calling thread, the two reader threads, the child,
and a process the child may leave behind, which inherits its pipes. A pipe is a number of
bytes and a capacity. The child is not assumed to do anything. Reading a pipe and waiting
for a child are taken not to fail.

| variable | code |
|---|---|
| `pc`, `outcome`, `unsent`, `deadline`, `reaped` | the caller in `execute`: its place, what it returns, the rest of the request |
| `reader`, `got` | the threads of `read_pipe` and their buffers |
| `pipe`, `ends`, `alive`, `forked`, `status` | the operating system: pipes, who holds the child's ends, processes, exit status |
| `written`, `now` | history variable; `Instant::now()` |

| actions | code |
|---|---|
| `Spawn`, `SpawnFails`, `WriteRequest`, `WriteFails`, `StartWaiting` | `spawn`, `write_all`, the readers and the deadline |
| `Poll`, `CheckDeadline`, `Kill`, `Reap` | the polling loop, `kill` and `wait` |
| `Join`, `Answer` | `join_pipe`, exit status, parsing of the response |
| `Read`, `EndOfFile` | `read_to_end` in the threads |
| `ReadInput`, `WriteOutput`, `CloseEnd`, `Fork`, `Exit` | external: the child and its heir |

### The vault: `VaultRecords`, `VaultTrust`, `VaultAdapters`, `VaultProfiles`, `VaultHardening`, `VaultTenant`, `VaultReadiness`, `VaultReview`, `VaultControls`
The vault keeps no state. Its operations are functions of the records the caller passes and
of the clock, so the first five modules are operators: `VaultRecords` (references, stable
ids, risk, time), `VaultTrust` (secret use, quorum approval, break glass, executor
signatures, trust roots), `VaultAdapters` (policy packs, provider configurations, readiness
contracts, adapter evidence and its verification), `VaultProfiles` (lenient production
readiness, sealed P1 profiles, the P1 decision, audit and compliance bundles) and
`VaultHardening` (the eight typed hardening decisions and strict readiness). An id is the
tuple of the fields it binds and a hash is the content it was made of, so a record that was
edited no longer matches its id exactly when the code's comparison of hashes would fail.

Two modules have state: that of the *caller*. `VaultReadiness` is an operator who verifies
adapters, obtains the typed decisions, verifies some again as time passes, loses one, edits a
verdict, takes one of another tenant, lists a credential twice, and evaluates what is there.
`VaultReview` is one who seals profiles, asks for uses, break-glass access and P1 decisions,
and exports bundles, while the policy is edited, readiness is issued again and time passes. They share the clock
and the readiness decision (`VaultTenant`); `VaultControls` puts them together.

| actions | code |
|---|---|
| `ReverifyAuth` ... `ReverifyAdapter`, `ResignExecutor` | `verify_production_auth_with_readiness_contract` and its seven siblings, `verify_production_adapter_evidence_...`, `verify_executor_signature_with_trust_root_records` |
| `Misplace`, `EditVerdict`, `ListAgain`, `DecisionsAge` | the caller, who may also list a credential twice, and the clock |
| `EvaluateSet`, `EvaluateBasic` | `evaluate_production_readiness_with_hardening_decision_set`, `..._with_decisions` |
| `DecideSecretUse`, `DecideBreakGlass`, `AuditBreakGlass` | `decide_secret_use`, `decide_break_glass`, `audit_break_glass_decision` |
| `IssueReadiness`, `SealProfile`, `EvaluateP1`, `AuditP1`, `BundleP1`, `ExportCompliance` | `evaluate_production_readiness_inner`, `seal_p1_execution_readiness_profile`, `evaluate_p1_execution_readiness`, `audit_...`, `p1_execution_audit_bundle`, `compliance_export_bundle` |
| `EditPolicy`, `TimePasses` | `seal_tenant_policy_pack` of an edited policy; the clock |

### The planes around the kernel: `Intake`, `Profiles`, `Planner`, `ModelRouting`, `Planning`, `Lists`, `Memory`, `Swarm`, `Observation`, `Evaluation`, `Evolution`, `HotPath`, `ControlPlane`
* `Planning` takes a request from a shell through entry, gateway and compiler (`Intake`) to
  a plan of a runtime session (`Planner`: manifests and packages, loaded skills, a plan of
  skills, of the intent or of a model's proposal that `ModelRouting` routed) and to a task
  graph under the session's profile (`Profiles`). Between any two steps registries are
  edited, packages installed, and the session is reconfigured. Texts are sequences of words;
  what the code looks for inside a word is given as sets of words.
* `Lists` says what filter, take and a stable sort make of a list, by the places they take
  from it; `Memory` recalls and ranks with it, `HotPath` measures with it,
  and planning filters registries, skills and words with it.
* `Memory`, `Swarm`: every function of the controller, with the records the host keeps. An
  identifier is the tuple of what the code hashes into it: a reference that leaves a field
  out cannot tell two records apart, in the model as in the code.
* `Evolution`: `Store::observe_run` reads a run statement by statement while the kernel goes
  on writing it; `Observation` projects it, `Evaluation` evaluates it, and the report is
  reflected on, proposed, tried, promoted, rolled out, rolled back and recorded.
* `HotPath`: the first-packet decision with or without a cache entry, its degrade plan and
  fact, and percentile snapshots of the times the host measured.
* `ControlPlane` composes the five. None reads what another keeps, so a property of one is
  checked while the others rest (`focus`), instead of over the product of all their states.

Definitions called `Name_Fault`, or `Name_` and what is wrong with them, are not part of a
model. Each is a plausible bug in the definition `Name` that follows it; with it in the place
of `Name` the property that `PROJECT.json` names must be violated.

## Runs

`CHECK_DEADLOCK FALSE` stands in every configuration because the systems really stop: a
run of the kernel ends, sessions may stay closed, and the bounded counters run out.

| run | question | bounds, and why they are enough |
|---|---|---|
| `kernel_one_run` | Does the kernel keep its promises about one run, whatever the order of calls, with a failure that it survives, or a crash, at any write? Does it implement `Authority`? | One run, two decisions, one grant, two tickets, two proofs: enough for a second decision, ticket or proof to be confused with the first. Two configurations: one denies what the other allows. The clock reaches 2, past the ticket, the grant and the run's timeout. The event names the delta of the decision or another. |
| `kernel_audit` (violated) | Does a ledger that the kernel wrote pass the audit? | As `kernel_one_run`, with events of the right delta only: the disagreement about the grant is the subject. |
| `store` | Is a database whole once it opens, do the processes on it implement `Trail` (in particular, is what a kernel holds recorded or overtaken), and what does the audit accuse? | Two processes at once, five releases of the database file, two contracts of one capability with their executors: two registrations of the same id can differ. Two commits, which may overlap, of events in order, late or of another delta, and one audit at any point. |
| `vault_tenant` | What does a readiness verdict, a sealed profile, an allowed use or an exported bundle rest on? | Hardening: two tenants, eight adapters, evidence that lives for one tick or for long, two changes (age, edit, loss, swap, a credential listed again) before an evaluation. Review: one policy with two contents, two profiles, two clock ticks, six calls: seal, readiness, edit, evaluate, audit, bundle. |
| `control` | Are plans within the request and the profile, recalls accountable, merges approved, promotions earned, first packets safe? | One request at a time of four kinds, two skills and a package, two providers, a profile with a child; two proposals and memories; two gates and evidences over two sidechains, so that an approval can back another; one run observed and two deltas, one of them of a high risk, so that a decision can be taken for another; three samples: the least for which the median of a list rounds. |
| `profile_narrowing` (violated) | Is a child profile never wider than its parent? | A child with nothing in common with its parent. |
| `journal_careful` | One writer and no lost or altered record until an eviction; a replay that never misses an acknowledged record. | Three sessions: a writer, a former owner and a newcomer. Three records: one before, one in and one after a torn line. The clock reaches the stale age. Two operators, who clear whatever is old enough. |
| `runtime_restart` | Which tasks are executed again after failures and restarts, is a task started against a record, and does every call return? | A retry-safe read and a write that is not and depends on it, a new graph or an imported one whose read failed, two calls of `run` or `resume_ready_tasks` (three give the same answer in five minutes), two policies, an adverse report, leases that expire. One session at a time, opened again any number of times. |
| `runtime_two_sessions` | What do leases exclude? | Two sessions, one retry-safe task, two calls, the clock passes two leases. |
| `runtime_stale` (violated) | Is a task that is not retry-safe executed once, by two sessions? | One task. |
| `sandbox_call` | Does a call end, with the whole output and without a child left? | A pipe of one byte, a request that fits and one that does not, two bytes to each output: one more than the pipe holds. Timeout of two ticks, so that the child is polled before, at and after it. |
| `sandbox_timeout` (violated) | Does the timeout end every call? | As above. |

Where the code can really get into a state that a property would like to exclude, the
property names the way into it and says that there is no other, instead of leaving the way
out of the model: a second execution of a run only after a write failed in a live process
(`ExecutesAgainOnlyWhenLost`), a timed-out run with a success only after such a failure
(`CompletedMatchesLedger`), an unrecorded contract only if it was overtaken
(`RegistryIsRecorded`), an accusation only of a faulty event (`AuditAccusesTheFaulty`), two
writers only after an eviction (`SingleWriter`). The history variables exist for that.

Several properties are conjunctions of named parts; the parts stand before them in the
module. `StatusIsKept` is `TerminalIsFinal` and `OrphanIsFrozen`; `LeasesAreKept` says that
only time takes a lease from its holder and that two sessions are inside one task only after
that; `CheckpointsAgree` and `CompletionHolds` tie what the store says of a task to what was
executed and committed; `StartsAreJustified` gathers what must not be started: a task twice
in a call, one that waits for approval, one to be inspected, a failed one without a report;
`MemoryIsAccountable` is about recalls and about decisions; `HotPathIsBounded` about answers
and about snapshots.

Identifiers, processes and sessions that nothing distinguishes are symmetric; symmetry is
used in runs of invariants and action properties only, never for liveness.

Fairness: the two properties called `CallReturns` need it, and `PipesDrain`. `FairSpec` of
`ProcessSandbox` has weak fairness of the caller inside a call, of each reader thread and
of the clock: they are threads and time. The child has none; `CallReturns` assumes that
no process left behind keeps an output open for ever, and without this it does not hold.
`FairSpec` of `Runtime` has weak fairness of each
session's `Step`: a thread inside a call goes on with it. Nothing is assumed of opening,
of failing or dying, of the clock, or of any other session. The vault and the control planes
have no fairness: nothing in them happens unless the host calls.

### What the runs found

The violated runs are disagreements between code and documentation; `findings` in
`PROJECT.json` quotes the lines.

* An approved action executed in time and committed after its grant expired is accepted by
  `commit` and refused by the replay audit, for good (`kernel_audit`). The same holds of an
  event whose `delta_id`, which its caller fills in, is not that of its ticket: `commit`
  compares it with nothing, the audit with the ticket, the decision and the grant. With
  `OtherDeltas` not empty the run finds that as well.
* A profile that shares no capability with its parent inherits the empty list, and the empty
  list allows everything (`profile_narrowing`).
* A second session that was opened early executes an action that must not be retried
  (`runtime_stale`): the plan comes from memory, and the lease expires.
* A child that does not read a large request is never timed out (`sandbox_timeout`): the
  deadline is set after the request is written.

The modules allow more of this kind to be seen, for which no run is kept:

* When the result of an execution, or the transition after it, cannot be written and the
  process lives on, the run stays `Executing` and held: a second ticket of it is executed
  (`Kernel`, `lost`). When the last write of a commit fails, the run is later timed out
  although its success is in the ledger (`unfinished`).
* `clear_stale_lock` removes a lock it did not look at, or one whose owner lives, and two
  sessions write at once (`JournalLock`, `evicted`). A torn line, or a lock without its
  metadata, is mended by no call (`DamageIsFinal`), although `src/README.md:396-398` and
  `src/docs/status.md:767-769` describe the journal as one a later process can continue.
* A running task is recommended for retry against the provider's report, a failed task that
  is retried stays failed although it is committed, and a probe of an attempt whose insert
  failed makes the store unreadable (`Runtime`).
* With two sessions, the row that `record_attempt` read before another session completed the
  task is written back: `CompletionHolds` is checked of one session at a time.
* `append_ledger_event` by two processes at once makes two events with the same predecessor,
  and the audit accuses (`SharedStore`, `overlapped`); `register_capability` by two processes
  at once leaves one of them with a contract that is not recorded (`overtaken`), although
  `src/README.md:581-583` says that a changed identity is rejected. Nothing documented
  promises concurrent writers.
* Where a credential is listed twice, a decision about another is counted and never looked at:
  `src/crates/moxi-vault/src/lib.rs:5612-5660` compares the number of decisions with that of
  credentials and then looks one decision up for each credential (and so does 5721). The set
  is found ready although that decision is expired, rejected or edited (`VaultReadiness`).
* A contaminated proposal, which `decide_write` calls `Blocked`, becomes a memory when it has
  its consent and ledger reference: `accept_proposal` (`src/crates/moxi-memory/src/lib.rs:262-310`)
  does not ask. Line 377 says that it "cannot become durable memory" (`Memory`).
* An approval of one sidechain backs the evidence of another, which nobody reviewed:
  `merge_evidence` (`src/crates/moxi-swarm/src/lib.rs:364-388`) does not compare them, though
  `src/docs/status.md:835-836` speaks of review-backed merge evidence (`Swarm`).
* A protected delta is rolled out on the decision on another one, without an experiment or a
  human: neither `rollout_plan` (`src/crates/moxi-governance/src/lib.rs:161-196`) nor
  `decide_promotion` (103-159) compares the deltas, though `src/README.md:153-155` requires
  the approval (`Evolution`).
* `compliance_export_bundle` writes the present policy's hash over P1 bundles made under an
  earlier one (`VaultReview`; `src/README.md:265-267` can be read either way).
* A cache entry of any age and any key is served: `validate_cache_entry` compares
  `freshness_ms` with zero only (`HotPath`; `src/docs/status.md:927`).

## Proofs

Each theorem is about the specification of its module, for every value of the constants that
meets the assumptions of the module and, where one is named, a hypothesis. The hypotheses
(`Exclusive`, `EvidenceIsItsOwn`, `SetIsInOrder`, `NoSecretsElsewhere`) are
conditions the caller controls; without them the properties fail, as the runs or the
paragraphs below say.

`KernelProofs` proves every invariant of `kernel_one_run` and `StatusIsKept`, for all sets of
runs, identifiers, capabilities, configurations and bounds; that records of one run never
authorise another is part of it, so the run has one run only. The inductive invariant `IInv`
adds to the properties what ties the kernel's position to the tables: what `op` holds at each
point (a ticket that was consumed, a result bound to it, a proof recorded), which statuses
are possible there, that every consumed ticket belongs to a recorded decision, that a held run
that is `Executing` after an effect is in that very call or lost its ending (`EffectInv`), and
that a held run with a success is completed, or being completed, or failed to be (`LedgerInv`).
`ExecutesAgainOnlyWhenLost` is not inductive without the tie between `effects`, `consumed` and the
run's status, nor `SuccessIsAuthorised` without the binding of proofs to results.
`BudgetsAddUp` counts: `BudgetInv` says that a run has a consumed ticket for each counted
tool call and one more while the call of one is not counted yet (`Uncounted`), and a counted
step for each decision and one more while one is not recorded yet (`Unrecorded`); failures and
crashes between the two leave more of the former.

The same module proves `KernelImplementsAuthority`: `Spec => Promise!Spec`. The initial
states map to the abstract one. A recorded decision permits or denies, a grant permits, the
executor performs (where `IInv` gives that what the run performed before is lost, and that it
is neither settled nor denied), a failed write after it loses, a transition past `Executing`
settles, and an append reports (where it gives that the ticket was performed and the run
settled); every other write, a tick or a crash stutters. `EvidenceKept` says that the tables the
mapping reads only grow.

`PolicyIsMonotone`, there too, is about `PolicyEngine::evaluate`: with a tighter configuration
(`Tightens`), a run that declares fewer capabilities or has a narrower mode (`WithinRun`), a
capability that reaches more or is riskier (`Reaches`) or a riskier delta, the decision is
never laxer. The modes are not a chain: `ReadOnly` goes by the end of a resource's name and lets
`network.read` pass, which `WorkspaceWrite` refuses
(`src/crates/moxi-core/src/lib.rs:1233-1255`), so `WithinMode` puts `ReadOnly` below
`Privileged` only.

`JournalLockProofs` proves, for any number of sessions and operators, any stale age and any
number of records: `SingleWriter` and `OwnLock`, by `LockInv` (until a cleanup evicts a
session, one past `create_new` owns the lock file, so that it is the only one); and
`NothingIsLost`, by what the lines of the file can be: every line but the last of a live
writer is whole or damaged, a whole line holds one record, and the records in the file
are the acknowledged ones until an append was cut short. `DamageIsFinal` states what the code
does to a damaged line, which is nothing.

`ProcessSandboxProofs` proves `ResultIsWhole` and `EndedCallReaps` for all sizes of pipes,
requests and outputs and all timeouts. `CallInv` adds that a reader that is done saw a
pipe that is empty and that nobody can write to any more, that the status of a child that
was waited for stays, and that what was written is read or still in the pipe.

`SharedStoreProofs` proves `OpenIsComplete` for any number of processes and any mix of
releases and deaths. An opener that has taken a statement off its list leaves what the
statement makes, and nothing is ever dropped (`CompleteStays`); `SchemaInv` says of each
opener that what is done, with what its remaining statements will do, is complete for the
version it heads for, and of the stored version that the tables it claims are there even
while a slower opener turns it back. It proves `RegistryIsRecorded` with `RecordInv`: what a
call between its lookups has on offer is recorded under that id, or nothing is, or it was
overtaken when something else was, and what is held fits what it is held with; and
`AuditAccusesTheFaulty`, with `LogInv`: as long as no event is faulty, the chain is whole up to
its end, the last hash a writer has read is that of the last event, and every event has the
rows the audit looks up, which no step takes away. No turns are assumed. `StoreImplementsTrail`
is the refinement. `TrailInv` says that a run is given out once: its rows are those of the
stages behind the commit that has it, which holds its contract and executor, and it has no
event while that commit is under way. So the last row of an action authorises it (`RowStep`:
none before does, and no other run's rows are touched), an insert reports it with a hash over
that of an earlier event or of none (`ReportStep`), a registration records and holds, or holds
what is recorded or overtaken (`EnrolStep`, `EquipStep`), a death is `Leave`, and every other
statement, failed calls and audits included, stutters.

`RuntimeProofs` proves `LeaseExclusion` and `LeasesAreKept` for any number of sessions, tasks
and attempts and any time to live. `LeaseInv` says that attempt numbers are given out once,
that the number a session will lease under is that of its latest attempt, and that no two
sessions have the same (`Distinct`). So a lease row has one owner, the owner removes its own
row only, and what `acquire_retry_lease` saw in its transaction is still true when it commits.
`DependencyOrder` and `CompletedMeansCommitted` hold with sessions that read old rows and
write them back at any moment: in `CommitInv` every copy of the states of tasks (the store's
rows, each memory, what a call has read, the lists `before` and `done`) calls completed only
what is in the ledger (`Sound`), and since the ledger only grows, a copy stays sound however
old it is. That an executed task is not ready in the store needs more: `CheckpointsAgree` is
proved under `Exclusive` (one session open at a time), because `record_attempt` writes back a
row that another session may have moved on. `RowInv` ties the row a session will write back
to the one in the store.

`RuntimeHistoryProofs` goes on from there, under `Exclusive`: `UnsafeExecutesOnce`,
`CompletionHolds` and `StartsAreJustified`. `HistoryInv` ties the executions of a task to the
rows its attempts left, so that a task that was executed and is not retry-safe is in no
state from which a call takes it up again; `CallInv` says of a call under way which tasks its
lists still hold and what was recorded of them. `runtime_stale` shows `UnsafeExecutesOnce`
without the hypothesis.

`ControlPlaneProofs` proves the six invariants of `control`. A merge rests on
approvals (`SwarmInv`) because the identifier of a gate binds its sidechain and decision;
nothing binds it to the sidechain of the evidence. A rollout is earned, as far as the delta
is the one decided on (`EvolutionInv`), because the report, the experiment and the decision
carry the identifiers of what they were made of, and the observation of a run is complete
whatever the kernel wrote between two of its statements. For `MemoryIsAccountable`, `ListOf` says of the
host's list that its memories were accepted by the trail and not forgotten, and that no two
have the same identifier or age; a recall then inherits it from the places it takes
(`RecalledAreMemories`). For `HotPathIsBounded`, `HotType` keeps the last answer tied to the
request and entry it was made of, and `PercentileIsLeast` shows that the rank that `percentile`
rounds up is the least one that covers its share. Both rest on `Lists`, where filter, take
and a stable sort are defined by the places they take, and on `EveryPlaceIsTaken`: counting
the elements up to each one is a bijection onto 1..n.

`PlanKeepsToTheRequest` and `SessionKeepsToItsProfile` follow one request from the draft to
the graph. `RequestInv` says that what is under way is the draft and what entry, gateway and
compiler make of it; `IntentOfDraft`, that this keeps the capabilities (trimming twice is
trimming once), loses no risk and leaves no secret in the goal; `FromSkills`, `FromTheIntent`
and `FromAProposal`, that every step of a plan is within the intent; `CompiledGraph`, that
ordering a plan and taking what is ready neither adds a task nor loses one, so that what the
profile allowed of the plan it allows of the graph. The order is a recursive function over
the tasks; `PlacesExist` shows that it is defined and `OrderedIsPlaced` what it gives, by
induction written with a set that holds 0 and successors (`UpToN`). That no target is a
secret needs `NoSecretsElsewhere` (no skill and no answer of a model holds a secret word:
the model is given the redacted goal); the session's invariant needs no hypothesis.

`VaultProofs` proves the invariants of `vault_tenant` and its action property.
Review: the identifier of a decision binds its content, so an allowed use has the approvals it
names (`AllowedHasQuorum`), a profile record loads only as it was sealed (`SealInv`), and a
bundle rests on the readiness its profile was sealed with (`BundleInv`) provided no evidence
of a profile or request is named like a readiness decision (`EvidenceIsItsOwn`). Hardening:
`WellKept` says what an unedited record carries, `BasisInv` on which adapters a typed decision
rests. That a set covers every credential is what the lookups say, and they say no more: where
a credential is listed twice, a decision about another makes up the number and is not looked
at. The three properties are about the decisions that are looked at (`Counted`), and need no
hypothesis about the list; `WholeIsReady` is about sets whose credentials are those the set
began with.

`WholeSetsAreReady` is the other direction, for the readiness check as a whole: a set with one
current, verified decision of each kind, each citing an adapter of the set, is never refused,
has no gate missing, and its readiness bundle is built and loads. What was issued at one time
is examined at another, after other parts were verified again, and every field compared must
have been carried along. `SetInv` says where a set comes from: everything in it that was not
edited is a decision the vault issued to the tenant (`FromTheVault`) or one of another tenant,
with one adapter for each piece of evidence. `AuthSays` ... `StorageSays` say what each
verification writes and what held when it did; `Sound` is what follows for a verified decision
of each kind, whichever receipt, adapter and time it was made of (`IssuedIsSound`). An adapter
cited by id is the one that decision was made of, because an id binds its fields, and no other
reference is named like an adapter decision; it is still accepted, because its evidence and its
documents have not expired (`AdaptersAreAccepted`). The hypothesis `SetIsInOrder` names what
the vault does not check when it issues a decision but does when it uses one: that the records
it rests on are no placeholders, that receipts do not pass an adapter's id off as a reference
of their own, that two provider names nothing compares agree, and that the documents are
sealed. TLC evaluates it on the set of `vault_tenant` (`OrderAssumption`), which meets it;
`ClockAssumption` keeps the model's clock below the number that stands for no expiry, and
`RunsAssumption` of the store says that its bound on actions is a number.

Some definitions are written so that they can be reasoned about. `Nth` of a journal and the
functions of `Lists` stand where a library operator is defined by recursion; the assumptions
`NullAssumption`, `DecisionsAssumption`, `ApprovalsAssumption`, `RuntimeGraphsAssumption`,
`MemoryAssumption`, `HotPathAssumption`, `IntakeAssumption`, `PlannerAssumption` and
`PlanningAssumption` say what the types of the code say of the records
(a risk is a number, a flag is a Boolean, an absent value is none of the others).

Model-checked only:

* `ReplayFailsClosed`: that a replay that succeeds has every acknowledged record also after
  torn appends.
* Liveness: `CallReturns`, and `ChildCannotHold`, which is about what the child can do to a
  call in the long run. Liveness under fairness is out of the prover's reach.
* The runs that expect a violation.

## Plan

The order in which the modules were written: the kernel and its policy; the journal lock, the
runtime and the process sandbox; the shared store; the vault; the planes around the kernel
and their composition; the abstract promise of the kernel and its refinement; the proofs, in
the same order. What is left is the replayed journal as the backend of a resumed session.

## Not modelled

* The command line, terminal rendering, schemas and examples: pure input and output around
  the crates that are modelled.
* The migrations of the runtime's own SQLite file.
* Event rows and their cursors, planner records, and the read-only feeds, indexes and views of
  runtime graphs (`moxi-runtime`, `moxi-observability`): no decision of the modelled code
  reads them.
* Checklists, demos and printed summaries of the vault.
* Hashing, which stands as injective identity, and the file reader of the file sandbox.
