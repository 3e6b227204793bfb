---------------------------- MODULE SharedStore ----------------------------
(***************************************************************************)
(* Kernel processes on one database: each opens it, registers capability   *)
(* contracts and executors, appends the rows of approved actions and their *)
(* events, and replays the audit of the whole ledger while others write.   *)
(* Every read and every write is a statement of its own; a process may die *)
(* and a call may fail before any of them.  What Kernel says of one run is *)
(* not repeated: a commit is the rows of one action in their order.        *)
(*                                                                         *)
(* Nothing in the code keeps two processes from writing at once: two may   *)
(* register different contracts under one id, and two may read the same    *)
(* last hash.  The history variables tell which calls were overtaken so.   *)
(***************************************************************************)
EXTENDS StoreSchema, SequencesExt

CONSTANTS
    Contracts,      \* the contracts processes offer: [capability, body]
    Manifests,      \* the executors they offer: [executor, capability, contract]
    Flaws,          \* what an event its caller built may get wrong, each a set of flaws
    MaxRuns,        \* bound: actions begun
    MaxAudits       \* bound: audits begun

ASSUME RunsAssumption == MaxRuns \in Nat

\* An event names another delta than its ticket does, or is younger than its grant.
ASSUME FlawsAssumption == Flaws \subseteq SUBSET {"delta", "late"}

VARIABLES
    contracts,      \* table capability_contracts, a set of contracts
    manifests,      \* table executor_manifests, a set of manifests
    rows,           \* policy_decisions, approval_grants, execution_tickets, ...
    ledger,         \* table ledger_events in rowid order
    registry,       \* the contracts each process has in memory
    executors,      \* the executors each process has in memory
    call,           \* the call a process is in, or Idle
    overtaken,      \* history: offered while another of its id was recorded
    overlapped,     \* history: runs whose last hash was read before another event came
    begun, audits

tables == <<contracts, manifests, rows, ledger>>
memory == <<registry, executors>>
history == <<overtaken, overlapped>>
bounds == <<begun, audits>>
vars == <<schema_vars, tables, memory, call, history, bounds>>

Idle == [op |-> "idle"]

\* a verify that forgets the proof
Kinds_NoProof == <<"policy_decision", "approval_grant", "execution_ticket", "sandbox_result">>

\* The rows an approved action leaves before its event, in order.
Kinds == <<"policy_decision", "approval_grant", "execution_ticket", "sandbox_result", "proof">>

\* What the audit reads of an event, in order.
Checks == <<"execution_ticket", "capability", "executor", "policy_decision",
            "approval_grant", "sandbox_result", "proof">>

Init ==
    /\ OpenInit
    /\ contracts = {} /\ manifests = {} /\ rows = {} /\ ledger = << >>
    /\ registry = [p \in Processes |-> {}]
    /\ executors = [p \in Processes |-> {}]
    /\ call = [p \in Processes |-> Idle]
    /\ overtaken = {} /\ overlapped = {}
    /\ begun = 0 /\ audits = 0

OpenStep(p) == Open(p) /\ UNCHANGED <<tables, memory, call, history, bounds>>

-----------------------------------------------------------------------------
\* Helpers.

Writing == {"capability", "executor", "commit"}
MayCall(p) == opener[p] = Opened /\ call[p] = Idle

Goto(p, c) == call' = [call EXCEPT ![p] = c]
In(p, op, stage) == call[p].op = op /\ call[p].stage = stage

ContractOf(cs, capability) == {c \in cs : c.capability = capability}
ExecutorOf(ms, capability) == {m \in ms : m.capability = capability}
RecordedAs(ms, executor) == {m \in ms : m.executor = executor}

\* What other processes have between their two lookups when p records something.
Offers(p, op) == {call[q].it : q \in {x \in Processes \ {p} : In(x, op, "check")}}

\* validate_executor_manifest: the manifest names this very contract.
Fits(m, c) == m.capability = c.capability /\ m.contract = c

-----------------------------------------------------------------------------
\* register_capability: a contract in memory is immutable; one that is recorded
\* must be the same; an executor that is there already must fit.
\* the record is not compared
BeginCapability_NoRecord(p, c) ==
    /\ MayCall(p)
    /\ ContractOf(registry[p], c.capability) = {}
    /\ \A m \in ExecutorOf(executors[p], c.capability) : Fits(m, c)
    /\ Goto(p, [op |-> "capability", stage |-> "check", it |-> c])
    /\ UNCHANGED <<schema_vars, tables, memory, history, bounds>>

BeginCapability(p, c) ==
    /\ MayCall(p)
    /\ ContractOf(registry[p], c.capability) = {}
    /\ ContractOf(contracts, c.capability) \subseteq {c}
    /\ \A m \in ExecutorOf(executors[p], c.capability) : Fits(m, c)
    /\ Goto(p, [op |-> "capability", stage |-> "check", it |-> c])
    /\ UNCHANGED <<schema_vars, tables, memory, history, bounds>>

Register(p, c) == registry' = [registry EXCEPT ![p] = @ \union {c}] /\ Goto(p, Idle)

\* The second lookup only asks whether there is a record.
CheckCapability(p) ==
    /\ In(p, "capability", "check")
    /\ LET c == call[p].it
       IN IF ContractOf(contracts, c.capability) = {}
          THEN Goto(p, [call[p] EXCEPT !.stage = "insert"]) /\ UNCHANGED registry
          ELSE Register(p, c)
    /\ UNCHANGED <<schema_vars, tables, executors, history, bounds>>

Overtaken(offers) == overtaken' = overtaken \union offers

\* INSERT OR REPLACE: the last one wins
RecordCapability_Replaces(p) ==
    /\ In(p, "capability", "insert")
    /\ LET c == call[p].it
       IN /\ contracts' = (contracts \ ContractOf(contracts, c.capability)) \union {c}
          /\ Register(p, c)
    /\ UNCHANGED <<schema_vars, manifests, rows, ledger, executors, history, bounds>>

\* record_capability_contract: the capability id is the primary key.
RecordCapability(p) ==
    /\ In(p, "capability", "insert")
    /\ LET c == call[p].it
       IN IF ContractOf(contracts, c.capability) = {}
          THEN /\ contracts' = contracts \union {c}
               /\ Overtaken(ContractOf(Offers(p, "capability"), c.capability) \ {c})
               /\ Register(p, c)
          ELSE Goto(p, Idle) /\ UNCHANGED <<contracts, registry, overtaken>>
    /\ UNCHANGED <<schema_vars, manifests, rows, ledger, executors, overlapped, bounds>>

\* register_executor: bound to the contract when that is in memory; one executor
\* per capability in memory, one manifest per executor id in the record.
BeginExecutor(p, m) ==
    /\ MayCall(p)
    /\ \A c \in ContractOf(registry[p], m.capability) : Fits(m, c)
    /\ ExecutorOf(executors[p], m.capability) \subseteq {m}
    /\ RecordedAs(manifests, m.executor) \subseteq {m}
    /\ Goto(p, [op |-> "executor", stage |-> "check", it |-> m])
    /\ UNCHANGED <<schema_vars, tables, memory, history, bounds>>

Install(p, m) ==
    /\ executors' = [executors EXCEPT ![p] = (@ \ ExecutorOf(@, m.capability)) \union {m}]
    /\ Goto(p, Idle)

CheckExecutor(p) ==
    /\ In(p, "executor", "check")
    /\ LET m == call[p].it
       IN IF RecordedAs(manifests, m.executor) = {}
          THEN Goto(p, [call[p] EXCEPT !.stage = "insert"]) /\ UNCHANGED executors
          ELSE Install(p, m)
    /\ UNCHANGED <<schema_vars, tables, registry, history, bounds>>

RecordExecutor(p) ==
    /\ In(p, "executor", "insert")
    /\ LET m == call[p].it
       IN IF RecordedAs(manifests, m.executor) = {}
          THEN /\ manifests' = manifests \union {m}
               /\ Overtaken(RecordedAs(Offers(p, "executor"), m.executor) \ {m})
               /\ Install(p, m)
          ELSE Goto(p, Idle) /\ UNCHANGED <<manifests, executors, overtaken>>
    /\ UNCHANGED <<schema_vars, contracts, rows, ledger, registry, overlapped, bounds>>

-----------------------------------------------------------------------------
\* The rows of one approved action and its event.
BeginCommit(p) ==
    /\ MayCall(p)
    /\ begun < MaxRuns
    /\ \E c \in registry[p] : \E m \in ExecutorOf(executors[p], c.capability) :
          Goto(p, [op |-> "commit", stage |-> 1, run |-> begun + 1, contract |-> c,
                   manifest |-> m, previous |-> << >>])
    /\ begun' = begun + 1
    /\ UNCHANGED <<schema_vars, tables, memory, history, audits>>

Row(kind, run, c, m) == [kind |-> kind, run |-> run, contract |-> c, manifest |-> m]

RecordRow(p) ==
    /\ call[p].op = "commit" /\ call[p].stage \in DOMAIN Kinds
    /\ rows' = rows \union {Row(Kinds[call[p].stage], call[p].run, call[p].contract,
                                call[p].manifest)}
    /\ Goto(p, [call[p] EXCEPT !.stage = @ + 1])
    /\ UNCHANGED <<schema_vars, contracts, manifests, ledger, memory, history, bounds>>

\* An event's hash covers its content and the hash before it: the runs so far.
Hash(e) == Append(e.previous, e.run)

\* the latest hash of the run, as if each run had a chain of its own
LatestHash_OfRun(run) ==
    LET mine == SelectSeq(ledger, LAMBDA e : e.run = run)
    IN IF mine = << >> THEN << >> ELSE Hash(Last(mine))

LatestHash(run) == IF ledger = << >> THEN << >> ELSE Hash(Last(ledger))

\* append_ledger_event reads the latest hash ...
ReadLatestHash(p) ==
    /\ call[p].op = "commit" /\ call[p].stage = Len(Kinds) + 1
    /\ Goto(p, [call[p] EXCEPT !.stage = @ + 1, !.previous = LatestHash(call[p].run)])
    /\ UNCHANGED <<schema_vars, tables, memory, history, bounds>>

Inserting(p) == call[p].op = "commit" /\ call[p].stage = Len(Kinds) + 2

\* ... and inserts the event with it.  The caller has built the event: what delta it
\* names and whether the grant was over by its timestamp is nothing commit looks at.
InsertEvent(p) ==
    /\ Inserting(p)
    /\ \E flaws \in Flaws :
          ledger' = Append(ledger, [run |-> call[p].run, contract |-> call[p].contract,
                                    manifest |-> call[p].manifest,
                                    previous |-> call[p].previous, flaws |-> flaws])
    /\ overlapped' = overlapped \union {call[q].run : q \in {x \in Processes \ {p} : Inserting(x)}}
    /\ Goto(p, Idle)
    /\ UNCHANGED <<schema_vars, contracts, manifests, rows, memory, overtaken, bounds>>

-----------------------------------------------------------------------------
\* replay_ledger_audit.

\* validate_ledger_hash_chain
ChainHolds(events) ==
    \A i \in DOMAIN events :
        events[i].previous = IF i = 1 THEN << >> ELSE Hash(events[i - 1])

\* The first statement reads the whole table and checks the chain ...
BeginAudit(p) ==
    /\ opener[p] = Opened /\ call[p] = Idle
    /\ audits < MaxAudits
    /\ audits' = audits + 1
    /\ Goto(p, [op |-> IF ChainHolds(ledger) THEN "audit" ELSE "accuses", stage |-> 0,
                events |-> << >>])
    /\ UNCHANGED <<schema_vars, tables, memory, history, begun>>

\* ... the second one reads the events again, perhaps more of them by now ...
ReadEvents(p) ==
    /\ In(p, "audit", 0)
    /\ Goto(p, IF ledger = << >> THEN Idle
               ELSE [call[p] EXCEPT !.stage = 1, !.events = ledger])
    /\ UNCHANGED <<schema_vars, tables, memory, history, bounds>>

\* ... and each event is held against its rows and the recorded authority, field
\* by field: a row answers for an event when it is about the same run, contract
\* and manifest; ticket, decision and grant also when it is about the same delta.
HasRow(kind, e) == Row(kind, e.run, e.contract, e.manifest) \in rows

SameDelta(e) == "delta" \notin e.flaws

TicketConfirms(e) == HasRow("execution_ticket", e) /\ SameDelta(e)
CapabilityConfirms(e) == ContractOf(contracts, e.contract.capability) = {e.contract}
ExecutorConfirms(e) ==
    /\ RecordedAs(manifests, e.manifest.executor) = {e.manifest}
    /\ Fits(e.manifest, e.contract)
PolicyConfirms(e) == HasRow("policy_decision", e) /\ SameDelta(e)
\* approval_grant_matches_event: the grant must also cover the event's timestamp.
GrantConfirms(e) == HasRow("approval_grant", e) /\ SameDelta(e) /\ "late" \notin e.flaws
ResultConfirms(e) == HasRow("sandbox_result", e)
ProofConfirms(e) == HasRow("proof", e)

Confirmed(check, e) ==
    CASE check = "execution_ticket" -> TicketConfirms(e)
      [] check = "capability" -> CapabilityConfirms(e)
      [] check = "executor" -> ExecutorConfirms(e)
      [] check = "policy_decision" -> PolicyConfirms(e)
      [] check = "approval_grant" -> GrantConfirms(e)
      [] check = "sandbox_result" -> ResultConfirms(e)
      [] check = "proof" -> ProofConfirms(e)

VerifyEvent(p) ==
    /\ call[p].op = "audit" /\ call[p].stage \in DOMAIN Checks
    /\ LET audit == call[p]
           next == (audit.stage % Len(Checks)) + 1
           left == IF next = 1 THEN Tail(audit.events) ELSE audit.events
       IN Goto(p, IF ~Confirmed(Checks[audit.stage], Head(audit.events))
                  THEN [audit EXCEPT !.op = "accuses"]
                  ELSE IF left = << >> THEN Idle
                  ELSE [audit EXCEPT !.stage = next, !.events = left])
    /\ UNCHANGED <<schema_vars, tables, memory, history, bounds>>

-----------------------------------------------------------------------------
\* The call fails: the database is locked, or an executor failed.
Fail(p) ==
    /\ call[p].op \in Writing \union {"audit"}
    /\ Goto(p, Idle)
    /\ UNCHANGED <<schema_vars, tables, memory, history, bounds>>

\* The process ends; what it had in memory is lost.
Die(p) ==
    /\ opener[p] = Opened
    /\ opener' = [opener EXCEPT ![p] = Closed]
    /\ registry' = [registry EXCEPT ![p] = {}]
    /\ executors' = [executors EXCEPT ![p] = {}]
    /\ Goto(p, Idle)
    /\ UNCHANGED <<schema, version, tables, history, bounds>>

Next ==
    \E p \in Processes :
        \/ OpenStep(p)
        \/ \E c \in Contracts : BeginCapability(p, c)
        \/ CheckCapability(p) \/ RecordCapability(p)
        \/ \E m \in Manifests : BeginExecutor(p, m)
        \/ CheckExecutor(p) \/ RecordExecutor(p)
        \/ BeginCommit(p) \/ RecordRow(p) \/ ReadLatestHash(p) \/ InsertEvent(p)
        \/ BeginAudit(p) \/ ReadEvents(p) \/ VerifyEvent(p)
        \/ Fail(p) \/ Die(p)

Spec == Init /\ [][Next]_vars

-----------------------------------------------------------------------------
\* A process works with the contracts and manifests that are recorded (README.md:581),
\* or with one that it offered while another process recorded another of the same id:
\* the second lookup only asks whether there is a record.  Whichever was registered
\* first, and whatever an earlier process recorded, the executor is made for that very
\* contract.
RegistryIsRecorded ==
    \A p \in Processes :
        /\ registry[p] \subseteq contracts \union overtaken
        /\ executors[p] \subseteq manifests \union overtaken
        /\ \A c \in registry[p] : \A m \in ExecutorOf(executors[p], c.capability) : Fits(m, c)

\* What makes the audit refuse an event, other than its rows being gone: it names
\* another delta or is younger than its grant, its last hash was read while another
\* event was on its way, or its process works with what another had overtaken.
Faulty(e) ==
    \/ e.flaws # {}
    \/ e.run \in overlapped
    \/ e.contract \in overtaken
    \/ e.manifest \in overtaken

\* The audit accuses a ledger that kernels wrote only when it has a faulty event; not
\* because it runs while others write, read the events twice, or because some died or
\* failed anywhere.
AuditAccusesTheFaulty ==
    (\E p \in Processes : call[p].op = "accuses") => \E i \in DOMAIN ledger : Faulty(ledger[i])

-----------------------------------------------------------------------------
\* The promise of the kernels, read off the tables: an action is authorised when
\* all its rows are there, reported when its event is, and sealed by the last hash.
Action(row) == [run |-> row.run, contract |-> row.contract, manifest |-> row.manifest]

Proven == {row \in rows : row.kind = Last(Kinds)}

Authorised ==
    {Action(row) : row \in {x \in Proven : \A i \in DOMAIN Kinds : HasRow(Kinds[i], x)}}

Reported == [i \in DOMAIN ledger |-> Action(ledger[i])]

Seals == [i \in DOMAIN ledger |-> Hash(ledger[i])]

Promise == INSTANCE Trail WITH
    Runs <- 1..MaxRuns, authorised <- Authorised, trail <- Reported, seals <- Seals

\* The processes on one database behave like the trail, whatever each of their
\* statements meets and wherever they fail or die: nothing is held that is not recorded
\* or was overtaken, no record is changed, nothing is reported that was not authorised,
\* no run twice, and a hash covers its event and all that the hash it read covers.
ImplementsTrail == Promise!Spec
=============================================================================
