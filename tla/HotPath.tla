------------------------------ MODULE HotPath -------------------------------
(***************************************************************************)
(* The first-packet controller (moxi-hotpath): what is answered at once,   *)
(* from the cache or with a path to follow, the plan to degrade to when    *)
(* the answer is late, and the latencies measured of it.  The caller       *)
(* chooses the cache entry it presents, and keeps the samples.             *)
(***************************************************************************)
EXTENDS Lists, SequencesExt

CONSTANTS
    HotBudgets,      \* sequence of [slo_class, first_packet, route, lookup]
    HotRequests,     \* [request_id, scope, risk_level, capabilities, deadline]
    CacheEntries,    \* [key, kind, safety, scope, risk_level, freshness, evidence_refs]
    Latencies,       \* the first-packet times that are measured
    MaxSamples       \* bound

ASSUME HotPathAssumption ==
    /\ HotBudgets \in Seq(Range(HotBudgets)) /\ HotBudgets # << >>
    /\ \A budget \in Range(HotBudgets) :
          budget.first_packet \in Nat /\ budget.route \in Nat /\ budget.lookup \in Nat
    /\ \A request \in HotRequests : request.risk_level \in Nat
    /\ \A entry \in CacheEntries : entry.risk_level \in Nat
    /\ Latencies \subseteq Nat

VARIABLES
    hot_request, hot_entry,   \* what the last decision was asked about
    hot_decision, degrade_plan, hot_fact,
    samples,         \* the latency samples the host kept
    snapshot         \* the last latency snapshot, with the samples it was made of

hotVars == <<hot_request, hot_entry, hot_decision, degrade_plan, hot_fact, samples, snapshot>>

Absent == << >>

HotPathInit ==
    /\ hot_request = Absent /\ hot_entry = Absent
    /\ hot_decision = Absent /\ degrade_plan = Absent /\ hot_fact = Absent
    /\ samples = << >>
    /\ snapshot = Absent

-----------------------------------------------------------------------------
\* The budget of a class, or the first there is.
BudgetFor(class) ==
    LET own == Picked(HotBudgets, {i \in DOMAIN HotBudgets : HotBudgets[i].slo_class = class})
    IN  Head(own \o HotBudgets)

Smaller(a, b) == IF a <= b THEN a ELSE b

HitKinds == {"ExactCacheHit", "TemplateCacheHit"}

ExpectedFirstPacket(kind, budget) ==
    CASE kind \in {"Ack", "EarlyDeny"} -> Smaller(budget.first_packet, 5)
      [] kind = "Route" -> Smaller(budget.route, budget.first_packet)
      [] kind \in HitKinds -> Smaller(budget.lookup, budget.first_packet)
      [] OTHER -> budget.first_packet

HotDecision(request, kind, decision, class, key, refs) ==
    [decision_id |-> <<"hotpath_decision", request.request_id, kind, decision, class, key>>,
     request_id |-> request.request_id, kind |-> kind, decision |-> decision, slo_class |-> class,
     expected |-> ExpectedFirstPacket(kind, BudgetFor(class)), budget |-> BudgetFor(class).first_packet,
     selected_cache_key |-> key, evidence_refs |-> refs]

Unsafe == {"network.write", "shell.exec"}

\* validate_cache_entry: another scope, no freshness, or too much risk.
EntryFits(request, entry) ==
    /\ entry.scope = request.scope
    /\ entry.freshness # 0
    /\ entry.risk_level <= request.risk_level /\ entry.risk_level < 2

KindOf(entry) ==
    CASE entry.kind = "Exact" -> "ExactCacheHit"
      [] entry.kind = "Template" -> "TemplateCacheHit"
      [] OTHER -> "DeferToTaskPath"

IsShortcut(request) ==
    \/ request.risk_level >= 2
    \/ request.capabilities = {}
    \/ request.capabilities \cap Unsafe # {}

Answer(request, kind, decision, class) ==
    HotDecision(request, kind, decision, class, Absent, {request.request_id})

\* What is decided without a look at the cache.
ShortcutAnswer(request) ==
    IF request.risk_level >= 2
    THEN Answer(request, "DeferToTrustedExecution", "RequireApproval", "TrustedExecutionPath")
    ELSE IF request.capabilities = {} THEN Answer(request, "Ack", "Allow", "FiveMsAck")
    ELSE Answer(request, "EarlyDeny", "Deny", "FiveMsAck")

Uncached(request) ==
    IF request.deadline <= BudgetFor("TenMsRoute").route
    THEN Answer(request, "Route", "Allow", "TenMsRoute")
    ELSE Answer(request, "DeferToTaskPath", "Allow", "TaskPath")

\* decide, when it does not fail: an entry that does not fit fails it, unless the
\* cache is not asked; one that needs review is passed over.
Decided(request, entry) ==
    IF IsShortcut(request) THEN ShortcutAnswer(request)
    ELSE IF entry = Absent \/ entry.safety = "SemanticNeedsReview" THEN Uncached(request)
    ELSE HotDecision(request, KindOf(entry), "Allow", "FiftyMsCache", entry.key, entry.evidence_refs)

CanDecide(request, entry) ==
    ~IsShortcut(request) /\ entry # Absent => EntryFits(request, entry)

ActionsFor(kind) ==
    CASE kind \in HitKinds -> <<"ReturnCachedStatus", "SwitchToTaskPath">>
      [] kind = "EarlyDeny" -> <<"Deny">>
      [] kind = "DeferToTrustedExecution" -> <<"ReturnAck", "SwitchToTrustedExecution">>
      [] OTHER -> <<"ReturnAck", "SwitchToTaskPath">>

DegradePlan(request, decision) ==
    [plan_id |-> <<"degrade_plan", request.request_id, decision.decision_id>>,
     actions |-> ActionsFor(decision.kind), evidence_refs |-> decision.evidence_refs]

FactOf(decision) ==
    [decision_id |-> decision.decision_id, kind |-> decision.kind,
     cache_hit |-> decision.kind \in HitKinds, evidence_refs |-> decision.evidence_refs]

-----------------------------------------------------------------------------
\* The latencies of a class in ascending order.
Measured(class) ==
    LET own == {i \in DOMAIN samples : samples[i].slo_class = class}
        times == [i \in DOMAIN samples |-> samples[i].first_packet]
    IN  InOrder(times, own, ByKey(own, times))

Percentile_RoundsDown(values, percent) ==
    LET rank == (Len(values) * percent) \div 100
    IN  values[IF rank = 0 THEN 1 ELSE rank]

\* The rank is rounded up, and at least one.
Percentile(values, percent) ==
    LET rank == (Len(values) * percent + 99) \div 100
    IN  values[IF rank = 0 THEN 1 ELSE rank]

SnapshotOf(class) ==
    LET values == Measured(class)
    IN  [slo_class |-> class, values |-> values, sample_count |-> Len(values),
         at |-> [percent \in {50, 95, 99} |-> Percentile(values, percent)],
         max_first_packet |-> Last(values)]

-----------------------------------------------------------------------------
DecideHot(request, entry) ==
    /\ CanDecide(request, entry)
    /\ hot_request' = request /\ hot_entry' = entry
    /\ hot_decision' = Decided(request, entry)
    /\ degrade_plan' = Absent /\ hot_fact' = Absent
    /\ UNCHANGED <<samples, snapshot>>

\* A request can be degraded and reported as often as the caller likes.
Degrade ==
    /\ hot_decision # Absent
    /\ degrade_plan' = DegradePlan(hot_request, hot_decision)
    /\ hot_fact' = FactOf(hot_decision)
    /\ UNCHANGED <<hot_request, hot_entry, hot_decision, samples, snapshot>>

\* The host measures the first packet of a decision.
Measure(first_packet) ==
    /\ hot_decision # Absent
    /\ Len(samples) < MaxSamples
    /\ samples' = Append(samples, [slo_class |-> hot_decision.slo_class, first_packet |-> first_packet])
    /\ UNCHANGED <<hot_request, hot_entry, hot_decision, degrade_plan, hot_fact, snapshot>>

TakeSnapshot(class) ==
    /\ Measured(class) # << >>
    /\ snapshot' = SnapshotOf(class)
    /\ UNCHANGED <<hot_request, hot_entry, hot_decision, degrade_plan, hot_fact, samples>>

HotPathNext ==
    \/ \E request \in HotRequests, entry \in CacheEntries \cup {Absent} : DecideHot(request, entry)
    \/ Degrade
    \/ \E first_packet \in Latencies : Measure(first_packet)
    \/ \E class \in {s.slo_class : s \in ToSet(samples)} : TakeSnapshot(class)

-----------------------------------------------------------------------------
\* A fast answer never decides what it should not: a request of high risk goes
\* to the trusted path whatever else is said of it, and so does its degrade
\* plan; one that names an unsafe capability is denied and degrades to nothing
\* else; what a fact counts as a hit was served from an entry of the request's
\* own scope, of no more risk, and not a semantic one; and no answer is
\* expected later than the budget it was given.
ShortcutsAreSafe ==
    hot_decision # Absent =>
        /\ hot_decision.expected <= hot_decision.budget
        /\ hot_request.risk_level >= 2 =>
              /\ hot_decision.decision = "RequireApproval"
              /\ degrade_plan # Absent => Last(degrade_plan.actions) = "SwitchToTrustedExecution"
        /\ hot_request.risk_level < 2 /\ hot_request.capabilities \cap Unsafe # {} =>
              /\ hot_decision.decision = "Deny"
              /\ degrade_plan # Absent => degrade_plan.actions = <<"Deny">>
        /\ hot_fact # Absent /\ hot_fact.cache_hit =>
              /\ hot_entry # Absent /\ hot_decision.selected_cache_key = hot_entry.key
              /\ hot_entry.kind # "Semantic" /\ hot_entry.scope = hot_request.scope
              /\ hot_entry.risk_level <= hot_request.risk_level

\* The p-th percentile of a snapshot is the least measured latency that p of a
\* hundred measurements of its class did not exceed.
SnapshotIsMeasured ==
    snapshot # Absent =>
        \A percent \in DOMAIN snapshot.at :
            LET within(v) == {i \in DOMAIN snapshot.values : snapshot.values[i] <= v}
                enough == {v \in ToSet(snapshot.values) :
                              Cardinality(within(v)) * 100 >= percent * Len(snapshot.values)}
            IN  snapshot.at[percent] \in enough /\ \A v \in enough : snapshot.at[percent] <= v

\* What the first packet says is safe, and what is reported of it was measured.
HotPathIsBounded == ShortcutsAreSafe /\ SnapshotIsMeasured
=============================================================================
