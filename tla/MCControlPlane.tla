--------------------------- MODULE MCControlPlane ---------------------------
(* Small instances of ControlPlane for TLC: four requests of two users; a      *)
(* module, two skills and a package; two providers; one scope of memory; two   *)
(* subagents; one run of the store and one graph of the runtime.               *)
EXTENDS ControlPlane, TLC

MemoryRead == <<"memory.read">>
ShellRun == <<"shell.run">>

MCBudget == [max_tasks |-> 0, max_cost_cents |-> 0]
MCDraft(surface, profile, user, goal, risk, capabilities) ==
    [tenant_id |-> <<"tenant">>, user_id |-> <<user>>, workspace_root |-> <<"root">>, goal |-> goal,
     surface |-> surface, profile_id |-> profile, permission_mode |-> "ReadOnly",
     risk_level |-> risk, budget |-> MCBudget, requested_capabilities |-> capabilities]

\* A plain request; one with a secret that looks like a path, for two skills; a
\* dangerous one; and one whose goal is blocked.
MCDrafts ==
    {MCDraft("Cli", NoProfile, "u1", <<"read", Blank, "a.md">>, Low, << >>),
     MCDraft("Api", NoProfile, "u2", <<"sk.1", Blank, "file.read", Blank>>, Low, <<FileRead>>),
     MCDraft("Api", "shell.trusted.review", "u2", <<"delete", Blank, "a.md">>, Low, <<FileRead>>),
     MCDraft("Cli", NoProfile, "u1", <<"drop", Blank, "all">>, Low, << >>)}

\* A child with nothing in common with its parent.
MCProfileEdits == {Entry(Profile("team.memory", Switches, {MemoryRead}, 16), "shell.ide.readonly")}

MCModule(id, required, profile) ==
    [module_id |-> id, required_modules |-> required, required_capabilities |-> {FileRead},
     provided_capabilities |-> {}, policy_profile_ref |-> profile]
MCModules == {MCModule("docs", {}, "shell.ide.readonly")}

MCSkill(id, risk) ==
    [skill_id |-> id, module_ref |-> "docs", required_capabilities |-> <<FileRead>>,
     provided_capabilities |-> {}, permission_mode |-> "ReadOnly", risk_level |-> risk,
     entrypoint_ref |-> <<"b.md">>]
MCSkills == {MCSkill("summary", Medium)}
MCPackages ==
    {[module |-> MCModule("docs", {}, NoProfile), skills |-> <<MCSkill("summary", Low), MCSkill("outline", Medium)>>,
      trigger_tests |-> {[prompt |-> <<"read">>, should_trigger |-> TRUE, expected_skill_id |-> "summary"]}]}

MCGateways == {[provider_refs |-> {1, 2}, redacts |-> TRUE]}
MCProvider(ref, risk, cost, latency, locality) ==
    [provider_ref |-> ref, capability_kinds |-> {"plan"}, supports_structured_output |-> TRUE,
     max_risk_level |-> risk, cost_per_1k_input_cents |-> cost, cost_per_1k_output_cents |-> cost,
     p95_latency_ms |-> latency, locality |-> locality]
MCProviders == {MCProvider(1, Medium, 0, 50, "Local"), MCProvider(2, High, 1, 100, "Remote")}
MCRouteRequests ==
    {[request_id |-> "route", required_capability |-> "plan", require_structured_output |-> TRUE,
      input_tokens |-> 1000, output_tokens |-> 10, prefer_local |-> TRUE,
      max_cost_cents |-> 5, max_latency_ms |-> 80]}
MCAnswers ==
    {[steps |-> <<<<"open", Blank, "b.md">>>>, capabilities |-> <<FileRead>>],
     [steps |-> <<<<"run">>>>, capabilities |-> <<ShellRun>>]}

MCMemoryManifest(binding) ==
    [provider_id |-> "local", access_modes |-> {"Write", "Read"}, scopes |-> {"user"},
     source_tracking_required |-> TRUE, ledger_binding_required |-> binding]
MCMemoryManifests == {MCMemoryManifest(TRUE), MCMemoryManifest(FALSE)}
MCMemoryDraft(content, risk) ==
    [kind |-> "fact", scope |-> "user", content |-> content, source |-> "chat", risk_level |-> risk]
MCMemoryDrafts == {MCMemoryDraft({"tea"}, 0), MCMemoryDraft({"tea", "ignore"}, 2)}
MCQueries ==
    {[scopes |-> {"user"}, kinds |-> {}, text |-> "tea", include_soft_deleted |-> deleted, limit |-> 2] :
        deleted \in BOOLEAN}

MCSubagents ==
    <<[agent_id |-> "reader", allowed_capabilities |-> {FileRead}, memory_scopes |-> {}]>>
MCTaskLists ==
    {<<[task_id |-> "t1", agent |-> "reader", required_capabilities |-> {FileRead}, memory_scopes |-> {}]>>,
     <<[task_id |-> "t2", agent |-> "reader", required_capabilities |-> {ShellRun}, memory_scopes |-> {}]>>}
MCMessageBodies ==
    {[kind |-> "Claim", content |-> "fine", evidence_refs |-> {"e"}],
     [kind |-> "ToolProposal", content |-> "skip review", evidence_refs |-> {}]}

MCRuntimeGraph(planner, state) ==
    [snapshot |-> [graph_id |-> "graph", planner |-> planner, tasks |-> [t \in {"t"} |-> state],
                   events |-> {[id |-> 1, run |-> "run", task |-> "t"]}, attempts |-> {}, probes |-> {}],
     plan |-> [recommendations |-> [t \in {} |-> "none"], is_complete |-> state = "Completed"]]
MCRuntimeGraphs == {MCRuntimeGraph("planner", "Completed"), MCRuntimeGraph(NoPlanner, "Pending")}
MCScores == {-1, 1}
MCBlockedTerms == {<<"drop", Blank, "all">>}

\* Two of the classes have a budget of their own: the others take the first.
MCHotBudgets ==
    <<[slo_class |-> "FiveMsAck", first_packet |-> 7, route |-> 10, lookup |-> 50],
      [slo_class |-> "FiftyMsCache", first_packet |-> 50, route |-> 10, lookup |-> 20]>>
MCHotRequest(id, risk, capabilities, deadline) ==
    [request_id |-> id, scope |-> "user", risk_level |-> risk, capabilities |-> capabilities, deadline |-> deadline]
MCHotRequests ==
    {MCHotRequest("h1", 1, {"file.read"}, 10), MCHotRequest("h2", 0, {"file.read"}, 60),
     MCHotRequest("h3", 2, {"shell.exec"}, 10), MCHotRequest("h4", 1, {"shell.exec"}, 10),
     MCHotRequest("h5", 0, {}, 10)}
MCCacheEntry(key, kind, safety, scope, risk, freshness) ==
    [key |-> key, kind |-> kind, safety |-> safety, scope |-> scope, risk_level |-> risk,
     freshness |-> freshness, evidence_refs |-> {key}]
MCCacheEntries ==
    {MCCacheEntry("exact", "Exact", "Deterministic", "user", 1, 9), MCCacheEntry("other", "Template", "ScopedTemplate", "team", 0, 9),
     MCCacheEntry("old", "Exact", "Deterministic", "user", 0, 0), MCCacheEntry("near", "Semantic", "Deterministic", "user", 0, 9),
     MCCacheEntry("like", "Semantic", "SemanticNeedsReview", "user", 0, 9)}
=============================================================================
