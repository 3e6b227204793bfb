------------------------------ MODULE Planning ------------------------------
(***************************************************************************)
(* From a request to a task graph: a shell submits it under a profile of   *)
(* the registry, the gateway admits it, the compiler makes it an intent, a *)
(* runtime session plans it from the skills it has loaded, from the intent *)
(* alone or from what a model proposes, and compiles the plan under its    *)
(* profile.  In between, the registries are edited, packages installed and *)
(* the session reconfigured.  The host calls each step; one request is     *)
(* under way at a time.                                                    *)
(***************************************************************************)
EXTENDS Planner, ModelRouting

CONSTANTS
    Drafts,           \* what the shells submit
    ProfileEdits,     \* profile manifests that are inserted
    Modules, Skills, Packages,
    Gateways,         \* manifests of the model gateway
    Providers, RouteRequests,
    Answers,          \* what a model answers: steps and capabilities
    MaxSkills         \* bound: skills a session holds

\* The skills a session can come to hold.
SkillsOffered == Skills \cup UNION {ToSet(package.skills) : package \in Packages}

\* The types of the code: names and goals are texts, a risk is a level, and
\* what a manifest, a package or an answer lists is a list.
ASSUME PlanningAssumption ==
    /\ \A draft \in Drafts : /\ draft.goal \in Texts
                             /\ draft.requested_capabilities \in Seq(Texts)
                             /\ draft.risk_level \in RiskLevels
    /\ \A package \in Packages : package.skills \in Seq(ToSet(package.skills))
    /\ \A skill \in SkillsOffered : skill.entrypoint_ref \in Texts /\ skill.risk_level \in RiskLevels
    /\ \A answer \in Answers : answer.steps \in Seq(Texts)

VARIABLES
    profiles,         \* RuntimeProfileRegistry of the host
    manifests,        \* RuntimeManifestRegistry of the host
    request_counts,   \* of the gateway
    request,          \* the request under way and how far it is
    proposal,         \* the model's proposal for it
    session,          \* profile, skills and running-task policy
    graph             \* the last graph, with the request and the profile it was made for

registries == <<profiles, manifests>>
planningVars == <<registries, request_counts, request, proposal, session, graph>>

NoRequest == [stage |-> "none"]
NoProposal == [kind |-> "none"]
NoGraph == [tasks |-> << >>]

NewSession == [profile |-> RuntimeDefault, skills |-> << >>, running_task_policy |-> "RequireInspection"]

PlanningInit ==
    /\ profiles \in {NewRegistry, FoldLeft(Insert, NewRegistry, StandardPack)}
    /\ manifests = NoManifests
    /\ request_counts = << >>
    /\ request = NoRequest
    /\ proposal = NoProposal
    /\ session = NewSession
    /\ graph = NoGraph

-----------------------------------------------------------------------------
\* The registries.

InsertProfile(entry) ==
    /\ ~Contains(profiles, entry)
    /\ profiles' = Insert(profiles, entry)
    /\ UNCHANGED <<manifests, request_counts, request, proposal, session, graph>>

RegisterModule(module) ==
    /\ ~Contains(manifests.modules, module)
    /\ manifests' = WithModule(manifests, module)
    /\ UNCHANGED <<profiles, request_counts, request, proposal, session, graph>>

RegisterSkill(skill) ==
    /\ SkillIsBound(manifests, skill)
    /\ ~Contains(manifests.skills, skill)
    /\ manifests' = WithSkill(manifests, skill)
    /\ UNCHANGED <<profiles, request_counts, request, proposal, session, graph>>

\* A package replaces the registry of the host by its own.
InstallPackage(package) ==
    /\ PackageIsValid(package)
    /\ manifests' = PackageManifests(package)
    /\ ValidWithProfiles(manifests', profiles)
    /\ UNCHANGED <<profiles, request_counts, request, proposal, session, graph>>

-----------------------------------------------------------------------------
\* The request.

\* admit_shell_request
Submit(draft) ==
    LET profile == Resolve(profiles, RequestedProfile(draft))
    IN  /\ request.stage = "none"
        /\ profile # Unresolved
        /\ ShellAccepts(draft, profile)
        /\ EntryIsWhole(draft)
        /\ request' = [stage |-> "normalized", draft |-> draft, profile |-> profile,
                       entry |-> Normalized(draft)]
        /\ UNCHANGED <<registries, request_counts, proposal, session, graph>>

CountOf(counts, principal) == IF principal \in DOMAIN counts THEN counts[principal] ELSE 0

WithCount(counts, principal, n) ==
    [p \in DOMAIN counts \cup {principal} |-> IF p = principal THEN n ELSE counts[p]]

\* Gateway::admit charges the principal before it looks for blocked terms, and
\* whatever the answer is.
Admit ==
    LET entry == request.entry
        principal == Principal(entry)
        count == CountOf(request_counts, principal)
    IN  /\ request.stage = "normalized"
        /\ request_counts' = WithCount(request_counts, principal, Charged(count))
        /\ \/ /\ Reasons(entry, count) = {}
              /\ request' = [request EXCEPT !.stage = "trusted", !.entry = Trusted(entry)]
           \/ /\ Reasons(entry, count) # {}
              /\ request' = NoRequest
        /\ UNCHANGED <<registries, proposal, session, graph>>

Compile ==
    /\ request.stage = "trusted"
    /\ CanCompile(request.entry)
    /\ request' = [stage |-> "compiled", draft |-> request.draft, profile |-> request.profile,
                   intent |-> Compiled(request.entry)]
    /\ UNCHANGED <<registries, request_counts, proposal, session, graph>>

Withdraw ==
    /\ request.stage # "none"
    /\ request' = NoRequest /\ proposal' = NoProposal
    /\ UNCHANGED <<registries, request_counts, session, graph>>

\* A route of the model gateway and what the model answered on it.
AskModel(manifest, r, answer) ==
    LET route == Route(manifest, Providers, r, request.intent.risk_level)
    IN  /\ request.stage = "compiled"
        /\ proposal = NoProposal
        /\ route # NoRoute
        /\ proposal' = ProposalFrom(route, request.intent, answer.steps, answer.capabilities)
        /\ UNCHANGED <<registries, request_counts, request, session, graph>>

-----------------------------------------------------------------------------
\* The session.

OpenSession ==
    /\ session # NewSession
    /\ session' = NewSession
    /\ UNCHANGED <<registries, request_counts, request, proposal, graph>>

\* with_policy_profile, with a profile of the registry or the one admitted.
SetProfile_PolicyStays(profile) ==
    /\ profile # Unresolved
    /\ session' = [session EXCEPT !.profile = profile]
    /\ UNCHANGED <<registries, request_counts, request, proposal, graph>>
SetProfile(profile) ==
    /\ profile # Unresolved
    /\ session' = [session EXCEPT
                     !.profile = profile,
                     !.running_task_policy = IF profile.allow["allow_running_task_retry"]
                                             THEN @ ELSE "RequireInspection"]
    /\ UNCHANGED <<registries, request_counts, request, proposal, graph>>

\* with_running_task_policy
SetRunningTaskPolicy(policy) ==
    /\ session' = [session EXCEPT
                     !.running_task_policy =
                        IF policy = "RetryReady" /\ ~session.profile.allow["allow_running_task_retry"]
                        THEN "RequireInspection" ELSE policy]
    /\ UNCHANGED <<registries, request_counts, request, proposal, graph>>

\* load_manifest_registry: every skill the profile allows, also one that is
\* already there.
LoadManifests ==
    LET skills == IF session.profile.allow["allow_skills"] THEN SkillsFor(manifests, session.profile)
                  ELSE << >>
    IN  /\ ManifestsAreValid(manifests)
        /\ Len(session.skills) + Len(skills) <= MaxSkills
        /\ session' = [session EXCEPT !.skills = @ \o skills]
        /\ UNCHANGED <<registries, request_counts, request, proposal, graph>>

\* execution_plan: plan, compile under the profile, order.
Finish(plan) ==
    /\ plan # NoPlan
    /\ CanCompilePlan(plan, session.profile)
    /\ CanOrder(GraphOf(plan))
    /\ graph' = [tasks |-> ReadyOrder(GraphOf(plan)).done, path |-> GraphOf(plan).path,
                 draft |-> request.draft, profile |-> session.profile]
    /\ request' = NoRequest /\ proposal' = NoProposal
    /\ UNCHANGED <<registries, request_counts, session>>

MakePlan == request.stage = "compiled" /\ Finish(PlannerPlan(request.intent, session.skills))

MakeProposedPlan ==
    /\ request.stage = "compiled"
    /\ proposal # NoProposal
    /\ Finish(ProposedPlan(request.intent, proposal))

PlanningNext ==
    \/ \E entry \in ProfileEdits : InsertProfile(entry)
    \/ \E module \in Modules : RegisterModule(module)
    \/ \E skill \in Skills : RegisterSkill(skill)
    \/ \E package \in Packages : InstallPackage(package)
    \/ \E draft \in Drafts : Submit(draft)
    \/ Admit
    \/ Compile
    \/ Withdraw
    \/ \E manifest \in Gateways, r \in RouteRequests, answer \in Answers : AskModel(manifest, r, answer)
    \/ OpenSession
    \/ \E id \in IdsOf(profiles) : SetProfile(Resolve(profiles, id))
    \/ request.stage # "none" /\ SetProfile(request.profile)
    \/ \E policy \in {"RetryReady", "RequireInspection"} : SetRunningTaskPolicy(policy)
    \/ LoadManifests
    \/ MakePlan
    \/ MakeProposedPlan

-----------------------------------------------------------------------------
\* Whatever shell, gateway, compiler, skills and model add, a task graph
\* stays within what was asked for and what the session may do: a task uses a
\* capability of the draft, or reads a file when the draft names none; its
\* risk is that of the draft at least, and Medium at least when the goal had
\* a secret in it; no target is a secret of the goal; and the tasks come in
\* an order in which their dependencies come first.
PlanKeepsToTheRequest ==
    \A i \in DOMAIN graph.tasks :
        LET task == graph.tasks[i]  draft == graph.draft
        IN  /\ IF draft.requested_capabilities = << >> THEN task.capability_id = FileRead
               ELSE Contains(Trimmed(draft.requested_capabilities), task.capability_id)
            /\ task.risk_level >= draft.risk_level
            /\ HasWord(SecretWords, draft.goal) => task.risk_level >= Medium
            /\ task.target \notin SecretWords \cap ToSet(draft.goal)
            /\ task.depends_on \subseteq {graph.tasks[j].id : j \in 1 .. i - 1}

\* A session never retries running tasks by itself when its profile forbids
\* it, in whatever order profile and policy are set; and every graph it has
\* compiled is one its profile of that time allows.
SessionKeepsToItsProfile ==
    /\ session.running_task_policy = "RetryReady" => session.profile.allow["allow_running_task_retry"]
    /\ graph # NoGraph =>
          /\ Len(graph.tasks) <= graph.profile.max_tasks_per_graph
          /\ \A i \in DOMAIN graph.tasks : Allows(graph.profile, graph.tasks[i].capability_id)
          /\ (\E i \in DOMAIN graph.tasks : graph.tasks[i].risk_level >= High) =>
                graph.profile.allow["allow_trusted_execution_path"]

\* README.md:386: a profile resolved from a registry only narrows the
\* profiles above it.
InheritanceNarrows ==
    \A id \in IdsOf(profiles) :
        LET parent == Lookup(profiles, id).parent_profile_id
        IN  (Resolve(profiles, id) # Unresolved /\ parent # NoParent) =>
                Narrows(Resolve(profiles, id), Resolve(profiles, parent))
=============================================================================
