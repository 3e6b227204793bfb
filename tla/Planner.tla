------------------------------- MODULE Planner -------------------------------
(***************************************************************************)
(* The planner of a runtime session (moxi-runtime) and the manifests it    *)
(* plans from: modules and skills in a registry (also as a package of      *)
(* moxi-skills), the skills a session has loaded, plans made of matching   *)
(* skills, of the intent alone or of a proposal of a model, and the task   *)
(* graph compiled from a plan.                                             *)
(*                                                                         *)
(* A step or task is [id, skill_id, capability_id, target, risk_level,     *)
(* depends_on]: step ids and the task ids made of them are one-to-one      *)
(* here.  A manifest is a record of the fields that are tested.            *)
(***************************************************************************)
EXTENDS Intake, Profiles, Functions

CONSTANTS
    PathWords     \* words with a dot or a slash in them

NoSkill == "none"
NoModule == "none"
Readme == "README.md"

ASSUME PlannerAssumption == Readme \in STRING \ SecretWords

-----------------------------------------------------------------------------
\* Manifests.

ModulesOf(manifests) == ToSet(manifests.modules)

ModuleIds(manifests) == {m.module_id : m \in ModulesOf(manifests)}

NoManifests == [modules |-> << >>, skills |-> << >>]

WithModule(manifests, module) ==
    [manifests EXCEPT !.modules =
        Append(Picked(@, {i \in DOMAIN @ : @[i].module_id # module.module_id}), module)]

Supported(module) == module.required_capabilities \cup module.provided_capabilities

SkillIsValid(skill) ==
    /\ skill.required_capabilities # << >>
    /\ \/ skill.provided_capabilities = {}
       \/ skill.required_capabilities[1] \in skill.provided_capabilities
    /\ skill.permission_mode = "ReadOnly"

SkillFits(skill, module) ==
    ToSet(skill.required_capabilities) \cup skill.provided_capabilities \subseteq Supported(module)

\* validate_skill_manifest, the module of the skill, validate_skill_module_binding.
SkillIsBound(manifests, skill) ==
    /\ SkillIsValid(skill)
    /\ \E module \in ModulesOf(manifests) :
          module.module_id = skill.module_ref /\ SkillFits(skill, module)

WithSkill(manifests, skill) ==
    [manifests EXCEPT !.skills =
        Append(Picked(@, {i \in DOMAIN @ : @[i].skill_id # skill.skill_id}), skill)]

\* No module reaches itself through the modules it requires.
Acyclic(modules) ==
    ~\E loop \in (SUBSET {m.module_id : m \in modules}) \ {{}} :
        \A id \in loop : \E m \in modules : m.module_id = id /\ m.required_modules \cap loop # {}

ManifestsAreValid(manifests) ==
    /\ \A m \in ModulesOf(manifests) : m.required_modules \subseteq ModuleIds(manifests)
    /\ Acyclic(ModulesOf(manifests))
    /\ \A skill \in ToSet(manifests.skills) : SkillIsBound(manifests, skill)

ValidWithProfiles(manifests, registry) ==
    /\ ManifestsAreValid(manifests)
    /\ \A m \in ModulesOf(manifests) :
          m.policy_profile_ref # NoProfile => Resolve(registry, m.policy_profile_ref) # Unresolved

SkillsFor(manifests, profile) ==
    Picked(manifests.skills, {i \in DOMAIN manifests.skills : AllowsSkill(profile, manifests.skills[i])})

-----------------------------------------------------------------------------
\* Skill packages.

HighFinding(package, skill) ==
    \/ skill.skill_id = ""
    \/ skill.module_ref # package.module.module_id
    \/ skill.required_capabilities = << >>
    \/ skill.permission_mode # "ReadOnly"
    \/ skill.risk_level > Medium
    \/ ~SkillFits(skill, package.module)

TestIsBad(package, test) ==
    \/ IsBlank(test.prompt)
    \/ test.should_trigger /\ test.expected_skill_id = NoSkill
    \/ /\ test.expected_skill_id # NoSkill
       /\ \A i \in DOMAIN package.skills : package.skills[i].skill_id # test.expected_skill_id

\* lint: no finding of High severity or above.
LintPasses(package) ==
    /\ package.module.module_id # ""
    /\ package.skills # << >>
    /\ IsInjective([i \in DOMAIN package.skills |-> package.skills[i].skill_id])
    /\ \A skill \in ToSet(package.skills) : ~HighFinding(package, skill)
    /\ \A test \in package.trigger_tests : ~TestIsBad(package, test)

\* The module, then each skill: one takes the place of an earlier one of its id.
PackageManifests(package) ==
    LET skills == package.skills
    IN  [modules |-> <<package.module>>,
         skills |-> Picked(skills, {i \in DOMAIN skills :
                                      \A j \in i + 1 .. Len(skills) : skills[j].skill_id # skills[i].skill_id})]

\* read_skill_package after the files were found.
PackageIsValid(package) ==
    LintPasses(package) /\ ManifestsAreValid(PackageManifests(package))

-----------------------------------------------------------------------------
\* Plans.

\* The first word that looks like a path, of a text that has one.
PathIn(text) == text[Min({k \in DOMAIN text : text[k] \in PathWords})]

\* The path of the first text that has one.
Target(texts) ==
    LET with == {i \in DOMAIN texts : HasWord(PathWords, texts[i])}
    IN  IF with = {} THEN Readme ELSE PathIn(texts[Min(with)])

Matches(skill, intent) ==
    /\ skill.required_capabilities # << >>
    /\ Contains(intent.requested_capabilities, skill.required_capabilities[1])
    /\ \/ Contains(intent.goal, skill.skill_id)
       \/ Occurs(skill.required_capabilities[1], intent.goal)

MatchingSkills(skills, intent) == Picked(skills, {i \in DOMAIN skills : Matches(skills[i], intent)})

NewStep(i, skill_id, capability, target, risk) ==
    [id |-> i, skill_id |-> skill_id, capability_id |-> capability, target |-> target,
     risk_level |-> risk, depends_on |-> IF i = 1 THEN {} ELSE {i - 1}]

NoPlan == [steps |-> << >>]

Plan(intent, source, steps) == [intent |-> intent, source |-> source, steps |-> steps]

DeterministicPlan(intent) ==
    LET capability == IF intent.requested_capabilities = << >> THEN FileRead
                      ELSE intent.requested_capabilities[1]
    IN  IF capability # FileRead THEN NoPlan
        ELSE Plan(intent, "Deterministic",
                  <<NewStep(1, NoSkill, capability, Target(<<intent.goal>>), intent.risk_level)>>)

SkillPlan(intent, skills) ==
    Plan(intent, "SkillRegistry",
         [i \in DOMAIN skills |->
            NewStep(i, skills[i].skill_id, skills[i].required_capabilities[1],
                    Target(<<skills[i].entrypoint_ref, intent.goal>>),
                    Max({intent.risk_level, skills[i].risk_level}))])

\* planner_plan: a deterministic step when no skill matches.
PlannerPlan(intent, skills) ==
    LET matching == MatchingSkills(skills, intent)
    IN  IF matching = << >> THEN DeterministicPlan(intent) ELSE SkillPlan(intent, matching)

\* The capability of a proposed step: its own, or the first one.
Suggested(proposal, i) ==
    IF i \in DOMAIN proposal.suggested_capabilities
    THEN proposal.suggested_capabilities[i]
    ELSE proposal.suggested_capabilities[1]

ProposalIsValid_AnyCapability(intent, proposal) ==
    /\ proposal.intent = intent
    /\ proposal.kind = "TaskDecomposition"
    /\ proposal.cannot_authorize
    /\ proposal.evidence_refs # {}
    /\ proposal.proposed_steps # << >>
    /\ proposal.suggested_capabilities # << >>
ProposalIsValid(intent, proposal) ==
    /\ proposal.intent = intent
    /\ proposal.kind = "TaskDecomposition"
    /\ proposal.cannot_authorize
    /\ proposal.evidence_refs # {}
    /\ proposal.proposed_steps # << >>
    /\ proposal.suggested_capabilities # << >>
    /\ \A i \in DOMAIN proposal.proposed_steps :
          Contains(intent.requested_capabilities, Suggested(proposal, i))

ProposedPlan(intent, proposal) ==
    IF ~ProposalIsValid(intent, proposal) THEN NoPlan
    ELSE Plan(intent, "ModelProposed",
              [i \in DOMAIN proposal.proposed_steps |->
                 NewStep(i, NoSkill, Suggested(proposal, i),
                         Target(<<proposal.proposed_steps[i], intent.goal>>),
                         Max({intent.risk_level, proposal.risk_level}))])

-----------------------------------------------------------------------------
\* Task graphs.

PlanIsValid(plan) ==
    /\ plan.steps # << >>
    /\ \A step \in ToSet(plan.steps) :
          /\ step.capability_id # << >>
          /\ step.depends_on \subseteq {s.id : s \in ToSet(plan.steps)}

\* Again and again the first task whose dependencies are placed; what is in a
\* cycle, or behind one, keeps its order at the end.
Ordered(tasks) ==
    LET Free(done, left) ==
            {i \in DOMAIN left : left[i].depends_on \subseteq {t.id : t \in ToSet(done)}}
        place[k \in 0 .. Len(tasks)] ==
            IF k = 0 THEN [done |-> << >>, left |-> tasks]
            ELSE LET before == place[k - 1]
                     free == Free(before.done, before.left)
                 IN  IF free = {} THEN before
                     ELSE [done |-> Append(before.done, before.left[Min(free)]),
                           left |-> RemoveAt(before.left, Min(free))]
    IN  place[Len(tasks)]

PathOf(tasks) ==
    IF \E t \in ToSet(tasks) : t.risk_level >= High THEN "TrustedExecutionPath"
    ELSE IF Len(tasks) > 1 THEN "TaskPath"
    ELSE "FastPath"

GraphOf(plan) ==
    LET order == Ordered(plan.steps)
    IN  [intent |-> plan.intent, tasks |-> order.done \o order.left, path |-> PathOf(plan.steps)]

\* compile_planner_plan
CanCompilePlan(plan, profile) == PlanIsValid(plan) /\ AllowsGraph(profile, GraphOf(plan))

\* plan_ready_order refuses a cycle.
ReadyOrder(graph) == Ordered(graph.tasks)
CanOrder(graph) == ReadyOrder(graph).left = << >>
=============================================================================
