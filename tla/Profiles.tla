------------------------------ MODULE Profiles ------------------------------
(***************************************************************************)
(* The runtime profiles of moxi-runtime: RuntimePolicyProfile, the         *)
(* registry in which a profile can name a parent, the resolution of that   *)
(* inheritance, and what a profile lets a task graph and a skill do.       *)
(*                                                                         *)
(* allowed_capabilities is a set; when it is empty a profile allows every  *)
(* capability.                                                             *)
(***************************************************************************)
EXTENDS Lists

NoParent == "no parent"

Switches ==
    {"allow_fast_path", "allow_task_path", "allow_trusted_execution_path",
     "allow_skills", "allow_running_task_retry"}

\* A profile: its switches, its list and the size of a graph.
Profile(id, on, capabilities, tasks) ==
    [profile_id |-> id, allow |-> [s \in Switches |-> s \in on],
     allowed_capabilities |-> capabilities, max_tasks_per_graph |-> tasks]

RuntimeDefault == Profile("runtime.default", Switches, {}, 32)
FastOnly == Profile("runtime.fast_only", {"allow_fast_path"}, {}, 1)
CliFast == Profile("shell.cli.fast", {"allow_fast_path"}, {<<"file.read">>}, 1)
IdeReadonly ==
    Profile("shell.ide.readonly", Switches \ {"allow_trusted_execution_path"}, {<<"file.read">>}, 8)
DigitalHumanReadonly ==
    Profile("shell.digital_human.readonly",
            Switches \ {"allow_trusted_execution_path", "allow_running_task_retry"},
            {<<"file.read">>, <<"memory.read">>}, 4)
TrustedReview ==
    Profile("shell.trusted.review", Switches \ {"allow_running_task_retry"}, {<<"file.read">>}, 12)

Entry(profile, parent) == [profile |-> profile, parent_profile_id |-> parent]

\* RuntimeProfileRegistry::default and its shell profiles.
NewRegistry == <<Entry(RuntimeDefault, NoParent)>>

StandardPack ==
    <<Entry(CliFast, "runtime.default"), Entry(IdeReadonly, "runtime.default"),
      Entry(DigitalHumanReadonly, "runtime.default"), Entry(TrustedReview, "runtime.default")>>

\* A profile takes the place of the one with its id.
Insert(registry, entry) ==
    Append(Picked(registry, {i \in DOMAIN registry :
                                registry[i].profile.profile_id # entry.profile.profile_id}),
           entry)

-----------------------------------------------------------------------------
MergedCapabilities(parent, child) ==
    IF parent = {} THEN child
    ELSE IF child = {} THEN parent
    ELSE child \cap parent

Merged(parent, child) ==
    [profile_id |-> child.profile_id,
     allow |-> [s \in Switches |-> parent.allow[s] /\ child.allow[s]],
     allowed_capabilities |-> MergedCapabilities(parent.allowed_capabilities,
                                                 child.allowed_capabilities),
     max_tasks_per_graph |-> IF parent.max_tasks_per_graph < child.max_tasks_per_graph
                             THEN parent.max_tasks_per_graph
                             ELSE child.max_tasks_per_graph]

IdsOf(registry) == {registry[i].profile.profile_id : i \in DOMAIN registry}

\* The first entry with the id.
Lookup(registry, id) ==
    registry[CHOOSE i \in DOMAIN registry :
                /\ registry[i].profile.profile_id = id
                /\ \A j \in 1 .. i - 1 : registry[j].profile.profile_id # id]

Unresolved == [profile_id |-> "unresolved"]

\* Unresolved: an unknown profile or a cycle of parents.
Resolve(registry, id) ==
    LET resolve[rest \in SUBSET IdsOf(registry), p \in IdsOf(registry) \cup {NoParent}] ==
            LET entry == Lookup(registry, p)
                parent == resolve[rest \ {p}, entry.parent_profile_id]
            IN  IF p \notin rest THEN Unresolved
                ELSE IF entry.parent_profile_id = NoParent THEN entry.profile
                ELSE IF entry.parent_profile_id \notin IdsOf(registry) THEN Unresolved
                ELSE IF parent = Unresolved THEN Unresolved
                ELSE Merged(parent, entry.profile)
    IN  IF id \in IdsOf(registry) THEN resolve[IdsOf(registry), id] ELSE Unresolved

-----------------------------------------------------------------------------
\* What a profile allows.
Allows(profile, capability) ==
    profile.allowed_capabilities = {} \/ capability \in profile.allowed_capabilities

AllowsSkill(profile, skill) ==
    /\ profile.allow["allow_skills"]
    /\ \A i \in DOMAIN skill.required_capabilities : Allows(profile, skill.required_capabilities[i])

SwitchOf(path) ==
    CASE path = "FastPath" -> "allow_fast_path"
      [] path = "TaskPath" -> "allow_task_path"
      [] OTHER -> "allow_trusted_execution_path"

AllowsGraph(profile, graph) ==
    /\ Len(graph.tasks) <= profile.max_tasks_per_graph
    /\ profile.allow[SwitchOf(graph.path)]
    /\ \A i \in DOMAIN graph.tasks :
          /\ Allows(profile, graph.tasks[i].capability_id)
          /\ graph.tasks[i].skill_id # "none" => profile.allow["allow_skills"]

\* A child lets nothing through that its parent stops.
Narrows(child, parent) ==
    /\ \A s \in Switches : child.allow[s] => parent.allow[s]
    /\ child.max_tasks_per_graph <= parent.max_tasks_per_graph
    /\ parent.allowed_capabilities # {} =>
          /\ child.allowed_capabilities # {}
          /\ child.allowed_capabilities \subseteq parent.allowed_capabilities
=============================================================================
