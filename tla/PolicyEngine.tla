---------------------------- MODULE PolicyEngine ----------------------------
(***************************************************************************)
(* The deterministic policy evaluation of moxi-core (PolicyEngine in       *)
(* crates/moxi-core/src/lib.rs): a PolicyConfig, a run contract, a         *)
(* capability contract and the risk level of a proposed delta give a       *)
(* Decision.  Everything here is a constant operator.                      *)
(*                                                                         *)
(* A resource name matters to the engine only through the four substring   *)
(* tests of is_read_resource .. is_privileged_resource and through which   *)
(* configured patterns match it, so a resource is the record of those four *)
(* answers and a list of patterns is the set of what it matches.           *)
(***************************************************************************)
EXTENDS Naturals

\* Low, Medium, High and Critical, in the order the enum derives Ord.
RiskLevel == 0..3
\* An Option<RiskLevel> threshold that is None lies above every level.
Threshold == 0..4

PermissionMode == {"ReadOnly", "WorkspaceWrite", "Networked", "Privileged"}
Decision == {"Allow", "RequireApproval", "Deny"}

\* What the four name tests answer of one resource string.
Resource == [read : BOOLEAN, network : BOOLEAN, shell : BOOLEAN, privileged : BOOLEAN]

AtOrAbove(risk, threshold) == risk >= threshold

\* std::cmp::max(delta.risk_level, capability.risk_level)
EffectiveRisk(capability, deltaRisk) ==
    IF capability.risk_level > deltaRisk THEN capability.risk_level ELSE deltaRisk

ModeAllows(mode, resource) ==
    \/ mode = "Privileged"
    \/ mode = "ReadOnly" /\ resource.read
    \/ mode = "WorkspaceWrite" /\ ~resource.network /\ ~resource.shell /\ ~resource.privileged
    \/ mode = "Networked" /\ ~resource.shell /\ ~resource.privileged

Denied(config, run, id, capability, deltaRisk) ==
    \/ config.require_declared_capabilities /\ id \notin run.required_capabilities
    \/ id \in config.denied_capabilities
    \/ AtOrAbove(EffectiveRisk(capability, deltaRisk), config.deny_at_or_above)
    \/ \E resource \in capability.resources : ~ModeAllows(run.permission_mode, resource)
    \/ capability.resources \cap config.denied_resources # {}

NeedsApproval(config, id, capability, deltaRisk) ==
    \/ AtOrAbove(EffectiveRisk(capability, deltaRisk), config.approval_required_at_or_above)
    \/ id \in config.approval_required_capabilities
    \/ capability.resources \cap config.approval_required_resources # {}

\* PolicyEngine::evaluate: a reason to deny wins over a reason to ask.
Evaluate(config, run, id, capability, deltaRisk) ==
    IF Denied(config, run, id, capability, deltaRisk) THEN "Deny"
    ELSE IF NeedsApproval(config, id, capability, deltaRisk) THEN "RequireApproval"
    ELSE "Allow"
=============================================================================
