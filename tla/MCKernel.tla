------------------------------ MODULE MCKernel ------------------------------
(***************************************************************************)
(* Small kernels for TLC: one capability the policy allows, one it allows  *)
(* only with an approval, one it denies to a workspace_write run, and a    *)
(* capability id nothing registers.                                        *)
(***************************************************************************)
EXTENDS Kernel, TLC

Plain(isRead, isShell) ==
    [read |-> isRead, network |-> FALSE, shell |-> isShell, privileged |-> FALSE]

MCCaps == {"read", "write", "shell", "ghost"}

MCCapability ==
    [c \in {"read", "write", "shell"} |->
        [timeout |-> 1,
         risk_level |-> IF c = "write" THEN 2 ELSE 0,
         resources |-> {Plain(c = "read", c = "shell")}]]

MCContract ==
    [r \in Runs |->
        [required_capabilities |-> MCCaps, permission_mode |-> "WorkspaceWrite",
         max_steps |-> 2, max_heartbeats |-> 1, max_tool_calls |-> 2, timeout |-> 2]]

\* PolicyConfig::default, and one that was tightened while runs are under way.
Default ==
    [require_declared_capabilities |-> TRUE,
     denied_capabilities |-> {}, approval_required_capabilities |-> {},
     denied_resources |-> {}, approval_required_resources |-> {},
     deny_at_or_above |-> 4, approval_required_at_or_above |-> 2]

MCConfigs == {Default, [Default EXCEPT !.denied_capabilities = {"read"}]}

MCSymmetry ==
    Permutations(PolicyIds) \cup Permutations(GrantIds)
        \cup Permutations(TicketIds) \cup Permutations(ProofIds)
=============================================================================
