----------------------------- MODULE MCRuntime -----------------------------
(* Small instances of Runtime for TLC: a read that is retry-safe, and a      *)
(* write that is not and depends on it.                                      *)
EXTENDS Runtime, TLC

CONSTANTS read, write

MCOrder == <<read, write>>
MCDependsOn == read :> {} @@ write :> {read}
MCRetrySafe == {read}

\* One task, not retry-safe.
MCOneTask == <<write>>
MCNoDependency == write :> {}

\* Sessions are interchangeable: invariants only.
SessionSymmetry == Permutations(Sessions)
=============================================================================
