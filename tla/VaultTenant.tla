----------------------------- MODULE VaultTenant -----------------------------
(* What every call about a tenant shares: the clock and the last production   *)
(* readiness decision that was issued.                                        *)
VARIABLES
    now,        \* Utc::now()
    readiness   \* the last production readiness decision, or NoReadiness
=============================================================================
