---------------------------- MODULE VaultControls ----------------------------
(***************************************************************************)
(* The vault's controls of one tenant: the hardening decisions from which  *)
(* production readiness is evaluated, and the decisions, profiles and      *)
(* bundles that rest on a readiness decision.  They share the clock and    *)
(* the readiness decision, of which the second needs no more than that it  *)
(* was issued: focus says which one is under way.                          *)
(***************************************************************************)
EXTENDS VaultReadiness, VaultReview

VARIABLE focus

hardeningVars == <<set, edited, basis, changes>>
requestVars == <<policy_record, access, profile, decided, review, calls>>
vars == <<focus, now, readiness, hardeningVars, requestVars>>

Init ==
    /\ focus \in {"hardening", "review"}
    /\ ReadinessInit(IF focus = "hardening" THEN Start ELSE NoDecisions)
    /\ ReviewInit
    /\ focus = "hardening" => policy = CHOOSE p \in Policies : TRUE

Next ==
    \/ focus = "hardening" /\ ReadinessNext /\ UNCHANGED <<focus, requestVars>>
    \/ focus = "review" /\ ReviewNext /\ UNCHANGED <<focus, hardeningVars>>

Spec == Init /\ [][Next]_vars
=============================================================================
