----------------------------- MODULE Authority ------------------------------
(***************************************************************************)
(* What the kernel promises, without tickets, budgets, states or crashes:  *)
(* a run acts only when it was permitted and not denied, and again only    *)
(* while the outcome of all it did before was lost; once one outcome is    *)
(* known the run is settled and acts no more.  Only a settled run reports, *)
(* what it performed, and not when a denial is recorded of it.  Nothing is *)
(* ever taken back.                                                        *)
(***************************************************************************)
CONSTANTS Runs, Actions

VARIABLES
    permitted,   \* runs with a decision that lets them act
    denied,      \* runs with a recorded denial
    performed,   \* what each run has done to the world
    lost,        \* that of it of which the outcome was lost
    settled,     \* runs that act no more
    reported     \* what the ledger says each run has done

promises == <<permitted, denied, performed, lost, settled, reported>>

Init ==
    /\ permitted = {} /\ denied = {} /\ settled = {}
    /\ performed = [r \in Runs |-> {}]
    /\ lost = [r \in Runs |-> {}]
    /\ reported = [r \in Runs |-> {}]

Permit(r) ==
    /\ permitted' = permitted \cup {r}
    /\ UNCHANGED <<denied, performed, lost, settled, reported>>

\* What was reported is not denied afterwards.
Deny(r) ==
    /\ reported[r] = {}
    /\ denied' = denied \cup {r}
    /\ UNCHANGED <<permitted, performed, lost, settled, reported>>

Perform(r, a) ==
    /\ r \in permitted \ (denied \cup settled)
    /\ performed[r] \subseteq lost[r]
    /\ a \notin performed[r]
    /\ performed' = [performed EXCEPT ![r] = @ \cup {a}]
    /\ UNCHANGED <<permitted, denied, lost, settled, reported>>

Lose(r, a) ==
    /\ r \notin settled
    /\ a \in performed[r]
    /\ lost' = [lost EXCEPT ![r] = @ \cup {a}]
    /\ UNCHANGED <<permitted, denied, performed, settled, reported>>

Settle(r) ==
    /\ performed[r] # {}
    /\ settled' = settled \cup {r}
    /\ UNCHANGED <<permitted, denied, performed, lost, reported>>

Report(r, a) ==
    /\ r \in settled \ denied
    /\ a \in performed[r]
    /\ reported' = [reported EXCEPT ![r] = @ \cup {a}]
    /\ UNCHANGED <<permitted, denied, performed, lost, settled>>

Next ==
    \/ \E r \in Runs : Permit(r) \/ Deny(r) \/ Settle(r)
    \/ \E r \in Runs, a \in Actions : Perform(r, a) \/ Lose(r, a) \/ Report(r, a)

Spec == Init /\ [][Next]_promises
=============================================================================
