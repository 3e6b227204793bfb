------------------------------- MODULE Trail --------------------------------
(***************************************************************************)
(* What the kernels on one database promise together, without statements,  *)
(* rows, calls or locks: one contract per capability is enrolled and one   *)
(* manifest per executor, once and for all; a process may also hold one    *)
(* that was overtaken when another of the same id was enrolled; an action  *)
(* is authorised by a process that holds its contract with an executor     *)
(* made for it, is reported once and after that, and its seal covers the   *)
(* report and those another seal covers.  Only what a process holds is     *)
(* ever given up.                                                          *)
(***************************************************************************)
EXTENDS Sequences, Naturals

CONSTANTS Processes, Runs, Contracts, Manifests

VARIABLES
    contracts,   \* what is enrolled
    manifests,   \* the executors that are recorded
    overtaken,   \* what was offered when another of its id was enrolled
    registry,    \* the contracts each process holds
    executors,   \* the executors it is equipped with
    authorised,  \* actions that may be reported
    trail,       \* what was reported, in order
    seals        \* the runs the seal of each report covers, in order

enrolled == <<contracts, manifests, overtaken>>
held == <<registry, executors>>
reports == <<trail, seals>>
promises == <<enrolled, held, authorised, reports>>

Init ==
    /\ contracts = {} /\ manifests = {} /\ overtaken = {} /\ authorised = {}
    /\ registry = [p \in Processes |-> {}]
    /\ executors = [p \in Processes |-> {}]
    /\ trail = << >> /\ seals = << >>

MadeFor(m, c) == m.capability = c.capability /\ m.contract = c

Hold(p, c) ==
    /\ \A m \in executors[p] : m.capability = c.capability => MadeFor(m, c)
    /\ registry' = [registry EXCEPT ![p] = @ \union {c}]
    /\ UNCHANGED executors

Carry(p, m) ==
    /\ \A c \in registry[p] : m.capability = c.capability => MadeFor(m, c)
    /\ executors' = [executors EXCEPT
                       ![p] = {x \in @ : x.capability # m.capability} \union {m}]
    /\ UNCHANGED registry

\* The first contract of a capability overtakes others on their way.
Enrol(p, c, others) ==
    /\ \A x \in contracts : x.capability # c.capability
    /\ \A x \in others : x.capability = c.capability /\ x # c
    /\ contracts' = contracts \union {c}
    /\ overtaken' = overtaken \union others
    /\ Hold(p, c)
    /\ UNCHANGED <<manifests, authorised, reports>>

Adopt(p, c) ==
    /\ c \in contracts \union overtaken
    /\ Hold(p, c)
    /\ UNCHANGED <<enrolled, authorised, reports>>

\* The first manifest of an executor overtakes others on their way.
Record(p, m, others) ==
    /\ \A x \in manifests : x.executor # m.executor
    /\ \A x \in others : x.executor = m.executor /\ x # m
    /\ manifests' = manifests \union {m}
    /\ overtaken' = overtaken \union others
    /\ Carry(p, m)
    /\ UNCHANGED <<contracts, authorised, reports>>

Equip(p, m) ==
    /\ m \in manifests \union overtaken
    /\ Carry(p, m)
    /\ UNCHANGED <<enrolled, authorised, reports>>

Leave(p) ==
    /\ registry' = [registry EXCEPT ![p] = {}]
    /\ executors' = [executors EXCEPT ![p] = {}]
    /\ UNCHANGED <<enrolled, authorised, reports>>

Authorise(p, run, c, m) ==
    /\ c \in registry[p] /\ m \in executors[p] /\ MadeFor(m, c)
    /\ \A a \in authorised : a.run # run
    /\ authorised' = authorised \union {[run |-> run, contract |-> c, manifest |-> m]}
    /\ UNCHANGED <<enrolled, held, reports>>

\* The seal goes on from the seal of report k, or from none.
Report(a, k) ==
    /\ a \in authorised
    /\ \A i \in DOMAIN trail : trail[i].run # a.run
    /\ trail' = Append(trail, a)
    /\ seals' = Append(seals, Append(IF k = 0 THEN << >> ELSE seals[k], a.run))
    /\ UNCHANGED <<enrolled, held, authorised>>

Next ==
    \/ \E p \in Processes :
          \/ Leave(p)
          \/ \E c \in Contracts : Adopt(p, c)
          \/ \E m \in Manifests : Equip(p, m)
          \/ \E run \in Runs, c \in registry[p], m \in executors[p] : Authorise(p, run, c, m)
    \/ \E a \in authorised, k \in 0..Len(trail) : Report(a, k)
    \/ \E p \in Processes, c \in Contracts, others \in SUBSET Contracts : Enrol(p, c, others)
    \/ \E p \in Processes, m \in Manifests, others \in SUBSET Manifests : Record(p, m, others)

Spec == Init /\ [][Next]_promises
=============================================================================
