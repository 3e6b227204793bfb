---------------------------- MODULE ControlPlane ----------------------------
(***************************************************************************)
(* The control planes around the kernel together: planning (shells, entry, *)
(* gateway, intent, manifests, skills, model gateway and the planner of a  *)
(* session), memory, swarm, evolution and the hot path.  No function of one  *)
(* reads or writes what another keeps, so a behaviour of all five is any   *)
(* interleaving of one of each, and a property of one is checked while the *)
(* others rest: focus says which one moves.                                *)
(***************************************************************************)
EXTENDS Planning, Memory, Swarm, Evolution, HotPath

VARIABLE focus

controlVars == <<focus, planningVars, memoryVars, swarmVars, evolutionVars, hotVars>>

Init ==
    /\ focus \in {"planning", "memory", "swarm", "evolution", "hotpath"}
    /\ PlanningInit
    /\ MemoryInit
    /\ SwarmInit
    /\ EvolutionInit
    /\ HotPathInit
    /\ focus # "planning" => profiles = NewRegistry
    /\ focus # "memory" => memory_manifest = CHOOSE manifest \in MemoryManifests : TRUE

Next ==
    \/ /\ focus = "planning" /\ PlanningNext
       /\ UNCHANGED <<focus, memoryVars, swarmVars, evolutionVars, hotVars>>
    \/ /\ focus = "memory" /\ MemoryNext
       /\ UNCHANGED <<focus, planningVars, swarmVars, evolutionVars, hotVars>>
    \/ /\ focus = "swarm" /\ SwarmNext
       /\ UNCHANGED <<focus, planningVars, memoryVars, evolutionVars, hotVars>>
    \/ /\ focus = "evolution" /\ EvolutionNext
       /\ UNCHANGED <<focus, planningVars, memoryVars, swarmVars, hotVars>>
    \/ /\ focus = "hotpath" /\ HotPathNext
       /\ UNCHANGED <<focus, planningVars, memoryVars, swarmVars, evolutionVars>>

Spec == Init /\ [][Next]_controlVars
=============================================================================
