--------------------------- MODULE MCSharedStore ---------------------------
(* Small instances of SharedStore for TLC: one capability, of which the       *)
(* releases of the agent have different contracts, each with its executor.    *)
EXTENDS SharedStore, TLC

CONSTANT Bodies    \* what may differ between two contracts of one id

MCContract(body) == [capability |-> "file.read", body |-> body]
MCContracts == {MCContract(body) : body \in Bodies}
MCManifests == {[executor |-> "reader", capability |-> "file.read", contract |-> c] :
                    c \in MCContracts}

MCFlaws == {{}, {"late"}, {"delta"}}

\* Processes and bodies are told apart by nothing but equality.
Symmetry == Permutations(Processes) \union Permutations(Bodies)
=============================================================================
