--------------------------- MODULE MCJournalLock ---------------------------
(* Small instances of JournalLock for TLC.  Sessions are interchangeable,   *)
(* and so are operators: no definition tells one from another.              *)
EXTENDS JournalLock, TLC

Symmetry == Permutations(Sessions) \union Permutations(Operators)
=============================================================================
