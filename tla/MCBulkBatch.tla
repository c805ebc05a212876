----------------------------- MODULE MCBulkBatch -----------------------------
(* TLC instances of BulkBatch.                                             *)
EXTENDS BulkBatch, TLC

\* Workers, instructions, task ids and provider identities are interchangeable.
Symmetry == Permutations(Workers) \cup Permutations(Attempts) \cup Permutations(ObsIds)
            \cup Permutations(Tasks)
=============================================================================
