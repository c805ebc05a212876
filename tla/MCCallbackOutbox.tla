-------------------------- MODULE MCCallbackOutbox --------------------------
(* TLC instances of CallbackOutbox.                                        *)
EXTENDS CallbackOutbox, TLC

Symmetry == Permutations(Callbacks) \cup Permutations(CallbackWorkers) \cup Permutations(Sweepers)
=============================================================================
