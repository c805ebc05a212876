-------------------------- MODULE MCProviderRuntime --------------------------
(* Two workers, two copies of the message and one sweeper on one attempt of *)
(* any origin: enough for redelivery, expiry, takeover and stale completion.*)
EXTENDS ProviderRuntime, TLC

Symmetry == Permutations(Workers)
=============================================================================
