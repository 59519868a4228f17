--------------------------- MODULE MCProducerCache ---------------------------
(* Small instances of ProducerCache for TLC. *)
EXTENDS ProducerCache, TLC

\* Users and producers are interchangeable in every property.
Interchangeable == Permutations(Users) \cup Permutations(Producers)
=============================================================================
