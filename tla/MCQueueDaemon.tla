--------------------------- MODULE MCQueueDaemon ----------------------------
(* Small instances of QueueDaemon for TLC. *)
EXTENDS QueueDaemon, TLC

\* Connections and identifiers are interchangeable.
Symmetry == Permutations(Handlers) \cup Permutations(Builders)
=============================================================================
