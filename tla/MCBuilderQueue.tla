--------------------------- MODULE MCBuilderQueue ---------------------------
(* Small instances of BuilderQueue for TLC. *)
EXTENDS BuilderQueue, TLC

\* Connections and identifiers are interchangeable.
Symmetry == Permutations(Handlers) \cup Permutations(Builders)
=============================================================================
