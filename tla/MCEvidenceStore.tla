-------------------------- MODULE MCEvidenceStore --------------------------
(* Instances of EvidenceStore for TLC. *)
EXTENDS EvidenceStore, TLC

CONSTANTS p, q, s1, s2, a, b, x, e

\* A link from a record to itself: two contents of one identifier.
EitherLoop == [l \in {e} |-> {[source |-> r, target |-> r, body |-> x] : r \in {a, b}}]

Interchangeable == Permutations({p, q}) \union Permutations({s1, s2}) \union Permutations({a, b})
=============================================================================
