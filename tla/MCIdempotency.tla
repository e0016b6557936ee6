--------------------------- MODULE MCIdempotency ---------------------------
(* Instances of Idempotency for TLC.                                       *)
EXTENDS Idempotency, TLC

\* Executors are interchangeable, and so are events: no operator chooses among
\* them.  Used by the runs that check only safety.
Symmetry == Permutations(Executors) \cup Permutations(Events)

=============================================================================
