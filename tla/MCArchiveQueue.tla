-------------------------- MODULE MCArchiveQueue --------------------------
(* A small instance of ArchiveQueue for TLC.                               *)
EXTENDS ArchiveQueue, TLC

CONSTANTS t1, t2, t3, m1, m2, i1, i2

\* Two tasks for the same missing-3MF retry and a batch page.
KindRetry == t1 :> "retry" @@ t2 :> "retry" @@ t3 :> "batch"
ModelRetry == t1 :> m1 @@ t2 :> m1 @@ t3 :> m2

Symmetry == Permutations({t1, t2})
=============================================================================
