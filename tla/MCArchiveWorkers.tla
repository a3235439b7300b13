------------------------- MODULE MCArchiveWorkers -------------------------
(* Small instances of ArchiveWorkers for TLC.                              *)
EXTENDS ArchiveWorkers, TLC

CONSTANTS t1, t2, t3, m1, m2, m3, i1, i2, w1, w2

\* A full archive of a model and the 3MF stage that follows it.
KindStages == t1 :> "single" @@ t2 :> "three_mf"
ModelStages == t1 :> m1 @@ t2 :> m1

\* Two downloads and a retry that wait at one gate.
KindGate == t1 :> "three_mf" @@ t2 :> "three_mf" @@ t3 :> "retry"
ModelGate == t1 :> m1 @@ t2 :> m2 @@ t3 :> m3

\* Two missing-3MF retries of one model: the second merges into the first.
KindMerge == t1 :> "retry" @@ t2 :> "retry"
=============================================================================
