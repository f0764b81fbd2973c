-------------------------- MODULE MCBatchExecution --------------------------
(* Instances of BatchExecution small enough to explore.                    *)
EXTENDS BatchInvariant, TLC

\* The rows of a job differ only in their identity.
RowSymmetry == Permutations(Rows)
=============================================================================
