------------------------- MODULE MCTransferExecutor -------------------------
(* Instances of TransferExecutor for TLC.                                  *)
EXTENDS TransferExecutor, TLC

\* Jobs and attempts are interchangeable in every safety property.
MCSymmetry == Permutations(Jobs) \cup Permutations(Attempts)
=============================================================================
