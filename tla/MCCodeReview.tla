----------------------------- MODULE MCCodeReview -----------------------------
(* CodeReview for TLC: the constants are given values in the .cfg files.    *)
EXTENDS CodeReview, TLC

Interchangeable == Permutations(Command)
=============================================================================
