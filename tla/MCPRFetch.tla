------------------------------ MODULE MCPRFetch ------------------------------
(* PRFetch for TLC: the constants are given values in the .cfg files.       *)
EXTENDS PRFetch
=============================================================================
