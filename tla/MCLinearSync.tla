----------------------------- MODULE MCLinearSync -----------------------------
(* LinearSync for TLC: values for the constants the .cfg files refer to.    *)
EXTENDS LinearSync

SomeTokens == {"!", "o", "_", "fix"}

\* A plain title, and one that a person began with marks and spaces.
SomeTitles == {<<"fix">>, <<"_", "o", "!", "_", "_", "fix">>}

\* One event of every kind the hooks tell apart.
SomeEvents == {"PlanAwaitApproval", "PlanNeedsClarification", "PlanError",
               "VerifyBegin", "VerifyPass"}
=============================================================================
