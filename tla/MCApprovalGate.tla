-------------------------- MODULE MCApprovalGate --------------------------
\* Values of the constants of ApprovalGate for TLC.
EXTENDS ApprovalGate, TLC

CONSTANTS c1, c2, o1

TwoCalls  == {c1, c2}
OneObject == {o1}

Unlocking == {"inject", "disclose"}
Changing  == {"put", "delete", "rule.remove"}

Exchangeable == Permutations(TwoCalls)
=============================================================================
