---------------------------- MODULE MCArtifacts ----------------------------
EXTENDS Artifacts, TLC

\* Calls differ only in name, and so do accounts.
CallSymmetry == Permutations(Calls) \cup Permutations(Accounts)
=============================================================================
