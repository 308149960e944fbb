--------------------------- MODULE MCCloudSessions ---------------------------
EXTENDS CloudSessions, TLC

\* Sessions differ only in name, and so do endpoints.
CloudSymmetry == Permutations(Sessions) \cup Permutations(Endpoints)
=============================================================================
