----------------------------- MODULE MCAuthSessions -----------------------------
EXTENDS AuthSessions, TLC

Symmetric == Permutations(Requests)
==============================================================================
