--------------------------- MODULE MCHostDecision ---------------------------
\* TLC instance of HostDecision: interchangeable keys and calls.
EXTENDS HostDecision, TLC

Symmetry == Permutations(Key) \cup Permutations(Client)
=============================================================================
