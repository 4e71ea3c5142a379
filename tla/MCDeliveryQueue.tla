--------------------------- MODULE MCDeliveryQueue ---------------------------
\* TLC instance of DeliveryQueue: interchangeable values for the safety run.
EXTENDS DeliveryQueue, TLC

Symmetry == Permutations(Key) \cup Permutations(Request)
=============================================================================
