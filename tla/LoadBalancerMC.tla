--------------------------- MODULE LoadBalancerMC ---------------------------
EXTENDS LoadBalancer, TLC

CONSTANTS c1, c2, a1, a2, f, g, r1, r2, k1, k2

\* Two functions: c1 and r1 belong to f, the others to g.
TwoImages == [c \in Container |-> IF c = c1 THEN f ELSE g]
TwoFns == [r \in Request |-> IF r = r1 THEN f ELSE g]
OneFn == [r \in Request |-> f]
OwnAddress == [c \in Container |-> IF c = c1 THEN a1 ELSE a2]
ReusedAddress == [c \in Container |-> a1]
\* Requests of one function and activations are interchangeable.
Symmetry == Permutations({r1, r2}) \cup Permutations({k1, k2})
AllSync == [r \in Request |-> "RequestResponse"]
=============================================================================
