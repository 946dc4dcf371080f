---------------------------- MODULE EventQueueMC ----------------------------
EXTENDS EventQueue

CONSTANTS f, r1, k1, k2

OneFn == [r \in Request |-> f]
AllEvents == [r \in Request |-> "Event"]
=============================================================================
