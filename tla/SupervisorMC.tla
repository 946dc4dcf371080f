---------------------------- MODULE SupervisorMC ----------------------------
EXTENDS Supervisor

CONSTANTS nexus, events, p1, p2, p3, p4, p5, p6

NexusFirst == <<nexus, events>>
=============================================================================
