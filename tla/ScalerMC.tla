------------------------------ MODULE ScalerMC ------------------------------
EXTENDS Scaler, TLC

CONSTANTS c1, c2, c3, a1, a2, a3, f

OneImage == [c \in Container |-> f]
OwnAddress == [c \in Container |-> IF c = c1 THEN a1 ELSE IF c = c2 THEN a2 ELSE a3]
=============================================================================
