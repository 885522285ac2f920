----------------------------- MODULE MCGoalLoop -----------------------------
EXTENDS GoalLoop

CONSTANTS d, c, host, cli

MCHolder == [w \in Workers |-> IF w = d THEN host ELSE cli]

MCMaxItems == [w \in Workers |-> IF w = d THEN 2 ELSE 1]
=============================================================================
