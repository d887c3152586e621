----------------------------- MODULE MCLlmPlans ------------------------------
EXTENDS LlmPlans

CONSTANTS kHunt, c1, c2, fp1, fp2

TableMeasures == [n \in Names |-> {kHunt}]
=============================================================================
