------------------------------ MODULE MCLlmScan ------------------------------
EXTENDS LlmScan, TLC

CONSTANTS p1, p2

HuntThenVerify == <<"hunt", "verify">>
TwoHunts == <<"hunt", "hunt">>
WithCrosscut == <<"verify", "hunt", "crosscut">>

ThreeTokens == 1 .. 3

ServerSymmetry == Permutations(Servers)
=============================================================================
