--------------------------- MODULE MCScanLifecycle ---------------------------
EXTENDS ScanLifecycle, TLC
CONSTANTS p1, p2, h1, h2
TwoHosts == (p1 :> h1) @@ (p2 :> h2)
OneHost == (p1 :> h1) @@ (p2 :> h1)
OneHost1 == (p1 :> h1)
Symmetry == Permutations(Pids) \cup Permutations(Scans) \cup Permutations(Trees)
=============================================================================
