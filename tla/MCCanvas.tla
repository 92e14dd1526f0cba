------------------------------ MODULE MCCanvas ------------------------------
EXTENDS Canvas, TLC
CONSTANTS p1, p2, blank, a, b, e1, e2, q, none

\* Pages are alike; for the runs of safety properties only.
PageSymmetry == Permutations(Pages)
=============================================================================
