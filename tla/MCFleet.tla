------------------------------ MODULE MCFleet ------------------------------
EXTENDS Fleet, TLC

\* Runs and workers are interchangeable.
FleetSymmetry == Permutations(Runs) \cup Permutations(Workers)
=============================================================================
