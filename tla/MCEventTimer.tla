----------------------------- MODULE MCEventTimer -----------------------------
\* Instances of EventTimer for TLC.
EXTENDS EventTimer, TLC

Earlier == {-1}

Symmetry == Permutations(Timer) \cup Permutations(Proc)
===============================================================================
