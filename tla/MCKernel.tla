------------------------------- MODULE MCKernel -------------------------------
\* Instances of KernelProperties for TLC.
EXTENDS KernelProperties

\* Processes are interchangeable, except that only some are polled.
Symmetry == {f \in Permutations(Proc) : \A p \in Polled : f[p] \in Polled}
===============================================================================
