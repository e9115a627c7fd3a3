------------------------------- MODULE MCRTimer -------------------------------
\* Instances of RTimer for TLC.
EXTENDS RTimer
===============================================================================
