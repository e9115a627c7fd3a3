-------------------------------- MODULE MCCoffee --------------------------------
EXTENDS Coffee, TLC

Names == Permutations(Name)

\* Once the collector erased files, descriptors and headers refer to pages that are gone:
\* what the calls do then is not followed.
Followed == ~erased
================================================================================
