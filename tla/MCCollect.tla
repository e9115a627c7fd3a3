------------------------------- MODULE MCCollect -------------------------------
EXTENDS Collect

CONSTANTS s, a, b

\* b hears the sink s itself and through a; a and b hear each other.
Triangle == {<<s, a>>, <<s, b>>, <<a, b>>, <<b, a>>}
OneSink == {<<s, TRUE>>, <<s, FALSE>>}
TwoFromB == [n \in Node |-> IF n = b THEN 2 ELSE 0]
================================================================================
