-------------------------- MODULE MCReliableUnicast ---------------------------
(* Two nodes with a connection on each channel. *)
EXTENDS ReliableUnicast

CONSTANTS n1, n2, c1, c2, m1, m2, m3

\* Two programs of node n1 share its queue buffers, and on the first channel the
\* packets of both nodes cross.
MCSender == {<<n1, c1>>, <<n1, c2>>, <<n2, c1>>}

\* One program does not wait before it sends again.
MCHasty == {<<n1, c1>>}
===============================================================================
