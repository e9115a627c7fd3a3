---------------------------- MODULE MCTcpConnection ----------------------------
EXTENDS TcpConnection

ClientOne == [h \in Host |-> IF h = Client THEN 1 ELSE 0]

ClientNumbers == [q \in Port |-> 0]
================================================================================
