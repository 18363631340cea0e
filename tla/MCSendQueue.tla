---------------------------- MODULE MCSendQueue ----------------------------
\* One session, whose queue is full with two nodes, and four calls of Send.
EXTENDS SendQueue

CONSTANTS s1, n1, n2, n3, n4

MCSession == {s1}
MCNode == {n1, n2, n3, n4}
MCPieces == 2
MCMAX_SENDQUE == 1
=============================================================================
