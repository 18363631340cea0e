--------------------------- MODULE MCLogicSystem ---------------------------
\* Four messages, one of them with an id that has no callback.
EXTENDS LogicSystem

CONSTANTS m1, m2, m3, m4

MCLogicNode == {m1, m2, m3, m4}
MCRegistered == {m1, m2, m3}
=============================================================================
