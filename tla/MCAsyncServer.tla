--------------------------- MODULE MCAsyncServer ---------------------------
\* Two clients with a request each, or one client with three.
EXTENDS AsyncServer, TLC

CONSTANTS c1, c2

MCShort == {-6, -1, 1, 5}
MCSession == {c1, c2}
MCPlan == {(c1 :> 1) @@ (c2 :> 1), (c1 :> 3) @@ (c2 :> 0)}
=============================================================================
