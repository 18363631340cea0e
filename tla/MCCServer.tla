----------------------------- MODULE MCCServer -----------------------------
\* Two connections served by a pool of two threads, or by a single thread.
EXTENDS CServer

CONSTANTS s1, s2, t1, t2

MCSession == {s1, s2}
MCThread == {t1, t2}
MCPool == {{t1}, {t1, t2}}
=============================================================================
