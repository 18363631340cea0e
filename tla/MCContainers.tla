---------------------------- MODULE MCContainers ----------------------------
\* A hash function for Containers.
EXTENDS Containers

\* Two of the three keys share a bucket until the table has eight, which a
\* table of two has after two rehashes, with the fourth node.
Hash(k) == CASE k = 1 -> 0 [] k = 2 -> 4 [] k = 3 -> 1
=============================================================================
