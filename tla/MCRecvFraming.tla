--------------------------- MODULE MCRecvFraming ---------------------------
\* One peer that writes up to three frames with empty and short bodies, so that
\* a chunk can hold a whole frame and the beginning of the next.  Text is read as
\* a length the peers write, as the longest there is, as one too many, or as a
\* negative one: that of a node of 3 to 0 bytes, of none, or of one that throws.
EXTENDS RecvFraming

CONSTANT s1

MCSession == {s1}
MCHead == 4
MCMaxLength == 8
MCBodyLen == {0, 1, 3}
MCShort == -6..1 \cup {3, 8, 9}
MCMaxFrames == 3
=============================================================================
