------------------------------ MODULE MCClient ------------------------------
(* A small instance of Client for TLC.                                      *)
EXTENDS Client

\* A frame that cannot be unpacked before one that can; then a frame that
\* announces a length that is refused.
SomeStreams == <<<<Frame(0, 1, "bad"), Frame(1, 2, "good")>>,
                 <<Frame(0, 1, "big")>>>>

=============================================================================
