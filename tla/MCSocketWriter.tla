--------------------------- MODULE MCSocketWriter ---------------------------
(* A small instance of SocketWriter for TLC.                                *)
EXTENDS SocketWriter

CONSTANTS large

\* A large frame and the others: neither the queue of a writer nor the budget
\* takes a large frame with a small one when its bound is 2.
SomeSize == [f \in Frames |-> IF f = large THEN 2 ELSE 1]

=============================================================================
