----------------------------- MODULE MCRequests -----------------------------
(* Small instances of Requests for TLC.                                     *)
EXTENDS Requests

CONSTANTS First, Second, Home, Away, Id, OtherId

\* Two requests of one key, of two ids on one connection, or of one id on two
\* connections; two that share neither have nothing to do with each other. (No
\* SYMMETRY, which is unsound for liveness.)
Clashes ==
    /\ key[First] = <<Home, Id>>
    /\ key[Second] \in {<<Home, Id>>, <<Home, OtherId>>, <<Away, Id>>}

ClashInit == Init /\ Clashes

ClashSpec == ClashInit /\ [][Next]_vars /\ Fairness

=============================================================================
