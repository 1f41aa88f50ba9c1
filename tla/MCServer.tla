------------------------------ MODULE MCServer ------------------------------
(* A small instance of Server for TLC: two peers, with the same address or  *)
(* with two. The addresses are interchangeable: the first peer has the      *)
(* first of them.                                                          *)
EXTENDS Server

CONSTANTS a, b
TwoAddresses == {a, b}

MCInit == Init /\ address[1] = a
MCSpec == MCInit /\ [][Next]_vars

=============================================================================
