----------------------------- MODULE MCHandshake -----------------------------
(* A small instance of Handshake for TLC.                                   *)
EXTENDS Handshake, TLC

\* Ranges that are equal, nested, overlapping and disjoint, one given by its
\* upper bound alone, and no option at all. The build speaks version 1 only,
\* as protocol.py does.
SomeOptions == {[min |-> Unset, max |-> Unset], [min |-> Unset, max |-> 2],
                [min |-> 1, max |-> 1], [min |-> 2, max |-> 3]}

=============================================================================
