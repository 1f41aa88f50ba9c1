----------------------------- MODULE Negotiation -----------------------------
(***************************************************************************)
(* protocol.py: the versions a side understands form a range, and the peers *)
(* speak the highest version that both ranges hold. The version constants   *)
(* of this build are parameters. Versions are integers: int() has been      *)
(* applied, and a body without a well-formed range is NoRange.              *)
(***************************************************************************)
EXTENDS Integers

CONSTANTS
    ProtocolVersion,     \* PROTOCOL_VERSION, of a server that does not negotiate
    MinProtocolVersion,  \* MIN_PROTOCOL_VERSION
    MaxProtocolVersion,  \* MAX_PROTOCOL_VERSION
    Unset                \* Python's None: an option that was not given

ASSUME NegotiationAssumption ==
    /\ ProtocolVersion \in Int
    /\ MinProtocolVersion \in Int
    /\ MaxProtocolVersion \in Int
    /\ MinProtocolVersion <= MaxProtocolVersion
    /\ Unset \notin Int

\* The ranges make_range can return.
VersionRange == {r \in [min : Int, max : Int] : r.min <= r.max}
NoRange   == [min |-> Unset, max |-> Unset]
NoVersion == Unset

Larger(a, b)  == IF a >= b THEN a ELSE b
Smaller(a, b) == IF a <= b THEN a ELSE b

IsEnabled(version, minimum, maximum) ==
    version # Unset \/ minimum # Unset \/ maximum # Unset

\* NoRange stands for the ValueError of an empty range.
MakeRange(minimum, maximum) ==
    LET low  == IF minimum = Unset THEN MinProtocolVersion ELSE minimum
        high == IF maximum = Unset THEN MaxProtocolVersion ELSE maximum
    IN  IF low > high THEN NoRange ELSE [min |-> low, max |-> high]

Negotiate(local, remote) ==
    IF remote = NoRange
    THEN NoVersion
    ELSE LET highestMin == Larger(local.min, remote.min)
             lowestMax  == Smaller(local.max, remote.max)
         IN  IF highestMin > lowestMax THEN NoVersion ELSE lowestMax

----------------------------------------------------------------------------
\* What the two peers should agree on: a version both ranges hold.
Holds(r, v) == r.min <= v /\ v <= r.max

IsHighestCommon(v, a, b) ==
    /\ Holds(a, v) /\ Holds(b, v)
    /\ \A u \in a.min..a.max : Holds(b, u) => u <= v

Overlap(a, b) == \E v \in a.min..a.max : Holds(b, v)

=============================================================================
