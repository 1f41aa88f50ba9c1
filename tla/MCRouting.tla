----------------------------- MODULE MCRouting -----------------------------
(* A small instance of Routing and Blueprint for TLC.                       *)
EXTENDS Blueprint

CONSTANTS x, y, z, p, q, h1, h2, h3, h4, a, b

Reg(r, h, mws, blocks) ==
    [route |-> r, handler |-> h, middleware |-> mws, block |-> blocks]

\* The pattern p matches x and y, q matches x and z.
SomeMatches == p :> {x, y} @@ q :> {x, z}

\* A blueprint with two handlers for p, which bring a middleware each, and one
\* for q in between.
SomeBlueprint == <<Reg(p, h1, <<a>>, FALSE), Reg(q, h3, <<b>>, FALSE),
                   Reg(p, h2, <<b>>, TRUE)>>

\* After the blueprint: a path that both patterns match, with two handlers.
SomeCalls == BlueprintCalls \o <<Reg(x, h3, <<a, b>>, TRUE), Reg(x, h4, <<>>, FALSE)>>

=============================================================================
