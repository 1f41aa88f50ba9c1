------------------------------ MODULE Blueprint ------------------------------
(***************************************************************************)
(* Blueprint: paths are registered on it as on a dispatcher, and all of    *)
(* them on the dispatcher later, by register_with_dispatcher. A blueprint  *)
(* keeps the middleware of a path in one list, whichever of its handlers   *)
(* it came with.                                                           *)
(***************************************************************************)
EXTENDS Routing, SequencesExt

CONSTANT Registered     \* the calls of register_path of the blueprint, in order

ASSUME BlueprintAssumption == Registered \in Seq(Call)

Of(r) == SelectSeq(Registered, LAMBDA c : c.route = r)

\* The tables of the blueprint.
OwnHandlers(r)   == [i \in 1..Len(Of(r)) |-> Of(r)[i].handler]
OwnMiddleware(r) == FlattenSeq([i \in 1..Len(Of(r)) |-> Of(r)[i].middleware])
OwnBlocking(r)   == \E i \in 1..Len(Of(r)) : Of(r)[i].block

\* Its paths, in the order in which they were first used.
OwnPaths == FoldLeft(LAMBDA ps, c : IF Contains(ps, c.route) THEN ps
                                                             ELSE Append(ps, c.route),
                     <<>>, Registered)

\* Mutant: the middleware of the first registration of a path stands for all.
PathCallsFirst(r) ==
    [i \in 1..Len(OwnHandlers(r)) |->
       [route |-> r, handler |-> OwnHandlers(r)[i],
        middleware |-> Of(r)[1].middleware, block |-> OwnBlocking(r)]]

\* The calls of dispatcher.register_path for one path: one for each handler,
\* with all the middleware of the path each time.
PathCalls(r) ==
    [i \in 1..Len(OwnHandlers(r)) |->
       [route |-> r, handler |-> OwnHandlers(r)[i],
        middleware |-> OwnMiddleware(r), block |-> OwnBlocking(r)]]

\* register_with_dispatcher.
BlueprintCalls == FlattenSeq([i \in 1..Len(OwnPaths) |-> PathCalls(OwnPaths[i])])

(* A message that comes after the blueprint was registered, to a path that  *)
(* only the blueprint has registered so far, is run by the handlers that    *)
(* the blueprint was given for it, in order, after their middleware, which  *)
(* runs in the order it was given but as many times as the path has         *)
(* handlers; and it runs alone if any of them was to block.                 *)
BlueprintKept ==
    \A m \in Messages :
        LET r == msg[m].route
            guards == SelectSeq(ran[m], LAMBDA e : e.what \in Middleware)
            served == SelectSeq(ran[m], LAMBDA e : /\ e.what \in Handlers
                                                   /\ e.end # "typeError")
            times == Len(OwnHandlers(r)) * Len(OwnMiddleware(r))
        IN
        (msg[m].at = "done" /\ msg[m].since >= Len(Registered)) =>
            /\ Len(OwnHandlers(r)) <= Len(served)
            /\ \A i \in 1..Len(OwnHandlers(r)) :
                  served[i].what = OwnHandlers(r)[i]
            /\ times <= Len(guards)
            /\ \A i \in 1..times :
                  guards[i].what =
                      OwnMiddleware(r)[((i - 1) % Len(OwnMiddleware(r))) + 1]
            /\ OwnBlocking(r) => msg[m].serial

=============================================================================
