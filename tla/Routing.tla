------------------------------- MODULE Routing -------------------------------
(***************************************************************************)
(* The routes of EventDispatcher: register_path fills the tables of paths  *)
(* and of patterns with <parameters>, emit_path looks a message up on the  *)
(* reader thread, and _dispatch runs the middleware and the handlers that  *)
(* it found on a worker. Nothing locks the tables: a message may be looked *)
(* up between any two updates of a registration, and what it holds are the *)
(* lists of the tables, which may grow until it runs them.                 *)
(*                                                                         *)
(* The pool between lookup and _dispatch is the matter of Dispatcher; here *)
(* a message may be run at any time after its lookup.                      *)
(***************************************************************************)
EXTENDS Integers, Sequences, FiniteSets

CONSTANTS
    Paths,       \* paths of messages; a route without parameters is a path
    Patterns,    \* routes with parameters
    Matches,     \* the paths that the regex of each pattern matches
    Handlers, Middleware,
    Calls,       \* the calls of register_path, in the order they are made
    Messages,
    Waiting      \* those whose sender waits for an answer (direct_response)

Routes == Paths \cup Patterns
Call == [route : Routes, handler : Handlers, middleware : Seq(Middleware),
         block : BOOLEAN]

ASSUME RoutingAssumption ==
    /\ Paths \cap Patterns = {}
    /\ Handlers \cap Middleware = {}
    /\ Matches \in [Patterns -> SUBSET Paths]
    /\ Calls \in Seq(Call)
    /\ Waiting \subseteq Messages

VARIABLES
    patterns,         \* _path_patterns
    handlers,         \* _path_handlers and _path_pattern_handlers, ...
    middleware,       \* ... _path_middleware and _path_pattern_middleware,
    handlerKeys, middlewareKeys,    \* and the routes that have an entry there
    blocking,         \* _path_blocking and _path_pattern_blocking
    call, pos,        \* the registration in progress and its next update
    msg,              \* how far each message is, and what it holds
    ran,              \* what was run for it, and how that ended
    told              \* the automatic answers to its sender

tables == <<patterns, handlers, middleware, handlerKeys, middlewareKeys, blocking>>
vars == <<tables, call, pos, msg, ran, told>>

Init ==
    /\ patterns = <<>>
    /\ handlers = [r \in Routes |-> <<>>]
    /\ middleware = [r \in Routes |-> <<>>]
    /\ handlerKeys = {} /\ middlewareKeys = {} /\ blocking = {}
    /\ call = 1 /\ pos = 1
    /\ \E path \in [Messages -> Paths] :
          msg = [m \in Messages |->
                   [at |-> "new", path |-> path[m], route |-> path[m], since |-> 0,
                    ownHandlers |-> TRUE, ownMiddleware |-> TRUE, serial |-> FALSE,
                    next |-> 1, retry |-> FALSE]]
    /\ ran = [m \in Messages |-> <<>>]
    /\ told = [m \in Messages |-> <<>>]

----------------------------------------------------------------------------
(* register_path. One update of a table at a time, as the code orders them. *)

Update(kind, list) == [kind |-> kind, list |-> list]

\* Middleware goes to the table of an exact path one by one, after the handler
\* and block; to that of a pattern at once, before block.
Script(c) ==
    LET handler == <<Update("entry", <<>>), Update("add", <<>>)>>
        block == IF c.block THEN <<Update("block", <<>>)>> ELSE <<>>
        entry == <<Update("mwEntry", <<>>)>>
    IN
    IF c.route \in Patterns
    THEN <<Update("pattern", <<>>)>> \o handler
             \o (IF c.middleware = <<>> THEN <<>>
                 ELSE entry \o <<Update("mwAdd", c.middleware)>>) \o block
    ELSE handler \o block
             \o (IF c.middleware = <<>> THEN <<>>
                 ELSE entry \o [i \in 1..Len(c.middleware) |->
                                  Update("mwAdd", <<c.middleware[i]>>)])

Known(p) == \E i \in 1..Len(patterns) : patterns[i] = p

Register ==
    /\ call <= Len(Calls)
    /\ LET c == Calls[call]
           u == Script(c)[pos]
       IN
       /\ patterns' = IF u.kind = "pattern" /\ ~Known(c.route)
                         THEN Append(patterns, c.route) ELSE patterns
       /\ handlerKeys' = IF u.kind = "entry" THEN handlerKeys \cup {c.route}
                                             ELSE handlerKeys
       /\ handlers' = IF u.kind = "add"
                         THEN [handlers EXCEPT ![c.route] = Append(@, c.handler)]
                         ELSE handlers
       /\ middlewareKeys' = IF u.kind = "mwEntry" THEN middlewareKeys \cup {c.route}
                                                  ELSE middlewareKeys
       /\ middleware' = IF u.kind = "mwAdd"
                           THEN [middleware EXCEPT ![c.route] = @ \o u.list]
                           ELSE middleware
       /\ blocking' = IF u.kind = "block" THEN blocking \cup {c.route} ELSE blocking
       /\ IF pos = Len(Script(c)) THEN call' = call + 1 /\ pos' = 1
                                  ELSE call' = call /\ pos' = pos + 1
    /\ UNCHANGED <<msg, ran, told>>

----------------------------------------------------------------------------
(* emit_path, on the reader thread: one reading of a table at a time.      *)

Step(m, changes) == msg' = [msg EXCEPT ![m] = changes]

LookupExact(m) ==
    LET path == msg[m].path IN
    /\ msg[m].at = "new"
    /\ Step(m, [msg[m] EXCEPT !.since = call - 1,
                              !.at = IF path \in handlerKeys THEN "middleware"
                                                             ELSE "match"])
    /\ UNCHANGED <<tables, call, pos, ran, told>>

Matching(m) == {i \in 1..Len(patterns) : msg[m].path \in Matches[patterns[i]]}

\* Mutant: the pattern that was registered last wins.
LookupLastPattern(m) ==
    /\ msg[m].at = "match"
    /\ IF Matching(m) = {}
          THEN Step(m, [msg[m] EXCEPT !.at = "unrouted"])
          ELSE \E i \in Matching(m) :
                 /\ \A j \in Matching(m) : j <= i
                 /\ Step(m, [msg[m] EXCEPT !.route = patterns[i], !.at = "handlers"])
    /\ UNCHANGED <<tables, call, pos, ran, told>>

\* One step for the loop: a pattern that is added while it runs comes last.
LookupPattern(m) ==
    /\ msg[m].at = "match"
    /\ IF Matching(m) = {}
          THEN Step(m, [msg[m] EXCEPT !.at = "unrouted"])
          ELSE \E i \in Matching(m) :
                 /\ \A j \in Matching(m) : i <= j
                 /\ Step(m, [msg[m] EXCEPT !.route = patterns[i], !.at = "handlers"])
    /\ UNCHANGED <<tables, call, pos, ran, told>>

\* get(route, []): the list of the table, which still grows, or an empty one of
\* the message's own, which does not.
FetchHandlers(m) ==
    /\ msg[m].at = "handlers"
    /\ Step(m, [msg[m] EXCEPT !.ownHandlers = msg[m].route \in handlerKeys,
                              !.at = "middleware"])
    /\ UNCHANGED <<tables, call, pos, ran, told>>

FetchMiddleware(m) ==
    /\ msg[m].at = "middleware"
    /\ Step(m, [msg[m] EXCEPT !.ownMiddleware = msg[m].route \in middlewareKeys,
                              !.at = "blocking"])
    /\ UNCHANGED <<tables, call, pos, ran, told>>

\* The message goes to the queue of its (route, client) or straight to the pool.
FetchBlocking(m) ==
    /\ msg[m].at = "blocking"
    /\ Step(m, [msg[m] EXCEPT !.serial = msg[m].route \in blocking, !.at = "guard"])
    /\ UNCHANGED <<tables, call, pos, ran, told>>

----------------------------------------------------------------------------
(* _dispatch and _report_no_route, on a worker.                            *)

Guards(m)  == IF msg[m].ownMiddleware THEN middleware[msg[m].route] ELSE <<>>
Serves(m)  == IF msg[m].ownHandlers THEN handlers[msg[m].route] ELSE <<>>

Ran(m, f, ending) == ran' = [ran EXCEPT ![m] = Append(@, [what |-> f, end |-> ending])]

\* A middleware gave other data for the rest of _dispatch.
Replaced(m) == \E i \in 1..Len(ran[m]) : ran[m][i].end = "replace"

\* _send_auto_reply finds the address of the sender in the data it is given.
Tell(m, code) ==
    told' = IF m \in Waiting /\ ~Replaced(m)
               THEN [told EXCEPT ![m] = Append(@, code)] ELSE told

NotFound(m) ==
    /\ msg[m].at = "unrouted"
    /\ Step(m, [msg[m] EXCEPT !.at = "notFound"])
    /\ Tell(m, 404)
    /\ UNCHANGED <<tables, call, pos, ran>>

\* It returned None, or other data.
MiddlewarePasses(m) ==
    /\ msg[m].at = "guard"
    /\ msg[m].next <= Len(Guards(m))
    /\ \E ending \in {"pass", "replace"} : Ran(m, Guards(m)[msg[m].next], ending)
    /\ Step(m, [msg[m] EXCEPT !.next = @ + 1])
    /\ UNCHANGED <<tables, call, pos, told>>

\* It returned False.
MiddlewareRejects(m) ==
    /\ msg[m].at = "guard"
    /\ msg[m].next <= Len(Guards(m))
    /\ Ran(m, Guards(m)[msg[m].next], "reject")
    /\ Step(m, [msg[m] EXCEPT !.at = "stopped"])
    /\ UNCHANGED <<tables, call, pos, told>>

\* Mutant: a middleware that fails is reported and passed over.
MiddlewareFailsOn(m) ==
    /\ msg[m].at = "guard"
    /\ msg[m].next <= Len(Guards(m))
    /\ Ran(m, Guards(m)[msg[m].next], "fail")
    /\ Tell(m, 500)
    /\ Step(m, [msg[m] EXCEPT !.next = @ + 1])
    /\ UNCHANGED <<tables, call, pos>>

MiddlewareFails(m) ==
    /\ msg[m].at = "guard"
    /\ msg[m].next <= Len(Guards(m))
    /\ Ran(m, Guards(m)[msg[m].next], "fail")
    /\ Tell(m, 500)
    /\ Step(m, [msg[m] EXCEPT !.at = "stopped"])
    /\ UNCHANGED <<tables, call, pos>>

EndMiddleware(m) ==
    /\ msg[m].at = "guard"
    /\ msg[m].next > Len(Guards(m))
    /\ Step(m, [msg[m] EXCEPT !.at = "serve", !.next = 1])
    /\ UNCHANGED <<tables, call, pos, ran, told>>

\* Mutant: the failure of a handler is logged and not answered.
HandlerFailsQuietly(m) ==
    /\ msg[m].at = "serve"
    /\ msg[m].next <= Len(Serves(m))
    /\ \E ending \in {"return", "fail"} : Ran(m, Serves(m)[msg[m].next], ending)
    /\ Step(m, [msg[m] EXCEPT !.next = @ + 1, !.retry = FALSE])
    /\ UNCHANGED <<tables, call, pos, told>>

\* A handler fails alone: those after it run all the same.
HandlerEnds(m) ==
    /\ msg[m].at = "serve"
    /\ msg[m].next <= Len(Serves(m))
    /\ \/ Ran(m, Serves(m)[msg[m].next], "return") /\ UNCHANGED told
       \/ Ran(m, Serves(m)[msg[m].next], "fail") /\ Tell(m, 500)
    /\ Step(m, [msg[m] EXCEPT !.next = @ + 1, !.retry = FALSE])
    /\ UNCHANGED <<tables, call, pos>>

\* A TypeError of a call with parameters: the handler does not take them, or it
\* ran and raised it. Either way it is called again without.
HandlerTypeError(m) ==
    /\ msg[m].at = "serve"
    /\ msg[m].next <= Len(Serves(m))
    /\ msg[m].route \in Patterns
    /\ ~msg[m].retry
    /\ \/ UNCHANGED ran
       \/ Ran(m, Serves(m)[msg[m].next], "typeError")
    /\ Step(m, [msg[m] EXCEPT !.retry = TRUE])
    /\ UNCHANGED <<tables, call, pos, told>>

EndHandlers(m) ==
    /\ msg[m].at = "serve"
    /\ msg[m].next > Len(Serves(m))
    /\ Step(m, [msg[m] EXCEPT !.at = "done"])
    /\ UNCHANGED <<tables, call, pos, ran, told>>

----------------------------------------------------------------------------
Lookup(m) == \/ LookupExact(m) \/ LookupPattern(m) \/ FetchHandlers(m)
             \/ FetchMiddleware(m) \/ FetchBlocking(m)

Dispatch(m) == \/ NotFound(m) \/ MiddlewarePasses(m) \/ MiddlewareRejects(m)
               \/ MiddlewareFails(m) \/ EndMiddleware(m) \/ HandlerEnds(m)
               \/ HandlerTypeError(m) \/ EndHandlers(m)

Next == Register \/ \E m \in Messages : Lookup(m) \/ Dispatch(m)

Spec == Init /\ [][Next]_vars

----------------------------------------------------------------------------
Places == {"new", "match", "handlers", "middleware", "blocking", "unrouted",
           "guard", "serve", "done", "stopped", "notFound"}
Endings == {"pass", "replace", "reject", "return", "fail", "typeError"}

Held == [at : Places, path : Paths, route : Routes, since : Nat,
         ownHandlers : BOOLEAN, ownMiddleware : BOOLEAN, serial : BOOLEAN,
         next : Nat \ {0}, retry : BOOLEAN]
Entries == [what : Handlers \cup Middleware, end : Endings]

(* Every variable keeps its shape.                                          *)
TypeOK ==
    /\ patterns \in Seq(Patterns)
    /\ handlers \in [Routes -> Seq(Handlers)]
    /\ middleware \in [Routes -> Seq(Middleware)]
    /\ handlerKeys \subseteq Routes /\ middlewareKeys \subseteq Routes
    /\ blocking \subseteq Routes
    /\ call \in Nat \ {0} /\ pos \in Nat \ {0}
    /\ msg \in [Messages -> Held]
    /\ ran \in [Messages -> Seq(Entries)]
    /\ told \in [Messages -> Seq({404, 500})]

\* The registrations that were complete when the lookup of m began.
Before(m, c) == c \in 1..Len(Calls) /\ c <= msg[m].since

(* No handler runs for a message unless every middleware of its route that  *)
(* was registered before the message came has run before it, and none of    *)
(* them refused the message or failed; whatever is being registered at the  *)
(* time. (A registration in progress keeps no such promise for its handler, *)
(* which is in the table before its middleware.)                            *)
MiddlewareFirst ==
    \A m \in Messages : \A i \in 1..Len(ran[m]) :
        ran[m][i].what \in Handlers =>
            /\ \A c \in 1..Len(Calls) :
                  Before(m, c) /\ Calls[c].route = msg[m].route =>
                    \A k \in 1..Len(Calls[c].middleware) :
                      \E j \in 1..(i - 1) : ran[m][j].what = Calls[c].middleware[k]
            /\ \A j \in 1..(i - 1) :
                  ran[m][j].what \in Middleware => ran[m][j].end \in {"pass", "replace"}

\* Those of them that serve the path of m, exactly or by a pattern.
Exact(m)     == {c \in 1..Len(Calls) : Before(m, c) /\ Calls[c].route = msg[m].path}
ByPattern(m) == {c \in 1..Len(Calls) :
                   /\ Before(m, c) /\ Calls[c].route \in Patterns
                   /\ msg[m].path \in Matches[Calls[c].route]}

\* The places in ran[m] of the handlers that ran, without the first of two calls
\* of one handler; those of them up to place i; and the registrations of a route
\* up to c.
Served(m) == {i \in 1..Len(ran[m]) : /\ ran[m][i].what \in Handlers
                                     /\ ran[m][i].end # "typeError"}
ServedUpTo(m, i) == {j \in Served(m) : j <= i}
CallsUpTo(r, c)  == {d \in 1..c : Calls[d].route = r}

\* The route is the path, if that is registered or just being so, or else the
\* first pattern that matches; the message is run alone if a registration of its
\* route wants that; and the handlers registered before it came run in order.
RightRoute(m) ==
    \/ /\ msg[m].route = msg[m].path
       /\ \/ Exact(m) # {}
          \/ /\ msg[m].since < Len(Calls)
             /\ Calls[msg[m].since + 1].route = msg[m].path
    \/ /\ Exact(m) = {}
       /\ \E p \in ByPattern(m) :
             /\ \A c \in ByPattern(m) : p <= c
             /\ msg[m].route = Calls[p].route
    \/ /\ Exact(m) = {} /\ ByPattern(m) = {}
       /\ msg[m].path \in Matches[msg[m].route]

OfRoute(m) == {c \in 1..Len(Calls) : Before(m, c) /\ Calls[c].route = msg[m].route}

RightBlock(m) == \A c \in OfRoute(m) : Calls[c].block => msg[m].serial

RightHandlers(m) ==
    \A c \in OfRoute(m) : \E i \in Served(m) :
        /\ ran[m][i].what = Calls[c].handler
        /\ Cardinality(ServedUpTo(m, i)) = Cardinality(CallsUpTo(msg[m].route, c))

(* A message gets the route that the complete registrations say: its path,  *)
(* or else the pattern registered first among those that match; it is run   *)
(* alone if that route blocks, and by all handlers of the route in order of *)
(* registration, first those that were there when it came. Registrations in *)
(* progress change that in one way: the path of the message itself, of which *)
(* the first handler is just being added, hides the patterns that match it. *)
(* No answer 404 goes out for a path that is served.                        *)
RoutedAsRegistered ==
    \A m \in Messages :
        /\ msg[m].at = "notFound" => Exact(m) = {} /\ ByPattern(m) = {}
        /\ msg[m].at \in {"guard", "serve", "done", "stopped"} =>
              RightRoute(m) /\ RightBlock(m)
        /\ msg[m].at = "done" => RightHandlers(m)

\* What failed; and what failed while the message was the one that had come.
AllFailures(m) == {i \in 1..Len(ran[m]) : ran[m][i].end = "fail"}
Failures(m) == {i \in 1..Len(ran[m]) :
                  /\ ran[m][i].end = "fail"
                  /\ \A j \in 1..(i - 1) : ran[m][j].end # "replace"}

(* A sender who waits is told 404 once if nothing serves the path, and else *)
(* 500 and nothing but 500: for each failure of a handler or a middleware   *)
(* up to the point where a middleware puts other data in place of the       *)
(* message, and never more often than something failed, whichever handlers  *)
(* are called again for a TypeError. One that does not wait is told nothing. *)
AnswersMatchFailures ==
    \A m \in Messages :
        msg[m].at \in {"done", "stopped", "notFound"} =>
            IF m \notin Waiting THEN told[m] = <<>>
            ELSE IF msg[m].at = "notFound" THEN told[m] = <<404>>
            ELSE /\ \A i \in 1..Len(told[m]) : told[m][i] = 500
                 /\ Cardinality(Failures(m)) <= Len(told[m])
                 /\ Len(told[m]) <= Cardinality(AllFailures(m))

(* dispatcher.py:251, "Log a failed path handler and answer the caller with *)
(* a 500", and 234, "Answer a waiting caller on their own data_id": whoever *)
(* waits is told 500 for every failure. The code answers by the data in     *)
(* hand (dispatcher.py:382, 397): once a middleware has put other data in   *)
(* place of the message, the sender is told nothing and waits in vain.      *)
FailuresAnswered ==
    \A m \in Messages :
        m \in Waiting /\ msg[m].at \in {"done", "stopped"} =>
            told[m] = [i \in 1..Cardinality(AllFailures(m)) |-> 500]

=============================================================================
