\* One message, looked up and run at any point of five registrations, three
\* of which come from a blueprint.
SPECIFICATION Spec
CONSTANTS
    x = x
    y = y
    z = z
    p = p
    q = q
    h1 = h1
    h2 = h2
    h3 = h3
    h4 = h4
    a = a
    b = b
    Paths = {x, y, z}
    Patterns = {p, q}
    Matches <- SomeMatches
    Handlers = {h1, h2, h3, h4}
    Middleware = {a, b}
    Registered <- SomeBlueprint
    Calls <- SomeCalls
    Messages = {m}
    Waiting = {m}
INVARIANTS
    MiddlewareFirst
    RoutedAsRegistered
    AnswersMatchFailures
    BlueprintKept
\* When everything is registered and the message has been run, nothing is left.
CHECK_DEADLOCK FALSE
