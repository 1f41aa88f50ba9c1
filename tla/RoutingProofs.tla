---------------------------- MODULE RoutingProofs ----------------------------
(***************************************************************************)
(* Proofs about Routing, for any paths, patterns, registrations and        *)
(* messages: every variable keeps its shape, no handler runs before the    *)
(* middleware that was registered for its route when the message came, a   *)
(* message goes to the route that was registered for it and its handlers   *)
(* run in the order of their registration, and the sender is told of every *)
(* failure, although no lock protects the tables.                          *)
(***************************************************************************)
EXTENDS Routing, FiniteSetTheorems, TLAPS

Updates == [kind : {"pattern", "entry", "add", "mwEntry", "mwAdd", "block"},
            list : Seq(Middleware)]

\* Those of one registration: a path without parameters is no pattern.
UpdatesOf(c) == {u \in Updates : u.kind = "pattern" => c.route \in Patterns}

Has(s, u) == \E n \in 1..Len(s) : s[n] = u

\* The place of the update that adds the handler, and that there is no other.
AddAt(c) == IF c.route \in Patterns THEN 3 ELSE 2
NoAdd(s) == \A n \in 1..Len(s) : s[n].kind # "add"
AddOnlyAt(s, k) == k \in 1..Len(s) /\ \A n \in 1..Len(s) : s[n].kind = "add" <=> n = k

----------------------------------------------------------------------------
(* The updates of a registration.                                          *)

\* What a sequence of one element contains.
LEMMA Single ==
    ASSUME NEW S, NEW x \in S
    PROVE  <<x>> \in Seq(S) /\ Has(<<x>>, x)
  <1>1. <<x>> \in Seq(S) /\ Len(<<x>>) = 1 /\ <<x>>[1] = x
    OBVIOUS
  <1> QED
    BY <1>1 DEF Has

\* And of two.
LEMMA Couple ==
    ASSUME NEW S, NEW x \in S, NEW y \in S
    PROVE  <<x, y>> \in Seq(S) /\ Has(<<x, y>>, x)
  <1>1. <<x, y>> \in Seq(S) /\ Len(<<x, y>>) = 2 /\ <<x, y>>[1] = x
    OBVIOUS
  <1> QED
    BY <1>1 DEF Has

\* The elements of a concatenation.
LEMMA Joined ==
    ASSUME NEW S, NEW s \in Seq(S), NEW t \in Seq(S)
    PROVE  /\ s \o t \in Seq(S)
           /\ Len(s) \in Nat /\ Len(t) \in Nat /\ Len(s \o t) = Len(s) + Len(t)
           /\ \A n \in 1..Len(s) : (s \o t)[n] = s[n]
           /\ \A n \in 1..Len(t) : (s \o t)[Len(s) + n] = t[n]
  OBVIOUS

\* A concatenation contains what its parts contain.
LEMMA Concatenated ==
    ASSUME NEW S, NEW s \in Seq(S), NEW t \in Seq(S)
    PROVE  /\ s \o t \in Seq(S)
           /\ \A u : Has(s, u) \/ Has(t, u) => Has(s \o t, u)
  <1>1. /\ s \o t \in Seq(S)
        /\ Len(s) \in Nat /\ Len(t) \in Nat /\ Len(s \o t) = Len(s) + Len(t)
        /\ \A n \in 1..Len(s) : (s \o t)[n] = s[n]
        /\ \A n \in 1..Len(t) : (s \o t)[Len(s) + n] = t[n]
    BY Joined
  <1>2. ASSUME NEW u, Has(s, u) PROVE Has(s \o t, u)
    BY <1>1, <1>2 DEF Has
  <1>3. ASSUME NEW u, Has(t, u) PROVE Has(s \o t, u)
    <2>1. PICK n \in 1..Len(t) : t[n] = u
      BY <1>3 DEF Has
    <2>2. Len(s) + n \in 1..Len(s \o t)
      BY <1>1
    <2> QED
      BY <1>1, <2>1, <2>2 DEF Has
  <1> QED
    BY <1>1, <1>2, <1>3

\* A list without such an update can follow.
LEMMA NoAddFollows ==
    ASSUME NEW S, NEW s \in Seq(S), NEW t \in Seq(S), NoAdd(t)
    PROVE  /\ NoAdd(s) => NoAdd(s \o t)
           /\ \A k : AddOnlyAt(s, k) => AddOnlyAt(s \o t, k)
  <1>1. /\ s \o t \in Seq(S)
        /\ Len(s) \in Nat /\ Len(t) \in Nat /\ Len(s \o t) = Len(s) + Len(t)
        /\ \A n \in 1..Len(s) : (s \o t)[n] = s[n]
        /\ \A n \in 1..Len(t) : (s \o t)[Len(s) + n] = t[n]
    BY Joined
  <1>2. ASSUME NEW n \in 1..Len(s \o t), n \notin 1..Len(s)
        PROVE  (s \o t)[n].kind # "add"
    <2>1. n - Len(s) \in 1..Len(t) /\ Len(s) + (n - Len(s)) = n
      BY <1>1, <1>2
    <2>2. (s \o t)[n] = t[n - Len(s)]
      BY <1>1, <2>1
    <2> QED
      BY <2>1, <2>2 DEF NoAdd
  <1>3. 1..Len(s) \subseteq 1..Len(s \o t)
    BY <1>1
  <1>4. NoAdd(s) => NoAdd(s \o t)
    BY <1>1, <1>2 DEF NoAdd
  <1>5. ASSUME NEW k, AddOnlyAt(s, k) PROVE AddOnlyAt(s \o t, k)
    BY <1>1, <1>2, <1>3, <1>5 DEF AddOnlyAt
  <1> QED
    BY <1>4, <1>5

\* Each update is of a known kind; the entry, the pattern, the block and every
\* middleware of the registration have one, and one alone adds the handler.
LEMMA ScriptCovers ==
    ASSUME NEW c \in Call
    PROVE  /\ Script(c) \in Seq(UpdatesOf(c))
           /\ Has(Script(c), Update("entry", <<>>))
           /\ AddOnlyAt(Script(c), AddAt(c))
           /\ c.route \in Patterns => Has(Script(c), Update("pattern", <<>>))
           /\ c.block => Has(Script(c), Update("block", <<>>))
           /\ \A k \in 1..Len(c.middleware) :
                 /\ Has(Script(c), Update("mwEntry", <<>>))
                 /\ \/ Has(Script(c), Update("mwAdd", c.middleware))
                    \/ Has(Script(c), Update("mwAdd", <<c.middleware[k]>>))
  <1>1. /\ c.route \in Patterns => Update("pattern", <<>>) \in UpdatesOf(c)
        /\ Update("entry", <<>>) \in UpdatesOf(c)
        /\ Update("add", <<>>) \in UpdatesOf(c)
        /\ Update("block", <<>>) \in UpdatesOf(c)
        /\ Update("mwEntry", <<>>) \in UpdatesOf(c)
        /\ Update("mwAdd", c.middleware) \in UpdatesOf(c)
        /\ \A i \in 1..Len(c.middleware) : Update("mwAdd", <<c.middleware[i]>>) \in UpdatesOf(c)
    <2>1. /\ <<>> \in Seq(Middleware) /\ c.middleware \in Seq(Middleware)
          /\ \A i \in 1..Len(c.middleware) : <<c.middleware[i]>> \in Seq(Middleware)
      BY DEF Call
    <2> QED
      BY <2>1 DEF Updates, UpdatesOf, Update
  <1> DEFINE handler == <<Update("entry", <<>>), Update("add", <<>>)>>
             block == IF c.block THEN <<Update("block", <<>>)>> ELSE <<>>
             entry == <<Update("mwEntry", <<>>)>>
             adds == [i \in 1..Len(c.middleware) |->
                        Update("mwAdd", <<c.middleware[i]>>)]
             once == <<Update("mwAdd", c.middleware)>>
             first == <<Update("pattern", <<>>)>>
  <1>2. handler \in Seq(UpdatesOf(c)) /\ Has(handler, Update("entry", <<>>))
    BY <1>1, Couple
  <1>3. /\ block \in Seq(UpdatesOf(c)) /\ NoAdd(block)
        /\ c.block => Has(block, Update("block", <<>>))
    <2>1. CASE c.block
      BY <1>1, <2>1, Single DEF NoAdd, Update
    <2>2. CASE ~c.block
      BY <2>2 DEF NoAdd
    <2> QED
      BY <2>1, <2>2
  <1>4. entry \in Seq(UpdatesOf(c)) /\ Has(entry, Update("mwEntry", <<>>)) /\ NoAdd(entry)
    BY <1>1, Single DEF NoAdd, Update
  <1>5. /\ once \in Seq(UpdatesOf(c)) /\ Has(once, Update("mwAdd", c.middleware))
        /\ NoAdd(once)
    BY <1>1, Single DEF NoAdd, Update
  <1>6. c.route \in Patterns => /\ first \in Seq(UpdatesOf(c))
                                /\ Has(first, Update("pattern", <<>>))
    BY <1>1, Single
  <1>7. /\ adds \in Seq(UpdatesOf(c))
        /\ \A k \in 1..Len(c.middleware) : Has(adds, Update("mwAdd", <<c.middleware[k]>>))
        /\ NoAdd(adds)
    <2>1. Len(c.middleware) \in Nat
      BY DEF Call
    <2>2. adds \in Seq(UpdatesOf(c)) /\ Len(adds) = Len(c.middleware)
      BY <1>1, <2>1
    <2>3. \A k \in 1..Len(c.middleware) : adds[k] = Update("mwAdd", <<c.middleware[k]>>)
      OBVIOUS
    <2>4. NoAdd(adds)
      BY <2>1, <2>2, <2>3 DEF NoAdd, Update
    <2> QED
      BY <2>2, <2>3, <2>4 DEF Has
  <1>8. Script(c) = IF c.route \in Patterns
                    THEN first \o handler \o (IF c.middleware = <<>> THEN <<>>
                                              ELSE entry \o once) \o block
                    ELSE handler \o block \o (IF c.middleware = <<>> THEN <<>>
                                              ELSE entry \o adds)
    BY DEF Script
  <1>9. /\ <<>> \in Seq(UpdatesOf(c)) /\ NoAdd(<<>>)
        /\ c.middleware = <<>> => 1..Len(c.middleware) = {}
    BY DEF NoAdd
  <1>add. AddOnlyAt(handler, 2) /\ (c.route \in Patterns => AddOnlyAt(first \o handler, 3))
    <2>1. /\ Len(handler) = 2
          /\ handler[1].kind = "entry" /\ handler[2].kind = "add"
      BY DEF Update
    <2>2. Len(first) = 1 /\ first[1].kind = "pattern"
      BY DEF Update
    <2> HIDE DEF first, handler
    <2>3. ASSUME c.route \in Patterns
          PROVE  /\ Len(first \o handler) = 3 /\ (first \o handler)[1] = first[1]
                 /\ (first \o handler)[2] = handler[1]
                 /\ (first \o handler)[3] = handler[2]
      <3>1. first \in Seq(UpdatesOf(c)) /\ handler \in Seq(UpdatesOf(c))
        BY <1>2, <1>6, <2>3
      <3>2. /\ Len(first \o handler) = Len(first) + Len(handler)
            /\ \A n \in 1..Len(first) : (first \o handler)[n] = first[n]
            /\ \A n \in 1..Len(handler) :
                  (first \o handler)[Len(first) + n] = handler[n]
        BY <3>1, Joined
      <3> QED
        BY <2>1, <2>2, <3>2
    <2> QED
      BY <2>1, <2>2, <2>3 DEF AddOnlyAt
  <1> HIDE DEF handler, block, entry, adds, once, first
  <1>10. CASE c.route \in Patterns
    <2> DEFINE guard == IF c.middleware = <<>> THEN <<>> ELSE entry \o once
    <2>1. /\ guard \in Seq(UpdatesOf(c)) /\ NoAdd(guard)
          /\ c.middleware # <<>> => /\ Has(guard, Update("mwEntry", <<>>))
                                    /\ Has(guard, Update("mwAdd", c.middleware))
      BY <1>4, <1>5, <1>9, Concatenated, NoAddFollows
    <2> HIDE DEF guard
    <2>2. /\ first \o handler \in Seq(UpdatesOf(c))
          /\ Has(first \o handler, Update("entry", <<>>))
          /\ Has(first \o handler, Update("pattern", <<>>))
          /\ AddOnlyAt(first \o handler, 3)
      BY <1>2, <1>6, <1>10, <1>add, Concatenated
    <2>3. /\ first \o handler \o guard \in Seq(UpdatesOf(c))
          /\ \A u : Has(first \o handler, u) \/ Has(guard, u)
                      => Has(first \o handler \o guard, u)
          /\ AddOnlyAt(first \o handler \o guard, 3)
      BY <2>1, <2>2, Concatenated, NoAddFollows
    <2>4. /\ first \o handler \o guard \o block \in Seq(UpdatesOf(c))
          /\ \A u : Has(first \o handler \o guard, u) \/ Has(block, u)
                      => Has(first \o handler \o guard \o block, u)
          /\ AddOnlyAt(first \o handler \o guard \o block, 3)
      BY <1>3, <2>3, Concatenated, NoAddFollows
    <2>5. Script(c) = first \o handler \o guard \o block
      BY <1>8, <1>10 DEF guard
    <2>6. AddAt(c) = 3
      BY <1>10 DEF AddAt
    <2> QED
      BY <1>3, <1>9, <2>1, <2>2, <2>3, <2>4, <2>5, <2>6
  <1>11. CASE c.route \notin Patterns
    <2> DEFINE guard == IF c.middleware = <<>> THEN <<>> ELSE entry \o adds
    <2>1. /\ guard \in Seq(UpdatesOf(c)) /\ NoAdd(guard)
          /\ c.middleware # <<>> =>
                /\ Has(guard, Update("mwEntry", <<>>))
                /\ \A k \in 1..Len(c.middleware) :
                      Has(guard, Update("mwAdd", <<c.middleware[k]>>))
      BY <1>4, <1>7, <1>9, Concatenated, NoAddFollows
    <2> HIDE DEF guard
    <2>2. /\ handler \o block \in Seq(UpdatesOf(c))
          /\ \A u : Has(handler, u) \/ Has(block, u) => Has(handler \o block, u)
          /\ AddOnlyAt(handler \o block, 2)
      BY <1>2, <1>3, <1>add, Concatenated, NoAddFollows
    <2>3. /\ handler \o block \o guard \in Seq(UpdatesOf(c))
          /\ \A u : Has(handler \o block, u) \/ Has(guard, u)
                      => Has(handler \o block \o guard, u)
          /\ AddOnlyAt(handler \o block \o guard, 2)
      BY <2>1, <2>2, Concatenated, NoAddFollows
    <2>4. Script(c) = handler \o block \o guard
      BY <1>8, <1>11 DEF guard
    <2>5. AddAt(c) = 2
      BY <1>11 DEF AddAt
    <2> QED
      BY <1>2, <1>3, <1>9, <1>11, <2>1, <2>2, <2>3, <2>4, <2>5
  <1> QED
    BY <1>10, <1>11

----------------------------------------------------------------------------
(* Shapes.                                                                 *)

\* The registration in progress has an update to make; a message knows of those
\* that are complete alone.
Shape ==
    /\ TypeOK
    /\ call <= Len(Calls) + 1
    /\ call <= Len(Calls) => pos <= Len(Script(Calls[call]))
    /\ \A m \in Messages : msg[m].since < call

\* What a list contains, it contains when it has grown.
Grown(old, new) == /\ Len(old) <= Len(new)
                   /\ \A j \in 1..Len(old) : new[j] = old[j]

\* A registration has updates, each of its own kind.
LEMMA ScriptLength ==
    ASSUME NEW c \in 1..Len(Calls)
    PROVE  /\ Calls[c] \in Call
           /\ Len(Script(Calls[c])) \in Nat \ {0}
           /\ \A n \in 1..Len(Script(Calls[c])) :
                 Script(Calls[c])[n] \in UpdatesOf(Calls[c])
  <1>1. Calls[c] \in Call
    BY RoutingAssumption
  <1>2. /\ Script(Calls[c]) \in Seq(UpdatesOf(Calls[c]))
        /\ Has(Script(Calls[c]), Update("entry", <<>>))
    BY <1>1, ScriptCovers
  <1>3. 1..Len(Script(Calls[c])) # {}
    BY <1>2 DEF Has
  <1> QED
    BY <1>1, <1>2, <1>3

\* What one update does to the tables: lists grow, keys stay.
LEMMA Registration ==
    ASSUME Shape, Register
    PROVE  /\ call \in 1..Len(Calls) /\ pos \in 1..Len(Script(Calls[call]))
           /\ Calls[call] \in Call
           /\ patterns' \in Seq(Patterns)
           /\ handlers' \in [Routes -> Seq(Handlers)]
           /\ middleware' \in [Routes -> Seq(Middleware)]
           /\ handlerKeys' \subseteq Routes /\ middlewareKeys' \subseteq Routes
           /\ blocking' \subseteq Routes
           /\ handlerKeys \subseteq handlerKeys' /\ blocking \subseteq blocking'
           /\ middlewareKeys \subseteq middlewareKeys'
           /\ Grown(patterns, patterns')
           /\ \A r \in Routes : Grown(middleware[r], middleware'[r])
           /\ \A r \in Routes : Grown(handlers[r], handlers'[r])
           /\ LET u == Script(Calls[call])[pos]
                  r == Calls[call].route
              IN /\ u.kind = "pattern" => \E i \in 1..Len(patterns') : patterns'[i] = r
                 /\ u.kind = "entry" => r \in handlerKeys'
                 /\ u.kind = "block" => r \in blocking'
                 /\ u.kind = "mwEntry" => r \in middlewareKeys'
                 /\ u.kind = "mwAdd" =>
                       \A l \in 1..Len(u.list) :
                          \E j \in 1..Len(middleware'[r]) : middleware'[r][j] = u.list[l]
           /\ IF pos = Len(Script(Calls[call])) THEN call' = call + 1 /\ pos' = 1
                                                ELSE call' = call /\ pos' = pos + 1
           /\ UNCHANGED <<msg, ran, told>>
  <1> DEFINE c == Calls[call]
             u == Script(c)[pos]
  <1>0. /\ Len(Calls) \in Nat /\ call \in Nat \ {0} /\ call <= Len(Calls)
        /\ pos \in Nat \ {0} /\ pos <= Len(Script(c))
    BY RoutingAssumption DEF Shape, TypeOK, Register
  <1>1. call \in 1..Len(Calls) /\ pos \in 1..Len(Script(c))
    BY <1>0, ScriptLength
  <1>2. c \in Call /\ u \in UpdatesOf(c)
    BY <1>1, ScriptLength
  <1>3. /\ c.route \in Routes /\ c.handler \in Handlers /\ u.list \in Seq(Middleware)
        /\ u.kind = "pattern" => c.route \in Patterns
    BY <1>2 DEF Call, Updates, UpdatesOf
  <1>4. /\ patterns' = IF u.kind = "pattern" /\ ~Known(c.route)
                          THEN Append(patterns, c.route) ELSE patterns
        /\ handlerKeys' = IF u.kind = "entry" THEN handlerKeys \cup {c.route}
                                              ELSE handlerKeys
        /\ handlers' = IF u.kind = "add"
                          THEN [handlers EXCEPT ![c.route] = Append(@, c.handler)]
                          ELSE handlers
        /\ middlewareKeys' = IF u.kind = "mwEntry" THEN middlewareKeys \cup {c.route}
                                                   ELSE middlewareKeys
        /\ middleware' = IF u.kind = "mwAdd"
                            THEN [middleware EXCEPT ![c.route] = @ \o u.list]
                            ELSE middleware
        /\ blocking' = IF u.kind = "block" THEN blocking \cup {c.route} ELSE blocking
        /\ IF pos = Len(Script(c)) THEN call' = call + 1 /\ pos' = 1
                                   ELSE call' = call /\ pos' = pos + 1
        /\ UNCHANGED <<msg, ran, told>>
    BY DEF Register
  <1>5. /\ patterns \in Seq(Patterns)
        /\ handlers \in [Routes -> Seq(Handlers)]
        /\ middleware \in [Routes -> Seq(Middleware)]
        /\ handlerKeys \subseteq Routes /\ middlewareKeys \subseteq Routes
        /\ blocking \subseteq Routes
    BY DEF Shape, TypeOK
  <1> HIDE DEF c, u
  <1>6. /\ patterns' \in Seq(Patterns) /\ Grown(patterns, patterns')
        /\ u.kind = "pattern" => \E i \in 1..Len(patterns') : patterns'[i] = c.route
    <2>1. CASE u.kind = "pattern" /\ ~Known(c.route)
      <3>1. /\ patterns' = Append(patterns, c.route) /\ c.route \in Patterns
            /\ patterns \in Seq(Patterns)
        BY <1>3, <1>4, <1>5, <2>1
      <3>2. /\ patterns' \in Seq(Patterns) /\ Len(patterns) \in Nat
            /\ Len(patterns') = Len(patterns) + 1
            /\ \A j \in 1..Len(patterns) : patterns'[j] = patterns[j]
            /\ patterns'[Len(patterns) + 1] = c.route
        BY <3>1
      <3>3. Len(patterns) + 1 \in 1..Len(patterns')
        BY <3>2
      <3> QED
        BY <3>2, <3>3 DEF Grown
    <2>2. CASE ~(u.kind = "pattern" /\ ~Known(c.route))
      <3>1. patterns' = patterns /\ Len(patterns) \in Nat
        BY <1>4, <1>5, <2>2
      <3> QED
        BY <1>5, <2>2, <3>1 DEF Grown, Known
    <2> QED
      BY <2>1, <2>2
  <1>7. /\ handlers' \in [Routes -> Seq(Handlers)]
        /\ \A r \in Routes : Grown(handlers[r], handlers'[r])
    <2>1. handlers' \in [Routes -> Seq(Handlers)]
      BY <1>3, <1>4, <1>5
    <2>2. \A s \in Seq(Handlers) : /\ Grown(s, s)
                                   /\ \A h : Grown(s, Append(s, h))
      <3> SUFFICES ASSUME NEW s \in Seq(Handlers), NEW h
                   PROVE  Grown(s, s) /\ Grown(s, Append(s, h))
        OBVIOUS
      <3>1. /\ Len(s) \in Nat /\ Len(Append(s, h)) = Len(s) + 1
            /\ \A j \in 1..Len(s) : Append(s, h)[j] = s[j]
        OBVIOUS
      <3> QED
        BY <3>1 DEF Grown
    <2>3. ASSUME NEW r \in Routes
          PROVE  handlers'[r] = handlers[r] \/ \E h : handlers'[r] = Append(handlers[r], h)
      BY <1>3, <1>4, <1>5
    <2> QED
      BY <1>5, <2>1, <2>2, <2>3
  <1>8. /\ handlerKeys' \subseteq Routes /\ middlewareKeys' \subseteq Routes
        /\ blocking' \subseteq Routes /\ middlewareKeys \subseteq middlewareKeys'
        /\ handlerKeys \subseteq handlerKeys' /\ blocking \subseteq blocking'
        /\ u.kind = "entry" => c.route \in handlerKeys'
        /\ u.kind = "block" => c.route \in blocking'
        /\ u.kind = "mwEntry" => c.route \in middlewareKeys'
    BY <1>3, <1>4, <1>5
  <1>9. /\ middleware' \in [Routes -> Seq(Middleware)]
        /\ \A r \in Routes : Grown(middleware[r], middleware'[r])
        /\ u.kind = "mwAdd" =>
              \A l \in 1..Len(u.list) :
                 \E j \in 1..Len(middleware'[c.route]) : middleware'[c.route][j] = u.list[l]
    <2>1. CASE u.kind = "mwAdd"
      <3>1. middleware' = [middleware EXCEPT ![c.route] = @ \o u.list]
        BY <1>4, <2>1
      <3>2. /\ middleware'[c.route] = middleware[c.route] \o u.list
            /\ \A r \in Routes \ {c.route} : middleware'[r] = middleware[r]
        BY <1>3, <1>5, <3>1
      <3>3. middleware[c.route] \in Seq(Middleware) /\ u.list \in Seq(Middleware)
        BY <1>3, <1>5
      <3> DEFINE old == middleware[c.route]
                 new == old \o u.list
      <3>4. /\ new \in Seq(Middleware) /\ Len(old) \in Nat /\ Len(u.list) \in Nat
            /\ Len(new) = Len(old) + Len(u.list)
            /\ \A n \in 1..Len(old) : new[n] = old[n]
            /\ \A n \in 1..Len(u.list) : new[Len(old) + n] = u.list[n]
        <4> DEFINE added == u.list
        <4>1. old \in Seq(Middleware) /\ added \in Seq(Middleware)
          BY <3>3
        <4> HIDE DEF old, added
        <4>2. /\ old \o added \in Seq(Middleware) /\ Len(old) \in Nat /\ Len(added) \in Nat
              /\ Len(old \o added) = Len(old) + Len(added)
              /\ \A n \in 1..Len(old) : (old \o added)[n] = old[n]
              /\ \A n \in 1..Len(added) : (old \o added)[Len(old) + n] = added[n]
          BY <4>1, Joined
        <4> QED
          BY <4>2 DEF added
      <3>5. middleware' \in [Routes -> Seq(Middleware)]
        <4> HIDE DEF old, new
        <4>1. \A r \in Routes \ {c.route} : middleware'[r] \in Seq(Middleware)
          BY <1>5, <3>2
        <4>2. middleware'[c.route] \in Seq(Middleware)
          BY <3>2, <3>4 DEF old, new
        <4>3. middleware' = [r \in Routes |-> middleware'[r]]
          BY <1>5, <3>1
        <4> QED
          BY <4>1, <4>2, <4>3
      <3> HIDE DEF old, new
      <3>6. \A l \in 1..Len(u.list) : \E j \in 1..Len(new) : new[j] = u.list[l]
        <4> SUFFICES ASSUME NEW l \in 1..Len(u.list)
                     PROVE  \E j \in 1..Len(new) : new[j] = u.list[l]
          OBVIOUS
        <4>1. Len(old) + l \in 1..Len(new) /\ new[Len(old) + l] = u.list[l]
          BY <3>4
        <4> QED
          BY <4>1
      <3>7. Grown(old, new)
        BY <3>4 DEF Grown
      <3>8. \A r \in Routes \ {c.route} : Grown(middleware[r], middleware[r])
        <4>1. \A r \in Routes : Len(middleware[r]) \in Nat
          BY <1>5
        <4> QED
          BY <4>1 DEF Grown
      <3>9. \A r \in Routes : Grown(middleware[r], middleware'[r])
        BY <3>2, <3>7, <3>8 DEF old, new
      <3> QED
        BY <3>2, <3>5, <3>6, <3>9 DEF old, new
    <2>2. CASE u.kind # "mwAdd"
      <3>1. middleware' = middleware
        BY <1>4, <2>2
      <3>2. \A r \in Routes : Len(middleware[r]) \in Nat
        BY <1>5
      <3> QED
        BY <1>5, <2>2, <3>1, <3>2 DEF Grown
    <2> QED
      BY <2>1, <2>2
  <1> QED
    BY <1>1, <1>2, <1>4, <1>6, <1>7, <1>8, <1>9 DEF c, u

\* A step of one message leaves the others where they are.
LEMMA ShapeStep == Shape /\ [Next]_vars => Shape'
  <1> SUFFICES ASSUME Shape, [Next]_vars PROVE Shape'
    OBVIOUS
  <1>0. /\ patterns \in Seq(Patterns)
        /\ handlers \in [Routes -> Seq(Handlers)]
        /\ middleware \in [Routes -> Seq(Middleware)]
        /\ handlerKeys \subseteq Routes /\ middlewareKeys \subseteq Routes
        /\ blocking \subseteq Routes
        /\ call \in Nat \ {0} /\ pos \in Nat \ {0}
        /\ msg \in [Messages -> Held]
        /\ ran \in [Messages -> Seq(Entries)]
        /\ told \in [Messages -> Seq({404, 500})]
    BY DEF Shape, TypeOK
  <1>1. CASE Register
    <2>1. /\ call' \in Nat \ {0} /\ pos' \in Nat \ {0}
          /\ call' <= Len(Calls) + 1 /\ call <= call'
          /\ call' <= Len(Calls) => pos' <= Len(Script(Calls[call']))
      BY <1>0, <1>1, Registration, ScriptLength, RoutingAssumption
    <2>2. msg' = msg /\ ran' = ran /\ told' = told
      BY <1>1, Registration
    <2>3. \A m \in Messages : msg[m].since \in Nat /\ msg[m].since < call
      BY <1>0 DEF Shape, Held
    <2>4. \A m \in Messages : msg'[m].since < call'
      BY <1>0, <2>1, <2>2, <2>3
    <2>5. TypeOK'
      BY <1>0, <1>1, <2>1, <2>2, Registration DEF TypeOK
    <2> QED
      BY <2>1, <2>4, <2>5 DEF Shape
  <1>2. ASSUME NEW m \in Messages, NEW x \in Held, x.since < call,
               UNCHANGED <<tables, call, pos>>,
               msg' = [msg EXCEPT ![m] = x],
               ran' \in [Messages -> Seq(Entries)],
               told' \in [Messages -> Seq({404, 500})]
        PROVE  Shape'
    <2>1. msg' \in [Messages -> Held]
      BY <1>0, <1>2
    <2>2. TypeOK'
      BY <1>0, <1>2, <2>1 DEF TypeOK, tables
    <2>3. \A l \in Messages : msg'[l].since < call'
      BY <1>0, <1>2 DEF Shape
    <2> QED
      BY <1>2, <2>2, <2>3 DEF Shape, tables
  <1>3. ASSUME NEW m \in Messages, Lookup(m) PROVE Shape'
    <2> DEFINE x == msg[m]
    <2>1. x \in Held /\ x.since < call /\ call - 1 \in Nat /\ call - 1 < call
      BY <1>0 DEF Shape
    <2>2. UNCHANGED <<tables, call, pos>> /\ ran' = ran /\ told' = told
      BY <1>3 DEF Lookup, LookupExact, LookupPattern, FetchHandlers, FetchMiddleware,
                  FetchBlocking
    <2>3. CASE LookupExact(m)
      <3>1. PICK a \in {"middleware", "match"} :
                msg' = [msg EXCEPT ![m] = [x EXCEPT !.since = call - 1, !.at = a]]
        BY <2>3 DEF LookupExact, Step
      <3>2. [x EXCEPT !.since = call - 1, !.at = a] \in Held
        BY <2>1, <3>1 DEF Held, Places
      <3>3. [x EXCEPT !.since = call - 1, !.at = a].since < call
        BY <2>1 DEF Held
      <3> QED
        BY <1>0, <1>2, <2>2, <3>1, <3>2, <3>3
    <2>4. CASE LookupPattern(m)
      <3>1. \/ msg' = [msg EXCEPT ![m] = [x EXCEPT !.at = "unrouted"]]
            \/ \E i \in 1..Len(patterns) :
                  msg' = [msg EXCEPT ![m] = [x EXCEPT !.route = patterns[i],
                                                      !.at = "handlers"]]
        BY <2>4 DEF LookupPattern, Step, Matching
      <3>2. /\ [x EXCEPT !.at = "unrouted"] \in Held
            /\ [x EXCEPT !.at = "unrouted"].since < call
        BY <2>1 DEF Held, Places
      <3>3. ASSUME NEW i \in 1..Len(patterns)
            PROVE  /\ [x EXCEPT !.route = patterns[i], !.at = "handlers"] \in Held
                   /\ [x EXCEPT !.route = patterns[i], !.at = "handlers"].since < call
        <4>1. patterns[i] \in Routes
          BY <1>0 DEF Routes
        <4> QED
          BY <2>1, <4>1 DEF Held, Places
      <3> QED
        BY <1>0, <1>2, <2>2, <3>1, <3>2, <3>3
    <2>5. CASE FetchHandlers(m) \/ FetchMiddleware(m) \/ FetchBlocking(m)
      <3>1. ASSUME NEW b \in BOOLEAN
            PROVE  /\ [x EXCEPT !.ownHandlers = b, !.at = "middleware"] \in Held
                   /\ [x EXCEPT !.ownMiddleware = b, !.at = "blocking"] \in Held
                   /\ [x EXCEPT !.serial = b, !.at = "guard"] \in Held
                   /\ [x EXCEPT !.ownHandlers = b, !.at = "middleware"].since = x.since
                   /\ [x EXCEPT !.ownMiddleware = b, !.at = "blocking"].since = x.since
                   /\ [x EXCEPT !.serial = b, !.at = "guard"].since = x.since
        BY <2>1 DEF Held, Places
      <3>2. \E y \in Held : msg' = [msg EXCEPT ![m] = y] /\ y.since = x.since
        <4>1. CASE FetchHandlers(m)
          <5> DEFINE b == x.route \in handlerKeys
          <5>1. msg' = [msg EXCEPT ![m] = [x EXCEPT !.ownHandlers = b, !.at = "middleware"]]
            BY <4>1 DEF FetchHandlers, Step
          <5>2. b \in BOOLEAN
            OBVIOUS
          <5> HIDE DEF b, x
          <5> QED
            BY <3>1, <5>1, <5>2
        <4>2. CASE FetchMiddleware(m)
          <5> DEFINE b == x.route \in middlewareKeys
          <5>1. msg' = [msg EXCEPT ![m] = [x EXCEPT !.ownMiddleware = b, !.at = "blocking"]]
            BY <4>2 DEF FetchMiddleware, Step
          <5>2. b \in BOOLEAN
            OBVIOUS
          <5> HIDE DEF b, x
          <5> QED
            BY <3>1, <5>1, <5>2
        <4>3. CASE FetchBlocking(m)
          <5> DEFINE b == x.route \in blocking
          <5>1. msg' = [msg EXCEPT ![m] = [x EXCEPT !.serial = b, !.at = "guard"]]
            BY <4>3 DEF FetchBlocking, Step
          <5>2. b \in BOOLEAN
            OBVIOUS
          <5> HIDE DEF b, x
          <5> QED
            BY <3>1, <5>1, <5>2
        <4> QED
          BY <2>5, <4>1, <4>2, <4>3
      <3> HIDE DEF x
      <3> QED
        BY <1>0, <1>2, <2>1, <2>2, <3>2
    <2> QED
      BY <1>3, <2>3, <2>4, <2>5 DEF Lookup
  <1>4. ASSUME NEW m \in Messages, Dispatch(m) PROVE Shape'
    <2> DEFINE x == msg[m]
    <2>1. x \in Held /\ x.since < call /\ x.next \in Nat \ {0}
      BY <1>0 DEF Shape, Held
    <2>2. UNCHANGED <<tables, call, pos>>
      BY <1>4 DEF Dispatch, NotFound, MiddlewarePasses, MiddlewareRejects,
                  MiddlewareFails, EndMiddleware, HandlerEnds, HandlerTypeError,
                  EndHandlers
    <2>3. Guards(m) \in Seq(Middleware) /\ Serves(m) \in Seq(Handlers)
      BY <1>0 DEF Guards, Serves, Held
    <2>4. ASSUME NEW code \in {404, 500}, Tell(m, code)
          PROVE  told' \in [Messages -> Seq({404, 500})]
      BY <1>0, <2>4 DEF Tell
    <2>5. ASSUME NEW f \in Handlers \cup Middleware, NEW e \in Endings, Ran(m, f, e)
          PROVE  ran' \in [Messages -> Seq(Entries)]
      <3>1. [what |-> f, end |-> e] \in Entries
        BY DEF Entries
      <3> QED
        BY <1>0, <2>5, <3>1 DEF Ran
    <2>6. told' \in [Messages -> Seq({404, 500})]
      BY <1>0, <1>4, <2>4
         DEF Dispatch, NotFound, MiddlewarePasses, MiddlewareRejects, MiddlewareFails,
             EndMiddleware, HandlerEnds, HandlerTypeError, EndHandlers
    <2>7. ran' \in [Messages -> Seq(Entries)]
      <3>1. x.next <= Len(Guards(m)) => Guards(m)[x.next] \in Middleware
        BY <2>1, <2>3
      <3>2. x.next <= Len(Serves(m)) => Serves(m)[x.next] \in Handlers
        BY <2>1, <2>3
      <3>3. \/ ran' = ran
            \/ x.next <= Len(Guards(m)) /\ \E e \in Endings : Ran(m, Guards(m)[x.next], e)
            \/ x.next <= Len(Serves(m)) /\ \E e \in Endings : Ran(m, Serves(m)[x.next], e)
        BY <1>4
           DEF Dispatch, NotFound, MiddlewarePasses, MiddlewareRejects, MiddlewareFails,
               EndMiddleware, HandlerEnds, HandlerTypeError, EndHandlers, Endings
      <3> QED
        BY <1>0, <2>5, <3>1, <3>2, <3>3
    <2>8. \/ \E a \in {"notFound", "stopped", "done"} :
                msg' = [msg EXCEPT ![m] = [x EXCEPT !.at = a]]
          \/ msg' = [msg EXCEPT ![m] = [x EXCEPT !.next = @ + 1]]
          \/ msg' = [msg EXCEPT ![m] = [x EXCEPT !.at = "serve", !.next = 1]]
          \/ msg' = [msg EXCEPT ![m] = [x EXCEPT !.next = @ + 1, !.retry = FALSE]]
          \/ msg' = [msg EXCEPT ![m] = [x EXCEPT !.retry = TRUE]]
      BY <1>4
         DEF Dispatch, NotFound, MiddlewarePasses, MiddlewareRejects, MiddlewareFails,
             EndMiddleware, HandlerEnds, HandlerTypeError, EndHandlers, Step
    <2>9. \E y \in Held : msg' = [msg EXCEPT ![m] = y] /\ y.since = x.since
      <3>1. \A a \in {"notFound", "stopped", "done"} :
               [x EXCEPT !.at = a] \in Held /\ [x EXCEPT !.at = a].since = x.since
        BY <2>1 DEF Held, Places
      <3>2. x.next + 1 \in Nat \ {0} /\ 1 \in Nat \ {0}
        BY <2>1
      <3>3. /\ [x EXCEPT !.next = @ + 1] \in Held
            /\ [x EXCEPT !.next = @ + 1].since = x.since
        BY <2>1, <3>2 DEF Held
      <3>4. /\ [x EXCEPT !.at = "serve", !.next = 1] \in Held
            /\ [x EXCEPT !.at = "serve", !.next = 1].since = x.since
        BY <2>1, <3>2 DEF Held, Places
      <3>5. /\ [x EXCEPT !.next = @ + 1, !.retry = FALSE] \in Held
            /\ [x EXCEPT !.next = @ + 1, !.retry = FALSE].since = x.since
        BY <2>1, <3>2 DEF Held
      <3>6. /\ [x EXCEPT !.retry = TRUE] \in Held
            /\ [x EXCEPT !.retry = TRUE].since = x.since
        BY <2>1 DEF Held
      <3> HIDE DEF x
      <3> QED
        BY <2>8, <3>1, <3>3, <3>4, <3>5, <3>6
    <2> QED
      BY <1>2, <2>1, <2>2, <2>6, <2>7, <2>9
  <1>5. CASE UNCHANGED vars
    BY <1>5, <1>0 DEF Shape, TypeOK, vars, tables
  <1> QED
    BY <1>1, <1>3, <1>4, <1>5 DEF Next

----------------------------------------------------------------------------
(* The tables hold what the registrations that are complete have put there. *)

\* The update u of the registration c was made.
Made(c, u) ==
    /\ u.kind = "pattern" => \E i \in 1..Len(patterns) : patterns[i] = c.route
    /\ u.kind = "entry" => c.route \in handlerKeys
    /\ u.kind = "block" => c.route \in blocking
    /\ u.kind = "mwEntry" => c.route \in middlewareKeys
    /\ u.kind = "mwAdd" =>
          \A l \in 1..Len(u.list) :
             \E j \in 1..Len(middleware[c.route]) : middleware[c.route][j] = u.list[l]

TablesInv ==
    \A c \in 1..Len(Calls) : \A n \in 1..Len(Script(Calls[c])) :
        c < call \/ (c = call /\ n < pos) => Made(Calls[c], Script(Calls[c])[n])

\* What was made stays made.
LEMMA MadeStays ==
    ASSUME Shape, Register, NEW c \in Call, NEW u \in Updates, Made(c, u)
    PROVE  Made(c, u)'
  <1>1. /\ c.route \in Routes
        /\ handlerKeys \subseteq handlerKeys' /\ blocking \subseteq blocking'
        /\ middlewareKeys \subseteq middlewareKeys'
        /\ Grown(patterns, patterns')
        /\ patterns \in Seq(Patterns) /\ patterns' \in Seq(Patterns)
        /\ Grown(middleware[c.route], middleware'[c.route])
        /\ middleware[c.route] \in Seq(Middleware)
        /\ middleware'[c.route] \in Seq(Middleware)
    <2>1. c.route \in Routes
      BY DEF Call
    <2>2. patterns \in Seq(Patterns) /\ middleware \in [Routes -> Seq(Middleware)]
      BY DEF Shape, TypeOK
    <2>3. /\ handlerKeys \subseteq handlerKeys' /\ blocking \subseteq blocking'
          /\ middlewareKeys \subseteq middlewareKeys'
          /\ Grown(patterns, patterns') /\ patterns' \in Seq(Patterns)
          /\ middleware' \in [Routes -> Seq(Middleware)]
          /\ \A r \in Routes : Grown(middleware[r], middleware'[r])
      BY Registration
    <2> QED
      BY <2>1, <2>2, <2>3
  <1>2. \A j \in 1..Len(middleware[c.route]) :
           /\ j \in 1..Len(middleware'[c.route])
           /\ middleware'[c.route][j] = middleware[c.route][j]
    BY <1>1 DEF Grown
  <1>3. \A j \in 1..Len(patterns) : j \in 1..Len(patterns') /\ patterns'[j] = patterns[j]
    BY <1>1 DEF Grown
  <1> QED
    BY <1>1, <1>2, <1>3 DEF Made

\* Only a registration changes the tables.
LEMMA TablesStep == Shape /\ TablesInv /\ [Next]_vars => TablesInv'
  <1> SUFFICES ASSUME Shape, TablesInv, [Next]_vars PROVE TablesInv'
    OBVIOUS
  <1>1. CASE Register
    <2> SUFFICES ASSUME NEW c \in 1..Len(Calls), NEW n \in 1..Len(Script(Calls[c])),
                        c < call' \/ (c = call' /\ n < pos')
                 PROVE  Made(Calls[c], Script(Calls[c])[n])'
      BY DEF TablesInv
    <2>1. Calls[c] \in Call /\ Script(Calls[c])[n] \in Updates
      BY ScriptLength DEF UpdatesOf
    <2>2. CASE Made(Calls[c], Script(Calls[c])[n])
      BY <1>1, <2>1, <2>2, MadeStays
    <2>3. CASE ~Made(Calls[c], Script(Calls[c])[n])
      <3>1. /\ call \in Nat /\ pos \in Nat
            /\ call \in 1..Len(Calls) /\ pos \in 1..Len(Script(Calls[call]))
            /\ IF pos = Len(Script(Calls[call])) THEN call' = call + 1 /\ pos' = 1
                                                 ELSE call' = call /\ pos' = pos + 1
        BY <1>1, Registration DEF Shape, TypeOK
      <3>2. ~(c < call) /\ ~(c = call /\ n < pos)
        BY <2>3 DEF TablesInv
      <3>3. c \in Nat /\ n \in Nat /\ n >= 1 /\ n <= Len(Script(Calls[c]))
            /\ Len(Script(Calls[c])) \in Nat
        BY ScriptLength, RoutingAssumption
      <3>4. c = call /\ n = pos
        BY <3>1, <3>2, <3>3
      <3> DEFINE u == Script(Calls[c])[n]
                 r == Calls[c].route
      <3>5. /\ u.kind = "pattern" => \E i \in 1..Len(patterns') : patterns'[i] = r
            /\ u.kind = "entry" => r \in handlerKeys'
            /\ u.kind = "block" => r \in blocking'
            /\ u.kind = "mwEntry" => r \in middlewareKeys'
            /\ u.kind = "mwAdd" =>
                  \A l \in 1..Len(u.list) :
                     \E j \in 1..Len(middleware'[r]) : middleware'[r][j] = u.list[l]
        BY <1>1, <3>4, Registration
      <3> QED
        BY <3>5 DEF Made
    <2> QED
      BY <2>2, <2>3
  <1>2. CASE ~Register
    <2>1. UNCHANGED <<tables, call, pos>>
      BY ZenonT(30), <1>2 DEF Next, vars, Lookup, LookupExact, LookupPattern, FetchHandlers,
                  FetchMiddleware, FetchBlocking, Dispatch, NotFound, MiddlewarePasses,
                  MiddlewareRejects, MiddlewareFails, EndMiddleware, HandlerEnds,
                  HandlerTypeError, EndHandlers
    <2> QED
      BY <2>1 DEF TablesInv, Made, tables
  <1> QED
    BY <1>1, <1>2

\* A middleware of a complete registration is in the list of its route, and the
\* route has an entry.
LEMMA MiddlewareStored ==
    ASSUME Shape, TablesInv, NEW c \in 1..Len(Calls), c < call,
           NEW k \in 1..Len(Calls[c].middleware)
    PROVE  /\ Calls[c].route \in middlewareKeys
           /\ \E j \in 1..Len(middleware[Calls[c].route]) :
                 middleware[Calls[c].route][j] = Calls[c].middleware[k]
  <1> DEFINE d == Calls[c]
             mws == middleware[d.route]
  <1>1. /\ d \in Call
        /\ \A n \in 1..Len(Script(d)) : Made(d, Script(d)[n])
    BY ScriptLength DEF TablesInv
  <1>2. /\ Has(Script(d), Update("mwEntry", <<>>))
        /\ \/ Has(Script(d), Update("mwAdd", d.middleware))
           \/ Has(Script(d), Update("mwAdd", <<d.middleware[k]>>))
    BY <1>1, ScriptCovers
  <1>3. d.route \in middlewareKeys
    <2>1. Made(d, Update("mwEntry", <<>>))
      BY <1>1, <1>2 DEF Has
    <2> QED
      BY <2>1 DEF Made, Update
  <1>4. CASE Has(Script(d), Update("mwAdd", d.middleware))
    <2>1. Made(d, Update("mwAdd", d.middleware))
      BY <1>1, <1>4 DEF Has
    <2>2. \A l \in 1..Len(d.middleware) :
             \E j \in 1..Len(mws) : mws[j] = d.middleware[l]
      BY <2>1 DEF Made, Update
    <2> QED
      BY <1>3, <2>2
  <1>5. CASE Has(Script(d), Update("mwAdd", <<d.middleware[k]>>))
    <2>1. Made(d, Update("mwAdd", <<d.middleware[k]>>))
      BY <1>1, <1>5 DEF Has
    <2>2. \A l \in 1..Len(<<d.middleware[k]>>) :
             \E j \in 1..Len(mws) : mws[j] = <<d.middleware[k]>>[l]
      BY <2>1 DEF Made, Update
    <2>3. 1 \in 1..Len(<<d.middleware[k]>>) /\ <<d.middleware[k]>>[1] = d.middleware[k]
      OBVIOUS
    <2> QED
      BY <1>3, <2>2, <2>3
  <1> QED
    BY <1>2, <1>4, <1>5

\* The routes of complete registrations are known: to the patterns, to the tables
\* of handlers and, if they block, to those of blocks.
LEMMA RouteStored ==
    ASSUME Shape, TablesInv, NEW c \in 1..Len(Calls), c < call
    PROVE  /\ Calls[c].route \in Patterns =>
                 \E i \in 1..Len(patterns) : patterns[i] = Calls[c].route
           /\ Calls[c].route \in handlerKeys
           /\ Calls[c].block => Calls[c].route \in blocking
  <1> DEFINE d == Calls[c]
  <1>1. /\ d \in Call
        /\ \A n \in 1..Len(Script(d)) : Made(d, Script(d)[n])
    BY ScriptLength DEF TablesInv
  <1>2. /\ Has(Script(d), Update("entry", <<>>))
        /\ d.route \in Patterns => Has(Script(d), Update("pattern", <<>>))
        /\ d.block => Has(Script(d), Update("block", <<>>))
    BY <1>1, ScriptCovers
  <1>3. \A u : Has(Script(d), u) => Made(d, u)
    BY <1>1 DEF Has
  <1> HIDE DEF d
  <1>4. d.route \in handlerKeys
    BY <1>2, <1>3 DEF Made, Update
  <1>5. ASSUME d.route \in Patterns PROVE \E i \in 1..Len(patterns) : patterns[i] = d.route
    BY <1>2, <1>3, <1>5 DEF Made, Update
  <1>6. ASSUME d.block PROVE d.route \in blocking
    BY <1>2, <1>3, <1>6 DEF Made, Update
  <1> QED
    BY <1>4, <1>5, <1>6 DEF d

----------------------------------------------------------------------------
(* The order of the tables is that of the registrations.                   *)

\* The registration d is the first of the route r.
First(d, r) ==
    Calls[d].route = r /\ \A c \in 1..Len(Calls) : Calls[c].route = r => d <= c

\* The registration c has added its handler; those of a route that have; and
\* which of its route c is.
Added(c)   == c < call \/ (c = call /\ pos > AddAt(Calls[c]))
AddedTo(r) == {c \in 1..Len(Calls) : Calls[c].route = r /\ Added(c)}
Rank(c)    == Cardinality(CallsUpTo(Calls[c].route, c))

\* A route is in the table of handlers because it is being registered, or was.
KeysInv == \A r \in handlerKeys :
              \E c \in 1..Len(Calls) : c <= call /\ Calls[c].route = r

\* A pattern comes after those that were registered first before it was.
Placed(j, d) ==
    /\ d <= call /\ First(d, patterns[j])
    /\ \A i \in 1..(j - 1) : \E b \in 1..(d - 1) : Calls[b].route = patterns[i]

PatternsInv == \A j \in 1..Len(patterns) : \E d \in 1..Len(Calls) : Placed(j, d)

\* The handlers of a route are those of its registrations, in their order.
HandlersInv ==
    /\ \A r \in Routes : Len(handlers[r]) = Cardinality(AddedTo(r))
    /\ \A c \in 1..Len(Calls) : Added(c) =>
          /\ Rank(c) \in 1..Len(handlers[Calls[c].route])
          /\ handlers[Calls[c].route][Rank(c)] = Calls[c].handler

OrderInv == KeysInv /\ PatternsInv /\ HandlersInv

\* Only a registration changes the tables and what it is known by.
LEMMA OrderFrame ==
    ASSUME OrderInv, UNCHANGED <<tables, call, pos>>
    PROVE  OrderInv'
  <1>1. KeysInv'
    BY DEF OrderInv, KeysInv, tables
  <1>2. PatternsInv'
    <2>1. \A j, d : Placed(j, d)' <=> Placed(j, d)
      BY DEF Placed, First, tables
    <2> QED
      BY <2>1 DEF OrderInv, PatternsInv, tables
  <1>3. HandlersInv'
    <2>1. \A c : /\ Added(c)' <=> Added(c)
                 /\ Rank(c)' = Rank(c)
      BY DEF Added, Rank, CallsUpTo, AddAt
    <2>2. \A r : AddedTo(r)' = AddedTo(r)
      BY <2>1 DEF AddedTo
    <2> QED
      BY <2>1, <2>2 DEF OrderInv, HandlersInv, tables
  <1> QED
    BY <1>1, <1>2, <1>3 DEF OrderInv

\* A registration adds its handler when it makes the update that does.
LEMMA AddedStep ==
    ASSUME Shape, Register
    PROVE  LET adds == Script(Calls[call])[pos].kind = "add"
           IN /\ adds => ~Added(call)
              /\ \A c \in 1..Len(Calls) : Added(c)' <=> Added(c) \/ (c = call /\ adds)
  <1> DEFINE s == Script(Calls[call])
             adds == s[pos].kind = "add"
  <1>1. /\ call \in 1..Len(Calls) /\ pos \in 1..Len(s) /\ Calls[call] \in Call
        /\ IF pos = Len(s) THEN call' = call + 1 /\ pos' = 1
                           ELSE call' = call /\ pos' = pos + 1
    BY Registration
  <1>2. Len(Calls) \in Nat /\ Len(s) \in Nat
    BY <1>1, ScriptLength, RoutingAssumption
  <1>3. AddOnlyAt(s, AddAt(Calls[call]))
    BY <1>1, ScriptCovers
  <1>4. /\ adds <=> pos = AddAt(Calls[call])
        /\ AddAt(Calls[call]) <= Len(s)
    BY <1>1, <1>2, <1>3 DEF AddOnlyAt
  <1>5. \A c : AddAt(Calls[c]) \in 2..3
    BY DEF AddAt
  <1> HIDE DEF s, adds
  <1>6. adds => ~Added(call)
    BY <1>1, <1>4, <1>5 DEF Added
  <1>7. ASSUME NEW c \in 1..Len(Calls)
        PROVE  Added(c)' <=> Added(c) \/ (c = call /\ adds)
    <2>1. Added(c)' <=> c < call' \/ (c = call' /\ pos' > AddAt(Calls[c]))
      BY DEF Added, AddAt
    <2>2. CASE c = call
      BY <1>1, <1>2, <1>4, <1>5, <2>1, <2>2 DEF Added
    <2>3. CASE c # call
      BY <1>1, <1>2, <1>5, <2>1, <2>3 DEF Added
    <2> QED
      BY <2>2, <2>3
  <1> QED
    BY <1>6, <1>7 DEF s, adds

\* The sets of registrations are finite.
LEMMA FewCalls ==
    /\ \A r : IsFiniteSet(AddedTo(r))
    /\ \A r, c : c \in Nat => IsFiniteSet(CallsUpTo(r, c))
  <1>1. \A n \in Nat : IsFiniteSet(1..n)
    BY FS_Interval
  <1>2. Len(Calls) \in Nat
    BY RoutingAssumption
  <1>3. \A r : AddedTo(r) \subseteq 1..Len(Calls)
    BY DEF AddedTo
  <1>4. \A r, c : CallsUpTo(r, c) \subseteq 1..c
    BY DEF CallsUpTo
  <1> QED
    BY <1>1, <1>2, <1>3, <1>4, FS_Subset

\* The new pattern is the last, for its first registration is under way.
LEMMA PatternsStep == Shape /\ TablesInv /\ PatternsInv /\ Register => PatternsInv'
  <1> SUFFICES ASSUME Shape, TablesInv, PatternsInv, Register PROVE PatternsInv'
    OBVIOUS
  <1> DEFINE c == Calls[call]
             n == Len(patterns)
  <1>1. /\ call \in 1..Len(Calls) /\ c \in Call /\ patterns \in Seq(Patterns) /\ n \in Nat
        /\ Len(Calls) \in Nat /\ call' \in Nat /\ call <= call'
    <2>1. patterns \in Seq(Patterns) /\ call \in Nat /\ pos \in Nat
      BY DEF Shape, TypeOK
    <2> QED
      BY <2>1, Registration, RoutingAssumption
  <1>2. ASSUME NEW j \in 1..n, patterns'[j] = patterns[j],
               \A i \in 1..(j - 1) : patterns'[i] = patterns[i]
        PROVE  \E d \in 1..Len(Calls) : Placed(j, d)'
    <2>1. PICK d \in 1..Len(Calls) : Placed(j, d)
      BY DEF PatternsInv
    <2>2. d <= call'
      BY <1>1, <2>1 DEF Placed
    <2> QED
      BY <1>2, <2>1, <2>2 DEF Placed, First
  <1>3. CASE patterns' = patterns
    BY <1>2, <1>3 DEF PatternsInv
  <1>4. CASE patterns' # patterns
    <2>1. /\ patterns' = Append(patterns, c.route) /\ ~Known(c.route)
          /\ Script(c)[pos].kind = "pattern"
      BY <1>4 DEF Register
    <2>2. c.route \in Patterns
      <3>1. Script(c)[pos] \in UpdatesOf(c)
        BY Registration, ScriptLength
      <3> QED
        BY <2>1, <3>1 DEF UpdatesOf
    <2>3. /\ Len(patterns') = n + 1
          /\ \A j \in 1..n : patterns'[j] = patterns[j]
          /\ patterns'[n + 1] = c.route
      BY <1>1, <2>1, <2>2
    <2>4. First(call, c.route)
      <3> SUFFICES ASSUME NEW b \in 1..Len(Calls), Calls[b].route = c.route PROVE call <= b
        BY DEF First
      <3>1. ~(b < call)
        BY <2>1, <2>2, RouteStored DEF Known
      <3> QED
        BY <1>1, <3>1
    <2>5. ASSUME NEW i \in 1..n PROVE \E b \in 1..(call - 1) : Calls[b].route = patterns[i]
      <3>1. PICK b \in 1..Len(Calls) : b <= call /\ First(b, patterns[i])
        BY DEF PatternsInv, Placed
      <3>2. patterns[i] # c.route
        BY <2>1 DEF Known
      <3>3. Calls[b].route = patterns[i] /\ b # call
        BY <3>1, <3>2 DEF First
      <3> QED
        BY <1>1, <3>1, <3>3
    <2> HIDE DEF c, n
    <2>6. ASSUME NEW j \in 1..(n + 1) PROVE \E d \in 1..Len(Calls) : Placed(j, d)'
      <3>1. CASE j \in 1..n
        <4>1. \A i \in 1..(j - 1) : patterns'[i] = patterns[i]
          BY <1>1, <2>3, <3>1
        <4> QED
          BY <1>2, <2>3, <3>1, <4>1
      <3>2. CASE j = n + 1
        <4>1. \A i \in 1..(j - 1) : i \in 1..n /\ patterns'[i] = patterns[i]
          BY <1>1, <2>3, <3>2
        <4>2. \A i \in 1..(j - 1) : \E b \in 1..(call - 1) : Calls[b].route = patterns'[i]
          BY <2>5, <4>1
        <4>3. First(call, patterns'[j]) /\ call <= call'
          BY <1>1, <2>3, <2>4, <3>2
        <4> QED
          BY <1>1, <4>2, <4>3 DEF Placed, First
      <3> QED
        BY <1>1, <3>1, <3>2
    <2> QED
      BY <2>3, <2>6 DEF PatternsInv
  <1> QED
    BY <1>3, <1>4

\* The new handler is the last, as the rank of its registration says.
LEMMA HandlersStep == Shape /\ HandlersInv /\ Register => HandlersInv'
  <1> SUFFICES ASSUME Shape, HandlersInv, Register PROVE HandlersInv'
    OBVIOUS
  <1> DEFINE x == Calls[call]
             adds == Script(x)[pos].kind = "add"
  <1>0. PICK r : r = x.route
    OBVIOUS
  <1>1. /\ call \in 1..Len(Calls) /\ x \in Call /\ handlers \in [Routes -> Seq(Handlers)]
        /\ r \in Routes /\ x.handler \in Handlers /\ Len(Calls) \in Nat
        /\ \A c \in 1..Len(Calls) : Calls[c].route \in Routes
    <2>1. handlers \in [Routes -> Seq(Handlers)]
      BY DEF Shape, TypeOK
    <2>2. call \in 1..Len(Calls) /\ \A c \in 1..Len(Calls) : Calls[c] \in Call
      BY Registration, ScriptLength
    <2>3. \A d \in Call : d.route \in Routes /\ d.handler \in Handlers
      BY DEF Call
    <2> QED
      BY <1>0, <2>1, <2>2, <2>3, RoutingAssumption
  <1>2. /\ adds => ~Added(call)
        /\ \A c \in 1..Len(Calls) : Added(c)' <=> Added(c) \/ (c = call /\ adds)
    BY AddedStep
  <1>3. handlers' = IF adds THEN [handlers EXCEPT ![r] = Append(@, x.handler)] ELSE handlers
    BY <1>0 DEF Register
  <1>4. \A c : Rank(c)' = Rank(c)
    BY DEF Rank, CallsUpTo
  <1> HIDE DEF x, adds
  <1>5. CASE ~adds
    <2>1. \A c \in 1..Len(Calls) : Added(c)' <=> Added(c)
      BY <1>2, <1>5
    <2>2. \A l \in Routes : AddedTo(l)' = AddedTo(l)
      BY <2>1 DEF AddedTo
    <2> QED
      BY <1>1, <1>3, <1>4, <1>5, <2>1, <2>2 DEF HandlersInv
  <1>6. CASE adds
    <2> DEFINE old == handlers[r]
    <2>1. /\ handlers' = [handlers EXCEPT ![r] = Append(old, x.handler)]
          /\ old \in Seq(Handlers)
      BY <1>1, <1>3, <1>6
    <2> HIDE DEF old
    <2>2. /\ handlers'[r] = Append(old, x.handler)
          /\ \A l \in Routes \ {r} : handlers'[l] = handlers[l]
      BY <1>1, <2>1
    <2>3. /\ Len(old) \in Nat /\ Len(handlers'[r]) = Len(old) + 1
          /\ \A j \in 1..Len(old) : handlers'[r][j] = old[j]
          /\ handlers'[r][Len(old) + 1] = x.handler
      BY <1>1, <2>1, <2>2
    <2>4. AddedTo(r)' = AddedTo(r) \cup {call} /\ call \notin AddedTo(r)
      <3>1. \A c \in 1..Len(Calls) : Added(c)' <=> Added(c) \/ c = call
        BY <1>2, <1>6
      <3>2. Calls[call].route = r /\ ~Added(call)
        BY <1>0, <1>2, <1>6 DEF x
      <3> QED
        BY <1>1, <3>1, <3>2 DEF AddedTo
    <2>5. \A l \in Routes \ {r} : AddedTo(l)' = AddedTo(l)
      BY <1>0, <1>2 DEF AddedTo, x
    <2>6. Len(old) = Cardinality(AddedTo(r))
      BY <1>1 DEF HandlersInv, old
    <2>7. Cardinality(AddedTo(r)') = Len(old) + 1
      BY <2>4, <2>6, FewCalls, FS_AddElement
    <2>8. CallsUpTo(r, call) = AddedTo(r) \cup {call}
      <3>1. ASSUME NEW c \in 1..call, Calls[c].route = r PROVE c \in AddedTo(r) \cup {call}
        BY <1>1, <3>1 DEF AddedTo, Added
      <3>2. ASSUME NEW c \in AddedTo(r) PROVE c \in CallsUpTo(r, call)
        BY <1>1, <3>2 DEF AddedTo, Added, CallsUpTo
      <3>3. call \in CallsUpTo(r, call)
        BY <1>0, <1>1 DEF CallsUpTo, x
      <3> QED
        BY <3>1, <3>2, <3>3 DEF CallsUpTo
    <2>9. Rank(call) = Len(old) + 1
      BY <1>0, <2>4, <2>7, <2>8 DEF Rank, x
    <2>10. \A l \in Routes : Len(handlers'[l]) = Cardinality(AddedTo(l)')
      <3>1. ASSUME NEW l \in Routes \ {r} PROVE Len(handlers'[l]) = Cardinality(AddedTo(l)')
        <4>1. Len(handlers[l]) = Cardinality(AddedTo(l))
          BY DEF HandlersInv
        <4> QED
          BY <2>2, <2>5, <4>1
      <3>2. Len(handlers'[r]) = Cardinality(AddedTo(r)')
        BY <2>3, <2>7
      <3> QED
        BY <3>1, <3>2
    <2>11. ASSUME NEW c \in 1..Len(Calls), Added(c)'
           PROVE  /\ Rank(c) \in 1..Len(handlers'[Calls[c].route])
                  /\ handlers'[Calls[c].route][Rank(c)] = Calls[c].handler
      <3>1. CASE c = call
        <4>1. Calls[c].route = r /\ Calls[c].handler = x.handler
          BY <1>0, <3>1 DEF x
        <4> QED
          BY <2>3, <2>9, <3>1, <4>1
      <3>2. CASE c # call
        <4>1. Added(c)
          BY <1>2, <2>11, <3>2
        <4>2. /\ Rank(c) \in 1..Len(handlers[Calls[c].route])
              /\ handlers[Calls[c].route][Rank(c)] = Calls[c].handler
          BY <4>1 DEF HandlersInv
        <4>3. CASE Calls[c].route = r
          BY <2>3, <4>2, <4>3 DEF old
        <4>4. CASE Calls[c].route # r
          BY <1>1, <2>2, <4>2, <4>4
        <4> QED
          BY <4>3, <4>4
      <3> QED
        BY <3>1, <3>2
    <2> QED
      BY <1>4, <2>10, <2>11 DEF HandlersInv
  <1> QED
    BY <1>5, <1>6

\* Whoever takes a step, the tables stay in order.
LEMMA OrderStep == Shape /\ TablesInv /\ OrderInv /\ [Next]_vars => OrderInv'
  <1> SUFFICES ASSUME Shape, TablesInv, OrderInv, [Next]_vars PROVE OrderInv'
    OBVIOUS
  <1>1. CASE Register
    <2>1. KeysInv'
      <3>1. /\ call \in 1..Len(Calls) /\ call' \in Nat /\ call <= call'
            /\ Len(Calls) \in Nat
        <4>1. call \in Nat /\ pos \in Nat
          BY DEF Shape, TypeOK
        <4> QED
          BY <1>1, <4>1, Registration, RoutingAssumption
      <3>2. handlerKeys' \subseteq handlerKeys \cup {Calls[call].route}
        BY <1>1 DEF Register
      <3> SUFFICES ASSUME NEW r \in handlerKeys'
                   PROVE  \E c \in 1..Len(Calls) : c <= call' /\ Calls[c].route = r
        BY DEF KeysInv
      <3>3. \E c \in 1..Len(Calls) : c <= call /\ Calls[c].route = r
        BY <3>1, <3>2 DEF OrderInv, KeysInv
      <3> QED
        BY <3>1, <3>3
    <2> QED
      BY <1>1, <2>1, PatternsStep, HandlersStep DEF OrderInv
  <1>2. CASE ~Register
    <2>1. UNCHANGED <<tables, call, pos>>
      BY ZenonT(30), <1>2 DEF Next, vars, Lookup, LookupExact, LookupPattern, FetchHandlers,
                  FetchMiddleware, FetchBlocking, Dispatch, NotFound, MiddlewarePasses,
                  MiddlewareRejects, MiddlewareFails, EndMiddleware, HandlerEnds,
                  HandlerTypeError, EndHandlers
    <2> QED
      BY <2>1, OrderFrame
  <1> QED
    BY <1>1, <1>2

----------------------------------------------------------------------------
(* What a message has behind it.                                           *)

\* The middleware w was registered for the route of m before m came.
Promised(m, w) ==
    \E c \in 1..Len(Calls) :
        /\ Before(m, c) /\ Calls[c].route = msg[m].route
        /\ \E k \in 1..Len(Calls[c].middleware) : Calls[c].middleware[k] = w

\* The first n runs for m are of middleware, which let it pass.
AllPassed(m, n) ==
    \A j \in 1..n : ran[m][j].what \in Middleware /\ ran[m][j].end \in {"pass", "replace"}

\* The middleware w is among the first n runs for m.
RanIn(m, n, w) == \E j \in 1..n : ran[m][j].what = w

Fresh == {"new", "match", "handlers", "middleware", "blocking", "unrouted", "notFound"}

Unguarded(m) ==
    msg[m].at \in {"blocking", "guard"} /\ ~msg[m].ownMiddleware
        => \A w \in Middleware : ~Promised(m, w)

NothingYet(m) == msg[m].at \in Fresh => ran[m] = <<>> /\ msg[m].next = 1

Guarding(m) ==
    msg[m].at = "guard" =>
        /\ AllPassed(m, Len(ran[m]))
        /\ \A k \in 1..(msg[m].next - 1) :
              k <= Len(Guards(m)) /\ RanIn(m, Len(ran[m]), Guards(m)[k])

Serving(m) ==
    msg[m].at \in {"serve", "done"} =>
        \E n \in 0..Len(ran[m]) :
            /\ AllPassed(m, n)
            /\ \A j \in (n + 1)..Len(ran[m]) : ran[m][j].what \in Handlers
            /\ \A w \in Middleware : Promised(m, w) => RanIn(m, n, w)

Stopped(m) ==
    msg[m].at = "stopped" => \A j \in 1..Len(ran[m]) : ran[m][j].what \in Middleware

MsgInv(m) == Unguarded(m) /\ NothingYet(m) /\ Guarding(m) /\ Serving(m) /\ Stopped(m)

MessagesInv == \A m \in Messages : MsgInv(m)

\* A promised middleware is in the list of the route of the message.
LEMMA PromiseStored ==
    ASSUME Shape, TablesInv, NEW m \in Messages, NEW w, Promised(m, w)
    PROVE  /\ msg[m].route \in middlewareKeys
           /\ \E j \in 1..Len(middleware[msg[m].route]) : middleware[msg[m].route][j] = w
  <1>1. PICK c \in 1..Len(Calls) :
            /\ c <= msg[m].since /\ Calls[c].route = msg[m].route
            /\ \E k \in 1..Len(Calls[c].middleware) : Calls[c].middleware[k] = w
    BY DEF Promised, Before
  <1>2. c < call
    <2>1. msg[m].since \in Nat /\ msg[m].since < call /\ call \in Nat
      BY DEF Shape, TypeOK, Held
    <2> QED
      BY <1>1, <2>1
  <1> QED
    BY SMTT(30), <1>1, <1>2, MiddlewareStored

\* A step of something else leaves the message alone; its middleware may grow.
LEMMA Elsewhere ==
    ASSUME NEW m \in Messages, MsgInv(m), msg'[m] = msg[m], ran'[m] = ran[m],
           Grown(Guards(m), Guards(m)'), Len(Guards(m)) \in Nat, Len(Guards(m)') \in Nat
    PROVE  MsgInv(m)'
  <1>1. \A w : Promised(m, w)' <=> Promised(m, w)
    BY DEF Promised, Before
  <1>2. \A n, w : RanIn(m, n, w)' <=> RanIn(m, n, w)
    BY DEF RanIn
  <1>3. \A n : AllPassed(m, n)' <=> AllPassed(m, n)
    BY DEF AllPassed
  <1>4. \A k \in Nat \ {0} : k <= Len(Guards(m)) =>
           k <= Len(Guards(m)') /\ Guards(m)'[k] = Guards(m)[k]
    BY DEF Grown
  <1> QED
    BY <1>1, <1>2, <1>3, <1>4 DEF MsgInv, Unguarded, NothingYet, Guarding, Serving, Stopped

\* One more run for a message.
LEMMA Appended ==
    ASSUME Shape, NEW m \in Messages, NEW f \in Handlers \cup Middleware,
           NEW e \in Endings, Ran(m, f, e)
    PROVE  /\ Len(ran[m]) \in Nat /\ Len(ran'[m]) = Len(ran[m]) + 1
           /\ \A j \in 1..Len(ran[m]) : ran'[m][j] = ran[m][j]
           /\ ran'[m][Len(ran[m]) + 1].what = f
           /\ ran'[m][Len(ran[m]) + 1].end = e
  <1> DEFINE entry == [what |-> f, end |-> e]
  <1>1. ran[m] \in Seq(Entries) /\ entry \in Entries
    BY ZenonT(30) DEF Shape, TypeOK, Entries
  <1>2. ran'[m] = Append(ran[m], entry)
    BY DEF Ran, Shape, TypeOK
  <1>3. entry.what = f /\ entry.end = e
    OBVIOUS
  <1> HIDE DEF entry
  <1> QED
    BY <1>1, <1>2, <1>3

\* What holds of the first runs for a message holds of them after one more.
LEMMA StillRan ==
    ASSUME Shape, NEW m \in Messages, NEW f \in Handlers \cup Middleware,
           NEW e \in Endings, Ran(m, f, e), NEW n \in 0..Len(ran[m])
    PROVE  /\ AllPassed(m, n) => AllPassed(m, n)'
           /\ \A w : RanIn(m, n, w) => RanIn(m, n, w)'
           /\ \A w : RanIn(m, n, w) => \E j \in 1..Len(ran'[m]) : ran'[m][j].what = w
  <1>1. /\ Len(ran[m]) \in Nat /\ Len(ran'[m]) = Len(ran[m]) + 1
        /\ \A j \in 1..Len(ran[m]) : ran'[m][j] = ran[m][j]
    BY Appended
  <1>2. \A j \in 1..n : j \in 1..Len(ran[m]) /\ j \in 1..Len(ran'[m])
    BY <1>1
  <1> QED
    BY <1>1, <1>2 DEF AllPassed, RanIn

\* The lookup.
LEMMA LookupStep ==
    ASSUME Shape, TablesInv, NEW m \in Messages, MsgInv(m), Lookup(m)
    PROVE  MsgInv(m)'
  <1> DEFINE x == msg[m]
  <1>1. /\ x \in Held /\ ran[m] \in Seq(Entries) /\ call \in Nat
        /\ msg \in [Messages -> Held]
    BY DEF Shape, TypeOK
  <1>2. /\ ran' = ran /\ UNCHANGED <<tables, call, pos>>
        /\ ran[m] = <<>> /\ x.next = 1
    BY DEF Lookup, LookupExact, LookupPattern, FetchHandlers, FetchMiddleware,
           FetchBlocking, MsgInv, NothingYet, Fresh
  <1>3. CASE LookupExact(m) \/ LookupPattern(m) \/ FetchHandlers(m)
    <2>1. /\ msg'[m].at \in {"new", "match", "handlers", "middleware", "unrouted"}
          /\ msg'[m].next = 1
      <3>1. \/ \E a \in {"middleware", "match"} :
                  msg' = [msg EXCEPT ![m] = [x EXCEPT !.since = call - 1, !.at = a]]
            \/ msg' = [msg EXCEPT ![m] = [x EXCEPT !.at = "unrouted"]]
            \/ \E r : msg' = [msg EXCEPT ![m] = [x EXCEPT !.route = r, !.at = "handlers"]]
            \/ \E b : msg' = [msg EXCEPT ![m] = [x EXCEPT !.ownHandlers = b,
                                                          !.at = "middleware"]]
        BY <1>3 DEF LookupExact, LookupPattern, FetchHandlers, Step
      <3>2. \A y : msg' = [msg EXCEPT ![m] = y] => msg'[m] = y
        BY <1>1
      <3> QED
        BY ZenonT(30), <1>1, <1>2, <3>1, <3>2 DEF Held
    <2> QED
      BY <1>2, <2>1 DEF MsgInv, Unguarded, NothingYet, Guarding, Serving, Stopped, Fresh
  <1>4. CASE FetchMiddleware(m)
    <2> DEFINE b == x.route \in middlewareKeys
    <2>0. b \in BOOLEAN
      OBVIOUS
    <2>1. msg' = [msg EXCEPT ![m] = [x EXCEPT !.ownMiddleware = b, !.at = "blocking"]]
      BY <1>4 DEF FetchMiddleware, Step
    <2>2. /\ msg'[m].at = "blocking" /\ msg'[m].next = 1
          /\ msg'[m].route = x.route /\ msg'[m].since = x.since
          /\ msg'[m].ownMiddleware = b
      <3> HIDE DEF b
      <3> QED
        BY <1>1, <1>2, <2>0, <2>1 DEF Held
    <2>3. \A w \in Middleware : Promised(m, w) => b
      BY PromiseStored
    <2>4. \A w : Promised(m, w)' <=> Promised(m, w)
      BY <2>2 DEF Promised, Before
    <2>5. Unguarded(m)'
      BY <2>2, <2>3, <2>4 DEF Unguarded
    <2>6. NothingYet(m)' /\ Guarding(m)' /\ Serving(m)' /\ Stopped(m)'
      BY <1>2, <2>2 DEF NothingYet, Guarding, Serving, Stopped
    <2> QED
      BY <2>5, <2>6 DEF MsgInv
  <1>5. CASE FetchBlocking(m)
    <2> DEFINE b == x.route \in blocking
    <2>1. msg' = [msg EXCEPT ![m] = [x EXCEPT !.serial = b, !.at = "guard"]]
      BY <1>5 DEF FetchBlocking, Step
    <2>2. /\ x.at = "blocking" /\ msg'[m].at = "guard" /\ msg'[m].next = 1
          /\ msg'[m].route = x.route /\ msg'[m].since = x.since
          /\ msg'[m].ownMiddleware = x.ownMiddleware
      BY <1>1, <1>2, <1>5, <2>1 DEF Held, FetchBlocking
    <2>3. \A w : Promised(m, w)' <=> Promised(m, w)
      BY <2>2 DEF Promised, Before
    <2>4. Unguarded(m)'
      BY <2>2, <2>3 DEF MsgInv, Unguarded
    <2>5. Guarding(m)'
      <3>1. Len(ran'[m]) = 0
        BY <1>2
      <3> QED
        BY <2>2, <3>1 DEF Guarding, AllPassed
    <2>6. NothingYet(m)' /\ Serving(m)' /\ Stopped(m)'
      BY <2>2 DEF NothingYet, Serving, Stopped, Fresh
    <2> QED
      BY <2>4, <2>5, <2>6 DEF MsgInv
  <1> QED
    BY <1>3, <1>4, <1>5 DEF Lookup

\* _dispatch changes the place of a message, not its route nor what was promised.
LEMMA DispatchFrame ==
    ASSUME Shape, NEW m \in Messages, Dispatch(m)
    PROVE  /\ UNCHANGED <<tables, call, pos>>
           /\ msg'[m].route = msg[m].route /\ msg'[m].since = msg[m].since
           /\ msg'[m].path = msg[m].path /\ msg'[m].serial = msg[m].serial
           /\ msg'[m].ownMiddleware = msg[m].ownMiddleware
           /\ msg'[m].ownHandlers = msg[m].ownHandlers
           /\ Guards(m)' = Guards(m) /\ Serves(m)' = Serves(m)
           /\ \A w : Promised(m, w)' <=> Promised(m, w)
  <1> DEFINE x == msg[m]
  <1>1. x \in Held /\ msg \in [Messages -> Held]
    BY DEF Shape, TypeOK
  <1>2. UNCHANGED <<tables, call, pos>>
    BY DEF Dispatch, NotFound, MiddlewarePasses, MiddlewareRejects, MiddlewareFails,
           EndMiddleware, HandlerEnds, HandlerTypeError, EndHandlers
  <1>3. \/ \E a : msg' = [msg EXCEPT ![m] = [x EXCEPT !.at = a]]
        \/ msg' = [msg EXCEPT ![m] = [x EXCEPT !.next = @ + 1]]
        \/ msg' = [msg EXCEPT ![m] = [x EXCEPT !.at = "serve", !.next = 1]]
        \/ msg' = [msg EXCEPT ![m] = [x EXCEPT !.next = @ + 1, !.retry = FALSE]]
        \/ msg' = [msg EXCEPT ![m] = [x EXCEPT !.retry = TRUE]]
    BY DEF Dispatch, NotFound, MiddlewarePasses, MiddlewareRejects, MiddlewareFails,
           EndMiddleware, HandlerEnds, HandlerTypeError, EndHandlers, Step
  <1>4. \A y : msg' = [msg EXCEPT ![m] = y] => msg'[m] = y
    BY <1>1
  <1>5. /\ msg'[m].route = x.route /\ msg'[m].since = x.since
        /\ msg'[m].path = x.path /\ msg'[m].serial = x.serial
        /\ msg'[m].ownMiddleware = x.ownMiddleware
        /\ msg'[m].ownHandlers = x.ownHandlers
    BY ZenonT(30), <1>1, <1>3, <1>4 DEF Held
  <1> QED
    BY <1>2, <1>5 DEF Guards, Serves, Promised, Before, tables

\* The end of a lookup that found nothing, and of one that did.
LEMMA Unrouted ==
    ASSUME Shape, NEW m \in Messages, MsgInv(m), NotFound(m)
    PROVE  MsgInv(m)'
  <1>1. msg \in [Messages -> Held]
    BY DEF Shape, TypeOK
  <1>2. /\ msg[m].at = "unrouted" /\ ran' = ran
        /\ msg' = [msg EXCEPT ![m] = [msg[m] EXCEPT !.at = "notFound"]]
    BY DEF NotFound, Step
  <1>3. msg'[m].at = "notFound" /\ msg'[m].next = msg[m].next
    BY <1>1, <1>2 DEF Held
  <1> QED
    BY <1>2, <1>3 DEF MsgInv, Unguarded, NothingYet, Guarding, Serving, Stopped, Fresh

\* A middleware that lets the message pass is one more that did.
LEMMA Passes ==
    ASSUME Shape, NEW m \in Messages, MsgInv(m), MiddlewarePasses(m)
    PROVE  MsgInv(m)'
  <1> DEFINE x == msg[m]
             g == Guards(m)[x.next]
             n == Len(ran[m])
  <1>1. /\ x \in Held /\ msg \in [Messages -> Held] /\ x.next \in Nat \ {0}
        /\ Guards(m) \in Seq(Middleware)
    BY DEF Shape, TypeOK, Held, Guards
  <1>2. /\ x.at = "guard" /\ x.next <= Len(Guards(m))
        /\ msg' = [msg EXCEPT ![m] = [x EXCEPT !.next = @ + 1]]
    BY DEF MiddlewarePasses, Step
  <1>3. PICK e \in {"pass", "replace"} : Ran(m, g, e)
    BY DEF MiddlewarePasses
  <1>4. g \in Middleware /\ e \in Endings
    BY <1>1, <1>2 DEF Endings
  <1>5. msg'[m].at = "guard" /\ msg'[m].next = x.next + 1
    BY <1>1, <1>2 DEF Held
  <1>6. /\ Guards(m)' = Guards(m) /\ msg'[m].ownMiddleware = x.ownMiddleware
        /\ \A w : Promised(m, w)' <=> Promised(m, w)
    BY DispatchFrame DEF Dispatch
  <1> HIDE DEF g
  <1>7. /\ n \in Nat /\ Len(ran'[m]) = n + 1
        /\ \A j \in 1..n : ran'[m][j] = ran[m][j]
        /\ ran'[m][n + 1].what = g /\ ran'[m][n + 1].end = e
    BY <1>3, <1>4, Appended
  <1>8. /\ AllPassed(m, n)
        /\ \A k \in 1..(x.next - 1) : k <= Len(Guards(m)) /\ RanIn(m, n, Guards(m)[k])
    BY <1>2 DEF MsgInv, Guarding
  <1>9. Guarding(m)'
    <2>1. AllPassed(m, Len(ran[m]))'
      <3> SUFFICES ASSUME NEW j \in 1..(n + 1)
                   PROVE  /\ ran'[m][j].what \in Middleware
                          /\ ran'[m][j].end \in {"pass", "replace"}
        BY <1>7 DEF AllPassed
      <3>1. CASE j \in 1..n
        BY <1>7, <1>8, <3>1 DEF AllPassed
      <3>2. CASE j = n + 1
        BY <1>3, <1>4, <1>7, <3>2
      <3> QED
        BY <1>7, <3>1, <3>2
    <2>2. ASSUME NEW k \in 1..x.next
          PROVE  k <= Len(Guards(m)) /\ \E j \in 1..(n + 1) : ran'[m][j].what = Guards(m)[k]
      <3>1. CASE k = x.next
        <4>1. n + 1 \in 1..(n + 1)
          BY <1>7
        <4> QED
          BY <1>2, <1>7, <3>1, <4>1 DEF g
      <3>2. CASE k # x.next
        <4>1. k \in 1..(x.next - 1)
          BY <1>1, <3>2
        <4>2. k <= Len(Guards(m))
          BY <1>8, <4>1
        <4>3. PICK j \in 1..n : ran[m][j].what = Guards(m)[k]
          BY <1>8, <4>1 DEF RanIn
        <4>4. j \in 1..(n + 1) /\ ran'[m][j].what = Guards(m)[k]
          BY <1>7, <4>3
        <4> QED
          BY <4>2, <4>4
      <3> QED
        BY <3>1, <3>2
    <2>3. (x.next + 1) - 1 = x.next
      BY <1>1
    <2>4. \A k \in 1..(msg'[m].next - 1) :
             k <= Len(Guards(m)') /\ RanIn(m, Len(ran[m]), Guards(m)[k])'
      BY <1>5, <1>6, <1>7, <2>2, <2>3 DEF RanIn
    <2> QED
      BY <2>1, <2>4 DEF Guarding
  <1>10. Unguarded(m)'
    BY <1>2, <1>6 DEF MsgInv, Unguarded
  <1> QED
    BY <1>5, <1>9, <1>10 DEF MsgInv, NothingYet, Serving, Stopped, Fresh

\* One that does not is the last thing that is run.
LEMMA Stops ==
    ASSUME Shape, NEW m \in Messages, MsgInv(m),
           MiddlewareRejects(m) \/ MiddlewareFails(m)
    PROVE  MsgInv(m)'
  <1> DEFINE x == msg[m]
             g == Guards(m)[x.next]
             n == Len(ran[m])
  <1>1. /\ x \in Held /\ msg \in [Messages -> Held] /\ x.next \in Nat \ {0}
        /\ Guards(m) \in Seq(Middleware)
    BY DEF Shape, TypeOK, Held, Guards
  <1>2. /\ x.at = "guard" /\ x.next <= Len(Guards(m))
        /\ msg' = [msg EXCEPT ![m] = [x EXCEPT !.at = "stopped"]]
    BY DEF MiddlewareRejects, MiddlewareFails, Step
  <1>3. PICK e \in {"reject", "fail"} : Ran(m, g, e)
    BY DEF MiddlewareRejects, MiddlewareFails
  <1>4. g \in Middleware /\ e \in Endings
    BY <1>1, <1>2 DEF Endings
  <1>5. msg'[m].at = "stopped"
    BY <1>1, <1>2 DEF Held
  <1> HIDE DEF g
  <1>6. /\ n \in Nat /\ Len(ran'[m]) = n + 1
        /\ \A j \in 1..n : ran'[m][j] = ran[m][j]
        /\ ran'[m][n + 1].what = g
    BY <1>3, <1>4, Appended
  <1>7. \A j \in 1..n : ran[m][j].what \in Middleware
    BY <1>2 DEF MsgInv, Guarding, AllPassed
  <1>8. \A j \in 1..(n + 1) : ran'[m][j].what \in Middleware
    BY SMTT(30), <1>4, <1>6, <1>7
  <1>9. Stopped(m)'
    BY <1>6, <1>8 DEF Stopped
  <1> QED
    BY <1>5, <1>9 DEF MsgInv, Unguarded, NothingYet, Guarding, Serving, Fresh

\* The handlers start when all the middleware of the list has passed, and that
\* list holds all that was promised.
LEMMA Starts ==
    ASSUME Shape, TablesInv, NEW m \in Messages, MsgInv(m), EndMiddleware(m)
    PROVE  MsgInv(m)'
  <1> DEFINE x == msg[m]
             n == Len(ran[m])
  <1>1. /\ x \in Held /\ msg \in [Messages -> Held] /\ x.next \in Nat \ {0}
        /\ Guards(m) \in Seq(Middleware) /\ n \in Nat
    BY DEF Shape, TypeOK, Held, Guards
  <1>2. /\ x.at = "guard" /\ x.next > Len(Guards(m)) /\ ran' = ran
        /\ msg' = [msg EXCEPT ![m] = [x EXCEPT !.at = "serve", !.next = 1]]
    BY DEF EndMiddleware, Step
  <1>3. msg'[m].at = "serve"
    BY <1>1, <1>2 DEF Held
  <1>4. \A w : Promised(m, w)' <=> Promised(m, w)
    BY DispatchFrame DEF Dispatch
  <1>5. ASSUME NEW w \in Middleware, Promised(m, w) PROVE RanIn(m, n, w)
    <2>1. x.ownMiddleware
      BY <1>2, <1>5 DEF MsgInv, Unguarded
    <2>2. PICK j \in 1..Len(Guards(m)) : Guards(m)[j] = w
      BY <1>5, <2>1, PromiseStored DEF Guards
    <2>3. j \in 1..(x.next - 1)
      BY <1>1, <1>2
    <2> QED
      BY <1>2, <2>2, <2>3 DEF MsgInv, Guarding
  <1>6. AllPassed(m, n)
    BY <1>2 DEF MsgInv, Guarding
  <1>7. Serving(m)'
    <2>1. n \in 0..n /\ (n + 1)..n = {}
      BY <1>1
    <2>2. AllPassed(m, n)' /\ \A w : RanIn(m, n, w) => RanIn(m, n, w)'
      BY <1>2, <1>6 DEF AllPassed, RanIn
    <2>3. /\ \A j \in (n + 1)..n : ran'[m][j].what \in Handlers
          /\ \A w \in Middleware : Promised(m, w)' => RanIn(m, n, w)'
      BY <1>4, <1>5, <2>1, <2>2
    <2> QED
      BY <1>2, <2>1, <2>2, <2>3 DEF Serving
  <1> QED
    BY <1>3, <1>7 DEF MsgInv, Unguarded, NothingYet, Guarding, Stopped, Fresh

\* Handlers come after the middleware.
LEMMA ServeStep ==
    ASSUME Shape, NEW m \in Messages, MsgInv(m),
           HandlerEnds(m) \/ HandlerTypeError(m) \/ EndHandlers(m)
    PROVE  MsgInv(m)'
  <1> DEFINE x == msg[m]
             h == Serves(m)[x.next]
  <1>1. /\ x \in Held /\ msg \in [Messages -> Held] /\ x.next \in Nat \ {0}
        /\ Serves(m) \in Seq(Handlers) /\ Len(ran[m]) \in Nat
    BY DEF Shape, TypeOK, Held, Serves
  <1>2. /\ x.at = "serve"
        /\ \/ msg' = [msg EXCEPT ![m] = [x EXCEPT !.next = @ + 1, !.retry = FALSE]]
           \/ msg' = [msg EXCEPT ![m] = [x EXCEPT !.retry = TRUE]]
           \/ msg' = [msg EXCEPT ![m] = [x EXCEPT !.at = "done"]]
    BY DEF HandlerEnds, HandlerTypeError, EndHandlers, Step
  <1>3. msg'[m].at \in {"serve", "done"}
    <2>1. \A y : msg' = [msg EXCEPT ![m] = y] => msg'[m] = y
      BY <1>1
    <2> QED
      BY ZenonT(30), <1>1, <1>2, <2>1 DEF Held
  <1>4. \A w : Promised(m, w)' <=> Promised(m, w)
    BY DispatchFrame DEF Dispatch
  <1>5. PICK n \in 0..Len(ran[m]) :
            /\ AllPassed(m, n)
            /\ \A j \in (n + 1)..Len(ran[m]) : ran[m][j].what \in Handlers
            /\ \A w \in Middleware : Promised(m, w) => RanIn(m, n, w)
    BY <1>2 DEF MsgInv, Serving
  <1>6. /\ n \in 0..Len(ran'[m])
        /\ AllPassed(m, n)'
        /\ \A j \in (n + 1)..Len(ran'[m]) : ran'[m][j].what \in Handlers
        /\ \A w \in Middleware : RanIn(m, n, w) => RanIn(m, n, w)'
    <2>1. CASE ran' = ran
      BY <1>5, <2>1 DEF AllPassed, RanIn
    <2>2. CASE ran' # ran
      <3>1. x.next <= Len(Serves(m))
        BY <2>2 DEF HandlerEnds, HandlerTypeError, EndHandlers
      <3>2. h \in Handlers
        BY <1>1, <3>1
      <3>3. PICK e \in Endings : Ran(m, h, e)
        BY <2>2 DEF HandlerEnds, HandlerTypeError, EndHandlers, Endings
      <3> HIDE DEF h
      <3>4. /\ Len(ran'[m]) = Len(ran[m]) + 1
            /\ \A j \in 1..Len(ran[m]) : ran'[m][j] = ran[m][j]
            /\ ran'[m][Len(ran[m]) + 1].what = h
        BY <3>2, <3>3, Appended
      <3>5. AllPassed(m, n)' /\ \A w : RanIn(m, n, w) => RanIn(m, n, w)'
        BY <1>5, <3>2, <3>3, StillRan
      <3>6. ASSUME NEW j \in (n + 1)..Len(ran'[m]) PROVE ran'[m][j].what \in Handlers
        <4>1. CASE j = Len(ran[m]) + 1
          BY <3>2, <3>4, <4>1
        <4>2. CASE j # Len(ran[m]) + 1
          <5>1. j \in (n + 1)..Len(ran[m]) /\ j \in 1..Len(ran[m])
            BY <1>1, <3>4, <4>2
          <5> QED
            BY <1>5, <3>4, <5>1
        <4> QED
          BY <4>1, <4>2
      <3> QED
        BY <1>1, <3>4, <3>5, <3>6
    <2> QED
      BY <2>1, <2>2
  <1>7. Serving(m)'
    BY <1>4, <1>5, <1>6 DEF Serving
  <1> QED
    BY <1>3, <1>7 DEF MsgInv, Unguarded, NothingYet, Guarding, Stopped, Fresh

\* The thread of a message leaves the tables and every other message alone.
LEMMA OthersKept ==
    ASSUME Shape, NEW m \in Messages, NEW l \in Messages, l # m, Lookup(l) \/ Dispatch(l)
    PROVE  /\ handlers' = handlers /\ middleware' = middleware
           /\ msg'[m] = msg[m] /\ ran'[m] = ran[m] /\ told'[m] = told[m]
  <1>0. /\ msg \in [Messages -> Held] /\ ran \in [Messages -> Seq(Entries)]
        /\ told \in [Messages -> Seq({404, 500})]
    BY DEF Shape, TypeOK
  <1>1. CASE Lookup(l)
    <2>1. UNCHANGED <<tables, call, pos, ran, told>>
      BY <1>1, ZenonT(30)
         DEF Lookup, LookupExact, LookupPattern, FetchHandlers, FetchMiddleware,
             FetchBlocking
    <2>2. \E x : msg' = [msg EXCEPT ![l] = x]
      BY <1>1 DEF Lookup, LookupExact, LookupPattern, FetchHandlers, FetchMiddleware,
                  FetchBlocking, Step
    <2> QED
      BY <1>0, <2>1, <2>2 DEF tables
  <1>2. CASE Dispatch(l)
    <2>1. UNCHANGED <<tables, call, pos>>
      BY <1>2, DispatchFrame
    <2>2. \E x : msg' = [msg EXCEPT ![l] = x]
      BY <1>2 DEF Dispatch, NotFound, MiddlewarePasses, MiddlewareRejects,
                  MiddlewareFails, EndMiddleware, HandlerEnds, HandlerTypeError,
                  EndHandlers, Step
    <2>3. ran' = ran \/ \E f, ending : Ran(l, f, ending)
      BY <1>2 DEF Dispatch, NotFound, MiddlewarePasses, MiddlewareRejects,
                  MiddlewareFails, EndMiddleware, HandlerEnds, HandlerTypeError,
                  EndHandlers
    <2>4. \A f, ending : Ran(l, f, ending) => ran'[m] = ran[m]
      BY <1>0 DEF Ran
    <2>5. told' = told \/ \E code : Tell(l, code)
      BY <1>2 DEF Dispatch, NotFound, MiddlewarePasses, MiddlewareRejects,
                  MiddlewareFails, EndMiddleware, HandlerEnds, HandlerTypeError,
                  EndHandlers
    <2>6. \A code : Tell(l, code) => told'[m] = told[m]
      BY <1>0 DEF Tell
    <2> QED
      BY <1>0, <2>1, <2>2, <2>3, <2>4, <2>5, <2>6 DEF tables
  <1> QED
    BY <1>1, <1>2

\* A message keeps what it has behind it, whoever takes a step.
LEMMA MessagesStep == Shape /\ TablesInv /\ MessagesInv /\ [Next]_vars => MessagesInv'
  <1> SUFFICES ASSUME Shape, TablesInv, MessagesInv, [Next]_vars, NEW m \in Messages
               PROVE  MsgInv(m)'
    BY DEF MessagesInv
  <1>0. /\ MsgInv(m) /\ msg \in [Messages -> Held] /\ ran \in [Messages -> Seq(Entries)]
        /\ middleware \in [Routes -> Seq(Middleware)]
        /\ msg[m].route \in Routes
    BY DEF MessagesInv, Shape, TypeOK, Held
  <1>1. Guards(m) \in Seq(Middleware)
    BY <1>0 DEF Guards
  <1>2. ASSUME UNCHANGED <<middleware>>, msg'[m] = msg[m], ran'[m] = ran[m]
        PROVE  MsgInv(m)'
    <2>1. Guards(m)' = Guards(m)
      BY <1>2 DEF Guards
    <2>2. Len(Guards(m)) \in Nat /\ Grown(Guards(m), Guards(m))
      BY <1>1 DEF Grown
    <2> QED
      BY <1>0, <1>2, <2>1, <2>2, Elsewhere
  <1>3. CASE Register
    <2>1. /\ msg' = msg /\ ran' = ran
          /\ middleware' \in [Routes -> Seq(Middleware)]
          /\ Grown(middleware[msg[m].route], middleware'[msg[m].route])
      BY <1>0, <1>3, Registration
    <2>2. Guards(m)' \in Seq(Middleware)
      BY <1>0, <2>1 DEF Guards
    <2>3. Grown(Guards(m), Guards(m)')
      BY <2>1 DEF Guards, Grown
    <2>4. Len(Guards(m)) \in Nat /\ Len(Guards(m)') \in Nat
      BY <1>1, <2>2
    <2>5. msg'[m] = msg[m] /\ ran'[m] = ran[m]
      BY <2>1
    <2> QED
      BY <1>0, <2>3, <2>4, <2>5, Elsewhere
  <1>4. ASSUME NEW l \in Messages, Lookup(l) \/ Dispatch(l) PROVE MsgInv(m)'
    <2>1. CASE l = m
      <3>1. CASE Lookup(m)
        BY <1>0, <3>1, LookupStep
      <3>2. CASE Dispatch(m)
        BY <1>0, <3>2, Unrouted, Passes, Stops, Starts, ServeStep DEF Dispatch
      <3> QED
        BY <1>4, <2>1, <3>1, <3>2
    <2>2. CASE l # m
      BY <1>2, <1>4, <2>2, OthersKept
    <2> QED
      BY <2>1, <2>2
  <1>5. CASE UNCHANGED vars
    BY <1>2, <1>5 DEF vars, tables
  <1> QED
    BY <1>3, <1>4, <1>5 DEF Next

----------------------------------------------------------------------------
(* Where a message goes.                                                   *)

Going      == {"handlers", "middleware", "blocking", "guard", "serve", "done", "stopped"}
Dispatched == {"guard", "serve", "done", "stopped"}

\* What the lookup found is what was registered, as far as it has come; a message
\* with an empty list of handlers of its own came before any of its route.
RouteInv(m) ==
    /\ msg[m].at = "new" => msg[m].route = msg[m].path /\ msg[m].ownHandlers
    /\ msg[m].at \in {"match", "handlers", "unrouted", "notFound"} => Exact(m) = {}
    /\ msg[m].at \in {"unrouted", "notFound"} => ByPattern(m) = {}
    /\ msg[m].at \in Going => RightRoute(m)
    /\ msg[m].at \in Dispatched => RightBlock(m)
    /\ msg[m].at \in {"middleware", "blocking", "guard", "serve"} /\ ~msg[m].ownHandlers
          => OfRoute(m) = {}

\* All of this is about the route of a message and the moment it came.
LEMMA SameRoute ==
    ASSUME NEW m \in Messages, msg'[m].path = msg[m].path, msg'[m].route = msg[m].route,
           msg'[m].since = msg[m].since
    PROVE  /\ Exact(m)' = Exact(m) /\ ByPattern(m)' = ByPattern(m)
           /\ OfRoute(m)' = OfRoute(m)
           /\ RightRoute(m)' <=> RightRoute(m)
  <1>1. \A c : Before(m, c)' <=> Before(m, c)
    BY DEF Before
  <1>2. Exact(m)' = Exact(m)
    BY <1>1 DEF Exact
  <1>3. ByPattern(m)' = ByPattern(m)
    BY <1>1 DEF ByPattern
  <1>4. OfRoute(m)' = OfRoute(m)
    BY <1>1 DEF OfRoute
  <1> QED
    BY <1>2, <1>3, <1>4 DEF RightRoute

\* A registration that was complete when a message came still is.
LEMMA Earlier ==
    ASSUME Shape, NEW m \in Messages, NEW c \in 1..Len(Calls), Before(m, c)
    PROVE  c < call
  <1>1. msg[m].since \in Nat /\ msg[m].since < call /\ call \in Nat
    BY DEF Shape, TypeOK, Held
  <1> QED
    BY <1>1, RoutingAssumption DEF Before

\* The path of a message is looked up among all that was registered so far.
LEMMA ExactStep ==
    ASSUME Shape, TablesInv, OrderInv, NEW m \in Messages, RouteInv(m), LookupExact(m)
    PROVE  RouteInv(m)'
  <1> DEFINE x == msg[m]
  <1>1. /\ x \in Held /\ msg \in [Messages -> Held] /\ call \in Nat \ {0}
        /\ Len(Calls) \in Nat
    BY RoutingAssumption DEF Shape, TypeOK
  <1>2. PICK a : /\ a = IF x.path \in handlerKeys THEN "middleware" ELSE "match"
                 /\ msg' = [msg EXCEPT ![m] = [x EXCEPT !.since = call - 1, !.at = a]]
    BY DEF LookupExact, Step
  <1>3. /\ msg'[m].at = a /\ msg'[m].since = call - 1 /\ msg'[m].path = x.path
        /\ msg'[m].route = x.route /\ msg'[m].ownHandlers = x.ownHandlers
    BY <1>1, <1>2 DEF Held
  <1>4. x.route = x.path /\ x.ownHandlers
    BY DEF LookupExact, RouteInv
  <1>5. \A c : Before(m, c)' <=> c \in 1..Len(Calls) /\ c <= call - 1
    BY <1>3 DEF Before
  <1>6. CASE x.path \in handlerKeys
    <2>1. a = "middleware"
      BY <1>2, <1>6
    <2>2. PICK c \in 1..Len(Calls) : c <= call /\ Calls[c].route = x.path
      BY <1>6 DEF OrderInv, KeysInv
    <2>3. CASE c <= call - 1
      <3>1. c \in Exact(m)'
        BY <1>3, <1>5, <2>2, <2>3 DEF Exact
      <3>2. RightRoute(m)'
        BY <1>3, <1>4, <3>1 DEF RightRoute
      <3> QED
        BY <1>3, <1>4, <2>1, <3>2 DEF RouteInv, Going, Dispatched
    <2>4. CASE c = call
      <3>1. msg'[m].since < Len(Calls) /\ msg'[m].since + 1 = c
        BY <1>1, <1>3, <2>4
      <3>2. RightRoute(m)'
        BY <1>3, <1>4, <2>2, <3>1 DEF RightRoute
      <3> QED
        BY <1>3, <1>4, <2>1, <3>2 DEF RouteInv, Going, Dispatched
    <2> QED
      BY <1>1, <2>2, <2>3, <2>4
  <1>7. CASE x.path \notin handlerKeys
    <2>1. a = "match"
      BY <1>2, <1>7
    <2>2. ASSUME NEW c \in 1..Len(Calls), c <= call - 1 PROVE Calls[c].route # x.path
      <3>1. c < call
        BY <1>1, <2>2
      <3> QED
        BY <1>7, <3>1, RouteStored
    <2>3. Exact(m)' = {}
      BY <1>3, <1>5, <2>2 DEF Exact
    <2> QED
      BY <1>3, <2>1, <2>3 DEF RouteInv, Going, Dispatched
  <1> QED
    BY <1>6, <1>7

\* The pattern that is found first was registered first.
LEMMA PatternFound ==
    ASSUME Shape, TablesInv, PatternsInv, NEW m \in Messages, NEW i \in Matching(m),
           \A j \in Matching(m) : i <= j, ByPattern(m) # {}
    PROVE  \E p \in ByPattern(m) : /\ \A c \in ByPattern(m) : p <= c
                                   /\ patterns[i] = Calls[p].route
  <1>1. /\ patterns \in Seq(Patterns) /\ Len(patterns) \in Nat /\ Len(Calls) \in Nat
        /\ i \in 1..Len(patterns) /\ msg[m].path \in Matches[patterns[i]]
        /\ patterns[i] \in Patterns
    BY RoutingAssumption DEF Shape, TypeOK, Matching
  <1>2. PICK p \in 1..Len(Calls) : Placed(i, p)
    BY <1>1 DEF PatternsInv
  <1>3. Calls[p].route = patterns[i]
    BY <1>2 DEF Placed, First
  <1>4. ASSUME NEW c \in ByPattern(m) PROVE p <= c
    <2>1. /\ c \in 1..Len(Calls) /\ Before(m, c) /\ Calls[c].route \in Patterns
          /\ msg[m].path \in Matches[Calls[c].route]
      BY DEF ByPattern
    <2>2. PICK j \in 1..Len(patterns) : patterns[j] = Calls[c].route
      BY <2>1, Earlier, RouteStored
    <2>3. i <= j
      BY <2>1, <2>2 DEF Matching
    <2>4. CASE j = i
      BY <1>2, <2>1, <2>2, <2>4 DEF Placed, First
    <2>5. CASE i < j
      <3>1. PICK d \in 1..Len(Calls) : Placed(j, d)
        BY DEF PatternsInv
      <3>2. i \in 1..(j - 1)
        BY <1>1, <2>5
      <3>3. PICK b \in 1..(d - 1) : Calls[b].route = patterns[i]
        BY <3>1, <3>2 DEF Placed
      <3>4. d <= c
        BY <2>1, <2>2, <3>1 DEF Placed, First
      <3>5. b \in 1..Len(Calls)
        BY <1>1
      <3>6. p <= b
        BY <1>2, <3>3, <3>5 DEF Placed, First
      <3> QED
        BY <1>1, <2>1, <3>4, <3>6
    <2> QED
      BY <1>1, <2>3, <2>4, <2>5
  <1>5. p \in ByPattern(m)
    <2>1. PICK c \in ByPattern(m) : TRUE
      OBVIOUS
    <2>2. c \in 1..Len(Calls) /\ c <= msg[m].since /\ p <= c /\ msg[m].since \in Nat
      BY <1>4, <2>1 DEF ByPattern, Before, Shape, TypeOK, Held
    <2>3. p <= msg[m].since
      BY <2>2
    <2> QED
      BY <1>1, <1>3, <2>3 DEF ByPattern, Before
  <1> QED
    BY <1>3, <1>4, <1>5

\* The patterns are looked through in the order of their registration.
LEMMA PatternStep ==
    ASSUME Shape, TablesInv, OrderInv, NEW m \in Messages, RouteInv(m), LookupPattern(m)
    PROVE  RouteInv(m)'
  <1> DEFINE x == msg[m]
  <1>1. x \in Held /\ msg \in [Messages -> Held]
    BY DEF Shape, TypeOK
  <1>2. x.at = "match" /\ Exact(m) = {}
    BY DEF LookupPattern, RouteInv
  <1>3. CASE Matching(m) = {}
    <2>1. msg' = [msg EXCEPT ![m] = [x EXCEPT !.at = "unrouted"]]
      BY <1>3 DEF LookupPattern, Step
    <2>2. /\ msg'[m].at = "unrouted" /\ msg'[m].path = x.path
          /\ msg'[m].route = x.route /\ msg'[m].since = x.since
      BY <1>1, <2>1 DEF Held
    <2>3. ByPattern(m) = {}
      <3> SUFFICES ASSUME NEW c \in ByPattern(m) PROVE FALSE
        OBVIOUS
      <3>1. /\ c \in 1..Len(Calls) /\ Before(m, c) /\ Calls[c].route \in Patterns
            /\ x.path \in Matches[Calls[c].route]
        BY DEF ByPattern
      <3>2. PICK j \in 1..Len(patterns) : patterns[j] = Calls[c].route
        BY <3>1, Earlier, RouteStored
      <3> QED
        BY <1>3, <3>1, <3>2 DEF Matching
    <2>4. Exact(m)' = {} /\ ByPattern(m)' = {}
      BY <1>2, <2>2, <2>3, SameRoute
    <2> QED
      BY <2>2, <2>4 DEF RouteInv, Going, Dispatched
  <1>4. CASE Matching(m) # {}
    <2>1. PICK i \in Matching(m) : /\ \A j \in Matching(m) : i <= j
                                   /\ Step(m, [x EXCEPT !.route = patterns[i],
                                                        !.at = "handlers"])
      BY <1>4 DEF LookupPattern
    <2>2. PICK r : r = patterns[i]
      OBVIOUS
    <2>3. /\ msg' = [msg EXCEPT ![m] = [x EXCEPT !.route = r, !.at = "handlers"]]
          /\ x.path \in Matches[r]
      BY <2>1, <2>2 DEF Step, Matching
    <2>4. /\ msg'[m].at = "handlers" /\ msg'[m].path = x.path
          /\ msg'[m].route = r /\ msg'[m].since = x.since
      BY <1>1, <2>3 DEF Held
    <2>5. \A c : Before(m, c)' <=> Before(m, c)
      BY <2>4 DEF Before
    <2>6. Exact(m)' = {} /\ ByPattern(m)' = ByPattern(m)
      <3>1. Exact(m)' = Exact(m)
        BY <2>4, <2>5 DEF Exact
      <3>2. ByPattern(m)' = ByPattern(m)
        BY <2>4, <2>5 DEF ByPattern
      <3> QED
        BY <1>2, <3>1, <3>2
    <2>7. RightRoute(m)'
      <3>1. CASE ByPattern(m) = {}
        BY <2>3, <2>4, <2>6, <3>1 DEF RightRoute
      <3>2. CASE ByPattern(m) # {}
        <4>1. \E p \in ByPattern(m) : /\ \A c \in ByPattern(m) : p <= c
                                      /\ r = Calls[p].route
          BY <2>1, <2>2, <3>2, PatternFound DEF OrderInv
        <4> QED
          BY <2>4, <2>6, <4>1 DEF RightRoute
      <3> QED
        BY <3>1, <3>2
    <2> QED
      BY <2>4, <2>6, <2>7 DEF RouteInv, Going, Dispatched
  <1> QED
    BY <1>3, <1>4

\* The rest of the lookup keeps the route, and reads its other tables.
LEMMA FetchStep ==
    ASSUME Shape, TablesInv, NEW m \in Messages, RouteInv(m),
           FetchHandlers(m) \/ FetchMiddleware(m) \/ FetchBlocking(m)
    PROVE  RouteInv(m)'
  <1> DEFINE x == msg[m]
  <1>1. x \in Held /\ msg \in [Messages -> Held]
    BY DEF Shape, TypeOK
  <1>2. x.at \in Going /\ x.at \notin Dispatched /\ RightRoute(m)
    BY DEF FetchHandlers, FetchMiddleware, FetchBlocking, RouteInv, Going, Dispatched
  <1>3. CASE FetchHandlers(m)
    <2> DEFINE b == x.route \in handlerKeys
    <2>1. b \in BOOLEAN
      OBVIOUS
    <2>2. msg' = [msg EXCEPT ![m] = [x EXCEPT !.ownHandlers = b, !.at = "middleware"]]
      BY <1>3, <2>1 DEF FetchHandlers, Step
    <2> HIDE DEF b
    <2>3. /\ msg'[m].at = "middleware" /\ msg'[m].path = x.path
          /\ msg'[m].route = x.route /\ msg'[m].since = x.since
          /\ msg'[m].ownHandlers = b
      BY <1>1, <2>1, <2>2 DEF Held
    <2>4. ~b => OfRoute(m) = {}
      <3> SUFFICES ASSUME NEW c \in OfRoute(m) PROVE b
        OBVIOUS
      <3>1. c \in 1..Len(Calls) /\ Before(m, c) /\ Calls[c].route = x.route
        BY DEF OfRoute
      <3> QED
        BY <3>1, Earlier, RouteStored DEF b
    <2>5. (RightRoute(m)' <=> RightRoute(m)) /\ OfRoute(m)' = OfRoute(m)
      BY <2>3, SameRoute
    <2> QED
      BY <1>2, <2>3, <2>4, <2>5 DEF RouteInv, Going, Dispatched
  <1>4. CASE FetchMiddleware(m)
    <2> DEFINE b == x.route \in middlewareKeys
    <2>1. b \in BOOLEAN
      OBVIOUS
    <2>2. msg' = [msg EXCEPT ![m] = [x EXCEPT !.ownMiddleware = b, !.at = "blocking"]]
      BY <1>4, <2>1 DEF FetchMiddleware, Step
    <2> HIDE DEF b
    <2>3. /\ msg'[m].at = "blocking" /\ msg'[m].path = x.path
          /\ msg'[m].route = x.route /\ msg'[m].since = x.since
          /\ msg'[m].ownHandlers = x.ownHandlers /\ x.at = "middleware"
      BY <1>1, <1>4, <2>1, <2>2 DEF Held, FetchMiddleware
    <2>4. (RightRoute(m)' <=> RightRoute(m)) /\ OfRoute(m)' = OfRoute(m)
      BY <2>3, SameRoute
    <2> QED
      BY <1>2, <2>3, <2>4 DEF RouteInv, Going, Dispatched
  <1>5. CASE FetchBlocking(m)
    <2> DEFINE b == x.route \in blocking
    <2>1. b \in BOOLEAN
      OBVIOUS
    <2>2. msg' = [msg EXCEPT ![m] = [x EXCEPT !.serial = b, !.at = "guard"]]
      BY <1>5, <2>1 DEF FetchBlocking, Step
    <2> HIDE DEF b
    <2>3. /\ msg'[m].at = "guard" /\ msg'[m].path = x.path
          /\ msg'[m].route = x.route /\ msg'[m].since = x.since
          /\ msg'[m].ownHandlers = x.ownHandlers /\ x.at = "blocking"
          /\ msg'[m].serial = b
      BY <1>1, <1>5, <2>1, <2>2 DEF Held, FetchBlocking
    <2>4. (RightRoute(m)' <=> RightRoute(m)) /\ OfRoute(m)' = OfRoute(m)
      BY <2>3, SameRoute
    <2>5. ASSUME NEW c \in OfRoute(m), Calls[c].block PROVE b
      <3>1. c \in 1..Len(Calls) /\ Before(m, c) /\ Calls[c].route = x.route
        BY DEF OfRoute
      <3> QED
        BY <2>5, <3>1, Earlier, RouteStored DEF b
    <2>6. RightBlock(m)'
      BY <2>3, <2>4, <2>5 DEF RightBlock
    <2> QED
      BY <1>2, <2>3, <2>4, <2>6 DEF RouteInv, Going, Dispatched
  <1> QED
    BY <1>3, <1>4, <1>5

\* Where _dispatch takes a message from and to.
LEMMA DispatchPlaces ==
    ASSUME Shape, NEW m \in Messages, Dispatch(m)
    PROVE  \/ msg[m].at = "unrouted" /\ msg'[m].at = "notFound" /\ NotFound(m)
           \/ msg[m].at = "guard" /\ msg'[m].at \in {"guard", "stopped"}
           \/ msg[m].at = "guard" /\ msg'[m].at = "serve" /\ EndMiddleware(m)
           \/ msg[m].at = "serve" /\ msg'[m].at = "serve"
           \/ msg[m].at = "serve" /\ msg'[m].at = "done" /\ EndHandlers(m)
  <1> DEFINE x == msg[m]
  <1>1. x \in Held /\ msg \in [Messages -> Held]
    BY DEF Shape, TypeOK
  <1>2. \A y : msg' = [msg EXCEPT ![m] = y] => msg'[m] = y
    BY <1>1
  <1>3. CASE NotFound(m)
    BY <1>1, <1>2, <1>3 DEF NotFound, Step, Held
  <1>4. CASE MiddlewarePasses(m)
    BY <1>1, <1>2, <1>4 DEF MiddlewarePasses, Step, Held
  <1>5. CASE MiddlewareRejects(m)
    BY <1>1, <1>2, <1>5 DEF MiddlewareRejects, Step, Held
  <1>6. CASE MiddlewareFails(m)
    BY <1>1, <1>2, <1>6 DEF MiddlewareFails, Step, Held
  <1>7. CASE EndMiddleware(m)
    BY <1>1, <1>2, <1>7 DEF EndMiddleware, Step, Held
  <1>8. CASE HandlerEnds(m)
    BY <1>1, <1>2, <1>8 DEF HandlerEnds, Step, Held
  <1>9. CASE HandlerTypeError(m)
    BY <1>1, <1>2, <1>9 DEF HandlerTypeError, Step, Held
  <1>10. CASE EndHandlers(m)
    BY <1>1, <1>2, <1>10 DEF EndHandlers, Step, Held
  <1> QED
    BY <1>3, <1>4, <1>5, <1>6, <1>7, <1>8, <1>9, <1>10 DEF Dispatch

\* _dispatch keeps what the lookup found.
LEMMA DispatchRoute ==
    ASSUME Shape, NEW m \in Messages, RouteInv(m), Dispatch(m)
    PROVE  RouteInv(m)'
  <1>1. /\ msg'[m].path = msg[m].path /\ msg'[m].route = msg[m].route
        /\ msg'[m].since = msg[m].since /\ msg'[m].serial = msg[m].serial
        /\ msg'[m].ownHandlers = msg[m].ownHandlers
    BY DispatchFrame
  <1>2. /\ Exact(m)' = Exact(m) /\ ByPattern(m)' = ByPattern(m)
        /\ OfRoute(m)' = OfRoute(m)
        /\ RightRoute(m)' <=> RightRoute(m)
    BY <1>1, SameRoute
  <1>3. RightBlock(m)' <=> RightBlock(m)
    BY <1>1, <1>2 DEF RightBlock
  <1>4. \/ msg[m].at = "unrouted" /\ msg'[m].at = "notFound"
        \/ /\ msg[m].at \in {"guard", "serve"} /\ msg'[m].at \in Dispatched
           /\ msg'[m].at \in {"guard", "serve"} \/ msg'[m].at \in {"done", "stopped"}
    BY DispatchPlaces DEF Dispatched
  <1>5. CASE msg[m].at = "unrouted" /\ msg'[m].at = "notFound"
    BY <1>2, <1>5 DEF RouteInv, Going, Dispatched
  <1>6. CASE msg[m].at \in {"guard", "serve"} /\ msg'[m].at \in Dispatched
    BY <1>1, <1>2, <1>3, <1>6 DEF RouteInv, Going, Dispatched
  <1> QED
    BY <1>4, <1>5, <1>6

----------------------------------------------------------------------------
(* Which handlers have run for it.                                         *)

\* The handler h is the k-th that ran for m.
InTurn(m, k, h) ==
    \E i \in Served(m) : ran[m][i].what = h /\ Cardinality(ServedUpTo(m, i)) = k

\* Those before its position have run, in the order of the list.
ServeInv(m) ==
    /\ msg[m].at = "serve" =>
          /\ Cardinality(Served(m)) = msg[m].next - 1
          /\ \A k \in 1..(msg[m].next - 1) :
                k <= Len(Serves(m)) /\ InTurn(m, k, Serves(m)[k])
    /\ msg[m].at = "done" => RightHandlers(m)

\* One more run: of a handler that was not merely tried, or another.
LEMMA ServedStep ==
    ASSUME Shape, NEW m \in Messages, NEW f \in Handlers \cup Middleware,
           NEW e \in Endings, Ran(m, f, e), NEW n, n = Len(ran[m]) + 1
    PROVE  LET more == f \in Handlers /\ e # "typeError"
           IN /\ IsFiniteSet(Served(m)) /\ n \notin Served(m)
              /\ Served(m)' = IF more THEN Served(m) \cup {n} ELSE Served(m)
              /\ more => ServedUpTo(m, n)' = Served(m) \cup {n}
              /\ more => ran'[m][n].what = f
              /\ \A k, h : InTurn(m, k, h) => InTurn(m, k, h)'
  <1> DEFINE more == f \in Handlers /\ e # "typeError"
  <1>1. /\ Len(ran[m]) \in Nat /\ Len(ran'[m]) = n
        /\ \A j \in 1..Len(ran[m]) : ran'[m][j] = ran[m][j]
        /\ ran'[m][n].what = f /\ ran'[m][n].end = e
    BY Appended
  <1>2. Served(m) \subseteq 1..Len(ran[m]) /\ n \notin 1..Len(ran[m])
    BY <1>1 DEF Served
  <1>3. IsFiniteSet(Served(m))
    <2>1. IsFiniteSet(1..Len(ran[m]))
      BY <1>1, FS_Interval
    <2> QED
      BY <1>2, <2>1, FS_Subset
  <1>4. \A i : i \in Served(m)' <=> i \in Served(m) \/ (i = n /\ more)
    <2>1. \A i : i \in 1..Len(ran'[m]) <=> i \in 1..Len(ran[m]) \/ i = n
      BY <1>1
    <2>2. \A i : i \in Served(m)' <=> /\ i \in 1..Len(ran'[m])
                                      /\ ran'[m][i].what \in Handlers
                                      /\ ran'[m][i].end # "typeError"
      BY DEF Served
    <2>3. \A i : i \in Served(m) <=> /\ i \in 1..Len(ran[m])
                                     /\ ran[m][i].what \in Handlers
                                     /\ ran[m][i].end # "typeError"
      BY DEF Served
    <2> QED
      BY <1>1, <1>2, <2>1, <2>2, <2>3
  <1>5. Served(m)' = IF more THEN Served(m) \cup {n} ELSE Served(m)
    BY <1>4
  <1>6. ASSUME more PROVE ServedUpTo(m, n)' = Served(m) \cup {n}
    <2>1. \A i \in Served(m) : i <= n
      BY <1>1, <1>2
    <2>2. n <= n
      BY <1>1
    <2>3. ServedUpTo(m, n)' = {j \in Served(m)' : j <= n}
      BY DEF ServedUpTo
    <2> QED
      BY <1>5, <1>6, <2>1, <2>2, <2>3
  <1>7. ASSUME NEW k, NEW h, InTurn(m, k, h) PROVE InTurn(m, k, h)'
    <2>1. PICK i \in Served(m) : ran[m][i].what = h /\ Cardinality(ServedUpTo(m, i)) = k
      BY <1>7 DEF InTurn
    <2>2. i \in Served(m)' /\ ran'[m][i].what = h
      BY <1>1, <1>2, <1>4, <2>1
    <2>3. \A j : j \in Served(m)' /\ j <= i <=> j \in Served(m) /\ j <= i
      BY <1>1, <1>2, <1>4, <2>1
    <2>4. ServedUpTo(m, i)' = ServedUpTo(m, i)
      BY <2>3 DEF ServedUpTo
    <2> QED
      BY <2>1, <2>2, <2>4 DEF InTurn
  <1> QED
    BY <1>1, <1>2, <1>3, <1>5, <1>6, <1>7

\* What ran in turn did so if nothing more runs.
LEMMA StillInTurn ==
    ASSUME NEW m \in Messages, ran'[m] = ran[m]
    PROVE  /\ Served(m)' = Served(m)
           /\ \A k, h : InTurn(m, k, h)' <=> InTurn(m, k, h)
  <1>1. Served(m)' = Served(m)
    BY DEF Served
  <1>2. \A i : ServedUpTo(m, i)' = ServedUpTo(m, i)
    BY <1>1 DEF ServedUpTo
  <1> QED
    BY <1>1, <1>2 DEF InTurn

\* A handler that has run is the next of the list.
LEMMA HandlerRuns ==
    ASSUME Shape, NEW m \in Messages, ServeInv(m), HandlerEnds(m)
    PROVE  ServeInv(m)'
  <1> DEFINE x == msg[m]
  <1>1. /\ x \in Held /\ msg \in [Messages -> Held] /\ x.next \in Nat \ {0}
        /\ Serves(m) \in Seq(Handlers)
    BY DEF Shape, TypeOK, Held, Serves
  <1>2. PICK q \in Nat \ {0}, s \in Seq(Handlers) : q = x.next /\ s = Serves(m)
    BY <1>1
  <1>3. /\ x.at = "serve" /\ q <= Len(s) /\ Len(s) \in Nat
        /\ msg' = [msg EXCEPT ![m] = [x EXCEPT !.next = @ + 1, !.retry = FALSE]]
    BY <1>2 DEF HandlerEnds, Step
  <1>4. msg'[m].at = "serve" /\ msg'[m].next = q + 1 /\ Serves(m)' = s
    <2>1. msg'[m].at = "serve" /\ msg'[m].next = q + 1
      BY <1>1, <1>2, <1>3 DEF Held
    <2>2. Serves(m)' = Serves(m)
      BY DispatchFrame DEF Dispatch
    <2> QED
      BY <1>2, <2>1, <2>2
  <1>5. PICK h \in Handlers : h = s[q]
    BY <1>2, <1>3
  <1>6. PICK e \in {"return", "fail"} : Ran(m, h, e)
    BY <1>2, <1>5 DEF HandlerEnds
  <1>7. PICK n : n = Len(ran[m]) + 1
    OBVIOUS
  <1>8. /\ IsFiniteSet(Served(m)) /\ n \notin Served(m)
        /\ Served(m)' = Served(m) \cup {n}
        /\ ServedUpTo(m, n)' = Served(m) \cup {n}
        /\ ran'[m][n].what = h
        /\ \A k, g : InTurn(m, k, g) => InTurn(m, k, g)'
    <2>1. e \in Endings /\ e # "typeError" /\ h \in Handlers \cup Middleware
      BY DEF Endings
    <2> QED
      BY <1>6, <1>7, <2>1, ServedStep
  <1>9. /\ Cardinality(Served(m)) = q - 1
        /\ \A k \in 1..(q - 1) : k <= Len(s) /\ InTurn(m, k, s[k])
    BY <1>2, <1>3 DEF ServeInv
  <1>10. Cardinality(Served(m)') = q
    <2>1. Cardinality(Served(m) \cup {n}) = Cardinality(Served(m)) + 1
      BY <1>8, FS_AddElement
    <2> QED
      BY <1>2, <1>8, <1>9, <2>1
  <1>11. InTurn(m, q, s[q])'
    <2>1. n \in Served(m)' /\ Cardinality(ServedUpTo(m, n)') = q
      BY <1>8, <1>10
    <2> QED
      BY <1>5, <1>8, <2>1 DEF InTurn
  <1>12. ASSUME NEW k \in 1..q PROVE k <= Len(s) /\ InTurn(m, k, s[k])'
    <2>1. CASE k = q
      BY <1>3, <1>11, <2>1
    <2>2. CASE k # q
      <3>1. k \in 1..(q - 1)
        BY <2>2
      <3> QED
        BY <1>8, <1>9, <3>1
    <2> QED
      BY <2>1, <2>2
  <1>13. (q + 1) - 1 = q
    OBVIOUS
  <1> QED
    BY <1>4, <1>10, <1>12, <1>13 DEF ServeInv

\* A handler that was tried with parameters has not run.
LEMMA HandlerTried ==
    ASSUME Shape, NEW m \in Messages, ServeInv(m), HandlerTypeError(m)
    PROVE  ServeInv(m)'
  <1> DEFINE x == msg[m]
  <1>1. /\ x \in Held /\ msg \in [Messages -> Held] /\ x.next \in Nat \ {0}
        /\ Serves(m) \in Seq(Handlers)
    BY DEF Shape, TypeOK, Held, Serves
  <1>2. PICK q \in Nat \ {0}, s \in Seq(Handlers) : q = x.next /\ s = Serves(m)
    BY <1>1
  <1>3. /\ x.at = "serve" /\ q <= Len(s)
        /\ msg' = [msg EXCEPT ![m] = [x EXCEPT !.retry = TRUE]]
    BY <1>2 DEF HandlerTypeError, Step
  <1>4. msg'[m].at = "serve" /\ msg'[m].next = q /\ Serves(m)' = s
    <2>1. msg'[m].at = "serve" /\ msg'[m].next = q
      BY <1>1, <1>2, <1>3 DEF Held
    <2>2. Serves(m)' = Serves(m)
      BY DispatchFrame DEF Dispatch
    <2> QED
      BY <1>2, <2>1, <2>2
  <1>5. Served(m)' = Served(m) /\ \A k, g : InTurn(m, k, g) => InTurn(m, k, g)'
    <2>1. CASE ran' = ran
      BY <2>1, StillInTurn
    <2>2. CASE ran' # ran
      <3>1. PICK h \in Handlers : h = s[q]
        BY <1>2, <1>3
      <3>2. Ran(m, h, "typeError") /\ "typeError" \in Endings /\ h \in Handlers \cup Middleware
        BY <1>2, <2>2, <3>1 DEF HandlerTypeError, Endings
      <3> QED
        BY <3>2, ServedStep
    <2> QED
      BY <2>1, <2>2
  <1>6. /\ Cardinality(Served(m)) = q - 1
        /\ \A k \in 1..(q - 1) : k <= Len(s) /\ InTurn(m, k, s[k])
    BY <1>2, <1>3 DEF ServeInv
  <1> QED
    BY <1>4, <1>5, <1>6 DEF ServeInv

\* Before the handlers none has run.
LEMMA NoneServed ==
    ASSUME Shape, NEW m \in Messages, MsgInv(m), EndMiddleware(m)
    PROVE  ServeInv(m)'
  <1> DEFINE x == msg[m]
  <1>1. x \in Held /\ msg \in [Messages -> Held]
    BY DEF Shape, TypeOK
  <1>2. /\ x.at = "guard" /\ ran' = ran
        /\ msg' = [msg EXCEPT ![m] = [x EXCEPT !.at = "serve", !.next = 1]]
    BY DEF EndMiddleware, Step
  <1>3. msg'[m].at = "serve" /\ msg'[m].next = 1
    BY <1>1, <1>2 DEF Held
  <1>4. Served(m) = {}
    BY <1>2, RoutingAssumption DEF MsgInv, Guarding, AllPassed, Served
  <1>5. Served(m)' = {}
    BY <1>2, <1>4, StillInTurn
  <1>6. Cardinality(Served(m)') = 0
    BY <1>5, FS_EmptySet
  <1> QED
    BY <1>3, <1>6 DEF ServeInv

\* When all of the list have run, so have those that were registered before.
LEMMA AllServed ==
    ASSUME Shape, HandlersInv, NEW m \in Messages, RouteInv(m), ServeInv(m), EndHandlers(m)
    PROVE  ServeInv(m)'
  <1> DEFINE x == msg[m]
  <1>1. /\ x \in Held /\ msg \in [Messages -> Held] /\ x.next \in Nat \ {0}
        /\ Serves(m) \in Seq(Handlers) /\ Len(Serves(m)) \in Nat
    BY DEF Shape, TypeOK, Held, Serves
  <1>2. /\ x.at = "serve" /\ x.next > Len(Serves(m)) /\ ran' = ran
        /\ msg' = [msg EXCEPT ![m] = [x EXCEPT !.at = "done"]]
    BY DEF EndHandlers, Step
  <1>3. /\ msg'[m].at = "done" /\ msg'[m].path = x.path /\ msg'[m].route = x.route
        /\ msg'[m].since = x.since
    BY <1>1, <1>2 DEF Held
  <1>4. ASSUME NEW c \in OfRoute(m) PROVE InTurn(m, Rank(c), Calls[c].handler)
    <2>1. c \in 1..Len(Calls) /\ Before(m, c) /\ Calls[c].route = x.route
      BY DEF OfRoute
    <2>2. x.ownHandlers
      BY <1>2 DEF RouteInv
    <2>3. Serves(m) = handlers[x.route]
      BY <2>2 DEF Serves
    <2>4. Added(c)
      BY <2>1, Earlier DEF Added
    <2>5. Rank(c) \in 1..Len(Serves(m)) /\ Serves(m)[Rank(c)] = Calls[c].handler
      BY <2>1, <2>3, <2>4 DEF HandlersInv
    <2>6. Rank(c) \in 1..(x.next - 1)
      BY <1>1, <1>2, <2>5
    <2> QED
      BY <1>2, <2>5, <2>6 DEF ServeInv
  <1>5. OfRoute(m)' = OfRoute(m)
    BY <1>3, SameRoute
  <1>6. /\ Served(m)' = Served(m)
        /\ \A i : ServedUpTo(m, i)' = ServedUpTo(m, i)
    <2>1. Served(m)' = Served(m)
      BY <1>2, StillInTurn
    <2> QED
      BY <2>1 DEF ServedUpTo
  <1>7. ASSUME NEW c \in OfRoute(m)
        PROVE  \E i \in Served(m) :
                  /\ ran'[m][i].what = Calls[c].handler
                  /\ Cardinality(ServedUpTo(m, i)) = Cardinality(CallsUpTo(x.route, c))
    <2>1. Calls[c].route = x.route
      BY DEF OfRoute
    <2> QED
      BY <1>2, <1>4, <2>1 DEF InTurn, Rank
  <1>8. RightHandlers(m)'
    <2>1. \A r, c : CallsUpTo(r, c)' = CallsUpTo(r, c)
      BY DEF CallsUpTo
    <2> QED
      BY <1>3, <1>5, <1>6, <1>7, <2>1 DEF RightHandlers
  <1> QED
    BY <1>3, <1>8 DEF ServeInv

----------------------------------------------------------------------------
(* What the sender is told.                                                *)

\* One answer for each failure, as long as the data of the message are its own.
AnswerInv(m) ==
    /\ m \notin Waiting => told[m] = <<>>
    /\ m \in Waiting =>
          IF msg[m].at = "notFound" THEN told[m] = <<404>>
          ELSE told[m] \in Seq({500}) /\ Len(told[m]) = Cardinality(Failures(m))

\* One more run is one more failure if it failed and the data are still there.
LEMMA FailureCounted ==
    ASSUME Shape, NEW m \in Messages, NEW f \in Handlers \cup Middleware,
           NEW e \in Endings, Ran(m, f, e), NEW n, n = Len(ran[m]) + 1
    PROVE  LET more == e = "fail" /\ ~Replaced(m)
           IN /\ IsFiniteSet(Failures(m)) /\ n \notin Failures(m)
              /\ Failures(m)' = IF more THEN Failures(m) \cup {n} ELSE Failures(m)
  <1> DEFINE more == e = "fail" /\ ~Replaced(m)
  <1>1. /\ Len(ran[m]) \in Nat /\ Len(ran'[m]) = n
        /\ \A j \in 1..Len(ran[m]) : ran'[m][j] = ran[m][j]
        /\ ran'[m][n].end = e
    BY Appended
  <1>2. Failures(m) \subseteq 1..Len(ran[m]) /\ n \notin 1..Len(ran[m])
    BY <1>1 DEF Failures
  <1>3. IsFiniteSet(Failures(m))
    <2>1. IsFiniteSet(1..Len(ran[m]))
      BY <1>1, FS_Interval
    <2> QED
      BY <1>2, <2>1, FS_Subset
  <1>4. ASSUME NEW i \in 1..Len(ran[m]) PROVE i \in Failures(m)' <=> i \in Failures(m)
    <2>1. /\ i \in 1..Len(ran'[m]) /\ ran'[m][i] = ran[m][i]
          /\ \A j \in 1..(i - 1) : ran'[m][j] = ran[m][j]
      BY <1>1
    <2> QED
      BY <2>1 DEF Failures
  <1>5. n \in Failures(m)' <=> more
    <2>1. n \in 1..Len(ran'[m]) /\ 1..(n - 1) = 1..Len(ran[m])
      BY <1>1
    <2>2. Replaced(m) <=> \E j \in 1..(n - 1) : ran'[m][j].end = "replace"
      BY <1>1, <2>1 DEF Replaced
    <2> QED
      BY <1>1, <2>1, <2>2 DEF Failures
  <1>6. Failures(m)' \subseteq 1..Len(ran[m]) \cup {n}
    <2>1. Failures(m)' \subseteq 1..Len(ran'[m])
      BY DEF Failures
    <2> QED
      BY <1>1, <2>1
  <1> HIDE DEF more
  <1>7. \A i : i \in Failures(m)' <=> i \in Failures(m) \/ (i = n /\ more)
    <2> SUFFICES ASSUME NEW i
                 PROVE  i \in Failures(m)' <=> i \in Failures(m) \/ (i = n /\ more)
      OBVIOUS
    <2>1. CASE i \in 1..Len(ran[m])
      BY <1>2, <1>4, <2>1
    <2>2. CASE i = n
      BY <1>2, <1>5, <2>2
    <2>3. CASE i \notin 1..Len(ran[m]) \cup {n}
      BY <1>2, <1>6, <2>3
    <2> QED
      BY <2>1, <2>2, <2>3
  <1>8. Failures(m)' = IF more THEN Failures(m) \cup {n} ELSE Failures(m)
    BY <1>7
  <1> QED
    BY <1>2, <1>3, <1>8 DEF more

\* An answer more.
LEMMA Answered ==
    ASSUME NEW s \in Seq({500})
    PROVE  Append(s, 500) \in Seq({500}) /\ Len(Append(s, 500)) = Len(s) + 1
  OBVIOUS

\* _dispatch tells of each failure when it happens.
LEMMA AnswerStep ==
    ASSUME Shape, NEW m \in Messages, MsgInv(m), AnswerInv(m), Dispatch(m)
    PROVE  AnswerInv(m)'
  <1>1. told \in [Messages -> Seq({404, 500})]
    BY DEF Shape, TypeOK
  <1>2. CASE msg'[m].at = "notFound"
    <2>1. msg[m].at = "unrouted" /\ NotFound(m)
      BY <1>2, DispatchPlaces
    <2>2. ran[m] = <<>> /\ Tell(m, 404)
      BY <2>1 DEF MsgInv, NothingYet, Fresh, NotFound
    <2>3. ~Replaced(m) /\ Failures(m) = {}
      BY <2>2 DEF Replaced, Failures
    <2>4. m \in Waiting => told[m] = <<>>
      <3>1. Cardinality(Failures(m)) = 0
        BY <2>3, FS_EmptySet
      <3> QED
        BY <2>1, <3>1 DEF AnswerInv
    <2>5. m \in Waiting => told'[m] = Append(told[m], 404)
      BY <1>1, <2>2, <2>3 DEF Tell
    <2>6. m \notin Waiting => told'[m] = told[m]
      BY <2>2 DEF Tell
    <2>7. Append(<<>>, 404) = <<404>>
      OBVIOUS
    <2> QED
      BY <1>2, <2>4, <2>5, <2>6, <2>7 DEF AnswerInv
  <1>3. CASE msg'[m].at # "notFound"
    <2>1. msg[m].at # "notFound" /\ ~NotFound(m)
      <3>1. msg[m].at # "notFound"
        BY DispatchPlaces
      <3>2. ~NotFound(m)
        <4>1. NotFound(m) => msg[m].at = "unrouted"
          BY DEF NotFound
        <4>2. msg[m].at # "unrouted"
          BY <1>3, DispatchPlaces
        <4> QED
          BY <4>1, <4>2
      <3> QED
        BY <3>1, <3>2
    <2>2. /\ Guards(m) \in Seq(Middleware) /\ Serves(m) \in Seq(Handlers)
          /\ msg[m].next \in Nat \ {0}
      BY DEF Shape, TypeOK, Held, Guards, Serves
    <2>3. /\ msg[m].next <= Len(Guards(m)) => Guards(m)[msg[m].next] \in Middleware
          /\ msg[m].next <= Len(Serves(m)) => Serves(m)[msg[m].next] \in Handlers
      BY <2>2
    <2>4. \/ ran' = ran /\ told' = told
          \/ \E f \in Handlers \cup Middleware :
                \/ \E e \in Endings \ {"fail"} : Ran(m, f, e) /\ told' = told
                \/ Ran(m, f, "fail") /\ Tell(m, 500)
      <3>1. CASE MiddlewarePasses(m)
        <4>1. Guards(m)[msg[m].next] \in Middleware /\ {"pass", "replace"} \subseteq Endings \ {"fail"}
          BY <2>3, <3>1 DEF MiddlewarePasses, Endings
        <4> QED
          BY <3>1, <4>1 DEF MiddlewarePasses
      <3>2. CASE MiddlewareRejects(m)
        <4>1. Guards(m)[msg[m].next] \in Middleware /\ "reject" \in Endings \ {"fail"}
          BY <2>3, <3>2 DEF MiddlewareRejects, Endings
        <4> QED
          BY <3>2, <4>1 DEF MiddlewareRejects
      <3>3. CASE MiddlewareFails(m)
        BY <2>3, <3>3 DEF MiddlewareFails
      <3>4. CASE EndMiddleware(m)
        BY <3>4 DEF EndMiddleware
      <3>5. CASE HandlerEnds(m)
        <4>1. Serves(m)[msg[m].next] \in Handlers /\ "return" \in Endings \ {"fail"}
          BY <2>3, <3>5 DEF HandlerEnds, Endings
        <4> QED
          BY <3>5, <4>1 DEF HandlerEnds
      <3>6. CASE HandlerTypeError(m)
        <4>1. Serves(m)[msg[m].next] \in Handlers /\ "typeError" \in Endings \ {"fail"}
          BY <2>3, <3>6 DEF HandlerTypeError, Endings
        <4> QED
          BY <3>6, <4>1 DEF HandlerTypeError
      <3>7. CASE EndHandlers(m)
        BY <3>7 DEF EndHandlers
      <3> QED
        BY <2>1, <3>1, <3>2, <3>3, <3>4, <3>5, <3>6, <3>7 DEF Dispatch
    <2>5. CASE ran' = ran /\ told' = told
      <3>1. Failures(m)' = Failures(m)
        BY <2>5 DEF Failures
      <3> QED
        BY <1>3, <2>1, <2>5, <3>1 DEF AnswerInv
    <2>6. ASSUME NEW f \in Handlers \cup Middleware, NEW e \in Endings \ {"fail"},
                 Ran(m, f, e), told' = told
          PROVE  AnswerInv(m)'
      <3>1. Failures(m)' = Failures(m)
        BY <2>6, FailureCounted
      <3> QED
        BY <1>3, <2>1, <2>6, <3>1 DEF AnswerInv
    <2>7. ASSUME NEW f \in Handlers \cup Middleware, Ran(m, f, "fail"), Tell(m, 500)
          PROVE  AnswerInv(m)'
      <3>1. PICK n : n = Len(ran[m]) + 1
        OBVIOUS
      <3>2. "fail" \in Endings
        BY DEF Endings
      <3>3. /\ IsFiniteSet(Failures(m)) /\ n \notin Failures(m)
            /\ Failures(m)' = IF ~Replaced(m) THEN Failures(m) \cup {n} ELSE Failures(m)
        BY <2>7, <3>1, <3>2, FailureCounted
      <3>4. CASE m \in Waiting /\ ~Replaced(m)
        <4>1. told'[m] = Append(told[m], 500)
          BY <1>1, <2>7, <3>4 DEF Tell
        <4>2. told[m] \in Seq({500}) /\ Len(told[m]) = Cardinality(Failures(m))
          BY <2>1, <3>4 DEF AnswerInv
        <4>3. told'[m] \in Seq({500}) /\ Len(told'[m]) = Len(told[m]) + 1
          BY <4>1, <4>2, Answered
        <4>4. Cardinality(Failures(m)') = Cardinality(Failures(m)) + 1
          BY <3>3, <3>4, FS_AddElement
        <4> QED
          BY <1>3, <3>4, <4>2, <4>3, <4>4 DEF AnswerInv
      <3>5. CASE ~(m \in Waiting /\ ~Replaced(m))
        <4>1. told' = told
          BY <2>7, <3>5 DEF Tell
        <4>2. m \in Waiting => Failures(m)' = Failures(m)
          BY <3>3, <3>5
        <4> QED
          BY <1>3, <2>1, <4>1, <4>2 DEF AnswerInv
      <3> QED
        BY <3>4, <3>5
    <2> QED
      BY <2>4, <2>5, <2>6, <2>7
  <1> QED
    BY <1>2, <1>3

----------------------------------------------------------------------------
(* The way of a message, whoever takes a step.                             *)

WayInv(m) == RouteInv(m) /\ ServeInv(m) /\ AnswerInv(m)
WaysInv   == \A m \in Messages : WayInv(m)

\* A step of something else leaves the message alone; its handlers may grow.
LEMMA WayKept ==
    ASSUME NEW m \in Messages, WayInv(m), msg'[m] = msg[m], ran'[m] = ran[m],
           told'[m] = told[m], Grown(Serves(m), Serves(m)'),
           Len(Serves(m)) \in Nat, Len(Serves(m)') \in Nat
    PROVE  WayInv(m)'
  <1>1. /\ Exact(m)' = Exact(m) /\ ByPattern(m)' = ByPattern(m)
        /\ OfRoute(m)' = OfRoute(m)
        /\ RightRoute(m)' <=> RightRoute(m)
    BY SameRoute
  <1>2. RightBlock(m)' <=> RightBlock(m)
    BY <1>1 DEF RightBlock
  <1>3. RouteInv(m)'
    BY <1>1, <1>2 DEF WayInv, RouteInv
  <1>4. /\ Served(m)' = Served(m) /\ \A i : ServedUpTo(m, i)' = ServedUpTo(m, i)
        /\ \A k, h : InTurn(m, k, h)' <=> InTurn(m, k, h)
    <2>1. Served(m)' = Served(m) /\ \A k, h : InTurn(m, k, h)' <=> InTurn(m, k, h)
      BY StillInTurn
    <2> QED
      BY <2>1 DEF ServedUpTo
  <1>5. RightHandlers(m)' <=> RightHandlers(m)
    <2>1. \A r, c : CallsUpTo(r, c)' = CallsUpTo(r, c)
      BY DEF CallsUpTo
    <2> QED
      BY <1>1, <1>4, <2>1 DEF RightHandlers
  <1>6. ServeInv(m)'
    <2>1. CASE msg[m].at = "serve"
      <3>1. PICK q, s, z : q = msg[m].next /\ s = Serves(m) /\ z = Serves(m)'
        OBVIOUS
      <3>2. /\ Cardinality(Served(m)) = q - 1
            /\ \A k \in 1..(q - 1) : k <= Len(s) /\ InTurn(m, k, s[k])
        BY <2>1, <3>1 DEF WayInv, ServeInv
      <3>3. ASSUME NEW k \in 1..(q - 1) PROVE k <= Len(z) /\ InTurn(m, k, z[k])'
        <4>1. k \in 1..Len(s)
          BY <3>1, <3>2
        <4>2. k <= Len(z) /\ z[k] = s[k]
          BY <3>1, <4>1 DEF Grown
        <4> QED
          BY <1>4, <3>2, <4>2
      <3> QED
        BY <1>4, <2>1, <3>1, <3>2, <3>3 DEF ServeInv
    <2>2. CASE msg[m].at # "serve"
      BY <1>5, <2>2 DEF WayInv, ServeInv
    <2> QED
      BY <2>1, <2>2
  <1>7. AnswerInv(m)'
    <2>1. Failures(m)' = Failures(m)
      BY DEF Failures
    <2> QED
      BY <2>1 DEF WayInv, AnswerInv
  <1> QED
    BY <1>3, <1>6, <1>7 DEF WayInv

\* The lookup tells nobody and runs nothing.
LEMMA WayFound ==
    ASSUME Shape, TablesInv, OrderInv, NEW m \in Messages, WayInv(m), Lookup(m)
    PROVE  WayInv(m)'
  <1> DEFINE x == msg[m]
  <1>1. x \in Held /\ msg \in [Messages -> Held]
    BY DEF Shape, TypeOK
  <1>2. RouteInv(m)'
    BY ExactStep, PatternStep, FetchStep DEF Lookup, WayInv
  <1>3. /\ ran' = ran /\ told' = told
        /\ x.at # "notFound" /\ msg'[m].at \notin {"serve", "done", "notFound"}
    <2>1. \A y : msg' = [msg EXCEPT ![m] = y] => msg'[m] = y
      BY <1>1
    <2>2. CASE LookupExact(m)
      BY <1>1, <2>1, <2>2 DEF LookupExact, Step, Held
    <2>3. CASE LookupPattern(m)
      <3>1. \/ msg'[m] = [x EXCEPT !.at = "unrouted"]
            \/ \E r : msg'[m] = [x EXCEPT !.route = r, !.at = "handlers"]
        BY <2>1, <2>3 DEF LookupPattern, Step
      <3>2. msg'[m].at \in {"unrouted", "handlers"}
        BY <1>1, <3>1 DEF Held
      <3> QED
        BY <2>3, <3>2 DEF LookupPattern
    <2>4. CASE FetchHandlers(m) \/ FetchMiddleware(m) \/ FetchBlocking(m)
      <3>1. \E b : \/ msg'[m] = [x EXCEPT !.ownHandlers = b, !.at = "middleware"]
                   \/ msg'[m] = [x EXCEPT !.ownMiddleware = b, !.at = "blocking"]
                   \/ msg'[m] = [x EXCEPT !.serial = b, !.at = "guard"]
        BY <2>1, <2>4 DEF FetchHandlers, FetchMiddleware, FetchBlocking, Step
      <3>2. msg'[m].at \in {"middleware", "blocking", "guard"}
        BY <1>1, <3>1 DEF Held
      <3> QED
        BY <2>4, <3>2 DEF FetchHandlers, FetchMiddleware, FetchBlocking
    <2> QED
      BY <2>2, <2>3, <2>4 DEF Lookup
  <1>4. ServeInv(m)'
    BY <1>3 DEF ServeInv
  <1>5. AnswerInv(m)'
    <2>1. Failures(m)' = Failures(m)
      BY <1>3 DEF Failures
    <2> QED
      BY <1>3, <2>1 DEF WayInv, AnswerInv
  <1> QED
    BY <1>2, <1>4, <1>5 DEF WayInv

\* So does _dispatch keep what it has to.
LEMMA WayRun ==
    ASSUME Shape, OrderInv, NEW m \in Messages, MsgInv(m), WayInv(m), Dispatch(m)
    PROVE  WayInv(m)'
  <1>1. RouteInv(m)' /\ AnswerInv(m)'
    BY DispatchRoute, AnswerStep DEF WayInv
  <1>2. ASSUME msg'[m].at \notin {"serve", "done"} PROVE ServeInv(m)'
    BY <1>2 DEF ServeInv
  <1>3. ASSUME EndMiddleware(m) PROVE ServeInv(m)'
    BY <1>3, NoneServed
  <1>4. ASSUME EndHandlers(m) PROVE ServeInv(m)'
    BY <1>4, AllServed DEF WayInv, OrderInv
  <1>5. ASSUME HandlerEnds(m) PROVE ServeInv(m)'
    BY <1>5, HandlerRuns DEF WayInv
  <1>6. ASSUME HandlerTypeError(m) PROVE ServeInv(m)'
    BY <1>6, HandlerTried DEF WayInv
  <1>7. ServeInv(m)'
    <2>1. NotFound(m) \/ MiddlewarePasses(m) \/ MiddlewareRejects(m) \/ MiddlewareFails(m)
             => msg[m].at \in {"unrouted", "guard"}
      BY DEF NotFound, MiddlewarePasses, MiddlewareRejects, MiddlewareFails
    <2>2. \/ msg[m].at = "serve" \/ msg'[m].at \notin {"serve", "done"}
          \/ EndMiddleware(m)
      BY DispatchPlaces
    <2> QED
      BY <1>2, <1>3, <1>4, <1>5, <1>6, <2>1, <2>2 DEF Dispatch
  <1> QED
    BY <1>1, <1>7 DEF WayInv

LEMMA WaysStep ==
    Shape /\ TablesInv /\ OrderInv /\ MessagesInv /\ WaysInv /\ [Next]_vars => WaysInv'
  <1> SUFFICES ASSUME Shape, TablesInv, OrderInv, MessagesInv, WaysInv, [Next]_vars,
                      NEW m \in Messages
               PROVE  WayInv(m)'
    BY DEF WaysInv
  <1>0. /\ WayInv(m) /\ MsgInv(m) /\ msg[m].route \in Routes
        /\ msg \in [Messages -> Held] /\ ran \in [Messages -> Seq(Entries)]
        /\ told \in [Messages -> Seq({404, 500})]
        /\ handlers \in [Routes -> Seq(Handlers)]
    BY DEF WaysInv, MessagesInv, Shape, TypeOK, Held
  <1>1. Serves(m) \in Seq(Handlers) /\ Len(Serves(m)) \in Nat
    BY <1>0 DEF Serves
  <1>2. ASSUME handlers' = handlers, msg'[m] = msg[m], ran'[m] = ran[m],
               told'[m] = told[m]
        PROVE  WayInv(m)'
    <2>1. Serves(m)' = Serves(m)
      BY <1>2 DEF Serves
    <2>2. Grown(Serves(m), Serves(m))
      BY <1>1 DEF Grown
    <2> QED
      BY <1>0, <1>1, <1>2, <2>1, <2>2, WayKept
  <1>3. CASE Register
    <2>1. /\ msg' = msg /\ ran' = ran /\ told' = told
          /\ handlers' \in [Routes -> Seq(Handlers)]
          /\ Grown(handlers[msg[m].route], handlers'[msg[m].route])
      BY <1>0, <1>3, Registration
    <2>2. Serves(m)' \in Seq(Handlers)
      BY <1>0, <2>1 DEF Serves
    <2>3. Grown(Serves(m), Serves(m)')
      BY <2>1 DEF Serves, Grown
    <2>4. Len(Serves(m)') \in Nat
      BY <2>2
    <2>5. msg'[m] = msg[m] /\ ran'[m] = ran[m] /\ told'[m] = told[m]
      BY <2>1
    <2> QED
      BY <1>0, <1>1, <2>3, <2>4, <2>5, WayKept
  <1>4. ASSUME NEW l \in Messages, Lookup(l) \/ Dispatch(l) PROVE WayInv(m)'
    <2>1. CASE l = m
      BY <1>0, <1>4, <2>1, WayFound, WayRun
    <2>2. CASE l # m
      BY <1>2, <1>4, <2>2, OthersKept
    <2> QED
      BY <2>1, <2>2
  <1>5. CASE UNCHANGED vars
    BY <1>2, <1>5 DEF vars, tables
  <1> QED
    BY <1>3, <1>4, <1>5 DEF Next

----------------------------------------------------------------------------
(* The theorems.                                                           *)

\* The invariant of Routing.
Inv == Shape /\ TablesInv /\ OrderInv /\ MessagesInv /\ WaysInv

\* It holds at first: nothing is registered, no message has been looked up.
LEMMA InitInv == Init => Inv
  <1> SUFFICES ASSUME Init PROVE Inv
    OBVIOUS
  <1> DEFINE fresh(p) == [at |-> "new", path |-> p, route |-> p, since |-> 0,
                          ownHandlers |-> TRUE, ownMiddleware |-> TRUE, serial |-> FALSE,
                          next |-> 1, retry |-> FALSE]
  <1>1. PICK path \in [Messages -> Paths] : msg = [m \in Messages |-> fresh(path[m])]
    BY DEF Init
  <1>2. \A p \in Paths : fresh(p) \in Held
    BY DEF Held, Places, Routes
  <1>3. /\ patterns = <<>> /\ call = 1 /\ pos = 1
        /\ handlers = [r \in Routes |-> <<>>]
        /\ middleware = [r \in Routes |-> <<>>]
        /\ handlerKeys = {} /\ middlewareKeys = {} /\ blocking = {}
        /\ ran = [m \in Messages |-> <<>>]
        /\ told = [m \in Messages |-> <<>>]
    BY DEF Init
  <1>4. \A m \in Messages : msg[m].at = "new" /\ msg[m].since = 0 /\ msg[m].next = 1
    BY <1>1
  <1> HIDE DEF fresh
  <1>5. TypeOK
    <2>1. msg \in [Messages -> Held]
      BY <1>1, <1>2
    <2>2. \A S : <<>> \in Seq(S)
      OBVIOUS
    <2>3. /\ handlers \in [Routes -> Seq(Handlers)]
          /\ middleware \in [Routes -> Seq(Middleware)]
          /\ ran \in [Messages -> Seq(Entries)]
          /\ told \in [Messages -> Seq({404, 500})]
      BY <1>3, <2>2
    <2> QED
      BY <1>3, <2>1, <2>2, <2>3 DEF TypeOK
  <1>6. Shape
    <2>1. call <= Len(Calls) + 1
      BY <1>3, RoutingAssumption
    <2>2. call <= Len(Calls) => pos <= Len(Script(Calls[call]))
      BY <1>3, ScriptLength, RoutingAssumption
    <2> QED
      BY <1>3, <1>4, <1>5, <2>1, <2>2 DEF Shape
  <1>7. TablesInv
    <2>1. \A c \in 1..Len(Calls) : \A n \in 1..Len(Script(Calls[c])) :
             ~(c < 1) /\ ~(n < 1)
      BY ScriptLength, RoutingAssumption
    <2> QED
      BY <1>3, <2>1 DEF TablesInv
  <1>8. MessagesInv
    BY <1>3, <1>4 DEF MessagesInv, MsgInv, Unguarded, NothingYet, Guarding, Serving, Stopped
  <1>9. OrderInv
    <2>1. KeysInv /\ PatternsInv
      BY <1>3 DEF KeysInv, PatternsInv
    <2>2. \A c \in 1..Len(Calls) : ~Added(c)
      <3>1. \A c : AddAt(Calls[c]) \in 2..3
        BY DEF AddAt
      <3> QED
        BY <1>3, <3>1, RoutingAssumption DEF Added
    <2>3. \A r \in Routes : AddedTo(r) = {} /\ Len(handlers[r]) = 0
      BY <1>3, <2>2 DEF AddedTo
    <2>4. HandlersInv
      BY <2>2, <2>3, FS_EmptySet DEF HandlersInv
    <2> QED
      BY <2>1, <2>4 DEF OrderInv
  <1>10. WaysInv
    <2> SUFFICES ASSUME NEW m \in Messages PROVE WayInv(m)
      BY DEF WaysInv
    <2>1. msg[m].at = "new" /\ msg[m].route = msg[m].path /\ msg[m].ownHandlers
      BY <1>1 DEF fresh
    <2>2. Failures(m) = {} /\ told[m] = <<>>
      BY <1>3 DEF Failures
    <2>3. Cardinality(Failures(m)) = 0 /\ <<>> \in Seq({500}) /\ Len(<<>>) = 0
      BY <2>2, FS_EmptySet
    <2> QED
      BY <2>1, <2>2, <2>3
         DEF WayInv, RouteInv, ServeInv, AnswerInv, Going, Dispatched
  <1> QED
    BY <1>6, <1>7, <1>8, <1>9, <1>10 DEF Inv

\* The invariant holds in every state: shapes, what the complete registrations
\* put in the tables and in which order, what each message has behind it, and
\* where it went.
THEOREM Invariance == Spec => []Inv
  <1>1. Init => Inv
    BY InitInv
  <1>2. Inv /\ [Next]_vars => Inv'
    BY ShapeStep, TablesStep, OrderStep, MessagesStep, WaysStep DEF Inv
  <1> QED
    BY <1>1, <1>2, PTL DEF Spec

\* Every variable keeps its shape: a path that register_path or emit_path was
\* given, a list of what was registered, a place that a message can be at.
THEOREM TypeCorrect == Spec => []TypeOK
  <1>1. Inv => TypeOK
    BY DEF Inv, Shape
  <1> QED
    BY <1>1, Invariance, PTL

\* No handler runs before the middleware that was registered for its route when
\* the message came, and that let the message pass, whatever is being registered.
THEOREM MiddlewareGuards == Spec => []MiddlewareFirst
  <1>1. Inv => MiddlewareFirst
    <2> SUFFICES ASSUME Inv, NEW m \in Messages, NEW i \in 1..Len(ran[m]),
                        ran[m][i].what \in Handlers
                 PROVE  /\ \A c \in 1..Len(Calls) :
                              Before(m, c) /\ Calls[c].route = msg[m].route =>
                                \A k \in 1..Len(Calls[c].middleware) :
                                  \E j \in 1..(i - 1) :
                                    ran[m][j].what = Calls[c].middleware[k]
                        /\ \A j \in 1..(i - 1) : ran[m][j].what \in Middleware
                              => ran[m][j].end \in {"pass", "replace"}
      BY DEF MiddlewareFirst
    <2>1. /\ MsgInv(m) /\ msg[m].at \in Places /\ Handlers \cap Middleware = {}
          /\ Len(ran[m]) \in Nat
      BY RoutingAssumption DEF Inv, MessagesInv, Shape, TypeOK, Held
    <2>2. msg[m].at \in {"serve", "done"}
      <3>1. msg[m].at \notin Fresh
        BY <2>1 DEF MsgInv, NothingYet
      <3>2. msg[m].at # "guard"
        BY <2>1 DEF MsgInv, Guarding, AllPassed
      <3>3. msg[m].at # "stopped"
        BY <2>1 DEF MsgInv, Stopped
      <3> QED
        BY <2>1, <3>1, <3>2, <3>3 DEF Places, Fresh
    <2>3. PICK n \in 0..Len(ran[m]) :
              /\ AllPassed(m, n)
              /\ \A j \in (n + 1)..Len(ran[m]) : ran[m][j].what \in Handlers
              /\ \A w \in Middleware : Promised(m, w) => RanIn(m, n, w)
      BY <2>1, <2>2 DEF MsgInv, Serving
    <2>4. n < i
      <3>1. ~(i \in 1..n)
        BY <2>1, <2>3 DEF AllPassed
      <3> QED
        BY <2>1, <3>1
    <2>5. \A j \in 1..n : j \in 1..(i - 1)
      BY <2>1, <2>4
    <2>6. ASSUME NEW j \in 1..(i - 1), ran[m][j].what \in Middleware PROVE j \in 1..n
      <3>1. j \notin (n + 1)..Len(ran[m])
        BY <2>1, <2>3, <2>6
      <3> QED
        BY <2>1, <3>1
    <2>7. ASSUME NEW c \in 1..Len(Calls), Before(m, c), Calls[c].route = msg[m].route,
                 NEW k \in 1..Len(Calls[c].middleware)
          PROVE  \E j \in 1..(i - 1) : ran[m][j].what = Calls[c].middleware[k]
      <3>1. Calls[c].middleware[k] \in Middleware
        BY ScriptLength DEF Call
      <3>2. Promised(m, Calls[c].middleware[k])
        BY <2>7 DEF Promised
      <3> QED
        BY <2>3, <2>5, <3>1, <3>2 DEF RanIn
    <2> QED
      BY <2>3, <2>6, <2>7 DEF AllPassed
  <1> QED
    BY <1>1, Invariance, PTL

\* However registrations and lookups interleave, a message goes by the path that
\* is registered for it or else the first of its patterns, alone if that blocks,
\* and is run by all the handlers registered before it came, in their order; and
\* no message of a registered path is answered with 404.
THEOREM RouteIsRight == Spec => []RoutedAsRegistered
  <1>1. Inv => RoutedAsRegistered
    <2> SUFFICES ASSUME Inv, NEW m \in Messages
                 PROVE  /\ msg[m].at = "notFound" => Exact(m) = {} /\ ByPattern(m) = {}
                        /\ msg[m].at \in Dispatched => RightRoute(m) /\ RightBlock(m)
                        /\ msg[m].at = "done" => RightHandlers(m)
      BY DEF RoutedAsRegistered, Dispatched
    <2>1. RouteInv(m) /\ ServeInv(m)
      BY DEF Inv, WaysInv, WayInv
    <2> QED
      BY <2>1 DEF RouteInv, ServeInv, Going, Dispatched
  <1> QED
    BY <1>1, Invariance, PTL

\* A sender who waits is told 404 once for a path that nobody serves, and else 500
\* for each failure while the message was its own and for no more than failed; one
\* that does not wait hears nothing.
THEOREM FailuresAreTold == Spec => []AnswersMatchFailures
  <1>1. ASSUME Inv, NEW m \in Messages
        PROVE  IF m \notin Waiting THEN told[m] = <<>>
               ELSE IF msg[m].at = "notFound" THEN told[m] = <<404>>
               ELSE /\ \A i \in 1..Len(told[m]) : told[m][i] = 500
                    /\ Cardinality(Failures(m)) <= Len(told[m])
                    /\ Len(told[m]) <= Cardinality(AllFailures(m))
    <2>1. AnswerInv(m)
      BY <1>1 DEF Inv, WaysInv, WayInv
    <2>2. \A s \in Seq({500}) : \A i \in 1..Len(s) : s[i] = 500
      OBVIOUS
    <2>3. ran[m] \in Seq(Entries)
      BY <1>1 DEF Inv, Shape, TypeOK
    <2>4. IsFiniteSet(1..Len(ran[m]))
      BY <2>3, FS_Interval
    <2>5. Failures(m) \subseteq AllFailures(m) /\ AllFailures(m) \subseteq 1..Len(ran[m])
      BY DEF Failures, AllFailures
    <2>6. IsFiniteSet(AllFailures(m)) /\ IsFiniteSet(Failures(m))
      BY <2>4, <2>5, FS_Subset
    <2>7. /\ Cardinality(Failures(m)) <= Cardinality(AllFailures(m))
          /\ Cardinality(Failures(m)) \in Nat
      BY <2>5, <2>6, FS_Subset, FS_CardinalityType
    <2> QED
      BY <2>1, <2>2, <2>7 DEF AnswerInv
  <1>2. Inv => AnswersMatchFailures
    BY <1>1 DEF AnswersMatchFailures
  <1> QED
    BY <1>2, Invariance, PTL

=============================================================================
