---------------------------- MODULE ServerProofs ----------------------------
(***************************************************************************)
(* Proofs about Server, for any connections, addresses, starts and slots:  *)
(* who is in the registry, who is told of a loss, and what drain() and     *)
(* stop() may promise.                                                     *)
(***************************************************************************)
EXTENDS Server, FiniteSetTheorems, TLAPS

LossPlaces   == {"lost", "setLost", "unregister", "settle"}
ReaderPlaces == {"off", "setup", "notify", "loop", "end", "ended"}
AppPlaces    == {"idle", "early", "wait1", "flush1", "wait2", "flush2", "join", "losing"}

\* The threads that have set the flag of c and are about to unregister it, and
\* those that have not got through with the rest either.
Unregistering(t, c) == thread[t].at = "unregister" /\ thread[t].conn = c
Handling(t, c)      == thread[t].at \in {"unregister", "settle"} /\ thread[t].conn = c

\* The connection is served, or will be when its own thread is through with a
\* loss that another thread handles.
Serving(c) == \/ thread[c].at \in {"notify", "loop"}
              \/ thread[c].at \in LossPlaces \ {"settle"} /\ thread[c].back = "loop"

\* The connection need not be found in the registry.
Missed(c) == link[c] # "up" \/ c \in displaced \cup abandoned \/ BeingDisconnected(c)

\* Nobody waits for the frames of such a connection.
Gone(c) == lost[c] \/ Missed(c)

----------------------------------------------------------------------------
(* The invariant.                                                          *)

\* What a thread may do, and for whom it handles a loss.
PlacesInv ==
    /\ \A c \in Conns :
          \/ /\ thread[c].at \in ReaderPlaces
             /\ thread[c].conn = None /\ thread[c].back = None
          \/ /\ thread[c].at \in LossPlaces
             /\ thread[c].conn = c /\ thread[c].back \in {"end", "loop"}
    /\ \/ /\ thread[App].at \in AppPlaces
          /\ thread[App].conn = None /\ thread[App].back = None
       \/ /\ thread[App].at \in LossPlaces
          /\ thread[App].conn \in Conns /\ thread[App].back = "losing"
          /\ link[thread[App].conn] = "down"
    /\ thread[App].todo # {} => thread[App].at \in {"flush1", "flush2", "losing"} \cup LossPlaces
    /\ \/ /\ thread[Admin].at = "idle"
          /\ thread[Admin].conn = None /\ thread[Admin].back = None
       \/ /\ thread[Admin].at = "shutdown"
          /\ thread[Admin].conn \in Conns /\ thread[Admin].back = None
       \/ /\ thread[Admin].at \in LossPlaces
          /\ thread[Admin].conn \in Conns /\ thread[Admin].back = "idle"
          /\ link[thread[Admin].conn] = "down"

\* An acceptor has accepted a connection that has no thread yet.
WithPeer(l) == acceptor[l].at \in {"admit", "acquire"}

\* How a connection comes to its thread, and what nobody has done before.
AdmitInv ==
    /\ \A c \in Conns : c > opened => link[c] = "none" /\ thread[c].at = "off"
    /\ \A l \in Listeners :
          /\ acceptor[l].at # "off" => l <= starts
          /\ WithPeer(l) => /\ acceptor[l].conn \in 1..opened
                            /\ thread[acceptor[l].conn].at = "off"
    /\ \A l, k \in Listeners :
          WithPeer(l) /\ WithPeer(k) /\ acceptor[l].conn = acceptor[k].conn => l = k
    /\ \A c \in 1..opened : admittedBy[c] \in 1..starts
    /\ slots + Cardinality({c \in Conns : thread[c].at \notin {"off", "ended"}})
          = MaxConnections

\* Who is in the registry, and who has yet to be.
RegistryInv ==
    /\ \A a \in Addresses : clients[a] # None => address[clients[a]] = a
    /\ \A c \in Conns :
          thread[c].at \in {"off", "setup"} =>
             /\ c \notin Registered /\ ~lost[c] /\ c \notin displaced
             /\ \A t \in Threads : thread[t].conn # c
             /\ c \notin thread[App].todo
             /\ announced[c].connect = 0
    /\ \A c \in Conns :
          Serving(c) => c \in Registered \/ Missed(c)
    /\ \A c \in Registered :
          /\ thread[c].at \in {"end", "ended"} => lost[c]
          /\ lost[c] => \E t \in Threads : Unregistering(t, c)

\* The flag of a connection and who is told of its loss.
FlagTells(c) ==
    lost[c] <=> \/ announced[c].disconnect > 0 \/ c \in interrupted
                \/ \E t \in Threads : Handling(t, c)
EndsLost(c) == announced[c].connect > 0 /\ thread[c].at \in {"end", "ended"} => lost[c]
LostOnce(c) ==
    c \notin raced =>
       /\ announced[c].disconnect <= 1
       /\ \A t, u \in Threads : Handling(t, c) /\ Handling(u, c) => t = u
       /\ \A t \in Threads : Handling(t, c) => announced[c].disconnect = 0
LossInv == \A c \in Conns : FlagTells(c) /\ EndsLost(c) /\ LostOnce(c)

\* Once stop() has taken the registry, whoever registers is late.
StopInv ==
    listener = None /\ thread[App].at # "join" =>
        /\ Registered \subseteq late
        /\ \A c \in 1..opened : admittedBy[c] \in cleared

\* What is queued is found in the registry or lost; what drain() answers for.
DrainInv ==
    /\ \A m \in Conns : job[m].to # None =>
          job[m].to \in 1..opened /\ (job[m].to \in Registered \/ Gone(job[m].to))
    /\ thread[App].at \notin {"flush2", "early"} => promised = {}
    /\ \A m \in promised :
          /\ job[m].task \in {"ended", "stranded"}
          /\ job[m].to # None => job[m].to \in thread[App].todo \/ Gone(job[m].to)

Inv == /\ TypeOK /\ PlacesInv /\ AdmitInv /\ RegistryInv /\ LossInv
       /\ StopInv /\ DrainInv

----------------------------------------------------------------------------
(* Types.                                                                  *)

ThreadRecords == [at : Places, conn : Conns \cup {None}, todo : SUBSET Conns,
                  back : {"end", "loop", "idle", "losing", None}]

\* Only the thread t moves, and where it is then.
To(t, place, c, back, todo) ==
    /\ thread'[t] = At(place, c, back, todo)
    /\ \A u \in Threads : u # t => thread'[u] = thread[u]

\* The other forms in which an action moves a thread.
PutTo(t, r) == thread' = [thread EXCEPT ![t] = r]
GoWith(t, place, S) == thread' = [thread EXCEPT ![t].at = place, ![t].todo = S]
KeepWith(t, S) == thread' = [thread EXCEPT ![t].todo = S]

\* What the constants say.
LEMMA Constants ==
    /\ MaxConns \in Nat /\ MaxStarts \in Nat /\ MaxConnections \in Nat
    /\ None \notin Conns /\ App \notin Conns /\ Admin \notin Conns
    /\ App # Admin /\ None # App /\ None # Admin /\ Busy \subseteq Conns
    /\ None \notin Listeners /\ None # "losing"
    /\ App \in Threads /\ Admin \in Threads /\ Conns \subseteq Threads
    /\ \A t \in Threads : t \in Conns \/ t = App \/ t = Admin
  BY ServerAssumption DEF Threads

\* How a thread moves in each of the ways the actions use.
LEMMA Moves ==
    ASSUME TypeOK, NEW t \in Threads
    PROVE  /\ \A place : Goto(t, place)
                 => To(t, place, thread[t].conn, thread[t].back, thread[t].todo)
           /\ \A c, back : Call(t, c, back) => To(t, "lost", c, back, thread[t].todo)
           /\ GoBack(t) => To(t, thread[t].back, None, None, thread[t].todo)
           /\ \A place, c, back, S : PutTo(t, At(place, c, back, S))
                 => To(t, place, c, back, S)
           /\ \A place, S : GoWith(t, place, S)
                 => To(t, place, thread[t].conn, thread[t].back, S)
           /\ \A S : KeepWith(t, S)
                 => To(t, thread[t].at, thread[t].conn, thread[t].back, S)
  <1>1. thread \in [Threads -> ThreadRecords]
    BY DEF TypeOK, ThreadRecords
  <1>2. thread[t] \in ThreadRecords
    BY <1>1
  <1>3. \A r : thread' = [thread EXCEPT ![t] = r]
           => thread'[t] = r /\ \A u \in Threads : u # t => thread'[u] = thread[u]
    BY <1>1
  <1>4. \A place : [thread[t] EXCEPT !.at = place]
                      = At(place, thread[t].conn, thread[t].back, thread[t].todo)
    BY <1>2 DEF At, ThreadRecords
  <1>5. \A S : [thread[t] EXCEPT !.todo = S]
                  = At(thread[t].at, thread[t].conn, thread[t].back, S)
    BY <1>2 DEF At, ThreadRecords
  <1>6. \A place, S : [[thread[t] EXCEPT !.at = place] EXCEPT !.todo = S]
                         = At(place, thread[t].conn, thread[t].back, S)
    <2> SUFFICES ASSUME NEW place, NEW S
                 PROVE  [[thread[t] EXCEPT !.at = place] EXCEPT !.todo = S]
                           = At(place, thread[t].conn, thread[t].back, S)
      OBVIOUS
    <2>1. [[thread[t] EXCEPT !.at = place] EXCEPT !.todo = S]
             = [At(place, thread[t].conn, thread[t].back, thread[t].todo) EXCEPT !.todo = S]
      BY <1>4
    <2> QED
      BY <2>1 DEF At
  <1>7. ASSUME NEW place, Goto(t, place)
        PROVE  To(t, place, thread[t].conn, thread[t].back, thread[t].todo)
    BY <1>3, <1>4, <1>7 DEF Goto, To
  <1>8. ASSUME NEW c, NEW back, Call(t, c, back)
        PROVE  To(t, "lost", c, back, thread[t].todo)
    BY <1>3, <1>8 DEF Call, To
  <1>9. ASSUME GoBack(t) PROVE To(t, thread[t].back, None, None, thread[t].todo)
    BY <1>3, <1>9 DEF GoBack, To
  <1>10. ASSUME NEW place, NEW S, GoWith(t, place, S)
         PROVE  To(t, place, thread[t].conn, thread[t].back, S)
    <2>1. thread'[t] = [[thread[t] EXCEPT !.at = place] EXCEPT !.todo = S]
      BY <1>1, <1>10 DEF GoWith
    <2>2. \A u \in Threads : u # t => thread'[u] = thread[u]
      BY <1>1, <1>10 DEF GoWith
    <2> QED
      BY <1>6, <2>1, <2>2 DEF To
  <1>11. ASSUME NEW S, KeepWith(t, S)
         PROVE  To(t, thread[t].at, thread[t].conn, thread[t].back, S)
    BY <1>3, <1>5, <1>11 DEF To, KeepWith
  <1>12. ASSUME NEW place, NEW c, NEW back, NEW S, PutTo(t, At(place, c, back, S))
         PROVE  To(t, place, c, back, S)
    BY <1>3, <1>12 DEF To, PutTo
  <1> QED
    BY <1>7, <1>8, <1>9, <1>10, <1>11, <1>12

----------------------------------------------------------------------------
(* Every step is one of a few kinds, by what it does to the connections.   *)

kept == <<address, interrupted, abandoned>>
core == <<kept, link, lost, clients, announced, raced, displaced, opened, slots>>

\* The socket of c alone changes, and it does not come up again.
Closes(c) == link'[c] = "down" /\ \A d \in Conns : d # c => link'[d] = link[d]

\* Nothing that concerns the connections changes.
Quiet == UNCHANGED <<thread, core>>

\* A peer opens the next connection.
Opens(c) ==
    /\ c = opened + 1 /\ link'[c] = "up"
    /\ \A d \in Conns : d # c => link'[d] = link[d]
    /\ opened' = c
    /\ UNCHANGED <<kept, thread, lost, clients, announced, raced, displaced, slots>>

\* The peer of c goes, or its socket is closed by nobody of Threads.
Falls(c) ==
    /\ link'[c] = "down" /\ c \in 1..opened
    /\ \A d \in Conns : d # c => link'[d] = link[d]
    /\ UNCHANGED <<kept, thread, lost, clients, announced, raced, displaced, opened, slots>>

\* Its thread is started, and goes its way up to the loop.
Begins(c) ==
    /\ thread[c].at = "off" /\ c \in 1..opened /\ acceptor' # acceptor
    /\ To(c, "setup", None, None, {})
    /\ slots' = slots - 1 /\ slots > 0
    /\ UNCHANGED <<kept, link, lost, clients, announced, raced, displaced, opened>>

Walks(c) ==
    /\ thread[c].at \in {"setup", "notify", "loop"}
    /\ \/ thread[c].at = "setup" /\ To(c, "end", None, None, thread[c].todo)
       \/ thread[c].at = "notify" /\ To(c, "loop", None, None, thread[c].todo)
       \/ To(c, "lost", c, "end", thread[c].todo)
       \/ thread[c].at = "loop" /\ To(c, "lost", c, "loop", thread[c].todo)
    /\ announced'[c].connect # announced[c].connect => thread[c].at = "notify"
    /\ announced'[c].disconnect = announced[c].disconnect
    /\ \A d \in Conns : d # c => announced'[d] = announced[d]
    /\ UNCHANGED <<kept, link, lost, clients, raced, displaced, opened, slots>>

Registers(c) ==
    /\ Register(c)
    /\ thread[c].at = "setup"
    /\ To(c, "notify", None, None, thread[c].todo)
    /\ clients'[address[c]] = c
    /\ \A a \in Addresses : a # address[c] => clients'[a] = clients[a]
    /\ displaced' = displaced \cup ({clients[address[c]]} \ {None})
    /\ UNCHANGED <<kept, link, lost, announced, raced, opened, slots>>

Ends(c) ==
    /\ thread[c].at = "end"
    /\ To(c, "ended", None, None, thread[c].todo)
    /\ Closes(c)
    /\ slots' = slots + 1
    /\ UNCHANGED <<kept, lost, clients, announced, raced, displaced, opened>>

\* handle_connection_lost, on the thread t.
Tests(t) ==
    LET c == thread[t].conn IN
    /\ thread[t].at = "lost"
    /\ \/ lost[c] /\ To(t, thread[t].back, None, None, thread[t].todo)
       \/ ~lost[c] /\ To(t, "setLost", c, thread[t].back, thread[t].todo)
    /\ UNCHANGED core

Sets(t) ==
    LET c == thread[t].conn IN
    /\ thread[t].at = "setLost"
    /\ To(t, "unregister", c, thread[t].back, thread[t].todo)
    /\ lost'[c] /\ \A d \in Conns : d # c => lost'[d] = lost[d]
    /\ \A d \in Conns : d \in raced' <=> d \in raced \/ (d = c /\ lost[c])
    /\ UNCHANGED <<kept, link, clients, announced, displaced, opened, slots>>

Unregisters(t) ==
    LET c == thread[t].conn IN
    /\ thread[t].at = "unregister"
    /\ To(t, "settle", c, thread[t].back, thread[t].todo)
    /\ clients'[address[c]] = (IF clients[address[c]] = c THEN None ELSE clients[address[c]])
    /\ \A a \in Addresses : a # address[c] => clients'[a] = clients[a]
    /\ UNCHANGED <<kept, link, lost, announced, raced, displaced, opened, slots>>

Settles(t) ==
    LET c == thread[t].conn IN
    /\ thread[t].at = "settle"
    /\ To(t, thread[t].back, None, None, thread[t].todo)
    /\ announced'[c].disconnect = announced[c].disconnect + 1
    /\ announced'[c].connect = announced[c].connect
    /\ \A d \in Conns : d # c => announced'[d] = announced[d]
    /\ Closes(c)
    /\ UNCHANGED <<kept, lost, clients, raced, displaced, opened, slots>>

Raises(t) ==
    LET c == thread[t].conn IN
    /\ thread[t].at = "settle"
    /\ \/ thread[t].back = "loop" /\ To(t, "lost", c, "end", {})
       \/ thread[t].back = "losing" /\ To(t, "idle", None, None, {})
       \/ thread[t].back \in {"end", "idle"} /\ To(t, thread[t].back, None, None, {})
    /\ interrupted' = interrupted \cup {c}
    /\ abandoned' = abandoned \cup thread[t].todo
    /\ UNCHANGED <<address, link, lost, clients, announced, raced, displaced, opened, slots>>

\* The administrator takes c out of the registry, then closes its socket.
Pops(c) ==
    /\ thread[Admin].at = "idle" /\ clients[address[c]] = c
    /\ To(Admin, "shutdown", c, None, {})
    /\ clients'[address[c]] = None
    /\ \A a \in Addresses : a # address[c] => clients'[a] = clients[a]
    /\ UNCHANGED <<kept, link, lost, announced, raced, displaced, opened, slots>>

Shuts ==
    LET c == thread[Admin].conn IN
    /\ thread[Admin].at = "shutdown"
    /\ To(Admin, "lost", c, "idle", thread[Admin].todo)
    /\ Closes(c)
    /\ UNCHANGED <<kept, lost, clients, announced, raced, displaced, opened, slots>>

\* The application goes on in drain(), or in stop() before and after its loop.
Strolls ==
    /\ Draining \/ Stop \/ EndStop
    /\ thread[App].at \in AppPlaces
    /\ thread[App].at = "losing" => thread[App].todo = {}
    /\ \E place \in AppPlaces \ {"losing"}, S \in SUBSET (Registered \cup thread[App].todo) :
          /\ To(App, place, None, None, S)
          /\ S # {} => place \in {"flush1", "flush2"}
    /\ UNCHANGED core

Takes ==
    /\ TakeClients
    /\ thread[App].at = "join"
    /\ To(App, "losing", None, None, Registered)
    /\ \A a \in Addresses : clients'[a] = None
    /\ UNCHANGED <<kept, link, lost, announced, raced, displaced, opened, slots>>

Loses(c) ==
    /\ thread[App].at = "losing" /\ c \in thread[App].todo
    /\ To(App, "lost", c, "losing", thread[App].todo \ {c})
    /\ Closes(c)
    /\ UNCHANGED <<kept, lost, clients, announced, raced, displaced, opened, slots>>

ConnectionKind == \E c \in Conns :
    \/ Opens(c) \/ Falls(c) \/ Begins(c) \/ Walks(c)
    \/ Registers(c) \/ Ends(c) \/ Pops(c) \/ Loses(c)
LossKind == \E t \in Threads :
    Tests(t) \/ Sets(t) \/ Unregisters(t) \/ Settles(t) \/ Raises(t)
Kind == Quiet \/ ConnectionKind \/ LossKind \/ Shuts \/ Strolls \/ Takes

\* A socket that is closed.
LEMMA LinkCloses ==
    ASSUME TypeOK, NEW c \in Conns, NEW x, link' = [link EXCEPT ![c] = x]
    PROVE  link'[c] = x /\ \A d \in Conns : d # c => link'[d] = link[d]
  BY DEF TypeOK

\* The steps of the acceptors, of the handlers and of the peers.
LEMMA OutsideKinds ==
    ASSUME TypeOK, AdmitInv, DrainInv,
           \/ Start \/ Acceptors
           \/ \E m \in Conns : Work(m) \/ PeerCloses(m)
    PROVE  Kind
  <1> USE DEF network, peers, events, stopVars, kept, core
  <1>1. ASSUME NEW l \in Listeners, Accept(l) PROVE Kind
    <2> DEFINE c == opened + 1
    <2>1. c \in Conns /\ link' = [link EXCEPT ![c] = "up"]
          /\ UNCHANGED <<kept, thread, lost, clients, announced, raced, displaced, slots>>
          /\ opened' = c
      BY <1>1 DEF Accept
    <2>2. Opens(c)
      BY <2>1, LinkCloses DEF Opens
    <2> QED
      BY <2>1, <2>2 DEF Kind, ConnectionKind
  <1>2. ASSUME NEW l \in Listeners, Admit(l) \/ Acquire(l) PROVE Kind
    <2> DEFINE c == acceptor[l].conn
    <2>1. c \in 1..opened /\ c \in Conns /\ thread[c].at = "off"
      <3>1. c \in 1..opened /\ thread[c].at = "off"
        BY <1>2 DEF Admit, Acquire, AdmitInv, WithPeer
      <3> QED
        BY <3>1, Constants DEF TypeOK, Conns
    <2>2. /\ UNCHANGED <<kept, lost, clients, announced, raced, displaced, opened>>
          /\ \/ /\ PutTo(c, At("setup", None, None, {})) /\ link' = link
                /\ slots' = slots - 1 /\ slots > 0
             \/ link' = [link EXCEPT ![c] = "down"] /\ thread' = thread /\ slots' = slots
             \/ link' = link /\ thread' = thread /\ slots' = slots
      BY <1>2 DEF Admit, Acquire, PutTo
    <2>3. acceptor' # acceptor
      <3>1. acceptor'[l].at # acceptor[l].at
        BY <1>2 DEF Admit, Acquire, NextPeer, Acceptor, TypeOK
      <3> QED
        BY <3>1
    <2>4. CASE PutTo(c, At("setup", None, None, {}))
      <3>1. To(c, "setup", None, None, {})
        BY <2>1, <2>4, Moves, Constants
      <3>2. link' = link /\ slots' = slots - 1 /\ slots > 0
        <4>1. thread' # thread
          BY <2>1, <3>1 DEF To, At
        <4> QED
          BY <2>2, <4>1
      <3>3. Begins(c)
        BY <2>1, <2>2, <2>3, <3>1, <3>2 DEF Begins
      <3> QED
        BY <2>1, <3>3 DEF Kind, ConnectionKind
    <2>5. CASE link' = [link EXCEPT ![c] = "down"] /\ thread' = thread /\ slots' = slots
      <3>1. Falls(c)
        BY <2>1, <2>2, <2>5, LinkCloses DEF Falls
      <3> QED
        BY <2>1, <3>1 DEF Kind, ConnectionKind
    <2>6. CASE link' = link /\ thread' = thread /\ slots' = slots
      BY <2>2, <2>6 DEF Kind, Quiet
    <2> QED
      BY <2>2, <2>4, <2>5, <2>6
  <1>3. ASSUME \/ Start
               \/ \E l \in Listeners : AcceptorBegin(l) \/ AcceptorEnd(l)
               \/ \E m \in Conns : Reply(m) \/ TaskEnds(m) \/ Write(m)
        PROVE  Kind
    BY <1>3 DEF Kind, Quiet, Start, AcceptorBegin, AcceptorEnd, Reply, TaskEnds, Write
  <1>4. ASSUME NEW m \in Conns, WriteFails(m) PROVE Kind
    <2>1. job[m].to \in 1..opened /\ job[m].to \in Conns
      <3>1. job[m].to \in 1..opened
        BY <1>4 DEF WriteFails, DrainInv
      <3> QED
        BY <3>1, Constants DEF TypeOK, Conns
    <2>2. Falls(job[m].to)
      BY <1>4, <2>1, LinkCloses DEF WriteFails, Falls
    <2> QED
      BY <2>1, <2>2 DEF Kind, ConnectionKind
  <1>5. ASSUME NEW c \in Conns, PeerCloses(c) PROVE Kind
    <2>1. c \in 1..opened
      BY <1>5 DEF PeerCloses, AdmitInv, TypeOK, Conns
    <2>2. Falls(c)
      BY <1>5, <2>1, LinkCloses DEF PeerCloses, Falls
    <2> QED
      BY <2>2 DEF Kind, ConnectionKind
  <1> QED
    BY <1>1, <1>2, <1>3, <1>4, <1>5 DEF Acceptors, Work

\* The steps of the thread of a connection.
LEMMA EntryKinds ==
    ASSUME TypeOK, PlacesInv, NEW c \in Conns, Entry(c)
    PROVE  Kind
  <1> USE DEF network, peers, events, stopVars, kept
  <1>1. c \in Threads
    BY Constants
  <1>2. thread[c].at \in ReaderPlaces => thread[c].conn = None /\ thread[c].back = None
    BY DEF PlacesInv, ReaderPlaces, LossPlaces
  <1>3. /\ \A place : Goto(c, place)
              => To(c, place, thread[c].conn, thread[c].back, thread[c].todo)
        /\ \A back : Call(c, c, back) => To(c, "lost", c, back, thread[c].todo)
    BY <1>1, Moves
  <1>4. CASE SetupFails(c) \/ Read(c) \/ ReadEnds(c) \/ KeepaliveTimeout(c)
    <2>1. UNCHANGED <<kept, link, lost, clients, announced, raced, displaced, opened, slots>>
      BY <1>4 DEF SetupFails, Read, ReadEnds, KeepaliveTimeout
    <2>2. \/ thread' = thread
          \/ thread[c].at = "setup" /\ Goto(c, "end")
          \/ thread[c].at \in {"setup", "loop"} /\ Call(c, c, "end")
          \/ thread[c].at = "loop" /\ Call(c, c, "loop")
      BY <1>4 DEF SetupFails, Read, ReadEnds, KeepaliveTimeout
    <2>3. CASE thread' = thread
      BY <2>1, <2>3 DEF Kind, Quiet, core
    <2>4. CASE thread' # thread
      <3>1. Walks(c)
        BY <1>2, <1>3, <2>1, <2>2, <2>4 DEF Walks, ReaderPlaces
      <3> QED
        BY <3>1 DEF Kind, ConnectionKind
    <2> QED
      BY <2>3, <2>4
  <1>5. CASE Notify(c)
    <2>1. /\ UNCHANGED <<kept, link, lost, clients, raced, displaced, opened, slots>>
          /\ thread[c].at = "notify"
          /\ \/ announced' = [announced EXCEPT ![c].connect = @ + 1] /\ Goto(c, "loop")
             \/ announced' = announced /\ Call(c, c, "end")
      BY <1>5 DEF Notify
    <2>2. /\ announced'[c].disconnect = announced[c].disconnect
          /\ \A d \in Conns : d # c => announced'[d] = announced[d]
      BY <2>1 DEF TypeOK
    <2>3. \/ To(c, "loop", None, None, thread[c].todo)
          \/ To(c, "lost", c, "end", thread[c].todo)
      BY <1>2, <1>3, <2>1 DEF ReaderPlaces
    <2>4. Walks(c)
      BY <2>1, <2>2, <2>3 DEF Walks
    <2> QED
      BY <2>4 DEF Kind, ConnectionKind
  <1>6. CASE Register(c)
    <2>1. /\ thread[c].at = "setup" /\ Goto(c, "notify")
          /\ clients' = [clients EXCEPT ![address[c]] = c]
          /\ displaced' = displaced \cup ({clients[address[c]]} \ {None})
          /\ UNCHANGED <<kept, link, lost, announced, raced, opened, slots>>
      BY <1>6 DEF Register
    <2>2. /\ clients'[address[c]] = c
          /\ \A a \in Addresses : a # address[c] => clients'[a] = clients[a]
      BY <2>1, Constants DEF TypeOK
    <2>3. Registers(c)
      BY <1>2, <1>3, <1>6, <2>1, <2>2 DEF Registers, ReaderPlaces
    <2> QED
      BY <2>3 DEF Kind, ConnectionKind
  <1>7. CASE EntryEnds(c)
    <2>1. /\ thread[c].at = "end" /\ Goto(c, "ended") /\ link' = [link EXCEPT ![c] = "down"]
          /\ slots' = slots + 1
          /\ UNCHANGED <<kept, lost, clients, announced, raced, displaced, opened>>
      BY <1>7 DEF EntryEnds
    <2>2. Ends(c)
      BY <1>2, <1>3, <2>1, LinkCloses DEF Ends, Closes, ReaderPlaces
    <2> QED
      BY <2>2 DEF Kind, ConnectionKind
  <1> QED
    BY <1>4, <1>5, <1>6, <1>7 DEF Entry

\* Who handles a loss has a connection.
LEMMA LossHasConn ==
    ASSUME PlacesInv, NEW t \in Threads, thread[t].at \in LossPlaces
    PROVE  thread[t].conn \in Conns
  BY Constants DEF PlacesInv, LossPlaces, ReaderPlaces, AppPlaces

\* Who handles a loss goes on at the end, in the loop or in its walk.
LEMMA BackPlaces ==
    ASSUME PlacesInv, NEW t \in Threads, thread[t].at \in LossPlaces
    PROVE  thread[t].back \in {"end", "loop", "losing", "idle"}
  BY Constants DEF PlacesInv, LossPlaces, ReaderPlaces, AppPlaces

\* The steps of handle_connection_lost.
LEMMA LossKinds ==
    ASSUME TypeOK, PlacesInv, NEW t \in Threads, Loss(t)
    PROVE  Kind
  <1> USE DEF network, peers, events, stopVars, kept
  <1> DEFINE c == thread[t].conn
  <1>1. c \in Conns
    BY LossHasConn
       DEF Loss, LossTest, LossSet, Unregister, Settle, SettleRaises, LossPlaces
  <1>2. CASE LossTest(t)
    <2>1. /\ thread[t].at = "lost" /\ UNCHANGED core
          /\ IF lost[c] THEN GoBack(t) ELSE Goto(t, "setLost")
      BY <1>2 DEF LossTest, core
    <2>2. Tests(t)
      BY <2>1, Moves DEF Tests
    <2> QED
      BY <2>2 DEF Kind, LossKind
  <1>3. CASE LossSet(t)
    <2>1. /\ thread[t].at = "setLost" /\ Goto(t, "unregister")
          /\ lost' = [lost EXCEPT ![c] = TRUE]
          /\ raced' = (IF lost[c] THEN raced \cup {c} ELSE raced)
          /\ UNCHANGED <<kept, link, clients, announced, displaced, opened, slots>>
      BY <1>3 DEF LossSet
    <2>2. lost'[c] /\ \A d \in Conns : d # c => lost'[d] = lost[d]
      BY <1>1, <2>1 DEF TypeOK
    <2>3. \A d \in Conns : d \in raced' <=> d \in raced \/ (d = c /\ lost[c])
      BY <2>1
    <2>4. Sets(t)
      BY <2>1, <2>2, <2>3, Moves DEF Sets
    <2> QED
      BY <2>4 DEF Kind, LossKind
  <1>4. CASE Unregister(t)
    <2>1. /\ thread[t].at = "unregister" /\ Goto(t, "settle")
          /\ clients' = [clients EXCEPT ![address[c]] = IF @ = c THEN None ELSE @]
          /\ UNCHANGED <<kept, link, lost, announced, raced, displaced, opened, slots>>
      BY <1>4 DEF Unregister
    <2>2. /\ clients'[address[c]] = (IF clients[address[c]] = c THEN None
                                                                ELSE clients[address[c]])
          /\ \A a \in Addresses : a # address[c] => clients'[a] = clients[a]
      BY <1>1, <2>1 DEF TypeOK
    <2>3. Unregisters(t)
      BY <2>1, <2>2, Moves DEF Unregisters
    <2> QED
      BY <2>3 DEF Kind, LossKind
  <1>5. CASE Settle(t)
    <2>1. /\ thread[t].at = "settle" /\ GoBack(t)
          /\ announced' = [announced EXCEPT ![c].disconnect = @ + 1]
          /\ link' = [link EXCEPT ![c] = "down"]
          /\ UNCHANGED <<kept, lost, clients, raced, displaced, opened, slots>>
      BY <1>5 DEF Settle
    <2>2. /\ announced'[c].disconnect = announced[c].disconnect + 1
          /\ announced'[c].connect = announced[c].connect
          /\ \A d \in Conns : d # c => announced'[d] = announced[d]
      BY <1>1, <2>1 DEF TypeOK
    <2>3. Closes(c)
      BY <1>1, <2>1, LinkCloses DEF Closes
    <2>4. Settles(t)
      BY <2>1, <2>2, <2>3, Moves DEF Settles
    <2> QED
      BY <2>4 DEF Kind, LossKind
  <1>6. CASE SettleRaises(t)
    <2> DEFINE back == thread[t].back
    <2>1. /\ thread[t].at = "settle"
          /\ interrupted' = interrupted \cup {c} /\ abandoned' = abandoned \cup thread[t].todo
          /\ UNCHANGED <<address, link, lost, clients, announced, raced, displaced, opened, slots>>
      BY <1>6 DEF SettleRaises
    <2>2. back \in {"end", "loop", "losing", "idle"}
      BY <2>1, BackPlaces DEF LossPlaces
    <2>3. thread' = [thread EXCEPT ![t] = CASE back = "loop"   -> At("lost", c, "end", {})
                                            [] back = "losing" -> At("idle", None, None, {})
                                            [] OTHER           -> At(back, None, None, {})]
      BY <1>6 DEF SettleRaises, TypeOK
    <2>4. \/ back = "loop" /\ PutTo(t, At("lost", c, "end", {}))
          \/ back = "losing" /\ PutTo(t, At("idle", None, None, {}))
          \/ back \in {"end", "idle"} /\ PutTo(t, At(back, None, None, {}))
      BY <2>2, <2>3 DEF PutTo
    <2>5. Raises(t)
      BY <2>1, <2>4, Moves DEF Raises
    <2> QED
      BY <2>5 DEF Kind, LossKind
  <1> QED
    BY <1>2, <1>3, <1>4, <1>5, <1>6 DEF Loss

\* The steps of the administrator.
LEMMA AdminKinds ==
    ASSUME TypeOK, PlacesInv, RegistryInv, AdminPop \/ AdminShutdown
    PROVE  Kind
  <1> USE DEF network, peers, events, stopVars, kept
  <1>1. CASE AdminPop
    <2>1. PICK a \in Addresses :
             /\ thread[Admin].at = "idle" /\ clients[a] \in Conns
             /\ clients' = [clients EXCEPT ![a] = None]
             /\ PutTo(Admin, At("shutdown", clients[a], None, {}))
             /\ UNCHANGED <<kept, link, lost, announced, raced, displaced, opened, slots>>
      BY <1>1, Constants DEF AdminPop, PutTo
    <2> DEFINE c == clients[a]
    <2>2. c \in Conns /\ address[c] = a
      BY <2>1, Constants DEF RegistryInv
    <2>3. /\ clients'[address[c]] = None
          /\ \A b \in Addresses : b # address[c] => clients'[b] = clients[b]
      BY <2>1, <2>2 DEF TypeOK
    <2>4. To(Admin, "shutdown", c, None, {})
      BY <2>1, Moves, Constants
    <2>5. Pops(c)
      BY <2>1, <2>2, <2>3, <2>4 DEF Pops
    <2> QED
      BY <2>2, <2>5 DEF Kind, ConnectionKind
  <1>2. CASE AdminShutdown
    <2> DEFINE c == thread[Admin].conn
    <2>1. /\ thread[Admin].at = "shutdown" /\ Call(Admin, c, "idle")
          /\ link' = [link EXCEPT ![c] = "down"]
          /\ UNCHANGED <<kept, lost, clients, announced, raced, displaced, opened, slots>>
      BY <1>2 DEF AdminShutdown
    <2>2. c \in Conns
      BY <2>1 DEF PlacesInv, LossPlaces
    <2>3. Shuts
      BY <2>1, <2>2, LinkCloses, Moves, Constants DEF Shuts, Closes
    <2> QED
      BY <2>3 DEF Kind
  <1> QED
    BY <1>1, <1>2

\* The steps of the application.
LEMMA AppKinds ==
    ASSUME TypeOK, PlacesInv, Draining \/ Stopping
    PROVE  Kind
  <1> USE DEF network, peers, events, stopVars, kept, lifecycle
  <1>1. /\ thread[App].at \in AppPlaces => thread[App].conn = None /\ thread[App].back = None
        /\ thread[App].at \in AppPlaces /\ thread[App].todo # {}
              => thread[App].at \in {"flush1", "flush2", "losing"}
    BY DEF PlacesInv, AppPlaces, LossPlaces
  <1>2. thread[App].todo \subseteq Conns /\ App \in Threads
    BY Constants DEF TypeOK
  <1>3. ASSUME NEW place \in AppPlaces \ {"losing"},
               NEW S \in SUBSET (Registered \cup thread[App].todo),
               To(App, place, None, None, S),
               S # {} => place \in {"flush1", "flush2"}, Draining \/ Stop \/ EndStop,
               thread[App].at \in AppPlaces,
               thread[App].at = "losing" => thread[App].todo = {}, UNCHANGED core
        PROVE  Kind
    BY <1>3 DEF Kind, Strolls
  <1>4. CASE Drain \/ DrainNothing \/ Stop
    <2>1. /\ thread[App].at = "idle" /\ UNCHANGED core
          /\ Goto(App, "wait1") \/ Goto(App, "early") \/ Goto(App, "join")
      BY <1>4 DEF Drain, DrainNothing, Stop, core
    <2>2. thread[App].todo = {} /\ thread[App].at \in AppPlaces
      BY <1>1, <2>1 DEF AppPlaces
    <2>3. \E place \in {"wait1", "early", "join"} : To(App, place, None, None, {})
      BY <1>1, <1>2, <2>1, <2>2, Moves
    <2> QED
      BY <1>3, <1>4, <2>1, <2>2, <2>3 DEF AppPlaces, Draining
  <1>5. CASE FirstWait \/ SecondWait
    <2>1. /\ thread[App].at \in {"wait1", "wait2"} /\ UNCHANGED core
          /\ \/ \E place \in {"flush1", "flush2"} : GoWith(App, place, Registered)
             \/ PutTo(App, At("idle", None, None, {}))
      BY <1>5 DEF FirstWait, SecondWait, Return, core, GoWith, PutTo
    <2>2. thread[App].at \in AppPlaces /\ thread[App].at # "losing"
      BY <2>1 DEF AppPlaces
    <2>3. \/ \E place \in {"flush1", "flush2"} : To(App, place, None, None, Registered)
          \/ To(App, "idle", None, None, {})
      <3>1. CASE PutTo(App, At("idle", None, None, {}))
        BY <1>2, <3>1, Moves
      <3>2. ASSUME NEW place \in {"flush1", "flush2"}, GoWith(App, place, Registered)
            PROVE  To(App, place, None, None, Registered)
        BY <1>1, <1>2, <2>2, <3>2, Moves
      <3> QED
        BY <2>1, <3>1, <3>2
    <2> QED
      BY <1>3, <1>5, <2>1, <2>2, <2>3 DEF AppPlaces, Draining
  <1>6. ASSUME NEW c \in Conns, Flush(c) PROVE Kind
    <2>1. /\ thread[App].at \in {"flush1", "flush2"} /\ UNCHANGED core
          /\ \/ KeepWith(App, thread[App].todo \ {c})
             \/ PutTo(App, At("idle", None, None, {}))
      BY <1>6 DEF Flush, Return, core, KeepWith, PutTo
    <2>2. \/ To(App, thread[App].at, None, None, thread[App].todo \ {c})
          \/ To(App, "idle", None, None, {})
      BY <1>1, <1>2, <2>1, Moves DEF AppPlaces
    <2> QED
      BY <1>3, <1>6, <2>1, <2>2 DEF AppPlaces, Draining
  <1>7. CASE EndFirstFlush
    <2>1. /\ thread[App].at = "flush1" /\ UNCHANGED core
          /\ Goto(App, "wait2") /\ thread[App].todo = {}
      BY <1>7 DEF EndFirstFlush, core
    <2>2. To(App, "wait2", None, None, {})
      BY <1>1, <1>2, <2>1, Moves DEF AppPlaces
    <2> QED
      BY <1>3, <1>7, <2>1, <2>2 DEF AppPlaces, Draining
  <1>8. CASE EndDrain \/ EndStop
    <2>1. /\ thread[App].at \in {"flush2", "early", "losing"} /\ UNCHANGED core
          /\ thread[App].todo = {}
          /\ PutTo(App, At("idle", None, None, {}))
      BY <1>8 DEF EndDrain, EndStop, Return, core, PutTo
    <2>2. To(App, "idle", None, None, {})
      BY <1>2, <2>1, Moves
    <2> QED
      BY <1>3, <1>8, <2>1, <2>2 DEF AppPlaces, Draining
  <1>9. CASE TakeClients
    <2>1. /\ thread[App].at = "join" /\ clients' = [a \in Addresses |-> None]
          /\ GoWith(App, "losing", Registered)
          /\ UNCHANGED <<kept, link, lost, announced, raced, displaced, opened, slots>>
      BY <1>9 DEF TakeClients, GoWith
    <2>2. To(App, "losing", None, None, Registered)
      BY <1>1, <1>2, <2>1, Moves DEF AppPlaces
    <2>3. Takes
      BY <1>9, <2>1, <2>2 DEF Takes
    <2> QED
      BY <2>3 DEF Kind
  <1>10. ASSUME NEW c \in Conns, LoseClient(c) PROVE Kind
    <2>1. /\ thread[App].at = "losing" /\ c \in thread[App].todo
          /\ link' = [link EXCEPT ![c] = "down"]
          /\ PutTo(App, At("lost", c, "losing", thread[App].todo \ {c}))
          /\ UNCHANGED <<kept, lost, clients, announced, raced, displaced, opened, slots>>
      BY <1>10 DEF LoseClient, PutTo
    <2>2. To(App, "lost", c, "losing", thread[App].todo \ {c})
      BY <1>2, <2>1, Moves
    <2>3. Loses(c)
      BY <2>1, <2>2, LinkCloses DEF Loses, Closes
    <2> QED
      BY <2>3 DEF Kind, ConnectionKind
  <1> QED
    BY <1>4, <1>5, <1>6, <1>7, <1>8, <1>9, <1>10 DEF Draining, Stopping

\* Every step is of one of the kinds.
LEMMA Kinds ==
    ASSUME TypeOK, PlacesInv, AdmitInv, RegistryInv, DrainInv, [Next]_vars
    PROVE  Kind
  <1>1. CASE UNCHANGED vars
    BY <1>1 DEF Kind, Quiet, kept, core, vars, network, peers, events, stopVars
  <1>2. CASE Start \/ Acceptors \/ \E m \in Conns : Work(m) \/ PeerCloses(m)
    BY <1>2, OutsideKinds
  <1>3. CASE \E c \in Conns : Entry(c)
    BY <1>3, EntryKinds
  <1>4. CASE \E t \in Threads : Loss(t)
    BY <1>4, LossKinds
  <1>5. CASE AdminPop \/ AdminShutdown
    BY <1>5, AdminKinds
  <1>6. CASE Draining \/ Stopping
    BY <1>6, AppKinds
  <1> QED
    BY <1>1, <1>2, <1>3, <1>4, <1>5, <1>6 DEF Next

\* Which thread moves in a step of each kind.
LEMMA OneMoves ==
    ASSUME NEW u \in Threads
    PROVE  /\ Quiet => thread'[u] = thread[u]
           /\ \A c \in Conns : Opens(c) \/ Falls(c) => thread'[u] = thread[u]
           /\ \A c \in Conns : /\ Begins(c) \/ Walks(c) \/ Registers(c) \/ Ends(c)
                               /\ thread'[u] # thread[u]
                               => u = c
           /\ \A t \in Threads : /\ Tests(t) \/ Sets(t) \/ Unregisters(t)
                                    \/ Settles(t) \/ Raises(t)
                                 /\ thread'[u] # thread[u]
                                 => u = t
           /\ \A c \in Conns : Pops(c) => u = Admin \/ thread'[u] = thread[u]
           /\ Shuts => u = Admin \/ thread'[u] = thread[u]
           /\ \A c \in Conns : Loses(c) => u = App \/ thread'[u] = thread[u]
           /\ Strolls \/ Takes => u = App \/ thread'[u] = thread[u]
  <1>1. \A t, place, c, back, S :
           To(t, place, c, back, S) => u = t \/ thread'[u] = thread[u]
    BY DEF To
  <1>2. Quiet => thread'[u] = thread[u]
    BY DEF Quiet
  <1>3. \A c \in Conns : Opens(c) \/ Falls(c) => thread'[u] = thread[u]
    BY DEF Opens, Falls
  <1>4. ASSUME NEW c \in Conns, Begins(c) \/ Walks(c) \/ Registers(c) \/ Ends(c)
        PROVE  u = c \/ thread'[u] = thread[u]
    BY <1>1, <1>4 DEF Begins, Walks, Registers, Ends
  <1>5. ASSUME NEW t \in Threads, Tests(t) \/ Sets(t) \/ Unregisters(t) \/ Settles(t) \/ Raises(t)
        PROVE  u = t \/ thread'[u] = thread[u]
    BY <1>1, <1>5 DEF Tests, Sets, Unregisters, Settles, Raises
  <1>6. ASSUME NEW c \in Conns, Pops(c)
        PROVE  u = Admin \/ thread'[u] = thread[u]
    BY <1>1, <1>6 DEF Pops
  <1>7. Shuts => u = Admin \/ thread'[u] = thread[u]
    BY <1>1 DEF Shuts
  <1>8. ASSUME NEW c \in Conns, Loses(c) PROVE u = App \/ thread'[u] = thread[u]
    BY <1>1, <1>8 DEF Loses
  <1>9. Strolls \/ Takes => u = App \/ thread'[u] = thread[u]
    BY <1>1 DEF Strolls, Takes
  <1> QED
    BY <1>2, <1>3, <1>4, <1>5, <1>6, <1>7, <1>8, <1>9

\* What a thread that moves does.
LEMMA AnyMoves ==
    ASSUME Kind, NEW u \in Threads
    PROVE  \/ thread'[u] = thread[u]
           \/ u \in Conns /\ (Begins(u) \/ Walks(u) \/ Registers(u) \/ Ends(u))
           \/ Tests(u) \/ Sets(u) \/ Unregisters(u) \/ Settles(u) \/ Raises(u)
           \/ u = Admin /\ (Shuts \/ \E c \in Conns : Pops(c))
           \/ u = App /\ (Strolls \/ Takes \/ \E c \in Conns : Loses(c))
  BY OneMoves DEF Kind, ConnectionKind, LossKind

\* How each of the threads moves.
LEMMA WhoMoves ==
    ASSUME Kind
    PROVE  /\ \A c \in Conns :
                 \/ thread'[c] = thread[c]
                 \/ Begins(c) \/ Walks(c) \/ Registers(c) \/ Ends(c)
                 \/ Tests(c) \/ Sets(c) \/ Unregisters(c) \/ Settles(c) \/ Raises(c)
           /\ \/ thread'[App] = thread[App]
              \/ Strolls \/ Takes \/ \E c \in Conns : Loses(c)
              \/ Tests(App) \/ Sets(App) \/ Unregisters(App) \/ Settles(App) \/ Raises(App)
           /\ \/ thread'[Admin] = thread[Admin]
              \/ Shuts \/ \E c \in Conns : Pops(c)
              \/ Tests(Admin) \/ Sets(Admin) \/ Unregisters(Admin)
              \/ Settles(Admin) \/ Raises(Admin)
  BY AnyMoves, Constants

----------------------------------------------------------------------------
(* What no step undoes.                                                    *)

\* A closed socket stays closed, and none comes up but that of a new peer.
LEMMA LinkStep ==
    ASSUME TypeOK, AdmitInv, Kind
    PROVE  \A c \in Conns :
              /\ link[c] = "down" => link'[c] = "down"
              /\ link'[c] = "up" => \/ link[c] = "up"
                                    \/ c > opened /\ thread[c].at = "off" /\ thread' = thread
  <1> SUFFICES ASSUME NEW c \in Conns
               PROVE  /\ link[c] = "down" => link'[c] = "down"
                      /\ link'[c] = "up" =>
                            \/ link[c] = "up"
                            \/ c > opened /\ thread[c].at = "off" /\ thread' = thread
    OBVIOUS
  <1>1. \/ link'[c] = link[c] \/ link'[c] = "down"
        \/ Opens(c)
        \/ Falls(c)
    <2>1. \A d \in Conns :
             /\ (Opens(d) \/ Falls(d)) /\ d # c => link'[c] = link[c]
             /\ Begins(d) \/ Walks(d) \/ Registers(d) \/ Pops(d) => link'[c] = link[c]
             /\ Ends(d) \/ Loses(d) => link'[c] = link[c] \/ link'[c] = "down"
      BY DEF Opens, Falls, Begins, Walks, Registers, Pops, Ends, Loses, Closes
    <2>2. \A t \in Threads :
             Tests(t) \/ Sets(t) \/ Unregisters(t) \/ Settles(t) \/ Raises(t)
                => link'[c] = link[c] \/ link'[c] = "down"
      BY DEF Tests, Sets, Unregisters, Settles, Raises, Closes, core
    <2>3. Quiet \/ Shuts \/ Strolls \/ Takes => link'[c] = link[c] \/ link'[c] = "down"
      BY DEF Quiet, Shuts, Strolls, Takes, Closes, core
    <2> QED
      BY <2>1, <2>2, <2>3 DEF Kind, ConnectionKind, LossKind
  <1>2. ASSUME Opens(c)
        PROVE  c > opened /\ thread[c].at = "off" /\ thread' = thread /\ link[c] = "none"
    BY <1>2, Constants DEF Opens, AdmitInv, TypeOK, Conns
  <1> QED
    BY <1>1, <1>2 DEF Falls

\* Flags and auxiliary sets only grow.
Growing(c) == /\ lost[c] => lost'[c]
              /\ c \in displaced => c \in displaced'
              /\ c \in raced => c \in raced'
              /\ c \in abandoned => c \in abandoned'
              /\ c \in interrupted => c \in interrupted'

LEMMA Grows ==
    ASSUME TypeOK, PlacesInv, Kind
    PROVE  \A c \in Conns : Growing(c)
  <1>1. ASSUME NEW t \in Threads, Sets(t)
        PROVE  \A c \in Conns : Growing(c)
    BY <1>1 DEF Sets, kept, Growing
  <1>2. ASSUME NEW t \in Threads, Raises(t)
        PROVE  \A c \in Conns : Growing(c)
    BY <1>2 DEF Raises, Growing
  <1>3. CASE ~\E t \in Threads : Sets(t) \/ Raises(t)
    <2>1. /\ UNCHANGED <<kept, lost, raced>>
          /\ displaced \subseteq displaced'
      BY <1>3 DEF Kind, Quiet, ConnectionKind, LossKind, core, Opens, Falls, Begins, Walks,
         Registers, Ends, Pops, Loses, Tests, Unregisters, Settles, Shuts, Strolls, Takes
    <2> QED
      BY <2>1 DEF kept, Growing
  <1> QED
    BY <1>1, <1>2, <1>3

\* No peer changes its address.
LEMMA AddressKept ==
    ASSUME Kind
    PROVE  address' = address
  BY DEF Kind, Quiet, ConnectionKind, LossKind, kept, core, Opens, Falls, Begins, Walks,
     Registers, Ends, Pops, Loses, Tests, Sets, Unregisters, Settles, Raises, Shuts, Strolls,
     Takes

\* A disconnection that has begun goes on till the socket is closed, or is abandoned.
LEMMA DisconnectStep ==
    ASSUME TypeOK, PlacesInv, AdmitInv, Kind, NEW c \in Conns, BeingDisconnected(c)
    PROVE  BeingDisconnected(c)' \/ link'[c] = "down" \/ c \in abandoned'
  <1>1. ASSUME NEW t \in Threads \ {c}, thread[t].conn = c
        PROVE  BeingDisconnected(c)' \/ link'[c] = "down" \/ c \in abandoned'
    <2>1. t = App \/ t = Admin
      BY <1>1, Constants DEF PlacesInv
    <2>2. CASE link[c] = "down"
      BY <2>2, LinkStep
    <2>3. CASE t = Admin /\ thread[Admin].at = "shutdown"
      <3>1. thread'[Admin].conn = c
        <4>1. /\ ~Tests(Admin) /\ ~Sets(Admin) /\ ~Unregisters(Admin)
              /\ ~Settles(Admin) /\ ~Raises(Admin)
          BY <2>3 DEF Tests, Sets, Unregisters, Settles, Raises
        <4>2. \A d \in Conns : ~Pops(d)
          BY <2>3 DEF Pops
        <4>3. Shuts => thread'[Admin].conn = thread[Admin].conn
          BY DEF Shuts, To, At
        <4> QED
          BY <1>1, <2>3, <4>1, <4>2, <4>3, WhoMoves
      <3> QED
        BY <1>1, <2>3, <3>1 DEF BeingDisconnected
    <2> QED
      BY <1>1, <2>1, <2>2, <2>3, Constants DEF PlacesInv
  <1>2. ASSUME "losing" \in {thread[App].at, thread[App].back}, c \in thread[App].todo
        PROVE  BeingDisconnected(c)' \/ link'[c] = "down" \/ c \in abandoned'
    <2>1. CASE thread'[App] = thread[App]
      BY <1>2, <2>1 DEF BeingDisconnected
    <2>2. CASE Tests(App) \/ Sets(App) \/ Unregisters(App) \/ Settles(App)
      <3>1. thread[App].at \in LossPlaces
        BY <2>2 DEF Tests, Sets, Unregisters, Settles, LossPlaces
      <3>2. thread[App].back = "losing"
        BY <3>1 DEF PlacesInv, LossPlaces, AppPlaces
      <3>3. /\ thread'[App].todo = thread[App].todo
            /\ thread'[App].at = "losing" \/ thread'[App].back = "losing"
        BY <2>2, <3>2 DEF Tests, Sets, Unregisters, Settles, To, At
      <3> QED
        BY <1>2, <3>3 DEF BeingDisconnected
    <2>3. ASSUME NEW d \in Conns, Loses(d)
          PROVE  BeingDisconnected(c)'
      <3>1. /\ thread'[App].todo = thread[App].todo \ {d} /\ thread'[App].conn = d
            /\ thread'[App].back = "losing"
        BY <2>3 DEF Loses, To, At
      <3> QED
        BY <1>2, <3>1, Constants DEF BeingDisconnected
    <2>4. ~Takes /\ ~Strolls
      <3>1. thread[App].at = "losing" \/ thread[App].at \notin AppPlaces
        BY <1>2, Constants DEF PlacesInv, LossPlaces, AppPlaces
      <3> QED
        BY <1>2, <3>1 DEF Takes, Strolls, AppPlaces
    <2>5. \/ thread'[App] = thread[App]
          \/ Tests(App) \/ Sets(App) \/ Unregisters(App) \/ Settles(App) \/ Raises(App)
          \/ \E d \in Conns : Loses(d)
      BY <2>4, WhoMoves
    <2>6. CASE Raises(App)
      BY <1>2, <2>6 DEF Raises
    <2> QED
      BY <2>1, <2>2, <2>3, <2>5, <2>6
  <1> QED
    BY <1>1, <1>2 DEF BeingDisconnected

\* Who is gone stays gone.
LEMMA GoneStep ==
    ASSUME TypeOK, PlacesInv, AdmitInv, Kind, NEW c \in 1..opened, Gone(c)
    PROVE  Gone(c)'
  <1>1. c \in Conns /\ ~(c > opened)
    BY Constants DEF TypeOK, Conns
  <1>2. link[c] # "up" => link'[c] # "up"
    BY <1>1, LinkStep
  <1>3. BeingDisconnected(c) => \/ BeingDisconnected(c)' \/ link'[c] # "up"
                                \/ c \in abandoned'
    BY <1>1, DisconnectStep
  <1> QED
    BY <1>1, <1>2, <1>3, Grows DEF Growing, Gone, Missed

\* How a connection leaves the registry, and how it comes into it.
LEMMA RegisteredStep ==
    ASSUME TypeOK, PlacesInv, AdmitInv, RegistryInv, Kind, NEW c \in Conns
    PROVE  /\ c \in Registered => \/ c \in Registered' \/ Missed(c)'
                                  \/ Unregisters(c) /\ thread[c].conn = c
           /\ c \in Registered' => c \in Registered \/ Registers(c)
  <1>1. /\ c \in Registered <=> clients[address[c]] = c
        /\ c \in Registered' <=> clients'[address[c]] = c
        /\ address[c] \in Addresses /\ c # None
    BY AddressKept, Constants DEF Registered, TypeOK
  <1>2. CASE clients' = clients
    BY <1>1, <1>2
  <1>3. ASSUME NEW d \in Conns, Registers(d)
        PROVE  /\ c \in Registered => c \in Registered' \/ Missed(c)'
               /\ c \in Registered' => c \in Registered \/ Registers(c)
    <2>1. CASE address[d] = address[c]
      <3>1. c \in Registered => c \in displaced'
        BY <1>1, <1>3, <2>1 DEF Registers
      <3>2. clients'[address[c]] = d
        BY <1>3, <2>1 DEF Registers
      <3> QED
        BY <1>1, <1>3, <3>1, <3>2 DEF Missed
    <2>2. CASE address[d] # address[c]
      BY <1>1, <1>3, <2>2 DEF Registers
    <2> QED
      BY <2>1, <2>2
  <1>4. ASSUME NEW t \in Threads, Unregisters(t)
        PROVE  /\ c \in Registered => \/ c \in Registered' \/ Missed(c)'
                                      \/ Unregisters(c) /\ thread[c].conn = c
               /\ c \in Registered' => c \in Registered
    <2> DEFINE d == thread[t].conn
    <2>1. d \in Conns
      BY <1>4, LossHasConn DEF Unregisters, LossPlaces
    <2>2. CASE d = c
      <3>1. c \notin Registered' /\ thread'[t].conn = c
        BY <1>1, <1>4, <2>2 DEF Unregisters, To, At
      <3>2. t # c => BeingDisconnected(c)'
        BY <3>1 DEF BeingDisconnected
      <3> QED
        BY <1>4, <2>2, <3>1, <3>2 DEF Missed
    <2>3. CASE d # c
      BY <1>1, <1>4, <2>1, <2>3 DEF Unregisters
    <2> QED
      BY <2>2, <2>3
  <1>5. ASSUME NEW d \in Conns, Pops(d)
        PROVE  /\ c \in Registered => c \in Registered' \/ Missed(c)'
               /\ c \in Registered' => c \in Registered
    <2>1. CASE c = d
      <3>1. thread'[Admin].conn = c
        BY <1>5, <2>1 DEF Pops, To, At
      <3>2. BeingDisconnected(c)'
        BY <3>1, Constants DEF BeingDisconnected
      <3> QED
        BY <1>1, <1>5, <2>1, <3>2 DEF Pops, Missed
    <2>2. CASE c # d
      BY <1>1, <1>5, <2>2 DEF Pops
    <2> QED
      BY <2>1, <2>2
  <1>6. CASE Takes
    <2>1. c \in Registered => thread'[App].at = "losing" /\ c \in thread'[App].todo
      BY <1>6 DEF Takes, To, At
    <2>2. c \in Registered => BeingDisconnected(c)'
      BY <2>1 DEF BeingDisconnected
    <2> QED
      BY <1>1, <1>6, <2>2 DEF Takes, Missed
  <1>7. \/ clients' = clients \/ Takes
        \/ \E d \in Conns : Registers(d) \/ Pops(d)
        \/ \E t \in Threads : Unregisters(t)
    BY DEF Kind, Quiet, ConnectionKind, LossKind, core, Opens, Falls, Begins, Walks,
       Ends, Loses, Tests, Sets, Settles, Raises, Shuts, Strolls
  <1> QED
    BY <1>2, <1>3, <1>4, <1>5, <1>6, <1>7

----------------------------------------------------------------------------
(* Where the threads are.                                                  *)

\* A reader goes its way and handles the losses of its own connection alone.
LEMMA ReaderPlacesStep ==
    ASSUME PlacesInv, Kind, NEW c \in Conns
    PROVE  \/ /\ thread'[c].at \in ReaderPlaces
              /\ thread'[c].conn = None /\ thread'[c].back = None
           \/ /\ thread'[c].at \in LossPlaces
              /\ thread'[c].conn = c /\ thread'[c].back \in {"end", "loop"}
  <1>1. \/ /\ thread[c].at \in ReaderPlaces
           /\ thread[c].conn = None /\ thread[c].back = None
        \/ /\ thread[c].at \in LossPlaces
           /\ thread[c].conn = c /\ thread[c].back \in {"end", "loop"}
    BY DEF PlacesInv
  <1>2. CASE thread'[c] = thread[c]
    BY <1>1, <1>2
  <1>3. CASE Begins(c) \/ Registers(c) \/ Ends(c)
    BY <1>3 DEF Begins, Registers, Ends, To, At, ReaderPlaces
  <1>4. CASE Walks(c)
    BY <1>4 DEF Walks, To, At, ReaderPlaces, LossPlaces
  <1>5. CASE Tests(c) \/ Sets(c) \/ Unregisters(c) \/ Settles(c) \/ Raises(c)
    BY <1>1, <1>5 DEF Tests, Sets, Unregisters, Settles, Raises, To, At, ReaderPlaces, LossPlaces
  <1> QED
    BY <1>2, <1>3, <1>4, <1>5, WhoMoves

\* So does the application: it handles the losses of the clients it has taken.
LEMMA AppPlacesStep ==
    ASSUME TypeOK, PlacesInv, AdmitInv, Kind
    PROVE  /\ \/ /\ thread'[App].at \in AppPlaces
                 /\ thread'[App].conn = None /\ thread'[App].back = None
              \/ /\ thread'[App].at \in LossPlaces
                 /\ thread'[App].conn \in Conns /\ thread'[App].back = "losing"
                 /\ link'[thread'[App].conn] = "down"
           /\ thread'[App].todo # {}
                 => thread'[App].at \in {"flush1", "flush2", "losing"} \cup LossPlaces
  <1>1. /\ \/ /\ thread[App].at \in AppPlaces
              /\ thread[App].conn = None /\ thread[App].back = None
           \/ /\ thread[App].at \in LossPlaces
              /\ thread[App].conn \in Conns /\ thread[App].back = "losing"
              /\ link[thread[App].conn] = "down"
        /\ thread[App].todo # {}
              => thread[App].at \in {"flush1", "flush2", "losing"} \cup LossPlaces
    BY DEF PlacesInv
  <1>2. thread[App].conn \in Conns /\ link[thread[App].conn] = "down"
           => link'[thread[App].conn] = "down"
    BY LinkStep
  <1>3. CASE thread'[App] = thread[App]
    BY <1>1, <1>2, <1>3
  <1>4. CASE Strolls
    <2>1. PICK place \in AppPlaces \ {"losing"}, S \in SUBSET (Registered \cup thread[App].todo) :
             /\ To(App, place, None, None, S)
             /\ S # {} => place \in {"flush1", "flush2"}
      BY <1>4 DEF Strolls
    <2>2. /\ thread'[App].at = place /\ thread'[App].todo = S
          /\ thread'[App].conn = None /\ thread'[App].back = None
      BY <2>1 DEF To, At
    <2> QED
      BY <2>1, <2>2
  <1>5. CASE Takes
    BY <1>5 DEF Takes, To, At, AppPlaces
  <1>6. ASSUME NEW c \in Conns, Loses(c)
        PROVE  /\ thread'[App].at = "lost" /\ thread'[App].conn = c
               /\ thread'[App].back = "losing" /\ link'[c] = "down"
    BY <1>6 DEF Loses, To, At, Closes
  <1>7. CASE Tests(App) \/ Sets(App) \/ Unregisters(App) \/ Settles(App) \/ Raises(App)
    <2>1. /\ thread[App].at \in LossPlaces /\ thread[App].at \notin AppPlaces
          /\ \/ thread'[App] = At("losing", None, None, thread[App].todo)
             \/ thread'[App] = At("idle", None, None, {})
             \/ \E place \in LossPlaces :
                   thread'[App] = At(place, thread[App].conn, "losing", thread[App].todo)
      BY <1>1, <1>7 DEF Tests, Sets, Unregisters, Settles, Raises, To, LossPlaces, AppPlaces
    <2>2. CASE \/ thread'[App] = At("losing", None, None, thread[App].todo)
               \/ thread'[App] = At("idle", None, None, {})
      BY <2>2 DEF At, AppPlaces
    <2>3. ASSUME NEW place \in LossPlaces,
                 thread'[App] = At(place, thread[App].conn, "losing", thread[App].todo)
          PROVE  /\ thread'[App].at \in LossPlaces /\ thread'[App].conn = thread[App].conn
                 /\ thread'[App].back = "losing"
      BY <2>3 DEF At
    <2> QED
      BY <1>1, <1>2, <2>1, <2>2, <2>3
  <1> QED
    BY <1>3, <1>4, <1>5, <1>6, <1>7, WhoMoves DEF LossPlaces

\* And the administrator, of the client it has popped.
LEMMA AdminPlacesStep ==
    ASSUME TypeOK, PlacesInv, AdmitInv, Kind
    PROVE  \/ /\ thread'[Admin].at = "idle"
              /\ thread'[Admin].conn = None /\ thread'[Admin].back = None
           \/ /\ thread'[Admin].at = "shutdown"
              /\ thread'[Admin].conn \in Conns /\ thread'[Admin].back = None
           \/ /\ thread'[Admin].at \in LossPlaces
              /\ thread'[Admin].conn \in Conns /\ thread'[Admin].back = "idle"
              /\ link'[thread'[Admin].conn] = "down"
  <1>1. \/ /\ thread[Admin].at = "idle"
           /\ thread[Admin].conn = None /\ thread[Admin].back = None
        \/ /\ thread[Admin].at = "shutdown"
           /\ thread[Admin].conn \in Conns /\ thread[Admin].back = None
        \/ /\ thread[Admin].at \in LossPlaces
           /\ thread[Admin].conn \in Conns /\ thread[Admin].back = "idle"
           /\ link[thread[Admin].conn] = "down"
    BY DEF PlacesInv
  <1>2. thread[Admin].conn \in Conns /\ link[thread[Admin].conn] = "down"
           => link'[thread[Admin].conn] = "down"
    BY LinkStep
  <1>3. CASE thread'[Admin] = thread[Admin]
    BY <1>1, <1>2, <1>3
  <1>4. ASSUME NEW c \in Conns, Pops(c)
        PROVE  /\ thread'[Admin].at = "shutdown" /\ thread'[Admin].conn = c
               /\ thread'[Admin].back = None
    BY <1>4 DEF Pops, To, At
  <1>5. CASE Shuts
    BY <1>1, <1>5 DEF Shuts, To, At, Closes, LossPlaces
  <1>6. CASE Tests(Admin) \/ Sets(Admin) \/ Unregisters(Admin) \/ Settles(Admin) \/ Raises(Admin)
    <2>1. /\ thread[Admin].at \in LossPlaces /\ thread[Admin].at \notin {"idle", "shutdown"}
          /\ \/ \E S : thread'[Admin] = At("idle", None, None, S)
             \/ \E place \in LossPlaces :
                   thread'[Admin] = At(place, thread[Admin].conn, "idle", thread[Admin].todo)
      BY <1>1, <1>6 DEF Tests, Sets, Unregisters, Settles, Raises, To, LossPlaces
    <2>2. CASE \E S : thread'[Admin] = At("idle", None, None, S)
      BY <2>2 DEF At
    <2>3. ASSUME NEW place \in LossPlaces,
                 thread'[Admin] = At(place, thread[Admin].conn, "idle", thread[Admin].todo)
          PROVE  /\ thread'[Admin].at \in LossPlaces
                 /\ thread'[Admin].conn = thread[Admin].conn
                 /\ thread'[Admin].back = "idle"
      BY <2>3 DEF At
    <2> QED
      BY <1>1, <1>2, <2>1, <2>2, <2>3
  <1> QED
    BY <1>3, <1>4, <1>5, <1>6, WhoMoves

\* Every thread stays in its places.
LEMMA PlacesStep ==
    ASSUME TypeOK, PlacesInv, AdmitInv, Kind
    PROVE  PlacesInv'
  BY ReaderPlacesStep, AppPlacesStep, AdminPlacesStep DEF PlacesInv

----------------------------------------------------------------------------
(* Losses.                                                                 *)

\* A thread comes to unregister a connection when it has set its flag,
LEMMA SetsHandling ==
    ASSUME NEW t \in Threads, Sets(t)
    PROVE  \A u \in Threads, d \in Conns :
              /\ Unregistering(u, d)' <=> Unregistering(u, d) \/ (u = t /\ d = thread[t].conn)
              /\ Handling(u, d)' <=> Handling(u, d) \/ (u = t /\ d = thread[t].conn)
              /\ ~Handling(t, d)
  <1>1. /\ thread'[t].at = "unregister" /\ thread'[t].conn = thread[t].conn
        /\ thread[t].at = "setLost"
        /\ \A u \in Threads : u # t => thread'[u] = thread[u]
    BY DEF Sets, To, At
  <1> QED
    BY <1>1 DEF Unregistering, Handling

\* it is through with that when it has done so,
LEMMA UnregistersHandling ==
    ASSUME NEW t \in Threads, Unregisters(t)
    PROVE  /\ \A u \in Threads, d \in Conns :
                 /\ Unregistering(u, d)' <=> Unregistering(u, d) /\ u # t
                 /\ Handling(u, d)' <=> Handling(u, d)
           /\ Unregistering(t, thread[t].conn)
  <1>1. /\ thread'[t].at = "settle" /\ thread[t].at = "unregister"
        /\ thread'[t].conn = thread[t].conn
        /\ \A u \in Threads : u # t => thread'[u] = thread[u]
    BY DEF Unregisters, To, At
  <1> QED
    BY <1>1 DEF Unregistering, Handling

\* and with the rest when it has announced the loss or has failed,
LEMMA SettlesHandling ==
    ASSUME PlacesInv, NEW t \in Threads, Settles(t) \/ Raises(t)
    PROVE  /\ \A u \in Threads, d \in Conns :
                 /\ Unregistering(u, d)' <=> Unregistering(u, d)
                 /\ Handling(u, d)' <=> Handling(u, d) /\ u # t
           /\ Handling(t, thread[t].conn)
  <1>1. /\ thread'[t].at \in {thread[t].back, "lost", "idle"} /\ thread[t].at = "settle"
        /\ \A u \in Threads : u # t => thread'[u] = thread[u]
    BY DEF Settles, Raises, To, At
  <1>2. thread[t].back \notin {"unregister", "settle"}
    BY <1>1, BackPlaces DEF LossPlaces
  <1> QED
    BY <1>1, <1>2 DEF Unregistering, Handling

\* and every other step leaves this as it is.
LEMMA OthersHandling ==
    ASSUME PlacesInv, Kind,
           ~\E t \in Threads : Sets(t) \/ Unregisters(t) \/ Settles(t) \/ Raises(t)
    PROVE  \A t \in Threads :
              \/ thread'[t] = thread[t]
              \/ /\ thread[t].at \notin {"unregister", "settle"}
                 /\ thread'[t].at \notin {"unregister", "settle"}
  <1> DEFINE busy == {"unregister", "settle"}
  <1> SUFFICES ASSUME NEW t \in Threads, thread'[t] # thread[t]
               PROVE  thread[t].at \notin busy /\ thread'[t].at \notin busy
    OBVIOUS
  <1>1. CASE Tests(t)
    <2>1. thread[t].at = "lost" /\ thread'[t].at \in {thread[t].back, "setLost"}
      BY <1>1 DEF Tests, To, At
    <2>2. thread[t].back \notin busy
      BY <2>1, BackPlaces DEF LossPlaces
    <2> QED
      BY <2>1, <2>2
  <1>2. CASE Begins(t) \/ Walks(t) \/ Registers(t) \/ Ends(t)
    <2>1. thread[t].at \in {"off", "setup", "notify", "loop", "end"}
      BY <1>2 DEF Begins, Walks, Registers, Ends
    <2>2. CASE Walks(t)
      BY <2>1, <2>2 DEF Walks, To, At
    <2>3. CASE Begins(t) \/ Registers(t) \/ Ends(t)
      BY <2>1, <2>3 DEF Begins, Registers, Ends, To, At
    <2> QED
      BY <1>2, <2>2, <2>3
  <1>3. CASE t = Admin /\ Shuts
    BY <1>3 DEF Shuts, To, At
  <1>4. ASSUME NEW d \in Conns, t = Admin, Pops(d)
        PROVE  thread[t].at \notin busy /\ thread'[t].at \notin busy
    BY <1>4 DEF Pops, To, At
  <1>5. CASE t = App /\ Strolls
    <2>1. PICK place \in AppPlaces, S \in SUBSET (Registered \cup thread[App].todo) :
             To(App, place, None, None, S)
      BY <1>5 DEF Strolls
    <2>2. thread'[App].at = place /\ thread[App].at \in AppPlaces
      BY <1>5, <2>1 DEF Strolls, To, At
    <2> QED
      BY <1>5, <2>2 DEF AppPlaces
  <1>6. CASE t = App /\ Takes
    BY <1>6 DEF Takes, To, At
  <1>7. ASSUME NEW d \in Conns, t = App, Loses(d)
        PROVE  thread[t].at \notin busy /\ thread'[t].at \notin busy
    BY <1>7 DEF Loses, To, At
  <1> QED
    BY <1>1, <1>2, <1>3, <1>4, <1>5, <1>6, <1>7, AnyMoves

\* A reader ends before it has served its connection, or when that is lost.
LEMMA EndingStep ==
    ASSUME PlacesInv, Kind, NEW c \in Conns, thread'[c].at \in {"end", "ended"}
    PROVE  \/ thread[c].at \in {"end", "ended"}
           \/ thread[c].at = "setup"
           \/ thread[c].conn = c /\ Tests(c) /\ lost[c]
           \/ thread[c].conn = c /\ (Settles(c) \/ Raises(c))
  <1>1. CASE thread'[c] = thread[c]
    BY <1>1
  <1>2. CASE Begins(c) \/ Registers(c) \/ Ends(c)
    BY <1>2 DEF Begins, Registers, Ends, To, At
  <1>3. CASE Walks(c)
    BY <1>3 DEF Walks, To, At
  <1>4. thread[c].at \in LossPlaces => thread[c].conn = c
    BY DEF PlacesInv, LossPlaces, ReaderPlaces
  <1>5. CASE Tests(c)
    BY <1>4, <1>5 DEF Tests, To, At, LossPlaces
  <1>6. CASE Sets(c)
    BY <1>6 DEF Sets, To, At
  <1>7. CASE Unregisters(c)
    BY <1>7 DEF Unregisters, To, At
  <1>8. CASE Settles(c) \/ Raises(c)
    BY <1>4, <1>8 DEF Settles, Raises, LossPlaces
  <1> QED
    BY <1>1, <1>2, <1>3, <1>5, <1>6, <1>7, <1>8, WhoMoves

\* A connection is announced by its own thread.
LEMMA ConnectStep ==
    ASSUME Kind, NEW c \in Conns
    PROVE  \/ announced'[c].connect = announced[c].connect
           \/ Walks(c) /\ thread[c].at = "notify"
  <1>1. \/ announced' = announced \/ \E d \in Conns : Walks(d)
        \/ \E t \in Threads : Settles(t)
    BY DEF Kind, Quiet, ConnectionKind, LossKind, core, Opens, Falls, Begins,
       Registers, Ends, Pops, Loses, Tests, Sets, Unregisters, Raises, Shuts, Strolls, Takes
  <1>2. ASSUME NEW d \in Conns, Walks(d)
        PROVE  announced'[c].connect = announced[c].connect
               \/ (Walks(c) /\ thread[c].at = "notify")
    BY <1>2 DEF Walks
  <1>3. ASSUME NEW t \in Threads, Settles(t)
        PROVE  announced'[c].connect = announced[c].connect
    BY <1>3 DEF Settles
  <1> QED
    BY <1>1, <1>2, <1>3

\* No step announces a connection that has ended.
LEMMA EndsLostStep ==
    ASSUME TypeOK, PlacesInv, RegistryInv, LossInv, Kind, NEW c \in Conns
    PROVE  EndsLost(c)'
  <1> SUFFICES ASSUME thread'[c].at \in {"end", "ended"}, announced'[c].connect > 0
               PROVE  lost'[c]
    BY DEF EndsLost
  <1>1. ~Walks(c) \/ thread[c].at # "notify"
    BY DEF Walks, To, At
  <1>2. announced'[c].connect = announced[c].connect
    BY <1>1, ConnectStep
  <1>3. thread[c].at # "setup"
    BY <1>2 DEF RegistryInv
  <1>4. (Settles(c) \/ Raises(c)) /\ thread[c].conn = c => lost[c]
    <2>1. (Settles(c) \/ Raises(c)) /\ thread[c].conn = c => Handling(c, c)
      BY DEF Settles, Raises, Handling
    <2> QED
      BY <2>1, Constants DEF LossInv, FlagTells
  <1>5. lost[c]
    BY <1>2, <1>3, <1>4, EndingStep DEF LossInv, EndsLost
  <1> QED
    BY <1>5, Grows DEF Growing

\* The flag of a connection tells of its loss.
LEMMA LossStep ==
    ASSUME TypeOK, PlacesInv, AdmitInv, RegistryInv, LossInv, Kind
    PROVE  LossInv'
  <1> SUFFICES ASSUME NEW c \in Conns
               PROVE  FlagTells(c)' /\ LostOnce(c)'
    BY EndsLostStep DEF LossInv
  <1>1. FlagTells(c) /\ LostOnce(c) /\ announced[c].disconnect \in Nat
    BY DEF LossInv, TypeOK
  <1>2. ASSUME NEW t \in Threads, Sets(t), thread[t].conn = c
        PROVE  FlagTells(c)' /\ LostOnce(c)'
    <2>1. /\ lost'[c] /\ announced' = announced
          /\ c \notin raced' => c \notin raced /\ ~lost[c]
      BY <1>2 DEF Sets
    <2>2. \A u \in Threads : Handling(u, c)' <=> Handling(u, c) \/ u = t
      BY <1>2, SetsHandling
    <2>3. ~lost[c] => announced[c].disconnect = 0
                      /\ \A u \in Threads : ~Handling(u, c)
      BY <1>1 DEF FlagTells
    <2>4. FlagTells(c)'
      BY <2>1, <2>2 DEF FlagTells
    <2>5. LostOnce(c)'
      BY <2>1, <2>2, <2>3 DEF LostOnce
    <2> QED
      BY <2>4, <2>5
  <1>3. ASSUME NEW t \in Threads, Settles(t) \/ Raises(t), thread[t].conn = c
        PROVE  FlagTells(c)' /\ LostOnce(c)'
    <2>1. /\ lost' = lost /\ raced' = raced
          /\ \/ announced'[c].disconnect = announced[c].disconnect + 1
             \/ announced' = announced /\ c \in interrupted'
      BY <1>3 DEF Settles, Raises
    <2>2. /\ \A u \in Threads : Handling(u, c)' <=> Handling(u, c) /\ u # t
          /\ Handling(t, c)
      BY <1>3, SettlesHandling
    <2>3. FlagTells(c)'
      <3>1. lost'[c] /\ (announced'[c].disconnect > 0 \/ c \in interrupted')
        BY <1>1, <2>1, <2>2 DEF FlagTells
      <3> QED
        BY <3>1 DEF FlagTells
    <2>4. LostOnce(c)'
      <3> SUFFICES ASSUME c \notin raced
                   PROVE  /\ announced'[c].disconnect <= 1
                          /\ \A u \in Threads : ~Handling(u, c)'
        BY <2>1 DEF LostOnce
      <3>1. announced[c].disconnect = 0 /\ \A u \in Threads : Handling(u, c) => u = t
        BY <1>1, <2>2 DEF LostOnce
      <3> QED
        BY <2>1, <2>2, <3>1
    <2> QED
      BY <2>3, <2>4
  <1>4. ASSUME /\ lost'[c] = lost[c] /\ announced'[c].disconnect = announced[c].disconnect
               /\ c \in raced' <=> c \in raced
               /\ c \in interrupted' <=> c \in interrupted
               /\ \A u \in Threads : Handling(u, c)' <=> Handling(u, c)
        PROVE  FlagTells(c)' /\ LostOnce(c)'
    <2>1. FlagTells(c)'
      BY <1>1, <1>4 DEF FlagTells
    <2>2. LostOnce(c)'
      BY <1>1, <1>4 DEF LostOnce
    <2> QED
      BY <2>1, <2>2
  <1>5. ASSUME NEW t \in Threads, Sets(t), thread[t].conn # c
        PROVE  FlagTells(c)' /\ LostOnce(c)'
    <2>1. \A u \in Threads : Handling(u, c)' <=> Handling(u, c)
      BY <1>5, SetsHandling
    <2> QED
      BY <1>4, <1>5, <2>1 DEF Sets, kept
  <1>6. ASSUME NEW t \in Threads, Settles(t) \/ Raises(t), thread[t].conn # c
        PROVE  FlagTells(c)' /\ LostOnce(c)'
    <2>1. Handling(t, thread[t].conn) /\ ~Handling(t, c)
      BY <1>6, SettlesHandling DEF Handling
    <2>2. \A u \in Threads : Handling(u, c)' <=> Handling(u, c)
      BY <1>6, <2>1, SettlesHandling
    <2>3. /\ lost' = lost /\ raced' = raced
          /\ c \in interrupted' <=> c \in interrupted
          /\ announced'[c].disconnect = announced[c].disconnect
      BY <1>6 DEF Settles, Raises, kept
    <2> QED
      BY <1>4, <2>2, <2>3
  <1>7. ASSUME ~\E t \in Threads : Sets(t) \/ Settles(t) \/ Raises(t)
        PROVE  FlagTells(c)' /\ LostOnce(c)'
    <2>1. \A u \in Threads : Handling(u, c)' <=> Handling(u, c)
      <3>1. ASSUME NEW t \in Threads, Unregisters(t)
            PROVE  \A u \in Threads : Handling(u, c)' <=> Handling(u, c)
        <4>1. /\ thread'[t].at = "settle" /\ thread[t].at = "unregister"
              /\ thread'[t].conn = thread[t].conn
              /\ \A u \in Threads : u # t => thread'[u] = thread[u]
          BY <3>1 DEF Unregisters, To, At
        <4> QED
          BY <4>1 DEF Handling
      <3>2. ASSUME ~\E t \in Threads : Unregisters(t)
            PROVE  \A u \in Threads : Handling(u, c)' <=> Handling(u, c)
        <4>1. ~\E t \in Threads : Sets(t) \/ Unregisters(t) \/ Settles(t) \/ Raises(t)
          BY <1>7, <3>2
        <4> QED
          BY <4>1, OthersHandling DEF Handling
      <3> QED
        BY <3>1, <3>2
    <2>2. \/ UNCHANGED <<kept, lost, raced, announced>>
          \/ \E d \in Conns : Walks(d)
      BY <1>7 DEF Kind, Quiet, ConnectionKind, LossKind, core, Opens, Falls, Begins,
         Registers, Ends, Pops, Loses, Tests, Unregisters, Shuts, Strolls, Takes
    <2>3. /\ lost' = lost /\ raced' = raced /\ interrupted' = interrupted
          /\ announced'[c].disconnect = announced[c].disconnect
      BY <2>2 DEF Walks, kept
    <2> QED
      BY <1>4, <2>1, <2>3
  <1> QED
    BY <1>2, <1>3, <1>5, <1>6, <1>7

----------------------------------------------------------------------------
(* The registry.                                                           *)

\* How a connection is flagged, and how that goes on.
LEMMA FlagStep ==
    ASSUME PlacesInv, Kind, NEW c \in Conns
    PROVE  /\ lost'[c] => lost[c] \/ \E t \in Threads : Unregistering(t, c)'
           /\ \A t \in Threads : Unregistering(t, c) => \/ Unregistering(t, c)'
                                                        \/ Unregisters(t) /\ thread[t].conn = c
  <1>1. lost'[c] => lost[c] \/ \E t \in Threads : Unregistering(t, c)'
    <2>1. lost' = lost \/ \E t \in Threads : Sets(t)
      BY DEF Kind, Quiet, ConnectionKind, LossKind, core, Opens, Falls, Begins, Walks,
         Registers, Ends, Pops, Loses, Tests, Unregisters, Settles, Raises, Shuts, Strolls,
         Takes
    <2>2. ASSUME NEW t \in Threads, Sets(t)
          PROVE  lost'[c] => lost[c] \/ Unregistering(t, c)'
      BY <2>2, SetsHandling DEF Sets
    <2> QED
      BY <2>1, <2>2
  <1>2. ASSUME NEW u \in Threads, Unregistering(u, c), ~Unregistering(u, c)'
        PROVE  Unregisters(u) /\ thread[u].conn = c
    <2>1. ASSUME NEW t \in Threads, Sets(t) PROVE FALSE
      BY <1>2, <2>1, SetsHandling
    <2>2. ASSUME NEW t \in Threads, Unregisters(t)
          PROVE  u = t /\ thread[t].conn = c
      BY <1>2, <2>2, UnregistersHandling DEF Unregistering
    <2>3. ASSUME NEW t \in Threads, Settles(t) \/ Raises(t) PROVE FALSE
      <3>1. thread[t].at = "settle" /\ (u # t => thread'[u] = thread[u])
        BY <2>3 DEF Settles, Raises, To
      <3> QED
        BY <1>2, <3>1 DEF Unregistering
    <2>4. CASE ~\E t \in Threads : Sets(t) \/ Unregisters(t) \/ Settles(t) \/ Raises(t)
      BY <1>2, <2>4, OthersHandling DEF Unregistering
    <2> QED
      BY <2>1, <2>2, <2>3, <2>4
  <1> QED
    BY <1>1, <1>2

\* Whoever is in the registry is there under its own address.
LEMMA AddressStep ==
    ASSUME TypeOK, PlacesInv, RegistryInv, Kind
    PROVE  \A a \in Addresses : clients'[a] # None => address'[clients'[a]] = a
  <1> SUFFICES ASSUME NEW a \in Addresses, clients'[a] # None
               PROVE  address[clients'[a]] = a
    BY AddressKept
  <1>1. clients[a] # None => address[clients[a]] = a
    BY DEF RegistryInv
  <1>2. ASSUME NEW d \in Conns, Registers(d)
        PROVE  clients'[a] = clients[a] \/ (clients'[a] = d /\ address[d] = a)
    BY <1>2 DEF Registers
  <1>3. ASSUME NEW d \in Conns, Pops(d)
        PROVE  clients'[a] = clients[a]
    BY <1>3 DEF Pops
  <1>4. ASSUME NEW t \in Threads, Unregisters(t)
        PROVE  clients'[a] = clients[a]
    BY <1>4 DEF Unregisters
  <1>5. ~Takes
    BY DEF Takes
  <1>6. \/ clients' = clients \/ Takes
        \/ \E d \in Conns : Registers(d) \/ Pops(d)
        \/ \E t \in Threads : Unregisters(t)
    BY DEF Kind, Quiet, ConnectionKind, LossKind, core, Opens, Falls, Begins, Walks,
       Ends, Loses, Tests, Sets, Settles, Raises, Shuts, Strolls
  <1> QED
    BY <1>1, <1>2, <1>3, <1>4, <1>5, <1>6

\* Which connections the threads come to work on.
LEMMA ConnStep ==
    ASSUME TypeOK, PlacesInv, Kind, NEW t \in Threads, NEW c \in Conns,
           thread'[t].conn = c
    PROVE  \/ thread[t].conn = c
           \/ t = c /\ Walks(c)
           \/ t = Admin /\ c \in Registered
           \/ t = App /\ c \in thread[App].todo
  <1>1. CASE thread'[t] = thread[t]
    BY <1>1
  <1>2. CASE t \in Conns /\ (Begins(t) \/ Registers(t) \/ Ends(t))
    BY <1>2, Constants DEF Begins, Registers, Ends, To, At
  <1>3. CASE t \in Conns /\ Walks(t)
    BY <1>3, Constants DEF Walks, To, At
  <1>4. CASE Tests(t) \/ Sets(t) \/ Unregisters(t) \/ Settles(t) \/ Raises(t)
    BY <1>4, Constants DEF Tests, Sets, Unregisters, Settles, Raises, To, At
  <1>5. CASE t = Admin /\ Shuts
    BY <1>5 DEF Shuts, To, At
  <1>6. ASSUME NEW d \in Conns, t = Admin, Pops(d)
        PROVE  c \in Registered
    BY <1>6 DEF Pops, To, At, Registered
  <1>7. CASE t = App /\ Strolls
    <2>1. PICK place \in AppPlaces, S \in SUBSET (Registered \cup thread[App].todo) :
             To(App, place, None, None, S)
      BY <1>7 DEF Strolls
    <2>2. thread'[App].conn = None
      BY <2>1 DEF To, At
    <2> QED
      BY <1>7, <2>2, Constants
  <1>8. CASE t = App /\ Takes
    BY <1>8, Constants DEF Takes, To, At
  <1>9. ASSUME NEW d \in Conns, t = App, Loses(d)
        PROVE  c \in thread[App].todo
    BY <1>9 DEF Loses, To, At
  <1> QED
    BY <1>1, <1>2, <1>3, <1>4, <1>5, <1>6, <1>7, <1>8, <1>9, AnyMoves

\* The snapshots are taken of the registry.
LEMMA TodoStep ==
    ASSUME Kind, NEW c \in Conns, c \in thread'[App].todo
    PROVE  c \in thread[App].todo \/ c \in Registered
  <1>1. CASE thread'[App] = thread[App]
    BY <1>1
  <1>2. CASE Strolls
    <2>1. PICK place \in AppPlaces, S \in SUBSET (Registered \cup thread[App].todo) :
             To(App, place, None, None, S)
      BY <1>2 DEF Strolls
    <2>2. thread'[App].todo = S
      BY <2>1 DEF To, At
    <2> QED
      BY <2>2
  <1>3. CASE Takes
    BY <1>3 DEF Takes, To, At
  <1>4. ASSUME NEW d \in Conns, Loses(d)
        PROVE  c \in thread[App].todo
    BY <1>4 DEF Loses, To, At
  <1>5. CASE Tests(App) \/ Sets(App) \/ Unregisters(App) \/ Settles(App) \/ Raises(App)
    BY <1>5 DEF Tests, Sets, Unregisters, Settles, Raises, To, At
  <1> QED
    BY <1>1, <1>2, <1>3, <1>4, <1>5, WhoMoves

\* Until it registers nobody has had to do with a connection.
Fresh(c) == thread[c].at \in {"off", "setup"}
Untouched(c) == /\ c \notin Registered /\ ~lost[c] /\ c \notin displaced
                /\ \A t \in Threads : thread[t].conn # c
                /\ c \notin thread[App].todo
                /\ announced[c].connect = 0

LEMMA FreshStep ==
    ASSUME TypeOK, PlacesInv, AdmitInv, RegistryInv, Kind, NEW c \in Conns, Fresh(c)'
    PROVE  Fresh(c) /\ Untouched(c)'
  <1>1. Fresh(c) /\ (thread'[c] = thread[c] \/ Begins(c) \/ Walks(c))
    <2>1. ~Registers(c) /\ ~Ends(c) /\ ~Sets(c)
      BY DEF Registers, Ends, Sets, Fresh, To, At
    <2>2. ~Tests(c) /\ ~Unregisters(c) /\ ~Settles(c) /\ ~Raises(c)
      <3>1. thread[c].at \in LossPlaces => thread[c].back \in {"end", "loop"}
        BY DEF PlacesInv, LossPlaces, ReaderPlaces
      <3> QED
        BY <3>1 DEF Tests, Unregisters, Settles, Raises, To, At, Fresh, LossPlaces
    <2>3. Begins(c) => Fresh(c)
      BY DEF Begins, Fresh
    <2>4. Walks(c) => Fresh(c)
      BY DEF Walks, Fresh, To, At
    <2> QED
      BY <2>1, <2>2, <2>3, <2>4, WhoMoves DEF Fresh
  <1>2. Untouched(c)
    BY <1>1 DEF RegistryInv, Fresh, Untouched
  <1>3. c \notin Registered'
    <2>1. ~Registers(c)
      BY DEF Registers, Fresh, To, At
    <2> QED
      BY <1>2, <2>1, RegisteredStep DEF Untouched
  <1>4. ~lost'[c]
    <2>1. ASSUME NEW t \in Threads, Sets(t) PROVE lost'[c] = lost[c]
      BY <1>2, <2>1 DEF Sets, Untouched
    <2>2. lost' = lost \/ \E t \in Threads : Sets(t)
      BY DEF Kind, Quiet, ConnectionKind, LossKind, core, Opens, Falls, Begins, Walks,
         Registers, Ends, Pops, Loses, Tests, Unregisters, Settles, Raises, Shuts, Strolls, Takes
    <2> QED
      BY <1>2, <2>1, <2>2 DEF Untouched
  <1>5. c \notin displaced'
    <2>1. ASSUME NEW d \in Conns, Registers(d), c \in displaced' \ displaced PROVE FALSE
      <3>1. clients[address[d]] = c
        BY <2>1 DEF Registers
      <3>2. address[c] = address[d]
        <4>1. address[d] \in Addresses /\ clients[address[d]] # None
          BY <3>1, Constants DEF TypeOK
        <4> QED
          BY <3>1, <4>1 DEF RegistryInv
      <3> QED
        BY <1>2, <3>1, <3>2 DEF Untouched, Registered
    <2>2. displaced' = displaced \/ \E d \in Conns : Registers(d)
      BY DEF Kind, Quiet, ConnectionKind, LossKind, core, Opens, Falls, Begins, Walks,
         Ends, Pops, Loses, Tests, Sets, Unregisters, Settles, Raises, Shuts, Strolls, Takes
    <2> QED
      BY <1>2, <2>1, <2>2 DEF Untouched
  <1>6. ASSUME NEW t \in Threads, thread'[t].conn = c PROVE FALSE
    <2>1. t = c /\ Walks(c)
      BY <1>2, <1>6, ConnStep DEF Untouched
    <2>2. c # None
      BY Constants
    <2> QED
      BY <1>6, <2>1, <2>2 DEF Walks, To, At, Fresh
  <1>7. c \notin thread'[App].todo
    BY <1>2, TodoStep DEF Untouched
  <1>8. announced'[c].connect = 0
    <2>1. ~Walks(c) \/ thread[c].at # "notify"
      BY <1>1 DEF Fresh
    <2> QED
      BY <1>2, <2>1, ConnectStep DEF Untouched
  <1> QED
    BY <1>1, <1>3, <1>4, <1>5, <1>6, <1>7, <1>8 DEF Untouched

\* Who is served is found in the registry.
LEMMA ServingStep ==
    ASSUME TypeOK, PlacesInv, AdmitInv, RegistryInv, Kind, NEW c \in Conns, Serving(c)'
    PROVE  c \in Registered' \/ Missed(c)'
  <1>0. ~Unregisters(c) /\ ~Raises(c)
    <2>1. Unregisters(c) => thread'[c].at = "settle"
      BY DEF Unregisters, To, At
    <2>2. Raises(c) => \/ thread'[c].at = "lost" /\ thread'[c].back = "end"
                       \/ thread'[c].at \in {"idle", "end"}
      BY DEF Raises, To, At
    <2> QED
      BY <2>1, <2>2 DEF Serving, LossPlaces
  <1>1. Serving(c) \/ Registers(c) \/ (Settles(c) /\ thread[c].conn = c)
    <2>1. ~Begins(c) /\ ~Ends(c)
      BY DEF Begins, Ends, To, At, Serving, LossPlaces
    <2>2. Walks(c) => Serving(c)
      BY DEF Walks, To, At, Serving, LossPlaces
    <2>3. Sets(c) => Serving(c)
      BY DEF Sets, To, At, Serving, LossPlaces
    <2>4. thread[c].at \in LossPlaces => thread[c].back \in {"end", "loop"}
      BY DEF PlacesInv, LossPlaces, ReaderPlaces
    <2>5. Tests(c) => Serving(c)
      BY <2>4 DEF Tests, To, At, Serving, LossPlaces
    <2>6. thread'[c] = thread[c] => Serving(c)
      BY DEF Serving
    <2>7. Settles(c) => thread[c].conn = c /\ Settles(c)
      BY DEF Settles, PlacesInv, LossPlaces, ReaderPlaces
    <2> QED
      BY <1>0, <2>1, <2>2, <2>3, <2>5, <2>6, <2>7, WhoMoves
  <1>2. CASE Registers(c)
    BY <1>2 DEF Registers, Registered, kept
  <1>3. CASE Serving(c)
    <2>1. thread[c].at # "off"
      BY <1>3 DEF Serving, LossPlaces
    <2>2. Missed(c) => Missed(c)'
      BY <2>1, LinkStep, Grows, DisconnectStep DEF Missed, Growing
    <2>3. c \in Registered \/ Missed(c)
      BY <1>3 DEF RegistryInv
    <2> QED
      BY <1>0, <2>2, <2>3, RegisteredStep
  <1>4. CASE Settles(c) /\ thread[c].conn = c
    BY <1>4 DEF Settles, Closes, Missed
  <1> QED
    BY <1>1, <1>2, <1>3, <1>4

\* And who is lost is not, when it has been unregistered.
LEMMA LostStep ==
    ASSUME TypeOK, PlacesInv, AdmitInv, RegistryInv, LossInv, Kind,
           NEW c \in Conns, c \in Registered'
    PROVE  /\ thread'[c].at \in {"end", "ended"} => lost'[c]
           /\ lost'[c] => \E t \in Threads : Unregistering(t, c)'
  <1>1. CASE Registers(c)
    <2>1. thread'[c].at = "notify" /\ lost' = lost /\ ~lost[c]
      BY <1>1 DEF Registers, To, At, RegistryInv
    <2> QED
      BY <2>1
  <1>2. CASE c \in Registered
    <2>1. thread'[c].at \in {"end", "ended"} => lost'[c]
      <3>1. (Settles(c) \/ Raises(c)) /\ thread[c].conn = c => lost[c]
        <4>1. (Settles(c) \/ Raises(c)) /\ thread[c].conn = c => Handling(c, c)
          BY DEF Settles, Raises, Handling
        <4> QED
          BY <4>1, Constants DEF LossInv, FlagTells
      <3>2. /\ thread[c].at \in {"end", "ended"} => lost[c]
            /\ thread[c].at # "setup"
        BY <1>2 DEF RegistryInv
      <3> QED
        BY <3>1, <3>2, EndingStep, Grows DEF Growing
    <2>2. lost[c] => \E t \in Threads : Unregistering(t, c)
      BY <1>2 DEF RegistryInv
    <2>3. ASSUME NEW t \in Threads, Unregisters(t), thread[t].conn = c PROVE FALSE
      BY <1>2, <2>3, Constants DEF Unregisters, Registered, kept
    <2> QED
      BY <2>1, <2>2, <2>3, FlagStep
  <1> QED
    BY <1>1, <1>2, RegisteredStep

\* The registry is exact.
LEMMA RegistryStep ==
    ASSUME TypeOK, PlacesInv, AdmitInv, RegistryInv, LossInv, Kind
    PROVE  RegistryInv'
  <1>1. \A a \in Addresses : clients'[a] # None => address'[clients'[a]] = a
    BY AddressStep
  <1>2. \A c \in Conns : Fresh(c)' => Untouched(c)'
    BY FreshStep
  <1>3. \A c \in Conns : Serving(c)' => c \in Registered' \/ Missed(c)'
    BY ServingStep
  <1>4. \A c \in Registered' :
           /\ thread'[c].at \in {"end", "ended"} => lost'[c]
           /\ lost'[c] => \E t \in Threads : Unregistering(t, c)'
    BY LostStep DEF Registered
  <1> QED
    BY <1>1, <1>2, <1>3, <1>4 DEF RegistryInv, Fresh, Untouched

----------------------------------------------------------------------------
(* From the acceptor to the thread of a connection.                        *)

\* A thread begins once and ends once.
LEMMA OffEnded ==
    ASSUME PlacesInv, Kind, NEW c \in Conns
    PROVE  /\ thread'[c].at = "off" <=> thread[c].at = "off" /\ ~Begins(c)
           /\ thread'[c].at = "ended" <=> thread[c].at = "ended" \/ Ends(c)
           /\ Begins(c) => thread[c].at = "off" /\ thread'[c].at = "setup"
           /\ Ends(c) => thread[c].at = "end"
  <1>1. CASE Begins(c)
    BY <1>1 DEF Begins, Ends, To, At
  <1>2. CASE Ends(c)
    BY <1>2 DEF Begins, Ends, To, At
  <1>3. CASE thread'[c] = thread[c] /\ ~Begins(c) /\ ~Ends(c)
    BY <1>3
  <1>4. CASE Walks(c)
    <2>1. /\ thread[c].at \in {"setup", "notify", "loop"}
          /\ thread'[c].at \in {"end", "loop", "lost"}
      BY <1>4 DEF Walks, To, At
    <2> QED
      BY <2>1 DEF Begins, Ends
  <1>5. CASE Registers(c)
    BY <1>5 DEF Registers, Begins, Ends, To, At
  <1>6. CASE Tests(c) \/ Sets(c) \/ Unregisters(c) \/ Settles(c) \/ Raises(c)
    <2>1. thread[c].at \in LossPlaces
      BY <1>6 DEF Tests, Sets, Unregisters, Settles, Raises, LossPlaces
    <2>2. thread[c].back \in {"end", "loop"}
      BY <2>1 DEF PlacesInv, LossPlaces, ReaderPlaces
    <2>3. thread'[c].at \in {"end", "loop", "setLost", "unregister", "settle", "lost"}
      BY <1>6, <2>2 DEF Tests, Sets, Unregisters, Settles, Raises, To, At
    <2> QED
      BY <2>1, <2>3 DEF Begins, Ends, LossPlaces
  <1> QED
    BY <1>1, <1>2, <1>3, <1>4, <1>5, <1>6, WhoMoves

\* The connections that hold a slot.
Active == {c \in Conns : thread[c].at \notin {"off", "ended"}}

\* No set of connections is infinite.
LEMMA FiniteConns ==
    ASSUME NEW S \in SUBSET Conns
    PROVE  IsFiniteSet(S) /\ Cardinality(S) \in Nat
  <1>1. IsFiniteSet(Conns)
    BY Constants, FS_Interval DEF Conns
  <1> QED
    BY <1>1, FS_Subset, FS_CardinalityType

\* Every slot that is out belongs to a connection.
LEMMA SlotsStep ==
    ASSUME TypeOK, PlacesInv, AdmitInv, Kind
    PROVE  slots' + Cardinality(Active') = MaxConnections
  <1>1. /\ slots + Cardinality(Active) = MaxConnections
        /\ slots \in Nat /\ IsFiniteSet(Active) /\ Cardinality(Active) \in Nat
    BY FiniteConns DEF AdmitInv, Active, TypeOK
  <1>2. ASSUME NEW c \in Conns, Begins(c)
        PROVE  slots' + Cardinality(Active') = MaxConnections
    <2>1. slots' = slots - 1
      BY <1>2 DEF Begins
    <2>2. c \notin Active /\ c \in Active'
      BY <1>2, OffEnded DEF Active
    <2>3. \A d \in Conns : d # c => thread'[d] = thread[d]
      BY <1>2, Constants DEF Begins, To
    <2>4. Active' = Active \cup {c}
      BY <2>2, <2>3 DEF Active
    <2>5. Cardinality(Active \cup {c}) = Cardinality(Active) + 1
      BY <1>1, <2>2, FS_AddElement
    <2> QED
      BY <1>1, <2>1, <2>4, <2>5
  <1>3. ASSUME NEW c \in Conns, Ends(c)
        PROVE  slots' + Cardinality(Active') = MaxConnections
    <2>1. slots' = slots + 1
      BY <1>3 DEF Ends
    <2>2. c \in Active /\ c \notin Active'
      BY <1>3, OffEnded DEF Active
    <2>3. \A d \in Conns : d # c => thread'[d] = thread[d]
      BY <1>3, Constants DEF Ends, To
    <2>4. Active' = Active \ {c}
      BY <2>2, <2>3 DEF Active
    <2>5. Cardinality(Active \ {c}) = Cardinality(Active) - 1
      BY <1>1, <2>2, FS_RemoveElement
    <2> QED
      BY <1>1, <2>1, <2>4, <2>5
  <1>4. CASE ~\E c \in Conns : Begins(c) \/ Ends(c)
    <2>1. slots' = slots
      BY <1>4 DEF Kind, Quiet, ConnectionKind, LossKind, core, Opens, Falls, Walks, Registers,
         Pops, Loses, Tests, Sets, Unregisters, Settles, Raises, Shuts, Strolls, Takes
    <2>2. Active' = Active
      BY <1>4, OffEnded DEF Active
    <2> QED
      BY <1>1, <2>1, <2>2
  <1> QED
    BY <1>2, <1>3, <1>4

\* What is not opened is not touched.
LEMMA OpenedStep ==
    ASSUME TypeOK, PlacesInv, AdmitInv, RegistryInv, Kind
    PROVE  /\ opened \in Nat /\ opened' \in {opened, opened + 1}
           /\ \A c \in Conns : c > opened' => link'[c] = "none" /\ thread'[c].at = "off"
  <1>1. opened \in Nat
    BY DEF TypeOK
  <1>2. \/ opened' = opened /\ ~\E c \in Conns : Opens(c)
        \/ \E c \in Conns : Opens(c)
    BY DEF Kind, Quiet, ConnectionKind, LossKind, core, Falls, Begins, Walks, Registers, Ends,
       Pops, Loses, Tests, Sets, Unregisters, Settles, Raises, Shuts, Strolls, Takes
  <1>3. opened' \in {opened, opened + 1} /\ \A c \in Conns : Opens(c) => opened' = opened + 1
    BY <1>2 DEF Opens
  <1>4. ASSUME NEW c \in Conns, c > opened'
        PROVE  link'[c] = "none" /\ thread'[c].at = "off"
    <2>1. c \in Nat /\ c > opened /\ ~Opens(c)
      BY <1>1, <1>3, <1>4 DEF Conns, Opens
    <2>2. /\ link[c] = "none" /\ thread[c].at = "off"
          /\ \A t \in Threads : thread[t].conn # c
          /\ c \notin thread[App].todo
      BY <2>1 DEF AdmitInv, RegistryInv
    <2>3. thread'[c].at = "off"
      <3>1. ~Begins(c)
        BY <1>1, <2>1 DEF Begins
      <3> QED
        BY <2>2, <3>1, OffEnded
    <2>4. link'[c] = link[c]
      <3>1. ~Falls(c) /\ ~Ends(c)
        BY <1>1, <2>1, <2>2 DEF Falls, Ends
      <3>2. ~Loses(c)
        BY <2>2 DEF Loses
      <3>3. \A d \in Conns : /\ Opens(d) \/ Falls(d) \/ Ends(d) \/ Loses(d) => link'[c] = link[c]
                             /\ Begins(d) \/ Walks(d) \/ Registers(d) \/ Pops(d)
                                   => link'[c] = link[c]
        BY <2>1, <3>1, <3>2 DEF Opens, Falls, Ends, Loses, Closes, Begins, Walks, Registers,
           Pops
      <3>4. \A t \in Threads :
               Tests(t) \/ Sets(t) \/ Unregisters(t) \/ Settles(t) \/ Raises(t)
                  => link'[c] = link[c]
        BY <2>2 DEF Tests, Sets, Unregisters, Settles, Raises, Closes, core
      <3>5. Quiet \/ Shuts \/ Strolls \/ Takes => link'[c] = link[c]
        BY <2>2, Constants DEF Quiet, Shuts, Strolls, Takes, Closes, core
      <3> QED
        BY <3>3, <3>4, <3>5 DEF Kind, ConnectionKind, LossKind
    <2> QED
      BY <2>2, <2>3, <2>4
  <1> QED
    BY <1>1, <1>3, <1>4

\* Which steps change the acceptors, the listener, the jobs and so on.
LEMMA Frames ==
    ASSUME [Next]_vars
    PROVE  /\ Start \/ Acceptors \/ UNCHANGED <<acceptor, starts, admittedBy, opened>>
           /\ Start \/ Stop \/ listener' = listener
           /\ TakeClients \/ cleared' = cleared
           /\ (\E c \in Conns : Register(c)) \/ late' = late
           /\ \/ job' = job
              \/ \E t \in Threads : Settle(t)
              \/ \E m \in Conns : Read(m) \/ Work(m)
           /\ Draining \/ promised' = promised
  <1> USE DEF lifecycle, network, peers, events, stopVars
  <1> DEFINE same == /\ UNCHANGED <<acceptor, starts, admittedBy, opened>>
                     /\ UNCHANGED <<listener, cleared, late, job, promised>>
  <1>1. UNCHANGED vars => same
    BY DEF vars
  <1>2. Start => UNCHANGED <<cleared, late, job, promised>>
    BY DEF Start
  <1>3. Acceptors => UNCHANGED <<listener, cleared, late, job, promised>>
    BY DEF Acceptors, AcceptorBegin, AcceptorEnd, Accept, Admit, Acquire
  <1>4. ASSUME NEW c \in Conns, Entry(c)
        PROVE  /\ UNCHANGED <<acceptor, starts, admittedBy, opened>>
               /\ UNCHANGED <<listener, cleared, promised>>
               /\ Register(c) \/ late' = late
               /\ Read(c) \/ job' = job
    BY <1>4 DEF Entry, SetupFails, Register, Notify, Read, ReadEnds, KeepaliveTimeout,
       EntryEnds
  <1>5. ASSUME NEW t \in Threads, Loss(t)
        PROVE  /\ UNCHANGED <<acceptor, starts, admittedBy, opened>>
               /\ UNCHANGED <<listener, cleared, late, promised>>
               /\ Settle(t) \/ job' = job
    BY <1>5 DEF Loss, LossTest, LossSet, Unregister, Settle, SettleRaises
  <1>6. AdminPop \/ AdminShutdown => same
    BY DEF AdminPop, AdminShutdown
  <1>7. Draining => /\ UNCHANGED <<acceptor, starts, admittedBy, opened>>
                    /\ UNCHANGED <<listener, cleared, late, job>>
    BY DEF Draining, Drain, DrainNothing, FirstWait, SecondWait, EndFirstFlush, EndDrain,
       Flush
  <1>8. Stopping => /\ UNCHANGED <<acceptor, starts, admittedBy, opened>>
                    /\ UNCHANGED <<late, job, promised>>
                    /\ Stop \/ listener' = listener
                    /\ TakeClients \/ cleared' = cleared
    BY DEF Stopping, Stop, TakeClients, EndStop, LoseClient
  <1>9. ASSUME NEW m \in Conns, Work(m)
        PROVE  /\ UNCHANGED <<acceptor, starts, admittedBy, opened>>
               /\ UNCHANGED <<listener, cleared, late, promised>>
    BY <1>9 DEF Work, Reply, TaskEnds, Write, WriteFails
  <1>10. ASSUME NEW c \in Conns, PeerCloses(c) PROVE same
    BY <1>10 DEF PeerCloses
  <1> QED
    BY <1>1, <1>2, <1>3, <1>4, <1>5, <1>6, <1>7, <1>8, <1>9, <1>10 DEF Next

\* An acceptor that waits to admit a connection has it for itself.
Admitting == \A l \in Listeners :
    /\ acceptor[l].at # "off" => l <= starts
    /\ WithPeer(l) => /\ acceptor[l].conn \in 1..opened
                      /\ thread[acceptor[l].conn].at = "off"
AloneAdmitting == \A l, k \in Listeners :
    WithPeer(l) /\ WithPeer(k) /\ acceptor[l].conn = acceptor[k].conn => l = k
AdmittedFrom == \A c \in 1..opened : admittedBy[c] \in 1..starts

\* Every connection comes from an acceptor that was started.
LEMMA AdmittingStep ==
    ASSUME TypeOK, PlacesInv, AdmitInv, Kind, [Next]_vars
    PROVE  Admitting' /\ AloneAdmitting' /\ AdmittedFrom'
  <1> USE DEF lifecycle, network, peers, WithPeer
  <1>1. Admitting /\ AloneAdmitting /\ AdmittedFrom
    BY DEF AdmitInv, Admitting, AloneAdmitting, AdmittedFrom
  <1>2. /\ starts \in Nat /\ opened \in Nat /\ 1..opened \subseteq Conns
        /\ \A l \in Listeners : l \in Nat \ {0}
    BY Constants DEF TypeOK, Conns, Listeners
  <1>3. CASE UNCHANGED <<acceptor, starts, admittedBy, opened>>
    <2>1. \A c \in Conns : thread[c].at = "off" => thread'[c].at = "off"
      BY <1>3, OffEnded DEF Begins
    <2> QED
      BY <1>1, <1>2, <1>3, <2>1 DEF Admitting, AloneAdmitting, AdmittedFrom
  <1>4. CASE Start
    <2>1. /\ starts' = starts + 1 /\ UNCHANGED <<opened, thread, admittedBy>>
          /\ \/ acceptor' = [acceptor EXCEPT ![starts'].at = "begin"]
             \/ acceptor' = acceptor
      BY <1>4 DEF Start
    <2>2. \A l \in Listeners : \/ acceptor'[l] = acceptor[l]
                               \/ l = starts' /\ acceptor'[l].at = "begin"
      BY <2>1 DEF TypeOK
    <2>3. Admitting'
      BY <1>1, <1>2, <2>1, <2>2 DEF Admitting
    <2>4. AloneAdmitting'
      BY <1>1, <2>2 DEF AloneAdmitting
    <2>5. AdmittedFrom'
      BY <1>1, <1>2, <2>1 DEF AdmittedFrom
    <2> QED
      BY <2>3, <2>4, <2>5
  <1>5. ASSUME NEW l \in Listeners, AcceptorBegin(l) \/ AcceptorEnd(l)
        PROVE  Admitting' /\ AloneAdmitting' /\ AdmittedFrom'
    <2>1. /\ UNCHANGED <<starts, opened, thread, admittedBy>>
          /\ acceptor[l].at # "off"
          /\ acceptor'[l].at \in {"accept", "ended"}
          /\ \A k \in Listeners : k # l => acceptor'[k] = acceptor[k]
      BY <1>5 DEF AcceptorBegin, AcceptorEnd, Acceptor, TypeOK
    <2>2. Admitting'
      BY <1>1, <2>1 DEF Admitting
    <2>3. AloneAdmitting'
      BY <1>1, <2>1 DEF AloneAdmitting
    <2>4. AdmittedFrom'
      BY <1>1, <2>1 DEF AdmittedFrom
    <2> QED
      BY <2>2, <2>3, <2>4
  <1>6. ASSUME NEW l \in Listeners, Accept(l)
        PROVE  Admitting' /\ AloneAdmitting' /\ AdmittedFrom'
    <2>1. /\ UNCHANGED <<starts, thread>> /\ opened' = opened + 1 /\ opened + 1 \in Conns
          /\ acceptor[l].at = "accept"
          /\ acceptor'[l].at = "admit" /\ acceptor'[l].conn = opened + 1
          /\ \A k \in Listeners : k # l => acceptor'[k] = acceptor[k]
          /\ admittedBy'[opened + 1] = l
          /\ \A c \in Conns : c # opened + 1 => admittedBy'[c] = admittedBy[c]
      BY <1>6 DEF Accept, Acceptor, TypeOK
    <2>2. l \in 1..starts
      BY <1>1, <1>2, <2>1 DEF Admitting
    <2>3. thread[opened + 1].at = "off"
      BY <1>2, <2>1 DEF AdmitInv
    <2>4. Admitting'
      BY <1>1, <1>2, <2>1, <2>2, <2>3 DEF Admitting
    <2>5. AloneAdmitting'
      <3>1. \A k \in Listeners : WithPeer(k) => acceptor[k].conn # opened + 1
        BY <1>1, <1>2 DEF Admitting
      <3> QED
        BY <1>1, <2>1, <3>1 DEF AloneAdmitting
    <2>6. AdmittedFrom'
      BY <1>1, <1>2, <2>1, <2>2 DEF AdmittedFrom
    <2> QED
      BY <2>4, <2>5, <2>6
  <1>7. ASSUME NEW l \in Listeners, Admit(l) \/ Acquire(l)
        PROVE  Admitting' /\ AloneAdmitting' /\ AdmittedFrom'
    <2>1. /\ UNCHANGED <<starts, opened, admittedBy>>
          /\ \A k \in Listeners : k # l => acceptor'[k] = acceptor[k]
          /\ \/ /\ acceptor[l].at \in {"admit", "acquire"} /\ acceptor'[l].at = "accept"
                /\ \A c \in Conns : c # acceptor[l].conn => thread'[c] = thread[c]
             \/ /\ acceptor[l].at = "admit" /\ acceptor'[l].at = "acquire"
                /\ acceptor'[l].conn = acceptor[l].conn /\ thread' = thread
      <3>1. CASE Admit(l)
        BY <1>7, <3>1 DEF Admit, NextPeer, Acceptor, TypeOK, events
      <3>2. CASE Acquire(l)
        BY <1>7, <3>2, Constants DEF Acquire, NextPeer, Acceptor, TypeOK
      <3> QED
        BY <1>7, <3>1, <3>2
    <2>2. Admitting'
      BY <1>1, <1>2, <2>1 DEF Admitting, AloneAdmitting
    <2>3. AloneAdmitting'
      BY <1>1, <2>1 DEF AloneAdmitting
    <2>4. AdmittedFrom'
      BY <1>1, <2>1 DEF AdmittedFrom
    <2> QED
      BY <2>2, <2>3, <2>4
  <1> QED
    BY <1>3, <1>4, <1>5, <1>6, <1>7, Frames DEF Acceptors

\* How connections come to their threads.
LEMMA AdmitStep ==
    ASSUME TypeOK, PlacesInv, AdmitInv, RegistryInv, Kind, [Next]_vars
    PROVE  AdmitInv'
  <1>1. \A c \in Conns : c > opened' => link'[c] = "none" /\ thread'[c].at = "off"
    BY OpenedStep
  <1>2. Admitting' /\ AloneAdmitting' /\ AdmittedFrom'
    BY AdmittingStep
  <1>3. slots' + Cardinality(Active') = MaxConnections
    BY SlotsStep
  <1> QED
    BY <1>1, <1>2, <1>3 DEF AdmitInv, Admitting, AloneAdmitting, AdmittedFrom, Active

----------------------------------------------------------------------------
(* stop() and drain().                                                     *)

\* The application leaves the join of stop() when it has taken the registry.
LEMMA JoinStep ==
    ASSUME PlacesInv, Kind, thread[App].at = "join", ~TakeClients
    PROVE  thread'[App].at = "join"
  <1>1. ~Strolls
    BY DEF Strolls, Draining, Drain, DrainNothing, FirstWait, SecondWait, EndFirstFlush,
       EndDrain, Flush, Stop, EndStop
  <1>2. ~Takes /\ \A c \in Conns : ~Loses(c)
    BY DEF Takes, Loses
  <1>3. ~Tests(App) /\ ~Sets(App) /\ ~Unregisters(App) /\ ~Settles(App) /\ ~Raises(App)
    BY DEF Tests, Sets, Unregisters, Settles, Raises
  <1> QED
    BY <1>1, <1>2, <1>3, WhoMoves

\* Who comes into the registry after that is late.
LEMMA StopStep ==
    ASSUME TypeOK, PlacesInv, AdmitInv, RegistryInv, StopInv, Kind, [Next]_vars
    PROVE  StopInv'
  <1> SUFFICES ASSUME listener' = None, thread'[App].at # "join"
               PROVE  /\ Registered' \subseteq late'
                      /\ \A c \in 1..opened' : admittedBy'[c] \in cleared'
    BY DEF StopInv
  <1>1. CASE TakeClients
    <2>1. /\ clients' = [a \in Addresses |-> None] /\ cleared' = 1..starts
          /\ UNCHANGED <<opened, admittedBy>>
      BY <1>1 DEF TakeClients, network, peers
    <2>2. Registered' = {}
      BY <2>1, AddressKept, Constants DEF Registered, TypeOK
    <2> QED
      BY <2>1, <2>2 DEF AdmitInv
  <1>2. CASE Stop
    <2>1. Goto(App, "join")
      BY <1>2 DEF Stop
    <2>2. To(App, "join", thread[App].conn, thread[App].back, thread[App].todo)
      BY <2>1, Moves, Constants
    <2>3. thread'[App].at = "join"
      BY <2>2 DEF To, At
    <2> QED
      BY <2>3
  <1>3. CASE ~TakeClients /\ ~Stop
    <2>1. listener = None
      BY <1>3, Frames DEF Start
    <2>2. thread[App].at # "join"
      BY <1>3, JoinStep
    <2>3. Registered \subseteq late /\ \A c \in 1..opened : admittedBy[c] \in cleared
      BY <2>1, <2>2 DEF StopInv
    <2>4. cleared' = cleared /\ late \subseteq late'
      BY <1>3, Frames DEF Register
    <2>5. opened' = opened /\ admittedBy' = admittedBy
      <3>1. ASSUME NEW l \in Listeners,
                   AcceptorBegin(l) \/ AcceptorEnd(l) \/ Admit(l) \/ Acquire(l)
            PROVE  opened' = opened /\ admittedBy' = admittedBy
        BY <3>1 DEF AcceptorBegin, AcceptorEnd, Admit, Acquire, network, peers
      <3>2. \A l \in Listeners : ~Accept(l)
        BY <2>1 DEF Accept
      <3>3. Start => opened' = opened /\ admittedBy' = admittedBy
        BY DEF Start, network, peers
      <3> QED
        BY <3>1, <3>2, <3>3, Frames DEF Acceptors
    <2>6. ASSUME NEW c \in Conns, Registers(c) PROVE c \in late'
      <3>1. c \in 1..opened
        BY <2>6, Constants DEF Registers, AdmitInv, TypeOK, Conns
      <3>2. Register(c)
        BY <2>6 DEF Registers
      <3> QED
        BY <2>3, <3>1, <3>2 DEF Register
    <2>7. Registered' \subseteq late'
      <3>1. \A c \in Registered' : c \in Conns
        BY DEF Registered
      <3> QED
        BY <2>3, <2>4, <2>6, <3>1, RegisteredStep
    <2> QED
      BY <2>3, <2>4, <2>5, <2>7
  <1> QED
    BY <1>1, <1>2, <1>3

\* A frame that is queued was queued already, or by its handler, for a client.
LEMMA QueuedStep ==
    ASSUME TypeOK, RegistryInv, [Next]_vars, NEW m \in Conns, job'[m].to # None
    PROVE  \/ job'[m].to = job[m].to
           \/ job[m].task = "counted" /\ job'[m].to \in Registered
  <1>1. ASSUME NEW d, job' = Dropped(d) PROVE job'[m].to = job[m].to
    <2>1. job'[m] = [job[m] EXCEPT !.to = IF @ = d THEN None ELSE @]
      BY <1>1 DEF Dropped
    <2>2. job'[m].to = IF job[m].to = d THEN None ELSE job[m].to
      BY <2>1 DEF TypeOK
    <2> QED
      BY <2>2
  <1>2. ASSUME NEW k \in Conns, Read(k) \/ TaskEnds(k)
        PROVE  job'[m].to = job[m].to
    BY <1>2 DEF Read, TaskEnds, TypeOK
  <1>3. ASSUME NEW k \in Conns, NEW d, job' = [job EXCEPT ![k].to = d]
        PROVE  job'[m].to = IF k = m THEN d ELSE job[m].to
    BY <1>3 DEF TypeOK
  <1>4. ASSUME NEW k \in Conns, Write(k) PROVE job'[m].to = job[m].to
    BY <1>3, <1>4 DEF Write
  <1>5. ASSUME NEW k \in Conns, Reply(k)
        PROVE  \/ job'[m].to = job[m].to
               \/ job[m].task = "counted" /\ job'[m].to \in Registered
    <2> DEFINE d == clients[address[k]]
    <2>1. job[k].task = "counted" /\ d # None /\ job' = [job EXCEPT ![k].to = d]
      BY <1>5 DEF Reply
    <2>2. d \in Registered
      <3>1. address[k] \in Addresses
        BY DEF TypeOK
      <3>2. d \in Conns /\ address[d] = address[k]
        BY <2>1, <3>1, Constants DEF TypeOK, RegistryInv
      <3> QED
        BY <3>2 DEF Registered
    <2> HIDE DEF d
    <2> QED
      BY <1>3, <2>1, <2>2
  <1> QED
    BY <1>1, <1>2, <1>4, <1>5, Frames DEF Settle, WriteFails, Work

\* A message that no handler will come to any more.
Over(m) == job[m].task \in {"ended", "stranded"}

\* A handler that has ended does not begin again, and one that never runs does not.
LEMMA OverStep ==
    ASSUME TypeOK, [Next]_vars, NEW m \in Conns, Over(m)
    PROVE  Over(m)'
  <1>1. ASSUME NEW d, job' = Dropped(d) PROVE job'[m].task = job[m].task
    <2>1. job'[m] = [job[m] EXCEPT !.to = IF @ = d THEN None ELSE @]
      BY <1>1 DEF Dropped
    <2> QED
      BY <2>1 DEF TypeOK
  <1>2. ASSUME NEW k \in Conns, Read(k) \/ TaskEnds(k)
        PROVE  job'[m].task = job[m].task
    <2>1. CASE k = m
      <3>1. job[k].task \in {"none", "counted"} \/ job' = job
        BY <1>2 DEF Read, TaskEnds
      <3> QED
        BY <2>1, <3>1 DEF Over
    <2>2. CASE k # m
      BY <1>2, <2>2 DEF Read, TaskEnds, TypeOK
    <2> QED
      BY <2>1, <2>2
  <1>3. ASSUME NEW k \in Conns, NEW d, job' = [job EXCEPT ![k].to = d]
        PROVE  job'[m].task = job[m].task
    BY <1>3 DEF TypeOK
  <1>4. ASSUME NEW k \in Conns, Write(k) \/ Reply(k)
        PROVE  job'[m].task = job[m].task
    BY <1>3, <1>4 DEF Write, Reply
  <1>5. job'[m].task = job[m].task
    BY <1>1, <1>2, <1>4, Frames DEF Settle, WriteFails, Work
  <1> QED
    BY <1>5 DEF Over

\* What the application does in the last part of drain(), and to come there.
LastPlaces == {"flush2", "early"}

LEMMA FlushStep ==
    ASSUME PlacesInv, Kind, thread[App].at \in LastPlaces
    PROVE  \/ thread'[App] = thread[App] /\ ~Draining
           \/ EndDrain
           \/ \E c \in Conns : Flush(c)
  <1>1. ~Drain /\ ~DrainNothing /\ ~FirstWait /\ ~SecondWait /\ ~EndFirstFlush
    BY DEF Drain, DrainNothing, FirstWait, SecondWait, EndFirstFlush, LastPlaces
  <1>2. ~Stop /\ ~EndStop
    BY DEF Stop, EndStop, LastPlaces
  <1>3. ~Takes /\ \A c \in Conns : ~Loses(c)
    BY DEF Takes, Loses, LastPlaces
  <1>4. ~Tests(App) /\ ~Sets(App) /\ ~Unregisters(App) /\ ~Settles(App) /\ ~Raises(App)
    BY DEF Tests, Sets, Unregisters, Settles, Raises, LastPlaces
  <1> QED
    BY <1>1, <1>2, <1>3, <1>4, WhoMoves DEF Strolls, Draining

\* drain() answers for what it has waited for.
Keeps == /\ promised' = promised
         /\ thread[App].at \in LastPlaces /\ thread'[App].at = thread[App].at
         /\ \/ thread'[App].todo = thread[App].todo
            \/ \E c \in Conns : /\ thread'[App].todo = thread[App].todo \ {c}
                                /\ PendingWrites(c) = {}
Promises == /\ thread'[App].at \in LastPlaces /\ thread'[App].todo = Registered
            /\ \A m \in promised' : m \in Conns /\ Over(m)
            /\ job' = job

LEMMA PromisedStep ==
    ASSUME TypeOK, PlacesInv, DrainInv, Kind, [Next]_vars
    PROVE  promised' = {} \/ Keeps \/ Promises
  <1>1. CASE thread[App].at \in LastPlaces
    <2>1. CASE thread'[App] = thread[App] /\ ~Draining
      BY <1>1, <2>1, Frames DEF Keeps
    <2>2. CASE EndDrain
      BY <2>2 DEF EndDrain, Return
    <2>3. ASSUME NEW c \in Conns, Flush(c)
          PROVE  promised' = {} \/ Keeps
      <3>1. \/ /\ KeepWith(App, thread[App].todo \ {c}) /\ promised' = promised
               /\ PendingWrites(c) = {}
            \/ promised' = {}
        BY <2>3 DEF Flush, KeepWith, Return
      <3>2. KeepWith(App, thread[App].todo \ {c})
               => To(App, thread[App].at, thread[App].conn, thread[App].back,
                     thread[App].todo \ {c})
        BY Moves, Constants
      <3> QED
        BY <1>1, <3>1, <3>2 DEF To, At, Keeps
    <2> QED
      BY <1>1, <2>1, <2>2, <2>3, FlushStep
  <1>2. CASE thread[App].at \notin LastPlaces
    <2>1. promised = {}
      BY <1>2 DEF DrainInv, LastPlaces
    <2>2. CASE SecondWait
      <3>1. \/ promised' = {}
            \/ /\ activeTasks = 0 /\ GoWith(App, "flush2", Registered)
               /\ promised' = Accepted /\ job' = job
        BY <2>2 DEF SecondWait, Return, GoWith
      <3>2. GoWith(App, "flush2", Registered)
               => To(App, "flush2", thread[App].conn, thread[App].back, Registered)
        BY Moves, Constants
      <3>3. ASSUME activeTasks = 0, NEW m \in Accepted PROVE m \in Conns /\ Over(m)
        <4>1. {k \in Conns : job[k].task = "counted"} = {}
          BY <3>3, FiniteConns, FS_EmptySet DEF activeTasks
        <4>2. m \in Conns /\ job[m].task \notin {"none", "counted"}
          BY <3>3, <4>1 DEF Accepted
        <4> QED
          BY <4>2 DEF TypeOK, Over
      <3> QED
        BY <3>1, <3>2, <3>3 DEF To, At, Promises, LastPlaces
    <2>3. CASE DrainNothing
      <3>1. /\ Goto(App, "early") /\ Registered = {} /\ job' = job
            /\ promised' = {m \in Conns : job[m].task = "ended"}
            /\ thread[App].at = "idle"
        BY <2>3 DEF DrainNothing
      <3>2. To(App, "early", thread[App].conn, thread[App].back, thread[App].todo)
        BY <3>1, Moves, Constants
      <3>3. thread[App].todo = {}
        BY <3>1 DEF PlacesInv, LossPlaces
      <3> QED
        BY <3>1, <3>2, <3>3 DEF To, At, Promises, Over, LastPlaces
    <2>4. CASE Drain \/ FirstWait \/ EndFirstFlush \/ EndDrain
      BY <2>1, <2>4 DEF Drain, FirstWait, EndFirstFlush, EndDrain, Return
    <2>5. ASSUME NEW c \in Conns, Flush(c) PROVE promised' = {}
      BY <2>1, <2>5 DEF Flush, Return
    <2>6. CASE ~Draining
      BY <2>1, <2>6, Frames
    <2> QED
      BY <2>2, <2>3, <2>4, <2>5, <2>6 DEF Draining
  <1> QED
    BY <1>1, <1>2

\* Nothing that was accepted is forgotten.
LEMMA DrainStep ==
    ASSUME TypeOK, PlacesInv, AdmitInv, RegistryInv, LossInv, DrainInv, Kind, [Next]_vars
    PROVE  DrainInv'
  <1>1. ASSUME NEW c \in 1..opened
        PROVE  /\ Gone(c) => Gone(c)'
               /\ c \in Registered => c \in Registered' \/ Gone(c)'
    <2>1. c \in Conns
      BY Constants DEF TypeOK, Conns
    <2>2. Unregisters(c) /\ thread[c].conn = c => Gone(c)
      <3>1. Unregisters(c) /\ thread[c].conn = c => Handling(c, c)
        BY DEF Unregisters, Handling
      <3>2. Handling(c, c) => lost[c]
        BY <2>1, Constants DEF LossInv, FlagTells
      <3> QED
        BY <3>1, <3>2 DEF Gone
    <2> QED
      BY <2>1, <2>2, GoneStep, RegisteredStep DEF Gone
  <1>2. \A c \in 1..opened : c \in 1..opened'
    BY OpenedStep
  <1>3. \A c \in Registered : c \in 1..opened
    <2>1. \A c \in Registered : c \in Conns /\ thread[c].at # "off"
      BY DEF Registered, RegistryInv
    <2> QED
      BY <2>1 DEF AdmitInv, TypeOK, Conns
  <1>4. ASSUME NEW m \in Conns, job'[m].to # None
        PROVE  job'[m].to \in 1..opened' /\ (job'[m].to \in Registered' \/ Gone(job[m].to)')
    <2>1. job'[m].to \in 1..opened /\ (job'[m].to \in Registered \/ Gone(job'[m].to))
      BY <1>3, <1>4, QueuedStep DEF DrainInv
    <2> QED
      BY <1>1, <1>2, <2>1
  <1>5. thread'[App].at \notin {"flush2", "early"} => promised' = {}
    BY PromisedStep DEF Keeps, Promises, LastPlaces
  <1>6. ASSUME NEW m \in promised'
        PROVE  /\ Over(m)'
               /\ job'[m].to # None => job'[m].to \in thread'[App].todo \/ Gone(job[m].to)'
    <2>1. CASE Promises
      <3>1. m \in Conns /\ Over(m)
        BY <1>6, <2>1 DEF Promises
      <3>2. job[m].to # None => /\ job[m].to \in 1..opened
                                /\ job[m].to \in Registered \/ Gone(job[m].to)
        BY <3>1 DEF DrainInv
      <3>3. job[m].to # None => job[m].to \in Registered \/ Gone(job[m].to)'
        BY <1>1, <2>1, <3>2 DEF Promises
      <3> QED
        BY <2>1, <3>1, <3>3, OverStep DEF Promises
    <2>2. CASE Keeps
      <3>1. m \in Conns /\ Over(m)
        BY <1>6, <2>2 DEF Keeps, DrainInv, TypeOK, Over
      <3>2. Over(m)'
        BY <3>1, OverStep
      <3> SUFFICES ASSUME job'[m].to # None
                   PROVE  job'[m].to \in thread'[App].todo \/ Gone(job[m].to)'
        BY <3>2
      <3>3. job'[m].to = job[m].to
        BY <3>1, QueuedStep DEF Over
      <3>4. job[m].to \in 1..opened /\ (job[m].to \in thread[App].todo \/ Gone(job[m].to))
        BY <1>6, <2>2, <3>1, <3>3 DEF DrainInv, Keeps
      <3>5. ASSUME NEW c \in Conns, PendingWrites(c) = {} PROVE job[m].to # c
        BY <3>1, <3>5 DEF PendingWrites
      <3> QED
        BY <1>1, <2>2, <3>3, <3>4, <3>5 DEF Keeps
    <2> QED
      BY <1>6, <2>1, <2>2, PromisedStep
  <1> QED
    BY <1>4, <1>5, <1>6 DEF DrainInv, Over

----------------------------------------------------------------------------
(* Types are kept.                                                         *)

ThreadsOK == thread \in [Threads -> ThreadRecords]

\* Wherever a thread goes, it is a place.
LEMMA MovesType ==
    ASSUME TypeOK, NEW t \in Threads
    PROVE  /\ \A place \in Places : Goto(t, place) => ThreadsOK'
           /\ \A c \in Conns, back \in {"end", "loop", "idle"} : Call(t, c, back) => ThreadsOK'
           /\ PlacesInv /\ thread[t].at \in LossPlaces /\ GoBack(t) => ThreadsOK'
           /\ \A r \in ThreadRecords : PutTo(t, r) => ThreadsOK'
           /\ \A place \in Places, S \in SUBSET Conns : GoWith(t, place, S) => ThreadsOK'
           /\ \A S \in SUBSET Conns : KeepWith(t, S) => ThreadsOK'
  <1>1. ThreadsOK /\ thread[t] \in ThreadRecords
    BY DEF TypeOK, ThreadsOK, ThreadRecords
  <1>2. \A r \in ThreadRecords : thread' = [thread EXCEPT ![t] = r] => ThreadsOK'
    BY <1>1 DEF ThreadsOK
  <1>3. \A place \in Places : [thread[t] EXCEPT !.at = place] \in ThreadRecords
    BY <1>1 DEF ThreadRecords
  <1>4. \A S \in SUBSET Conns : [thread[t] EXCEPT !.todo = S] \in ThreadRecords
    BY <1>1 DEF ThreadRecords
  <1>5. \A place \in Places, S \in SUBSET Conns :
           [[thread[t] EXCEPT !.at = place] EXCEPT !.todo = S] \in ThreadRecords
    BY <1>1 DEF ThreadRecords
  <1>6. \A c \in Conns, back \in {"end", "loop", "idle"} :
           At("lost", c, back, thread[t].todo) \in ThreadRecords
    BY <1>1 DEF ThreadRecords, At, Places
  <1>7. PlacesInv /\ thread[t].at \in LossPlaces
           => At(thread[t].back, None, None, thread[t].todo) \in ThreadRecords
    BY <1>1, BackPlaces DEF ThreadRecords, At, Places
  <1>8. ASSUME NEW place \in Places, Goto(t, place) PROVE ThreadsOK'
    BY <1>2, <1>3, <1>8 DEF Goto
  <1>9. ASSUME NEW c \in Conns, NEW back \in {"end", "loop", "idle"}, Call(t, c, back)
        PROVE  ThreadsOK'
    BY <1>2, <1>6, <1>9 DEF Call
  <1>10. ASSUME PlacesInv, thread[t].at \in LossPlaces, GoBack(t) PROVE ThreadsOK'
    BY <1>2, <1>7, <1>10 DEF GoBack
  <1>11. ASSUME NEW place \in Places, NEW S \in SUBSET Conns, GoWith(t, place, S)
         PROVE  ThreadsOK'
    <2>1. thread' \in [Threads -> ThreadRecords]
      BY <1>1, <1>5, <1>11 DEF GoWith, ThreadsOK
    <2> QED
      BY <2>1 DEF ThreadsOK
  <1>12. ASSUME NEW S \in SUBSET Conns, KeepWith(t, S) PROVE ThreadsOK'
    BY <1>2, <1>4, <1>12 DEF KeepWith
  <1>13. \A r \in ThreadRecords : PutTo(t, r) => ThreadsOK'
    BY <1>2 DEF PutTo
  <1> QED
    BY <1>8, <1>9, <1>10, <1>11, <1>12, <1>13

AcceptorRecords == [at : {"off", "begin", "accept", "admit", "acquire", "ended"},
                    socket : Listeners \cup {None}, conn : Conns \cup {None}]
JobRecords == [task : {"none", "counted", "stranded", "ended"}, to : Conns \cup {None}]
EventRecords == [connect : Nat, disconnect : Nat]

\* A job, an acceptor or a count of events keeps its shape in the actions.
LEMMA RecordsType ==
    ASSUME TypeOK
    PROVE  /\ acceptor \in [Listeners -> AcceptorRecords] /\ job \in [Conns -> JobRecords]
           /\ announced \in [Conns -> EventRecords]
           /\ \A l \in Listeners :
                 /\ [acceptor EXCEPT ![l].at = "begin"] \in [Listeners -> AcceptorRecords]
                 /\ [acceptor EXCEPT ![l].at = "acquire"] \in [Listeners -> AcceptorRecords]
                 /\ [acceptor EXCEPT ![l].at = "ended"] \in [Listeners -> AcceptorRecords]
           /\ \A m \in Conns, task \in {"counted", "stranded", "ended"} :
                 [job EXCEPT ![m].task = task] \in [Conns -> JobRecords]
           /\ \A m \in Conns, d \in Conns \cup {None} :
                 [job EXCEPT ![m].to = d] \in [Conns -> JobRecords]
           /\ \A d : Dropped(d) \in [Conns -> JobRecords]
           /\ \A c \in Conns :
                 /\ [announced EXCEPT ![c].connect = @ + 1] \in [Conns -> EventRecords]
                 /\ [announced EXCEPT ![c].disconnect = @ + 1] \in [Conns -> EventRecords]
  <1>1. /\ acceptor \in [Listeners -> AcceptorRecords] /\ job \in [Conns -> JobRecords]
        /\ announced \in [Conns -> EventRecords]
    BY DEF TypeOK, AcceptorRecords, JobRecords, EventRecords
  <1>2. ASSUME NEW l \in Listeners, NEW x \in {"begin", "acquire", "ended"}
        PROVE  [acceptor EXCEPT ![l].at = x] \in [Listeners -> AcceptorRecords]
    <2>1. [acceptor[l] EXCEPT !.at = x] \in AcceptorRecords
      BY <1>1, <1>2 DEF AcceptorRecords
    <2> QED
      BY <1>1, <2>1
  <1>3. ASSUME NEW m \in Conns, NEW x \in {"counted", "stranded", "ended"}
        PROVE  [job EXCEPT ![m].task = x] \in [Conns -> JobRecords]
    <2>1. [job[m] EXCEPT !.task = x] \in JobRecords
      BY <1>1, <1>3 DEF JobRecords
    <2> QED
      BY <1>1, <2>1
  <1>4. ASSUME NEW m \in Conns, NEW d \in Conns \cup {None}
        PROVE  [job EXCEPT ![m].to = d] \in [Conns -> JobRecords]
    <2>1. [job[m] EXCEPT !.to = d] \in JobRecords
      BY <1>1 DEF JobRecords
    <2> QED
      BY <1>1, <2>1
  <1>5. ASSUME NEW d PROVE Dropped(d) \in [Conns -> JobRecords]
    <2>1. ASSUME NEW m \in Conns
          PROVE  [job[m] EXCEPT !.to = IF @ = d THEN None ELSE @] \in JobRecords
      BY <1>1 DEF JobRecords
    <2> QED
      BY <2>1 DEF Dropped
  <1>6. ASSUME NEW c \in Conns
        PROVE  /\ [announced EXCEPT ![c].connect = @ + 1] \in [Conns -> EventRecords]
               /\ [announced EXCEPT ![c].disconnect = @ + 1] \in [Conns -> EventRecords]
    <2>1. announced[c].connect \in Nat /\ announced[c].disconnect \in Nat
      BY <1>1 DEF EventRecords
    <2>2. /\ [announced[c] EXCEPT !.connect = @ + 1] \in EventRecords
          /\ [announced[c] EXCEPT !.disconnect = @ + 1] \in EventRecords
      BY <1>1, <2>1 DEF EventRecords
    <2> QED
      BY <1>1, <2>2
  <1> QED
    BY <1>1, <1>2, <1>3, <1>4, <1>5, <1>6

\* The acceptors.
LEMMA AcceptorTypes ==
    ASSUME TypeOK, AdmitInv, Start \/ Acceptors
    PROVE  TypeOK'
  <1> USE DEF lifecycle, network, peers, events, stopVars
  <1>1. CASE Start
    <2>1. starts' \in 0..MaxStarts /\ starts' \in Listeners
      BY <1>1, Constants DEF Start, TypeOK, Listeners
    <2>2. acceptor' \in [Listeners -> AcceptorRecords] /\ listener' \in Listeners \cup {None}
      <3>1. \/ listener' = starts' /\ acceptor' = [acceptor EXCEPT ![starts'].at = "begin"]
            \/ listener' = listener /\ acceptor' = acceptor
        BY <1>1 DEF Start
      <3>2. CASE listener' = listener /\ acceptor' = acceptor
        BY <3>2, RecordsType DEF TypeOK
      <3>3. CASE listener' = starts' /\ acceptor' = [acceptor EXCEPT ![starts'].at = "begin"]
        <4>1. acceptor' \in [Listeners -> AcceptorRecords]
          BY <2>1, <3>3, RecordsType
        <4> QED
          BY <2>1, <3>3, <4>1
      <3> QED
        BY <3>1, <3>2, <3>3
    <2> QED
      BY <1>1, <2>1, <2>2 DEF Start, TypeOK, AcceptorRecords
  <1>2. ASSUME NEW l \in Listeners, AcceptorBegin(l) \/ AcceptorEnd(l) PROVE TypeOK'
    <2>1. acceptor' \in [Listeners -> AcceptorRecords]
      <3>1. CASE AcceptorBegin(l)
        BY <3>1 DEF AcceptorBegin, Acceptor, TypeOK, AcceptorRecords
      <3>2. CASE AcceptorEnd(l)
        BY <3>2, RecordsType DEF AcceptorEnd
      <3> QED
        BY <1>2, <3>1, <3>2
    <2> QED
      BY <1>2, <2>1 DEF AcceptorBegin, AcceptorEnd, TypeOK, AcceptorRecords
  <1>3. ASSUME NEW l \in Listeners, Accept(l) PROVE TypeOK'
    <2>1. opened' \in 0..MaxConns /\ opened' \in Conns
      BY <1>3, Constants DEF Accept, TypeOK, Conns
    <2> QED
      BY <1>3, <2>1 DEF Accept, Acceptor, TypeOK
  <1>4. ASSUME NEW l \in Listeners, Admit(l) \/ Acquire(l) PROVE TypeOK'
    <2> DEFINE c == acceptor[l].conn
    <2>1. c \in Conns
      BY <1>4, Constants DEF Admit, Acquire, AdmitInv, WithPeer, TypeOK, Conns
    <2>2. ThreadsOK' /\ slots' \in 0..MaxConnections
          /\ link' \in [Conns -> {"none", "up", "down"}]
      <3>1. At("setup", None, None, {}) \in ThreadRecords
        BY DEF At, ThreadRecords, Places
      <3>2. \/ PutTo(c, At("setup", None, None, {})) /\ slots > 0 /\ slots' = slots - 1
               /\ link' = link
            \/ /\ thread' = thread /\ slots' = slots
               /\ link' = link \/ link' = [link EXCEPT ![c] = "down"]
        BY <1>4 DEF Admit, Acquire, PutTo
      <3>3. PutTo(c, At("setup", None, None, {})) => ThreadsOK'
        BY <2>1, <3>1, MovesType, Constants
      <3>4. thread' = thread => ThreadsOK'
        BY DEF TypeOK, ThreadsOK, ThreadRecords
      <3>5. slots' \in 0..MaxConnections
        BY <3>2, Constants DEF TypeOK
      <3>6. link' \in [Conns -> {"none", "up", "down"}]
        BY <3>2 DEF TypeOK
      <3> QED
        BY <3>2, <3>3, <3>4, <3>5, <3>6
    <2>3. acceptor' \in [Listeners -> AcceptorRecords]
      <3>1. NextPeer(l) => acceptor' \in [Listeners -> AcceptorRecords]
        BY DEF NextPeer, Acceptor, TypeOK, AcceptorRecords
      <3>2. \/ NextPeer(l)
            \/ acceptor' = [acceptor EXCEPT ![l].at = "acquire"]
        BY <1>4 DEF Admit, Acquire
      <3> QED
        BY <3>1, <3>2, RecordsType
    <2> QED
      BY <1>4, <2>2, <2>3 DEF Admit, Acquire, TypeOK, ThreadsOK, ThreadRecords,
         AcceptorRecords
  <1> QED
    BY <1>1, <1>2, <1>3, <1>4 DEF Acceptors

\* The thread of a connection.
LEMMA EntryTypes ==
    ASSUME TypeOK, AdmitInv, NEW c \in Conns, Entry(c)
    PROVE  TypeOK'
  <1> USE DEF lifecycle, network, peers, events, stopVars
  <1>1. ThreadsOK'
    <2>1. \/ thread' = thread
          \/ \E place \in Places : Goto(c, place)
          \/ \E back \in {"end", "loop"} : Call(c, c, back)
      BY DEF Entry, SetupFails, Register, Notify, Read, ReadEnds, KeepaliveTimeout,
         EntryEnds, Places
    <2>2. thread' = thread => ThreadsOK'
      BY DEF TypeOK, ThreadsOK, ThreadRecords
    <2> QED
      BY <2>1, <2>2, MovesType, Constants
  <1>2. CASE SetupFails(c) \/ ReadEnds(c) \/ KeepaliveTimeout(c)
    BY <1>1, <1>2 DEF SetupFails, ReadEnds, KeepaliveTimeout, TypeOK, ThreadsOK,
       ThreadRecords
  <1>3. CASE Register(c)
    <2>1. address[c] \in Addresses /\ clients[address[c]] \in Conns \cup {None}
      BY DEF TypeOK
    <2>2. displaced' \subseteq Conns /\ late' \subseteq Conns
      BY <1>3, <2>1 DEF Register, TypeOK
    <2>3. clients' \in [Addresses -> Conns \cup {None}]
      BY <1>3 DEF Register, TypeOK
    <2> QED
      BY <1>1, <1>3, <2>2, <2>3 DEF Register, TypeOK, ThreadsOK, ThreadRecords
  <1>4. CASE Notify(c)
    <2>1. announced' = announced \/ announced' = [announced EXCEPT ![c].connect = @ + 1]
      BY <1>4 DEF Notify
    <2>2. announced' \in [Conns -> EventRecords]
      <3>1. CASE announced' = announced
        BY <3>1, RecordsType
      <3>2. CASE announced' = [announced EXCEPT ![c].connect = @ + 1]
        BY <3>2, RecordsType
      <3> QED
        BY <2>1, <3>1, <3>2
    <2> QED
      BY <1>1, <1>4, <2>2 DEF Notify, TypeOK, ThreadsOK, ThreadRecords, EventRecords
  <1>5. CASE Read(c)
    <2>1. \/ job' = job
          \/ \E task \in {"counted", "stranded"} : job' = [job EXCEPT ![c].task = task]
      BY <1>5 DEF Read
    <2>2. job' \in [Conns -> JobRecords]
      <3>1. CASE job' = job
        BY <3>1, RecordsType
      <3>2. ASSUME NEW task \in {"counted", "stranded"}, job' = [job EXCEPT ![c].task = task]
            PROVE  job' \in [Conns -> JobRecords]
        <4>1. [job EXCEPT ![c].task = task] \in [Conns -> JobRecords]
          BY RecordsType
        <4> QED
          BY <3>2, <4>1
      <3> QED
        BY <2>1, <3>1, <3>2
    <2> QED
      BY <1>1, <1>5, <2>2 DEF Read, TypeOK, ThreadsOK, ThreadRecords, JobRecords
  <1>6. CASE EntryEnds(c)
    <2>1. c \in Active
      BY <1>6 DEF EntryEnds, Active
    <2>2. IsFiniteSet(Active) /\ Cardinality(Active) \in Nat
      BY FiniteConns DEF Active
    <2>3. Cardinality(Active) # 0
      BY <2>1, <2>2, FS_EmptySet
    <2>4. slots + Cardinality(Active) = MaxConnections
      BY DEF AdmitInv, Active
    <2>5. slots' \in 0..MaxConnections
      <3>1. slots' = slots + 1 /\ slots \in Nat
        BY <1>6 DEF EntryEnds, TypeOK
      <3> QED
        BY <2>2, <2>3, <2>4, <3>1, Constants
    <2>6. link' \in [Conns -> {"none", "up", "down"}]
      BY <1>6 DEF EntryEnds, TypeOK
    <2> QED
      BY <1>1, <1>6, <2>5, <2>6 DEF EntryEnds, TypeOK, ThreadsOK, ThreadRecords
  <1> QED
    BY <1>2, <1>3, <1>4, <1>5, <1>6 DEF Entry

\* handle_connection_lost.
LEMMA LossTypes ==
    ASSUME TypeOK, PlacesInv, NEW t \in Threads, Loss(t)
    PROVE  TypeOK'
  <1> USE DEF lifecycle, network, peers, events, stopVars
  <1> DEFINE c == thread[t].conn
  <1>1. thread[t].at \in LossPlaces /\ c \in Conns
    BY LossHasConn DEF Loss, LossTest, LossSet, Unregister, Settle, SettleRaises, LossPlaces
  <1>2. ThreadsOK'
    <2>1. CASE ~SettleRaises(t)
      <3>1. GoBack(t) \/ \E place \in Places : Goto(t, place)
        BY <2>1 DEF Loss, LossTest, LossSet, Unregister, Settle, Places
      <3> QED
        BY <1>1, <3>1, MovesType
    <2>2. CASE SettleRaises(t)
      <3>1. thread[t].back \in {"end", "loop", "idle", "losing"}
        BY <1>1, BackPlaces
      <3>2. /\ At("lost", c, "end", {}) \in ThreadRecords
            /\ At("idle", None, None, {}) \in ThreadRecords
            /\ At("end", None, None, {}) \in ThreadRecords
        BY <1>1 DEF At, ThreadRecords, Places
      <3>3. \/ PutTo(t, At("lost", c, "end", {})) \/ PutTo(t, At("idle", None, None, {}))
            \/ PutTo(t, At("end", None, None, {}))
        BY <2>2, <3>1 DEF SettleRaises, PutTo
      <3> QED
        BY <3>2, <3>3, MovesType
    <2> QED
      BY <2>1, <2>2
  <1>3. CASE LossTest(t)
    BY <1>2, <1>3 DEF LossTest, TypeOK, ThreadsOK, ThreadRecords
  <1>4. CASE LossSet(t)
    <2>1. lost' \in [Conns -> BOOLEAN] /\ raced' \subseteq Conns
      BY <1>1, <1>4 DEF LossSet, TypeOK
    <2> QED
      BY <1>2, <1>4, <2>1 DEF LossSet, TypeOK, ThreadsOK, ThreadRecords
  <1>5. CASE Unregister(t)
    <2>1. clients' \in [Addresses -> Conns \cup {None}]
      BY <1>5 DEF Unregister, TypeOK
    <2> QED
      BY <1>2, <1>5, <2>1 DEF Unregister, TypeOK, ThreadsOK, ThreadRecords
  <1>6. CASE Settle(t)
    <2>1. announced' \in [Conns -> EventRecords] /\ job' \in [Conns -> JobRecords]
      BY <1>1, <1>6, RecordsType DEF Settle
    <2>2. link' \in [Conns -> {"none", "up", "down"}]
      BY <1>6 DEF Settle, TypeOK
    <2> QED
      BY <1>2, <1>6, <2>1, <2>2
         DEF Settle, TypeOK, ThreadsOK, ThreadRecords, EventRecords, JobRecords
  <1>7. CASE SettleRaises(t)
    <2>1. thread[t].todo \subseteq Conns
      BY DEF TypeOK
    <2>2. interrupted' \subseteq Conns /\ abandoned' \subseteq Conns
      BY <1>1, <1>7, <2>1 DEF SettleRaises, TypeOK
    <2> QED
      BY <1>2, <1>7, <2>2 DEF SettleRaises, TypeOK, ThreadsOK, ThreadRecords
  <1> QED
    BY <1>3, <1>4, <1>5, <1>6, <1>7 DEF Loss

\* The administrator.
LEMMA AdminTypes ==
    ASSUME TypeOK, PlacesInv, AdminPop \/ AdminShutdown
    PROVE  TypeOK'
  <1> USE DEF lifecycle, network, peers, events, stopVars
  <1>1. CASE AdminPop
    <2>1. PICK a \in Addresses :
             /\ clients[a] \in Busy /\ clients' = [clients EXCEPT ![a] = None]
             /\ PutTo(Admin, At("shutdown", clients[a], None, {}))
      BY <1>1 DEF AdminPop, PutTo
    <2>2. clients[a] \in Conns /\ clients' \in [Addresses -> Conns \cup {None}]
      BY <2>1, Constants DEF TypeOK
    <2>3. At("shutdown", clients[a], None, {}) \in ThreadRecords
      BY <2>2 DEF At, ThreadRecords, Places
    <2>4. ThreadsOK'
      BY <2>1, <2>3, MovesType, Constants
    <2> QED
      BY <1>1, <2>2, <2>4 DEF AdminPop, TypeOK, ThreadsOK, ThreadRecords
  <1>2. CASE AdminShutdown
    <2> DEFINE c == thread[Admin].conn
    <2>1. c \in Conns /\ Call(Admin, c, "idle") /\ link' = [link EXCEPT ![c] = "down"]
      BY <1>2 DEF AdminShutdown, PlacesInv, LossPlaces
    <2>2. ThreadsOK'
      BY <2>1, MovesType, Constants
    <2>3. link' \in [Conns -> {"none", "up", "down"}]
      BY <2>1 DEF TypeOK
    <2> QED
      BY <1>2, <2>2, <2>3 DEF AdminShutdown, TypeOK, ThreadsOK, ThreadRecords
  <1> QED
    BY <1>1, <1>2

\* The application.
LEMMA AppTypes ==
    ASSUME TypeOK, Draining \/ Stopping
    PROVE  TypeOK'
  <1> USE DEF lifecycle, network, peers, events, stopVars
  <1>1. /\ Registered \subseteq Conns /\ thread[App].todo \subseteq Conns /\ App \in Threads
        /\ At("idle", None, None, {}) \in ThreadRecords
    BY Constants DEF Registered, TypeOK, ThreadRecords, At, Places
  <1>2. Accepted \subseteq Conns
    BY DEF Accepted
  <1>3. CASE Drain \/ DrainNothing \/ EndFirstFlush \/ Stop
    <2>1. \/ Goto(App, "wait1") \/ Goto(App, "early") \/ Goto(App, "wait2")
          \/ Goto(App, "join")
      BY <1>3 DEF Drain, DrainNothing, EndFirstFlush, Stop
    <2>2. ThreadsOK'
      BY <1>1, <2>1, MovesType DEF Places
    <2> QED
      BY <1>3, <2>2 DEF Drain, DrainNothing, EndFirstFlush, Stop, TypeOK, ThreadsOK,
         ThreadRecords
  <1>4. CASE FirstWait \/ SecondWait
    <2>1. \/ GoWith(App, "flush1", Registered) \/ GoWith(App, "flush2", Registered)
          \/ PutTo(App, At("idle", None, None, {}))
      BY <1>4 DEF FirstWait, SecondWait, Return, GoWith, PutTo
    <2>2. ThreadsOK'
      BY <1>1, <2>1, MovesType DEF Places
    <2>3. promised' \subseteq Conns
      BY <1>2, <1>4 DEF FirstWait, SecondWait, Return, TypeOK
    <2> QED
      BY <1>4, <2>2, <2>3 DEF FirstWait, SecondWait, TypeOK, ThreadsOK, ThreadRecords
  <1>5. ASSUME NEW c \in Conns, Flush(c) PROVE TypeOK'
    <2>1. KeepWith(App, thread[App].todo \ {c}) \/ PutTo(App, At("idle", None, None, {}))
      BY <1>5 DEF Flush, KeepWith, Return, PutTo
    <2>2. ThreadsOK'
      BY <1>1, <2>1, MovesType
    <2> QED
      BY <1>5, <2>2 DEF Flush, Return, TypeOK, ThreadsOK, ThreadRecords
  <1>6. CASE EndDrain \/ EndStop
    <2>1. PutTo(App, At("idle", None, None, {}))
      BY <1>6 DEF EndDrain, EndStop, Return, PutTo
    <2>2. ThreadsOK'
      BY <1>1, <2>1, MovesType
    <2> QED
      BY <1>6, <2>2 DEF EndDrain, EndStop, Return, TypeOK, ThreadsOK, ThreadRecords
  <1>7. CASE TakeClients
    <2>1. GoWith(App, "losing", Registered)
      BY <1>7 DEF TakeClients, GoWith
    <2>2. ThreadsOK'
      BY <1>1, <2>1, MovesType DEF Places
    <2>3. cleared' \subseteq Listeners
      BY <1>7, Constants DEF TakeClients, TypeOK, Listeners
    <2> QED
      BY <1>7, <2>2, <2>3 DEF TakeClients, TypeOK, ThreadsOK, ThreadRecords
  <1>8. ASSUME NEW c \in Conns, LoseClient(c) PROVE TypeOK'
    <2>1. PutTo(App, At("lost", c, "losing", thread[App].todo \ {c}))
      BY <1>8 DEF LoseClient, PutTo
    <2>2. At("lost", c, "losing", thread[App].todo \ {c}) \in ThreadRecords
      BY <1>1 DEF At, ThreadRecords, Places
    <2>3. ThreadsOK'
      BY <1>1, <2>1, <2>2, MovesType
    <2>4. link' \in [Conns -> {"none", "up", "down"}]
      BY <1>8 DEF LoseClient, TypeOK
    <2> QED
      BY <1>8, <2>3, <2>4 DEF LoseClient, TypeOK, ThreadsOK, ThreadRecords
  <1> QED
    BY <1>3, <1>4, <1>5, <1>6, <1>7, <1>8 DEF Draining, Stopping

\* The handlers, the writers and the peers.
LEMMA WorkTypes ==
    ASSUME TypeOK, NEW m \in Conns, Work(m) \/ PeerCloses(m)
    PROVE  TypeOK'
  <1> USE DEF lifecycle, network, peers, events, stopVars
  <1>1. CASE Reply(m)
    <2> DEFINE d == clients[address[m]]
    <2>1. d \in Conns \cup {None} /\ job' = [job EXCEPT ![m].to = d]
      BY <1>1, Constants DEF Reply, TypeOK
    <2>2. job' \in [Conns -> JobRecords]
      BY <2>1, RecordsType
    <2> QED
      BY <1>1, <2>2 DEF Reply, TypeOK, JobRecords
  <1>2. CASE TaskEnds(m)
    <2>1. job' \in [Conns -> JobRecords]
      BY <1>2, RecordsType DEF TaskEnds
    <2> QED
      BY <1>2, <2>1 DEF TaskEnds, TypeOK, JobRecords
  <1>3. CASE Write(m)
    <2>1. job' \in [Conns -> JobRecords]
      BY <1>3, RecordsType DEF Write
    <2> QED
      BY <1>3, <2>1 DEF Write, TypeOK, JobRecords
  <1>4. CASE WriteFails(m)
    <2>1. job' \in [Conns -> JobRecords]
      BY <1>4, RecordsType DEF WriteFails
    <2>2. link' \in [Conns -> {"none", "up", "down"}]
      BY <1>4 DEF WriteFails, TypeOK
    <2> QED
      BY <1>4, <2>1, <2>2 DEF WriteFails, TypeOK, JobRecords
  <1>5. CASE PeerCloses(m)
    BY <1>5 DEF PeerCloses, TypeOK
  <1> QED
    BY <1>1, <1>2, <1>3, <1>4, <1>5 DEF Work

\* Every step keeps the types.
LEMMA TypeStep ==
    ASSUME TypeOK, PlacesInv, AdmitInv, [Next]_vars
    PROVE  TypeOK'
  <1>1. CASE UNCHANGED vars
    BY <1>1 DEF TypeOK, vars, lifecycle, network, peers, events, stopVars
  <1>2. CASE Next
    BY <1>2, AcceptorTypes, EntryTypes, LossTypes, AdminTypes, AppTypes, WorkTypes DEF Next
  <1> QED
    BY <1>1, <1>2

----------------------------------------------------------------------------
(* The theorems.                                                           *)

\* The invariant holds at first.
LEMMA InitInv ==
    ASSUME Init
    PROVE  Inv
  <1>1. TypeOK
    <2>1. /\ acceptor \in [Listeners -> AcceptorRecords]
          /\ job \in [Conns -> JobRecords] /\ announced \in [Conns -> EventRecords]
      BY DEF Init, Acceptor, AcceptorRecords, JobRecords, EventRecords
    <2>2. ThreadsOK
      BY DEF Init, ThreadsOK, ThreadRecords, At, Places
    <2>3. /\ starts \in 0..MaxStarts /\ slots \in 0..MaxConnections /\ opened \in 0..MaxConns
      BY Constants DEF Init
    <2> QED
      BY <2>1, <2>2, <2>3 DEF Init, TypeOK, AcceptorRecords, JobRecords, EventRecords,
         ThreadsOK, ThreadRecords
  <1>2. /\ \A t \in Threads : /\ thread[t].at \in {"off", "idle"} /\ thread[t].conn = None
                              /\ thread[t].back = None /\ thread[t].todo = {}
        /\ \A c \in Conns : thread[c].at = "off"
        /\ thread[App].at = "idle" /\ thread[Admin].at = "idle"
    BY Constants DEF Init, At
  <1>3. PlacesInv
    BY <1>2, Constants DEF PlacesInv, ReaderPlaces, AppPlaces
  <1>4. AdmitInv
    <2>1. {c \in Conns : thread[c].at \notin {"off", "ended"}} = {}
      BY <1>2
    <2>2. slots + Cardinality({c \in Conns : thread[c].at \notin {"off", "ended"}})
             = MaxConnections
      <3>1. Cardinality({c \in Conns : thread[c].at \notin {"off", "ended"}}) = 0
        BY <2>1, FS_EmptySet
      <3> QED
        BY <3>1, Constants DEF Init
    <2>3. \A l \in Listeners : acceptor[l].at = "off"
      BY DEF Init, Acceptor
    <2>4. 1..opened = {}
      BY DEF Init
    <2>5. \A l \in Listeners : ~WithPeer(l)
      BY <2>3 DEF WithPeer
    <2>6. \A c \in Conns : link[c] = "none"
      BY DEF Init
    <2> QED
      BY <1>2, <2>2, <2>3, <2>4, <2>5, <2>6 DEF AdmitInv
  <1>5. Registered = {}
    BY Constants DEF Init, Registered
  <1>6. RegistryInv
    <2>1. \A c \in Conns : ~Serving(c)
      BY <1>2 DEF Serving, LossPlaces
    <2>2. \A c \in Conns : /\ ~lost[c] /\ announced[c].connect = 0
                           /\ \A t \in Threads : thread[t].conn # c
      BY <1>2, Constants DEF Init
    <2> QED
      BY <1>2, <1>5, <2>1, <2>2, Constants DEF Init, RegistryInv
  <1>7. LossInv
    BY <1>2 DEF Init, LossInv, FlagTells, EndsLost, LostOnce, Handling
  <1>8. StopInv
    BY <1>5 DEF Init, StopInv
  <1>9. DrainInv
    BY DEF Init, DrainInv
  <1> QED
    BY <1>1, <1>3, <1>4, <1>6, <1>7, <1>8, <1>9 DEF Inv

\* Every step keeps it.
LEMMA NextInv ==
    ASSUME Inv, [Next]_vars
    PROVE  Inv'
  <1>1. Kind
    BY Kinds DEF Inv
  <1> QED
    BY <1>1, TypeStep, PlacesStep, AdmitStep, RegistryStep, LossStep, StopStep, DrainStep
       DEF Inv

\* The invariant holds in every state of the server: where the threads are, how
\* connections are admitted, registered, lost and unregistered, and what stop()
\* and drain() have seen of them.
THEOREM Invariance == Spec => []Inv
  <1>1. Init => Inv
    BY InitInv
  <1>2. Inv /\ [Next]_vars => Inv'
    BY NextInv
  <1> QED
    BY <1>1, <1>2, PTL DEF Spec

\* Every variable keeps its shape: in particular the slots that are left stay
\* between none and max_connections.
THEOREM TypesKept == Spec => []TypeOK
  <1>1. Inv => TypeOK
    BY DEF Inv
  <1> QED
    BY <1>1, Invariance, PTL

\* Of any number of connections, whatever threads lose them and in which order:
\* each that is served is found in the registry, unless its place was taken or a
\* stop() cut short did not come to it; none whose thread has ended is left
\* there, and the slots of max_connections are exact.
THEOREM RegistryKept == Spec => []RegistryExact
  <1>1. ASSUME Inv PROVE RegistryExact
    <2>1. slots + Cardinality({c \in Conns : thread[c].at \notin {"off", "ended"}})
             = MaxConnections
      BY <1>1 DEF Inv, AdmitInv
    <2>2. ASSUME NEW c \in Conns, thread[c].at \in {"notify", "loop"},
                 link[c] = "up", c \notin displaced \cup abandoned, ~BeingDisconnected(c)
          PROVE  clients[address[c]] = c
      BY <1>1, <2>2 DEF Inv, RegistryInv, Serving, Missed, Registered
    <2>3. ASSUME NEW c \in Conns, thread[c].at = "ended", clients[address[c]] = c
          PROVE  BeingDisconnected(c)
      <3>1. c \in Registered
        BY <2>3 DEF Registered
      <3>2. PICK t \in Threads : Unregistering(t, c)
        BY <1>1, <2>3, <3>1 DEF Inv, RegistryInv
      <3>3. t # c
        BY <2>3, <3>2 DEF Unregistering
      <3> QED
        BY <3>2, <3>3 DEF Unregistering, BeingDisconnected
    <2> QED
      BY <2>1, <2>2, <2>3 DEF RegistryExact
  <1> QED
    BY <1>1, Invariance, PTL

\* Once stop() has returned, a connection that is still served came too late for
\* it, or lost its place in the registry, or is being disconnected, or the loss
\* of another one raised before stop() came to it.
THEOREM StopKept == Spec => []StopDisconnectsAll
  <1>1. ASSUME Inv, thread[App].at = "idle", listener = None,
               NEW c \in Conns, thread[c].at \in {"notify", "loop"}, link[c] = "up"
        PROVE  c \in late \cup displaced \cup abandoned \/ BeingDisconnected(c)
    <2>1. c \in Registered \/ c \in displaced \cup abandoned \/ BeingDisconnected(c)
      BY <1>1 DEF Inv, RegistryInv, Serving, Missed
    <2>2. Registered \subseteq late
      BY <1>1 DEF Inv, StopInv
    <2> QED
      BY <2>1, <2>2
  <1>2. Inv => StopDisconnectsAll
    BY <1>1 DEF StopDisconnectsAll
  <1> QED
    BY <1>2, Invariance, PTL

\* A drain() that returns True has waited for every handler that was counted by
\* then, and for every frame of a client that it could still find; the messages
\* in the backlog of a wedged key, which it does not count, never run, and where
\* it does not wait at all it answers for those only that were handled.
THEOREM DrainKept == Spec => []DrainTellsTruth
  <1>1. ASSUME Inv, AnswersTrue, NEW m \in promised
        PROVE  /\ job[m].task \in {"ended", "stranded"}
               /\ job[m].to # None => Gone(job[m].to)
    <2>1. thread[App].todo = {}
      BY <1>1 DEF Inv, PlacesInv, AnswersTrue, LossPlaces
    <2> QED
      BY <1>1, <2>1 DEF Inv, DrainInv
  <1>2. Inv => DrainTellsTruth
    BY <1>1 DEF DrainTellsTruth, Gone, Missed
  <1> QED
    BY <1>2, Invariance, PTL

\* A connection that was announced is announced lost when its thread ends, unless
\* another thread is about to or an exception cut its loss short; and once only
\* if no two threads passed the test of its flag together.
THEOREM LossKept == Spec => []LossAnnounced
  <1>1. ASSUME Inv, NEW c \in Conns
        PROVE  /\ announced[c].disconnect > 1 => c \in raced
               /\ announced[c].connect > 0 /\ thread[c].at \in {"end", "ended"}
                     => \/ announced[c].disconnect > 0 \/ c \in interrupted
                        \/ BeingDisconnected(c)
    <2>1. announced[c].disconnect \in Nat /\ FlagTells(c) /\ EndsLost(c) /\ LostOnce(c)
      BY <1>1 DEF Inv, TypeOK, LossInv
    <2>2. announced[c].disconnect > 1 => c \in raced
      BY <2>1 DEF LostOnce
    <2>3. ASSUME NEW t \in Threads, Handling(t, c), thread[c].at \in {"end", "ended"}
          PROVE  BeingDisconnected(c)
      <3>1. t # c
        BY <2>3 DEF Handling
      <3> QED
        BY <2>3, <3>1 DEF Handling, BeingDisconnected
    <2> QED
      BY <2>1, <2>2, <2>3 DEF FlagTells, EndsLost
  <1>2. Inv => LossAnnounced
    BY <1>1 DEF LossAnnounced
  <1> QED
    BY <1>2, Invariance, PTL

=============================================================================
