------------------------------- MODULE Server -------------------------------
(***************************************************************************)
(* TcpServer with a thread per connection: start, the acceptor, the entry   *)
(* of a connection from its slot to its release, the registry of clients,  *)
(* the loss of a connection, disconnect_client, drain and stop.            *)
(*                                                                         *)
(* A connection has one message at most, whose handler may reply. The      *)
(* dispatcher and the writers are seen through what their own modules      *)
(* check: active_tasks counts the accepted tasks, and the frames a writer  *)
(* accepted are written, or dropped with the connection. Sockets and peers *)
(* are external. App starts, drains and stops; Admin disconnects a client. *)
(***************************************************************************)
EXTENDS Integers, FiniteSets

CONSTANTS
    MaxConns,        \* bound: the connections that peers open
    MaxStarts,       \* bound: how often the server is started
    MaxConnections,  \* max_connections
    Addresses,       \* the addresses that peers connect from
    Busy,            \* bound: the connections that may fail before the loop, whose
                     \* peers send or fall silent, that Admin disconnects, and of
                     \* which a request is cancelled
    App, Admin, None

Conns     == 1..MaxConns
Listeners == 1..MaxStarts
Threads   == Conns \cup {App, Admin}  \* the reader of a connection bears its number

ASSUME ServerAssumption ==
    /\ {MaxConns, MaxStarts, MaxConnections} \subseteq Nat \ {0}
    /\ Busy \subseteq Conns
    /\ {App, Admin, None} \cap Conns = {} /\ App # Admin
    /\ None \notin {App, Admin, "losing"} /\ None \notin Listeners

VARIABLES
    listener,   \* _server: the listening socket, numbered by start()
    starts,     \* the calls of start() so far
    draining,   \* _draining
    slots,      \* _connection_slots: the permits left
    clients,    \* _clients
    acceptor,   \* the thread of each start(): place, server_socket, connection
    address,    \* the address of the peer of each connection
    opened,     \* the connections so far
    link,       \* the socket of each connection, down when either end closed it
    lost,       \* _connection_lost
    thread,     \* where each thread is
    job,        \* the message of each connection: its task, and the connection
                \* whose writer holds a reply
    promised,   \* auxiliary: the messages that the drain() answers for
    announced,  \* auxiliary: the CONNECT and DISCONNECT events
    raced,      \* auxiliary: losses that two threads handled
    interrupted, \* auxiliary: connections whose loss an exception cut short
    abandoned,  \* auxiliary: connections that a stop() cut short did not come to
    cleared,    \* auxiliary: the listeners whose stop() has taken the registry
    admittedBy, \* auxiliary: the listener that accepted each connection
    late,       \* auxiliary: connections registered after that
    displaced   \* auxiliary: connections whose place in the registry was taken

lifecycle == <<listener, starts, draining>>
peers     == <<address, opened, admittedBy>>
network   == <<peers, link>>
events    == <<announced, raced, interrupted, abandoned>>
stopVars  == <<cleared, late, displaced>>
vars == <<lifecycle, slots, clients, acceptor, network, lost, thread, job, promised,
          events, stopVars>>

\* A thread: its place, the connection it works on, where it goes on after
\* handle_connection_lost, and the snapshot of the registry it walks through.
At(place, c, back, todo) == [at |-> place, conn |-> c, back |-> back, todo |-> todo]

Goto(t, place) == thread' = [thread EXCEPT ![t].at = place]
Call(t, c, back) == thread' = [thread EXCEPT ![t] = At("lost", c, back, @.todo)]
GoBack(t) == thread' = [thread EXCEPT ![t] = At(@.back, None, None, @.todo)]

Acceptor(place, socket, c) == [at |-> place, socket |-> socket, conn |-> c]

Init ==
    /\ listener = None /\ starts = 0 /\ draining = FALSE
    /\ slots = MaxConnections
    /\ clients = [a \in Addresses |-> None]
    /\ acceptor = [l \in Listeners |-> Acceptor("off", None, None)]
    /\ address \in [Conns -> Addresses]
    /\ opened = 0
    /\ link = [c \in Conns |-> "none"]
    /\ lost = [c \in Conns |-> FALSE]
    /\ thread = [t \in Threads |-> At(IF t \in Conns THEN "off" ELSE "idle", None, None, {})]
    /\ job = [c \in Conns |-> [task |-> "none", to |-> None]]
    /\ promised = {}
    /\ announced = [c \in Conns |-> [connect |-> 0, disconnect |-> 0]]
    /\ raced = {} /\ interrupted = {} /\ abandoned = {}
    /\ cleared = {} /\ late = {} /\ displaced = {}
    /\ admittedBy = [c \in Conns |-> None]

----------------------------------------------------------------------------
(* start() and the acceptor.                                               *)

\* The socket may fail to bind; then only _draining has changed.
Start ==
    /\ thread[App].at = "idle"
    /\ listener = None
    /\ starts < MaxStarts
    /\ draining' = FALSE
    /\ starts' = starts + 1
    /\ \/ /\ listener' = starts'
          /\ acceptor' = [acceptor EXCEPT ![starts'].at = "begin"]
       \/ UNCHANGED <<listener, acceptor>>
    /\ UNCHANGED <<slots, clients, network, lost, thread, job, promised, events, stopVars>>

\* Its first line reads _server, which a stop() may already have taken away.
AcceptorBegin(l) ==
    /\ acceptor[l].at = "begin"
    /\ acceptor' = [acceptor EXCEPT ![l] = Acceptor("accept", listener, None)]
    /\ UNCHANGED <<lifecycle, slots, clients, network, lost, thread, job, promised,
                   events, stopVars>>

\* accept() fails on a socket that was closed; the loop ends when _server is
\* another one. (A thread that read None goes round until the next start().)
AcceptorEnd(l) ==
    /\ acceptor[l].at = "accept"
    /\ listener # acceptor[l].socket
    /\ acceptor' = [acceptor EXCEPT ![l].at = "ended"]
    /\ UNCHANGED <<lifecycle, slots, clients, network, lost, thread, job, promised,
                   events, stopVars>>

\* The next peer. An address comes again only when its last peer is gone.
Accept(l) ==
    LET c == opened + 1 IN
    /\ acceptor[l].at = "accept"
    /\ listener # None
    /\ listener = acceptor[l].socket
    /\ c \in Conns
    /\ \A d \in 1..opened : address[d] = address[c] => link[d] = "down"
    /\ opened' = c
    /\ link' = [link EXCEPT ![c] = "up"]
    /\ admittedBy' = [admittedBy EXCEPT ![c] = l]
    /\ acceptor' = [acceptor EXCEPT ![l] = Acceptor("admit", @.socket, c)]
    /\ UNCHANGED <<lifecycle, slots, clients, address, lost, thread, job, promised,
                   events, stopVars>>

NextPeer(l) == acceptor' = [acceptor EXCEPT ![l] = Acceptor("accept", @.socket, None)]

\* Refused while the server drains.
Admit(l) ==
    LET c == acceptor[l].conn IN
    /\ acceptor[l].at = "admit"
    /\ IF draining THEN NextPeer(l) /\ link' = [link EXCEPT ![c] = "down"]
                   ELSE acceptor' = [acceptor EXCEPT ![l].at = "acquire"] /\ link' = link
    /\ UNCHANGED <<lifecycle, slots, clients, peers, lost, thread, job, promised, events,
                   stopVars>>

\* The thread is started; or there is no slot, or the thread cannot be started
\* and the slot is returned.
Acquire(l) ==
    LET c == acceptor[l].conn IN
    /\ acceptor[l].at = "acquire"
    /\ \/ /\ slots > 0
          /\ slots' = slots - 1
          /\ thread' = [thread EXCEPT ![c] = At("setup", None, None, {})]
          /\ link' = link
       \/ /\ link' = [link EXCEPT ![c] = "down"]
          /\ UNCHANGED <<slots, thread>>
    /\ NextPeer(l)
    /\ UNCHANGED <<lifecycle, clients, peers, lost, job, promised, events, stopVars>>

----------------------------------------------------------------------------
(* _connection_entry and _handle_connection, on the thread of c.           *)

\* TLS or the first frame fails; the first failure comes before there is a protocol.
SetupFails(c) ==
    /\ thread[c].at = "setup"
    /\ c \in Busy
    /\ Goto(c, "end") \/ Call(c, c, "end")
    /\ UNCHANGED <<lifecycle, slots, clients, acceptor, network, lost, job, promised,
                   events, stopVars>>

Register(c) ==
    /\ thread[c].at = "setup"
    /\ clients' = [clients EXCEPT ![address[c]] = c]
    /\ late' = IF admittedBy[c] \in cleared THEN late \cup {c} ELSE late
    /\ displaced' = displaced \cup ({clients[address[c]]} \ {None})
    /\ Goto(c, "notify")
    /\ UNCHANGED <<lifecycle, slots, acceptor, network, lost, job, promised, events,
                   cleared>>

\* _notify_connected: the dispatcher takes the event or raises.
Notify(c) ==
    /\ thread[c].at = "notify"
    /\ \/ /\ announced' = [announced EXCEPT ![c].connect = @ + 1]
          /\ Goto(c, "loop")
       \/ c \in Busy /\ announced' = announced /\ Call(c, c, "end")
    /\ UNCHANGED <<lifecycle, slots, clients, acceptor, network, lost, job, promised,
                   raced, interrupted, abandoned, stopVars>>

\* A message: emit_path counts its task, or raises and the loop ends. Or the job
\* is put into the backlog of a key, of this path and address, that an earlier
\* refusal has left marked as active: no task is counted, and it never runs
\* (EnqueueSerial in Dispatcher).
Read(c) ==
    /\ thread[c].at = "loop"
    /\ link[c] = "up"
    /\ c \in Busy
    /\ job[c].task = "none"
    /\ \/ /\ \E task \in {"counted", "stranded"} : job' = [job EXCEPT ![c].task = task]
          /\ thread' = thread
       \/ job' = job /\ Call(c, c, "end")
    /\ UNCHANGED <<lifecycle, slots, clients, acceptor, network, lost, promised, events,
                   stopVars>>

\* The peer is gone, or another thread closed the socket.
ReadEnds(c) ==
    /\ thread[c].at = "loop"
    /\ link[c] # "up"
    /\ Call(c, c, "end")
    /\ UNCHANGED <<lifecycle, slots, clients, acceptor, network, lost, job, promised,
                   events, stopVars>>

\* keepalive_tick gives the peer up and the loop goes on, to fail on the socket.
KeepaliveTimeout(c) ==
    /\ thread[c].at = "loop"
    /\ link[c] = "up"
    /\ c \in Busy
    /\ Call(c, c, "loop")
    /\ UNCHANGED <<lifecycle, slots, clients, acceptor, network, lost, job, promised,
                   events, stopVars>>

EntryEnds(c) ==
    /\ thread[c].at = "end"
    /\ link' = [link EXCEPT ![c] = "down"]
    /\ slots' = slots + 1
    /\ Goto(c, "ended")
    /\ UNCHANGED <<lifecycle, clients, acceptor, peers, lost, job, promised,
                   events, stopVars>>

----------------------------------------------------------------------------
(* handle_connection_lost, on any thread t.                                *)

LossTest(t) ==
    /\ thread[t].at = "lost"
    /\ IF lost[thread[t].conn] THEN GoBack(t) ELSE Goto(t, "setLost")
    /\ UNCHANGED <<lifecycle, slots, clients, acceptor, network, lost, job, promised,
                   events, stopVars>>

\* Mutant: the flag is never set.
LossSetNothing(t) ==
    /\ thread[t].at = "setLost"
    /\ Goto(t, "unregister")
    /\ UNCHANGED <<lifecycle, slots, clients, acceptor, network, lost, job, promised,
                   events, stopVars>>

LossSet(t) ==
    LET c == thread[t].conn IN
    /\ thread[t].at = "setLost"
    /\ lost' = [lost EXCEPT ![c] = TRUE]
    /\ raced' = IF lost[c] THEN raced \cup {c} ELSE raced
    /\ Goto(t, "unregister")
    /\ UNCHANGED <<lifecycle, slots, clients, acceptor, network, job, promised,
                   announced, interrupted, abandoned, stopVars>>

\* A frame that a writer still holds is dropped with its connection.
Dropped(c) == [m \in Conns |-> [job[m] EXCEPT !.to = IF @ = c THEN None ELSE @]]

\* Mutant: whoever has the address is unregistered.
UnregisterAny(t) ==
    LET c == thread[t].conn IN
    /\ thread[t].at = "unregister"
    /\ clients' = [clients EXCEPT ![address[c]] = None]
    /\ Goto(t, "settle")
    /\ UNCHANGED <<lifecycle, slots, acceptor, network, lost, job, promised, events,
                   stopVars>>

Unregister(t) ==
    LET c == thread[t].conn IN
    /\ thread[t].at = "unregister"
    /\ clients' = [clients EXCEPT ![address[c]] = IF @ = c THEN None ELSE @]
    /\ Goto(t, "settle")
    /\ UNCHANGED <<lifecycle, slots, acceptor, network, lost, job, promised, events,
                   stopVars>>

\* Every pending request of the connection is failed; DISCONNECT, for which an
\* error of the dispatcher is swallowed; the writer is aborted and the socket
\* closed.
Settle(t) ==
    LET c == thread[t].conn IN
    /\ thread[t].at = "settle"
    /\ announced' = [announced EXCEPT ![c].disconnect = @ + 1]
    /\ job' = Dropped(c)
    /\ link' = [link EXCEPT ![c] = "down"]
    /\ GoBack(t)
    /\ UNCHANGED <<lifecycle, slots, clients, acceptor, peers, lost, promised, raced,
                   interrupted, abandoned, stopVars>>

\* A thread that cancels one of the requests between done() and set_exception()
\* makes the latter raise, out of keepalive_tick into the handler of the loop, or
\* out of the thread, of disconnect_client or of stop(), which leaves the rest of
\* its snapshot.
SettleRaises(t) ==
    /\ thread[t].at = "settle"
    /\ thread[t].conn \in Busy
    /\ interrupted' = interrupted \cup {thread[t].conn}
    /\ abandoned' = abandoned \cup thread[t].todo
    /\ thread' = [thread EXCEPT ![t] =
          CASE @.back = "loop"   -> At("lost", @.conn, "end", {})
            [] @.back = "losing" -> At("idle", None, None, {})
            [] OTHER             -> At(@.back, None, None, {})]
    /\ UNCHANGED <<lifecycle, slots, clients, acceptor, network, lost, job, promised,
                   announced, raced, stopVars>>

----------------------------------------------------------------------------
(* disconnect_client, by the administrator.                                *)

AdminPop ==
    /\ thread[Admin].at = "idle"
    /\ \E a \in Addresses :
          /\ clients[a] \in Busy
          /\ clients' = [clients EXCEPT ![a] = None]
          /\ thread' = [thread EXCEPT ![Admin] = At("shutdown", clients[a], None, {})]
    /\ UNCHANGED <<lifecycle, slots, acceptor, network, lost, job, promised, events,
                   stopVars>>

AdminShutdown ==
    LET c == thread[Admin].conn IN
    /\ thread[Admin].at = "shutdown"
    /\ link' = [link EXCEPT ![c] = "down"]
    /\ Call(Admin, c, "idle")
    /\ UNCHANGED <<lifecycle, slots, clients, acceptor, peers, lost, job,
                   promised, events, stopVars>>

----------------------------------------------------------------------------
(* A handler, and the writer of a connection.                              *)

\* send_client looks the address up again: the reply goes to the connection
\* that is registered now. A handler may reply again once it is written.
Reply(m) ==
    LET d == clients[address[m]] IN
    /\ job[m].task = "counted"
    /\ job[m].to = None
    /\ d # None
    /\ ~lost[d]
    /\ job' = [job EXCEPT ![m].to = d]
    /\ UNCHANGED <<lifecycle, slots, clients, acceptor, network, lost, thread, promised,
                   events, stopVars>>

\* With its reply queued, or with none: the handler chose so, or send failed.
TaskEnds(m) ==
    /\ job[m].task = "counted"
    /\ job' = [job EXCEPT ![m].task = "ended"]
    /\ UNCHANGED <<lifecycle, slots, clients, acceptor, network, lost, thread, promised,
                   events, stopVars>>

Write(m) ==
    /\ job[m].to # None
    /\ link[job[m].to] = "up"
    /\ job' = [job EXCEPT ![m].to = None]
    /\ UNCHANGED <<lifecycle, slots, clients, acceptor, network, lost, thread, promised,
                   events, stopVars>>

\* The writer fails on a socket whose peer is gone.
WriteFails(m) ==
    /\ job[m].to # None
    /\ link[job[m].to] # "up"
    /\ job' = Dropped(job[m].to)
    /\ link' = [link EXCEPT ![job[m].to] = "down"]
    /\ UNCHANGED <<lifecycle, slots, clients, acceptor, peers, lost, thread,
                   promised, events, stopVars>>

----------------------------------------------------------------------------
(* drain().                                                                *)

activeTasks == Cardinality({m \in Conns : job[m].task = "counted"})
Registered  == {c \in Conns : clients[address[c]] = c}
PendingWrites(c) == {m \in Conns : job[m].to = c}

Return ==
    /\ thread' = [thread EXCEPT ![App] = At("idle", None, None, {})]
    /\ promised' = {}

Accepted == {m \in Conns : job[m].task # "none"}

Drain ==
    /\ thread[App].at = "idle"
    /\ listener # None \/ Registered # {}
    /\ draining' = TRUE
    /\ Goto(App, "wait1")
    /\ UNCHANGED <<listener, starts, slots, clients, acceptor, network, lost, job, promised,
                   events, stopVars>>

\* Without a listener and without clients it returns True at once; it answers
\* for what has been handled by then, as handlers may still run.
DrainNothing ==
    /\ thread[App].at = "idle"
    /\ listener = None
    /\ Registered = {}
    /\ promised' = {m \in Conns : job[m].task = "ended"}
    /\ Goto(App, "early")
    /\ UNCHANGED <<lifecycle, slots, clients, acceptor, network, lost, job, events,
                   stopVars>>

\* wait_idle and the snapshot of the registry; or the time is up.
FirstWait ==
    /\ thread[App].at = "wait1"
    /\ \/ /\ activeTasks = 0
          /\ thread' = [thread EXCEPT ![App].at = "flush1", ![App].todo = Registered]
          /\ UNCHANGED promised
       \/ Return
    /\ UNCHANGED <<lifecycle, slots, clients, acceptor, network, lost, job, events,
                   stopVars>>

\* Mutant: the second look waits for the handlers alone.
SecondWaitOnly ==
    /\ thread[App].at = "wait2"
    /\ \/ /\ activeTasks = 0
          /\ thread' = [thread EXCEPT ![App].at = "flush2"]
          /\ promised' = Accepted
       \/ Return
    /\ UNCHANGED <<lifecycle, slots, clients, acceptor, network, lost, job, events,
                   stopVars>>

\* From here on the drain answers for every message that was accepted.
SecondWait ==
    /\ thread[App].at = "wait2"
    /\ \/ /\ activeTasks = 0
          /\ thread' = [thread EXCEPT ![App].at = "flush2", ![App].todo = Registered]
          /\ promised' = Accepted
       \/ Return
    /\ UNCHANGED <<lifecycle, slots, clients, acceptor, network, lost, job, events,
                   stopVars>>

\* One connection of the snapshot: its writer is empty; or the time is up, and
\* the answer is False whatever the rest of drain() finds, which is left out.
Flush(c) ==
    /\ thread[App].at \in {"flush1", "flush2"}
    /\ c \in thread[App].todo
    /\ \/ /\ PendingWrites(c) = {}
          /\ thread' = [thread EXCEPT ![App].todo = @ \ {c}]
          /\ promised' = promised
       \/ PendingWrites(c) # {} /\ Return
    /\ UNCHANGED <<lifecycle, slots, clients, acceptor, network, lost, job, events,
                   stopVars>>

EndFirstFlush ==
    /\ thread[App].at = "flush1"
    /\ thread[App].todo = {}
    /\ Goto(App, "wait2")
    /\ UNCHANGED <<lifecycle, slots, clients, acceptor, network, lost, job, promised,
                   events, stopVars>>

EndDrain ==
    /\ thread[App].at \in {"flush2", "early"}
    /\ thread[App].todo = {}
    /\ Return
    /\ UNCHANGED <<lifecycle, slots, clients, acceptor, network, lost, job, events,
                   stopVars>>

----------------------------------------------------------------------------
(* stop().                                                                 *)

Stop ==
    /\ thread[App].at = "idle"
    /\ listener # None \/ Registered # {}
    /\ listener' = None
    /\ Goto(App, "join")
    /\ UNCHANGED <<starts, draining, slots, clients, acceptor, network, lost, job,
                   promised, events, stopVars>>

\* Mutant: the registry is cleared, and the connections are left to their threads.
TakeNobody ==
    /\ thread[App].at = "join"
    /\ Goto(App, "losing")
    /\ clients' = [a \in Addresses |-> None]
    /\ cleared' = 1..starts
    /\ UNCHANGED <<lifecycle, slots, acceptor, network, lost, job, promised, events, late,
                   displaced>>

\* The acceptor has ended, or two seconds are over; the registry is taken.
TakeClients ==
    /\ thread[App].at = "join"
    /\ thread' = [thread EXCEPT ![App].at = "losing", ![App].todo = Registered]
    /\ clients' = [a \in Addresses |-> None]
    /\ cleared' = 1..starts
    /\ UNCHANGED <<lifecycle, slots, acceptor, network, lost, job, promised, events, late,
                   displaced>>

LoseClient(c) ==
    /\ thread[App].at = "losing"
    /\ c \in thread[App].todo
    /\ link' = [link EXCEPT ![c] = "down"]
    /\ thread' = [thread EXCEPT ![App] = At("lost", c, "losing", @.todo \ {c})]
    /\ UNCHANGED <<lifecycle, slots, clients, acceptor, peers, lost, job,
                   promised, events, stopVars>>

\* The threads are joined for two seconds each, and STOP is emitted.
EndStop ==
    /\ thread[App].at = "losing"
    /\ thread[App].todo = {}
    /\ thread' = [thread EXCEPT ![App] = At("idle", None, None, {})]
    /\ UNCHANGED <<lifecycle, slots, clients, acceptor, network, lost, job, promised,
                   events, stopVars>>

----------------------------------------------------------------------------
PeerCloses(c) ==
    /\ link[c] = "up"
    /\ link' = [link EXCEPT ![c] = "down"]
    /\ UNCHANGED <<lifecycle, slots, clients, acceptor, peers, lost, thread,
                   job, promised, events, stopVars>>

Acceptors == \E l \in Listeners :
    AcceptorBegin(l) \/ AcceptorEnd(l) \/ Accept(l) \/ Admit(l) \/ Acquire(l)

Entry(c) == \/ SetupFails(c) \/ Register(c) \/ Notify(c) \/ Read(c)
            \/ ReadEnds(c) \/ KeepaliveTimeout(c) \/ EntryEnds(c)

Loss(t) == LossTest(t) \/ LossSet(t) \/ Unregister(t) \/ Settle(t) \/ SettleRaises(t)

Work(m) == Reply(m) \/ TaskEnds(m) \/ Write(m) \/ WriteFails(m)

Draining == \/ Drain \/ DrainNothing \/ FirstWait \/ SecondWait \/ EndFirstFlush \/ EndDrain
            \/ \E c \in Conns : Flush(c)

Stopping == Stop \/ TakeClients \/ EndStop \/ \E c \in Conns : LoseClient(c)

Next ==
    \/ Start \/ Acceptors \/ AdminPop \/ AdminShutdown \/ Draining \/ Stopping
    \/ \E t \in Threads : Loss(t)
    \/ \E c \in Conns : Entry(c) \/ Work(c) \/ PeerCloses(c)

Spec == Init /\ [][Next]_vars

----------------------------------------------------------------------------
Places == {"off", "setup", "notify", "loop", "end", "ended",
           "lost", "setLost", "unregister", "settle", "idle", "shutdown", "early",
           "wait1", "flush1", "wait2", "flush2", "join", "losing"}

(* Every variable keeps its shape.                                          *)
TypeOK ==
    /\ listener \in Listeners \cup {None}
    /\ starts \in 0..MaxStarts
    /\ draining \in BOOLEAN
    /\ slots \in 0..MaxConnections
    /\ clients \in [Addresses -> Conns \cup {None}]
    /\ acceptor \in [Listeners -> [at : {"off", "begin", "accept", "admit", "acquire", "ended"},
                                   socket : Listeners \cup {None},
                                   conn : Conns \cup {None}]]
    /\ opened \in 0..MaxConns
    /\ address \in [Conns -> Addresses]
    /\ link \in [Conns -> {"none", "up", "down"}]
    /\ lost \in [Conns -> BOOLEAN]
    /\ thread \in [Threads -> [at : Places, conn : Conns \cup {None}, todo : SUBSET Conns,
                               back : {"end", "loop", "idle", "losing", None}]]
    /\ job \in [Conns -> [task : {"none", "counted", "stranded", "ended"},
                          to : Conns \cup {None}]]
    /\ {promised, raced, interrupted, abandoned, late, displaced} \subseteq SUBSET Conns
    /\ cleared \subseteq Listeners
    /\ admittedBy \in [Conns -> Listeners \cup {None}]
    /\ announced \in [Conns -> [connect : Nat, disconnect : Nat]]

\* Another thread has begun to disconnect c, or is about to.
BeingDisconnected(c) ==
    \/ \E t \in Threads \ {c} : thread[t].conn = c
    \/ "losing" \in {thread[App].at, thread[App].back} /\ c \in thread[App].todo

(* A connection that is being served is found under its address, whatever   *)
(* is done about the loss of an earlier connection of the same peer, unless *)
(* that one was so late to register that it took the place, or a stop() was *)
(* cut short before it came to it; and once its thread has ended it is not, *)
(* unless another thread is just handling its loss. Every slot that is out  *)
(* belongs to a connection that has not ended.                              *)
RegistryExact ==
    /\ slots + Cardinality({c \in Conns : thread[c].at \notin {"off", "ended"}})
          = MaxConnections
    /\ \A c \in Conns :
          /\ /\ thread[c].at \in {"notify", "loop"}
             /\ link[c] = "up"
             /\ c \notin displaced \cup abandoned /\ ~BeingDisconnected(c)
             => clients[address[c]] = c
          /\ thread[c].at = "ended" /\ clients[address[c]] = c => BeingDisconnected(c)

(* README.md:638, stop() "and disconnect all clients": once it has returned *)
(* and until the next start(), every connection that is still served was    *)
(* registered after stop() had taken the registry, or had lost its place in *)
(* it, or is being disconnected; or stop() ended with an exception before   *)
(* it came to it, as the loss of another connection raised (server.py:461). *)
StopDisconnectsAll ==
    thread[App].at = "idle" /\ listener = None =>
        \A c \in Conns :
            thread[c].at \in {"notify", "loop"} /\ link[c] = "up"
                => c \in late \cup displaced \cup abandoned \/ BeingDisconnected(c)

\* The drain() of App is about to return True: at once, or after both waits.
AnswersTrue == \/ thread[App].at = "early"
               \/ thread[App].at = "flush2" /\ thread[App].todo = {}

(* server.py:1115-1122: when drain() returns True, every message it answers *)
(* for has been handled, and its reply has left the server, unless the      *)
(* connection it went to is gone or is no longer in the registry, where     *)
(* drain() does not find it (it lost its place there, is being disconnected *)
(* or was abandoned by a stop()). It answers for the messages accepted      *)
(* before its last wait; with no listener and no client it does not wait,   *)
(* and a handler may still run. A message in the backlog of a key that was  *)
(* left marked as active is not counted, so that drain() does not wait for  *)
(* it, and it is never handled.                                             *)
DrainTellsTruth ==
    AnswersTrue =>
        \A m \in promised :
            /\ job[m].task \in {"ended", "stranded"}
            /\ LET d == job[m].to IN
               d # None =>
                  \/ lost[d] \/ link[d] # "up"
                  \/ d \in displaced \cup abandoned \/ BeingDisconnected(d)

(* "Handle client disconnection exactly once": a connection that was        *)
(* announced is announced lost when its thread ends, unless another thread  *)
(* is about to, or an exception cut its loss short (server.py:461-467); and *)
(* once, unless two threads passed the test of the flag together.           *)
LossAnnounced ==
    \A c \in Conns :
        /\ announced[c].disconnect > 1 => c \in raced
        /\ announced[c].connect > 0 /\ thread[c].at \in {"end", "ended"}
              => announced[c].disconnect > 0 \/ c \in interrupted \/ BeingDisconnected(c)

=============================================================================
