------------------------------ MODULE EventLoop ------------------------------
(***************************************************************************)
(* The shared selector loop of the server (use_event_loop=True): the       *)
(* accept thread admits connections and registers them, the loop thread    *)
(* reads and writes their sockets and ticks their keepalive, and any other *)
(* thread sends to a client or disconnects it. A step is a block under one *)
(* of the locks, or a call on the socket, the selector, the budget or the  *)
(* semaphore. The selector, the kernel's descriptors and the peers are     *)
(* external; TLS, the wake-up socket, the stop of the loop and the bytes   *)
(* that readers reserve are left out. Bytes are counted, not kept: one     *)
(* thread alone writes a socket.                                           *)
(***************************************************************************)
EXTENDS Integers, FiniteSets, FiniteSetsExt

CONSTANTS
    Conns,             \* connections, each admitted once at most
    Fds,               \* the file descriptors that the kernel hands out
    Users,             \* threads that send to clients and disconnect them
    Closers,           \* bound: the users that disconnect clients
    Loop, Accept,      \* the loop thread and the accept thread
    None,              \* no descriptor, no connection
    Sizes,             \* the lengths of the frames
    MaxTraffic,        \* bound: the bytes a connection ever takes; then it is full
    MaxQueueBytes,     \* max_queue_bytes
    MaxPendingWrites,  \* max_pending_writes
    MaxBytes,          \* max_bytes of the memory budget
    MaxConnections     \* max_connections of the server

Threads == {Loop, Accept} \cup Users

ASSUME EventLoopAssumption ==
    /\ Sizes \subseteq Nat \ {0}
    /\ {MaxTraffic, MaxQueueBytes, MaxPendingWrites, MaxBytes, MaxConnections}
           \subseteq Nat \ {0}
    /\ Loop # Accept /\ {Loop, Accept} \cap Users = {}
    /\ None \notin Conns \cup Fds

VARIABLES
    stage,      \* how far accept got: admitted, bound to its writer, published
    fd,         \* the descriptor of the socket, None once it is closed
    key,        \* the descriptor under which the selector knows the socket
    interest,   \* is that registration interested in writing?
    known,      \* _connections of the loop
    clients,    \* _clients of the server
    buffer,     \* the length of _buffer
    queuedBytes, pendingWrites, closed,
    lost,       \* _connection_lost of the protocol
    usedBytes,  \* _used_bytes of the budget
    slots,      \* _connection_slots
    thread,     \* where each thread is
    released,   \* auxiliary: how often the slot of a connection was released
    interrupted, \* auxiliary: connections whose on_close an exception cut short
    taken,      \* auxiliary: the bytes that send accepted
    written     \* auxiliary: the bytes that the socket took

queues   == <<buffer, queuedBytes, pendingWrites, closed>>
selector == <<key, interest>>
tables   == <<stage, known, clients, lost>>
slotting == <<slots, released, interrupted>>
history  == <<taken, written>>
vars == <<queues, selector, tables, slotting, history, fd, usedBytes, thread>>

\* A thread's place, its connection, a number it carries, and the place where
\* the call it is in returns to.
At(place, c, n, then) == [at |-> place, conn |-> c, n |-> n, then |-> then]
Idle == At("idle", None, 0, "idle")

Init ==
    /\ stage = [c \in Conns |-> "new"]
    /\ fd = [c \in Conns |-> None]
    /\ key = [c \in Conns |-> None]
    /\ interest = [c \in Conns |-> FALSE]
    /\ known = {}
    /\ clients = {}
    /\ buffer = [c \in Conns |-> 0]
    /\ queuedBytes = [c \in Conns |-> 0]
    /\ pendingWrites = [c \in Conns |-> 0]
    /\ closed = [c \in Conns |-> FALSE]
    /\ lost = [c \in Conns |-> FALSE]
    /\ usedBytes = 0
    /\ slots = MaxConnections
    /\ thread = [t \in Threads |-> Idle]
    /\ released = [c \in Conns |-> 0]
    /\ interrupted = {}
    /\ taken = [c \in Conns |-> 0]
    /\ written = [c \in Conns |-> 0]

Goto(t, place, c, n, then) == thread' = [thread EXCEPT ![t] = At(place, c, n, then)]
Return(t) ==
    thread' = [thread EXCEPT ![t] =
        IF @.then = "idle" THEN Idle ELSE At(@.then, @.conn, 0, "idle")]
Bound(c) == stage[c] \in {"bound", "published"}
\* add_connection holds the lock of the loop from Bind to Register.
LoopLockFree == thread[Accept].at # "register"
\* BoundedSemaphore.release raises at its bound, which every caller swallows.
ReleaseSlot(c) == /\ slots' = Min({slots + 1, MaxConnections})
                  /\ released' = [released EXCEPT ![c] = @ + 1]
                  /\ interrupted' = interrupted
\* MemoryBudget.release never goes below zero.
ReleaseBytes(n) == usedBytes' = Max({0, usedBytes - n})

----------------------------------------------------------------------------
(* The accept thread: _accept_event_loop_connection and add_connection.    *)

\* accept(), the slot, the writer and the entry in _clients. A draining server
\* and a server without a free slot close the socket and change nothing.
Admit(c) ==
    /\ thread[Accept] = Idle
    /\ stage[c] = "new"
    /\ slots > 0
    /\ slots' = slots - 1
    /\ \E f \in Fds : /\ \A d \in Conns : fd[d] # f
                      /\ fd' = [fd EXCEPT ![c] = f]
    /\ stage' = [stage EXCEPT ![c] = "admitted"]
    /\ clients' = clients \cup {c}
    /\ Goto(Accept, "bind", c, 0, "idle")
    /\ UNCHANGED <<queues, selector, known, lost, released, interrupted, history,
                   usedBytes>>

\* add_connection up to the table of the loop.
Bind ==
    LET c == thread[Accept].conn IN
    /\ thread[Accept].at = "bind"
    /\ fd[c] # None
    /\ stage' = [stage EXCEPT ![c] = "bound"]
    /\ known' = known \cup {c}
    /\ Goto(Accept, "register", c, 0, "idle")
    /\ UNCHANGED <<queues, selector, clients, lost, slotting, history, fd, usedBytes>>

\* selector.register, which refuses a closed socket and a descriptor that it
\* knows already, and the first update_interest under the same lock.
Register ==
    LET c == thread[Accept].conn IN
    /\ thread[Accept].at = "register"
    /\ IF fd[c] # None /\ \A d \in Conns : key[d] # fd[c]
          THEN /\ key' = [key EXCEPT ![c] = fd[c]]
               /\ interest' = [interest EXCEPT ![c] = buffer[c] > 0]
               /\ Goto(Accept, "publish", c, 0, "idle")
          ELSE UNCHANGED selector /\ Goto(Accept, "lose", c, 0, "refuse")
    /\ UNCHANGED <<queues, tables, slotting, history, fd, usedBytes>>

\* protocol._event_connection, registered = True and _notify_connected, which
\* raises when the dispatcher is full.
Publish ==
    LET c == thread[Accept].conn IN
    /\ thread[Accept].at = "publish"
    /\ stage' = [stage EXCEPT ![c] = "published"]
    /\ Return(Accept) \/ Goto(Accept, "lose", c, 0, "refuse")
    /\ UNCHANGED <<queues, selector, known, clients, lost, slotting, history, fd,
                   usedBytes>>

\* The first frame cannot be sent, the socket is closed or the loop has
\* stopped: to the except clause.
AcceptFails ==
    /\ thread[Accept].at = "bind"
    /\ Goto(Accept, "lose", thread[Accept].conn, 0, "refuse")
    /\ UNCHANGED <<queues, selector, tables, slotting, history, fd, usedBytes>>

\* The rest of the except clause, after handle_connection_lost.
Refuse ==
    LET c == thread[Accept].conn IN
    /\ thread[Accept].at = "refuse"
    /\ clients' = clients \ {c}
    /\ fd' = [fd EXCEPT ![c] = None]
    /\ IF stage[c] = "published" THEN UNCHANGED slotting ELSE ReleaseSlot(c)
    /\ Return(Accept)
    /\ UNCHANGED <<queues, selector, stage, known, lost, history, usedBytes>>

----------------------------------------------------------------------------
(* The end of a connection, on any thread t.                               *)

\* handle_connection_lost: the test of the flag, ...
LossTest(t) ==
    LET c == thread[t].conn IN
    /\ thread[t].at = "lose"
    /\ IF lost[c] THEN Return(t) ELSE Goto(t, "setLost", c, 0, thread[t].then)
    /\ UNCHANGED <<queues, selector, tables, slotting, history, fd, usedBytes>>

LossSet(t) ==
    LET c == thread[t].conn IN
    /\ thread[t].at = "setLost"
    /\ lost' = [lost EXCEPT ![c] = TRUE]
    /\ Goto(t, "unlist", c, 0, thread[t].then)
    /\ UNCHANGED <<queues, selector, stage, known, clients, slotting, history, fd,
                   usedBytes>>

\* An exception leaves handle_connection_lost: on_close() goes no further, and
\* close() swallows it; the loop removes the connection; any other thread is
\* through with it, the accept thread without the rest of its except clause.
Raise(t) ==
    LET c == thread[t].conn IN
    /\ IF t = Loop /\ thread[t].then # "slot"
          THEN Goto(t, "remove", c, 0, "idle")
          ELSE thread' = [thread EXCEPT ![t] = Idle]
    /\ interrupted' = IF thread[t].then = "slot" THEN interrupted \cup {c} ELSE interrupted

\* ... _clients, and the pending requests. If a thread cancels one of them between
\* done() and set_exception(), the latter raises.
Unlist(t) ==
    LET c == thread[t].conn IN
    /\ thread[t].at = "unlist"
    /\ clients' = clients \ {c}
    /\ \/ Goto(t, "abort", c, 0, thread[t].then) /\ interrupted' = interrupted
       \/ Raise(t)
    /\ UNCHANGED <<queues, selector, stage, known, lost, slots, released, history, fd,
                   usedBytes>>

\* After the DISCONNECT and writer.abort().
Shut(t) ==
    LET c == thread[t].conn IN
    /\ thread[t].at = "shut"
    /\ fd' = [fd EXCEPT ![c] = None]
    /\ Return(t)
    /\ UNCHANGED <<queues, selector, tables, slotting, history, usedBytes>>

\* remove_connection before its close(): the table of the loop, which only the
\* loop thread looks at, and the selector.
Unregister(t) ==
    LET c == thread[t].conn IN
    /\ thread[t].at = "remove"
    /\ LoopLockFree
    /\ known' = known \ {c}
    /\ key' = [key EXCEPT ![c] = None]
    /\ Goto(t, "close", c, 0, "idle")
    /\ UNCHANGED <<queues, interest, stage, clients, lost, slotting, history, fd,
                   usedBytes>>

\* Mutant: close() runs again on a closed connection.
CloseFlagAgain(t) ==
    LET c == thread[t].conn IN
    /\ thread[t].at \in {"close", "abort"}
    /\ IF ~Bound(c)
          THEN Goto(t, "shut", c, 0, thread[t].then) /\ UNCHANGED queues
          ELSE /\ closed' = [closed EXCEPT ![c] = TRUE]
               /\ buffer' = [buffer EXCEPT ![c] = 0]
               /\ queuedBytes' = [queuedBytes EXCEPT ![c] = 0]
               /\ pendingWrites' = [pendingWrites EXCEPT ![c] = 0]
               /\ Goto(t, "closeRelease", c, queuedBytes[c],
                       IF thread[t].at = "abort" THEN "shut" ELSE "idle")
    /\ UNCHANGED <<selector, tables, slotting, history, fd, usedBytes>>

\* close() under the lock of the connection, also by writer.abort() once the
\* writer is bound. Only its first call goes on.
CloseFlag(t) ==
    LET c == thread[t].conn IN
    /\ thread[t].at \in {"close", "abort"}
    /\ IF closed[c] \/ ~Bound(c)
          THEN /\ IF thread[t].at = "abort" THEN Goto(t, "shut", c, 0, thread[t].then)
                                            ELSE Return(t)
               /\ UNCHANGED queues
          ELSE /\ closed' = [closed EXCEPT ![c] = TRUE]
               /\ buffer' = [buffer EXCEPT ![c] = 0]
               /\ queuedBytes' = [queuedBytes EXCEPT ![c] = 0]
               /\ pendingWrites' = [pendingWrites EXCEPT ![c] = 0]
               /\ Goto(t, "closeRelease", c, queuedBytes[c],
                       IF thread[t].at = "abort" THEN "shut" ELSE "idle")
    /\ UNCHANGED <<selector, tables, slotting, history, fd, usedBytes>>

\* Mutant: what a closed connection had queued is not given back.
CloseKeeps(t) ==
    /\ thread[t].at = "closeRelease"
    /\ Goto(t, "closeSocket", thread[t].conn, 0, thread[t].then)
    /\ UNCHANGED <<queues, selector, tables, slotting, history, fd, usedBytes>>

\* The bytes that were queued, after the lock.
CloseRelease(t) ==
    /\ thread[t].at = "closeRelease"
    /\ ReleaseBytes(thread[t].n)
    /\ Goto(t, "closeSocket", thread[t].conn, 0, thread[t].then)
    /\ UNCHANGED <<queues, selector, tables, slotting, history, fd>>

CloseSocket(t) ==
    LET c == thread[t].conn IN
    /\ thread[t].at = "closeSocket"
    /\ fd' = [fd EXCEPT ![c] = None]
    /\ Goto(t, "onClose", c, 0, thread[t].then)
    /\ UNCHANGED <<queues, selector, tables, slotting, history, usedBytes>>

\* Where a handle_connection_lost that aborted the writer was called from.
Caller(t) == IF t = Accept THEN "refuse" ELSE "idle"

\* Mutant: a connection that handle_connection_lost has aborted keeps its slot.
OnCloseOnceLost(t) ==
    LET c == thread[t].conn IN
    /\ thread[t].at = "onClose"
    /\ clients' = clients \ {c}
    /\ IF thread[t].then = "shut" THEN Goto(t, "shut", c, 0, Caller(t))
                                  ELSE Goto(t, "lose", c, 0, "slot")
    /\ UNCHANGED <<queues, selector, stage, known, lost, slotting, history, fd, usedBytes>>

\* on_close: _clients, handle_connection_lost, which returns at once where it is
\* the one that aborted the writer, and the slot.
OnClose(t) ==
    LET c == thread[t].conn IN
    /\ thread[t].at = "onClose"
    /\ clients' = clients \ {c}
    /\ IF thread[t].then = "shut" THEN Goto(t, "slot", c, 0, "shut")
                                  ELSE Goto(t, "lose", c, 0, "slot")
    /\ UNCHANGED <<queues, selector, stage, known, lost, slotting, history, fd, usedBytes>>

ReturnSlot(t) ==
    LET c == thread[t].conn IN
    /\ thread[t].at = "slot"
    /\ ReleaseSlot(c)
    /\ IF thread[t].then = "shut" THEN Goto(t, "shut", c, 0, Caller(t)) ELSE Return(t)
    /\ UNCHANGED <<queues, selector, tables, history, fd, usedBytes>>

----------------------------------------------------------------------------
(* send() of a connection and update_interest, on any thread t.            *)

SendOk(c, k) ==
    /\ Bound(c) /\ ~closed[c]
    /\ taken[c] + k <= MaxTraffic
    /\ pendingWrites[c] < MaxPendingWrites
    /\ queuedBytes[c] + k <= MaxQueueBytes
    /\ usedBytes + k <= MaxBytes

Send(t, k) ==
    LET c == thread[t].conn IN
    /\ thread[t].at = "send"
    /\ SendOk(c, k)
    /\ usedBytes' = usedBytes + k
    /\ buffer' = [buffer EXCEPT ![c] = @ + k]
    /\ queuedBytes' = [queuedBytes EXCEPT ![c] = @ + k]
    /\ pendingWrites' = [pendingWrites EXCEPT ![c] = @ + 1]
    /\ taken' = [taken EXCEPT ![c] = @ + k]
    /\ Goto(t, "interest", c, 0, thread[t].then)
    /\ UNCHANGED <<closed, selector, tables, slotting, written, fd>>

\* NotConnected or Backpressure: a handler that fails ends its connection, and
\* so does a refusal of its credentials; a ping that fails ends the tick.
SendRefused(t, k) ==
    LET c == thread[t].conn IN
    /\ thread[t].at = "send"
    /\ ~SendOk(c, k)
    /\ \/ t = Loop /\ Goto(t, "remove", c, 0, "idle")
       \/ thread[t].then # "write" /\ thread' = [thread EXCEPT ![t] = Idle]
    /\ UNCHANGED <<queues, selector, tables, slotting, history, fd, usedBytes>>

\* What to be interested in, read under the lock of the connection ...
ReadInterest(t) ==
    LET c == thread[t].conn IN
    /\ thread[t].at = "interest"
    /\ Goto(t, "modify", c, IF buffer[c] > 0 THEN 1 ELSE 0, thread[t].then)
    /\ UNCHANGED <<queues, selector, tables, slotting, history, fd, usedBytes>>

\* ... and told to the selector later. A change to a socket that was closed
\* loses its stale key; an open socket without a key is registered.
Modify(t) ==
    LET c == thread[t].conn
        wanted == thread[t].n = 1
    IN
    /\ thread[t].at = "modify"
    /\ \/ /\ fd[c] # None /\ key[c] # None
          /\ interest' = [interest EXCEPT ![c] = wanted]
          /\ key' = key
       \/ /\ fd[c] # None /\ \A d \in Conns : key[d] # fd[c]
          /\ key' = [key EXCEPT ![c] = fd[c]]
          /\ interest' = [interest EXCEPT ![c] = wanted]
       \/ /\ fd[c] = None \/ (key[c] = None /\ \E d \in Conns : key[d] = fd[c])
          /\ key' = IF key[c] # None /\ wanted # interest[c]
                       THEN [key EXCEPT ![c] = None] ELSE key
          /\ interest' = interest
    /\ Return(t)
    /\ UNCHANGED <<queues, tables, slotting, history, fd, usedBytes>>

----------------------------------------------------------------------------
(* The loop thread.                                                        *)

Ready(c) == thread[Loop] = Idle /\ key[c] # None /\ fd[c] # None

\* read_ready: handle_data answers, or has nothing to send, or the connection
\* is at its end or the handler fails.
Read(c) ==
    /\ Ready(c)
    /\ \/ Goto(Loop, "send", c, 0, "write")
       \/ Goto(Loop, "write", c, 0, "idle")
       \/ Goto(Loop, "remove", c, 0, "idle")
    /\ UNCHANGED <<queues, selector, tables, slotting, history, fd, usedBytes>>

WriteReady(c) ==
    /\ Ready(c)
    /\ interest[c]
    /\ Goto(Loop, "write", c, 0, "idle")
    /\ UNCHANGED <<queues, selector, tables, slotting, history, fd, usedBytes>>

\* An event that select returned before its connection was closed: recv fails.
StaleEvent(c) ==
    /\ thread[Loop] = Idle
    /\ closed[c]
    /\ Goto(Loop, "remove", c, 0, "idle")
    /\ UNCHANGED <<queues, selector, tables, slotting, history, fd, usedBytes>>

\* keepalive_tick, which sends a ping, or a refusal, to begin with. The copy of
\* the table that the loop goes through may be older than a removal.
Tick(c) ==
    /\ thread[Loop] = Idle
    /\ LoopLockFree
    /\ c \in known \/ (Bound(c) /\ ~closed[c])
    /\ Goto(Loop, "send", c, 0, "ticked")
    /\ UNCHANGED <<queues, selector, tables, slotting, history, fd, usedBytes>>

\* The peer is alive, or it missed its pings, or its time to authenticate is
\* over (the writer has no close(), and the loop removes the connection).
Ticked ==
    /\ thread[Loop].at = "ticked"
    /\ \/ Return(Loop)
       \/ \E end \in {"lose", "remove"} : Goto(Loop, end, thread[Loop].conn, 0, "idle")
    /\ UNCHANGED <<queues, selector, tables, slotting, history, fd, usedBytes>>

\* write_ready: the payload is the whole buffer.
WriteStart ==
    LET c == thread[Loop].conn IN
    /\ thread[Loop].at = "write"
    /\ IF buffer[c] = 0 \/ closed[c] THEN Return(Loop)
       ELSE Goto(Loop, "socket", c, buffer[c], "idle")
    /\ UNCHANGED <<queues, selector, tables, slotting, history, fd, usedBytes>>

\* socket.send takes k bytes; write_ready goes on when it took the payload.
SocketSend(k) ==
    LET c == thread[Loop].conn IN
    /\ thread[Loop].at = "socket"
    /\ fd[c] # None
    /\ k \in 1..thread[Loop].n
    /\ written' = [written EXCEPT ![c] = @ + k]
    /\ Goto(Loop, "consume", c, k, IF k = thread[Loop].n THEN "write" ELSE "idle")
    /\ UNCHANGED <<queues, selector, tables, slotting, taken, fd, usedBytes>>

\* The socket would block, or it fails.
SocketRefuses ==
    LET c == thread[Loop].conn IN
    /\ thread[Loop].at = "socket"
    /\ \/ fd[c] # None /\ Return(Loop)
       \/ Goto(Loop, "remove", c, 0, "idle")
    /\ UNCHANGED <<queues, selector, tables, slotting, history, fd, usedBytes>>

\* Mutant: all of the buffer is consumed, though the socket took less.
ConsumeAll ==
    LET c == thread[Loop].conn IN
    /\ thread[Loop].at = "consume"
    /\ buffer' = [buffer EXCEPT ![c] = 0]
    /\ queuedBytes' = [queuedBytes EXCEPT ![c] = 0]
    /\ pendingWrites' = [pendingWrites EXCEPT ![c] = 0]
    /\ Goto(Loop, "consumed", c, thread[Loop].n, thread[Loop].then)
    /\ UNCHANGED <<closed, selector, tables, slotting, history, fd, usedBytes>>

\* _consume_sent, under the lock ...
Consume ==
    LET c == thread[Loop].conn
        k == thread[Loop].n
        rest == Max({0, buffer[c] - k})
    IN
    /\ thread[Loop].at = "consume"
    /\ buffer' = [buffer EXCEPT ![c] = rest]
    /\ queuedBytes' = [queuedBytes EXCEPT ![c] = Max({0, @ - k})]
    /\ pendingWrites' = [pendingWrites EXCEPT ![c] = IF rest = 0 THEN 0 ELSE @]
    /\ Goto(Loop, "consumed", c, k, thread[Loop].then)
    /\ UNCHANGED <<closed, selector, tables, slotting, history, fd, usedBytes>>

\* ... and the budget after it.
ConsumeRelease ==
    /\ thread[Loop].at = "consumed"
    /\ ReleaseBytes(thread[Loop].n)
    /\ Return(Loop)
    /\ UNCHANGED <<queues, selector, tables, slotting, history, fd>>

----------------------------------------------------------------------------
(* The other threads.                                                      *)

\* A send to a client that _resolve_client_protocol or a broadcast found.
Resolve(u, c) ==
    /\ thread[u] = Idle
    /\ c \in clients
    /\ Goto(u, "send", c, 0, "idle")
    /\ UNCHANGED <<queues, selector, tables, slotting, history, fd, usedBytes>>

\* disconnect_client.
Disconnect(u, c) ==
    /\ u \in Closers
    /\ thread[u] = Idle
    /\ c \in clients
    /\ clients' = clients \ {c}
    /\ Goto(u, IF stage[c] = "published" THEN "remove" ELSE "lose", c, 0, "idle")
    /\ UNCHANGED <<queues, selector, stage, known, lost, slotting, history, fd,
                   usedBytes>>

----------------------------------------------------------------------------
\* What a thread does next without waiting for its peer.
Run(t) ==
    \/ LossTest(t) \/ LossSet(t) \/ Unlist(t) \/ Shut(t) \/ Unregister(t)
    \/ CloseFlag(t) \/ CloseRelease(t) \/ CloseSocket(t) \/ OnClose(t) \/ ReturnSlot(t)
    \/ ReadInterest(t) \/ Modify(t)
    \/ \E k \in Sizes : Send(t, k) \/ SendRefused(t, k)

AcceptRun == Bind \/ Register \/ Publish \/ AcceptFails \/ Refuse
LoopRun == \/ Ticked \/ WriteStart \/ SocketRefuses \/ Consume \/ ConsumeRelease
           \/ \E k \in 1..MaxQueueBytes : SocketSend(k)

Next ==
    \/ \E t \in Threads : Run(t)
    \/ AcceptRun
    \/ LoopRun
    \/ \E c \in Conns : \/ Admit(c) \/ Read(c) \/ WriteReady(c) \/ StaleEvent(c)
                         \/ Tick(c)
    \/ \E u \in Users, c \in Conns : Resolve(u, c) \/ Disconnect(u, c)

\* Threads run; a client need not send or read, and nobody need call.
Fairness == /\ \A t \in Threads : WF_vars(Run(t))
            /\ WF_vars(AcceptRun)
            /\ WF_vars(LoopRun)

Spec == Init /\ [][Next]_vars /\ Fairness

----------------------------------------------------------------------------
(* Every variable keeps its shape; no counter goes below zero.              *)
TypeOK ==
    /\ stage \in [Conns -> {"new", "admitted", "bound", "published"}]
    /\ {fd, key} \subseteq [Conns -> Fds \cup {None}]
    /\ {interest, closed, lost} \subseteq [Conns -> BOOLEAN]
    /\ known \subseteq Conns /\ clients \subseteq Conns
    /\ {buffer, queuedBytes, pendingWrites, taken, written} \subseteq [Conns -> Nat]
    /\ released \in [Conns -> 0..2]
    /\ interrupted \subseteq Conns
    /\ usedBytes \in 0..MaxBytes
    /\ slots \in 0..MaxConnections
    /\ thread \in [Threads -> [
          at : {"idle", "bind", "register", "publish", "refuse", "lose", "setLost",
                "unlist", "shut", "remove", "close", "abort", "closeRelease",
                "closeSocket", "onClose", "slot", "send", "interest", "modify",
                "ticked", "write", "socket", "consume", "consumed"},
          conn : Conns \cup {None}, n : Nat,
          then : {"idle", "refuse", "write", "ticked", "slot", "shut"}]]

\* The bytes that the socket took and that are still in the buffer.
InFlight(c) ==
    IF thread[Loop].at = "consume" /\ thread[Loop].conn = c THEN thread[Loop].n ELSE 0

(* While a connection is open its buffer holds what was accepted and not    *)
(* written, its two counters agree with it, and so flush(), which looks at  *)
(* pending writes alone, tells the truth.                                   *)
StreamExact ==
    \A c \in Conns : ~closed[c] =>
        /\ written[c] + buffer[c] = taken[c] + InFlight(c)
        /\ queuedBytes[c] = buffer[c]
        /\ pendingWrites[c] = 0 <=> buffer[c] = 0

\* The bytes of the budget that connections hold in their queues and threads
\* in hand, as they are about to give them back; and all of them, by number.
Holders == ({"queue"} \X Conns) \cup ({"hand"} \X Threads)
InHand(t) == IF thread[t].at \in {"closeRelease", "consumed"} THEN thread[t].n ELSE 0
Amount(h) == IF h[1] = "queue" THEN queuedBytes[h[2]] ELSE InHand(h[2])
Held == UNION {{h} \X (1..Amount(h)) : h \in Holders}

(* No byte of the shared budget leaks, however connections end, and none is *)
(* given back twice while connections stay open. (A close between           *)
(* socket.send and _consume_sent gives the same bytes back twice.) The      *)
(* counters that the close has cleared by then do not go below zero.        *)
BudgetAccounted ==
    /\ \A c \in Conns : queuedBytes[c] >= 0 /\ buffer[c] >= 0
    /\ 0 <= usedBytes /\ usedBytes <= MaxBytes
    /\ usedBytes <= Cardinality(Held)
    /\ (\A c \in Conns : ~closed[c]) => usedBytes = Cardinality(Held)

(* A connection gives its slot back once, whoever closes it and however     *)
(* often, unless its registration failed after it was bound.                *)
SlotReturnedOnce ==
    \A c \in Conns : released[c] > 1 => stage[c] = "bound"

(* A connection that was closed leaves _clients, closes its socket and      *)
(* gives its slot back, unless the loss of it that on_close() handles is    *)
(* cut short by an exception, which close() swallows (event_loop.py:320):   *)
(* that slot is gone for good.                                              *)
ConnectionsEnd ==
    \A c \in Conns :
        closed[c] ~> /\ fd[c] = None /\ c \notin clients
                     /\ released[c] > 0 \/ c \in interrupted

(* max_connections, "Maximum concurrently accepted clients" (README.md:562),*)
(* bounds the connections that are open.                                    *)
SlotLimit == Cardinality({c \in Conns : fd[c] # None}) <= MaxConnections

=============================================================================
