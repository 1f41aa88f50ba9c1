------------------------------- MODULE Client -------------------------------
(***************************************************************************)
(* TcpClient and TcpClientProtocol: connect, disconnect and reconnect, the  *)
(* reader thread of each connection, the framing of what it receives with  *)
(* the reservation of its memory, the keepalive, and the loss of a         *)
(* connection, which the reader and the application may both notice.       *)
(*                                                                         *)
(* _connected, _socket, _protocol and the registry of requests belong to   *)
(* the client and outlive a connection; a reader reads them again in every *)
(* turn of its loop, and which protocol it works for in its first line.     *)
(* Sockets and the peer are external. One thread of the application calls   *)
(* connect, disconnect and send_async; others may cancel a request.        *)
(***************************************************************************)
EXTENDS Integers, Sequences, FiniteSets, FiniteSetsExt

CONSTANTS
    MaxConns,  \* bound: how often the application connects
    Stream,    \* the frames that the peer of each connection has to send
    MaxBytes,  \* max_bytes of the memory budget
    App,       \* the thread of the application
    None

Conns   == 1..MaxConns
Threads == Conns \cup {App}   \* the reader of a connection bears its number

\* A frame: the bytes before it, its length, of which one unit is the length
\* prefix, and whether it can be unpacked ("good"), cannot ("bad"), or announces
\* too much ("big").
Frame(start, size, kind) == [start |-> start, size |-> size, kind |-> kind]
Behind(f) == f.start + f.size

\* The frames of a stream follow one another without a gap.
Contiguous(s) ==
    /\ Len(s) > 0 => s[1].start = 0
    /\ \A j, k \in 1..Len(s) :
          /\ j < k => Behind(s[j]) <= s[k].start
          /\ k = j + 1 => Behind(s[j]) = s[k].start

ASSUME ClientAssumption ==
    /\ MaxConns \in Nat \ {0}
    /\ MaxBytes \in Nat
    /\ Stream \in [Conns -> Seq([start : Nat, size : Nat \ {0},
                               kind : {"good", "bad", "big"}])]
    /\ \A c \in Conns : Contiguous(Stream[c])
    /\ None \notin Threads /\ App \notin Conns

VARIABLES
    connected, socket, protocol,   \* the fields of TcpClient
    request,     \* pending_responses: what became of each connection's request
    created,     \* the connections so far
    link,        \* the socket of each connection
    received,    \* how much was read of what its peer sends
    chunk,       \* what each reader has read and not put into a buffer yet
    lost,        \* _connection_lost
    buffer,      \* _buffer: the bytes, each with its connection and its place
    reserved,    \* _inbound_reserved
    usedBytes,   \* of the memory budget, which all connections share
    thread,      \* where each thread is
    handled,     \* auxiliary: the frames each protocol handled, in order
    announced,   \* auxiliary: the CONNECT and DISCONNECT events of each connection
    failedBy,    \* auxiliary: the connection whose loss failed each request
    raced,       \* auxiliary: losses that two threads handled
    late,        \* auxiliary: bytes counted after the loss gave the count back
    interrupted, \* auxiliary: protocols whose loss an exception cut short
    overtaken    \* auxiliary: connections at work when a later one was opened

fields  == <<connected, socket, protocol>>
network == <<link, received>>
inbound == <<chunk, buffer, reserved, usedBytes, late>>
events  == <<announced, raced, failedBy, interrupted>>
vars == <<fields, request, created, network, lost, inbound, thread, handled, events,
          overtaken>>

\* A thread: its place, the protocol it works on, an amount of bytes, and where
\* it goes on after handle_connection_lost.
At(place, p, n, back) == [at |-> place, proto |-> p, n |-> n, back |-> back]

Goto(t, place) == thread' = [thread EXCEPT ![t].at = place]
GotoWith(t, place, n) == thread' = [thread EXCEPT ![t].at = place, ![t].n = n]
Call(t, p, back) == thread' = [thread EXCEPT ![t] = At("lost", p, 0, back)]

Init ==
    /\ connected = FALSE
    /\ socket = None
    /\ protocol = None
    /\ request = [c \in Conns |-> "none"]
    /\ created = 0
    /\ link = [c \in Conns |-> "none"]
    /\ received = [c \in Conns |-> 0]
    /\ lost = [c \in Conns |-> FALSE]
    /\ chunk = [c \in Conns |-> <<>>]
    /\ buffer = [c \in Conns |-> <<>>]
    /\ reserved = [c \in Conns |-> 0]
    /\ usedBytes = 0
    /\ thread = [t \in Threads |-> At(IF t = App THEN "idle" ELSE "off", None, 0, "ended")]
    /\ handled = [c \in Conns |-> <<>>]
    /\ announced = [c \in Conns |-> [connect |-> 0, disconnect |-> 0]]
    /\ raced = [c \in Conns |-> FALSE]
    /\ failedBy = [c \in Conns |-> None]
    /\ late = [c \in Conns |-> 0]
    /\ interrupted = {}
    /\ overtaken = {}

\* The bytes that the peer of c has to send.
StreamLength(c) == IF Stream[c] = <<>> THEN 0 ELSE Behind(Stream[c][Len(Stream[c])])

----------------------------------------------------------------------------
(* connect().                                                              *)

AtWork == {c \in Conns : \E t \in Threads :
              /\ thread[t].at \notin {"off", "idle", "ended"}
              /\ t = c \/ thread[t].proto = c}

\* The socket is created and connected, or the server cannot be reached.
OpenSocket ==
    /\ thread[App].at = "idle"
    /\ ~connected
    /\ created < MaxConns
    /\ created' = created + 1
    /\ socket' = created'
    /\ overtaken' = overtaken \cup AtWork
    /\ \/ /\ link' = [link EXCEPT ![created'] = "up"]
          /\ thread' = [thread EXCEPT ![App] = At("establish", created', 0, "cleanup")]
       \/ /\ thread' = [thread EXCEPT ![App] = At("cleanup", created', 0, "cleanup")]
          /\ link' = link
    /\ UNCHANGED <<connected, protocol, request, received, lost, inbound,
                   handled, events>>

\* The protocol, the flag, and the thread of the reader.
Establish ==
    LET c == thread[App].proto IN
    /\ thread[App].at = "establish"
    /\ protocol' = c
    /\ connected' = TRUE
    /\ thread' = [thread EXCEPT ![App].at = "handshake", ![c].at = "start"]
    /\ UNCHANGED <<socket, request, created, network, lost, inbound, handled, events,
                   overtaken>>

\* The handshake succeeds, CONNECT is queued and connect() returns; or one of
\* them fails.
EndHandshake ==
    /\ thread[App].at = "handshake"
    /\ \/ /\ announced' = [announced EXCEPT ![thread[App].proto].connect = @ + 1]
          /\ Goto(App, "idle")
       \/ announced' = announced /\ Goto(App, "cleanup")
    /\ UNCHANGED <<fields, request, created, network, lost, inbound, handled, raced,
                   failedBy, interrupted, overtaken>>

----------------------------------------------------------------------------
(* disconnect(), _cleanup_transport() and the registration of send_async().*)

\* Without a protocol it changes nothing. Its join() at the end waits for the
\* reader for a second at most, and holds nothing back for ever.
Disconnect ==
    /\ thread[App].at = "idle"
    /\ protocol # None
    /\ Call(App, protocol, "cleanup")
    /\ UNCHANGED <<fields, request, created, network, lost, inbound, handled, events,
                   overtaken>>

CleanupClose ==
    /\ thread[App].at = "cleanup"
    /\ link' = IF socket = None THEN link ELSE [link EXCEPT ![socket] = "closed"]
    /\ Goto(App, "clear")
    /\ UNCHANGED <<fields, request, created, received, lost, inbound, handled,
                   events, overtaken>>

\* Mutant: the cleanup leaves _connected to the loss handler.
ClearKeepsConnected ==
    /\ thread[App].at = "clear"
    /\ socket' = None
    /\ protocol' = None
    /\ Goto(App, "idle")
    /\ UNCHANGED <<connected, request, created, network, lost, inbound,
                   handled, events, overtaken>>

CleanupClear ==
    /\ thread[App].at = "clear"
    /\ socket' = None
    /\ protocol' = None
    /\ connected' = FALSE
    /\ Goto(App, "idle")
    /\ UNCHANGED <<request, created, network, lost, inbound, handled,
                   events, overtaken>>

\* Bound: one request in all (what becomes of several is in module Requests).
SendRequest ==
    /\ thread[App].at = "idle"
    /\ connected
    /\ protocol # None
    /\ \A c \in Conns : request[c] = "none"
    /\ request' = [request EXCEPT ![protocol] = "pending"]
    /\ UNCHANGED <<fields, created, network, lost, inbound, thread, handled, events,
                   overtaken>>

----------------------------------------------------------------------------
(* _receive_loop, on the reader t.                                         *)

ReaderStart(t) ==
    /\ thread[t].at = "start"
    /\ thread' = [thread EXCEPT ![t] = At("loop", protocol, 0, "ended")]
    /\ UNCHANGED <<fields, request, created, network, lost, inbound, handled, events,
                   overtaken>>

\* The end of the loop, or of a turn by an exception.
Leave(t) == IF thread[t].proto = None THEN Goto(t, "ended")
                                      ELSE Call(t, thread[t].proto, "ended")

LoopTest(t) ==
    /\ thread[t].at = "loop"
    /\ IF connected /\ socket # None THEN Goto(t, "recv") ELSE Leave(t)
    /\ UNCHANGED <<fields, request, created, network, lost, inbound, handled, events,
                   overtaken>>

\* The peer closed, or the socket was closed or taken away by another thread.
RecvEnds(t) ==
    /\ thread[t].at = "recv"
    /\ socket # None => link[socket] \in {"eof", "closed"}
    /\ Leave(t)
    /\ UNCHANGED <<fields, request, created, network, lost, inbound, handled, events,
                   overtaken>>

\* Nothing came for a second, and keepalive_tick has nothing to do. A reader
\* that found no protocol fails here.
RecvTimeout(t) ==
    /\ thread[t].at = "recv"
    /\ socket # None
    /\ link[socket] = "up"
    /\ IF thread[t].proto = None THEN Leave(t) ELSE Goto(t, "loop")
    /\ UNCHANGED <<fields, request, created, network, lost, inbound, handled, events,
                   overtaken>>

\* recv and the first lines of handle_data: n bytes, for which the budget has
\* room or not. The socket is the one the client has now.
Recv(t, n) ==
    LET s == socket IN
    /\ thread[t].at = "recv"
    /\ s # None
    /\ link[s] = "up"
    /\ received[s] + n <= StreamLength(s)
    /\ received' = [received EXCEPT ![s] = @ + n]
    /\ IF thread[t].proto = None \/ usedBytes + n > MaxBytes
          THEN Leave(t) /\ UNCHANGED <<chunk, usedBytes>>
          ELSE /\ usedBytes' = usedBytes + n
               /\ chunk' = [chunk EXCEPT ![t] = [i \in 1..n |-> <<s, received[s] + i>>]]
               /\ GotoWith(t, "count", n)
    /\ UNCHANGED <<fields, request, created, link, lost, buffer, reserved, late,
                   handled, events, overtaken>>

\* keepalive_tick on a peer that was silent for too long. A ping that cannot
\* be sent, as the queue of the writer is full, ends the tick before.
KeepaliveTimeout(t) ==
    /\ thread[t].at = "recv"
    /\ thread[t].proto # None
    /\ link[thread[t].proto] = "up"
    /\ Call(t, thread[t].proto, "loop")
    /\ UNCHANGED <<fields, request, created, network, lost, inbound, handled, events,
                   overtaken>>

----------------------------------------------------------------------------
(* handle_data, on the protocol p of the reader t.                         *)

\* _reserve_inbound, second half; and the bytes go into the buffer.
CountInbound(t) ==
    LET p == thread[t].proto IN
    /\ thread[t].at = "count"
    /\ reserved' = [reserved EXCEPT ![p] = @ + thread[t].n]
    /\ late' = [late EXCEPT ![p] = IF lost[p] THEN @ + thread[t].n ELSE @]
    /\ buffer' = [buffer EXCEPT ![p] = @ \o chunk[t]]
    /\ chunk' = [chunk EXCEPT ![t] = <<>>]
    /\ GotoWith(t, "parse", 0)
    /\ UNCHANGED <<fields, request, created, network, lost, usedBytes, handled,
                   events, overtaken>>

\* The frame that begins behind offset n of buffer b, if its bytes are there in
\* order; 0 when they are those of no frame, as another reader took some.
FrameAt(b, n) ==
    LET c == b[n + 1][1]
        K == {k \in 1..Len(Stream[c]) : Stream[c][k].start + 1 = b[n + 1][2]}
        InOrder(k) == \A i \in 1..Stream[c][k].size :
                         n + i <= Len(b) => b[n + i] = <<c, Stream[c][k].start + i>>
    IN IF \E k \in K : InOrder(k) THEN CHOOSE k \in K : InOrder(k) ELSE 0

\* What the loop does at offset n: stop, raise, or take a frame of some size.
Stop == [do |-> "stop", size |-> 0, frame |-> 0]
Raise == [do |-> "raise", size |-> 0, frame |-> 0]
Take(size, k) == [do |-> "take", size |-> size, frame |-> k]

\* Mutant: a frame that fills the buffer to its end is taken for incomplete.
ParseStopsEarly(b, n) ==
    LET rest == Len(b) - n
        k    == FrameAt(b, n)
        f    == Stream[b[n + 1][1]][k]
    IN IF rest < 1 THEN {Stop}
       ELSE IF k = 0 THEN {Stop, Raise, Take(rest, 0)}
       ELSE IF f.kind = "big" THEN {Raise}
       ELSE IF rest <= f.size THEN {Stop}
       ELSE {Raise, Take(f.size, IF f.kind = "good" THEN k ELSE 0)}

\* A length made of the wrong bytes may be too large, reach beyond the buffer or
\* swallow what is there. Whatever is done with a
\* frame may raise, as the dispatcher refuses the event.
Parse(b, n) ==
    LET rest == Len(b) - n
        k    == FrameAt(b, n)
        f    == Stream[b[n + 1][1]][k]
    IN IF rest < 1 THEN {Stop}
       ELSE IF k = 0 THEN {Stop, Raise, Take(rest, 0)}
       ELSE IF f.kind = "big" THEN {Raise}
       ELSE IF rest < f.size THEN {Stop}
       ELSE {Raise, Take(f.size, IF f.kind = "good" THEN k ELSE 0)}

ParseFrame(t) ==
    LET p == thread[t].proto
        n == thread[t].n
    IN
    /\ thread[t].at = "parse"
    /\ \E step \in Parse(buffer[p], n) :
          /\ CASE step.do = "stop"  -> Goto(t, "trim")
               [] step.do = "raise" -> Leave(t)
               [] step.do = "take"  -> GotoWith(t, "parse", n + step.size)
          /\ handled' = IF step.frame = 0 THEN handled
                        ELSE [handled EXCEPT ![p] = Append(@, step.frame)]
    /\ UNCHANGED <<fields, request, created, network, lost, inbound, events, overtaken>>

\* del self._buffer[:offset], and what _release_inbound does under its lock:
\* n becomes the amount to give back.
Trim(t) ==
    LET p == thread[t].proto
        n == Min({thread[t].n, reserved[p]})
    IN
    /\ thread[t].at = "trim"
    /\ buffer' = [buffer EXCEPT ![p] = SubSeq(@, thread[t].n + 1, Len(@))]
    /\ reserved' = [reserved EXCEPT ![p] = @ - n]
    /\ GotoWith(t, "release", n)
    /\ UNCHANGED <<fields, request, created, network, lost, chunk, usedBytes, late,
                   handled, events, overtaken>>

\* MemoryBudget.release.
GiveBack(t, place) ==
    /\ usedBytes' = Max({0, usedBytes - thread[t].n})
    /\ GotoWith(t, place, 0)
    /\ UNCHANGED <<fields, request, created, network, lost, chunk, buffer, reserved,
                   late, handled, events, overtaken>>

Release(t) == thread[t].at = "release" /\ GiveBack(t, "loop")

----------------------------------------------------------------------------
(* handle_connection_lost, on any thread t.                                *)

LossTest(t) ==
    /\ thread[t].at = "lost"
    /\ IF lost[thread[t].proto]
          THEN Goto(t, thread[t].back)
          ELSE Goto(t, "setLost")
    /\ UNCHANGED <<fields, request, created, network, lost, inbound, handled, events,
                   overtaken>>

LossSet(t) ==
    LET p == thread[t].proto IN
    /\ thread[t].at = "setLost"
    /\ lost' = [lost EXCEPT ![p] = TRUE]
    /\ raced' = [raced EXCEPT ![p] = @ \/ lost[p]]
    /\ Goto(t, "sweep")
    /\ UNCHANGED <<fields, request, created, network, inbound, handled, announced,
                   failedBy, interrupted, overtaken>>

\* Mutant: the bytes given back stay in the count.
SweepKeepsCount(t) ==
    LET p == thread[t].proto IN
    /\ thread[t].at = "sweep"
    /\ GotoWith(t, "giveBack", reserved[p])
    /\ UNCHANGED <<fields, request, created, network, lost, inbound, handled, events,
                   overtaken>>

\* _release_all_inbound: the count under its lock, then the budget.
Sweep(t) ==
    LET p == thread[t].proto IN
    /\ thread[t].at = "sweep"
    /\ reserved' = [reserved EXCEPT ![p] = 0]
    /\ late' = [late EXCEPT ![p] = 0]
    /\ GotoWith(t, "giveBack", reserved[p])
    /\ UNCHANGED <<fields, request, created, network, lost, chunk, buffer, usedBytes,
                   handled, events, overtaken>>

ReleaseAll(t) == thread[t].at = "giveBack" /\ GiveBack(t, "unset")

Unset(t) ==
    /\ thread[t].at = "unset"
    /\ connected' = FALSE
    /\ Goto(t, "drain")
    /\ UNCHANGED <<socket, protocol, request, created, network, lost,
                   inbound, handled, events, overtaken>>

\* Where an exception of handle_connection_lost takes t: out of disconnect(), to
\* the handler of the loop (which keepalive_tick is called in), or out of the
\* thread.
Interrupt(t) ==
    CASE thread[t].back = "cleanup" -> Goto(t, "idle")
      [] thread[t].back = "loop"    -> Leave(t)
      [] thread[t].back = "ended"   -> Goto(t, "ended")

\* Every pending request of the client, whatever its connection, is failed. A
\* thread that cancels one of them between done() and set_exception() makes the
\* latter raise: the rest of the requests is left, and so is the connection.
DrainRequests(t) ==
    LET p == thread[t].proto
        Pending == {c \in Conns : request[c] = "pending"}
        Settle(D, rest) ==
           /\ request' = [c \in Conns |-> IF c \in D THEN "failed" ELSE rest[c]]
           /\ failedBy' = [c \in Conns |-> IF c \in D THEN p ELSE failedBy[c]]
    IN
    /\ thread[t].at = "drain"
    /\ \/ /\ Settle(Pending, request)
          /\ interrupted' = interrupted
          /\ Goto(t, "end")
       \/ \E c \in Pending : \E D \in SUBSET (Pending \ {c}) :
             /\ Settle(D, [d \in Conns |-> IF d = c THEN "cancelled"
                                           ELSE IF d \in Pending THEN "stuck"
                                           ELSE request[d]])
             /\ interrupted' = interrupted \cup {p}
             /\ Interrupt(t)
    /\ UNCHANGED <<fields, created, network, lost, inbound, handled, announced, raced,
                   overtaken>>

\* Mutant: the socket is left to the reader.
EndLossLeavesSocket(t) ==
    LET p == thread[t].proto IN
    /\ thread[t].at = "end"
    /\ announced' = [announced EXCEPT ![p].disconnect = @ + 1]
    /\ Goto(t, thread[t].back)
    /\ UNCHANGED <<fields, request, created, network, lost, inbound, handled, raced,
                   failedBy, interrupted, overtaken>>

\* DISCONNECT, for which an error of the dispatcher is swallowed; the writer is
\* aborted and the socket closed.
EndLoss(t) ==
    LET p == thread[t].proto IN
    /\ thread[t].at = "end"
    /\ announced' = [announced EXCEPT ![p].disconnect = @ + 1]
    /\ link' = [link EXCEPT ![p] = "closed"]
    /\ Goto(t, thread[t].back)
    /\ UNCHANGED <<fields, request, created, received, lost, inbound, handled, raced,
                   failedBy, interrupted, overtaken>>

----------------------------------------------------------------------------
(* The peer.                                                               *)

PeerCloses(c) ==
    /\ link[c] = "up"
    /\ link' = [link EXCEPT ![c] = "eof"]
    /\ UNCHANGED <<fields, request, created, received, lost, inbound, thread,
                   handled, events, overtaken>>

----------------------------------------------------------------------------
Loss(t) == \/ LossTest(t) \/ LossSet(t) \/ Sweep(t) \/ ReleaseAll(t) \/ Unset(t)
           \/ DrainRequests(t) \/ EndLoss(t)

HandleData(t) == CountInbound(t) \/ ParseFrame(t) \/ Trim(t) \/ Release(t)

Reader(t) == \/ ReaderStart(t) \/ LoopTest(t) \/ RecvEnds(t) \/ HandleData(t) \/ Loss(t)

Application == \/ Establish \/ EndHandshake \/ CleanupClose \/ CleanupClear
               \/ Loss(App)

Next == \/ OpenSocket \/ Disconnect \/ SendRequest
        \/ Application
        \/ \E c \in Conns : \/ Reader(c) \/ RecvTimeout(c) \/ KeepaliveTimeout(c)
                            \/ PeerCloses(c)
                            \/ \E n \in 1..MaxBytes : Recv(c, n)

Spec == Init /\ [][Next]_vars

----------------------------------------------------------------------------
Places == {"off", "idle", "establish", "handshake", "cleanup", "clear", "start",
           "loop", "recv", "count", "parse", "trim", "release", "ended", "lost",
           "setLost", "sweep", "giveBack", "unset", "drain", "end"}

(* Every variable keeps its shape; no counter of bytes falls below zero.    *)
TypeOK ==
    /\ connected \in BOOLEAN
    /\ socket \in Conns \cup {None} /\ protocol \in Conns \cup {None}
    /\ request \in [Conns -> {"none", "pending", "failed", "cancelled", "stuck"}]
    /\ created \in 0..MaxConns
    /\ link \in [Conns -> {"none", "up", "eof", "closed"}]
    /\ received \in [Conns -> Nat] /\ reserved \in [Conns -> Nat] /\ late \in [Conns -> Nat]
    /\ lost \in [Conns -> BOOLEAN] /\ raced \in [Conns -> BOOLEAN]
    /\ chunk \in [Conns -> Seq(Conns \X (Nat \ {0}))]
    /\ buffer \in [Conns -> Seq(Conns \X (Nat \ {0}))]
    /\ usedBytes \in 0..MaxBytes
    /\ thread \in [Threads -> [at : Places, proto : Conns \cup {None}, n : Nat,
                               back : {"cleanup", "loop", "ended"}]]
    /\ failedBy \in [Conns -> Conns \cup {None}]
    /\ handled \in [Conns -> Seq(Nat \ {0})]
    /\ announced \in [Conns -> [connect : Nat, disconnect : Nat]]
    /\ interrupted \subseteq Conns /\ overtaken \subseteq Conns

\* What a thread has reserved and not counted yet, or taken from a count and not
\* given back yet.
InHand(t) == IF thread[t].at \in {"count", "release", "giveBack"} THEN thread[t].n ELSE 0

\* The bytes of the budget that connections and threads hold.
Holders   == ({"connection"} \X Conns) \cup ({"thread"} \X Threads)
Amount(h) == IF h[1] = "connection" THEN reserved[h[2]] ELSE InHand(h[2])
Held      == UNION {{h} \X (1..Amount(h)) : h \in Holders}

(* The budget that all connections share holds exactly the reservations and *)
(* never more than its limit, whoever reserves and releases at a time. A    *)
(* connection that no other overtook has reserved its buffer. One that was  *)
(* lost has reserved nothing once the loss handler has swept its count, but *)
(* the bytes that its reader counted afterwards: those are never returned.  *)
InboundExact ==
    /\ usedBytes = Cardinality(Held)
    /\ usedBytes <= MaxBytes
    /\ \A p \in Conns :
          /\ ~lost[p] /\ overtaken = {} => reserved[p] = Len(buffer[p])
          /\ lost[p] => \/ reserved[p] <= late[p]
                        \/ \E t \in Threads : thread[t].at = "sweep" /\ thread[t].proto = p

\* The good frames among the first n bytes of what the peer of c sends.
Complete(c, n) == {k \in 1..Len(Stream[c]) : /\ Stream[c][k].kind = "good"
                                            /\ Behind(Stream[c][k]) <= n}

\* The sequence s has the numbers in K, each once and in order.
Lists(s, K) == /\ {s[i] : i \in 1..Len(s)} = K
               /\ \A i, j \in 1..Len(s) : i < j => s[i] < s[j]

(* However the stream is cut into pieces, a reader that no other overtook   *)
(* has handled exactly the frames that are complete, each once and in       *)
(* order, whenever it waits for more; and never any other.                  *)
FramesHandledOnce ==
    overtaken = {} => \A c \in Conns :
        /\ \E n \in 0..received[c] : Lists(handled[c], Complete(c, n))
        /\ thread[c].at = "recv" /\ thread[c].proto = c
              => Lists(handled[c], Complete(c, received[c]))

(* The fields of the client are those of the connection made last, and what *)
(* befalls an earlier connection does not touch it, unless connect() was    *)
(* called while a thread was still at work on the earlier one.              *)
CurrentConnection ==
    overtaken = {} =>
        /\ connected => socket = created /\ protocol = created /\ link[created] # "none"
        /\ \A c \in Conns : failedBy[c] \in {None, c}
        /\ thread[App].at = "idle" /\ protocol # None /\ ~connected => lost[protocol]
        /\ \A c \in Conns : thread[c].at \in {"recv", "count", "parse"} =>
              thread[c].proto = c

\* Every thread waits for the peer or for the application, or has ended.
Quiescent ==
    /\ thread[App].at = "idle"
    /\ \A c \in Conns :
          \/ thread[c].at \in {"off", "ended"}
          \/ thread[c].at = "recv" /\ connected /\ socket # None /\ link[socket] = "up"

(* When nothing is left to do, a connection that was lost is over: its      *)
(* socket is closed, its loss was announced, once unless two threads passed *)
(* the test of the flag together, and its reader has ended, unless a later  *)
(* connection revived the loop; and one that the client calls connected has *)
(* a reader. The one exception is a loss that was cut short by a request    *)
(* which another thread cancelled at that moment (client.py:253-258): it is *)
(* not announced, and only a later disconnect() closes the socket.          *)
LossComplete ==
    Quiescent =>
        /\ \A c \in Conns : lost[c] =>
              /\ c \notin interrupted => link[c] = "closed" /\ announced[c].disconnect > 0
              /\ announced[c].disconnect > 1 => raced[c]
              /\ thread[c].at \in {"off", "ended"} \/ overtaken # {}
        /\ \A c \in Conns : announced[c].connect > 0 /\ thread[c].at = "ended"
              => lost[c] \/ overtaken # {}
        /\ connected => thread[socket].at = "recv" \/ overtaken # {}

=============================================================================
