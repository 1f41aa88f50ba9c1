---------------------------- MODULE SocketWriter ----------------------------
(***************************************************************************)
(* SocketWriter and MemoryBudget: every connection of a server with a      *)
(* thread per connection, and every client, has a writer with a bounded    *)
(* queue and a thread that writes it to the socket; the writers share one  *)
(* memory budget. Any thread may send, and any thread may close or abort a *)
(* writer. queue.Queue, the locks and the socket are external; a blocked   *)
(* sendall is the socket waiting for its peer.                             *)
(***************************************************************************)
EXTENDS Integers, Sequences, SequencesExt, FiniteSetsExt

CONSTANTS
    Writers,           \* the writers that share the budget
    Frames,            \* the payloads; each is sent once at most
    Size,              \* the length of each payload
    MaxQueueBytes,     \* max_queue_bytes
    MaxPendingWrites,  \* max_pending_writes
    MaxBytes,          \* max_bytes of the budget
    Closers,           \* the threads that close or abort writers
    Stop               \* _STOP

ASSUME SocketWriterAssumption ==
    /\ Size \in [Frames -> Nat \ {0}]
    /\ {MaxQueueBytes, MaxPendingWrites, MaxBytes} \subseteq Nat \ {0}
    /\ Stop \notin Frames
    /\ Writers \cap Closers = {}

VARIABLES
    queue,          \* _queue
    queuedBytes, pendingWrites, closed,
    failed,         \* _error is not None
    socketOpen,     \* has _close_socket been called?
    usedBytes,      \* _used_bytes of the budget
    thread,         \* the writer thread
    closer,         \* the threads in close() or abort()
    accepted,       \* auxiliary: the frames that send accepted, in order
    written         \* auxiliary: the frames handed to the socket, in order

counters == <<queuedBytes, pendingWrites>>
history  == <<accepted, written>>
vars == <<queue, counters, closed, failed, socketOpen, usedBytes, thread, closer,
          history>>

\* A thread's position, the writer it works for and the payload it has in hand.
At(place, w, f) == [at |-> place, writer |-> w, frame |-> f]
NoWriter == Stop

Init ==
    /\ queue = [w \in Writers |-> <<>>]
    /\ queuedBytes = [w \in Writers |-> 0]
    /\ pendingWrites = [w \in Writers |-> 0]
    /\ closed = [w \in Writers |-> FALSE]
    /\ failed = [w \in Writers |-> FALSE]
    /\ socketOpen = [w \in Writers |-> TRUE]
    /\ usedBytes = 0
    /\ thread = [w \in Writers |-> At("get", w, Stop)]
    /\ closer = [c \in Closers |-> At("idle", NoWriter, Stop)]
    /\ accepted = [w \in Writers |-> <<>>]
    /\ written = [w \in Writers |-> <<>>]

----------------------------------------------------------------------------
\* send(): one step under _state_lock, the reservation included. When it is
\* refused (closed, queue full, budget spent) it raises and changes nothing.
Send(w, f) ==
    /\ \A v \in Writers : ~Contains(accepted[v], f)
    /\ ~closed[w]
    /\ pendingWrites[w] < MaxPendingWrites
    /\ queuedBytes[w] + Size[f] <= MaxQueueBytes
    /\ usedBytes + Size[f] <= MaxBytes
    /\ usedBytes' = usedBytes + Size[f]
    /\ queuedBytes' = [queuedBytes EXCEPT ![w] = @ + Size[f]]
    /\ pendingWrites' = [pendingWrites EXCEPT ![w] = @ + 1]
    /\ queue' = [queue EXCEPT ![w] = Append(@, f)]
    /\ accepted' = [accepted EXCEPT ![w] = Append(@, f)]
    /\ UNCHANGED <<closed, failed, socketOpen, thread, closer, written>>

\* Mutant: the bytes of a written frame stay in the queue's account.
UncountFrame(w, f) ==
    /\ pendingWrites' = [pendingWrites EXCEPT ![w] = @ - 1]
    /\ queuedBytes' = queuedBytes

\* _complete, first half: the counters of the writer.
Uncount(w, f) ==
    /\ queuedBytes' = [queuedBytes EXCEPT ![w] = @ - Size[f]]
    /\ pendingWrites' = [pendingWrites EXCEPT ![w] = @ - 1]

\* _complete, second half: MemoryBudget.release never goes below zero.
Release(f) == usedBytes' = Max({0, usedBytes - Size[f]})

----------------------------------------------------------------------------
(* The writer thread: _run, and _drain at its end.                         *)

Goto(w, place, f) == thread' = [thread EXCEPT ![w] = At(place, w, f)]

\* Mutant: the flag ends the thread, not _STOP.
GetUntilClosed(w) ==
    /\ thread[w].at = "get"
    /\ queue[w] # <<>>
    /\ IF closed[w]
          THEN Goto(w, "drain", Stop) /\ queue' = queue
          ELSE /\ Goto(w, "send", Head(queue[w]))
               /\ queue' = [queue EXCEPT ![w] = Tail(@)]
    /\ UNCHANGED <<counters, closed, failed, socketOpen, usedBytes, closer, history>>

Get(w) ==
    /\ thread[w].at = "get"
    /\ queue[w] # <<>>
    /\ queue' = [queue EXCEPT ![w] = Tail(@)]
    /\ IF Head(queue[w]) = Stop THEN Goto(w, "drain", Stop)
                                ELSE Goto(w, "send", Head(queue[w]))
    /\ UNCHANGED <<counters, closed, failed, socketOpen, usedBytes, closer, history>>

SendAll(w) ==
    /\ thread[w].at = "send"
    /\ socketOpen[w]
    /\ written' = [written EXCEPT ![w] = Append(@, thread[w].frame)]
    /\ Goto(w, "sent", thread[w].frame)
    /\ UNCHANGED <<queue, counters, closed, failed, socketOpen, usedBytes, closer,
                   accepted>>

\* The peer is gone, or the socket was closed by another thread.
SendAllFails(w) ==
    /\ thread[w].at = "send"
    /\ Goto(w, "unsent", thread[w].frame)
    /\ UNCHANGED <<queue, counters, closed, failed, socketOpen, usedBytes, closer,
                   history>>

Complete(w) ==
    /\ thread[w].at \in {"sent", "unsent"}
    /\ Uncount(w, thread[w].frame)
    /\ Goto(w, IF thread[w].at = "sent" THEN "release" ELSE "releaseFail",
            thread[w].frame)
    /\ UNCHANGED <<queue, closed, failed, socketOpen, usedBytes, closer, history>>

ReleaseBudget(w) ==
    /\ thread[w].at \in {"release", "releaseFail"}
    /\ Release(thread[w].frame)
    /\ Goto(w, IF thread[w].at = "release" THEN "get" ELSE "fail", Stop)
    /\ UNCHANGED <<queue, counters, closed, failed, socketOpen, closer, history>>

\* _fail: the flags, then the socket; the drain follows.
Fail(w) ==
    /\ thread[w].at = "fail"
    /\ failed' = [failed EXCEPT ![w] = TRUE]
    /\ closed' = [closed EXCEPT ![w] = TRUE]
    /\ socketOpen' = [socketOpen EXCEPT ![w] = FALSE]
    /\ Goto(w, "drain", Stop)
    /\ UNCHANGED <<queue, counters, usedBytes, closer, history>>

Drain(w) ==
    /\ thread[w].at = "drain"
    /\ IF queue[w] = <<>>
          THEN Goto(w, "ended", Stop) /\ queue' = queue
          ELSE /\ queue' = [queue EXCEPT ![w] = Tail(@)]
               /\ Goto(w, IF Head(queue[w]) = Stop THEN "drain" ELSE "drop",
                       Head(queue[w]))
    /\ UNCHANGED <<counters, closed, failed, socketOpen, usedBytes, closer, history>>

DrainComplete(w) ==
    /\ thread[w].at = "drop"
    /\ Uncount(w, thread[w].frame)
    /\ Goto(w, "dropRelease", thread[w].frame)
    /\ UNCHANGED <<queue, closed, failed, socketOpen, usedBytes, closer, history>>

\* Mutant: what is drained is not given back to the budget.
DrainKeeps(w) ==
    /\ thread[w].at = "dropRelease"
    /\ Goto(w, "drain", Stop)
    /\ UNCHANGED <<queue, counters, closed, failed, socketOpen, usedBytes, closer,
                   history>>

DrainRelease(w) ==
    /\ thread[w].at = "dropRelease"
    /\ Release(thread[w].frame)
    /\ Goto(w, "drain", Stop)
    /\ UNCHANGED <<queue, counters, closed, failed, socketOpen, closer, history>>

----------------------------------------------------------------------------
(* close() and abort(), on any other thread c.                             *)

Move(c, place, w, f) == closer' = [closer EXCEPT ![c] = At(place, w, f)]

Close(c, w) ==
    /\ closer[c].at = "idle"
    /\ closed' = [closed EXCEPT ![w] = TRUE]
    /\ Move(c, IF closed[w] THEN "join" ELSE "stop", w, Stop)
    /\ UNCHANGED <<queue, counters, failed, socketOpen, usedBytes, thread, history>>

ClosePutStop(c) ==
    LET w == closer[c].writer IN
    /\ closer[c].at = "stop"
    /\ queue' = [queue EXCEPT ![w] = Append(@, Stop)]
    /\ Move(c, "join", w, Stop)
    /\ UNCHANGED <<counters, closed, failed, socketOpen, usedBytes, thread, history>>

CloseJoined(c) ==
    /\ closer[c].at = "join"
    /\ thread[closer[c].writer].at = "ended"
    /\ Move(c, "done", closer[c].writer, Stop)
    /\ UNCHANGED <<queue, counters, closed, failed, socketOpen, usedBytes, thread,
                   history>>

\* The flags of abort(), called first or because the join timed out, and
\* _close_socket.
Abort(c, w) ==
    /\ \/ closer[c].at = "idle"
       \/ closer[c].at = "join" /\ closer[c].writer = w /\ thread[w].at # "ended"
    /\ closed' = [closed EXCEPT ![w] = TRUE]
    /\ failed' = [failed EXCEPT ![w] = TRUE]
    /\ socketOpen' = [socketOpen EXCEPT ![w] = FALSE]
    /\ Move(c, "drain", w, Stop)
    /\ UNCHANGED <<queue, counters, usedBytes, thread, history>>

\* Mutant: the drain takes the _STOP of a close() and puts none back.
AbortDrainTakesStop(c) ==
    LET w == closer[c].writer IN
    /\ closer[c].at = "drain"
    /\ IF queue[w] = <<>>
          THEN queue' = queue /\ Move(c, "done", w, Stop)
          ELSE /\ queue' = [queue EXCEPT ![w] = Tail(@)]
               /\ Move(c, IF Head(queue[w]) = Stop THEN "drain" ELSE "drop", w,
                       Head(queue[w]))
    /\ UNCHANGED <<counters, closed, failed, socketOpen, usedBytes, thread, history>>

AbortDrain(c) ==
    LET w == closer[c].writer IN
    /\ closer[c].at = "drain"
    /\ IF queue[w] = <<>>
          THEN /\ queue' = [queue EXCEPT ![w] = <<Stop>>]
               /\ Move(c, "done", w, Stop)
          ELSE /\ queue' = [queue EXCEPT ![w] = Tail(@)]
               /\ Move(c, IF Head(queue[w]) = Stop THEN "drain" ELSE "drop", w,
                       Head(queue[w]))
    /\ UNCHANGED <<counters, closed, failed, socketOpen, usedBytes, thread, history>>

AbortComplete(c) ==
    /\ closer[c].at = "drop"
    /\ Uncount(closer[c].writer, closer[c].frame)
    /\ Move(c, "dropRelease", closer[c].writer, closer[c].frame)
    /\ UNCHANGED <<queue, closed, failed, socketOpen, usedBytes, thread, history>>

AbortRelease(c) ==
    /\ closer[c].at = "dropRelease"
    /\ Release(closer[c].frame)
    /\ Move(c, "drain", closer[c].writer, Stop)
    /\ UNCHANGED <<queue, counters, closed, failed, socketOpen, thread, history>>

----------------------------------------------------------------------------
Thread(w) == \/ Get(w) \/ Complete(w) \/ ReleaseBudget(w) \/ Fail(w)
             \/ Drain(w) \/ DrainComplete(w) \/ DrainRelease(w)
             \/ ~socketOpen[w] /\ SendAllFails(w)

Closer(c) == \/ ClosePutStop(c) \/ CloseJoined(c) \/ AbortDrain(c)
             \/ AbortComplete(c) \/ AbortRelease(c)
             \/ \E w \in Writers : closer[c].at = "join" /\ Abort(c, w)

Next ==
    \/ \E w \in Writers :
          \/ Thread(w) \/ SendAll(w) \/ SendAllFails(w)
          \/ \E f \in Frames : Send(w, f)
          \/ \E c \in Closers : Close(c, w) \/ Abort(c, w)
    \/ \E c \in Closers : Closer(c)

\* Threads run, a send on a closed socket fails, and the timeout of a join
\* expires; a peer need not read, so that sendall may block for ever.
Fairness == /\ \A w \in Writers : WF_vars(Thread(w))
            /\ \A c \in Closers : WF_vars(Closer(c))

Spec == Init /\ [][Next]_vars /\ Fairness

----------------------------------------------------------------------------
(* Every variable keeps its shape.                                          *)
TypeOK ==
    /\ queue \in [Writers -> Seq(Frames \cup {Stop})]
    /\ queuedBytes \in [Writers -> Int]
    /\ pendingWrites \in [Writers -> Int]
    /\ {closed, failed, socketOpen} \subseteq [Writers -> BOOLEAN]
    /\ usedBytes \in Nat
    /\ thread \in [Writers -> [
          at : {"get", "send", "sent", "unsent", "release", "releaseFail", "fail",
                "drain", "drop", "dropRelease", "ended"},
          writer : Writers, frame : Frames \cup {Stop}]]
    /\ closer \in [Closers -> [
          at : {"idle", "stop", "join", "drain", "drop", "dropRelease", "done"},
          writer : Writers \cup {NoWriter}, frame : Frames \cup {Stop}]]
    /\ {accepted, written} \subseteq [Writers -> Seq(Frames)]

\* The frames of w that are still in its counters: queued, or in the hands of
\* a thread that has yet to uncount them.
Uncompleted(w) ==
    (ToSet(queue[w]) \ {Stop})
        \cup {t.frame : t \in {x \in {thread[w]} \cup {closer[c] : c \in Closers} :
                  x.writer = w /\ x.at \in {"send", "sent", "unsent", "drop"}}}

\* The frames whose bytes some thread is about to give back to the budget.
Releasing(w) ==
    {t.frame : t \in {x \in {thread[w]} \cup {closer[c] : c \in Closers} :
        x.writer = w /\ x.at \in {"release", "releaseFail", "dropRelease"}}}

\* How many bytes these frames have, each of them its own.
BytesOf(F) == UNION {{f} \X (1..Size[f]) : f \in F}
Bytes(F) == Cardinality(BytesOf(F))

(* Every accepted frame is taken out of the writer's counters once, by the  *)
(* writer thread or by whoever drains the queue, also when an abort meets   *)
(* the thread in the middle of a write; nothing is counted twice.           *)
CountersExact ==
    \A w \in Writers : /\ pendingWrites[w] = Cardinality(Uncompleted(w))
                       /\ queuedBytes[w] = Bytes(Uncompleted(w))

(* The shared budget holds what the writers hold and no more: no byte leaks *)
(* when a connection is aborted, and none is given back twice, which the    *)
(* lower bound in release would hide.                                       *)
BudgetExact ==
    /\ usedBytes = Bytes(UNION {Uncompleted(w) \cup Releasing(w) : w \in Writers})
    /\ usedBytes <= MaxBytes

(* The socket sees the accepted frames in order without a gap. flush() says *)
(* True when no write is pending (transport.py:332-333): while the writer   *)
(* is open every accepted frame was then written, except that between the   *)
(* failure of a sendall and _fail (transport.py:384-386) the one frame that *)
(* it failed on is missing already and flush() does not know. A close()     *)
(* that needed no abort leaves nothing unwritten.                           *)
NothingDroppedSilently ==
    \A w \in Writers :
        /\ IsPrefix(written[w], accepted[w])
        /\ ~closed[w] /\ pendingWrites[w] = 0 =>
              \/ written[w] = accepted[w]
              \/ /\ thread[w].at \in {"releaseFail", "fail"}
                 /\ Len(accepted[w]) = Len(written[w]) + 1
        /\ thread[w].at = "ended" /\ ~failed[w] => written[w] = accepted[w]

(* A writer that was closed or aborted, by whatever threads, loses its own  *)
(* thread: none stays blocked on a queue that nobody fills.                 *)
ThreadEnds == \A w \in Writers : closed[w] ~> thread[w].at = "ended"

=============================================================================
