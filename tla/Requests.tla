------------------------------ MODULE Requests ------------------------------
(***************************************************************************)
(* The request/response machinery of socketflow, shared by the client and  *)
(* the server: the registry of pending responses, the request handles, the *)
(* shared timeout thread, the thread that reads replies from a connection, *)
(* the loss of a connection and the cancellation of a request.             *)
(*                                                                         *)
(* A request is addressed to one connection and has one data id; the key   *)
(* <<connection, data id>> is what PendingResponseRegistry._key builds (on *)
(* the client the owner is always None: one connection).                   *)
(*                                                                         *)
(* One action is what a thread does between two points where another       *)
(* thread can interfere: a block under a lock, or one call on a Future.    *)
(***************************************************************************)
EXTENDS Naturals, FiniteSets

CONSTANTS
    Requests,     \* one member per call of send_async / send_client_async
    Conns,        \* the connections requests are addressed to
    DataIds,      \* data ids; callers may reuse one
    Timed,        \* the requests whose timeout is not None
    Cancellable,  \* the requests whose caller may call cancel() on the handle
    EarlyExpiry,  \* may a timeout run out between creating and registering?
    MayShutdown,  \* may the timeout scheduler be shut down?
    NoRequest     \* "no request", Python's None

ASSUME RequestsAssumption ==
    /\ Timed \subseteq Requests
    /\ Cancellable \subseteq Requests
    /\ EarlyExpiry \in BOOLEAN
    /\ MayShutdown \in BOOLEAN
    /\ NoRequest \notin Requests

Keys == Conns \X DataIds

VARIABLES
    key,        \* the connection and data id each request is made with
    pc,         \* where the calling thread of each request is
    future,     \* the concurrent.futures.Future inside the handle
    reply,      \* the key of the reply that resolved the future
    responses,  \* PendingResponseRegistry._responses
    entry,      \* does RequestHandle._entry hold a scheduled deadline?
    deadlines,  \* TimeoutScheduler._deadlines
    cancelled,  \* TimeoutScheduler._cancelled
    stopped,    \* TimeoutScheduler._stopped
    timer,      \* the timeout thread
    reader,     \* the reader of each connection
    loss,       \* handle_connection_lost of each connection
    drained     \* what the loss handler took out of the registry, unsettled

callerVars   == <<key, pc>>
scheduleVars == <<entry, deadlines, cancelled, stopped>>
vars == <<callerVars, future, reply, responses, scheduleVars, timer, reader,
          loss, drained>>

CallerPCs == {"idle", "create", "add", "send", "returned", "unregister",
              "settle", "ended"}
Outcomes  == {"result", "timeout", "lost", "cancelled"}
NoKey     == <<>>

\* A thread's position and the request it has in hand.
At(place, r) == [at |-> place, req |-> r]

Init ==
    /\ key \in [Requests -> Keys]
    /\ pc = [r \in Requests |-> "idle"]
    /\ future = [r \in Requests |-> "none"]
    /\ reply = [r \in Requests |-> NoKey]
    /\ responses = [k \in Keys |-> NoRequest]
    /\ entry = [r \in Requests |-> FALSE]
    /\ deadlines = {}
    /\ cancelled = {}
    /\ stopped = FALSE
    /\ timer = At("wait", NoRequest)
    /\ reader = [c \in Conns |-> At("read", NoRequest)]
    /\ loss = [c \in Conns |-> At("up", NoRequest)]
    /\ drained = [c \in Conns |-> {}]

----------------------------------------------------------------------------
(* The objects the threads share.                                          *)

Conn(r)       == key[r][1]
Registered(r) == responses[key[r]] = r
Pending(r)    == future[r] = "pending"

\* Mutants of remove: the test that the handle is the registered one is
\* dropped; the cancel and timeout callbacks are not given.
RemoveAnyHandle(r) == responses' = [responses EXCEPT ![key[r]] = NoRequest]
RemoveNothing(r)   == responses' = responses

\* PendingResponseRegistry.remove: only the very same handle is taken out.
Unregister(r) ==
    responses' = IF Registered(r) THEN [responses EXCEPT ![key[r]] = NoRequest]
                                  ELSE responses

\* TimeoutScheduler.cancel: the token is marked, the entry stays in the heap.
CancelEntry(r) ==
    cancelled' = IF entry[r] THEN cancelled \cup {r} ELSE cancelled

\* Future.set_result, set_exception, cancel: only a pending future changes.
Settle(r, outcome) ==
    future' = IF Pending(r) THEN [future EXCEPT ![r] = outcome] ELSE future

Goto(r, place) == pc' = [pc EXCEPT ![r] = place]

\* RequestHandle.cancel begins with a test of done().
BeginCancel(r) == Goto(r, IF Pending(r) THEN "unregister" ELSE "ended")

----------------------------------------------------------------------------
(* The calling thread of a request: send_async / send_client_async.        *)

CheckConnected(r) ==
    /\ pc[r] = "idle"
    /\ Goto(r, IF loss[Conn(r)].at = "up" THEN "create" ELSE "ended")
    /\ UNCHANGED <<key, future, reply, responses, scheduleVars, timer, reader,
                   loss, drained>>

\* RequestHandle(...): the deadline is scheduled in the constructor, before
\* the handle is registered.
NewHandle(r) ==
    /\ pc[r] = "create"
    /\ future' = [future EXCEPT ![r] = "pending"]
    /\ entry' = [entry EXCEPT ![r] = r \in Timed /\ ~stopped]
    /\ deadlines' = IF entry'[r] THEN deadlines \cup {r} ELSE deadlines
    /\ Goto(r, "add")
    /\ UNCHANGED <<key, reply, responses, cancelled, stopped, timer, reader,
                   loss, drained>>

\* Mutant: a duplicate data id replaces the request that is waiting.
AddOverwrites(r) ==
    /\ pc[r] = "add"
    /\ responses' = [responses EXCEPT ![key[r]] = r]
    /\ Goto(r, "send")
    /\ UNCHANGED <<key, future, reply, scheduleVars, timer, reader, loss,
                   drained>>

\* pending_responses.add: a key that is taken raises ValueError, and the new
\* handle is cancelled.
Add(r) ==
    /\ pc[r] = "add"
    /\ IF responses[key[r]] = NoRequest
          THEN responses' = [responses EXCEPT ![key[r]] = r] /\ Goto(r, "send")
          ELSE responses' = responses /\ BeginCancel(r)
    /\ UNCHANGED <<key, future, reply, scheduleVars, timer, reader, loss,
                   drained>>

\* protocol.send_data: the writer refuses a frame when its queue is full, and
\* every frame once the connection is closed.
SendData(r) ==
    /\ pc[r] = "send"
    /\ \/ loss[Conn(r)].at # "closed" /\ Goto(r, "returned")
       \/ BeginCancel(r)
    /\ UNCHANGED <<key, future, reply, responses, scheduleVars, timer, reader,
                   loss, drained>>

----------------------------------------------------------------------------
(* RequestHandle.cancel, called by send_async on a failure, by send when    *)
(* its wait ends, or by the application.                                    *)

\* Mutant: the timer is cancelled first.
UserCancelTimerFirst(r) ==
    /\ pc[r] = "returned"
    /\ r \in Cancellable
    /\ CancelEntry(r)
    /\ BeginCancel(r)
    /\ UNCHANGED <<key, future, reply, responses, entry, deadlines, stopped,
                   timer, reader, loss, drained>>

UserCancel(r) ==
    /\ pc[r] = "returned"
    /\ r \in Cancellable
    /\ BeginCancel(r)
    /\ UNCHANGED <<key, future, reply, responses, scheduleVars, timer, reader,
                   loss, drained>>

CancelUnregister(r) ==
    /\ pc[r] = "unregister"
    /\ Unregister(r)
    /\ Goto(r, "settle")
    /\ UNCHANGED <<key, future, reply, scheduleVars, timer, reader, loss,
                   drained>>

\* The timer is cancelled, then the future; the first only stops a deadline
\* that would find nothing to remove.
CancelFuture(r) ==
    /\ pc[r] = "settle"
    /\ CancelEntry(r)
    /\ Settle(r, "cancelled")
    /\ Goto(r, "ended")
    /\ UNCHANGED <<key, reply, responses, entry, deadlines, stopped, timer,
                   reader, loss, drained>>

----------------------------------------------------------------------------
(* The timeout thread: TimeoutScheduler._run and RequestHandle._on_timeout. *)

\* The order of the heap is left out: any entry may be the next one due.
TimerDiscard(r) ==
    /\ timer.at = "wait"
    /\ ~stopped
    /\ r \in deadlines \cap cancelled
    /\ deadlines' = deadlines \ {r}
    /\ cancelled' = cancelled \ {r}
    /\ UNCHANGED <<callerVars, future, reply, responses, entry, stopped, timer,
                   reader, loss, drained>>

TimerExpire(r) ==
    /\ timer.at = "wait"
    /\ ~stopped
    /\ r \in deadlines \ cancelled
    /\ EarlyExpiry \/ pc[r] # "add"
    /\ deadlines' = deadlines \ {r}
    /\ timer' = At("remove", r)
    /\ UNCHANGED <<callerVars, future, reply, responses, entry, cancelled,
                   stopped, reader, loss, drained>>

\* Mutant: an expired request leaves the registry without an outcome.
TimerRemoveSilently ==
    /\ timer.at = "remove"
    /\ Unregister(timer.req)
    /\ timer' = At("wait", NoRequest)
    /\ UNCHANGED <<callerVars, future, reply, scheduleVars, reader, loss,
                   drained>>

TimerRemove ==
    /\ timer.at = "remove"
    /\ Unregister(timer.req)
    /\ timer' = IF Registered(timer.req) THEN At("set", timer.req)
                                         ELSE At("wait", NoRequest)
    /\ UNCHANGED <<callerVars, future, reply, scheduleVars, reader, loss,
                   drained>>

\* An InvalidStateError here is swallowed by _run: one step.
TimerSet ==
    /\ timer.at = "set"
    /\ Settle(timer.req, "timeout")
    /\ timer' = At("wait", NoRequest)
    /\ UNCHANGED <<callerVars, reply, responses, scheduleVars, reader, loss,
                   drained>>

\* TimeoutScheduler.shutdown, called once the connections have been given up.
SchedulerShutdown ==
    /\ MayShutdown
    /\ ~stopped
    /\ \A c \in Conns : loss[c].at # "up"
    /\ stopped' = TRUE
    /\ deadlines' = {}
    /\ cancelled' = {}
    /\ UNCHANGED <<callerVars, future, reply, responses, entry, timer, reader,
                   loss, drained>>

----------------------------------------------------------------------------
(* The reader of a connection: the reply branch of handle_data.            *)

\* Mutants of pop: the handle is looked up and stays; the owner is not part of
\* the key; the result None is not told apart.
PopInto(c, handle) ==
    /\ reader[c].at = "read"
    /\ reader' = [reader EXCEPT ![c] = At("check", handle)]
    /\ UNCHANGED <<callerVars, future, scheduleVars, timer, loss, drained>>

ReaderGets(c, d) ==
    /\ responses[<<c, d>>] # NoRequest
    /\ PopInto(c, responses[<<c, d>>])
    /\ reply' = [reply EXCEPT ![responses[<<c, d>>]] = <<c, d>>]
    /\ responses' = responses

ReaderPopsAnyOwner(c, d) ==
    \E b \in Conns :
        /\ responses[<<b, d>>] # NoRequest
        /\ PopInto(c, responses[<<b, d>>])
        /\ reply' = [reply EXCEPT ![responses[<<b, d>>]] = <<c, d>>]
        /\ responses' = [responses EXCEPT ![<<b, d>>] = NoRequest]

ReaderPopsNone(c, d) ==
    /\ PopInto(c, responses[<<c, d>>])
    /\ responses' = [responses EXCEPT ![<<c, d>>] = NoRequest]
    /\ reply' = reply

\* A message with data id d arrives. When no handle waits for it, it goes to
\* the dispatcher, which is not part of this module.
ReaderPop(c, d) ==
    /\ reader[c].at = "read"
    /\ responses[<<c, d>>] # NoRequest
    /\ reader' = [reader EXCEPT ![c] = At("check", responses[<<c, d>>])]
    /\ responses' = [responses EXCEPT ![<<c, d>>] = NoRequest]
    /\ reply' = [reply EXCEPT ![responses[<<c, d>>]] = <<c, d>>]
    /\ UNCHANGED <<callerVars, future, scheduleVars, timer, loss, drained>>

\* The two tests of done() and the cancelling of the timer in set_result are
\* one step: whoever settles the handle in between cancels that timer as well.
ReaderCheck(c) ==
    /\ reader[c].at = "check"
    /\ IF Pending(reader[c].req)
          THEN /\ CancelEntry(reader[c].req)
               /\ reader' = [reader EXCEPT ![c] = At("set", reader[c].req)]
          ELSE /\ cancelled' = cancelled
               /\ reader' = [reader EXCEPT ![c] = At("read", NoRequest)]
    /\ UNCHANGED <<callerVars, future, reply, responses, entry, deadlines,
                   stopped, timer, loss, drained>>

\* The reader is over and calls handle_connection_lost, which returns at once
\* when another thread was there first.
EndReader(c) ==
    /\ reader' = [reader EXCEPT ![c] = At("ended", NoRequest)]
    /\ loss' = [loss EXCEPT ![c] = IF @.at = "up" THEN At("drain", NoRequest)
                                                  ELSE @]

\* Future.set_result raises InvalidStateError when the handle was cancelled
\* since the check; the exception ends the read loop.
ReaderSet(c) ==
    /\ reader[c].at = "set"
    /\ Settle(reader[c].req, "result")
    /\ IF Pending(reader[c].req)
          THEN /\ reader' = [reader EXCEPT ![c] = At("read", NoRequest)]
               /\ loss' = loss
          ELSE EndReader(c)
    /\ UNCHANGED <<callerVars, reply, responses, scheduleVars, timer, drained>>

\* End of file, an error, a keepalive timeout, or _connected found false.
ReaderStop(c) ==
    /\ reader[c].at = "read"
    /\ EndReader(c)
    /\ UNCHANGED <<callerVars, future, reply, responses, scheduleVars, timer,
                   drained>>

----------------------------------------------------------------------------
(* handle_connection_lost: who sets the event drains the registry.         *)

\* Another thread disconnects: disconnect, disconnect_client, stop.
LossBegin(c) ==
    /\ loss[c].at = "up"
    /\ loss' = [loss EXCEPT ![c] = At("drain", NoRequest)]
    /\ UNCHANGED <<callerVars, future, reply, responses, scheduleVars, timer,
                   reader, drained>>

\* Mutant: the registry is cleared, the handles are not failed.
LossClears(c) ==
    /\ loss[c].at = "drain"
    /\ responses' = [k \in Keys |-> IF k[1] = c THEN NoRequest ELSE responses[k]]
    /\ loss' = [loss EXCEPT ![c] = At("next", NoRequest)]
    /\ UNCHANGED <<callerVars, future, reply, scheduleVars, timer, reader, drained>>

LossDrain(c) ==
    /\ loss[c].at = "drain"
    /\ drained' = [drained EXCEPT ![c] =
                     {responses[k] : k \in {c} \X DataIds} \ {NoRequest}]
    /\ responses' = [k \in Keys |-> IF k[1] = c THEN NoRequest ELSE responses[k]]
    /\ loss' = [loss EXCEPT ![c] = At("next", NoRequest)]
    /\ UNCHANGED <<callerVars, future, reply, scheduleVars, timer, reader>>

\* done() and set_exception up to its own test of done(), as in ReaderCheck.
LossNext(c, r) ==
    /\ loss[c].at = "next"
    /\ r \in drained[c]
    /\ drained' = [drained EXCEPT ![c] = @ \ {r}]
    /\ IF Pending(r) THEN CancelEntry(r) /\ loss' = [loss EXCEPT ![c] = At("set", r)]
                     ELSE cancelled' = cancelled /\ loss' = loss
    /\ UNCHANGED <<callerVars, future, reply, responses, entry, deadlines,
                   stopped, timer, reader>>

\* Future.set_exception raises InvalidStateError when the handle was cancelled
\* since the check; nothing catches it, and the rest of the batch is dropped.
LossSet(c) ==
    /\ loss[c].at = "set"
    /\ Settle(loss[c].req, "lost")
    /\ loss' = [loss EXCEPT ![c] =
                  At(IF Pending(loss[c].req) THEN "next" ELSE "crashed",
                     NoRequest)]
    /\ UNCHANGED <<callerVars, reply, responses, scheduleVars, timer, reader,
                   drained>>

\* DISCONNECT is emitted, the writer aborted, the socket closed.
LossClose(c) ==
    /\ loss[c].at = "next"
    /\ drained[c] = {}
    /\ loss' = [loss EXCEPT ![c] = At("closed", NoRequest)]
    /\ UNCHANGED <<callerVars, future, reply, responses, scheduleVars, timer,
                   reader, drained>>

----------------------------------------------------------------------------
Caller(r) ==
    \/ CheckConnected(r) \/ NewHandle(r) \/ Add(r) \/ SendData(r)
    \/ CancelUnregister(r) \/ CancelFuture(r)

Timer == \/ \E r \in Requests : TimerDiscard(r) \/ TimerExpire(r)
         \/ TimerRemove
         \/ TimerSet

Reader(c) == ReaderCheck(c) \/ ReaderSet(c)

Loss(c) ==
    \/ LossDrain(c) \/ LossSet(c) \/ LossClose(c)
    \/ \E r \in Requests : LossNext(c, r)

Next ==
    \/ \E r \in Requests : Caller(r) \/ UserCancel(r)
    \/ Timer
    \/ SchedulerShutdown
    \/ \E c \in Conns :
          \/ Reader(c) \/ ReaderStop(c)
          \/ \E d \in DataIds : ReaderPop(c, d)
          \/ LossBegin(c) \/ Loss(c)

(* Threads keep running and the clock advances, so that every thread that   *)
(* can take a step takes one; nothing makes a peer answer, a caller cancel, *)
(* or a connection fail.                                                   *)
Fairness ==
    /\ \A r \in Requests : WF_vars(Caller(r))
    /\ WF_vars(Timer)
    /\ \A c \in Conns :
          /\ WF_vars(Reader(c))
          /\ WF_vars(Loss(c))

Spec == Init /\ [][Next]_vars /\ Fairness

----------------------------------------------------------------------------
\* A thread has a request in hand at its busy places, and at no other.
Hands(resting, busy) ==
    [at : resting, req : {NoRequest}] \cup [at : busy, req : Requests]

TimerHands  == Hands({"wait"}, {"remove", "set"})
ReaderHands == Hands({"read", "ended"}, {"check", "set"})
LossHands   == Hands({"up", "drain", "next", "crashed", "closed"}, {"set"})

(* Every variable keeps its shape, and no thread is at a place where it     *)
(* uses a request without having one.                                       *)
TypeOK ==
    /\ key \in [Requests -> Keys]
    /\ pc \in [Requests -> CallerPCs]
    /\ future \in [Requests -> {"none", "pending"} \cup Outcomes]
    /\ reply \in [Requests -> Keys \cup {NoKey}]
    /\ responses \in [Keys -> Requests \cup {NoRequest}]
    /\ entry \in [Requests -> BOOLEAN]
    /\ deadlines \subseteq Requests
    /\ cancelled \subseteq Requests
    /\ stopped \in BOOLEAN
    /\ timer \in TimerHands
    /\ reader \in [Conns -> ReaderHands]
    /\ loss \in [Conns -> LossHands]
    /\ drained \in [Conns -> SUBSET Requests]

\* The threads that took r out of the registry and have yet to settle it.
TimerHolds(r)     == timer = At("set", r)
ReaderHolds(c, r) == reader[c].req = r
LossHolds(c, r)   == loss[c].req = r \/ r \in drained[c]

(* A handle found in the registry has not been settled: whoever settles a   *)
(* handle (reply, timeout, loss, cancellation) has taken it out first, so a *)
(* reply is never matched with a request that is over.                      *)
PendingWhileRegistered ==
    \A k \in Keys : responses[k] # NoRequest =>
        /\ future[responses[k]] = "pending"
        /\ key[responses[k]] = k

(* A handle is taken out of the registry by one thread only: the timeout    *)
(* thread, a reader and a loss handler never have the same request in hand, *)
(* and none has one that is still registered.                               *)
OneHolder ==
    \A r \in Requests :
        /\ TimerHolds(r) => \A c \in Conns : ~ReaderHolds(c, r) /\ ~LossHolds(c, r)
        /\ \A c \in Conns : ReaderHolds(c, r) =>
              \A b \in Conns : ~LossHolds(b, r) /\ (ReaderHolds(b, r) => b = c)
        /\ \A c \in Conns : LossHolds(c, r) => c = Conn(r) /\ ~Registered(r)
        /\ TimerHolds(r) \/ (\E c \in Conns : ReaderHolds(c, r)) => ~Registered(r)

(* A request is resolved only by a reply that came on its own connection    *)
(* with its own data id.                                                    *)
ReplyMatches ==
    \A r \in Requests : future[r] = "result" => reply[r] = key[r]

(* No pending request is forgotten: a request that was registered and is    *)
(* not settled is in the registry, or in the hands of a thread that will    *)
(* settle it, or being cancelled, unless the loss handler of its connection *)
(* was stopped by an InvalidStateError.                                     *)
AccountedFor ==
    \A r \in Requests : pc[r] \in {"send", "returned"} /\ Pending(r) =>
        \/ Registered(r)
        \/ TimerHolds(r)
        \/ \E c \in Conns : ReaderHolds(c, r)
        \/ LossHolds(Conn(r), r)
        \/ loss[Conn(r)].at = "crashed"

(* A registered request whose timer is running cannot be one whose timer    *)
(* was cancelled: the timeout thread never discards the only timer of a     *)
(* request that is still waiting.                                           *)
TimerNotDisarmed ==
    \A r \in Requests : Registered(r) => r \notin cancelled

(* A failed attempt to reuse a data id never takes the first request out of *)
(* the registry: a handle leaves it only for its own sake.                  *)
DuplicateKeepsOriginal ==
    [][\A k \in Keys :
         LET r == responses[k] IN
         r # NoRequest /\ responses'[k] # r =>
            \/ pc[r] = "unregister" /\ pc'[r] = "settle"
            \/ timer'= At("set", r)
            \/ \E c \in Conns : reader'[c].req = r \/ r \in drained'[c]
      ]_vars

\* How far a request is, as its caller sees it.
Status == [r \in Requests |->
    IF future[r] \in Outcomes THEN future[r]
    ELSE IF future[r] = "none" \/ pc[r] = "add" THEN "new"
    ELSE IF Registered(r) THEN "open" ELSE "closing"]

Contract == INSTANCE RequestContract WITH status <- Status

(* The threads of this module together keep the contract of send_async: a   *)
(* key has one open request, and a request is closed once, before it gets   *)
(* its only outcome.                                                        *)
KeepsContract == Contract!Spec

\* The deadline was met by the timeout thread before the handle was registered.
TimerMissed(r) ==
    entry[r] /\ Registered(r) /\ r \notin deadlines /\ timer.req # r

(* A request that carries a timeout is settled in the end, except for the   *)
(* three ways in which the code loses it: its timer ran out before it was   *)
(* registered, an InvalidStateError stopped the loss handler, the scheduler *)
(* was shut down.                                                           *)
SettledUnlessLostTrack ==
    \A r \in Timed :
        (pc[r] = "returned") ~>
            (~Pending(r) \/ TimerMissed(r) \/ loss[Conn(r)].at = "crashed"
                \/ stopped)

(* README.md:121-122: "raises NoResponse once wait_response_timeout expires *)
(* rather than hanging forever".                                            *)
NeverHangs == \A r \in Timed : (pc[r] = "returned") ~> ~Pending(r)

=============================================================================
