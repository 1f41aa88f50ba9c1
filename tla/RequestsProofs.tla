--------------------------- MODULE RequestsProofs ---------------------------
(***************************************************************************)
(* The safety invariants of Requests, for any number of requests,          *)
(* connections and data ids. Inv is the inductive invariant: besides the   *)
(* properties of Requests it says where the caller of a request can be     *)
(* when the request is registered or in some thread's hands.               *)
(***************************************************************************)
EXTENDS Requests, TLAPS

\* Some thread took r out of the registry and has yet to settle it.
Held(r) == \/ TimerHolds(r)
           \/ \E c \in Conns : ReaderHolds(c, r) \/ LossHolds(c, r)

\* A registered handle waits under its own key, its timer not cancelled, and
\* its caller has not come to settling it.
RegistryInv ==
    \A k \in Keys : responses[k] # NoRequest =>
        /\ key[responses[k]] = k
        /\ future[responses[k]] = "pending"
        /\ pc[responses[k]] \in {"send", "returned", "unregister"}
        /\ responses[k] \notin cancelled

\* Nobody but the caller knows a handle that was not registered yet, except
\* the timeout thread, which finds nothing to remove.
NewInv ==
    \A r \in Requests : pc[r] \in {"idle", "create", "add"} =>
        /\ r \notin cancelled
        /\ ~Held(r)
        /\ IF pc[r] = "add" THEN Pending(r) ELSE future[r] = "none"

\* Before it drains the registry a loss handler has nothing in hand.
DrainInv == \A c \in Conns : loss[c].at \in {"up", "drain"} => drained[c] = {}

\* The reader has the request that the reply in hand answers.
ReplyInv ==
    /\ \A r \in Requests, c \in Conns : ReaderHolds(c, r) => reply[r] = key[r]
    /\ ReplyMatches

Inv == /\ TypeOK /\ RegistryInv /\ NewInv /\ DrainInv /\ OneHolder
       /\ ReplyInv /\ AccountedFor

----------------------------------------------------------------------------
(* Every variable keeps its shape: the threads only ever put requests of    *)
(* this system into the registry, the heap and each other's hands.          *)

\* Every variable has its shape when the first request is about to be made.
LEMMA TypeInit == Init => TypeOK
  <1> SUFFICES ASSUME Init PROVE TypeOK
    OBVIOUS
  <1>1. timer \in TimerHands /\ reader \in [Conns -> ReaderHands]
    BY DEF Init, At, Hands, TimerHands, ReaderHands
  <1>2. loss \in [Conns -> LossHands]
    BY DEF Init, At, Hands, LossHands
  <1> QED
    BY <1>1, <1>2 DEF Init, TypeOK, CallerPCs

\* No step of a caller, the timeout thread, a reader or a loss handler takes a
\* variable out of its shape.
LEMMA TypeStep == TypeOK /\ [Next]_vars => TypeOK'
  <1> SUFFICES ASSUME TypeOK, [Next]_vars PROVE TypeOK'
    OBVIOUS
  <1> USE DEF TypeOK, CallerPCs, Outcomes, At, Goto, NoKey, Hands, TimerHands,
             ReaderHands, LossHands
  <1>1. ASSUME NEW r \in Requests, CheckConnected(r) PROVE TypeOK'
    BY <1>1 DEF CheckConnected, Conn, callerVars, scheduleVars
  <1>2. ASSUME NEW r \in Requests, NewHandle(r) PROVE TypeOK'
    BY <1>2 DEF NewHandle, callerVars, scheduleVars
  <1>3. ASSUME NEW r \in Requests, Add(r) PROVE TypeOK'
    <2>1. CASE responses[key[r]] = NoRequest
      BY <1>3, <2>1 DEF Add, callerVars, scheduleVars
    <2>2. CASE responses[key[r]] # NoRequest
      BY <1>3, <2>2 DEF Add, BeginCancel, Pending, callerVars, scheduleVars
    <2> QED
      BY <2>1, <2>2
  <1>4. ASSUME NEW r \in Requests, SendData(r) PROVE TypeOK'
    BY <1>4 DEF SendData, Conn, BeginCancel, Pending, callerVars, scheduleVars
  <1>5. ASSUME NEW r \in Requests, UserCancel(r) PROVE TypeOK'
    BY <1>5 DEF UserCancel, BeginCancel, Pending, callerVars, scheduleVars
  <1>6. ASSUME NEW r \in Requests, CancelUnregister(r) PROVE TypeOK'
    BY <1>6
       DEF CancelUnregister, Unregister, Registered, callerVars, scheduleVars
  <1>7. ASSUME NEW r \in Requests, CancelFuture(r) PROVE TypeOK'
    BY <1>7
       DEF CancelFuture, CancelEntry, Settle, Pending, callerVars, scheduleVars
  <1>8. ASSUME NEW r \in Requests, TimerDiscard(r) PROVE TypeOK'
    BY <1>8 DEF TimerDiscard, callerVars, scheduleVars
  <1>9. ASSUME NEW r \in Requests, TimerExpire(r) PROVE TypeOK'
    BY <1>9 DEF TimerExpire, callerVars, scheduleVars
  <1>10. CASE TimerRemove
    BY <1>10 DEF TimerRemove, Unregister, Registered, callerVars, scheduleVars
  <1>11. CASE TimerSet
    BY <1>11 DEF TimerSet, Settle, Pending, callerVars, scheduleVars
  <1>12. CASE SchedulerShutdown
    BY <1>12 DEF SchedulerShutdown, callerVars, scheduleVars
  <1>13. ASSUME NEW c \in Conns, NEW d \in DataIds, ReaderPop(c, d)
         PROVE  TypeOK'
    BY <1>13 DEF ReaderPop, Keys, callerVars, scheduleVars
  <1>14. ASSUME NEW c \in Conns, ReaderCheck(c) PROVE TypeOK'
    <2>1. reader' \in [Conns -> ReaderHands]
      BY <1>14 DEF ReaderCheck
    <2>2. cancelled' \subseteq Requests
      BY <1>14, RequestsAssumption DEF ReaderCheck, CancelEntry
    <2> QED
      BY <1>14, <2>1, <2>2 DEF ReaderCheck, callerVars
  <1>15. ASSUME NEW c \in Conns, ReaderSet(c) PROVE TypeOK'
    <2>1. reader' \in [Conns -> ReaderHands] /\ loss' \in [Conns -> LossHands]
      BY <1>15 DEF ReaderSet, EndReader
    <2>2. future' \in [Requests -> {"none", "pending"} \cup Outcomes]
      BY <1>15 DEF ReaderSet, Settle
    <2> QED
      BY <1>15, <2>1, <2>2 DEF ReaderSet, callerVars, scheduleVars
  <1>16. ASSUME NEW c \in Conns, ReaderStop(c) PROVE TypeOK'
    BY <1>16 DEF ReaderStop, EndReader, callerVars, scheduleVars
  <1>17. ASSUME NEW c \in Conns, LossBegin(c) PROVE TypeOK'
    BY <1>17 DEF LossBegin, callerVars, scheduleVars
  <1>18. ASSUME NEW c \in Conns, LossDrain(c) PROVE TypeOK'
    BY <1>18 DEF LossDrain, Keys, callerVars, scheduleVars
  <1>19. ASSUME NEW c \in Conns, LossSet(c) PROVE TypeOK'
    BY <1>19 DEF LossSet, Settle, Pending, callerVars, scheduleVars
  <1>20. ASSUME NEW c \in Conns, LossClose(c) PROVE TypeOK'
    BY <1>20 DEF LossClose, callerVars, scheduleVars
  <1>21. ASSUME NEW c \in Conns, NEW r \in Requests, LossNext(c, r)
         PROVE  TypeOK'
    BY <1>21 DEF LossNext, CancelEntry, Pending, callerVars, scheduleVars
  <1>22. CASE UNCHANGED vars
    BY <1>22 DEF vars, callerVars, scheduleVars
  <1> QED
    BY <1>1, <1>2, <1>3, <1>4, <1>5, <1>6, <1>7, <1>8, <1>9, <1>10, <1>11,
       <1>12, <1>13, <1>14, <1>15, <1>16, <1>17, <1>18, <1>19, <1>20, <1>21, <1>22
       DEF Next, Caller, Timer, Reader, Loss

----------------------------------------------------------------------------
(* What the steps of a reader and of a loss handler do to the requests that *)
(* threads have in hand.                                                    *)

\* Nobody's hands change, but for the reader of c, which may let go of its
\* request.
OnlyReleases(c) ==
    /\ \A r \in Requests : /\ Registered(r)' <=> Registered(r)
                           /\ TimerHolds(r)' <=> TimerHolds(r)
                           /\ Conn(r)' = Conn(r)
    /\ \A b \in Conns, r \in Requests :
          /\ LossHolds(b, r)' <=> LossHolds(b, r)
          /\ ReaderHolds(b, r)' => ReaderHolds(b, r)
          /\ ReaderHolds(b, r) => ReaderHolds(b, r)' \/ (b = c /\ ~Pending(r)')

\* ReaderCheck (handle_data's test of done()) lets go of a settled request only.
LEMMA ReaderCheckReleases ==
    ASSUME TypeOK, NEW c \in Conns, ReaderCheck(c) PROVE OnlyReleases(c)
  <1>1. UNCHANGED <<key, future, responses, timer, loss, drained>>
    BY DEF ReaderCheck, callerVars
  <1>2. \A b \in Conns \ {c} : reader'[b] = reader[b]
    BY DEF TypeOK, ReaderCheck
  <1>3. \/ reader'[c].req = reader[c].req
        \/ reader'[c].req = NoRequest /\ future[reader[c].req] # "pending"
    BY DEF TypeOK, ReaderCheck, Pending, At
  <1> QED
    BY <1>1, <1>2, <1>3, RequestsAssumption
       DEF OnlyReleases, Registered, TimerHolds, Conn, LossHolds, ReaderHolds,
           At, Pending

\* ReaderSet (RequestHandle.set_result) settles the request in hand and lets go
\* of it, also when it is too late and ends the reader.
LEMMA ReaderSetReleases ==
    ASSUME TypeOK, NEW c \in Conns, ReaderSet(c)
    PROVE  /\ OnlyReleases(c)
           /\ reader[c].req \in Requests
           /\ reader'[c].req = NoRequest
           /\ future' \in {future, [future EXCEPT ![reader[c].req] = "result"]}
           /\ \A b \in Conns : loss[b].at = "crashed" => loss'[b].at = "crashed"
  <1>1. /\ UNCHANGED <<key, responses, timer, drained>>
        /\ reader[c].req \in Requests
    BY DEF ReaderSet, callerVars, TypeOK, Hands, ReaderHands
  <1>2. /\ \A b \in Conns \ {c} : reader'[b] = reader[b]
        /\ reader'[c].req = NoRequest
        /\ \A b \in Conns : /\ loss'[b].req = loss[b].req
                            /\ loss[b].at = "crashed" => loss'[b].at = "crashed"
    BY DEF ReaderSet, EndReader, TypeOK, Hands, LossHands, At
  <1>3. future' \in {future, [future EXCEPT ![reader[c].req] = "result"]}
    BY DEF ReaderSet, Settle
  <1>4. future'[reader[c].req] # "pending"
    <2>1. CASE future[reader[c].req] = "pending"
      BY <1>1, <2>1 DEF ReaderSet, Settle, Pending, TypeOK
    <2>2. CASE future[reader[c].req] # "pending"
      BY <1>1, <2>2 DEF ReaderSet, Settle, Pending, TypeOK
    <2> QED
      BY <2>1, <2>2
  <1> QED
    BY <1>1, <1>2, <1>3, <1>4, RequestsAssumption
       DEF OnlyReleases, Registered, TimerHolds, Conn, LossHolds, ReaderHolds,
           Pending

\* A reader that stops has no request in hand and disturbs no loss handler.
LEMMA ReaderStopReleases ==
    ASSUME TypeOK, NEW c \in Conns, ReaderStop(c)
    PROVE  /\ OnlyReleases(c)
           /\ \A b \in Conns : loss[b].at = "crashed" => loss'[b].at = "crashed"
  <1>1. UNCHANGED <<key, future, responses, timer, drained>>
    BY DEF ReaderStop, callerVars
  <1>2. \A b \in Conns : /\ reader'[b].req = reader[b].req
                         /\ loss'[b].req = loss[b].req
                         /\ loss[b].at = "crashed" => loss'[b].at = "crashed"
    BY DEF TypeOK, Hands, ReaderHands, LossHands, ReaderStop, EndReader, At
  <1> QED
    BY <1>1, <1>2
       DEF OnlyReleases, Registered, TimerHolds, Conn, LossHolds, ReaderHolds

\* PendingResponseRegistry.drain returns registered requests of its owner only.
LEMMA LossDrainTakesRegistered ==
    ASSUME TypeOK, RegistryInv, NEW c \in Conns, LossDrain(c)
    PROVE  /\ \A r \in drained'[c] : Registered(r) /\ r \in Requests /\ Conn(r) = c
           /\ \A b \in Conns \ {c} : drained'[b] = drained[b]
           /\ \A b \in Conns : loss'[b].req = loss[b].req
  <1>1. \A b \in Conns : loss'[b].req = loss[b].req
    BY DEF TypeOK, Hands, LossHands, LossDrain, At
  <1>2. \A b \in Conns \ {c} : drained'[b] = drained[b]
    BY DEF TypeOK, LossDrain
  <1>3. ASSUME NEW r \in drained'[c]
        PROVE  Registered(r) /\ r \in Requests /\ Conn(r) = c
    <2>1. PICK k \in {c} \X DataIds : r = responses[k] /\ r # NoRequest
      BY <1>3 DEF TypeOK, LossDrain
    <2>2. k \in Keys /\ k[1] = c
      BY <2>1 DEF Keys
    <2> QED
      BY <2>1, <2>2 DEF RegistryInv, Registered, Conn, TypeOK
  <1> QED
    BY <1>1, <1>2, <1>3

\* Settling a request in hand does not concern a request yet to be registered.
LEMMA ReaderSetKeepsNew ==
    ASSUME TypeOK, NewInv, NEW c \in Conns, ReaderSet(c) PROVE NewInv'
  <1>1. UNCHANGED <<pc, cancelled>>
    BY DEF ReaderSet, callerVars, scheduleVars
  <1>2. \A r \in Requests : Held(r)' => Held(r)
    BY ReaderSetReleases DEF OnlyReleases, Held
  <1>3. \A r \in Requests : future'[r] = future[r] \/ Held(r)
    BY ReaderSetReleases DEF TypeOK, Held, ReaderHolds
  <1> QED
    BY <1>1, <1>2, <1>3 DEF NewInv, Pending

\* Nor does cancelling the timer of a request in hand.
LEMMA ReaderCheckKeepsNew ==
    ASSUME TypeOK, NewInv, NEW c \in Conns, ReaderCheck(c) PROVE NewInv'
  <1>1. UNCHANGED <<pc, future>>
    BY DEF ReaderCheck, callerVars
  <1>2. \A r \in Requests : Held(r)' => Held(r)
    BY ReaderCheckReleases DEF OnlyReleases, Held
  <1>3. \A r \in Requests : r \in cancelled' => r \in cancelled \/ Held(r)
    BY DEF ReaderCheck, CancelEntry, Held, ReaderHolds
  <1> QED
    BY <1>1, <1>2, <1>3 DEF NewInv, Pending

\* A request that was not registered yet is not found by the timeout thread.
LEMMA TimerRemoveKeepsNew ==
    ASSUME TypeOK, RegistryInv, NewInv, TimerRemove PROVE NewInv'
  <1>1. UNCHANGED <<pc, future, cancelled, reader, loss, drained>>
    BY DEF TimerRemove, callerVars, scheduleVars
  <1>2. \A r \in Requests : TimerHolds(r)' => Registered(r)
    BY DEF TimerRemove, TimerHolds, Registered, At, TypeOK, Hands, TimerHands
  <1>3. \A r \in Requests : Held(r)' => Held(r) \/ Registered(r)
    BY <1>1, <1>2 DEF Held, ReaderHolds, LossHolds
  <1>4. \A r \in Requests :
            Registered(r) => pc[r] \in {"send", "returned", "unregister"}
    BY RequestsAssumption DEF RegistryInv, Registered, TypeOK
  <1> QED
    BY <1>1, <1>3, <1>4 DEF NewInv, Pending

\* Nor by a loss handler that drains the registry.
LEMMA LossDrainKeepsNew ==
    ASSUME TypeOK, RegistryInv, NewInv, NEW c \in Conns, LossDrain(c) PROVE NewInv'
  <1>1. UNCHANGED <<key, pc, future, cancelled, timer, reader>>
    BY DEF LossDrain, callerVars, scheduleVars
  <1>2. \A r \in Requests : Held(r)' => Held(r) \/ Registered(r)
    BY <1>1, LossDrainTakesRegistered
       DEF Held, TimerHolds, ReaderHolds, LossHolds
  <1>3. \A r \in Requests :
            Registered(r) => pc[r] \in {"send", "returned", "unregister"}
    BY RequestsAssumption DEF RegistryInv, Registered, TypeOK
  <1> QED
    BY <1>1, <1>2, <1>3 DEF NewInv, Pending

\* A reader gains no request by checking or settling the one it has.
LEMMA ReaderKeepsOneHolder ==
    ASSUME TypeOK, OneHolder, NEW c \in Conns, ReaderCheck(c) \/ ReaderSet(c)
    PROVE  OneHolder'
  <1>1. OnlyReleases(c)
    BY ReaderCheckReleases, ReaderSetReleases
  <1> QED
    BY <1>1 DEF OneHolder, OnlyReleases

\* A reader settles a request with the reply it took the request out for.
LEMMA ReaderKeepsReply ==
    ASSUME TypeOK, ReplyInv, NEW c \in Conns, ReaderCheck(c) \/ ReaderSet(c)
    PROVE  ReplyInv'
  <1>1. OnlyReleases(c)
    BY ReaderCheckReleases, ReaderSetReleases
  <1>2. UNCHANGED <<key, reply>>
    BY DEF ReaderCheck, ReaderSet, callerVars
  <1>3. \A r \in Requests :
            future'[r] = "result" => future[r] = "result" \/ ReaderHolds(c, r)
    BY ReaderSetReleases DEF ReaderCheck, TypeOK, ReaderHolds
  <1> QED
    BY <1>1, <1>2, <1>3 DEF ReplyInv, ReplyMatches, OnlyReleases

\* A request that a reply takes out of the registry is in the reader's hands.
LEMMA ReaderPopKeepsAccounted ==
    ASSUME TypeOK, RegistryInv, AccountedFor, NEW c \in Conns, NEW d \in DataIds,
           ReaderPop(c, d)
    PROVE  AccountedFor'
  <1>1. /\ UNCHANGED <<key, pc, future, timer, loss, drained>>
        /\ reader[c].req = NoRequest
    BY DEF ReaderPop, callerVars, TypeOK, Hands, ReaderHands
  <1>2. /\ \A b \in Conns \ {c} : reader'[b] = reader[b]
        /\ reader'[c].req = responses[<<c, d>>]
    BY DEF ReaderPop, TypeOK, At
  <1>3. \A r \in Requests : Registered(r) => Registered(r)' \/ ReaderHolds(c, r)'
    BY <1>1, <1>2 DEF ReaderPop, TypeOK, Registered, ReaderHolds
  <1>4. \A r \in Requests, b \in Conns : ReaderHolds(b, r) => ReaderHolds(b, r)'
    BY <1>1, <1>2, RequestsAssumption DEF ReaderHolds
  <1> QED
    BY <1>1, <1>3, <1>4
       DEF AccountedFor, Pending, TimerHolds, LossHolds, Conn

\* A reader lets go of no request that is still pending.
LEMMA ReaderKeepsAccounted ==
    ASSUME TypeOK, AccountedFor, NEW c \in Conns,
           ReaderCheck(c) \/ ReaderSet(c) \/ ReaderStop(c)
    PROVE  AccountedFor'
  <1>1. /\ OnlyReleases(c)
        /\ \A b \in Conns : loss[b].at = "crashed" => loss'[b].at = "crashed"
    <2>1. CASE ReaderCheck(c)
      BY <2>1, ReaderCheckReleases DEF ReaderCheck
    <2>2. CASE ReaderSet(c) \/ ReaderStop(c)
      BY <2>2, ReaderSetReleases, ReaderStopReleases
    <2> QED
      BY <2>1, <2>2
  <1>2. UNCHANGED <<key, pc>>
    BY DEF ReaderCheck, ReaderSet, ReaderStop, callerVars
  <1>3. \A r \in Requests : Pending(r)' => Pending(r)
    BY ReaderSetReleases DEF ReaderCheck, ReaderStop, TypeOK, Pending
  <1>4. \A r \in Requests : Conn(r) \in Conns
    BY DEF TypeOK, Keys, Conn
  <1>5. \A r \in Requests : LossHolds(Conn(r), r) => LossHolds(Conn(r), r)'
    BY <1>1, <1>4 DEF OnlyReleases
  <1> QED
    BY <1>1, <1>2, <1>3, <1>4, <1>5 DEF AccountedFor, OnlyReleases, Conn

\* PendingResponseRegistry.add registers the request or its caller cancels it.
LEMMA AddKeepsAccounted ==
    ASSUME TypeOK, AccountedFor, NEW r \in Requests, Add(r) PROVE AccountedFor'
  <1>1. UNCHANGED <<key, future, timer, reader, loss, drained>> /\ pc[r] = "add"
    BY DEF Add
  <1>2. /\ \A q \in Requests \ {r} : pc'[q] = pc[q]
        /\ pc'[r] \in {"send", "returned"} => Registered(r)'
    BY <1>1 DEF Add, BeginCancel, Goto, TypeOK, Registered
  <1>3. \A q \in Requests : Registered(q) => Registered(q)'
    BY <1>1, RequestsAssumption DEF Add, TypeOK, Registered
  <1> QED
    BY <1>1, <1>2, <1>3
       DEF AccountedFor, Pending, TimerHolds, ReaderHolds, LossHolds, Conn

\* The timeout thread lets go of a request when it is settled.
LEMMA TimerSetKeepsAccounted ==
    ASSUME TypeOK, AccountedFor, TimerSet PROVE AccountedFor'
  <1>1. UNCHANGED <<key, pc, responses, reader, loss, drained>>
    BY DEF TimerSet, callerVars
  <1>2. \A r \in Requests : Pending(r)' => Pending(r) /\ r # timer.req
    BY DEF TimerSet, Settle, Pending, TypeOK
  <1> QED
    BY <1>1, <1>2
       DEF AccountedFor, Registered, TimerHolds, ReaderHolds, LossHolds, Conn, At

\* A request is registered under its own key, pending and with a live timer.
LEMMA AddKeepsRegistry ==
    ASSUME TypeOK, RegistryInv, NewInv, NEW r \in Requests, Add(r)
    PROVE  RegistryInv'
  <1>1. UNCHANGED <<key, future, cancelled>> /\ pc[r] = "add"
    BY DEF Add, scheduleVars
  <1>2. CASE responses[key[r]] = NoRequest
    <2>1. /\ responses' = [responses EXCEPT ![key[r]] = r]
          /\ pc' = [pc EXCEPT ![r] = "send"]
      BY <1>2 DEF Add, Goto
    <2>2. r \notin cancelled /\ future[r] = "pending"
      BY <1>1 DEF NewInv, Pending
    <2> QED
      BY <1>1, <2>1, <2>2 DEF TypeOK, RegistryInv
  <1>3. CASE responses[key[r]] # NoRequest
    <2>1. responses' = responses /\ \A q \in Requests \ {r} : pc'[q] = pc[q]
      BY <1>3 DEF Add, BeginCancel, Goto, TypeOK
    <2>2. \A k \in Keys : responses[k] # r
      BY <1>1, RequestsAssumption DEF RegistryInv
    <2> QED
      BY <1>1, <2>1, <2>2 DEF TypeOK, RegistryInv
  <1> QED
    BY <1>2, <1>3

\* Only LossDrain gives a loss handler requests, and it leaves the place.
LEMMA DrainStep == Inv /\ [Next]_vars => DrainInv'
  <1> SUFFICES ASSUME Inv, [Next]_vars PROVE DrainInv'
    OBVIOUS
  <1> USE DEF Inv, TypeOK, DrainInv, callerVars, scheduleVars, At
  <1>1. ASSUME NEW c \in Conns, ReaderSet(c) PROVE DrainInv'
    BY <1>1 DEF ReaderSet, EndReader
  <1>2. ASSUME NEW c \in Conns, ReaderStop(c) PROVE DrainInv'
    BY <1>2 DEF ReaderStop, EndReader
  <1>3. ASSUME NEW c \in Conns, LossBegin(c) PROVE DrainInv'
    BY <1>3 DEF LossBegin
  <1>4. ASSUME NEW c \in Conns, LossDrain(c) PROVE DrainInv'
    BY <1>4 DEF LossDrain
  <1>5. ASSUME NEW c \in Conns, NEW r \in Requests, LossNext(c, r)
        PROVE  DrainInv'
    BY <1>5 DEF LossNext
  <1>6. ASSUME NEW c \in Conns, LossSet(c) PROVE DrainInv'
    BY <1>6 DEF LossSet
  <1>7. ASSUME NEW c \in Conns, LossClose(c) PROVE DrainInv'
    BY <1>7 DEF LossClose
  <1>8. CASE UNCHANGED <<loss, drained>>
    BY <1>8
  <1> QED
    BY <1>1, <1>2, <1>3, <1>4, <1>5, <1>6, <1>7, <1>8
       DEF Next, Caller, Timer, Reader, Loss, vars, callerVars, scheduleVars,
           CheckConnected, NewHandle, Add, SendData, UserCancel,
           CancelUnregister, CancelFuture, TimerDiscard, TimerExpire,
           TimerRemove, TimerSet, SchedulerShutdown, ReaderPop, ReaderCheck

\* Whoever settles a handle, cancels its timer or moves its caller on has it in
\* hand, and OneHolder says that such a handle is not registered.
LEMMA RegistryStep == Inv /\ [Next]_vars => RegistryInv'
  <1> SUFFICES ASSUME Inv, [Next]_vars PROVE RegistryInv'
    OBVIOUS
  <1> USE DEF Inv, TypeOK, RegistryInv, callerVars, scheduleVars, At
  <1>1. ASSUME NEW r \in Requests, CheckConnected(r) PROVE RegistryInv'
    BY <1>1 DEF CheckConnected, Goto
  <1>2. ASSUME NEW r \in Requests, NewHandle(r) PROVE RegistryInv'
    BY <1>2 DEF NewHandle, Goto
  <1>3. ASSUME NEW r \in Requests, Add(r) PROVE RegistryInv'
    BY <1>3, AddKeepsRegistry
  <1>4. ASSUME NEW r \in Requests, SendData(r) PROVE RegistryInv'
    BY <1>4 DEF SendData, Goto, BeginCancel, Pending
  <1>5. ASSUME NEW r \in Requests, UserCancel(r) PROVE RegistryInv'
    BY <1>5 DEF UserCancel, Goto, BeginCancel, Pending
  <1>6. ASSUME NEW r \in Requests, CancelUnregister(r) PROVE RegistryInv'
    BY <1>6, RequestsAssumption
       DEF CancelUnregister, Goto, Unregister, Registered
  <1>7. ASSUME NEW r \in Requests, CancelFuture(r) PROVE RegistryInv'
    BY <1>7 DEF CancelFuture, Goto, CancelEntry, Settle
  <1>8. ASSUME NEW r \in Requests, TimerDiscard(r) PROVE RegistryInv'
    BY <1>8 DEF TimerDiscard
  <1>9. CASE TimerRemove
    BY <1>9, RequestsAssumption
       DEF TimerRemove, Unregister, Registered, Hands, TimerHands
  <1>10. CASE TimerSet
    BY <1>10, RequestsAssumption
       DEF TimerSet, Settle, OneHolder, TimerHolds, Registered, Hands,
           TimerHands
  <1>11. CASE SchedulerShutdown
    BY <1>11 DEF SchedulerShutdown
  <1>12. ASSUME NEW c \in Conns, NEW d \in DataIds, ReaderPop(c, d)
        PROVE  RegistryInv'
    BY <1>12 DEF ReaderPop, Keys
  <1>13. ASSUME NEW c \in Conns, ReaderCheck(c) PROVE RegistryInv'
    BY <1>13, RequestsAssumption
       DEF ReaderCheck, CancelEntry, OneHolder, ReaderHolds, Registered,
           Hands, ReaderHands
  <1>14. ASSUME NEW c \in Conns, ReaderSet(c) PROVE RegistryInv'
    BY <1>14, RequestsAssumption
       DEF ReaderSet, Settle, OneHolder, ReaderHolds, Registered, Hands,
           ReaderHands
  <1>15. ASSUME NEW c \in Conns, LossDrain(c) PROVE RegistryInv'
    BY <1>15 DEF LossDrain
  <1>16. ASSUME NEW c \in Conns, NEW r \in Requests, LossNext(c, r)
        PROVE  RegistryInv'
    BY <1>16, RequestsAssumption
       DEF LossNext, CancelEntry, OneHolder, LossHolds, Registered
  <1>17. ASSUME NEW c \in Conns, LossSet(c) PROVE RegistryInv'
    BY <1>17, RequestsAssumption
       DEF LossSet, Settle, OneHolder, LossHolds, Registered, Hands, LossHands
  <1>18. CASE UNCHANGED <<key, pc, future, responses, cancelled>>
    BY <1>18
  <1> QED
    BY <1>1, <1>2, <1>3, <1>4, <1>5, <1>6, <1>7, <1>8, <1>9, <1>10, <1>11,
       <1>12, <1>13, <1>14, <1>15, <1>16, <1>17, <1>18
       DEF Next, Caller, Timer, Reader, Loss, vars, callerVars, scheduleVars,
           TimerExpire, ReaderStop, LossBegin, LossClose

\* The threads that take a handle in hand take it out of the registry, where
\* RegistryInv knows how far its caller is.
LEMMA NewStep == Inv /\ [Next]_vars => NewInv'
  <1> SUFFICES ASSUME Inv, [Next]_vars PROVE NewInv'
    OBVIOUS
  <1> USE DEF Inv, TypeOK, NewInv, Held, callerVars, scheduleVars, At
  <1>1. ASSUME NEW r \in Requests, CheckConnected(r) PROVE NewInv'
    BY <1>1
       DEF CheckConnected, Goto, Pending, TimerHolds, ReaderHolds, LossHolds
  <1>2. ASSUME NEW r \in Requests, NewHandle(r) PROVE NewInv'
    BY <1>2 DEF NewHandle, Goto, Pending, TimerHolds, ReaderHolds, LossHolds
  <1>3. ASSUME NEW r \in Requests, Add(r) PROVE NewInv'
    BY <1>3
       DEF Add, Goto, BeginCancel, Pending, TimerHolds, ReaderHolds, LossHolds
  <1>4. ASSUME NEW r \in Requests, SendData(r) PROVE NewInv'
    BY <1>4
       DEF SendData, Goto, BeginCancel, Pending, TimerHolds, ReaderHolds,
           LossHolds
  <1>5. ASSUME NEW r \in Requests, UserCancel(r) PROVE NewInv'
    BY <1>5
       DEF UserCancel, Goto, BeginCancel, Pending, TimerHolds, ReaderHolds,
           LossHolds
  <1>6. ASSUME NEW r \in Requests, CancelUnregister(r) PROVE NewInv'
    BY <1>6
       DEF CancelUnregister, Goto, Pending, TimerHolds, ReaderHolds, LossHolds
  <1>7. ASSUME NEW r \in Requests, CancelFuture(r) PROVE NewInv'
    BY <1>7
       DEF CancelFuture, Goto, CancelEntry, Settle, Pending, TimerHolds,
           ReaderHolds, LossHolds
  <1>8. ASSUME NEW r \in Requests, TimerDiscard(r) PROVE NewInv'
    BY <1>8 DEF TimerDiscard, Pending, TimerHolds, ReaderHolds, LossHolds
  <1>9. ASSUME NEW r \in Requests, TimerExpire(r) PROVE NewInv'
    BY <1>9 DEF TimerExpire, Pending, TimerHolds, ReaderHolds, LossHolds
  <1>10. CASE TimerRemove
    BY <1>10, TimerRemoveKeepsNew
  <1>11. CASE TimerSet
    BY <1>11
       DEF TimerSet, Settle, Pending, Hands, TimerHands, TimerHolds,
           ReaderHolds, LossHolds
  <1>12. CASE SchedulerShutdown
    BY <1>12
       DEF SchedulerShutdown, Pending, TimerHolds, ReaderHolds, LossHolds
  <1>13. ASSUME NEW c \in Conns, NEW d \in DataIds, ReaderPop(c, d)
        PROVE  NewInv'
    <2>1. /\ responses[<<c, d>>] \in Requests
          /\ pc[responses[<<c, d>>]] \in {"send", "returned", "unregister"}
      BY <1>13 DEF ReaderPop, Keys, RegistryInv
    <2>2. \A b \in Conns : reader'[b].req \in {reader[b].req, responses[<<c, d>>]}
      BY <1>13 DEF ReaderPop
    <2> QED
      BY <1>13, <2>1, <2>2 DEF ReaderPop, ReaderHolds, LossHolds, TimerHolds, Pending
  <1>14. ASSUME NEW c \in Conns, ReaderCheck(c) PROVE NewInv'
    BY <1>14, ReaderCheckKeepsNew
  <1>15. ASSUME NEW c \in Conns, ReaderSet(c) PROVE NewInv'
    BY <1>15, ReaderSetKeepsNew
  <1>16. ASSUME NEW c \in Conns, ReaderStop(c) PROVE NewInv'
    BY <1>16, RequestsAssumption
       DEF ReaderStop, EndReader, Pending, TimerHolds, ReaderHolds, LossHolds
  <1>17. ASSUME NEW c \in Conns, LossBegin(c) PROVE NewInv'
    BY <1>17, RequestsAssumption
       DEF LossBegin, Pending, TimerHolds, ReaderHolds, LossHolds
  <1>18. ASSUME NEW c \in Conns, LossDrain(c) PROVE NewInv'
    BY <1>18, LossDrainKeepsNew
  <1>19. ASSUME NEW c \in Conns, NEW r \in Requests, LossNext(c, r)
        PROVE  NewInv'
    BY <1>19
       DEF LossNext, CancelEntry, Pending, TimerHolds, ReaderHolds, LossHolds
  <1>20. ASSUME NEW c \in Conns, LossSet(c) PROVE NewInv'
    BY <1>20, RequestsAssumption
       DEF LossSet, Settle, Pending, Hands, LossHands, TimerHolds,
           ReaderHolds, LossHolds
  <1>21. ASSUME NEW c \in Conns, LossClose(c) PROVE NewInv'
    BY <1>21, RequestsAssumption
       DEF LossClose, Pending, TimerHolds, ReaderHolds, LossHolds
  <1>22. CASE UNCHANGED <<pc, cancelled, future, timer, reader, loss, drained>>
    BY <1>22 DEF Pending, TimerHolds, ReaderHolds, LossHolds
  <1> QED
    BY <1>1, <1>2, <1>3, <1>4, <1>5, <1>6, <1>7, <1>8, <1>9, <1>10, <1>11,
       <1>12, <1>13, <1>14, <1>15, <1>16, <1>17, <1>18, <1>19, <1>20, <1>21,
       <1>22
       DEF Next, Caller, Timer, Reader, Loss, vars, callerVars, scheduleVars

\* A thread takes a handle in hand in the step that takes it out of the
\* registry, so that nobody else can have it.
LEMMA OneHolderStep == Inv /\ [Next]_vars => OneHolder'
  <1> SUFFICES ASSUME Inv, [Next]_vars PROVE OneHolder'
    OBVIOUS
  <1> USE DEF Inv, TypeOK, OneHolder, Registered, Conn, TimerHolds,
             ReaderHolds, LossHolds, callerVars, scheduleVars, At
  <1>1. ASSUME NEW r \in Requests, Add(r) PROVE OneHolder'
    BY <1>1, RequestsAssumption DEF Add, NewInv, Held
  <1>2. ASSUME NEW r \in Requests, CancelUnregister(r) PROVE OneHolder'
    BY <1>2, RequestsAssumption DEF CancelUnregister, Unregister
  <1>3. ASSUME NEW r \in Requests, TimerExpire(r) PROVE OneHolder'
    BY <1>3 DEF TimerExpire
  <1>4. CASE TimerRemove
    BY <1>4, RequestsAssumption DEF TimerRemove, Unregister, Hands, TimerHands
  <1>5. CASE TimerSet
    BY <1>5 DEF TimerSet
  <1>6. ASSUME NEW c \in Conns, NEW d \in DataIds, ReaderPop(c, d)
        PROVE  OneHolder'
    BY <1>6, RequestsAssumption DEF ReaderPop, RegistryInv, Keys
  <1>7. ASSUME NEW c \in Conns, ReaderCheck(c) PROVE OneHolder'
    BY <1>7, ReaderKeepsOneHolder
  <1>8. ASSUME NEW c \in Conns, ReaderSet(c) PROVE OneHolder'
    BY <1>8, ReaderKeepsOneHolder
  <1>9. ASSUME NEW c \in Conns, ReaderStop(c) PROVE OneHolder'
    BY <1>9, RequestsAssumption DEF ReaderStop, EndReader
  <1>10. ASSUME NEW c \in Conns, LossBegin(c) PROVE OneHolder'
    BY <1>10, RequestsAssumption DEF LossBegin
  <1>11. ASSUME NEW c \in Conns, LossDrain(c) PROVE OneHolder'
    BY <1>11, RequestsAssumption DEF LossDrain, RegistryInv, Keys
  <1>12. ASSUME NEW c \in Conns, NEW r \in Requests, LossNext(c, r)
        PROVE  OneHolder'
    BY <1>12, RequestsAssumption DEF LossNext
  <1>13. ASSUME NEW c \in Conns, LossSet(c) PROVE OneHolder'
    BY <1>13, RequestsAssumption DEF LossSet
  <1>14. ASSUME NEW c \in Conns, LossClose(c) PROVE OneHolder'
    BY <1>14, RequestsAssumption DEF LossClose
  <1>15. CASE UNCHANGED <<key, responses, timer, reader, loss, drained>>
    BY <1>15
  <1> QED
    BY <1>1, <1>2, <1>3, <1>4, <1>5, <1>6, <1>7, <1>8, <1>9, <1>10, <1>11,
       <1>12, <1>13, <1>14, <1>15
       DEF Next, Caller, Timer, Reader, Loss, vars, callerVars, scheduleVars,
           CheckConnected, NewHandle, SendData, UserCancel, CancelFuture,
           TimerDiscard, SchedulerShutdown

\* A future gets a result in the step of a reader only, and the reader has the
\* request that the reply is for.
LEMMA ReplyStep == Inv /\ [Next]_vars => ReplyInv'
  <1> SUFFICES ASSUME Inv, [Next]_vars PROVE ReplyInv'
    OBVIOUS
  <1> USE DEF Inv, TypeOK, ReplyInv, ReplyMatches, ReaderHolds, callerVars,
             scheduleVars, At
  <1>1. ASSUME NEW r \in Requests, NewHandle(r) PROVE ReplyInv'
    BY <1>1 DEF NewHandle
  <1>2. ASSUME NEW r \in Requests, CancelFuture(r) PROVE ReplyInv'
    BY <1>2 DEF CancelFuture, Settle
  <1>3. CASE TimerSet
    BY <1>3 DEF TimerSet, Settle
  <1>4. ASSUME NEW c \in Conns, NEW d \in DataIds, ReaderPop(c, d)
        PROVE  ReplyInv'
    BY SMTT(30), <1>4, RequestsAssumption DEF ReaderPop, RegistryInv, Keys
  <1>5. ASSUME NEW c \in Conns, ReaderCheck(c) PROVE ReplyInv'
    BY <1>5, ReaderKeepsReply
  <1>6. ASSUME NEW c \in Conns, ReaderSet(c) PROVE ReplyInv'
    BY <1>6, ReaderKeepsReply
  <1>7. ASSUME NEW c \in Conns, ReaderStop(c) PROVE ReplyInv'
    BY <1>7, RequestsAssumption DEF ReaderStop, EndReader
  <1>8. ASSUME NEW c \in Conns, LossSet(c) PROVE ReplyInv'
    BY <1>8 DEF LossSet, Settle
  <1>9. CASE UNCHANGED <<key, future, reply, reader>>
    BY <1>9
  <1> QED
    BY <1>1, <1>2, <1>3, <1>4, <1>5, <1>6, <1>7, <1>8, <1>9
       DEF Next, Caller, Timer, Reader, Loss, vars, callerVars, scheduleVars,
           CheckConnected, Add, SendData, UserCancel, CancelUnregister,
           TimerDiscard, TimerExpire, TimerRemove, SchedulerShutdown,
           LossBegin, LossDrain, LossNext, LossClose

\* A handle that leaves the registry or a thread's hands goes to another
\* thread's, or is settled, or its caller is cancelling it.
LEMMA AccountedForStep == Inv /\ [Next]_vars => AccountedFor'
  <1> SUFFICES ASSUME Inv, [Next]_vars PROVE AccountedFor'
    OBVIOUS
  <1> USE DEF Inv, TypeOK, AccountedFor, Registered, Pending, Conn,
             TimerHolds, ReaderHolds, LossHolds, callerVars, scheduleVars, At
  <1>1. ASSUME NEW r \in Requests, CheckConnected(r) PROVE AccountedFor'
    BY <1>1 DEF CheckConnected, Goto
  <1>2. ASSUME NEW r \in Requests, NewHandle(r) PROVE AccountedFor'
    BY <1>2 DEF NewHandle, Goto
  <1>3. ASSUME NEW r \in Requests, Add(r) PROVE AccountedFor'
    BY <1>3, AddKeepsAccounted
  <1>4. ASSUME NEW r \in Requests, SendData(r) PROVE AccountedFor'
    BY <1>4 DEF SendData, Goto, BeginCancel
  <1>5. ASSUME NEW r \in Requests, UserCancel(r) PROVE AccountedFor'
    BY <1>5 DEF UserCancel, Goto, BeginCancel
  <1>6. ASSUME NEW r \in Requests, CancelUnregister(r) PROVE AccountedFor'
    BY <1>6 DEF CancelUnregister, Goto, Unregister
  <1>7. ASSUME NEW r \in Requests, CancelFuture(r) PROVE AccountedFor'
    BY <1>7 DEF CancelFuture, Goto, Settle
  <1>8. ASSUME NEW r \in Requests, TimerExpire(r) PROVE AccountedFor'
    BY <1>8 DEF TimerExpire
  <1>9. CASE TimerRemove
    BY <1>9, RequestsAssumption DEF TimerRemove, Unregister, Hands, TimerHands
  <1>10. CASE TimerSet
    BY <1>10, TimerSetKeepsAccounted
  <1>11. ASSUME NEW c \in Conns, NEW d \in DataIds, ReaderPop(c, d)
        PROVE  AccountedFor'
    BY <1>11, ReaderPopKeepsAccounted
  <1>12. ASSUME NEW c \in Conns, ReaderCheck(c) PROVE AccountedFor'
    BY <1>12, ReaderKeepsAccounted
  <1>13. ASSUME NEW c \in Conns, ReaderSet(c) PROVE AccountedFor'
    BY <1>13, ReaderKeepsAccounted
  <1>14. ASSUME NEW c \in Conns, ReaderStop(c) PROVE AccountedFor'
    BY <1>14, ReaderKeepsAccounted
  <1>15. ASSUME NEW c \in Conns, LossBegin(c) PROVE AccountedFor'
    BY <1>15 DEF LossBegin, Keys, Hands, LossHands
  <1>16. ASSUME NEW c \in Conns, LossDrain(c) PROVE AccountedFor'
    BY <1>16, RequestsAssumption
       DEF LossDrain, RegistryInv, Keys, Hands, LossHands, DrainInv
  <1>17. ASSUME NEW c \in Conns, NEW r \in Requests, LossNext(c, r)
        PROVE  AccountedFor'
    BY <1>17, RequestsAssumption
       DEF LossNext, CancelEntry, Keys, Hands, LossHands
  <1>18. ASSUME NEW c \in Conns, LossSet(c) PROVE AccountedFor'
    BY <1>18 DEF LossSet, Settle, Keys, Hands, LossHands
  <1>19. ASSUME NEW c \in Conns, LossClose(c) PROVE AccountedFor'
    BY <1>19 DEF LossClose, Keys, Hands, LossHands
  <1>20. CASE UNCHANGED <<key, pc, future, responses, timer, reader, loss, drained>>
    BY <1>20
  <1> QED
    BY <1>1, <1>2, <1>3, <1>4, <1>5, <1>6, <1>7, <1>8, <1>9, <1>10, <1>11,
       <1>12, <1>13, <1>14, <1>15, <1>16, <1>17, <1>18, <1>19, <1>20
       DEF Next, Caller, Timer, Reader, Loss, vars, callerVars, scheduleVars,
           TimerDiscard, SchedulerShutdown

----------------------------------------------------------------------------
(* The inductive invariant, and the properties that follow from it.         *)

\* The inductive invariant holds before any request is made.
LEMMA InvInit == Init => Inv
  <1> SUFFICES ASSUME Init PROVE Inv
    OBVIOUS
  <1>1. TypeOK
    BY TypeInit
  <1>2. /\ timer.req = NoRequest /\ timer.at = "wait" /\ responses = [k \in Keys |-> NoRequest]
        /\ \A c \in Conns : reader[c].req = NoRequest /\ loss[c].req = NoRequest
        /\ drained = [c \in Conns |-> {}] /\ cancelled = {}
    BY DEF Init, At
  <1>3. \A r \in Requests : ~Held(r)
    BY <1>2, RequestsAssumption DEF Held, TimerHolds, ReaderHolds, LossHolds, At
  <1>4. RegistryInv /\ DrainInv
    BY <1>2 DEF RegistryInv, DrainInv
  <1>5. NewInv /\ OneHolder /\ ReplyInv /\ AccountedFor
    BY <1>2, <1>3 DEF Init, NewInv, OneHolder, ReplyInv, ReplyMatches, AccountedFor, Held
  <1> QED
    BY <1>1, <1>4, <1>5 DEF Inv

\* Every step of every thread keeps the inductive invariant.
LEMMA InvStep == Inv /\ [Next]_vars => Inv'
  <1>1. Inv /\ [Next]_vars => TypeOK'
    BY TypeStep DEF Inv
  <1> QED
    BY <1>1, RegistryStep, NewStep, DrainStep, OneHolderStep, ReplyStep, AccountedForStep
       DEF Inv

\* Inv holds in every state the threads can reach, whatever they do.
THEOREM Invariance == Spec => []Inv
  BY InvInit, InvStep, PTL DEF Spec

\* The threads of Requests keep every variable's shape, so that no thread uses a
\* request it does not have.
THEOREM TypeCorrect == Spec => []TypeOK
  <1>1. Inv => TypeOK
    BY DEF Inv
  <1> QED
    BY <1>1, Invariance, PTL

\* Whatever the numbers of requests and connections, a handle that the registry
\* holds is pending: cancel, _on_timeout, drain and the reply branch of
\* handle_data all take it out before they settle it.
THEOREM NeverSettledWhileRegistered == Spec => []PendingWhileRegistered
  <1>1. Inv => PendingWhileRegistered
    BY DEF Inv, RegistryInv, PendingWhileRegistered
  <1> QED
    BY <1>1, Invariance, PTL

\* No two of the reader, the timeout thread and the loss handler ever have the
\* same handle in hand: pop, remove and drain hand it out once.
THEOREM NeverHeldTwice == Spec => []OneHolder
  <1>1. Inv => OneHolder
    BY DEF Inv
  <1> QED
    BY <1>1, Invariance, PTL

\* A future gets a result only from a reply that arrived on the request's own
\* connection with its data id (the key of PendingResponseRegistry._key).
THEOREM RepliesMatch == Spec => []ReplyMatches
  <1>1. Inv => ReplyMatches
    BY DEF Inv, ReplyInv
  <1> QED
    BY <1>1, Invariance, PTL

\* A request that send_async registered and nobody settled is in the registry or
\* in the hands of a thread that will settle it, but for a crashed loss handler.
THEOREM NeverForgotten == Spec => []AccountedFor
  <1>1. Inv => AccountedFor
    BY DEF Inv
  <1> QED
    BY <1>1, Invariance, PTL

\* TimeoutScheduler._run never discards the deadline of a handle that is
\* registered: cancel() unregisters the handle before it cancels its timer.
THEOREM TimersStayArmed == Spec => []TimerNotDisarmed
  <1>1. Inv => TimerNotDisarmed
    BY RequestsAssumption DEF Inv, TypeOK, RegistryInv, TimerNotDisarmed, Registered
  <1> QED
    BY <1>1, Invariance, PTL

----------------------------------------------------------------------------
(* A handle leaves the registry for its own sake only.                      *)

\* A step that takes a handle out of the registry does it for that very handle:
\* the identity test of PendingResponseRegistry.remove.
LEMMA LeavesForItsOwnSake ==
    ASSUME Inv, [Next]_vars, NEW k \in Keys,
           responses[k] # NoRequest, responses'[k] # responses[k]
    PROVE  \/ pc[responses[k]] = "unregister" /\ pc'[responses[k]] = "settle"
           \/ timer' = At("set", responses[k])
           \/ \E c \in Conns : \/ reader'[c].req = responses[k]
                               \/ responses[k] \in drained'[c]
  <1> DEFINE q == responses[k]
  <1>1. q \in Requests /\ key[q] = k
    BY DEF Inv, TypeOK, RegistryInv
  <1>2. ASSUME NEW r \in Requests, Add(r) PROVE FALSE
    BY <1>2 DEF Add, Inv, TypeOK
  <1>3. ASSUME NEW r \in Requests, CancelUnregister(r)
        PROVE  pc[q] = "unregister" /\ pc'[q] = "settle"
    <2>1. r = q
      BY <1>1, <1>3 DEF CancelUnregister, Unregister, Registered, Inv, TypeOK
    <2> QED
      BY <1>3, <2>1 DEF CancelUnregister, Goto, Inv, TypeOK
  <1>4. CASE TimerRemove
    <2>1. Registered(timer.req) /\ key[timer.req] = k
      BY <1>1, <1>4, RequestsAssumption
         DEF TimerRemove, Unregister, Registered, Inv, TypeOK, Hands, TimerHands
    <2>2. q = timer.req
      BY <2>1 DEF Registered
    <2> QED
      BY <1>4, <2>1, <2>2 DEF TimerRemove
  <1>5. ASSUME NEW c \in Conns, NEW d \in DataIds, ReaderPop(c, d)
        PROVE  reader'[c].req = q
    <2>1. k = <<c, d>>
      BY <1>5 DEF ReaderPop, Inv, TypeOK
    <2> QED
      BY <1>5, <2>1 DEF ReaderPop, Inv, TypeOK, At
  <1>6. ASSUME NEW c \in Conns, LossDrain(c) PROVE q \in drained'[c]
    <2>1. k[1] = c /\ k \in {c} \X DataIds
      BY <1>6 DEF LossDrain, Keys
    <2> QED
      BY <1>6, <2>1 DEF LossDrain, Inv, TypeOK
  <1>7. CASE responses' = responses
    BY <1>7
  <1> QED
    BY <1>2, <1>3, <1>4, <1>5, <1>6, <1>7
       DEF Next, Caller, Timer, Reader, Loss, vars, scheduleVars, callerVars,
           CheckConnected, NewHandle, SendData, UserCancel, CancelFuture,
           TimerDiscard, TimerExpire, TimerSet, SchedulerShutdown, ReaderCheck,
           ReaderSet, ReaderStop, LossBegin, LossNext, LossSet, LossClose

\* A request that fails because its data id is taken, and the cancel() that
\* follows, leave the request that has the data id in the registry.
THEOREM OriginalIsKept == Spec => DuplicateKeepsOriginal
  <1>1. Inv /\ [Next]_vars =>
            [\A k \in Keys :
               LET r == responses[k] IN
               r # NoRequest /\ responses'[k] # r =>
                  \/ pc[r] = "unregister" /\ pc'[r] = "settle"
                  \/ timer'= At("set", r)
                  \/ \E c \in Conns : reader'[c].req = r \/ r \in drained'[c]
            ]_vars
    BY LeavesForItsOwnSake
  <1> QED
    BY <1>1, Invariance, PTL DEF Spec, DuplicateKeepsOriginal

----------------------------------------------------------------------------
(* Requests implements RequestContract: a step is one of the contract's or  *)
(* leaves the status of every request alone.                                *)

\* The callers that have yet to register their handles stay the same.
SameNew == \A r \in Requests : (pc'[r] = "add") <=> (pc[r] = "add")

\* What a caller sees of a request depends on its key, future and registration.
LEMMA StatusKept ==
    ASSUME TypeOK, UNCHANGED <<key, future, responses>>, SameNew
    PROVE  UNCHANGED <<key, Status>>
  BY DEF Status, SameNew, Registered

\* Settling a request that is out of the registry is the contract's Resolve.
LEMMA StatusResolved ==
    ASSUME TypeOK, NEW r \in Requests, NEW o \in Outcomes,
           Pending(r), ~Registered(r), pc[r] # "add",
           future' = [future EXCEPT ![r] = o], UNCHANGED <<key, responses>>, SameNew
    PROVE  Contract!Next
  <1>1. Status' = [Status EXCEPT ![r] = o]
    BY DEF TypeOK, Status, SameNew, Registered, Pending, Outcomes
  <1>2. Status[r] = "closing"
    BY DEF Status, Pending, Outcomes
  <1>3. o \in Contract!Outcomes
    BY DEF Outcomes, Contract!Outcomes
  <1> QED
    BY <1>1, <1>2, <1>3 DEF Contract!Next, Contract!Resolve

\* Taking one request, or all of a connection, out of the registry is Close.
LEMMA StatusClosed ==
    ASSUME TypeOK, RegistryInv, NEW R \in SUBSET Requests, R # {},
           \A r \in R : Registered(r),
           \/ \E r \in R : R = {r}
           \/ \E c \in Conns : R = {r \in Requests : Conn(r) = c /\ Registered(r)},
           \A r \in Requests : Registered(r)' <=> Registered(r) /\ r \notin R,
           UNCHANGED <<key, future>>, SameNew
    PROVE  Contract!Next
  <1>1. \A r \in Requests : Registered(r) =>
            future[r] = "pending" /\ pc[r] # "add"
    BY RequestsAssumption DEF RegistryInv, Registered, TypeOK
  <1>2. \A r \in Requests : Registered(r) <=> Status[r] = "open"
    BY <1>1 DEF Status, Outcomes
  <1>3. Status' = [r \in Requests |-> IF r \in R THEN "closing" ELSE Status[r]]
    BY <1>1 DEF Status, SameNew, Outcomes
  <1>4. \A c \in Conns : {r \in Requests : Conn(r) = c /\ Registered(r)}
                          = {r \in Requests : key[r][1] = c /\ Status[r] = "open"}
    BY <1>2 DEF Conn
  <1>5. Contract!Close(R)
    BY <1>2, <1>3, <1>4 DEF Contract!Close
  <1> QED
    BY <1>5 DEF Contract!Next

\* PendingResponseRegistry.add is the contract's Open or, with ValueError, Reject.
LEMMA AddMaps ==
    ASSUME Inv, NEW r \in Requests, Add(r) PROVE Contract!Next
  <1> USE DEF Inv, TypeOK
  <1>1. /\ UNCHANGED <<key, future>>
        /\ pc[r] = "add" /\ future[r] = "pending" /\ pc'[r] # "add"
        /\ \A q \in Requests \ {r} : pc'[q] = pc[q]
    BY DEF Add, NewInv, Pending, BeginCancel, Goto
  <1>2. Status[r] = "new"
    BY <1>1 DEF Status, Outcomes
  <1>3. CASE responses[key[r]] = NoRequest
    <2>1. responses' = [responses EXCEPT ![key[r]] = r]
      BY <1>3 DEF Add
    <2>2. \A q \in Requests : Status[q] = "open" => key[q] # key[r]
      BY <1>3, RequestsAssumption DEF Status, Registered, Outcomes
    <2>3. Registered(r)' /\ \A q \in Requests \ {r} :
                               Registered(q)' <=> Registered(q)
      BY <1>1, <1>3, <2>1, RequestsAssumption DEF Registered
    <2>4. Status' = [Status EXCEPT ![r] = "open"]
      BY <1>1, <2>3 DEF Status, Outcomes
    <2> QED
      BY <1>1, <1>2, <2>2, <2>4 DEF Contract!Next, Contract!Open, Contract!Taken
  <1>4. CASE responses[key[r]] # NoRequest
    <2>1. responses' = responses
      BY <1>4 DEF Add
    <2>2. PICK q \in Requests : q = responses[key[r]]
      BY <1>4
    <2>3. Status[q] = "open" /\ key[q] = key[r] /\ q # r
      BY <1>1, <1>4, <2>2 DEF RegistryInv, Status, Registered, Outcomes
    <2>4. Status' = [Status EXCEPT ![r] = "closing"]
      BY <1>1, <2>1, <2>2, <2>3 DEF Status, Registered, Outcomes
    <2> QED
      BY <1>1, <1>2, <2>3, <2>4 DEF Contract!Next, Contract!Reject, Contract!Taken
  <1> QED
    BY <1>3, <1>4

\* PendingResponseRegistry.remove closes the request or changes nothing.
LEMMA UnregisterMaps ==
    ASSUME Inv, NEW r \in Requests, Unregister(r), UNCHANGED <<key, future>>, SameNew
    PROVE  Contract!Next \/ UNCHANGED <<key, Status>>
  <1>1. CASE Registered(r)
    <2>1. \A q \in Requests : Registered(q)' <=> Registered(q) /\ q \notin {r}
      BY <1>1, RequestsAssumption DEF Unregister, Registered, Inv, TypeOK
    <2> QED
      BY <1>1, <2>1, StatusClosed DEF Inv
  <1>2. CASE ~Registered(r)
    <2>1. responses' = responses
      BY <1>2 DEF Unregister, Registered
    <2> QED
      BY <2>1, StatusKept DEF Inv
  <1> QED
    BY <1>1, <1>2

\* Settling a handle in hand resolves it, or it was resolved before.
LEMMA SettleMaps ==
    ASSUME Inv, NEW r \in Requests, NEW o \in Outcomes, Settle(r, o),
           ~Registered(r), pc[r] # "add", UNCHANGED <<key, responses>>, SameNew
    PROVE  Contract!Next \/ UNCHANGED <<key, Status>>
  <1>1. CASE Pending(r)
    BY <1>1, StatusResolved DEF Settle, Inv, Pending
  <1>2. CASE ~Pending(r)
    <2>1. future' = future
      BY <1>2 DEF Settle, Pending
    <2> QED
      BY <2>1, StatusKept DEF Inv
  <1> QED
    BY <1>1, <1>2

\* PendingResponseRegistry.pop closes the request it returns.
LEMMA ReaderPopMaps ==
    ASSUME Inv, NEW c \in Conns, NEW d \in DataIds, ReaderPop(c, d)
    PROVE  Contract!Next
  <1> DEFINE q == responses[<<c, d>>]
  <1>1. q \in Requests /\ Registered(q) /\ <<c, d>> \in Keys
    BY DEF ReaderPop, Inv, TypeOK, RegistryInv, Registered, Keys
  <1>2. UNCHANGED <<key, future, pc>>
    BY DEF ReaderPop, callerVars
  <1>3. \A r \in Requests : Registered(r)' <=> Registered(r) /\ r \notin {q}
    <2>1. /\ responses' = [responses EXCEPT ![<<c, d>>] = NoRequest]
          /\ responses \in [Keys -> Requests \cup {NoRequest}]
          /\ q # NoRequest
      BY DEF ReaderPop, Inv, TypeOK
    <2>2. key[q] = <<c, d>> /\ \A r \in Requests : key[r] \in Keys
      BY <1>1, <2>1 DEF Inv, TypeOK, RegistryInv
    <2> QED
      BY <1>1, <1>2, <2>1, <2>2, RequestsAssumption DEF Registered
  <1> QED
    BY <1>1, <1>2, <1>3, StatusClosed DEF Inv, SameNew

\* PendingResponseRegistry.drain closes every open request of its owner.
LEMMA LossDrainMaps ==
    ASSUME Inv, NEW c \in Conns, LossDrain(c)
    PROVE  Contract!Next \/ UNCHANGED <<key, Status>>
  <1> DEFINE R == {r \in Requests : Conn(r) = c /\ Registered(r)}
  <1>1. UNCHANGED <<key, future, pc>>
    BY DEF LossDrain, callerVars
  <1>2. \A r \in Requests : Registered(r)' <=> Registered(r) /\ r \notin R
    BY <1>1, RequestsAssumption DEF LossDrain, Registered, Conn, Inv, TypeOK
  <1>3. CASE R # {}
    BY <1>1, <1>2, <1>3, StatusClosed DEF Inv, SameNew
  <1>4. CASE R = {}
    <2>1. Status' = Status
      BY <1>1, <1>2, <1>4 DEF Status
    <2> QED
      BY <1>1, <2>1
  <1> QED
    BY <1>3, <1>4

\* No request is made in the initial states of both.
LEMMA InitMaps == Init => Contract!Init
  <1> SUFFICES ASSUME Init PROVE Contract!Init
    OBVIOUS
  <1>1. key \in [Requests -> Conns \X DataIds]
    BY DEF Init, Keys
  <1>2. Status = [r \in Requests |-> "new"]
    BY DEF Init, Status, Outcomes
  <1> QED
    BY <1>1, <1>2 DEF Contract!Init

\* Every step is a step of the contract or leaves what a caller sees alone.
LEMMA StepMaps ==
    ASSUME Inv, [Next]_vars
    PROVE  [Contract!Next]_<<key, Status>>
  <1> USE DEF SameNew, callerVars, scheduleVars
  <1>1. \A r \in Requests : Held(r) => ~Registered(r) /\ pc[r] # "add"
    BY DEF Inv, OneHolder, NewInv, Held
  <1>2. ASSUME NEW r \in Requests, CheckConnected(r) PROVE UNCHANGED <<key, Status>>
    BY <1>2, StatusKept DEF CheckConnected, Goto, Inv, TypeOK
  <1>3. ASSUME NEW r \in Requests, NewHandle(r) PROVE UNCHANGED <<key, Status>>
    <2>1. /\ future' = [future EXCEPT ![r] = "pending"] /\ future[r] = "none"
          /\ pc' = [pc EXCEPT ![r] = "add"] /\ UNCHANGED <<key, responses>>
      BY <1>3 DEF NewHandle, Goto, Inv, NewInv
    <2> QED
      BY <2>1 DEF Status, Registered, Outcomes, Inv, TypeOK
  <1>4. ASSUME NEW r \in Requests, Add(r) PROVE Contract!Next
    BY <1>4, AddMaps
  <1>5. ASSUME NEW r \in Requests, SendData(r) \/ UserCancel(r)
        PROVE  UNCHANGED <<key, Status>>
    BY <1>5, StatusKept DEF SendData, UserCancel, BeginCancel, Goto, Inv, TypeOK
  <1>6. ASSUME NEW r \in Requests, CancelUnregister(r)
        PROVE  Contract!Next \/ UNCHANGED <<key, Status>>
    BY <1>6, UnregisterMaps DEF CancelUnregister, Goto, Inv, TypeOK
  <1>7. ASSUME NEW r \in Requests, CancelFuture(r)
        PROVE  Contract!Next \/ UNCHANGED <<key, Status>>
    <2>1. ~Registered(r) /\ pc[r] # "add"
      BY <1>7, RequestsAssumption
         DEF CancelFuture, Inv, RegistryInv, Registered, TypeOK
    <2> QED
      BY <1>7, <2>1, SettleMaps DEF CancelFuture, Goto, Inv, TypeOK, Outcomes
  <1>8. CASE TimerRemove
    BY <1>8, UnregisterMaps DEF TimerRemove, Inv, TypeOK, Hands, TimerHands
  <1>9. CASE TimerSet
    <2>1. timer.req \in Requests /\ Held(timer.req)
      BY <1>9 DEF TimerSet, Held, TimerHolds, At, Inv, TypeOK, Hands, TimerHands
    <2> QED
      BY <1>1, <1>9, <2>1, SettleMaps DEF TimerSet, Outcomes
  <1>10. ASSUME NEW c \in Conns, NEW d \in DataIds, ReaderPop(c, d)
         PROVE  Contract!Next
    BY <1>10, ReaderPopMaps
  <1>11. ASSUME NEW c \in Conns, ReaderSet(c)
         PROVE  Contract!Next \/ UNCHANGED <<key, Status>>
    <2>1. reader[c].req \in Requests /\ Held(reader[c].req)
      BY <1>11 DEF ReaderSet, Held, ReaderHolds, Inv, TypeOK, Hands, ReaderHands
    <2> QED
      BY <1>1, <1>11, <2>1, SettleMaps DEF ReaderSet, Outcomes
  <1>12. ASSUME NEW c \in Conns, LossDrain(c)
         PROVE  Contract!Next \/ UNCHANGED <<key, Status>>
    BY <1>12, LossDrainMaps
  <1>13. ASSUME NEW c \in Conns, LossSet(c)
         PROVE  Contract!Next \/ UNCHANGED <<key, Status>>
    <2>1. loss[c].req \in Requests /\ Held(loss[c].req)
      BY <1>13 DEF LossSet, Held, LossHolds, Inv, TypeOK, Hands, LossHands
    <2> QED
      BY <1>1, <1>13, <2>1, SettleMaps DEF LossSet, Outcomes
  <1>14. CASE UNCHANGED <<key, future, responses, pc>>
    BY <1>14, StatusKept DEF Inv
  <1> QED
    BY <1>2, <1>3, <1>4, <1>5, <1>6, <1>7, <1>8, <1>9, <1>10, <1>11, <1>12, <1>13,
       <1>14
       DEF Next, Caller, Timer, Reader, Loss, vars, TimerDiscard, TimerExpire,
           SchedulerShutdown, ReaderCheck, ReaderStop, LossBegin, LossNext, LossClose

\* The registry, the handles and the four kinds of threads together implement
\* the contract of send_async: one open request per key, closed once, by one
\* thread, before it gets its only outcome.
THEOREM ContractIsKept == Spec => KeepsContract
  BY InitMaps, StepMaps, Invariance, PTL DEF Spec, KeepsContract, Contract!Spec

=============================================================================
