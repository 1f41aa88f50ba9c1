--------------------------- MODULE EventLoopProofs ---------------------------
(***************************************************************************)
(* Proofs about EventLoop, for any connections, descriptors, threads and   *)
(* bounds: the buffer of an open connection is what was accepted and not   *)
(* written, no byte of the shared budget is forgotten, and a slot is given *)
(* back once.                                                              *)
(***************************************************************************)
EXTENDS EventLoop, FiniteSetTheorems, TLAPS

----------------------------------------------------------------------------
(* The invariant.                                                          *)

LossPlaces   == {"lose", "setLost", "unlist", "abort", "shut"}
ClosePlaces  == {"closeRelease", "closeSocket", "onClose", "slot"}  \* after the flag
EndPlaces    == LossPlaces \cup ClosePlaces
LoopPlaces   == {"idle", "remove", "close", "send", "interest", "modify", "ticked",
                 "write", "socket", "consume", "consumed"} \cup EndPlaces
UserPlaces   == {"idle", "remove", "close", "send", "interest", "modify"} \cup EndPlaces
AcceptPlaces == {"idle", "bind", "register", "publish", "refuse"} \cup EndPlaces

\* Where a thread can be, and where the call it is in returns to.
LoopFits(r) ==
    /\ r.at \in LoopPlaces
    /\ r.at # "idle" => r.conn \in Conns /\ Bound(r.conn)
    /\ r.at \in {"send", "interest", "modify"} => r.then \in {"write", "ticked"}
    /\ r.at \in {"consume", "consumed"} => r.then \in {"write", "idle"}
    /\ r.at \in LossPlaces => r.then \in {"idle", "slot"}
    /\ r.at \in ClosePlaces => r.then \in {"idle", "shut"}
    /\ r.at \notin {"send", "interest", "modify", "consume", "consumed"} \cup EndPlaces
          => r.then = "idle"

UserFits(r) ==
    /\ r.at \in UserPlaces
    /\ r.at # "idle" => r.conn \in Conns /\ stage[r.conn] # "new"
    /\ r.at \notin {"idle", "send"} \cup LossPlaces => Bound(r.conn)
    /\ r.at \in LossPlaces => r.then \in {"idle", "slot"}
    /\ r.at \in ClosePlaces => r.then \in {"idle", "shut"}
    /\ r.then = "slot" => Bound(r.conn)
    /\ r.at \notin EndPlaces => r.then = "idle"

AcceptFits(r) ==
    /\ r.at \in AcceptPlaces
    /\ r.at # "idle" => r.conn \in Conns /\ stage[r.conn] # "new"
    /\ r.at = "bind" => stage[r.conn] = "admitted"
    /\ r.at \in {"register", "publish"} => stage[r.conn] = "bound"
    /\ r.at \in ClosePlaces => Bound(r.conn)
    /\ r.then = IF r.at \in LossPlaces THEN "refuse"
                ELSE IF r.at \in ClosePlaces THEN "shut" ELSE "idle"

LoopPlaced    == LoopFits(thread[Loop])
UserPlaced(u) == UserFits(thread[u])
AcceptPlaced  == AcceptFits(thread[Accept])

\* Who is in a table was admitted, or bound; a thread with nothing to do.
TablesPlaced ==
    /\ \A c \in clients : stage[c] # "new"
    /\ \A c \in known : Bound(c)
    /\ \A c \in Conns : closed[c] \/ key[c] # None => Bound(c)
    /\ \A t \in Threads : thread[t].at = "idle" <=> thread[t] = Idle

PlacesInv == LoopPlaced /\ (\A u \in Users : UserPlaced(u)) /\ AcceptPlaced /\ TablesPlaced

\* The thread t has set the flag of c and is yet to release its slot, maybe after
\* the loss that on_close() handles; and c is open or has such a thread; and the
\* accept thread is at work on c.
Closes(r)      == r.at \in ClosePlaces \/ (r.at \in LossPlaces /\ r.then = "slot")
Closing(t, c)  == Closes(thread[t]) /\ thread[t].conn = c
Unreleased(c)  == ~closed[c] \/ \E t \in Threads : Closing(t, c)
Accepting(c)   == thread[Accept].at # "idle" /\ thread[Accept].conn = c

\* One thread closes a connection, and two places release its slot.
SlotKept(c) ==
    /\ \A t \in Threads : Closing(t, c) => closed[c]
    /\ \A t, u \in Threads : Closing(t, c) /\ Closing(u, c) => t = u
    /\ released[c] \in 0..2
    /\ stage[c] = "new" => released[c] = 0
    /\ Accepting(c) /\ Unreleased(c) => released[c] = 0
    /\ stage[c] = "published" /\ Unreleased(c) => released[c] = 0
    /\ Accepting(c) \/ Unreleased(c) \/ stage[c] # "bound" => released[c] <= 1

SlotInv == \A c \in Conns : SlotKept(c)

\* The loop alone consumes, so that what it found in a buffer is still there.
StreamKept(c) ==
    ~closed[c] =>
        /\ written[c] + buffer[c] = taken[c] + InFlight(c)
        /\ queuedBytes[c] = buffer[c]
        /\ pendingWrites[c] = 0 <=> buffer[c] = 0
        /\ thread[Loop].at \in {"socket", "consume"} /\ thread[Loop].conn = c
              => thread[Loop].n > 0 /\ thread[Loop].n <= buffer[c]

StreamInv == \A c \in Conns : StreamKept(c)

BudgetInv == /\ IsFiniteSet(Held)
             /\ usedBytes <= Cardinality(Held)
             /\ (\A c \in Conns : ~closed[c]) => usedBytes = Cardinality(Held)

Inv == TypeOK /\ PlacesInv /\ SlotInv /\ StreamInv /\ BudgetInv

----------------------------------------------------------------------------
(* Types, and how a thread moves.                                          *)

Places == LoopPlaces \cup UserPlaces \cup AcceptPlaces
Thens  == {"idle", "refuse", "write", "ticked", "slot", "shut"}
ThreadRecords == [at : Places, conn : Conns \cup {None}, n : Nat, then : Thens]

LEMMA Constants ==
    /\ Loop \in Threads /\ Accept \in Threads /\ \A u \in Users : u \in Threads
    /\ Loop # Accept /\ Loop \notin Users /\ Accept \notin Users
    /\ \A t \in Threads : t = Loop \/ t = Accept \/ t \in Users
    /\ None \notin Conns /\ None \notin Fds
    /\ \A k \in Sizes : k \in Nat /\ k > 0
    /\ MaxBytes \in Nat /\ MaxConnections \in Nat /\ MaxConnections > 0
  BY EventLoopAssumption DEF Threads

LEMMA PlacesNamed ==
    Places = {"idle", "bind", "register", "publish", "refuse", "lose", "setLost",
              "unlist", "shut", "remove", "close", "abort", "closeRelease",
              "closeSocket", "onClose", "slot", "send", "interest", "modify",
              "ticked", "write", "socket", "consume", "consumed"}
  BY DEF Places, LoopPlaces, UserPlaces, AcceptPlaces, EndPlaces, LossPlaces, ClosePlaces

LEMMA Types ==
    TypeOK <=>
      /\ stage \in [Conns -> {"new", "admitted", "bound", "published"}]
      /\ fd \in [Conns -> Fds \cup {None}] /\ key \in [Conns -> Fds \cup {None}]
      /\ interest \in [Conns -> BOOLEAN]
      /\ closed \in [Conns -> BOOLEAN] /\ lost \in [Conns -> BOOLEAN]
      /\ known \subseteq Conns /\ clients \subseteq Conns
      /\ buffer \in [Conns -> Nat] /\ queuedBytes \in [Conns -> Nat]
      /\ pendingWrites \in [Conns -> Nat]
      /\ taken \in [Conns -> Nat] /\ written \in [Conns -> Nat]
      /\ released \in [Conns -> 0..2] /\ interrupted \subseteq Conns
      /\ usedBytes \in 0..MaxBytes /\ slots \in 0..MaxConnections
      /\ thread \in [Threads -> ThreadRecords]
  BY PlacesNamed DEF TypeOK, ThreadRecords, Thens

LEMMA TypesNext ==
    TypeOK' <=>
      /\ stage' \in [Conns -> {"new", "admitted", "bound", "published"}]
      /\ fd' \in [Conns -> Fds \cup {None}] /\ key' \in [Conns -> Fds \cup {None}]
      /\ interest' \in [Conns -> BOOLEAN]
      /\ closed' \in [Conns -> BOOLEAN] /\ lost' \in [Conns -> BOOLEAN]
      /\ known' \subseteq Conns /\ clients' \subseteq Conns
      /\ buffer' \in [Conns -> Nat] /\ queuedBytes' \in [Conns -> Nat]
      /\ pendingWrites' \in [Conns -> Nat]
      /\ taken' \in [Conns -> Nat] /\ written' \in [Conns -> Nat]
      /\ released' \in [Conns -> 0..2] /\ interrupted' \subseteq Conns
      /\ usedBytes' \in 0..MaxBytes /\ slots' \in 0..MaxConnections
      /\ thread' \in [Threads -> ThreadRecords]
  BY PlacesNamed DEF TypeOK, ThreadRecords, Thens

\* A record of a thread, by its fields.
LEMMA Fields ==
    ASSUME NEW place, NEW c, NEW n, NEW then
    PROVE  /\ At(place, c, n, then).at = place /\ At(place, c, n, then).conn = c
           /\ At(place, c, n, then).n = n /\ At(place, c, n, then).then = then
           /\ place \in Places /\ c \in Conns \cup {None} /\ n \in Nat
              /\ then \in Thens
                 => At(place, c, n, then) \in ThreadRecords
  BY DEF At, ThreadRecords

LEMMA IdleFields ==
    /\ Idle.at = "idle" /\ Idle.conn = None /\ Idle.n = 0 /\ Idle.then = "idle"
    /\ Idle \in ThreadRecords
  BY DEF Idle, At, ThreadRecords, Thens, Places, LoopPlaces

\* Where Return leads.
Back(t) == IF thread[t].then = "idle" THEN Idle
           ELSE At(thread[t].then, thread[t].conn, 0, "idle")

\* Where the thread goes that gave the slot back.
Released(t) == IF thread[t].then = "shut" THEN At("shut", thread[t].conn, 0, Caller(t))
               ELSE Back(t)

To(t, r) == thread' = [thread EXCEPT ![t] = r]

LEMMA Moved ==
    ASSUME TypeOK, NEW t \in Threads, NEW r, To(t, r)
    PROVE  /\ thread'[t] = r
           /\ \A u \in Threads : u # t => thread'[u] = thread[u]
           /\ r \in ThreadRecords => thread' \in [Threads -> ThreadRecords]
  <1>1. thread \in [Threads -> ThreadRecords]
    BY Types
  <1> QED
    BY <1>1 DEF To

LEMMA Ways ==
    ASSUME NEW t \in Threads
    PROVE  /\ \A place, c, n, then : Goto(t, place, c, n, then) => To(t, At(place, c, n, then))
           /\ Return(t) => To(t, Back(t))
           /\ thread' = [thread EXCEPT ![t] = Idle] => To(t, Idle)
  BY DEF Goto, Return, To, Back

----------------------------------------------------------------------------
(* The kinds of steps.                                                     *)

KeepQueues == /\ buffer' = buffer /\ queuedBytes' = queuedBytes
              /\ pendingWrites' = pendingWrites /\ closed' = closed
KeepSlots   == slots' = slots /\ released' = released
KeepHistory == taken' = taken /\ written' = written
KeepBudget  == usedBytes' = usedBytes
KeepStage   == stage' = stage
KeepAll     == KeepQueues /\ KeepSlots /\ KeepHistory /\ KeepBudget /\ KeepStage

\* The thread t goes to r, and nothing else changes but tables and sockets.
Enters(t, r) ==
    /\ t = Loop /\ thread[t].at = "idle"
    /\ \E d \in Conns :
          /\ Bound(d)
          /\ r \in {At("send", d, 0, "write"), At("write", d, 0, "idle"),
                    At("remove", d, 0, "idle"), At("send", d, 0, "ticked")}
Called(t, r) ==
    /\ t \in Users /\ thread[t].at = "idle"
    /\ \E d \in Conns :
          /\ stage[d] # "new"
          /\ \/ r \in {At("send", d, 0, "idle"), At("lose", d, 0, "idle")}
             \/ r = At("remove", d, 0, "idle") /\ Bound(d)
Returns(t, r) ==
    /\ thread[t].at \in {"lose", "modify", "close", "shut", "ticked", "write", "socket"}
    /\ r = Back(t)
Fails(t, r) ==
    /\ t = Accept /\ thread[t].at \in {"bind", "register"}
    /\ r = At("lose", thread[t].conn, 0, "refuse")
Registers(t, r) ==
    /\ t = Accept /\ thread[t].at = "register"
    /\ r = At("publish", thread[t].conn, 0, "idle")
Ends(t, r) ==
    \/ \E places \in {<<"lose", "setLost">>, <<"setLost", "unlist">>, <<"unlist", "abort">>,
                      <<"abort", "shut">>, <<"closeSocket", "onClose">>} :
          /\ thread[t].at = places[1]
          /\ r = At(places[2], thread[t].conn, 0, thread[t].then)
    \/ /\ t = Loop /\ thread[t].at = "unlist" /\ thread[t].then # "slot"
       /\ r = At("remove", thread[t].conn, 0, "idle")
    \/ thread[t].at = "unlist" /\ r = Idle
    \/ /\ thread[t].at = "onClose"
       /\ r = IF thread[t].then = "shut" THEN At("slot", thread[t].conn, 0, "shut")
                                         ELSE At("lose", thread[t].conn, 0, "slot")
    \/ thread[t].at = "remove" /\ r = At("close", thread[t].conn, 0, "idle")
    \/ /\ t = Loop /\ thread[t].at \in {"send", "ticked", "socket"}
       /\ r = At("remove", thread[t].conn, 0, "idle")
    \/ t = Loop /\ thread[t].at = "ticked" /\ r = At("lose", thread[t].conn, 0, "idle")
GoesOn(t, r) ==
    \/ thread[t].at = "send" /\ r = Idle
    \/ /\ thread[t].at = "interest"
       /\ \E n \in Nat : r = At("modify", thread[t].conn, n, thread[t].then)
Offers(t, r) ==
    /\ t = Loop /\ thread[t].at = "write"
    /\ ~closed[thread[t].conn] /\ buffer[thread[t].conn] # 0
    /\ r = At("socket", thread[t].conn, buffer[thread[t].conn], "idle")
Hops(t, r) == \/ Enters(t, r) \/ Called(t, r) \/ Returns(t, r) \/ Fails(t, r)
              \/ Registers(t, r) \/ Ends(t, r) \/ GoesOn(t, r) \/ Offers(t, r)

HopKind == \E t \in Threads : \E r : Hops(t, r) /\ To(t, r) /\ KeepAll

\* The accept thread.
Admits(c) ==
    /\ thread[Accept].at = "idle" /\ stage[c] = "new"
    /\ stage' = [stage EXCEPT ![c] = "admitted"]
    /\ slots > 0 /\ slots' = slots - 1 /\ released' = released
    /\ To(Accept, At("bind", c, 0, "idle"))
    /\ KeepQueues /\ KeepHistory /\ KeepBudget
Binds(c) ==
    /\ thread[Accept].at = "bind" /\ c = thread[Accept].conn
    /\ stage' = [stage EXCEPT ![c] = "bound"]
    /\ To(Accept, At("register", c, 0, "idle"))
    /\ KeepQueues /\ KeepSlots /\ KeepHistory /\ KeepBudget
Publishes(c, r) ==
    /\ thread[Accept].at = "publish" /\ c = thread[Accept].conn
    /\ stage' = [stage EXCEPT ![c] = "published"]
    /\ r = Idle \/ r = At("lose", c, 0, "refuse")
    /\ To(Accept, r)
    /\ KeepQueues /\ KeepSlots /\ KeepHistory /\ KeepBudget
Refuses(c) ==
    /\ thread[Accept].at = "refuse" /\ c = thread[Accept].conn
    /\ IF stage[c] = "published" THEN KeepSlots ELSE ReleaseSlot(c)
    /\ To(Accept, Idle)
    /\ KeepQueues /\ KeepHistory /\ KeepBudget /\ KeepStage
AcceptKind == \E c \in Conns : \/ Admits(c) \/ Binds(c) \/ Refuses(c)
                               \/ \E r : Publishes(c, r)

\* The end of a connection.
Flags(t, c) ==
    /\ thread[t].at \in {"close", "abort"} /\ c = thread[t].conn
    /\ ~closed[c] /\ Bound(c)
    /\ closed' = [closed EXCEPT ![c] = TRUE]
    /\ buffer' = [buffer EXCEPT ![c] = 0]
    /\ queuedBytes' = [queuedBytes EXCEPT ![c] = 0]
    /\ pendingWrites' = [pendingWrites EXCEPT ![c] = 0]
    /\ To(t, At("closeRelease", c, queuedBytes[c],
                IF thread[t].at = "abort" THEN "shut" ELSE "idle"))
    /\ KeepSlots /\ KeepHistory /\ KeepBudget /\ KeepStage
Frees(t, c) ==
    /\ thread[t].at = "closeRelease" /\ c = thread[t].conn
    /\ ReleaseBytes(thread[t].n)
    /\ To(t, At("closeSocket", c, 0, thread[t].then))
    /\ KeepQueues /\ KeepSlots /\ KeepHistory /\ KeepStage
Gives(t, c) ==
    /\ thread[t].at = "slot" /\ c = thread[t].conn
    /\ ReleaseSlot(c)
    /\ To(t, Released(t))
    /\ KeepQueues /\ KeepHistory /\ KeepBudget /\ KeepStage
CloseKind == \E t \in Threads, c \in Conns : Flags(t, c) \/ Frees(t, c) \/ Gives(t, c)

\* The bytes.
Sends(t, c, k) ==
    /\ thread[t].at = "send" /\ c = thread[t].conn /\ SendOk(c, k)
    /\ usedBytes' = usedBytes + k
    /\ buffer' = [buffer EXCEPT ![c] = @ + k]
    /\ queuedBytes' = [queuedBytes EXCEPT ![c] = @ + k]
    /\ pendingWrites' = [pendingWrites EXCEPT ![c] = @ + 1]
    /\ taken' = [taken EXCEPT ![c] = @ + k]
    /\ closed' = closed /\ written' = written
    /\ To(t, At("interest", c, 0, thread[t].then))
    /\ KeepSlots /\ KeepStage
Writes(c, k) ==
    /\ thread[Loop].at = "socket" /\ c = thread[Loop].conn
    /\ k \in Nat /\ k > 0 /\ k <= thread[Loop].n
    /\ written' = [written EXCEPT ![c] = @ + k]
    /\ taken' = taken
    /\ \E then \in {"write", "idle"} : To(Loop, At("consume", c, k, then))
    /\ KeepQueues /\ KeepSlots /\ KeepBudget /\ KeepStage
Consumes(c, k, rest) ==
    /\ thread[Loop].at = "consume" /\ c = thread[Loop].conn /\ k = thread[Loop].n
    /\ rest = Max({0, buffer[c] - k})
    /\ buffer' = [buffer EXCEPT ![c] = rest]
    /\ queuedBytes' = [queuedBytes EXCEPT ![c] = Max({0, @ - k})]
    /\ pendingWrites' = [pendingWrites EXCEPT ![c] = IF rest = 0 THEN 0 ELSE @]
    /\ closed' = closed
    /\ To(Loop, At("consumed", c, k, thread[Loop].then))
    /\ KeepSlots /\ KeepHistory /\ KeepBudget /\ KeepStage
Releases ==
    /\ thread[Loop].at = "consumed"
    /\ ReleaseBytes(thread[Loop].n)
    /\ To(Loop, Back(Loop))
    /\ KeepQueues /\ KeepSlots /\ KeepHistory /\ KeepStage
BytesKind == \/ \E c \in Conns : \/ \E t \in Threads, k \in Sizes : Sends(t, c, k)
                                 \/ \E k \in Nat : Writes(c, k)
                                 \/ \E k \in Nat : \E rest : Consumes(c, k, rest)
             \/ Releases

Rests == KeepAll /\ thread' = thread

Kind == HopKind \/ AcceptKind \/ CloseKind \/ BytesKind \/ Rests

\* Every step is of one of these kinds.
LEMMA Kinds ==
    ASSUME TypeOK, PlacesInv, [Next]_vars
    PROVE  Kind
  <1>0. /\ Loop \in Threads /\ Accept \in Threads
        /\ \A u \in Users : u \in Threads
        /\ Loop # Accept /\ Accept \notin Users /\ Loop \notin Users
        /\ None \notin Conns
        /\ \A t \in Threads : t = Loop \/ t = Accept \/ t \in Users
    BY Constants
  <1>1. /\ \A t \in Threads : thread[t].at # "idle" => thread[t].conn \in Conns
        /\ thread[Loop].at # "idle" => Bound(thread[Loop].conn)
        /\ thread[Loop].n \in Nat
    BY <1>0 DEF PlacesInv, LoopPlaced, UserPlaced, AcceptPlaced, LoopFits, UserFits,
                AcceptFits, TypeOK
  <1>2. /\ \A c \in clients : c \in Conns /\ stage[c] # "new"
        /\ \A c \in known : Bound(c)
        /\ \A c \in Conns : closed[c] \/ key[c] # None => Bound(c)
        /\ \A t \in Threads : thread[t].at = "idle" <=> thread[t] = Idle
    BY DEF PlacesInv, TablesPlaced, TypeOK
  <1>3. ASSUME NEW t \in Threads, NEW r, Hops(t, r), To(t, r), KeepAll PROVE Kind
    BY <1>3 DEF Kind, HopKind
  <1> USE DEF queues, selector, tables, slotting, history,
              KeepQueues, KeepSlots, KeepHistory, KeepBudget, KeepStage
  <1>4. ASSUME NEW t \in Threads, Run(t) PROVE Kind
    <2>1. CASE LossTest(t)
      <3>1. /\ thread[t].at = "lose" /\ KeepAll
            /\ \/ To(t, Back(t))
               \/ To(t, At("setLost", thread[t].conn, 0, thread[t].then))
        BY <2>1, Ways DEF LossTest, KeepAll
      <3> QED
        BY <1>3, <3>1 DEF Hops, Returns, Ends
    <2>10. CASE LossSet(t)
      <3>1. /\ thread[t].at = "setLost" /\ KeepAll
            /\ To(t, At("unlist", thread[t].conn, 0, thread[t].then))
        BY <2>10, Ways DEF LossSet, KeepAll
      <3> QED
        BY <1>3, <3>1 DEF Hops, Ends
    <2>11. CASE Unlist(t)
      <3>1. /\ thread[t].at = "unlist" /\ KeepAll
            /\ \/ To(t, At("abort", thread[t].conn, 0, thread[t].then))
               \/ /\ t = Loop /\ thread[t].then # "slot"
                  /\ To(t, At("remove", thread[t].conn, 0, "idle"))
               \/ To(t, Idle)
        BY <2>11, Ways DEF Unlist, Raise, KeepAll
      <3> QED
        BY <1>3, <3>1 DEF Hops, Ends
    <2>12. CASE Shut(t)
      <3>1. thread[t].at = "shut" /\ To(t, Back(t)) /\ KeepAll
        BY <2>12, Ways DEF Shut, KeepAll
      <3> QED
        BY <1>3, <3>1 DEF Hops, Returns
    <2>2. CASE Unregister(t)
      <3>1. To(t, At("close", thread[t].conn, 0, "idle"))
        BY <2>2, Ways DEF Unregister
      <3>2. thread[t].at = "remove" /\ KeepAll
        BY <2>2 DEF Unregister, KeepAll
      <3> QED
        BY <1>3, <3>1, <3>2 DEF Hops, Ends
    <2>3. CASE CloseFlag(t)
      <3>1. thread[t].at \in {"close", "abort"} /\ thread[t].conn \in Conns
        BY <1>1, <2>3 DEF CloseFlag
      <3>2. CASE closed[thread[t].conn] \/ ~Bound(thread[t].conn)
        <4>1. /\ KeepAll
              /\ \/ /\ thread[t].at = "abort"
                    /\ To(t, At("shut", thread[t].conn, 0, thread[t].then))
                 \/ thread[t].at = "close" /\ To(t, Back(t))
          BY <2>3, <3>2, Ways DEF CloseFlag, KeepAll
        <4> QED
          BY <1>3, <4>1 DEF Hops, Returns, Ends
      <3>3. CASE ~closed[thread[t].conn] /\ Bound(thread[t].conn)
        <4>1. Flags(t, thread[t].conn)
          BY <2>3, <3>1, <3>3, Ways DEF CloseFlag, Flags
        <4> QED
          BY <3>1, <4>1 DEF Kind, CloseKind
      <3> QED
        BY <3>2, <3>3
    <2>4. CASE CloseRelease(t)
      <3>1. Frees(t, thread[t].conn) /\ thread[t].conn \in Conns
        BY <1>1, <2>4, Ways DEF CloseRelease, Frees
      <3> QED
        BY <3>1 DEF Kind, CloseKind
    <2>5. CASE CloseSocket(t)
      <3>1. /\ thread[t].at = "closeSocket" /\ KeepAll
            /\ To(t, At("onClose", thread[t].conn, 0, thread[t].then))
        BY <2>5, Ways DEF CloseSocket, KeepAll
      <3> QED
        BY <1>3, <3>1 DEF Hops, Ends
    <2>13. CASE OnClose(t)
      <3>1. /\ thread[t].at = "onClose" /\ KeepAll
            /\ To(t, IF thread[t].then = "shut" THEN At("slot", thread[t].conn, 0, "shut")
                                                ELSE At("lose", thread[t].conn, 0, "slot"))
        BY <2>13, Ways DEF OnClose, KeepAll
      <3> QED
        BY <1>3, <3>1 DEF Hops, Ends
    <2>14. CASE ReturnSlot(t)
      <3>1. thread[t].at = "slot" /\ thread[t].conn \in Conns
        BY <1>1, <2>14 DEF ReturnSlot
      <3>2. To(t, Released(t))
        BY <2>14, Ways DEF ReturnSlot, Released
      <3>3. Gives(t, thread[t].conn)
        BY <2>14, <3>1, <3>2 DEF ReturnSlot, Gives
      <3> QED
        BY <3>1, <3>3 DEF Kind, CloseKind
    <2>6. CASE ReadInterest(t)
      <3>1. PICK n \in Nat : To(t, At("modify", thread[t].conn, n, thread[t].then))
        <4>1. (IF buffer[thread[t].conn] > 0 THEN 1 ELSE 0) \in Nat
          OBVIOUS
        <4> QED
          BY <2>6, <4>1, Ways DEF ReadInterest
      <3>2. thread[t].at = "interest" /\ KeepAll
        BY <2>6 DEF ReadInterest, KeepAll
      <3> QED
        BY <1>3, <3>1, <3>2 DEF Hops, GoesOn
    <2>7. CASE Modify(t)
      <3>1. thread[t].at = "modify" /\ To(t, Back(t)) /\ KeepAll
        BY <2>7, Ways DEF Modify, KeepAll
      <3> QED
        BY <1>3, <3>1 DEF Hops, Returns
    <2>8. ASSUME NEW k \in Sizes, Send(t, k) PROVE Kind
      <3>1. Sends(t, thread[t].conn, k) /\ thread[t].conn \in Conns
        BY <1>1, <2>8, Ways DEF Send, Sends
      <3> QED
        BY <3>1 DEF Kind, BytesKind
    <2>9. ASSUME NEW k \in Sizes, SendRefused(t, k) PROVE Kind
      <3>1. /\ thread[t].at = "send" /\ KeepAll
            /\ \/ t = Loop /\ To(t, At("remove", thread[t].conn, 0, "idle"))
               \/ To(t, Idle)
        BY <2>9, Ways DEF SendRefused, KeepAll
      <3> QED
        BY <1>3, <3>1 DEF Hops, Ends, GoesOn
    <2> QED
      BY <1>4, <2>1, <2>2, <2>3, <2>4, <2>5, <2>6, <2>7, <2>8, <2>9, <2>10, <2>11, <2>12,
         <2>13, <2>14 DEF Run
  <1>5. CASE AcceptRun
    <2>1. CASE Bind
      <3>1. Binds(thread[Accept].conn) /\ thread[Accept].conn \in Conns
        BY <1>0, <1>1, <2>1, Ways DEF Bind, Binds
      <3> QED
        BY <3>1 DEF Kind, AcceptKind
    <2>2. CASE Register
      <3>1. /\ thread[Accept].at = "register" /\ KeepAll
            /\ \/ To(Accept, At("publish", thread[Accept].conn, 0, "idle"))
               \/ To(Accept, At("lose", thread[Accept].conn, 0, "refuse"))
        BY <1>0, <2>2, Ways DEF Register, KeepAll
      <3> QED
        BY <1>0, <1>3, <3>1 DEF Hops, Registers, Fails
    <2>3. CASE Publish
      <3>1. thread[Accept].at = "publish" /\ thread[Accept].conn \in Conns
        BY <1>0, <1>1, <2>3 DEF Publish
      <3>2. Back(Accept) = Idle
        BY <3>1 DEF PlacesInv, AcceptPlaced, AcceptFits, EndPlaces, LossPlaces, ClosePlaces,
           Back
      <3>3. \E r : Publishes(thread[Accept].conn, r)
        <4>1. \/ To(Accept, Idle)
              \/ To(Accept, At("lose", thread[Accept].conn, 0, "refuse"))
          BY <1>0, <2>3, <3>2, Ways DEF Publish
        <4> QED
          BY <2>3, <3>1, <4>1 DEF Publish, Publishes
      <3> QED
        BY <3>1, <3>3 DEF Kind, AcceptKind
    <2>4. CASE AcceptFails
      <3>1. /\ thread[Accept].at = "bind" /\ KeepAll
            /\ To(Accept, At("lose", thread[Accept].conn, 0, "refuse"))
        BY <1>0, <2>4, Ways DEF AcceptFails, KeepAll
      <3> QED
        BY <1>0, <1>3, <3>1 DEF Hops, Fails
    <2>5. CASE Refuse
      <3>1. thread[Accept].at = "refuse" /\ thread[Accept].conn \in Conns
        BY <1>0, <1>1, <2>5 DEF Refuse
      <3>2. Back(Accept) = Idle
        BY <3>1 DEF PlacesInv, AcceptPlaced, AcceptFits, EndPlaces, LossPlaces, ClosePlaces,
           Back
      <3>3. Refuses(thread[Accept].conn)
        BY <1>0, <2>5, <3>2, Ways DEF Refuse, Refuses
      <3> QED
        BY <3>1, <3>3 DEF Kind, AcceptKind
    <2> QED
      BY <1>5, <2>1, <2>2, <2>3, <2>4, <2>5 DEF AcceptRun
  <1>6. CASE LoopRun
    <2>1. CASE Ticked
      <3>1. /\ thread[Loop].at = "ticked" /\ KeepAll
            /\ \/ To(Loop, Back(Loop))
               \/ To(Loop, At("lose", thread[Loop].conn, 0, "idle"))
               \/ To(Loop, At("remove", thread[Loop].conn, 0, "idle"))
        BY <1>0, <2>1, Ways DEF Ticked, KeepAll
      <3> QED
        BY <1>0, <1>3, <3>1 DEF Hops, Returns, Ends
    <2>2. CASE WriteStart
      <3>1. thread[Loop].at = "write" /\ KeepAll
        BY <2>2 DEF WriteStart, KeepAll
      <3>2. CASE buffer[thread[Loop].conn] = 0 \/ closed[thread[Loop].conn]
        <4>1. To(Loop, Back(Loop))
          BY <1>0, <2>2, <3>2, Ways DEF WriteStart
        <4> QED
          BY <1>0, <1>3, <3>1, <4>1 DEF Hops, Returns
      <3>3. CASE ~(buffer[thread[Loop].conn] = 0 \/ closed[thread[Loop].conn])
        <4>1. To(Loop, At("socket", thread[Loop].conn, buffer[thread[Loop].conn], "idle"))
          BY <1>0, <2>2, <3>3, Ways DEF WriteStart
        <4>2. Offers(Loop, At("socket", thread[Loop].conn, buffer[thread[Loop].conn],
                               "idle"))
          BY <3>1, <3>3 DEF Offers
        <4> QED
          BY <1>0, <1>3, <3>1, <4>1, <4>2 DEF Hops
      <3> QED
        BY <3>2, <3>3
    <2>3. CASE SocketRefuses
      <3>1. /\ thread[Loop].at = "socket" /\ KeepAll
            /\ \/ To(Loop, Back(Loop))
               \/ To(Loop, At("remove", thread[Loop].conn, 0, "idle"))
        BY <1>0, <2>3, Ways DEF SocketRefuses, KeepAll
      <3> QED
        BY <1>0, <1>3, <3>1 DEF Hops, Returns, Ends
    <2>4. CASE Consume
      <3>1. thread[Loop].conn \in Conns
        BY <1>0, <1>1, <2>4 DEF Consume
      <3>2. Consumes(thread[Loop].conn, thread[Loop].n,
                     Max({0, buffer[thread[Loop].conn] - thread[Loop].n}))
        BY <1>0, <2>4, Ways DEF Consume, Consumes
      <3> QED
        BY <1>1, <3>1, <3>2 DEF Kind, BytesKind
    <2>5. CASE ConsumeRelease
      <3>1. Releases
        BY <1>0, <2>5, Ways DEF ConsumeRelease, Releases
      <3> QED
        BY <3>1 DEF Kind, BytesKind
    <2>6. ASSUME NEW k \in 1..MaxQueueBytes, SocketSend(k) PROVE Kind
      <3>1. thread[Loop].conn \in Conns
        BY <1>0, <1>1, <2>6 DEF SocketSend
      <3>2. k \in Nat /\ k > 0 /\ k <= thread[Loop].n
        BY <1>1, <2>6 DEF SocketSend
      <3>3. \E then \in {"write", "idle"} :
               To(Loop, At("consume", thread[Loop].conn, k, then))
        <4>1. (IF k = thread[Loop].n THEN "write" ELSE "idle") \in {"write", "idle"}
          OBVIOUS
        <4> QED
          BY <1>0, <2>6, <4>1, Ways DEF SocketSend
      <3>4. Writes(thread[Loop].conn, k)
        BY <2>6, <3>2, <3>3 DEF SocketSend, Writes
      <3> QED
        BY <3>1, <3>2, <3>4 DEF Kind, BytesKind
    <2> QED
      BY <1>6, <2>1, <2>2, <2>3, <2>4, <2>5, <2>6 DEF LoopRun
  <1>7. ASSUME NEW c \in Conns, Admit(c) PROVE Kind
    <2>1. Admits(c)
      BY <1>0, <1>2, <1>7, Ways DEF Admit, Admits
    <2> QED
      BY <2>1 DEF Kind, AcceptKind
  <1>8. ASSUME NEW c \in Conns, Read(c) \/ WriteReady(c) \/ StaleEvent(c) \/ Tick(c)
        PROVE  Kind
    <2>1. thread[Loop].at = "idle" /\ Bound(c) /\ KeepAll
      BY <1>0, <1>2, <1>8 DEF Read, WriteReady, StaleEvent, Tick, Ready, KeepAll
    <2>2. \/ To(Loop, At("send", c, 0, "write")) \/ To(Loop, At("write", c, 0, "idle"))
          \/ To(Loop, At("remove", c, 0, "idle")) \/ To(Loop, At("send", c, 0, "ticked"))
      BY <1>0, <1>8, Ways DEF Read, WriteReady, StaleEvent, Tick
    <2>3. \A r \in {At("send", c, 0, "write"), At("write", c, 0, "idle"),
                    At("remove", c, 0, "idle"), At("send", c, 0, "ticked")} :
             Hops(Loop, r)
      BY <2>1 DEF Hops, Enters
    <2> QED
      BY <1>0, <1>3, <2>1, <2>2, <2>3
  <1>9. ASSUME NEW u \in Users, NEW c \in Conns, Resolve(u, c) \/ Disconnect(u, c)
        PROVE  Kind
    <2>1. thread[u].at = "idle" /\ stage[c] # "new" /\ KeepAll
      BY <1>0, <1>2, <1>9 DEF Resolve, Disconnect, KeepAll
    <2>2. \/ To(u, At("send", c, 0, "idle")) \/ To(u, At("lose", c, 0, "idle"))
          \/ Bound(c) /\ To(u, At("remove", c, 0, "idle"))
      BY <1>0, <1>9, Ways DEF Resolve, Disconnect, Bound
    <2>3. /\ Hops(u, At("send", c, 0, "idle")) /\ Hops(u, At("lose", c, 0, "idle"))
          /\ Bound(c) => Hops(u, At("remove", c, 0, "idle"))
      BY <2>1 DEF Hops, Called
    <2> QED
      BY <1>0, <1>3, <2>1, <2>2, <2>3
  <1>10. CASE UNCHANGED vars
    BY <1>10 DEF vars, Kind, Rests, KeepAll
  <1> QED
    BY <1>4, <1>5, <1>6, <1>7, <1>8, <1>9, <1>10 DEF Next

\* A connection gets on: nothing undoes that it was admitted or bound.
LEMMA StagesGrow ==
    ASSUME TypeOK, PlacesInv, Kind
    PROVE  /\ stage' \in [Conns -> {"new", "admitted", "bound", "published"}]
           /\ \A c \in Conns : /\ stage[c] # "new" => stage'[c] # "new"
                               /\ Bound(c) => Bound(c)'
  <1>1. stage \in [Conns -> {"new", "admitted", "bound", "published"}]
    BY Types
  <1>2. CASE stage' = stage
    BY <1>1, <1>2 DEF Bound
  <1>3. ASSUME NEW c \in Conns, Admits(c) \/ Binds(c) \/ \E r : Publishes(c, r)
        PROVE  /\ stage' \in [Conns -> {"new", "admitted", "bound", "published"}]
               /\ \A d \in Conns : /\ stage[d] # "new" => stage'[d] # "new"
                                   /\ Bound(d) => Bound(d)'
    <2>1. /\ \/ stage' = [stage EXCEPT ![c] = "admitted"] /\ stage[c] = "new"
             \/ stage' = [stage EXCEPT ![c] = "bound"]
             \/ stage' = [stage EXCEPT ![c] = "published"]
      BY <1>3 DEF Admits, Binds, Publishes
    <2> QED
      BY <1>1, <2>1 DEF Bound
  <1>4. CASE stage' # stage
    <2>1. AcceptKind
      BY <1>4 DEF Kind, HopKind, CloseKind, BytesKind, Rests, KeepAll, KeepStage, Flags,
                  Frees, Gives, Sends, Writes, Consumes, Releases
    <2> QED
      BY <1>3, <1>4, <2>1 DEF AcceptKind, Refuses, KeepStage
  <1> QED
    BY <1>2, <1>4

\* The tables and the sockets, which several kinds of steps change alike.
SocketTypes ==
    /\ fd \in [Conns -> Fds \cup {None}] /\ key \in [Conns -> Fds \cup {None}]
    /\ interest \in [Conns -> BOOLEAN] /\ lost \in [Conns -> BOOLEAN]
    /\ known \subseteq Conns /\ clients \subseteq Conns /\ interrupted \subseteq Conns

Listed == /\ \A c \in clients : stage[c] # "new"
          /\ \A c \in known : Bound(c)
          /\ \A c \in Conns : key[c] # None => Bound(c)

LEMMA TablesStep ==
    ASSUME TypeOK, PlacesInv, [Next]_vars
    PROVE  SocketTypes' /\ Listed'
  <1>0. /\ Loop \in Threads /\ Accept \in Threads /\ \A u \in Users : u \in Threads
        /\ None \notin Conns /\ None \notin Fds
        /\ \A t \in Threads : t = Loop \/ t = Accept \/ t \in Users
    BY Constants
  <1>1. SocketTypes
    BY Types DEF SocketTypes
  <1>2. Listed
    BY DEF PlacesInv, TablesPlaced, Listed
  <1>3. /\ stage' \in [Conns -> {"new", "admitted", "bound", "published"}]
        /\ \A c \in Conns : /\ stage[c] # "new" => stage'[c] # "new"
                            /\ Bound(c) => Bound(c)'
    BY Kinds, StagesGrow
  <1>4. \A t \in Threads : thread[t].at # "idle" => thread[t].conn \in Conns
    BY <1>0 DEF PlacesInv, LoopPlaced, UserPlaced, AcceptPlaced, LoopFits, UserFits,
                AcceptFits
  <1>5. /\ \A u \in Threads : thread[u].at = "modify" => Bound(thread[u].conn)
        /\ thread[Accept].at = "register" => Bound(thread[Accept].conn)
    BY <1>0 DEF PlacesInv, LoopPlaced, UserPlaced, AcceptPlaced, LoopFits, UserFits,
                AcceptFits, AcceptPlaces, EndPlaces, LossPlaces, ClosePlaces, Bound
  <1>6. ASSUME fd' = fd, key' = key, interest' = interest,
               lost' = lost, clients' \subseteq clients, known' \subseteq known,
               interrupted' = interrupted
        PROVE  SocketTypes' /\ Listed'
    BY <1>1, <1>2, <1>3, <1>6 DEF SocketTypes, Listed
  <1>7. ASSUME NEW c \in Conns, fd' = fd \/ fd' = [fd EXCEPT ![c] = None],
               key' = key \/ key' = [key EXCEPT ![c] = None],
               interest' = interest,
               lost' = lost \/ lost' = [lost EXCEPT ![c] = TRUE],
               clients' \subseteq clients, known' \subseteq known,
               interrupted' \subseteq interrupted \cup {c}
        PROVE  SocketTypes' /\ Listed'
    <2>1. SocketTypes'
      BY <1>1, <1>7 DEF SocketTypes
    <2>2. \A d \in Conns : key'[d] # None => key[d] # None
      BY <1>1, <1>7 DEF SocketTypes
    <2> QED
      BY <1>1, <1>2, <1>3, <1>7, <2>1, <2>2 DEF SocketTypes, Listed
  <1>8. ASSUME NEW c \in Conns, Bound(c), fd' = fd, lost' = lost, clients' = clients,
               known' = known, interrupted' = interrupted,
               key' \in {key, [key EXCEPT ![c] = fd[c]], [key EXCEPT ![c] = None]},
               \/ interest' = interest
               \/ \E w \in BOOLEAN : interest' = [interest EXCEPT ![c] = w]
        PROVE  SocketTypes' /\ Listed'
    <2>1. SocketTypes'
      BY <1>1, <1>8 DEF SocketTypes
    <2>2. \A d \in Conns : key'[d] # None => key[d] # None \/ d = c
      BY <1>1, <1>8 DEF SocketTypes
    <2> QED
      BY <1>1, <1>2, <1>3, <1>8, <2>1, <2>2 DEF SocketTypes, Listed
  <1> USE DEF queues, selector, tables, slotting, history
  <1>9. ASSUME NEW t \in Threads, Run(t) PROVE SocketTypes' /\ Listed'
    <2>1. CASE LossTest(t)
      BY <1>6, <2>1 DEF LossTest
    <2>2. CASE Unregister(t)
      BY <1>4, <1>7, <2>2 DEF Unregister
    <2>3. CASE CloseFlag(t)
      BY <1>6, <2>3 DEF CloseFlag
    <2>4. CASE CloseRelease(t)
      BY <1>6, <2>4 DEF CloseRelease
    <2>5. CASE CloseSocket(t)
      BY <1>4, <1>7, <2>5 DEF CloseSocket
    <2>9. CASE LossSet(t)
      BY <1>4, <1>7, <2>9 DEF LossSet
    <2>10. CASE Unlist(t)
      BY <1>4, <1>7, <2>10 DEF Unlist, Raise
    <2>11. CASE Shut(t)
      BY <1>4, <1>7, <2>11 DEF Shut
    <2>12. CASE OnClose(t)
      BY <1>6, <2>12 DEF OnClose
    <2>13. CASE ReturnSlot(t)
      BY <1>6, <2>13 DEF ReturnSlot, ReleaseSlot
    <2>6. CASE ReadInterest(t)
      BY <1>6, <2>6 DEF ReadInterest
    <2>7. CASE Modify(t)
      <3>1. thread[t].conn \in Conns /\ Bound(thread[t].conn)
        BY <1>4, <1>5, <2>7 DEF Modify
      <3> QED
        BY <1>8, <2>7, <3>1 DEF Modify
    <2>8. ASSUME NEW k \in Sizes, Send(t, k) \/ SendRefused(t, k)
          PROVE  SocketTypes' /\ Listed'
      BY <1>6, <2>8 DEF Send, SendRefused
    <2> QED
      BY <1>9, <2>1, <2>2, <2>3, <2>4, <2>5, <2>6, <2>7, <2>8, <2>9, <2>10, <2>11, <2>12,
         <2>13 DEF Run
  <1>10. CASE AcceptRun
    <2>1. CASE Bind
      <3>1. PICK c \in Conns : c = thread[Accept].conn
        BY <1>0, <1>4, <2>1 DEF Bind
      <3>2. /\ known' = known \cup {c} /\ stage' = [stage EXCEPT ![c] = "bound"]
            /\ UNCHANGED <<fd, key, interest, lost, clients, interrupted>>
        BY <2>1, <3>1 DEF Bind
      <3>3. stage'[c] = "bound"
        BY <3>2, Types
      <3>4. Bound(c)'
        BY <3>3 DEF Bound
      <3> QED
        BY <1>1, <1>2, <1>3, <3>2, <3>4 DEF SocketTypes, Listed
    <2>2. CASE Register
      <3>1. PICK c \in Conns : c = thread[Accept].conn /\ Bound(c)
        BY <1>0, <1>4, <1>5, <2>2 DEF Register
      <3>2. /\ fd' = fd /\ lost' = lost /\ clients' = clients /\ known' = known
            /\ interrupted' = interrupted
            /\ \/ /\ key' = [key EXCEPT ![c] = fd[c]]
                  /\ interest' = [interest EXCEPT ![c] = buffer[c] > 0]
               \/ key' = key /\ interest' = interest
        BY <2>2, <3>1 DEF Register
      <3>3. (buffer[c] > 0) \in BOOLEAN
        OBVIOUS
      <3> QED
        BY <1>8, <3>1, <3>2, <3>3
    <2>3. CASE Publish \/ AcceptFails
      BY <1>6, <2>3 DEF Publish, AcceptFails
    <2>4. CASE Refuse
      BY <1>0, <1>4, <1>7, <2>4 DEF Refuse, ReleaseSlot
    <2> QED
      BY <1>10, <2>1, <2>2, <2>3, <2>4 DEF AcceptRun
  <1>11. CASE LoopRun
    BY <1>6, <1>11 DEF LoopRun, Ticked, WriteStart, SocketRefuses, Consume, ConsumeRelease,
                       SocketSend
  <1>12. ASSUME NEW c \in Conns, Admit(c) PROVE SocketTypes' /\ Listed'
    <2>1. /\ clients' = clients \cup {c} /\ UNCHANGED <<key, interest, lost, known, interrupted>>
          /\ \E f \in Fds : fd' = [fd EXCEPT ![c] = f]
          /\ stage' = [stage EXCEPT ![c] = "admitted"]
      BY <1>12 DEF Admit
    <2>2. stage'[c] # "new"
      BY <2>1, Types
    <2> QED
      BY <1>1, <1>2, <1>3, <2>1, <2>2 DEF SocketTypes, Listed
  <1>13. ASSUME NEW c \in Conns, Read(c) \/ WriteReady(c) \/ StaleEvent(c) \/ Tick(c)
         PROVE  SocketTypes' /\ Listed'
    BY <1>6, <1>13 DEF Read, WriteReady, StaleEvent, Tick
  <1>14. ASSUME NEW u \in Users, NEW c \in Conns, Resolve(u, c) \/ Disconnect(u, c)
         PROVE  SocketTypes' /\ Listed'
    BY <1>6, <1>14 DEF Resolve, Disconnect
  <1>15. CASE UNCHANGED vars
    BY <1>6, <1>15 DEF vars
  <1> QED
    BY <1>9, <1>10, <1>11, <1>12, <1>13, <1>14, <1>15 DEF Next

----------------------------------------------------------------------------
(* Threads stay where they can be.                                         *)

Fits(t, r) == /\ t = Loop => LoopFits(r)
              /\ t = Accept => AcceptFits(r)
              /\ t \in Users => UserFits(r)
              /\ r.at = "idle" <=> r = Idle

StageGrows == \A c \in Conns : /\ stage[c] # "new" => stage'[c] # "new"
                               /\ Bound(c) => Bound(c)'
BoundOnceClosed == \A c \in Conns : closed[c] => Bound(c)

\* What a hop leads to.
LEMMA HopsFit ==
    ASSUME TypeOK, PlacesInv, NEW t \in Threads, NEW r, Hops(t, r)
    PROVE  Fits(t, r)
  <1> USE DEF Fits, LoopFits, UserFits, AcceptFits, LoopPlaces, UserPlaces, AcceptPlaces,
              EndPlaces, LossPlaces, ClosePlaces, At, Idle
  <1>0. /\ Loop # Accept /\ Loop \notin Users /\ Accept \notin Users
        /\ t = Loop \/ t = Accept \/ t \in Users
    BY Constants
  <1>1. /\ t = Loop => LoopFits(thread[t])
        /\ t = Accept => AcceptFits(thread[t])
        /\ t \in Users => UserFits(thread[t])
    BY DEF PlacesInv, LoopPlaced, UserPlaced, AcceptPlaced
  <1>2. CASE Enters(t, r)
    BY <1>0, <1>2 DEF Enters
  <1>3. CASE Called(t, r)
    BY <1>0, <1>3 DEF Called
  <1>4. CASE Returns(t, r)
    BY <1>0, <1>1, <1>4 DEF Returns, Back
  <1>5. CASE Fails(t, r)
    BY <1>0, <1>1, <1>5 DEF Fails
  <1>6. CASE Registers(t, r)
    BY <1>0, <1>1, <1>6 DEF Registers
  <1>7. CASE Ends(t, r)
    BY <1>0, <1>1, <1>7 DEF Ends
  <1>8. CASE GoesOn(t, r)
    BY <1>0, <1>1, <1>8 DEF GoesOn
  <1>9. CASE Offers(t, r)
    BY <1>0, <1>1, <1>9 DEF Offers
  <1> QED
    BY <1>2, <1>3, <1>4, <1>5, <1>6, <1>7, <1>8, <1>9 DEF Hops

\* A thread that moves disturbs no other.
LEMMA OneMoves ==
    ASSUME TypeOK, PlacesInv, StageGrows, Listed', BoundOnceClosed',
           NEW t \in Threads, NEW r, To(t, r), Fits(t, r)', stage' = stage \/ t = Accept
    PROVE  PlacesInv'
  <1>0. /\ Loop \in Threads /\ Accept \in Threads /\ \A u \in Users : u \in Threads
        /\ Loop # Accept /\ Loop \notin Users /\ Accept \notin Users
    BY Constants
  <1>1. thread'[t] = r /\ \A u \in Threads : u # t => thread'[u] = thread[u]
    BY Moved
  <1>2. LoopPlaced'
    <2>1. CASE t = Loop
      BY <1>1, <2>1 DEF Fits, LoopPlaced
    <2>2. CASE t # Loop
      BY <1>0, <1>1, <2>2 DEF PlacesInv, LoopPlaced, LoopFits, StageGrows
    <2> QED
      BY <2>1, <2>2
  <1>3. AcceptPlaced'
    <2>1. CASE t = Accept
      BY <1>1, <2>1 DEF Fits, AcceptPlaced
    <2>2. CASE t # Accept
      BY <1>0, <1>1, <2>2 DEF PlacesInv, AcceptPlaced, AcceptFits, LossPlaces,
                              ClosePlaces, Bound
    <2> QED
      BY <2>1, <2>2
  <1>4. ASSUME NEW u \in Users PROVE UserPlaced(u)'
    <2>1. CASE t = u
      BY <1>1, <2>1 DEF Fits, UserPlaced
    <2>2. CASE t # u
      BY <1>0, <1>1, <2>2 DEF PlacesInv, UserPlaced, UserFits, UserPlaces, EndPlaces,
                              LossPlaces, ClosePlaces, StageGrows
    <2> QED
      BY <2>1, <2>2
  <1>5. TablesPlaced'
    BY <1>1 DEF PlacesInv, TablesPlaced, Fits, Listed, BoundOnceClosed, Idle
  <1> QED
    BY <1>2, <1>3, <1>4, <1>5 DEF PlacesInv

LEMMA PlacesStep ==
    ASSUME TypeOK, PlacesInv, [Next]_vars
    PROVE  PlacesInv'
  <1> USE DEF KeepAll, KeepQueues, KeepStage
  <1>0. /\ Loop \in Threads /\ Accept \in Threads /\ \A u \in Users : u \in Threads
        /\ Loop # Accept /\ Loop \notin Users /\ Accept \notin Users
    BY Constants
  <1>1. Kind /\ StageGrows /\ Listed'
    BY Kinds, StagesGrow, TablesStep DEF StageGrows
  <1>2. /\ stage \in [Conns -> {"new", "admitted", "bound", "published"}]
        /\ closed \in [Conns -> BOOLEAN]
    BY Types
  <1>3. BoundOnceClosed
    BY DEF PlacesInv, TablesPlaced, BoundOnceClosed
  <1>4. \A t \in Threads : /\ t = Loop => LoopFits(thread[t])
                           /\ t = Accept => AcceptFits(thread[t])
                           /\ t \in Users => UserFits(thread[t])
    BY DEF PlacesInv, LoopPlaced, UserPlaced, AcceptPlaced
  <1>5. \A t \in Threads : t = Loop \/ t = Accept \/ t \in Users
    BY Constants
  <1>6. CASE HopKind
    <2>1. PICK t, r : t \in Threads /\ Hops(t, r) /\ To(t, r) /\ KeepAll
      BY <1>6 DEF HopKind
    <2>2. Fits(t, r)
      BY <2>1, HopsFit
    <2>3. Fits(t, r)'
      BY <2>1, <2>2 DEF Fits, LoopFits, UserFits, AcceptFits, Bound, Idle
    <2>4. BoundOnceClosed'
      BY <1>1, <1>3, <2>1 DEF BoundOnceClosed, StageGrows
    <2> QED
      BY <1>1, <2>1, <2>3, <2>4, OneMoves
  <1>10. ASSUME NEW t \in Threads, NEW r, To(t, r), Fits(t, r), stage' = stage,
                BoundOnceClosed'
         PROVE  PlacesInv'
    <2>1. Fits(t, r)'
      BY <1>10 DEF Fits, LoopFits, UserFits, AcceptFits, Bound, Idle
    <2> QED
      BY <1>1, <1>10, <2>1, OneMoves
  <1> USE DEF Fits, LoopFits, UserFits, AcceptFits, LoopPlaces, UserPlaces, AcceptPlaces,
              EndPlaces, LossPlaces, ClosePlaces
  <1>7. CASE AcceptKind
    <2>1. BoundOnceClosed'
      BY <1>1, <1>3, <1>7 DEF AcceptKind, Admits, Binds, Publishes, Refuses,
                              BoundOnceClosed, StageGrows
    <2>2. PICK c \in Conns : Admits(c) \/ Binds(c) \/ Refuses(c) \/ \E r : Publishes(c, r)
      BY <1>7 DEF AcceptKind
    <2>3. CASE Admits(c)
      <3>1. Fits(Accept, At("bind", c, 0, "idle"))'
        BY <1>0, <1>2, <2>3 DEF Admits, At, Idle
      <3> QED
        BY <1>0, <1>1, <2>1, <2>3, <3>1, OneMoves DEF Admits
    <2>4. CASE Binds(c)
      <3>1. Fits(Accept, At("register", c, 0, "idle"))'
        BY <1>0, <1>2, <2>4 DEF Binds, At, Idle
      <3> QED
        BY <1>0, <1>1, <2>1, <2>4, <3>1, OneMoves DEF Binds
    <2>5. ASSUME NEW r, Publishes(c, r) PROVE PlacesInv'
      <3>1. Fits(Accept, r)'
        BY <1>0, <1>2, <2>5 DEF Publishes, At, Idle
      <3> QED
        BY <1>0, <1>1, <2>1, <2>5, <3>1, OneMoves DEF Publishes
    <2>6. CASE Refuses(c)
      <3>1. Fits(Accept, Idle)'
        BY <1>0 DEF At, Idle
      <3> QED
        BY <1>0, <1>1, <2>1, <2>6, <3>1, OneMoves DEF Refuses
    <2> QED
      BY <2>2, <2>3, <2>4, <2>5, <2>6
  <1>8. CASE CloseKind
    <2>1. PICK t \in Threads, c \in Conns : Flags(t, c) \/ Frees(t, c) \/ Gives(t, c)
      BY <1>8 DEF CloseKind
    <2>2. stage' = stage
      BY <2>1 DEF Flags, Frees, Gives
    <2>3. CASE Flags(t, c)
      <3>1. Bound(c)
        BY <2>3 DEF Flags
      <3>2. BoundOnceClosed'
        BY <1>1, <1>2, <1>3, <2>3, <3>1 DEF Flags, BoundOnceClosed, StageGrows
      <3>3. PICK then : then = IF thread[t].at = "abort" THEN "shut" ELSE "idle"
        OBVIOUS
      <3>4. /\ then \in {"idle", "shut"}
            /\ t = Accept => then = "shut"
            /\ c \in Conns /\ stage[c] # "new" /\ Bound(c)
        BY <1>4, <2>3, <3>1, <3>3 DEF Flags, Bound
      <3>5. Fits(t, At("closeRelease", c, queuedBytes[c], then))
        BY <1>0, <3>4 DEF At, Idle
      <3>6. PICK r : r = At("closeRelease", c, queuedBytes[c], then)
        OBVIOUS
      <3>7. To(t, r)
        BY <2>3, <3>3, <3>6 DEF Flags
      <3>8. Fits(t, r)
        BY ONLY <3>5, <3>6
      <3> QED
        BY <1>10, <2>2, <3>2, <3>7, <3>8
    <2>4. CASE Frees(t, c) \/ Gives(t, c)
      <3>1. BoundOnceClosed'
        BY <1>1, <1>3, <2>4 DEF Frees, Gives, BoundOnceClosed, StageGrows
      <3>2. CASE Frees(t, c)
        <4>1. PICK r : r = At("closeSocket", c, 0, thread[t].then)
          OBVIOUS
        <4>2. Fits(t, r)
          BY <1>0, <1>4, <1>5, <3>2, <4>1 DEF Frees, At, Idle, Bound
        <4> QED
          BY <1>10, <2>2, <3>1, <3>2, <4>1, <4>2 DEF Frees
      <3>3. CASE Gives(t, c)
        <4>1. PICK r : r = Released(t)
          OBVIOUS
        <4>2. Fits(t, r)
          BY <1>0, <1>4, <1>5, <3>3, <4>1 DEF Gives, At, Idle, Back, Released, Caller
        <4> QED
          BY <1>10, <2>2, <3>1, <3>3, <4>1, <4>2 DEF Gives
      <3> QED
        BY <2>4, <3>2, <3>3
    <2> QED
      BY <2>1, <2>3, <2>4
  <1>9. CASE BytesKind
    <2>1. stage' = stage /\ closed' = closed
      BY <1>9 DEF BytesKind, Sends, Writes, Consumes, Releases
    <2>2. BoundOnceClosed'
      BY <1>1, <1>3, <2>1 DEF BoundOnceClosed, StageGrows
    <2>3. ASSUME NEW c \in Conns, NEW t \in Threads, NEW k \in Sizes, Sends(t, c, k)
          PROVE  PlacesInv'
      <3>1. PICK r : r = At("interest", c, 0, thread[t].then)
        OBVIOUS
      <3>2. Fits(t, r)
        BY <1>0, <1>4, <1>5, <2>3, <3>1 DEF Sends, SendOk, At, Idle, Bound
      <3> QED
        BY <1>10, <2>1, <2>2, <2>3, <3>1, <3>2 DEF Sends
    <2>4. ASSUME NEW c \in Conns, NEW k \in Nat, Writes(c, k) PROVE PlacesInv'
      <3>1. PICK then \in {"write", "idle"} : To(Loop, At("consume", c, k, then))
        BY <2>4 DEF Writes
      <3>2. Fits(Loop, At("consume", c, k, then))
        BY <1>0, <1>4, <2>4 DEF Writes, At, Idle
      <3> QED
        BY <1>0, <1>10, <2>1, <2>2, <3>1, <3>2
    <2>5. ASSUME NEW c \in Conns, NEW k \in Nat, NEW rest, Consumes(c, k, rest)
          PROVE  PlacesInv'
      <3>1. PICK r : r = At("consumed", c, k, thread[Loop].then)
        OBVIOUS
      <3>2. Fits(Loop, r)
        BY <1>0, <1>4, <2>5, <3>1 DEF Consumes, At, Idle
      <3> QED
        BY <1>0, <1>10, <2>1, <2>2, <2>5, <3>1, <3>2 DEF Consumes
    <2>6. CASE Releases
      <3>1. PICK r : r = Back(Loop)
        OBVIOUS
      <3>2. Fits(Loop, r)
        BY <1>0, <1>4, <2>6, <3>1 DEF Releases, At, Idle, Back
      <3> QED
        BY <1>0, <1>10, <2>1, <2>2, <2>6, <3>1, <3>2 DEF Releases
    <2> QED
      BY <1>9, <2>3, <2>4, <2>5, <2>6 DEF BytesKind
  <1>11. CASE Rests
    BY <1>1, <1>3, <1>11 DEF Rests, PlacesInv, LoopPlaced, UserPlaced, AcceptPlaced,
                             TablesPlaced, Listed, BoundOnceClosed, Bound
  <1> QED
    BY <1>1, <1>6, <1>7, <1>8, <1>9, <1>11 DEF Kind

----------------------------------------------------------------------------
(* A slot is released once.                                                *)

\* Who closes and who is accepted, after the thread t went to r.
LEMMA MoveCloses ==
    ASSUME TypeOK, NEW c \in Conns, NEW t \in Threads, NEW r, To(t, r)
    PROVE  /\ \A u \in Threads : u # t => (Closing(u, c)' <=> Closing(u, c))
           /\ Closing(t, c)' <=> Closes(r) /\ r.conn = c
           /\ t = Accept => (Accepting(c)' <=> r.at # "idle" /\ r.conn = c)
           /\ t # Accept => (Accepting(c)' <=> Accepting(c))
  <1>1. thread'[t] = r /\ \A u \in Threads : u # t => thread'[u] = thread[u]
    BY Moved
  <1>2. Accept \in Threads
    BY Constants
  <1> QED
    BY <1>1, <1>2 DEF Closing, Closes, Accepting

\* No thread begins to close c or to accept it.
NoneBegins(c) == /\ \A t \in Threads : Closing(t, c)' => Closing(t, c)
                 /\ Accepting(c)' => Accepting(c)

LEMMA SlotSame ==
    ASSUME NEW c \in Conns, SlotKept(c), NoneBegins(c), released'[c] = released[c],
           closed'[c] = closed[c], stage'[c] = stage[c]
    PROVE  SlotKept(c)'
  BY DEF SlotKept, NoneBegins, Unreleased

\* A hop does not begin a close, though an exception may end one.
LEMMA HopsCloseNone ==
    ASSUME TypeOK, PlacesInv, NEW t \in Threads, NEW r, Hops(t, r)
    PROVE  /\ Closes(r) => Closes(thread[t]) /\ r.conn = thread[t].conn
           /\ t = Accept => r.at = "idle" \/ r.conn = thread[t].conn
           /\ t = Accept => thread[t].at # "idle" \/ r.at = "idle"
  <1> USE DEF Closes, LossPlaces, ClosePlaces, At, Idle
  <1>0. Loop # Accept /\ Accept \notin Users
    BY Constants
  <1>1. /\ t = Loop => LoopFits(thread[t])
        /\ t = Accept => AcceptFits(thread[t])
        /\ t \in Users => UserFits(thread[t])
    BY DEF PlacesInv, LoopPlaced, UserPlaced, AcceptPlaced
  <1>2. t = Loop \/ t = Accept \/ t \in Users
    BY Constants
  <1>3. CASE Enters(t, r) \/ Called(t, r) \/ Fails(t, r) \/ Registers(t, r)
    BY <1>0, <1>3 DEF Enters, Called, Fails, Registers
  <1>4. CASE Returns(t, r)
    BY <1>0, <1>1, <1>2, <1>4 DEF Returns, Back, LoopFits, UserFits, AcceptFits, EndPlaces
  <1>5. CASE Ends(t, r) \/ GoesOn(t, r) \/ Offers(t, r)
    BY <1>0, <1>5 DEF Ends, GoesOn, Offers
  <1> QED
    BY <1>3, <1>4, <1>5 DEF Hops

LEMMA SlotStep ==
    ASSUME TypeOK, PlacesInv, SlotInv, Kind
    PROVE  SlotInv'
  <1> USE DEF KeepAll, KeepQueues, KeepStage, KeepSlots
  <1>0. /\ Loop \in Threads /\ Accept \in Threads
        /\ Loop # Accept /\ Loop \notin Users /\ Accept \notin Users
    BY Constants
  <1>1. /\ stage \in [Conns -> {"new", "admitted", "bound", "published"}]
        /\ closed \in [Conns -> BOOLEAN] /\ released \in [Conns -> 0..2]
    BY Types
  <1>2. BoundOnceClosed
    BY DEF PlacesInv, TablesPlaced, BoundOnceClosed
  <1>3. AcceptFits(thread[Accept])
    BY DEF PlacesInv, AcceptPlaced
  <1> SUFFICES ASSUME NEW c \in Conns PROVE SlotKept(c)'
    BY DEF SlotInv
  <1>4. SlotKept(c)
    BY DEF SlotInv
  <1>5. CASE HopKind
    <2>1. PICK t, r : t \in Threads /\ Hops(t, r) /\ To(t, r) /\ KeepAll
      BY <1>5 DEF HopKind
    <2>2. NoneBegins(c)
      BY <2>1, HopsCloseNone, MoveCloses DEF NoneBegins, Closing, Accepting
    <2> QED
      BY <1>4, <2>1, <2>2, SlotSame
  <1>6. CASE AcceptKind
    <2>1. PICK d \in Conns : Admits(d) \/ Binds(d) \/ Refuses(d) \/ \E r : Publishes(d, r)
      BY <1>6 DEF AcceptKind
    <2>2. PICK r : To(Accept, r) /\ ~Closes(r) /\ (r.at = "idle" \/ r.conn = d)
      BY <2>1 DEF Admits, Binds, Refuses, Publishes, At, Idle, Closes, LossPlaces, ClosePlaces
    <2>3. ~Closes(thread[Accept])
      BY <2>1 DEF Admits, Binds, Refuses, Publishes, Closes, LossPlaces, ClosePlaces
    <2>4. /\ \A t \in Threads : Closing(t, c)' <=> Closing(t, c)
          /\ Accepting(c)' => c = d
      BY <1>0, <2>2, <2>3, MoveCloses DEF Closing
    <2>5. closed' = closed
      BY <2>1 DEF Admits, Binds, Refuses, Publishes
    <2>6. Unreleased(c)' <=> Unreleased(c)
      BY <2>4, <2>5 DEF Unreleased
    <2>7. CASE c # d
      <3>1. stage'[c] = stage[c] /\ released'[c] = released[c]
        BY <1>1, <2>1, <2>7 DEF Admits, Binds, Refuses, Publishes, ReleaseSlot
      <3> QED
        BY <1>4, <2>4, <2>5, <2>7, <3>1, SlotSame DEF NoneBegins
    <2>8. CASE c = d
      <3>1. CASE Admits(d)
        <4>1. released'[c] = 0 /\ stage'[c] = "admitted"
          BY <1>1, <1>4, <2>8, <3>1 DEF Admits, SlotKept
        <4> QED
          BY <1>4, <2>4, <2>5, <4>1 DEF SlotKept
      <3>2. CASE Binds(d) \/ \E q : Publishes(d, q)
        <4>1. Accepting(c) /\ released'[c] = released[c] /\ stage'[c] \in {"bound", "published"}
          BY <1>1, <2>8, <3>2 DEF Binds, Publishes, Accepting
        <4> QED
          BY <1>4, <2>4, <2>5, <2>6, <4>1 DEF SlotKept
      <3>3. CASE Refuses(d)
        <4>1. Accepting(c) /\ stage'[c] = stage[c] /\ stage[c] # "new"
          BY <1>3, <2>8, <3>3 DEF Refuses, Accepting, AcceptFits
        <4>2. ~Accepting(c)'
          BY <1>0, <3>3, MoveCloses DEF Refuses, Idle, At
        <4>3. CASE stage[c] = "published"
          <5>1. released'[c] = released[c]
            BY <2>8, <3>3, <4>3 DEF Refuses
          <5> QED
            BY <1>4, <2>4, <2>5, <4>1, <5>1, SlotSame DEF NoneBegins
        <4>4. CASE stage[c] # "published"
          <5>1. released'[c] = released[c] + 1
            BY <1>1, <2>8, <3>3, <4>4 DEF Refuses, ReleaseSlot
          <5>2. stage[c] # "bound" => Unreleased(c)
            BY <1>2, <4>4 DEF BoundOnceClosed, Bound, Unreleased
          <5>3. released[c] <= 1 /\ (Unreleased(c) => released[c] = 0) /\ released[c] \in 0..2
            BY <1>4, <4>1 DEF SlotKept
          <5> QED
            BY <1>4, <2>4, <2>5, <2>6, <4>1, <4>2, <4>4, <5>1, <5>2, <5>3 DEF SlotKept
        <4> QED
          BY <4>3, <4>4
      <3> QED
        BY <2>1, <3>1, <3>2, <3>3
    <2> QED
      BY <2>7, <2>8
  <1>7. CASE CloseKind
    <2>1. PICK t \in Threads, d \in Conns : Flags(t, d) \/ Frees(t, d) \/ Gives(t, d)
      BY <1>7 DEF CloseKind
    <2>2. CASE Flags(t, d)
      <3>1. PICK r : r = At("closeRelease", d, queuedBytes[d],
                         IF thread[t].at = "abort" THEN "shut" ELSE "idle")
        OBVIOUS
      <3>2. To(t, r) /\ r.at = "closeRelease" /\ r.conn = d
        BY <2>2, <3>1 DEF Flags, At
      <3>3. /\ thread[t].at # "idle"
            /\ thread[t].conn = d /\ ~closed[d]
            /\ released' = released /\ stage' = stage
            /\ closed' = [closed EXCEPT ![d] = TRUE]
        BY <2>2 DEF Flags
      <3>4. /\ \A u \in Threads : u # t => (Closing(u, c)' <=> Closing(u, c))
            /\ Closing(t, c)' <=> c = d
            /\ ~Closing(t, c)
            /\ Accepting(c)' => Accepting(c)
        <4>1. ~Closing(t, c)
          BY <1>4, <3>3 DEF SlotKept, Closing
        <4> QED
          BY <3>2, <3>3, <4>1, MoveCloses DEF Accepting, Closes, ClosePlaces
      <3>5. CASE c # d
        BY <1>1, <1>4, <3>3, <3>4, <3>5, SlotSame DEF NoneBegins
      <3>6. CASE c = d
        <4>1. closed'[c] /\ ~closed[c] /\ Unreleased(c)
          BY <1>1, <3>3, <3>6 DEF Unreleased
        <4>2. \A u \in Threads : Closing(u, c)' => u = t
          BY <1>4, <3>4, <4>1 DEF SlotKept
        <4> QED
          BY <1>4, <3>3, <3>4, <4>1, <4>2 DEF SlotKept
      <3> QED
        BY <3>5, <3>6
    <2>3. CASE Frees(t, d)
      <3>1. PICK r : r = At("closeSocket", d, 0, thread[t].then)
        OBVIOUS
      <3>2. To(t, r) /\ r.at = "closeSocket" /\ r.conn = d
        BY <2>3, <3>1 DEF Frees, At
      <3>3. /\ thread[t].at = "closeRelease" /\ thread[t].conn = d
            /\ released' = released /\ stage' = stage /\ closed' = closed
        BY <2>3 DEF Frees
      <3>4. NoneBegins(c)
        BY <3>2, <3>3, MoveCloses DEF NoneBegins, Closing, Closes, Accepting, ClosePlaces
      <3> QED
        BY <1>4, <3>3, <3>4, SlotSame
    <2>4. CASE Gives(t, d)
      <3>1. PICK r : r = Released(t)
        OBVIOUS
      <3>2. To(t, r) /\ ~Closes(r) /\ (r.at = "idle" \/ r.conn = d)
        <4>1. thread[t].at = "slot" /\ thread[t].conn = d /\ To(t, r)
          BY <2>4, <3>1 DEF Gives
        <4>2. thread[t].then \in {"idle", "shut"}
          BY <4>1, Constants DEF PlacesInv, LoopPlaced, UserPlaced, AcceptPlaced, LoopFits,
                                 UserFits, AcceptFits, LossPlaces, ClosePlaces
        <4> QED
          BY <3>1, <4>1, <4>2 DEF Released, Caller, Back, At, Idle, Closes, LossPlaces,
                                  ClosePlaces
      <3>3. /\ thread[t].at = "slot" /\ thread[t].conn = d
            /\ stage' = stage /\ closed' = closed
            /\ released' = [released EXCEPT ![d] = @ + 1]
        BY <2>4 DEF Gives, ReleaseSlot
      <3>4. Closing(t, d)
        BY <3>3 DEF Closing, Closes, ClosePlaces
      <3>5. NoneBegins(c) /\ ~Closing(t, c)'
        BY <3>2, <3>3, MoveCloses DEF NoneBegins, Accepting
      <3>6. CASE c # d
        BY <1>1, <1>4, <3>3, <3>5, <3>6, SlotSame
      <3>7. CASE c = d
        <4>1. closed[c] /\ Unreleased(c) /\ Bound(c)
          BY <1>2, <1>4, <3>4, <3>7 DEF SlotKept, Unreleased, BoundOnceClosed
        <4>2. \A u \in Threads : ~Closing(u, c)'
          BY <1>4, <3>4, <3>5, <3>7 DEF SlotKept, NoneBegins
        <4>3. ~Unreleased(c)' /\ closed'[c]
          BY <3>3, <4>1, <4>2 DEF Unreleased
        <4>4. released'[c] = released[c] + 1 /\ stage'[c] \in {"bound", "published"}
          BY <1>1, <3>3, <3>7, <4>1 DEF Bound
        <4>5. /\ released[c] \in 0..2 /\ released[c] <= 1
              /\ Accepting(c) \/ stage[c] = "published" => released[c] = 0
          BY <1>4, <4>1 DEF SlotKept
        <4> QED
          BY <3>3, <3>5, <4>2, <4>3, <4>4, <4>5 DEF SlotKept, NoneBegins
      <3> QED
        BY <3>6, <3>7
    <2> QED
      BY <2>1, <2>2, <2>3, <2>4
  <1>8. CASE BytesKind
    <2>1. stage' = stage /\ closed' = closed /\ released' = released
      BY <1>8 DEF BytesKind, Sends, Writes, Consumes, Releases
    <2>2. PICK t, r :
             /\ t \in Threads /\ To(t, r) /\ ~Closes(r)
             /\ r.at = "idle" \/ r.conn = thread[t].conn
             /\ thread[t].at # "idle"
      <3> USE DEF At, Idle, Closes, LossPlaces, ClosePlaces
      <3>1. thread[Loop].at = "consumed" => thread[Loop].then \in {"idle", "write"}
        BY DEF PlacesInv, LoopPlaced, LoopFits
      <3>2. CASE Releases
        BY <1>0, <3>1, <3>2 DEF Releases, Back
      <3> QED
        BY <1>0, <1>8, <3>2 DEF BytesKind, Sends, Writes, Consumes
    <2>3. NoneBegins(c)
      BY <2>2, MoveCloses DEF NoneBegins, Accepting
    <2> QED
      BY <1>4, <2>1, <2>3, SlotSame
  <1>9. CASE Rests
    BY <1>4, <1>9, SlotSame DEF Rests, NoneBegins, Closing, Accepting
  <1> QED
    BY <1>5, <1>6, <1>7, <1>8, <1>9 DEF Kind

----------------------------------------------------------------------------
(* The stream of an open connection.                                       *)

\* What MemoryBudget.release and _consume_sent leave.
LEMMA AtLeastZero ==
    ASSUME NEW n \in Int
    PROVE  Max({0, n}) = IF n < 0 THEN 0 ELSE n
  <1>1. CASE n < 0
    <2>1. /\ 0 \in {0, n} /\ \A y \in {0, n} : 0 >= y
          /\ \A m \in {0, n} : (\A y \in {0, n} : m >= y) => m = 0
      BY <1>1
    <2> QED
      BY <1>1, <2>1 DEF Max
  <1>2. CASE n >= 0
    <2>1. /\ n \in {0, n} /\ \A y \in {0, n} : n >= y
          /\ \A m \in {0, n} : (\A y \in {0, n} : m >= y) => m = n
      BY <1>2
    <2> QED
      BY <1>2, <2>1 DEF Max
  <1> QED
    BY <1>1, <1>2

\* The loop is about to offer bytes of c to the socket or to consume them.
Offering(c) == thread[Loop].at \in {"socket", "consume"} /\ thread[Loop].conn = c

\* Nothing of the stream of c changes.
LEMMA StreamSame ==
    ASSUME NEW c \in Conns, StreamKept(c), closed'[c] = closed[c],
           buffer'[c] = buffer[c], queuedBytes'[c] = queuedBytes[c],
           pendingWrites'[c] = pendingWrites[c],
           taken'[c] = taken[c], written'[c] = written[c],
           InFlight(c)' = InFlight(c),
           Offering(c)' => thread'[Loop].n > 0 /\ thread'[Loop].n <= buffer[c]
    PROVE  StreamKept(c)'
  BY DEF StreamKept, Offering

\* A hop of the loop consumes nothing, and offers the buffer.
LEMMA HopsOffer ==
    ASSUME TypeOK, PlacesInv, NEW r, Hops(Loop, r)
    PROVE  /\ thread[Loop].at # "consume" /\ r.at # "consume"
           /\ r.at = "socket" => ~closed[r.conn] /\ r.n = buffer[r.conn] /\ r.n # 0
  <1> USE DEF At, Idle
  <1>0. Loop # Accept /\ Loop \notin Users
    BY Constants
  <1>1. LoopFits(thread[Loop])
    BY DEF PlacesInv, LoopPlaced
  <1>2. CASE Enters(Loop, r) \/ Called(Loop, r) \/ Fails(Loop, r) \/ Registers(Loop, r)
    BY <1>0, <1>2 DEF Enters, Called, Fails, Registers
  <1>3. CASE Returns(Loop, r)
    BY <1>1, <1>3 DEF Returns, Back, LoopFits, LossPlaces, ClosePlaces, EndPlaces
  <1>4. CASE Ends(Loop, r) \/ GoesOn(Loop, r) \/ Offers(Loop, r)
    BY <1>4 DEF Ends, GoesOn, Offers
  <1> QED
    BY <1>2, <1>3, <1>4 DEF Hops

LEMMA StreamStep ==
    ASSUME TypeOK, PlacesInv, StreamInv, Kind
    PROVE  StreamInv'
  <1> USE DEF KeepAll, KeepQueues, KeepHistory
  <1>0. Loop \in Threads /\ Accept \in Threads /\ Loop # Accept
    BY Constants
  <1>1. /\ closed \in [Conns -> BOOLEAN]
        /\ buffer \in [Conns -> Nat] /\ queuedBytes \in [Conns -> Nat]
        /\ pendingWrites \in [Conns -> Nat]
        /\ taken \in [Conns -> Nat] /\ written \in [Conns -> Nat]
        /\ thread[Loop].n \in Nat
    BY <1>0, Types DEF ThreadRecords
  <1>2. LoopFits(thread[Loop])
    BY DEF PlacesInv, LoopPlaced
  <1> SUFFICES ASSUME NEW c \in Conns PROVE StreamKept(c)'
    BY DEF StreamInv
  <1>3. StreamKept(c)
    BY DEF StreamInv
  <1>4. ASSUME NEW t \in Threads, NEW r, To(t, r),
               t = Loop => /\ thread[Loop].at # "consume"
                           /\ r.at \notin {"socket", "consume"}
        PROVE  /\ InFlight(c)' = InFlight(c)
               /\ Offering(c)' => Offering(c) /\ thread'[Loop].n = thread[Loop].n
    <2>1. CASE t = Loop
      <3>1. thread'[Loop] = r
        BY <1>0, <1>4, <2>1, Moved
      <3> QED
        BY <1>4, <2>1, <3>1 DEF InFlight, Offering
    <2>2. CASE t # Loop
      <3>1. thread'[Loop] = thread[Loop]
        BY <1>0, <1>4, <2>2, Moved
      <3> QED
        BY <3>1 DEF InFlight, Offering
    <2> QED
      BY <2>1, <2>2
  <1>5. ~closed[c] /\ Offering(c) => thread[Loop].n > 0 /\ thread[Loop].n <= buffer[c]
    BY <1>3 DEF StreamKept, Offering
  <1>6. CASE closed'[c]
    BY <1>6 DEF StreamKept
  <1>7. CASE HopKind /\ ~closed[c]
    <2>1. PICK t, r : t \in Threads /\ Hops(t, r) /\ To(t, r) /\ KeepAll
      BY <1>7 DEF HopKind
    <2>2. CASE t = Loop
      <3>1. /\ thread[Loop].at # "consume" /\ r.at # "consume"
            /\ r.at = "socket" => r.n = buffer[r.conn] /\ r.n # 0
        BY <2>1, <2>2, HopsOffer
      <3>2. thread'[Loop] = r
        BY <1>0, <2>1, <2>2, Moved
      <3>3. InFlight(c) = 0 /\ InFlight(c)' = 0
        BY <3>1, <3>2 DEF InFlight
      <3>4. Offering(c)' => thread'[Loop].n > 0 /\ thread'[Loop].n <= buffer[c]
        BY <1>1, <3>1, <3>2 DEF Offering
      <3> QED
        BY <1>3, <2>1, <3>3, <3>4, StreamSame
    <2>3. CASE t # Loop
      <3>1. /\ InFlight(c)' = InFlight(c)
            /\ Offering(c)' => Offering(c) /\ thread'[Loop].n = thread[Loop].n
        BY <1>4, <2>1, <2>3
      <3> QED
        BY <1>3, <1>5, <1>7, <2>1, <3>1, StreamSame
    <2> QED
      BY <2>2, <2>3
  <1>8. CASE AcceptKind /\ ~closed[c]
    <2>1. PICK r : To(Accept, r)
      BY <1>8 DEF AcceptKind, Admits, Binds, Refuses, Publishes
    <2>2. KeepQueues /\ KeepHistory
      BY <1>8 DEF AcceptKind, Admits, Binds, Refuses, Publishes
    <2>3. /\ InFlight(c)' = InFlight(c)
          /\ Offering(c)' => Offering(c) /\ thread'[Loop].n = thread[Loop].n
      BY <1>0, <1>4, <2>1
    <2> QED
      BY <1>3, <1>5, <1>8, <2>2, <2>3, StreamSame
  <1>9. CASE CloseKind /\ ~closed'[c]
    <2>1. PICK t \in Threads, d \in Conns : Flags(t, d) \/ Frees(t, d) \/ Gives(t, d)
      BY <1>9 DEF CloseKind
    <2>2. PICK r : /\ To(t, r)
                   /\ t = Loop => /\ thread[Loop].at # "consume"
                                  /\ r.at \notin {"socket", "consume"}
      BY <1>2, <2>1 DEF Flags, Frees, Gives, Released, Caller, Back, At, Idle, LoopFits,
                        ClosePlaces
    <2>3. /\ ~closed[c] /\ closed'[c] = closed[c]
          /\ buffer'[c] = buffer[c] /\ queuedBytes'[c] = queuedBytes[c]
          /\ pendingWrites'[c] = pendingWrites[c]
          /\ taken' = taken /\ written' = written
      BY <1>1, <1>9, <2>1 DEF Flags, Frees, Gives
    <2>4. /\ InFlight(c)' = InFlight(c)
          /\ Offering(c)' => Offering(c) /\ thread'[Loop].n = thread[Loop].n
      BY <1>4, <2>2
    <2> QED
      BY <1>3, <1>5, <2>3, <2>4, StreamSame
  <1>10. CASE BytesKind /\ ~closed'[c]
    <2>1. closed' = closed /\ ~closed[c]
      BY <1>10 DEF BytesKind, Sends, Writes, Consumes, Releases
    <2>2. ASSUME NEW d \in Conns, NEW t \in Threads, NEW k \in Sizes, Sends(t, d, k)
          PROVE  StreamKept(c)'
      <3>1. k \in Nat /\ k > 0
        BY Constants
      <3>2. PICK r : r = At("interest", d, 0, thread[t].then)
        OBVIOUS
      <3>3. To(t, r) /\ r.at = "interest" /\ thread[t].at = "send"
        BY <2>2, <3>2 DEF Sends, At
      <3>4. /\ InFlight(c)' = InFlight(c)
            /\ Offering(c)' => Offering(c) /\ thread'[Loop].n = thread[Loop].n
        BY <1>4, <3>3
      <3>5. CASE c = d
        <4>1. /\ buffer'[c] = buffer[c] + k /\ queuedBytes'[c] = queuedBytes[c] + k
              /\ pendingWrites'[c] = pendingWrites[c] + 1
              /\ taken'[c] = taken[c] + k /\ written'[c] = written[c]
          BY <1>1, <2>2, <3>5 DEF Sends
        <4>2. InFlight(c) \in Nat
          BY <1>1 DEF InFlight
        <4>3. /\ buffer[c] \in Nat /\ queuedBytes[c] \in Nat /\ pendingWrites[c] \in Nat
              /\ taken[c] \in Nat /\ written[c] \in Nat
          BY <1>1
        <4>4. /\ written[c] + buffer[c] = taken[c] + InFlight(c)
              /\ queuedBytes[c] = buffer[c]
          BY <1>3, <2>1 DEF StreamKept
        <4>5. /\ written'[c] + buffer'[c] = taken'[c] + InFlight(c)'
              /\ queuedBytes'[c] = buffer'[c]
              /\ pendingWrites'[c] # 0 /\ buffer'[c] # 0
          BY <3>1, <3>4, <4>1, <4>2, <4>3, <4>4
        <4>6. Offering(c)' => thread'[Loop].n > 0 /\ thread'[Loop].n <= buffer'[c]
          BY <1>1, <1>5, <2>1, <3>1, <3>4, <4>1, <4>3
        <4> QED
          BY <4>5, <4>6 DEF StreamKept, Offering
      <3>6. CASE c # d
        <4>1. /\ buffer'[c] = buffer[c] /\ queuedBytes'[c] = queuedBytes[c]
              /\ pendingWrites'[c] = pendingWrites[c]
              /\ taken'[c] = taken[c] /\ written'[c] = written[c]
          BY <1>1, <2>2, <3>6 DEF Sends
        <4> QED
          BY <1>3, <1>5, <2>1, <3>4, <4>1, StreamSame
      <3> QED
        BY <3>5, <3>6
    <2>3. ASSUME NEW d \in Conns, NEW k \in Nat, Writes(d, k) PROVE StreamKept(c)'
      <3>1. PICK then : To(Loop, At("consume", d, k, then))
        BY <2>3 DEF Writes
      <3>2. thread'[Loop] = At("consume", d, k, then)
        BY <1>0, <3>1, Moved
      <3>3. InFlight(c) = 0 /\ InFlight(c)' = IF c = d THEN k ELSE 0
        BY <2>3, <3>2 DEF InFlight, Writes, At
      <3>4. CASE c = d
        <4>1. /\ Offering(c) /\ k \in Nat /\ k > 0 /\ k <= thread[Loop].n
              /\ written'[c] = written[c] + k /\ taken' = taken /\ KeepQueues
          BY <1>1, <2>3, <3>4 DEF Writes, Offering
        <4>2. thread'[Loop].n = k
          BY <3>2 DEF At
        <4>3. /\ buffer[c] \in Nat /\ taken[c] \in Nat /\ written[c] \in Nat
          BY <1>1
        <4>4. /\ written[c] + buffer[c] = taken[c] + 0
              /\ queuedBytes[c] = buffer[c]
              /\ pendingWrites[c] = 0 <=> buffer[c] = 0
              /\ thread[Loop].n <= buffer[c]
          BY <1>3, <2>1, <3>3, <4>1 DEF StreamKept, Offering
        <4>5. /\ written'[c] + buffer'[c] = taken'[c] + InFlight(c)'
              /\ thread'[Loop].n > 0 /\ thread'[Loop].n <= buffer'[c]
          BY <1>1, <3>3, <3>4, <4>1, <4>2, <4>3, <4>4
        <4> QED
          BY <4>1, <4>4, <4>5 DEF StreamKept
      <3>5. CASE c # d
        <4>1. /\ written'[c] = written[c] /\ taken' = taken /\ KeepQueues
          BY <1>1, <2>3, <3>5 DEF Writes
        <4>2. ~Offering(c)'
          BY <3>2, <3>5 DEF Offering, At
        <4> QED
          BY <1>3, <3>3, <3>5, <4>1, <4>2, StreamSame
      <3> QED
        BY <3>4, <3>5
    <2>4. ASSUME NEW d \in Conns, NEW k \in Nat, NEW rest, Consumes(d, k, rest)
          PROVE  StreamKept(c)'
      <3>1. PICK r : r = At("consumed", d, k, thread[Loop].then)
        OBVIOUS
      <3>2. To(Loop, r) /\ r.at = "consumed"
        BY <2>4, <3>1 DEF Consumes, At
      <3>3. thread'[Loop].at = "consumed"
        BY <1>0, <3>2, Moved
      <3>4. ~Offering(c)' /\ InFlight(c)' = 0
        BY <3>3 DEF Offering, InFlight
      <3>5. CASE c = d
        <4>1. Offering(c) /\ InFlight(c) = k /\ k = thread[Loop].n
          BY <2>4, <3>5 DEF Consumes, Offering, InFlight
        <4>2. /\ written[c] + buffer[c] = taken[c] + k
              /\ queuedBytes[c] = buffer[c]
              /\ pendingWrites[c] = 0 <=> buffer[c] = 0
              /\ k > 0 /\ k <= buffer[c]
          BY <1>3, <1>5, <2>1, <4>1 DEF StreamKept
        <4>3. /\ buffer[c] \in Nat /\ taken[c] \in Nat /\ written[c] \in Nat
          BY <1>1
        <4>4. Max({0, buffer[c] - k}) = buffer[c] - k
          <5>1. buffer[c] - k \in Int /\ ~(buffer[c] - k < 0)
            BY <4>2, <4>3
          <5> QED
            BY <5>1, AtLeastZero
        <4>5. /\ buffer'[c] = buffer[c] - k /\ queuedBytes'[c] = buffer[c] - k
              /\ pendingWrites'[c] = IF buffer[c] - k = 0 THEN 0 ELSE pendingWrites[c]
              /\ taken' = taken /\ written' = written
          BY <1>1, <2>4, <3>5, <4>2, <4>4 DEF Consumes
        <4>6. /\ written'[c] + buffer'[c] = taken'[c] + 0
              /\ pendingWrites'[c] = 0 <=> buffer'[c] = 0
          BY <4>2, <4>3, <4>5
        <4> QED
          BY <3>4, <4>5, <4>6 DEF StreamKept, Offering
      <3>6. CASE c # d
        <4>1. /\ buffer'[c] = buffer[c] /\ queuedBytes'[c] = queuedBytes[c]
              /\ pendingWrites'[c] = pendingWrites[c]
              /\ taken' = taken /\ written' = written
          BY <1>1, <2>4, <3>6 DEF Consumes
        <4>2. InFlight(c) = 0
          BY <2>4, <3>6 DEF Consumes, InFlight
        <4> QED
          BY <1>3, <2>1, <3>4, <4>1, <4>2, StreamSame
      <3> QED
        BY <3>5, <3>6
    <2>5. CASE Releases
      <3>1. PICK r : r = Back(Loop)
        OBVIOUS
      <3>2. To(Loop, r) /\ thread[Loop].at # "consume" /\ r.at \notin {"socket", "consume"}
        BY <1>2, <2>5, <3>1 DEF Releases, Back, At, Idle, LoopFits
      <3>3. /\ InFlight(c)' = InFlight(c)
            /\ Offering(c)' => Offering(c) /\ thread'[Loop].n = thread[Loop].n
        BY <1>0, <1>4, <3>2
      <3> QED
        BY <1>3, <1>5, <2>1, <2>5, <3>3, StreamSame DEF Releases
    <2> QED
      BY <1>10, <2>2, <2>3, <2>4, <2>5 DEF BytesKind
  <1>11. CASE Rests
    BY <1>3, <1>11 DEF Rests, StreamKept, InFlight
  <1>12. closed'[c] \/ ~closed[c] \/ CloseKind \/ BytesKind \/ Rests
    BY DEF Kind, HopKind, AcceptKind, Admits, Binds, Refuses, Publishes
  <1> QED
    BY <1>6, <1>7, <1>8, <1>9, <1>10, <1>11, <1>12 DEF Kind

----------------------------------------------------------------------------
(* The bytes of the budget.                                                *)

\* The size of two sets that have nothing in common.
LEMMA SizeOfBoth ==
    ASSUME NEW S, IsFiniteSet(S), NEW T, IsFiniteSet(T), S \cap T = {}
    PROVE  /\ IsFiniteSet(S \cup T)
           /\ Cardinality(S \cup T) = Cardinality(S) + Cardinality(T)
  <1>1. /\ IsFiniteSet(S \cup T)
        /\ Cardinality(S \cup T) =
              Cardinality(S) + Cardinality(T) - Cardinality(S \cap T)
    BY FS_Union
  <1>2. Cardinality(S \cap T) = 0
    BY FS_EmptySet
  <1>3. Cardinality(S) \in Nat /\ Cardinality(T) \in Nat
    BY FS_CardinalityType
  <1> QED
    BY <1>1, <1>2, <1>3

\* The numbered parts of one thing.
LEMMA SizeOfParts ==
    ASSUME NEW x, NEW n \in Nat
    PROVE  IsFiniteSet({x} \X (1..n)) /\ Cardinality({x} \X (1..n)) = n
  <1>1. IsFiniteSet({x}) /\ Cardinality({x}) = 1
    BY FS_Singleton
  <1>2. IsFiniteSet(1..n) /\ Cardinality(1..n) = n
    BY FS_Interval
  <1>3. /\ IsFiniteSet({x} \X (1..n))
        /\ Cardinality({x} \X (1..n)) = Cardinality({x}) * Cardinality(1..n)
    BY <1>1, <1>2, FS_Product
  <1>4. 1 * n = n
    OBVIOUS
  <1> QED
    BY <1>1, <1>2, <1>3, <1>4, Zenon

\* The parts of all holders, of which each has the amount that f says.
Parts(f) == UNION {{h} \X (1..f[h]) : h \in Holders}

\* They change by what one of the holders gets or gives.
LEMMA OneAmount ==
    ASSUME NEW f, NEW g, NEW x \in Holders, IsFiniteSet(Parts(f)),
           f[x] \in Nat, g[x] \in Nat, \A h \in Holders : h # x => g[h] = f[h]
    PROVE  /\ IsFiniteSet(Parts(g))
           /\ Cardinality(Parts(f)) \in Nat /\ Cardinality(Parts(g)) \in Nat
           /\ f[x] <= Cardinality(Parts(f))
           /\ Cardinality(Parts(g)) = Cardinality(Parts(f)) - f[x] + g[x]
  <1> DEFINE F == Parts(f)
             G == Parts(g)
             R == UNION {{h} \X (1..f[h]) : h \in Holders \ {x}}
             A == {x} \X (1..f[x])
             B == {x} \X (1..g[x])
  <1>1. F = R \cup A
    BY DEF Parts
  <1>2. G = R \cup B
    BY DEF Parts
  <1>3. R \cap A = {} /\ R \cap B = {}
    OBVIOUS
  <1>4. IsFiniteSet(F)
    OBVIOUS
  <1>5. /\ IsFiniteSet(A) /\ Cardinality(A) = f[x]
        /\ IsFiniteSet(B) /\ Cardinality(B) = g[x]
    BY SizeOfParts
  <1> HIDE DEF F, G, R, A, B
  <1>6. IsFiniteSet(R)
    BY <1>1, <1>4, FS_Subset
  <1>7. /\ Cardinality(F) = Cardinality(R) + f[x]
        /\ IsFiniteSet(G) /\ Cardinality(G) = Cardinality(R) + g[x]
    BY <1>1, <1>2, <1>3, <1>5, <1>6, SizeOfBoth
  <1>8. Cardinality(R) \in Nat
    BY <1>6, FS_CardinalityType
  <1>9. /\ f[x] <= Cardinality(F) /\ Cardinality(F) \in Nat /\ Cardinality(G) \in Nat
        /\ Cardinality(G) = Cardinality(F) - f[x] + g[x]
    BY <1>7, <1>8
  <1> QED
    BY <1>7, <1>9 DEF F, G

\* What is held by a queue and a hand, when only these two change.
LEMMA TwoAmounts ==
    ASSUME IsFiniteSet(Held), NEW c \in Conns, NEW t \in Threads,
           queuedBytes[c] \in Nat, queuedBytes'[c] \in Nat,
           InHand(t) \in Nat, InHand(t)' \in Nat,
           \A d \in Conns : d # c => queuedBytes'[d] = queuedBytes[d],
           \A u \in Threads : u # t => InHand(u)' = InHand(u)
    PROVE  /\ IsFiniteSet(Held')
           /\ Cardinality(Held) \in Nat /\ Cardinality(Held') \in Nat
           /\ Cardinality(Held') = Cardinality(Held) - queuedBytes[c] - InHand(t)
                                       + queuedBytes'[c] + InHand(t)'
  <1> DEFINE q == <<"queue", c>>
             p == <<"hand", t>>
             f == [h \in Holders |-> Amount(h)]
             m == [h \in Holders |-> IF h = q THEN Amount(h)' ELSE Amount(h)]
             g == [h \in Holders |-> Amount(h)']
  <1>1. q \in Holders /\ p \in Holders /\ q # p
    BY DEF Holders
  <1>2. /\ f[q] = queuedBytes[c] /\ f[p] = InHand(t)
        /\ m[q] = queuedBytes'[c] /\ m[p] = InHand(t)
        /\ g[q] = queuedBytes'[c] /\ g[p] = InHand(t)'
    <2>1. /\ Amount(q) = queuedBytes[c] /\ Amount(p) = InHand(t)
          /\ Amount(q)' = queuedBytes'[c] /\ Amount(p)' = InHand(t)'
      BY DEF Amount
    <2> QED
      BY <1>1, <2>1
  <1>3. \A h \in Holders : h # q => m[h] = f[h]
    OBVIOUS
  <1>4. ASSUME NEW h \in Holders, h # p PROVE g[h] = m[h]
    <2>1. CASE h = q
      BY <2>1
    <2>2. CASE h # q
      <3>1. PICK d \in Conns, u \in Threads : h = <<"queue", d>> \/ h = <<"hand", u>>
        BY DEF Holders
      <3>2. CASE h = <<"queue", d>>
        <4>1. Amount(h)' = Amount(h)
          BY <2>2, <3>2 DEF Amount
        <4> QED
          BY <2>2, <4>1
      <3>3. CASE h = <<"hand", u>>
        <4>1. Amount(h)' = Amount(h)
          BY <1>4, <3>3 DEF Amount
        <4> QED
          BY <2>2, <4>1
      <3> QED
        BY <3>1, <3>2, <3>3
    <2> QED
      BY <2>1, <2>2
  <1>5. Held = Parts(f) /\ Held' = Parts(g)
    BY DEF Held, Parts
  <1> HIDE DEF q, p, f, m, g
  <1>6. /\ IsFiniteSet(Parts(m)) /\ Cardinality(Parts(f)) \in Nat
        /\ f[q] <= Cardinality(Parts(f))
        /\ Cardinality(Parts(m)) \in Nat
        /\ Cardinality(Parts(m)) = Cardinality(Parts(f)) - f[q] + m[q]
    BY <1>1, <1>2, <1>3, <1>5, OneAmount
  <1>7. /\ IsFiniteSet(Parts(g)) /\ Cardinality(Parts(g)) \in Nat
        /\ m[p] <= Cardinality(Parts(m))
        /\ Cardinality(Parts(g)) = Cardinality(Parts(m)) - m[p] + g[p]
    BY <1>1, <1>2, <1>4, <1>6, OneAmount
  <1> DEFINE F == Cardinality(Parts(f))
             M == Cardinality(Parts(m))
             G == Cardinality(Parts(g))
  <1>8. /\ F \in Nat /\ M \in Nat /\ G \in Nat
        /\ M = F - f[q] + m[q] /\ G = M - m[p] + g[p]
    BY <1>6, <1>7
  <1>9. F = Cardinality(Held) /\ G = Cardinality(Held')
    BY <1>5
  <1> HIDE DEF F, M, G
  <1>10. G = F - queuedBytes[c] - InHand(t) + queuedBytes'[c] + InHand(t)'
    BY <1>2, <1>8
  <1> QED
    BY <1>5, <1>7, <1>8, <1>9, <1>10

\* What a thread has in hand after it moved.
LEMMA HandAfter ==
    ASSUME TypeOK, NEW t \in Threads, NEW r, To(t, r)
    PROVE  /\ \A u \in Threads : u # t => InHand(u)' = InHand(u)
           /\ InHand(t)' = IF r.at \in {"closeRelease", "consumed"} THEN r.n ELSE 0
           /\ InHand(t) \in Nat
  <1>1. thread'[t] = r /\ \A u \in Threads : u # t => thread'[u] = thread[u]
    BY Moved
  <1>2. thread[t].n \in Nat
    BY Types DEF ThreadRecords
  <1> QED
    BY <1>1, <1>2 DEF InHand

\* Nothing is held that was not, and nothing is let go.
LEMMA HeldSame ==
    ASSUME queuedBytes' = queuedBytes, \A u \in Threads : InHand(u)' = InHand(u)
    PROVE  Held' = Held
  <1>1. ASSUME NEW h \in Holders PROVE Amount(h)' = Amount(h)
    <2>1. CASE h[1] = "queue"
      BY <2>1 DEF Amount
    <2>2. CASE h[1] # "queue"
      <3>1. h[2] \in Threads
        BY <2>2 DEF Holders
      <3> QED
        BY <2>2, <3>1 DEF Amount
    <2> QED
      BY <2>1, <2>2
  <1> QED
    BY <1>1 DEF Held

HoldPlaces == {"closeRelease", "consumed"}

\* A hop neither takes bytes in hand nor gives them back.
LEMMA HopsHoldNone ==
    ASSUME TypeOK, PlacesInv, NEW t \in Threads, NEW r, Hops(t, r)
    PROVE  thread[t].at \notin HoldPlaces /\ r.at \notin HoldPlaces
  <1> USE DEF HoldPlaces, At, Idle
  <1>1. thread[t].then \notin HoldPlaces
    BY Types DEF ThreadRecords, Thens
  <1>2. CASE Enters(t, r) \/ Called(t, r) \/ Fails(t, r) \/ Registers(t, r)
    BY <1>2 DEF Enters, Called, Fails, Registers
  <1>3. CASE Returns(t, r)
    BY <1>1, <1>3 DEF Returns, Back
  <1>4. CASE Ends(t, r) \/ GoesOn(t, r) \/ Offers(t, r)
    BY <1>4 DEF Ends, GoesOn, Offers
  <1> QED
    BY <1>2, <1>3, <1>4 DEF Hops

\* Nothing of the budget changes.
LEMMA BudgetSame ==
    ASSUME TypeOK, BudgetInv, NEW t \in Threads, NEW r, To(t, r),
           thread[t].at \notin HoldPlaces, r.at \notin HoldPlaces,
           KeepQueues, KeepBudget
    PROVE  BudgetInv'
  <1>1. \A u \in Threads : InHand(u)' = InHand(u)
    <2>1. InHand(t) = 0
      BY DEF InHand, HoldPlaces
    <2> QED
      BY <2>1, HandAfter DEF HoldPlaces
  <1>2. Held' = Held
    BY <1>1, HeldSame DEF KeepQueues
  <1> QED
    BY <1>2 DEF BudgetInv, KeepQueues, KeepBudget

LEMMA BudgetStep ==
    ASSUME TypeOK, PlacesInv, StreamInv, BudgetInv, Kind
    PROVE  BudgetInv'
  <1>0. Loop \in Threads /\ Accept \in Threads
    BY Constants
  <1>1. /\ closed \in [Conns -> BOOLEAN]
        /\ buffer \in [Conns -> Nat] /\ queuedBytes \in [Conns -> Nat]
        /\ usedBytes \in Nat
        /\ \A t \in Threads : thread[t].n \in Nat
    BY Types, Constants DEF ThreadRecords
  <1>2. /\ thread[Loop].at # "idle" => thread[Loop].conn \in Conns
        /\ thread[Loop].then \notin HoldPlaces
    BY <1>0, Types DEF PlacesInv, LoopPlaced, LoopFits, HoldPlaces, ThreadRecords, Thens
  <1>3. /\ IsFiniteSet(Held) /\ usedBytes <= Cardinality(Held)
        /\ (\A c \in Conns : ~closed[c]) => usedBytes = Cardinality(Held)
    BY DEF BudgetInv
  <1>4. CASE HopKind
    <2>1. PICK t, r : t \in Threads /\ Hops(t, r) /\ To(t, r) /\ KeepAll
      BY <1>4 DEF HopKind
    <2>2. thread[t].at \notin HoldPlaces /\ r.at \notin HoldPlaces
      BY <2>1, HopsHoldNone
    <2> QED
      BY <2>1, <2>2, BudgetSame DEF KeepAll
  <1>5. CASE AcceptKind
    <2>1. PICK r : To(Accept, r) /\ r.at \notin HoldPlaces
      BY <1>5 DEF AcceptKind, Admits, Binds, Refuses, Publishes, At, Idle, HoldPlaces
    <2>2. thread[Accept].at \notin HoldPlaces /\ KeepQueues /\ KeepBudget
      BY <1>5 DEF AcceptKind, Admits, Binds, Refuses, Publishes, HoldPlaces
    <2> QED
      BY <1>0, <2>1, <2>2, BudgetSame
  <1>6. ASSUME NEW t \in Threads, NEW c \in Conns, Flags(t, c) PROVE BudgetInv'
    <2>1. PICK r : r = At("closeRelease", c, queuedBytes[c],
                         IF thread[t].at = "abort" THEN "shut" ELSE "idle")
      OBVIOUS
    <2>2. To(t, r) /\ r.at = "closeRelease" /\ r.n = queuedBytes[c]
      BY <1>6, <2>1 DEF Flags, At
    <2>3. /\ InHand(t) = 0 /\ InHand(t)' = queuedBytes[c]
          /\ \A u \in Threads : u # t => InHand(u)' = InHand(u)
      BY <1>6, <2>2, HandAfter DEF Flags, InHand
    <2>4. /\ queuedBytes'[c] = 0 /\ \A d \in Conns : d # c => queuedBytes'[d] = queuedBytes[d]
          /\ closed'[c] /\ usedBytes' = usedBytes
      BY <1>1, <1>6 DEF Flags, KeepBudget
    <2>5. /\ IsFiniteSet(Held')
          /\ Cardinality(Held) \in Nat /\ Cardinality(Held') \in Nat
          /\ Cardinality(Held') = Cardinality(Held) - queuedBytes[c] - InHand(t)
                                      + queuedBytes'[c] + InHand(t)'
      BY <1>1, <1>3, <2>3, <2>4, TwoAmounts
    <2>6. Cardinality(Held') = Cardinality(Held)
      BY <1>1, <2>3, <2>4, <2>5
    <2> QED
      BY <1>3, <2>4, <2>5, <2>6 DEF BudgetInv
  <1>7. ASSUME NEW t \in Threads, NEW c \in Conns, NEW r, To(t, r),
               thread[t].at \in HoldPlaces, r.at \notin HoldPlaces,
               ReleaseBytes(thread[t].n), KeepQueues
        PROVE  BudgetInv'
    <2>1. /\ InHand(t) = thread[t].n /\ InHand(t)' = 0
          /\ \A u \in Threads : u # t => InHand(u)' = InHand(u)
      BY <1>7, HandAfter DEF InHand, HoldPlaces
    <2>2. queuedBytes' = queuedBytes /\ closed' = closed
      BY <1>7 DEF KeepQueues
    <2>3. /\ IsFiniteSet(Held')
          /\ Cardinality(Held) \in Nat /\ Cardinality(Held') \in Nat
          /\ Cardinality(Held') = Cardinality(Held) - queuedBytes[c] - InHand(t)
                                      + queuedBytes'[c] + InHand(t)'
      BY <1>1, <1>3, <2>1, <2>2, TwoAmounts
    <2>4. Cardinality(Held') = Cardinality(Held) - thread[t].n
      BY <1>1, <2>1, <2>2, <2>3
    <2>5. usedBytes' = IF usedBytes - thread[t].n < 0 THEN 0 ELSE usedBytes - thread[t].n
      BY <1>1, <1>7, AtLeastZero DEF ReleaseBytes
    <2>6. /\ usedBytes' <= Cardinality(Held')
          /\ usedBytes = Cardinality(Held) => usedBytes' = Cardinality(Held')
      BY <1>1, <1>3, <2>3, <2>4, <2>5
    <2> QED
      BY <1>3, <2>2, <2>3, <2>6 DEF BudgetInv
  <1>8. ASSUME NEW t \in Threads, NEW c \in Conns, Frees(t, c) PROVE BudgetInv'
    <2>1. PICK r : r = At("closeSocket", c, 0, thread[t].then)
      OBVIOUS
    <2>2. /\ To(t, r) /\ r.at \notin HoldPlaces /\ thread[t].at \in HoldPlaces
          /\ ReleaseBytes(thread[t].n) /\ KeepQueues
      BY <1>8, <2>1 DEF Frees, At, HoldPlaces
    <2> QED
      BY <1>7, <2>2
  <1>9. CASE Releases
    <2>1. PICK r : r = Back(Loop)
      OBVIOUS
    <2>2. /\ To(Loop, r) /\ r.at \notin HoldPlaces /\ thread[Loop].at \in HoldPlaces
          /\ ReleaseBytes(thread[Loop].n) /\ KeepQueues /\ thread[Loop].conn \in Conns
      BY <1>2, <1>9, <2>1 DEF Releases, Back, At, Idle, HoldPlaces
    <2> QED
      BY <1>0, <1>7, <2>2
  <1>10. ASSUME NEW t \in Threads, NEW c \in Conns, Gives(t, c) PROVE BudgetInv'
    <2>1. PICK r : r = Released(t)
      OBVIOUS
    <2>2. thread[t].then \notin HoldPlaces
      BY Types DEF ThreadRecords, Thens, HoldPlaces
    <2>3. /\ To(t, r) /\ r.at \notin HoldPlaces /\ thread[t].at \notin HoldPlaces
          /\ KeepQueues /\ KeepBudget
      BY <1>10, <2>1, <2>2 DEF Gives, Released, Back, At, Idle, HoldPlaces
    <2> QED
      BY <2>3, BudgetSame
  <1>11. ASSUME NEW c \in Conns, NEW t \in Threads, NEW k \in Sizes, Sends(t, c, k)
         PROVE  BudgetInv'
    <2>1. PICK r : r = At("interest", c, 0, thread[t].then)
      OBVIOUS
    <2>2. To(t, r) /\ r.at = "interest" /\ thread[t].at = "send"
      BY <1>11, <2>1 DEF Sends, At
    <2>3. /\ InHand(t) = 0 /\ InHand(t)' = 0
          /\ \A u \in Threads : u # t => InHand(u)' = InHand(u)
      BY <2>2, HandAfter DEF InHand
    <2>4. k \in Nat
      BY Constants
    <2>5. /\ queuedBytes'[c] = queuedBytes[c] + k
          /\ \A d \in Conns : d # c => queuedBytes'[d] = queuedBytes[d]
          /\ closed' = closed /\ usedBytes' = usedBytes + k
      BY <1>1, <1>11 DEF Sends
    <2>6. queuedBytes[c] \in Nat /\ queuedBytes'[c] \in Nat
      BY <1>1, <2>4, <2>5
    <2>7. /\ IsFiniteSet(Held')
          /\ Cardinality(Held) \in Nat /\ Cardinality(Held') \in Nat
          /\ Cardinality(Held') = Cardinality(Held) - queuedBytes[c] - InHand(t)
                                      + queuedBytes'[c] + InHand(t)'
      BY <1>3, <2>3, <2>5, <2>6, TwoAmounts
    <2>8. Cardinality(Held') = Cardinality(Held) + k
      BY <2>3, <2>4, <2>5, <2>6, <2>7
    <2>9. /\ usedBytes' <= Cardinality(Held')
          /\ usedBytes = Cardinality(Held) => usedBytes' = Cardinality(Held')
      BY <1>1, <1>3, <2>4, <2>5, <2>7, <2>8
    <2> QED
      BY <1>3, <2>5, <2>7, <2>9 DEF BudgetInv
  <1>12. ASSUME NEW c \in Conns, NEW k \in Nat, Writes(c, k) PROVE BudgetInv'
    <2>1. PICK then : To(Loop, At("consume", c, k, then))
      BY <1>12 DEF Writes
    <2>2. /\ At("consume", c, k, then).at \notin HoldPlaces
          /\ thread[Loop].at \notin HoldPlaces /\ KeepQueues /\ KeepBudget
      BY <1>12 DEF Writes, At, HoldPlaces
    <2> QED
      BY <1>0, <2>1, <2>2, BudgetSame
  <1>13. ASSUME NEW c \in Conns, NEW k \in Nat, NEW rest, Consumes(c, k, rest)
         PROVE  BudgetInv'
    <2>1. PICK r : r = At("consumed", c, k, thread[Loop].then)
      OBVIOUS
    <2>2. /\ To(Loop, r) /\ r.at = "consumed" /\ r.n = k
          /\ thread[Loop].at = "consume" /\ thread[Loop].conn = c /\ k = thread[Loop].n
      BY <1>13, <2>1 DEF Consumes, At
    <2>3. /\ InHand(Loop) = 0 /\ InHand(Loop)' = k
          /\ \A u \in Threads : u # Loop => InHand(u)' = InHand(u)
      BY <1>0, <2>2, HandAfter DEF InHand
    <2>4. /\ queuedBytes'[c] = IF queuedBytes[c] - k < 0 THEN 0 ELSE queuedBytes[c] - k
          /\ \A d \in Conns : d # c => queuedBytes'[d] = queuedBytes[d]
          /\ closed' = closed /\ usedBytes' = usedBytes
      <3>1. queuedBytes[c] - k \in Int
        BY <1>1
      <3>2. Max({0, queuedBytes[c] - k})
               = IF queuedBytes[c] - k < 0 THEN 0 ELSE queuedBytes[c] - k
        BY <3>1, AtLeastZero
      <3> QED
        BY <1>1, <1>13, <3>2 DEF Consumes, KeepBudget
    <2>5. queuedBytes[c] \in Nat /\ queuedBytes'[c] \in Nat
      BY <1>1, <2>4
    <2>6. /\ IsFiniteSet(Held')
          /\ Cardinality(Held) \in Nat /\ Cardinality(Held') \in Nat
          /\ Cardinality(Held') = Cardinality(Held) - queuedBytes[c] - InHand(Loop)
                                      + queuedBytes'[c] + InHand(Loop)'
      BY <1>0, <1>3, <2>3, <2>4, <2>5, TwoAmounts
    <2>7. /\ Cardinality(Held') >= Cardinality(Held)
          /\ k <= queuedBytes[c] => Cardinality(Held') = Cardinality(Held)
      BY <2>3, <2>4, <2>5, <2>6
    <2>8. ~closed[c] => k <= queuedBytes[c]
      BY <2>2 DEF StreamInv, StreamKept
    <2>9. usedBytes' <= Cardinality(Held')
      BY <1>1, <1>3, <2>4, <2>6, <2>7
    <2> QED
      BY <1>3, <2>4, <2>6, <2>7, <2>8, <2>9 DEF BudgetInv
  <1>14. CASE Rests
    <2>1. Held' = Held
      BY <1>14, HeldSame DEF Rests, KeepAll, KeepQueues, InHand
    <2> QED
      BY <1>14, <2>1 DEF Rests, KeepAll, KeepQueues, KeepBudget, BudgetInv
  <1> QED
    BY <1>4, <1>5, <1>6, <1>8, <1>9, <1>10, <1>11, <1>12, <1>13, <1>14
       DEF Kind, CloseKind, BytesKind

----------------------------------------------------------------------------
(* Types.                                                                  *)

\* What ReleaseSlot leaves.
LEMMA TheSmaller ==
    ASSUME NEW a \in Nat, NEW b \in Nat
    PROVE  Min({a, b}) = IF a < b THEN a ELSE b
  <1>1. CASE a < b
    <2>1. /\ a \in {a, b} /\ \A y \in {a, b} : a <= y
          /\ \A m \in {a, b} : (\A y \in {a, b} : m <= y) => m = a
      BY <1>1
    <2> QED
      BY <1>1, <2>1 DEF Min
  <1>2. CASE b <= a
    <2>1. /\ b \in {a, b} /\ \A y \in {a, b} : b <= y
          /\ \A m \in {a, b} : (\A y \in {a, b} : m <= y) => m = b
      BY <1>2
    <2> QED
      BY <1>2, <2>1 DEF Min
  <1> QED
    BY <1>1, <1>2

\* The variables that count, but for the range of released.
CountTypes ==
    /\ closed \in [Conns -> BOOLEAN]
    /\ buffer \in [Conns -> Nat] /\ queuedBytes \in [Conns -> Nat]
    /\ pendingWrites \in [Conns -> Nat]
    /\ taken \in [Conns -> Nat] /\ written \in [Conns -> Nat]
    /\ usedBytes \in 0..MaxBytes /\ slots \in 0..MaxConnections
    /\ released \in [Conns -> Nat]

LEMMA BytesReleased ==
    ASSUME NEW n \in Nat, usedBytes \in 0..MaxBytes, ReleaseBytes(n)
    PROVE  usedBytes' \in 0..MaxBytes
  <1>1. MaxBytes \in Nat
    BY Constants
  <1>2. usedBytes - n \in Int
    OBVIOUS
  <1>3. usedBytes' = IF usedBytes - n < 0 THEN 0 ELSE usedBytes - n
    BY <1>2, AtLeastZero DEF ReleaseBytes
  <1> QED
    BY <1>1, <1>3

LEMMA CountStep ==
    ASSUME TypeOK, PlacesInv, Kind
    PROVE  CountTypes'
  <1> USE DEF KeepAll, KeepQueues, KeepSlots, KeepHistory, KeepBudget
  <1>0. /\ MaxBytes \in Nat /\ MaxConnections \in Nat
        /\ Loop \in Threads
    BY Constants
  <1>1. /\ CountTypes
        /\ \A t \in Threads : thread[t].n \in Nat
    BY Types DEF CountTypes, ThreadRecords
  <1>2. CASE KeepAll
    BY <1>1, <1>2 DEF CountTypes
  <1>3. ASSUME NEW c \in Conns, ReleaseSlot(c), KeepQueues, KeepHistory, KeepBudget
        PROVE  CountTypes'
    <2>1. slots + 1 \in Nat /\ slots \in 0..MaxConnections
      BY <1>0, <1>1 DEF CountTypes
    <2>2. slots' = IF slots + 1 < MaxConnections THEN slots + 1 ELSE MaxConnections
      BY <1>0, <1>3, <2>1, TheSmaller DEF ReleaseSlot
    <2>3. slots' \in 0..MaxConnections
      BY <1>0, <2>1, <2>2
    <2>4. released' \in [Conns -> Nat]
      BY <1>1, <1>3 DEF ReleaseSlot, CountTypes
    <2> QED
      BY <1>1, <1>3, <2>3, <2>4 DEF CountTypes
  <1>4. CASE AcceptKind
    <2>1. PICK c \in Conns : Admits(c) \/ Binds(c) \/ Refuses(c) \/ \E r : Publishes(c, r)
      BY <1>4 DEF AcceptKind
    <2>2. CASE Admits(c)
      <3>1. slots' \in 0..MaxConnections
        BY <1>0, <1>1, <2>2 DEF Admits, CountTypes
      <3> QED
        BY <1>1, <2>2, <3>1 DEF Admits, CountTypes
    <2>3. CASE Binds(c) \/ \E r : Publishes(c, r)
      BY <1>1, <2>3 DEF Binds, Publishes, CountTypes
    <2>4. CASE Refuses(c)
      BY <1>1, <1>3, <2>4 DEF Refuses, CountTypes
    <2> QED
      BY <2>1, <2>2, <2>3, <2>4
  <1>5. CASE CloseKind
    <2>1. PICK t \in Threads, c \in Conns : Flags(t, c) \/ Frees(t, c) \/ Gives(t, c)
      BY <1>5 DEF CloseKind
    <2>2. CASE Flags(t, c)
      BY <1>1, <2>2 DEF Flags, CountTypes
    <2>3. CASE Frees(t, c)
      <3>1. usedBytes' \in 0..MaxBytes
        BY <1>1, <2>3, BytesReleased DEF Frees, CountTypes
      <3> QED
        BY <1>1, <2>3, <3>1 DEF Frees, CountTypes
    <2>4. CASE Gives(t, c)
      BY <1>3, <2>4 DEF Gives
    <2> QED
      BY <2>1, <2>2, <2>3, <2>4
  <1>6. CASE Releases
    <2>1. usedBytes' \in 0..MaxBytes
      BY <1>0, <1>1, <1>6, BytesReleased DEF Releases, CountTypes
    <2> QED
      BY <1>1, <1>6, <2>1 DEF Releases, CountTypes
  <1>7. ASSUME NEW c \in Conns, NEW t \in Threads, NEW k \in Sizes, Sends(t, c, k)
        PROVE  CountTypes'
    <2>1. k \in Nat
      BY Constants
    <2>2. usedBytes' \in 0..MaxBytes
      BY <1>0, <1>1, <1>7, <2>1 DEF Sends, SendOk, CountTypes
    <2> QED
      BY <1>1, <1>7, <2>1, <2>2 DEF Sends, CountTypes
  <1>8. ASSUME NEW c \in Conns, NEW k \in Nat, Writes(c, k) PROVE CountTypes'
    BY <1>1, <1>8 DEF Writes, CountTypes
  <1>9. ASSUME NEW c \in Conns, NEW k \in Nat, NEW rest, Consumes(c, k, rest)
        PROVE  CountTypes'
    <2>1. buffer[c] - k \in Int /\ queuedBytes[c] - k \in Int
      BY <1>1 DEF CountTypes
    <2>2. Max({0, buffer[c] - k}) \in Nat /\ Max({0, queuedBytes[c] - k}) \in Nat
      BY <2>1, AtLeastZero
    <2> HIDE DEF Max
    <2> QED
      BY <1>1, <1>9, <2>2 DEF Consumes, CountTypes
  <1>10. CASE HopKind \/ Rests
    BY <1>2, <1>10 DEF HopKind, Rests
  <1> QED
    BY <1>4, <1>5, <1>6, <1>7, <1>8, <1>9, <1>10 DEF Kind, BytesKind

LEMMA ThreadTypes ==
    ASSUME TypeOK, PlacesInv, Kind
    PROVE  thread' \in [Threads -> ThreadRecords]
  <1>0. Loop \in Threads /\ Accept \in Threads
    BY Constants
  <1>1. /\ thread \in [Threads -> ThreadRecords]
        /\ buffer \in [Conns -> Nat] /\ queuedBytes \in [Conns -> Nat]
    BY Types
  <1>2. \A t \in Threads : /\ thread[t].n \in Nat /\ thread[t].conn \in Conns \cup {None}
                           /\ thread[t].then \in Thens
    BY <1>1 DEF ThreadRecords
  <1>3. \A t \in Threads : thread[t].at # "idle" => thread[t].conn \in Conns
    BY Constants DEF PlacesInv, LoopPlaced, UserPlaced, AcceptPlaced, LoopFits, UserFits,
                     AcceptFits
  <1>4. \A place \in Places, c \in Conns \cup {None}, n \in Nat,
           then \in Thens :
           At(place, c, n, then) \in ThreadRecords
    BY Fields
  <1>5. Idle \in ThreadRecords /\ \A t \in Threads : Back(t) \in ThreadRecords
    <2>1. Thens \ {"idle"} \subseteq Places
      BY PlacesNamed DEF Thens
    <2>2. ASSUME NEW t \in Threads PROVE Back(t) \in ThreadRecords
      <3>1. CASE thread[t].then = "idle"
        BY <3>1, IdleFields DEF Back
      <3>2. CASE thread[t].then # "idle"
        <4>1. /\ thread[t].then \in Places /\ thread[t].conn \in Conns \cup {None}
              /\ 0 \in Nat
          BY <1>2, <2>1, <3>2
        <4>2. At(thread[t].then, thread[t].conn, 0, "idle") \in ThreadRecords
          BY <1>4, <4>1 DEF Thens
        <4> QED
          BY <3>2, <4>2 DEF Back
      <3> QED
        BY <3>1, <3>2
    <2> QED
      BY <2>2, IdleFields
  <1>6. ASSUME NEW t \in Threads, NEW r \in ThreadRecords, To(t, r)
        PROVE  thread' \in [Threads -> ThreadRecords]
    BY <1>6, Moved
  <1>7. CASE HopKind
    <2>1. PICK t, r : t \in Threads /\ Hops(t, r) /\ To(t, r)
      BY <1>7 DEF HopKind
    <2>2. CASE Enters(t, r) \/ Called(t, r)
      BY <1>4, <1>6, <2>1, <2>2, PlacesNamed DEF Enters, Called, Thens
    <2>3. CASE Returns(t, r) \/ GoesOn(t, r)
      BY <1>2, <1>4, <1>5, <1>6, <2>1, <2>3, PlacesNamed DEF Returns, GoesOn
    <2>4. CASE Fails(t, r) \/ Registers(t, r) \/ Ends(t, r)
      <3>1. \/ r = Idle
            \/ \E place \in Places, n \in Nat, then \in Thens :
                  r = At(place, thread[t].conn, n, then)
        <4>1. CASE Fails(t, r) \/ Registers(t, r)
          BY <4>1, PlacesNamed DEF Fails, Registers, Thens
        <4>2. CASE Ends(t, r)
          <5>1. {"idle", "slot", "shut"} \subseteq Thens
            BY DEF Thens
          <5>2. {"setLost", "unlist", "abort", "shut", "onClose", "remove", "slot", "lose",
                 "close"} \subseteq Places
            BY PlacesNamed
          <5> QED
            BY <1>2, <2>1, <4>2, <5>1, <5>2 DEF Ends
        <4> QED
          BY <2>4, <4>1, <4>2
      <3>2. r \in ThreadRecords
        BY <1>2, <1>4, <1>5, <2>1, <3>1
      <3> QED
        BY <1>6, <2>1, <3>2
    <2>5. CASE Offers(t, r)
      BY <1>1, <1>3, <1>4, <1>6, <2>1, <2>5, PlacesNamed DEF Offers, Thens
    <2> QED
      BY <2>1, <2>2, <2>3, <2>4, <2>5 DEF Hops
  <1>8. CASE AcceptKind
    BY <1>0, <1>4, <1>5, <1>6, <1>8, PlacesNamed DEF AcceptKind, Admits, Binds, Publishes,
                                                     Refuses, Thens
  <1>9. CASE CloseKind
    <2>1. PICK t \in Threads, c \in Conns : Flags(t, c) \/ Frees(t, c) \/ Gives(t, c)
      BY <1>9 DEF CloseKind
    <2>2. (IF thread[t].at = "abort" THEN "shut" ELSE "idle") \in Thens
      BY DEF Thens
    <2>3. CASE Flags(t, c)
      BY <1>1, <1>4, <1>6, <2>2, <2>3, PlacesNamed DEF Flags
    <2>4. CASE Frees(t, c)
      BY <1>2, <1>4, <1>6, <2>4, PlacesNamed DEF Frees
    <2>5. CASE Gives(t, c)
      <3>1. Released(t) \in ThreadRecords
        <4>1. Caller(t) \in Thens
          BY DEF Caller, Thens
        <4> QED
          BY <1>2, <1>4, <1>5, <4>1, PlacesNamed DEF Released
      <3> QED
        BY <1>6, <2>5, <3>1 DEF Gives
    <2> QED
      BY <2>1, <2>3, <2>4, <2>5
  <1>10. CASE BytesKind
    BY <1>0, <1>2, <1>4, <1>5, <1>6, <1>10, PlacesNamed DEF BytesKind, Sends, Writes,
                                                           Consumes, Releases, Thens
  <1>11. CASE Rests
    BY <1>1, <1>11 DEF Rests
  <1> QED
    BY <1>7, <1>8, <1>9, <1>10, <1>11 DEF Kind

LEMMA TypeStep ==
    ASSUME TypeOK, PlacesInv, SlotInv', [Next]_vars
    PROVE  TypeOK'
  <1>1. Kind /\ SocketTypes'
    BY Kinds, TablesStep
  <1>2. /\ stage' \in [Conns -> {"new", "admitted", "bound", "published"}]
        /\ CountTypes' /\ thread' \in [Threads -> ThreadRecords]
    BY <1>1, StagesGrow, CountStep, ThreadTypes
  <1>3. released' \in [Conns -> 0..2]
    <2>1. \A c \in Conns : released'[c] \in 0..2
      BY DEF SlotInv, SlotKept
    <2> QED
      BY <1>2, <2>1 DEF CountTypes
  <1> QED
    BY <1>1, <1>2, <1>3, TypesNext DEF SocketTypes, CountTypes

----------------------------------------------------------------------------
(* The invariant holds.                                                    *)

LEMMA InvInit ==
    ASSUME Init
    PROVE  Inv
  <1> USE DEF Init
  <1>0. /\ Loop \in Threads /\ Accept \in Threads /\ \A u \in Users : u \in Threads
        /\ MaxBytes \in Nat /\ MaxConnections \in Nat
    BY Constants
  <1>1. /\ \A t \in Threads : thread[t] = Idle
        /\ Idle.at = "idle" /\ Idle.then = "idle"
    BY IdleFields
  <1>2. TypeOK
    <2>1. thread \in [Threads -> ThreadRecords]
      BY IdleFields
    <2> QED
      BY <1>0, <2>1, Types
  <1>3. PlacesInv
    BY <1>0, <1>1 DEF PlacesInv, LoopPlaced, UserPlaced, AcceptPlaced, TablesPlaced,
                      LoopFits, UserFits, AcceptFits, LoopPlaces, UserPlaces, AcceptPlaces,
                      EndPlaces, LossPlaces, ClosePlaces
  <1>4. SlotInv
    BY <1>0, <1>1 DEF SlotInv, SlotKept, Closing, Closes, Accepting, Unreleased,
                      LossPlaces, ClosePlaces
  <1>5. StreamInv
    BY <1>0, <1>1 DEF StreamInv, StreamKept, InFlight
  <1>6. Held = {}
    <2>1. \A h \in Holders : Amount(h) = 0
      BY <1>1 DEF Holders, Amount, InHand
    <2> QED
      BY <2>1 DEF Held
  <1>7. BudgetInv
    BY <1>6, FS_EmptySet DEF BudgetInv
  <1> QED
    BY <1>2, <1>3, <1>4, <1>5, <1>7 DEF Inv

LEMMA InvNext ==
    ASSUME Inv, [Next]_vars
    PROVE  Inv'
  <1>1. Kind
    BY Kinds DEF Inv
  <1>2. PlacesInv' /\ SlotInv' /\ StreamInv' /\ BudgetInv'
    BY <1>1, PlacesStep, SlotStep, StreamStep, BudgetStep DEF Inv
  <1> QED
    BY <1>2, TypeStep DEF Inv

\* The invariant, of which the properties of the runs are parts: threads are at
\* their places, slots are released by one closer or by the accept thread, the
\* loop alone consumes, and the budget is what queues and hands hold.
THEOREM Invariance == Spec => []Inv
  <1>1. Init => Inv
    BY InvInit
  <1>2. Inv /\ [Next]_vars => Inv'
    BY InvNext
  <1> QED
    BY <1>1, <1>2, PTL DEF Spec

----------------------------------------------------------------------------
(* What follows from it.                                                   *)

\* Every variable keeps its shape, the budget and the semaphore stay within
\* their bounds, and no thread is ever at a place without a connection's name.
THEOREM TypesKept == Spec => []TypeOK
  BY Invariance, PTL DEF Inv

\* However the loop thread and any number of senders interleave, the buffer of
\* an open connection is what send() accepted and the socket did not take, the
\* counters of the queue agree with it, and flush() sees an empty queue only
\* when the buffer is empty.
THEOREM StreamIsExact == Spec => []StreamExact
  <1>1. Inv => StreamExact
    BY DEF Inv, StreamInv, StreamKept, StreamExact
  <1> QED
    BY <1>1, Invariance, PTL

\* The budget never counts more than connections hold in their queues and
\* threads have in hand, so that no byte of it leaks; while nothing was closed
\* it counts exactly that; and neither it nor a queue goes below zero.
THEOREM BudgetIsAccounted == Spec => []BudgetAccounted
  <1>1. Inv => BudgetAccounted
    <2> SUFFICES ASSUME Inv PROVE BudgetAccounted
      OBVIOUS
    <2>1. /\ buffer \in [Conns -> Nat] /\ queuedBytes \in [Conns -> Nat]
          /\ usedBytes \in 0..MaxBytes /\ MaxBytes \in Nat
      BY Types, Constants DEF Inv
    <2>2. BudgetInv
      BY DEF Inv
    <2> QED
      BY <2>1, <2>2 DEF BudgetInv, BudgetAccounted
  <1> QED
    BY <1>1, Invariance, PTL

\* Whichever threads close a connection, and however often, its slot is
\* released once, unless the registration of it failed after it was bound.
THEOREM SlotIsReturnedOnce == Spec => []SlotReturnedOnce
  <1>1. Inv => SlotReturnedOnce
    <2> SUFFICES ASSUME Inv, NEW c \in Conns, released[c] > 1 PROVE stage[c] = "bound"
      BY DEF SlotReturnedOnce
    <2>1. SlotKept(c)
      BY DEF Inv, SlotInv
    <2> QED
      BY <2>1 DEF SlotKept
  <1> QED
    BY <1>1, Invariance, PTL

=============================================================================
