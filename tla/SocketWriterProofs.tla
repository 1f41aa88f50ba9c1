------------------------- MODULE SocketWriterProofs -------------------------
(***************************************************************************)
(* Proofs about SocketWriter, for any writers, payloads, bounds and        *)
(* threads that close: the counters of a writer and the shared budget are  *)
(* exact, and the socket sees what was accepted, in order.                 *)
(***************************************************************************)
EXTENDS SocketWriter, FiniteSetTheorems, TLAPS

----------------------------------------------------------------------------
(* What a queue holds after a frame is put into it or taken from it, and    *)
(* how the size of a set changes.                                          *)

\* A sequence has an element; and it has it at one place at most.
In(m, s) == \E i \in 1..Len(s) : s[i] = m
Once(m, s) == \A i, j \in 1..Len(s) : s[i] = m /\ s[j] = m => i = j

\* An empty sequence.
LEMMA Empty ==
    \A m : ~In(m, <<>>) /\ Once(m, <<>>)
  BY DEF In, Once

\* What a receiver takes from a channel and what is left.
LEMMA TakeFirst ==
    ASSUME NEW S, NEW s \in Seq(S), s # <<>>
    PROVE  /\ Head(s) \in S /\ In(Head(s), s)
           /\ Tail(s) \in Seq(S)
           /\ \A m : In(m, s) <=> m = Head(s) \/ In(m, Tail(s))
           /\ \A m : Once(m, s) => Once(m, Tail(s))
           /\ Once(Head(s), s) => ~In(Head(s), Tail(s))
  <1>1. /\ Len(s) \in Nat \ {0} /\ Head(s) = s[1] /\ s[1] \in S
        /\ Tail(s) \in Seq(S) /\ Len(Tail(s)) = Len(s) - 1
        /\ \A i \in 1..Len(Tail(s)) : Tail(s)[i] = s[i + 1]
    OBVIOUS
  <1> DEFINE t == Tail(s)
  <1>2. /\ Len(t) = Len(s) - 1
        /\ \A i \in 1..Len(t) : t[i] = s[i + 1]
    BY <1>1
  <1> HIDE DEF t
  <1>3. In(s[1], s)
    BY <1>1 DEF In
  <1>4. ASSUME NEW m PROVE In(m, s) <=> m = s[1] \/ In(m, t)
    <2>1. ASSUME In(m, t) PROVE In(m, s)
      <3>1. PICK i \in 1..Len(t) : t[i] = m
        BY <2>1 DEF In
      <3>2. i + 1 \in 1..Len(s) /\ s[i + 1] = m
        BY <1>1, <1>2, <3>1
      <3> QED
        BY <3>2 DEF In
    <2>2. ASSUME In(m, s), m # s[1] PROVE In(m, t)
      <3>1. PICK i \in 1..Len(s) : s[i] = m
        BY <2>2 DEF In
      <3>2. i - 1 \in 1..Len(t) /\ t[i - 1] = m
        BY <1>1, <1>2, <2>2, <3>1
      <3> QED
        BY <3>2 DEF In
    <2> QED
      BY <1>3, <2>1, <2>2
  <1>5. ASSUME NEW m, Once(m, s) PROVE Once(m, t)
    BY <1>1, <1>2, <1>5 DEF Once
  <1>6. ASSUME Once(s[1], s) PROVE ~In(s[1], t)
    BY <1>1, <1>2, <1>6 DEF In, Once
  <1> QED
    BY <1>1, <1>3, <1>4, <1>5, <1>6 DEF t

\* A channel with one more message.
LEMMA PutLast ==
    ASSUME NEW S, NEW s \in Seq(S), NEW x \in S
    PROVE  /\ Append(s, x) \in Seq(S)
           /\ \A m : In(m, Append(s, x)) <=> In(m, s) \/ m = x
           /\ \A m : Once(m, s) /\ (m = x => ~In(m, s)) => Once(m, Append(s, x))
  <1>1. /\ Len(s) \in Nat /\ Append(s, x) \in Seq(S)
        /\ Len(Append(s, x)) = Len(s) + 1
        /\ \A i \in 1..Len(s) : Append(s, x)[i] = s[i]
        /\ Append(s, x)[Len(s) + 1] = x
    OBVIOUS
  <1> DEFINE t == Append(s, x)
  <1>2. /\ Len(t) = Len(s) + 1
        /\ \A i \in 1..Len(s) : t[i] = s[i]
        /\ t[Len(s) + 1] = x
    BY <1>1
  <1> HIDE DEF t
  <1>3. \A i \in 1..Len(t) : i \in 1..Len(s) \/ i = Len(s) + 1
    BY <1>1, <1>2
  <1>4. ASSUME NEW m PROVE In(m, t) <=> In(m, s) \/ m = x
    <2>1. ASSUME In(m, s) PROVE In(m, t)
      BY <1>1, <1>2, <2>1 DEF In
    <2>2. ASSUME m = x PROVE In(m, t)
      BY <1>1, <1>2, <2>2 DEF In
    <2>3. ASSUME In(m, t), m # x PROVE In(m, s)
      BY <1>2, <1>3, <2>3 DEF In
    <2> QED
      BY <2>1, <2>2, <2>3
  <1>5. ASSUME NEW m, Once(m, s), m = x => ~In(m, s)
        PROVE  Once(m, t)
    BY <1>1, <1>2, <1>3, <1>5 DEF Once, In
  <1> QED
    BY <1>1, <1>4, <1>5 DEF t

\* The size of two sets that have nothing in common.
LEMMA SizeOfBoth ==
    ASSUME NEW S, IsFiniteSet(S), NEW T, IsFiniteSet(T), S \cap T = {}
    PROVE  /\ IsFiniteSet(S \cup T)
           /\ Cardinality(S \cup T) = Cardinality(S) + Cardinality(T)
  <1>1. /\ IsFiniteSet(S \cup T)
        /\ Cardinality(S \cup T) =
              Cardinality(S) + Cardinality(T) - Cardinality(S \cap T)
    BY FS_Union
  <1>2. Cardinality(S \cap T) = 0
    BY FS_EmptySet
  <1>3. Cardinality(S) \in Nat /\ Cardinality(T) \in Nat
    BY FS_CardinalityType
  <1> QED
    BY <1>1, <1>2, <1>3

\* The numbered parts of one thing.
LEMMA SizeOfParts ==
    ASSUME NEW x, NEW n \in Nat
    PROVE  IsFiniteSet({x} \X (1..n)) /\ Cardinality({x} \X (1..n)) = n
  <1>1. IsFiniteSet({x}) /\ Cardinality({x}) = 1
    BY FS_Singleton
  <1>2. IsFiniteSet(1..n) /\ Cardinality(1..n) = n
    BY FS_Interval
  <1>3. /\ IsFiniteSet({x} \X (1..n))
        /\ Cardinality({x} \X (1..n)) = Cardinality({x}) * Cardinality(1..n)
    BY <1>1, <1>2, FS_Product
  <1>4. 1 * n = n
    OBVIOUS
  <1> QED
    BY <1>1, <1>2, <1>3, <1>4, Zenon

----------------------------------------------------------------------------
(* The owners of frames.                                                   *)

\* The threads that take frames from the queues, and what each has in hand.
Hands   == Writers \cup Closers
Hand(h) == IF h \in Writers THEN thread[h] ELSE closer[h]

Counting == {"send", "sent", "unsent", "drop"}
Freeing  == {"release", "releaseFail", "dropRelease"}
Busy(h)  == Hand(h).at \in Counting \cup Freeing

Held(w) == Uncompleted(w) \cup Releasing(w)
AllHeld == UNION {Uncompleted(w) \cup Releasing(w) : w \in Writers}

----------------------------------------------------------------------------
(* The invariant.                                                          *)

\* Who works for whom.
OwnersInv ==
    /\ \A w \in Writers : thread[w].writer = w
    /\ \A c \in Closers : closer[c].at # "idle" => closer[c].writer \in Writers
    /\ \A h \in Hands : Busy(h) => Hand(h).frame \in Frames

\* A frame is in one queue, once, or in one hand, and its writer accepted it.
PlaceInv ==
    /\ \A w \in Writers, f \in Frames : Once(f, queue[w])
    /\ \A w, v \in Writers, f \in Frames :
          In(f, queue[w]) /\ In(f, queue[v]) => w = v
    /\ \A h \in Hands, w \in Writers : Busy(h) => ~In(Hand(h).frame, queue[w])
    /\ \A h, k \in Hands :
          Busy(h) /\ Busy(k) /\ Hand(h).frame = Hand(k).frame => h = k
    /\ \A w \in Writers : \A f \in Held(w) : In(f, accepted[w])

\* What is counted can be counted.
CountInv ==
    /\ CountersExact
    /\ BudgetExact
    /\ \A w \in Writers : /\ IsFiniteSet(Uncompleted(w))
                          /\ IsFiniteSet(BytesOf(Uncompleted(w)))
    /\ IsFiniteSet(BytesOf(AllHeld))

\* What the flags of a writer say.
FlagInv ==
    /\ \A w \in Writers :
          /\ failed[w] => closed[w] /\ ~socketOpen[w]
          /\ thread[w].at \in {"drain", "drop", "dropRelease", "ended"} => closed[w]
          /\ In(Stop, queue[w]) => closed[w]
    /\ \A c \in Closers :
          /\ closer[c].at = "stop" => closed[closer[c].writer]
          /\ closer[c].at \in {"drain", "drop", "dropRelease"}
                => failed[closer[c].writer]

\* No failure is known yet; and the frames the thread has taken till then, the
\* one included that it is writing or that a sendall has failed on.
Failing  == {"unsent", "releaseFail", "fail"}
Writing  == {"send"} \cup Failing
Sound(w) == ~failed[w]
Taken(w) == Len(written[w]) + (IF thread[w].at \in Writing THEN 1 ELSE 0)

\* The frames that were accepted are those written, the one in the hands of the
\* thread and those in the queue; behind these the queue holds _STOP alone.
OrderOf(w) ==
    /\ Taken(w) <= Len(accepted[w])
    /\ Len(accepted[w]) - Taken(w) <= Len(queue[w])
    /\ thread[w].at = "send" => accepted[w][Taken(w)] = thread[w].frame
    /\ \A i \in 1..Len(queue[w]) :
          queue[w][i] = IF Taken(w) + i <= Len(accepted[w])
                           THEN accepted[w][Taken(w) + i] ELSE Stop
    /\ thread[w].at \in {"drain", "drop", "dropRelease", "ended"}
          => Taken(w) = Len(accepted[w])

OrderInv ==
    \A w \in Writers :
        /\ Len(written[w]) <= Len(accepted[w])
        /\ \A i \in 1..Len(written[w]) : written[w][i] = accepted[w][i]
        /\ Sound(w) => OrderOf(w)

Inv == TypeOK /\ OwnersInv /\ PlaceInv /\ CountInv /\ FlagInv /\ OrderInv

----------------------------------------------------------------------------
(* Types.                                                                  *)

Threads == [at : {"get", "send", "sent", "unsent", "release", "releaseFail", "fail",
                  "drain", "drop", "dropRelease", "ended"},
            writer : Writers, frame : Frames \cup {Stop}]
Callers == [at : {"idle", "stop", "join", "drain", "drop", "dropRelease", "done"},
            writer : Writers \cup {NoWriter}, frame : Frames \cup {Stop}]

\* What MemoryBudget.release leaves.
LEMMA AtLeastZero ==
    ASSUME NEW n \in Int
    PROVE  Max({0, n}) = IF n < 0 THEN 0 ELSE n
  <1>1. CASE n < 0
    <2>1. /\ 0 \in {0, n} /\ \A y \in {0, n} : 0 >= y
          /\ \A m \in {0, n} : (\A y \in {0, n} : m >= y) => m = 0
      BY <1>1
    <2> QED
      BY <1>1, <2>1 DEF Max
  <1>2. CASE n >= 0
    <2>1. /\ n \in {0, n} /\ \A y \in {0, n} : n >= y
          /\ \A m \in {0, n} : (\A y \in {0, n} : m >= y) => m = n
      BY <1>2
    <2> QED
      BY <1>2, <2>1 DEF Max
  <1> QED
    BY <1>1, <1>2

\* What the queue of a writer holds next, in each of the ways it changes.
LEMMA QueueTypes ==
    ASSUME TypeOK, NEW w \in Writers
    PROVE  /\ queue[w] \in Seq(Frames \cup {Stop})
           /\ \A m \in Frames \cup {Stop} :
                 [queue EXCEPT ![w] = Append(@, m)] \in [Writers -> Seq(Frames \cup {Stop})]
           /\ [queue EXCEPT ![w] = <<Stop>>] \in [Writers -> Seq(Frames \cup {Stop})]
           /\ queue[w] # <<>> =>
                 /\ Head(queue[w]) \in Frames \cup {Stop}
                 /\ [queue EXCEPT ![w] = Tail(@)] \in [Writers -> Seq(Frames \cup {Stop})]
  <1>1. queue \in [Writers -> Seq(Frames \cup {Stop})]
    BY DEF TypeOK
  <1>2. <<Stop>> \in Seq(Frames \cup {Stop})
    OBVIOUS
  <1>3. queue[w] # <<>> => /\ Head(queue[w]) \in Frames \cup {Stop}
                           /\ Tail(queue[w]) \in Seq(Frames \cup {Stop})
    BY <1>1, TakeFirst
  <1>4. \A m \in Frames \cup {Stop} : Append(queue[w], m) \in Seq(Frames \cup {Stop})
    BY <1>1
  <1> QED
    BY <1>1, <1>2, <1>3, <1>4

\* Every variable has its shape at first.
LEMMA TypeInit == Init => TypeOK
  BY DEF Init, TypeOK, At, NoWriter

\* A thread goes to a place of its own.
LEMMA GotoTypes ==
    ASSUME TypeOK, NEW w \in Writers, NEW f \in Frames \cup {Stop},
           NEW place \in {"get", "send", "sent", "unsent", "release", "releaseFail",
                          "fail", "drain", "drop", "dropRelease", "ended"},
           Goto(w, place, f)
    PROVE  thread' \in [Writers -> Threads]
  BY DEF TypeOK, Goto, At, Threads

\* And so does a caller of close() or abort().
LEMMA MoveTypes ==
    ASSUME TypeOK, NEW c \in Closers, NEW w \in Writers \cup {NoWriter},
           NEW f \in Frames \cup {Stop},
           NEW place \in {"idle", "stop", "join", "drain", "drop", "dropRelease", "done"},
           Move(c, place, w, f)
    PROVE  closer' \in [Closers -> Callers]
  BY DEF TypeOK, Move, At, Callers

\* A thread takes a frame out of the counters of its writer.
LEMMA UncountTypes ==
    ASSUME TypeOK, NEW w \in Writers, NEW f \in Frames, Uncount(w, f)
    PROVE  queuedBytes' \in [Writers -> Int] /\ pendingWrites' \in [Writers -> Int]
  BY SocketWriterAssumption DEF TypeOK, Uncount

\* And gives its bytes back.
LEMMA ReleaseTypes ==
    ASSUME TypeOK, NEW f \in Frames, Release(f)
    PROVE  usedBytes' \in Nat
  <1>1. usedBytes - Size[f] \in Int
    BY SocketWriterAssumption DEF TypeOK
  <1> QED
    BY <1>1, AtLeastZero DEF Release

\* Whoever has a frame in hand has one; a caller that is not idle has a writer.
LEMMA InHand ==
    ASSUME TypeOK, OwnersInv
    PROVE  /\ \A w \in Writers :
                 /\ Hand(w) = thread[w] /\ thread[w].writer = w
                 /\ thread[w].at \in Counting \cup Freeing => thread[w].frame \in Frames
           /\ \A c \in Closers :
                 /\ Hand(c) = closer[c]
                 /\ closer[c].at # "idle" => closer[c].writer \in Writers
                 /\ closer[c].at \in Counting \cup Freeing => closer[c].frame \in Frames
  <1>1. ASSUME NEW w \in Writers PROVE Hand(w) = thread[w] /\ w \in Hands
    BY DEF Hand, Hands
  <1>2. ASSUME NEW c \in Closers PROVE Hand(c) = closer[c] /\ c \in Hands
    BY SocketWriterAssumption DEF Hand, Hands
  <1> QED
    BY <1>1, <1>2 DEF OwnersInv, Busy

\* Every step keeps the shape of the variables.
LEMMA TypeStep ==
    ASSUME TypeOK, OwnersInv, [Next]_vars
    PROVE  TypeOK'
  <1> USE DEF counters, history
  <1>1. ASSUME NEW w \in Writers, NEW f \in Frames, Send(w, f)
        PROVE  TypeOK'
    <2>1. queue' \in [Writers -> Seq(Frames \cup {Stop})]
      BY <1>1, QueueTypes DEF Send
    <2>2. accepted' \in [Writers -> Seq(Frames)]
      BY <1>1 DEF Send, TypeOK
    <2>3. /\ queuedBytes' \in [Writers -> Int] /\ pendingWrites' \in [Writers -> Int]
          /\ usedBytes' \in Nat
      <3>1. Size[f] \in Nat
        BY SocketWriterAssumption
      <3>2. /\ queuedBytes' = [queuedBytes EXCEPT ![w] = @ + Size[f]]
            /\ pendingWrites' = [pendingWrites EXCEPT ![w] = @ + 1]
            /\ usedBytes' = usedBytes + Size[f]
        BY <1>1 DEF Send
      <3>3. /\ queuedBytes \in [Writers -> Int] /\ pendingWrites \in [Writers -> Int]
            /\ usedBytes \in Nat
        BY DEF TypeOK
      <3> QED
        BY <3>1, <3>2, <3>3
    <2>4. UNCHANGED <<closed, failed, socketOpen, thread, closer, written>>
      BY <1>1 DEF Send
    <2> QED
      BY <2>1, <2>2, <2>3, <2>4 DEF TypeOK
  <1>2. ASSUME NEW w \in Writers, Get(w) \/ Drain(w)
        PROVE  TypeOK'
    <2>1. queue' \in [Writers -> Seq(Frames \cup {Stop})]
      <3>1. \/ queue' = queue
            \/ queue[w] # <<>> /\ queue' = [queue EXCEPT ![w] = Tail(@)]
        BY <1>2 DEF Get, Drain
      <3>2. queue \in [Writers -> Seq(Frames \cup {Stop})]
        BY DEF TypeOK
      <3> QED
        BY <3>1, <3>2, QueueTypes
    <2>2. thread' \in [Writers -> Threads]
      BY <1>2, QueueTypes, GotoTypes DEF Get, Drain
    <2>3. UNCHANGED <<queuedBytes, pendingWrites, closed, failed, socketOpen, usedBytes,
                      closer, accepted, written>>
      BY <1>2 DEF Get, Drain
    <2> QED
      BY <2>1, <2>2, <2>3 DEF TypeOK, Threads
  <1>3. ASSUME NEW w \in Writers, SendAll(w) \/ SendAllFails(w)
        PROVE  TypeOK'
    <2>1. thread[w].frame \in Frames
      BY <1>3, InHand DEF SendAll, SendAllFails, Counting
    <2>2. thread' \in [Writers -> Threads]
      BY <1>3, <2>1, GotoTypes DEF SendAll, SendAllFails
    <2>3. written' \in [Writers -> Seq(Frames)]
      <3>1. Append(written[w], thread[w].frame) \in Seq(Frames)
        BY <2>1 DEF TypeOK
      <3> QED
        BY <1>3, <3>1 DEF SendAll, SendAllFails, TypeOK
    <2>4. UNCHANGED <<queue, queuedBytes, pendingWrites, closed, failed, socketOpen,
                      usedBytes, closer, accepted>>
      BY <1>3 DEF SendAll, SendAllFails
    <2> QED
      BY <2>2, <2>3, <2>4 DEF TypeOK, Threads
  <1>4. ASSUME NEW w \in Writers, Complete(w) \/ DrainComplete(w)
        PROVE  TypeOK'
    <2>1. thread[w].frame \in Frames
      BY <1>4, InHand DEF Complete, DrainComplete, Counting
    <2>2. thread' \in [Writers -> Threads]
      BY <1>4, <2>1, GotoTypes DEF Complete, DrainComplete
    <2>3. queuedBytes' \in [Writers -> Int] /\ pendingWrites' \in [Writers -> Int]
      BY <1>4, <2>1, UncountTypes DEF Complete, DrainComplete
    <2>4. UNCHANGED <<queue, closed, failed, socketOpen, usedBytes, closer, accepted,
                      written>>
      BY <1>4 DEF Complete, DrainComplete
    <2> QED
      BY <2>2, <2>3, <2>4 DEF TypeOK, Threads
  <1>5. ASSUME NEW w \in Writers, ReleaseBudget(w) \/ DrainRelease(w)
        PROVE  TypeOK'
    <2>1. thread[w].frame \in Frames
      BY <1>5, InHand DEF ReleaseBudget, DrainRelease, Freeing
    <2>2. thread' \in [Writers -> Threads]
      BY <1>5, <2>1, GotoTypes DEF ReleaseBudget, DrainRelease
    <2>3. usedBytes' \in Nat
      BY <1>5, <2>1, ReleaseTypes DEF ReleaseBudget, DrainRelease
    <2>4. UNCHANGED <<queue, queuedBytes, pendingWrites, closed, failed, socketOpen,
                      closer, accepted, written>>
      BY <1>5 DEF ReleaseBudget, DrainRelease
    <2> QED
      BY <2>2, <2>3, <2>4 DEF TypeOK, Threads
  <1>6. ASSUME NEW w \in Writers, Fail(w)
        PROVE  TypeOK'
    <2>1. thread' \in [Writers -> Threads]
      BY <1>6, GotoTypes DEF Fail
    <2>2. /\ closed' \in [Writers -> BOOLEAN] /\ failed' \in [Writers -> BOOLEAN]
          /\ socketOpen' \in [Writers -> BOOLEAN]
      BY <1>6 DEF Fail, TypeOK
    <2>3. UNCHANGED <<queue, queuedBytes, pendingWrites, usedBytes, closer, accepted,
                      written>>
      BY <1>6 DEF Fail
    <2> QED
      BY <2>1, <2>2, <2>3 DEF TypeOK, Threads
  <1>7. ASSUME NEW w \in Writers, NEW c \in Closers, Close(c, w) \/ Abort(c, w)
        PROVE  TypeOK'
    <2>1. closer' \in [Closers -> Callers]
      BY <1>7, MoveTypes DEF Close, Abort
    <2>2. /\ closed' \in [Writers -> BOOLEAN] /\ failed' \in [Writers -> BOOLEAN]
          /\ socketOpen' \in [Writers -> BOOLEAN]
      BY <1>7 DEF Close, Abort, TypeOK
    <2>3. UNCHANGED <<queue, queuedBytes, pendingWrites, usedBytes, thread, accepted,
                      written>>
      BY <1>7 DEF Close, Abort
    <2> QED
      BY <2>1, <2>2, <2>3 DEF TypeOK, Callers
  <1>8. ASSUME NEW c \in Closers, ClosePutStop(c) \/ CloseJoined(c) \/ AbortDrain(c)
        PROVE  TypeOK'
    <2>1. closer[c].writer \in Writers
      BY <1>8, InHand DEF ClosePutStop, CloseJoined, AbortDrain
    <2>2. queue' \in [Writers -> Seq(Frames \cup {Stop})]
      <3>1. \/ queue' = queue
            \/ queue' = [queue EXCEPT ![closer[c].writer] = Append(@, Stop)]
            \/ queue' = [queue EXCEPT ![closer[c].writer] = <<Stop>>]
            \/ /\ queue[closer[c].writer] # <<>>
               /\ queue' = [queue EXCEPT ![closer[c].writer] = Tail(@)]
        BY <1>8 DEF ClosePutStop, CloseJoined, AbortDrain
      <3>2. ASSUME NEW w \in Writers
            PROVE  /\ queue \in [Writers -> Seq(Frames \cup {Stop})]
                   /\ [queue EXCEPT ![w] = Append(@, Stop)]
                         \in [Writers -> Seq(Frames \cup {Stop})]
                   /\ [queue EXCEPT ![w] = <<Stop>>] \in [Writers -> Seq(Frames \cup {Stop})]
                   /\ queue[w] # <<>> => [queue EXCEPT ![w] = Tail(@)]
                                            \in [Writers -> Seq(Frames \cup {Stop})]
        BY QueueTypes DEF TypeOK
      <3> QED
        BY <2>1, <3>1, <3>2
    <2>3. closer' \in [Closers -> Callers]
      BY <1>8, <2>1, QueueTypes, MoveTypes DEF ClosePutStop, CloseJoined, AbortDrain
    <2>4. UNCHANGED <<queuedBytes, pendingWrites, closed, failed, socketOpen, usedBytes,
                      thread, accepted, written>>
      BY <1>8 DEF ClosePutStop, CloseJoined, AbortDrain
    <2> QED
      BY <2>2, <2>3, <2>4 DEF TypeOK, Callers
  <1>9. ASSUME NEW c \in Closers, AbortComplete(c) \/ AbortRelease(c)
        PROVE  TypeOK'
    <2>1. closer[c].writer \in Writers /\ closer[c].frame \in Frames
      BY <1>9, InHand DEF AbortComplete, AbortRelease, Counting, Freeing
    <2>2. closer' \in [Closers -> Callers]
      BY <1>9, <2>1, MoveTypes DEF AbortComplete, AbortRelease
    <2>3. /\ queuedBytes' \in [Writers -> Int] /\ pendingWrites' \in [Writers -> Int]
          /\ usedBytes' \in Nat
      BY <1>9, <2>1, UncountTypes, ReleaseTypes DEF AbortComplete, AbortRelease, TypeOK
    <2>4. UNCHANGED <<queue, closed, failed, socketOpen, thread, accepted, written>>
      BY <1>9 DEF AbortComplete, AbortRelease
    <2> QED
      BY <2>2, <2>3, <2>4 DEF TypeOK, Callers
  <1>10. CASE UNCHANGED vars
    BY <1>10 DEF vars, TypeOK
  <1> QED
    BY <1>1, <1>2, <1>3, <1>4, <1>5, <1>6, <1>7, <1>8, <1>9, <1>10
       DEF Next, Thread, Closer

----------------------------------------------------------------------------
(* Every step is one of a few kinds.                                       *)

\* The queues keep their frames, or one of them loses one.
SameFrames ==
    \A v \in Writers, g \in Frames :
        /\ In(g, queue'[v]) <=> In(g, queue[v])
        /\ Once(g, queue[v]) => Once(g, queue'[v])
LosesFrame(w, f) ==
    \A v \in Writers, g \in Frames :
        /\ In(g, queue'[v]) <=> In(g, queue[v]) /\ ~(v = w /\ g = f)
        /\ Once(g, queue[v]) => Once(g, queue'[v])

OthersKeep(h) == \A k \in Hands : k # h => Hand(k)' = Hand(k)

\* A thread moves on with the frame in its hands, or without any.
Aside(h) ==
    /\ SameFrames
    /\ OthersKeep(h)
    /\ \/ ~Busy(h) /\ ~Busy(h)'
       \/ /\ Hand(h).at \in Counting /\ Hand(h)'.at \in Counting
          /\ Hand(h)'.writer = Hand(h).writer
          /\ Hand(h)'.frame = Hand(h).frame
    /\ UNCHANGED <<queuedBytes, pendingWrites, usedBytes, accepted>>

Takes(h, w, f) ==
    /\ In(f, queue[w])
    /\ LosesFrame(w, f)
    /\ OthersKeep(h)
    /\ ~Busy(h)
    /\ Hand(h)'.at \in Counting /\ Hand(h)'.writer = w /\ Hand(h)'.frame = f
    /\ UNCHANGED <<queuedBytes, pendingWrites, usedBytes, accepted>>

Counts(h) ==
    /\ SameFrames
    /\ OthersKeep(h)
    /\ Hand(h).at \in Counting /\ Hand(h)'.at \in Freeing
    /\ Hand(h)'.writer = Hand(h).writer
    /\ Hand(h)'.frame = Hand(h).frame
    /\ Uncount(Hand(h).writer, Hand(h).frame)
    /\ UNCHANGED <<usedBytes, accepted>>

Frees(h) ==
    /\ SameFrames
    /\ OthersKeep(h)
    /\ Hand(h).at \in Freeing /\ ~Busy(h)'
    /\ Release(Hand(h).frame)
    /\ UNCHANGED <<queuedBytes, pendingWrites, accepted>>

\* What becomes of the queues.
LEMMA QueueSteps ==
    ASSUME TypeOK, PlaceInv
    PROVE  /\ queue' = queue => SameFrames
           /\ \A w \in Writers :
                 /\ queue' = [queue EXCEPT ![w] = Append(@, Stop)] => SameFrames
                 /\ queue[w] = <<>> /\ queue' = [queue EXCEPT ![w] = <<Stop>>]
                       => SameFrames
                 /\ queue[w] # <<>> /\ queue' = [queue EXCEPT ![w] = Tail(@)] =>
                       /\ Head(queue[w]) = Stop => SameFrames
                       /\ Head(queue[w]) # Stop =>
                             /\ Head(queue[w]) \in Frames
                             /\ In(Head(queue[w]), queue[w])
                             /\ LosesFrame(w, Head(queue[w]))
  <1>1. queue \in [Writers -> Seq(Frames \cup {Stop})] /\ Stop \notin Frames
    BY SocketWriterAssumption DEF TypeOK
  <1>2. queue' = queue => SameFrames
    BY DEF SameFrames
  <1>3. ASSUME NEW w \in Writers,
               NEW s, queue' = [queue EXCEPT ![w] = s],
               \A g \in Frames : /\ In(g, s) <=> In(g, queue[w])
                                 /\ Once(g, queue[w]) => Once(g, s)
        PROVE  SameFrames
    BY <1>1, <1>3 DEF SameFrames
  <1>4. ASSUME NEW w \in Writers, queue' = [queue EXCEPT ![w] = Append(@, Stop)]
        PROVE  SameFrames
    <2>1. \A g \in Frames : /\ In(g, Append(queue[w], Stop)) <=> In(g, queue[w])
                            /\ Once(g, queue[w]) => Once(g, Append(queue[w], Stop))
      BY <1>1, PutLast
    <2> QED
      BY <1>3, <1>4, <2>1
  <1>5. ASSUME NEW w \in Writers, queue[w] = <<>>,
               queue' = [queue EXCEPT ![w] = <<Stop>>]
        PROVE  SameFrames
    <2>1. <<Stop>> = Append(<<>>, Stop)
      OBVIOUS
    <2> QED
      BY <1>4, <1>5, <2>1
  <1>6. ASSUME NEW w \in Writers, queue[w] # <<>>,
               queue' = [queue EXCEPT ![w] = Tail(@)]
        PROVE  /\ Head(queue[w]) = Stop => SameFrames
               /\ Head(queue[w]) # Stop => /\ Head(queue[w]) \in Frames
                                           /\ In(Head(queue[w]), queue[w])
                                           /\ LosesFrame(w, Head(queue[w]))
    <2> DEFINE f == Head(queue[w])
               t == Tail(queue[w])
    <2>1. /\ f \in Frames \cup {Stop} /\ In(f, queue[w])
          /\ \A m : In(m, queue[w]) <=> m = f \/ In(m, t)
          /\ \A m : Once(m, queue[w]) => Once(m, t)
          /\ Once(f, queue[w]) => ~In(f, t)
      BY <1>1, <1>6, TakeFirst
    <2>2. ASSUME f = Stop PROVE SameFrames
      BY <1>1, <1>3, <1>6, <2>1, <2>2
    <2>3. ASSUME f # Stop PROVE LosesFrame(w, f)
      <3>1. f \in Frames /\ ~In(f, t)
        BY <2>1, <2>3 DEF PlaceInv
      <3>2. queue'[w] = t /\ \A v \in Writers : v # w => queue'[v] = queue[v]
        BY <1>1, <1>6
      <3> HIDE DEF f, t
      <3> QED
        BY <2>1, <3>1, <3>2 DEF LosesFrame
    <2> QED
      BY <2>1, <2>2, <2>3
  <1> QED
    BY <1>2, <1>4, <1>5, <1>6

\* What becomes of the hands when a writer's own thread moves.
LEMMA ThreadMoves ==
    ASSUME TypeOK, OwnersInv, NEW w \in Writers, NEW place, NEW f,
           Goto(w, place, f), UNCHANGED closer
    PROVE  /\ w \in Hands /\ OthersKeep(w) /\ Hand(w) = thread[w]
           /\ Hand(w)'.at = place /\ Hand(w)'.writer = w /\ Hand(w)'.frame = f
           /\ thread'[w] = At(place, w, f)
           /\ \A v \in Writers : v # w => thread'[v] = thread[v]
  <1>1. thread' = [thread EXCEPT ![w] = At(place, w, f)] /\ DOMAIN thread = Writers
    BY DEF Goto, TypeOK
  <1>2. /\ thread'[w] = At(place, w, f)
        /\ \A v \in Writers : v # w => thread'[v] = thread[v]
    BY <1>1
  <1>3. /\ At(place, w, f).at = place /\ At(place, w, f).writer = w
        /\ At(place, w, f).frame = f
    BY DEF At
  <1> QED
    BY <1>2, <1>3 DEF Hand, Hands, OthersKeep

\* And when a caller of close() or abort() does.
LEMMA CallerMoves ==
    ASSUME TypeOK, OwnersInv, NEW c \in Closers, NEW place, NEW w, NEW f,
           Move(c, place, w, f), UNCHANGED thread
    PROVE  /\ c \in Hands /\ OthersKeep(c) /\ Hand(c) = closer[c]
           /\ Hand(c)'.at = place /\ Hand(c)'.writer = w /\ Hand(c)'.frame = f
           /\ closer'[c] = At(place, w, f)
           /\ \A d \in Closers : d # c => closer'[d] = closer[d]
  <1>1. closer' = [closer EXCEPT ![c] = At(place, w, f)] /\ DOMAIN closer = Closers
    BY DEF Move, TypeOK
  <1>2. /\ closer'[c] = At(place, w, f)
        /\ \A d \in Closers : d # c => closer'[d] = closer[d]
    BY <1>1
  <1>3. /\ At(place, w, f).at = place /\ At(place, w, f).writer = w
        /\ At(place, w, f).frame = f
    BY DEF At
  <1> QED
    BY <1>2, <1>3, SocketWriterAssumption DEF Hand, Hands, OthersKeep

\* The steps of a writer's own thread.
LEMMA ThreadKinds ==
    ASSUME TypeOK, OwnersInv, PlaceInv, NEW w \in Writers,
           Thread(w) \/ SendAll(w) \/ SendAllFails(w)
    PROVE  \E h \in Hands : \/ Aside(h) \/ Counts(h) \/ Frees(h)
                            \/ \E v \in Writers, f \in Frames : Takes(h, v, f)
  <1> USE DEF Busy, Counting, Freeing, counters, history
  <1>1. CASE Get(w) \/ Drain(w)
    <2>1. CASE queue[w] = <<>>
      <3>1. /\ thread[w].at = "drain" /\ Goto(w, "ended", Stop) /\ queue' = queue
            /\ UNCHANGED <<queuedBytes, pendingWrites, usedBytes, closer, accepted>>
        BY <1>1, <2>1 DEF Get, Drain
      <3>2. Aside(w)
        BY <3>1, ThreadMoves, QueueSteps DEF Aside
      <3> QED
        BY <3>1, <3>2, ThreadMoves
    <2>2. CASE queue[w] # <<>> /\ Head(queue[w]) = Stop
      <3>1. /\ thread[w].at \in {"get", "drain"} /\ Goto(w, "drain", Stop)
            /\ queue' = [queue EXCEPT ![w] = Tail(@)]
            /\ UNCHANGED <<queuedBytes, pendingWrites, usedBytes, closer, accepted>>
        BY <1>1, <2>2 DEF Get, Drain
      <3>2. SameFrames
        BY <2>2, <3>1, QueueSteps
      <3>3. Aside(w)
        BY <3>1, <3>2, ThreadMoves DEF Aside
      <3> QED
        BY <3>1, <3>3, ThreadMoves
    <2>3. CASE queue[w] # <<>> /\ Head(queue[w]) # Stop
      <3>1. PICK place \in {"send", "drop"} :
               /\ thread[w].at \in {"get", "drain"} /\ Goto(w, place, Head(queue[w]))
               /\ queue' = [queue EXCEPT ![w] = Tail(@)]
               /\ UNCHANGED <<queuedBytes, pendingWrites, usedBytes, closer, accepted>>
        BY <1>1, <2>3 DEF Get, Drain
      <3>2. /\ Head(queue[w]) \in Frames /\ In(Head(queue[w]), queue[w])
            /\ LosesFrame(w, Head(queue[w]))
        BY <2>3, <3>1, QueueSteps
      <3>3. /\ OthersKeep(w) /\ Hand(w) = thread[w] /\ Hand(w)'.at = place
            /\ Hand(w)'.writer = w /\ Hand(w)'.frame = Head(queue[w])
        BY <3>1, ThreadMoves
      <3>4. Takes(w, w, Head(queue[w]))
        BY <3>1, <3>2, <3>3 DEF Takes
      <3> QED
        BY <3>1, <3>2, <3>4, ThreadMoves
    <2> QED
      BY <2>1, <2>2, <2>3
  <1>2. CASE SendAll(w) \/ SendAllFails(w)
    <2>1. PICK place \in {"sent", "unsent"} :
             /\ thread[w].at = "send" /\ Goto(w, place, thread[w].frame)
             /\ UNCHANGED <<queue, queuedBytes, pendingWrites, usedBytes, closer, accepted>>
      BY <1>2 DEF SendAll, SendAllFails
    <2>2. Aside(w)
      BY <2>1, ThreadMoves, QueueSteps DEF Aside, OwnersInv
    <2> QED
      BY <2>1, <2>2, ThreadMoves
  <1>3. CASE Complete(w) \/ DrainComplete(w)
    <2>1. PICK place \in Freeing :
             /\ thread[w].at \in Counting /\ Goto(w, place, thread[w].frame)
             /\ Uncount(w, thread[w].frame)
             /\ UNCHANGED <<queue, usedBytes, closer, accepted>>
      BY <1>3 DEF Complete, DrainComplete
    <2>2. Counts(w)
      BY <2>1, ThreadMoves, QueueSteps DEF Counts, OwnersInv
    <2> QED
      BY <2>1, <2>2, ThreadMoves
  <1>4. CASE ReleaseBudget(w) \/ DrainRelease(w)
    <2>1. PICK place \in {"get", "fail", "drain"} :
             /\ thread[w].at \in Freeing /\ Goto(w, place, Stop)
             /\ Release(thread[w].frame)
             /\ UNCHANGED <<queue, queuedBytes, pendingWrites, closer, accepted>>
      BY <1>4 DEF ReleaseBudget, DrainRelease
    <2>2. Frees(w)
      BY <2>1, ThreadMoves, QueueSteps DEF Frees
    <2> QED
      BY <2>1, <2>2, ThreadMoves
  <1>5. CASE Fail(w)
    <2>1. /\ thread[w].at = "fail" /\ Goto(w, "drain", Stop)
          /\ UNCHANGED <<queue, queuedBytes, pendingWrites, usedBytes, closer, accepted>>
      BY <1>5 DEF Fail
    <2>2. Aside(w)
      BY <2>1, ThreadMoves, QueueSteps DEF Aside
    <2> QED
      BY <2>1, <2>2, ThreadMoves
  <1> QED
    BY <1>1, <1>2, <1>3, <1>4, <1>5 DEF Thread

\* The steps of a caller of close() or abort().
LEMMA CallerKinds ==
    ASSUME TypeOK, OwnersInv, PlaceInv, NEW c \in Closers,
           Closer(c) \/ \E w \in Writers : Close(c, w) \/ Abort(c, w)
    PROVE  \E h \in Hands : \/ Aside(h) \/ Counts(h) \/ Frees(h)
                            \/ \E v \in Writers, f \in Frames : Takes(h, v, f)
  <1> USE DEF Busy, Counting, Freeing, counters, history
  <1>1. CASE \E w \in Writers : Close(c, w) \/ Abort(c, w)
    <2>1. PICK w \in Writers : Close(c, w) \/ Abort(c, w)
      BY <1>1
    <2>2. PICK place \in {"join", "stop", "drain"} :
             /\ closer[c].at \in {"idle", "join"} /\ Move(c, place, w, Stop)
             /\ UNCHANGED <<queue, queuedBytes, pendingWrites, usedBytes, thread, accepted>>
      BY <2>1 DEF Close, Abort
    <2>3. Aside(c)
      BY <2>2, CallerMoves, QueueSteps DEF Aside
    <2> QED
      BY <2>2, <2>3, CallerMoves
  <1> DEFINE w == closer[c].writer
  <1>2. CASE ClosePutStop(c) \/ CloseJoined(c)
    <2>1. w \in Writers
      BY <1>2, InHand DEF ClosePutStop, CloseJoined
    <2>2. PICK place \in {"join", "done"} :
             /\ closer[c].at \in {"stop", "join"} /\ Move(c, place, w, Stop)
             /\ queue' = queue \/ queue' = [queue EXCEPT ![w] = Append(@, Stop)]
             /\ UNCHANGED <<queuedBytes, pendingWrites, usedBytes, thread, accepted>>
      BY <1>2 DEF ClosePutStop, CloseJoined
    <2>3. SameFrames
      BY <2>1, <2>2, QueueSteps
    <2>4. Aside(c)
      BY <2>2, <2>3, CallerMoves DEF Aside
    <2> QED
      BY <2>2, <2>4, CallerMoves
  <1>3. CASE AbortDrain(c)
    <2>1. w \in Writers /\ closer[c].at = "drain"
      BY <1>3, InHand DEF AbortDrain
    <2>2. UNCHANGED <<queuedBytes, pendingWrites, usedBytes, thread, accepted>>
      BY <1>3 DEF AbortDrain
    <2>3. CASE queue[w] = <<>> \/ Head(queue[w]) = Stop
      <3>1. PICK place \in {"done", "drain"} : Move(c, place, w, Stop)
        BY <1>3, <2>3 DEF AbortDrain
      <3>2. SameFrames
        BY <1>3, <2>1, <2>3, QueueSteps DEF AbortDrain
      <3>3. Aside(c)
        BY <2>1, <2>2, <3>1, <3>2, CallerMoves DEF Aside
      <3> QED
        BY <2>2, <3>1, <3>3, CallerMoves
    <2>4. CASE queue[w] # <<>> /\ Head(queue[w]) # Stop
      <3>1. /\ Move(c, "drop", w, Head(queue[w]))
            /\ queue' = [queue EXCEPT ![w] = Tail(@)]
        BY <1>3, <2>4 DEF AbortDrain
      <3>2. /\ Head(queue[w]) \in Frames /\ In(Head(queue[w]), queue[w])
            /\ LosesFrame(w, Head(queue[w]))
        BY <2>1, <2>4, <3>1, QueueSteps
      <3>3. Takes(c, w, Head(queue[w]))
        BY <2>1, <2>2, <3>1, <3>2, CallerMoves DEF Takes
      <3> QED
        BY <2>1, <2>2, <3>1, <3>2, <3>3, CallerMoves
    <2> QED
      BY <2>3, <2>4
  <1>4. CASE AbortComplete(c)
    <2>1. /\ closer[c].at = "drop" /\ Move(c, "dropRelease", w, closer[c].frame)
          /\ Uncount(w, closer[c].frame)
          /\ UNCHANGED <<queue, usedBytes, thread, accepted>>
      BY <1>4 DEF AbortComplete
    <2>2. Counts(c)
      BY <2>1, CallerMoves, QueueSteps DEF Counts
    <2> QED
      BY <2>1, <2>2, CallerMoves
  <1>5. CASE AbortRelease(c)
    <2>1. /\ closer[c].at = "dropRelease" /\ Move(c, "drain", w, Stop)
          /\ Release(closer[c].frame)
          /\ UNCHANGED <<queue, queuedBytes, pendingWrites, thread, accepted>>
      BY <1>5 DEF AbortRelease
    <2>2. Frees(c)
      BY <2>1, CallerMoves, QueueSteps DEF Frees
    <2> QED
      BY <2>1, <2>2, CallerMoves
  <1> QED
    BY <1>1, <1>2, <1>3, <1>4, <1>5 DEF Closer

\* At most one thread moves, and it keeps to its writer or takes one.
LEMMA WhoMoves ==
    ASSUME TypeOK, OwnersInv, [Next]_vars
    PROVE  \/ UNCHANGED <<thread, closer>>
           \/ \E w \in Writers : \E place, f : Goto(w, place, f) /\ UNCHANGED closer
           \/ \E c \in Closers, w \in Writers : \E place, f :
                 Move(c, place, w, f) /\ UNCHANGED thread
  <1>1. ASSUME NEW w \in Writers, Thread(w) \/ SendAll(w) \/ SendAllFails(w)
        PROVE  \E place, f : Goto(w, place, f) /\ UNCHANGED closer
    BY <1>1 DEF Thread, Get, SendAll, SendAllFails, Complete, ReleaseBudget, Fail, Drain,
       DrainComplete, DrainRelease
  <1>2. ASSUME NEW c \in Closers, NEW w \in Writers, Close(c, w) \/ Abort(c, w)
        PROVE  \E place, f : Move(c, place, w, f) /\ UNCHANGED thread
    BY <1>2 DEF Close, Abort
  <1>3. ASSUME NEW c \in Closers, Closer(c)
        PROVE  \E w \in Writers : \E place, f : Move(c, place, w, f) /\ UNCHANGED thread
    <2>1. CASE \E w \in Writers : Abort(c, w)
      BY <1>2, <2>1
    <2>2. CASE ~\E w \in Writers : Abort(c, w)
      <3>1. closer[c].writer \in Writers
        BY <1>3, <2>2, InHand DEF Closer, ClosePutStop, CloseJoined, AbortDrain,
           AbortComplete, AbortRelease
      <3> QED
        BY <1>3, <2>2, <3>1 DEF Closer, ClosePutStop, CloseJoined, AbortDrain,
           AbortComplete, AbortRelease
    <2> QED
      BY <2>1, <2>2
  <1> QED
    BY <1>1, <1>2, <1>3 DEF Next, Send, vars

\* The kinds of step.
LEMMA Kinds ==
    ASSUME TypeOK, OwnersInv, PlaceInv, [Next]_vars
    PROVE  \/ UNCHANGED vars
           \/ \E w \in Writers, f \in Frames : Send(w, f)
           \/ \E h \in Hands : \/ Aside(h) \/ Counts(h) \/ Frees(h)
                               \/ \E v \in Writers, f \in Frames : Takes(h, v, f)
  BY ThreadKinds, CallerKinds DEF Next

\* Whoever moves still works for the same writer, or for one it was given.
LEMMA OwnersStep ==
    ASSUME TypeOK, OwnersInv, PlaceInv, [Next]_vars
    PROVE  OwnersInv'
  <1>1. \A w \in Writers : thread'[w].writer = w
    <2>1. CASE UNCHANGED thread
      BY <2>1 DEF OwnersInv
    <2>2. ASSUME NEW w \in Writers, NEW place, NEW f, Goto(w, place, f), UNCHANGED closer
          PROVE  \A v \in Writers : thread'[v].writer = v
      <3>1. /\ thread'[w] = At(place, w, f)
            /\ \A v \in Writers : v # w => thread'[v] = thread[v]
        BY <2>2, ThreadMoves
      <3>2. At(place, w, f).writer = w
        BY DEF At
      <3> QED
        BY <3>1, <3>2 DEF OwnersInv
    <2> QED
      BY <2>1, <2>2, WhoMoves
  <1>2. \A c \in Closers : closer'[c].at # "idle" => closer'[c].writer \in Writers
    <2>1. CASE UNCHANGED closer
      BY <2>1 DEF OwnersInv
    <2>2. ASSUME NEW c \in Closers, NEW w \in Writers, NEW place, NEW f,
                 Move(c, place, w, f), UNCHANGED thread
          PROVE  \A d \in Closers : closer'[d].at # "idle" => closer'[d].writer \in Writers
      <3>1. /\ closer'[c] = At(place, w, f)
            /\ \A d \in Closers : d # c => closer'[d] = closer[d]
        BY <2>2, CallerMoves
      <3>2. At(place, w, f).writer = w
        BY DEF At
      <3> QED
        BY <3>1, <3>2 DEF OwnersInv
    <2> QED
      BY <2>1, <2>2, WhoMoves
  <1>3. ASSUME NEW k \in Hands, Busy(k)'
        PROVE  Hand(k)'.frame \in Frames
    <2>1. CASE UNCHANGED <<thread, closer>>
      BY <1>3, <2>1 DEF OwnersInv, Busy, Hand
    <2>2. ASSUME NEW h \in Hands,
                 \/ Aside(h) \/ Counts(h) \/ Frees(h)
                 \/ \E v \in Writers, f \in Frames : Takes(h, v, f)
          PROVE  Hand(k)'.frame \in Frames
      <3>1. CASE k # h
        <4>1. Hand(k)' = Hand(k)
          BY <2>2, <3>1 DEF Aside, Counts, Frees, Takes, OthersKeep
        <4> QED
          BY <1>3, <4>1 DEF OwnersInv, Busy
      <3>2. CASE k = h
        BY <1>3, <2>2, <3>2 DEF Aside, Counts, Frees, Takes, OwnersInv, Busy
      <3> QED
        BY <3>1, <3>2
    <2>3. UNCHANGED vars \/ (\E w \in Writers, f \in Frames : Send(w, f))
             => UNCHANGED <<thread, closer>>
      BY DEF vars, Send
    <2> QED
      BY <2>1, <2>2, <2>3, Kinds
  <1>4. \A h \in Hands : Busy(h)' => Hand(h)'.frame \in Frames
    BY <1>3
  <1> QED
    BY <1>1, <1>2, <1>4 DEF OwnersInv

----------------------------------------------------------------------------
(* The frames of a writer, by their places.                                *)

Carries(h, w, f, places) ==
    Hand(h).writer = w /\ Hand(h).frame = f /\ Hand(h).at \in places

MembersExact ==
    \A w \in Writers : \A f :
        /\ f \in Uncompleted(w) <=>
              \/ f \in Frames /\ In(f, queue[w])
              \/ \E h \in Hands : Carries(h, w, f, Counting)
        /\ f \in Releasing(w) <=> \E h \in Hands : Carries(h, w, f, Freeing)

\* The definitions that the runs check and the places agree.
LEMMA Members == TypeOK /\ OwnersInv => MembersExact
  <1> SUFFICES ASSUME TypeOK, OwnersInv, NEW w \in Writers, NEW f
               PROVE  /\ f \in Uncompleted(w) <=>
                            \/ f \in Frames /\ In(f, queue[w])
                            \/ \E h \in Hands : Carries(h, w, f, Counting)
                      /\ f \in Releasing(w) <=> \E h \in Hands : Carries(h, w, f, Freeing)
    BY DEF MembersExact
  <1>1. f \in ToSet(queue[w]) \ {Stop} <=> f \in Frames /\ In(f, queue[w])
    <2>1. queue[w] \in Seq(Frames \cup {Stop}) /\ Stop \notin Frames
      BY SocketWriterAssumption DEF TypeOK
    <2>2. DOMAIN queue[w] = 1..Len(queue[w])
      BY <2>1
    <2>3. f \in ToSet(queue[w]) <=> In(f, queue[w])
      BY <2>2 DEF ToSet, In
    <2>4. In(f, queue[w]) => f \in Frames \cup {Stop}
      BY <2>1 DEF In
    <2> QED
      BY <2>1, <2>3, <2>4
  <1>2. ASSUME NEW places \in {Counting, Freeing}
        PROVE  (\E h \in Hands : Carries(h, w, f, places)) <=>
                  \/ thread[w].frame = f /\ thread[w].at \in places
                  \/ \E c \in Closers : /\ closer[c].writer = w /\ closer[c].frame = f
                                        /\ closer[c].at \in places
    BY InHand DEF Carries, Hands
  <1> DEFINE X == {thread[w]} \cup {closer[c] : c \in Closers}
  <1>3. f \in {t.frame : t \in {x \in X : x.writer = w /\ x.at \in Counting}} <=>
           \/ thread[w].frame = f /\ thread[w].at \in Counting
           \/ \E c \in Closers : /\ closer[c].writer = w /\ closer[c].frame = f
                                 /\ closer[c].at \in Counting
    BY InHand
  <1>4. f \in {t.frame : t \in {x \in X : x.writer = w /\ x.at \in Freeing}} <=>
           \/ thread[w].frame = f /\ thread[w].at \in Freeing
           \/ \E c \in Closers : /\ closer[c].writer = w /\ closer[c].frame = f
                                 /\ closer[c].at \in Freeing
    BY InHand
  <1>5. Uncompleted(w) = (ToSet(queue[w]) \ {Stop})
           \cup {t.frame : t \in {x \in X : x.writer = w /\ x.at \in Counting}}
    BY DEF Uncompleted, Counting
  <1>6. Releasing(w) = {t.frame : t \in {x \in X : x.writer = w /\ x.at \in Freeing}}
    BY DEF Releasing, Freeing
  <1> QED
    BY <1>1, <1>2, <1>3, <1>4, <1>5, <1>6

\* Also in the next state.
LEMMA MembersNext == TypeOK' /\ OwnersInv' => MembersExact'
  BY Members, PTL

\* What a writer holds, in a hand or in its queue.
LEMMA HeldIs ==
    ASSUME MembersExact, NEW w \in Writers, NEW f
    PROVE  f \in Held(w) <=> \/ f \in Frames /\ In(f, queue[w])
                             \/ \E h \in Hands : Carries(h, w, f, Counting \cup Freeing)
  BY DEF Held, MembersExact, Carries

\* Whether a frame of w is in some hand, when only h has moved.
Carried(w, f, places) == \E k \in Hands : Carries(k, w, f, places)
CarriedByOthers(h, w, f, places) == \E k \in Hands \ {h} : Carries(k, w, f, places)

\* Who else has the frame in hand keeps it.
LEMMA OthersCarry ==
    ASSUME NEW h \in Hands, OthersKeep(h), NEW w, NEW f, NEW places
    PROVE  /\ Carried(w, f, places) <=>
                 CarriedByOthers(h, w, f, places) \/ Carries(h, w, f, places)
           /\ Carried(w, f, places)' <=>
                 CarriedByOthers(h, w, f, places) \/ Carries(h, w, f, places)'
  <1>1. \A k \in Hands \ {h} : Carries(k, w, f, places)' <=> Carries(k, w, f, places)
    BY DEF OthersKeep, Carries
  <1>2. Hands' = Hands
    BY DEF Hands
  <1> QED
    BY <1>1, <1>2 DEF Carried, CarriedByOthers

\* A step aside changes nobody's frames.
LEMMA AsideKeeps ==
    ASSUME MembersExact, MembersExact', NEW h \in Hands, Aside(h), NEW w \in Writers
    PROVE  Uncompleted(w)' = Uncompleted(w) /\ Releasing(w)' = Releasing(w)
  <1>1. OthersKeep(h) /\ SameFrames
    BY DEF Aside
  <1>2. ASSUME NEW f
        PROVE  /\ Carries(h, w, f, Counting)' <=> Carries(h, w, f, Counting)
               /\ ~Carries(h, w, f, Freeing)' /\ ~Carries(h, w, f, Freeing)
    BY DEF Aside, Carries, Busy, Counting, Freeing
  <1>3. ASSUME NEW f
        PROVE  /\ Carried(w, f, Counting)' <=> Carried(w, f, Counting)
               /\ Carried(w, f, Freeing)' <=> Carried(w, f, Freeing)
    BY <1>1, <1>2, OthersCarry
  <1>4. \A f : /\ f \in Uncompleted(w)' <=> f \in Uncompleted(w)
               /\ f \in Releasing(w)' <=> f \in Releasing(w)
    BY <1>1, <1>3 DEF MembersExact, SameFrames, Carried
  <1> QED
    BY <1>4

\* Neither does a frame that moves from a queue to a hand.
LEMMA TakesKeeps ==
    ASSUME MembersExact, MembersExact', NEW h \in Hands,
           NEW v \in Writers, NEW g \in Frames, Takes(h, v, g), NEW w \in Writers
    PROVE  Uncompleted(w)' = Uncompleted(w) /\ Releasing(w)' = Releasing(w)
  <1>1. OthersKeep(h) /\ LosesFrame(v, g) /\ In(g, queue[v])
    BY DEF Takes
  <1>2. ASSUME NEW f
        PROVE  /\ Carries(h, w, f, Counting)' <=> w = v /\ f = g
               /\ ~Carries(h, w, f, Counting)
               /\ ~Carries(h, w, f, Freeing)' /\ ~Carries(h, w, f, Freeing)
    BY DEF Takes, Carries, Busy, Counting, Freeing
  <1>3. ASSUME NEW f
        PROVE  /\ Carried(w, f, Counting)' <=> Carried(w, f, Counting) \/ (w = v /\ f = g)
               /\ Carried(w, f, Freeing)' <=> Carried(w, f, Freeing)
    BY <1>1, <1>2, OthersCarry
  <1>4. \A f \in Frames : In(f, queue'[w]) <=> In(f, queue[w]) /\ ~(w = v /\ f = g)
    BY <1>1 DEF LosesFrame
  <1>5. \A f : /\ f \in Uncompleted(w)' <=> f \in Uncompleted(w)
               /\ f \in Releasing(w)' <=> f \in Releasing(w)
    BY <1>1, <1>3, <1>4 DEF MembersExact, Carried
  <1> QED
    BY <1>5

\* Who takes a frame out of the counters still has to give its bytes back.
LEMMA CountsMoves ==
    ASSUME MembersExact, MembersExact', OwnersInv, PlaceInv,
           NEW h \in Hands, Counts(h), NEW w \in Writers
    PROVE  LET f == Hand(h).frame IN
           /\ w = Hand(h).writer =>
                 /\ f \in Uncompleted(w) /\ f \in Frames
                 /\ Uncompleted(w)' = Uncompleted(w) \ {f}
           /\ w # Hand(h).writer => Uncompleted(w)' = Uncompleted(w)
           /\ Held(w)' = Held(w)
  <1> DEFINE g == Hand(h).frame
             v == Hand(h).writer
  <1>1. OthersKeep(h) /\ SameFrames /\ Busy(h) /\ g \in Frames
    BY DEF Counts, Busy, OwnersInv
  <1>2. ASSUME NEW f
        PROVE  /\ Carries(h, w, f, Counting) <=> w = v /\ f = g
               /\ ~Carries(h, w, f, Counting)'
               /\ Carries(h, w, f, Freeing)' <=> w = v /\ f = g
               /\ ~Carries(h, w, f, Freeing)
    BY DEF Counts, Carries, Counting, Freeing
  <1>3. /\ ~CarriedByOthers(h, w, g, Counting) /\ ~CarriedByOthers(h, w, g, Freeing)
        /\ ~In(g, queue[w])
    BY <1>1 DEF PlaceInv, Busy, CarriedByOthers, Carries
  <1> HIDE DEF g, v
  <1>4. ASSUME NEW f
        PROVE  /\ Carried(w, f, Counting)' <=>
                     Carried(w, f, Counting) /\ ~(w = v /\ f = g)
               /\ Carried(w, f, Freeing)' <=> Carried(w, f, Freeing) \/ (w = v /\ f = g)
               /\ w = v => Carried(w, g, Counting)
    BY <1>1, <1>2, <1>3, OthersCarry
  <1>5. \A f : /\ f \in Uncompleted(w)' <=> f \in Uncompleted(w) /\ ~(w = v /\ f = g)
               /\ f \in Releasing(w)' <=> f \in Releasing(w) \/ (w = v /\ f = g)
               /\ w = v => g \in Uncompleted(w)
    BY <1>1, <1>3, <1>4 DEF MembersExact, Carried, SameFrames
  <1>6. \A f : f \in Held(w)' <=> f \in Held(w)
    BY <1>5 DEF Held
  <1> QED
    BY <1>1, <1>5, <1>6 DEF g, v

\* When the bytes are given back the frame is nowhere any more.
LEMMA FreesMoves ==
    ASSUME MembersExact, MembersExact', OwnersInv, PlaceInv,
           NEW h \in Hands, Frees(h), NEW w \in Writers
    PROVE  LET f == Hand(h).frame IN
           /\ f \in Frames
           /\ w = Hand(h).writer => f \in Held(w)
           /\ Uncompleted(w)' = Uncompleted(w)
           /\ Held(w)' = Held(w) \ {f}
  <1> DEFINE g == Hand(h).frame
             v == Hand(h).writer
  <1>1. OthersKeep(h) /\ SameFrames /\ Busy(h) /\ g \in Frames
    BY DEF Frees, Busy, OwnersInv
  <1>2. ASSUME NEW f
        PROVE  /\ ~Carries(h, w, f, Counting) /\ ~Carries(h, w, f, Counting)'
               /\ Carries(h, w, f, Freeing) <=> w = v /\ f = g
               /\ ~Carries(h, w, f, Freeing)'
    BY DEF Frees, Carries, Counting, Freeing, Busy
  <1>3. /\ ~CarriedByOthers(h, w, g, Counting) /\ ~CarriedByOthers(h, w, g, Freeing)
        /\ ~In(g, queue[w])
    BY <1>1 DEF PlaceInv, Busy, CarriedByOthers, Carries
  <1> HIDE DEF g, v
  <1>4. ASSUME NEW f
        PROVE  /\ Carried(w, f, Counting)' <=> Carried(w, f, Counting)
               /\ Carried(w, f, Freeing)' <=> Carried(w, f, Freeing) /\ f # g
               /\ w = v => Carried(w, g, Freeing)
               /\ ~Carried(w, g, Counting)
    BY <1>1, <1>2, <1>3, OthersCarry
  <1>5. \A f : /\ f \in Uncompleted(w)' <=> f \in Uncompleted(w)
               /\ f \in Releasing(w)' <=> f \in Releasing(w) /\ f # g
               /\ w = v => g \in Releasing(w)
               /\ g \notin Uncompleted(w)
    BY <1>1, <1>3, <1>4 DEF MembersExact, Carried, SameFrames
  <1>6. \A f : f \in Held(w)' <=> f \in Held(w) /\ f # g
    BY <1>5 DEF Held
  <1>7. /\ Uncompleted(w)' = Uncompleted(w)
        /\ Held(w)' = Held(w) \ {g}
        /\ w = v => g \in Held(w)
    BY <1>5, <1>6 DEF Held
  <1> QED
    BY <1>1, <1>7 DEF g, v

\* What send() accepts is new.
LEMMA SendMoves ==
    ASSUME TypeOK, MembersExact, MembersExact', PlaceInv,
           NEW v \in Writers, NEW g \in Frames, Send(v, g), NEW w \in Writers
    PROVE  /\ g \notin Held(w)
           /\ Uncompleted(w)' = Uncompleted(w) \cup (IF w = v THEN {g} ELSE {})
           /\ Releasing(w)' = Releasing(w)
  <1>1. g \notin Held(w)
    BY DEF Send, PlaceInv, Contains, In
  <1>2. ASSUME NEW f, NEW places PROVE Carried(w, f, places)' <=> Carried(w, f, places)
    BY DEF Send, Carried, Carries, Hands, Hand
  <1>3. \A f \in Frames : In(f, queue'[w]) <=> In(f, queue[w]) \/ (w = v /\ f = g)
    <2>1. \A f : In(f, Append(queue[v], g)) <=> In(f, queue[v]) \/ f = g
      <3>1. queue[v] \in Seq(Frames \cup {Stop}) /\ g \in Frames \cup {Stop}
        BY DEF TypeOK
      <3> QED
        BY <3>1, PutLast
    <2>2. queue'[w] = IF w = v THEN Append(queue[v], g) ELSE queue[w]
      BY DEF Send, TypeOK
    <2> QED
      BY <2>1, <2>2
  <1>4. \A f : /\ f \in Uncompleted(w)' <=> f \in Uncompleted(w) \/ (w = v /\ f = g)
               /\ f \in Releasing(w)' <=> f \in Releasing(w)
    BY <1>2, <1>3 DEF MembersExact, Carried
  <1> QED
    BY <1>1, <1>4

----------------------------------------------------------------------------
(* Every frame keeps to one place.                                         *)

\* A frame is in one queue or in one hand, of a writer that accepted it.
LEMMA PlaceStep ==
    ASSUME TypeOK, OwnersInv, PlaceInv, TypeOK', OwnersInv', [Next]_vars
    PROVE  PlaceInv'
  <1>1. MembersExact /\ MembersExact'
    BY Members, MembersNext
  <1>2. CASE UNCHANGED vars
    BY <1>2 DEF vars, counters, history, PlaceInv, Held, Uncompleted, Releasing, Busy,
       Hands, Hand
  <1>3. ASSUME NEW v \in Writers, NEW g \in Frames, Send(v, g)
        PROVE  PlaceInv'
    <2>1. queue[v] \in Seq(Frames \cup {Stop}) /\ g \in Frames \cup {Stop}
      BY DEF TypeOK
    <2>2. queue'[v] = Append(queue[v], g) /\ \A w \in Writers : w # v => queue'[w] = queue[w]
      BY <1>3 DEF Send, TypeOK
    <2>3. \A w \in Writers : g \notin Held(w)
      BY <1>1, <1>3, SendMoves
    <2>4. /\ \A w \in Writers : ~In(g, queue[w])
          /\ \A h \in Hands : Busy(h) => Hand(h).frame # g
      <3>1. \A w \in Writers : ~In(g, queue[w])
        BY <1>1, <2>3 DEF Held, MembersExact
      <3>2. ASSUME NEW h \in Hands, Busy(h) PROVE Hand(h).frame # g
        <4>1. Hand(h).writer \in Writers
          BY <3>2, InHand DEF Busy, Counting, Freeing, Hands
        <4>2. Hand(h).frame \in Held(Hand(h).writer)
          BY <1>1, <3>2, <4>1, HeldIs DEF Busy, Carries
        <4> QED
          BY <2>3, <4>1, <4>2
      <3> QED
        BY <3>1, <3>2
    <2>5. \A w \in Writers, f \in Frames :
             /\ In(f, queue'[w]) <=> In(f, queue[w]) \/ (w = v /\ f = g)
             /\ Once(f, queue'[w])
      <3>1. /\ \A m : In(m, Append(queue[v], g)) <=> In(m, queue[v]) \/ m = g
            /\ \A m : Once(m, queue[v]) /\ (m = g => ~In(m, queue[v]))
                         => Once(m, Append(queue[v], g))
        BY <2>1, PutLast
      <3>2. \A f \in Frames : Once(f, Append(queue[v], g))
        BY <2>4, <3>1 DEF PlaceInv
      <3>3. ASSUME NEW w \in Writers, NEW f \in Frames
            PROVE  /\ In(f, queue'[w]) <=> In(f, queue[w]) \/ (w = v /\ f = g)
                   /\ Once(f, queue'[w])
        <4>1. CASE w = v
          BY <2>2, <3>1, <3>2, <4>1
        <4>2. CASE w # v
          BY <2>2, <4>2 DEF PlaceInv
        <4> QED
          BY <4>1, <4>2
      <3> QED
        BY <3>3
    <2>6. \A h \in Hands : Hand(h)' = Hand(h) /\ (Busy(h)' <=> Busy(h))
      BY <1>3 DEF Send, Hand, Busy
    <2>7. \A w \in Writers : \A f \in Held(w)' : In(f, accepted'[w])
      <3>1. accepted[v] \in Seq(Frames)
        BY DEF TypeOK
      <3>2. \A f : In(f, Append(accepted[v], g)) <=> In(f, accepted[v]) \/ f = g
        BY <3>1, PutLast
      <3>3. /\ accepted'[v] = Append(accepted[v], g)
            /\ \A w \in Writers : w # v => accepted'[w] = accepted[w]
        BY <1>3 DEF Send, TypeOK
      <3>4. \A w \in Writers : \A f : f \in Held(w)' => f \in Held(w) \/ (w = v /\ f = g)
        BY <1>1, <1>3, SendMoves DEF Held
      <3> QED
        BY <3>2, <3>3, <3>4 DEF PlaceInv
    <2>8. \A w, u \in Writers, f \in Frames :
             In(f, queue'[w]) /\ In(f, queue'[u]) => w = u
      BY <2>4, <2>5 DEF PlaceInv
    <2>9. \A h \in Hands, w \in Writers : Busy(h)' => ~In(Hand(h)'.frame, queue'[w])
      BY <2>4, <2>5, <2>6 DEF PlaceInv, OwnersInv
    <2>10. \A h, k \in Hands :
              Busy(h)' /\ Busy(k)' /\ Hand(h)'.frame = Hand(k)'.frame => h = k
      BY <2>6 DEF PlaceInv
    <2> QED
      BY <2>5, <2>7, <2>8, <2>9, <2>10 DEF PlaceInv, Hands
  <1>4. ASSUME NEW h \in Hands, Aside(h) \/ Counts(h) \/ Frees(h)
        PROVE  PlaceInv'
    <2>1. /\ SameFrames
          /\ \A k \in Hands : Busy(k)' => Busy(k) /\ Hand(k)'.frame = Hand(k).frame
      BY <1>4 DEF Aside, Counts, Frees, OthersKeep, Busy
    <2>2. accepted' = accepted /\ \A w \in Writers : Held(w)' \subseteq Held(w)
      BY <1>1, <1>4, AsideKeeps, CountsMoves, FreesMoves DEF Aside, Counts, Frees, Held
    <2>3. /\ \A w \in Writers, f \in Frames : Once(f, queue'[w])
          /\ \A w, u \in Writers, f \in Frames :
                In(f, queue'[w]) /\ In(f, queue'[u]) => w = u
      BY <2>1 DEF PlaceInv, SameFrames
    <2>4. \A k \in Hands, w \in Writers : Busy(k)' => ~In(Hand(k)'.frame, queue'[w])
      BY <2>1 DEF PlaceInv, SameFrames, OwnersInv
    <2>5. \A k, l \in Hands :
             Busy(k)' /\ Busy(l)' /\ Hand(k)'.frame = Hand(l)'.frame => k = l
      BY <2>1 DEF PlaceInv
    <2>6. \A w \in Writers : \A f \in Held(w)' : In(f, accepted'[w])
      BY <2>2 DEF PlaceInv
    <2> QED
      BY <2>3, <2>4, <2>5, <2>6 DEF PlaceInv, Hands
  <1>5. ASSUME NEW h \in Hands, NEW v \in Writers, NEW g \in Frames, Takes(h, v, g)
        PROVE  PlaceInv'
    <2>1. /\ LosesFrame(v, g) /\ In(g, queue[v])
          /\ Hand(h)'.frame = g
          /\ \A k \in Hands : k # h => Hand(k)' = Hand(k) /\ (Busy(k)' <=> Busy(k))
      BY <1>5 DEF Takes, OthersKeep, Busy
    <2>2. /\ \A w \in Writers : ~In(g, queue'[w])
          /\ \A k \in Hands : k # h /\ Busy(k)' => Hand(k)'.frame # g
      BY <2>1 DEF PlaceInv, LosesFrame
    <2>3. accepted' = accepted /\ \A w \in Writers : Held(w)' = Held(w)
      BY <1>1, <1>5, TakesKeeps DEF Takes, Held
    <2>4. /\ \A w \in Writers, f \in Frames : Once(f, queue'[w])
          /\ \A w, u \in Writers, f \in Frames :
                In(f, queue'[w]) /\ In(f, queue'[u]) => w = u
      BY <2>1 DEF PlaceInv, LosesFrame
    <2>5. \A k \in Hands, w \in Writers : Busy(k)' => ~In(Hand(k)'.frame, queue'[w])
      BY <2>1, <2>2 DEF PlaceInv, LosesFrame, OwnersInv
    <2>6. \A k, l \in Hands :
             Busy(k)' /\ Busy(l)' /\ Hand(k)'.frame = Hand(l)'.frame => k = l
      BY <2>1, <2>2 DEF PlaceInv
    <2>7. \A w \in Writers : \A f \in Held(w)' : In(f, accepted'[w])
      BY <2>3 DEF PlaceInv
    <2> QED
      BY <2>4, <2>5, <2>6, <2>7 DEF PlaceInv, Hands
  <1> QED
    BY <1>2, <1>3, <1>4, <1>5, Kinds

----------------------------------------------------------------------------
(* The accounts are exact.                                                 *)

\* One frame more.
LEMMA BytesAdd ==
    ASSUME NEW F \in SUBSET Frames, IsFiniteSet(BytesOf(F)), NEW f \in Frames \ F
    PROVE  /\ IsFiniteSet(BytesOf(F \cup {f}))
           /\ Bytes(F) \in Nat
           /\ Bytes(F \cup {f}) = Bytes(F) + Size[f]
  <1> DEFINE part == {f} \X (1..Size[f])
  <1>1. Size[f] \in Nat
    BY SocketWriterAssumption
  <1>2. IsFiniteSet(part) /\ Cardinality(part) = Size[f]
    BY <1>1, SizeOfParts
  <1>3. BytesOf(F \cup {f}) = BytesOf(F) \cup part
    BY DEF BytesOf
  <1>4. BytesOf(F) \cap part = {}
    BY DEF BytesOf
  <1> HIDE DEF part
  <1>5. /\ IsFiniteSet(BytesOf(F) \cup part)
        /\ Cardinality(BytesOf(F) \cup part) = Cardinality(BytesOf(F)) + Cardinality(part)
    BY <1>2, <1>4, SizeOfBoth
  <1>6. Cardinality(BytesOf(F)) \in Nat
    BY FS_CardinalityType
  <1> QED
    BY <1>2, <1>3, <1>5, <1>6 DEF Bytes

\* One frame less.
LEMMA BytesRemove ==
    ASSUME NEW F \in SUBSET Frames, IsFiniteSet(BytesOf(F)), NEW f \in F
    PROVE  /\ IsFiniteSet(BytesOf(F \ {f}))
           /\ Bytes(F \ {f}) \in Nat
           /\ Bytes(F \ {f}) = Bytes(F) - Size[f]
           /\ Size[f] \in Nat
  <1> DEFINE G == F \ {f}
  <1>1. BytesOf(G) \subseteq BytesOf(F)
    BY DEF BytesOf
  <1>2. IsFiniteSet(BytesOf(G))
    BY <1>1, FS_Subset
  <1>3. /\ G \in SUBSET Frames /\ f \in Frames \ G /\ G \cup {f} = F
        /\ Size[f] \in Nat
    BY SocketWriterAssumption
  <1> HIDE DEF G
  <1>4. Bytes(G) \in Nat /\ Bytes(G \cup {f}) = Bytes(G) + Size[f]
    BY <1>2, <1>3, BytesAdd
  <1>5. Bytes(F) = Bytes(G) + Size[f]
    BY <1>3, <1>4, Zenon
  <1>6. Bytes(G) = Bytes(F) - Size[f]
    BY <1>3, <1>4, <1>5
  <1> QED
    BY <1>2, <1>3, <1>4, <1>6 DEF G

\* What is held are frames.
LEMMA FramesHeld ==
    ASSUME MembersExact, OwnersInv
    PROVE  /\ \A w \in Writers : Uncompleted(w) \subseteq Frames /\ Held(w) \subseteq Frames
           /\ AllHeld \subseteq Frames
           /\ \A f : f \in AllHeld <=> \E w \in Writers : f \in Held(w)
  <1>1. ASSUME NEW w \in Writers, NEW f, f \in Held(w) PROVE f \in Frames
    BY <1>1, HeldIs DEF OwnersInv, Carries, Busy
  <1>2. \A f : f \in AllHeld <=> \E w \in Writers : f \in Held(w)
    BY DEF AllHeld, Held
  <1>3. \A w \in Writers : Uncompleted(w) \subseteq Held(w)
    BY DEF Held
  <1> QED
    BY <1>1, <1>2, <1>3

\* The counters of the writers and the budget follow every step exactly.
LEMMA CountStep ==
    ASSUME TypeOK, OwnersInv, PlaceInv, CountInv, TypeOK', OwnersInv', [Next]_vars
    PROVE  CountInv'
  <1>1. MembersExact /\ MembersExact'
    BY Members, MembersNext
  <1>2. /\ AllHeld \subseteq Frames /\ \A w \in Writers : Uncompleted(w) \subseteq Frames
        /\ \A f : f \in AllHeld <=> \E w \in Writers : f \in Held(w)
    BY <1>1, FramesHeld
  <1>3. \A f : f \in AllHeld' <=> \E w \in Writers : f \in Held(w)'
    BY DEF AllHeld, Held
  <1>4. /\ \A w \in Writers : /\ pendingWrites[w] = Cardinality(Uncompleted(w))
                              /\ queuedBytes[w] = Bytes(Uncompleted(w))
                              /\ IsFiniteSet(Uncompleted(w))
                              /\ IsFiniteSet(BytesOf(Uncompleted(w)))
        /\ usedBytes = Bytes(AllHeld) /\ usedBytes <= MaxBytes
        /\ IsFiniteSet(BytesOf(AllHeld))
    BY DEF CountInv, CountersExact, BudgetExact, AllHeld
  <1>5. ASSUME \A w \in Writers : /\ pendingWrites'[w] = Cardinality(Uncompleted(w)')
                                  /\ queuedBytes'[w] = Bytes(Uncompleted(w)')
                                  /\ IsFiniteSet(Uncompleted(w)')
                                  /\ IsFiniteSet(BytesOf(Uncompleted(w)')),
               usedBytes' = Bytes(AllHeld'), usedBytes' <= MaxBytes,
               IsFiniteSet(BytesOf(AllHeld'))
        PROVE  CountInv'
    BY <1>5 DEF CountInv, CountersExact, BudgetExact, AllHeld, Bytes, BytesOf
  <1>6. ASSUME \A w \in Writers : Uncompleted(w)' = Uncompleted(w) /\ Held(w)' = Held(w),
               UNCHANGED <<queuedBytes, pendingWrites, usedBytes>>
        PROVE  CountInv'
    <2>1. AllHeld' = AllHeld
      BY <1>2, <1>3, <1>6
    <2> QED
      BY <1>4, <1>5, <1>6, <2>1
  <1>7. CASE UNCHANGED vars
    BY <1>6, <1>7 DEF vars, counters, Held, Uncompleted, Releasing
  <1>8. ASSUME NEW v \in Writers, NEW g \in Frames, Send(v, g)
        PROVE  CountInv'
    <2>1. ASSUME NEW w \in Writers
          PROVE  /\ g \notin Held(w)
                 /\ Uncompleted(w)' = Uncompleted(w) \cup (IF w = v THEN {g} ELSE {})
                 /\ Releasing(w)' = Releasing(w)
      BY <1>1, <1>8, SendMoves
    <2>2. g \notin AllHeld /\ AllHeld' = AllHeld \cup {g}
      BY <1>2, <1>3, <2>1 DEF Held
    <2>3. /\ g \notin Uncompleted(v) /\ Uncompleted(v)' = Uncompleted(v) \cup {g}
          /\ \A w \in Writers : w # v => Uncompleted(w)' = Uncompleted(w)
      BY <2>1 DEF Held
    <2>4. /\ IsFiniteSet(BytesOf(AllHeld \cup {g}))
          /\ Bytes(AllHeld \cup {g}) = Bytes(AllHeld) + Size[g]
      BY <1>2, <1>4, <2>2, BytesAdd
    <2>5. /\ IsFiniteSet(BytesOf(Uncompleted(v) \cup {g}))
          /\ Bytes(Uncompleted(v) \cup {g}) = Bytes(Uncompleted(v)) + Size[g]
      BY <1>2, <1>4, <2>3, BytesAdd
    <2>6. /\ IsFiniteSet(Uncompleted(v) \cup {g})
          /\ Cardinality(Uncompleted(v) \cup {g}) = Cardinality(Uncompleted(v)) + 1
      BY <1>4, <2>3, FS_AddElement
    <2>7. /\ usedBytes' = usedBytes + Size[g] /\ usedBytes + Size[g] <= MaxBytes
          /\ queuedBytes'[v] = queuedBytes[v] + Size[g]
          /\ pendingWrites'[v] = pendingWrites[v] + 1
          /\ \A w \in Writers : w # v => /\ queuedBytes'[w] = queuedBytes[w]
                                         /\ pendingWrites'[w] = pendingWrites[w]
      BY <1>8 DEF Send, TypeOK
    <2>8. \A w \in Writers : /\ pendingWrites'[w] = Cardinality(Uncompleted(w)')
                             /\ queuedBytes'[w] = Bytes(Uncompleted(w)')
                             /\ IsFiniteSet(Uncompleted(w)')
                             /\ IsFiniteSet(BytesOf(Uncompleted(w)'))
      BY <1>4, <2>3, <2>5, <2>6, <2>7
    <2> QED
      BY <1>4, <1>5, <2>2, <2>4, <2>7, <2>8
  <1>9. ASSUME NEW h \in Hands, Aside(h)
        PROVE  CountInv'
    BY <1>1, <1>6, <1>9, AsideKeeps DEF Aside, Held
  <1>10. ASSUME NEW h \in Hands, NEW v \in Writers, NEW g \in Frames, Takes(h, v, g)
         PROVE  CountInv'
    BY <1>1, <1>6, <1>10, TakesKeeps DEF Takes, Held
  <1>11. ASSUME NEW h \in Hands, Counts(h)
         PROVE  CountInv'
    <2> DEFINE g == Hand(h).frame
               v == Hand(h).writer
    <2>1. v \in Writers
      BY <1>11, InHand DEF Counts, Counting, Hands
    <2>2. ASSUME NEW w \in Writers
          PROVE  /\ w = v => /\ g \in Uncompleted(w) /\ g \in Frames
                             /\ Uncompleted(w)' = Uncompleted(w) \ {g}
                 /\ w # v => Uncompleted(w)' = Uncompleted(w)
                 /\ Held(w)' = Held(w)
      BY <1>1, <1>11, CountsMoves
    <2>3. AllHeld' = AllHeld
      <3>1. \A w \in Writers : Held(w)' = Held(w)
        BY <2>2
      <3> QED
        BY <1>2, <1>3, <3>1
    <2>4. Uncount(v, g) /\ UNCHANGED usedBytes
      BY <1>11 DEF Counts
    <2> HIDE DEF g, v
    <2>5. /\ IsFiniteSet(BytesOf(Uncompleted(v) \ {g}))
          /\ Bytes(Uncompleted(v) \ {g}) = Bytes(Uncompleted(v)) - Size[g]
      BY <1>2, <1>4, <2>1, <2>2, BytesRemove
    <2>6. /\ IsFiniteSet(Uncompleted(v) \ {g})
          /\ Cardinality(Uncompleted(v) \ {g}) = Cardinality(Uncompleted(v)) - 1
      BY <1>4, <2>1, <2>2, FS_RemoveElement
    <2>7. /\ queuedBytes'[v] = queuedBytes[v] - Size[g]
          /\ pendingWrites'[v] = pendingWrites[v] - 1
          /\ \A w \in Writers : w # v => /\ queuedBytes'[w] = queuedBytes[w]
                                         /\ pendingWrites'[w] = pendingWrites[w]
      BY <2>1, <2>4 DEF Uncount, TypeOK
    <2>8. \A w \in Writers : /\ pendingWrites'[w] = Cardinality(Uncompleted(w)')
                             /\ queuedBytes'[w] = Bytes(Uncompleted(w)')
                             /\ IsFiniteSet(Uncompleted(w)')
                             /\ IsFiniteSet(BytesOf(Uncompleted(w)'))
      BY <1>4, <2>1, <2>2, <2>5, <2>6, <2>7
    <2> QED
      BY <1>4, <1>5, <2>3, <2>4, <2>8
  <1>12. ASSUME NEW h \in Hands, Frees(h)
         PROVE  CountInv'
    <2> DEFINE g == Hand(h).frame
               v == Hand(h).writer
    <2>1. v \in Writers
      BY <1>12, InHand DEF Frees, Freeing, Hands
    <2>2. ASSUME NEW w \in Writers
          PROVE  /\ g \in Frames /\ (w = v => g \in Held(w))
                 /\ Uncompleted(w)' = Uncompleted(w) /\ Held(w)' = Held(w) \ {g}
      BY <1>1, <1>12, FreesMoves
    <2>3. g \in AllHeld /\ AllHeld' = AllHeld \ {g}
      BY <1>2, <1>3, <2>1, <2>2
    <2>4. Release(g) /\ UNCHANGED <<queuedBytes, pendingWrites>>
      BY <1>12 DEF Frees
    <2> HIDE DEF g, v
    <2>5. /\ IsFiniteSet(BytesOf(AllHeld \ {g}))
          /\ Bytes(AllHeld \ {g}) \in Nat
          /\ Bytes(AllHeld \ {g}) = Bytes(AllHeld) - Size[g]
          /\ Size[g] \in Nat
      BY <1>2, <1>4, <2>3, BytesRemove
    <2>6. usedBytes' = usedBytes - Size[g] /\ usedBytes' <= usedBytes
      <3>1. usedBytes - Size[g] \in Nat /\ usedBytes \in Nat
        BY <1>4, <2>5 DEF TypeOK
      <3> QED
        BY <2>4, <2>5, <3>1, AtLeastZero DEF Release
    <2>7. usedBytes' <= MaxBytes
      BY <1>4, <2>6, SocketWriterAssumption DEF TypeOK
    <2> QED
      BY <1>4, <1>5, <2>2, <2>3, <2>4, <2>5, <2>6, <2>7
  <1> QED
    BY <1>7, <1>8, <1>9, <1>10, <1>11, <1>12, Kinds

----------------------------------------------------------------------------
(* The flags.                                                              *)

Ending == {"drain", "drop", "dropRelease", "ended"}

\* The flags are set for good, and _STOP comes to a closed writer alone.
LEMMA FlagStep ==
    ASSUME TypeOK, OwnersInv, PlaceInv, FlagInv, [Next]_vars
    PROVE  FlagInv'
  <1> USE DEF counters, history
  <1>1. /\ closed \in [Writers -> BOOLEAN] /\ failed \in [Writers -> BOOLEAN]
        /\ socketOpen \in [Writers -> BOOLEAN]
        /\ queue \in [Writers -> Seq(Frames \cup {Stop})]
        /\ Stop \notin Frames
    BY SocketWriterAssumption DEF TypeOK
  <1>2. /\ \A w \in Writers :
              /\ failed[w] => closed[w] /\ ~socketOpen[w]
              /\ thread[w].at \in Ending => closed[w]
              /\ In(Stop, queue[w]) => closed[w]
        /\ \A c \in Closers :
              /\ closer[c].at = "stop" => closed[closer[c].writer]
              /\ closer[c].at \in {"drain", "drop", "dropRelease"}
                    => failed[closer[c].writer]
    BY DEF FlagInv, Ending
  <1>3. ASSUME NEW w \in Writers, NEW place, NEW f, Goto(w, place, f),
               UNCHANGED <<closer, closed, failed, socketOpen>>,
               place \in Ending => closed[w],
               \A v \in Writers : In(Stop, queue'[v]) => In(Stop, queue[v])
        PROVE  FlagInv'
    <2>1. /\ thread'[w].at = place
          /\ \A v \in Writers : v # w => thread'[v] = thread[v]
      <3>1. /\ thread'[w] = At(place, w, f)
            /\ \A v \in Writers : v # w => thread'[v] = thread[v]
        BY <1>3, ThreadMoves
      <3> QED
        BY <3>1 DEF At
    <2> QED
      BY <1>2, <1>3, <2>1 DEF FlagInv, Ending
  <1>4. ASSUME NEW c \in Closers, NEW w \in Writers, NEW place, NEW f,
               Move(c, place, w, f), UNCHANGED thread,
               place = "stop" => closed'[w],
               place \in {"drain", "drop", "dropRelease"} => failed'[w],
               \A v \in Writers :
                  /\ closed[v] => closed'[v]
                  /\ failed[v] => failed'[v]
                  /\ failed'[v] => closed'[v] /\ ~socketOpen'[v]
                  /\ In(Stop, queue'[v]) => closed'[v]
        PROVE  FlagInv'
    <2>1. /\ closer'[c].at = place /\ closer'[c].writer = w
          /\ \A d \in Closers : d # c => closer'[d] = closer[d]
      <3>1. /\ closer'[c] = At(place, w, f)
            /\ \A d \in Closers : d # c => closer'[d] = closer[d]
        BY <1>4, CallerMoves
      <3> QED
        BY <3>1 DEF At
    <2>2. \A d \in Closers : closer[d].at \in {"stop", "drain", "drop", "dropRelease"}
                                => closer[d].writer \in Writers
      BY DEF OwnersInv
    <2>3. \A d \in Closers :
             /\ closer'[d].at = "stop" => closed'[closer'[d].writer]
             /\ closer'[d].at \in {"drain", "drop", "dropRelease"}
                   => failed'[closer'[d].writer]
      BY <1>2, <1>4, <2>1, <2>2
    <2>4. \A v \in Writers : thread'[v].at \in Ending => closed'[v]
      BY <1>2, <1>4
    <2> QED
      BY <1>4, <2>3, <2>4 DEF FlagInv, Ending
  <1>5. ASSUME NEW w \in Writers, NEW f \in Frames, Send(w, f)
        PROVE  FlagInv'
    <2>1. \A v \in Writers : In(Stop, queue'[v]) => In(Stop, queue[v])
      <3>1. queue[w] \in Seq(Frames \cup {Stop}) /\ f \in Frames \cup {Stop} /\ f # Stop
        BY <1>1
      <3>2. In(Stop, Append(queue[w], f)) => In(Stop, queue[w])
        BY <3>1, PutLast
      <3> QED
        BY <1>1, <1>5, <3>2 DEF Send
    <2> QED
      BY <1>2, <1>5, <2>1 DEF Send, FlagInv, Ending
  <1>6. ASSUME NEW w \in Writers, queue' = [queue EXCEPT ![w] = Tail(@)], queue[w] # <<>>
        PROVE  \A v \in Writers : In(Stop, queue'[v]) => In(Stop, queue[v])
    <2>1. In(Stop, Tail(queue[w])) => In(Stop, queue[w])
      BY <1>1, <1>6, TakeFirst
    <2> QED
      BY <1>1, <1>6, <2>1
  <1>7. ASSUME NEW w \in Writers, Get(w) \/ Drain(w)
        PROVE  FlagInv'
    <2>1. queue[w] # <<>> /\ Head(queue[w]) = Stop => In(Stop, queue[w])
      BY <1>1, TakeFirst
    <2>2. \A v \in Writers : In(Stop, queue'[v]) => In(Stop, queue[v])
      BY <1>6, <1>7 DEF Get, Drain
    <2>3. PICK place \in Ending \cup {"send"} : \E f :
             /\ Goto(w, place, f)
             /\ UNCHANGED <<closer, closed, failed, socketOpen>>
             /\ place \in Ending => closed[w]
      <3>1. CASE Get(w)
        BY <1>2, <2>1, <3>1 DEF Get, Ending
      <3>2. CASE Drain(w)
        BY <1>2, <3>2 DEF Drain, Ending
      <3> QED
        BY <1>7, <3>1, <3>2
    <2> QED
      BY <1>3, <2>2, <2>3
  <1>8. ASSUME NEW w \in Writers,
               \/ SendAll(w) \/ SendAllFails(w) \/ Complete(w) \/ ReleaseBudget(w)
               \/ DrainComplete(w) \/ DrainRelease(w)
        PROVE  FlagInv'
    <2>1. PICK place, f : /\ Goto(w, place, f)
                          /\ place \in Ending => thread[w].at \in Ending
                          /\ UNCHANGED <<queue, closer, closed, failed, socketOpen>>
      BY <1>8 DEF SendAll, SendAllFails, Complete, ReleaseBudget, DrainComplete,
         DrainRelease, Ending
    <2> QED
      BY <1>2, <1>3, <2>1
  <1>9. ASSUME NEW w \in Writers, Fail(w)
        PROVE  FlagInv'
    <2>1. \A v \in Writers : /\ closed'[v] = (closed[v] \/ v = w)
                             /\ failed'[v] = (failed[v] \/ v = w)
                             /\ v = w => ~socketOpen'[v]
                             /\ v # w => socketOpen'[v] = socketOpen[v]
      BY <1>1, <1>9 DEF Fail
    <2>2. \A v \in Writers : v # w => thread'[v] = thread[v]
      BY <1>9, ThreadMoves DEF Fail
    <2>3. closer' = closer /\ queue' = queue
      BY <1>9 DEF Fail
    <2>4. \A d \in Closers : closer[d].at \in {"stop", "drain", "drop", "dropRelease"}
                                => closer[d].writer \in Writers
      BY DEF OwnersInv
    <2>5. \A d \in Closers :
             /\ closer'[d].at = "stop" => closed'[closer'[d].writer]
             /\ closer'[d].at \in {"drain", "drop", "dropRelease"}
                   => failed'[closer'[d].writer]
      BY <1>2, <2>1, <2>3, <2>4
    <2>6. \A v \in Writers :
             /\ failed'[v] => closed'[v] /\ ~socketOpen'[v]
             /\ thread'[v].at \in Ending => closed'[v]
             /\ In(Stop, queue'[v]) => closed'[v]
      BY <1>2, <2>1, <2>2, <2>3
    <2> QED
      BY <2>5, <2>6 DEF FlagInv, Ending
  <1>10. ASSUME NEW c \in Closers, NEW w \in Writers, Close(c, w) \/ Abort(c, w)
         PROVE  FlagInv'
    <2>1. PICK place \in {"join", "stop", "drain"} :
             /\ Move(c, place, w, Stop) /\ UNCHANGED <<thread, queue>>
             /\ place = "drain" => Abort(c, w)
      BY <1>10 DEF Close, Abort
    <2>2. \A v \in Writers : /\ v = w => closed'[v]
                             /\ v # w => closed'[v] = closed[v]
                             /\ Abort(c, w) /\ v = w => failed'[v] /\ ~socketOpen'[v]
                             /\ v # w \/ Close(c, w) => /\ failed'[v] = failed[v]
                                                        /\ socketOpen'[v] = socketOpen[v]
      BY <1>1, <1>10 DEF Close, Abort
    <2>3. \A v \in Writers : /\ closed[v] => closed'[v]
                             /\ failed[v] => failed'[v]
                             /\ failed'[v] => closed'[v] /\ ~socketOpen'[v]
                             /\ In(Stop, queue'[v]) => closed'[v]
      BY <1>2, <1>10, <2>1, <2>2
    <2> QED
      BY <1>4, <2>1, <2>2, <2>3
  <1>11. ASSUME NEW c \in Closers, NEW w \in Writers, NEW place, NEW f,
                Move(c, place, w, f), UNCHANGED <<thread, closed, failed, socketOpen>>,
                place # "stop",
                place \in {"drain", "drop", "dropRelease"} => failed[w],
                \A v \in Writers : In(Stop, queue'[v]) => closed[v]
         PROVE  FlagInv'
    BY <1>2, <1>4, <1>11
  <1>12. ASSUME NEW c \in Closers, Closer(c), ~\E w \in Writers : Abort(c, w)
         PROVE  FlagInv'
    <2> DEFINE w == closer[c].writer
    <2>1. w \in Writers
      BY <1>12, InHand DEF Closer, ClosePutStop, CloseJoined, AbortDrain, AbortComplete,
         AbortRelease
    <2>2. \/ queue' = queue
          \/ queue' = [queue EXCEPT ![w] = Append(@, Stop)] /\ closer[c].at = "stop"
          \/ queue' = [queue EXCEPT ![w] = <<Stop>>] /\ closer[c].at = "drain"
          \/ queue' = [queue EXCEPT ![w] = Tail(@)] /\ queue[w] # <<>>
      BY <1>12 DEF Closer, ClosePutStop, CloseJoined, AbortDrain, AbortComplete,
         AbortRelease
    <2>3. closer[c].at \in {"stop", "drain"} => closed[w]
      BY <1>2, <2>1
    <2>4. \A v \in Writers : In(Stop, queue'[v]) => closed[v]
      <3>1. CASE queue' = queue
        BY <1>2, <3>1
      <3>2. CASE queue' = [queue EXCEPT ![w] = Tail(@)] /\ queue[w] # <<>>
        BY <1>2, <1>6, <2>1, <3>2
      <3>3. CASE /\ closer[c].at \in {"stop", "drain"}
                 /\ \A v \in Writers : v # w => queue'[v] = queue[v]
        BY <1>2, <2>3, <3>3
      <3> QED
        BY <1>1, <2>1, <2>2, <3>1, <3>2, <3>3
    <2>5. PICK place, f :
             /\ Move(c, place, w, f) /\ UNCHANGED <<thread, closed, failed, socketOpen>>
             /\ place # "stop"
             /\ place \in {"drain", "drop", "dropRelease"}
                   => closer[c].at \in {"drain", "drop", "dropRelease"}
      BY <1>12 DEF Closer, ClosePutStop, CloseJoined, AbortDrain, AbortComplete,
         AbortRelease
    <2> QED
      BY <1>2, <1>11, <2>1, <2>4, <2>5
  <1>13. CASE UNCHANGED vars
    BY <1>2, <1>13 DEF vars, FlagInv, Ending
  <1> QED
    BY <1>5, <1>7, <1>8, <1>9, <1>10, <1>12, <1>13 DEF Next, Thread, Closer

----------------------------------------------------------------------------
(* Order.                                                                  *)

OrderAt(w) ==
    /\ Len(written[w]) <= Len(accepted[w])
    /\ \A i \in 1..Len(written[w]) : written[w][i] = accepted[w][i]
    /\ Sound(w) => OrderOf(w)

\* What a writer is left with that a step does not touch.
LEMMA Untouched ==
    ASSUME NEW w \in Writers, OrderAt(w),
           queue'[w] = queue[w], accepted'[w] = accepted[w], written'[w] = written[w],
           thread'[w] = thread[w], failed'[w] = failed[w]
    PROVE  OrderAt(w)'
  BY DEF OrderAt, OrderOf, Sound, Taken

\* After a failure, what was written stays as it is.
LEMMA Broken ==
    ASSUME NEW w \in Writers, OrderAt(w),
           accepted'[w] = accepted[w], written'[w] = written[w], ~Sound(w)'
    PROVE  OrderAt(w)'
  BY DEF OrderAt

\* The thread of a writer goes to a place that has taken as many frames.
LEMMA Onwards ==
    ASSUME NEW w \in Writers, OrderAt(w),
           queue'[w] = queue[w], accepted'[w] = accepted[w], written'[w] = written[w],
           failed'[w] = failed[w], Sound(w)' => Sound(w),
           thread[w].at \in Writing <=> thread'[w].at \in Writing, thread'[w].at # "send",
           thread'[w].at \in Ending =>
              thread[w].at \in Ending \/ Taken(w) = Len(accepted[w])
    PROVE  OrderAt(w)'
  <1>1. Taken(w)' = Taken(w)
    BY DEF Taken, Writing, Failing
  <1>2. ASSUME OrderOf(w) PROVE OrderOf(w)'
    <2>1. \A i \in 1..Len(queue'[w]) :
             queue'[w][i] = IF Taken(w)' + i <= Len(accepted'[w])
                               THEN accepted'[w][Taken(w)' + i] ELSE Stop
      BY <1>1, <1>2 DEF OrderOf
    <2>2. thread'[w].at \in Ending => Taken(w)' = Len(accepted'[w])
      BY <1>1, <1>2 DEF OrderOf, Ending
    <2>3. /\ Taken(w)' <= Len(accepted'[w])
          /\ Len(accepted'[w]) - Taken(w)' <= Len(queue'[w])
      BY <1>1, <1>2 DEF OrderOf
    <2> QED
      BY <2>1, <2>2, <2>3 DEF OrderOf, Ending
  <1> QED
    BY <1>2 DEF OrderAt

\* send() puts a frame at the end of both sequences.
LEMMA SendOrder ==
    ASSUME TypeOK, FlagInv, NEW w \in Writers, OrderAt(w), ~closed[w],
           NEW f \in Frames,
           queue'[w] = Append(queue[w], f), accepted'[w] = Append(accepted[w], f),
           written'[w] = written[w], thread'[w] = thread[w], failed'[w] = failed[w]
    PROVE  OrderAt(w)'
  <1> DEFINE q == queue[w]
             a == accepted[w]
             n == Taken(w)
             p == Append(queue[w], f)
             b == Append(accepted[w], f)
  <1>1. /\ q \in Seq(Frames \cup {Stop}) /\ a \in Seq(Frames)
        /\ written[w] \in Seq(Frames) /\ n \in Nat
    BY DEF TypeOK, Taken, Writing, Failing
  <1>2. /\ Len(q) \in Nat /\ Len(p) = Len(q) + 1
        /\ \A i \in 1..Len(q) : p[i] = q[i]
        /\ p[Len(q) + 1] = f
        /\ Len(a) \in Nat /\ Len(b) = Len(a) + 1
        /\ \A i \in 1..Len(a) : b[i] = a[i]
        /\ b[Len(a) + 1] = f
    BY <1>1
  <1>3. Taken(w)' = n /\ (Sound(w)' <=> Sound(w))
    BY DEF Taken, Sound
  <1>4. Len(written[w]) \in Nat
    BY <1>1
  <1>5. /\ queue'[w] = p /\ accepted'[w] = b
    OBVIOUS
  <1>6. Len(written[w]) <= Len(b) /\ \A i \in 1..Len(written[w]) : written[w][i] = b[i]
    <2>1. /\ Len(written[w]) <= Len(a)
          /\ \A i \in 1..Len(written[w]) : written[w][i] = a[i]
      BY DEF OrderAt
    <2> HIDE DEF a, b
    <2> QED
      BY <1>2, <1>4, <2>1
  <1>7. ASSUME Sound(w) PROVE OrderOf(w)'
    <2>1. /\ n <= Len(a) /\ Len(a) - n <= Len(q)
          /\ thread[w].at = "send" => a[n] = thread[w].frame
          /\ \A i \in 1..Len(q) : q[i] = IF n + i <= Len(a) THEN a[n + i] ELSE Stop
      BY <1>7 DEF OrderAt, OrderOf
    <2>2. ~In(Stop, q) /\ thread[w].at \notin Ending
      BY DEF FlagInv, Ending
    <2>3. thread[w].at = "send" => n >= 1
      BY <1>4 DEF Taken, Writing, Failing
    <2> HIDE DEF q, a, n, p, b
    <2>4. Len(a) - n = Len(q)
      <3>1. ASSUME Len(a) - n < Len(q) PROVE FALSE
        <4>1. Len(q) \in 1..Len(q) /\ ~(n + Len(q) <= Len(a))
          BY <1>1, <1>2, <2>1, <3>1
        <4>2. q[Len(q)] = Stop
          BY <2>1, <4>1, Zenon
        <4> QED
          BY <2>2, <4>1, <4>2 DEF In
      <3> QED
        BY <1>1, <1>2, <2>1, <3>1
    <2>5. ASSUME NEW i \in 1..Len(p)
          PROVE  p[i] = IF n + i <= Len(b) THEN b[n + i] ELSE Stop
      <3>1. CASE i \in 1..Len(q)
        <4>1. n + i \in 1..Len(a) /\ n + i <= Len(a) /\ n + i <= Len(b)
          BY <1>1, <1>2, <2>4, <3>1
        <4>2. p[i] = q[i] /\ b[n + i] = a[n + i]
          BY <1>2, <3>1, <4>1
        <4>3. q[i] = a[n + i]
          BY <2>1, <3>1, <4>1
        <4> QED
          BY <4>1, <4>2, <4>3
      <3>2. CASE i = Len(q) + 1
        <4>1. n + i = Len(a) + 1
          BY <1>1, <1>2, <2>4, <3>2
        <4> QED
          BY <1>2, <3>2, <4>1
      <3> QED
        BY <1>2, <3>1, <3>2
    <2>6. thread[w].at = "send" => b[n] = thread[w].frame
      BY <1>1, <1>2, <2>1, <2>3
    <2>7. n <= Len(b) /\ Len(b) - n <= Len(p)
      BY <1>1, <1>2, <2>4
    <2> QED
      BY <1>3, <1>5, <2>2, <2>5, <2>6, <2>7 DEF OrderOf, Ending
  <1>8. /\ Len(written'[w]) <= Len(accepted'[w])
        /\ \A i \in 1..Len(written'[w]) : written'[w][i] = accepted'[w][i]
    <2> HIDE DEF b
    <2> QED
      BY <1>5, <1>6
  <1>9. Sound(w)' => OrderOf(w)'
    BY <1>3, <1>7, Zenon
  <1> QED
    BY <1>8, <1>9, Zenon DEF OrderAt

\* The thread takes the first element of its queue, a frame to send or _STOP.
LEMMA TakeOrder ==
    ASSUME TypeOK, NEW w \in Writers, OrderAt(w), Sound(w), thread[w].at \notin Writing,
           queue[w] # <<>>, queue'[w] = Tail(queue[w]),
           accepted'[w] = accepted[w], written'[w] = written[w], failed'[w] = failed[w],
           \/ /\ Head(queue[w]) = Stop /\ thread'[w].at = "drain"
           \/ /\ Head(queue[w]) # Stop /\ thread'[w].at = "send"
              /\ thread'[w].frame = Head(queue[w])
           \/ /\ Head(queue[w]) # Stop /\ thread[w].at = "drain"
    PROVE  OrderAt(w)'
  <1> DEFINE q == queue[w]
             a == accepted[w]
             n == Taken(w)
             p == Tail(queue[w])
  <1>1. /\ q \in Seq(Frames \cup {Stop}) /\ a \in Seq(Frames)
        /\ written[w] \in Seq(Frames) /\ n \in Nat /\ Stop \notin Frames
    <2>1. /\ q \in Seq(Frames \cup {Stop}) /\ a \in Seq(Frames)
          /\ written[w] \in Seq(Frames) /\ Stop \notin Frames
      BY SocketWriterAssumption DEF TypeOK
    <2>2. Len(written[w]) \in Nat
      BY <2>1
    <2>3. n \in Nat
      BY <2>2 DEF Taken, Writing, Failing
    <2> QED
      BY <2>1, <2>3
  <1>2. /\ Len(q) \in Nat /\ Len(q) >= 1 /\ Head(q) = q[1] /\ Len(p) = Len(q) - 1
        /\ \A i \in 1..Len(p) : p[i] = q[i + 1]
        /\ Len(a) \in Nat /\ \A i \in 1..Len(a) : a[i] \in Frames
    BY <1>1
  <1>3. /\ n <= Len(a) /\ Len(a) - n <= Len(q)
        /\ \A i \in 1..Len(q) : q[i] = IF n + i <= Len(a) THEN a[n + i] ELSE Stop
        /\ thread[w].at \in Ending => n = Len(a)
    BY DEF OrderAt, OrderOf, Ending
  <1>4. n = Len(written[w])
    BY <1>1 DEF Taken, Writing, Failing
  <1>5. /\ queue'[w] = p /\ accepted'[w] = a
    OBVIOUS
  <1>6. OrderOf(w)' => OrderAt(w)'
    BY DEF OrderAt
  <1> HIDE DEF q, a, n, p
  <1>7. q[1] = Stop <=> n = Len(a)
    <2>1. q[1] = IF n + 1 <= Len(a) THEN a[n + 1] ELSE Stop
      BY <1>2, <1>3
    <2>2. n + 1 <= Len(a) => n + 1 \in 1..Len(a)
      BY <1>1, <1>2
    <2> QED
      BY <1>1, <1>2, <1>3, <2>1, <2>2
  <1>8. CASE Head(queue[w]) = Stop /\ thread'[w].at = "drain"
    <2>1. n = Len(a) /\ Taken(w)' = n
      BY <1>2, <1>4, <1>7, <1>8 DEF q, Taken, Writing, Failing
    <2>2. \A i \in 1..Len(p) : p[i] = Stop /\ ~(n + i <= Len(a))
      BY <1>1, <1>2, <1>3, <2>1
    <2>3. Len(a) - n <= Len(p)
      BY <1>1, <1>2, <2>1
    <2>4. \A i \in 1..Len(queue'[w]) :
             queue'[w][i] = IF Taken(w)' + i <= Len(accepted'[w])
                               THEN accepted'[w][Taken(w)' + i] ELSE Stop
      BY <1>5, <2>1, <2>2
    <2>5. /\ Taken(w)' <= Len(accepted'[w]) /\ Taken(w)' = Len(accepted'[w])
          /\ Len(accepted'[w]) - Taken(w)' <= Len(queue'[w])
      BY <1>1, <1>2, <1>5, <2>1, <2>3
    <2> QED
      BY <1>6, <1>8, <2>4, <2>5 DEF OrderOf
  <1>9. CASE /\ Head(queue[w]) # Stop /\ thread'[w].at = "send"
             /\ thread'[w].frame = Head(queue[w])
    <2>1. n + 1 <= Len(a) /\ Taken(w)' = n + 1 /\ q[1] = a[n + 1]
      BY <1>1, <1>2, <1>3, <1>4, <1>7, <1>9 DEF q, Taken, Writing, Failing
    <2>2. ASSUME NEW i \in 1..Len(p)
          PROVE  p[i] = IF (n + 1) + i <= Len(a) THEN a[(n + 1) + i] ELSE Stop
      <3>1. i + 1 \in 1..Len(q) /\ n + (i + 1) = (n + 1) + i
        BY <1>1, <1>2
      <3> QED
        BY <1>2, <1>3, <3>1
    <2>3. Len(a) - (n + 1) <= Len(p)
      BY <1>1, <1>2, <1>3
    <2>4. a[n + 1] = thread'[w].frame
      BY <1>2, <1>9, <2>1 DEF q
    <2> QED
      BY <1>5, <1>6, <1>9, <2>1, <2>2, <2>3, <2>4 DEF OrderOf
  <1>10. CASE Head(queue[w]) # Stop /\ thread[w].at = "drain"
    BY <1>2, <1>3, <1>7, <1>10 DEF q, Ending
  <1> QED
    BY <1>8, <1>9, <1>10

\* The socket takes the frame that the thread has in hand.
LEMMA WriteOrder ==
    ASSUME TypeOK, OwnersInv, FlagInv, NEW w \in Writers, OrderAt(w), SendAll(w)
    PROVE  OrderAt(w)'
  <1> DEFINE a == accepted[w]
             s == written[w]
             f == thread[w].frame
             t == Append(written[w], thread[w].frame)
  <1>1. /\ a \in Seq(Frames) /\ s \in Seq(Frames) /\ f \in Frames
        /\ thread[w].at = "send"
    BY InHand DEF SendAll, Counting, TypeOK
  <1>2. /\ Len(a) \in Nat /\ Len(s) \in Nat /\ Len(t) = Len(s) + 1
        /\ \A i \in 1..Len(s) : t[i] = s[i]
        /\ t[Len(s) + 1] = f
    BY <1>1
  <1>3. Sound(w)
    BY <1>1 DEF Sound, FlagInv, SendAll
  <1>4. /\ written'[w] = t /\ accepted'[w] = a /\ queue'[w] = queue[w]
    BY <1>1 DEF SendAll, TypeOK
  <1>5. thread'[w].at = "sent"
    BY <1>1 DEF SendAll, Goto, At, TypeOK
  <1>6. Taken(w) = Len(s) + 1 /\ Taken(w)' = Len(s) + 1
    BY <1>1, <1>2, <1>4, <1>5 DEF Taken, Writing, Failing
  <1>7. /\ Len(s) + 1 <= Len(a) /\ a[Len(s) + 1] = f
        /\ \A i \in 1..Len(s) : s[i] = a[i]
        /\ OrderOf(w)
    BY <1>1, <1>3, <1>6 DEF OrderAt, OrderOf
  <1> HIDE DEF a, s, f, t
  <1>8. Len(t) <= Len(a) /\ \A i \in 1..Len(t) : t[i] = a[i]
    <2>1. \A i \in 1..Len(t) : i \in 1..Len(s) \/ i = Len(s) + 1
      BY <1>2
    <2> QED
      BY <1>2, <1>7, <2>1
  <1>9. OrderOf(w)'
    <2>1. Taken(w)' = Taken(w) /\ accepted'[w] = accepted[w] /\ queue'[w] = queue[w]
      BY <1>4, <1>6 DEF a
    <2>2. \A i \in 1..Len(queue'[w]) :
             queue'[w][i] = IF Taken(w)' + i <= Len(accepted'[w])
                               THEN accepted'[w][Taken(w)' + i] ELSE Stop
      BY <1>7, <2>1 DEF OrderOf
    <2> QED
      BY <1>5, <1>7, <2>1, <2>2 DEF OrderOf
  <1> QED
    BY <1>4, <1>8, <1>9 DEF OrderAt

\* close() puts _STOP behind the frames.
LEMMA StopOrder ==
    ASSUME TypeOK, NEW w \in Writers, OrderAt(w),
           queue'[w] = Append(queue[w], Stop), accepted'[w] = accepted[w],
           written'[w] = written[w], thread'[w] = thread[w], failed'[w] = failed[w]
    PROVE  OrderAt(w)'
  <1> DEFINE q == queue[w]
             a == accepted[w]
             n == Taken(w)
             p == Append(queue[w], Stop)
  <1>1. /\ q \in Seq(Frames \cup {Stop}) /\ a \in Seq(Frames)
        /\ written[w] \in Seq(Frames) /\ n \in Nat
    BY DEF TypeOK, Taken, Writing, Failing
  <1>2. /\ Len(q) \in Nat /\ Len(p) = Len(q) + 1 /\ Len(a) \in Nat
        /\ \A i \in 1..Len(q) : p[i] = q[i]
        /\ p[Len(q) + 1] = Stop
    BY <1>1
  <1>3. /\ Taken(w)' = n /\ (Sound(w)' <=> Sound(w))
        /\ queue'[w] = p /\ accepted'[w] = a
    BY DEF Taken, Sound
  <1>4. ASSUME OrderOf(w) PROVE OrderOf(w)'
    <2>1. /\ n <= Len(a) /\ Len(a) - n <= Len(q)
          /\ thread[w].at = "send" => a[n] = thread[w].frame
          /\ \A i \in 1..Len(q) : q[i] = IF n + i <= Len(a) THEN a[n + i] ELSE Stop
          /\ thread[w].at \in Ending => n = Len(a)
      BY <1>4 DEF OrderOf, Ending
    <2> HIDE DEF q, a, n, p
    <2>2. ASSUME NEW i \in 1..Len(p)
          PROVE  p[i] = IF n + i <= Len(a) THEN a[n + i] ELSE Stop
      <3>1. CASE i \in 1..Len(q)
        BY <1>2, <2>1, <3>1
      <3>2. CASE i = Len(q) + 1
        <4>1. ~(n + i <= Len(a))
          BY <1>1, <1>2, <2>1, <3>2
        <4> QED
          BY <1>2, <3>2, <4>1
      <3> QED
        BY <1>2, <3>1, <3>2
    <2>3. Len(a) - n <= Len(p)
      BY <1>1, <1>2, <2>1
    <2> QED
      BY <1>3, <2>1, <2>2, <2>3 DEF OrderOf, Ending
  <1> QED
    BY <1>3, <1>4 DEF OrderAt, a

\* Whatever the thread of a writer does, it keeps the order.
LEMMA ThreadOrder ==
    ASSUME TypeOK, OwnersInv, FlagInv, NEW w \in Writers, OrderAt(w),
           Thread(w) \/ SendAll(w) \/ SendAllFails(w)
    PROVE  OrderAt(w)'
  <1>1. CASE SendAll(w)
    BY <1>1, WriteOrder
  <1>2. \A place, f : Goto(w, place, f) => thread'[w] = At(place, w, f)
    BY DEF Goto, TypeOK
  <1>3. \A place, f : At(place, w, f).at = place /\ At(place, w, f).frame = f
    BY DEF At
  <1>4. CASE Get(w)
    <2>1. /\ queue'[w] = Tail(queue[w]) /\ queue[w] # <<>> /\ thread[w].at = "get"
          /\ accepted'[w] = accepted[w] /\ written'[w] = written[w]
          /\ failed'[w] = failed[w]
          /\ \/ Head(queue[w]) = Stop /\ thread'[w].at = "drain"
             \/ /\ Head(queue[w]) # Stop /\ thread'[w].at = "send"
                /\ thread'[w].frame = Head(queue[w])
      BY <1>2, <1>3, <1>4 DEF Get, history, TypeOK
    <2>2. Sound(w)' => Sound(w)
      BY <2>1 DEF Sound
    <2> QED
      BY <2>1, <2>2, TakeOrder, Broken DEF Writing, Failing
  <1>5. CASE Drain(w) /\ queue[w] # <<>>
    <2>1. /\ queue'[w] = Tail(queue[w]) /\ thread[w].at = "drain"
          /\ accepted'[w] = accepted[w] /\ written'[w] = written[w]
          /\ failed'[w] = failed[w]
          /\ \/ Head(queue[w]) = Stop /\ thread'[w].at = "drain"
             \/ Head(queue[w]) # Stop
      BY <1>2, <1>3, <1>5 DEF Drain, history, TypeOK
    <2>2. Sound(w)' => Sound(w)
      BY <2>1 DEF Sound
    <2> QED
      BY <1>5, <2>1, <2>2, TakeOrder, Broken DEF Writing, Failing
  <1>6. CASE Drain(w) /\ queue[w] = <<>>
    <2>1. /\ queue'[w] = queue[w] /\ thread[w].at = "drain" /\ thread'[w].at = "ended"
          /\ accepted'[w] = accepted[w] /\ written'[w] = written[w]
          /\ failed'[w] = failed[w]
      BY <1>2, <1>3, <1>6 DEF Drain, history
    <2>2. Sound(w)' => Sound(w)
      BY <2>1 DEF Sound
    <2> QED
      BY <2>1, <2>2, Onwards DEF Ending, Writing, Failing
  <1>7. CASE Fail(w)
    <2>1. accepted'[w] = accepted[w] /\ written'[w] = written[w] /\ failed'[w]
      BY <1>7 DEF Fail, history, TypeOK
    <2> QED
      BY <2>1, Broken DEF Sound
  <1>8. CASE \/ SendAllFails(w)
             \/ Complete(w)
             \/ ReleaseBudget(w)
             \/ DrainComplete(w)
             \/ DrainRelease(w)
    <2>1. /\ accepted'[w] = accepted[w] /\ written'[w] = written[w]
          /\ queue'[w] = queue[w] /\ failed'[w] = failed[w]
      BY <1>8 DEF SendAllFails, Complete, ReleaseBudget, DrainComplete, DrainRelease,
         history
    <2>2. \/ thread[w].at = "send" /\ thread'[w].at = "unsent"
          \/ thread[w].at = "unsent" /\ thread'[w].at = "releaseFail"
          \/ thread[w].at = "releaseFail" /\ thread'[w].at = "fail"
          \/ thread[w].at = "sent" /\ thread'[w].at = "release"
          \/ thread[w].at = "release" /\ thread'[w].at = "get"
          \/ thread[w].at = "drop" /\ thread'[w].at = "dropRelease"
          \/ thread[w].at = "dropRelease" /\ thread'[w].at = "drain"
      BY <1>2, <1>3, <1>8 DEF SendAllFails, Complete, ReleaseBudget, DrainComplete,
         DrainRelease
    <2>3. Sound(w)' => Sound(w)
      BY <2>1, <2>2 DEF Sound
    <2> QED
      BY <2>1, <2>2, <2>3, Onwards DEF Ending, Writing, Failing
  <1>9. Drain(w) => OrderAt(w)'
    BY <1>5, <1>6, Zenon
  <1> QED
    BY <1>1, <1>4, <1>7, <1>8, <1>9, Zenon DEF Thread

\* No step breaks the order.
LEMMA OrderStep ==
    ASSUME TypeOK, OwnersInv, FlagInv, OrderInv, [Next]_vars
    PROVE  OrderInv'
  <1>1. \A v \in Writers : OrderAt(v)
    BY DEF OrderInv, OrderAt
  <1>2. SUFFICES ASSUME NEW v \in Writers PROVE OrderAt(v)'
    BY DEF OrderInv, OrderAt
  <1>3. CASE \E w \in Writers : Thread(w) \/ SendAll(w) \/ SendAllFails(w)
    <2>1. PICK w \in Writers : Thread(w) \/ SendAll(w) \/ SendAllFails(w)
      BY <1>3
    <2>2. CASE v = w
      BY <1>1, <2>1, <2>2, ThreadOrder
    <2>3. CASE v # w
      <3>1. thread'[v] = thread[v] /\ failed'[v] = failed[v] /\ accepted' = accepted
        BY <2>1, <2>3 DEF Thread, Get, SendAll, SendAllFails, Complete, ReleaseBudget,
           Fail, Drain, DrainComplete, DrainRelease, Goto, history, TypeOK
      <3>2. queue'[v] = queue[v] /\ written'[v] = written[v]
        BY <2>1, <2>3 DEF Thread, Get, SendAll, SendAllFails, Complete, ReleaseBudget,
           Fail, Drain, DrainComplete, DrainRelease, history, TypeOK
      <3> QED
        BY <1>1, <3>1, <3>2, Untouched
    <2> QED
      BY <2>2, <2>3
  <1>4. CASE \E w \in Writers, f \in Frames : Send(w, f)
    <2>1. PICK w \in Writers, f \in Frames : Send(w, f)
      BY <1>4
    <2>2. /\ queue' = [queue EXCEPT ![w] = Append(@, f)] /\ ~closed[w]
          /\ accepted' = [accepted EXCEPT ![w] = Append(@, f)]
          /\ written' = written /\ thread' = thread /\ failed' = failed
      BY <2>1 DEF Send
    <2>3. /\ queue'[w] = Append(queue[w], f) /\ accepted'[w] = Append(accepted[w], f)
          /\ v # w => queue'[v] = queue[v] /\ accepted'[v] = accepted[v]
      BY <2>2 DEF TypeOK
    <2> QED
      BY <1>1, <2>2, <2>3, SendOrder, Untouched
  <1>5. CASE \E w \in Writers, c \in Closers : Close(c, w)
    BY <1>1, <1>5, Untouched DEF Close, history
  <1>6. CASE \E w \in Writers, c \in Closers : Abort(c, w)
    <2>1. PICK w \in Writers, c \in Closers : Abort(c, w)
      BY <1>6
    <2>2. /\ queue' = queue /\ thread' = thread /\ accepted' = accepted
          /\ written' = written /\ failed' = [failed EXCEPT ![w] = TRUE]
      BY <2>1 DEF Abort, history
    <2>3. failed'[w] /\ (v # w => failed'[v] = failed[v])
      BY <2>2 DEF TypeOK
    <2> QED
      BY <1>1, <2>2, <2>3, Untouched, Broken DEF Sound
  <1>7. CASE \E c \in Closers : Closer(c) /\ ~\E w \in Writers : Abort(c, w)
    <2>1. PICK c \in Closers : Closer(c) /\ ~\E w \in Writers : Abort(c, w)
      BY <1>7
    <2> DEFINE w == closer[c].writer
    <2>2. /\ thread' = thread /\ failed' = failed /\ accepted' = accepted
          /\ written' = written
      BY <2>1 DEF Closer, ClosePutStop, CloseJoined, AbortDrain, AbortComplete,
         AbortRelease, history
    <2>3. CASE ClosePutStop(c)
      <3>1. w \in Writers
        BY <2>3, InHand DEF ClosePutStop
      <3>2. queue' = [queue EXCEPT ![w] = Append(@, Stop)]
        BY <2>3 DEF ClosePutStop
      <3>3. queue'[w] = Append(queue[w], Stop) /\ (v # w => queue'[v] = queue[v])
        BY <3>1, <3>2 DEF TypeOK
      <3> QED
        BY <1>1, <2>2, <3>1, <3>3, StopOrder, Untouched
    <2>4. CASE AbortDrain(c)
      <3>1. w \in Writers /\ failed[w]
        BY <2>4, InHand DEF AbortDrain, FlagInv
      <3>2. v # w => queue'[v] = queue[v]
        BY <2>4, <3>1 DEF AbortDrain, TypeOK
      <3> QED
        BY <1>1, <2>2, <3>1, <3>2, Untouched, Broken DEF Sound
    <2>5. CASE CloseJoined(c) \/ AbortComplete(c) \/ AbortRelease(c)
      BY <1>1, <2>2, <2>5, Untouched DEF CloseJoined, AbortComplete, AbortRelease
    <2> QED
      BY <2>1, <2>3, <2>4, <2>5 DEF Closer
  <1>8. CASE UNCHANGED vars
    BY <1>1, <1>8, Untouched DEF vars, history
  <1> QED
    BY <1>3, <1>4, <1>5, <1>6, <1>7, <1>8 DEF Next, Closer

----------------------------------------------------------------------------
(* What the runs check, for any writers, payloads, bounds and threads.      *)

\* The invariant holds at first: nothing was sent, and nobody holds a frame.
LEMMA InitInv == Init => Inv
  <1> SUFFICES ASSUME Init PROVE Inv
    OBVIOUS
  <1>1. TypeOK
    BY TypeInit
  <1>2. /\ \A w \in Writers : /\ thread[w].at = "get" /\ thread[w].writer = w
                              /\ queue[w] = <<>> /\ ~failed[w]
                              /\ accepted[w] = <<>> /\ written[w] = <<>>
                              /\ queuedBytes[w] = 0 /\ pendingWrites[w] = 0
        /\ \A c \in Closers : closer[c].at = "idle"
        /\ usedBytes = 0
    BY DEF Init, At
  <1>3. \A h \in Hands : Hand(h).at \in {"get", "idle"}
    BY <1>2 DEF Hands, Hand
  <1>4. \A h \in Hands : ~Busy(h)
    BY <1>3 DEF Busy, Counting, Freeing
  <1>5. OwnersInv
    BY <1>2, <1>4 DEF OwnersInv
  <1>6. MembersExact
    BY <1>1, <1>5, Members
  <1>7. ASSUME NEW w \in Writers PROVE Held(w) = {} /\ Uncompleted(w) = {}
    <2>1. \A f : ~In(f, queue[w])
      BY <1>2, Empty
    <2>2. \A h \in Hands : \A f : ~Carries(h, w, f, Counting \cup Freeing)
      BY <1>4 DEF Carries, Busy
    <2>3. \A f : f \notin Held(w)
      BY <1>6, <2>1, <2>2, HeldIs
    <2> QED
      BY <2>3 DEF Held
  <1>8. PlaceInv
    <2>1. \A w \in Writers : \A f : ~In(f, queue[w]) /\ Once(f, queue[w])
      BY <1>2, Empty
    <2> QED
      BY <1>4, <1>7, <2>1 DEF PlaceInv
  <1>9. CountInv
    <2>1. AllHeld = {}
      BY <1>7 DEF AllHeld, Held
    <2>2. BytesOf({}) = {} /\ IsFiniteSet({}) /\ Cardinality({}) = 0
      BY FS_EmptySet DEF BytesOf
    <2>3. Bytes({}) = 0
      BY <2>2 DEF Bytes
    <2>4. CountersExact
      BY <1>2, <1>7, <2>2, <2>3 DEF CountersExact
    <2>5. BudgetExact
      <3>1. usedBytes = Bytes(AllHeld)
        BY <1>2, <2>1, <2>3
      <3>2. usedBytes <= MaxBytes
        BY <1>2, SocketWriterAssumption
      <3> QED
        BY <3>1, <3>2 DEF BudgetExact, AllHeld
    <2> QED
      BY <1>7, <2>1, <2>2, <2>4, <2>5 DEF CountInv
  <1>10. FlagInv
    <2>1. \A w \in Writers : ~In(Stop, queue[w])
      BY <1>2, Empty
    <2> QED
      BY <1>2, <2>1 DEF FlagInv
  <1>11. OrderInv
    <2> SUFFICES ASSUME NEW w \in Writers PROVE OrderAt(w)
      BY DEF OrderInv, OrderAt
    <2>1. Len(accepted[w]) = 0 /\ Len(written[w]) = 0 /\ Len(queue[w]) = 0
      BY <1>2
    <2>2. Taken(w) = 0
      BY <1>2, <2>1 DEF Taken, Writing, Failing
    <2> QED
      BY <1>2, <2>1, <2>2 DEF OrderAt, OrderOf
  <1> QED
    BY <1>1, <1>5, <1>8, <1>9, <1>10, <1>11 DEF Inv

\* The invariant holds in every state that the writers, their threads and the
\* threads that send, close and abort can reach.
THEOREM Invariance == Spec => []Inv
  <1>1. Inv /\ [Next]_vars => Inv'
    <2> SUFFICES ASSUME Inv, [Next]_vars PROVE Inv'
      OBVIOUS
    <2>1. TypeOK /\ OwnersInv /\ PlaceInv /\ CountInv /\ FlagInv /\ OrderInv
      BY DEF Inv
    <2>2. TypeOK' /\ OwnersInv'
      BY <2>1, TypeStep, OwnersStep
    <2>3. PlaceInv' /\ CountInv'
      BY <2>1, <2>2, PlaceStep, CountStep
    <2>4. FlagInv' /\ OrderInv'
      BY <2>1, FlagStep, OrderStep
    <2> QED
      BY <2>2, <2>3, <2>4 DEF Inv
  <1> QED
    BY InitInv, <1>1, PTL DEF Spec

\* Every variable keeps its shape.
THEOREM TypesKept == Spec => []TypeOK
  BY Invariance, PTL DEF Inv

\* The counters of every writer are those of the frames it has not completed.
THEOREM CountersKept == Spec => []CountersExact
  <1>1. Inv => CountersExact
    BY DEF Inv, CountInv
  <1> QED
    BY Invariance, <1>1, PTL

\* The budget holds what the writers hold, and never more than its limit: no
\* byte leaks and none is given back twice.
THEOREM BudgetKept == Spec => []BudgetExact
  <1>1. Inv => BudgetExact
    BY DEF Inv, CountInv
  <1> QED
    BY Invariance, <1>1, PTL

\* The socket sees what was accepted, in order. An open writer without a pending
\* write has written all of it, unless its thread is just about to report the one
\* frame that sendall failed on; and so has one that ended without a failure.
THEOREM NothingDropped == Spec => []NothingDroppedSilently
  <1>1. ASSUME Inv, NEW w \in Writers
        PROVE  /\ IsPrefix(written[w], accepted[w])
               /\ ~closed[w] /\ pendingWrites[w] = 0 =>
                     \/ written[w] = accepted[w]
                     \/ /\ thread[w].at \in {"releaseFail", "fail"}
                        /\ Len(accepted[w]) = Len(written[w]) + 1
               /\ thread[w].at = "ended" /\ ~failed[w] => written[w] = accepted[w]
    <2> DEFINE a == accepted[w]
               s == written[w]
    <2>1. /\ a \in Seq(Frames) /\ s \in Seq(Frames) /\ queue[w] \in Seq(Frames \cup {Stop})
          /\ OrderAt(w)
      BY <1>1 DEF Inv, TypeOK, OrderInv, OrderAt
    <2>2. Len(s) <= Len(a) /\ \A i \in 1..Len(s) : s[i] = a[i]
      BY <2>1 DEF OrderAt
    <2>3. Len(a) \in Nat /\ Len(s) \in Nat
      BY <2>1
    <2>4. IsPrefix(s, a)
      <3> HIDE DEF a, s
      <3>1. SubSeq(s, 1, Len(s)) = SubSeq(a, 1, Len(s))
        BY <2>1, <2>2, <2>3
      <3> QED
        BY <2>2, <3>1 DEF IsPrefix
    <2>5. ASSUME Len(s) = Len(a) PROVE s = a
      <3> HIDE DEF a, s
      <3> QED
        BY <2>1, <2>2, <2>5
    <2>6. ASSUME ~closed[w], pendingWrites[w] = 0
          PROVE  \/ s = a
                 \/ thread[w].at \in {"releaseFail", "fail"} /\ Len(a) = Len(s) + 1
      <3>1. Sound(w) /\ ~In(Stop, queue[w])
        BY <1>1, <2>6 DEF Inv, FlagInv, Sound
      <3>2. Uncompleted(w) = {}
        <4>1. IsFiniteSet(Uncompleted(w)) /\ Cardinality(Uncompleted(w)) = 0
          BY <1>1, <2>6 DEF Inv, CountInv, CountersExact
        <4> QED
          BY <4>1, FS_EmptySet
      <3>3. \A f \in Frames : ~In(f, queue[w])
        BY <1>1, <3>2, Members DEF Inv, MembersExact
      <3>4. Len(queue[w]) = 0
        BY <2>1, <3>1, <3>3 DEF In
      <3>5. thread[w].at \notin {"send", "unsent"}
        BY <1>1, <3>2 DEF Uncompleted, Inv, OwnersInv
      <3>6. Taken(w) <= Len(a) /\ Len(a) - Taken(w) <= 0
        BY <2>1, <3>1, <3>4 DEF OrderAt, OrderOf
      <3>7. CASE thread[w].at \in {"releaseFail", "fail"}
        <4>1. Taken(w) = Len(s) + 1
          BY <3>7 DEF Taken, Writing, Failing
        <4> QED
          BY <2>3, <3>6, <3>7, <4>1
      <3>8. CASE thread[w].at \notin {"releaseFail", "fail"}
        <4>1. thread[w].at \notin Writing
          BY <3>5, <3>8 DEF Writing, Failing
        <4>2. Taken(w) = Len(s)
          BY <2>3, <4>1 DEF Taken
        <4> QED
          BY <2>3, <2>5, <3>6, <4>2
      <3> QED
        BY <3>7, <3>8
    <2>7. ASSUME thread[w].at = "ended", ~failed[w] PROVE s = a
      <3>1. Taken(w) = Len(s) /\ Sound(w)
        BY <2>3, <2>7 DEF Taken, Sound, Writing, Failing
      <3>2. Len(s) = Len(a)
        BY <2>1, <2>7, <3>1 DEF OrderAt, OrderOf
      <3> QED
        BY <2>5, <3>2
    <2> QED
      BY <2>4, <2>6, <2>7
  <1>2. Inv => NothingDroppedSilently
    BY <1>1 DEF NothingDroppedSilently
  <1> QED
    BY Invariance, <1>2, PTL

=============================================================================
