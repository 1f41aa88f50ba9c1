---------------------------- MODULE ClientProofs ----------------------------
(***************************************************************************)
(* What holds of a client for any number of connections, any streams and   *)
(* any budget: the reservations are exact, the fields are those of the     *)
(* connection made last, the frames of a stream are handled once and in    *)
(* order, and a loss is complete when everything is quiet.                 *)
(***************************************************************************)
EXTENDS Client, FiniteSetTheorems, TLAPS

----------------------------------------------------------------------------
(* How the size of a set changes with the parts of one connection.         *)

\* The size of two sets that have nothing in common.
LEMMA SizeOfBoth ==
    ASSUME NEW S, IsFiniteSet(S), NEW T, IsFiniteSet(T), S \cap T = {}
    PROVE  /\ IsFiniteSet(S \cup T)
           /\ Cardinality(S \cup T) = Cardinality(S) + Cardinality(T)
  <1>1. /\ IsFiniteSet(S \cup T)
        /\ Cardinality(S \cup T) =
              Cardinality(S) + Cardinality(T) - Cardinality(S \cap T)
    BY FS_Union
  <1>2. Cardinality(S \cap T) = 0
    BY FS_EmptySet
  <1>3. Cardinality(S) \in Nat /\ Cardinality(T) \in Nat
    BY FS_CardinalityType
  <1> QED
    BY <1>1, <1>2, <1>3

\* The numbered parts of one thing.
LEMMA SizeOfParts ==
    ASSUME NEW x, NEW n \in Nat
    PROVE  IsFiniteSet({x} \X (1..n)) /\ Cardinality({x} \X (1..n)) = n
  <1>1. IsFiniteSet({x}) /\ Cardinality({x}) = 1
    BY FS_Singleton
  <1>2. IsFiniteSet(1..n) /\ Cardinality(1..n) = n
    BY FS_Interval
  <1>3. /\ IsFiniteSet({x} \X (1..n))
        /\ Cardinality({x} \X (1..n)) = Cardinality({x}) * Cardinality(1..n)
    BY <1>1, <1>2, FS_Product
  <1>4. 1 * n = n
    OBVIOUS
  <1> QED
    BY <1>1, <1>2, <1>3, <1>4, Zenon

----------------------------------------------------------------------------
(* Where the threads are.                                                  *)

FailPlaces   == {"sweep", "giveBack", "unset", "drain", "end"}
LossPlaces   == {"lost", "setLost"} \cup FailPlaces
HandlePlaces == {"count", "parse", "trim", "release"}
LoopPlaces   == {"loop", "recv"} \cup HandlePlaces
ReaderPlaces == {"off", "start", "ended"} \cup LoopPlaces \cup LossPlaces
AppPlaces    == {"idle", "establish", "handshake", "cleanup", "clear"} \cup LossPlaces

\* The thread t has set the flag of p and has not come to the end of the loss.
Failing(t, p) == thread[t].at \in FailPlaces /\ thread[t].proto = p

\* The reader of c is in its loop, or will be after a keepalive timeout.
Running(c) == \/ thread[c].at \in LoopPlaces
              \/ thread[c].at \in LossPlaces /\ thread[c].back = "loop"

----------------------------------------------------------------------------
(* The invariant: what holds however the connections overtake one another. *)

\* Where a thread can be and which protocol it works on there.
PlacesInv ==
    /\ \A c \in Conns :
          /\ thread[c].at \in ReaderPlaces
          /\ thread[c].back \in {"loop", "ended"}
          /\ thread[c].at \in {"off", "start"} => thread[c].proto = None
          /\ thread[c].at \in HandlePlaces \cup LossPlaces => thread[c].proto \in Conns
          /\ thread[c].proto \in Conns => /\ thread[c].proto <= created
                                          /\ thread[thread[c].proto].at # "off"
          /\ thread[c].at # "off" => c <= created
    /\ thread[App].at \in AppPlaces
    /\ thread[App].at # "idle" => created > 0 /\ thread[App].proto = created
    /\ thread[App].at \in LossPlaces => thread[App].back = "cleanup"
    /\ thread[App].at = "establish" => thread[created].at = "off" /\ ~connected
    /\ thread[App].at \in {"handshake"} \cup LossPlaces => thread[created].at # "off"

\* The fields of the client, and what their owners have done before.
FieldsInv ==
    /\ socket \in {None, created}
    /\ protocol # None => protocol <= created /\ thread[protocol].at # "off"
    /\ thread[App].at \notin {"establish", "cleanup", "clear"} =>
          protocol \in {None, created}
    /\ thread[App].at = "establish" => socket = created /\ link[created] # "none"
    /\ thread[App].at = "handshake" => protocol = created
    /\ connected => /\ created > 0 /\ socket = created /\ protocol = created
                    /\ link[created] # "none" /\ thread[created].at # "off"
    /\ \A c \in Conns :
          /\ c > created => /\ ~lost[c] /\ announced[c].connect = 0
                            /\ announced[c].disconnect = 0
          /\ thread[c].at = "off" => ~lost[c] /\ announced[c].connect = 0

\* The budget.
Swept(p) ==
    lost[p] => \/ reserved[p] <= late[p]
               \/ \E t \in Threads : thread[t].at = "sweep" /\ thread[t].proto = p
BudgetInv ==
    /\ IsFiniteSet(Held)
    /\ usedBytes = Cardinality(Held)
    /\ \A p \in Conns : Swept(p)

\* The flag of a connection and who is told of its loss.
FlagTells(c) ==
    lost[c] <=> \/ announced[c].disconnect > 0
                \/ c \in interrupted
                \/ \E t \in Threads : Failing(t, c)
LostOnce(c) ==
    ~raced[c] =>
       /\ announced[c].disconnect <= 1
       /\ \A t, u \in Threads : Failing(t, c) /\ Failing(u, c) => t = u
       /\ \A t \in Threads : Failing(t, c) => announced[c].disconnect = 0
LossInv ==
    \A c \in Conns :
        /\ FlagTells(c) /\ LostOnce(c)
        /\ announced[c].disconnect > 0 => link[c] = "closed"

----------------------------------------------------------------------------
(* The invariant: what holds as long as no connection was overtaken.       *)

\* Every reader works for its own connection.
OwnInv ==
    \A c \in Conns :
        /\ thread[c].proto \in {None, c}
        /\ thread[c].at = "start" => c = created /\ protocol \in {None, c}

\* A reader counts what it has read; the frames that it has parsed are in its
\* buffer, whose bytes are reserved.
BytesInv ==
    \A c \in Conns :
        /\ ~lost[c] => reserved[c] = Len(buffer[c])
        /\ thread[c].at = "count" => thread[c].n = Len(chunk[c])
        /\ thread[c].at \in {"parse", "trim"} => thread[c].n <= Len(buffer[c])

\* Nobody has heard of the connection, and nobody will.
Unheard(c) == /\ announced[c].connect = 0
              /\ thread[App].at \in {"establish", "handshake"} => c # created

\* How the reader of a connection comes to its end.
EndedInv ==
    \A c \in Conns :
        /\ thread[c].at = "ended" => lost[c] \/ thread[c].proto = None
        /\ thread[c].at \notin {"off", "start"} /\ thread[c].proto = None
              => lost[c] \/ Unheard(c)

\* How a connection that is no longer connected came to that.
ConnectedInv ==
    /\ connected /\ lost[created] =>
          \E t \in Threads : /\ thread[t].at \in {"sweep", "giveBack", "unset"}
                             /\ thread[t].proto = created
    /\ thread[App].at \in {"establish", "handshake"} => announced[created].connect = 0
    /\ thread[App].at \in {"cleanup", "clear"} =>
          lost[created] \/ announced[created].connect = 0
    /\ \A c \in Conns : thread[c].at = "start" /\ protocol = None =>
          lost[c] \/ Unheard(c)
    /\ \A c \in Conns :
          c = created /\ thread[c].at \notin {"off", "start"} /\ thread[c].proto = None
             => thread[c].at \in {"loop", "ended"} /\ protocol = None

\* A thread is going to fail every pending request.
SomeoneDrains ==
    \E t \in Threads : thread[t].at \in {"sweep", "giveBack", "unset", "drain"}

\* Whose request can be pending.
RequestInv ==
    \A c \in Conns : request[c] = "pending" =>
        \/ SomeoneDrains
        \/ /\ connected /\ c = created
           /\ thread[App].at \notin {"establish", "handshake"}
           /\ thread[App].at \in {"cleanup", "clear"} => lost[created]

\* All who work work for the last connection.
AloneInv ==
    /\ \A c \in Conns : c < created => c \notin AtWork
    /\ \A c \in Conns : failedBy[c] \in {None, c}
    /\ \A c \in Conns : request[c] = "pending" => c = created
    /\ protocol # None /\ ~connected => lost[protocol]

\* A place in the stream at which a frame begins or the last one ends.
Boundary(c, n) == \/ n = StreamLength(c)
                  \/ \E k \in 1..Len(Stream[c]) : Stream[c][k].start = n

\* The buffer has what was received and not consumed yet, but for the chunk that
\* is not in it; and the frames up to there were handled, those in front of the
\* offset included.
Chunk(c)    == Len(chunk[c])
Consumed(c) == received[c] - Chunk(c) - Len(buffer[c])
Offset(c)   == IF thread[c].at \in {"parse", "trim"} THEN thread[c].n ELSE 0
InStep(c) ==
    /\ Len(buffer[c]) + Chunk(c) <= received[c]
    /\ \A i \in 1..Len(buffer[c]) : buffer[c][i] = <<c, Consumed(c) + i>>
    /\ \A i \in 1..Chunk(c) : chunk[c][i] = <<c, Consumed(c) + Len(buffer[c]) + i>>
    /\ thread[c].at # "count" => chunk[c] = <<>>
    /\ Boundary(c, Consumed(c) + Offset(c))
    /\ Lists(handled[c], Complete(c, Consumed(c) + Offset(c)))
    /\ thread[c].at \notin {"count", "parse"} =>
          Complete(c, Consumed(c) + Offset(c)) = Complete(c, received[c])

FramesInv ==
    \A c \in Conns :
        /\ received[c] <= StreamLength(c)
        /\ \E n \in 0..received[c] : Lists(handled[c], Complete(c, n))
        /\ Running(c) => InStep(c)
        /\ thread[c].at \in {"off", "start"} =>
              /\ received[c] = 0 /\ buffer[c] = <<>> /\ chunk[c] = <<>>
              /\ handled[c] = <<>>

General == TypeOK /\ PlacesInv /\ FieldsInv /\ BudgetInv /\ LossInv
Strict  == OwnInv /\ BytesInv /\ EndedInv /\ ConnectedInv /\ RequestInv /\ AloneInv
              /\ FramesInv
Inv     == General /\ (overtaken = {} => Strict)

----------------------------------------------------------------------------
(* Types.                                                                  *)

ThreadRecords == [at : Places, proto : Conns \cup {None}, n : Nat,
                  back : {"cleanup", "loop", "ended"}]

\* What the constants say.
LEMMA Constants ==
    /\ MaxConns \in Nat \ {0} /\ MaxBytes \in Nat
    /\ App \in Threads /\ App \notin Conns /\ None \notin Threads
    /\ \A c \in Conns : c \in Threads /\ c # App /\ c # None /\ c \in Nat /\ c > 0
    /\ \A t \in Threads : t = App \/ t \in Conns
    /\ \A n \in Nat : n > 0 /\ n <= MaxConns => n \in Conns
  BY ClientAssumption DEF Threads, Conns

LEMMA Elements ==
    ASSUME NEW S, NEW s \in Seq(S)
    PROVE  Len(s) \in Nat /\ (\A i \in 1..Len(s) : s[i] \in S) /\ (s # <<>> => Len(s) > 0)
  OBVIOUS

FrameRecords == [start : Nat, size : Nat \ {0}, kind : {"good", "bad", "big"}]

LEMMA Streams ==
    ASSUME NEW c \in Conns
    PROVE  /\ Len(Stream[c]) \in Nat
           /\ \A k \in 1..Len(Stream[c]) :
                 /\ Stream[c][k].start \in Nat /\ Stream[c][k].size \in Nat \ {0}
                 /\ Stream[c][k].kind \in {"good", "bad", "big"}
                 /\ Behind(Stream[c][k]) = Stream[c][k].start + Stream[c][k].size
                 /\ Behind(Stream[c][k]) \in Nat
           /\ StreamLength(c) \in Nat
  <1>1. Stream[c] \in Seq(FrameRecords)
    BY ClientAssumption DEF FrameRecords
  <1>2. /\ Len(Stream[c]) \in Nat
        /\ \A k \in 1..Len(Stream[c]) : Stream[c][k] \in FrameRecords
        /\ Stream[c] # <<>> => Len(Stream[c]) > 0
    BY <1>1, Elements
  <1>3. Stream[c] # <<>> => Stream[c][Len(Stream[c])] \in FrameRecords
    BY <1>2
  <1>4. \A f \in FrameRecords : /\ f.start \in Nat /\ f.size \in Nat \ {0}
                                /\ f.kind \in {"good", "bad", "big"}
                                /\ Behind(f) \in Nat
    BY DEF FrameRecords, Behind
  <1> QED
    BY <1>2, <1>3, <1>4 DEF Behind, StreamLength

\* What MemoryBudget.release leaves, and what _release_inbound gives back.
LEMMA AtLeastZero ==
    ASSUME NEW n \in Int
    PROVE  Max({0, n}) = IF n < 0 THEN 0 ELSE n
  <1>1. CASE n < 0
    <2>1. /\ 0 \in {0, n} /\ \A y \in {0, n} : 0 >= y
          /\ \A m \in {0, n} : (\A y \in {0, n} : m >= y) => m = 0
      BY <1>1
    <2> QED
      BY <1>1, <2>1 DEF Max
  <1>2. CASE n >= 0
    <2>1. /\ n \in {0, n} /\ \A y \in {0, n} : n >= y
          /\ \A m \in {0, n} : (\A y \in {0, n} : m >= y) => m = n
      BY <1>2
    <2> QED
      BY <1>2, <2>1 DEF Max
  <1> QED
    BY <1>1, <1>2

LEMMA TheSmaller ==
    ASSUME NEW a \in Nat, NEW b \in Nat
    PROVE  Min({a, b}) = IF a < b THEN a ELSE b
  <1>1. CASE a < b
    <2>1. /\ a \in {a, b} /\ \A y \in {a, b} : a <= y
          /\ \A m \in {a, b} : (\A y \in {a, b} : m <= y) => m = a
      BY <1>1
    <2> QED
      BY <1>1, <2>1 DEF Min
  <1>2. CASE b <= a
    <2>1. /\ b \in {a, b} /\ \A y \in {a, b} : b <= y
          /\ \A m \in {a, b} : (\A y \in {a, b} : m <= y) => m = b
      BY <1>2
    <2> QED
      BY <1>2, <2>1 DEF Min
  <1> QED
    BY <1>1, <1>2

\* A frame that was found in a buffer is one of its stream.
LEMMA FoundFrame ==
    ASSUME NEW c \in Conns, NEW b, NEW n, b[n + 1][1] = c
    PROVE  FrameAt(b, n) = 0 \/ FrameAt(b, n) \in 1..Len(Stream[c])
  BY DEF FrameAt

\* What the loop may do at an offset: a frame it takes is in the buffer.
LEMMA ParseSteps ==
    ASSUME NEW b \in Seq(Conns \X (Nat \ {0})), NEW n \in Nat, NEW step \in Parse(b, n)
    PROVE  \/ step = Stop \/ step = Raise
           \/ \E size, k \in Nat : step = Take(size, k) /\ n + size <= Len(b)
  <1> DEFINE c == b[n + 1][1]
             k == FrameAt(b, n)
             f == Stream[c][k]
  <1>1. CASE Len(b) - n < 1
    BY <1>1 DEF Parse
  <1>2. CASE Len(b) - n >= 1
    <2>1. b[n + 1] \in Conns \X (Nat \ {0})
      BY <1>2
    <2>2. c \in Conns /\ Len(b) \in Nat
      BY <2>1
    <2>3. k = 0 \/ k \in 1..Len(Stream[c])
      BY <2>2, FoundFrame
    <2>4. k # 0 => k \in Nat /\ f.size \in Nat
      <3>1. /\ Len(Stream[c]) \in Nat
            /\ \A j \in 1..Len(Stream[c]) : Stream[c][j].size \in Nat \ {0}
        BY <2>2, Streams
      <3> QED
        BY <2>3, <3>1
    <2> HIDE DEF c, k, f
    <2>5. CASE k = 0
      <3>1. step \in {Stop, Raise, Take(Len(b) - n, 0)}
        BY <1>2, <2>5 DEF Parse, k, f, c
      <3>2. Len(b) - n \in Nat /\ 0 \in Nat /\ n + (Len(b) - n) <= Len(b)
        BY <1>2, <2>2
      <3> QED
        BY <3>1, <3>2
    <2>6. CASE k # 0
      <3>1. \/ step \in {Stop, Raise}
            \/ /\ ~(Len(b) - n < f.size)
               /\ step = Take(f.size, IF f.kind = "good" THEN k ELSE 0)
        BY <1>2, <2>6 DEF Parse, k, f, c
      <3>2. (IF f.kind = "good" THEN k ELSE 0) \in Nat
        BY <2>4, <2>6
      <3>3. ~(Len(b) - n < f.size) => n + f.size <= Len(b)
        BY <2>2, <2>4, <2>6
      <3> QED
        BY <3>1, <3>2, <3>3, <2>4, <2>6
    <2> QED
      BY <2>5, <2>6
  <1> QED
    BY <1>1, <1>2

\* Only the thread t moves, and where it is then.
To(t, place, p, n, back) ==
    /\ thread'[t] = At(place, p, n, back)
    /\ \A u \in Threads : u # t => thread'[u] = thread[u]

PutTo(t, r) == thread' = [thread EXCEPT ![t] = r]

LEMMA Put ==
    ASSUME TypeOK, NEW t \in Threads, NEW place, NEW p, NEW n, NEW back,
           PutTo(t, At(place, p, n, back))
    PROVE  /\ To(t, place, p, n, back)
           /\ place \in Places /\ p \in Conns \cup {None} /\ n \in Nat
              /\ back \in {"cleanup", "loop", "ended"}
                 => thread' \in [Threads -> ThreadRecords]
  <1>1. thread \in [Threads -> ThreadRecords]
    BY DEF TypeOK, ThreadRecords
  <1>2. \A r : thread' = [thread EXCEPT ![t] = r] =>
           /\ thread'[t] = r
           /\ \A u \in Threads : u # t => thread'[u] = thread[u]
           /\ r \in ThreadRecords => thread' \in [Threads -> ThreadRecords]
    BY <1>1
  <1>3. ASSUME place \in Places, p \in Conns \cup {None}, n \in Nat,
               back \in {"cleanup", "loop", "ended"}
        PROVE  At(place, p, n, back) \in ThreadRecords
    BY <1>3 DEF At, ThreadRecords
  <1>4. To(t, place, p, n, back)
    BY <1>2 DEF To, PutTo
  <1>5. ASSUME place \in Places, p \in Conns \cup {None}, n \in Nat,
               back \in {"cleanup", "loop", "ended"}
        PROVE  thread' \in [Threads -> ThreadRecords]
    BY <1>2, <1>3, <1>5 DEF PutTo
  <1> QED
    BY <1>4, <1>5

\* How a thread moves in each of the ways the actions use.
LEMMA Moves ==
    ASSUME TypeOK, NEW t \in Threads
    PROVE  /\ \A place : Goto(t, place) =>
                 PutTo(t, At(place, thread[t].proto, thread[t].n, thread[t].back))
           /\ \A place, n : GotoWith(t, place, n) =>
                 PutTo(t, At(place, thread[t].proto, n, thread[t].back))
           /\ \A p, back : Call(t, p, back) => PutTo(t, At("lost", p, 0, back))
  <1>1. thread \in [Threads -> ThreadRecords] /\ thread[t] \in ThreadRecords
    BY DEF TypeOK, ThreadRecords
  <1>2. \A place : [thread[t] EXCEPT !.at = place]
                      = At(place, thread[t].proto, thread[t].n, thread[t].back)
    BY <1>1 DEF At, ThreadRecords
  <1>3. \A place, n : [[thread[t] EXCEPT !.at = place] EXCEPT !.n = n]
                         = At(place, thread[t].proto, n, thread[t].back)
    <2> SUFFICES ASSUME NEW place, NEW n
                 PROVE  [[thread[t] EXCEPT !.at = place] EXCEPT !.n = n]
                           = At(place, thread[t].proto, n, thread[t].back)
      OBVIOUS
    <2>1. [[thread[t] EXCEPT !.at = place] EXCEPT !.n = n]
             = [At(place, thread[t].proto, thread[t].n, thread[t].back) EXCEPT !.n = n]
      BY <1>2
    <2> QED
      BY <2>1 DEF At
  <1>4. ASSUME NEW place, Goto(t, place)
        PROVE  PutTo(t, At(place, thread[t].proto, thread[t].n, thread[t].back))
    BY <1>1, <1>2, <1>4 DEF Goto, PutTo
  <1>5. ASSUME NEW place, NEW n, GotoWith(t, place, n)
        PROVE  PutTo(t, At(place, thread[t].proto, n, thread[t].back))
    <2>1. thread' = [thread EXCEPT ![t] = [[thread[t] EXCEPT !.at = place] EXCEPT !.n = n]]
      BY <1>1, <1>5 DEF GotoWith
    <2> QED
      BY <1>3, <2>1 DEF PutTo
  <1>6. ASSUME NEW p, NEW back, Call(t, p, back) PROVE PutTo(t, At("lost", p, 0, back))
    BY <1>6 DEF Call, PutTo
  <1> QED
    BY <1>4, <1>5, <1>6

\* A CONNECT, or a DISCONNECT, more for p.
Told(p, x, y) ==
    /\ announced'[p].connect = announced[p].connect + x
    /\ announced'[p].disconnect = announced[p].disconnect + y
    /\ \A d \in Conns : d # p => announced'[d] = announced[d]

LEMMA Tells ==
    ASSUME TypeOK, NEW p \in Conns,
           \/ announced' = [announced EXCEPT ![p].connect = @ + 1]
           \/ announced' = [announced EXCEPT ![p].disconnect = @ + 1]
    PROVE  /\ announced' = [announced EXCEPT ![p].connect = @ + 1] => Told(p, 1, 0)
           /\ announced' = [announced EXCEPT ![p].disconnect = @ + 1] => Told(p, 0, 1)
           /\ announced' \in [Conns -> [connect : Nat, disconnect : Nat]]
  <1> DEFINE R == [connect : Nat, disconnect : Nat]
             a == announced[p]
  <1>1. announced \in [Conns -> R] /\ a \in R
    BY DEF TypeOK
  <1>2. /\ a.connect \in Nat /\ a.disconnect \in Nat
        /\ [a EXCEPT !.connect = a.connect + 1]
              = [connect |-> a.connect + 1, disconnect |-> a.disconnect]
        /\ [a EXCEPT !.disconnect = a.disconnect + 1]
              = [connect |-> a.connect, disconnect |-> a.disconnect + 1]
    BY <1>1
  <1>3. \A x, y \in Nat : [connect |-> x, disconnect |-> y] \in R
    OBVIOUS
  <1> DEFINE b == [connect |-> a.connect + 1, disconnect |-> a.disconnect]
             d == [connect |-> a.connect, disconnect |-> a.disconnect + 1]
  <1>4. /\ b \in R /\ b.connect = a.connect + 1 /\ b.disconnect = a.disconnect
        /\ d \in R /\ d.connect = a.connect /\ d.disconnect = a.disconnect + 1
    BY <1>2, <1>3
  <1>5. ASSUME announced' = [announced EXCEPT ![p].connect = @ + 1]
        PROVE  announced' = [announced EXCEPT ![p] = b]
    BY <1>1, <1>2, <1>5
  <1>6. ASSUME announced' = [announced EXCEPT ![p].disconnect = @ + 1]
        PROVE  announced' = [announced EXCEPT ![p] = d]
    BY <1>1, <1>2, <1>6
  <1>7. /\ a.connect + 0 = a.connect /\ a.disconnect + 0 = a.disconnect
    BY <1>2
  <1> HIDE DEF b, d, R
  <1>8. ASSUME announced' = [announced EXCEPT ![p] = b]
        PROVE  Told(p, 1, 0) /\ announced' \in [Conns -> R]
    BY <1>1, <1>4, <1>7, <1>8 DEF Told
  <1>9. ASSUME announced' = [announced EXCEPT ![p] = d]
        PROVE  Told(p, 0, 1) /\ announced' \in [Conns -> R]
    BY <1>1, <1>4, <1>7, <1>9 DEF Told
  <1> QED
    BY <1>5, <1>6, <1>8, <1>9 DEF R

\* Every action keeps the shape of every variable. A thread that handles the
\* loss of a connection, or a reader at work, has one.
WorksFor == /\ \A t \in Threads : thread[t].at \in LossPlaces => thread[t].proto \in Conns
            /\ \A c \in Conns : thread[c].at \in HandlePlaces => thread[c].proto \in Conns
            /\ thread[App].at \in {"establish", "handshake"} => thread[App].proto \in Conns
            /\ thread[App].at \in LossPlaces => thread[App].back = "cleanup"
            /\ \A c \in Conns : thread[c].back \in {"loop", "ended"}

LEMMA TypeApp ==
    ASSUME TypeOK, WorksFor,
           OpenSocket \/ Establish \/ EndHandshake \/ Disconnect \/ CleanupClose
              \/ CleanupClear \/ SendRequest
    PROVE  TypeOK'
  <1>0. /\ {"establish", "cleanup", "handshake", "clear", "idle", "start", "lost"}
              \subseteq Places
        /\ App \in Threads /\ MaxConns \in Nat /\ Conns \subseteq Threads
    BY Constants DEF Places
  <1> USE <1>0
  <1>1. CASE OpenSocket
    <2>1. created + 1 \in Conns /\ created + 1 \in 0..MaxConns /\ 0 \in Nat
      BY <1>1 DEF OpenSocket, TypeOK, Conns
    <2>2. \/ PutTo(App, At("establish", created + 1, 0, "cleanup"))
          \/ PutTo(App, At("cleanup", created + 1, 0, "cleanup"))
      BY <1>1 DEF OpenSocket, PutTo
    <2>3. thread' \in [Threads -> ThreadRecords]
      BY <2>1, <2>2, Put
    <2>4. overtaken' \subseteq Conns
      BY <1>1 DEF OpenSocket, AtWork, TypeOK
    <2>5. link' \in [Conns -> {"none", "up", "eof", "closed"}]
      BY <1>1, <2>1 DEF OpenSocket, TypeOK
    <2> QED
      BY <1>1, <2>1, <2>3, <2>4, <2>5
         DEF OpenSocket, TypeOK, inbound, events, ThreadRecords
  <1>2. CASE Establish
    <2> DEFINE c == thread[App].proto
               a == [thread EXCEPT ![App] = At("handshake", thread[App].proto,
                        thread[App].n, thread[App].back)]
    <2>1. c \in Conns
      BY <1>2 DEF Establish, WorksFor
    <2>2. thread \in [Threads -> ThreadRecords]
      BY DEF TypeOK, ThreadRecords
    <2>3. thread' \in [Threads -> ThreadRecords]
      BY <1>2, <2>1, <2>2 DEF Establish, ThreadRecords
    <2> QED
      BY <1>2, <2>1, <2>3
         DEF Establish, TypeOK, network, inbound, events, ThreadRecords
  <1>3. CASE EndHandshake
    <2>1. \/ Goto(App, "idle") \/ Goto(App, "cleanup")
      BY <1>3 DEF EndHandshake
    <2>2. /\ thread[App].proto \in Conns /\ thread[App].n \in Nat
          /\ thread[App].back \in {"cleanup", "loop", "ended"}
      BY <1>3 DEF EndHandshake, WorksFor, TypeOK
    <2>3. thread' \in [Threads -> ThreadRecords]
      BY <2>1, <2>2, Moves, Put
    <2>4. announced' \in [Conns -> [connect : Nat, disconnect : Nat]]
      BY <1>3, <2>2, Tells DEF EndHandshake, TypeOK
    <2> QED
      BY <1>3, <2>3, <2>4
         DEF EndHandshake, TypeOK, fields, network, inbound, ThreadRecords
  <1>4. CASE Disconnect
    <2>1. protocol \in Conns /\ Call(App, protocol, "cleanup") /\ 0 \in Nat
      BY <1>4 DEF Disconnect, TypeOK
    <2>2. thread' \in [Threads -> ThreadRecords]
      BY <2>1, Moves, Put
    <2> QED
      BY <1>4, <2>2
         DEF Disconnect, TypeOK, fields, network, inbound, events, ThreadRecords
  <1>5. CASE CleanupClose
    <2>1. /\ thread[App].proto \in Conns \cup {None} /\ thread[App].n \in Nat
          /\ thread[App].back \in {"cleanup", "loop", "ended"} /\ Goto(App, "clear")
      BY <1>5 DEF CleanupClose, TypeOK
    <2>2. thread' \in [Threads -> ThreadRecords]
      BY <2>1, Moves, Put
    <2> QED
      BY <1>5, <2>2
         DEF CleanupClose, TypeOK, fields, inbound, events, ThreadRecords
  <1>6. CASE CleanupClear
    <2>1. /\ thread[App].proto \in Conns \cup {None} /\ thread[App].n \in Nat
          /\ thread[App].back \in {"cleanup", "loop", "ended"} /\ Goto(App, "idle")
      BY <1>6 DEF CleanupClear, TypeOK
    <2>2. thread' \in [Threads -> ThreadRecords]
      BY <2>1, Moves, Put
    <2> QED
      BY <1>6, <2>2
         DEF CleanupClear, TypeOK, network, inbound, events, ThreadRecords
  <1>7. CASE SendRequest
    BY <1>7 DEF SendRequest, TypeOK, fields, network, inbound, events
  <1> QED
    BY <1>1, <1>2, <1>3, <1>4, <1>5, <1>6, <1>7

LEMMA LeaveTypes ==
    ASSUME TypeOK, NEW t \in Threads, Leave(t)
    PROVE  thread' \in [Threads -> ThreadRecords]
  <1>1. /\ thread[t].proto \in Conns \cup {None} /\ thread[t].n \in Nat /\ 0 \in Nat
        /\ thread[t].back \in {"cleanup", "loop", "ended"}
        /\ "ended" \in Places /\ "lost" \in Places
    BY DEF TypeOK, Places
  <1>2. Goto(t, "ended") \/ Call(t, thread[t].proto, "ended")
    BY DEF Leave
  <1> QED
    BY <1>1, <1>2, Moves, Put

LEMMA TypeGiveBack ==
    ASSUME TypeOK, NEW t \in Threads, NEW place \in Places, GiveBack(t, place)
    PROVE  TypeOK'
  <1>1. /\ thread[t].proto \in Conns \cup {None} /\ thread[t].n \in Nat /\ 0 \in Nat
        /\ thread[t].back \in {"cleanup", "loop", "ended"} /\ GotoWith(t, place, 0)
    BY DEF TypeOK, GiveBack
  <1>2. thread' \in [Threads -> ThreadRecords]
    BY <1>1, Moves, Put
  <1>3. usedBytes' \in 0..MaxBytes
    <2>1. usedBytes \in Nat /\ usedBytes <= MaxBytes /\ MaxBytes \in Nat
      BY Constants DEF TypeOK
    <2>2. usedBytes - thread[t].n \in Int
      BY <1>1, <2>1
    <2>3. usedBytes' = IF usedBytes - thread[t].n < 0 THEN 0 ELSE usedBytes - thread[t].n
      BY <2>2, AtLeastZero DEF GiveBack
    <2> QED
      BY <1>1, <2>1, <2>3
  <1> QED
    BY <1>2, <1>3 DEF GiveBack, TypeOK, fields, network, events, ThreadRecords

LEMMA TypeReader ==
    ASSUME TypeOK, WorksFor, NEW t \in Conns,
           \/ ReaderStart(t) \/ LoopTest(t) \/ RecvEnds(t) \/ KeepaliveTimeout(t)
           \/ RecvTimeout(t) \/ (\E n \in 1..MaxBytes : Recv(t, n))
           \/ CountInbound(t) \/ ParseFrame(t) \/ Trim(t)
    PROVE  TypeOK'
  <1>0. /\ {"loop", "recv", "count", "parse", "trim", "release", "ended", "lost"} \subseteq Places
        /\ t \in Threads /\ MaxBytes \in Nat /\ Conns \subseteq Threads
        /\ thread[t].proto \in Conns \cup {None} /\ thread[t].n \in Nat /\ 0 \in Nat
        /\ thread[t].back \in {"cleanup", "loop", "ended"}
    BY Constants DEF Places, TypeOK
  <1> USE <1>0
  <1>1. CASE ReaderStart(t)
    <2>1. PutTo(t, At("loop", protocol, 0, "ended")) /\ protocol \in Conns \cup {None}
      BY <1>1 DEF ReaderStart, PutTo, TypeOK
    <2>2. thread' \in [Threads -> ThreadRecords]
      BY <2>1, Put
    <2> QED
      BY <1>1, <2>2
         DEF ReaderStart, TypeOK, fields, network, inbound, events, ThreadRecords
  <1>2. CASE LoopTest(t)
    <2>1. Goto(t, "recv") \/ Leave(t)
      BY <1>2 DEF LoopTest
    <2>2. thread' \in [Threads -> ThreadRecords]
      BY <2>1, Moves, Put, LeaveTypes
    <2> QED
      BY <1>2, <2>2
         DEF LoopTest, TypeOK, fields, network, inbound, events, ThreadRecords
  <1>3. CASE RecvEnds(t)
    <2>2. thread' \in [Threads -> ThreadRecords]
      BY <1>3, LeaveTypes DEF RecvEnds
    <2> QED
      BY <1>3, <2>2
         DEF RecvEnds, TypeOK, fields, network, inbound, events, ThreadRecords
  <1>9. CASE RecvTimeout(t)
    <2>1. Goto(t, "loop") \/ Leave(t)
      BY <1>9 DEF RecvTimeout
    <2>2. thread' \in [Threads -> ThreadRecords]
      BY <2>1, Moves, Put, LeaveTypes
    <2> QED
      BY <1>9, <2>2
         DEF RecvTimeout, TypeOK, fields, network, inbound, events, ThreadRecords
  <1>4. CASE KeepaliveTimeout(t)
    <2>1. thread[t].proto \in Conns /\ Call(t, thread[t].proto, "loop")
      BY <1>4 DEF KeepaliveTimeout
    <2>2. thread' \in [Threads -> ThreadRecords]
      BY <2>1, Moves, Put
    <2> QED
      BY <1>4, <2>2
         DEF KeepaliveTimeout, TypeOK, fields, network, inbound, events, ThreadRecords
  <1>5. ASSUME NEW n \in 1..MaxBytes, Recv(t, n) PROVE TypeOK'
    <2> DEFINE s == socket
               p == thread[t].proto
               bytes == [i \in 1..n |-> <<s, received[s] + i>>]
    <2>1. s \in Conns /\ n \in Nat /\ received[s] \in Nat
      BY <1>5 DEF Recv, TypeOK
    <2>2. received' \in [Conns -> Nat]
      <3>1. received' = [received EXCEPT ![s] = received[s] + n]
        BY <1>5 DEF Recv
      <3>2. received \in [Conns -> Nat]
        BY DEF TypeOK
      <3>3. received[s] + n \in Nat
        BY <2>1
      <3> HIDE DEF s
      <3> QED
        BY <2>1, <3>1, <3>2, <3>3
    <2>3. CASE p = None \/ usedBytes + n > MaxBytes
      <3>1. thread' \in [Threads -> ThreadRecords]
        BY <1>5, <2>3, LeaveTypes DEF Recv
      <3> QED
        BY <1>5, <2>2, <2>3, <3>1 DEF Recv, TypeOK, fields, events, ThreadRecords
    <2>4. CASE ~(p = None \/ usedBytes + n > MaxBytes)
      <3>1. GotoWith(t, "count", n)
        BY <1>5, <2>4 DEF Recv
      <3>2. thread' \in [Threads -> ThreadRecords]
        BY <2>1, <3>1, Moves, Put
      <3>3. usedBytes' \in 0..MaxBytes
        BY <1>5, <2>1, <2>4 DEF Recv, TypeOK
      <3>4. bytes \in Seq(Conns \X (Nat \ {0}))
        <4>1. \A i \in 1..n : <<s, received[s] + i>> \in Conns \X (Nat \ {0})
          BY <2>1
        <4> HIDE DEF s
        <4>2. ASSUME NEW S, NEW m \in Nat, NEW f(_), \A i \in 1..m : f(i) \in S
              PROVE  [i \in 1..m |-> f(i)] \in Seq(S)
          BY <4>2
        <4> QED
          BY <2>1, <4>1
      <3>5. chunk' = [chunk EXCEPT ![t] = bytes]
        BY <1>5, <2>4 DEF Recv
      <3>6. chunk' \in [Conns -> Seq(Conns \X (Nat \ {0}))]
        <4> HIDE DEF bytes
        <4> QED
          BY <3>4, <3>5 DEF TypeOK
      <3> QED
        BY <1>5, <2>2, <3>2, <3>3, <3>6 DEF Recv, TypeOK, fields, events, ThreadRecords
    <2> QED
      BY <2>3, <2>4
  <1>6. CASE CountInbound(t)
    <2>1. thread[t].proto \in Conns /\ GotoWith(t, "parse", 0)
      BY <1>6 DEF CountInbound, WorksFor, HandlePlaces
    <2>2. thread' \in [Threads -> ThreadRecords]
      BY <2>1, Moves, Put
    <2>3. reserved' \in [Conns -> Nat] /\ late' \in [Conns -> Nat]
      <3> DEFINE p == thread[t].proto
                 m == thread[t].n
      <3>1. /\ reserved' = [reserved EXCEPT ![p] = reserved[p] + m]
            /\ late' = [late EXCEPT ![p] = IF lost[p] THEN late[p] + m ELSE late[p]]
        BY <1>6 DEF CountInbound
      <3>2. p \in Conns /\ reserved \in [Conns -> Nat] /\ late \in [Conns -> Nat]
        BY <2>1 DEF TypeOK
      <3>3. reserved[p] \in Nat /\ late[p] \in Nat /\ m \in Nat
        BY <3>2
      <3>4. /\ reserved[p] + m \in Nat
            /\ (IF lost[p] THEN late[p] + m ELSE late[p]) \in Nat
        BY <3>3
      <3> HIDE DEF p, m
      <3> QED
        BY <3>1, <3>2, <3>4
    <2>4. buffer' \in [Conns -> Seq(Conns \X (Nat \ {0}))]
      <3> DEFINE S == Conns \X (Nat \ {0})
                 p == thread[t].proto
      <3>1. /\ p \in Conns /\ buffer \in [Conns -> Seq(S)] /\ chunk \in [Conns -> Seq(S)]
            /\ buffer' = [buffer EXCEPT ![p] = buffer[p] \o chunk[t]]
        BY <1>6, <2>1 DEF CountInbound, TypeOK
      <3> HIDE DEF S, p
      <3>2. buffer[p] \o chunk[t] \in Seq(S)
        BY <3>1
      <3>3. buffer' \in [Conns -> Seq(S)]
        BY <3>1, <3>2
      <3> QED
        BY <3>3 DEF S
    <2>5. chunk' \in [Conns -> Seq(Conns \X (Nat \ {0}))]
      <3> DEFINE S == Conns \X (Nat \ {0})
      <3>1. chunk \in [Conns -> Seq(S)] /\ chunk' = [chunk EXCEPT ![t] = <<>>]
        BY <1>6 DEF CountInbound, TypeOK
      <3> HIDE DEF S
      <3>2. <<>> \in Seq(S)
        OBVIOUS
      <3>3. chunk' \in [Conns -> Seq(S)]
        BY <3>1, <3>2
      <3> QED
        BY <3>3 DEF S
    <2> QED
      BY <1>6, <2>2, <2>3, <2>4, <2>5
         DEF CountInbound, TypeOK, fields, network, events, ThreadRecords
  <1>7. CASE ParseFrame(t)
    <2> DEFINE p == thread[t].proto
               n == thread[t].n
    <2>1. p \in Conns
      BY <1>7 DEF ParseFrame, WorksFor, HandlePlaces
    <2>2. buffer[p] \in Seq(Conns \X (Nat \ {0})) /\ handled[p] \in Seq(Nat \ {0})
      BY <2>1 DEF TypeOK
    <2>3. PICK step \in Parse(buffer[p], n) :
            /\ CASE step.do = "stop"  -> Goto(t, "trim")
                 [] step.do = "raise" -> Leave(t)
                 [] step.do = "take"  -> GotoWith(t, "parse", n + step.size)
            /\ handled' = IF step.frame = 0 THEN handled
                          ELSE [handled EXCEPT ![p] = Append(@, step.frame)]
      BY <1>7 DEF ParseFrame
    <2>4. \/ step = Stop \/ step = Raise
          \/ \E size, k \in Nat : step = Take(size, k) /\ n + size <= Len(buffer[p])
      BY <2>1, <2>2, <2>3, ParseSteps
    <2>5. \/ step.do = "stop" /\ step.frame = 0 /\ Goto(t, "trim")
          \/ step.do = "raise" /\ step.frame = 0 /\ Leave(t)
          \/ step.size \in Nat /\ step.frame \in Nat /\ GotoWith(t, "parse", n + step.size)
      <3>1. CASE step = Stop
        BY <2>3, <3>1 DEF Stop
      <3>2. CASE step = Raise
        BY <2>3, <3>2 DEF Raise
      <3>3. ASSUME NEW size \in Nat, NEW k \in Nat, step = Take(size, k)
            PROVE  step.size \in Nat /\ step.frame \in Nat
                   /\ GotoWith(t, "parse", n + step.size)
        BY <2>3, <3>3 DEF Take
      <3> QED
        BY <2>4, <3>1, <3>2, <3>3
    <2>6. step.frame \in Nat
      BY <2>5
    <2>7. thread' \in [Threads -> ThreadRecords]
      BY <2>5, Moves, Put, LeaveTypes
    <2>8. handled' \in [Conns -> Seq(Nat \ {0})]
      <3>1. step.frame # 0 => Append(handled[p], step.frame) \in Seq(Nat \ {0})
        BY <2>2, <2>6
      <3> QED
        BY <2>1, <2>3, <3>1 DEF TypeOK
    <2> QED
      BY <1>7, <2>7, <2>8
         DEF ParseFrame, TypeOK, fields, network, inbound, events, ThreadRecords
  <1>8. CASE Trim(t)
    <2> DEFINE p == thread[t].proto
               m == thread[t].n
               n == Min({thread[t].n, reserved[p]})
    <2>1. p \in Conns /\ GotoWith(t, "release", n)
      BY <1>8 DEF Trim, WorksFor, HandlePlaces
    <2>2. /\ buffer[p] \in Seq(Conns \X (Nat \ {0})) /\ reserved[p] \in Nat
      BY <2>1 DEF TypeOK
    <2>3. n \in Nat /\ reserved[p] - n \in Nat
      <3>1. n = IF m < reserved[p] THEN m ELSE reserved[p]
        BY <2>2, TheSmaller
      <3> QED
        BY <2>2, <3>1
    <2>5. SubSeq(buffer[p], m + 1, Len(buffer[p])) \in Seq(Conns \X (Nat \ {0}))
      <3> DEFINE S == Conns \X (Nat \ {0})
      <3>1. buffer[p] \in Seq(S)
        BY <2>2
      <3> HIDE DEF S
      <3>2. SubSeq(buffer[p], m + 1, Len(buffer[p])) \in Seq(S)
        BY <3>1
      <3> QED
        BY <3>2 DEF S
    <2>6. thread' \in [Threads -> ThreadRecords]
      <3> HIDE DEF n
      <3> QED
        BY <2>1, <2>3, Moves, Put
    <2>7. /\ buffer' = [buffer EXCEPT ![p] = SubSeq(buffer[p], m + 1, Len(buffer[p]))]
          /\ reserved' = [reserved EXCEPT ![p] = reserved[p] - n]
      BY <1>8 DEF Trim
    <2> HIDE DEF n
    <2>8. reserved' \in [Conns -> Nat]
      BY <2>1, <2>3, <2>7 DEF TypeOK
    <2>9. buffer' \in [Conns -> Seq(Conns \X (Nat \ {0}))]
      <3> DEFINE b == SubSeq(buffer[p], m + 1, Len(buffer[p]))
                 S == Seq(Conns \X (Nat \ {0}))
      <3>1. b \in S /\ buffer \in [Conns -> S] /\ buffer' = [buffer EXCEPT ![p] = b]
        BY <2>5, <2>7 DEF TypeOK
      <3> HIDE DEF b, S
      <3>2. buffer' \in [Conns -> S]
        BY <2>1, <3>1
      <3> QED
        BY <3>2 DEF S
    <2> QED
      BY <1>8, <2>6, <2>8, <2>9
         DEF Trim, TypeOK, fields, network, events, ThreadRecords
  <1> QED
    BY <1>1, <1>2, <1>3, <1>4, <1>5, <1>6, <1>7, <1>8, <1>9

\* The requests that a loss fails, and what becomes of the rest.
Requests == {"none", "pending", "failed", "cancelled", "stuck"}

LEMMA DrainSettles ==
    ASSUME TypeOK, NEW t \in Threads, DrainRequests(t)
    PROVE  \E D \in SUBSET Conns, rest \in [Conns -> Requests] :
             /\ request' = [c \in Conns |-> IF c \in D THEN "failed" ELSE rest[c]]
             /\ failedBy' = [c \in Conns |-> IF c \in D THEN thread[t].proto
                                             ELSE failedBy[c]]
             /\ interrupted' \in {interrupted, interrupted \cup {thread[t].proto}}
  <1> DEFINE Pending == {c \in Conns : request[c] = "pending"}
             Rest(c) == [d \in Conns |-> IF d = c THEN "cancelled"
                                         ELSE IF d \in Pending THEN "stuck"
                                         ELSE request[d]]
             Settle(D, rest) ==
               /\ request' = [c \in Conns |-> IF c \in D THEN "failed" ELSE rest[c]]
               /\ failedBy' = [c \in Conns |-> IF c \in D THEN thread[t].proto
                                               ELSE failedBy[c]]
  <1>1. request \in [Conns -> Requests]
    BY DEF TypeOK, Requests
  <1>2. \/ Settle(Pending, request) /\ interrupted' = interrupted
        \/ \E c \in Pending : \E D \in SUBSET (Pending \ {c}) :
              Settle(D, Rest(c)) /\ interrupted' = interrupted \cup {thread[t].proto}
    BY DEF DrainRequests
  <1>3. \A c : Rest(c) \in [Conns -> Requests]
    BY <1>1 DEF Requests
  <1>4. Pending \in SUBSET Conns
    OBVIOUS
  <1> HIDE DEF Pending, Rest
  <1>5. CASE Settle(Pending, request) /\ interrupted' = interrupted
    BY <1>1, <1>4, <1>5
  <1>6. ASSUME NEW c \in Pending, NEW D \in SUBSET (Pending \ {c}),
               Settle(D, Rest(c)), interrupted' = interrupted \cup {thread[t].proto}
        PROVE  \E E \in SUBSET Conns, rest \in [Conns -> Requests] :
                  /\ Settle(E, rest)
                  /\ interrupted' \in {interrupted, interrupted \cup {thread[t].proto}}
    BY <1>3, <1>4, <1>6
  <1> QED
    BY <1>2, <1>5, <1>6

LEMMA TypeLoss ==
    ASSUME TypeOK, WorksFor, NEW t \in Threads, Loss(t)
    PROVE  TypeOK'
  <1>0. /\ {"lost", "setLost", "sweep", "giveBack", "unset", "drain", "end", "loop", "ended",
            "cleanup", "idle"} \subseteq Places
        /\ MaxBytes \in Nat /\ thread[t].n \in Nat
        /\ thread[t].back \in {"cleanup", "loop", "ended"} /\ thread[t].back \in Places
    BY Constants DEF Places, TypeOK
  <1>1. thread[t].proto \in Conns
    BY DEF Loss, LossTest, LossSet, Sweep, ReleaseAll, Unset, DrainRequests, EndLoss,
           WorksFor, LossPlaces, FailPlaces
  <1> USE <1>0, <1>1
  <1>2. ASSUME NEW place \in Places, Goto(t, place)
        PROVE  thread' \in [Threads -> ThreadRecords]
    BY <1>2, Moves, Put
  <1>4. CASE LossTest(t)
    BY <1>2, <1>4 DEF LossTest, TypeOK, fields, network, inbound, events, ThreadRecords
  <1>5. CASE LossSet(t)
    <2>1. lost' \in [Conns -> BOOLEAN] /\ raced' \in [Conns -> BOOLEAN]
      BY <1>5 DEF LossSet, TypeOK
    <2> QED
      BY <1>2, <1>5, <2>1 DEF LossSet, TypeOK, fields, network, inbound, ThreadRecords
  <1>6. CASE Sweep(t)
    <2>1. reserved' \in [Conns -> Nat] /\ late' \in [Conns -> Nat]
      BY <1>6 DEF Sweep, TypeOK
    <2>2. GotoWith(t, "giveBack", reserved[thread[t].proto])
          /\ reserved[thread[t].proto] \in Nat
      BY <1>6 DEF Sweep, TypeOK
    <2>3. thread' \in [Threads -> ThreadRecords]
      BY <2>2, Moves, Put
    <2> QED
      BY <1>6, <2>1, <2>3 DEF Sweep, TypeOK, fields, network, events, ThreadRecords
  <1>7. CASE ReleaseAll(t)
    BY <1>7, TypeGiveBack DEF ReleaseAll
  <1>8. CASE Unset(t)
    BY <1>2, <1>8 DEF Unset, TypeOK, network, inbound, events, ThreadRecords
  <1>9. CASE DrainRequests(t)
    <2>1. Goto(t, "end") \/ Interrupt(t)
      BY <1>9 DEF DrainRequests
    <2>2. ASSUME Interrupt(t) PROVE thread' \in [Threads -> ThreadRecords]
      <3>1. Goto(t, "idle") \/ Goto(t, "ended") \/ Leave(t)
        BY <2>2 DEF Interrupt
      <3> QED
        BY <1>2, <3>1, LeaveTypes
    <2>3. thread' \in [Threads -> ThreadRecords]
      BY <1>2, <2>1, <2>2
    <2>4. PICK D \in SUBSET Conns, rest \in [Conns -> Requests] :
             /\ request' = [c \in Conns |-> IF c \in D THEN "failed" ELSE rest[c]]
             /\ failedBy' = [c \in Conns |-> IF c \in D THEN thread[t].proto
                                             ELSE failedBy[c]]
             /\ interrupted' \in {interrupted, interrupted \cup {thread[t].proto}}
      BY <1>9, DrainSettles
    <2>5. /\ request' \in [Conns -> {"none", "pending", "failed", "cancelled", "stuck"}]
          /\ failedBy' \in [Conns -> Conns \cup {None}]
          /\ interrupted' \subseteq Conns
      BY <2>4 DEF TypeOK, Requests
    <2> QED
      BY <1>9, <2>3, <2>5
         DEF DrainRequests, TypeOK, fields, network, inbound, ThreadRecords
  <1>10. CASE EndLoss(t)
    <2>1. announced' \in [Conns -> [connect : Nat, disconnect : Nat]]
      BY <1>10, Tells DEF EndLoss
    <2>2. link' \in [Conns -> {"none", "up", "eof", "closed"}]
      BY <1>10 DEF EndLoss, TypeOK
    <2> QED
      BY <1>2, <1>10, <2>1, <2>2 DEF EndLoss, TypeOK, fields, inbound, ThreadRecords
  <1> QED
    BY <1>4, <1>5, <1>6, <1>7, <1>8, <1>9, <1>10 DEF Loss

LEMMA TypeStep ==
    ASSUME TypeOK, WorksFor, [Next]_vars
    PROVE  TypeOK'
  <1>1. CASE UNCHANGED vars
    BY <1>1 DEF TypeOK, vars, fields, network, inbound, events
  <1>2. ASSUME NEW c \in Conns, PeerCloses(c) PROVE TypeOK'
    BY <1>2 DEF PeerCloses, TypeOK, fields, inbound, events
  <1>3. ASSUME NEW c \in Conns, Release(c) PROVE TypeOK'
    BY <1>3, TypeGiveBack, Constants DEF Release, Places
  <1> QED
    BY <1>1, <1>2, <1>3, TypeApp, TypeReader, TypeLoss, Constants
       DEF Next, Application, Reader, HandleData

----------------------------------------------------------------------------
(* The steps, thread by thread and variable by variable.                   *)

KeepFields  == connected' = connected /\ socket' = socket /\ protocol' = protocol
KeepBuffers == chunk' = chunk /\ buffer' = buffer
KeepCounts  == reserved' = reserved /\ late' = late
KeepBytes   == KeepBuffers /\ KeepCounts /\ usedBytes' = usedBytes
KeepLosses  == lost' = lost /\ raced' = raced
KeepAsked   == failedBy' = failedBy /\ request' = request /\ interrupted' = interrupted
KeepEvents  == announced' = announced /\ KeepAsked
KeepStreams == received' = received /\ handled' = handled
KeepMade    == created' = created /\ overtaken' = overtaken

\* Everything but the threads and the links.
KeepAll == KeepFields /\ KeepBytes /\ KeepLosses /\ KeepEvents /\ KeepStreams /\ KeepMade

\* A reader that was started and is not at work for anyone yet is overtaken too.
Opens ==
    /\ thread[App].at = "idle" /\ ~connected /\ created + 1 \in Conns
    /\ overtaken' = {} => \A c \in Conns : thread[c].at # "start"
    /\ created' = created + 1 /\ socket' = created + 1
    /\ overtaken' = overtaken \cup AtWork
    /\ \/ To(App, "establish", created + 1, 0, "cleanup") /\ link'[created + 1] = "up"
       \/ /\ To(App, "cleanup", created + 1, 0, "cleanup")
          /\ link'[created + 1] = link[created + 1]
    /\ \A d \in Conns : d # created + 1 => link'[d] = link[d]
    /\ connected' = connected /\ protocol' = protocol
    /\ KeepBytes /\ KeepLosses /\ KeepEvents /\ KeepStreams

Establishes ==
    /\ thread[App].at = "establish" /\ created \in Conns
    /\ protocol' = created /\ connected' = TRUE /\ socket' = socket
    /\ thread'[App] = At("handshake", created, thread[App].n, thread[App].back)
    /\ thread'[created] = At("start", None, thread[created].n, thread[created].back)
    /\ \A u \in Threads : u # App /\ u # created => thread'[u] = thread[u]
    /\ link' = link /\ KeepBytes /\ KeepLosses /\ KeepEvents /\ KeepStreams /\ KeepMade

EndsHandshake ==
    /\ thread[App].at = "handshake" /\ created \in Conns
    /\ \/ /\ To(App, "idle", created, thread[App].n, thread[App].back)
          /\ Told(created, 1, 0)
       \/ /\ To(App, "cleanup", created, thread[App].n, thread[App].back)
          /\ announced' = announced
    /\ link' = link /\ KeepAsked
    /\ KeepFields /\ KeepBytes /\ KeepLosses /\ KeepStreams /\ KeepMade

Disconnects ==
    /\ thread[App].at = "idle" /\ protocol # None
    /\ To(App, "lost", protocol, 0, "cleanup")
    /\ link' = link /\ KeepAll

Closes ==
    /\ thread[App].at = "cleanup"
    /\ To(App, "clear", created, thread[App].n, thread[App].back)
    /\ \A d \in Conns : link'[d] \in {link[d], "closed"}
    /\ KeepAll

Clears ==
    /\ thread[App].at = "clear"
    /\ To(App, "idle", created, thread[App].n, thread[App].back)
    /\ connected' = FALSE /\ socket' = None /\ protocol' = None
    /\ link' = link /\ KeepBytes /\ KeepLosses /\ KeepEvents /\ KeepStreams /\ KeepMade

Sends ==
    /\ thread[App].at = "idle" /\ connected
    /\ \A d \in Conns : request'[d] = IF d = protocol THEN "pending" ELSE request[d]
    /\ announced' = announced /\ failedBy' = failedBy /\ interrupted' = interrupted
    /\ thread' = thread /\ link' = link
    /\ KeepFields /\ KeepBytes /\ KeepLosses /\ KeepStreams /\ KeepMade

Begins(t) ==
    /\ thread[t].at = "start"
    /\ To(t, "loop", protocol, 0, "ended")
    /\ link' = link /\ KeepAll

Waits(t) ==
    /\ thread[t].at = "loop" /\ connected
    /\ To(t, "recv", thread[t].proto, thread[t].n, thread[t].back)
    /\ link' = link /\ KeepAll

\* From here on, p is the protocol that the thread t works for.
Turns(t, p) ==
    /\ thread[t].at = "recv" /\ thread[t].proto = p
    /\ To(t, "loop", p, thread[t].n, thread[t].back)
    /\ link' = link /\ KeepAll

\* The loop ends, perhaps with bytes for which there was no room.
Leaves(t, p) ==
    /\ thread[t].at \in {"loop", "recv", "parse"}
    /\ \/ thread[t].proto = None /\ To(t, "ended", None, thread[t].n, thread[t].back)
       \/ thread[t].proto # None /\ To(t, "lost", p, 0, "ended")
    /\ received' \in [Conns -> Nat]
    /\ \A d \in Conns : \/ received'[d] = received[d]
                        \/ /\ socket = d
                           /\ received[d] <= received'[d] /\ received'[d] <= StreamLength(d)
    /\ handled' = handled
    /\ link' = link /\ KeepFields /\ KeepBytes /\ KeepLosses /\ KeepEvents /\ KeepMade

TimesOut(t, p) ==
    /\ thread[t].at = "recv" /\ thread[t].proto = p
    /\ To(t, "lost", p, 0, "loop")
    /\ link' = link /\ KeepAll

Gets(t, p, s, n) ==
    /\ thread[t].at = "recv" /\ thread[t].proto = p
    /\ socket = s /\ received[s] + n <= StreamLength(s)
    /\ received'[s] = received[s] + n
    /\ \A d \in Conns : d # s => received'[d] = received[d]
    /\ usedBytes' = usedBytes + n /\ usedBytes + n <= MaxBytes
    /\ Len(chunk'[t]) = n
    /\ \A i \in 1..n : chunk'[t][i] = <<s, received[s] + i>>
    /\ \A d \in Conns : d # t => chunk'[d] = chunk[d]
    /\ To(t, "count", p, n, thread[t].back)
    /\ buffer' = buffer /\ handled' = handled /\ KeepCounts
    /\ link' = link /\ KeepFields /\ KeepLosses /\ KeepEvents /\ KeepMade

Counts(t, p) ==
    /\ thread[t].at = "count" /\ thread[t].proto = p
    /\ reserved'[p] = reserved[p] + thread[t].n
    /\ late'[p] = IF lost[p] THEN late[p] + thread[t].n ELSE late[p]
    /\ \A d \in Conns : d # p => reserved'[d] = reserved[d] /\ late'[d] = late[d]
    /\ Len(buffer'[p]) = Len(buffer[p]) + Len(chunk[t])
    /\ \A i \in 1..Len(buffer[p]) : buffer'[p][i] = buffer[p][i]
    /\ \A i \in 1..Len(chunk[t]) : buffer'[p][Len(buffer[p]) + i] = chunk[t][i]
    /\ \A d \in Conns : d # p => buffer'[d] = buffer[d]
    /\ chunk'[t] = <<>> /\ \A d \in Conns : d # t => chunk'[d] = chunk[d]
    /\ To(t, "parse", p, 0, thread[t].back)
    /\ usedBytes' = usedBytes
    /\ link' = link /\ KeepFields /\ KeepLosses /\ KeepEvents /\ KeepStreams /\ KeepMade

Stops(t, p) ==
    /\ thread[t].at = "parse" /\ thread[t].proto = p
    /\ Stop \in Parse(buffer[p], thread[t].n)
    /\ To(t, "trim", p, thread[t].n, thread[t].back)
    /\ link' = link /\ KeepAll

Takes(t, p, size, k) ==
    /\ thread[t].at = "parse" /\ thread[t].proto = p
    /\ Take(size, k) \in Parse(buffer[p], thread[t].n)
    /\ thread[t].n + size <= Len(buffer[p])
    /\ To(t, "parse", p, thread[t].n + size, thread[t].back)
    /\ handled'[p] = IF k = 0 THEN handled[p] ELSE Append(handled[p], k)
    /\ \A d \in Conns : d # p => handled'[d] = handled[d]
    /\ received' = received
    /\ link' = link /\ KeepFields /\ KeepBytes /\ KeepLosses /\ KeepEvents /\ KeepMade

Least(a, b) == IF a < b THEN a ELSE b
Minus(a, b) == IF a - b < 0 THEN 0 ELSE a - b

Trims(t, p) ==
    /\ thread[t].at = "trim" /\ thread[t].proto = p
    /\ thread[t].n <= Len(buffer[p]) =>
          /\ Len(buffer'[p]) = Len(buffer[p]) - thread[t].n
          /\ \A i \in 1..Len(buffer'[p]) : buffer'[p][i] = buffer[p][thread[t].n + i]
    /\ reserved'[p] = reserved[p] - Least(thread[t].n, reserved[p])
    /\ \A d \in Conns : d # p => buffer'[d] = buffer[d] /\ reserved'[d] = reserved[d]
    /\ To(t, "release", p, Least(thread[t].n, reserved[p]), thread[t].back)
    /\ late' = late /\ usedBytes' = usedBytes /\ chunk' = chunk
    /\ link' = link /\ KeepFields /\ KeepLosses /\ KeepEvents /\ KeepStreams /\ KeepMade

\* Bytes go back to the budget.
Returns(t, p, from, to) ==
    /\ thread[t].at = from /\ thread[t].proto = p
    /\ usedBytes' = Minus(usedBytes, thread[t].n)
    /\ To(t, to, p, 0, thread[t].back)
    /\ KeepBuffers /\ KeepCounts
    /\ link' = link /\ KeepFields /\ KeepLosses /\ KeepEvents /\ KeepStreams /\ KeepMade

Tests(t, p) ==
    /\ thread[t].at = "lost"
    /\ \/ lost[p] /\ To(t, thread[t].back, p, thread[t].n, thread[t].back)
       \/ ~lost[p] /\ To(t, "setLost", p, thread[t].n, thread[t].back)
    /\ link' = link /\ KeepAll

Sets(t, p) ==
    /\ thread[t].at = "setLost"
    /\ lost'[p] = TRUE /\ raced'[p] = (raced[p] \/ lost[p])
    /\ \A d \in Conns : d # p => lost'[d] = lost[d] /\ raced'[d] = raced[d]
    /\ To(t, "sweep", p, thread[t].n, thread[t].back)
    /\ link' = link /\ KeepFields /\ KeepBytes /\ KeepEvents /\ KeepStreams /\ KeepMade

Sweeps(t, p) ==
    /\ thread[t].at = "sweep"
    /\ reserved'[p] = 0 /\ late'[p] = 0
    /\ \A d \in Conns : d # p => reserved'[d] = reserved[d] /\ late'[d] = late[d]
    /\ To(t, "giveBack", p, reserved[p], thread[t].back)
    /\ usedBytes' = usedBytes /\ KeepBuffers
    /\ link' = link /\ KeepFields /\ KeepLosses /\ KeepEvents /\ KeepStreams /\ KeepMade

Unsets(t, p) ==
    /\ thread[t].at = "unset"
    /\ connected' = FALSE /\ socket' = socket /\ protocol' = protocol
    /\ To(t, "drain", p, thread[t].n, thread[t].back)
    /\ link' = link /\ KeepBytes /\ KeepLosses /\ KeepEvents /\ KeepStreams /\ KeepMade

\* No request is pending afterwards, and no other thread's loss has failed one.
Settles(p) ==
    \A d \in Conns : /\ request'[d] # "pending"
                     /\ failedBy'[d] \in {failedBy[d], p}
                     /\ request[d] # "pending" => failedBy'[d] = failedBy[d]

Drains(t, p) ==
    /\ thread[t].at = "drain" /\ Settles(p) /\ interrupted' = interrupted
    /\ To(t, "end", p, thread[t].n, thread[t].back)
    /\ announced' = announced
    /\ link' = link /\ KeepFields /\ KeepBytes /\ KeepLosses /\ KeepStreams /\ KeepMade

\* An exception ends the loss: of disconnect(), of a turn of the loop, or of the
\* thread.
Breaks(t, p) ==
    /\ thread[t].at = "drain" /\ Settles(p) /\ interrupted' = interrupted \cup {p}
    /\ \/ /\ thread[t].back = "cleanup"
          /\ To(t, "idle", p, thread[t].n, thread[t].back)
       \/ thread[t].back = "loop" /\ To(t, "lost", p, 0, "ended")
       \/ /\ thread[t].back = "ended"
          /\ To(t, "ended", p, thread[t].n, thread[t].back)
    /\ announced' = announced
    /\ link' = link /\ KeepFields /\ KeepBytes /\ KeepLosses /\ KeepStreams /\ KeepMade

Ends(t, p) ==
    /\ thread[t].at = "end"
    /\ Told(p, 0, 1)
    /\ link'[p] = "closed"
    /\ \A d \in Conns : d # p => link'[d] = link[d]
    /\ To(t, thread[t].back, p, thread[t].n, thread[t].back)
    /\ KeepAsked
    /\ KeepFields /\ KeepBytes /\ KeepLosses /\ KeepStreams /\ KeepMade

\* The peer closes a connection that is up, or nothing happens.
Rests ==
    /\ \A d \in Conns : link'[d] = link[d] \/ (link[d] = "up" /\ link'[d] = "eof")
    /\ thread' = thread
    /\ KeepAll

AppKind ==
    Opens \/ Establishes \/ EndsHandshake \/ Disconnects \/ Closes \/ Clears \/ Sends

\* A reader that has no protocol does no more than begin, wait and leave.
Works(t) == IF thread[t].proto = None THEN t ELSE thread[t].proto

ReaderDoes(t, p) ==
    \/ Begins(t) \/ Waits(t) \/ Turns(t, p) \/ Leaves(t, p) \/ TimesOut(t, p)
    \/ \E s \in Conns, n \in Nat : Gets(t, p, s, n)
    \/ Counts(t, p) \/ Stops(t, p) \/ (\E size, k \in Nat : Takes(t, p, size, k))
    \/ Trims(t, p) \/ Returns(t, p, "release", "loop")
ReaderKind == \E t \in Conns : ReaderDoes(t, Works(t))

LossDoes(t, p) ==
    /\ thread[t].proto = p
    /\ \/ Tests(t, p) \/ Sets(t, p) \/ Sweeps(t, p) \/ Returns(t, p, "giveBack", "unset")
       \/ Unsets(t, p) \/ Drains(t, p) \/ Breaks(t, p) \/ Ends(t, p)
LossKind == \E t \in Threads : \E p \in Conns : LossDoes(t, p)

Kind == AppKind \/ ReaderKind \/ LossKind \/ Rests

\* What the invariant says of the threads that work for a connection.
LEMMA Workers ==
    ASSUME TypeOK, PlacesInv
    PROVE  /\ WorksFor
           /\ \A c \in Conns : Works(c) \in Conns
           /\ \A c \in Conns : thread[c].at \in HandlePlaces \cup LossPlaces
                                  => thread[c].proto = Works(c)
           /\ thread[App].at # "idle" => thread[App].proto = created /\ created \in Conns
  <1>1. created \in Nat /\ created <= MaxConns
    BY Constants DEF TypeOK
  <1>2. thread[App].at # "idle" => thread[App].proto = created /\ created \in Conns
    BY <1>1, Constants DEF PlacesInv
  <1>3. \A c \in Conns : thread[c].proto \in Conns \cup {None}
    BY Constants DEF TypeOK
  <1>4. \A c \in Conns : thread[c].at \in HandlePlaces \cup LossPlaces
                            => thread[c].proto \in Conns
    BY DEF PlacesInv
  <1>5. \A c \in Conns : /\ Works(c) \in Conns
                         /\ thread[c].proto \in Conns => thread[c].proto = Works(c)
    BY <1>3, Constants DEF Works
  <1>6. \A t \in Threads : thread[t].at \in LossPlaces => thread[t].proto \in Conns
    BY <1>2, <1>4, Constants DEF LossPlaces, FailPlaces
  <1>7. thread[App].at \in {"establish", "handshake"} => thread[App].proto \in Conns
    BY <1>2
  <1>8. /\ thread[App].at \in LossPlaces => thread[App].back = "cleanup"
        /\ \A c \in Conns : thread[c].back \in {"loop", "ended"}
    BY DEF PlacesInv
  <1> QED
    BY <1>2, <1>4, <1>5, <1>6, <1>7, <1>8 DEF WorksFor

LEMMA AppKinds ==
    ASSUME TypeOK, PlacesInv,
           OpenSocket \/ Establish \/ EndHandshake \/ Disconnect \/ CleanupClose
              \/ CleanupClear \/ SendRequest
    PROVE  AppKind
  <1>0. /\ App \in Threads /\ Conns \subseteq Threads
        /\ thread[App].at # "idle" => thread[App].proto = created /\ created \in Conns
    BY Workers, Constants
  <1> DEFINE Links == {"none", "up", "eof", "closed"}
  <1>a. link \in [Conns -> Links] /\ request \in [Conns -> Requests]
    BY DEF TypeOK, Requests
  <1> HIDE DEF Links
  <1>1. CASE OpenSocket
    <2>1. created + 1 \in Conns
      <3>1. created \in Nat /\ created < MaxConns /\ MaxConns \in Nat
        BY <1>1, Constants DEF OpenSocket, TypeOK
      <3> QED
        BY <3>1 DEF Conns
    <2>2. \/ /\ PutTo(App, At("establish", created + 1, 0, "cleanup"))
             /\ link' = [link EXCEPT ![created + 1] = "up"]
          \/ /\ PutTo(App, At("cleanup", created + 1, 0, "cleanup"))
             /\ link' = link
      BY <1>1 DEF OpenSocket, PutTo
    <2>3. /\ \/ To(App, "establish", created + 1, 0, "cleanup") /\ link'[created + 1] = "up"
             \/ /\ To(App, "cleanup", created + 1, 0, "cleanup")
                /\ link'[created + 1] = link[created + 1]
          /\ \A d \in Conns : d # created + 1 => link'[d] = link[d]
      <3>1. CASE /\ PutTo(App, At("establish", created + 1, 0, "cleanup"))
                 /\ link' = [link EXCEPT ![created + 1] = "up"]
        <4>1. To(App, "establish", created + 1, 0, "cleanup")
          BY <1>0, <3>1, Put
        <4>2. link'[created + 1] = "up" /\ \A d \in Conns : d # created + 1 => link'[d] = link[d]
          BY <1>a, <2>1, <3>1
        <4> QED
          BY <4>1, <4>2
      <3>2. CASE PutTo(App, At("cleanup", created + 1, 0, "cleanup")) /\ link' = link
        <4>1. To(App, "cleanup", created + 1, 0, "cleanup")
          BY <1>0, <3>2, Put
        <4> QED
          BY <3>2, <4>1
      <3> QED
        BY <2>2, <3>1, <3>2
    <2>4. overtaken' = {} => \A c \in Conns : thread[c].at # "start"
      <3>1. \A c \in Conns : thread[c].at = "start" => c \in AtWork
        BY <1>0 DEF AtWork
      <3>2. overtaken' = overtaken \cup AtWork
        BY <1>1 DEF OpenSocket
      <3> QED
        BY <3>1, <3>2
    <2>5. Opens
      BY <1>1, <2>1, <2>3, <2>4
         DEF OpenSocket, Opens, inbound, events, KeepBytes, KeepBuffers, KeepCounts,
             KeepLosses, KeepEvents, KeepAsked, KeepStreams
    <2> QED
      BY <2>5 DEF AppKind
  <1>2. CASE Establish
    <2>1. thread \in [Threads -> ThreadRecords] /\ created \in Conns /\ created # App
          /\ thread[App].proto = created
      BY <1>0, <1>2, Constants DEF Establish, TypeOK, ThreadRecords
    <2>2. thread[created].at = "off" /\ thread[created].proto = None
      BY <1>2, <2>1 DEF Establish, PlacesInv
    <2>3. thread[App] \in ThreadRecords /\ thread[created] \in ThreadRecords
      BY <1>0, <2>1
    <2>4. /\ [thread[App] EXCEPT !.at = "handshake"]
                = At("handshake", created, thread[App].n, thread[App].back)
          /\ [thread[created] EXCEPT !.at = "start"]
                = At("start", None, thread[created].n, thread[created].back)
      BY <2>1, <2>2, <2>3 DEF At, ThreadRecords
    <2>5. thread' = [[thread EXCEPT ![App] = [thread[App] EXCEPT !.at = "handshake"]]
                        EXCEPT ![created] = [thread[created] EXCEPT !.at = "start"]]
      BY <1>0, <1>2, <2>1 DEF Establish
    <2>6. /\ thread'[App] = At("handshake", created, thread[App].n, thread[App].back)
          /\ thread'[created] = At("start", None, thread[created].n, thread[created].back)
          /\ \A u \in Threads : u # App /\ u # created => thread'[u] = thread[u]
      BY <1>0, <2>1, <2>4, <2>5
    <2>7. Establishes
      BY <1>2, <2>1, <2>6
         DEF Establish, Establishes, network, inbound, events, KeepBytes, KeepBuffers,
             KeepCounts, KeepLosses,
             KeepEvents, KeepAsked, KeepStreams, KeepMade
    <2> QED
      BY <2>7 DEF AppKind
  <1>3. CASE EndHandshake
    <2>1. thread[App].proto = created /\ created \in Conns
      BY <1>0, <1>3 DEF EndHandshake
    <2>2. \/ /\ To(App, "idle", created, thread[App].n, thread[App].back)
             /\ Told(created, 1, 0)
          \/ /\ To(App, "cleanup", created, thread[App].n, thread[App].back)
             /\ announced' = announced
      <3>1. CASE Goto(App, "idle") /\ announced' = [announced EXCEPT ![created].connect = @ + 1]
        BY <1>0, <2>1, <3>1, Moves, Put, Tells
      <3>2. CASE Goto(App, "cleanup") /\ announced' = announced
        BY <1>0, <2>1, <3>2, Moves, Put
      <3> QED
        BY <1>3, <2>1, <3>1, <3>2 DEF EndHandshake
    <2>3. EndsHandshake
      BY <1>3, <2>1, <2>2
         DEF EndHandshake, EndsHandshake, fields, network, inbound, KeepFields, KeepBytes,
             KeepBuffers, KeepCounts, KeepLosses, KeepAsked, KeepStreams, KeepMade
    <2> QED
      BY <2>3 DEF AppKind
  <1>4. CASE Disconnect
    <2>1. To(App, "lost", protocol, 0, "cleanup")
      BY <1>0, <1>4, Moves, Put DEF Disconnect
    <2>2. Disconnects
      BY <1>4, <2>1
         DEF Disconnect, Disconnects, fields, network, inbound, events, KeepAll,
             KeepFields,
             KeepBytes, KeepBuffers, KeepCounts, KeepLosses, KeepEvents, KeepAsked,
             KeepStreams, KeepMade
    <2> QED
      BY <2>2 DEF AppKind
  <1>5. CASE CleanupClose
    <2>1. To(App, "clear", created, thread[App].n, thread[App].back)
      BY <1>0, <1>5, Moves, Put DEF CleanupClose
    <2>2. \A d \in Conns : link'[d] \in {link[d], "closed"}
      <3>1. CASE socket = None
        BY <1>5, <3>1 DEF CleanupClose
      <3>2. CASE socket # None
        BY <1>5, <1>a, <3>2 DEF CleanupClose, TypeOK
      <3> QED
        BY <3>1, <3>2
    <2>3. Closes
      BY <1>5, <2>1, <2>2
         DEF CleanupClose, Closes, fields, inbound, events, KeepAll, KeepFields,
             KeepBytes, KeepBuffers, KeepCounts, KeepLosses, KeepEvents, KeepAsked,
             KeepStreams, KeepMade
    <2> QED
      BY <2>3 DEF AppKind
  <1>6. CASE CleanupClear
    <2>1. To(App, "idle", created, thread[App].n, thread[App].back)
      BY <1>0, <1>6, Moves, Put DEF CleanupClear
    <2>2. Clears
      BY <1>6, <2>1
         DEF CleanupClear, Clears, network, inbound, events, KeepBytes, KeepBuffers,
             KeepCounts, KeepLosses,
             KeepEvents, KeepAsked, KeepStreams, KeepMade
    <2> QED
      BY <2>2 DEF AppKind
  <1>7. CASE SendRequest
    <2>1. \A d \in Conns : request'[d] = IF d = protocol THEN "pending" ELSE request[d]
      BY <1>7, <1>a DEF SendRequest, TypeOK
    <2>2. Sends
      BY <1>7, <2>1
         DEF SendRequest, Sends, fields, network, inbound, events, KeepFields,
             KeepBytes, KeepBuffers, KeepCounts, KeepLosses, KeepStreams, KeepMade
    <2> QED
      BY <2>2 DEF AppKind
  <1> QED
    BY <1>1, <1>2, <1>3, <1>4, <1>5, <1>6, <1>7

LEMMA GivesBack ==
    ASSUME TypeOK, NEW t \in Threads, NEW p, thread[t].proto = p, NEW from,
           thread[t].at = from, NEW to, GiveBack(t, to)
    PROVE  Returns(t, p, from, to)
  <1>1. To(t, to, p, 0, thread[t].back)
    BY Moves, Put DEF GiveBack
  <1>2. usedBytes' = Minus(usedBytes, thread[t].n)
    <2>1. usedBytes \in Nat /\ thread[t].n \in Nat
      BY Constants DEF TypeOK
    <2>2. usedBytes - thread[t].n \in Int
      BY <2>1
    <2> QED
      BY <2>2, AtLeastZero DEF GiveBack, Minus
  <1>3. UNCHANGED <<fields, request, created, network, lost, chunk, buffer, reserved,
                    late, handled, events, overtaken>>
    BY DEF GiveBack
  <1> QED
    BY <1>1, <1>2, <1>3
       DEF Returns, fields, network, events, KeepFields, KeepBuffers, KeepCounts,
           KeepLosses, KeepEvents, KeepAsked, KeepStreams, KeepMade

LEMMA SettlesPending ==
    ASSUME TypeOK, NEW t \in Threads, DrainRequests(t)
    PROVE  /\ thread[t].at = "drain" /\ Settles(thread[t].proto)
           /\ \/ interrupted' = interrupted /\ Goto(t, "end")
              \/ interrupted' = interrupted \cup {thread[t].proto} /\ Interrupt(t)
  <1> DEFINE p == thread[t].proto
             Pending == {c \in Conns : request[c] = "pending"}
             Rest(c) == [d \in Conns |-> IF d = c THEN "cancelled"
                                         ELSE IF d \in Pending THEN "stuck"
                                         ELSE request[d]]
             Settle(D, rest) ==
               /\ request' = [c \in Conns |-> IF c \in D THEN "failed" ELSE rest[c]]
               /\ failedBy' = [c \in Conns |-> IF c \in D THEN p ELSE failedBy[c]]
  <1>1. /\ thread[t].at = "drain"
        /\ \/ /\ Settle(Pending, request)
              /\ interrupted' = interrupted /\ Goto(t, "end")
           \/ \E c \in Pending : \E D \in SUBSET (Pending \ {c}) :
                 /\ Settle(D, Rest(c))
                 /\ interrupted' = interrupted \cup {p} /\ Interrupt(t)
    BY DEF DrainRequests
  <1>2. Settle(Pending, request) => Settles(p)
    <2> HIDE DEF p
    <2> QED
      BY DEF Settles
  <1>3. ASSUME NEW c \in Pending, NEW D \in SUBSET (Pending \ {c}), Settle(D, Rest(c))
        PROVE  Settles(p)
    <2>1. \A d \in Conns : Rest(c)[d] # "pending"
      OBVIOUS
    <2>2. \A d \in D : request[d] = "pending"
      OBVIOUS
    <2> HIDE DEF p, Rest, Pending
    <2> QED
      BY <1>3, <2>1, <2>2 DEF Settles
  <1> QED
    BY <1>1, <1>2, <1>3

LEMMA LossKinds ==
    ASSUME TypeOK, PlacesInv, NEW t \in Threads, Loss(t)
    PROVE  LossKind
  <1> DEFINE p == thread[t].proto
  <1>1. p \in Conns /\ thread[t].proto = p
    <2>1. thread[t].at \in LossPlaces
      BY DEF Loss, LossTest, LossSet, Sweep, ReleaseAll, Unset, DrainRequests, EndLoss,
             LossPlaces, FailPlaces
    <2> QED
      BY <2>1, Workers DEF WorksFor
  <1>2. /\ \A place : Goto(t, place) => To(t, place, p, thread[t].n, thread[t].back)
        /\ \A place, n : GotoWith(t, place, n) => To(t, place, p, n, thread[t].back)
    BY Moves, Put
  <1>a. ASSUME NEW q, q = p PROVE thread[t].proto = q
    BY <1>a
  <1>3. CASE LossTest(t)
    <2>1. Tests(t, p)
      BY <1>2, <1>3
         DEF LossTest, Tests, fields, network, inbound, events, KeepAll, KeepFields,
             KeepBytes, KeepBuffers, KeepCounts, KeepLosses, KeepEvents, KeepAsked,
             KeepStreams, KeepMade
    <2> QED
      BY <1>1, <2>1 DEF LossKind, LossDoes
  <1>4. CASE LossSet(t)
    <2>1. /\ lost' = [lost EXCEPT ![p] = TRUE]
          /\ raced' = [raced EXCEPT ![p] = raced[p] \/ lost[p]]
          /\ Goto(t, "sweep") /\ thread[t].at = "setLost"
          /\ lost \in [Conns -> BOOLEAN] /\ raced \in [Conns -> BOOLEAN]
      BY <1>4 DEF LossSet, TypeOK
    <2> HIDE DEF p
    <2>2. /\ lost'[p] = TRUE /\ raced'[p] = (raced[p] \/ lost[p])
          /\ \A d \in Conns : d # p => lost'[d] = lost[d] /\ raced'[d] = raced[d]
      BY <1>1, <2>1
    <2>3. /\ UNCHANGED <<fields, request, created, network, inbound, handled, announced,
                         failedBy, interrupted, overtaken>>
      BY <1>4 DEF LossSet
    <2>4. Sets(t, p)
      BY <1>2, <2>1, <2>2, <2>3
         DEF Sets, fields, network, inbound, KeepFields, KeepBytes, KeepBuffers,
             KeepCounts, KeepEvents, KeepAsked, KeepStreams, KeepMade
    <2> QED
      BY <1>1, <2>4 DEF LossKind, LossDoes
  <1>5. CASE Sweep(t)
    <2>1. /\ reserved' = [reserved EXCEPT ![p] = 0] /\ late' = [late EXCEPT ![p] = 0]
          /\ GotoWith(t, "giveBack", reserved[p]) /\ thread[t].at = "sweep"
          /\ reserved \in [Conns -> Nat] /\ late \in [Conns -> Nat]
      BY <1>5 DEF Sweep, TypeOK
    <2> HIDE DEF p
    <2>2. /\ reserved'[p] = 0 /\ late'[p] = 0
          /\ \A d \in Conns : d # p => reserved'[d] = reserved[d] /\ late'[d] = late[d]
      BY <1>1, <2>1
    <2>3. UNCHANGED <<fields, request, created, network, lost, chunk, buffer, usedBytes,
                      handled, events, overtaken>>
      BY <1>5 DEF Sweep
    <2>4. Sweeps(t, p)
      BY <1>2, <2>1, <2>2, <2>3
         DEF Sweeps, fields, network, events, KeepFields, KeepBuffers, KeepLosses,
             KeepEvents, KeepAsked, KeepStreams, KeepMade
    <2> QED
      BY <1>1, <2>4 DEF LossKind, LossDoes
  <1>6. CASE ReleaseAll(t)
    <2>1. Returns(t, p, "giveBack", "unset")
      BY <1>6, GivesBack DEF ReleaseAll
    <2> QED
      BY <1>1, <2>1 DEF LossKind, LossDoes
  <1>7. CASE Unset(t)
    <2>1. Unsets(t, p)
      BY <1>2, <1>7
         DEF Unset, Unsets, network, inbound, events, KeepBytes, KeepBuffers, KeepCounts,
             KeepLosses, KeepEvents, KeepAsked, KeepStreams, KeepMade
    <2> QED
      BY <1>1, <2>1 DEF LossKind, LossDoes
  <1>8. CASE DrainRequests(t)
    <2>1. /\ thread[t].at = "drain" /\ Settles(p)
          /\ \/ interrupted' = interrupted /\ Goto(t, "end")
             \/ interrupted' = interrupted \cup {p} /\ Interrupt(t)
      BY <1>8, SettlesPending
    <2>2. UNCHANGED <<fields, created, network, lost, inbound, handled, announced, raced,
                      overtaken>>
      BY <1>8 DEF DrainRequests
    <2>3. CASE interrupted' = interrupted /\ Goto(t, "end")
      <3>1. Drains(t, p)
        BY <1>2, <2>1, <2>2, <2>3
           DEF Drains, fields, network, inbound, KeepFields, KeepBytes, KeepBuffers,
               KeepCounts, KeepLosses, KeepStreams, KeepMade
      <3> QED
        BY <1>1, <3>1 DEF LossKind, LossDoes
    <2>4. CASE interrupted' = interrupted \cup {p} /\ Interrupt(t)
      <3>1. thread[t].back \in {"cleanup", "loop", "ended"}
        BY DEF TypeOK
      <3>2. \/ thread[t].back = "cleanup" /\ Goto(t, "idle")
            \/ thread[t].back = "loop" /\ Call(t, p, "ended")
            \/ thread[t].back = "ended" /\ Goto(t, "ended")
        BY <1>1, <2>4, <3>1, Constants DEF Interrupt, Leave
      <3>3. Call(t, p, "ended") => To(t, "lost", p, 0, "ended")
        BY Moves, Put
      <3>4. \/ /\ thread[t].back = "cleanup"
               /\ To(t, "idle", p, thread[t].n, thread[t].back)
            \/ thread[t].back = "loop" /\ To(t, "lost", p, 0, "ended")
            \/ /\ thread[t].back = "ended"
               /\ To(t, "ended", p, thread[t].n, thread[t].back)
        BY <1>2, <3>2, <3>3
      <3>5. Breaks(t, p)
        BY <2>1, <2>2, <2>4, <3>4
           DEF Breaks, fields, network, inbound, KeepFields, KeepBytes, KeepBuffers,
               KeepCounts, KeepLosses, KeepStreams, KeepMade
      <3> QED
        BY <1>1, <3>5 DEF LossKind, LossDoes
    <2> QED
      BY <2>1, <2>3, <2>4
  <1>9. CASE EndLoss(t)
    <2>1. /\ announced' = [announced EXCEPT ![p].disconnect = @ + 1]
          /\ link' = [link EXCEPT ![p] = "closed"] /\ Goto(t, thread[t].back)
          /\ thread[t].at = "end"
      BY <1>9 DEF EndLoss
    <2>2. Told(p, 0, 1)
      BY <1>1, <2>1, Tells
    <2>3. link'[p] = "closed" /\ \A d \in Conns : d # p => link'[d] = link[d]
      BY <1>1, <2>1 DEF TypeOK
    <2>4. UNCHANGED <<fields, request, created, received, lost, inbound, handled, raced,
                      failedBy, interrupted, overtaken>>
      BY <1>9 DEF EndLoss
    <2>5. Ends(t, p)
      BY <1>2, <2>1, <2>2, <2>3, <2>4
         DEF Ends, fields, inbound, KeepFields, KeepBytes, KeepBuffers, KeepCounts,
             KeepLosses, KeepAsked, KeepStreams, KeepMade
    <2> QED
      BY <1>1, <2>5 DEF LossKind, LossDoes
  <1> QED
    BY <1>3, <1>4, <1>5, <1>6, <1>7, <1>8, <1>9 DEF Loss

LEMMA LeaveGoes ==
    ASSUME TypeOK, PlacesInv, NEW t \in Conns, Leave(t)
    PROVE  \/ thread[t].proto = None /\ To(t, "ended", None, thread[t].n, thread[t].back)
           \/ thread[t].proto # None /\ To(t, "lost", Works(t), 0, "ended")
  <1>1. t \in Threads
    BY Constants
  <1>2. CASE thread[t].proto = None
    BY <1>1, <1>2, Moves, Put DEF Leave
  <1>3. CASE thread[t].proto # None
    <2>1. Call(t, Works(t), "ended")
      BY <1>1, <1>3 DEF Leave, Works
    <2> QED
      BY <1>1, <1>3, <2>1, Moves, Put
  <1> QED
    BY <1>2, <1>3

LEMMA RecvKinds ==
    ASSUME TypeOK, PlacesInv, NEW t \in Conns, NEW n \in 1..MaxBytes, Recv(t, n)
    PROVE  Leaves(t, Works(t)) \/ \E s \in Conns : Gets(t, Works(t), s, n)
  <1> DEFINE s == socket
             bytes == [i \in 1..n |-> <<s, received[s] + i>>]
  <1>1. /\ s \in Conns /\ n \in Nat /\ n <= MaxBytes /\ MaxBytes \in Nat
        /\ t \in Threads
    <2>1. socket \in Conns \cup {None} /\ socket # None
      BY DEF Recv, TypeOK
    <2>2. n \in Nat /\ n <= MaxBytes /\ MaxBytes \in Nat /\ t \in Threads
      BY Constants
    <2> QED
      BY <2>1, <2>2
  <1>2. /\ received' = [received EXCEPT ![s] = received[s] + n]
        /\ received \in [Conns -> Nat] /\ received[s] \in Nat
        /\ thread[t].at = "recv" /\ received[s] + n <= StreamLength(s)
    BY <1>1 DEF Recv, TypeOK
  <1>3. received[s] + n \in Nat /\ received[s] <= received[s] + n
    BY <1>1, <1>2
  <1>4. /\ received'[s] = received[s] + n
        /\ \A d \in Conns : d # s => received'[d] = received[d]
        /\ received' \in [Conns -> Nat]
    <2> DEFINE x == received[s] + n
    <2>1. /\ received' = [received EXCEPT ![s] = x] /\ received \in [Conns -> Nat]
          /\ s \in Conns /\ x \in Nat
      BY <1>1, <1>2, <1>3
    <2> HIDE DEF s, x
    <2>2. /\ received'[s] = x /\ received' \in [Conns -> Nat]
          /\ \A d \in Conns : d # s => received'[d] = received[d]
      BY <2>1
    <2> QED
      BY <2>2 DEF x
  <1>5. CASE thread[t].proto = None \/ usedBytes + n > MaxBytes
    <2>1. Leave(t) /\ chunk' = chunk /\ usedBytes' = usedBytes
      BY <1>5 DEF Recv
    <2>2. \A d \in Conns : \/ received'[d] = received[d]
                           \/ /\ socket = d
                              /\ received[d] <= received'[d] /\ received'[d] <= StreamLength(d)
      BY <1>2, <1>3, <1>4
    <2>3. \/ thread[t].proto = None /\ To(t, "ended", None, thread[t].n, thread[t].back)
          \/ thread[t].proto # None /\ To(t, "lost", Works(t), 0, "ended")
      BY <2>1, LeaveGoes
    <2>4. UNCHANGED <<fields, request, created, link, lost, buffer, reserved, late,
                      handled, events, overtaken>>
      BY DEF Recv
    <2>5. Leaves(t, Works(t))
      BY <1>2, <1>4, <2>1, <2>2, <2>3, <2>4
         DEF Leaves, fields, events, KeepFields, KeepBytes, KeepBuffers, KeepCounts,
             KeepLosses, KeepEvents, KeepAsked, KeepMade
    <2> QED
      BY <2>5
  <1>6. CASE ~(thread[t].proto = None \/ usedBytes + n > MaxBytes)
    <2>1. /\ thread[t].proto = Works(t) /\ usedBytes' = usedBytes + n
          /\ chunk' = [chunk EXCEPT ![t] = bytes]
          /\ GotoWith(t, "count", n)
      BY <1>1, <1>6 DEF Recv, Works
    <2>2. usedBytes + n <= MaxBytes
      <3>1. usedBytes \in Nat
        BY <1>1 DEF TypeOK
      <3> QED
        BY <1>1, <1>6, <3>1
    <2>3. To(t, "count", Works(t), n, thread[t].back)
      BY <1>1, <2>1, Moves, Put
    <2>4. /\ \A d \in Conns : d # t => chunk'[d] = chunk[d]
          /\ chunk'[t] = bytes
      <3> HIDE DEF bytes
      <3> QED
        BY <2>1 DEF TypeOK
    <2>5. Len(bytes) = n /\ \A i \in 1..n : bytes[i] = <<s, received[s] + i>>
      <3> HIDE DEF s
      <3> QED
        BY <1>1
    <2> HIDE DEF bytes
    <2>6. UNCHANGED <<fields, request, created, link, lost, buffer, reserved, late,
                      handled, events, overtaken>>
      BY DEF Recv
    <2>7. Gets(t, Works(t), s, n)
      BY <1>2, <1>4, <2>1, <2>2, <2>3, <2>4, <2>5, <2>6
         DEF Gets, fields, events, KeepFields, KeepCounts, KeepLosses, KeepEvents,
             KeepAsked, KeepMade
    <2> QED
      BY <1>1, <2>7
  <1> QED
    BY <1>5, <1>6

LEMMA Joined ==
    ASSUME NEW S, NEW a \in Seq(S), NEW b \in Seq(S)
    PROVE  /\ Len(a \o b) = Len(a) + Len(b)
           /\ \A i \in 1..Len(a) : (a \o b)[i] = a[i]
           /\ \A i \in 1..Len(b) : (a \o b)[Len(a) + i] = b[i]
  OBVIOUS

LEMMA CountKinds ==
    ASSUME TypeOK, PlacesInv, NEW t \in Conns, CountInbound(t)
    PROVE  Counts(t, Works(t))
  <1> DEFINE p == Works(t)
             m == thread[t].n
             S == Conns \X (Nat \ {0})
  <1>1. /\ thread[t].at = "count" /\ thread[t].proto = p /\ t \in Threads /\ p \in Conns
        /\ reserved' = [reserved EXCEPT ![p] = reserved[p] + m]
        /\ late' = [late EXCEPT ![p] = IF lost[p] THEN late[p] + m ELSE late[p]]
        /\ buffer' = [buffer EXCEPT ![p] = buffer[p] \o chunk[t]]
        /\ chunk' = [chunk EXCEPT ![t] = <<>>]
        /\ GotoWith(t, "parse", 0)
    BY Workers, Constants DEF CountInbound, HandlePlaces
  <1>2. /\ reserved \in [Conns -> Nat] /\ late \in [Conns -> Nat]
        /\ buffer \in [Conns -> Seq(S)] /\ chunk \in [Conns -> Seq(S)]
    BY DEF TypeOK
  <1>3. UNCHANGED <<fields, request, created, network, lost, usedBytes, handled,
                    events, overtaken>>
    BY DEF CountInbound
  <1> HIDE DEF p, m, S
  <1>4. To(t, "parse", p, 0, thread[t].back)
    BY <1>1, Moves, Put
  <1>5. /\ reserved'[p] = reserved[p] + m
        /\ late'[p] = IF lost[p] THEN late[p] + m ELSE late[p]
        /\ \A d \in Conns : d # p => reserved'[d] = reserved[d] /\ late'[d] = late[d]
    BY <1>1, <1>2
  <1>6. /\ buffer'[p] = buffer[p] \o chunk[t]
        /\ \A d \in Conns : d # p => buffer'[d] = buffer[d]
        /\ chunk'[t] = <<>> /\ \A d \in Conns : d # t => chunk'[d] = chunk[d]
    BY <1>1, <1>2
  <1>7. /\ Len(buffer[p] \o chunk[t]) = Len(buffer[p]) + Len(chunk[t])
        /\ \A i \in 1..Len(buffer[p]) : (buffer[p] \o chunk[t])[i] = buffer[p][i]
        /\ \A i \in 1..Len(chunk[t]) :
              (buffer[p] \o chunk[t])[Len(buffer[p]) + i] = chunk[t][i]
    <2> DEFINE a == buffer[p]
               b == chunk[t]
    <2>1. a \in Seq(S) /\ b \in Seq(S)
      BY <1>1, <1>2
    <2> HIDE DEF a, b
    <2>2. /\ Len(a \o b) = Len(a) + Len(b)
          /\ \A i \in 1..Len(a) : (a \o b)[i] = a[i]
          /\ \A i \in 1..Len(b) : (a \o b)[Len(a) + i] = b[i]
      BY <2>1, Joined
    <2> QED
      BY <2>2 DEF a, b
  <1>8. Counts(t, p)
    BY <1>1, <1>3, <1>4, <1>5, <1>6, <1>7
       DEF Counts, m, fields, network, events, KeepFields, KeepLosses, KeepEvents,
           KeepAsked, KeepStreams, KeepMade
  <1> QED
    BY <1>8 DEF p

LEMMA ParseKinds ==
    ASSUME TypeOK, PlacesInv, NEW t \in Conns, ParseFrame(t)
    PROVE  \/ Leaves(t, Works(t)) \/ Stops(t, Works(t))
           \/ \E size, k \in Nat : Takes(t, Works(t), size, k)
  <1> DEFINE n == thread[t].n
             p == Works(t)
  <1>1. thread[t].at = "parse" /\ thread[t].proto = p /\ t \in Threads /\ p \in Conns
    BY Workers, Constants DEF ParseFrame, HandlePlaces
  <1>2. /\ n \in Nat /\ buffer[p] \in Seq(Conns \X (Nat \ {0}))
        /\ handled \in [Conns -> Seq(Nat \ {0})] /\ received \in [Conns -> Nat]
    BY <1>1 DEF TypeOK
  <1> HIDE DEF p
  <1>3. PICK step \in Parse(buffer[p], n) :
          /\ CASE step.do = "stop"  -> Goto(t, "trim")
               [] step.do = "raise" -> Leave(t)
               [] step.do = "take"  -> GotoWith(t, "parse", n + step.size)
          /\ handled' = IF step.frame = 0 THEN handled
                        ELSE [handled EXCEPT ![p] = Append(@, step.frame)]
    BY <1>1 DEF ParseFrame
  <1>4. UNCHANGED <<fields, request, created, network, lost, inbound, events, overtaken>>
    BY DEF ParseFrame
  <1>5. \/ step = Stop \/ step = Raise
        \/ \E size, k \in Nat : step = Take(size, k) /\ n + size <= Len(buffer[p])
    BY <1>2, <1>3, ParseSteps
  <1>6. CASE step = Stop
    <2>1. Goto(t, "trim") /\ handled' = handled /\ Stop \in Parse(buffer[p], n)
      BY <1>3, <1>6 DEF Stop
    <2>2. To(t, "trim", p, n, thread[t].back)
      BY <1>1, <2>1, Moves, Put
    <2>3. Stops(t, p)
      BY <1>1, <1>4, <2>1, <2>2
         DEF Stops, fields, network, inbound, events, KeepAll, KeepFields, KeepBytes,
             KeepBuffers, KeepCounts, KeepLosses, KeepEvents, KeepAsked, KeepStreams,
             KeepMade
    <2> QED
      BY <2>3 DEF p
  <1>7. CASE step = Raise
    <2>1. Leave(t) /\ handled' = handled
      BY <1>3, <1>7 DEF Raise
    <2>2. To(t, "lost", p, 0, "ended") /\ thread[t].proto # None
      BY <1>1, <2>1, LeaveGoes, Constants DEF p
    <2>3. Leaves(t, p)
      BY <1>1, <1>2, <1>4, <2>1, <2>2
         DEF Leaves, fields, network, inbound, events, KeepFields, KeepBytes,
             KeepBuffers, KeepCounts, KeepLosses, KeepEvents, KeepAsked, KeepMade
    <2> QED
      BY <2>3 DEF p
  <1>8. ASSUME NEW size \in Nat, NEW k \in Nat, step = Take(size, k),
               n + size <= Len(buffer[p])
        PROVE  Takes(t, p, size, k)
    <2>1. /\ GotoWith(t, "parse", n + size) /\ Take(size, k) \in Parse(buffer[p], n)
          /\ handled' = IF k = 0 THEN handled
                        ELSE [handled EXCEPT ![p] = Append(handled[p], k)]
      BY <1>3, <1>8 DEF Take
    <2>2. To(t, "parse", p, n + size, thread[t].back)
      BY <1>1, <2>1, Moves, Put
    <2>3. /\ handled'[p] = IF k = 0 THEN handled[p] ELSE Append(handled[p], k)
          /\ \A d \in Conns : d # p => handled'[d] = handled[d]
      BY <1>1, <1>2, <2>1
    <2> QED
      BY <1>1, <1>4, <1>8, <2>1, <2>2, <2>3
         DEF Takes, fields, network, inbound, events, KeepFields, KeepBytes,
             KeepBuffers, KeepCounts, KeepLosses, KeepEvents, KeepAsked, KeepMade
  <1> QED
    BY <1>5, <1>6, <1>7, <1>8 DEF p

LEMMA TrimKinds ==
    ASSUME TypeOK, PlacesInv, NEW t \in Conns, Trim(t)
    PROVE  Trims(t, Works(t))
  <1> DEFINE p == Works(t)
             m == thread[t].n
             n == Min({thread[t].n, reserved[p]})
             b == SubSeq(buffer[p], m + 1, Len(buffer[p]))
  <1>1. /\ thread[t].at = "trim" /\ thread[t].proto = p /\ t \in Threads /\ p \in Conns
    BY Workers, Constants DEF Trim, HandlePlaces
  <1>2. /\ m \in Nat /\ reserved[p] \in Nat
        /\ buffer[p] \in Seq(Conns \X (Nat \ {0}))
        /\ reserved \in [Conns -> Nat] /\ DOMAIN buffer = Conns
    BY <1>1 DEF TypeOK
  <1> HIDE DEF p
  <1>3. /\ buffer' = [buffer EXCEPT ![p] = b]
        /\ reserved' = [reserved EXCEPT ![p] = reserved[p] - n]
        /\ GotoWith(t, "release", n)
    BY <1>1 DEF Trim
  <1>4. UNCHANGED <<fields, request, created, network, lost, chunk, usedBytes, late,
                    handled, events, overtaken>>
    BY DEF Trim
  <1>5. n = Least(m, reserved[p])
    BY <1>2, TheSmaller DEF Least
  <1>6. ASSUME m <= Len(buffer[p])
        PROVE  /\ Len(b) = Len(buffer[p]) - m
               /\ \A i \in 1..Len(b) : b[i] = buffer[p][m + i]
    <2> DEFINE S == Conns \X (Nat \ {0})
               s == buffer[p]
    <2>1. s \in Seq(S) /\ m \in Nat /\ m <= Len(s)
      BY <1>2, <1>6
    <2> HIDE DEF S, s, m
    <2>2. /\ Len(SubSeq(s, m + 1, Len(s))) = Len(s) - m
          /\ \A i \in 1..(Len(s) - m) : SubSeq(s, m + 1, Len(s))[i] = s[m + i]
      BY <2>1
    <2> QED
      BY <2>2 DEF s
  <1> HIDE DEF n, b
  <1>7. /\ buffer'[p] = b /\ reserved'[p] = reserved[p] - n
        /\ \A d \in Conns : d # p => buffer'[d] = buffer[d] /\ reserved'[d] = reserved[d]
    BY <1>1, <1>2, <1>3
  <1>8. To(t, "release", p, n, thread[t].back)
    BY <1>1, <1>3, Moves, Put
  <1>9. Trims(t, p)
    BY <1>1, <1>4, <1>5, <1>6, <1>7, <1>8
       DEF Trims, fields, network, events, KeepFields, KeepLosses, KeepEvents, KeepAsked,
           KeepStreams, KeepMade
  <1> QED
    BY <1>9 DEF p

LEMMA ReaderKinds ==
    ASSUME TypeOK, PlacesInv, NEW t \in Conns,
           \/ ReaderStart(t) \/ LoopTest(t) \/ RecvEnds(t) \/ RecvTimeout(t)
           \/ KeepaliveTimeout(t) \/ (\E n \in 1..MaxBytes : Recv(t, n))
           \/ CountInbound(t) \/ ParseFrame(t) \/ Trim(t) \/ Release(t)
    PROVE  ReaderDoes(t, Works(t))
  <1> DEFINE p == Works(t)
  <1>0. /\ t \in Threads /\ (thread[t].proto # None => thread[t].proto = p) /\ p \in Conns
        /\ received \in [Conns -> Nat] /\ MaxBytes \in Nat
    BY Workers, Constants DEF TypeOK, Works
  <1> HIDE DEF p
  <1>1. CASE ReaderStart(t)
    <2>1. To(t, "loop", protocol, 0, "ended")
      BY <1>0, <1>1, Put DEF ReaderStart, PutTo
    <2>2. Begins(t)
      BY <1>1, <2>1
         DEF ReaderStart, Begins, fields, network, inbound, events, KeepAll, KeepFields,
             KeepBytes, KeepBuffers, KeepCounts, KeepLosses, KeepEvents, KeepAsked,
             KeepStreams, KeepMade
    <2> QED
      BY <2>2 DEF ReaderDoes
  <1>2. CASE LoopTest(t) \/ RecvEnds(t) \/ RecvTimeout(t)
    <2>0. UNCHANGED <<fields, request, created, network, lost, inbound, handled, events,
                      overtaken>>
      BY <1>2 DEF LoopTest, RecvEnds, RecvTimeout
    <2>1. CASE Leave(t)
      <3>1. thread[t].at \in {"loop", "recv"}
        BY <1>2 DEF LoopTest, RecvEnds, RecvTimeout
      <3>2. \/ thread[t].proto = None /\ To(t, "ended", None, thread[t].n, thread[t].back)
            \/ thread[t].proto # None /\ To(t, "lost", p, 0, "ended")
        BY <2>1, LeaveGoes DEF p
      <3>3. Leaves(t, p)
        BY <1>0, <2>0, <3>1, <3>2
           DEF Leaves, fields, network, inbound, events, KeepFields, KeepBytes,
               KeepBuffers, KeepCounts, KeepLosses, KeepEvents, KeepAsked, KeepMade
      <3> QED
        BY <3>3 DEF ReaderDoes, p
    <2>2. CASE thread[t].at = "loop" /\ connected /\ Goto(t, "recv")
      <3>1. To(t, "recv", thread[t].proto, thread[t].n, thread[t].back)
        BY <1>0, <2>2, Moves, Put
      <3>2. Waits(t)
        BY <2>0, <2>2, <3>1
           DEF Waits, fields, network, inbound, events, KeepAll, KeepFields, KeepBytes,
               KeepBuffers, KeepCounts, KeepLosses, KeepEvents, KeepAsked, KeepStreams,
               KeepMade
      <3> QED
        BY <3>2 DEF ReaderDoes
    <2>3. CASE thread[t].at = "recv" /\ thread[t].proto # None /\ Goto(t, "loop")
      <3>1. To(t, "loop", p, thread[t].n, thread[t].back)
        BY <1>0, <2>3, Moves, Put
      <3>2. Turns(t, p)
        BY <1>0, <2>0, <2>3, <3>1
           DEF Turns, fields, network, inbound, events, KeepAll, KeepFields, KeepBytes,
               KeepBuffers, KeepCounts, KeepLosses, KeepEvents, KeepAsked, KeepStreams,
               KeepMade
      <3> QED
        BY <3>2 DEF ReaderDoes, p
    <2> QED
      BY <1>2, <2>1, <2>2, <2>3 DEF LoopTest, RecvEnds, RecvTimeout
  <1>3. CASE KeepaliveTimeout(t)
    <2>1. thread[t].proto = p /\ Call(t, p, "loop")
      BY <1>0, <1>3 DEF KeepaliveTimeout
    <2>2. To(t, "lost", p, 0, "loop")
      BY <1>0, <2>1, Moves, Put
    <2>3. TimesOut(t, p)
      BY <1>3, <2>1, <2>2
         DEF KeepaliveTimeout, TimesOut, fields, network, inbound, events, KeepAll,
             KeepFields, KeepBytes, KeepBuffers, KeepCounts, KeepLosses, KeepEvents,
             KeepAsked, KeepStreams, KeepMade
    <2> QED
      BY <2>3 DEF ReaderDoes, p
  <1>4. ASSUME NEW n \in 1..MaxBytes, Recv(t, n) PROVE ReaderDoes(t, Works(t))
    <2>1. n \in Nat
      BY <1>0
    <2> QED
      BY <1>4, <2>1, RecvKinds DEF ReaderDoes
  <1>5. CASE CountInbound(t)
    BY <1>5, CountKinds DEF ReaderDoes
  <1>6. CASE ParseFrame(t)
    BY <1>6, ParseKinds DEF ReaderDoes
  <1>7. CASE Trim(t)
    BY <1>7, TrimKinds DEF ReaderDoes
  <1>8. CASE Release(t)
    <2>1. thread[t].at = "release" /\ GiveBack(t, "loop") /\ thread[t].proto = Works(t)
      BY <1>8, Workers DEF Release, HandlePlaces
    <2>2. Returns(t, Works(t), "release", "loop")
      BY <1>0, <2>1, GivesBack
    <2> QED
      BY <2>2 DEF ReaderDoes
  <1> QED
    BY <1>1, <1>2, <1>3, <1>4, <1>5, <1>6, <1>7, <1>8

LEMMA Kinds ==
    ASSUME TypeOK, PlacesInv, [Next]_vars
    PROVE  Kind
  <1>1. CASE UNCHANGED vars
    BY <1>1 DEF Kind, Rests, vars, fields, network, inbound, events, KeepAll, KeepFields,
                KeepBytes, KeepBuffers, KeepCounts, KeepLosses, KeepEvents, KeepAsked,
                KeepStreams, KeepMade
  <1>2. ASSUME NEW c \in Conns, PeerCloses(c) PROVE Kind
    <2>1. \A d \in Conns : link'[d] = link[d] \/ (link[d] = "up" /\ link'[d] = "eof")
      BY <1>2 DEF PeerCloses, TypeOK
    <2> QED
      BY <1>2, <2>1
         DEF PeerCloses, Kind, Rests, fields, inbound, events, KeepAll, KeepFields,
             KeepBytes, KeepBuffers, KeepCounts, KeepLosses, KeepEvents, KeepAsked,
             KeepStreams, KeepMade
  <1> QED
    BY <1>1, <1>2, AppKinds, ReaderKinds, LossKinds, Constants
       DEF Next, Application, Reader, HandleData, ReaderKind, Kind
----------------------------------------------------------------------------
(* Where the threads are.                                                  *)

\* What holds of the places of one reader.
ReaderPlaced(c) ==
    /\ thread[c].at \in ReaderPlaces
    /\ thread[c].back \in {"loop", "ended"}
    /\ thread[c].at \in {"off", "start"} => thread[c].proto = None
    /\ thread[c].at \in HandlePlaces \cup LossPlaces => thread[c].proto \in Conns
    /\ thread[c].proto \in Conns => /\ thread[c].proto <= created
                                    /\ thread[thread[c].proto].at # "off"
    /\ thread[c].at # "off" => c <= created

AppPlaced ==
    /\ thread[App].at \in AppPlaces
    /\ thread[App].at # "idle" => created > 0 /\ thread[App].proto = created
    /\ thread[App].at \in LossPlaces => thread[App].back = "cleanup"
    /\ thread[App].at = "establish" => thread[created].at = "off" /\ ~connected
    /\ thread[App].at \in {"handshake"} \cup LossPlaces => thread[created].at # "off"

LEMMA PlacesParts == PlacesInv <=> AppPlaced /\ \A c \in Conns : ReaderPlaced(c)
  BY DEF PlacesInv, AppPlaced, ReaderPlaced

LEMMA PlacesParts2 == PlacesInv' <=> AppPlaced' /\ \A c \in Conns : ReaderPlaced(c)'
  BY DEF PlacesInv, AppPlaced, ReaderPlaced

\* A thread that moved, and the others.
LEMMA Moved ==
    ASSUME NEW t \in Threads, NEW place, NEW p, NEW n, NEW back,
           To(t, place, p, n, back)
    PROVE  /\ thread'[t].at = place /\ thread'[t].proto = p /\ thread'[t].n = n
           /\ thread'[t].back = back
           /\ \A u \in Threads : u # t => thread'[u] = thread[u]
  BY DEF To, At

LEMMA PlacesApp ==
    ASSUME TypeOK, PlacesInv, FieldsInv, AppKind
    PROVE  PlacesInv'
  <1>0. /\ created \in Nat /\ \A c \in Conns : c \in Nat /\ c > 0 /\ c \in Threads /\ c # App
        /\ App \in Threads
    BY Constants DEF TypeOK
  <1>1. /\ AppPlaced /\ \A c \in Conns : ReaderPlaced(c)
    BY PlacesParts
  <1>2. CASE Opens
    <2>1. created' = created + 1 /\ created' \in Conns /\ connected' = connected /\ ~connected
      BY <1>2 DEF Opens
    <2>2. /\ thread'[App].at \in {"establish", "cleanup"} /\ thread'[App].proto = created'
          /\ \A u \in Threads : u # App => thread'[u] = thread[u]
      <3>1. CASE To(App, "establish", created + 1, 0, "cleanup")
        BY <1>0, <2>1, <3>1, Moved
      <3>2. CASE To(App, "cleanup", created + 1, 0, "cleanup")
        BY <1>0, <2>1, <3>2, Moved
      <3> QED
        BY <1>2, <3>1, <3>2 DEF Opens
    <2>3. ASSUME NEW c \in Conns PROVE ReaderPlaced(c)'
      <3>1. /\ thread'[c] = thread[c] /\ \A d \in Conns : thread'[d] = thread[d]
            /\ created' = created + 1 /\ c \in Nat
        BY <1>0, <2>1, <2>2
      <3>2. \A d \in Conns : d <= created => d <= created + 1
        BY <1>0
      <3>3. PICK p : p = thread[c].proto
        OBVIOUS
      <3>4. p \in Conns => p <= created' /\ thread'[p].at # "off"
        BY <1>1, <3>1, <3>2, <3>3 DEF ReaderPlaced
      <3>5. thread[c].at # "off" => c <= created'
        BY <1>0, <1>1, <3>1 DEF ReaderPlaced
      <3> QED
        BY <1>1, <3>1, <3>3, <3>4, <3>5 DEF ReaderPlaced
    <2>4. thread[created'].at = "off"
      <3>1. ReaderPlaced(created')
        BY <1>1, <2>1
      <3>2. ~(created' <= created)
        BY <1>0, <2>1
      <3> QED
        BY <3>1, <3>2 DEF ReaderPlaced
    <2>5. AppPlaced'
      BY <1>0, <2>1, <2>2, <2>4 DEF AppPlaced, AppPlaces, LossPlaces, FailPlaces
    <2> QED
      BY <2>3, <2>5, PlacesParts2
  <1>3. CASE Establishes
    <2>1. /\ thread'[App].at = "handshake" /\ thread'[App].proto = created
          /\ thread'[created].at = "start" /\ thread'[created].proto = None
          /\ thread'[created].back = thread[created].back
          /\ \A u \in Threads : u # App /\ u # created => thread'[u] = thread[u]
          /\ created' = created /\ created \in Conns
      BY <1>3 DEF Establishes, At, KeepMade
    <2>2. ASSUME NEW c \in Conns PROVE ReaderPlaced(c)'
      <3>1. \A d \in Conns : thread[d].at # "off" => thread'[d].at # "off"
        BY <1>0, <2>1
      <3>2. CASE c = created
        <4>1. /\ thread'[c].at = "start" /\ thread'[c].proto = None
              /\ thread'[c].back \in {"loop", "ended"} /\ c <= created'
          BY <1>0, <1>1, <2>1, <3>2 DEF ReaderPlaced
        <4>2. None \notin Conns
          BY Constants
        <4> QED
          BY <4>1, <4>2
             DEF ReaderPlaced, ReaderPlaces, LoopPlaces, HandlePlaces, LossPlaces, FailPlaces
      <3>3. CASE c # created
        <4>1. thread'[c] = thread[c]
          BY <1>0, <2>1, <3>3
        <4> QED
          BY <1>1, <2>1, <3>1, <4>1 DEF ReaderPlaced
      <3> QED
        BY <3>2, <3>3
    <2>3. AppPlaced'
      BY <1>0, <2>1 DEF AppPlaced, AppPlaces, LossPlaces, FailPlaces
    <2> QED
      BY <2>2, <2>3, PlacesParts2
  <1>4. CASE EndsHandshake \/ Clears
    <2>1. /\ thread'[App].at \in {"idle", "cleanup"} /\ thread'[App].proto = created
          /\ \A u \in Threads : u # App => thread'[u] = thread[u]
          /\ created' = created
          /\ thread[App].at # "idle"
      BY <1>0, <1>4, Moved DEF EndsHandshake, Clears, KeepMade
    <2>2. ASSUME NEW c \in Conns PROVE ReaderPlaced(c)'
      BY <1>0, <1>1, <2>1 DEF ReaderPlaced
    <2>3. AppPlaced'
      BY <1>0, <1>1, <2>1 DEF AppPlaced, AppPlaces, LossPlaces, FailPlaces
    <2> QED
      BY <2>2, <2>3, PlacesParts2
  <1>5. CASE Disconnects
    <2>1. /\ thread'[App].at = "lost" /\ thread'[App].proto = protocol
          /\ thread'[App].back = "cleanup"
          /\ \A u \in Threads : u # App => thread'[u] = thread[u]
          /\ created' = created
      BY <1>0, <1>5, Moved DEF Disconnects, KeepAll, KeepMade
    <2>2. protocol = created /\ thread[created].at # "off" /\ created \in Conns
      BY <1>5 DEF Disconnects, FieldsInv, TypeOK
    <2>3. ASSUME NEW c \in Conns PROVE ReaderPlaced(c)'
      BY <1>0, <1>1, <2>1 DEF ReaderPlaced
    <2>4. AppPlaced'
      BY <1>0, <2>1, <2>2 DEF AppPlaced, AppPlaces, LossPlaces, FailPlaces
    <2> QED
      BY <2>3, <2>4, PlacesParts2
  <1>6. CASE Closes
    <2>1. /\ thread'[App].at = "clear" /\ thread'[App].proto = created
          /\ \A u \in Threads : u # App => thread'[u] = thread[u]
          /\ created' = created /\ thread[App].at # "idle"
      BY <1>0, <1>6, Moved DEF Closes, KeepAll, KeepMade
    <2>2. ASSUME NEW c \in Conns PROVE ReaderPlaced(c)'
      BY <1>0, <1>1, <2>1 DEF ReaderPlaced
    <2>3. AppPlaced'
      BY <1>0, <1>1, <2>1 DEF AppPlaced, AppPlaces, LossPlaces, FailPlaces
    <2> QED
      BY <2>2, <2>3, PlacesParts2
  <1>7. CASE Sends
    <2>1. thread' = thread /\ created' = created /\ connected' = connected
      BY <1>7 DEF Sends, KeepFields, KeepMade
    <2>2. AppPlaced' /\ \A c \in Conns : ReaderPlaced(c)'
      BY <1>1, <2>1 DEF AppPlaced, ReaderPlaced
    <2> QED
      BY <2>2, PlacesParts2
  <1> QED
    BY <1>2, <1>3, <1>4, <1>5, <1>6, <1>7 DEF AppKind

\* How a reader may move: everything that the kinds have in common.
ReaderMoves(c) ==
    /\ thread[c].at \notin {"off", "ended"}
    /\ \A u \in Threads : u # c => thread'[u] = thread[u]
    /\ created' = created
    /\ connected' => connected
    /\ thread'[c].at \in ReaderPlaces \ {"off", "start"}
    /\ thread'[c].proto \in Conns => /\ thread'[c].proto <= created
                                     /\ thread[thread'[c].proto].at # "off"
    /\ thread'[c].back \in {"loop", "ended"}
    /\ thread'[c].at \in HandlePlaces \cup LossPlaces => thread'[c].proto \in Conns

LEMMA PlacesOfReader ==
    ASSUME TypeOK, PlacesInv, NEW c \in Conns, ReaderMoves(c)
    PROVE  PlacesInv'
  <1>0. /\ created \in Nat /\ \A d \in Conns : d \in Nat /\ d > 0 /\ d \in Threads /\ d # App
        /\ App \in Threads
    BY Constants DEF TypeOK
  <1>1. /\ AppPlaced /\ \A d \in Conns : ReaderPlaced(d)
    BY PlacesParts
  <1>a. \A d \in Conns : thread[d].at # "off" => thread'[d].at # "off"
    BY <1>0 DEF ReaderMoves
  <1>2. ASSUME NEW d \in Conns PROVE ReaderPlaced(d)'
    <2>1. CASE d = c
      <3>1. thread'[c].proto \in Conns => thread'[thread'[c].proto].at # "off"
        BY <1>a DEF ReaderMoves
      <3>2. c <= created
        BY <1>1 DEF ReaderPlaced, ReaderMoves
      <3> QED
        BY <2>1, <3>1, <3>2 DEF ReaderPlaced, ReaderMoves
    <2>2. CASE d # c
      <3>1. thread'[d] = thread[d] /\ created' = created
        BY <1>0, <2>2 DEF ReaderMoves
      <3> QED
        BY <1>1, <1>a, <3>1 DEF ReaderPlaced
    <2> QED
      BY <2>1, <2>2
  <1>3. AppPlaced'
    <2>1. thread'[App] = thread[App] /\ created' = created /\ (connected' => connected)
      BY <1>0 DEF ReaderMoves
    <2>2. thread[App].at # "idle" => created \in Conns
      BY <1>0, <1>1, Constants DEF AppPlaced, TypeOK
    <2>3. created \in Conns => (thread[created].at = "off" <=> thread'[created].at = "off")
      <3>1. thread'[c].at # "off" /\ thread[c].at # "off"
        BY DEF ReaderMoves, ReaderPlaces
      <3>2. created \in Conns /\ created # c => thread'[created] = thread[created]
        BY <1>0 DEF ReaderMoves
      <3> QED
        BY <3>1, <3>2
    <2>4. thread'[App].at = "establish" => thread'[created].at = "off" /\ ~connected'
      BY <1>1, <2>1, <2>2, <2>3 DEF AppPlaced
    <2>5. thread'[App].at \in {"handshake"} \cup LossPlaces => thread'[created].at # "off"
      BY <1>1, <2>1, <2>2, <2>3 DEF AppPlaced, LossPlaces, FailPlaces
    <2> QED
      BY <1>1, <2>1, <2>4, <2>5 DEF AppPlaced
  <1> QED
    BY <1>2, <1>3, PlacesParts2

\* A reader that does something: where it goes, and what it leaves alone.
LEMMA ReaderGoes ==
    ASSUME TypeOK, PlacesInv, FieldsInv, NEW c \in Conns, ReaderDoes(c, Works(c))
    PROVE  ReaderMoves(c)
  <1> DEFINE p == Works(c)
             Fine(q) == q <= created /\ thread[q].at # "off"
  <1>0. c \in Threads /\ p \in Conns /\ created \in Nat
        /\ (thread[c].proto # None => p = thread[c].proto)
        /\ (thread[c].proto = None \/ thread[c].proto = p)
        /\ protocol \in Conns \cup {None} /\ None \notin Conns
    <2>1. c \in Threads /\ None \notin Conns
      BY Constants
    <2>2. created \in Nat /\ protocol \in Conns \cup {None}
          /\ thread[c].proto \in Conns \cup {None}
      BY <2>1, Workers DEF TypeOK
    <2> QED
      BY <2>1, <2>2 DEF Works
  <1>a. thread[c].back \in {"loop", "ended"}
    BY PlacesParts DEF ReaderPlaced
  <1>b. thread[c].proto # None => Fine(p)
    BY <1>0, PlacesParts DEF ReaderPlaced
  <1>c. protocol # None => Fine(protocol)
    BY DEF FieldsInv
  <1>d. ReaderDoes(c, p)
    OBVIOUS
  <1> HIDE DEF p, Fine
  <1>1. ASSUME NEW place \in ReaderPlaces \ {"off", "start"}, NEW n,
               NEW back \in {"loop", "ended"}, NEW q \in {None, p, protocol},
               q # None => Fine(q),
               place \in HandlePlaces \cup LossPlaces => q # None,
               To(c, place, q, n, back), thread[c].at \notin {"off", "ended"},
               created' = created, connected' => connected
        PROVE  ReaderMoves(c)
    <2>1. /\ thread'[c].at = place /\ thread'[c].proto = q /\ thread'[c].back = back
          /\ \A u \in Threads : u # c => thread'[u] = thread[u]
      BY <1>0, <1>1, Moved
    <2>2. q # None => q \in Conns
      BY <1>0, <1>1
    <2> QED
      BY <1>0, <1>1, <2>1, <2>2 DEF ReaderMoves, Fine
  <1>e. /\ {"loop", "recv", "lost", "ended", "count", "parse", "trim", "release"}
              \subseteq ReaderPlaces \ {"off", "start"}
        /\ {"loop", "recv", "ended"} \cap (HandlePlaces \cup LossPlaces) = {}
    BY DEF ReaderPlaces, LoopPlaces, HandlePlaces, LossPlaces, FailPlaces
  <1>2. CASE Begins(c)
    <2>1. /\ To(c, "loop", protocol, 0, "ended") /\ thread[c].at = "start"
          /\ created' = created /\ connected' = connected
      BY <1>2 DEF Begins, KeepAll, KeepFields, KeepMade
    <2> QED
      BY <1>c, <1>e, <1>1, <2>1
  <1>3. CASE Waits(c)
    <2>1. /\ To(c, "recv", thread[c].proto, thread[c].n, thread[c].back)
          /\ thread[c].at = "loop" /\ created' = created /\ connected' = connected
      BY <1>3 DEF Waits, KeepAll, KeepFields, KeepMade
    <2> QED
      BY <1>0, <1>a, <1>b, <1>e, <1>1, <2>1
  <1>4. CASE Leaves(c, p)
    <2>1. /\ thread[c].at \in {"loop", "recv", "parse"}
          /\ \/ thread[c].proto = None /\ To(c, "ended", None, thread[c].n, thread[c].back)
             \/ thread[c].proto # None /\ To(c, "lost", p, 0, "ended")
          /\ created' = created /\ connected' = connected
      BY <1>4 DEF Leaves, KeepFields, KeepMade
    <2>2. CASE thread[c].proto = None /\ To(c, "ended", None, thread[c].n, thread[c].back)
      BY <1>a, <1>e, <1>1, <2>1, <2>2
    <2>3. CASE thread[c].proto # None /\ To(c, "lost", p, 0, "ended")
      BY <1>0, <1>b, <1>e, <1>1, <2>1, <2>3
    <2> QED
      BY <2>1, <2>2, <2>3
  <1>5. ASSUME NEW place \in {"loop", "lost", "count", "parse", "trim", "release"}, NEW n,
               NEW back \in {"loop", "ended", thread[c].back},
               To(c, place, p, n, back), thread[c].proto = p,
               thread[c].at \notin {"off", "ended"},
               created' = created, connected' = connected
        PROVE  ReaderMoves(c)
    BY <1>0, <1>a, <1>b, <1>e, <1>1, <1>5
  <1>6. CASE Turns(c, p) \/ TimesOut(c, p)
    <2>1. /\ thread[c].at = "recv" /\ thread[c].proto = p
          /\ To(c, "loop", p, thread[c].n, thread[c].back) \/ To(c, "lost", p, 0, "loop")
          /\ created' = created /\ connected' = connected
      BY <1>6 DEF Turns, TimesOut, KeepAll, KeepFields, KeepMade
    <2> QED
      BY <1>5, <2>1
  <1>7. ASSUME NEW s \in Conns, NEW n \in Nat, Gets(c, p, s, n) PROVE ReaderMoves(c)
    <2>1. /\ To(c, "count", p, n, thread[c].back) /\ thread[c].at = "recv"
          /\ thread[c].proto = p /\ created' = created /\ connected' = connected
      BY <1>7 DEF Gets, KeepFields, KeepMade
    <2> QED
      BY <1>5, <2>1
  <1>8. CASE Counts(c, p)
    <2>1. /\ To(c, "parse", p, 0, thread[c].back) /\ thread[c].at = "count"
          /\ thread[c].proto = p /\ created' = created /\ connected' = connected
      BY <1>8 DEF Counts, KeepFields, KeepMade
    <2> QED
      BY <1>5, <2>1
  <1>9. CASE Stops(c, p)
    <2>1. /\ To(c, "trim", p, thread[c].n, thread[c].back) /\ thread[c].at = "parse"
          /\ thread[c].proto = p /\ created' = created /\ connected' = connected
      BY <1>9 DEF Stops, KeepAll, KeepFields, KeepMade
    <2> QED
      BY <1>5, <2>1
  <1>10. ASSUME NEW size \in Nat, NEW k \in Nat, Takes(c, p, size, k) PROVE ReaderMoves(c)
    <2>1. /\ To(c, "parse", p, thread[c].n + size, thread[c].back) /\ thread[c].at = "parse"
          /\ thread[c].proto = p /\ created' = created /\ connected' = connected
      BY <1>10 DEF Takes, KeepFields, KeepMade
    <2> QED
      BY <1>5, <2>1
  <1>11. CASE Trims(c, p)
    <2>1. /\ To(c, "release", p, Least(thread[c].n, reserved[p]), thread[c].back)
          /\ thread[c].at = "trim"
          /\ thread[c].proto = p /\ created' = created /\ connected' = connected
      BY <1>11 DEF Trims, KeepFields, KeepMade
    <2> QED
      BY <1>5, <2>1
  <1>12. CASE Returns(c, p, "release", "loop")
    <2>1. /\ To(c, "loop", p, 0, thread[c].back) /\ thread[c].at = "release"
          /\ thread[c].proto = p /\ created' = created /\ connected' = connected
      BY <1>12 DEF Returns, KeepFields, KeepMade
    <2> QED
      BY <1>5, <2>1
  <1> QED
    BY <1>d, <1>2, <1>3, <1>4, <1>6, <1>7, <1>8, <1>9, <1>10, <1>11, <1>12 DEF ReaderDoes

LEMMA ReaderKeeps ==
    ASSUME NEW c \in Conns, NEW p, ReaderDoes(c, p)
    PROVE  link' = link /\ KeepFields /\ KeepLosses /\ KeepEvents /\ KeepMade
  BY DEF ReaderDoes, Begins, Waits, Turns, Leaves, TimesOut, Gets, Counts, Stops, Takes,
         Trims, Returns, KeepAll

\* The same of a thread that handles a loss.
LossNext == {"setLost"} \cup FailPlaces

LEMMA LossGoes ==
    ASSUME TypeOK, NEW t \in Threads, NEW p \in Conns, LossDoes(t, p)
    PROVE  /\ thread[t].at \in LossPlaces /\ thread[t].proto = p
           /\ thread'[t].proto = p
           /\ \/ /\ thread'[t].at \in LossNext \cup {thread[t].back}
                 /\ thread'[t].back = thread[t].back
              \/ /\ Breaks(t, p)
                 /\ \/ /\ thread[t].back = "cleanup" /\ thread'[t].at = "idle"
                       /\ thread'[t].back = "cleanup"
                    \/ /\ thread[t].back \in {"loop", "ended"}
                       /\ thread'[t].at \in {"lost", "ended"} /\ thread'[t].back = "ended"
           /\ \A u \in Threads : u # t => thread'[u] = thread[u]
           /\ socket' = socket /\ protocol' = protocol /\ (connected' => connected)
           /\ KeepMade /\ KeepStreams /\ KeepBuffers
  <1>1. /\ thread[t].at \in LossPlaces /\ thread[t].proto = p
        /\ socket' = socket /\ protocol' = protocol /\ (connected' => connected)
        /\ KeepMade /\ KeepStreams /\ KeepBuffers
    BY DEF LossDoes, Tests, Sets, Sweeps, Returns, Unsets, Drains, Breaks, Ends, KeepAll,
           KeepFields, KeepBytes, LossPlaces, FailPlaces
  <1>2. ASSUME NEW place \in LossNext \cup {thread[t].back}, NEW n,
               To(t, place, p, n, thread[t].back)
        PROVE  /\ thread'[t].at \in LossNext \cup {thread[t].back}
               /\ thread'[t].proto = p /\ thread'[t].back = thread[t].back
               /\ \A u \in Threads : u # t => thread'[u] = thread[u]
    BY <1>2, Moved
  <1>3. CASE Breaks(t, p)
    <2>1. CASE thread[t].back = "cleanup" /\ To(t, "idle", p, thread[t].n, thread[t].back)
      BY <1>1, <1>3, <2>1, Moved
    <2>2. CASE thread[t].back = "loop" /\ To(t, "lost", p, 0, "ended")
      BY <1>1, <1>3, <2>2, Moved
    <2>3. CASE thread[t].back = "ended" /\ To(t, "ended", p, thread[t].n, thread[t].back)
      BY <1>1, <1>3, <2>3, Moved
    <2> QED
      BY <1>3, <2>1, <2>2, <2>3 DEF Breaks
  <1>4. CASE ~Breaks(t, p)
    <2>1. \E place \in LossNext \cup {thread[t].back} : \E n :
             To(t, place, p, n, thread[t].back)
      <3>1. CASE Tests(t, p)
        BY <3>1 DEF Tests, LossNext
      <3>2. CASE Sets(t, p) \/ Sweeps(t, p) \/ Unsets(t, p) \/ Drains(t, p) \/ Ends(t, p)
        BY <3>2 DEF Sets, Sweeps, Unsets, Drains, Ends, LossNext, FailPlaces
      <3>3. CASE Returns(t, p, "giveBack", "unset")
        BY <3>3 DEF Returns, LossNext, FailPlaces
      <3> QED
        BY <1>4, <3>1, <3>2, <3>3 DEF LossDoes
    <2> QED
      BY <1>1, <1>2, <2>1
  <1> QED
    BY <1>3, <1>4

LEMMA PlacesStep ==
    ASSUME TypeOK, PlacesInv, FieldsInv, Kind
    PROVE  PlacesInv'
  <1>0. /\ \A c \in Conns : c \in Threads /\ c # App
        /\ App \in Threads /\ created \in Nat
    BY Constants DEF TypeOK
  <1>1. /\ AppPlaced /\ \A c \in Conns : ReaderPlaced(c)
    BY PlacesParts
  <1>3. CASE Rests
    <2>1. thread' = thread /\ created' = created /\ connected' = connected
      BY <1>3 DEF Rests, KeepAll, KeepFields, KeepMade
    <2> QED
      BY <2>1 DEF PlacesInv
  <1>5. CASE ReaderKind
    BY <1>5, ReaderGoes, PlacesOfReader DEF ReaderKind
  <1>6. ASSUME NEW t \in Threads, NEW p \in Conns, LossDoes(t, p)
        PROVE  PlacesInv'
    <2>1. thread[t].at \in LossPlaces /\ created' = created /\ (connected' => connected)
          /\ thread[t].proto = p
      BY <1>6, LossGoes DEF KeepMade
    <2>2. /\ thread'[t].proto = p /\ \A u \in Threads : u # t => thread'[u] = thread[u]
          /\ \/ /\ thread'[t].at \in LossNext \cup {thread[t].back}
                /\ thread'[t].back = thread[t].back
             \/ /\ thread[t].back = "cleanup" /\ thread'[t].at = "idle"
                /\ thread'[t].back = "cleanup"
             \/ /\ thread[t].back \in {"loop", "ended"}
                /\ thread'[t].at \in {"lost", "ended"} /\ thread'[t].back = "ended"
      BY <1>6, LossGoes
    <2>3. CASE t \in Conns
      <3>1. /\ thread[t].back \in {"loop", "ended"}
            /\ p <= created /\ thread[p].at # "off"
        BY <1>1, <2>1, <2>3 DEF ReaderPlaced
      <3>2. /\ thread'[t].at \in ReaderPlaces \ {"off", "start"}
            /\ thread'[t].back \in {"loop", "ended"}
        BY <2>2, <3>1
           DEF LossNext, ReaderPlaces, LoopPlaces, HandlePlaces, LossPlaces, FailPlaces
      <3>3. thread[t].at \notin {"off", "ended"}
        BY <2>1 DEF LossPlaces, FailPlaces
      <3>4. ReaderMoves(t)
        BY <2>1, <2>2, <2>3, <3>1, <3>2, <3>3 DEF ReaderMoves
      <3> QED
        BY <2>3, <3>4, PlacesOfReader
    <2>4. CASE t = App
      <3>1. /\ thread[App].back = "cleanup" /\ thread[created].at # "off"
            /\ created > 0 /\ thread[App].proto = created /\ thread[App].at # "idle"
        BY <1>1, <2>1, <2>4 DEF AppPlaced, LossPlaces, FailPlaces
      <3>2. created \in Conns /\ p = created
        BY <2>1, <2>4, <3>1
      <3>3. /\ thread'[App].at \in LossNext \cup {"cleanup", "idle"}
            /\ thread'[App].proto = created /\ thread'[App].back = "cleanup"
            /\ \A u \in Conns : thread'[u] = thread[u]
        BY <1>0, <2>2, <2>4, <3>1, <3>2
      <3>4. \A c \in Conns : ReaderPlaced(c)'
        BY <1>1, <2>1, <3>3 DEF ReaderPlaced
      <3>5. AppPlaced'
        BY <2>1, <3>1, <3>2, <3>3 DEF AppPlaced, AppPlaces, LossNext, LossPlaces, FailPlaces
      <3> QED
        BY <3>4, <3>5, PlacesParts2
    <2> QED
      BY <2>3, <2>4, Constants
  <1>7. CASE LossKind
    BY <1>6, <1>7 DEF LossKind
  <1> QED
    BY <1>3, <1>5, <1>7, PlacesApp DEF Kind

----------------------------------------------------------------------------
(* The fields of the client.                                               *)

\* A step that gives the client no other socket and no other protocol.
Quiet ==
    /\ socket' = socket /\ protocol' = protocol /\ (connected' => connected)
    /\ created' = created
    /\ \A c \in Conns : /\ link[c] # "none" => link'[c] # "none"
                        /\ thread'[c].at = "off" <=> thread[c].at = "off"
                        /\ c > created \/ thread[c].at = "off" =>
                              lost'[c] = lost[c] /\ announced'[c] = announced[c]
    /\ thread'[App].at \notin {"establish", "cleanup", "clear"} =>
          thread[App].at \notin {"establish", "cleanup", "clear"}
    /\ thread'[App].at \in {"establish", "handshake"} => thread'[App].at = thread[App].at

LEMMA QuietReader ==
    ASSUME TypeOK, PlacesInv, FieldsInv, NEW c \in Conns, ReaderDoes(c, Works(c))
    PROVE  Quiet
  <1>0. \A d \in Conns : d \in Threads /\ d # App
    BY Constants
  <1>1. link' = link /\ KeepFields /\ KeepLosses /\ KeepEvents /\ KeepMade
    BY ReaderKeeps
  <1>2. ReaderMoves(c)
    BY ReaderGoes
  <1>3. thread'[App] = thread[App]
    BY <1>0, <1>2, Constants DEF ReaderMoves
  <1>4. \A d \in Conns : thread'[d].at = "off" <=> thread[d].at = "off"
    BY <1>0, <1>2 DEF ReaderMoves
  <1> QED
    BY <1>1, <1>3, <1>4 DEF Quiet, KeepFields, KeepLosses, KeepEvents, KeepMade

LEMMA QuietLoss ==
    ASSUME TypeOK, PlacesInv, NEW t \in Threads, NEW p \in Conns, LossDoes(t, p)
    PROVE  Quiet
  <1>0. /\ \A d \in Conns : d \in Threads /\ d # App /\ d \in Nat
        /\ created \in Nat /\ AppPlaced /\ \A c \in Conns : ReaderPlaced(c)
    BY Constants, PlacesParts DEF TypeOK
  <1>1. /\ thread[t].at \in LossPlaces /\ thread[t].proto = p
        /\ \/ thread'[t].at \in LossNext \cup {thread[t].back}
           \/ thread[t].back = "cleanup" /\ thread'[t].at = "idle"
           \/ thread[t].back \in {"loop", "ended"} /\ thread'[t].at \in {"lost", "ended"}
        /\ \A u \in Threads : u # t => thread'[u] = thread[u]
        /\ socket' = socket /\ protocol' = protocol /\ (connected' => connected)
        /\ created' = created
    BY LossGoes DEF KeepMade
  <1>2. thread[p].at # "off" /\ p <= created
    <2>1. CASE t \in Conns
      BY <1>0, <1>1, <2>1 DEF ReaderPlaced
    <2>2. CASE t = App
      BY <1>0, <1>1, <2>2 DEF AppPlaced, LossPlaces, FailPlaces
    <2> QED
      BY <2>1, <2>2, Constants
  <1>3. \A c \in Conns : /\ link[c] # "none" => link'[c] # "none"
                         /\ c # p => lost'[c] = lost[c] /\ announced'[c] = announced[c]
    <2>1. CASE Tests(t, p) \/ Sets(t, p) \/ Sweeps(t, p) \/ Returns(t, p, "giveBack", "unset")
                  \/ Unsets(t, p) \/ Drains(t, p) \/ Breaks(t, p)
      BY <2>1 DEF Tests, Sets, Sweeps, Returns, Unsets, Drains, Breaks, KeepAll, KeepLosses,
                  KeepEvents
    <2>2. CASE Ends(t, p)
      BY <2>2 DEF Ends, Told, KeepLosses
    <2> QED
      BY <2>1, <2>2 DEF LossDoes
  <1>4. \A c \in Conns : c > created \/ thread[c].at = "off" =>
                            lost'[c] = lost[c] /\ announced'[c] = announced[c]
    BY <1>0, <1>2, <1>3
  <1>5. \A c \in Conns : thread'[c].at = "off" <=> thread[c].at = "off"
    <2>1. t \in Conns => thread[t].back \in {"loop", "ended"}
      BY <1>0 DEF ReaderPlaced
    <2> QED
      BY <1>0, <1>1, <2>1 DEF LossNext, LossPlaces, FailPlaces
  <1>6. /\ thread'[App].at \notin {"establish", "cleanup", "clear"} =>
              thread[App].at \notin {"establish", "cleanup", "clear"}
        /\ thread'[App].at \in {"establish", "handshake"} => thread'[App].at = thread[App].at
    <2>1. CASE t = App
      <3>1. thread[App].back = "cleanup"
        BY <1>0, <1>1, <2>1 DEF AppPlaced
      <3> QED
        BY <1>1, <2>1, <3>1 DEF LossNext, LossPlaces, FailPlaces
    <2>2. CASE t # App
      BY <1>1, <2>2, Constants
    <2> QED
      BY <2>1, <2>2
  <1> QED
    BY <1>1, <1>3, <1>4, <1>5, <1>6 DEF Quiet

LEMMA QuietApp ==
    ASSUME TypeOK, PlacesInv,
           Rests \/ EndsHandshake \/ Disconnects \/ Closes \/ Sends
    PROVE  Quiet
  <1>0. /\ \A d \in Conns : d \in Threads /\ d # App /\ d \in Nat
        /\ created \in Nat /\ App \in Threads /\ AppPlaced
    BY Constants, PlacesParts DEF TypeOK
  <1>1. CASE Rests
    BY <1>1 DEF Rests, KeepAll, KeepFields, KeepMade, KeepLosses, KeepEvents, Quiet
  <1>2. CASE EndsHandshake
    <2>1. /\ thread'[App].at \in {"idle", "cleanup"}
          /\ \A u \in Threads : u # App => thread'[u] = thread[u]
          /\ thread[App].at = "handshake"
      BY <1>0, <1>2, Moved DEF EndsHandshake
    <2>2. \A c \in Conns : c # created => announced'[c] = announced[c]
      BY <1>2 DEF EndsHandshake, Told
    <2>3. thread[created].at # "off"
      BY <1>0, <2>1 DEF AppPlaced
    <2>4. /\ link' = link /\ KeepFields /\ KeepLosses /\ KeepMade
      BY <1>2 DEF EndsHandshake
    <2>5. \A c \in Conns : c > created \/ thread[c].at = "off" =>
                              lost'[c] = lost[c] /\ announced'[c] = announced[c]
      BY <1>0, <2>2, <2>3, <2>4 DEF KeepLosses
    <2> QED
      BY <1>0, <2>1, <2>4, <2>5 DEF Quiet, KeepFields, KeepMade
  <1>3. CASE Disconnects \/ Closes
    <2>1. /\ thread'[App].at \in {"lost", "clear"}
          /\ thread'[App].at = "lost" => thread[App].at = "idle"
          /\ \A u \in Threads : u # App => thread'[u] = thread[u]
      BY <1>0, <1>3, Moved DEF Disconnects, Closes
    <2>2. KeepAll /\ \A d \in Conns : link'[d] \in {link[d], "closed"}
      BY <1>3 DEF Disconnects, Closes
    <2> QED
      BY <1>0, <2>1, <2>2 DEF Quiet, KeepAll, KeepFields, KeepMade, KeepLosses, KeepEvents
  <1>4. CASE Sends
    BY <1>4 DEF Sends, KeepFields, KeepMade, KeepLosses, Quiet
  <1> QED
    BY <1>1, <1>2, <1>3, <1>4

LEMMA FieldsStep ==
    ASSUME TypeOK, PlacesInv, FieldsInv, TypeOK', PlacesInv', Kind
    PROVE  FieldsInv'
  <1>0. /\ \A c \in Conns : c \in Threads /\ c # App /\ c \in Nat
        /\ App \in Threads /\ created \in Nat /\ AppPlaced /\ AppPlaced'
        /\ None \notin Conns
        /\ \A c \in Conns : ReaderPlaced(c)
        /\ protocol \in Conns \cup {None}
    BY Constants, PlacesParts, PlacesParts2 DEF TypeOK
  <1>1. CASE Quiet
    <2>1. connected' => /\ created' > 0 /\ socket' = created' /\ protocol' = created'
                        /\ link'[created'] # "none" /\ thread'[created'].at # "off"
      <3>1. SUFFICES ASSUME connected' PROVE /\ created > 0 /\ socket = created
                               /\ protocol = created /\ link'[created] # "none"
                               /\ thread'[created].at # "off"
        BY <1>1 DEF Quiet
      <3>2. connected
        BY <1>1, <3>1 DEF Quiet
      <3>3. /\ created > 0 /\ socket = created /\ protocol = created
            /\ link[created] # "none" /\ thread[created].at # "off"
        BY <3>2 DEF FieldsInv
      <3>4. created \in Conns
        BY <3>3, Constants DEF TypeOK
      <3> QED
        BY <1>1, <3>3, <3>4 DEF Quiet
    <2>2. thread'[App].at = "establish" => socket' = created' /\ link'[created'] # "none"
      <3>1. SUFFICES ASSUME thread'[App].at = "establish"
                     PROVE  socket = created /\ link'[created] # "none"
        BY <1>1 DEF Quiet
      <3>2. thread[App].at = "establish"
        BY <1>1, <3>1 DEF Quiet
      <3>3. socket = created /\ link[created] # "none" /\ created > 0
        BY <1>0, <3>2 DEF FieldsInv, AppPlaced
      <3>4. created \in Conns
        BY <3>3, Constants DEF TypeOK
      <3> QED
        BY <1>1, <3>3, <3>4 DEF Quiet
    <2>3. ASSUME NEW c \in Conns
          PROVE  /\ c > created' => /\ ~lost'[c] /\ announced'[c].connect = 0
                                    /\ announced'[c].disconnect = 0
                 /\ thread'[c].at = "off" => ~lost'[c] /\ announced'[c].connect = 0
      BY <1>1 DEF Quiet, FieldsInv
    <2>4. /\ socket' \in {None, created'}
          /\ protocol' # None => protocol' <= created' /\ thread'[protocol'].at # "off"
          /\ thread'[App].at \notin {"establish", "cleanup", "clear"} =>
                protocol' \in {None, created'}
          /\ thread'[App].at = "handshake" => protocol' = created'
      BY <1>0, <1>1 DEF Quiet, FieldsInv
    <2> QED
      BY <2>1, <2>2, <2>3, <2>4 DEF FieldsInv
  <1>2. CASE Opens
    <2>1. /\ created' = created + 1 /\ created' \in Conns /\ ~connected' /\ ~connected
          /\ socket' = created' /\ protocol' = protocol
          /\ thread[App].at = "idle"
          /\ KeepLosses /\ KeepEvents
      BY <1>2 DEF Opens
    <2>2. /\ thread'[App].at \in {"establish", "cleanup"}
          /\ thread'[App].at = "establish" => link'[created'] = "up"
          /\ \A u \in Threads : u # App => thread'[u] = thread[u]
      <3>1. CASE To(App, "establish", created + 1, 0, "cleanup") /\ link'[created + 1] = "up"
        BY <1>0, <2>1, <3>1, Moved
      <3>2. CASE To(App, "cleanup", created + 1, 0, "cleanup")
        BY <1>0, <2>1, <3>2, Moved
      <3> QED
        BY <1>2, <3>1, <3>2 DEF Opens
    <2>3. ASSUME NEW c \in Conns
          PROVE  /\ c > created' => /\ ~lost'[c] /\ announced'[c].connect = 0
                                    /\ announced'[c].disconnect = 0
                 /\ thread'[c].at = "off" => ~lost'[c] /\ announced'[c].connect = 0
      <3>1. /\ thread'[c] = thread[c] /\ lost'[c] = lost[c] /\ announced'[c] = announced[c]
            /\ (c > created' => c > created)
        BY <1>0, <2>1, <2>2 DEF KeepLosses, KeepEvents
      <3>2. /\ c > created => /\ ~lost[c] /\ announced[c].connect = 0
                              /\ announced[c].disconnect = 0
            /\ thread[c].at = "off" => ~lost[c] /\ announced[c].connect = 0
        BY DEF FieldsInv
      <3> QED
        BY <3>1, <3>2
    <2>4. /\ socket' \in {None, created'}
          /\ protocol' # None => protocol' <= created' /\ thread'[protocol'].at # "off"
          /\ thread'[App].at \notin {"establish", "cleanup", "clear"} =>
                protocol' \in {None, created'}
          /\ thread'[App].at = "handshake" => protocol' = created'
          /\ thread'[App].at = "establish" => socket' = created' /\ link'[created'] # "none"
      BY <1>0, <2>1, <2>2 DEF FieldsInv
    <2> QED
      BY <2>1, <2>3, <2>4 DEF FieldsInv
  <1>3. CASE Establishes
    <2>1. /\ thread'[App].at = "handshake" /\ thread[App].at = "establish"
          /\ thread'[created].at = "start" /\ thread[created].at = "off"
          /\ \A u \in Threads : u # App /\ u # created => thread'[u] = thread[u]
          /\ created' = created /\ created \in Conns /\ created > 0
          /\ protocol' = created /\ socket' = socket /\ link' = link
          /\ KeepLosses /\ KeepEvents
      BY <1>0, <1>3, Constants DEF Establishes, At, KeepMade, AppPlaced
    <2>2. ASSUME NEW c \in Conns
          PROVE  /\ c > created' => /\ ~lost'[c] /\ announced'[c].connect = 0
                                    /\ announced'[c].disconnect = 0
                 /\ thread'[c].at = "off" => ~lost'[c] /\ announced'[c].connect = 0
      <3>1. c # created => thread'[c] = thread[c]
        BY <1>0, <2>1
      <3> QED
        BY <2>1, <3>1 DEF FieldsInv, KeepLosses, KeepEvents
    <2>3. socket = created /\ link[created] # "none"
      BY <2>1 DEF FieldsInv
    <2> QED
      BY <1>0, <2>1, <2>2, <2>3 DEF FieldsInv
  <1>4. CASE Clears
    <2>1. /\ thread'[App].at = "idle" /\ thread[App].at = "clear"
          /\ \A u \in Threads : u # App => thread'[u] = thread[u]
          /\ created' = created /\ protocol' = None /\ socket' = None /\ ~connected'
          /\ KeepLosses /\ KeepEvents
      BY <1>0, <1>4, Moved DEF Clears, KeepMade
    <2>2. ASSUME NEW c \in Conns
          PROVE  /\ c > created' => /\ ~lost'[c] /\ announced'[c].connect = 0
                                    /\ announced'[c].disconnect = 0
                 /\ thread'[c].at = "off" => ~lost'[c] /\ announced'[c].connect = 0
      BY <1>0, <2>1 DEF FieldsInv, KeepLosses, KeepEvents
    <2> QED
      BY <2>1, <2>2 DEF FieldsInv
  <1> QED
    BY <1>1, <1>2, <1>3, <1>4, QuietReader, QuietLoss, QuietApp
       DEF Kind, AppKind, ReaderKind, LossKind

----------------------------------------------------------------------------
(* The bytes of the budget.                                                *)

\* The bytes of holders, of which each has the amount h says.
Bytes(h) == UNION {{x} \X (1..h[x]) : x \in Holders}

\* They change by what one of the holders gets or gives.
LEMMA OneAmount ==
    ASSUME NEW f, NEW g, NEW x \in Holders, IsFiniteSet(Bytes(f)),
           f[x] \in Nat, g[x] \in Nat, \A y \in Holders : y # x => g[y] = f[y]
    PROVE  /\ IsFiniteSet(Bytes(g))
           /\ Cardinality(Bytes(f)) \in Nat /\ Cardinality(Bytes(g)) \in Nat
           /\ f[x] <= Cardinality(Bytes(f))
           /\ Cardinality(Bytes(g)) = Cardinality(Bytes(f)) - f[x] + g[x]
  <1> DEFINE F == Bytes(f)
             G == Bytes(g)
             R == UNION {{y} \X (1..f[y]) : y \in Holders \ {x}}
             A == {x} \X (1..f[x])
             B == {x} \X (1..g[x])
  <1>1. F = R \cup A
    BY DEF Bytes
  <1>2. G = R \cup B
    BY DEF Bytes
  <1>3. R \cap A = {} /\ R \cap B = {}
    OBVIOUS
  <1>4. IsFiniteSet(F)
    OBVIOUS
  <1>5. /\ IsFiniteSet(A) /\ Cardinality(A) = f[x]
        /\ IsFiniteSet(B) /\ Cardinality(B) = g[x]
    BY SizeOfParts
  <1> HIDE DEF F, G, R, A, B
  <1>6. IsFiniteSet(R)
    BY <1>1, <1>4, FS_Subset
  <1>7. /\ Cardinality(F) = Cardinality(R) + f[x]
        /\ IsFiniteSet(G) /\ Cardinality(G) = Cardinality(R) + g[x]
    BY <1>1, <1>2, <1>3, <1>5, <1>6, SizeOfBoth
  <1>8. Cardinality(R) \in Nat
    BY <1>6, FS_CardinalityType
  <1>9. /\ f[x] <= Cardinality(F) /\ Cardinality(F) \in Nat /\ Cardinality(G) \in Nat
        /\ Cardinality(G) = Cardinality(F) - f[x] + g[x]
    BY <1>7, <1>8
  <1> QED
    BY <1>7, <1>9 DEF F, G

\* What a thread holds and what a connection has reserved are amounts.
LEMMA Amounts ==
    ASSUME TypeOK
    PROVE  /\ \A t \in Threads : InHand(t) \in Nat
           /\ \A p \in Conns : reserved[p] \in Nat /\ late[p] \in Nat
           /\ \A t \in Threads : thread[t].n \in Nat
           /\ usedBytes \in Nat
  <1>1. \A t \in Threads : thread[t].n \in Nat
    BY DEF TypeOK
  <1>2. 0 \in Nat /\ usedBytes \in Nat
    BY Constants DEF TypeOK
  <1>3. \A p \in Conns : reserved[p] \in Nat /\ late[p] \in Nat
    BY DEF TypeOK
  <1> QED
    BY <1>1, <1>2, <1>3 DEF InHand

LEMMA Amounts2 ==
    ASSUME TypeOK'
    PROVE  /\ \A t \in Threads : InHand(t)' \in Nat
           /\ \A p \in Conns : reserved'[p] \in Nat
  <1>1. \A t \in Threads : thread'[t].n \in Nat
    BY DEF TypeOK
  <1>2. 0 \in Nat
    OBVIOUS
  <1>3. \A p \in Conns : reserved'[p] \in Nat
    BY DEF TypeOK
  <1> QED
    BY <1>1, <1>2, <1>3 DEF InHand

\* A step of one thread that works for one connection.
LEMMA HeldStep ==
    ASSUME TypeOK, TypeOK', IsFiniteSet(Held), NEW t \in Threads, NEW p \in Conns,
           \A u \in Threads : u # t => InHand(u)' = InHand(u),
           \A d \in Conns : d # p => reserved'[d] = reserved[d]
    PROVE  /\ IsFiniteSet(Held') /\ Cardinality(Held) \in Nat
           /\ InHand(t) + reserved[p] <= Cardinality(Held)
           /\ Cardinality(Held') = Cardinality(Held) - InHand(t) - reserved[p]
                                      + InHand(t)' + reserved'[p]
  <1> DEFINE x == <<"connection", p>>
             y == <<"thread", t>>
             f == [h \in Holders |-> Amount(h)]
             g == [h \in Holders |-> Amount(h)']
             e == [h \in Holders |-> IF h = x THEN g[h] ELSE f[h]]
  <1>1. Held = Bytes(f)
    BY DEF Held, Bytes
  <1>2. Held' = Bytes(g)
    BY DEF Held, Bytes
  <1>3. x \in Holders /\ y \in Holders /\ x # y
    BY DEF Holders
  <1>4. f[x] = reserved[p] /\ f[y] = InHand(t)
    BY <1>3 DEF Amount
  <1>5. g[x] = reserved'[p] /\ g[y] = InHand(t)'
    BY <1>3 DEF Amount
  <1>6. ASSUME NEW h \in Holders, h # x, h # y PROVE g[h] = f[h]
    <2>1. CASE h \in {"connection"} \X Conns
      <3>1. PICK d \in Conns : h = <<"connection", d>>
        BY <2>1
      <3>2. d # p
        BY <1>6, <3>1
      <3> QED
        BY <3>1, <3>2 DEF Amount
    <2>2. CASE h \in {"thread"} \X Threads
      <3>1. PICK u \in Threads : h = <<"thread", u>>
        BY <2>2
      <3>2. u # t
        BY <1>6, <3>1
      <3> QED
        BY <3>1, <3>2 DEF Amount
    <2> QED
      BY <2>1, <2>2 DEF Holders
  <1>7. reserved[p] \in Nat /\ InHand(t) \in Nat /\ reserved'[p] \in Nat /\ InHand(t)' \in Nat
    BY Amounts, Amounts2
  <1> HIDE DEF f, g, x, y
  <1>8. /\ e[x] = g[x] /\ e[y] = f[y]
        /\ \A h \in Holders : /\ h # x => e[h] = f[h]
                              /\ h # y => g[h] = e[h]
    BY <1>3, <1>6
  <1> HIDE DEF e
  <1>9. /\ IsFiniteSet(Bytes(e)) /\ Cardinality(Bytes(f)) \in Nat
        /\ Cardinality(Bytes(e)) \in Nat
        /\ f[x] <= Cardinality(Bytes(f))
        /\ Cardinality(Bytes(e)) = Cardinality(Bytes(f)) - f[x] + g[x]
    <2>1. f[x] \in Nat /\ e[x] \in Nat /\ IsFiniteSet(Bytes(f))
      BY <1>1, <1>4, <1>5, <1>7, <1>8
    <2>2. \A h \in Holders : h # x => e[h] = f[h]
      BY <1>8
    <2>3. /\ IsFiniteSet(Bytes(e)) /\ Cardinality(Bytes(f)) \in Nat
          /\ Cardinality(Bytes(e)) \in Nat
          /\ f[x] <= Cardinality(Bytes(f))
          /\ Cardinality(Bytes(e)) = Cardinality(Bytes(f)) - f[x] + e[x]
      BY <1>3, <2>1, <2>2, OneAmount
    <2> QED
      BY <1>8, <2>3
  <1>10. /\ IsFiniteSet(Bytes(g)) /\ Cardinality(Bytes(g)) \in Nat
         /\ e[y] <= Cardinality(Bytes(e))
         /\ Cardinality(Bytes(g)) = Cardinality(Bytes(e)) - e[y] + g[y]
    BY <1>3, <1>4, <1>5, <1>7, <1>8, <1>9, OneAmount
  \* The connection and the thread hold different bytes.
  <1> DEFINE z == [h \in Holders |-> IF h = x THEN 0 ELSE f[h]]
  <1>11. z[x] = 0 /\ z[y] = f[y] /\ \A h \in Holders : h # x => z[h] = f[h]
    BY <1>3
  <1> HIDE DEF z
  <1>12. /\ IsFiniteSet(Bytes(z)) /\ Cardinality(Bytes(z)) \in Nat
         /\ Cardinality(Bytes(z)) = Cardinality(Bytes(f)) - f[x]
    <2>1. 0 \in Nat
      OBVIOUS
    <2>2. /\ IsFiniteSet(Bytes(z)) /\ Cardinality(Bytes(z)) \in Nat
          /\ Cardinality(Bytes(z)) = Cardinality(Bytes(f)) - f[x] + z[x]
      BY <1>1, <1>3, <1>4, <1>7, <1>11, <2>1, OneAmount
    <2> QED
      BY <1>4, <1>7, <1>9, <1>11, <2>2
  <1>13. z[y] <= Cardinality(Bytes(z))
    BY <1>3, <1>4, <1>7, <1>11, <1>12, OneAmount
  <1> QED
    BY <1>1, <1>2, <1>4, <1>5, <1>7, <1>8, <1>9, <1>10, <1>11, <1>12, <1>13

LEMMA BudgetBy ==
    ASSUME TypeOK, TypeOK', BudgetInv, NEW t \in Threads, NEW p \in Conns,
           \A u \in Threads : u # t => InHand(u)' = InHand(u),
           \A d \in Conns : d # p => reserved'[d] = reserved[d],
           InHand(t) + reserved[p] <= usedBytes =>
              usedBytes' = usedBytes - InHand(t) - reserved[p] + InHand(t)' + reserved'[p],
           \A d \in Conns : Swept(d)'
    PROVE  BudgetInv'
  <1>1. IsFiniteSet(Held) /\ usedBytes = Cardinality(Held)
    BY DEF BudgetInv
  <1>2. /\ IsFiniteSet(Held') /\ InHand(t) + reserved[p] <= Cardinality(Held)
        /\ Cardinality(Held') = Cardinality(Held) - InHand(t) - reserved[p]
                                      + InHand(t)' + reserved'[p]
    BY <1>1, HeldStep
  <1> QED
    BY <1>1, <1>2 DEF BudgetInv

\* A step that moves no bytes.
LEMMA BudgetKept ==
    ASSUME BudgetInv, KeepCounts, usedBytes' = usedBytes, lost' = lost,
           \A u \in Threads : /\ InHand(u)' = InHand(u)
                              /\ thread[u].at = "sweep" => thread'[u] = thread[u]
    PROVE  BudgetInv'
  <1>1. Held' = Held
    <2>1. ASSUME NEW h \in Holders PROVE Amount(h)' = Amount(h)
      BY DEF Amount, KeepCounts, Holders
    <2> QED
      BY <2>1 DEF Held
  <1>2. \A d \in Conns : Swept(d)'
    BY DEF BudgetInv, Swept, KeepCounts
  <1> QED
    BY <1>1, <1>2 DEF BudgetInv

\* Of one thread that neither takes bytes nor gives them back.
LEMMA BudgetElsewhere ==
    ASSUME BudgetInv, KeepCounts, usedBytes' = usedBytes, lost' = lost,
           \A u \in Threads :
              \/ thread'[u] = thread[u]
              \/ /\ thread[u].at \notin {"count", "release", "giveBack", "sweep"}
                 /\ thread'[u].at \notin {"count", "release", "giveBack"}
    PROVE  BudgetInv'
  <1>1. \A u \in Threads : /\ InHand(u)' = InHand(u)
                           /\ thread[u].at = "sweep" => thread'[u] = thread[u]
    BY DEF InHand
  <1> QED
    BY <1>1, BudgetKept

LEMMA BudgetGets ==
    ASSUME TypeOK, TypeOK', BudgetInv, NEW t \in Conns, NEW p \in Conns \cup {None},
           NEW s \in Conns, NEW n \in Nat, Gets(t, p, s, n)
    PROVE  BudgetInv'
  <1>0. t \in Threads /\ usedBytes \in Nat /\ reserved[t] \in Nat
    BY Amounts, Constants
  <1>1. /\ thread'[t].at = "count" /\ thread'[t].n = n /\ thread[t].at = "recv"
        /\ \A u \in Threads : u # t => thread'[u] = thread[u]
        /\ reserved' = reserved /\ late' = late /\ lost' = lost
        /\ usedBytes' = usedBytes + n
    BY <1>0, Moved DEF Gets, KeepLosses, KeepCounts
  <1>2. InHand(t) = 0 /\ InHand(t)' = n /\ \A u \in Threads : u # t => InHand(u)' = InHand(u)
    BY <1>1 DEF InHand
  <1>3. \A d \in Conns : Swept(d)'
    BY <1>0, <1>1 DEF BudgetInv, Swept
  <1> QED
    BY <1>0, <1>1, <1>2, <1>3, BudgetBy

LEMMA BudgetCounts ==
    ASSUME TypeOK, TypeOK', BudgetInv, NEW t \in Conns, NEW p \in Conns, Counts(t, p)
    PROVE  BudgetInv'
  <1>0. /\ t \in Threads /\ usedBytes \in Nat /\ reserved[p] \in Nat /\ thread[t].n \in Nat
        /\ late[p] \in Nat
    BY Amounts, Constants
  <1>1. /\ thread'[t].at = "parse" /\ thread[t].at = "count"
        /\ \A u \in Threads : u # t => thread'[u] = thread[u]
        /\ reserved'[p] = reserved[p] + thread[t].n
        /\ late'[p] = IF lost[p] THEN late[p] + thread[t].n ELSE late[p]
        /\ \A d \in Conns : d # p => reserved'[d] = reserved[d] /\ late'[d] = late[d]
        /\ lost' = lost /\ usedBytes' = usedBytes
    BY <1>0, Moved DEF Counts, KeepLosses
  <1>2. /\ InHand(t) = thread[t].n /\ InHand(t)' = 0
        /\ \A u \in Threads : u # t => InHand(u)' = InHand(u)
    BY <1>1 DEF InHand
  <1>3. ASSUME NEW d \in Conns PROVE Swept(d)'
    <2>1. Swept(d)
      BY DEF BudgetInv
    <2>2. \A u \in Threads : thread[u].at = "sweep" => thread'[u] = thread[u]
      BY <1>1
    <2>3. CASE d = p
      <3>1. SUFFICES ASSUME lost[p], reserved[p] <= late[p] PROVE reserved'[p] <= late'[p]
        BY <1>1, <2>1, <2>2, <2>3 DEF Swept
      <3> QED
        BY <1>0, <1>1, <3>1
    <2>4. CASE d # p
      BY <1>1, <2>1, <2>2, <2>4 DEF Swept
    <2> QED
      BY <2>3, <2>4
  <1> QED
    BY <1>0, <1>1, <1>2, <1>3, BudgetBy

LEMMA BudgetTrims ==
    ASSUME TypeOK, TypeOK', BudgetInv, NEW t \in Conns, NEW p \in Conns, Trims(t, p)
    PROVE  BudgetInv'
  <1> DEFINE k == Least(thread[t].n, reserved[p])
  <1>0. /\ t \in Threads /\ usedBytes \in Nat /\ reserved[p] \in Nat /\ thread[t].n \in Nat
        /\ late[p] \in Nat
    BY Amounts, Constants
  <1>1. /\ thread'[t].at = "release" /\ thread[t].at = "trim" /\ thread'[t].n = k
        /\ \A u \in Threads : u # t => thread'[u] = thread[u]
        /\ reserved'[p] = reserved[p] - k
        /\ \A d \in Conns : d # p => reserved'[d] = reserved[d]
        /\ lost' = lost /\ usedBytes' = usedBytes /\ late' = late
    BY <1>0, Moved DEF Trims, KeepLosses
  <1>2. k \in Nat /\ k <= reserved[p]
    BY <1>0 DEF Least
  <1> HIDE DEF k
  <1>3. /\ InHand(t) = 0 /\ InHand(t)' = k
        /\ \A u \in Threads : u # t => InHand(u)' = InHand(u)
    BY <1>1 DEF InHand
  <1>4. ASSUME NEW d \in Conns PROVE Swept(d)'
    <2>1. Swept(d)
      BY DEF BudgetInv
    <2>2. \A u \in Threads : thread[u].at = "sweep" => thread'[u] = thread[u]
      BY <1>1
    <2>3. CASE d = p
      <3>1. SUFFICES ASSUME reserved[p] <= late[p] PROVE reserved'[p] <= late[p]
        BY <1>1, <2>1, <2>2, <2>3 DEF Swept
      <3> QED
        BY <1>0, <1>1, <1>2, <3>1
    <2>4. CASE d # p
      BY <1>1, <2>1, <2>2, <2>4 DEF Swept
    <2> QED
      BY <2>3, <2>4
  <1> QED
    BY <1>0, <1>1, <1>2, <1>3, <1>4, BudgetBy

LEMMA BudgetReturns ==
    ASSUME TypeOK, TypeOK', BudgetInv, NEW t \in Threads, NEW p \in Conns,
           NEW from \in {"release", "giveBack"}, NEW to \in {"loop", "unset"},
           Returns(t, p, from, to)
    PROVE  BudgetInv'
  <1>0. /\ usedBytes \in Nat /\ reserved[p] \in Nat /\ thread[t].n \in Nat
    BY Amounts, Constants
  <1>1. /\ thread'[t].at = to /\ thread[t].at = from
        /\ \A u \in Threads : u # t => thread'[u] = thread[u]
        /\ lost' = lost /\ reserved' = reserved /\ late' = late
        /\ usedBytes' = Minus(usedBytes, thread[t].n)
    BY <1>0, Moved DEF Returns, KeepLosses, KeepCounts
  <1>2. /\ InHand(t) = thread[t].n /\ InHand(t)' = 0
        /\ \A u \in Threads : u # t => InHand(u)' = InHand(u)
    BY <1>1 DEF InHand
  <1>3. \A d \in Conns : Swept(d)'
    BY <1>1 DEF BudgetInv, Swept
  <1>4. InHand(t) + reserved[p] <= usedBytes => usedBytes' = usedBytes - thread[t].n
    BY <1>0, <1>1, <1>2 DEF Minus
  <1> QED
    BY <1>0, <1>1, <1>2, <1>3, <1>4, BudgetBy

LEMMA BudgetSets ==
    ASSUME TypeOK, TypeOK', BudgetInv, NEW t \in Threads, NEW p \in Conns, Sets(t, p)
    PROVE  BudgetInv'
  <1>0. usedBytes \in Nat /\ reserved[p] \in Nat
    BY Amounts
  <1>1. /\ thread'[t].at = "sweep" /\ thread'[t].proto = p /\ thread[t].at = "setLost"
        /\ \A u \in Threads : u # t => thread'[u] = thread[u]
        /\ reserved' = reserved /\ late' = late /\ usedBytes' = usedBytes
        /\ \A d \in Conns : d # p => lost'[d] = lost[d]
    BY Moved DEF Sets, KeepBytes, KeepCounts
  <1>2. \A u \in Threads : InHand(u)' = InHand(u)
    BY <1>1 DEF InHand
  <1>3. ASSUME NEW d \in Conns PROVE Swept(d)'
    <2>1. CASE d = p
      BY <1>1, <2>1 DEF Swept
    <2>2. CASE d # p
      BY <1>1, <2>2 DEF BudgetInv, Swept
    <2> QED
      BY <2>1, <2>2
  <1>4. InHand(t) \in Nat
    BY Amounts
  <1> QED
    BY <1>0, <1>1, <1>2, <1>3, <1>4, BudgetBy

LEMMA BudgetSweeps ==
    ASSUME TypeOK, TypeOK', BudgetInv, NEW t \in Threads, NEW p \in Conns,
           thread[t].proto = p, Sweeps(t, p)
    PROVE  BudgetInv'
  <1>0. usedBytes \in Nat /\ reserved[p] \in Nat
    BY Amounts
  <1>1. /\ thread'[t].at = "giveBack" /\ thread'[t].n = reserved[p] /\ thread[t].at = "sweep"
        /\ \A u \in Threads : u # t => thread'[u] = thread[u]
        /\ reserved'[p] = 0 /\ late'[p] = 0
        /\ \A d \in Conns : d # p => reserved'[d] = reserved[d] /\ late'[d] = late[d]
        /\ lost' = lost /\ usedBytes' = usedBytes
    BY Moved DEF Sweeps, KeepLosses
  <1>2. /\ InHand(t) = 0 /\ InHand(t)' = reserved[p]
        /\ \A u \in Threads : u # t => InHand(u)' = InHand(u)
    BY <1>1 DEF InHand
  <1>3. ASSUME NEW d \in Conns PROVE Swept(d)'
    <2>1. CASE d = p
      BY <1>1, <2>1 DEF Swept
    <2>2. CASE d # p
      BY <1>1, <2>2 DEF BudgetInv, Swept
    <2> QED
      BY <2>1, <2>2
  <1> QED
    BY <1>0, <1>1, <1>2, <1>3, BudgetBy

LEMMA BudgetStep ==
    ASSUME TypeOK, PlacesInv, FieldsInv, BudgetInv, TypeOK', Kind
    PROVE  BudgetInv'
  <1>0. /\ \A c \in Conns : c \in Threads /\ c # App /\ Works(c) \in Conns
        /\ App \in Threads /\ AppPlaced
        /\ \A t \in Threads : thread[t].back \in {"cleanup", "loop", "ended"}
    <2>1. \A t \in Threads : thread[t].back \in {"cleanup", "loop", "ended"}
      BY DEF TypeOK
    <2> QED
      BY <2>1, Constants, Workers, PlacesParts
  <1> DEFINE Aside(u) ==
         \/ thread'[u] = thread[u]
         \/ /\ thread[u].at \notin {"count", "release", "giveBack", "sweep"}
            /\ thread'[u].at \notin {"count", "release", "giveBack"}
  <1>1. CASE AppKind
    <2>1. KeepCounts /\ usedBytes' = usedBytes /\ lost' = lost
      BY <1>1 DEF AppKind, Opens, Establishes, EndsHandshake, Disconnects, Closes, Clears,
                  Sends, KeepAll, KeepLosses, KeepBytes
    <2>2. ASSUME NEW u \in Threads PROVE Aside(u)
      <3>1. CASE Establishes
        <4>1. /\ thread'[created].at = "start" /\ thread[created].at = "off"
              /\ thread'[App].at = "handshake" /\ thread[App].at = "establish"
              /\ \A v \in Threads : v # App /\ v # created => thread'[v] = thread[v]
          BY <1>0, <3>1 DEF Establishes, At, AppPlaced
        <4> QED
          BY <1>0, <4>1
      <3>2. CASE ~Establishes
        BY <1>0, <1>1, <3>2 DEF AppKind, Opens, EndsHandshake, Disconnects, Closes, Clears,
                                Sends, To, At
      <3> QED
        BY <3>1, <3>2
    <2> HIDE DEF Aside
    <2> QED
      BY <2>1, <2>2, BudgetElsewhere DEF Aside
  <1>2. CASE Rests
    <2>1. KeepCounts /\ usedBytes' = usedBytes /\ lost' = lost /\ thread' = thread
      BY <1>2 DEF Rests, KeepAll, KeepLosses, KeepBytes
    <2> QED
      BY <2>1, BudgetElsewhere
  <1>3. ASSUME NEW t \in Conns, NEW p \in Conns,
               \/ Begins(t) \/ Waits(t) \/ Turns(t, p) \/ Leaves(t, p) \/ TimesOut(t, p)
               \/ Stops(t, p) \/ (\E size, k \in Nat : Takes(t, p, size, k))
        PROVE  BudgetInv'
    <2>1. KeepCounts /\ usedBytes' = usedBytes /\ lost' = lost
      BY <1>3 DEF Begins, Waits, Turns, Leaves, TimesOut, Stops, Takes, KeepAll, KeepLosses,
                  KeepBytes
    <2>2. /\ thread[t].at \in {"start", "loop", "recv", "parse"}
          /\ thread'[t].at \in {"loop", "recv", "ended", "lost", "parse", "trim"}
          /\ \A u \in Threads : u # t => thread'[u] = thread[u]
      <3>1. ASSUME NEW size \in Nat, NEW k \in Nat, Takes(t, p, size, k)
            PROVE  /\ thread[t].at = "parse" /\ thread'[t].at = "parse"
                   /\ \A u \in Threads : u # t => thread'[u] = thread[u]
        BY <1>0, <3>1, Moved DEF Takes
      <3> QED
        BY <1>0, <1>3, <3>1 DEF Begins, Waits, Turns, Leaves, TimesOut, Stops, To, At
    <2> QED
      BY <2>1, <2>2, BudgetElsewhere
  <1>4. CASE ReaderKind
    <2>1. PICK t \in Conns : ReaderDoes(t, Works(t))
      BY <1>4 DEF ReaderKind
    <2>2. t \in Threads /\ Works(t) \in Conns /\ Works(t) \in Conns \cup {None}
      BY <1>0
    <2> QED
      BY <1>3, <2>1, <2>2, BudgetGets, BudgetCounts, BudgetTrims, BudgetReturns DEF ReaderDoes
  <1>5. ASSUME NEW t \in Threads, NEW p \in Conns, LossDoes(t, p) PROVE BudgetInv'
    <2>1. CASE Tests(t, p) \/ Unsets(t, p) \/ Drains(t, p) \/ Breaks(t, p) \/ Ends(t, p)
      <3>1. KeepCounts /\ usedBytes' = usedBytes /\ lost' = lost
        BY <2>1 DEF Tests, Unsets, Drains, Breaks, Ends, KeepAll, KeepLosses, KeepBytes
      <3>2. /\ thread[t].at \in {"lost", "unset", "drain", "end"}
            /\ thread'[t].at \in {"setLost", "drain", "end", "idle", "lost", "cleanup",
                                  "loop", "ended"}
            /\ \A u \in Threads : u # t => thread'[u] = thread[u]
        BY <1>0, <2>1 DEF Tests, Unsets, Drains, Breaks, Ends, To, At
      <3> QED
        BY <3>1, <3>2, BudgetElsewhere
    <2> QED
      BY <1>5, <2>1, BudgetSets, BudgetSweeps, BudgetReturns DEF LossDoes
  <1>6. CASE LossKind
    BY <1>5, <1>6 DEF LossKind
  <1> QED
    BY <1>1, <1>2, <1>4, <1>6 DEF Kind

----------------------------------------------------------------------------
(* The flag of a loss and what was announced.                              *)

Losses(c) == /\ FlagTells(c) /\ LostOnce(c)
             /\ announced[c].disconnect > 0 => link[c] = "closed"

\* Nobody begins to handle a loss or ends it.
LossesAside ==
    /\ KeepLosses /\ interrupted' = interrupted
    /\ \A c \in Conns : /\ announced'[c].disconnect = announced[c].disconnect
                        /\ link[c] = "closed" /\ c <= created => link'[c] = "closed"
    /\ \A t \in Threads : \A c \in Conns : Failing(t, c)' <=> Failing(t, c)

LEMMA AsideStays ==
    ASSUME TypeOK, FieldsInv, LossesAside, NEW c \in Conns, Losses(c)
    PROVE  Losses(c)'
  <1>1. FlagTells(c)'
    BY DEF LossesAside, KeepLosses, Losses, FlagTells
  <1>2. LostOnce(c)'
    BY DEF LossesAside, KeepLosses, Losses, LostOnce
  <1>3. announced'[c].disconnect > 0 => link'[c] = "closed"
    <2>1. announced[c].disconnect > 0 => c <= created
      <3>1. c \in Nat /\ created \in Nat
        BY Constants DEF TypeOK
      <3>2. c > created => announced[c].disconnect = 0
        BY DEF FieldsInv
      <3> QED
        BY <3>1, <3>2
    <2> QED
      BY <2>1 DEF LossesAside, Losses
  <1> QED
    BY <1>1, <1>2, <1>3 DEF Losses

\* A thread that fails no connection before the step and none behind it, and
\* the others, which stay where they are.
LEMMA NobodyFails ==
    ASSUME NEW t \in Threads, thread[t].at \notin FailPlaces,
           thread'[t].at \notin FailPlaces,
           \A u \in Threads : u # t => thread'[u] = thread[u]
    PROVE  \A u \in Threads : \A c \in Conns : Failing(u, c)' <=> Failing(u, c)
  BY DEF Failing

LEMMA AsideApp ==
    ASSUME TypeOK, PlacesInv, FieldsInv, AppKind
    PROVE  LossesAside
  <1>0. /\ \A c \in Conns : c \in Threads /\ c # App /\ c \in Nat
        /\ App \in Threads /\ created \in Nat
        /\ App \notin Conns
    BY Constants DEF TypeOK
  <1>1. \A c \in Conns : link[c] = "closed" /\ c <= created => link'[c] = "closed"
    BY <1>0 DEF AppKind, Opens, Establishes, EndsHandshake, Disconnects, Closes, Clears, Sends
  <1>2. KeepLosses /\ interrupted' = interrupted
    BY DEF AppKind, Opens, Establishes, EndsHandshake, Disconnects, Closes, Clears, Sends,
           KeepAll, KeepEvents, KeepAsked
  <1>3. \A c \in Conns : announced'[c].disconnect = announced[c].disconnect
    <2>1. CASE EndsHandshake
      <3>1. created \in Conns /\ announced[created].disconnect \in Nat
        BY <2>1 DEF EndsHandshake, TypeOK
      <3> QED
        BY <2>1, <3>1 DEF EndsHandshake, Told
    <2>2. CASE ~EndsHandshake
      BY <2>2 DEF AppKind, Opens, Establishes, Disconnects, Closes, Clears, Sends, KeepAll,
                  KeepEvents
    <2> QED
      BY <2>1, <2>2
  <1>4. \A t \in Threads : \A c \in Conns : Failing(t, c)' <=> Failing(t, c)
    <2>1. CASE Establishes
      <3>1. /\ thread'[App].at = "handshake" /\ thread[App].at = "establish"
            /\ thread'[created].at = "start" /\ thread[created].at = "off"
            /\ \A u \in Threads : u # App /\ u # created => thread'[u] = thread[u]
        BY <2>1, PlacesParts DEF Establishes, At, AppPlaced
      <3> QED
        BY <1>0, <3>1 DEF Failing, FailPlaces
    <2>2. CASE Sends
      BY <2>2 DEF Sends, Failing
    <2>3. CASE ~Establishes /\ ~Sends
      <3>1. /\ thread[App].at \in {"idle", "handshake", "cleanup", "clear"}
            /\ thread'[App].at \in {"establish", "cleanup", "idle", "lost", "clear"}
            /\ \A u \in Threads : u # App => thread'[u] = thread[u]
        BY <1>0, <2>3 DEF AppKind, Opens, EndsHandshake, Disconnects, Closes, Clears, To, At
      <3> QED
        BY <1>0, <3>1, NobodyFails DEF FailPlaces
    <2> QED
      BY <2>1, <2>2, <2>3
  <1> QED
    BY <1>1, <1>2, <1>3, <1>4 DEF LossesAside

\* From where and to where a reader goes.
LEMMA ReaderSpots ==
    ASSUME NEW c \in Conns, NEW p, ReaderDoes(c, p)
    PROVE  /\ thread[c].at \in {"start", "loop", "recv"} \cup HandlePlaces
           /\ thread'[c].at \in {"loop", "recv", "ended", "lost"} \cup HandlePlaces
           /\ thread[c].at = "start" => thread'[c].at = "loop"
           /\ \A u \in Threads : u # c => thread'[u] = thread[u]
  <1>0. c \in Threads
    BY Constants
  <1>1. CASE Begins(c) \/ Waits(c) \/ Turns(c, p) \/ TimesOut(c, p) \/ Stops(c, p)
    BY <1>0, <1>1, Moved DEF Begins, Waits, Turns, TimesOut, Stops, HandlePlaces
  <1>2. CASE Leaves(c, p)
    <2>1. /\ thread[c].at \in {"loop", "recv", "parse"}
          /\ \/ To(c, "ended", None, thread[c].n, thread[c].back)
             \/ To(c, "lost", p, 0, "ended")
      BY <1>2 DEF Leaves
    <2> QED
      BY <1>0, <2>1, Moved DEF HandlePlaces
  <1>3. ASSUME NEW s \in Conns, NEW n \in Nat, Gets(c, p, s, n)
        PROVE  thread[c].at = "recv" /\ To(c, "count", p, n, thread[c].back)
    BY <1>3 DEF Gets
  <1>4. CASE Counts(c, p) \/ Trims(c, p) \/ Returns(c, p, "release", "loop")
    <2>1. CASE Counts(c, p)
      BY <1>0, <2>1, Moved DEF Counts, HandlePlaces
    <2>2. ASSUME Trims(c, p)
          PROVE  thread[c].at = "trim" /\ \E n : To(c, "release", p, n, thread[c].back)
      BY <2>2 DEF Trims
    <2>3. CASE Returns(c, p, "release", "loop")
      BY <1>0, <2>3, Moved DEF Returns, HandlePlaces
    <2> QED
      BY <1>0, <1>4, <2>1, <2>2, <2>3, Moved DEF HandlePlaces
  <1>5. ASSUME NEW size \in Nat, NEW k \in Nat, Takes(c, p, size, k)
        PROVE  thread[c].at = "parse" /\ To(c, "parse", p, thread[c].n + size, thread[c].back)
    BY <1>5 DEF Takes
  <1> QED
    BY <1>0, <1>1, <1>2, <1>3, <1>4, <1>5, Moved DEF ReaderDoes, HandlePlaces

LEMMA AsideReader ==
    ASSUME TypeOK, NEW c \in Conns, NEW p, ReaderDoes(c, p)
    PROVE  LossesAside
  <1>0. c \in Threads
    BY Constants
  <1>1. link' = link /\ KeepLosses /\ announced' = announced /\ interrupted' = interrupted
    BY ReaderKeeps DEF KeepEvents, KeepAsked
  <1>2. /\ thread[c].at \notin FailPlaces /\ thread'[c].at \notin FailPlaces
        /\ \A u \in Threads : u # c => thread'[u] = thread[u]
    BY <1>0, ReaderSpots DEF FailPlaces, HandlePlaces
  <1> QED
    BY <1>0, <1>1, <1>2, NobodyFails DEF LossesAside

LEMMA AsideLoss ==
    ASSUME TypeOK, NEW t \in Threads, NEW p \in Conns, LossDoes(t, p),
           \/ Tests(t, p) \/ Sweeps(t, p) \/ Returns(t, p, "giveBack", "unset")
           \/ Unsets(t, p) \/ Drains(t, p)
    PROVE  LossesAside
  <1>1. KeepLosses /\ announced' = announced /\ link' = link /\ interrupted' = interrupted
    BY DEF Tests, Sweeps, Returns, Unsets, Drains, KeepAll, KeepEvents, KeepAsked
  <1>2. \A u \in Threads : u # t => thread'[u] = thread[u]
    BY LossGoes
  <1>3. CASE Tests(t, p)
    <2>1. thread[t].at = "lost" /\ thread'[t].at \in {"setLost", thread[t].back}
      BY <1>3, Moved DEF Tests
    <2>2. thread[t].back \in {"cleanup", "loop", "ended"}
      BY DEF TypeOK
    <2> QED
      BY <1>1, <1>2, <2>1, <2>2, NobodyFails DEF LossesAside, FailPlaces
  <1>4. CASE ~Tests(t, p)
    <2>1. /\ thread[t].at \in FailPlaces /\ thread[t].proto = p
          /\ thread'[t].at \in FailPlaces /\ thread'[t].proto = p
      BY <1>4, Moved DEF Sweeps, Returns, Unsets, Drains, LossDoes, FailPlaces
    <2>2. \A u \in Threads : \A c \in Conns : Failing(u, c)' <=> Failing(u, c)
      BY <1>2, <2>1 DEF Failing
    <2> QED
      BY <1>1, <2>2 DEF LossesAside
  <1> QED
    BY <1>3, <1>4

LEMMA LossesSets ==
    ASSUME TypeOK, NEW t \in Threads, NEW p \in Conns, LossDoes(t, p), Sets(t, p),
           \A c \in Conns : Losses(c)
    PROVE  \A c \in Conns : Losses(c)'
  <1>1. /\ thread[t].at = "setLost" /\ thread'[t].at = "sweep" /\ thread'[t].proto = p
        /\ \A u \in Threads : u # t => thread'[u] = thread[u]
        /\ lost'[p] = TRUE /\ raced'[p] = (raced[p] \/ lost[p])
        /\ \A d \in Conns : d # p => lost'[d] = lost[d] /\ raced'[d] = raced[d]
        /\ announced' = announced /\ link' = link /\ interrupted' = interrupted
    BY Moved DEF Sets, KeepEvents, KeepAsked
  <1>2. /\ Failing(t, p)' /\ \A d \in Conns : d # p => ~Failing(t, d)'
        /\ \A d \in Conns : ~Failing(t, d)
        /\ \A u \in Threads : \A d \in Conns : u # t => (Failing(u, d)' <=> Failing(u, d))
    BY <1>1 DEF Failing, FailPlaces
  <1>3. ASSUME NEW c \in Conns, c # p PROVE Losses(c)'
    <2>1. \A u \in Threads : Failing(u, c)' <=> Failing(u, c)
      BY <1>2, <1>3
    <2>2. FlagTells(c)'
      BY <1>1, <1>3, <2>1 DEF Losses, FlagTells
    <2>3. LostOnce(c)'
      BY <1>1, <1>3, <2>1 DEF Losses, LostOnce
    <2> QED
      BY <1>1, <2>2, <2>3 DEF Losses
  <1>4. FlagTells(p)'
    BY <1>1, <1>2 DEF FlagTells
  <1>5. LostOnce(p)'
    <2>1. SUFFICES ASSUME ~raced'[p]
                   PROVE  /\ announced'[p].disconnect <= 1
                          /\ \A u, v \in Threads : Failing(u, p)' /\ Failing(v, p)' => u = v
                          /\ announced'[p].disconnect = 0
      BY DEF LostOnce
    <2>2. ~lost[p]
      BY <1>1, <2>1
    <2>3. /\ ~(announced[p].disconnect > 0) /\ \A u \in Threads : ~Failing(u, p)
      BY <2>2 DEF Losses, FlagTells
    <2>4. announced[p].disconnect \in Nat
      BY DEF TypeOK
    <2>5. announced[p].disconnect = 0
      BY <2>3, <2>4
    <2>6. \A u \in Threads : Failing(u, p)' => u = t
      BY <1>2, <2>3
    <2> QED
      BY <1>1, <2>5, <2>6
  <1>6. Losses(p)'
    BY <1>1, <1>4, <1>5 DEF Losses
  <1> QED
    BY <1>3, <1>6

\* A thread comes to the end of a loss, or an exception ends it.
LEMMA LossesEnd ==
    ASSUME TypeOK, NEW t \in Threads, NEW p \in Conns, LossDoes(t, p),
           Ends(t, p) \/ Breaks(t, p), \A c \in Conns : Losses(c)
    PROVE  \A c \in Conns : Losses(c)'
  <1>0. thread[t].back \in {"cleanup", "loop", "ended"} /\ announced[p].disconnect \in Nat
    BY DEF TypeOK
  <1>1. /\ thread[t].at \in FailPlaces /\ thread[t].proto = p
        /\ thread'[t].at \notin FailPlaces
        /\ \A u \in Threads : u # t => thread'[u] = thread[u]
        /\ KeepLosses
    <2>1. CASE Ends(t, p)
      BY <1>0, <2>1, Moved DEF Ends, LossDoes, FailPlaces
    <2>2. CASE Breaks(t, p)
      BY <1>0, <2>2 DEF Breaks, LossDoes, FailPlaces, To, At
    <2> QED
      BY <2>1, <2>2
  <1>2. /\ Failing(t, p) /\ \A d \in Conns : ~Failing(t, d)'
        /\ \A d \in Conns : d # p => ~Failing(t, d)
        /\ \A u \in Threads : \A d \in Conns : u # t => (Failing(u, d)' <=> Failing(u, d))
    BY <1>0, <1>1 DEF Failing
  <1>3. /\ \A d \in Conns : d # p => /\ announced'[d] = announced[d] /\ link'[d] = link[d]
                                     /\ (d \in interrupted' <=> d \in interrupted)
        /\ \/ /\ announced'[p].disconnect = announced[p].disconnect + 1
              /\ link'[p] = "closed" /\ interrupted' = interrupted
           \/ announced' = announced /\ link' = link /\ p \in interrupted'
    <2>1. CASE Ends(t, p)
      BY <2>1 DEF Ends, Told, KeepAsked
    <2>2. CASE Breaks(t, p)
      BY <2>2 DEF Breaks
    <2> QED
      BY <2>1, <2>2
  <1>4. ASSUME NEW c \in Conns, c # p PROVE Losses(c)'
    <2>1. \A u \in Threads : Failing(u, c)' <=> Failing(u, c)
      BY <1>2, <1>4
    <2>2. FlagTells(c)'
      BY <1>1, <1>3, <1>4, <2>1 DEF Losses, FlagTells, KeepLosses
    <2>3. LostOnce(c)'
      BY <1>1, <1>3, <1>4, <2>1 DEF Losses, LostOnce, KeepLosses
    <2> QED
      BY <1>3, <1>4, <2>2, <2>3 DEF Losses
  <1>5. FlagTells(p)'
    <2>1. lost[p]
      BY <1>2 DEF Losses, FlagTells
    <2>2. announced'[p].disconnect > 0 \/ p \in interrupted'
      BY <1>0, <1>3
    <2> QED
      BY <1>1, <2>1, <2>2 DEF FlagTells, KeepLosses
  <1>6. LostOnce(p)'
    <2>1. SUFFICES ASSUME ~raced[p]
                   PROVE  /\ announced'[p].disconnect <= 1
                          /\ \A u \in Threads : ~Failing(u, p)'
      BY <1>1 DEF LostOnce, KeepLosses
    <2>2. /\ announced[p].disconnect = 0
          /\ \A u \in Threads : Failing(u, p) => u = t
      BY <1>2, <2>1 DEF Losses, LostOnce
    <2> QED
      BY <1>2, <1>3, <2>2
  <1>7. Losses(p)'
    BY <1>3, <1>5, <1>6 DEF Losses
  <1> QED
    BY <1>4, <1>7

LEMMA LossStep ==
    ASSUME TypeOK, PlacesInv, FieldsInv, LossInv, Kind
    PROVE  LossInv'
  <1>0. \A c \in Conns : Losses(c)
    BY DEF LossInv, Losses
  <1>1. CASE LossesAside
    <2>1. \A c \in Conns : Losses(c)'
      BY <1>0, <1>1, AsideStays
    <2> QED
      BY <2>1 DEF LossInv, Losses
  <1>2. CASE Rests
    <2>1. LossesAside
      BY <1>2 DEF Rests, KeepAll, KeepEvents, KeepAsked, LossesAside, Failing
    <2> QED
      BY <1>1, <2>1
  <1>3. CASE AppKind \/ ReaderKind
    BY <1>1, <1>3, AsideApp, AsideReader DEF ReaderKind
  <1>4. CASE LossKind
    <2>1. PICK t \in Threads, p \in Conns : LossDoes(t, p)
      BY <1>4 DEF LossKind
    <2>2. CASE Ends(t, p) \/ Breaks(t, p) \/ Sets(t, p)
      <3>1. \A c \in Conns : Losses(c)'
        BY <1>0, <2>1, <2>2, LossesEnd, LossesSets
      <3> QED
        BY <3>1 DEF LossInv, Losses
    <2>3. CASE ~(Ends(t, p) \/ Breaks(t, p) \/ Sets(t, p))
      BY <1>1, <2>1, <2>3, AsideLoss DEF LossDoes
    <2> QED
      BY <2>2, <2>3
  <1> QED
    BY <1>2, <1>3, <1>4 DEF Kind

----------------------------------------------------------------------------
(* From here on no connection was overtaken: every reader works for its     *)
(* own connection.                                                         *)

LEMMA Owners ==
    ASSUME TypeOK, PlacesInv, OwnInv
    PROVE  /\ \A c \in Conns : Works(c) = c
           /\ \A t \in Threads : \A p \in Conns : LossDoes(t, p) =>
                 (t \in Conns => p = t) /\ (t = App => p = created)
  <1>1. \A c \in Conns : Works(c) = c
    BY Constants DEF OwnInv, Works
  <1>2. ASSUME NEW t \in Threads, NEW p \in Conns, LossDoes(t, p)
        PROVE  (t \in Conns => p = t) /\ (t = App => p = created)
    <2>1. thread[t].proto = p /\ thread[t].at \in LossPlaces
      BY <1>2, LossGoes
    <2>2. t \in Conns => p = t
      BY <2>1, Constants DEF OwnInv
    <2>3. t = App => p = created
      BY <2>1, PlacesParts DEF AppPlaced, LossPlaces, FailPlaces
    <2> QED
      BY <2>2, <2>3
  <1> QED
    BY <1>1, <1>2

\* A step of a reader, or of the application or a thread that handles a loss.
LEMMA OwnKind ==
    ASSUME TypeOK, PlacesInv, OwnInv, Kind
    PROVE  \/ AppKind \/ Rests
           \/ \E c \in Conns : ReaderDoes(c, c)
           \/ \E t \in Threads : \E p \in Conns :
                 LossDoes(t, p) /\ (t \in Conns => p = t) /\ (t = App => p = created)
  BY Owners DEF Kind, ReaderKind, LossKind

\* The protocol that a reader works for after its step.
LEMMA ReaderWorks ==
    ASSUME NEW c \in Conns, ReaderDoes(c, c), thread[c].proto \in {None, c}
    PROVE  \/ thread'[c].proto \in {None, c} /\ ~Begins(c)
           \/ thread'[c].proto = protocol /\ Begins(c)
  <1>0. c \in Threads
    BY Constants
  <1>1. CASE Begins(c) \/ Waits(c) \/ Turns(c, c) \/ TimesOut(c, c) \/ Stops(c, c)
    BY <1>0, <1>1, Moved DEF Begins, Waits, Turns, TimesOut, Stops
  <1>2. CASE Leaves(c, c)
    <2>1. /\ thread[c].at # "start"
          /\ \/ To(c, "ended", None, thread[c].n, thread[c].back)
             \/ To(c, "lost", c, 0, "ended")
      BY <1>2 DEF Leaves
    <2> QED
      BY <1>0, <2>1, Moved DEF Begins
  <1>3. ASSUME NEW s \in Conns, NEW n \in Nat, Gets(c, c, s, n)
        PROVE  thread[c].at = "recv" /\ thread'[c].proto = c
    BY <1>0, <1>3, Moved DEF Gets
  <1>4. ASSUME Counts(c, c) \/ Trims(c, c) \/ Returns(c, c, "release", "loop")
        PROVE  thread[c].at # "start" /\ thread'[c].proto = c
    <2>1. CASE Counts(c, c)
      BY <1>0, <2>1, Moved DEF Counts
    <2>2. ASSUME Trims(c, c)
          PROVE  thread[c].at = "trim" /\ \E n : To(c, "release", c, n, thread[c].back)
      BY <2>2 DEF Trims
    <2>3. CASE Returns(c, c, "release", "loop")
      BY <1>0, <2>3, Moved DEF Returns
    <2> QED
      BY <1>0, <1>4, <2>1, <2>2, <2>3, Moved
  <1>5. ASSUME NEW size \in Nat, NEW k \in Nat, Takes(c, c, size, k)
        PROVE  thread[c].at = "parse" /\ thread'[c].proto = c
    BY <1>0, <1>5, Moved DEF Takes
  <1> QED
    BY <1>1, <1>2, <1>3, <1>4, <1>5 DEF ReaderDoes, Begins

LEMMA OwnStep ==
    ASSUME TypeOK, PlacesInv, FieldsInv, OwnInv, Kind, overtaken' = {}
    PROVE  OwnInv'
  <1>0. /\ \A c \in Conns : c \in Threads /\ c # App /\ c # None
        /\ App \in Threads /\ AppPlaced /\ created \in Nat
    BY Constants, PlacesParts DEF TypeOK
  <1>1. CASE Opens
    <2>1. /\ \A u \in Threads : u # App => thread'[u] = thread[u]
          /\ \A c \in Conns : thread[c].at # "start"
      BY <1>0, <1>1, Moved DEF Opens
    <2> QED
      BY <1>0, <2>1 DEF OwnInv
  <1>2. CASE Establishes
    <2>1. /\ thread[created].at = "off"
          /\ thread'[created].at = "start" /\ thread'[created].proto = None
          /\ \A u \in Threads : u # App /\ u # created => thread'[u] = thread[u]
          /\ created' = created /\ created \in Conns /\ protocol' = created
      BY <1>0, <1>2 DEF Establishes, At, KeepMade, AppPlaced
    <2> QED
      BY <1>0, <2>1 DEF OwnInv
  <1>3. CASE EndsHandshake \/ Disconnects \/ Closes \/ Clears \/ Sends \/ Rests
    <2>1. /\ \A u \in Threads : u # App => thread'[u] = thread[u]
          /\ created' = created /\ protocol' \in {None, protocol}
      BY <1>0, <1>3 DEF EndsHandshake, Disconnects, Closes, Clears, Sends, Rests, To,
                        KeepAll, KeepFields, KeepMade
    <2> QED
      BY <1>0, <2>1 DEF OwnInv
  <1>4. ASSUME NEW c \in Conns, ReaderDoes(c, c) PROVE OwnInv'
    <2>1. /\ protocol' = protocol /\ created' = created
          /\ \A u \in Threads : u # c => thread'[u] = thread[u]
          /\ thread'[c].at # "start"
      BY <1>4, ReaderKeeps, ReaderSpots DEF KeepFields, KeepMade, HandlePlaces
    <2>2. thread'[c].proto \in {None, c}
      BY <1>4, ReaderWorks DEF OwnInv, Begins
    <2> QED
      BY <1>0, <2>1, <2>2 DEF OwnInv
  <1>5. ASSUME NEW t \in Threads, NEW p \in Conns, LossDoes(t, p) PROVE OwnInv'
    <2>1. /\ thread[t].proto = p /\ thread'[t].proto = p
          /\ \A u \in Threads : u # t => thread'[u] = thread[u]
          /\ protocol' = protocol /\ created' = created
          /\ \/ thread'[t].at \in LossNext \cup {thread[t].back}
             \/ thread'[t].at \in {"idle", "lost", "ended"}
      BY <1>5, LossGoes DEF KeepMade
    <2>2. thread[t].back \in {"cleanup", "loop", "ended"}
      BY DEF TypeOK
    <2>3. thread'[t].at # "start"
      BY <2>1, <2>2 DEF LossNext, FailPlaces
    <2> QED
      BY <1>0, <2>1, <2>3 DEF OwnInv
  <1> QED
    BY <1>1, <1>2, <1>3, <1>4, <1>5, OwnKind DEF AppKind

----------------------------------------------------------------------------
(* The buffers and what is reserved for them.                              *)

Buffered(c) ==
    /\ ~lost[c] => reserved[c] = Len(buffer[c])
    /\ thread[c].at = "count" => thread[c].n = Len(chunk[c])
    /\ thread[c].at \in {"parse", "trim"} => thread[c].n <= Len(buffer[c])

\* A reader that keeps its buffer and does not come into the middle of it.
LEMMA BufferedStays ==
    ASSUME NEW c \in Conns, Buffered(c), lost[c] => lost'[c],
           buffer'[c] = buffer[c], chunk'[c] = chunk[c],
           reserved'[c] = reserved[c] \/ lost'[c],
           thread'[c] = thread[c] \/ thread'[c].at \notin {"count", "parse", "trim"}
    PROVE  Buffered(c)'
  BY DEF Buffered

LEMMA Lengths ==
    ASSUME TypeOK, NEW c \in Conns
    PROVE  /\ Len(buffer[c]) \in Nat /\ Len(chunk[c]) \in Nat /\ reserved[c] \in Nat
           /\ c \in Threads /\ thread[c].n \in Nat
  <1>1. /\ buffer[c] \in Seq(Conns \X (Nat \ {0})) /\ chunk[c] \in Seq(Conns \X (Nat \ {0}))
        /\ reserved[c] \in Nat
    BY DEF TypeOK
  <1>2. c \in Threads
    BY Constants
  <1>3. thread[c].n \in Nat
    BY <1>2 DEF TypeOK
  <1> QED
    BY <1>1, <1>2, <1>3

LEMMA BufferedReader ==
    ASSUME TypeOK, NEW c \in Conns, ReaderDoes(c, c), \A d \in Conns : Buffered(d)
    PROVE  \A d \in Conns : Buffered(d)'
  <1>0. /\ \A d \in Conns : d \in Threads
        /\ Len(buffer[c]) \in Nat /\ Len(chunk[c]) \in Nat /\ reserved[c] \in Nat
        /\ thread[c].n \in Nat
    BY Lengths
  <1>1. KeepLosses /\ \A u \in Threads : u # c => thread'[u] = thread[u]
    BY ReaderKeeps, ReaderSpots
  <1>2. \A d \in Conns : d # c => /\ buffer'[d] = buffer[d] /\ chunk'[d] = chunk[d]
                                  /\ reserved'[d] = reserved[d]
    <2>1. CASE \/ Begins(c) \/ Waits(c) \/ Turns(c, c) \/ Leaves(c, c) \/ TimesOut(c, c)
               \/ Stops(c, c) \/ Returns(c, c, "release", "loop")
      BY <2>1 DEF Begins, Waits, Turns, Leaves, TimesOut, Stops, Returns, KeepAll, KeepBytes,
                  KeepBuffers, KeepCounts
    <2>2. ASSUME NEW s \in Conns, NEW n \in Nat, Gets(c, c, s, n)
          PROVE  /\ reserved' = reserved /\ buffer' = buffer
                 /\ \A d \in Conns : d # c => chunk'[d] = chunk[d]
      BY <2>2 DEF Gets, KeepCounts
    <2>3. CASE Counts(c, c) \/ Trims(c, c)
      BY <2>3 DEF Counts, Trims
    <2>4. ASSUME NEW size \in Nat, NEW k \in Nat, Takes(c, c, size, k)
          PROVE  reserved' = reserved /\ buffer' = buffer /\ chunk' = chunk
      BY <2>4 DEF Takes, KeepBytes, KeepBuffers, KeepCounts
    <2> QED
      BY <2>1, <2>2, <2>3, <2>4 DEF ReaderDoes
  <1>3. ASSUME NEW d \in Conns, d # c PROVE Buffered(d)'
    BY <1>0, <1>1, <1>2, <1>3, BufferedStays DEF KeepLosses
  <1>4. CASE \/ Begins(c) \/ Waits(c) \/ Turns(c, c) \/ Leaves(c, c) \/ TimesOut(c, c)
             \/ Returns(c, c, "release", "loop")
    <2>1. buffer' = buffer /\ chunk' = chunk /\ reserved' = reserved
      BY <1>4 DEF Begins, Waits, Turns, Leaves, TimesOut, Returns, KeepAll, KeepBytes,
                  KeepBuffers, KeepCounts
    <2>2. thread'[c].at \in {"loop", "recv", "ended", "lost"}
      BY <1>0, <1>4 DEF Begins, Waits, Turns, Leaves, TimesOut, Returns, To, At
    <2>3. Buffered(c)'
      BY <1>1, <2>1, <2>2, BufferedStays DEF KeepLosses
    <2> QED
      BY <1>3, <2>3
  <1>5. ASSUME NEW s \in Conns, NEW n \in Nat, Gets(c, c, s, n) PROVE Buffered(c)'
    <2>1. /\ reserved' = reserved /\ buffer' = buffer /\ Len(chunk'[c]) = n
          /\ thread'[c].at = "count" /\ thread'[c].n = n
      BY <1>0, <1>5, Moved DEF Gets, KeepCounts
    <2> QED
      BY <1>1, <2>1 DEF Buffered, KeepLosses
  <1>6. CASE Counts(c, c)
    <2>1. /\ thread[c].at = "count" /\ thread'[c].at = "parse" /\ thread'[c].n = 0
          /\ reserved'[c] = reserved[c] + thread[c].n
          /\ Len(buffer'[c]) = Len(buffer[c]) + Len(chunk[c])
      BY <1>0, <1>6, Moved DEF Counts
    <2>2. thread[c].n = Len(chunk[c])
      BY <2>1 DEF Buffered
    <2>3. ~lost[c] => reserved[c] = Len(buffer[c])
      BY DEF Buffered
    <2>4. ASSUME ~lost[c] PROVE reserved'[c] = Len(buffer'[c])
      BY <2>1, <2>2, <2>3, <2>4
    <2>5. 0 <= Len(buffer'[c])
      <3> DEFINE a == Len(buffer[c])
                 b == Len(chunk[c])
      <3>1. a \in Nat /\ b \in Nat /\ Len(buffer'[c]) = a + b
        BY <1>0, <2>1
      <3> HIDE DEF a, b
      <3> QED
        BY <3>1
    <2>6. Buffered(c)'
      BY <1>1, <2>1, <2>4, <2>5 DEF Buffered, KeepLosses
    <2> QED
      BY <1>3, <2>6
  <1>7. CASE Stops(c, c)
    <2>1. /\ thread[c].at = "parse" /\ thread'[c].at = "trim" /\ thread'[c].n = thread[c].n
          /\ reserved' = reserved /\ buffer' = buffer
      BY <1>0, <1>7, Moved DEF Stops, KeepAll, KeepBytes, KeepBuffers, KeepCounts
    <2>2. Buffered(c)'
      BY <1>1, <2>1 DEF Buffered, KeepLosses
    <2> QED
      BY <1>3, <2>2
  <1>8. ASSUME NEW size \in Nat, NEW k \in Nat, Takes(c, c, size, k) PROVE Buffered(c)'
    <2>1. /\ thread'[c].at = "parse" /\ thread'[c].n = thread[c].n + size
          /\ thread[c].n + size <= Len(buffer[c])
          /\ reserved' = reserved /\ buffer' = buffer
      BY <1>0, <1>8, Moved DEF Takes, KeepBytes, KeepBuffers, KeepCounts
    <2> QED
      BY <1>1, <2>1 DEF Buffered, KeepLosses
  <1>9. CASE Trims(c, c)
    <2>1. /\ thread[c].at = "trim"
          /\ thread[c].n <= Len(buffer[c]) => Len(buffer'[c]) = Len(buffer[c]) - thread[c].n
          /\ reserved'[c] = reserved[c] - Least(thread[c].n, reserved[c])
      BY <1>9 DEF Trims
    <2>2. thread'[c].at = "release"
      <3>1. \E n : To(c, "release", c, n, thread[c].back)
        BY <1>9 DEF Trims
      <3> QED
        BY <1>0, <3>1, Moved
    <2>3. thread[c].n <= Len(buffer[c])
      BY <2>1 DEF Buffered
    <2>4. ~lost[c] => reserved[c] = Len(buffer[c])
      BY DEF Buffered
    <2>5. ~lost[c] => Least(thread[c].n, reserved[c]) = thread[c].n
      BY <1>0, <2>3, <2>4 DEF Least
    <2>6. ASSUME ~lost[c] PROVE reserved'[c] = Len(buffer'[c])
      <3>1. /\ reserved'[c] = reserved[c] - thread[c].n /\ reserved[c] = Len(buffer[c])
            /\ Len(buffer'[c]) = Len(buffer[c]) - thread[c].n
        BY <2>1, <2>3, <2>4, <2>5, <2>6
      <3> QED
        BY <3>1
    <2>7. Buffered(c)'
      BY <1>1, <2>2, <2>6 DEF Buffered, KeepLosses
    <2> QED
      BY <1>3, <2>7
  <1> QED
    BY <1>3, <1>4, <1>5, <1>6, <1>7, <1>8, <1>9 DEF ReaderDoes

LEMMA BufferedLoss ==
    ASSUME TypeOK, LossInv, NEW t \in Threads, NEW p \in Conns, LossDoes(t, p),
           \A d \in Conns : Buffered(d)
    PROVE  \A d \in Conns : Buffered(d)'
  <1>0. \A d \in Conns : d \in Threads
    BY Constants
  <1>1. /\ thread[t].at \in LossPlaces /\ thread[t].proto = p
        /\ \/ thread'[t].at \in LossNext \cup {thread[t].back}
           \/ thread'[t].at \in {"idle", "lost", "ended"}
        /\ \A u \in Threads : u # t => thread'[u] = thread[u]
        /\ KeepBuffers
        /\ thread[t].back \in {"cleanup", "loop", "ended"}
    BY LossGoes DEF TypeOK
  <1>2. thread'[t].at \notin {"count", "parse", "trim"}
    BY <1>1 DEF LossNext, FailPlaces
  <1>3. \A d \in Conns : (lost[d] => lost'[d]) /\ (reserved'[d] = reserved[d] \/ lost'[d])
    <2>1. CASE Sets(t, p)
      BY <2>1 DEF Sets, KeepBytes, KeepCounts
    <2>2. CASE Sweeps(t, p)
      <3>1. Failing(t, p)
        BY <1>1, <2>2 DEF Sweeps, Failing, FailPlaces
      <3>2. lost[p]
        BY <3>1 DEF LossInv, FlagTells
      <3> QED
        BY <2>2, <3>2 DEF Sweeps, KeepLosses
    <2>3. CASE ~Sets(t, p) /\ ~Sweeps(t, p)
      BY <2>3 DEF LossDoes, Tests, Returns, Unsets, Drains, Breaks, Ends, KeepAll, KeepBytes,
                  KeepCounts, KeepLosses
    <2> QED
      BY <2>1, <2>2, <2>3
  <1>4. ASSUME NEW d \in Conns PROVE Buffered(d)'
    <2>1. thread'[d] = thread[d] \/ thread'[d].at \notin {"count", "parse", "trim"}
      BY <1>0, <1>1, <1>2
    <2> QED
      BY <1>1, <1>3, <2>1, BufferedStays DEF KeepBuffers
  <1> QED
    BY <1>4

LEMMA BytesStep ==
    ASSUME TypeOK, PlacesInv, LossInv, OwnInv, BytesInv, Kind
    PROVE  BytesInv'
  <1>0. /\ \A c \in Conns : c \in Threads /\ c # App
        /\ App \in Threads /\ AppPlaced
    BY Constants, PlacesParts
  <1>1. \A c \in Conns : Buffered(c)
    BY DEF BytesInv, Buffered
  <1>2. CASE AppKind \/ Rests
    <2>1. KeepBytes /\ lost' = lost
      BY <1>2 DEF AppKind, Opens, Establishes, EndsHandshake, Disconnects, Closes, Clears,
                  Sends, Rests, KeepAll, KeepLosses
    <2>2. ASSUME NEW d \in Conns
          PROVE  thread'[d] = thread[d] \/ thread'[d].at \notin {"count", "parse", "trim"}
      <3>1. CASE Establishes
        <4>1. /\ thread'[created].at = "start"
              /\ \A u \in Threads : u # App /\ u # created => thread'[u] = thread[u]
          BY <3>1 DEF Establishes, At
        <4> QED
          BY <1>0, <4>1
      <3>2. CASE ~Establishes
        BY <1>0, <1>2, <3>2 DEF AppKind, Opens, EndsHandshake, Disconnects, Closes, Clears,
                                Sends, Rests, To
      <3> QED
        BY <3>1, <3>2
    <2>3. \A d \in Conns : Buffered(d)'
      BY <1>1, <2>1, <2>2, BufferedStays DEF KeepBytes, KeepBuffers, KeepCounts
    <2> QED
      BY <2>3 DEF BytesInv, Buffered
  <1>3. CASE ~(AppKind \/ Rests)
    <2>1. \A d \in Conns : Buffered(d)'
      BY <1>1, <1>3, OwnKind, BufferedReader, BufferedLoss
    <2> QED
      BY <2>1 DEF BytesInv, Buffered
  <1> QED
    BY <1>2, <1>3

----------------------------------------------------------------------------
(* How a reader ends, and how a connection stops being connected.          *)

Ended(c) ==
    /\ thread[c].at = "ended" => lost[c] \/ thread[c].proto = None
    /\ thread[c].at \notin {"off", "start"} /\ thread[c].proto = None
          => lost[c] \/ Unheard(c)
    /\ thread[c].at = "start" /\ protocol = None => lost[c] \/ Unheard(c)
    /\ c = created /\ thread[c].at \notin {"off", "start"} /\ thread[c].proto = None
          => thread[c].at \in {"loop", "ended"} /\ protocol = None

Current ==
    /\ connected /\ lost[created] =>
          \E t \in Threads : /\ thread[t].at \in {"sweep", "giveBack", "unset"}
                             /\ thread[t].proto = created
    /\ thread[App].at \in {"establish", "handshake"} => announced[created].connect = 0
    /\ thread[App].at \in {"cleanup", "clear"} =>
          lost[created] \/ announced[created].connect = 0

LEMMA EndedParts ==
    EndedInv /\ ConnectedInv <=> Current /\ \A c \in Conns : Ended(c)
  BY DEF EndedInv, ConnectedInv, Current, Ended

LEMMA EndedParts2 ==
    EndedInv' /\ ConnectedInv' <=> Current' /\ \A c \in Conns : Ended(c)'
  BY DEF EndedInv, ConnectedInv, Current, Ended

LEMMA EndedReader ==
    ASSUME TypeOK, FieldsInv, NEW c \in Conns, ReaderDoes(c, c),
           \A d \in Conns : Ended(d), Current
    PROVE  Current' /\ \A d \in Conns : Ended(d)'
  <1>0. /\ \A d \in Conns : d \in Threads /\ d # App /\ d # None /\ d > 0
        /\ App \in Threads
    BY Constants
  <1>1. KeepFields /\ KeepLosses /\ KeepEvents /\ KeepMade
    BY ReaderKeeps
  <1>2. /\ thread[c].at \in {"start", "loop", "recv"} \cup HandlePlaces
        /\ thread'[c].at \in {"loop", "recv", "ended", "lost"} \cup HandlePlaces
        /\ \A u \in Threads : u # c => thread'[u] = thread[u]
    BY ReaderSpots
  <1>3. thread'[App] = thread[App]
    BY <1>0, <1>2
  <1>4. Current'
    BY <1>1, <1>2, <1>3 DEF HandlePlaces, Current, KeepFields, KeepLosses, KeepEvents, KeepMade
  <1>5. \A d \in Conns : Unheard(d)' <=> Unheard(d)
    BY <1>1, <1>3 DEF Unheard, KeepEvents, KeepMade
  <1>6. ASSUME NEW d \in Conns, d # c PROVE Ended(d)'
    <2>1. thread'[d] = thread[d] /\ Ended(d)
      BY <1>0, <1>2, <1>6
    <2> QED
      BY <1>1, <1>5, <2>1 DEF Ended, KeepFields, KeepLosses, KeepMade
  <1>7. CASE thread'[c].proto # None /\ thread'[c].at # "ended"
    <2>1. Ended(c)'
      BY <1>2, <1>7 DEF Ended, HandlePlaces
    <2> QED
      BY <1>4, <1>6, <2>1
  <1>8. CASE Begins(c)
    <2>1. /\ thread'[c].at = "loop" /\ thread'[c].proto = protocol /\ thread[c].at = "start"
      BY <1>0, <1>8, Moved DEF Begins
    <2>2. Ended(c)'
      BY <1>1, <1>5, <2>1 DEF Ended, KeepFields, KeepLosses, KeepMade
    <2> QED
      BY <1>4, <1>6, <2>2
  <1>9. CASE Waits(c)
    <2>1. /\ thread'[c].at = "recv" /\ thread'[c].proto = thread[c].proto
          /\ thread[c].at = "loop" /\ connected
      BY <1>0, <1>9, Moved DEF Waits
    <2>2. created \in Conns /\ protocol = created
      <3>1. created > 0 /\ protocol = created
        BY <2>1 DEF FieldsInv
      <3> QED
        BY <3>1, Constants DEF TypeOK
    <2>3. protocol # None
      BY <1>0, <2>2
    <2>4. Ended(c)'
      BY <1>1, <1>5, <2>1, <2>3 DEF Ended, KeepFields, KeepLosses, KeepMade
    <2> QED
      BY <1>4, <1>6, <2>4
  <1>10. CASE Leaves(c, c)
    <2>1. CASE thread[c].proto = None /\ To(c, "ended", None, thread[c].n, thread[c].back)
      <3>1. thread'[c].at = "ended" /\ thread'[c].proto = None
        BY <1>0, <2>1, Moved
      <3>2. thread[c].at \notin {"off", "start"}
        BY <1>10 DEF Leaves
      <3>3. Ended(c)'
        BY <1>1, <1>5, <2>1, <3>1, <3>2 DEF Ended, KeepFields, KeepLosses, KeepMade
      <3> QED
        BY <1>4, <1>6, <3>3
    <2>2. CASE To(c, "lost", c, 0, "ended")
      <3>1. thread'[c].at = "lost" /\ thread'[c].proto = c
        BY <1>0, <2>2, Moved
      <3> QED
        BY <1>0, <1>7, <3>1
    <2> QED
      BY <1>10, <2>1, <2>2 DEF Leaves
  <1>11. CASE \/ Turns(c, c) \/ TimesOut(c, c) \/ Counts(c, c) \/ Stops(c, c)
              \/ Returns(c, c, "release", "loop")
    <2>1. /\ thread'[c].proto = c
          /\ thread'[c].at \in {"loop", "lost", "parse", "trim"}
      <3>1. CASE Turns(c, c) \/ TimesOut(c, c)
        BY <1>0, <3>1, Moved DEF Turns, TimesOut
      <3>2. CASE Counts(c, c)
        BY <1>0, <3>2, Moved DEF Counts
      <3>3. CASE Stops(c, c) \/ Returns(c, c, "release", "loop")
        BY <1>0, <3>3, Moved DEF Stops, Returns
      <3> QED
        BY <1>11, <3>1, <3>2, <3>3
    <2> QED
      BY <1>0, <1>7, <2>1
  <1>12. ASSUME NEW s \in Conns, NEW n \in Nat, Gets(c, c, s, n)
         PROVE  thread'[c].proto # None /\ thread'[c].at # "ended"
    BY <1>0, <1>12, Moved DEF Gets
  <1>13. ASSUME NEW size \in Nat, NEW k \in Nat, Takes(c, c, size, k)
         PROVE  thread'[c].proto # None /\ thread'[c].at # "ended"
    BY <1>0, <1>13, Moved DEF Takes
  <1>14. ASSUME Trims(c, c)
         PROVE  thread'[c].proto # None /\ thread'[c].at # "ended"
    <2>1. \E n : To(c, "release", c, n, thread[c].back)
      BY <1>14 DEF Trims
    <2> QED
      BY <1>0, <2>1, Moved
  <1> QED
    BY <1>7, <1>8, <1>9, <1>10, <1>11, <1>12, <1>13, <1>14 DEF ReaderDoes

LEMMA EndedLoss ==
    ASSUME TypeOK, PlacesInv, FieldsInv, LossInv, NEW t \in Threads, NEW p \in Conns,
           LossDoes(t, p), t \in Conns => p = t, t = App => p = created,
           \A d \in Conns : Ended(d), Current
    PROVE  Current' /\ \A d \in Conns : Ended(d)'
  <1>0. /\ \A d \in Conns : d \in Threads /\ d # App /\ d # None
        /\ App \in Threads /\ AppPlaced /\ \A c \in Conns : ReaderPlaced(c)
    BY Constants, PlacesParts
  <1>1. /\ thread[t].at \in LossPlaces /\ thread[t].proto = p
        /\ \/ thread'[t].at \in LossNext \cup {thread[t].back}
           \/ thread[t].back = "cleanup" /\ thread'[t].at = "idle"
           \/ thread[t].back \in {"loop", "ended"} /\ thread'[t].at \in {"lost", "ended"}
        /\ thread'[t].proto = p
        /\ \A u \in Threads : u # t => thread'[u] = thread[u]
        /\ socket' = socket /\ protocol' = protocol /\ (connected' => connected)
        /\ created' = created
    BY LossGoes DEF KeepMade
  <1>2. /\ thread[t].back \in {"cleanup", "loop", "ended"}
        /\ t \in Conns => thread[t].back # "cleanup"
        /\ t = App => thread[t].back = "cleanup"
    BY <1>0, <1>1 DEF ReaderPlaced, AppPlaced, TypeOK
  <1>3. /\ \A d \in Conns : /\ announced'[d].connect = announced[d].connect
                            /\ lost[d] => lost'[d]
                            /\ d # p => lost'[d] = lost[d]
    <2>1. CASE Sets(t, p)
      BY <2>1 DEF Sets, KeepEvents
    <2>2. CASE Ends(t, p)
      <3>1. announced[p].connect \in Nat
        BY DEF TypeOK
      <3> QED
        BY <2>2, <3>1 DEF Ends, Told, KeepLosses
    <2>3. CASE ~Sets(t, p) /\ ~Ends(t, p)
      BY <2>3 DEF LossDoes, Tests, Sweeps, Returns, Unsets, Drains, Breaks, KeepAll, KeepEvents,
                  KeepLosses
    <2> QED
      BY <2>1, <2>2, <2>3
  <1>a. thread[t].at \in FailPlaces => lost[p]
    <2>1. thread[t].at \in FailPlaces => Failing(t, p)
      BY <1>1 DEF Failing
    <2> QED
      BY <2>1 DEF LossInv, FlagTells
  <1>4. thread'[t].at \notin LossPlaces => lost'[p]
    <2>1. CASE Tests(t, p)
      BY <2>1, Moved DEF Tests, KeepAll, KeepLosses, LossPlaces
    <2>2. CASE Sets(t, p)
      BY <2>2 DEF Sets
    <2>3. CASE ~Tests(t, p) /\ ~Sets(t, p)
      <3>1. thread[t].at \in FailPlaces
        BY <2>3 DEF LossDoes, Sweeps, Returns, Unsets, Drains, Breaks, Ends, FailPlaces
      <3> QED
        BY <1>3, <1>a, <3>1
    <2> QED
      BY <2>1, <2>2, <2>3
  <1>5. thread'[App].at \in {"establish", "handshake"} => thread'[App] = thread[App]
    BY <1>0, <1>1, <1>2 DEF LossNext, FailPlaces
  <1>6. \A d \in Conns : Unheard(d) => Unheard(d)'
    BY <1>1, <1>3, <1>5 DEF Unheard
  <1>7. ASSUME NEW d \in Conns PROVE Ended(d)'
    <2>1. CASE d = t
      <3>1. thread'[d].at # "start" /\ thread'[d].proto # None
        BY <1>0, <1>1, <1>2, <2>1 DEF LossNext, FailPlaces
      <3>2. thread'[d].at = "ended" => lost'[d]
        BY <1>0, <1>4, <2>1 DEF LossPlaces, FailPlaces
      <3> QED
        BY <3>1, <3>2 DEF Ended
    <2>2. CASE d # t
      <3>1. thread'[d] = thread[d] /\ Ended(d) /\ (lost[d] => lost'[d])
            /\ (Unheard(d) => Unheard(d)')
        BY <1>0, <1>1, <1>3, <1>6, <2>2
      <3> QED
        BY <1>1, <3>1 DEF Ended
    <2> QED
      BY <2>1, <2>2
  <1>8. created' = created /\ (created > 0 => created \in Conns)
    BY <1>1, Constants DEF TypeOK
  <1> DEFINE Early == {"sweep", "giveBack", "unset"}
  <1>9. ASSUME connected', lost'[created']
        PROVE  \E u \in Threads : thread'[u].at \in Early /\ thread'[u].proto = created'
    <2>1. connected /\ created \in Conns /\ created' = created
      BY <1>1, <1>8, <1>9 DEF FieldsInv
    <2>2. CASE Sets(t, p) /\ p = created
      <3>1. thread'[t].at = "sweep"
        BY <2>2, Moved DEF Sets
      <3> QED
        BY <1>1, <2>1, <2>2, <3>1
    <2>3. CASE ~(Sets(t, p) /\ p = created)
      <3>1. lost[created]
        <4>1. CASE p = created
          BY <1>9, <2>1, <2>3, <4>1
             DEF LossDoes, Tests, Sweeps, Returns, Unsets, Drains, Breaks, Ends, KeepAll,
                 KeepLosses
        <4>2. CASE p # created
          BY <1>3, <1>9, <2>1, <4>2
        <4> QED
          BY <4>1, <4>2
      <3>2. PICK u \in Threads : thread[u].at \in Early /\ thread[u].proto = created
        BY <2>1, <3>1 DEF Current
      <3>3. CASE u = t
        <4>1. ~Unsets(t, p)
          BY <1>9 DEF Unsets
        <4>2. Sweeps(t, p) \/ Returns(t, p, "giveBack", "unset")
          BY <3>2, <3>3, <4>1
             DEF LossDoes, Tests, Sets, Unsets, Drains, Breaks, Ends
        <4>3. thread'[t].at \in Early
          BY <4>2, Moved DEF Sweeps, Returns
        <4> QED
          BY <1>1, <2>1, <3>2, <3>3, <4>3
      <3>4. CASE u # t
        BY <1>1, <2>1, <3>2, <3>4
      <3> QED
        BY <3>3, <3>4
    <2> QED
      BY <2>2, <2>3
  <1>10. thread'[App].at \in {"establish", "handshake"} => announced'[created'].connect = 0
    <2>1. SUFFICES ASSUME thread'[App].at \in {"establish", "handshake"}
                   PROVE  announced'[created].connect = 0
      BY <1>8
    <2>2. thread[App].at \in {"establish", "handshake"}
      BY <1>5, <2>1
    <2>3. announced[created].connect = 0 /\ created \in Conns
      BY <1>0, <1>8, <2>2 DEF Current, AppPlaced
    <2> QED
      BY <1>3, <2>3
  <1>11. thread'[App].at \in {"cleanup", "clear"} =>
            lost'[created'] \/ announced'[created'].connect = 0
    <2>1. SUFFICES ASSUME thread'[App].at \in {"cleanup", "clear"}
                   PROVE  lost'[created] \/ announced'[created].connect = 0
      BY <1>8
    <2>2. CASE t = App
      BY <1>0, <1>4, <2>1, <2>2 DEF LossPlaces, FailPlaces
    <2>3. CASE t # App
      <3>1. thread[App].at \in {"cleanup", "clear"}
        BY <1>0, <1>1, <2>1, <2>3
      <3>2. created \in Conns /\ (lost[created] \/ announced[created].connect = 0)
        BY <1>0, <1>8, <3>1 DEF Current, AppPlaced
      <3> QED
        BY <1>3, <3>2
    <2> QED
      BY <2>2, <2>3
  <1> QED
    BY <1>7, <1>9, <1>10, <1>11 DEF Current

\* The application, which does not touch a flag of a loss.
LEMMA EndedApp ==
    ASSUME TypeOK, PlacesInv, FieldsInv, OwnInv, AppKind \/ Rests, overtaken' = {},
           \A d \in Conns : Ended(d), Current
    PROVE  Current' /\ \A d \in Conns : Ended(d)'
  <1>0. /\ \A d \in Conns : d \in Threads /\ d # App /\ d # None /\ d \in Nat
        /\ App \in Threads /\ created \in Nat /\ AppPlaced /\ \A c \in Conns : ReaderPlaced(c)
        /\ created > 0 => created \in Conns
    <2>1. created \in 0..MaxConns
      BY DEF TypeOK
    <2>2. created \in Nat /\ (created > 0 => created \in Conns)
      BY <2>1, Constants
    <2> QED
      BY <2>2, Constants, PlacesParts
  <1>1. KeepLosses
    BY DEF AppKind, Opens, Establishes, EndsHandshake, Disconnects, Closes, Clears, Sends,
           Rests, KeepAll
  <1>2. CASE Opens
    <2>1. /\ created' = created + 1 /\ created' \in Conns /\ ~connected' /\ ~connected
          /\ protocol' = protocol /\ announced' = announced
          /\ thread[App].at = "idle"
          /\ \A c \in Conns : thread[c].at # "start"
      BY <1>2 DEF Opens, KeepEvents
    <2>2. /\ thread'[App].at \in {"establish", "cleanup"}
          /\ \A u \in Threads : u # App => thread'[u] = thread[u]
      BY <1>0, <1>2, Moved DEF Opens
    <2>3. announced[created'].connect = 0
      BY <1>0, <2>1 DEF FieldsInv
    <2>4. Current'
      BY <2>1, <2>3 DEF Current
    <2>5. ASSUME NEW d \in Conns PROVE Ended(d)'
      <3>1. thread'[d] = thread[d] /\ thread[d].at # "start" /\ Ended(d)
        BY <1>0, <2>1, <2>2
      <3>2. thread[d].at # "off" => d # created'
        BY <1>0, <2>1 DEF ReaderPlaced
      <3>3. Unheard(d) /\ thread[d].at # "off" => Unheard(d)'
        BY <2>1, <3>2 DEF Unheard
      <3> QED
        BY <1>1, <2>1, <3>1, <3>2, <3>3 DEF Ended, KeepLosses
    <2> QED
      BY <2>4, <2>5
  <1>3. CASE Establishes
    <2>1. /\ thread'[App].at = "handshake" /\ thread[App].at = "establish"
          /\ thread'[created].at = "start" /\ thread[created].at = "off"
          /\ \A u \in Threads : u # App /\ u # created => thread'[u] = thread[u]
          /\ created' = created /\ created \in Conns /\ announced' = announced
          /\ protocol' = created
      BY <1>0, <1>3 DEF Establishes, At, KeepMade, KeepEvents, AppPlaced
    <2>2. ~lost'[created]
      BY <1>1, <2>1 DEF FieldsInv, KeepLosses
    <2>3. Current'
      BY <2>1, <2>2 DEF Current
    <2>4. ASSUME NEW d \in Conns PROVE Ended(d)'
      <3>1. CASE d = created
        BY <1>0, <2>1, <3>1 DEF Ended
      <3>2. CASE d # created
        <4>1. thread'[d] = thread[d] /\ Ended(d) /\ thread[d].at # "start"
          BY <1>0, <2>1, <3>2 DEF OwnInv
        <4>2. Unheard(d) => Unheard(d)'
          BY <2>1, <3>2 DEF Unheard
        <4> QED
          BY <1>1, <2>1, <3>2, <4>1, <4>2 DEF Ended, KeepLosses
      <3> QED
        BY <3>1, <3>2
    <2> QED
      BY <2>3, <2>4
  <1>4. CASE EndsHandshake
    <2>1. /\ thread'[App].at \in {"idle", "cleanup"}
          /\ \A u \in Threads : u # App => thread'[u] = thread[u]
          /\ thread'[App].at = "cleanup" => announced' = announced
          /\ thread[App].at = "handshake" /\ created' = created /\ created \in Conns
          /\ connected' = connected /\ protocol' = protocol
      <3>1. CASE To(App, "idle", created, thread[App].n, thread[App].back)
        BY <1>0, <1>4, <3>1, Moved DEF EndsHandshake, KeepFields, KeepMade
      <3>2. CASE To(App, "cleanup", created, thread[App].n, thread[App].back)
                 /\ announced' = announced
        BY <1>0, <1>4, <3>2, Moved DEF EndsHandshake, KeepFields, KeepMade
      <3> QED
        BY <1>4, <3>1, <3>2 DEF EndsHandshake
    <2>2. \A d \in Conns : d # created => announced'[d] = announced[d]
      BY <1>4 DEF EndsHandshake, Told
    <2>3. Current'
      BY <1>1, <2>1 DEF Current, KeepLosses
    <2>4. protocol = created
      BY <2>1 DEF FieldsInv
    <2>5. ASSUME NEW d \in Conns PROVE Ended(d)'
      <3>1. thread'[d] = thread[d] /\ Ended(d)
        BY <1>0, <2>1
      <3>2. Unheard(d) => Unheard(d)'
        <4>1. Unheard(d) => d # created
          BY <2>1 DEF Unheard
        <4> QED
          BY <2>1, <2>2, <4>1 DEF Unheard
      <3> QED
        BY <1>0, <1>1, <2>1, <2>4, <3>1, <3>2 DEF Ended, KeepLosses
    <2> QED
      BY <2>3, <2>5
  <1>5. CASE Disconnects \/ Closes
    <2>1. /\ thread'[App].at \in {"lost", "clear"} /\ thread[App].at \in {"idle", "cleanup"}
          /\ thread'[App].at = "clear" => thread[App].at = "cleanup"
          /\ \A u \in Threads : u # App => thread'[u] = thread[u]
      BY <1>0, <1>5, Moved DEF Disconnects, Closes
    <2>2. KeepFields /\ KeepEvents /\ KeepMade
      BY <1>5 DEF Disconnects, Closes, KeepAll
    <2>3. Current'
      BY <1>1, <2>1, <2>2 DEF Current, KeepLosses, KeepFields, KeepEvents, KeepMade
    <2>4. ASSUME NEW d \in Conns PROVE Ended(d)'
      <3>1. thread'[d] = thread[d] /\ Ended(d)
        BY <1>0, <2>1
      <3>2. Unheard(d) => Unheard(d)'
        BY <2>1, <2>2 DEF Unheard, KeepEvents
      <3> QED
        BY <1>1, <2>2, <3>1, <3>2 DEF Ended, KeepLosses, KeepFields, KeepMade
    <2> QED
      BY <2>3, <2>4
  <1>6. CASE Clears
    <2>1. /\ thread'[App].at = "idle" /\ thread[App].at = "clear"
          /\ \A u \in Threads : u # App => thread'[u] = thread[u]
          /\ created' = created /\ protocol' = None /\ ~connected' /\ announced' = announced
      BY <1>0, <1>6, Moved DEF Clears, KeepMade, KeepEvents
    <2>2. Current'
      BY <2>1 DEF Current
    <2>3. lost[created] \/ announced[created].connect = 0
      BY <2>1 DEF Current
    <2>4. ASSUME NEW d \in Conns PROVE Ended(d)'
      <3>1. thread'[d] = thread[d] /\ Ended(d)
        BY <1>0, <2>1
      <3>2. Unheard(d)' <=> announced[d].connect = 0
        BY <2>1 DEF Unheard
      <3>3. Unheard(d) => Unheard(d)'
        BY <3>2 DEF Unheard
      <3>4. thread[d].at = "start" => d = created
        BY DEF OwnInv
      <3>5. thread'[d].at = "start" => lost'[d] \/ Unheard(d)'
        BY <1>1, <2>3, <3>1, <3>2, <3>4 DEF KeepLosses
      <3> QED
        BY <1>1, <2>1, <3>1, <3>3, <3>5 DEF Ended, KeepLosses
    <2> QED
      BY <2>2, <2>4
  <1>7. CASE Sends \/ Rests
    <2>1. thread' = thread /\ KeepFields /\ KeepMade /\ announced' = announced
      BY <1>7 DEF Sends, Rests, KeepAll, KeepEvents
    <2>2. \A d \in Conns : Unheard(d)' <=> Unheard(d)
      BY <2>1 DEF Unheard, KeepMade
    <2>3. Current'
      BY <1>1, <2>1 DEF Current, KeepLosses, KeepFields, KeepMade
    <2>4. \A d \in Conns : Ended(d)'
      BY <1>1, <2>1, <2>2 DEF Ended, KeepLosses, KeepFields, KeepMade
    <2> QED
      BY <2>3, <2>4
  <1> QED
    BY <1>2, <1>3, <1>4, <1>5, <1>6, <1>7 DEF AppKind

LEMMA EndedStep ==
    ASSUME TypeOK, PlacesInv, FieldsInv, LossInv, OwnInv, EndedInv, ConnectedInv, Kind,
           overtaken' = {}
    PROVE  EndedInv' /\ ConnectedInv'
  <1>1. Current /\ \A c \in Conns : Ended(c)
    BY EndedParts
  <1>2. Current' /\ \A c \in Conns : Ended(c)'
    BY <1>1, OwnKind, EndedApp, EndedReader, EndedLoss
  <1> QED
    BY <1>2, EndedParts2

----------------------------------------------------------------------------
(* Pending requests.                                                       *)

\* The request of the connection c is answered, or one day failed.
Awaited(c) ==
    request[c] = "pending" =>
        \/ SomeoneDrains
        \/ /\ connected /\ c = created
           /\ thread[App].at \notin {"establish", "handshake"}
           /\ thread[App].at \in {"cleanup", "clear"} => lost[created]

LEMMA RequestParts == RequestInv <=> \A c \in Conns : Awaited(c)
  BY DEF RequestInv, Awaited

LEMMA RequestParts2 == RequestInv' <=> \A c \in Conns : Awaited(c)'
  BY DEF RequestInv, Awaited

\* A step of the application or a reader disturbs no thread that handles a loss.
LEMMA FailersStay ==
    ASSUME TypeOK, PlacesInv, AppKind \/ Rests \/ \E c \in Conns : ReaderDoes(c, c)
    PROVE  \A t \in Threads : thread[t].at \in FailPlaces => thread'[t] = thread[t]
  <1>0. /\ App \in Threads /\ AppPlaced /\ \A d \in Conns : d \in Threads /\ d # App
    BY Constants, PlacesParts
  <1>1. CASE Establishes
    <2>1. /\ thread[App].at = "establish" /\ thread[created].at = "off"
          /\ \A u \in Threads : u # App /\ u # created => thread'[u] = thread[u]
      BY <1>0, <1>1 DEF Establishes, AppPlaced
    <2> QED
      BY <1>0, <2>1 DEF FailPlaces
  <1>2. CASE Sends \/ Rests
    BY <1>2 DEF Sends, Rests
  <1>3. CASE AppKind /\ ~Establishes /\ ~Sends
    <2>1. /\ thread[App].at \in {"idle", "handshake", "cleanup", "clear"}
          /\ \A u \in Threads : u # App => thread'[u] = thread[u]
      BY <1>0, <1>3 DEF AppKind, Opens, EndsHandshake, Disconnects, Closes, Clears, To
    <2> QED
      BY <1>0, <2>1 DEF FailPlaces
  <1>4. ASSUME NEW c \in Conns, ReaderDoes(c, c)
        PROVE  \A t \in Threads : thread[t].at \in FailPlaces => thread'[t] = thread[t]
    BY <1>4, ReaderSpots DEF FailPlaces, HandlePlaces
  <1> QED
    BY <1>1, <1>2, <1>3, <1>4

LEMMA DrainsStay ==
    ASSUME TypeOK, PlacesInv, AppKind \/ Rests \/ \E c \in Conns : ReaderDoes(c, c),
           SomeoneDrains
    PROVE  SomeoneDrains'
  BY FailersStay DEF SomeoneDrains, FailPlaces

LEMMA RequestStep ==
    ASSUME TypeOK, PlacesInv, FieldsInv, LossInv, OwnInv, EndedInv, ConnectedInv, RequestInv,
           Kind
    PROVE  RequestInv'
  <1>0. /\ App \in Threads /\ AppPlaced /\ \A d \in Conns : d \in Threads /\ d # App
        /\ Current /\ \A d \in Conns : Awaited(d)
    BY Constants, PlacesParts, EndedParts, RequestParts
  <1> DEFINE Stands(c) == /\ connected /\ c = created
                          /\ thread[App].at \notin {"establish", "handshake"}
                          /\ thread[App].at \in {"cleanup", "clear"} => lost[created]
             Goal(c) == /\ connected' /\ c = created'
                        /\ thread'[App].at \notin {"establish", "handshake"}
                        /\ thread'[App].at \in {"cleanup", "clear"} => lost'[created']
  <1>1. SUFFICES ASSUME NEW c \in Conns, request'[c] = "pending", ~SomeoneDrains'
                 PROVE  Goal(c)
    BY RequestParts2 DEF Awaited
  <1>a. request[c] = "pending" /\ ~SomeoneDrains => Stands(c)
    BY <1>0 DEF Awaited
  <1>2. CASE Sends
    <2>1. /\ thread' = thread /\ KeepFields /\ KeepLosses /\ KeepMade
          /\ thread[App].at = "idle" /\ connected
          /\ request'[c] = IF c = protocol THEN "pending" ELSE request[c]
      BY <1>2 DEF Sends
    <2>2. protocol = created
      BY <2>1 DEF FieldsInv
    <2>3. ~SomeoneDrains
      BY <1>1, <2>1 DEF SomeoneDrains
    <2> QED
      BY <1>1, <1>a, <2>1, <2>2, <2>3 DEF KeepFields, KeepMade
  <1>3. CASE AppKind /\ ~Sends
    <2>1. ~SomeoneDrains
      BY <1>1, <1>3, DrainsStay
    <2>2. request' = request
      BY <1>3 DEF AppKind, Opens, Establishes, EndsHandshake, Disconnects, Closes, Clears,
                  KeepAll, KeepEvents, KeepAsked
    <2>3. Stands(c)
      BY <1>1, <1>a, <2>1, <2>2
    <2>4. thread[App].at # "clear"
      <3>1. ASSUME thread[App].at = "clear" PROVE SomeoneDrains
        BY <1>0, <2>3, <3>1 DEF Current, SomeoneDrains
      <3> QED
        BY <2>1, <3>1
    <2>5. Disconnects \/ Closes
      BY <1>3, <2>3, <2>4 DEF AppKind, Opens, Establishes, EndsHandshake, Clears
    <2>6. /\ thread'[App].at \in {"lost", "clear"}
          /\ thread'[App].at = "clear" => thread[App].at = "cleanup"
      BY <1>0, <2>5, Moved DEF Disconnects, Closes
    <2>7. KeepFields /\ KeepLosses /\ KeepMade
      BY <2>5 DEF Disconnects, Closes, KeepAll
    <2> QED
      BY <2>3, <2>6, <2>7 DEF KeepFields, KeepLosses, KeepMade
  <1>4. ASSUME NEW d \in Conns, ReaderDoes(d, d) PROVE Goal(c)
    <2>1. ~SomeoneDrains
      BY <1>1, <1>4, DrainsStay
    <2>2. KeepFields /\ KeepLosses /\ request' = request /\ KeepMade
      BY <1>4, ReaderKeeps DEF KeepEvents, KeepAsked
    <2>3. thread'[App] = thread[App]
      BY <1>0, <1>4, ReaderSpots
    <2> QED
      BY <1>1, <1>a, <2>1, <2>2, <2>3 DEF KeepFields, KeepLosses, KeepMade
  <1>5. CASE Rests
    <2>1. thread' = thread /\ KeepFields /\ KeepLosses /\ request' = request /\ KeepMade
      BY <1>5 DEF Rests, KeepAll, KeepEvents, KeepAsked
    <2>2. ~SomeoneDrains
      BY <1>1, <2>1 DEF SomeoneDrains
    <2> QED
      BY <1>1, <1>a, <2>1, <2>2 DEF KeepFields, KeepLosses, KeepMade
  <1>6. ASSUME NEW t \in Threads, NEW p \in Conns, LossDoes(t, p), t = App => p = created
        PROVE  Goal(c)
    <2>1. Tests(t, p) \/ Ends(t, p)
      <3>1. ASSUME \/ Sets(t, p) \/ Sweeps(t, p) \/ Returns(t, p, "giveBack", "unset")
                   \/ Unsets(t, p)
            PROVE  SomeoneDrains'
        BY <3>1, Moved DEF Sets, Sweeps, Returns, Unsets, SomeoneDrains
      <3>2. ~Drains(t, p) /\ ~Breaks(t, p)
        BY <1>1 DEF Drains, Breaks, Settles
      <3> QED
        BY <1>1, <1>6, <3>1, <3>2 DEF LossDoes
    <2>2. /\ thread[t].at \in {"lost", "end"} /\ thread[t].proto = p
          /\ \A u \in Threads : u # t => thread'[u] = thread[u]
          /\ KeepFields /\ KeepLosses /\ request' = request /\ KeepMade
      BY <1>6, <2>1, LossGoes DEF LossDoes, Tests, Ends, KeepAll, KeepEvents, KeepAsked
    <2>3. ~SomeoneDrains
      BY <1>1, <2>2 DEF SomeoneDrains
    <2>4. Stands(c)
      BY <1>1, <1>a, <2>2, <2>3
    <2>5. CASE t # App
      BY <1>0, <2>2, <2>4, <2>5 DEF KeepFields, KeepLosses, KeepMade
    <2>6. CASE t = App
      <3>1. p = created /\ thread[App].back = "cleanup"
        BY <1>0, <1>6, <2>2, <2>6 DEF AppPlaced, LossPlaces, FailPlaces
      <3>2. /\ thread'[App].at \in {"setLost", "cleanup"}
            /\ thread'[App].at = "cleanup" => lost[created]
        <4>1. CASE Tests(t, p)
          BY <2>6, <3>1, <4>1, Moved DEF Tests
        <4>2. CASE Ends(t, p)
          <5>1. thread'[App].at = "cleanup" /\ Failing(t, p)
            BY <2>2, <2>6, <3>1, <4>2, Moved DEF Ends, Failing, FailPlaces
          <5> QED
            BY <3>1, <5>1 DEF LossInv, FlagTells
        <4> QED
          BY <2>1, <4>1, <4>2
      <3> QED
        BY <2>2, <2>4, <3>2 DEF KeepFields, KeepLosses, KeepMade
    <2> QED
      BY <2>5, <2>6
  <1> QED
    BY <1>2, <1>3, <1>4, <1>5, <1>6, OwnKind

----------------------------------------------------------------------------
(* All who work work for the last connection.                              *)

Alone ==
    /\ \A c \in Conns : c < created => thread[c].at \in {"off", "ended"}
    /\ \A c \in Conns : failedBy[c] \in {None, c}
    /\ \A c \in Conns : request[c] = "pending" => c = created
    /\ protocol # None /\ ~connected => lost[protocol]

LEMMA AloneParts ==
    ASSUME TypeOK, PlacesInv, OwnInv
    PROVE  AloneInv <=> Alone
  <1>0. /\ created \in Nat /\ \A c \in Conns : c \in Nat /\ c \in Threads
        /\ AppPlaced /\ \A c \in Conns : ReaderPlaced(c)
    BY Constants, PlacesParts DEF TypeOK
  <1>1. ASSUME NEW c \in Conns, c < created
        PROVE  c \notin AtWork <=> thread[c].at \in {"off", "ended"}
    <2>1. thread[c].at # "idle"
      BY <1>0 DEF ReaderPlaced, ReaderPlaces, LoopPlaces, HandlePlaces, LossPlaces, FailPlaces
    <2>2. thread[c].at \notin {"off", "ended"} => c \in AtWork
      BY <1>0, <2>1 DEF AtWork
    <2>3. ASSUME c \in AtWork PROVE thread[c].at \notin {"off", "ended"}
      <3>1. PICK t \in Threads : /\ thread[t].at \notin {"off", "idle", "ended"}
                                 /\ t = c \/ thread[t].proto = c
        BY <2>3 DEF AtWork
      <3>2. t # App
        BY <1>0, <1>1, <3>1, Constants DEF AppPlaced
      <3>3. t = c
        BY <1>0, <3>1, <3>2, Constants DEF OwnInv
      <3> QED
        BY <3>1, <3>3
    <2> QED
      BY <2>2, <2>3
  <1> QED
    BY <1>1 DEF AloneInv, Alone

LEMMA AloneParts2 ==
    ASSUME TypeOK', PlacesInv', OwnInv'
    PROVE  AloneInv' <=> Alone'
  <1>0. /\ created' \in Nat /\ \A c \in Conns : c \in Nat /\ c \in Threads
        /\ AppPlaced' /\ \A c \in Conns : ReaderPlaced(c)'
    BY Constants, PlacesParts2 DEF TypeOK
  <1>1. ASSUME NEW c \in Conns, c < created'
        PROVE  c \notin AtWork' <=> thread'[c].at \in {"off", "ended"}
    <2>1. thread'[c].at # "idle"
      BY <1>0 DEF ReaderPlaced, ReaderPlaces, LoopPlaces, HandlePlaces, LossPlaces, FailPlaces
    <2>2. thread'[c].at \notin {"off", "ended"} => c \in AtWork'
      BY <1>0, <2>1 DEF AtWork
    <2>3. ASSUME c \in AtWork' PROVE thread'[c].at \notin {"off", "ended"}
      <3>1. PICK t \in Threads : /\ thread'[t].at \notin {"off", "idle", "ended"}
                                 /\ t = c \/ thread'[t].proto = c
        BY <2>3 DEF AtWork
      <3>2. t # App
        BY <1>0, <1>1, <3>1, Constants DEF AppPlaced
      <3>3. t = c
        BY <1>0, <3>1, <3>2, Constants DEF OwnInv
      <3> QED
        BY <3>1, <3>3
    <2> QED
      BY <2>2, <2>3
  <1> QED
    BY <1>1 DEF AloneInv, Alone

\* Who handles a loss then handles that of the last connection.
LEMMA LastIsLost ==
    ASSUME TypeOK, PlacesInv, Alone, NEW t \in Threads, NEW p \in Conns, LossDoes(t, p),
           t \in Conns => p = t, t = App => p = created
    PROVE  p = created
  <1>1. thread[t].at \in LossPlaces
    BY LossGoes
  <1>2. CASE t \in Conns
    <2>1. p = t /\ thread[p].at \notin {"off", "ended"}
      BY <1>1, <1>2 DEF LossPlaces, FailPlaces
    <2>2. p <= created
      BY <2>1, PlacesParts DEF ReaderPlaced
    <2>3. p \in Nat /\ created \in 0..MaxConns
      BY Constants DEF TypeOK
    <2>4. ~(p < created)
      BY <2>1 DEF Alone
    <2>5. created \in Nat
      BY <2>3, Constants
    <2> QED
      BY <2>2, <2>3, <2>4, <2>5
  <1> QED
    BY <1>2, Constants

LEMMA AloneApp ==
    ASSUME TypeOK, PlacesInv, FieldsInv, AppKind \/ Rests, Alone, overtaken' = {},
           RequestInv
    PROVE  Alone'
  <1>0. /\ App \in Threads /\ \A d \in Conns : d \in Threads /\ d # App /\ d \in Nat
        /\ created \in Nat /\ AppPlaced /\ \A c \in Conns : ReaderPlaced(c)
    BY Constants, PlacesParts DEF TypeOK
  <1>1. KeepLosses
    BY DEF AppKind, Opens, Establishes, EndsHandshake, Disconnects, Closes, Clears, Sends,
           Rests, KeepAll
  <1>2. CASE Opens
    <2>1. /\ created' = created + 1 /\ protocol' = protocol /\ connected' = connected
          /\ KeepAsked /\ AtWork = {} /\ ~connected /\ thread[App].at = "idle"
      BY <1>2 DEF Opens, KeepEvents
    <2>2. \A u \in Threads : u # App => thread'[u] = thread[u]
      BY <1>2 DEF Opens, To
    <2>3. \A c \in Conns : thread'[c].at \in {"off", "ended"}
      <3>1. \A c \in Conns : thread[c].at \in {"off", "idle", "ended"}
        BY <1>0, <2>1 DEF AtWork
      <3>2. \A c \in Conns : thread[c].at # "idle"
        BY <1>0 DEF ReaderPlaced, ReaderPlaces, LoopPlaces, HandlePlaces, LossPlaces, FailPlaces
      <3> QED
        BY <1>0, <2>2, <3>1, <3>2
    <2>4. ~SomeoneDrains
      <3>1. ASSUME NEW u \in Threads, thread[u].at \in {"sweep", "giveBack", "unset", "drain"}
            PROVE  FALSE
        <4>1. u \in Conns
          BY <2>1, <3>1, Constants
        <4> QED
          BY <2>1, <3>1, <4>1 DEF AtWork
      <3> QED
        BY <3>1 DEF SomeoneDrains
    <2>5. \A c \in Conns : request'[c] # "pending"
      BY <2>1, <2>4, RequestParts DEF Awaited, KeepAsked
    <2> QED
      BY <1>1, <2>1, <2>3, <2>5 DEF Alone, KeepAsked, KeepLosses
  <1>3. CASE Establishes
    <2>1. /\ \A u \in Threads : u # App /\ u # created => thread'[u] = thread[u]
          /\ connected' = TRUE /\ created' = created /\ KeepAsked
      BY <1>3 DEF Establishes, KeepMade, KeepEvents
    <2>2. \A c \in Conns : c < created => thread'[c] = thread[c]
      BY <1>0, <2>1
    <2> QED
      BY <2>1, <2>2 DEF Alone, KeepAsked
  <1>4. CASE EndsHandshake \/ Disconnects \/ Closes \/ Rests
    <2>1. /\ KeepFields /\ created' = created /\ failedBy' = failedBy /\ request' = request
          /\ \A u \in Threads : u # App => thread'[u] = thread[u]
      BY <1>4 DEF EndsHandshake, Disconnects, Closes, Rests, KeepAll, KeepEvents, KeepAsked,
                        KeepMade, To
    <2> QED
      BY <1>0, <1>1, <2>1 DEF Alone, KeepFields, KeepLosses
  <1>5. CASE Clears
    <2>1. /\ protocol' = None /\ created' = created /\ KeepAsked
          /\ \A u \in Threads : u # App => thread'[u] = thread[u]
      BY <1>5 DEF Clears, To, KeepMade, KeepEvents
    <2> QED
      BY <1>0, <2>1 DEF Alone, KeepAsked
  <1>6. CASE Sends
    <2>1. /\ thread' = thread /\ KeepFields /\ created' = created /\ failedBy' = failedBy
          /\ thread[App].at = "idle" /\ connected
          /\ \A d \in Conns : request'[d] = IF d = protocol THEN "pending" ELSE request[d]
      BY <1>6 DEF Sends, KeepMade
    <2>2. protocol = created
      BY <2>1 DEF FieldsInv
    <2> QED
      BY <2>1, <2>2 DEF Alone, KeepFields
  <1> QED
    BY <1>2, <1>3, <1>4, <1>5, <1>6 DEF AppKind

\* Who was overtaken once remains so.
LEMMA OvertakenStays ==
    ASSUME TypeOK, PlacesInv, Kind, overtaken' = {}
    PROVE  overtaken = {}
  <1>1. CASE Opens
    BY <1>1 DEF Opens
  <1>2. CASE AppKind /\ ~Opens
    BY <1>2 DEF AppKind, Establishes, EndsHandshake, Disconnects, Closes, Clears, Sends,
                KeepAll, KeepMade
  <1>3. CASE ReaderKind
    BY <1>3, ReaderKeeps DEF ReaderKind, KeepMade
  <1>4. CASE LossKind
    BY <1>4, LossGoes DEF LossKind, KeepMade
  <1>5. CASE Rests
    BY <1>5 DEF Rests, KeepAll, KeepMade
  <1> QED
    BY <1>1, <1>2, <1>3, <1>4, <1>5 DEF Kind

LEMMA AloneStep ==
    ASSUME TypeOK, PlacesInv, FieldsInv, LossInv, OwnInv, RequestInv, AloneInv,
           TypeOK', PlacesInv', OwnInv', Kind, overtaken' = {}
    PROVE  AloneInv'
  <1>0. /\ App \in Threads /\ \A d \in Conns : d \in Threads /\ d # App /\ d \in Nat
        /\ created \in Nat /\ None \notin Conns /\ \A c \in Conns : ReaderPlaced(c)
    BY Constants, PlacesParts DEF TypeOK
  <1>2. Alone
    BY AloneParts
  <1>3. ASSUME AppKind \/ Rests PROVE Alone'
    BY <1>2, <1>3, AloneApp
  <1>4. ASSUME NEW c \in Conns, ReaderDoes(c, c) PROVE Alone'
    <2>1. KeepFields /\ KeepLosses /\ KeepAsked /\ KeepMade
      BY <1>4, ReaderKeeps DEF KeepEvents
    <2>2. /\ thread[c].at \in {"start", "loop", "recv"} \cup HandlePlaces
          /\ \A u \in Threads : u # c => thread'[u] = thread[u]
      BY <1>4, ReaderSpots
    <2>3. ~(c < created)
      BY <1>2, <2>2 DEF Alone, HandlePlaces
    <2>4. \A d \in Conns : d < created => thread'[d] = thread[d]
      BY <1>0, <2>2, <2>3
    <2> QED
      BY <1>2, <2>1, <2>4 DEF Alone, KeepFields, KeepLosses, KeepAsked, KeepMade
  <1>5. ASSUME NEW t \in Threads, NEW p \in Conns, LossDoes(t, p),
               t \in Conns => p = t, t = App => p = created
        PROVE  Alone'
    <2>1. p = created
      BY <1>2, <1>5, LastIsLost
    <2>2. /\ \A u \in Threads : u # t => thread'[u] = thread[u]
          /\ protocol' = protocol /\ created' = created
      BY <1>5, LossGoes DEF KeepMade
    <2>3. \A d \in Conns : d < created => thread'[d] = thread[d]
      <3>1. ASSUME NEW d \in Conns, d < created PROVE d # t
        BY <1>0, <1>5, <2>1, <3>1
      <3> QED
        BY <1>0, <2>2, <3>1
    <2>4. /\ \A d \in Conns : /\ failedBy'[d] \in {None, d}
                              /\ request'[d] = "pending" => d = created
      <3>1. CASE Drains(t, p) \/ Breaks(t, p)
        <4>1. \A d \in Conns : /\ request'[d] # "pending"
                               /\ failedBy'[d] \in {failedBy[d], p}
                               /\ request[d] # "pending" => failedBy'[d] = failedBy[d]
          BY <3>1 DEF Drains, Breaks, Settles
        <4> QED
          BY <1>2, <2>1, <4>1 DEF Alone
      <3>2. CASE ~Drains(t, p) /\ ~Breaks(t, p)
        <4>1. KeepAsked
          BY <1>5, <3>2 DEF LossDoes, Tests, Sets, Sweeps, Returns, Unsets, Ends, KeepAll,
                            KeepEvents
        <4> QED
          BY <1>2, <4>1 DEF Alone, KeepAsked
      <3> QED
        BY <3>1, <3>2
    <2>5. \A d \in Conns : lost[d] => lost'[d]
      <3>1. CASE Sets(t, p)
        BY <3>1 DEF Sets
      <3>2. CASE ~Sets(t, p)
        BY <1>5, <3>2 DEF LossDoes, Tests, Sweeps, Returns, Unsets, Drains, Breaks, Ends,
                          KeepAll, KeepLosses
      <3> QED
        BY <3>1, <3>2
    <2>6. ASSUME protocol # None, ~connected' PROVE lost'[protocol]
      <3>1. protocol \in Conns
        BY <2>6 DEF TypeOK
      <3>2. CASE ~connected
        BY <1>2, <2>5, <2>6, <3>1, <3>2 DEF Alone
      <3>3. CASE connected
        <4>1. protocol = p
          BY <2>1, <3>3 DEF FieldsInv
        <4>2. Unsets(t, p)
          BY <1>5, <2>6, <3>3 DEF LossDoes, Tests, Sets, Sweeps, Returns, Drains, Breaks, Ends,
                                  KeepAll, KeepFields
        <4>3. Failing(t, p)
          BY <1>5, <4>2 DEF LossDoes, Unsets, Failing, FailPlaces
        <4>4. lost[p]
          BY <4>3 DEF LossInv, FlagTells
        <4> QED
          BY <2>5, <3>1, <4>1, <4>4
      <3> QED
        BY <3>2, <3>3
    <2> QED
      BY <1>2, <2>2, <2>3, <2>4, <2>6 DEF Alone
  <1>6. Alone'
    BY <1>3, <1>4, <1>5, OwnKind
  <1> QED
    BY <1>6, AloneParts2

----------------------------------------------------------------------------
(* The frames of a stream.                                                 *)

\* The frames follow one another, and where a frame ends another begins or
\* the stream ends.
LEMMA FrameOrder ==
    ASSUME NEW c \in Conns
    PROVE  /\ \A j, k \in 1..Len(Stream[c]) :
                 j < k => Behind(Stream[c][j]) <= Stream[c][k].start
           /\ \A k \in 1..Len(Stream[c]) : /\ Boundary(c, Behind(Stream[c][k]))
                                           /\ Behind(Stream[c][k]) <= StreamLength(c)
           /\ Boundary(c, 0)
  <1>1. Contiguous(Stream[c])
    BY ClientAssumption
  <1>2. /\ Len(Stream[c]) \in Nat
        /\ \A k \in 1..Len(Stream[c]) :
              /\ Stream[c][k].start \in Nat /\ Stream[c][k].size \in Nat \ {0}
              /\ Behind(Stream[c][k]) = Stream[c][k].start + Stream[c][k].size
    BY Streams
  <1>3. \A j, k \in 1..Len(Stream[c]) :
           /\ j < k => Behind(Stream[c][j]) <= Stream[c][k].start
           /\ k = j + 1 => Behind(Stream[c][j]) = Stream[c][k].start
    BY <1>1 DEF Contiguous
  <1>4. Stream[c] = <<>> <=> Len(Stream[c]) = 0
    BY ClientAssumption
  <1>5. Len(Stream[c]) > 0 =>
           StreamLength(c) = Behind(Stream[c][Len(Stream[c])])
    BY <1>2, <1>4 DEF StreamLength
  <1>6. ASSUME NEW k \in 1..Len(Stream[c])
        PROVE  /\ Boundary(c, Behind(Stream[c][k]))
               /\ Behind(Stream[c][k]) <= StreamLength(c)
    <2>1. CASE k = Len(Stream[c])
      <3>1. StreamLength(c) = Behind(Stream[c][k]) /\ Behind(Stream[c][k]) \in Nat
        BY <1>2, <1>5, <1>6, <2>1
      <3> QED
        BY <3>1 DEF Boundary
    <2>2. CASE k # Len(Stream[c])
      <3> DEFINE l == Len(Stream[c])
      <3>1. k + 1 \in 1..l /\ l \in 1..l /\ k < l /\ l > 0
        BY <1>2, <1>6, <2>2
      <3>2. Stream[c][k + 1].start = Behind(Stream[c][k])
        BY <1>3, <1>6, <3>1
      <3>3. Behind(Stream[c][k]) <= Stream[c][l].start
        BY <1>3, <1>6, <3>1
      <3>4. Stream[c][l].start <= Behind(Stream[c][l]) /\ StreamLength(c) = Behind(Stream[c][l])
        BY <1>2, <1>5, <3>1
      <3>5. /\ Behind(Stream[c][k]) \in Nat /\ Stream[c][l].start \in Nat
            /\ Behind(Stream[c][l]) \in Nat
        BY <1>6, <3>1, Streams
      <3>6. Behind(Stream[c][k]) <= StreamLength(c)
        BY <3>3, <3>4, <3>5
      <3> QED
        BY <3>1, <3>2, <3>6 DEF Boundary
    <2> QED
      BY <2>1, <2>2
  <1>7. Boundary(c, 0)
    <2>1. CASE Len(Stream[c]) = 0
      BY <1>4, <2>1 DEF Boundary, StreamLength
    <2>2. CASE Len(Stream[c]) # 0
      <3>1. Len(Stream[c]) > 0 /\ 1 \in 1..Len(Stream[c])
        BY <1>2, <2>2
      <3>2. Stream[c][1].start = 0
        BY <1>1, <3>1 DEF Contiguous
      <3> QED
        BY <3>1, <3>2 DEF Boundary
    <2> QED
      BY <2>1, <2>2
  <1> QED
    BY <1>3, <1>6, <1>7

\* The buffer b has the bytes of c from place x on, in order.
HasBytes(b, c, x) == \A i \in 1..Len(b) : b[i] = <<c, x + i>>

\* Where a frame begins it is found, if the buffer has its bytes in order.
LEMMA FrameIsFound ==
    ASSUME NEW c \in Conns, NEW b, NEW n \in Nat, NEW x \in Nat, Len(b) \in Nat,
           n < Len(b), HasBytes(b, c, x),
           x + Len(b) <= StreamLength(c), Boundary(c, x + n)
    PROVE  /\ b[n + 1][1] = c
           /\ FrameAt(b, n) \in 1..Len(Stream[c])
           /\ Stream[c][FrameAt(b, n)].start = x + n
  <1>0. \A i \in 1..Len(b) : b[i] = <<c, x + i>>
    BY DEF HasBytes
  <1>1. n + 1 \in 1..Len(b) /\ b[n + 1] = <<c, x + (n + 1)>>
    BY <1>0
  <1>2. b[n + 1][1] = c /\ b[n + 1][2] = (x + n) + 1
    BY <1>1
  <1>3. StreamLength(c) \in Nat /\ x + n # StreamLength(c)
    BY Streams
  <1>4. PICK k0 \in 1..Len(Stream[c]) : Stream[c][k0].start = x + n
    BY <1>3 DEF Boundary
  <1> DEFINE K == {k \in 1..Len(Stream[c]) : Stream[c][k].start + 1 = b[n + 1][2]}
             InOrder(k) == \A i \in 1..Stream[c][k].size :
                              n + i <= Len(b) => b[n + i] = <<c, Stream[c][k].start + i>>
  <1>5. k0 \in K
    BY <1>2, <1>4
  <1>6. InOrder(k0)
    <2>1. Stream[c][k0].size \in Nat
      BY Streams
    <2>2. SUFFICES ASSUME NEW i \in 1..Stream[c][k0].size, n + i <= Len(b)
                   PROVE  b[n + i] = <<c, (x + n) + i>>
      BY <1>4
    <2>3. i \in Nat /\ i > 0
      BY <2>1
    <2>4. n + i \in 1..Len(b) /\ x + (n + i) = (x + n) + i
      BY <2>2, <2>3
    <2> QED
      BY <1>0, <2>4
  <1>7. FrameAt(b, n) = IF \E k \in K : InOrder(k) THEN CHOOSE k \in K : InOrder(k) ELSE 0
    BY <1>2 DEF FrameAt
  <1>8. FrameAt(b, n) \in K
    <2> HIDE DEF K, InOrder
    <2> QED
      BY <1>5, <1>6, <1>7
  <1>9. /\ FrameAt(b, n) \in 1..Len(Stream[c])
        /\ Stream[c][FrameAt(b, n)].start + 1 = (x + n) + 1
    BY <1>2, <1>8
  <1> DEFINE y == Stream[c][FrameAt(b, n)].start
  <1>10. y \in Nat /\ y + 1 = (x + n) + 1
    BY <1>9, Streams
  <1> HIDE DEF y
  <1>11. y = x + n
    BY <1>10
  <1> QED
    BY <1>2, <1>9, <1>11 DEF y

\* The frames complete behind a frame, and in the middle of one.
LEMMA CompleteThere ==
    ASSUME NEW c \in Conns, NEW k \in 1..Len(Stream[c])
    PROVE  LET f == Stream[c][k] IN
           /\ Complete(c, Behind(f)) = Complete(c, f.start)
                                          \cup (IF f.kind = "good" THEN {k} ELSE {})
           /\ \A j \in Complete(c, f.start) : j < k
           /\ \A n \in Nat : f.start <= n /\ n < Behind(f) =>
                                Complete(c, n) = Complete(c, f.start)
  <1> DEFINE f == Stream[c][k]
  <1>1. \A j \in 1..Len(Stream[c]) :
           /\ Stream[c][j].start \in Nat /\ Stream[c][j].size \in Nat \ {0}
           /\ Behind(Stream[c][j]) = Stream[c][j].start + Stream[c][j].size
    BY Streams
  <1>2. f.start \in Nat /\ Behind(f) \in Nat /\ f.start < Behind(f)
    BY <1>1
  <1>3. ASSUME NEW j \in 1..Len(Stream[c])
        PROVE  /\ j < k => Behind(Stream[c][j]) <= f.start
               /\ j > k => Behind(Stream[c][j]) > Behind(f)
               /\ Behind(Stream[c][j]) \in Nat
               /\ j < k \/ j = k \/ j > k
    <2>1. j < k => Behind(Stream[c][j]) <= f.start
      BY FrameOrder
    <2>2. j > k => Behind(f) <= Stream[c][j].start
      BY FrameOrder
    <2>3. Stream[c][j].start < Behind(Stream[c][j]) /\ Stream[c][j].start \in Nat
          /\ Behind(Stream[c][j]) \in Nat
      BY <1>1
    <2>4. j \in Int /\ k \in Int
      BY Streams
    <2> QED
      BY <1>2, <2>1, <2>2, <2>3, <2>4
  <1> HIDE DEF f
  <1>4. \A j \in 1..Len(Stream[c]) :
           Behind(Stream[c][j]) <= Behind(f) <=> Behind(Stream[c][j]) <= f.start \/ j = k
    <2>1. ASSUME NEW j \in 1..Len(Stream[c])
          PROVE  Behind(Stream[c][j]) <= Behind(f) <=> Behind(Stream[c][j]) <= f.start \/ j = k
      <3>1. CASE j < k
        BY <1>2, <1>3, <3>1
      <3>2. CASE j = k
        BY <1>2, <3>2 DEF f
      <3>3. CASE j > k
        BY <1>2, <1>3, <3>3
      <3> QED
        BY <1>3, <3>1, <3>2, <3>3
    <2> QED
      BY <2>1
  <1>5. Complete(c, Behind(f)) = Complete(c, f.start)
                                    \cup (IF f.kind = "good" THEN {k} ELSE {})
    BY <1>4 DEF Complete, f
  <1>6. \A j \in Complete(c, f.start) : j < k
    <2>1. ASSUME NEW j \in 1..Len(Stream[c]), Behind(Stream[c][j]) <= f.start PROVE j < k
      <3>1. CASE j = k
        BY <1>2, <2>1, <3>1 DEF f
      <3>2. CASE j > k
        BY <1>2, <1>3, <2>1, <3>2
      <3> QED
        BY <1>3, <3>1, <3>2
    <2> QED
      BY <2>1 DEF Complete
  <1>7. ASSUME NEW n \in Nat, f.start <= n, n < Behind(f)
        PROVE  Complete(c, n) = Complete(c, f.start)
    <2>1. ASSUME NEW j \in 1..Len(Stream[c])
          PROVE  Behind(Stream[c][j]) <= n <=> Behind(Stream[c][j]) <= f.start
      <3>1. CASE j < k
        BY <1>2, <1>3, <1>7, <3>1
      <3>2. CASE j = k
        <4>1. Behind(Stream[c][j]) = Behind(f)
          BY <3>2 DEF f
        <4> QED
          BY <1>2, <1>7, <4>1
      <3>3. CASE j > k
        BY <1>2, <1>3, <1>7, <3>3
      <3> QED
        BY <1>3, <3>1, <3>2, <3>3
    <2> QED
      BY <2>1 DEF Complete
  <1> QED
    BY <1>5, <1>6, <1>7 DEF f

\* One more at the end of a list.
LEMMA ListedNext ==
    ASSUME NEW s \in Seq(Nat \ {0}), NEW K, Lists(s, K), NEW k \in Nat \ {0},
           \A j \in K : j < k
    PROVE  Lists(Append(s, k), K \cup {k})
  <1> DEFINE r == Append(s, k)
  <1>1. /\ Len(s) \in Nat /\ Len(r) = Len(s) + 1
        /\ \A i \in 1..Len(s) : r[i] = s[i]
        /\ r[Len(s) + 1] = k
    OBVIOUS
  <1> HIDE DEF r
  <1>2. {s[i] : i \in 1..Len(s)} = K /\ \A i, j \in 1..Len(s) : i < j => s[i] < s[j]
    BY DEF Lists
  <1>3. {r[i] : i \in 1..Len(r)} = K \cup {k}
    <2>1. ASSUME NEW i \in 1..Len(r) PROVE r[i] \in K \cup {k}
      <3>1. i \in 1..Len(s) \/ i = Len(s) + 1
        BY <1>1
      <3> QED
        BY <1>1, <1>2, <3>1
    <2>2. ASSUME NEW j \in K \cup {k} PROVE \E i \in 1..Len(r) : r[i] = j
      <3>1. CASE j = k
        <4>1. Len(s) + 1 \in 1..Len(r)
          BY <1>1
        <4> QED
          BY <1>1, <3>1, <4>1
      <3>2. CASE j \in K
        <4>1. PICK i \in 1..Len(s) : s[i] = j
          BY <1>2, <3>2
        <4>2. i \in 1..Len(r) /\ r[i] = j
          BY <1>1, <4>1
        <4> QED
          BY <4>2
      <3> QED
        BY <2>2, <3>1, <3>2
    <2> QED
      BY <2>1, <2>2
  <1>4. ASSUME NEW i \in 1..Len(r), NEW j \in 1..Len(r), i < j PROVE r[i] < r[j]
    <2>1. i \in 1..Len(s)
      BY <1>1, <1>4
    <2>2. CASE j \in 1..Len(s)
      BY <1>1, <1>2, <1>4, <2>1, <2>2
    <2>3. CASE j = Len(s) + 1
      <3>1. s[i] \in K
        BY <1>2, <2>1
      <3> QED
        BY <1>1, <2>1, <2>3, <3>1
    <2>4. j \in 1..Len(s) \/ j = Len(s) + 1
      BY <1>1
    <2> QED
      BY <2>2, <2>3, <2>4
  <1> QED
    BY <1>3, <1>4 DEF Lists, r

----------------------------------------------------------------------------
(* The frames that were handled.                                           *)

Framed(c) ==
    /\ received[c] <= StreamLength(c)
    /\ \E n \in 0..received[c] : Lists(handled[c], Complete(c, n))
    /\ Running(c) => InStep(c)
    /\ thread[c].at \in {"off", "start"} =>
          /\ received[c] = 0 /\ buffer[c] = <<>> /\ chunk[c] = <<>>
          /\ handled[c] = <<>>

LEMMA FramesParts ==
    /\ FramesInv <=> \A c \in Conns : Framed(c)
    /\ FramesInv' <=> \A c \in Conns : Framed(c)'
  BY DEF FramesInv, Framed

\* Nothing happens to the buffer of c.
LEMMA FramedAside ==
    ASSUME NEW c \in Conns, Framed(c),
           received'[c] = received[c], buffer'[c] = buffer[c], chunk'[c] = chunk[c],
           handled'[c] = handled[c],
           Running(c)' => Running(c), Offset(c)' = Offset(c),
           thread'[c].at # "count" => thread[c].at # "count",
           thread'[c].at \notin {"count", "parse"} => thread[c].at \notin {"count", "parse"},
           thread'[c].at \in {"off", "start"} => thread[c].at \in {"off", "start"}
    PROVE  Framed(c)'
  <1>1. Consumed(c)' = Consumed(c) /\ Chunk(c)' = Chunk(c)
    BY DEF Consumed, Chunk
  <1>2. InStep(c) => InStep(c)'
    BY <1>1 DEF InStep
  <1> QED
    BY <1>2 DEF Framed

LEMMA FramedSame ==
    ASSUME NEW c \in Conns, Framed(c), thread'[c] = thread[c],
           received'[c] = received[c], buffer'[c] = buffer[c], chunk'[c] = chunk[c],
           handled'[c] = handled[c]
    PROVE  Framed(c)'
  <1>1. Offset(c)' = Offset(c) /\ (Running(c)' => Running(c))
    BY DEF Offset, Running
  <1> QED
    BY <1>1, FramedAside

\* What is known of numbers and sequences of a connection.
LEMMA Numbers ==
    ASSUME TypeOK, NEW c \in Conns
    PROVE  /\ received[c] \in Nat /\ Len(buffer[c]) \in Nat /\ thread[c].n \in Nat
           /\ handled[c] \in Seq(Nat \ {0}) /\ StreamLength(c) \in Nat
           /\ Len(chunk[c]) \in Nat /\ c \in Threads /\ c # App
  <1>1. c \in Threads /\ c # App
    BY Constants
  <1>2. buffer[c] \in Seq(Conns \X (Nat \ {0})) /\ received[c] \in Nat
        /\ handled[c] \in Seq(Nat \ {0})
    BY DEF TypeOK
  <1>3. thread[c].n \in Nat
    BY <1>1 DEF TypeOK
  <1> QED
    BY <1>1, <1>2, <1>3, Streams, Lengths

LEMMA NothingYet ==
    ASSUME NEW c \in Conns
    PROVE  Complete(c, 0) = {}
  <1>1. \A k \in 1..Len(Stream[c]) : ~(Behind(Stream[c][k]) <= 0)
    BY Streams
  <1> QED
    BY <1>1 DEF Complete

\* A reader begins with nothing.
LEMMA FramedBegins ==
    ASSUME TypeOK, NEW c \in Conns, Framed(c), Begins(c)
    PROVE  Framed(c)'
  <1>1. /\ thread'[c].at = "loop" /\ thread[c].at = "start"
        /\ received' = received /\ buffer' = buffer /\ chunk' = chunk
        /\ handled' = handled
    BY Numbers, Moved DEF Begins, KeepAll, KeepBytes, KeepBuffers, KeepStreams
  <1>2. received[c] = 0 /\ buffer[c] = <<>> /\ chunk[c] = <<>> /\ handled[c] = <<>>
    BY <1>1 DEF Framed
  <1>3. /\ Consumed(c)' = 0 /\ Offset(c)' = 0 /\ Chunk(c)' = 0
        /\ Len(buffer'[c]) = 0
    <2>1. Len(buffer'[c]) = 0 /\ received'[c] = 0 /\ Chunk(c)' = 0
      BY <1>1, <1>2 DEF Chunk
    <2> QED
      BY <1>1, <2>1 DEF Consumed, Offset
  <1>4. Complete(c, 0) = {}
    BY NothingYet
  <1>5. Lists(<<>>, {})
    BY DEF Lists
  <1>6. Boundary(c, 0)
    BY FrameOrder
  <1>7. InStep(c)'
    <2>1. Consumed(c)' + Offset(c)' = 0 /\ received'[c] = 0 /\ handled'[c] = <<>>
      BY <1>1, <1>2, <1>3
    <2>2. /\ Len(buffer'[c]) + Chunk(c)' <= received'[c] /\ chunk'[c] = <<>>
          /\ \A i \in 1..Len(buffer'[c]) : buffer'[c][i] = <<c, Consumed(c)' + i>>
          /\ \A i \in 1..Chunk(c)' :
                chunk'[c][i] = <<c, Consumed(c)' + Len(buffer'[c]) + i>>
      BY <1>1, <1>2, <1>3, <2>1
    <2>3. Lists(handled'[c], Complete(c, Consumed(c)' + Offset(c)'))
      BY <1>4, <1>5, <2>1
    <2>4. Boundary(c, Consumed(c)' + Offset(c)')
      BY <1>6, <2>1
    <2>5. Complete(c, Consumed(c)' + Offset(c)') = Complete(c, received'[c])
      BY <2>1
    <2> QED
      BY <2>2, <2>3, <2>4, <2>5 DEF InStep
  <1> QED
    BY <1>1, <1>7 DEF Framed

\* What a reader waits with: nothing but what is in its buffer.
LEMMA NoChunk ==
    ASSUME TypeOK, NEW c \in Conns, Framed(c), Running(c), thread[c].at # "count"
    PROVE  /\ InStep(c) /\ chunk[c] = <<>> /\ Chunk(c) = 0
           /\ Consumed(c) \in Nat /\ Consumed(c) + Len(buffer[c]) = received[c]
  <1>1. InStep(c) /\ chunk[c] = <<>>
    BY DEF Framed, InStep
  <1>2. Chunk(c) = 0
    BY <1>1 DEF Chunk
  <1>3. received[c] \in Nat /\ Len(buffer[c]) \in Nat
    BY Numbers
  <1> QED
    BY <1>1, <1>2, <1>3 DEF Consumed, InStep

\* More bytes of its own stream, which are not in the buffer yet.
LEMMA FramedGets ==
    ASSUME TypeOK, NEW c \in Conns, NEW n \in Nat, Framed(c), Gets(c, c, c, n)
    PROVE  Framed(c)'
  <1>1. /\ thread'[c].at = "count" /\ thread[c].at = "recv"
        /\ received[c] + n <= StreamLength(c)
        /\ received'[c] = received[c] + n
        /\ buffer' = buffer /\ Len(chunk'[c]) = n
        /\ \A i \in 1..n : chunk'[c][i] = <<c, received[c] + i>>
        /\ handled' = handled
    <2>1. To(c, "count", c, n, thread[c].back) /\ c \in Threads
      BY Numbers DEF Gets
    <2>2. thread'[c].at = "count"
      BY <2>1, Moved
    <2> QED
      BY <2>2 DEF Gets
  <1>2. received[c] \in Nat /\ Len(buffer[c]) \in Nat /\ received'[c] \in Nat
    BY <1>1, Numbers
  <1>3. /\ InStep(c) /\ Chunk(c) = 0
        /\ Consumed(c) \in Nat /\ Consumed(c) + Len(buffer[c]) = received[c]
    <2>1. Running(c)
      BY <1>1 DEF Running, LoopPlaces
    <2> QED
      BY <1>1, <2>1, NoChunk
  <1>4. /\ Consumed(c)' = Consumed(c) /\ Chunk(c)' = n
        /\ Offset(c) = 0 /\ Offset(c)' = 0
    <2>1. Chunk(c)' = n /\ Offset(c) = 0 /\ Offset(c)' = 0
      BY <1>1 DEF Chunk, Offset
    <2> QED
      BY <1>1, <1>2, <1>3, <2>1 DEF Consumed
  <1>5. InStep(c)'
    <2> DEFINE l == Len(buffer[c])
               x == Consumed(c)
    <2>1. l + n <= received'[c]
      BY <1>1, <1>2, <1>3
    <2>2. \A i \in 1..n : received[c] + i = x + l + i
      BY <1>2, <1>3
    <2>3. \A i \in 1..n : chunk'[c][i] = <<c, x + l + i>>
      BY <1>1, <2>2
    <2>4. \A i \in 1..l : buffer[c][i] = <<c, x + i>>
      BY <1>3 DEF InStep
    <2>5. /\ Boundary(c, x + Offset(c))
          /\ Lists(handled[c], Complete(c, x + Offset(c)))
      BY <1>3 DEF InStep
    <2> HIDE DEF l, x
    <2>6. /\ Len(buffer'[c]) = l /\ Consumed(c)' = x /\ Chunk(c)' = n
          /\ Offset(c)' = Offset(c)
      BY <1>1, <1>4 DEF l, x
    <2> QED
      BY <1>1, <2>1, <2>3, <2>4, <2>5, <2>6 DEF InStep
  <1>6. \E m \in 0..received'[c] : Lists(handled'[c], Complete(c, m))
    <2>1. PICK m \in 0..received[c] : Lists(handled[c], Complete(c, m))
      BY DEF Framed
    <2>2. m \in 0..received'[c]
      BY <1>1, <1>2
    <2> QED
      BY <1>1, <2>1, <2>2
  <1> QED
    BY <1>1, <1>5, <1>6 DEF Framed

\* They are put behind the others.
LEMMA FramedCounts ==
    ASSUME TypeOK, NEW c \in Conns, Framed(c), Counts(c, c)
    PROVE  Framed(c)'
  <1> DEFINE l == Len(buffer[c])
             n == Chunk(c)
             x == Consumed(c)
  <1>1. /\ thread'[c].at = "parse" /\ thread'[c].n = 0 /\ thread[c].at = "count"
        /\ Len(buffer'[c]) = l + n
        /\ \A i \in 1..l : buffer'[c][i] = buffer[c][i]
        /\ \A i \in 1..n : buffer'[c][l + i] = chunk[c][i]
        /\ chunk'[c] = <<>> /\ received' = received /\ handled' = handled
    <2>1. To(c, "parse", c, 0, thread[c].back) /\ c \in Threads
      BY Numbers DEF Counts
    <2>2. thread'[c].at = "parse" /\ thread'[c].n = 0
      BY <2>1, Moved
    <2> QED
      BY <2>2 DEF Counts, KeepStreams, Chunk
  <1>2. received[c] \in Nat /\ l \in Nat /\ n \in Nat
    BY Numbers DEF Chunk
  <1>3. InStep(c)
    BY <1>1 DEF Framed, Running, LoopPlaces, HandlePlaces
  <1>4. /\ l + n <= received[c]
        /\ \A i \in 1..l : buffer[c][i] = <<c, x + i>>
        /\ \A i \in 1..n : chunk[c][i] = <<c, x + l + i>>
        /\ Boundary(c, x + Offset(c)) /\ Lists(handled[c], Complete(c, x + Offset(c)))
    BY <1>3 DEF InStep
  <1>5. x = received[c] - n - l /\ x \in Nat
    BY <1>2, <1>4 DEF Consumed
  <1>6. Chunk(c)' = 0 /\ Offset(c) = 0 /\ Offset(c)' = 0
    BY <1>1 DEF Chunk, Offset
  <1>7. Consumed(c)' = x
    <2> HIDE DEF l, n, x
    <2>1. Consumed(c)' = received[c] - 0 - (l + n)
      BY <1>1, <1>6 DEF Consumed
    <2> QED
      BY <1>2, <1>5, <2>1
  <1> HIDE DEF l, n, x
  <1>8. ASSUME NEW i \in 1..Len(buffer'[c]) PROVE buffer'[c][i] = <<c, x + i>>
    <2>1. CASE i \in 1..l
      BY <1>1, <1>4, <2>1
    <2>2. CASE i \notin 1..l
      <3>1. i - l \in 1..n /\ l + (i - l) = i
        BY <1>1, <1>2, <1>8, <2>2
      <3>2. buffer'[c][i] = <<c, x + l + (i - l)>>
        BY <1>1, <1>4, <3>1
      <3>3. x + l + (i - l) = x + i
        BY <1>2, <1>5, <3>1
      <3> QED
        BY <3>2, <3>3
    <2> QED
      BY <2>1, <2>2
  <1>9. InStep(c)'
    <2>1. Len(buffer'[c]) + Chunk(c)' <= received'[c]
      BY <1>1, <1>2, <1>4, <1>6
    <2>2. \A i \in 1..Chunk(c)' : FALSE
      BY <1>6
    <2> QED
      BY <1>1, <1>4, <1>6, <1>7, <1>8, <2>1, <2>2 DEF InStep
  <1> QED
    BY <1>1, <1>9 DEF Framed

LEMMA FramedTrims ==
    ASSUME TypeOK, BytesInv, NEW c \in Conns, Framed(c), Trims(c, c)
    PROVE  Framed(c)'
  <1> DEFINE n == thread[c].n
  <1>1. /\ received[c] \in Nat /\ Len(buffer[c]) \in Nat /\ n \in Nat
        /\ thread[c].at = "trim" /\ n <= Len(buffer[c])
    BY Numbers DEF BytesInv, Trims
  <1>2. /\ thread'[c].at = "release"
        /\ Len(buffer'[c]) = Len(buffer[c]) - n
        /\ \A i \in 1..Len(buffer'[c]) : buffer'[c][i] = buffer[c][n + i]
        /\ received' = received /\ handled' = handled /\ chunk' = chunk
    <2>1. \E r : To(c, "release", c, r, thread[c].back)
      BY DEF Trims
    <2>2. thread'[c].at = "release"
      BY <2>1, Numbers, Moved
    <2> QED
      BY <1>1, <2>2 DEF Trims, KeepStreams
  <1> HIDE DEF n
  <1>3. /\ InStep(c) /\ chunk[c] = <<>> /\ Chunk(c) = 0
        /\ Consumed(c) \in Nat /\ Consumed(c) + Len(buffer[c]) = received[c]
    <2>1. Running(c)
      BY <1>1 DEF Running, LoopPlaces, HandlePlaces
    <2> QED
      BY <1>1, <2>1, NoChunk
  <1>4. /\ Consumed(c)' = Consumed(c) + n /\ Chunk(c)' = 0
        /\ Offset(c) = n /\ Offset(c)' = 0
        /\ Consumed(c)' + Offset(c)' = Consumed(c) + Offset(c)
    <2>1. Chunk(c)' = 0 /\ Offset(c) = n /\ Offset(c)' = 0
      BY <1>1, <1>2, <1>3 DEF Chunk, Offset, n
    <2>2. Consumed(c)' = received[c] - 0 - (Len(buffer[c]) - n)
      BY <1>2, <2>1 DEF Consumed
    <2> QED
      BY <1>1, <1>3, <2>1, <2>2
  <1>5. ASSUME NEW i \in 1..Len(buffer'[c])
        PROVE  buffer'[c][i] = <<c, Consumed(c)' + i>>
    <2>1. n + i \in 1..Len(buffer[c]) /\ Consumed(c) + (n + i) = Consumed(c)' + i
      BY <1>1, <1>2, <1>3, <1>4
    <2>2. buffer[c][n + i] = <<c, Consumed(c) + (n + i)>>
      BY <1>3, <2>1 DEF InStep
    <2> QED
      BY <1>2, <2>1, <2>2
  <1>6. InStep(c)'
    <2>1. Len(buffer'[c]) + Chunk(c)' <= received'[c]
      BY <1>1, <1>2, <1>3, <1>4
    <2>2. \A i \in 1..Chunk(c)' : FALSE
      BY <1>4
    <2> QED
      BY <1>1, <1>2, <1>3, <1>4, <1>5, <2>1, <2>2 DEF InStep
  <1> QED
    BY <1>2, <1>6 DEF Framed

\* What a reader that parses is at.
LEMMA AtOffset ==
    ASSUME TypeOK, BytesInv, NEW c \in Conns, Framed(c), thread[c].at = "parse"
    PROVE  /\ InStep(c) /\ Consumed(c) \in Nat /\ Offset(c) = thread[c].n
           /\ Consumed(c) + Len(buffer[c]) = received[c]
           /\ thread[c].n \in Nat /\ thread[c].n <= Len(buffer[c]) /\ Len(buffer[c]) \in Nat
           /\ thread[c].n < Len(buffer[c]) =>
                 LET k == FrameAt(buffer[c], thread[c].n) IN
                 /\ buffer[c][thread[c].n + 1][1] = c
                 /\ k \in 1..Len(Stream[c]) /\ k # 0
                 /\ Stream[c][k].start = Consumed(c) + thread[c].n
  <1> DEFINE n == thread[c].n
             b == buffer[c]
             k == FrameAt(b, n)
  <1>1. /\ received[c] \in Nat /\ Len(b) \in Nat /\ n \in Nat /\ n <= Len(b)
        /\ received[c] <= StreamLength(c)
    BY Numbers DEF BytesInv, Framed
  <1>2. InStep(c) /\ Offset(c) = n /\ chunk[c] = <<>>
    BY DEF Framed, InStep, Running, LoopPlaces, HandlePlaces, Offset
  <1> HIDE DEF n, b, k
  <1>3. Consumed(c) \in Nat /\ Consumed(c) + Len(b) = received[c]
    <2>1. Chunk(c) = 0
      BY <1>2 DEF Chunk
    <2> QED
      BY <1>1, <1>2, <2>1 DEF Consumed, InStep, b
  <1>4. ASSUME n < Len(b)
        PROVE  /\ b[n + 1][1] = c
               /\ k \in 1..Len(Stream[c])
               /\ Stream[c][k].start = Consumed(c) + n
    <2>1. \A i \in 1..Len(b) : b[i] = <<c, Consumed(c) + i>>
      BY <1>2 DEF InStep, b
    <2>2. Boundary(c, Consumed(c) + n)
      BY <1>2 DEF InStep
    <2>3. Consumed(c) + Len(b) <= StreamLength(c)
      BY <1>1, <1>3
    <2>4. n \in Nat /\ Len(b) \in Nat /\ Consumed(c) \in Nat
      BY <1>1, <1>3
    <2>5. /\ b[n + 1][1] = c
          /\ FrameAt(b, n) \in 1..Len(Stream[c])
          /\ Stream[c][FrameAt(b, n)].start = Consumed(c) + n
      <3> DEFINE x == Consumed(c)
      <3> HIDE DEF x
      <3>1. /\ x \in Nat /\ HasBytes(b, c, x)
            /\ x + Len(b) <= StreamLength(c) /\ Boundary(c, x + n)
        BY <2>1, <2>2, <2>3, <2>4 DEF HasBytes, x
      <3>2. /\ b[n + 1][1] = c
            /\ FrameAt(b, n) \in 1..Len(Stream[c])
            /\ Stream[c][FrameAt(b, n)].start = x + n
        BY <1>4, <2>4, <3>1, FrameIsFound
      <3> QED
        BY <3>2 DEF x
    <2> QED
      BY <2>5 DEF k
  <1>5. k \in 1..Len(Stream[c]) => k # 0
    BY Streams
  <1> QED
    BY <1>1, <1>2, <1>3, <1>4, <1>5 DEF n, b, k

\* The loop stops where no frame is complete.
LEMMA FramedStops ==
    ASSUME TypeOK, BytesInv, NEW c \in Conns, Framed(c), Stops(c, c)
    PROVE  Framed(c)'
  <1> DEFINE n == thread[c].n
             b == buffer[c]
             k == FrameAt(b, n)
             f == Stream[c][k]
             m == Consumed(c) + n
  <1>1. /\ thread'[c].at = "trim" /\ thread'[c].n = n /\ thread[c].at = "parse"
        /\ Stop \in Parse(b, n)
        /\ received' = received /\ buffer' = buffer /\ chunk' = chunk
        /\ handled' = handled
    BY Numbers, Moved DEF Stops, KeepAll, KeepBytes, KeepBuffers, KeepStreams
  <1>2. /\ InStep(c) /\ Consumed(c) \in Nat /\ Offset(c) = n
        /\ Consumed(c) + Len(b) = received[c]
        /\ n \in Nat /\ n <= Len(b) /\ Len(b) \in Nat
        /\ n < Len(b) => /\ b[n + 1][1] = c /\ k \in 1..Len(Stream[c]) /\ k # 0
                         /\ f.start = m
    BY <1>1, AtOffset
  <1>3. Complete(c, m) = Complete(c, received[c])
    <2>1. CASE n = Len(b)
      BY <1>2, <2>1
    <2>2. CASE n < Len(b)
      <3>1. /\ k \in 1..Len(Stream[c]) /\ k # 0 /\ f.start = m /\ b[n + 1][1] = c
        BY <1>2, <2>2
      <3>2. f.size \in Nat /\ Behind(f) = f.start + f.size
        BY <3>1, Streams
      <3>3. ~(Len(b) - n < 1)
        BY <1>2, <2>2
      <3>4. Len(b) - n < f.size
        <4> HIDE DEF n, b, m
        <4>1. Parse(b, n) = IF f.kind = "big" THEN {Raise}
                            ELSE IF Len(b) - n < f.size THEN {Stop}
                            ELSE {Raise, Take(f.size, IF f.kind = "good" THEN k ELSE 0)}
          BY <3>1, <3>3 DEF Parse
        <4>2. Stop # Raise /\ \A x, y : Stop # Take(x, y)
          BY DEF Stop, Raise, Take
        <4> QED
          BY <1>1, <4>1, <4>2
      <3>5. m \in Nat /\ received[c] \in Nat /\ m <= received[c] /\ received[c] < Behind(f)
        <4> HIDE DEF f, n, b
        <4> QED
          BY <1>2, <2>2, <3>1, <3>2, <3>4
      <3>6. Complete(c, received[c]) = Complete(c, f.start)
        BY <3>1, <3>5, CompleteThere
      <3> QED
        BY <3>1, <3>6
    <2>3. n = Len(b) \/ n < Len(b)
      BY <1>2
    <2> QED
      BY <2>1, <2>2, <2>3
  <1>4. Consumed(c)' = Consumed(c) /\ Chunk(c)' = Chunk(c) /\ Offset(c)' = n
    BY <1>1 DEF Consumed, Chunk, Offset
  <1>5. InStep(c)'
    <2> HIDE DEF n, b, k, f
    <2> QED
      BY <1>1, <1>2, <1>3, <1>4 DEF InStep, b, m
  <1> QED
    BY <1>1, <1>5 DEF Framed

\* A frame that is taken is the next one.
LEMMA FramedTakes ==
    ASSUME TypeOK, BytesInv, NEW c \in Conns, Framed(c), NEW size \in Nat, NEW g \in Nat,
           Takes(c, c, size, g)
    PROVE  Framed(c)'
  <1> DEFINE n == thread[c].n
             b == buffer[c]
             k == FrameAt(b, n)
             f == Stream[c][k]
             m == Consumed(c) + n
  <1>1. /\ thread'[c].at = "parse" /\ thread'[c].n = n + size /\ thread[c].at = "parse"
        /\ Take(size, g) \in Parse(b, n) /\ n + size <= Len(b)
        /\ received' = received /\ buffer' = buffer /\ chunk' = chunk
        /\ handled'[c] = IF g = 0 THEN handled[c] ELSE Append(handled[c], g)
    BY Numbers, Moved DEF Takes, KeepBytes, KeepBuffers
  <1>2. /\ InStep(c) /\ Consumed(c) \in Nat /\ Offset(c) = n
        /\ Consumed(c) + Len(b) = received[c]
        /\ n \in Nat /\ n <= Len(b) /\ Len(b) \in Nat
        /\ n < Len(b) => /\ b[n + 1][1] = c /\ k \in 1..Len(Stream[c]) /\ k # 0
                         /\ f.start = m
    BY <1>1, AtOffset
  <1>3. \A x, y : Take(x, y) # Stop /\ Take(x, y) # Raise
    BY DEF Take, Stop, Raise
  <1>4. \A x, y, u, v : Take(x, y) = Take(u, v) => x = u /\ y = v
    <2>1. \A x, y : Take(x, y).size = x /\ Take(x, y).frame = y
      BY DEF Take
    <2> HIDE DEF n, b, k, f, m
    <2> QED
      BY <2>1
  <1>5. ~(Len(b) - n < 1)
    <2> HIDE DEF n, b
    <2>1. Len(b) - n < 1 => Parse(b, n) = {Stop}
      BY DEF Parse
    <2> QED
      BY <1>1, <1>3, <2>1
  <1>6. /\ k \in 1..Len(Stream[c]) /\ k # 0 /\ f.start = m /\ b[n + 1][1] = c
    BY <1>2, <1>5
  <1>7. size = f.size /\ g = IF f.kind = "good" THEN k ELSE 0
    <2> HIDE DEF n, b, m
    <2>1. Parse(b, n) = IF f.kind = "big" THEN {Raise}
                        ELSE IF Len(b) - n < f.size THEN {Stop}
                        ELSE {Raise, Take(f.size, IF f.kind = "good" THEN k ELSE 0)}
      BY <1>5, <1>6 DEF Parse
    <2>2. Take(size, g) = Take(f.size, IF f.kind = "good" THEN k ELSE 0)
      BY <1>1, <1>3, <2>1
    <2> QED
      BY <1>4, <2>2
  <1>8. Behind(f) = m + size /\ k \in Nat \ {0}
    BY <1>6, <1>7, Streams
  <1>9. /\ Consumed(c)' = Consumed(c) /\ Offset(c)' = n + size
        /\ Chunk(c)' = Chunk(c)
        /\ Consumed(c)' + Offset(c)' = Behind(f)
    <2>1. Consumed(c)' = Consumed(c) /\ Chunk(c)' = Chunk(c) /\ Offset(c)' = n + size
      BY <1>1 DEF Consumed, Chunk, Offset
    <2> QED
      BY <1>2, <1>8, <2>1
  <1>10. Lists(handled[c], Complete(c, f.start))
    BY <1>2, <1>6 DEF InStep
  <1>11. /\ Complete(c, Behind(f)) = Complete(c, f.start)
                                       \cup (IF f.kind = "good" THEN {k} ELSE {})
         /\ \A j \in Complete(c, f.start) : j < k
    BY <1>6, CompleteThere
  <1> HIDE DEF n, b, k, f, m
  <1>12. Lists(handled'[c], Complete(c, Behind(f)))
    <2>1. CASE f.kind = "good"
      <3>1. handled'[c] = Append(handled[c], k)
        BY <1>1, <1>6, <1>7, <2>1
      <3>2. Complete(c, Behind(f)) = Complete(c, f.start) \cup {k}
        BY <1>11, <2>1
      <3>3. handled[c] \in Seq(Nat \ {0})
        BY Numbers
      <3>4. Lists(Append(handled[c], k), Complete(c, f.start) \cup {k})
        BY <1>8, <1>10, <1>11, <3>3, ListedNext
      <3> QED
        BY <3>1, <3>2, <3>4
    <2>2. CASE f.kind # "good"
      <3>1. handled'[c] = handled[c]
        BY <1>1, <1>7, <2>2
      <3>2. Complete(c, Behind(f)) = Complete(c, f.start)
        BY <1>11, <2>2
      <3> QED
        BY <1>10, <3>1, <3>2
    <2> QED
      BY <2>1, <2>2
  <1>13. Boundary(c, Behind(f))
    BY <1>6, FrameOrder DEF f
  <1>14. InStep(c)'
    BY <1>1, <1>2, <1>9, <1>12, <1>13 DEF InStep, b
  <1>15. Behind(f) \in 0..received[c]
    BY <1>1, <1>2, <1>8, <1>9 DEF m
  <1> QED
    BY <1>1, <1>12, <1>14, <1>15 DEF Framed

\* A reader that leaves its loop takes bytes along that it will not handle.
LEMMA FramedLeaves ==
    ASSUME TypeOK, NEW c \in Conns, Framed(c), Leaves(c, c)
    PROVE  Framed(c)'
  <1>1. /\ received'[c] \in Nat /\ received[c] \in Nat /\ handled' = handled
        /\ \/ received'[c] = received[c]
           \/ received[c] <= received'[c] /\ received'[c] <= StreamLength(c)
        /\ \/ To(c, "ended", None, thread[c].n, thread[c].back)
           \/ To(c, "lost", c, 0, "ended")
    BY Numbers DEF Leaves
  <1>2. \/ thread'[c].at = "ended"
        \/ thread'[c].at = "lost" /\ thread'[c].back = "ended"
    BY <1>1, Numbers, Moved
  <1>3. received[c] <= received'[c] /\ received'[c] <= StreamLength(c)
    BY <1>1 DEF Framed
  <1>4. \E m \in 0..received'[c] : Lists(handled'[c], Complete(c, m))
    <2>1. PICK m \in 0..received[c] : Lists(handled[c], Complete(c, m))
      BY DEF Framed
    <2>2. m \in 0..received'[c]
      BY <1>1, <1>3
    <2> QED
      BY <1>1, <2>1, <2>2
  <1>5. ~Running(c)'
    BY <1>2 DEF Running, LoopPlaces, HandlePlaces, LossPlaces, FailPlaces
  <1>6. thread'[c].at \notin {"off", "start"}
    BY <1>2
  <1> QED
    BY <1>3, <1>4, <1>5, <1>6 DEF Framed

LEMMA FramesReader ==
    ASSUME TypeOK, PlacesInv, FieldsInv, BytesInv, Alone, NEW c \in Conns,
           ReaderDoes(c, c),
           \A d \in Conns : Framed(d)
    PROVE  \A d \in Conns : Framed(d)'
  <1>0. /\ \A d \in Conns : d \in Threads /\ d \in Nat /\ d # None
        /\ created \in Nat
    BY Constants DEF TypeOK
  <1>1. /\ thread[c].at \in {"start", "loop", "recv"} \cup HandlePlaces
        /\ \A u \in Threads : u # c => thread'[u] = thread[u]
    BY ReaderSpots
  <1>2. c = created
    <2>1. c <= created
      BY <1>1, PlacesParts DEF ReaderPlaced, HandlePlaces
    <2>2. ~(c < created)
      BY <1>1 DEF Alone, HandlePlaces
    <2> QED
      BY <1>0, <2>1, <2>2
  <1>3. \A d \in Conns : socket = d => d = c
    <2>1. socket \in {None, created}
      BY DEF FieldsInv
    <2> QED
      BY <1>0, <1>2, <2>1
  <1>4. ASSUME NEW d \in Conns, d # c PROVE Framed(d)'
    <2>1. thread'[d] = thread[d]
      BY <1>0, <1>1, <1>4
    <2>2. /\ buffer'[d] = buffer[d] /\ chunk'[d] = chunk[d]
          /\ handled'[d] = handled[d] /\ received'[d] = received[d]
      <3>1. CASE \/ Begins(c) \/ Waits(c) \/ Turns(c, c) \/ TimesOut(c, c) \/ Stops(c, c)
                 \/ Returns(c, c, "release", "loop")
        BY <3>1 DEF Begins, Waits, Turns, TimesOut, Stops, Returns, KeepAll, KeepBytes,
                    KeepBuffers, KeepStreams
      <3>2. CASE Leaves(c, c)
        BY <1>3, <1>4, <3>2 DEF Leaves, KeepBytes, KeepBuffers
      <3>3. ASSUME NEW s \in Conns, NEW n \in Nat, Gets(c, c, s, n)
            PROVE  /\ buffer' = buffer /\ handled' = handled
                   /\ chunk'[d] = chunk[d] /\ received'[d] = received[d]
        <4>1. s = c
          BY <1>3, <3>3 DEF Gets
        <4> QED
          BY <1>4, <3>3, <4>1 DEF Gets
      <3>4. CASE Counts(c, c)
        BY <1>4, <3>4 DEF Counts, KeepStreams
      <3>5. CASE Trims(c, c)
        BY <1>4, <3>5 DEF Trims, KeepStreams
      <3>6. ASSUME NEW size \in Nat, NEW k \in Nat, Takes(c, c, size, k)
            PROVE  /\ buffer' = buffer /\ chunk' = chunk
                   /\ handled'[d] = handled[d] /\ received'[d] = received[d]
        BY <1>4, <3>6 DEF Takes, KeepBytes, KeepBuffers
      <3> QED
        BY <3>1, <3>2, <3>3, <3>4, <3>5, <3>6 DEF ReaderDoes
    <2> QED
      BY <1>4, <2>1, <2>2, FramedSame
  <1>5. Framed(c)'
    <2>1. CASE Begins(c)
      BY <2>1, FramedBegins
    <2>2. CASE Leaves(c, c)
      BY <2>2, FramedLeaves
    <2>3. ASSUME NEW place, thread'[c].at = place, place \in {"recv", "loop", "lost"},
                 thread[c].at \in {"loop", "recv", "release"},
                 received' = received, buffer' = buffer, chunk' = chunk, handled' = handled
          PROVE  Framed(c)'
      <3>1. Offset(c)' = Offset(c) /\ Running(c)
        BY <2>3 DEF Offset, Running, LoopPlaces, HandlePlaces
      <3> QED
        BY <2>3, <3>1, FramedAside
    <2>4. CASE Waits(c) \/ Turns(c, c) \/ TimesOut(c, c) \/ Returns(c, c, "release", "loop")
      <3>1. received' = received /\ buffer' = buffer /\ chunk' = chunk /\ handled' = handled
        BY <2>4 DEF Waits, Turns, TimesOut, Returns, KeepAll, KeepBytes, KeepBuffers,
                    KeepStreams
      <3>2. /\ thread'[c].at \in {"recv", "loop", "lost"}
            /\ thread[c].at \in {"loop", "recv", "release"}
        BY <1>0, <2>4, Moved DEF Waits, Turns, TimesOut, Returns
      <3> QED
        BY <2>3, <3>1, <3>2
    <2>5. ASSUME NEW s \in Conns, NEW n \in Nat, Gets(c, c, s, n) PROVE Framed(c)'
      <3>1. s = c
        BY <1>3, <2>5 DEF Gets
      <3> QED
        BY <2>5, <3>1, FramedGets
    <2>6. CASE Counts(c, c)
      BY <2>6, FramedCounts
    <2>7. CASE Stops(c, c)
      BY <2>7, FramedStops
    <2>8. ASSUME NEW size \in Nat, NEW k \in Nat, Takes(c, c, size, k) PROVE Framed(c)'
      BY <2>8, FramedTakes
    <2>9. CASE Trims(c, c)
      BY <2>9, FramedTrims
    <2> QED
      BY <2>1, <2>2, <2>4, <2>5, <2>6, <2>7, <2>8, <2>9 DEF ReaderDoes
  <1> QED
    BY <1>4, <1>5

LEMMA FramesStep ==
    ASSUME TypeOK, PlacesInv, FieldsInv, OwnInv, BytesInv, AloneInv, FramesInv, Kind
    PROVE  FramesInv'
  <1>0. App \in Threads /\ \A d \in Conns : d \in Threads /\ d # App
    BY Constants
  <1> SUFFICES \A d \in Conns : Framed(d)'
    BY FramesParts
  <1>1. Alone /\ \A d \in Conns : Framed(d)
    BY AloneParts, FramesParts
  <1>2. CASE \E c \in Conns : ReaderDoes(c, c)
    BY <1>1, <1>2, FramesReader
  <1>3. CASE AppKind \/ Rests
    <2>1. KeepStreams /\ buffer' = buffer /\ chunk' = chunk
      BY <1>3 DEF AppKind, Opens, Establishes, EndsHandshake, Disconnects, Closes, Clears,
                  Sends, Rests, KeepAll, KeepBytes, KeepBuffers
    <2>2. ASSUME NEW d \in Conns, thread'[d] = thread[d] PROVE Framed(d)'
      BY <1>1, <2>1, <2>2, FramedSame DEF KeepStreams
    <2>3. CASE Establishes
      <3>1. PICK c \in Conns :
               /\ thread'[c].at = "start" /\ thread[c].at = "off"
               /\ \A u \in Threads : u # App /\ u # c => thread'[u] = thread[u]
        BY <2>3, PlacesParts DEF Establishes, At, AppPlaced
      <3>2. Framed(c)'
        <4>1. Offset(c)' = Offset(c) /\ ~Running(c)'
          BY <3>1 DEF Offset, Running, LoopPlaces, HandlePlaces, LossPlaces, FailPlaces
        <4> QED
          BY <1>1, <2>1, <3>1, <4>1, FramedAside DEF KeepStreams
      <3> QED
        BY <1>0, <2>2, <3>1, <3>2
    <2>4. CASE ~Establishes
      <3>1. \A d \in Conns : thread'[d] = thread[d]
        BY <1>0, <1>3, <2>4 DEF AppKind, Opens, EndsHandshake, Disconnects, Closes, Clears,
                                Sends, Rests, To
      <3> QED
        BY <2>2, <3>1
    <2> QED
      BY <2>3, <2>4
  <1>4. ASSUME NEW t \in Threads, NEW p \in Conns, LossDoes(t, p)
        PROVE  \A d \in Conns : Framed(d)'
    <2>1. /\ thread[t].at \in LossPlaces
          /\ \/ /\ thread'[t].at \in LossNext \cup {thread[t].back}
                /\ thread'[t].back = thread[t].back
             \/ thread'[t].at = "idle"
             \/ thread'[t].at \in {"lost", "ended"} /\ thread'[t].back = "ended"
          /\ thread[t].back = "cleanup" \/ thread'[t].at # "idle"
          /\ \A u \in Threads : u # t => thread'[u] = thread[u]
          /\ KeepStreams /\ buffer' = buffer /\ chunk' = chunk
      <3>1. thread[t].back \in {"cleanup", "loop", "ended"}
        BY DEF TypeOK
      <3> QED
        BY <1>4, <3>1, LossGoes DEF KeepBuffers, LossNext, FailPlaces
    <2>2. ASSUME NEW d \in Conns, d # t PROVE Framed(d)'
      BY <1>0, <1>1, <2>1, <2>2, FramedSame DEF KeepStreams
    <2>3. ASSUME t \in Conns PROVE Framed(t)'
      <3>1. thread[t].back \in {"loop", "ended"}
        BY <2>3, PlacesParts DEF ReaderPlaced
      <3>2. Offset(t)' = Offset(t)
        BY <2>1, <3>1 DEF Offset, LossPlaces, LossNext, FailPlaces
      <3>3. Running(t)' => Running(t)
        BY <2>1, <3>1 DEF Running, LoopPlaces, HandlePlaces, LossPlaces, LossNext, FailPlaces
      <3>4. /\ thread[t].at \notin {"count", "parse"}
            /\ thread'[t].at \notin {"off", "start"}
        BY <2>1, <3>1 DEF LossPlaces, LossNext, FailPlaces
      <3> QED
        BY <1>1, <2>1, <2>3, <3>2, <3>3, <3>4, FramedAside DEF KeepStreams
    <2> QED
      BY <2>2, <2>3
  <1> QED
    BY <1>2, <1>3, <1>4, OwnKind

----------------------------------------------------------------------------
(* The theorems.                                                           *)

LEMMA InvInit == Init => Inv
  <1> SUFFICES ASSUME Init PROVE Inv
    OBVIOUS
  <1>0. /\ MaxConns \in Nat \ {0} /\ MaxBytes \in Nat /\ App \in Threads
        /\ \A c \in Conns : c \in Threads /\ c # App /\ c # None /\ c \in Nat /\ c > 0
        /\ None \notin Conns
    BY Constants
  <1>1. thread[App] = At("idle", None, 0, "ended")
    BY <1>0 DEF Init
  <1>2. \A c \in Conns : thread[c] = At("off", None, 0, "ended")
    BY <1>0 DEF Init
  <1>3. /\ thread[App].at = "idle"
        /\ \A c \in Conns : /\ thread[c].at = "off" /\ thread[c].proto = None
                            /\ thread[c].back = "ended"
    BY <1>1, <1>2 DEF At
  <1>4. TypeOK
    <2>1. thread \in [Threads -> ThreadRecords]
      <3>1. At("idle", None, 0, "ended") \in ThreadRecords
            /\ At("off", None, 0, "ended") \in ThreadRecords
        BY DEF At, ThreadRecords, Places
      <3>2. \A t \in Threads : At(IF t = App THEN "idle" ELSE "off", None, 0, "ended")
                                  \in ThreadRecords
        BY <3>1
      <3> QED
        BY <3>2 DEF Init
    <2>2. /\ received \in [Conns -> Nat] /\ reserved \in [Conns -> Nat] /\ late \in [Conns -> Nat]
          /\ buffer \in [Conns -> Seq(Conns \X (Nat \ {0}))]
          /\ chunk \in [Conns -> Seq(Conns \X (Nat \ {0}))]
          /\ handled \in [Conns -> Seq(Nat \ {0})]
      BY DEF Init
    <2>3. /\ request \in [Conns -> {"none", "pending", "failed", "cancelled", "stuck"}]
          /\ link \in [Conns -> {"none", "up", "eof", "closed"}]
          /\ lost \in [Conns -> BOOLEAN] /\ raced \in [Conns -> BOOLEAN]
          /\ failedBy \in [Conns -> Conns \cup {None}]
          /\ announced \in [Conns -> [connect : Nat, disconnect : Nat]]
      BY DEF Init
    <2>4. created \in 0..MaxConns /\ usedBytes \in 0..MaxBytes
      BY <1>0 DEF Init
    <2> QED
      BY <2>1, <2>2, <2>3, <2>4 DEF Init, TypeOK, ThreadRecords
  <1>5. PlacesInv
    <2>1. AppPlaced
      BY <1>3 DEF AppPlaced, AppPlaces, LossPlaces, FailPlaces
    <2>2. ASSUME NEW c \in Conns PROVE ReaderPlaced(c)
      BY <1>0, <1>3 DEF ReaderPlaced, ReaderPlaces, HandlePlaces, LossPlaces, FailPlaces
    <2> QED
      BY <2>1, <2>2, PlacesParts
  <1>6. /\ \A c \in Conns : /\ ~lost[c] /\ announced[c].connect = 0
                            /\ announced[c].disconnect = 0
                            /\ received[c] = 0 /\ buffer[c] = <<>> /\ handled[c] = <<>>
                            /\ chunk[c] = <<>>
                            /\ reserved[c] = 0 /\ request[c] = "none" /\ failedBy[c] = None
                            /\ ~raced[c]
        /\ ~connected /\ socket = None /\ protocol = None /\ created = 0
        /\ usedBytes = 0 /\ interrupted = {} /\ overtaken = {}
    BY DEF Init
  <1>7. FieldsInv
    BY <1>3, <1>6 DEF FieldsInv
  <1>8. BudgetInv
    <2>1. ASSUME NEW h \in Holders PROVE Amount(h) = 0
      <3>1. CASE h \in {"connection"} \X Conns
        BY <1>6, <3>1 DEF Amount
      <3>2. CASE h \in {"thread"} \X Threads
        <4>1. h[1] # "connection" /\ h[2] \in Threads
          BY <3>2
        <4>2. thread[h[2]].at \in {"idle", "off"}
          BY <1>3, <4>1, Constants
        <4> QED
          BY <4>1, <4>2 DEF Amount, InHand
      <3> QED
        BY <3>1, <3>2 DEF Holders
    <2>2. Held = {}
      <3>1. 1..0 = {}
        OBVIOUS
      <3>2. \A h \in Holders : {h} \X (1..Amount(h)) = {}
        BY <2>1, <3>1
      <3> QED
        BY <3>2 DEF Held
    <2>3. Cardinality(Held) = 0 /\ IsFiniteSet(Held)
      BY <2>2, FS_EmptySet
    <2> QED
      BY <1>6, <2>3 DEF BudgetInv, Swept
  <1>9. LossInv
    <2>1. \A t \in Threads : \A c \in Conns : ~Failing(t, c)
      BY <1>3, Constants DEF Failing, FailPlaces
    <2> QED
      BY <1>6, <2>1 DEF LossInv, FlagTells, LostOnce
  <1>10. OwnInv
    BY <1>3 DEF OwnInv
  <1>11. BytesInv
    <2>1. Len(<<>>) = 0
      OBVIOUS
    <2> QED
      BY <1>3, <1>6, <2>1 DEF BytesInv
  <1>12. EndedInv /\ ConnectedInv
    <2>1. \A c \in Conns : Ended(c)
      BY <1>3 DEF Ended
    <2>2. Current
      BY <1>3, <1>6 DEF Current
    <2> QED
      BY <2>1, <2>2, EndedParts
  <1>13. RequestInv
    BY <1>6 DEF RequestInv
  <1>14. AloneInv
    <2>1. Alone
      BY <1>3, <1>6 DEF Alone
    <2> QED
      BY <1>4, <1>5, <1>10, <2>1, AloneParts
  <1>15. FramesInv
    <2>1. \A c \in Conns : Complete(c, 0) = {}
      BY NothingYet
    <2>2. Lists(<<>>, {}) /\ 0 \in 0..0
      BY DEF Lists
    <2>3. \A c \in Conns : ~Running(c)
      BY <1>3 DEF Running, LoopPlaces, HandlePlaces, LossPlaces, FailPlaces
    <2>4. ASSUME NEW c \in Conns PROVE Framed(c)
      <3>1. received[c] <= StreamLength(c)
        BY <1>6, Streams
      <3>2. \E n \in 0..received[c] : Lists(handled[c], Complete(c, n))
        BY <1>6, <2>1, <2>2
      <3> QED
        BY <1>6, <2>3, <3>1, <3>2 DEF Framed
    <2> QED
      BY <2>4, FramesParts
  <1> QED
    BY <1>4, <1>5, <1>7, <1>8, <1>9, <1>10, <1>11, <1>12, <1>13, <1>14, <1>15
       DEF Inv, General, Strict

LEMMA InvNext == Inv /\ [Next]_vars => Inv'
  <1> SUFFICES ASSUME Inv, [Next]_vars PROVE Inv'
    OBVIOUS
  <1>0. TypeOK /\ PlacesInv /\ FieldsInv /\ BudgetInv /\ LossInv
    BY DEF Inv, General
  <1>1. Kind
    BY <1>0, Kinds
  <1>2. TypeOK'
    BY <1>0, Workers, TypeStep
  <1>3. PlacesInv'
    BY <1>0, <1>1, PlacesStep
  <1>4. FieldsInv'
    BY <1>0, <1>1, <1>2, <1>3, FieldsStep
  <1>5. BudgetInv'
    BY <1>0, <1>1, <1>2, BudgetStep
  <1>6. LossInv'
    BY <1>0, <1>1, LossStep
  <1>7. ASSUME overtaken' = {} PROVE Strict'
    <2>0. overtaken = {}
      BY <1>0, <1>1, <1>7, OvertakenStays
    <2>1. /\ OwnInv /\ BytesInv /\ EndedInv /\ ConnectedInv /\ RequestInv /\ AloneInv
          /\ FramesInv
      BY <2>0 DEF Inv, Strict
    <2>2. OwnInv'
      BY <1>0, <1>1, <1>7, <2>1, OwnStep
    <2>3. BytesInv'
      BY <1>0, <1>1, <2>1, BytesStep
    <2>4. EndedInv' /\ ConnectedInv'
      BY <1>0, <1>1, <1>7, <2>1, EndedStep
    <2>5. RequestInv'
      BY <1>0, <1>1, <2>1, RequestStep
    <2>6. AloneInv'
      BY <1>0, <1>1, <1>2, <1>3, <1>7, <2>1, <2>2, AloneStep
    <2>7. FramesInv'
      BY <1>0, <1>1, <2>1, FramesStep
    <2> QED
      BY <2>2, <2>3, <2>4, <2>5, <2>6, <2>7 DEF Strict
  <1> QED
    BY <1>2, <1>3, <1>4, <1>5, <1>6, <1>7 DEF Inv, General

\* The parts of the invariant hold together, whatever the threads, the peers
\* and the sockets do; Strict, as long as connect() was never called while a
\* thread was at work on an earlier connection.
THEOREM Invariance == Spec => []Inv
  <1>1. Init => Inv
    BY InvInit
  <1>2. Inv /\ [Next]_vars => Inv'
    BY InvNext
  <1> QED
    BY <1>1, <1>2, PTL DEF Spec

\* Every variable keeps its shape; no counter of bytes falls below zero
\* (MemoryBudget.reserve and release, _reserve_inbound, _release_inbound).
THEOREM TypesKept == Spec => []TypeOK
  <1>1. Inv => TypeOK
    BY DEF Inv, General
  <1> QED
    BY <1>1, Invariance, PTL

\* The shared budget holds what the connections and the threads have reserved
\* and not given back, at any moment of handle_data and of
\* handle_connection_lost, also when connections overtake one another.
THEOREM InboundIsExact == Spec => []InboundExact
  <1>1. ASSUME Inv PROVE InboundExact
    <2>1. usedBytes = Cardinality(Held) /\ \A p \in Conns : Swept(p)
      BY <1>1 DEF Inv, General, BudgetInv
    <2>2. usedBytes \in 0..MaxBytes
      BY <1>1 DEF Inv, General, TypeOK
    <2>3. usedBytes <= MaxBytes
      BY <2>2, Constants
    <2>4. overtaken = {} => \A p \in Conns : ~lost[p] => reserved[p] = Len(buffer[p])
      BY <1>1 DEF Inv, Strict, BytesInv
    <2> QED
      BY <2>1, <2>3, <2>4 DEF InboundExact, Swept
  <1> QED
    BY <1>1, Invariance, PTL

\* handle_data handles the frames of a stream once and in order, in whatever
\* pieces recv returns it.
THEOREM FramesAreHandledOnce == Spec => []FramesHandledOnce
  <1>1. ASSUME Inv, overtaken = {}, NEW c \in Conns
        PROVE  /\ \E n \in 0..received[c] : Lists(handled[c], Complete(c, n))
               /\ thread[c].at = "recv" /\ thread[c].proto = c
                     => Lists(handled[c], Complete(c, received[c]))
    <2>1. Framed(c)
      BY <1>1, FramesParts DEF Inv, Strict
    <2>2. ASSUME thread[c].at = "recv" PROVE Lists(handled[c], Complete(c, received[c]))
      <3>1. InStep(c)
        BY <2>1, <2>2 DEF Framed, Running, LoopPlaces
      <3> QED
        BY <2>2, <3>1 DEF InStep
    <2> QED
      BY <2>1, <2>2 DEF Framed
  <1>2. Inv => FramesHandledOnce
    BY <1>1 DEF FramesHandledOnce
  <1> QED
    BY <1>2, Invariance, PTL

\* _connected, _socket and _protocol are those of the connection made last, as
\* long as connect() found no thread at work on an earlier one.
THEOREM CurrentIsTheLast == Spec => []CurrentConnection
  <1>1. ASSUME Inv, overtaken = {}, NEW c \in Conns,
               thread[c].at \in {"recv", "count", "parse"}
        PROVE  thread[c].proto = c
    <2>0. TypeOK /\ PlacesInv /\ OwnInv /\ Alone
      BY <1>1, AloneParts DEF Inv, General, Strict
    <2>1. ReaderPlaced(c) /\ Ended(c)
      BY <1>1, <2>0, PlacesParts, EndedParts DEF Inv, Strict
    <2>2. c \in Nat /\ created \in Nat /\ None \notin Conns
      BY <2>0, Constants DEF TypeOK
    <2>3. c <= created /\ ~(c < created)
      BY <1>1, <2>0, <2>1 DEF ReaderPlaced, Alone
    <2>4. c = created
      BY <2>2, <2>3
    <2>5. thread[c].proto # None
      BY <1>1, <2>1, <2>4 DEF Ended
    <2> QED
      BY <2>0, <2>5 DEF OwnInv
  <1>2. ASSUME Inv, overtaken = {} PROVE CurrentConnection
    <2>1. connected => socket = created /\ protocol = created /\ link[created] # "none"
      BY <1>2 DEF Inv, General, FieldsInv
    <2>2. Alone
      BY <1>2, AloneParts DEF Inv, General, Strict
    <2> QED
      BY <1>1, <1>2, <2>1, <2>2 DEF CurrentConnection, Alone
  <1>3. Inv => CurrentConnection
    BY <1>2 DEF CurrentConnection
  <1> QED
    BY <1>3, Invariance, PTL

\* When every thread rests, handle_connection_lost has run to its end for every
\* connection that was lost, but where an exception cut it short; and a
\* connected client has a reader.
THEOREM LossIsComplete == Spec => []LossComplete
  <1>1. ASSUME Inv, Quiescent PROVE LossComplete
    <2>0. /\ \A c \in Conns : c \in Threads /\ c \in Nat /\ c > 0 /\ c # None
          /\ TypeOK /\ PlacesInv /\ FieldsInv /\ LossInv /\ created \in Nat
      <3>1. TypeOK /\ PlacesInv /\ FieldsInv /\ LossInv
        BY <1>1 DEF Inv, General
      <3>2. created \in 0..MaxConns
        BY <3>1 DEF TypeOK
      <3> QED
        BY <3>1, <3>2, Constants
    <2>1. /\ \A t \in Threads : thread[t].at \in {"idle", "off", "ended", "recv"}
          /\ \A t \in Threads : \A p \in Conns : ~Failing(t, p)
      BY <1>1, Constants DEF Quiescent, Failing, FailPlaces
    <2>2. \A c \in Conns : ReaderPlaced(c)
      BY <2>0, PlacesParts
    <2>3. ASSUME overtaken = {}
          PROVE  /\ Alone /\ \A c \in Conns : Ended(c)
                 /\ connected => ~lost[created]
      <3>1. OwnInv /\ AloneInv /\ EndedInv /\ ConnectedInv
        BY <1>1, <2>3 DEF Inv, Strict
      <3> QED
        BY <2>0, <2>1, <3>1, AloneParts, EndedParts DEF ConnectedInv
    <2>4. ASSUME NEW c \in Conns, lost[c]
          PROVE  /\ c \notin interrupted => link[c] = "closed" /\ announced[c].disconnect > 0
                 /\ announced[c].disconnect > 1 => raced[c]
                 /\ thread[c].at \in {"off", "ended"} \/ overtaken # {}
      <3>1. c \notin interrupted => announced[c].disconnect > 0
        BY <2>0, <2>1, <2>4 DEF LossInv, FlagTells
      <3>2. announced[c].disconnect > 0 => link[c] = "closed"
        BY <2>0 DEF LossInv
      <3>3. announced[c].disconnect > 1 => raced[c]
        <4>1. announced[c].disconnect \in Nat
          BY <2>0 DEF TypeOK
        <4>2. ~raced[c] => announced[c].disconnect <= 1
          BY <2>0 DEF LossInv, LostOnce
        <4> QED
          BY <4>1, <4>2
      <3>4. ASSUME thread[c].at \notin {"off", "ended"}, overtaken = {} PROVE FALSE
        <4>1. connected
          BY <1>1, <3>4 DEF Quiescent
        <4>2. ~(c < created)
          BY <2>3, <3>4 DEF Alone
        <4>3. c <= created
          BY <2>2, <3>4 DEF ReaderPlaced
        <4>4. c = created
          BY <2>0, <4>2, <4>3
        <4> QED
          BY <2>3, <2>4, <3>4, <4>1, <4>4
      <3> QED
        BY <3>1, <3>2, <3>3, <3>4
    <2>5. ASSUME NEW c \in Conns, announced[c].connect > 0, thread[c].at = "ended"
          PROVE  lost[c] \/ overtaken # {}
      <3>1. announced[c].connect # 0
        BY <2>5
      <3> QED
        BY <2>3, <2>5, <3>1 DEF Ended, Unheard
    <2>6. ASSUME connected, overtaken = {} PROVE thread[socket].at = "recv"
      <3>1. /\ socket = created /\ protocol = created /\ created > 0
            /\ thread[created].at # "off"
        BY <2>0, <2>6 DEF FieldsInv
      <3>2. created \in Conns
        BY <2>0, <3>1, Constants DEF TypeOK
      <3>3. thread[created].at \in {"ended", "recv"}
        BY <1>1, <3>1, <3>2 DEF Quiescent
      <3>4. ~lost[created] /\ Ended(created)
        BY <2>3, <2>6, <3>2
      <3>5. thread[created].at # "ended"
        BY <2>0, <2>6, <3>1, <3>2, <3>4 DEF Ended
      <3> QED
        BY <3>1, <3>3, <3>5
    <2> QED
      BY <2>4, <2>5, <2>6 DEF LossComplete
  <1>2. Inv => LossComplete
    BY <1>1 DEF LossComplete
  <1> QED
    BY <1>2, Invariance, PTL

=============================================================================
