--------------------------- MODULE HandshakeProofs ---------------------------
(***************************************************************************)
(* Proofs about Handshake, for every combination of the options of client  *)
(* and server and any ranges of versions: who is connected has agreed with *)
(* the server, the server listens to those it has checked alone, and       *)
(* connect() fails for a reason.                                           *)
(***************************************************************************)
EXTENDS Handshake, TLAPS

----------------------------------------------------------------------------
(* What a channel holds after a message is put into it or taken from it.   *)

\* A sequence has an element; and it has it at one place at most.
In(m, s) == \E i \in 1..Len(s) : s[i] = m
Once(m, s) == \A i, j \in 1..Len(s) : s[i] = m /\ s[j] = m => i = j

\* What a receiver takes from a channel and what is left.
LEMMA TakeFirst ==
    ASSUME NEW S, NEW s \in Seq(S), s # <<>>
    PROVE  /\ Head(s) \in S /\ In(Head(s), s)
           /\ Tail(s) \in Seq(S)
           /\ \A m : In(m, s) <=> m = Head(s) \/ In(m, Tail(s))
           /\ \A m : Once(m, s) => Once(m, Tail(s))
           /\ Once(Head(s), s) => ~In(Head(s), Tail(s))
  <1>1. /\ Len(s) \in Nat \ {0} /\ Head(s) = s[1] /\ s[1] \in S
        /\ Tail(s) \in Seq(S) /\ Len(Tail(s)) = Len(s) - 1
        /\ \A i \in 1..Len(Tail(s)) : Tail(s)[i] = s[i + 1]
    OBVIOUS
  <1> DEFINE t == Tail(s)
  <1>2. /\ Len(t) = Len(s) - 1
        /\ \A i \in 1..Len(t) : t[i] = s[i + 1]
    BY <1>1
  <1> HIDE DEF t
  <1>3. In(s[1], s)
    BY <1>1 DEF In
  <1>4. ASSUME NEW m PROVE In(m, s) <=> m = s[1] \/ In(m, t)
    <2>1. ASSUME In(m, t) PROVE In(m, s)
      <3>1. PICK i \in 1..Len(t) : t[i] = m
        BY <2>1 DEF In
      <3>2. i + 1 \in 1..Len(s) /\ s[i + 1] = m
        BY <1>1, <1>2, <3>1
      <3> QED
        BY <3>2 DEF In
    <2>2. ASSUME In(m, s), m # s[1] PROVE In(m, t)
      <3>1. PICK i \in 1..Len(s) : s[i] = m
        BY <2>2 DEF In
      <3>2. i - 1 \in 1..Len(t) /\ t[i - 1] = m
        BY <1>1, <1>2, <2>2, <3>1
      <3> QED
        BY <3>2 DEF In
    <2> QED
      BY <1>3, <2>1, <2>2
  <1>5. ASSUME NEW m, Once(m, s) PROVE Once(m, t)
    BY <1>1, <1>2, <1>5 DEF Once
  <1>6. ASSUME Once(s[1], s) PROVE ~In(s[1], t)
    BY <1>1, <1>2, <1>6 DEF In, Once
  <1> QED
    BY <1>1, <1>3, <1>4, <1>5, <1>6 DEF t

\* A channel with one more message.
LEMMA PutLast ==
    ASSUME NEW S, NEW s \in Seq(S), NEW x \in S
    PROVE  /\ Append(s, x) \in Seq(S)
           /\ \A m : In(m, Append(s, x)) <=> In(m, s) \/ m = x
           /\ \A m : Once(m, s) /\ (m = x => ~In(m, s)) => Once(m, Append(s, x))
  <1>1. /\ Len(s) \in Nat /\ Append(s, x) \in Seq(S)
        /\ Len(Append(s, x)) = Len(s) + 1
        /\ \A i \in 1..Len(s) : Append(s, x)[i] = s[i]
        /\ Append(s, x)[Len(s) + 1] = x
    OBVIOUS
  <1> DEFINE t == Append(s, x)
  <1>2. /\ Len(t) = Len(s) + 1
        /\ \A i \in 1..Len(s) : t[i] = s[i]
        /\ t[Len(s) + 1] = x
    BY <1>1
  <1> HIDE DEF t
  <1>3. \A i \in 1..Len(t) : i \in 1..Len(s) \/ i = Len(s) + 1
    BY <1>1, <1>2
  <1>4. ASSUME NEW m PROVE In(m, t) <=> In(m, s) \/ m = x
    <2>1. ASSUME In(m, s) PROVE In(m, t)
      BY <1>1, <1>2, <2>1 DEF In
    <2>2. ASSUME m = x PROVE In(m, t)
      BY <1>1, <1>2, <2>2 DEF In
    <2>3. ASSUME In(m, t), m # x PROVE In(m, s)
      BY <1>2, <1>3, <2>3 DEF In
    <2> QED
      BY <2>1, <2>2, <2>3
  <1>5. ASSUME NEW m, Once(m, s), m = x => ~In(m, s)
        PROVE  Once(m, t)
    BY <1>1, <1>2, <1>3, <1>5 DEF Once, In
  <1> QED
    BY <1>1, <1>4, <1>5 DEF t

\* And with two.
LEMMA PutTwo ==
    ASSUME NEW S, NEW s \in Seq(S), NEW x \in S, NEW y \in S
    PROVE  /\ s \o <<x, y>> \in Seq(S)
           /\ \A m : In(m, s \o <<x, y>>) <=> In(m, s) \/ m = x \/ m = y
  <1>1. s \o <<x, y>> = Append(Append(s, x), y)
    OBVIOUS
  <1>2. /\ Append(s, x) \in Seq(S)
        /\ \A m : In(m, Append(s, x)) <=> In(m, s) \/ m = x
    BY PutLast
  <1> DEFINE r == Append(s, x)
  <1>3. /\ Append(r, y) \in Seq(S)
        /\ \A m : In(m, Append(r, y)) <=> In(m, r) \/ m = y
    <2>1. r \in Seq(S)
      BY <1>2
    <2> HIDE DEF r
    <2> QED
      BY <2>1, PutLast
  <1> QED
    BY <1>1, <1>2, <1>3, Zenon

----------------------------------------------------------------------------
(* What negotiate and make_range return, for every range of versions.       *)

(* Whatever bounds a side sets, make_range builds a range that holds at     *)
(* least one version, or refuses the bounds.                                *)
THEOREM MakeRangeIsRange ==
    ASSUME NEW low \in Int \cup {Unset}, NEW high \in Int \cup {Unset}
    PROVE  MakeRange(low, high) \in VersionRange \cup {NoRange}
  BY NegotiationAssumption DEF MakeRange, VersionRange, NoRange

(* A version that negotiate returns is supported by both sides, and no      *)
(* higher one is.                                                           *)
THEOREM NegotiatedIsHighestCommon ==
    ASSUME NEW a \in VersionRange, NEW b \in VersionRange, Negotiate(a, b) # NoVersion
    PROVE  IsHighestCommon(Negotiate(a, b), a, b)
  <1>1. b # NoRange
    BY NegotiationAssumption DEF VersionRange, NoRange
  <1> QED
    BY <1>1 DEF Negotiate, IsHighestCommon, Holds, Larger, Smaller, VersionRange

(* negotiate refuses exactly when no version is common to the two ranges.   *)
THEOREM RefusedIffDisjoint ==
    ASSUME NEW a \in VersionRange, NEW b \in VersionRange
    PROVE  Negotiate(a, b) = NoVersion <=> ~Overlap(a, b)
  <1>1. b # NoRange /\ \A v \in Int : v # NoVersion
    BY NegotiationAssumption DEF VersionRange, NoRange, NoVersion
  <1>2. ASSUME Overlap(a, b) PROVE Negotiate(a, b) # NoVersion
    BY <1>1, <1>2 DEF Negotiate, Overlap, Holds, Larger, Smaller, VersionRange
  <1>3. ASSUME Negotiate(a, b) # NoVersion PROVE Overlap(a, b)
    <2>1. Negotiate(a, b) \in Int
      BY <1>1, <1>3 DEF Negotiate, Smaller, VersionRange
    <2> QED
      BY <2>1, <1>3, NegotiatedIsHighestCommon
         DEF IsHighestCommon, Overlap, Holds, VersionRange
  <1> QED
    BY <1>2, <1>3

(* Client and server compute the version separately, each with its own      *)
(* range as the local one, and still agree.                                 *)
THEOREM NegotiateIsSymmetric ==
    ASSUME NEW a \in VersionRange, NEW b \in VersionRange
    PROVE  Negotiate(a, b) = Negotiate(b, a)
  <1>1. a # NoRange /\ b # NoRange
    BY NegotiationAssumption DEF VersionRange, NoRange
  <1> QED
    BY <1>1 DEF Negotiate, Larger, Smaller, VersionRange

----------------------------------------------------------------------------
(* What the options decide.                                                *)

\* What a client that authenticates sends, and what the two versions come to.
Offer  == IF Enabled(client) THEN Versions(client) ELSE NoRange
OurAuth == Auth(client.credentials, Offer)
Common == Negotiate(Versions(client), Versions(server))

FromClient == {OurAuth, User, Closed}
FromServer == {ServerReady(Versions(server)), AuthAck(TRUE), AuthAck(FALSE),
               HandshakeOk, ProtocolError, Closed}

----------------------------------------------------------------------------
(* The invariant.                                                          *)

Asked    == {"waitAuth", "connected", "failed"}  \* after send_authentication
PcPlaces == {"start", "probe", "waitReady", "sendAuth"} \cup Asked

Answering == {"answering", "finishing", "notifying"}  \* between two frames
Places    == {"accept", "open", "closed", "broken"} \cup Answering

Sessions == [at : Places, authenticated : BOOLEAN,
             completed : BOOLEAN, version : Int \cup {NoVersion},
             notified : BOOLEAN, legacyPeer : BOOLEAN, delivered : Nat]

\* The shape of the variables, and what the options have decided so far.
Shape ==
    /\ client \in ClientOptions
    /\ server \in ServerOptions \cup {LegacyServer}
    /\ pc \in PcPlaces
    /\ authError \in {"none", "auth", "version"}
    /\ completed \in BOOLEAN
    /\ session \in Sessions
    /\ toServer \in Seq(FromClient)
    /\ toClient \in Seq(FromServer)
    /\ pc = "probe" => client.allowLegacy
    /\ failure # "none" => pc = "failed"

\* The client gives its credentials once, and sends messages when connected.
AskedInv ==
    /\ In(User, toServer) => Connected
    /\ In(OurAuth, toServer) => pc \in Asked
    /\ Once(OurAuth, toServer)
    /\ server.authRequired /\ session.authenticated =>
          pc \in Asked /\ ~In(OurAuth, toServer) /\ client.credentials = "good"

VersionMismatch == \/ Enabled(client) /\ Common = NoVersion
                   \/ ~Enabled(client) /\ Enabled(server)

\* What the client knows of the versions.
VersionInv ==
    /\ authError = "version" \/ failure = "version" \/ In(ProtocolError, toClient)
          => VersionMismatch
    /\ agreed \in {NoVersion, Common}
    /\ Enabled(client) /\ "ready" \in events /\ authError = "none"
          => Common # NoVersion /\ agreed = Common
    /\ Enabled(client) /\ StrictClient /\ pc \in {"sendAuth", "waitAuth", "connected"}
          => Common # NoVersion /\ agreed = Common

\* The server has accepted this client, and has sent all of its answer.
Accepted == /\ session.authenticated
            /\ session.version = VersionFor(Offer)
Finished ==
    /\ session.at # "accept"
    /\ Accepted
    /\ session.completed \/ session.at = "finishing"
    /\ session.notified \/ session.at \in {"finishing", "notifying", "broken"}

\* A client that requires the handshake has completed it by the server's word.
CompletionInv ==
    /\ session.at \in Answering => Accepted
    /\ session.at = "notifying" => session.completed
    /\ In(HandshakeOk, toClient) => Finished
    /\ StrictClient /\ completed => Finished
    /\ StrictClient /\ Connected => completed
    /\ client.requireHandshake /\ "auth" \in events /\ authError = "none" => completed
    /\ failure # "handshake"

\* The application of the server hears of those it has checked.
TrustInv ==
    /\ server.authRequired /\ (session.notified \/ session.delivered > 0)
          => session.authenticated
    /\ session.delivered > 0 => session.completed
    /\ session.legacyPeer => ~StrictClient

\* Until the client is connected, a refusal of its credentials is justified.
RefusalInv ==
    /\ failure = "auth" => server.authRequired /\ ~session.authenticated
                           /\ session.at = "closed"
    /\ ~Connected /\ (authError = "auth" \/ In(AuthAck(FALSE), toClient))
          => server.authRequired /\ ~session.authenticated /\ session.at = "closed"

Inv == /\ Shape /\ AskedInv /\ VersionInv /\ CompletionInv /\ TrustInv
       /\ RefusalInv

----------------------------------------------------------------------------
(* Facts about the options, the messages and the versions.                 *)

\* Whoever the peers are, each has a range of versions.
LEMMA BothHaveRange ==
    ASSUME Shape
    PROVE  Versions(client) \in VersionRange /\ Versions(server) \in VersionRange
  <1>1. MakeRange(Unset, Unset) \in VersionRange
    BY NegotiationAssumption DEF MakeRange, VersionRange
  <1>2. client.protocol \in VersionOptions
    BY DEF Shape, ClientOptions
  <1>3. server.protocol \in VersionOptions \/ server.protocol = NoRange
    <2>1. LegacyServer.protocol = NoRange
      BY DEF LegacyServer
    <2>2. server \in ServerOptions => server.protocol \in VersionOptions
      BY DEF ServerOptions
    <2> QED
      BY <2>1, <2>2 DEF Shape
  <1>4. \A o \in VersionOptions : MakeRange(o.min, o.max) \in VersionRange
    BY HandshakeAssumption
  <1>5. NoRange.min = Unset /\ NoRange.max = Unset
    BY DEF NoRange
  <1> QED
    BY <1>1, <1>2, <1>3, <1>4, <1>5 DEF Versions

\* What the negotiation returns, on either side.
LEMMA CommonIs ==
    ASSUME Shape
    PROVE  /\ Common \in Int \cup {NoVersion}
           /\ Negotiate(Versions(server), Versions(client)) = Common
           /\ Negotiate(Versions(server), NoRange) = NoVersion
           /\ VersionFor(Offer) \in Int \cup {NoVersion}
           /\ Common = NoVersion <=> Disjoint
           /\ Common # NoVersion =>
                 IsHighestCommon(Common, Versions(client), Versions(server))
  <1>1. Versions(client) \in VersionRange /\ Versions(server) \in VersionRange
    BY BothHaveRange
  <1>2. \A a, b \in VersionRange : Negotiate(a, b) \in Int \cup {NoVersion}
    BY DEF Negotiate, VersionRange, Smaller
  <1>3. Negotiate(Versions(server), NoRange) = NoVersion
    BY DEF Negotiate
  <1>4. VersionFor(Offer) \in Int \cup {NoVersion}
    BY <1>1, <1>2, <1>3, NegotiationAssumption DEF VersionFor, Offer
  <1> QED
    BY <1>1, <1>2, <1>3, <1>4, NegotiateIsSymmetric, RefusedIffDisjoint,
       NegotiatedIsHighestCommon DEF Common, Disjoint

\* A message is known by its type.
LEMMA KnownByType ==
    /\ \A m \in FromClient :
          /\ m.type = "auth" => m = OurAuth
          /\ m.type = "user" => m = User
    /\ \A m \in FromServer :
          /\ m.type = "server_ready" => m = ServerReady(Versions(server))
          /\ m.type = "auth_ack" => m = AuthAck(TRUE) \/ m = AuthAck(FALSE)
          /\ m.type = "handshake_ok" => m = HandshakeOk
          /\ m.type = "protocol_error" => m = ProtocolError
    /\ OurAuth # User /\ OurAuth # Closed /\ User # Closed
    /\ OurAuth.protocol = Offer /\ OurAuth.credentials = client.credentials
    /\ AuthAck(TRUE).ok /\ ~AuthAck(FALSE).ok
    /\ ServerReady(Versions(server)).protocol = Versions(server)
    /\ \A r : ServerReady(r) \notin {AuthAck(FALSE), HandshakeOk, ProtocolError}
    /\ AuthAck(TRUE) \notin {HandshakeOk, ProtocolError}
    /\ AuthAck(TRUE) # AuthAck(FALSE)
    /\ AuthAck(FALSE) \notin {HandshakeOk, ProtocolError}
    /\ HandshakeOk # ProtocolError
    /\ Closed \notin {AuthAck(FALSE), HandshakeOk, ProtocolError}
  <1>1. /\ OurAuth.type = "auth" /\ User.type = "user" /\ Closed.type = "eof"
        /\ HandshakeOk.type = "handshake_ok" /\ ProtocolError.type = "protocol_error"
        /\ \A r : ServerReady(r).type = "server_ready" /\ ServerReady(r).protocol = r
        /\ \A b : AuthAck(b).type = "auth_ack" /\ AuthAck(b).ok = b
    BY DEF OurAuth, Auth, User, Closed, HandshakeOk, ProtocolError, ServerReady, AuthAck
  <1>2. OurAuth.protocol = Offer /\ OurAuth.credentials = client.credentials
    BY DEF OurAuth, Auth
  <1>3. \A m \in FromClient :
          (m.type = "auth" => m = OurAuth) /\ (m.type = "user" => m = User)
    BY <1>1 DEF FromClient
  <1>4. \A m \in FromServer :
          /\ m.type = "server_ready" => m = ServerReady(Versions(server))
          /\ m.type = "auth_ack" => m = AuthAck(TRUE) \/ m = AuthAck(FALSE)
          /\ m.type = "handshake_ok" => m = HandshakeOk
          /\ m.type = "protocol_error" => m = ProtocolError
    BY <1>1 DEF FromServer
  <1>5. AuthAck(TRUE).ok = TRUE /\ AuthAck(FALSE).ok = FALSE
    BY DEF AuthAck
  <1>6. AuthAck(TRUE) # AuthAck(FALSE)
    BY <1>5, Zenon
  <1>7. /\ OurAuth # User /\ OurAuth # Closed /\ User # Closed
        /\ \A r : ServerReady(r) \notin {AuthAck(FALSE), HandshakeOk, ProtocolError}
        /\ AuthAck(TRUE) \notin {HandshakeOk, ProtocolError}
        /\ AuthAck(FALSE) \notin {HandshakeOk, ProtocolError}
        /\ HandshakeOk # ProtocolError
        /\ Closed \notin {AuthAck(FALSE), HandshakeOk, ProtocolError}
    BY <1>1
  <1>8. ServerReady(Versions(server)).protocol = Versions(server)
    BY <1>1
  <1> QED
    BY <1>2, <1>3, <1>4, <1>5, <1>6, <1>7, <1>8, Zenon

\* The options do not change, and so neither does what follows from them.
LEMMA OptionsKept ==
    ASSUME [Next]_vars
    PROVE  /\ client' = client /\ server' = server
           /\ Offer' = Offer /\ OurAuth' = OurAuth /\ Common' = Common
           /\ FromClient' = FromClient /\ FromServer' = FromServer
           /\ StrictClient' = StrictClient /\ VersionMismatch' = VersionMismatch
           /\ VersionFor(Offer)' = VersionFor(Offer)
  <1>1. client' = client /\ server' = server
    BY DEF vars, options, Next, Main, Timeouts, ClientReader, ServerSession, Start,
       ProbeFindsServer, ServerIsReady, SendAuthentication, AuthenticationEnds,
       UnchangedButPc, ProbeExpires, WaitExpires, AuthenticationDeadline, SendUser,
       Receive, OnServerReady, OnProtocolError, OnAuthAck, OnHandshakeOk, OnClosed,
       Accept, ServerReceive, HandleAuth, SendHandshakeOk, FinishHandshake,
       NotifyConnected, IgnoreAuth, HandleUser, HandleClosed
  <1> QED
    BY <1>1 DEF Offer, OurAuth, Common, FromClient, FromServer, StrictClient,
       VersionMismatch, VersionFor, Enabled, Versions

----------------------------------------------------------------------------
(* What the actions do to the channels.                                    *)

\* The reader takes a message from the server.
LEMMA ReaderTakes ==
    ASSUME Shape, NEW type, Receive(type)
    PROVE  /\ Head(toClient) \in FromServer /\ Head(toClient).type = type
           /\ In(Head(toClient), toClient)
           /\ toClient' \in Seq(FromServer)
           /\ \A m : In(m, toClient') => In(m, toClient)
  BY TakeFirst DEF Shape, Receive

\* The server takes a message from the client.
LEMMA ServerTakes ==
    ASSUME Shape, NEW type, ServerReceive(type)
    PROVE  /\ Head(toServer) \in FromClient /\ Head(toServer).type = type
           /\ In(Head(toServer), toServer)
           /\ toServer' \in Seq(FromClient)
           /\ \A m : In(m, toServer') => In(m, toServer)
           /\ \A m : Once(m, toServer) => Once(m, toServer')
           /\ Once(Head(toServer), toServer) => ~In(Head(toServer), toServer')
  BY TakeFirst DEF Shape, ServerReceive

\* The client closes its socket.
LEMMA ClosedSent ==
    ASSUME Shape
    PROVE  LET s == Append(toServer, Closed) IN
           /\ s \in Seq(FromClient)
           /\ \A m \in {User, OurAuth} : In(m, s) => In(m, toServer)
           /\ Once(OurAuth, toServer) => Once(OurAuth, s)
  <1>1. toServer \in Seq(FromClient) /\ Closed \in FromClient
    BY DEF Shape, FromClient
  <1> QED
    BY <1>1, PutLast, KnownByType

\* The server refuses the connection.
LEMMA Refusing ==
    ASSUME Shape, NEW m \in FromServer, Refuse(m)
    PROVE  /\ session' = [session EXCEPT !.at = "closed"]
           /\ toClient' \in Seq(FromServer)
           /\ \A x : In(x, toClient') => In(x, toClient) \/ x = m \/ x = Closed
  <1>1. toClient \in Seq(FromServer) /\ Closed \in FromServer
    BY DEF Shape, FromServer
  <1>2. /\ session' = [session EXCEPT !.at = "closed"]
        /\ toClient' = toClient \o (IF server.useEventLoop THEN <<Closed>>
                                    ELSE <<m, Closed>>)
    BY DEF Refuse
  <1>3. CASE server.useEventLoop
    <2>1. toClient' = Append(toClient, Closed)
      BY <1>1, <1>2, <1>3
    <2>2. /\ Append(toClient, Closed) \in Seq(FromServer)
          /\ \A x : In(x, Append(toClient, Closed)) <=> In(x, toClient) \/ x = Closed
      BY <1>1, PutLast
    <2> QED
      BY <1>2, <2>1, <2>2
  <1>4. CASE ~server.useEventLoop
    BY <1>1, <1>2, <1>4, PutTwo
  <1> QED
    BY <1>3, <1>4

\* The server's dispatcher raises, and the writer drops what it has not sent.
LEMMA Breaking ==
    ASSUME NEW s, NEW sent \in Seq(FromServer), Break(s, sent)
    PROVE  /\ session' = [s EXCEPT !.at = "broken"]
           /\ toClient' \in Seq(FromServer)
           /\ \A x : In(x, toClient') => In(x, sent) \/ x = Closed
  <1>1. PICK n \in 0..Len(sent) : toClient' = Append(SubSeq(sent, 1, n), Closed)
    BY DEF Break
  <1> DEFINE t == SubSeq(sent, 1, n)
  <1>2. /\ Len(sent) \in Nat /\ n \in Nat /\ n <= Len(sent)
        /\ t \in Seq(FromServer) /\ Len(t) = n
        /\ \A i \in 1..n : t[i] = sent[i]
    OBVIOUS
  <1>3. toClient' = Append(t, Closed)
    BY <1>1
  <1> HIDE DEF t
  <1>4. \A x : In(x, t) => In(x, sent)
    BY <1>2 DEF In
  <1>5. Closed \in FromServer
    BY DEF FromServer
  <1>6. /\ Append(t, Closed) \in Seq(FromServer)
        /\ \A x : In(x, Append(t, Closed)) <=> In(x, t) \/ x = Closed
    BY <1>2, <1>5, PutLast
  <1> QED
    BY <1>3, <1>4, <1>6 DEF Break

\* The messages that matter later are sent where they are named alone.
LEMMA SentToClient ==
    ASSUME Shape
    PROVE  /\ toClient' = Append(toClient, ServerReady(Versions(server))) =>
                 \A x \in {AuthAck(FALSE), HandshakeOk, ProtocolError} :
                    In(x, toClient') => In(x, toClient)
           /\ Refuse(AuthAck(FALSE)) =>
                 \A x \in {HandshakeOk, ProtocolError} :
                    In(x, toClient') => In(x, toClient)
           /\ Refuse(ProtocolError) =>
                 \A x \in {AuthAck(FALSE), HandshakeOk} :
                    In(x, toClient') => In(x, toClient)
           /\ toClient' = Append(toClient, AuthAck(TRUE)) =>
                 \A x \in {AuthAck(FALSE), HandshakeOk, ProtocolError} :
                    In(x, toClient') => In(x, toClient)
           /\ toClient' = Append(toClient, HandshakeOk) =>
                 \A x \in {AuthAck(FALSE), ProtocolError} :
                    In(x, toClient') => In(x, toClient)
           /\ Break(session, toClient) =>
                 \A x \in {AuthAck(FALSE), HandshakeOk, ProtocolError} :
                    In(x, toClient') => In(x, toClient)
  <1>1. /\ toClient \in Seq(FromServer) /\ ServerReady(Versions(server)) \in FromServer
        /\ AuthAck(TRUE) \in FromServer /\ AuthAck(FALSE) \in FromServer
        /\ HandshakeOk \in FromServer /\ ProtocolError \in FromServer
    BY DEF Shape, FromServer
  <1>2. /\ ServerReady(Versions(server)) \notin {AuthAck(FALSE), HandshakeOk,
                                                 ProtocolError}
        /\ AuthAck(TRUE) \notin {AuthAck(FALSE), HandshakeOk, ProtocolError}
        /\ AuthAck(FALSE) \notin {HandshakeOk, ProtocolError}
        /\ HandshakeOk # ProtocolError
        /\ Closed \notin {AuthAck(FALSE), HandshakeOk, ProtocolError}
    BY KnownByType, Zenon
  <1>3. \A m : In(m, Append(toClient, ServerReady(Versions(server)))) <=>
                In(m, toClient) \/ m = ServerReady(Versions(server))
    BY <1>1, PutLast
  <1>4. /\ \A m : In(m, Append(toClient, AuthAck(TRUE))) <=>
                In(m, toClient) \/ m = AuthAck(TRUE)
        /\ \A m : In(m, Append(toClient, HandshakeOk)) <=>
                In(m, toClient) \/ m = HandshakeOk
    BY <1>1, PutLast
  <1>5. Refuse(AuthAck(FALSE)) => \A x : In(x, toClient') =>
             In(x, toClient) \/ x = AuthAck(FALSE) \/ x = Closed
    BY <1>1, Refusing
  <1>6. Refuse(ProtocolError) => \A x : In(x, toClient') =>
             In(x, toClient) \/ x = ProtocolError \/ x = Closed
    BY <1>1, Refusing
  <1>7. ASSUME toClient' = Append(toClient, ServerReady(Versions(server))),
               NEW x \in {AuthAck(FALSE), HandshakeOk, ProtocolError}, In(x, toClient')
        PROVE  In(x, toClient)
    BY <1>2, <1>3, <1>7, Zenon
  <1>8. ASSUME Refuse(AuthAck(FALSE)), NEW x \in {HandshakeOk, ProtocolError},
               In(x, toClient')
        PROVE  In(x, toClient)
    BY <1>2, <1>5, <1>8
  <1>9. ASSUME Refuse(ProtocolError), NEW x \in {AuthAck(FALSE), HandshakeOk},
               In(x, toClient')
        PROVE  In(x, toClient)
    BY <1>2, <1>6, <1>9
  <1>10. ASSUME toClient' = Append(toClient, AuthAck(TRUE)),
                NEW x \in {AuthAck(FALSE), HandshakeOk, ProtocolError}, In(x, toClient')
         PROVE  In(x, toClient)
    BY <1>2, <1>4, <1>10, Zenon
  <1>11. ASSUME toClient' = Append(toClient, HandshakeOk),
                NEW x \in {AuthAck(FALSE), ProtocolError}, In(x, toClient')
         PROVE  In(x, toClient)
    BY <1>2, <1>4, <1>11, Zenon
  <1>12. ASSUME Break(session, toClient),
                NEW x \in {AuthAck(FALSE), HandshakeOk, ProtocolError}, In(x, toClient')
         PROVE  In(x, toClient)
    <2>1. In(x, toClient) \/ x = Closed
      BY <1>1, <1>12, Breaking
    <2> QED
      BY <1>2, <2>1
  <1> QED
    BY <1>7, <1>8, <1>9, <1>10, <1>11, <1>12, Zenon

\* To accept a connection sends nothing else but the frame that says so.
LEMMA AcceptSends ==
    ASSUME Shape, Accept
    PROVE  \A x \in {AuthAck(FALSE), HandshakeOk, ProtocolError} :
              In(x, toClient') => In(x, toClient)
  <1> DEFINE ready == Append(toClient, ServerReady(Versions(server)))
  <1>1. /\ ServerReady(Versions(server)) \in FromServer /\ toClient \in Seq(FromServer)
        /\ \A x \in {AuthAck(FALSE), HandshakeOk, ProtocolError} :
              x # ServerReady(Versions(server)) /\ x # Closed
    BY KnownByType DEF Shape, FromServer
  <1>2. /\ ready \in Seq(FromServer)
        /\ \A x : In(x, ready) <=> In(x, toClient) \/ x = ServerReady(Versions(server))
    BY <1>1, PutLast
  <1>3. PICK sent \in {toClient, ready} : toClient' = sent \/ Break(session, sent)
    BY DEF Accept
  <1> HIDE DEF ready
  <1>4. \A x : In(x, toClient') => In(x, sent) \/ x = Closed
    BY <1>1, <1>2, <1>3, Breaking
  <1> QED
    BY <1>1, <1>2, <1>3, <1>4

\* The three ways in which the server refuses, and the way it accepts.
LEMMA AuthHandled ==
    ASSUME Shape, HandleAuth
    PROVE  /\ Head(toServer) = OurAuth
           /\ \/ /\ Enabled(server) /\ Negotiate(Versions(server), Offer) = NoVersion
                 /\ Refuse(ProtocolError)
              \/ /\ server.authRequired
                 /\ session.authenticated \/ client.credentials # "good"
                 /\ Refuse(AuthAck(FALSE))
              \/ /\ server.authRequired => client.credentials = "good"
                 /\ session' = [session EXCEPT !.version = VersionFor(Offer),
                                               !.authenticated = TRUE,
                                               !.at = "answering"]
                 /\ toClient' = Append(toClient, AuthAck(TRUE))
  <1>1. Head(toServer) = OurAuth
    BY ServerTakes, KnownByType DEF HandleAuth
  <1>2. OurAuth.protocol = Offer /\ OurAuth.credentials = client.credentials
    BY KnownByType
  <1> QED
    BY <1>1, <1>2 DEF HandleAuth, VersionRefused

\* What the server does with an application message: it refuses it, or hands it
\* to the application of a peer that it trusts, if its dispatcher takes it.
LEMMA UserHandled ==
    ASSUME Shape, HandleUser
    PROVE  \/ Refuse(AuthAck(FALSE))
           \/ /\ session.authenticated /\ (session.completed \/ LooksLegacy)
              /\ session' \in Sessions
              /\ toClient' \in Seq(FromServer)
              /\ \A x \in {HandshakeOk, ProtocolError} :
                    In(x, toClient') => In(x, toClient)
              /\ session'.authenticated = TRUE /\ session'.completed = TRUE
              /\ session'.version = session.version
              /\ session'.legacyPeer = (session.legacyPeer \/ LooksLegacy)
              /\ \/ /\ session'.at = session.at
                    /\ session'.notified = (session.notified \/ LooksLegacy)
                 \/ session'.at = "broken" /\ session'.notified = session.notified
  <1> DEFINE peer == session.legacyPeer \/ LooksLegacy
             told == session.notified \/ LooksLegacy
             known == [session EXCEPT !.legacyPeer = peer, !.completed = TRUE]
  <1>1. peer \in BOOLEAN /\ told \in BOOLEAN
    OBVIOUS
  <1>2. \/ Refuse(AuthAck(FALSE))
        \/ /\ session.authenticated /\ (session.completed \/ LooksLegacy)
           /\ \/ /\ session' = [known EXCEPT !.notified = told, !.delivered = @ + 1]
                 /\ toClient' = toClient
              \/ Break(known, toClient)
    <2>1. known.notified = session.notified
      BY DEF Shape, Sessions
    <2> QED
      BY <2>1 DEF HandleUser
  <1>3. session \in Sessions /\ toClient \in Seq(FromServer)
    BY DEF Shape
  <1> HIDE DEF peer, told
  <1>4. /\ session.at \in Places /\ session.authenticated \in BOOLEAN
        /\ session.version \in Int \cup {NoVersion} /\ session.notified \in BOOLEAN
        /\ session.delivered \in Nat /\ session.delivered + 1 \in Nat
        /\ "broken" \in Places
    BY <1>3 DEF Sessions, Places
  <1>5. known = [at |-> session.at, authenticated |-> session.authenticated,
                 completed |-> TRUE, version |-> session.version,
                 notified |-> session.notified, legacyPeer |-> peer,
                 delivered |-> session.delivered]
    <2>1. ASSUME NEW b \in BOOLEAN, NEW k,
                 k = [session EXCEPT !.legacyPeer = b, !.completed = TRUE]
          PROVE  k = [at |-> session.at, authenticated |-> session.authenticated,
                      completed |-> TRUE, version |-> session.version,
                      notified |-> session.notified, legacyPeer |-> b,
                      delivered |-> session.delivered]
      BY <1>3, <2>1 DEF Sessions
    <2> QED
      BY <1>1, <2>1, Zenon
  <1> HIDE DEF known
  <1>6. ASSUME session.authenticated, session.completed \/ LooksLegacy,
               session' = [known EXCEPT !.notified = told, !.delivered = @ + 1]
        PROVE  /\ session' \in Sessions /\ session'.at = session.at
               /\ session'.authenticated = TRUE /\ session'.completed = TRUE
               /\ session'.version = session.version
               /\ session'.legacyPeer = peer /\ session'.notified = told
    <2>1. session' = [at |-> session.at, authenticated |-> session.authenticated,
                      completed |-> TRUE, version |-> session.version,
                      notified |-> told, legacyPeer |-> peer,
                      delivered |-> session.delivered + 1]
      BY <1>5, <1>6
    <2>2. session' \in Sessions
      BY <1>1, <1>4, <2>1, Zenon DEF Sessions
    <2>3. session.authenticated = TRUE
      BY <1>4, <1>6
    <2> QED
      BY <2>1, <2>2, <2>3, Zenon
  <1>7. ASSUME session.authenticated, session.completed \/ LooksLegacy,
               Break(known, toClient)
        PROVE  /\ session' \in Sessions /\ session'.at = "broken"
               /\ session'.authenticated = TRUE /\ session'.completed = TRUE
               /\ session'.version = session.version
               /\ session'.legacyPeer = peer /\ session'.notified = session.notified
    <2>1. session' = [at |-> "broken", authenticated |-> session.authenticated,
                      completed |-> TRUE, version |-> session.version,
                      notified |-> session.notified, legacyPeer |-> peer,
                      delivered |-> session.delivered]
      BY <1>5, <1>7 DEF Break
    <2>2. session' \in Sessions
      BY <1>1, <1>4, <2>1, Zenon DEF Sessions
    <2> QED
      BY <1>4, <1>7, <2>1, <2>2
  <1>8. ASSUME Break(known, toClient)
        PROVE  /\ toClient' \in Seq(FromServer)
               /\ \A x \in {HandshakeOk, ProtocolError} :
                     In(x, toClient') => In(x, toClient)
    BY <1>3, <1>8, Breaking, KnownByType
  <1> QED
    BY <1>2, <1>3, <1>6, <1>7, <1>8 DEF peer, told

----------------------------------------------------------------------------
(* The invariant is preserved, part by part.                               *)

\* The invariant holds initially.
LEMMA InitInv == Init => Inv
  <1> SUFFICES ASSUME Init PROVE Inv
    OBVIOUS
  <1>1. /\ client \in ClientOptions /\ server \in ServerOptions \cup {LegacyServer}
        /\ toServer = <<>> /\ toClient = <<>> /\ events = {} /\ authError = "none"
        /\ failure = "none" /\ pc = "start" /\ agreed = NoVersion /\ completed = FALSE
        /\ session = NewSession
    BY DEF Init
  <1>2. server.authRequired \in BOOLEAN /\ server.requireHandshake \in BOOLEAN
    <2>1. CASE server \in ServerOptions
      BY <2>1 DEF ServerOptions
    <2>2. CASE server = LegacyServer
      BY <2>2 DEF LegacyServer
    <2> QED
      BY <1>1, <2>1, <2>2
  <1>3. session \in Sessions
    BY <1>1, <1>2 DEF NewSession, Sessions, Places
  <1>4. toServer \in Seq(FromClient) /\ toClient \in Seq(FromServer)
    BY <1>1
  <1>5. Shape
    BY <1>1, <1>3, <1>4 DEF Shape, PcPlaces, Asked
  <1>6. \A m : ~In(m, toServer) /\ ~In(m, toClient) /\ Once(m, toServer)
    BY <1>1 DEF In, Once
  <1>7. /\ server.authRequired => ~session.authenticated
        /\ session.notified = FALSE /\ session.delivered = 0 /\ session.legacyPeer = FALSE
        /\ session.at = "accept"
    BY <1>1, <1>2 DEF NewSession
  <1>8. AskedInv /\ VersionInv
    BY <1>1, <1>6, <1>7 DEF AskedInv, VersionInv
  <1>9. CompletionInv /\ RefusalInv
    BY <1>1, <1>6, <1>7 DEF CompletionInv, Answering, RefusalInv, Connected
  <1>10. TrustInv
    BY <1>7 DEF TrustInv
  <1> QED
    BY <1>5, <1>8, <1>9, <1>10 DEF Inv

\* Every step keeps the variables in shape.
LEMMA ShapeStep ==
    ASSUME Shape, [Next]_vars
    PROVE  Shape'
  <1>1. /\ client' = client /\ server' = server
        /\ FromClient' = FromClient /\ FromServer' = FromServer
    BY OptionsKept
  <1> USE DEF clientVars, channelVars, UnchangedButPc, PcPlaces, Asked
  <1>2. CASE Start
    BY <1>1, <1>2 DEF Start, Shape
  <1>3. CASE ProbeFindsServer
    BY <1>1, <1>3 DEF ProbeFindsServer, Shape
  <1>4. CASE ServerIsReady
    BY <1>1, <1>4, ClosedSent DEF ServerIsReady, Fail, Shape
  <1>5. CASE SendAuthentication
    <2>1. Append(toServer, OurAuth) \in Seq(FromClient)
      BY DEF Shape, FromClient
    <2> QED
      BY <1>1, <1>5, <2>1, ClosedSent
         DEF SendAuthentication, Fail, OurAuth, Offer, Shape
  <1>6. CASE AuthenticationEnds
    BY <1>1, <1>6, ClosedSent DEF AuthenticationEnds, Fail, Shape
  <1>7. CASE ProbeExpires
    BY <1>1, <1>7 DEF ProbeExpires, Shape
  <1>8. CASE WaitExpires
    BY <1>1, <1>8, ClosedSent DEF WaitExpires, Fail, Shape
  <1>9. CASE AuthenticationDeadline
    <2>1. AuthAck(FALSE) \in FromServer
      BY DEF FromServer
    <2>2. session' = [session EXCEPT !.at = "closed"] /\ toClient' \in Seq(FromServer)
      BY <1>9, <2>1, Refusing DEF AuthenticationDeadline
    <2> QED
      BY <1>1, <1>9, <2>2 DEF AuthenticationDeadline, Shape, Sessions, Places
  <1>10. CASE SendUser
    <2>1. Append(toServer, User) \in Seq(FromClient)
      BY DEF Shape, FromClient
    <2> QED
      BY <1>1, <1>10, <2>1 DEF SendUser, Shape
  <1>11. CASE OnServerReady
    BY <1>1, <1>11, ReaderTakes DEF OnServerReady, Receive, Shape
  <1>12. CASE OnProtocolError
    BY <1>1, <1>12, ReaderTakes DEF OnProtocolError, Receive, Shape
  <1>13. CASE OnAuthAck
    BY <1>1, <1>13, ReaderTakes DEF OnAuthAck, Receive, Shape
  <1>14. CASE OnHandshakeOk
    BY <1>1, <1>14, ReaderTakes DEF OnHandshakeOk, Receive, Shape
  <1>15. CASE OnClosed
    BY <1>1, <1>15, ReaderTakes DEF OnClosed, Receive, Shape
  <1>16. CASE Accept
    <2>1. Append(toClient, ServerReady(Versions(server))) \in Seq(FromServer)
      BY DEF Shape, FromServer
    <2>2. PICK sent \in Seq(FromServer) :
             \/ /\ session' = [session EXCEPT !.at = "open", !.notified =
                                    /\ ~server.authRequired
                                    /\ server.useEventLoop => ~server.requireHandshake]
                /\ toClient' = sent
             \/ Break(session, sent)
      BY <1>16, <2>1 DEF Accept, Shape
    <2>3. toClient' \in Seq(FromServer) /\ session' \in Sessions
      <3>1. CASE Break(session, sent)
        BY <3>1, Breaking DEF Shape, Sessions, Places
      <3> QED
        BY <2>2, <3>1 DEF Shape, Sessions, Places
    <2> QED
      BY <1>1, <1>16, <2>3 DEF Accept, Shape
  <1>17. CASE HandleAuth
    <2>1. {AuthAck(TRUE), AuthAck(FALSE), HandshakeOk, ProtocolError} \subseteq FromServer
      BY DEF FromServer
    <2>2. Append(toClient, AuthAck(TRUE)) \in Seq(FromServer)
      BY <2>1, PutLast DEF Shape
    <2>3. toClient' \in Seq(FromServer)
      BY <1>17, <2>1, <2>2, AuthHandled, Refusing
    <2>4. session' \in Sessions
      <3>1. \/ session' = [session EXCEPT !.at = "closed"]
            \/ session' = [session EXCEPT !.version = VersionFor(Offer),
                                          !.authenticated = TRUE,
                                          !.at = "answering"]
        BY <1>17, AuthHandled DEF Refuse
      <3>2. VersionFor(Offer) \in Int \cup {NoVersion} /\ session \in Sessions
        BY CommonIs DEF Shape
      <3> QED
        BY <3>1, <3>2 DEF Sessions, Places, Answering
    <2> QED
      BY <1>1, <1>17, <2>3, <2>4, ServerTakes DEF HandleAuth, ServerReceive, Shape
  <1>22. CASE SendHandshakeOk \/ FinishHandshake \/ NotifyConnected
    <2>1. HandshakeOk \in FromServer /\ toClient \in Seq(FromServer)
      BY DEF FromServer, Shape
    <2>3. Append(toClient, HandshakeOk) \in Seq(FromServer)
      BY <2>1, PutLast
    <2>2. toClient' \in Seq(FromServer) /\ session' \in Sessions
      <3>1. CASE Break(session, toClient)
        <4>1. session' = [session EXCEPT !.at = "broken"] /\ toClient' \in Seq(FromServer)
          BY <2>1, <3>1, Breaking
        <4> QED
          BY <4>1 DEF Shape, Sessions, Places
      <3>2. CASE ~Break(session, toClient)
        <4>1. toClient' \in Seq(FromServer)
          BY <1>22, <2>1, <2>3, <3>2
             DEF SendHandshakeOk, FinishHandshake, NotifyConnected, channelVars
        <4>2. session' \in Sessions
          BY <1>22, <3>2 DEF SendHandshakeOk, FinishHandshake, NotifyConnected, Shape,
             Sessions, Places, Answering
        <4> QED
          BY <4>1, <4>2
      <3> QED
        BY <3>1, <3>2
    <2> QED
      BY <1>1, <1>22, <2>2 DEF SendHandshakeOk, FinishHandshake, NotifyConnected, Shape
  <1>18. CASE IgnoreAuth
    BY <1>1, <1>18, ServerTakes DEF IgnoreAuth, ServerReceive, Shape
  <1>19. CASE HandleUser
    <2>1. AuthAck(FALSE) \in FromServer
      BY DEF FromServer
    <2>2. toClient' \in Seq(FromServer)
      BY <1>19, <2>1, UserHandled, Refusing DEF Shape
    <2>3. session' \in Sessions
      <3>1. CASE Refuse(AuthAck(FALSE))
        BY <3>1 DEF Refuse, Shape, Sessions, Places
      <3> QED
        BY <1>19, <3>1, UserHandled
    <2> QED
      BY <1>1, <1>19, <2>2, <2>3, ServerTakes DEF HandleUser, ServerReceive, Shape
  <1>20. CASE HandleClosed
    BY <1>1, <1>20, ServerTakes DEF HandleClosed, ServerReceive, Shape, Sessions, Places
  <1>21. CASE UNCHANGED vars
    BY <1>1, <1>21 DEF vars, Shape
  <1> QED
    BY <1>2, <1>3, <1>4, <1>5, <1>6, <1>7, <1>8, <1>9, <1>10, <1>11, <1>12, <1>13,
       <1>14, <1>15, <1>16, <1>17, <1>18, <1>19, <1>20, <1>21, <1>22
       DEF Next, Main, Timeouts, ClientReader, ServerSession

\* No step sends the credentials twice, or a message before connect() returned.
LEMMA AskedStep ==
    ASSUME Inv, [Next]_vars
    PROVE  AskedInv'
  <1>1. client' = client /\ server' = server /\ OurAuth' = OurAuth
    BY OptionsKept
  <1>2. Shape /\ AskedInv /\ OurAuth # User
    BY KnownByType DEF Inv
  <1> USE DEF Connected, Asked
  <1>3. CASE Start \/ ProbeFindsServer \/ ProbeExpires
    BY <1>1, <1>2, <1>3
       DEF Start, ProbeFindsServer, ProbeExpires, UnchangedButPc, channelVars, AskedInv
  <1>4. CASE ServerIsReady \/ AuthenticationEnds \/ WaitExpires
    BY <1>1, <1>2, <1>4, ClosedSent
       DEF ServerIsReady, AuthenticationEnds, WaitExpires, Fail, AskedInv
  <1>5. CASE SendAuthentication
    <2>1. pc \notin Asked /\ ~In(OurAuth, toServer)
      BY <1>2, <1>5 DEF SendAuthentication, AskedInv
    <2>2. CASE lost
      BY <1>1, <1>2, <1>5, <2>2, ClosedSent DEF SendAuthentication, Fail, AskedInv
    <2>3. CASE ~lost
      <3>1. toServer' = Append(toServer, OurAuth) /\ pc' = "waitAuth"
            /\ session' = session
        BY <1>5, <2>3 DEF SendAuthentication, OurAuth, Offer
      <3>2. /\ In(User, toServer') => In(User, toServer)
            /\ Once(OurAuth, toServer')
        BY <1>2, <2>1, <3>1, PutLast DEF Shape, FromClient, AskedInv
      <3> QED
        BY <1>1, <1>2, <2>1, <3>1, <3>2 DEF AskedInv
    <2> QED
      BY <2>2, <2>3
  <1>6. CASE SendUser
    <2>1. toServer' = Append(toServer, User) /\ pc' = pc /\ session' = session /\ Connected
      BY <1>6 DEF SendUser
    <2>2. /\ In(OurAuth, toServer') => In(OurAuth, toServer)
          /\ Once(OurAuth, toServer')
      BY <1>2, <2>1, PutLast DEF Shape, FromClient, AskedInv
    <2> QED
      BY <1>1, <1>2, <2>1, <2>2 DEF AskedInv
  <1>7. CASE ClientReader
    BY <1>1, <1>2, <1>7 DEF ClientReader, OnServerReady, OnProtocolError, OnAuthAck,
       OnHandshakeOk, OnClosed, Receive, AskedInv
  <1>8. CASE \/ Accept \/ AuthenticationDeadline
             \/ SendHandshakeOk \/ FinishHandshake \/ NotifyConnected
    <2>1. session'.authenticated = session.authenticated
      BY <1>2, <1>8 DEF Accept, AuthenticationDeadline, SendHandshakeOk, FinishHandshake,
         NotifyConnected, Break, Refuse, Shape, Sessions
    <2>2. UNCHANGED clientVars /\ toServer' = toServer
      BY <1>8 DEF Accept, AuthenticationDeadline, SendHandshakeOk, FinishHandshake,
         NotifyConnected, channelVars
    <2> QED
      BY <1>1, <1>2, <2>1, <2>2 DEF clientVars, AskedInv
  <1>9. CASE HandleAuth
    <2>1. /\ Head(toServer) = OurAuth /\ In(OurAuth, toServer)
          /\ \A m : In(m, toServer') => In(m, toServer)
          /\ Once(OurAuth, toServer') /\ ~In(OurAuth, toServer')
      BY <1>2, <1>9, AuthHandled, ServerTakes DEF HandleAuth, AskedInv
    <2>2. server.authRequired /\ session'.authenticated
             => session.authenticated \/ client.credentials = "good"
      BY <1>2, <1>9, AuthHandled DEF Refuse, Shape, Sessions
    <2> QED
      BY <1>1, <1>2, <1>9, <2>1, <2>2 DEF HandleAuth, ServerReceive, clientVars, AskedInv
  <1>10. CASE IgnoreAuth \/ HandleUser \/ HandleClosed
    <2>1. /\ \A m : In(m, toServer') => In(m, toServer)
          /\ Once(OurAuth, toServer')
      BY <1>2, <1>10, ServerTakes DEF IgnoreAuth, HandleUser, HandleClosed, AskedInv
    <2>2. session'.authenticated = session.authenticated
      BY <1>2, <1>10 DEF IgnoreAuth, HandleUser, HandleClosed, Refuse, Break, Shape,
         Sessions
    <2> QED
      BY <1>1, <1>2, <1>10, <2>1, <2>2
         DEF IgnoreAuth, HandleUser, HandleClosed, ServerReceive, clientVars, AskedInv
  <1>11. CASE UNCHANGED vars
    BY <1>1, <1>2, <1>11 DEF vars, clientVars, channelVars, AskedInv
  <1> QED
    BY <1>3, <1>4, <1>5, <1>6, <1>7, <1>8, <1>9, <1>10, <1>11
       DEF Next, Main, Timeouts, ServerSession

\* What the client believes of the versions stays what the ranges come to.
LEMMA VersionStep ==
    ASSUME Inv, [Next]_vars
    PROVE  VersionInv'
  <1>1. /\ client' = client /\ server' = server /\ Common' = Common
        /\ StrictClient' = StrictClient /\ VersionMismatch' = VersionMismatch
        /\ Enabled(client)' = Enabled(client)
    BY OptionsKept DEF Enabled
  <1>2. Shape /\ VersionInv
    BY DEF Inv
  <1> USE DEF VersionInv
  <1>3. CASE Start
    BY <1>1, <1>2, <1>3 DEF Start, UnchangedButPc, channelVars, StrictClient
  <1>4. CASE ProbeFindsServer \/ ProbeExpires
    BY <1>1, <1>2, <1>4 DEF ProbeFindsServer, ProbeExpires, UnchangedButPc, channelVars,
       StrictClient, Shape
  <1>5. CASE ServerIsReady
    BY <1>1, <1>2, <1>5 DEF ServerIsReady, Fail
  <1>6. CASE SendAuthentication
    BY <1>1, <1>2, <1>6 DEF SendAuthentication, Fail
  <1>7. CASE AuthenticationEnds \/ WaitExpires
    BY <1>1, <1>2, <1>7 DEF AuthenticationEnds, WaitExpires, Fail
  <1>8. CASE SendUser
    BY <1>1, <1>2, <1>8 DEF SendUser
  <1>9. CASE OnServerReady
    <2>1. Negotiate(Versions(client), Head(toClient).protocol) = Common
      BY <1>2, <1>9, ReaderTakes, KnownByType DEF OnServerReady, Common
    <2>2. /\ In(ProtocolError, toClient') => In(ProtocolError, toClient)
          /\ pc' = pc /\ failure' = failure
      BY <1>2, <1>9, ReaderTakes DEF OnServerReady, Receive
    <2>3. CASE ~Enabled(client)
      BY <1>1, <1>2, <1>9, <2>2, <2>3 DEF OnServerReady
    <2>4. CASE Enabled(client) /\ Common = NoVersion
      BY <1>1, <1>2, <1>9, <2>1, <2>2, <2>4 DEF OnServerReady, VersionMismatch
    <2>5. CASE Enabled(client) /\ Common # NoVersion
      BY <1>1, <1>2, <1>9, <2>1, <2>2, <2>5 DEF OnServerReady
    <2> QED
      BY <2>3, <2>4, <2>5
  <1>10. CASE OnProtocolError
    <2>1. Head(toClient) = ProtocolError /\ In(ProtocolError, toClient)
      BY <1>2, <1>10, ReaderTakes, KnownByType DEF OnProtocolError
    <2> QED
      BY <1>1, <1>2, <1>10, <2>1 DEF OnProtocolError, Receive
  <1>11. CASE OnAuthAck \/ OnHandshakeOk \/ OnClosed
    <2>1. In(ProtocolError, toClient') => In(ProtocolError, toClient)
      BY <1>2, <1>11, ReaderTakes DEF OnAuthAck, OnHandshakeOk, OnClosed
    <2> QED
      BY <1>1, <1>2, <1>11, <2>1 DEF OnAuthAck, OnHandshakeOk, OnClosed, Receive
  <1>12. ASSUME UNCHANGED clientVars, In(ProtocolError, toClient') => VersionMismatch
         PROVE  VersionInv'
    BY <1>1, <1>2, <1>12 DEF clientVars
  <1>13. CASE Accept
    <2>1. In(ProtocolError, toClient') => In(ProtocolError, toClient)
      BY <1>2, <1>13, AcceptSends DEF Accept
    <2> QED
      BY <1>2, <1>12, <1>13, <2>1 DEF Accept
  <1>18. CASE SendHandshakeOk \/ FinishHandshake \/ NotifyConnected
    <2>1. In(ProtocolError, toClient') => In(ProtocolError, toClient)
      BY <1>2, <1>18, SentToClient
         DEF SendHandshakeOk, FinishHandshake, NotifyConnected, channelVars
    <2> QED
      BY <1>2, <1>12, <1>18, <2>1 DEF SendHandshakeOk, FinishHandshake, NotifyConnected
  <1>14. CASE HandleAuth
    <2>1. \/ /\ Enabled(server) /\ Negotiate(Versions(server), Offer) = NoVersion
             /\ Refuse(ProtocolError)
          \/ Refuse(AuthAck(FALSE))
          \/ toClient' = Append(toClient, AuthAck(TRUE))
      BY <1>2, <1>14, AuthHandled
    <2>2. ASSUME Enabled(server), Negotiate(Versions(server), Offer) = NoVersion
          PROVE  VersionMismatch
      BY <1>2, <2>2, CommonIs DEF Offer, VersionMismatch
    <2>3. In(ProtocolError, toClient') => In(ProtocolError, toClient) \/ VersionMismatch
      BY <1>2, <2>1, <2>2, SentToClient
    <2> QED
      BY <1>2, <1>12, <1>14, <2>3 DEF HandleAuth, ServerReceive
  <1>15. CASE HandleUser \/ AuthenticationDeadline
    <2>2. In(ProtocolError, toClient') => In(ProtocolError, toClient)
      BY <1>2, <1>15, UserHandled, SentToClient DEF AuthenticationDeadline
    <2> QED
      BY <1>2, <1>12, <1>15, <2>2
         DEF HandleUser, AuthenticationDeadline, ServerReceive
  <1>16. CASE IgnoreAuth \/ HandleClosed
    BY <1>2, <1>12, <1>16 DEF IgnoreAuth, HandleClosed, ServerReceive
  <1>17. CASE UNCHANGED vars
    BY <1>2, <1>12, <1>17 DEF vars, channelVars
  <1> QED
    BY <1>3, <1>4, <1>5, <1>6, <1>7, <1>8, <1>9, <1>10, <1>11, <1>13, <1>14, <1>15,
       <1>16, <1>17, <1>18 DEF Next, Main, Timeouts, ClientReader, ServerSession

\* What the server's side has finished is never undone.
LEMMA FinishedKept ==
    ASSUME Shape, CompletionInv, Finished, [Next]_vars
    PROVE  Finished'
  <1>1. VersionFor(Offer)' = VersionFor(Offer)
    BY OptionsKept
  <1>2. /\ session \in Sessions /\ session.at # "accept"
        /\ session.authenticated /\ session.version = VersionFor(Offer)
        /\ session.completed \/ session.at = "finishing"
        /\ session.notified \/ session.at \in {"finishing", "notifying", "broken"}
    BY DEF Shape, Finished, Accepted
  <1> USE DEF Finished, Accepted
  <1>3. CASE UNCHANGED session
    BY <1>1, <1>2, <1>3
  <1>4. ASSUME session.at = "open",
               \/ session' = [session EXCEPT !.at = "closed"]
               \/ session' = [session EXCEPT !.version = VersionFor(Offer),
                                             !.authenticated = TRUE,
                                             !.at = "answering"]
        PROVE  Finished'
    BY <1>1, <1>2, <1>4 DEF Sessions
  <1>5. CASE HandleAuth
    BY <1>4, <1>5, AuthHandled DEF Refuse, HandleAuth, ServerReceive
  <1>6. CASE HandleUser
    <2>1. session.at = "open"
      BY <1>6 DEF HandleUser, ServerReceive
    <2>2. CASE Refuse(AuthAck(FALSE))
      BY <1>4, <2>1, <2>2 DEF Refuse
    <2>3. CASE ~Refuse(AuthAck(FALSE))
      BY <1>1, <1>2, <1>6, <2>1, <2>3, UserHandled
    <2> QED
      BY <2>2, <2>3
  <1>7. CASE HandleClosed \/ AuthenticationDeadline
    BY <1>4, <1>7 DEF HandleClosed, AuthenticationDeadline, Refuse, ServerReceive
  <1>8. CASE Main \/ Timeouts \/ SendUser \/ ClientReader \/ IgnoreAuth
    <2>1. AuthenticationDeadline \/ UNCHANGED session
      BY <1>8 DEF Main, Timeouts, ClientReader, Start, ProbeFindsServer, ServerIsReady,
         SendAuthentication, AuthenticationEnds, ProbeExpires, WaitExpires, SendUser,
         UnchangedButPc, Receive, OnServerReady, OnProtocolError, OnAuthAck,
         OnHandshakeOk, OnClosed, IgnoreAuth
    <2> QED
      BY <1>3, <1>7, <2>1
  <1>9. CASE SendHandshakeOk \/ FinishHandshake
    BY <1>1, <1>2, <1>9 DEF SendHandshakeOk, FinishHandshake, Sessions
  <1>10. CASE NotifyConnected
    BY <1>1, <1>2, <1>10 DEF NotifyConnected, Break, Sessions
  <1> QED
    BY <1>2, <1>3, <1>5, <1>6, <1>7, <1>8, <1>9, <1>10
       DEF Next, ServerSession, Accept, vars

\* Between two frames the server answers a client that it has accepted.
LEMMA AnsweringKept ==
    ASSUME Shape, CompletionInv, [Next]_vars
    PROVE  /\ session'.at \in Answering => Accepted'
           /\ session'.at = "notifying" => session'.completed
  <1>1. VersionFor(Offer)' = VersionFor(Offer)
    BY OptionsKept
  <1>2. /\ session \in Sessions
        /\ session.at \in Answering => Accepted
        /\ session.at = "notifying" => session.completed
    BY DEF Shape, CompletionInv
  <1> USE DEF Accepted, Answering
  <1>3. CASE UNCHANGED session
    BY <1>1, <1>2, <1>3
  <1>4. CASE Refuse(AuthAck(FALSE)) \/ Refuse(ProtocolError) \/ HandleClosed
    BY <1>2, <1>4 DEF Refuse, HandleClosed, Sessions
  <1>5. CASE HandleAuth
    <2>1. ASSUME session' = [session EXCEPT !.version = VersionFor(Offer),
                                            !.authenticated = TRUE,
                                            !.at = "answering"]
          PROVE  Accepted' /\ session'.at = "answering"
      BY <1>1, <1>2, <2>1 DEF Sessions
    <2> QED
      BY <1>4, <1>5, <2>1, AuthHandled
  <1>6. CASE HandleUser
    BY <1>4, <1>6, UserHandled DEF HandleUser, ServerReceive
  <1>7. CASE Accept
    BY <1>2, <1>7 DEF Accept, Break, Sessions
  <1>8. CASE SendHandshakeOk \/ FinishHandshake \/ NotifyConnected
    BY <1>1, <1>2, <1>8 DEF SendHandshakeOk, FinishHandshake, NotifyConnected, Break,
       Sessions
  <1>9. CASE Main \/ Timeouts \/ SendUser \/ ClientReader \/ IgnoreAuth
    <2>1. AuthenticationDeadline \/ UNCHANGED session
      BY <1>9 DEF Main, Timeouts, ClientReader, Start, ProbeFindsServer, ServerIsReady,
         SendAuthentication, AuthenticationEnds, ProbeExpires, WaitExpires, SendUser,
         UnchangedButPc, Receive, OnServerReady, OnProtocolError, OnAuthAck,
         OnHandshakeOk, OnClosed, IgnoreAuth
    <2> QED
      BY <1>3, <1>4, <2>1 DEF AuthenticationDeadline
  <1> QED
    BY <1>3, <1>4, <1>5, <1>6, <1>7, <1>8, <1>9 DEF Next, ServerSession, vars

\* The client completes the handshake only by the word of a server that did.
LEMMA CompletionStep ==
    ASSUME Inv, [Next]_vars
    PROVE  CompletionInv'
  <1>1. client' = client /\ StrictClient' = StrictClient
    BY OptionsKept
  <1>2. Shape /\ CompletionInv
    BY DEF Inv
  <1>3. /\ Finished => Finished'
        /\ session'.at \in Answering => Accepted'
        /\ session'.at = "notifying" => session'.completed
    BY <1>2, FinishedKept, AnsweringKept
  <1> USE DEF CompletionInv, Connected
  <1>4. CASE Start
    BY <1>1, <1>2, <1>3, <1>4 DEF Start, UnchangedButPc, channelVars, StrictClient
  <1>5. CASE ProbeFindsServer \/ ProbeExpires
    <2>1. ~StrictClient /\ (completed' = completed \/ completed' = TRUE)
      BY <1>2, <1>5 DEF ProbeFindsServer, ProbeExpires, StrictClient, Shape
    <2> QED
      BY <1>1, <1>2, <1>3, <1>5, <2>1
         DEF ProbeFindsServer, ProbeExpires, UnchangedButPc, channelVars
  <1>6. CASE ServerIsReady \/ WaitExpires
    BY <1>1, <1>2, <1>3, <1>6 DEF ServerIsReady, WaitExpires, Fail, Shape
  <1>7. CASE SendAuthentication
    BY <1>1, <1>2, <1>3, <1>7 DEF SendAuthentication, Fail
  <1>8. CASE AuthenticationEnds
    <2>1. authError # "none" \/ (client.requireHandshake => completed)
      BY <1>2, <1>8 DEF AuthenticationEnds
    <2>2. CASE authError # "none"
      BY <1>1, <1>2, <1>3, <1>8, <2>2 DEF AuthenticationEnds, Fail, Shape
    <2>3. CASE authError = "none"
      BY <1>1, <1>2, <1>3, <1>8, <2>1, <2>3 DEF AuthenticationEnds, StrictClient
    <2> QED
      BY <2>2, <2>3
  <1>9. CASE SendUser
    BY <1>1, <1>2, <1>3, <1>9 DEF SendUser
  <1>10. CASE OnHandshakeOk
    <2>1. In(HandshakeOk, toClient)
      BY <1>2, <1>10, ReaderTakes, KnownByType DEF OnHandshakeOk
    <2> QED
      BY <1>1, <1>2, <1>3, <1>10, <2>1 DEF OnHandshakeOk, Receive
  <1>11. CASE OnServerReady \/ OnProtocolError \/ OnAuthAck \/ OnClosed
    <2>1. /\ In(HandshakeOk, toClient') => In(HandshakeOk, toClient)
          /\ UNCHANGED <<pc, failure, completed>>
      BY <1>2, <1>11, ReaderTakes
         DEF OnServerReady, OnProtocolError, OnAuthAck, OnClosed, Receive
    <2>2. client.requireHandshake /\ "auth" \in events' /\ authError' = "none"
             => completed
      BY <1>2, <1>11 DEF OnServerReady, OnProtocolError, OnAuthAck, OnClosed
    <2> QED
      BY <1>1, <1>2, <1>3, <2>1, <2>2
  <1>12. ASSUME UNCHANGED clientVars, In(HandshakeOk, toClient') => Finished'
         PROVE  CompletionInv'
    BY <1>1, <1>2, <1>3, <1>12 DEF clientVars
  <1>13. CASE Accept
    BY <1>2, <1>3, <1>12, <1>13, AcceptSends DEF Accept
  <1>14. CASE HandleAuth
    <2>1. UNCHANGED clientVars /\ session.at = "open"
      BY <1>14 DEF HandleAuth, ServerReceive
    <2>2. In(HandshakeOk, toClient') => In(HandshakeOk, toClient)
      BY <1>2, <1>14, AuthHandled, SentToClient
    <2> QED
      BY <1>2, <1>3, <1>12, <2>1, <2>2
  <1>18. CASE SendHandshakeOk
    <2>1. Accepted /\ session \in Sessions
      BY <1>2, <1>18 DEF SendHandshakeOk, Answering, Shape
    <2>2. VersionFor(Offer)' = VersionFor(Offer)
      BY OptionsKept
    <2>3. Finished'
      BY <1>18, <2>1, <2>2 DEF SendHandshakeOk, Finished, Accepted, Sessions
    <2> QED
      BY <1>12, <1>18, <2>3 DEF SendHandshakeOk
  <1>19. CASE FinishHandshake \/ NotifyConnected
    <2>1. In(HandshakeOk, toClient') => In(HandshakeOk, toClient)
      BY <1>2, <1>19, SentToClient DEF FinishHandshake, NotifyConnected, channelVars
    <2> QED
      BY <1>2, <1>3, <1>12, <1>19, <2>1 DEF FinishHandshake, NotifyConnected
  <1>15. CASE HandleUser \/ AuthenticationDeadline
    <2>2. In(HandshakeOk, toClient') => In(HandshakeOk, toClient)
      BY <1>2, <1>15, UserHandled, SentToClient DEF AuthenticationDeadline
    <2> QED
      BY <1>2, <1>3, <1>12, <1>15, <2>2
         DEF HandleUser, AuthenticationDeadline, ServerReceive
  <1>16. CASE IgnoreAuth \/ HandleClosed
    BY <1>2, <1>3, <1>12, <1>16 DEF IgnoreAuth, HandleClosed, ServerReceive
  <1>17. CASE UNCHANGED vars
    BY <1>2, <1>3, <1>12, <1>17 DEF vars, channelVars
  <1> QED
    BY <1>4, <1>5, <1>6, <1>7, <1>8, <1>9, <1>10, <1>11, <1>13, <1>14, <1>15, <1>16,
       <1>17, <1>18, <1>19 DEF Next, Main, Timeouts, ClientReader, ServerSession

\* The server's application hears of nobody new but those it has checked.
LEMMA TrustStep ==
    ASSUME Inv, [Next]_vars
    PROVE  TrustInv'
  <1>1. server' = server /\ StrictClient' = StrictClient
    BY OptionsKept
  <1>2. Shape /\ TrustInv /\ session \in Sessions
    BY DEF Inv, Shape
  <1> USE DEF TrustInv
  <1>3. CASE UNCHANGED session
    BY <1>1, <1>2, <1>3
  <1>4. ASSUME session' = [session EXCEPT !.at = "closed"]
        PROVE  TrustInv'
    BY <1>1, <1>2, <1>4 DEF Sessions
  <1>5. CASE Accept
    <2>1. session'.notified => ~server.authRequired \/ session.notified
      BY <1>2, <1>5 DEF Accept, Break, Sessions
    <2>2. /\ session'.authenticated = session.authenticated
          /\ session'.delivered = session.delivered
          /\ session'.completed = session.completed
          /\ session'.legacyPeer = session.legacyPeer
      BY <1>2, <1>5 DEF Accept, Break, Sessions
    <2> QED
      BY <1>1, <1>2, <2>1, <2>2
  <1>6. CASE HandleAuth
    <2>1. \/ session' = [session EXCEPT !.at = "closed"]
          \/ session' = [session EXCEPT !.version = VersionFor(Offer),
                                        !.authenticated = TRUE,
                                        !.at = "answering"]
      BY <1>2, <1>6, AuthHandled DEF Refuse
    <2> QED
      BY <1>1, <1>2, <1>4, <2>1 DEF Sessions
  <1>7. CASE HandleUser
    <2>1. CASE Refuse(AuthAck(FALSE))
      BY <1>4, <2>1 DEF Refuse
    <2>2. CASE ~Refuse(AuthAck(FALSE))
      <3>1. Head(toServer) = User /\ In(User, toServer)
        BY <1>2, <1>7, ServerTakes, KnownByType DEF HandleUser
      <3>2. StrictClient => session.completed
        BY <1>7, <3>1
           DEF HandleUser, ServerReceive, Inv, AskedInv, CompletionInv, Finished
      <3>3. LooksLegacy => ~session.completed
        BY DEF LooksLegacy
      <3>4. /\ session'.authenticated /\ session'.completed
            /\ session'.legacyPeer => session.legacyPeer \/ LooksLegacy
        BY <1>2, <1>7, <2>2, UserHandled
      <3> QED
        BY <1>1, <1>2, <3>2, <3>3, <3>4
    <2> QED
      BY <2>1, <2>2
  <1>8. CASE HandleClosed \/ AuthenticationDeadline
    BY <1>4, <1>8 DEF HandleClosed, AuthenticationDeadline, Refuse
  <1>9. CASE Main \/ Timeouts \/ SendUser \/ ClientReader \/ IgnoreAuth
    <2>1. AuthenticationDeadline \/ UNCHANGED session
      BY <1>9 DEF Main, Timeouts, ClientReader, Start, ProbeFindsServer, ServerIsReady,
         SendAuthentication, AuthenticationEnds, ProbeExpires, WaitExpires, SendUser,
         UnchangedButPc, Receive, OnServerReady, OnProtocolError, OnAuthAck,
         OnHandshakeOk, OnClosed, IgnoreAuth
    <2> QED
      BY <1>3, <1>8, <2>1
  <1>10. CASE SendHandshakeOk \/ FinishHandshake \/ NotifyConnected
    <2>1. session.authenticated
      BY <1>10 DEF SendHandshakeOk, FinishHandshake, NotifyConnected, Answering, Accepted,
         Inv, CompletionInv
    <2>2. /\ session'.authenticated = session.authenticated
          /\ session'.delivered = session.delivered
          /\ session.completed => session'.completed
          /\ session'.legacyPeer = session.legacyPeer
      BY <1>2, <1>10 DEF SendHandshakeOk, FinishHandshake, NotifyConnected, Break, Sessions
    <2> QED
      BY <1>1, <1>2, <2>1, <2>2
  <1> QED
    BY <1>3, <1>5, <1>6, <1>7, <1>8, <1>9, <1>10 DEF Next, ServerSession, vars

\* The server has refused a client that it has not accepted before.
Refused == server.authRequired /\ ~session.authenticated /\ session.at = "closed"

\* Nobody is refused before the connection is made but by the server's choice.
LEMMA RefusalStep ==
    ASSUME Inv, [Next]_vars
    PROVE  RefusalInv'
  <1>1. server' = server
    BY OptionsKept
  <1>2. Shape /\ RefusalInv /\ session \in Sessions
    BY DEF Inv, Shape
  <1>3. Refused /\ UNCHANGED session => Refused'
    BY <1>1 DEF Refused
  <1> USE DEF RefusalInv, Connected, Refused
  <1>4. CASE Start \/ ProbeFindsServer \/ ProbeExpires
    BY <1>1, <1>2, <1>4
       DEF Start, ProbeFindsServer, ProbeExpires, UnchangedButPc, channelVars
  <1>5. CASE ServerIsReady \/ SendAuthentication \/ AuthenticationEnds \/ WaitExpires
    BY <1>1, <1>2, <1>5
       DEF ServerIsReady, SendAuthentication, AuthenticationEnds, WaitExpires, Fail
  <1>6. CASE SendUser
    BY <1>1, <1>2, <1>6 DEF SendUser
  <1>7. CASE OnAuthAck
    <2>1. /\ In(AuthAck(FALSE), toClient') => In(AuthAck(FALSE), toClient)
          /\ ~Head(toClient).ok => In(AuthAck(FALSE), toClient)
      BY <1>2, <1>7, ReaderTakes, KnownByType DEF OnAuthAck
    <2>2. authError' = "auth" => authError = "auth" \/ In(AuthAck(FALSE), toClient)
      BY <1>7, <2>1 DEF OnAuthAck
    <2> QED
      BY <1>1, <1>2, <1>7, <2>1, <2>2 DEF OnAuthAck, Receive
  <1>8. CASE OnServerReady \/ OnProtocolError \/ OnHandshakeOk \/ OnClosed
    <2>1. /\ In(AuthAck(FALSE), toClient') => In(AuthAck(FALSE), toClient)
          /\ authError' = "auth" => authError = "auth"
          /\ UNCHANGED <<pc, failure, session>>
      BY <1>2, <1>8, ReaderTakes
         DEF OnServerReady, OnProtocolError, OnHandshakeOk, OnClosed, Receive
    <2> QED
      BY <1>1, <1>2, <2>1
  <1>9. ASSUME UNCHANGED clientVars, session.at # "closed",
               Connected \/ Refused'
                  \/ (In(AuthAck(FALSE), toClient') => In(AuthAck(FALSE), toClient))
        PROVE  RefusalInv'
    BY <1>1, <1>2, <1>9 DEF clientVars
  <1>10. CASE Accept
    BY <1>2, <1>9, <1>10, AcceptSends DEF Accept
  <1>11. CASE HandleAuth
    <2>1. /\ UNCHANGED clientVars /\ session.at = "open"
          /\ server.authRequired => ~session.authenticated
      <3>1. In(OurAuth, toServer)
        BY <1>2, <1>11, AuthHandled, ServerTakes DEF HandleAuth
      <3> QED
        BY <1>11, <3>1 DEF HandleAuth, ServerReceive, Inv, AskedInv
    <2>2. \/ server.authRequired /\ Refuse(AuthAck(FALSE))
          \/ Refuse(ProtocolError)
          \/ toClient' = Append(toClient, AuthAck(TRUE))
      BY <1>2, <1>11, AuthHandled
    <2>3. CASE server.authRequired /\ Refuse(AuthAck(FALSE))
      <3>1. Refused'
        BY <1>1, <1>2, <2>1, <2>3 DEF Refuse, Sessions
      <3> QED
        BY <1>9, <2>1, <3>1
    <2>4. CASE ~(server.authRequired /\ Refuse(AuthAck(FALSE)))
      <3>1. In(AuthAck(FALSE), toClient') => In(AuthAck(FALSE), toClient)
        BY <1>2, <2>2, <2>4, SentToClient
      <3> QED
        BY <1>9, <2>1, <3>1
    <2> QED
      BY <2>3, <2>4
  <1>12. CASE HandleUser
    <2>1. In(User, toServer)
      BY <1>2, <1>12, ServerTakes, KnownByType DEF HandleUser
    <2> QED
      BY <1>9, <1>12, <2>1 DEF HandleUser, ServerReceive, Inv, AskedInv
  <1>13. CASE AuthenticationDeadline
    <2>1. Refused'
      BY <1>1, <1>2, <1>13 DEF AuthenticationDeadline, Refuse, Sessions
    <2> QED
      BY <1>9, <1>13, <2>1 DEF AuthenticationDeadline
  <1>14. CASE IgnoreAuth \/ HandleClosed
    BY <1>9, <1>14 DEF IgnoreAuth, HandleClosed, ServerReceive
  <1>16. CASE SendHandshakeOk \/ FinishHandshake \/ NotifyConnected
    <2>1. In(AuthAck(FALSE), toClient') => In(AuthAck(FALSE), toClient)
      BY <1>2, <1>16, SentToClient
         DEF SendHandshakeOk, FinishHandshake, NotifyConnected, channelVars
    <2> QED
      BY <1>9, <1>16, <2>1 DEF SendHandshakeOk, FinishHandshake, NotifyConnected
  <1>15. CASE UNCHANGED vars
    BY <1>1, <1>2, <1>15 DEF vars, clientVars, channelVars
  <1> QED
    BY <1>4, <1>5, <1>6, <1>7, <1>8, <1>10, <1>11, <1>12, <1>13, <1>14, <1>15, <1>16
       DEF Next, Main, Timeouts, ClientReader, ServerSession

----------------------------------------------------------------------------
(* What the runs check, for every choice of the options.                   *)

\* The invariant holds in every state that client and server can reach.
THEOREM Invariance == Spec => []Inv
  <1>1. Inv /\ [Next]_vars => Inv'
    BY ShapeStep, AskedStep, VersionStep, CompletionStep, TrustStep, RefusalStep DEF Inv
  <1> QED
    BY InitInv, <1>1, PTL DEF Spec

\* Once connect() returns to a client that requires the handshake, and waits
\* for no 0.1.4 server, both sides have finished it and hold the same version.
THEOREM AgreementReached == Spec => []ConnectedMeansAgreed
  <1>1. Inv => ConnectedMeansAgreed
    <2> SUFFICES ASSUME Inv, StrictClient PROVE ConnectedMeansAgreed
      BY DEF ConnectedMeansAgreed
    <2>1. ASSUME BothNegotiate, pc \in {"sendAuth", "waitAuth", "connected"}
          PROVE  /\ ~Disjoint /\ agreed = Common
                 /\ IsHighestCommon(agreed, Versions(client), Versions(server))
      BY <2>1, CommonIs DEF Inv, VersionInv, BothNegotiate
    <2>2. Connected => completed /\ Finished
      BY DEF Inv, CompletionInv
    <2>3. ASSUME Connected, BothNegotiate
          PROVE  agreed = session.version
      <3>1. VersionFor(Offer) = Common
        BY <2>3, CommonIs DEF Inv, VersionFor, Offer, BothNegotiate
      <3> QED
        BY <2>1, <2>2, <2>3, <3>1 DEF Connected, Finished, Accepted
    <2> QED
      BY <2>1, <2>2, <2>3 DEF ConnectedMeansAgreed, Finished, Accepted, Connected
  <1> QED
    BY Invariance, <1>1, PTL

\* A server that requires credentials hears of nobody who gave no good ones,
\* and no modern client passes for a 0.1.4 one.
THEOREM TrustKept == Spec => []OnlyAuthenticated
  <1>1. Inv => OnlyAuthenticated
    BY DEF Inv, AskedInv, TrustInv, OnlyAuthenticated, StrictClient
  <1> QED
    BY Invariance, <1>1, PTL

\* connect() raises an authentication or a version error only when the server
\* refuses the credentials, or the versions do not go together.
THEOREM FailuresExplained == Spec => []FailureJustified
  <1>1. Inv => FailureJustified
    BY CommonIs DEF Inv, VersionInv, VersionMismatch, CompletionInv, RefusalInv,
       FailureJustified
  <1> QED
    BY Invariance, <1>1, PTL

=============================================================================
