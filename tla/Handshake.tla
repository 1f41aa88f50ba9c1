------------------------------ MODULE Handshake ------------------------------
(***************************************************************************)
(* Setting up one connection: TcpClient.connect on the client's main       *)
(* thread, the client's reader, and the server's side of the connection,   *)
(* over two FIFO channels. Every combination of the options that decide    *)
(* the handshake is an initial state.                                      *)
(*                                                                         *)
(* A 0.1.4 server, which has no handshake and sends nothing by itself, is  *)
(* external: it only reads.                                                *)
(***************************************************************************)
EXTENDS Negotiation, Sequences, FiniteSets

CONSTANTS
    VersionOptions,  \* the min and max versions a side may be configured with
    MaxSends         \* bound: application messages the client sends

ASSUME HandshakeAssumption ==
    /\ \A o \in VersionOptions : MakeRange(o.min, o.max) \in VersionRange
    /\ MaxSends \in Nat

\* A side negotiates when it was given either bound; it has a range anyway.
Enabled(side) == IsEnabled(Unset, side.protocol.min, side.protocol.max)
Versions(side) == MakeRange(side.protocol.min, side.protocol.max)

Credentials == {"none", "good", "bad"}

ClientOptions == [
    protocol         : VersionOptions,
    requireHandshake : BOOLEAN,
    credentials      : Credentials,
    allowLegacy      : BOOLEAN]

ServerOptions == [
    protocol         : VersionOptions,
    requireHandshake : BOOLEAN,
    authRequired     : BOOLEAN,
    allowLegacy      : BOOLEAN,
    useEventLoop     : BOOLEAN,
    legacy           : {FALSE}]

\* A 0.1.4 server; its other fields say that nothing is asked of the client.
LegacyServer == [
    protocol |-> NoRange, requireHandshake |-> FALSE, authRequired |-> FALSE,
    allowLegacy |-> TRUE, useEventLoop |-> FALSE, legacy |-> TRUE]

VARIABLES
    client,     \* the client's options
    server,     \* the server's options
    pc,         \* where connect() is
    failure,    \* the reason connect() raised, or "none"
    events,     \* the client's events that are set: ready, ack, auth
    authError,  \* _auth_error: "none", "auth" or "version"
    lost,       \* has the reader seen the end of the connection?
    completed,  \* the client's _handshake_completed
    agreed,     \* the client's _negotiated_version
    pickle,     \* the client's _pickle_outbound
    sends,      \* application messages sent
    session,    \* the server's side, TcpServerProtocol; its place "at" is
                \* accept, open, answering, finishing, notifying, closed or broken
    toServer, toClient

options     == <<client, server>>
clientVars  == <<pc, failure, events, authError, lost, completed, agreed, pickle,
                 sends>>
channelVars == <<toServer, toClient>>
vars == <<options, clientVars, session, channelVars>>

AuthEnabled == client.requireHandshake \/ client.credentials # "none"

\* A session from accept to handle_connection_lost.
NewSession == [
    at |-> "accept", authenticated |-> ~server.authRequired,
    completed |-> ~server.requireHandshake, version |-> NoVersion,
    notified |-> FALSE, legacyPeer |-> FALSE, delivered |-> 0]

Init ==
    /\ client \in ClientOptions
    /\ server \in ServerOptions \cup {LegacyServer}
    /\ pc = "start"
    /\ failure = "none"
    /\ events = {}
    /\ authError = "none"
    /\ lost = FALSE
    /\ completed = FALSE
    /\ agreed = NoVersion
    /\ pickle = client.allowLegacy
    /\ sends = 0
    /\ session = NewSession
    /\ toServer = <<>>
    /\ toClient = <<>>

----------------------------------------------------------------------------
(* Messages.                                                               *)

ServerReady(range)     == [type |-> "server_ready", protocol |-> range]
AuthAck(ok)            == [type |-> "auth_ack", ok |-> ok]
HandshakeOk            == [type |-> "handshake_ok"]
ProtocolError          == [type |-> "protocol_error"]
Closed                 == [type |-> "eof"]
Auth(credentials, range) ==
    [type |-> "auth", credentials |-> credentials, protocol |-> range]
User                   == [type |-> "user"]

----------------------------------------------------------------------------
(* connect(), on the client's main thread.                                 *)

Connected == pc = "connected"
UnchangedButPc == UNCHANGED <<options, events, authError, lost, agreed, session,
                              channelVars>>

\* _cleanup_transport closes the socket, and connect raises.
Fail(reason) ==
    /\ pc' = "failed"
    /\ failure' = reason
    /\ toServer' = Append(toServer, Closed)

\* The socket is connected, the events cleared, and the reader started.
Start ==
    /\ pc = "start"
    /\ pc' = IF client.allowLegacy THEN "probe"
             ELSE IF client.requireHandshake THEN "waitReady"
             ELSE IF AuthEnabled THEN "sendAuth" ELSE "connected"
    /\ UNCHANGED <<failure, completed, pickle, sends>>
    /\ UnchangedButPc

\* _probe_for_legacy_server: the grace period ends before __server_ready__.
ProbeExpires ==
    /\ pc = "probe"
    /\ "ready" \notin events
    /\ pickle' = TRUE
    /\ completed' = TRUE
    /\ pc' = "connected"
    /\ UNCHANGED <<failure, sends>>
    /\ UnchangedButPc

ProbeFindsServer ==
    /\ pc = "probe"
    /\ "ready" \in events
    /\ pickle' = FALSE
    /\ IF client.requireHandshake
          THEN pc' = "sendAuth" /\ completed' = completed
          ELSE pc' = "connected" /\ completed' = TRUE
    /\ UNCHANGED <<failure, sends>>
    /\ UnchangedButPc

ServerIsReady ==
    /\ pc = "waitReady"
    /\ "ready" \in events
    /\ IF authError = "none"
          THEN pc' = "sendAuth" /\ UNCHANGED <<failure, toServer>>
          ELSE Fail(authError)
    /\ UNCHANGED <<options, events, authError, lost, completed, agreed, pickle, sends,
                   session, toClient>>

\* _send_authentication: without negotiation no range is sent. After the end
\* of the connection send_control raises NotConnected.
SendAuthentication ==
    /\ pc = "sendAuth"
    /\ IF lost THEN Fail("lost")
       ELSE /\ toServer' = Append(toServer, Auth(client.credentials,
                   IF Enabled(client) THEN Versions(client) ELSE NoRange))
            /\ pc' = "waitAuth"
            /\ failure' = failure
    /\ UNCHANGED <<options, events, authError, lost, completed, agreed, pickle,
                   sends, session, toClient>>

\* _wait_for_authentication: the event it waits for depends on the options.
AuthenticationEnds ==
    /\ pc = "waitAuth"
    /\ (IF client.requireHandshake THEN "auth" ELSE "ack") \in events
    /\ IF authError # "none" THEN Fail(authError) /\ completed' = completed
       ELSE IF client.requireHandshake /\ ~completed
       THEN Fail("handshake") /\ completed' = completed
       ELSE pc' = "connected" /\ completed' = TRUE /\ UNCHANGED <<failure, toServer>>
    /\ UNCHANGED <<options, events, authError, lost, agreed, pickle, sends, session,
                   toClient>>

\* handshake_timeout runs out in one of the two waits.
WaitExpires ==
    /\ \/ pc = "waitReady" /\ "ready" \notin events
       \/ pc = "waitAuth"
             /\ (IF client.requireHandshake THEN "auth" ELSE "ack") \notin events
    /\ Fail("timeout")
    /\ UNCHANGED <<options, events, authError, lost, completed, agreed, pickle, sends,
                   session, toClient>>

\* client.send by the application.
SendUser ==
    /\ Connected
    /\ ~lost
    /\ sends < MaxSends
    /\ client.requireHandshake => completed
    /\ sends' = sends + 1
    /\ toServer' = Append(toServer, User)
    /\ UNCHANGED <<options, pc, failure, events, authError, lost, completed, agreed,
                   pickle, session, toClient>>

----------------------------------------------------------------------------
(* The client's reader: the handshake branches of handle_data.             *)

Receive(type) ==
    /\ pc \notin {"start", "failed"}
    /\ toClient # <<>>
    /\ Head(toClient).type = type
    /\ toClient' = Tail(toClient)
    /\ UNCHANGED <<options, pc, failure, pickle, sends, session, toServer>>

OnServerReady ==
    /\ Receive("server_ready")
    /\ LET version == Negotiate(Versions(client), Head(toClient).protocol) IN
       IF ~Enabled(client)
       THEN /\ events' = events \cup {"ready"}
            /\ UNCHANGED <<authError, agreed>>
       ELSE IF version = NoVersion
       THEN /\ authError' = "version"
            /\ events' = events \cup {"ready", "auth"}
            /\ agreed' = agreed
       ELSE /\ agreed' = version
            /\ events' = events \cup {"ready"}
            /\ authError' = authError
    /\ UNCHANGED <<lost, completed>>

\* Mutant: only the wait for the server is ended.
OnProtocolErrorReadyOnly ==
    /\ Receive("protocol_error")
    /\ authError' = "version"
    /\ events' = events \cup {"ready"}
    /\ UNCHANGED <<lost, completed, agreed>>

OnProtocolError ==
    /\ Receive("protocol_error")
    /\ authError' = "version"
    /\ events' = events \cup {"ready", "ack", "auth"}
    /\ UNCHANGED <<lost, completed, agreed>>

\* Mutant: the acknowledgement ends the wait for the handshake, too.
OnAuthAckEndsWait ==
    /\ Receive("auth_ack")
    /\ authError' = IF Head(toClient).ok THEN authError ELSE "auth"
    /\ events' = events \cup {"ack", "auth"}
    /\ UNCHANGED <<lost, completed, agreed>>

OnAuthAck ==
    /\ Receive("auth_ack")
    /\ authError' = IF Head(toClient).ok THEN authError ELSE "auth"
    /\ events' = events \cup {"ack"} \cup
          IF authError' # "none" \/ ~client.requireHandshake THEN {"auth"} ELSE {}
    /\ UNCHANGED <<lost, completed, agreed>>

OnHandshakeOk ==
    /\ Receive("handshake_ok")
    /\ completed' = TRUE
    /\ events' = events \cup {"auth"}
    /\ UNCHANGED <<authError, lost, agreed>>

\* End of file: handle_connection_lost sets none of the events.
OnClosed ==
    /\ Receive("eof")
    /\ lost' = TRUE
    /\ UNCHANGED <<events, authError, completed, agreed>>

----------------------------------------------------------------------------
(* The server's side of the connection.                                    *)

\* The dispatcher refuses an event and raises: handle_connection_lost aborts
\* the writer, which drops the frames it has not sent yet.
Break(s, sent) ==
    /\ session' = [s EXCEPT !.at = "broken"]
    /\ \E n \in 0..Len(sent) : toClient' = Append(SubSeq(sent, 1, n), Closed)

\* _handle_connection or _accept_event_loop_connection, up to the read loop.
Accept ==
    /\ session.at = "accept"
    /\ LET told == /\ ~server.authRequired
                   /\ server.useEventLoop => ~server.requireHandshake
           sent == IF server.legacy THEN toClient
                   ELSE Append(toClient, ServerReady(Versions(server))) IN
       \/ /\ session' = [session EXCEPT !.at = "open", !.notified = told]
          /\ toClient' = sent
       \/ told /\ Break(session, sent)
    /\ UNCHANGED <<options, clientVars, toServer>>

\* A frame that refuses the connection, and the end of the connection. In
\* event-loop mode the writer has no close(): the exception removes the
\* connection, and the frame is dropped with the buffer it waited in.
Refuse(message) ==
    /\ session' = [session EXCEPT !.at = "closed"]
    /\ toClient' = toClient \o (IF server.useEventLoop THEN <<Closed>>
                                                      ELSE <<message, Closed>>)

ServerReceive(type) ==
    /\ session.at = "open"
    /\ toServer # <<>>
    /\ Head(toServer).type = type
    /\ toServer' = Tail(toServer)
    /\ UNCHANGED <<options, clientVars>>

\* _check_protocol_version.
VersionRefused(remote) ==
    /\ Enabled(server)
    /\ Negotiate(Versions(server), remote) = NoVersion

\* Mutant: the server records its own version.
VersionOwn(remote) ==
    IF Enabled(server) THEN Versions(server).max ELSE ProtocolVersion

VersionFor(remote) ==
    IF Enabled(server) THEN Negotiate(Versions(server), remote)
                       ELSE ProtocolVersion

\* Without required credentials every __auth__ is accepted, again and again.
HandleAuth ==
    /\ ServerReceive("auth")
    /\ ~server.legacy
    /\ LET m == Head(toServer) IN
       IF VersionRefused(m.protocol)
       THEN Refuse(ProtocolError)
       ELSE IF server.authRequired /\ (session.authenticated \/ m.credentials # "good")
       THEN Refuse(AuthAck(FALSE))
       ELSE /\ session' = [session EXCEPT !.version = VersionFor(m.protocol),
                                          !.authenticated = TRUE,
                                          !.at = "answering"]
            /\ toClient' = Append(toClient, AuthAck(TRUE))

\* _send_handshake_ok sends first,
SendHandshakeOk ==
    /\ session.at = "answering"
    /\ session' = [session EXCEPT !.at = "finishing"]
    /\ toClient' = Append(toClient, HandshakeOk)
    /\ UNCHANGED <<options, clientVars, toServer>>

\* and sets the flag afterwards: the client may be back from connect() by now.
FinishHandshake ==
    /\ session.at = "finishing"
    /\ session' = [session EXCEPT !.completed = TRUE, !.at = "notifying"]
    /\ UNCHANGED <<options, clientVars, channelVars>>

\* _notify_connected, once.
NotifyConnected ==
    /\ session.at = "notifying"
    /\ \/ /\ session' = [session EXCEPT !.notified = TRUE, !.at = "open"]
          /\ toClient' = toClient
       \/ ~session.notified /\ Break(session, toClient)
    /\ UNCHANGED <<options, clientVars, toServer>>

\* Whether application data identifies the peer as a 0.1.4 client.
LooksLegacy ==
    /\ server.allowLegacy
    /\ ~server.authRequired
    /\ ~session.completed

\* Mutant: application data needs no authentication.
HandleUserUnauthenticated ==
    /\ ServerReceive("user")
    /\ session' = [session EXCEPT !.legacyPeer = @ \/ LooksLegacy,
                                  !.completed = TRUE,
                                  !.notified = @ \/ LooksLegacy,
                                  !.delivered = @ + 1]
    /\ toClient' = toClient

HandleUser ==
    /\ ServerReceive("user")
    /\ IF session.authenticated /\ (session.completed \/ LooksLegacy)
       THEN LET known == [session EXCEPT !.legacyPeer = @ \/ LooksLegacy,
                                         !.completed = TRUE] IN
            \/ /\ session' = [known EXCEPT !.notified = @ \/ LooksLegacy,
                                           !.delivered = @ + 1]
               /\ toClient' = toClient
            \/ Break(known, toClient)
       ELSE Refuse(AuthAck(FALSE))

\* A 0.1.4 server has no handler for an __auth__ frame.
IgnoreAuth ==
    /\ ServerReceive("auth")
    /\ server.legacy
    /\ UNCHANGED <<session, toClient>>

HandleClosed ==
    /\ ServerReceive("eof")
    /\ session' = [session EXCEPT !.at = "closed"]
    /\ toClient' = toClient

\* keepalive_tick: a client that has not authenticated in time.
AuthenticationDeadline ==
    /\ session.at = "open"
    /\ server.authRequired
    /\ ~session.authenticated
    /\ Refuse(AuthAck(FALSE))
    /\ UNCHANGED <<options, clientVars, toServer>>

----------------------------------------------------------------------------
Main == \/ Start \/ ProbeFindsServer \/ ServerIsReady
        \/ SendAuthentication \/ AuthenticationEnds

Timeouts == ProbeExpires \/ WaitExpires \/ AuthenticationDeadline

ClientReader == \/ OnServerReady \/ OnProtocolError \/ OnAuthAck
                \/ OnHandshakeOk \/ OnClosed

ServerSession == \/ Accept \/ HandleAuth \/ SendHandshakeOk \/ FinishHandshake
                 \/ NotifyConnected \/ IgnoreAuth \/ HandleUser \/ HandleClosed

Next == Main \/ Timeouts \/ SendUser \/ ClientReader \/ ServerSession

\* The threads run; no timeout is needed to make them do so.
Fairness == WF_vars(Main) /\ WF_vars(ClientReader) /\ WF_vars(ServerSession)

Spec == Init /\ [][Next]_vars /\ Fairness

----------------------------------------------------------------------------
\* The client that the documentation describes: the handshake is required
\* and no 0.1.4 server is expected.
StrictClient == client.requireHandshake /\ ~client.allowLegacy
BothNegotiate == Enabled(client) /\ Enabled(server)
Disjoint == ~Overlap(Versions(client), Versions(server))

(* Once connect() returns to a strict client, the server has accepted the   *)
(* client, and has finished the handshake or is just setting its flag (it   *)
(* sends __handshake_ok__ first, server.py:154-160); it has announced the   *)
(* client, is about to, or its dispatcher refused to. When both negotiate   *)
(* they hold the same version, the highest one common to the two ranges,    *)
(* and a strict client gave no credentials to a server without a common     *)
(* one. Other clients do (client.py:685-692, 699-700 authenticate without a *)
(* wait for __server_ready__), where README.md:454-455 has no exception.    *)
ConnectedMeansAgreed ==
    StrictClient =>
        /\ pc \in {"sendAuth", "waitAuth", "connected"} /\ BothNegotiate => ~Disjoint
        /\ Connected =>
              /\ completed /\ session.authenticated
              /\ session.completed \/ session.at = "finishing"
              /\ session.notified \/ session.at \in {"finishing", "notifying", "broken"}
              /\ BothNegotiate =>
                    /\ agreed = session.version
                    /\ IsHighestCommon(agreed, Versions(client), Versions(server))

(* The application of a server that requires credentials hears of a client, *)
(* or of its messages, only after the client gave good ones, whatever the   *)
(* client does first; and of no message before the handshake is completed.  *)
(* No modern client that requires the handshake passes for a 0.1.4 client.  *)
OnlyAuthenticated ==
    /\ server.authRequired /\ (session.notified \/ session.delivered > 0) =>
          client.credentials = "good" /\ session.authenticated
    /\ session.delivered > 0 => session.completed
    /\ session.legacyPeer => ~client.requireHandshake \/ client.allowLegacy

(* connect() fails for a reason: an authentication error means that the     *)
(* server asks for credentials and did not accept any; a version error that *)
(* the ranges are disjoint, or that only the server negotiates (README.md:  *)
(* 464-465 says that the handshake then proceeds).                          *)
FailureJustified ==
    /\ failure = "auth" => server.authRequired /\ ~session.authenticated
    /\ failure = "version" => \/ Enabled(client) /\ Disjoint
                              \/ ~Enabled(client) /\ Enabled(server)
    /\ failure # "handshake"

(* No combination of options leaves client and server waiting for each      *)
(* other: with a thread per connection every strict client has its answer,  *)
(* and the server the completed handshake, before any timeout is needed,    *)
(* unless the server's dispatcher refuses to announce the client.           *)
HandshakeAnswered ==
    StrictClient /\ ~server.legacy /\ ~server.useEventLoop =>
        <>(\/ pc = "failed" \/ session.at = "broken"
           \/ Connected /\ session.completed /\ session.notified)

=============================================================================
