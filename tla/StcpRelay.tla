----------------------------- MODULE StcpRelay ------------------------------
(***************************************************************************)
(* An STCP tunnel: a user connects to the local port of the visitor client, *)
(* and frps relays the chunks between the visitor and the provider client,  *)
(* which has dialled the service. frps tells the two sides of a connection  *)
(* apart by the writer of the TCP connection a message came in on, and      *)
(* keeps what arrives before the other side is known.                      *)
(*                                                                         *)
(* Each client has a control connection and, when it has a data channel, a  *)
(* data connection. frps handles the messages of one TCP connection in      *)
(* order and those of different ones concurrently; a handler may be         *)
(* suspended in the drain() after a flush, before it empties the buffer it  *)
(* flushed.                                                                *)
(***************************************************************************)
EXTENDS Integers, Sequences, SequencesExt

CONSTANTS
    Conns,          \* visitor_conn_id values
    MaxChunks,      \* bound: chunks written at each end of a connection
    Modes,          \* the ways the system may run: records of session (the server
                    \* has an auth_token, so its clients have sessions),
                    \* pauses (the drain after a flush may suspend) and data
                    \* (the clients with a data channel, which needs a session)
    ClientsFail,    \* BOOLEAN: may a client's connections break?
    None

Clients == {"provider", "visitor"}
Writers == Clients \X {"ctrl", "data"}
Ctrl(cl) == <<cl, "ctrl">>
Other(cl) == IF cl = "provider" THEN "visitor" ELSE "provider"

ASSUME ConstantsAssumption ==
    /\ IsFiniteSet(Conns) /\ MaxChunks \in Nat
    /\ Modes \subseteq [session : BOOLEAN, pauses : BOOLEAN, data : SUBSET Clients]
    /\ \A md \in Modes : md.data # {} => md.session
    /\ ClientsFail \in BOOLEAN
    /\ None \notin Conns \cup Writers

VARIABLES
    mode,           \* never changes
    up,             \* the clients whose connections are not broken
    \* frps.
    serving,        \* the clients whose control connection frps serves
    registered,     \* the provider's name is in stcp_providers
    stcpConns,      \* DOMAIN stcp_conns
    writer,         \* writer[side][c]: provider_writer and visitor_writer
    buffer,         \* buffer[side][c]: what came from that side and waits
    flushing,       \* flushing[w]: where the handler of a message read from w
                    \* is suspended after a flush, or None
    \* The clients' ends.
    end,            \* end[cl][c]: "absent", "open", "closed"
    dialing,        \* the connection the provider is dialling, or None
    sent, got,      \* chunks the user of an end has written, and been given
    \* Messages in flight.
    toServer, toClient

endVars   == <<end, dialing, sent, got>>
frpsVars  == <<serving, registered, stcpConns, writer, buffer, flushing>>
vars == <<mode, up, frpsVars, endVars, toServer, toClient>>

Msg == [type : {"newVisitor", "ready", "close"}, conn : Conns]
         \cup [type : {"data"}, conn : Conns, chunks : Seq(Nat)]

NewVisitor(c) == [type |-> "newVisitor", conn |-> c]
Ready(c)      == [type |-> "ready", conn |-> c]
Close(c)      == [type |-> "close", conn |-> c]
Data(c, s)    == [type |-> "data", conn |-> c, chunks |-> s]

\* A suspended flush of a side's buffer to a writer, and the chunks of the
\* message that is to be written after it: none when READY caused the flush.
Flush == [conn : Conns, side : Clients, to : Writers, rest : Seq(Nat)]

TypeOK ==
    /\ mode \in Modes
    /\ up \subseteq Clients /\ serving \subseteq Clients
    /\ registered \in BOOLEAN
    /\ stcpConns \subseteq Conns
    /\ writer \in [Clients -> [Conns -> Writers \cup {None}]]
    /\ buffer \in [Clients -> [Conns -> Seq(Nat)]]
    /\ flushing \in [Writers -> Flush \cup {None}]
    /\ end \in [Clients -> [Conns -> {"absent", "open", "closed"}]]
    /\ dialing \in Conns \cup {None}
    /\ sent \in [Clients -> [Conns -> 0..MaxChunks]]
    /\ got \in [Clients -> [Conns -> Seq(Nat)]]
    /\ toServer \in [Writers -> Seq(Msg)]
    /\ toClient \in [Writers -> Seq(Msg)]

PerConn(x) == [cl \in Clients |-> [c \in Conns |-> x]]

\* Initially both clients have registered.
Init ==
    /\ mode \in Modes
    /\ up = Clients /\ serving = Clients /\ registered = TRUE
    /\ stcpConns = {}
    /\ writer = PerConn(None) /\ buffer = PerConn(<<>>)
    /\ flushing = [w \in Writers |-> None]
    /\ end = PerConn("absent") /\ dialing = None
    /\ sent = PerConn(0) /\ got = PerConn(<<>>)
    /\ toServer = [w \in Writers |-> <<>>]
    /\ toClient = [w \in Writers |-> <<>>]

-----------------------------------------------------------------------------
(* frps: writing and closing. *)

\* A write to a client, which is lost when its connection is broken; the drain
\* that follows raises, at the latest once frps has closed the connection.
Written(w, msgs) ==
    IF w[1] \in up THEN [toClient EXCEPT ![w] = @ \o msgs] ELSE toClient
WriteMayPass(w)  == w[1] \in serving
WriteMayRaise(w) == w[1] \notin up

\* Faulty variant: the visitor is not told.
CloseStcpConnTellsProvider(c) ==
    IF c \in stcpConns
    THEN /\ stcpConns' = stcpConns \ {c}
         /\ toClient' = IF writer["provider"][c] # None
                        THEN Written(writer["provider"][c], <<Close(c)>>)
                        ELSE toClient
    ELSE UNCHANGED <<stcpConns, toClient>>

\* close_stcp_conn: both sides are told, as far as they are known.
CloseStcpConn(c) ==
    IF c \in stcpConns
    THEN /\ stcpConns' = stcpConns \ {c}
         /\ toClient' = [w \in Writers |->
               IF w[1] \in up /\ \E cl \in Clients : writer[cl][c] = w
               THEN Append(toClient[w], Close(c)) ELSE toClient[w]]
    ELSE UNCHANGED <<stcpConns, toClient>>

-----------------------------------------------------------------------------
(* frps: the messages of the clients. *)

\* Faulty variant: every message is handled by a task of its own, in any order.
FrpsReadsAny(w, m) ==
    /\ w[1] \in serving /\ flushing[w] = None
    /\ \E i \in 1..Len(toServer[w]) :
          m = toServer[w][i] /\ toServer' = [toServer EXCEPT ![w] = RemoveAt(@, i)]

\* m is the next message frps reads on w.
FrpsReads(w, m) ==
    /\ w[1] \in serving /\ flushing[w] = None
    /\ toServer[w] # <<>> /\ m = Head(toServer[w])
    /\ toServer' = [toServer EXCEPT ![w] = Tail(@)]

\* A name nobody provides is only logged: the visitor is not told.
HandleStcpNewVisitor(c) ==
    LET w == Ctrl("visitor") IN
    /\ FrpsReads(w, NewVisitor(c))
    /\ IF registered
       THEN /\ writer' = [writer EXCEPT !["visitor"][c] = w]
            /\ \/ /\ stcpConns' = stcpConns \cup {c}
                  /\ toClient' = Written(Ctrl("provider"), <<NewVisitor(c)>>)
               \/ /\ WriteMayRaise(Ctrl("provider"))
                  /\ toClient' = Written(w, <<Close(c)>>)
                  /\ UNCHANGED stcpConns
       ELSE UNCHANGED <<stcpConns, writer, toClient>>
    /\ UNCHANGED <<mode, up, serving, registered, buffer, flushing, endVars>>

\* Faulty variant: the provider is linked, and the buffer left to handle_data.
HandleStcpVisitorReadyNoFlush(c) ==
    LET w == Ctrl("provider") IN
    /\ FrpsReads(w, Ready(c))
    /\ writer' = IF c \in stcpConns
                 THEN [writer EXCEPT !["provider"][c] = w] ELSE writer
    /\ UNCHANGED <<mode, up, serving, registered, stcpConns, buffer, flushing, endVars,
                   toClient>>

\* The provider is linked and gets what the visitor has sent so far. The buffer
\* is emptied only after the drain.
HandleStcpVisitorReady(c) ==
    LET w == Ctrl("provider")
        flushed == Written(w, <<Data(c, buffer["visitor"][c])>>)
    IN
    /\ FrpsReads(w, Ready(c))
    /\ writer' = IF c \in stcpConns
                 THEN [writer EXCEPT !["provider"][c] = w] ELSE writer
    /\ \/ /\ c \notin stcpConns \/ buffer["visitor"][c] = <<>>
          /\ UNCHANGED <<stcpConns, buffer, flushing, toClient>>
       \/ /\ c \in stcpConns /\ buffer["visitor"][c] # <<>>
          /\ toClient' = flushed
          /\ \/ buffer' = [buffer EXCEPT !["visitor"][c] = <<>>] /\ UNCHANGED flushing
             \/ /\ mode.pauses
                /\ flushing' = [flushing EXCEPT ![w] =
                      [conn |-> c, side |-> "visitor", to |-> w, rest |-> <<>>]]
                /\ UNCHANGED buffer
          /\ UNCHANGED stcpConns
    /\ UNCHANGED <<mode, up, serving, registered, endVars>>

\* Faulty variant: whoever writes before the provider is linked is the provider.
SideUnlinkedIsProvider(c, w) ==
    IF writer["provider"][c] \in {w, None} THEN "provider" ELSE "visitor"

\* The side handle_data takes a sender for: by its writer, or the provider when
\* that is not linked yet. A third writer counts as the visitor's.
Side(c, w) ==
    IF writer["provider"][c] = w
         \/ (writer["provider"][c] = None /\ writer["visitor"][c] # w)
    THEN "provider" ELSE "visitor"

\* DATA of a connection in stcp_conns, from this side to the other one's writer.
StcpData(w, c, s, side, to) ==
    /\ FrpsReads(w, Data(c, s))
    /\ c \in stcpConns
    /\ side = Side(c, w)
    /\ to = writer[Other(side)][c]
    /\ writer' = IF side = "provider" THEN [writer EXCEPT ![side][c] = w] ELSE writer

\* What is buffered goes first, then the message itself.
RelayData(w, c, s, side, to) ==
    LET before == buffer[side][c] IN
    /\ StcpData(w, c, s, side, to)
    /\ to # None /\ WriteMayPass(to)
    /\ \/ /\ toClient' = Written(to, IF before = <<>> THEN <<Data(c, s)>>
                                     ELSE <<Data(c, before), Data(c, s)>>)
          /\ buffer' = [buffer EXCEPT ![side][c] = <<>>]
          /\ UNCHANGED flushing
       \/ /\ mode.pauses /\ before # <<>>
          /\ toClient' = Written(to, <<Data(c, before)>>)
          /\ flushing' = [flushing EXCEPT ![w] =
                [conn |-> c, side |-> side, to |-> to, rest |-> s]]
          /\ UNCHANGED buffer
    /\ UNCHANGED <<mode, up, serving, registered, stcpConns, endVars>>

RelayFails(w, c, s, side, to) ==
    /\ StcpData(w, c, s, side, to)
    /\ to # None /\ WriteMayRaise(to)
    /\ CloseStcpConn(c)
    /\ UNCHANGED <<mode, up, serving, registered, buffer, flushing, endVars>>

\* Faulty variant: a second message replaces what is buffered.
BufferDataReplaces(w, c, s, side) ==
    /\ StcpData(w, c, s, side, None)
    /\ buffer' = [buffer EXCEPT ![side][c] = s]
    /\ UNCHANGED <<mode, up, serving, registered, stcpConns, flushing, endVars, toClient>>

\* The other side is not known yet: the data waits.
BufferData(w, c, s, side) ==
    /\ StcpData(w, c, s, side, None)
    /\ buffer' = [buffer EXCEPT ![side][c] = @ \o s]
    /\ UNCHANGED <<mode, up, serving, registered, stcpConns, flushing, endVars, toClient>>

DropData(w, c, s) ==
    /\ FrpsReads(w, Data(c, s))
    /\ c \notin stcpConns
    /\ UNCHANGED <<mode, up, frpsVars, endVars, toClient>>

\* The drain after a flush returns: the buffer is emptied, whatever it holds by
\* now, and the message behind it is written. Or it raises.
FlushDone(w) ==
    LET f == flushing[w] IN
    /\ f # None
    /\ flushing' = [flushing EXCEPT ![w] = None]
    /\ \/ /\ WriteMayPass(f.to)
          /\ buffer' = [buffer EXCEPT ![f.side][f.conn] = <<>>]
          /\ toClient' = IF f.rest = <<>> THEN toClient
                         ELSE Written(f.to, <<Data(f.conn, f.rest)>>)
          /\ UNCHANGED stcpConns
       \/ WriteMayRaise(f.to) /\ CloseStcpConn(f.conn) /\ UNCHANGED buffer
    /\ UNCHANGED <<mode, up, serving, registered, writer, endVars, toServer>>

HandleClose(w, c) ==
    /\ FrpsReads(w, Close(c))
    /\ CloseStcpConn(c)
    /\ UNCHANGED <<mode, up, serving, registered, writer, buffer, flushing, endVars>>

\* _cleanup_idle_connections, for one connection it finds idle.
IdleSweep(c) ==
    /\ c \in stcpConns
    /\ CloseStcpConn(c)
    /\ UNCHANGED <<mode, up, serving, registered, writer, buffer, flushing, endVars,
                   toServer>>

ClientBreaks(cl) ==
    /\ ClientsFail /\ cl \in up
    /\ up' = up \ {cl}
    /\ toClient' = [w \in Writers |-> IF w[1] = cl THEN <<>> ELSE toClient[w]]
    /\ UNCHANGED <<mode, frpsVars, endVars, toServer>>

\* Faulty variant: the provider's name is freed and its connections are kept.
ClientGoneKeepsConns(cl) ==
    /\ cl \in serving \ up
    /\ serving' = serving \ {cl}
    /\ registered' = (registered /\ cl # "provider")
    /\ toServer' = [w \in Writers |-> IF w[1] = cl THEN <<>> ELSE toServer[w]]
    /\ flushing' = [w \in Writers |-> IF w[1] = cl THEN None ELSE flushing[w]]
    /\ UNCHANGED <<mode, up, stcpConns, writer, buffer, endVars, toClient>>

\* The CLOSE messages of these connections, in any order.
Closes(cs) == {[i \in DOMAIN order |-> Close(order[i])] : order \in SetToSeqs(cs)}

\* frps stops serving a client whose connections broke. The providers of a
\* session are taken out by _remove_session, which leaves stcp_conns alone;
\* without a session cleanup_client_by_writer closes the provider's connections.
ClientGone(cl) ==
    LET closed == IF cl = "provider" /\ ~mode.session THEN stcpConns ELSE {}
        told(w) == {c \in closed : w[1] \in up /\ \E side \in Clients : writer[side][c] = w}
    IN
    /\ cl \in serving \ up
    /\ serving' = serving \ {cl}
    /\ registered' = (registered /\ cl # "provider")
    /\ stcpConns' = stcpConns \ closed
    /\ \E closes \in [Writers -> UNION {Closes(told(w)) : w \in Writers}] :
          /\ \A w \in Writers : closes[w] \in Closes(told(w))
          /\ toClient' = [w \in Writers |-> toClient[w] \o closes[w]]
    /\ toServer' = [w \in Writers |-> IF w[1] = cl THEN <<>> ELSE toServer[w]]
    /\ flushing' = [w \in Writers |-> IF w[1] = cl THEN None ELSE flushing[w]]
    /\ UNCHANGED <<mode, up, writer, buffer, endVars>>

-----------------------------------------------------------------------------
(* The clients. *)

\* _data_writer_for, and control_writer.
DataWriter(cl) == IF cl \in mode.data THEN <<cl, "data">> ELSE Ctrl(cl)
Send(w, m) == toServer' = [toServer EXCEPT ![w] = Append(@, m)]

\* A user connects to the visitor's port: _handle_stcp_visitor_conn.
UserConnect(c) ==
    /\ "visitor" \in up /\ end["visitor"][c] = "absent"
    /\ end' = [end EXCEPT !["visitor"][c] = "open"]
    /\ Send(Ctrl("visitor"), NewVisitor(c))
    /\ UNCHANGED <<mode, up, frpsVars, dialing, sent, got, toClient>>

\* A chunk of the local side is read and forwarded: _forward_stcp_visitor_data
\* and forward_local_data.
ForwardData(cl, c) ==
    /\ cl \in up /\ end[cl][c] = "open" /\ sent[cl][c] < MaxChunks
    /\ sent' = [sent EXCEPT ![cl][c] = @ + 1]
    /\ Send(DataWriter(cl), Data(c, <<sent[cl][c] + 1>>))
    /\ UNCHANGED <<mode, up, frpsVars, end, dialing, got, toClient>>

\* The local side leaves: close_conn, and nothing is sent.
ForwardEnd(cl, c) ==
    /\ end[cl][c] = "open"
    /\ end' = [end EXCEPT ![cl][c] = "closed"]
    /\ UNCHANGED <<mode, up, frpsVars, dialing, sent, got, toServer, toClient>>

\* m is the next message client cl reads on w. The control connection is not
\* read while the provider dials.
ClientReads(w, m) ==
    /\ w[1] \in up
    /\ w = Ctrl("provider") => dialing = None
    /\ toClient[w] # <<>> /\ m = Head(toClient[w])
    /\ toClient' = [toClient EXCEPT ![w] = Tail(@)]

\* DATA and CLOSE are skipped on the control connection of a client with a data
\* channel.
Skipped(w) == w = Ctrl(w[1]) /\ w[1] \in mode.data

ClientHandleData(w, c, s) ==
    /\ ClientReads(w, Data(c, s))
    /\ got' = IF ~Skipped(w) /\ end[w[1]][c] = "open"
              THEN [got EXCEPT ![w[1]][c] = @ \o s] ELSE got
    /\ UNCHANGED <<mode, up, frpsVars, end, dialing, sent, toServer>>

\* Faulty variant: CLOSE is not handled.
ClientHandleCloseIgnored(w, c) ==
    /\ ClientReads(w, Close(c))
    /\ UNCHANGED <<mode, up, frpsVars, endVars, toServer>>

ClientHandleClose(w, c) ==
    /\ ClientReads(w, Close(c))
    /\ end' = IF ~Skipped(w) /\ end[w[1]][c] = "open"
              THEN [end EXCEPT ![w[1]][c] = "closed"] ELSE end
    /\ UNCHANGED <<mode, up, frpsVars, dialing, sent, got, toServer>>

\* The provider's handle_stcp_new_visitor, up to the dial and after it.
ProviderDials(c) ==
    /\ ClientReads(Ctrl("provider"), NewVisitor(c))
    /\ dialing' = c
    /\ UNCHANGED <<mode, up, frpsVars, end, sent, got, toServer>>

DialSucceeds(c) ==
    /\ "provider" \in up /\ dialing = c
    /\ dialing' = None
    /\ end' = [end EXCEPT !["provider"][c] = "open"]
    /\ Send(Ctrl("provider"), Ready(c))
    /\ UNCHANGED <<mode, up, frpsVars, sent, got, toClient>>

DialFails(c) ==
    /\ "provider" \in up /\ dialing = c
    /\ dialing' = None
    /\ Send(DataWriter("provider"), Close(c))
    /\ UNCHANGED <<mode, up, frpsVars, end, sent, got, toClient>>

-----------------------------------------------------------------------------

Payload == {[i \in 1..(n - m + 1) |-> m + i - 1] : m, n \in 1..MaxChunks} \ {<<>>}

\* The TCP connections there are: one coroutine of frps and one of the client
\* read each.
Links == {Ctrl(cl) : cl \in Clients} \cup {DataWriter(cl) : cl \in Clients}

HandleData(w, c, s) ==
    \/ DropData(w, c, s)
    \/ \E side \in Clients :
          \/ BufferData(w, c, s, side)
          \/ \E to \in Writers : RelayData(w, c, s, side, to) \/ RelayFails(w, c, s, side, to)

\* (A task without a message is told apart first: TLC evaluates it faster.)
FrpsTask(w) ==
    \/ FlushDone(w)
    \/ /\ toServer[w] # <<>>
       /\ \E c \in Conns :
             \/ w = Ctrl("visitor") /\ HandleStcpNewVisitor(c)
             \/ w = Ctrl("provider") /\ HandleStcpVisitorReady(c)
             \/ HandleClose(w, c)
             \/ \E s \in Payload : HandleData(w, c, s)

ClientTask(w) == \E c \in Conns :
    \/ w = Ctrl("provider") /\ (DialSucceeds(c) \/ DialFails(c))
    \/ /\ toClient[w] # <<>>
       /\ \/ w = Ctrl("provider") /\ ProviderDials(c)
          \/ ClientHandleClose(w, c)
          \/ \E s \in Payload : ClientHandleData(w, c, s)

Next ==
    \/ \E w \in Links : FrpsTask(w) \/ ClientTask(w)
    \/ \E c \in Conns : UserConnect(c) \/ IdleSweep(c)
    \/ \E cl \in Clients :
          \/ ClientBreaks(cl) \/ ClientGone(cl)
          \/ \E c \in Conns : ForwardData(cl, c) \/ ForwardEnd(cl, c)

Spec == Init /\ [][Next]_vars

\* The event loops keep running their tasks.
Fairness ==
    /\ \A w \in Writers : WF_vars(FrpsTask(w)) /\ WF_vars(ClientTask(w))
    /\ \A cl \in Clients : WF_vars(ClientGone(cl))

FairSpec == Spec /\ Fairness

-----------------------------------------------------------------------------
(* Properties. *)

\* frps drops its entry of a connection only by telling the visitor, unless the
\* visitor is gone (and where it reads CLOSE on its control connection): no user is left on a connection frps has forgotten.
VisitorIsTold ==
    \A c \in Conns :
        writer["visitor"][c] # None /\ c \notin stcpConns /\ "visitor" \in up =>
            \/ end["visitor"][c] = "closed"
            \/ \E i \in 1..Len(toClient[Ctrl("visitor")]) :
                  toClient[Ctrl("visitor")][i] = Close(c)

\* A provider is linked only after it has dialled, and it is the writer of the
\* provider that is linked: a relayed chunk finds the service connected.
ProviderIsDialled ==
    \A c \in Conns :
        writer["provider"][c] # None =>
            writer["provider"][c][1] = "provider" /\ end["provider"][c] # "absent"

\* frps.py:1750: without sessions a provider that is gone has none of its
\* connections left.
ProviderGoneClosesConns ==
    ~mode.session /\ "provider" \notin serving => stcpConns = {}

\* The streams are compared where no client has a data channel: a client that
\* has one skips the DATA frps relays on control connections, and its own DATA
\* may overtake the messages that link it.
OnControl == mode.data = {}
Where(p, f, none) == [c \in Conns |-> IF p THEN f[c] ELSE none]

\* The visitor's stream is compared where no drain suspends either: a chunk that
\* comes while the flush of STCP_VISITOR_READY drains is sent behind a second
\* copy of what was buffered.
Steady == OnControl /\ ~mode.pauses

Upstream   == INSTANCE Pipe WITH sent <- Where(Steady, sent["visitor"], 0),
                                 got <- Where(Steady, got["provider"], <<>>)
Downstream == INSTANCE Pipe WITH sent <- Where(OnControl, sent["provider"], 0),
                                 got <- Where(OnControl, got["visitor"], <<>>)

\* In each direction the relay is a byte stream: chunks arrive in order, once,
\* without a gap, however they interleave with the linking of the two sides.
UpstreamIsPipe == Upstream!Spec
DownstreamIsPipe == Downstream!Spec

Ended(c) == up # Clients \/ \E cl \in Clients : end[cl][c] = "closed"

\* What one end writes reaches the other, as long as neither lets go: nothing
\* stays in a buffer once the provider has dialled.
RelayDelivers ==
    OnControl => []<>(\A c \in Conns, cl \in Clients :
                        Len(got[Other(cl)][c]) >= sent[cl][c] \/ Ended(c))

\* One end's leaving reaches the other, through the idle sweep: nothing else
\* tells frps.
Linked(c) == c \in stcpConns /\ \A cl \in Clients : writer[cl][c] # None

EndsTogether ==
    OnControl /\ (\A c \in Conns : WF_vars(IdleSweep(c))) =>
        \A c \in Conns :
            Linked(c) /\ Ended(c) ~>
                up # Clients \/ \A cl \in Clients : end[cl][c] = "closed"
=============================================================================
