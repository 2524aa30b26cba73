------------------------------- MODULE Tunnel -------------------------------
(***************************************************************************)
(* The life of a tunnelled connection, end to end: a user connects to a     *)
(* port of frps, frps announces the connection with NEW_CONN, frpc dials    *)
(* the local service and answers INIT_CONN, and both ends then copy chunks  *)
(* as DATA messages until one of them lets go.                             *)
(*                                                                         *)
(* One frpc session is modelled, with its control connection and, when the  *)
(* server has a data_port, its dedicated data connection. Both programs are *)
(* single-threaded asyncio: an action is what a coroutine does between two  *)
(* awaits that may really suspend it. A channel is the FIFO of messages in  *)
(* flight one way on one TCP connection; the two connections are not        *)
(* ordered with respect to each other.                                     *)
(***************************************************************************)
EXTENDS Integers, Sequences, FiniteSets

CONSTANTS
    Conns,          \* the connection ids users' connections are given
    HttpConns,      \* those that come in through the HTTP vhost port
    MaxChunks,      \* bound: chunks written at each end of a connection
    DrainPauses,    \* BOOLEAN: may a drain() of frps' control writer suspend?
    DataFails,      \* BOOLEAN: may the data channel time out, at setup or later?
    CtrlFails,      \* BOOLEAN: may the control connection break?
    None            \* no connection

ASSUME ConstantsAssumption ==
    /\ HttpConns \subseteq Conns
    /\ MaxChunks \in Nat
    /\ {DrainPauses, DataFails, CtrlFails} \subseteq BOOLEAN
    /\ None \notin Conns

VARIABLES
    \* The user of a public connection, and frps' socket to it.
    user,           \* "absent", "open", "left"
    userSent,       \* chunks the user has written
    userGot,        \* chunks written to the user, in order
    sock,           \* the public sockets frps holds open
    \* frps: FRPServer.
    task,           \* where the coroutine serving a public connection stands
    taken,          \* chunks that coroutine has read from the socket
    pool,           \* DOMAIN conn_pool
    clientWriter,   \* conn_info["client_writer"]: "none", "ctrl", "data"
    ready,          \* conn_info["client_ready"].is_set()
    counted,        \* the connections StatsManager counts as active
    registered,     \* the session's proxies are in proxies and http_proxies
    srvCtrl,        \* handle_control_conn still serves the session
    dataWriter,     \* session["data_writer"] is set
    dataOpen,       \* frps still serves the data connection
    \* frpc: FRPClient.
    cliCtrl,        \* handle_server_messages is running
    setup,          \* _connect_data_channel: "auth" while it waits, "done"
    dataUp,         \* data_writer is set and not closing
    dataReader,     \* handle_data_messages is running
    dialing,        \* the connection handle_new_conn is dialling, or None
    cpool,          \* DOMAIN state.conn_pool
    ctask,          \* forward_local_data: "none", "reading", "done"
    \* The local service of a connection.
    local,          \* "absent", "open", "left"
    localSent, localTaken, localGot,
    \* Messages in flight.
    ctrlUp,         \* the control connection carries messages
    toClient, toServer

usersVars == <<user, userSent, userGot, sock>>
frpsVars  == <<task, taken, pool, clientWriter, ready, counted>>
sessVars  == <<registered, srvCtrl, dataWriter, dataOpen>>
frpcVars  == <<cliCtrl, setup, dataUp, dataReader, dialing, cpool, ctask>>
localVars == <<local, localSent, localTaken, localGot>>
netVars   == <<ctrlUp, toClient, toServer>>

vars == <<usersVars, frpsVars, sessVars, frpcVars, localVars, netVars>>

Channel == {"ctrl", "data"}

Msg == [type : {"new", "init", "close"}, conn : Conns]
         \cup [type : {"data"}, conn : Conns, chunk : Nat]
         \cup [type : {"auth", "authResp"}]

NewConn(c)  == [type |-> "new",   conn |-> c]
InitConn(c) == [type |-> "init",  conn |-> c]
Close(c)    == [type |-> "close", conn |-> c]
Data(c, k)  == [type |-> "data",  conn |-> c, chunk |-> k]

\* Does a channel hold a message of this type for this connection?
Holds(q, t, c) ==
    \E i \in 1..Len(q) : q[i].type = t /\ q[i].conn = c

TypeOK ==
    /\ user \in [Conns -> {"absent", "open", "left"}]
    /\ userSent \in [Conns -> Nat] /\ userGot \in [Conns -> Seq(Nat)]
    /\ sock \subseteq Conns /\ pool \subseteq Conns /\ counted \subseteq Conns
    /\ task \in [Conns -> {"none", "accepted", "draining", "failed", "waiting",
                           "forwarding", "done"}]
    /\ taken \in [Conns -> Nat]
    /\ clientWriter \in [Conns -> Channel \cup {"none"}]
    /\ ready \in [Conns -> BOOLEAN]
    /\ registered \in BOOLEAN /\ srvCtrl \in BOOLEAN
    /\ dataWriter \in BOOLEAN /\ dataOpen \in BOOLEAN
    /\ cliCtrl \in BOOLEAN /\ ctrlUp \in BOOLEAN
    /\ dataUp \in BOOLEAN /\ dataReader \in BOOLEAN
    /\ setup \in {"auth", "done"}
    /\ dialing \in Conns \cup {None}
    /\ cpool \subseteq Conns
    /\ ctask \in [Conns -> {"none", "reading", "done"}]
    /\ local \in [Conns -> {"absent", "open", "left"}]
    /\ localSent \in [Conns -> Nat] /\ localTaken \in [Conns -> Nat]
    /\ localGot \in [Conns -> Seq(Nat)]
    /\ toClient \in [Channel -> Seq(Msg)]
    /\ toServer \in [Channel -> Seq(Msg)]

-----------------------------------------------------------------------------
(* Initially the session is logged in and its proxies are registered. When   *)
(* the server advertised a data_port, frpc has just sent DATA_AUTH and waits *)
(* for the answer before it reads the control connection.                   *)

Init ==
    /\ user = [c \in Conns |-> "absent"]
    /\ userSent = [c \in Conns |-> 0] /\ userGot = [c \in Conns |-> <<>>]
    /\ sock = {} /\ pool = {} /\ counted = {}
    /\ task = [c \in Conns |-> "none"]
    /\ taken = [c \in Conns |-> 0]
    /\ clientWriter = [c \in Conns |-> "none"]
    /\ ready = [c \in Conns |-> FALSE]
    /\ registered = TRUE /\ srvCtrl = TRUE /\ dataWriter = FALSE
    /\ cliCtrl = TRUE /\ dataUp = FALSE /\ dataReader = FALSE
    /\ dialing = None /\ cpool = {}
    /\ ctask = [c \in Conns |-> "none"]
    /\ local = [c \in Conns |-> "absent"]
    /\ localSent = [c \in Conns |-> 0] /\ localTaken = [c \in Conns |-> 0]
    /\ localGot = [c \in Conns |-> <<>>]
    /\ ctrlUp = TRUE
    /\ toClient = [ch \in Channel |-> <<>>]
    /\ \/ setup = "done" /\ dataOpen = FALSE
          /\ toServer = [ch \in Channel |-> <<>>]
       \/ setup = "auth" /\ dataOpen = TRUE
          /\ toServer = [ch \in Channel |->
                            IF ch = "data" THEN << [type |-> "auth"] >> ELSE <<>>]

-----------------------------------------------------------------------------
(* The user of a public connection. *)

UserConnect(c) ==
    /\ user[c] = "absent"
    /\ c \in HttpConns \/ registered
    /\ user' = [user EXCEPT ![c] = "open"]
    /\ sock' = sock \cup {c}
    /\ task' = [task EXCEPT ![c] = "accepted"]
    /\ UNCHANGED <<userSent, userGot, taken, pool, clientWriter, ready, counted,
                   sessVars, frpcVars, localVars, netVars>>

UserWrite(c) ==
    /\ user[c] = "open" /\ c \in sock /\ userSent[c] < MaxChunks
    /\ userSent' = [userSent EXCEPT ![c] = @ + 1]
    /\ UNCHANGED <<user, userGot, sock, frpsVars, sessVars, frpcVars, localVars,
                   netVars>>

UserLeave(c) ==
    /\ user[c] = "open"
    /\ user' = [user EXCEPT ![c] = "left"]
    /\ UNCHANGED <<userSent, userGot, sock, frpsVars, sessVars, frpcVars,
                   localVars, netVars>>

-----------------------------------------------------------------------------
(* frps: the coroutines that serve a public connection. *)

\* A write by frps to a channel; what is written to a broken connection is lost.
FrpsSend(ch, m) ==
    toClient' = IF ch = "ctrl" /\ ~ctrlUp
                THEN toClient
                ELSE [toClient EXCEPT ![ch] = Append(@, m)]

\* Writing and draining raises once the transport is closed.
WriterDead(ch) == IF ch = "ctrl" THEN ~srvCtrl ELSE ~dataOpen
WriterMayRaise(ch) ==
    \/ WriterDead(ch)
    \/ ch = "ctrl" /\ ~ctrlUp
    \/ ch = "data" /\ setup = "done" /\ ~dataUp

\* Faulty variant: close_conn forgets on_disconnect.
CloseConnUncounted(c) ==
    /\ pool' = pool \ {c} /\ UNCHANGED counted
    /\ sock' = IF c \in pool THEN sock \ {c} ELSE sock

\* Faulty variant: close_conn drops the entry and leaves the socket open.
CloseConnKeepsSocket(c) ==
    /\ pool' = pool \ {c} /\ counted' = counted \ {c} /\ UNCHANGED sock

CloseConn(c) ==
    /\ pool' = pool \ {c}
    /\ counted' = IF c \in pool THEN counted \ {c} ELSE counted
    /\ sock' = IF c \in pool THEN sock \ {c} ELSE sock

\* The drain of NEW_CONN raised: the socket is closed, and on_connect is not
\* taken back.
AnnounceFails(c) ==
    /\ sock' = sock \ {c}
    /\ task' = [task EXCEPT ![c] = "failed"]
    /\ UNCHANGED pool

\* NEW_CONN is written and drained, and only then is conn_pool filled: other
\* coroutines run in between when the drain suspends. On a connection that has
\* been reset the drain raises at once.
Announce(c) ==
    /\ counted' = counted \cup {c}
    /\ FrpsSend("ctrl", NewConn(c))
    /\ \/ /\ pool' = pool \cup {c}
          /\ task' = [task EXCEPT ![c] = "waiting"]
          /\ UNCHANGED sock
       \/ /\ DrainPauses
          /\ task' = [task EXCEPT ![c] = "draining"]
          /\ UNCHANGED <<pool, sock>>
       \/ WriterMayRaise("ctrl") /\ AnnounceFails(c)

RefuseConn(c) ==
    /\ sock' = sock \ {c}
    /\ task' = [task EXCEPT ![c] = "done"]
    /\ UNCHANGED <<pool, counted, toClient>>

HandleTcpProxyConn(c) ==
    /\ task[c] = "accepted" /\ c \notin HttpConns
    /\ IF registered THEN Announce(c) ELSE RefuseConn(c)
    /\ UNCHANGED <<user, userSent, userGot, taken, clientWriter, ready, sessVars,
                   frpcVars, localVars, ctrlUp, toServer>>

\* The request head is the user's first chunk; it is read before the routing.
HandleHttpVhostConn(c) ==
    /\ task[c] = "accepted" /\ c \in HttpConns
    /\ \/ /\ userSent[c] > 0
          /\ taken' = [taken EXCEPT ![c] = 1]
          /\ IF registered THEN Announce(c) ELSE RefuseConn(c)
       \/ userSent[c] = 0 /\ RefuseConn(c) /\ UNCHANGED taken
    /\ UNCHANGED <<user, userSent, userGot, clientWriter, ready, sessVars,
                   frpcVars, localVars, ctrlUp, toServer>>

\* Faulty variant: NEW_CONN is repeated when the drain was slow.
FinishDrainResends(c) ==
    /\ task[c] = "draining"
    /\ pool' = pool \cup {c}
    /\ task' = [task EXCEPT ![c] = "waiting"]
    /\ FrpsSend("ctrl", NewConn(c))
    /\ UNCHANGED <<user, userSent, userGot, sock, taken, clientWriter, ready,
                   counted, sessVars, frpcVars, localVars, ctrlUp, toServer>>

\* The drain returns, or raises because the control connection is gone.
FinishDrain(c) ==
    /\ task[c] = "draining"
    /\ \/ /\ pool' = pool \cup {c}
          /\ task' = [task EXCEPT ![c] = "waiting"]
          /\ UNCHANGED <<sock, counted, toClient>>
       \/ WriterMayRaise("ctrl") /\ AnnounceFails(c) /\ UNCHANGED <<counted, toClient>>
    /\ UNCHANGED <<user, userSent, userGot, taken, clientWriter, ready, sessVars,
                   frpcVars, localVars, ctrlUp, toServer>>

\* One DATA message to frpc; a failed write ends the connection.
Forward(c, k) ==
    LET ch == clientWriter[c] IN
    \/ /\ ~WriterDead(ch)
       /\ FrpsSend(ch, Data(c, k))
       /\ task' = [task EXCEPT ![c] = "forwarding"]
       /\ UNCHANGED <<pool, counted, sock>>
    \/ /\ WriterMayRaise(ch)
       /\ CloseConn(c)
       /\ task' = [task EXCEPT ![c] = "done"]
       /\ UNCHANGED toClient

\* client_ready is set: the request head kept by the HTTP handler goes first.
StartForwarding(c) ==
    /\ task[c] = "waiting" /\ ready[c]
    /\ IF c \in HttpConns THEN Forward(c, 1)
       ELSE /\ task' = [task EXCEPT ![c] = "forwarding"]
            /\ UNCHANGED <<pool, counted, sock, toClient>>
    /\ UNCHANGED <<user, userSent, userGot, taken, clientWriter, ready, sessVars,
                   frpcVars, localVars, ctrlUp, toServer>>

\* Faulty variant: the timeout only ends the task.
ReadyTimeoutKeepsConn(c) ==
    /\ task[c] = "waiting" /\ ~ready[c]
    /\ task' = [task EXCEPT ![c] = "done"]
    /\ UNCHANGED <<usersVars, taken, pool, clientWriter, ready, counted, sessVars,
                   frpcVars, localVars, netVars>>

ReadyTimeout(c) ==
    /\ task[c] = "waiting" /\ ~ready[c]
    /\ CloseConn(c)
    /\ task' = [task EXCEPT ![c] = "done"]
    /\ UNCHANGED <<user, userSent, userGot, taken, clientWriter, ready, sessVars,
                   frpcVars, localVars, netVars>>

ForwardProxyData(c) ==
    /\ task[c] = "forwarding" /\ taken[c] < userSent[c]
    /\ taken' = [taken EXCEPT ![c] = @ + 1]
    /\ Forward(c, taken[c] + 1)
    /\ UNCHANGED <<user, userSent, userGot, clientWriter, ready, sessVars,
                   frpcVars, localVars, ctrlUp, toServer>>

\* Faulty variant: the task ends without its finally block.
ForwardProxyEndUnclosed(c) ==
    /\ task[c] = "forwarding"
    /\ user[c] = "left" \/ taken[c] = userSent[c] \/ c \notin pool
    /\ task' = [task EXCEPT ![c] = "done"]
    /\ UNCHANGED <<usersVars, taken, pool, clientWriter, ready, counted, sessVars,
                   frpcVars, localVars, netVars>>

\* End of file, a reset, the idle timeout of the read, or frps' own close.
ForwardProxyEnd(c) ==
    /\ task[c] = "forwarding"
    /\ user[c] = "left" \/ taken[c] = userSent[c] \/ c \notin pool
    /\ CloseConn(c)
    /\ task' = [task EXCEPT ![c] = "done"]
    /\ UNCHANGED <<user, userSent, userGot, taken, clientWriter, ready, sessVars,
                   frpcVars, localVars, netVars>>

\* _cleanup_idle_connections, for one connection it finds idle.
IdleSweep(c) ==
    /\ c \in pool
    /\ CloseConn(c)
    /\ UNCHANGED <<user, userSent, userGot, task, taken, clientWriter, ready,
                   sessVars, frpcVars, localVars, netVars>>

-----------------------------------------------------------------------------
(* frps: the messages of frpc, taken from either connection. *)

\* Faulty variant: every message is handled by a task of its own, in any order.
FrpsReadsAny(ch, m) ==
    /\ IF ch = "ctrl" THEN srvCtrl ELSE dataOpen
    /\ \E i \in 1..Len(toServer[ch]) :
          /\ m = toServer[ch][i]
          /\ toServer' = [toServer EXCEPT
                 ![ch] = SubSeq(@, 1, i - 1) \o SubSeq(@, i + 1, Len(@))]

\* m is the next message frps reads on ch.
FrpsReads(ch, m) ==
    /\ IF ch = "ctrl" THEN srvCtrl ELSE dataOpen
    /\ toServer[ch] # <<>>
    /\ m = Head(toServer[ch])
    /\ toServer' = [toServer EXCEPT ![ch] = Tail(@)]

\* Faulty variant: the session's data_writer is used even when it is None.
HandleInitConnNoFallback(c) ==
    /\ FrpsReads("ctrl", InitConn(c))
    /\ IF c \in pool
       THEN /\ clientWriter' = [clientWriter EXCEPT
                                  ![c] = IF dataWriter THEN "data" ELSE None]
            /\ ready' = [ready EXCEPT ![c] = TRUE]
       ELSE UNCHANGED <<clientWriter, ready>>
    /\ UNCHANGED <<usersVars, task, taken, pool, counted, sessVars, frpcVars,
                   localVars, ctrlUp, toClient>>

HandleInitConn(c) ==
    /\ FrpsReads("ctrl", InitConn(c))
    /\ IF c \in pool
       THEN /\ clientWriter' = [clientWriter EXCEPT
                                  ![c] = IF dataWriter THEN "data" ELSE "ctrl"]
            /\ ready' = [ready EXCEPT ![c] = TRUE]
       ELSE UNCHANGED <<clientWriter, ready>>
    /\ UNCHANGED <<usersVars, task, taken, pool, counted, sessVars, frpcVars,
                   localVars, ctrlUp, toClient>>

HandleData(ch, c, k) ==
    /\ FrpsReads(ch, Data(c, k))
    /\ \/ c \notin pool /\ UNCHANGED <<userGot, clientWriter, pool, counted, sock>>
       \/ /\ c \in pool
          /\ clientWriter' = [clientWriter EXCEPT ![c] = IF @ = "none" THEN ch ELSE @]
          /\ \/ /\ user[c] = "open"
                /\ userGot' = [userGot EXCEPT ![c] = Append(@, k)]
                /\ UNCHANGED <<pool, counted, sock>>
             \/ /\ user[c] = "left"
                /\ CloseConn(c) \/ UNCHANGED <<pool, counted, sock>>
                /\ UNCHANGED userGot
    /\ UNCHANGED <<user, userSent, task, taken, ready, sessVars, frpcVars,
                   localVars, ctrlUp, toClient>>

HandleClose(ch, c) ==
    /\ FrpsReads(ch, Close(c))
    /\ CloseConn(c)
    /\ UNCHANGED <<user, userSent, userGot, task, taken, clientWriter, ready,
                   sessVars, frpcVars, localVars, ctrlUp, toClient>>

HandleDataAuth ==
    /\ FrpsReads("data", [type |-> "auth"])
    /\ dataWriter' = srvCtrl
    /\ dataOpen' = srvCtrl
    /\ IF srvCtrl THEN FrpsSend("data", [type |-> "authResp"]) ELSE UNCHANGED toClient
    /\ UNCHANGED <<usersVars, frpsVars, registered, srvCtrl, frpcVars, localVars,
                   ctrlUp>>

\* handle_data_conn returns: on its idle timeout, which loses what frpc has
\* sent and frps has not read, or at the end of the data connection.
DataConnEnds ==
    /\ dataOpen
    /\ \/ DataFails
       \/ setup = "done" /\ ~dataUp /\ toServer["data"] = <<>>
    /\ dataOpen' = FALSE /\ dataWriter' = FALSE
    /\ toServer' = [toServer EXCEPT !["data"] = <<>>]
    /\ UNCHANGED <<usersVars, frpsVars, registered, srvCtrl, frpcVars, localVars,
                   ctrlUp, toClient>>

\* Faulty variant: the proxies go, their connections stay.
ControlConnEndsKeepsConns ==
    /\ srvCtrl /\ ~ctrlUp
    /\ srvCtrl' = FALSE /\ registered' = FALSE
    /\ toServer' = [toServer EXCEPT !["ctrl"] = <<>>]
    /\ UNCHANGED <<usersVars, frpsVars, dataWriter, dataOpen, frpcVars, localVars,
                   ctrlUp, toClient>>

\* handle_control_conn returns: _remove_session and cleanup_client_by_writer.
\* _remove_proxy closes the connections of TCP proxies; an HTTP proxy is only
\* taken out of http_proxies, its connections stay in conn_pool.
ControlConnEnds ==
    /\ srvCtrl /\ ~ctrlUp
    /\ srvCtrl' = FALSE /\ registered' = FALSE
    /\ pool' = pool \cap HttpConns
    /\ counted' = counted \ (pool \ HttpConns)
    /\ sock' = sock \ (pool \ HttpConns)
    /\ toServer' = [toServer EXCEPT !["ctrl"] = <<>>]
    /\ UNCHANGED <<user, userSent, userGot, task, taken, clientWriter, ready,
                   dataWriter, dataOpen, frpcVars, localVars, ctrlUp, toClient>>

-----------------------------------------------------------------------------
(* frpc. *)

\* A write by frpc to the channel _data_writer_for picks. On a data connection
\* frps has closed the message is lost, and the reset may be noticed.
FrpcSend(m) ==
    IF dataUp
    THEN IF dataOpen
         THEN /\ toServer' = [toServer EXCEPT !["data"] = Append(@, m)]
              /\ UNCHANGED <<dataUp, dataReader>>
         ELSE /\ UNCHANGED toServer
              /\ \/ UNCHANGED <<dataUp, dataReader>>
                 \/ dataUp' = FALSE /\ dataReader' = FALSE
    ELSE /\ toServer' = IF ctrlUp /\ srvCtrl
                        THEN [toServer EXCEPT !["ctrl"] = Append(@, m)]
                        ELSE toServer
         /\ UNCHANGED <<dataUp, dataReader>>

\* Faulty variant: every message is handled by a task of its own, in any order.
FrpcReadsAny(ch, m) ==
    /\ IF ch = "ctrl" THEN cliCtrl /\ setup = "done" /\ dialing = None
                      ELSE dataReader
    /\ \E i \in 1..Len(toClient[ch]) :
          /\ m = toClient[ch][i]
          /\ toClient' = [toClient EXCEPT
                 ![ch] = SubSeq(@, 1, i - 1) \o SubSeq(@, i + 1, Len(@))]

\* m is the next message frpc reads on ch. The control connection is not read
\* while _connect_data_channel or a dial is being awaited.
FrpcReads(ch, m) ==
    /\ IF ch = "ctrl" THEN cliCtrl /\ setup = "done" /\ dialing = None
                      ELSE dataReader
    /\ toClient[ch] # <<>>
    /\ m = Head(toClient[ch])
    /\ toClient' = [toClient EXCEPT ![ch] = Tail(@)]

DataChannelUp ==
    /\ setup = "auth"
    /\ toClient["data"] # <<>>
    /\ Head(toClient["data"]).type = "authResp"
    /\ toClient' = [toClient EXCEPT !["data"] = Tail(@)]
    /\ setup' = "done" /\ dataUp' = TRUE /\ dataReader' = TRUE
    /\ UNCHANGED <<usersVars, frpsVars, sessVars, cliCtrl, dialing, cpool, ctask,
                   localVars, ctrlUp, toServer>>

\* The answer takes over ten seconds, or the server closes instead: the setup is
\* given up, with data_writer left set and nobody reading the connection.
DataChannelSetupFails ==
    /\ setup = "auth"
    /\ DataFails \/ (~dataOpen /\ toClient["data"] = <<>>)
    /\ setup' = "done" /\ dataUp' = TRUE
    /\ UNCHANGED <<usersVars, frpsVars, sessVars, cliCtrl, dataReader, dialing,
                   cpool, ctask, localVars, netVars>>

\* handle_data_messages reads the end of the data connection.
DataChannelEof ==
    /\ dataReader /\ ~dataOpen /\ toClient["data"] = <<>>
    /\ dataUp' = FALSE /\ dataReader' = FALSE
    /\ UNCHANGED <<usersVars, frpsVars, sessVars, cliCtrl, setup, dialing, cpool,
                   ctask, localVars, netVars>>

\* Faulty variant: INIT_CONN is answered before the local service is dialled.
HandleNewConnEarlyInit(c) ==
    /\ FrpcReads("ctrl", NewConn(c))
    /\ dialing' = c
    /\ toServer' = [toServer EXCEPT !["ctrl"] = Append(@, InitConn(c))]
    /\ UNCHANGED <<usersVars, frpsVars, sessVars, cliCtrl, setup, dataUp,
                   dataReader, cpool, ctask, localVars, ctrlUp>>

HandleNewConn(c) ==
    /\ FrpcReads("ctrl", NewConn(c))
    /\ dialing' = c
    /\ UNCHANGED <<usersVars, frpsVars, sessVars, cliCtrl, setup, dataUp,
                   dataReader, cpool, ctask, localVars, ctrlUp, toServer>>

\* The local service accepts: INIT_CONN goes out on the control connection. If
\* that write raises, CLOSE is sent and no task forwards the connection.
DialSucceeds(c) ==
    /\ dialing = c
    /\ dialing' = None
    /\ cpool' = cpool \cup {c}
    /\ local' = [local EXCEPT ![c] = "open"]
    /\ \/ /\ toServer' = IF ctrlUp /\ srvCtrl
                         THEN [toServer EXCEPT !["ctrl"] = Append(@, InitConn(c))]
                         ELSE toServer
          /\ ctask' = [ctask EXCEPT ![c] = "reading"]
          /\ UNCHANGED <<dataUp, dataReader>>
       \/ ~ctrlUp /\ FrpcSend(Close(c)) /\ UNCHANGED ctask
    /\ UNCHANGED <<usersVars, frpsVars, sessVars, cliCtrl, setup, localSent,
                   localTaken, localGot, ctrlUp, toClient>>

DialFails(c) ==
    /\ dialing = c
    /\ dialing' = None
    /\ FrpcSend(Close(c))
    /\ UNCHANGED <<usersVars, frpsVars, sessVars, cliCtrl, setup, cpool, ctask,
                   localVars, ctrlUp, toClient>>

\* DATA that arrives on the control connection is skipped while data_writer is
\* set; the local socket of a service that left may raise.
FrpcHandleData(ch, c, k) ==
    /\ FrpcReads(ch, Data(c, k))
    /\ \/ /\ (ch = "ctrl" /\ dataUp) \/ c \notin cpool
          /\ UNCHANGED <<localGot, cpool>>
       \/ /\ ~(ch = "ctrl" /\ dataUp) /\ c \in cpool
          /\ \/ /\ local[c] = "open"
                /\ localGot' = [localGot EXCEPT ![c] = Append(@, k)]
                /\ UNCHANGED cpool
             \/ /\ local[c] = "left"
                /\ cpool' = cpool \ {c} \/ UNCHANGED cpool
                /\ UNCHANGED localGot
    /\ UNCHANGED <<usersVars, frpsVars, sessVars, cliCtrl, setup, dataUp,
                   dataReader, dialing, ctask, local, localSent, localTaken,
                   ctrlUp, toServer>>

ForwardLocalData(c) ==
    /\ ctask[c] = "reading" /\ localTaken[c] < localSent[c]
    /\ localTaken' = [localTaken EXCEPT ![c] = @ + 1]
    /\ \/ FrpcSend(Data(c, localTaken[c] + 1)) /\ UNCHANGED <<cpool, ctask>>
       \/ /\ ~dataUp /\ ~ctrlUp
          /\ cpool' = cpool \ {c} /\ ctask' = [ctask EXCEPT ![c] = "done"]
          /\ UNCHANGED <<toServer, dataUp, dataReader>>
    /\ UNCHANGED <<usersVars, frpsVars, sessVars, cliCtrl, setup, dialing, local,
                   localSent, localGot, ctrlUp, toClient>>

\* The local service left, or close_conn closed its socket: nothing is sent.
ForwardLocalEnd(c) ==
    /\ ctask[c] = "reading"
    /\ local[c] = "left" \/ c \notin cpool
    /\ cpool' = cpool \ {c}
    /\ ctask' = [ctask EXCEPT ![c] = "done"]
    /\ UNCHANGED <<usersVars, frpsVars, sessVars, cliCtrl, setup, dataUp,
                   dataReader, dialing, localVars, netVars>>

\* handle_server_messages reads the end of the control connection, and
\* _connect_and_run closes the data channel. state.conn_pool is left alone.
ServerMessagesEnd ==
    /\ cliCtrl /\ ~ctrlUp /\ setup = "done" /\ dialing = None
    /\ cliCtrl' = FALSE /\ dataUp' = FALSE /\ dataReader' = FALSE
    /\ toClient' = [ch \in Channel |-> <<>>]
    /\ UNCHANGED <<usersVars, frpsVars, sessVars, setup, dialing, cpool, ctask,
                   localVars, ctrlUp, toServer>>

-----------------------------------------------------------------------------
(* The local service, and the network. *)

LocalWrite(c) ==
    /\ local[c] = "open" /\ c \in cpool /\ localSent[c] < MaxChunks
    /\ localSent' = [localSent EXCEPT ![c] = @ + 1]
    /\ UNCHANGED <<usersVars, frpsVars, sessVars, frpcVars, local, localTaken,
                   localGot, netVars>>

LocalLeave(c) ==
    /\ local[c] = "open"
    /\ local' = [local EXCEPT ![c] = "left"]
    /\ UNCHANGED <<usersVars, frpsVars, sessVars, frpcVars, localSent, localTaken,
                   localGot, netVars>>

ControlBreaks ==
    /\ CtrlFails /\ ctrlUp
    /\ ctrlUp' = FALSE
    /\ UNCHANGED <<usersVars, frpsVars, sessVars, frpcVars, localVars, toClient,
                   toServer>>

-----------------------------------------------------------------------------

Chunk == 1..MaxChunks

Users == \E c \in Conns :
    UserConnect(c) \/ UserWrite(c) \/ UserLeave(c) \/ LocalWrite(c) \/ LocalLeave(c)

FrpsConn(c) ==
    \/ HandleTcpProxyConn(c) \/ HandleHttpVhostConn(c) \/ FinishDrain(c)
    \/ StartForwarding(c) \/ ReadyTimeout(c)
    \/ ForwardProxyData(c) \/ ForwardProxyEnd(c)

FrpsCtrl == \E c \in Conns :
    \/ HandleInitConn(c) \/ HandleClose("ctrl", c)
    \/ \E k \in Chunk : HandleData("ctrl", c, k)

FrpsData ==
    \/ HandleDataAuth
    \/ \E c \in Conns : HandleClose("data", c) \/ \E k \in Chunk : HandleData("data", c, k)

FrpcCtrl == \E c \in Conns :
    \/ HandleNewConn(c) \/ DialSucceeds(c) \/ DialFails(c)
    \/ \E k \in Chunk : FrpcHandleData("ctrl", c, k)

FrpcData ==
    \/ DataChannelUp \/ DataChannelSetupFails \/ DataChannelEof
    \/ \E c \in Conns, k \in Chunk : FrpcHandleData("data", c, k)

FrpcConn(c) == ForwardLocalData(c) \/ ForwardLocalEnd(c)

Next ==
    \/ Users
    \/ \E c \in Conns : FrpsConn(c) \/ IdleSweep(c) \/ FrpcConn(c)
    \/ FrpsCtrl \/ FrpsData \/ FrpcCtrl \/ FrpcData
    \/ DataConnEnds \/ ControlBreaks \/ ControlConnEnds \/ ServerMessagesEnd

Spec == Init /\ [][Next]_vars

\* The event loops keep running their tasks and firing their timers; users,
\* services and failures owe nothing.
Fairness ==
    /\ \A c \in Conns : WF_vars(FrpsConn(c)) /\ WF_vars(FrpcConn(c))
    /\ WF_vars(FrpsCtrl) /\ WF_vars(FrpsData)
    /\ WF_vars(FrpcCtrl) /\ WF_vars(FrpcData)
    /\ WF_vars(ControlConnEnds) /\ WF_vars(ServerMessagesEnd)

FairSpec == Spec /\ Fairness

-----------------------------------------------------------------------------
(* Properties. *)

\* A user's bytes reach frpc only once the local service has been connected:
\* no DATA for a connection is in flight to frpc before its dial succeeded.
DataFollowsDial ==
    \A c \in Conns, ch \in Channel :
        Holds(toClient[ch], "data", c) => local[c] # "absent"

\* Everything in conn_pool is a socket frps holds open and has a forwarding
\* task behind it, which is what closes it after its timeouts.
PoolIsTended ==
    \A c \in pool : c \in sock /\ task[c] \in {"waiting", "forwarding"}

\* frps holds no public socket that neither conn_pool nor a coroutine that is
\* still accepting it accounts for.
NoOrphanSocket ==
    \A c \in sock : c \in pool \/ task[c] \in {"accepted", "draining"}

\* A user's connection is announced to frpc at most once: no second dial.
AnnouncedOnce ==
    \A c \in Conns :
        /\ dialing = c \/ local[c] # "absent" => ~Holds(toClient["ctrl"], "new", c)
        /\ \A i, j \in 1..Len(toClient["ctrl"]) :
               toClient["ctrl"][i] = NewConn(c) /\ toClient["ctrl"][j] = NewConn(c)
                   => i = j

\* StatsManager counts as active what is pooled or being announced and, for
\* ever, the connections whose NEW_CONN could not be drained; nothing else, and
\* none of these is forgotten.
StatsFollowPool ==
    \A c \in Conns :
        c \in counted <=> c \in pool \/ task[c] \in {"draining", "failed"}

\* The connections of a client's TCP proxies are gone once the proxies are.
TcpConnsEndWithProxy == registered \/ pool \subseteq HttpConns

Upstream   == INSTANCE Pipe WITH sent <- userSent, got <- localGot
Downstream == INSTANCE Pipe WITH sent <- localSent, got <- userGot

\* In each direction the tunnel is a byte stream: chunks arrive in order, once,
\* without a gap.
UpstreamIsPipe == Upstream!Spec
DownstreamIsPipe == Downstream!Spec

\* Every public socket frps accepts is closed again: whatever becomes of frpc,
\* the local service or the user, nothing stays in conn_pool for ever.
SocketsAreFreed == \A c \in Conns : c \in sock ~> c \notin sock
=============================================================================
