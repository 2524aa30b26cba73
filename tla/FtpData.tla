------------------------------ MODULE FtpData -------------------------------
(***************************************************************************)
(* The data connections of an FTP proxy. The FTP server behind frpc answers  *)
(* PASV with a port of its own; frps takes the answer out of the DATA        *)
(* stream of the FTP control connection, opens a listener on a public port,  *)
(* tells frpc with FTP_NEW_DATA to dial the internal one, and sends the user *)
(* the answer with the public port instead. What then travels between the    *)
(* user and the FTP server are DATA messages under the id of the data        *)
(* connection.                                                              *)
(*                                                                         *)
(* One control connection of one user is modelled, over which several data   *)
(* connections are asked for, and one frpc session, with or without a data   *)
(* channel that stays up. The user opens each public port once, after it has *)
(* been told. ftp_data_conns of the control connection is left out: it is    *)
(* written and never read.                                                  *)
(***************************************************************************)
EXTENDS Integers, Sequences

CONSTANTS
    Conns,          \* data_conn_id values
    MaxChunks,      \* bound: chunks written at each end of a data connection
    None            \* no connection

ASSUME ConstantsAssumption == MaxChunks \in Nat /\ None \notin Conns

VARIABLES
    dataChannel,    \* BOOLEAN, fixed: the session has a data channel
    up,             \* frps and frpc are connected
    toClient, toServer,     \* the messages in flight, per connection
    \* frps.
    ctrl,           \* the FTP control connection is in conn_pool
    entry,          \* DOMAIN ftp_data_ports
    listening,      \* the data connections with a listener
    creating,       \* where _create_ftp_data_listener stands
    announced,      \* those whose port the user has been told
    task,           \* task[d]: where _handle_ftp_data_conn stands
    proxyWriter,    \* those with data_info["proxy_writer"]
    buffer,         \* data_info["buffer"]
    clientWriter,   \* data_info["client_writer"]: "none", "ctrl", "data"
    ready,          \* those with ready_event set
    \* frpc.
    dialing,        \* the connection handle_ftp_new_data dials, or None
    cconns,         \* DOMAIN state.ftp_data_conns
    reading,        \* those _forward_ftp_data_to_server runs for
    \* The user's end and the FTP server's end of a data connection.
    user, userSent, userTaken, userGot,
    local, localSent, localTaken, localGot

linkVars  == <<dataChannel, up, toClient, toServer>>
portVars  == <<ctrl, entry, listening, creating, announced>>
infoVars  == <<proxyWriter, buffer, clientWriter, ready>>
frpcVars  == <<dialing, cconns, reading>>
userVars  == <<user, userSent, userTaken, userGot>>
localVars == <<local, localSent, localTaken, localGot>>
vars == <<linkVars, portVars, task, infoVars, frpcVars, userVars, localVars>>

Link == {"ctrl", "data"}

Msg == [type : {"pasv"}]
         \cup [type : {"newData", "ready", "close"}, conn : Conns]
         \cup [type : {"data"}, conn : Conns, chunk : 1..MaxChunks]

Pasv       == [type |-> "pasv"]
NewData(d) == [type |-> "newData", conn |-> d]
Ready(d)   == [type |-> "ready",   conn |-> d]
Close(d)   == [type |-> "close",   conn |-> d]
Data(d, k) == [type |-> "data",    conn |-> d, chunk |-> k]

Idle == [at |-> "idle", conn |-> None]

TypeOK ==
    /\ {dataChannel, up, ctrl} \subseteq BOOLEAN
    /\ {toClient, toServer} \subseteq [Link -> Seq(Msg)]
    /\ listening \subseteq entry /\ entry \subseteq Conns
    /\ creating \in [at : {"idle", "binding", "draining"}, conn : Conns \cup {None}]
    /\ announced \subseteq Conns
    /\ task \in [Conns -> {"none", "waiting", "forwarding", "closing", "done"}]
    /\ proxyWriter \subseteq Conns /\ ready \subseteq Conns
    /\ buffer \in [Conns -> Seq(1..MaxChunks)]
    /\ clientWriter \in [Conns -> Link \cup {"none"}]
    /\ dialing \in Conns \cup {None} /\ reading \subseteq Conns /\ cconns \subseteq Conns
    /\ user \in [Conns -> {"none", "open", "left"}]
    /\ local \in [Conns -> {"none", "open", "left"}]
    /\ {userSent, userTaken, localSent, localTaken} \subseteq [Conns -> 0..MaxChunks]
    /\ {userGot, localGot} \subseteq [Conns -> Seq(1..MaxChunks)]

Init ==
    /\ dataChannel \in BOOLEAN
    /\ up = TRUE /\ ctrl = TRUE /\ creating = Idle /\ dialing = None
    /\ toClient = [l \in Link |-> <<>>] /\ toServer = [l \in Link |-> <<>>]
    /\ entry = {} /\ listening = {} /\ announced = {} /\ proxyWriter = {} /\ ready = {}
    /\ cconns = {} /\ reading = {}
    /\ task = [d \in Conns |-> "none"]
    /\ buffer = [d \in Conns |-> <<>>]
    /\ clientWriter = [d \in Conns |-> "none"]
    /\ user = [d \in Conns |-> "none"] /\ local = [d \in Conns |-> "none"]
    /\ userSent = [d \in Conns |-> 0] /\ userTaken = [d \in Conns |-> 0]
    /\ localSent = [d \in Conns |-> 0] /\ localTaken = [d \in Conns |-> 0]
    /\ userGot = [d \in Conns |-> <<>>] /\ localGot = [d \in Conns |-> <<>>]

\* What is written to a broken connection is lost.
Sent(queues, link, msg) ==
    IF up THEN [queues EXCEPT ![link] = Append(@, msg)] ELSE queues

\* _data_writer_for of frpc.
DataLink == IF dataChannel THEN "data" ELSE "ctrl"

Reads(queues, link, msg) == queues[link] # <<>> /\ msg = Head(queues[link])

-----------------------------------------------------------------------------
(* frps: opening a data connection. The handler of the PASV answer awaits the *)
(* bind and the drain; the connection the answer came on is not read          *)
(* meanwhile.                                                               *)

FrpsReads(link, msg) ==
    /\ creating = Idle \/ link # DataLink
    /\ Reads(toServer, link, msg)
    /\ toServer' = [toServer EXCEPT ![link] = Tail(@)]

\* A port is found and the entry made; without a control connection in
\* conn_pool, or without a free port, the answer is left alone.
HandlePasv ==
    /\ FrpsReads(DataLink, Pasv)
    /\ \/ UNCHANGED <<entry, creating>>
       \/ \E d \in Conns :
             /\ ctrl /\ task[d] = "none" /\ d \notin entry \cup cconns
             /\ entry' = entry \cup {d}
             /\ creating' = [at |-> "binding", conn |-> d]
    /\ UNCHANGED <<dataChannel, up, toClient, ctrl, listening, announced, task,
                   infoVars, frpcVars, userVars, localVars>>

\* The port may have been taken since it was found free.
BindFails(d) ==
    /\ creating = [at |-> "binding", conn |-> d]
    /\ entry' = entry \ {d} /\ creating' = Idle
    /\ UNCHANGED <<linkVars, ctrl, listening, announced, task, infoVars, frpcVars,
                   userVars, localVars>>

BindSucceeds(d) ==
    /\ creating = [at |-> "binding", conn |-> d]
    /\ listening' = listening \cup {d}
    /\ creating' = [at |-> "draining", conn |-> d]
    /\ toClient' = Sent(toClient, "ctrl", NewData(d))
    /\ UNCHANGED <<dataChannel, up, toServer, ctrl, entry, announced, task, infoVars,
                   frpcVars, userVars, localVars>>

\* The user gets the answer if its control connection is still there.
Announce(d) ==
    /\ creating = [at |-> "draining", conn |-> d]
    /\ creating' = Idle
    /\ announced' = IF ctrl THEN announced \cup {d} ELSE announced
    /\ UNCHANGED <<linkVars, ctrl, entry, listening, task, infoVars, frpcVars,
                   userVars, localVars>>

SendNewDataFails(d) ==
    /\ creating = [at |-> "draining", conn |-> d] /\ ~up
    /\ creating' = Idle
    /\ entry' = entry \ {d} /\ listening' = listening \ {d}
    /\ UNCHANGED <<linkVars, ctrl, announced, task, infoVars, frpcVars, userVars,
                   localVars>>

-----------------------------------------------------------------------------
(* frps: _handle_ftp_data_conn and the messages of a data connection.       *)

\* Faulty variant: the early data is put out of the way, not written.
UserConnectsForgets(d) ==
    /\ user[d] = "none" /\ d \in announced \cap listening
    /\ user' = [user EXCEPT ![d] = "open"]
    /\ task' = [task EXCEPT ![d] = "waiting"]
    /\ proxyWriter' = proxyWriter \cup {d}
    /\ buffer' = [buffer EXCEPT ![d] = <<>>]
    /\ UNCHANGED <<linkVars, portVars, clientWriter, ready, frpcVars, userSent,
                   userTaken, userGot, localVars>>

UserConnects(d) ==
    /\ user[d] = "none" /\ d \in announced \cap listening
    /\ user' = [user EXCEPT ![d] = "open"]
    /\ task' = [task EXCEPT ![d] = "waiting"]
    /\ proxyWriter' = proxyWriter \cup {d}
    /\ userGot' = [userGot EXCEPT ![d] = @ \o buffer[d]]
    /\ buffer' = [buffer EXCEPT ![d] = <<>>]
    /\ UNCHANGED <<linkVars, portVars, clientWriter, ready, frpcVars, userSent,
                   userTaken, localVars>>

StartForwarding(d) ==
    /\ task[d] = "waiting" /\ d \in ready
    /\ task' = [task EXCEPT ![d] = "forwarding"]
    /\ UNCHANGED <<linkVars, portVars, infoVars, frpcVars, userVars, localVars>>

\* Thirty seconds without FTP_DATA_READY: only the user's socket is closed.
ReadyTimeout(d) ==
    /\ task[d] = "waiting" /\ d \notin ready
    /\ task' = [task EXCEPT ![d] = "done"]
    /\ UNCHANGED <<linkVars, portVars, infoVars, frpcVars, userVars, localVars>>

ForwardUser(d) ==
    /\ task[d] = "forwarding" /\ userTaken[d] < userSent[d]
    /\ userTaken' = [userTaken EXCEPT ![d] = @ + 1]
    /\ toClient' = Sent(toClient, clientWriter[d], Data(d, userTaken[d] + 1))
    /\ UNCHANGED <<dataChannel, up, toServer, portVars, task, infoVars, frpcVars,
                   user, userSent, userGot, localVars>>

\* Faulty variant: the finally block ends without the CLOSE.
ForwardUserEndsSilently(d) ==
    /\ task[d] = "forwarding"
    /\ (user[d] = "left" /\ userTaken[d] = userSent[d]) \/ ~up
    /\ task' = [task EXCEPT ![d] = "closing"]
    /\ UNCHANGED <<linkVars, portVars, infoVars, frpcVars, userVars, localVars>>

\* The user's stream has ended, or a write to frpc raised. The CLOSE is written,
\* the user's socket closed, and that it is closed awaited.
ForwardUserEnds(d) ==
    /\ task[d] = "forwarding"
    /\ (user[d] = "left" /\ userTaken[d] = userSent[d]) \/ ~up
    /\ task' = [task EXCEPT ![d] = "closing"]
    /\ toClient' = Sent(toClient, clientWriter[d], Close(d))
    /\ UNCHANGED <<dataChannel, up, toServer, portVars, infoVars, frpcVars, userVars,
                   localVars>>

\* Only then the entry and the listener go.
ForwardUserEnded(d) ==
    /\ task[d] = "closing"
    /\ task' = [task EXCEPT ![d] = "done"]
    /\ entry' = entry \ {d} /\ listening' = listening \ {d}
    /\ UNCHANGED <<linkVars, ctrl, creating, announced, infoVars, frpcVars, userVars,
                   localVars>>

\* client_writer becomes the connection the message came on, whichever carries
\* the data.
HandleDataReady(d) ==
    /\ FrpsReads("ctrl", Ready(d))
    /\ IF d \in entry
       THEN /\ clientWriter' = [clientWriter EXCEPT ![d] = "ctrl"]
            /\ ready' = ready \cup {d}
       ELSE UNCHANGED <<clientWriter, ready>>
    /\ UNCHANGED <<dataChannel, up, toClient, portVars, task, proxyWriter, buffer,
                   frpcVars, userVars, localVars>>

\* Faulty variant: what comes later is put before what is kept.
HandleDataPrepends(d, k) ==
    /\ FrpsReads(DataLink, Data(d, k))
    /\ d \in entry
    /\ clientWriter' = [clientWriter EXCEPT ![d] = IF @ = "none" THEN DataLink ELSE @]
    /\ buffer' = IF d \in proxyWriter THEN buffer
                 ELSE [buffer EXCEPT ![d] = <<k>> \o @]
    /\ userGot' = IF user[d] = "open" /\ task[d] # "done" /\ d \in proxyWriter
                  THEN [userGot EXCEPT ![d] = Append(@, k)] ELSE userGot
    /\ UNCHANGED <<dataChannel, up, toClient, portVars, task, proxyWriter, ready,
                   frpcVars, user, userSent, userTaken, localVars>>

\* Data that comes before the user is kept for it. A writer that has been closed
\* takes what is written and drops it.
HandleData(d, k) ==
    /\ FrpsReads(DataLink, Data(d, k))
    /\ \/ d \notin entry /\ UNCHANGED <<clientWriter, buffer, userGot>>
       \/ /\ d \in entry
          /\ clientWriter' = [clientWriter EXCEPT ![d] = IF @ = "none" THEN DataLink ELSE @]
          /\ buffer' = IF d \in proxyWriter THEN buffer
                       ELSE [buffer EXCEPT ![d] = Append(@, k)]
          /\ userGot' = IF user[d] = "open" /\ task[d] \notin {"closing", "done"}
                        THEN [userGot EXCEPT ![d] = Append(@, k)] ELSE userGot
    /\ UNCHANGED <<dataChannel, up, toClient, portVars, task, proxyWriter, ready,
                   frpcVars, user, userSent, userTaken, localVars>>

-----------------------------------------------------------------------------
(* frpc. Its reader of the control connection awaits the dial.              *)

FrpcReads(link, msg) ==
    /\ link = "data" \/ dialing = None
    /\ Reads(toClient, link, msg)
    /\ toClient' = [toClient EXCEPT ![link] = Tail(@)]

HandleFtpNewData(d) ==
    /\ FrpcReads("ctrl", NewData(d))
    /\ dialing' = d
    /\ UNCHANGED <<dataChannel, up, toServer, portVars, task, infoVars, cconns,
                   reading, userVars, localVars>>

\* The write of FTP_DATA_READY may raise; the entry then stays, with nobody
\* reading its connection.
DialSucceeds(d) ==
    /\ dialing = d /\ dialing' = None
    /\ cconns' = cconns \cup {d}
    /\ local' = [local EXCEPT ![d] = "open"]
    /\ toServer' = Sent(toServer, "ctrl", Ready(d))
    /\ \/ reading' = reading \cup {d}
       \/ ~up /\ UNCHANGED reading
    /\ UNCHANGED <<dataChannel, up, toClient, portVars, task, infoVars, userVars,
                   localSent, localTaken, localGot>>

\* frps is not told.
DialFails(d) ==
    /\ dialing = d /\ dialing' = None
    /\ UNCHANGED <<linkVars, portVars, task, infoVars, cconns, reading, userVars,
                   localVars>>

\* While there is a data channel, DATA and CLOSE on the control connection are
\* skipped. A write to a service that has left may raise.
FrpcHandleData(link, d, k) ==
    /\ FrpcReads(link, Data(d, k))
    /\ \/ /\ link # DataLink \/ d \notin cconns
          /\ UNCHANGED <<localGot, cconns>>
       \/ /\ link = DataLink /\ d \in cconns /\ local[d] = "open"
          /\ localGot' = [localGot EXCEPT ![d] = Append(@, k)]
          /\ UNCHANGED cconns
       \/ /\ link = DataLink /\ d \in cconns /\ local[d] = "left"
          /\ cconns' \in {cconns, cconns \ {d}}
          /\ UNCHANGED localGot
    /\ UNCHANGED <<dataChannel, up, toServer, portVars, task, infoVars, dialing,
                   reading, userVars, local, localSent, localTaken>>

FrpcHandleClose(link, d) ==
    /\ FrpcReads(link, Close(d))
    /\ cconns' = IF link = DataLink THEN cconns \ {d} ELSE cconns
    /\ UNCHANGED <<dataChannel, up, toServer, portVars, task, infoVars, dialing,
                   reading, userVars, localVars>>

ForwardLocal(d) ==
    /\ d \in reading /\ d \in cconns /\ localTaken[d] < localSent[d]
    /\ localTaken' = [localTaken EXCEPT ![d] = @ + 1]
    /\ toServer' = Sent(toServer, DataLink, Data(d, localTaken[d] + 1))
    /\ UNCHANGED <<dataChannel, up, toClient, portVars, task, infoVars, frpcVars,
                   userVars, local, localSent, localGot>>

\* The end of the file, the socket closed by a CLOSE, or a write that raised.
\* frps is not told.
ForwardLocalEnds(d) ==
    /\ d \in reading
    /\ \/ d \notin cconns
       \/ local[d] = "left" /\ localTaken[d] = localSent[d]
       \/ ~up
    /\ reading' = reading \ {d} /\ cconns' = cconns \ {d}
    /\ UNCHANGED <<linkVars, portVars, task, infoVars, dialing, userVars, localVars>>

-----------------------------------------------------------------------------
(* The FTP server, the user, and the connection between frps and frpc.      *)

\* The FTP server answers PASV on its control connection.
PasvAnswer ==
    /\ up /\ ctrl
    /\ ~\E i \in 1..Len(toServer[DataLink]) : toServer[DataLink][i] = Pasv
    /\ \E d \in Conns : task[d] = "none" /\ d \notin entry
    /\ toServer' = [toServer EXCEPT ![DataLink] = Append(@, Pasv)]
    /\ UNCHANGED <<dataChannel, up, toClient, portVars, task, infoVars, frpcVars,
                   userVars, localVars>>

LocalWrites(d) ==
    /\ local[d] = "open" /\ d \in cconns /\ localSent[d] < MaxChunks
    /\ localSent' = [localSent EXCEPT ![d] = @ + 1]
    /\ UNCHANGED <<linkVars, portVars, task, infoVars, frpcVars, userVars, local,
                   localTaken, localGot>>

LocalLeaves(d) ==
    /\ local[d] = "open"
    /\ local' = [local EXCEPT ![d] = "left"]
    /\ UNCHANGED <<linkVars, portVars, task, infoVars, frpcVars, userVars, localSent,
                   localTaken, localGot>>

UserWrites(d) ==
    /\ user[d] = "open" /\ task[d] \notin {"closing", "done"} /\ userSent[d] < MaxChunks
    /\ userSent' = [userSent EXCEPT ![d] = @ + 1]
    /\ UNCHANGED <<linkVars, portVars, task, infoVars, frpcVars, user, userTaken,
                   userGot, localVars>>

UserLeaves(d) ==
    /\ user[d] = "open"
    /\ user' = [user EXCEPT ![d] = "left"]
    /\ UNCHANGED <<linkVars, portVars, task, infoVars, frpcVars, userSent, userTaken,
                   userGot, localVars>>

\* The FTP control connection leaves conn_pool. Its data connections are not
\* looked at.
ControlConnCloses ==
    /\ ctrl
    /\ ctrl' = FALSE
    /\ UNCHANGED <<linkVars, entry, listening, creating, announced, task, infoVars,
                   frpcVars, userVars, localVars>>

\* The control connection of frpc breaks, and with the session its proxy and
\* the proxy's connections go; ftp_data_ports and state.ftp_data_conns stay.
LinkBreaks ==
    /\ up
    /\ up' = FALSE /\ ctrl' = FALSE
    /\ toClient' = [l \in Link |-> <<>>] /\ toServer' = [l \in Link |-> <<>>]
    /\ UNCHANGED <<dataChannel, entry, listening, creating, announced, task, infoVars,
                   frpcVars, userVars, localVars>>

-----------------------------------------------------------------------------

Chunk == 1..MaxChunks

\* The coroutine of a PASV answer, the readers of the two connections at each
\* end, and the coroutines of a data connection.
FrpsCreates == \E d \in Conns :
    BindFails(d) \/ BindSucceeds(d) \/ Announce(d) \/ SendNewDataFails(d)

FrpsReader == HandlePasv \/ \E d \in Conns, k \in Chunk : HandleData(d, k)
FrpsReady  == \E d \in Conns : HandleDataReady(d)

FrpsConn(d) ==
    \/ StartForwarding(d) \/ ReadyTimeout(d) \/ ForwardUser(d)
    \/ ForwardUserEnds(d) \/ ForwardUserEnded(d)

FrpcDials == \E d \in Conns :
    HandleFtpNewData(d) \/ DialSucceeds(d) \/ DialFails(d)

FrpcReader(link) == \E d \in Conns :
    FrpcHandleClose(link, d) \/ \E k \in Chunk : FrpcHandleData(link, d, k)

FrpcConn(d) == ForwardLocal(d) \/ ForwardLocalEnds(d)

Next ==
    \/ FrpsCreates \/ FrpsReader \/ FrpsReady \/ FrpcDials
    \/ \E link \in Link : FrpcReader(link)
    \/ PasvAnswer \/ ControlConnCloses \/ LinkBreaks
    \/ \E d \in Conns :
          \/ UserConnects(d) \/ FrpsConn(d) \/ FrpcConn(d)
          \/ LocalWrites(d) \/ LocalLeaves(d) \/ UserWrites(d) \/ UserLeaves(d)

Spec == Init /\ [][Next]_vars

\* The event loops keep running their tasks; users, servers and failures owe
\* nothing. The next message of a connection stays the next until it is read.
Fairness ==
    /\ WF_vars(FrpsCreates) /\ WF_vars(FrpsReader) /\ WF_vars(FrpsReady)
    /\ WF_vars(FrpcDials) /\ \A link \in Link : WF_vars(FrpcReader(link))
    /\ \A d \in Conns : WF_vars(FrpsConn(d)) /\ WF_vars(FrpcConn(d))

FairSpec == Spec /\ Fairness

-----------------------------------------------------------------------------
(* Properties. *)

Download == INSTANCE Pipe WITH sent <- localSent, got <- userGot
Upload   == INSTANCE Pipe WITH sent <- userSent, got <- localGot

\* A data connection is a byte stream each way: what frps kept for a user that
\* connects late comes before what arrives later, and nothing comes twice.
TransfersArePipes == Download!Spec /\ Upload!Spec

\* frpc closed its connection to the FTP server before it had read everything:
\* a write to a server that had left raised.
CutShort(d) == d \notin cconns /\ localTaken[d] < localSent[d]

\* A download reaches its user: whoever of the user and FTP_DATA_READY is
\* first, a user that stays gets what the server has written.
DownloadDelivers ==
    \A d \in Conns :
        user[d] = "open" /\ localSent[d] > Len(userGot[d])
            ~> \/ localSent[d] = Len(userGot[d]) \/ user[d] = "left" \/ task[d] = "done"
               \/ ~up \/ CutShort(d)

\* A user whose connection is being forwarded and that leaves takes everything
\* of the data connection with it: entry, listener and the dialled connection.
\* With a data channel the CLOSE goes to a connection where frpc skips it.
LeavingEndsAll ==
    \A d \in Conns :
        task[d] = "forwarding" /\ user[d] = "left" /\ ~dataChannel
            ~> d \notin entry \cup listening /\ (d \notin cconns \/ ~up)
=============================================================================
