------------------------------ MODULE Session -------------------------------
(***************************************************************************)
(* The life of one frpc at one frps: frpc connects, logs in, registers its  *)
(* proxy and reads messages until the control connection ends, then tries   *)
(* again. frps keeps a session for each connection that has logged in, and  *)
(* its administrators send remote commands to sessions and wait for the     *)
(* answers.                                                                *)
(*                                                                         *)
(* The two ends learn of a broken connection independently of each other:   *)
(* frpc may have reconnected while frps still serves the connection before. *)
(* The connections of the process are numbered in the order frpc opens them.*)
(***************************************************************************)
EXTENDS Integers, Sequences, SequencesExt

CONSTANTS
    MaxRetries,     \* reconnect_max_retries
    Cmds            \* cmd_id values

ASSUME ConstantsAssumption == MaxRetries \in Nat \ {0}

\* No successful session resets the count of retries.
Gens == 1..(MaxRetries + 1)
NoGen == 0

VARIABLES
    prompt,         \* BOOLEAN, fixed: frps learns of the end of a connection
                    \* before frpc opens the next one
    tokenOk,        \* BOOLEAN, fixed: the clients have the token of the server
    portFree,       \* BOOLEAN, fixed: nobody else on the host takes remote_port
    link,           \* link[g]: "none", "up", "broken"
    \* frpc.
    phase,          \* where start() and _connect_and_run() are
    gen,            \* control_reader, control_writer: the latest connection
    retries,        \* retry_count
    executing,      \* the remote commands the reader task is executing: at most one
    \* frps.
    serving,        \* connections handle_control_conn is running for
    sessions,       \* those with a session
    owner,          \* the connection the proxy is registered by, or NoGen
    cmd,            \* cmd[c]: the send_remote_cmd of command c
    target,         \* target[c]: the session it was sent to
    pending,        \* the union of the sessions' pending_cmds
    results,        \* the union of the sessions' cmd_results
    \* Messages in flight.
    toServer, toClient

frpcVars == <<phase, gen, retries, executing>>
cmdVars  == <<cmd, target, pending, results>>
frpsVars == <<serving, sessions, owner>>
fixed    == <<prompt, tokenOk, portFree>>
vars == <<fixed, link, frpcVars, frpsVars, cmdVars, toServer, toClient>>

Phase == {"dialing", "login", "registering", "running", "waiting", "stopped"}
CmdState == {"new", "waiting", "woken", "answered", "timedOut", "failed"}

Msg == [type : {"login", "register", "loginOk", "loginError", "error"}]
         \cup [type : {"cmd", "resp"}, cmd : Cmds]

Login      == [type |-> "login"]
Register   == [type |-> "register"]
LoginOk    == [type |-> "loginOk"]
LoginError == [type |-> "loginError"]
Error      == [type |-> "error"]
Cmd(c)     == [type |-> "cmd", cmd |-> c]
Resp(c)    == [type |-> "resp", cmd |-> c]

TypeOK ==
    /\ {prompt, tokenOk, portFree} \subseteq BOOLEAN
    /\ link \in [Gens -> {"none", "up", "broken"}]
    /\ phase \in Phase /\ gen \in Gens \cup {NoGen} /\ retries \in 0..(MaxRetries + 1)
    /\ executing \subseteq Cmds
    /\ sessions \subseteq 1..gen /\ serving \subseteq 1..gen
    /\ owner \in (sessions \cap serving) \cup {NoGen}
    /\ cmd \in [Cmds -> CmdState] /\ target \in [Cmds -> Gens \cup {NoGen}]
    /\ pending \subseteq Cmds /\ results \subseteq Cmds
    /\ toServer \in [Gens -> Seq(Msg)] /\ toClient \in [Gens -> Seq(Msg)]

Init ==
    /\ prompt \in BOOLEAN /\ tokenOk \in BOOLEAN /\ portFree \in BOOLEAN
    /\ link = [g \in Gens |-> "none"]
    /\ phase = "dialing" /\ gen = NoGen /\ retries = 0 /\ executing = {}
    /\ serving = {} /\ sessions = {} /\ owner = NoGen
    /\ cmd = [c \in Cmds |-> "new"] /\ target = [c \in Cmds |-> NoGen]
    /\ pending = {} /\ results = {}
    /\ toServer = [g \in Gens |-> <<>>] /\ toClient = [g \in Gens |-> <<>>]

Sent(queues, g, msgs) ==
    IF link[g] = "up" THEN [queues EXCEPT ![g] = @ \o msgs] ELSE queues

-----------------------------------------------------------------------------
(* frpc: start() and _connect_and_run(). *)

\* An attempt or a session is over, however it ended: the next retry waits for
\* its delay, or there is none.
Retry ==
    /\ retries' = retries + 1
    /\ phase' = IF retries + 1 > MaxRetries THEN "stopped" ELSE "waiting"
    /\ UNCHANGED <<gen, executing>>

\* Both have seen the end of each connection there was.
Settled == serving = {}

Dial ==
    /\ phase = "dialing"
    /\ prompt => Settled
    /\ gen' = gen + 1 /\ phase' = "login"
    /\ link' = [link EXCEPT ![gen + 1] = "up"]
    /\ serving' = serving \cup {gen + 1}
    /\ toServer' = [toServer EXCEPT ![gen + 1] = <<Login>>]
    /\ UNCHANGED <<fixed, retries, executing, sessions, owner, cmdVars, toClient>>

DialFails ==
    /\ phase = "dialing"
    /\ Retry
    /\ UNCHANGED <<fixed, link, frpsVars, cmdVars, toServer, toClient>>

\* frps has closed the connection and everything it sent has been read.
Eof(g) == g \notin serving /\ toClient[g] = <<>>

\* One read brings any number of messages; _login takes the first and drops the
\* buffer with the others when it returns.
ReadLoginResp(n) ==
    /\ phase = "login"
    /\ n \in 1..Len(toClient[gen])
    /\ toClient' = [toClient EXCEPT ![gen] = SubSeq(@, n + 1, Len(@))]
    /\ IF Head(toClient[gen]) = LoginOk
       THEN phase' = "registering" /\ UNCHANGED <<gen, retries, executing>>
       ELSE Retry
    /\ UNCHANGED <<fixed, link, frpsVars, cmdVars, toServer>>

\* The answer does not come in ten seconds, or the connection ends. The
\* connection is left as it is: nothing closes control_writer.
LoginFails ==
    /\ phase = "login"
    /\ Retry
    /\ UNCHANGED <<fixed, link, frpsVars, cmdVars, toServer, toClient>>

\* register_proxies: nobody waits for an answer.
RegisterProxies ==
    /\ phase = "registering"
    /\ \/ /\ phase' = "running" /\ UNCHANGED <<gen, retries, executing>>
          /\ toServer' = Sent(toServer, gen, <<Register>>)
       \/ /\ link[gen] = "broken" \/ gen \notin serving
          /\ Retry /\ UNCHANGED toServer
    /\ UNCHANGED <<fixed, link, frpsVars, cmdVars, toClient>>

\* The reader task of a session, idle.
Reads(m) ==
    /\ phase = "running" /\ executing = {}
    /\ toClient[gen] # <<>> /\ m = Head(toClient[gen])
    /\ toClient' = [toClient EXCEPT ![gen] = Tail(@)]

\* A proxy that was refused is only logged.
ReadError ==
    /\ Reads(Error)
    /\ UNCHANGED <<fixed, link, frpcVars, frpsVars, cmdVars, toServer>>

HandleRemoteCmd(c) ==
    /\ Reads(Cmd(c))
    /\ executing' = {c}
    /\ UNCHANGED <<fixed, link, phase, gen, retries, frpsVars, cmdVars, toServer>>

\* The command has been executed; the answer is lost when the connection broke.
RemoteCmdDone(c) ==
    /\ c \in executing
    /\ executing' = {}
    /\ toServer' = Sent(toServer, gen, <<Resp(c)>>)
    /\ UNCHANGED <<fixed, link, phase, gen, retries, frpsVars, cmdVars, toClient>>

\* The reader task ends, and with it the session; the heartbeat, whose failure
\* ends nothing, is cancelled.
ReaderEnds ==
    /\ phase = "running" /\ executing = {}
    /\ link[gen] = "broken" \/ Eof(gen)
    /\ Retry
    /\ UNCHANGED <<fixed, link, frpsVars, cmdVars, toServer, toClient>>

DelayOver ==
    /\ phase = "waiting"
    /\ phase' = "dialing"
    /\ UNCHANGED <<fixed, link, gen, retries, executing, frpsVars, cmdVars, toServer,
                   toClient>>

-----------------------------------------------------------------------------
(* frps: handle_control_conn. *)

\* Faulty variant: the entry of the proxy is left behind.
EndServingKeepsProxy(g) ==
    /\ serving' = serving \ {g}
    /\ sessions' = sessions \ {g}
    /\ owner' = owner
    /\ toServer' = [toServer EXCEPT ![g] = <<>>]

\* What is left to do when handle_control_conn ends for connection g: the
\* session and what it registered go. Nobody who waits for an answer is woken.
EndServing(g) ==
    /\ serving' = serving \ {g}
    /\ sessions' = sessions \ {g}
    /\ owner' = IF owner = g THEN NoGen ELSE owner
    /\ toServer' = [toServer EXCEPT ![g] = <<>>]

FrpsReads(g, m) ==
    /\ g \in serving /\ toServer[g] # <<>> /\ m = Head(toServer[g])
    /\ toServer' = [toServer EXCEPT ![g] = Tail(@)]

\* The session is there before LOGIN_RESP is on its way.
HandleLogin(g) ==
    /\ tokenOk
    /\ FrpsReads(g, Login)
    /\ sessions' = sessions \cup {g}
    /\ toClient' = Sent(toClient, g, <<LoginOk>>)
    /\ UNCHANGED <<fixed, link, frpcVars, serving, owner, cmdVars>>

\* The connection breaks and the drain of LOGIN_RESP raises: handle_control_conn
\* has no session to remove when it ends, and the one stored stays.
LoginRespFails(g) ==
    /\ tokenOk
    /\ g \in serving /\ toServer[g] # <<>> /\ Head(toServer[g]) = Login
    /\ link' = [link EXCEPT ![g] = "broken"]
    /\ sessions' = sessions \cup {g}
    /\ serving' = serving \ {g}
    /\ owner' = IF owner = g THEN NoGen ELSE owner
    /\ toServer' = [toServer EXCEPT ![g] = <<>>]
    /\ toClient' = [toClient EXCEPT ![g] = <<>>]
    /\ UNCHANGED <<fixed, frpcVars, cmdVars>>

HandleBadLogin(g) ==
    /\ ~tokenOk
    /\ g \in serving /\ toServer[g] # <<>> /\ Head(toServer[g]) = Login
    /\ toClient' = Sent(toClient, g, <<LoginError>>)
    /\ EndServing(g)
    /\ UNCHANGED <<fixed, link, frpcVars, cmdVars>>

\* A name that is taken is refused, also when this frpc registered it in its
\* session before. A port that cannot be bound leaves nothing, and no message.
HandleRegister(g) ==
    /\ FrpsReads(g, Register)
    /\ \/ owner = NoGen /\ owner' = g /\ UNCHANGED toClient
       \/ owner = NoGen /\ ~portFree /\ UNCHANGED <<owner, toClient>>
       \/ owner # NoGen /\ toClient' = Sent(toClient, g, <<Error>>) /\ UNCHANGED owner
    /\ UNCHANGED <<fixed, link, frpcVars, serving, sessions, cmdVars>>

\* Faulty variant: the answer is only taken for a command that still waits, and
\* does not wake it.
HandleRemoteCmdRespSilently(g, c) ==
    /\ FrpsReads(g, Resp(c))
    /\ results' = results \cup {c}
    /\ UNCHANGED <<fixed, link, frpcVars, frpsVars, cmd, target, pending, toClient>>

\* The result is kept whether or not anybody still waits for it.
HandleRemoteCmdResp(g, c) ==
    /\ FrpsReads(g, Resp(c))
    /\ results' = results \cup {c}
    /\ pending' = pending \ {c}
    /\ cmd' = IF c \in pending THEN [cmd EXCEPT ![c] = "woken"] ELSE cmd
    /\ UNCHANGED <<fixed, link, frpcVars, frpsVars, target, toClient>>

\* Faulty variant: a connection without traffic is served for ever.
ConnectionEndsOnReset(g) ==
    /\ g \in serving
    /\ link[g] = "broken"
    /\ EndServing(g)
    /\ UNCHANGED <<fixed, link, frpcVars, cmdVars, toClient>>

\* The read ends or times out. A connection that frpc uses is kept from timing
\* out by its heartbeats, one that frpc has given up is not.
ConnectionEnds(g) ==
    /\ g \in serving
    /\ link[g] = "broken" \/ g # gen \/ phase \in {"waiting", "dialing", "stopped"}
    /\ EndServing(g)
    /\ UNCHANGED <<fixed, link, frpcVars, cmdVars, toClient>>

-----------------------------------------------------------------------------
(* frps: send_remote_cmd. *)

\* Up to the wait for the answer. The writer of a session that is not served any
\* more is closing.
SendRemoteCmd(c, g) ==
    /\ cmd[c] = "new" /\ g \in sessions
    /\ target' = [target EXCEPT ![c] = g]
    /\ \/ /\ g \in serving
          /\ cmd' = [cmd EXCEPT ![c] = "waiting"]
          /\ pending' = pending \cup {c}
          /\ toClient' = Sent(toClient, g, <<Cmd(c)>>)
       \/ /\ link[g] = "broken" \/ g \notin serving
          /\ cmd' = [cmd EXCEPT ![c] = "failed"]
          /\ UNCHANGED <<pending, toClient>>
    /\ UNCHANGED <<fixed, link, frpcVars, frpsVars, results, toServer>>

\* The waiter takes the answer, which is there: the branch "No response" is not
\* reached.
TakeResult(c) ==
    /\ cmd[c] = "woken"
    /\ cmd' = [cmd EXCEPT ![c] = IF c \in results THEN "answered" ELSE "failed"]
    /\ results' = results \ {c}
    /\ UNCHANGED <<fixed, link, frpcVars, frpsVars, target, pending, toServer, toClient>>

\* Faulty variant: the pending event is left behind.
CmdTimesOutPending(c) ==
    /\ cmd[c] = "waiting"
    /\ cmd' = [cmd EXCEPT ![c] = "timedOut"]
    /\ results' = results \ {c}
    /\ UNCHANGED <<fixed, link, frpcVars, frpsVars, target, pending, toServer, toClient>>

CmdTimesOut(c) ==
    /\ cmd[c] = "waiting"
    /\ cmd' = [cmd EXCEPT ![c] = "timedOut"]
    /\ pending' = pending \ {c} /\ results' = results \ {c}
    /\ UNCHANGED <<fixed, link, frpcVars, frpsVars, target, toServer, toClient>>

-----------------------------------------------------------------------------
(* Faults. *)

\* Nothing that is in flight arrives any more.
Breaks(g) ==
    /\ link[g] = "up"
    /\ link' = [link EXCEPT ![g] = "broken"]
    /\ toServer' = [toServer EXCEPT ![g] = <<>>]
    /\ toClient' = [toClient EXCEPT ![g] = <<>>]
    /\ UNCHANGED <<fixed, frpcVars, frpsVars, cmdVars>>

\* frps crashes and is started again, without any session or proxy; whoever
\* waited for an answer is gone.
FrpsRestarts ==
    /\ link' = [g \in Gens |-> IF link[g] = "up" THEN "broken" ELSE link[g]]
    /\ serving' = {} /\ sessions' = {} /\ owner' = NoGen
    /\ pending' = {} /\ results' = {}
    /\ cmd' = [c \in Cmds |-> IF cmd[c] \in {"waiting", "woken"} THEN "failed"
                              ELSE cmd[c]]
    /\ toServer' = [g \in Gens |-> <<>>] /\ toClient' = [g \in Gens |-> <<>>]
    /\ UNCHANGED <<fixed, frpcVars, target>>

-----------------------------------------------------------------------------

Frpc ==
    \/ Dial \/ LoginFails \/ RegisterProxies \/ ReadError \/ ReaderEnds \/ DelayOver
    \/ \E n \in 1..3 : ReadLoginResp(n)
    \/ \E c \in Cmds : HandleRemoteCmd(c) \/ RemoteCmdDone(c)

FrpsConn(g) ==
    \/ HandleLogin(g) \/ HandleBadLogin(g) \/ HandleRegister(g) \/ ConnectionEnds(g)
    \/ LoginRespFails(g)
    \/ \E c \in Cmds : HandleRemoteCmdResp(g, c)

Waiter(c) == TakeResult(c) \/ CmdTimesOut(c)

Next ==
    \/ Frpc \/ DialFails
    \/ \E g \in Gens : FrpsConn(g) \/ Breaks(g)
    \/ \E c \in Cmds : Waiter(c) \/ \E g \in Gens : SendRemoteCmd(c, g)
    \/ FrpsRestarts

Spec == Init /\ [][Next]_vars

\* Both event loops keep running. A connection does not have to break, and a
\* command does not have to time out, for anything below to happen.
Fairness ==
    /\ WF_vars(Frpc)
    /\ \A g \in Gens : WF_vars(FrpsConn(g))
    /\ \A c \in Cmds : WF_vars(TakeResult(c))

FairSpec == Spec /\ Fairness

-----------------------------------------------------------------------------
(* Properties. *)

\* The books of the remote commands agree with those who wait: an event is
\* pending for exactly the commands that wait, and one that was woken finds its
\* result. What else cmd_results holds are answers that came too late.
CommandBooks ==
    /\ pending = {c \in Cmds : cmd[c] = "waiting"}
    /\ \A c \in Cmds : cmd[c] = "woken" => c \in results
    /\ \A c \in results : cmd[c] \in {"woken", "timedOut"}

\* The session frpc is in, with a connection that works at both ends.
InSession(g) == phase = "running" /\ gen = g /\ link[g] = "up" /\ g \in serving

\* A client that has reconnected has its proxy again, provided that its port can
\* be bound and that frps knew of the end of the session before: REGISTER is not
\* repeated when the name is still taken by the connection the client has lost.
ProxyComesBack ==
    \A g \in Gens : prompt /\ portFree /\ InSession(g) ~> owner = g \/ ~InSession(g)

\* A remote command that reaches the reader of a session is answered, not only
\* timed out.
Delivered(c, g) ==
    InSession(g) /\ \E i \in 1..Len(toClient[g]) : toClient[g][i] = Cmd(c)

RemoteCmdIsAnswered ==
    \A c \in Cmds, g \in Gens :
        Delivered(c, g) ~> cmd[c] \in {"answered", "timedOut"} \/ ~InSession(g)

\* frps gives up every connection frpc has given up, whatever frpc did with it,
\* and the session with it. What stays for ever is only the session whose
\* connection was given up before the session was known to it (LoginRespFails).
OldSessionsEnd ==
    \A g \in Gens :
        /\ g \in serving /\ g < gen ~> g \notin serving
        /\ g \in sessions \cap serving /\ g < gen ~> g \notin sessions
=============================================================================
